----------------------------- MODULE MCCallFlow -----------------------------
(* CallFlow for TLC: scripts of a few nodes.                                 *)
EXTENDS CallFlow

CONSTANTS c1, c2

OneCall == {c1}
TwoCalls == {c1, c2}

Edge(exit, tap) == [exit |-> exit, tap |-> tap]

\* A question, a second one for those who refuse, and an end.  The edge back to
\* 1 makes the script cyclic; the last exit of either question is a node that
\* the script does not have.
Gap ==
  <<<<Edge(2, "neg"), Edge(3, "pos"), Edge(4, "pos")>>,
    <<Edge(1, "neg"), Edge(3, "other"), Edge(4, "pos")>>,
    <<>>>>

\* No way back: every answer leads closer to the end.
Straight ==
  <<<<Edge(2, "neg"), Edge(3, "pos")>>,
    <<Edge(3, "neg"), Edge(4, "pos")>>,
    <<Edge(4, "neg"), Edge(5, "pos")>>,
    <<>>,
    <<>>>>
=============================================================================
