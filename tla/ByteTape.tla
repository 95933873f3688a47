------------------------------ MODULE ByteTape -------------------------------
(***************************************************************************)
(* What a byte buffer promises: a tape that is written at its end and read *)
(* at a position; reading moves the position and loses, repeats or         *)
(* reorders nothing.  What lies before the position may be forgotten at    *)
(* any time.  EslBuffer is shown to implement it.                          *)
(***************************************************************************)
EXTENDS Naturals, Sequences

VARIABLES tape,  \* what was written and is still kept
          pos,   \* how much of it has been read
          in,    \* what was last to be written
          out    \* what the last read returned

vars == <<tape, pos, in, out>>

Init == tape = <<>> /\ pos = 0 /\ in = <<>> /\ out = <<>>

\* The tape without its first k bytes.
From(k) == SubSeq(tape, k + 1, Len(tape))

\* The bytes are appended, or none of them; those read may be forgotten.
Write ==
  /\ \E k \in {0, pos}, bytes \in {<<>>, in'} :
       tape' = From(k) \o bytes /\ pos' = pos - k
  /\ UNCHANGED out

Read ==
  /\ \E n \in 0 .. Len(tape) - pos :
       out' = SubSeq(tape, pos + 1, pos + n) /\ pos' = pos + n
  /\ UNCHANGED <<tape, in>>

\* The rest of the tape, and its beginning once more.
ReadAround ==
  /\ \E n \in 0 .. Len(tape) :
       out' = From(pos) \o SubSeq(tape, 1, n) /\ pos' = n
  /\ UNCHANGED <<tape, in>>

Move == pos' \in 0 .. Len(tape) /\ UNCHANGED <<tape, in, out>>

\* The tape is cleared and perhaps written to at once.
Clear == tape' \in {<<>>, in'} /\ pos' = 0 /\ UNCHANGED out

Next == Write \/ Read \/ ReadAround \/ Move \/ Clear

Spec == Init /\ [][Next]_vars
=============================================================================
