------------------------------ MODULE MCDbPool -------------------------------
(* DbPool for TLC: more clients than connections, and more identities than   *)
(* connections, so that clients are refused and identities come back.  No    *)
(* symmetry: the run checks a liveness property.                             *)
EXTENDS DbPool

CONSTANTS c1, c2, c3, c4, k1, k2, k3, k4

MCClients == {c1, c2, c3, c4}
MCConns == {k1, k2, k3, k4}
=============================================================================
