----------------------------- MODULE MCStartup ------------------------------
(* Startup for TLC: the test call, a script of one row, a   *)
(* pool that is small enough to be full.                                     *)
EXTENDS Startup

CONSTANTS c1, k1

MCCalls == {c1}
MCConns == {k1}
=============================================================================
