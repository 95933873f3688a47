---------------------------- MODULE MCEslHandle -----------------------------
(* EslHandle for TLC.  All its constants are small numbers and sets of       *)
(* strings, given in the configurations.                                     *)
EXTENDS EslHandle
=============================================================================
