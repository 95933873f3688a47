----------------------------- MODULE EslSession -----------------------------
(***************************************************************************)
(* What an event-socket session promises the program that uses it:         *)
(* events are dispatched one by one in the order in which FreeSWITCH       *)
(* emitted them, and the response a command returns with is the response   *)
(* to that command; once the time limit of a command has expired, it may   *)
(* be the response to an earlier one.  EslHandle is shown to implement it. *)
(***************************************************************************)
EXTENDS Naturals

VARIABLES emitted,     \* events emitted
          dispatched,  \* events dispatched
          sent,        \* commands issued
          reply,       \* the command the response at hand answers, or 0
          expired      \* a command came back without its response

vars == <<emitted, dispatched, sent, reply, expired>>

Init ==
  /\ emitted = 0 /\ dispatched = 0
  /\ sent = 0 /\ reply = 0 /\ expired = FALSE

Emit == emitted' = emitted + 1 /\ UNCHANGED <<dispatched, sent, reply, expired>>

Dispatch ==
  /\ dispatched < emitted
  /\ dispatched' = dispatched + 1
  /\ UNCHANGED <<emitted, sent, reply, expired>>

\* A command goes out and the response to the one before it is forgotten.
Issue ==
  /\ sent' = sent + 1 /\ reply' = 0
  /\ UNCHANGED <<emitted, dispatched, expired>>

Respond ==
  /\ sent > 0 /\ reply = 0
  /\ reply' \in IF expired THEN 1 .. sent ELSE {sent}
  /\ UNCHANGED <<emitted, dispatched, sent, expired>>

Expire ==
  /\ sent > 0 /\ reply = 0
  /\ expired' = TRUE
  /\ UNCHANGED <<emitted, dispatched, sent, reply>>

\* A command that could not be sent, or a disconnect: there is no response.
Forget == reply' = 0 /\ UNCHANGED <<emitted, dispatched, sent, expired>>

Next == Emit \/ Dispatch \/ Issue \/ Respond \/ Expire \/ Forget

Spec == Init /\ [][Next]_vars
=============================================================================
