------------------------------ MODULE Service -------------------------------
(***************************************************************************)
(* What the call robot promises as a whole: it reads its script, then      *)
(* serves calls with a script that no longer changes, and then ends.       *)
(* Nobody is served before the script is read or after the end.            *)
(***************************************************************************)
EXTENDS Naturals

CONSTANTS Calls,  \* the calls
          Rows    \* the script has rows 1 .. Rows

VARIABLES phase,    \* "starting", "serving" or "ended"
          script,   \* the rows read
          attended  \* the calls served

vars == <<phase, script, attended>>

Init == phase = "starting" /\ script = 0 /\ attended = {}

Read ==
  /\ phase = "starting" /\ script < Rows
  /\ script' = script + 1
  /\ UNCHANGED <<phase, attended>>

Open == phase = "starting" /\ phase' = "serving" /\ UNCHANGED <<script, attended>>

Serve(c) ==
  /\ phase = "serving"
  /\ attended' = attended \cup {c}
  /\ UNCHANGED <<phase, script>>

End == phase' = "ended" /\ UNCHANGED <<script, attended>>

Next == Read \/ Open \/ (\E c \in Calls : Serve(c)) \/ End

Spec == Init /\ [][Next]_vars
=============================================================================
