------------------------------ MODULE IniStore ------------------------------
(***************************************************************************)
(* What an ini file promises: a table from (section, key) to values.  A    *)
(* value that is asked for and is missing is replaced by its default, and  *)
(* a crash either loses nothing or, while a file is rewritten, everything. *)
(***************************************************************************)
CONSTANTS Settings,   \* pairs of a section and a key
          Values,     \* the values written and the defaults
          Missing,    \* no value
          Shown(_)    \* a value as the program sees it

VARIABLES store,      \* store[x]: the value of setting x, or Missing
          answer      \* what the last question was answered

Init ==
  /\ store \in [Settings -> Values \cup {Missing}]
  /\ answer = Missing

Put(x, v) == store' = [store EXCEPT ![x] = v] /\ UNCHANGED answer

Get(x) ==
  /\ store[x] # Missing
  /\ answer' = Shown(store[x])
  /\ UNCHANGED store

\* The default is answered, and kept from now on.
GetDefault(x, v) ==
  /\ store[x] = Missing
  /\ answer' = v
  /\ store' = [store EXCEPT ![x] = v]

\* A default that can not be kept is answered all the same.
GetUnkept(x, v) == store[x] = Missing /\ answer' = v /\ UNCHANGED store

Lose == store' = [x \in Settings |-> Missing] /\ answer' = Missing

Restart == answer' = Missing /\ UNCHANGED store

Next ==
  \/ \E x \in Settings :
       \/ Get(x)
       \/ \E v \in Values \cup {Missing} : Put(x, v)
       \/ \E v \in Values : GetDefault(x, v) \/ GetUnkept(x, v)
  \/ Lose \/ Restart

Spec == Init /\ [][Next]_<<store, answer>>
=============================================================================
