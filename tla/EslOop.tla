------------------------------- MODULE EslOop -------------------------------
(***************************************************************************)
(* Who owns an event, and walking over its headers: the class ESLevent of  *)
(* the event-socket library (src/esl/esl_oop.cpp).  An object owns its     *)
(* event until it is copied, which moves the event to the copy, or         *)
(* deleted, which frees it.  Its iterator is a pointer to a header.        *)
(*                                                                         *)
(* Each header is an element of Headers and is not used again once freed.  *)
(***************************************************************************)
EXTENDS Naturals, Sequences, FiniteSets, SequencesExt

CONSTANTS Objects,  \* ESLevent objects
          Events,   \* events of the library
          Headers   \* headers

NULL == "NULL"
Garbage == "garbage"

VARIABLES list,   \* list[e]: the headers of event e; Freed when e was freed
          obj,    \* obj[o]: whether object o exists, its event, mine and hp
          used,   \* headers and events that have been allocated
          walk    \* history: the headers o's walk has shown, if the walk is sound

vars == <<list, obj, used, walk>>

Freed == <<NULL>>
Gone == [alive |-> FALSE, event |-> NULL, mine |-> FALSE, hp |-> NULL]

\* A walk that may not go on: nothing is said about it.
Broken == [sound |-> FALSE, seen |-> <<>>]
Walk(seen) == [sound |-> TRUE, seen |-> seen]

Init ==
  /\ list = [e \in Events |-> Freed]
  /\ obj = [o \in Objects |-> Gone]
  /\ used = {}
  /\ walk = [o \in Objects |-> Broken]

-----------------------------------------------------------------------------
(* Objects.                                                                *)

\* ESLevent(type), ESLevent(event, 1): a new event, or a copy of one of the
\* handle, with some headers.
Create(o, e) ==
  /\ ~ obj[o].alive /\ e \notin used
  /\ \E s \in {<<>>} \cup {<<h>> : h \in Headers \ used} :
       /\ list' = [list EXCEPT ![e] = s]
       /\ used' = used \cup {e} \cup Range(s)
  /\ obj' = [obj EXCEPT ![o] = [alive |-> TRUE, event |-> e, mine |-> TRUE, hp |-> NULL]]
  /\ walk' = [walk EXCEPT ![o] = Broken]

\* The event can not be created.
CreateFails(o) ==
  /\ ~ obj[o].alive
  /\ obj' = [obj EXCEPT ![o] = [alive |-> TRUE, event |-> NULL, mine |-> FALSE, hp |-> NULL]]
  /\ walk' = [walk EXCEPT ![o] = Broken]
  /\ UNCHANGED <<list, used>>

\* Mutant of Copy: the original keeps its mark.
CopyShared(o, me) ==
  /\ ~ obj[o].alive /\ obj[me].alive
  /\ obj' = [obj EXCEPT ![o] = [obj[me] EXCEPT !.hp = Garbage]]
  /\ walk' = [walk EXCEPT ![o] = Broken, ![me] = Broken]
  /\ UNCHANGED <<list, used>>

\* ESLevent(me): the event moves.  The iterator of the copy is not set, and
\* that of the original stays.
Copy(o, me) ==
  /\ ~ obj[o].alive /\ obj[me].alive
  /\ obj' = [obj EXCEPT ![o] = [obj[me] EXCEPT !.hp = Garbage],
                        ![me] = [@ EXCEPT !.event = NULL, !.mine = FALSE]]
  /\ walk' = [walk EXCEPT ![o] = Broken, ![me] = Broken]
  /\ UNCHANGED <<list, used>>

\* ~ESLevent
Delete(o) ==
  /\ obj[o].alive
  /\ list' = IF obj[o].event # NULL /\ obj[o].mine
               THEN [list EXCEPT ![obj[o].event] = Freed] ELSE list
  /\ obj' = [obj EXCEPT ![o] = Gone]
  /\ walk' = [walk EXCEPT ![o] = Broken]
  /\ UNCHANGED used

-----------------------------------------------------------------------------
(* Headers.                                                                *)

\* addHeader, pushHeader and unshiftHeader of a new name: at the end.
addHeader(o, h) ==
  /\ obj[o].alive /\ obj[o].event # NULL /\ h \notin used
  /\ list' = [list EXCEPT ![obj[o].event] = Append(@, h)]
  /\ used' = used \cup {h}
  \* A walk that is at its end does not see it.
  /\ walk' = IF obj[o].hp = NULL THEN [walk EXCEPT ![o] = Broken] ELSE walk
  /\ UNCHANGED obj

\* setPriority: at the top.
setPriority(o, h) ==
  /\ obj[o].alive /\ obj[o].event # NULL /\ h \notin used
  /\ list' = [list EXCEPT ![obj[o].event] = <<h>> \o @]
  /\ used' = used \cup {h}
  /\ walk' = [walk EXCEPT ![o].seen = IF walk[o].sound THEN <<h>> \o @ ELSE @]
  /\ UNCHANGED obj

\* delHeader: the iterator is left, on a freed header perhaps.
delHeader(o, h) ==
  /\ obj[o].alive /\ obj[o].event # NULL /\ Contains(list[obj[o].event], h)
  /\ list' = [list EXCEPT ![obj[o].event] = RemoveFirst(@, h)]
  /\ walk' = [walk EXCEPT ![o] = IF obj[o].hp = h THEN Broken
                                 ELSE [walk[o] EXCEPT !.seen = RemoveFirst(@, h)]]
  /\ UNCHANGED <<obj, used>>

\* The header behind h in s.
After(s, h) ==
  LET i == CHOOSE i \in DOMAIN s : s[i] = h
  IN IF i = Len(s) THEN NULL ELSE s[i + 1]

\* Mutant of nextHeader: the iterator moves before the name is read.
NextFirst(o) ==
  /\ obj[o].alive /\ walk[o].sound /\ obj[o].hp # NULL
  /\ LET next == After(list[obj[o].event], obj[o].hp)
     IN /\ walk' = [walk EXCEPT ![o].seen = Append(@, next)]
        /\ obj' = [obj EXCEPT ![o].hp = next]
  /\ UNCHANGED <<list, used>>

\* firstHeader, up to its call of nextHeader.
firstHeader(o) ==
  /\ obj[o].alive /\ obj[o].event # NULL
  /\ LET s == list[obj[o].event]
     IN obj' = [obj EXCEPT ![o].hp = IF s = <<>> THEN NULL ELSE Head(s)]
  /\ walk' = [walk EXCEPT ![o] = Walk(<<>>)]
  /\ UNCHANGED <<list, used>>

\* nextHeader, of a walk that is sound: the name of the header, and on.
nextHeader(o) ==
  /\ obj[o].alive /\ walk[o].sound /\ obj[o].hp # NULL
  /\ walk' = [walk EXCEPT ![o].seen = Append(@, obj[o].hp)]
  /\ obj' = [obj EXCEPT ![o].hp = After(list[obj[o].event], obj[o].hp)]
  /\ UNCHANGED <<list, used>>

Next ==
  \E o \in Objects :
    \/ \E e \in Events : Create(o, e)
    \/ \E me \in Objects : Copy(o, me)
    \/ \E h \in Headers : addHeader(o, h) \/ setPriority(o, h) \/ delHeader(o, h)
    \/ CreateFails(o) \/ Delete(o) \/ firstHeader(o) \/ nextHeader(o)

Spec == Init /\ [][Next]_vars

-----------------------------------------------------------------------------
(* Properties.                                                             *)

\* An event that was not freed has one object that will free it.
OneOwner ==
  \A e \in Events :
    IF list[e] = Freed
      THEN \A o \in Objects : obj[o].event # e
      ELSE Cardinality({o \in Objects : obj[o].event = e /\ obj[o].mine}) = 1

\* A walk shows each header of the event once, in order, while headers come and
\* go; it is broken off only when the header it stands on is deleted, when one
\* comes behind its end, or when the event moves.
WalksWhole ==
  \A o \in Objects :
    walk[o].sound =>
      LET s == list[obj[o].event]
      IN IF obj[o].hp = NULL THEN walk[o].seen = s
         ELSE /\ Contains(s, obj[o].hp)
              /\ walk[o].seen = SubSeq(s, 1, SelectInSeq(s, LAMBDA h : h = obj[o].hp) - 1)

\* Events are freed once and never used after, and walks over their headers are
\* whole (src/esl/esl_oop.cpp:299-349).
EventsOwned == OneOwner /\ WalksWhole
=============================================================================
