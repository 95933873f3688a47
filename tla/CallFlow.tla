------------------------------ MODULE CallFlow ------------------------------
(***************************************************************************)
(* How process_event (src/process_event.cpp) leads calls through the       *)
(* conversation script: play the recording of a node, evaluate what the    *)
(* recogniser heard, move on along an edge of the node, hang up at a node  *)
(* without edges.  nodeState and gIsAsr are global: all calls share them.  *)
(*                                                                         *)
(* A handler is one step.  It copies what it needs from the event before   *)
(* its first command, all its commands go to the channel of the event,     *)
(* which runs them in order, and events that arrive meanwhile queue up     *)
(* behind (EslHandle's InOrder), so nothing can tell the difference.       *)
(*                                                                         *)
(* External: the FreeSWITCH channels, which run the commands queued for    *)
(* them one after the other, the callers, the recogniser and the sentiment *)
(* service.  Texts are abstracted to what the handler tells apart.         *)
(***************************************************************************)
EXTENDS Naturals, Sequences, SequencesExt

CONSTANTS Calls,      \* the calls, by Caller-Unique-ID
          Script,     \* gKeymap: node -> edges, in the order of their exits
          Engines,    \* results are CUSTOM asr ("asr"), DETECTED_SPEECH ("speech")
          BargeIn,    \* results may come at any time, also several at once
          Unmarked,   \* results may come without Variable_node_state
          Unreliable, \* the sentiment service may fail: any answer
          Texts,      \* what callers say
          MaxResults  \* bound: results of one call

Taps == {"pos", "neg", "other"}   \* 肯定, 否定, neither
AllTexts == {"yes", "no", "vague", "unclear", "none"}

ASSUME ScriptAssumption ==
  /\ DOMAIN Script \subseteq Nat \ {0}
  /\ \A n \in DOMAIN Script :
       /\ Script[n] \in Seq([exit : Nat \ {0}, tap : Taps])
       /\ \A i, j \in 1 .. Len(Script[n]) :
            i <= j => Script[n][i].exit <= Script[n][j].exit
ASSUME InputAssumption ==
  /\ Engines \subseteq {"asr", "speech"} /\ Texts \subseteq AllTexts
  /\ {BargeIn, Unmarked, Unreliable} \subseteq BOOLEAN
  /\ MaxResults \in Nat

VARIABLES nodeState,  \* nodeState, 0 for the empty string
          gIsAsr,     \* gIsAsr
          crashed,    \* a lookup dereferenced nodeMap.end()
          events,     \* events on their way to process_event
          state,      \* state[c]: "new", "up" or "down"
          apps,       \* apps[c]: commands the channel has not run yet
          node,       \* node[c]: the channel's node_state, 0 if not set
          file,       \* file[c]: the node whose recording is played, or 0
          asr,        \* asr[c]: the recogniser listens
          said        \* said[c]: results so far

program == <<nodeState, gIsAsr, crashed>>
channels == <<state, apps, node, file, asr, said>>
vars == <<program, events, channels>>

Init ==
  /\ nodeState = 0 /\ gIsAsr = FALSE /\ crashed = FALSE
  /\ events = <<>>
  /\ state = [c \in Calls |-> "new"]
  /\ apps = [c \in Calls |-> <<>>]
  /\ node = [c \in Calls |-> 0]
  /\ file = [c \in Calls |-> 0]
  /\ asr = [c \in Calls |-> FALSE]
  /\ said = [c \in Calls |-> 0]

-----------------------------------------------------------------------------
(* Commands and events.                                                    *)

Do(app) == [app |-> app, arg |-> 0]
Set(n) == [app |-> "set", arg |-> n]
Playback(n) == [app |-> "playback", arg |-> n]

\* playDetectSpeech
playDetectSpeech(n) == <<Playback(n), Do("start_asr"), Do("park")>>

\* An event with the channel's node_state, as Variable_node_state.
Ev(type, c) == [type |-> type, call |-> c, node |-> node[c], text |-> "none"]

-----------------------------------------------------------------------------
(* process_event.                                                          *)

\* Mutant of NodeAt: the header only fills an empty nodeState.
NodeAtFirst(e) == IF nodeState # 0 THEN nodeState ELSE e.node

\* The node an event is evaluated at: its header, if any, replaces nodeState.
NodeAt(e) == IF e.node # 0 THEN e.node ELSE nodeState

\* sentiment_classifyRequesst: above, below, or neither of the two.
Scores(text) ==
  IF Unreliable THEN {"high", "low", "half"}
  ELSE CASE text = "yes" -> {"high"}
         [] text = "no" -> {"low"}
         [] OTHER -> {"half"}

\* The edges a text takes: one score is fetched for each edge tried.
Matches(edge, score) ==
  \/ edge.tap = "pos" /\ score = "high"
  \/ edge.tap = "neg" /\ score = "low"

\* Mutant of Walk: node_state is set only after the recording.
WalkLateSet(n, score, lead) ==
  LET edges == Script[n]
      Hit(i) == Matches(edges[i], score[i])
      Ends(i) == Hit(i) /\ edges[i].exit \in DOMAIN Script
      tried == {i \in 1 .. Len(edges) : \A j \in 1 .. i - 1 : ~ Ends(j)}
      Commands(i) ==
        CASE Ends(i) -> lead[edges[i].exit] \o <<Set(edges[i].exit)>>
          [] Hit(i) /\ ~ Ends(i) -> <<Set(edges[i].exit)>>
          [] OTHER -> <<>>
  IN [commands |-> FlattenSeq([i \in 1 .. Len(edges) |->
                                 IF i \in tried THEN Commands(i) ELSE <<>>]),
      moved |-> \E i \in tried : Ends(i)]

\* The loop over the edges of node n.  An edge that matches sets the node;
\* if the script has the node, the commands lead[node] follow and the loop ends.
Walk(n, score, lead) ==
  LET edges == Script[n]
      Hit(i) == Matches(edges[i], score[i])
      Ends(i) == Hit(i) /\ edges[i].exit \in DOMAIN Script
      tried == {i \in 1 .. Len(edges) : \A j \in 1 .. i - 1 : ~ Ends(j)}
      Commands(i) ==
        CASE Ends(i) -> <<Set(edges[i].exit)>> \o lead[edges[i].exit]
                          \o <<Set(edges[i].exit)>>
          [] Hit(i) /\ ~ Ends(i) -> <<Set(edges[i].exit)>>
          [] OTHER -> <<>>
  IN [commands |-> FlattenSeq([i \in 1 .. Len(edges) |->
                                 IF i \in tried THEN Commands(i) ELSE <<>>]),
      moved |-> \E i \in tried : Ends(i)]

\* Commands reach the channel while it is up; otherwise FreeSWITCH answers
\* with an error that nobody looks at.
Execute(c, commands) ==
  apps' = [apps EXCEPT ![c] = IF state[c] = "up" THEN @ \o commands ELSE @]

\* What all handlers have in common.
Process(e, commands) ==
  /\ events' = Tail(events)
  /\ nodeState' = NodeAt(e)
  /\ crashed' = FALSE
  /\ Execute(e.call, commands)
  /\ UNCHANGED <<state, node, file, asr, said>>

\* Events of this type head the queue.
Receives(type) == ~ crashed /\ events # <<>> /\ Head(events).type = type

\* nodeMap.find(atoi(nodeState)) returned end() and is dereferenced.
Missing(e) == NodeAt(e) \notin DOMAIN Script

\* Mutant of ParkCommands: the recording is started before the node is set.
ParkCommandsLateSet ==
  <<Do("answer")>>
    \o IF 1 \in DOMAIN Script THEN playDetectSpeech(1) \o <<Set(1)>> ELSE <<>>

\* Mutant of ParkCommands: the recogniser of the MRCP server is started.
ParkCommandsDetect ==
  <<Do("answer"), Set(1), Playback(1), Do("detect_start"), Do("park")>>

ParkCommands ==
  <<Do("answer")>>
    \o IF 1 \in DOMAIN Script THEN <<Set(1)>> \o playDetectSpeech(1) ELSE <<>>

\* CHANNEL_PARK: answer, record, and start at node 1.
HandlePark ==
  /\ Receives("park")
  /\ Process(Head(events), ParkCommands)
  /\ UNCHANGED gIsAsr

\* Mutant of HandlePlaybackStop: the test of the keyword is inverted.
PlaybackStopInverted ==
  LET e == Head(events) IN
  /\ Receives("stop") /\ ~ Missing(e)
  /\ gIsAsr' = FALSE
  /\ Process(e, IF Script[NodeAt(e)] # <<>> THEN <<Do("hangup")>> ELSE <<>>)

\* Mutant of HandlePlaybackStop: gIsAsr is not reset.
PlaybackStopDeaf ==
  LET e == Head(events) IN
  /\ Receives("stop") /\ ~ Missing(e)
  /\ Process(e, IF Script[NodeAt(e)] = <<>> THEN <<Do("hangup")>> ELSE <<>>)
  /\ UNCHANGED gIsAsr

\* PLAYBACK_STOP: results count again; a node without edges ends the call.
HandlePlaybackStop ==
  LET e == Head(events) IN
  /\ Receives("stop") /\ ~ Missing(e)
  /\ gIsAsr' = FALSE
  /\ Process(e, IF Script[NodeAt(e)] = <<>> THEN <<Do("hangup")>> ELSE <<>>)

\* Mutant of Heard: a second result before the next PLAYBACK_STOP counts.
HeardAlways(e) == e.text # "none"

\* The result is evaluated: it has a text and none was since the recording.
Heard(e) == ~ gIsAsr /\ e.text # "none"

\* CUSTOM asr, not evaluated: the recogniser is stopped.
HandleAsrIgnored ==
  LET e == Head(events) IN
  /\ Receives("asr") /\ ~ Heard(e)
  /\ Process(e, <<Do("stop_asr")>>)
  /\ UNCHANGED gIsAsr

\* CUSTOM asr, evaluated.  An unclear answer plays the recording again, an
\* edge that matches leads on, and what is left stops the recogniser.
HandleAsr ==
  LET e == Head(events)
      n == NodeAt(e)
      lead == [x \in DOMAIN Script |-> <<Playback(x)>>]
  IN /\ Receives("asr") /\ Heard(e) /\ ~ Missing(e)
     /\ gIsAsr' = TRUE
     /\ IF Script[n] # <<>> /\ e.text = "unclear"
        THEN Process(e, lead[n])
        ELSE \E score \in [1 .. Len(Script[n]) -> Scores(e.text)] :
               LET walk == Walk(n, score, lead)
               IN Process(e, walk.commands \o IF walk.moved THEN <<>>
                                              ELSE <<Do("stop_asr")>>)

\* The other events are only logged; like any event they set nodeState.
HandleLogged ==
  /\ Receives("logged")
  /\ Process(Head(events), <<>>)
  /\ UNCHANGED gIsAsr

\* DETECTED_SPEECH without a result is dropped.
HandleSpeechIgnored ==
  LET e == Head(events) IN
  /\ Receives("speech") /\ e.text = "none"
  /\ Process(e, <<>>)
  /\ UNCHANGED gIsAsr

\* DETECTED_SPEECH: the recogniser is stopped first; each recording starts it
\* again; a node without edges ends the call.
HandleSpeech ==
  LET e == Head(events)
      n == NodeAt(e)
      lead == [x \in DOMAIN Script |-> playDetectSpeech(x)]
      Stopped(commands) == <<Do("detect_stop")>> \o commands
  IN /\ Receives("speech") /\ e.text # "none" /\ ~ Missing(e)
     /\ IF Script[n] = <<>> THEN Process(e, Stopped(<<Do("hangup")>>))
        ELSE IF e.text = "unclear"
        THEN Process(e, Stopped(lead[n]))
        ELSE \E score \in [1 .. Len(Script[n]) -> Scores(e.text)] :
               Process(e, Stopped(Walk(n, score, lead).commands))
     /\ UNCHANGED gIsAsr

\* The handlers that look the node up do not look at what find returned.
LookupFails ==
  LET e == Head(events) IN
  /\ ~ crashed /\ events # <<>> /\ Missing(e)
  /\ \/ e.type = "stop"
     \/ e.type = "asr" /\ Heard(e)
     \/ e.type = "speech" /\ e.text # "none"
  /\ crashed' = TRUE
  /\ UNCHANGED <<nodeState, gIsAsr, events, channels>>

Handle ==
  \/ HandlePark \/ HandlePlaybackStop \/ HandleAsrIgnored \/ HandleAsr
  \/ HandleSpeechIgnored \/ HandleSpeech \/ HandleLogged \/ LookupFails

-----------------------------------------------------------------------------
(* The channels (external).                                                *)

\* A call is answered by the dialplan's park.
Arrive(c) ==
  /\ state[c] = "new"
  /\ state' = [state EXCEPT ![c] = "up"]
  /\ events' = Append(events, Ev("park", c))
  /\ UNCHANGED <<program, apps, node, file, asr, said>>

\* The channel runs its next command, once no recording is played.
Runs(c, app) ==
  /\ state[c] = "up" /\ file[c] = 0 /\ apps[c] # <<>> /\ Head(apps[c]).app = app
  /\ apps' = [apps EXCEPT ![c] = Tail(@)]
  /\ UNCHANGED <<program, said>>

RunSet(c) ==
  /\ Runs(c, "set")
  /\ node' = [node EXCEPT ![c] = Head(apps[c]).arg]
  /\ UNCHANGED <<events, state, file, asr>>

\* PLAYBACK_START stands for the events that are only logged.
RunPlayback(c) ==
  /\ Runs(c, "playback")
  /\ file' = [file EXCEPT ![c] = Head(apps[c]).arg]
  /\ events' = Append(events, Ev("logged", c))
  /\ UNCHANGED <<state, node, asr>>

\* start_asr, stop_asr and detect_speech stop.
RunListen(c) ==
  /\ \E app \in {"start_asr", "stop_asr", "detect_stop"} :
       /\ Runs(c, app)
       /\ asr' = [asr EXCEPT ![c] = app = "start_asr"]
  /\ UNCHANGED <<events, state, node, file>>

\* answer, and park on a channel that is parked (no second CHANNEL_PARK).
RunOther(c) ==
  /\ \E app \in {"answer", "park"} : Runs(c, app)
  /\ UNCHANGED <<events, state, node, file, asr>>

RunHangup(c) ==
  /\ state[c] = "up" /\ file[c] = 0 /\ apps[c] # <<>> /\ Head(apps[c]).app = "hangup"
  /\ state' = [state EXCEPT ![c] = "down"]
  /\ apps' = [apps EXCEPT ![c] = <<>>]
  /\ asr' = [asr EXCEPT ![c] = FALSE]
  /\ events' = Append(events, Ev("logged", c))
  /\ UNCHANGED <<program, node, file, said>>

\* The recording is over.
PlaybackEnds(c) ==
  /\ state[c] = "up" /\ file[c] # 0
  /\ file' = [file EXCEPT ![c] = 0]
  /\ events' = Append(events, Ev("stop", c))
  /\ UNCHANGED <<program, state, apps, node, asr, said>>

\* Calls with events the program has not handled yet.
Awaited == {events[i].call : i \in DOMAIN events}

\* The caller says something and the recogniser reports it.  One who does not
\* barge in hears the recording out and says one thing at a time.
Speaks(c, text) ==
  /\ state[c] = "up" /\ asr[c] /\ said[c] < MaxResults
  /\ BargeIn \/ (file[c] = 0 /\ apps[c] = <<>> /\ c \notin Awaited)
  /\ said' = [said EXCEPT ![c] = @ + 1]
  /\ \E type \in Engines, marked \in {TRUE, ~ Unmarked} :
       events' = Append(events,
                        [type |-> type,
                         call |-> c,
                         node |-> IF marked THEN node[c] ELSE 0,
                         text |-> text])
  /\ UNCHANGED <<program, state, apps, node, file, asr>>

\* The caller hangs up; a recording that is played stops (PLAYBACK_STOP),
\* and CHANNEL_HANGUP follows.
CallerHangsUp(c) ==
  /\ state[c] = "up"
  /\ state' = [state EXCEPT ![c] = "down"]
  /\ apps' = [apps EXCEPT ![c] = <<>>]
  /\ file' = [file EXCEPT ![c] = 0]
  /\ asr' = [asr EXCEPT ![c] = FALSE]
  /\ events' = events \o (IF file[c] # 0 THEN <<Ev("stop", c)>> ELSE <<>>)
                       \o <<Ev("logged", c)>>
  /\ UNCHANGED <<program, node, said>>

-----------------------------------------------------------------------------

ChannelStep(c) ==
  \/ RunSet(c) \/ RunPlayback(c) \/ RunListen(c) \/ RunOther(c) \/ RunHangup(c)
  \/ PlaybackEnds(c)

Next ==
  \/ HandlePark \/ HandlePlaybackStop \/ HandleAsrIgnored \/ HandleAsr
  \/ HandleSpeechIgnored \/ HandleSpeech \/ HandleLogged \/ LookupFails
  \/ \E c \in Calls :
       \/ Arrive(c) \/ CallerHangsUp(c)
       \/ RunSet(c) \/ RunPlayback(c) \/ RunListen(c) \/ RunOther(c) \/ RunHangup(c)
       \/ PlaybackEnds(c)
       \/ \E text \in Texts : Speaks(c, text)

Spec == Init /\ [][Next]_vars

\* The event loop and the channels go on; a caller who is listened to and
\* not hanging up says something in the end.
FairSpec ==
  /\ Spec
  /\ WF_vars(Handle)
  /\ \A c \in Calls :
       /\ WF_vars(ChannelStep(c))
       /\ WF_vars(\E text \in Texts : Speaks(c, text))

-----------------------------------------------------------------------------
(* Properties.                                                             *)

Event == [type : {"park", "stop", "asr", "speech", "logged"},
          call : Calls, node : Nat, text : AllTexts]
Command == [app : {"answer", "set", "playback", "start_asr", "stop_asr",
                   "detect_stop", "park", "hangup"},
            arg : Nat]

TypeOK ==
  /\ nodeState \in Nat /\ gIsAsr \in BOOLEAN /\ crashed \in BOOLEAN
  /\ events \in Seq(Event)
  /\ state \in [Calls -> {"new", "up", "down"}]
  /\ apps \in [Calls -> Seq(Command)]
  /\ node \in [Calls -> Nat] /\ file \in [Calls -> Nat]
  /\ asr \in [Calls -> BOOLEAN] /\ said \in [Calls -> 0 .. MaxResults]

\* The exits that lead to no node.
MissingExits ==
  (UNION {{Script[n][i].exit : i \in 1 .. Len(Script[n])} : n \in DOMAIN Script})
    \ DOMAIN Script

\* A lookup fails only at an exit of an edge that the script does not have:
\* never at the empty nodeState, before the node_state of any call has arrived,
\* and never at all if the script has all its exits
\* (src/process_event.cpp:77-78,361-362,416-417 use find's result unchecked).
NoFailedLookup ==
  crashed => events # <<>> /\ NodeAt(Head(events)) \in MissingExits

\* What a caller hears is the recording of the node the channel is at, so the
\* answer is evaluated against the question that was asked
\* (src/process_event.cpp:134-146, 262-264).
HearsOwnNode ==
  \A c \in Calls : file[c] # 0 => file[c] = node[c]

\* A call moves along the edges of the script, whatever results come late,
\* twice, or while a recording is played (src/process_event.cpp:70-72,363).
FollowsScript ==
  [][\A c \in Calls :
       node'[c] # node[c] =>
         \/ node'[c] = 1
         \/ /\ node[c] \in DOMAIN Script
            /\ \E i \in 1 .. Len(Script[node[c]]) :
                 Script[node[c]][i].exit = node'[c]]_vars

\* The program ends a call only at the end of the script, when its last
\* recording has been played (src/process_event.cpp:361-369).
HangsUpAtEnd ==
  [][\A c \in Calls :
       RunHangup(c) => node[c] \in DOMAIN Script /\ Script[node[c]] = <<>>]_vars

\* A caller who answers clearly, once per question and after it, is led
\* through the script to its end: the recogniser listens and gIsAsr is reset
\* whenever an answer is due (src/process_event.cpp:70-72,206,363).
CallEnds == \A c \in Calls : (state[c] = "up") ~> (state[c] = "down")
=============================================================================
