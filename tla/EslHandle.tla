----------------------------- MODULE EslHandle ------------------------------
(***************************************************************************)
(* An event-socket handle (src/esl/esl.c) in the hands of the thread that  *)
(* uses it (Inbound_Init, src/main.cpp:19-54): esl_send_recv_timed,        *)
(* esl_recv_event_timed, esl_recv_event and esl_disconnect over one TCP    *)
(* connection, from the successful esl_connect on.                         *)
(*                                                                         *)
(* A message is a whole packet with its body; how packets are cut out of   *)
(* the byte stream is EslBuffer's subject.  What remains here is that      *)
(* packet_buf may hold any number of whole messages and a fragment of the  *)
(* next.  last_reply and last_sr_reply are copies of a header of           *)
(* last_event and last_sr_event and are left out.  Each thread has its own *)
(* handle, so the mutex is never contended; depth is how often its owner   *)
(* has locked it (it is recursive).                                        *)
(*                                                                         *)
(* External: FreeSWITCH.  It answers commands in order, emits events at    *)
(* any time, may announce a disconnect, and may close the connection at    *)
(* any time, which may cost what it sent last.                             *)
(***************************************************************************)
EXTENDS Integers, Sequences

CONSTANTS Waits,      \* how commands wait: subset of {"block", "timed"}
          MaxCmds,    \* bound: commands sent
          MaxEvents   \* bound: events emitted

ASSUME WaitsAssumption == Waits \subseteq {"block", "timed"}
ASSUME BoundsAssumption == MaxCmds \in Nat \ {0} /\ MaxEvents \in Nat

VARIABLES
  (* the handle *)
  connected,      \* handle->connected
  depth,          \* handle->mutex: how often it is locked
  race_event,     \* handle->race_event: messages met while waiting for a reply
  last_event,     \* handle->last_event
  last_sr_event,  \* handle->last_sr_event
  last_ievent,    \* handle->last_ievent
  inBuf,          \* handle->packet_buf: whole messages in it, the head of wire
  part,           \* handle->packet_buf: a fragment of the next one is in it
  (* the thread *)
  pc,             \* "idle", or where the library waits
  wait,           \* ms of the command in progress: "block" is 0
  status,         \* what the last esl_send_recv_timed returned
  expired,        \* history: some command ran into its time limit
  app,            \* where the caller stands
  dispatched,     \* number of the last event given to process_event
  (* FreeSWITCH and the connection *)
  wire,           \* messages sent and not yet taken out of packet_buf
  sent, answered, \* commands sent, commands answered
  emitted,        \* events emitted
  notified,       \* a disconnect notice was sent
  closed          \* the connection is closed

handle == <<connected, depth, race_event, last_event, last_sr_event, last_ievent>>
buffer == <<inBuf, part>>
thread == <<pc, wait, status, expired, app, dispatched>>
peer == <<sent, answered, emitted, notified, closed>>
vars == <<handle, buffer, thread, wire, peer>>

-----------------------------------------------------------------------------
(* Messages.                                                               *)

Event(n) == [kind |-> "event", no |-> n]
Reply(n) == [kind |-> "reply", no |-> n]
Notice == [kind |-> "notice", no |-> 0]
NoMsg == [kind |-> "none", no |-> 0]

Msg == [kind : {"event", "reply", "notice"}, no : Nat]

\* esl_recv_event is reading the socket.
Reading == pc \in {"sr_read", "ev_read"}

\* How often esl_recv_event_timed and esl_recv_event lock the mutex: with a
\* time limit the trylock comes on top.
Locks == IF wait = "timed" THEN 2 ELSE 1

Init ==
  /\ connected = TRUE /\ depth = 0 /\ race_event = <<>>
  /\ last_event = NoMsg /\ last_sr_event = NoMsg /\ last_ievent = NoMsg
  /\ inBuf = 0 /\ part = FALSE
  /\ pc = "idle" /\ wait = "block" /\ status = "none" /\ expired = FALSE
  /\ app = "setup" /\ dispatched = 0
  /\ wire = <<>>
  /\ sent = 0 /\ answered = 0 /\ emitted = 0
  /\ notified = FALSE /\ closed = FALSE

-----------------------------------------------------------------------------
(* esl_send_recv_timed (esl_execute, esl_events, esl_send_recv).           *)

\* The caller sends one command, esl_events, to set up, and any number while
\* it handles an event.
MaySend(w) ==
  /\ pc = "idle" /\ sent < MaxCmds
  /\ \/ app = "setup" /\ sent = 0 /\ w = "block"
     \/ app = "handler"

\* Lock, forget the last response, send.  A send into a connection the peer
\* has closed may still succeed.
SendRecv(w) ==
  /\ MaySend(w) /\ connected
  /\ depth' = depth + 1
  /\ last_sr_event' = NoMsg
  /\ sent' = sent + 1
  /\ pc' = "recv" /\ wait' = w
  /\ UNCHANGED <<connected, race_event, last_event, last_ievent, buffer, status,
                 expired, app, dispatched, wire, answered, emitted, notified,
                 closed>>

\* esl_send fails.
SendFails(w) ==
  /\ MaySend(w) /\ connected /\ closed
  /\ connected' = FALSE
  /\ last_sr_event' = NoMsg
  /\ status' = "FAIL"
  /\ UNCHANGED <<depth, race_event, last_event, last_ievent, buffer, pc, wait,
                 expired, app, dispatched, wire, peer>>

\* Nobody handles SIGPIPE: a send into a reset connection may end the process.
SendKilled(w) ==
  /\ MaySend(w) /\ connected /\ closed
  /\ app' = "killed"
  /\ UNCHANGED <<handle, buffer, pc, wait, expired, status, dispatched, wire,
                 peer>>

\* Not connected: refused before anything changes.
SendRefused(w) ==
  /\ MaySend(w) /\ ~ connected
  /\ status' = "FAIL"
  /\ UNCHANGED <<handle, buffer, pc, wait, expired, app, dispatched, wire, peer>>

\* recv: esl_recv_event_timed(ms, check_q = 0).  Without a limit, with bytes
\* in the buffer, or when poll finds some (or the end of the stream),
\* esl_recv_event starts; it destroys last_ievent.
StartRead ==
  /\ pc = "recv"
  /\ \/ wait = "block"
     \/ inBuf > 0 \/ part \/ wire # <<>> \/ closed
  /\ depth' = depth + Locks
  /\ last_ievent' = NoMsg
  /\ pc' = "sr_read"
  /\ UNCHANGED <<connected, race_event, last_event, last_sr_event, buffer, wait,
                 expired, status, app, dispatched, wire, peer>>

\* poll waits ms in vain: ESL_BREAK.  What is on the wire may be under way.
PollTimeout ==
  /\ pc = "recv" /\ wait = "timed"
  /\ inBuf = 0 /\ ~ part /\ ~ closed
  /\ depth' = depth - 1
  /\ status' = "BREAK" /\ expired' = TRUE
  /\ pc' = "idle"
  /\ UNCHANGED <<connected, race_event, last_event, last_sr_event, last_ievent,
                 buffer, wait, app, dispatched, wire, peer>>

\* Mutant of QueueMessage: the message becomes the head of the list.
QueueMessageFirst ==
  /\ pc = "sr_read" /\ inBuf > 0 /\ Head(wire).kind # "reply"
  /\ race_event' = <<Head(wire)>> \o race_event
  /\ wire' = Tail(wire) /\ inBuf' = inBuf - 1
  /\ depth' = depth - Locks
  /\ pc' = "recv"
  /\ UNCHANGED <<connected, last_event, last_sr_event, last_ievent, part, wait,
                 expired, status, app, dispatched, peer>>

\* Mutant of QueueMessage: the list is replaced instead of extended.
QueueMessageOnly ==
  /\ pc = "sr_read" /\ inBuf > 0 /\ Head(wire).kind # "reply"
  /\ race_event' = <<Head(wire)>>
  /\ wire' = Tail(wire) /\ inBuf' = inBuf - 1
  /\ depth' = depth - Locks
  /\ pc' = "recv"
  /\ UNCHANGED <<connected, last_event, last_sr_event, last_ievent, part, wait,
                 expired, status, app, dispatched, peer>>

\* Mutant of QueueMessage: the frames of the receive are not unlocked.
QueueMessageLocked ==
  /\ pc = "sr_read" /\ inBuf > 0 /\ Head(wire).kind # "reply"
  /\ race_event' = Append(race_event, Head(wire))
  /\ wire' = Tail(wire) /\ inBuf' = inBuf - 1
  /\ pc' = "recv"
  /\ UNCHANGED <<connected, depth, last_event, last_sr_event, last_ievent, part,
                 wait, expired, status, app, dispatched, peer>>

\* The message is no reply: it joins race_event, the mutex is let go and
\* taken again, and the wait for the reply starts over.
QueueMessage ==
  /\ pc = "sr_read" /\ inBuf > 0 /\ Head(wire).kind # "reply"
  /\ race_event' = Append(race_event, Head(wire))
  /\ wire' = Tail(wire) /\ inBuf' = inBuf - 1
  /\ depth' = depth - Locks
  /\ pc' = "recv"
  /\ UNCHANGED <<connected, last_event, last_sr_event, last_ievent, part, wait,
                 expired, status, app, dispatched, peer>>

\* Mutant of TakeReply: the first message of any kind is the response.
TakeAnyReply ==
  /\ pc = "sr_read" /\ inBuf > 0
  /\ last_sr_event' = Head(wire)
  /\ wire' = Tail(wire) /\ inBuf' = inBuf - 1
  /\ status' = "SUCCESS"
  /\ depth' = depth - Locks - 1
  /\ pc' = "idle"
  /\ UNCHANGED <<connected, race_event, last_event, last_ievent, part, wait,
                 expired, app, dispatched, peer>>

\* The message is a reply: it is the response.
TakeReply ==
  /\ pc = "sr_read" /\ inBuf > 0 /\ Head(wire).kind = "reply"
  /\ last_sr_event' = Head(wire)
  /\ wire' = Tail(wire) /\ inBuf' = inBuf - 1
  /\ status' = "SUCCESS"
  /\ depth' = depth - Locks - 1
  /\ pc' = "idle"
  /\ UNCHANGED <<connected, race_event, last_event, last_ievent, part, wait,
                 expired, app, dispatched, peer>>

-----------------------------------------------------------------------------
(* esl_recv_event.                                                         *)

\* A recv brings any number of whole messages and perhaps a fragment.  The
\* buffer is looked at first, so this happens when no message is whole.
Read ==
  /\ Reading /\ inBuf = 0 /\ wire # <<>>
  /\ \E k \in 0 .. Len(wire), p \in BOOLEAN :
       /\ k > 0 \/ (p /\ ~ part)
       /\ p => k < Len(wire)
       /\ inBuf' = k /\ part' = p
  /\ UNCHANGED <<handle, thread, wire, peer>>

\* Mutant of ReadFails: the frame of esl_recv_event_timed keeps its lock.
ReadFailsLocked ==
  /\ Reading /\ wire = <<>> /\ closed
  /\ connected' = FALSE
  /\ depth' = IF pc = "sr_read" THEN depth - 2 ELSE depth - 1
  /\ status' = IF pc = "sr_read" THEN "FAIL" ELSE status
  /\ pc' = "idle"
  /\ UNCHANGED <<race_event, last_event, last_sr_event, last_ievent, buffer,
                 wait, expired, app, dispatched, wire, peer>>

\* Mutant of ReadFails: the end of the stream counts as a poll that found
\* nothing.
ReadFailsRetry == FALSE

\* The end of the stream: every frame unlocks and returns ESL_FAIL.
ReadFails ==
  /\ Reading /\ wire = <<>> /\ closed
  /\ connected' = FALSE
  /\ depth' = IF pc = "sr_read" THEN depth - Locks - 1 ELSE depth - 1
  /\ status' = IF pc = "sr_read" THEN "FAIL" ELSE status
  /\ pc' = "idle"
  /\ UNCHANGED <<race_event, last_event, last_sr_event, last_ievent, buffer,
                 wait, expired, app, dispatched, wire, peer>>

\* parse_event with save_event = NULL: the message becomes last_event; an
\* event is unpacked into last_ievent and given to process_event; a
\* disconnect notice ends the connection; a stray reply is dropped.
Accept(m) ==
  /\ last_event' = m
  /\ last_ievent' = IF m.kind = "event" THEN m ELSE NoMsg
  /\ connected' = (m.kind # "notice")
  /\ app' = IF m.kind = "event" THEN "handler" ELSE "loop"
  /\ dispatched' = IF m.kind = "event" THEN m.no ELSE dispatched

\* The loop calls esl_recv_event(check_q = 1, NULL): the queue comes first.
RecvQueued ==
  /\ app = "loop" /\ pc = "idle" /\ connected
  /\ race_event # <<>>
  /\ Accept(Head(race_event))
  /\ race_event' = Tail(race_event)
  /\ UNCHANGED <<depth, last_sr_event, buffer, pc, wait, expired, status, wire,
                 peer>>

\* Mutant of RecvStart: the socket is read although the queue has events.
RecvStartAnyway ==
  /\ app = "loop" /\ pc = "idle" /\ connected
  /\ depth' = depth + 1
  /\ last_ievent' = NoMsg
  /\ pc' = "ev_read"
  /\ UNCHANGED <<connected, race_event, last_event, last_sr_event, buffer, wait,
                 expired, status, app, dispatched, wire, peer>>

RecvStart ==
  /\ app = "loop" /\ pc = "idle" /\ connected
  /\ race_event = <<>>
  /\ depth' = depth + 1
  /\ last_ievent' = NoMsg
  /\ pc' = "ev_read"
  /\ UNCHANGED <<connected, race_event, last_event, last_sr_event, buffer, wait,
                 expired, status, app, dispatched, wire, peer>>

RecvMessage ==
  /\ pc = "ev_read" /\ inBuf > 0
  /\ Accept(Head(wire))
  /\ wire' = Tail(wire) /\ inBuf' = inBuf - 1
  /\ depth' = depth - 1
  /\ pc' = "idle"
  /\ UNCHANGED <<race_event, last_sr_event, part, wait, expired, status, peer>>

-----------------------------------------------------------------------------
(* The caller.                                                             *)

\* esl_events or process_event is done: back to the loop.
ToLoop ==
  /\ pc = "idle"
  /\ app = "handler" \/ (app = "setup" /\ (sent > 0 \/ ~ connected))
  /\ app' = "loop"
  /\ UNCHANGED <<handle, buffer, pc, wait, expired, status, dispatched, wire,
                 peer>>

\* The loop ends when esl_recv_event fails; esl_disconnect destroys all.
Disconnect ==
  /\ pc = "idle" /\ app = "loop" /\ ~ connected
  /\ app' = "exit"
  /\ race_event' = <<>>
  /\ last_event' = NoMsg /\ last_sr_event' = NoMsg /\ last_ievent' = NoMsg
  /\ depth' = 0 /\ inBuf' = 0 /\ part' = FALSE
  /\ wire' = <<>> /\ closed' = TRUE
  /\ UNCHANGED <<connected, pc, wait, expired, status, dispatched, sent,
                 answered, emitted, notified>>

-----------------------------------------------------------------------------
(* FreeSWITCH and the network (external).                                  *)

PeerSends(m) ==
  /\ ~ closed /\ ~ notified
  /\ wire' = Append(wire, m)
  /\ UNCHANGED <<handle, buffer, thread, sent, closed>>

\* Events are emitted once the subscription (the first command) is answered.
PeerEmits ==
  /\ emitted < MaxEvents /\ answered > 0
  /\ PeerSends(Event(emitted + 1))
  /\ emitted' = emitted + 1
  /\ UNCHANGED <<answered, notified>>

PeerAnswers ==
  /\ answered < sent
  /\ PeerSends(Reply(answered + 1))
  /\ answered' = answered + 1
  /\ UNCHANGED <<emitted, notified>>

PeerNotifies ==
  /\ PeerSends(Notice)
  /\ notified' = TRUE
  /\ UNCHANGED <<answered, emitted>>

PeerCloses ==
  /\ ~ closed
  /\ closed' = TRUE
  /\ \E k \in inBuf .. Len(wire) : wire' = SubSeq(wire, 1, k)
  /\ UNCHANGED <<handle, buffer, thread, sent, answered, emitted, notified>>

-----------------------------------------------------------------------------

Poll == StartRead \/ PollTimeout

Parse == QueueMessage \/ TakeReply \/ RecvMessage

Send(w) == SendRecv(w) \/ SendFails(w) \/ SendKilled(w) \/ SendRefused(w)

\* What the thread does by itself, whatever reaches it.
ThreadStep ==
  \/ app = "setup" /\ Send("block")
  \/ Poll \/ Parse \/ ReadFails \/ RecvQueued \/ RecvStart \/ ToLoop \/ Disconnect

Next ==
  \/ \E w \in Waits : Send(w)
  \/ StartRead \/ PollTimeout \/ QueueMessage \/ TakeReply
  \/ Read \/ ReadFails \/ RecvQueued \/ RecvStart \/ RecvMessage
  \/ ToLoop \/ Disconnect
  \/ PeerEmits \/ PeerAnswers \/ PeerNotifies \/ PeerCloses

Spec == Init /\ [][Next]_vars

\* The thread is scheduled; a handler sends finitely many commands.
ThreadFairness == WF_vars(ThreadStep)

\* FreeSWITCH answers what it received, closes after its notice, and what
\* was sent arrives.
PeerFairness ==
  /\ WF_vars(Read)
  /\ WF_vars(PeerAnswers)
  /\ WF_vars(notified /\ PeerCloses)

FairSpec == Spec /\ ThreadFairness /\ PeerFairness

\* The same thread on a network that may stall in the middle of a message.
\* What poll announces is there to be read, and once the end of the stream
\* has arrived, so has all that came before it.
StallSpec ==
  Spec /\ ThreadFairness /\ WF_vars(~ part /\ Read) /\ WF_vars(closed /\ Read)

-----------------------------------------------------------------------------
(* Properties.                                                             *)

TypeOK ==
  /\ connected \in BOOLEAN /\ depth \in 0 .. 3
  /\ race_event \in Seq(Msg) /\ wire \in Seq(Msg)
  /\ last_event \in Msg \cup {NoMsg}
  /\ last_sr_event \in Msg \cup {NoMsg}
  /\ last_ievent \in Msg \cup {NoMsg}
  /\ inBuf \in 0 .. Len(wire) /\ part \in BOOLEAN
  /\ pc \in {"idle", "recv", "sr_read", "ev_read"}
  /\ wait \in {"block", "timed"}
  /\ status \in {"none", "SUCCESS", "FAIL", "BREAK"} /\ expired \in BOOLEAN
  /\ app \in {"setup", "loop", "handler", "exit", "killed"}
  /\ sent \in 0 .. MaxCmds /\ answered \in 0 .. sent
  /\ emitted \in 0 .. MaxEvents /\ dispatched \in 0 .. emitted
  /\ notified \in BOOLEAN /\ closed \in BOOLEAN

\* Every way out of the library lets the recursive mutex go as often as it
\* took it, across the nested frames of esl_send_recv_timed,
\* esl_recv_event_timed (trylock) and esl_recv_event; else the next thread
\* to use the handle, or esl_mutex_destroy, would find it locked
\* (src/esl/esl.c:1211-1226,1489-1495,1582-1603).
LockBalanced ==
  depth = CASE pc = "idle" -> 0
            [] pc = "recv" -> 1
            [] pc = "ev_read" -> 1
            [] pc = "sr_read" -> 1 + Locks

\* The messages the loop has not met yet, in the order it will meet them.
Pipeline == race_event \o wire

\* Events met while a command waits for its reply are not overtaken by those
\* that come later: the race queue and the stream together hold the events
\* in the order of their emission, all of them newer than the last one
\* dispatched (src/esl/esl.c:1279-1285,1569-1578).
InOrder ==
  /\ \A i, j \in 1 .. Len(Pipeline) :
       (i < j /\ Pipeline[i].kind = "event" /\ Pipeline[j].kind = "event")
         => Pipeline[i].no < Pipeline[j].no
  /\ \A i \in 1 .. Len(Pipeline) :
       Pipeline[i].kind = "event" => Pipeline[i].no \in dispatched + 1 .. emitted

\* While the connection lasts, every event emitted is dispatched or still to
\* be met: waiting for a reply, a timeout and a late reply cost no event
\* (src/esl/esl.c:1558-1606).
NoEventLost ==
  connected /\ ~ closed =>
    \A n \in dispatched + 1 .. emitted :
      \E i \in 1 .. Len(Pipeline) : Pipeline[i] = Event(n)

\* A command that returned ESL_SUCCESS left its own response in
\* last_sr_event: "This will send a command and place its response event on
\* handle->last_sr_event" (src/esl/esl.h:461; src/esl/esl.c:1531-1606).
ReplyMatches ==
  status = "SUCCESS" /\ pc = "idle" /\ app # "exit" => last_sr_event = Reply(sent)

\* A handle is an EslSession: events are dispatched one by one in their order,
\* commands return with their own response, and only after a time limit has
\* expired with that of an earlier one (src/esl/esl.c:1256-1606).
Session ==
  INSTANCE EslSession
    WITH reply <- IF last_sr_event = NoMsg THEN 0 ELSE last_sr_event.no
SessionSpec == Session!Spec

\* A command always comes back: with its reply, or because the connection
\* ended (src/esl/esl.c:1558-1606).
CommandReturns == (pc = "recv") ~> (pc = "idle")

\* Every event is dispatched unless the connection ends first: the race
\* queue is not starved by the socket (src/esl/esl.c:1279-1285).
EventsDispatched ==
  \A n \in 1 .. MaxEvents :
    (emitted >= n) ~> (dispatched >= n \/ closed \/ ~ connected)

\* When FreeSWITCH closes the connection the thread notices, disconnects and
\* ends (or dies of the signal): src/main.cpp:41-53.
CloseEndsThread == closed ~> app \in {"exit", "killed"}

\* A wait with a time limit ends: "Poll the handle's socket until an event
\* is received, a connection error occurs or ms expires"
\* (src/esl/esl.h:453; src/esl/esl.c:1200-1226).
TimedWaitEnds == (pc = "recv" /\ wait = "timed") ~> (pc = "idle")
=============================================================================
