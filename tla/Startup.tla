------------------------------- MODULE Startup ------------------------------
(***************************************************************************)
(* The process as a whole (src/main.cpp): main fills the pool of database  *)
(* connections, reads the script through it (SelectSql), starts three      *)
(* threads and joins them.  Each thread connects to FreeSWITCH with        *)
(* esl_connect_timeout; one that can not ends the process.  One attends    *)
(* calls, one only connects and disconnects, one originates a call.        *)
(*                                                                         *)
(* The pool is DbPool with main as its only client.  A thread's connection *)
(* is a command on its way to FreeSWITCH and the messages on their way     *)
(* back; how a handle receives them is EslHandle's subject, and what is    *)
(* done with an event CallFlow's.                                          *)
(*                                                                         *)
(* External: MySQL, FreeSWITCH, which may refuse, close or not answer, and *)
(* the callers.                                                            *)
(***************************************************************************)
EXTENDS Naturals, Sequences

CONSTANTS Calls,     \* calls
          TestCall,  \* the call test_Process originates
          Rows,      \* rows of ivr_node_flow_tbl with the version asked for
          Conns, NoConn, NoClient, MaxSize  \* see DbPool

ASSUME RowsAssumption == Rows \in Nat
ASSUME TestCallAssumption == TestCall \in Calls
ASSUME PoolAssumption == NoClient # "main" /\ NoConn \notin Conns /\ MaxSize \in Nat

Messages == {"auth/request", "rejection", "+OK accepted", "-ERR invalid", "reply", "notice"}

\* The event of a call is the call itself.
ASSUME CallsAssumption == Calls \cap Messages = {}

Threads == {"inbound", "callout", "test"}
Main == "main"

VARIABLES
  (* the process *)
  life,      \* "running", "exiting" (in exit), "ended", "crashed" or "killed"
  mainPc,    \* where main stands
  made,      \* what SelectSql has set of its state and result
  script,    \* rows in gKeymap
  loc,       \* loc[t]: where thread t stands
  attended,  \* calls process_event was called for
  (* the pool, see DbPool *)
  connList, curSize, lock, at, held, open,
  (* FreeSWITCH and the connections *)
  peer,      \* peer[t]: what FreeSWITCH knows of the connection of t
  cmd,       \* cmd[t]: the command of t under way
  inbox,     \* inbox[t]: messages on their way to t
  closed,    \* closed[t]: either side has closed the connection
  call,      \* call[c]: "none", "ringing" or "parked"
  early      \* history: calls parked while nobody had subscribed

pool == <<connList, curSize, lock, at, held, open>>
process == <<life, mainPc, made, script>>
switch == <<peer, cmd, inbox, closed, call, early>>
vars == <<process, loc, attended, pool, switch>>

Pool == INSTANCE DbPool WITH Clients <- {Main}, pc <- at

Init ==
  /\ life = "running" /\ mainPc = "get" /\ made = {} /\ script = 0
  /\ loc = [t \in Threads |-> "none"]
  /\ attended = {}
  /\ Pool!Init
  /\ peer = [t \in Threads |-> "none"]
  /\ cmd = [t \in Threads |-> "none"]
  /\ inbox = [t \in Threads |-> <<>>]
  /\ closed = [t \in Threads |-> FALSE]
  /\ call = [c \in Calls |-> "none"]
  /\ early = {}

-----------------------------------------------------------------------------
(* SelectSql.                                                              *)

At(l) == life = "running" /\ mainPc = l
Step(l, m) == At(l) /\ mainPc' = m

\* GetConnection
GetConnection ==
  /\ At("get") /\ at[Main] \in {"idle", "get", "recreate", "create"}
  /\ (Pool!Lock(Main) \/ Pool!Step(Main))
  /\ UNCHANGED <<process, loc, attended, switch>>

\* NULL is reported, and used all the same.
UsesNull ==
  /\ At("get") /\ at[Main] = "null"
  /\ life' = "crashed"
  /\ UNCHANGED <<mainPc, made, script, loc, attended, pool, switch>>

CreateStatement ==
  /\ at[Main] = "use"
  /\ Step("get", "query") /\ made' = {"state"}
  /\ UNCHANGED <<life, script, loc, attended, pool, switch>>

\* "use txacall", and the query
Query ==
  /\ held[Main] \in open
  /\ Step("query", "rows") /\ made' = {"state", "result"}
  /\ UNCHANGED <<life, script, loc, attended, pool, switch>>

\* Mutant of Row: the row is read when the threads run.
RowLate ==
  /\ (At("rows") \/ At("join"))
  /\ script < Rows
  /\ script' = script + 1
  /\ UNCHANGED <<life, mainPc, made, loc, attended, pool, switch>>

Row ==
  /\ At("rows") /\ script < Rows
  /\ script' = script + 1
  /\ UNCHANGED <<life, mainPc, made, loc, attended, pool, switch>>

AllRead ==
  /\ script = Rows
  /\ Step("rows", "delete")
  /\ UNCHANGED <<life, made, script, loc, attended, pool, switch>>

\* An SQLException, at any of these calls: the script stays as far as it is,
\* and nobody looks at what SelectSql returns.
Throws ==
  /\ at[Main] = "use"
  /\ mainPc \in {"get", "query", "rows"} /\ Step(mainPc, "delete")
  /\ UNCHANGED <<life, made, script, loc, attended, pool, switch>>

\* delete of a pointer that was never set: anything.
DeletesUnset ==
  /\ At("delete") /\ made # {"state", "result"}
  /\ life' = "crashed"
  /\ UNCHANGED <<mainPc, made, script, loc, attended, pool, switch>>

\* Mutant of Release: a connection whose query failed is kept.
ReleaseIfRead ==
  /\ Step("delete", "inbound") /\ made' = {}
  /\ IF script = Rows THEN Pool!ReleaseConnection(Main) ELSE UNCHANGED pool
  /\ UNCHANGED <<life, script, loc, attended, switch>>

\* delete result, delete state, ReleaseConnection
Release ==
  /\ Step("delete", "inbound") /\ made' = {}
  /\ Pool!ReleaseConnection(Main)
  /\ UNCHANGED <<life, script, loc, attended, switch>>

-----------------------------------------------------------------------------
(* Threads are started and joined.                                         *)

Following(t) ==
  CASE t = "inbound" -> "callout" [] t = "callout" -> "test" [] t = "test" -> "join"

Create(t) ==
  /\ Step(t, Following(t))
  /\ loc' = [loc EXCEPT ![t] = "connect"]
  /\ UNCHANGED <<life, made, script, attended, pool, switch>>

\* pthread_create fails: main returns 1.
CreateFails(t) ==
  /\ At(t)
  /\ life' = "exiting"
  /\ UNCHANGED <<mainPc, made, script, loc, attended, pool, switch>>

\* Mutant of Join: one thread is not joined.
JoinTwo ==
  /\ loc["inbound"] = "done" /\ loc["callout"] = "done"
  /\ Step("join", "unset")
  /\ UNCHANGED <<life, made, script, loc, attended, pool, switch>>

\* pthread_join of the three threads
Join ==
  /\ \A t \in Threads : loc[t] = "done"
  /\ Step("join", "unset")
  /\ UNCHANGED <<life, made, script, loc, attended, pool, switch>>

\* pthread_join of pthid4, which was never set: an error, or a crash.
JoinsUnset ==
  /\ At("unset") /\ life' \in {"exiting", "crashed"}
  /\ UNCHANGED <<mainPc, made, script, loc, attended, pool, switch>>

\* exit: the destructors of gKeymap and the other globals run, then the
\* process ends with all its threads.
Exit ==
  /\ life = "exiting"
  /\ life' = "ended"
  /\ UNCHANGED <<mainPc, made, script, loc, attended, pool, switch>>

-----------------------------------------------------------------------------
(* The threads.                                                            *)

\* Threads run on while exit runs.
Alive == life \in {"running", "exiting"}

Goto(t, l) == loc' = [loc EXCEPT ![t] = l]
Takes(t, msgs) == inbox[t] # <<>> /\ Head(inbox[t]) \in msgs
Taken(t) == inbox' = [inbox EXCEPT ![t] = Tail(@)]

\* A command; one sent into a closed connection is lost.
Send(t, c) == cmd' = [cmd EXCEPT ![t] = IF closed[t] THEN "none" ELSE c]

\* esl_connect_timeout: getaddrinfo, socket, connect
Connect(t) ==
  /\ Alive /\ loc[t] = "connect"
  /\ peer' = [peer EXCEPT ![t] = "new"]
  /\ Goto(t, "request")
  /\ UNCHANGED <<process, attended, pool, cmd, inbox, closed, call, early>>

\* The request to authenticate has come.
Authenticate(t) ==
  /\ Alive /\ loc[t] = "request" /\ Takes(t, {"auth/request"})
  /\ Taken(t) /\ Send(t, "auth")
  /\ Goto(t, "auth")
  /\ UNCHANGED <<process, attended, pool, peer, closed, call, early>>

\* What a thread sends when it is connected.
First(t) ==
  CASE t = "inbound" -> "events" [] t = "callout" -> "none" [] t = "test" -> "originate"

\* Mutant of Accepted: the text of the reply is not looked at.
AcceptedAnyway(t) ==
  /\ Alive /\ loc[t] = "auth" /\ Takes(t, {"+OK accepted", "-ERR invalid", "notice"})
  /\ Taken(t) /\ Send(t, First(t))
  /\ Goto(t, IF t = "callout" THEN "done" ELSE "reply")
  /\ closed' = [closed EXCEPT ![t] = @ \/ t = "callout"]
  /\ UNCHANGED <<process, attended, pool, peer, call, early>>

\* esl_connect_timeout succeeds.  The first thread subscribes, the last one
\* originates a call, and the other one disconnects and ends.
Accepted(t) ==
  /\ Alive /\ loc[t] = "auth" /\ Takes(t, {"+OK accepted"})
  /\ Taken(t) /\ Send(t, First(t))
  /\ Goto(t, IF t = "callout" THEN "done" ELSE "reply")
  /\ closed' = [closed EXCEPT ![t] = @ \/ t = "callout"]
  /\ UNCHANGED <<process, attended, pool, peer, call, early>>

\* Nothing more will come.
Lost(t) == inbox[t] = <<>> /\ closed[t]

\* esl_connect_timeout fails, wherever it stands: exit(1).
ConnectFails(t) ==
  /\ life = "running"
  /\ \/ loc[t] = "connect"
     \/ loc[t] = "request" /\ (Lost(t) \/ Takes(t, {"rejection", "notice"}))
     \/ loc[t] = "auth" /\ (Lost(t) \/ Takes(t, {"-ERR invalid", "notice"}))
  /\ life' = "exiting"
  /\ Goto(t, "exit")
  /\ UNCHANGED <<mainPc, made, script, attended, pool, switch>>

\* Mutant of Replied: the condition of the loop is inverted.
RepliedNoLoop(t) ==
  /\ Alive /\ loc[t] = "reply"
  /\ \/ Lost(t) /\ UNCHANGED inbox
     \/ Takes(t, {"reply", "notice"}) /\ Taken(t)
  /\ Goto(t, "done")
  /\ UNCHANGED <<process, attended, pool, peer, cmd, closed, call, early>>

\* The reply to the first command, whatever it says, or the end of the
\* connection.
Replied(t) ==
  /\ Alive /\ loc[t] = "reply"
  /\ \/ Lost(t) /\ UNCHANGED inbox
     \/ Takes(t, {"reply", "notice"}) /\ Taken(t)
  /\ Goto(t, IF t = "inbound" THEN "loop" ELSE "done")
  /\ UNCHANGED <<process, attended, pool, peer, cmd, closed, call, early>>

\* An event: process_event.  Its commands are CallFlow's subject.
HandlePark(c) ==
  /\ life = "running" /\ loc["inbound"] = "loop" /\ Takes("inbound", {c})
  /\ Taken("inbound")
  /\ attended' = attended \cup {c}
  /\ UNCHANGED <<process, loc, pool, peer, cmd, closed, call, early>>

\* The same while the destructors run: the script is being destroyed.
HandleParkLate ==
  /\ life = "exiting" /\ loc["inbound"] = "loop" /\ Takes("inbound", Calls)
  /\ life' = "crashed"
  /\ UNCHANGED <<mainPc, made, script, loc, attended, pool, switch>>

\* Mutant of LoopEnds: only the notice ends the loop.
LoopEndsNotice ==
  /\ Alive /\ loc["inbound"] = "loop"
  /\ Takes("inbound", {"notice"})
  /\ Goto("inbound", "done")
  /\ closed' = [closed EXCEPT !["inbound"] = TRUE]
  /\ UNCHANGED <<process, attended, pool, peer, cmd, inbox, call, early>>

\* The notice of the end, or the end: the loop ends and disconnects.
LoopEnds ==
  /\ Alive /\ loc["inbound"] = "loop"
  /\ (Lost("inbound") \/ Takes("inbound", {"notice"}))
  /\ Goto("inbound", "done")
  /\ closed' = [closed EXCEPT !["inbound"] = TRUE]
  /\ UNCHANGED <<process, attended, pool, peer, cmd, inbox, call, early>>

\* Nobody handles SIGPIPE: what is sent into a closed connection may end the
\* process.
Killed(t) ==
  /\ Alive /\ closed[t]
  /\ \/ loc[t] = "request" /\ Takes(t, {"auth/request"})
     \/ loc[t] = "auth" /\ t # "callout" /\ Takes(t, {"+OK accepted"})
     \/ loc[t] = "loop" /\ Takes(t, Calls)
  /\ life' = "killed"
  /\ UNCHANGED <<mainPc, made, script, loc, attended, pool, switch>>

-----------------------------------------------------------------------------
(* FreeSWITCH, MySQL and the callers (external), as long as the process    *)
(* lives.                                                                  *)

Tells(t, msg) == inbox' = [inbox EXCEPT ![t] = Append(@, msg)]

\* A new connection is asked to authenticate, or turned away.
Challenge(t) ==
  /\ Alive /\ peer[t] = "new" /\ ~ closed[t]
  /\ \/ /\ Tells(t, "auth/request")
        /\ peer' = [peer EXCEPT ![t] = "challenged"]
        /\ UNCHANGED closed
     \/ /\ Tells(t, "rejection")
        /\ closed' = [closed EXCEPT ![t] = TRUE]
        /\ UNCHANGED peer
  /\ UNCHANGED <<process, loc, attended, pool, cmd, call, early>>

AnswerAuth(t) ==
  /\ Alive /\ cmd[t] = "auth" /\ ~ closed[t]
  /\ cmd' = [cmd EXCEPT ![t] = "none"]
  /\ \/ Tells(t, "+OK accepted") /\ peer' = [peer EXCEPT ![t] = "authed"]
     \/ Tells(t, "-ERR invalid") /\ UNCHANGED peer
  /\ UNCHANGED <<process, loc, attended, pool, closed, call, early>>

AnswerCommand(t) ==
  /\ Alive /\ cmd[t] \in {"events", "originate"} /\ ~ closed[t]
  /\ cmd' = [cmd EXCEPT ![t] = "none"]
  /\ Tells(t, "reply")
  /\ peer' = [peer EXCEPT ![t] = IF cmd[t] = "events" THEN "subscribed" ELSE @]
  /\ call' = IF cmd[t] = "originate" /\ call[TestCall] = "none"
               THEN [call EXCEPT ![TestCall] = "ringing"] ELSE call
  /\ UNCHANGED <<process, loc, attended, pool, closed, early>>

\* A call is parked, the test call once it is originated.
Park(c) ==
  /\ Alive /\ call[c] = IF c = TestCall THEN "ringing" ELSE "none"
  /\ call' = [call EXCEPT ![c] = "parked"]
  /\ IF peer["inbound"] = "subscribed" /\ ~ closed["inbound"]
       THEN Tells("inbound", c) /\ UNCHANGED early
       ELSE UNCHANGED inbox /\ early' = early \cup {c}
  /\ UNCHANGED <<process, loc, attended, pool, peer, cmd, closed>>

\* A connection is closed, with or without a notice; what was on its way to
\* FreeSWITCH is lost.
Closes(t) ==
  /\ Alive /\ peer[t] # "none" /\ ~ closed[t] /\ loc[t] # "done"
  /\ closed' = [closed EXCEPT ![t] = TRUE]
  /\ cmd' = [cmd EXCEPT ![t] = "none"]
  /\ (Tells(t, "notice") \/ UNCHANGED inbox)
  /\ UNCHANGED <<process, loc, attended, pool, peer, call, early>>

ServerCloses ==
  /\ Alive /\ Pool!ServerCloses
  /\ UNCHANGED <<process, loc, attended, switch>>

-----------------------------------------------------------------------------

MainStep ==
  \/ GetConnection \/ UsesNull \/ CreateStatement \/ Query \/ Row \/ AllRead
  \/ Throws \/ DeletesUnset \/ Release
  \/ \E t \in Threads : Create(t) \/ CreateFails(t)
  \/ Join \/ JoinsUnset \/ Exit

ThreadStep(t) ==
  \/ Connect(t) \/ ConnectFails(t) \/ Authenticate(t) \/ Accepted(t) \/ Replied(t)
  \/ Killed(t)

LoopStep == LoopEnds \/ HandleParkLate \/ \E c \in Calls : HandlePark(c)

Answers(t) == Challenge(t) \/ AnswerAuth(t) \/ AnswerCommand(t)

Next ==
  \/ MainStep \/ LoopStep
  \/ \E t \in Threads : ThreadStep(t) \/ Answers(t) \/ Closes(t)
  \/ \E c \in Calls : Park(c)
  \/ ServerCloses

Spec == Init /\ [][Next]_vars

\* Threads are scheduled, FreeSWITCH answers, and MySQL does, too.
FairSpec ==
  /\ Spec
  /\ WF_vars(MainStep) /\ WF_vars(LoopStep)
  /\ \A t \in Threads : WF_vars(ThreadStep(t)) /\ WF_vars(Answers(t))

-----------------------------------------------------------------------------
(* Properties.                                                             *)

TypeOK ==
  /\ life \in {"running", "exiting", "ended", "crashed", "killed"}
  /\ mainPc \in {"get", "query", "rows", "delete", "join", "unset"} \cup Threads
  /\ made \subseteq {"state", "result"}
  /\ script \in 0 .. Rows
  /\ loc \in [Threads -> {"none", "connect", "request", "auth", "reply", "loop",
                          "exit", "done"}]
  /\ attended \subseteq Calls
  /\ peer \in [Threads -> {"none", "new", "challenged", "authed", "subscribed"}]
  /\ cmd \in [Threads -> {"none", "auth", "events", "originate"}]
  /\ inbox \in [Threads -> Seq(Messages \cup Calls)]
  /\ closed \in [Threads -> BOOLEAN]
  /\ call \in [Calls -> {"none", "ringing", "parked"}]
  /\ early \subseteq Calls

Started(t) == loc[t] # "none"

\* A thread asks FreeSWITCH for something only on a connection that was
\* accepted: whatever comes instead of the request to authenticate or of
\* "+OK accepted" ends the attempt (src/esl/esl.c:1080-1116).
AcceptedFirst ==
  \A t \in Threads :
    cmd[t] \in {"events", "originate"} => peer[t] \in {"authed", "subscribed"}

\* When threads run main has given back the connection it borrowed, however
\* its query ended, and the pool is unlocked: it is all there for the threads
\* (src/common/DBOperator.cpp:59-66).
LoanReturned ==
  (\E t \in Threads : Started(t)) => held[Main] = NoConn /\ lock = NoClient

\* The process does not crash while it serves: only before a thread is
\* started, when main has joined all, or when exit was called or a connection
\* was closed under a command (src/main.cpp:154-177).
CrashOnlyAtEnds ==
  [][life = "running" /\ life' = "crashed" =>
       \/ \A t \in Threads : loc[t] = "none"
       \/ \A t \in Threads : loc[t] = "done"]_vars

\* What the process is doing, as Service sees it.
Phase ==
  CASE life # "running" -> "ended"
    [] life = "running" /\ Started("inbound") -> "serving"
    [] OTHER -> "starting"

\* A call is served with a script that has been read before and does not
\* change any more, and none is served before the start or after the end; that
\* the threads share gKeymap with main without a lock does no harm
\* (src/main.cpp:134-154).
Serving == INSTANCE Service WITH phase <- Phase
ServiceSpec == Serving!Spec

\* The process ended before main has joined its threads.
Aborted == life # "running" /\ mainPc # "unset"

\* Each call that is parked is attended, unless it was parked before the
\* subscription: the thread that originates the test call does not wait for
\* it (src/main.cpp:36,110).  Or else the connection is closed, or another
\* thread has ended the process.
CallsAttended ==
  \A c \in Calls :
    call[c] = "parked" ~>
      c \in attended \/ c \in early \/ closed["inbound"] \/ Aborted

\* When FreeSWITCH has closed the connection that calls come from the process
\* ends, one way or the other (src/main.cpp:41-53,174-185).
ProcessEnds == closed["inbound"] ~> life \in {"ended", "crashed", "killed"}
=============================================================================
