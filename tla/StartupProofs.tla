--------------------------- MODULE StartupProofs ----------------------------
(***************************************************************************)
(* Safety of Startup for any calls, any script and any size of the pool.   *)
(*                                                                         *)
(* The invariant has three parts besides the types: how main's place in    *)
(* its program agrees with the pool and with the threads (Order), how main *)
(* stands with the pool (Borrowing: DbPool's Critical for one client), and *)
(* how the two ends of each connection agree (Handshake).                  *)
(***************************************************************************)
EXTENDS Startup, SequenceTheorems, TLAPS

\* Main has the mutex of the pool just while it is in GetConnection, and a
\* connection just while it uses one.
Borrowing ==
  /\ at \in [{Main} -> {"idle", "get", "recreate", "create", "use", "null"}]
  /\ held \in [{Main} -> Conns \cup {NoConn}]
  /\ lock \in {Main, NoClient}
  /\ connList \in Seq(Conns)
  /\ lock = Main <=> at[Main] \in {"get", "recreate", "create"}
  /\ held[Main] # NoConn <=> at[Main] = "use"

\* The threads wait for main, and main for the threads.
Order ==
  /\ mainPc \in {"get", "query", "rows", "delete", "inbound"} =>
       \A t \in Threads : loc[t] = "none"
  /\ mainPc = "callout" => loc["callout"] = "none" /\ loc["test"] = "none"
  /\ mainPc = "test" => loc["test"] = "none"
  /\ mainPc \in {"query", "rows", "delete"} => at[Main] = "use"
  /\ mainPc \in Threads \cup {"join", "unset"} => at[Main] = "idle"
  /\ mainPc = "unset" => \A t \in Threads : loc[t] = "done"

\* A connection that is not there is silent, "+OK accepted" is on its way
\* only from a FreeSWITCH that has accepted, and commands only to one.
Agree(t) ==
  /\ loc[t] \in {"none", "connect"} =>
       inbox[t] = <<>> /\ peer[t] = "none" /\ cmd[t] = "none"
  /\ \A i \in 1 .. Len(inbox[t]) :
       inbox[t][i] = "+OK accepted" => peer[t] \in {"authed", "subscribed"}
  /\ cmd[t] \in {"events", "originate"} => peer[t] \in {"authed", "subscribed"}

Handshake == \A t \in Threads : Agree(t)

IInv == TypeOK /\ Borrowing /\ Order /\ Handshake

\* What is left of a sequence, or of one that has grown, holds nothing new.
LEMMA Contents ==
  ASSUME NEW S, NEW s \in Seq(S)
  PROVE  /\ s # <<>> => /\ Head(s) \in S /\ Head(s) = s[1] /\ 1 \in 1 .. Len(s)
                        /\ Tail(s) \in Seq(S)
                        /\ \A i \in 1 .. Len(Tail(s)) :
                             i + 1 \in 1 .. Len(s) /\ Tail(s)[i] = s[i + 1]
         /\ \A x \in S : /\ Append(s, x) \in Seq(S)
                         /\ \A i \in 1 .. Len(Append(s, x)) :
                              \/ Append(s, x)[i] = x
                              \/ i \in 1 .. Len(s) /\ Append(s, x)[i] = s[i]
<1>1. ASSUME s # <<>>
      PROVE  /\ Head(s) \in S /\ Head(s) = s[1] /\ 1 \in 1 .. Len(s)
             /\ Tail(s) \in Seq(S)
             /\ \A i \in 1 .. Len(Tail(s)) :
                  i + 1 \in 1 .. Len(s) /\ Tail(s)[i] = s[i + 1]
  <2>1. Len(s) \in Nat /\ Len(s) # 0
    BY <1>1, EmptySeq
  <2> QED
    BY <1>1, <2>1, HeadTailProperties
<1>2. ASSUME NEW x \in S
      PROVE  /\ Append(s, x) \in Seq(S)
             /\ \A i \in 1 .. Len(Append(s, x)) :
                  \/ Append(s, x)[i] = x
                  \/ i \in 1 .. Len(s) /\ Append(s, x)[i] = s[i]
  BY AppendProperties, LenProperties
<1> QED
  BY <1>1, <1>2

-----------------------------------------------------------------------------
(* Main.                                                                   *)

\* The first state.
LEMMA InitIInv == Init => IInv
<1> SUFFICES ASSUME Init PROVE IInv
  OBVIOUS
<1> USE DEF Init, Main, Threads
<1>1. TypeOK
  BY RowsAssumption, EmptySeq DEF TypeOK, Messages
<1>2. Borrowing
  <2>1. PICK n \in 0 .. (MaxSize \div 2) : connList \in [1 .. n -> Conns]
    BY DEF Pool!Init
  <2>2. connList \in Seq(Conns)
    BY <2>1, PoolAssumption, SeqDef
  <2> QED
    BY <2>2, PoolAssumption DEF Pool!Init, Borrowing
<1>3. Order /\ Handshake
  BY EmptySeq DEF Order, Handshake, Agree
<1> QED
  BY <1>1, <1>2, <1>3 DEF IInv

\* A step of the pool keeps what main has of it, and its place in it is one
\* that GetConnection or ReleaseConnection leads to.
LEMMA PoolSteps ==
  ASSUME Borrowing
  PROVE  /\ Pool!Lock(Main) \/ Pool!Step(Main) => Borrowing'
         /\ Pool!ReleaseConnection(Main) => (Borrowing' /\ at'[Main] = "idle")
         /\ Pool!ServerCloses => (Borrowing' /\ at' = at)
<1> USE PoolAssumption DEF Borrowing, Pool!Goto, Pool!Unlocked, Main
<1>1. Pool!Lock(Main) => Borrowing'
  BY DEF Pool!Lock
<1>2. Pool!Step(Main) => Borrowing'
  <2>1. ASSUME Pool!TakeIdle(Main) PROVE Borrowing'
    BY <2>1, Contents DEF Pool!TakeIdle
  <2>2. ASSUME Pool!DropClosed(Main) PROVE Borrowing'
    BY <2>2, Contents DEF Pool!DropClosed
  <2>3. ASSUME Pool!Grow(Main) \/ Pool!Refuse(Main) PROVE Borrowing'
    BY <2>3 DEF Pool!Grow, Pool!Refuse
  <2>4. ASSUME Pool!ConnectOk(Main) PROVE Borrowing'
    BY <2>4 DEF Pool!ConnectOk
  <2>5. ASSUME Pool!ConnectFail(Main) PROVE Borrowing'
    BY <2>5 DEF Pool!ConnectFail
  <2> QED
    BY <2>1, <2>2, <2>3, <2>4, <2>5 DEF Pool!Step
<1>3. Pool!ReleaseConnection(Main) => Borrowing' /\ at'[Main] = "idle"
  BY Contents DEF Pool!ReleaseConnection
<1>4. Pool!ServerCloses => Borrowing' /\ at' = at
  BY DEF Pool!ServerCloses
<1> QED
  BY <1>1, <1>2, <1>3, <1>4

\* What is left alone stays right.
LEMMA Frame ==
  /\ Borrowing /\ UNCHANGED pool => Borrowing'
  /\ Handshake /\ UNCHANGED <<loc, switch>> => Handshake'
<1>1. Borrowing /\ UNCHANGED pool => Borrowing'
  BY DEF Borrowing, pool
<1>2. Handshake /\ UNCHANGED <<loc, switch>> => Handshake'
  BY DEF Handshake, Agree, switch
<1> QED
  BY <1>1, <1>2

\* The steps of main, and those of exit.
LEMMA MainIInv == IInv /\ MainStep => IInv'
<1> SUFFICES ASSUME IInv, MainStep PROVE IInv'
  OBVIOUS
<1> USE DEF IInv, At, Step, Main
<1>a. ASSUME GetConnection PROVE IInv'
  <2>1. Borrowing'
    BY <1>a, PoolSteps DEF GetConnection
  <2>2. mainPc = "get" /\ UNCHANGED <<process, loc, attended, switch>>
    BY <1>a DEF GetConnection
  <2>3. TypeOK' /\ Order'
    BY <2>2 DEF TypeOK, Order, process, switch, Threads
  <2> QED
    BY <2>1, <2>2, <2>3, Frame
<1>b. ASSUME UNCHANGED <<mainPc, made, script, loc, attended, pool, switch>>,
             life' \in {"exiting", "crashed", "ended"}
      PROVE  IInv'
  <2>1. TypeOK' /\ Order'
    BY <1>b DEF TypeOK, Order, pool, switch
  <2> QED
    BY <1>b, <2>1, Frame
<1>c. ASSUME CreateStatement \/ Query \/ Row \/ AllRead \/ Throws PROVE IInv'
  <2>1. /\ mainPc \in {"get", "query", "rows"} /\ at[Main] = "use"
        /\ mainPc' \in {"query", "rows", "delete"}
        /\ made' \subseteq {"state", "result"} /\ script' \in 0 .. Rows
        /\ UNCHANGED <<life, loc, attended, pool, switch>>
    <3>1. made \subseteq {"state", "result"} /\ script \in 0 .. Rows
      BY DEF TypeOK
    <3>2. script # Rows => script + 1 \in 0 .. Rows
      BY <3>1, RowsAssumption
    <3>3. CASE CreateStatement \/ Query
      BY <3>1, <3>3 DEF CreateStatement, Query, Order
    <3>4. CASE Row
      BY <3>1, <3>2, <3>4, RowsAssumption DEF Row, Order
    <3>5. CASE AllRead \/ Throws
      BY <3>1, <3>5 DEF AllRead, Throws, Order
    <3> QED
      BY <1>c, <3>3, <3>4, <3>5
  <2>2. TypeOK'
    BY <2>1 DEF TypeOK, switch
  <2>3. Order'
    BY <2>1 DEF Order, pool, Threads
  <2> QED
    BY <2>1, <2>2, <2>3, Frame
<1>d. ASSUME Release PROVE IInv'
  <2>1. Borrowing' /\ at'[Main] = "idle"
    BY <1>d, PoolSteps DEF Release
  <2>2. /\ mainPc = "delete" /\ mainPc' = "inbound" /\ made' = {}
        /\ UNCHANGED <<life, script, loc, attended, switch>>
    BY <1>d DEF Release
  <2>3. TypeOK' /\ Order'
    BY <2>1, <2>2 DEF TypeOK, Order, switch, Threads
  <2> QED
    BY <2>1, <2>2, <2>3, Frame
<1>e. ASSUME NEW t \in Threads, Create(t) PROVE IInv'
  <2>1. /\ mainPc = t /\ mainPc' = Following(t)
        /\ loc' = [loc EXCEPT ![t] = "connect"]
        /\ UNCHANGED <<life, made, script, attended, pool, switch>>
    BY <1>e DEF Create
  <2>2. loc[t] = "none"
    BY <2>1 DEF Order, Threads
  <2>3. TypeOK'
    BY <2>1 DEF TypeOK, switch, Following, Threads
  <2>4. Order'
    BY <2>1, <2>2 DEF Order, Following, Threads, pool, TypeOK
  <2>5. ASSUME NEW u \in Threads PROVE Agree(u)'
    <3>1. loc'[u] = IF u = t THEN "connect" ELSE loc[u]
      BY <2>1 DEF TypeOK
    <3> QED
      BY <2>1, <2>2, <3>1 DEF Handshake, Agree, switch
  <2> QED
    BY <2>1, <2>3, <2>4, <2>5, Frame DEF Handshake
<1>g. ASSUME Join PROVE IInv'
  <2>1. /\ mainPc = "join" /\ mainPc' = "unset" /\ \A t \in Threads : loc[t] = "done"
        /\ UNCHANGED <<life, made, script, loc, attended, pool, switch>>
    BY <1>g DEF Join
  <2>2. TypeOK' /\ Order'
    BY <2>1 DEF TypeOK, Order, switch, pool, Threads
  <2> QED
    BY <2>1, <2>2, Frame
<1> QED
  BY <1>a, <1>b, <1>c, <1>d, <1>e, <1>g
  DEF MainStep, UsesNull, DeletesUnset, JoinsUnset, Exit, CreateFails

-----------------------------------------------------------------------------
(* Threads and FreeSWITCH.                                                 *)

\* A step of one thread's connection.
LEMMA OneThread ==
  ASSUME IInv, NEW t \in Threads, UNCHANGED pool,
         Order', TypeOK', Agree(t)',
         \A u \in Threads \ {t} :
           /\ loc'[u] = loc[u] /\ inbox'[u] = inbox[u]
           /\ peer'[u] = peer[u] /\ cmd'[u] = cmd[u]
  PROVE  IInv'
<1>1. ASSUME NEW u \in Threads, u # t PROVE Agree(u)'
  <2>1. Agree(u)
    BY DEF IInv, Handshake
  <2>2. /\ loc'[u] = loc[u] /\ inbox'[u] = inbox[u]
        /\ peer'[u] = peer[u] /\ cmd'[u] = cmd[u]
    BY <1>1
  <2> QED
    BY <2>1, <2>2 DEF Agree
<1>2. Handshake'
  BY <1>1 DEF Handshake
<1> QED
  BY <1>2, Frame DEF IInv

\* A thread that runs was created, and one that is done stays so.
LEMMA Running ==
  ASSUME IInv, NEW t \in Threads, loc[t] \notin {"none", "done"}, UNCHANGED <<mainPc, pool>>,
         loc' = loc \/ \E l \in {"request", "auth", "reply", "loop", "exit", "done"} :
                        loc' = [loc EXCEPT ![t] = l]
  PROVE  Order' /\ (\A u \in Threads \ {t} : loc'[u] = loc[u])
                /\ loc' \in [Threads -> {"none", "connect", "request", "auth", "reply",
                                        "loop", "exit", "done"}]
<1>1. loc \in [Threads -> {"none", "connect", "request", "auth", "reply",
                            "loop", "exit", "done"}]
  BY DEF IInv, TypeOK
<1> QED
  BY <1>1 DEF IInv, Order, pool, Threads

\* The steps of a thread.
LEMMA ThreadIInv ==
  ASSUME IInv, NEW t \in Threads, ThreadStep(t)
  PROVE  IInv'
<1> USE DEF Goto, Taken, Send
<1>0. /\ inbox \in [Threads -> Seq(Messages \cup Calls)]
      /\ peer \in [Threads -> {"none", "new", "challenged", "authed", "subscribed"}]
      /\ cmd \in [Threads -> {"none", "auth", "events", "originate"}]
      /\ closed \in [Threads -> BOOLEAN]
      /\ Agree(t)
  BY DEF IInv, TypeOK, Handshake
<1>1. CASE Connect(t)
  <2>1. Order' /\ (\A u \in Threads \ {t} : loc'[u] = loc[u])
    BY <1>1, Running DEF Connect, process
  <2>2. TypeOK'
    BY <1>1, <1>0, Running DEF Connect, process, IInv, TypeOK
  <2>3. Agree(t)'
    BY <1>1, <1>0, EmptySeq DEF Connect, Agree, IInv, TypeOK
  <2> QED
    BY <1>1, <1>0, <2>1, <2>2, <2>3, OneThread DEF Connect
<1>2. CASE Authenticate(t) \/ Accepted(t) \/ Replied(t)
  <2>1. /\ loc[t] \in {"request", "auth", "reply"}
        /\ \E l \in {"auth", "reply", "loop", "done"} : loc' = [loc EXCEPT ![t] = l]
        /\ UNCHANGED <<process, attended, pool, peer, call, early>>
    BY <1>2 DEF Authenticate, Accepted, Replied
  <2>2. \/ inbox' = inbox
        \/ inbox[t] # <<>> /\ inbox' = [inbox EXCEPT ![t] = Tail(inbox[t])]
    BY <1>2 DEF Authenticate, Accepted, Replied, Takes
  <2>a. /\ inbox[t] \in Seq(Messages \cup Calls)
        /\ inbox[t] # <<>> =>
             /\ Tail(inbox[t]) \in Seq(Messages \cup Calls)
             /\ \A i \in 1 .. Len(Tail(inbox[t])) :
                  i + 1 \in 1 .. Len(inbox[t]) /\ Tail(inbox[t])[i] = inbox[t][i + 1]
    BY <1>0, Contents
  <2>3. inbox' \in [Threads -> Seq(Messages \cup Calls)]
    BY <2>2, <2>a, <1>0
  <2>4. /\ cmd' \in [Threads -> {"none", "auth", "events", "originate"}]
        /\ closed' \in [Threads -> BOOLEAN]
        /\ \A u \in Threads \ {t} : cmd'[u] = cmd[u]
    <3>1. CASE Authenticate(t)
      BY <3>1, <1>0 DEF Authenticate
    <3>2. CASE Accepted(t)
      <4>1. First(t) \in {"none", "events", "originate"}
        BY DEF First, Threads
      <4> QED
        BY <3>2, <4>1, <1>0 DEF Accepted
    <3>3. CASE Replied(t)
      BY <3>3, <1>0 DEF Replied
    <3> QED
      BY <1>2, <3>1, <3>2, <3>3
  <2>5. Order' /\ (\A u \in Threads \ {t} : loc'[u] = loc[u]) /\ loc'[t] \notin {"none", "connect"}
    BY <2>1, Running DEF process, IInv, TypeOK
  <2>6. TypeOK'
    BY <2>1, <2>3, <2>4, Running DEF process, IInv, TypeOK
  <2>7. \A i \in 1 .. Len(inbox'[t]) :
          inbox'[t][i] = "+OK accepted" => peer[t] \in {"authed", "subscribed"}
    <3>1. inbox'[t] = inbox[t] \/ (inbox[t] # <<>> /\ inbox'[t] = Tail(inbox[t]))
      BY <2>2, <1>0
    <3>2. \A i \in 1 .. Len(inbox[t]) :
            inbox[t][i] = "+OK accepted" => peer[t] \in {"authed", "subscribed"}
      BY <1>0 DEF Agree
    <3> QED
      BY <3>1, <3>2, <2>a
  <2>8. cmd'[t] \in {"events", "originate"} => peer[t] \in {"authed", "subscribed"}
    <3>1. CASE Authenticate(t) \/ Replied(t)
      BY <3>1, <1>0 DEF Authenticate, Replied, Agree
    <3>2. CASE Accepted(t)
      <4>1. inbox[t] # <<>> /\ Head(inbox[t]) = "+OK accepted"
        BY <3>2 DEF Accepted, Takes
      <4>2. inbox[t] \in Seq(Messages \cup Calls)
        BY <1>0
      <4> QED
        BY <4>1, <4>2, <1>0, Contents DEF Agree
    <3> QED
      BY <1>2, <3>1, <3>2
  <2>9. Agree(t)'
    BY <2>1, <2>5, <2>7, <2>8 DEF Agree
  <2> QED
    BY <2>1, <2>2, <2>4, <2>5, <2>6, <2>9, <1>0, OneThread
<1>3. CASE ConnectFails(t) \/ Killed(t)
  <2>1. /\ loc[t] \notin {"none", "done"}
        /\ loc' = loc \/ loc' = [loc EXCEPT ![t] = "exit"]
        /\ life' \in {"exiting", "killed"}
        /\ UNCHANGED <<mainPc, made, script, attended, pool, switch>>
    BY <1>3 DEF ConnectFails, Killed
  <2>2. Order' /\ (\A u \in Threads \ {t} : loc'[u] = loc[u])
    BY <2>1, Running
  <2>3. TypeOK'
    BY <2>1, Running DEF switch, IInv, TypeOK
  <2>4. Agree(t)'
    BY <2>1, <1>0 DEF switch, Agree, IInv, TypeOK
  <2> QED
    BY <2>1, <2>2, <2>3, <2>4, OneThread DEF switch
<1> QED
  BY <1>1, <1>2, <1>3 DEF ThreadStep

\* What FreeSWITCH says, and the end of a connection.
LEMMA SwitchIInv ==
  ASSUME IInv, NEW t \in Threads, Answers(t) \/ Closes(t)
  PROVE  IInv'
<1> USE DEF Tells
<1>0. /\ inbox \in [Threads -> Seq(Messages \cup Calls)]
      /\ peer \in [Threads -> {"none", "new", "challenged", "authed", "subscribed"}]
      /\ cmd \in [Threads -> {"none", "auth", "events", "originate"}]
      /\ closed \in [Threads -> BOOLEAN]
      /\ call \in [Calls -> {"none", "ringing", "parked"}]
      /\ Agree(t)
  BY DEF IInv, TypeOK, Handshake
<1>1. inbox[t] \in Seq(Messages \cup Calls)
  BY <1>0
<1>2. \A m \in Messages :
        /\ Append(inbox[t], m) \in Seq(Messages \cup Calls)
        /\ \A i \in 1 .. Len(Append(inbox[t], m)) :
             \/ Append(inbox[t], m)[i] = m
             \/ i \in 1 .. Len(inbox[t]) /\ Append(inbox[t], m)[i] = inbox[t][i]
  BY <1>1, Contents
<1>3. /\ UNCHANGED <<process, loc, attended, pool, early>>
      /\ loc[t] \notin {"none", "connect"}
      /\ \/ inbox' = inbox
         \/ \E m \in Messages :
              /\ inbox' = [inbox EXCEPT ![t] = Append(inbox[t], m)]
              /\ m = "+OK accepted" => peer'[t] \in {"authed", "subscribed"}
      /\ peer' \in [Threads -> {"none", "new", "challenged", "authed", "subscribed"}]
      /\ peer[t] \in {"authed", "subscribed"} => peer'[t] \in {"authed", "subscribed"}
      /\ cmd' \in [Threads -> {"none", "auth", "events", "originate"}]
      /\ cmd'[t] \in {cmd[t], "none"}
      /\ \A u \in Threads \ {t} : peer'[u] = peer[u] /\ cmd'[u] = cmd[u]
      /\ closed' \in [Threads -> BOOLEAN]
      /\ call' \in [Calls -> {"none", "ringing", "parked"}]
  <2>1. CASE Challenge(t)
    BY <2>1, <1>0 DEF Challenge, Messages, Agree
  <2>2. CASE AnswerAuth(t)
    <3>1. /\ UNCHANGED <<process, loc, attended, pool, closed, call, early>>
          /\ cmd[t] = "auth" /\ cmd' = [cmd EXCEPT ![t] = "none"]
      BY <2>2 DEF AnswerAuth
    <3>2. loc[t] \notin {"none", "connect"}
      BY <3>1, <1>0, <2>2 DEF AnswerAuth, Agree
    <3>3. \/ /\ inbox' = [inbox EXCEPT ![t] = Append(inbox[t], "+OK accepted")]
             /\ peer' = [peer EXCEPT ![t] = "authed"]
          \/ /\ inbox' = [inbox EXCEPT ![t] = Append(inbox[t], "-ERR invalid")]
             /\ UNCHANGED peer
      BY <2>2 DEF AnswerAuth
    <3>4. "+OK accepted" \in Messages /\ "-ERR invalid" \in Messages
      BY DEF Messages
    <3> QED
      BY <3>1, <3>2, <3>3, <3>4, <1>0
  <2>3. CASE AnswerCommand(t)
    <3>1. call' \in [Calls -> {"none", "ringing", "parked"}]
      BY <2>3, <1>0 DEF AnswerCommand
    <3> QED
      BY <2>3, <3>1, <1>0 DEF AnswerCommand, Messages, Agree
  <2>4. CASE Closes(t)
    BY <2>4, <1>0 DEF Closes, Messages, Agree
  <2> QED
    BY <2>1, <2>2, <2>3, <2>4 DEF Answers
<1>4. inbox' \in [Threads -> Seq(Messages \cup Calls)]
  BY <1>0, <1>2, <1>3
<1>5. TypeOK'
  BY <1>3, <1>4 DEF IInv, TypeOK, process
<1>6. Order'
  BY <1>3 DEF IInv, Order, process, pool
<1>7. \A u \in Threads \ {t} : inbox'[u] = inbox[u]
  BY <1>0, <1>3
<1>8. \A i \in 1 .. Len(inbox'[t]) :
        inbox'[t][i] = "+OK accepted" => peer'[t] \in {"authed", "subscribed"}
  <2>1. \A i \in 1 .. Len(inbox[t]) :
          inbox[t][i] = "+OK accepted" => peer'[t] \in {"authed", "subscribed"}
    BY <1>0, <1>3 DEF Agree
  <2>2. CASE inbox' = inbox
    BY <2>1, <2>2
  <2>3. ASSUME NEW m \in Messages,
               inbox' = [inbox EXCEPT ![t] = Append(inbox[t], m)],
               m = "+OK accepted" => peer'[t] \in {"authed", "subscribed"}
        PROVE  \A i \in 1 .. Len(inbox'[t]) :
                 inbox'[t][i] = "+OK accepted" => peer'[t] \in {"authed", "subscribed"}
    <3>1. inbox'[t] = Append(inbox[t], m)
      BY <1>0, <2>3
    <3> QED
      BY <2>1, <2>3, <3>1, <1>2
  <2> QED
    BY <1>3, <2>2, <2>3
<1>9. Agree(t)'
  BY <1>0, <1>3, <1>7, <1>8 DEF Agree
<1> QED
  BY <1>3, <1>5, <1>6, <1>7, <1>9, OneThread

\* The loop of the inbound thread, and the calls that are parked.
LEMMA CallIInv ==
  ASSUME IInv, LoopStep \/ \E c \in Calls : Park(c)
  PROVE  IInv'
<1> DEFINE t == "inbound"
<1>t. t \in Threads
  BY DEF Threads
<1>0. /\ inbox \in [Threads -> Seq(Messages \cup Calls)]
      /\ inbox[t] \in Seq(Messages \cup Calls)
      /\ closed \in [Threads -> BOOLEAN]
      /\ call \in [Calls -> {"none", "ringing", "parked"}]
      /\ Agree(t)
  BY <1>t DEF IInv, TypeOK, Handshake
<1>1. CASE LoopEnds
  <2>1. Order' /\ TypeOK' /\ \A u \in Threads \ {t} : loc'[u] = loc[u]
    <3>1. Order' /\ (\A u \in Threads \ {t} : loc'[u] = loc[u])
      BY <1>1, <1>t, Running DEF LoopEnds, Goto, process
    <3> QED
      BY <1>1, <1>t, <1>0, <3>1, Running DEF LoopEnds, Goto, process, IInv, TypeOK
  <2>2. Agree(t)'
    BY <1>1, <1>t, <1>0 DEF LoopEnds, Goto, Agree, IInv, TypeOK
  <2> QED
    BY <1>1, <1>t, <2>1, <2>2, OneThread DEF LoopEnds
<1>2. CASE HandleParkLate
  <2>1. TypeOK' /\ Order'
    BY <1>2 DEF HandleParkLate, IInv, TypeOK, Order, pool, switch
  <2> QED
    BY <1>2, <2>1, Frame DEF HandleParkLate, IInv
<1>3. ASSUME NEW c \in Calls, HandlePark(c) PROVE IInv'
  <2>1. /\ loc[t] = "loop" /\ inbox[t] # <<>>
        /\ inbox' = [inbox EXCEPT ![t] = Tail(inbox[t])]
        /\ attended' = attended \cup {c}
        /\ UNCHANGED <<process, loc, pool, peer, cmd, closed, call, early>>
    BY <1>3 DEF HandlePark, Takes, Taken
  <2>2. /\ Tail(inbox[t]) \in Seq(Messages \cup Calls)
        /\ \A i \in 1 .. Len(Tail(inbox[t])) :
             i + 1 \in 1 .. Len(inbox[t]) /\ Tail(inbox[t])[i] = inbox[t][i + 1]
    BY <1>0, <2>1, Contents
  <2>3. TypeOK' /\ Order'
    <3>1. inbox' \in [Threads -> Seq(Messages \cup Calls)]
      BY <1>0, <2>1, <2>2
    <3>2. TypeOK'
      BY <2>1, <3>1 DEF IInv, TypeOK, process
    <3>3. Order'
      BY <2>1 DEF IInv, Order, process, pool
    <3> QED
      BY <3>2, <3>3
  <2>4. Agree(t)'
    BY <1>0, <1>t, <2>1, <2>2 DEF Agree
  <2>5. \A u \in Threads \ {t} : inbox'[u] = inbox[u]
    BY <1>0, <2>1
  <2> QED
    BY <1>t, <2>1, <2>3, <2>4, <2>5, OneThread
<1>4. ASSUME NEW c \in Calls, Park(c) PROVE IInv'
  <2>1. /\ call' = [call EXCEPT ![c] = "parked"] /\ early' \subseteq early \cup {c}
        /\ \/ inbox' = inbox
           \/ peer[t] = "subscribed" /\ inbox' = [inbox EXCEPT ![t] = Append(inbox[t], c)]
        /\ UNCHANGED <<process, loc, attended, pool, peer, cmd, closed>>
    BY <1>4 DEF Park, Tells
  <2>2. /\ Append(inbox[t], c) \in Seq(Messages \cup Calls)
        /\ \A i \in 1 .. Len(Append(inbox[t], c)) :
             \/ Append(inbox[t], c)[i] = c
             \/ i \in 1 .. Len(inbox[t]) /\ Append(inbox[t], c)[i] = inbox[t][i]
    BY <1>0, Contents
  <2>3. TypeOK'
    BY <1>0, <2>1, <2>2 DEF IInv, TypeOK, process
  <2>4. Order'
    BY <2>1 DEF IInv, Order, process, pool
  <2>5. Agree(t)'
    BY <1>0, <1>t, <2>1, <2>2 DEF Agree
  <2>6. \A u \in Threads \ {t} : inbox'[u] = inbox[u]
    BY <1>0, <2>1
  <2> QED
    BY <1>t, <2>1, <2>3, <2>4, <2>5, <2>6, OneThread
<1> QED
  BY <1>1, <1>2, <1>3, <1>4 DEF LoopStep

\* Every step of the process and of what is around it.
LEMMA StepIInv == IInv /\ [Next]_vars => IInv'
<1> SUFFICES ASSUME IInv, [Next]_vars PROVE IInv'
  OBVIOUS
<1>1. CASE ServerCloses
  <2>1. Borrowing' /\ at' = at
    BY <1>1, PoolSteps DEF ServerCloses, IInv
  <2>2. UNCHANGED <<process, loc, attended, switch>>
    BY <1>1 DEF ServerCloses
  <2>3. TypeOK' /\ Order'
    BY <2>1, <2>2 DEF IInv, TypeOK, Order, process, switch
  <2> QED
    BY <2>1, <2>2, <2>3, Frame DEF IInv
<1>2. CASE UNCHANGED vars
  <2>1. TypeOK' /\ Order'
    BY <1>2 DEF vars, IInv, TypeOK, Order, process, switch, pool
  <2> QED
    BY <1>2, <2>1, Frame DEF vars, IInv
<1> QED
  BY <1>1, <1>2, MainIInv, ThreadIInv, SwitchIInv, CallIInv DEF Next

\* The invariant holds in every state.
LEMMA Invariance == Spec => []IInv
  BY InitIInv, StepIInv, PTL DEF Spec

-----------------------------------------------------------------------------

\* All variables keep their types.
THEOREM StartupTypes == Spec => []TypeOK
<1>1. IInv => TypeOK
  BY DEF IInv
<1> QED
  BY <1>1, Invariance, PTL

\* A thread asks FreeSWITCH for something only on a connection FreeSWITCH has
\* accepted (src/esl/esl.c:1080-1116).
THEOREM StartupAccepted == Spec => []AcceptedFirst
<1>1. IInv => AcceptedFirst
  BY DEF IInv, Handshake, Agree, AcceptedFirst
<1> QED
  BY <1>1, Invariance, PTL

\* Main has given its connection back when there are threads
\* (src/common/DBOperator.cpp:59-66).
THEOREM StartupLoan == Spec => []LoanReturned
<1>1. IInv => LoanReturned
  <2> SUFFICES ASSUME IInv, NEW t \in Threads, loc[t] # "none"
               PROVE  held[Main] = NoConn /\ lock = NoClient
    BY DEF LoanReturned, Started
  <2>1. mainPc \in Threads \cup {"join", "unset"}
    BY DEF IInv, Order, TypeOK
  <2> QED
    BY <2>1 DEF IInv, Order, Borrowing
<1> QED
  BY <1>1, Invariance, PTL

\* The process crashes only before it serves and when it is done, or in exit
\* (src/main.cpp:154-177).
THEOREM StartupCrash == Spec => CrashOnlyAtEnds
<1>1. ASSUME IInv, [Next]_vars, life = "running", life' = "crashed"
      PROVE  (\A t \in Threads : loc[t] = "none") \/ (\A t \in Threads : loc[t] = "done")
  <2>1. mainPc \in {"get", "delete", "unset"}
    <3>1. CASE MainStep
      BY <1>1, <3>1
      DEF MainStep, GetConnection, UsesNull, CreateStatement, Query, Row, AllRead,
          Throws, DeletesUnset, Release, Create, CreateFails, Join, JoinsUnset, Exit,
          At, Step, process
    <3>2. CASE LoopStep
      BY <1>1, <3>2 DEF LoopStep, LoopEnds, HandleParkLate, HandlePark, process
    <3>3. ASSUME NEW t \in Threads, ThreadStep(t) \/ Answers(t) \/ Closes(t)
          PROVE  FALSE
      BY <1>1, <3>3
      DEF ThreadStep, Connect, ConnectFails, Authenticate, Accepted, Replied, Killed,
          Answers, Challenge, AnswerAuth, AnswerCommand, Closes, process
    <3>4. ASSUME NEW c \in Calls, Park(c) PROVE FALSE
      BY <1>1, <3>4 DEF Park, process
    <3> QED
      BY <1>1, <3>1, <3>2, <3>3, <3>4 DEF Next, ServerCloses, vars, process
  <2> QED
    BY <1>1, <2>1 DEF IInv, Order
<1>2. IInv /\ [Next]_vars =>
        [life = "running" /\ life' = "crashed" =>
           \/ \A t \in Threads : loc[t] = "none"
           \/ \A t \in Threads : loc[t] = "done"]_vars
  BY <1>1
<1> QED
  BY <1>2, Invariance, PTL DEF Spec, CrashOnlyAtEnds

\* A step of main that reads the script, starts the first thread or ends the
\* process is one of the service; the others change nothing it sees.
LEMMA StepServes == IInv /\ [Next]_vars => [Serving!Next]_(Serving!vars)
<1> SUFFICES ASSUME IInv, [Next]_vars PROVE [Serving!Next]_(Serving!vars)
  OBVIOUS
<1> USE DEF Serving!vars, Serving!Next, process
<1>0. \A t \in Threads : loc[t] # "none" =>
        mainPc \notin {"get", "query", "rows", "delete", "inbound"}
  BY DEF IInv, Order
<1>i. "inbound" \in Threads
  BY DEF Threads
<1>1. ASSUME UNCHANGED <<life, script, loc, attended>> PROVE UNCHANGED Serving!vars
  BY <1>1 DEF Phase, Started
<1>2. ASSUME life' # "running", UNCHANGED <<script, attended>>
      PROVE  Serving!End
  BY <1>2 DEF Serving!End, Phase
<1>3. ASSUME NEW t \in Threads, loc[t] # "none", NEW l, l # "none",
             loc' = [loc EXCEPT ![t] = l], UNCHANGED <<life, script, attended>>
      PROVE  UNCHANGED Serving!vars
  <2>1. loc'["inbound"] = "none" <=> loc["inbound"] = "none"
    BY <1>i, <1>3 DEF IInv, TypeOK
  <2> QED
    BY <1>3, <2>1 DEF Phase, Started
<1>4. CASE MainStep
  <2>1. CASE GetConnection \/ CreateStatement \/ Query \/ AllRead \/ Throws
             \/ Release \/ Join
    BY <1>1, <2>1 DEF GetConnection, CreateStatement, Query, AllRead, Throws, Release,
                      Join, Step, At
  <2>2. CASE UsesNull \/ DeletesUnset \/ JoinsUnset \/ Exit
                      \/ \E t \in Threads : CreateFails(t)
    BY <1>2, <2>2 DEF UsesNull, DeletesUnset, JoinsUnset, Exit, CreateFails
  <2>3. CASE Row
    <3>1. Phase = "starting" /\ Phase' = "starting"
      BY <2>3, <1>0, <1>i DEF Row, At, Phase, Started
    <3> QED
      BY <2>3, <3>1 DEF Row, Serving!Read
  <2>4. ASSUME NEW t \in Threads, Create(t) PROVE [Serving!Next]_(Serving!vars)
    <3>1. life = "running" /\ loc' = [loc EXCEPT ![t] = "connect"]
          /\ UNCHANGED <<life, script, attended>> /\ mainPc = t
      BY <2>4 DEF Create, Step, At
    <3>2. CASE t = "inbound"
      <4>1. Phase = "starting"
        BY <3>1, <3>2, <1>0, <1>i DEF Phase, Started
      <4>2. Phase' = "serving"
        BY <3>1, <3>2, <1>i DEF Phase, Started, IInv, TypeOK
      <4> QED
        BY <3>1, <4>1, <4>2 DEF Serving!Open
    <3>3. CASE t # "inbound"
      <4>1. loc'["inbound"] = loc["inbound"]
        BY <3>1, <3>3, <1>i DEF IInv, TypeOK
      <4> QED
        BY <3>1, <4>1 DEF Phase, Started
    <3> QED
      BY <3>2, <3>3
  <2> QED
    BY <1>4, <2>1, <2>2, <2>3, <2>4 DEF MainStep
<1>5. CASE LoopStep
  <2>1. ASSUME NEW c \in Calls, HandlePark(c) PROVE Serving!Serve(c)
    <3>1. Phase = "serving" /\ Phase' = "serving"
      BY <2>1, <1>i DEF HandlePark, Phase, Started
    <3> QED
      BY <2>1, <3>1 DEF HandlePark, Serving!Serve
  <2>2. CASE HandleParkLate
    BY <2>2, <1>2 DEF HandleParkLate
  <2>3. CASE LoopEnds
    BY <2>3, <1>3, <1>i DEF LoopEnds, Goto
  <2> QED
    BY <1>5, <2>1, <2>2, <2>3 DEF LoopStep
<1>6. ASSUME NEW t \in Threads, ThreadStep(t) PROVE [Serving!Next]_(Serving!vars)
  <2>1. CASE Connect(t) \/ Authenticate(t)
    BY <2>1, <1>3 DEF Connect, Authenticate, Goto
  <2>2. CASE Accepted(t)
    <3>1. \E l \in {"done", "reply"} : loc' = [loc EXCEPT ![t] = l]
      BY <2>2 DEF Accepted, Goto
    <3> QED
      BY <2>2, <3>1, <1>3 DEF Accepted
  <2>3. CASE Replied(t)
    <3>1. \E l \in {"loop", "done"} : loc' = [loc EXCEPT ![t] = l]
      BY <2>3 DEF Replied, Goto
    <3> QED
      BY <2>3, <3>1, <1>3 DEF Replied
  <2>4. CASE ConnectFails(t) \/ Killed(t)
    BY <2>4, <1>2 DEF ConnectFails, Killed
  <2> QED
    BY <1>6, <2>1, <2>2, <2>3, <2>4 DEF ThreadStep
<1>7. ASSUME NEW t \in Threads, Answers(t) \/ Closes(t) PROVE UNCHANGED Serving!vars
  BY <1>1, <1>7 DEF Answers, Challenge, AnswerAuth, AnswerCommand, Closes
<1>8. ASSUME NEW c \in Calls, Park(c) PROVE UNCHANGED Serving!vars
  BY <1>1, <1>8 DEF Park
<1>9. CASE ServerCloses \/ UNCHANGED vars
  BY <1>1, <1>9 DEF ServerCloses, vars
<1> QED
  BY <1>4, <1>5, <1>6, <1>7, <1>8, <1>9 DEF Next

\* The process serves calls with a script that is read before and stays as it
\* is, and serves none before its start or after its end
\* (src/main.cpp:134-154).
THEOREM StartupServes == Spec => ServiceSpec
<1>1. Init => Serving!Init
  BY DEF Init, Serving!Init, Phase, Started, Threads
<1> QED
  BY <1>1, Invariance, StepServes, PTL DEF Spec, ServiceSpec, Serving!Spec
=============================================================================
