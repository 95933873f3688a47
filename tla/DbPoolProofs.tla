---------------------------- MODULE DbPoolProofs ----------------------------
(***************************************************************************)
(* Safety of DbPool for every set of clients and every MaxSize.            *)
(*                                                                         *)
(* TypeOK alone is not inductive: that curSize stays within 0 .. MaxSize   *)
(* rests on what it counts (Accounting), on who may change it (Critical)   *)
(* and on the check of GetConnection still being true when the connect     *)
(* that follows it is done (Room).                                         *)
(***************************************************************************)
EXTENDS DbPool, FiniteSetTheorems, SequenceTheorems, TLAPS

\* The room found before a connect is still there after it.
Room == \A c \in Clients : pc[c] = "create" => curSize < MaxSize

IInv == TypeOK /\ Critical /\ Room /\ Accounting

\* What a step changes of the clients that a connection is accounted to is
\* one client at most.
LEMMA HoldersFinite ==
  /\ IsFiniteSet(Holders) /\ Cardinality(Holders) \in Nat
  /\ \A c \in Clients :
       /\ Cardinality(Holders \cup {c}) =
            IF c \in Holders THEN Cardinality(Holders) ELSE Cardinality(Holders) + 1
       /\ Cardinality(Holders \ {c}) =
            IF c \in Holders THEN Cardinality(Holders) - 1 ELSE Cardinality(Holders)
       /\ c \in Holders => Cardinality(Holders) >= 1
<1>1. Holders \in SUBSET Clients
  BY DEF Holders
<1>2. IsFiniteSet(Holders)
  BY <1>1, ClientsAssumption, FS_Subset
<1>3. Cardinality(Holders) \in Nat
  BY <1>2, FS_CardinalityType
<1>4. ASSUME NEW c \in Clients, c \in Holders
      PROVE  Cardinality(Holders) >= 1
  <2>1. Cardinality(Holders) # 0
    BY <1>2, <1>4, FS_EmptySet
  <2> QED
    BY <2>1, <1>3
<1> QED
  BY <1>2, <1>3, <1>4, FS_AddElement, FS_RemoveElement

\* The empty pool satisfies the inductive invariant.
LEMMA InitIInv == Init => IInv
<1> SUFFICES ASSUME Init PROVE IInv
  OBVIOUS
<1> USE DEF Init
<1>1. PICK n \in 0 .. (MaxSize \div 2) :
        connList \in [1 .. n -> Conns] /\ curSize = n
  OBVIOUS
<1>2. n \in 0 .. MaxSize /\ n \in Nat
  BY <1>1, SizeAssumption
<1>3. connList \in Seq(Conns) /\ Len(connList) = n
  BY <1>1, <1>2, SeqDef
<1>4. TypeOK
  BY <1>1, <1>2, <1>3 DEF TypeOK, Locations, Range
<1>5. Critical /\ Room
  BY ClientsAssumption DEF Critical, Room
<1>6. Holders = {}
  BY DEF Holders
<1>7. Accounting
  BY <1>1, <1>2, <1>3, <1>6, FS_EmptySet DEF Accounting
<1> QED
  BY <1>4, <1>5, <1>7 DEF IInv

\* Every step of a client or of the database keeps it.
LEMMA StepIInv == IInv /\ [Next]_vars => IInv'
<1> SUFFICES ASSUME IInv, [Next]_vars PROVE IInv'
  OBVIOUS
<1> USE DEF IInv
<1>0. /\ Len(connList) \in Nat /\ curSize \in Int /\ MaxSize \in Nat
      /\ connList # <<>> => /\ Head(connList) \in Conns
                            /\ Tail(connList) \in Seq(Conns)
                            /\ Len(Tail(connList)) = Len(connList) - 1
      /\ connList = <<>> => Len(connList) = 0
  BY SizeAssumption, EmptySeq, HeadTailProperties DEF TypeOK
<1>a. ASSUME NEW c \in Clients, Lock(c) PROVE IInv'
  <2>1. TypeOK' /\ Critical' /\ Room'
    BY <1>a, ClientsAssumption
    DEF Lock, Goto, TypeOK, Critical, Room, Locations
  <2>2. Holders' = Holders
    BY <1>a DEF Lock, Goto, TypeOK, Holders
  <2> QED
    BY <2>1, <2>2, <1>a DEF Lock, Accounting
<1>b. ASSUME NEW c \in Clients, TakeIdle(c) PROVE IInv'
  <2>1. TypeOK' /\ Critical' /\ Room'
    BY <1>b, <1>0, ClientsAssumption, ConnsAssumption
    DEF TakeIdle, Goto, Unlocked, TypeOK, Critical, Room, Locations
  <2>2. c \notin Holders /\ Holders' = Holders \cup {c}
    BY <1>b, <1>0, ConnsAssumption
    DEF TakeIdle, Goto, TypeOK, Critical, Holders
  <2> QED
    BY <2>1, <2>2, <1>0, <1>b, HoldersFinite DEF TakeIdle, Accounting
<1>c. ASSUME NEW c \in Clients, DropClosed(c) PROVE IInv'
  <2>1. TypeOK' /\ Critical' /\ Room'
    BY <1>c, <1>0, ClientsAssumption
    DEF DropClosed, Goto, TypeOK, Critical, Room, Locations
  <2>2. c \notin Holders /\ Holders' = Holders \cup {c}
    BY <1>c DEF DropClosed, Goto, TypeOK, Critical, Holders
  <2> QED
    BY <2>1, <2>2, <1>0, <1>c, HoldersFinite DEF DropClosed, Accounting
<1>d. ASSUME NEW c \in Clients, Grow(c) PROVE IInv'
  <2>1. TypeOK' /\ Critical' /\ Room'
    BY <1>d, ClientsAssumption
    DEF Grow, Goto, TypeOK, Critical, Room, Locations
  <2>2. Holders' = Holders
    BY <1>d DEF Grow, Goto, TypeOK, Critical, Holders
  <2> QED
    BY <2>1, <2>2, <1>d DEF Grow, Accounting
<1>e. ASSUME NEW c \in Clients, Refuse(c) PROVE IInv'
  <2>1. TypeOK' /\ Critical' /\ Room'
    BY <1>e, ClientsAssumption
    DEF Refuse, Goto, Unlocked, TypeOK, Critical, Room, Locations
  <2>2. Holders' = Holders
    BY <1>e DEF Refuse, Goto, TypeOK, Critical, Holders
  <2> QED
    BY <2>1, <2>2, <1>e DEF Refuse, Accounting
<1>f. ASSUME NEW c \in Clients, ConnectOk(c) PROVE IInv'
  <2>0. PICK k \in Conns \ Allocated :
          held' = [held EXCEPT ![c] = k] /\ open' = open \cup {k}
    BY <1>f DEF ConnectOk
  <2>1. curSize' \in 0 .. MaxSize
    BY <1>f, <1>0 DEF ConnectOk, TypeOK, Room
  <2>2. TypeOK'
    BY <1>f, <2>0, <2>1 DEF ConnectOk, Goto, Unlocked, TypeOK, Locations
  <2>3. Critical' /\ Room'
    BY <1>f, <2>0, ClientsAssumption, ConnsAssumption
    DEF ConnectOk, Goto, Unlocked, TypeOK, Critical, Room
  <2>4. Holders' = Holders \cup {c}
    BY <1>f, <2>0, ConnsAssumption DEF ConnectOk, Goto, TypeOK, Holders
  <2>5. c \in Holders <=> pc[c] = "recreate"
    BY <1>f DEF ConnectOk, Critical, Holders
  <2>6. /\ Cardinality(Holders') = IF pc[c] = "recreate"
                                  THEN Cardinality(Holders)
                                  ELSE Cardinality(Holders) + 1
        /\ Cardinality(Holders) \in Nat
    BY <2>4, <2>5, HoldersFinite
  <2>7. CASE pc[c] = "recreate"
    BY <1>f, <2>2, <2>3, <2>6, <2>7 DEF ConnectOk, Accounting
  <2>8. CASE pc[c] = "create"
    BY <1>f, <1>0, <2>2, <2>3, <2>6, <2>8 DEF ConnectOk, Accounting
  <2> QED
    BY <1>f, <2>7, <2>8 DEF ConnectOk
<1>g. ASSUME NEW c \in Clients, ConnectFail(c) PROVE IInv'
  <2>1. c \in Holders <=> pc[c] = "recreate"
    BY <1>g DEF ConnectFail, Critical, Holders
  <2>2. Holders' = Holders \ {c}
    BY <1>g DEF ConnectFail, Goto, TypeOK, Critical, Holders
  <2>a. /\ Cardinality(Holders') = IF pc[c] = "recreate"
                                  THEN Cardinality(Holders) - 1
                                  ELSE Cardinality(Holders)
        /\ Cardinality(Holders) \in Nat
        /\ pc[c] = "recreate" => Cardinality(Holders) >= 1
    BY <2>1, <2>2, HoldersFinite
  <2>b. curSize' = Len(connList) + Cardinality(Holders')
    <3>1. CASE pc[c] = "recreate"
      BY <1>g, <1>0, <2>a, <3>1 DEF ConnectFail, Accounting
    <3>2. CASE pc[c] = "create"
      BY <1>g, <2>a, <3>2 DEF ConnectFail, Accounting
    <3> QED
      BY <1>g, <3>1, <3>2 DEF ConnectFail
  <2>3. curSize' \in 0 .. MaxSize
    <3>1. CASE pc[c] = "recreate"
      BY <1>g, <1>0, <2>a, <3>1 DEF ConnectFail, TypeOK, Accounting
    <3>2. CASE pc[c] = "create"
      BY <1>g, <3>2 DEF ConnectFail, TypeOK
    <3> QED
      BY <1>g, <3>1, <3>2 DEF ConnectFail
  <2>4. TypeOK'
    BY <1>g, <2>3 DEF ConnectFail, Goto, Unlocked, TypeOK, Locations
  <2>5. Critical' /\ Room'
    BY <1>g, ClientsAssumption
    DEF ConnectFail, Goto, Unlocked, TypeOK, Critical, Room
  <2>6. Accounting'
    BY <1>g, <2>b DEF ConnectFail, Accounting
  <2> QED
    BY <2>4, <2>5, <2>6
<1>h. ASSUME NEW c \in Clients, GiveUp(c) PROVE IInv'
  <2>1. TypeOK' /\ Critical' /\ Room'
    BY <1>h, ClientsAssumption
    DEF GiveUp, Goto, TypeOK, Critical, Room, Locations
  <2>2. Holders' = Holders
    BY <1>h DEF GiveUp, Goto, TypeOK, Holders
  <2> QED
    BY <2>1, <2>2, <1>h DEF GiveUp, Accounting
<1>i. ASSUME NEW c \in Clients, ReleaseConnection(c) PROVE IInv'
  <2>0. held[c] \in Conns
    BY <1>i DEF ReleaseConnection, TypeOK, Critical
  <2>1. connList' \in Seq(Conns) /\ Len(connList') = Len(connList) + 1
    BY <1>i, <2>0 DEF ReleaseConnection, TypeOK
  <2>2. TypeOK' /\ Critical' /\ Room'
    BY <1>i, <2>1, ClientsAssumption
    DEF ReleaseConnection, Goto, TypeOK, Critical, Room, Locations
  <2>3. c \in Holders /\ Holders' = Holders \ {c}
    BY <1>i DEF ReleaseConnection, Goto, TypeOK, Critical, Holders
  <2>4. /\ Cardinality(Holders') = Cardinality(Holders) - 1
        /\ Cardinality(Holders) \in Nat
    BY <2>3, HoldersFinite
  <2> QED
    BY <2>1, <2>2, <2>4, <1>0, <1>i DEF ReleaseConnection, Accounting
<1>j. ASSUME ServerCloses PROVE IInv'
  <2>1. TypeOK' /\ Critical' /\ Room'
    BY <1>j DEF ServerCloses, TypeOK, Critical, Room
  <2>2. Holders' = Holders
    BY <1>j DEF ServerCloses, Holders
  <2> QED
    BY <2>1, <2>2, <1>j DEF ServerCloses, Accounting
<1>k. ASSUME UNCHANGED vars PROVE IInv'
  <2>1. TypeOK' /\ Critical' /\ Room'
    BY <1>k DEF vars, TypeOK, Critical, Room
  <2>2. Holders' = Holders
    BY <1>k DEF vars, Holders
  <2> QED
    BY <2>1, <2>2, <1>k DEF vars, Accounting
<1>l. ASSUME NEW c \in Clients, Step(c) PROVE IInv'
  BY <1>b, <1>c, <1>d, <1>e, <1>f, <1>g, <1>l DEF Step
<1> HIDE DEF IInv
<1> QED
  BY <1>a, <1>h, <1>i, <1>j, <1>k, <1>l DEF Next

\* It holds in every reachable state.
LEMMA Invariance == Spec => []IInv
<1> QED
  BY InitIInv, StepIInv, PTL DEF Spec

-----------------------------------------------------------------------------
(* The results.                                                            *)

\* Every variable keeps its type; in particular curSize never leaves
\* 0 .. maxSize, whatever fails in GetConnection
\* (src/database/dbPool.cpp:87-135).
THEOREM PoolTypes == Spec => []TypeOK
<1>1. IInv => TypeOK
  BY DEF IInv
<1> QED
  BY <1>1, Invariance, PTL

\* curSize is the number of connections that exist
\* (src/database/dbPool.cpp:103-119).
THEOREM PoolAccounting == Spec => []Accounting
<1>1. IInv => Accounting
  BY DEF IInv
<1> QED
  BY <1>1, Invariance, PTL

\* The mutex is held exactly inside GetConnection, on every return path
\* (src/database/dbPool.cpp:87-135).
THEOREM PoolCritical == Spec => []Critical
<1>1. IInv => Critical
  BY DEF IInv
<1> QED
  BY <1>1, Invariance, PTL

\* Nobody holds a connection of a new pool.
LEMMA InitExclusive == Init => Exclusive
<1> SUFFICES ASSUME Init PROVE Exclusive
  OBVIOUS
<1>1. PICK n \in 0 .. (MaxSize \div 2) :
        /\ connList \in [1 .. n -> Conns]
        /\ \A i, j \in 1 .. n : connList[i] = connList[j] => i = j
  BY DEF Init
<1>2. n \in Nat
  BY <1>1, SizeAssumption
<1>3. connList \in Seq(Conns) /\ Len(connList) = n
  BY <1>1, <1>2, SeqDef
<1> QED
  BY <1>1, <1>3, ConnsAssumption DEF Init, Exclusive

\* No step gives a connection to a second client.
LEMMA StepExclusive == IInv /\ Exclusive /\ [Next]_vars => Exclusive'
<1> SUFFICES ASSUME TypeOK, Critical, Exclusive, [Next]_vars
             PROVE  Exclusive'
  BY DEF IInv
<1>0. /\ Len(connList) \in Nat
      /\ \A i \in 1 .. Len(connList) : connList[i] \in Conns
      /\ connList # <<>> =>
           /\ Len(connList) >= 1
           /\ Head(connList) = connList[1]
           /\ Len(Tail(connList)) = Len(connList) - 1
           /\ \A i \in 1 .. Len(connList) - 1 : Tail(connList)[i] = connList[i + 1]
  BY HeadTailProperties, EmptySeq DEF TypeOK
\* What is left of the list after pop_front.
<1>1. ASSUME connList # <<>>, connList' = Tail(connList)
      PROVE  /\ \A i, j \in 1 .. Len(connList') :
                  connList'[i] = connList'[j] => i = j
             /\ \A i \in 1 .. Len(connList') :
                  /\ connList'[i] # Head(connList)
                  /\ \A c \in Clients : held[c] # connList'[i]
  BY <1>0, <1>1 DEF Exclusive
<1>a. ASSUME NEW c \in Clients, TakeIdle(c) PROVE Exclusive'
  <2>1. /\ connList # <<>> /\ connList' = Tail(connList)
        /\ held' = [held EXCEPT ![c] = Head(connList)]
    BY <1>a DEF TakeIdle
  <2>2. \A d \in Clients : held'[d] = IF d = c THEN Head(connList) ELSE held[d]
    BY <2>1 DEF TypeOK
  <2>3. \A d \in Clients : held[d] # Head(connList)
    BY <2>1, <1>0 DEF Exclusive
  <2> QED
    BY <2>1, <2>2, <2>3, <1>1 DEF Exclusive
<1>b. ASSUME NEW c \in Clients, DropClosed(c) PROVE Exclusive'
  BY <1>b, <1>1 DEF DropClosed, Exclusive
<1>c. ASSUME NEW c \in Clients, ConnectOk(c) PROVE Exclusive'
  <2>1. PICK k \in Conns \ Allocated : held' = [held EXCEPT ![c] = k]
    BY <1>c DEF ConnectOk
  <2>2. /\ \A d \in Clients : held[d] # k
        /\ \A i \in 1 .. Len(connList) : connList[i] # k
    BY <2>1 DEF Allocated, Range, TypeOK
  <2>3. \A d \in Clients : held'[d] = IF d = c THEN k ELSE held[d]
    BY <2>1 DEF TypeOK
  <2> QED
    BY <1>c, <2>2, <2>3 DEF ConnectOk, Exclusive
<1>d. ASSUME NEW c \in Clients, ReleaseConnection(c) PROVE Exclusive'
  <2>1. held[c] \in Conns
    BY <1>d DEF ReleaseConnection, TypeOK, Critical
  <2>2. /\ Len(connList') = Len(connList) + 1
        /\ \A i \in 1 .. Len(connList') :
             connList'[i] = IF i <= Len(connList) THEN connList[i] ELSE held[c]
    BY <1>d, <2>1 DEF ReleaseConnection, TypeOK
  <2>3. \A d \in Clients : held'[d] = IF d = c THEN NoConn ELSE held[d]
    BY <1>d DEF ReleaseConnection, TypeOK
  <2>4. \A i, j \in 1 .. Len(connList') : connList'[i] = connList'[j] => i = j
    BY <2>2, <1>0 DEF Exclusive
  <2>5. \A d \in Clients, i \in 1 .. Len(connList') : held'[d] # connList'[i]
    BY <2>1, <2>2, <2>3, <1>0, ConnsAssumption DEF Exclusive
  <2> QED
    BY <2>3, <2>4, <2>5 DEF Exclusive
<1>e. ASSUME UNCHANGED <<connList, held>> PROVE Exclusive'
  BY <1>e DEF Exclusive
<1> QED
  BY <1>a, <1>b, <1>c, <1>d, <1>e
  DEF Next, Step, vars, Lock, Grow, Refuse, ConnectFail, GiveUp, ServerCloses

\* No connection has two owners, whatever the server closes and however the
\* clients interleave (src/database/dbPool.cpp:95-96,143).
THEOREM PoolExclusive == Spec => []Exclusive
<1> QED
  BY InitExclusive, StepExclusive, Invariance, PTL DEF Spec

-----------------------------------------------------------------------------
(* Refinement.                                                             *)

\* In GetConnection, fewer than MaxSize connections are lent when one is
\* about to be handed out.
LEMMA RoomToLend ==
  ASSUME IInv, NEW c \in Clients, TakeIdle(c) \/ ConnectOk(c)
  PROVE  /\ Cardinality(Ledger!Lent) < MaxSize
         /\ held[c] = NoConn
<1> USE DEF IInv
<1>1. /\ Ledger!Lent \in SUBSET Holders
      /\ IsFiniteSet(Ledger!Lent)
      /\ Cardinality(Ledger!Lent) \in Nat
      /\ Cardinality(Ledger!Lent) <= Cardinality(Holders)
      /\ Cardinality(Ledger!Lent) = Cardinality(Holders) => Holders = Ledger!Lent
  <2>1. Ledger!Lent \in SUBSET Holders
    BY DEF Ledger!Lent, Holders
  <2> QED
    BY <2>1, HoldersFinite, FS_Subset, FS_CardinalityType
<1>2. /\ Len(connList) \in Nat /\ curSize \in 0 .. MaxSize /\ MaxSize \in Nat
      /\ Cardinality(Holders) \in Nat
      /\ curSize = Len(connList) + Cardinality(Holders)
  BY HoldersFinite, SizeAssumption DEF TypeOK, Accounting
<1>3. held[c] = NoConn
  BY DEF TakeIdle, ConnectOk, Critical
<1>4. CASE TakeIdle(c)
  <2>1. Len(connList) >= 1
    BY <1>4, EmptySeq DEF TakeIdle, TypeOK
  <2> QED
    BY <1>1, <1>2, <1>3, <2>1
<1>5. CASE ConnectOk(c) /\ pc[c] = "recreate"
  <2>1. c \in Holders /\ c \notin Ledger!Lent
    BY <1>3, <1>5 DEF Holders, Ledger!Lent
  <2> QED
    BY <1>1, <1>2, <1>3, <2>1
<1>6. CASE ConnectOk(c) /\ pc[c] = "create"
  BY <1>1, <1>2, <1>3, <1>6 DEF Room
<1> QED
  BY <1>4, <1>5, <1>6 DEF ConnectOk

\* Every step of the pool is a step of the ledger or a stutter.
LEMMA StepLedger ==
  IInv /\ Exclusive /\ [Next]_vars => [Ledger!Next]_held
<1> SUFFICES ASSUME IInv, Exclusive, [Next]_vars
             PROVE  [Ledger!Next]_held
  OBVIOUS
<1>a. ASSUME NEW c \in Clients, TakeIdle(c) PROVE Ledger!Next
  <2>1. Head(connList) \in Conns /\ \A d \in Clients : held[d] # Head(connList)
    BY <1>a, HeadTailProperties, EmptySeq DEF TakeIdle, Exclusive, IInv, TypeOK
  <2>2. Cardinality(Ledger!Lent) < MaxSize /\ held[c] = NoConn
    BY <1>a, RoomToLend
  <2>3. Ledger!Lend(c, Head(connList))
    BY <1>a, <2>1, <2>2 DEF TakeIdle, Ledger!Lend, Ledger!Cardinality, Cardinality
  <2> QED
    BY <2>1, <2>3 DEF Ledger!Next
<1>b. ASSUME NEW c \in Clients, ConnectOk(c) PROVE Ledger!Next
  <2>1. PICK k \in Conns \ Allocated : held' = [held EXCEPT ![c] = k]
    BY <1>b DEF ConnectOk
  <2>2. \A d \in Clients : held[d] # k
    BY <2>1 DEF Allocated, Range, IInv, TypeOK
  <2>3. Cardinality(Ledger!Lent) < MaxSize /\ held[c] = NoConn
    BY <1>b, RoomToLend
  <2>4. Ledger!Lend(c, k)
    BY <2>1, <2>2, <2>3 DEF Ledger!Lend, Ledger!Cardinality, Cardinality
  <2> QED
    BY <2>1, <2>4 DEF Ledger!Next
<1>c. ASSUME NEW c \in Clients, ReleaseConnection(c) PROVE Ledger!Next
  BY <1>c DEF ReleaseConnection, IInv, Critical, Ledger!Return, Ledger!Next
<1> QED
  BY <1>a, <1>b, <1>c
  DEF Next, Step, vars, Lock, DropClosed, Grow, Refuse, ConnectFail, GiveUp,
      ServerCloses

\* The pool lends connections exactly as a ledger of at most maxSize entries
\* would (src/database/dbPool.cpp:87-146).
THEOREM PoolImplementsLedger == Spec => LedgerSpec
<1>1. Init => Ledger!Init
  BY DEF Init, Ledger!Init
<1> QED
  BY <1>1, InitExclusive, StepExclusive, StepLedger, Invariance, PTL
  DEF Spec, LedgerSpec, Ledger!Spec

\* A client is refused for want of room only when MaxSize connections are
\* lent (src/database/dbPool.cpp:129-133).
THEOREM PoolRefusal == Spec => RefusedOnlyWhenFull
<1>1. ASSUME IInv, [Next]_vars, NEW c \in Clients, pc[c] = "get", pc'[c] = "null"
      PROVE  Cardinality(Holders) = MaxSize
  <2>1. Refuse(c)
    <3>1. ASSUME NEW d \in Clients, NEW l, Goto(d, l)
          PROVE  d = c /\ l = "null"
      BY <1>1, <3>1 DEF Goto, IInv, TypeOK
    <3>2. PICK d \in Clients : Lock(d) \/ Step(d) \/ GiveUp(d) \/ ReleaseConnection(d)
      BY <1>1 DEF Next, vars, ServerCloses
    <3>3. ~ (Lock(d) \/ GiveUp(d) \/ ReleaseConnection(d))
      BY <1>1, <3>1 DEF Lock, GiveUp, ReleaseConnection
    <3>4. ~ (TakeIdle(d) \/ DropClosed(d) \/ Grow(d) \/ ConnectOk(d) \/ ConnectFail(d))
      BY <1>1, <3>1 DEF TakeIdle, DropClosed, Grow, ConnectOk, ConnectFail
    <3>5. Refuse(d)
      BY <3>2, <3>3, <3>4 DEF Step
    <3> QED
      BY <3>1, <3>5 DEF Refuse
  <2>2. Len(connList) = 0
    BY <2>1 DEF Refuse
  <2> QED
    BY <1>1, <2>1, <2>2, HoldersFinite, SizeAssumption
    DEF Refuse, IInv, TypeOK, Accounting
<1>2. IInv /\ [Next]_vars =>
        [\A c \in Clients :
           pc[c] = "get" /\ pc'[c] = "null" => Cardinality(Holders) = MaxSize]_vars
  BY <1>1
<1> QED
  BY <1>2, Invariance, PTL DEF Spec, RefusedOnlyWhenFull
=============================================================================
