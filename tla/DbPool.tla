------------------------------- MODULE DbPool -------------------------------
(***************************************************************************)
(* The MySQL connection pool (src/database/dbPool.cpp): a list of idle     *)
(* connections and a count of the connections that exist, both guarded by  *)
(* one mutex.  GetConnection keeps the mutex while it talks to the server, *)
(* so connecting is a step of its own here and every other client waits.   *)
(*                                                                         *)
(* External: the MySQL server.  It may refuse a connection and may close   *)
(* an idle one at any moment.                                              *)
(***************************************************************************)
EXTENDS Integers, Sequences, FiniteSets, Functions

CONSTANTS Clients,   \* threads that borrow connections
          Conns,     \* identities (addresses) a connection may have
          NoConn,    \* NULL
          NoClient,  \* the mutex is free
          MaxSize    \* maxSize: initPool is called with 20

ASSUME SizeAssumption == MaxSize \in Nat
ASSUME ClientsAssumption == IsFiniteSet(Clients) /\ NoClient \notin Clients
ASSUME ConnsAssumption == NoConn \notin Conns

VARIABLES connList,  \* connList: the idle connections, the next one first
          curSize,   \* curSize: connections that exist
          lock,      \* the client that holds the mutex, or NoClient
          pc,        \* where each client stands
          held,      \* the connection each client was given, or NoConn
          open       \* connections the server has not closed

vars == <<connList, curSize, lock, pc, held, open>>

Locations == {"idle", "get", "recreate", "create", "use", "null"}

\* The connections that exist, idle or borrowed (and NoConn).
Allocated == Range(connList) \cup Range(held)

\* Clients a connection is accounted to: those that have one and the one
\* that has deleted a closed connection and is replacing it.
Holders == {c \in Clients : held[c] # NoConn \/ pc[c] = "recreate"}

Unlocked == lock' = NoClient

Goto(c, l) == pc' = [pc EXCEPT ![c] = l]

\* initPool and InitConnection: half of MaxSize connections are tried, one
\* that fails is skipped.
Init ==
  /\ \E n \in 0 .. (MaxSize \div 2) :
       /\ connList \in [1 .. n -> Conns]
       /\ \A i, j \in 1 .. n : connList[i] = connList[j] => i = j
       /\ curSize = n
  /\ lock = NoClient
  /\ pc = [c \in Clients |-> "idle"]
  /\ held = [c \in Clients |-> NoConn]
  /\ open = Range(connList)

-----------------------------------------------------------------------------
(* GetConnection.                                                          *)

\* pthread_mutex_lock
Lock(c) ==
  /\ pc[c] = "idle"
  /\ lock = NoClient
  /\ lock' = c
  /\ Goto(c, "get")
  /\ UNCHANGED <<connList, curSize, held, open>>

\* Mutant of TakeIdle: front() without pop_front().
TakeIdleNoPop(c) ==
  /\ pc[c] = "get"
  /\ connList # <<>>
  /\ Head(connList) \in open
  /\ held' = [held EXCEPT ![c] = Head(connList)]
  /\ Unlocked
  /\ Goto(c, "use")
  /\ UNCHANGED <<connList, curSize, open>>

\* The first idle connection is usable: it is handed out.
TakeIdle(c) ==
  /\ pc[c] = "get"
  /\ connList # <<>>
  /\ Head(connList) \in open
  /\ connList' = Tail(connList)
  /\ held' = [held EXCEPT ![c] = Head(connList)]
  /\ Unlocked
  /\ Goto(c, "use")
  /\ UNCHANGED <<curSize, open>>

\* isClosed: the first idle connection is deleted and connected again.
DropClosed(c) ==
  /\ pc[c] = "get"
  /\ connList # <<>>
  /\ Head(connList) \notin open
  /\ connList' = Tail(connList)
  /\ Goto(c, "recreate")
  /\ UNCHANGED <<curSize, lock, held, open>>

\* Mutant of Grow: curSize <= maxSize.
GrowOffByOne(c) ==
  /\ pc[c] = "get"
  /\ connList = <<>>
  /\ curSize <= MaxSize
  /\ Goto(c, "create")
  /\ UNCHANGED <<connList, curSize, lock, held, open>>

\* No idle connection, room for another one.
Grow(c) ==
  /\ pc[c] = "get"
  /\ connList = <<>>
  /\ curSize < MaxSize
  /\ Goto(c, "create")
  /\ UNCHANGED <<connList, curSize, lock, held, open>>

\* No idle connection and no room: NULL.
Refuse(c) ==
  /\ pc[c] = "get"
  /\ connList = <<>>
  /\ curSize >= MaxSize
  /\ Unlocked
  /\ Goto(c, "null")
  /\ UNCHANGED <<connList, curSize, held, open>>

\* CreateConnection succeeds: only a new connection adds to curSize.
ConnectOk(c) ==
  /\ pc[c] \in {"recreate", "create"}
  /\ \E k \in Conns \ Allocated :
       /\ held' = [held EXCEPT ![c] = k]
       /\ open' = open \cup {k}
  /\ curSize' = IF pc[c] = "create" THEN curSize + 1 ELSE curSize
  /\ Unlocked
  /\ Goto(c, "use")
  /\ UNCHANGED connList

\* Mutant of ConnectFail: returns NULL before the unlock.
ConnectFailLocked(c) ==
  /\ pc[c] \in {"recreate", "create"}
  /\ curSize' = IF pc[c] = "recreate" THEN curSize - 1 ELSE curSize
  /\ Goto(c, "null")
  /\ UNCHANGED <<connList, lock, held, open>>

\* Mutant of ConnectFail: forgets that the closed connection is gone.
ConnectFailUncounted(c) ==
  /\ pc[c] \in {"recreate", "create"}
  /\ Unlocked
  /\ Goto(c, "null")
  /\ UNCHANGED <<connList, curSize, held, open>>

\* CreateConnection fails: NULL, and a replacement that failed is one less.
ConnectFail(c) ==
  /\ pc[c] \in {"recreate", "create"}
  /\ curSize' = IF pc[c] = "recreate" THEN curSize - 1 ELSE curSize
  /\ Unlocked
  /\ Goto(c, "null")
  /\ UNCHANGED <<connList, held, open>>

-----------------------------------------------------------------------------

\* The caller was given NULL and goes on without a connection.
GiveUp(c) ==
  /\ pc[c] = "null"
  /\ Goto(c, "idle")
  /\ UNCHANGED <<connList, curSize, lock, held, open>>

\* ReleaseConnection: lock, push_back, unlock.
ReleaseConnection(c) ==
  /\ pc[c] = "use"
  /\ lock = NoClient
  /\ connList' = Append(connList, held[c])
  /\ held' = [held EXCEPT ![c] = NoConn]
  /\ Goto(c, "idle")
  /\ UNCHANGED <<curSize, lock, open>>

\* External: the server drops a connection (an idle timeout, a restart).
ServerCloses ==
  /\ \E k \in open : open' = open \ {k}
  /\ UNCHANGED <<connList, curSize, lock, pc, held>>

\* What follows once the mutex is held; each branch runs to the unlock.
Step(c) ==
  \/ TakeIdle(c) \/ DropClosed(c) \/ Grow(c) \/ Refuse(c)
  \/ ConnectOk(c) \/ ConnectFail(c)

Next ==
  \/ \E c \in Clients : Lock(c) \/ Step(c) \/ GiveUp(c) \/ ReleaseConnection(c)
  \/ ServerCloses

Spec == Init /\ [][Next]_vars

\* connect() returns, so the holder of the mutex always goes on; nothing is
\* assumed of the clients that wait for the mutex or use a connection.
FairSpec == Spec /\ \A c \in Clients : WF_vars(Step(c))

-----------------------------------------------------------------------------
(* Properties.                                                             *)

TypeOK ==
  /\ connList \in Seq(Conns)
  /\ curSize \in 0 .. MaxSize
  /\ lock \in Clients \cup {NoClient}
  /\ pc \in [Clients -> Locations]
  /\ held \in [Clients -> Conns \cup {NoConn}]
  /\ open \subseteq Conns

\* The mutex is held by exactly the client that is inside GetConnection, and
\* a client has a connection exactly while it uses one: no path of
\* GetConnection (src/database/dbPool.cpp:87-135) leaves with the mutex held.
Critical ==
  \A c \in Clients :
    /\ lock = c <=> pc[c] \in {"get", "recreate", "create"}
    /\ held[c] # NoConn <=> pc[c] = "use"

\* curSize counts the connections that exist, through every mix of failed
\* connects, replacements and releases; the pool would otherwise shrink until
\* it refuses everybody, or outgrow maxSize (src/database/dbPool.cpp:103-119).
Accounting == curSize = Len(connList) + Cardinality(Holders)

\* No connection is in the hands of two clients, or of a client and the idle
\* list, or twice in the list: two threads on one MySQL connection would mix
\* their results (src/database/dbPool.cpp:95-96,143).
Exclusive ==
  /\ \A i, j \in 1 .. Len(connList) : connList[i] = connList[j] => i = j
  /\ \A c \in Clients, i \in 1 .. Len(connList) : held[c] # connList[i]
  /\ \A c, d \in Clients : held[c] = held[d] /\ held[c] # NoConn => c = d

\* NULL for want of room is only ever given when MaxSize connections really
\* are lent: a failed connect never costs the pool a place for good
\* (src/database/dbPool.cpp:103-106,129-133).
RefusedOnlyWhenFull ==
  [][\A c \in Clients :
       pc[c] = "get" /\ pc'[c] = "null" => Cardinality(Holders) = MaxSize]_vars

\* DbPool lends connections as DbLedger says.
Ledger == INSTANCE DbLedger WITH owner <- held
LedgerSpec == Ledger!Spec

\* Whoever holds the mutex lets it go, in every outcome of the connect that
\* runs under it (src/database/dbPool.cpp:91-134).
LockReleased == (lock # NoClient) ~> (lock = NoClient)
=============================================================================
