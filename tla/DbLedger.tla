------------------------------ MODULE DbLedger ------------------------------
(***************************************************************************)
(* What a connection pool promises its clients, whatever it keeps inside:  *)
(* a connection is lent to one client at a time, and no more than MaxSize  *)
(* connections are lent at once.  DbPool is shown to implement this.       *)
(***************************************************************************)
EXTENDS Naturals, FiniteSets

CONSTANTS Clients,  \* the threads that borrow connections
          Conns,    \* the identities a connection may have
          NoConn,   \* the null pointer
          MaxSize   \* the most connections lent at once

VARIABLE owner      \* owner[c]: the connection c has borrowed, or NoConn

Lent == {c \in Clients : owner[c] # NoConn}

Init == owner = [c \in Clients |-> NoConn]

Lend(c, k) ==
  /\ owner[c] = NoConn
  /\ \A d \in Clients : owner[d] # k
  /\ Cardinality(Lent) < MaxSize
  /\ owner' = [owner EXCEPT ![c] = k]

Return(c) ==
  /\ owner[c] # NoConn
  /\ owner' = [owner EXCEPT ![c] = NoConn]

Next == \E c \in Clients : Return(c) \/ \E k \in Conns : Lend(c, k)

Spec == Init /\ [][Next]_owner
=============================================================================
