CONSTANTS
  c1 = c1
  c2 = c2
  c3 = c3
  c4 = c4
  k1 = k1
  k2 = k2
  k3 = k3
  k4 = k4
  Clients <- MCClients
  Conns <- MCConns
  NoConn = NoConn
  NoClient = NoClient
  MaxSize = 3
SPECIFICATION FairSpec
INVARIANTS
  Critical
  Accounting
  Exclusive
PROPERTIES
  RefusedOnlyWhenFull
  LedgerSpec
  LockReleased
