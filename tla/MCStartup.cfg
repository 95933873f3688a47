CONSTANTS
  c1 = c1
  k1 = k1
  Calls <- MCCalls
  TestCall = c1
  Rows = 1
  Conns <- MCConns
  NoConn = NoConn
  NoClient = NoClient
  MaxSize = 2
SPECIFICATION FairSpec
CHECK_DEADLOCK FALSE
INVARIANTS
  AcceptedFirst
  LoanReturned
PROPERTIES
  
  
  CallsAttended
  ProcessEnds
