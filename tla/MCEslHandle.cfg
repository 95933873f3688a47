CONSTANTS
  Waits = {"block", "timed"}
  MaxCmds = 3
  MaxEvents = 3
SPECIFICATION FairSpec
CHECK_DEADLOCK FALSE
INVARIANTS
  LockBalanced
  InOrder
  NoEventLost
PROPERTIES
  SessionSpec
  CommandReturns
  EventsDispatched
  CloseEndsThread
