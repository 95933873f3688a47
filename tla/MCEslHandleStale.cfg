CONSTANTS
  Waits = {"block", "timed"}
  MaxCmds = 3
  MaxEvents = 1
SPECIFICATION Spec
CHECK_DEADLOCK FALSE
INVARIANTS
  ReplyMatches
