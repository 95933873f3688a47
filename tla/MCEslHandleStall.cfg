CONSTANTS
  Waits = {"block", "timed"}
  MaxCmds = 2
  MaxEvents = 1
SPECIFICATION StallSpec
CHECK_DEADLOCK FALSE
PROPERTIES
  TimedWaitEnds
