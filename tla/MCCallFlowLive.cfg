CONSTANTS
  c1 = c1
  c2 = c2
  Calls <- OneCall
  Script <- Straight
  Engines = {"asr"}
  BargeIn = FALSE
  Unmarked = TRUE
  Unreliable = FALSE
  Texts = {"yes", "no"}
  MaxResults = 3
SPECIFICATION FairSpec
CHECK_DEADLOCK FALSE
PROPERTIES
  CallEnds
