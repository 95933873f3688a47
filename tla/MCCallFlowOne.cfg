CONSTANTS
  c1 = c1
  c2 = c2
  Calls <- OneCall
  Script <- Gap
  Engines = {"asr"}
  BargeIn = TRUE
  Unmarked = TRUE
  Unreliable = TRUE
  Texts = {"yes", "no", "vague", "unclear", "none"}
  MaxResults = 3
SPECIFICATION Spec
CHECK_DEADLOCK FALSE
INVARIANTS
  NoFailedLookup
  HearsOwnNode
PROPERTIES
  FollowsScript
  HangsUpAtEnd
