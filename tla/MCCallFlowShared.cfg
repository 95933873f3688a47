CONSTANTS
  c1 = c1
  c2 = c2
  Calls <- TwoCalls
  Script <- Gap
  Engines = {"asr", "speech"}
  BargeIn = TRUE
  Unmarked = TRUE
  Unreliable = TRUE
  Texts = {"yes", "no", "unclear"}
  MaxResults = 1
SPECIFICATION Spec
CHECK_DEADLOCK FALSE
INVARIANTS
  NoFailedLookup
