CONSTANTS
  c1 = c1
  c2 = c2
  Calls <- TwoCalls
  Script <- Gap
  Engines = {"asr", "speech"}
  BargeIn = FALSE
  Unmarked = FALSE
  Unreliable = TRUE
  Texts = {"yes", "no", "vague", "unclear", "none"}
  MaxResults = 2
SPECIFICATION Spec
CHECK_DEADLOCK FALSE
PROPERTIES
  FollowsScript
