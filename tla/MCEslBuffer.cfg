CONSTANTS
  blocksize = 1
  start_len = 2
  max_len = 0
  Chunks <- Lines
  Sizes = {1}
  Fresh = {"n", "r", "0"}
  AllocFails = FALSE
  MaxData = 5
SPECIFICATION HandleSpec
INVARIANTS
  InBounds
  CountsPackets
PROPERTIES
  PacketEndsAtBlank
