SPECIFICATION RingSpec
CONSTANTS
  RingN = 256
  RingQ = 3329
  AccMax = 2147483647
  RingPolys <- GreatestPolys
INVARIANT
  ReturnsProduct
CHECK_DEADLOCK FALSE
