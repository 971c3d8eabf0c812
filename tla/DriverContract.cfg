SPECIFICATION Spec
CONSTANTS
  P = 23
  B = 15
  Order = 17
  Gx = 1
  Gy = 6
  Limit = 32
  Keys = {0, 1, 5, 16, 17}
  Hashes = {0, 3, 29}
  MaxDraws = 8
  OtherXs = {1, 24}
  OtherYs = {6, 7, 29}
  Rs = {0, 1, 2, 6, 16, 17}
INVARIANT
  VerifyContract
CHECK_DEADLOCK FALSE
