SPECIFICATION SchemeSpec
CONSTANTS
  P = 23
  B = 15
  Order = 17
  Gx = 1
  Gy = 6
  Limit = 32
  Keys = {0, 1, 5, 16}
  Hashes = {0, 3, 17, 29}
  Zs = {1, 2, 22}
  BadKeys <- MCBadKeys
  EdP = 2029
  EdD = 395
  EdSqrtM1 = 992
  EdYLimit = 2048
  EdBx = 738
  EdBy = 14
  EdScalarBits = 10
  EdW = 4
  EdN = 5
  EdL = 263
  EdHalves = {0, 231, 500, 1023}
  EdDigests = {0, 388, 9991, 306132, 777777, 1048575}
  EdKeyLogs = {0, 5}
  EdRLogs = {0, 77}
  EdKeyTorsions = {0, 1, 2, 4}
  EdRTorsions = {0, 1, 4}
  EdOffsets = {0, 1, 263, 512}
  EdTorsion <- MCTorsion
  EdUndecodable <- MCUndecodable
  DriverKeys = {0, 1, 5, 16, 17}
  DriverHashes = {0, 3, 29}
  MaxDraws = 8
  OtherXs = {1, 24}
  OtherYs = {6, 7, 29}
  Rs = {0, 1, 2, 6, 16, 17}
INVARIANTS
  DocumentedEd25519
CHECK_DEADLOCK FALSE
