SPECIFICATION ModularSpec
CONSTANTS
  W = 4
  N = 3
  Pow <- MCPow
  Moduli = {3, 9, 35, 61, 63}
  WordBits = 4
  Words = 2
  NewtonSteps = 1
  ByteBits = 2
  ExpModuli = {0, 1, 3, 21, 143, 170, 253, 255}
  Bases = {0, 1, 2, 13, 140, 142, 252, 254}
  Exponents <- MCExponents
  Low = 3
  ScalarWords = 5
  L = 263
  Wides <- MCWides
  Narrows <- MCNarrows
  LimbM = 128
  LimbK = 3
  LimbC = 2
  LimbCorners = {0, 127}
  LimbRounds = 2
  RingN = 3
  RingQ = 17
  AccMax = 768
  RingPolys <- MCRingPolys
  DsaW = 2048
  DsaQ = 241
  DsaQinv = 17
  DsaH = 128
  DsaSizes = {0, 1, 97, 240}
  DsaMaxTerms = 5
  KemInputs <- MCKemInputs
  KemPairs <- MCKemPairs
  KemProducts <- MCKemProducts
  KemSlots = {1, 66}
  KemMaxOps = 2
  KemMaxTerms <- MCKemMaxTerms
INVARIANTS
  ModularTypeOK
  Reduced
  ComputesPower
  RaisesToExponent
  KeepsResidue
  ReturnsProduct
  SumsLeaveRoom
  CoefficientsFit
PROPERTIES
  AddsSubtractsHalves
  MultipliesMontgomery
  ComputesModP
  DsaComputesModQ
CHECK_DEADLOCK FALSE
