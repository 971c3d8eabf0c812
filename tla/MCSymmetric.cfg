SPECIFICATION SymmetricSpec
CONSTANTS
  Block = 6
  LenField = 2
  MaxLen = 26
  Rates = {2, 3, 4}
  MaxFed = 9
  MaxOut = 9
  B = 8
  Radix = 4
  LowBytes = 2
  Starts <- MCStarts
  MaxStream = 34
  MaxGhash = 14
  OutLens = {2, 4}
  MaxKey = 8
  MaxHmac = 13
  MaxCmac = 14
  MaxRuns = 3
  PolyBlock = 2
  ByteBase = 32
  LimbBase = 16
  Limbs = 3
  MulKeys <- MCMulKeys
  AddKeys = {0, 1023}
  PolyBytes = {0, 27, 31}
  MaxPoly = 5
  Nonces <- MCNonces
  NonceLens = {4, 5}
  Aads <- MCAads
  MaxAad = 13
  MaxCalls = 4
  Messages <- MCMessages
  TagLens = {2, 4, 5, 8}
  GoodTagLens = {4, 8}
  MaxBlocks = 5
INVARIANTS
  SymmetricTypeOK
  TypeOK
  FedIsMessage
  SpongeIsStandard
  CutsDoNotMatter
  MacsAreStandard
  AcceptsWhatWasSent
  RetriesNeedTheCiphertext
  BlocksSeparate
PROPERTIES
  CallsReturn
  ImplementsHashSpec
CHECK_DEADLOCK FALSE
