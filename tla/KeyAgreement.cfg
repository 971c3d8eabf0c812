SPECIFICATION AgreementSpec
CONSTANTS
  P = 23
  B = 15
  Order = 17
  Gx = 1
  Gy = 6
  Limit = 32
  Secrets = {0, 5, 6, 17, 31}
  Malformed <- MCMalformed
  SecpP = 79
  SecpB = 7
  SecpOrder = 67
  SecpGx = 1
  SecpGy = 18
  SecpLimit = 128
  SecpMultiple <- MCSecpMultiple
  SecpSecrets = {0, 33, 67, 90}
  SecpMalformed <- MCSecpMalformed
  XP = 109
  XA24 = 9
  XULimit = 128
  XBaseU = 3
  XBits = 8
  XSecrets = {0, 75, 255}
  XArrivals <- MCXArrivals
INVARIANTS
  AgreementTypeOK
  PartiesAgree
  OnlyValidPeers
  HonestPeersHeard
CHECK_DEADLOCK FALSE
