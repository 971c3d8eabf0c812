SPECIFICATION Spec
CONSTANTS
  P = 23
  B = 15
  Order = 17
  Gx = 1
  Gy = 6
  Limit = 32
  Scalings = {1,2,3,4,5,6,7,8,9,10,11,12,13,14,15,16,17,18,19,20,21,22}
  D = 3
  T = 2
  CombScalars <- MCCombScalars
  MulOrder = 4093
  NumNibbles = 3
  NumBits = 9
  LinOrder = 509
  Seconds = {0, 123}
  SecondScalars = {0, 1, 187, 341, 508}
  SecpP = 79
  SecpB = 7
  SecpOrder = 67
  SecpGx = 1
  SecpGy = 18
  SecpLimit = 128
  SecpMultiple <- MCSecpMultiple
  SecpBits = 7
  SecpStarts = {1, 2, 5, 33, 66}
  XP = 109
  XA24 = 9
  XULimit = 128
  XBaseU = 3
  XBits = 8
  XStarts <- MCXStarts
  Columns = 2
  FixedOrder = 65521
  FixedScalars <- MCFixedScalars
  SlideBits = 7
  SlideOrder = 127
  BasePoints = {1, 50, 126}
  PartnerScalars = {0, 85, 126}
  InvOrder = 251
  DivWord = 7
  Rounds = 4
INVARIANTS
  TypeOK
  RepresentsMultiple
  RecodingPreservesValue
  ComputesMultiples
  InvertsScalars
PROPERTY
  Returns
CHECK_DEADLOCK FALSE
