SPECIFICATION KemSpec
CONSTANTS
  KemInputs <- SecondPower
  KemPairs = {}
  KemProducts = {}
  KemSlots = {}
  KemMaxOps = 0
  KemMaxTerms <- NoTerms
INVARIANT
  ReachesNttDomain
CHECK_DEADLOCK FALSE
