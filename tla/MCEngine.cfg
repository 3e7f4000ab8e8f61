\* Two threads instead of sixteen; the reset, the shift and the hashes are
\* shorter but keep the order they have in the source.
SPECIFICATION FairSpec
CONSTANTS
  RESETCYCLES = 11
  NONCES = 4
  InCycles = 9
  OutCycles = 2
  SHIFTS = 5
  THREADS = 2
  START_INTERVAL = 17
  SPACING = 16
  PPeriod = 2
  HPeriods <- FastAndMedium
  MaxLoads = 1
INVARIANTS
  TypeOK
  Paired
  NoneLost
  NoOverlap
PROPERTIES
  CheckedOnce
  ResetReachesAll
  KeepsChecking
