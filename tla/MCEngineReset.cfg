\* The reset and the ring at their full lengths, hash_clk at its default speed.
SPECIFICATION Spec
CONSTANTS
  RESETCYCLES = 31
  NONCES = 4
  InCycles = 40
  OutCycles = 2
  SHIFTS = 5
  THREADS = 16
  START_INTERVAL = 40
  SPACING = 40
  PPeriod = 2
  HPeriods <- TwentyFiveMHz
  MaxLoads = 1
PROPERTY ResetReachesAll
