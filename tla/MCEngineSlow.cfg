\* hash_clk at SPEED_MIN.
SPECIFICATION Spec
CONSTANTS
  RESETCYCLES = 31
  NONCES = 4
  InCycles = 40
  OutCycles = 2
  SHIFTS = 5
  THREADS = 2
  START_INTERVAL = 17
  SPACING = 16
  PPeriod = 2
  HPeriods <- TenMHz
  MaxLoads = 0
INVARIANT Paired
