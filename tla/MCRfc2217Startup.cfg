\* The scenario ends: the program may stop in any state.
CHECK_DEADLOCK FALSE
SPECIFICATION Spec
CONSTANTS
  MaxOpens = 2
  UpData <- MCUpData
  DownData <- MCDownData
  Scenarios <- MCOneOpen
INVARIANTS
  StartupAgrees
