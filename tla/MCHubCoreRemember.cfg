\* The comment of hub_core.v 15-16 against the code.
SPECIFICATION UplinkSpec
CONSTANTS
  SLAVES = 3
  SyncDelay <- MCSyncDelay
  MaxFinds <- MCMaxFinds
PROPERTY RememberAll
