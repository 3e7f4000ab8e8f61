SPECIFICATION FairSpec
CONSTANTS
  DeviceList <- MCDeviceList
  Clients = {"c1", "c2"}
  Limit = 1
  Scenarios <- MCScenarios
  MaxActs = 6
  Interruptible = TRUE
CHECK_DEADLOCK FALSE
INVARIANTS ClientsApart SelectNeverPoisoned OneReader CarriedOver
PROPERTIES DeadAreUnregistered EndsWhenAsked
