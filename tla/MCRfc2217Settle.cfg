\* Calls are bounded by the scenario: the program may stop in any state.
CHECK_DEADLOCK FALSE
SPECIFICATION FairSpec
CONSTANTS
  MaxOpens = 2
  UpData <- MCUpData
  DownData <- MCDownData
  Scenarios <- MCSettle
PROPERTIES
  NegotiationSettles
