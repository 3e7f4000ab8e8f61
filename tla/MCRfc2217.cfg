\* Calls are bounded by the scenario: the program may stop in any state.
CHECK_DEADLOCK FALSE
SPECIFICATION Spec
CONSTANTS
  MaxOpens = 2
  UpData <- MCUpData
  DownData <- MCDownData
  Scenarios <- MCScenarios
INVARIANTS
  SettingsAgree
  ToldWhatIsSaved
  ReadersAccounted
PROPERTIES
  StreamsIntact
