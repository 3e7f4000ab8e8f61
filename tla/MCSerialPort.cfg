\* Calls are bounded by the budget: the program may stop in any state.
CHECK_DEADLOCK FALSE
SPECIFICATION FairSpec
CONSTANTS
  None = None
  Newlines <- MCNewlines
  Kinds = {"posix", "poll", "win32", "loop", "socket", "cli", "java"}
  MaxBytes = 2
  Budgets <- MCBudgets
  OutRoom = 1
INVARIANTS
  AgreedUnlessRaised
  HandleAccounted
  LinesKept
PROPERTIES
  KeepsThePromise
  WholeWrites
  TimedReadsEnd
