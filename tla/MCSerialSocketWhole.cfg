\* The docstring of protocol_socket.py 133-135 against the code: bytes.
CHECK_DEADLOCK FALSE
SPECIFICATION FairSpec
CONSTANTS
  None = None
  Newlines <- MCNewlines
  Kinds = {"socket"}
  MaxBytes = 2
  Budgets <- MCBudgets
  OutRoom = 1
PROPERTY NothingOverwritten
