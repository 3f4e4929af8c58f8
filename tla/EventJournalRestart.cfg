SPECIFICATION Spec
CONSTANTS
  Secret <- MCSecret
  MaxAppends = 6
  None = None
INVARIANT RestartCanRead
CHECK_DEADLOCK FALSE
