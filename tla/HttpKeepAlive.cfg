SPECIFICATION Spec
CONSTANTS
  Size = 4
  Answer <- MCAnswers
  FdLimit = 2
  MaxCalls = 3
INVARIANT AvailableStatusIsReturned
CHECK_DEADLOCK FALSE
