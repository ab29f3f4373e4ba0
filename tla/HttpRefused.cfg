SPECIFICATION Spec
CONSTANTS
  Size = 4
  Answer <- MCAnswers
  FdLimit = 2
  MaxCalls = 3
INVARIANT ConnectedIsEstablished
CHECK_DEADLOCK FALSE
