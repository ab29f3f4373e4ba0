SPECIFICATION FairSpec
CONSTANTS
  Size = 4
  Answer <- MCAnswers
  FdLimit = 2
  MaxCalls = 3
INVARIANTS
  TypeOK
  BufferIsPrefix
  StatusIsReal
  EndMarkHasRoom
  AskedCallsClose
PROPERTIES
  ImplementsPromise
  CallEnds
CHECK_DEADLOCK FALSE
