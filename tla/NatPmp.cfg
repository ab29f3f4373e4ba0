SPECIFICATION FairSpec
CONSTANTS
  Field <- SafetyFields
  PortModulus = 4
  Address = {a1}
  NoAddress = NoAddress
  ResultCode = {2}
  Taken = {2}
  StrayGrant <- MCStrays
  FdLimit = 2
  MaxCalls = 3
  MaxAnswers = 2
INVARIANTS
  TypeOK
  GrantIsReal
  ErrnoExplains
  NoUnknownMapping
  PatienceSpent
PROPERTIES
  ImplementsPromise
  CallReturns
CHECK_DEADLOCK FALSE
