SPECIFICATION Spec
CONSTANTS
  Field <- CliFields
  PortModulus = 4
  Address = {a1}
  NoAddress = NoAddress
  ResultCode = {2}
  Taken = {2}
  StrayGrant <- MCStrays
  FdLimit = 2
  MaxCalls = 3
  MaxAnswers = 2
INVARIANTS
  DeletedPortIsFree
CHECK_DEADLOCK FALSE
