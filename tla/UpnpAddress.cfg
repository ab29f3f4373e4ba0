SPECIFICATION Spec
CONSTANTS
  Url <- MCUrl
  Igd <- MCIgd
  Node = {1, 2, 3, 4}
  FdLimit = 3
  Gateway = "gw"
  Code = {200, 500}
INVARIANT SuccessBringsAddress
CHECK_DEADLOCK FALSE
