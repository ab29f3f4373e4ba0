SPECIFICATION FairSpec
CONSTANTS
  Url <- MCUrl
  Igd <- MCIgd
  Node = {1, 2, 3, 4}
  FdLimit = 3
  Gateway = "gw"
  Code = {200, 500}
INVARIANTS
  TypeOK
  ListIsLinked
  NothingLeaks
  QualifiedAreListed
  OnePostToGateway
PROPERTIES
  ImplementsDeviceList
  ImplementsPromise
  CallEnds
CHECK_DEADLOCK FALSE
