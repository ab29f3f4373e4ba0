CONSTANTS
  NULL = NULL
  Typed <- MCTyped
  Number <- MCNumber
  Gateway <- MCGateway
  Supported <- MCSupported
  Granted <- MCGranted
SPECIFICATION FairSpec
INVARIANTS
  TypeOK
  CallIsAsNamed
  MissingOperandsAreNoticed
  MappingsAreTold
PROPERTY EveryLineIsRead
CHECK_DEADLOCK FALSE
