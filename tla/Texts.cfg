CONSTANTS
  NULL = NULL
  Char <- MCChar
  Libc = {"glibc", "bsd"}
  UrlText <- MCUrlText
  Scheme <- MCScheme
  Host <- MCHost
  PortText <- MCPortText
  Path <- MCPath
  Snippet <- MCSnippet
  Room <- MCRoom
  Location <- MCLocation
  ControlUrl <- MCControlUrl
  IntLength <- MCIntLength
  ProtoLength <- MCProtoLength
  Address <- MCAddress
  OptString <- MCOptString
  Item <- MCItem
  Operand <- MCOperand
  MaxItems = 3
SPECIFICATION ProgramSpec
INVARIANTS
  TypeOK
  SubstrIsBetween
  ElementsAreDefined
  PartTellsTheSame
  UrlComesApart
  BsdPortlessUrlComesApart
  NothingIsCut
  BodyIsAnnounced
  TargetHasOneSlash
  GetNamesUrl
  OptionsTypeOK
  OptionsAreRead
CHECK_DEADLOCK FALSE
