CONSTANTS
  NULL = NULL
  Char <- MCChar
  Libc = {"glibc"}
  UrlText <- MCUrlText
  Scheme <- MCScheme
  Host <- MCHost
  PortText <- MCPortText
  Path <- MCPath
  Snippet <- None
  Room <- MCRoom
  Location <- None
  ControlUrl <- None
  IntLength <- None
  ProtoLength <- None
  Address <- None
  OptString <- MCOptString
  Item <- None
  Operand <- None
  MaxItems = 0
SPECIFICATION ProgramSpec
INVARIANT PortlessUrlComesApart
