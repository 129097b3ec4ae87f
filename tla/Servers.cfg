SPECIFICATION Spec
CONSTANTS
  None = None
  SvcLetters = 3
  Listings = {"a", "b"}
  Folders = {"i1", "i2"}
  LoggedFolders = {"i1"}
  TableSize = 2
  Renames = 2
  SuperviseDeaths = 2
  ScanFails = 1
  LogSize = 5
  LineEndRoom = 2
  LogFiles = 2
  LogLines = 3
  LogKills = 1
  PowerFailures = 1
  Tcpservers <- MCTcpservers
  Senders = {"s1", "s2"}
  BarredSenders = {"s2"}
  Rcpts = {"r1", "r2", "r3"}
  BarredRcpts = {"r2"}
  OurRcpts = {"r1", "r2"}
  RcptMax = 2
  Letters = 2
  ByteLimit = 6
  AuthByteLimit = 3
  SpfBytes = 2
  LetterSizes = {3, 4, 7}
  IntWidth = 64
  Connections = {"p1", "p2", "p3"}
  HoldTime = 1
  GoneAge = 2
  OnceAge = 1
  ClockEnd = 3
  Cleanings = 1
  TalkRcpts = 2
  TalkLines = 5
CHECK_DEADLOCK FALSE
INVARIANTS
  ServicesKept
  LogKept
  ConnectionsCounted
  CdbFinds
  
  GreylistHolds
PROPERTIES
  ServersFollow
