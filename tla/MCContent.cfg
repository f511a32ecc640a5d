SPECIFICATION Spec
CHECK_DEADLOCK FALSE
CONSTANTS
  c1 = c1
  c2 = c2
  q1 = q1
  q2 = q2
  Conns <- OneConn
  Tuples <- NoConns
  MaxStreams = 1
  MaxPrefix = 2
  MinReject = 2
  CloseTimeout = 1
  Hour = 1
  Modes <- OnlyLive
  ClientSegs <- RichClientSegs
  ServerSegs <- RichServerSegs
  Initials <- NoInitials
  DCIDs <- AllDCIDs
  Start = 1
  MaxTime = 1
  LastTraffic = 1
  MaxOpens = 1
  MaxWire = 3
  MaxCryptoBytes = 3
  MaxCryptoFrames = 2
INVARIANTS
  HelloKept
  TruncationHonest
  ReportFaithful
