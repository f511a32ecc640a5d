SPECIFICATION LiveSpec
CHECK_DEADLOCK FALSE
CONSTANTS
  c1 = c1
  c2 = c2
  q1 = q1
  q2 = q2
  Conns <- OneConn
  Tuples <- OneTuple
  MaxStreams = 1
  MaxPrefix = 1
  MinReject = 1
  CloseTimeout = 1
  Hour = 1
  Modes <- BothModes
  ClientSegs <- RepeatedClientSegs
  ServerSegs <- RepeatedServerSegs
  Initials <- RichInitials
  DCIDs <- AllDCIDs
  Start = 1
  MaxTime = 5
  LastTraffic = 3
  MaxOpens = 2
  MaxWire = 2
  MaxCryptoBytes = 3
  MaxCryptoFrames = 2
INVARIANTS
  ReportedOnce
PROPERTIES
  FrozenOnceReported
  ReportedOnRelease
  QuietIsReleased
