SPECIFICATION Spec
CHECK_DEADLOCK FALSE
CONSTANTS
  c1 = c1
  c2 = c2
  q1 = q1
  q2 = q2
  Conns <- TwoConns
  Tuples <- TwoTuples
  MaxStreams = 1
  MaxPrefix = 1
  MinReject = 1
  CloseTimeout = 1
  Hour = 1
  Modes <- OnlyLive
  ClientSegs <- PlainClientSegs
  ServerSegs <- PlainServerSegs
  Initials <- OneInitial
  DCIDs <- AllDCIDs
  Start = 1
  MaxTime = 2
  LastTraffic = 2
  MaxOpens = 3
  MaxWire = 1
  MaxCryptoBytes = 3
  MaxCryptoFrames = 2
SYMMETRY Symmetry
INVARIANTS
  LiveBalanced
  CapHolds
  CountersPartition
  CloseReleasesAll
  ShortfallReported
