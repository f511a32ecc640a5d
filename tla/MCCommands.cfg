SPECIFICATION LiveSpec
CONSTANTS
  f1 = f1
  f2 = f2
  f3 = f3
  Flows <- ThreeFlows
  Commands <- AllCommands
  MayFail = TRUE
  Files = 2
INVARIANTS
  TypeOK
  ReportSound
PROPERTIES
  CensusKept
  SnapshotFaithful
  InterruptEnds
