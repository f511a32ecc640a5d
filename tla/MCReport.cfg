SPECIFICATION ReportSpec
CHECK_DEADLOCK FALSE
CONSTANTS
  Cap99 = 3
  Observed <- AllFlows
  MaxAggregates = 2
  MaxTrackedClients = 2
  MaxAdds = 4
  MaxHTMLRows = 1
  SuiteOrder <- Alphabetical
INVARIANTS
  AllAccountedFor
  TalliesFaithful
  WorstFirst
  BomFaithful
PROPERTIES
  RepublishedAlike
