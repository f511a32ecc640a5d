SPECIFICATION Spec
CONSTANTS
  f1 = f1
  f2 = f2
  f3 = f3
  Flows <- TwoFlows
  Commands <- OnlyWatch
  MayFail = TRUE
  Files = 1
INVARIANTS
  FailureReturned
