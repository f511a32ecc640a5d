SPECIFICATION Spec
CHECK_DEADLOCK FALSE
CONSTANTS
  Exchanges <- SomeExchanges
  MaxExts = 3
  Cap99 = 2
INVARIANTS
  BadExtensionIsolated
  DecodedFaithful
  RecordFaithful
  FingerprintStable
