SPECIFICATION LiveSpec
CONSTANTS
  MaxPackets = 3
  LowerCase <- Lowered
  Listings <- SomeListings
  Wants <- SomeWants
INVARIANTS
  NoUseAfterFree
  HandleOwned
  DeviceIntended
PROPERTIES
  SourceKept
  CloseEnds
