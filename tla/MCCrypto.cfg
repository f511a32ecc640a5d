SPECIFICATION Spec
CHECK_DEADLOCK FALSE
CONSTANTS
  Sent <- FourUnits
  Genuine <- OneDatagram
  Strange <- StrangeDatagrams
  HalfInt = 128
  MaxPayload = 2
  MaxPackets = 3
  MaxCryptoBytes = 5
  MaxCryptoFrames = 3
INVARIANTS
  BoundedHold
  PrefixGenuine
  NothingMissed
  NeverPanics
PROPERTIES
  PrefixGrows
