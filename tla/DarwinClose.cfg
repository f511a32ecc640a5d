SPECIFICATION LiveSpec
CONSTANTS
  MaxPackets = 4
  MaxBatch = 3
  DeviceCount = 3
INVARIANTS
  NoPacketForgotten
  DescriptorOwned
PROPERTIES
  SourceKept
  CloseEnds
