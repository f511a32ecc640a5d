SPECIFICATION Spec
CONSTANTS
  MaxPackets = 4
  MaxBatch = 3
  DeviceCount = 3
INVARIANTS
  ReadsOwnDevice
