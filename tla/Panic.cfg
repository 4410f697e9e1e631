CONSTANTS
  ChunkMin = 2
  ChunkTarget = 2
  ChunkMax = 3
  HeaderMax = 2
  MaxBytes = 9
  ProbeMax = 3
  WindowMax = 2
  Profiles <- Drivers
SPECIFICATION AsyncSpec
CHECK_DEADLOCK FALSE
INVARIANT PanicsOnlyInsideAByte
