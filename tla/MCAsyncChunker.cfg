CONSTANTS
  ChunkMin = 2
  ChunkTarget = 2
  ChunkMax = 3
  HeaderMax = 2
  MaxBytes = 9
  ProbeMax = 3
  WindowMax = 2
  Profiles <- Drivers
SPECIFICATION AsyncSpec
INVARIANT DeliversEveryByte
INVARIANT ReadAheadIsExact
PROPERTY StreamEnds
CHECK_DEADLOCK FALSE
