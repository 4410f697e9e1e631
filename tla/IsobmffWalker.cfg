SPECIFICATION Spec
CONSTANTS
  HeaderMin = 2
  LargeExtra = 1
  UuidExtra = 1
  MaxDepth = 3
  ChunkMin = 3
  MaxSize = 8
  MaxBytes = 14
INVARIANTS
  ExtentsNest
  BoundaryIsLive
  FinishedWhole
PROPERTIES
  PayloadNeverOverruns
  ImplementsReports
CHECK_DEADLOCK FALSE
