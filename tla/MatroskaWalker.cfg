SPECIFICATION Spec
CONSTANTS
  IdMax = 2
  SizeMax = 2
  ChunkMin = 3
  MaxSize = 7
  MaxBytes = 16
INVARIANTS
  ExtentsNest
  FinishedWhole
PROPERTIES
  PayloadNeverOverruns
  ImplementsReports
CHECK_DEADLOCK FALSE
