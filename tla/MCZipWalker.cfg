SPECIFICATION Spec
CONSTANTS
  FixedLen <- Lens
  Base = 3
  Methods = {"stored", "deflate"}
  Ratio = 2
  Slack = 1
  ChunkMin = 2
  Areas <- ExtraAreas
  MaxSize = 3
  MaxVariable = 2
  MaxSkip = 1
  MaxScan = 8
  MaxBytes = 18
INVARIANTS
  ScanIsLeftmost
  MembersAreFramed
  FinishedWhole
PROPERTIES
  ScanTellsTheData
  ImplementsReports
CHECK_DEADLOCK FALSE
