SPECIFICATION Spec
CONSTANTS
  Block = 3
  OverrideMax = 3
  MaxSize = 4
  MaxBytes = 20
INVARIANTS
  TypeOK
  FramingAgrees
  OnlyOverridesSkew
PROPERTY KeepsContract
CHECK_DEADLOCK FALSE
