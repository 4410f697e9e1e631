SPECIFICATION Spec
CONSTANTS
  Stage = 4
  Window = 2
  Dict = 4
  Growth = {0, 1, 3}
  HeaderLen = 3
  TrailerLen = 3
  NameMax = 2
  Threshold = 3
  Wrap = 4
  MaxExtra = 2
  MaxOut = 7
INVARIANTS
  MemberIsWhole
  TrailerFollowsBody
PROPERTY KeepsContract
CHECK_DEADLOCK FALSE
