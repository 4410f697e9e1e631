CONSTANTS
  MaxDepth = 2
  MaxTotal = 3
  ProbeLen = 2
  Inflate = 2
  MaxInput = 4
  Lengths <- FewLengths
SPECIFICATION Spec
INVARIANT StackIsThePath
PROPERTY ImplementsSink
PROPERTY CallsReturn
CHECK_DEADLOCK FALSE
