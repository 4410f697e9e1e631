CONSTANTS
  ChunkMin = 3
  ChunkTarget = 4
  ChunkMax = 6
  HeaderMax = 4
  MaxBytes = 12
  Profiles <- AllProfiles
SPECIFICATION Spec
INVARIANT Partition
INVARIANT Envelope
INVARIANT HashIsLocal
INVARIANT OneChunkPerByte
INVARIANT UnitsAlign
PROPERTY ImplementsPromise
