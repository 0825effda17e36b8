SPECIFICATION FairSpec
CONSTANTS
  Lengths <- MCLengths
  ChunkSizes <- MCChunkSizes
  Scenarios <- MCScenarios
  MaxLost = 2
  MaxLate = 2
CHECK_DEADLOCK FALSE
INVARIANTS
  TypeOK
  QueuedIsWhole
  DeletedIsStored
PROPERTIES
  UploadEnds
