SPECIFICATION FairSpec
CONSTANTS
  MaxLength = 5
  ChunkSizes <- MCChunkSizes
  Scenarios <- MCScenarios
  MaxLost = 2
CHECK_DEADLOCK FALSE
INVARIANTS
  TypeOK
  AcceptedIsWhole
PROPERTIES
  DownloadEnds
