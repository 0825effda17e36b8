SPECIFICATION Spec
CONSTANTS
  Lengths <- MCLengths
  ChunkSizes <- MCChunkSizes
  Scenarios <- MCScenarios
  MaxLost = 1
  MaxLate = 0
CHECK_DEADLOCK FALSE
PROPERTIES
  RestartsFromBeginning
