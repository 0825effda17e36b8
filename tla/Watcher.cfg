SPECIFICATION FairSpec
CONSTANTS
  Root = Root
  s1 = s1
  n1 = n1
  n2 = n2
  NoDir = NoDir
  Subs <- MCSubs
  Names <- MCNames
  Scenarios <- MCScenarios
  MaxOps = 2
CHECK_DEADLOCK FALSE
INVARIANTS
  TypeOK
  MovesReal
PROPERTIES
  EveryFileReported
