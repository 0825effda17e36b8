SPECIFICATION FairSpec
CONSTANTS
  f1 = f1
  f2 = f2
  f3 = f3
  c1 = c1
  c2 = c2
  s1 = s1
  s2 = s2
  s3 = s3
  n1 = n1
  n2 = n2
  n3 = n3
  nEmpty = nEmpty
  NoFile = NoFile
  NoName = NoName
  NoClient = NoClient
  NoSession = NoSession
  StaleSession = StaleSession
  Files <- OneFile
  Clients <- TwoClients
  Sessions <- ThreeSessions
  Events <- FairEvents
  EncLen = 1
  Garbage <- NoGarbage
  Archived <- None
  FinalExt <- None
  FileLen <- MCFileLen
  Names <- MCNames
  Sizes <- MCSizes
  Results <- MCResults
  ArchiveName <- MCArchiveName
  MaxResets = 0
  MaxQueue = 3

PROPERTIES
  ResultRecorded
  EveryFileSettles
