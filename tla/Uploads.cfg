SPECIFICATION Spec
CONSTANTS
  f1 = f1
  f2 = f2
  f3 = f3
  c1 = c1
  c2 = c2
  s1 = s1
  s2 = s2
  s3 = s3
  n1 = n1
  n2 = n2
  n3 = n3
  nEmpty = nEmpty
  NoFile = NoFile
  NoName = NoName
  NoClient = NoClient
  NoSession = NoSession
  StaleSession = StaleSession
  Files <- ThreeFiles
  Clients <- OneClient
  Sessions <- TwoSessions
  Events <- FileEvents
  EncLen = 2
  Garbage <- NoGarbage
  Archived <- JustF1
  FinalExt <- JustF1
  FileLen <- MCFileLen
  Names <- MCNames
  Sizes <- MCSizes
  Results <- MCResults
  ArchiveName <- MCArchiveName
  MaxResets = 0
  MaxQueue = 3

INVARIANTS
  RetryBudget
  UploadComplete
  ArchiveSound
PROPERTIES
  DoneIsFinal
  IsJobQueue
