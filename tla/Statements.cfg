SPECIFICATION Spec
CONSTANTS
  f1 = f1
  f2 = f2
  n1 = n1
  n2 = n2
  NoFile = NoFile
  NoName = NoName
  Files <- MCFiles
  Names <- MCNames
  Sizes <- MCSizes
  Results <- MCResults
  MaxResets = 1
  MaxCrashes = 1
SYMMETRY MCSymmetry
INVARIANTS
  DbTypeOK
  RetryBudget
  UnlimitedHasBudget
PROPERTIES
  Implements
