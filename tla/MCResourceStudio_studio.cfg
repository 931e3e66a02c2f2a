SPECIFICATION Spec
CONSTANTS
  e1 = e1
  e2 = e2
  n1 = n1
  n2 = n2
  a1 = a1
  a2 = a2
  w1 = w1
  w2 = w2
  Entities <- Entities2
  Names <- Names2
  Profiles <- Profiles2
  Identities <- Identities2
  Absent = Absent
  Foreign = Foreign
  HistoryLimit = 3
  IntentLimit = 1
  MaxTransactions = 2
  MaxEdits = 1
  MaxIssued = 2
INVARIANTS
  TypeOK
  FilesAgree
  LastInFirstOut
PROPERTIES
  DeploysAsVerified
SYMMETRY Symmetry
