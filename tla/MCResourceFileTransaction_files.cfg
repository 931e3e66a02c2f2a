SPECIFICATION Spec
CONSTANTS
  p1 = p1
  p2 = p2
  d1 = d1
  d2 = d2
  i1 = i1
  i2 = i2
  i3 = i3
  x1 = x1
  Paths <- Paths2
  Dirs <- Dirs2
  DirsAbove <- Tree
  Images <- Images3
  Absent = Absent
  Transactions <- Transactions1
  Nothing = Nothing
  MaxEdits = 2
INVARIANTS
  TypeOK
  StatusTellsTheTruth
PROPERTIES
  DriftStopsTheCall
  DirectoriesRemoved
SYMMETRY Symmetry
CHECK_DEADLOCK FALSE
