CONSTANTS
  root = root
  admin = admin
  user = user
  r1 = r1
  r2 = r2
  Existing = {admin}
  Rank <- Ranks
  Users = {admin, user}
  RootEmails = {user}
  Requests = {r1, r2}
  MaxFailures = 1
  MaxTurns = 0
SPECIFICATION Spec
INVARIANTS
  TypeOK
  StoresAgree
  PurgeLeavesNothing
SYMMETRY Symmetry
CHECK_DEADLOCK FALSE
