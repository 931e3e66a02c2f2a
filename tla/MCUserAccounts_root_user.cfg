CONSTANTS
  root = root
  admin = admin
  user = user
  r1 = r1
  r2 = r2
  Existing = {root}
  Rank <- Ranks
  Users = {root, user}
  RootEmails = {root, user}
  Requests = {r1}
  MaxFailures = 0
  MaxTurns = 2
SPECIFICATION BootstrapSpec
INVARIANT
  OneRoot
PROPERTIES
  RootProtected
  PasswordKept
  BootstrapConverges
CHECK_DEADLOCK FALSE
