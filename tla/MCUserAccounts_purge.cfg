CONSTANTS
  root = root
  admin = admin
  user = user
  r1 = r1
  r2 = r2
  Existing = {root}
  Rank <- Ranks
  Users = {root, user}
  RootEmails = {root}
  Requests = {r1}
  MaxFailures = 1
  MaxTurns = 0
SPECIFICATION FairSpec
PROPERTY
  PurgeCompletes
CHECK_DEADLOCK FALSE
