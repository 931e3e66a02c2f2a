SPECIFICATION Spec
CONSTANTS
  r1 = r1
  u1 = u1
  u2 = u2
  i1 = i1
  t1 = t1
  a1 = a1
  a2 = a2
  Super = Super
  Admin = Admin
  AppRoles <- AppRoles1
  Subjects <- Subjects2
  Ids <- Ids1
  Tenants = {}
  Global = Global
  Admins <- Admins2
  Supers <- Supers1
  MaxRevision = 2
INVARIANTS
  CountersExact
CHECK_DEADLOCK FALSE
