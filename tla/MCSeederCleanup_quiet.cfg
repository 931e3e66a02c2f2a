SPECIFICATION QuietSpec
CONSTANTS
  u1 = u1
  u2 = u2
  u3 = u3
  t1 = t1
  t2 = t2
  a1 = a1
  a2 = a2
  s1 = s1
  s2 = s2
  OrgUnitIds <- Units3
  TenantIds <- Tenants1
  Slugs <- Slugs2
  Statuses = {"active"}
  Actors <- Actors1
  NoId = NoId
  Seeding = {TRUE, FALSE}
  MaxMoveSubtreeNodes = 100
  MaxTransactItems = 100
  MaxVersion = 3
INVARIANTS
  CleanupTypeOK
  Forest
  SeededUnitsMarked
  CleanupComplete
SYMMETRY Symmetry
