SPECIFICATION QuietSpec
CONSTANTS
  u1 = u1
  u2 = u2
  u3 = u3
  t1 = t1
  t2 = t2
  a1 = a1
  a2 = a2
  s1 = s1
  s2 = s2
  OrgUnitIds <- Units2
  TenantIds <- Tenants2
  Slugs <- Slugs2
  Statuses = {"active"}
  Actors <- Actors1
  NoId = NoId
  Seeding = {TRUE, FALSE}
  MaxMoveSubtreeNodes = 100
  MaxTransactItems = 6
  MaxVersion = 2
INVARIANTS
  AttachmentsSound
PROPERTIES
  CleanupKeepsForeignRoutes
SYMMETRY Symmetry
