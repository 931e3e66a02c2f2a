SPECIFICATION Spec
CONSTANTS
  u1 = u1
  u2 = u2
  u3 = u3
  t1 = t1
  t2 = t2
  a1 = a1
  a2 = a2
  s1 = s1
  s2 = s2
  OrgUnitIds <- Units2
  TenantIds <- Tenants2
  Slugs <- Slugs1
  active = active
  archived = archived
  Statuses <- Statuses1
  Actors <- Actors2
  NoId = NoId
  Seeding = {FALSE}
  MaxMoveSubtreeNodes = 100
  MaxTransactItems = 100
  MaxVersion = 4
INVARIANTS
  ChildTenantsContained
SYMMETRY Symmetry
