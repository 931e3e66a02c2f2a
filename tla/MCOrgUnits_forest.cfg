SPECIFICATION Spec
CONSTANTS
  u1 = u1
  u2 = u2
  u3 = u3
  t1 = t1
  t2 = t2
  a1 = a1
  a2 = a2
  OrgUnitIds <- Units3
  TenantIds <- Tenants1
  s1 = s1
  s2 = s2
  Slugs <- Slugs2
  active = active
  archived = archived
  Statuses <- Statuses1
  Actors <- Actors2
  NoId = NoId
  Seeding = {FALSE}
  MaxMoveSubtreeNodes = 100
  MaxTransactItems = 100
  MaxVersion = 3
INVARIANTS
  TypeOK
  Forest
  Predecessors
  VersionIdentifiesRow
  AttachmentsSound
PROPERTIES
  ImplementsOrgForest
SYMMETRY Symmetry
