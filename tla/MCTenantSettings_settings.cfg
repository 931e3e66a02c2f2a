CONSTANTS
  global = global
  tenant = tenant
  u1 = u1
  u2 = u2
  title = title
  color = color
  Users = {u1, u2}
  Enforcers = {u1}
  Targets = {tenant}
  Tenants = {tenant}
  Fields = {title, color}
  Values = {0, 1}
  Default <- FirstValues
  RuleSets <- TitleRules
  MaxSystem = 1
  MaxCopy = 2
SPECIFICATION Spec
INVARIANT
  TypeOK
PROPERTIES
  ImplementsLedger
  UneditedFieldsKept
  LockedFieldsKept
  SystemEditsKept
