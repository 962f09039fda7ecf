SPECIFICATION Spec
CONSTANTS
  c1 = c1
  c2 = c2
  Callers = {c1, c2}
  Sessions = {s1}
  s1 = s1
  NoSession = NoSession
  MaxTokens = 3
  Locales = {"zh", "en"}
  Worlds <- MCWorlds
  Selections <- MCSelections
  Tenants = {1, 2}
  Projects = {1, 2, 3}
  Environments = {1, 2, 3}
  TenantOf <- MCTenantOf
  ProjectOf <- MCProjectOf
  Roles = {"admin", "member", "guest"}
  LevelOf <- MCLevelOf
SYMMETRY CallerSymmetry
CHECK_DEADLOCK FALSE
PROPERTY LocaleIsPersisted
