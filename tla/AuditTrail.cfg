SPECIFICATION Spec
CONSTANTS
  c1 = c1
  c2 = c2
  e1 = e1
  e2 = e2
  Domains = {}
  Credentials = {}
  Accounts = {}
  Targets = {}
  Assets = {}
  Endpoints = {e1, e2}
  DomainNames = {}
  DisplayNames = {"x", "y"}
  None = None
  Callers = {c1, c2}
  EventTypes = {"event"}
  SettingsChanged = "event"
  Exported = "event"
  MaxNotes = 2
  MaxAttempts = 2
  Exports = {1}
  Fields = {"password", "rotation"}
  Values = {"low", "high"}
  Default <- MCDefault
  Patches <- MCPatches
SYMMETRY CallerSymmetry
CHECK_DEADLOCK FALSE
INVARIANTS
  TypeOK
  NothingIsLeftBehind
  SettingsAreTheWish
