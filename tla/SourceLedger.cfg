SPECIFICATION LedgerSpec
CONSTANTS
  Stores = {s1, s2}
  s1 = s1
  s2 = s2
  ws = ws
  other = other
  NoNativeId = NoNativeId
  Scopes <- MCScopes
  Inputs <- MCInputs
  LegacyRows <- MCLegacy
  MaxOpens = 3
  MaxRetains = 3
CHECK_DEADLOCK FALSE
INVARIANTS LedgerOpens ReferencesUsable
