\* The published default-user counter falls back to 0.
CONSTANTS
  Kinds <- TwoKinds
  Bindings = {}
  LogLen = 2
  ReadMax = 2
  GroupMax = 2
  ScanTruncates = FALSE
  MaxDisturbances = 4
  MaxErrors = 1
SPECIFICATION Spec
PROPERTIES
  DefaultCounterNeverDrops
