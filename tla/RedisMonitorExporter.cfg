\* ACL LOG reads less than Redis keeps. Deadlock is checked.
CONSTANTS
  Kinds <- TwoKinds
  Bindings <- OneBinding
  LogLen = 3
  ReadMax = 2
  GroupMax = 2
  ScanTruncates = FALSE
  MaxDisturbances = 4
  MaxErrors = 1
SPECIFICATION Spec
INVARIANTS
  TypeOK
  AdoptedNotCounted
  NothingMissed
  PublishedAsRead
  EmergencyAccounted
  OneAlarmPerRegression
  BindingEventsReal
PROPERTIES
  CountersNeverDrop
