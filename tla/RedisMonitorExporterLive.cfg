\* One kind of event and no bindings: what fairness has to deliver.
CONSTANTS
  Kinds <- OneKind
  Bindings = {}
  LogLen = 2
  ReadMax = 2
  GroupMax = 2
  ScanTruncates = TRUE
  MaxDisturbances = 3
  MaxErrors = 1
SPECIFICATION FairSpec
PROPERTIES
  EventsReachPrometheus
  StandingRegressionFlagged
