\* Two faults of the collector. Deadlock is checked.
CONSTANTS
  MaxFaults = 2
SPECIFICATION FairSpec
INVARIANTS
  TypeOK
PROPERTIES
  ForgetsNoSuccess
  QueueLossTold
  StalledGaugeTold
