\* Two threads and two deliveries, each sent until it is answered. Deadlock is
\* checked.
CONSTANTS
  Handlers = {h1, h2}
  Deliveries = {d1, d2}
  Old = Old
  Fragment = Fragment
  MaxRecords = 3
  MaxFailures = 2
SPECIFICATION FairSpec
INVARIANTS
  TypeOK
  AckedMeansAppended
  LostOnlyInOverlap
  NoForgedCopies
  SizeBounded
PROPERTIES
  EventuallyAcked
