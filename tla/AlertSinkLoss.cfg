\* Two threads and two deliveries in a sink that has to cut its file.
CONSTANTS
  Handlers = {h1, h2}
  Deliveries = {d1, d2}
  Old = Old
  Fragment = Fragment
  MaxRecords = 2
  MaxFailures = 0
SYMMETRY Symmetry
SPECIFICATION Spec
INVARIANTS
  AckedStored
