\* No fault of the collector is needed.
CONSTANTS
  MaxFaults = 0
SPECIFICATION Spec
PROPERTIES
  GaugeRetained
