\* Two charts with one CRD are installed at the same time.
SPECIFICATION Spec
CONSTANTS
  Runs = {"a", "b"}
  CRDs = {"c1", "c2"}
  Setups <- MCSetups
  UseHelm3Defaults = FALSE
  MemoryMax = 2
  Threshold = 100
  MaxTroubles = 0
PROPERTIES
  CreateLeavesExisting
CHECK_DEADLOCK FALSE
