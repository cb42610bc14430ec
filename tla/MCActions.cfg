\* CRDs, hooks and waits of two concurrent actions.
SPECIFICATION FairSpec
CONSTANTS
  Runs = {"a", "b"}
  CRDs = {"c1", "c2"}
  Setups <- MCSetups
  UseHelm3Defaults = FALSE
  MemoryMax = 2
  Threshold = 100
  MaxTroubles = 1
INVARIANTS
  OwnCRDsServed
  CreateLeavesOlderCRDs
  SuccessMeansComplete
PROPERTIES
  NearOOMEndsRuns
CHECK_DEADLOCK FALSE
