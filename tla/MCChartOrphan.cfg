\* Nothing fails; the object is deleted at any time.
SPECIFICATION Spec
CONSTANTS
  Targets <- TwoTargets
  Templates = {"chart"}
  Refs = {}
  Denied = {}
  KeepHistory = FALSE
  Clients = {"account"}
  DirectSourceFetch = FALSE
  First <- FirstSpec
  MaxEdits = 0
  MaxTroubles = 0
INVARIANTS
  DeletionLeavesNoChart
CHECK_DEADLOCK FALSE
