\* One edit and one trouble, or two troubles; the chart comes from a template or
\* a reference.
SPECIFICATION Spec
CONSTANTS
  Targets <- TwoTargets
  Templates = {"chart"}
  Refs = {"ref"}
  Denied = {}
  KeepHistory = FALSE
  Clients = {"account"}
  DirectSourceFetch = FALSE
  First <- FirstSpec
  MaxEdits = 1
  MaxTroubles = 2
INVARIANTS
  StartsFromRecord
  ReleaseIsRecorded
  ChartIsRecorded
  ReadyIsApplied
PROPERTIES
  OwnsOneRelease
CHECK_DEADLOCK FALSE
