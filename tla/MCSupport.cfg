\* Drift detection and correction, the log of an action and its
\* handlers, the getter of clients and the revisions of the source.
SPECIFICATION FairSpec
CONSTANTS
  ReleaseName = "podinfo"
  ReleaseNamespace = "default"
  ClusterScoped = {"space", "crd"}
  DriftSetups <- MCDriftSetups
  SortedNames <- MCSortedNames
  NamespaceObject = "space"
  Paths = {"image", "replicas"}
  MaxDriftTroubles = 2
  Size = 3
  Messages = {"m1", "m2", "m3"}
  AttrNames = {"a", "b"}
  MaxHandlers = 4
  MaxAppends = 7
  Goroutines = {"g1", "g2", "g3"}
  Persistent = TRUE
  MaxCalls = 4
  MaxRefusals = 1
  SourceSetups <- MCSourceSetups
  ChartVersions = {"1", "2"}
  MaxMoves = 2
  MaxUpgradeFailures = 1
INVARIANTS
  
  RoundCorrects
  ShowsEndOfLog
  LinesShowOwnAttrs
  OneDiscoveryClient
  
  SnapshotsNameArtifacts
PROPERTIES
  WritesAreCorrections
  DriftIsRepaired
  CallsReturn
  SourceCatchesUp
CHECK_DEADLOCK FALSE
