\* No faults: requests and two changes among failing actions.
SPECIFICATION FairSpec
CONSTANTS
  DefaultMaxHistory = 5
  TestEnable = FALSE
  TestIgnoreFailures = FALSE
  ReadyExcludesProgress = FALSE
  InstallRetries = 0
  UpgradeRetries = 1
  InstallRetryOnFailure = FALSE
  UpgradeRetryOnFailure = FALSE
  InstallRemediateLastFailure = "unset"
  UpgradeRemediateLastFailure = "unset"
  InstallIgnoreTestFailures = FALSE
  UpgradeIgnoreTestFailures = FALSE
  UpgradeStrategy = "rollback"
  DriftMode = "disabled"
  Configs = {1, 2}
  Renderings = {0}
  KeepHistory = FALSE
  Replace = TRUE
  CancelHealthChecks = FALSE
  MaxChanges = 2
  MaxRequests = 1
  MaxFailures = 3
  MaxFaults = 0
  MaxExternal = 0
INVARIANTS
  HistoryTracksStorage
  NoChangeMissed

  
CHECK_DEADLOCK FALSE
