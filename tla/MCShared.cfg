\* Others use Helm and kubectl; a request cancels health checks; drift is corrected.
SPECIFICATION FairSpec
CONSTANTS
  DefaultMaxHistory = 5
  TestEnable = FALSE
  TestIgnoreFailures = FALSE
  ReadyExcludesProgress = FALSE
  InstallRetries = 0
  UpgradeRetries = 1
  InstallRetryOnFailure = FALSE
  UpgradeRetryOnFailure = FALSE
  InstallRemediateLastFailure = "unset"
  UpgradeRemediateLastFailure = "unset"
  InstallIgnoreTestFailures = FALSE
  UpgradeIgnoreTestFailures = FALSE
  UpgradeStrategy = "rollback"
  DriftMode = "enabled"
  Configs = {1, 2}
  Renderings = {0}
  KeepHistory = FALSE
  Replace = TRUE
  CancelHealthChecks = TRUE
  MaxChanges = 0
  MaxRequests = 1
  MaxFailures = 1
  MaxFaults = 0
  MaxExternal = 2
INVARIANTS
  StateIsKnown
PROPERTIES
  Settles
CHECK_DEADLOCK FALSE
