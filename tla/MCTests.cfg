\* Helm tests run, fail and are remediated.
SPECIFICATION FairSpec
CONSTANTS
  DefaultMaxHistory = 5
  TestEnable = TRUE
  TestIgnoreFailures = FALSE
  ReadyExcludesProgress = FALSE
  InstallRetries = 0
  UpgradeRetries = 1
  InstallRetryOnFailure = FALSE
  UpgradeRetryOnFailure = FALSE
  InstallRemediateLastFailure = "unset"
  UpgradeRemediateLastFailure = "true"
  InstallIgnoreTestFailures = FALSE
  UpgradeIgnoreTestFailures = FALSE
  UpgradeStrategy = "rollback"
  DriftMode = "disabled"
  Configs = {1, 2}
  Renderings = {0}
  KeepHistory = FALSE
  Replace = TRUE
  CancelHealthChecks = FALSE
  MaxChanges = 1
  MaxRequests = 0
  MaxFailures = 3
  MaxFaults = 1
  MaxExternal = 0
INVARIANTS
  AttemptsWithinBudget
  
PROPERTIES
  ReadyMeansDeployed
CHECK_DEADLOCK FALSE
