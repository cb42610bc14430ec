\* Installs follow the RetryOnFailure strategy; upgrades are retried without limit, and their failures uninstalled with the history kept.
SPECIFICATION FairSpec
CONSTANTS
  DefaultMaxHistory = 5
  TestEnable = FALSE
  TestIgnoreFailures = FALSE
  ReadyExcludesProgress = TRUE
  InstallRetries <- Unlimited
  UpgradeRetries <- Unlimited
  InstallRetryOnFailure = TRUE
  UpgradeRetryOnFailure = FALSE
  InstallRemediateLastFailure = "unset"
  UpgradeRemediateLastFailure = "unset"
  InstallIgnoreTestFailures = FALSE
  UpgradeIgnoreTestFailures = FALSE
  UpgradeStrategy = "uninstall"
  DriftMode = "disabled"
  Configs = {1, 2}
  Renderings = {0, 1}
  KeepHistory = TRUE
  Replace = TRUE
  CancelHealthChecks = FALSE
  MaxChanges = 1
  MaxRequests = 0
  MaxFailures = 3
  MaxFaults = 1
  MaxExternal = 0
PROPERTIES
  ReadyMeansRendered
  
CHECK_DEADLOCK FALSE
