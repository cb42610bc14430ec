\* Failed installs are uninstalled and retried once, failed upgrades rolled back; a crash or a failing API call anywhere.
SPECIFICATION FairSpec
CONSTANTS
  DefaultMaxHistory = 5
  TestEnable = FALSE
  TestIgnoreFailures = FALSE
  ReadyExcludesProgress = FALSE
  InstallRetries = 1
  UpgradeRetries = 1
  InstallRetryOnFailure = FALSE
  UpgradeRetryOnFailure = FALSE
  InstallRemediateLastFailure = "true"
  UpgradeRemediateLastFailure = "unset"
  InstallIgnoreTestFailures = FALSE
  UpgradeIgnoreTestFailures = FALSE
  UpgradeStrategy = "rollback"
  DriftMode = "disabled"
  Configs = {1, 2}
  Renderings = {0}
  KeepHistory = FALSE
  Replace = TRUE
  CancelHealthChecks = FALSE
  MaxChanges = 1
  MaxRequests = 0
  MaxFailures = 3
  MaxFaults = 1
  MaxExternal = 0
INVARIANTS
  TypeOK
  StalledMeansExhausted
PROPERTIES
  UninstallsOnlyFailedInstalls
  LockedIsUnlocked
CHECK_DEADLOCK FALSE
