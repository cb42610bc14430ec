---------------------------- MODULE Remediation ----------------------------
(* The failure handling a HelmRelease configures for its install and        *)
(* upgrade actions (api/v2/helmrelease_types.go), and the failure counters  *)
(* in its status that it is applied to.                                     *)
EXTENDS Integers

CONSTANTS
  InstallRetries,               \* .spec.install.remediation.retries
  UpgradeRetries,               \* .spec.upgrade.remediation.retries
  InstallRetryOnFailure,        \* the RetryOnFailure strategy is configured,
  UpgradeRetryOnFailure,        \*   or is the default and none is configured
  InstallRemediateLastFailure,  \* .remediateLastFailure, or unset
  UpgradeRemediateLastFailure,
  InstallIgnoreTestFailures,    \* .ignoreTestFailures with its default applied
  UpgradeIgnoreTestFailures,
  UpgradeStrategy               \* .spec.upgrade.remediation.strategy

ASSUME RemediationAssumption ==
  /\ InstallRetries \in Int /\ UpgradeRetries \in Int
  /\ InstallRetryOnFailure \in BOOLEAN /\ UpgradeRetryOnFailure \in BOOLEAN
  /\ InstallRemediateLastFailure \in {"unset", "true", "false"}
  /\ UpgradeRemediateLastFailure \in {"unset", "true", "false"}
  /\ InstallIgnoreTestFailures \in BOOLEAN
  /\ UpgradeIgnoreTestFailures \in BOOLEAN
  /\ UpgradeStrategy \in {"rollback", "uninstall"}

\* st is a status: lastAction is LastAttemptedReleaseAction, which selects
\* the active remediation.  There is none before the first release action.
HasRemediation(st) == st.lastAction \in {"install", "upgrade"}

GetActiveRetry(st) ==
  \/ st.lastAction = "install" /\ InstallRetryOnFailure
  \/ st.lastAction = "upgrade" /\ UpgradeRetryOnFailure

\* Mutant: one retry too many.
InstallExhaustedLate(st) ==
  InstallRetries >= 0 /\ st.installFailures > InstallRetries + 1

\* Mutant: a negative number of retries is a limit.
UpgradeExhaustedAtOnce(st) == st.upgradeFailures > UpgradeRetries

InstallExhausted(st) ==
  InstallRetries >= 0 /\ st.installFailures > InstallRetries
UpgradeExhausted(st) ==
  UpgradeRetries >= 0 /\ st.upgradeFailures > UpgradeRetries

RetriesExhausted(st) ==
  IF st.lastAction = "install" THEN InstallExhausted(st)
                               ELSE UpgradeExhausted(st)

GetFailureCount(st) ==
  IF st.lastAction = "install" THEN st.installFailures
                               ELSE st.upgradeFailures

\* Mutant: the counter goes the wrong way.
DecrementedFailureCount(st) ==
  IF st.lastAction = "install" THEN [st EXCEPT !.installFailures = @ - 1]
                               ELSE [st EXCEPT !.upgradeFailures = @ - 1]

IncrementFailureCount(st) ==
  IF st.lastAction = "install"
  THEN [st EXCEPT !.installFailures = @ + 1]
  ELSE [st EXCEPT !.upgradeFailures = @ + 1]

MustRemediateLastFailure(st) ==
  IF st.lastAction = "install"
  THEN InstallRemediateLastFailure = "true"
  ELSE \/ UpgradeRemediateLastFailure = "true"
       \/ UpgradeRemediateLastFailure = "unset" /\ UpgradeRetries > 0

MustIgnoreTestFailures(st) ==
  IF st.lastAction = "install" THEN InstallIgnoreTestFailures
                               ELSE UpgradeIgnoreTestFailures

GetStrategy(st) ==
  IF st.lastAction = "install" THEN "uninstall" ELSE UpgradeStrategy

IsUninstallAfterUpgrade(st) ==
  st.lastAction = "upgrade" /\ UpgradeStrategy = "uninstall"

ClearFailures(st) ==
  [st EXCEPT !.installFailures = 0, !.upgradeFailures = 0]
=============================================================================
