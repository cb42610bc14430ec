---------------------------- MODULE ReleaseState ----------------------------
(* The decision half of the release reconciler: the state of the Helm       *)
(* release as compared to the HelmRelease (DetermineReleaseState), and the  *)
(* action that state calls for (actionForState).  Both read the object that *)
(* is being reconciled, what is wanted of it, and the Helm storage.         *)
(*                                                                          *)
(* An object has a status (the fields the decisions read) and conditions.   *)
(* A want is the generation, the chart and values (cfg), the post-renderers *)
(* and common metadata (pr) and the request annotations the reconcile       *)
(* started from.                                                            *)
EXTENDS HelmStorage, Snapshots, Conditions, Remediation

CONSTANT DriftMode   \* .spec.driftDetection.mode

ASSUME DriftModeAssumption == DriftMode \in {"disabled", "warn", "enabled"}

Release == [id : Nat, status : Statuses, cfg : Nat, pr : Nat]
Snapshot == [ver : Nat, id : Nat, status : Statuses, cfg : Nat,
             tests : TestPhases]
Status == [history : Seq(Snapshot), installFailures : Nat, upgradeFailures : Nat,
           lastAction : {"none", "install", "upgrade"}, lastGeneration : Nat,
           lastConfig : Nat, observedPR : Nat, handledReconcileAt : Nat,
           handledForceAt : Nat, handledResetAt : Nat, observedGeneration : Nat]
Object == [status : Status, conds : [CondTypes -> Condition]]
Want == [gen : Nat, cfg : Nat, pr : Nat, requestedAt : Nat, forceAt : Nat,
         resetAt : Nat]

(* ------------------------- state determination ------------------------- *)

\* The digest of the snapshot is that of the release.
VerifyReleaseObject(snap, rls) == Digest(snap) = Digest(rls)

\* A snapshot verifies when its revision is still stored and unmodified.
VerifySnapshot(s, snap) ==
  snap.ver \in DOMAIN s /\ VerifyReleaseObject(snap, s[snap.ver])

\* Mutant: the post-renderers and common metadata are not compared.
VerifyConfigOnly(st, rls, want) == rls.cfg = want.cfg

\* Chart, values, post-renderers and common metadata are those wanted.
VerifyRelease(st, rls, want) == rls.cfg = want.cfg /\ st.observedPR = want.pr

DetermineDeployed(st, rls, want, drifted) ==
  LET cur == Latest(st.history)
  IN CASE ~VerifyRelease(st, rls, want) -> "OutOfSync"
       [] /\ VerifyRelease(st, rls, want)
          /\ TestEnable /\ ~HasBeenTested(cur) -> "Untested"
       [] /\ VerifyRelease(st, rls, want)
          /\ TestEnable /\ HasBeenTested(cur) /\ HasFailedTest(cur)
          /\ HasRemediation(st) /\ ~MustIgnoreTestFailures(st) -> "Failed"
       [] OTHER -> IF DriftMode # "disabled" /\ drifted THEN "Drifted"
                                                        ELSE "InSync"

DetermineReleaseState(st, s, want, drifted) ==
  IF DOMAIN s = {} THEN "Absent"
  ELSE LET rls == Last(s)
       IN IF isLockedStatus(rls.status) THEN "Locked"
          ELSE IF st.history = <<>>
          THEN IF rls.status = "uninstalled" THEN "Absent" ELSE "Unmanaged"
          ELSE IF ~VerifyReleaseObject(Latest(st.history), rls) THEN "Unmanaged"
          ELSE CASE rls.status = "failed" -> "Failed"
                 [] rls.status = "uninstalled" -> "Absent"
                 [] rls.status = "deployed" ->
                      DetermineDeployed(st, rls, want, drifted)
                 [] OTHER -> "Unknown"

(* --------------------------- action selection -------------------------- *)

Actions == {"install", "upgrade", "test", "rollback", "uninstall", "unlock",
            "correct"}

\* A request annotation is acted upon once, when it carries the token of a
\* reconcile request that has not been handled (meta.HandleAnnotationRequest).
RequestPending(st, want, at, lastHandled) ==
  /\ at # 0 /\ at = want.requestedAt
  /\ st.handledReconcileAt # want.requestedAt
  /\ at # lastHandled

ForceRequested(st, want) ==
  RequestPending(st, want, want.forceAt, st.handledForceAt)

\* Released and Ready after finding the release in sync.  (A history is only
\* ever written along with the last release action, so there is one.)
InSyncConditions(st, c0, gen) ==
  LET c == IF IsTrue(c0, "Remediated")
           THEN ReplaceRemediated(c0, "UpgradeSucceeded", gen) ELSE c0
      failed == c["Released"].reason
      reason == CASE \/ failed = "InstallFailed"
                     \/ failed # "UpgradeFailed" /\ st.lastAction = "install"
                       -> "InstallSucceeded"
                  [] \/ failed = "UpgradeFailed"
                     \/ failed # "InstallFailed" /\ st.lastAction = "upgrade"
                       -> "UpgradeSucceeded"
                  [] OTHER -> ""
      marked == IF (IsReady(c) /\ IsTrue(c, "Released")) \/ reason = ""
                THEN c
                ELSE summarize(Set(c, "Released", "True", reason, gen), gen)
  IN IF DriftMode = "disabled" THEN marked
     ELSE Set(marked, "Drifted", "False", "NoDriftDetected", gen)

InSyncHistory(st) ==
  IF GetActiveRetry(st) THEN TruncateIgnoringPreviousSnapshots(st.history)
  ELSE Truncate(st.history, IF HasRemediation(st) THEN MustIgnoreTestFailures(st)
                                                  ELSE TestIgnoreFailures)

Decision(act, o) == [act |-> act, obj |-> o, err |-> ""]
Refusal(err, o) == [act |-> "none", obj |-> o, err |-> err]

InSyncAction(o, force, gen) ==
  LET p == [o EXCEPT !.status.history = InSyncHistory(o.status)]
  IN IF force THEN Decision("upgrade", p)
     ELSE Decision("none",
                   [p EXCEPT !.conds = InSyncConditions(p.status, @, gen)])

AbsentAction(o, force) ==
  IF InstallExhausted(o.status) /\ ~force
  THEN Refusal("ErrExceededMaxRetries", o) ELSE Decision("install", o)

\* The history can no longer be relied on.
UnmanagedAction(o) == Decision("upgrade", [o EXCEPT !.status.history = <<>>])

OutOfSyncAction(o, force) ==
  IF UpgradeExhausted(o.status) /\ ~force
  THEN Refusal("ErrExceededMaxRetries", o) ELSE Decision("upgrade", o)

DriftedAction(o, gen) ==
  Decision(IF DriftMode = "enabled" THEN "correct" ELSE "none",
           [o EXCEPT !.conds = Set(@, "Drifted", "True", "DriftDetected", gen)])

UntestedAction(o, gen) ==
  Decision("test",
           IF IsTrue(o.conds, "Remediated")
           THEN [o EXCEPT !.conds = ReplaceRemediated(@, "UpgradeSucceeded", gen)]
           ELSE o)

\* The remediation of a failure that is within budget, or the last one.
RemediationAction(o, s) ==
  LET ignore == MustIgnoreTestFailures(o.status)
      p == [o EXCEPT !.status.history = Truncate(@, ignore)]
      h == p.status.history
  IN CASE GetStrategy(o.status) = "uninstall" -> Decision("uninstall", p)
       [] GetStrategy(o.status) = "rollback" /\ ~HasPrevious(h, ignore) ->
            Refusal("ErrMissingRollbackTarget", p)
       [] /\ GetStrategy(o.status) = "rollback" /\ HasPrevious(h, ignore)
          /\ VerifySnapshot(s, Previous(h, ignore)) -> Decision("rollback", p)
       [] OTHER -> Decision("upgrade", p)

FailedAction(o, force, s) ==
  LET st == o.status
  IN IF GetActiveRetry(st)
     THEN Decision("upgrade",
            [o EXCEPT !.status.history = TruncateIgnoringPreviousSnapshots(@)])
     ELSE IF ~HasRemediation(st) \/ GetFailureCount(st) <= 0 \/ force
     THEN Decision("upgrade", o)
     ELSE IF RetriesExhausted(st) /\ ~MustRemediateLastFailure(st)
     THEN Refusal("ErrExceededMaxRetries", o)
     ELSE RemediationAction(o, s)

\* The failures that RemediationAction is called for.
MustRemediate(st, force) ==
  /\ ~GetActiveRetry(st) /\ HasRemediation(st) /\ GetFailureCount(st) > 0 /\ ~force
  /\ ~RetriesExhausted(st) \/ MustRemediateLastFailure(st)

\* The force request is consumed whatever the state.
actionForState(o0, want, state, s) ==
  LET force == ForceRequested(o0.status, want)
      o == [o0 EXCEPT !.status.handledForceAt = want.forceAt]
  IN CASE state = "InSync" -> InSyncAction(o, force, want.gen)
       [] state = "Locked" -> Decision("unlock", o)
       [] state = "Absent" -> AbsentAction(o, force)
       [] state = "Unmanaged" -> UnmanagedAction(o)
       [] state = "OutOfSync" -> OutOfSyncAction(o, force)
       [] state = "Drifted" -> DriftedAction(o, want.gen)
       [] state = "Untested" -> UntestedAction(o, want.gen)
       [] state = "Failed" -> FailedAction(o, force, s)
=============================================================================
