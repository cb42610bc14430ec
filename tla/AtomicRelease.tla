--------------------------- MODULE AtomicRelease ---------------------------
(* The reconciliation of one HelmRelease: the loop of AtomicRelease, the    *)
(* action reconcilers it runs, and the part of HelmReleaseReconciler around *)
(* it that starts a reconcile, maps its result and persists the object.     *)
(* Helm's writes to its storage are separate steps, so that a crash, a      *)
(* failed patch, a change of the object or someone else using Helm can come *)
(* between any two of them.                                                 *)
EXTENDS ReleaseState

CONSTANTS
  Configs,             \* charts with their values, as numbers
  Renderings,          \* post-renderers with common metadata; 0 for none
  KeepHistory,         \* .spec.uninstall.keepHistory
  Replace,             \* .spec.install.replace
  CancelHealthChecks,  \* the CancelHealthCheckOnNewRevision feature gate
  MaxChanges,          \* bound on the changes of spec and source
  MaxRequests,         \* bound on force and reset requests
  MaxFailures,         \* bound on failing Helm actions
  MaxFaults,           \* bound on crashes and failing API calls
  MaxExternal          \* bound on uses of Helm or kubectl by others

ASSUME AtomicReleaseAssumption ==
  /\ Configs \subseteq Nat \ {0} /\ Configs # {}
  /\ Renderings \subseteq Nat /\ 0 \in Renderings
  /\ KeepHistory \in BOOLEAN /\ Replace \in BOOLEAN
  /\ CancelHealthChecks \in BOOLEAN
  /\ MaxChanges \in Nat /\ MaxRequests \in Nat /\ MaxFailures \in Nat
  /\ MaxFaults \in Nat /\ MaxExternal \in Nat

VARIABLES
  desired,    \* the spec, the source and the annotations as they are now
  api,        \* the status and conditions stored in the API server
  req, mem,   \* what this reconcile started from, and its own copy of api
  pc,         \* where the reconcile is
  next,       \* the action picked by actionForState
  previous,   \* the types of the actions run so far
  observed,   \* the revisions the running Helm action has written
  result,     \* what the reconcile returns
  queued,     \* the object waits in the work queue
  storage,    \* the Helm storage
  drifted,    \* the cluster no longer matches the deployed manifest
  nextId,     \* the identity of the next revision created
  spent,      \* how much of each bound is used up
  released,   \* the identities of the revisions that were ever deployed
  attempts    \* releases attempted since the failure counters were reset

object == <<desired, api>>
reconcile == <<req, mem, pc, next, previous, observed, result>>
cluster == <<storage, drifted, nextId, released>>
vars == <<object, reconcile, queued, cluster, spent, attempts>>

Bounds == [changes |-> MaxChanges, requests |-> MaxRequests,
           failures |-> MaxFailures, faults |-> MaxFaults,
           external |-> MaxExternal]

Spend(what) == /\ spent[what] < Bounds[what]
               /\ spent' = [spent EXCEPT ![what] = @ + 1]

NewStatus ==
  [history |-> <<>>, installFailures |-> 0, upgradeFailures |-> 0,
   lastAction |-> "none", lastGeneration |-> 0, lastConfig |-> 0,
   observedPR |-> 0, handledReconcileAt |-> 0, handledForceAt |-> 0,
   handledResetAt |-> 0, observedGeneration |-> 0]
NewObject == [status |-> NewStatus, conds |-> NoConditions]

NoRequest == [gen |-> 0, cfg |-> 0, pr |-> 0, requestedAt |-> 0,
              forceAt |-> 0, resetAt |-> 0]

ActionType(a) == CASE a \in {"install", "upgrade"} -> "release"
                   [] a \in {"rollback", "uninstall"} -> "remediate"
                   [] OTHER -> a

Init ==
  /\ desired \in [gen : {1}, cfg : Configs, pr : Renderings, requestedAt : {0},
                  forceAt : {0}, resetAt : {0}]
  /\ api = NewObject /\ req = NoRequest /\ mem = NewObject
  /\ pc = "idle" /\ next = "none" /\ previous = {} /\ observed = {}
  /\ result = "none" /\ queued = TRUE
  /\ storage = EmptyStorage /\ drifted = FALSE /\ nextId = 1 /\ released = {}
  /\ spent = [b \in DOMAIN Bounds |-> 0]
  /\ attempts = [a \in {"install", "upgrade"} |-> 0]

(* ------------------- persisting the object, and ending ------------------ *)

\* A patch makes one call for the status and one for the conditions.
Patched(o) == /\ api' = o
              /\ UNCHANGED spent
PatchFailed(o) ==
  /\ Spend("faults")
  /\ \/ api' = [api EXCEPT !.status = o.status]
     \/ api' = [api EXCEPT !.conds = o.conds]
     \/ UNCHANGED api

\* Another reconcile of the object is waiting and may interrupt this one.
IsObjectEnqueued == CancelHealthChecks /\ queued

\* Mutant: a reconcile that must be requeued is not.
ResultNotRequeued(err) ==
  CASE err = "" -> "interval"
    [] err = "ErrRetryAfterInterval" -> "retryAfter"
    [] err \in {"ErrMustRequeue", "ErrExceededMaxRetries", "ErrMissingRollbackTarget"}
         -> "terminal"
    [] OTHER -> "error"

\* Mutant: the retry interval is treated as a terminal error.
ResultNotRetried(err) ==
  CASE err = "" -> "interval"
    [] err = "ErrMustRequeue" -> "requeue"
    [] err \in {"ErrRetryAfterInterval", "ErrExceededMaxRetries",
                "ErrMissingRollbackTarget"} -> "terminal"
    [] OTHER -> "error"

\* The result reconcileRelease makes of the error of AtomicRelease.Reconcile.
ResultOf(err) ==
  CASE err = "" -> "interval"
    [] err # "" /\ IsObjectEnqueued -> "requeue"
    [] err = "ErrRetryAfterInterval" /\ ~IsObjectEnqueued -> "retryAfter"
    [] err = "ErrMustRequeue" /\ ~IsObjectEnqueued -> "requeue"
    [] err \in {"ErrExceededMaxRetries", "ErrMissingRollbackTarget"}
       /\ ~IsObjectEnqueued -> "terminal"
    [] OTHER -> "error"

Return(o, err) ==
  /\ mem' = IF err # "" /\ IsObjectEnqueued
            THEN [o EXCEPT !.conds = Set(@, "Ready", "False",
                                         "HealthCheckCanceled", req.gen)]
            ELSE o
  /\ result' = ResultOf(err)
  /\ pc' = "end"
  /\ next' = "none" /\ previous' = {} /\ observed' = {}

\* The reconcile is over; its local state is gone.
Forget ==
  /\ pc' = "idle" /\ next' = "none" /\ previous' = {} /\ observed' = {}
  /\ result' = "none" /\ req' = NoRequest /\ mem' = NewObject

(* --------------------------- a reconcile starts ------------------------- *)

MustResetFailures(st, want) ==
  \/ st.lastGeneration # want.gen
  \/ st.lastConfig # want.cfg
  \/ RequestPending(st, want, want.resetAt, st.handledResetAt)

\* The failure counters and last attempt fields before the release loop.
Prepared(st, want) ==
  LET kept == IF MustResetFailures(st, want) THEN ClearFailures(st) ELSE st
  IN [kept EXCEPT !.handledResetAt = want.resetAt,
                  !.lastGeneration = want.gen, !.lastConfig = want.cfg]

\* Mutant: Reconciling is set without removing Stalled.
StartedStalled ==
  [api EXCEPT !.conds = Set(@, "Reconciling", "True", "Progressing", desired.gen)]

\* Reconciling is marked and patched before anything else.
Started == [api EXCEPT !.conds = MarkReconciling(@, "Progressing", desired.gen)]

\* Once the prerequisites are met, a report that they were not is stale.
Fulfilled(c) ==
  IF c["Ready"].reason = "SourceNotReady"
  THEN Set(c, "Ready", "Unknown", "Progressing", desired.gen) ELSE c

\* The object as the release loop gets it.
Admitted == [status |-> Prepared(Started.status, desired),
             conds |-> Fulfilled(Started.conds)]

AttemptsReset ==
  attempts' = IF MustResetFailures(api.status, desired)
              THEN [a \in DOMAIN attempts |-> 0] ELSE attempts

StartReconcile ==
  /\ pc = "idle" /\ queued
  /\ queued' = FALSE
  /\ req' = desired
  /\ Patched(Started)
  /\ mem' = Admitted
  /\ pc' = "loop"
  /\ AttemptsReset
  /\ UNCHANGED <<desired, next, previous, observed, result, cluster>>

\* A prerequisite is not met: dependencies, source, values, chart or client.
NotReady(o) ==
  [o EXCEPT !.conds = Set(@, "Ready", "False", "SourceNotReady", desired.gen)]

\* The reconcile ends before the release loop: that patch fails, a
\* prerequisite is not met, or Helm cannot be configured once the counters
\* have been reset.
StartFails ==
  /\ pc = "idle" /\ queued
  /\ queued' = FALSE
  /\ req' = desired
  /\ \/ PatchFailed(Started) /\ mem' = Started /\ UNCHANGED attempts
     \/ /\ Spend("faults") /\ api' = Started
        /\ mem' = NotReady(Started) /\ UNCHANGED attempts
     \/ /\ Spend("faults") /\ api' = Started
        /\ mem' = NotReady(Admitted) /\ AttemptsReset
  /\ pc' = "end" /\ result' = "error"
  /\ UNCHANGED <<desired, next, previous, observed, cluster>>

(* ------------------------------- the loop ------------------------------- *)

State == DetermineReleaseState(mem.status, storage, req, drifted)
Chosen == actionForState(mem, req, State, storage)

LoopFrame == UNCHANGED <<desired, req, queued, cluster, attempts>>

\* The state cannot be determined: the last revision has a status there is no
\* state for, or reading the storage fails.
StateError ==
  /\ pc = "loop"
  /\ IF State = "Unknown" THEN UNCHANGED spent ELSE Spend("faults")
  /\ Return([mem EXCEPT !.conds = Set(@, "Ready", "False", "StateError", req.gen)],
            "StateError")
  /\ UNCHANGED api /\ LoopFrame

\* actionForState refuses to act on the state.
Stall ==
  /\ pc = "loop" /\ State # "Unknown" /\ Chosen.err # ""
  /\ Return([Chosen.obj EXCEPT !.conds =
               MarkStalled(@, IF Chosen.err = "ErrExceededMaxRetries"
                              THEN "RetriesExceeded" ELSE "MissingRollbackTarget",
                           req.gen)],
            Chosen.err)
  /\ UNCHANGED <<api, spent>> /\ LoopFrame

NothingToDo ==
  /\ pc = "loop" /\ State # "Unknown"
  /\ Chosen.err = "" /\ Chosen.act = "none"
  /\ Return([Chosen.obj EXCEPT !.conds = summarize(Delete(@, "Reconciling"), req.gen),
                               !.status.observedPR = req.pr], "")
  /\ UNCHANGED <<api, spent>> /\ LoopFrame

HasAction == /\ pc = "loop" /\ State # "Unknown"
             /\ Chosen.err = "" /\ Chosen.act # "none"

\* The target of a rollback cannot be read for its verification.
VerifyError ==
  /\ HasAction /\ State = "Failed"
  /\ MustRemediate(mem.status, ForceRequested(mem.status, req))
  /\ GetStrategy(mem.status) = "rollback"
  /\ Spend("faults")
  /\ Return(Chosen.obj, "VerifyError")
  /\ UNCHANGED api /\ LoopFrame

MustContinue(type, done) == type \notin done
MustStop(type) == type = "remediate"

WithRetry(o) ==
  [o EXCEPT !.conds = MarkReconciling(@, "ProgressingWithRetry", req.gen)]

\* The next action is of a type that already ran in this reconcile.
StopBefore ==
  /\ HasAction /\ ~MustContinue(ActionType(Chosen.act), previous)
  /\ LET st == Chosen.obj.status
     IN CASE GetActiveRetry(st) ->
               Return(WithRetry(Chosen.obj), "ErrRetryAfterInterval")
          [] ~GetActiveRetry(st) /\ ~(HasRemediation(st) /\ RetriesExhausted(st)) ->
               Return(WithRetry(Chosen.obj), "ErrMustRequeue")
          [] OTHER ->
               Return([Chosen.obj EXCEPT !.conds = Delete(@, "Reconciling")], "")
  /\ UNCHANGED <<api, spent>> /\ LoopFrame

\* A rollback does not start while the object is enqueued again.
RollbackHeld ==
  /\ ActionType(Chosen.act) = "remediate"
  /\ GetStrategy(Chosen.obj.status) = "rollback"
  /\ IsObjectEnqueued

HoldRollback ==
  /\ HasAction /\ MustContinue(ActionType(Chosen.act), previous)
  /\ RollbackHeld
  /\ Return(WithRetry(Chosen.obj), "ErrMustRequeue")
  /\ UNCHANGED <<api, spent>> /\ LoopFrame

\* Progress is shown, and persisted, before the action runs.
Announced ==
  LET marked == [Chosen.obj EXCEPT !.conds = MarkReconciling(@, "Progressing", req.gen)]
  IN IF ActionType(Chosen.act) = "release"
     THEN [marked EXCEPT !.conds = Set(@, "Ready", "Unknown", "Progressing", req.gen)]
     ELSE marked

Announce ==
  /\ HasAction /\ MustContinue(ActionType(Chosen.act), previous)
  /\ ~RollbackHeld
  /\ \/ /\ Patched(Announced)
        /\ mem' = Announced /\ pc' = "run" /\ next' = Chosen.act
        /\ UNCHANGED <<previous, observed, result>>
     \/ PatchFailed(Announced) /\ Return(Announced, "PatchError")
  /\ LoopFrame

\* The context is canceled: what was observed is patched, and the process goes.
Canceled ==
  /\ pc = "loop"
  /\ Spend("faults")
  /\ api' = mem
  /\ Forget /\ queued' = TRUE
  /\ UNCHANGED <<desired, cluster, attempts>>

(* ------------------------- after an action has run ---------------------- *)

\* What the loop does with the object and the error of the action next.
AfterAction(o, err) ==
  CASE err # "" /\ GetActiveRetry(o.status) ->
         Return(WithRetry(o), "ErrRetryAfterInterval")
    [] err # "" /\ ~GetActiveRetry(o.status) ->
         Return(IF IsReady(o.conds)
                THEN [o EXCEPT !.conds = Set(@, "Ready", "False", "ReconcileError", req.gen)]
                ELSE o, err)
    [] err = "" /\ ~MustStop(ActionType(next)) ->
         /\ mem' = o /\ pc' = "post"
         /\ previous' = previous \cup {ActionType(next)}
         /\ next' = "none" /\ observed' = {}
         /\ UNCHANGED result
    [] err = "" /\ MustStop(ActionType(next)) /\ GetActiveRetry(o.status) ->
         Return(WithRetry(o), "ErrRetryAfterInterval")
    [] /\ err = "" /\ MustStop(ActionType(next)) /\ ~GetActiveRetry(o.status)
       /\ \/ ~HasRemediation(o.status) \/ ~RetriesExhausted(o.status)
          \/ IsUninstallAfterUpgrade(o.status) ->
         Return(WithRetry(o), "ErrMustRequeue")
    [] OTHER ->
         Return([o EXCEPT !.conds = MarkStalled(@, "RetriesExceeded", req.gen)],
                "ErrExceededMaxRetries")

Summarized(o) == [o EXCEPT !.conds = summarize(@, req.gen)]

\* Progress is persisted between two actions.
PatchProgress ==
  /\ pc = "post"
  /\ \/ Patched(mem) /\ pc' = "loop" /\ UNCHANGED <<mem, next, previous, observed, result>>
     \/ PatchFailed(mem) /\ Return(mem, "PatchError")
  /\ LoopFrame

\* Mutant: the request recorded as handled is the one of now.
FinalRereadRequest ==
  [mem EXCEPT !.status.handledReconcileAt = desired.requestedAt,
              !.status.observedGeneration =
                IF result \in {"terminal", "interval", "retryAfter"}
                THEN req.gen ELSE @]

\* The deferred patch of HelmReleaseReconciler.Reconcile.  A terminal error
\* stays terminal when this patch fails, all other results requeue.
Final ==
  LET st == [mem.status EXCEPT !.handledReconcileAt = req.requestedAt]
  IN [mem EXCEPT !.status =
        IF result \in {"terminal", "interval", "retryAfter"}
        THEN [st EXCEPT !.observedGeneration = req.gen] ELSE st]

\* Mutant: a change that came in during the reconcile is forgotten.
EndReconcileDequeues ==
  /\ pc = "end"
  /\ Patched(Final) \/ PatchFailed(Final)
  /\ queued' = (result # "terminal")
  /\ Forget
  /\ UNCHANGED <<desired, cluster, attempts>>

EndReconcile ==
  /\ pc = "end"
  /\ Patched(Final) \/ PatchFailed(Final)
  /\ queued' = (queued \/ result # "terminal")
  /\ Forget
  /\ UNCHANGED <<desired, cluster, attempts>>

\* The process dies.  On restart every object is enqueued.
Crash ==
  /\ pc # "idle"
  /\ Spend("faults")
  /\ Forget /\ queued' = TRUE
  /\ UNCHANGED <<object, cluster, attempts>>

(* -------------------- install, upgrade: action reconcilers -------------- *)

\* Mutant: an upgrade does not become the last release action.
BegunUnnoted(o, a) ==
  [status |-> [o.status EXCEPT !.lastAction = IF a = "install" THEN a ELSE @,
                               !.history = IF a = "install" THEN <<>> ELSE @],
   conds |-> Delete(Delete(o.conds, "TestSuccess"), "Remediated")]

Begun(o, a) ==
  [status |-> [o.status EXCEPT !.lastAction = a,
                               !.history = IF a = "install" THEN <<>> ELSE @],
   conds |-> Delete(Delete(o.conds, "TestSuccess"), "Remediated")]

FailedReason(a) == IF a = "install" THEN "InstallFailed" ELSE "UpgradeFailed"
SucceededReason(a) == IF a = "install" THEN "InstallSucceeded" ELSE "UpgradeSucceeded"

ReleaseFailed(o, a, obs) ==
  LET st == [o.status EXCEPT !.history = recordOnObject(@, obs)]
  IN [status |-> IF DOMAIN obs = {} THEN st ELSE IncrementFailureCount(st),
      conds |-> Set(o.conds, "Released", "False", FailedReason(a), req.gen)]

ReleaseSucceeded(o, a, obs) ==
  LET st == [o.status EXCEPT !.history = recordOnObject(@, obs),
                             !.observedPR = req.pr]
      c == Set(o.conds, "Released", "True", SucceededReason(a), req.gen)
  IN [status |-> IF GetActiveRetry(st) THEN ClearFailures(st) ELSE st,
      conds |-> IF TestEnable /\ ~HasBeenTested(Latest(st.history))
                THEN Set(c, "TestSuccess", "Unknown", "AwaitingTests", req.gen)
                ELSE c]

\* Helm returned, having written the revisions V of storage s.
ReleaseDone(o, err, s, V) ==
  LET obs == [v \in V |-> s[v]]
  IN AfterAction(Summarized(IF err = "" THEN ReleaseSucceeded(o, next, obs)
                                        ELSE ReleaseFailed(o, next, obs)),
                 IF V = {} THEN err ELSE "")

(* ------------------------- rollback remediation ------------------------- *)

RollbackTarget == Previous(mem.status.history, UpgradeIgnoreTestFailures)

\* The storage observer saw the new revision, and then what it superseded.
RolledBackHistory(h, s, V) ==
  LET h1 == observeRollback(h, GreatestOf(V), s[GreatestOf(V)])
      rest == V \ {GreatestOf(V)}
  IN IF V = {} THEN h
     ELSE IF rest = {} THEN h1
     ELSE observeRollback(h1, GreatestOf(rest), s[GreatestOf(rest)])

RollbackDone(o, err, s, V) ==
  LET h == RolledBackHistory(o.status.history, s, V)
      unchanged == Digest(Latest(h)) = Digest(Latest(o.status.history))
      c == IF err = "" THEN Set(o.conds, "Remediated", "True", "RollbackSucceeded", req.gen)
                       ELSE Set(o.conds, "Remediated", "False", "RollbackFailed", req.gen)
  IN AfterAction(
       Summarized([status |-> [o.status EXCEPT !.history = h], conds |-> c]),
       IF unchanged THEN err ELSE "")

(* ------------------- Helm's part of a release or rollback --------------- *)

\* Storing the new revision as pending.
HelmBegins ==
  /\ pc = "run"
  /\ \/ /\ next = "install" /\ CanInstall(storage, Replace)
        /\ storage' = CreatePending(storage, nextId, req.cfg, req.pr)
        /\ mem' = Begun(mem, next)
     \/ /\ next = "upgrade" /\ CanUpgrade(storage)
        /\ storage' = CreatePending(storage, nextId, req.cfg, req.pr)
        /\ mem' = Begun(mem, next)
     \/ /\ next = "rollback" /\ CanRollback(storage, RollbackTarget.ver)
        /\ LET target == storage[RollbackTarget.ver]
           IN storage' = CreatePending(storage, nextId, target.cfg, target.pr)
        /\ UNCHANGED mem
  /\ observed' = {LastVersion(storage')}
  /\ nextId' = nextId + 1 /\ pc' = "helm"
  /\ attempts' = IF next = "rollback" THEN attempts ELSE [attempts EXCEPT ![next] = @ + 1]
  /\ UNCHANGED <<object, req, next, previous, result, queued, drifted, spent, released>>

RefusedUnless(can) == \/ ~can /\ UNCHANGED spent
                      \/ Spend("faults")

\* Helm refuses, or cannot store the revision: nothing was written.
HelmRefuses ==
  /\ pc = "run"
  /\ \/ /\ next = "install"
        /\ RefusedUnless(CanInstall(storage, Replace))
        /\ ReleaseDone(Begun(mem, next), "HelmError", storage, {})
     \/ /\ next = "upgrade"
        /\ RefusedUnless(CanUpgrade(storage))
        /\ ReleaseDone(Begun(mem, next), "HelmError", storage, {})
     \/ /\ next = "rollback"
        /\ RefusedUnless(CanRollback(storage, RollbackTarget.ver))
        /\ RollbackDone(mem, "HelmError", storage, {})
  /\ UNCHANGED api /\ LoopFrame

\* The action returns with the storage as it is now.
Returns(err, s, V) ==
  IF next = "rollback" THEN RollbackDone(mem, err, s, V)
                       ELSE ReleaseDone(mem, err, s, V)

\* The resources are ready: first the revision that was current is superseded,
HelmSupersedes ==
  /\ pc = "helm" /\ next \in {"install", "upgrade", "rollback"}
  /\ LET old == Before(storage)
         D == CASE next = "install" -> InstalledOver(old)
                [] next = "upgrade" -> UpgradedFrom(old)
                [] next = "rollback" -> DeployedVersions(old)
     IN /\ storage' = Supersede(storage, D)
        /\ observed' = observed \cup D
  /\ pc' = "deploy"
  /\ UNCHANGED <<object, req, mem, next, previous, result, queued, drifted,
                 nextId, spent, released, attempts>>

\* then the new one becomes the deployed one.
HelmDeploys ==
  /\ pc = "deploy"
  /\ storage' = SetStatus(storage, LastVersion(storage), "deployed")
  /\ released' = released \cup {Last(storage).id}
  /\ drifted' = FALSE
  /\ Returns("", storage', observed)
  /\ UNCHANGED <<object, req, queued, nextId, spent, attempts>>

\* The action fails and is recorded as failed.  A rollback that could not
\* apply its manifest also supersedes the revision it was leaving.
HelmFails ==
  /\ pc = "helm" /\ next \in {"install", "upgrade", "rollback"}
  /\ Spend("failures")
  /\ \E D \in {{}} \cup (IF next = "rollback" THEN {{LastVersion(Before(storage))}} ELSE {}) :
       /\ storage' = SetStatus(Supersede(storage, D), LastVersion(storage), "failed")
       /\ Returns("HelmError", storage', observed \cup D)
  /\ UNCHANGED <<object, req, queued, drifted, nextId, released, attempts>>

\* The outcome cannot be recorded: the revision is left pending.  Install
\* reports its success all the same.
HelmLeavesPending ==
  /\ Spend("faults")
  /\ \/ /\ pc \in {"helm", "deploy"} /\ next \in {"install", "upgrade", "rollback"}
        /\ Returns("HelmError", storage, observed)
     \/ /\ pc = "deploy" /\ next = "install"
        /\ Returns("", storage, observed)
  /\ UNCHANGED api /\ LoopFrame

(* ------------------------- uninstall remediation ------------------------ *)

UninstallBegins ==
  /\ pc = "run" /\ next = "uninstall" /\ CanUninstall(storage)
  /\ storage' = SetStatus(storage, LastVersion(storage), "uninstalling")
  /\ observed' = {LastVersion(storage)} /\ pc' = "helm"
  /\ UNCHANGED <<object, req, mem, next, previous, result, queued, drifted,
                 nextId, spent, released, attempts>>

\* h is the history after the observed writes.  The ones of another revision
\* than the latest in the history are an error.  Ready is not summarized.
UninstallDone(h, err0) ==
  LET cur == Latest(mem.status.history)
      unchanged == Digest(Latest(h)) = Digest(cur)
      err == IF observed # {} /\ cur.ver \notin observed THEN "ErrReleaseMismatch"
             ELSE IF err0 = "" /\ unchanged THEN "ErrNoStorageUpdate" ELSE err0
  IN AfterAction(
       [status |-> [mem.status EXCEPT !.history = h],
        conds |-> IF err = ""
                  THEN Set(mem.conds, "Remediated", "True", "UninstallSucceeded", req.gen)
                  ELSE Set(mem.conds, "Remediated", "False", "UninstallFailed", req.gen)],
       IF unchanged THEN err ELSE "")

UninstallRefused ==
  /\ pc = "run" /\ next = "uninstall"
  /\ RefusedUnless(CanUninstall(storage))
  /\ UninstallDone(mem.status.history, "HelmError")
  /\ UNCHANGED api /\ LoopFrame

\* A purge is observed with the status it deletes, uninstalling.
UninstallEnds ==
  /\ pc = "helm" /\ next = "uninstall"
  /\ storage' = Uninstalled(storage, KeepHistory)
  /\ LET last == LastVersion(storage)
         s == IF KeepHistory THEN storage' ELSE storage
         rest == DeployedVersions(storage) \ {last}
         h1 == Observe(mem.status.history, last, s[last])
         h == IF rest = {} THEN h1
              ELSE Observe(h1, GreatestOf(rest), s[GreatestOf(rest)])
     IN UninstallDone(h, "")
  /\ drifted' = FALSE
  /\ UNCHANGED <<object, req, queued, nextId, spent, released, attempts>>

UninstallFails ==
  /\ pc = "helm" /\ next = "uninstall"
  /\ Spend("failures")
  /\ UninstallDone(Observe(mem.status.history, LastVersion(storage), Last(storage)),
                   "HelmError")
  /\ UNCHANGED api /\ LoopFrame

(* --------------------- test, unlock, drift correction ------------------- *)

\* Mutant: a failed test is not counted.
TestFailedUncounted(o) ==
  [o EXCEPT !.conds = Set(@, "TestSuccess", "False", "TestFailed", req.gen)]

\* Test results count against the active remediation unless ignored.
TestFailed(o) ==
  [status |-> IF /\ HasBeenTested(Latest(o.status.history))
                 /\ HasRemediation(o.status) /\ ~MustIgnoreTestFailures(o.status)
              THEN IncrementFailureCount(o.status) ELSE o.status,
   conds |-> Set(o.conds, "TestSuccess", "False", "TestFailed", req.gen)]

TestSucceeded(o) ==
  [o EXCEPT !.conds = Set(@, "TestSuccess", "True", "TestSucceeded", req.gen)]

\* Helm tested the last revision, leaving its hooks in the given phase.
TestDone(phase, err0) ==
  LET h == mem.status.history
      last == LastVersion(storage)
      h1 == IF phase = "untested" \/ DOMAIN storage = {} THEN h
            ELSE observeTest(h, last, storage[last], phase)
      err == IF DOMAIN storage # {} /\ Latest(h).ver # last
             THEN "ErrReleaseMismatch" ELSE err0
      o == [mem EXCEPT !.status.history = h1]
      done == IF err = "" THEN TestSucceeded(o) ELSE TestFailed(o)
  IN AfterAction(Summarized(done),
                 IF HasBeenTested(Latest(h1)) THEN "" ELSE err)

RunTest ==
  /\ pc = "run" /\ next = "test"
  /\ \/ DOMAIN storage # {} /\ TestDone("passed", "") /\ UNCHANGED spent
     \/ DOMAIN storage # {} /\ TestDone("failed", "TestError") /\ Spend("failures")
     \/ DOMAIN storage # {} /\ TestDone("passed", "HookError") /\ Spend("faults")
     \/ DOMAIN storage = {} /\ TestDone("untested", "HelmError") /\ UNCHANGED spent
     \/ DOMAIN storage # {} /\ TestDone("untested", "HelmError") /\ Spend("faults")
  /\ UNCHANGED api /\ LoopFrame

\* Mutant: the revision stays as it is.
LeftLocked(s, v) == s

\* Mutant: the revision is given up as superseded.
LeftSuperseded(s, v) == SetStatus(s, v, "superseded")

Unlocked(s, v) == SetStatus(s, v, "failed")

\* A revision found locked is marked as failed; reading or writing it may
\* not be possible.
RunUnlock ==
  /\ pc = "run" /\ next = "unlock"
  /\ LET locked == DOMAIN storage # {} /\ isLockedStatus(Last(storage).status)
         last == LastVersion(storage)
         pending == [mem EXCEPT !.conds = Set(@, "Released", "False", "PendingRelease", req.gen)]
     IN \/ /\ ~locked
           /\ AfterAction(Summarized(mem), "")
           /\ UNCHANGED <<storage, spent>>
        \/ /\ locked
           /\ storage' = Unlocked(storage, last)
           /\ AfterAction(Summarized([pending EXCEPT !.status.history =
                                        observeUnlock(@, last, storage'[last])]), "")
           /\ UNCHANGED spent
        \/ /\ AfterAction(Summarized(mem), "HelmError")
           /\ Spend("faults") /\ UNCHANGED storage
        \/ /\ locked
           /\ AfterAction(Summarized(pending), "HelmError")
           /\ Spend("faults") /\ UNCHANGED storage
  /\ UNCHANGED <<object, req, queued, drifted, nextId, released, attempts>>

\* Errors of the correction are reported as events only.
RunCorrectClusterDrift ==
  /\ pc = "run" /\ next = "correct"
  /\ AfterAction([mem EXCEPT !.conds = Set(@, "Ready", "Unknown", "Progressing", req.gen)], "")
  /\ \/ drifted' = FALSE /\ UNCHANGED spent
     \/ UNCHANGED drifted /\ Spend("failures")
  /\ UNCHANGED <<object, req, queued, storage, nextId, released, attempts>>

(* ------------------------------ environment ----------------------------- *)

EnvFrame == UNCHANGED <<api, reconcile, cluster, attempts>>

\* A change of the spec; the object is enqueued.
ChangeSpec ==
  /\ Spend("changes")
  /\ \E c \in Configs, p \in Renderings :
       desired' = [desired EXCEPT !.gen = @ + 1, !.cfg = c, !.pr = p]
  /\ queued' = TRUE
  /\ EnvFrame

\* A new chart version, or new values, without a change of the spec.
ChangeSource ==
  /\ Spend("changes")
  /\ \E c \in Configs \ {desired.cfg} : desired' = [desired EXCEPT !.cfg = c]
  /\ queued' = TRUE
  /\ EnvFrame

\* flux reconcile --force, or --reset: two annotations with one token.
Request ==
  /\ Spend("requests")
  /\ LET token == spent.requests + 1
     IN \/ desired' = [desired EXCEPT !.requestedAt = token, !.forceAt = token]
        \/ desired' = [desired EXCEPT !.requestedAt = token, !.resetAt = token]
  /\ queued' = TRUE
  /\ EnvFrame

\* Others use Helm or kubectl on the release, though not while a Helm action
\* of the controller is under way.
Others == /\ pc \notin {"helm", "deploy"}
          /\ Spend("external")
          /\ UNCHANGED <<object, reconcile, queued, attempts>>

ExternalRelease ==
  /\ Others /\ CanUpgrade(storage)
  /\ \E c \in Configs :
       LET s == CreatePending(storage, nextId, c, 0)
       IN storage' = SetStatus(Supersede(s, UpgradedFrom(storage)), LastVersion(s), "deployed")
  /\ nextId' = nextId + 1 /\ released' = released \cup {nextId}
  /\ drifted' = FALSE

ExternalInterrupted ==
  /\ Others /\ CanUpgrade(storage)
  /\ \/ storage' = CreatePending(storage, nextId, 1, 0) /\ nextId' = nextId + 1
     \/ storage' = SetStatus(storage, LastVersion(storage), "uninstalling") /\ UNCHANGED nextId
  /\ UNCHANGED <<drifted, released>>

ExternalUninstall ==
  /\ Others /\ CanUninstall(storage)
  /\ \E keep \in BOOLEAN : storage' = Uninstalled(storage, keep)
  /\ drifted' = FALSE
  /\ UNCHANGED <<nextId, released>>

ExternalDelete ==
  /\ Others
  /\ \E v \in DOMAIN storage :
       storage' = [w \in DOMAIN storage \ {v} |-> storage[w]]
  /\ UNCHANGED <<drifted, nextId, released>>

Drift ==
  /\ Others /\ DriftMode # "disabled"
  /\ DOMAIN storage # {} /\ ~drifted
  /\ drifted' = TRUE
  /\ UNCHANGED <<storage, nextId, released>>

(* ----------------------------- specification ---------------------------- *)

Decide == \/ StateError \/ Stall \/ NothingToDo \/ VerifyError \/ StopBefore
          \/ HoldRollback \/ Announce
Helm == \/ HelmBegins \/ HelmRefuses \/ HelmSupersedes \/ HelmDeploys
        \/ HelmFails \/ HelmLeavesPending
Uninstall == UninstallBegins \/ UninstallRefused \/ UninstallEnds \/ UninstallFails
Controller == \/ StartReconcile \/ StartFails \/ Decide \/ Helm \/ Uninstall
              \/ RunTest \/ RunUnlock \/ RunCorrectClusterDrift
              \/ PatchProgress \/ EndReconcile
Environment == \/ ChangeSpec \/ ChangeSource \/ Request \/ ExternalRelease
               \/ ExternalInterrupted \/ ExternalUninstall \/ ExternalDelete
               \/ Drift
Next == Controller \/ Crash \/ Canceled \/ Environment

Spec == Init /\ [][Next]_vars

\* The work queue hands out what is queued, and every step of a reconcile
\* ends, Helm actions by their timeout.  A controller step can be taken
\* exactly when the controller is busy, and changes pc, so this is the weak
\* fairness of Controller.
Busy == pc # "idle" \/ queued
Fairness == []<>(~Busy) \/ []<><<Controller>>_pc
FairSpec == Spec /\ Fairness

(* ------------------------------ properties ------------------------------ *)

Phases == {"idle", "loop", "run", "helm", "deploy", "post", "end"}
Results == {"none", "interval", "retryAfter", "requeue", "error", "terminal"}

\* Every variable has its type, revisions are numbered from 1 up and no
\* higher than releases were made, and only an action that stores revisions
\* is in a Helm phase, with the revisions it has observed in the storage and,
\* for an upgrade or rollback, a revision to leave behind.
TypeOK ==
  /\ desired \in Want
  /\ api \in Object /\ req \in Want /\ mem \in Object
  /\ pc \in Phases /\ next \in Actions \cup {"none"}
  /\ previous \subseteq {"release", "test", "unlock", "correct"}
  /\ result \in Results /\ queued \in BOOLEAN
  /\ nextId \in Nat \ {0}
  /\ DOMAIN storage \subseteq 1..(nextId - 1)
  /\ storage \in [DOMAIN storage -> Release]
  /\ observed \subseteq DOMAIN storage
  /\ drifted \in BOOLEAN /\ released \subseteq Nat
  /\ spent \in [DOMAIN Bounds -> Nat]
  /\ attempts \in [{"install", "upgrade"} -> Nat]
  /\ pc = "run" => next # "none"
  /\ pc \in {"helm", "deploy"} =>
       next \in {"install", "upgrade", "rollback", "uninstall"} /\ observed # {}
  /\ pc = "helm" /\ next \in {"upgrade", "rollback"} => DOMAIN Before(storage) # {}
  /\ pc \notin {"helm", "deploy"} => observed = {}

RetriesExceeded(o) ==
  IsTrue(o.conds, "Stalled") /\ o.conds["Stalled"].reason = "RetriesExceeded"
OutOfRetries(o) == InstallExhausted(o.status) \/ UpgradeExhausted(o.status)

\* The object reports that retries are exceeded only while a failure counter
\* of the same object is past its limit: no reset, success or new attempt
\* leaves the report behind (MarkStalled in AtomicRelease.Reconcile, which is
\* the last thing a reconcile does).
StalledMeansExhausted ==
  /\ IsTrue(mem.conds, "Stalled") => pc = "end"
  /\ RetriesExceeded(mem) => OutOfRetries(mem)
  /\ spent.faults = 0 /\ RetriesExceeded(api) => OutOfRetries(api)

\* For one configuration a release action is attempted no more often than
\* once and its retries, whatever happens to the remediations in between, and
\* no failure of the process or the API adds more than one attempt.
AttemptsWithinBudget ==
  /\ InstallRetries >= 0 =>
       attempts.install <= InstallRetries + 1 + spent.faults + spent.requests
  /\ UpgradeRetries >= 0 =>
       attempts.upgrade <= UpgradeRetries + 1 + spent.faults + spent.requests

\* As long as the controller is alone and nothing fails around it, what it
\* knows of the release is what is stored: every snapshot of its history
\* matches the revision it targets, and the last revision is the latest
\* snapshot.  So it never takes its own release for a foreign one.
HistoryTracksStorage ==
  (pc \in {"loop", "end"} /\ spent.faults = 0 /\ spent.external = 0) =>
    LET h == mem.status.history
    IN /\ \A i \in DOMAIN h : h[i].ver \in DOMAIN storage => VerifySnapshot(storage, h[i])
       /\ DOMAIN storage # {} => h # <<>> /\ Latest(h).ver = LastVersion(storage)

\* The last revision never has a status that DetermineReleaseState has no
\* state for while the history vouches for it, whatever others do, where no
\* Helm tests run and uninstalls do not keep the history.
StateIsKnown == pc = "loop" => State # "Unknown"

\* When the controller is done with an object, the last attempt was for the
\* specification and the chart as they are: a change that arrives during a
\* reconcile is not lost, even if the reconcile ends in a terminal error.
NoChangeMissed ==
  (~Busy /\ spent.faults = 0) =>
     /\ api.status.lastGeneration = desired.gen
     /\ api.status.lastConfig = desired.cfg

\* A reconcile ends having found nothing to do, and reports Ready.
Succeeds == /\ pc = "loop" /\ pc' = "end" /\ result' = "interval"
            /\ IsTrue(mem'.conds, "Ready")

\* Ready is reported only of a release that is deployed from the chart and
\* values wanted, and whose tests passed if they count.
ReadyMeansDeployed ==
  [][Succeeds => /\ DOMAIN storage # {} /\ Last(storage).status = "deployed"
                 /\ Last(storage).cfg = req.cfg
                 /\ TestsCount => Latest(mem.status.history).tests = "passed"]_vars

\* Ready is reported only of a release whose manifest went through the
\* post-renderers and common metadata wanted, where no Helm tests run
\* (VerifyRelease compares what observePostRenderers recorded).
ReadyMeansRendered == [][Succeeds => Last(storage).pr = req.pr]_vars

\* With rollback as the remediation of upgrades and no tests, uninstalling as
\* a remediation never takes away a release that has worked: only one that
\* failed to install.
UninstallsOnlyFailedInstalls ==
  [][pc = "run" /\ next = "uninstall" /\ pc' = "helm" =>
       \A v \in DOMAIN storage : storage[v].id \notin released]_vars

\* A force request is marked as handled by a reconcile that installs or
\* upgrades (ShouldHandleForceRequest, called by actionForState only).
ForcePending == ForceRequested(api.status, desired)
ForceHonoured ==
  [][ForcePending /\ ~ForcePending' /\ UNCHANGED desired =>
       next' \in {"install", "upgrade"}]_vars

\* The object is ready with what is wanted of it deployed.
Applied == /\ IsTrue(api.conds, "Ready")
           /\ DOMAIN storage # {} /\ Last(storage).status = "deployed"
           /\ Last(storage).cfg = desired.cfg

\* When changes and failures come to an end, what is wanted gets deployed,
\* and stays: nothing the controller does undoes it.
EventuallyApplied == <>[]Applied

\* When changes and failures come to an end, what is wanted is deployed for
\* good, or the object is stalled and left alone.
Settles == <>[](Applied \/ (IsTrue(api.conds, "Stalled") /\ ~Busy))

\* A release that a crash or a failed write left locked does not stay so,
\* unless the retries of the object are used up.
Locked == DOMAIN storage # {} /\ isLockedStatus(Last(storage).status)
LockedIsUnlocked == Locked ~> (~Locked \/ OutOfRetries(api))

=============================================================================
