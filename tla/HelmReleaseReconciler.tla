----------------------- MODULE HelmReleaseReconciler -----------------------
(* The life of one HelmRelease in internal/controller: its finalizer, its   *)
(* suspension, its HelmChart template, a change of its release target and   *)
(* its deletion, read through an informer cache that lags behind the API    *)
(* server and written by merge patches, any of which may fail.  The release *)
(* loop is taken as one step here; AtomicRelease models it in full.         *)
EXTENDS Integers, Sequences, FiniteSets

CONSTANTS
  Targets,       \* release targets: <<storage namespace, release name>>
  Templates,     \* HelmChart references a chart template may resolve to
  Refs,          \* sources that exist by themselves (spec.chartRef)
  Denied,        \* sources the ACL does not let the object refer to
  KeepHistory,   \* spec.uninstall.keepHistory
  Clients,       \* how the client gets at the cluster: "secret", a kubeconfig
                 \* in a Secret, or "account", a ServiceAccount to impersonate
  DirectSourceFetch,  \* the feature gate: sources are not read from the cache
  First,         \* the target and the source the object is created with
  MaxEdits,      \* changes of the specification
  MaxTroubles    \* these, failures, faults and acts of others

Sources == Templates \cup Refs

ASSUME ReconcilerAssumption ==
  /\ Targets \subseteq STRING \X STRING
  /\ Sources \subseteq STRING /\ "none" \notin Sources
  /\ \A t \in Targets : t[1] # "none" /\ t[2] # "none"
  /\ KeepHistory \in BOOLEAN /\ DirectSourceFetch \in BOOLEAN
  /\ Clients \subseteq {"secret", "account"}
  /\ First \in Targets \X Sources
  /\ MaxEdits \in Nat /\ MaxTroubles \in Nat

VARIABLES
  api,        \* the object in the API server
  cache,      \* the version of it in the informer cache
  pending,    \* later versions the watch has not delivered yet
  obj, base,  \* the object of the running reconcile, and the serial
              \* patcher's copy of it
  pc, result,
  queued,     \* the work queue holds the object
  store,      \* the Helm storage of every target: its last revision
  made,       \* revisions made so far; their number stands for the version
              \* and for the digest, which no two revisions share
  charts,     \* the HelmChart objects in the API server
  seen,       \* and in the informer cache
  access,     \* the Secret or ServiceAccount the client of the release needs
  abandoned,  \* a deletion left the release behind on purpose
  lost,       \* releases the status in the API server may not tell (a ghost)
  strayed,    \* charts it may not tell (a ghost)
  spent       \* edits, failures, faults and acts of others so far

objects == <<api, cache, pending>>
memory == <<obj, base, pc, result>>
vars == <<objects, memory, queued, store, made, charts, seen, access,
          abandoned, lost, strayed, spent>>

\* How the client of the release is configured, and the state of what it needs.
Accesses == [by : {"secret"} \cap Clients, state : {"usable", "missing", "unusable"}]
            \cup [by : {"account"} \cap Clients, state : {"usable", "missing"}]

NoHistory == [name |-> "none", ver |-> 0]
NoRelease == [status |-> "none", ver |-> 0, source |-> "none"]

Object(gen, target, source) ==
  [exists |-> TRUE, gen |-> gen, deleting |-> FALSE, finalizer |-> FALSE,
   suspend |-> FALSE, target |-> target, source |-> source, exprs |-> TRUE,
   ready |-> <<"Unknown", 0>>, observed |-> 0, history |-> NoHistory,
   storageNs |-> "none", chart |-> "none"]

\* A condition carries the generation it was set for.
MarkReady(o, status) == [o EXCEPT !.ready = <<status, o.gen>>]
IsReady(o) == o.ready[1] = "True"

\* The answer NotFound.
Gone(o) == [o EXCEPT !.exists = FALSE]

(* --------------------------- the API server ---------------------------- *)

\* Every change of the object is a version the watch will deliver.
Write(new) ==
  /\ api' = new
  /\ pending' = IF new = api THEN pending ELSE Append(pending, new)
  /\ UNCHANGED cache

\* A merge patch sets what changed between b and o, whatever cur holds.
Merge(cur, b, o, f) == IF o[f] # b[f] THEN o[f] ELSE cur[f]

\* The three calls of the patch helper: conditions, metadata, status.
PatchConditions(cur, b, o) == [cur EXCEPT !.ready = Merge(cur, b, o, "ready")]
PatchMetadata(cur, b, o) ==
  LET m == [cur EXCEPT !.finalizer = Merge(cur, b, o, "finalizer")]
  IN IF m.deleting /\ ~m.finalizer THEN Gone(m) ELSE m
PatchStatus(cur, b, o) ==
  [cur EXCEPT !.observed = Merge(cur, b, o, "observed"),
              !.history = Merge(cur, b, o, "history"),
              !.storageNs = Merge(cur, b, o, "storageNs"),
              !.chart = Merge(cur, b, o, "chart")]

Calls == {"conditions", "metadata", "status"}
Patched(cur, b, o, done) ==
  LET c == IF "conditions" \in done THEN PatchConditions(cur, b, o) ELSE cur
      m == IF "metadata" \in done THEN PatchMetadata(c, b, o) ELSE c
  IN IF "status" \in done /\ m.exists THEN PatchStatus(m, b, o) ELSE m

(* ------------------------------ recording ------------------------------ *)

Live(t) == store[t].status \in {"deployed", "failed", "uninstalling"}
\* The status of o tells where the release of target t is.
Records(o, t) == o.exists /\ <<o.storageNs, o.history.name>> = t
Unrecorded(o) == {t \in Targets : Live(t) /\ ~Records(o, t)}
\* Charts that exist and that the status of o does not name.
Uncharted(o) == {c \in Templates : charts[c] # "absent" /\ o.chart # c}

Trouble(kind) ==
  /\ spent.edits + spent.failures + spent.faults + spent.timeouts
       + spent.external < MaxTroubles
  /\ spent' = [spent EXCEPT ![kind] = @ + 1]

\* The reconcile goes on at p, or leaves with result r.
Goto(p) == pc' = p /\ result' = "none"
Return(r) == pc' = "end" /\ result' = r

\* The chart of the status diverges from the template, or must go with the
\* object.
MustDeleteChart(o) == o.deleting \/ (o.chart # "none" /\ o.chart # o.source)

\* After the chart of a deleted object its finalizer goes; otherwise the
\* template is applied, if there is one.
AfterChart(o) ==
  IF o.deleting
  THEN /\ obj' = [o EXCEPT !.finalizer = FALSE] /\ Return("stop")
  ELSE /\ obj' = o
       /\ Goto(IF o.source \in Templates THEN "apply" ELSE "mark")

\* Mutant: the deletion of the object leaves the chart.
LeavesChart(o) == IF MustDeleteChart(o) /\ o.chart # "none" /\ ~o.deleting
                  THEN obj' = o /\ Goto("chart")
                  ELSE AfterChart(o)

ReconcileChart(o) == IF MustDeleteChart(o) /\ o.chart # "none"
                     THEN obj' = o /\ Goto("chart")
                     ELSE AfterChart(o)

(* ------------------------- the client's access ------------------------- *)

\* A Secret holds a kubeconfig under the key, is gone, or holds none; a
\* ServiceAccount to impersonate is there or gone.
ConfigFromSecret == IF access.state = "unusable" THEN "error" ELSE "client"

\* Nobody looks whether a ServiceAccount exists before impersonating it.
buildRESTClientGetter ==
  CASE access.by = "account" -> "client"
    [] access.by = "secret" /\ access.state = "missing" -> "not found"
    [] OTHER -> ConfigFromSecret

(* ----------------------- Reconcile: the beginning ---------------------- *)

\* The parts of the status that say where the release is.
Record(o) == <<o.storageNs, o.history>>

\* r.Get from the cache.  When the cached status is not the one in the API
\* server, what the reconcile makes may be out of sight: a merge patch only
\* writes what differs from the cached status.
Get ==
  /\ pc = "idle" /\ queued /\ queued' = FALSE
  /\ cache.exists
  /\ base' = cache
  /\ lost' = IF Record(cache) = Record(api) THEN lost ELSE Targets
  /\ strayed' = IF cache.chart = api.chart THEN strayed ELSE Templates
  /\ UNCHANGED <<objects, store, made, charts, seen, access, spent>>

NotFound ==
  /\ pc = "idle" /\ queued /\ queued' = FALSE
  /\ ~cache.exists
  /\ UNCHANGED <<objects, memory, store, made, charts, seen, access,
                 abandoned, lost, strayed, spent>>

\* reconcileDelete: a suspended object only loses its finalizer.
DeleteSuspended ==
  /\ cache.deleting /\ cache.suspend
  /\ Get
  /\ obj' = [cache EXCEPT !.finalizer = FALSE] /\ Return("stop")
  /\ abandoned' = TRUE

\* reconcileReleaseDeletion skips the uninstall when no storage namespace was
\* set, and when the Secret or the ServiceAccount is gone.
SkipsUninstall(o) == o.storageNs = "none" \/ access.state = "missing"
DeleteRelease ==
  /\ cache.deleting /\ ~cache.suspend
  /\ Get
  /\ \/ SkipsUninstall(cache) /\ ReconcileChart(cache)
     \/ /\ ~SkipsUninstall(cache) /\ buildRESTClientGetter = "error"
        /\ obj' = MarkReady(cache, "False") /\ Return("error")
     \/ /\ ~SkipsUninstall(cache) /\ buildRESTClientGetter = "client"
        /\ obj' = cache /\ Goto("uninstall")
  /\ abandoned' = (abandoned \/ (cache.storageNs # "none" /\ access.state = "missing"))

AddFinalizer ==
  /\ ~cache.deleting /\ ~cache.finalizer
  /\ Get
  /\ obj' = [cache EXCEPT !.finalizer = TRUE] /\ Return("requeue")
  /\ UNCHANGED abandoned

SkipSuspended ==
  /\ ~cache.deleting /\ cache.finalizer /\ cache.suspend
  /\ Get
  /\ obj' = cache /\ Return("stop")
  /\ UNCHANGED abandoned

\* Health check expressions that do not compile stall the object.
RejectExprs ==
  /\ ~cache.deleting /\ cache.finalizer /\ ~cache.suspend /\ ~cache.exprs
  /\ Get
  /\ obj' = [MarkReady(cache, "False") EXCEPT !.observed = cache.gen]
  /\ Return("terminal")
  /\ UNCHANGED abandoned

Proceed ==
  /\ ~cache.deleting /\ cache.finalizer /\ ~cache.suspend /\ cache.exprs
  /\ Get
  /\ ReconcileChart(cache)
  /\ UNCHANGED abandoned

(* ------------------------- the chart template -------------------------- *)

\* What every step of a running reconcile leaves to others.
Frame == UNCHANGED <<queued, access, abandoned, lost, strayed>>

\* HelmChartTemplate.reconcileDelete: the chart is looked up in the cache,
\* and is taken to be gone when it is not there.
DeleteChart ==
  /\ pc = "chart"
  /\ IF obj.chart \in Denied
     THEN Return("error") /\ UNCHANGED <<obj, charts, strayed>>
     ELSE /\ IF seen[obj.chart] = "absent"
             THEN UNCHANGED charts /\ strayed' = strayed \cup {obj.chart}
             ELSE /\ charts' = [charts EXCEPT ![obj.chart] = "absent"]
                  /\ UNCHANGED strayed
          /\ AfterChart([obj EXCEPT !.chart = "none"])
  /\ UNCHANGED <<objects, base, store, made, seen, spent, queued, access, abandoned,
                 lost>>

\* HelmChartTemplate.Reconcile: server-side apply of the chart.
ApplyChart ==
  /\ pc = "apply"
  /\ LET c == obj.source
     IN IF c \in Denied
        THEN Return("error") /\ UNCHANGED <<obj, charts>>
        ELSE /\ charts' = IF charts[c] = "absent"
                          THEN [charts EXCEPT ![c] = "pending"] ELSE charts
             /\ obj' = [obj EXCEPT !.chart = c]
             /\ Goto("mark")
  /\ UNCHANGED <<objects, base, store, made, seen, spent>>
  /\ Frame

(* --------------------------- reconcileRelease -------------------------- *)

\* A patch during the reconcile, whose failure ends it.
PatchAt(p, next) ==
  /\ pc = p
  /\ api.exists
  /\ Write(Patched(api, base, obj, Calls))
  /\ base' = obj
  /\ Goto(next)
  /\ UNCHANGED <<obj, store, made, charts, seen, spent>>
  /\ Frame

\* Any of its calls fails.
PatchFails ==
  /\ pc \in {"mark", "announced", "progress"}
  /\ Trouble("faults")
  /\ \E done \in SUBSET Calls \ {Calls} : Write(Patched(api, base, obj, done))
  /\ Return("error")
  /\ UNCHANGED <<obj, base, store, made, charts, seen>>
  /\ Frame

MarkReconciling == PatchAt("mark", "prerequisites")

\* Mutant: only the name of the release is compared.
TargetNameChanged(o) ==
  /\ o.storageNs # "none" /\ o.history # NoHistory
  /\ o.history.name # o.target[2]

\* ReleaseTargetChanged, for a release the status records.
TargetChanged(o) ==
  /\ o.storageNs # "none" /\ o.history # NoHistory
  /\ <<o.storageNs, o.history.name>> # o.target

\* Mutant: the chart the release was made from does not matter.
InSyncWithAnyChart(o) ==
  /\ o.history = [name |-> o.target[2], ver |-> store[o.target].ver]
  /\ store[o.target].status = "deployed"

InSync(o) ==
  /\ o.history = [name |-> o.target[2], ver |-> store[o.target].ver]
  /\ store[o.target].status = "deployed"
  /\ store[o.target].source = o.source

\* getSource and isSourceReady.
SourceState(o) ==
  CASE o.source \in Denied -> "denied"
    [] o.source \in Refs \ Denied -> "ready"
    [] OTHER -> IF DirectSourceFetch THEN charts[o.source] ELSE seen[o.source]

\* The release loop finds the release in sync, or announces an action.
DetermineState(o) ==
  IF InSync(o)
  THEN obj' = MarkReady(o, "True") /\ Return("interval")
  ELSE obj' = MarkReady(o, "Unknown") /\ Goto("announced")

Prerequisites ==
  /\ pc = "prerequisites"
  /\ \/ /\ SourceState(obj) = "denied"
        /\ obj' = MarkReady(obj, "False") /\ Return("terminal")
     \/ /\ SourceState(obj) = "pending"
        /\ obj' = MarkReady(obj, "False") /\ Return("wait")
     \/ /\ \/ SourceState(obj) = "absent"
           \/ SourceState(obj) = "ready" /\ buildRESTClientGetter # "client"
        /\ obj' = MarkReady(obj, "False") /\ Return("error")
     \/ /\ SourceState(obj) = "ready" /\ buildRESTClientGetter = "client"
        /\ IF TargetChanged(obj)
           THEN obj' = obj /\ Goto("uninstall")
           ELSE DetermineState([obj EXCEPT !.storageNs = obj.target[1]])
  /\ UNCHANGED <<objects, base, store, made, charts, seen, spent>>
  /\ Frame

\* Dependencies, values, the artifact, its digest or the chart are not there.
PrerequisiteFails ==
  /\ pc = "prerequisites"
  /\ Trouble("failures")
  /\ obj' = MarkReady(obj, "False")
  /\ \E r \in {"wait", "error"} : Return(r)
  /\ UNCHANGED <<objects, base, store, made, charts, seen>>
  /\ Frame

(* ---------------------- uninstalling the release ----------------------- *)

\* The release the status records: reconcileUninstall looks nowhere else.
Recorded(o) == <<o.storageNs, o.history.name>>

\* ClearHistory and the storage namespace, after which a deletion goes on to
\* the chart and a change of target starts over.
Cleared(o) ==
  LET m == IF o.history = NoHistory THEN o ELSE MarkReady(o, "False")
      c == [m EXCEPT !.history = NoHistory, !.storageNs = "none"]
  IN IF o.deleting THEN ReconcileChart(c) ELSE obj' = c /\ Return("requeue")

\* The release is gone already, or kept and already uninstalled.
AlreadyUninstalled(o) ==
  o.history # NoHistory =>
    store[Recorded(o)].status \in {"none"} \cup {u \in {"uninstalled"} : KeepHistory}

NothingToUninstall ==
  /\ pc = "uninstall"
  /\ AlreadyUninstalled(obj)
  /\ Cleared(obj)
  /\ UNCHANGED <<objects, base, store, made, charts, seen, spent>>
  /\ Frame

BeginUninstall ==
  /\ pc = "uninstall"
  /\ ~AlreadyUninstalled(obj)
  /\ store' = [store EXCEPT ![Recorded(obj)].status = "uninstalling"]
  /\ Goto("uninstalling")
  /\ UNCHANGED <<objects, obj, base, charts, seen, spent, made>>
  /\ Frame

\* Helm uninstalls the last revision.  When that is not the recorded one the
\* uninstall counts as failed, though the release is gone.
EndUninstall ==
  /\ pc = "uninstalling"
  /\ LET t == Recorded(obj)
     IN /\ store' = [store EXCEPT ![t] =
                       IF KeepHistory /\ @.status # "none"
                       THEN [@ EXCEPT !.status = "uninstalled"]
                       ELSE NoRelease]
        /\ IF store[t].ver \in {0, obj.history.ver}
           THEN Cleared(obj)
           ELSE obj' = MarkReady(obj, "False") /\ Return("error")
  /\ UNCHANGED <<objects, base, charts, seen, spent, made>>
  /\ Frame

\* Mutant: a failed uninstall clears the status too.
UninstallFailsCleared ==
  /\ pc = "uninstalling"
  /\ Trouble("failures")
  /\ obj' = [MarkReady(obj, "False") EXCEPT !.history = NoHistory]
  /\ Return("error")
  /\ UNCHANGED <<objects, base, store, made, charts, seen>>
  /\ Frame

\* Deleting the resources fails, or the storage could not be updated.
UninstallFails ==
  /\ pc = "uninstalling"
  /\ Trouble("failures")
  /\ obj' = MarkReady(obj, "False")
  /\ Return("error")
  /\ UNCHANGED <<objects, base, store, made, charts, seen>>
  /\ Frame

(* -------------------------- the release loop --------------------------- *)

Announced == PatchAt("announced", "release")

Release ==
  /\ pc = "release"
  /\ LET t == obj.target
     IN \E status \in {"deployed", "failed"} :
          /\ IF status = "failed" THEN Trouble("failures") ELSE UNCHANGED spent
          /\ made' = made + 1
          /\ store' = [store EXCEPT ![t] = [status |-> status, ver |-> made + 1,
                                            source |-> obj.source]]
          /\ obj' = [MarkReady(obj, IF status = "failed" THEN "False" ELSE "True")
                      EXCEPT !.history = [name |-> t[2], ver |-> made + 1]]
          /\ IF status = "failed" THEN Return("requeue") ELSE Goto("progress")
  /\ UNCHANGED <<objects, base, charts, seen>>
  /\ Frame

\* The loop records its progress and looks at the state again.
Progress ==
  /\ pc = "progress"
  /\ api.exists
  /\ Write(Patched(api, base, obj, Calls))
  /\ base' = obj
  /\ Return(IF InSync(obj) THEN "interval" ELSE "requeue")
  /\ UNCHANGED <<obj, store, made, charts, seen, spent>>
  /\ Frame

(* ------------------------- Reconcile: the end -------------------------- *)

\* The generation is observed unless an error or an immediate requeue follows.
Observed(o, r) == IF r \in {"interval", "stop", "terminal"}
                  THEN [o EXCEPT !.observed = o.gen] ELSE o

\* The deferred patch; the calls in done succeed.  A call for an object that
\* is gone fails, which only counts when it was not being deleted.
FinalPatch(done) ==
  LET o == Observed(obj, result)
      new == Patched(api, base, o, done)
      failed == done # Calls \/ (~api.exists /\ ~obj.deleting)
  IN /\ IF api.exists THEN Write(new) ELSE UNCHANGED objects
     /\ obj' = o
     /\ base' = o
     /\ pc' = "sync"
     /\ result' = IF failed /\ result # "terminal" THEN "error" ELSE result
     /\ lost' = IF done = Calls THEN lost ELSE lost \cup Unrecorded(new)
     /\ strayed' = IF done = Calls THEN strayed ELSE strayed \cup Uncharted(new)
     /\ UNCHANGED <<queued, store, made, charts, seen, access, abandoned>>

Finish ==
  /\ pc = "end"
  /\ FinalPatch(Calls)
  /\ UNCHANGED spent

FinishPartly ==
  /\ pc = "end"
  /\ \E done \in SUBSET Calls \ {Calls} : FinalPatch(done)
  /\ Trouble("faults")

\* Mutant: an error is only logged.
LeaveOnError ==
  /\ pc' = "idle" /\ result' = "none"
  /\ obj' = cache /\ base' = cache
  /\ queued' = (queued \/ result \notin {"stop", "terminal", "error"})

\* Mutant: what the reconcile waits for is expected to bring it back.
LeaveUntilEvent ==
  /\ pc' = "idle" /\ result' = "none"
  /\ obj' = cache /\ base' = cache
  /\ queued' = (queued \/ result \notin {"stop", "terminal", "wait"})

\* Back in the queue, at once or when a timer fires, or not at all.
Leave ==
  /\ pc' = "idle" /\ result' = "none"
  /\ obj' = cache /\ base' = cache
  /\ queued' = (queued \/ result \notin {"stop", "terminal"})

\* Mutant: the wait ends at once.
SyncedAtOnce == TRUE

\* waitForHistoryCacheSync.
HistorySynced == cache.exists => cache.history = obj.history

Sync ==
  /\ pc = "sync"
  /\ HistorySynced
  /\ Leave
  /\ lost' = IF cache.history = api.history
             THEN {t \in lost : ~Records(api, t)} ELSE lost
  /\ strayed' = IF api.exists THEN strayed \ {api.chart} ELSE strayed
  /\ UNCHANGED <<objects, store, made, charts, seen, access, abandoned, spent>>

\* The wait times out, which is only logged: the watch is late, or the status
\* was not written.
SyncTimesOut ==
  /\ pc = "sync"
  /\ ~HistorySynced
  /\ IF pending # <<>> THEN Trouble("timeouts") ELSE UNCHANGED spent
  /\ Leave
  /\ lost' = lost \cup Unrecorded(api)
  /\ UNCHANGED <<objects, store, made, charts, seen, access, abandoned, strayed>>

(* ------------------------- faults and surroundings --------------------- *)

\* A call for a chart fails, or the one that tells whether the client may be
\* used for the uninstall.
CallFails ==
  /\ pc \in {"chart", "apply", "uninstall"}
  /\ Trouble("faults")
  /\ obj' = IF pc = "uninstall" THEN MarkReady(obj, "False") ELSE obj
  /\ Return("error")
  /\ UNCHANGED <<objects, base, store, made, charts, seen>>
  /\ Frame

\* The process stops and another one starts, which lists every object.
Crash ==
  /\ Trouble("faults")
  /\ pc' = "idle" /\ result' = "none"
  /\ cache' = api /\ pending' = <<>> /\ seen' = charts
  /\ obj' = api /\ base' = api
  /\ queued' = api.exists
  /\ lost' = lost \cup Unrecorded(api)
  /\ strayed' = strayed \cup Uncharted(api)
  /\ UNCHANGED <<api, store, made, charts, access, abandoned>>

\* The watch of HelmReleases, whose predicate lets a new generation, a new
\* object and a deletion through.
Deliver ==
  /\ pending # <<>>
  /\ cache' = Head(pending)
  /\ pending' = Tail(pending)
  /\ queued' = (queued \/ cache'.gen # cache.gen \/ cache'.exists # cache.exists)
  /\ obj' = IF pc = "idle" THEN cache' ELSE obj
  /\ base' = IF pc = "idle" THEN cache' ELSE base
  /\ UNCHANGED <<api, pc, result, store, made, charts, seen, access, abandoned,
                 lost, strayed, spent>>

\* The watch of HelmCharts: an artifact that appears is news for a release
\* whose cached specification refers to the chart.
DeliverChart ==
  \E c \in Templates :
    /\ seen[c] # charts[c]
    /\ seen' = [seen EXCEPT ![c] = charts[c]]
    /\ queued' = (queued \/ (charts[c] = "ready" /\ seen[c] # "absent"
                             /\ cache.exists /\ cache.source = c))
    /\ UNCHANGED <<objects, memory, store, made, charts, access, abandoned,
                   lost, strayed, spent>>

\* source-controller fetches the chart.
Fetched ==
  \E c \in Templates :
    /\ charts[c] = "pending"
    /\ charts' = [charts EXCEPT ![c] = "ready"]
    /\ UNCHANGED <<objects, memory, queued, store, made, seen, access,
                   abandoned, lost, strayed, spent>>

\* The user changes the specification, or deletes the object.
Edit ==
  /\ api.exists
  /\ spent.edits < MaxEdits
  /\ Trouble("edits")
  /\ \E target \in Targets, source \in Sources, suspend, exprs \in BOOLEAN :
       LET new == [api EXCEPT !.target = target, !.source = source,
                              !.suspend = suspend, !.exprs = exprs]
       IN new # api /\ Write([new EXCEPT !.gen = @ + 1])
  /\ UNCHANGED <<memory, queued, store, made, charts, seen, access, abandoned,
                 lost, strayed>>

Delete ==
  /\ api.exists /\ ~api.deleting
  /\ Write(IF api.finalizer
           THEN [api EXCEPT !.deleting = TRUE, !.gen = @ + 1] ELSE Gone(api))
  /\ UNCHANGED <<memory, queued, store, made, charts, seen, access, abandoned,
                 lost, strayed, spent>>

\* Others uninstall or upgrade a release, or change, remove or restore the
\* credentials.
Interfere ==
  /\ Trouble("external")
  /\ \/ /\ access' \in Accesses \ {access} /\ access'.by = access.by
        /\ UNCHANGED <<store, made>>
     \/ /\ \E t \in Targets :
             /\ Live(t)
             /\ \/ store' = [store EXCEPT ![t] = NoRelease] /\ UNCHANGED made
                \/ store' = [store EXCEPT ![t].ver = made + 1] /\ made' = made + 1
        /\ UNCHANGED access
  /\ UNCHANGED <<objects, memory, queued, charts, seen, abandoned, lost,
                 strayed>>

Init ==
  /\ api = Object(1, First[1], First[2])
  /\ cache = Gone(api) /\ pending = <<api>>
  /\ obj = cache /\ base = cache
  /\ pc = "idle" /\ result = "none"
  /\ queued = FALSE
  /\ store = [t \in Targets |-> NoRelease]
  /\ made = 0
  /\ charts = [c \in Templates |-> "absent"] /\ seen = charts
  /\ access \in Accesses /\ access.state = "usable" /\ abandoned = FALSE
  /\ lost = {} /\ strayed = {}
  /\ spent = [edits |-> 0, failures |-> 0, faults |-> 0, timeouts |-> 0,
              external |-> 0]

Controller ==
  \/ NotFound \/ DeleteSuspended \/ DeleteRelease \/ AddFinalizer
  \/ SkipSuspended \/ RejectExprs \/ Proceed
  \/ DeleteChart \/ ApplyChart \/ MarkReconciling \/ Prerequisites
  \/ NothingToUninstall \/ BeginUninstall \/ EndUninstall
  \/ Announced \/ Release \/ Progress
  \/ Finish \/ Sync \/ SyncTimesOut

Failures ==
  \/ PatchFails \/ PrerequisiteFails \/ UninstallFails \/ FinishPartly
  \/ CallFails \/ Crash

Surroundings == Deliver \/ DeliverChart  \/ Fetched \/ Edit \/ Delete
                \/ Interfere

Next == Controller \/ Failures \/ Surroundings

Spec == Init /\ [][Next]_vars

\* The worker runs, watches deliver and charts are fetched; how
\* often anything fails is bounded by the constants alone.
FairSpec ==
  /\ Spec
  /\ WF_vars(Controller)
  /\ WF_vars(Deliver) /\ WF_vars(DeliverChart)
  /\ WF_vars(Fetched)

(* ----------------------------- properties ------------------------------ *)

\* A reconcile starts from the history the API server holds, however far the
\* cache lags behind, because the one before it waited for its own history to
\* come back (waitForHistoryCacheSync); a wait that times out is the exception.
StartsFromRecord ==
  (pc = "idle" /\ cache.exists /\ api.exists /\ spent.timeouts = 0)
    => cache.history = api.history

\* Nothing is left behind: a release that exists is recorded in the status,
\* is in the hands of the running reconcile, or its record was lost to a
\* fault, or the deletion gave it up.
ReleaseIsRecorded ==
  \A t \in Targets : Live(t) =>
    \/ Records(api, t)
    \/ pc # "idle" /\ Records(obj, t)
    \/ t \in lost
    \/ abandoned

\* The object keeps the promise of ReleaseOwnership: after a change of target
\* the release of the former target is uninstalled before another one is
\* installed, and none outlives the object.
Ownership ==
  INSTANCE ReleaseOwnership WITH
    phase <- IF ~api.exists THEN "gone" ELSE IF api.deleting THEN "deleting"
                                                              ELSE "live",
    installed <- {t \in Targets : Live(t)},
    excused <- IF abandoned THEN Targets ELSE lost
OwnsOneRelease == Ownership!Spec

\* The HelmChart goes with the object, and with a template that refers to
\* another one, as long as no reconcile reads the cache too early.
ChartIsRecorded ==
  abandoned \/ \A c \in Templates \ strayed :
    charts[c] # "absent" => (api.exists /\ api.chart = c) \/ (pc # "idle" /\ obj.chart = c)

\* The deletion of an object deletes its chart too, as the comment on
\* reconcileDelete of the controller says.
DeletionLeavesNoChart ==
  ~api.exists /\ ~abandoned => \A c \in Templates : charts[c] = "absent"

\* What dependents rely on: a Ready object whose generation is observed has
\* the release of that generation, when nobody interferes with Helm, no call
\* fails, and the object is not suspended.
ReadyIsApplied ==
  (/\ api.exists /\ ~api.deleting /\ ~api.suspend
   /\ IsReady(api) /\ api.observed = api.gen
   /\ spent.faults = 0 /\ spent.timeouts = 0 /\ spent.external = 0)
    => store[api.target].status = "deployed"
       /\ store[api.target].source = api.source

\* A deleted object goes away, whatever failed on the way; a Secret that stays
\* without a usable kubeconfig is the one thing that keeps it, where a missing
\* one does not.
DeletionCompletes ==
  <>[](access.state = "unusable") \/ (api.deleting ~> ~api.exists)

\* An object that is not suspended, valid and allowed to use its source ends
\* up Ready with its release deployed; or it goes.
Converged ==
  \/ ~api.exists \/ api.deleting \/ api.suspend \/ ~api.exprs
  \/ buildRESTClientGetter # "client"
  \/ api.source \in Denied
  \/ InSync(api) /\ IsReady(api) /\ api.observed = api.gen
Converges == <>[]Converged
=============================================================================
