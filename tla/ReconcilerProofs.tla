-------------------------- MODULE ReconcilerProofs --------------------------
(* The life of a HelmRelease, for any targets, charts and clients and any    *)
(* number of edits, failures and faults: StartsFromRecord, ReleaseIsRecorded, *)
(* ChartIsRecorded and ReadyIsApplied are invariants, and the object keeps   *)
(* the promise of ReleaseOwnership.                                          *)
EXTENDS ReconcilerReady

(* ------------------------------ invariance ----------------------------- *)

LEMMA InitInv == Init => IInv
<1> SUFFICES ASSUME Init PROVE IInv
  OBVIOUS
<1> DEFINE first == Object(1, First[1], First[2])
<1>1. First[1] \in Targets /\ First[2] \in Sources
  BY ReconcilerAssumption, Zenon
<1>2. /\ first \in HelmRelease /\ first.exists /\ ~first.deleting /\ ~first.finalizer
      /\ first.storageNs = "none" /\ first.chart = "none" /\ first.history = NoHistory
  <2>1. NoHistory \in Histories /\ "none" \in Names
    BY Zenon DEF NoHistory, Histories, Names
  <2>2. <<"Unknown", 0>> \in {"Unknown", "True", "False"} \X Nat
    OBVIOUS
  <2> QED BY <1>1, <2>1, <2>2, Zenon DEF Object, HelmRelease
<1>3. api = first /\ cache = Gone(first) /\ pending = <<first>>
  BY Zenon DEF Init
<1> HIDE DEF first
<1>4. /\ cache \in HelmRelease /\ ~cache.exists /\ ~cache.deleting /\ ~cache.finalizer
      /\ cache.history = NoHistory
  BY <1>2, <1>3, GoneFields, Zenon DEF SameSpec, SameStatus
<1>5. ObjectTypes
  BY <1>2, <1>3, <1>4 DEF ObjectTypes, Init
<1>6. OtherTypes
  <2>1. NoRelease \in ReleaseStored /\ NoRelease.status = "none"
    BY Zenon DEF NoRelease, ReleaseStored, Statuses
  <2> QED BY <2>1, Zenon DEF OtherTypes, Init, Pcs, Spending
<1>7. Len(pending) = 1 /\ Versions = {0, 1} /\ Version(0) = cache /\ Version(1) = api
      /\ Version(Len(pending)) = api
  BY <1>3 DEF Versions, Version
<1>8. Watched
  BY <1>2, <1>3, <1>4, <1>7 DEF Watched, Before
<1>9. /\ pc = "idle" /\ ~Running /\ ~Patching /\ ~Busy /\ ~Releasing /\ ~Early
      /\ obj = cache /\ base = cache
  BY Zenon DEF Init, Running, Patching, Busy, Releasing, Early
<1>10. Guarded /\ Placed
  BY <1>2, <1>3, <1>9, Zenon DEF Guarded, Placed
<1>11. /\ \A t \in Targets : ~Owned(t)
       /\ \A c \in Templates : ~OwnedChart(c)
  BY Zenon DEF Init, Owned, OwnedChart, Live, NoRelease
<1>12. ReleaseTracked /\ ChartsTracked
  BY <1>9, <1>11, Zenon DEF ReleaseTracked, ChartsTracked
<1>13. Synced
  BY <1>2, <1>3, <1>4, <1>7, <1>9, Zenon DEF Synced, SameHistory
<1> QED BY <1>5, <1>6, <1>8, <1>10, <1>12, <1>13 DEF IInv

LEMMA NextInv == IInv /\ [Next]_vars => IInv'
<1> SUFFICES ASSUME IInv, [Next]_vars PROVE IInv'
  OBVIOUS
<1>1. CASE Controller
  BY <1>1, SurroundingsKept, DeleteSuspendedKept, DeleteReleaseKept, AddFinalizerKept,
     SkipSuspendedKept, RejectExprsKept, ProceedKept, DeleteChartKept, ApplyChartKept,
     PatchesKept, PrerequisitesKept, NothingToUninstallKept, BeginUninstallKept,
     EndUninstallKept, ReleaseKept, FinishKept, SyncKept
  DEF Controller
<1>2. CASE Failures
  BY <1>2, PatchesKept, FailuresReturn, FinishKept, CrashKept DEF Failures
<1>3. CASE Surroundings
  BY <1>3, SurroundingsKept, DeliverKept, EditKept, DeleteKept DEF Surroundings
<1>4. CASE UNCHANGED vars
  <2>1. /\ UNCHANGED <<objects, memory, abandoned, lost, strayed>>
        /\ UNCHANGED <<store, made, charts, seen, spent>>
    BY <1>4, Zenon DEF vars
  <2>2. OtherTypes' /\ Timely
    BY <2>1, Zenon DEF IInv, OtherTypes, memory, Timely
  <2>3. /\ \A t \in Targets : Owned(t)' => Owned(t)
        /\ \A c \in Templates : OwnedChart(c)' => OwnedChart(c)
    BY <2>1, Zenon DEF Owned, OwnedChart, Live
  <2> QED BY <2>1, <2>2, <2>3, ElsewhereKept, Zenon
<1> QED BY <1>1, <1>2, <1>3, <1>4, Zenon DEF Next

\* Every reachable state of the reconciler satisfies the inductive invariant.
THEOREM ReconcilerInvariant == Spec => []IInv
<1> QED BY InitInv, NextInv, PTL DEF Spec

\* The release of any target is recorded in the status of the HelmRelease or in
\* the hands of the running reconcile, unless its record was lost to a fault or
\* the deletion gave it up.
THEOREM ReleaseAlwaysRecorded == Spec => []ReleaseIsRecorded
<1>1. IInv => ReleaseIsRecorded
  BY Zenon DEF IInv, ReleaseTracked, ReleaseIsRecorded, Owned, Patching
<1> QED BY <1>1, ReconcilerInvariant, PTL

\* A HelmChart the object made is named by its status or by the running
\* reconcile, so that the deletion finds it.
THEOREM ChartAlwaysRecorded == Spec => []ChartIsRecorded
<1>1. IInv => ChartIsRecorded
  BY Zenon DEF IInv, ChartsTracked, ChartIsRecorded, OwnedChart, Patching
<1> QED BY <1>1, ReconcilerInvariant, PTL

\* As long as no wait for the cache times out, a reconcile starts from the
\* history in the API server, however late the watch is.
THEOREM AlwaysStartsFromRecord == Spec => []StartsFromRecord
<1>1. IInv => StartsFromRecord
  <2>1. ObjectTypes => 0 \in Versions /\ Version(0) = cache
    BY VersionTypes, Zenon
  <2> QED BY <2>1, Zenon DEF IInv, Synced, SameHistory, StartsFromRecord, Running
<1> QED BY <1>1, ReconcilerInvariant, PTL

(* ------------------------- users and the watch ------------------------- *)

\* A user writes another generation, or ends the object, and leaves the status.
LEMMA UserReady ==
  ASSUME IInv, RInv, Calm, api.exists, UNCHANGED <<memory, store>>,
         NEW new \in HelmRelease, Write(new), Record(new) = Record(api),
         new.ready = api.ready, new.observed = api.observed,
         new.gen = api.gen + 1 \/ (~new.exists /\ SameSpec(new, api))
  PROVE  RInv'
<1>1. /\ AllKnown /\ RecordSynced /\ Underway /\ api \in HelmRelease /\ obj \in HelmRelease
      /\ Len(pending) \in Versions /\ Version(Len(pending)) = api
      /\ \A i \in Versions : i <= Len(pending)
      /\ obj' = obj /\ base' = base /\ pc' = pc /\ result' = result /\ api' = new
      /\ store' = store
  BY VersionTypes, Zenon DEF RInv, IInv, ObjectTypes, Watched, memory, Write
<1>2. /\ \A i \in Versions' : Version(i)' = IF i \in Versions THEN Version(i) ELSE new
      /\ \A i \in Versions' \ Versions : i = Len(pending')
  BY WriteAdds, Zenon DEF IInv, Watched
<1>3. /\ api.gen \in Nat /\ obj.gen \in Nat /\ api.ready[2] \in Nat /\ api.observed \in Nat
      /\ Known(api, obj, api.ready[2], store)
  BY <1>1, Numbers, Zenon DEF AllKnown
<1>4. NotNewer(api, new) /\ Known(new, obj, new.ready[2], store)
      /\ ~(new.exists /\ Ready(new))
  <2>1. CASE new.gen = api.gen + 1
    BY <2>1, <1>3 DEF Known, NotNewer, Judged, Ready
  <2>2. CASE ~new.exists /\ SameSpec(new, api)
    BY <2>2, <1>3 DEF Known, NotNewer, Judged, Ready, SameSpec
  <2> QED BY <2>1, <2>2, Zenon
<1>5. Ordered' /\ AllKnown'
  <2>1. SameSpec(obj', obj) /\ api.ready[2] <= new.ready[2]
    BY <1>1, <1>3 DEF SameSpec
  <2> QED BY <1>1, <1>4, <2>1, WriteKnown, Zenon
<1>6. SameRecord(obj) => SameRecord(obj)'
  BY <1>1, <1>2, Zenon DEF SameRecord
<1>7. RecordSettles => RecordSettles'
  <2> SUFFICES ASSUME RecordSettles, NEW i \in Versions', NEW j \in Versions', i <= j,
                      Version(i)'.history = obj.history, Version(j)'.exists
               PROVE  Record(Version(j)') = Record(obj)
    BY <1>1, Zenon DEF RecordSettles
  <2>1. CASE j \in Versions /\ i \in Versions
    BY <2>1, <1>2, Zenon DEF RecordSettles
  <2>2. CASE j \notin Versions /\ i \in Versions
    BY <2>2, <1>1, <1>2, Zenon DEF RecordSettles
  <2>3. CASE i \notin Versions /\ j \in Versions
    BY <2>3, <1>1, <1>2 DEF Write, IInv, ObjectTypes, Versions
  <2>4. CASE i \notin Versions /\ j \notin Versions
    <3>1. api.history = obj.history /\ Len(pending) <= Len(pending)
      BY <2>4, <1>1, <1>2, Zenon DEF Record, Versions
    <3>2. Record(api) = Record(obj)
      BY <3>1, <1>1, Zenon DEF RecordSettles
    <3> QED BY <3>2, <2>4, <1>2, Zenon
  <2> QED BY <2>1, <2>2, <2>3, <2>4, Zenon
<1>8. RecordSynced'
  <2>1. ~Running => /\ SameRecord(obj)'
                    /\ \A i \in Versions' : Version(i)'.exists => Whole(Version(i)')
    BY <1>1, <1>2, <1>6 DEF RecordSynced, Whole, Record
  <2>2. Fresh => SameRecord(obj)' /\ Record(base) = Record(obj) /\ Whole(obj)
    BY <1>1, <1>6, Zenon DEF RecordSynced
  <2>3. pc \in {"announced", "release"} =>
          \A i \in Versions' : Version(i)'.exists =>
            Version(i)'.history = NoHistory \/ Version(i)'.storageNs = obj.storageNs
    BY <1>1, <1>2, Zenon DEF RecordSynced, Record
  <2>4. Closing => RecordSettles' /\ Whole(obj)
    BY <1>1, <1>7, Zenon DEF RecordSynced
  <2>5. (Running' <=> Running) /\ (Fresh' <=> Fresh) /\ (Closing' <=> Closing)
        /\ (Patching' <=> Patching)
    BY <1>1, Zenon DEF Running, Fresh, Closing, Patching
  <2> QED BY <1>1, <2>1, <2>2, <2>3, <2>4, <2>5, Zenon DEF RecordSynced
<1>9. Underway'
  <2>1. ReadyRecord => ReadyRecord'
    BY <1>1, <1>2, <1>4, Zenon DEF ReadyRecord
  <2>2. TargetChanged(obj)' <=> TargetChanged(obj)
    BY <1>1, Zenon DEF TargetChanged
  <2>3. (Running' <=> Running) /\ (Patching' <=> Patching)
    BY <1>1, Zenon DEF Running, Patching
  <2> QED BY <1>1, <2>1, <2>2, <2>3, Zenon DEF Underway
<1> QED BY <1>5, <1>8, <1>9, Zenon DEF RInv

LEMMA EditReady == IInv /\ RInv /\ Calm /\ Edit => RInv'
<1> SUFFICES ASSUME IInv, RInv, Calm, Edit PROVE RInv'
  OBVIOUS
<1>1. PICK target \in Targets, source \in Sources, suspend \in BOOLEAN, exprs \in BOOLEAN :
        Write([[api EXCEPT !.target = target, !.source = source,
                           !.suspend = suspend, !.exprs = exprs] EXCEPT !.gen = @ + 1])
  BY Zenon DEF Edit
<1> DEFINE e == [api EXCEPT !.target = target, !.source = source,
                            !.suspend = suspend, !.exprs = exprs]
           new == [e EXCEPT !.gen = @ + 1]
<1>2. api \in HelmRelease /\ api.exists /\ UNCHANGED <<memory, store>>
  BY Zenon DEF Edit, IInv, ObjectTypes
<1>3. e \in HelmRelease
  BY <1>2 DEF HelmRelease
<1>4. SameStatus(e, api) /\ e.ready = api.ready /\ e.gen = api.gen
  BY <1>2, Zenon DEF HelmRelease, SameStatus
<1> HIDE DEF e
<1>5. new \in HelmRelease
  BY <1>3 DEF HelmRelease
<1>6. SameStatus(new, e) /\ new.ready = e.ready /\ new.gen = e.gen + 1
  BY <1>3, Zenon DEF HelmRelease, SameStatus
<1>7. Write(new)
  BY <1>1, Zenon DEF e
<1> HIDE DEF new
<1> QED BY <1>2, <1>4, <1>5, <1>6, <1>7, UserReady, Zenon DEF Record, SameStatus

LEMMA DeleteReady == IInv /\ RInv /\ Calm /\ Delete => RInv'
<1> SUFFICES ASSUME IInv, RInv, Calm, Delete PROVE RInv'
  OBVIOUS
<1>1. api \in HelmRelease /\ api.exists /\ UNCHANGED <<memory, store>>
  BY Zenon DEF Delete, IInv, ObjectTypes
<1>2. CASE api.finalizer
  <2> DEFINE new == [api EXCEPT !.deleting = TRUE, !.gen = @ + 1]
  <2>1. new \in HelmRelease
    <3>1. api.gen + 1 \in Nat
      BY <1>1 DEF HelmRelease
    <3> QED BY <1>1, <3>1, Zenon DEF HelmRelease
  <2>2. SameStatus(new, api) /\ new.ready = api.ready /\ new.gen = api.gen + 1
    BY <1>1, Zenon DEF HelmRelease, SameStatus
  <2>3. Write(new)
    BY <1>2, Zenon DEF Delete
  <2> HIDE DEF new
  <2> QED BY <2>1, <2>2, <2>3, <1>1, UserReady, Zenon DEF Record, SameStatus
<1>3. CASE ~api.finalizer
  <2>1. Write(Gone(api))
    BY <1>3, Zenon DEF Delete
  <2> QED BY <2>1, <1>1, GoneFields, UserReady, Zenon DEF Record, SameStatus
<1> QED BY <1>2, <1>3, Zenon

\* The next version arrives: a reconcile that runs does not see it.
LEMMA DeliverReady == IInv /\ RInv /\ Calm /\ Deliver => RInv'
<1> SUFFICES ASSUME IInv, RInv, Calm, Deliver PROVE RInv'
  OBVIOUS
<1>1. /\ Ordered /\ AllKnown /\ RecordSynced /\ Underway
      /\ cache' = Version(1) /\ 1 \in Versions /\ Len(pending') = Len(pending) - 1
      /\ Len(pending) \in Nat /\ Versions' \subseteq Nat
      /\ \A i \in Versions' : i + 1 \in Versions /\ Version(i)' = Version(i + 1)
      /\ \A i \in Versions : Version(i) \in HelmRelease
  BY DeliverShifts, VersionTypes DEF RInv, IInv, Versions
<1>2. /\ api' = api /\ pc' = pc /\ result' = result /\ store' = store
      /\ obj' = IF pc = "idle" THEN Version(1) ELSE obj
      /\ base' = IF pc = "idle" THEN Version(1) ELSE base
  BY <1>1, Zenon DEF Deliver
<1>3. (Running' <=> Running) /\ (Patching' <=> Patching) /\ (Running <=> pc # "idle")
  BY <1>2, Zenon DEF Running, Patching
<1>4. Ordered'
  BY <1>1 DEF Ordered
<1>5. CASE Running
  <2>1. obj' = obj /\ base' = base /\ (Fresh' <=> Fresh) /\ (Closing' <=> Closing)
    BY <1>2, <1>5, Zenon DEF Running, Fresh, Closing
  <2>2. AllKnown'
    BY <1>1, <1>2, <2>1, Zenon DEF AllKnown
  <2>3. RecordSynced'
    <3>1. /\ SameRecord(obj) => SameRecord(obj)'
          /\ RecordSettles => RecordSettles'
      BY <1>1, <2>1 DEF SameRecord, RecordSettles
    <3>2. pc \in {"announced", "release"} =>
            \A i \in Versions' : Version(i)'.exists =>
              Version(i)'.history = NoHistory \/ Version(i)'.storageNs = obj.storageNs
      BY <1>1, Zenon DEF RecordSynced
    <3> QED BY <1>1, <1>2, <1>3, <1>5, <2>1, <3>1, <3>2 DEF RecordSynced
  <2>4. Underway'
    <3>1. ReadyRecord' /\ (TargetChanged(obj)' <=> TargetChanged(obj))
      BY <1>1, <1>5, <2>1 DEF Underway, ReadyRecord, TargetChanged
    <3> QED BY <1>1, <1>2, <1>3, <2>1, <3>1, Zenon DEF Underway
  <2> QED BY <1>4, <2>2, <2>3, <2>4, Zenon DEF RInv
<1>6. CASE ~Running
  <2>1. /\ pc = "idle" /\ obj' = Version(1) /\ ~Patching'
        /\ obj.gen \in Nat /\ Version(1).gen \in Nat /\ obj \in HelmRelease
        /\ SameRecord(obj) /\ \A i \in Versions : Version(i).exists => Whole(Version(i))
    BY <1>1, <1>2, <1>3, <1>6, Numbers DEF Patching, IInv, ObjectTypes, RecordSynced
  <2>2. NotNewer(obj, Version(1)) /\ Known(Version(1), obj, api.ready[2], store)
    BY <1>1, Zenon DEF AllKnown, Known
  <2>3. AllKnown'
    <3> SUFFICES ASSUME NEW i \in Versions, 1 <= i
                 PROVE  Known(Version(i), Version(1), api.ready[2], store)
      BY <1>1, <1>2, <2>1 DEF AllKnown
    <3>1. NotNewer(Version(1), Version(i)) /\ Known(Version(i), obj, api.ready[2], store)
      BY <1>1, Zenon DEF Ordered, AllKnown
    <3>2. Version(i).ready[2] \in Nat /\ Version(i).observed \in Nat
      BY <1>1, Numbers, Zenon
    <3> QED BY <2>1, <2>2, <3>1, <3>2 DEF Known, NotNewer
  <2>4. RecordSynced'
    <3>1. SameRecord(obj)'
      <4>1. CASE Version(1).exists
        BY <4>1, <1>1, <2>1, Zenon DEF SameRecord
      <4>2. CASE ~Version(1).exists
        <5>1. Len(pending) = 1
          BY <4>2, <1>1 DEF IInv, Watched
        <5>2. \A i \in Versions' : i = 0
          BY <5>1, <1>1 DEF Versions
        <5> QED BY <5>2, <4>2, <1>1 DEF SameRecord
      <4> QED BY <4>1, <4>2, Zenon
    <3>2. \A i \in Versions' : Version(i)'.exists => Whole(Version(i)')
      BY <1>1, <2>1, Zenon
    <3> QED BY <3>1, <3>2, <1>2, <1>3, <1>6, <2>1 DEF RecordSynced, Fresh, Closing
  <2>5. Underway'
    <3>1. Version(1).ready[2] \in Nat /\ Version(1).observed \in Nat /\ NotNewer(Version(1), Version(1))
      BY <1>1, Numbers DEF NotNewer, SameSpec
    <3>2. Known(Version(1), Version(1), Version(1).gen, store)
      BY <2>1, <2>2, <3>1 DEF Known, NotNewer
    <3> QED BY <3>2, <1>2, <1>3, <1>6, <2>1 DEF Underway
  <2> QED BY <1>4, <2>3, <2>4, <2>5 DEF RInv
<1> QED BY <1>5, <1>6, Zenon

(* ---------------------- the end of a reconcile ------------------------- *)

\* The wait ends once the cache has the record of the reconcile.
LEMMA SyncReady == IInv /\ RInv /\ Calm /\ Sync => RInv'
<1> SUFFICES ASSUME IInv, RInv, Calm, Sync PROVE RInv'
  OBVIOUS
<1>1. /\ pc = "sync" /\ pc' = "idle" /\ obj' = cache /\ base' = cache /\ store' = store
      /\ Versions' = Versions /\ \A i \in Versions : Version(i)' = Version(i)
      /\ api' = api /\ (cache.exists => cache.history = obj.history)
      /\ 0 \in Versions /\ Version(0) = cache /\ cache \in HelmRelease /\ obj \in HelmRelease
      /\ \A i \in Versions : Version(i) \in HelmRelease /\ 0 <= i
  BY SameVersions, VersionTypes, Zenon DEF Sync, HistorySynced, Leave, objects, IInv, ObjectTypes
<1>2. /\ Ordered /\ AllKnown /\ RecordSettles /\ Whole(obj)
      /\ cache.gen \in Nat /\ obj.gen \in Nat /\ cache.ready[2] \in Nat
      /\ cache.observed \in Nat
  BY <1>1, Numbers, Zenon DEF RInv, RecordSynced, Closing
<1>3. Known(cache, obj, api.ready[2], store)
  BY <1>1, <1>2, Zenon DEF AllKnown
<1>4. Ordered'
  BY <1>1, <1>2, Zenon DEF Ordered
<1>5. AllKnown'
  <2> SUFFICES ASSUME NEW i \in Versions
               PROVE  Known(Version(i), cache, api.ready[2], store)
    BY <1>1, Zenon DEF AllKnown
  <2>1. NotNewer(cache, Version(i)) /\ Known(Version(i), obj, api.ready[2], store)
    BY <1>1, <1>2, Zenon DEF Ordered, AllKnown
  <2>2. Version(i).ready[2] \in Nat /\ Version(i).observed \in Nat
    BY <1>1, Numbers, Zenon
  <2> QED BY <1>2, <1>3, <2>1, <2>2 DEF Known, NotNewer
<1>6. RecordSynced'
  <2>1. /\ SameRecord(obj)'
        /\ \A i \in Versions : Version(i).exists => Whole(Version(i))
    <3>1. CASE cache.exists
      <4>1. \A i \in Versions : Version(i).exists => Record(Version(i)) = Record(obj)
        BY <3>1, <1>1, <1>2, Zenon DEF RecordSettles
      <4>2. Record(cache) = Record(obj)
        BY <3>1, <4>1, <1>1, Zenon
      <4> QED BY <4>1, <4>2, <1>1, <1>2, Zenon DEF SameRecord, Whole, Record
    <3>2. CASE ~cache.exists
      <4>1. pending = <<>>
        BY <3>2, <1>1 DEF IInv, Guarded, Running
      <4>2. \A i \in Versions : i = 0
        BY <4>1 DEF Versions
      <4> QED BY <4>2, <3>2, <1>1 DEF SameRecord
    <3> QED BY <3>1, <3>2, Zenon
  <2> QED BY <2>1, <1>1, Zenon DEF RecordSynced, Running, Fresh, Closing, Patching
<1>7. Underway'
  <2>1. Known(cache, cache, cache.gen, store)
    BY <1>2, <1>3 DEF Known, NotNewer, SameSpec
  <2> QED BY <2>1, <1>1, Zenon DEF Underway, Running, Patching
<1> QED BY <1>4, <1>5, <1>6, <1>7 DEF RInv

\* Without a version under way there is nothing to wait for.
LEMMA TimesOutReady == IInv /\ RInv /\ Calm /\ SyncTimesOut => RInv'
<1> SUFFICES ASSUME IInv, RInv, Calm, SyncTimesOut, Calm' PROVE FALSE
  BY Zenon DEF RInv
<1>1. pending = <<>>
  BY TroubleCounts, Zenon DEF SyncTimesOut, IInv, OtherTypes, Calm
<1>2. api = cache
  BY <1>1, Zenon DEF IInv, Watched, Version
<1> QED BY <1>2, Zenon DEF SyncTimesOut, HistorySynced, RInv, RecordSynced, Record

(* ------------------------------ invariance ----------------------------- *)

\* A step of somebody else.
LEMMA ElsewhereReady ==
  ASSUME RInv, Calm, UNCHANGED <<objects, memory, store>>
  PROVE  RInv'
<1>1. /\ api' = api /\ obj' = obj /\ base' = base /\ pc' = pc /\ result' = result
      /\ store' = store
      /\ Versions' = Versions /\ \A i \in Versions : Version(i)' = Version(i)
  BY SameVersions, Zenon DEF objects, memory
<1>2. Ordered' /\ AllKnown'
  BY <1>1, Zenon DEF RInv, Ordered, AllKnown
<1>3. /\ Running' <=> Running
      /\ Patching' <=> Patching
      /\ Fresh' <=> Fresh
      /\ Closing' <=> Closing
      /\ SameRecord(obj)' <=> SameRecord(obj)
      /\ RecordSettles' <=> RecordSettles
      /\ ReadyRecord' <=> ReadyRecord
      /\ TargetChanged(obj)' <=> TargetChanged(obj)
  BY <1>1, Zenon DEF Running, Patching, Fresh, Closing, SameRecord, RecordSettles, ReadyRecord,
              TargetChanged
<1>4. RecordSynced'
  BY <1>1, <1>3, Zenon DEF RInv, RecordSynced
<1>5. Underway'
  BY <1>1, <1>3, Zenon DEF RInv, Underway
<1> QED BY <1>2, <1>4, <1>5, Zenon DEF RInv

LEMMA InitReady == Init => RInv
<1> SUFFICES ASSUME Init PROVE RInv
  OBVIOUS
<1> DEFINE first == Object(1, First[1], First[2])
<1>1. IInv
  BY InitInv, Zenon
<1>2. /\ api = first /\ cache = Gone(first) /\ pending = <<first>>
      /\ obj = cache /\ base = cache /\ pc = "idle"
  BY Zenon DEF Init
<1>3. /\ first.gen = 1 /\ first.ready = <<"Unknown", 0>> /\ first.observed = 0
      /\ first.storageNs = "none" /\ first.history = NoHistory
  BY Zenon DEF Object
<1> HIDE DEF first
<1>4. first \in HelmRelease
  BY <1>1, <1>2, Zenon DEF IInv, ObjectTypes
<1>5. /\ SameSpec(cache, first) /\ cache.gen = 1 /\ cache.ready = <<"Unknown", 0>>
      /\ cache.observed = 0 /\ cache.storageNs = "none" /\ cache.history = NoHistory
  BY <1>2, <1>3, <1>4, GoneFields DEF SameSpec, SameStatus
<1>6. /\ NotNewer(first, first) /\ NotNewer(cache, cache) /\ NotNewer(cache, first)
      /\ NotNewer(first, cache)
  BY <1>3, <1>5 DEF NotNewer, SameSpec
<1>7. Versions = {0, 1} /\ Version(0) = cache /\ Version(1) = first
  BY <1>2 DEF Versions, Version
<1>8. Known(first, cache, 0, store) /\ Known(cache, cache, 0, store)
  BY <1>3, <1>5, <1>6 DEF Known, Judged, Ready
<1>9. Ordered /\ AllKnown
  BY <1>2, <1>3, <1>6, <1>7, <1>8 DEF Ordered, AllKnown
<1>10. RecordSynced
  <2>1. SameRecord(obj) /\ \A i \in Versions : Whole(Version(i))
    BY <1>2, <1>3, <1>5, <1>7, Zenon DEF SameRecord, Whole, Record
  <2> QED BY <2>1, <1>2, Zenon DEF RecordSynced, Fresh, Closing, Patching
<1>11. Underway
  <2>1. Known(cache, cache, cache.gen, store)
    BY <1>5, <1>8, Zenon DEF Known
  <2> QED BY <2>1, <1>2, Zenon DEF Underway, Running, Patching
<1> QED BY <1>9, <1>10, <1>11, Zenon DEF RInv

\* Troubles are counted and not forgotten.
LEMMA CalmBefore == IInv /\ Next /\ Calm' => Calm
<1> SUFFICES ASSUME IInv, Next, Calm' PROVE Calm
  OBVIOUS
<1>1. \/ spent' = spent
      \/ \E kind \in {"edits", "failures", "faults", "timeouts", "external"} : Trouble(kind)
  <2>1. CASE Controller
    BY <2>1, Zenon DEF Controller, NotFound, DeleteSuspended, DeleteRelease, AddFinalizer,
      SkipSuspended, RejectExprs, Proceed, Get, DeleteChart, ApplyChart, MarkReconciling,
      Prerequisites, NothingToUninstall, BeginUninstall, EndUninstall, Announced, PatchAt,
      Release, Progress, Finish, Sync, SyncTimesOut
  <2>2. CASE Failures
    BY <2>2, Zenon DEF Failures, PatchFails, PrerequisiteFails, UninstallFails, FinishPartly,
      CallFails, Crash
  <2>3. CASE Surroundings
    BY <2>3, Zenon DEF Surroundings, Deliver, DeliverChart, Fetched, Edit, Delete, Interfere
  <2> QED BY <2>1, <2>2, <2>3, Zenon DEF Next
<1>2. CASE spent' = spent
  BY <1>2, Zenon DEF Calm
<1>3. CASE \E kind \in {"edits", "failures", "faults", "timeouts", "external"} : Trouble(kind)
  BY <1>3, TroubleCounts, Zenon DEF Calm, IInv, OtherTypes, Timely
<1> QED BY <1>1, <1>2, <1>3, Zenon

LEMMA NextReady == IInv /\ RInv /\ [Next]_vars => RInv'
<1> SUFFICES ASSUME IInv, RInv, [Next]_vars, Calm' PROVE RInv'
  BY Zenon DEF RInv
<1>1. CASE UNCHANGED vars
  <2>1. Calm /\ UNCHANGED <<objects, memory, store>>
    BY <1>1, Zenon DEF vars, Calm
  <2> QED BY <2>1, ElsewhereReady, Zenon
<1>2. CASE Next
  <2>1. Calm
    BY <1>2, CalmBefore, Zenon
  <2>2. CASE Controller
    <3>1. CASE NotFound
      BY <3>1, <2>1, ElsewhereReady, Zenon DEF NotFound
    <3> QED BY <2>1, <2>2, <3>1, GetsReady, DeleteChartReady, ApplyChartReady, PatchesReady,
          PrerequisitesReady, UninstallReady, ReleaseReady, FinishReady, SyncReady,
          TimesOutReady
        DEF Controller
  <2>3. CASE Failures
    <3>1. ~Trouble("faults")
      BY TroubleCounts, Zenon DEF IInv, OtherTypes, Calm
    <3>2. PrerequisiteFails \/ UninstallFails
      BY <2>3, <3>1, Zenon DEF Failures, PatchFails, FinishPartly, CallFails, Crash
    <3> QED BY <3>2, <2>1, FailuresReady, Zenon
  <2>4. CASE Surroundings
    <3>1. ~Trouble("external")
      BY TroubleCounts, Zenon DEF IInv, OtherTypes, Calm
    <3>2. CASE DeliverChart \/ Fetched
      BY <3>2, <2>1, ElsewhereReady, Zenon DEF DeliverChart, Fetched
    <3> QED BY <2>1, <2>4, <3>1, <3>2, DeliverReady, EditReady, DeleteReady
        DEF Surroundings, Interfere
  <2> QED BY <1>2, <2>2, <2>3, <2>4, Zenon DEF Next
<1> QED BY <1>1, <1>2, Zenon

\* A HelmRelease that says it is Ready and has been observed, and is neither
\* suspended nor deleted, has its chart deployed to its target, as long as no
\* call failed, no wait for the cache timed out and nobody interfered.
THEOREM ReadyAlwaysApplied == Spec => []ReadyIsApplied
<1>1. IInv /\ RInv => ReadyIsApplied
  <2> SUFFICES ASSUME IInv, RInv, Calm, api.exists, ~api.deleting, ~api.suspend,
                      IsReady(api), api.observed = api.gen
               PROVE  store[api.target].status = "deployed"
                      /\ store[api.target].source = api.source
    BY Zenon DEF ReadyIsApplied, Calm
  <2>1. api \in HelmRelease /\ Len(pending) \in Versions /\ Version(Len(pending)) = api
    BY VersionTypes, Zenon DEF IInv, ObjectTypes, Watched
  <2>2. Known(api, obj, api.ready[2], store)
    BY <2>1, Zenon DEF RInv, AllKnown
  <2>3. Ready(api)
    BY <2>1, <2>2, Numbers, Zenon DEF Known, Judged, Ready, IsReady
  <2> QED BY <2>2, <2>3, Zenon DEF Known, Good, Fits
<1> QED BY <1>1, InitReady, NextReady, ReconcilerInvariant, PTL DEF Spec

(* ------------------ the promise of ReleaseOwnership -------------------- *)

\* What the abstract variables stand for.
Phase == IF ~api.exists THEN "gone" ELSE IF api.deleting THEN "deleting" ELSE "live"
Installed == {t \in Targets : Live(t)}
Excused == IF abandoned THEN Targets ELSE lost

\* At most one release is owned, and none once the object is gone.
OwnsOne ==
  /\ Excused \subseteq Targets
  /\ \A t, u \in Installed \ Excused : t = u /\ Owned(t) /\ api.exists

LEMMA InvOwnsOne == IInv => OwnsOne
<1> SUFFICES ASSUME IInv PROVE OwnsOne
  OBVIOUS
<1>1. \A t \in Installed \ Excused : Owned(t) /\ t \in Targets
  BY Zenon DEF Installed, Excused, Owned
<1>2. ASSUME NEW t \in Targets, NEW u \in Targets, Owned(t), Owned(u)
      PROVE  t = u /\ api.exists
  <2>1. CASE Patching
    BY <1>2, <2>1, Zenon DEF IInv, ReleaseTracked, Records
  <2>2. CASE ~Patching
    BY <1>2, <2>2, Zenon DEF IInv, ReleaseTracked, Records
  <2> QED BY <2>1, <2>2, Zenon
<1> QED BY <1>1, <1>2, Zenon DEF OwnsOne, Excused, IInv, OtherTypes

\* A step that moves neither the object nor a release at most excuses some.
LEMMA ExcuseStep ==
  ASSUME OwnsOne', Phase' = Phase, Installed' = Installed
  PROVE  Ownership!Next
<1>1. /\ Excused' \subseteq Targets
      /\ \A t, u \in Installed \ Excused' : t = u /\ Phase # "gone"
  BY Zenon DEF OwnsOne, Phase
<1>2. Ownership!Excuse
  BY <1>1, Zenon DEF Ownership!Excuse, Phase, Installed, Excused
<1> QED BY <1>2, Zenon DEF Ownership!Next

\* The object goes: what it owned has gone before.
LEMMA GoStep ==
  ASSUME OwnsOne', Phase # "gone", Phase' = "gone", Installed' = Installed,
         lost \subseteq lost', abandoned => abandoned', IInv
  PROVE  Ownership!Next
<1>1. ~api'.exists
  BY Zenon DEF Phase
<1>2. /\ Excused' \subseteq Targets /\ Installed \subseteq Excused'
      /\ Excused \subseteq Excused'
  BY <1>1, Zenon DEF OwnsOne, Excused, IInv, OtherTypes
<1>3. Ownership!Go
  BY <1>2, Zenon DEF Ownership!Go, Phase, Installed, Excused
<1> QED BY <1>3, Zenon DEF Ownership!Next

\* Steps that leave the API server and the Helm storage alone, or write what
\* does not concern the phase.
LEMMA QuietStep ==
  ASSUME OwnsOne', store' = store, api' = api
  PROVE  Ownership!Next
<1>1. Installed' = Installed /\ Phase' = Phase
  BY Zenon DEF Installed, Live, Phase
<1> QED BY <1>1, ExcuseStep, Zenon

LEMMA QuietSteps ==
  ASSUME OwnsOne',
         \/ NotFound \/ DeleteSuspended \/ DeleteRelease \/ AddFinalizer \/ SkipSuspended
         \/ RejectExprs \/ Proceed \/ DeleteChart \/ ApplyChart \/ Prerequisites
         \/ NothingToUninstall \/ Sync \/ SyncTimesOut \/ PrerequisiteFails
         \/ UninstallFails \/ CallFails \/ Crash \/ Deliver \/ DeliverChart \/ Fetched
  PROVE  Ownership!Next
<1>1. CASE \/ NotFound \/ DeleteSuspended \/ DeleteRelease \/ AddFinalizer \/ SkipSuspended
           \/ RejectExprs \/ Proceed
  <2>1. store' = store /\ api' = api
    BY <1>1, Zenon DEF NotFound, DeleteSuspended, DeleteRelease, AddFinalizer, SkipSuspended,
                RejectExprs, Proceed, Get, objects
  <2> QED BY <2>1, QuietStep, Zenon
<1>2. CASE \/ DeleteChart \/ ApplyChart \/ Prerequisites \/ NothingToUninstall \/ Sync
           \/ SyncTimesOut
  <2>1. store' = store /\ api' = api
    BY <1>2, Zenon DEF DeleteChart, ApplyChart, Prerequisites, NothingToUninstall, Sync,
                SyncTimesOut, objects
  <2> QED BY <2>1, QuietStep
<1>3. CASE \/ PrerequisiteFails \/ UninstallFails \/ CallFails \/ Crash \/ Deliver
           \/ DeliverChart \/ Fetched
  <2>1. store' = store /\ api' = api
    BY <1>3, Zenon DEF PrerequisiteFails, UninstallFails, CallFails, Crash, Deliver, DeliverChart,
                Fetched, objects
  <2> QED BY <2>1, QuietStep
<1> QED BY <1>1, <1>2, <1>3, Zenon

LEMMA PatchSteps ==
  ASSUME IInv, OwnsOne', MarkReconciling \/ Announced \/ Progress \/ PatchFails
  PROVE  Ownership!Next
<1>1. /\ pc \in {"mark", "announced", "progress"} /\ store' = store
      /\ \E done \in SUBSET Calls : Write(Patched(api, base, obj, done))
  BY Zenon DEF MarkReconciling, Announced, Progress, PatchFails, PatchAt
<1>2. PICK done \in SUBSET Calls : Write(Patched(api, base, obj, done))
  BY <1>1, Zenon
<1>3. Busy /\ ~obj.deleting
  BY <1>1, Zenon DEF Busy, IInv, Placed
<1>4. api'.exists /\ api.exists /\ SameSpec(api', api)
  BY <1>2, <1>3, PatchOfActive, Zenon DEF Write
<1>5. Phase' = Phase /\ Installed' = Installed
  BY <1>1, <1>4, Zenon DEF Phase, Installed, Live, SameSpec
<1> QED BY <1>5, ExcuseStep, Zenon

LEMMA FinishSteps ==
  ASSUME IInv, OwnsOne', Finish \/ FinishPartly
  PROVE  Ownership!Next
<1>1. PICK done \in SUBSET Calls : FinalPatch(done)
  BY Zenon DEF Finish, FinishPartly
<1>2. /\ store' = store /\ abandoned' = abandoned /\ lost \subseteq lost'
      /\ IF api.exists THEN Write(Patched(api, base, Observed(obj, result), done))
                       ELSE api' = api
  BY <1>1, Zenon DEF FinalPatch, objects
<1>3. Installed' = Installed
  BY <1>2, Zenon DEF Installed, Live
<1>4. CASE ~api.exists
  BY <1>2, <1>4, QuietStep, Zenon
<1>5. CASE api.exists
  <2>1. Observed(obj, result) \in HelmRelease
    <3>1. obj \in HelmRelease /\ obj.gen \in Nat
      BY Zenon DEF IInv, ObjectTypes, HelmRelease
    <3> QED BY <3>1, ObservedFields, Zenon DEF Observed
  <2>2. Patches(api, base, Observed(obj, result), done, api')
    BY <1>2, <1>5, <2>1, PatchedFields, Zenon DEF Write, IInv, ObjectTypes
  <2>3. SameSpec(api', api)
    BY <2>2, Zenon DEF Patches
  <2>4. CASE api'.exists
    <3>1. Phase' = Phase
      BY <1>5, <2>3, <2>4, Zenon DEF Phase, SameSpec
    <3> QED BY <3>1, <1>3, ExcuseStep, Zenon
  <2>5. CASE ~api'.exists
    <3>1. Phase # "gone" /\ Phase' = "gone"
      BY <1>5, <2>5, Zenon DEF Phase
    <3> QED BY <3>1, <1>2, <1>3, GoStep, Zenon
  <2> QED BY <2>4, <2>5, Zenon
<1> QED BY <1>4, <1>5, Zenon

LEMMA UserSteps ==
  ASSUME IInv, OwnsOne', Edit \/ Delete
  PROVE  Ownership!Next
<1>1. /\ store' = store /\ abandoned' = abandoned /\ lost' = lost /\ api.exists
      /\ api \in HelmRelease
  BY Zenon DEF Edit, Delete, IInv, ObjectTypes
<1>2. Installed' = Installed /\ Excused' = Excused
  BY <1>1, Zenon DEF Installed, Live, Excused
<1>3. CASE Edit
  <2>1. PICK target \in Targets, source \in Sources, suspend \in BOOLEAN, exprs \in BOOLEAN :
          Write([[api EXCEPT !.target = target, !.source = source,
                             !.suspend = suspend, !.exprs = exprs] EXCEPT !.gen = @ + 1])
    BY <1>3 DEF Edit
  <2> DEFINE e == [api EXCEPT !.target = target, !.source = source,
                              !.suspend = suspend, !.exprs = exprs]
  <2>2. api'.exists /\ (api'.deleting <=> api.deleting)
    <3>1. e \in HelmRelease /\ e.exists /\ (e.deleting <=> api.deleting)
      BY <1>1 DEF HelmRelease
    <3>2. api' = [e EXCEPT !.gen = @ + 1]
      BY <2>1, Zenon DEF Write
    <3> HIDE DEF e
    <3> QED BY <3>1, <3>2, Zenon DEF HelmRelease
  <2>3. Phase' = Phase
    BY <1>1, <2>2, Zenon DEF Phase
  <2> QED BY <1>2, <2>3, ExcuseStep, Zenon
<1>4. CASE Delete /\ api.finalizer
  <2>1. api' = [api EXCEPT !.deleting = TRUE, !.gen = @ + 1] /\ ~api.deleting
    BY <1>4, Zenon DEF Delete, Write
  <2>2. api'.exists /\ api'.deleting
    BY <1>1, <2>1, Zenon DEF HelmRelease
  <2>3. Phase = "live" /\ Phase' = "deleting"
    BY <1>1, <2>1, <2>2, Zenon DEF Phase
  <2>4. Ownership!Delete
    BY <1>2, <2>3, Zenon DEF Ownership!Delete, Phase, Installed, Excused
  <2> QED BY <2>4, Zenon DEF Ownership!Next
<1>5. CASE Delete /\ ~api.finalizer
  <2>1. ~api'.exists
    BY <1>1, <1>5, GoneFields, Zenon DEF Delete, Write
  <2>2. Phase # "gone" /\ Phase' = "gone"
    BY <1>1, <2>1, Zenon DEF Phase
  <2> QED BY <1>1, <1>2, <2>2, GoStep, Zenon
<1> QED BY <1>3, <1>4, <1>5, Zenon

LEMMA ReleaseStep ==
  ASSUME IInv, Release
  PROVE  Ownership!Next
<1> DEFINE t == obj.target
<1>1. /\ pc = "release" /\ Busy /\ Releasing /\ Patching /\ t \in Targets
      /\ api' = api /\ abandoned' = abandoned /\ lost' = lost
      /\ \E status \in {"deployed", "failed"} :
           store' = [store EXCEPT ![t] = [status |-> status, ver |-> made + 1,
                                          source |-> obj.source]]
  BY Zenon DEF Release, objects, Frame, Busy, Releasing, Patching, IInv, ObjectTypes, HelmRelease
<1>2. Phase' = Phase /\ Excused' = Excused
  BY <1>1, Zenon DEF Phase, Excused
<1>3. api.exists /\ Phase # "gone"
  BY <1>1, Zenon DEF IInv, Placed, Guarded, Phase
<1>4. Installed' = Installed \cup {t}
  <2>1. PICK status \in {"deployed", "failed"} :
           store' = [store EXCEPT ![t] = [status |-> status, ver |-> made + 1,
                                          source |-> obj.source]]
    BY <1>1, Zenon
  <2>2. store'[t].status \in {"deployed", "failed"}
        /\ \A u \in Targets : u # t => store'[u] = store[u]
    BY <1>1, <2>1, Zenon DEF IInv, OtherTypes
  <2> QED BY <1>1, <2>2, Zenon DEF Installed, Live
<1>5. Installed \ Excused \subseteq {t}
  <2>1. \A u \in Installed \ Excused : Owned(u) /\ u \in Targets
    BY Zenon DEF Installed, Excused, Owned
  <2> QED BY <2>1, <1>1, Zenon DEF IInv, ReleaseTracked
<1>6. Ownership!Install(t)
  BY <1>2, <1>3, <1>4, <1>5, Zenon
  DEF Ownership!Install, Ownership!Owned, Phase, Installed, Excused
<1> QED BY <1>1, <1>6, Zenon DEF Ownership!Next

\* Whoever uninstalls a release only removes it.
LEMMA RemoveSteps ==
  ASSUME IInv, OwnsOne', BeginUninstall \/ EndUninstall \/ Interfere
  PROVE  Ownership!Next
<1>1. /\ api' = api /\ abandoned' = abandoned /\ lost' = lost
      /\ store \in [Targets -> ReleaseStored]
  BY Zenon DEF BeginUninstall, EndUninstall, Interfere, Frame, objects, IInv, OtherTypes
<1>2. Phase' = Phase /\ Excused' = Excused
  BY <1>1, Zenon DEF Phase, Excused
<1>3. ASSUME NEW r, r \in Targets => ~Live(r)', \A u \in Targets : u # r => store'[u] = store[u]
      PROVE  Ownership!Next
  <2>1. CASE r \in Targets
    <3>1. Installed' = Installed \ {r}
      BY <1>3, <2>1, Zenon DEF Installed, Live
    <3>2. Ownership!Remove(r)
      BY <3>1, <1>2, Zenon DEF Ownership!Remove, Phase, Installed, Excused
    <3> QED BY <2>1, <3>2, Zenon DEF Ownership!Next
  <2>2. CASE r \notin Targets
    <3>1. Installed' = Installed
      BY <1>3, <2>2, Zenon DEF Installed, Live
    <3> QED BY <3>1, <1>2, ExcuseStep, Zenon
  <2> QED BY <2>1, <2>2, Zenon
<1>4. ASSUME Installed' = Installed PROVE Ownership!Next
  BY <1>2, <1>4, ExcuseStep, Zenon
<1>5. CASE BeginUninstall
  <2>1. Installed' = Installed
    BY <1>5, UninstallingIsLive, Zenon DEF Installed
  <2> QED BY <2>1, <1>4, Zenon
<1>6. CASE EndUninstall
  <2>0. PICK r : r = Recorded(obj)
    OBVIOUS
  <2> DEFINE new == IF KeepHistory /\ store[r].status # "none"
                    THEN [store[r] EXCEPT !.status = "uninstalled"] ELSE NoRelease
  <2>1. store' = [store EXCEPT ![r] = new]
    BY <1>6, <2>0, Zenon DEF EndUninstall
  <2>2. r \in Targets => new.status \in {"none", "uninstalled"}
    BY <1>1, Zenon DEF ReleaseStored, NoRelease
  <2> HIDE DEF new
  <2>3. (r \in Targets => ~Live(r)') /\ \A u \in Targets : u # r => store'[u] = store[u]
    BY <1>1, <2>1, <2>2, Zenon DEF Live
  <2> QED BY <2>3, <1>3, Zenon
<1>7. CASE Interfere
  <2>1. CASE store' = store
    BY <2>1, <1>4, Zenon DEF Installed, Live
  <2>2. ASSUME NEW t \in Targets, store' = [store EXCEPT ![t] = NoRelease]
        PROVE  Ownership!Next
    <3>1. ~Live(t)' /\ \A u \in Targets : u # t => store'[u] = store[u]
      BY <1>1, <2>2, Zenon DEF Live, NoRelease
    <3> QED BY <3>1, <1>3, Zenon
  <2>3. ASSUME NEW t \in Targets, store' = [store EXCEPT ![t].ver = made + 1]
        PROVE  Ownership!Next
    <3>1. \A u \in Targets : store'[u].status = store[u].status
      BY <1>1, <2>3, Zenon DEF ReleaseStored
    <3> QED BY <3>1, <1>4, Zenon DEF Installed, Live
  <2> QED BY <1>7, <2>1, <2>2, <2>3, Zenon DEF Interfere
<1> QED BY <1>5, <1>6, <1>7, Zenon

\* A HelmRelease owns at most one Helm release at a time, makes none when it is
\* gone and leaves none behind but those it is excused from: the reconciler
\* implements ReleaseOwnership.
THEOREM KeepsOwnership == Spec => OwnsOneRelease
<1>1. Init => Ownership!Init
  <2> SUFFICES ASSUME Init PROVE Ownership!Init
    OBVIOUS
  <2>1. api = Object(1, First[1], First[2]) /\ abandoned = FALSE /\ lost = {}
    BY Zenon DEF Init
  <2>2. api.exists /\ ~api.deleting
    BY <2>1, Zenon DEF Object
  <2>3. Installed = {} /\ Excused = {} /\ Phase = "live"
    BY <2>1, <2>2, Zenon DEF Installed, Live, Excused, Phase, Init, NoRelease
  <2> QED BY <2>3, Zenon DEF Ownership!Init, Installed, Excused, Phase
<1>2. IInv /\ OwnsOne' /\ [Next]_vars => [Ownership!Next]_(Ownership!vars)
  <2> SUFFICES ASSUME IInv, OwnsOne', [Next]_vars
               PROVE  [Ownership!Next]_(Ownership!vars)
    OBVIOUS
  <2>1. CASE Controller
    BY <2>1, QuietSteps, PatchSteps, FinishSteps, ReleaseStep, RemoveSteps DEF Controller
  <2>2. CASE Failures
    BY <2>2, QuietSteps, PatchSteps, FinishSteps, Zenon DEF Failures
  <2>3. CASE Surroundings
    BY <2>3, QuietSteps, UserSteps, RemoveSteps, Zenon DEF Surroundings
  <2>4. CASE UNCHANGED vars
    BY <2>4, Zenon DEF vars, objects, Ownership!vars, Live
  <2> QED BY <2>1, <2>2, <2>3, <2>4, Zenon DEF Next
<1> QED BY <1>1, <1>2, InvOwnsOne, ReconcilerInvariant, PTL
        DEF Spec, OwnsOneRelease, Ownership!Spec
=============================================================================
