--------------------------- MODULE ReconcilerReady ---------------------------
(* ReadyIsApplied, for any targets, charts and clients and any number of    *)
(* edits and failed releases: as long as no call fails, no wait times out    *)
(* and nobody interferes, a Ready condition is about the release in the Helm *)
(* storage, in every version of the object that is still on its way.         *)
EXTENDS ReconcilerSteps

(* ------------------------------ the invariant -------------------------- *)

Calm == spent.faults = 0 /\ spent.timeouts = 0 /\ spent.external = 0

\* w is a later version than v, with another specification if any.
NotNewer(v, w) == v.gen <= w.gen /\ (v.gen = w.gen => SameSpec(v, w))

\* InSync, of any storage.
Fits(s, o) ==
  /\ o.history = [name |-> o.target[2], ver |-> s[o.target].ver]
  /\ s[o.target].status = "deployed"
  /\ s[o.target].source = o.source

Ready(v) == v.ready = <<"True", v.gen>>
Good(s, v) == ~v.deleting /\ Fits(s, v) /\ v.storageNs = v.target[1]

\* A generation is observed once there is a condition for it.
Judged(v) == v.observed = v.gen /\ ~v.suspend /\ ~v.deleting => v.ready[2] = v.gen

\* A version v, next to the object o of a reconcile: nothing is said of a
\* generation that no reconcile has read, and n is the last one spoken of.
Known(v, o, n, s) ==
  /\ NotNewer(o, v)
  /\ v.ready[2] <= o.gen /\ v.observed <= o.gen /\ v.ready[2] <= n
  /\ Judged(v)
  /\ v.exists /\ Ready(v) => Good(s, v)

Ordered == \A i, j \in Versions : i <= j => NotNewer(Version(i), Version(j))
AllKnown == \A i \in Versions : Known(Version(i), obj, api.ready[2], store)

\* The storage namespace is recorded with the history.
Whole(o) == o.storageNs = "none" <=> o.history = NoHistory
SameRecord(o) == \A i \in Versions : Version(i).exists => Record(Version(i)) = Record(o)
RecordSettles ==
  \A i, j \in Versions :
    i <= j /\ Version(i).history = obj.history /\ Version(j).exists
      => Record(Version(j)) = Record(obj)

Fresh == \/ pc \in {"apply", "mark", "prerequisites", "uninstall", "uninstalling"}
         \/ pc = "chart" /\ ~obj.deleting
Closing == \/ pc \in {"progress", "end", "sync"}
           \/ pc = "chart" /\ obj.deleting

\* Status and storage namespace come back together.
RecordSynced ==
  /\ ~Running => /\ SameRecord(obj)
                 /\ \A i \in Versions : Version(i).exists => Whole(Version(i))
  /\ Fresh => SameRecord(obj) /\ Record(base) = Record(obj) /\ Whole(obj)
  /\ pc \in {"announced", "release"} =>
       \A i \in Versions : Version(i).exists =>
         Version(i).history = NoHistory \/ Version(i).storageNs = obj.storageNs
  /\ Closing => RecordSettles /\ Whole(obj)
  /\ Patching /\ api.exists => Record(api) = Record(base)
  /\ pc = "sync" /\ api.exists => Record(api) = Record(obj)

\* A version that is Ready records what the object of the reconcile records.
ReadyRecord ==
  \A i \in Versions :
    Version(i).exists /\ Ready(Version(i)) => Record(Version(i)) = Record(obj)

Underway ==
  /\ Known(obj, obj, obj.gen, store)
  /\ Running => ReadyRecord
  /\ Patching => /\ base.ready[2] <= api.ready[2]
                 /\ obj.ready = base.ready \/ obj.ready[2] = obj.gen
  /\ pc \in {"announced", "release"} => ~Fits(store, obj)
  /\ pc \in {"uninstall", "uninstalling"} => obj.deleting \/ TargetChanged(obj)
  /\ pc = "progress" => obj.ready[2] = obj.gen
  /\ pc = "end" /\ result \in {"interval", "stop", "terminal"} =>
       obj.suspend \/ obj.deleting \/ obj.ready[2] = obj.gen

RInv == Calm => Ordered /\ AllKnown /\ RecordSynced /\ Underway

\* The numbers of an object.
LEMMA Numbers ==
  ASSUME NEW v \in HelmRelease
  PROVE  /\ v.gen \in Nat /\ v.observed \in Nat /\ v.ready[2] \in Nat
         /\ v.ready = <<v.ready[1], v.ready[2]>>
<1>1. v.ready \in {"Unknown", "True", "False"} \X Nat /\ v.gen \in Nat /\ v.observed \in Nat
  BY Zenon DEF HelmRelease
<1> QED BY <1>1

(* --------------------- steps within a reconcile ------------------------ *)

\* No version is Ready while the release is about to change.
LEMMA NoneReady ==
  ASSUME IInv, RInv, Calm, pc \in {"announced", "release", "uninstall", "uninstalling"}
  PROVE  /\ \A i \in Versions : ~(Version(i).exists /\ Ready(Version(i)))
         /\ ~Ready(obj)
<1>1. /\ AllKnown /\ Underway /\ Running /\ obj.exists /\ obj \in HelmRelease
      /\ \A i \in Versions : Version(i) \in HelmRelease
  BY VersionTypes, Zenon DEF RInv, Running, IInv, Guarded, ObjectTypes
<1>2. ASSUME NEW v \in HelmRelease, v.exists, Ready(v), Record(v) = Record(obj),
             Known(v, obj, v.ready[2], store)
      PROVE  FALSE
  <2>1. v.gen \in Nat /\ v.ready[2] = v.gen /\ obj.gen \in Nat
    BY <1>1, <1>2, Numbers DEF Ready
  <2>2. SameSpec(obj, v) /\ Good(store, v)
    BY <2>1, <1>2 DEF Known, NotNewer
  <2>3. Good(store, obj)
    BY <2>2, <1>2, Zenon DEF Good, Fits, SameSpec, Record
  <2>4. <<obj.storageNs, obj.history.name>> = obj.target /\ obj.target \in Targets
    BY <2>3, <1>1, TargetPair DEF Good, Fits, HelmRelease
  <2> QED BY <2>3, <2>4, <1>1, Zenon DEF Underway, TargetChanged, Good
<1>3. \A i \in Versions : ~(Version(i).exists /\ Ready(Version(i)))
  <2> SUFFICES ASSUME NEW i \in Versions, Version(i).exists, Ready(Version(i)) PROVE FALSE
    OBVIOUS
  <2>1. Record(Version(i)) = Record(obj)
    BY <1>1, Zenon DEF Underway, ReadyRecord
  <2>2. Known(Version(i), obj, Version(i).ready[2], store)
    BY <1>1, Numbers DEF AllKnown, Known
  <2> QED BY <1>1, <1>2, <2>1, <2>2, Zenon
<1>4. ~Ready(obj)
  <2>1. Known(obj, obj, obj.ready[2], store)
    BY <1>1, Numbers DEF Underway, Known
  <2> QED BY <1>1, <1>2, <2>1, Zenon
<1> QED BY <1>3, <1>4, Zenon

\* A step that works on the object in memory and on the storage.
LEMMA LocalReady ==
  ASSUME IInv, RInv, Calm, Busy, UNCHANGED <<objects, base>>,
         obj' \in HelmRelease, SameSpec(obj', obj), obj'.observed = obj.observed,
         obj'.ready = obj.ready \/ obj'.ready[2] = obj.gen,
         \A i \in Versions : Version(i).exists /\ Ready(Version(i)) =>
           Good(store', Version(i)) /\ Record(Version(i)) = Record(obj'),
         Ready(obj') => Good(store', obj'),
         RecordSynced', pc' \notin {"idle", "sync"},
         pc' \in {"announced", "release"} => ~Fits(store', obj'),
         pc' \in {"uninstall", "uninstalling"} => obj'.deleting \/ TargetChanged(obj'),
         pc' = "progress" => obj'.ready[2] = obj'.gen,
         pc' = "end" /\ result' \in {"interval", "stop", "terminal"} =>
           obj'.suspend \/ obj'.deleting \/ obj'.ready[2] = obj'.gen
  PROVE  RInv'
<1>1. /\ Ordered /\ AllKnown /\ Underway /\ Patching
      /\ Versions' = Versions /\ \A i \in Versions : Version(i)' = Version(i)
      /\ api' = api /\ base' = base
  BY SameVersions, Zenon DEF RInv, Busy, Patching, objects
<1>2. obj'.gen = obj.gen /\ obj.gen \in Nat /\ obj'.ready[2] \in Nat /\ obj \in HelmRelease
  BY Numbers, Zenon DEF SameSpec, IInv, ObjectTypes
<1>3. Ordered'
  BY <1>1, Zenon DEF Ordered
<1>4. AllKnown'
  <2> SUFFICES ASSUME NEW i \in Versions
               PROVE  Known(Version(i), obj', api.ready[2], store')
    BY <1>1, Zenon DEF AllKnown
  <2>1. Known(Version(i), obj, api.ready[2], store)
    BY <1>1, Zenon DEF AllKnown
  <2> QED BY <2>1, <1>2, Zenon DEF Known, NotNewer, SameSpec
<1>5. Known(obj', obj', obj'.gen, store')
  <2>1. Known(obj, obj, obj.gen, store)
    BY <1>1, Zenon DEF Underway
  <2>2. NotNewer(obj', obj') /\ Judged(obj')
    BY <2>1, <1>2, Zenon DEF Known, NotNewer, Judged, SameSpec
  <2> QED BY <2>1, <2>2, <1>2 DEF Known
<1>6. ReadyRecord'
  BY <1>1, Zenon DEF ReadyRecord
<1>7. Patching' => /\ base'.ready[2] <= api'.ready[2]
                   /\ obj'.ready = base'.ready \/ obj'.ready[2] = obj'.gen
  BY <1>1, <1>2, Zenon DEF Underway
<1>8. Underway'
  BY <1>5, <1>6, <1>7, Zenon DEF Underway
<1> QED BY <1>3, <1>4, <1>8, Zenon DEF RInv

\* A step that leaves the release and its record alone.
LEMMA PlainReady ==
  ASSUME IInv, RInv, Calm, Busy, UNCHANGED <<objects, base, store>>,
         Fresh \/ pc = "chart",
         obj' \in HelmRelease, SameSpec(obj', obj), obj'.observed = obj.observed,
         Record(obj') = Record(obj),
         obj'.ready = obj.ready \/ obj'.ready[2] = obj.gen,
         obj'.ready = obj.ready \/ (Ready(obj') => Good(store, obj')),
         pc' \in {"chart", "apply", "mark", "uninstall", "end"}, Fresh' => Fresh,
         pc' = "uninstall" => obj.deleting \/ TargetChanged(obj),
         pc' = "end" /\ result' \in {"interval", "stop", "terminal"} =>
           obj'.suspend \/ obj'.deleting \/ obj'.ready[2] = obj'.gen
  PROVE  RInv'
<1>1. /\ AllKnown /\ Underway /\ RecordSynced /\ Running /\ Patching /\ obj.exists
      /\ Versions' = Versions /\ \A i \in Versions : Version(i)' = Version(i)
      /\ api' = api /\ base' = base
  BY SameVersions, Zenon DEF RInv, Busy, Patching, Running, objects, IInv, Guarded
<1>2. Ready(obj') => Good(store, obj')
  BY <1>1, Zenon DEF Underway, Known, Ready, Good, Fits, SameSpec, Record
<1>3. \A i \in Versions : Version(i).exists /\ Ready(Version(i)) =>
        Good(store, Version(i)) /\ Record(Version(i)) = Record(obj')
  BY <1>1, Zenon DEF AllKnown, Known, Underway, ReadyRecord
<1>4. RecordSynced'
  <2>1. obj'.history = obj.history /\ (Whole(obj') <=> Whole(obj))
    BY Zenon DEF Record, Whole
  <2>2. Fresh \/ Closing
    BY Zenon DEF Fresh, Closing
  <2>3. RecordSettles' /\ Whole(obj')
    BY <1>1, <2>1, <2>2 DEF RecordSynced, RecordSettles, SameRecord
  <2>4. Fresh' => SameRecord(obj)' /\ Record(base') = Record(obj') /\ Whole(obj')
    BY <1>1, <2>3, Zenon DEF RecordSynced, SameRecord
  <2>5. Running' /\ (Patching /\ api.exists => Record(api) = Record(base))
    BY <1>1, Zenon DEF Running, RecordSynced
  <2> QED BY <1>1, <2>3, <2>4, <2>5, Zenon DEF RecordSynced
<1>5. /\ pc' \notin {"idle", "sync", "announced", "release", "uninstalling", "progress"}
      /\ pc' = "uninstall" => obj'.deleting \/ TargetChanged(obj')
  BY Zenon DEF SameSpec, TargetChanged, Record
<1> QED BY <1>2, <1>3, <1>4, <1>5, LocalReady, Zenon

LEMMA FailuresReady ==
  IInv /\ RInv /\ Calm /\ (PrerequisiteFails \/ UninstallFails) => RInv'
<1> SUFFICES ASSUME IInv, RInv, Calm, PrerequisiteFails \/ UninstallFails PROVE RInv'
  OBVIOUS
<1>1. /\ UNCHANGED <<objects, base, store>> /\ pc' = "end" /\ Busy /\ Fresh /\ ~Fresh'
      /\ result' \notin {"interval", "stop", "terminal"}
      /\ obj' = MarkReady(obj, "False") /\ obj \in HelmRelease
  BY Zenon DEF PrerequisiteFails, UninstallFails, Return, IInv, ObjectTypes, Busy, Fresh
<1>2. /\ obj' \in HelmRelease /\ SameSpec(obj', obj) /\ SameStatus(obj', obj)
      /\ obj'.ready = <<"False", obj.gen>>
  BY <1>1, MarkReadyFields, Zenon
<1>3. obj'.ready[2] = obj.gen /\ ~Ready(obj')
  BY <1>2 DEF Ready
<1> QED BY <1>1, <1>2, <1>3, PlainReady, Zenon DEF SameStatus, Record

LEMMA DeleteChartReady == IInv /\ RInv /\ Calm /\ DeleteChart => RInv'
<1> SUFFICES ASSUME IInv, RInv, Calm, DeleteChart PROVE RInv'
  OBVIOUS
<1>1. pc = "chart" /\ Busy /\ UNCHANGED <<objects, base, store>> /\ obj \in HelmRelease
  BY Zenon DEF DeleteChart, Busy, IInv, ObjectTypes
<1>2. CASE obj.chart \in Denied
  <2>1. pc' = "end" /\ obj' = obj /\ result' = "error" /\ ~Fresh'
    BY <1>2, Zenon DEF DeleteChart, Return, Fresh
  <2> QED BY <1>1, <2>1, PlainReady, Zenon DEF SameSpec
<1>3. CASE obj.chart \notin Denied
  <2> DEFINE o == [obj EXCEPT !.chart = "none"]
  <2>1. AfterChart(o)
    BY <1>1, <1>3, Zenon DEF DeleteChart
  <2>2. /\ o \in HelmRelease /\ SameSpec(o, obj) /\ o.ready = obj.ready
        /\ o.observed = obj.observed /\ o.history = obj.history
        /\ o.storageNs = obj.storageNs
    BY <1>1, ChartFields
  <2> HIDE DEF o
  <2>3. /\ obj' \in HelmRelease /\ SameSpec(obj', obj) /\ obj'.ready = obj.ready
        /\ obj'.observed = obj.observed /\ Record(obj') = Record(obj)
    BY <2>1, <2>2, AfterChartFields, Zenon DEF SameRest, SameSpec, SameStatus, Record
  <2>4. /\ pc' \in {"apply", "mark", "end"}
        /\ pc' = "end" => obj'.deleting
        /\ pc' # "end" => ~obj'.deleting
    BY <2>1, <2>2, AfterChartFields, Zenon DEF SameRest, SameSpec
  <2>5. Fresh' => Fresh
    BY <1>1, <2>3, <2>4, Zenon DEF Fresh, SameSpec
  <2> QED BY <1>1, <2>3, <2>4, <2>5, PlainReady, Zenon
<1> QED BY <1>2, <1>3, Zenon

LEMMA ApplyChartReady == IInv /\ RInv /\ Calm /\ ApplyChart => RInv'
<1> SUFFICES ASSUME IInv, RInv, Calm, ApplyChart PROVE RInv'
  OBVIOUS
<1>1. pc = "apply" /\ Busy /\ Fresh /\ UNCHANGED <<objects, base, store>> /\ obj \in HelmRelease
  BY Zenon DEF ApplyChart, Busy, Fresh, IInv, ObjectTypes
<1>2. CASE obj.source \in Denied
  <2>1. pc' = "end" /\ obj' = obj /\ result' = "error"
    BY <1>2, Zenon DEF ApplyChart, Return
  <2> QED BY <1>1, <2>1, PlainReady, Zenon DEF SameSpec
<1>3. CASE obj.source \notin Denied
  <2>1. obj' = [obj EXCEPT !.chart = obj.source] /\ pc' = "mark"
    BY <1>3, Zenon DEF ApplyChart, Goto
  <2>2. obj.source \in Templates
    BY <1>1, Zenon DEF IInv, Placed
  <2>3. /\ obj' \in HelmRelease /\ SameSpec(obj', obj) /\ obj'.ready = obj.ready
        /\ obj'.observed = obj.observed /\ Record(obj') = Record(obj)
    BY <1>1, <2>1, <2>2, ChartFields DEF Record
  <2> QED BY <1>1, <2>1, <2>3, PlainReady, Zenon
<1> QED BY <1>2, <1>3, Zenon

\* The release loop finds the release in sync only where the record says so,
\* and announces an action only when nothing is Ready.
LEMMA PrerequisitesReady == IInv /\ RInv /\ Calm /\ Prerequisites => RInv'
<1> SUFFICES ASSUME IInv, RInv, Calm, Prerequisites PROVE RInv'
  OBVIOUS
<1>1. /\ pc = "prerequisites" /\ Busy /\ Fresh /\ Early /\ UNCHANGED <<objects, base, store>>
      /\ obj \in HelmRelease /\ ~obj.deleting /\ Running /\ Patching
  BY Zenon DEF Prerequisites, Busy, Fresh, Early, IInv, ObjectTypes, Placed, Running, Patching
<1>2. /\ SameRecord(obj) /\ Record(base) = Record(obj) /\ Whole(obj) /\ AllKnown /\ Underway
      /\ api.exists => Record(api) = Record(base)
  BY <1>1, Zenon DEF RInv, RecordSynced
<1>3. CASE obj' = MarkReady(obj, "False") /\ pc' = "end"
  <2>1. /\ obj' \in HelmRelease /\ SameSpec(obj', obj) /\ SameStatus(obj', obj)
        /\ obj'.ready = <<"False", obj.gen>>
    BY <1>1, <1>3, MarkReadyFields, Zenon
  <2>2. obj'.ready[2] = obj'.gen /\ ~Ready(obj') /\ obj'.gen = obj.gen
    BY <2>1 DEF Ready, SameSpec
  <2> QED BY <1>1, <1>3, <2>1, <2>2, PlainReady, Zenon DEF SameStatus, Record
<1>4. CASE TargetChanged(obj) /\ obj' = obj /\ pc' = "uninstall"
  BY <1>1, <1>4, PlainReady, Zenon DEF SameSpec
<1>5. CASE ~TargetChanged(obj) /\ DetermineState([obj EXCEPT !.storageNs = obj.target[1]])
  <2> DEFINE o == [obj EXCEPT !.storageNs = obj.target[1]]
  <2>1. obj.target \in Targets
    BY <1>1, Zenon DEF HelmRelease
  <2>2. /\ o \in HelmRelease /\ SameSpec(o, obj) /\ o.ready = obj.ready
        /\ o.observed = obj.observed /\ o.history = obj.history
        /\ o.storageNs = obj.target[1]
    BY <1>1, <2>1, TargetPair, StorageFields
  <2> HIDE DEF o
  <2>3. obj.history = NoHistory \/ (obj.storageNs = obj.target[1])
    BY <1>2, <1>5, <2>1, TargetPair, Zenon DEF TargetChanged, Whole
  <2>4. InSync(o) <=> Fits(store, obj)
    BY <2>2, Zenon DEF InSync, Fits, SameSpec
  <2>5. CASE InSync(o)
    <3>1. obj' = MarkReady(o, "True") /\ pc' = "end"
      BY <1>5, <2>5, Zenon DEF DetermineState, Return, o
    <3>2. /\ obj' \in HelmRelease /\ SameSpec(obj', o) /\ SameStatus(obj', o)
          /\ obj'.ready = <<"True", o.gen>>
      BY <2>2, <3>1, MarkReadyFields, Zenon
    <3>3. obj.history # NoHistory
      BY <2>1, <2>4, <2>5, TargetPair DEF Fits, NoHistory
    <3>4. Record(obj') = Record(obj) /\ SameSpec(obj', obj)
      BY <2>2, <2>3, <3>2, <3>3, Zenon DEF Record, SameSpec, SameStatus
    <3>5. Good(store, obj') /\ obj'.ready[2] = obj'.gen /\ obj'.gen = obj.gen
      BY <1>1, <2>2, <2>4, <2>5, <3>2, <3>4 DEF Good, Fits, SameSpec, SameStatus
    <3> QED BY <1>1, <3>1, <2>2, <3>2, <3>4, <3>5, PlainReady, Zenon DEF SameStatus
  <2>6. CASE ~InSync(o)
    <3>1. obj' = MarkReady(o, "Unknown") /\ pc' = "announced"
      BY <1>5, <2>6, Zenon DEF DetermineState, Goto, o
    <3>2. /\ obj' \in HelmRelease /\ SameSpec(obj', o) /\ SameStatus(obj', o)
          /\ obj'.ready = <<"Unknown", o.gen>>
      BY <2>2, <3>1, MarkReadyFields, Zenon
    <3>3. /\ SameSpec(obj', obj) /\ obj'.history = obj.history
          /\ obj'.storageNs = obj.target[1] /\ obj'.observed = obj.observed
      BY <2>2, <3>2, Zenon DEF SameSpec, SameStatus
    <3>4. ~Fits(store, obj') /\ ~Ready(obj') /\ obj'.ready[2] = obj.gen
      BY <2>2, <2>4, <2>6, <3>2, <3>3 DEF Fits, Ready, SameSpec
    <3>5. ASSUME NEW i \in Versions, Version(i).exists, Ready(Version(i)) PROVE FALSE
      <4>1. /\ Version(i) \in HelmRelease /\ Known(Version(i), obj, api.ready[2], store)
            /\ Record(Version(i)) = Record(obj)
        BY <1>2, <3>5, VersionTypes, Zenon DEF AllKnown, SameRecord, IInv
      <4>2. SameSpec(obj, Version(i)) /\ Good(store, Version(i))
        BY <4>1, <3>5, <1>1, Numbers DEF Known, NotNewer, Ready
      <4> QED BY <4>1, <4>2, <2>4, <2>6, Zenon DEF Good, Fits, SameSpec, Record
    <3>6. \A i \in Versions : Version(i).exists =>
            Version(i).history = NoHistory \/ Version(i).storageNs = obj'.storageNs
      BY <1>2, <2>3, <3>3, Zenon DEF SameRecord, Record
    <3>7. /\ Versions' = Versions /\ \A i \in Versions : Version(i)' = Version(i)
          /\ api' = api /\ base' = base
      BY <1>1, SameVersions, Zenon DEF objects
    <3>8. RecordSynced'
      BY <1>2, <3>1, <3>6, <3>7, Zenon DEF RecordSynced, Running, Fresh, Closing
    <3> QED BY <1>1, <3>1, <3>2, <3>3, <3>4, <3>5, <3>8, LocalReady, Zenon
  <2> QED BY <2>5, <2>6, Zenon
<1> QED BY <1>3, <1>4, <1>5, Zenon DEF Prerequisites, Return, Goto

\* What is recorded when the history was the same in all versions and the
\* object has another one, or none.
LEMMA ClearedReady ==
  ASSUME IInv, RInv, Calm, pc \in {"uninstall", "uninstalling"}, Cleared(obj),
         UNCHANGED <<objects, base>>
  PROVE  RInv'
<1>1. /\ Busy /\ Fresh /\ Early /\ Patching /\ obj \in HelmRelease /\ spent.timeouts = 0
  BY Zenon DEF Busy, Fresh, Early, Patching, IInv, ObjectTypes, Calm
<1>2. /\ SameHistory /\ obj.history = api.history
      /\ SameRecord(obj) /\ Record(base) = Record(obj) /\ Whole(obj)
      /\ api.exists => Record(api) = Record(base)
  BY <1>1, Zenon DEF RInv, RecordSynced, IInv, Synced
<1>3. /\ obj' \in HelmRelease /\ SameSpec(obj', obj) /\ obj'.observed = obj.observed
      /\ obj'.history = NoHistory /\ obj'.storageNs = "none"
      /\ pc' \in {"chart", "end"} /\ (pc' = "chart" => obj'.deleting)
      /\ obj'.ready = IF obj.history = NoHistory THEN obj.ready ELSE <<"False", obj.gen>>
      /\ pc' = "end" => obj'.deleting \/ result' = "requeue"
  BY <1>1, ClearedFields, Zenon DEF SameSpec
<1>4. /\ \A i \in Versions : ~(Version(i).exists /\ Ready(Version(i)))
      /\ ~Ready(obj)
  BY NoneReady, Zenon
<1>5. ~Ready(obj') /\ (obj'.ready = obj.ready \/ obj'.ready[2] = obj.gen)
  BY <1>3, <1>4 DEF Ready, SameSpec
<1>6. /\ Versions' = Versions /\ \A i \in Versions : Version(i)' = Version(i)
      /\ api' = api /\ base' = base
  BY SameVersions, Zenon DEF objects
<1>7. RecordSettles' /\ Whole(obj')
  <2>1. obj.history = NoHistory => obj.storageNs = "none"
    BY <1>2, Zenon DEF Whole
  <2> QED BY <2>1, <1>2, <1>3, <1>6
          DEF RecordSettles, Whole, SameRecord, SameHistory, Record
<1>8. RecordSynced'
  BY <1>1, <1>2, <1>3, <1>6, <1>7, Zenon DEF RecordSynced, Running, Fresh
<1> QED BY <1>1, <1>3, <1>4, <1>5, <1>8, LocalReady, Zenon

LEMMA UninstallReady ==
  IInv /\ RInv /\ Calm /\ (NothingToUninstall \/ BeginUninstall \/ EndUninstall) => RInv'
<1> SUFFICES ASSUME IInv, RInv, Calm, NothingToUninstall \/ BeginUninstall \/ EndUninstall
             PROVE  RInv'
  OBVIOUS
<1>1. /\ pc \in {"uninstall", "uninstalling"} /\ UNCHANGED <<objects, base>>
      /\ Busy /\ Fresh /\ Patching /\ obj \in HelmRelease
  BY Zenon DEF NothingToUninstall, BeginUninstall, EndUninstall, Busy, Fresh, Patching, IInv,
         ObjectTypes
<1>2. CASE Cleared(obj)
  BY <1>1, <1>2, ClearedReady, Zenon
<1>3. CASE \/ obj' = obj /\ pc' = "uninstalling"
           \/ obj' = MarkReady(obj, "False") /\ Return("error")
  <2>1. /\ SameRecord(obj) /\ Record(base) = Record(obj) /\ Whole(obj) /\ Underway
        /\ api.exists => Record(api) = Record(base)
    BY <1>1, Zenon DEF RInv, RecordSynced
  <2>2. /\ obj' \in HelmRelease /\ SameSpec(obj', obj) /\ SameStatus(obj', obj)
        /\ obj'.ready = obj.ready \/ obj'.ready = <<"False", obj.gen>>
        /\ \/ pc' = "uninstalling" /\ obj' = obj
           \/ pc' = "end" /\ result' = "error"
    <3>1. CASE obj' = obj /\ pc' = "uninstalling"
      BY <3>1, <1>1, Zenon DEF SameSpec, SameStatus
    <3>2. CASE obj' = MarkReady(obj, "False") /\ Return("error")
      BY <3>2, <1>1, MarkReadyFields, Zenon DEF Return
    <3> QED BY <1>3, <3>1, <3>2, Zenon
  <2>3. /\ \A i \in Versions : ~(Version(i).exists /\ Ready(Version(i)))
        /\ ~Ready(obj)
    BY <1>1, NoneReady, Zenon
  <2>4. ~Ready(obj') /\ (obj'.ready = obj.ready \/ obj'.ready[2] = obj.gen)
    BY <2>2, <2>3 DEF Ready, SameSpec
  <2>5. /\ Versions' = Versions /\ \A i \in Versions : Version(i)' = Version(i)
        /\ api' = api /\ base' = base /\ Record(obj') = Record(obj)
        /\ obj'.history = obj.history /\ obj'.storageNs = obj.storageNs
    BY <1>1, <2>2, SameVersions, Zenon DEF objects, SameStatus, Record
  <2>6. SameRecord(obj)' /\ RecordSettles' /\ Whole(obj')
    BY <2>1, <2>5, Zenon DEF SameRecord, RecordSettles, Whole
  <2>7. RecordSynced'
    BY <1>1, <2>1, <2>2, <2>5, <2>6, Zenon DEF RecordSynced, Running, Fresh
  <2>8. obj.deleting \/ TargetChanged(obj)
    BY <1>1, <2>1, Zenon DEF Underway
  <2>9. obj'.observed = obj.observed
    BY <2>2, Zenon DEF SameStatus
  <2> QED BY <1>1, <2>2, <2>3, <2>4, <2>7, <2>8, <2>9, LocalReady
<1>4. CASE BeginUninstall
  BY <1>3, <1>4, Zenon DEF BeginUninstall, Goto
<1>5. CASE EndUninstall
  BY <1>2, <1>3, <1>5, Zenon DEF EndUninstall
<1> QED BY <1>2, <1>4, <1>5, Zenon DEF NothingToUninstall

\* A release that is deployed makes the object Ready, and is the one it records.
LEMMA ReleaseReady == IInv /\ RInv /\ Calm /\ Release => RInv'
<1> SUFFICES ASSUME IInv, RInv, Calm, Release PROVE RInv'
  OBVIOUS
<1>1. /\ pc = "release" /\ Busy /\ Early /\ Patching /\ UNCHANGED <<objects, base>>
      /\ obj \in HelmRelease /\ ~obj.deleting /\ obj.storageNs = obj.target[1]
      /\ made \in Nat /\ store \in [Targets -> ReleaseStored] /\ spent.timeouts = 0
  BY Zenon DEF Release, Busy, Early, Patching, Releasing, IInv, ObjectTypes, OtherTypes, Placed, Calm
<1> DEFINE t == obj.target
           h == [name |-> t[2], ver |-> made + 1]
<1>2. PICK status \in {"deployed", "failed"} :
        /\ store' = [store EXCEPT ![t] = [status |-> status, ver |-> made + 1,
                                          source |-> obj.source]]
        /\ obj' = [MarkReady(obj, IF status = "failed" THEN "False" ELSE "True")
                    EXCEPT !.history = h]
        /\ IF status = "failed" THEN Return("requeue") ELSE Goto("progress")
  BY Zenon DEF Release
<1>3. /\ t \in Targets /\ t[1] # "none" /\ t[2] # "none"
      /\ h \in Histories /\ h # NoHistory
  <2>1. t \in Targets
    BY <1>1, Zenon DEF HelmRelease
  <2>2. t[2] \in Names /\ t[1] # "none" /\ t[2] # "none"
    BY <2>1, TargetPair, Zenon
  <2> QED BY <1>1, <2>1, <2>2 DEF Histories, NoHistory
<1>4. /\ obj' \in HelmRelease /\ SameSpec(obj', obj) /\ obj'.observed = obj.observed
      /\ obj'.history = h /\ obj'.storageNs = obj.storageNs
      /\ obj'.ready = <<IF status = "failed" THEN "False" ELSE "True", obj.gen>>
  <2> DEFINE s == IF status = "failed" THEN "False" ELSE "True"
             m == MarkReady(obj, s)
  <2>1. /\ m \in HelmRelease /\ SameSpec(m, obj) /\ SameStatus(m, obj)
        /\ m.ready = <<s, obj.gen>>
    BY <1>1, MarkReadyFields, Zenon
  <2> HIDE DEF m, h
  <2>2. obj' = [m EXCEPT !.history = h]
    BY <1>2, Zenon DEF m
  <2> QED BY <1>3, <2>1, <2>2, HistoryFields DEF SameSpec, SameStatus
<1>5. Ready(obj') => Good(store', obj')
  <2> SUFFICES ASSUME Ready(obj') PROVE Good(store', obj')
    OBVIOUS
  <2>1. status = "deployed"
    BY <1>4 DEF Ready
  <2>2. store'[t] = [status |-> "deployed", ver |-> made + 1, source |-> obj.source]
    BY <1>1, <1>2, <1>3, <2>1, Zenon
  <2>3. obj'.target = t /\ obj'.source = obj.source /\ ~obj'.deleting
    BY <1>1, <1>4, Zenon DEF SameSpec
  <2> QED BY <1>1, <1>4, <2>2, <2>3 DEF Good, Fits
<1>6. \A i \in Versions : ~(Version(i).exists /\ Ready(Version(i)))
  BY <1>1, NoneReady, Zenon
<1>7. /\ Versions' = Versions /\ \A i \in Versions : Version(i)' = Version(i)
      /\ api' = api /\ base' = base
  BY <1>1, SameVersions, Zenon DEF objects
<1>8. RecordSynced'
  <2>1. /\ SameHistory /\ (api.exists => Record(api) = Record(base))
        /\ \A i \in Versions : Version(i).exists =>
             Version(i).history = NoHistory \/ Version(i).storageNs = obj.storageNs
    BY <1>1, Zenon DEF RInv, RecordSynced, IInv, Synced
  <2>2. RecordSettles' /\ Whole(obj')
    <3> HIDE DEF h
    <3> QED BY <1>1, <1>3, <1>4, <1>7, <2>1 DEF RecordSettles, Whole, SameHistory, Record
  <2>3. pc' \in {"end", "progress"}
    BY <1>2, Zenon DEF Return, Goto
  <2> QED BY <1>1, <1>7, <2>1, <2>2, <2>3 DEF RecordSynced, Running, Fresh
<1>9. /\ obj'.ready[2] = obj'.gen /\ obj'.gen = obj.gen
      /\ pc' = "progress" \/ (pc' = "end" /\ result' = "requeue")
  BY <1>2, <1>4 DEF Return, Goto, SameSpec
<1> QED BY <1>1, <1>4, <1>5, <1>6, <1>8, <1>9, LocalReady

(* -------------------- the beginning of a reconcile --------------------- *)

\* A reconcile starts with what the cache knows, which is the record in all
\* versions.
LEMMA GetReady ==
  ASSUME IInv, RInv, Calm, Get, obj' \in HelmRelease, SameSpec(obj', cache),
         Record(obj') = Record(cache),
         \/ obj'.ready = cache.ready /\ obj'.observed = cache.observed
         \/ obj'.ready = <<"False", cache.gen>> /\ obj'.observed \in {cache.observed, cache.gen},
         pc' \in {"chart", "apply", "mark", "uninstall", "end"},
         pc' = "uninstall" => cache.deleting,
         pc' = "end" /\ result' \in {"interval", "stop", "terminal"} =>
           obj'.suspend \/ obj'.deleting \/ obj'.ready[2] = obj'.gen
  PROVE  RInv'
<1>1. /\ pc = "idle" /\ ~Running /\ obj = cache /\ cache.exists /\ base' = cache
      /\ cache \in HelmRelease /\ store' = store
      /\ Versions' = Versions /\ \A i \in Versions : Version(i)' = Version(i)
      /\ api' = api /\ 0 \in Versions /\ Version(0) = cache
      /\ Len(pending) \in Versions /\ Version(Len(pending)) = api
  BY SameVersions, VersionTypes, Zenon DEF Get, objects, Running, IInv, Guarded, ObjectTypes, Watched
<1>2. /\ Ordered /\ AllKnown /\ SameRecord(cache)
      /\ \A i \in Versions : Version(i).exists => Whole(Version(i))
  BY <1>1, Zenon DEF RInv, RecordSynced, SameRecord
<1>3. /\ obj'.gen = cache.gen /\ cache.gen \in Nat /\ cache.ready[2] \in Nat
      /\ cache.observed \in Nat
  BY <1>1, Numbers, Zenon DEF SameSpec
<1>4. Known(cache, cache, api.ready[2], store)
  BY <1>1, <1>2, Zenon DEF AllKnown
<1>5. /\ obj'.ready = cache.ready \/ (obj'.ready[2] = cache.gen /\ ~Ready(obj'))
      /\ obj'.observed \in {cache.observed, cache.gen}
      /\ obj'.observed = cache.observed \/ obj'.ready[2] = cache.gen
  BY DEF Ready
<1>6. Known(obj', obj', obj'.gen, store)
  <2>1. NotNewer(obj', obj') /\ obj'.ready[2] <= obj'.gen /\ obj'.observed <= obj'.gen
    BY <1>3, <1>4, <1>5, Zenon DEF NotNewer, SameSpec, Known
  <2>2. Judged(obj')
    BY <1>3, <1>4, <1>5, Zenon DEF Judged, Known, SameSpec
  <2>3. Ready(obj') => Good(store, obj')
    BY <1>1, <1>3, <1>4, <1>5 DEF Known, Ready, Good, Fits, SameSpec, Record
  <2> QED BY <2>1, <2>2, <2>3, Zenon DEF Known
<1>7. AllKnown'
  <2> SUFFICES ASSUME NEW i \in Versions
               PROVE  Known(Version(i), obj', api.ready[2], store)
    BY <1>1, Zenon DEF AllKnown
  <2>1. Known(Version(i), cache, api.ready[2], store)
    BY <1>1, <1>2, Zenon DEF AllKnown
  <2> QED BY <2>1, <1>3, Zenon DEF Known, NotNewer, SameSpec
<1>8. ReadyRecord' /\ SameRecord(obj)'
  BY <1>1, <1>2, Zenon DEF ReadyRecord, SameRecord
<1>9. /\ base'.ready[2] <= api'.ready[2]
      /\ obj'.ready = base'.ready \/ obj'.ready[2] = obj'.gen
  BY <1>1, <1>3, <1>4, <1>5, Zenon DEF Known
<1>10. Underway'
  <2>1. pc' = "uninstall" => obj'.deleting
    BY Zenon DEF SameSpec
  <2> QED BY <1>1, <1>6, <1>8, <1>9, <2>1, Zenon DEF Underway
<1>11. RecordSynced'
  <2>1. Whole(obj') /\ RecordSettles'
    BY <1>1, <1>2, <1>8, Zenon DEF Whole, Record, RecordSettles, SameRecord
  <2>2. api.exists => Record(api) = Record(cache)
    BY <1>1, <1>2, Zenon DEF SameRecord
  <2> QED BY <1>1, <1>8, <2>1, <2>2, Zenon DEF RecordSynced, Running
<1>12. Ordered'
  BY <1>1, <1>2, Zenon DEF Ordered
<1> QED BY <1>7, <1>10, <1>11, <1>12, Zenon DEF RInv

LEMMA GetsReady ==
  /\ IInv /\ RInv /\ Calm
  /\ \/ DeleteSuspended \/ DeleteRelease \/ AddFinalizer \/ SkipSuspended \/ RejectExprs
     \/ Proceed
  => RInv'
<1> SUFFICES ASSUME IInv, RInv, Calm,
                    \/ DeleteSuspended \/ DeleteRelease \/ AddFinalizer \/ SkipSuspended
                    \/ RejectExprs \/ Proceed
             PROVE  RInv'
  OBVIOUS
<1>1. Get /\ cache \in HelmRelease
  BY Zenon DEF DeleteSuspended, DeleteRelease, AddFinalizer, SkipSuspended, RejectExprs, Proceed,
         IInv, ObjectTypes
<1>2. CASE DeleteSuspended
  <2>1. /\ obj' \in HelmRelease /\ SameRest(obj', cache) /\ pc' = "end" /\ cache.deleting
    BY <1>1, <1>2, FinalizerFields, Zenon DEF DeleteSuspended, Return
  <2> QED BY <1>1, <2>1, GetReady, Zenon DEF SameRest, SameStatus, SameSpec, Record
<1>3. CASE AddFinalizer
  <2>1. /\ obj' \in HelmRelease /\ SameRest(obj', cache) /\ pc' = "end" /\ result' = "requeue"
    BY <1>1, <1>3, FinalizerFields, Zenon DEF AddFinalizer, Return
  <2> QED BY <1>1, <2>1, GetReady, Zenon DEF SameRest, SameStatus, Record
<1>4. CASE SkipSuspended
  <2>1. obj' = cache /\ pc' = "end" /\ cache.suspend
    BY <1>4, Zenon DEF SkipSuspended, Return
  <2> QED BY <1>1, <2>1, GetReady, Zenon DEF SameSpec
<1>5. CASE RejectExprs
  <2> DEFINE m == MarkReady(cache, "False")
  <2>1. obj' = [m EXCEPT !.observed = cache.gen] /\ pc' = "end" /\ cache.gen \in Nat
    BY <1>1, <1>5, Numbers, Zenon DEF RejectExprs, Return
  <2>2. /\ m \in HelmRelease /\ SameSpec(m, cache) /\ SameStatus(m, cache)
        /\ m.ready = <<"False", cache.gen>>
    BY <1>1, MarkReadyFields, Zenon
  <2> HIDE DEF m
  <2>3. /\ obj' \in HelmRelease /\ SameSpec(obj', cache) /\ Record(obj') = Record(cache)
        /\ obj'.ready = <<"False", cache.gen>> /\ obj'.observed = cache.gen
        /\ obj'.ready[2] = obj'.gen
    BY <2>1, <2>2, ObservedFields DEF SameSpec, SameStatus, Record
  <2> QED BY <1>1, <2>1, <2>3, GetReady, Zenon
<1>6. CASE ReconcileChart(cache)
  <2>1. /\ obj' \in HelmRelease /\ SameRest(obj', cache)
        /\ pc' \in {"chart", "end", "apply", "mark"} /\ (pc' = "end" => cache.deleting)
    BY <1>1, <1>6, ReconcileChartFields, Zenon
  <2> QED BY <1>1, <2>1, GetReady, Zenon DEF SameRest, SameStatus, SameSpec, Record
<1>7. CASE obj' = MarkReady(cache, "False") /\ Return("error")
  <2>1. /\ obj' \in HelmRelease /\ SameSpec(obj', cache) /\ SameStatus(obj', cache)
        /\ obj'.ready = <<"False", cache.gen>> /\ pc' = "end" /\ result' = "error"
    BY <1>1, <1>7, MarkReadyFields, Zenon DEF Return
  <2> QED BY <1>1, <2>1, GetReady, Zenon DEF SameStatus, Record
<1>8. CASE obj' = cache /\ pc' = "uninstall" /\ cache.deleting
  BY <1>1, <1>8, GetReady, Zenon DEF SameSpec
<1>9. CASE DeleteRelease
  BY <1>6, <1>7, <1>8, <1>9, Zenon DEF DeleteRelease, Goto
<1>10. CASE Proceed
  BY <1>6, <1>10, Zenon DEF Proceed
<1> QED BY <1>2, <1>3, <1>4, <1>5, <1>9, <1>10, Zenon

(* ------------------------------- writes -------------------------------- *)

\* A complete patch writes the record of the reconcile, and no condition that
\* the object does not deserve.
LEMMA PatchedReady ==
  ASSUME IInv, RInv, Calm, Patching, api.exists,
         NEW o \in HelmRelease, SameSpec(o, obj), Record(o) = Record(obj),
         o.ready = obj.ready, Judged(o), o.observed <= o.gen,
         NEW new, Patches(api, base, o, Calls, new)
  PROVE  /\ new \in HelmRelease /\ SameSpec(new, api)
         /\ new.exists => Record(new) = Record(o)
         /\ Known(new, o, new.ready[2], store)
         /\ api.ready[2] <= new.ready[2] /\ o.ready[2] <= new.ready[2]
<1>1. /\ new \in HelmRelease /\ SameSpec(new, api) /\ (new.exists => api.exists)
      /\ new.ready = Merge(api, base, o, "ready")
      /\ IF new.exists
         THEN /\ new.observed = Merge(api, base, o, "observed")
              /\ new.history = Merge(api, base, o, "history")
              /\ new.storageNs = Merge(api, base, o, "storageNs")
         ELSE SameStatus(new, api)
  BY Zenon DEF Patches, Calls
<1>2. /\ api \in HelmRelease /\ obj \in HelmRelease /\ obj.exists /\ Running
      /\ Len(pending) \in Versions /\ Version(Len(pending)) = api
  BY VersionTypes, Zenon DEF IInv, ObjectTypes, Watched, Guarded, Running, Patching
<1>3. /\ Known(api, obj, api.ready[2], store) /\ Known(obj, obj, obj.gen, store)
      /\ Ready(api) => Record(api) = Record(obj)
      /\ base.ready[2] <= api.ready[2]
      /\ obj.ready = base.ready \/ obj.ready[2] = obj.gen
      /\ Record(api) = Record(base)
  BY <1>2, Zenon DEF RInv, AllKnown, Underway, ReadyRecord, RecordSynced
<1>4. /\ api.gen \in Nat /\ api.ready[2] \in Nat /\ api.observed \in Nat
      /\ obj.gen \in Nat /\ obj.ready[2] \in Nat /\ o.observed \in Nat
      /\ new.gen = api.gen /\ o.gen = obj.gen
  BY <1>1, <1>2, Numbers, Zenon DEF SameSpec
<1>5. new.exists => Record(new) = Record(o)
  BY <1>1, <1>3, Zenon DEF Merge, Record
<1>6. \/ new.ready = obj.ready /\ obj.ready[2] = obj.gen
      \/ new.ready = api.ready /\ obj.ready = base.ready
  BY <1>1, <1>3 DEF Merge
<1>7. api.ready[2] <= new.ready[2] /\ o.ready[2] <= new.ready[2] /\ new.ready[2] <= o.gen
  BY <1>3, <1>4, <1>6, Zenon DEF Known
<1>8. new.observed \in {o.observed, api.observed} /\ new.observed <= o.gen
  BY <1>1, <1>3, <1>4, Zenon DEF Merge, SameStatus, Known
<1>9. NotNewer(o, new) /\ (obj.gen = api.gen => SameSpec(new, o) /\ SameSpec(api, o))
  BY <1>1, <1>3, <1>4, Zenon DEF Known, NotNewer, SameSpec
<1>10. Judged(new)
  <2> SUFFICES ASSUME new.observed = new.gen, ~new.suspend, ~new.deleting
               PROVE  new.ready[2] = new.gen
    BY Zenon DEF Judged
  <2>1. obj.gen = api.gen
    BY <1>3, <1>4, <1>8 DEF Known, NotNewer
  <2>2. o.observed = o.gen \/ api.observed = api.gen
    BY <2>1, <1>4, <1>8, Zenon
  <2>3. o.ready[2] = o.gen \/ api.ready[2] = api.gen
    BY <2>1, <2>2, <1>1, <1>3, <1>9, Zenon DEF Judged, Known, SameSpec
  <2>4. new.ready[2] \in Nat /\ o.ready[2] \in Nat
    BY <1>1, Numbers, Zenon
  <2> QED BY <2>1, <2>3, <2>4, <1>4, <1>7
<1>11. new.exists /\ Ready(new) => Good(store, new)
  <2> SUFFICES ASSUME new.exists, Ready(new) PROVE Good(store, new)
    OBVIOUS
  <2>1. obj.gen = api.gen /\ new.ready[2] = new.gen
    BY <1>3, <1>4, <1>7 DEF Known, NotNewer, Ready
  <2>2. CASE new.ready = obj.ready
    <3>1. Good(store, obj)
      BY <2>1, <2>2, <1>2, <1>3, <1>4, Zenon DEF Known, Ready
    <3> QED BY <3>1, <2>1, <1>5, <1>9 DEF Good, Fits, SameSpec, Record
  <2>3. CASE new.ready = api.ready
    <3>1. Good(store, api) /\ Record(new) = Record(api)
      BY <2>1, <2>3, <1>3, <1>4, <1>5, Zenon DEF Known, Ready
    <3> QED BY <3>1, <1>1, Zenon DEF Good, Fits, SameSpec, Record
  <2> QED BY <1>6, <2>2, <2>3, Zenon
<1>12. new.ready[2] <= new.ready[2]
  BY <1>1, Numbers
<1> QED BY <1>1, <1>5, <1>7, <1>8, <1>9, <1>10, <1>11, <1>12, Zenon DEF Known

\* Another version joins the known ones.
LEMMA WriteKnown ==
  ASSUME IInv, RInv, Calm, NEW new \in HelmRelease, Write(new), store' = store,
         obj' \in HelmRelease, SameSpec(obj', obj), NotNewer(api, new),
         Known(new, obj', new.ready[2], store), api.ready[2] <= new.ready[2]
  PROVE  Ordered' /\ AllKnown'
<1>1. /\ Ordered /\ AllKnown /\ api' = new
      /\ \A i \in Versions' : Version(i)' = IF i \in Versions THEN Version(i) ELSE new
      /\ \A i \in Versions' \ Versions : i = Len(pending')
      /\ Len(pending) \in Versions /\ Version(Len(pending)) = api
      /\ \A i \in Versions : i <= Len(pending) /\ Version(i) \in HelmRelease
  BY WriteAdds, VersionTypes, Zenon DEF RInv, IInv, Watched
<1>2. /\ Len(pending') \in {Len(pending), Len(pending) + 1}
      /\ Versions' = 0..Len(pending') /\ Len(pending) \in Nat
  BY DEF Write, IInv, ObjectTypes, Versions
<1>3. ASSUME NEW i \in Versions PROVE NotNewer(Version(i), new)
  <2>1. NotNewer(Version(i), api)
    BY <1>1, Zenon DEF Ordered
  <2>2. Version(i).gen \in Nat /\ api.gen \in Nat /\ new.gen \in Nat
    BY <1>1, Numbers, Zenon
  <2> QED BY <2>1, <2>2 DEF NotNewer, SameSpec
<1>4. Ordered'
  <2> SUFFICES ASSUME NEW i \in Versions', NEW j \in Versions', i <= j
               PROVE  NotNewer(Version(i)', Version(j)')
    BY Zenon DEF Ordered
  <2>1. CASE i \in Versions /\ j \in Versions
    BY <2>1, <1>1, Zenon DEF Ordered
  <2>2. CASE i \in Versions /\ j \notin Versions
    BY <2>2, <1>1, <1>3, Zenon
  <2>3. CASE i \notin Versions
    <3>1. j \notin Versions
      BY <2>3, <1>1, <1>2 DEF Versions
    <3>2. NotNewer(new, new)
      BY Numbers DEF NotNewer, SameSpec
    <3> QED BY <3>1, <3>2, <2>3, <1>1, Zenon
  <2> QED BY <2>1, <2>2, <2>3, Zenon
<1>5. AllKnown'
  <2> SUFFICES ASSUME NEW i \in Versions
               PROVE  Known(Version(i), obj', new.ready[2], store)
    BY <1>1, Zenon DEF AllKnown
  <2>1. Known(Version(i), obj, api.ready[2], store)
    BY <1>1, Zenon DEF AllKnown
  <2>2. /\ Version(i).ready[2] \in Nat /\ api.ready[2] \in Nat /\ new.ready[2] \in Nat
    BY <1>1, Numbers, Zenon
  <2> QED BY <2>1, <2>2 DEF Known, NotNewer, SameSpec
<1> QED BY <1>4, <1>5, Zenon

\* What the records of the versions have in common, once another one has it.
LEMMA WriteRecords ==
  ASSUME IInv, NEW new \in HelmRelease, Write(new), Record(obj') = Record(obj),
         new.exists => Record(new) = Record(obj)
  PROVE  /\ SameRecord(obj) => SameRecord(obj)'
         /\ RecordSettles => RecordSettles'
         /\ ReadyRecord => ReadyRecord'
<1>1. /\ \A i \in Versions' : Version(i)' = IF i \in Versions THEN Version(i) ELSE new
      /\ \A i \in Versions' \ Versions : i = Len(pending')
      /\ Versions' \subseteq Nat
  BY WriteAdds DEF IInv, Watched, ObjectTypes, Versions
<1>2. SameRecord(obj) => SameRecord(obj)'
  BY <1>1, Zenon DEF SameRecord
<1>3. RecordSettles => RecordSettles'
  <2> SUFFICES ASSUME RecordSettles, NEW i \in Versions', NEW j \in Versions', i <= j,
                      Version(i)'.history = obj'.history, Version(j)'.exists
               PROVE  Record(Version(j)') = Record(obj')
    BY Zenon DEF RecordSettles
  <2>1. CASE j \in Versions /\ i \in Versions
    BY <2>1, <1>1, Zenon DEF RecordSettles, Record
  <2>2. CASE j \notin Versions
    BY <2>2, <1>1, Zenon
  <2>3. CASE i \notin Versions /\ j \in Versions
    BY <2>3, <1>1 DEF Write, IInv, ObjectTypes, Versions
  <2> QED BY <2>1, <2>2, <2>3, Zenon
<1>4. ReadyRecord => ReadyRecord'
  BY <1>1, Zenon DEF ReadyRecord
<1> QED BY <1>2, <1>3, <1>4, Zenon

\* The patches of a reconcile, with the object o it goes on with.
LEMMA PatchReady ==
  ASSUME IInv, RInv, Calm, Patching, api.exists,
         NEW o \in HelmRelease, SameSpec(o, obj), Record(o) = Record(obj),
         o.ready = obj.ready, Judged(o), o.observed <= o.gen,
         Write(Patched(api, base, o, Calls)),
         obj' = o, base' = o, store' = store,
         <<pc, pc'>> \in {<<"mark", "prerequisites">>, <<"announced", "release">>,
                          <<"progress", "end">>, <<"end", "sync">>}
  PROVE  RInv'
<1>1. PICK new : new = Patched(api, base, o, Calls)
  OBVIOUS
<1>2. Write(new) /\ Patches(api, base, o, Calls, new)
  BY <1>1, PatchedFields, Zenon DEF IInv, ObjectTypes
<1>3. /\ new \in HelmRelease /\ SameSpec(new, api)
      /\ new.exists => Record(new) = Record(o)
      /\ Known(new, o, new.ready[2], store)
      /\ api.ready[2] <= new.ready[2] /\ o.ready[2] <= new.ready[2]
  BY <1>2, PatchedReady, Zenon
<1>4. NotNewer(api, new) /\ api' = new
  BY <1>2, <1>3, Numbers DEF NotNewer, SameSpec, Write
<1>5. Ordered' /\ AllKnown'
  BY <1>2, <1>3, <1>4, WriteKnown, Zenon
<1>6. /\ SameRecord(obj) => SameRecord(obj)'
      /\ RecordSettles => RecordSettles'
      /\ ReadyRecord => ReadyRecord'
  BY <1>2, <1>3, WriteRecords, Zenon
<1>7. /\ RecordSynced /\ Underway /\ Running
      /\ pc \in {"mark", "announced", "progress", "end"}
  BY Zenon DEF RInv, Patching, Running
<1>8. RecordSynced'
  <2>1. Whole(o) <=> Whole(obj)
    BY Zenon DEF Whole, Record
  <2>2. Fresh' => SameRecord(obj)' /\ Record(base') = Record(obj') /\ Whole(obj')
    BY <1>6, <1>7, <2>1, Zenon DEF RecordSynced, Fresh
  <2>3. ASSUME pc' = "release", NEW i \in Versions', Version(i)'.exists
        PROVE  Version(i)'.history = NoHistory \/ Version(i)'.storageNs = obj'.storageNs
    <3>1. pc = "announced" /\ Version(i)' = IF i \in Versions THEN Version(i) ELSE new
      BY <1>2, <1>3, <2>3, WriteAdds, Zenon DEF IInv, Watched
    <3> QED BY <3>1, <1>3, <1>7, <2>3, Zenon DEF RecordSynced, Record
  <2>4. Closing' => RecordSettles' /\ Whole(obj')
    BY <1>6, <1>7, <2>1, Zenon DEF RecordSynced, Closing
  <2>5. pc' \notin {"idle", "announced"}
    BY <1>7, Zenon
  <2> QED BY <1>3, <1>4, <2>2, <2>3, <2>4, <2>5, Zenon DEF RecordSynced, Running
<1>9. Known(o, o, o.gen, store)
  <2>1. Known(obj, obj, obj.gen, store) /\ NotNewer(o, o)
    BY <1>7, Numbers DEF Underway, NotNewer, SameSpec
  <2>2. o.exists /\ Ready(o) => Good(store, o)
    <3>1. obj.exists
      BY <1>7, Zenon DEF IInv, Guarded
    <3> QED BY <2>1, <3>1, Zenon DEF Known, Ready, Good, Fits, SameSpec, Record
  <2> QED BY <2>1, <2>2, Zenon DEF Known, SameSpec
<1>10. Underway'
  <2>1. /\ pc' = "release" => ~Fits(store', obj')
        /\ pc' = "end" => obj'.ready[2] = obj'.gen
        /\ pc' \notin {"announced", "uninstall", "uninstalling", "progress"}
    BY <1>7, Zenon DEF Underway, Fits, SameSpec, Record
  <2> QED BY <1>3, <1>4, <1>6, <1>7, <1>9, <2>1, Zenon DEF Underway
<1> QED BY <1>5, <1>8, <1>10, Zenon DEF RInv

LEMMA PatchesReady ==
  IInv /\ RInv /\ Calm /\ (MarkReconciling \/ Announced \/ Progress) => RInv'
<1> SUFFICES ASSUME IInv, RInv, Calm, MarkReconciling \/ Announced \/ Progress PROVE RInv'
  OBVIOUS
<1>1. /\ api.exists /\ Write(Patched(api, base, obj, Calls)) /\ Patching
      /\ obj' = obj /\ base' = obj /\ store' = store
      /\ <<pc, pc'>> \in {<<"mark", "prerequisites">>, <<"announced", "release">>,
                          <<"progress", "end">>}
  BY Zenon DEF MarkReconciling, Announced, Progress, PatchAt, Goto, Return, Patching
<1>2. obj \in HelmRelease /\ SameSpec(obj, obj) /\ Judged(obj) /\ obj.observed <= obj.gen
  BY Zenon DEF IInv, ObjectTypes, RInv, Underway, Known, SameSpec
<1> QED BY <1>1, <1>2, PatchReady, Zenon

LEMMA FinishReady == IInv /\ RInv /\ Calm /\ Finish => RInv'
<1> SUFFICES ASSUME IInv, RInv, Calm, Finish PROVE RInv'
  OBVIOUS
<1>1. PICK o : o = Observed(obj, result)
  OBVIOUS
<1>2. /\ pc = "end" /\ pc' = "sync" /\ obj' = o /\ base' = o /\ store' = store
      /\ IF api.exists THEN Write(Patched(api, base, o, Calls)) ELSE UNCHANGED objects
      /\ Patching /\ Running /\ obj \in HelmRelease /\ obj.gen \in Nat
  BY <1>1, Zenon DEF Finish, FinalPatch, Patching, Running, IInv, ObjectTypes, HelmRelease
<1>3. /\ Known(obj, obj, obj.gen, store) /\ obj.observed \in Nat
      /\ result \in {"interval", "stop", "terminal"} =>
           obj.suspend \/ obj.deleting \/ obj.ready[2] = obj.gen
  BY <1>2, Numbers, Zenon DEF RInv, Underway
<1>4. /\ o \in HelmRelease /\ SameSpec(o, obj) /\ Record(o) = Record(obj)
      /\ o.ready = obj.ready /\ o.gen = obj.gen /\ (o.exists <=> obj.exists)
      /\ \/ o.observed = obj.observed
         \/ o.observed = obj.gen /\ result \in {"interval", "stop", "terminal"}
  <2>1. CASE result \in {"interval", "stop", "terminal"}
    BY <1>1, <1>2, <2>1, ObservedFields DEF Observed, SameSpec
  <2>2. CASE result \notin {"interval", "stop", "terminal"}
    BY <1>1, <1>2, <2>2, Zenon DEF Observed, SameSpec
  <2> QED BY <2>1, <2>2, Zenon
<1>5. Judged(o) /\ o.observed <= o.gen
  BY <1>2, <1>3, <1>4 DEF Known, Judged, SameSpec
<1>6. CASE api.exists
  BY <1>2, <1>4, <1>5, <1>6, PatchReady, Zenon
<1>7. CASE ~api.exists
  <2>1. /\ Ordered /\ AllKnown /\ RecordSynced /\ Underway
        /\ Versions' = Versions /\ \A i \in Versions : Version(i)' = Version(i)
        /\ api' = api
    BY <1>2, <1>7, SameVersions, Zenon DEF RInv, objects
  <2>2. Ordered'
    BY <2>1, Zenon DEF Ordered
  <2>3. AllKnown'
    <3> SUFFICES ASSUME NEW i \in Versions
                 PROVE  Known(Version(i), o, api.ready[2], store)
      BY <1>2, <2>1, Zenon DEF AllKnown
    <3>1. Known(Version(i), obj, api.ready[2], store)
      BY <2>1, Zenon DEF AllKnown
    <3> QED BY <3>1, <1>4, Zenon DEF Known, NotNewer, SameSpec
  <2>4. RecordSynced'
    <3>1. RecordSettles' /\ Whole(obj)'
      BY <1>2, <1>4, <2>1 DEF RecordSynced, RecordSettles, Whole, Record, Closing
    <3> QED BY <3>1, <1>2, <1>7, <2>1, Zenon DEF RecordSynced, Running, Patching, Fresh
  <2>5. Known(o, o, o.gen, store)
    BY <1>3, <1>4, <1>5, <1>2, Zenon DEF Known, NotNewer, SameSpec, Ready, Good, Fits, Record
  <2>6. ReadyRecord'
    BY <1>2, <1>4, <2>1, Zenon DEF Underway, ReadyRecord
  <2>7. Underway'
    BY <1>2, <2>5, <2>6, Zenon DEF Underway, Patching
  <2> QED BY <2>2, <2>3, <2>4, <2>7, Zenon DEF RInv
<1> QED BY <1>6, <1>7, Zenon
=============================================================================
