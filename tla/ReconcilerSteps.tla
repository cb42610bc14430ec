-------------------------- MODULE ReconcilerSteps ---------------------------
(* The inductive invariant of the life of a HelmRelease, what the operators *)
(* of HelmReleaseReconciler do to the fields of an object and to the         *)
(* versions the watch has yet to deliver, and what the steps of a reconcile  *)
(* share; and that every step keeps the invariant.                           *)
EXTENDS HelmReleaseReconciler, TLAPS

(* ------------------------------ the invariant -------------------------- *)

Pcs == {"idle", "chart", "apply", "mark", "prerequisites", "uninstall", "uninstalling",
        "announced", "release", "progress", "end", "sync"}

\* The parts of the targets, and none.
Names == {"none"} \cup {t[1] : t \in Targets} \cup {t[2] : t \in Targets}
Histories == [name : Names, ver : Nat]

HelmRelease ==
  [exists : BOOLEAN, gen : Nat, deleting : BOOLEAN, finalizer : BOOLEAN, suspend : BOOLEAN,
   target : Targets, source : Sources, exprs : BOOLEAN,
   ready : {"Unknown", "True", "False"} \X Nat, observed : Nat,
   history : Histories, storageNs : Names, chart : Templates \cup {"none"}]

Statuses == {"none", "deployed", "failed", "uninstalling", "uninstalled"}
ReleaseStored == [status : Statuses, ver : Nat, source : Sources \cup {"none"}]
Spending == [edits : Nat, failures : Nat, faults : Nat, timeouts : Nat, external : Nat]

ObjectTypes ==
  /\ api \in HelmRelease /\ cache \in HelmRelease /\ pending \in Seq(HelmRelease)
  /\ obj \in HelmRelease /\ base \in HelmRelease

OtherTypes ==
  /\ pc \in Pcs /\ spent \in Spending /\ made \in Nat
  /\ store \in [Targets -> ReleaseStored]
  /\ charts \in [Templates -> {"absent", "pending", "ready"}]
  /\ seen \in [Templates -> {"absent", "pending", "ready"}]
  /\ abandoned \in BOOLEAN /\ lost \subseteq Targets /\ strayed \subseteq Templates
  /\ ~KeepHistory => \A t \in Targets : store[t].status # "uninstalled"

\* The versions of the object that reconciles have yet to see, from the one
\* in the cache to the one in the API server.
Versions == 0..Len(pending)
Version(i) == IF i = 0 THEN cache ELSE pending[i]

\* A deletion is not taken back, a finalizer stays as long as the object, and
\* the object stays while a version without the deletion is under way.
Before(v, w) ==
  /\ v.deleting => w.deleting
  /\ v.finalizer /\ w.exists => w.finalizer
  /\ v.exists /\ v.finalizer /\ ~v.deleting => w.exists

Watched ==
  /\ Version(Len(pending)) = api
  /\ \A i, j \in Versions : i <= j => Before(Version(i), Version(j))
  /\ \A i \in Versions : Version(i).exists /\ Version(i).deleting => Version(i).finalizer
  /\ \A i \in Versions : i > 0 /\ ~Version(i).exists => i = Len(pending)

Running == pc # "idle"
\* The deferred patch has not been made.
Patching == pc \notin {"idle", "sync"}
\* The reconcile has not returned.
Busy == pc \notin {"idle", "end", "sync"}
Releasing == pc \in {"announced", "release", "progress"}

\* The object of the running reconcile, and the finalizer that keeps the
\* object in the API server while there is something to clean up.
Guarded ==
  /\ ~Running => obj = cache /\ base = cache
  /\ Running => /\ obj.exists /\ (cache.exists \/ pending = <<>>)
                /\ obj.deleting <=> base.deleting
                /\ obj.deleting => cache.deleting
  /\ Busy => base.finalizer /\ (obj.deleting \/ (api.exists /\ obj.finalizer))
  /\ Patching =>
       /\ base.finalizer /\ api.exists => api.finalizer
       /\ obj.storageNs # base.storageNs \/ obj.chart # base.chart => base.finalizer
       /\ base.finalizer /\ ~obj.finalizer => obj.deleting
       /\ obj.deleting /\ ~obj.finalizer =>
            abandoned \/ (obj.storageNs = "none" /\ obj.chart = "none")
  /\ api.exists /\ ~api.finalizer => api.storageNs = "none" /\ api.chart = "none"

\* What holds of the object at the steps of the reconcile.
Placed ==
  /\ pc = "chart" => /\ obj.chart # "none"
                     /\ obj.deleting => abandoned \/ obj.storageNs = "none"
  /\ pc = "apply" => obj.chart \in {"none", obj.source} /\ obj.source \in Templates
  /\ pc \in {"apply", "mark", "prerequisites", "announced", "release", "progress"}
       => ~obj.deleting
  /\ Releasing => obj.storageNs = obj.target[1]

\* What the object has and is not excused from.
Owned(t) == Live(t) /\ t \notin lost /\ ~abandoned
OwnedChart(c) == charts[c] # "absent" /\ c \notin strayed /\ ~abandoned

\* The status in the API server is the one the reconcile started from or the
\* one it is about to write, unless the cache had another one.
RecordTracked ==
  \/ lost = Targets
  \/ Record(api) = Record(base)
  \/ pc = "end" /\ Record(api) = Record(obj)
ChartTracked ==
  \/ strayed = Templates
  \/ api.chart = base.chart
  \/ pc = "end" /\ api.chart = obj.chart

\* A release the object owns is recorded in the object of the reconcile, and
\* in the API server when no reconcile runs.
ReleaseTracked ==
  /\ Patching => RecordTracked
  /\ \A t \in Targets : Owned(t) =>
       /\ api.exists /\ api.finalizer
       /\ Patching => Records(obj, t)
       /\ ~Patching => Records(api, t)
       /\ Releasing => t = obj.target

ChartsTracked ==
  /\ Patching => ChartTracked
  /\ \A c \in Templates : OwnedChart(c) =>
       /\ api.exists /\ api.finalizer
       /\ Patching => obj.chart = c
       /\ ~Patching => api.chart = c

\* The reconcile has not touched the history.
Early == \/ pc \in {"apply", "mark", "prerequisites", "uninstall", "uninstalling",
                    "announced", "release"}
         \/ pc = "chart" /\ ~obj.deleting

SameHistory == \A i \in Versions : Version(i).history = api.history

\* Once the history of the reconcile comes back, no other one follows.
HistorySettles ==
  \A i, j \in Versions :
    i <= j /\ Version(i).history = obj.history => Version(j).history = obj.history

Synced ==
  spent.timeouts = 0 =>
    /\ ~Running => SameHistory
    /\ Early => SameHistory /\ obj.history = api.history /\ base.history = api.history
    /\ Running => HistorySettles
    /\ Patching => api.history \in {base.history, obj.history}

IInv == /\ ObjectTypes /\ OtherTypes /\ Watched /\ Guarded /\ Placed
        /\ ReleaseTracked /\ ChartsTracked /\ Synced

(* ------------------------------- patches ------------------------------- *)

\* The specification and the deletion of an object: no patch touches them.
SameSpec(v, w) ==
  /\ v.gen = w.gen /\ (v.deleting <=> w.deleting) /\ (v.suspend <=> w.suspend)
  /\ v.target = w.target /\ v.source = w.source /\ (v.exprs <=> w.exprs)

SameStatus(v, w) ==
  /\ v.observed = w.observed /\ v.history = w.history
  /\ v.storageNs = w.storageNs /\ v.chart = w.chart

\* The answer NotFound keeps the rest of the object.
LEMMA GoneFields ==
  ASSUME NEW o \in HelmRelease
  PROVE  /\ Gone(o) \in HelmRelease /\ ~Gone(o).exists
         /\ SameSpec(Gone(o), o) /\ SameStatus(Gone(o), o)
         /\ Gone(o).ready = o.ready /\ Gone(o).finalizer = o.finalizer
<1>1. Gone(o) \in HelmRelease
  BY Zenon DEF Gone, HelmRelease
<1>2. /\ ~Gone(o).exists /\ Gone(o).ready = o.ready
      /\ Gone(o).finalizer = o.finalizer
  BY Zenon DEF Gone, HelmRelease
<1>3. SameSpec(Gone(o), o)
  BY Zenon DEF Gone, HelmRelease, SameSpec
<1>4. SameStatus(Gone(o), o)
  BY Zenon DEF Gone, HelmRelease, SameStatus
<1> QED BY <1>1, <1>2, <1>3, <1>4, Zenon

\* A condition is all MarkReady sets.
LEMMA MarkReadyFields ==
  ASSUME NEW o \in HelmRelease, NEW s \in {"Unknown", "True", "False"}
  PROVE  /\ MarkReady(o, s) \in HelmRelease
         /\ SameSpec(MarkReady(o, s), o) /\ SameStatus(MarkReady(o, s), o)
         /\ MarkReady(o, s).exists <=> o.exists
         /\ MarkReady(o, s).finalizer <=> o.finalizer
         /\ MarkReady(o, s).ready = <<s, o.gen>>
<1>0. <<s, o.gen>> \in {"Unknown", "True", "False"} \X Nat
  BY Zenon DEF HelmRelease
<1>1. MarkReady(o, s) \in HelmRelease
  BY <1>0, Zenon DEF MarkReady, HelmRelease
<1>2. /\ MarkReady(o, s).exists <=> o.exists
      /\ MarkReady(o, s).finalizer <=> o.finalizer
      /\ MarkReady(o, s).ready = <<s, o.gen>>
  BY Zenon DEF MarkReady, HelmRelease
<1>3. SameSpec(MarkReady(o, s), o)
  BY Zenon DEF MarkReady, HelmRelease, SameSpec
<1>4. SameStatus(MarkReady(o, s), o)
  BY Zenon DEF MarkReady, HelmRelease, SameStatus
<1> QED BY <1>1, <1>2, <1>3, <1>4, Zenon

LEMMA ConditionsPatched ==
  ASSUME NEW cur \in HelmRelease, NEW b \in HelmRelease, NEW o \in HelmRelease,
         NEW c, c = PatchConditions(cur, b, o)
  PROVE  /\ c \in HelmRelease /\ SameSpec(c, cur) /\ SameStatus(c, cur)
         /\ c.exists <=> cur.exists
         /\ c.finalizer <=> cur.finalizer
         /\ c.ready = Merge(cur, b, o, "ready")
<1>0. Merge(cur, b, o, "ready") \in {"Unknown", "True", "False"} \X Nat
  BY Zenon DEF HelmRelease, Merge
<1>1. c \in HelmRelease
  BY <1>0, Zenon DEF PatchConditions, HelmRelease
<1>2. c.ready = Merge(cur, b, o, "ready")
  BY <1>0, Zenon DEF PatchConditions, HelmRelease
<1>3. SameSpec(c, cur)
  BY Zenon DEF PatchConditions, HelmRelease, SameSpec
<1>4. SameStatus(c, cur)
  BY Zenon DEF PatchConditions, HelmRelease, SameStatus
<1>5. (c.exists <=> cur.exists) /\ (c.finalizer <=> cur.finalizer)
  BY Zenon DEF PatchConditions, HelmRelease
<1> QED BY <1>1, <1>2, <1>3, <1>4, <1>5, Zenon

\* Without its finalizer a deleted object goes.
LEMMA MetadataPatched ==
  ASSUME NEW cur \in HelmRelease, NEW b \in HelmRelease, NEW o \in HelmRelease,
         NEW c, c = PatchMetadata(cur, b, o)
  PROVE  /\ c \in HelmRelease /\ SameSpec(c, cur) /\ SameStatus(c, cur)
         /\ c.finalizer <=> Merge(cur, b, o, "finalizer")
         /\ c.exists <=> cur.exists /\ ~(cur.deleting /\ ~c.finalizer)
         /\ c.ready = cur.ready
<1> DEFINE f == Merge(cur, b, o, "finalizer")
           m == [cur EXCEPT !.finalizer = f]
<1>0. f \in BOOLEAN
  BY Zenon DEF HelmRelease, Merge
<1>1. c = IF m.deleting /\ ~m.finalizer THEN Gone(m) ELSE m
  BY Zenon DEF PatchMetadata
<1> HIDE DEF f
<1>2. m \in HelmRelease
  BY <1>0 DEF HelmRelease
<1>3. m.ready = cur.ready /\ (m.exists <=> cur.exists) /\ (m.finalizer <=> f)
  BY <1>0, Zenon DEF HelmRelease
<1>4. SameSpec(m, cur)
  BY <1>0, Zenon DEF HelmRelease, SameSpec
<1>5. SameStatus(m, cur)
  BY <1>0, Zenon DEF HelmRelease, SameStatus
<1> HIDE DEF m
<1>6. CASE m.deleting /\ ~m.finalizer
  <2>1. c = Gone(m)
    BY <1>1, <1>6, Zenon
  <2>2. /\ c \in HelmRelease /\ ~c.exists /\ SameSpec(c, m) /\ SameStatus(c, m)
        /\ c.ready = m.ready /\ c.finalizer = m.finalizer
    BY <2>1, <1>2, GoneFields, Zenon
  <2> QED BY <2>2, <1>0, <1>2, <1>3, <1>4, <1>5, <1>6 DEF f, SameSpec, SameStatus
<1>7. CASE ~(m.deleting /\ ~m.finalizer)
  <2>1. c = m
    BY <1>1, <1>7, Zenon
  <2> QED BY <2>1, <1>0, <1>2, <1>3, <1>4, <1>5, <1>7, Zenon DEF f, SameSpec
<1> QED BY <1>6, <1>7, Zenon

LEMMA StatusPatched ==
  ASSUME NEW cur \in HelmRelease, NEW b \in HelmRelease, NEW o \in HelmRelease,
         NEW c, c = PatchStatus(cur, b, o)
  PROVE  /\ c \in HelmRelease /\ SameSpec(c, cur)
         /\ c.exists <=> cur.exists
         /\ c.finalizer <=> cur.finalizer
         /\ c.ready = cur.ready
         /\ c.observed = Merge(cur, b, o, "observed")
         /\ c.history = Merge(cur, b, o, "history")
         /\ c.storageNs = Merge(cur, b, o, "storageNs")
         /\ c.chart = Merge(cur, b, o, "chart")
<1>0. /\ Merge(cur, b, o, "observed") \in Nat
      /\ Merge(cur, b, o, "history") \in Histories
      /\ Merge(cur, b, o, "storageNs") \in Names
      /\ Merge(cur, b, o, "chart") \in Templates \cup {"none"}
  BY Zenon DEF HelmRelease, Merge
<1>1. c \in HelmRelease
  BY <1>0, Zenon DEF PatchStatus, HelmRelease
<1>2. /\ c.observed = Merge(cur, b, o, "observed")
      /\ c.history = Merge(cur, b, o, "history")
      /\ c.storageNs = Merge(cur, b, o, "storageNs")
      /\ c.chart = Merge(cur, b, o, "chart")
  BY Zenon DEF PatchStatus, HelmRelease
<1>3. SameSpec(c, cur)
  BY Zenon DEF PatchStatus, HelmRelease, SameSpec
<1>4. /\ c.exists <=> cur.exists
      /\ c.finalizer <=> cur.finalizer
      /\ c.ready = cur.ready
  BY Zenon DEF PatchStatus, HelmRelease
<1> QED BY <1>1, <1>2, <1>3, <1>4, Zenon

\* What a patch leaves of cur: the specification always, the rest where the
\* reconcile changed nothing or the call failed.
Patches(cur, b, o, done, new) ==
  /\ new \in HelmRelease /\ SameSpec(new, cur)
  /\ new.finalizer <=> IF "metadata" \in done THEN Merge(cur, b, o, "finalizer")
                                              ELSE cur.finalizer
  /\ new.exists <=> cur.exists /\ ~("metadata" \in done /\ cur.deleting /\ ~new.finalizer)
  /\ new.ready = IF "conditions" \in done THEN Merge(cur, b, o, "ready") ELSE cur.ready
  /\ IF "status" \in done /\ new.exists
     THEN /\ new.observed = Merge(cur, b, o, "observed")
          /\ new.history = Merge(cur, b, o, "history")
          /\ new.storageNs = Merge(cur, b, o, "storageNs")
          /\ new.chart = Merge(cur, b, o, "chart")
     ELSE SameStatus(new, cur)

\* The three calls of a patch, one after the other.
LEMMA PatchedFields ==
  ASSUME NEW cur \in HelmRelease, NEW b \in HelmRelease, NEW o \in HelmRelease,
         NEW done \in SUBSET Calls
  PROVE  Patches(cur, b, o, done, Patched(cur, b, o, done))
<1> DEFINE c == IF "conditions" \in done THEN PatchConditions(cur, b, o) ELSE cur
           m == IF "metadata" \in done THEN PatchMetadata(c, b, o) ELSE c
           new == Patched(cur, b, o, done)
<1>0. new = IF "status" \in done /\ m.exists THEN PatchStatus(m, b, o) ELSE m
  BY Zenon DEF Patched
<1>1. /\ c \in HelmRelease /\ SameSpec(c, cur) /\ SameStatus(c, cur)
      /\ c.exists <=> cur.exists
      /\ c.finalizer <=> cur.finalizer
      /\ c.ready = IF "conditions" \in done THEN Merge(cur, b, o, "ready") ELSE cur.ready
  BY ConditionsPatched DEF SameSpec, SameStatus
<1> HIDE DEF c
<1>2. /\ m \in HelmRelease /\ SameSpec(m, c) /\ SameStatus(m, c)
      /\ m.finalizer <=> IF "metadata" \in done THEN Merge(c, b, o, "finalizer")
                                                ELSE c.finalizer
      /\ m.exists <=> c.exists /\ ~("metadata" \in done /\ c.deleting /\ ~m.finalizer)
      /\ m.ready = c.ready
  BY <1>1, MetadataPatched DEF SameSpec, SameStatus
<1> HIDE DEF m
<1>3. /\ new \in HelmRelease /\ SameSpec(new, m)
      /\ new.exists <=> m.exists
      /\ new.finalizer <=> m.finalizer
      /\ new.ready = m.ready
      /\ IF "status" \in done /\ m.exists
         THEN /\ new.observed = Merge(m, b, o, "observed")
              /\ new.history = Merge(m, b, o, "history")
              /\ new.storageNs = Merge(m, b, o, "storageNs")
              /\ new.chart = Merge(m, b, o, "chart")
         ELSE SameStatus(new, m)
  BY <1>0, <1>2, StatusPatched DEF SameSpec, SameStatus
<1> HIDE DEF new
<1>4. /\ SameSpec(new, cur) /\ (m.finalizer <=> new.finalizer)
      /\ new.ready = IF "conditions" \in done THEN Merge(cur, b, o, "ready") ELSE cur.ready
  BY <1>1, <1>2, <1>3, Zenon DEF SameSpec
<1>5. new.finalizer <=> IF "metadata" \in done THEN Merge(cur, b, o, "finalizer")
                                               ELSE cur.finalizer
  BY <1>1, <1>2, <1>3, Zenon DEF Merge
<1>6. new.exists <=> cur.exists /\ ~("metadata" \in done /\ cur.deleting /\ ~new.finalizer)
  BY <1>1, <1>2, <1>3, Zenon DEF SameSpec
<1>7. IF "status" \in done /\ new.exists
      THEN /\ new.observed = Merge(cur, b, o, "observed")
           /\ new.history = Merge(cur, b, o, "history")
           /\ new.storageNs = Merge(cur, b, o, "storageNs")
           /\ new.chart = Merge(cur, b, o, "chart")
      ELSE SameStatus(new, cur)
  BY <1>1, <1>2, <1>3, Zenon DEF Merge, SameStatus
<1> QED BY <1>3, <1>4, <1>5, <1>6, <1>7, Zenon DEF Patches, new

(* -------------------- the versions of the object ----------------------- *)

\* A write adds a version, or none when it changes nothing.
LEMMA WriteAdds ==
  ASSUME ObjectTypes, NEW new \in HelmRelease, Write(new),
         Version(Len(pending)) = api
  PROVE  /\ api' = new /\ cache' = cache /\ pending' \in Seq(HelmRelease)
         /\ Version(Len(pending))' = new
         /\ \A i \in Versions' : Version(i)' = IF i \in Versions THEN Version(i) ELSE new
         /\ Versions \subseteq Versions'
         /\ \A i \in Versions' \ Versions : i = Len(pending')
         /\ Versions # Versions' => Len(pending') \in Versions' \ Versions
<1>1. CASE new = api
  BY <1>1, Zenon DEF ObjectTypes, Write, Versions, Version
<1>2. CASE new # api
  <2>1. pending' = Append(pending, new) /\ cache' = cache /\ api' = new
    BY <1>2, Zenon DEF Write
  <2>2. Len(pending') = Len(pending) + 1 /\ Len(pending) \in Nat
        /\ pending' \in Seq(HelmRelease)
    BY <2>1 DEF ObjectTypes
  <2>3. \A i \in 1..Len(pending) : pending'[i] = pending[i]
    BY <2>1 DEF ObjectTypes
  <2>4. pending'[Len(pending')] = new
    BY <2>1 DEF ObjectTypes
  <2> QED BY <2>1, <2>2, <2>3, <2>4 DEF Versions, Version
<1> QED BY <1>1, <1>2, Zenon

\* The watch delivers the next version.
LEMMA DeliverShifts ==
  ASSUME ObjectTypes, Deliver
  PROVE  /\ pending' \in Seq(HelmRelease) /\ cache' \in HelmRelease
         /\ Len(pending') = Len(pending) - 1 /\ Len(pending) > 0
         /\ cache' = Version(1) /\ Version(Len(pending))' = Version(Len(pending))
         /\ \A i \in Versions' : i + 1 \in Versions /\ Version(i)' = Version(i + 1)
<1>1. /\ pending # <<>> /\ cache' = Head(pending) /\ pending' = Tail(pending)
      /\ pending \in Seq(HelmRelease)
  BY Zenon DEF Deliver, ObjectTypes
<1>2. Len(pending) \in Nat \ {0} /\ cache' = pending[1] /\ cache' \in HelmRelease
  BY <1>1
<1>3. /\ pending' \in Seq(HelmRelease) /\ Len(pending') = Len(pending) - 1
      /\ \A i \in 1..Len(pending') : pending'[i] = pending[i + 1]
  BY <1>1, <1>2
<1>4. Version(Len(pending))' = Version(Len(pending))
  <2>1. CASE Len(pending') = 0
    <3>1. Len(pending) = 1
      BY <2>1, <1>2, <1>3
    <3> QED BY <3>1, <2>1, <1>2, Zenon DEF Version
  <2>2. CASE Len(pending') # 0
    <3>1. pending'[Len(pending')] = pending[Len(pending)]
      BY <2>2, <1>2, <1>3
    <3> QED BY <3>1, <2>2, <1>2, Zenon DEF Version
  <2> QED BY <2>1, <2>2, Zenon
<1> QED BY <1>2, <1>3, <1>4 DEF Versions, Version

LEMMA VersionTypes ==
  ASSUME ObjectTypes
  PROVE  /\ \A i \in Versions : Version(i) \in HelmRelease
         /\ Len(pending) \in Nat /\ 0 \in Versions /\ Len(pending) \in Versions
         /\ Version(0) = cache /\ Versions \subseteq Nat
         /\ \A i \in Versions : i <= Len(pending) /\ 0 <= i
<1>1. Len(pending) \in Nat /\ \A i \in 1..Len(pending) : pending[i] \in HelmRelease
  BY DEF ObjectTypes
<1> QED BY <1>1 DEF Versions, Version, ObjectTypes

LEMMA WriteKeepsWatched ==
  ASSUME ObjectTypes, Watched, NEW new \in HelmRelease, Write(new),
         api.exists, api.deleting => new.deleting,
         new.exists /\ api.finalizer => new.finalizer,
         new.exists /\ new.deleting => new.finalizer,
         ~new.exists => ~api.finalizer \/ cache.deleting
  PROVE  Watched'
<1> DEFINE n == Len(pending)
<1>1. /\ Version(n) = api /\ n \in Versions /\ 0 \in Versions /\ Version(0) = cache
      /\ \A i \in Versions : 0 <= i /\ i <= n /\ i \in Nat
  BY VersionTypes, Zenon DEF Watched
<1>2. /\ api' = new /\ Version(Len(pending))' = new
      /\ \A i \in Versions' : Version(i)' = IF i \in Versions THEN Version(i) ELSE new
      /\ \A i \in Versions' \ Versions : i = Len(pending') /\ i \notin Versions
  BY WriteAdds, Zenon DEF Watched
<1>3. /\ Len(pending') = n \/ Len(pending') = n + 1
      /\ Versions' = 0..Len(pending') /\ n \in Nat
  BY DEF Write, ObjectTypes, Versions
<1>4. \A i \in Versions : Before(Version(i), api) /\ Before(cache, Version(i))
  BY <1>1, Zenon DEF Watched
<1>5. \A i \in Versions : Before(Version(i), new)
  BY <1>4, Zenon DEF Before
<1>6. Before(new, new)
  BY Zenon DEF Before
<1>7. \A i, j \in Versions' : i <= j => Before(Version(i)', Version(j)')
  <2> TAKE i, j \in Versions'
  <2>1. CASE i \in Versions /\ j \in Versions
    BY <2>1, <1>2, Zenon DEF Watched
  <2>2. CASE j \notin Versions
    BY <2>2, <1>2, <1>5, <1>6, Zenon
  <2>3. CASE i \notin Versions /\ j \in Versions
    BY <2>3, <1>2, <1>3, <1>1 DEF Versions
  <2> QED BY <2>1, <2>2, <2>3, Zenon
<1>8. \A i \in Versions' : Version(i)'.exists /\ Version(i)'.deleting => Version(i)'.finalizer
  BY <1>2, Zenon DEF Watched
<1>9. \A i \in Versions' : i > 0 /\ ~Version(i)'.exists => i = Len(pending')
  <2>1. \A i \in Versions : i > 0 => Version(i).exists
    BY <1>1, Zenon DEF Watched
  <2> QED BY <2>1, <1>2, Zenon
<1> QED BY <1>2, <1>7, <1>8, <1>9, Zenon DEF Watched, Before

LEMMA DeliverKeepsWatched ==
  ASSUME ObjectTypes, Watched, Deliver
  PROVE  /\ Watched' /\ Before(cache, cache')
         /\ cache'.exists \/ pending' = <<>>
<1>1. /\ Len(pending) \in Nat /\ 0 \in Versions /\ Version(0) = cache /\ Versions \subseteq Nat
      /\ \A i \in Versions : i <= Len(pending)
  BY VersionTypes, Zenon
<1>2. /\ Len(pending') = Len(pending) - 1 /\ Len(pending) > 0
      /\ cache' = Version(1) /\ 1 \in Versions /\ pending' \in Seq(HelmRelease)
      /\ Len(pending') \in Versions' /\ Versions' \subseteq Nat
      /\ \A i \in Versions' : i + 1 \in Versions /\ Version(i)' = Version(i + 1)
  BY <1>1, DeliverShifts DEF Versions
<1>3. Version(Len(pending))' = api'
  BY <1>1, DeliverShifts, Zenon DEF Watched, Deliver
<1>4. \A i, j \in Versions' : i <= j => Before(Version(i)', Version(j)')
  BY <1>1, <1>2 DEF Watched
<1>5. \A i \in Versions' : Version(i)'.exists /\ Version(i)'.deleting => Version(i)'.finalizer
  BY <1>1, <1>2, Zenon DEF Watched
<1>6. \A i \in Versions' : i > 0 /\ ~Version(i)'.exists => i = Len(pending')
  BY <1>1, <1>2 DEF Watched
<1>7. Before(cache, cache')
  BY <1>1, <1>2 DEF Watched
<1>8. cache'.exists \/ Len(pending') = 0
  BY <1>1, <1>2 DEF Watched
<1> QED BY <1>2, <1>3, <1>4, <1>5, <1>6, <1>7, <1>8 DEF Watched, Before

LEMMA SameVersions ==
  ASSUME UNCHANGED objects
  PROVE  /\ Watched => Watched'
         /\ SameHistory => SameHistory'
         /\ Versions' = Versions /\ \A i \in Versions : Version(i)' = Version(i)
<1> QED BY DEF objects, Watched, SameHistory, Versions, Version, Before

(* ---------------------- steps within a reconcile ----------------------- *)

Timely == spent'.timeouts = 0 => spent.timeouts = 0

\* What a step that only works on the object in memory has to keep in mind.
LEMMA LocalKept ==
  ASSUME IInv, Busy, UNCHANGED <<objects, base, abandoned, lost>>,
         obj' \in HelmRelease, OtherTypes', Placed', Timely, strayed \subseteq strayed',
         obj'.exists, SameSpec(obj', obj), pc' \notin {"idle", "sync"},
         obj.deleting \/ obj'.finalizer,
         obj.deleting /\ ~obj'.finalizer =>
           abandoned \/ (obj'.storageNs = "none" /\ obj'.chart = "none"),
         \A t \in Targets : Owned(t)' =>
           /\ Owned(t) \/ ~obj.deleting
           /\ Records(obj', t) /\ (Releasing' => t = obj'.target),
         \A c \in Templates : OwnedChart(c)' =>
           (OwnedChart(c) \/ ~obj.deleting) /\ obj'.chart = c,
         Early' => Early /\ obj'.history = obj.history,
         Early \/ obj'.history = obj.history
  PROVE  IInv'
<1>1. ObjectTypes' /\ Watched'
  BY SameVersions, Zenon DEF IInv, ObjectTypes, objects
<1>2. api' = api /\ cache' = cache /\ pending' = pending /\ base' = base
  BY Zenon DEF objects
<1>3. Busy => Patching /\ Running
  BY Zenon DEF Busy, Patching, Running
<1>4. Guarded'
  BY <1>2, <1>3, Zenon DEF IInv, Guarded, SameSpec, Busy, Patching, Running
<1>5. ReleaseTracked'
  <2>1. RecordTracked'
    BY <1>2, <1>3, Zenon DEF IInv, ReleaseTracked, RecordTracked, Busy, Record
  <2>2. ASSUME NEW t \in Targets, Owned(t)'
        PROVE  api'.exists /\ api'.finalizer
    BY <2>2, <1>2, <1>3, Zenon DEF IInv, ReleaseTracked, Guarded
  <2> QED BY <2>1, <2>2, Zenon DEF ReleaseTracked, Patching, Records
<1>6. ChartsTracked'
  <2>1. ChartTracked'
    BY <1>2, <1>3, Zenon DEF IInv, ChartsTracked, ChartTracked, Busy, OtherTypes
  <2>2. ASSUME NEW c \in Templates, OwnedChart(c)'
        PROVE  api'.exists /\ api'.finalizer
    BY <2>2, <1>2, <1>3, Zenon DEF IInv, ChartsTracked, Guarded
  <2> QED BY <2>1, <2>2, Zenon DEF ChartsTracked, Patching
<1>7. Synced'
  <2> SUFFICES ASSUME spent'.timeouts = 0
               PROVE  /\ Early' => /\ SameHistory' /\ obj'.history = api'.history
                                   /\ base'.history = api'.history
                      /\ HistorySettles'
                      /\ api'.history \in {base'.history, obj'.history}
    BY Zenon DEF Synced, Running, Patching
  <2>1. /\ Early => SameHistory /\ obj.history = api.history /\ base.history = api.history
        /\ HistorySettles
        /\ api.history \in {base.history, obj.history}
    BY <1>3, Zenon DEF IInv, Synced, Timely
  <2>2. CASE Early
    <3>1. SameHistory' /\ base'.history = api'.history
      BY <2>1, <2>2, <1>2, SameVersions, Zenon
    <3>2. HistorySettles'
      BY <3>1, Zenon DEF HistorySettles, SameHistory
    <3> QED BY <3>1, <3>2, <2>1, <1>2, Zenon
  <2>3. CASE ~Early
    <3>1. HistorySettles'
      BY <2>1, <2>3, SameVersions, Zenon DEF HistorySettles
    <3> QED BY <3>1, <2>3, <2>1, <1>2, Zenon
  <2> QED BY <2>2, <2>3, Zenon
<1> QED BY <1>1, <1>4, <1>5, <1>6, <1>7, Zenon DEF IInv

\* A reconcile starts with the object in the cache.
LEMMA GetKept ==
  ASSUME IInv, Get, obj' \in HelmRelease, OtherTypes', Placed', abandoned => abandoned',
         obj'.exists, SameSpec(obj', cache), Record(obj') = Record(cache),
         obj'.chart = cache.chart, pc' \notin {"idle", "sync"} /\ ~Releasing',
         Busy' => cache.finalizer /\ (cache.deleting \/ obj'.finalizer),
         cache.finalizer /\ ~obj'.finalizer => cache.deleting,
         cache.deleting /\ ~obj'.finalizer =>
           abandoned' \/ (cache.storageNs = "none" /\ cache.chart = "none")
  PROVE  IInv'
<1>1. /\ ObjectTypes' /\ Watched'
      /\ api' = api /\ cache' = cache /\ pending' = pending /\ base' = cache
      /\ spent' = spent /\ cache.exists /\ pc = "idle"
  BY SameVersions, Zenon DEF IInv, ObjectTypes, Get, objects
<1>2. Before(cache, api)
  BY VersionTypes, Zenon DEF IInv, Watched
<1>3. Guarded'
  BY <1>1, <1>2, Zenon DEF IInv, Guarded, SameSpec, Busy, Patching, Running, Record, Before
<1>4. ReleaseTracked'
  <2>1. RecordTracked'
    BY <1>1, Zenon DEF RecordTracked, Get, Record
  <2>2. ASSUME NEW t \in Targets, Owned(t)'
        PROVE  api'.exists /\ api'.finalizer /\ Records(obj', t)
    <3>1. Owned(t) /\ Record(cache) = Record(api)
      BY <2>2, Zenon DEF Owned, Get, Live
    <3>2. api.exists /\ api.finalizer /\ Records(api, t)
      BY <3>1, <1>1, Zenon DEF IInv, ReleaseTracked, Patching
    <3> QED BY <3>1, <3>2, <1>1, Zenon DEF Records, Record
  <2> QED BY <2>1, <2>2, Zenon DEF ReleaseTracked, Patching, Records
<1>5. ChartsTracked'
  <2>1. ChartTracked'
    BY <1>1, Zenon DEF ChartTracked, Get
  <2>2. ASSUME NEW c \in Templates, OwnedChart(c)'
        PROVE  api'.exists /\ api'.finalizer /\ obj'.chart = c
    <3>1. OwnedChart(c) /\ cache.chart = api.chart
      BY <2>2, Zenon DEF OwnedChart, Get
    <3> QED BY <3>1, <1>1, Zenon DEF IInv, ChartsTracked, Patching
  <2> QED BY <2>1, <2>2, Zenon DEF ChartsTracked, Patching
<1>6. Synced'
  <2> SUFFICES ASSUME spent.timeouts = 0
               PROVE  /\ SameHistory' /\ obj'.history = api'.history
                      /\ base'.history = api'.history /\ HistorySettles'
    BY <1>1, Zenon DEF Synced, Running, Patching
  <2>1. SameHistory
    BY <1>1, Zenon DEF IInv, Synced, Running
  <2>2. SameHistory'
    BY <2>1, SameVersions, Zenon DEF Get
  <2>3. cache.history = api.history
    BY <2>1, VersionTypes, Zenon DEF SameHistory, IInv
  <2>4. obj'.history = api'.history
    BY <2>3, <1>1, Zenon DEF Record
  <2> QED BY <2>2, <2>3, <2>4, <1>1, Zenon DEF HistorySettles, SameHistory
<1> QED BY <1>1, <1>3, <1>4, <1>5, <1>6, Zenon DEF IInv

\* All the rest of the object but its finalizer.
SameRest(v, w) ==
  SameSpec(v, w) /\ SameStatus(v, w) /\ v.ready = w.ready /\ (v.exists <=> w.exists)

LEMMA FinalizerFields ==
  ASSUME NEW o \in HelmRelease, NEW f \in BOOLEAN
  PROVE  /\ [o EXCEPT !.finalizer = f] \in HelmRelease
         /\ [o EXCEPT !.finalizer = f].finalizer <=> f
         /\ SameRest([o EXCEPT !.finalizer = f], o)
<1>1. [o EXCEPT !.finalizer = f] \in HelmRelease
  BY Zenon DEF HelmRelease
<1>2. SameSpec([o EXCEPT !.finalizer = f], o)
  BY Zenon DEF HelmRelease, SameSpec
<1>3. SameStatus([o EXCEPT !.finalizer = f], o)
  BY Zenon DEF HelmRelease, SameStatus
<1>4. /\ [o EXCEPT !.finalizer = f].finalizer <=> f
      /\ [o EXCEPT !.finalizer = f].exists <=> o.exists
      /\ [o EXCEPT !.finalizer = f].ready = o.ready
  BY Zenon DEF HelmRelease
<1> QED BY <1>1, <1>2, <1>3, <1>4, Zenon DEF SameRest

LEMMA AfterChartFields ==
  ASSUME NEW o \in HelmRelease, AfterChart(o)
  PROVE  /\ obj' \in HelmRelease /\ SameRest(obj', o)
         /\ obj'.finalizer <=> o.finalizer /\ ~o.deleting
         /\ pc' = IF o.deleting THEN "end"
                  ELSE IF o.source \in Templates THEN "apply" ELSE "mark"
<1>1. CASE o.deleting
  BY <1>1, FinalizerFields, Zenon DEF AfterChart, Return
<1>2. CASE ~o.deleting
  BY <1>2, Zenon DEF AfterChart, Goto, SameRest, SameSpec, SameStatus
<1> QED BY <1>1, <1>2, Zenon

LEMMA ReconcileChartFields ==
  ASSUME NEW o \in HelmRelease, ReconcileChart(o)
  PROVE  /\ obj' \in HelmRelease /\ SameRest(obj', o)
         /\ pc' \in {"chart", "end", "apply", "mark"}
         /\ pc' = "end" => o.deleting /\ o.chart = "none" /\ ~obj'.finalizer
         /\ pc' # "end" => (obj'.finalizer <=> o.finalizer)
         /\ pc' = "chart" => o.chart # "none"
         /\ pc' = "apply" => o.chart \in {"none", o.source} /\ o.source \in Templates
         /\ pc' \in {"apply", "mark"} => ~o.deleting
<1>1. CASE MustDeleteChart(o) /\ o.chart # "none"
  BY <1>1, Zenon DEF ReconcileChart, Goto, SameRest, SameSpec, SameStatus
<1>2. CASE ~(MustDeleteChart(o) /\ o.chart # "none")
  <2>1. AfterChart(o)
    BY <1>2, Zenon DEF ReconcileChart
  <2> QED BY <2>1, <1>2, AfterChartFields, Zenon DEF MustDeleteChart
<1> QED BY <1>1, <1>2, Zenon

LEMMA GetTypes ==
  ASSUME IInv, Get, abandoned' \in BOOLEAN, pc' \in Pcs
  PROVE  OtherTypes'
<1>1. lost' \subseteq Targets /\ strayed' \subseteq Templates
  BY Zenon DEF IInv, OtherTypes, Get
<1> QED BY <1>1, Zenon DEF IInv, OtherTypes, Get

LEMMA DeleteSuspendedKept == IInv /\ DeleteSuspended => IInv'
<1> SUFFICES ASSUME IInv, DeleteSuspended PROVE IInv'
  OBVIOUS
<1>1. Get /\ pc' = "end" /\ abandoned' = TRUE /\ cache.deleting /\ cache \in HelmRelease
  BY Zenon DEF DeleteSuspended, Return, IInv, ObjectTypes
<1>2. obj' \in HelmRelease /\ SameRest(obj', cache) /\ ~obj'.finalizer
  BY <1>1, FinalizerFields, Zenon DEF DeleteSuspended
<1>3. OtherTypes'
  BY <1>1, GetTypes, Zenon DEF Pcs
<1>4. Placed' /\ ~Busy' /\ ~Releasing'
  BY <1>1, Zenon DEF Placed, Releasing, Busy
<1> QED
  BY <1>1, <1>2, <1>3, <1>4, GetKept, Zenon DEF SameRest, SameStatus, Record, Get

LEMMA DeleteReleaseKept == IInv /\ DeleteRelease => IInv'
<1> SUFFICES ASSUME IInv, DeleteRelease PROVE IInv'
  OBVIOUS
<1>1. /\ Get /\ cache.deleting /\ cache \in HelmRelease /\ cache.exists
      /\ abandoned' = (abandoned \/ (cache.storageNs # "none" /\ access.state = "missing"))
  BY Zenon DEF DeleteRelease, Get, IInv, ObjectTypes
<1>2. cache.finalizer
  BY <1>1, VersionTypes, Zenon DEF IInv, Watched
<1>3. abandoned' \in BOOLEAN /\ (abandoned => abandoned')
  BY <1>1, Zenon DEF IInv, OtherTypes
<1>4. CASE SkipsUninstall(cache) /\ ReconcileChart(cache)
  <2>1. cache.storageNs # "none" => abandoned'
    BY <1>1, <1>4, Zenon DEF SkipsUninstall
  <2>2. /\ obj' \in HelmRelease /\ SameRest(obj', cache) /\ pc' \in {"chart", "end"}
        /\ pc' = "end" => cache.chart = "none" /\ ~obj'.finalizer
        /\ pc' # "end" => obj'.finalizer
        /\ pc' = "chart" => cache.chart # "none"
    BY <1>1, <1>2, <1>4, ReconcileChartFields, Zenon
  <2>3. OtherTypes'
    BY <1>1, <1>3, <2>2, GetTypes, Zenon DEF Pcs
  <2>4. Placed' /\ ~Releasing'
    BY <2>1, <2>2, <1>3, Zenon DEF Placed, Releasing, SameRest, SameStatus
  <2> QED
    BY <1>1, <1>2, <1>3, <2>1, <2>2, <2>3, <2>4, GetKept, Zenon
    DEF SameRest, SameStatus, Record, Busy
<1>5. CASE obj' = MarkReady(cache, "False") /\ Return("error")
  <2>1. /\ obj' \in HelmRelease /\ SameSpec(obj', cache) /\ SameStatus(obj', cache)
        /\ obj'.exists /\ obj'.finalizer /\ pc' = "end"
    BY <1>1, <1>2, <1>5, MarkReadyFields, Zenon DEF Return
  <2>2. OtherTypes'
    BY <1>1, <1>3, <2>1, GetTypes, Zenon DEF Pcs
  <2>3. Placed' /\ ~Releasing'
    BY <2>1, Zenon DEF Placed, Releasing
  <2> QED
    BY <1>1, <1>2, <1>3, <2>1, <2>2, <2>3, GetKept, Zenon DEF SameStatus, Record, Busy
<1>6. CASE obj' = cache /\ Goto("uninstall")
  <2>1. pc' = "uninstall"
    BY <1>6, Zenon DEF Goto
  <2>2. OtherTypes'
    BY <1>1, <1>3, <2>1, GetTypes, Zenon DEF Pcs
  <2>3. Placed' /\ ~Releasing'
    BY <2>1, Zenon DEF Placed, Releasing
  <2> QED
    BY <1>1, <1>2, <1>3, <1>6, <2>1, <2>2, <2>3, GetKept, Zenon DEF SameSpec, Record, Busy
<1> QED BY <1>4, <1>5, <1>6, Zenon DEF DeleteRelease

LEMMA AddFinalizerKept == IInv /\ AddFinalizer => IInv'
<1> SUFFICES ASSUME IInv, AddFinalizer PROVE IInv'
  OBVIOUS
<1>1. Get /\ pc' = "end" /\ abandoned' = abandoned /\ cache \in HelmRelease /\ cache.exists
  BY Zenon DEF AddFinalizer, Get, Return, IInv, ObjectTypes
<1>2. obj' \in HelmRelease /\ SameRest(obj', cache) /\ obj'.finalizer
  BY <1>1, FinalizerFields, Zenon DEF AddFinalizer
<1>3. OtherTypes'
  BY <1>1, GetTypes, Zenon DEF Pcs, IInv, OtherTypes
<1>4. Placed' /\ ~Busy' /\ ~Releasing'
  BY <1>1, Zenon DEF Placed, Releasing, Busy
<1> QED BY <1>1, <1>2, <1>3, <1>4, GetKept, Zenon DEF SameRest, SameStatus, Record

LEMMA SkipSuspendedKept == IInv /\ SkipSuspended => IInv'
<1> SUFFICES ASSUME IInv, SkipSuspended PROVE IInv'
  OBVIOUS
<1>1. /\ Get /\ pc' = "end" /\ abandoned' = abandoned /\ cache \in HelmRelease
      /\ cache.exists /\ obj' = cache /\ cache.finalizer
  BY Zenon DEF SkipSuspended, Get, Return, IInv, ObjectTypes
<1>2. OtherTypes'
  BY <1>1, GetTypes, Zenon DEF Pcs, IInv, OtherTypes
<1>3. Placed' /\ ~Busy' /\ ~Releasing'
  BY <1>1, Zenon DEF Placed, Releasing, Busy
<1> QED BY <1>1, <1>2, <1>3, GetKept, Zenon DEF SameSpec, Record

LEMMA ObservedFields ==
  ASSUME NEW o \in HelmRelease, NEW n \in Nat
  PROVE  LET w == [o EXCEPT !.observed = n]
         IN /\ w \in HelmRelease /\ SameSpec(w, o) /\ w.ready = o.ready
            /\ (w.exists <=> o.exists) /\ (w.finalizer <=> o.finalizer)
            /\ w.observed = n /\ Record(w) = Record(o) /\ w.chart = o.chart
            /\ w.history = o.history /\ w.storageNs = o.storageNs
<1> DEFINE w == [o EXCEPT !.observed = n]
<1>1. w \in HelmRelease
  BY Zenon DEF HelmRelease
<1>2. SameSpec(w, o)
  BY Zenon DEF HelmRelease, SameSpec
<1>3. /\ (w.exists <=> o.exists) /\ (w.finalizer <=> o.finalizer) /\ w.ready = o.ready
      /\ w.observed = n /\ w.chart = o.chart /\ w.history = o.history
      /\ w.storageNs = o.storageNs
  BY Zenon DEF HelmRelease
<1> QED BY <1>1, <1>2, <1>3, Zenon DEF Record

LEMMA RejectExprsKept == IInv /\ RejectExprs => IInv'
<1> SUFFICES ASSUME IInv, RejectExprs PROVE IInv'
  OBVIOUS
<1>1. /\ Get /\ pc' = "end" /\ abandoned' = abandoned /\ cache \in HelmRelease
      /\ cache.exists /\ cache.finalizer
      /\ obj' = [MarkReady(cache, "False") EXCEPT !.observed = cache.gen]
  BY Zenon DEF RejectExprs, Get, Return, IInv, ObjectTypes
<1>2. /\ MarkReady(cache, "False") \in HelmRelease /\ cache.gen \in Nat
      /\ SameSpec(MarkReady(cache, "False"), cache)
      /\ SameStatus(MarkReady(cache, "False"), cache)
      /\ MarkReady(cache, "False").exists /\ MarkReady(cache, "False").finalizer
  BY <1>1, MarkReadyFields, Zenon DEF HelmRelease
<1>3. /\ obj' \in HelmRelease /\ SameSpec(obj', cache) /\ obj'.exists /\ obj'.finalizer
      /\ Record(obj') = Record(cache) /\ obj'.chart = cache.chart
  BY <1>1, <1>2, ObservedFields DEF SameSpec, SameStatus, Record
<1>4. OtherTypes'
  BY <1>1, GetTypes, Zenon DEF Pcs, IInv, OtherTypes
<1>5. Placed' /\ ~Busy' /\ ~Releasing'
  BY <1>1, Zenon DEF Placed, Releasing, Busy
<1> QED BY <1>1, <1>3, <1>4, <1>5, GetKept, Zenon

LEMMA ProceedKept == IInv /\ Proceed => IInv'
<1> SUFFICES ASSUME IInv, Proceed PROVE IInv'
  OBVIOUS
<1>1. /\ Get /\ ReconcileChart(cache) /\ abandoned' = abandoned /\ cache \in HelmRelease
      /\ cache.exists /\ cache.finalizer /\ ~cache.deleting
  BY Zenon DEF Proceed, Get, IInv, ObjectTypes
<1>2. /\ obj' \in HelmRelease /\ SameRest(obj', cache) /\ obj'.finalizer
      /\ pc' \in {"chart", "apply", "mark"}
      /\ pc' = "chart" => cache.chart # "none"
      /\ pc' = "apply" => cache.chart \in {"none", cache.source} /\ cache.source \in Templates
  BY <1>1, ReconcileChartFields, Zenon
<1>3. OtherTypes'
  BY <1>1, <1>2, GetTypes, Zenon DEF Pcs, IInv, OtherTypes
<1>4. Placed' /\ ~Releasing'
  BY <1>1, <1>2, Zenon DEF Placed, Releasing, SameRest, SameSpec, SameStatus
<1> QED BY <1>1, <1>2, <1>3, <1>4, GetKept, Zenon DEF SameRest, SameStatus, Record

LEMMA LocalTypes ==
  ASSUME IInv, pc' \in Pcs, spent' \in Spending, UNCHANGED <<store, made, charts, seen>>,
         UNCHANGED <<abandoned, lost, strayed>>
  PROVE  OtherTypes'
<1> QED BY Zenon DEF IInv, OtherTypes

\* Spending keeps the account, and tells a timeout.
LEMMA TroubleCounts ==
  ASSUME spent \in Spending, NEW kind \in {"edits", "failures", "faults", "timeouts", "external"},
         Trouble(kind)
  PROVE  /\ spent' \in Spending /\ Timely
         /\ kind = "timeouts" => spent'.timeouts # 0
         /\ kind = "faults" => spent'.faults # 0
         /\ kind = "external" => spent'.external # 0
         /\ spent'.faults = 0 => spent.faults = 0
         /\ spent'.external = 0 => spent.external = 0
<1>1. spent' = [spent EXCEPT ![kind] = spent[kind] + 1]
  BY Zenon DEF Trouble
<1>2. spent[kind] \in Nat
  BY Zenon DEF Spending
<1>3. spent' \in Spending
  BY <1>1, <1>2 DEF Spending
<1>4. \A k \in {"faults", "timeouts", "external"} :
        spent'[k] = IF k = kind THEN spent[k] + 1 ELSE spent[k]
  BY <1>1, Zenon DEF Spending
<1> QED BY <1>2, <1>3, <1>4 DEF Spending, Timely

\* The reconcile returns and leaves all but the condition as it was.
LEMMA ReturnKept ==
  ASSUME IInv, Busy, UNCHANGED <<objects, base, store, made, charts, seen>>,
         UNCHANGED <<abandoned, lost, strayed>>, spent' \in Spending, Timely,
         pc' = "end", obj' \in HelmRelease, SameSpec(obj', obj), SameStatus(obj', obj),
         obj'.exists <=> obj.exists, obj'.finalizer <=> obj.finalizer
  PROVE  IInv'
<1>1. OtherTypes' /\ Placed' /\ ~Early' /\ ~Releasing'
  BY LocalTypes, Zenon DEF Pcs, Placed, Early, Releasing
<1>2. Patching /\ Running
  BY Zenon DEF Busy, Patching, Running
<1>3. /\ obj'.exists /\ (obj.deleting \/ obj'.finalizer)
      /\ obj.deleting /\ ~obj'.finalizer =>
           abandoned \/ (obj'.storageNs = "none" /\ obj'.chart = "none")
  BY <1>2, Zenon DEF IInv, Guarded, SameStatus
<1>4. \A t \in Targets : Owned(t)' => Owned(t) /\ Records(obj', t)
  BY <1>2, Zenon DEF IInv, ReleaseTracked, Owned, Live, Records, SameStatus
<1>5. \A c \in Templates : OwnedChart(c)' => OwnedChart(c) /\ obj'.chart = c
  BY <1>2, Zenon DEF IInv, ChartsTracked, OwnedChart, SameStatus
<1> QED BY <1>1, <1>3, <1>4, <1>5, LocalKept, Zenon DEF SameStatus

LEMMA FailuresReturn ==
  IInv /\ (PrerequisiteFails \/ UninstallFails \/ CallFails) => IInv'
<1> SUFFICES ASSUME IInv, PrerequisiteFails \/ UninstallFails \/ CallFails PROVE IInv'
  OBVIOUS
<1>1. /\ UNCHANGED <<objects, base, store, made, charts, seen>>
      /\ UNCHANGED <<abandoned, lost, strayed>> /\ pc' = "end"
      /\ obj' \in {obj, MarkReady(obj, "False")} /\ obj \in HelmRelease
      /\ Busy
  BY Zenon DEF PrerequisiteFails, UninstallFails, CallFails, Frame, Return, IInv, ObjectTypes,
         Busy
<1>2. spent' \in Spending /\ Timely
  BY TroubleCounts, Zenon DEF PrerequisiteFails, UninstallFails, CallFails, IInv, OtherTypes
<1>3. /\ obj' \in HelmRelease /\ SameSpec(obj', obj) /\ SameStatus(obj', obj)
      /\ obj'.exists <=> obj.exists
      /\ obj'.finalizer <=> obj.finalizer
  <2>1. CASE obj' = obj
    BY <2>1, <1>1, Zenon DEF SameSpec, SameStatus
  <2>2. CASE obj' = MarkReady(obj, "False")
    BY <2>2, <1>1, MarkReadyFields, Zenon
  <2> QED BY <1>1, <2>1, <2>2, Zenon
<1> QED BY <1>1, <1>2, <1>3, ReturnKept, Zenon

LEMMA ChartFields ==
  ASSUME NEW o \in HelmRelease, NEW c \in Templates \cup {"none"}
  PROVE  LET w == [o EXCEPT !.chart = c]
         IN /\ w \in HelmRelease /\ SameSpec(w, o) /\ w.ready = o.ready
            /\ (w.exists <=> o.exists) /\ (w.finalizer <=> o.finalizer)
            /\ w.observed = o.observed /\ w.history = o.history
            /\ w.storageNs = o.storageNs /\ w.chart = c
<1> DEFINE w == [o EXCEPT !.chart = c]
<1>1. w \in HelmRelease
  BY Zenon DEF HelmRelease
<1>2. SameSpec(w, o)
  BY Zenon DEF HelmRelease, SameSpec
<1>3. /\ (w.exists <=> o.exists) /\ (w.finalizer <=> o.finalizer) /\ w.ready = o.ready
      /\ w.observed = o.observed /\ w.chart = c /\ w.history = o.history
      /\ w.storageNs = o.storageNs
  BY Zenon DEF HelmRelease
<1> QED BY <1>1, <1>2, <1>3, Zenon

\* A target is the pair of its parts.
LEMMA TargetPair ==
  ASSUME NEW t \in Targets
  PROVE  /\ t = <<t[1], t[2]>> /\ t[1] \in Names /\ t[2] \in Names
         /\ t[1] # "none" /\ t[2] # "none"
<1> QED BY ReconcilerAssumption DEF Names

LEMMA StorageFields ==
  ASSUME NEW o \in HelmRelease, NEW n \in Names
  PROVE  LET w == [o EXCEPT !.storageNs = n]
         IN /\ w \in HelmRelease /\ SameSpec(w, o) /\ w.ready = o.ready
            /\ (w.exists <=> o.exists) /\ (w.finalizer <=> o.finalizer)
            /\ w.observed = o.observed /\ w.history = o.history
            /\ w.storageNs = n /\ w.chart = o.chart
<1> DEFINE w == [o EXCEPT !.storageNs = n]
<1>1. w \in HelmRelease
  BY Zenon DEF HelmRelease
<1>2. SameSpec(w, o)
  BY Zenon DEF HelmRelease, SameSpec
<1>3. /\ (w.exists <=> o.exists) /\ (w.finalizer <=> o.finalizer) /\ w.ready = o.ready
      /\ w.observed = o.observed /\ w.chart = o.chart /\ w.history = o.history
      /\ w.storageNs = n
  BY Zenon DEF HelmRelease
<1> QED BY <1>1, <1>2, <1>3, Zenon

LEMMA HistoryFields ==
  ASSUME NEW o \in HelmRelease, NEW h \in Histories
  PROVE  LET w == [o EXCEPT !.history = h]
         IN /\ w \in HelmRelease /\ SameSpec(w, o) /\ w.ready = o.ready
            /\ (w.exists <=> o.exists) /\ (w.finalizer <=> o.finalizer)
            /\ w.observed = o.observed /\ w.history = h
            /\ w.storageNs = o.storageNs /\ w.chart = o.chart
<1> DEFINE w == [o EXCEPT !.history = h]
<1>1. w \in HelmRelease
  BY Zenon DEF HelmRelease
<1>2. SameSpec(w, o)
  BY Zenon DEF HelmRelease, SameSpec
<1>3. /\ (w.exists <=> o.exists) /\ (w.finalizer <=> o.finalizer) /\ w.ready = o.ready
      /\ w.observed = o.observed /\ w.chart = o.chart /\ w.history = h
      /\ w.storageNs = o.storageNs
  BY Zenon DEF HelmRelease
<1> QED BY <1>1, <1>2, <1>3, Zenon

LEMMA ClearedFields ==
  ASSUME NEW o \in HelmRelease, Cleared(o)
  PROVE  /\ obj' \in HelmRelease /\ SameSpec(obj', o) /\ (obj'.exists <=> o.exists)
         /\ obj'.history = NoHistory /\ obj'.storageNs = "none" /\ obj'.chart = o.chart
         /\ pc' \in {"chart", "end"}
         /\ pc' = "chart" => o.chart # "none"
         /\ ~o.deleting => pc' = "end" /\ (obj'.finalizer <=> o.finalizer)
         /\ pc' = "chart" => (obj'.finalizer <=> o.finalizer)
         /\ o.deleting /\ pc' = "end" => o.chart = "none"
         /\ obj'.observed = o.observed
         /\ obj'.ready = IF o.history = NoHistory THEN o.ready ELSE <<"False", o.gen>>
         /\ ~o.deleting => result' = "requeue"
<1> DEFINE m == IF o.history = NoHistory THEN o ELSE MarkReady(o, "False")
           c == [m EXCEPT !.history = NoHistory, !.storageNs = "none"]
<1>1. /\ m \in HelmRelease /\ SameSpec(m, o) /\ SameStatus(m, o)
      /\ m.exists <=> o.exists
      /\ m.finalizer <=> o.finalizer
      /\ m.ready = IF o.history = NoHistory THEN o.ready ELSE <<"False", o.gen>>
  BY MarkReadyFields, Zenon DEF SameSpec, SameStatus
<1>2. IF o.deleting THEN ReconcileChart(c)
                    ELSE obj' = c /\ pc' = "end" /\ result' = "requeue"
  BY Zenon DEF Cleared, Return
<1> HIDE DEF m
<1>3. NoHistory \in Histories
  BY Zenon DEF NoHistory, Histories, Names
<1>4. c \in HelmRelease
  <2>1. "none" \in Names
    BY Zenon DEF Names
  <2> QED BY <1>1, <1>3, <2>1, Zenon DEF HelmRelease
<1>5. SameSpec(c, m)
  BY <1>1, Zenon DEF HelmRelease, SameSpec
<1>6. /\ c.history = NoHistory /\ c.storageNs = "none" /\ c.chart = m.chart
      /\ (c.exists <=> m.exists) /\ (c.finalizer <=> m.finalizer)
      /\ c.observed = m.observed /\ c.ready = m.ready
  BY <1>1, Zenon DEF HelmRelease
<1> HIDE DEF c
<1>7. CASE o.deleting
  <2>1. ReconcileChart(c) /\ c.deleting
    BY <1>1, <1>2, <1>5, <1>7, Zenon DEF SameSpec
  <2>2. /\ obj' \in HelmRelease /\ SameRest(obj', c) /\ pc' \in {"chart", "end"}
        /\ pc' = "end" => c.chart = "none"
        /\ pc' = "chart" => (obj'.finalizer <=> c.finalizer) /\ c.chart # "none"
    BY <2>1, <1>4, ReconcileChartFields, Zenon
  <2> QED BY <2>2, <1>1, <1>5, <1>6, <1>7 DEF SameRest, SameSpec, SameStatus
<1>8. CASE ~o.deleting
  BY <1>1, <1>2, <1>4, <1>5, <1>6, <1>8 DEF SameSpec, SameStatus
<1> QED BY <1>7, <1>8, Zenon

\* The status is cleared once the object owns no release.
LEMMA ClearedKept ==
  ASSUME IInv, pc \in {"uninstall", "uninstalling"}, Cleared(obj),
         UNCHANGED <<objects, base, charts, seen, spent, made>>,
         UNCHANGED <<abandoned, lost, strayed>>, \A t \in Targets : ~Owned(t)',
         store' \in [Targets -> ReleaseStored],
         ~KeepHistory => \A t \in Targets : store'[t].status # "uninstalled"
  PROVE  IInv'
<1>1. /\ Busy /\ Patching /\ Running /\ obj \in HelmRelease /\ obj.exists /\ Early
      /\ ~Releasing /\ (obj.deleting \/ obj.finalizer)
  BY Zenon DEF Busy, Patching, Running, Releasing, Early, IInv, ObjectTypes, Guarded
<1>2. /\ obj' \in HelmRelease /\ SameSpec(obj', obj) /\ obj'.exists
      /\ obj'.storageNs = "none" /\ obj'.chart = obj.chart
      /\ pc' \in {"chart", "end"}
      /\ pc' = "chart" => obj.chart # "none"
      /\ ~obj.deleting => pc' = "end" /\ obj'.finalizer
      /\ pc' = "chart" => (obj'.finalizer <=> obj.finalizer)
      /\ obj.deleting /\ pc' = "end" => obj.chart = "none"
  BY <1>1, ClearedFields, Zenon
<1>3. OtherTypes' /\ Placed' /\ ~Releasing' /\ Timely
  BY <1>2, Zenon DEF IInv, OtherTypes, Pcs, Placed, Releasing, Timely
<1>4. \A c \in Templates : OwnedChart(c)' => OwnedChart(c) /\ obj'.chart = c
  BY <1>1, <1>2, Zenon DEF IInv, ChartsTracked, OwnedChart
<1>5. obj.deleting /\ ~obj'.finalizer =>
        abandoned \/ (obj'.storageNs = "none" /\ obj'.chart = "none")
  BY <1>1, <1>2, Zenon DEF IInv, Guarded
<1>6. ~Early'
  BY <1>2, Zenon DEF Early, SameSpec
<1> QED BY <1>1, <1>2, <1>3, <1>4, <1>5, <1>6, LocalKept, Zenon

\* An owned release is the one the object of the reconcile records.
LEMMA OwnedIsRecorded ==
  ASSUME IInv, Patching, NEW t \in Targets, Owned(t)
  PROVE  t = Recorded(obj) /\ obj.history # NoHistory /\ store[t].status # "none"
<1>1. <<obj.storageNs, obj.history.name>> = t
  BY Zenon DEF IInv, ReleaseTracked, Records
<1>2. obj.history.name = t[2] /\ t[2] # "none"
  BY <1>1, TargetPair, Zenon
<1> QED BY <1>1, <1>2 DEF Recorded, NoHistory, Owned, Live

\* New versions of the object have the history the reconcile left.
LEMMA WriteKeepsHistory ==
  ASSUME ObjectTypes, Watched, NEW new \in HelmRelease, Write(new), obj'.history = obj.history,
         HistorySettles, new.history \in {api.history, obj.history}
  PROVE  HistorySettles'
<1>1. /\ Version(Len(pending)) = api
      /\ \A i \in Versions : 0 <= i /\ i <= Len(pending) /\ i \in Nat
      /\ Len(pending) \in Versions
  BY VersionTypes, Zenon DEF Watched
<1>2. /\ \A i \in Versions' : Version(i)' = IF i \in Versions THEN Version(i) ELSE new
      /\ \A i \in Versions' \ Versions : i = Len(pending')
  BY <1>1, WriteAdds, Zenon
<1>3. \A i \in Versions : Version(i).history = obj.history => new.history = obj.history
  BY <1>1, Zenon DEF HistorySettles
<1>4. \A i \in Versions', j \in Versions : i <= j => i \in Versions
  BY <1>1, <1>2 DEF Versions, Write, ObjectTypes
<1> SUFFICES ASSUME NEW i \in Versions', NEW j \in Versions', i <= j,
                    Version(i)'.history = obj.history
             PROVE  Version(j)'.history = obj.history
  BY Zenon DEF HistorySettles
<1>5. CASE j \in Versions
  BY <1>2, <1>4, <1>5, Zenon DEF HistorySettles
<1>6. CASE j \notin Versions
  BY <1>2, <1>3, <1>6, Zenon
<1> QED BY <1>5, <1>6, Zenon

LEMMA WriteKeepsSame ==
  ASSUME ObjectTypes, Watched, NEW new \in HelmRelease, Write(new),
         SameHistory, new.history = api.history
  PROVE  SameHistory'
<1> QED BY WriteAdds, Zenon DEF Watched, SameHistory

(* --------------------- users, clusters and the watch ------------------- *)

LEMMA DeliverKept == IInv /\ Deliver => IInv'
<1> SUFFICES ASSUME IInv, Deliver PROVE IInv'
  OBVIOUS
<1>1. /\ pending' \in Seq(HelmRelease) /\ cache' \in HelmRelease /\ Watched'
      /\ Before(cache, cache') /\ (cache'.exists \/ pending' = <<>>)
  BY DeliverShifts, DeliverKeepsWatched, Zenon DEF IInv
<1>2. /\ obj' = IF pc = "idle" THEN cache' ELSE obj
      /\ base' = IF pc = "idle" THEN cache' ELSE base
      /\ UNCHANGED <<api, pc, store, made, charts, seen, abandoned, lost, strayed, spent>>
  BY Zenon DEF Deliver
<1>3. ObjectTypes' /\ OtherTypes'
  BY <1>1, <1>2, Zenon DEF IInv, ObjectTypes, OtherTypes
<1>4. /\ Patching' = Patching /\ Busy' = Busy /\ Running' = Running /\ Releasing' = Releasing
      /\ Patching => Running
      /\ Busy => Running
      /\ Releasing => Running
  BY <1>2, Zenon DEF Patching, Busy, Running, Releasing
<1>5. Running => obj' = obj /\ base' = base
  BY <1>2, Zenon DEF Running
<1>6. Guarded'
  BY <1>1, <1>2, <1>4, <1>5, Zenon DEF IInv, Guarded, Before, Running
<1>7. Placed'
  BY <1>2, <1>4, <1>5, Zenon DEF IInv, Placed, Running
<1>8. ReleaseTracked'
  BY <1>2, <1>4, <1>5, Zenon DEF IInv, ReleaseTracked, RecordTracked, Owned, Live, Records
<1>9. ChartsTracked'
  BY <1>2, <1>4, <1>5, Zenon DEF IInv, ChartsTracked, ChartTracked, OwnedChart
<1>10. Synced'
  <2>1. /\ \A i \in Versions' : i + 1 \in Versions /\ Version(i)' = Version(i + 1)
        /\ Versions' \subseteq Int
    BY DeliverShifts DEF Versions, IInv
  <2>2. SameHistory => SameHistory'
    BY <2>1, <1>2, Zenon DEF SameHistory
  <2>3. Running /\ HistorySettles => HistorySettles'
    BY <2>1, <1>5 DEF HistorySettles
  <2>4. Early' => Early /\ Running
    BY <1>2, Zenon DEF Early, Running
  <2> QED BY <2>2, <2>3, <2>4, <1>2, <1>4, <1>5, Zenon DEF IInv, Synced
<1> QED BY <1>1, <1>3, <1>6, <1>7, <1>8, <1>9, <1>10, Zenon DEF IInv

\* A step of others that leaves the object alone.
LEMMA ElsewhereKept ==
  ASSUME IInv, UNCHANGED <<objects, memory, abandoned, lost, strayed>>, OtherTypes', Timely,
         \A t \in Targets : Owned(t)' => Owned(t),
         \A c \in Templates : OwnedChart(c)' => OwnedChart(c)
  PROVE  IInv'
<1>1. /\ api' = api /\ cache' = cache /\ pending' = pending
      /\ obj' = obj /\ base' = base /\ pc' = pc
  BY Zenon DEF objects, memory
<1>2. ObjectTypes' /\ Watched' /\ Placed'
  BY <1>1, SameVersions, Zenon DEF IInv, ObjectTypes, Placed, Releasing
<1>3. /\ Patching' = Patching /\ Busy' = Busy /\ Running' = Running
      /\ Releasing' = Releasing /\ Early' = Early
  BY <1>1, Zenon DEF Patching, Busy, Running, Releasing, Early
<1>4. Guarded'
  BY <1>1, <1>3, Zenon DEF IInv, Guarded
<1>5. ReleaseTracked'
  BY <1>1, <1>3, Zenon DEF IInv, ReleaseTracked, RecordTracked
<1>6. ChartsTracked'
  BY <1>1, <1>3, Zenon DEF IInv, ChartsTracked, ChartTracked
<1>7. Synced'
  <2>1. (SameHistory => SameHistory') /\ (HistorySettles => HistorySettles')
    BY <1>1, SameVersions, Zenon DEF HistorySettles
  <2> QED BY <2>1, <1>1, <1>3, Zenon DEF IInv, Synced, Timely
<1> QED BY <1>2, <1>4, <1>5, <1>6, <1>7, Zenon DEF IInv

LEMMA SurroundingsKept == IInv /\ (NotFound \/ DeliverChart \/ Fetched \/ Interfere) => IInv'
<1> SUFFICES ASSUME IInv, NotFound \/ DeliverChart \/ Fetched \/ Interfere PROVE IInv'
  OBVIOUS
<1>1. UNCHANGED <<objects, memory, abandoned, lost, strayed>>
  BY Zenon DEF NotFound, DeliverChart, Fetched, Interfere
<1>2. spent' \in Spending /\ Timely
  BY TroubleCounts, Zenon DEF NotFound, DeliverChart, Fetched, Interfere, IInv, OtherTypes, Timely
<1>3. /\ charts' \in [Templates -> {"absent", "pending", "ready"}]
      /\ seen' \in [Templates -> {"absent", "pending", "ready"}]
      /\ \A c \in Templates : charts'[c] # "absent" => charts[c] # "absent"
  BY Zenon DEF NotFound, DeliverChart, Fetched, Interfere, IInv, OtherTypes
<1>4. /\ made' \in Nat /\ store' \in [Targets -> ReleaseStored]
      /\ \A t \in Targets : store'[t].status \in {store[t].status, "none"}
  <2>1. CASE UNCHANGED <<store, made>>
    BY <2>1, Zenon DEF IInv, OtherTypes
  <2>2. ASSUME NEW t \in Targets, store' = [store EXCEPT ![t] = NoRelease], UNCHANGED made
        PROVE  <1>4
    <3>1. NoRelease \in ReleaseStored /\ NoRelease.status = "none"
      BY Zenon DEF NoRelease, ReleaseStored, Statuses
    <3> QED BY <2>2, <3>1, Zenon DEF IInv, OtherTypes
  <2>3. ASSUME NEW t \in Targets, store' = [store EXCEPT ![t].ver = made + 1], made' = made + 1
        PROVE  <1>4
    BY <2>3 DEF IInv, OtherTypes, ReleaseStored
  <2> QED BY <2>1, <2>2, <2>3, Zenon DEF NotFound, DeliverChart, Fetched, Interfere
<1>5. OtherTypes'
  BY <1>1, <1>2, <1>3, <1>4, Zenon DEF IInv, OtherTypes, memory
<1>6. \A t \in Targets : Owned(t)' => Owned(t)
  BY <1>1, <1>4, Zenon DEF Owned, Live
<1>7. \A c \in Templates : OwnedChart(c)' => OwnedChart(c)
  BY <1>1, <1>3, Zenon DEF OwnedChart
<1> QED BY <1>1, <1>2, <1>5, <1>6, <1>7, ElsewhereKept, Zenon

\* A change of the object by the user.
LEMMA UserKept ==
  ASSUME IInv, NEW new \in HelmRelease, Write(new), api.exists,
         SameStatus(new, api), new.finalizer <=> api.finalizer,
         api.deleting => new.deleting, new.deleting => api.deleting \/ api.finalizer,
         new.exists \/ ~api.finalizer,
         UNCHANGED <<memory, store, made, charts, seen, abandoned, lost, strayed>>,
         spent' \in Spending, Timely
  PROVE  IInv'
<1>1. /\ api' = new /\ cache' = cache /\ obj' = obj /\ base' = base /\ pc' = pc
      /\ ObjectTypes'
  BY WriteAdds, Zenon DEF memory, IInv, ObjectTypes, Watched
<1>2. api.deleting => api.finalizer
  BY VersionTypes, Zenon DEF IInv, Watched
<1>3. Watched'
  BY <1>2, WriteKeepsWatched, Zenon DEF IInv
<1>4. OtherTypes' /\ Placed'
  BY <1>1, Zenon DEF IInv, OtherTypes, Placed, Releasing
<1>5. /\ Patching' = Patching /\ Busy' = Busy /\ Running' = Running
      /\ Releasing' = Releasing /\ Early' = Early
      /\ Busy => Patching
      /\ Patching => Running
  BY <1>1, Zenon DEF Patching, Busy, Running, Releasing, Early
<1>6. Running => cache.exists \/ pending' = <<>>
  <2> SUFFICES ASSUME Running, pending = <<>> PROVE cache.exists
    BY Zenon DEF IInv, Guarded
  <2> QED BY Zenon DEF IInv, Watched, Version
<1>7. Guarded'
  BY <1>1, <1>5, <1>6, Zenon DEF IInv, Guarded, SameStatus
<1>8. ReleaseTracked'
  <2>1. ASSUME NEW t \in Targets, Owned(t)'
        PROVE  /\ api'.exists /\ api'.finalizer
               /\ Patching => Records(obj, t)
               /\ ~Patching => Records(api', t)
               /\ Releasing => t = obj.target
    <3>1. Owned(t)
      BY <2>1, Zenon DEF Owned, Live
    <3> QED BY <3>1, <1>1, Zenon DEF IInv, ReleaseTracked, Records, SameStatus
  <2>2. Patching => RecordTracked'
    BY <1>1, Zenon DEF IInv, ReleaseTracked, RecordTracked, Record, SameStatus
  <2> QED BY <2>1, <2>2, <1>1, <1>5, Zenon DEF ReleaseTracked, Records
<1>9. ChartsTracked'
  <2>1. ASSUME NEW c \in Templates, OwnedChart(c)'
        PROVE  /\ api'.exists /\ api'.finalizer
               /\ Patching => obj.chart = c
               /\ ~Patching => api'.chart = c
    <3>1. OwnedChart(c)
      BY <2>1, Zenon DEF OwnedChart
    <3> QED BY <3>1, <1>1, Zenon DEF IInv, ChartsTracked, SameStatus
  <2>2. Patching => ChartTracked'
    BY <1>1, Zenon DEF IInv, ChartsTracked, ChartTracked, SameStatus
  <2> QED BY <2>1, <2>2, <1>1, <1>5, Zenon DEF ChartsTracked
<1>10. Synced'
  <2>1. new.history = api.history
    BY Zenon DEF SameStatus
  <2>2. SameHistory => SameHistory'
    BY <2>1, WriteKeepsSame, Zenon DEF IInv
  <2>3. HistorySettles => HistorySettles'
    BY <2>1, <1>1, WriteKeepsHistory, Zenon DEF IInv
  <2> QED BY <2>1, <2>2, <2>3, <1>1, <1>5, Zenon DEF IInv, Synced, Timely
<1> QED BY <1>1, <1>3, <1>4, <1>7, <1>8, <1>9, <1>10, Zenon DEF IInv

LEMMA EditKept == IInv /\ Edit => IInv'
<1> SUFFICES ASSUME IInv, Edit PROVE IInv'
  OBVIOUS
<1>1. PICK target \in Targets, source \in Sources, suspend \in BOOLEAN, exprs \in BOOLEAN :
        Write([[api EXCEPT !.target = target, !.source = source,
                           !.suspend = suspend, !.exprs = exprs] EXCEPT !.gen = @ + 1])
  BY DEF Edit
<1> DEFINE e == [api EXCEPT !.target = target, !.source = source,
                            !.suspend = suspend, !.exprs = exprs]
           new == [e EXCEPT !.gen = @ + 1]
<1>2. api \in HelmRelease /\ spent \in Spending /\ api.exists
  BY Zenon DEF IInv, ObjectTypes, OtherTypes, Edit
<1>3. e \in HelmRelease
  BY <1>2 DEF HelmRelease
<1>4. /\ SameStatus(e, api) /\ (e.finalizer <=> api.finalizer) /\ (e.deleting <=> api.deleting)
      /\ e.exists
  BY <1>2, Zenon DEF HelmRelease, SameStatus
<1> HIDE DEF e
<1>5. new \in HelmRelease
  BY <1>3 DEF HelmRelease
<1>6. /\ SameStatus(new, e) /\ (new.finalizer <=> e.finalizer) /\ (new.deleting <=> e.deleting)
      /\ new.exists <=> e.exists
  BY <1>3, Zenon DEF HelmRelease, SameStatus
<1>7. Write(new)
  BY <1>1, Zenon DEF e
<1> HIDE DEF new
<1>8. spent' \in Spending /\ Timely
  BY <1>2, TroubleCounts, Zenon DEF Edit
<1>9. UNCHANGED <<memory, store, made, charts, seen, abandoned, lost, strayed>>
  BY Zenon DEF Edit
<1> QED BY <1>2, <1>4, <1>5, <1>6, <1>7, <1>8, <1>9, UserKept, Zenon DEF SameStatus

LEMMA DeleteKept == IInv /\ Delete => IInv'
<1> SUFFICES ASSUME IInv, Delete PROVE IInv'
  OBVIOUS
<1>1. /\ api \in HelmRelease /\ spent' \in Spending /\ Timely /\ api.exists /\ ~api.deleting
      /\ UNCHANGED <<memory, store, made, charts, seen, abandoned, lost, strayed>>
  BY Zenon DEF IInv, ObjectTypes, OtherTypes, Delete, Timely
<1>2. CASE api.finalizer
  <2> DEFINE new == [api EXCEPT !.deleting = TRUE, !.gen = @ + 1]
  <2>1. new \in HelmRelease
    <3>1. api.gen + 1 \in Nat
      BY <1>1 DEF HelmRelease
    <3> QED BY <1>1, <3>1, Zenon DEF HelmRelease
  <2>2. /\ SameStatus(new, api) /\ (new.finalizer <=> api.finalizer) /\ new.exists
    BY <1>1, Zenon DEF HelmRelease, SameStatus
  <2>3. Write(new)
    BY <1>2, Zenon DEF Delete
  <2> HIDE DEF new
  <2> QED BY <1>1, <1>2, <2>1, <2>2, <2>3, UserKept, Zenon
<1>3. CASE ~api.finalizer
  <2>1. Write(Gone(api))
    BY <1>3, Zenon DEF Delete
  <2>2. /\ Gone(api) \in HelmRelease /\ SameStatus(Gone(api), api)
        /\ Gone(api).finalizer <=> api.finalizer
        /\ Gone(api).deleting <=> api.deleting
    BY <1>1, GoneFields, Zenon DEF SameSpec
  <2> QED BY <1>1, <1>3, <2>1, <2>2, UserKept, Zenon
<1> QED BY <1>2, <1>3, Zenon

(* ---------------------- every step keeps the invariant ------------------- *)

\* The chart goes before the status stops naming it.
LEMMA DeleteChartKept == IInv /\ DeleteChart => IInv'
<1> SUFFICES ASSUME IInv, DeleteChart PROVE IInv'
  OBVIOUS
<1>1. /\ pc = "chart" /\ Busy /\ Patching /\ Running /\ obj \in HelmRelease
      /\ UNCHANGED <<objects, base, store, made, seen, spent, abandoned, lost>>
      /\ obj.exists /\ obj.chart # "none" /\ ~Releasing
  BY Zenon DEF DeleteChart, Busy, Patching, Running, Releasing, IInv, ObjectTypes, Placed, Guarded
<1>2. CASE obj.chart \in Denied
  <2>1. pc' = "end" /\ UNCHANGED <<obj, charts, strayed>>
    BY <1>1, <1>2, Zenon DEF DeleteChart, Return
  <2>2. spent' \in Spending /\ Timely
    BY <1>1, Zenon DEF IInv, OtherTypes, Timely
  <2> QED BY <1>1, <2>1, <2>2, ReturnKept, Zenon DEF SameSpec, SameStatus
<1>3. CASE obj.chart \notin Denied
  <2> DEFINE o == [obj EXCEPT !.chart = "none"]
  <2>1. /\ AfterChart(o)
        /\ \/ charts' = charts /\ strayed' = strayed \cup {obj.chart}
           \/ charts' = [charts EXCEPT ![obj.chart] = "absent"] /\ strayed' = strayed
    BY <1>1, <1>3, Zenon DEF DeleteChart
  <2>2. /\ o \in HelmRelease /\ SameSpec(o, obj) /\ o.exists
        /\ (o.finalizer <=> obj.finalizer)
        /\ o.history = obj.history /\ o.storageNs = obj.storageNs /\ o.chart = "none"
    BY <1>1, ChartFields, Zenon
  <2> HIDE DEF o
  <2>3. /\ obj' \in HelmRelease /\ SameSpec(obj', obj) /\ obj'.exists
        /\ obj'.finalizer <=> obj.finalizer /\ ~obj.deleting
        /\ obj'.history = obj.history /\ obj'.storageNs = obj.storageNs
        /\ obj'.chart = "none" /\ obj'.source = obj.source
        /\ pc' = IF obj.deleting THEN "end"
                 ELSE IF obj.source \in Templates THEN "apply" ELSE "mark"
    BY <2>1, <2>2, AfterChartFields, Zenon DEF SameRest, SameSpec, SameStatus
  <2>4. obj.chart \in Templates
    BY <1>1, Zenon DEF HelmRelease
  <2>5. /\ charts' \in [Templates -> {"absent", "pending", "ready"}]
        /\ strayed' \subseteq Templates /\ strayed \subseteq strayed'
        /\ \A c \in Templates : charts'[c] # "absent" /\ c \notin strayed' =>
             charts[c] # "absent" /\ c \notin strayed /\ c # obj.chart
    BY <2>1, <2>4, Zenon DEF IInv, OtherTypes
  <2>6. OtherTypes'
    BY <1>1, <2>3, <2>5, Zenon DEF IInv, OtherTypes, Pcs
  <2>7. Placed' /\ ~Releasing'
    BY <2>3, Zenon DEF Placed, Releasing, SameSpec
  <2>8. \A c \in Templates : ~OwnedChart(c)'
    BY <1>1, <2>5, Zenon DEF IInv, ChartsTracked, OwnedChart
  <2>9. \A t \in Targets : Owned(t)' => Owned(t) /\ Records(obj', t)
    BY <1>1, <2>3, Zenon DEF IInv, ReleaseTracked, Owned, Live, Records
  <2>10. /\ obj.deleting \/ obj'.finalizer
         /\ obj.deleting => abandoned \/ obj'.storageNs = "none"
    BY <1>1, <2>3, Zenon DEF IInv, Guarded, Placed
  <2>11. (Early' => Early) /\ Timely
    BY <1>1, <2>3, Zenon DEF Early, Timely
  <2> QED BY <1>1, <2>3, <2>5, <2>6, <2>7, <2>8, <2>9, <2>10, <2>11, LocalKept
<1> QED BY <1>2, <1>3, Zenon

LEMMA ApplyChartKept == IInv /\ ApplyChart => IInv'
<1> SUFFICES ASSUME IInv, ApplyChart PROVE IInv'
  OBVIOUS
<1>1. /\ pc = "apply" /\ Busy /\ Patching /\ Running /\ obj \in HelmRelease
      /\ UNCHANGED <<objects, base, store, made, seen, spent, abandoned, lost, strayed>>
      /\ obj.exists /\ ~obj.deleting /\ ~Releasing /\ Early
      /\ obj.chart \in {"none", obj.source} /\ obj.source \in Templates
  BY Zenon DEF ApplyChart, Busy, Patching, Running, Releasing, IInv, ObjectTypes, Placed, Guarded,
         Frame, Early
<1>2. spent' \in Spending /\ Timely
  BY <1>1, Zenon DEF IInv, OtherTypes, Timely
<1>3. CASE obj.source \in Denied
  <2>1. pc' = "end" /\ UNCHANGED <<obj, charts>>
    BY <1>1, <1>3, Zenon DEF ApplyChart, Return
  <2> QED BY <1>1, <1>2, <2>1, ReturnKept, Zenon DEF SameSpec, SameStatus
<1>4. CASE obj.source \notin Denied
  <2>1. /\ obj' = [obj EXCEPT !.chart = obj.source] /\ pc' = "mark"
        /\ charts' = IF charts[obj.source] = "absent"
                     THEN [charts EXCEPT ![obj.source] = "pending"] ELSE charts
    BY <1>1, <1>4, Zenon DEF ApplyChart, Goto
  <2>2. /\ obj' \in HelmRelease /\ SameSpec(obj', obj) /\ obj'.exists
        /\ obj'.finalizer <=> obj.finalizer
        /\ obj'.history = obj.history /\ obj'.storageNs = obj.storageNs
        /\ obj'.chart = obj.source
    BY <1>1, <2>1, ChartFields, Zenon
  <2>3. /\ charts' \in [Templates -> {"absent", "pending", "ready"}]
        /\ \A c \in Templates : charts'[c] # "absent" =>
             charts[c] # "absent" \/ c = obj.source
    BY <1>1, <2>1, Zenon DEF IInv, OtherTypes
  <2>4. OtherTypes'
    BY <1>1, <2>1, <2>3, Zenon DEF IInv, OtherTypes, Pcs
  <2>5. Placed' /\ ~Releasing' /\ obj'.finalizer
    BY <1>1, <2>1, <2>2, Zenon DEF Placed, Releasing, SameSpec, IInv, Guarded
  <2>6. \A c \in Templates : OwnedChart(c)' => obj'.chart = c
    <3> SUFFICES ASSUME NEW c \in Templates, OwnedChart(c)', c # obj.source PROVE FALSE
      BY <2>2, Zenon
    <3>1. OwnedChart(c)
      BY <1>1, <2>3, Zenon DEF OwnedChart
    <3>2. c # "none"
      BY ReconcilerAssumption, Zenon DEF Sources
    <3> QED BY <3>1, <3>2, <1>1, Zenon DEF IInv, ChartsTracked
  <2>7. \A t \in Targets : Owned(t)' => Owned(t) /\ Records(obj', t)
    BY <1>1, <2>2, Zenon DEF IInv, ReleaseTracked, Owned, Live, Records
  <2> QED BY <1>1, <1>2, <2>1, <2>2, <2>4, <2>5, <2>6, <2>7, LocalKept, Zenon
<1> QED BY <1>3, <1>4, Zenon

LEMMA PrerequisitesKept == IInv /\ Prerequisites => IInv'
<1> SUFFICES ASSUME IInv, Prerequisites PROVE IInv'
  OBVIOUS
<1>1. /\ pc = "prerequisites" /\ Busy /\ Patching /\ Running /\ obj \in HelmRelease
      /\ UNCHANGED <<objects, base, store, made, charts, seen, spent>>
      /\ UNCHANGED <<abandoned, lost, strayed>>
      /\ obj.exists /\ ~obj.deleting /\ obj.finalizer /\ ~Releasing /\ Early
  BY Zenon DEF Prerequisites, Busy, Patching, Running, Releasing, IInv, ObjectTypes, Placed,
         Guarded, Frame, Early
<1>2. spent' \in Spending /\ Timely
  BY <1>1, Zenon DEF IInv, OtherTypes, Timely
<1>3. \A c \in Templates : OwnedChart(c)' => obj.chart = c
  BY <1>1, Zenon DEF IInv, ChartsTracked, OwnedChart
<1>4. \A t \in Targets : Owned(t)' => Owned(t) /\ Records(obj, t)
  BY <1>1, Zenon DEF IInv, ReleaseTracked, Owned, Live
<1>5. CASE obj' = MarkReady(obj, "False") /\ pc' = "end"
  BY <1>1, <1>2, <1>5, MarkReadyFields, ReturnKept, Zenon
<1>6. CASE TargetChanged(obj) /\ obj' = obj /\ pc' = "uninstall"
  <2>1. OtherTypes' /\ Placed' /\ ~Releasing'
    BY <1>1, <1>2, <1>6, LocalTypes, Zenon DEF Pcs, Placed, Releasing
  <2> QED BY <1>1, <1>2, <1>3, <1>4, <1>6, <2>1, LocalKept, Zenon DEF SameSpec
<1>7. CASE ~TargetChanged(obj) /\ DetermineState([obj EXCEPT !.storageNs = obj.target[1]])
  <2> DEFINE o == [obj EXCEPT !.storageNs = obj.target[1]]
  <2>0. obj.target \in Targets /\ obj.target[1] \in Names
    BY <1>1, TargetPair, Zenon DEF HelmRelease
  <2>1. /\ o \in HelmRelease /\ SameSpec(o, obj) /\ o.exists /\ o.finalizer
        /\ o.history = obj.history /\ o.storageNs = obj.target[1] /\ o.chart = obj.chart
    BY <1>1, <2>0, StorageFields, Zenon
  <2>2. /\ obj' \in {MarkReady(o, "True"), MarkReady(o, "Unknown")}
        /\ pc' \in {"end", "announced"}
    BY <1>7, Zenon DEF DetermineState, Return, Goto
  <2> HIDE DEF o
  <2>3. /\ obj' \in HelmRelease /\ SameSpec(obj', obj) /\ obj'.exists /\ obj'.finalizer
        /\ obj'.history = obj.history /\ obj'.storageNs = obj.target[1]
        /\ obj'.chart = obj.chart /\ obj'.target = obj.target
    BY <2>1, <2>2, MarkReadyFields DEF SameSpec, SameStatus
  <2>4. OtherTypes' /\ Placed'
    BY <1>1, <1>2, <2>2, <2>3, LocalTypes, Zenon DEF Pcs, Placed, Releasing, SameSpec
  <2>5. \A t \in Targets : Owned(t)' => Records(obj', t) /\ t = obj'.target
    <3> SUFFICES ASSUME NEW t \in Targets, Owned(t)' PROVE Records(obj', t) /\ t = obj'.target
      OBVIOUS
    <3>1. <<obj.storageNs, obj.history.name>> = t /\ obj.exists
      BY <1>4, Zenon DEF Records
    <3>2. obj.storageNs = t[1] /\ obj.history.name = t[2]
      BY <3>1, Zenon
    <3>3. obj.storageNs # "none" /\ obj.history # NoHistory
      BY <3>2, TargetPair DEF NoHistory
    <3>4. t = obj.target
      BY <3>1, <3>3, <1>7, Zenon DEF TargetChanged
    <3> QED BY <3>1, <3>2, <3>4, <2>3, Zenon DEF Records
  <2> QED BY <1>1, <1>2, <1>3, <1>4, <2>2, <2>3, <2>4, <2>5, LocalKept, Zenon
<1> QED BY <1>5, <1>6, <1>7, Zenon DEF Prerequisites, Return, Goto

\* The release that is made is the only one the object owns.
LEMMA ReleaseKept == IInv /\ Release => IInv'
<1> SUFFICES ASSUME IInv, Release PROVE IInv'
  OBVIOUS
<1>1. /\ pc = "release" /\ Busy /\ Patching /\ Running /\ obj \in HelmRelease
      /\ UNCHANGED <<objects, base, charts, seen, abandoned, lost, strayed>>
      /\ obj.exists /\ ~obj.deleting /\ obj.finalizer /\ Releasing /\ Early
      /\ obj.storageNs = obj.target[1] /\ made \in Nat /\ spent \in Spending
  BY Zenon DEF Release, Busy, Patching, Running, Releasing, IInv, ObjectTypes, OtherTypes, Placed,
         Guarded, Frame, Early
<1> DEFINE t == obj.target
<1>2. PICK status \in {"deployed", "failed"} :
        /\ IF status = "failed" THEN Trouble("failures") ELSE UNCHANGED spent
        /\ made' = made + 1
        /\ store' = [store EXCEPT ![t] = [status |-> status, ver |-> made + 1,
                                          source |-> obj.source]]
        /\ obj' = [MarkReady(obj, IF status = "failed" THEN "False" ELSE "True")
                    EXCEPT !.history = [name |-> t[2], ver |-> made + 1]]
        /\ IF status = "failed" THEN Return("requeue") ELSE Goto("progress")
  BY Zenon DEF Release
<1>3. /\ t \in Targets /\ t = <<t[1], t[2]>> /\ obj.source \in Sources
      /\ [name |-> t[2], ver |-> made + 1] \in Histories
  <2>1. t \in Targets /\ obj.source \in Sources
    BY <1>1, Zenon DEF HelmRelease
  <2>2. t[2] \in Names /\ t = <<t[1], t[2]>>
    BY <2>1, TargetPair, Zenon
  <2> QED BY <1>1, <2>1, <2>2 DEF Histories
<1>4. spent' \in Spending /\ Timely /\ pc' \in {"end", "progress"} /\ made' \in Nat
  BY <1>1, <1>2, TroubleCounts DEF Return, Goto, Timely
<1>5. /\ obj' \in HelmRelease /\ SameSpec(obj', obj) /\ obj'.exists /\ obj'.finalizer
      /\ obj'.history.name = t[2] /\ obj'.storageNs = t[1]
      /\ obj'.chart = obj.chart /\ obj'.target = t
  <2> DEFINE s == IF status = "failed" THEN "False" ELSE "True"
             m == MarkReady(obj, s)
  <2>1. /\ m \in HelmRelease /\ SameSpec(m, obj) /\ SameStatus(m, obj)
        /\ m.exists /\ m.finalizer
    BY <1>1, MarkReadyFields, Zenon
  <2> HIDE DEF m
  <2>2. obj' = [m EXCEPT !.history = [name |-> t[2], ver |-> made + 1]]
    BY <1>2, Zenon DEF m
  <2> QED BY <1>1, <1>3, <2>1, <2>2, HistoryFields DEF SameSpec, SameStatus
<1>6. /\ store' \in [Targets -> ReleaseStored]
      /\ \A u \in Targets : u # t => store'[u] = store[u]
      /\ ~KeepHistory => \A u \in Targets : store'[u].status # "uninstalled"
  <2> DEFINE new == [status |-> status, ver |-> made + 1, source |-> obj.source]
  <2>1. new \in ReleaseStored /\ new.status # "uninstalled"
    BY <1>1, <1>3 DEF ReleaseStored, Statuses
  <2>2. store' = [store EXCEPT ![t] = new] /\ store \in [Targets -> ReleaseStored]
        /\ (~KeepHistory => \A u \in Targets : store[u].status # "uninstalled")
    BY <1>2, Zenon DEF IInv, OtherTypes
  <2> HIDE DEF new
  <2> QED BY <2>1, <2>2, <1>3, Zenon
<1>7. OtherTypes' /\ Placed'
  BY <1>1, <1>4, <1>5, <1>6, Zenon DEF IInv, OtherTypes, Pcs, Placed, Releasing, SameSpec
<1>8. \A u \in Targets : Owned(u)' => Records(obj', u) /\ u = obj'.target
  <2>1. \A u \in Targets : Owned(u)' => u = t
    BY <1>1, <1>6, Zenon DEF IInv, ReleaseTracked, Owned, Live
  <2> QED BY <2>1, <1>3, <1>5, Zenon DEF Records
<1>9. \A c \in Templates : OwnedChart(c)' => obj'.chart = c
  BY <1>1, <1>5, Zenon DEF IInv, ChartsTracked, OwnedChart
<1>10. ~Early'
  BY <1>4, Zenon DEF Early
<1> QED BY <1>1, <1>4, <1>5, <1>7, <1>8, <1>9, <1>10, LocalKept, Zenon

LEMMA NothingToUninstallKept == IInv /\ NothingToUninstall => IInv'
<1> SUFFICES ASSUME IInv, NothingToUninstall PROVE IInv'
  OBVIOUS
<1>1. /\ pc = "uninstall" /\ Cleared(obj) /\ AlreadyUninstalled(obj) /\ Patching
      /\ UNCHANGED <<objects, base, store, charts, seen, spent, made>>
      /\ UNCHANGED <<abandoned, lost, strayed>>
  BY Zenon DEF NothingToUninstall, Frame, Patching
<1>2. \A t \in Targets : ~Owned(t)
  BY <1>1, OwnedIsRecorded, Zenon DEF AlreadyUninstalled, Owned, Live
<1>3. \A t \in Targets : ~Owned(t)'
  BY <1>1, <1>2, Zenon DEF Owned, Live
<1> QED BY <1>1, <1>3, ClearedKept, Zenon DEF IInv, OtherTypes

\* A release that is being uninstalled was live before: without its history a
\* release never stays behind as uninstalled.
LEMMA UninstallingIsLive ==
  ASSUME IInv, BeginUninstall
  PROVE  /\ store' \in [Targets -> ReleaseStored]
         /\ \A t \in Targets : Live(t)' <=> Live(t)
         /\ \A t \in Targets : store'[t].status \in {store[t].status, "uninstalling"}
<1>1. /\ store' = [store EXCEPT ![Recorded(obj)].status = "uninstalling"]
      /\ ~AlreadyUninstalled(obj)
  BY Zenon DEF BeginUninstall
<1>2. /\ store' \in [Targets -> ReleaseStored]
      /\ \A t \in Targets : store'[t].status \in {store[t].status, "uninstalling"}
      /\ \A t \in Targets : store'[t].status # store[t].status => t = Recorded(obj)
  <2>1. store \in [Targets -> ReleaseStored]
    BY Zenon DEF IInv, OtherTypes
  <2>2. ASSUME NEW t \in Targets
        PROVE  /\ store'[t] = IF t = Recorded(obj)
                              THEN [store[t] EXCEPT !.status = "uninstalling"] ELSE store[t]
               /\ store'[t] \in ReleaseStored
               /\ store'[t].status = IF t = Recorded(obj) THEN "uninstalling"
                                                          ELSE store[t].status
    BY <1>1, <2>1, Zenon DEF ReleaseStored, Statuses
  <2>3. store' \in [Targets -> ReleaseStored]
    BY <1>1, <2>1, <2>2, Zenon
  <2> QED BY <2>2, <2>3, Zenon
<1>3. \A t \in Targets : Live(t)' <=> Live(t)
  <2> SUFFICES ASSUME NEW t \in Targets, store'[t].status # store[t].status
               PROVE  Live(t) /\ Live(t)'
    BY Zenon DEF Live
  <2>1. t = Recorded(obj)
    BY <1>2, Zenon
  <2>2. store[t].status \notin {"none", "uninstalled"} /\ store[t].status \in Statuses
    BY <1>1, <2>1, Zenon DEF AlreadyUninstalled, IInv, OtherTypes, ReleaseStored
  <2> QED BY <1>2, <2>2, Zenon DEF Live, Statuses
<1> QED BY <1>2, <1>3, Zenon

LEMMA BeginUninstallKept == IInv /\ BeginUninstall => IInv'
<1> SUFFICES ASSUME IInv, BeginUninstall PROVE IInv'
  OBVIOUS
<1>1. /\ pc = "uninstall" /\ pc' = "uninstalling" /\ ~AlreadyUninstalled(obj)
      /\ Busy /\ Patching /\ Running /\ ~Releasing /\ Early /\ ~Releasing'
      /\ UNCHANGED <<objects, obj, base, charts, seen, spent, made>>
      /\ UNCHANGED <<abandoned, lost, strayed>> /\ obj \in HelmRelease /\ obj.exists
      /\ store' = [store EXCEPT ![Recorded(obj)].status = "uninstalling"]
  BY Zenon DEF BeginUninstall, Frame, Goto, Busy, Patching, Running, Releasing, Early, IInv,
         ObjectTypes, Guarded
<1>2. /\ store' \in [Targets -> ReleaseStored]
      /\ \A t \in Targets : Live(t)' <=> Live(t)
      /\ \A t \in Targets : store'[t].status \in {store[t].status, "uninstalling"}
  BY UninstallingIsLive, Zenon
<1>4. OtherTypes' /\ Placed' /\ Timely
  BY <1>1, <1>2 DEF IInv, OtherTypes, Pcs, Placed, Releasing, Timely
<1>5. \A t \in Targets : Owned(t)' => Owned(t) /\ Records(obj', t)
  BY <1>1, <1>2, Zenon DEF IInv, ReleaseTracked, Owned
<1>6. \A c \in Templates : OwnedChart(c)' => OwnedChart(c) /\ obj'.chart = c
  BY <1>1, Zenon DEF IInv, ChartsTracked, OwnedChart
<1>7. /\ obj.deleting \/ obj'.finalizer
      /\ obj.deleting /\ ~obj'.finalizer =>
           abandoned \/ (obj'.storageNs = "none" /\ obj'.chart = "none")
  BY <1>1, Zenon DEF IInv, Guarded
<1> QED BY <1>1, <1>4, <1>5, <1>6, <1>7, LocalKept, Zenon DEF SameSpec, Early

LEMMA EndUninstallKept == IInv /\ EndUninstall => IInv'
<1> SUFFICES ASSUME IInv, EndUninstall PROVE IInv'
  OBVIOUS
<1>1. /\ pc = "uninstalling" /\ Busy /\ Patching /\ Running /\ ~Releasing
      /\ UNCHANGED <<objects, base, charts, seen, spent, made>>
      /\ UNCHANGED <<abandoned, lost, strayed>> /\ obj \in HelmRelease /\ obj.exists
      /\ store' = [store EXCEPT ![Recorded(obj)] =
                     IF KeepHistory /\ store[Recorded(obj)].status # "none"
                     THEN [store[Recorded(obj)] EXCEPT !.status = "uninstalled"]
                     ELSE NoRelease]
  BY Zenon DEF EndUninstall, Frame, Busy, Patching, Running, Releasing, IInv, ObjectTypes, Guarded
<1>2. NoRelease \in ReleaseStored /\ NoRelease.status = "none"
  BY Zenon DEF NoRelease, ReleaseStored, Statuses
<1>3. /\ store' \in [Targets -> ReleaseStored]
      /\ ~KeepHistory => \A t \in Targets : store'[t].status # "uninstalled"
      /\ \A t \in Targets : ~Owned(t)'
  <2> DEFINE r == Recorded(obj)
             new == IF KeepHistory /\ store[r].status # "none"
                    THEN [store[r] EXCEPT !.status = "uninstalled"] ELSE NoRelease
  <2>1. r \in Targets => new \in ReleaseStored /\ new.status \in {"none", "uninstalled"}
    BY <1>2, Zenon DEF IInv, OtherTypes, ReleaseStored, Statuses
  <2>2. ~KeepHistory => new.status # "uninstalled"
    BY <1>2, Zenon
  <2>3. store' = [store EXCEPT ![r] = new] /\ store \in [Targets -> ReleaseStored]
        /\ (~KeepHistory => \A t \in Targets : store[t].status # "uninstalled")
    BY <1>1, Zenon DEF IInv, OtherTypes
  <2> HIDE DEF new
  <2>4. \A t \in Targets : store'[t] = IF t = r THEN new ELSE store[t]
    BY <2>3, Zenon
  <2>5. \A t \in Targets : ~Owned(t)'
    <3> SUFFICES ASSUME NEW t \in Targets, Owned(t)' PROVE FALSE
      OBVIOUS
    <3>1. t # r
      BY <2>1, <2>4, Zenon DEF Owned, Live
    <3>2. Owned(t)
      BY <3>1, <2>4, <1>1, Zenon DEF Owned, Live
    <3> QED BY <3>1, <3>2, <1>1, OwnedIsRecorded, Zenon
  <2> QED BY <2>1, <2>2, <2>3, <2>4, <2>5, Zenon
<1>4. CASE Cleared(obj)
  BY <1>1, <1>3, <1>4, ClearedKept, Zenon
<1>5. CASE obj' = MarkReady(obj, "False") /\ Return("error")
  <2>1. /\ obj' \in HelmRelease /\ SameSpec(obj', obj) /\ SameStatus(obj', obj) /\ obj'.exists
        /\ (obj'.finalizer <=> obj.finalizer) /\ pc' = "end"
    BY <1>1, <1>5, MarkReadyFields, Zenon DEF Return
  <2>2. OtherTypes' /\ Placed' /\ Timely /\ ~Early'
    BY <1>1, <1>3, <2>1, Zenon DEF IInv, OtherTypes, Pcs, Placed, Releasing, Timely, Early
  <2>3. \A c \in Templates : OwnedChart(c)' => OwnedChart(c) /\ obj'.chart = c
    BY <1>1, <2>1, Zenon DEF IInv, ChartsTracked, OwnedChart, SameStatus
  <2>4. /\ obj.deleting \/ obj'.finalizer
        /\ obj.deleting /\ ~obj'.finalizer =>
             abandoned \/ (obj'.storageNs = "none" /\ obj'.chart = "none")
    BY <1>1, <2>1, Zenon DEF IInv, Guarded, SameStatus
  <2> QED BY <1>1, <1>3, <2>1, <2>2, <2>3, <2>4, LocalKept, Zenon DEF SameStatus
<1> QED BY <1>4, <1>5, Zenon DEF EndUninstall

(* ---------------------- patches of the reconcile ----------------------- *)

\* The metadata an object that stays is patched with does not change, and the
\* status in the API server becomes the one of the reconcile.
LEMMA PatchOfActive ==
  ASSUME IInv, Busy, ~obj.deleting, NEW done \in SUBSET Calls,
         NEW new, new = Patched(api, base, obj, done)
  PROVE  /\ Patches(api, base, obj, done, new)
         /\ new \in HelmRelease /\ SameSpec(new, api) /\ new.exists /\ new.finalizer
         /\ api.exists /\ api.finalizer /\ base.finalizer /\ obj.finalizer
         /\ "status" \notin done => SameStatus(new, api)
         /\ "status" \in done =>
              /\ lost = Targets \/ Record(new) = Record(obj)
              /\ strayed = Templates \/ new.chart = obj.chart
              /\ api.history \in {base.history, obj.history} => new.history = obj.history
<1>1. Patches(api, base, obj, done, new)
  BY PatchedFields, Zenon DEF IInv, ObjectTypes
<1>2. Patching
  BY Zenon DEF Busy, Patching
<1>3. api.exists /\ api.finalizer /\ base.finalizer /\ obj.finalizer
  BY <1>2, Zenon DEF IInv, Guarded
<1>4. new.finalizer
  BY <1>1, <1>3, Zenon DEF Patches, Merge
<1>5. new \in HelmRelease /\ SameSpec(new, api) /\ new.exists
  BY <1>1, <1>3, <1>4, Zenon DEF Patches
<1>6. "status" \notin done => SameStatus(new, api)
  BY <1>1, Zenon DEF Patches
<1>7. ASSUME "status" \in done
      PROVE  /\ lost = Targets \/ Record(new) = Record(obj)
             /\ strayed = Templates \/ new.chart = obj.chart
             /\ api.history \in {base.history, obj.history} => new.history = obj.history
  <2>1. /\ new.history = Merge(api, base, obj, "history")
        /\ new.storageNs = Merge(api, base, obj, "storageNs")
        /\ new.chart = Merge(api, base, obj, "chart")
    BY <1>1, <1>5, <1>7, Zenon DEF Patches
  <2>2. /\ lost = Targets \/ Record(api) = Record(base)
        /\ strayed = Templates \/ api.chart = base.chart
    BY <1>2, Zenon DEF IInv, ReleaseTracked, ChartsTracked, RecordTracked, ChartTracked, Busy
  <2> QED BY <2>1, <2>2, Zenon DEF Merge, Record
<1> QED BY <1>1, <1>3, <1>4, <1>5, <1>6, <1>7, Zenon

\* A patch of a reconcile that goes on, and one that ends it.
LEMMA ActivePatchKept ==
  ASSUME IInv, pc \in {"mark", "announced", "progress"}, NEW done \in SUBSET Calls,
         Write(Patched(api, base, obj, done)), UNCHANGED <<obj, store, made, charts, seen>>,
         UNCHANGED <<abandoned, lost, strayed>>, spent' \in Spending, Timely,
         \/ /\ done = Calls /\ base' = obj
            /\ \/ pc = "mark" /\ pc' = "prerequisites"
               \/ pc = "announced" /\ pc' = "release"
               \/ pc = "progress" /\ pc' = "end"
         \/ base' = base /\ pc' = "end"
  PROVE  IInv'
<1> DEFINE new == Patched(api, base, obj, done)
<1>1. /\ Busy /\ Patching /\ Running /\ ~obj.deleting /\ obj.exists /\ obj \in HelmRelease
      /\ Patching' /\ Running' /\ pc' # "idle"
  BY Zenon DEF Busy, Patching, Running, IInv, Placed, Guarded, ObjectTypes
<1>2. /\ new \in HelmRelease /\ SameSpec(new, api) /\ new.exists /\ new.finalizer
      /\ api.exists /\ api.finalizer /\ base.finalizer /\ obj.finalizer
      /\ "status" \notin done => SameStatus(new, api)
      /\ "status" \in done =>
           /\ lost = Targets \/ Record(new) = Record(obj)
           /\ strayed = Templates \/ new.chart = obj.chart
           /\ api.history \in {base.history, obj.history} => new.history = obj.history
  BY <1>1, PatchOfActive, Zenon
<1>3. Write(new)
  OBVIOUS
<1>4. "status" \notin done => done # Calls /\ base' = base /\ pc' = "end"
  BY Zenon DEF Calls
<1> HIDE DEF new
<1>5. ObjectTypes' /\ api' = new /\ cache' = cache
  BY <1>1, <1>2, <1>3, WriteAdds, Zenon DEF IInv, ObjectTypes, Watched
<1>6. Watched'
  BY <1>2, <1>3, WriteKeepsWatched, Zenon DEF IInv, SameSpec
<1>7. OtherTypes'
  BY Zenon DEF IInv, OtherTypes, Pcs
<1>8. Placed'
  BY <1>1, Zenon DEF IInv, Placed, Releasing
<1>9. cache.exists \/ pending' = <<>>
  <2>1. CASE cache.exists
    BY <2>1, Zenon
  <2>2. CASE pending = <<>>
    <3>1. Before(api, cache) /\ cache = api
      BY <2>2, Zenon DEF IInv, Watched, Version, Before, ObjectTypes, Versions
    <3> QED BY <3>1, <1>2, Zenon
  <2> QED BY <2>1, <2>2, <1>1, Zenon DEF IInv, Guarded
<1>10. Guarded'
  BY <1>1, <1>2, <1>5, <1>9, Zenon DEF IInv, Guarded, Busy, Patching, Running
<1>11. ReleaseTracked'
  <2>1. RecordTracked'
    <3>1. CASE "status" \in done
      BY <3>1, <1>2, <1>4, <1>5, Zenon DEF RecordTracked, Record
    <3>2. CASE "status" \notin done
      <4>1. lost = Targets \/ Record(api) = Record(base)
        BY <1>1, Zenon DEF IInv, ReleaseTracked, RecordTracked, Busy
      <4> QED BY <3>2, <4>1, <1>2, <1>4, <1>5, Zenon DEF RecordTracked, Record, SameStatus
    <3> QED BY <3>1, <3>2, Zenon
  <2>2. ASSUME NEW t \in Targets, Owned(t)'
        PROVE  /\ api'.exists /\ api'.finalizer /\ Records(obj', t)
               /\ Releasing' => t = obj'.target
    <3>1. Owned(t)
      BY <2>2, Zenon DEF Owned, Live
    <3>2. Releasing' => Releasing
      BY Zenon DEF Releasing
    <3> QED BY <3>1, <3>2, <1>1, <1>2, <1>5, Zenon DEF IInv, ReleaseTracked
  <2> QED BY <2>1, <2>2, <1>1, Zenon DEF ReleaseTracked, Records
<1>12. ChartsTracked'
  <2>1. ChartTracked'
    <3>1. CASE "status" \in done
      BY <3>1, <1>2, <1>4, <1>5, Zenon DEF ChartTracked
    <3>2. CASE "status" \notin done
      <4>1. strayed = Templates \/ api.chart = base.chart
        BY <1>1, Zenon DEF IInv, ChartsTracked, ChartTracked, Busy
      <4> QED BY <3>2, <4>1, <1>2, <1>4, <1>5, Zenon DEF ChartTracked, SameStatus
    <3> QED BY <3>1, <3>2
  <2>2. ASSUME NEW c \in Templates, OwnedChart(c)'
        PROVE  api'.exists /\ api'.finalizer /\ obj'.chart = c
    <3>1. OwnedChart(c)
      BY <2>2, Zenon DEF OwnedChart
    <3> QED BY <3>1, <1>1, <1>2, <1>5, Zenon DEF IInv, ChartsTracked
  <2> QED BY <2>1, <2>2, <1>1, Zenon DEF ChartsTracked
<1>13. Synced'
  <2> SUFFICES ASSUME spent'.timeouts = 0
               PROVE  /\ Early' => /\ SameHistory' /\ obj'.history = api'.history
                                   /\ base'.history = api'.history
                      /\ HistorySettles'
                      /\ api'.history \in {base'.history, obj'.history}
    BY <1>1, Zenon DEF Synced, Running
  <2>1. /\ Early => SameHistory /\ obj.history = api.history /\ base.history = api.history
        /\ HistorySettles
        /\ api.history \in {base.history, obj.history}
    BY <1>1, Zenon DEF IInv, Synced, Timely
  <2>2. "status" \in done => new.history = obj.history
    BY <2>1, <1>2, Zenon
  <2>3. "status" \notin done => new.history = api.history /\ base' = base
    BY <1>2, <1>4, Zenon DEF SameStatus
  <2>4. HistorySettles'
    BY <2>1, <2>2, <2>3, <1>2, <1>3, WriteKeepsHistory, Zenon DEF IInv
  <2>5. ASSUME Early'
        PROVE  /\ SameHistory' /\ obj'.history = api'.history
               /\ base'.history = api'.history
    <3>1. Early /\ base' = obj /\ "status" \in done
      BY <2>5, <1>1, Zenon DEF Early, Calls
    <3>2. SameHistory'
      BY <3>1, <2>1, <2>2, <1>2, <1>3, WriteKeepsSame, Zenon DEF IInv
    <3> QED BY <3>1, <3>2, <2>2, <1>5, Zenon
  <2> QED BY <2>1, <2>2, <2>3, <2>4, <2>5, <1>5, Zenon
<1> QED BY <1>5, <1>6, <1>7, <1>8, <1>10, <1>11, <1>12, <1>13, Zenon DEF IInv

LEMMA PatchesKept ==
  IInv /\ (MarkReconciling \/ Announced \/ Progress \/ PatchFails) => IInv'
<1> SUFFICES ASSUME IInv, MarkReconciling \/ Announced \/ Progress \/ PatchFails PROVE IInv'
  OBVIOUS
<1>1. /\ UNCHANGED <<obj, store, made, charts, seen>>
      /\ UNCHANGED <<abandoned, lost, strayed>>
  BY Zenon DEF MarkReconciling, Announced, Progress, PatchFails, PatchAt, Frame
<1>2. CASE MarkReconciling \/ Announced \/ Progress
  <2>1. Write(Patched(api, base, obj, Calls)) /\ base' = obj /\ spent' = spent
    BY <1>2, Zenon DEF MarkReconciling, Announced, Progress, PatchAt
  <2>2. \/ pc = "mark" /\ pc' = "prerequisites"
        \/ pc = "announced" /\ pc' = "release"
        \/ pc = "progress" /\ pc' = "end"
    BY <1>2, Zenon DEF MarkReconciling, Announced, Progress, PatchAt, Goto, Return
  <2>3. spent' \in Spending /\ Timely
    BY <2>1, Zenon DEF IInv, OtherTypes, Timely
  <2> QED BY <1>1, <2>1, <2>2, <2>3, ActivePatchKept, Zenon
<1>3. CASE PatchFails
  <2>1. PICK done \in SUBSET Calls \ {Calls} : Write(Patched(api, base, obj, done))
    BY <1>3, Zenon DEF PatchFails
  <2>2. spent' \in Spending /\ Timely
    BY <1>3, TroubleCounts, Zenon DEF PatchFails, IInv, OtherTypes
  <2>3. pc \in {"mark", "announced", "progress"} /\ base' = base /\ pc' = "end"
    BY <1>3, Zenon DEF PatchFails, Return
  <2> QED BY <1>1, <2>1, <2>2, <2>3, ActivePatchKept, Zenon
<1> QED BY <1>2, <1>3, Zenon

(* ------------------------ the end of a reconcile ----------------------- *)

\* The deferred patch: the finalizer goes with what it guarded.
LEMMA FinalPatchKept ==
  ASSUME IInv, pc = "end", NEW done \in SUBSET Calls, FinalPatch(done),
         spent' \in Spending, Timely
  PROVE  IInv'
<1> DEFINE o == Observed(obj, result)
           new == Patched(api, base, o, done)
<1>1. /\ Patching /\ Running /\ ~Busy /\ pc' = "sync" /\ obj.exists /\ obj \in HelmRelease
      /\ base \in HelmRelease /\ api \in HelmRelease /\ ~Patching' /\ Running' /\ ~Busy'
      /\ ~Early' /\ ~Early
  BY Zenon DEF Busy, Patching, Running, IInv, Guarded, ObjectTypes, FinalPatch, Early
<1>2. /\ o \in HelmRelease /\ SameSpec(o, obj) /\ o.exists /\ (o.finalizer <=> obj.finalizer)
      /\ o.history = obj.history /\ o.storageNs = obj.storageNs /\ o.chart = obj.chart
  <2>1. obj.gen \in Nat
    BY <1>1, Zenon DEF HelmRelease
  <2>2. \/ o = obj
        \/ o = [obj EXCEPT !.observed = obj.gen]
    BY Zenon DEF Observed
  <2>3. CASE o = obj
    BY <2>3, <1>1, Zenon DEF SameSpec
  <2>4. CASE o = [obj EXCEPT !.observed = obj.gen]
    BY <2>1, <2>4, <1>1, ObservedFields
  <2> QED BY <2>2, <2>3, <2>4, Zenon
<1>3. /\ obj' = o /\ base' = o
      /\ IF api.exists THEN Write(new) ELSE UNCHANGED objects
      /\ lost' = IF done = Calls THEN lost ELSE lost \cup Unrecorded(new)
      /\ strayed' = IF done = Calls THEN strayed ELSE strayed \cup Uncharted(new)
      /\ UNCHANGED <<store, made, charts, seen, abandoned>>
  BY Zenon DEF FinalPatch
<1> HIDE DEF o
<1>4. Patches(api, base, o, done, new)
  BY <1>1, <1>2, PatchedFields, Zenon
<1> HIDE DEF new
<1>5. new \in HelmRelease /\ SameSpec(new, api)
  BY <1>4, Zenon DEF Patches
\* What keeps the finalizer, and what lets it go.
<1>6. api.exists /\ api.finalizer /\ ~new.finalizer =>
        /\ obj.deleting /\ cache.deleting /\ ~new.exists
        /\ abandoned \/ (obj.storageNs = "none" /\ obj.chart = "none")
  <2> SUFFICES ASSUME api.exists, api.finalizer, ~new.finalizer
               PROVE  /\ obj.deleting /\ cache.deleting /\ ~new.exists
                      /\ abandoned \/ (obj.storageNs = "none" /\ obj.chart = "none")
    OBVIOUS
  <2>1. "metadata" \in done /\ ~o.finalizer /\ o.finalizer # base.finalizer
    BY <1>4, Zenon DEF Patches, Merge
  <2>2. base.finalizer /\ ~obj.finalizer
    BY <2>1, <1>1, <1>2, Zenon DEF HelmRelease
  <2>3. obj.deleting /\ cache.deleting
    BY <2>2, <1>1, Zenon DEF IInv, Guarded
  <2>4. api.deleting
    BY <2>3, VersionTypes, Zenon DEF IInv, Watched, Before
  <2>5. ~new.exists
    BY <2>1, <2>4, <1>4, Zenon DEF Patches
  <2> QED BY <2>2, <2>3, <2>5, <1>1, Zenon DEF IInv, Guarded
<1>7. ObjectTypes' /\ cache' = cache /\ (api.exists => api' = new)
      /\ (~api.exists => api' = api /\ pending' = pending)
  BY <1>2, <1>3, <1>5, WriteAdds, Zenon DEF IInv, ObjectTypes, Watched, objects
<1>8. Watched'
  <2>1. CASE ~api.exists
    BY <2>1, <1>3, SameVersions, Zenon DEF IInv
  <2>2. CASE api.exists
    <3>1. new.exists /\ api.finalizer => new.finalizer
      BY <2>2, <1>6, Zenon
    <3>2. new.exists /\ new.deleting => new.finalizer
      <4> SUFFICES ASSUME new.exists, new.deleting PROVE new.finalizer
        OBVIOUS
      <4>1. api.deleting /\ api.exists
        BY <2>2, <1>5, Zenon DEF SameSpec
      <4>2. api.finalizer
        BY <4>1, VersionTypes, Zenon DEF IInv, Watched
      <4> QED BY <4>2, <3>1, Zenon
    <3>3. ~new.exists => cache.deleting \/ ~api.finalizer
      <4> SUFFICES ASSUME ~new.exists, api.finalizer PROVE cache.deleting
        OBVIOUS
      <4>1. ~new.finalizer
        BY <2>2, <1>4, Zenon DEF Patches
      <4> QED BY <2>2, <4>1, <1>6, Zenon
    <3> QED BY <2>2, <3>1, <3>2, <3>3, <1>3, <1>5, WriteKeepsWatched DEF IInv, SameSpec
  <2> QED BY <2>1, <2>2, Zenon
<1>9. OtherTypes'
  BY <1>1, <1>3, Zenon DEF IInv, OtherTypes, Pcs, Unrecorded, Uncharted
<1>10. Placed'
  BY <1>1, Zenon DEF Placed, Releasing
<1>11. Guarded'
  <2>1. cache.exists \/ pending' = <<>>
    <3>1. CASE cache.exists
      BY <3>1, Zenon
    <3>2. CASE pending = <<>> /\ ~cache.exists
      <4>1. cache = api
        BY <3>2, Zenon DEF IInv, Watched, Version
      <4> QED BY <3>2, <4>1, <1>7, Zenon
    <3> QED BY <3>1, <3>2, <1>1, Zenon DEF IInv, Guarded
  <2>2. obj'.deleting => cache'.deleting
    BY <1>1, <1>2, <1>3, <1>7 DEF IInv, Guarded, SameSpec
  <2>3. api'.exists /\ ~api'.finalizer => api'.storageNs = "none" /\ api'.chart = "none"
    <3> SUFFICES ASSUME api'.exists, ~api'.finalizer
                 PROVE  api'.storageNs = "none" /\ api'.chart = "none"
      OBVIOUS
    <3>1. api.exists /\ api' = new /\ new.exists /\ ~new.finalizer
      BY <1>7, Zenon
    <3>2. ~api.finalizer /\ api.storageNs = "none" /\ api.chart = "none"
      BY <3>1, <1>6, Zenon DEF IInv, Guarded
    <3>3. o.storageNs = base.storageNs /\ o.chart = base.chart
      BY <3>1, <3>2, <1>1, <1>2 DEF IInv, Guarded
    <3> QED BY <3>1, <3>2, <3>3, <1>4, Zenon DEF Patches, Merge, SameStatus
  <2> QED BY <2>1, <2>2, <2>3, <1>1, <1>2, <1>3, <1>7 DEF Guarded
<1>12. ReleaseTracked'
  <2> SUFFICES ASSUME NEW t \in Targets, Owned(t)'
               PROVE  api'.exists /\ api'.finalizer /\ Records(api', t)
    BY <1>1, Zenon DEF ReleaseTracked, Releasing, Records
  <2>1. Owned(t)
    BY <1>3, Zenon DEF Owned, Live
  <2>2. /\ api.exists /\ api.finalizer /\ Records(obj, t) /\ t \notin lost /\ ~abandoned
        /\ obj.storageNs # "none" /\ obj.history.name = t[2] /\ obj.storageNs = t[1]
    <3>1. api.exists /\ api.finalizer /\ Records(obj, t) /\ t \notin lost /\ ~abandoned
      BY <2>1, <1>1, Zenon DEF IInv, ReleaseTracked, Owned
    <3> QED BY <3>1, TargetPair, Zenon DEF Records
  <2>3. new.finalizer
    BY <2>2, <1>6, Zenon
  <2>4. new.exists
    BY <2>2, <2>3, <1>4, Zenon DEF Patches
  <2>5. Records(new, t)
    <3>1. CASE done = Calls
      <4>1. "status" \in done
        BY <3>1, Zenon DEF Calls
      <4>2. /\ new.history = Merge(api, base, o, "history")
            /\ new.storageNs = Merge(api, base, o, "storageNs")
        BY <2>4, <4>1, <1>4, Zenon DEF Patches
      <4>3. Record(api) = Record(base) \/ Record(api) = Record(obj)
        BY <2>2, <1>1, Zenon DEF IInv, ReleaseTracked, RecordTracked
      <4>4. new.history = obj.history /\ new.storageNs = obj.storageNs
        BY <4>2, <4>3, <1>2, Zenon DEF Merge, Record
      <4> QED BY <2>2, <2>4, <4>4, Zenon DEF Records
    <3>2. CASE done # Calls
      BY <2>1, <3>2, <1>3, Zenon DEF Owned, Unrecorded
    <3> QED BY <3>1, <3>2, Zenon
  <2> QED BY <2>2, <2>3, <2>4, <2>5, <1>7, Zenon
<1>13. ChartsTracked'
  <2> SUFFICES ASSUME NEW c \in Templates, OwnedChart(c)'
               PROVE  api'.exists /\ api'.finalizer /\ api'.chart = c
    BY <1>1, Zenon DEF ChartsTracked
  <2>1. OwnedChart(c) /\ c # "none"
    BY <1>3, ReconcilerAssumption, Zenon DEF OwnedChart, Sources
  <2>2. api.exists /\ api.finalizer /\ obj.chart = c /\ c \notin strayed /\ ~abandoned
    BY <2>1, <1>1, Zenon DEF IInv, ChartsTracked, OwnedChart
  <2>3. new.finalizer
    BY <2>1, <2>2, <1>6, Zenon
  <2>4. new.exists
    BY <2>2, <2>3, <1>4, Zenon DEF Patches
  <2>5. new.chart = c
    <3>1. CASE done = Calls
      <4>1. "status" \in done
        BY <3>1 DEF Calls
      <4>2. new.chart = Merge(api, base, o, "chart")
        BY <2>4, <4>1, <1>4, Zenon DEF Patches
      <4>3. api.chart = base.chart \/ api.chart = obj.chart
        BY <2>2, <1>1, Zenon DEF IInv, ChartsTracked, ChartTracked
      <4> QED BY <2>2, <4>2, <4>3, <1>2, Zenon DEF Merge
    <3>2. CASE done # Calls
      BY <2>1, <3>2, <1>3, Zenon DEF OwnedChart, Uncharted
    <3> QED BY <3>1, <3>2, Zenon
  <2> QED BY <2>2, <2>3, <2>4, <2>5, <1>7, Zenon
<1>14. Synced'
  <2> SUFFICES ASSUME spent'.timeouts = 0 PROVE HistorySettles'
    BY <1>1, Zenon DEF Synced
  <2>1. HistorySettles
    BY <1>1, Zenon DEF IInv, Synced, Timely
  <2>2. CASE ~api.exists
    BY <2>1, <2>2, <1>2, <1>3, SameVersions, Zenon DEF HistorySettles
  <2>3. CASE api.exists
    <3>1. new.history \in {api.history, obj.history}
      BY <1>2, <1>4, Zenon DEF Patches, Merge, SameStatus
    <3> QED BY <2>1, <2>3, <3>1, <1>2, <1>3, <1>5, WriteKeepsHistory, Zenon DEF IInv
  <2> QED BY <2>2, <2>3, Zenon
<1> QED BY <1>7, <1>8, <1>9, <1>10, <1>11, <1>12, <1>13, <1>14 DEF IInv

LEMMA FinishKept == IInv /\ (Finish \/ FinishPartly) => IInv'
<1> SUFFICES ASSUME IInv, Finish \/ FinishPartly PROVE IInv'
  OBVIOUS
<1>1. pc = "end" /\ \E done \in SUBSET Calls : FinalPatch(done)
  BY Zenon DEF Finish, FinishPartly
<1>2. spent' \in Spending /\ Timely
  BY TroubleCounts, Zenon DEF Finish, FinishPartly, IInv, OtherTypes, Timely
<1> QED BY <1>1, <1>2, FinalPatchKept, Zenon

(* ---------------------- the end of a reconcile ------------------------- *)

\* A release the status in the API server records is guarded by the finalizer.
LEMMA RecordedIsGuarded ==
  ASSUME IInv
  PROVE  /\ \A t \in Targets : Records(api, t) => api.exists /\ api.finalizer
         /\ \A c \in Templates : api.exists /\ api.chart = c => api.finalizer
<1>1. ASSUME NEW t \in Targets, Records(api, t) PROVE api.exists /\ api.finalizer
  <2>1. api.storageNs # "none" /\ api.exists
    BY <1>1, TargetPair, Zenon DEF Records
  <2> QED BY <2>1, Zenon DEF IInv, Guarded
<1>2. ASSUME NEW c \in Templates, api.exists /\ api.chart = c PROVE api.finalizer
  <2>1. api.chart # "none"
    BY <1>2, ReconcilerAssumption, Zenon DEF Sources
  <2> QED BY <1>2, <2>1, Zenon DEF IInv, Guarded
<1> QED BY <1>1, <1>2, Zenon

LEMMA SyncKept == IInv /\ (Sync \/ SyncTimesOut) => IInv'
<1> SUFFICES ASSUME IInv, Sync \/ SyncTimesOut PROVE IInv'
  OBVIOUS
<1>1. /\ pc = "sync" /\ pc' = "idle" /\ obj' = cache /\ base' = cache
      /\ UNCHANGED <<objects, store, made, charts, seen, abandoned>>
      /\ api' = api /\ cache' = cache /\ pending' = pending
  BY Zenon DEF Sync, SyncTimesOut, Leave, objects
<1>2. /\ ~Patching /\ ~Patching' /\ ~Running' /\ ~Busy' /\ ~Early' /\ ~Releasing' /\ Running
  BY <1>1, Zenon DEF Patching, Running, Busy, Early, Releasing
<1>3. spent' \in Spending /\ Timely
  BY TroubleCounts, Zenon DEF Sync, SyncTimesOut, IInv, OtherTypes, Timely
<1>4. lost' \subseteq Targets /\ strayed' \subseteq Templates
  BY Zenon DEF Sync, SyncTimesOut, IInv, OtherTypes, Unrecorded
<1>5. ObjectTypes' /\ Watched'
  BY <1>1, SameVersions, Zenon DEF IInv, ObjectTypes
<1>6. OtherTypes' /\ Placed'
  BY <1>1, <1>2, <1>3, <1>4 DEF IInv, OtherTypes, Pcs, Placed, Releasing
<1>7. Guarded'
  BY <1>1, <1>2, Zenon DEF IInv, Guarded
<1>8. ReleaseTracked'
  <2> SUFFICES ASSUME NEW t \in Targets, Owned(t)'
               PROVE  api'.exists /\ api'.finalizer /\ Records(api', t)
    BY <1>2, Zenon DEF ReleaseTracked, Records
  <2>1. Owned(t) \/ Records(api, t)
    BY <1>1, Zenon DEF Owned, Live, Sync, SyncTimesOut
  <2>2. Records(api, t)
    BY <2>1, <1>2, Zenon DEF IInv, ReleaseTracked
  <2> QED BY <2>2, <1>1, RecordedIsGuarded, Zenon
<1>9. ChartsTracked'
  <2> SUFFICES ASSUME NEW c \in Templates, OwnedChart(c)'
               PROVE  api'.exists /\ api'.finalizer /\ api'.chart = c
    BY <1>2, Zenon DEF ChartsTracked
  <2>1. OwnedChart(c) \/ (api.exists /\ api.chart = c)
    BY <1>1, Zenon DEF OwnedChart, Sync, SyncTimesOut
  <2>2. api.exists /\ api.chart = c
    BY <2>1, <1>2, Zenon DEF IInv, ChartsTracked
  <2> QED BY <2>2, <1>1, RecordedIsGuarded, Zenon
<1>10. Synced'
  <2> SUFFICES ASSUME spent'.timeouts = 0 PROVE SameHistory'
    BY <1>2, Zenon DEF Synced
  <2>1. HistorySettles /\ spent.timeouts = 0
    BY <1>2, <1>3, Zenon DEF IInv, Synced, Timely
  <2>2. CASE pending = <<>>
    BY <2>2, <1>1 DEF SameHistory, Version, Versions, IInv, Watched
  <2>3. CASE pending # <<>>
    <3>1. Sync
      BY <2>3, TroubleCounts, Zenon DEF SyncTimesOut, IInv, OtherTypes
    <3>2. cache.exists
      BY <2>3, <1>2, Zenon DEF IInv, Guarded
    <3>3. cache.history = obj.history
      BY <3>1, <3>2, Zenon DEF Sync, HistorySynced
    <3>4. \A j \in Versions : Version(j).history = obj.history
      BY <3>3, <2>1, VersionTypes, Zenon DEF HistorySettles, IInv
    <3>5. SameHistory
      BY <3>4, VersionTypes, Zenon DEF SameHistory, IInv, Watched
    <3> QED BY <3>5, <1>1, SameVersions, Zenon
  <2> QED BY <2>2, <2>3, Zenon
<1> QED BY <1>5, <1>6, <1>7, <1>8, <1>9, <1>10, Zenon DEF IInv

\* A restart finds the record the API server has.
LEMMA CrashKept == IInv /\ Crash => IInv'
<1> SUFFICES ASSUME IInv, Crash PROVE IInv'
  OBVIOUS
<1>1. /\ pc' = "idle" /\ obj' = api /\ base' = api /\ cache' = api /\ api' = api
      /\ pending' = <<>> /\ seen' = charts
      /\ UNCHANGED <<store, made, charts, abandoned>>
      /\ lost' = lost \cup Unrecorded(api) /\ strayed' = strayed \cup Uncharted(api)
  BY Zenon DEF Crash
<1>2. /\ ~Patching' /\ ~Running' /\ ~Busy' /\ ~Early' /\ ~Releasing'
  BY <1>1, Zenon DEF Patching, Running, Busy, Early, Releasing
<1>3. spent' \in Spending
  BY TroubleCounts, Zenon DEF Crash, IInv, OtherTypes
<1>4. ObjectTypes'
  BY <1>1 DEF IInv, ObjectTypes
<1>5. Versions' = {0} /\ Len(pending') = 0 /\ Version(0)' = api /\ Version(Len(pending))' = api
  BY <1>1 DEF Versions, Version
<1>6. Watched'
  <2>1. api.exists /\ api.deleting => api.finalizer
    BY VersionTypes, Zenon DEF IInv, Watched
  <2> QED BY <2>1, <1>1, <1>5, Zenon DEF Watched, Before
<1>7. OtherTypes' /\ Placed'
  BY <1>1, <1>2, <1>3, Zenon DEF IInv, OtherTypes, Pcs, Placed, Releasing, Unrecorded, Uncharted
<1>8. Guarded'
  BY <1>1, <1>2, Zenon DEF IInv, Guarded
<1>9. ReleaseTracked'
  <2> SUFFICES ASSUME NEW t \in Targets, Owned(t)'
               PROVE  api'.exists /\ api'.finalizer /\ Records(api', t)
    BY <1>2, Zenon DEF ReleaseTracked, Records
  <2>1. Records(api, t)
    BY <1>1, Zenon DEF Owned, Live, Unrecorded
  <2> QED BY <2>1, <1>1, RecordedIsGuarded, Zenon
<1>10. ChartsTracked'
  <2> SUFFICES ASSUME NEW c \in Templates, OwnedChart(c)'
               PROVE  api'.exists /\ api'.finalizer /\ api'.chart = c
    BY <1>2, Zenon DEF ChartsTracked
  <2>1. api.chart = c /\ OwnedChart(c)
    BY <1>1, Zenon DEF OwnedChart, Uncharted
  <2>2. api.exists
    BY <2>1, Zenon DEF IInv, ChartsTracked
  <2> QED BY <2>1, <2>2, <1>1, RecordedIsGuarded, Zenon
<1>11. Synced'
  BY <1>1, <1>2, <1>5, Zenon DEF Synced, SameHistory
<1> QED BY <1>4, <1>6, <1>7, <1>8, <1>9, <1>10, <1>11, Zenon DEF IInv
=============================================================================
