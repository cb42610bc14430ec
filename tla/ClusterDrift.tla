---------------------------- MODULE ClusterDrift ----------------------------
(* Detection and correction of drift between the manifest of a deployed     *)
(* release and the cluster (internal/action/diff.go, the drift part of      *)
(* internal/reconcile).  Objects are read and corrected one by one while    *)
(* others change them; a round of detection ends in a correction, an error  *)
(* or nothing to do, and the next one follows.                              *)
EXTENDS Manifests, Integers, FiniteSets

CONSTANTS
  DriftSetups,       \* see DriftSetupsAssumption
  SortedNames,       \* the names in the order of ssa.IsLessThan
  NamespaceObject,   \* the name of a Namespace that the chart has
  Paths,             \* what objects have that may drift
  MaxDriftTroubles   \* changes by others and failures

Labels == [LabelKeys -> {Unset, ReleaseName, "disabled", "common"}]

\* chart are the objects of the templates in the order of the manifest and
\* dir the names in crds/; kustomizations and common are the post-renderers.
\* mode is the mode of drift detection, ignore what its rules ignore, and
\* override tells whether there are disallowed field managers.
ASSUME DriftSetupsAssumption ==
  /\ \A s \in DriftSetups :
       /\ s.mode \in {"enabled", "warn"} /\ s.override \in BOOLEAN
       /\ s.common \in Labels
       /\ \A i \in DOMAIN s.chart : \E j \in DOMAIN SortedNames :
            SortedNames[j] = s.chart[i].name
       /\ s.ignore \subseteq {SortedNames[j] : j \in DOMAIN SortedNames} \X Paths
  /\ MaxDriftTroubles \in Nat

VARIABLES
  drift,       \* the element of DriftSetups this behaviour is about
  manifest,    \* the manifest of the release in storage
  inventory,   \* .status.inventory
  cluster,     \* the objects of the chart in the cluster
  round,       \* the round of detection and correction that is under way
  touched,     \* ghost: others have changed something
  clean,       \* ghost: nothing has gone wrong in this round
  driftSpent

driftVars == <<drift, manifest, inventory, cluster, round, touched, clean, driftSpent>>

Names == {SortedNames[i] : i \in DOMAIN SortedNames}

\* An object has a value at each path, the metadata of Helm, and possibly a
\* field of another manager, which Helm owns once the manager is replaced.
NoObject == [exists |-> FALSE, value |-> [p \in Paths |-> "none"], helm |-> FALSE, extra |-> "none"]
DesiredObject == [exists |-> TRUE, value |-> [p \in Paths |-> "desired"], helm |-> TRUE, extra |-> "none"]

NoRound == [pc |-> "idle", at |-> 1, ns |-> << >>, known |-> {}, set |-> << >>,
            errors |-> FALSE, changes |-> {}]

DriftTrouble == driftSpent < MaxDriftTroubles /\ driftSpent' = driftSpent + 1

Objects == manifest
Object == Objects[round.at]
ObjectsDone == round.at > Len(Objects)
RoundAt(pc) == round.pc = pc
SetRound(x) == round' = x @@ round
Excluded(o) == o.labels["drift"] = "disabled"

(* --------------------------- the release is made ----------------------- *)

\* The chart is rendered, Helm creates the objects, and the inventory is
\* built from the manifest; the scope of a kind may not be found out.
InstallRelease ==
  /\ RoundAt("none")
  /\ LET rendered == Run(BuildPostRenderers(drift.kustomizations, drift.common), drift.chart)
     IN IF rendered = Failed
        THEN /\ SetRound([pc |-> "failed"])
             /\ UNCHANGED <<manifest, inventory, cluster, driftSpent>>
        ELSE /\ manifest' = Manifest(rendered)
             /\ \/ inventory' = AddManifest(manifest', {}) \cup AddCRDs(drift.dir)
                   /\ UNCHANGED driftSpent
                \/ \E i \in DOMAIN manifest' :
                     inventory' = AddManifest(manifest', {manifest'[i].name}) \cup AddCRDs(drift.dir)
                   /\ DriftTrouble
             /\ cluster' = [n \in Names |->
                  IF \E i \in DOMAIN manifest' : manifest'[i].name = n THEN DesiredObject ELSE NoObject]
             /\ SetRound([pc |-> "idle"])
  /\ UNCHANGED <<drift, touched, clean>>

(* --------------------------------- Diff -------------------------------- *)

\* The interval or a requeue starts the next round.
StartRound ==
  /\ RoundAt("idle")
  /\ round' = [NoRound EXCEPT !.pc = "prepare",
                              !.ns = [i \in DOMAIN Objects |-> Objects[i].ns]]
  /\ clean' = TRUE
  /\ UNCHANGED <<drift, manifest, inventory, cluster, touched, driftSpent>>

\* The namespace of an object without one, as far as its kind is known.
PrepareObject ==
  /\ RoundAt("prepare")
  /\ IF ObjectsDone
     THEN SetRound([pc |-> IF drift.override THEN "managers" ELSE "diff", at |-> 1])
     ELSE SetRound([at |-> round.at + 1,
                    ns |-> [round.ns EXCEPT ![round.at] = SetNamespace(Object, {})]])
  /\ UNCHANGED <<drift, manifest, inventory, cluster, touched, clean, driftSpent>>

\* The error is kept, and the object compared without a namespace.
PrepareFails ==
  /\ RoundAt("prepare") /\ ~ObjectsDone /\ Object.ns = "" /\ DriftTrouble
  /\ SetRound([at |-> round.at + 1, errors |-> TRUE])
  /\ clean' = FALSE
  /\ UNCHANGED <<drift, manifest, inventory, cluster, touched>>

\* What a request for the object finds.
Found == cluster[Object.name].exists /\ round.ns[round.at] = HelmNamespace(Object)

\* replaceDisallowedFieldManagers: their fields become the controller's.
ReplaceManagers ==
  /\ RoundAt("managers")
  /\ IF ObjectsDone THEN SetRound([pc |-> "diff", at |-> 1]) /\ UNCHANGED cluster
     ELSE /\ SetRound([at |-> round.at + 1])
          /\ cluster' = IF Found /\ cluster[Object.name].extra = "disallowed"
                        THEN [cluster EXCEPT ![Object.name].extra = "owned"] ELSE cluster
  /\ UNCHANGED <<drift, manifest, inventory, touched, clean, driftSpent>>

\* Diff returns without a set: the state is unknown and the round is over.
ReplaceFails ==
  /\ RoundAt("managers") /\ ~ObjectsDone /\ DriftTrouble
  /\ SetRound([pc |-> "idle"])
  /\ clean' = FALSE
  /\ UNCHANGED <<drift, manifest, inventory, cluster, touched>>

\* Mutant: the metadata that Helm adds is not part of the desired object.
AsInManifest(object) == FALSE

\* setHelmMetadata: the desired object has the metadata that Helm adds.
SetHelmMetadata(object) == TRUE

Ignored(n, p) == <<n, p>> \in drift.ignore

\* What a dry run of an apply shows to change in the object.
Drifted(n) ==
  {p \in Paths : cluster[n].value[p] # "desired" /\ ~Ignored(n, p)}
    \cup (IF cluster[n].extra = "owned" THEN {"extra"} ELSE {})
    \cup (IF cluster[n].helm # SetHelmMetadata(Object) THEN {"helm"} ELSE {})

NoDiff == [type |-> "none", paths |-> {}]

Compare(o) ==
  IF Excluded(o) THEN [type |-> "exclude", paths |-> {}]
  ELSE IF ~Found THEN [type |-> "create", paths |-> {}]
  ELSE IF Drifted(o.name) = {} THEN NoDiff
  ELSE [type |-> "update", paths |-> Drifted(o.name)]

\* The namespace an object is to be in is there.
HasNamespace(o) == HelmNamespace(o) = NamespaceObject => cluster[NamespaceObject].exists

\* The API server refuses a namespaced object without a namespace, and may
\* refuse one whose namespace does not exist.
Refused(o) == round.ns[round.at] # HelmNamespace(o)

\* jsondiff.UnstructuredList with Graceful: errors are collected.
DiffObject ==
  /\ RoundAt("diff") /\ ~ObjectsDone
  /\ ~Refused(Object) \/ Excluded(Object)
  /\ SetRound([at |-> round.at + 1, set |-> Append(round.set, Compare(Object))])
  /\ UNCHANGED <<drift, manifest, inventory, cluster, touched, clean, driftSpent>>

DiffRefused ==
  /\ RoundAt("diff") /\ ~ObjectsDone /\ ~Excluded(Object)
  /\ Refused(Object) \/ ~HasNamespace(Object)
  /\ SetRound([at |-> round.at + 1, set |-> Append(round.set, NoDiff), errors |-> TRUE])
  /\ UNCHANGED <<drift, manifest, inventory, cluster, touched, clean, driftSpent>>

DiffFails ==
  /\ RoundAt("diff") /\ ~ObjectsDone /\ DriftTrouble
  /\ SetRound([at |-> round.at + 1, set |-> Append(round.set, NoDiff), errors |-> TRUE])
  /\ clean' = FALSE
  /\ UNCHANGED <<drift, manifest, inventory, cluster, touched>>

HasChanges == \E i \in DOMAIN round.set : round.set[i].type \in {"create", "update"}

\* Mutant: drift found besides errors is not acted on.
DecideWithoutErrors ==
  /\ RoundAt("diff") /\ ObjectsDone
  /\ SetRound([pc |-> IF HasChanges /\ ~round.errors /\ drift.mode = "enabled" THEN "create" ELSE "idle",
               at |-> 1])
  /\ UNCHANGED <<drift, manifest, inventory, cluster, touched, clean, driftSpent>>

\* DetermineReleaseState: an error without changes is returned, with changes
\* it is logged.  Drift is corrected when the mode says so.
Decide ==
  /\ RoundAt("diff") /\ ObjectsDone
  /\ SetRound([pc |-> IF HasChanges /\ drift.mode = "enabled" THEN "create" ELSE "idle", at |-> 1])
  /\ UNCHANGED <<drift, manifest, inventory, cluster, touched, clean, driftSpent>>

(* ------------------------------- ApplyDiff ----------------------------- *)

IndexOf(n) == CHOOSE i \in DOMAIN Objects : Objects[i].name = n
InSet(n, type) == (\E i \in DOMAIN Objects : Objects[i].name = n) /\ round.set[IndexOf(n)].type = type

\* Mutant: the objects are created in the order of the manifest.
ManifestOrder(type) == SelectSeq([i \in DOMAIN Objects |-> Objects[i].name], LAMBDA n : InSet(n, type))

\* The diffs of a type, sorted by kind, namespace and name.
SortedDiffs(type) == SelectSeq(SortedNames, LAMBDA n : InSet(n, type))

ToApply == SortedDiffs(IF RoundAt("create") THEN "create" ELSE "update")
Target == ToApply[round.at]
Applying == round.pc \in {"create", "patch"} /\ round.at <= Len(ToApply)

\* The request succeeds unless others got in between.
Applies ==
  IF RoundAt("create") THEN ~cluster[Target].exists /\ HasNamespace(Objects[IndexOf(Target)])
  ELSE cluster[Target].exists

\* Mutant: a patch writes the whole object.
AppliedWhole ==
  [cluster EXCEPT ![Target] = DesiredObject]

\* A create makes the desired object, a patch changes what differed.
Applied ==
  IF RoundAt("create") THEN [cluster EXCEPT ![Target] = DesiredObject]
  ELSE LET paths == round.set[IndexOf(Target)].paths
       IN [cluster EXCEPT
             ![Target].value = [p \in Paths |-> IF p \in paths THEN "desired" ELSE @[p]],
             ![Target].extra = IF "extra" \in paths THEN "none" ELSE @,
             ![Target].helm = IF "helm" \in paths THEN SetHelmMetadata(Target) ELSE @]

ApplyOne ==
  /\ Applying
  /\ IF Applies
     THEN /\ cluster' = Applied
          /\ SetRound([at |-> round.at + 1, changes |-> round.changes \cup {Target}])
     ELSE /\ cluster' = cluster
          /\ SetRound([at |-> round.at + 1, errors |-> TRUE])
  /\ UNCHANGED <<drift, manifest, inventory, touched, clean, driftSpent>>

\* A failure, possibly of a request that was carried out, is kept and the
\* next object taken.
ApplyFails ==
  /\ Applying /\ DriftTrouble
  /\ cluster' \in {cluster} \cup (IF Applies THEN {Applied} ELSE {})
  /\ SetRound([at |-> round.at + 1, errors |-> TRUE])
  /\ clean' = FALSE
  /\ UNCHANGED <<drift, manifest, inventory, touched>>

AllApplied ==
  /\ round.pc \in {"create", "patch"} /\ ~Applying
  /\ SetRound(IF RoundAt("create") THEN [pc |-> "patch", at |-> 1] ELSE [pc |-> "report"])
  /\ UNCHANGED <<drift, manifest, inventory, cluster, touched, clean, driftSpent>>

\* report: errors are an event and no error of the reconcile.
Report ==
  /\ RoundAt("report")
  /\ round' = NoRound
  /\ UNCHANGED <<drift, manifest, inventory, cluster, touched, clean, driftSpent>>

(* -------------------------------- others ------------------------------- *)

Interferes(n, object) ==
  /\ round.pc \notin {"none", "failed"} /\ DriftTrouble
  /\ cluster' = [m \in Names |->
       IF m = n THEN object
       ELSE IF n = NamespaceObject /\ ~object.exists
               /\ \E i \in DOMAIN Objects : Objects[i].name = m /\ HelmNamespace(Objects[i]) = n
            THEN NoObject ELSE cluster[m]]
  /\ touched' = TRUE /\ clean' = FALSE
  /\ UNCHANGED <<drift, manifest, inventory, round>>

EditObject(n) ==
  /\ cluster[n].exists
  /\ \/ \E p \in Paths : Interferes(n, [cluster[n] EXCEPT !.value[p] = "other"])
     \/ cluster[n].extra = "none" /\ Interferes(n, [cluster[n] EXCEPT !.extra = "disallowed"])
     \/ cluster[n].helm /\ Interferes(n, [cluster[n] EXCEPT !.helm = FALSE])

DeleteObject(n) == cluster[n].exists /\ Interferes(n, NoObject)

(* ----------------------------- specification --------------------------- *)

DriftInit ==
  /\ drift \in DriftSetups
  /\ manifest = << >> /\ inventory = {}
  /\ cluster = [n \in Names |-> NoObject]
  /\ round = [NoRound EXCEPT !.pc = "none"]
  /\ touched = FALSE /\ clean = TRUE /\ driftSpent = 0

DriftStep ==
  \/ InstallRelease \/ StartRound \/ PrepareObject \/ ReplaceManagers
  \/ DiffObject \/ DiffRefused \/ Decide \/ ApplyOne \/ AllApplied \/ Report

DriftNext ==
  \/ DriftStep
  \/ PrepareFails \/ ReplaceFails \/ DiffFails \/ ApplyFails
  \/ \E n \in Names : EditObject(n) \/ DeleteObject(n)

\* The reconcile of the release recurs, and its steps are taken.
DriftFairness == WF_driftVars(DriftStep)

(* ------------------------------ properties ----------------------------- *)

Released == round.pc \notin {"none", "failed"}

\* What drift correction is to bring about for an object of the manifest.
Corrected(n) ==
  /\ cluster[n].exists /\ cluster[n].helm /\ cluster[n].extra # "owned"
  /\ \A p \in Paths : <<n, p>> \in drift.ignore \/ cluster[n].value[p] = "desired"

\* What the controller derives from a manifest is what Helm made of it.  The
\* objects carry the labels of their release whatever the post-renderers set
\* (the order of BuildPostRenderers); the inventory has each of them where
\* Helm put it, unless the scope of its kind could not be found out, and no
\* hooks (AddManifest, AddCRDs); and no drift is found as long as nobody
\* changes them (setHelmMetadata and the namespaces in Diff).
AgreesWithHelm ==
  Released =>
    /\ \A i \in DOMAIN manifest : manifest[i].labels["origin"] = ReleaseName
    /\ \A i \in DOMAIN Objects :
         \/ Id(Objects[i].name, HelmNamespace(Objects[i])) \in inventory
         \/ driftSpent > 0 /\ Id(Objects[i].name, "") \in inventory
    /\ \A id \in inventory : id[1] \in drift.dir \/ \E i \in DOMAIN Objects : Objects[i].name = id[1]
    /\ touched \/ ~HasChanges

\* The controller only writes what drift correction is for: in the mode that
\* corrects, to objects that are not excluded, and past what is ignored in
\* objects that exist.  Disallowed field managers are replaced in any mode.
WritesAreCorrections ==
  [][\A n \in Names :
       Released /\ round' # round /\ cluster'[n] # cluster[n] =>
         \/ drift.override /\ cluster'[n] = [cluster[n] EXCEPT !.extra = "owned"]
         \/ /\ drift.mode = "enabled" /\ ~Excluded(Objects[IndexOf(n)])
            /\ \A p \in Paths : <<n, p>> \in drift.ignore /\ cluster[n].exists
                               => cluster'[n].value[p] = cluster[n].value[p]]_driftVars

\* A round in which nothing goes wrong corrects all it found, and reports
\* just that: the objects are sorted so that what others are created in comes
\* first, and each request that succeeds is recorded (ApplyDiff).
RoundCorrects ==
  RoundAt("report") /\ clean =>
    LET found == {Objects[i].name : i \in {j \in DOMAIN round.set :
                    round.set[j].type \in {"create", "update"}}}
    IN round.changes = found /\ \A n \in found : Corrected(n)

\* When others stop, the objects that are not excluded get and stay as they
\* should be, fields of disallowed managers included, if the mode is enabled
\* (DetermineReleaseState acts on drift found besides errors, and rounds
\* recur).
DriftGetsCorrected ==
  drift.mode = "enabled" =>
    <>[](\/ round.pc = "failed"
         \/ /\ Released
            /\ \A i \in DOMAIN Objects :
                 \/ Excluded(Objects[i])
                 \/ /\ Corrected(Objects[i].name)
                    /\ drift.override => cluster[Objects[i].name].extra = "none")
=============================================================================
