------------------------------ MODULE Manifests ------------------------------
(* What a release is made of: the post-renderers that a HelmRelease asks    *)
(* for (internal/postrender), the objects that Helm makes of the result,    *)
(* and the inventory of them (internal/inventory).  An object is a record:  *)
(* its name stands for kind and name, ns is the namespace the chart gives   *)
(* it or "", hook tells whether it is a Helm hook, and labels are the       *)
(* labels and annotations that matter here.                                 *)
EXTENDS Sequences, SequencesExt

CONSTANTS
  ReleaseName,        \* of the HelmRelease, the value of the origin labels
  ReleaseNamespace,
  ClusterScoped       \* the names whose kind has no namespace

Unset == "unset"
LabelKeys == {"origin", "drift"}

(* ---------------------------- post-renderers --------------------------- *)

\* Kustomize: a patch of one object's labels.  A patch that does not apply
\* makes the build fail.
Kustomize(patch, objects) ==
  [i \in DOMAIN objects |->
     IF objects[i].name = patch.name
     THEN [objects[i] EXCEPT !.labels = [k \in LabelKeys |->
             IF patch.labels[k] = Unset THEN @[k] ELSE patch.labels[k]]]
     ELSE objects[i]]

\* labelTransformer: labels of all objects are set, hooks included.
SetLabels(labels, objects) ==
  [i \in DOMAIN objects |->
     [objects[i] EXCEPT !.labels = [k \in LabelKeys |->
        IF labels[k] = Unset THEN @[k] ELSE labels[k]]]]

OriginLabels == [k \in LabelKeys |-> IF k = "origin" THEN ReleaseName ELSE Unset]

\* The kustomizations in order, common metadata and then the origin labels.
BuildPostRenderers(kustomizations, common) ==
  kustomizations \o <<[type |-> "labels", labels |-> common],
                      [type |-> "labels", labels |-> OriginLabels]>>

Failed == <<>>

RunRenderer(objects, renderer) ==
  CASE renderer.type = "labels" -> SetLabels(renderer.labels, objects)
    [] renderer.type = "kustomize" -> Kustomize(renderer, objects)
    [] renderer.type = "broken" -> Failed

\* Combined.Run: each gets the result of the one before, until one fails.
Run(renderers, objects) ==
  FoldLeft(LAMBDA result, renderer :
             IF result = Failed THEN Failed ELSE RunRenderer(result, renderer),
           objects, renderers)

(* ------------------------- namespaces and inventory -------------------- *)

\* Helm gives the release namespace to a namespaced object without one.
HelmNamespace(object) ==
  IF object.name \in ClusterScoped THEN ""
  ELSE IF object.ns # "" THEN object.ns ELSE ReleaseNamespace

\* The manifest of the release: Helm keeps hooks out of it.
Manifest(objects) == SelectSeq(objects, LAMBDA o : ~o.hook)

\* setNamespaces, unless the scope of the kind cannot be determined.
SetNamespace(object, unknown) ==
  IF object.ns # "" \/ object.name \in unknown THEN object.ns
  ELSE IF object.name \in ClusterScoped THEN "" ELSE ReleaseNamespace

Id(name, ns) == <<name, ns>>

\* AddManifest: the objects that are no hooks, whose namespace stays as it
\* is when the kind is unknown.
AddManifest(objects, unknown) ==
  {Id(objects[i].name, SetNamespace(objects[i], unknown)) :
     i \in {j \in DOMAIN objects : ~objects[j].hook}}

\* AddCRDs: everything in crds/.
AddCRDs(dir) == {Id(name, "") : name \in dir}
=============================================================================
