------------------------------ MODULE MCSupport ------------------------------
(* Five parts that a release rests on and that share no state, one at a     *)
(* time: drift detection and correction, the log of an action and its       *)
(* handlers, the getter of clients, and the revisions of the source.        *)
EXTENDS ClusterDrift, LogBuffer, LogHandlers, RESTClientGetter, SourceRevisions

VARIABLE part

supportVars == <<part, driftVars, logVars, handlerVars, getterVars, sourceVars>>

(* -------------------------------- values ------------------------------- *)

NoLabels == [k \in LabelKeys |-> Unset]
Obj(name, ns, hook) == [name |-> name, ns |-> ns, hook |-> hook, labels |-> NoLabels]
MCChart == <<Obj("web", "space", FALSE), Obj("conf", "", FALSE),
             Obj("job", "", TRUE), Obj("space", "", FALSE)>>
MCSortedNames == <<"space", "conf", "job", "web">>

NotDetected(name) ==
  [type |-> "kustomize", name |-> name, labels |-> [NoLabels EXCEPT !["drift"] = "disabled"]]

DefaultDrift ==
  [mode |-> "enabled", override |-> FALSE, chart |-> MCChart, dir |-> {},
   kustomizations |-> << >>, common |-> NoLabels, ignore |-> {}]

\* Ignored paths and other managers; an excluded object; only warnings; and
\* post-renderers that fail.
MCDriftSetups ==
  {[override |-> TRUE, dir |-> {"crd"}, ignore |-> {<<"web", "replicas">>},
    common |-> [NoLabels EXCEPT !["origin"] = "common"]] @@ DefaultDrift,
   [kustomizations |-> <<NotDetected("conf")>>] @@ DefaultDrift,
   [mode |-> "warn", override |-> TRUE, kustomizations |-> <<NotDetected("web")>>,
    ignore |-> {<<"conf", "image">>}] @@ DefaultDrift,
   [kustomizations |-> <<[type |-> "broken"], NotDetected("web")>>] @@ DefaultDrift}

Artifact(tag, digest, version) ==
  [tag |-> tag, digest |-> digest, version |-> version]

\* A tag that moves, also between digests that begin alike and to a chart of
\* another version, and a revision without a tag.
Moving == {Artifact("1", <<"h1", "x">>, "1"), Artifact("1", <<"h1", "y">>, "1"),
           Artifact("1", <<"h2", "x">>, "1"), Artifact("1", <<"h3", "x">>, "2"),
           Artifact("none", <<"h2", "x">>, "1")}
\* A tag that is no version, a digest that is too short, and versions alone.
Named == {Artifact("latest", <<"h1", "x">>, "1"), Artifact("latest", <<"h2", "x">>, "1"),
          Artifact("2", <<"", "x">>, "2")}
Plain == {Artifact("1", NoDigest, "1"), Artifact("2", NoDigest, "2")}

SourceSetup(kind, artifacts, tracking) ==
  [kind |-> kind, artifacts |-> artifacts, tracking |-> tracking]
MCSourceSetups ==
  {SourceSetup("HelmChart", Plain, TRUE),
   SourceSetup("OCIRepository", Moving, TRUE),
   SourceSetup("OCIRepository", Named, TRUE),
   SourceSetup("OCIRepository", Moving, FALSE),
   SourceSetup("ExternalArtifact", Named \cup Plain, TRUE)}

\* What SourceAlwaysFollowed presumes holds of these.
ASSUME RevisionsNameVersions

(* ----------------------------- specification --------------------------- *)

Init == /\ part \in {"drift", "log", "handlers", "getter", "source"}
        /\ DriftInit /\ LogInit /\ HandlersInit /\ GetterInit /\ SourceInit
        /\ part # "drift" => drift = CHOOSE d \in DriftSetups : TRUE
        /\ part # "source" => from.kind = "HelmChart" /\ artifact.tag = "1"

InPart(p, others) == part = p /\ UNCHANGED <<part, others>>
Drift == InPart("drift", <<logVars, handlerVars, getterVars, sourceVars>>)
Log == InPart("log", <<driftVars, handlerVars, getterVars, sourceVars>>)
Handlers == InPart("handlers", <<driftVars, logVars, getterVars, sourceVars>>)
Getter == InPart("getter", <<driftVars, logVars, handlerVars, sourceVars>>)
Source == InPart("source", <<driftVars, logVars, handlerVars, getterVars>>)

Next ==
  \/ Drift /\ DriftNext
  \/ Log /\ LogNext
  \/ Handlers /\ HandlersNext
  \/ Getter /\ GetterNext
  \/ Source /\ SourceNext

\* The worker runs, the watch is served and the timer fires.
FairSpec ==
  /\ Init /\ [][Next]_supportVars
  /\ WF_supportVars(Drift /\ DriftStep)
  /\ \A g \in Goroutines : WF_supportVars(Getter /\ GetterStep(g))
  /\ WF_supportVars(Source /\ SourceStep)
  /\ WF_supportVars(Source /\ Interval)
  /\ WF_supportVars(Source /\ MapSourceEvent)

(* ------------------------------ properties ----------------------------- *)

\* DriftGetsCorrected, of the behaviours that are about drift.
DriftIsRepaired == part = "drift" => DriftGetsCorrected

\* CatchesUp, of the behaviours that are about the source.
SourceCatchesUp == part = "source" => CatchesUp
=============================================================================
