---------------------------- MODULE Dependencies ----------------------------
(* Several HelmReleases that depend on one another and are made from charts *)
(* of one source, reconciled by a pool of workers from one work queue       *)
(* (internal/controller).  A reconcile reads the state of its dependencies  *)
(* one after the other from the API server while others change it, and a    *)
(* new revision of the source reaches the releases through the watch that   *)
(* maps it to requests.  The release loop is one step.                      *)
EXTENDS Integers, Sequences, FiniteSets

CONSTANTS
  Releases,
  Setups,      \* what may be declared: [dependsOn, expr], see SetupsAssumption
  AdditiveCELDependencyCheck,   \* the feature gate
  Workers,                      \* --concurrent
  Backlog,                      \* the queue after the first list of releases
  MaxRevisions,
  MaxTroubles                   \* edits and failures

\* dependsOn lists the dependencies of a release in order; expr is the
\* readyExpr of its references: none, one that looks at the Ready condition
\* alone, one that cannot be evaluated yet, or one that does not compile.
Exprs == {"none", "ready", "failing", "invalid"}

ASSUME SetupsAssumption ==
  /\ Setups \subseteq [dependsOn : [Releases -> Seq(Releases)],
                       expr : [Releases -> Exprs]]
  /\ AdditiveCELDependencyCheck \in BOOLEAN
  /\ Workers \in Nat \ {0}
  /\ Backlog \in Seq(Releases)
  /\ \A r \in Releases : \E i \in DOMAIN Backlog : Backlog[i] = r
  /\ MaxRevisions \in Nat /\ MaxTroubles \in Nat

VARIABLES
  setup,     \* the element of Setups this behaviour is about
  source,    \* the revision of the source's artifact; 0 when it has none
  events,    \* revisions the watch of the source has not mapped yet
  hr,        \* the HelmReleases in the API server
  queue,     \* the work queue, without duplicates
  dirty,     \* releases asked for while a worker holds them
  job,       \* what the worker that holds a release is doing
  spent

vars == <<setup, source, events, hr, queue, dirty, job, spent>>

DependsOn(r) == setup.dependsOn[r]
DependencySet(r) == {DependsOn(r)[i] : i \in DOMAIN DependsOn(r)}
\* The dependencies whose readiness is checked by the controller itself.
CheckedByController(r) == setup.expr[r] = "none" \/ AdditiveCELDependencyCheck

NotApplied == [revision |-> 0, gen |-> 0]
Idle == [pc |-> "idle", at |-> 0, gen |-> 0, revision |-> 0,
         since |-> [d \in Releases |-> 0]]

Busy == {r \in Releases : job[r].pc # "idle"}

(* ---------------------------- the work queue --------------------------- *)

\* Add: a release that a worker holds is queued again when it is done.
Added(q, R) ==
  LET new == {r \in R : job[r].pc = "idle" /\ \A i \in DOMAIN q : q[i] # r}
  IN IF new = {} THEN {q}
     ELSE {q \o p : p \in {p \in [1..Cardinality(new) -> new] :
                             \A r \in new : \E i \in DOMAIN p : p[i] = r}}

Enqueue(R) ==
  /\ queue' \in Added(queue, R)
  /\ dirty' = dirty \cup (R \cap Busy)

\* The worker is done with r, which is queued when it asked for it or when
\* others did meanwhile.
Done(r, requeue) ==
  /\ job' = [job EXCEPT ![r] = Idle]
  /\ dirty' = dirty \ {r}
  /\ queue' = IF requeue \/ r \in dirty THEN Append(queue, r) ELSE queue

(* ----------------------------- the reconcile --------------------------- *)

\* A worker takes the first release of the queue and marks it as under
\* reconciliation.
Start ==
  /\ queue # <<>> /\ Cardinality(Busy) < Workers
  /\ LET r == Head(queue)
     IN /\ job' = [job EXCEPT ![r] =
                     [pc |-> "dependencies", at |-> 1, gen |-> hr[r].gen,
                      revision |-> 0,
                      since |-> [d \in Releases |-> hr[d].gen]]]
        /\ hr' = [hr EXCEPT ![r].reconciling = TRUE]
  /\ queue' = Tail(queue)
  /\ UNCHANGED <<setup, source, events, dirty, spent>>

\* Mutant: nothing brings the release back but an event.
WaitForEvent(r) ==
  /\ hr' = [hr EXCEPT ![r].ready = "False"]
  /\ Done(r, FALSE)
  /\ UNCHANGED <<setup, source, events, spent>>

\* The end of a reconcile that waits for a dependency or for the source.
Wait(r) ==
  /\ hr' = [hr EXCEPT ![r].ready = "False"]
  /\ Done(r, TRUE)
  /\ UNCHANGED <<setup, source, events, spent>>

\* Mutant: the generation the dependency has observed does not matter.
ReadyAtAnyGeneration(d) == hr[d].ready = "True"

\* The last test of checkDependencies.
DependencyReady(d) == hr[d].gen = hr[d].observed /\ hr[d].ready = "True"

\* Mutant: one dependency that is ready will do for all.
ChecksAnyOf(r, d) == \E e \in DependencySet(r) : DependencyReady(e)

\* checkDependencies for one reference: evalReadyExpr, then the built-in
\* check unless an expression replaces it.
DependencyPasses(r, d) ==
  /\ setup.expr[r] = "ready" => hr[d].ready = "True"
  /\ CheckedByController(r) => DependencyReady(d)

CheckDependency(r) ==
  /\ job[r].pc = "dependencies" /\ job[r].at <= Len(DependsOn(r))
  /\ setup.expr[r] # "invalid"
  /\ IF setup.expr[r] # "failing" /\ DependencyPasses(r, DependsOn(r)[job[r].at])
     THEN /\ job' = [job EXCEPT ![r].at = @ + 1]
          /\ UNCHANGED <<setup, source, events, hr, queue, dirty, spent>>
     ELSE Wait(r)

\* An expression that does not compile stalls the release.
RejectExpr(r) ==
  /\ job[r].pc = "dependencies" /\ job[r].at <= Len(DependsOn(r))
  /\ setup.expr[r] = "invalid"
  /\ hr' = [hr EXCEPT ![r].ready = "False", ![r].observed = job[r].gen]
  /\ Done(r, FALSE)
  /\ UNCHANGED <<setup, source, events, spent>>

\* getSource and isSourceReady, and the last attempt recorded.
ResolveSource(r) ==
  /\ job[r].pc = "dependencies" /\ job[r].at > Len(DependsOn(r))
  /\ IF source = 0
     THEN Wait(r)
     ELSE /\ job' = [job EXCEPT ![r].pc = "release", ![r].revision = source]
          /\ hr' = [hr EXCEPT ![r].attempted = source,
                              ![r].ready =
                                IF hr[r].applied = [revision |-> source,
                                                    gen |-> job[r].gen]
                                THEN @ ELSE "Unknown"]
          /\ UNCHANGED <<setup, source, events, queue, dirty, spent>>

Succeed(r) ==
  /\ job[r].pc = "release"
  /\ hr' = [hr EXCEPT ![r].ready = "True", ![r].reconciling = FALSE,
                      ![r].observed = job[r].gen,
                      ![r].applied = [revision |-> job[r].revision,
                                      gen |-> job[r].gen]]
  /\ Done(r, FALSE)
  /\ UNCHANGED <<setup, source, events, spent>>

Fail(r) ==
  /\ job[r].pc = "release"
  /\ spent < MaxTroubles /\ spent' = spent + 1
  /\ hr' = [hr EXCEPT ![r].ready = "False"]
  /\ Done(r, TRUE)
  /\ UNCHANGED <<setup, source, events>>

(* ------------------------- watches and indexers ------------------------ *)

isReadyOrReconciling(r) == hr[r].ready = "True" \/ hr[r].reconciling

\* Mutant: any attempt at a revision counts, not the attempt at this one.
SkipsAttempted(r, revision) == isReadyOrReconciling(r) /\ hr[r].attempted > 0

\* A release at work on the revision, or done with it, needs no request.
Skips(r, revision) == isReadyOrReconciling(r) /\ hr[r].attempted = revision

\* The releases of R that r reaches through the dependencies of setup s: those
\* in every set that holds what r and its own members depend on in R.
Reaches(s, R, r) ==
  LET needs(x, y) == \E i \in DOMAIN s.dependsOn[x] : s.dependsOn[x][i] = y
  IN {d \in R : \A C \in SUBSET R :
                  (\A x \in {r} \cup C, y \in R : needs(x, y) => y \in C) => d \in C}
\* The sets of releases whose dependencies on one another form a cycle.
Cycles == [s \in Setups |-> {R \in SUBSET Releases :
                               \E r \in R : r \in Reaches(s, R, r)}]
Cyclic(R) == R \in Cycles[setup]

\* requestsForHelmChartChange.  sortedRequests orders dependencies before
\* dependents; when they form a cycle it fails and nobody is asked.
MapEvent ==
  \E revision \in events :
    /\ events' = events \ {revision}
    /\ LET R == {r \in Releases : ~Skips(r, revision)}
       IN IF Cyclic(R)
          THEN UNCHANGED <<queue, dirty>>
          ELSE /\ queue' \in {q \in Added(queue, R) :
                    \A i, j \in (Len(queue) + 1)..Len(q) :
                       i < j => q[j] \notin DependencySet(q[i])}
               /\ dirty' = dirty \cup (R \cap Busy)
    /\ UNCHANGED <<setup, source, hr, job, spent>>

\* The source gets an artifact, or one of another revision: the two changes
\* that SourceRevisionChangePredicate lets through here.
NewRevision ==
  /\ source < MaxRevisions
  /\ source' = source + 1
  /\ events' = events \cup {source + 1}
  /\ UNCHANGED <<setup, hr, queue, dirty, job, spent>>

\* The specification of r changes, and the watch of HelmReleases queues it.
Edit(r) ==
  /\ spent < MaxTroubles /\ spent' = spent + 1
  /\ hr' = [hr EXCEPT ![r].gen = @ + 1]
  /\ Enqueue({r})
  /\ UNCHANGED <<setup, source, events, job>>

Init ==
  /\ setup \in Setups
  /\ source = 0 /\ events = {}
  /\ hr = [r \in Releases |->
             [gen |-> 1, observed |-> 0, ready |-> "Unknown",
              reconciling |-> FALSE, attempted |-> 0, applied |-> NotApplied]]
  /\ job = [r \in Releases |-> Idle]
  /\ queue = Backlog
  /\ dirty = {}
  /\ spent = 0

Reconcile(r) == CheckDependency(r) \/ RejectExpr(r) \/ ResolveSource(r)
                \/ Succeed(r) \/ Fail(r)

Next == \/ Start \/ MapEvent \/ NewRevision
        \/ \E r \in Releases : Reconcile(r) \/ Edit(r)

Spec == Init /\ [][Next]_vars

\* Workers take what is queued and finish what they started, the watch is
\* served, and the source gets its artifact.
FairSpec ==
  /\ Spec
  /\ WF_vars(Start) /\ WF_vars(MapEvent \/ NewRevision)
  /\ \A r \in Releases : WF_vars(Reconcile(r))

(* ------------------------------ properties ----------------------------- *)

\* A release is first made after all of its dependencies were, whatever the
\* order of the queue and the number of workers: checkDependencies reads them
\* from the API server, not from the cache.
DependenciesFirst ==
  \A r \in Releases : hr[r].applied # NotApplied =>
    \A d \in DependencySet(r) : hr[d].applied # NotApplied

\* A release is made only when each dependency has applied the specification
\* it had when the reconcile started, or a later one: what the observed
\* generation is compared for.
DependenciesCurrent ==
  \A r \in Releases : job[r].pc = "release" /\ CheckedByController(r) =>
    \A d \in DependencySet(r) : hr[d].applied.gen >= job[r].since[d]

\* Releases that cannot be made: their expression does not compile or never
\* becomes evaluable, they are part of a cycle, or they depend on such a one.
Hopeless ==
  [s \in Setups |->
     {r \in Releases :
        \E d \in {r} \cup Reaches(s, Releases, r) :
          \/ d \in Reaches(s, Releases, d)
          \/ s.expr[d] \in {"invalid", "failing"} /\ s.dependsOn[d] # <<>>}]

\* Every other release is made from the current revision and specification.
UpToDate ==
  \A r \in Releases \ Hopeless[setup] :
    hr[r].applied = [revision |-> source, gen |-> hr[r].gen]

\* Nothing is missed: when no release is queued or held and no event is on its
\* way, every release that can be made is made from the current revision and
\* specification, though its own timer never fired; unless a cycle made the
\* mapping of an event fail.
NothingMissed ==
  (queue = <<>> /\ Busy = {} /\ events = {} /\ source > 0)
    => Cyclic(Releases) \/ UpToDate

\* Every release that can be made is eventually made from the last revision:
\* dependents that wait do not keep their dependencies from a worker.
AllApplied == <>[](Cyclic(Releases) \/ UpToDate)
=============================================================================
