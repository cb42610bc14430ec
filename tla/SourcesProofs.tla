---------------------------- MODULE SourcesProofs ----------------------------
(* What a release is made from: DependenciesFirst, DependenciesCurrent and  *)
(* NothingMissed for any number of releases and workers and any declared    *)
(* dependencies; SnapshotsNameArtifacts and FollowsSource for any artifacts *)
(* and any number of moves of the source and failures of upgrades.          *)
EXTENDS Dependencies, SourceRevisions, FiniteSetTheorems, TLAPS

(* ~~~~ dependencies ~~~~~~~~~~~~~~~~~~~~~~~~~~~~~~~~~~~~~~~~~~~~~~~~~~~~ *)

HelmReleases ==
  [gen : Nat, observed : Nat, ready : {"True", "False", "Unknown"},
   reconciling : BOOLEAN, attempted : Nat, applied : [revision : Nat, gen : Nat]]
Jobs == [pc : {"idle", "dependencies", "release"}, at : Nat, gen : Nat,
         revision : Nat, since : [Releases -> Nat]]

DepTypes ==
  /\ setup \in Setups /\ source \in Nat
  /\ hr \in [Releases -> HelmReleases]
  /\ job \in [Releases -> Jobs]

\* The i-th dependency of r is made and, where the controller checks it, from
\* what was wanted of it when the reconcile of r started.
Passed(r, i) ==
  /\ hr[DependsOn(r)[i]].applied.gen > 0
  /\ CheckedByController(r) =>
       hr[DependsOn(r)[i]].applied.gen >= job[r].since[DependsOn(r)[i]]

\* Generations: what is applied is not newer than what is wanted, a job is
\* about something in between, and what is ready was applied as observed.
Generations(r) ==
  /\ hr[r].gen > 0 /\ hr[r].applied.gen <= hr[r].gen
  /\ hr[r].applied.gen = 0 => hr[r].applied = NotApplied
  /\ hr[r].ready = "True" => hr[r].applied.gen = hr[r].observed /\ hr[r].observed > 0
  /\ job[r].pc # "idle" => /\ job[r].gen > 0 /\ hr[r].applied.gen <= job[r].gen
                           /\ job[r].gen <= hr[r].gen
                           /\ \A d \in Releases : job[r].since[d] <= hr[d].gen

\* Dependencies: those a job has been through have passed, and those of a
\* release that was made are made.
DependenciesMade(r) ==
  \A i \in DOMAIN DependsOn(r) :
    /\ job[r].pc = "dependencies" /\ i < job[r].at => Passed(r, i)
    /\ job[r].pc = "release" => Passed(r, i)
    /\ hr[r].applied.gen > 0 => hr[DependsOn(r)[i]].applied.gen > 0

DepInv == DepTypes /\ \A r \in Releases : Generations(r) /\ DependenciesMade(r)

\* What all steps have in common: nothing that was made is unmade.
Grows ==
  /\ setup' = setup
  /\ \A d \in Releases : /\ hr'[d].gen >= hr[d].gen
                         /\ hr'[d].applied.gen >= hr[d].applied.gen

\* A step has changed nothing of q that the invariant is about.
Untouched(q) ==
  /\ job'[q] = job[q] /\ hr'[q].gen >= hr[q].gen
  /\ hr'[q].applied = hr[q].applied /\ hr'[q].observed = hr[q].observed
  /\ hr'[q].ready = "True" => hr[q].ready = "True"

\* Dependencies are releases.
LEMMA DependencyIsRelease ==
  ASSUME DepTypes, NEW r \in Releases, NEW i \in DOMAIN DependsOn(r)
  PROVE  DependsOn(r)[i] \in Releases /\ DependsOn(r) \in Seq(Releases)
<1>1. DependsOn(r) \in Seq(Releases)
  BY SetupsAssumption, Zenon DEF DepTypes, DependsOn
<1> QED BY <1>1

\* The invariant of a release outlasts the steps of others.
LEMMA UntouchedKept ==
  ASSUME DepInv, DepTypes', Grows, NEW q \in Releases, Untouched(q)
  PROVE  (Generations(q) /\ DependenciesMade(q))'
<1>1. Generations(q)'
  BY DEF DepInv, DepTypes, HelmReleases, Jobs, Grows, Untouched, Generations, NotApplied
<1>2. ASSUME NEW i \in DOMAIN DependsOn(q)
      PROVE  /\ Passed(q, i) => Passed(q, i)'
             /\ hr[DependsOn(q)[i]].applied.gen > 0 => hr'[DependsOn(q)[i]].applied.gen > 0
  <2>1. DependsOn(q)[i] \in Releases /\ DependsOn(q)' = DependsOn(q)
    BY DependencyIsRelease, Zenon DEF DepInv, Grows, DependsOn
  <2>2. CheckedByController(q)' = CheckedByController(q)
    BY Zenon DEF Grows, CheckedByController
  <2> DEFINE d == DependsOn(q)[i]
  <2>3. /\ hr[d].applied.gen \in Nat /\ hr'[d].applied.gen \in Nat
        /\ hr'[d].applied.gen >= hr[d].applied.gen
        /\ job'[q].since[d] = job[q].since[d] /\ job[q].since[d] \in Nat
    BY <2>1 DEF DepInv, DepTypes, HelmReleases, Jobs, Grows, Untouched
  <2> QED BY <2>1, <2>2, <2>3 DEF Passed
<1>3. DependenciesMade(q)'
  BY <1>2, Zenon DEF DepInv, DependenciesMade, Grows, Untouched, DependsOn
<1> QED BY <1>1, <1>3, Zenon

\* A worker that ends its job leaves the release idle.
LEMMA DoneIsIdle ==
  ASSUME DepTypes, NEW r \in Releases, NEW b \in BOOLEAN, Done(r, b)
  PROVE  /\ job' \in [Releases -> Jobs] /\ job'[r].pc = "idle"
         /\ \A q \in Releases : q # r => job'[q] = job[q]
  BY Zenon DEF DepTypes, Done, Idle, Jobs

\* A reconcile that ends without a release being made.
LEMMA EndKept ==
  ASSUME DepInv, NEW r \in Releases, NEW b \in BOOLEAN, Done(r, b),
         setup' = setup, source' = source, NEW o \in Nat,
         hr' = [hr EXCEPT ![r].ready = "False", ![r].observed = o]
  PROVE  DepInv'
<1>1. /\ job' \in [Releases -> Jobs] /\ job'[r].pc = "idle"
      /\ \A q \in Releases : q # r => job'[q] = job[q]
  BY DoneIsIdle, Zenon DEF DepInv
<1>2. /\ hr' \in [Releases -> HelmReleases]
      /\ \A q \in Releases : hr'[q].gen = hr[q].gen /\ hr'[q].applied = hr[q].applied
      /\ \A q \in Releases : q # r => hr'[q] = hr[q]
      /\ hr'[r].ready = "False"
  BY ZenonT(60) DEF DepInv, DepTypes, HelmReleases
<1>3. DepTypes' /\ Grows
  BY <1>1, <1>2 DEF DepInv, DepTypes, HelmReleases, Grows
<1>4. Generations(r)'
  BY <1>1, <1>2 DEF DepInv, Generations, NotApplied
<1>5. DependenciesMade(r)'
  <2>1. \A i \in DOMAIN DependsOn(r) : DependsOn(r)[i] \in Releases
    BY DependencyIsRelease, Zenon DEF DepInv
  <2> QED BY <1>1, <1>2, <2>1 DEF DepInv, DependenciesMade, DependsOn
<1>6. \A q \in Releases : q # r => Untouched(q)
  BY <1>1, <1>2 DEF DepInv, DepTypes, HelmReleases, Untouched
<1> QED BY <1>3, <1>4, <1>5, <1>6, UntouchedKept, Zenon DEF DepInv

\* Waiting, failing and rejecting an expression end a reconcile.
LEMMA EndsKept ==
  ASSUME DepInv, NEW r \in Releases, Wait(r) \/ Fail(r) \/ RejectExpr(r)
  PROVE  DepInv'
<1>1. hr[r] \in HelmReleases /\ job[r] \in Jobs /\ hr \in [Releases -> HelmReleases]
  BY Zenon DEF DepInv, DepTypes
<1>2. hr[r].observed \in Nat /\ job[r].gen \in Nat
  BY <1>1, Zenon DEF HelmReleases, Jobs
<1>3. CASE Wait(r) \/ Fail(r)
  <2>1. hr' = [hr EXCEPT ![r].ready = "False", ![r].observed = hr[r].observed]
    <3>1. hr' = [hr EXCEPT ![r].ready = "False"]
      BY ZenonT(60), <1>3 DEF Wait, Fail
    <3> QED BY ZenonT(60), <3>1, <1>1 DEF HelmReleases
  <2>2. Done(r, TRUE) /\ setup' = setup /\ source' = source
    BY ZenonT(60), <1>3 DEF Wait, Fail
  <2> QED BY ZenonT(60), <2>1, <2>2, <1>2, EndKept
<1>4. CASE RejectExpr(r)
  <2>1. /\ hr' = [hr EXCEPT ![r].ready = "False", ![r].observed = job[r].gen]
        /\ Done(r, FALSE) /\ setup' = setup /\ source' = source
    BY ZenonT(60), <1>4 DEF RejectExpr
  <2> QED BY ZenonT(60), <2>1, <1>2, EndKept
<1> QED BY <1>3, <1>4, Zenon

\* A job starts with the generations of now, and no dependency checked.
LEMMA StartKept ==
  ASSUME DepInv, Start
  PROVE  DepInv'
<1> PICK r : r = Head(queue)
  OBVIOUS
<1> DEFINE since == [d \in Releases |-> hr[d].gen]
<1>1. /\ job' = [job EXCEPT ![r] = [pc |-> "dependencies", at |-> 1, gen |-> hr[r].gen,
                                    revision |-> 0, since |-> since]]
      /\ hr' = [hr EXCEPT ![r].reconciling = TRUE]
      /\ setup' = setup /\ source' = source
  BY Zenon DEF Start
<1>2. since \in [Releases -> Nat] /\ \A d \in Releases : since[d] = hr[d].gen
  BY Zenon DEF DepInv, DepTypes, HelmReleases
<1> HIDE DEF since
<1>3. /\ hr' \in [Releases -> HelmReleases]
      /\ \A q \in Releases : /\ hr'[q].gen = hr[q].gen /\ hr'[q].applied = hr[q].applied
                             /\ hr'[q].ready = hr[q].ready /\ hr'[q].observed = hr[q].observed
  <2>1. CASE r \in Releases
    BY ZenonT(60), <1>1, <2>1 DEF DepInv, DepTypes, HelmReleases
  <2>2. CASE r \notin Releases
    <3>1. hr' = hr
      BY <1>1, <2>2, Zenon DEF DepInv, DepTypes
    <3> QED BY <3>1, Zenon DEF DepInv, DepTypes
  <2> QED BY <2>1, <2>2, Zenon
<1>4. /\ job' \in [Releases -> Jobs]
      /\ \A q \in Releases : q # r => job'[q] = job[q]
  BY ZenonT(60), <1>1, <1>2 DEF DepInv, DepTypes, HelmReleases, Jobs
<1>5. DepTypes' /\ Grows
  BY <1>1, <1>3, <1>4 DEF DepInv, DepTypes, HelmReleases, Grows
<1>6. \A q \in Releases : q # r => Untouched(q)
  BY <1>3, <1>4 DEF DepInv, DepTypes, HelmReleases, Untouched
<1>7. ASSUME r \in Releases PROVE (Generations(r) /\ DependenciesMade(r))'
  <2>1. /\ job'[r].pc = "dependencies" /\ job'[r].at = 1 /\ job'[r].gen = hr[r].gen
        /\ job'[r].since = since
    BY <1>1, <1>7, Zenon DEF DepInv, DepTypes
  <2>2. Generations(r)'
    BY <2>1, <1>2, <1>3, <1>7 DEF DepInv, DepTypes, HelmReleases, Generations, NotApplied
  <2>3. \A i \in DOMAIN DependsOn(r) : DependsOn(r)[i] \in Releases /\ i >= 1
    BY <1>7, DependencyIsRelease DEF DepInv
  <2>4. DependenciesMade(r)'
    <3> SUFFICES ASSUME NEW i \in DOMAIN DependsOn(r)
                 PROVE  /\ ~(i < 1)
                        /\ hr'[r].applied.gen > 0 => hr'[DependsOn(r)[i]].applied.gen > 0
      BY <2>1, <1>1, Zenon DEF DependenciesMade, DependsOn
    <3>1. i \in Nat /\ i >= 1
      BY <1>7, DependencyIsRelease DEF DepInv
    <3> QED BY <3>1, <2>3, <1>3, <1>7 DEF DepInv, DependenciesMade
  <2> QED BY <2>2, <2>4, Zenon
<1> QED BY <1>5, <1>6, <1>7, UntouchedKept, Zenon DEF DepInv

\* A dependency that passes is ready, so it was made; and where the controller
\* checks it, it was made from what is wanted now.
LEMMA PassingIsPassed ==
  ASSUME DepInv, NEW r \in Releases, job[r].pc = "dependencies",
         NEW i \in DOMAIN DependsOn(r), setup.expr[r] \notin {"failing", "invalid"},
         DependencyPasses(r, DependsOn(r)[i])
  PROVE  Passed(r, i)
<1> DEFINE d == DependsOn(r)[i]
<1>1. d \in Releases
  BY DependencyIsRelease, Zenon DEF DepInv
<1>2. setup.expr[r] \in Exprs
  BY SetupsAssumption, Zenon DEF DepInv, DepTypes
<1>3. hr[d].ready = "True" /\ (CheckedByController(r) => hr[d].gen = hr[d].observed)
  BY <1>2, Zenon DEF DependencyPasses, DependencyReady, CheckedByController, Exprs
<1>4. /\ hr[d].applied.gen = hr[d].observed /\ hr[d].observed > 0
      /\ job[r].since[d] <= hr[d].gen
  BY <1>1, <1>3, Zenon DEF DepInv, Generations
<1>5. hr[d].gen \in Nat /\ hr[d].applied.gen \in Nat /\ job[r].since[d] \in Nat
  BY <1>1, Zenon DEF DepInv, DepTypes, HelmReleases, Jobs
<1> QED BY <1>3, <1>4, <1>5, Zenon DEF Passed

\* The check of a dependency goes on to the next one, or ends the reconcile.
LEMMA CheckKept ==
  ASSUME DepInv, NEW r \in Releases, CheckDependency(r)
  PROVE  DepInv'
<1>1. CASE Wait(r)
  BY <1>1, EndsKept, Zenon
<1>2. CASE ~Wait(r)
  <2> DEFINE at == job[r].at
  <2>1. /\ job[r].pc = "dependencies" /\ at <= Len(DependsOn(r))
        /\ setup.expr[r] \notin {"failing", "invalid"}
        /\ DependencyPasses(r, DependsOn(r)[at])
        /\ job' = [job EXCEPT ![r].at = at + 1]
        /\ setup' = setup /\ source' = source /\ hr' = hr
    BY <1>2, Zenon DEF CheckDependency
  <2>2. at \in Nat /\ DependsOn(r) \in Seq(Releases)
    BY ZenonT(60), SetupsAssumption DEF DepInv, DepTypes, Jobs, DependsOn
  <2>3. /\ job' \in [Releases -> Jobs] /\ job'[r].at = at + 1
        /\ job'[r].pc = "dependencies" /\ job'[r].gen = job[r].gen
        /\ job'[r].since = job[r].since
        /\ \A q \in Releases : q # r => job'[q] = job[q]
    <3> DEFINE n == at + 1
    <3>1. n \in Nat /\ job' = [job EXCEPT ![r].at = n]
      BY <2>1, <2>2
    <3> HIDE DEF n
    <3>2. job' \in [Releases -> Jobs]
      BY ZenonT(60), <3>1 DEF DepInv, DepTypes, Jobs
    <3>3. /\ job'[r].at = n /\ job'[r].pc = job[r].pc /\ job'[r].gen = job[r].gen
          /\ job'[r].since = job[r].since
          /\ \A q \in Releases : q # r => job'[q] = job[q]
      BY <3>1, Zenon DEF DepInv, DepTypes, Jobs
    <3> QED BY <3>2, <3>3, <2>1, Zenon DEF n
  <2>4. DepTypes' /\ Grows
    BY SMTT(30), <2>1, <2>3 DEF DepInv, DepTypes, HelmReleases, Grows
  <2>5. \A q \in Releases : q # r => Untouched(q)
    BY SMTT(30), <2>1, <2>3 DEF DepInv, DepTypes, HelmReleases, Untouched
  <2>6. Generations(r)'
    BY <2>1, <2>3, Zenon DEF DepInv, Generations
  <2>7. DependenciesMade(r)'
    <3> SUFFICES ASSUME NEW i \in DOMAIN DependsOn(r), i < at + 1
                 PROVE  Passed(r, i)
      BY ZenonT(60), <2>1, <2>3 DEF DepInv, DependenciesMade, Passed, DependsOn, CheckedByController
    <3>1. i \in Nat
      BY <2>2
    <3>2. CASE i = at
      BY <3>2, <2>1, PassingIsPassed, Zenon
    <3>3. CASE i < at
      BY <3>3, <2>1, Zenon DEF DepInv, DependenciesMade
    <3> QED BY <3>1, <3>2, <3>3, <2>2
  <2> QED BY <2>4, <2>5, <2>6, <2>7, UntouchedKept, Zenon DEF DepInv
<1> QED BY <1>1, <1>2, Zenon

\* The release is attempted after the last dependency, or its source waited
\* for.
LEMMA ResolveKept ==
  ASSUME DepInv, NEW r \in Releases, ResolveSource(r)
  PROVE  DepInv'
<1>1. CASE source = 0
  <2>1. Wait(r)
    BY <1>1, Zenon DEF ResolveSource
  <2> QED BY <2>1, EndsKept, Zenon
<1>2. CASE source # 0
  <2>1. /\ job[r].pc = "dependencies" /\ job[r].at > Len(DependsOn(r))
        /\ job' = [job EXCEPT ![r].pc = "release", ![r].revision = source]
        /\ setup' = setup /\ source' = source
    BY <1>2, Zenon DEF ResolveSource
  <2>2. PICK v \in {hr[r].ready, "Unknown"} :
          hr' = [hr EXCEPT ![r].attempted = source, ![r].ready = v]
    BY <1>2, Zenon DEF ResolveSource
  <2>3. /\ job' \in [Releases -> Jobs]
        /\ job'[r].pc = "release" /\ job'[r].gen = job[r].gen
        /\ job'[r].since = job[r].since
        /\ \A q \in Releases : q # r => job'[q] = job[q]
    BY ZenonT(60), <2>1 DEF DepInv, DepTypes, Jobs
  <2>4. /\ hr' \in [Releases -> HelmReleases]
        /\ \A q \in Releases : /\ hr'[q].gen = hr[q].gen /\ hr'[q].applied = hr[q].applied
                               /\ hr'[q].observed = hr[q].observed
                               /\ hr'[q].ready = "True" => hr[q].ready = "True"
    BY ZenonT(60), <2>2 DEF DepInv, DepTypes, HelmReleases
  <2>5. DepTypes' /\ Grows
    BY SMTT(30), <2>1, <2>3, <2>4 DEF DepInv, DepTypes, HelmReleases, Grows
  <2>6. \A q \in Releases : q # r => Untouched(q)
    BY <2>3, <2>4 DEF DepInv, DepTypes, HelmReleases, Untouched
  <2>7. Generations(r)'
    BY SMTT(30), <2>1, <2>3, <2>4 DEF DepInv, Generations, NotApplied
  <2>8. DependenciesMade(r)'
    <3> SUFFICES ASSUME NEW i \in DOMAIN DependsOn(r)
                 PROVE  /\ Passed(r, i)'
                        /\ hr'[r].applied.gen > 0 => hr'[DependsOn(r)[i]].applied.gen > 0
      BY <2>1, <2>3, Zenon DEF DependenciesMade, DependsOn
    <3>1. DependsOn(r)[i] \in Releases /\ i < job[r].at
      BY <2>1, DependencyIsRelease DEF DepInv, DepTypes, Jobs
    <3>2. Passed(r, i) /\ (hr[r].applied.gen > 0 => hr[DependsOn(r)[i]].applied.gen > 0)
      BY <2>1, <3>1, Zenon DEF DepInv, DependenciesMade
    <3> QED BY <3>1, <3>2, <2>1, <2>3, <2>4, Zenon DEF Passed, DependsOn, CheckedByController
  <2> QED BY <2>5, <2>6, <2>7, <2>8, UntouchedKept, Zenon DEF DepInv
<1> QED BY <1>1, <1>2, Zenon

\* What Succeed makes of a release.
MadeFrom(x, o, a) ==
  [x EXCEPT !.ready = "True", !.reconciling = FALSE, !.observed = o, !.applied = a]

LEMMA MadeIsRelease ==
  ASSUME NEW x \in HelmReleases, NEW o \in Nat, NEW a \in [revision : Nat, gen : Nat]
  PROVE  /\ MadeFrom(x, o, a) \in HelmReleases
         /\ MadeFrom(x, o, a).gen = x.gen /\ MadeFrom(x, o, a).applied = a
         /\ MadeFrom(x, o, a).observed = o
<1>1. MadeFrom(x, o, a).gen = x.gen
  BY Zenon DEF MadeFrom, HelmReleases
<1>2. MadeFrom(x, o, a).applied = a
  BY Zenon DEF MadeFrom, HelmReleases
<1>3. MadeFrom(x, o, a).observed = o
  BY Zenon DEF MadeFrom, HelmReleases
<1>4. MadeFrom(x, o, a) \in HelmReleases
  BY ZenonT(60) DEF MadeFrom, HelmReleases
<1> QED BY <1>1, <1>2, <1>3, <1>4, Zenon

\* A release is made after all of its dependencies passed.
LEMMA SucceedKept ==
  ASSUME DepInv, NEW r \in Releases, Succeed(r)
  PROVE  DepInv'
<1> DEFINE new == [revision |-> job[r].revision, gen |-> job[r].gen]
<1>1. job[r].pc = "release" /\ setup' = setup /\ source' = source /\ Done(r, FALSE)
  BY ZenonT(60) DEF Succeed
<1>2. hr' = [hr EXCEPT ![r].ready = "True", ![r].reconciling = FALSE,
                       ![r].observed = job[r].gen, ![r].applied = new]
  BY Zenon DEF Succeed
<1>3. new \in [revision : Nat, gen : Nat] /\ job[r].gen \in Nat /\ new.gen = job[r].gen
  BY Zenon DEF DepInv, DepTypes, Jobs
<1> HIDE DEF new
<1>4. /\ job' \in [Releases -> Jobs] /\ job'[r].pc = "idle"
      /\ \A q \in Releases : q # r => job'[q] = job[q]
  BY ZenonT(60), <1>1, DoneIsIdle DEF DepInv
<1>5. /\ hr' \in [Releases -> HelmReleases]
      /\ hr'[r].gen = hr[r].gen /\ hr'[r].applied = new /\ hr'[r].observed = job[r].gen
      /\ \A q \in Releases : q # r => hr'[q] = hr[q]
  <2>1. hr' = [hr EXCEPT ![r] = MadeFrom(hr[r], job[r].gen, new)]
    BY <1>2, Zenon DEF MadeFrom
  <2>2. hr[r] \in HelmReleases /\ hr \in [Releases -> HelmReleases]
    BY Zenon DEF DepInv, DepTypes
  <2>3. /\ MadeFrom(hr[r], job[r].gen, new) \in HelmReleases
        /\ MadeFrom(hr[r], job[r].gen, new).gen = hr[r].gen
        /\ MadeFrom(hr[r], job[r].gen, new).applied = new
        /\ MadeFrom(hr[r], job[r].gen, new).observed = job[r].gen
    BY <1>3, <2>2, MadeIsRelease
  <2> QED BY <2>1, <2>2, <2>3, Zenon
<1>6. job[r].gen > 0 /\ hr[r].applied.gen <= job[r].gen /\ job[r].gen <= hr[r].gen
  BY <1>1, Zenon DEF DepInv, Generations
<1>7. DepTypes' /\ Grows
  BY <1>1, <1>3, <1>4, <1>5, <1>6 DEF DepInv, DepTypes, HelmReleases, Grows
<1>8. \A q \in Releases : q # r => Untouched(q)
  BY <1>4, <1>5 DEF DepInv, DepTypes, HelmReleases, Untouched
<1>9. Generations(r)'
  BY <1>3, <1>4, <1>5, <1>6 DEF DepInv, DepTypes, HelmReleases, Generations
<1>10. DependenciesMade(r)'
  <2> SUFFICES ASSUME NEW i \in DOMAIN DependsOn(r)
               PROVE  hr'[DependsOn(r)[i]].applied.gen > 0
    BY <1>1, <1>4, Zenon DEF DependenciesMade, DependsOn
  <2>1. DependsOn(r)[i] \in Releases
    BY DependencyIsRelease, Zenon DEF DepInv
  <2>2. hr[DependsOn(r)[i]].applied.gen > 0
    BY <1>1, Zenon DEF DepInv, DependenciesMade, Passed
  <2> QED BY <2>1, <2>2, <1>7 DEF Grows, DepInv, DepTypes, HelmReleases
<1> QED BY <1>7, <1>8, <1>9, <1>10, UntouchedKept DEF DepInv

\* An edit only raises the generation.
LEMMA EditKept ==
  ASSUME DepInv, NEW r \in Releases, Edit(r)
  PROVE  DepInv'
<1>1. hr' = [hr EXCEPT ![r].gen = hr[r].gen + 1]
  BY Zenon DEF Edit
<1>2. setup' = setup /\ source' = source /\ job' = job
  BY Zenon DEF Edit
<1>3. hr[r].gen + 1 \in Nat
  BY DEF DepInv, DepTypes, HelmReleases
<1>4. hr' \in [Releases -> HelmReleases]
  BY ZenonT(30), <1>1, <1>3 DEF DepInv, DepTypes, HelmReleases
<1>5. \A q \in Releases :
        /\ hr'[q].gen >= hr[q].gen /\ hr'[q].applied = hr[q].applied
        /\ hr'[q].observed = hr[q].observed /\ hr'[q].ready = hr[q].ready
  BY <1>1 DEF DepInv, DepTypes, HelmReleases
<1>6. DepTypes' /\ Grows
  BY <1>2, <1>4, <1>5 DEF DepInv, DepTypes, HelmReleases, Grows
<1>7. \A q \in Releases : Untouched(q)
  BY <1>2, <1>5, Zenon DEF Untouched
<1> QED BY <1>6, <1>7, UntouchedKept, Zenon DEF DepInv

\* Events touch no release.
LEMMA EventKept ==
  ASSUME DepInv, MapEvent \/ NewRevision \/ UNCHANGED vars
  PROVE  DepInv'
<1>1. hr' = hr /\ job' = job /\ setup' = setup /\ source' \in {source, source + 1}
  BY ZenonT(60) DEF MapEvent, NewRevision, vars
<1>2. DepTypes'
  BY <1>1 DEF DepInv, DepTypes
<1>3. Grows
  BY <1>1 DEF Grows, DepInv, DepTypes, HelmReleases
<1>4. \A q \in Releases : Untouched(q)
  BY <1>1 DEF Untouched, DepInv, DepTypes, HelmReleases
<1> QED BY <1>1, <1>2, <1>3, <1>4, UntouchedKept, Zenon DEF DepInv

LEMMA DepInitially == Init => DepInv
<1> SUFFICES ASSUME Init PROVE DepInv
  OBVIOUS
<1>1. DepTypes
  BY Zenon DEF Init, DepTypes, HelmReleases, Jobs, Idle, NotApplied
<1>2. \A r \in Releases :
        /\ hr[r].gen = 1 /\ hr[r].applied = NotApplied /\ hr[r].applied.gen = 0
        /\ hr[r].ready = "Unknown" /\ job[r].pc = "idle"
  BY Zenon DEF Init, Idle, NotApplied
<1> QED BY <1>1, <1>2 DEF DepInv, Generations, DependenciesMade

LEMMA DepInvariant == Spec => []DepInv
<1>1. DepInv /\ [Next]_vars => DepInv'
  BY StartKept, CheckKept, EndsKept, ResolveKept, SucceedKept, EditKept, EventKept, Zenon
     DEF Next, Reconcile
<1> QED BY <1>1, DepInitially, PTL DEF Spec

\* A release is first made after all of its dependencies (checkDependencies),
\* for any releases, dependencies, number of workers and order of the queue,
\* and whatever fails or changes meanwhile.
THEOREM MadeAfterDependencies == Spec => []DependenciesFirst
<1>1. DepInv => DependenciesFirst
  <2> SUFFICES ASSUME DepInv, NEW r \in Releases, hr[r].applied # NotApplied,
                      NEW i \in DOMAIN DependsOn(r)
               PROVE  hr[DependsOn(r)[i]].applied # NotApplied
    BY Zenon DEF DependenciesFirst, DependencySet
  <2>1. hr[r].applied.gen > 0
    BY DEF DepInv, DepTypes, HelmReleases, Generations
  <2>2. hr[DependsOn(r)[i]].applied.gen > 0
    BY <2>1, Zenon DEF DepInv, DependenciesMade
  <2> QED BY <2>2 DEF NotApplied
<1> QED BY <1>1, DepInvariant, PTL

\* A release is made only when each dependency the controller checks itself
\* has applied what was wanted of it at the start of the reconcile, or
\* something later (the observed generation in checkDependencies).
THEOREM MadeFromCurrentDependencies == Spec => []DependenciesCurrent
<1>1. DepInv => DependenciesCurrent
  BY Zenon DEF DepInv, DependenciesMade, Passed, DependenciesCurrent, DependencySet
<1> QED BY <1>1, DepInvariant, PTL

(* ---------------------------- nothing missed ---------------------------- *)

In(q, r) == \E i \in DOMAIN q : q[i] = r
Rejects(r) == setup.expr[r] = "invalid" /\ DependsOn(r) # <<>>
\* A revision is the current one, or the event of the current one is to come.
Seen(revision) == revision = source \/ source \in events

\* r is to be reconciled, or about to read the source, or at work on what was
\* seen, or done with it; or it is rejected, whatever its source.
Followed(r) ==
  \/ In(queue, r) \/ r \in dirty
  \/ job[r].pc = "dependencies" /\ job[r].gen = hr[r].gen
  \/ /\ job[r].pc = "release" /\ job[r].gen = hr[r].gen
     /\ Seen(hr[r].attempted)
  \/ job[r].pc = "idle" /\ Rejects(r)
  \/ /\ job[r].pc = "idle" /\ Seen(hr[r].attempted)
     /\ hr[r].applied = [revision |-> hr[r].attempted, gen |-> hr[r].gen]

Attempts(r) ==
  /\ job[r].pc = "dependencies" => job[r].at > 0
  /\ job[r].pc = "release" => job[r].revision = hr[r].attempted

MissInv ==
  /\ queue \in Seq(Releases) /\ dirty \subseteq Busy
  /\ \A r \in Releases : Attempts(r) /\ Followed(r)

\* The queue holds every release once, so there are finitely many.
LEMMA FinitelyMany == ASSUME NEW R \in SUBSET Releases PROVE Cardinality(R) \in Nat
<1>1. Backlog \in Surjection(1..Len(Backlog), Releases) /\ Len(Backlog) \in Nat
  BY SetupsAssumption DEF Surjection
<1>2. IsFiniteSet(Releases)
  BY <1>1, FS_NatSurjection, Zenon DEF ExistsSurjection
<1> QED BY <1>2, FS_Subset, FS_CardinalityType, Zenon

\* An appended release is in the queue, and so are the others.
LEMMA AppendHolds ==
  ASSUME NEW q \in Seq(Releases), NEW r \in Releases
  PROVE  /\ Append(q, r) \in Seq(Releases) /\ In(Append(q, r), r)
         /\ \A x \in Releases : In(q, x) => In(Append(q, r), x)
<1>1. DOMAIN Append(q, r) = 1..Len(q) + 1 /\ Append(q, r)[Len(q) + 1] = r
  OBVIOUS
<1>2. \A i \in DOMAIN q : i \in DOMAIN Append(q, r) /\ Append(q, r)[i] = q[i]
  OBVIOUS
<1>3. In(Append(q, r), r)
  BY <1>1 DEF In
<1>4. \A x \in Releases : In(q, x) => In(Append(q, r), x)
  BY <1>2, Zenon DEF In
<1> QED BY <1>3, <1>4

\* What is in one of two sequences is in both joined.
LEMMA JoinedHolds ==
  ASSUME NEW q \in Seq(Releases), NEW p \in Seq(Releases)
  PROVE  /\ q \o p \in Seq(Releases)
         /\ \A x \in Releases : In(q, x) \/ In(p, x) => In(q \o p, x)
<1>1. ASSUME NEW x \in Releases, NEW i \in DOMAIN q, q[i] = x PROVE In(q \o p, x)
  <2>1. i \in DOMAIN (q \o p) /\ (q \o p)[i] = x
    BY <1>1
  <2> QED BY <2>1, Zenon DEF In
<1>2. ASSUME NEW x \in Releases, NEW i \in DOMAIN p, p[i] = x PROVE In(q \o p, x)
  <2>1. Len(q) + i \in DOMAIN (q \o p) /\ (q \o p)[Len(q) + i] = x
    BY <1>2
  <2> QED BY <2>1, Zenon DEF In
<1>3. \A x \in Releases : In(q, x) \/ In(p, x) => In(q \o p, x)
  BY <1>1, <1>2, Zenon DEF In
<1> QED BY <1>3

\* What is asked for is queued, unless a worker holds it.
LEMMA AddedHolds ==
  ASSUME queue \in Seq(Releases), NEW R \in SUBSET Releases, NEW q \in Added(queue, R)
  PROVE  /\ q \in Seq(Releases)
         /\ \A x \in Releases : In(queue, x) => In(q, x)
         /\ \A x \in R : job[x].pc = "idle" => In(q, x)
<1> DEFINE new == {x \in R : job[x].pc = "idle" /\ \A i \in DOMAIN queue : queue[i] # x}
<1>1. \A x \in R : job[x].pc = "idle" => x \in new \/ In(queue, x)
  BY Zenon DEF In
<1>2. CASE new = {}
  <2>1. q \in {queue}
    BY <1>2, Zenon DEF Added
  <2> QED BY <2>1, <1>1, <1>2, Zenon
<1>3. CASE new # {}
  <2>1. PICK p \in [1..Cardinality(new) -> new] :
          q = queue \o p /\ \A x \in new : \E i \in DOMAIN p : p[i] = x
    BY <1>3, Zenon DEF Added
  <2>2. new \in SUBSET Releases
    BY Zenon
  <2> HIDE DEF new
  <2>3. Cardinality(new) \in Nat
    BY <2>2, FinitelyMany, Zenon
  <2>4. p \in Seq(Releases)
    <3> DEFINE n == Cardinality(new)
    <3>1. n \in Nat /\ p \in [1..n -> Releases]
      BY <2>1, <2>2, <2>3, Zenon
    <3> HIDE DEF n
    <3> QED BY <3>1
  <2>5. \A x \in new : In(p, x)
    BY <2>1, Zenon DEF In
  <2> QED BY <2>1, <2>2, <2>4, <2>5, <1>1, JoinedHolds, Zenon
<1> QED BY <1>2, <1>3, Zenon

\* Fewer releases have fewer cycles.
LEMMA CyclesGrow ==
  ASSUME DepTypes, NEW R \in SUBSET Releases, Cyclic(R)
  PROVE  Cyclic(Releases)
<1> DEFINE needs(x, y) == \E i \in DOMAIN setup.dependsOn[x] : setup.dependsOn[x][i] = y
<1>1. PICK r \in R : r \in Reaches(setup, R, r)
  BY Zenon DEF Cyclic, Cycles, DepTypes
<1>2. ASSUME NEW C \in SUBSET Releases,
             \A x \in {r} \cup C, y \in Releases : needs(x, y) => y \in C
      PROVE  r \in C
  <2>1. \A x \in {r} \cup (C \cap R), y \in R : needs(x, y) => y \in C \cap R
    BY <1>2, Zenon
  <2>2. C \cap R \in SUBSET R
    BY Zenon
  <2>3. r \in C \cap R
    BY <1>1, <2>1, <2>2, Zenon DEF Reaches
  <2> QED BY <2>3, Zenon
<1>3. r \in Reaches(setup, Releases, r)
  BY <1>2, Zenon DEF Reaches
<1> QED BY <1>3, Zenon DEF Cyclic, Cycles, DepTypes

\* A step of others keeps r followed.
LEMMA StaysFollowed ==
  ASSUME NEW r \in Releases, Followed(r), Attempts(r), setup' = setup, job'[r] = job[r],
         hr'[r].gen = hr[r].gen, hr'[r].attempted = hr[r].attempted,
         hr'[r].applied = hr[r].applied,
         In(queue, r) => In(queue', r), r \in dirty => r \in dirty',
         Seen(hr[r].attempted) => hr[r].attempted = source' \/ source' \in events'
  PROVE  Followed(r)' /\ Attempts(r)'
<1>1. Rejects(r)' = Rejects(r)
  BY Zenon DEF Rejects, DependsOn
<1>2. Attempts(r)'
  BY Zenon DEF Attempts
<1>3. In(queue, r)' = In(queue', r)
  BY Zenon DEF In
<1>4. Seen(hr[r].attempted) => Seen(hr[r].attempted)'
  BY Zenon DEF Seen
<1>5. Followed(r)'
  BY <1>1, <1>3, <1>4, Zenon DEF Followed
<1> QED BY <1>2, <1>5, Zenon

\* A worker that is done with r queues it if it was asked to, or others did.
LEMMA DoneQueues ==
  ASSUME DepTypes, MissInv, NEW r \in Releases, NEW b \in BOOLEAN, Done(r, b)
  PROVE  /\ queue' \in Seq(Releases) /\ dirty' \subseteq Busy'
         /\ job'[r].pc = "idle"
         /\ b \/ In(queue, r) \/ r \in dirty => In(queue', r)
         /\ \A q \in Releases : q # r => /\ job'[q] = job[q]
                                         /\ In(queue, q) => In(queue', q)
                                         /\ q \in dirty => q \in dirty'
<1>1. /\ job'[r].pc = "idle" /\ \A q \in Releases : q # r => job'[q] = job[q]
  BY DoneIsIdle, Zenon
<1>2. queue \in Seq(Releases) /\ dirty \subseteq Busy
  BY Zenon DEF MissInv
<1>3. dirty' \subseteq Busy' /\ \A q \in Releases : q # r => (q \in dirty => q \in dirty')
  BY <1>1, <1>2, Zenon DEF Done, Busy
<1>4. CASE b \/ r \in dirty
  <2>1. queue' = Append(queue, r)
    BY <1>4, Zenon DEF Done
  <2> QED BY <2>1, <1>1, <1>2, <1>3, AppendHolds, Zenon
<1>5. CASE ~(b \/ r \in dirty)
  <2>1. queue' = queue
    BY <1>5, Zenon DEF Done
  <2> QED BY <2>1, <1>1, <1>2, <1>3, <1>5, Zenon
<1> QED BY <1>4, <1>5, Zenon

\* The end of a reconcile leaves the others followed.
LEMMA EndLeavesFollowed ==
  ASSUME DepTypes, MissInv, NEW r \in Releases, NEW b \in BOOLEAN, Done(r, b),
         setup' = setup, source' = source, events' = events,
         \A q \in Releases : q # r => hr'[q] = hr[q],
         b \/ Followed(r)'
  PROVE  MissInv'
<1>1. /\ queue' \in Seq(Releases) /\ dirty' \subseteq Busy'
      /\ job'[r].pc = "idle"
      /\ b => In(queue', r)
      /\ \A q \in Releases : q # r => /\ job'[q] = job[q]
                                      /\ In(queue, q) => In(queue', q)
                                      /\ q \in dirty => q \in dirty'
  BY DoneQueues, Zenon
<1>2. In(queue', r) => Followed(r)'
  BY Zenon DEF Followed, In
<1>3. Attempts(r)'
  BY <1>1, Zenon DEF Attempts
<1>4. ASSUME NEW q \in Releases, q # r PROVE Followed(q)' /\ Attempts(q)'
  <2>1. Followed(q) /\ Attempts(q)
    BY Zenon DEF MissInv
  <2>2. Seen(hr[q].attempted) => hr[q].attempted = source' \/ source' \in events'
    BY Zenon DEF Seen
  <2> QED BY <1>1, <1>4, <2>1, <2>2, StaysFollowed, Zenon
<1> QED BY <1>1, <1>2, <1>3, <1>4, Zenon DEF MissInv

\* A release that waits, fails or is rejected.
LEMMA UnmadeFollowed ==
  ASSUME DepTypes, MissInv, NEW r \in Releases, Wait(r) \/ Fail(r) \/ RejectExpr(r)
  PROVE  MissInv'
<1>1. setup' = setup /\ source' = source /\ events' = events
  BY ZenonT(60) DEF Wait, Fail, RejectExpr
<1>2. \A q \in Releases : q # r => hr'[q] = hr[q]
  BY ZenonT(60) DEF Wait, Fail, RejectExpr, DepTypes
<1>3. CASE Wait(r) \/ Fail(r)
  <2>1. Done(r, TRUE)
    BY ZenonT(60), <1>3 DEF Wait, Fail
  <2> QED BY <1>1, <1>2, <2>1, EndLeavesFollowed, Zenon
<1>4. CASE RejectExpr(r)
  <2>1. /\ Done(r, FALSE) /\ job[r].pc = "dependencies"
        /\ job[r].at <= Len(DependsOn(r)) /\ setup.expr[r] = "invalid"
    BY <1>4, Zenon DEF RejectExpr
  <2>2. job[r].at > 0 /\ job[r].at \in Nat
    BY <2>1, Zenon DEF MissInv, Attempts, DepTypes, Jobs
  <2>3. DependsOn(r) # <<>>
    BY <2>1, <2>2
  <2>4. Rejects(r)'
    BY <2>1, <2>3, <1>1, Zenon DEF Rejects, DependsOn
  <2>5. job'[r].pc = "idle"
    BY <2>1, DoneIsIdle, Zenon
  <2>6. Followed(r)'
    BY <2>4, <2>5, Zenon DEF Followed
  <2> QED BY <1>1, <1>2, <2>1, <2>6, EndLeavesFollowed, Zenon
<1> QED BY <1>3, <1>4, Zenon

\* What is made is what was attempted, at the generation of the job.
LEMMA MadeFollowed ==
  ASSUME DepTypes, MissInv, NEW r \in Releases, Succeed(r)
  PROVE  MissInv'
<1> DEFINE new == [revision |-> job[r].revision, gen |-> job[r].gen]
<1>1. /\ setup' = setup /\ source' = source /\ events' = events
      /\ job[r].pc = "release" /\ Done(r, FALSE)
  BY ZenonT(60) DEF Succeed
<1>2. hr' = [hr EXCEPT ![r].ready = "True", ![r].reconciling = FALSE,
                       ![r].observed = job[r].gen, ![r].applied = new]
  BY Zenon DEF Succeed
<1> HIDE DEF new
<1>3. /\ \A q \in Releases : q # r => hr'[q] = hr[q]
      /\ hr'[r].gen = hr[r].gen /\ hr'[r].attempted = hr[r].attempted
      /\ hr'[r].applied = new
  BY ZenonT(60), <1>2 DEF DepTypes, HelmReleases
<1>4. /\ job'[r].pc = "idle"
      /\ In(queue, r) \/ r \in dirty => In(queue', r)
  BY <1>1, DoneQueues, Zenon
<1>5. Followed(r) /\ Attempts(r)
  BY Zenon DEF MissInv
<1>6. CASE In(queue, r) \/ r \in dirty
  <2>1. Followed(r)'
    BY <1>4, <1>6, Zenon DEF Followed, In
  <2> QED BY <1>1, <1>3, <2>1, EndLeavesFollowed, Zenon
<1>7. CASE ~(In(queue, r) \/ r \in dirty)
  <2>1. job[r].gen = hr[r].gen /\ Seen(hr[r].attempted) /\ job[r].revision = hr[r].attempted
    BY <1>1, <1>5, <1>7, Zenon DEF Followed, Attempts
  <2>2. hr'[r].applied = [revision |-> hr'[r].attempted, gen |-> hr'[r].gen]
    BY <1>3, <2>1, Zenon DEF new
  <2>3. Seen(hr[r].attempted)'
    BY <2>1, <1>1, <1>3, Zenon DEF Seen
  <2>4. Followed(r)'
    BY <1>4, <2>2, <2>3, Zenon DEF Followed
  <2> QED BY <1>1, <1>3, <2>4, EndLeavesFollowed, Zenon
<1> QED BY <1>6, <1>7, Zenon

\* A step of a job that neither ends it nor queues anything.
LEMMA StepLeavesFollowed ==
  ASSUME DepTypes, MissInv, NEW r \in Releases, setup' = setup, source' = source,
         events' = events, queue' \in Seq(Releases), dirty' = dirty,
         \A q \in Releases : q # r => /\ hr'[q] = hr[q] /\ job'[q] = job[q]
                                      /\ In(queue, q) => In(queue', q),
         job'[r].pc # "idle", Followed(r)', Attempts(r)'
  PROVE  MissInv'
<1>1. dirty' \subseteq Busy'
  BY Zenon DEF MissInv, Busy
<1>2. ASSUME NEW q \in Releases, q # r PROVE Followed(q)' /\ Attempts(q)'
  <2>1. Followed(q) /\ Attempts(q)
    BY Zenon DEF MissInv
  <2>2. Seen(hr[q].attempted) => hr[q].attempted = source' \/ source' \in events'
    BY Zenon DEF Seen
  <2> QED BY <1>2, <2>1, <2>2, StaysFollowed, Zenon
<1> QED BY <1>1, <1>2, Zenon DEF MissInv

\* A worker that takes r works from its generation of now.
LEMMA StartFollowed ==
  ASSUME DepTypes, MissInv, Start
  PROVE  MissInv'
<1> PICK r : r = Head(queue)
  OBVIOUS
<1>1. queue \in Seq(Releases) /\ queue # <<>>
  BY Zenon DEF MissInv, Start
<1>2. r \in Releases /\ Tail(queue) \in Seq(Releases)
  BY <1>1
<1>3. \A q \in Releases : q # r => (In(queue, q) => In(Tail(queue), q))
  <2> SUFFICES ASSUME NEW i \in DOMAIN queue, queue[i] # r
               PROVE  In(Tail(queue), queue[i])
    BY Zenon DEF In
  <2>1. i - 1 \in DOMAIN Tail(queue) /\ Tail(queue)[i - 1] = queue[i]
    BY <1>1
  <2> QED BY <2>1, Zenon DEF In
<1>4. /\ setup' = setup /\ source' = source /\ events' = events /\ dirty' = dirty
      /\ queue' = Tail(queue)
      /\ hr' = [hr EXCEPT ![r].reconciling = TRUE]
      /\ job' = [job EXCEPT ![r] =
                   [pc |-> "dependencies", at |-> 1, gen |-> hr[r].gen, revision |-> 0,
                    since |-> [d \in Releases |-> hr[d].gen]]]
  BY Zenon DEF Start
<1>5. /\ \A q \in Releases : q # r => hr'[q] = hr[q] /\ job'[q] = job[q]
      /\ hr'[r].gen = hr[r].gen
      /\ job'[r].pc = "dependencies" /\ job'[r].gen = hr[r].gen /\ job'[r].at = 1
  BY <1>2, <1>4, Zenon DEF DepTypes, HelmReleases
<1>6. Followed(r)'
  BY <1>5, Zenon DEF Followed
<1>7. Attempts(r)'
  BY <1>5 DEF Attempts
<1> QED BY <1>2, <1>3, <1>4, <1>5, <1>6, <1>7, StepLeavesFollowed, Zenon

\* Going on to the next dependency, or waiting for one.
LEMMA CheckFollowed ==
  ASSUME DepTypes, MissInv, NEW r \in Releases, CheckDependency(r)
  PROVE  MissInv'
<1>1. CASE Wait(r)
  BY <1>1, UnmadeFollowed, Zenon
<1>2. CASE ~Wait(r)
  <2>1. /\ job[r].pc = "dependencies" /\ job' = [job EXCEPT ![r].at = job[r].at + 1]
        /\ setup' = setup /\ source' = source /\ events' = events /\ hr' = hr
        /\ queue' = queue /\ dirty' = dirty
    BY <1>2, Zenon DEF CheckDependency
  <2>2. /\ \A q \in Releases : q # r => job'[q] = job[q]
        /\ job'[r].pc = "dependencies" /\ job'[r].gen = job[r].gen
        /\ job'[r].at = job[r].at + 1
    BY <2>1, Zenon DEF DepTypes, Jobs
  <2>3. job'[r].at > 0
    <3>1. job[r].at \in Nat
      BY Zenon DEF DepTypes, Jobs
    <3> QED BY <3>1, <2>2
  <2>4. Attempts(r)'
    BY <2>2, <2>3, Zenon DEF Attempts
  <2>5. Followed(r)
    BY Zenon DEF MissInv
  <2>6. Followed(r)'
    BY <2>1, <2>2, <2>5, Zenon DEF Followed, In
  <2>7. queue' \in Seq(Releases)
    BY <2>1, Zenon DEF MissInv
  <2> QED BY <2>1, <2>2, <2>4, <2>6, <2>7, StepLeavesFollowed, Zenon
<1> QED BY <1>1, <1>2, Zenon

\* The job reads the revision of now, or waits for there to be one.
LEMMA ResolveFollowed ==
  ASSUME DepTypes, MissInv, NEW r \in Releases, ResolveSource(r)
  PROVE  MissInv'
<1>1. CASE source = 0
  <2>1. Wait(r)
    BY <1>1, Zenon DEF ResolveSource
  <2> QED BY <2>1, UnmadeFollowed, Zenon
<1>2. CASE source # 0
  <2>1. /\ job[r].pc = "dependencies"
        /\ job' = [job EXCEPT ![r].pc = "release", ![r].revision = source]
        /\ setup' = setup /\ source' = source /\ events' = events
        /\ queue' = queue /\ dirty' = dirty
    BY <1>2, Zenon DEF ResolveSource
  <2>2. PICK v \in {hr[r].ready, "Unknown"} :
          hr' = [hr EXCEPT ![r].attempted = source, ![r].ready = v]
    BY <1>2, Zenon DEF ResolveSource
  <2>3. /\ \A q \in Releases : q # r => job'[q] = job[q]
        /\ job'[r].pc = "release" /\ job'[r].gen = job[r].gen /\ job'[r].revision = source
    BY <2>1, Zenon DEF DepTypes, Jobs
  <2>4. /\ \A q \in Releases : q # r => hr'[q] = hr[q]
        /\ hr'[r].gen = hr[r].gen /\ hr'[r].attempted = source
    BY <2>2, Zenon DEF DepTypes, HelmReleases
  <2>5. Attempts(r)'
    BY <2>3, <2>4, Zenon DEF Attempts
  <2>6. Followed(r)
    BY Zenon DEF MissInv
  <2>7. In(queue, r) \/ r \in dirty \/ job[r].gen = hr[r].gen
    BY <2>1, <2>6, Zenon DEF Followed
  <2>8. Seen(hr[r].attempted)'
    BY <2>1, <2>4, Zenon DEF Seen
  <2>9. Followed(r)'
    BY <2>1, <2>3, <2>4, <2>7, <2>8, Zenon DEF Followed, In
  <2>10. queue' \in Seq(Releases)
    BY <2>1, Zenon DEF MissInv
  <2> QED BY <2>1, <2>3, <2>4, <2>5, <2>9, <2>10, StepLeavesFollowed, Zenon
<1> QED BY <1>1, <1>2, Zenon

\* An edit queues the release.
LEMMA EditFollowed ==
  ASSUME DepTypes, MissInv, NEW r \in Releases, Edit(r)
  PROVE  MissInv'
<1>1. /\ hr' = [hr EXCEPT ![r].gen = hr[r].gen + 1]
      /\ queue' \in Added(queue, {r}) /\ dirty' = dirty \cup ({r} \cap Busy)
      /\ setup' = setup /\ source' = source /\ events' = events /\ job' = job
  BY Zenon DEF Edit, Enqueue
<1>2. queue \in Seq(Releases) /\ dirty \subseteq Busy /\ {r} \in SUBSET Releases
  BY Zenon DEF MissInv
<1>3. /\ queue' \in Seq(Releases)
      /\ \A x \in Releases : In(queue, x) => In(queue', x)
      /\ \A x \in {r} : job[x].pc = "idle" => In(queue', x)
  BY <1>1, <1>2, AddedHolds, Zenon
<1>4. dirty' \subseteq Busy' /\ dirty \subseteq dirty'
  BY <1>1, <1>2, Zenon DEF Busy
<1>5. \A q \in Releases : /\ q # r => hr'[q] = hr[q]
                          /\ hr'[q].attempted = hr[q].attempted
  BY <1>1, Zenon DEF DepTypes, HelmReleases
<1>6. In(queue', r) \/ r \in dirty'
  BY <1>1, <1>3, Zenon DEF Busy
<1>7. Followed(r)'
  BY <1>6, Zenon DEF Followed, In
<1>8. \A q \in Releases : Attempts(q)'
  BY <1>1, <1>5, Zenon DEF MissInv, Attempts
<1>9. ASSUME NEW q \in Releases, q # r PROVE Followed(q)'
  <2>1. Followed(q) /\ Attempts(q)
    BY Zenon DEF MissInv
  <2>2. Seen(hr[q].attempted) => hr[q].attempted = source' \/ source' \in events'
    BY <1>1, Zenon DEF Seen
  <2> QED BY <1>1, <1>3, <1>4, <1>5, <1>9, <2>1, <2>2, StaysFollowed, Zenon
<1> QED BY <1>3, <1>4, <1>7, <1>8, <1>9, Zenon DEF MissInv

\* The event of the current revision reaches all but those at work on it or
\* done with it.
LEMMA EventFollowed ==
  ASSUME DepTypes, MissInv, ~Cyclic(Releases), MapEvent
  PROVE  MissInv'
<1>1. PICK revision \in events : MapEvent!(revision)
  BY Zenon DEF MapEvent
<1> DEFINE R == {r \in Releases : ~Skips(r, revision)}
<1>2. R \in SUBSET Releases
  BY Zenon
<1>3. ~Cyclic(R)
  BY <1>2, CyclesGrow, Zenon
<1>4. /\ queue' \in Added(queue, R) /\ dirty' = dirty \cup (R \cap Busy)
      /\ events' = events \ {revision}
      /\ setup' = setup /\ source' = source /\ hr' = hr /\ job' = job
  BY <1>1, <1>3, Zenon
<1>5. queue \in Seq(Releases) /\ dirty \subseteq Busy
  BY Zenon DEF MissInv
<1>6. \A r \in Releases \ R : hr[r].attempted = revision
  BY Zenon DEF Skips
<1> HIDE DEF R
<1>7. /\ queue' \in Seq(Releases)
      /\ \A x \in Releases : In(queue, x) => In(queue', x)
      /\ \A x \in R : job[x].pc = "idle" => In(queue', x)
  BY <1>2, <1>4, <1>5, AddedHolds, Zenon
<1>8. dirty' \subseteq Busy' /\ dirty \subseteq dirty'
  BY <1>4, <1>5, Zenon DEF Busy
<1>9. ASSUME NEW q \in Releases PROVE Followed(q)' /\ Attempts(q)'
  <2>1. Followed(q) /\ Attempts(q)
    BY Zenon DEF MissInv
  <2>2. CASE q \in R
    <3>1. In(queue', q) \/ q \in dirty'
      BY <1>4, <1>7, <2>2, Zenon DEF Busy
    <3>2. Attempts(q)'
      BY <2>1, <1>4, Zenon DEF Attempts
    <3> QED BY <3>1, <3>2, Zenon DEF Followed, In
  <2>3. CASE q \notin R
    <3>1. Seen(hr[q].attempted) => hr[q].attempted = source' \/ source' \in events'
      BY <1>4, <1>6, <2>3, Zenon DEF Seen
    <3>2. In(queue, q) => In(queue', q)
      BY <1>7, Zenon
    <3>3. q \in dirty => q \in dirty'
      BY <1>8, Zenon
    <3> QED BY <1>4, <2>1, <3>1, <3>2, <3>3, StaysFollowed, Zenon
  <2> QED BY <2>2, <2>3, Zenon
<1> QED BY <1>7, <1>8, <1>9, Zenon DEF MissInv

\* The event of a new revision is on its way.
LEMMA RevisionFollowed ==
  ASSUME DepTypes, MissInv, NewRevision \/ UNCHANGED vars
  PROVE  MissInv'
<1>1. /\ setup' = setup /\ hr' = hr /\ job' = job /\ queue' = queue /\ dirty' = dirty
      /\ source' \in events' \/ (source' = source /\ events' = events)
  BY Zenon DEF NewRevision, vars
<1>2. queue' \in Seq(Releases) /\ dirty' \subseteq Busy'
  BY <1>1, Zenon DEF MissInv, Busy
<1>3. ASSUME NEW q \in Releases PROVE Followed(q)' /\ Attempts(q)'
  <2>1. Followed(q) /\ Attempts(q)
    BY Zenon DEF MissInv
  <2>2. Seen(hr[q].attempted) => hr[q].attempted = source' \/ source' \in events'
    BY <1>1 DEF Seen
  <2> QED BY <1>1, <2>1, <2>2, StaysFollowed, Zenon
<1> QED BY <1>2, <1>3, Zenon DEF MissInv

\* At first all releases are queued.
LEMMA MissInitially == Init => MissInv
<1> SUFFICES ASSUME Init PROVE MissInv
  OBVIOUS
<1>1. queue \in Seq(Releases) /\ \A r \in Releases : In(queue, r)
  BY SetupsAssumption, Zenon DEF Init, In
<1>2. dirty = {} /\ \A r \in Releases : job[r].pc = "idle"
  BY Zenon DEF Init, Idle
<1> QED BY <1>1, <1>2, Zenon DEF MissInv, Followed, Attempts

\* The dependencies declared do not change.
LEMMA CyclesStay ==
  ASSUME [Next]_vars PROVE Cyclic(Releases)' = Cyclic(Releases)
<1>1. setup' = setup
  BY ZenonT(60) DEF Next, Reconcile, vars, Start, MapEvent, NewRevision, Edit,
       CheckDependency, Wait, RejectExpr, ResolveSource, Succeed, Fail
<1> QED BY <1>1, Zenon DEF Cyclic

\* No change of a release and no revision of the source is missed by the
\* watches, the queue and the shortcut of requestsForHelmChartChange: for any
\* number of releases and workers, any dependencies and any events.
THEOREM NoEventMissed == Spec => []NothingMissed
<1> DEFINE Inv == DepTypes /\ (Cyclic(Releases) \/ MissInv)
<1>1. Init => Inv
  BY MissInitially, DepInitially, Zenon DEF DepInv
<1>2. DepTypes /\ DepTypes' /\ Inv /\ [Next]_vars => Inv'
  <2> SUFFICES ASSUME DepTypes, DepTypes', Inv, [Next]_vars PROVE Inv'
    OBVIOUS
  <2>1. CASE Cyclic(Releases)
    BY <2>1, CyclesStay, Zenon
  <2>2. CASE ~Cyclic(Releases)
    <3>1. MissInv
      BY <2>2, Zenon
    <3>2. CASE Start \/ MapEvent \/ NewRevision \/ UNCHANGED vars
      BY <2>2, <3>1, <3>2, StartFollowed, EventFollowed, RevisionFollowed, Zenon
    <3>3. ASSUME NEW r \in Releases, Reconcile(r) \/ Edit(r) PROVE MissInv'
      BY <3>1, <3>3, CheckFollowed, UnmadeFollowed, ResolveFollowed, MadeFollowed,
         EditFollowed, Zenon DEF Reconcile
    <3> QED BY <3>2, <3>3, Zenon DEF Next
  <2> QED BY <2>1, <2>2, Zenon
<1>3. DepInv => DepTypes
  BY Zenon DEF DepInv
<1>4. Inv => NothingMissed
  <2> SUFFICES ASSUME DepTypes, MissInv, queue = <<>>, Busy = {}, events = {},
                      NEW r \in Releases \ Hopeless[setup]
               PROVE  hr[r].applied = [revision |-> source, gen |-> hr[r].gen]
    BY Zenon DEF NothingMissed, UpToDate
  <2>1. ~In(queue, r) /\ r \notin dirty /\ job[r].pc = "idle"
    <3>1. DOMAIN queue = {}
      OBVIOUS
    <3> QED BY <3>1, Zenon DEF In, MissInv, Busy
  <2>2. ~Rejects(r)
    BY Zenon DEF Hopeless, Rejects, DepTypes, DependsOn
  <2>3. Followed(r)
    BY Zenon DEF MissInv
  <2> QED BY <2>1, <2>2, <2>3, Zenon DEF Followed, Seen
<1> QED BY <1>1, <1>2, <1>3, <1>4, DepInvariant, PTL DEF Spec

(* ~~~~ source revisions ~~~~~~~~~~~~~~~~~~~~~~~~~~~~~~~~~~~~~~~~~~~~~~~~ *)

(* -------------------------- the source, by setup ------------------------- *)

\* The operators of SourceRevisions, for any setup f.
Digested(f, a) ==
  \/ f.kind = "OCIRepository"
  \/ f.kind = "ExternalArtifact" /\ a.digest # NoDigest

Unusable(f, a) ==
  /\ Digested(f, a)
  /\ \/ a.tag \in ChartVersions /\ a.tag # a.version
     \/ a.digest[1] = ""

VersionIn(f, a) ==
  IF Digested(f, a) /\ f.tracking THEN <<a.version, a.digest[1]>> ELSE <<a.version, "">>

DigestIn(f, a) ==
  IF ~Digested(f, a) THEN NoRevision
  ELSE [tag |-> IF a.tag \in ChartVersions THEN "none" ELSE a.tag, digest |-> a.digest]

\* The event of revision rev is one of an attempt at version with digest.
AlreadyIn(f, rev, version, digest) ==
  IF f.kind = "OCIRepository" \/ rev.digest # NoDigest
  THEN extractDigest(rev) = digest
  ELSE <<rev.tag, "">> = version

\* The artifacts are the same as far as Follows tells.
Alike(f, a, b) == a.version = b.version /\ (f.tracking => a.digest[1] = b.digest[1])

\* They are the operators of SourceRevisions.
LEMMA SourceOperators ==
  ASSUME NEW a
  PROVE  /\ CannotMutate(a) <=> Unusable(from, a)
         /\ MutatedVersion(a) = VersionIn(from, a)
         /\ RevDigest(a) = DigestIn(from, a)
<1>1. isSourceWithRevisionDigest(Revision(a)) <=> Digested(from, a)
  BY DEF isSourceWithRevisionDigest, Digested, Revision
<1>2. isSemverTag(Revision(a)) <=> a.tag \in ChartVersions
  BY DEF isSemverTag, Revision
<1>3. CannotMutate(a) <=> Unusable(from, a)
  BY <1>1, <1>2, Zenon DEF CannotMutate, Unusable
<1>4. MutatedVersion(a) = VersionIn(from, a)
  BY <1>1 DEF MutatedVersion, VersionIn
<1>5. [Revision(a) EXCEPT !.tag = "none"] = [tag |-> "none", digest |-> a.digest]
  BY DEF Revision
<1>6. RevDigest(a) = DigestIn(from, a)
  BY <1>1, <1>2, <1>5 DEF RevDigest, DigestIn, Revision
<1> QED BY <1>3, <1>4, <1>6

LEMMA SkipsByStatus ==
  ASSUME NEW rev
  PROVE  SkipsEvent(rev) <=>
           /\ status.ready = "True" \/ status.reconciling
           /\ AlreadyIn(from, rev, status.attempted, status.digest)
BY Zenon DEF SkipsEvent, AttemptedAlready, AlreadyIn

(* ------------------- what versions and digests tell apart ---------------- *)

Versions == (ChartVersions \cup {""}) \X (STRING \cup {""})
Revisions == [tag : ChartVersions \cup {"none", "latest"}, digest : STRING \X STRING]
Digests == Revisions \cup {NoRevision}

\* What is assumed of one artifact of a setup, and of two.
LEMMA Artifacts ==
  ASSUME NEW f \in SourceSetups, NEW a \in f.artifacts
  PROVE  /\ a.tag \in ChartVersions \cup {"none", "latest"} /\ a.version \in ChartVersions
         /\ a.digest \in STRING \X STRING /\ f.tracking \in BOOLEAN
         /\ a.version \notin {"", "none", "latest"}
         /\ "none" \notin ChartVersions /\ "latest" \notin ChartVersions /\ "" \notin ChartVersions
         /\ a.tag # "none" \/ a.digest # NoDigest
         /\ f.kind = "HelmChart" => a.tag = a.version /\ a.digest = NoDigest
         /\ f.kind \in {"HelmChart", "OCIRepository", "ExternalArtifact"}
         /\ \A b \in f.artifacts :
              a.digest = b.digest => a.version = b.version \/ a.digest = NoDigest
<1>1. f \in [kind : {"HelmChart", "OCIRepository", "ExternalArtifact"},
             artifacts : SUBSET [tag : ChartVersions \cup {"none", "latest"},
                                 digest : STRING \X STRING, version : ChartVersions],
             tracking : BOOLEAN]
  BY SourceAssumption, Zenon
<1>2. f.artifacts \subseteq [tag : ChartVersions \cup {"none", "latest"},
                             digest : STRING \X STRING, version : ChartVersions]
      /\ f.tracking \in BOOLEAN /\ f.kind \in {"HelmChart", "OCIRepository", "ExternalArtifact"}
  BY <1>1
<1>3. a \in [tag : ChartVersions \cup {"none", "latest"},
             digest : STRING \X STRING, version : ChartVersions]
  BY <1>2, Zenon
<1>4. a.tag \in ChartVersions \cup {"none", "latest"} /\ a.version \in ChartVersions
      /\ a.digest \in STRING \X STRING
  BY <1>3
<1>5. "none" \notin ChartVersions /\ "latest" \notin ChartVersions /\ "" \notin ChartVersions
  BY SourceAssumption, Zenon
<1>6. a.version \notin {"", "none", "latest"}
  BY <1>4, <1>5, Zenon
<1>7. /\ a.tag # "none" \/ a.digest # NoDigest
      /\ f.kind = "HelmChart" => a.tag = a.version /\ a.digest = NoDigest
      /\ \A b \in f.artifacts :
           a.digest = b.digest => a.version = b.version \/ a.digest = NoDigest
  BY SourceAssumption, Zenon
<1> QED BY <1>2, <1>4, <1>5, <1>6, <1>7, Zenon

\* Charts that can be used and get the same version are alike.
LEMMA SameVersionAlike ==
  ASSUME NEW f \in SourceSetups, NEW a \in f.artifacts, NEW b \in f.artifacts,
         ~Unusable(f, a), ~Unusable(f, b), VersionIn(f, a) = VersionIn(f, b)
  PROVE  Alike(f, a, b)
<1>1. a.version = b.version
  BY DEF VersionIn
<1>2. ASSUME f.tracking PROVE a.digest[1] = b.digest[1]
  <2>1. /\ Digested(f, a) => VersionIn(f, a)[2] = a.digest[1] /\ a.digest[1] # ""
        /\ ~Digested(f, a) => VersionIn(f, a)[2] = ""
    BY <1>2 DEF VersionIn, Unusable
  <2>2. /\ Digested(f, b) => VersionIn(f, b)[2] = b.digest[1] /\ b.digest[1] # ""
        /\ ~Digested(f, b) => VersionIn(f, b)[2] = ""
    BY <1>2 DEF VersionIn, Unusable
  <2>3. ASSUME NEW c \in f.artifacts, ~Digested(f, c) PROVE c.digest = NoDigest
    BY <2>3, Artifacts, Zenon DEF Digested
  <2>4. CASE Digested(f, a)
    BY <2>1, <2>2, <2>4
  <2>5. CASE ~Digested(f, a)
    <3>1. ~Digested(f, b)
      BY <2>1, <2>2, <2>5
    <3> QED BY <2>3, <2>5, <3>1
  <2> QED BY <2>4, <2>5
<1> QED BY <1>1, <1>2 DEF Alike

\* A chart that can be used gets the version of one that is alike.
LEMMA AlikeSameVersion ==
  ASSUME NEW f \in SourceSetups, NEW a \in f.artifacts, NEW b \in f.artifacts,
         ~Unusable(f, a), Alike(f, a, b)
  PROVE  VersionIn(f, a) = VersionIn(f, b)
<1>1. CASE ~f.tracking
  BY <1>1 DEF VersionIn, Alike
<1>2. CASE f.tracking /\ Digested(f, a)
  <2>1. a.digest[1] = b.digest[1] /\ b.digest[1] # ""
    BY <1>2 DEF Unusable, Alike
  <2>2. b.digest # NoDigest
    <3>1. NoDigest[1] = ""
      BY DEF NoDigest
    <3> QED BY <2>1, <3>1, Zenon
  <2>3. Digested(f, b)
    BY <1>2, <2>2 DEF Digested
  <2> QED BY <1>2, <2>1, <2>3 DEF VersionIn, Alike
<1>3. CASE f.tracking /\ ~Digested(f, a)
  <2>1. a.digest = NoDigest
    BY <1>3, Artifacts, Zenon DEF Digested
  <2>2. b.digest[1] = ""
    <3>1. NoDigest[1] = ""
      BY DEF NoDigest
    <3> QED BY <1>3, <2>1, <3>1, Zenon DEF Alike
  <2> QED BY <1>3, <2>2 DEF VersionIn, Alike
<1> QED BY <1>1, <1>2, <1>3

\* An event that is skipped for the recorded attempt tells of an artifact like
\* the one that was attempted.
LEMMA SkippedAlike ==
  ASSUME RevisionsNameVersions, NEW f \in SourceSetups,
         NEW w \in f.artifacts, NEW a \in f.artifacts, ~Unusable(f, w),
         AlreadyIn(f, Revision(a), VersionIn(f, w), DigestIn(f, w))
  PROVE  Alike(f, w, a)
<1>1. Revision(a).tag = a.tag /\ Revision(a).digest = a.digest /\ NoDigest[1] = ""
  BY DEF Revision, NoDigest
<1>2. Digested(f, w) => w.digest[1] # ""
  BY DEF Unusable
<1>3. CASE a.digest # NoDigest
  <2>1. extractDigest(Revision(a)) = [tag |-> "none", digest |-> a.digest]
    BY <1>3 DEF extractDigest, Revision
  <2>2. DigestIn(f, w) = [tag |-> "none", digest |-> a.digest]
    BY <1>1, <1>3, <2>1 DEF AlreadyIn
  <2>3. DigestIn(f, w).digest = a.digest
    BY <2>2
  <2>4. w.digest = a.digest
    BY <1>3, <2>3 DEF DigestIn, NoRevision
  <2>5. w.version = a.version
    BY <1>3, <2>4, Artifacts, Zenon
  <2> QED BY <2>4, <2>5, Zenon DEF Alike
<1>4. CASE a.digest = NoDigest /\ f.kind = "OCIRepository"
  <2>1. DigestIn(f, w) = Revision(a) /\ Digested(f, w)
    BY <1>1, <1>4 DEF AlreadyIn, extractDigest, Digested
  <2>2. DigestIn(f, w).digest = w.digest
    BY <2>1 DEF DigestIn
  <2> QED BY <1>1, <1>2, <1>4, <2>1, <2>2, Zenon
<1>5. CASE a.digest = NoDigest /\ f.kind # "OCIRepository"
  <2>1. <<a.tag, "">> = VersionIn(f, w)
    BY <1>1, <1>5 DEF AlreadyIn
  <2>2. a.tag = w.version
    BY <2>1 DEF VersionIn
  <2>3. a.tag \in ChartVersions
    BY <2>2, Artifacts, Zenon
  <2>4. a.tag = a.version
    BY <1>5, <2>3, Artifacts, Zenon DEF RevisionsNameVersions
  <2>5. ASSUME f.tracking PROVE w.digest[1] = a.digest[1]
    <3>1. ~Digested(f, w)
      BY <1>2, <2>1, <2>5 DEF VersionIn
    <3>2. w.digest = NoDigest
      BY <3>1, Artifacts, Zenon DEF Digested
    <3> QED BY <1>5, <3>2, Zenon
  <2> QED BY <2>2, <2>4, <2>5, Zenon DEF Alike
<1> QED BY <1>3, <1>4, <1>5, Zenon

\* An event that is skipped while the artifact it tells of is being loaded.
LEMMA SameRevisionAlike ==
  ASSUME RevisionsNameVersions, NEW f \in SourceSetups,
         NEW w \in f.artifacts, NEW a \in f.artifacts, Revision(w) = Revision(a),
         NEW v \in Versions, NEW d, AlreadyIn(f, Revision(a), v, d)
  PROVE  Alike(f, w, a) \/ Unusable(f, w)
<1>1. /\ w.tag = a.tag /\ w.digest = a.digest /\ NoDigest[1] = ""
      /\ Revision(a).tag = a.tag /\ Revision(a).digest = a.digest
  <2>1. /\ Revision(a).tag = a.tag /\ Revision(a).digest = a.digest
        /\ Revision(w).tag = w.tag /\ Revision(w).digest = w.digest
    BY DEF Revision
  <2>2. NoDigest[1] = ""
    BY DEF NoDigest
  <2> QED BY <2>1, <2>2, Zenon
<1>2. CASE a.digest # NoDigest
  <2>1. w.version = a.version
    BY <1>1, <1>2, Artifacts, Zenon
  <2> QED BY <1>1, <2>1, Zenon DEF Alike
<1>3. CASE a.digest = NoDigest /\ f.kind = "OCIRepository"
  BY <1>1, <1>3, Zenon DEF Unusable, Digested
<1>4. CASE a.digest = NoDigest /\ f.kind # "OCIRepository"
  <2>1. CASE f.kind = "HelmChart"
    <3>1. w.version = a.version
      BY <1>1, <2>1, Artifacts, Zenon
    <3> QED BY <1>1, <3>1, Zenon DEF Alike
  <2>2. CASE f.kind = "ExternalArtifact"
    <3>1. <<a.tag, "">> = v
      BY <1>1, <1>4 DEF AlreadyIn
    <3>2. a.tag \in ChartVersions \cup {""}
      BY <3>1 DEF Versions
    <3>3. a.tag \in ChartVersions \cup {"none", "latest"}
      BY Artifacts, Zenon
    <3>4. a.tag \in ChartVersions
      BY <3>2, <3>3
    <3>5. a.tag = a.version /\ w.tag = w.version
      BY <1>1, <1>4, <2>2, <3>4, Zenon DEF RevisionsNameVersions
    <3> QED BY <1>1, <3>5, Zenon DEF Alike
  <2>3. f.kind \in {"HelmChart", "OCIRepository", "ExternalArtifact"}
    BY Artifacts, Zenon
  <2> QED BY <1>4, <2>1, <2>2, <2>3
<1> QED BY <1>2, <1>3, <1>4, Zenon

\* What is recorded of an attempt has its type.
LEMMA AttemptTypes ==
  ASSUME NEW f \in SourceSetups, NEW a \in f.artifacts
  PROVE  VersionIn(f, a) \in Versions /\ DigestIn(f, a) \in Digests /\ Revision(a) \in Revisions
<1>1. /\ a.tag \in ChartVersions \cup {"none", "latest"} /\ a.version \in ChartVersions
      /\ a.digest \in STRING \X STRING
  BY Artifacts, Zenon
<1>2. a.digest[1] \in STRING
  BY <1>1
<1>3. VersionIn(f, a) \in Versions
  BY <1>1, <1>2 DEF VersionIn, Versions
<1>4. DigestIn(f, a) \in Digests
  <2>1. CASE Digested(f, a)
    BY <1>1, <2>1 DEF DigestIn, Digests, Revisions
  <2>2. CASE ~Digested(f, a)
    BY <2>2, Zenon DEF DigestIn, Digests
  <2> QED BY <2>1, <2>2
<1>5. Revision(a) \in Revisions
  BY <1>1 DEF Revision, Revisions
<1> QED BY <1>3, <1>4, <1>5

(* ------------------------------ the invariants --------------------------- *)

Readies == {"Unknown", "True", "False"}
Statuses == [ready : Readies, reconciling : BOOLEAN, failed : BOOLEAN,
             attempted : Versions, digest : Digests]
Phases == {"idle", "source", "load", "release", "rollback"}
Released(f) == [version : Versions, status : {"deployed", "failed", "superseded"},
                made : f.artifacts]
Recordings == [oci : Digests]

\* Each release has the version of a chart that could be used, and its snapshot
\* has no digest or that of its artifact.
StoreOK(f, rs, sn) ==
  /\ rs \in Seq(Released(f)) /\ sn \in Seq(Recordings) /\ Len(sn) = Len(rs)
  /\ \A i \in 1..Len(rs) : /\ ~Unusable(f, rs[i].made)
                           /\ rs[i].version = VersionIn(f, rs[i].made)
                           /\ sn[i].oci \in {NoRevision, DigestIn(f, rs[i].made)}

\* The status records the attempt at artifact a.
RecordedIn(f, st, a) ==
  /\ ~Unusable(f, a)
  /\ st.attempted = VersionIn(f, a) /\ st.digest = DigestIn(f, a)

SInv ==
  /\ from \in SourceSetups /\ artifact \in from.artifacts
  /\ work \in [pc : Phases, artifact : from.artifacts]
  /\ status \in Statuses /\ news \in Seq(Revisions)
  /\ StoreOK(from, releases, snapshots)
  /\ work.pc \in {"release", "rollback"} => RecordedIn(from, status, work.artifact)

\* The last release is deployed, and of this version; or of an artifact like a.
DeployedIn(rs, v) == rs # <<>> /\ rs[Len(rs)].status = "deployed" /\ rs[Len(rs)].version = v
FollowsIn(f, rs, a) ==
  rs # <<>> /\ rs[Len(rs)].status = "deployed" /\ Alike(f, rs[Len(rs)].made, a)
GaveUpIn(f, st, a) == st.failed /\ st.attempted = VersionIn(f, a)

\* The source will be read again.
Pending == asked \/ news # <<>> \/ overtaken

\* Unless the source will be read again, what the reconcile works with is like
\* what the source holds, and what it left behind follows the source.
FInv ==
  /\ asked \in BOOLEAN /\ overtaken \in BOOLEAN
  /\ news # <<>> => news[Len(news)] = Revision(artifact)
  /\ work.pc = "idle" =>
       /\ Pending \/ FollowsIn(from, releases, artifact) \/ GaveUpIn(from, status, artifact)
       /\ status.reconciling => asked
       /\ status.ready = "True" => /\ RecordedIn(from, status, work.artifact)
                                   /\ DeployedIn(releases, status.attempted)
  /\ work.pc = "load" =>
       Pending \/ Alike(from, work.artifact, artifact) \/ Unusable(from, work.artifact)
  /\ work.pc \in {"release", "rollback"} => Pending \/ Alike(from, work.artifact, artifact)
  /\ work.pc = "rollback" => status.failed /\ status.ready = "False"

(* ------------------------- records that are updated ---------------------- *)

\* What a new status has in common with the old one.
Updated(st, new, ready, reconciling, failed) ==
  /\ new \in Statuses /\ new.attempted = st.attempted /\ new.digest = st.digest
  /\ new.ready = ready /\ new.reconciling = reconciling /\ new.failed = failed

LEMMA StatusUpdates ==
  ASSUME NEW st \in Statuses, NEW r \in Readies, NEW c \in BOOLEAN
  PROVE  /\ Updated(st, [st EXCEPT !.reconciling = c], st.ready, c, st.failed)
         /\ Updated(st, [st EXCEPT !.ready = r], r, st.reconciling, st.failed)
         /\ Updated(st, [st EXCEPT !.ready = r, !.reconciling = c], r, c, st.failed)
         /\ Updated(st, [st EXCEPT !.ready = r, !.failed = TRUE, !.reconciling = c], r, c, TRUE)
<1>1. Updated(st, [st EXCEPT !.reconciling = c], st.ready, c, st.failed)
  BY DEF Updated, Statuses
<1>2. Updated(st, [st EXCEPT !.ready = r], r, st.reconciling, st.failed)
  BY DEF Updated, Statuses
<1>3. Updated(st, [st EXCEPT !.ready = r, !.reconciling = c], r, c, st.failed)
  BY DEF Updated, Statuses
<1>4. Updated(st, [st EXCEPT !.ready = r, !.failed = TRUE, !.reconciling = c], r, c, TRUE)
  BY DEF Updated, Statuses
<1> QED BY <1>1, <1>2, <1>3, <1>4

\* The attempt that Load records.
LEMMA AttemptRecords ==
  ASSUME SInv, ~Unusable(from, work.artifact)
  PROVE  /\ Attempt(work.artifact) \in Statuses
         /\ RecordedIn(from, Attempt(work.artifact), work.artifact)
<1> DEFINE v == VersionIn(from, work.artifact)
           d == DigestIn(from, work.artifact)
<1>1. /\ status \in Statuses /\ work.artifact \in from.artifacts /\ from \in SourceSetups
  BY DEF SInv
<1>2. v \in Versions /\ d \in Digests
  BY <1>1, AttemptTypes, Zenon
<1>3. PICK b \in BOOLEAN : b = (status.failed /\ status.attempted = v)
  OBVIOUS
<1>4. Attempt(work.artifact) = [status EXCEPT !.failed = b, !.attempted = v, !.digest = d]
  BY <1>3, SourceOperators, Zenon DEF Attempt
<1> HIDE DEF v, d
<1>5. /\ [status EXCEPT !.failed = b, !.attempted = v, !.digest = d] \in Statuses
      /\ [status EXCEPT !.failed = b, !.attempted = v, !.digest = d].attempted = v
      /\ [status EXCEPT !.failed = b, !.attempted = v, !.digest = d].digest = d
  BY <1>1, <1>2 DEF Statuses
<1> QED BY <1>4, <1>5 DEF RecordedIn, v, d

\* Releases that are superseded keep what they were made from.
Kept(f, rs, new) ==
  /\ new \in Seq(Released(f)) /\ Len(new) = Len(rs)
  /\ \A i \in 1..Len(rs) : new[i].made = rs[i].made /\ new[i].version = rs[i].version

LEMMA SupersededKept ==
  ASSUME NEW f, NEW rs \in Seq(Released(f))
  PROVE  /\ Kept(f, rs, Superseded(rs))
         /\ rs # <<>> => Kept(f, rs, [Superseded(rs) EXCEPT ![Len(rs)].status = "superseded"])
<1> DEFINE new == Superseded(rs)
           one(i) == IF rs[i].status = "deployed"
                     THEN [rs[i] EXCEPT !.status = "superseded"] ELSE rs[i]
<1>1. new = [i \in 1..Len(rs) |-> one(i)]
  BY DEF Superseded
<1>2. ASSUME NEW r \in Released(f)
      PROVE  /\ [r EXCEPT !.status = "superseded"] \in Released(f)
             /\ [r EXCEPT !.status = "superseded"].made = r.made
             /\ [r EXCEPT !.status = "superseded"].version = r.version
  BY DEF Released
<1>3. ASSUME NEW i \in 1..Len(rs)
      PROVE  one(i) \in Released(f) /\ one(i).made = rs[i].made /\ one(i).version = rs[i].version
  <2>1. rs[i] \in Released(f)
    OBVIOUS
  <2> QED BY <2>1, <1>2
<1> HIDE DEF one, new
<1>4. Len(rs) \in Nat
  OBVIOUS
<1>5. Kept(f, rs, new)
  <2>1. new \in Seq(Released(f)) /\ Len(new) = Len(rs)
    BY <1>1, <1>3, <1>4
  <2> QED BY <2>1, <1>1, <1>3 DEF Kept
<1>6. ASSUME rs # <<>>
      PROVE  Kept(f, rs, [new EXCEPT ![Len(rs)].status = "superseded"])
  <2> DEFINE last == [new[Len(rs)] EXCEPT !.status = "superseded"]
             more == [new EXCEPT ![Len(rs)] = last]
  <2>1. Len(rs) \in 1..Len(rs) /\ new \in Seq(Released(f)) /\ Len(new) = Len(rs)
    BY <1>5, <1>6 DEF Kept
  <2>2. new[Len(rs)] \in Released(f)
    BY <2>1
  <2>3. last \in Released(f) /\ last.made = new[Len(rs)].made /\ last.version = new[Len(rs)].version
    BY <1>2, <2>2
  <2> HIDE DEF last
  <2>4. /\ more \in Seq(Released(f)) /\ Len(more) = Len(rs)
        /\ \A i \in 1..Len(rs) : more[i] = IF i = Len(rs) THEN last ELSE new[i]
    BY <2>1, <2>3
  <2> HIDE DEF more
  <2>5. Kept(f, rs, more)
    BY <2>3, <2>4, <1>5 DEF Kept
  <2>6. [new EXCEPT ![Len(rs)].status = "superseded"] = more
    BY Zenon DEF more, last
  <2> QED BY <2>5, <2>6
<1> QED BY <1>5, <1>6 DEF new

(* ------------------------- the storage and its record -------------------- *)

\* A release of an artifact that could be used, and the digest recorded of it.
Fits(f, r, d) ==
  /\ r \in Released(f) /\ ~Unusable(f, r.made) /\ r.version = VersionIn(f, r.made)
  /\ d \in Digests /\ d \in {NoRevision, DigestIn(f, r.made)}

\* A release is added with a snapshot that has no digest or that of its artifact.
LEMMA StoreGrows ==
  ASSUME NEW f, NEW rs, NEW sn, StoreOK(f, rs, sn), NEW kept, Kept(f, rs, kept),
         NEW r, NEW d, Fits(f, r, d)
  PROVE  /\ StoreOK(f, Append(kept, r), Append(sn, [oci |-> d]))
         /\ Append(kept, r) # <<>> /\ Append(kept, r)[Len(Append(kept, r))] = r
<1> DEFINE new == Append(kept, r)
           snap == [oci |-> d]
           snaps == Append(sn, snap)
<1>1. /\ rs \in Seq(Released(f)) /\ sn \in Seq(Recordings) /\ Len(sn) = Len(rs)
      /\ kept \in Seq(Released(f)) /\ Len(kept) = Len(rs)
      /\ r \in Released(f) /\ d \in Digests
  BY Zenon DEF StoreOK, Kept, Fits
<1>2. snap \in Recordings /\ snap.oci = d
  BY <1>1 DEF Recordings
<1> HIDE DEF snap
<1>3. /\ new \in Seq(Released(f)) /\ Len(new) = Len(rs) + 1 /\ Len(rs) \in Nat
      /\ snaps \in Seq(Recordings) /\ Len(snaps) = Len(rs) + 1
      /\ new[Len(rs) + 1] = r /\ snaps[Len(rs) + 1] = snap
      /\ \A i \in 1..Len(rs) : new[i] = kept[i] /\ snaps[i] = sn[i]
  BY <1>1, <1>2
<1>4. new # <<>>
  BY <1>1
<1> HIDE DEF new, snaps
<1>5. ASSUME NEW i \in 1..Len(new)
      PROVE  /\ ~Unusable(f, new[i].made)
             /\ new[i].version = VersionIn(f, new[i].made)
             /\ snaps[i].oci \in {NoRevision, DigestIn(f, new[i].made)}
  <2>1. CASE i \in 1..Len(rs)
    <3>1. /\ ~Unusable(f, rs[i].made) /\ rs[i].version = VersionIn(f, rs[i].made)
          /\ sn[i].oci \in {NoRevision, DigestIn(f, rs[i].made)}
      BY <2>1, Zenon DEF StoreOK
    <3>2. kept[i].made = rs[i].made /\ kept[i].version = rs[i].version
      BY <2>1, Zenon DEF Kept
    <3>3. new[i] = kept[i] /\ snaps[i] = sn[i]
      BY <2>1, <1>3, Zenon
    <3> QED BY <3>1, <3>2, <3>3, Zenon
  <2>2. CASE i = Len(rs) + 1
    BY <1>2, <1>3, <2>2, Zenon DEF Fits
  <2>3. i \in 1..Len(rs) \/ i = Len(rs) + 1
    BY <1>3
  <2> QED BY <2>1, <2>2, <2>3, Zenon
<1>6. StoreOK(f, new, snaps)
  BY <1>3, <1>5, Zenon DEF StoreOK
<1> QED BY <1>3, <1>4, <1>6 DEF new, snaps, snap

\* A sequence is the function of its elements.
LEMMA SequenceAsFunction ==
  ASSUME NEW T, NEW s \in Seq(T)
  PROVE  s = [i \in 1..Len(s) |-> s[i]]
OBVIOUS

\* recordOnObject keeps the snapshots there are, and adds one with the digest of
\* the attempt.
LEMMA DigestRecorded ==
  ASSUME StoreOK(from, releases, snapshots), NEW kept, Kept(from, releases, kept),
         NEW r \in Released(from), status.digest \in Digests
  PROVE  RecordDigest(Append(kept, r)) = Append(snapshots, [oci |-> status.digest])
<1> DEFINE snap == [oci |-> status.digest]
           one(i) == [oci |-> IF i \in DOMAIN snapshots THEN snapshots[i].oci ELSE status.digest]
<1>1. /\ snapshots \in Seq(Recordings) /\ kept \in Seq(Released(from))
      /\ Len(snapshots) = Len(kept) /\ Len(kept) \in Nat
  BY DEF StoreOK, Kept
<1>2. snap \in Recordings
  BY DEF Recordings
<1>3. ASSUME NEW i \in 1..Len(kept) PROVE one(i) = snapshots[i]
  <2>1. i \in DOMAIN snapshots /\ snapshots[i] \in Recordings
    BY <1>1
  <2> QED BY <2>1 DEF Recordings
<1>4. one(Len(kept) + 1) = snap
  BY <1>1
<1>5. RecordDigest(Append(kept, r)) = [i \in 1..(Len(kept) + 1) |-> one(i)]
  BY <1>1 DEF RecordDigest
<1> HIDE DEF one, snap
<1>6. /\ Append(snapshots, snap) \in Seq(Recordings)
      /\ Len(Append(snapshots, snap)) = Len(kept) + 1
      /\ \A i \in 1..Len(kept) : Append(snapshots, snap)[i] = snapshots[i]
      /\ Append(snapshots, snap)[Len(kept) + 1] = snap
  BY <1>1, <1>2
<1>7. ASSUME NEW i \in 1..(Len(kept) + 1) PROVE Append(snapshots, snap)[i] = one(i)
  <2>1. i \in 1..Len(kept) \/ i = Len(kept) + 1
    BY <1>1
  <2> QED BY <2>1, <1>3, <1>4, <1>6, Zenon
<1>8. Append(snapshots, snap) = [i \in 1..(Len(kept) + 1) |-> Append(snapshots, snap)[i]]
  BY <1>1, <1>6, SequenceAsFunction, Zenon
<1> QED BY <1>5, <1>7, <1>8 DEF snap

(* ----------------------------- steps of SInv ----------------------------- *)

\* The reconcile moves on to another phase, with the artifact it has.
LEMMA WorkMoves ==
  ASSUME SInv, NEW p \in Phases
  PROVE  /\ [work EXCEPT !.pc = p] \in [pc : Phases, artifact : from.artifacts]
         /\ [work EXCEPT !.pc = p].pc = p /\ [work EXCEPT !.pc = p].artifact = work.artifact
         /\ work.artifact \in from.artifacts
<1>1. work \in [pc : Phases, artifact : from.artifacts]
  BY DEF SInv
<1> QED BY <1>1

\* A step that leaves the storage alone and a status of the right type.
LEMMA StatusStep ==
  ASSUME SInv, SourceFrame, UNCHANGED <<releases, snapshots>>, status' \in Statuses,
         work' \in [pc : Phases, artifact : from.artifacts],
         work'.pc \in {"release", "rollback"} => RecordedIn(from, status', work'.artifact)
  PROVE  SInv'
BY Zenon DEF SInv, SourceFrame

LEMMA TakeRequestRecorded ==
  ASSUME SInv, TakeRequest
  PROVE  SInv'
<1>1. /\ work' = [work EXCEPT !.pc = "source"] /\ SourceFrame /\ UNCHANGED <<releases, snapshots>>
      /\ status' = [status EXCEPT !.reconciling = TRUE]
  BY Zenon DEF TakeRequest
<1>2. "source" \in Phases /\ status \in Statuses /\ TRUE \in BOOLEAN /\ status.ready \in Readies
  BY DEF Phases, SInv, Statuses
<1>3. status' \in Statuses
  BY <1>1, <1>2, StatusUpdates, Zenon DEF Updated
<1>4. work' \in [pc : Phases, artifact : from.artifacts] /\ work'.pc = "source"
  BY <1>1, <1>2, WorkMoves, Zenon
<1> QED BY <1>1, <1>3, <1>4, StatusStep

LEMMA GetSourceRecorded ==
  ASSUME SInv, GetSource
  PROVE  SInv'
<1>1. /\ work' = [pc |-> "load", artifact |-> artifact] /\ SourceFrame
      /\ UNCHANGED <<status, releases, snapshots>>
  BY Zenon DEF GetSource
<1>2. work' \in [pc : Phases, artifact : from.artifacts] /\ work'.pc = "load" /\ status' \in Statuses
  <2>1. artifact \in from.artifacts /\ status \in Statuses
    BY Zenon DEF SInv
  <2> QED BY <1>1, <2>1 DEF Phases
<1> QED BY <1>1, <1>2, StatusStep

\* Either way the reconcile fails before it has a chart.
LEMMA ErrorRecorded ==
  ASSUME SInv, ArtifactFailed \/ ChartMutateError
  PROVE  SInv'
<1>1. /\ work' = [work EXCEPT !.pc = "idle"] /\ SourceFrame /\ UNCHANGED <<releases, snapshots>>
      /\ status' = [status EXCEPT !.ready = "False"]
  BY Zenon DEF ArtifactFailed, ChartMutateError
<1>2. "idle" \in Phases /\ status \in Statuses /\ TRUE \in BOOLEAN /\ "False" \in Readies
  BY DEF Phases, SInv, Readies
<1>3. status' \in Statuses
  BY <1>1, <1>2, StatusUpdates, Zenon DEF Updated
<1>4. work' \in [pc : Phases, artifact : from.artifacts] /\ work'.pc = "idle"
  BY <1>1, <1>2, WorkMoves, Zenon
<1> QED BY <1>1, <1>3, <1>4, StatusStep

\* What Load makes of the status and the reconcile, the three ways it ends.
LEMMA LoadEnds ==
  ASSUME SInv, Load
  PROVE  /\ ~Unusable(from, work.artifact) /\ SourceFrame
         /\ UNCHANGED <<releases, snapshots, asked, overtaken>>
         /\ Attempt(work.artifact) \in Statuses
         /\ RecordedIn(from, Attempt(work.artifact), work.artifact)
         /\ work' \in [pc : Phases, artifact : from.artifacts] /\ work'.artifact = work.artifact
         /\ \/ /\ work'.pc = "idle" /\ DeployedAs(Attempt(work.artifact).attempted)
               /\ Updated(Attempt(work.artifact), status', "True", FALSE, Attempt(work.artifact).failed)
            \/ /\ work'.pc = "idle" /\ Attempt(work.artifact).failed
               /\ Updated(Attempt(work.artifact), status', "False", FALSE, Attempt(work.artifact).failed)
            \/ /\ work'.pc = "release"
               /\ Updated(Attempt(work.artifact), status', "Unknown",
                          Attempt(work.artifact).reconciling, Attempt(work.artifact).failed)
<1> DEFINE s == Attempt(work.artifact)
<1>1. ~Unusable(from, work.artifact)
  BY SourceOperators, Zenon DEF Load
<1>2. s \in Statuses /\ RecordedIn(from, s, work.artifact)
  BY <1>1, AttemptRecords, Zenon
<1>3. SourceFrame /\ UNCHANGED <<releases, snapshots, asked, overtaken>>
  BY Zenon DEF Load
<1>4. \/ /\ DeployedAs(s.attempted) /\ status' = [s EXCEPT !.ready = "True", !.reconciling = FALSE]
         /\ work' = [work EXCEPT !.pc = "idle"]
      \/ /\ s.failed /\ status' = [s EXCEPT !.ready = "False", !.reconciling = FALSE]
         /\ work' = [work EXCEPT !.pc = "idle"]
      \/ /\ status' = [s EXCEPT !.ready = "Unknown"] /\ work' = [work EXCEPT !.pc = "release"]
  BY Zenon DEF Load
<1> HIDE DEF s
<1>5. /\ "idle" \in Phases /\ "release" \in Phases /\ FALSE \in BOOLEAN
      /\ "True" \in Readies /\ "False" \in Readies /\ "Unknown" \in Readies
  BY DEF Phases, Readies
<1>6. ASSUME NEW r \in Readies
      PROVE  /\ Updated(s, [s EXCEPT !.ready = r, !.reconciling = FALSE], r, FALSE, s.failed)
             /\ Updated(s, [s EXCEPT !.ready = r], r, s.reconciling, s.failed)
  BY <1>2, <1>5, StatusUpdates, Zenon
<1>7. ASSUME NEW p \in Phases, work' = [work EXCEPT !.pc = p]
      PROVE  /\ work' \in [pc : Phases, artifact : from.artifacts]
             /\ work'.pc = p /\ work'.artifact = work.artifact
  BY <1>7, WorkMoves, Zenon
<1>8. \/ /\ work'.pc = "idle" /\ DeployedAs(s.attempted) /\ Updated(s, status', "True", FALSE, s.failed)
      \/ /\ work'.pc = "idle" /\ s.failed /\ Updated(s, status', "False", FALSE, s.failed)
      \/ /\ work'.pc = "release" /\ Updated(s, status', "Unknown", s.reconciling, s.failed)
  BY <1>4, <1>5, <1>6, <1>7, Zenon
<1>9. work' \in [pc : Phases, artifact : from.artifacts] /\ work'.artifact = work.artifact
  BY <1>4, <1>5, <1>7, Zenon
<1> QED BY <1>1, <1>2, <1>3, <1>8, <1>9, Zenon DEF s

LEMMA LoadRecorded ==
  ASSUME SInv, Load
  PROVE  SInv'
<1>1. /\ SourceFrame /\ UNCHANGED <<releases, snapshots>>
      /\ work' \in [pc : Phases, artifact : from.artifacts] /\ work'.artifact = work.artifact
      /\ RecordedIn(from, Attempt(work.artifact), work.artifact)
      /\ \E r, c, b : Updated(Attempt(work.artifact), status', r, c, b)
  BY LoadEnds, Zenon
<1>2. status' \in Statuses /\ RecordedIn(from, status', work'.artifact)
  BY <1>1, Zenon DEF Updated, RecordedIn
<1> QED BY <1>1, <1>2, StatusStep

\* The release that an attempt makes, deployed or failed, and its snapshot.
LEMMA ReleaseMade ==
  ASSUME SInv, work.pc = "release", NEW kept, Kept(from, releases, kept),
         NEW st \in {"deployed", "failed", "superseded"},
         releases' = Append(kept, [version |-> status.attempted, status |-> st,
                                   made |-> work.artifact]),
         snapshots' = RecordDigest(releases')
  PROVE  /\ StoreOK(from, releases', snapshots') /\ releases' # <<>>
         /\ releases'[Len(releases')] = [version |-> status.attempted, status |-> st,
                                         made |-> work.artifact]
<1> DEFINE r == [version |-> status.attempted, status |-> st, made |-> work.artifact]
<1>1. /\ RecordedIn(from, status, work.artifact) /\ status \in Statuses
      /\ StoreOK(from, releases, snapshots) /\ work \in [pc : Phases, artifact : from.artifacts]
  BY Zenon DEF SInv
<1>2. /\ status.attempted \in Versions /\ status.digest \in Digests
      /\ work.artifact \in from.artifacts
  BY <1>1 DEF Statuses
<1>3. /\ r \in Released(from) /\ r.made = work.artifact /\ r.version = status.attempted
  BY <1>2 DEF Released
<1> HIDE DEF r
<1>4. Fits(from, r, status.digest)
  BY <1>1, <1>2, <1>3, Zenon DEF RecordedIn, Fits
<1>5. snapshots' = Append(snapshots, [oci |-> status.digest])
  BY <1>1, <1>2, <1>3, DigestRecorded, Zenon DEF r
<1>6. StoreOK(from, releases, snapshots) /\ Kept(from, releases, kept)
  BY <1>1, Zenon
<1>7. /\ StoreOK(from, Append(kept, r), Append(snapshots, [oci |-> status.digest]))
      /\ Append(kept, r) # <<>> /\ Append(kept, r)[Len(Append(kept, r))] = r
  BY SMTT(30), <1>4, <1>6, StoreGrows
<1> QED BY <1>5, <1>7, Zenon DEF r

\* A step that writes the storage.
LEMMA StoreStep ==
  ASSUME SInv, SourceFrame, StoreOK(from, releases', snapshots'), status' \in Statuses,
         work' \in [pc : Phases, artifact : from.artifacts],
         work'.pc \in {"release", "rollback"} => RecordedIn(from, status', work'.artifact)
  PROVE  SInv'
BY Zenon DEF SInv, SourceFrame

\* What is stored and reported after an upgrade that succeeded.
LEMMA UpgradeSucceedsRecorded ==
  ASSUME SInv, UpgradeSucceeds
  PROVE  /\ SInv' /\ work'.pc = "idle" /\ work'.artifact = work.artifact
         /\ RecordedIn(from, status', work.artifact) /\ ~status'.reconciling
         /\ DeployedIn(releases', status'.attempted)
         /\ releases'[Len(releases')].made = work.artifact
<1>1. /\ work.pc = "release" /\ work' = [work EXCEPT !.pc = "idle"] /\ SourceFrame
      /\ status' = [status EXCEPT !.ready = "True", !.reconciling = FALSE]
      /\ releases' = Append(Superseded(releases), [version |-> status.attempted,
                              status |-> "deployed", made |-> work.artifact])
      /\ snapshots' = RecordDigest(releases')
  BY Zenon DEF UpgradeSucceeds
<1>2. /\ "idle" \in Phases /\ status \in Statuses /\ FALSE \in BOOLEAN /\ "True" \in Readies
      /\ releases \in Seq(Released(from)) /\ RecordedIn(from, status, work.artifact)
  BY <1>1 DEF Phases, SInv, Readies, StoreOK
<1>3. Updated(status, status', "True", FALSE, status.failed)
  BY <1>1, <1>2, StatusUpdates, Zenon
<1>4. /\ work' \in [pc : Phases, artifact : from.artifacts] /\ work'.pc = "idle"
      /\ work'.artifact = work.artifact
  BY <1>1, <1>2, WorkMoves, Zenon
<1>5. Kept(from, releases, Superseded(releases))
  BY <1>2, SupersededKept, Zenon
<1>6. /\ StoreOK(from, releases', snapshots') /\ releases' # <<>>
      /\ releases'[Len(releases')] = [version |-> status.attempted, status |-> "deployed",
                                      made |-> work.artifact]
  <2>1. PICK st \in {"deployed", "failed", "superseded"} : st = "deployed"
    OBVIOUS
  <2> QED BY <1>1, <1>5, <2>1, ReleaseMade
<1>7. status' \in Statuses
  BY <1>3, Zenon DEF Updated
<1>8. SInv'
  BY <1>1, <1>4, <1>6, <1>7, StoreStep
<1>9. RecordedIn(from, status', work.artifact) /\ ~status'.reconciling
  BY <1>2, <1>3, Zenon DEF Updated, RecordedIn
<1>10. /\ releases'[Len(releases')].status = "deployed"
       /\ releases'[Len(releases')].version = status.attempted
       /\ releases'[Len(releases')].made = work.artifact
  BY <1>6
<1> QED BY <1>3, <1>4, <1>6, <1>8, <1>9, <1>10, Zenon DEF DeployedIn, Updated

\* And after one that failed.
LEMMA UpgradeFailsRecorded ==
  ASSUME SInv, UpgradeFails
  PROVE  /\ SInv' /\ work'.pc \in {"idle", "rollback"} /\ work'.artifact = work.artifact
         /\ RecordedIn(from, status', work.artifact)
         /\ status'.failed /\ status'.ready = "False"
         /\ work'.pc = "idle" => ~status'.reconciling
<1> DEFINE remediate == \E i \in DOMAIN releases : releases[i].status = "deployed"
           p == IF remediate THEN "rollback" ELSE "idle"
<1>1. /\ work.pc = "release" /\ work' = [work EXCEPT !.pc = p] /\ SourceFrame
      /\ status' = [status EXCEPT !.ready = "False", !.failed = TRUE, !.reconciling = remediate]
      /\ releases' = Append(releases, [version |-> status.attempted,
                              status |-> "failed", made |-> work.artifact])
      /\ snapshots' = RecordDigest(releases')
  BY Zenon DEF UpgradeFails
<1>2. PICK c \in BOOLEAN : c <=> remediate
  OBVIOUS
<1>3. c = remediate
  BY <1>2, Zenon
<1>4. /\ p \in Phases /\ p \in {"idle", "rollback"} /\ (p = "idle" => ~c)
  BY <1>2 DEF Phases
<1>5. status' = [status EXCEPT !.ready = "False", !.failed = TRUE, !.reconciling = c]
  BY <1>1, <1>3, Zenon
<1> HIDE DEF remediate, p
<1>6. /\ status \in Statuses /\ "False" \in Readies
      /\ releases \in Seq(Released(from)) /\ RecordedIn(from, status, work.artifact)
  BY <1>1 DEF SInv, Readies, StoreOK
<1>7. Updated(status, status', "False", c, TRUE)
  BY <1>5, <1>6, StatusUpdates, Zenon
<1>8. /\ work' \in [pc : Phases, artifact : from.artifacts] /\ work'.pc = p
      /\ work'.artifact = work.artifact
  BY <1>1, <1>4, WorkMoves, Zenon
<1>9. Kept(from, releases, releases)
  BY <1>6, Zenon DEF Kept
<1>10. StoreOK(from, releases', snapshots')
  <2>1. PICK st \in {"deployed", "failed", "superseded"} : st = "failed"
    OBVIOUS
  <2> QED BY <1>1, <1>9, <2>1, ReleaseMade
<1>11. status' \in Statuses /\ RecordedIn(from, status', work.artifact)
  BY <1>6, <1>7, Zenon DEF Updated, RecordedIn
<1>12. SInv'
  BY <1>1, <1>8, <1>10, <1>11, StoreStep
<1> QED BY <1>4, <1>7, <1>8, <1>11, <1>12, Zenon DEF Updated

\* And after the rollback of the failed one.
LEMMA RollBackRecorded ==
  ASSUME SInv, RollBack
  PROVE  /\ SInv' /\ work'.pc = "idle" /\ work'.artifact = work.artifact
         /\ RecordedIn(from, status', work.artifact)
         /\ status'.failed = status.failed /\ status'.ready = status.ready
         /\ ~status'.reconciling
<1>1. /\ work.pc = "rollback" /\ work' = [work EXCEPT !.pc = "idle"] /\ SourceFrame
      /\ status' = [status EXCEPT !.reconciling = FALSE]
      /\ snapshots' = Append(snapshots, [oci |-> NoRevision])
  BY Zenon DEF RollBack
<1>2. PICK i \in DOMAIN releases :
        releases' = Append([Superseded(releases) EXCEPT ![Len(releases)].status = "superseded"],
                           releases[i])
  BY Zenon DEF RollBack
<1>3. /\ "idle" \in Phases /\ status \in Statuses /\ FALSE \in BOOLEAN /\ status.ready \in Readies
      /\ RecordedIn(from, status, work.artifact) /\ StoreOK(from, releases, snapshots)
  BY <1>1 DEF Phases, SInv, Statuses
<1>4. /\ releases \in Seq(Released(from)) /\ i \in 1..Len(releases) /\ releases # <<>>
      /\ releases[i] \in Released(from)
  BY <1>3 DEF StoreOK
<1>5. /\ ~Unusable(from, releases[i].made)
      /\ releases[i].version = VersionIn(from, releases[i].made)
  BY <1>3, <1>4, Zenon DEF StoreOK
<1>6. Updated(status, status', status.ready, FALSE, status.failed)
  BY <1>1, <1>3, StatusUpdates, Zenon
<1>7. /\ work' \in [pc : Phases, artifact : from.artifacts] /\ work'.pc = "idle"
      /\ work'.artifact = work.artifact
  BY <1>1, <1>3, WorkMoves, Zenon
<1>8. Kept(from, releases, [Superseded(releases) EXCEPT ![Len(releases)].status = "superseded"])
  BY <1>4, SupersededKept, Zenon
<1>9. Fits(from, releases[i], NoRevision)
  BY <1>4, <1>5, Zenon DEF Digests, Fits
<1>10. StoreOK(from, releases', snapshots')
  BY <1>1, <1>2, <1>3, <1>8, <1>9, StoreGrows, Zenon
<1>11. status' \in Statuses /\ RecordedIn(from, status', work.artifact)
  BY <1>3, <1>6, Zenon DEF Updated, RecordedIn
<1>12. SInv'
  BY <1>1, <1>7, <1>10, <1>11, StoreStep
<1> QED BY <1>6, <1>7, <1>11, <1>12, Zenon DEF Updated

\* The steps around the reconcile keep what it records.
LEMMA EventsRecorded ==
  ASSUME SInv, Interval \/ MapSourceEvent \/ MoveSource
  PROVE  SInv'
<1>1. UNCHANGED <<from, status, releases, snapshots, work>>
  BY Zenon DEF Interval, MapSourceEvent, MoveSource, SourceFrame
<1>2. artifact' \in from.artifacts
  BY Zenon DEF SInv, Interval, MapSourceEvent, MoveSource, SourceFrame
<1>3. news' \in Seq(Revisions)
  <2>1. news \in Seq(Revisions) /\ from \in SourceSetups
    BY Zenon DEF SInv
  <2>2. CASE news' = news
    BY <2>1, <2>2, Zenon
  <2>3. CASE news # <<>> /\ news' = Tail(news)
    BY <2>1, <2>3
  <2>4. CASE news' = Append(news, Revision(artifact'))
    <3>1. Revision(artifact') \in Revisions
      BY <1>2, <2>1, AttemptTypes, Zenon
    <3> QED BY <2>1, <2>4, <3>1
  <2> QED BY <2>2, <2>3, <2>4, Zenon DEF Interval, MapSourceEvent, MoveSource, SourceFrame
<1> QED BY <1>1, <1>2, <1>3, Zenon DEF SInv

LEMMA SourceStart ==
  ASSUME SourceInit
  PROVE  SInv /\ FInv
<1>1. /\ from \in SourceSetups /\ artifact \in from.artifacts /\ news = <<>> /\ asked = TRUE
      /\ status = [ready |-> "Unknown", reconciling |-> FALSE, failed |-> FALSE,
                   attempted |-> <<"", "">>, digest |-> NoRevision]
      /\ releases = <<>> /\ snapshots = <<>>
      /\ work = [pc |-> "idle", artifact |-> artifact] /\ overtaken = FALSE
  BY Zenon DEF SourceInit
<1>2. <<"", "">> \in Versions /\ NoRevision \in Digests
  BY DEF Versions, Digests
<1>3. status \in Statuses /\ ~status.reconciling /\ status.ready = "Unknown"
  BY <1>1, <1>2 DEF Statuses, Readies
<1>4. work \in [pc : Phases, artifact : from.artifacts] /\ work.pc = "idle"
  BY <1>1 DEF Phases
<1>5. StoreOK(from, releases, snapshots) /\ news \in Seq(Revisions)
  <2>1. /\ releases \in Seq(Released(from)) /\ snapshots \in Seq(Recordings)
        /\ news \in Seq(Revisions) /\ Len(releases) = 0 /\ Len(snapshots) = 0
    <3>1. ASSUME NEW T PROVE <<>> \in Seq(T) /\ Len(<<>>) = 0
      OBVIOUS
    <3> QED BY <1>1, <3>1, Zenon
  <2>2. 1..Len(releases) = {}
    BY <2>1
  <2> QED BY <2>1, <2>2, Zenon DEF StoreOK
<1>6. SInv
  BY <1>1, <1>3, <1>4, <1>5 DEF SInv
<1>7. FInv
  BY <1>1, <1>3, <1>4 DEF FInv, Pending
<1> QED BY <1>6, <1>7

\* Every step keeps what is recorded of releases.
LEMMA SourceRecorded ==
  ASSUME SInv, [SourceNext]_sourceVars
  PROVE  SInv'
<1>1. CASE UNCHANGED sourceVars
  BY <1>1, Zenon DEF SInv, sourceVars
<1>2. CASE SourceNext
  BY <1>2, TakeRequestRecorded, GetSourceRecorded, ErrorRecorded, LoadRecorded,
     UpgradeSucceedsRecorded, UpgradeFailsRecorded, RollBackRecorded, EventsRecorded, Zenon
     DEF SourceNext, SourceStep
<1> QED BY <1>1, <1>2, Zenon

\* The digest in a snapshot is never that of another artifact than the one the
\* release was made from, for any artifacts, moves of the source and failures.
THEOREM SnapshotsAlwaysNameArtifacts ==
  SourceInit /\ [][SourceNext]_sourceVars => []SnapshotsNameArtifacts
<1>1. SourceInit => SInv
  BY SourceStart
<1>2. SInv /\ [SourceNext]_sourceVars => SInv'
  BY SourceRecorded
<1>3. SInv => SnapshotsNameArtifacts
  <2> SUFFICES ASSUME SInv, NEW i \in DOMAIN snapshots
               PROVE  snapshots[i].oci \in {NoRevision, RevDigest(releases[i].made)}
    BY Zenon DEF SnapshotsNameArtifacts
  <2>1. StoreOK(from, releases, snapshots)
    BY Zenon DEF SInv
  <2>2. i \in 1..Len(releases)
    BY <2>1 DEF StoreOK
  <2>3. snapshots[i].oci \in {NoRevision, DigestIn(from, releases[i].made)}
    BY <2>1, <2>2, Zenon DEF StoreOK
  <2> QED BY <2>3, SourceOperators, Zenon
<1> QED BY <1>1, <1>2, <1>3, PTL

(* ----------------------------- steps of FInv ----------------------------- *)

\* Follows, GaveUp and DeployedAs, by setup.
LEMMA FollowsOperators ==
  /\ Follows <=> FollowsIn(from, releases, artifact)
  /\ GaveUp <=> GaveUpIn(from, status, artifact)
  /\ \A v : DeployedAs(v) <=> DeployedIn(releases, v)
<1>1. Follows <=> FollowsIn(from, releases, artifact)
  BY Zenon DEF Follows, FollowsIn, LastRelease, Alike
<1>2. GaveUp <=> GaveUpIn(from, status, artifact)
  BY SourceOperators, Zenon DEF GaveUp, GaveUpIn
<1>3. \A v : DeployedAs(v) <=> DeployedIn(releases, v)
  BY Zenon DEF DeployedAs, DeployedIn, LastRelease
<1> QED BY <1>1, <1>2, <1>3

\* A sequence that is not empty holds its last element.
LEMMA LastHeld ==
  ASSUME NEW S, NEW s \in Seq(S), s # <<>>
  PROVE  Len(s) \in 1..Len(s) /\ s[Len(s)] \in S
OBVIOUS

\* A release with the version of an attempt at an artifact like that of the
\* source follows the source.
LEMMA DeployedFollows ==
  ASSUME NEW f \in SourceSetups, NEW rs, NEW sn, StoreOK(f, rs, sn), NEW st,
         NEW w \in f.artifacts, NEW a \in f.artifacts,
         RecordedIn(f, st, w), DeployedIn(rs, st.attempted), Alike(f, w, a)
  PROVE  FollowsIn(f, rs, a)
<1> DEFINE last == rs[Len(rs)]
<1>1. rs \in Seq(Released(f)) /\ rs # <<>>
  BY Zenon DEF StoreOK, DeployedIn
<1>2. Len(rs) \in 1..Len(rs) /\ last \in Released(f)
  BY <1>1, LastHeld, Zenon
<1>3. last.made \in f.artifacts
  BY <1>2 DEF Released
<1>4. ~Unusable(f, last.made) /\ last.version = VersionIn(f, last.made)
  BY <1>2, Zenon DEF StoreOK
<1>5. VersionIn(f, last.made) = VersionIn(f, w) /\ ~Unusable(f, w)
  BY <1>4, Zenon DEF DeployedIn, RecordedIn
<1>6. Alike(f, last.made, w)
  BY <1>3, <1>4, <1>5, SameVersionAlike, Zenon
<1>7. Alike(f, last.made, a)
  BY <1>6 DEF Alike
<1> QED BY <1>1, <1>7, Zenon DEF FollowsIn, DeployedIn

\* A failed attempt at an artifact like that of the source gave up on it.
LEMMA FailedGivesUp ==
  ASSUME NEW f \in SourceSetups, NEW st, NEW w \in f.artifacts, NEW a \in f.artifacts,
         RecordedIn(f, st, w), st.failed, Alike(f, w, a)
  PROVE  GaveUpIn(f, st, a)
BY AlikeSameVersion, Zenon DEF RecordedIn, GaveUpIn

\* A step that leaves what is to be read and leads to the phases that need
\* nothing, or is asked to read again.
LEMMA FailedReadsAgain ==
  ASSUME SInv, FInv, ArtifactFailed \/ ChartMutateError
  PROVE  FInv'
<1>1. /\ work' = [work EXCEPT !.pc = "idle"] /\ SourceFrame /\ asked' = TRUE /\ overtaken' = overtaken
      /\ status' = [status EXCEPT !.ready = "False"]
  BY Zenon DEF ArtifactFailed, ChartMutateError
<1>2. "idle" \in Phases /\ status \in Statuses /\ TRUE \in BOOLEAN /\ "False" \in Readies
  <2>1. status \in Statuses
    BY Zenon DEF SInv
  <2> QED BY <2>1 DEF Phases, Readies
<1>3. status'.ready = "False"
  <2>1. Updated(status, [status EXCEPT !.ready = "False"], "False", status.reconciling,
                status.failed)
    BY <1>2, StatusUpdates, Zenon
  <2> QED BY <1>1, <2>1, Zenon DEF Updated
<1>4. work'.pc = "idle"
  BY <1>1, <1>2, WorkMoves, Zenon
<1>5. /\ asked' \in BOOLEAN /\ overtaken' \in BOOLEAN /\ Pending'
      /\ news' # <<>> => news'[Len(news')] = Revision(artifact')
  BY <1>1, Zenon DEF FInv, Pending, SourceFrame
<1> QED BY <1>1, <1>3, <1>4, <1>5 DEF FInv

LEMMA TakeRequestFollows ==
  ASSUME SInv, FInv, TakeRequest
  PROVE  FInv'
<1>1. work' = [work EXCEPT !.pc = "source"] /\ SourceFrame /\ asked' = FALSE /\ overtaken' = overtaken
  BY Zenon DEF TakeRequest
<1>2. "source" \in Phases
  BY DEF Phases
<1>3. work'.pc = "source"
  BY <1>1, <1>2, WorkMoves, Zenon
<1>4. /\ asked' \in BOOLEAN /\ overtaken' \in BOOLEAN
      /\ news' # <<>> => news'[Len(news')] = Revision(artifact')
  BY <1>1, Zenon DEF FInv, SourceFrame
<1> QED BY <1>3, <1>4 DEF FInv

LEMMA GetSourceFollows ==
  ASSUME SInv, FInv, GetSource
  PROVE  FInv'
<1>1. /\ work' = [pc |-> "load", artifact |-> artifact] /\ SourceFrame
      /\ UNCHANGED <<asked, overtaken>>
  BY Zenon DEF GetSource
<1>2. work'.pc = "load" /\ work'.artifact = artifact
  BY <1>1
<1>3. /\ asked' \in BOOLEAN /\ overtaken' \in BOOLEAN /\ artifact' = artifact
      /\ news' # <<>> => news'[Len(news')] = Revision(artifact')
  BY <1>1, Zenon DEF FInv, SourceFrame
<1>4. Alike(from', work'.artifact, artifact')
  BY <1>2, <1>3, Zenon DEF Alike
<1> QED BY <1>2, <1>3, <1>4 DEF FInv

\* The reconcile ends, having recorded its attempt: the release follows the
\* source or the attempt failed, unless the source will be read again.
LEMMA EndFollows ==
  ASSUME SInv, FInv, SInv', SourceFrame, UNCHANGED <<asked, overtaken>>,
         work'.pc = "idle", work'.artifact = work.artifact,
         Pending \/ Alike(from, work.artifact, artifact),
         RecordedIn(from, status', work.artifact), ~status'.reconciling,
         DeployedIn(releases', status'.attempted) \/ status'.failed,
         status'.ready = "True" => DeployedIn(releases', status'.attempted)
  PROVE  FInv'
<1>1. /\ asked' \in BOOLEAN /\ overtaken' \in BOOLEAN /\ UNCHANGED <<from, artifact, news>>
      /\ news' # <<>> => news'[Len(news')] = Revision(artifact')
  BY Zenon DEF FInv, SourceFrame
<1>2. /\ from \in SourceSetups /\ artifact \in from.artifacts /\ work.artifact \in from.artifacts
      /\ StoreOK(from, releases', snapshots')
  <2>1. from' \in SourceSetups /\ artifact' \in from'.artifacts
        /\ StoreOK(from', releases', snapshots') /\ work' \in [pc : Phases, artifact : from'.artifacts]
    BY Zenon DEF SInv
  <2>2. work'.artifact \in from'.artifacts
    BY <2>1
  <2> QED BY <1>1, <2>1, <2>2, Zenon
<1>3. ASSUME Alike(from, work.artifact, artifact)
      PROVE  FollowsIn(from, releases', artifact) \/ GaveUpIn(from, status', artifact)
  BY <1>2, <1>3, DeployedFollows, FailedGivesUp, Zenon
<1>4. Pending' <=> Pending
  BY <1>1, Zenon DEF Pending
<1>5. Pending' \/ FollowsIn(from', releases', artifact') \/ GaveUpIn(from', status', artifact')
  BY <1>1, <1>3, <1>4, Zenon
<1> QED BY <1>1, <1>5 DEF FInv

LEMMA LoadFollows ==
  ASSUME SInv, FInv, Load
  PROVE  FInv'
<1> DEFINE s == Attempt(work.artifact)
<1>1. /\ ~Unusable(from, work.artifact) /\ SourceFrame
      /\ UNCHANGED <<releases, snapshots, asked, overtaken>>
      /\ RecordedIn(from, s, work.artifact) /\ work'.artifact = work.artifact
      /\ \/ /\ work'.pc = "idle" /\ DeployedAs(s.attempted)
            /\ Updated(s, status', "True", FALSE, s.failed)
         \/ /\ work'.pc = "idle" /\ s.failed /\ Updated(s, status', "False", FALSE, s.failed)
         \/ /\ work'.pc = "release" /\ Updated(s, status', "Unknown", s.reconciling, s.failed)
  BY LoadEnds, Zenon
<1>2. SInv' /\ work.pc = "load"
  BY LoadRecorded, Zenon DEF Load
<1> HIDE DEF s
<1>3. Pending \/ Alike(from, work.artifact, artifact)
  BY <1>1, <1>2, Zenon DEF FInv
<1>4. RecordedIn(from, status', work.artifact) /\ status'.attempted = s.attempted
  BY <1>1, Zenon DEF RecordedIn, Updated
<1>5. CASE work'.pc = "idle"
  <2>1. ~status'.reconciling
    BY <1>1, <1>5, Zenon DEF Updated
  <2>2. \/ DeployedIn(releases', status'.attempted)
        \/ status'.failed /\ status'.ready = "False"
    BY <1>1, <1>4, <1>5, FollowsOperators, Zenon DEF Updated
  <2>3. status'.ready = "True" => DeployedIn(releases', status'.attempted)
    BY <2>2
  <2> QED BY <1>1, <1>2, <1>3, <1>4, <1>5, <2>1, <2>2, <2>3, EndFollows
<1>6. CASE work'.pc = "release"
  <2>1. /\ asked' \in BOOLEAN /\ overtaken' \in BOOLEAN /\ UNCHANGED <<from, artifact, news>>
        /\ news' # <<>> => news'[Len(news')] = Revision(artifact')
    BY <1>1, Zenon DEF FInv, SourceFrame
  <2>2. Pending' \/ Alike(from', work'.artifact, artifact')
    BY <1>1, <1>3, <2>1, Zenon DEF Pending
  <2> QED BY <1>6, <2>1, <2>2 DEF FInv
<1> QED BY <1>1, <1>5, <1>6, Zenon

LEMMA UpgradeSucceedsFollows ==
  ASSUME SInv, FInv, UpgradeSucceeds
  PROVE  FInv'
<1>1. /\ SInv' /\ work'.pc = "idle" /\ work'.artifact = work.artifact
      /\ RecordedIn(from, status', work.artifact) /\ ~status'.reconciling
      /\ DeployedIn(releases', status'.attempted)
  BY UpgradeSucceedsRecorded, Zenon
<1>2. SourceFrame /\ UNCHANGED <<asked, overtaken>> /\ work.pc = "release"
  BY Zenon DEF UpgradeSucceeds
<1>3. Pending \/ Alike(from, work.artifact, artifact)
  BY <1>2, Zenon DEF FInv
<1> QED BY <1>1, <1>2, <1>3, EndFollows

LEMMA UpgradeFailsFollows ==
  ASSUME SInv, FInv, UpgradeFails
  PROVE  FInv'
<1>1. /\ SInv' /\ work'.pc \in {"idle", "rollback"} /\ work'.artifact = work.artifact
      /\ RecordedIn(from, status', work.artifact)
      /\ status'.failed /\ status'.ready = "False"
      /\ work'.pc = "idle" => ~status'.reconciling
  BY UpgradeFailsRecorded, Zenon
<1>2. SourceFrame /\ UNCHANGED <<asked, overtaken>> /\ work.pc = "release"
  BY Zenon DEF UpgradeFails
<1>3. Pending \/ Alike(from, work.artifact, artifact)
  BY <1>2, Zenon DEF FInv
<1>4. CASE work'.pc = "idle"
  BY <1>1, <1>2, <1>3, <1>4, EndFollows
<1>5. CASE work'.pc = "rollback"
  <2>1. /\ asked' \in BOOLEAN /\ overtaken' \in BOOLEAN /\ UNCHANGED <<from, artifact, news>>
        /\ news' # <<>> => news'[Len(news')] = Revision(artifact')
    BY <1>2, Zenon DEF FInv, SourceFrame
  <2>2. Pending' \/ Alike(from', work'.artifact, artifact')
    BY <1>1, <1>2, <1>3, <2>1, Zenon DEF Pending
  <2> QED BY <1>1, <1>5, <2>1, <2>2 DEF FInv
<1> QED BY <1>1, <1>4, <1>5, Zenon

LEMMA RollBackFollows ==
  ASSUME SInv, FInv, RollBack
  PROVE  FInv'
<1>1. /\ SInv' /\ work'.pc = "idle" /\ work'.artifact = work.artifact
      /\ RecordedIn(from, status', work.artifact)
      /\ status'.failed = status.failed /\ status'.ready = status.ready
      /\ ~status'.reconciling
  BY RollBackRecorded, Zenon
<1>2. SourceFrame /\ UNCHANGED <<asked, overtaken>> /\ work.pc = "rollback"
  BY Zenon DEF RollBack
<1>3. /\ Pending \/ Alike(from, work.artifact, artifact)
      /\ status.failed /\ status.ready = "False"
  BY <1>2, Zenon DEF FInv
<1> QED BY <1>1, <1>2, <1>3, EndFollows

LEMMA IntervalFollows ==
  ASSUME FInv, Interval
  PROVE  FInv'
<1>1. /\ asked' = TRUE /\ UNCHANGED <<from, artifact, news, status, releases, work, overtaken>>
      /\ work.pc = "idle"
  BY Zenon DEF Interval, IntervalOver, SourceFrame
<1>2. Pending'
  BY <1>1, Zenon DEF Pending
<1>3. /\ overtaken' \in BOOLEAN /\ news' # <<>> => news'[Len(news')] = Revision(artifact')
      /\ status'.ready = "True" => /\ RecordedIn(from', status', work'.artifact)
                                   /\ DeployedIn(releases', status'.attempted)
  BY <1>1, Zenon DEF FInv
<1> QED BY <1>1, <1>2, <1>3 DEF FInv

\* The event of the move is on its way.
LEMMA MoveSourceFollows ==
  ASSUME SInv, FInv, MoveSource
  PROVE  FInv'
<1>1. /\ news' = Append(news, Revision(artifact')) /\ artifact' \in from.artifacts
      /\ UNCHANGED <<from, status, releases, asked, work, overtaken>>
  BY Zenon DEF MoveSource
<1>2. news \in Seq(Revisions) /\ Revision(artifact') \in Revisions
  <2>1. from \in SourceSetups /\ news \in Seq(Revisions)
    BY Zenon DEF SInv
  <2> QED BY <1>1, <2>1, AttemptTypes, Zenon
<1>3. news' # <<>> /\ news'[Len(news')] = Revision(artifact')
  BY <1>1, <1>2
<1>4. Pending'
  BY <1>3, Zenon DEF Pending
<1>5. /\ asked' \in BOOLEAN /\ overtaken' \in BOOLEAN
      /\ work'.pc = "idle" =>
           /\ status'.reconciling => asked'
           /\ status'.ready = "True" => /\ RecordedIn(from', status', work'.artifact)
                                        /\ DeployedIn(releases', status'.attempted)
      /\ work'.pc = "rollback" => status'.failed /\ status'.ready = "False"
  BY <1>1, Zenon DEF FInv
<1> QED BY <1>3, <1>4, <1>5, Zenon DEF FInv

\* An event is skipped only of an artifact like the one that was attempted, or
\* is being loaded, or the source is read again.
LEMMA SkippedFollows ==
  ASSUME RevisionsNameVersions, SInv, FInv, news # <<>>, SkipsEvent(Head(news)), Len(news) = 1
  PROVE  /\ work.pc = "idle" =>
              \/ asked \/ FollowsIn(from, releases, artifact)
         /\ work.pc = "load" =>
              \/ Revision(work.artifact) # Head(news)
              \/ Alike(from, work.artifact, artifact) \/ Unusable(from, work.artifact)
         /\ work.pc \in {"release", "rollback"} => Alike(from, work.artifact, artifact)
<1>1. Head(news) = Revision(artifact)
  <2>1. news \in Seq(Revisions) /\ news[Len(news)] = Revision(artifact)
    BY Zenon DEF SInv, FInv
  <2> QED BY <2>1
<1>2. /\ status.ready = "True" \/ status.reconciling
      /\ AlreadyIn(from, Revision(artifact), status.attempted, status.digest)
  BY <1>1, SkipsByStatus, Zenon
<1>3. /\ from \in SourceSetups /\ artifact \in from.artifacts /\ status \in Statuses
      /\ StoreOK(from, releases, snapshots) /\ work \in [pc : Phases, artifact : from.artifacts]
  BY Zenon DEF SInv
<1>4. work.artifact \in from.artifacts /\ status.attempted \in Versions
  BY <1>3 DEF Statuses
<1>5. ASSUME RecordedIn(from, status, work.artifact)
      PROVE  Alike(from, work.artifact, artifact)
  BY <1>2, <1>3, <1>4, <1>5, SkippedAlike, Zenon DEF RecordedIn
<1>6. ASSUME work.pc = "idle" PROVE asked \/ FollowsIn(from, releases, artifact)
  <2>1. CASE status.reconciling
    BY <1>6, <2>1, Zenon DEF FInv
  <2>2. CASE status.ready = "True"
    <3>1. RecordedIn(from, status, work.artifact) /\ DeployedIn(releases, status.attempted)
      BY <1>6, <2>2, Zenon DEF FInv
    <3> QED BY <1>3, <1>4, <1>5, <3>1, DeployedFollows, Zenon
  <2> QED BY <1>2, <2>1, <2>2, Zenon
<1>7. ASSUME Revision(work.artifact) = Head(news)
      PROVE  Alike(from, work.artifact, artifact) \/ Unusable(from, work.artifact)
  BY <1>1, <1>2, <1>3, <1>4, <1>7, SameRevisionAlike, Zenon
<1>8. ASSUME work.pc \in {"release", "rollback"} PROVE Alike(from, work.artifact, artifact)
  BY <1>5, <1>8, Zenon DEF SInv
<1> QED BY <1>6, <1>7, <1>8, Zenon

LEMMA MapSourceEventFollows ==
  ASSUME RevisionsNameVersions, SInv, FInv, MapSourceEvent
  PROVE  FInv'
<1>1. /\ news # <<>> /\ news' = Tail(news)
      /\ asked' = (asked \/ ~SkipsEvent(Head(news)))
      /\ overtaken' = (overtaken \/ (/\ SkipsEvent(Head(news)) /\ work.pc = "load"
                                     /\ Revision(work.artifact) # Head(news)))
      /\ UNCHANGED <<from, artifact, status, releases, work>>
  BY Zenon DEF MapSourceEvent
<1>2. /\ asked \in BOOLEAN /\ overtaken \in BOOLEAN
      /\ news[Len(news)] = Revision(artifact) /\ news \in Seq(Revisions)
  BY <1>1, Zenon DEF FInv, SInv
<1>3. asked' \in BOOLEAN /\ overtaken' \in BOOLEAN
  BY <1>1, Zenon
<1>4. news' # <<>> => news'[Len(news')] = Revision(artifact')
  <2> SUFFICES ASSUME news' # <<>> PROVE news'[Len(news')] = news[Len(news)]
    BY <1>1, <1>2, Zenon
  <2> QED BY <1>1, <1>2
<1>5. /\ work'.pc = "idle" =>
           /\ status'.reconciling => asked'
           /\ status'.ready = "True" => /\ RecordedIn(from', status', work'.artifact)
                                        /\ DeployedIn(releases', status'.attempted)
      /\ work'.pc = "rollback" => status'.failed /\ status'.ready = "False"
  BY <1>1, Zenon DEF FInv
<1>6. CASE Pending'
  BY <1>3, <1>4, <1>5, <1>6, Zenon DEF FInv
<1>7. CASE ~Pending'
  <2>1. ~asked' /\ news' = <<>> /\ ~overtaken'
    BY <1>7, Zenon DEF Pending
  <2>2. /\ SkipsEvent(Head(news)) /\ ~asked
        /\ work.pc = "load" => Revision(work.artifact) = Head(news)
    BY <1>1, <2>1, Zenon
  <2>3. Len(news) = 1
    <3>1. Len(news) \in Nat /\ Len(news) # 0 /\ Len(Tail(news)) = Len(news) - 1
      BY <1>1, <1>2
    <3>2. Tail(news) = <<>>
      BY <1>1, <2>1, Zenon
    <3>3. Len(<<>>) = 0
      OBVIOUS
    <3>4. Len(Tail(news)) = 0
      BY <3>2, <3>3, Zenon
    <3>5. ASSUME NEW n \in Nat, NEW m, m = n - 1, m = 0 PROVE n = 1
      BY <3>5
    <3> QED BY <3>1, <3>4, <3>5, Zenon
  <2>4. /\ work.pc = "idle" => FollowsIn(from, releases, artifact)
        /\ work.pc = "load" =>
             Alike(from, work.artifact, artifact) \/ Unusable(from, work.artifact)
        /\ work.pc \in {"release", "rollback"} => Alike(from, work.artifact, artifact)
    BY <1>1, <2>2, <2>3, SkippedFollows, Zenon
  <2> QED BY <1>1, <1>3, <1>4, <1>5, <2>4, Zenon DEF FInv
<1> QED BY <1>6, <1>7, Zenon

\* No move of the source is missed, however the reconciles and its events
\* interleave, for any artifacts and any number of moves and failures: when
\* nothing is queued and no event is on its way, the release is what the source
\* holds or its upgrade failed; unless an event was overtaken.
THEOREM SourceAlwaysFollowed ==
  RevisionsNameVersions => (SourceInit /\ [][SourceNext]_sourceVars => []FollowsSource)
<1> SUFFICES ASSUME RevisionsNameVersions
             PROVE  SourceInit /\ [][SourceNext]_sourceVars => []FollowsSource
  OBVIOUS
<1>1. SourceInit => SInv /\ FInv
  BY SourceStart
<1>2. ASSUME SInv, FInv, [SourceNext]_sourceVars PROVE SInv' /\ FInv'
  <2>1. SInv'
    BY <1>2, SourceRecorded
  <2>2. CASE UNCHANGED sourceVars
    BY <1>2, <2>1, <2>2, Zenon DEF FInv, Pending, sourceVars
  <2>3. CASE SourceNext
    BY <1>2, <2>1, <2>3, TakeRequestFollows, GetSourceFollows, FailedReadsAgain, LoadFollows,
       UpgradeSucceedsFollows, UpgradeFailsFollows, RollBackFollows, IntervalFollows,
       MapSourceEventFollows, MoveSourceFollows, Zenon DEF SourceNext, SourceStep
  <2> QED BY <1>2, <2>2, <2>3, Zenon
<1>3. FInv => FollowsSource
  BY FollowsOperators, Zenon DEF FInv, FollowsSource, Pending
<1> QED BY <1>1, <1>2, <1>3, PTL
=============================================================================
