----------------------------- MODULE Snapshots -----------------------------
(* Status.History of a HelmRelease (api/v2/snapshot_types.go) and the       *)
(* storage observers that write it (internal/reconcile).  A snapshot keeps  *)
(* the version of the revision it targets, its digest (the run id and the   *)
(* status), the configuration, and the outcome of its tests.                *)
EXTENDS Integers, Sequences, FiniteSets

CONSTANT DefaultMaxHistory   \* defaultMaxHistory of snapshot_types.go

ASSUME DefaultMaxHistoryAssumption == DefaultMaxHistory \in Nat \ {0}

TestPhases == {"untested", "passed", "failed"}

ObservedToSnapshot(v, rls, tests) ==
  [ver |-> v, id |-> rls.id, status |-> rls.status, cfg |-> rls.cfg,
   tests |-> tests]

Digest(snap) == <<snap.id, snap.status>>

\* Mutant: any snapshot counts as tested.
AlwaysTested(snap) == TRUE

HasBeenTested(snap) == snap.tests # "untested"
HasFailedTest(snap) == snap.tests = "failed"

\* Descending by version; entries of one version keep their order.
Precedes(h, i, j) == \/ h[i].ver > h[j].ver
                     \/ h[i].ver = h[j].ver /\ i < j
Rank(h, i) == Cardinality({j \in DOMAIN h : Precedes(h, j, i)}) + 1
SortByVersion(h) ==
  [k \in DOMAIN h |-> h[CHOOSE i \in DOMAIN h : Rank(h, i) = k]]

Latest(h) == SortByVersion(h)[1]

\* The snapshots a rollback may target.
IsTarget(snap, ignoreTests) ==
  /\ snap.status \in {"deployed", "superseded"}
  /\ ignoreTests \/ ~HasFailedTest(snap)

\* Positions after the first of the sorted history h that qualify.
Targets(h, ignoreTests) ==
  {i \in 2..Len(h) : IsTarget(h[i], ignoreTests)}

LeastOf(S) == CHOOSE i \in S : \A j \in S : i <= j
GreatestOf(S) == CHOOSE i \in S : \A j \in S : j <= i

HasPrevious(h, ignoreTests) == Targets(SortByVersion(h), ignoreTests) # {}
Previous(h, ignoreTests) ==
  LET s == SortByVersion(h) IN s[LeastOf(Targets(s, ignoreTests))]

Capped(h) == IF Len(h) > DefaultMaxHistory
             THEN SubSeq(h, 1, DefaultMaxHistory) ELSE h

Truncate(h, ignoreTests) ==
  LET s == SortByVersion(h)
      T == Targets(s, ignoreTests)
  IN CASE Len(h) < 2 -> h
       [] Len(h) >= 2 /\ T # {} -> SubSeq(s, 1, LeastOf(T))
       [] OTHER -> Capped(s)

TruncateIgnoringPreviousSnapshots(h) == Capped(SortByVersion(h))

(* ------------------------------ observers ------------------------------ *)

Matching(h, v) == {i \in DOMAIN h : h[i].ver = v}

\* Update of the first snapshot of version v, its tests kept
\* (observeUninstall, and the loop of recordOnObject and observeRollback).
Observe(h, v, rls) ==
  IF Matching(h, v) = {} THEN h
  ELSE LET i == LeastOf(Matching(h, v))
       IN [h EXCEPT ![i] = ObservedToSnapshot(v, rls, h[i].tests)]

Prepend(h, v, rls) == <<ObservedToSnapshot(v, rls, "untested")>> \o h

\* Mutant: the revision that was superseded is not updated.
RecordLastOnly(h, obs) ==
  IF DOMAIN obs = {} THEN h
  ELSE Prepend(h, GreatestOf(DOMAIN obs), obs[GreatestOf(DOMAIN obs)])

\* obs maps the versions written during the action to their last state.
recordOnObject(h, obs) ==
  IF DOMAIN obs = {} THEN h
  ELSE LET top == GreatestOf(DOMAIN obs)
           h1 == Prepend(h, top, obs[top])
           known == {v \in DOMAIN obs \ {top} : Matching(h1, v) # {}}
       IN IF known = {} THEN h1
          ELSE Observe(h1, GreatestOf(known), obs[GreatestOf(known)])

observeRollback(h, v, rls) ==
  IF Matching(h, v) = {} THEN Prepend(h, v, rls) ELSE Observe(h, v, rls)

\* Unlike the others, it does not carry the test results over.
observeUnlock(h, v, rls) ==
  IF Matching(h, v) = {} THEN h
  ELSE [h EXCEPT ![LeastOf(Matching(h, v))] =
          ObservedToSnapshot(v, rls, "untested")]

observeTest(h, v, rls, phase) ==
  LET s == SortByVersion(h)
  IN IF h = <<>> \/ Latest(h).ver # v THEN h
     ELSE [s EXCEPT ![1] = ObservedToSnapshot(v, rls, phase)]
=============================================================================
