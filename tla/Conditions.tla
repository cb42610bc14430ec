----------------------------- MODULE Conditions -----------------------------
(* The status conditions of a HelmRelease and their summary into Ready      *)
(* (summarize, internal/reconcile/release.go).  Setting and deleting one    *)
(* condition is the conditions package of fluxcd/pkg/runtime, modelled from *)
(* its use: a condition carries the generation of the object it was set on, *)
(* MarkReconciling removes Stalled, MarkStalled removes Reconciling, and    *)
(* the list is kept in the order of ListOrder.                              *)
EXTENDS Integers, Sequences

CONSTANTS TestEnable,          \* .spec.test.enable
          TestIgnoreFailures,  \* .spec.test.ignoreFailures
          ReadyExcludesProgress  \* see IsReady

ASSUME TestAssumption ==
  /\ TestEnable \in BOOLEAN /\ TestIgnoreFailures \in BOOLEAN
  /\ ReadyExcludesProgress \in BOOLEAN

ListOrder == <<"Ready", "Reconciling", "Stalled", "Drifted", "Released",
               "Remediated", "TestSuccess">>
CondTypes == {"Ready", "Reconciling", "Stalled", "Drifted", "Released",
              "Remediated", "TestSuccess"}
CondStatuses == {"Absent", "True", "False", "Unknown"}
Reasons == {"", "Progressing", "ProgressingWithRetry", "StateError",
            "SourceNotReady",
            "ReconcileError", "HealthCheckCanceled", "RetriesExceeded",
            "MissingRollbackTarget", "DriftDetected", "NoDriftDetected",
            "PendingRelease", "AwaitingTests", "TestSucceeded", "TestFailed",
            "InstallSucceeded", "InstallFailed", "UpgradeSucceeded",
            "UpgradeFailed", "RollbackSucceeded", "RollbackFailed",
            "UninstallSucceeded", "UninstallFailed"}
Condition == [status : CondStatuses, reason : Reasons, gen : Nat]

Absent == [status |-> "Absent", reason |-> "", gen |-> 0]
NoConditions == [t \in CondTypes |-> Absent]

Has(c, t) == c[t].status # "Absent"
IsTrue(c, t) == c[t].status = "True"

\* The conditions package may or may not count an object that is reconciling
\* or stalled as ready; the callers here do not tell, so both are modelled.
IsReady(c) ==
  /\ IsTrue(c, "Ready")
  /\ ReadyExcludesProgress => ~IsTrue(c, "Reconciling") /\ ~IsTrue(c, "Stalled")

Set(c, t, status, reason, gen) ==
  [c EXCEPT ![t] = [status |-> status, reason |-> reason, gen |-> gen]]
Delete(c, t) == [c EXCEPT ![t] = Absent]
MarkReconciling(c, reason, gen) ==
  Set(Delete(c, "Stalled"), "Reconciling", "True", reason, gen)
MarkStalled(c, reason, gen) ==
  Set(Delete(c, "Reconciling"), "Stalled", "True", reason, gen)

\* replaceCondition of atomic_release.go, for Remediated by Released.
ReplaceRemediated(c, reason, gen) ==
  Delete(Set(c, "Released", "True", reason, gen), "Remediated")

TestsCount == TestEnable /\ ~TestIgnoreFailures

\* Mutant: a remediation of the same generation does not come first.
ForemostStrictly(c) ==
  CASE /\ Has(c, "Remediated")
       /\ Has(c, "Released") => c["Remediated"].gen > c["Released"].gen
         -> "Remediated"
    [] OTHER -> IF Has(c, "Released") THEN "Released" ELSE "Ready"

\* The condition that the stable sort of summarize puts first.  Its order is
\* by generation and priority only between neighbours, so this is where an
\* insertion into the list in ListOrder ends.
Foremost(c) ==
  CASE /\ Has(c, "Remediated")
       /\ Has(c, "Released") => c["Remediated"].gen >= c["Released"].gen
         -> "Remediated"
    [] /\ TestsCount /\ Has(c, "TestSuccess") /\ ~Has(c, "Remediated")
       /\ Has(c, "Released") => c["TestSuccess"].gen >= c["Released"].gen
         -> "TestSuccess"
    [] /\ Has(c, "Released")
       /\ Has(c, "Remediated") => c["Remediated"].gen < c["Released"].gen
       /\ (TestsCount /\ Has(c, "TestSuccess") /\ ~Has(c, "Remediated"))
            => c["TestSuccess"].gen < c["Released"].gen
         -> "Released"
    [] OTHER ->
         IF \E i \in DOMAIN ListOrder : Has(c, ListOrder[i])
         THEN ListOrder[CHOOSE i \in DOMAIN ListOrder :
                          /\ Has(c, ListOrder[i])
                          /\ \A j \in 1..(i - 1) : ~Has(c, ListOrder[j])]
         ELSE "Ready"

summarize(c0, gen) ==
  LET c == IF TestEnable THEN c0 ELSE Delete(c0, "TestSuccess")
      top == c[Foremost(c)]
      status == IF Foremost(c) = "Remediated" THEN "False" ELSE top.status
  IN IF \A t \in CondTypes : ~Has(c, t) THEN c
     ELSE Set(IF status = "True" THEN Delete(c, "Stalled") ELSE c,
              "Ready", status, top.reason, gen)
=============================================================================
