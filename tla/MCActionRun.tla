----------------------------- MODULE MCActionRun -----------------------------
(* Two releases whose charts share CRDs.                                    *)
EXTENDS ActionRun, TLC

Default == [action |-> "install", mode |-> "unset", last |-> "none", policy |-> "unset",
            strategy |-> "unset", disableWait |-> FALSE, disableWaitForJobs |-> FALSE,
            persistent |-> TRUE, dir |-> <<"c1">>, uses |-> {"c1"},
            hook |-> "none", load |-> "Deployment"]

Pair(a, b) == [r \in Runs |-> IF r = "a" THEN a @@ Default ELSE b @@ Default]

\* Both apply server-side; a client-side create meets a replace; a replace
\* of all meets an action that does not wait; an upgrade that finds no
\* release, and CRDs that are skipped.
MCSetups ==
  {Pair([hook |-> "Job"], [load |-> "PausedDeployment"]),
   Pair([mode |-> "disabled", dir |-> <<"c1", "c2">>, strategy |-> "legacy"],
        [action |-> "upgrade", last |-> "csa", policy |-> "CreateReplace", hook |-> "Pod"]),
   Pair([action |-> "upgrade", mode |-> "enabled", policy |-> "CreateReplace",
         dir |-> <<NonCRD, "c1">>, load |-> "Job"],
        [dir |-> <<"c1", "c2">>, disableWait |-> TRUE, hook |-> "ConfigMap"]),
   Pair([action |-> "upgrade", mode |-> "auto"],
        [policy |-> "Skip", persistent |-> FALSE, uses |-> {}, load |-> "Job",
         strategy |-> "poller", disableWaitForJobs |-> TRUE])}
=============================================================================
