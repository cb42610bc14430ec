---------------------------- MODULE HelmStorage ----------------------------
(* The Helm storage of one release, and what the Helm actions write to it.  *)
(* Helm itself is a library outside this repository: the operators below    *)
(* say what internal/action and internal/reconcile rely on, and the order   *)
(* in which its actions write revisions.                                    *)
(*                                                                          *)
(* A storage is a function from revision numbers to releases.  A release    *)
(* keeps what the controller can tell apart: the run that created it (id,   *)
(* standing for the timestamps the digest covers), its status, the chart    *)
(* and values it was made from (cfg) and the post-renderers and common      *)
(* metadata its manifest went through (pr).                                 *)
EXTENDS Integers, FiniteSets

Statuses == {"deployed", "superseded", "failed", "uninstalled",
             "uninstalling", "pending"}

EmptyStorage == [v \in {} |-> v]

LastVersion(s) == CHOOSE v \in DOMAIN s : \A w \in DOMAIN s : w <= v
Last(s) == s[LastVersion(s)]

\* The revision Helm calls deployed: at most one is.
DeployedVersions(s) == {v \in DOMAIN s : s[v].status = "deployed"}

SetStatus(s, v, status) == [s EXCEPT ![v].status = status]

\* Every revision in D becomes superseded.
Supersede(s, D) ==
  [v \in DOMAIN s |->
     IF v \in D THEN [s[v] EXCEPT !.status = "superseded"] ELSE s[v]]

\* storage.Create of a new pending revision, numbered after the last one.
CreatePending(s, id, cfg, pr) ==
  LET new == IF DOMAIN s = {} THEN 1 ELSE LastVersion(s) + 1
  IN [v \in DOMAIN s \cup {new} |->
        IF v = new
        THEN [id |-> id, status |-> "pending", cfg |-> cfg, pr |-> pr]
        ELSE s[v]]

\* The revisions before the last one.
Before(s) == [v \in DOMAIN s \ {LastVersion(s)} |-> s[v]]

isLockedStatus(status) == status \in {"pending", "uninstalling"}

\* Helm installs when the name is free, or may be replaced.
CanInstall(s, replace) ==
  DOMAIN s # {} => replace /\ Last(s).status \in {"uninstalled", "failed"}

\* Helm upgrades from the deployed revision, or else from a last revision
\* that failed or was superseded.
CanUpgrade(s) ==
  /\ DOMAIN s # {}
  /\ ~isLockedStatus(Last(s).status)
  /\ \/ DeployedVersions(s) # {}
     \/ Last(s).status \in {"failed", "superseded"}

\* The revision an upgrade supersedes, given the revisions before the new one.
UpgradedFrom(s) == IF DeployedVersions(s) # {} THEN DeployedVersions(s)
                                               ELSE {LastVersion(s)}

\* Install replaces an uninstalled revision by superseding it.
InstalledOver(s) == IF DOMAIN s # {} /\ Last(s).status = "uninstalled"
                    THEN {LastVersion(s)} ELSE {}

CanRollback(s, target) ==
  /\ target \in DOMAIN s
  /\ ~isLockedStatus(Last(s).status)

CanUninstall(s) == DOMAIN s # {} /\ Last(s).status # "uninstalled"

\* Uninstall ends by purging every revision, or, when history is kept, by
\* marking the last one and superseding what was deployed before it.
Uninstalled(s, keepHistory) ==
  IF keepHistory
  THEN Supersede(SetStatus(s, LastVersion(s), "uninstalled"),
                 DeployedVersions(s) \ {LastVersion(s)})
  ELSE EmptyStorage
=============================================================================
