--------------------------- MODULE SourceRevisions ---------------------------
(* One HelmRelease that follows its source (internal/controller): how the    *)
(* revision of an artifact becomes a chart version and a recorded digest,    *)
(* which events of the source are skipped because of that record, and which  *)
(* artifact each release of the history was made from.  Others move the      *)
(* source, also back to a former artifact, while a reconcile is under way.   *)
(* Upgrades are not retried and the last failure is rolled back.             *)
EXTENDS Integers, Sequences

CONSTANTS
  SourceSetups,    \* [kind, artifacts, tracking]: see SourceAssumption
  ChartVersions,   \* versions of charts, which the loader finds to be semantic
  MaxMoves,        \* changes of the artifact
  MaxUpgradeFailures

NoDigest == <<"", "">>

\* A digest is its first twelve characters, "" when it has fewer, and the rest.
\* The revision of an artifact is its tag, if any, and its digest, if any:
\* tag, tag@digest or digest.
ASSUME SourceAssumption ==
  /\ SourceSetups \subseteq
       [kind : {"HelmChart", "OCIRepository", "ExternalArtifact"},
        artifacts : SUBSET [tag : ChartVersions \cup {"none", "latest"},
                            digest : STRING \X STRING, version : ChartVersions],
        tracking : BOOLEAN]
  /\ ChartVersions \cap {"", "none", "latest"} = {}
  /\ \A s \in SourceSetups : \A a \in s.artifacts :
       /\ a.tag # "none" \/ a.digest # NoDigest
       /\ s.kind = "HelmChart" => a.tag = a.version /\ a.digest = NoDigest
       /\ \A b \in s.artifacts :   \* the digest is that of the chart
            a.digest = b.digest => a.version = b.version \/ a.digest = NoDigest
  /\ MaxMoves \in Nat /\ MaxUpgradeFailures \in Nat

VARIABLES
  from,        \* the element of SourceSetups this behaviour is about
  artifact,    \* the artifact of the source
  news,        \* revisions whose events are not mapped yet
  status,      \* the status of the HelmRelease
  releases,    \* the Helm storage: one record per revision of the release
  snapshots,   \* and what the history records of it
  asked,       \* the release is queued
  work,        \* where the reconcile is, and the artifact it has read
  overtaken,   \* an event was skipped for an attempt about to be replaced
  moves, upgradeFailures

sourceVars == <<from, artifact, news, status, releases, snapshots, asked, work,
                overtaken, moves, upgradeFailures>>

(* ------------------------ revisions and versions ----------------------- *)

Revision(a) == [tag |-> a.tag, digest |-> a.digest]
NoRevision == [tag |-> "none", digest |-> NoDigest]

isSourceWithRevisionDigest(rev) ==
  \/ from.kind = "OCIRepository"
  \/ from.kind = "ExternalArtifact" /\ rev.digest # NoDigest

isSemverTag(rev) == rev.tag \in ChartVersions

\* The cases in which mutateChartWithSourceRevision fails.
CannotMutate(a) ==
  /\ isSourceWithRevisionDigest(Revision(a))
  /\ \/ isSemverTag(Revision(a)) /\ a.tag # a.version
     \/ a.digest[1] = ""

\* Mutant: the version of the chart is left as it is.
VersionAsInChart(a) == <<a.version, "">>

\* The version the chart gets: twelve characters of the digest follow it.
MutatedVersion(a) ==
  IF isSourceWithRevisionDigest(Revision(a)) /\ from.tracking
  THEN <<a.version, a.digest[1]>> ELSE <<a.version, "">>

\* And the digest to record, which is the whole revision when its tag is no
\* version.
RevDigest(a) ==
  IF ~isSourceWithRevisionDigest(Revision(a)) THEN NoRevision
  ELSE IF isSemverTag(Revision(a)) THEN [Revision(a) EXCEPT !.tag = "none"]
       ELSE Revision(a)

\* What the indexers take for the digest of a revision.
extractDigest(rev) ==
  IF rev.digest # NoDigest THEN [rev EXCEPT !.tag = "none"] ELSE rev

(* ---------------------------- the reconcile ---------------------------- *)

LastRelease == releases[Len(releases)]
SourceFrame == UNCHANGED <<from, artifact, news, moves>>

\* The object is marked as under reconciliation before the source is read.
TakeRequest ==
  /\ work.pc = "idle" /\ asked /\ asked' = FALSE
  /\ status' = [status EXCEPT !.reconciling = TRUE]
  /\ work' = [work EXCEPT !.pc = "source"]
  /\ SourceFrame
  /\ UNCHANGED <<releases, snapshots, overtaken, upgradeFailures>>

GetSource ==
  /\ work.pc = "source"
  /\ work' = [pc |-> "load", artifact |-> artifact]
  /\ SourceFrame
  /\ UNCHANGED <<status, releases, snapshots, asked, overtaken, upgradeFailures>>

\* The artifact is downloaded and verified: once the source has moved on, its
\* file may be gone, or hold another digest.
SecureLoadChartFromURL ==
  {"loaded"} \cup {o \in {"not found", "mismatch"} : artifact # work.artifact}

\* The source is read again after a while.
ArtifactFailed ==
  /\ work.pc = "load" /\ SecureLoadChartFromURL \cap {"not found", "mismatch"} # {}
  /\ status' = [status EXCEPT !.ready = "False"]
  /\ asked' = TRUE
  /\ work' = [work EXCEPT !.pc = "idle"]
  /\ SourceFrame
  /\ UNCHANGED <<releases, snapshots, overtaken, upgradeFailures>>

\* The chart cannot be used: the error brings the reconcile back.
ChartMutateError ==
  /\ work.pc = "load" /\ CannotMutate(work.artifact)
  /\ status' = [status EXCEPT !.ready = "False"]
  /\ asked' = TRUE
  /\ work' = [work EXCEPT !.pc = "idle"]
  /\ SourceFrame
  /\ UNCHANGED <<releases, snapshots, overtaken, upgradeFailures>>

\* MustResetFailures, and the last attempt recorded in memory.
Attempt(a) ==
  [status EXCEPT !.failed = @ /\ status.attempted = MutatedVersion(a),
                 !.attempted = MutatedVersion(a), !.digest = RevDigest(a)]

DeployedAs(version) ==
  releases # <<>> /\ LastRelease.status = "deployed" /\ LastRelease.version = version

\* The release loop finds the release in sync, has no retries left, or
\* announces a release; each way the attempt is written to the API server.
Load ==
  /\ work.pc = "load" /\ ~CannotMutate(work.artifact)
  /\ LET s == Attempt(work.artifact)
     IN \/ /\ DeployedAs(s.attempted)
           /\ status' = [s EXCEPT !.ready = "True", !.reconciling = FALSE]
           /\ work' = [work EXCEPT !.pc = "idle"]
        \/ /\ ~DeployedAs(s.attempted) /\ s.failed
           /\ status' = [s EXCEPT !.ready = "False", !.reconciling = FALSE]
           /\ work' = [work EXCEPT !.pc = "idle"]
        \/ /\ ~DeployedAs(s.attempted) /\ ~s.failed
           /\ status' = [s EXCEPT !.ready = "Unknown"]
           /\ work' = [work EXCEPT !.pc = "release"]
  /\ SourceFrame
  /\ UNCHANGED <<releases, snapshots, asked, overtaken, upgradeFailures>>

Superseded(rs) ==
  [i \in DOMAIN rs |-> IF rs[i].status = "deployed"
                       THEN [rs[i] EXCEPT !.status = "superseded"] ELSE rs[i]]

\* Mutant: every release seen during the upgrade gets the digest.
RecordDigestOnAll(rs) ==
  [i \in DOMAIN rs |->
     [oci |-> IF i = Len(rs) \/ i \notin DOMAIN snapshots \/ rs[i] # releases[i]
              THEN status.digest ELSE snapshots[i].oci]]

\* recordOnObject and mutateOCIDigest: a new snapshot gets the digest of the
\* attempt, an updated one keeps its own.
RecordDigest(rs) ==
  [i \in DOMAIN rs |->
     [oci |-> IF i \in DOMAIN snapshots THEN snapshots[i].oci ELSE status.digest]]

\* A Helm install or upgrade.
UpgradeSucceeds ==
  /\ work.pc = "release"
  /\ releases' = Append(Superseded(releases),
                        [version |-> status.attempted, status |-> "deployed",
                         made |-> work.artifact])
  /\ snapshots' = RecordDigest(releases')
  /\ status' = [status EXCEPT !.ready = "True", !.reconciling = FALSE]
  /\ work' = [work EXCEPT !.pc = "idle"]
  /\ SourceFrame
  /\ UNCHANGED <<asked, overtaken, upgradeFailures>>

UpgradeFails ==
  /\ work.pc = "release"
  /\ upgradeFailures < MaxUpgradeFailures
  /\ upgradeFailures' = upgradeFailures + 1
  /\ releases' = Append(releases, [version |-> status.attempted, status |-> "failed",
                                   made |-> work.artifact])
  /\ snapshots' = RecordDigest(releases')
  /\ LET remediate == \E i \in DOMAIN releases : releases[i].status = "deployed"
     IN /\ status' = [status EXCEPT !.ready = "False", !.failed = TRUE,
                                    !.reconciling = remediate]
        /\ work' = [work EXCEPT !.pc = IF remediate THEN "rollback" ELSE "idle"]
  /\ SourceFrame
  /\ UNCHANGED <<asked, overtaken>>

\* Helm stores the deployed release as another revision, and observeRollback
\* its snapshot without a digest; then no retries are left.
RollBack ==
  /\ work.pc = "rollback"
  /\ \E i \in DOMAIN releases :
       /\ releases[i].status = "deployed"
       /\ releases' = Append([Superseded(releases) EXCEPT
                                 ![Len(releases)].status = "superseded"],
                             releases[i])
  /\ snapshots' = Append(snapshots, [oci |-> NoRevision])
  /\ status' = [status EXCEPT !.reconciling = FALSE]
  /\ work' = [work EXCEPT !.pc = "idle"]
  /\ SourceFrame
  /\ UNCHANGED <<asked, overtaken, upgradeFailures>>

\* Mutant: an object that is ready waits for events alone.
IntervalUnlessReady == FALSE

\* The interval of an object whose last reconcile succeeded is over.
IntervalOver == work.pc = "idle" /\ status.ready = "True"

Interval ==
  /\ IntervalOver /\ ~asked
  /\ asked' = TRUE
  /\ SourceFrame
  /\ UNCHANGED <<status, releases, snapshots, work, overtaken, upgradeFailures>>

(* ------------------------------- events -------------------------------- *)

\* The three mappings of source events to requests: OCIRepository and
\* ExternalArtifact by the digest where the revision has one, otherwise by
\* the version that was attempted.
AttemptedAlready(rev) ==
  IF from.kind = "OCIRepository" \/ rev.digest # NoDigest
  THEN extractDigest(rev) = status.digest
  ELSE <<rev.tag, "">> = status.attempted

SkipsEvent(rev) ==
  (status.ready = "True" \/ status.reconciling) /\ AttemptedAlready(rev)

MapSourceEvent ==
  /\ news # <<>> /\ news' = Tail(news)
  /\ asked' = (asked \/ ~SkipsEvent(Head(news)))
  /\ overtaken' = (overtaken \/ (/\ SkipsEvent(Head(news)) /\ work.pc = "load"
                                 /\ Revision(work.artifact) # Head(news)))
  /\ UNCHANGED <<from, artifact, status, releases, snapshots, work, moves,
                 upgradeFailures>>

\* The source gets another artifact.
MoveSource ==
  /\ moves < MaxMoves /\ moves' = moves + 1
  /\ artifact' \in from.artifacts \ {artifact}
  /\ news' = Append(news, Revision(artifact'))
  /\ UNCHANGED <<from, status, releases, snapshots, asked, work, overtaken,
                 upgradeFailures>>

SourceInit ==
  /\ from \in SourceSetups /\ artifact \in from.artifacts
  /\ news = <<>> /\ asked = TRUE
  /\ status = [ready |-> "Unknown", reconciling |-> FALSE, failed |-> FALSE,
               attempted |-> <<"", "">>, digest |-> NoRevision]
  /\ releases = <<>> /\ snapshots = <<>>
  /\ work = [pc |-> "idle", artifact |-> artifact]
  /\ overtaken = FALSE /\ moves = 0 /\ upgradeFailures = 0

SourceStep ==
  \/ TakeRequest \/ GetSource \/ ArtifactFailed \/ ChartMutateError \/ Load
  \/ UpgradeSucceeds \/ UpgradeFails \/ RollBack

SourceNext == SourceStep \/ Interval \/ MapSourceEvent \/ MoveSource

\* The revisions of an ExternalArtifact are digests or versions (the comment in
\* isSourceWithRevisionDigest), and a version is that of the chart, as the
\* mapping of its events takes for granted.
RevisionsNameVersions ==
  \A s \in SourceSetups : \A a \in s.artifacts :
    s.kind = "ExternalArtifact" /\ a.digest = NoDigest /\ a.tag \in ChartVersions
      => a.tag = a.version

(* ------------------------------ properties ----------------------------- *)

\* The last release is what the source holds, as far as its version and,
\* when digests are tracked, the first twelve characters of the digest tell.
Follows ==
  /\ releases # <<>> /\ LastRelease.status = "deployed"
  /\ LastRelease.made.version = artifact.version
  /\ from.tracking => LastRelease.made.digest[1] = artifact.digest[1]

\* The attempt failed and there are no retries left.
GaveUp == status.failed /\ status.attempted = MutatedVersion(artifact)

\* No move of the source is missed, also of a tag that moves: once nothing is
\* queued and no event is on its way, the release is what the source holds or
\* its upgrade failed, though no interval passed; unless the source went back
\* to the artifact of the last attempt after the reconcile had read another.
FollowsSource ==
  (work.pc = "idle" /\ ~asked /\ news = <<>> /\ ~overtaken)
    => Follows \/ GaveUp

\* The digest in a snapshot is never that of another artifact than the one
\* the release was made from, whatever was attempted since.
SnapshotsNameArtifacts ==
  \A i \in DOMAIN snapshots :
    snapshots[i].oci \in {NoRevision, RevDigest(releases[i].made)}

\* The interval makes up for events that were skipped too early: the release
\* ends up as what the source holds, unless its artifact cannot be used.
CatchesUp == <>[](CannotMutate(artifact) \/ GaveUp \/ Follows)
=============================================================================
