------------------------------ MODULE ActionRun ------------------------------
(* Install and upgrade actions of several HelmReleases that run at the same *)
(* time (internal/action): the CRDs of a chart are applied by policy, the   *)
(* REST mapper is reset, and Helm runs hooks and waits for what it made.    *)
(* The CRDs are shared by all releases.  A wait polls, is interrupted by a  *)
(* new request and ends with the process, which the watch for near-OOM      *)
(* stops (internal/oomwatch).  Helm and the API server are external.        *)
EXTENDS Integers, Sequences

CONSTANTS
  Runs,              \* one action run per HelmRelease
  CRDs,
  Setups,            \* what the runs may be asked to do, see SetupsAssumption
  UseHelm3Defaults,  \* the feature gate
  MemoryMax,         \* memory.max
  Threshold,         \* --oom-watch-memory-threshold
  MaxTroubles        \* failures, interrupts and doings of others

\* An object in crds/ that is no CustomResourceDefinition.
NonCRD == "other"

\* mode is .serverSideApply of the action and last the apply method of the
\* last release in storage.  dir lists what the chart has in crds/, and uses
\* the CRDs its manifest has objects of.  hook and load are the kinds of the
\* release's hook and of the object it waits for.
Setup ==
  [action : {"install", "upgrade"},
   mode : {"unset", "enabled", "disabled", "auto"},
   last : {"none", "ssa", "csa"},
   policy : {"unset", "Skip", "Create", "CreateReplace"},
   strategy : {"unset", "poller", "legacy"},
   disableWait : BOOLEAN, disableWaitForJobs : BOOLEAN, persistent : BOOLEAN,
   dir : Seq(CRDs \cup {NonCRD}), uses : SUBSET CRDs,
   hook : {"none", "Job", "Pod", "ConfigMap"},
   load : {"Deployment", "PausedDeployment", "Job"}]

ASSUME SetupsAssumption ==
  /\ Setups \subseteq [Runs -> Setup]
  /\ \A s \in Setups, r \in Runs :
       s[r].action = "install" => s[r].mode # "auto"
  /\ UseHelm3Defaults \in BOOLEAN
  /\ Runs \cap {"none", "other"} = {} /\ CRDs \cap {"hook", "load"} = {}
  /\ MemoryMax \in Nat \ {0} /\ Threshold \in 1..100 /\ MaxTroubles \in Nat

VARIABLES
  setup,      \* the element of Setups this behaviour is about
  crd,        \* the CRDs in the cluster
  run,        \* the state of each action run
  health,     \* the state of the objects of each release
  interrupt,  \* the runs whose interrupt context is done
  memory,     \* memory.current
  stopping,   \* the context of the process is done
  gone,       \* ghost: the CRDs that others have deleted
  spent

vars == <<setup, crd, run, health, interrupt, memory, stopping, gone, spent>>

Absent == [by |-> "none", established |-> FALSE]
Present(c) == crd[c].by # "none"
Established == {c \in CRDs : crd[c].established}

Trouble == spent < MaxTroubles /\ spent' = spent + 1

(* ------------------------ the action's configuration ------------------- *)

\* newInstall; Upgrade resolves "auto" to the method of the last release.
ServerSideApply(r) ==
  LET s == setup[r]
  IN CASE s.mode = "enabled" -> TRUE
       [] s.mode = "disabled" -> FALSE
       [] OTHER -> IF s.action = "install" THEN ~UseHelm3Defaults ELSE s.last = "ssa"

NoDeployedRelease(r) ==
  setup[r].action = "upgrade" /\ setup[r].mode \in {"unset", "auto"} /\ setup[r].last = "none"

crdPolicyOrDefault(r) ==
  IF setup[r].policy = "unset" THEN "Create" ELSE setup[r].policy

getWaitStrategy(r) ==
  IF setup[r].disableWait THEN "hookOnly"
  ELSE IF setup[r].strategy # "unset" THEN setup[r].strategy
       ELSE IF UseHelm3Defaults THEN "legacy" ELSE "poller"

\* newWaiter: Helm's own waiter is not given the context of the reconcile.
HelmWaits(r) == getWaitStrategy(r) = "legacy"

\* Where in crds/ the CRDs of the chart are, and not what else is there.
FilteredCRDs(r) == {i \in DOMAIN setup[r].dir : setup[r].dir[i] # NonCRD}
CRDAt(r, i) == setup[r].dir[i]
CRDSet(r) == {CRDAt(r, i) : i \in FilteredCRDs(r)}

(* -------------------------- the state of a run ------------------------- *)

\* pc says where the run is, and left which CRDs are yet to be handled there;
\* seen are the originals, items the CRDs it created or updated, polled the
\* objects last seen current, and known the kinds its REST mapper knows.  there
\* is a ghost: the CRDs that existed when the run began.
Begun == [pc |-> "begin", left |-> {}, seen |-> {}, items |-> {}, polled |-> {},
          known |-> {}, there |-> {}, result |-> "none"]

Ended(r) == run[r].pc = "done"
At(r, pc) == run[r].pc = pc
Becomes(r, new) == run' = [run EXCEPT ![r] = new]
Proceeds(r, pc) ==
  Becomes(r, [run[r] EXCEPT !.pc = pc, !.left = FilteredCRDs(r), !.polled = {}])
Ends(r, result) ==
  Becomes(r, [run[r] EXCEPT !.pc = "done", !.polled = {}, !.result = result])

World == <<setup, interrupt, memory, stopping, gone>>

(* ------------------------------ applyCRDs ------------------------------ *)

\* Mutant: an apply is sent for a CRD that may exist.
CreateAtOnce(r) == "create"

\* Under server-side apply a CRD is looked for before it is created.
NextCRD(r) == IF ServerSideApply(r) THEN "look" ELSE "create"

\* The action is configured and the chart's CRDs are built with the REST
\* mapper of the client, which discovers what is served.
Begin(r) ==
  /\ At(r, "begin")
  /\ IF NoDeployedRelease(r) THEN Ends(r, "error")
     ELSE IF setup[r].dir = <<>> \/ crdPolicyOrDefault(r) = "Skip" THEN Proceeds(r, "helm")
     ELSE Becomes(r, [run[r] EXCEPT
            !.pc = IF crdPolicyOrDefault(r) = "CreateReplace" THEN "get" ELSE NextCRD(r),
            !.left = FilteredCRDs(r), !.known = Established,
            !.there = {c \in CRDs : Present(c)}])
  /\ UNCHANGED <<World, crd, health, spent>>

AllDone(r) == run[r].left = {}
\* The position the run is at: the first of those that are left.
Here(r) == {i \in run[r].left : \A j \in run[r].left : i <= j}
Past(r, i) == run[r].left \ {i}

\* Create under server-side apply: Get first, and skip what is there.
LookForCRD(r) ==
  /\ At(r, "look")
  /\ \E i \in Here(r) :
       Becomes(r, IF Present(CRDAt(r, i)) THEN [run[r] EXCEPT !.left = Past(r, i)]
                  ELSE [run[r] EXCEPT !.pc = "create"])
  /\ UNCHANGED <<World, crd, health, spent>>

Made(r, c) == [by |-> r, established |-> crd[c].established]

\* What the API server does with the create request: AlreadyExists, unless
\* the request is an apply.
Accepts(r, c) == ServerSideApply(r) \/ ~Present(c)

CreateCRD(r) ==
  /\ At(r, "create")
  /\ \E i \in Here(r) :
       LET c == CRDAt(r, i)
       IN /\ crd' = IF Accepts(r, c) THEN [crd EXCEPT ![c] = Made(r, c)] ELSE crd
          /\ Becomes(r, [run[r] EXCEPT !.pc = NextCRD(r), !.left = Past(r, i),
                           !.items = @ \cup IF Accepts(r, c) THEN {c} ELSE {}])
  /\ UNCHANGED <<World, health, spent>>

\* The first attempt is carried out, but answered by an error of etcd that
\* the round tripper repeats the request for.
RetryCreate(r) ==
  /\ At(r, "create") /\ Trouble
  /\ \E i \in Here(r) :
       LET c == CRDAt(r, i)
       IN /\ Accepts(r, c)
          /\ crd' = [crd EXCEPT ![c] = Made(r, c)]
          /\ Becomes(r, [run[r] EXCEPT !.pc = NextCRD(r), !.left = Past(r, i),
                           !.items = @ \cup IF ServerSideApply(r) THEN {c} ELSE {}])
  /\ UNCHANGED <<World, health>>

\* Create or CreateReplace: a request fails, possibly after it was carried
\* out; the failure is returned.
CallFails(r) ==
  /\ run[r].pc \in {"begin", "look", "create", "get", "update"} /\ Trouble
  /\ \/ crd' = crd
     \/ \E i \in Here(r) :
          LET c == CRDAt(r, i)
          IN /\ At(r, "update") \/ (At(r, "create") /\ Accepts(r, c))
             /\ crd' = [crd EXCEPT ![c] = Made(r, c)]
  /\ Ends(r, "error")
  /\ UNCHANGED <<World, health>>

\* CreateReplace: the originals are those of the chart's CRDs that exist.
Originals(r) == run[r].seen

GetOriginal(r) ==
  /\ At(r, "get")
  /\ \/ AllDone(r) /\ Proceeds(r, "update")
     \/ \E i \in Here(r) :
          Becomes(r, [run[r] EXCEPT !.left = Past(r, i),
            !.seen = @ \cup IF Present(CRDAt(r, i)) THEN {CRDAt(r, i)} ELSE {}])
  /\ UNCHANGED <<World, crd, health, spent>>

\* Helm's Update creates what is missing, replaces what has an original,
\* fails for what appeared meanwhile, and deletes originals without target.
UpdateCRD(r) ==
  /\ At(r, "update")
  /\ \/ /\ AllDone(r)
        /\ crd' = [c \in CRDs |-> IF c \in Originals(r) \ CRDSet(r) THEN Absent ELSE crd[c]]
        /\ Proceeds(r, "await")
     \/ \E i \in Here(r) :
          LET c == CRDAt(r, i)
          IN IF Present(c) /\ c \notin Originals(r)
             THEN crd' = crd /\ Ends(r, "error")
             ELSE /\ crd' = [crd EXCEPT ![c] = Made(r, c)]
                  /\ Becomes(r, [run[r] EXCEPT !.left = Past(r, i), !.items = @ \cup {c}])
  /\ UNCHANGED <<World, health, spent>>

AllCreated(r) ==
  /\ run[r].pc \in {"look", "create"} /\ AllDone(r)
  /\ Proceeds(r, "await")
  /\ UNCHANGED <<World, crd, health, spent>>

\* Mutant: the REST mapper keeps what it discovered.
KnownBefore(r) == run[r].known

\* The REST mapper after its cache is cleared.
ResetMapper(r) == Established

\* Nothing was created or updated, or nothing is waited for: the waiter of
\* the hook-only strategy returns at once.
SkipAwait(r) ==
  /\ At(r, "await")
  /\ run[r].items = {} \/ getWaitStrategy(r) = "hookOnly"
  /\ Becomes(r, [run[r] EXCEPT !.pc = "helm",
                   !.known = IF run[r].items = {} THEN @ ELSE ResetMapper(r)])
  /\ UNCHANGED <<World, crd, health, spent>>

(* -------------------------------- waiting ------------------------------ *)

\* What a wait of a run is for.
Targets(r) ==
  CASE At(r, "await") -> run[r].items
    [] At(r, "hook") -> {"hook"}
    [] At(r, "load") -> {"load"} \ IF setup[r].load = "PausedDeployment" THEN {"load"} ELSE {}
    [] OTHER -> {}

Waiting(r) == run[r].pc \in {"await", "hook", "load"} /\ Targets(r) # {}
              /\ (At(r, "hook") \/ getWaitStrategy(r) # "hookOnly")

\* kstatus takes a Job for current once it has started; the Job reader of
\* the controller waits for its completion.
GenericReader(kind, h) == IF kind = "Job" /\ h = "Started" THEN "Current" ELSE h
CompletionReader(kind, h) == IF h = "Started" THEN "InProgress" ELSE h

\* Mutant: everything but Pods is ready for a hook.
WatchUntilPodReady(r) ==
  IF setup[r].hook = "Pod" THEN CompletionReader("Pod", health[r].hook) ELSE "Current"

\* WatchUntilReady: Jobs and Pods have to complete, the rest is ready.
WatchUntilReady(r) ==
  IF setup[r].hook \in {"Job", "Pod"}
  THEN CompletionReader(setup[r].hook, health[r].hook) ELSE "Current"

\* Wait and WaitWithJobs.
WaitReads(r) ==
  IF setup[r].disableWaitForJobs THEN GenericReader(setup[r].load, health[r].load)
  ELSE CompletionReader(setup[r].load, health[r].load)

StatusOf(r, x) ==
  CASE x = "hook" -> WatchUntilReady(r)
    [] x = "load" -> WaitReads(r)
    [] OTHER -> IF crd[x].established THEN "Current" ELSE "InProgress"

FailFast(r) == ~At(r, "hook")

\* The status of one object is polled; others may change before the wait
\* looks at what it collected.
Poll(r, x) ==
  /\ Waiting(r) /\ x \in Targets(r)
  /\ IF StatusOf(r, x) = "Failed" /\ FailFast(r) THEN Ends(r, "error")
     ELSE Becomes(r, [run[r] EXCEPT !.polled = IF StatusOf(r, x) = "Current" THEN @ \cup {x}
                                               ELSE @ \ {x}])
  /\ UNCHANGED <<World, crd, health, spent>>

AllCurrent(r) == run[r].polled = Targets(r)

\* Wait and WaitWithJobs use the interrupt context, hooks do not.
Interruptible(r) == Waiting(r) /\ ~HelmWaits(r) /\ ~At(r, "hook")

\* Mutant: the wait context was not configured.
WaitInBackground(r) == ~At(r, "await") /\ ~At(r, "hook") /\ Waiting(r)

\* All waits of the controller end with the context of the reconcile; Helm's
\* run does too, while its own waiter for the CRDs does not.
EndsWithProcess(r) == Waiting(r) /\ ~(HelmWaits(r) /\ At(r, "await"))

WaitTimesOut(r) ==
  /\ Waiting(r)
  /\ Ends(r, "timeout")
  /\ UNCHANGED <<World, crd, health, spent>>

WaitInterrupted(r) ==
  /\ Interruptible(r) /\ r \in interrupt
  /\ Ends(r, "interrupted")
  /\ UNCHANGED <<World, crd, health, spent>>

WaitStopped(r) ==
  /\ EndsWithProcess(r) /\ stopping
  /\ Ends(r, "stopped")
  /\ UNCHANGED <<World, crd, health, spent>>

\* The CRDs are established: the cache of the REST mapper is cleared.
CRDsApplied(r) ==
  /\ At(r, "await") /\ Waiting(r) /\ AllCurrent(r)
  /\ Becomes(r, [run[r] EXCEPT !.pc = "helm", !.polled = {}, !.known = ResetMapper(r)])
  /\ UNCHANGED <<World, crd, health, spent>>

(* ------------------------------- Helm's run ---------------------------- *)

\* What the client of the run maps when Helm builds the manifest; a client
\* that is not persistent discovers anew.
Mapped(r) == IF setup[r].persistent THEN run[r].known ELSE Established

Started(r, o, pc) ==
  /\ health' = [health EXCEPT ![r][o] = "InProgress"]
  /\ Proceeds(r, pc)

\* The manifest is built, which needs its kinds to be mapped, and the hook or
\* the objects are created.
RunHelm(r) ==
  /\ At(r, "helm")
  /\ IF setup[r].uses \subseteq Mapped(r)
     THEN IF setup[r].hook = "none" THEN Started(r, "load", "load")
          ELSE Started(r, "hook", "hook")
     ELSE health' = health /\ Ends(r, "error")
  /\ UNCHANGED <<World, crd, spent>>

HookPasses(r) ==
  /\ At(r, "hook") /\ AllCurrent(r)
  /\ Started(r, "load", "load")
  /\ UNCHANGED <<World, crd, spent>>

Succeeds(r) ==
  /\ At(r, "load") /\ (Waiting(r) => AllCurrent(r))
  /\ Ends(r, "ok")
  /\ UNCHANGED <<World, crd, health, spent>>

(* ----------------------- the cluster and the process ------------------- *)

Establish(c) ==
  /\ Present(c) /\ ~crd[c].established
  /\ crd' = [crd EXCEPT ![c].established = TRUE]
  /\ UNCHANGED <<World, run, health, spent>>

Others(c) ==
  /\ Trouble
  /\ \/ ~Present(c) /\ crd' = [crd EXCEPT ![c].by = "other"] /\ gone' = gone
     \/ Present(c) /\ crd' = [crd EXCEPT ![c] = Absent] /\ gone' = gone \cup {c}
  /\ UNCHANGED <<setup, interrupt, memory, stopping, run, health>>

\* Objects progress and fail; a Job or Pod that has completed stays so.
Progress(r, o) ==
  /\ LET kind == setup[r][o]
         h == health[r][o]
     IN /\ h \in {"InProgress", "Started"}
        /\ health' \in {[health EXCEPT ![r][o] = n] : n \in
                         IF kind = "Job" /\ h = "InProgress" THEN {"Started"}
                         ELSE {"Current", "Failed"}}
  /\ UNCHANGED <<World, crd, run, spent>>

Regress(r) ==
  /\ setup[r].load = "Deployment" /\ health[r].load \in {"Current", "Failed"} /\ Trouble
  /\ health' = [health EXCEPT ![r].load = "InProgress"]
  /\ UNCHANGED <<World, crd, run>>

NewRequest(r) ==
  /\ r \notin interrupt /\ Trouble
  /\ interrupt' = interrupt \cup {r}
  /\ UNCHANGED <<setup, memory, stopping, gone, crd, run, health>>

MemoryUse ==
  /\ Trouble
  /\ memory' \in 1..MemoryMax \ {memory}
  /\ UNCHANGED <<setup, interrupt, stopping, gone, crd, run, health>>

\* The usage that is near OOM.
NearOOM == {m \in 1..MemoryMax : m * 100 >= Threshold * MemoryMax}

\* watchForNearOOM: a reading that fails is skipped, which is no step.
WatchForNearOOM ==
  /\ ~stopping /\ memory \in NearOOM
  /\ stopping' = TRUE
  /\ UNCHANGED <<setup, interrupt, memory, gone, crd, run, health, spent>>

(* ----------------------------- specification --------------------------- *)

Init ==
  /\ setup \in Setups
  /\ crd = [c \in CRDs |-> Absent]
  /\ run = [r \in Runs |-> Begun]
  /\ health = [r \in Runs |-> [hook |-> "Absent", load |-> "Absent"]]
  /\ interrupt = {} /\ memory = 1 /\ stopping = FALSE /\ gone = {} /\ spent = 0

RunStep(r) ==
  \/ Begin(r) \/ LookForCRD(r) \/ CreateCRD(r) \/ GetOriginal(r) \/ UpdateCRD(r)
  \/ AllCreated(r) \/ SkipAwait(r) \/ CRDsApplied(r)
  \/ \E x \in CRDs \cup {"hook", "load"} : Poll(r, x)
  \/ WaitInterrupted(r) \/ WaitStopped(r)
  \/ RunHelm(r) \/ HookPasses(r) \/ Succeeds(r)

Next ==
  \/ \E r \in Runs :
       \/ RunStep(r) \/ WaitTimesOut(r) \/ RetryCreate(r) \/ CallFails(r)
       \/ Regress(r) \/ NewRequest(r)
       \/ \E o \in {"hook", "load"} : Progress(r, o)
  \/ \E c \in CRDs : Establish(c) \/ Others(c)
  \/ MemoryUse \/ WatchForNearOOM

Spec == Init /\ [][Next]_vars

\* A goroutine that can go on does, and the ticker of the watch fires.
\* Timeouts are long and not relied on.
FairSpec ==
  /\ Spec
  /\ \A r \in Runs : WF_vars(RunStep(r))
  /\ WF_vars(WatchForNearOOM)

(* ------------------------------ properties ----------------------------- *)

\* When Helm builds the manifest, the CRDs that the run created or updated
\* are served and its REST mapper knows them (the wait and the reset at the
\* end of applyCRDs), unless others deleted them or waiting is disabled.
OwnCRDsServed ==
  \A r \in Runs :
    At(r, "helm") /\ getWaitStrategy(r) # "hookOnly" => run[r].items \subseteq Mapped(r) \cup gone

\* A run with the Create policy leaves a CRD alone that was there when it
\* began, by the AlreadyExists of a create or by the Get before an apply.
CreateLeavesOlderCRDs ==
  \A r \in Runs, c \in CRDs :
    crdPolicyOrDefault(r) = "Create" /\ c \in run[r].there \ gone => crd[c].by # r

\* A successful run means that its Job or Pod hooks completed, and that its
\* Jobs did unless waiting for them is disabled (the status readers of
\* WatchUntilReady and WaitWithJobs).
SuccessMeansComplete ==
  \A r \in Runs : run[r].result = "ok" =>
    /\ setup[r].hook \in {"Job", "Pod"} => health[r].hook = "Current"
    /\ setup[r].load = "Job" /\ ~setup[r].disableWaitForJobs
         /\ getWaitStrategy(r) # "hookOnly" => health[r].load = "Current"

\* When memory stays near its limit the process is stopped and the runs end,
\* whatever they wait for, but for Helm's own wait for CRDs.
NearOOMEndsRuns ==
  \/ []<>(memory \notin NearOOM)
  \/ <>[](\A r \in Runs : Ended(r) \/ (HelmWaits(r) /\ At(r, "await")))

\* With the Create policy a run never changes a CRD that exists.
CreateLeavesExisting ==
  [][\A r \in Runs, c \in CRDs :
       Present(c) /\ crd[c].by # r /\ crd'[c].by = r => crdPolicyOrDefault(r) # "Create"]_vars
=============================================================================
