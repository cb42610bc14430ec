------------------------- MODULE AtomicReleaseSteps -------------------------
(* The steps that start a reconcile, decide on an action, and run install,  *)
(* upgrade and rollback keep the inductive invariant.                       *)
EXTENDS AtomicReleaseObjects

(* ------------------------- one lemma per step kind ---------------------- *)

\* The bounds count up: no step un-spends a fault.
SpentOK == /\ spent' \in [DOMAIN Bounds -> Nat]
           /\ spent'["faults"] = 0 => spent["faults"] = 0

\* What may still happen is counted, and counts stay natural numbers.
LEMMA SpendType ==
  ASSUME EnvOK
  PROVE  /\ UNCHANGED spent => SpentOK
         /\ \A what \in {"changes", "requests", "failures", "external"} :
              Spend(what) => SpentOK
         /\ Spend("faults") => SpentOK /\ spent'["faults"] # 0
<1>1. DOMAIN Bounds = {"changes", "requests", "failures", "faults", "external"}
  BY Zenon DEF Bounds
<1>2. spent \in [DOMAIN Bounds -> Nat]
  BY Zenon DEF EnvOK
<1>3. UNCHANGED spent => SpentOK
  BY <1>2, Zenon DEF SpentOK
<1>4. ASSUME NEW what \in DOMAIN Bounds, Spend(what)
      PROVE  /\ spent' \in [DOMAIN Bounds -> Nat]
             /\ spent'[what] # 0
             /\ what # "faults" => spent'["faults"] = spent["faults"]
  <2>1. spent' = [spent EXCEPT ![what] = spent[what] + 1] /\ spent[what] \in Nat
    BY <1>2, <1>4, Zenon DEF Spend
  <2>2. spent[what] + 1 \in Nat /\ spent[what] + 1 # 0
    BY <2>1
  <2> QED BY <1>1, <1>2, <2>1, <2>2
<1> QED BY <1>1, <1>3, <1>4 DEF SpentOK

\* A step that does not write to the API server keeps what is stored there.
LEMMA ApiKept ==
  ASSUME ApiOK, SpentOK, UNCHANGED api
  PROVE  ApiOK'
BY Zenon DEF ApiOK, SpentOK, Justified, RetriesExceeded, OutOfRetries

\* A patch, whole or torn, stores an object; a torn one is a fault.
LEMMA PatchKeeps ==
  ASSUME EnvOK, ApiOK, NEW o \in Object
  PROVE  /\ Justified(o) /\ Patched(o) => SpentOK /\ ApiOK'
         /\ PatchFailed(o) => SpentOK /\ ApiOK'
<1>1. ASSUME Justified(o), Patched(o) PROVE SpentOK /\ ApiOK'
  BY <1>1, SpendType, Zenon DEF Patched, ApiOK, Justified, RetriesExceeded, OutOfRetries
<1>2. ASSUME PatchFailed(o) PROVE SpentOK /\ ApiOK'
  <2>1. SpentOK /\ spent'["faults"] # 0
    BY <1>2, SpendType, Zenon DEF PatchFailed
  <2>2. api' \in Object
    <3>1. o.status \in Status /\ o.conds \in Conds /\ api \in Object
      BY ObjectUpdate, Zenon DEF ApiOK
    <3>2. [api EXCEPT !.status = o.status] \in Object /\ [api EXCEPT !.conds = o.conds] \in Object
      BY <3>1, ObjectUpdate, Zenon
    <3> QED BY <1>2, <3>1, <3>2 DEF PatchFailed
  <2> QED BY <2>1, <2>2, Zenon DEF ApiOK
<1> QED BY <1>1, <1>2, Zenon

\* A new HelmRelease is not stalled.
LEMMA NewObjectSound == Sound(NewObject)
<1>1. NoConditions \in Conds /\ ~IsTrue(NoConditions, "Stalled")
  BY Zenon DEF NoConditions, Absent, Conds, Condition, CondStatuses, Reasons, CondTypes, IsTrue
<1>2. NewStatus \in Status
  BY DEF NewStatus, Status
<1> QED BY <1>1, <1>2, SoundMade, Zenon DEF NewObject

\* Between reconciles there is no local state to get wrong.
LEMMA ForgetKeeps ==
  ASSUME EnvOK, Forget, desired' = desired, queued' \in BOOLEAN,
         attempts' = attempts, SpentOK
  PROVE  LocalOK' /\ HeldOK' /\ EnvOK'
<1>1. mem' \in Object /\ Justified(mem') /\ ~IsTrue(mem'.conds, "Stalled")
  BY NewObjectSound, SoundIsJustified, Zenon DEF Forget, Sound, Unstalled
<1>2. LocalOK' /\ HeldOK'
  BY <1>1, Zenon DEF Forget, LocalOK, HeldOK, Phases, Results
<1>3. req' \in Want
  BY Zenon DEF Forget, NoRequest, Want
<1>4. EnvOK'
  BY <1>3, Zenon DEF EnvOK, SpentOK
<1> QED BY <1>2, <1>4, Zenon

\* A reconcile starts by removing Stalled (MarkReconciling).
LEMMA StartedSound ==
  ASSUME EnvOK, ApiOK
  PROVE  Sound(Started)
<1>1. "Progressing" \in Reasons /\ desired.gen \in Nat /\ api \in Object
  BY Names, Zenon DEF EnvOK, ApiOK, Want
<1> QED BY <1>1, SoundReconciling, Zenon DEF Started

\* Resetting the counters and noting the attempt keep a status one.
LEMMA PreparedType ==
  ASSUME NEW st \in Status, NEW want \in Want
  PROVE  Prepared(st, want) \in Status
<1> DEFINE kept == IF MustResetFailures(st, want) THEN ClearFailures(st) ELSE st
<1>1. kept \in Status
  BY StatusUpdate, Zenon
<1> HIDE DEF kept
<1>2. [kept EXCEPT !.handledResetAt = want.resetAt,
                   !.lastGeneration = want.gen, !.lastConfig = want.cfg] \in Status
  BY Zenon, <1>1 DEF Status, Want
<1> QED BY <1>2, Zenon DEF Prepared, kept

\* The counters are reset only after Stalled has been removed.
LEMMA AdmittedSound ==
  ASSUME EnvOK, ApiOK
  PROVE  Sound(Admitted)
<1>1. Sound(Started) /\ desired \in Want /\ desired.gen \in Nat
  BY StartedSound DEF EnvOK, Want
<1>2. /\ Started.status \in Status /\ Started.conds \in Conds
      /\ ~IsTrue(Started.conds, "Stalled")
  BY <1>1, ObjectUpdate, Zenon DEF Sound, Unstalled
<1>3. Prepared(Started.status, desired) \in Status
  BY <1>1, <1>2, PreparedType
<1>4. /\ "Ready" \in CondTypes \ {"Stalled"} /\ "Unknown" \in CondStatuses
      /\ "Progressing" \in Reasons
  BY Names
<1>5. Fulfilled(Started.conds) \in Conds /\ ~IsTrue(Fulfilled(Started.conds), "Stalled")
  BY SMTT(30), <1>1, <1>2, <1>4, CondsSound DEF Fulfilled
<1> QED BY <1>3, <1>5, SoundMade DEF Admitted

\* The attempts counted stay numbers.
LEMMA AttemptsType ==
  ASSUME EnvOK, AttemptsReset \/ UNCHANGED attempts
  PROVE  attempts' \in [{"install", "upgrade"} -> Nat]
BY DEF EnvOK, AttemptsReset

\* A reconcile starts with an object that is not stalled.
LEMMA StartReconcileKeeps ==
  ASSUME IInv, StartReconcile
  PROVE  IInv'
<1>1. /\ EnvOK /\ ApiOK /\ LocalOK /\ StoreOK /\ HeldOK
      /\ Sound(Started) /\ desired.gen \in Nat
  BY StartedSound DEF IInv, EnvOK, Want
<1>2. SpentOK /\ ApiOK'
  BY <1>1, PatchKeeps, SoundIsJustified DEF StartReconcile, Sound
<1>3. mem' \in Object /\ Justified(mem') /\ ~IsTrue(mem'.conds, "Stalled")
  BY <1>1, AdmittedSound, SoundIsJustified DEF StartReconcile, Sound, Unstalled
<1>4. LocalOK'
  BY <1>1, <1>3 DEF StartReconcile, LocalOK, Phases
<1>5. HeldOK' /\ StoreOK'
  BY <1>1 DEF StartReconcile, cluster, HeldOK, StoreOK, LocalOK
<1>6. EnvOK'
  <2>1. attempts' \in [{"install", "upgrade"} -> Nat]
    BY SMTT(30), <1>1, AttemptsType DEF StartReconcile
  <2> QED BY Zenon, <1>1, <1>2, <2>1 DEF StartReconcile, EnvOK, SpentOK
<1> QED BY SMTT(30), <1>2, <1>4, <1>5, <1>6 DEF IInv

\* A reconcile that fails before the loop keeps the invariant.
LEMMA StartFailsKeeps ==
  ASSUME IInv, StartFails
  PROVE  IInv'
<1>1. /\ EnvOK /\ ApiOK /\ LocalOK /\ StoreOK /\ HeldOK
      /\ Sound(Started) /\ desired.gen \in Nat
  BY StartedSound DEF IInv, EnvOK, Want
<1>2. Sound(NotReady(Started)) /\ Sound(NotReady(Admitted))
  <2>1. /\ "Ready" \in CondTypes \ {"Stalled"} /\ "False" \in CondStatuses
        /\ "SourceNotReady" \in Reasons
    BY Names
  <2> QED BY Zenon, <1>1, <2>1, AdmittedSound, SoundSet DEF NotReady
<1>3. /\ mem' \in {Started, NotReady(Started), NotReady(Admitted)}
      /\ PatchFailed(Started) \/ (Spend("faults") /\ api' = Started)
      /\ AttemptsReset \/ UNCHANGED attempts
  BY Zenon DEF StartFails
<1>4. SpentOK /\ ApiOK'
  <2>1. CASE PatchFailed(Started)
    BY <1>1, <2>1, PatchKeeps DEF Sound
  <2>2. CASE Spend("faults") /\ api' = Started
    BY <1>1, <2>2, SpendType DEF Sound, ApiOK
  <2> QED BY <1>3, <2>1, <2>2
<1>5. mem' \in Object /\ Justified(mem') /\ ~IsTrue(mem'.conds, "Stalled")
  <2>1. Sound(mem')
    BY SMTT(30), <1>1, <1>2, <1>3
  <2> QED BY <2>1, SoundIsJustified DEF Sound, Unstalled
<1>6. LocalOK'
  BY <1>1, <1>5 DEF StartFails, LocalOK, Phases, Results
<1>7. HeldOK' /\ StoreOK'
  BY <1>1 DEF StartFails, cluster, HeldOK, StoreOK, LocalOK
<1>8. EnvOK'
  <2>1. attempts' \in [{"install", "upgrade"} -> Nat]
    BY <1>1, <1>3, AttemptsType
  <2> QED BY Zenon, <1>1, <1>4, <2>1 DEF StartFails, EnvOK, SpentOK
<1> QED BY ZenonT(60), <1>4, <1>6, <1>7, <1>8 DEF IInv

\* The steps that leave the running action or the loop.
LEMMA LeftKeeps ==
  ASSUME IInv, Left, SpentOK, ApiOK', StoreOK',
         UNCHANGED <<desired, req, queued, attempts>>
  PROVE  IInv'
<1>1. EnvOK'
  BY Zenon DEF IInv, EnvOK, SpentOK
<1> QED BY <1>1, LeftIsLocalOK DEF IInv

\* A step that leaves the cluster alone keeps the storage one.
LEMMA StoreKept ==
  ASSUME StoreOK, UNCHANGED cluster
  PROVE  StoreOK'
BY DEF StoreOK, cluster

\* Before the end of a reconcile its object is not stalled.
LEMMA RunningSound ==
  ASSUME IInv, pc # "end"
  PROVE  Sound(mem)
BY DEF IInv, LocalOK, Sound, Unstalled

\* What actionForState decides in the loop is sound.
LEMMA ChosenDecides ==
  ASSUME IInv, pc = "loop", State # "Unknown"
  PROVE  /\ Decides(mem, Chosen) /\ Sound(Chosen.obj)
         /\ Chosen.err = "ErrExceededMaxRetries" => OutOfRetries(Chosen.obj)
<1>1. State \in States
  BY DetermineReleaseStateType DEF State
<1>2. mem \in Object /\ req \in Want /\ Sound(mem)
  BY RunningSound DEF IInv, LocalOK, EnvOK
<1>3. Decides(mem, Chosen)
  BY SMTT(30), <1>1, <1>2, ActionForStateDecides DEF Chosen
<1>4. Sound(Chosen.obj)
  BY <1>2, <1>3 DEF Decides, Follows, Sound
<1>5. ASSUME Chosen.err = "ErrExceededMaxRetries" PROVE OutOfRetries(Chosen.obj)
  <2>1. SameCounters(mem, Chosen.obj)
    BY <1>3 DEF Decides, Follows
  <2>2. InstallExhausted(mem.status) \/ UpgradeExhausted(mem.status)
    BY <1>3, <1>5 DEF Decides
  <2> QED BY <2>1, <2>2 DEF SameCounters, OutOfRetries, InstallExhausted, UpgradeExhausted
<1> QED BY <1>3, <1>4, <1>5

\* Announcing an action removes Stalled.
LEMMA AnnouncedSound ==
  ASSUME IInv, HasAction
  PROVE  Sound(Announced)
<1>1. Chosen.obj \in Object /\ req.gen \in Nat
  BY Zenon, ChosenDecides DEF HasAction, Sound, IInv, EnvOK, Want
<1> DEFINE marked == [Chosen.obj EXCEPT !.conds = MarkReconciling(@, "Progressing", req.gen)]
<1>2. /\ "Progressing" \in Reasons /\ "Ready" \in CondTypes \ {"Stalled"}
      /\ "Unknown" \in CondStatuses
  BY Names
<1>3. Sound(marked)
  BY <1>1, <1>2, SoundReconciling
<1> HIDE DEF marked
<1>4. Sound([marked EXCEPT !.conds = Set(@, "Ready", "Unknown", "Progressing", req.gen)])
  BY Zenon, <1>1, <1>2, <1>3, SoundSet
<1> QED BY <1>3, <1>4 DEF Announced, marked

\* actionForState stalls the object for want of retries only when they are
\* used up; no other decision stalls it.
LEMMA DecideKeeps ==
  ASSUME IInv, Decide
  PROVE  IInv'
<1>1. EnvOK /\ ApiOK /\ LocalOK /\ StoreOK /\ HeldOK /\ req \in Want /\ req.gen \in Nat
  BY Zenon DEF IInv, EnvOK, Want
<1>2. /\ "Ready" \in CondTypes \ {"Stalled"} /\ "Reconciling" \in CondTypes \ {"Stalled"}
      /\ {"True", "False", "Unknown"} \subseteq CondStatuses
      /\ {"StateError", "RetriesExceeded", "MissingRollbackTarget",
          "ProgressingWithRetry"} \subseteq Reasons
  BY Names, Zenon
<1>3. LoopFrame => StoreOK' /\ UNCHANGED <<desired, req, queued, attempts>>
  BY <1>1, StoreKept DEF LoopFrame
<1>4. ASSUME NEW o, Sound(o), NEW err, Return(o, err) PROVE Left
  BY SMTT(30), <1>1, <1>4, ReturnLeaves, SoundIsJustified DEF Sound
<1>5. UNCHANGED <<api, spent>> => SpentOK /\ ApiOK'
  BY <1>1, SpendType, ApiKept
<1>6. CASE StateError
  <2>1. Sound([mem EXCEPT !.conds = Set(@, "Ready", "False", "StateError", req.gen)])
    BY Zenon, <1>1, <1>2, <1>6, RunningSound, SoundSet DEF StateError
  <2>2. Left
    BY <1>4, <1>6, <2>1 DEF StateError
  <2>3. SpentOK /\ ApiOK'
    BY SMTT(30), <1>1, <1>6, SpendType, ApiKept DEF StateError
  <2> QED BY SMTT(30), <1>3, <1>6, <2>2, <2>3, LeftKeeps DEF StateError
<1>7. CASE Stall
  <2> DEFINE reason == IF Chosen.err = "ErrExceededMaxRetries"
                       THEN "RetriesExceeded" ELSE "MissingRollbackTarget"
             o == [Chosen.obj EXCEPT !.conds = MarkStalled(@, reason, req.gen)]
  <2>1. /\ Sound(Chosen.obj)
        /\ Chosen.err = "ErrExceededMaxRetries" => OutOfRetries(Chosen.obj)
    BY Zenon, <1>7, ChosenDecides DEF Stall
  <2>2. MarkStalled(Chosen.obj.conds, reason, req.gen) \in Conds
    BY SMTT(30), <1>1, <1>2, <2>1, ObjectUpdate, MarkType DEF Sound
  <2>3. o \in Object /\ o.status = Chosen.obj.status
        /\ o.conds = MarkStalled(Chosen.obj.conds, reason, req.gen)
    BY SMTT(30), <2>1, <2>2, ObjectUpdate DEF Sound, Object
  <2>4. o.conds["Stalled"].reason = reason
    <3>1. "Stalled" \in CondTypes
      BY Names
    <3>2. Delete(Chosen.obj.conds, "Reconciling") \in Conds
      BY SMTT(30), <1>2, <2>1, ObjectUpdate, DeleteType DEF Sound
    <3> QED BY <2>3, <3>1, <3>2 DEF MarkStalled, Set, Conds
  <2>5. Justified(o)
    BY <2>1, <2>3, <2>4 DEF Justified, RetriesExceeded, OutOfRetries
  <2>6. Return(o, Chosen.err)
    BY Zenon, <1>7 DEF Stall
  <2> HIDE DEF o
  <2>7. Left
    BY SMTT(30), <1>1, <2>3, <2>5, <2>6, ReturnLeaves
  <2> QED BY Zenon, <1>3, <1>5, <1>7, <2>7, LeftKeeps DEF Stall
<1>8. CASE NothingToDo
  <2> DEFINE c == summarize(Delete(Chosen.obj.conds, "Reconciling"), req.gen)
             o == [Chosen.obj EXCEPT !.conds = summarize(Delete(@, "Reconciling"), req.gen),
                                     !.status.observedPR = req.pr]
  <2>1. Sound(Chosen.obj)
    BY Zenon, <1>8, ChosenDecides DEF NothingToDo
  <2>2. c \in Conds /\ ~IsTrue(c, "Stalled")
    <3>1. Chosen.obj.conds \in Conds /\ ~IsTrue(Chosen.obj.conds, "Stalled")
      BY <2>1, ObjectUpdate DEF Sound, Unstalled
    <3>2. /\ Delete(Chosen.obj.conds, "Reconciling") \in Conds
          /\ ~IsTrue(Delete(Chosen.obj.conds, "Reconciling"), "Stalled")
      BY SMTT(30), <1>1, <1>2, <3>1, CondsSound
    <3> QED BY <1>1, <3>2, SummarizeType, SummarizeUnstalled
  <2>3. o = [[Chosen.obj EXCEPT !.status.observedPR = req.pr] EXCEPT !.conds = c]
    BY Zenon, <2>1 DEF Sound, Object
  <2>4. [Chosen.obj EXCEPT !.status.observedPR = req.pr] \in Object
    BY Zenon, <1>1, <2>1 DEF Sound, Object, Status, Want
  <2>5. Return(o, "")
    BY Zenon, <1>8 DEF NothingToDo
  <2> HIDE DEF c, o
  <2>6. Sound(o)
    BY Zenon, <2>2, <2>3, <2>4, SoundConds
  <2>7. Left
    BY Zenon, <1>4, <2>5, <2>6
  <2> QED BY Zenon, <1>3, <1>5, <1>8, <2>7, LeftKeeps DEF NothingToDo
<1>9. ASSUME HasAction PROVE Sound(Chosen.obj) /\ Sound(WithRetry(Chosen.obj))
  BY Zenon, <1>1, <1>2, <1>9, ChosenDecides, SoundReconciling DEF HasAction, WithRetry, Sound
<1>10. CASE StopBefore
  <2> DEFINE o == [Chosen.obj EXCEPT !.conds = Delete(@, "Reconciling")]
  <2>1. Sound(o)
    BY Zenon, <1>1, <1>2, <1>9, <1>10, SoundSet DEF StopBefore
  <2>2. \/ \E e : Return(WithRetry(Chosen.obj), e)
        \/ Return(o, "")
    <3> HIDE DEF o
    <3> QED BY <1>10, Zenon DEF StopBefore, o
  <2> HIDE DEF o
  <2>3. Left
    BY Zenon, <1>4, <1>9, <1>10, <2>1, <2>2 DEF StopBefore
  <2> QED BY Zenon, <1>3, <1>5, <1>10, <2>3, LeftKeeps DEF StopBefore
<1>11. CASE HoldRollback
  <2>1. Left
    BY SMTT(30), <1>4, <1>9, <1>11 DEF HoldRollback
  <2> QED BY SMTT(30), <1>3, <1>5, <1>11, <2>1, LeftKeeps DEF HoldRollback
<1>12. CASE Announce
  <2>1. Sound(Announced) /\ Justified(Announced) /\ Announced \in Object
    BY SMTT(30), <1>12, AnnouncedSound, SoundIsJustified DEF Announce, Sound
  <2>2. CASE PatchFailed(Announced) /\ Return(Announced, "PatchError")
    <3>1. SpentOK /\ ApiOK'
      BY SMTT(30), <1>1, <2>1, <2>2, PatchKeeps
    <3>2. Left
      BY SMTT(30), <1>4, <2>1, <2>2
    <3> QED BY SMTT(30), <1>3, <1>12, <3>1, <3>2, LeftKeeps DEF Announce
  <2>3. CASE /\ Patched(Announced)
             /\ mem' = Announced /\ pc' = "run" /\ next' = Chosen.act
             /\ UNCHANGED <<previous, observed, result>>
    <3>1. SpentOK /\ ApiOK'
      BY SMTT(30), <1>1, <2>1, <2>3, PatchKeeps
    <3>2. Chosen.act \in Actions /\ Chosen.act # "none" /\ pc = "loop"
      BY Zenon, <1>12, ChosenDecides DEF Announce, HasAction, Decides, Actions
    <3>3. mem' \in Object /\ Justified(mem') /\ ~IsTrue(mem'.conds, "Stalled")
      BY SMTT(30), <2>1, <2>3 DEF Sound, Unstalled
    <3>4. LocalOK'
      BY SMTT(30), <1>1, <2>3, <3>2, <3>3 DEF LocalOK, Phases
    <3>5. HeldOK'
      BY SMTT(30), <1>1, <2>3, <3>2 DEF HeldOK, LocalOK
    <3>6. StoreOK' /\ EnvOK'
      BY SMTT(30), <1>1, <1>3, <1>12, <3>1 DEF Announce, EnvOK, SpentOK
    <3> QED BY SMTT(30), <3>1, <3>4, <3>5, <3>6 DEF IInv
  <2> QED BY SMTT(30), <1>12, <2>2, <2>3 DEF Announce
<1>13. CASE VerifyError
  <2>1. Left
    BY SMTT(30), <1>4, <1>9, <1>13 DEF VerifyError
  <2>2. SpentOK /\ ApiOK'
    BY SMTT(30), <1>1, <1>13, SpendType, ApiKept DEF VerifyError
  <2> QED BY SMTT(30), <1>3, <1>13, <2>1, <2>2, LeftKeeps DEF VerifyError
<1> QED BY SMTT(30), <1>6, <1>7, <1>8, <1>10, <1>11, <1>12, <1>13 DEF Decide

\* The bound on the revisions of the storage, as a number.
LEMMA StorageBound ==
  ASSUME StoreOK
  PROVE  nextId - 1 \in Nat /\ IsStorage(storage, nextId - 1) /\ nextId \in Nat
BY DEF StoreOK

\* A step that writes statuses only keeps the storage one.
LEMMA StoreRewritten ==
  ASSUME StoreOK, IsStorage(storage', nextId - 1), UNCHANGED nextId,
         drifted' \in BOOLEAN, released' \subseteq Nat
  PROVE  StoreOK'
BY DEF StoreOK

\* Storing a pending revision keeps the invariant: it is new, and an
\* upgrade or rollback leaves one behind.
LEMMA HelmBeginsKeeps ==
  ASSUME IInv, HelmBegins
  PROVE  IInv'
<1>1. /\ EnvOK /\ ApiOK /\ LocalOK /\ StoreOK /\ HeldOK /\ pc = "run"
      /\ req.cfg \in Nat /\ req.pr \in Nat /\ Sound(mem)
  BY Zenon, RunningSound DEF HelmBegins, IInv, EnvOK, Want
<1>2. nextId - 1 \in Nat /\ IsStorage(storage, nextId - 1) /\ nextId \in Nat
  BY <1>1, StorageBound
<1>3. ASSUME NEW cfg \in Nat, NEW pr \in Nat
      PROVE  LET t == CreatePending(storage, nextId, cfg, pr)
             IN /\ IsStorage(t, nextId) /\ DOMAIN t # {}
                /\ DOMAIN storage # {} => DOMAIN Before(t) # {}
  <2>1. (nextId - 1) + 1 = nextId
    BY <1>2
  <2> QED BY Zenon, <1>2, <2>1, PendingCreated
<1>4. /\ IsStorage(storage', nextId) /\ DOMAIN storage' # {}
      /\ next \in {"upgrade", "rollback"} => DOMAIN Before(storage') # {}
      /\ next \in {"install", "upgrade", "rollback"}
      /\ Sound(mem')
  <2>1. CASE next = "install" /\ mem' = Begun(mem, next)
             /\ storage' = CreatePending(storage, nextId, req.cfg, req.pr)
    BY SMTT(30), <1>1, <1>3, <2>1, BegunSound
  <2>2. CASE next = "upgrade" /\ CanUpgrade(storage) /\ mem' = Begun(mem, next)
             /\ storage' = CreatePending(storage, nextId, req.cfg, req.pr)
    BY SMTT(30), <1>1, <1>3, <2>2, BegunSound DEF CanUpgrade
  <2>3. CASE /\ next = "rollback" /\ CanRollback(storage, RollbackTarget.ver)
             /\ LET target == storage[RollbackTarget.ver]
                IN storage' = CreatePending(storage, nextId, target.cfg, target.pr)
             /\ UNCHANGED mem
    <3> DEFINE target == storage[RollbackTarget.ver]
    <3>1. RollbackTarget.ver \in DOMAIN storage
      BY <2>3, Zenon DEF CanRollback
    <3>2. target \in Release
      BY <1>2, <3>1 DEF IsStorage
    <3>3. target.cfg \in Nat /\ target.pr \in Nat
      BY <3>2, Zenon DEF Release
    <3>4. storage' = CreatePending(storage, nextId, target.cfg, target.pr)
      BY <2>3
    <3> HIDE DEF target
    <3> QED BY SMTT(30), <1>1, <1>3, <2>3, <3>1, <3>3, <3>4
  <2> QED BY Zenon, <2>1, <2>2, <2>3 DEF HelmBegins
<1>5. LastVersion(storage') \in DOMAIN storage'
  BY SMTT(30), <1>2, <1>4, LastVersionIsLast
<1>6. /\ observed' = {LastVersion(storage')} /\ nextId' = nextId + 1 /\ pc' = "helm"
      /\ UNCHANGED <<object, req, next, previous, result, queued, drifted, spent, released>>
  BY Zenon DEF HelmBegins
<1>7. StoreOK'
  <2>1. nextId' \in Nat \ {0} /\ nextId' - 1 = nextId
    BY SMTT(30), <1>2, <1>6
  <2> QED BY SMTT(30), <1>1, <1>4, <1>6, <2>1 DEF StoreOK
<1>8. LocalOK'
  <2>1. mem' \in Object /\ Justified(mem') /\ ~IsTrue(mem'.conds, "Stalled")
    BY SMTT(30), <1>4, SoundIsJustified DEF Sound, Unstalled
  <2> QED BY SMTT(30), <1>1, <1>4, <1>6, <2>1 DEF LocalOK, Phases
<1>9. HeldOK'
  BY SMTT(30), <1>4, <1>5, <1>6 DEF HeldOK
<1>10. ApiOK' /\ EnvOK'
  <2>1. attempts' \in [{"install", "upgrade"} -> Nat]
    <3>1. attempts \in [{"install", "upgrade"} -> Nat]
      BY SMTT(30), <1>1 DEF EnvOK
    <3>2. CASE next = "rollback"
      BY <3>1, <3>2 DEF HelmBegins
    <3>3. CASE next \in {"install", "upgrade"}
      <4>1. attempts' = [attempts EXCEPT ![next] = attempts[next] + 1]
        BY <3>3, Zenon DEF HelmBegins
      <4>2. attempts[next] + 1 \in Nat
        BY <3>1, <3>3
      <4> QED BY SMTT(30), <3>1, <3>3, <4>1, <4>2
    <3> QED BY SMTT(30), <1>4, <3>2, <3>3
  <2>2. SpentOK
    BY SMTT(30), <1>1, <1>6, SpendType
  <2> QED BY SMTT(30), <1>1, <1>6, <2>1, <2>2, ApiKept DEF EnvOK, object
<1> QED BY SMTT(30), <1>7, <1>8, <1>9, <1>10 DEF IInv

\* Helm returning hands a sound object back to the loop.
LEMMA ReturnsLeaves ==
  ASSUME IInv, pc # "end", next # "none", NEW err, NEW n \in Nat, NEW s,
         IsStorage(s, n), NEW V \in SUBSET (DOMAIN s), Returns(err, s, V)
  PROVE  Left
<1>1. req \in Want /\ LocalOK /\ Sound(mem)
  BY RunningSound, Zenon DEF IInv, EnvOK
<1> QED BY <1>1, ReleaseDoneLeaves, RollbackDoneLeaves DEF Returns

\* A refusal by Helm is free, a failed write is a fault.
LEMMA RefusedSpends ==
  ASSUME EnvOK, NEW can, RefusedUnless(can)
  PROVE  SpentOK
BY SpendType, Zenon DEF RefusedUnless

\* Every step of install, upgrade and rollback keeps the invariant.
LEMMA HelmKeeps ==
  ASSUME IInv, Helm
  PROVE  IInv'
<1>1. EnvOK /\ ApiOK /\ LocalOK /\ StoreOK /\ HeldOK /\ req \in Want
  BY Zenon DEF IInv, EnvOK
<1>2. nextId - 1 \in Nat /\ IsStorage(storage, nextId - 1)
  BY <1>1, StorageBound, Zenon
<1>3. LoopFrame => StoreOK' /\ UNCHANGED <<desired, req, queued, attempts>>
  BY <1>1, StoreKept, Zenon DEF LoopFrame
<1>4. {} \in SUBSET (DOMAIN storage)
  OBVIOUS
<1>5. CASE HelmBegins
  BY <1>5, HelmBeginsKeeps
<1>6. CASE HelmRefuses
  <2>1. Sound(mem) /\ next # "none" /\ next \in {"install", "upgrade", "rollback"}
    BY <1>1, <1>6, RunningSound DEF HelmRefuses, LocalOK
  <2>2. /\ \E can : RefusedUnless(can)
        /\ \/ /\ next \in {"install", "upgrade"}
              /\ ReleaseDone(Begun(mem, next), "HelmError", storage, {})
           \/ RollbackDone(mem, "HelmError", storage, {})
    BY <1>6, Zenon DEF HelmRefuses
  <2>3. SpentOK /\ ApiOK'
    BY SMTT(30), <1>1, <1>6, <2>2, RefusedSpends, ApiKept DEF HelmRefuses
  <2>4. next \in {"install", "upgrade"} => Sound(Begun(mem, next))
    BY <2>1, BegunSound
  <2>5. Left
    BY SMTT(30), <1>1, <1>2, <1>4, <2>1, <2>2, <2>4, ReleaseDoneLeaves, RollbackDoneLeaves
  <2> QED BY SMTT(30), <1>3, <1>6, <2>3, <2>5, LeftKeeps DEF HelmRefuses
<1>7. CASE HelmSupersedes
  <2> DEFINE old == Before(storage)
             D == CASE next = "install" -> InstalledOver(old)
                    [] next = "upgrade" -> UpgradedFrom(old)
                    [] next = "rollback" -> DeployedVersions(old)
  <2>1. IsStorage(old, nextId - 1) /\ DOMAIN old \subseteq DOMAIN storage
    BY SMTT(30), <1>2, BeforeIsStorage
  <2>2. DOMAIN old # {} => LastVersion(old) \in DOMAIN old
    BY SMTT(30), <1>2, <2>1, LastVersionIsLast
  <2>3. next = "upgrade" => DOMAIN old # {}
    BY <1>1, <1>7, Zenon DEF HeldOK, HelmSupersedes
  <2>4. D \subseteq DOMAIN storage
    <3>1. DeployedVersions(old) \subseteq DOMAIN old
      BY Zenon DEF DeployedVersions
    <3>2. InstalledOver(old) \subseteq DOMAIN old
      BY <2>2, Zenon DEF InstalledOver
    <3>3. next = "upgrade" => UpgradedFrom(old) \subseteq DOMAIN old
      BY SMTT(30), <2>2, <2>3, <3>1 DEF UpgradedFrom
    <3>4. next \in {"install", "upgrade", "rollback"}
      BY <1>7, Zenon DEF HelmSupersedes
    <3> HIDE DEF old
    <3>5. D \subseteq DOMAIN old
      BY SMTT(30), <3>1, <3>2, <3>3, <3>4
    <3> QED BY Zenon, <2>1, <3>5
  <2>5. /\ storage' = Supersede(storage, D) /\ observed' = observed \cup D
        /\ pc' = "deploy" /\ next \in {"install", "upgrade", "rollback"}
        /\ UNCHANGED <<object, req, mem, next, previous, result, queued, drifted,
                       nextId, spent, released, attempts>>
        /\ pc = "helm"
    BY SMTT(30), <1>7 DEF HelmSupersedes
  <2> HIDE DEF D
  <2>6. IsStorage(storage', nextId - 1) /\ DOMAIN storage' = DOMAIN storage
    BY SMTT(30), <1>2, <2>5, StatusesSet DEF Statuses
  <2>7. StoreOK'
    BY SMTT(30), <1>1, <2>5, <2>6, StoreRewritten DEF StoreOK
  <2>8. LocalOK'
    BY Zenon, <1>1, <2>5 DEF LocalOK, Phases, Justified, RetriesExceeded, OutOfRetries
  <2>9. HeldOK'
    BY SMTT(30), <1>1, <2>4, <2>5, <2>6 DEF HeldOK
  <2>10. SpentOK /\ ApiOK' /\ EnvOK'
    <3>1. SpentOK /\ UNCHANGED api
      BY SMTT(30), <1>1, <2>5, SpendType DEF object
    <3> QED BY SMTT(30), <1>1, <2>5, <3>1, ApiKept DEF EnvOK, object
  <2> QED BY SMTT(30), <2>7, <2>8, <2>9, <2>10 DEF IInv
<1>8. CASE HelmDeploys
  <2>1. pc = "deploy" /\ next # "none" /\ DOMAIN storage # {} /\ observed \in SUBSET (DOMAIN storage)
    BY Zenon, <1>1, <1>8 DEF HelmDeploys, LocalOK, HeldOK
  <2>2. Last(storage) \in Release
    BY SMTT(30), <1>2, <2>1, LastVersionIsLast
  <2>3. /\ storage' = SetStatus(storage, LastVersion(storage), "deployed")
        /\ released' = released \cup {Last(storage).id} /\ drifted' = FALSE
        /\ Returns("", storage', observed)
        /\ UNCHANGED <<object, req, queued, nextId, spent, attempts>>
    BY Zenon, <1>8 DEF HelmDeploys
  <2>4. IsStorage(storage', nextId - 1) /\ DOMAIN storage' = DOMAIN storage
    <3>1. "deployed" \in Statuses
      BY Zenon DEF Statuses
    <3>2. /\ IsStorage(SetStatus(storage, LastVersion(storage), "deployed"), nextId - 1)
          /\ DOMAIN SetStatus(storage, LastVersion(storage), "deployed") = DOMAIN storage
      BY SMTT(30), <1>2, <3>1, StatusesSet
    <3> QED BY <2>3, <3>2, Zenon
  <2>5. released' \subseteq Nat
    BY Zenon, <1>1, <2>2, <2>3 DEF StoreOK, Release
  <2>6. StoreOK'
    BY Zenon, <1>1, <2>3, <2>4, <2>5, StoreRewritten
  <2>7. Left
    BY Zenon, <1>2, <2>1, <2>3, <2>4, ReturnsLeaves
  <2>8. SpentOK /\ UNCHANGED api /\ UNCHANGED <<desired, req, queued, attempts>>
    BY Zenon, <1>1, <2>3, SpendType DEF object
  <2> QED BY SMTT(30), <1>1, <2>6, <2>7, <2>8, ApiKept, LeftKeeps
<1>9. CASE HelmFails
  <2>1. pc = "helm" /\ next # "none" /\ observed \in SUBSET (DOMAIN storage) /\ Spend("failures")
    BY ZenonT(60), <1>1, <1>9 DEF HelmFails, LocalOK, HeldOK
  <2>2. PICK D \in {{}} \cup (IF next = "rollback" THEN {{LastVersion(Before(storage))}} ELSE {}) :
          /\ storage' = SetStatus(Supersede(storage, D), LastVersion(storage), "failed")
          /\ Returns("HelmError", storage', observed \cup D)
    BY <1>9, Zenon DEF HelmFails
  <2>3. D \subseteq DOMAIN storage
    <3>1. IsStorage(Before(storage), nextId - 1) /\ DOMAIN Before(storage) \subseteq DOMAIN storage
      BY <1>2, BeforeIsStorage
    <3>2. next = "rollback" => DOMAIN Before(storage) # {}
      BY <1>1, <2>1 DEF HeldOK
    <3>3. next = "rollback" => LastVersion(Before(storage)) \in DOMAIN storage
      BY SMTT(30), <1>2, <3>1, <3>2, LastVersionIsLast
    <3> QED BY <3>3, Zenon
  <2>4. IsStorage(storage', nextId - 1) /\ DOMAIN storage' = DOMAIN storage
    <3>1. IsStorage(Supersede(storage, D), nextId - 1) /\ DOMAIN Supersede(storage, D) = DOMAIN storage
      BY SMTT(30), <1>2, StatusesSet DEF Statuses
    <3> QED BY SMTT(30), <1>2, <2>2, <3>1, StatusesSet DEF Statuses
  <2>5. Left
    <3>1. observed \cup D \in SUBSET (DOMAIN storage')
      BY SMTT(30), <2>1, <2>3, <2>4
    <3> QED BY SMTT(30), <1>2, <2>1, <2>2, <2>4, <3>1, ReturnsLeaves
  <2>6. /\ SpentOK /\ UNCHANGED api /\ UNCHANGED <<desired, req, queued, attempts>>
        /\ UNCHANGED <<drifted, nextId, released>>
    BY ZenonT(60), <1>1, <1>9, <2>1, SpendType DEF HelmFails, object
  <2>7. StoreOK'
    BY <1>1, <2>4, <2>6, StoreRewritten DEF StoreOK
  <2> QED BY SMTT(30), <1>1, <2>5, <2>6, <2>7, ApiKept, LeftKeeps
<1>10. CASE HelmLeavesPending
  <2>1. next # "none" /\ pc # "end" /\ observed \in SUBSET (DOMAIN storage)
    BY Zenon, <1>1, <1>10 DEF HelmLeavesPending, HeldOK
  <2>2. \E err : Returns(err, storage, observed)
    BY Zenon, <1>10 DEF HelmLeavesPending
  <2>3. Left
    BY <1>2, <2>1, <2>2, ReturnsLeaves
  <2>4. SpentOK /\ ApiOK'
    BY Zenon, <1>1, <1>10, SpendType, ApiKept DEF HelmLeavesPending
  <2> QED BY Zenon, <1>3, <1>10, <2>3, <2>4, LeftKeeps DEF HelmLeavesPending
<1> QED BY SMTT(30), <1>5, <1>6, <1>7, <1>8, <1>9, <1>10 DEF Helm
=============================================================================
