------------------------ MODULE AtomicReleaseProofs -------------------------
(* The reconciler keeps its types, and never reports exhausted retries that *)
(* are not, for every configuration and with no bound on what may happen.   *)
EXTENDS AtomicReleaseSteps

\* Every step of UninstallRemediation keeps the invariant.
LEMMA UninstallKeeps ==
  ASSUME IInv, Uninstall
  PROVE  IInv'
<1>1. EnvOK /\ ApiOK /\ LocalOK /\ StoreOK /\ HeldOK /\ req \in Want
  BY Zenon DEF IInv, EnvOK
<1>2. nextId - 1 \in Nat /\ IsStorage(storage, nextId - 1)
  BY <1>1, StorageBound, Zenon
<1>3. LoopFrame => StoreOK' /\ UNCHANGED <<desired, req, queued, attempts>>
  BY <1>1, StoreKept, Zenon DEF LoopFrame
<1>4. Sound(mem) /\ mem.status.history \in History /\ next = "uninstall"
  <2>1. pc \in {"run", "helm"} /\ next = "uninstall"
    BY Zenon DEF Uninstall, UninstallBegins, UninstallRefused, UninstallEnds, UninstallFails
  <2> QED BY <2>1, RunningSound, ObjectUpdate DEF Sound
<1>5. {"uninstalling", "uninstalled"} \subseteq Statuses
  BY Zenon DEF Statuses
<1>6. ASSUME NEW h \in History, NEW err, UninstallDone(h, err) PROVE Left
  BY <1>1, <1>4, <1>6, UninstallDoneLeaves
<1>7. CASE UninstallBegins
  <2>1. DOMAIN storage # {} /\ LastVersion(storage) \in DOMAIN storage
    BY <1>2, <1>7, LastVersionIsLast DEF UninstallBegins, CanUninstall
  <2>2. /\ storage' = SetStatus(storage, LastVersion(storage), "uninstalling")
        /\ observed' = {LastVersion(storage)} /\ pc' = "helm" /\ pc = "run"
        /\ UNCHANGED <<object, req, mem, next, previous, result, queued, drifted,
                       nextId, spent, released, attempts>>
    BY <1>7, Zenon DEF UninstallBegins
  <2>3. IsStorage(storage', nextId - 1) /\ DOMAIN storage' = DOMAIN storage
    BY SMTT(30), <1>2, <1>5, <2>2, StatusesSet
  <2>4. StoreOK'
    BY SMTT(30), <1>1, <2>2, <2>3, StoreRewritten DEF StoreOK
  <2>5. LocalOK'
    BY SMTT(30), <1>1, <1>4, <2>2 DEF LocalOK, Phases, Justified, RetriesExceeded, OutOfRetries
  <2>6. HeldOK'
    BY SMTT(30), <1>4, <2>1, <2>2, <2>3 DEF HeldOK
  <2>7. SpentOK /\ UNCHANGED api
    BY SMTT(30), <1>1, <2>2, SpendType DEF object
  <2>8. ApiOK' /\ EnvOK'
    BY SMTT(30), <1>1, <2>2, <2>7, ApiKept DEF EnvOK, object
  <2> QED BY SMTT(30), <2>4, <2>5, <2>6, <2>8 DEF IInv
<1>8. CASE UninstallRefused
  <2>1. Left
    BY <1>4, <1>6, <1>8 DEF UninstallRefused
  <2>2. SpentOK /\ ApiOK'
    BY SMTT(30), <1>1, <1>8, RefusedSpends, ApiKept DEF UninstallRefused
  <2> QED BY SMTT(30), <1>3, <1>8, <2>1, <2>2, LeftKeeps DEF UninstallRefused
<1>9. ASSUME NEW s, IsStorage(s, nextId - 1), NEW v \in DOMAIN s, NEW h \in History
      PROVE  Observe(h, v, s[v]) \in History
  <2>1. v \in Nat /\ s[v] \in Release
    BY <1>2, <1>9 DEF IsStorage
  <2> QED BY <2>1, ObserveType, Zenon
<1>10. DOMAIN storage # {} => LastVersion(storage) \in DOMAIN storage
  BY <1>2, LastVersionIsLast, Zenon
<1>11. CASE UninstallEnds
  <2> DEFINE last == LastVersion(storage)
             s == IF KeepHistory THEN storage' ELSE storage
             rest == DeployedVersions(storage) \ {last}
             h1 == Observe(mem.status.history, last, s[last])
             h == IF rest = {} THEN h1
                  ELSE Observe(h1, GreatestOf(rest), s[GreatestOf(rest)])
  <2>1. /\ storage' = Uninstalled(storage, KeepHistory) /\ UninstallDone(h, "")
        /\ drifted' = FALSE /\ pc = "helm"
        /\ UNCHANGED <<object, req, queued, nextId, spent, released, attempts>>
    BY Zenon, <1>11 DEF UninstallEnds
  <2>2. DOMAIN storage # {} /\ last \in DOMAIN storage
    BY Zenon, <1>1, <1>10, <2>1 DEF LocalOK, HeldOK
  <2>3. /\ IsStorage(storage', nextId - 1)
        /\ KeepHistory => DOMAIN storage' = DOMAIN storage
    <3>1. IsStorage(EmptyStorage, nextId - 1)
      BY Zenon DEF EmptyStorage, IsStorage
    <3> DEFINE t == SetStatus(storage, last, "uninstalled")
    <3>2. IsStorage(t, nextId - 1) /\ DOMAIN t = DOMAIN storage
      BY <1>2, <1>5, StatusesSet
    <3> HIDE DEF t
    <3>3. IsStorage(Supersede(t, rest), nextId - 1) /\ DOMAIN Supersede(t, rest) = DOMAIN t
      BY SMTT(30), <1>2, <1>5, <3>2, StatusesSet
    <3> QED BY Zenon, <2>1, <3>1, <3>2, <3>3 DEF Uninstalled, t
  <2>4. IsStorage(s, nextId - 1) /\ DOMAIN s = DOMAIN storage
    BY <1>2, <2>3, Zenon
  <2> HIDE DEF s
  <2>5. h1 \in History
    BY <1>4, <1>9, <2>2, <2>4
  <2> HIDE DEF h1
  <2>6. rest # {} => GreatestOf(rest) \in DOMAIN s
    <3>1. rest \subseteq DOMAIN s /\ rest \in SUBSET (0..(nextId - 1))
      BY <1>2, <2>4 DEF DeployedVersions, IsStorage
    <3> HIDE DEF rest
    <3> QED BY Zenon, <1>2, <3>1, GreatestOfIsGreatest
  <2> HIDE DEF rest
  <2>7. h \in History
    BY <1>9, <2>4, <2>5, <2>6, Zenon
  <2> HIDE DEF h
  <2>8. Left
    BY Zenon, <1>6, <2>1, <2>7
  <2>9. StoreOK'
    BY Zenon, <1>1, <2>1, <2>3, StoreRewritten DEF StoreOK
  <2>10. SpentOK /\ UNCHANGED api /\ UNCHANGED <<desired, req, queued, attempts>>
    BY Zenon, <1>1, <2>1, SpendType DEF object
  <2> QED BY SMTT(30), <1>1, <2>8, <2>9, <2>10, ApiKept, LeftKeeps
<1>12. CASE UninstallFails
  <2>1. LastVersion(storage) \in DOMAIN storage
    BY <1>1, <1>10, <1>12 DEF LocalOK, HeldOK, UninstallFails
  <2>2. Observe(mem.status.history, LastVersion(storage), Last(storage)) \in History
    BY SMTT(30), <1>2, <1>4, <1>9, <2>1 DEF Last
  <2>3. Left
    BY <1>6, <1>12, <2>2 DEF UninstallFails
  <2>4. SpentOK /\ ApiOK'
    BY <1>1, <1>12, SpendType, ApiKept DEF UninstallFails
  <2> QED BY SMTT(30), <1>3, <1>12, <2>3, <2>4, LeftKeeps DEF UninstallFails
<1> QED BY <1>7, <1>8, <1>11, <1>12 DEF Uninstall

\* Test, unlock and the correction of drift.
LEMMA RunKeeps ==
  ASSUME IInv, RunTest \/ RunUnlock \/ RunCorrectClusterDrift
  PROVE  IInv'
<1>1. /\ EnvOK /\ ApiOK /\ LocalOK /\ StoreOK /\ HeldOK /\ req \in Want
      /\ req.gen \in Nat
  BY Zenon DEF IInv, EnvOK, Want
<1>2. nextId - 1 \in Nat /\ IsStorage(storage, nextId - 1)
  BY <1>1, StorageBound, Zenon
<1>3. Sound(mem) /\ next # "none"
  <2>1. pc = "run"
    BY Zenon DEF RunTest, RunUnlock, RunCorrectClusterDrift
  <2> QED BY <1>1, <2>1, RunningSound DEF LocalOK
<1>4. ASSUME NEW o, Sound(o), NEW err, AfterAction(o, err) PROVE Left
  BY <1>1, <1>3, <1>4, AfterActionLeaves
<1>5. CASE RunTest
  <2>1. {"passed", "failed", "untested"} \subseteq TestPhases
    BY Zenon DEF TestPhases
  <2>2. \E phase \in TestPhases : \E err : TestDone(phase, err)
    BY Zenon, <1>5, <2>1 DEF RunTest
  <2>3. Left
    BY SMTT(30), <1>1, <1>3, <2>2, TestDoneLeaves
  <2>4. UNCHANGED spent \/ Spend("failures") \/ Spend("faults")
    BY Zenon, <1>5 DEF RunTest
  <2>5. SpentOK /\ ApiOK'
    BY Zenon, <1>1, <1>5, <2>4, SpendType, ApiKept DEF RunTest
  <2>6. StoreOK' /\ UNCHANGED <<desired, req, queued, attempts>>
    BY Zenon, <1>1, <1>5, StoreKept DEF RunTest, LoopFrame
  <2> QED BY <2>3, <2>5, <2>6, LeftKeeps
<1>6. CASE RunUnlock
  <2> DEFINE locked == DOMAIN storage # {} /\ isLockedStatus(Last(storage).status)
             last == LastVersion(storage)
             pending == [mem EXCEPT !.conds = Set(@, "Released", "False", "PendingRelease", req.gen)]
             observing == [pending EXCEPT !.status.history =
                             observeUnlock(@, last, storage'[last])]
  <2>1. Sound(pending)
    <3>1. /\ "Released" \in CondTypes \ {"Stalled"} /\ "False" \in CondStatuses
          /\ "PendingRelease" \in Reasons
      BY Names, Zenon
    <3> QED BY Zenon, <1>1, <1>3, <3>1, SoundSet
  <2> HIDE DEF pending
  <2>2. \/ AfterAction(Summarized(mem), "") /\ UNCHANGED <<storage, spent>>
        \/ /\ locked /\ storage' = Unlocked(storage, last)
           /\ AfterAction(Summarized(observing), "") /\ UNCHANGED spent
        \/ AfterAction(Summarized(mem), "HelmError") /\ Spend("faults") /\ UNCHANGED storage
        \/ AfterAction(Summarized(pending), "HelmError") /\ Spend("faults") /\ UNCHANGED storage
    BY Zenon, <1>6 DEF RunUnlock, pending
  <2>3. UNCHANGED <<object, req, queued, drifted, nextId, released, attempts>>
    BY Zenon, <1>6 DEF RunUnlock
  <2>4. IsStorage(Unlocked(storage, last), nextId - 1)
        /\ DOMAIN Unlocked(storage, last) = DOMAIN storage
    BY <1>2, StatusesSet DEF Unlocked, Statuses
  <2>5. ASSUME locked, storage' = Unlocked(storage, last) PROVE Sound(observing)
    <3>1. last \in Nat /\ last \in DOMAIN storage'
      BY SMTT(30), <1>2, <2>4, <2>5, LastVersionIsLast
    <3>2. storage'[last] \in Release
      BY SMTT(30), <2>4, <2>5, <3>1 DEF IsStorage
    <3>3. pending.status.history \in History
      BY <2>1, ObjectUpdate, Zenon DEF Sound
    <3>4. observeUnlock(pending.status.history, last, storage'[last]) \in History
      BY SMTT(30), <3>1, <3>2, <3>3, ObserveType
    <3> QED BY SMTT(30), <2>1, <3>4, SoundHistory
  <2> HIDE DEF observing, locked
  <2>6. Left
    BY Zenon, <1>1, <1>3, <1>4, <2>1, <2>2, <2>5, SummarizedSound
  <2>7. StoreOK'
    <3>1. IsStorage(storage', nextId - 1)
      BY Zenon, <1>2, <2>2, <2>4
    <3> QED BY SMTT(30), <1>1, <2>3, <3>1, StoreRewritten DEF StoreOK
  <2>8. SpentOK /\ UNCHANGED api
    BY Zenon, <1>1, <2>2, <2>3, SpendType DEF object
  <2> QED BY SMTT(30), <1>1, <2>3, <2>6, <2>7, <2>8, ApiKept, LeftKeeps DEF object
<1>7. CASE RunCorrectClusterDrift
  <2> DEFINE o == [mem EXCEPT !.conds = Set(@, "Ready", "Unknown", "Progressing", req.gen)]
  <2>1. Sound(o)
    <3>1. /\ "Ready" \in CondTypes \ {"Stalled"} /\ "Unknown" \in CondStatuses
          /\ "Progressing" \in Reasons
      BY Names, Zenon
    <3> QED BY Zenon, <1>1, <1>3, <3>1, SoundSet
  <2>2. AfterAction(o, "")
    BY Zenon, <1>7 DEF RunCorrectClusterDrift
  <2> HIDE DEF o
  <2>3. Left
    BY Zenon, <1>4, <2>1, <2>2
  <2>4. /\ UNCHANGED <<object, req, queued, storage, nextId, released, attempts>>
        /\ drifted' \in BOOLEAN /\ (UNCHANGED spent \/ Spend("failures"))
    BY Zenon, <1>1, <1>7 DEF RunCorrectClusterDrift, StoreOK
  <2>5. StoreOK'
    BY <1>1, <2>4 DEF StoreOK
  <2>6. SpentOK /\ UNCHANGED api
    BY SMTT(30), <1>1, <2>4, SpendType DEF object
  <2> QED BY SMTT(30), <1>1, <2>3, <2>4, <2>5, <2>6, ApiKept, LeftKeeps DEF object
<1> QED BY <1>5, <1>6, <1>7

\* The patch between two actions keeps the invariant.
LEMMA PatchProgressKeeps ==
  ASSUME IInv, PatchProgress
  PROVE  IInv'
<1>1. /\ EnvOK /\ ApiOK /\ LocalOK /\ StoreOK /\ HeldOK /\ req \in Want
      /\ pc = "post" /\ Sound(mem) /\ Justified(mem) /\ mem \in Object
  BY SMTT(30), RunningSound, SoundIsJustified DEF PatchProgress, IInv, EnvOK, Sound
<1>2. StoreOK' /\ UNCHANGED <<desired, req, queued, attempts>>
  BY <1>1, StoreKept DEF PatchProgress, LoopFrame
<1>3. CASE /\ Patched(mem) /\ pc' = "loop"
           /\ UNCHANGED <<mem, next, previous, observed, result>>
  <2>1. SpentOK /\ ApiOK'
    BY SMTT(30), <1>1, <1>3, PatchKeeps
  <2>2. LocalOK'
    BY SMTT(30), <1>1, <1>3
       DEF LocalOK, Phases, Justified, RetriesExceeded, OutOfRetries, Sound, Unstalled
  <2>3. HeldOK' /\ EnvOK'
    BY SMTT(30), <1>1, <1>2, <1>3, <2>1 DEF HeldOK, LocalOK, EnvOK, SpentOK
  <2> QED BY SMTT(30), <1>2, <2>1, <2>2, <2>3 DEF IInv
<1>4. CASE PatchFailed(mem) /\ Return(mem, "PatchError")
  <2>1. SpentOK /\ ApiOK'
    BY SMTT(30), <1>1, <1>4, PatchKeeps
  <2>2. Left
    BY SMTT(30), <1>1, <1>4, ReturnLeaves
  <2> QED BY SMTT(30), <1>2, <2>1, <2>2, LeftKeeps
<1> QED BY SMTT(30), <1>3, <1>4 DEF PatchProgress

\* The deferred patch leaves the counters and Stalled as the loop left them.
LEMMA FinalJustified ==
  ASSUME IInv
  PROVE  Final \in Object /\ Justified(Final)
<1>1. mem \in Object /\ Justified(mem) /\ req.requestedAt \in Nat /\ req.gen \in Nat
  BY Zenon DEF IInv, LocalOK, EnvOK, Want
<1> DEFINE st == [mem.status EXCEPT !.handledReconcileAt = req.requestedAt]
           su == [st EXCEPT !.observedGeneration = req.gen]
<1>2. /\ st \in Status
      /\ st.installFailures = mem.status.installFailures
      /\ st.upgradeFailures = mem.status.upgradeFailures
  BY Zenon, <1>1 DEF Object, Status
<1> HIDE DEF st
<1>3. /\ su \in Status
      /\ su.installFailures = mem.status.installFailures
      /\ su.upgradeFailures = mem.status.upgradeFailures
  BY Zenon, <1>1, <1>2 DEF Status
<1> HIDE DEF su
<1>4. Final = [mem EXCEPT !.status = IF result \in {"terminal", "interval", "retryAfter"}
                                     THEN su ELSE st]
  BY Zenon DEF Final, st, su
<1>5. ASSUME NEW x \in {st, su}
      PROVE  [mem EXCEPT !.status = x] \in Object /\ Justified([mem EXCEPT !.status = x])
  <2>1. [mem EXCEPT !.status = x] \in Object
    BY SMTT(30), <1>1, <1>2, <1>3, ObjectUpdate
  <2>2. /\ [mem EXCEPT !.status = x].conds = mem.conds
        /\ [mem EXCEPT !.status = x].status = x
    BY <1>1, Zenon DEF Object
  <2>3. /\ x.installFailures = mem.status.installFailures
        /\ x.upgradeFailures = mem.status.upgradeFailures
    BY <1>2, <1>3
  <2> QED
    BY SMTT(30), <1>1, <2>1, <2>2, <2>3
       DEF Justified, RetriesExceeded, OutOfRetries, InstallExhausted, UpgradeExhausted
<1> QED BY SMTT(30), <1>4, <1>5

\* The reconcile ends, is canceled, or dies with the process.
LEMMA EndKeeps ==
  ASSUME IInv, EndReconcile \/ Canceled \/ Crash
  PROVE  IInv'
<1>1. EnvOK /\ ApiOK /\ LocalOK /\ StoreOK
  BY Zenon DEF IInv
<1>2. /\ Forget /\ UNCHANGED <<desired, cluster, attempts>> /\ queued' \in BOOLEAN
  BY Zenon, <1>1 DEF EndReconcile, Canceled, Crash, object, EnvOK
<1>3. SpentOK /\ ApiOK'
  <2>1. CASE EndReconcile
    BY SMTT(30), <1>1, <2>1, FinalJustified, PatchKeeps DEF EndReconcile
  <2>2. CASE Canceled
    <3>1. SpentOK /\ spent'["faults"] # 0 /\ api' = mem
      BY <1>1, <2>2, SpendType DEF Canceled
    <3> QED BY <1>1, <3>1, Zenon DEF ApiOK, LocalOK
  <2>3. CASE Crash
    BY SMTT(30), <1>1, <2>3, SpendType, ApiKept DEF Crash, object
  <2> QED BY <2>1, <2>2, <2>3
<1> QED BY SMTT(30), <1>1, <1>2, <1>3, ForgetKeeps, StoreKept DEF IInv

\* The spec, the source and the requests change, and others use the cluster.
LEMMA EnvironmentKeeps ==
  ASSUME IInv, Environment
  PROVE  IInv'
<1>1. EnvOK /\ ApiOK /\ LocalOK /\ StoreOK /\ HeldOK
  BY Zenon DEF IInv
<1>2. nextId - 1 \in Nat /\ IsStorage(storage, nextId - 1) /\ nextId \in Nat
  BY <1>1, StorageBound, Zenon
<1>3. Configs \subseteq Nat /\ Renderings \subseteq Nat
  BY AtomicReleaseAssumption, Zenon
<1>4. CASE ChangeSpec \/ ChangeSource \/ Request
  <2>1. /\ EnvFrame /\ queued' = TRUE
        /\ \E what \in {"changes", "requests"} : Spend(what)
    BY Zenon, <1>4 DEF ChangeSpec, ChangeSource, Request
  <2>2. UNCHANGED <<api, req, mem, pc, next, previous, observed, result, storage, drifted,
                    nextId, released, attempts>>
    BY <2>1, Zenon DEF EnvFrame, reconcile, cluster
  <2>3. SpentOK
    BY <1>1, <2>1, SpendType
  <2>4. ApiOK'
    BY <1>1, <2>2, <2>3, ApiKept
  <2>5. desired' \in Want
    <3>1. desired \in Want /\ spent \in [DOMAIN Bounds -> Nat]
      BY <1>1, Zenon DEF EnvOK
    <3>2. CASE ChangeSpec
      <4>1. PICK c \in Configs, p \in Renderings :
              desired' = [desired EXCEPT !.gen = @ + 1, !.cfg = c, !.pr = p]
        BY Zenon, <3>2 DEF ChangeSpec
      <4>2. desired.gen + 1 \in Nat /\ c \in Nat /\ p \in Nat
        BY <1>3, <3>1 DEF Want
      <4> QED BY Zenon, <3>1, <4>1, <4>2 DEF Want
    <3>3. CASE ChangeSource
      BY <1>3, <3>1, <3>3, Zenon DEF ChangeSource, Want
    <3>4. CASE Request
      <4>1. spent.requests + 1 \in Nat
        <5>1. "requests" \in DOMAIN Bounds
          BY Zenon DEF Bounds
        <5>2. spent["requests"] \in Nat
          BY SMTT(30), <3>1, <5>1
        <5> QED BY <5>2
      <4> QED BY Zenon, <3>1, <3>4, <4>1 DEF Request, Want
    <3> QED BY SMTT(30), <1>4, <3>2, <3>3, <3>4
  <2>6. LocalOK' /\ StoreOK' /\ HeldOK'
    BY <1>1, <2>2 DEF LocalOK, StoreOK, HeldOK, Justified, RetriesExceeded, OutOfRetries
  <2>7. EnvOK'
    BY SMTT(30), <1>1, <2>1, <2>2, <2>3, <2>5 DEF EnvOK, SpentOK
  <2> QED BY SMTT(30), <2>4, <2>6, <2>7 DEF IInv
<1>5. ASSUME Others, StoreOK' PROVE IInv'
  <2>1. /\ pc \notin {"helm", "deploy"} /\ Spend("external")
        /\ UNCHANGED <<desired, api, req, mem, pc, next, previous, observed, result,
                       queued, attempts>>
    BY <1>5, Zenon DEF Others, object, reconcile
  <2>2. SpentOK
    BY SMTT(30), <1>1, <2>1, SpendType
  <2>3. ApiOK'
    BY SMTT(30), <1>1, <2>1, <2>2, ApiKept
  <2>4. LocalOK' /\ HeldOK'
    BY <1>1, <2>1 DEF LocalOK, HeldOK, Justified, RetriesExceeded, OutOfRetries
  <2>5. EnvOK'
    BY SMTT(30), <1>1, <2>1, <2>2 DEF EnvOK, SpentOK
  <2> QED BY SMTT(30), <1>5, <2>3, <2>4, <2>5 DEF IInv
<1>6. ASSUME IsStorage(storage', nextId), nextId' = nextId + 1,
             drifted' \in BOOLEAN, released' \subseteq Nat
      PROVE  StoreOK'
  <2>1. nextId' \in Nat \ {0} /\ nextId' - 1 = nextId
    BY SMTT(30), <1>2, <1>6
  <2> QED BY <1>6, <2>1 DEF StoreOK
<1>7. ASSUME NEW c \in Nat PROVE IsStorage(CreatePending(storage, nextId, c, 0), nextId)
  <2>1. (nextId - 1) + 1 = nextId /\ 0 \in Nat
    BY <1>2
  <2> QED BY SMTT(30), <1>2, <2>1, PendingCreated
<1>8. {"deployed", "uninstalling", "uninstalled"} \subseteq Statuses
  BY Zenon DEF Statuses
<1>9. CASE ExternalRelease
  <2>1. PICK c \in Configs :
          LET s == CreatePending(storage, nextId, c, 0)
          IN storage' = SetStatus(Supersede(s, UpgradedFrom(storage)), LastVersion(s), "deployed")
    BY <1>9, Zenon DEF ExternalRelease
  <2> DEFINE s == CreatePending(storage, nextId, c, 0)
             t == Supersede(s, UpgradedFrom(storage))
  <2>2. storage' = SetStatus(t, LastVersion(s), "deployed")
    BY <2>1, Zenon
  <2>3. IsStorage(s, nextId)
    BY SMTT(30), <1>3, <1>7
  <2> HIDE DEF s
  <2>4. IsStorage(t, nextId)
    BY SMTT(30), <1>2, <1>8, <2>3, StatusesSet
  <2> HIDE DEF t
  <2>5. IsStorage(SetStatus(t, LastVersion(s), "deployed"), nextId)
    BY SMTT(30), <1>2, <1>8, <2>4, StatusesSet
  <2>6. nextId' = nextId + 1 /\ drifted' \in BOOLEAN /\ released' \subseteq Nat
    BY Zenon, <1>1, <1>2, <1>9 DEF ExternalRelease, StoreOK
  <2>7. StoreOK'
    BY SMTT(30), <1>6, <2>2, <2>5, <2>6
  <2> QED BY SMTT(30), <1>5, <1>9, <2>7 DEF ExternalRelease
<1>10. CASE ExternalInterrupted
  <2>1. UNCHANGED <<drifted, released>> /\ drifted \in BOOLEAN /\ released \subseteq Nat
    BY SMTT(30), <1>1, <1>10 DEF ExternalInterrupted, StoreOK
  <2>2. ASSUME storage' = CreatePending(storage, nextId, 1, 0), nextId' = nextId + 1
        PROVE  StoreOK'
    BY SMTT(30), <1>6, <1>7, <2>1, <2>2
  <2>3. ASSUME storage' = SetStatus(storage, LastVersion(storage), "uninstalling"),
               UNCHANGED nextId
        PROVE  StoreOK'
    <3>1. IsStorage(SetStatus(storage, LastVersion(storage), "uninstalling"), nextId - 1)
      BY SMTT(30), <1>2, <1>8, StatusesSet
    <3> QED BY SMTT(30), <1>1, <2>1, <2>3, <3>1, StoreRewritten
  <2> QED BY SMTT(30), <1>5, <1>10, <2>2, <2>3 DEF ExternalInterrupted
<1>11. CASE ExternalUninstall
  <2>1. PICK keep \in BOOLEAN : storage' = Uninstalled(storage, keep)
    BY <1>11, Zenon DEF ExternalUninstall
  <2> DEFINE t == SetStatus(storage, LastVersion(storage), "uninstalled")
             rest == DeployedVersions(storage) \ {LastVersion(storage)}
  <2>2. IsStorage(EmptyStorage, nextId - 1)
    BY Zenon DEF EmptyStorage, IsStorage
  <2>3. IsStorage(t, nextId - 1)
    BY SMTT(30), <1>2, <1>8, StatusesSet
  <2> HIDE DEF t
  <2>4. IsStorage(Supersede(t, rest), nextId - 1)
    BY SMTT(30), <1>2, <1>8, <2>3, StatusesSet
  <2>5. IsStorage(storage', nextId - 1)
    BY SMTT(30), <2>1, <2>2, <2>4 DEF Uninstalled, t
  <2>6. StoreOK'
    BY Zenon, <1>1, <1>11, <2>5, StoreRewritten DEF ExternalUninstall, StoreOK
  <2> QED BY SMTT(30), <1>5, <1>11, <2>6 DEF ExternalUninstall
<1>12. CASE ExternalDelete
  <2>1. IsStorage(storage', nextId - 1)
    BY <1>2, <1>12 DEF ExternalDelete, IsStorage
  <2>2. StoreOK'
    BY SMTT(30), <1>1, <1>12, <2>1, StoreRewritten DEF ExternalDelete, StoreOK
  <2> QED BY SMTT(30), <1>5, <1>12, <2>2 DEF ExternalDelete
<1>13. CASE Drift
  <2>1. StoreOK'
    BY <1>1, <1>13, Zenon DEF Drift, StoreOK
  <2> QED BY SMTT(30), <1>5, <1>13, <2>1 DEF Drift
<1> QED BY SMTT(30), <1>4, <1>9, <1>10, <1>11, <1>12, <1>13 DEF Environment

(* ------------------------------- theorems ------------------------------- *)

\* A new HelmRelease and an empty storage satisfy the invariant.
LEMMA InitIInv == Init => IInv
<1> SUFFICES ASSUME Init PROVE IInv
  OBVIOUS
<1>1. api \in Object /\ mem \in Object /\ Sound(api) /\ Sound(mem)
  BY NewObjectSound, Zenon DEF Init, Sound
<1>2. desired \in Want /\ req \in Want
  <2>1. Configs \subseteq Nat /\ Renderings \subseteq Nat
    BY AtomicReleaseAssumption, Zenon
  <2>2. desired \in Want
    <3>1. desired \in [gen : {1}, cfg : Configs, pr : Renderings, requestedAt : {0},
                       forceAt : {0}, resetAt : {0}]
      BY Zenon DEF Init
    <3>2. 1 \in Nat /\ 0 \in Nat
      OBVIOUS
    <3> QED BY Zenon, <2>1, <3>1, <3>2 DEF Want
  <2>3. req \in Want
    BY Zenon DEF Init, NoRequest, Want
  <2> QED BY <2>2, <2>3
<1>3. spent \in [DOMAIN Bounds -> Nat] /\ attempts \in [{"install", "upgrade"} -> Nat]
  BY Zenon DEF Init
<1>4. EnvOK
  BY SMTT(30), <1>2, <1>3 DEF Init, EnvOK
<1>5. ApiOK /\ LocalOK
  BY <1>1, SoundIsJustified DEF Init, ApiOK, LocalOK, Sound, Unstalled, Phases, Results
<1>6. StoreOK /\ HeldOK
  <2>1. nextId = 1 /\ nextId - 1 = 0
    BY DEF Init
  <2>2. DOMAIN storage = {} /\ storage \in [DOMAIN storage -> Release]
    BY Zenon DEF Init, EmptyStorage
  <2>3. pc = "idle" /\ observed = {} /\ drifted = FALSE /\ released = {}
    BY Zenon DEF Init
  <2>4. StoreOK
    <3>1. IsStorage(storage, nextId - 1)
      BY <2>2, Zenon DEF IsStorage
    <3>2. nextId \in Nat \ {0}
      BY <2>1
    <3>3. drifted \in BOOLEAN /\ released \subseteq Nat
      BY Zenon, <2>3
    <3> QED BY <3>1, <3>2, <3>3 DEF StoreOK
  <2> QED BY SMTT(30), <2>3, <2>4 DEF HeldOK
<1> QED BY <1>4, <1>5, <1>6 DEF IInv

\* Every step keeps the invariant.
LEMMA NextIInv == IInv /\ [Next]_vars => IInv'
<1> SUFFICES ASSUME IInv, [Next]_vars PROVE IInv'
  OBVIOUS
<1>1. CASE Controller
  BY SMTT(30), <1>1, StartReconcileKeeps, StartFailsKeeps, DecideKeeps, HelmKeeps, UninstallKeeps,
     RunKeeps, PatchProgressKeeps, EndKeeps DEF Controller
<1>2. CASE Crash \/ Canceled
  BY <1>2, EndKeeps
<1>3. CASE Environment
  BY <1>3, EnvironmentKeeps
<1>4. CASE UNCHANGED vars
  <2>1. UNCHANGED <<desired, api, req, mem, pc, next, previous, observed, result, queued,
                    storage, drifted, nextId, spent, released, attempts>>
    BY <1>4, Zenon DEF vars, object, reconcile, cluster
  <2>2. EnvOK'
    BY <2>1, Zenon DEF IInv, EnvOK
  <2>3. ApiOK'
    BY ZenonT(60), <2>1 DEF IInv, ApiOK, Justified, RetriesExceeded, OutOfRetries
  <2>4. LocalOK'
    BY <2>1, Zenon DEF IInv, LocalOK, Justified, RetriesExceeded, OutOfRetries
  <2>5. StoreOK'
    BY <2>1, Zenon DEF IInv, StoreOK
  <2>6. HeldOK'
    BY <2>1, Zenon DEF IInv, HeldOK
  <2> QED BY SMTT(30), <2>2, <2>3, <2>4, <2>5, <2>6 DEF IInv
<1> QED BY <1>1, <1>2, <1>3, <1>4 DEF Next

\* Every reachable state of the reconciler is well typed, whatever the
\* configuration, the failures, the requests and what others do with Helm;
\* in particular Helm actions always find the revisions they observed.
THEOREM TypeCorrect == Spec => []TypeOK
BY InitIInv, NextIInv, IInvIsBoth, PTL DEF Spec

\* The reconciler marks its object as Stalled with RetriesExceeded only while
\* a failure counter of that object is past the configured limit, whatever
\* else happens; and as long as no API call was lost and no reconcile was cut
\* short, the same holds of the object in the API server.
THEOREM StalledIsJustified == Spec => []StalledMeansExhausted
BY InitIInv, NextIInv, IInvIsBoth, PTL DEF Spec

(* ------------------------ changes are not missed ------------------------ *)

\* actionForState leaves the last attempt as it is.
LEMMA ChosenKeeps == IInv => ChoiceKeeps
BY ChosenDecides, ObjectFields, Zenon DEF ChoiceKeeps, Decides, Follows, SameCounters, Keeps, Attempt

\* Every step keeps it.
LEMMA AimedStays == IInv /\ Aimed /\ [Next]_vars => Aimed'
<1> SUFFICES ASSUME IInv, Aimed, [Next]_vars PROVE Aimed'
  OBVIOUS
<1>1. ChoiceKeeps /\ Counted /\ api \in Object /\ mem \in Object
  BY ChosenKeeps, Zenon DEF IInv, EnvOK, ApiOK, LocalOK, Counted
<1>2. CASE Next
  BY <1>1, <1>2, WorkAims, StartAims, EndAims, EnvironmentAims, Zenon DEF Next, Controller
<1>3. CASE UNCHANGED vars
  BY <1>3 DEF Aimed, Busy, Attempt, Wanted, vars, object, reconcile
<1> QED BY <1>2, <1>3

\* A new object is queued.
LEMMA AimedInitially == Init => Aimed
BY DEF Init, Aimed, Busy

\* A change of the specification or of the source is never lost: unless an
\* API call was lost or a reconcile cut short, once nothing is queued or
\* running the last attempt in the API server is for the generation and the
\* chart and values that are wanted, however a reconcile ended and whatever
\* others did with Helm.
THEOREM NoChangeIsMissed == Spec => []NoChangeMissed
<1>1. Aimed => NoChangeMissed
  BY DEF Aimed, NoChangeMissed, Attempt, Wanted
<1> QED BY <1>1, InitIInv, NextIInv, AimedInitially, AimedStays, PTL DEF Spec
=============================================================================
