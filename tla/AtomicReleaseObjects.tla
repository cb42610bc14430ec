------------------------ MODULE AtomicReleaseObjects ------------------------
(* What the sort, the truncation and the observers of a history return, for *)
(* histories of any length; that what the conditions, the observers of the  *)
(* storage and actionForState return has its type, for every configuration; *)
(* the inductive invariant of the reconciler; and what the action           *)
(* reconcilers make of the object: it keeps its type, and only the loop     *)
(* itself marks it as stalled.                                              *)
EXTENDS AtomicRelease, FiniteSetTheorems, WellFoundedInduction, TLAPS

(* --------------------- what keeps the last attempt ----------------------- *)

\* Objects and statuses have the fields the reconciler reads.
IsObject(o) == o = [status |-> o.status, conds |-> o.conds]
IsStatus(st) == /\ st = [f \in DOMAIN st |-> st[f]]
                /\ {"lastGeneration", "lastConfig"} \subseteq DOMAIN st
\* The last attempt a status records.
Attempt(st) == <<st.lastGeneration, st.lastConfig>>
Wanted(w) == <<w.gen, w.cfg>>

\* q is a status like st, with the same last attempt.
Keeps(st, q) == IsStatus(q) /\ Attempt(q) = Attempt(st)

\* Every object of its type is one.
LEMMA ObjectFields ==
  ASSUME NEW o \in Object
  PROVE  IsObject(o) /\ IsStatus(o.status)
<1>1. IsObject(o)
  BY DEF IsObject, Object
<1>2. o.status \in Status
  BY Zenon DEF Object
<1>3. IsStatus(o.status)
  BY <1>2 DEF IsStatus, Status
<1> QED BY <1>1, <1>3

\* The attempt kept twice is kept.
LEMMA KeepsTrans ==
  ASSUME NEW a, NEW b, NEW c, Keeps(a, b), Keeps(b, c)
  PROVE  Keeps(a, c)
BY Zenon DEF Keeps

\* Other fields of the status do not matter.
LEMMA KeepsFields ==
  ASSUME NEW st, IsStatus(st), NEW x
  PROVE  /\ Keeps(st, st)
         /\ Keeps(st, [st EXCEPT !.history = x])
         /\ Keeps(st, [st EXCEPT !.observedPR = x])
         /\ Keeps(st, [st EXCEPT !.lastAction = x])
         /\ Keeps(st, [st EXCEPT !.handledForceAt = x])
         /\ Keeps(st, [st EXCEPT !.handledReconcileAt = x])
         /\ Keeps(st, [st EXCEPT !.observedGeneration = x])
         /\ Keeps(st, [st EXCEPT !.installFailures = x])
         /\ Keeps(st, [st EXCEPT !.upgradeFailures = x])
BY DEF Keeps, IsStatus, Attempt

\* Conditions are apart from the status,
LEMMA CondsOnly ==
  ASSUME NEW o, IsObject(o), NEW c
  PROVE  IsObject([o EXCEPT !.conds = c]) /\ [o EXCEPT !.conds = c].status = o.status
BY DEF IsObject

\* and the history is one of its fields.
LEMMA HistoryOnly ==
  ASSUME NEW o, IsObject(o), IsStatus(o.status), NEW h
  PROVE  /\ IsObject([o EXCEPT !.status.history = h])
         /\ [o EXCEPT !.status.history = h].status = [o.status EXCEPT !.history = h]
BY DEF IsObject

\* An object put together from its parts has them.
LEMMA MadeFields ==
  ASSUME NEW st, NEW c
  PROVE  IsObject([status |-> st, conds |-> c]) /\ [status |-> st, conds |-> c].status = st
BY DEF IsObject

\* What is written when there is nothing to do.
LEMMA SettledFields ==
  ASSUME NEW o \in Object, NEW c, NEW x
  PROVE  /\ IsObject([o EXCEPT !.conds = c, !.status.observedPR = x])
         /\ Keeps(o.status, [o EXCEPT !.conds = c, !.status.observedPR = x].status)
<1> DEFINE p == [o EXCEPT !.status.observedPR = x]
<1>1. [o EXCEPT !.conds = c, !.status.observedPR = x] = [p EXCEPT !.conds = c]
  BY Zenon DEF Object
<1>2. IsObject(p) /\ p.status = [o.status EXCEPT !.observedPR = x]
  BY ObjectFields DEF IsObject
<1>3. Keeps(o.status, [o.status EXCEPT !.observedPR = x])
  BY ObjectFields, KeepsFields
<1> HIDE DEF p
<1> QED BY <1>1, <1>2, <1>3, CondsOnly

\* Counting and clearing failures.
LEMMA KeepsCounters ==
  ASSUME NEW st, IsStatus(st)
  PROVE  Keeps(st, IncrementFailureCount(st)) /\ Keeps(st, ClearFailures(st))
BY DEF Keeps, IsStatus, Attempt, IncrementFailureCount, ClearFailures

\* Returning changes conditions only,
LEMMA ReturnKeeps ==
  ASSUME NEW o, IsObject(o), NEW err, Return(o, err)
  PROVE  mem'.status = o.status
BY CondsOnly, Zenon DEF Return

\* and so does what the loop does after an action.
LEMMA AfterActionKeeps ==
  ASSUME NEW o, IsObject(o), NEW err, AfterAction(o, err)
  PROVE  mem'.status = o.status
<1>1. /\ IsObject(WithRetry(o)) /\ WithRetry(o).status = o.status
  BY CondsOnly, Zenon DEF WithRetry
<1>2. ASSUME NEW c, NEW e, Return([o EXCEPT !.conds = c], e)
      PROVE  mem'.status = o.status
  BY <1>2, CondsOnly, ReturnKeeps, Zenon
<1> DEFINE notReady == [o EXCEPT !.conds = Set(@, "Ready", "False", "ReconcileError", req.gen)]
           stalled == [o EXCEPT !.conds = MarkStalled(@, "RetriesExceeded", req.gen)]
<1>3. \/ \E e : Return(WithRetry(o), e) \/ Return(o, e)
      \/ \E e : Return(notReady, e) \/ Return(stalled, e)
      \/ mem' = o
  <2> HIDE DEF notReady, stalled
  <2> QED BY Zenon DEF AfterAction, notReady, stalled
<1> QED BY <1>1, <1>2, <1>3, ReturnKeeps, Zenon

\* An action does not end the reconcile at once.
LEMMA AfterActionGoesOn ==
  ASSUME NEW o, NEW err, AfterAction(o, err)
  PROVE  pc' # "idle"
<1>1. \/ \E p, e : Return(p, e)
      \/ pc' = "post"
  BY Zenon DEF AfterAction
<1> QED BY <1>1 DEF Return

\* The object an action reconciler leaves after an install or upgrade,
LEMMA ReleaseDoneKeeps ==
  ASSUME NEW o, IsObject(o), IsStatus(o.status), NEW err, NEW s, NEW V,
         ReleaseDone(o, err, s, V)
  PROVE  Keeps(o.status, mem'.status)
<1> DEFINE obs == [v \in V |-> s[v]]
           h == recordOnObject(o.status.history, obs)
           failed == [o.status EXCEPT !.history = h]
           done == [failed EXCEPT !.observedPR = req.pr]
           p == IF err = "" THEN ReleaseSucceeded(o, next, obs)
                            ELSE ReleaseFailed(o, next, obs)
<1>0. Keeps(o.status, failed)
  BY KeepsFields, Zenon
<1>1. Keeps(o.status, failed) /\ Keeps(o.status, done)
  <2> HIDE DEF failed
  <2>1. Keeps(failed, done)
    BY <1>0, KeepsFields, Zenon DEF Keeps
  <2> QED BY <1>0, <2>1, KeepsTrans, Zenon
<1>2. /\ Keeps(o.status, IncrementFailureCount(failed))
      /\ Keeps(o.status, ClearFailures(done))
  BY <1>1, KeepsCounters, KeepsTrans, Zenon DEF Keeps
<1>3. IsObject(ReleaseFailed(o, next, obs)) /\ Keeps(o.status, ReleaseFailed(o, next, obs).status)
  BY <1>1, <1>2, MadeFields, Zenon DEF ReleaseFailed
<1>4. IsObject(ReleaseSucceeded(o, next, obs)) /\ Keeps(o.status, ReleaseSucceeded(o, next, obs).status)
  BY <1>1, <1>2, MadeFields, Zenon DEF ReleaseSucceeded
<1>5. IsObject(Summarized(p)) /\ Keeps(o.status, Summarized(p).status)
  BY <1>3, <1>4, CondsOnly, Zenon DEF Summarized
<1>6. \E e : AfterAction(Summarized(p), e)
  BY Zenon DEF ReleaseDone
<1> HIDE DEF p
<1> QED BY <1>5, <1>6, AfterActionKeeps, Zenon

\* after a rollback or an uninstall,
LEMMA HistoryKeeps ==
  ASSUME NEW o, IsObject(o), IsStatus(o.status), NEW h, NEW c, NEW e,
         LET p == [status |-> [o.status EXCEPT !.history = h], conds |-> c]
         IN AfterAction(p, e) \/ AfterAction(Summarized(p), e)
  PROVE  Keeps(o.status, mem'.status)
<1> DEFINE p == [status |-> [o.status EXCEPT !.history = h], conds |-> c]
<1>1. IsObject(p) /\ Keeps(o.status, p.status)
  BY KeepsFields, MadeFields, Zenon
<1>2. IsObject(Summarized(p)) /\ Keeps(o.status, Summarized(p).status)
  BY <1>1, CondsOnly, Zenon DEF Summarized
<1> QED BY <1>1, <1>2, AfterActionKeeps, Zenon

\* and after a test has the last attempt it had.
LEMMA TestDoneKeeps ==
  ASSUME IsObject(mem), IsStatus(mem.status), NEW phase, NEW err0,
         TestDone(phase, err0)
  PROVE  Keeps(mem.status, mem'.status)
<1> DEFINE h == mem.status.history
           last == LastVersion(storage)
           h1 == IF phase = "untested" \/ DOMAIN storage = {} THEN h
                 ELSE observeTest(h, last, storage[last], phase)
           o == [mem EXCEPT !.status.history = h1]
           err == IF DOMAIN storage # {} /\ Latest(h).ver # last
                  THEN "ErrReleaseMismatch" ELSE err0
           done == IF err = "" THEN TestSucceeded(o) ELSE TestFailed(o)
<1> HIDE DEF h1
<1>1. IsObject(o) /\ Keeps(mem.status, o.status)
  <2>1. IsObject(o) /\ o.status = [mem.status EXCEPT !.history = h1]
    BY HistoryOnly
  <2>2. Keeps(mem.status, [mem.status EXCEPT !.history = h1])
    BY KeepsFields, Zenon
  <2> QED BY <2>1, <2>2, Zenon
<1> HIDE DEF o
<1>2. Keeps(mem.status, IncrementFailureCount(o.status))
  BY <1>1, KeepsCounters, KeepsTrans, Zenon DEF Keeps
<1>3. IsObject(TestSucceeded(o)) /\ Keeps(mem.status, TestSucceeded(o).status)
  BY <1>1, CondsOnly, Zenon DEF TestSucceeded
<1>4. IsObject(TestFailed(o)) /\ Keeps(mem.status, TestFailed(o).status)
  BY <1>1, <1>2, MadeFields, Zenon DEF TestFailed
<1>5. IsObject(done) /\ Keeps(mem.status, done.status)
  BY <1>3, <1>4, Zenon
<1>6. \E e : AfterAction(Summarized(done), e)
  BY Zenon DEF TestDone, o, h1
<1> HIDE DEF done
<1>7. IsObject(Summarized(done)) /\ Keeps(mem.status, Summarized(done).status)
  BY <1>5, CondsOnly, Zenon DEF Summarized
<1> QED BY <1>6, <1>7, AfterActionKeeps, Zenon

\* actionForState leaves the last attempt as it is.
ChoiceKeeps ==
  pc = "loop" /\ State # "Unknown" =>
    /\ Chosen.obj \in Object /\ IsObject(Chosen.obj)
    /\ Keeps(mem.status, Chosen.obj.status)
Counted == spent \in [DOMAIN Bounds -> Nat]

\* Each step of the loop that decides,
LEMMA DecideRecords ==
  ASSUME ChoiceKeeps, mem \in Object, Decide
  PROVE  /\ Keeps(mem.status, mem'.status)
         /\ pc # "idle" /\ pc' # "idle" /\ UNCHANGED <<desired, req, queued>>
         /\ UNCHANGED spent \/ Spend("faults")
<1>1. IsObject(mem) /\ Keeps(mem.status, mem.status)
  BY ObjectFields, KeepsFields, Zenon
<1>11. pc = "loop"
  BY Zenon DEF Decide, StateError, Stall, NothingToDo, VerifyError, StopBefore,
     HoldRollback, Announce, HasAction
<1>3. ASSUME State # "Unknown"
      PROVE  /\ Chosen.obj \in Object /\ IsObject(Chosen.obj)
             /\ Keeps(mem.status, Chosen.obj.status)
  BY <1>11, <1>3, Zenon DEF ChoiceKeeps
<1>2. ASSUME NEW o, IsObject(o), Keeps(mem.status, o.status), NEW c, NEW e,
             Return([o EXCEPT !.conds = c], e)
      PROVE  Keeps(mem.status, mem'.status)
  BY <1>2, CondsOnly, ReturnKeeps, Zenon
<1>4. CASE StateError
  BY <1>1, <1>2, <1>4, Zenon DEF StateError, LoopFrame, Return
<1>5. CASE Stall
  BY <1>2, <1>5, <1>3, Zenon DEF Stall, LoopFrame, Return
<1>6. CASE NothingToDo
  <2>1. PICK c : Return([Chosen.obj EXCEPT !.conds = c, !.status.observedPR = req.pr], "")
    BY <1>6, Zenon DEF NothingToDo
  <2> DEFINE p == [Chosen.obj EXCEPT !.conds = c, !.status.observedPR = req.pr]
  <2>2. Chosen.obj \in Object /\ Keeps(mem.status, Chosen.obj.status)
    BY <1>6, <1>3, Zenon DEF NothingToDo
  <2>3. IsObject(p) /\ Keeps(Chosen.obj.status, p.status)
    BY <2>2, SettledFields
  <2>4. mem'.status = p.status
    BY <2>1, <2>3, ReturnKeeps, Zenon
  <2> HIDE DEF p
  <2>5. Keeps(mem.status, p.status)
    BY <2>2, <2>3, KeepsTrans, Zenon
  <2> QED BY <1>6, <2>4, <2>5, Zenon DEF NothingToDo, LoopFrame, Return
<1>7. CASE VerifyError
  BY <1>7, <1>3, ReturnKeeps, Zenon DEF VerifyError, HasAction, LoopFrame, Return
<1>8. CASE StopBefore
  <2>1. State # "Unknown" /\ \E c, e : Return([Chosen.obj EXCEPT !.conds = c], e)
    BY <1>8, Zenon DEF StopBefore, HasAction, WithRetry
  <2> QED BY <1>2, <1>8, <2>1, <1>3, Zenon DEF StopBefore, HasAction, LoopFrame, Return
<1>9. CASE HoldRollback
  BY <1>2, <1>9, <1>3, Zenon DEF HoldRollback, HasAction, LoopFrame, Return, WithRetry
<1>10. CASE Announce
  <2>1. State # "Unknown" /\ pc = "loop"
    BY <1>10, Zenon DEF Announce, HasAction
  <2>2. IsObject(Announced) /\ Keeps(mem.status, Announced.status)
    <3> DEFINE o == [Chosen.obj EXCEPT !.conds = MarkReconciling(@, "Progressing", req.gen)]
               p == [o EXCEPT !.conds = Set(@, "Ready", "Unknown", "Progressing", req.gen)]
    <3>1. IsObject(o) /\ Keeps(mem.status, o.status)
      BY <2>1, <1>3, CondsOnly, Zenon
    <3>2. Announced \in {o, p}
      BY Zenon DEF Announced
    <3> HIDE DEF o
    <3>3. IsObject(p) /\ p.status = o.status
      BY <3>1, CondsOnly, Zenon
    <3> QED BY <3>1, <3>2, <3>3, Zenon
  <2>3. \/ mem' = Announced /\ pc' = "run" /\ UNCHANGED spent
        \/ Spend("faults") /\ Return(Announced, "PatchError")
    BY <1>10, Zenon DEF Announce, Patched, PatchFailed
  <2> QED BY <1>10, <2>1, <2>2, <2>3, ReturnKeeps, Zenon DEF Announce, LoopFrame, Return
<1> QED BY <1>4, <1>5, <1>6, <1>7, <1>8, <1>9, <1>10, Zenon DEF Decide

\* Each write of Helm, and its return.
LEMMA HelmRecords ==
  ASSUME mem \in Object, Helm
  PROVE  /\ Keeps(mem.status, mem'.status)
         /\ pc # "idle" /\ pc' # "idle" /\ UNCHANGED <<desired, req, queued>>
         /\ UNCHANGED spent \/ Spend("faults") \/ Spend("failures")
<1>1. IsObject(mem) /\ IsStatus(mem.status) /\ Keeps(mem.status, mem.status)
  BY ObjectFields, KeepsFields, Zenon
<1>2. ASSUME NEW o, NEW e, AfterAction(o, e)
      PROVE  pc' # "idle"
  BY <1>2, AfterActionGoesOn
<1>3. IsObject(Begun(mem, next)) /\ Keeps(mem.status, Begun(mem, next).status)
  <2> DEFINE noted == [mem.status EXCEPT !.lastAction = next]
             h == IF next = "install" THEN <<>> ELSE mem.status.history
  <2>1. Keeps(mem.status, noted)
    BY <1>1, KeepsFields
  <2>2. Keeps(noted, [noted EXCEPT !.history = h])
    BY <2>1, KeepsFields DEF Keeps
  <2>3. Begun(mem, next).status = [noted EXCEPT !.history = h] /\ IsObject(Begun(mem, next))
    BY DEF Begun, IsObject, IsStatus
  <2> HIDE DEF noted, h
  <2> QED BY <2>1, <2>2, <2>3, KeepsTrans, Zenon
<1>4. ASSUME NEW err, NEW s, NEW V,
             \/ RollbackDone(mem, err, s, V) \/ ReleaseDone(mem, err, s, V)
             \/ ReleaseDone(Begun(mem, next), err, s, V)
      PROVE  Keeps(mem.status, mem'.status) /\ pc' # "idle"
  <2>1. CASE RollbackDone(mem, err, s, V)
    <3>1. \E h, c, e : AfterAction(Summarized([status |-> [mem.status EXCEPT !.history = h],
                                                conds |-> c]), e)
      BY <2>1, Zenon DEF RollbackDone
    <3> QED BY <1>1, <1>2, <3>1, HistoryKeeps, Zenon
  <2>2. ASSUME NEW o, ReleaseDone(o, err, s, V), IsObject(o), Keeps(mem.status, o.status)
        PROVE  Keeps(mem.status, mem'.status) /\ pc' # "idle"
    <3>1. pc' # "idle"
      BY <1>2, <2>2, Zenon DEF ReleaseDone
    <3>2. Keeps(o.status, mem'.status)
      BY <2>2, ReleaseDoneKeeps, Zenon DEF Keeps
    <3> QED BY <2>2, <3>1, <3>2, KeepsTrans, Zenon
  <2> QED BY <1>1, <1>3, <1>4, <2>1, <2>2, Zenon
<1>5. CASE HelmBegins
  BY <1>1, <1>3, <1>5 DEF HelmBegins, object
<1>6. CASE HelmRefuses
  BY <1>4, <1>6 DEF HelmRefuses, RefusedUnless, LoopFrame
<1>7. CASE HelmSupersedes
  BY <1>1, <1>7 DEF HelmSupersedes, object
<1>8. CASE HelmDeploys
  BY <1>4, <1>8 DEF HelmDeploys, Returns, object
<1>9. CASE HelmFails
  BY <1>4, <1>9 DEF HelmFails, Returns, object
<1>10. CASE HelmLeavesPending
  BY <1>4, <1>10 DEF HelmLeavesPending, Returns, LoopFrame
<1> QED BY <1>5, <1>6, <1>7, <1>8, <1>9, <1>10, Zenon DEF Helm

\* The other action reconcilers, and the patch between two actions.
LEMMA OthersRecord ==
  ASSUME mem \in Object,
         Uninstall \/ RunTest \/ RunUnlock \/ RunCorrectClusterDrift \/ PatchProgress
  PROVE  /\ Keeps(mem.status, mem'.status)
         /\ pc # "idle" /\ pc' # "idle" /\ UNCHANGED <<desired, req, queued>>
         /\ UNCHANGED spent \/ Spend("faults") \/ Spend("failures")
<1>1. IsObject(mem) /\ IsStatus(mem.status) /\ Keeps(mem.status, mem.status)
  BY ObjectFields, KeepsFields, Zenon
<1>2. ASSUME NEW h, NEW e, UninstallDone(h, e)
      PROVE  Keeps(mem.status, mem'.status) /\ pc' # "idle"
  <2>1. \E c, x : AfterAction([status |-> [mem.status EXCEPT !.history = h], conds |-> c], x)
    BY <1>2, Zenon DEF UninstallDone
  <2> QED BY <1>1, <2>1, HistoryKeeps, AfterActionGoesOn, Zenon
<1>3. CASE UninstallBegins
  BY <1>1, <1>3 DEF UninstallBegins, object
<1>4. CASE UninstallRefused
  BY <1>2, <1>4 DEF UninstallRefused, RefusedUnless, LoopFrame
<1>5. CASE UninstallEnds
  <2>1. \E h : UninstallDone(h, "")
    BY <1>5, Zenon DEF UninstallEnds
  <2> QED BY <1>2, <1>5, <2>1 DEF UninstallEnds, object
<1>6. CASE UninstallFails
  BY <1>2, <1>6 DEF UninstallFails, LoopFrame
<1>7. CASE RunTest
  <2>1. \E phase, e : TestDone(phase, e)
    BY <1>7, Zenon DEF RunTest
  <2>2. pc' # "idle"
    BY <2>1, AfterActionGoesOn, Zenon DEF TestDone
  <2>3. Keeps(mem.status, mem'.status)
    BY <1>1, <2>1, TestDoneKeeps, Zenon
  <2> QED BY <1>7, <2>2, <2>3, Zenon DEF RunTest, LoopFrame
<1>8. CASE RunUnlock
  <2> DEFINE pending == [mem EXCEPT !.conds = Set(@, "Released", "False", "PendingRelease", req.gen)]
  <2>1. IsObject(pending) /\ pending.status = mem.status
    BY <1>1, CondsOnly, Zenon
  <2> HIDE DEF pending
  <2>2. \E o, e : /\ AfterAction(Summarized(o), e)
                  /\ \/ o = mem \/ o = pending
                     \/ \E h : o = [pending EXCEPT !.status.history = h]
    BY <1>8, Zenon DEF RunUnlock, pending
  <2>3. ASSUME NEW h
        PROVE  /\ IsObject([pending EXCEPT !.status.history = h])
               /\ Keeps(mem.status, [pending EXCEPT !.status.history = h].status)
    <3>1. Keeps(mem.status, [mem.status EXCEPT !.history = h])
      BY <1>1, KeepsFields, Zenon
    <3> QED BY <1>1, <2>1, <3>1, HistoryOnly
  <2>4. PICK o, e : AfterAction(Summarized(o), e) /\ IsObject(o) /\ Keeps(mem.status, o.status)
    BY <1>1, <2>1, <2>2, <2>3
  <2>5. IsObject(Summarized(o)) /\ Summarized(o).status = o.status
    BY <2>4, CondsOnly, Zenon DEF Summarized
  <2>6. Keeps(mem.status, mem'.status) /\ pc' # "idle"
    BY <2>4, <2>5, AfterActionKeeps, AfterActionGoesOn, Zenon
  <2> QED BY <1>8, <2>6, Zenon DEF RunUnlock, object
<1>9. CASE RunCorrectClusterDrift
  <2>1. PICK c : AfterAction([mem EXCEPT !.conds = c], "")
    BY <1>9, Zenon DEF RunCorrectClusterDrift
  <2>2. Keeps(mem.status, mem'.status) /\ pc' # "idle"
    BY <1>1, <2>1, CondsOnly, AfterActionKeeps, AfterActionGoesOn, Zenon
  <2> QED BY <1>9, <2>2, Zenon DEF RunCorrectClusterDrift, object
<1>10. CASE PatchProgress
  <2>1. \/ UNCHANGED <<mem, spent>> /\ pc' = "loop"
        \/ Spend("faults") /\ Return(mem, "PatchError")
    BY <1>10, Zenon DEF PatchProgress, Patched, PatchFailed
  <2> QED BY <1>1, <1>10, <2>1, ReturnKeeps, Zenon DEF PatchProgress, LoopFrame, Return
<1> QED BY <1>3, <1>4, <1>5, <1>6, <1>7, <1>8, <1>9, <1>10, Zenon DEF Uninstall

\* The last attempt recorded by a reconcile is for what it started from; that
\* is what is wanted now unless the object is queued again; and without both
\* the one in the API server is for what is wanted now.
Aimed ==
  /\ pc # "idle" /\ spent.faults = 0 => Attempt(mem.status) = Wanted(req)
  /\ pc # "idle" /\ ~queued => Wanted(req) = Wanted(desired)
  /\ ~Busy /\ spent.faults = 0 => Attempt(api.status) = Wanted(desired)

\* Faults are not forgotten.
LEMMA FaultsStay ==
  ASSUME Counted, UNCHANGED spent \/ \E w \in DOMAIN Bounds : Spend(w)
  PROVE  spent.faults' = 0 => spent.faults = 0
BY DEF Counted, Spend, Bounds

\* A fault is counted.
LEMMA FaultCounts ==
  ASSUME Counted, Spend("faults")
  PROVE  spent.faults' # 0
BY DEF Counted, Spend, Bounds

\* A reconcile at work changes neither side.
LEMMA WorkAims ==
  ASSUME ChoiceKeeps, Aimed, Counted, mem \in Object,
         \/ Decide \/ Helm \/ Uninstall \/ RunTest \/ RunUnlock
         \/ RunCorrectClusterDrift \/ PatchProgress
  PROVE  Aimed'
<1>1. /\ Keeps(mem.status, mem'.status)
      /\ pc # "idle" /\ pc' # "idle" /\ UNCHANGED <<desired, req, queued>>
      /\ UNCHANGED spent \/ Spend("faults") \/ Spend("failures")
  BY DecideRecords, HelmRecords, OthersRecord, Zenon
<1>2. spent.faults' = 0 => spent.faults = 0
  BY <1>1, FaultsStay, Zenon DEF Bounds
<1> QED BY <1>1, <1>2, Zenon DEF Aimed, Keeps, Busy, Wanted, Attempt

\* A reconcile starts from what is wanted now, and records it.
LEMMA StartAims ==
  ASSUME Aimed, Counted, api \in Object, StartReconcile \/ StartFails
  PROVE  Aimed'
<1>1. CASE StartReconcile
  <2>1. IsObject(api) /\ IsStatus(api.status)
    BY ObjectFields
  <2>2. Started.status = api.status
    BY <2>1, CondsOnly, Zenon DEF Started
  <2>3. Attempt(Prepared(api.status, desired)) = Wanted(desired)
    <3>1. IsStatus(ClearFailures(api.status))
      BY <2>1, KeepsCounters, Zenon DEF Keeps
    <3> DEFINE kept == IF MustResetFailures(api.status, desired)
                       THEN ClearFailures(api.status) ELSE api.status
    <3>3. IsStatus(kept)
      BY <2>1, <3>1, Zenon
    <3>4. Prepared(api.status, desired)
            = [kept EXCEPT !.handledResetAt = desired.resetAt,
                           !.lastGeneration = desired.gen, !.lastConfig = desired.cfg]
      BY Zenon DEF Prepared
    <3> HIDE DEF kept
    <3> QED BY <3>3, <3>4 DEF IsStatus, Attempt, Wanted
  <2>4. Attempt(Admitted.status) = Wanted(desired)
    BY <2>2, <2>3, MadeFields, Zenon DEF Admitted
  <2>5. mem' = Admitted /\ req' = desired /\ desired' = desired /\ pc' = "loop"
    BY <1>1, Zenon DEF StartReconcile
  <2> QED BY <2>4, <2>5, Zenon DEF Aimed, Busy, Attempt, Wanted
<1>2. CASE StartFails
  <2>1. Spend("faults") /\ req' = desired /\ desired' = desired /\ pc' = "end"
    BY <1>2, Zenon DEF StartFails, PatchFailed
  <2>2. spent.faults' # 0
    BY <2>1, FaultCounts
  <2> QED BY <2>1, <2>2, Zenon DEF Aimed, Busy, Wanted
<1> QED BY <1>1, <1>2

\* It ends with a patch of what it recorded, unless that fails.
LEMMA EndAims ==
  ASSUME Aimed, Counted, mem \in Object, EndReconcile \/ Crash \/ Canceled
  PROVE  Aimed'
<1>1. pc' = "idle"
  BY Zenon DEF EndReconcile, Crash, Canceled, Forget
<1>2. CASE Spend("faults")
  <2>1. spent.faults' # 0
    BY <1>2, FaultCounts
  <2> QED BY <1>1, <2>1, Zenon DEF Aimed, Busy
<1>3. CASE EndReconcile /\ Patched(Final)
  <2>1. /\ pc = "end" /\ api' = Final /\ UNCHANGED <<spent, desired>>
        /\ ~queued' => ~queued
    BY <1>3, Zenon DEF EndReconcile, Patched
  <2> DEFINE st == [mem.status EXCEPT !.handledReconcileAt = req.requestedAt]
             q == [st EXCEPT !.observedGeneration = req.gen]
  <2>2. IsObject(mem) /\ Keeps(mem.status, st)
    BY ObjectFields, KeepsFields, Zenon
  <2>3. Final = [mem EXCEPT !.status = IF result \in {"terminal", "interval", "retryAfter"}
                                       THEN q ELSE st]
    BY Zenon DEF Final
  <2> HIDE DEF st
  <2>4. Keeps(st, q)
    BY <2>2, KeepsFields, Zenon DEF Keeps
  <2> HIDE DEF q
  <2>5. Final.status \in {st, q}
    BY <2>2, <2>3 DEF IsObject
  <2>6. Attempt(Final.status) = Attempt(mem.status)
    BY <2>2, <2>4, <2>5, Zenon DEF Keeps
  <2> QED BY <1>1, <2>1, <2>6, Zenon DEF Aimed, Busy, Attempt, Wanted
<1> QED BY <1>2, <1>3, Zenon DEF EndReconcile, PatchFailed, Crash, Canceled

\* A change queues the object; others do not change it.
LEMMA EnvironmentAims ==
  ASSUME Aimed, Counted, Environment
  PROVE  Aimed'
<1>1. /\ UNCHANGED <<api, req, mem, pc>>
      /\ ~queued' => UNCHANGED <<desired, queued>>
      /\ \E w \in DOMAIN Bounds : Spend(w)
  BY Zenon DEF Environment, ChangeSpec, ChangeSource, Request, EnvFrame, reconcile,
     ExternalRelease, ExternalInterrupted, ExternalUninstall, ExternalDelete, Drift,
     Others, object, Bounds
<1>2. spent.faults' = 0 => spent.faults = 0
  BY <1>1, FaultsStay, Zenon
<1> QED BY <1>1, <1>2 DEF Aimed, Busy, Attempt, Wanted

(* ------------------------ least and greatest ---------------------------- *)

\* LeastOf picks the smallest number of a set.
LEMMA LeastOfIsLeast ==
  ASSUME NEW S \in SUBSET Nat, S # {}
  PROVE  LeastOf(S) \in S /\ \A j \in S : LeastOf(S) <= j
<1> DEFINE R == OpToRel(<, Nat)
<1>1. R = {ss \in Nat \X Nat : ss[1] < ss[2]}
  BY Zenon DEF OpToRel
<1>2. IsWellFoundedOn(R, Nat)
  BY Zenon, NatLessThanWellFounded
<1> HIDE DEF R
<1>3. \E x \in S : \A y \in S : ~ (<<y, x>> \in R)
  BY Zenon, <1>2, WFMin
<1>4. PICK x \in S : \A y \in S : ~ (<<y, x>> \in R)
  BY <1>3, Zenon
<1>5. ASSUME NEW y \in S PROVE x <= y
  <2>1. x \in Nat /\ y \in Nat /\ <<y, x>> \in Nat \X Nat
    OBVIOUS
  <2>2. ~(y < x)
    BY <1>1, <1>4, <2>1, Zenon
  <2> QED BY <2>1, <2>2
<1> QED
  BY Zenon, <1>5 DEF LeastOf

\* GreatestOf picks the largest number of a bounded set.
LEMMA GreatestOfIsGreatest ==
  ASSUME NEW n \in Nat, NEW S \in SUBSET (0..n), S # {}
  PROVE  GreatestOf(S) \in S /\ \A j \in S : j <= GreatestOf(S)
<1> DEFINE T == {n - x : x \in S}
<1>1. T \in SUBSET Nat /\ T # {}
  <2>1. \A x \in S : x \in 0..n /\ n - x \in Nat
    OBVIOUS
  <2>2. PICK x \in S : TRUE
    BY Zenon
  <2>3. n - x \in T
    BY <2>2, Zenon
  <2> QED BY <2>1, <2>3, Zenon
<1>2. LeastOf(T) \in T /\ \A j \in T : LeastOf(T) <= j
  BY Zenon, <1>1, LeastOfIsLeast
<1>3. PICK x \in S : LeastOf(T) = n - x
  BY Zenon, <1>2
<1>4. \A y \in S : y <= x
  BY <1>2, <1>3
<1> QED
  BY Zenon, <1>4 DEF GreatestOf

(* ------------------------------- sorting -------------------------------- *)

\* Snapshots may be any set of records that have a version.
Versioned(S) == \A s \in S : s.ver \in Nat

\* Positions have distinct ranks within the history.
LEMMA RankInjective ==
  ASSUME NEW S, Versioned(S), NEW h \in Seq(S),
         NEW i \in DOMAIN h, NEW j \in DOMAIN h, Precedes(h, i, j)
  PROVE  Rank(h, i) < Rank(h, j)
<1> DEFINE A(k) == {x \in DOMAIN h : Precedes(h, x, k)}
<1>1. IsFiniteSet(DOMAIN h)
  BY FS_Interval
<1>2. ASSUME NEW k \in DOMAIN h PROVE h[k].ver \in Nat /\ k \in Nat
  BY DEF Versioned
<1>3. A(i) \subseteq A(j) /\ i \in A(j) /\ i \notin A(i)
  BY <1>2 DEF Precedes
<1>4. IsFiniteSet(A(i)) /\ IsFiniteSet(A(j))
  <2>1. A(i) \in SUBSET DOMAIN h /\ A(j) \in SUBSET DOMAIN h
    OBVIOUS
  <2> QED BY <1>1, <2>1, FS_Subset, Zenon
<1>5. Cardinality(A(i)) \in Nat /\ Cardinality(A(j)) \in Nat
  BY <1>4, FS_CardinalityType, Zenon
<1>6. Cardinality(A(i)) <= Cardinality(A(j)) /\ Cardinality(A(i)) # Cardinality(A(j))
  <2>1. A(i) \in SUBSET A(j)
    BY <1>3, Zenon
  <2> HIDE DEF A
  <2>2. /\ Cardinality(A(i)) <= Cardinality(A(j))
        /\ Cardinality(A(j)) = Cardinality(A(i)) => A(j) = A(i)
    BY <1>4, <2>1, FS_Subset, Zenon
  <2> QED BY <2>2, <1>3, Zenon
<1> QED BY <1>5, <1>6 DEF Rank

\* A rank is a position of the history.
LEMMA RankType ==
  ASSUME NEW S, Versioned(S), NEW h \in Seq(S), NEW i \in DOMAIN h
  PROVE  Rank(h, i) \in DOMAIN h
<1> DEFINE A == {x \in DOMAIN h : Precedes(h, x, i)}
<1>1. IsFiniteSet(DOMAIN h) /\ Cardinality(DOMAIN h) = Len(h)
  BY FS_Interval
<1>2. i \notin A
  BY DEF Precedes, Versioned
<1>3. A \in SUBSET DOMAIN h /\ A # DOMAIN h
  BY <1>2, Zenon
<1> HIDE DEF A
<1>4. IsFiniteSet(A) /\ Cardinality(A) <= Len(h) /\ Cardinality(A) # Len(h)
  BY <1>1, <1>3, FS_Subset, Zenon
<1>5. Cardinality(A) \in Nat
  BY <1>4, FS_CardinalityType, Zenon
<1> QED BY <1>4, <1>5 DEF Rank, A

\* Two different positions: one precedes the other.
LEMMA PrecedesTotal ==
  ASSUME NEW S, Versioned(S), NEW h \in Seq(S),
         NEW i \in DOMAIN h, NEW j \in DOMAIN h, i # j
  PROVE  Precedes(h, i, j) \/ Precedes(h, j, i)
BY DEF Precedes, Versioned

\* Every rank is taken, by exactly one position.
LEMMA RankOnto ==
  ASSUME NEW S, Versioned(S), NEW h \in Seq(S), NEW k \in DOMAIN h
  PROVE  \E i \in DOMAIN h : Rank(h, i) = k
<1> DEFINE D == DOMAIN h
           f == [i \in D |-> Rank(h, i)]
<1>1. IsFiniteSet(D)
  BY FS_Interval
<1>2. f \in [D -> D]
  BY RankType, Zenon
<1>3. ASSUME NEW a \in D, NEW b \in D, f[a] = f[b] PROVE a = b
  <2> SUFFICES ASSUME a # b PROVE FALSE
    OBVIOUS
  <2>1. Precedes(h, a, b) \/ Precedes(h, b, a)
    BY PrecedesTotal, Zenon
  <2>2. Rank(h, a) < Rank(h, b) \/ Rank(h, b) < Rank(h, a)
    BY <2>1, RankInjective, Zenon
  <2>3. Rank(h, a) \in Nat /\ Rank(h, b) \in Nat
    BY RankType
  <2> QED BY <1>3, <2>2, <2>3
<1>4. f \in Injection(D, D)
  BY <1>2, <1>3, Zenon DEF Injection, IsInjective
<1> HIDE DEF f
<1>5. f \in Surjection(D, D)
  BY <1>1, <1>4, FS_Injection, Zenon
<1>6. \E i \in D : f[i] = k
  BY <1>5, Zenon DEF Surjection
<1> QED BY <1>6, Zenon DEF f

\* Sorting rearranges the snapshots.
LEMMA SortByVersionType ==
  ASSUME NEW S, Versioned(S), NEW h \in Seq(S)
  PROVE  /\ SortByVersion(h) \in Seq(S)
         /\ Len(SortByVersion(h)) = Len(h)
         /\ DOMAIN SortByVersion(h) = DOMAIN h
         /\ \A k \in DOMAIN h : \E i \in DOMAIN h :
              Rank(h, i) = k /\ SortByVersion(h)[k] = h[i]
<1>1. \A k \in DOMAIN h : \E i \in DOMAIN h :
        Rank(h, i) = k /\ SortByVersion(h)[k] = h[i]
  BY Zenon, RankOnto DEF SortByVersion
<1>2. SortByVersion(h) \in [1..Len(h) -> S]
  <2>1. SortByVersion(h) = [k \in 1..Len(h) |-> SortByVersion(h)[k]]
    BY DEF SortByVersion
  <2>2. \A k \in 1..Len(h) : SortByVersion(h)[k] \in S
    BY <1>1
  <2> QED BY <2>1, <2>2, Zenon
<1>3. Len(h) \in Nat /\ DOMAIN h = 1..Len(h)
  OBVIOUS
<1>4. /\ SortByVersion(h) \in Seq(S)
      /\ Len(SortByVersion(h)) = Len(h)
      /\ DOMAIN SortByVersion(h) = DOMAIN h
  <2> HIDE DEF SortByVersion
  <2> QED BY <1>2, <1>3
<1> QED BY <1>1, <1>4, Zenon

IsSorted(h) == \A i, j \in DOMAIN h : i < j => h[i].ver >= h[j].ver

\* Sorting sorts,
LEMMA SortByVersionSorts ==
  ASSUME NEW S, Versioned(S), NEW h \in Seq(S)
  PROVE  IsSorted(SortByVersion(h))
<1> DEFINE s == SortByVersion(h)
<1>1. DOMAIN s = DOMAIN h
  BY SortByVersionType, Zenon
<1> SUFFICES ASSUME NEW i \in DOMAIN h, NEW j \in DOMAIN h, i < j
             PROVE  s[i].ver >= s[j].ver
  BY <1>1, Zenon DEF IsSorted
<1>2. PICK a \in DOMAIN h : Rank(h, a) = i /\ s[i] = h[a]
  BY SortByVersionType, Zenon
<1>3. PICK b \in DOMAIN h : Rank(h, b) = j /\ s[j] = h[b]
  BY SortByVersionType, Zenon
<1>4. a # b /\ ~(Rank(h, b) < Rank(h, a))
  BY <1>2, <1>3
<1>5. Precedes(h, a, b)
  BY <1>4, PrecedesTotal, RankInjective, Zenon
<1>6. h[a].ver \in Nat /\ h[b].ver \in Nat
  BY DEF Versioned
<1> QED
  BY <1>2, <1>3, <1>5, <1>6 DEF Precedes

\* and leaves alone what is sorted.
LEMMA SortedIsFixed ==
  ASSUME NEW S, Versioned(S), NEW h \in Seq(S), IsSorted(h)
  PROVE  SortByVersion(h) = h
<1>1. ASSUME NEW i \in DOMAIN h PROVE Rank(h, i) = i
  <2> DEFINE A == {x \in DOMAIN h : Precedes(h, x, i)}
  <2>1. ASSUME NEW x \in DOMAIN h PROVE Precedes(h, x, i) <=> x < i
    <3>1. h[x].ver \in Nat /\ h[i].ver \in Nat /\ x \in Nat /\ i \in Nat
      BY DEF Versioned
    <3>2. (x < i => h[x].ver >= h[i].ver) /\ (i < x => h[i].ver >= h[x].ver)
      BY Zenon DEF IsSorted
    <3> QED BY <3>1, <3>2 DEF Precedes
  <2>2. A = 1..(i - 1)
    BY <2>1
  <2>3. Cardinality(1..(i - 1)) = i - 1
    BY FS_Interval
  <2>4. Rank(h, i) = Cardinality(A) + 1
    BY Zenon DEF Rank
  <2> HIDE DEF A
  <2> QED BY <2>2, <2>3, <2>4
<1>2. ASSUME NEW k \in DOMAIN h PROVE SortByVersion(h)[k] = h[k]
  BY <1>1, Zenon DEF SortByVersion
<1>3. DOMAIN SortByVersion(h) = DOMAIN h /\ SortByVersion(h) \in Seq(S)
  BY SortByVersionType, Zenon
<1> QED
  <2>1. SortByVersion(h) = [k \in DOMAIN h |-> SortByVersion(h)[k]]
    BY DEF SortByVersion
  <2>2. h = [k \in DOMAIN h |-> h[k]]
    OBVIOUS
  <2> QED BY <1>2, <2>1, <2>2, Zenon

(* ----------------------------- truncation ------------------------------- *)

\* The first snapshots of a sorted history are a sorted history.
LEMMA PrefixSorted ==
  ASSUME NEW S, NEW h \in Seq(S), IsSorted(h), NEW n \in 0..Len(h)
  PROVE  /\ SubSeq(h, 1, n) \in Seq(S) /\ Len(SubSeq(h, 1, n)) = n
         /\ IsSorted(SubSeq(h, 1, n))
         /\ \A i \in 1..n : SubSeq(h, 1, n)[i] = h[i]
<1>1. /\ SubSeq(h, 1, n) \in Seq(S) /\ Len(SubSeq(h, 1, n)) = n
      /\ \A i \in 1..n : SubSeq(h, 1, n)[i] = h[i]
  OBVIOUS
<1>2. DOMAIN SubSeq(h, 1, n) = 1..n /\ 1..n \subseteq DOMAIN h
  OBVIOUS
<1>3. IsSorted(SubSeq(h, 1, n))
  <2>1. ASSUME NEW i \in 1..n, NEW j \in 1..n, i < j
        PROVE  SubSeq(h, 1, n)[i].ver >= SubSeq(h, 1, n)[j].ver
    BY <1>1, <1>2, <2>1, Zenon DEF IsSorted
  <2> QED BY Zenon, <1>2, <2>1 DEF IsSorted
<1> QED BY <1>1, <1>3, Zenon

\* A history that is truncated is one of the snapshots it had, sorted.
LEMMA TruncateType ==
  ASSUME NEW S, Versioned(S), NEW h \in Seq(S), NEW ignore \in BOOLEAN
  PROVE  /\ Truncate(h, ignore) \in Seq(S)
         /\ TruncateIgnoringPreviousSnapshots(h) \in Seq(S)
<1> DEFINE s == SortByVersion(h)
           T == Targets(s, ignore)
<1>1. s \in Seq(S) /\ IsSorted(s)
  BY SortByVersionType, SortByVersionSorts, Zenon
<1> HIDE DEF s
<1>2. Capped(s) \in Seq(S)
  <2>1. CASE Len(s) > DefaultMaxHistory
    <3>1. DefaultMaxHistory \in 0..Len(s)
      BY <1>1, <2>1, DefaultMaxHistoryAssumption
    <3> QED BY <1>1, <2>1, <3>1, PrefixSorted, Zenon DEF Capped
  <2>2. CASE ~(Len(s) > DefaultMaxHistory)
    BY <1>1, <2>2, Zenon DEF Capped
  <2> QED BY <2>1, <2>2, Zenon
<1>3. ASSUME T # {} PROVE SubSeq(s, 1, LeastOf(T)) \in Seq(S)
  <2>1. LeastOf(T) \in 2..Len(s)
    <3>1. T \subseteq 2..Len(s) /\ T \in SUBSET Nat
      BY <1>1 DEF Targets
    <3> QED BY <1>3, <3>1, LeastOfIsLeast, Zenon
  <2>2. LeastOf(T) \in 0..Len(s)
    BY <1>1, <2>1
  <2> QED BY <1>1, <2>2, PrefixSorted, Zenon
<1>4. Truncate(h, ignore) \in Seq(S)
  <2>1. CASE Len(h) < 2
    BY <2>1 DEF Truncate
  <2>2. CASE Len(h) >= 2 /\ T # {}
    BY <2>2, <1>3, Zenon DEF Truncate, s
  <2>3. CASE Len(h) >= 2 /\ T = {}
    BY <2>3, <1>2, Zenon DEF Truncate, s
  <2> QED BY <2>1, <2>2, <2>3
<1> QED BY <1>2, <1>4, Zenon DEF TruncateIgnoringPreviousSnapshots, s

\* Truncating a history (Snapshots.Truncate, before every decision on a
\* failure and after every success) loses neither the latest snapshot nor the
\* one a rollback goes back to, however many failures lie between them.
THEOREM TruncateKeepsRollbackTarget ==
  ASSUME NEW S, Versioned(S), NEW h \in Seq(S), NEW ignore \in BOOLEAN,
         HasPrevious(h, ignore)
  PROVE  LET t == Truncate(h, ignore)
         IN /\ HasPrevious(t, ignore)
            /\ Previous(t, ignore) = Previous(h, ignore)
            /\ Latest(t) = Latest(h)
<1> DEFINE s == SortByVersion(h)
           T == Targets(s, ignore)
           m == LeastOf(T)
           t == SubSeq(s, 1, m)
<1>1. s \in Seq(S) /\ IsSorted(s) /\ Len(s) = Len(h)
  BY SortByVersionType, SortByVersionSorts, Zenon
<1>2. T # {}
  BY Zenon DEF HasPrevious
<1> HIDE DEF s
<1>3. T \subseteq 2..Len(s) /\ T \in SUBSET Nat
  BY <1>1 DEF Targets
<1>4. m \in T /\ \A j \in T : m <= j
  BY <1>2, <1>3, LeastOfIsLeast, Zenon
<1>5. m \in 2..Len(s) /\ IsTarget(s[m], ignore)
  BY <1>3, <1>4, Zenon DEF Targets
<1> HIDE DEF m
<1>6. m \in 0..Len(s)
  BY <1>1, <1>5
<1>7. /\ t \in Seq(S) /\ Len(t) = m /\ IsSorted(t)
      /\ \A i \in 1..m : t[i] = s[i]
  BY <1>1, <1>6, PrefixSorted, Zenon
<1>8. Truncate(h, ignore) = t
  <2>1. Len(h) >= 2
    BY <1>1, <1>5
  <2>2. ~(Len(h) < 2)
    BY <2>1
  <2> QED BY <2>1, <2>2, <1>2, Zenon DEF Truncate, s, m
<1> HIDE DEF t
<1>9. SortByVersion(t) = t
  BY <1>7, SortedIsFixed, Zenon
<1>10. Targets(t, ignore) = {m}
  <2>1. m \in Targets(t, ignore)
    BY <1>5, <1>7 DEF Targets
  <2>2. ASSUME NEW i \in Targets(t, ignore) PROVE i = m
    <3>1. i \in 2..m /\ IsTarget(s[i], ignore)
      BY <1>5, <1>7 DEF Targets
    <3>2. i \in T
      BY <1>5, <3>1 DEF Targets
    <3> QED BY <1>4, <1>5, <3>1, <3>2
  <2> QED BY <2>1, <2>2, Zenon
<1>11. LeastOf(Targets(t, ignore)) = m
  <2>1. Targets(t, ignore) \in SUBSET Nat /\ Targets(t, ignore) # {}
    BY <1>5, <1>10
  <2> QED BY Zenon, <1>10, <2>1, LeastOfIsLeast
<1>12. HasPrevious(t, ignore) /\ Previous(t, ignore) = t[m]
  BY <1>9, <1>10, <1>11, Zenon DEF HasPrevious, Previous
<1>13. Previous(h, ignore) = s[m]
  BY Zenon DEF Previous, s, m
<1>14. Latest(t) = t[1] /\ Latest(h) = s[1]
  BY <1>9, Zenon DEF Latest, s
<1>15. t[m] = s[m] /\ t[1] = s[1]
  BY <1>5, <1>7
<1> QED BY <1>8, <1>12, <1>13, <1>14, <1>15, Zenon

\* Snapshots carry the version they are sorted by.
LEMMA SnapshotVersioned == Versioned(Snapshot)
BY Zenon DEF Versioned, Snapshot

(* ------------------------------ conditions ------------------------------ *)

Conds == [CondTypes -> Condition]

\* Setting a condition keeps conditions ones.
LEMMA SetType ==
  ASSUME NEW c \in Conds, NEW t \in CondTypes, NEW status \in CondStatuses,
         NEW reason \in Reasons, NEW gen \in Nat
  PROVE  Set(c, t, status, reason, gen) \in Conds
BY Zenon DEF Set, Conds, Condition

\* Deleting a condition keeps conditions ones.
LEMMA DeleteType ==
  ASSUME NEW c \in Conds, NEW t \in CondTypes
  PROVE  Delete(c, t) \in Conds
BY Zenon DEF Delete, Absent, Conds, Condition, CondStatuses, Reasons

\* So do the compound marks of the conditions package and of
\* replaceCondition.
LEMMA MarkType ==
  ASSUME NEW c \in Conds, NEW reason \in Reasons, NEW gen \in Nat
  PROVE  /\ MarkReconciling(c, reason, gen) \in Conds
         /\ MarkStalled(c, reason, gen) \in Conds
         /\ ReplaceRemediated(c, reason, gen) \in Conds
<1>1. /\ "Stalled" \in CondTypes /\ "Reconciling" \in CondTypes
      /\ "Released" \in CondTypes /\ "Remediated" \in CondTypes
      /\ "True" \in CondStatuses
  BY Zenon DEF CondTypes, CondStatuses
<1> QED
  BY <1>1, SetType, DeleteType, Zenon DEF MarkReconciling, MarkStalled, ReplaceRemediated

\* The condition summarize picks is one of the conditions.
LEMMA ForemostType ==
  ASSUME NEW c \in Conds
  PROVE  Foremost(c) \in CondTypes
<1> DEFINE H == {i \in DOMAIN ListOrder : Has(c, ListOrder[i])}
<1>1. DOMAIN ListOrder = 1..7 /\ \A i \in 1..7 : ListOrder[i] \in CondTypes
  BY DEF ListOrder, CondTypes
<1>2. ASSUME H # {}
      PROVE  \E i \in DOMAIN ListOrder :
               Has(c, ListOrder[i]) /\ \A j \in 1..(i - 1) : ~Has(c, ListOrder[j])
  <2>1. H \in SUBSET Nat
    BY <1>1
  <2>2. LeastOf(H) \in H /\ \A j \in H : LeastOf(H) <= j
    BY <1>2, <2>1, LeastOfIsLeast, Zenon
  <2>3. \A j \in 1..(LeastOf(H) - 1) : ~Has(c, ListOrder[j])
    <3> SUFFICES ASSUME NEW j \in 1..(LeastOf(H) - 1), Has(c, ListOrder[j])
                 PROVE  FALSE
      OBVIOUS
    <3>1. LeastOf(H) \in 1..7
      BY <1>1, <2>2, Zenon
    <3>2. j \in H
      BY <1>1, <3>1
    <3>3. LeastOf(H) <= j
      BY <2>2, <3>2, Zenon
    <3> HIDE DEF H
    <3> QED BY <3>1, <3>3
  <2> QED BY <2>2, <2>3, Zenon
<1> DEFINE first == CHOOSE i \in DOMAIN ListOrder :
                      /\ Has(c, ListOrder[i])
                      /\ \A j \in 1..(i - 1) : ~Has(c, ListOrder[j])
<1>3. ASSUME \E i \in DOMAIN ListOrder : Has(c, ListOrder[i])
      PROVE  ListOrder[first] \in CondTypes
  BY <1>1, <1>2, <1>3, Zenon
<1>4. {"Ready", "Remediated", "TestSuccess", "Released"} \subseteq CondTypes
  BY Zenon DEF CondTypes
<1> HIDE DEF first
<1> QED BY <1>3, <1>4, Zenon DEF Foremost, first

\* summarize keeps conditions ones.
LEMMA SummarizeType ==
  ASSUME NEW c \in Conds, NEW gen \in Nat
  PROVE  summarize(c, gen) \in Conds
<1> DEFINE d == IF TestEnable THEN c ELSE Delete(c, "TestSuccess")
           top == d[Foremost(d)]
           status == IF Foremost(d) = "Remediated" THEN "False" ELSE top.status
           e == IF status = "True" THEN Delete(d, "Stalled") ELSE d
<1>1. {"TestSuccess", "Stalled", "Ready"} \subseteq CondTypes
  BY Zenon DEF CondTypes
<1>2. d \in Conds
  BY <1>1, DeleteType, Zenon
<1> HIDE DEF d
<1>3. top \in Condition
  BY <1>2, ForemostType, Zenon DEF Conds
<1> HIDE DEF top
<1>4. status \in CondStatuses /\ top.reason \in Reasons
  BY <1>3, Zenon DEF Condition, CondStatuses
<1> HIDE DEF status
<1>5. e \in Conds
  BY <1>1, <1>2, DeleteType, Zenon
<1> HIDE DEF e
<1>6. Set(e, "Ready", status, top.reason, gen) \in Conds
  BY <1>1, <1>4, <1>5, SetType
<1>7. summarize(c, gen) = IF \A t \in CondTypes : ~Has(d, t) THEN d
                          ELSE Set(e, "Ready", status, top.reason, gen)
  BY Zenon DEF summarize, d, e, top, status
<1> QED BY <1>2, <1>6, <1>7, Zenon

(* ------------------------------- history -------------------------------- *)

History == Seq(Snapshot)

\* What the storage observer saw makes a snapshot.
LEMMA ObservedType ==
  ASSUME NEW v \in Nat, NEW rls \in Release, NEW tests \in TestPhases
  PROVE  ObservedToSnapshot(v, rls, tests) \in Snapshot
BY Zenon DEF ObservedToSnapshot, Snapshot, Release

\* The observers of release.go, rollback and unlock keep the history one.
LEMMA ObserveType ==
  ASSUME NEW h \in History, NEW v \in Nat, NEW rls \in Release
  PROVE  /\ Observe(h, v, rls) \in History
         /\ Prepend(h, v, rls) \in History
         /\ observeRollback(h, v, rls) \in History
         /\ observeUnlock(h, v, rls) \in History
<1> DEFINE i == LeastOf(Matching(h, v))
<1>1. "untested" \in TestPhases
  BY Zenon DEF TestPhases
<1>2. Prepend(h, v, rls) \in History
  <2>1. ObservedToSnapshot(v, rls, "untested") \in Snapshot
    BY <1>1, ObservedType, Zenon
  <2> QED BY <2>1 DEF Prepend, History
<1>3. ASSUME Matching(h, v) # {} PROVE i \in DOMAIN h
  <2>1. Matching(h, v) \in SUBSET Nat /\ Matching(h, v) \subseteq DOMAIN h
    BY DEF Matching, History
  <2> QED BY <1>3, <2>1, LeastOfIsLeast, Zenon
<1> HIDE DEF i
<1>4. ASSUME Matching(h, v) # {}, NEW x \in Snapshot
      PROVE  [h EXCEPT ![i] = x] \in History
  BY <1>3, <1>4 DEF History
<1>5. ASSUME Matching(h, v) # {} PROVE h[i].tests \in TestPhases
  <2>1. h[i] \in Snapshot
    BY <1>3, <1>5 DEF History
  <2> QED BY <2>1, Zenon DEF Snapshot
<1>6. Observe(h, v, rls) \in History
  BY <1>4, <1>5, ObservedType DEF Observe, i
<1>7. observeUnlock(h, v, rls) \in History
  BY <1>1, <1>4, ObservedType, Zenon DEF observeUnlock, i
<1> QED BY <1>2, <1>6, <1>7, Zenon DEF observeRollback

\* observeTest keeps the history one.
LEMMA ObserveTestType ==
  ASSUME NEW h \in History, NEW v \in Nat, NEW rls \in Release,
         NEW phase \in TestPhases
  PROVE  observeTest(h, v, rls, phase) \in History
<1>1. SortByVersion(h) \in Seq(Snapshot) /\ Len(SortByVersion(h)) = Len(h)
  BY SnapshotVersioned, SortByVersionType, Zenon DEF History
<1>2. ObservedToSnapshot(v, rls, phase) \in Snapshot
  BY ObservedType, Zenon
<1>3. ASSUME h # <<>> PROVE 1 \in DOMAIN SortByVersion(h)
  BY <1>1, <1>3 DEF History
<1>4. ASSUME h # <<>>
      PROVE  [SortByVersion(h) EXCEPT ![1] = ObservedToSnapshot(v, rls, phase)] \in History
  BY <1>1, <1>2, <1>3, <1>4 DEF History
<1> QED BY <1>4, Zenon DEF observeTest

\* obs is what an action wrote: versions up to n.
LEMMA RecordType ==
  ASSUME NEW h \in History, NEW n \in Nat, NEW V \in SUBSET (0..n),
         NEW obs \in [V -> Release]
  PROVE  recordOnObject(h, obs) \in History
<1> DEFINE top == GreatestOf(V)
           h1 == Prepend(h, top, obs[top])
           known == {v \in V \ {top} : Matching(h1, v) # {}}
           second == GreatestOf(known)
<1>0. \A v \in V : v \in Nat /\ obs[v] \in Release
  OBVIOUS
<1>1. CASE V = {}
  BY <1>1, Zenon DEF recordOnObject
<1>2. CASE V # {}
  <2>1. top \in V
    BY Zenon, <1>2, GreatestOfIsGreatest
  <2>2. h1 \in History
    <3>1. top \in Nat /\ obs[top] \in Release
      BY Zenon, <1>0, <2>1
    <3> HIDE DEF top
    <3> QED BY <3>1, ObserveType, Zenon
  <2> HIDE DEF h1
  <2>3. ASSUME known # {} PROVE second \in V
    <3>1. known \in SUBSET (0..n) /\ known \subseteq V
      BY Zenon
    <3> HIDE DEF known
    <3> QED BY Zenon, <2>3, <3>1, GreatestOfIsGreatest
  <2>4. ASSUME known # {} PROVE Observe(h1, second, obs[second]) \in History
    <3>1. second \in Nat /\ obs[second] \in Release
      BY Zenon, <1>0, <2>3, <2>4
    <3> HIDE DEF second
    <3> QED BY <2>2, <3>1, ObserveType, Zenon
  <2> QED BY <1>2, <2>2, <2>4, Zenon DEF recordOnObject, h1
<1> QED BY <1>1, <1>2, Zenon

(* ------------------------------- objects -------------------------------- *)

\* The parts of an object, and replacing one of them.
LEMMA ObjectUpdate ==
  ASSUME NEW o \in Object
  PROVE  /\ o.status \in Status /\ o.conds \in Conds
         /\ o.status.history \in History
         /\ \A c \in Conds : [o EXCEPT !.conds = c] \in Object
         /\ \A st \in Status : [o EXCEPT !.status = st] \in Object
         /\ \A h \in History : [o EXCEPT !.status.history = h] \in Object
BY Zenon DEF Object, Status, Conds, History

\* What actionForState may change of an object and what it leaves alone: the
\* failure counters, the last action and the last attempt stay, and Stalled is
\* not set.
Unstalled(o) == ~IsTrue(o.conds, "Stalled")
SameCounters(o, p) ==
  /\ p.status.installFailures = o.status.installFailures
  /\ p.status.upgradeFailures = o.status.upgradeFailures
  /\ p.status.lastAction = o.status.lastAction
  /\ p.status.lastGeneration = o.status.lastGeneration
  /\ p.status.lastConfig = o.status.lastConfig
Follows(o, p) == /\ p \in Object
                 /\ SameCounters(o, p)
                 /\ Unstalled(o) => Unstalled(p)

\* What follows from what follows, follows.
LEMMA FollowsTrans ==
  ASSUME NEW o, NEW p, NEW q, Follows(o, p), Follows(p, q)
  PROVE  Follows(o, q)
BY Zenon DEF Follows, SameCounters

\* Truncating or clearing the history changes nothing else.
LEMMA FollowsHistory ==
  ASSUME NEW o \in Object, NEW h \in History
  PROVE  Follows(o, [o EXCEPT !.status.history = h])
BY Zenon DEF Follows, SameCounters, Unstalled, Object, Status, Conds, History, IsTrue

\* Changing conditions other than Stalled changes nothing else.
LEMMA FollowsConds ==
  ASSUME NEW o \in Object, NEW c \in Conds,
         ~IsTrue(o.conds, "Stalled") => ~IsTrue(c, "Stalled")
  PROVE  Follows(o, [o EXCEPT !.conds = c])
BY Zenon DEF Follows, SameCounters, Unstalled, Object, Conds

\* Stalled is set by MarkStalled only.
LEMMA StalledKept ==
  ASSUME NEW c \in Conds, NEW t \in CondTypes, NEW status, NEW reason, NEW gen
  PROVE  /\ t # "Stalled" => Set(c, t, status, reason, gen)["Stalled"] = c["Stalled"]
         /\ t # "Stalled" => Delete(c, t)["Stalled"] = c["Stalled"]
         /\ ~IsTrue(Delete(c, "Stalled"), "Stalled")
<1>1. "Stalled" \in CondTypes
  BY Zenon DEF CondTypes
<1> QED BY Zenon, <1>1 DEF Set, Delete, Absent, Conds, IsTrue

\* summarize may remove Stalled, and never sets it.
LEMMA SummarizeUnstalled ==
  ASSUME NEW c \in Conds, NEW gen \in Nat, ~IsTrue(c, "Stalled")
  PROVE  ~IsTrue(summarize(c, gen), "Stalled")
<1> DEFINE d == IF TestEnable THEN c ELSE Delete(c, "TestSuccess")
           top == d[Foremost(d)]
           status == IF Foremost(d) = "Remediated" THEN "False" ELSE top.status
           e == IF status = "True" THEN Delete(d, "Stalled") ELSE d
<1>1. {"TestSuccess", "Stalled", "Ready"} \subseteq CondTypes
  BY Zenon DEF CondTypes
<1>2. d \in Conds /\ ~IsTrue(d, "Stalled")
  BY Zenon, <1>1, DeleteType, StalledKept DEF IsTrue
<1> HIDE DEF d
<1>3. e \in Conds /\ ~IsTrue(e, "Stalled")
  BY <1>1, <1>2, DeleteType, StalledKept
<1> HIDE DEF e
<1>4. ~IsTrue(Set(e, "Ready", status, top.reason, gen), "Stalled")
  BY <1>1, <1>3, StalledKept DEF IsTrue
<1>5. summarize(c, gen) = IF \A t \in CondTypes : ~Has(d, t) THEN d
                          ELSE Set(e, "Ready", status, top.reason, gen)
  BY Zenon DEF summarize, d, e, top, status
<1> QED BY <1>2, <1>4, <1>5, Zenon

\* Marking progress removes Stalled.
LEMMA MarkReconcilingUnstalled ==
  ASSUME NEW c \in Conds, NEW reason, NEW gen
  PROVE  ~IsTrue(MarkReconciling(c, reason, gen), "Stalled")
<1>1. {"Stalled", "Reconciling"} \subseteq CondTypes
  BY Zenon DEF CondTypes
<1>2. Delete(c, "Stalled") \in Conds
  BY <1>1, DeleteType, Zenon
<1> QED BY <1>1, <1>2, StalledKept DEF MarkReconciling, IsTrue

(* ---------------------------- actionForState ---------------------------- *)

\* What actionForState reports of a release in sync does not stall it.
LEMMA InSyncConditionsType ==
  ASSUME NEW st, NEW c0 \in Conds, NEW gen \in Nat
  PROVE  /\ InSyncConditions(st, c0, gen) \in Conds
         /\ ~IsTrue(c0, "Stalled") => ~IsTrue(InSyncConditions(st, c0, gen), "Stalled")
<1> DEFINE NoWorse(c) == c \in Conds /\ (~IsTrue(c0, "Stalled") => ~IsTrue(c, "Stalled"))
<1>1. /\ {"Released", "Remediated", "Drifted", "Stalled"} \subseteq CondTypes
      /\ {"True", "False"} \subseteq CondStatuses
      /\ {"InstallSucceeded", "UpgradeSucceeded", "NoDriftDetected"} \subseteq Reasons
  BY Zenon DEF CondTypes, CondStatuses, Reasons
<1>2. ASSUME NEW c, NoWorse(c), NEW t \in CondTypes \ {"Stalled"},
             NEW status \in CondStatuses, NEW reason \in Reasons
      PROVE  NoWorse(Set(c, t, status, reason, gen)) /\ NoWorse(Delete(c, t))
  <2>1. c \in Conds /\ t \in CondTypes /\ t # "Stalled"
    BY <1>2, Zenon
  <2>2. Set(c, t, status, reason, gen) \in Conds /\ Delete(c, t) \in Conds
    BY <2>1, SetType, DeleteType
  <2>3. /\ Set(c, t, status, reason, gen)["Stalled"] = c["Stalled"]
        /\ Delete(c, t)["Stalled"] = c["Stalled"]
    BY <2>1, StalledKept
  <2> QED BY <1>2, <2>2, <2>3 DEF IsTrue
<1>3. ASSUME NEW c, NoWorse(c) PROVE NoWorse(summarize(c, gen))
  BY <1>3, SummarizeType, SummarizeUnstalled, Zenon
<1>4. NoWorse(c0)
  OBVIOUS
<1> HIDE DEF NoWorse
<1> DEFINE c == IF IsTrue(c0, "Remediated")
                THEN ReplaceRemediated(c0, "UpgradeSucceeded", gen) ELSE c0
<1>5. NoWorse(c)
  BY <1>1, <1>2, <1>4 DEF ReplaceRemediated
<1> HIDE DEF c
<1> DEFINE failed == c["Released"].reason
           reason == CASE \/ failed = "InstallFailed"
                          \/ failed # "UpgradeFailed" /\ st.lastAction = "install"
                            -> "InstallSucceeded"
                       [] \/ failed = "UpgradeFailed"
                          \/ failed # "InstallFailed" /\ st.lastAction = "upgrade"
                            -> "UpgradeSucceeded"
                       [] OTHER -> ""
           marked == IF (IsReady(c) /\ IsTrue(c, "Released")) \/ reason = ""
                     THEN c
                     ELSE summarize(Set(c, "Released", "True", reason, gen), gen)
<1>6. reason \in {"InstallSucceeded", "UpgradeSucceeded", ""}
  OBVIOUS
<1> HIDE DEF reason
<1>7. NoWorse(marked)
  <2>1. ASSUME reason # "" PROVE NoWorse(summarize(Set(c, "Released", "True", reason, gen), gen))
    BY Zenon, <1>1, <1>2, <1>3, <1>5, <1>6, <2>1
  <2> QED BY Zenon, <1>5, <2>1
<1> HIDE DEF marked
<1>8. NoWorse(IF DriftMode = "disabled" THEN marked
              ELSE Set(marked, "Drifted", "False", "NoDriftDetected", gen))
  BY <1>1, <1>2, <1>7
<1>9. InSyncConditions(st, c0, gen) =
        IF DriftMode = "disabled" THEN marked
        ELSE Set(marked, "Drifted", "False", "NoDriftDetected", gen)
  BY Zenon DEF InSyncConditions, marked, reason, c
<1> QED BY <1>8, <1>9, Zenon DEF NoWorse

\* The history actionForState truncates is one.
LEMMA InSyncHistoryType ==
  ASSUME NEW o \in Object
  PROVE  InSyncHistory(o.status) \in History
<1>1. o.status.history \in Seq(Snapshot)
  BY ObjectUpdate, Zenon DEF History
<1>2. MustIgnoreTestFailures(o.status) \in BOOLEAN /\ TestIgnoreFailures \in BOOLEAN
  BY RemediationAssumption, TestAssumption DEF MustIgnoreTestFailures
<1>3. /\ TruncateIgnoringPreviousSnapshots(o.status.history) \in History
      /\ Truncate(o.status.history, MustIgnoreTestFailures(o.status)) \in History
      /\ Truncate(o.status.history, TestIgnoreFailures) \in History
  BY Zenon, <1>1, <1>2, SnapshotVersioned, TruncateType DEF History
<1> QED BY <1>3, Zenon DEF InSyncHistory

States == {"InSync", "Locked", "Absent", "Unmanaged", "OutOfSync", "Drifted",
           "Untested", "Failed"}

\* DetermineReleaseState returns one of the release states.
LEMMA DetermineReleaseStateType ==
  ASSUME NEW st, NEW s, NEW want, NEW drift
  PROVE  DetermineReleaseState(st, s, want, drift) \in States \cup {"Unknown"}
<1>1. ASSUME NEW rls PROVE DetermineDeployed(st, rls, want, drift) \in States
  BY Zenon DEF DetermineDeployed, States
<1> QED BY <1>1, Zenon DEF DetermineReleaseState, States

Errors == {"", "ErrExceededMaxRetries", "ErrMissingRollbackTarget"}
Decides(o, d) ==
  /\ d.act \in Actions \cup {"none"}
  /\ d.err \in Errors
  /\ Follows(o, d.obj)
  /\ d.err = "ErrExceededMaxRetries" =>
       InstallExhausted(o.status) \/ UpgradeExhausted(o.status)

\* A decision to act does not stall the object.
LEMMA DecisionDecides ==
  ASSUME NEW o, NEW p, Follows(o, p), NEW act \in Actions \cup {"none"}
  PROVE  Decides(o, Decision(act, p))
BY Zenon DEF Decides, Decision, Errors

\* A refusal to act is justified by the counters.
LEMMA RefusalDecides ==
  ASSUME NEW o, NEW p, Follows(o, p), NEW err \in Errors,
         err = "ErrExceededMaxRetries" =>
           InstallExhausted(o.status) \/ UpgradeExhausted(o.status)
  PROVE  Decides(o, Refusal(err, p))
BY Zenon DEF Decides, Refusal, Errors, Actions

\* An object follows from itself.
LEMMA FollowsRefl ==
  ASSUME NEW o \in Object
  PROVE  Follows(o, o)
BY Zenon DEF Follows, SameCounters

\* A failure is remediated, or retried, or refused for want of retries.
LEMMA FailedActionDecides ==
  ASSUME NEW o \in Object, NEW force, NEW s
  PROVE  Decides(o, FailedAction(o, force, s))
<1> DEFINE ignore == MustIgnoreTestFailures(o.status)
           h == o.status.history
           p == [o EXCEPT !.status.history = Truncate(h, ignore)]
           q == [o EXCEPT !.status.history = TruncateIgnoringPreviousSnapshots(h)]
<1>1. h \in Seq(Snapshot) /\ ignore \in BOOLEAN
  BY ObjectUpdate, RemediationAssumption, Zenon DEF History, MustIgnoreTestFailures
<1>2. Truncate(h, ignore) \in History /\ TruncateIgnoringPreviousSnapshots(h) \in History
  BY <1>1, SnapshotVersioned, TruncateType, Zenon DEF History
<1>3. Follows(o, p) /\ Follows(o, q) /\ Follows(o, o)
  BY <1>2, FollowsHistory, FollowsRefl, Zenon
<1>4. \A act \in Actions \cup {"none"} :
        /\ Decides(o, Decision(act, p))
        /\ Decides(o, Decision(act, q))
        /\ Decides(o, Decision(act, o))
  BY <1>3, DecisionDecides, Zenon
<1>5. Decides(o, Refusal("ErrMissingRollbackTarget", p))
  BY Zenon, <1>3, RefusalDecides DEF Errors
<1>6. RetriesExhausted(o.status) => Decides(o, Refusal("ErrExceededMaxRetries", o))
  BY Zenon, <1>3, RefusalDecides DEF Errors, RetriesExhausted
<1>7. {"upgrade", "rollback", "uninstall"} \subseteq Actions
  BY Zenon DEF Actions
<1>8. Decides(o, RemediationAction(o, s))
  <2> HIDE DEF p, q
  <2>1. RemediationAction(o, s) \in {Decision("uninstall", p), Decision("rollback", p),
          Decision("upgrade", p), Refusal("ErrMissingRollbackTarget", p)}
    BY Zenon DEF RemediationAction, p
  <2> QED BY <1>4, <1>5, <1>7, <2>1
<1> QED
  <2>1. FailedAction(o, force, s) = Decision("upgrade", q)
        \/ FailedAction(o, force, s) = Decision("upgrade", o)
        \/ /\ FailedAction(o, force, s) = Refusal("ErrExceededMaxRetries", o)
           /\ RetriesExhausted(o.status)
        \/ FailedAction(o, force, s) = RemediationAction(o, s)
    BY Zenon DEF FailedAction
  <2> HIDE DEF p, q
  <2> QED BY <1>4, <1>6, <1>7, <1>8, <2>1

\* actionForState leaves the failure counters alone, does not stall the
\* object, and refuses to act for want of retries only when they are used up.
LEMMA ActionForStateDecides ==
  ASSUME NEW o0 \in Object, NEW want \in Want, NEW state \in States, NEW s
  PROVE  Decides(o0, actionForState(o0, want, state, s))
<1> DEFINE force == ForceRequested(o0.status, want)
           o == [o0 EXCEPT !.status.handledForceAt = want.forceAt]
<1>1. o \in Object /\ Follows(o0, o) /\ want.gen \in Nat
  BY Zenon DEF Follows, SameCounters, Unstalled, Object, Status, Want
<1> HIDE DEF o
<1>2. ASSUME NEW d, Decides(o, d) PROVE Decides(o0, d)
  <2>1. Follows(o0, d.obj)
    BY <1>1, <1>2, FollowsTrans DEF Decides
  <2>2. /\ InstallExhausted(o.status) => InstallExhausted(o0.status)
        /\ UpgradeExhausted(o.status) => UpgradeExhausted(o0.status)
    BY <1>1 DEF Follows, SameCounters, InstallExhausted, UpgradeExhausted
  <2> QED BY <1>2, <2>1, <2>2, Zenon DEF Decides
<1>3. Follows(o, o)
  BY <1>1, FollowsRefl
<1>4. \A act \in Actions \cup {"none"} : Decides(o, Decision(act, o))
  BY <1>3, DecisionDecides
<1>5. InstallExhausted(o.status) \/ UpgradeExhausted(o.status) =>
        Decides(o, Refusal("ErrExceededMaxRetries", o))
  BY Zenon, <1>3, RefusalDecides DEF Errors
<1>6. {"install", "upgrade", "test", "unlock", "correct"} \subseteq Actions
  BY Zenon DEF Actions
<1>7. o.conds \in Conds
  BY <1>1, ObjectUpdate
<1>8. ASSUME NEW c \in Conds, ~IsTrue(o.conds, "Stalled") => ~IsTrue(c, "Stalled"),
             NEW act \in Actions \cup {"none"}
      PROVE  Decides(o, Decision(act, [o EXCEPT !.conds = c]))
  BY <1>1, <1>8, FollowsConds, DecisionDecides
<1>9. CASE state = "InSync"
  <2> DEFINE p == [o EXCEPT !.status.history = InSyncHistory(o.status)]
             q == [p EXCEPT !.conds = InSyncConditions(p.status, @, want.gen)]
  <2>1. Follows(o, p) /\ p \in Object
    BY <1>1, InSyncHistoryType, FollowsHistory DEF Follows
  <2> HIDE DEF p
  <2>2. Follows(p, q)
    <3>1. p.conds \in Conds
      BY <2>1, ObjectUpdate
    <3>2. /\ InSyncConditions(p.status, p.conds, want.gen) \in Conds
          /\ ~IsTrue(p.conds, "Stalled") =>
               ~IsTrue(InSyncConditions(p.status, p.conds, want.gen), "Stalled")
      BY <1>1, <3>1, InSyncConditionsType
    <3> QED BY <2>1, <3>2, FollowsConds
  <2> HIDE DEF q
  <2>3. Follows(o, q)
    BY <2>1, <2>2, FollowsTrans
  <2>4. Decides(o, Decision("upgrade", p)) /\ Decides(o, Decision("none", q))
    BY <1>6, <2>1, <2>3, DecisionDecides
  <2>5. Decides(o, InSyncAction(o, force, want.gen))
    BY <2>4 DEF InSyncAction, p, q
  <2>6. actionForState(o0, want, state, s) = InSyncAction(o, force, want.gen)
    BY <1>9, Zenon DEF actionForState, o
  <2> QED BY <1>2, <2>5, <2>6
<1>10. CASE state = "Locked"
  <2>1. actionForState(o0, want, state, s) = Decision("unlock", o)
    BY <1>10, Zenon DEF actionForState, o
  <2> QED BY <1>2, <1>4, <1>6, <2>1
<1>11. CASE state = "Absent"
  <2>1. actionForState(o0, want, state, s) = AbsentAction(o, force)
    BY <1>11, Zenon DEF actionForState, o
  <2>2. Decides(o, AbsentAction(o, force))
    BY <1>4, <1>5, <1>6 DEF AbsentAction
  <2> QED BY <1>2, <2>1, <2>2
<1>12. CASE state = "Unmanaged"
  <2>1. actionForState(o0, want, state, s) = UnmanagedAction(o)
    BY <1>12, Zenon DEF actionForState, o
  <2>2. Decides(o, UnmanagedAction(o))
    <3>1. << >> \in History
      BY DEF History
    <3> QED BY Zenon, <1>1, <1>6, <3>1, FollowsHistory, DecisionDecides DEF UnmanagedAction
  <2> QED BY <1>2, <2>1, <2>2
<1>13. CASE state = "OutOfSync"
  <2>1. actionForState(o0, want, state, s) = OutOfSyncAction(o, force)
    BY <1>13, Zenon DEF actionForState, o
  <2>2. Decides(o, OutOfSyncAction(o, force))
    BY <1>4, <1>5, <1>6 DEF OutOfSyncAction
  <2> QED BY <1>2, <2>1, <2>2
<1>14. CASE state = "Drifted"
  <2>1. actionForState(o0, want, state, s) = DriftedAction(o, want.gen)
    BY <1>14, Zenon DEF actionForState, o
  <2> DEFINE c == Set(o.conds, "Drifted", "True", "DriftDetected", want.gen)
  <2>2. c \in Conds /\ (~IsTrue(o.conds, "Stalled") => ~IsTrue(c, "Stalled"))
    <3>1. "Drifted" \in CondTypes /\ "True" \in CondStatuses /\ "DriftDetected" \in Reasons
      BY Zenon DEF CondTypes, CondStatuses, Reasons
    <3> QED BY <1>1, <1>7, <3>1, SetType, StalledKept DEF IsTrue
  <2> HIDE DEF c
  <2>3. Decides(o, DriftedAction(o, want.gen))
    BY <1>6, <1>8, <2>2 DEF DriftedAction, c
  <2> QED BY <1>2, <2>1, <2>3
<1>15. CASE state = "Untested"
  <2>1. actionForState(o0, want, state, s) = UntestedAction(o, want.gen)
    BY <1>15, Zenon DEF actionForState, o
  <2> DEFINE c == ReplaceRemediated(o.conds, "UpgradeSucceeded", want.gen)
  <2>2. c \in Conds /\ (~IsTrue(o.conds, "Stalled") => ~IsTrue(c, "Stalled"))
    <3>1. /\ "Released" \in CondTypes /\ "Remediated" \in CondTypes
          /\ "True" \in CondStatuses /\ "UpgradeSucceeded" \in Reasons
      BY Zenon DEF CondTypes, CondStatuses, Reasons
    <3> DEFINE d == Set(o.conds, "Released", "True", "UpgradeSucceeded", want.gen)
    <3>2. d \in Conds /\ d["Stalled"] = o.conds["Stalled"]
      BY <1>1, <1>7, <3>1, SetType, StalledKept
    <3> HIDE DEF d
    <3>3. Delete(d, "Remediated") \in Conds /\ Delete(d, "Remediated")["Stalled"] = d["Stalled"]
      BY Zenon, <3>1, <3>2, DeleteType, StalledKept
    <3> QED BY <3>2, <3>3 DEF ReplaceRemediated, IsTrue, d
  <2> HIDE DEF c
  <2>3. Decides(o, UntestedAction(o, want.gen))
    BY <1>4, <1>6, <1>8, <2>2 DEF UntestedAction, c
  <2> QED BY <1>2, <2>1, <2>3
<1>16. CASE state = "Failed"
  <2>1. actionForState(o0, want, state, s) = FailedAction(o, force, s)
    BY <1>16, Zenon DEF actionForState, o
  <2> QED BY <1>1, <1>2, <2>1, FailedActionDecides
<1> QED
  BY <1>9, <1>10, <1>11, <1>12, <1>13, <1>14, <1>15, <1>16 DEF States

(* ----------------------- the invariant, by concern ---------------------- *)

EnvOK == /\ desired \in Want /\ req \in Want /\ queued \in BOOLEAN
         /\ spent \in [DOMAIN Bounds -> Nat]
         /\ attempts \in [{"install", "upgrade"} -> Nat]

\* A report of exhausted retries comes with a counter past its limit.
Justified(o) == RetriesExceeded(o) => OutOfRetries(o)

ApiOK == /\ api \in Object
         /\ spent["faults"] = 0 => Justified(api)

LocalOK ==
  /\ mem \in Object /\ Justified(mem)
  /\ IsTrue(mem.conds, "Stalled") => pc = "end"
  /\ pc \in Phases /\ next \in Actions \cup {"none"}
  /\ previous \subseteq {"release", "test", "unlock", "correct"}
  /\ result \in Results
  /\ pc = "run" => next # "none"
  /\ pc \in {"helm", "deploy"} =>
       next \in {"install", "upgrade", "rollback", "uninstall"} /\ observed # {}
  /\ pc \notin {"helm", "deploy"} => observed = {}

\* s is a storage in which no revision is numbered higher than n.
IsStorage(s, n) == DOMAIN s \subseteq 1..n /\ s \in [DOMAIN s -> Release]

StoreOK == /\ nextId \in Nat \ {0}
           /\ IsStorage(storage, nextId - 1)
           /\ drifted \in BOOLEAN /\ released \subseteq Nat

HeldOK ==
  /\ observed \subseteq DOMAIN storage
  /\ pc = "helm" /\ next \in {"upgrade", "rollback"} => DOMAIN Before(storage) # {}

IInv == EnvOK /\ ApiOK /\ LocalOK /\ StoreOK /\ HeldOK

\* The inductive invariant says just what the two checked invariants say.
LEMMA IInvIsBoth == IInv <=> TypeOK /\ StalledMeansExhausted
<1>1. spent \in [DOMAIN Bounds -> Nat] => spent.faults = spent["faults"]
  OBVIOUS
<1> QED
  BY <1>1, Zenon DEF IInv, EnvOK, ApiOK, LocalOK, StoreOK, HeldOK, IsStorage, Justified,
              TypeOK, StalledMeansExhausted

(* ------------------------------- objects -------------------------------- *)

\* What an action reconciler hands to the loop: an object that is not stalled.
Sound(o) == o \in Object /\ Unstalled(o)

\* The names of conditions, statuses and reasons the reconcilers use exist.
LEMMA Names ==
  /\ {"Ready", "Reconciling", "Stalled", "Released", "Remediated",
      "TestSuccess", "Drifted"} \subseteq CondTypes
  /\ {"True", "False", "Unknown"} \subseteq CondStatuses
  /\ {"Progressing", "ProgressingWithRetry", "HealthCheckCanceled", "StateError",
      "SourceNotReady", "ReconcileError", "RetriesExceeded",
      "MissingRollbackTarget", "InstallFailed", "UpgradeFailed",
      "InstallSucceeded", "UpgradeSucceeded", "AwaitingTests",
      "RollbackSucceeded", "RollbackFailed", "UninstallSucceeded",
      "UninstallFailed", "TestFailed", "TestSucceeded",
      "PendingRelease"} \subseteq Reasons
BY DEF CondTypes, CondStatuses, Reasons

\* Setting or deleting a condition other than Stalled, and marking progress.
LEMMA CondsSound ==
  ASSUME NEW c \in Conds, ~IsTrue(c, "Stalled"), NEW t \in CondTypes \ {"Stalled"},
         NEW status \in CondStatuses, NEW reason \in Reasons, NEW gen \in Nat
  PROVE  /\ Set(c, t, status, reason, gen) \in Conds
         /\ ~IsTrue(Set(c, t, status, reason, gen), "Stalled")
         /\ Delete(c, t) \in Conds /\ ~IsTrue(Delete(c, t), "Stalled")
<1>1. t \in CondTypes /\ t # "Stalled"
  OBVIOUS
<1>2. /\ Set(c, t, status, reason, gen)["Stalled"] = c["Stalled"]
      /\ Delete(c, t)["Stalled"] = c["Stalled"]
  BY <1>1, StalledKept
<1> QED BY <1>1, <1>2, SetType, DeleteType, Zenon DEF IsTrue

\* Replacing the conditions by ones that are not stalled.
LEMMA SoundConds ==
  ASSUME NEW o \in Object, NEW c \in Conds, ~IsTrue(c, "Stalled")
  PROVE  Sound([o EXCEPT !.conds = c])
BY Zenon DEF Sound, Unstalled, Object, Conds

\* Recording observations in the history does not stall the object.
LEMMA SoundHistory ==
  ASSUME NEW o, Sound(o), NEW h \in History
  PROVE  Sound([o EXCEPT !.status.history = h])
BY FollowsHistory, Zenon DEF Sound, Follows

\* An object made of a status and conditions, as the action reconcilers
\* leave it.
LEMMA SoundMade ==
  ASSUME NEW st \in Status, NEW c \in Conds, ~IsTrue(c, "Stalled")
  PROVE  Sound([status |-> st, conds |-> c])
BY Zenon DEF Sound, Unstalled, Object, Conds

\* Setting a condition other than Stalled keeps a sound object sound.
LEMMA SoundSet ==
  ASSUME NEW o, Sound(o), NEW t \in CondTypes \ {"Stalled"},
         NEW status \in CondStatuses, NEW reason \in Reasons, NEW gen \in Nat
  PROVE  /\ Sound([o EXCEPT !.conds = Set(@, t, status, reason, gen)])
         /\ Sound([o EXCEPT !.conds = Delete(@, t)])
         /\ Sound([o EXCEPT !.conds = summarize(@, gen)])
<1>1. o \in Object /\ o.conds \in Conds /\ ~IsTrue(o.conds, "Stalled")
  BY ObjectUpdate, Zenon DEF Sound, Unstalled
<1>2. /\ Set(o.conds, t, status, reason, gen) \in Conds
      /\ ~IsTrue(Set(o.conds, t, status, reason, gen), "Stalled")
      /\ Delete(o.conds, t) \in Conds /\ ~IsTrue(Delete(o.conds, t), "Stalled")
  BY <1>1, CondsSound, Zenon
<1>3. summarize(o.conds, gen) \in Conds /\ ~IsTrue(summarize(o.conds, gen), "Stalled")
  BY <1>1, SummarizeType, SummarizeUnstalled
<1> QED BY <1>1, <1>2, <1>3, SoundConds, Zenon

\* Marking progress removes Stalled.
LEMMA SoundReconciling ==
  ASSUME NEW o \in Object, NEW reason \in Reasons, NEW gen \in Nat
  PROVE  Sound([o EXCEPT !.conds = MarkReconciling(@, reason, gen)])
<1>1. o.conds \in Conds
  BY ObjectUpdate, Zenon
<1>2. MarkReconciling(o.conds, reason, gen) \in Conds
  BY <1>1, MarkType, Zenon
<1>3. ~IsTrue(MarkReconciling(o.conds, reason, gen), "Stalled")
  BY <1>1, MarkReconcilingUnstalled, Zenon
<1> QED BY <1>2, <1>3, SoundConds, Zenon

\* An object that is not stalled reports no exhausted retries.
LEMMA SoundIsJustified ==
  ASSUME NEW o, Sound(o)
  PROVE  Justified(o)
BY Zenon DEF Sound, Unstalled, Justified, RetriesExceeded

\* Recording history, counting a failure and clearing the counters
\* (IncrementFailureCount, ClearFailures) keep a status one.
LEMMA StatusUpdate ==
  ASSUME NEW st \in Status
  PROVE  /\ \A h \in History : [st EXCEPT !.history = h] \in Status
         /\ IncrementFailureCount(st) \in Status
         /\ ClearFailures(st) \in Status
<1>1. \A h \in History : [st EXCEPT !.history = h] \in Status
  BY Zenon DEF Status, History
<1>2. \A n \in Nat : /\ [st EXCEPT !.installFailures = n] \in Status
                     /\ [st EXCEPT !.upgradeFailures = n] \in Status
  BY SMTT(30) DEF Status
<1>3. st.installFailures + 1 \in Nat /\ st.upgradeFailures + 1 \in Nat
  BY DEF Status
<1>4. ClearFailures(st) \in Status
  BY Zenon DEF Status, ClearFailures
<1> QED BY Zenon, <1>1, <1>2, <1>3, <1>4 DEF IncrementFailureCount

(* ------------------------------- storage -------------------------------- *)

\* A storage with revisions has a last one (Last of Helm's storage).
LEMMA LastVersionIsLast ==
  ASSUME NEW n \in Nat, NEW s, IsStorage(s, n), DOMAIN s # {}
  PROVE  /\ LastVersion(s) \in DOMAIN s /\ LastVersion(s) \in 1..n
         /\ Last(s) \in Release
         /\ \A w \in DOMAIN s : w <= LastVersion(s)
<1>1. DOMAIN s \in SUBSET (0..n)
  BY DEF IsStorage
<1>2. LastVersion(s) = GreatestOf(DOMAIN s)
  BY Zenon DEF LastVersion, GreatestOf
<1>3. LastVersion(s) \in DOMAIN s /\ \A w \in DOMAIN s : w <= LastVersion(s)
  BY Zenon, <1>1, <1>2, GreatestOfIsGreatest
<1> QED BY <1>3, Zenon DEF IsStorage, Last

\* Writing statuses neither adds nor removes revisions.
LEMMA StatusesSet ==
  ASSUME NEW n \in Nat, NEW s, IsStorage(s, n), NEW v, NEW status \in Statuses,
         NEW D
  PROVE  /\ IsStorage(SetStatus(s, v, status), n)
         /\ DOMAIN SetStatus(s, v, status) = DOMAIN s
         /\ IsStorage(Supersede(s, D), n)
         /\ DOMAIN Supersede(s, D) = DOMAIN s
<1>1. \A r \in Release : [r EXCEPT !.status = status] \in Release
  BY Zenon DEF Release
<1>2. \A r \in Release : [r EXCEPT !.status = "superseded"] \in Release
  BY Zenon DEF Release, Statuses
<1>3. IsStorage(SetStatus(s, v, status), n) /\ DOMAIN SetStatus(s, v, status) = DOMAIN s
  BY Zenon, <1>1 DEF IsStorage, SetStatus
<1>4. IsStorage(Supersede(s, D), n) /\ DOMAIN Supersede(s, D) = DOMAIN s
  BY <1>2, Zenon DEF IsStorage, Supersede
<1> QED BY <1>3, <1>4, Zenon

\* A new revision is numbered no higher than releases were made, and leaves
\* the ones there were.
LEMMA PendingCreated ==
  ASSUME NEW n \in Nat, NEW s, IsStorage(s, n), NEW id \in Nat, NEW cfg \in Nat,
         NEW pr \in Nat
  PROVE  LET t == CreatePending(s, id, cfg, pr)
         IN /\ IsStorage(t, n + 1) /\ DOMAIN t # {}
            /\ DOMAIN s # {} => DOMAIN Before(t) # {}
<1> DEFINE new == IF DOMAIN s = {} THEN 1 ELSE LastVersion(s) + 1
           t == CreatePending(s, id, cfg, pr)
           rls == [id |-> id, status |-> "pending", cfg |-> cfg, pr |-> pr]
<1>1. DOMAIN s # {} => LastVersion(s) \in DOMAIN s /\ LastVersion(s) \in 1..n
  BY LastVersionIsLast, Zenon
<1>2. new \in 1..(n + 1)
  <2>1. CASE DOMAIN s = {}
    BY <2>1
  <2>2. CASE DOMAIN s # {}
    <3>1. new = LastVersion(s) + 1 /\ LastVersion(s) \in 1..n
      BY <1>1, <2>2, Zenon
    <3> HIDE DEF new
    <3> QED BY <3>1
  <2> QED BY Zenon, <2>1, <2>2
<1>3. rls \in Release
  BY Zenon DEF Release, Statuses
<1> HIDE DEF rls
<1>4. DOMAIN s # {} => new # LastVersion(s)
  BY <1>1
<1> HIDE DEF new
<1>5. t = [v \in DOMAIN s \cup {new} |-> IF v = new THEN rls ELSE s[v]]
  BY Zenon DEF CreatePending, new, rls
<1> HIDE DEF t
<1>6. IsStorage(t, n + 1) /\ DOMAIN t = DOMAIN s \cup {new}
  <2>1. DOMAIN t = DOMAIN s \cup {new}
    BY <1>5
  <2>2. \A v \in DOMAIN t : t[v] \in Release
    BY <1>3, <1>5 DEF IsStorage
  <2>3. t \in [DOMAIN t -> Release]
    BY <1>5, <2>1, <2>2
  <2>4. DOMAIN s \subseteq 1..(n + 1)
    BY DEF IsStorage
  <2> QED BY <1>2, <2>1, <2>3, <2>4 DEF IsStorage
<1>7. ASSUME DOMAIN s # {} PROVE DOMAIN Before(t) # {}
  <2>1. DOMAIN Before(t) = DOMAIN t \ {LastVersion(t)}
    BY Zenon DEF Before
  <2>2. LastVersion(s) \in DOMAIN t /\ new \in DOMAIN t
    BY <1>1, <1>6, <1>7
  <2> QED BY <1>4, <1>7, <2>1, <2>2
<1> QED BY <1>6, <1>7, Zenon DEF t

\* The revisions before the last are a storage.
LEMMA BeforeIsStorage ==
  ASSUME NEW n \in Nat, NEW s, IsStorage(s, n)
  PROVE  IsStorage(Before(s), n) /\ DOMAIN Before(s) \subseteq DOMAIN s
BY Zenon DEF IsStorage, Before

(* ------------------------- returning to the loop ------------------------ *)

\* What holds of the reconcile's own variables once it is past the action.
Left == /\ mem' \in Object /\ Justified(mem)'
        /\ IsTrue(mem'.conds, "Stalled") => pc' = "end"
        /\ pc' \in {"end", "post"} /\ next' = "none"
        /\ previous' \subseteq {"release", "test", "unlock", "correct"}
        /\ observed' = {} /\ result' \in Results

\* Leaving an action restores the invariant of the reconcile.
LEMMA LeftIsLocalOK ==
  ASSUME Left
  PROVE  LocalOK' /\ HeldOK'
BY Zenon DEF Left, LocalOK, HeldOK, Phases

\* AtomicRelease.Reconcile returning leaves the loop for good.
LEMMA ReturnLeaves ==
  ASSUME req \in Want, NEW o \in Object, Justified(o), NEW err, Return(o, err)
  PROVE  Left
<1> DEFINE c == Set(o.conds, "Ready", "False", "HealthCheckCanceled", req.gen)
<1>1. req.gen \in Nat /\ o.conds \in Conds
  BY ObjectUpdate DEF Want
<1>2. c \in Conds /\ c["Stalled"] = o.conds["Stalled"]
  <2>1. "Ready" \in CondTypes /\ "False" \in CondStatuses /\ "HealthCheckCanceled" \in Reasons
    BY Names, Zenon
  <2> QED BY <1>1, <2>1, SetType, StalledKept
<1> HIDE DEF c
<1>3. [o EXCEPT !.conds = c] \in Object /\ Justified([o EXCEPT !.conds = c])
  BY <1>2, ObjectUpdate
     DEF Justified, RetriesExceeded, OutOfRetries, InstallExhausted,
         UpgradeExhausted, IsTrue, Object
<1>4. mem' \in Object /\ Justified(mem')
  BY Zenon, <1>3 DEF Return, c
<1>5. ResultOf(err) \in Results
  BY Zenon DEF ResultOf, Results
<1> QED BY Zenon, <1>4, <1>5 DEF Return, Left

\* The loop marks an object as stalled after an action only when a counter
\* is past its limit.
LEMMA AfterActionLeaves ==
  ASSUME req \in Want, LocalOK, next # "none", NEW o, Sound(o), NEW err,
         AfterAction(o, err)
  PROVE  Left
<1>1. /\ o \in Object /\ Justified(o) /\ ~IsTrue(o.conds, "Stalled")
      /\ req.gen \in Nat /\ o.conds \in Conds
  BY SoundIsJustified, ObjectUpdate DEF Sound, Unstalled, Want
<1>2. WithRetry(o) \in Object /\ Justified(WithRetry(o))
  BY <1>1, Names, SoundReconciling, SoundIsJustified DEF WithRetry, Sound
<1> DEFINE notReady == [o EXCEPT !.conds = Set(@, "Ready", "False", "ReconcileError", req.gen)]
           stalled == [o EXCEPT !.conds = MarkStalled(@, "RetriesExceeded", req.gen)]
<1>3. notReady \in Object /\ Justified(notReady)
  BY Zenon, <1>1, Names, SoundSet, SoundIsJustified DEF Sound
<1>4. ASSUME RetriesExhausted(o.status)
      PROVE  stalled \in Object /\ Justified(stalled)
  <2>1. MarkStalled(o.conds, "RetriesExceeded", req.gen) \in Conds
    BY <1>1, Names, MarkType
  <2>2. stalled \in Object /\ stalled.status = o.status
    BY <1>1, <2>1, ObjectUpdate DEF Object
  <2> QED BY <1>4, <2>2 DEF Justified, OutOfRetries, RetriesExhausted
<1> DEFINE goesOn == /\ ~MustStop(ActionType(next))
                     /\ mem' = o /\ pc' = "post"
                     /\ previous' = previous \cup {ActionType(next)}
                     /\ next' = "none" /\ observed' = {}
                     /\ UNCHANGED result
<1>5. \/ \E e : Return(WithRetry(o), e)
      \/ \E e : Return(o, e) \/ Return(notReady, e)
      \/ goesOn
      \/ RetriesExhausted(o.status) /\ \E e : Return(stalled, e)
  <2> HIDE DEF notReady, stalled, goesOn
  <2> QED BY Zenon DEF AfterAction, notReady, stalled, goesOn
<1>6. ASSUME goesOn PROVE Left
  <2>1. ActionType(next) \in {"release", "remediate", "test", "unlock", "correct"}
    BY Zenon DEF ActionType, LocalOK, Actions
  <2>2. ActionType(next) # "remediate"
    BY <1>6 DEF MustStop
  <2> QED BY Zenon, <1>1, <1>6, <2>1, <2>2 DEF Left, LocalOK
<1> HIDE DEF notReady, stalled, goesOn
<1> QED BY SMTT(30), <1>1, <1>2, <1>3, <1>4, <1>5, <1>6, ReturnLeaves

(* --------------------- what the action reconcilers do -------------------- *)

\* Install and Upgrade start by clearing what the last action reported.
LEMMA BegunSound ==
  ASSUME NEW o, Sound(o), NEW a \in {"install", "upgrade"}
  PROVE  Sound(Begun(o, a))
<1>1. o.status \in Status /\ o.conds \in Conds /\ ~IsTrue(o.conds, "Stalled")
  BY ObjectUpdate DEF Sound, Unstalled
<1> DEFINE st == [o.status EXCEPT !.lastAction = a,
                                  !.history = IF a = "install" THEN <<>> ELSE @]
           d == Delete(o.conds, "TestSuccess")
<1>2. st \in Status
  <2> DEFINE h == IF a = "install" THEN <<>> ELSE o.status.history
  <2>1. h \in Seq(Snapshot)
    BY <1>1 DEF Status
  <2> HIDE DEF h
  <2>2. [o.status EXCEPT !.lastAction = a, !.history = h] \in Status
    BY Zenon, <1>1, <2>1 DEF Status
  <2> QED BY <2>2, Zenon DEF h
<1>3. /\ {"TestSuccess", "Remediated"} \subseteq CondTypes \ {"Stalled"}
      /\ "True" \in CondStatuses /\ "Progressing" \in Reasons /\ 0 \in Nat
  BY Names
<1>4. d \in Conds /\ ~IsTrue(d, "Stalled")
  BY <1>1, <1>3, CondsSound
<1> HIDE DEF d
<1>5. Delete(d, "Remediated") \in Conds /\ ~IsTrue(Delete(d, "Remediated"), "Stalled")
  BY <1>3, <1>4, CondsSound
<1> HIDE DEF st
<1> QED BY <1>2, <1>5, SoundMade DEF Begun, st, d

\* The failure handlers of install and upgrade do not stall the object.
LEMMA ReleaseFailedSound ==
  ASSUME req \in Want, NEW o, Sound(o), NEW a, NEW n \in Nat,
         NEW V \in SUBSET (0..n), NEW obs \in [V -> Release]
  PROVE  Sound(ReleaseFailed(o, a, obs))
<1>1. /\ o.status \in Status /\ o.conds \in Conds /\ ~IsTrue(o.conds, "Stalled")
      /\ o.status.history \in History /\ req.gen \in Nat
  BY ObjectUpdate DEF Sound, Unstalled, Want
<1> DEFINE st == [o.status EXCEPT !.history = recordOnObject(@, obs)]
           c == Set(o.conds, "Released", "False", FailedReason(a), req.gen)
<1>2. st \in Status
  BY Zenon, <1>1, RecordType, StatusUpdate
<1> HIDE DEF st
<1>3. (IF DOMAIN obs = {} THEN st ELSE IncrementFailureCount(st)) \in Status
  BY <1>2, StatusUpdate
<1>4. /\ "Released" \in CondTypes \ {"Stalled"} /\ "False" \in CondStatuses
      /\ FailedReason(a) \in Reasons
  BY Names DEF FailedReason
<1>5. c \in Conds /\ ~IsTrue(c, "Stalled")
  BY <1>1, <1>4, CondsSound
<1> HIDE DEF c
<1> QED BY <1>3, <1>5, SoundMade DEF ReleaseFailed, st, c

\* The success handlers of install and upgrade do not stall the object.
LEMMA ReleaseSucceededSound ==
  ASSUME req \in Want, NEW o, Sound(o), NEW a, NEW n \in Nat,
         NEW V \in SUBSET (0..n), NEW obs \in [V -> Release]
  PROVE  Sound(ReleaseSucceeded(o, a, obs))
<1>1. /\ o.status \in Status /\ o.conds \in Conds /\ ~IsTrue(o.conds, "Stalled")
      /\ o.status.history \in History /\ req.gen \in Nat /\ req.pr \in Nat
  BY ObjectUpdate, Zenon DEF Sound, Unstalled, Want
<1> DEFINE st == [o.status EXCEPT !.history = recordOnObject(@, obs),
                                  !.observedPR = req.pr]
           c == Set(o.conds, "Released", "True", SucceededReason(a), req.gen)
           d == Set(c, "TestSuccess", "Unknown", "AwaitingTests", req.gen)
<1>2. st \in Status
  <2>1. recordOnObject(o.status.history, obs) \in History
    BY Zenon, <1>1, RecordType
  <2> QED BY Zenon, <1>1, <2>1 DEF Status, History
<1> HIDE DEF st
<1>3. (IF GetActiveRetry(st) THEN ClearFailures(st) ELSE st) \in Status
  BY <1>2, StatusUpdate
<1>4. /\ {"Released", "TestSuccess"} \subseteq CondTypes \ {"Stalled"}
      /\ {"True", "Unknown"} \subseteq CondStatuses
      /\ SucceededReason(a) \in Reasons /\ "AwaitingTests" \in Reasons
  BY Names, Zenon DEF SucceededReason
<1>5. c \in Conds /\ ~IsTrue(c, "Stalled")
  BY SMTT(30), <1>1, <1>4, CondsSound
<1> HIDE DEF c
<1>6. d \in Conds /\ ~IsTrue(d, "Stalled")
  BY <1>1, <1>4, <1>5, CondsSound
<1> HIDE DEF d
<1>7. /\ (IF TestEnable /\ ~HasBeenTested(Latest(st.history)) THEN d ELSE c) \in Conds
      /\ ~IsTrue(IF TestEnable /\ ~HasBeenTested(Latest(st.history)) THEN d ELSE c, "Stalled")
  BY <1>5, <1>6
<1> QED BY <1>3, <1>7, SoundMade DEF ReleaseSucceeded, st, c, d

\* summarize does not stall the object.
LEMMA SummarizedSound ==
  ASSUME req \in Want, NEW o, Sound(o)
  PROVE  Sound(Summarized(o))
<1>1. /\ "Ready" \in CondTypes \ {"Stalled"} /\ "True" \in CondStatuses
      /\ "Progressing" \in Reasons /\ req.gen \in Nat
  BY Names, Zenon DEF Want
<1> QED BY Zenon, <1>1, SoundSet DEF Summarized

\* Install and upgrade hand a sound object back to the loop.
LEMMA ReleaseDoneLeaves ==
  ASSUME req \in Want, LocalOK, next # "none", NEW o, Sound(o), NEW err,
         NEW n \in Nat, NEW s, IsStorage(s, n), NEW V \in SUBSET (DOMAIN s),
         ReleaseDone(o, err, s, V)
  PROVE  Left
<1> DEFINE obs == [v \in V |-> s[v]]
           p == IF err = "" THEN ReleaseSucceeded(o, next, obs)
                            ELSE ReleaseFailed(o, next, obs)
           e == IF V = {} THEN err ELSE ""
<1>1. V \in SUBSET (0..n) /\ obs \in [V -> Release]
  BY DEF IsStorage
<1> HIDE DEF obs
<1>2. Sound(p)
  BY Zenon, <1>1, ReleaseSucceededSound, ReleaseFailedSound
<1>3. AfterAction(Summarized(p), e)
  BY Zenon DEF ReleaseDone, obs
<1> HIDE DEF p, e
<1> QED BY <1>2, <1>3, SummarizedSound, AfterActionLeaves

\* RollbackRemediation hands a sound object back to the loop.
LEMMA RollbackDoneLeaves ==
  ASSUME req \in Want, LocalOK, next # "none", NEW o, Sound(o), NEW err,
         NEW n \in Nat, NEW s, IsStorage(s, n), NEW V \in SUBSET (DOMAIN s),
         RollbackDone(o, err, s, V)
  PROVE  Left
<1>1. /\ o.status \in Status /\ o.conds \in Conds /\ ~IsTrue(o.conds, "Stalled")
      /\ o.status.history \in History /\ req.gen \in Nat
  BY ObjectUpdate DEF Sound, Unstalled, Want
<1> DEFINE top == GreatestOf(V)
           rest == V \ {top}
           h1 == observeRollback(o.status.history, top, s[top])
           h == RolledBackHistory(o.status.history, s, V)
           c == IF err = "" THEN Set(o.conds, "Remediated", "True", "RollbackSucceeded", req.gen)
                            ELSE Set(o.conds, "Remediated", "False", "RollbackFailed", req.gen)
           e == IF Digest(Latest(h)) = Digest(Latest(o.status.history)) THEN err ELSE ""
           p == [status |-> [o.status EXCEPT !.history = h], conds |-> c]
<1>2. V \in SUBSET (0..n) /\ \A v \in V : v \in Nat /\ s[v] \in Release
  BY DEF IsStorage
<1>3. ASSUME NEW W \in SUBSET V, W # {}, NEW k \in History
      PROVE  observeRollback(k, GreatestOf(W), s[GreatestOf(W)]) \in History
  <2>1. GreatestOf(W) \in W
    BY Zenon, <1>2, <1>3, GreatestOfIsGreatest
  <2>2. GreatestOf(W) \in Nat /\ s[GreatestOf(W)] \in Release
    BY <1>2, <2>1
  <2> QED BY <2>2, ObserveType
<1>4. h \in History
  <2>1. ASSUME V # {} PROVE h1 \in History
    BY <1>1, <1>3, <2>1
  <2> HIDE DEF h1
  <2>2. rest \in SUBSET V
    OBVIOUS
  <2> HIDE DEF rest
  <2>3. ASSUME V # {}, rest # {}
        PROVE  observeRollback(h1, GreatestOf(rest), s[GreatestOf(rest)]) \in History
    BY SMTT(30), <1>3, <2>1, <2>2, <2>3
  <2>4. h = IF V = {} THEN o.status.history ELSE IF rest = {} THEN h1
            ELSE observeRollback(h1, GreatestOf(rest), s[GreatestOf(rest)])
    BY Zenon DEF RolledBackHistory, h1, rest
  <2> QED BY SMTT(30), <1>1, <2>1, <2>3, <2>4
<1> HIDE DEF h
<1>5. /\ "Remediated" \in CondTypes \ {"Stalled"} /\ {"True", "False"} \subseteq CondStatuses
      /\ {"RollbackSucceeded", "RollbackFailed"} \subseteq Reasons
  BY Names
<1>6. c \in Conds /\ ~IsTrue(c, "Stalled")
  BY Zenon, <1>1, <1>5, CondsSound
<1> HIDE DEF c
<1>7. Sound(p)
  BY SMTT(30), <1>1, <1>4, <1>6, StatusUpdate, SoundMade
<1>8. AfterAction(Summarized(p), e)
  BY Zenon DEF RollbackDone, h, c
<1> HIDE DEF p, e
<1> QED BY SMTT(30), <1>7, <1>8, SummarizedSound, AfterActionLeaves

\* UninstallRemediation hands a sound object back to the loop.
LEMMA UninstallDoneLeaves ==
  ASSUME req \in Want, LocalOK, next # "none", Sound(mem), NEW h \in History,
         NEW err0, UninstallDone(h, err0)
  PROVE  Left
<1>1. /\ mem.status \in Status /\ mem.conds \in Conds
      /\ ~IsTrue(mem.conds, "Stalled") /\ req.gen \in Nat
  BY ObjectUpdate DEF Sound, Unstalled, Want
<1> DEFINE cur == Latest(mem.status.history)
           unchanged == Digest(Latest(h)) = Digest(cur)
           err == IF observed # {} /\ cur.ver \notin observed THEN "ErrReleaseMismatch"
                  ELSE IF err0 = "" /\ unchanged THEN "ErrNoStorageUpdate" ELSE err0
           c == IF err = ""
                THEN Set(mem.conds, "Remediated", "True", "UninstallSucceeded", req.gen)
                ELSE Set(mem.conds, "Remediated", "False", "UninstallFailed", req.gen)
           e == IF unchanged THEN err ELSE ""
           p == [status |-> [mem.status EXCEPT !.history = h], conds |-> c]
<1>2. AfterAction(p, e)
  BY Zenon DEF UninstallDone
<1> HIDE DEF err, e
<1>3. /\ "Remediated" \in CondTypes \ {"Stalled"} /\ {"True", "False"} \subseteq CondStatuses
      /\ {"UninstallSucceeded", "UninstallFailed"} \subseteq Reasons
  BY Names
<1>4. c \in Conds /\ ~IsTrue(c, "Stalled")
  BY Zenon, <1>1, <1>3, CondsSound
<1> HIDE DEF c
<1>5. Sound(p)
  BY SMTT(30), <1>1, <1>4, StatusUpdate, SoundMade
<1> HIDE DEF p
<1> QED BY <1>2, <1>5, AfterActionLeaves

\* Test hands a sound object back to the loop.
LEMMA TestDoneLeaves ==
  ASSUME req \in Want, LocalOK, StoreOK, next # "none", Sound(mem),
         NEW phase \in TestPhases, NEW err0, TestDone(phase, err0)
  PROVE  Left
<1> DEFINE h == mem.status.history
           last == LastVersion(storage)
           h1 == IF phase = "untested" \/ DOMAIN storage = {} THEN h
                 ELSE observeTest(h, last, storage[last], phase)
           err == IF DOMAIN storage # {} /\ Latest(h).ver # last
                  THEN "ErrReleaseMismatch" ELSE err0
           o == [mem EXCEPT !.status.history = h1]
           done == IF err = "" THEN TestSucceeded(o) ELSE TestFailed(o)
           e == IF HasBeenTested(Latest(h1)) THEN "" ELSE err
<1>1. AfterAction(Summarized(done), e)
  BY Zenon DEF TestDone
<1> HIDE DEF err, e
<1>2. h1 \in History
  <2>1. h \in History
    BY ObjectUpdate DEF Sound
  <2> HIDE DEF h
  <2>2. nextId - 1 \in Nat /\ IsStorage(storage, nextId - 1)
    BY DEF StoreOK
  <2>3. DOMAIN storage # {} => last \in Nat /\ storage[last] \in Release
    BY <2>2, LastVersionIsLast DEF Last
  <2> QED BY <2>1, <2>3, ObserveTestType
<1> HIDE DEF h1
<1>3. Sound(o)
  BY <1>2, SoundHistory
<1> HIDE DEF o
<1>4. /\ "TestSuccess" \in CondTypes \ {"Stalled"} /\ {"True", "False"} \subseteq CondStatuses
      /\ {"TestSucceeded", "TestFailed"} \subseteq Reasons /\ req.gen \in Nat
  BY Names DEF Want
<1>5. Sound(TestSucceeded(o))
  BY Zenon, <1>3, <1>4, SoundSet DEF TestSucceeded
<1>6. Sound(TestFailed(o))
  <2>1. /\ o.status \in Status /\ o.conds \in Conds /\ ~IsTrue(o.conds, "Stalled")
    BY <1>3, ObjectUpdate DEF Sound, Unstalled
  <2> DEFINE c == Set(o.conds, "TestSuccess", "False", "TestFailed", req.gen)
             st == IF /\ HasBeenTested(Latest(o.status.history))
                      /\ HasRemediation(o.status) /\ ~MustIgnoreTestFailures(o.status)
                   THEN IncrementFailureCount(o.status) ELSE o.status
  <2>2. c \in Conds /\ ~IsTrue(c, "Stalled")
    BY <1>4, <2>1, CondsSound
  <2>3. st \in Status
    BY <2>1, StatusUpdate
  <2> HIDE DEF c, st
  <2> QED BY <2>2, <2>3, SoundMade DEF TestFailed, c, st
<1>7. Sound(done)
  BY Zenon, <1>5, <1>6
<1> HIDE DEF done
<1> QED BY SMTT(30), <1>1, <1>7, SummarizedSound, AfterActionLeaves
=============================================================================
