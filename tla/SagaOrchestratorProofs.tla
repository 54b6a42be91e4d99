----------------------- MODULE SagaOrchestratorProofs -----------------------
(***************************************************************************)
(* Proofs about SagaOrchestrator, for any number of tasks, any plan and    *)
(* any bounds of the environment: who holds the lock; the types; what a    *)
(* succeeded booking stands for; what happens once; what compensated says. *)
(* The later parts rest on the first two.                                  *)
(***************************************************************************)
EXTENDS SagaOrchestrator, SequenceTheorems, FiniteSetTheorems, TLAPS

\* A compensation that a resume has asked for never gets past the lock: the
\* resume holds it (BookingFlow.resume calling _compensate_saga).
ResumeNeverCompensates ==
    \A t \in Tasks :
        pc[t] \in {"c_mark", "c_step", "c_call", "c_history", "c_idem", "c_summary"} =>
            after[t] \notin {"resume_timeout", "resume_failed"}

\* The types the lock argument needs.
LockTypeOK ==
    /\ pc \in [Tasks -> Pc] /\ after \in [Tasks -> Caller]
    /\ lock \in Tasks \cup {Free, Orphan}

LockInv == LockTypeOK /\ LockDiscipline /\ ResumeNeverCompensates

\* Initially nobody is inside and the key does not exist.
LEMMA LockInit == Init => LockInv
BY LockAssumption DEF Init, LockInv, LockTypeOK, LockDiscipline, ResumeNeverCompensates,
   Critical, Pc, StartPc, RunPc, CompPc, ResumePc, OtherPc, Caller

\* The steps of start_saga keep the lock invariant.
LEMMA LockStart == ASSUME LockInv, NEW t \in Tasks, Start(t) PROVE LockInv'
<1> USE DEF LockInv, LockTypeOK, LockDiscipline, ResumeNeverCompensates, Critical,
        Pc, StartPc, RunPc, CompPc, ResumePc, OtherPc, Caller, At, Goto, Return, Release,
        shared, budget
<1> USE LockAssumption
<1>1. CASE start_saga(t) BY <1>1 DEF start_saga
<1>2. CASE start_saga_check(t) BY <1>2 DEF start_saga_check
<1>3. CASE start_saga_acquired(t) BY <1>3 DEF start_saga_acquired
<1>4. CASE start_saga_busy(t) BY <1>4 DEF start_saga_busy
<1>5. CASE start_saga_insert(t) BY <1>5 DEF start_saga_insert
<1>6. CASE start_saga_record(t) BY <1>6 DEF start_saga_record
<1>7. CASE start_saga_cas(t) BY <1>7 DEF start_saga_cas
<1>8. CASE start_saga_release(t) BY <1>8 DEF start_saga_release
<1> QED BY <1>1, <1>2, <1>3, <1>4, <1>5, <1>6, <1>7, <1>8 DEF Start

\* The runner neither takes nor gives back the lock.
LEMMA LockRun == ASSUME LockInv, NEW t \in Tasks, Run(t) PROVE LockInv'
<1> USE DEF LockInv, LockTypeOK, LockDiscipline, ResumeNeverCompensates, Critical,
        Pc, StartPc, RunPc, CompPc, ResumePc, OtherPc, Caller, At, Goto, Return, Release,
        Compensate, AttemptCompensation, shared, budget
<1> USE LockAssumption
<1>1. CASE run_saga_timeout(t) BY <1>1 DEF run_saga_timeout
<1>2. CASE run_saga_fetch(t) BY <1>2 DEF run_saga_fetch
<1>3. CASE run_saga_mark(t) BY <1>3 DEF run_saga_mark
<1>4. CASE flow_step_ok(t) BY <1>4 DEF flow_step_ok
<1>5. CASE flow_step_error(t) BY <1>5 DEF flow_step_error
<1>6. CASE flow_step_breaker(t) BY <1>6 DEF flow_step_breaker
<1>7. CASE flow_save(t) BY <1>7 DEF flow_save
<1>8. CASE flow_finish(t) BY <1>8 DEF flow_finish
<1>9. CASE flow_fail(t) BY <1>9 DEF flow_fail
<1>10. CASE run_saga_except(t) BY <1>10 DEF run_saga_except
<1>11. CASE persist_dlq_message(t) BY <1>11 DEF persist_dlq_message
<1>12. CASE flow_step_partial(t) BY <1>12 DEF flow_step_partial
<1>13. CASE flow_partial(t) BY <1>13 DEF flow_partial
<1> QED BY <1>1, <1>2, <1>3, <1>4, <1>5, <1>6, <1>7, <1>8, <1>9, <1>10, <1>11, <1>12, <1>13 DEF Run

\* The steps of _compensate_saga keep it.
LEMMA LockCompensate == ASSUME LockInv, NEW t \in Tasks, CompensateStep(t) PROVE LockInv'
<1> USE DEF LockInv, LockTypeOK, LockDiscipline, ResumeNeverCompensates, Critical,
        Pc, StartPc, RunPc, CompPc, ResumePc, OtherPc, Caller, At, Goto, Return, Release,
        CompensateReturns, CompensateRaises,
        Leave, Settle, shared, budget
<1> USE LockAssumption
<1>1. CASE compensate_read(t) BY <1>1 DEF compensate_read
<1>2. CASE compensate_acquired(t) BY <1>2 DEF compensate_acquired
<1>3. CASE compensate_busy(t) BY <1>3 DEF compensate_busy
<1>4. CASE compensate_mark(t) BY <1>4 DEF compensate_mark
<1>5. CASE compensate_skip(t) BY <1>5 DEF compensate_skip
<1>6. CASE compensate_pass(t) BY <1>6 DEF compensate_pass
<1>7. CASE compensate_step_ok(t) BY <1>7 DEF compensate_step_ok
<1>8. CASE compensate_step_error(t) BY <1>8 DEF compensate_step_error
<1>9. CASE compensate_history(t) BY <1>9 DEF compensate_history
<1>10. CASE compensate_idem(t) BY <1>10 DEF compensate_idem
<1>11. CASE compensate_finish(t) BY <1>11 DEF compensate_finish
<1>12. CASE compensate_summary(t) BY <1>12 DEF compensate_summary
<1>13. CASE compensate_abort(t) BY <1>13 DEF compensate_abort
<1>14. CASE compensate_call(t) BY <1>14 DEF compensate_call
<1>15. CASE compensate_step_retry(t) BY <1>15 DEF compensate_step_retry
<1> QED BY <1>1, <1>2, <1>3, <1>4, <1>5, <1>6, <1>7, <1>8, <1>9, <1>10, <1>11, <1>12, <1>13, <1>14, <1>15 DEF CompensateStep

\* The steps of resume_saga_on_confirm keep it.
LEMMA LockResume == ASSUME LockInv, NEW t \in Tasks, Resume(t) PROVE LockInv'
<1> USE DEF LockInv, LockTypeOK, LockDiscipline, ResumeNeverCompensates, Critical,
        Pc, StartPc, RunPc, CompPc, ResumePc, OtherPc, Caller, At, Goto, Return, Release,
        Compensate, shared, budget
<1> USE LockAssumption
<1>1. CASE resume_saga(t) BY <1>1 DEF resume_saga
<1>2. CASE resume_saga_check(t) BY <1>2 DEF resume_saga_check
<1>3. CASE resume_saga_acquired(t) BY <1>3 DEF resume_saga_acquired
<1>4. CASE resume_saga_busy(t) BY <1>4 DEF resume_saga_busy
<1>5. CASE resume_saga_timeout(t) BY <1>5 DEF resume_saga_timeout
<1>6. CASE resume_saga_fetch(t) BY <1>6 DEF resume_saga_fetch
<1>7. CASE booking_confirm_ok(t) BY <1>7 DEF booking_confirm_ok
<1>8. CASE booking_confirm_error(t) BY <1>8 DEF booking_confirm_error
<1>9. CASE booking_confirm_breaker(t) BY <1>9 DEF booking_confirm_breaker
<1>10. CASE booking_succeed(t) BY <1>10 DEF booking_succeed
<1>11. CASE resume_saga_record(t) BY <1>11 DEF resume_saga_record
<1>12. CASE resume_saga_except(t) BY <1>12 DEF resume_saga_except
<1>13. CASE resume_saga_release(t) BY <1>13 DEF resume_saga_release
<1> QED BY <1>1, <1>2, <1>3, <1>4, <1>5, <1>6, <1>7, <1>8, <1>9, <1>10, <1>11, <1>12, <1>13 DEF Resume

\* The steps of the recovery and replay calls keep it.
LEMMA LockRecover == ASSUME LockInv, NEW t \in Tasks, Recover(t) PROVE LockInv'
<1> USE DEF LockInv, LockTypeOK, LockDiscipline, ResumeNeverCompensates, Critical,
        Pc, StartPc, RunPc, CompPc, ResumePc, OtherPc, Caller, At, Goto, Return, Release,
        Compensate, shared, budget
<1> USE LockAssumption
<1>1. CASE recover_stuck_saga(t) BY <1>1 DEF recover_stuck_saga
<1>2. CASE recover_check(t) BY <1>2 DEF recover_check
<1>3. CASE operator_recover(t) BY <1>3 DEF operator_recover
<1>4. CASE replay_saga(t) BY <1>4 DEF replay_saga
<1>5. CASE replay_mark(t) BY <1>5 DEF replay_mark
<1> QED BY <1>1, <1>2, <1>3, <1>4, <1>5 DEF Recover

\* A crash leaves the key behind as an orphan.
LEMMA LockCrash == ASSUME LockInv, NEW t \in Tasks, crash(t) PROVE LockInv'
BY LockAssumption DEF LockInv, LockTypeOK, LockDiscipline, ResumeNeverCompensates, Critical,
   Pc, StartPc, RunPc, CompPc, ResumePc, OtherPc, Caller, Goto, Return, crash

\* The environment touches no task, and only an orphaned key.
LEMMA LockEnvironment == ASSUME LockInv, Environment PROVE LockInv'
<1> USE DEF LockInv, LockTypeOK, LockDiscipline, ResumeNeverCompensates, Critical, locals
<1> USE LockAssumption
<1>1. CASE archive_waiting_confirm BY <1>1 DEF archive_waiting_confirm
<1>2. CASE lock_expire BY <1>2 DEF lock_expire
<1>3. CASE db_fails BY <1>3 DEF db_fails
<1>4. CASE db_returns BY <1>4 DEF db_returns
<1>5. CASE saga_expires BY <1>5 DEF saga_expires
<1>6. CASE idempotency_expires BY <1>6 DEF idempotency_expires
<1> QED BY <1>1, <1>2, <1>3, <1>4, <1>5, <1>6 DEF Environment

LEMMA LockStutter == ASSUME LockInv, UNCHANGED vars PROVE LockInv'
BY DEF LockInv, LockTypeOK, LockDiscipline, ResumeNeverCompensates, Critical, vars, shared, locals

\* The lock invariant holds in every reachable state.
THEOREM LockInvariant == Spec => []LockInv
<1>1. Init => LockInv BY LockInit
<1>2. LockInv /\ [Next]_vars => LockInv'
  <2> SUFFICES ASSUME LockInv, [Next]_vars PROVE LockInv' OBVIOUS
  <2>1. ASSUME NEW t \in Tasks, Start(t) \/ Run(t) \/ CompensateStep(t) PROVE LockInv'
    BY <2>1, LockStart, LockRun, LockCompensate
  <2>2. ASSUME NEW t \in Tasks, Resume(t) \/ Recover(t) \/ crash(t) PROVE LockInv'
    BY <2>2, LockResume, LockRecover, LockCrash
  <2>3. CASE Environment BY <2>3, LockEnvironment
  <2>4. CASE UNCHANGED vars BY <2>4, LockStutter
  <2> QED BY <2>1, <2>2, <2>3, <2>4 DEF Next
<1> QED BY <1>1, <1>2, PTL DEF Spec

\* For any number of tasks, the lock belongs to exactly the task that is inside
\* a protected section of the orchestrator.
THEOREM LockDisciplineHolds == Spec => []LockDiscipline
BY LockInvariant, PTL DEF LockInv

\* No failed or timed out resume ever undoes a step.
THEOREM ResumeNeverCompensatesHolds == Spec => []ResumeNeverCompensates
BY LockInvariant, PTL DEF LockInv

-----------------------------------------------------------------------------
(* The protected sections as a lock.                                         *)

\* What the tasks in a protected section are to SagaMutex, the lock that
\* DistributedLock implements.
Section == INSTANCE SagaMutex WITH holders <- {t \in Tasks : Critical(t)}

\* The key is taken when it does not exist, and given back before it is taken again.
HandsOver == lock' = lock \/ lock = Free \/ lock' \in {Free, Orphan}

\* start_saga takes the key once and gives back its own.
LEMMA HandStart == ASSUME NEW t \in Tasks, Start(t) PROVE HandsOver
<1> USE DEF HandsOver, Release, shared
<1>1. CASE \/ start_saga(t) \/ start_saga_check(t) \/ start_saga_acquired(t)
           \/ start_saga_busy(t) \/ start_saga_insert(t)
  BY <1>1 DEF start_saga, start_saga_check, start_saga_acquired, start_saga_busy,
     start_saga_insert
<1>2. CASE \/ start_saga_record(t) \/ start_saga_cas(t) \/ start_saga_release(t)
  BY <1>2 DEF start_saga_record, start_saga_cas, start_saga_release
<1> QED BY <1>1, <1>2 DEF Start

\* The runner leaves the key alone.
LEMMA HandRun == ASSUME NEW t \in Tasks, Run(t) PROVE HandsOver
<1> USE DEF HandsOver, Release, shared
<1>1. CASE \/ run_saga_timeout(t) \/ run_saga_fetch(t) \/ run_saga_mark(t)
           \/ flow_step_ok(t) \/ flow_step_error(t)
  BY <1>1 DEF run_saga_timeout, run_saga_fetch, run_saga_mark, flow_step_ok,
     flow_step_error
<1>2. CASE \/ flow_step_breaker(t) \/ flow_save(t) \/ flow_finish(t) \/ flow_fail(t)
           \/ run_saga_except(t)
  BY <1>2 DEF flow_step_breaker, flow_save, flow_finish, flow_fail, run_saga_except
<1>3. CASE \/ flow_step_partial(t) \/ flow_partial(t) \/ persist_dlq_message(t)
  BY <1>3 DEF flow_step_partial, flow_partial, persist_dlq_message
<1> QED BY <1>1, <1>2, <1>3 DEF Run

\* A compensation takes the key once and gives back its own.
LEMMA HandCompensate == ASSUME NEW t \in Tasks, CompensateStep(t) PROVE HandsOver
<1> USE DEF HandsOver, Release, Leave, Settle, CompensateReturns, CompensateRaises, shared
<1>1. CASE \/ compensate_read(t) \/ compensate_acquired(t) \/ compensate_busy(t)
           \/ compensate_mark(t) \/ compensate_skip(t)
  BY <1>1 DEF compensate_read, compensate_acquired, compensate_busy, compensate_mark,
     compensate_skip
<1>2. CASE \/ compensate_pass(t) \/ compensate_step_ok(t) \/ compensate_step_error(t)
           \/ compensate_history(t) \/ compensate_idem(t)
  BY <1>2 DEF compensate_pass, compensate_step_ok, compensate_step_error,
     compensate_history, compensate_idem
<1>3. CASE \/ compensate_call(t) \/ compensate_step_retry(t)
           \/ compensate_finish(t) \/ compensate_summary(t) \/ compensate_abort(t)
  BY <1>3 DEF compensate_call, compensate_step_retry, compensate_finish,
     compensate_summary, compensate_abort
<1> QED BY <1>1, <1>2, <1>3 DEF CompensateStep

\* So does a resume.
LEMMA HandResume == ASSUME NEW t \in Tasks, Resume(t) PROVE HandsOver
<1> USE DEF HandsOver, Release, shared
<1>1. CASE \/ resume_saga(t) \/ resume_saga_check(t) \/ resume_saga_acquired(t)
           \/ resume_saga_busy(t) \/ resume_saga_timeout(t)
  BY <1>1 DEF resume_saga, resume_saga_check, resume_saga_acquired, resume_saga_busy,
     resume_saga_timeout
<1>2. CASE \/ resume_saga_fetch(t) \/ booking_confirm_ok(t) \/ booking_confirm_error(t)
           \/ booking_confirm_breaker(t) \/ booking_succeed(t)
  BY <1>2 DEF resume_saga_fetch, booking_confirm_ok, booking_confirm_error,
     booking_confirm_breaker, booking_succeed
<1>3. CASE \/ resume_saga_record(t) \/ resume_saga_except(t) \/ resume_saga_release(t)
  BY <1>3 DEF resume_saga_record, resume_saga_except, resume_saga_release
<1> QED BY <1>1, <1>2, <1>3 DEF Resume

\* Recovery and replay leave the key alone.
LEMMA HandRecover == ASSUME NEW t \in Tasks, Recover(t) PROVE HandsOver
<1> USE DEF HandsOver, shared
<1>1. CASE \/ recover_stuck_saga(t) \/ recover_check(t) \/ operator_recover(t)
           \/ replay_saga(t) \/ replay_mark(t)
  BY <1>1 DEF recover_stuck_saga, recover_check, operator_recover, replay_saga,
     replay_mark
<1> QED BY <1>1 DEF Recover

\* No step lets one task into a protected section in place of another.
LEMMA HandStep == [Next]_vars => HandsOver
<1> SUFFICES ASSUME [Next]_vars PROVE HandsOver OBVIOUS
<1>1. ASSUME NEW t \in Tasks, crash(t) PROVE HandsOver BY <1>1 DEF crash, HandsOver
<1>2. CASE Environment
  BY <1>2 DEF Environment, archive_waiting_confirm, lock_expire, db_fails, db_returns,
              saga_expires, idempotency_expires, HandsOver
<1>3. CASE UNCHANGED vars BY <1>3 DEF vars, shared, HandsOver
<1> QED BY <1>1, <1>2, <1>3, HandStart, HandRun, HandCompensate, HandResume, HandRecover DEF Next

\* The protected sections of the orchestrator are a lock as SagaMutex has it: what
\* it relies on is what DistributedLock implements, crashes and orphaned keys included.
THEOREM SectionsAreMutexHolds == Spec => Section!Spec
<1> DEFINE Inner == {t \in Tasks : Critical(t)}
<1>1. Init /\ LockInv => Section!Init
  <2> SUFFICES ASSUME Init, LockInv PROVE Inner = {} BY DEF Section!Init
  <2>1. lock = Free BY DEF Init
  <2> QED BY <2>1, LockAssumption DEF LockInv, LockDiscipline
<1>2. LockInv /\ LockInv' /\ [Next]_vars => [Section!Next]_Inner
  <2> SUFFICES ASSUME LockInv, LockInv', [Next]_vars
               PROVE  Inner' = Inner \/ \E t \in Tasks : Section!Acquire(t) \/ Section!Release(t)
    BY DEF Section!Next
  <2>1. HandsOver BY HandStep
  <2>2. /\ lock \in Tasks \cup {Free, Orphan} /\ lock' \in Tasks \cup {Free, Orphan}
        /\ \A t \in Tasks : Critical(t) <=> lock = t
        /\ \A t \in Tasks : Critical(t)' <=> lock' = t
    BY DEF LockInv, LockTypeOK, LockDiscipline
  <2>3. Inner = {t \in Tasks : lock = t} /\ Inner' = {t \in Tasks : lock' = t} BY <2>2
  <2> HIDE DEF Inner
  <2>4. CASE lock' = lock BY <2>3, <2>4
  <2>5. CASE lock \notin Tasks /\ lock' \notin Tasks
    <3>1. Inner = {} /\ Inner' = {} BY <2>3, <2>5
    <3> QED BY <3>1
  <2>6. CASE lock \notin Tasks /\ lock' \in Tasks
    <3>1. Inner = {} /\ Inner' = {lock'} BY <2>3, <2>6
    <3>2. Section!Acquire(lock') BY <3>1 DEF Section!Acquire, Inner
    <3> QED BY <2>6, <3>2
  <2>7. CASE lock \in Tasks /\ lock' \notin Tasks
    <3>1. Inner = {lock} /\ Inner' = {} BY <2>3, <2>7
    <3>2. Section!Release(lock) BY <3>1 DEF Section!Release, Inner
    <3> QED BY <2>7, <3>2
  <2> QED BY <2>1, <2>2, <2>4, <2>5, <2>6, <2>7, LockAssumption DEF HandsOver
<1> QED BY <1>1, <1>2, LockInvariant, PTL DEF Spec, Section!Spec

-----------------------------------------------------------------------------
(* Type correctness, for any plan, any number of tasks and any faults.       *)

\* Every record points at an effect that exists.
InRange(recs) == \A i \in 1..Len(recs) : recs[i].eff \in 1..Len(world)

\* TypeOK, and what it alone is too weak to keep: the position in the plan and
\* the records left to undo exist, and so do the effects records point at.
RowOK ==
    /\ state \in SagaState /\ steps \in Seq(StepRecord)
    /\ world \in Seq(Effect) /\ InRange(steps)
KeysOK ==
    /\ lock \in Tasks \cup {Free, Orphan} /\ history \in SUBSET STRING
    /\ idem \in [start : BOOLEAN, resume : ResumeResult, comp : SUBSET STRING]
CountsOK ==
    /\ expired \in BOOLEAN /\ dlq \in BOOLEAN /\ db \in {"up", "down"}
    /\ crashes \in Nat /\ outages \in Nat /\ replays \in Nat
ControlOK ==
    /\ pc \in [Tasks -> Pc] /\ after \in [Tasks -> Caller]
    /\ at \in [Tasks -> 1..Len(Plan)] /\ retry \in [Tasks -> Nat]
    /\ mine \in [Tasks -> BOOLEAN] /\ res \in [Tasks -> ResumeResult]
RecordsOK ==
    /\ snap \in [Tasks -> Seq(StepRecord)] /\ \A t \in Tasks : InRange(snap[t])
SetsOK ==
    /\ cops \in [Tasks -> SUBSET STRING] /\ todo \in [Tasks -> SUBSET Nat]
    /\ results \in [Tasks -> SUBSET {"succeeded", "skipped", "failed"}]
Looping == {"c_step", "c_call", "c_history", "c_idem"}
TodoOK == \A t \in Tasks :
    /\ todo[t] \subseteq 1..Len(snap[t])
    /\ pc[t] \notin Looping => todo[t] = {}
LocalsOK == ControlOK /\ RecordsOK /\ SetsOK /\ TodoOK

TypeInv == RowOK /\ KeysOK /\ CountsOK /\ LocalsOK

LEMMA TypeInvTypeOK == TypeInv => TypeOK
BY PlanAssumption
   DEF TypeInv, TypeOK, RowOK, KeysOK, CountsOK, LocalsOK, ControlOK, RecordsOK, SetsOK

-----------------------------------------------------------------------------
(* What the pieces of a step do to the types.                                *)

\* What an adapter call does to one effect keeps the list of effects in shape.
LEMMA EffectType ==
    ASSUME world \in Seq(Effect), NEW e \in 1..Len(world)
    PROVE  /\ Asked(world[e]) \in Effect /\ Answered(world[e]) \in Effect
           /\ [world EXCEPT ![e] = Asked(@)] \in Seq(Effect)
           /\ [world EXCEPT ![e] = Answered(@)] \in Seq(Effect)
           /\ Len([world EXCEPT ![e] = Asked(@)]) = Len(world)
           /\ Len([world EXCEPT ![e] = Answered(@)]) = Len(world)
<1>1. world[e] \in Effect BY ElementOfSeq
<1>2. Asked(world[e]) \in Effect BY <1>1 DEF Effect, Asked
<1>3. Answered(world[e]) \in Effect BY <1>1 DEF Effect, Answered
<1> QED BY <1>2, <1>3, ExceptSeq

\* So does putting reservations back into the adapter's store.
LEMMA RepopulatedType ==
    ASSUME world \in Seq(Effect), NEW recs
    PROVE  Repopulated(recs) \in Seq(Effect) /\ Len(Repopulated(recs)) = Len(world)
<1>1. DOMAIN world = 1..Len(world) /\ Len(world) \in Nat BY LenProperties
<1>2. ASSUME NEW e \in 1..Len(world) PROVE Repopulated(recs)[e] \in Effect
  <2>1. world[e] \in Effect BY ElementOfSeq
  <2>2. [world[e] EXCEPT !.standing = TRUE] \in Effect BY <2>1 DEF Effect
  <2> QED BY <1>1, <2>1, <2>2 DEF Repopulated
<1>3. DOMAIN Repopulated(recs) = 1..Len(world) BY <1>1 DEF Repopulated
<1>4. Repopulated(recs) = [e \in 1..Len(world) |-> Repopulated(recs)[e]]
  BY <1>1 DEF Repopulated
<1>5. Repopulated(recs) \in [1..Len(world) -> Effect] BY <1>2, <1>4
<1>6. Repopulated(recs) \in Seq(Effect) BY <1>1, <1>5, SeqDef
<1> QED BY <1>1, <1>3, <1>6, LenProperties

\* Flagging record i of the steps in memory.
Flagged(recs, i) == [recs EXCEPT ![i].compensated = TRUE]

LEMMA FlaggedType ==
    ASSUME NEW recs \in Seq(StepRecord), NEW i \in 1..Len(recs)
    PROVE  /\ Flagged(recs, i) \in Seq(StepRecord) /\ Len(Flagged(recs, i)) = Len(recs)
           /\ \A j \in 1..Len(recs) : Flagged(recs, i)[j].eff = recs[j].eff
<1> DEFINE r == [recs[i] EXCEPT !.compensated = TRUE]
<1>1. recs[i] \in StepRecord BY ElementOfSeq
<1>2. r \in StepRecord /\ r.eff = recs[i].eff BY <1>1 DEF StepRecord
<1>3. Flagged(recs, i) = [recs EXCEPT ![i] = r] BY DEF Flagged
<1> QED BY <1>2, <1>3, ExceptSeq

\* The row keeps its shape when only its state changes, and when a task writes
\* the steps it has in memory.
LEMMA KeepRow ==
    ASSUME RowOK, state' \in SagaState, UNCHANGED <<steps, world>> PROVE RowOK'
BY DEF RowOK, InRange

LEMMA WriteKeeps ==
    ASSUME RowOK, RecordsOK, NEW t \in Tasks, NEW s \in SagaState,
           WriteRow(s, snap[t]), UNCHANGED world
    PROVE  RowOK'
BY DEF RowOK, RecordsOK, InRange, WriteRow

\* The locals of a task that returns are reset.
LEMMA ReturnKeeps ==
    ASSUME LocalsOK, NEW t \in Tasks, Return(t), Len(world') = Len(world) PROVE LocalsOK'
<1> USE DEF LocalsOK
<1>1. ControlOK'
  BY PlanAssumption DEF ControlOK, Return, Goto, Pc, OtherPc, Caller, ResumeResult
<1>2. RecordsOK'
  <2>1. snap' \in [Tasks -> Seq(StepRecord)] BY DEF RecordsOK, Return
  <2>2. ASSUME NEW u \in Tasks PROVE InRange(snap[u])'
    <3>1. snap'[u] = snap[u] \/ snap'[u] = <<>> BY DEF RecordsOK, Return
    <3> QED BY <3>1 DEF RecordsOK, InRange
  <2> QED BY <2>1, <2>2 DEF RecordsOK
<1>3. SetsOK'
  <2>1. cops' \in [Tasks -> SUBSET STRING] BY DEF SetsOK, Return
  <2>2. todo' \in [Tasks -> SUBSET Nat] BY DEF SetsOK, Return
  <2>3. results' \in [Tasks -> SUBSET {"succeeded", "skipped", "failed"}] BY DEF SetsOK, Return
  <2> QED BY <2>1, <2>2, <2>3 DEF SetsOK
<1>4. TodoOK' BY DEF TodoOK, ControlOK, RecordsOK, SetsOK, Return, Goto, Looping
<1> QED BY <1>1, <1>2, <1>3, <1>4

\* A task outside the compensation loop that moves on, with or without a new
\* value in one of its simple locals.
LEMMA GotoKeeps ==
    ASSUME LocalsOK, NEW t \in Tasks, NEW p \in Pc, pc[t] \notin Looping, Goto(t, p),
           at' \in [Tasks -> 1..Len(Plan)], retry' \in [Tasks -> Nat],
           mine' \in [Tasks -> BOOLEAN], res' \in [Tasks -> ResumeResult],
           Len(world') = Len(world), UNCHANGED <<snap, after, cops, todo, results>>
    PROVE  LocalsOK'
<1> USE DEF LocalsOK
<1>1. ControlOK' BY DEF ControlOK, Goto
<1>2. RecordsOK' BY DEF RecordsOK, InRange
<1>3. SetsOK'
  <2>1. cops' \in [Tasks -> SUBSET STRING] BY DEF SetsOK
  <2>2. todo' \in [Tasks -> SUBSET Nat] BY DEF SetsOK
  <2>3. results' \in [Tasks -> SUBSET {"succeeded", "skipped", "failed"}] BY DEF SetsOK
  <2> QED BY <2>1, <2>2, <2>3 DEF SetsOK
<1>4. TodoOK' BY DEF TodoOK, ControlOK, Goto, Looping
<1> QED BY <1>1, <1>2, <1>3, <1>4

\* The same when it takes records into memory.
LEMMA FetchKeeps ==
    ASSUME LocalsOK, NEW t \in Tasks, NEW p \in Pc, pc[t] \notin Looping, Goto(t, p),
           NEW recs \in Seq(StepRecord), InRange(recs), snap' = [snap EXCEPT ![t] = recs],
           after' \in [Tasks -> Caller], Len(world') = Len(world), UNCHANGED <<at, cops, todo, results, retry, mine, res>>
    PROVE  LocalsOK'
<1> USE DEF LocalsOK
<1>1. ControlOK' BY DEF ControlOK, Goto
<1>2. RecordsOK'
  <2>1. snap' \in [Tasks -> Seq(StepRecord)] BY DEF RecordsOK
  <2>2. ASSUME NEW u \in Tasks PROVE InRange(snap[u])'
    <3>1. snap'[u] = snap[u] \/ snap'[u] = recs BY DEF RecordsOK
    <3> QED BY <3>1 DEF RecordsOK, InRange
  <2> QED BY <2>1, <2>2 DEF RecordsOK
<1>3. SetsOK'
  <2>1. cops' \in [Tasks -> SUBSET STRING] BY DEF SetsOK
  <2>2. todo' \in [Tasks -> SUBSET Nat] BY DEF SetsOK
  <2>3. results' \in [Tasks -> SUBSET {"succeeded", "skipped", "failed"}] BY DEF SetsOK
  <2> QED BY <2>1, <2>2, <2>3 DEF SetsOK
<1>4. TodoOK' BY DEF TodoOK, ControlOK, RecordsOK, Goto, Looping
<1> QED BY <1>1, <1>2, <1>3, <1>4

\* A task that asks for a compensation, or fails and may ask for one.
LEMMA CompensateKeeps ==
    ASSUME LocalsOK, NEW t \in Tasks, pc[t] \notin Looping,
           NEW recs \in Seq(StepRecord), InRange(recs), NEW caller \in Caller,
           Compensate(t, recs, caller) \/ AttemptCompensation(t, recs),
           Len(world') = Len(world), UNCHANGED <<at, cops, todo, results, retry, mine, res>>
    PROVE  LocalsOK'
<1>1. after \in [Tasks -> Caller] BY DEF LocalsOK, ControlOK
<1>2. /\ snap' = [snap EXCEPT ![t] = recs] /\ after' \in [Tasks -> Caller]
      /\ Goto(t, "c_read") \/ Goto(t, "r_fail")
  BY <1>1 DEF Compensate, AttemptCompensation, Caller
<1>3. "c_read" \in Pc /\ "r_fail" \in Pc BY DEF Pc, CompPc, RunPc
<1> QED BY <1>2, <1>3, FetchKeeps

\* A task that leaves _compensate_saga for its caller.
LEMMA LeaveKeeps ==
    ASSUME LocalsOK, NEW t \in Tasks,
           NEW p \in Pc \ Looping, NEW recs \in {snap[t], <<>>}, NEW r \in ResumeResult,
           Leave(t, p, recs, r), Len(world') = Len(world)
    PROVE  LocalsOK'
<1> USE DEF LocalsOK
<1>1. ControlOK' BY DEF ControlOK, Leave, Goto, Caller
<1>2. RecordsOK'
  <2>1. recs \in Seq(StepRecord)
    <3>1. snap[t] \in Seq(StepRecord) BY DEF RecordsOK
    <3>2. <<>> \in Seq(StepRecord) OBVIOUS
    <3> QED BY <3>1, <3>2, Zenon
  <2>2. snap' \in [Tasks -> Seq(StepRecord)] BY <2>1 DEF RecordsOK, Leave
  <2>3. ASSUME NEW u \in Tasks PROVE InRange(snap[u])'
    <3>1. snap'[u] = snap[u] \/ snap'[u] = <<>> BY DEF RecordsOK, Leave
    <3> QED BY <3>1 DEF RecordsOK, InRange
  <2> QED BY <2>2, <2>3 DEF RecordsOK
<1>3. SetsOK'
  <2>1. cops' \in [Tasks -> SUBSET STRING] BY DEF SetsOK, Leave
  <2>2. todo' \in [Tasks -> SUBSET Nat] BY DEF SetsOK, Leave
  <2>3. results' \in [Tasks -> SUBSET {"succeeded", "skipped", "failed"}] BY DEF SetsOK, Leave
  <2> QED BY <2>1, <2>2, <2>3 DEF SetsOK
<1>4. TodoOK' BY DEF TodoOK, RecordsOK, ControlOK, SetsOK, Leave, Goto, Looping
<1> QED BY <1>1, <1>2, <1>3, <1>4

LEMMA CompensateEnds ==
    ASSUME LocalsOK, NEW t \in Tasks,
           CompensateReturns(t) \/ CompensateRaises(t), Len(world') = Len(world)
    PROVE  LocalsOK'
<1> DEFINE Left == \E p \in Pc \ Looping, recs \in {snap[t], <<>>}, r \in ResumeResult :
                      Leave(t, p, recs, r)
<1>1. CASE Return(t) BY <1>1, ReturnKeeps
<1>2. CASE Left BY <1>2, LeaveKeeps
<1>3. Return(t) \/ Left
  <2>1. res[t] \in ResumeResult BY DEF LocalsOK, ControlOK
  <2>2. /\ {"r_fail", "u_record", "d_persist", "r_raise"} \subseteq Pc \ Looping
        /\ {"error", "compensated"} \subseteq ResumeResult
    BY DEF Looping, ResumeResult, Pc, RunPc, ResumePc
  <2>3. CASE CompensateReturns(t) BY <2>1, <2>2, <2>3 DEF CompensateReturns
  <2>4. CASE CompensateRaises(t) BY <2>1, <2>2, <2>4 DEF CompensateRaises
  <2> QED BY <2>3, <2>4
<1> QED BY <1>1, <1>2, <1>3

\* One turn of the compensation loop, with or without a result.
LEMMA LoopKeeps ==
    ASSUME LocalsOK, NEW t \in Tasks, NEW p \in Looping, pc[t] \in Looping,
           pc' = pc \/ Goto(t, p), NEW r \in SUBSET {"succeeded", "skipped", "failed"}, NEW i,
           Settle(t, i, r) \/ UNCHANGED <<todo, results>>,
           retry' \in [Tasks -> Nat], Len(world') = Len(world),
           UNCHANGED <<snap, at, after, cops, mine, res>>
    PROVE  LocalsOK'
<1> USE DEF LocalsOK
<1>1. ControlOK'
  <2>1. Looping \subseteq Pc BY DEF Looping, Pc, CompPc
  <2> QED BY <2>1 DEF ControlOK, Goto
<1>2. RecordsOK' BY DEF RecordsOK, InRange
<1>3. SetsOK'
  <2>1. cops' \in [Tasks -> SUBSET STRING] BY DEF SetsOK
  <2>2. todo' \in [Tasks -> SUBSET Nat] BY DEF SetsOK, Settle
  <2>3. results' \in [Tasks -> SUBSET {"succeeded", "skipped", "failed"}] BY DEF SetsOK, Settle
  <2> QED BY <2>1, <2>2, <2>3 DEF SetsOK
<1>4. TodoOK'
  <2>1. \A u \in Tasks : todo'[u] \subseteq todo[u] BY DEF SetsOK, Settle
  <2>2. \A u \in Tasks : pc'[u] \notin Looping => pc[u] \notin Looping
    BY DEF ControlOK, Goto
  <2> QED BY <2>1, <2>2 DEF TodoOK
<1> QED BY <1>1, <1>2, <1>3, <1>4

\* One entry of the idempotency table is written.
LEMMA IdemKeeps ==
    ASSUME KeysOK, UNCHANGED <<lock, history>>,
           NEW b \in BOOLEAN, NEW r \in ResumeResult, NEW n \in STRING,
           \/ idem' = idem \/ idem' = [idem EXCEPT !.start = b]
           \/ idem' = [idem EXCEPT !.resume = r]
           \/ idem' = [idem EXCEPT !.comp = @ \cup {n}]
    PROVE  KeysOK'
<1> DEFINE Idem == [start : BOOLEAN, resume : ResumeResult, comp : SUBSET STRING]
<1>1. idem \in Idem BY DEF KeysOK
<1>2. CASE idem' = idem BY <1>2 DEF KeysOK
<1>3. CASE idem' = [idem EXCEPT !.start = b] BY <1>1, <1>3 DEF KeysOK
<1>4. CASE idem' = [idem EXCEPT !.resume = r] BY <1>1, <1>4 DEF KeysOK
<1>5. CASE idem' = [idem EXCEPT !.comp = @ \cup {n}] BY <1>1, <1>5 DEF KeysOK
<1> QED BY <1>2, <1>3, <1>4, <1>5

\* The parts of LocalsOK a step leaves alone.
LEMMA KeepSets == ASSUME SetsOK, UNCHANGED <<cops, todo, results>> PROVE SetsOK'
<1>1. cops' \in [Tasks -> SUBSET STRING] BY DEF SetsOK
<1>2. todo' \in [Tasks -> SUBSET Nat] BY DEF SetsOK
<1>3. results' \in [Tasks -> SUBSET {"succeeded", "skipped", "failed"}] BY DEF SetsOK
<1> QED BY <1>1, <1>2, <1>3 DEF SetsOK

LEMMA KeepRecords ==
    ASSUME RecordsOK, UNCHANGED snap, Len(world') = Len(world) PROVE RecordsOK'
BY DEF RecordsOK, InRange

\* A task that moves on with no record left to undo.
LEMMA KeepTodo ==
    ASSUME TodoOK, pc \in [Tasks -> Pc], NEW t \in Tasks, NEW p,
           todo[t] = {} \/ p \in Looping, Goto(t, p), UNCHANGED <<snap, todo>>
    PROVE  TodoOK'
BY DEF TodoOK, Goto

-----------------------------------------------------------------------------
(* Every step keeps the types.                                               *)

\* The steps of start_saga keep the types.
LEMMA TypeStart == ASSUME TypeInv, NEW t \in Tasks, Start(t) PROVE TypeInv'
<1> USE DEF At, shared, budget
<1> RowOK /\ KeysOK /\ CountsOK /\ LocalsOK /\ ControlOK /\ RecordsOK /\ SetsOK /\ TodoOK
  BY DEF TypeInv, LocalsOK
<1> /\ pc \in [Tasks -> Pc] /\ at \in [Tasks -> 1..Len(Plan)] /\ retry \in [Tasks -> Nat]
    /\ mine \in [Tasks -> BOOLEAN] /\ res \in [Tasks -> ResumeResult]
    /\ after \in [Tasks -> Caller]
  BY DEF ControlOK
<1> /\ steps \in Seq(StepRecord) /\ InRange(steps)
    /\ snap[t] \in Seq(StepRecord) /\ InRange(snap[t])
  BY DEF RowOK, RecordsOK
<1>1. CASE start_saga(t)
  <2>1. RowOK' BY <1>1, KeepRow, WriteKeeps DEF start_saga, SagaState, RowOK
  <2>2. KeysOK' BY <1>1, LockAssumption DEF start_saga, KeysOK, Release, ResumeResult
  <2>3. CountsOK' BY <1>1 DEF start_saga, CountsOK
  <2>4. LocalsOK'
    BY <1>1, ReturnKeeps, GotoKeeps DEF start_saga, Looping, Pc, StartPc, RunPc, CompPc, ResumePc, OtherPc
  <2> QED BY <2>1, <2>2, <2>3, <2>4 DEF TypeInv
<1>2. CASE start_saga_check(t)
  <2>1. RowOK' BY <1>2, KeepRow, WriteKeeps DEF start_saga_check, SagaState, RowOK
  <2>2. KeysOK' BY <1>2, LockAssumption DEF start_saga_check, KeysOK, Release, ResumeResult
  <2>3. CountsOK' BY <1>2 DEF start_saga_check, CountsOK
  <2>4. LocalsOK'
    BY <1>2, ReturnKeeps, GotoKeeps DEF start_saga_check, Looping, Pc, StartPc, RunPc, CompPc, ResumePc, OtherPc
  <2> QED BY <2>1, <2>2, <2>3, <2>4 DEF TypeInv
<1>3. CASE start_saga_acquired(t)
  <2>1. RowOK' BY <1>3, KeepRow, WriteKeeps DEF start_saga_acquired, SagaState, RowOK
  <2>2. KeysOK' BY <1>3, LockAssumption DEF start_saga_acquired, KeysOK, Release, ResumeResult
  <2>3. CountsOK' BY <1>3 DEF start_saga_acquired, CountsOK
  <2>4. LocalsOK'
    BY <1>3, ReturnKeeps, GotoKeeps DEF start_saga_acquired, Looping, Pc, StartPc, RunPc, CompPc, ResumePc, OtherPc
  <2> QED BY <2>1, <2>2, <2>3, <2>4 DEF TypeInv
<1>4. CASE start_saga_busy(t)
  <2>1. RowOK' BY <1>4, KeepRow, WriteKeeps DEF start_saga_busy, SagaState, RowOK
  <2>2. KeysOK'
    <3>1. UNCHANGED <<lock, history>> BY <1>4 DEF start_saga_busy
    <3>2. \E b \in BOOLEAN : idem' = idem \/ idem' = [idem EXCEPT !.start = b]
      BY <1>4 DEF start_saga_busy, KeysOK
    <3> QED BY <3>1, <3>2, IdemKeeps DEF KeysOK
  <2>3. CountsOK' BY <1>4 DEF start_saga_busy, CountsOK
  <2>4. LocalsOK'
    <3>1. CASE Return(t) BY <1>4, <3>1, ReturnKeeps DEF start_saga_busy
    <3>2. CASE ~Return(t)
      <4>1. retry' = [retry EXCEPT ![t] = retry[t] + 1]
        BY <1>4, <3>2 DEF start_saga_busy
      <4>2. retry' \in [Tasks -> Nat] BY <4>1
      <4> QED BY <1>4, <3>2, <4>2, GotoKeeps DEF start_saga_busy, Looping, Pc, StartPc
    <3> QED BY <3>1, <3>2
  <2> QED BY <2>1, <2>2, <2>3, <2>4 DEF TypeInv
<1>5. CASE start_saga_insert(t)
  <2>1. RowOK' BY <1>5, KeepRow, WriteKeeps DEF start_saga_insert, SagaState, RowOK
  <2>2. KeysOK' BY <1>5, LockAssumption DEF start_saga_insert, KeysOK, Release, ResumeResult
  <2>3. CountsOK' BY <1>5 DEF start_saga_insert, CountsOK
  <2>4. LocalsOK'
    BY <1>5, ReturnKeeps, GotoKeeps DEF start_saga_insert, Looping, Pc, StartPc, RunPc, CompPc, ResumePc, OtherPc
  <2> QED BY <2>1, <2>2, <2>3, <2>4 DEF TypeInv
<1>6. CASE start_saga_record(t)
  <2>1. RowOK' BY <1>6, KeepRow, WriteKeeps DEF start_saga_record, SagaState, RowOK
  <2>2. KeysOK'
    BY <1>6, IdemKeeps DEF start_saga_record, KeysOK
  <2>3. CountsOK' BY <1>6 DEF start_saga_record, CountsOK
  <2>4. LocalsOK'
    BY <1>6, ReturnKeeps, GotoKeeps DEF start_saga_record, Looping, Pc, StartPc, RunPc, CompPc, ResumePc, OtherPc
  <2> QED BY <2>1, <2>2, <2>3, <2>4 DEF TypeInv
<1>7. CASE start_saga_cas(t)
  <2>1. RowOK' BY <1>7, KeepRow, WriteKeeps DEF start_saga_cas, SagaState, RowOK
  <2>2. KeysOK' BY <1>7, LockAssumption DEF start_saga_cas, KeysOK, Release, ResumeResult
  <2>3. CountsOK' BY <1>7 DEF start_saga_cas, CountsOK
  <2>4. LocalsOK'
    BY <1>7, ReturnKeeps, GotoKeeps DEF start_saga_cas, Looping, Pc, StartPc, RunPc, CompPc, ResumePc, OtherPc
  <2> QED BY <2>1, <2>2, <2>3, <2>4 DEF TypeInv
<1>8. CASE start_saga_release(t)
  <2>1. RowOK' BY <1>8, KeepRow, WriteKeeps DEF start_saga_release, SagaState, RowOK
  <2>2. KeysOK' BY <1>8, LockAssumption DEF start_saga_release, KeysOK, Release, ResumeResult
  <2>3. CountsOK' BY <1>8 DEF start_saga_release, CountsOK
  <2>4. LocalsOK'
    BY <1>8, ReturnKeeps, GotoKeeps DEF start_saga_release, Looping, Pc, StartPc, RunPc, CompPc, ResumePc, OtherPc
  <2> QED BY <2>1, <2>2, <2>3, <2>4 DEF TypeInv
<1> QED BY <1>1, <1>2, <1>3, <1>4, <1>5, <1>6, <1>7, <1>8 DEF Start

\* So do those of the runner and its flow.
LEMMA TypeRun == ASSUME TypeInv, NEW t \in Tasks, Run(t) PROVE TypeInv'
<1> USE DEF At, shared, budget
<1> RowOK /\ KeysOK /\ CountsOK /\ LocalsOK /\ ControlOK /\ RecordsOK /\ SetsOK /\ TodoOK
  BY DEF TypeInv, LocalsOK
<1> /\ pc \in [Tasks -> Pc] /\ at \in [Tasks -> 1..Len(Plan)] /\ retry \in [Tasks -> Nat]
    /\ mine \in [Tasks -> BOOLEAN] /\ res \in [Tasks -> ResumeResult]
    /\ after \in [Tasks -> Caller]
  BY DEF ControlOK
<1> /\ steps \in Seq(StepRecord) /\ InRange(steps)
    /\ snap[t] \in Seq(StepRecord) /\ InRange(snap[t])
  BY DEF RowOK, RecordsOK
<1>1. CASE run_saga_timeout(t)
  <2>1. RowOK' BY <1>1, KeepRow, WriteKeeps DEF run_saga_timeout, SagaState, RowOK
  <2>2. KeysOK' BY <1>1, LockAssumption DEF run_saga_timeout, KeysOK, Release, ResumeResult
  <2>3. CountsOK' BY <1>1 DEF run_saga_timeout, CountsOK
  <2>4. LocalsOK'
    BY <1>1, ReturnKeeps, GotoKeeps, CompensateKeeps DEF run_saga_timeout, Looping, Caller, Pc, StartPc, RunPc, CompPc, ResumePc, OtherPc
  <2> QED BY <2>1, <2>2, <2>3, <2>4 DEF TypeInv
<1>2. CASE run_saga_fetch(t)
  <2>5. world' \in Seq(Effect) /\ Len(world') = Len(world)
    BY <1>2, RepopulatedType DEF run_saga_fetch, RowOK
  <2>1. RowOK' BY <1>2, <2>5 DEF run_saga_fetch, RowOK, InRange
  <2>2. KeysOK' BY <1>2, LockAssumption DEF run_saga_fetch, KeysOK, Release, ResumeResult
  <2>3. CountsOK' BY <1>2 DEF run_saga_fetch, CountsOK
  <2>4. LocalsOK'
    BY <1>2, <2>5, ReturnKeeps, FetchKeeps DEF run_saga_fetch, Looping, Pc, StartPc, RunPc, CompPc, ResumePc, OtherPc
  <2> QED BY <2>1, <2>2, <2>3, <2>4 DEF TypeInv
<1>3. CASE run_saga_mark(t)
  <2>1. RowOK' BY <1>3, KeepRow, WriteKeeps DEF run_saga_mark, SagaState, RowOK
  <2>2. KeysOK' BY <1>3, LockAssumption DEF run_saga_mark, KeysOK, Release, ResumeResult
  <2>3. CountsOK' BY <1>3 DEF run_saga_mark, CountsOK
  <2>4. LocalsOK'
    <3>1. at' \in [Tasks -> 1..Len(Plan)] BY <1>3, PlanAssumption DEF run_saga_mark
    <3> QED BY <1>3, <3>1, GotoKeeps DEF run_saga_mark, Looping, Pc, RunPc
  <2> QED BY <2>1, <2>2, <2>3, <2>4 DEF TypeInv
<1>4. CASE flow_step_ok(t)
  <2> DEFINE n == Plan[at[t]]
             rec == [name |-> n, eff |-> Len(world) + 1, compensated |-> FALSE]
             recs == Recorded(snap[t], n)
  <2>5. world' = Append(world, NewEffect(n)) /\ snap' = [snap EXCEPT ![t] = recs]
    BY <1>4 DEF flow_step_ok
  <2>6. n \in STRING BY PlanAssumption, ElementOfSeq
  <2>7. NewEffect(n) \in Effect BY <2>6 DEF NewEffect, Effect
  <2>8. /\ world' \in Seq(Effect) /\ Len(world') = Len(world) + 1 /\ Len(world) \in Nat
    BY <2>5, <2>7, AppendProperties DEF RowOK
  <2>9. /\ recs \in Seq(StepRecord)
        /\ \A i \in 1..Len(recs) : recs[i].eff \in 1..Len(world')
        /\ Len(snap[t]) <= Len(recs)
    <3>1. rec \in StepRecord BY <2>6, <2>8 DEF StepRecord
    <3>2. CASE n \in Compensatable
      <4>1. recs = Append(snap[t], rec) BY <3>2 DEF Recorded
      <4> HIDE DEF rec
      <4>2. /\ recs \in Seq(StepRecord) /\ Len(recs) = Len(snap[t]) + 1
            /\ \A i \in 1..Len(snap[t]) : recs[i] = snap[t][i]
            /\ recs[Len(snap[t]) + 1] = rec
        BY <3>1, <4>1, AppendProperties
      <4>3. rec.eff = Len(world) + 1 BY DEF rec
      <4>4. ASSUME NEW i \in 1..Len(recs) PROVE recs[i].eff \in 1..Len(world')
        <5>1. Len(snap[t]) \in Nat BY LenProperties
        <5>2. CASE i = Len(snap[t]) + 1 BY <2>8, <4>2, <4>3, <5>2
        <5>3. CASE i \in 1..Len(snap[t])
          <6>1. snap[t][i].eff \in 1..Len(world) BY <5>3 DEF InRange
          <6>2. recs[i] = snap[t][i] BY <4>2, <5>3
          <6>3. recs[i].eff \in 1..Len(world) BY <6>1, <6>2
          <6> QED BY <2>8, <6>3
        <5> QED BY <4>2, <5>1, <5>2, <5>3
      <4> QED BY <4>2, <4>4, LenProperties
    <3>3. CASE n \notin Compensatable
      <4>1. recs = snap[t] BY <3>3 DEF Recorded
      <4> QED BY <2>8, <4>1 DEF InRange
    <3> QED BY <3>2, <3>3
  <2> HIDE DEF recs, n
  <2>1. RowOK'
    BY <1>4, <2>8 DEF flow_step_ok, RowOK, InRange
  <2>2. KeysOK' BY <1>4, LockAssumption DEF flow_step_ok, KeysOK, Release, ResumeResult
  <2>3. CountsOK' BY <1>4 DEF flow_step_ok, CountsOK
  <2>4. LocalsOK'
    <3>1. ControlOK'
      <4>1. at' \in [Tasks -> 1..Len(Plan)]
        <5>1. CASE at[t] < Len(Plan)
          <6>1. at' = [at EXCEPT ![t] = at[t] + 1] BY <1>4, <5>1 DEF flow_step_ok
          <6> QED BY <5>1, <6>1, PlanAssumption, LenProperties
        <5>2. CASE ~(at[t] < Len(Plan)) BY <1>4, <5>2 DEF flow_step_ok
        <5> QED BY <5>1, <5>2
      <4>2. pc' \in [Tasks -> Pc] BY <1>4 DEF flow_step_ok, Goto, Pc, RunPc
      <4> QED BY <1>4, <4>1, <4>2 DEF flow_step_ok, ControlOK
    <3>2. RecordsOK'
      <4>1. snap' \in [Tasks -> Seq(StepRecord)] BY <2>5, <2>9 DEF RecordsOK
      <4>2. ASSUME NEW u \in Tasks PROVE InRange(snap[u])'
        <5>1. CASE u = t BY <2>5, <2>9, <5>1 DEF RecordsOK, InRange
        <5>2. CASE u # t BY <2>5, <2>8, <5>2 DEF RecordsOK, InRange
        <5> QED BY <5>1, <5>2
      <4> QED BY <4>1, <4>2 DEF RecordsOK
    <3>3. SetsOK'
      <4>1. cops' \in [Tasks -> SUBSET STRING] BY <1>4 DEF SetsOK, flow_step_ok
      <4>2. todo' \in [Tasks -> SUBSET Nat] BY <1>4 DEF SetsOK, flow_step_ok
      <4>3. results' \in [Tasks -> SUBSET {"succeeded", "skipped", "failed"}]
        BY <1>4 DEF SetsOK, flow_step_ok
      <4> QED BY <4>1, <4>2, <4>3 DEF SetsOK
    <3>4. TodoOK'
      <4>1. pc[t] \notin Looping /\ todo' = todo BY <1>4 DEF flow_step_ok, Looping
      <4>2. \A u \in Tasks : u # t => pc'[u] = pc[u] /\ snap'[u] = snap[u]
        BY <1>4, <2>5 DEF flow_step_ok, Goto, RecordsOK
      <4>3. todo[t] = {} BY <4>1 DEF TodoOK
      <4> QED BY <4>1, <4>2, <4>3 DEF TodoOK
    <3> QED BY <3>1, <3>2, <3>3, <3>4 DEF LocalsOK
  <2> QED BY <2>1, <2>2, <2>3, <2>4 DEF TypeInv
<1>5. CASE flow_step_error(t)
  <2>1. RowOK' BY <1>5, KeepRow, WriteKeeps DEF flow_step_error, SagaState, RowOK
  <2>2. KeysOK' BY <1>5, LockAssumption DEF flow_step_error, KeysOK, Release, ResumeResult
  <2>3. CountsOK' BY <1>5 DEF flow_step_error, CountsOK
  <2>4. LocalsOK'
    BY <1>5, ReturnKeeps, GotoKeeps, CompensateKeeps DEF flow_step_error, Looping, Caller, Pc, StartPc, RunPc, CompPc, ResumePc, OtherPc
  <2> QED BY <2>1, <2>2, <2>3, <2>4 DEF TypeInv
<1>6. CASE flow_step_breaker(t)
  <2>1. RowOK' BY <1>6, KeepRow, WriteKeeps DEF flow_step_breaker, SagaState, RowOK
  <2>2. KeysOK' BY <1>6, LockAssumption DEF flow_step_breaker, KeysOK, Release, ResumeResult
  <2>3. CountsOK' BY <1>6 DEF flow_step_breaker, CountsOK
  <2>4. LocalsOK'
    BY <1>6, ReturnKeeps, GotoKeeps DEF flow_step_breaker, Looping, Pc, StartPc, RunPc, CompPc, ResumePc, OtherPc
  <2> QED BY <2>1, <2>2, <2>3, <2>4 DEF TypeInv
<1>7. CASE flow_save(t)
  <2>1. RowOK' BY <1>7, KeepRow, WriteKeeps DEF flow_save, SagaState, RowOK
  <2>2. KeysOK' BY <1>7, LockAssumption DEF flow_save, KeysOK, Release, ResumeResult
  <2>3. CountsOK' BY <1>7 DEF flow_save, CountsOK
  <2>4. LocalsOK'
    BY <1>7, ReturnKeeps, GotoKeeps, CompensateKeeps DEF flow_save, Looping, Caller, Pc, StartPc, RunPc, CompPc, ResumePc, OtherPc
  <2> QED BY <2>1, <2>2, <2>3, <2>4 DEF TypeInv
<1>8. CASE flow_finish(t)
  <2>1. RowOK' BY <1>8, KeepRow, WriteKeeps DEF flow_finish, SagaState, RowOK
  <2>2. KeysOK' BY <1>8, LockAssumption DEF flow_finish, KeysOK, Release, ResumeResult
  <2>3. CountsOK' BY <1>8 DEF flow_finish, CountsOK
  <2>4. LocalsOK'
    BY <1>8, ReturnKeeps, GotoKeeps, CompensateKeeps DEF flow_finish, Looping, Caller, Pc, StartPc, RunPc, CompPc, ResumePc, OtherPc
  <2> QED BY <2>1, <2>2, <2>3, <2>4 DEF TypeInv
<1>9. CASE flow_fail(t)
  <2>1. RowOK' BY <1>9, KeepRow, WriteKeeps DEF flow_fail, SagaState, RowOK
  <2>2. KeysOK' BY <1>9, LockAssumption DEF flow_fail, KeysOK, Release, ResumeResult
  <2>3. CountsOK' BY <1>9 DEF flow_fail, CountsOK
  <2>4. LocalsOK'
    BY <1>9, ReturnKeeps, GotoKeeps DEF flow_fail, Looping, Pc, StartPc, RunPc, CompPc, ResumePc, OtherPc
  <2> QED BY <2>1, <2>2, <2>3, <2>4 DEF TypeInv
<1>10. CASE run_saga_except(t)
  <2>1. RowOK' BY <1>10, KeepRow, WriteKeeps DEF run_saga_except, SagaState, RowOK
  <2>2. KeysOK' BY <1>10, LockAssumption DEF run_saga_except, KeysOK, Release, ResumeResult
  <2>3. CountsOK' BY <1>10 DEF run_saga_except, CountsOK
  <2>4. LocalsOK'
    BY <1>10, ReturnKeeps, GotoKeeps DEF run_saga_except, Looping, Pc, StartPc, RunPc, CompPc, ResumePc, OtherPc
  <2> QED BY <2>1, <2>2, <2>3, <2>4 DEF TypeInv
<1>11. CASE persist_dlq_message(t)
  <2>1. RowOK' BY <1>11, KeepRow, WriteKeeps DEF persist_dlq_message, SagaState, RowOK
  <2>2. KeysOK' BY <1>11, LockAssumption DEF persist_dlq_message, KeysOK, Release, ResumeResult
  <2>3. CountsOK' BY <1>11 DEF persist_dlq_message, CountsOK
  <2>4. LocalsOK'
    BY <1>11, ReturnKeeps, GotoKeeps DEF persist_dlq_message, Looping, Pc, StartPc, RunPc, CompPc, ResumePc, OtherPc
  <2> QED BY <2>1, <2>2, <2>3, <2>4 DEF TypeInv
<1>12. CASE flow_step_partial(t)
  <2>1. RowOK' BY <1>12, KeepRow, WriteKeeps DEF flow_step_partial, SagaState, RowOK
  <2>2. KeysOK' BY <1>12, LockAssumption DEF flow_step_partial, KeysOK, Release, ResumeResult
  <2>3. CountsOK' BY <1>12 DEF flow_step_partial, CountsOK
  <2>4. LocalsOK'
    BY <1>12, ReturnKeeps, GotoKeeps, CompensateKeeps DEF flow_step_partial, Looping, Caller, Pc, StartPc, RunPc, CompPc, ResumePc, OtherPc
  <2> QED BY <2>1, <2>2, <2>3, <2>4 DEF TypeInv
<1>13. CASE flow_partial(t)
  <2>1. RowOK' BY <1>13, KeepRow, WriteKeeps DEF flow_partial, SagaState, RowOK
  <2>2. KeysOK' BY <1>13, LockAssumption DEF flow_partial, KeysOK, Release, ResumeResult
  <2>3. CountsOK' BY <1>13 DEF flow_partial, CountsOK
  <2>4. LocalsOK'
    BY <1>13, ReturnKeeps, GotoKeeps, CompensateKeeps DEF flow_partial, Looping, Caller, Pc, StartPc, RunPc, CompPc, ResumePc, OtherPc
  <2> QED BY <2>1, <2>2, <2>3, <2>4 DEF TypeInv
<1> QED BY <1>1, <1>2, <1>3, <1>4, <1>5, <1>6, <1>7, <1>8, <1>9, <1>10, <1>11, <1>12, <1>13 DEF Run

\* Those of _compensate_saga.
LEMMA TypeCompensateStep == ASSUME TypeInv, NEW t \in Tasks, CompensateStep(t) PROVE TypeInv'
<1> USE DEF At, shared, budget
<1> RowOK /\ KeysOK /\ CountsOK /\ LocalsOK /\ ControlOK /\ RecordsOK /\ SetsOK /\ TodoOK
  BY DEF TypeInv, LocalsOK
<1> /\ pc \in [Tasks -> Pc] /\ at \in [Tasks -> 1..Len(Plan)] /\ retry \in [Tasks -> Nat]
    /\ mine \in [Tasks -> BOOLEAN] /\ res \in [Tasks -> ResumeResult]
    /\ after \in [Tasks -> Caller]
  BY DEF ControlOK
<1> /\ steps \in Seq(StepRecord) /\ InRange(steps)
    /\ snap[t] \in Seq(StepRecord) /\ InRange(snap[t])
  BY DEF RowOK, RecordsOK
<1>1. CASE compensate_read(t)
  <2>1. RowOK' BY <1>1, KeepRow, WriteKeeps DEF compensate_read, SagaState, RowOK
  <2>2. KeysOK' BY <1>1, LockAssumption DEF compensate_read, KeysOK, Release, ResumeResult
  <2>3. CountsOK' BY <1>1 DEF compensate_read, CountsOK
  <2>4. LocalsOK'
    <3>1. ControlOK' BY <1>1 DEF compensate_read, ControlOK, Goto, Pc, CompPc
    <3>2. RecordsOK' BY <1>1, KeepRecords DEF compensate_read
    <3>3. SetsOK'
      <4>1. cops' = cops \/ cops' = [cops EXCEPT ![t] = history] BY <1>1 DEF compensate_read
      <4>2. cops' \in [Tasks -> SUBSET STRING] BY <4>1 DEF SetsOK, KeysOK
      <4>3. todo' = todo /\ results' = results BY <1>1 DEF compensate_read
      <4> QED BY <4>2, <4>3, Zenon DEF SetsOK
    <3>4. TodoOK' BY <1>1, KeepTodo DEF compensate_read, TodoOK, Looping
    <3> QED BY <3>1, <3>2, <3>3, <3>4 DEF LocalsOK
  <2> QED BY <2>1, <2>2, <2>3, <2>4 DEF TypeInv
<1>2. CASE compensate_acquired(t)
  <2>1. RowOK' BY <1>2, KeepRow, WriteKeeps DEF compensate_acquired, SagaState, RowOK
  <2>2. KeysOK' BY <1>2, LockAssumption DEF compensate_acquired, KeysOK, Release, ResumeResult
  <2>3. CountsOK' BY <1>2 DEF compensate_acquired, CountsOK
  <2>4. LocalsOK'
    BY <1>2, ReturnKeeps, GotoKeeps DEF compensate_acquired, Looping, Pc, StartPc, RunPc, CompPc, ResumePc, OtherPc
  <2> QED BY <2>1, <2>2, <2>3, <2>4 DEF TypeInv
<1>3. CASE compensate_busy(t)
  <2>1. RowOK' BY <1>3, KeepRow, WriteKeeps DEF compensate_busy, SagaState, RowOK
  <2>2. KeysOK' BY <1>3, LockAssumption DEF compensate_busy, KeysOK, Release, ResumeResult
  <2>3. CountsOK' BY <1>3 DEF compensate_busy, CountsOK
  <2>4. LocalsOK'
    BY <1>3, GotoKeeps, CompensateEnds DEF compensate_busy, Looping, Pc, StartPc, RunPc, CompPc, ResumePc, OtherPc
  <2> QED BY <2>1, <2>2, <2>3, <2>4 DEF TypeInv
<1>4. CASE compensate_mark(t)
  <2>1. RowOK' BY <1>4, KeepRow, WriteKeeps DEF compensate_mark, SagaState, RowOK
  <2>2. KeysOK' BY <1>4, LockAssumption DEF compensate_mark, KeysOK, Release, ResumeResult
  <2>3. CountsOK' BY <1>4 DEF compensate_mark, CountsOK
  <2>4. LocalsOK'
    <3>1. CASE db = "up"
      <4> DEFINE left == {i \in 1..Len(snap[t]) : ~snap[t][i].compensated}
      <4>1. /\ Goto(t, "c_step") /\ todo' = [todo EXCEPT ![t] = left]
            /\ UNCHANGED <<snap, at, after, cops, results, retry, mine, res, world>>
        BY <1>4, <3>1 DEF compensate_mark
      <4>2. ControlOK' BY <4>1 DEF ControlOK, Goto, Pc, CompPc
      <4>3. RecordsOK' BY <4>1, KeepRecords
      <4>4. left \subseteq 1..Len(snap[t]) /\ left \in SUBSET Nat OBVIOUS
      <4> HIDE DEF left
      <4>5. SetsOK'
        <5>1. todo' \in [Tasks -> SUBSET Nat] BY <4>1, <4>4 DEF SetsOK
        <5> QED BY <4>1, <5>1, Zenon DEF SetsOK
      <4>6. TodoOK' BY <4>1, <4>4 DEF TodoOK, SetsOK, Goto, Looping
      <4> QED BY <4>2, <4>3, <4>5, <4>6 DEF LocalsOK
    <3>2. CASE db # "up"
      BY <1>4, <3>2, GotoKeeps DEF compensate_mark, Looping, Pc, CompPc
    <3> QED BY <3>1, <3>2
  <2> QED BY <2>1, <2>2, <2>3, <2>4 DEF TypeInv
<1>5. CASE compensate_skip(t)
  <2>1. RowOK' BY <1>5, KeepRow, WriteKeeps DEF compensate_skip, SagaState, RowOK
  <2>2. KeysOK' BY <1>5, LockAssumption DEF compensate_skip, KeysOK, Release, ResumeResult
  <2>3. CountsOK' BY <1>5 DEF compensate_skip, CountsOK
  <2>4. LocalsOK' BY <1>5, LoopKeeps DEF compensate_skip, Looping
  <2> QED BY <2>1, <2>2, <2>3, <2>4 DEF TypeInv
<1>6. CASE compensate_pass(t)
  <2>1. RowOK' BY <1>6, KeepRow, WriteKeeps DEF compensate_pass, SagaState, RowOK
  <2>2. KeysOK' BY <1>6, LockAssumption DEF compensate_pass, KeysOK, Release, ResumeResult
  <2>3. CountsOK' BY <1>6 DEF compensate_pass, CountsOK
  <2>4. LocalsOK' BY <1>6, LoopKeeps DEF compensate_pass, Looping
  <2> QED BY <2>1, <2>2, <2>3, <2>4 DEF TypeInv
<1>7. CASE compensate_step_ok(t)
  <2>5. PICK i \in todo[t] : /\ world' = [world EXCEPT ![snap[t][i].eff] = Answered(@)]
                            /\ snap' = [snap EXCEPT ![t][i].compensated = TRUE]
    BY <1>7 DEF compensate_step_ok
  <2> DEFINE recs == Flagged(snap[t], i)
  <2>6. i \in 1..Len(snap[t]) BY DEF TodoOK
  <2>7. snap[t][i].eff \in 1..Len(world) BY <2>6 DEF InRange
  <2>8. world' \in Seq(Effect) /\ Len(world') = Len(world)
    BY <2>5, <2>7, EffectType DEF RowOK
  <2>9. /\ recs \in Seq(StepRecord) /\ Len(recs) = Len(snap[t])
        /\ \A j \in 1..Len(snap[t]) : recs[j].eff = snap[t][j].eff
    BY <2>6, FlaggedType
  <2>10. snap' = [snap EXCEPT ![t] = recs] BY <2>5 DEF RecordsOK, Flagged
  <2> HIDE DEF recs
  <2>1. RowOK'
    BY <1>7, <2>8 DEF compensate_step_ok, RowOK, InRange
  <2>2. KeysOK' BY <1>7, LockAssumption DEF compensate_step_ok, KeysOK, Release, ResumeResult
  <2>3. CountsOK' BY <1>7 DEF compensate_step_ok, CountsOK
  <2>4. LocalsOK'
    <3>1. ControlOK' BY <1>7 DEF compensate_step_ok, ControlOK, Goto, Pc, CompPc
    <3>2. RecordsOK'
      <4>1. snap' \in [Tasks -> Seq(StepRecord)] BY <2>9, <2>10 DEF RecordsOK
      <4>2. ASSUME NEW u \in Tasks PROVE InRange(snap[u])'
        <5>1. CASE u = t BY <2>8, <2>9, <2>10, <5>1 DEF RecordsOK, InRange
        <5>2. CASE u # t BY <2>8, <2>10, <5>2 DEF RecordsOK, InRange
        <5> QED BY <5>1, <5>2
      <4> QED BY <4>1, <4>2 DEF RecordsOK
    <3>3. SetsOK' BY <1>7, KeepSets DEF compensate_step_ok
    <3>4. TodoOK'
      <4>1. todo' = todo /\ pc[t] \in Looping BY <1>7 DEF compensate_step_ok, Looping
      <4>2. pc' = [pc EXCEPT ![t] = "c_history"] BY <1>7 DEF compensate_step_ok, Goto
      <4>3. \A u \in Tasks : Len(snap'[u]) = Len(snap[u]) BY <2>9, <2>10 DEF RecordsOK
      <4> QED BY <4>1, <4>2, <4>3 DEF TodoOK, Looping
    <3> QED BY <3>1, <3>2, <3>3, <3>4 DEF LocalsOK
  <2> QED BY <2>1, <2>2, <2>3, <2>4 DEF TypeInv
<1>8. CASE compensate_step_error(t)
  <2>1. RowOK' BY <1>8, KeepRow, WriteKeeps DEF compensate_step_error, SagaState, RowOK
  <2>2. KeysOK' BY <1>8, LockAssumption DEF compensate_step_error, KeysOK, Release, ResumeResult
  <2>3. CountsOK' BY <1>8 DEF compensate_step_error, CountsOK
  <2>4. LocalsOK'
    <3>1. retry' \in [Tasks -> Nat] BY <1>8 DEF compensate_step_error
    <3> QED BY <1>8, <3>1, LoopKeeps DEF compensate_step_error, Looping
  <2> QED BY <2>1, <2>2, <2>3, <2>4 DEF TypeInv
<1>9. CASE compensate_history(t)
  <2>1. RowOK' BY <1>9, KeepRow, WriteKeeps DEF compensate_history, SagaState, RowOK
  <2>2. KeysOK'
    <3>1. PICK i \in todo[t] :
            history' = IF db = "up" THEN history \cup {snap[t][i].name} ELSE history
      BY <1>9 DEF compensate_history
    <3>2. i \in 1..Len(snap[t]) BY DEF TodoOK
    <3>3. snap[t][i].name \in STRING
      <4>1. snap[t][i] \in StepRecord BY <3>2, ElementOfSeq
      <4> QED BY <4>1 DEF StepRecord
    <3>4. history' \in SUBSET STRING BY <3>1, <3>3 DEF KeysOK
    <3> QED BY <1>9, <3>4 DEF compensate_history, KeysOK
  <2>3. CountsOK' BY <1>9 DEF compensate_history, CountsOK
  <2>4. LocalsOK' BY <1>9, LoopKeeps DEF compensate_history, Looping
  <2> QED BY <2>1, <2>2, <2>3, <2>4 DEF TypeInv
<1>10. CASE compensate_idem(t)
  <2>1. RowOK' BY <1>10, KeepRow, WriteKeeps DEF compensate_idem, SagaState, RowOK
  <2>2. KeysOK'
    <3>1. PICK i \in todo[t] :
            idem' = idem \/ idem' = [idem EXCEPT !.comp = @ \cup {snap[t][i].name}]
      BY <1>10 DEF compensate_idem
    <3>2. i \in 1..Len(snap[t]) BY DEF TodoOK
    <3>3. snap[t][i].name \in STRING
      <4>1. snap[t][i] \in StepRecord BY <3>2, ElementOfSeq
      <4> QED BY <4>1 DEF StepRecord
    <3>4. UNCHANGED <<lock, history>> BY <1>10 DEF compensate_idem
    <3>5. "none" \in ResumeResult BY DEF ResumeResult
    <3> QED BY <3>1, <3>3, <3>4, <3>5, IdemKeeps
  <2>3. CountsOK' BY <1>10 DEF compensate_idem, CountsOK
  <2>4. LocalsOK' BY <1>10, LoopKeeps DEF compensate_idem, Looping
  <2> QED BY <2>1, <2>2, <2>3, <2>4 DEF TypeInv
<1>11. CASE compensate_finish(t)
  <2>1. RowOK'
    <3>1. FinalState(results[t]) \in SagaState BY DEF FinalState, SagaState
    <3> QED BY <1>11, <3>1, KeepRow, WriteKeeps DEF compensate_finish, RowOK
  <2>2. KeysOK' BY <1>11, LockAssumption DEF compensate_finish, KeysOK, Release, ResumeResult
  <2>3. CountsOK' BY <1>11 DEF compensate_finish, CountsOK
  <2>4. LocalsOK'
    <3>1. ControlOK' BY <1>11 DEF compensate_finish, ControlOK, Goto, Pc, CompPc
    <3>2. RecordsOK' BY <1>11, KeepRecords DEF compensate_finish
    <3>3. SetsOK' BY <1>11, KeepSets DEF compensate_finish
    <3>4. TodoOK' BY <1>11, KeepTodo DEF compensate_finish
    <3> QED BY <3>1, <3>2, <3>3, <3>4 DEF LocalsOK
  <2> QED BY <2>1, <2>2, <2>3, <2>4 DEF TypeInv
<1>12. CASE compensate_summary(t)
  <2>1. RowOK' BY <1>12, KeepRow, WriteKeeps DEF compensate_summary, SagaState, RowOK
  <2>2. KeysOK' BY <1>12, LockAssumption DEF compensate_summary, KeysOK, Release, ResumeResult
  <2>3. CountsOK' BY <1>12 DEF compensate_summary, CountsOK
  <2>4. LocalsOK'
    BY <1>12, GotoKeeps, CompensateEnds DEF compensate_summary, Looping, Pc, StartPc, RunPc, CompPc, ResumePc, OtherPc
  <2> QED BY <2>1, <2>2, <2>3, <2>4 DEF TypeInv
<1>13. CASE compensate_abort(t)
  <2>1. RowOK' BY <1>13, KeepRow, WriteKeeps DEF compensate_abort, SagaState, RowOK
  <2>2. KeysOK' BY <1>13, LockAssumption DEF compensate_abort, KeysOK, Release, ResumeResult
  <2>3. CountsOK' BY <1>13 DEF compensate_abort, CountsOK
  <2>4. LocalsOK'
    BY <1>13, GotoKeeps, CompensateEnds DEF compensate_abort, Looping, Pc, StartPc, RunPc, CompPc, ResumePc, OtherPc
  <2> QED BY <2>1, <2>2, <2>3, <2>4 DEF TypeInv
<1>14. CASE compensate_call(t)
  <2>5. PICK i \in todo[t] : world' = [world EXCEPT ![snap[t][i].eff] = Asked(@)]
    BY <1>14 DEF compensate_call
  <2>6. snap[t][i].eff \in 1..Len(world) BY DEF TodoOK, InRange
  <2>7. world' \in Seq(Effect) /\ Len(world') = Len(world)
    BY <2>5, <2>6, EffectType DEF RowOK
  <2>1. RowOK' BY <1>14, <2>7 DEF compensate_call, RowOK, InRange
  <2>2. KeysOK' BY <1>14, LockAssumption DEF compensate_call, KeysOK, Release, ResumeResult
  <2>3. CountsOK' BY <1>14 DEF compensate_call, CountsOK
  <2>4. LocalsOK'
    <3>1. retry' \in [Tasks -> Nat]
      <4>1. CASE retry' = retry BY <4>1
      <4>2. CASE retry' = [retry EXCEPT ![t] = retry[t] + 1] BY <4>2
      <4> QED BY <1>14, <4>1, <4>2 DEF compensate_call
    <3>2. /\ Goto(t, "c_call") /\ pc[t] \in Looping /\ "c_call" \in Looping
          /\ UNCHANGED <<todo, results>>
          /\ UNCHANGED <<snap, at, after, cops, mine, res>>
      BY <1>14 DEF compensate_call, Looping
    <3>3. {} \in SUBSET {"succeeded", "skipped", "failed"} OBVIOUS
    <3> QED BY <2>7, <3>1, <3>2, <3>3, LoopKeeps
  <2> QED BY <2>1, <2>2, <2>3, <2>4 DEF TypeInv
<1>15. CASE compensate_step_retry(t)
  <2>5. PICK i \in todo[t] : world' = [world EXCEPT ![snap[t][i].eff] = Asked(@)]
    BY <1>15 DEF compensate_step_retry
  <2>6. snap[t][i].eff \in 1..Len(world) BY DEF TodoOK, InRange
  <2>7. world' \in Seq(Effect) /\ Len(world') = Len(world)
    BY <2>5, <2>6, EffectType DEF RowOK
  <2>1. RowOK' BY <1>15, <2>7 DEF compensate_step_retry, RowOK, InRange
  <2>2. KeysOK' BY <1>15, LockAssumption DEF compensate_step_retry, KeysOK, Release, ResumeResult
  <2>3. CountsOK' BY <1>15 DEF compensate_step_retry, CountsOK
  <2>4. LocalsOK'
    <3>1. retry' \in [Tasks -> Nat]
      <4>1. CASE retry' = retry BY <4>1
      <4>2. CASE retry' = [retry EXCEPT ![t] = retry[t] + 1] BY <4>2
      <4> QED BY <1>15, <4>1, <4>2 DEF compensate_step_retry
    <3>2. /\ pc' = pc /\ pc[t] \in Looping /\ "c_call" \in Looping
          /\ UNCHANGED <<todo, results>>
          /\ UNCHANGED <<snap, at, after, cops, mine, res>>
      BY <1>15 DEF compensate_step_retry, Looping
    <3>3. {} \in SUBSET {"succeeded", "skipped", "failed"} OBVIOUS
    <3> QED BY <2>7, <3>1, <3>2, <3>3, LoopKeeps
  <2> QED BY <2>1, <2>2, <2>3, <2>4 DEF TypeInv
<1> QED BY <1>1, <1>2, <1>3, <1>4, <1>5, <1>6, <1>7, <1>8, <1>9, <1>10, <1>11, <1>12, <1>13, <1>14, <1>15 DEF CompensateStep

\* Those of resume_saga_on_confirm.
LEMMA TypeResume == ASSUME TypeInv, NEW t \in Tasks, Resume(t) PROVE TypeInv'
<1> USE DEF At, shared, budget
<1> RowOK /\ KeysOK /\ CountsOK /\ LocalsOK /\ ControlOK /\ RecordsOK /\ SetsOK /\ TodoOK
  BY DEF TypeInv, LocalsOK
<1> /\ pc \in [Tasks -> Pc] /\ at \in [Tasks -> 1..Len(Plan)] /\ retry \in [Tasks -> Nat]
    /\ mine \in [Tasks -> BOOLEAN] /\ res \in [Tasks -> ResumeResult]
    /\ after \in [Tasks -> Caller]
  BY DEF ControlOK
<1> /\ steps \in Seq(StepRecord) /\ InRange(steps)
    /\ snap[t] \in Seq(StepRecord) /\ InRange(snap[t])
  BY DEF RowOK, RecordsOK
<1>1. CASE resume_saga(t)
  <2>1. RowOK' BY <1>1, KeepRow, WriteKeeps DEF resume_saga, SagaState, RowOK
  <2>2. KeysOK' BY <1>1, LockAssumption DEF resume_saga, KeysOK, Release, ResumeResult
  <2>3. CountsOK' BY <1>1 DEF resume_saga, CountsOK
  <2>4. LocalsOK'
    BY <1>1, ReturnKeeps, GotoKeeps DEF resume_saga, Looping, Pc, StartPc, RunPc, CompPc, ResumePc, OtherPc
  <2> QED BY <2>1, <2>2, <2>3, <2>4 DEF TypeInv
<1>2. CASE resume_saga_check(t)
  <2>1. RowOK' BY <1>2, KeepRow, WriteKeeps DEF resume_saga_check, SagaState, RowOK
  <2>2. KeysOK' BY <1>2, LockAssumption DEF resume_saga_check, KeysOK, Release, ResumeResult
  <2>3. CountsOK' BY <1>2 DEF resume_saga_check, CountsOK
  <2>4. LocalsOK'
    BY <1>2, ReturnKeeps, GotoKeeps DEF resume_saga_check, Looping, Pc, StartPc, RunPc, CompPc, ResumePc, OtherPc
  <2> QED BY <2>1, <2>2, <2>3, <2>4 DEF TypeInv
<1>3. CASE resume_saga_acquired(t)
  <2>1. RowOK' BY <1>3, KeepRow, WriteKeeps DEF resume_saga_acquired, SagaState, RowOK
  <2>2. KeysOK' BY <1>3, LockAssumption DEF resume_saga_acquired, KeysOK, Release, ResumeResult
  <2>3. CountsOK' BY <1>3 DEF resume_saga_acquired, CountsOK
  <2>4. LocalsOK'
    BY <1>3, ReturnKeeps, GotoKeeps DEF resume_saga_acquired, Looping, Pc, StartPc, RunPc, CompPc, ResumePc, OtherPc
  <2> QED BY <2>1, <2>2, <2>3, <2>4 DEF TypeInv
<1>4. CASE resume_saga_busy(t)
  <2>1. RowOK' BY <1>4, KeepRow, WriteKeeps DEF resume_saga_busy, SagaState, RowOK
  <2>2. KeysOK'
    <3>1. UNCHANGED <<lock, history>> BY <1>4 DEF resume_saga_busy
    <3>2. idem' = idem \/ idem' = [idem EXCEPT !.resume = "error"]
      BY <1>4 DEF resume_saga_busy
    <3>3. "error" \in ResumeResult BY DEF ResumeResult
    <3> QED BY <3>1, <3>2, <3>3, IdemKeeps DEF KeysOK
  <2>3. CountsOK' BY <1>4 DEF resume_saga_busy, CountsOK
  <2>4. LocalsOK'
    <3>1. CASE Return(t) BY <1>4, <3>1, ReturnKeeps DEF resume_saga_busy
    <3>2. CASE ~Return(t)
      <4>1. retry' = [retry EXCEPT ![t] = retry[t] + 1]
        BY <1>4, <3>2 DEF resume_saga_busy
      <4>2. retry' \in [Tasks -> Nat] BY <4>1
      <4> QED BY <1>4, <3>2, <4>2, GotoKeeps DEF resume_saga_busy, Looping, Pc, ResumePc
    <3> QED BY <3>1, <3>2
  <2> QED BY <2>1, <2>2, <2>3, <2>4 DEF TypeInv
<1>5. CASE resume_saga_timeout(t)
  <2>1. RowOK' BY <1>5, KeepRow, WriteKeeps DEF resume_saga_timeout, SagaState, RowOK
  <2>2. KeysOK' BY <1>5, LockAssumption DEF resume_saga_timeout, KeysOK, Release, ResumeResult
  <2>3. CountsOK' BY <1>5 DEF resume_saga_timeout, CountsOK
  <2>4. LocalsOK'
    BY <1>5, ReturnKeeps, GotoKeeps, CompensateKeeps DEF resume_saga_timeout, Looping, Caller, Pc, StartPc, RunPc, CompPc, ResumePc, OtherPc
  <2> QED BY <2>1, <2>2, <2>3, <2>4 DEF TypeInv
<1>6. CASE resume_saga_fetch(t)
  <2>1. RowOK' BY <1>6, KeepRow, WriteKeeps DEF resume_saga_fetch, SagaState, RowOK
  <2>2. KeysOK' BY <1>6, LockAssumption DEF resume_saga_fetch, KeysOK, Release, ResumeResult
  <2>3. CountsOK' BY <1>6 DEF resume_saga_fetch, CountsOK
  <2>4. LocalsOK'
    <3>1. CASE res' = res BY <1>6, <3>1, FetchKeeps, GotoKeeps DEF resume_saga_fetch, Looping, Pc, ResumePc
    <3>2. CASE res' = [res EXCEPT ![t] = "error"] /\ snap' = snap
      <4>1. res' \in [Tasks -> ResumeResult] BY <3>2 DEF ResumeResult
      <4> QED BY <1>6, <3>2, <4>1, GotoKeeps DEF resume_saga_fetch, Looping, Pc, ResumePc
    <3> QED BY <1>6, <3>1, <3>2 DEF resume_saga_fetch
  <2> QED BY <2>1, <2>2, <2>3, <2>4 DEF TypeInv
<1>7. CASE booking_confirm_ok(t)
  <2>5. world' \in Seq(Effect) /\ Len(world') = Len(world)
    BY <1>7, RepopulatedType DEF booking_confirm_ok, RowOK
  <2>1. RowOK'
    BY <1>7, <2>5 DEF booking_confirm_ok, RowOK, InRange
  <2>2. KeysOK' BY <1>7, LockAssumption DEF booking_confirm_ok, KeysOK, Release, ResumeResult
  <2>3. CountsOK' BY <1>7 DEF booking_confirm_ok, CountsOK
  <2>4. LocalsOK'
    <3>1. ControlOK' BY <1>7 DEF booking_confirm_ok, ControlOK, Goto, Pc, ResumePc
    <3>2. RecordsOK' BY <1>7, <2>5, KeepRecords DEF booking_confirm_ok
    <3>3. SetsOK' BY <1>7, KeepSets DEF booking_confirm_ok
    <3>4. TodoOK' BY <1>7, KeepTodo DEF booking_confirm_ok, TodoOK, Looping
    <3> QED BY <3>1, <3>2, <3>3, <3>4 DEF LocalsOK
  <2> QED BY <2>1, <2>2, <2>3, <2>4 DEF TypeInv
<1>8. CASE booking_confirm_error(t)
  <2>5. world' \in Seq(Effect) /\ Len(world') = Len(world)
    BY <1>8, RepopulatedType DEF booking_confirm_error, RowOK
  <2>1. RowOK' BY <1>8, <2>5 DEF booking_confirm_error, RowOK, InRange
  <2>2. KeysOK' BY <1>8, LockAssumption DEF booking_confirm_error, KeysOK, Release, ResumeResult
  <2>3. CountsOK' BY <1>8 DEF booking_confirm_error, CountsOK
  <2>4. LocalsOK'
    BY <1>8, <2>5, CompensateKeeps DEF booking_confirm_error, Looping, Caller, Pc, StartPc, RunPc, CompPc, ResumePc, OtherPc
  <2> QED BY <2>1, <2>2, <2>3, <2>4 DEF TypeInv
<1>9. CASE booking_confirm_breaker(t)
  <2>1. RowOK' BY <1>9, KeepRow, WriteKeeps DEF booking_confirm_breaker, SagaState, RowOK
  <2>2. KeysOK' BY <1>9, LockAssumption DEF booking_confirm_breaker, KeysOK, Release, ResumeResult
  <2>3. CountsOK' BY <1>9 DEF booking_confirm_breaker, CountsOK
  <2>4. LocalsOK'
    <3>1. res' \in [Tasks -> ResumeResult] BY <1>9 DEF booking_confirm_breaker, ResumeResult
    <3> QED BY <1>9, <3>1, GotoKeeps DEF booking_confirm_breaker, Looping, Pc, ResumePc
  <2> QED BY <2>1, <2>2, <2>3, <2>4 DEF TypeInv
<1>10. CASE booking_succeed(t)
  <2>1. RowOK' BY <1>10, KeepRow, WriteKeeps DEF booking_succeed, SagaState, RowOK
  <2>2. KeysOK' BY <1>10, LockAssumption DEF booking_succeed, KeysOK, Release, ResumeResult
  <2>3. CountsOK' BY <1>10 DEF booking_succeed, CountsOK
  <2>4. LocalsOK'
    <3>1. CASE db = "up"
      <4>1. res' \in [Tasks -> ResumeResult] BY <1>10, <3>1 DEF booking_succeed, ResumeResult
      <4> QED BY <1>10, <3>1, <4>1, GotoKeeps DEF booking_succeed, Looping, Pc, ResumePc
    <3>2. CASE db # "up"
      BY <1>10, <3>2, CompensateKeeps DEF booking_succeed, Looping, Caller
    <3> QED BY <3>1, <3>2
  <2> QED BY <2>1, <2>2, <2>3, <2>4 DEF TypeInv
<1>11. CASE resume_saga_record(t)
  <2>1. RowOK' BY <1>11, KeepRow, WriteKeeps DEF resume_saga_record, SagaState, RowOK
  <2>2. KeysOK'
    BY <1>11, IdemKeeps, ZenonT(30) DEF resume_saga_record, KeysOK
  <2>3. CountsOK' BY <1>11 DEF resume_saga_record, CountsOK
  <2>4. LocalsOK'
    BY <1>11, ReturnKeeps, GotoKeeps DEF resume_saga_record, Looping, Pc, StartPc, RunPc, CompPc, ResumePc, OtherPc
  <2> QED BY <2>1, <2>2, <2>3, <2>4 DEF TypeInv
<1>12. CASE resume_saga_except(t)
  <2>1. RowOK' BY <1>12, KeepRow, WriteKeeps DEF resume_saga_except, SagaState, RowOK
  <2>2. KeysOK' BY <1>12, LockAssumption DEF resume_saga_except, KeysOK, Release, ResumeResult
  <2>3. CountsOK' BY <1>12 DEF resume_saga_except, CountsOK
  <2>4. LocalsOK'
    BY <1>12, ReturnKeeps, GotoKeeps DEF resume_saga_except, Looping, Pc, StartPc, RunPc, CompPc, ResumePc, OtherPc
  <2> QED BY <2>1, <2>2, <2>3, <2>4 DEF TypeInv
<1>13. CASE resume_saga_release(t)
  <2>1. RowOK' BY <1>13, KeepRow, WriteKeeps DEF resume_saga_release, SagaState, RowOK
  <2>2. KeysOK' BY <1>13, LockAssumption DEF resume_saga_release, KeysOK, Release, ResumeResult
  <2>3. CountsOK' BY <1>13 DEF resume_saga_release, CountsOK
  <2>4. LocalsOK'
    BY <1>13, ReturnKeeps, GotoKeeps DEF resume_saga_release, Looping, Pc, StartPc, RunPc, CompPc, ResumePc, OtherPc
  <2> QED BY <2>1, <2>2, <2>3, <2>4 DEF TypeInv
<1> QED BY <1>1, <1>2, <1>3, <1>4, <1>5, <1>6, <1>7, <1>8, <1>9, <1>10, <1>11, <1>12, <1>13 DEF Resume

\* Those of the workers and operators.
LEMMA TypeRecover == ASSUME TypeInv, NEW t \in Tasks, Recover(t) PROVE TypeInv'
<1> USE DEF At, shared, budget
<1> RowOK /\ KeysOK /\ CountsOK /\ LocalsOK /\ ControlOK /\ RecordsOK /\ SetsOK /\ TodoOK
  BY DEF TypeInv, LocalsOK
<1> /\ pc \in [Tasks -> Pc] /\ at \in [Tasks -> 1..Len(Plan)] /\ retry \in [Tasks -> Nat]
    /\ mine \in [Tasks -> BOOLEAN] /\ res \in [Tasks -> ResumeResult]
    /\ after \in [Tasks -> Caller]
  BY DEF ControlOK
<1> /\ steps \in Seq(StepRecord) /\ InRange(steps)
    /\ snap[t] \in Seq(StepRecord) /\ InRange(snap[t])
  BY DEF RowOK, RecordsOK
<1>1. CASE recover_stuck_saga(t)
  <2>1. RowOK' BY <1>1, KeepRow, WriteKeeps DEF recover_stuck_saga, SagaState, RowOK
  <2>2. KeysOK' BY <1>1, LockAssumption DEF recover_stuck_saga, KeysOK, Release, ResumeResult
  <2>3. CountsOK' BY <1>1 DEF recover_stuck_saga, CountsOK
  <2>4. LocalsOK'
    BY <1>1, ReturnKeeps, GotoKeeps DEF recover_stuck_saga, Looping, Pc, StartPc, RunPc, CompPc, ResumePc, OtherPc
  <2> QED BY <2>1, <2>2, <2>3, <2>4 DEF TypeInv
<1>2. CASE recover_check(t)
  <2>1. RowOK' BY <1>2, KeepRow, WriteKeeps DEF recover_check, SagaState, RowOK
  <2>2. KeysOK' BY <1>2, LockAssumption DEF recover_check, KeysOK, Release, ResumeResult
  <2>3. CountsOK' BY <1>2 DEF recover_check, CountsOK
  <2>4. LocalsOK'
    BY <1>2, ReturnKeeps, GotoKeeps, CompensateKeeps DEF recover_check, Looping, Caller, Pc, StartPc, RunPc, CompPc, ResumePc, OtherPc
  <2> QED BY <2>1, <2>2, <2>3, <2>4 DEF TypeInv
<1>3. CASE operator_recover(t)
  <2>1. RowOK' BY <1>3, KeepRow, WriteKeeps DEF operator_recover, SagaState, RowOK
  <2>2. KeysOK' BY <1>3, LockAssumption DEF operator_recover, KeysOK, Release, ResumeResult
  <2>3. CountsOK' BY <1>3 DEF operator_recover, CountsOK
  <2>4. LocalsOK'
    BY <1>3, ReturnKeeps, GotoKeeps, CompensateKeeps DEF operator_recover, Looping, Caller, Pc, StartPc, RunPc, CompPc, ResumePc, OtherPc
  <2> QED BY <2>1, <2>2, <2>3, <2>4 DEF TypeInv
<1>4. CASE replay_saga(t)
  <2>1. RowOK' BY <1>4, KeepRow, WriteKeeps DEF replay_saga, SagaState, RowOK
  <2>2. KeysOK' BY <1>4, LockAssumption DEF replay_saga, KeysOK, Release, ResumeResult
  <2>3. CountsOK' BY <1>4 DEF replay_saga, CountsOK
  <2>4. LocalsOK'
    BY <1>4, ReturnKeeps, GotoKeeps, FetchKeeps DEF replay_saga, Looping, Pc, StartPc, RunPc, CompPc, ResumePc, OtherPc
  <2> QED BY <2>1, <2>2, <2>3, <2>4 DEF TypeInv
<1>5. CASE replay_mark(t)
  <2>1. RowOK' BY <1>5, KeepRow, WriteKeeps DEF replay_mark, SagaState, RowOK
  <2>2. KeysOK' BY <1>5, LockAssumption DEF replay_mark, KeysOK, Release, ResumeResult
  <2>3. CountsOK' BY <1>5 DEF replay_mark, CountsOK
  <2>4. LocalsOK'
    BY <1>5, ReturnKeeps, GotoKeeps DEF replay_mark, Looping, Pc, StartPc, RunPc, CompPc, ResumePc, OtherPc
  <2> QED BY <2>1, <2>2, <2>3, <2>4 DEF TypeInv
<1> QED BY <1>1, <1>2, <1>3, <1>4, <1>5 DEF Recover

\* A crash resets the locals of its task and orphans its lock.
LEMMA TypeCrash == ASSUME TypeInv, NEW t \in Tasks, crash(t) PROVE TypeInv'
<1> USE DEF TypeInv
<1>1. RowOK' BY KeepRow DEF crash, RowOK
<1>2. KeysOK' BY DEF crash, KeysOK
<1>3. CountsOK' BY DEF crash, CountsOK
<1>4. LocalsOK' BY ReturnKeeps DEF crash
<1> QED BY <1>1, <1>2, <1>3, <1>4

\* The environment touches no local.
LEMMA TypeEnvironment == ASSUME TypeInv, Environment \/ UNCHANGED vars PROVE TypeInv'
<1> USE DEF TypeInv, Environment, archive_waiting_confirm, lock_expire, db_fails, db_returns,
        saga_expires, idempotency_expires, vars, shared, budget
<1>1. RowOK' BY KeepRow DEF RowOK, SagaState
<1>2. KeysOK'
  <2>1. CASE idempotency_expires
    <3>1. /\ idem' = [start |-> FALSE, resume |-> "none", comp |-> {}]
          /\ lock' = lock /\ history' = history
      BY <2>1
    <3>2. idem' \in [start : BOOLEAN, resume : ResumeResult, comp : SUBSET STRING]
      BY <3>1 DEF ResumeResult
    <3> QED BY <3>1, <3>2, Zenon DEF KeysOK
  <2>2. CASE ~idempotency_expires BY <2>2 DEF KeysOK
  <2> QED BY <2>1, <2>2
<1>3. CountsOK'
  <2>1. expired' \in BOOLEAN BY DEF CountsOK
  <2>2. dlq' \in BOOLEAN BY DEF CountsOK
  <2>3. db' \in {"up", "down"} BY DEF CountsOK
  <2>4. crashes' \in Nat /\ outages' \in Nat /\ replays' \in Nat BY DEF CountsOK
  <2> QED BY <2>1, <2>2, <2>3, <2>4, Zenon DEF CountsOK
<1>4. LocalsOK'
  <2>1. UNCHANGED locals /\ UNCHANGED world BY DEF locals
  <2>2. ControlOK' BY <2>1 DEF LocalsOK, ControlOK, locals
  <2>3. RecordsOK' BY <2>1, KeepRecords DEF LocalsOK, locals
  <2>4. SetsOK' BY <2>1, KeepSets DEF LocalsOK, locals
  <2>5. TodoOK' BY <2>1 DEF LocalsOK, TodoOK, locals
  <2> QED BY <2>2, <2>3, <2>4, <2>5 DEF LocalsOK
<1> QED BY <1>1, <1>2, <1>3, <1>4

\* Initially there is no row, no effect and nobody inside.
LEMMA TypeInit == Init => TypeInv
<1> SUFFICES ASSUME Init PROVE TypeInv OBVIOUS
<1>1. RowOK BY DEF Init, RowOK, InRange, SagaState
<1>2. KeysOK
  <2>1. history \in SUBSET STRING BY DEF Init
  <2>2. idem \in [start : BOOLEAN, resume : ResumeResult, comp : SUBSET STRING]
    BY DEF Init, ResumeResult
  <2> QED BY <2>1, <2>2 DEF Init, KeysOK
<1>3. CountsOK BY DEF Init, CountsOK
<1>4. ControlOK
  BY PlanAssumption DEF Init, ControlOK, Pc, OtherPc, Caller, ResumeResult
<1>5. RecordsOK BY DEF Init, RecordsOK, InRange
<1>6. SetsOK
  <2>1. cops \in [Tasks -> SUBSET STRING] BY DEF Init
  <2>2. todo \in [Tasks -> SUBSET Nat] BY DEF Init
  <2>3. results \in [Tasks -> SUBSET {"succeeded", "skipped", "failed"}] BY DEF Init
  <2> QED BY <2>1, <2>2, <2>3 DEF SetsOK
<1>7. TodoOK BY DEF Init, TodoOK
<1> QED BY <1>1, <1>2, <1>3, <1>4, <1>5, <1>6, <1>7 DEF TypeInv, LocalsOK

\* The types hold in every reachable state.
THEOREM TypeInvariant == Spec => []TypeInv
<1>1. Init => TypeInv BY TypeInit
<1>2. TypeInv /\ [Next]_vars => TypeInv'
  <2> SUFFICES ASSUME TypeInv, [Next]_vars PROVE TypeInv' OBVIOUS
  <2>1. ASSUME NEW t \in Tasks, Start(t) \/ Run(t) \/ CompensateStep(t) PROVE TypeInv'
    BY <2>1, TypeStart, TypeRun, TypeCompensateStep
  <2>2. ASSUME NEW t \in Tasks, Resume(t) \/ Recover(t) \/ crash(t) PROVE TypeInv'
    BY <2>2, TypeResume, TypeRecover, TypeCrash
  <2>3. CASE Environment \/ UNCHANGED vars BY <2>3, TypeEnvironment
  <2> QED BY <2>1, <2>2, <2>3 DEF Next
<1> QED BY <1>1, <1>2, PTL DEF Spec

\* For every plan, any number of tasks and any number of faults, the row, the
\* lock, the tables and the locals of every task keep their types.
THEOREM TypeOKHolds == Spec => []TypeOK
BY TypeInvariant, TypeInvTypeOK, PTL

-----------------------------------------------------------------------------
(* No compensation comes between the confirm of a booking and the row that   *)
(* says succeeded.  A flow that writes over the row without the lock never   *)
(* writes succeeded; the two parties that matter, the end of a resume and    *)
(* the compensation loop, exclude each other by the lock (LockInvariant).    *)

\* No compensation has been called for the effects of a list of records since
\* they were made or put back.
Standing(recs) == \A i \in 1..Len(recs) : world[recs[i].eff].standing

\* A saga that waits has a reservation in its row, and so has a runner that is
\* about to let it wait.
WaitingHasStep == state = "waiting_confirm" => steps # <<>>
SavingHasStep == \A t \in Tasks : pc[t] \in {"r_save", "r_finish", "u_confirm"} => snap[t] # <<>>
\* Between confirm and the write of succeeded, the reservations stand.
ConfirmedStays == \A t \in Tasks :
    pc[t] = "u_succeed" => snap[t] # <<>> /\ Standing(snap[t])
\* No adapter is asked to compensate under a row that says succeeded.
NoUndoOfSucceeded == \A t \in Tasks : pc[t] \in Looping => state # "succeeded"

OutcomeInv ==
    Pauses => /\ WaitingHasStep /\ SavingHasStep /\ ConfirmedStays /\ NoUndoOfSucceeded
              /\ ConfirmedStands

\* Where the argument looks at a task.
Hot == {"r_save", "r_finish", "u_confirm", "u_succeed"} \cup Looping

\* What stands before the step stands after it.
Upright == \A e \in 1..Len(world) : world[e].standing => world'[e].standing

\* A step that asks for no compensation, leads nowhere hot, and either leaves the
\* row alone or writes a state that is neither waiting_confirm nor succeeded.
ColdStep(t) ==
    /\ Upright
    /\ \E p \in Pc \ Hot : Goto(t, p)
    /\ \A u \in Tasks \ {t} : snap'[u] = snap[u]
    /\ UNCHANGED <<state, steps>> \/ state' \notin {"waiting_confirm", "succeeded"}

\* As long as what stands goes on standing, a row nobody writes keeps its promise.
LEMMA RowStands ==
    ASSUME TypeInv, OutcomeInv, Upright, UNCHANGED <<state, steps>> \/ state' # "succeeded"
    PROVE  ConfirmedStands'
<1> SUFFICES ASSUME Pauses, state' = "succeeded"
             PROVE  steps' # <<>> /\ Standing(steps)'
  BY DEF ConfirmedStands, Standing
<1>1. state = "succeeded" /\ steps' = steps OBVIOUS
<1>2. steps # <<>> /\ Standing(steps) BY <1>1 DEF OutcomeInv, ConfirmedStands, Standing
<1>3. InRange(steps) BY DEF TypeInv, RowOK
<1> QED BY <1>1, <1>2, <1>3 DEF Upright, Standing, InRange

LEMMA ColdKeeps ==
    ASSUME TypeInv, OutcomeInv, NEW t \in Tasks, ColdStep(t) PROVE OutcomeInv'
<1> SUFFICES ASSUME Pauses PROVE OutcomeInv' BY DEF OutcomeInv
<1>1. pc \in [Tasks -> Pc] BY DEF TypeInv, LocalsOK, ControlOK
<1>2. \A u \in Tasks : pc'[u] \in Hot => u # t /\ pc'[u] = pc[u]
  BY <1>1 DEF ColdStep, Upright, Goto
<1>3. \A u \in Tasks : u # t => snap'[u] = snap[u] BY DEF ColdStep
<1>4. WaitingHasStep' BY DEF ColdStep, Upright, OutcomeInv, WaitingHasStep
<1>5. SavingHasStep' BY <1>2, <1>3 DEF OutcomeInv, SavingHasStep, Hot
<1>6. ConfirmedStays'
  <2> SUFFICES ASSUME NEW u \in Tasks, pc'[u] = "u_succeed"
               PROVE  snap'[u] # <<>> /\ Standing(snap[u])'
    BY DEF ConfirmedStays
  <2>1. pc[u] = "u_succeed" /\ snap'[u] = snap[u] BY <1>2, <1>3 DEF Hot
  <2>2. snap[u] # <<>> /\ Standing(snap[u]) BY <2>1 DEF OutcomeInv, ConfirmedStays
  <2>3. InRange(snap[u]) BY DEF TypeInv, LocalsOK, RecordsOK
  <2> QED BY <2>1, <2>2, <2>3 DEF ColdStep, Upright, Standing, InRange
<1>7. NoUndoOfSucceeded'
  <2>1. state' = state \/ state' # "succeeded" BY DEF ColdStep
  <2> QED BY <1>2, <2>1 DEF OutcomeInv, NoUndoOfSucceeded, Hot
<1>8. ConfirmedStands' BY RowStands DEF ColdStep
<1> QED BY <1>4, <1>5, <1>6, <1>7, <1>8 DEF OutcomeInv

\* One turn of the compensation loop that cancels nothing.
LEMMA LoopIsQuiet ==
    ASSUME TypeInv, OutcomeInv, NEW t \in Tasks, pc[t] \in Looping, NEW p \in Looping,
           pc' = pc \/ Goto(t, p), UNCHANGED <<state, steps, world, snap>>
    PROVE  OutcomeInv'
<1> SUFFICES ASSUME Pauses PROVE OutcomeInv' BY DEF OutcomeInv
<1>1. pc \in [Tasks -> Pc] BY DEF TypeInv, LocalsOK, ControlOK
<1>2. \A u \in Tasks : pc'[u] = pc[u] \/ (pc[u] \in Looping /\ pc'[u] \in Looping)
  BY <1>1 DEF Goto
<1>3. WaitingHasStep' BY DEF OutcomeInv, WaitingHasStep
<1>4. SavingHasStep' BY <1>2 DEF OutcomeInv, SavingHasStep, Looping
<1>5. ConfirmedStays' BY <1>2 DEF OutcomeInv, ConfirmedStays, Standing, Looping
<1>6. NoUndoOfSucceeded' BY <1>2 DEF OutcomeInv, NoUndoOfSucceeded
<1>7. ConfirmedStands' BY DEF OutcomeInv, ConfirmedStands
<1> QED BY <1>3, <1>4, <1>5, <1>6, <1>7 DEF OutcomeInv

\* Putting reservations back into the store asks for no compensation, and those
\* put back stand.
LEMMA RepopulatedStands ==
    ASSUME world \in Seq(Effect), NEW recs \in Seq(StepRecord)
    PROVE  /\ \A e \in 1..Len(world) :
                 world[e].standing => Repopulated(recs)[e].standing
           /\ InRange(recs) =>
                 \A i \in 1..Len(recs) : Repopulated(recs)[recs[i].eff].standing
<1>1. DOMAIN world = 1..Len(world) /\ DOMAIN recs = 1..Len(recs) BY LenProperties
<1>2. ASSUME NEW e \in 1..Len(world)
      PROVE  /\ world[e].standing => Repopulated(recs)[e].standing
             /\ (\E i \in DOMAIN recs : recs[i].eff = e) => Repopulated(recs)[e].standing
  <2>1. world[e] \in Effect BY ElementOfSeq
  <2>2. [world[e] EXCEPT !.standing = TRUE].standing BY <2>1 DEF Effect
  <2> QED BY <1>1, <2>2 DEF Repopulated
<1> QED BY <1>1, <1>2 DEF InRange

\* What the other adapter calls do to the effects that stand.
LEMMA EffectStands ==
    ASSUME world \in Seq(Effect), NEW e \in 1..Len(world)
    PROVE  \A f \in 1..Len(world) :
              world[f].standing => [world EXCEPT ![e] = Answered(@)][f].standing
<1>1. world[e] \in Effect BY ElementOfSeq
<1>2. Answered(world[e]).standing = world[e].standing BY <1>1 DEF Effect, Answered
<1> QED BY <1>2, LenProperties

\* Of a task that cancels or succeeds, the lock excludes every other one.
LEMMA Exclusion ==
    ASSUME LockInv, NEW t \in Tasks, NEW u \in Tasks,
           pc[t] \in Looping \cup {"u_succeed"}, pc[u] \in Looping \cup {"u_succeed"}
    PROVE  t = u
BY DEF LockInv, LockDiscipline, Critical, Looping

\* start_saga stays cold.
LEMMA OutcomeStart ==
    ASSUME TypeInv, LockInv, OutcomeInv, NEW t \in Tasks, Start(t) PROVE OutcomeInv'
<1> USE DEF At, Goto, Return, shared, budget, WriteRow, Hot, Looping, Pc, StartPc, RunPc, CompPc, ResumePc, OtherPc
<1> SUFFICES ASSUME Pauses PROVE OutcomeInv' BY DEF OutcomeInv
<1>0. snap \in [Tasks -> Seq(StepRecord)] /\ state \in SagaState /\ pc \in [Tasks -> Pc]
  BY DEF TypeInv, RowOK, LocalsOK, RecordsOK, ControlOK
<1>1. CASE start_saga(t)
  <2>1. ColdStep(t) BY <1>0, <1>1 DEF ColdStep, Upright, start_saga
  <2> QED BY <2>1, ColdKeeps
<1>2. CASE start_saga_check(t)
  <2>1. ColdStep(t) BY <1>0, <1>2 DEF ColdStep, Upright, start_saga_check
  <2> QED BY <2>1, ColdKeeps
<1>3. CASE start_saga_acquired(t)
  <2>1. ColdStep(t) BY <1>0, <1>3 DEF ColdStep, Upright, start_saga_acquired
  <2> QED BY <2>1, ColdKeeps
<1>4. CASE start_saga_busy(t)
  <2>1. ColdStep(t) BY <1>0, <1>4 DEF ColdStep, Upright, start_saga_busy
  <2> QED BY <2>1, ColdKeeps
<1>5. CASE start_saga_insert(t)
  <2>1. ColdStep(t) BY <1>0, <1>5 DEF ColdStep, Upright, start_saga_insert
  <2> QED BY <2>1, ColdKeeps
<1>6. CASE start_saga_record(t)
  <2>1. ColdStep(t) BY <1>0, <1>6 DEF ColdStep, Upright, start_saga_record
  <2> QED BY <2>1, ColdKeeps
<1>7. CASE start_saga_cas(t)
  <2>1. ColdStep(t) BY <1>0, <1>7 DEF ColdStep, Upright, start_saga_cas
  <2> QED BY <2>1, ColdKeeps
<1>8. CASE start_saga_release(t)
  <2>1. ColdStep(t) BY <1>0, <1>8 DEF ColdStep, Upright, start_saga_release
  <2> QED BY <2>1, ColdKeeps
<1> QED BY <1>1, <1>2, <1>3, <1>4, <1>5, <1>6, <1>7, <1>8 DEF Start

\* The runner pauses with a reservation.
LEMMA OutcomeRun ==
    ASSUME TypeInv, LockInv, OutcomeInv, NEW t \in Tasks, Run(t) PROVE OutcomeInv'
<1> USE DEF At, Goto, Return, shared, budget, WriteRow, Hot, Looping, Pc, StartPc, RunPc, CompPc, ResumePc, OtherPc
<1> SUFFICES ASSUME Pauses PROVE OutcomeInv' BY DEF OutcomeInv
<1>0. snap \in [Tasks -> Seq(StepRecord)] /\ state \in SagaState /\ pc \in [Tasks -> Pc]
  BY DEF TypeInv, RowOK, LocalsOK, RecordsOK, ControlOK
<1>1. CASE run_saga_timeout(t)
  <2>1. ColdStep(t) BY <1>0, <1>1 DEF ColdStep, Upright, run_saga_timeout, Compensate, AttemptCompensation
  <2> QED BY <2>1, ColdKeeps
<1>2. CASE run_saga_fetch(t)
  <2>1. Upright
    BY <1>2, RepopulatedStands DEF run_saga_fetch, Upright, TypeInv, RowOK
  <2>2. ColdStep(t) BY <1>0, <1>2, <2>1 DEF ColdStep, run_saga_fetch
  <2> QED BY <2>2, ColdKeeps
<1>3. CASE run_saga_mark(t)
  <2>1. ColdStep(t) BY <1>0, <1>3 DEF ColdStep, Upright, run_saga_mark
  <2> QED BY <2>1, ColdKeeps
<1>4. CASE flow_step_ok(t)
  <2> DEFINE n == Plan[at[t]]
  <2>1. /\ world' = Append(world, NewEffect(n)) /\ UNCHANGED <<state, steps>>
        /\ snap' = [snap EXCEPT ![t] = Recorded(snap[t], n)]
    <3>1. UNCHANGED <<state, steps>> BY <1>4 DEF flow_step_ok
    <3>2. world' = Append(world, NewEffect(n)) BY <1>4 DEF flow_step_ok
    <3>3. snap' = [snap EXCEPT ![t] = Recorded(snap[t], n)] BY <1>4, Zenon DEF flow_step_ok
    <3> QED BY <3>1, <3>2, <3>3
  <2>0. \/ pc' = pc
        \/ /\ ~(at[t] < Len(Plan))
           /\ pc' = [pc EXCEPT ![t] = IF Pauses THEN "r_save" ELSE "r_finish"]
    BY <1>4 DEF flow_step_ok
  <2>2. Upright
    <3>1. n \in STRING BY PlanAssumption, ElementOfSeq DEF TypeInv, LocalsOK, ControlOK
    <3>2. NewEffect(n) \in Effect BY <3>1 DEF NewEffect, Effect
    <3>3. world \in Seq(Effect) BY DEF TypeInv, RowOK
    <3> QED BY <2>1, <3>2, <3>3, AppendProperties DEF Upright
  <2>3. pc'[t] \in {"r_save", "r_finish"} => snap'[t] # <<>>
    <3> SUFFICES ASSUME pc'[t] \in {"r_save", "r_finish"} PROVE snap'[t] # <<>> OBVIOUS
    <3>1. pc[t] = "r_step" BY <1>4 DEF flow_step_ok
    <3>2. at[t] = Len(Plan)
      BY <2>0, <3>1, PlanAssumption, LenProperties DEF TypeInv, LocalsOK, ControlOK
    <3>3. n \in Compensatable BY <3>2, PauseAssumption
    <3>4. snap'[t] = Append(snap[t], [name |-> n, eff |-> Len(world) + 1, compensated |-> FALSE])
      BY <1>0, <2>1, <3>3 DEF Recorded
    <3>5. snap[t] \in Seq(StepRecord) BY <1>0
    <3> QED BY <3>4, <3>5
  <2>4. \A u \in Tasks \ {t} : snap'[u] = snap[u] /\ pc'[u] = pc[u]
    BY <1>0, <2>0, <2>1
  <2>5. pc'[t] \in {"r_step", "r_save", "r_finish"}
    BY <1>0, <1>4, <2>0 DEF flow_step_ok
  <2>6. WaitingHasStep' BY <2>1 DEF OutcomeInv, WaitingHasStep
  <2>7. SavingHasStep' BY <2>3, <2>4, <2>5 DEF OutcomeInv, SavingHasStep
  <2>8. ConfirmedStays'
    <3> SUFFICES ASSUME NEW u \in Tasks, pc'[u] = "u_succeed"
                 PROVE  snap'[u] # <<>> /\ Standing(snap[u])'
      BY DEF ConfirmedStays
    <3>1. u # t BY <2>5
    <3>2. pc[u] = "u_succeed" /\ snap'[u] = snap[u] BY <2>4, <3>1
    <3>3. snap[u] # <<>> /\ Standing(snap[u]) BY <3>2 DEF OutcomeInv, ConfirmedStays
    <3>4. InRange(snap[u]) BY DEF TypeInv, LocalsOK, RecordsOK
    <3> QED BY <2>2, <3>2, <3>3, <3>4 DEF Upright, Standing, InRange
  <2>9. NoUndoOfSucceeded' BY <2>1, <2>4, <2>5 DEF OutcomeInv, NoUndoOfSucceeded
  <2>10. ConfirmedStands' BY <2>1, <2>2, RowStands
  <2> QED BY <2>6, <2>7, <2>8, <2>9, <2>10 DEF OutcomeInv
<1>5. CASE flow_step_error(t)
  <2>1. ColdStep(t) BY <1>0, <1>5 DEF ColdStep, Upright, flow_step_error, Compensate, AttemptCompensation
  <2> QED BY <2>1, ColdKeeps
<1>6. CASE flow_step_breaker(t)
  <2>1. ColdStep(t) BY <1>0, <1>6 DEF ColdStep, Upright, flow_step_breaker
  <2> QED BY <2>1, ColdKeeps
<1>7. CASE flow_save(t)
  <2>1. CASE db = "up"
    <3>1. /\ state' = "in_progress" /\ UNCHANGED <<snap, world>> /\ pc[t] = "r_save"
          /\ pc' = [pc EXCEPT ![t] = "r_finish"]
      BY <1>7, <2>1 DEF flow_save
    <3>2. WaitingHasStep' BY <3>1 DEF WaitingHasStep
    <3>3. SavingHasStep' BY <1>0, <3>1 DEF OutcomeInv, SavingHasStep
    <3>4. ConfirmedStays' BY <1>0, <3>1 DEF OutcomeInv, ConfirmedStays, Standing
    <3>5. NoUndoOfSucceeded' BY <3>1 DEF NoUndoOfSucceeded
    <3>6. ConfirmedStands' BY <3>1 DEF ConfirmedStands
    <3> QED BY <3>2, <3>3, <3>4, <3>5, <3>6 DEF OutcomeInv
  <2>2. CASE db # "up"
    <3>1. ColdStep(t)
      BY <1>0, <1>7, <2>2 DEF ColdStep, Upright, flow_save, AttemptCompensation, Compensate
    <3> QED BY <3>1, ColdKeeps
  <2> QED BY <2>1, <2>2
<1>8. CASE flow_finish(t)
  <2>1. CASE db = "up"
    <3>1. /\ state' = "waiting_confirm" /\ steps' = snap[t] /\ UNCHANGED world
          /\ pc[t] = "r_finish" /\ pc' = [pc EXCEPT ![t] = "idle"]
          /\ snap' = [snap EXCEPT ![t] = <<>>]
      BY <1>8, <2>1 DEF flow_finish
    <3>2. WaitingHasStep' BY <3>1 DEF OutcomeInv, SavingHasStep, WaitingHasStep
    <3>3. SavingHasStep' BY <1>0, <3>1 DEF OutcomeInv, SavingHasStep
    <3>4. ConfirmedStays' BY <1>0, <3>1 DEF OutcomeInv, ConfirmedStays, Standing
    <3>5. NoUndoOfSucceeded' BY <3>1 DEF NoUndoOfSucceeded
    <3>6. ConfirmedStands' BY <3>1 DEF ConfirmedStands
    <3> QED BY <3>2, <3>3, <3>4, <3>5, <3>6 DEF OutcomeInv
  <2>2. CASE db # "up"
    <3>1. ColdStep(t)
      BY <1>0, <1>8, <2>2 DEF ColdStep, Upright, flow_finish, AttemptCompensation, Compensate
    <3> QED BY <3>1, ColdKeeps
  <2> QED BY <2>1, <2>2
<1>9. CASE flow_fail(t)
  <2>1. ColdStep(t) BY <1>0, <1>9 DEF ColdStep, Upright, flow_fail
  <2> QED BY <2>1, ColdKeeps
<1>10. CASE run_saga_except(t)
  <2>1. ColdStep(t) BY <1>0, <1>10 DEF ColdStep, Upright, run_saga_except
  <2> QED BY <2>1, ColdKeeps
<1>11. CASE persist_dlq_message(t)
  <2>1. ColdStep(t) BY <1>0, <1>11 DEF ColdStep, Upright, persist_dlq_message
  <2> QED BY <2>1, ColdKeeps
<1>12. CASE flow_step_partial(t)
  <2>1. ColdStep(t) BY <1>0, <1>12 DEF ColdStep, Upright, flow_step_partial
  <2> QED BY <2>1, ColdKeeps
<1>13. CASE flow_partial(t)
  <2>1. ColdStep(t)
    BY <1>0, <1>13 DEF ColdStep, Upright, flow_partial, Compensate, AttemptCompensation
  <2> QED BY <2>1, ColdKeeps
<1> QED BY <1>1, <1>2, <1>3, <1>4, <1>5, <1>6, <1>7, <1>8, <1>9, <1>10, <1>11, <1>12, <1>13 DEF Run

\* A compensation has marked the row before it cancels anything.
LEMMA OutcomeCompensateStep ==
    ASSUME TypeInv, LockInv, OutcomeInv, NEW t \in Tasks, CompensateStep(t) PROVE OutcomeInv'
<1> USE DEF At, Goto, Return, shared, budget, WriteRow, Hot, Looping, Pc, StartPc, RunPc, CompPc, ResumePc, OtherPc
<1> SUFFICES ASSUME Pauses PROVE OutcomeInv' BY DEF OutcomeInv
<1>0. snap \in [Tasks -> Seq(StepRecord)] /\ state \in SagaState /\ pc \in [Tasks -> Pc]
  BY DEF TypeInv, RowOK, LocalsOK, RecordsOK, ControlOK
<1>1. CASE compensate_read(t)
  <2>1. ColdStep(t) BY <1>0, <1>1 DEF ColdStep, Upright, compensate_read
  <2> QED BY <2>1, ColdKeeps
<1>2. CASE compensate_acquired(t)
  <2>1. ColdStep(t) BY <1>0, <1>2 DEF ColdStep, Upright, compensate_acquired
  <2> QED BY <2>1, ColdKeeps
<1>3. CASE compensate_busy(t)
  <2>1. ColdStep(t) BY <1>0, <1>3 DEF ColdStep, Upright, compensate_busy, CompensateReturns, CompensateRaises, Leave
  <2> QED BY <2>1, ColdKeeps
<1>4. CASE compensate_mark(t)
  <2>1. CASE db = "up"
    <3>1. /\ state' = "compensating" /\ UNCHANGED <<snap, world>> /\ pc[t] = "c_mark"
          /\ pc' = [pc EXCEPT ![t] = "c_step"]
      BY <1>4, <2>1 DEF compensate_mark
    <3>2. WaitingHasStep' BY <3>1 DEF WaitingHasStep
    <3>3. SavingHasStep' BY <1>0, <3>1 DEF OutcomeInv, SavingHasStep
    <3>4. ConfirmedStays' BY <1>0, <3>1 DEF OutcomeInv, ConfirmedStays, Standing
    <3>5. NoUndoOfSucceeded' BY <3>1 DEF NoUndoOfSucceeded
    <3>6. ConfirmedStands' BY <3>1 DEF ConfirmedStands
    <3> QED BY <3>2, <3>3, <3>4, <3>5, <3>6 DEF OutcomeInv
  <2>2. CASE db # "up"
    <3>1. ColdStep(t) BY <1>0, <1>4, <2>2 DEF ColdStep, Upright, compensate_mark
    <3> QED BY <3>1, ColdKeeps
  <2> QED BY <2>1, <2>2
<1>5. CASE compensate_skip(t)
  BY <1>5, LoopIsQuiet DEF compensate_skip
<1>6. CASE compensate_pass(t)
  BY <1>6, LoopIsQuiet DEF compensate_pass
<1>7. CASE compensate_step_ok(t)
  <2>1. /\ pc[t] = "c_call" /\ pc' = [pc EXCEPT ![t] = "c_history"]
        /\ UNCHANGED <<state, steps>>
    BY <1>7 DEF compensate_step_ok
  <2>2. state # "succeeded" BY <2>1 DEF OutcomeInv, NoUndoOfSucceeded
  <2>3. \A u \in Tasks \ {t} : snap'[u] = snap[u]
    <3>1. PICK i \in todo[t] : snap' = [snap EXCEPT ![t][i].compensated = TRUE]
      BY <1>7 DEF compensate_step_ok
    <3> QED BY <1>0, <3>1
  <2>4. WaitingHasStep' BY <2>1 DEF OutcomeInv, WaitingHasStep
  <2>5. SavingHasStep' BY <1>0, <2>1, <2>3 DEF OutcomeInv, SavingHasStep
  <2>6. ConfirmedStays' BY <1>0, <2>1, Exclusion DEF ConfirmedStays
  <2>7. NoUndoOfSucceeded' BY <2>1, <2>2 DEF NoUndoOfSucceeded
  <2>8. ConfirmedStands' BY <2>1, <2>2 DEF ConfirmedStands
  <2> QED BY <2>4, <2>5, <2>6, <2>7, <2>8 DEF OutcomeInv
<1>8. CASE compensate_step_error(t)
  BY <1>8, LoopIsQuiet DEF compensate_step_error
<1>9. CASE compensate_history(t)
  BY <1>9, LoopIsQuiet DEF compensate_history
<1>10. CASE compensate_idem(t)
  BY <1>10, LoopIsQuiet DEF compensate_idem
<1>11. CASE compensate_finish(t)
  <2>1. ColdStep(t) BY <1>0, <1>11 DEF ColdStep, Upright, compensate_finish, FinalState
  <2> QED BY <2>1, ColdKeeps
<1>12. CASE compensate_summary(t)
  <2>1. ColdStep(t) BY <1>0, <1>12 DEF ColdStep, Upright, compensate_summary, CompensateReturns, CompensateRaises, Leave
  <2> QED BY <2>1, ColdKeeps
<1>13. CASE compensate_abort(t)
  <2>1. ColdStep(t) BY <1>0, <1>13 DEF ColdStep, Upright, compensate_abort, CompensateReturns, CompensateRaises, Leave
  <2> QED BY <2>1, ColdKeeps
<1>14. CASE compensate_call(t)
  <2>1. /\ pc[t] \in Looping /\ pc' = [pc EXCEPT ![t] = "c_call"] /\ UNCHANGED <<state, steps, snap>>
    BY <1>14 DEF compensate_call
  <2>2. state # "succeeded" BY <2>1 DEF OutcomeInv, NoUndoOfSucceeded
  <2>3. WaitingHasStep' BY <2>1 DEF OutcomeInv, WaitingHasStep
  <2>4. SavingHasStep' BY <1>0, <2>1 DEF OutcomeInv, SavingHasStep
  <2>5. ConfirmedStays' BY <1>0, <2>1, Exclusion DEF ConfirmedStays
  <2>6. NoUndoOfSucceeded' BY <2>1, <2>2 DEF NoUndoOfSucceeded
  <2>7. ConfirmedStands' BY <2>1, <2>2 DEF ConfirmedStands
  <2> QED BY <2>3, <2>4, <2>5, <2>6, <2>7 DEF OutcomeInv
<1>15. CASE compensate_step_retry(t)
  <2>1. /\ pc[t] \in Looping /\ pc' = pc /\ UNCHANGED <<state, steps, snap>>
    BY <1>15 DEF compensate_step_retry
  <2>2. state # "succeeded" BY <2>1 DEF OutcomeInv, NoUndoOfSucceeded
  <2>3. WaitingHasStep' BY <2>1 DEF OutcomeInv, WaitingHasStep
  <2>4. SavingHasStep' BY <1>0, <2>1 DEF OutcomeInv, SavingHasStep
  <2>5. ConfirmedStays' BY <1>0, <2>1, Exclusion DEF ConfirmedStays
  <2>6. NoUndoOfSucceeded' BY <2>1, <2>2 DEF NoUndoOfSucceeded
  <2>7. ConfirmedStands' BY <2>1, <2>2 DEF ConfirmedStands
  <2> QED BY <2>3, <2>4, <2>5, <2>6, <2>7 DEF OutcomeInv
<1> QED BY <1>1, <1>2, <1>3, <1>4, <1>5, <1>6, <1>7, <1>8, <1>9, <1>10, <1>11, <1>12, <1>13, <1>14, <1>15 DEF CompensateStep

\* A resume writes succeeded after it has confirmed, under the lock.
LEMMA OutcomeResume ==
    ASSUME TypeInv, LockInv, OutcomeInv, NEW t \in Tasks, Resume(t) PROVE OutcomeInv'
<1> USE DEF At, Goto, Return, shared, budget, WriteRow, Hot, Looping, Pc, StartPc, RunPc, CompPc, ResumePc, OtherPc
<1> SUFFICES ASSUME Pauses PROVE OutcomeInv' BY DEF OutcomeInv
<1>0. snap \in [Tasks -> Seq(StepRecord)] /\ state \in SagaState /\ pc \in [Tasks -> Pc]
  BY DEF TypeInv, RowOK, LocalsOK, RecordsOK, ControlOK
<1>1. CASE resume_saga(t)
  <2>1. ColdStep(t) BY <1>0, <1>1 DEF ColdStep, Upright, resume_saga
  <2> QED BY <2>1, ColdKeeps
<1>2. CASE resume_saga_check(t)
  <2>1. ColdStep(t) BY <1>0, <1>2 DEF ColdStep, Upright, resume_saga_check
  <2> QED BY <2>1, ColdKeeps
<1>3. CASE resume_saga_acquired(t)
  <2>1. ColdStep(t) BY <1>0, <1>3 DEF ColdStep, Upright, resume_saga_acquired
  <2> QED BY <2>1, ColdKeeps
<1>4. CASE resume_saga_busy(t)
  <2>1. ColdStep(t) BY <1>0, <1>4 DEF ColdStep, Upright, resume_saga_busy
  <2> QED BY <2>1, ColdKeeps
<1>5. CASE resume_saga_timeout(t)
  <2>1. ColdStep(t) BY <1>0, <1>5 DEF ColdStep, Upright, resume_saga_timeout, Compensate, AttemptCompensation
  <2> QED BY <2>1, ColdKeeps
<1>6. CASE resume_saga_fetch(t)
  <2>1. CASE db = "up" /\ state = "waiting_confirm"
    <3>1. /\ UNCHANGED <<state, steps, world>> /\ pc[t] = "u_fetch"
          /\ pc' = [pc EXCEPT ![t] = "u_confirm"] /\ snap' = [snap EXCEPT ![t] = steps]
      BY <1>6, <2>1 DEF resume_saga_fetch
    <3>2. WaitingHasStep' BY <3>1 DEF OutcomeInv, WaitingHasStep
    <3>3. SavingHasStep'
      BY <1>0, <2>1, <3>1 DEF OutcomeInv, WaitingHasStep, SavingHasStep
    <3>4. ConfirmedStays' BY <1>0, <3>1 DEF OutcomeInv, ConfirmedStays, Standing
    <3>5. NoUndoOfSucceeded' BY <2>1, <3>1 DEF NoUndoOfSucceeded
    <3>6. ConfirmedStands' BY <2>1, <3>1 DEF ConfirmedStands
    <3> QED BY <3>2, <3>3, <3>4, <3>5, <3>6 DEF OutcomeInv
  <2>2. CASE ~(db = "up" /\ state = "waiting_confirm")
    <3>1. ColdStep(t) BY <1>0, <1>6, <2>2 DEF ColdStep, Upright, resume_saga_fetch
    <3> QED BY <3>1, ColdKeeps
  <2> QED BY <2>1, <2>2
<1>7. CASE booking_confirm_ok(t)
  <2>1. /\ UNCHANGED <<state, steps, snap>> /\ pc[t] = "u_confirm"
        /\ pc' = [pc EXCEPT ![t] = "u_succeed"] /\ snap[t] # <<>>
    BY <1>7 DEF booking_confirm_ok, OutcomeInv, SavingHasStep
  <2>2. world' = Repopulated(snap[t]) BY <1>7 DEF booking_confirm_ok
  <2>3. Upright
    BY <1>0, <2>2, RepopulatedStands DEF Upright, TypeInv, RowOK
  <2>4. \A i \in 1..Len(snap[t]) : world'[snap[t][i].eff].standing
    BY <1>0, <2>2, RepopulatedStands DEF TypeInv, RowOK, LocalsOK, RecordsOK
  <2>6. WaitingHasStep' BY <2>1 DEF OutcomeInv, WaitingHasStep
  <2>7. SavingHasStep' BY <1>0, <2>1 DEF OutcomeInv, SavingHasStep
  <2>8. ConfirmedStays'
    <3> SUFFICES ASSUME NEW u \in Tasks, pc'[u] = "u_succeed"
                 PROVE  snap[u] # <<>> /\ Standing(snap[u])'
      BY <2>1 DEF ConfirmedStays, Standing
    <3>1. CASE u = t BY <2>1, <2>4, <3>1 DEF Standing
    <3>2. CASE u # t
      <4>1. snap[u] # <<>> /\ Standing(snap[u])
        BY <1>0, <2>1, <3>2 DEF OutcomeInv, ConfirmedStays
      <4>2. InRange(snap[u]) BY DEF TypeInv, LocalsOK, RecordsOK
      <4> QED BY <2>1, <2>3, <4>1, <4>2 DEF Upright, Standing, InRange
    <3> QED BY <3>1, <3>2
  <2>9. NoUndoOfSucceeded' BY <1>0, <2>1 DEF OutcomeInv, NoUndoOfSucceeded
  <2>10. ConfirmedStands' BY <2>1, <2>3, RowStands
  <2> QED BY <2>6, <2>7, <2>8, <2>9, <2>10 DEF OutcomeInv
<1>8. CASE booking_confirm_error(t)
  <2>1. Upright
    BY <1>0, <1>8, RepopulatedStands DEF booking_confirm_error, Upright, TypeInv, RowOK
  <2>2. ColdStep(t) BY <1>0, <1>8, <2>1 DEF ColdStep, booking_confirm_error, Compensate
  <2> QED BY <2>2, ColdKeeps
<1>9. CASE booking_confirm_breaker(t)
  <2>1. ColdStep(t) BY <1>0, <1>9 DEF ColdStep, Upright, booking_confirm_breaker
  <2> QED BY <2>1, ColdKeeps
<1>10. CASE booking_succeed(t)
  <2>1. CASE db = "up"
    <3>1. /\ state' = "succeeded" /\ steps' = snap[t] /\ UNCHANGED <<snap, world>>
          /\ pc[t] = "u_succeed" /\ pc' = [pc EXCEPT ![t] = "u_record"]
      BY <1>10, <2>1 DEF booking_succeed
    <3>2. WaitingHasStep' BY <3>1 DEF WaitingHasStep
    <3>3. SavingHasStep' BY <1>0, <3>1 DEF OutcomeInv, SavingHasStep
    <3>4. ConfirmedStays' BY <1>0, <3>1 DEF OutcomeInv, ConfirmedStays, Standing
    <3>5. NoUndoOfSucceeded' BY <1>0, <3>1, Exclusion DEF NoUndoOfSucceeded
    <3>6. ConfirmedStands'
      BY <3>1 DEF OutcomeInv, ConfirmedStays, ConfirmedStands, Standing
    <3> QED BY <3>2, <3>3, <3>4, <3>5, <3>6 DEF OutcomeInv
  <2>2. CASE db # "up"
    <3>1. ColdStep(t) BY <1>0, <1>10, <2>2 DEF ColdStep, Upright, booking_succeed, Compensate
    <3> QED BY <3>1, ColdKeeps
  <2> QED BY <2>1, <2>2
<1>11. CASE resume_saga_record(t)
  <2>1. ColdStep(t) BY <1>0, <1>11 DEF ColdStep, Upright, resume_saga_record
  <2> QED BY <2>1, ColdKeeps
<1>12. CASE resume_saga_except(t)
  <2>1. ColdStep(t) BY <1>0, <1>12 DEF ColdStep, Upright, resume_saga_except
  <2> QED BY <2>1, ColdKeeps
<1>13. CASE resume_saga_release(t)
  <2>1. ColdStep(t) BY <1>0, <1>13 DEF ColdStep, Upright, resume_saga_release
  <2> QED BY <2>1, ColdKeeps
<1> QED BY <1>1, <1>2, <1>3, <1>4, <1>5, <1>6, <1>7, <1>8, <1>9, <1>10, <1>11, <1>12, <1>13 DEF Resume

\* The workers and operators stay cold.
LEMMA OutcomeRecover ==
    ASSUME TypeInv, LockInv, OutcomeInv, NEW t \in Tasks, Recover(t) PROVE OutcomeInv'
<1> USE DEF At, Goto, Return, shared, budget, WriteRow, Hot, Looping, Pc, StartPc, RunPc, CompPc, ResumePc, OtherPc
<1> SUFFICES ASSUME Pauses PROVE OutcomeInv' BY DEF OutcomeInv
<1>0. snap \in [Tasks -> Seq(StepRecord)] /\ state \in SagaState /\ pc \in [Tasks -> Pc]
  BY DEF TypeInv, RowOK, LocalsOK, RecordsOK, ControlOK
<1>1. CASE recover_stuck_saga(t)
  <2>1. ColdStep(t) BY <1>0, <1>1 DEF ColdStep, Upright, recover_stuck_saga
  <2> QED BY <2>1, ColdKeeps
<1>2. CASE recover_check(t)
  <2>1. ColdStep(t) BY <1>0, <1>2 DEF ColdStep, Upright, recover_check, Compensate, AttemptCompensation
  <2> QED BY <2>1, ColdKeeps
<1>3. CASE operator_recover(t)
  <2>1. ColdStep(t) BY <1>0, <1>3 DEF ColdStep, Upright, operator_recover, Compensate, AttemptCompensation
  <2> QED BY <2>1, ColdKeeps
<1>4. CASE replay_saga(t)
  <2>1. ColdStep(t) BY <1>0, <1>4 DEF ColdStep, Upright, replay_saga
  <2> QED BY <2>1, ColdKeeps
<1>5. CASE replay_mark(t)
  <2>1. ColdStep(t) BY <1>0, <1>5 DEF ColdStep, Upright, replay_mark
  <2> QED BY <2>1, ColdKeeps
<1> QED BY <1>1, <1>2, <1>3, <1>4, <1>5 DEF Recover

\* A crash resets its task; the environment moves no task and never makes a
\* row say succeeded or waiting_confirm.
LEMMA OutcomeCrash == ASSUME TypeInv, OutcomeInv, NEW t \in Tasks, crash(t) PROVE OutcomeInv'
<1>1. snap \in [Tasks -> Seq(StepRecord)] BY DEF TypeInv, LocalsOK, RecordsOK
<1>2. ColdStep(t) BY <1>1 DEF ColdStep, Upright, crash, Return, Pc, OtherPc, Hot, Looping
<1> QED BY <1>2, ColdKeeps

LEMMA OutcomeEnvironment ==
    ASSUME OutcomeInv, Environment \/ UNCHANGED vars PROVE OutcomeInv'
<1>1. /\ UNCHANGED <<pc, snap, world>>
      /\ UNCHANGED <<state, steps>> \/ state' = "archived"
  BY DEF Environment, archive_waiting_confirm, lock_expire, db_fails, db_returns,
         saga_expires, idempotency_expires, vars, shared, locals
<1> QED BY <1>1 DEF OutcomeInv, WaitingHasStep, SavingHasStep, ConfirmedStays, Standing,
                    NoUndoOfSucceeded, ConfirmedStands

LEMMA OutcomeInit == Init => OutcomeInv
BY DEF Init, OutcomeInv, WaitingHasStep, SavingHasStep, ConfirmedStays, NoUndoOfSucceeded,
       ConfirmedStands, Looping

\* The outcome invariant holds in every reachable state, given the types and
\* the lock.
THEOREM OutcomeInvariant == Spec => []OutcomeInv
<1>1. Init => OutcomeInv BY OutcomeInit
<1>2. TypeInv /\ LockInv /\ OutcomeInv /\ [Next]_vars => OutcomeInv'
  <2> SUFFICES ASSUME TypeInv, LockInv, OutcomeInv, [Next]_vars PROVE OutcomeInv' OBVIOUS
  <2>1. ASSUME NEW t \in Tasks, Start(t) \/ Run(t) \/ CompensateStep(t) PROVE OutcomeInv'
    BY <2>1, OutcomeStart, OutcomeRun, OutcomeCompensateStep
  <2>2. ASSUME NEW t \in Tasks, Resume(t) \/ Recover(t) \/ crash(t) PROVE OutcomeInv'
    BY <2>2, OutcomeResume, OutcomeRecover, OutcomeCrash
  <2>3. CASE Environment \/ UNCHANGED vars BY <2>3, OutcomeEnvironment
  <2> QED BY <2>1, <2>2, <2>3 DEF Next
<1> QED BY <1>1, <1>2, TypeInvariant, LockInvariant, PTL DEF Spec

\* For any plan that pauses with a reservation, any number of tasks and any
\* number of crashes, outages and replays: no compensation has been called, since
\* the confirm, for a reservation that a row lists which says succeeded.
THEOREM ConfirmedStandsHolds == Spec => []ConfirmedStands
<1>1. OutcomeInv => ConfirmedStands BY DEF OutcomeInv, ConfirmedStands
<1> QED BY <1>1, OutcomeInvariant, PTL

-----------------------------------------------------------------------------
(* The records of steps, and the answers of the adapters.                    *)

\* Only in these two steps does an adapter answer.
Loud(t) == flow_step_ok(t) \/ compensate_step_ok(t)

\* No effect loses its name, and none has its compensation answered.
Kept ==
    /\ Len(world') = Len(world)
    /\ \A e \in 1..Len(world) : /\ world'[e].name = world[e].name
                                /\ world'[e].answered = world[e].answered

\* A step of the others moves lists of records around, unchanged.
Quiet ==
    /\ Kept
    /\ \A u \in Tasks : snap'[u] \in {snap[u], steps, <<>>}
    /\ steps' = steps \/ \E u \in Tasks : steps' = snap[u]

\* Putting reservations back keeps what the effects are and what was answered,
\* and makes none of them asked again.
LEMMA RepopulatedKeeps ==
    ASSUME world \in Seq(Effect), NEW recs
    PROVE  /\ Len(Repopulated(recs)) = Len(world)
           /\ \A e \in 1..Len(world) :
                 /\ Repopulated(recs)[e].name = world[e].name
                 /\ Repopulated(recs)[e].answered = world[e].answered
                 /\ Repopulated(recs)[e].again = world[e].again
<1>1. ASSUME NEW e \in 1..Len(world)
      PROVE  /\ Repopulated(recs)[e].name = world[e].name
             /\ Repopulated(recs)[e].answered = world[e].answered
             /\ Repopulated(recs)[e].again = world[e].again
  <2>1. DOMAIN world = 1..Len(world) BY LenProperties
  <2>2. world[e] \in Effect BY ElementOfSeq
  <2>3. LET x == [world[e] EXCEPT !.standing = TRUE]
        IN  x.name = world[e].name /\ x.answered = world[e].answered /\ x.again = world[e].again
    BY <2>2 DEF Effect
  <2> QED BY <2>1, <2>3 DEF Repopulated
<1> QED BY <1>1, RepopulatedType

\* So does the call of a compensate method, which is a second one only if the
\* first has been answered.
LEMMA AskedKeeps ==
    ASSUME world \in Seq(Effect), NEW e \in 1..Len(world), world' = [world EXCEPT ![e] = Asked(@)]
    PROVE  /\ Kept
           /\ world'[e].again <=> world[e].again \/ world[e].answered
           /\ \A f \in 1..Len(world) : f # e => world'[f] = world[f]
<1>1. world[e] \in Effect BY ElementOfSeq
<1>2. /\ Asked(world[e]).name = world[e].name /\ Asked(world[e]).answered = world[e].answered
      /\ Asked(world[e]).again = (world[e].again \/ world[e].answered)
  BY <1>1 DEF Effect, Asked
<1>3. world'[e] = Asked(world[e]) /\ \A f \in 1..Len(world) : f # e => world'[f] = world[f]
  BY LenProperties
<1>4. Len(world') = Len(world) BY EffectType
<1>5. ASSUME NEW f \in 1..Len(world)
      PROVE  world'[f].name = world[f].name /\ world'[f].answered = world[f].answered
  <2>1. CASE f = e BY <1>2, <1>3, <2>1
  <2>2. CASE f # e BY <1>3, <2>2
  <2> QED BY <2>1, <2>2
<1> QED BY <1>2, <1>3, <1>4, <1>5 DEF Kept

\* The steps of a compensation that call an adapter.
LEMMA CallKeeps ==
    ASSUME TypeInv, NEW t \in Tasks, compensate_call(t) \/ compensate_step_retry(t)
    PROVE  Kept
<1>1. PICK i \in todo[t] : world' = [world EXCEPT ![snap[t][i].eff] = Asked(@)]
  BY DEF compensate_call, compensate_step_retry
<1>2. world \in Seq(Effect) /\ snap[t][i].eff \in 1..Len(world)
  BY DEF TypeInv, RowOK, LocalsOK, RecordsOK, TodoOK, InRange
<1> QED BY <1>1, <1>2, AskedKeeps

\* The steps of _compensate_saga leave their lists alone when they return.
LEMMA EndIsQuiet ==
    ASSUME TypeInv, NEW t \in Tasks, CompensateReturns(t) \/ CompensateRaises(t)
    PROVE  \A u \in Tasks : snap'[u] \in {snap[u], <<>>}
<1>1. snap \in [Tasks -> Seq(StepRecord)] BY DEF TypeInv, LocalsOK, RecordsOK
<1>2. CASE CompensateReturns(t) BY <1>1, <1>2 DEF CompensateReturns, Leave, Return
<1>3. CASE CompensateRaises(t) BY <1>1, <1>3 DEF CompensateRaises, Leave, Return
<1> QED BY <1>2, <1>3

\* start_saga calls no adapter, and moves its lists around unchanged.
LEMMA QuietStart == ASSUME TypeInv, NEW t \in Tasks, Start(t) PROVE Quiet
<1> USE DEF Quiet, Kept, Return, shared
<1>0. snap \in [Tasks -> Seq(StepRecord)] BY DEF TypeInv, LocalsOK, RecordsOK
<1>1. CASE start_saga(t) BY <1>1 DEF start_saga
<1>2. CASE start_saga_check(t) BY <1>0, <1>2 DEF start_saga_check
<1>3. CASE start_saga_acquired(t) BY <1>3 DEF start_saga_acquired
<1>4. CASE start_saga_busy(t) BY <1>0, <1>4 DEF start_saga_busy
<1>5. CASE start_saga_insert(t) BY <1>5 DEF start_saga_insert
<1>6. CASE start_saga_record(t) BY <1>6 DEF start_saga_record
<1>7. CASE start_saga_cas(t) BY <1>7 DEF start_saga_cas
<1>8. CASE start_saga_release(t) BY <1>0, <1>8 DEF start_saga_release
<1> QED BY <1>1, <1>2, <1>3, <1>4, <1>5, <1>6, <1>7, <1>8 DEF Start

\* The runner's adapters answer in one step only.
LEMMA QuietRun == ASSUME TypeInv, NEW t \in Tasks, Run(t) PROVE Quiet \/ Loud(t)
<1> USE DEF Quiet, Kept, Return, shared, WriteRow, Compensate, AttemptCompensation
<1>0. snap \in [Tasks -> Seq(StepRecord)] BY DEF TypeInv, LocalsOK, RecordsOK
<1>1. CASE run_saga_timeout(t) BY <1>0, <1>1 DEF run_saga_timeout
<1>2. CASE run_saga_fetch(t)
  <2>1. world \in Seq(Effect) BY DEF TypeInv, RowOK
  <2>2. Kept BY <1>2, <2>1, RepopulatedKeeps DEF run_saga_fetch, Kept
  <2> QED BY <1>0, <1>2, <2>2 DEF run_saga_fetch
<1>3. CASE run_saga_mark(t) BY <1>0, <1>3 DEF run_saga_mark
<1>4. CASE flow_step_ok(t) BY <1>4 DEF Loud
<1>5. CASE flow_step_error(t) BY <1>0, <1>5 DEF flow_step_error
<1>6. CASE flow_step_breaker(t) BY <1>0, <1>6 DEF flow_step_breaker
<1>7. CASE flow_save(t) BY <1>0, <1>7 DEF flow_save
<1>8. CASE flow_finish(t) BY <1>0, <1>8 DEF flow_finish
<1>9. CASE flow_fail(t) BY <1>0, <1>9 DEF flow_fail
<1>10. CASE run_saga_except(t) BY <1>0, <1>10 DEF run_saga_except
<1>11. CASE persist_dlq_message(t) BY <1>11 DEF persist_dlq_message
<1>12. CASE flow_step_partial(t) BY <1>12 DEF flow_step_partial
<1>13. CASE flow_partial(t) BY <1>0, <1>13 DEF flow_partial
<1> QED BY <1>1, <1>2, <1>3, <1>4, <1>5, <1>6, <1>7, <1>8, <1>9, <1>10, <1>11, <1>12, <1>13
        DEF Run

\* So do those a compensation calls.
LEMMA QuietCompensate ==
    ASSUME TypeInv, NEW t \in Tasks, CompensateStep(t) PROVE Quiet \/ Loud(t)
<1> USE DEF Quiet, Kept, shared, WriteRow
<1>0. snap \in [Tasks -> Seq(StepRecord)] BY DEF TypeInv, LocalsOK, RecordsOK
<1>1. CASE compensate_read(t) BY <1>1 DEF compensate_read
<1>2. CASE compensate_acquired(t) BY <1>2 DEF compensate_acquired
<1>3. CASE compensate_busy(t) BY <1>3, EndIsQuiet DEF compensate_busy
<1>4. CASE compensate_mark(t) BY <1>4 DEF compensate_mark
<1>5. CASE compensate_skip(t) BY <1>5 DEF compensate_skip
<1>6. CASE compensate_pass(t) BY <1>6 DEF compensate_pass
<1>7. CASE compensate_step_ok(t) BY <1>7 DEF Loud
<1>8. CASE compensate_step_error(t) BY <1>8 DEF compensate_step_error
<1>9. CASE compensate_history(t) BY <1>9 DEF compensate_history
<1>10. CASE compensate_idem(t) BY <1>10 DEF compensate_idem
<1>11. CASE compensate_finish(t) BY <1>11 DEF compensate_finish
<1>12. CASE compensate_summary(t) BY <1>12, EndIsQuiet DEF compensate_summary
<1>13. CASE compensate_abort(t) BY <1>13, EndIsQuiet DEF compensate_abort
<1>14. CASE compensate_call(t)
  <2>1. Kept BY <1>14, CallKeeps
  <2> QED BY <1>14, <2>1 DEF compensate_call
<1>15. CASE compensate_step_retry(t)
  <2>1. Kept BY <1>15, CallKeeps
  <2> QED BY <1>15, <2>1 DEF compensate_step_retry
<1> QED BY <1>1, <1>2, <1>3, <1>4, <1>5, <1>6, <1>7, <1>8, <1>9, <1>10, <1>11, <1>12, <1>13,
        <1>14, <1>15 DEF CompensateStep

\* A resume has no compensation answered, though it puts reservations back.
LEMMA QuietResume == ASSUME TypeInv, NEW t \in Tasks, Resume(t) PROVE Quiet
<1> USE DEF Quiet, Kept, Return, shared, WriteRow, Compensate
<1>0. snap \in [Tasks -> Seq(StepRecord)] BY DEF TypeInv, LocalsOK, RecordsOK
<1>1. CASE resume_saga(t) BY <1>1 DEF resume_saga
<1>2. CASE resume_saga_check(t) BY <1>0, <1>2 DEF resume_saga_check
<1>3. CASE resume_saga_acquired(t) BY <1>3 DEF resume_saga_acquired
<1>4. CASE resume_saga_busy(t) BY <1>0, <1>4 DEF resume_saga_busy
<1>5. CASE resume_saga_timeout(t) BY <1>0, <1>5 DEF resume_saga_timeout
<1>6. CASE resume_saga_fetch(t) BY <1>0, <1>6 DEF resume_saga_fetch
<1>7. CASE booking_confirm_ok(t)
  <2>1. world \in Seq(Effect) BY DEF TypeInv, RowOK
  <2>2. Kept BY <1>7, <2>1, RepopulatedKeeps DEF booking_confirm_ok, Kept
  <2> QED BY <1>0, <1>7, <2>2 DEF booking_confirm_ok
<1>8. CASE booking_confirm_error(t)
  <2>1. world \in Seq(Effect) BY DEF TypeInv, RowOK
  <2>2. Kept BY <1>8, <2>1, RepopulatedKeeps DEF booking_confirm_error, Kept
  <2> QED BY <1>0, <1>8, <2>2 DEF booking_confirm_error
<1>9. CASE booking_confirm_breaker(t) BY <1>9 DEF booking_confirm_breaker
<1>10. CASE booking_succeed(t) BY <1>0, <1>10 DEF booking_succeed
<1>11. CASE resume_saga_record(t) BY <1>11 DEF resume_saga_record
<1>12. CASE resume_saga_except(t) BY <1>12 DEF resume_saga_except
<1>13. CASE resume_saga_release(t) BY <1>0, <1>13 DEF resume_saga_release
<1> QED BY <1>1, <1>2, <1>3, <1>4, <1>5, <1>6, <1>7, <1>8, <1>9, <1>10, <1>11, <1>12, <1>13
        DEF Resume

\* Recovery, replay and a crash call no adapter.
LEMMA QuietRecover == ASSUME TypeInv, NEW t \in Tasks, Recover(t) \/ crash(t) PROVE Quiet
<1> USE DEF Quiet, Kept, Return, shared, WriteRow, Compensate
<1>0. snap \in [Tasks -> Seq(StepRecord)] BY DEF TypeInv, LocalsOK, RecordsOK
<1>1. CASE recover_stuck_saga(t) BY <1>1 DEF recover_stuck_saga
<1>2. CASE recover_check(t) BY <1>0, <1>2 DEF recover_check
<1>3. CASE operator_recover(t) BY <1>0, <1>3 DEF operator_recover
<1>4. CASE replay_saga(t) BY <1>0, <1>4 DEF replay_saga
<1>5. CASE replay_mark(t) BY <1>0, <1>5 DEF replay_mark
<1>6. CASE crash(t) BY <1>0, <1>6 DEF crash
<1> QED BY <1>1, <1>2, <1>3, <1>4, <1>5, <1>6 DEF Recover

\* Nor does the environment.
LEMMA QuietEnvironment == ASSUME Environment \/ UNCHANGED vars PROVE Quiet
BY DEF Quiet, Kept, Environment, archive_waiting_confirm, lock_expire, db_fails, db_returns,
       saga_expires, idempotency_expires, vars, shared, locals

\* Every step is quiet, or an adapter answers in it.
LEMMA QuietOrLoud ==
    ASSUME TypeInv, [Next]_vars PROVE Quiet \/ \E t \in Tasks : Loud(t)
BY QuietStart, QuietRun, QuietCompensate, QuietResume, QuietRecover, QuietEnvironment DEF Next

\* A record names the effect it points at, and the compensation of one that is
\* flagged has been answered.
Faithful(recs) == \A i \in 1..Len(recs) :
    /\ recs[i].name \in Compensatable
    /\ recs[i].name = world[recs[i].eff].name
    /\ recs[i].compensated => world[recs[i].eff].answered
FaithInv == Faithful(steps) /\ \A t \in Tasks : Faithful(snap[t])

\* A flow that does not pause never waits, so nothing is ever confirmed.
NeverWaits == ~Pauses =>
    /\ state # "waiting_confirm"
    /\ \A t \in Tasks : pc[t] \notin {"r_save", "u_confirm", "u_succeed"}

\* A flow that does not pause never waits for the user (BaseSagaFlow.run).
LEMMA NeverWaitsInvariant == Spec => []NeverWaits
<1>1. Init => NeverWaits BY DEF Init, NeverWaits
<1>2. TypeInv /\ NeverWaits /\ [Next]_vars => NeverWaits'
  <2> SUFFICES ASSUME TypeInv, NeverWaits, [Next]_vars, ~Pauses PROVE NeverWaits'
    BY DEF NeverWaits
  <2> USE DEF NeverWaits, At, Goto, Return, WriteRow, shared
  <2>0. pc \in [Tasks -> Pc] BY DEF TypeInv, LocalsOK, ControlOK
  <2>1. ASSUME NEW t \in Tasks, Start(t) PROVE NeverWaits'
    BY <2>0, <2>1 DEF Start, start_saga, start_saga_check, start_saga_acquired, start_saga_busy,
       start_saga_insert, start_saga_record, start_saga_cas, start_saga_release
  <2>2. ASSUME NEW t \in Tasks, Run(t) PROVE NeverWaits'
    BY <2>0, <2>2 DEF Run, run_saga_timeout, run_saga_fetch, run_saga_mark, flow_step_ok,
       flow_step_error, flow_step_partial, flow_partial, flow_step_breaker, flow_save,
       flow_finish, flow_fail, run_saga_except, persist_dlq_message, Compensate, AttemptCompensation
  <2>3. ASSUME NEW t \in Tasks, CompensateStep(t) PROVE NeverWaits'
    <3> USE <2>0 DEF CompensateReturns, CompensateRaises, Leave
    <3>1. CASE \/ compensate_read(t) \/ compensate_acquired(t) \/ compensate_busy(t)
               \/ compensate_mark(t) \/ compensate_summary(t) \/ compensate_abort(t)
      BY <3>1 DEF compensate_read, compensate_acquired, compensate_busy, compensate_mark,
         compensate_summary, compensate_abort
    <3>2. CASE \/ compensate_skip(t) \/ compensate_pass(t) \/ compensate_step_ok(t)
               \/ compensate_call(t) \/ compensate_step_retry(t)
               \/ compensate_step_error(t) \/ compensate_history(t) \/ compensate_idem(t)
               \/ compensate_finish(t)
      BY <3>2 DEF compensate_skip, compensate_pass, compensate_call, compensate_step_retry,
         compensate_step_ok, compensate_step_error,
         compensate_history, compensate_idem, compensate_finish, FinalState
    <3> QED BY <2>3, <3>1, <3>2 DEF CompensateStep
  <2>4. ASSUME NEW t \in Tasks, Resume(t) PROVE NeverWaits'
    BY <2>0, <2>4 DEF Resume, resume_saga, resume_saga_check, resume_saga_acquired,
       resume_saga_busy, resume_saga_timeout, resume_saga_fetch, booking_confirm_ok,
       booking_confirm_error, booking_confirm_breaker, booking_succeed, resume_saga_record,
       resume_saga_except, resume_saga_release, Compensate
  <2>5. ASSUME NEW t \in Tasks, Recover(t) \/ crash(t) PROVE NeverWaits'
    BY <2>0, <2>5 DEF Recover, recover_stuck_saga, recover_check, operator_recover, replay_saga,
       replay_mark, crash, Compensate
  <2>6. CASE Environment \/ UNCHANGED vars
    BY <2>6 DEF Environment, archive_waiting_confirm, lock_expire, db_fails, db_returns,
       saga_expires, idempotency_expires, vars, locals
  <2> QED BY <2>1, <2>2, <2>3, <2>4, <2>5, <2>6 DEF Next
<1> QED BY <1>1, <1>2, TypeInvariant, PTL DEF Spec

\* What the answer of a compensate method changes of an effect.
LEMMA EffectFields ==
    ASSUME world \in Seq(Effect), NEW e \in 1..Len(world),
           world' = [world EXCEPT ![e] = Answered(@)]
    PROVE  /\ Len(world') = Len(world) /\ world'[e].answered /\ world'[e].name = world[e].name
           /\ world'[e].again = world[e].again /\ world'[e].standing = world[e].standing
           /\ \A f \in 1..Len(world) : f # e => world'[f] = world[f]
<1>1. world[e] \in Effect BY ElementOfSeq
<1>2. /\ Answered(world[e]).name = world[e].name /\ Answered(world[e]).answered = TRUE
      /\ Answered(world[e]).again = world[e].again
      /\ Answered(world[e]).standing = world[e].standing
  BY <1>1 DEF Effect, Answered
<1>3. world'[e] = Answered(world[e]) /\ \A f \in 1..Len(world) : f # e => world'[f] = world[f]
  BY LenProperties
<1>4. Len(world') = Len(world) BY EffectType
<1> QED BY <1>2, <1>3, <1>4

\* A step that only changes what the effects that exist have become.
LEMMA FaithfulStays ==
    ASSUME NEW recs \in Seq(StepRecord), InRange(recs), Faithful(recs),
           \A e \in 1..Len(world) :
               /\ world'[e].name = world[e].name
               /\ world[e].answered => world'[e].answered
    PROVE  \A i \in 1..Len(recs) :
               /\ recs[i].name \in Compensatable
               /\ recs[i].name = world'[recs[i].eff].name
               /\ recs[i].compensated => world'[recs[i].eff].answered
BY DEF InRange, Faithful

\* A quiet step keeps every list faithful, wherever it moves it.
LEMMA FaithfulQuiet == ASSUME TypeInv, FaithInv, Quiet PROVE FaithInv'
<1>1. /\ steps \in Seq(StepRecord) /\ InRange(steps)
      /\ \A u \in Tasks : snap[u] \in Seq(StepRecord) /\ InRange(snap[u])
  BY DEF TypeInv, RowOK, LocalsOK, RecordsOK
<1>2. ASSUME NEW recs \in Seq(StepRecord), InRange(recs), Faithful(recs)
      PROVE  \A i \in 1..Len(recs) :
               /\ recs[i].name \in Compensatable
               /\ recs[i].name = world'[recs[i].eff].name
               /\ recs[i].compensated => world'[recs[i].eff].answered
  BY <1>2, FaithfulStays DEF Quiet, Kept
<1>3. Faithful(steps)'
  <2>1. steps' = steps \/ \E u \in Tasks : steps' = snap[u] BY DEF Quiet
  <2> QED BY <1>1, <1>2, <2>1 DEF FaithInv, Faithful
<1>4. ASSUME NEW u \in Tasks PROVE Faithful(snap[u])'
  <2>1. snap'[u] \in {snap[u], steps, <<>>} BY DEF Quiet
  <2>2. CASE snap'[u] = <<>> BY <2>2 DEF Faithful
  <2>3. CASE snap'[u] = steps BY <1>1, <1>2, <2>3 DEF FaithInv, Faithful
  <2>4. CASE snap'[u] = snap[u] BY <1>1, <1>2, <2>4 DEF FaithInv, Faithful
  <2> QED BY <2>1, <2>2, <2>3, <2>4
<1> QED BY <1>3, <1>4 DEF FaithInv

\* The runner records the effect it has just produced.
LEMMA FaithfulFlow ==
    ASSUME TypeInv, FaithInv, NEW t \in Tasks, flow_step_ok(t) PROVE FaithInv'
<1> DEFINE n == Plan[at[t]]
<1>0. /\ world \in Seq(Effect) /\ steps \in Seq(StepRecord) /\ InRange(steps)
      /\ snap \in [Tasks -> Seq(StepRecord)] /\ \A u \in Tasks : InRange(snap[u])
  BY DEF TypeInv, RowOK, LocalsOK, RecordsOK
<1>1. /\ world' = Append(world, NewEffect(n)) /\ UNCHANGED steps
      /\ snap' = [snap EXCEPT ![t] = Recorded(snap[t], n)]
  <2>1. UNCHANGED steps BY DEF flow_step_ok
  <2>2. world' = Append(world, NewEffect(n)) BY DEF flow_step_ok
  <2>3. snap' = [snap EXCEPT ![t] = Recorded(snap[t], n)] BY Zenon DEF flow_step_ok
  <2> QED BY <2>1, <2>2, <2>3
<1>2. n \in STRING
  <2>1. at[t] \in 1..Len(Plan) BY DEF TypeInv, LocalsOK, ControlOK
  <2> QED BY <2>1, PlanAssumption
<1>3. NewEffect(n) \in Effect BY <1>2 DEF NewEffect, Effect
<1>4. /\ \A e \in 1..Len(world) : world'[e] = world[e]
      /\ Len(world) \in Nat /\ world'[Len(world) + 1] = NewEffect(n)
  BY <1>0, <1>1, <1>3
<1>5. ASSUME NEW recs \in Seq(StepRecord), InRange(recs), Faithful(recs)
      PROVE  \A i \in 1..Len(recs) :
               /\ recs[i].name \in Compensatable
               /\ recs[i].name = world'[recs[i].eff].name
               /\ recs[i].compensated => world'[recs[i].eff].answered
  BY <1>4, <1>5, FaithfulStays
<1>6. Faithful(steps)' BY <1>0, <1>1, <1>5 DEF FaithInv, Faithful
<1>7. ASSUME NEW u \in Tasks PROVE Faithful(snap[u])'
  <2>1. CASE snap'[u] = snap[u] BY <1>0, <1>5, <2>1 DEF FaithInv, Faithful
  <2>2. CASE u = t /\ n \in Compensatable
    <3> DEFINE r == [name |-> n, eff |-> Len(world) + 1, compensated |-> FALSE]
    <3>1. r \in StepRecord BY <1>2, <1>4 DEF StepRecord
    <3>2. snap'[t] = Append(snap[t], r) BY <1>0, <1>1, <2>2 DEF Recorded
    <3>3. /\ Len(snap'[t]) = Len(snap[t]) + 1 /\ snap'[t][Len(snap[t]) + 1] = r
          /\ \A i \in 1..Len(snap[t]) : snap'[t][i] = snap[t][i]
      BY <1>0, <3>1, <3>2
    <3>4. r.name = n /\ r.eff = Len(world) + 1 /\ r.compensated = FALSE OBVIOUS
    <3>5. world'[r.eff].name = n BY <1>4, <3>4 DEF NewEffect
    <3> HIDE DEF r
    <3>6. Len(snap[t]) \in Nat BY <1>0
    <3>7. \A i \in 1..Len(snap'[t]) : i \in 1..Len(snap[t]) \/ i = Len(snap[t]) + 1
      BY <3>3, <3>6
    <3>8. Faithful(snap[t]) BY DEF FaithInv
    <3>9. ASSUME NEW i \in 1..Len(snap'[t])
          PROVE  /\ snap'[t][i].name \in Compensatable
                 /\ snap'[t][i].name = world'[snap'[t][i].eff].name
                 /\ snap'[t][i].compensated => world'[snap'[t][i].eff].answered
      <4>1. CASE i \in 1..Len(snap[t])
        <5>1. snap'[t][i] = snap[t][i] BY <3>3, <4>1
        <5>2. snap[t] \in Seq(StepRecord) /\ InRange(snap[t]) BY <1>0
        <5> QED BY <1>5, <3>8, <4>1, <5>1, <5>2
      <4>2. CASE i = Len(snap[t]) + 1 BY <2>2, <3>3, <3>4, <3>5, <4>2
      <4> QED BY <3>7, <4>1, <4>2
    <3> QED BY <2>2, <3>9 DEF Faithful
  <2>3. snap'[u] = snap[u] \/ (u = t /\ n \in Compensatable) BY <1>0, <1>1 DEF Recorded
  <2> QED BY <2>1, <2>2, <2>3
<1> QED BY <1>6, <1>7 DEF FaithInv

\* A compensation flags the record whose adapter has just answered.
LEMMA FaithfulUndo ==
    ASSUME TypeInv, FaithInv, NEW t \in Tasks, compensate_step_ok(t) PROVE FaithInv'
<1>0. /\ world \in Seq(Effect) /\ steps \in Seq(StepRecord) /\ InRange(steps)
      /\ snap \in [Tasks -> Seq(StepRecord)] /\ \A u \in Tasks : InRange(snap[u])
      /\ todo[t] \subseteq 1..Len(snap[t])
  BY DEF TypeInv, RowOK, LocalsOK, RecordsOK, TodoOK
<1>1. PICK i \in todo[t] :
        /\ world' = [world EXCEPT ![snap[t][i].eff] = Answered(@)]
        /\ snap' = [snap EXCEPT ![t][i].compensated = TRUE]
  BY DEF compensate_step_ok
<1>2. UNCHANGED steps BY DEF compensate_step_ok
<1>3. i \in 1..Len(snap[t]) /\ snap[t][i].eff \in 1..Len(world) BY <1>0 DEF InRange
<1>4. /\ \A e \in 1..Len(world) : world'[e].name = world[e].name
      /\ \A e \in 1..Len(world) : world[e].answered => world'[e].answered
      /\ world'[snap[t][i].eff].answered
  <2> DEFINE x == snap[t][i].eff
  <2>1. x \in 1..Len(world) /\ world' = [world EXCEPT ![x] = Answered(@)] BY <1>1, <1>3
  <2> HIDE DEF x
  <2>2. /\ world'[x].answered /\ world'[x].name = world[x].name
        /\ \A f \in 1..Len(world) : f # x => world'[f] = world[f]
    BY <1>0, <2>1, EffectFields
  <2>3. ASSUME NEW e \in 1..Len(world)
        PROVE  world'[e].name = world[e].name /\ (world[e].answered => world'[e].answered)
    <3>1. CASE e = x BY <2>2, <3>1
    <3>2. CASE e # x BY <2>2, <3>2
    <3> QED BY <3>1, <3>2
  <2> QED BY <2>2, <2>3 DEF x
<1>5. ASSUME NEW recs \in Seq(StepRecord), InRange(recs), Faithful(recs)
      PROVE  \A j \in 1..Len(recs) :
               /\ recs[j].name \in Compensatable
               /\ recs[j].name = world'[recs[j].eff].name
               /\ recs[j].compensated => world'[recs[j].eff].answered
  BY <1>4, <1>5, FaithfulStays
<1>6. Faithful(steps)' BY <1>0, <1>2, <1>5 DEF FaithInv, Faithful
<1>7. ASSUME NEW u \in Tasks PROVE Faithful(snap[u])'
  <2>1. CASE u # t
    <3>1. snap'[u] = snap[u] BY <1>0, <1>1, <2>1
    <3> QED BY <1>0, <1>5, <3>1, SMTT(20) DEF FaithInv, Faithful
  <2>2. CASE u = t
    <3>0. snap[t] \in Seq(StepRecord) BY <1>0
    <3>1. snap'[t] = Flagged(snap[t], i) BY <1>0, <1>1 DEF Flagged
    <3>2. /\ Len(snap'[t]) = Len(snap[t])
          /\ \A j \in 1..Len(snap[t]) : snap'[t][j].eff = snap[t][j].eff
      BY <1>3, <3>0, <3>1, FlaggedType
    <3>3. \A j \in 1..Len(snap[t]) :
             snap'[t][j].name = snap[t][j].name /\ (j # i => snap'[t][j] = snap[t][j])
      <4>1. \A j \in 1..Len(snap[t]) : snap[t][j] \in StepRecord BY <3>0
      <4> QED BY <3>0, <3>1, <4>1 DEF Flagged, StepRecord
    <3>4. Faithful(snap[t]) /\ InRange(snap[t]) BY <1>0 DEF FaithInv
    <3>5. ASSUME NEW j \in 1..Len(snap[t])
          PROVE  /\ snap'[t][j].name \in Compensatable
                 /\ snap'[t][j].name = world'[snap'[t][j].eff].name
                 /\ snap'[t][j].compensated => world'[snap'[t][j].eff].answered
      <4>1. CASE j = i BY <1>4, <1>5, <3>0, <3>2, <3>3, <3>4, <4>1
      <4>2. CASE j # i BY <1>5, <3>0, <3>3, <3>4, <4>2
      <4> QED BY <4>1, <4>2
    <3> QED BY <2>2, <3>2, <3>5 DEF Faithful
  <2> QED BY <2>1, <2>2
<1> QED BY <1>6, <1>7 DEF FaithInv

\* The records of steps, in the row and in memory, are faithful to the effects.
THEOREM FaithInvariant == Spec => []FaithInv
<1>1. Init => FaithInv BY DEF Init, FaithInv, Faithful
<1>2. TypeInv /\ FaithInv /\ [Next]_vars => FaithInv'
  BY QuietOrLoud, FaithfulQuiet, FaithfulFlow, FaithfulUndo DEF Loud
<1> QED BY <1>1, <1>2, TypeInvariant, PTL DEF Spec

-----------------------------------------------------------------------------
(* The plan is executed once, and once more for each replay.                 *)

\* Task t may still execute the k-th step of the plan: it has inserted the row,
\* or a replay has put it back to the start, and it is not past step k.
Owes(t, k) ==
    \/ pc[t] \in {"r_timeout", "r_fetch", "r_mark", "p_mark"}
    \/ pc[t] \in {"s_record", "s_cas", "s_release"} /\ mine[t]
    \/ pc[t] = "r_step" /\ at[t] <= k

Due == {w \in Tasks \X (1..Len(Plan)) : Owes(w[1], w[2])}

\* What has been executed, what may still be, and what the INSERT of an absent
\* row would allow add up to no more than one plan for the start and one for
\* each replay.
BudgetInv ==
    /\ IsFiniteSet(Due)
    /\ Len(world) + Cardinality(Due) + (IF state = "absent" THEN Len(Plan) ELSE 0)
          <= Len(Plan) * (1 + replays)

\* A step that executes nothing and lets no task execute more than before.
Thrifty(t) ==
    /\ Len(world') = Len(world) /\ replays' = replays /\ (state' = "absent" => state = "absent")
    /\ \A u \in Tasks \ {t} : pc'[u] = pc[u] /\ mine'[u] = mine[u] /\ at'[u] = at[u]
    /\ \A k \in 1..Len(Plan) : Owes(t, k)' => Owes(t, k)

\* A flow has at least one step.
LEMMA PlanLength == Len(Plan) \in Nat \ {0}
BY PlanAssumption

\* The sum does not grow when nothing is executed and nobody owes more.
LEMMA BudgetShrinks ==
    ASSUME BudgetInv, TypeInv, Due' \subseteq Due, Len(world') = Len(world), replays' = replays,
           state' = "absent" => state = "absent"
    PROVE  BudgetInv'
<1>1. IsFiniteSet(Due') /\ Cardinality(Due') <= Cardinality(Due)
  BY FS_Subset DEF BudgetInv
<1>2. /\ Cardinality(Due) \in Nat /\ Cardinality(Due') \in Nat
      /\ Len(world) \in Nat /\ replays \in Nat
  BY <1>1, FS_CardinalityType DEF BudgetInv, TypeInv, RowOK, CountsOK
<1> DEFINE room == Len(Plan) * (1 + replays)
           spent == IF state = "absent" THEN Len(Plan) ELSE 0
           spent2 == IF state' = "absent" THEN Len(Plan) ELSE 0
<1>3. room \in Nat /\ spent \in Nat /\ spent2 \in Nat /\ spent2 <= spent
  BY <1>2, PlanLength
<1>4. Len(world) + Cardinality(Due) + spent <= room BY DEF BudgetInv
<1> HIDE DEF room, spent, spent2
<1>5. Len(world') + Cardinality(Due') + spent2 <= room BY <1>1, <1>2, <1>3, <1>4
<1> QED BY <1>1, <1>5 DEF BudgetInv, room, spent2

\* A thrifty step of one task keeps the accounts of all.
LEMMA ThriftyKeeps ==
    ASSUME TypeInv, BudgetInv, NEW t \in Tasks, Thrifty(t) PROVE BudgetInv'
<1>1. ASSUME NEW w \in Tasks \X (1..Len(Plan)), Owes(w[1], w[2])' PROVE Owes(w[1], w[2])
  <2>1. w[1] \in Tasks /\ w[2] \in 1..Len(Plan) OBVIOUS
  <2>2. CASE w[1] = t BY <1>1, <2>1, <2>2 DEF Thrifty
  <2>3. CASE w[1] # t
    <3>1. pc'[w[1]] = pc[w[1]] /\ mine'[w[1]] = mine[w[1]] /\ at'[w[1]] = at[w[1]]
      BY <2>1, <2>3 DEF Thrifty
    <3> QED BY <1>1, <3>1 DEF Owes
  <2> QED BY <2>2, <2>3
<1>2. Due' \subseteq Due BY <1>1 DEF Due
<1> QED BY <1>2, BudgetShrinks DEF Thrifty

\* A task that has not owed anything yet takes on the whole plan.
LEMMA TakesOn ==
    ASSUME TypeInv, BudgetInv, NEW t \in Tasks,
           \A k \in 1..Len(Plan) : ~Owes(t, k),
           Due' \subseteq Due \cup ({t} \X (1..Len(Plan)))
    PROVE  /\ IsFiniteSet(Due') /\ Cardinality(Due') <= Cardinality(Due) + Len(Plan)
           /\ Cardinality(Due) \in Nat /\ Cardinality(Due') \in Nat
<1> DEFINE I == 1..Len(Plan)
           new == {t} \X I
<1>1. IsFiniteSet(I) /\ Cardinality(I) = Len(Plan)
  <2>1. /\ IsFiniteSet(1..Len(Plan))
        /\ Cardinality(1..Len(Plan)) = IF 1 > Len(Plan) THEN 0 ELSE Len(Plan) - 1 + 1
    BY PlanLength, FS_Interval
  <2> QED BY <2>1, PlanLength
<1>2. IsFiniteSet({t}) /\ Cardinality({t}) = 1 BY FS_Singleton
<1>3. IsFiniteSet(new) /\ Cardinality(new) = Len(Plan)
  <2>0. 1 * Len(Plan) = Len(Plan) BY PlanLength
  <2> HIDE DEF I
  <2>1. IsFiniteSet(new) /\ Cardinality(new) = Cardinality({t}) * Cardinality(I)
    BY ONLY <1>1, <1>2, FS_Product
  <2> QED BY <1>1, <1>2, <2>0, <2>1
<1>4. IsFiniteSet(Due) BY DEF BudgetInv
<1>5. /\ IsFiniteSet(Due \cup new)
      /\ Cardinality(Due \cup new) = Cardinality(Due) + Cardinality(new) - Cardinality(Due \cap new)
  BY <1>3, <1>4, FS_Union
<1>6. IsFiniteSet(Due') /\ Cardinality(Due') <= Cardinality(Due \cup new)
  BY <1>5, FS_Subset
<1>7. Due \cap new = {} BY DEF Due
<1>8. Cardinality(Due \cap new) = 0 BY <1>7, FS_EmptySet
<1>9. Cardinality(Due) \in Nat /\ Cardinality(Due') \in Nat /\ Cardinality(Due \cup new) \in Nat
  BY <1>4, <1>5, <1>6, FS_CardinalityType
<1> QED BY <1>3, <1>5, <1>6, <1>8, <1>9, PlanLength

\* The types the accounting needs.
LEMMA BudgetTypes ==
    TypeInv => /\ pc \in [Tasks -> Pc] /\ at \in [Tasks -> 1..Len(Plan)]
               /\ mine \in [Tasks -> BOOLEAN] /\ state \in SagaState
BY DEF TypeInv, LocalsOK, ControlOK, RowOK

\* The task that inserts the row owes the plan.
LEMMA BudgetInsert ==
    ASSUME TypeInv, BudgetInv, NEW t \in Tasks, start_saga_insert(t) PROVE BudgetInv'
<1> USE BudgetTypes
<1>1. CASE state = "absent" /\ db = "up"
  <2>1. \A k \in 1..Len(Plan) : ~Owes(t, k) BY DEF start_saga_insert, At, Owes
  <2>2. \A u \in Tasks \ {t} : pc'[u] = pc[u] /\ mine'[u] = mine[u] /\ at'[u] = at[u]
    BY DEF start_saga_insert, Goto
  <2>3. Due' \subseteq Due \cup ({t} \X (1..Len(Plan)))
    <3> SUFFICES ASSUME NEW w \in Tasks \X (1..Len(Plan)), Owes(w[1], w[2])', w[1] # t
                 PROVE  Owes(w[1], w[2])
      BY DEF Due
    <3> QED BY <2>2 DEF Owes
  <2>4. /\ IsFiniteSet(Due') /\ Cardinality(Due') <= Cardinality(Due) + Len(Plan)
        /\ Cardinality(Due) \in Nat /\ Cardinality(Due') \in Nat
    BY <2>1, <2>3, TakesOn
  <2>5. state' = "pending" /\ world' = world /\ replays' = replays
    BY <1>1 DEF start_saga_insert, budget
  <2>6. Len(world) \in Nat BY DEF TypeInv, RowOK
  <2>7. replays \in Nat BY DEF TypeInv, CountsOK
  <2> DEFINE room == Len(Plan) * (1 + replays)
  <2>8. room \in Nat /\ Len(world) + Cardinality(Due) + Len(Plan) <= room
    BY <1>1, <2>7, PlanLength DEF BudgetInv
  <2> HIDE DEF room
  <2>9. Len(world) + Cardinality(Due') + 0 <= room
    BY <2>4, <2>6, <2>8, PlanLength
  <2> QED BY <2>4, <2>5, <2>9 DEF BudgetInv, room
<1>2. CASE ~(state = "absent" /\ db = "up")
  <2>1. state' = state BY <1>2 DEF start_saga_insert
  <2>2. mine'[t] = FALSE \/ pc'[t] = "s_raise" BY <1>2 DEF start_saga_insert, Goto
  <2>3. pc'[t] \in {"s_record", "s_raise"} BY DEF start_saga_insert, Goto
  <2>4. \A u \in Tasks \ {t} : pc'[u] = pc[u] /\ mine'[u] = mine[u] /\ at'[u] = at[u]
    BY DEF start_saga_insert, Goto
  <2>5. \A k \in 1..Len(Plan) : ~Owes(t, k)' BY <2>2, <2>3 DEF Owes
  <2>6. world' = world /\ replays' = replays BY DEF start_saga_insert, budget
  <2> QED BY <2>1, <2>4, <2>5, <2>6, ThriftyKeeps DEF Thrifty
<1> QED BY <1>1, <1>2

\* So does the task that puts the saga back to its start, paid by the replay.
LEMMA BudgetReplay ==
    ASSUME TypeInv, BudgetInv, NEW t \in Tasks, replay_saga(t) PROVE BudgetInv'
<1> USE BudgetTypes
<1>1. \A k \in 1..Len(Plan) : ~Owes(t, k) BY DEF replay_saga, At, Owes
<1>2. \A u \in Tasks \ {t} : pc'[u] = pc[u] /\ mine'[u] = mine[u] /\ at'[u] = at[u]
  BY DEF replay_saga, Goto
<1>3. Due' \subseteq Due \cup ({t} \X (1..Len(Plan)))
  <2> SUFFICES ASSUME NEW w \in Tasks \X (1..Len(Plan)), Owes(w[1], w[2])', w[1] # t
               PROVE  Owes(w[1], w[2])
    BY DEF Due
  <2> QED BY <1>2 DEF Owes
<1>4. /\ IsFiniteSet(Due') /\ Cardinality(Due') <= Cardinality(Due) + Len(Plan)
      /\ Cardinality(Due) \in Nat /\ Cardinality(Due') \in Nat
  BY <1>1, <1>3, TakesOn
<1>5. state # "absent" /\ state' = state /\ world' = world /\ replays' = replays + 1
  BY DEF replay_saga, shared
<1>6. Len(world) \in Nat BY DEF TypeInv, RowOK
<1>7. replays \in Nat BY DEF TypeInv, CountsOK
<1>8. Len(Plan) * (1 + (replays + 1)) = Len(Plan) * (1 + replays) + Len(Plan)
  BY <1>7, PlanLength
<1> DEFINE room == Len(Plan) * (1 + replays)
<1>9. room \in Nat /\ Len(world) + Cardinality(Due) + 0 <= room
  BY <1>5, <1>7, PlanLength DEF BudgetInv
<1> HIDE DEF room
<1>10. Len(world) + Cardinality(Due') + 0 <= room + Len(Plan)
  BY <1>4, <1>6, <1>9, PlanLength
<1> QED BY <1>4, <1>5, <1>8, <1>10 DEF BudgetInv, room

\* Executing step k of the plan pays for it.
LEMMA BudgetFlow ==
    ASSUME TypeInv, BudgetInv, NEW t \in Tasks, flow_step_ok(t) PROVE BudgetInv'
<1> USE BudgetTypes
<1> DEFINE w0 == <<t, at[t]>>
<1>0. /\ at[t] \in 1..Len(Plan) /\ at[t] \in Nat /\ pc[t] = "r_step"
      /\ world \in Seq(Effect) /\ Len(world) \in Nat
  BY PlanLength DEF flow_step_ok, At, TypeInv, RowOK
<1>1. w0 \in Due BY <1>0 DEF Due, Owes
<1>2. Due' \subseteq Due \ {w0}
  <2>1. \A u \in Tasks \ {t} : pc'[u] = pc[u] /\ mine'[u] = mine[u] /\ at'[u] = at[u]
    BY DEF flow_step_ok, Goto
  <2>2. (pc'[t] = "r_step" /\ at'[t] = at[t] + 1) \/ pc'[t] \in {"r_save", "r_finish"}
    BY <1>0 DEF flow_step_ok, Goto
  <2> SUFFICES ASSUME NEW w \in Tasks \X (1..Len(Plan)), Owes(w[1], w[2])'
               PROVE  Owes(w[1], w[2]) /\ w # w0
    BY DEF Due
  <2>3. w[1] \in Tasks /\ w[2] \in 1..Len(Plan) /\ w[2] \in Nat BY PlanLength
  <2>4. CASE w[1] = t BY <1>0, <2>2, <2>3, <2>4 DEF Owes
  <2>5. CASE w[1] # t BY <2>1, <2>3, <2>5 DEF Owes
  <2> QED BY <2>4, <2>5
<1>3. IsFiniteSet(Due) /\ Cardinality(Due) \in Nat BY FS_CardinalityType DEF BudgetInv
<1>4. IsFiniteSet(Due \ {w0}) /\ Cardinality(Due \ {w0}) = Cardinality(Due) - 1
  BY <1>1, <1>3, FS_RemoveElement
<1>5. IsFiniteSet(Due') /\ Cardinality(Due') <= Cardinality(Due) - 1
  BY <1>2, <1>4, FS_Subset
<1>6. Cardinality(Due') \in Nat BY <1>5, FS_CardinalityType
<1>7. Len(world') = Len(world) + 1 /\ state' = state /\ replays' = replays
  BY <1>0 DEF flow_step_ok, budget
<1>8. replays \in Nat BY DEF TypeInv, CountsOK
<1> DEFINE room == Len(Plan) * (1 + replays)
           spent == IF state = "absent" THEN Len(Plan) ELSE 0
<1>9. room \in Nat /\ spent \in Nat /\ Len(world) + Cardinality(Due) + spent <= room
  BY <1>8, PlanLength DEF BudgetInv
<1> HIDE DEF room, spent
<1>10. Len(world') + Cardinality(Due') + spent <= room
  BY <1>0, <1>3, <1>5, <1>6, <1>7, <1>9
<1> QED BY <1>5, <1>7, <1>10 DEF BudgetInv, room, spent

\* Of start_saga, only the INSERT takes on the plan.
LEMMA BudgetStart == ASSUME TypeInv, BudgetInv, NEW t \in Tasks, Start(t) PROVE BudgetInv'
<1> USE BudgetTypes DEF Thrifty, Owes, At, Goto, Return, shared, budget
<1>1. CASE start_saga(t) BY <1>1, ThriftyKeeps DEF start_saga
<1>2. CASE start_saga_check(t) BY <1>2, ThriftyKeeps DEF start_saga_check
<1>3. CASE start_saga_acquired(t) BY <1>3, ThriftyKeeps DEF start_saga_acquired
<1>4. CASE start_saga_busy(t) BY <1>4, ThriftyKeeps, SMTT(20) DEF start_saga_busy
<1>5. CASE start_saga_insert(t) BY <1>5, BudgetInsert
<1>6. CASE start_saga_record(t) BY <1>6, ThriftyKeeps DEF start_saga_record
<1>7. CASE start_saga_cas(t)
  <2>1. mine'[t] => mine[t] BY <1>7 DEF start_saga_cas
  <2>2. state' = "absent" => state = "absent" BY <1>7 DEF start_saga_cas
  <2>3. /\ pc[t] = "s_cas" /\ pc'[t] \in {"s_raise", "s_release"}
        /\ Len(world') = Len(world) /\ replays' = replays
        /\ \A u \in Tasks \ {t} : pc'[u] = pc[u] /\ mine'[u] = mine[u] /\ at'[u] = at[u]
    BY <1>7 DEF start_saga_cas
  <2> QED BY <2>1, <2>2, <2>3, ThriftyKeeps
<1>8. CASE start_saga_release(t) BY <1>8, ThriftyKeeps DEF start_saga_release
<1> QED BY <1>1, <1>2, <1>3, <1>4, <1>5, <1>6, <1>7, <1>8 DEF Start

\* The runner pays for what it executes, and otherwise owes less and less.
LEMMA BudgetRun == ASSUME TypeInv, BudgetInv, NEW t \in Tasks, Run(t) PROVE BudgetInv'
<1> USE BudgetTypes DEF Thrifty, Owes, At, Goto, Return, WriteRow, Compensate,
        AttemptCompensation, shared, budget
<1>1. CASE run_saga_timeout(t) BY <1>1, ThriftyKeeps DEF run_saga_timeout
<1>2. CASE run_saga_fetch(t)
  <2>1. world \in Seq(Effect) BY DEF TypeInv, RowOK
  <2>2. Len(world') = Len(world) BY <1>2, <2>1, RepopulatedType DEF run_saga_fetch
  <2>3. /\ pc[t] = "r_fetch" /\ pc'[t] \in {"idle", "r_mark"} /\ state' = state
        /\ replays' = replays
        /\ \A u \in Tasks \ {t} : pc'[u] = pc[u] /\ mine'[u] = mine[u] /\ at'[u] = at[u]
    BY <1>2 DEF run_saga_fetch
  <2> QED BY <2>2, <2>3, ThriftyKeeps
<1>3. CASE run_saga_mark(t) BY <1>3, ThriftyKeeps DEF run_saga_mark
<1>4. CASE flow_step_ok(t) BY <1>4, BudgetFlow
<1>5. CASE flow_step_error(t) BY <1>5, ThriftyKeeps DEF flow_step_error
<1>6. CASE flow_step_breaker(t) BY <1>6, ThriftyKeeps DEF flow_step_breaker
<1>7. CASE flow_save(t) BY <1>7, ThriftyKeeps DEF flow_save
<1>8. CASE flow_finish(t)
  <2>1. /\ pc[t] = "r_finish" /\ world' = world /\ replays' = replays
        /\ state' = "absent" => state = "absent"
    BY <1>8 DEF flow_finish
  <2>2. pc'[t] \in {"idle", "r_partial", "c_read", "r_fail"} BY <1>8 DEF flow_finish
  <2>3. \A u \in Tasks \ {t} : pc'[u] = pc[u] /\ mine'[u] = mine[u] /\ at'[u] = at[u]
    <3>1. CASE Return(t) BY <3>1
    <3>2. CASE UNCHANGED <<mine, at>> BY <1>8, <3>2 DEF flow_finish
    <3> QED BY <1>8, <3>1, <3>2 DEF flow_finish
  <2> QED BY <2>1, <2>2, <2>3, ThriftyKeeps
<1>9. CASE flow_fail(t) BY <1>9, ThriftyKeeps DEF flow_fail
<1>10. CASE run_saga_except(t) BY <1>10, ThriftyKeeps DEF run_saga_except
<1>11. CASE persist_dlq_message(t) BY <1>11, ThriftyKeeps DEF persist_dlq_message
<1>12. CASE flow_step_partial(t) BY <1>12, ThriftyKeeps DEF flow_step_partial
<1>13. CASE flow_partial(t)
  <2>1. /\ pc[t] = "r_partial" /\ world' = world /\ replays' = replays
        /\ state' = "absent" => state = "absent"
    BY <1>13 DEF flow_partial
  <2>2. pc'[t] \in {"idle", "r_partial", "c_read", "r_fail"} BY <1>13 DEF flow_partial
  <2>3. \A u \in Tasks \ {t} : pc'[u] = pc[u] /\ mine'[u] = mine[u] /\ at'[u] = at[u]
    <3>1. CASE Return(t) BY <3>1
    <3>2. CASE UNCHANGED <<mine, at>> BY <1>13, <3>2 DEF flow_partial
    <3> QED BY <1>13, <3>1, <3>2 DEF flow_partial
  <2> QED BY <2>1, <2>2, <2>3, ThriftyKeeps
<1> QED BY <1>1, <1>2, <1>3, <1>4, <1>5, <1>6, <1>7, <1>8, <1>9, <1>10, <1>11, <1>12, <1>13
        DEF Run

\* A task that leaves _compensate_saga never goes back to run the plan.
LEMMA EndIsThrifty ==
    ASSUME TypeInv, NEW t \in Tasks, CompensateReturns(t) \/ CompensateRaises(t)
    PROVE  /\ pc'[t] \in {"r_fail", "u_record", "idle", "d_persist", "r_raise"}
           /\ \A u \in Tasks \ {t} : pc'[u] = pc[u] /\ mine'[u] = mine[u] /\ at'[u] = at[u]
<1> USE BudgetTypes DEF Leave, Return, Goto
<1>1. CASE CompensateReturns(t) BY <1>1 DEF CompensateReturns
<1>2. CASE CompensateRaises(t) BY <1>2 DEF CompensateRaises
<1> QED BY <1>1, <1>2

\* A compensation executes no step of the plan.
LEMMA BudgetCompensate ==
    ASSUME TypeInv, BudgetInv, NEW t \in Tasks, CompensateStep(t) PROVE BudgetInv'
<1> USE BudgetTypes DEF Thrifty, Owes, At, Goto, WriteRow, shared, budget
<1>1. CASE compensate_read(t) BY <1>1, ThriftyKeeps DEF compensate_read
<1>2. CASE compensate_acquired(t) BY <1>2, ThriftyKeeps DEF compensate_acquired
<1>3. CASE compensate_busy(t) BY <1>3, EndIsThrifty, ThriftyKeeps DEF compensate_busy
<1>4. CASE compensate_mark(t) BY <1>4, ThriftyKeeps DEF compensate_mark
<1>5. CASE compensate_skip(t) BY <1>5, ThriftyKeeps DEF compensate_skip
<1>6. CASE compensate_pass(t) BY <1>6, ThriftyKeeps DEF compensate_pass
<1>7. CASE compensate_step_ok(t)
  <2>1. Len(world') = Len(world)
    <3>1. world \in Seq(Effect) BY DEF TypeInv, RowOK
    <3> QED BY <1>7, <3>1 DEF compensate_step_ok
  <2> QED BY <1>7, <2>1, ThriftyKeeps DEF compensate_step_ok
<1>8. CASE compensate_step_error(t) BY <1>8, ThriftyKeeps DEF compensate_step_error
<1>9. CASE compensate_history(t) BY <1>9, ThriftyKeeps DEF compensate_history
<1>10. CASE compensate_idem(t) BY <1>10, ThriftyKeeps DEF compensate_idem
<1>11. CASE compensate_finish(t) BY <1>11, ThriftyKeeps DEF compensate_finish, FinalState
<1>12. CASE compensate_summary(t)
  BY <1>12, EndIsThrifty, ThriftyKeeps DEF compensate_summary
<1>13. CASE compensate_abort(t) BY <1>13, EndIsThrifty, ThriftyKeeps DEF compensate_abort
<1>14. CASE compensate_call(t)
  <2>1. Len(world') = Len(world) BY <1>14, CallKeeps DEF Kept
  <2> QED BY <1>14, <2>1, ThriftyKeeps DEF compensate_call
<1>15. CASE compensate_step_retry(t)
  <2>1. Len(world') = Len(world) BY <1>15, CallKeeps DEF Kept
  <2> QED BY <1>15, <2>1, ThriftyKeeps DEF compensate_step_retry
<1> QED BY <1>1, <1>2, <1>3, <1>4, <1>5, <1>6, <1>7, <1>8, <1>9, <1>10, <1>11, <1>12, <1>13,
        <1>14, <1>15 DEF CompensateStep

\* Nor does a resume.
LEMMA BudgetResume == ASSUME TypeInv, BudgetInv, NEW t \in Tasks, Resume(t) PROVE BudgetInv'
<1> USE BudgetTypes DEF Thrifty, Owes, At, Goto, Return, WriteRow, Compensate, shared, budget
<1>1. CASE resume_saga(t) BY <1>1, ThriftyKeeps DEF resume_saga
<1>2. CASE resume_saga_check(t) BY <1>2, ThriftyKeeps DEF resume_saga_check
<1>3. CASE resume_saga_acquired(t) BY <1>3, ThriftyKeeps DEF resume_saga_acquired
<1>4. CASE resume_saga_busy(t) BY <1>4, ThriftyKeeps DEF resume_saga_busy
<1>5. CASE resume_saga_timeout(t) BY <1>5, ThriftyKeeps DEF resume_saga_timeout
<1>6. CASE resume_saga_fetch(t) BY <1>6, ThriftyKeeps DEF resume_saga_fetch
<1>7. CASE booking_confirm_ok(t)
  <2>1. world \in Seq(Effect) BY DEF TypeInv, RowOK
  <2>2. Len(world') = Len(world) BY <1>7, <2>1, RepopulatedType DEF booking_confirm_ok
  <2> QED BY <1>7, <2>2, ThriftyKeeps DEF booking_confirm_ok
<1>8. CASE booking_confirm_error(t)
  <2>1. world \in Seq(Effect) BY DEF TypeInv, RowOK
  <2>2. Len(world') = Len(world) BY <1>8, <2>1, RepopulatedType DEF booking_confirm_error
  <2> QED BY <1>8, <2>2, ThriftyKeeps DEF booking_confirm_error
<1>9. CASE booking_confirm_breaker(t) BY <1>9, ThriftyKeeps DEF booking_confirm_breaker
<1>10. CASE booking_succeed(t) BY <1>10, ThriftyKeeps DEF booking_succeed
<1>11. CASE resume_saga_record(t) BY <1>11, ThriftyKeeps DEF resume_saga_record
<1>12. CASE resume_saga_except(t) BY <1>12, ThriftyKeeps DEF resume_saga_except
<1>13. CASE resume_saga_release(t) BY <1>13, ThriftyKeeps DEF resume_saga_release
<1> QED BY <1>1, <1>2, <1>3, <1>4, <1>5, <1>6, <1>7, <1>8, <1>9, <1>10, <1>11, <1>12, <1>13
        DEF Resume

\* Nor does a recovery; a replay is paid for.
LEMMA BudgetRecover ==
    ASSUME TypeInv, BudgetInv, NEW t \in Tasks, Recover(t) \/ crash(t) PROVE BudgetInv'
<1> USE BudgetTypes DEF Thrifty, Owes, At, Goto, Return, WriteRow, Compensate, shared, budget
<1>1. CASE recover_stuck_saga(t) BY <1>1, ThriftyKeeps DEF recover_stuck_saga
<1>2. CASE recover_check(t) BY <1>2, ThriftyKeeps DEF recover_check
<1>3. CASE operator_recover(t) BY <1>3, ThriftyKeeps DEF operator_recover
<1>4. CASE replay_saga(t) BY <1>4, BudgetReplay
<1>5. CASE replay_mark(t) BY <1>5, ThriftyKeeps DEF replay_mark
<1>6. CASE crash(t) BY <1>6, ThriftyKeeps DEF crash
<1> QED BY <1>1, <1>2, <1>3, <1>4, <1>5, <1>6 DEF Recover

\* The environment never makes the row absent again.
LEMMA BudgetEnvironment ==
    ASSUME TypeInv, BudgetInv, Environment \/ UNCHANGED vars PROVE BudgetInv'
<1>1. /\ UNCHANGED <<pc, mine, at, world, replays>>
      /\ state' = state \/ state' = "archived"
  BY DEF Environment, archive_waiting_confirm, lock_expire, db_fails, db_returns, saga_expires,
     idempotency_expires, vars, shared, locals, budget
<1>2. Due' = Due BY <1>1 DEF Due, Owes
<1> QED BY <1>1, <1>2, BudgetShrinks

\* The accounting of executed and owed steps holds in every reachable state.
THEOREM BudgetInvariant == Spec => []BudgetInv
<1>1. Init => BudgetInv
  <2> SUFFICES ASSUME Init PROVE BudgetInv OBVIOUS
  <2>1. Due = {} BY DEF Init, Due, Owes
  <2>2. IsFiniteSet(Due) /\ Cardinality(Due) = 0 BY <2>1, FS_EmptySet
  <2>3. Len(world) = 0 /\ replays = 0 /\ state = "absent" BY DEF Init
  <2> QED BY <2>2, <2>3, PlanLength DEF BudgetInv
<1>2. TypeInv /\ BudgetInv /\ [Next]_vars => BudgetInv'
  <2> SUFFICES ASSUME TypeInv, BudgetInv, [Next]_vars PROVE BudgetInv' OBVIOUS
  <2>1. ASSUME NEW t \in Tasks, Start(t) \/ Run(t) \/ CompensateStep(t) PROVE BudgetInv'
    BY <2>1, BudgetStart, BudgetRun, BudgetCompensate
  <2>2. ASSUME NEW t \in Tasks, Resume(t) \/ Recover(t) \/ crash(t) PROVE BudgetInv'
    BY <2>2, BudgetResume, BudgetRecover
  <2>3. CASE Environment \/ UNCHANGED vars BY <2>3, BudgetEnvironment
  <2> QED BY <2>1, <2>2, <2>3 DEF Next
<1> QED BY <1>1, <1>2, TypeInvariant, PTL DEF Spec

\* However many tasks start one saga, crash in the middle or find the database
\* down, its plan is executed once, and at most once more for each replay: the
\* uuid5 identity, INSERT ON CONFLICT and the compare-and-set leave one runner.
THEOREM PlanRunsOnceHolds == Spec => []PlanRunsOnce
<1>1. TypeInv /\ BudgetInv => PlanRunsOnce
  <2> SUFFICES ASSUME TypeInv, BudgetInv PROVE PlanRunsOnce OBVIOUS
  <2> DEFINE room == Len(Plan) * (1 + replays)
             spent == IF state = "absent" THEN Len(Plan) ELSE 0
  <2>1. Cardinality(Due) \in Nat /\ Len(world) \in Nat /\ replays \in Nat
    BY FS_CardinalityType DEF BudgetInv, TypeInv, RowOK, CountsOK
  <2>2. room \in Nat /\ spent \in Nat BY <2>1, PlanLength
  <2>3. Len(world) + Cardinality(Due) + spent <= room BY DEF BudgetInv
  <2> HIDE DEF room, spent
  <2>4. Len(world) <= room BY <2>1, <2>2, <2>3
  <2> QED BY <2>4 DEF PlanRunsOnce, room
<1> QED BY <1>1, TypeInvariant, BudgetInvariant, PTL

-----------------------------------------------------------------------------
(* No adapter is asked again for what it has answered.                       *)

\* Task u has the step n in hand: the record it works on is of that step.
InHand(u, n) == \E i \in todo[u] : Last(u, i) /\ snap[u][i].name = n

\* Between the answer of the adapter and the INSERT, or the idempotency key.
Undoing(u, n) == pc[u] \in {"c_history", "c_idem"} /\ InHand(u, n)

\* Tasks that have read the history and may still undo something.
Reading == {"c_lock", "c_mark"} \cup Looping

\* The history names step n, or will when the task that got the answer goes on.
Logged(n) == n \in history \/ \E u \in Tasks : pc[u] = "c_history" /\ InHand(u, n)

\* Nobody else will ask for step n: the task that got the answer has not let go
\* of the lock, or everyone who has read the history knows of it, or finds the key.
Guarded(n) ==
    \/ \E u \in Tasks : Undoing(u, n)
    \/ \A u \in Tasks : pc[u] \in Reading => n \in cops[u] \cup idem.comp

OnceAt(e) ==
    /\ ~world[e].again
    /\ world[e].answered => Logged(world[e].name) /\ Guarded(world[e].name)

\* A task that is calling an adapter has found no trace of an answer.
Untraced(u) ==
    pc[u] = "c_call" => \A i \in todo[u] : Last(u, i) => snap[u][i].name \notin cops[u] \cup idem.comp

OnceInv ==
    crashes = 0 /\ outages = 0 => /\ db = "up" /\ \A e \in 1..Len(world) : OnceAt(e)
                                 /\ \A u \in Tasks : Untraced(u)

\* A step of a task that neither asks, nor is answered, nor records, with what it
\* may not touch.
Harmless(t) ==
    /\ crashes' = 0 /\ outages' = 0 => crashes = 0 /\ outages = 0 /\ (db = "up" => db' = "up")
    /\ \A e \in 1..Len(world') :
          \/ world'[e].answered = FALSE /\ world'[e].again = FALSE
          \/ e \in 1..Len(world) /\ world'[e].name = world[e].name
                                 /\ world'[e].answered = world[e].answered
                                 /\ world'[e].again = world[e].again
    /\ history' = history /\ idem'.comp = idem.comp
    /\ \A u \in Tasks \ {t} : /\ pc'[u] = pc[u] /\ todo'[u] = todo[u]
                              /\ snap'[u] = snap[u] /\ cops'[u] = cops[u]
    /\ pc[t] \notin {"c_history", "c_idem"} /\ pc'[t] # "c_call"
    /\ pc'[t] \in Reading => \/ pc[t] \in Reading /\ cops'[t] = cops[t]
                             \/ cops'[t] = history

\* A harmless step of one task keeps every answered step guarded.
LEMMA HarmlessKeeps ==
    ASSUME OnceInv, NEW t \in Tasks, Harmless(t) PROVE OnceInv'
<1> SUFFICES ASSUME crashes' = 0, outages' = 0 PROVE OnceInv' BY DEF OnceInv
<1>0. crashes = 0 /\ outages = 0 /\ db = "up" /\ db' = "up" BY DEF Harmless, OnceInv
<1>1. \A u \in Tasks : pc[u] \in {"c_history", "c_idem"} =>
         u # t /\ pc'[u] = pc[u] /\ todo'[u] = todo[u] /\ snap'[u] = snap[u]
  BY DEF Harmless
<1>2. ASSUME NEW u \in Tasks, NEW n, pc[u] \in {"c_history", "c_idem"}, InHand(u, n)
      PROVE  pc'[u] = pc[u] /\ InHand(u, n)'
  BY <1>1, <1>2 DEF InHand, Last
<1>3. ASSUME NEW n, Logged(n), Guarded(n) PROVE Logged(n)' /\ Guarded(n)'
  <2>1. Logged(n)'
    <3>1. CASE n \in history BY <3>1 DEF Logged, Harmless
    <3>2. CASE \E u \in Tasks : pc[u] = "c_history" /\ InHand(u, n)
      <4>1. PICK u \in Tasks : pc[u] = "c_history" /\ InHand(u, n) BY <3>2
      <4>2. pc'[u] = "c_history" /\ InHand(u, n)' BY <1>2, <4>1
      <4> QED BY <4>2 DEF Logged
    <3> QED BY <1>3, <3>1, <3>2 DEF Logged
  <2>2. CASE \E u \in Tasks : Undoing(u, n)
    <3>1. PICK u \in Tasks : Undoing(u, n) BY <2>2
    <3>2. Undoing(u, n)' BY <1>2, <3>1 DEF Undoing
    <3> QED BY <2>1, <3>2 DEF Guarded
  <2>3. CASE ~\E u \in Tasks : Undoing(u, n)
    <3>1. \A u \in Tasks : pc[u] \in Reading => n \in cops[u] \cup idem.comp
      BY <1>3, <2>3 DEF Guarded
    <3>2. n \in history BY <1>3, <2>3 DEF Logged, Undoing
    <3>3. \A u \in Tasks : pc'[u] \in Reading => n \in cops'[u] \cup idem'.comp
      BY <3>1, <3>2 DEF Harmless
    <3> QED BY <2>1, <3>3 DEF Guarded
  <2> QED BY <2>2, <2>3
<1>4. ASSUME NEW e \in 1..Len(world') PROVE OnceAt(e)'
  <2>1. CASE world'[e].answered = FALSE /\ world'[e].again = FALSE BY <2>1 DEF OnceAt
  <2>2. CASE /\ e \in 1..Len(world) /\ world'[e].name = world[e].name
             /\ world'[e].answered = world[e].answered /\ world'[e].again = world[e].again
    <3>1. PICK m : m = world[e].name OBVIOUS
    <3>2. ~world[e].again /\ (world[e].answered => Logged(m) /\ Guarded(m))
      BY <1>0, <2>2, <3>1 DEF OnceInv, OnceAt
    <3>3. world[e].answered => Logged(m)' /\ Guarded(m)' BY <1>3, <3>2
    <3>4. world'[e].name = m BY <2>2, <3>1
    <3> QED BY <2>2, <3>2, <3>3, <3>4 DEF OnceAt
  <2> QED BY <1>4, <2>1, <2>2 DEF Harmless
<1>5. ASSUME NEW u \in Tasks PROVE Untraced(u)'
  <2>1. CASE u = t BY <2>1 DEF Untraced, Harmless
  <2>2. CASE u # t
    <3>1. /\ pc'[u] = pc[u] /\ todo'[u] = todo[u] /\ snap'[u] = snap[u] /\ cops'[u] = cops[u]
          /\ idem'.comp = idem.comp
      BY <2>2 DEF Harmless
    <3>2. Untraced(u) BY <1>0 DEF OnceInv
    <3> QED BY <3>1, <3>2 DEF Untraced, Last
  <2> QED BY <2>1, <2>2
<1> QED BY <1>0, <1>4, <1>5 DEF OnceInv

\* The types this argument needs.
LEMMA OnceTypes ==
    TypeInv => /\ pc \in [Tasks -> Pc] /\ cops \in [Tasks -> SUBSET STRING]
               /\ todo \in [Tasks -> SUBSET Nat] /\ snap \in [Tasks -> Seq(StepRecord)]
               /\ idem \in [start : BOOLEAN, resume : ResumeResult, comp : SUBSET STRING]
BY DEF TypeInv, LocalsOK, ControlOK, RecordsOK, SetsOK, KeysOK

\* start_saga neither calls an adapter nor records a compensation.
LEMMA OnceStart == ASSUME TypeInv, OnceInv, NEW t \in Tasks, Start(t) PROVE OnceInv'
<1> USE OnceTypes DEF Harmless, Reading, Looping, At, Goto, Return, shared, budget
<1>1. CASE start_saga(t) BY <1>1, HarmlessKeeps DEF start_saga
<1>2. CASE start_saga_check(t) BY <1>2, HarmlessKeeps DEF start_saga_check
<1>3. CASE start_saga_acquired(t) BY <1>3, HarmlessKeeps DEF start_saga_acquired
<1>4. CASE start_saga_busy(t)
  <2>1. idem'.comp = idem.comp
    BY <1>4 DEF start_saga_busy
  <2> QED BY <1>4, <2>1, HarmlessKeeps, ZenonT(30) DEF start_saga_busy
<1>5. CASE start_saga_insert(t) BY <1>5, HarmlessKeeps DEF start_saga_insert
<1>6. CASE start_saga_record(t) BY <1>6, HarmlessKeeps DEF start_saga_record
<1>7. CASE start_saga_cas(t) BY <1>7, HarmlessKeeps DEF start_saga_cas
<1>8. CASE start_saga_release(t) BY <1>8, HarmlessKeeps DEF start_saga_release
<1> QED BY <1>1, <1>2, <1>3, <1>4, <1>5, <1>6, <1>7, <1>8 DEF Start

\* Nobody has asked for an effect yet.
Fresh(e) == e.answered = FALSE /\ e.again = FALSE

\* Nor does the runner; its effects are new.
LEMMA OnceRun == ASSUME TypeInv, OnceInv, NEW t \in Tasks, Run(t) PROVE OnceInv'
<1> USE OnceTypes DEF Harmless, Reading, Looping, At, Goto, Return, WriteRow, Compensate,
        AttemptCompensation, shared, budget
<1>1. CASE run_saga_timeout(t) BY <1>1, HarmlessKeeps DEF run_saga_timeout
<1>2. CASE run_saga_fetch(t)
  <2>1. world \in Seq(Effect) BY DEF TypeInv, RowOK
  <2>2. \A e \in 1..Len(world') :
           e \in 1..Len(world) /\ world'[e].name = world[e].name
                              /\ world'[e].answered = world[e].answered
                              /\ world'[e].again = world[e].again
    BY <1>2, <2>1, RepopulatedKeeps DEF run_saga_fetch
  <2>3. /\ pc[t] = "r_fetch" /\ pc'[t] \in {"idle", "r_mark"}
        /\ UNCHANGED <<idem, history, db, crashes, outages>>
        /\ \A u \in Tasks \ {t} : /\ pc'[u] = pc[u] /\ todo'[u] = todo[u]
                                  /\ snap'[u] = snap[u] /\ cops'[u] = cops[u]
    BY <1>2 DEF run_saga_fetch
  <2> QED BY <2>2, <2>3, HarmlessKeeps
<1>3. CASE run_saga_mark(t) BY <1>3, HarmlessKeeps DEF run_saga_mark
<1>4. CASE flow_step_ok(t)
  <2>1. world \in Seq(Effect) BY DEF TypeInv, RowOK
  <2>2. at[t] \in 1..Len(Plan) BY DEF TypeInv, LocalsOK, ControlOK
  <2>3. Plan[at[t]] \in STRING BY <2>2, PlanAssumption
  <2>4. NewEffect(Plan[at[t]]) \in Effect /\ Fresh(NewEffect(Plan[at[t]]))
    BY <2>3 DEF NewEffect, Effect, Fresh
  <2>5. world' = Append(world, NewEffect(Plan[at[t]])) BY <1>4 DEF flow_step_ok
  <2>6. ASSUME NEW e \in 1..Len(world')
        PROVE  Fresh(world'[e]) \/ (e \in 1..Len(world) /\ world'[e] = world[e])
    <3> DEFINE x == NewEffect(Plan[at[t]])
    <3> HIDE DEF x
    <3>1. x \in Effect /\ world' = Append(world, x) BY <2>4, <2>5 DEF x
    <3>2. /\ Len(world') = Len(world) + 1 /\ world'[Len(world) + 1] = x
          /\ \A d \in 1..Len(world) : world'[d] = world[d]
      BY <2>1, <3>1
    <3>3. Len(world) \in Nat BY <2>1
    <3>4. \A d \in 1..Len(world') : d \in 1..Len(world) \/ d = Len(world) + 1 BY <3>2, <3>3
    <3>5. Fresh(x) BY <2>4 DEF x
    <3>6. Fresh(world'[Len(world) + 1]) BY <3>2, <3>5
    <3>7. CASE e \in 1..Len(world) BY <3>2, <3>7
    <3>8. CASE e = Len(world) + 1 BY <3>6, <3>8
    <3> QED BY <3>4, <3>7, <3>8
  <2> QED BY <1>4, <2>6, HarmlessKeeps DEF flow_step_ok, Fresh
<1>5. CASE flow_step_error(t) BY <1>5, HarmlessKeeps DEF flow_step_error
<1>6. CASE flow_step_breaker(t) BY <1>6, HarmlessKeeps DEF flow_step_breaker
<1>7. CASE flow_save(t) BY <1>7, HarmlessKeeps DEF flow_save
<1>8. CASE flow_finish(t) BY <1>8, HarmlessKeeps, ZenonT(30) DEF flow_finish
<1>9. CASE flow_fail(t) BY <1>9, HarmlessKeeps DEF flow_fail
<1>10. CASE run_saga_except(t) BY <1>10, HarmlessKeeps DEF run_saga_except
<1>11. CASE persist_dlq_message(t) BY <1>11, HarmlessKeeps DEF persist_dlq_message
<1>12. CASE flow_step_partial(t) BY <1>12, HarmlessKeeps DEF flow_step_partial
<1>13. CASE flow_partial(t) BY <1>13, HarmlessKeeps, ZenonT(30) DEF flow_partial
<1> QED BY <1>1, <1>2, <1>3, <1>4, <1>5, <1>6, <1>7, <1>8, <1>9, <1>10, <1>11, <1>12, <1>13
        DEF Run

\* The lock excludes everyone else from the loop that undoes the steps.
LEMMA LoopExclusion ==
    ASSUME LockInv, NEW t \in Tasks, NEW u \in Tasks, pc[t] \in Looping, pc[u] \in Looping
    PROVE  t = u
BY DEF LockInv, LockDiscipline, Critical, Looping

\* The last record is unique.
LEMMA LastIsUnique ==
    ASSUME TypeInv, NEW u \in Tasks, NEW i \in todo[u], NEW j \in todo[u], Last(u, i), Last(u, j)
    PROVE  i = j
<1>1. i \in Nat /\ j \in Nat BY OnceTypes
<1>2. i <= j /\ j <= i BY DEF Last
<1> QED BY <1>1, <1>2

\* When a task has a step in hand of which it has found no trace, no effect of
\* that name has been answered.
LEMMA UntracedIsOpen ==
    ASSUME TypeInv, LockInv, OnceInv, crashes = 0, outages = 0,
           NEW t \in Tasks, pc[t] \in {"c_step", "c_call"},
           NEW n, n \notin cops[t] \cup idem.comp
    PROVE  /\ \A u \in Tasks : pc[u] \notin {"c_history", "c_idem"}
           /\ \A e \in 1..Len(world) : world[e].name = n => ~world[e].answered
<1>1. \A u \in Tasks : pc[u] \notin {"c_history", "c_idem"}
  BY LoopExclusion DEF Looping
<1>2. ~Guarded(n) BY <1>1 DEF Guarded, Undoing, Reading, Looping
<1> QED BY <1>1, <1>2 DEF OnceInv, OnceAt

\* What is logged and guarded stays so while nobody is between an answer and
\* its two writes, and none of the writes is made.
LEMMA TracesStay ==
    ASSUME UNCHANGED <<todo, cops, idem, history>>, NEW m, Logged(m), Guarded(m),
           \A u \in Tasks : pc[u] \notin {"c_history", "c_idem"},
           \A u \in Tasks : pc'[u] \in Reading => pc[u] \in Reading
    PROVE  Logged(m)' /\ Guarded(m)'
<1>1. m \in history BY DEF Logged
<1>2. \A u \in Tasks : pc[u] \in Reading => m \in cops[u] \cup idem.comp
  BY DEF Guarded, Undoing
<1> QED BY <1>1, <1>2 DEF Logged, Guarded

\* A compensate method is called only while it has not answered.
LEMMA OnceAsk ==
    ASSUME TypeInv, LockInv, FaithInv, OnceInv, NEW t \in Tasks,
           compensate_call(t) \/ compensate_step_retry(t)
    PROVE  OnceInv'
<1> SUFFICES ASSUME crashes' = 0, outages' = 0 PROVE OnceInv' BY DEF OnceInv
<1>0. /\ crashes = 0 /\ outages = 0 /\ db = "up" /\ db' = "up"
      /\ UNCHANGED <<todo, cops, idem, history, snap>>
  BY DEF compensate_call, compensate_step_retry, OnceInv, budget
<1>1. /\ world \in Seq(Effect) /\ InRange(snap[t]) /\ todo[t] \subseteq 1..Len(snap[t])
      /\ pc \in [Tasks -> Pc]
  BY OnceTypes DEF TypeInv, RowOK, LocalsOK, RecordsOK, TodoOK
<1>2. PICK i \in todo[t] :
        /\ Last(t, i) /\ world' = [world EXCEPT ![snap[t][i].eff] = Asked(@)]
        /\ compensate_call(t) => Attempted(t, i)
  <2>1. CASE compensate_call(t) BY <2>1 DEF compensate_call, Attempted
  <2>2. CASE compensate_step_retry(t) /\ ~compensate_call(t)
    BY <2>2 DEF compensate_step_retry
  <2> QED BY <2>1, <2>2
<1>3. /\ pc[t] \in {"c_step", "c_call"} /\ pc'[t] = "c_call"
      /\ \A u \in Tasks \ {t} : pc'[u] = pc[u]
  BY <1>1 DEF compensate_call, compensate_step_retry, At, Goto
<1>4. snap[t][i].name \notin cops[t] \cup idem.comp
  <2>1. CASE compensate_call(t)
    BY <1>0, <1>2, <2>1, Zenon DEF Attempted, Misses
  <2>2. CASE compensate_step_retry(t)
    <3>1. pc[t] = "c_call" BY <2>2 DEF compensate_step_retry, At
    <3>2. Untraced(t) BY <1>0 DEF OnceInv
    <3> QED BY <1>2, <3>1, <3>2 DEF Untraced
  <2> QED BY <2>1, <2>2
<1>5. PICK n : n = snap[t][i].name OBVIOUS
<1>6. PICK x : x = snap[t][i].eff OBVIOUS
<1>7. x \in 1..Len(world) /\ world[x].name = n
  BY <1>1, <1>2, <1>5, <1>6 DEF InRange, FaithInv, Faithful
<1>8. ~world[x].answered /\ \A u \in Tasks : pc[u] \notin {"c_history", "c_idem"}
  BY <1>0, <1>3, <1>4, <1>5, <1>7, UntracedIsOpen
<1>9. /\ Kept
      /\ world'[x].again <=> world[x].again \/ world[x].answered
      /\ \A f \in 1..Len(world) : f # x => world'[f] = world[f]
  <2>1. world' = [world EXCEPT ![x] = Asked(@)] BY <1>2, <1>6
  <2> QED BY <1>1, <1>7, <2>1, AskedKeeps
<1>10. \A u \in Tasks : pc'[u] \in Reading => pc[u] \in Reading
  BY <1>3 DEF Reading, Looping
<1>11. ASSUME NEW e \in 1..Len(world') PROVE OnceAt(e)'
  <2>1. e \in 1..Len(world) BY <1>9 DEF Kept
  <2>2. OnceAt(e) BY <1>0, <2>1 DEF OnceInv
  <2>3. PICK m : m = world[e].name OBVIOUS
  <2>4. world'[e].name = m /\ world'[e].answered = world[e].answered
    BY <1>9, <2>1, <2>3 DEF Kept
  <2>5. world[e].answered => Logged(m)' /\ Guarded(m)'
    BY <1>0, <1>8, <1>10, <2>2, <2>3, TracesStay DEF OnceAt
  <2>6. ~world'[e].again
    <3>1. CASE e = x BY <1>8, <1>9, <2>2, <3>1 DEF OnceAt
    <3>2. CASE e # x BY <1>9, <2>1, <2>2, <3>2 DEF OnceAt
    <3> QED BY <3>1, <3>2
  <2> QED BY <2>4, <2>5, <2>6 DEF OnceAt
<1>12. ASSUME NEW u \in Tasks PROVE Untraced(u)'
  <2>1. CASE u = t
    <3>1. \A k \in todo[t] : Last(t, k) => k = i BY <1>2, LastIsUnique
    <3> QED BY <1>0, <1>4, <2>1, <3>1 DEF Untraced, Last
  <2>2. CASE u # t
    <3>1. Untraced(u) /\ pc'[u] = pc[u] BY <1>0, <1>3, <2>2 DEF OnceInv
    <3> QED BY <1>0, <3>1 DEF Untraced, Last
  <2> QED BY <2>1, <2>2
<1> QED BY <1>0, <1>11, <1>12 DEF OnceInv

\* When the adapter answers, the task itself guards the step: it has the lock.
LEMMA OnceAnswer ==
    ASSUME TypeInv, LockInv, FaithInv, OnceInv, NEW t \in Tasks, compensate_step_ok(t)
    PROVE  OnceInv'
<1> SUFFICES ASSUME crashes' = 0, outages' = 0 PROVE OnceInv' BY DEF OnceInv
<1>0. /\ crashes = 0 /\ outages = 0 /\ db = "up" /\ db' = "up"
      /\ UNCHANGED <<todo, cops, idem, history>>
  BY DEF compensate_step_ok, OnceInv, budget
<1>1. /\ world \in Seq(Effect) /\ snap \in [Tasks -> Seq(StepRecord)] /\ InRange(snap[t])
      /\ todo[t] \subseteq 1..Len(snap[t]) /\ pc \in [Tasks -> Pc]
  BY OnceTypes DEF TypeInv, RowOK, LocalsOK, RecordsOK, TodoOK
<1>2. PICK i \in todo[t] :
        /\ Last(t, i)
        /\ world' = [world EXCEPT ![snap[t][i].eff] = Answered(@)]
        /\ snap' = [snap EXCEPT ![t][i].compensated = TRUE]
  BY DEF compensate_step_ok
<1>3. PICK n : n = snap[t][i].name OBVIOUS
<1>4. i \in 1..Len(snap[t]) /\ snap[t][i].eff \in 1..Len(world) /\ snap[t] \in Seq(StepRecord)
  BY <1>1 DEF InRange
<1>5. PICK x : x = snap[t][i].eff OBVIOUS
<1>6. x \in 1..Len(world) /\ world[x].name = n BY <1>3, <1>4, <1>5 DEF FaithInv, Faithful
<1>7. pc[t] = "c_call" /\ pc'[t] = "c_history" /\ \A u \in Tasks \ {t} : pc'[u] = pc[u]
  BY <1>1 DEF compensate_step_ok, At, Goto
<1>8. \A u \in Tasks : pc[u] \notin {"c_history", "c_idem"}
  BY <1>7, LoopExclusion DEF Looping
<1>9. snap'[t][i].name = n
  <2>1. snap'[t] = Flagged(snap[t], i) BY <1>1, <1>2 DEF Flagged
  <2>2. snap[t][i] \in StepRecord BY <1>4
  <2> QED BY <1>3, <1>4, <2>1, <2>2 DEF Flagged, StepRecord
<1>10. Logged(n)' /\ Guarded(n)'
  <2>1. InHand(t, n)' BY <1>0, <1>2, <1>9 DEF InHand, Last
  <2> QED BY <1>7, <2>1 DEF Logged, Guarded, Undoing
<1>11. \A u \in Tasks : pc'[u] \in Reading => pc[u] \in Reading
  BY <1>7 DEF Reading, Looping
<1>12. /\ Len(world') = Len(world) /\ world'[x].name = n /\ world'[x].again = world[x].again
       /\ \A f \in 1..Len(world) : f # x => world'[f] = world[f]
  <2>1. world' = [world EXCEPT ![x] = Answered(@)] BY <1>2, <1>5
  <2> QED BY <1>1, <1>6, <2>1, EffectFields
<1>13. ASSUME NEW e \in 1..Len(world') PROVE OnceAt(e)'
  <2>1. e \in 1..Len(world) BY <1>12
  <2>2. OnceAt(e) BY <1>0, <2>1 DEF OnceInv
  <2>3. CASE e = x BY <1>10, <1>12, <2>2, <2>3 DEF OnceAt
  <2>4. CASE e # x
    <3>1. PICK m : m = world[e].name OBVIOUS
    <3>2. world[e].answered => Logged(m)' /\ Guarded(m)'
      BY <1>0, <1>8, <1>11, <2>2, <3>1, TracesStay DEF OnceAt
    <3>3. world'[e] = world[e] BY <1>12, <2>1, <2>4
    <3> QED BY <2>2, <3>1, <3>2, <3>3 DEF OnceAt
  <2> QED BY <2>3, <2>4
<1>14. ASSUME NEW u \in Tasks PROVE Untraced(u)'
  <2>1. CASE u = t BY <1>7, <2>1 DEF Untraced
  <2>2. CASE u # t
    <3>1. Untraced(u) /\ pc'[u] = pc[u] /\ snap'[u] = snap[u]
      BY <1>0, <1>1, <1>2, <1>7, <2>2 DEF OnceInv
    <3> QED BY <1>0, <3>1 DEF Untraced, Last
  <2> QED BY <2>1, <2>2
<1> QED BY <1>0, <1>13, <1>14 DEF OnceInv

\* The history takes over from the task, while the task still has the lock.
LEMMA OnceHistory ==
    ASSUME TypeInv, OnceInv, NEW t \in Tasks, compensate_history(t) PROVE OnceInv'
<1> SUFFICES ASSUME crashes' = 0, outages' = 0 PROVE OnceInv' BY DEF OnceInv
<1>0. crashes = 0 /\ outages = 0 /\ db = "up" /\ db' = "up"
  BY DEF compensate_history, OnceInv, budget
<1>1. PICK i \in todo[t] : Last(t, i) /\ history' = history \cup {snap[t][i].name}
  BY <1>0 DEF compensate_history
<1>2. UNCHANGED <<world, idem, snap, todo, cops>> BY DEF compensate_history
<1>3. pc[t] = "c_history" /\ pc' = [pc EXCEPT ![t] = "c_idem"] /\ pc \in [Tasks -> Pc]
  BY OnceTypes DEF compensate_history, At, Goto
<1>4. \A u \in Tasks : \A n : InHand(u, n)' <=> InHand(u, n) BY <1>2 DEF InHand, Last
<1>5. \A n : InHand(t, n) => n \in history' BY <1>1, LastIsUnique DEF InHand
<1>6. ASSUME NEW n, Logged(n) PROVE Logged(n)'
  <2>1. CASE n \in history BY <1>1, <2>1 DEF Logged
  <2>2. CASE \E u \in Tasks : pc[u] = "c_history" /\ InHand(u, n)
    <3>1. PICK u \in Tasks : pc[u] = "c_history" /\ InHand(u, n) BY <2>2
    <3>2. CASE u = t BY <1>5, <3>1, <3>2 DEF Logged
    <3>3. CASE u # t
      <4>1. pc'[u] = "c_history" BY <1>3, <3>1, <3>3
      <4> QED BY <1>4, <3>1, <4>1 DEF Logged
    <3> QED BY <3>2, <3>3
  <2> QED BY <1>6, <2>1, <2>2 DEF Logged
<1>7. ASSUME NEW n, Guarded(n) PROVE Guarded(n)'
  <2>1. CASE \E u \in Tasks : Undoing(u, n)
    <3>1. PICK u \in Tasks : Undoing(u, n) BY <2>1
    <3>2. Undoing(u, n)' BY <1>3, <1>4, <3>1 DEF Undoing
    <3> QED BY <3>2 DEF Guarded
  <2>2. CASE \A u \in Tasks : pc[u] \in Reading => n \in cops[u] \cup idem.comp
    <3>1. \A u \in Tasks : pc'[u] \in Reading => pc[u] \in Reading
      BY <1>3 DEF Reading, Looping
    <3> QED BY <1>2, <2>2, <3>1 DEF Guarded
  <2> QED BY <1>7, <2>1, <2>2 DEF Guarded
<1>8. ASSUME NEW e \in 1..Len(world') PROVE OnceAt(e)'
  <2>1. OnceAt(e) BY <1>0, <1>2 DEF OnceInv
  <2>2. PICK m : m = world[e].name OBVIOUS
  <2>3. Logged(m) /\ Guarded(m) => Logged(m)' /\ Guarded(m)' BY <1>6, <1>7
  <2>4. world' = world BY <1>2
  <2> QED BY <2>1, <2>2, <2>3, <2>4 DEF OnceAt
<1>9. ASSUME NEW u \in Tasks PROVE Untraced(u)'
  <2>1. Untraced(u) BY <1>0 DEF OnceInv
  <2>2. pc'[u] = "c_call" => pc[u] = "c_call" BY <1>3
  <2> QED BY <1>2, <2>1, <2>2 DEF Untraced, Last
<1> QED BY <1>0, <1>8, <1>9 DEF OnceInv

\* The idempotency key takes over from the lock.
LEMMA OnceIdem ==
    ASSUME TypeInv, LockInv, OnceInv, NEW t \in Tasks, compensate_idem(t) PROVE OnceInv'
<1> SUFFICES ASSUME crashes' = 0, outages' = 0 PROVE OnceInv' BY DEF OnceInv
<1>0. crashes = 0 /\ outages = 0 /\ db = "up" /\ db' = "up"
  BY DEF compensate_idem, OnceInv, budget
<1>1. PICK i \in todo[t] : /\ Last(t, i) /\ Settle(t, i, {"succeeded"})
                          /\ idem' = [idem EXCEPT !.comp = @ \cup {snap[t][i].name}]
  BY <1>0 DEF compensate_idem
<1>2. UNCHANGED <<world, history, snap, cops>> BY DEF compensate_idem
<1>3. pc[t] = "c_idem" /\ pc' = [pc EXCEPT ![t] = "c_step"] /\ pc \in [Tasks -> Pc]
  BY OnceTypes DEF compensate_idem, At, Goto
<1>4. idem'.comp = idem.comp \cup {snap[t][i].name} BY <1>1, OnceTypes
<1>5. \A u \in Tasks \ {t} : todo'[u] = todo[u] BY <1>1, OnceTypes DEF Settle
<1>6. \A u \in Tasks : \A n : u # t => (InHand(u, n)' <=> InHand(u, n))
  BY <1>2, <1>5 DEF InHand, Last
<1>7. \A n : InHand(t, n) => n \in idem'.comp BY <1>1, <1>4, LastIsUnique DEF InHand
<1>8. ASSUME NEW n, Logged(n) PROVE Logged(n)'
  <2>1. CASE n \in history BY <1>2, <2>1 DEF Logged
  <2>2. CASE \E u \in Tasks : pc[u] = "c_history" /\ InHand(u, n)
    <3>1. PICK u \in Tasks : pc[u] = "c_history" /\ InHand(u, n) BY <2>2
    <3>2. u # t /\ pc'[u] = "c_history" BY <1>3, <3>1
    <3> QED BY <1>6, <3>1, <3>2 DEF Logged
  <2> QED BY <1>8, <2>1, <2>2 DEF Logged
<1>9. ASSUME NEW n, Guarded(n) PROVE Guarded(n)'
  <2>1. CASE \E u \in Tasks : Undoing(u, n)
    <3>1. PICK u \in Tasks : Undoing(u, n) BY <2>1
    <3>2. CASE u = t
      <4>1. n \in idem'.comp BY <1>7, <3>1, <3>2 DEF Undoing
      <4> QED BY <4>1 DEF Guarded
    <3>3. CASE u # t
      <4>1. Undoing(u, n)' BY <1>3, <1>6, <3>1, <3>3 DEF Undoing
      <4> QED BY <4>1 DEF Guarded
    <3> QED BY <3>2, <3>3
  <2>2. CASE \A u \in Tasks : pc[u] \in Reading => n \in cops[u] \cup idem.comp
    <3>1. \A u \in Tasks : pc'[u] \in Reading => pc[u] \in Reading
      BY <1>3 DEF Reading, Looping
    <3> QED BY <1>2, <1>4, <2>2, <3>1 DEF Guarded
  <2> QED BY <1>9, <2>1, <2>2 DEF Guarded
<1>10. ASSUME NEW e \in 1..Len(world') PROVE OnceAt(e)'
  <2>1. OnceAt(e) BY <1>0, <1>2 DEF OnceInv
  <2>2. PICK m : m = world[e].name OBVIOUS
  <2>3. Logged(m) /\ Guarded(m) => Logged(m)' /\ Guarded(m)' BY <1>8, <1>9
  <2>4. world' = world BY <1>2
  <2> QED BY <2>1, <2>2, <2>3, <2>4 DEF OnceAt
<1>11. ASSUME NEW u \in Tasks PROVE Untraced(u)'
  <2>1. pc'[u] # "c_call"
    <3>1. CASE u = t BY <1>3, <3>1
    <3>2. CASE u # t
      <4>1. pc'[u] = pc[u] BY <1>3, <3>2
      <4> QED BY <1>3, <3>2, <4>1, LoopExclusion DEF Looping
    <3> QED BY <3>1, <3>2
  <2> QED BY <2>1 DEF Untraced
<1> QED BY <1>0, <1>10, <1>11 DEF OnceInv

\* What leaving _compensate_saga does to the locals the argument looks at.
LEMMA EndIsHarmless ==
    ASSUME TypeInv, NEW t \in Tasks, CompensateReturns(t) \/ CompensateRaises(t)
    PROVE  /\ pc'[t] \notin Reading /\ pc'[t] # "c_call"
           /\ \A u \in Tasks \ {t} : /\ pc'[u] = pc[u] /\ todo'[u] = todo[u]
                                     /\ snap'[u] = snap[u] /\ cops'[u] = cops[u]
<1> USE OnceTypes DEF Leave, Return, Goto, Reading, Looping
<1>1. CASE CompensateReturns(t) BY <1>1 DEF CompensateReturns
<1>2. CASE CompensateRaises(t) BY <1>2 DEF CompensateRaises
<1> QED BY <1>1, <1>2

\* A compensation hands the guard from the lock to the history and the key.
LEMMA OnceCompensate ==
    ASSUME TypeInv, LockInv, FaithInv, OnceInv, NEW t \in Tasks, CompensateStep(t)
    PROVE  OnceInv'
<1> USE OnceTypes DEF Harmless, At, Goto, Settle, WriteRow, shared, budget
<1>1. CASE compensate_read(t)
  BY <1>1, HarmlessKeeps DEF compensate_read, Reading, Looping
<1>2. CASE compensate_acquired(t)
  BY <1>2, HarmlessKeeps DEF compensate_acquired, Reading, Looping
<1>3. CASE compensate_busy(t) BY <1>3, EndIsHarmless, HarmlessKeeps DEF compensate_busy
<1>4. CASE compensate_mark(t)
  BY <1>4, HarmlessKeeps DEF compensate_mark, Reading, Looping
<1>5. CASE compensate_skip(t)
  BY <1>5, HarmlessKeeps DEF compensate_skip, Reading, Looping
<1>6. CASE compensate_pass(t)
  BY <1>6, HarmlessKeeps DEF compensate_pass, Reading, Looping
<1>7. CASE compensate_step_ok(t) BY <1>7, OnceAnswer
<1>8. CASE compensate_step_error(t)
  BY <1>8, HarmlessKeeps DEF compensate_step_error, Reading, Looping
<1>9. CASE compensate_history(t) BY <1>9, OnceHistory
<1>10. CASE compensate_idem(t) BY <1>10, OnceIdem
<1>11. CASE compensate_finish(t)
  BY <1>11, HarmlessKeeps DEF compensate_finish, Reading, Looping
<1>12. CASE compensate_summary(t)
  <2>1. pc[t] = "c_summary" BY <1>12 DEF compensate_summary
  <2>2. CASE db = "up" BY <1>12, <2>1, <2>2, EndIsHarmless, HarmlessKeeps DEF compensate_summary
  <2>3. CASE db # "up"
    BY <1>12, <2>1, <2>3, HarmlessKeeps DEF compensate_summary, Reading, Looping
  <2> QED BY <2>2, <2>3
<1>13. CASE compensate_abort(t) BY <1>13, EndIsHarmless, HarmlessKeeps DEF compensate_abort
<1>14. CASE compensate_call(t) BY <1>14, OnceAsk
<1>15. CASE compensate_step_retry(t) BY <1>15, OnceAsk
<1> QED BY <1>1, <1>2, <1>3, <1>4, <1>5, <1>6, <1>7, <1>8, <1>9, <1>10, <1>11, <1>12, <1>13,
        <1>14, <1>15 DEF CompensateStep

\* A resume puts reservations back and confirms, which asks for no compensation.
LEMMA OnceResume == ASSUME TypeInv, OnceInv, NEW t \in Tasks, Resume(t) PROVE OnceInv'
<1> USE OnceTypes DEF Harmless, Reading, Looping, At, Goto, Return, WriteRow, Compensate,
        shared, budget
<1>1. CASE resume_saga(t) BY <1>1, HarmlessKeeps DEF resume_saga
<1>2. CASE resume_saga_check(t) BY <1>2, HarmlessKeeps DEF resume_saga_check
<1>3. CASE resume_saga_acquired(t) BY <1>3, HarmlessKeeps DEF resume_saga_acquired
<1>4. CASE resume_saga_busy(t)
  <2>1. idem'.comp = idem.comp BY <1>4 DEF resume_saga_busy
  <2> QED BY <1>4, <2>1, HarmlessKeeps, ZenonT(30) DEF resume_saga_busy
<1>5. CASE resume_saga_timeout(t) BY <1>5, HarmlessKeeps DEF resume_saga_timeout
<1>6. CASE resume_saga_fetch(t) BY <1>6, HarmlessKeeps DEF resume_saga_fetch
<1>7. CASE booking_confirm_ok(t)
  <2>1. world \in Seq(Effect) BY DEF TypeInv, RowOK
  <2>2. \A e \in 1..Len(world') :
           e \in 1..Len(world) /\ world'[e].name = world[e].name
                              /\ world'[e].answered = world[e].answered
                              /\ world'[e].again = world[e].again
    BY <1>7, <2>1, RepopulatedKeeps DEF booking_confirm_ok
  <2> QED BY <1>7, <2>2, HarmlessKeeps DEF booking_confirm_ok
<1>8. CASE booking_confirm_error(t)
  <2>1. world \in Seq(Effect) BY DEF TypeInv, RowOK
  <2>2. \A e \in 1..Len(world') :
           e \in 1..Len(world) /\ world'[e].name = world[e].name
                              /\ world'[e].answered = world[e].answered
                              /\ world'[e].again = world[e].again
    BY <1>8, <2>1, RepopulatedKeeps DEF booking_confirm_error
  <2> QED BY <1>8, <2>2, HarmlessKeeps DEF booking_confirm_error
<1>9. CASE booking_confirm_breaker(t) BY <1>9, HarmlessKeeps DEF booking_confirm_breaker
<1>10. CASE booking_succeed(t) BY <1>10, HarmlessKeeps DEF booking_succeed
<1>11. CASE resume_saga_record(t)
  <2>1. idem'.comp = idem.comp BY <1>11 DEF resume_saga_record
  <2> QED BY <1>11, <2>1, HarmlessKeeps DEF resume_saga_record
<1>12. CASE resume_saga_except(t)
  <2>1. idem'.comp = idem.comp BY <1>12 DEF resume_saga_except
  <2> QED BY <1>12, <2>1, HarmlessKeeps DEF resume_saga_except
<1>13. CASE resume_saga_release(t) BY <1>13, HarmlessKeeps DEF resume_saga_release
<1> QED BY <1>1, <1>2, <1>3, <1>4, <1>5, <1>6, <1>7, <1>8, <1>9, <1>10, <1>11, <1>12, <1>13
        DEF Resume

\* A crash ends the promise; a recovery only asks for a compensation.
LEMMA OnceRecover ==
    ASSUME TypeInv, OnceInv, NEW t \in Tasks, Recover(t) \/ crash(t) PROVE OnceInv'
<1> USE OnceTypes DEF Harmless, Reading, Looping, At, Goto, Return, WriteRow, Compensate,
        shared, budget
<1>1. CASE recover_stuck_saga(t) BY <1>1, HarmlessKeeps DEF recover_stuck_saga
<1>2. CASE recover_check(t) BY <1>2, HarmlessKeeps DEF recover_check
<1>3. CASE operator_recover(t) BY <1>3, HarmlessKeeps DEF operator_recover
<1>4. CASE replay_saga(t) BY <1>4, HarmlessKeeps DEF replay_saga
<1>5. CASE replay_mark(t) BY <1>5, HarmlessKeeps DEF replay_mark
<1>6. CASE crash(t)
  <2>1. crashes \in Nat BY DEF TypeInv, CountsOK
  <2>2. crashes' # 0 BY <1>6, <2>1 DEF crash
  <2> QED BY <2>2 DEF OnceInv
<1> QED BY <1>1, <1>2, <1>3, <1>4, <1>5, <1>6 DEF Recover

\* The environment: an outage ends the promise, and when the keys expire no
\* task is inside a call, so that every one to come reads the history first.
LEMMA OnceEnvironment ==
    ASSUME TypeInv, OnceInv, Environment \/ UNCHANGED vars PROVE OnceInv'
<1> SUFFICES ASSUME crashes' = 0, outages' = 0 PROVE OnceInv' BY DEF OnceInv
<1>0. UNCHANGED <<world, history, pc, todo, snap, cops, crashes>>
  BY DEF Environment, archive_waiting_confirm, lock_expire, db_fails, db_returns, saga_expires,
     idempotency_expires, vars, shared, locals, budget
<1>1. outages = 0 /\ (db = "up" => db' = "up")
  <2>1. outages \in Nat BY DEF TypeInv, CountsOK
  <2> QED BY <2>1 DEF Environment, archive_waiting_confirm, lock_expire, db_fails, db_returns,
     saga_expires, idempotency_expires, vars, shared, locals, budget
<1>2. idem' = idem \/ \A u \in Tasks : pc[u] = "idle"
  BY DEF Environment, archive_waiting_confirm, lock_expire, db_fails, db_returns, saga_expires,
     idempotency_expires, vars, shared, locals, budget
<1>3. crashes = 0 /\ db = "up" /\ db' = "up" BY <1>0, <1>1 DEF OnceInv
<1>4. \A u \in Tasks : \A n : InHand(u, n)' <=> InHand(u, n) BY <1>0 DEF InHand, Last
<1>5. \A n : Logged(n) => Logged(n)' BY <1>0, <1>4 DEF Logged
<1>6. \A n : Guarded(n) => Guarded(n)'
  <2>1. CASE idem' = idem BY <1>0, <1>4, <2>1 DEF Guarded, Undoing
  <2>2. CASE \A u \in Tasks : pc[u] = "idle" BY <1>0, <2>2 DEF Guarded, Reading, Looping
  <2> QED BY <1>2, <2>1, <2>2
<1>7. ASSUME NEW e \in 1..Len(world') PROVE OnceAt(e)'
  <2>1. OnceAt(e) BY <1>0, <1>1, <1>3 DEF OnceInv
  <2>2. PICK m : m = world[e].name OBVIOUS
  <2>3. Logged(m) /\ Guarded(m) => Logged(m)' /\ Guarded(m)' BY <1>5, <1>6
  <2>4. world' = world BY <1>0
  <2> QED BY <2>1, <2>2, <2>3, <2>4 DEF OnceAt
<1>8. ASSUME NEW u \in Tasks PROVE Untraced(u)'
  <2>1. Untraced(u) BY <1>1, <1>3 DEF OnceInv
  <2> QED BY <1>0, <1>2, <2>1 DEF Untraced, Last
<1> QED BY <1>3, <1>7, <1>8 DEF OnceInv

\* What guards an answered step against a second call never lapses.
THEOREM OnceInvariant == Spec => []OnceInv
<1>1. Init => OnceInv BY DEF Init, OnceInv, Untraced
<1>2. TypeInv /\ LockInv /\ FaithInv /\ OnceInv /\ [Next]_vars => OnceInv'
  <2> SUFFICES ASSUME TypeInv, LockInv, FaithInv, OnceInv, [Next]_vars PROVE OnceInv' OBVIOUS
  <2>1. ASSUME NEW t \in Tasks, Start(t) \/ Run(t) \/ CompensateStep(t) PROVE OnceInv'
    BY <2>1, OnceStart, OnceRun, OnceCompensate
  <2>2. ASSUME NEW t \in Tasks, Resume(t) \/ Recover(t) \/ crash(t) PROVE OnceInv'
    BY <2>2, OnceResume, OnceRecover
  <2>3. CASE Environment \/ UNCHANGED vars BY <2>3, OnceEnvironment
  <2> QED BY <2>1, <2>2, <2>3 DEF Next
<1> QED BY <1>1, <1>2, TypeInvariant, LockInvariant, FaithInvariant, PTL DEF Spec

\* As long as no process crashes and the database answers, no adapter is asked to
\* compensate an effect after it has answered for it once, however many
\* recoveries, failed runs and operators race for one saga, whatever is retried,
\* and although the idempotency keys expire.
THEOREM AnsweredOnceHolds == Spec => []AnsweredOnce
<1>1. OnceInv => AnsweredOnce BY DEF OnceInv, OnceAt, AnsweredOnce
<1> QED BY <1>1, OnceInvariant, PTL

-----------------------------------------------------------------------------
(* A row that says compensated has had an answer of every adapter.           *)

\* The record is flagged, or its adapter has no compensate method.
Done(rec) == rec.compensated \/ rec.name \notin Undoable
AllDone(recs) == \A i \in 1..Len(recs) : Done(recs[i])
Settling == Looping \cup {"c_summary", "c_abort"}

\* What the results of a compensation under way stand for: a record that is no
\* longer on the list is done, unless a result says that it is not.
ResultsTrue(t) ==
    /\ results[t] # {} => pc[t] \in Settling /\ snap[t] # <<>>
    /\ pc[t] \in Looping /\ results[t] \subseteq {"succeeded"} =>
          \A i \in 1..Len(snap[t]) : i \in todo[t] \/ Done(snap[t][i])
    /\ pc[t] \in {"c_history", "c_idem"} =>
          \A i \in todo[t] : Last(t, i) => snap[t][i].compensated

\* An open breaker leaves a step out of compensation_results.
CompInv == ~BreakerOpens =>
    /\ state = "compensated" => steps # <<>> /\ AllDone(steps)
    /\ \A t \in Tasks : ResultsTrue(t)

\* A step that does not write compensated, nor takes a turn of the loop.
Settled(t) ==
    /\ UNCHANGED <<state, steps>> \/ state' # "compensated"
    /\ \A u \in Tasks \ {t} : /\ pc'[u] = pc[u] /\ todo'[u] = todo[u]
                              /\ snap'[u] = snap[u] /\ results'[u] = results[u]
    /\ pc'[t] \notin Looping
    /\ \/ results'[t] = {}
       \/ results'[t] = results[t] /\ pc[t] \notin Settling
       \/ results'[t] = results[t] /\ snap'[t] = snap[t] /\ pc'[t] \in Settling

\* A step outside the loop that forgets or keeps the results keeps the promise.
LEMMA SettledKeeps == ASSUME CompInv, NEW t \in Tasks, Settled(t) PROVE CompInv'
<1> SUFFICES ASSUME ~BreakerOpens PROVE CompInv' BY DEF CompInv
<1>1. (state = "compensated" => steps # <<>> /\ AllDone(steps))'
  BY DEF CompInv, Settled, AllDone
<1>2. ASSUME NEW u \in Tasks PROVE ResultsTrue(u)'
  <2>1. ResultsTrue(u) BY DEF CompInv
  <2>2. CASE u # t BY <2>1, <2>2 DEF Settled, ResultsTrue, Last
  <2>3. CASE u = t
    <3>1. pc'[t] \notin Looping /\ pc'[t] \notin {"c_history", "c_idem"}
      BY DEF Settled, Looping
    <3>2. results'[t] # {} => pc'[t] \in Settling /\ snap'[t] # <<>>
      BY <2>1, <2>3 DEF Settled, ResultsTrue
    <3> QED BY <2>3, <3>1, <3>2 DEF ResultsTrue
  <2> QED BY <2>2, <2>3
<1> QED BY <1>1, <1>2 DEF CompInv

\* One turn of the loop of one task, which has kept its promise.
LEMMA TurnKeeps ==
    ASSUME CompInv, NEW t \in Tasks, UNCHANGED <<state, steps>> \/ state' # "compensated",
           \A u \in Tasks \ {t} : /\ pc'[u] = pc[u] /\ todo'[u] = todo[u]
                                  /\ snap'[u] = snap[u] /\ results'[u] = results[u],
           ~BreakerOpens => ResultsTrue(t)'
    PROVE  CompInv'
<1> SUFFICES ASSUME ~BreakerOpens PROVE CompInv' BY DEF CompInv
<1>1. (state = "compensated" => steps # <<>> /\ AllDone(steps))'
  BY DEF CompInv, AllDone
<1>2. ASSUME NEW u \in Tasks PROVE ResultsTrue(u)'
  <2>1. ResultsTrue(u) BY DEF CompInv
  <2>2. CASE u # t BY <2>1, <2>2 DEF ResultsTrue, Last
  <2> QED BY <2>2
<1> QED BY <1>1, <1>2 DEF CompInv

\* The types this argument needs.
LEMMA CompTypes ==
    TypeInv => /\ pc \in [Tasks -> Pc] /\ state \in SagaState
               /\ results \in [Tasks -> SUBSET {"succeeded", "skipped", "failed"}]
               /\ todo \in [Tasks -> SUBSET Nat] /\ snap \in [Tasks -> Seq(StepRecord)]
               /\ \A t \in Tasks : todo[t] \subseteq 1..Len(snap[t])
BY DEF TypeInv, LocalsOK, ControlOK, RecordsOK, SetsOK, RowOK, TodoOK

\* start_saga is outside the loop and never writes compensated.
LEMMA CompStart == ASSUME TypeInv, CompInv, NEW t \in Tasks, Start(t) PROVE CompInv'
<1> USE CompTypes DEF Settled, Settling, Looping, At, Goto, Return, shared, budget
<1>1. CASE start_saga(t) BY <1>1, SettledKeeps DEF start_saga
<1>2. CASE start_saga_check(t) BY <1>2, SettledKeeps DEF start_saga_check
<1>3. CASE start_saga_acquired(t) BY <1>3, SettledKeeps DEF start_saga_acquired
<1>4. CASE start_saga_busy(t) BY <1>4, SettledKeeps DEF start_saga_busy
<1>5. CASE start_saga_insert(t) BY <1>5, SettledKeeps DEF start_saga_insert
<1>6. CASE start_saga_record(t) BY <1>6, SettledKeeps DEF start_saga_record
<1>7. CASE start_saga_cas(t) BY <1>7, SettledKeeps DEF start_saga_cas
<1>8. CASE start_saga_release(t) BY <1>8, SettledKeeps DEF start_saga_release
<1> QED BY <1>1, <1>2, <1>3, <1>4, <1>5, <1>6, <1>7, <1>8 DEF Start

\* So is the runner.
LEMMA CompRun == ASSUME TypeInv, CompInv, NEW t \in Tasks, Run(t) PROVE CompInv'
<1> USE CompTypes DEF Settled, Settling, Looping, At, Goto, Return, WriteRow, Compensate,
        AttemptCompensation, shared, budget
<1>1. CASE run_saga_timeout(t) BY <1>1, SettledKeeps DEF run_saga_timeout
<1>2. CASE run_saga_fetch(t) BY <1>2, SettledKeeps DEF run_saga_fetch
<1>3. CASE run_saga_mark(t) BY <1>3, SettledKeeps DEF run_saga_mark
<1>4. CASE flow_step_ok(t) BY <1>4, SettledKeeps DEF flow_step_ok
<1>5. CASE flow_step_error(t) BY <1>5, SettledKeeps DEF flow_step_error
<1>6. CASE flow_step_breaker(t) BY <1>6, SettledKeeps DEF flow_step_breaker
<1>7. CASE flow_save(t) BY <1>7, SettledKeeps DEF flow_save
<1>8. CASE flow_finish(t) BY <1>8, SettledKeeps DEF flow_finish
<1>9. CASE flow_fail(t) BY <1>9, SettledKeeps DEF flow_fail
<1>10. CASE run_saga_except(t) BY <1>10, SettledKeeps DEF run_saga_except
<1>11. CASE persist_dlq_message(t) BY <1>11, SettledKeeps DEF persist_dlq_message
<1>12. CASE flow_step_partial(t) BY <1>12, SettledKeeps DEF flow_step_partial
<1>13. CASE flow_partial(t) BY <1>13, SettledKeeps, ZenonT(30) DEF flow_partial
<1> QED BY <1>1, <1>2, <1>3, <1>4, <1>5, <1>6, <1>7, <1>8, <1>9, <1>10, <1>11, <1>12, <1>13
        DEF Run

\* So is a resume.
LEMMA CompResume == ASSUME TypeInv, CompInv, NEW t \in Tasks, Resume(t) PROVE CompInv'
<1> USE CompTypes DEF Settled, Settling, Looping, At, Goto, Return, WriteRow, Compensate,
        shared, budget
<1>1. CASE resume_saga(t) BY <1>1, SettledKeeps DEF resume_saga
<1>2. CASE resume_saga_check(t) BY <1>2, SettledKeeps DEF resume_saga_check
<1>3. CASE resume_saga_acquired(t) BY <1>3, SettledKeeps DEF resume_saga_acquired
<1>4. CASE resume_saga_busy(t) BY <1>4, SettledKeeps DEF resume_saga_busy
<1>5. CASE resume_saga_timeout(t) BY <1>5, SettledKeeps DEF resume_saga_timeout
<1>6. CASE resume_saga_fetch(t) BY <1>6, SettledKeeps DEF resume_saga_fetch
<1>7. CASE booking_confirm_ok(t) BY <1>7, SettledKeeps DEF booking_confirm_ok
<1>8. CASE booking_confirm_error(t) BY <1>8, SettledKeeps DEF booking_confirm_error
<1>9. CASE booking_confirm_breaker(t) BY <1>9, SettledKeeps DEF booking_confirm_breaker
<1>10. CASE booking_succeed(t) BY <1>10, SettledKeeps DEF booking_succeed
<1>11. CASE resume_saga_record(t) BY <1>11, SettledKeeps DEF resume_saga_record
<1>12. CASE resume_saga_except(t) BY <1>12, SettledKeeps DEF resume_saga_except
<1>13. CASE resume_saga_release(t) BY <1>13, SettledKeeps DEF resume_saga_release
<1> QED BY <1>1, <1>2, <1>3, <1>4, <1>5, <1>6, <1>7, <1>8, <1>9, <1>10, <1>11, <1>12, <1>13
        DEF Resume

\* So are recovery, replay and a crash.
LEMMA CompRecover ==
    ASSUME TypeInv, CompInv, NEW t \in Tasks, Recover(t) \/ crash(t) PROVE CompInv'
<1> USE CompTypes DEF Settled, Settling, Looping, At, Goto, Return, WriteRow, Compensate,
        shared, budget
<1>1. CASE recover_stuck_saga(t) BY <1>1, SettledKeeps DEF recover_stuck_saga
<1>2. CASE recover_check(t) BY <1>2, SettledKeeps DEF recover_check
<1>3. CASE operator_recover(t) BY <1>3, SettledKeeps DEF operator_recover
<1>4. CASE replay_saga(t) BY <1>4, SettledKeeps DEF replay_saga
<1>5. CASE replay_mark(t) BY <1>5, SettledKeeps DEF replay_mark
<1>6. CASE crash(t) BY <1>6, SettledKeeps DEF crash
<1> QED BY <1>1, <1>2, <1>3, <1>4, <1>5, <1>6 DEF Recover

\* Leaving _compensate_saga forgets the results.
LEMMA EndIsSettled ==
    ASSUME TypeInv, NEW t \in Tasks, CompensateReturns(t) \/ CompensateRaises(t)
    PROVE  /\ pc'[t] \notin Looping /\ results'[t] = {}
           /\ \A u \in Tasks \ {t} : /\ pc'[u] = pc[u] /\ todo'[u] = todo[u]
                                     /\ snap'[u] = snap[u] /\ results'[u] = results[u]
<1> USE CompTypes DEF Leave, Return, Goto, Looping
<1>1. CASE CompensateReturns(t) BY <1>1 DEF CompensateReturns
<1>2. CASE CompensateRaises(t) BY <1>2 DEF CompensateRaises
<1> QED BY <1>1, <1>2

\* Settling a record that is not done leaves a result that says so.
LEMMA SettleFails ==
    ASSUME TypeInv, CompInv, NEW t \in Tasks, pc'[t] = "c_step", NEW i \in todo[t],
           NEW r \in {"skipped", "failed"}, Settle(t, i, {r}),
           \A u \in Tasks \ {t} : pc'[u] = pc[u], UNCHANGED <<snap, state, steps>>
    PROVE  CompInv'
<1> USE CompTypes
<1>1. /\ results' = [results EXCEPT ![t] = @ \cup {r}] /\ todo' = [todo EXCEPT ![t] = @ \ {i}]
  BY DEF Settle
<1>2. results'[t] = results[t] \cup {r} /\ r \notin {"succeeded"} BY <1>1
<1>3. i \in 1..Len(snap[t]) OBVIOUS
<1>4. snap[t] # <<>>
  <2>1. Len(snap[t]) # 0 BY <1>3
  <2> QED BY <2>1
<1>5. ResultsTrue(t)' BY <1>2, <1>4 DEF ResultsTrue, Settling, Looping
<1>6. \A u \in Tasks \ {t} : todo'[u] = todo[u] /\ results'[u] = results[u] BY <1>1
<1> QED BY <1>5, <1>6, TurnKeeps

\* The list of records to undo starts as those that are not flagged.
LEMMA CompMark ==
    ASSUME TypeInv, CompInv, NEW t \in Tasks, compensate_mark(t) PROVE CompInv'
<1> USE CompTypes
<1>0. pc[t] = "c_mark" BY DEF compensate_mark, At
<1>1. CASE db = "up"
  <2>1. /\ state' = "compensating" /\ pc' = [pc EXCEPT ![t] = "c_step"]
        /\ todo' = [todo EXCEPT ![t] = {i \in 1..Len(snap[t]) : ~snap[t][i].compensated}]
        /\ UNCHANGED <<snap, results>>
    BY <1>1 DEF compensate_mark, WriteRow, Goto
  <2>2. todo'[t] = {i \in 1..Len(snap[t]) : ~snap[t][i].compensated} BY <2>1
  <2>3. \A i \in 1..Len(snap[t]) : i \in todo'[t] \/ Done(snap[t][i]) BY <2>2 DEF Done
  <2>4. ASSUME ~BreakerOpens PROVE ResultsTrue(t)'
    <3>1. results[t] = {} BY <1>0, <2>4 DEF CompInv, ResultsTrue, Settling, Looping
    <3> QED BY <2>1, <2>3, <3>1 DEF ResultsTrue, Settling, Looping
  <2>5. /\ state' # "compensated"
        /\ \A u \in Tasks \ {t} : /\ pc'[u] = pc[u] /\ todo'[u] = todo[u]
                                  /\ snap'[u] = snap[u] /\ results'[u] = results[u]
    BY <2>1
  <2> QED BY <2>4, <2>5, TurnKeeps
<1>2. CASE db # "up"
  <2>1. Settled(t)
    BY <1>0, <1>2 DEF compensate_mark, Settled, Settling, Looping, Goto
  <2> QED BY <2>1, SettledKeeps
<1> QED BY <1>1, <1>2

\* The record in hand is flagged before it is settled.
LEMMA CompUndo ==
    ASSUME TypeInv, CompInv, NEW t \in Tasks, compensate_step_ok(t) PROVE CompInv'
<1> USE CompTypes
<1>0. /\ pc[t] = "c_call" /\ pc' = [pc EXCEPT ![t] = "c_history"]
      /\ UNCHANGED <<state, steps, todo, results>>
  BY DEF compensate_step_ok, At, Goto
<1>1. PICK i \in todo[t] : Last(t, i) /\ snap' = [snap EXCEPT ![t][i].compensated = TRUE]
  BY DEF compensate_step_ok
<1>2. i \in 1..Len(snap[t]) /\ snap[t] \in Seq(StepRecord) OBVIOUS
<1>3. snap'[t] = Flagged(snap[t], i) /\ \A u \in Tasks \ {t} : snap'[u] = snap[u]
  BY <1>1 DEF Flagged
<1>4. Len(snap'[t]) = Len(snap[t]) /\ snap'[t] \in Seq(StepRecord) BY <1>2, <1>3, FlaggedType
<1>5. /\ snap'[t][i].compensated = TRUE
      /\ \A j \in 1..Len(snap[t]) : j # i => snap'[t][j] = snap[t][j]
  <2>1. snap[t][i] \in StepRecord BY <1>2
  <2> QED BY <1>2, <1>3, <2>1 DEF Flagged, StepRecord
<1>6. snap'[t] # <<>>
  <2>1. Len(snap'[t]) # 0 BY <1>2, <1>4
  <2> QED BY <2>1
<1>7. ASSUME ~BreakerOpens PROVE ResultsTrue(t)'
  <2>1. ResultsTrue(t) BY <1>7 DEF CompInv
  <2>2. results'[t] # {} => pc'[t] \in Settling /\ snap'[t] # <<>>
    BY <1>0, <1>6 DEF Settling, Looping
  <2>3. ASSUME results'[t] \subseteq {"succeeded"}, NEW j \in 1..Len(snap'[t])
        PROVE  j \in todo'[t] \/ Done(snap'[t][j])
    <3>1. results[t] \subseteq {"succeeded"} /\ j \in 1..Len(snap[t]) BY <1>0, <1>4, <2>3
    <3>2. CASE j = i BY <1>0, <3>2
    <3>3. CASE j # i BY <1>0, <1>5, <2>1, <3>1, <3>3, Zenon DEF ResultsTrue, Looping
    <3> QED BY <3>2, <3>3
  <2>4. ASSUME NEW j \in todo'[t], Last(t, j)' PROVE snap'[t][j].compensated
    <3>1. j \in todo[t] /\ Last(t, j) BY <1>0, <2>4 DEF Last
    <3>2. j = i BY <1>1, <3>1, LastIsUnique
    <3> QED BY <1>5, <3>2
  <2> QED BY <2>2, <2>3, <2>4 DEF ResultsTrue
<1>8. \A u \in Tasks \ {t} : pc'[u] = pc[u] /\ todo'[u] = todo[u] /\ results'[u] = results[u]
  BY <1>0
<1> QED BY <1>0, <1>3, <1>7, <1>8, TurnKeeps

\* It is settled as succeeded only when it is flagged.
LEMMA CompIdem ==
    ASSUME TypeInv, CompInv, NEW t \in Tasks, compensate_idem(t) PROVE CompInv'
<1> USE CompTypes
<1>0. /\ pc[t] = "c_idem" /\ pc' = [pc EXCEPT ![t] = "c_step"]
      /\ UNCHANGED <<state, steps, snap>>
  BY DEF compensate_idem, At, Goto
<1>1. PICK i \in todo[t] :
         Last(t, i) /\ (Settle(t, i, {"succeeded"}) \/ Settle(t, i, {"failed"}))
  BY DEF compensate_idem
<1>2. PICK r \in {"succeeded", "failed"} : Settle(t, i, {r}) BY <1>1
<1>3. /\ results' = [results EXCEPT ![t] = @ \cup {r}] /\ todo' = [todo EXCEPT ![t] = @ \ {i}]
  BY <1>2 DEF Settle
<1>4. results'[t] = results[t] \cup {r} /\ todo'[t] = todo[t] \ {i} BY <1>3
<1>5. snap[t] # <<>>
  <2>1. i \in 1..Len(snap[t]) OBVIOUS
  <2>2. Len(snap[t]) # 0 BY <2>1
  <2> QED BY <2>2
<1>6. ASSUME ~BreakerOpens PROVE ResultsTrue(t)'
  <2>1. ResultsTrue(t) BY <1>6 DEF CompInv
  <2>2. snap[t][i].compensated BY <1>0, <1>1, <2>1, Zenon DEF ResultsTrue
  <2>3. ASSUME results'[t] \subseteq {"succeeded"}, NEW j \in 1..Len(snap[t])
        PROVE  j \in todo'[t] \/ Done(snap[t][j])
    <3>1. results[t] \subseteq {"succeeded"} BY <1>4, <2>3
    <3>2. j \in todo[t] \/ Done(snap[t][j])
      BY <1>0, <2>1, <3>1, Zenon DEF ResultsTrue, Looping
    <3>3. CASE j = i BY <2>2, <3>3, Zenon DEF Done
    <3>4. CASE j # i BY <1>4, <3>2, <3>4, Zenon
    <3> QED BY <3>3, <3>4
  <2> QED BY <1>0, <1>5, <2>3 DEF ResultsTrue, Settling, Looping
<1>7. \A u \in Tasks \ {t} : /\ pc'[u] = pc[u] /\ todo'[u] = todo[u]
                              /\ snap'[u] = snap[u] /\ results'[u] = results[u]
  BY <1>0, <1>3
<1> QED BY <1>0, <1>6, <1>7, TurnKeeps

\* Only succeeded results, and at least one, make the row compensated.
LEMMA CompFinish ==
    ASSUME TypeInv, CompInv, NEW t \in Tasks, compensate_finish(t) PROVE CompInv'
<1> USE CompTypes
<1>0. pc[t] = "c_step" /\ todo[t] = {} /\ UNCHANGED <<snap, todo, results>>
  BY DEF compensate_finish, At
<1>1. CASE db = "up" /\ results[t] = {"succeeded"}
  <2>1. /\ state' = "compensated" /\ steps' = snap[t]
        /\ pc' = [pc EXCEPT ![t] = "c_summary"]
    BY <1>1 DEF compensate_finish, WriteRow, FinalState, Goto
  <2> SUFFICES ASSUME ~BreakerOpens PROVE CompInv' BY DEF CompInv
  <2>2. ResultsTrue(t) BY DEF CompInv
  <2>3. snap[t] # <<>> BY <1>1, <2>2 DEF ResultsTrue
  <2>4. AllDone(snap[t]) BY <1>0, <1>1, <2>2 DEF ResultsTrue, AllDone, Looping
  <2>5. (state = "compensated" => steps # <<>> /\ AllDone(steps))'
    BY <2>1, <2>3, <2>4 DEF AllDone
  <2>6. ASSUME NEW u \in Tasks PROVE ResultsTrue(u)'
    <3>1. ResultsTrue(u) BY DEF CompInv
    <3>2. CASE u # t BY <1>0, <2>1, <3>1, <3>2 DEF ResultsTrue, Last
    <3>3. CASE u = t BY <1>0, <2>1, <2>3, <3>3 DEF ResultsTrue, Settling, Looping
    <3> QED BY <3>2, <3>3
  <2> QED BY <2>5, <2>6 DEF CompInv
<1>2. CASE ~(db = "up" /\ results[t] = {"succeeded"})
  <2>1. /\ UNCHANGED <<state, steps>> \/ state' # "compensated"
        /\ pc' = [pc EXCEPT ![t] = "c_summary"] \/ pc' = [pc EXCEPT ![t] = "c_abort"]
    BY <1>2 DEF compensate_finish, WriteRow, FinalState, Goto
  <2>2. Settled(t) BY <1>0, <2>1 DEF Settled, Settling, Looping
  <2> QED BY <2>2, SettledKeeps
<1> QED BY <1>1, <1>2

\* With the breakers closed, a record is passed over only for want of a method.
LEMMA CompPass ==
    ASSUME TypeInv, CompInv, NEW t \in Tasks, compensate_pass(t) PROVE CompInv'
<1> USE CompTypes
<1>0. pc[t] = "c_step" /\ UNCHANGED <<state, steps, pc, snap>>
  BY DEF compensate_pass, At, shared
<1> SUFFICES ASSUME ~BreakerOpens PROVE CompInv' BY DEF CompInv
<1>1. PICK i \in todo[t] : snap[t][i].name \notin Undoable /\ Settle(t, i, {})
  BY DEF compensate_pass
<1>2. /\ results'[t] = results[t] /\ todo'[t] = todo[t] \ {i}
      /\ \A u \in Tasks \ {t} : todo'[u] = todo[u] /\ results'[u] = results[u]
  BY <1>1 DEF Settle
<1>3. ResultsTrue(t) BY DEF CompInv
<1>4. ASSUME results[t] \subseteq {"succeeded"}, NEW j \in 1..Len(snap[t])
      PROVE  j \in todo'[t] \/ Done(snap[t][j])
  <2>1. j \in todo[t] \/ Done(snap[t][j])
    BY <1>0, <1>3, <1>4, Zenon DEF ResultsTrue, Looping
  <2>2. CASE j = i BY <1>1, <2>2 DEF Done
  <2>3. CASE j # i BY <1>2, <2>1, <2>3
  <2> QED BY <2>2, <2>3
<1>5. ResultsTrue(t)'
  <2>1. results[t] # {} => snap[t] # <<>> BY <1>3 DEF ResultsTrue
  <2> QED BY <1>0, <1>2, <1>4, <2>1 DEF ResultsTrue, Settling, Looping
<1> QED BY <1>0, <1>2, <1>5, TurnKeeps

\* To ask an adapter settles nothing.
LEMMA CompAsk ==
    ASSUME TypeInv, CompInv, NEW t \in Tasks, compensate_call(t) \/ compensate_step_retry(t)
    PROVE  CompInv'
<1> USE CompTypes
<1>0. /\ pc[t] \in {"c_step", "c_call"} /\ pc'[t] = "c_call"
      /\ UNCHANGED <<state, steps, snap, todo, results>>
      /\ \A u \in Tasks \ {t} : pc'[u] = pc[u]
  BY DEF compensate_call, compensate_step_retry, At, Goto
<1>1. ASSUME ~BreakerOpens PROVE ResultsTrue(t)'
  <2>1. ResultsTrue(t) BY <1>1 DEF CompInv
  <2> QED BY <1>0, <2>1 DEF ResultsTrue, Settling, Looping
<1> QED BY <1>0, <1>1, TurnKeeps

\* Every step of _compensate_saga keeps the promise.
LEMMA CompCompensate ==
    ASSUME TypeInv, CompInv, NEW t \in Tasks, CompensateStep(t) PROVE CompInv'
<1> USE CompTypes DEF Settled, Settling, Looping, At, Goto, WriteRow, shared, budget
<1>1. CASE compensate_read(t) BY <1>1, SettledKeeps DEF compensate_read
<1>2. CASE compensate_acquired(t) BY <1>2, SettledKeeps DEF compensate_acquired
<1>3. CASE compensate_busy(t) BY <1>3, EndIsSettled, SettledKeeps DEF compensate_busy
<1>4. CASE compensate_mark(t) BY <1>4, CompMark
<1>5. CASE compensate_skip(t)
  <2>1. PICK i \in todo[t] : Settle(t, i, {"skipped"}) BY <1>5 DEF compensate_skip
  <2>2. pc'[t] = "c_step" /\ UNCHANGED <<pc, snap, state, steps>> BY <1>5 DEF compensate_skip
  <2> QED BY <2>1, <2>2, SettleFails
<1>6. CASE compensate_pass(t) BY <1>6, CompPass
<1>7. CASE compensate_step_ok(t) BY <1>7, CompUndo
<1>8. CASE compensate_step_error(t)
  <2>1. PICK i \in todo[t] : Settle(t, i, {"failed"}) BY <1>8 DEF compensate_step_error
  <2>2. /\ pc'[t] = "c_step" /\ UNCHANGED <<snap, state, steps>>
        /\ \A u \in Tasks \ {t} : pc'[u] = pc[u]
    BY <1>8 DEF compensate_step_error
  <2> QED BY <2>1, <2>2, SettleFails
<1>9. CASE compensate_history(t)
  <2>1. pc[t] = "c_history" /\ pc' = [pc EXCEPT ![t] = "c_idem"]
        /\ UNCHANGED <<state, steps, snap, todo, results>>
    BY <1>9 DEF compensate_history
  <2>2. ASSUME ~BreakerOpens PROVE ResultsTrue(t)'
    <3>1. ResultsTrue(t) BY <2>2 DEF CompInv
    <3> QED BY <2>1, <3>1 DEF ResultsTrue, Last
  <2>3. \A u \in Tasks \ {t} : /\ pc'[u] = pc[u] /\ todo'[u] = todo[u]
                                /\ snap'[u] = snap[u] /\ results'[u] = results[u]
    BY <2>1
  <2> QED BY <2>1, <2>2, <2>3, TurnKeeps
<1>10. CASE compensate_idem(t) BY <1>10, CompIdem
<1>11. CASE compensate_finish(t) BY <1>11, CompFinish
<1>12. CASE compensate_summary(t)
  <2>1. CASE db = "up" BY <1>12, <2>1, EndIsSettled, SettledKeeps DEF compensate_summary
  <2>2. CASE db # "up" BY <1>12, <2>2, SettledKeeps DEF compensate_summary
  <2> QED BY <2>1, <2>2
<1>13. CASE compensate_abort(t) BY <1>13, EndIsSettled, SettledKeeps DEF compensate_abort
<1>14. CASE compensate_call(t) BY <1>14, CompAsk
<1>15. CASE compensate_step_retry(t) BY <1>15, CompAsk
<1> QED BY <1>1, <1>2, <1>3, <1>4, <1>5, <1>6, <1>7, <1>8, <1>9, <1>10, <1>11, <1>12, <1>13,
        <1>14, <1>15 DEF CompensateStep

\* The environment touches no compensation.
LEMMA CompEnvironment ==
    ASSUME CompInv, Environment \/ UNCHANGED vars PROVE CompInv'
<1>1. /\ UNCHANGED <<pc, todo, snap, results, steps>>
      /\ state' = state \/ state' # "compensated"
  BY DEF Environment, archive_waiting_confirm, lock_expire, db_fails, db_returns, saga_expires,
     idempotency_expires, vars, shared, locals
<1> QED BY <1>1 DEF CompInv, ResultsTrue, AllDone, Last

\* The results of a compensation never promise more than the adapters answered.
THEOREM CompInvariant == Spec => []CompInv
<1>1. Init => CompInv BY DEF Init, CompInv, ResultsTrue, Looping
<1>2. TypeInv /\ CompInv /\ [Next]_vars => CompInv'
  <2> SUFFICES ASSUME TypeInv, CompInv, [Next]_vars PROVE CompInv' OBVIOUS
  <2>1. ASSUME NEW t \in Tasks, Start(t) \/ Run(t) \/ CompensateStep(t) PROVE CompInv'
    BY <2>1, CompStart, CompRun, CompCompensate
  <2>2. ASSUME NEW t \in Tasks, Resume(t) \/ Recover(t) \/ crash(t) PROVE CompInv'
    BY <2>2, CompResume, CompRecover
  <2>3. CASE Environment \/ UNCHANGED vars BY <2>3, CompEnvironment
  <2> QED BY <2>1, <2>2, <2>3 DEF Next
<1> QED BY <1>1, <1>2, TypeInvariant, PTL DEF Spec

\* For any flow, and whatever crashes, outages, retries, races and replays there
\* were: with the breakers closed, a row that says compensated lists at least one
\* step, and the adapter of each that has a compensate method has answered it.
THEOREM CompensatedIsAnsweredHolds == Spec => []CompensatedIsAnswered
<1>1. CompInv /\ FaithInv => CompensatedIsAnswered
  BY DEF CompInv, FaithInv, Faithful, AllDone, Done, CompensatedIsAnswered
<1> QED BY <1>1, CompInvariant, FaithInvariant, PTL

-----------------------------------------------------------------------------
(* No recovery has a step of a flow undone that has succeeded.               *)

\* The task that inserted the row, until it has written the outcome.
Runner(t) ==
    \/ pc[t] \in {"s_record", "s_cas", "s_release"} /\ mine[t]
    \/ pc[t] \in {"r_timeout", "r_fetch", "r_mark", "r_step", "r_finish"}

AllStand == \A e \in 1..Len(world) : world[e].standing

\* Before there is a row, nobody runs and nobody knows of a step.
AbsentInv ==
    state = "absent" => /\ steps = <<>> /\ AllStand
                        /\ \A t \in Tasks : ~Runner(t) /\ snap[t] = <<>>
\* As long as a task runs, it is the only one, and only it knows of a step.
RunnerInv == \A t \in Tasks : Runner(t) =>
    /\ steps = <<>> /\ AllStand /\ (pc[t] = "r_mark" => snap[t] = <<>>)
    /\ \A u \in Tasks \ {t} : ~Runner(u) /\ snap[u] = <<>>
\* A compensation that is under way when the runner succeeds has nothing to undo.
LoopInv == \A t \in Tasks : state = "succeeded" /\ pc[t] \in Looping => snap[t] = <<>>
RowInv ==
    state = "succeeded" =>
        \A i \in 1..Len(steps) : world[steps[i].eff].standing

SoleInv == replays = 0 /\ ~Pauses =>
    /\ \A t \in Tasks : pc[t] # "p_mark"
    /\ AbsentInv /\ RunnerInv /\ LoopInv /\ RowInv

\* A step of a task that starts no run, calls no adapter, and writes the row, if
\* at all, with what it has in memory and without success.
Bystander(t) ==
    /\ Upright /\ Len(world') = Len(world) /\ replays' = replays /\ (Runner(t)' => Runner(t))
    /\ \A u \in Tasks \ {t} : pc'[u] = pc[u] /\ mine'[u] = mine[u] /\ snap'[u] = snap[u]
    /\ snap'[t] \in {snap[t], steps, <<>>} /\ steps' \in {steps, snap[t]}
    /\ Runner(t)' /\ steps' # steps => pc[t] = "r_mark"
    /\ state' = "absent" => state = "absent"
    /\ state' = "succeeded" => state = "succeeded" /\ steps' = steps
    /\ pc'[t] # "p_mark" /\ (pc'[t] = "r_mark" => snap'[t] = steps)
    /\ pc'[t] \in Looping => \/ pc[t] \in Looping /\ snap'[t] = snap[t]
                             \/ state' # "succeeded"

\* A bystander keeps what the runner relies on.
LEMMA BystanderKeeps ==
    ASSUME TypeInv, SoleInv, NEW t \in Tasks, Bystander(t) PROVE SoleInv'
<1> SUFFICES ASSUME replays' = 0, ~Pauses PROVE SoleInv' BY DEF SoleInv
<1>0. /\ AbsentInv /\ RunnerInv /\ LoopInv /\ RowInv
      /\ \A u \in Tasks : pc[u] # "p_mark"
  BY DEF SoleInv, Bystander
<1>1. \A u \in Tasks : Runner(u)' => Runner(u) BY DEF Bystander, Runner
<1>2. AllStand => AllStand' BY DEF AllStand, Bystander, Upright
<1>3. \A u \in Tasks : pc'[u] # "p_mark" BY <1>0 DEF Bystander
<1>4. AbsentInv'
  <2> SUFFICES ASSUME state' = "absent"
               PROVE  /\ steps' = <<>> /\ AllStand'
                      /\ \A u \in Tasks : ~Runner(u)' /\ snap'[u] = <<>>
    BY DEF AbsentInv
  <2>1. /\ steps = <<>> /\ AllStand
        /\ \A u \in Tasks : ~Runner(u) /\ snap[u] = <<>>
    BY <1>0 DEF AbsentInv, Bystander
  <2>2. steps' = <<>> /\ \A u \in Tasks : snap'[u] = <<>> BY <2>1 DEF Bystander
  <2> QED BY <1>1, <1>2, <2>1, <2>2
<1>5. RunnerInv'
  <2> SUFFICES ASSUME NEW v \in Tasks, Runner(v)'
               PROVE  /\ steps' = <<>> /\ AllStand' /\ (pc'[v] = "r_mark" => snap'[v] = <<>>)
                      /\ \A u \in Tasks \ {v} : ~Runner(u)' /\ snap'[u] = <<>>
    BY DEF RunnerInv
  <2>1. /\ steps = <<>> /\ AllStand /\ (pc[v] = "r_mark" => snap[v] = <<>>)
        /\ \A u \in Tasks \ {v} : ~Runner(u) /\ snap[u] = <<>>
    BY <1>0, <1>1 DEF RunnerInv
  <2>2. steps' = <<>>
    <3>1. CASE v = t BY <2>1, <3>1 DEF Bystander
    <3>2. CASE v # t BY <2>1, <3>2 DEF Bystander
    <3> QED BY <3>1, <3>2
  <2>3. pc'[v] = "r_mark" => snap'[v] = <<>> BY <2>1 DEF Bystander
  <2>4. \A u \in Tasks \ {v} : snap'[u] = <<>> BY <2>1 DEF Bystander
  <2> QED BY <1>1, <1>2, <2>1, <2>2, <2>3, <2>4
<1>6. LoopInv'
  <2> SUFFICES ASSUME NEW u \in Tasks, state' = "succeeded", pc'[u] \in Looping
               PROVE  snap'[u] = <<>>
    BY DEF LoopInv
  <2>1. state = "succeeded" BY DEF Bystander
  <2>2. CASE u = t BY <1>0, <2>1, <2>2 DEF LoopInv, Bystander
  <2>3. CASE u # t BY <1>0, <2>1, <2>3 DEF LoopInv, Bystander
  <2> QED BY <2>2, <2>3
<1>7. RowInv'
  <2>1. InRange(steps) BY DEF TypeInv, RowOK
  <2> QED BY <1>0, <2>1 DEF RowInv, Bystander, Upright, InRange
<1> QED BY <1>3, <1>4, <1>5, <1>6, <1>7 DEF SoleInv

\* The types this argument needs.
LEMMA SoleTypes ==
    TypeInv => /\ pc \in [Tasks -> Pc] /\ mine \in [Tasks -> BOOLEAN] /\ state \in SagaState
               /\ snap \in [Tasks -> Seq(StepRecord)]
               /\ \A t \in Tasks : todo[t] \subseteq 1..Len(snap[t])
BY DEF TypeInv, LocalsOK, ControlOK, RowOK, RecordsOK, TodoOK

\* The INSERT makes the first runner.
LEMMA SoleInsert ==
    ASSUME TypeInv, SoleInv, NEW t \in Tasks, start_saga_insert(t) PROVE SoleInv'
<1> USE SoleTypes
<1>0. /\ pc[t] = "s_insert" /\ UNCHANGED <<steps, world, snap, replays>>
      /\ \A u \in Tasks \ {t} : pc'[u] = pc[u] /\ mine'[u] = mine[u]
      /\ pc'[t] \in {"s_record", "s_raise"}
  BY DEF start_saga_insert, At, Goto, budget
<1>1. CASE state = "absent" /\ db = "up"
  <2> SUFFICES ASSUME replays = 0, ~Pauses PROVE SoleInv' BY <1>0 DEF SoleInv
  <2>1. state' = "pending" BY <1>1 DEF start_saga_insert
  <2>2. /\ steps = <<>> /\ AllStand
        /\ \A u \in Tasks : ~Runner(u) /\ snap[u] = <<>>
    BY <1>1 DEF SoleInv, AbsentInv
  <2>3. \A u \in Tasks \ {t} : ~Runner(u)' BY <1>0, <2>2 DEF Runner
  <2>4. \A u \in Tasks : pc'[u] # "p_mark" BY <1>0 DEF SoleInv
  <2>5. AllStand' BY <1>0, <2>2 DEF AllStand
  <2>6. RunnerInv' BY <1>0, <2>2, <2>3, <2>5 DEF RunnerInv
  <2> QED BY <2>1, <2>4, <2>6 DEF SoleInv, AbsentInv, LoopInv, RowInv
<1>2. CASE ~(state = "absent" /\ db = "up")
  <2>1. state' = state /\ (mine'[t] = FALSE \/ pc'[t] = "s_raise")
    BY <1>2 DEF start_saga_insert, Goto
  <2>2. Bystander(t) BY <1>0, <2>1 DEF Bystander, Upright, Runner, Looping
  <2> QED BY <2>2, BystanderKeeps
<1> QED BY <1>1, <1>2

\* Only the INSERT makes a runner.
LEMMA SoleStart == ASSUME TypeInv, SoleInv, NEW t \in Tasks, Start(t) PROVE SoleInv'
<1> USE SoleTypes DEF Bystander, Upright, Runner, Looping, At, Goto, Return, shared, budget
<1>1. CASE start_saga(t) BY <1>1, BystanderKeeps DEF start_saga
<1>2. CASE start_saga_check(t) BY <1>2, BystanderKeeps DEF start_saga_check
<1>3. CASE start_saga_acquired(t) BY <1>3, BystanderKeeps DEF start_saga_acquired
<1>4. CASE start_saga_busy(t) BY <1>4, BystanderKeeps DEF start_saga_busy
<1>5. CASE start_saga_insert(t) BY <1>5, SoleInsert
<1>6. CASE start_saga_record(t) BY <1>6, BystanderKeeps DEF start_saga_record
<1>7. CASE start_saga_cas(t)
  <2>1. mine'[t] => mine[t] BY <1>7 DEF start_saga_cas
  <2>2. state' = state \/ state' = "in_progress" BY <1>7 DEF start_saga_cas
  <2>3. /\ pc[t] = "s_cas" /\ pc'[t] \in {"s_raise", "s_release"}
        /\ UNCHANGED <<steps, world, snap, replays>>
        /\ \A u \in Tasks \ {t} : pc'[u] = pc[u] /\ mine'[u] = mine[u]
    BY <1>7 DEF start_saga_cas
  <2> QED BY <2>1, <2>2, <2>3, BystanderKeeps
<1>8. CASE start_saga_release(t) BY <1>8, BystanderKeeps DEF start_saga_release
<1> QED BY <1>1, <1>2, <1>3, <1>4, <1>5, <1>6, <1>7, <1>8 DEF Start

\* The runner executes a step of the plan.
LEMMA SoleFlow ==
    ASSUME TypeInv, SoleInv, NEW t \in Tasks, flow_step_ok(t) PROVE SoleInv'
<1> USE SoleTypes
<1>0. /\ pc[t] = "r_step" /\ UNCHANGED <<state, steps, replays, mine>>
      /\ \A u \in Tasks \ {t} : pc'[u] = pc[u] /\ snap'[u] = snap[u]
  BY DEF flow_step_ok, At, Goto, budget
<1> SUFFICES ASSUME replays = 0, ~Pauses PROVE SoleInv' BY <1>0 DEF SoleInv
<1>1. pc'[t] \in {"r_step", "r_finish"} BY <1>0 DEF flow_step_ok, Goto
<1>2. /\ steps = <<>> /\ AllStand
      /\ \A u \in Tasks \ {t} : ~Runner(u) /\ snap[u] = <<>>
  BY <1>0 DEF SoleInv, RunnerInv, Runner
<1>3. AllStand'
  <2> DEFINE x == NewEffect(Plan[at[t]])
  <2>1. at[t] \in 1..Len(Plan) BY DEF TypeInv, LocalsOK, ControlOK
  <2>2. x \in Effect BY <2>1, PlanAssumption DEF NewEffect, Effect
  <2>3. x.standing BY DEF NewEffect
  <2>4. world \in Seq(Effect) /\ world' = Append(world, x) BY DEF flow_step_ok, TypeInv, RowOK
  <2> HIDE DEF x
  <2>5. /\ Len(world') = Len(world) + 1 /\ world'[Len(world) + 1] = x
        /\ \A e \in 1..Len(world) : world'[e] = world[e]
    BY <2>2, <2>4
  <2>6. ASSUME NEW e \in 1..Len(world') PROVE world'[e].standing
    <3>1. e \in 1..Len(world) \/ e = Len(world) + 1 BY <2>4, <2>5, SMTT(20)
    <3>2. CASE e \in 1..Len(world) BY <1>2, <2>5, <3>2 DEF AllStand
    <3>3. CASE e = Len(world) + 1 BY <2>3, <2>5, <3>3
    <3> QED BY <3>1, <3>2, <3>3
  <2> QED BY <2>6 DEF AllStand
<1>4. \A u \in Tasks \ {t} : ~Runner(u)' BY <1>0, <1>2 DEF Runner
<1>5. \A u \in Tasks : pc'[u] # "p_mark" BY <1>0, <1>1 DEF SoleInv
<1>6. state # "absent" BY <1>0 DEF SoleInv, AbsentInv, Runner
<1>7. RunnerInv' BY <1>0, <1>1, <1>2, <1>3, <1>4 DEF RunnerInv
<1>8. LoopInv' BY <1>0, <1>1, <1>2 DEF LoopInv, Looping
<1>9. RowInv' BY <1>0, <1>2 DEF RowInv
<1> QED BY <1>0, <1>5, <1>6, <1>7, <1>8, <1>9 DEF SoleInv, AbsentInv

\* The runner writes the outcome, and is gone.
LEMMA SoleFinish ==
    ASSUME TypeInv, SoleInv, NEW t \in Tasks, flow_finish(t) PROVE SoleInv'
<1> USE SoleTypes
<1>0. pc[t] = "r_finish" /\ UNCHANGED <<world, replays>>
  BY DEF flow_finish, At, budget
<1>1. CASE db = "up"
  <2> SUFFICES ASSUME replays = 0, ~Pauses PROVE SoleInv' BY <1>0 DEF SoleInv
  <2>1. /\ state' = "succeeded" /\ steps' = snap[t] /\ pc' = [pc EXCEPT ![t] = "idle"]
        /\ snap' = [snap EXCEPT ![t] = <<>>] /\ mine' = [mine EXCEPT ![t] = FALSE]
    BY <1>1 DEF flow_finish, WriteRow, Return, Goto
  <2>2. AllStand /\ \A u \in Tasks \ {t} : ~Runner(u) /\ snap[u] = <<>>
    BY <1>0 DEF SoleInv, RunnerInv, Runner
  <2>3. \A u \in Tasks : ~Runner(u)' BY <2>1, <2>2 DEF Runner
  <2>4. \A u \in Tasks : pc'[u] # "p_mark" BY <2>1 DEF SoleInv
  <2>5. LoopInv' BY <2>1, <2>2 DEF LoopInv, Looping
  <2>6. InRange(snap[t]) BY DEF TypeInv, LocalsOK, RecordsOK
  <2>7. RowInv' BY <1>0, <2>1, <2>2, <2>6 DEF RowInv, AllStand, InRange
  <2> QED BY <2>1, <2>3, <2>4, <2>5, <2>7 DEF SoleInv, AbsentInv, RunnerInv
<1>2. CASE db # "up"
  <2>1. Bystander(t)
    BY <1>0, <1>2 DEF flow_finish, AttemptCompensation, Compensate, Goto, Bystander, Upright,
       Runner, Looping
  <2> QED BY <2>1, BystanderKeeps
<1> QED BY <1>1, <1>2

\* The runner alone produces effects, and writes them with the outcome.
LEMMA SoleRun ==
    ASSUME TypeInv, NeverWaits, SoleInv, NEW t \in Tasks, Run(t) PROVE SoleInv'
<1> USE SoleTypes DEF Bystander, Upright, Runner, Looping, At, Goto, Return, WriteRow, Compensate,
        AttemptCompensation, shared, budget
<1>1. CASE run_saga_timeout(t) BY <1>1, BystanderKeeps DEF run_saga_timeout
<1>2. CASE run_saga_fetch(t)
  <2>1. \A e \in 1..Len(world) : world[e].standing => world'[e].standing
    BY <1>2, RepopulatedStands DEF run_saga_fetch, TypeInv, RowOK
  <2>2. world \in Seq(Effect) BY DEF TypeInv, RowOK
  <2>3. Len(world') = Len(world) BY <1>2, <2>2, RepopulatedType DEF run_saga_fetch
  <2>4. /\ UNCHANGED <<state, steps, replays>>
        /\ \/ pc'[t] = "idle" /\ snap'[t] = <<>>
           \/ pc'[t] = "r_mark" /\ snap'[t] = steps
        /\ \A u \in Tasks \ {t} : pc'[u] = pc[u] /\ mine'[u] = mine[u] /\ snap'[u] = snap[u]
    BY <1>2 DEF run_saga_fetch
  <2>5. pc[t] = "r_fetch" BY <1>2 DEF run_saga_fetch
  <2> QED BY <2>1, <2>3, <2>4, <2>5, BystanderKeeps
<1>3. CASE run_saga_mark(t) BY <1>3, BystanderKeeps DEF run_saga_mark
<1>4. CASE flow_step_ok(t) BY <1>4, SoleFlow
<1>5. CASE flow_step_error(t) BY <1>5, BystanderKeeps DEF flow_step_error
<1>6. CASE flow_step_breaker(t) BY <1>6, BystanderKeeps DEF flow_step_breaker
<1>7. CASE flow_save(t)
  <2>1. Pauses BY <1>7 DEF flow_save, NeverWaits
  <2> QED BY <2>1 DEF SoleInv
<1>8. CASE flow_finish(t) BY <1>8, SoleFinish
<1>9. CASE flow_fail(t) BY <1>9, BystanderKeeps DEF flow_fail
<1>10. CASE run_saga_except(t) BY <1>10, BystanderKeeps DEF run_saga_except
<1>11. CASE persist_dlq_message(t) BY <1>11, BystanderKeeps DEF persist_dlq_message
<1>12. CASE flow_step_partial(t) BY <1>12, BystanderKeeps DEF flow_step_partial
<1>13. CASE flow_partial(t)
  <2>1. /\ pc[t] = "r_partial" /\ UNCHANGED <<world, replays>>
        /\ UNCHANGED <<state, steps>> \/ (state' = "failed" /\ steps' = snap[t])
    BY <1>13 DEF flow_partial
  <2>2. pc'[t] \in {"idle", "c_read", "r_fail"} /\ snap'[t] \in {snap[t], <<>>}
    BY <1>13 DEF flow_partial
  <2>3. \A u \in Tasks \ {t} : pc'[u] = pc[u] /\ mine'[u] = mine[u] /\ snap'[u] = snap[u]
    <3>1. CASE Return(t) BY <3>1
    <3>2. CASE AttemptCompensation(t, snap[t]) /\ UNCHANGED mine BY <3>2
    <3> QED BY <1>13, <3>1, <3>2 DEF flow_partial
  <2> QED BY <2>1, <2>2, <2>3, BystanderKeeps
<1> QED BY <1>1, <1>2, <1>3, <1>4, <1>5, <1>6, <1>7, <1>8, <1>9, <1>10, <1>11, <1>12, <1>13
        DEF Run

\* A task that leaves _compensate_saga does not start to run.
LEMMA EndIsBystander ==
    ASSUME TypeInv, NEW t \in Tasks, CompensateReturns(t) \/ CompensateRaises(t)
    PROVE  /\ pc'[t] \in {"r_fail", "u_record", "idle", "d_persist", "r_raise"}
           /\ snap'[t] \in {snap[t], <<>>}
           /\ \A u \in Tasks \ {t} : pc'[u] = pc[u] /\ mine'[u] = mine[u] /\ snap'[u] = snap[u]
<1> USE SoleTypes DEF Leave, Return, Goto
<1>1. CASE CompensateReturns(t) BY <1>1 DEF CompensateReturns
<1>2. CASE CompensateRaises(t) BY <1>2 DEF CompensateRaises
<1> QED BY <1>1, <1>2

\* A task that has a step undone is neither the runner nor beside one, and the row
\* does not say succeeded.
LEMMA SoleUndo ==
    ASSUME TypeInv, SoleInv, NEW t \in Tasks,
           compensate_call(t) \/ compensate_step_retry(t) \/ compensate_step_ok(t)
    PROVE  SoleInv'
<1> USE SoleTypes
<1>0. /\ pc[t] \in {"c_step", "c_call"} /\ pc'[t] \in {"c_call", "c_history"}
      /\ \A u \in Tasks \ {t} : pc'[u] = pc[u]
      /\ UNCHANGED <<state, steps, mine, replays>>
  BY DEF compensate_call, compensate_step_retry, compensate_step_ok, At, Goto, budget
<1> SUFFICES ASSUME replays = 0, ~Pauses PROVE SoleInv' BY <1>0 DEF SoleInv
<1>1. PICK i : i \in todo[t]
  BY DEF compensate_call, compensate_step_retry, compensate_step_ok
<1>2. snap[t] # <<>>
  <2>1. i \in 1..Len(snap[t]) BY <1>1
  <2>2. Len(snap[t]) # 0 BY <2>1
  <2> QED BY <2>2
<1>3. state # "absent" /\ state # "succeeded"
  BY <1>0, <1>2 DEF SoleInv, AbsentInv, LoopInv, Looping
<1>4. \A u \in Tasks : ~Runner(u)
  <2>1. ~Runner(t) BY <1>0 DEF Runner
  <2> QED BY <1>2, <2>1 DEF SoleInv, RunnerInv
<1>5. \A u \in Tasks : ~Runner(u)' BY <1>0, <1>4 DEF Runner
<1>6. \A u \in Tasks : pc'[u] # "p_mark" BY <1>0 DEF SoleInv
<1> QED BY <1>0, <1>3, <1>5, <1>6 DEF SoleInv, AbsentInv, RunnerInv, LoopInv, RowInv

\* A compensation beside a runner finds nothing to undo.
LEMMA SoleCompensate ==
    ASSUME TypeInv, SoleInv, NEW t \in Tasks, CompensateStep(t) PROVE SoleInv'
<1> USE SoleTypes DEF Bystander, Upright, Runner, Looping, At, Goto, WriteRow, shared, budget
<1>1. CASE compensate_read(t) BY <1>1, BystanderKeeps DEF compensate_read
<1>2. CASE compensate_acquired(t) BY <1>2, BystanderKeeps DEF compensate_acquired
<1>3. CASE compensate_busy(t) BY <1>3, EndIsBystander, BystanderKeeps DEF compensate_busy
<1>4. CASE compensate_mark(t) BY <1>4, BystanderKeeps DEF compensate_mark
<1>5. CASE compensate_skip(t) BY <1>5, BystanderKeeps DEF compensate_skip
<1>6. CASE compensate_pass(t) BY <1>6, BystanderKeeps DEF compensate_pass
<1>7. CASE compensate_step_ok(t) BY <1>7, SoleUndo
<1>8. CASE compensate_step_error(t) BY <1>8, BystanderKeeps DEF compensate_step_error
<1>9. CASE compensate_history(t) BY <1>9, BystanderKeeps DEF compensate_history
<1>10. CASE compensate_idem(t) BY <1>10, BystanderKeeps DEF compensate_idem
<1>11. CASE compensate_finish(t)
  BY <1>11, BystanderKeeps DEF compensate_finish, FinalState
<1>12. CASE compensate_summary(t)
  <2>1. CASE db = "up" BY <1>12, <2>1, EndIsBystander, BystanderKeeps DEF compensate_summary
  <2>2. CASE db # "up" BY <1>12, <2>2, BystanderKeeps DEF compensate_summary
  <2> QED BY <2>1, <2>2
<1>13. CASE compensate_abort(t)
  BY <1>13, EndIsBystander, BystanderKeeps DEF compensate_abort
<1>14. CASE compensate_call(t) BY <1>14, SoleUndo
<1>15. CASE compensate_step_retry(t) BY <1>15, SoleUndo
<1> QED BY <1>1, <1>2, <1>3, <1>4, <1>5, <1>6, <1>7, <1>8, <1>9, <1>10, <1>11, <1>12, <1>13,
        <1>14, <1>15 DEF CompensateStep

\* A flow that does not pause is never confirmed.
LEMMA SoleResume ==
    ASSUME TypeInv, NeverWaits, SoleInv, NEW t \in Tasks, Resume(t) PROVE SoleInv'
<1> USE SoleTypes DEF Bystander, Upright, Runner, Looping, At, Goto, Return, WriteRow, Compensate,
        shared, budget
<1>1. CASE resume_saga(t) BY <1>1, BystanderKeeps DEF resume_saga
<1>2. CASE resume_saga_check(t) BY <1>2, BystanderKeeps DEF resume_saga_check
<1>3. CASE resume_saga_acquired(t) BY <1>3, BystanderKeeps DEF resume_saga_acquired
<1>4. CASE resume_saga_busy(t) BY <1>4, BystanderKeeps, ZenonT(30) DEF resume_saga_busy
<1>5. CASE resume_saga_timeout(t) BY <1>5, BystanderKeeps DEF resume_saga_timeout
<1>6. CASE resume_saga_fetch(t) BY <1>6, BystanderKeeps DEF resume_saga_fetch
<1>7. CASE booking_confirm_ok(t)
  <2>1. Pauses BY <1>7 DEF booking_confirm_ok, NeverWaits
  <2> QED BY <2>1 DEF SoleInv
<1>8. CASE booking_confirm_error(t)
  <2>1. Pauses BY <1>8 DEF booking_confirm_error, NeverWaits
  <2> QED BY <2>1 DEF SoleInv
<1>9. CASE booking_confirm_breaker(t) BY <1>9, BystanderKeeps DEF booking_confirm_breaker
<1>10. CASE booking_succeed(t)
  <2>1. Pauses BY <1>10 DEF booking_succeed, NeverWaits
  <2> QED BY <2>1 DEF SoleInv
<1>11. CASE resume_saga_record(t) BY <1>11, BystanderKeeps DEF resume_saga_record
<1>12. CASE resume_saga_except(t) BY <1>12, BystanderKeeps DEF resume_saga_except
<1>13. CASE resume_saga_release(t) BY <1>13, BystanderKeeps DEF resume_saga_release
<1> QED BY <1>1, <1>2, <1>3, <1>4, <1>5, <1>6, <1>7, <1>8, <1>9, <1>10, <1>11, <1>12, <1>13
        DEF Resume

\* Recovery only reads the row; a replay is outside the promise.
LEMMA SoleRecover ==
    ASSUME TypeInv, SoleInv, NEW t \in Tasks, Recover(t) \/ crash(t) PROVE SoleInv'
<1> USE SoleTypes DEF Bystander, Upright, Runner, Looping, At, Goto, Return, WriteRow, Compensate,
        shared, budget
<1>1. CASE recover_stuck_saga(t) BY <1>1, BystanderKeeps DEF recover_stuck_saga
<1>2. CASE recover_check(t)
  <2>1. /\ pc[t] = "v_check" /\ pc'[t] \in {"c_read", "idle"} /\ UNCHANGED shared /\ replays' = replays
        /\ snap'[t] \in {steps, <<>>}
    BY <1>2 DEF recover_check
  <2>2. \A u \in Tasks \ {t} : pc'[u] = pc[u] /\ mine'[u] = mine[u] /\ snap'[u] = snap[u]
    <3>1. CASE Return(t) BY <3>1
    <3>2. CASE Compensate(t, steps, "recover") /\ UNCHANGED mine BY <3>2
    <3> QED BY <1>2, <3>1, <3>2 DEF recover_check
  <2> QED BY <2>1, <2>2, BystanderKeeps
<1>3. CASE operator_recover(t) BY <1>3, BystanderKeeps DEF operator_recover
<1>4. CASE replay_saga(t)
  <2>1. replays \in Nat BY DEF TypeInv, CountsOK
  <2>2. replays' # 0 BY <1>4, <2>1 DEF replay_saga
  <2> QED BY <2>2 DEF SoleInv
<1>5. CASE replay_mark(t)
  <2>1. replays' = replays /\ pc[t] = "p_mark" BY <1>5 DEF replay_mark
  <2> QED BY <2>1 DEF SoleInv
<1>6. CASE crash(t) BY <1>6, BystanderKeeps DEF crash
<1> QED BY <1>1, <1>2, <1>3, <1>4, <1>5, <1>6 DEF Recover

\* The environment neither runs nor undoes.
LEMMA SoleEnvironment ==
    ASSUME SoleInv, Environment \/ UNCHANGED vars PROVE SoleInv'
<1>1. /\ UNCHANGED <<pc, snap, mine, steps, world, replays>>
      /\ state' = state \/ state' = "archived"
  BY DEF Environment, archive_waiting_confirm, lock_expire, db_fails, db_returns, saga_expires,
     idempotency_expires, vars, shared, locals, budget
<1> QED BY <1>1 DEF SoleInv, AbsentInv, RunnerInv, LoopInv, RowInv, AllStand, Runner

\* As long as nobody replays, one task runs the plan and knows of its steps.
THEOREM SoleInvariant == Spec => []SoleInv
<1>1. Init => SoleInv
  BY DEF Init, SoleInv, AbsentInv, RunnerInv, LoopInv, RowInv, AllStand, Runner
<1>2. TypeInv /\ NeverWaits /\ SoleInv /\ [Next]_vars => SoleInv'
  <2> SUFFICES ASSUME TypeInv, NeverWaits, SoleInv, [Next]_vars PROVE SoleInv' OBVIOUS
  <2>1. ASSUME NEW t \in Tasks, Start(t) \/ Run(t) \/ CompensateStep(t) PROVE SoleInv'
    BY <2>1, SoleStart, SoleRun, SoleCompensate
  <2>2. ASSUME NEW t \in Tasks, Resume(t) \/ Recover(t) \/ crash(t) PROVE SoleInv'
    BY <2>2, SoleResume, SoleRecover
  <2>3. CASE Environment \/ UNCHANGED vars BY <2>3, SoleEnvironment
  <2> QED BY <2>1, <2>2, <2>3 DEF Next
<1> QED BY <1>1, <1>2, TypeInvariant, NeverWaitsInvariant, PTL DEF Spec

\* In any flow that does not pause, and as long as nobody replays the saga, no
\* recovery and no operator that races the unlocked runner has called a compensate
\* method for a step that the succeeded row lists.
THEOREM SucceededStandsHolds == Spec => []SucceededStands
<1>1. SoleInv => SucceededStands BY DEF SoleInv, RowInv, SucceededStands
<1> QED BY <1>1, SoleInvariant, PTL

=============================================================================
