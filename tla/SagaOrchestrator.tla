-------------------------- MODULE SagaOrchestrator --------------------------
(***************************************************************************)
(* The saga orchestrator (app/core/realtime/sagas/orchestrator.py) with    *)
(* the legacy flows it drives (flows/legacy.py), for ONE saga: the row of  *)
(* the table "sagas" that belongs to one action_id.  Sagas share no state  *)
(* besides the circuit breakers, so one row is enough.                     *)
(*                                                                         *)
(* A task is a coroutine in some server process that executes one call of  *)
(* the orchestrator at a time: start_saga, resume_saga_on_confirm, a check *)
(* by the recovery loop, an operator's recovery, or a replay from the      *)
(* dead letter queue.  A step of a task is the code between two awaits     *)
(* that touch shared state (PostgreSQL, Redis, an adapter).  Tasks meet    *)
(* only in that shared state, so a crash of a process is a crash of each   *)
(* of its tasks.                                                           *)
(*                                                                         *)
(* Data: a step record is kept only when its step is compensatable and has *)
(* succeeded, the only ones the code reads back; the row's JSON is taken   *)
(* as decoded.  The idempotency cache of a process is a copy of the table  *)
(* saga_idempotency: one map stands for both.  Of an adapter the model has *)
(* the calls the orchestrator makes and how they end; what a provider does *)
(* when it is asked to compensate is no part of it (the adapters of the    *)
(* repository undo nothing: the payload they are passed is not the one     *)
(* they have stored).                                                      *)
(***************************************************************************)
EXTENDS Integers, Sequences, FiniteSets

CONSTANTS
    Tasks,            \* coroutines that may call the orchestrator
    Free,             \* the lock key does not exist in Redis
    Orphan,           \* the lock key survives a crash of its holder
    Plan,             \* the step names of the flow, in execution order
    Compensatable,    \* the steps recorded with compensatable=True
    Undoable,         \* the steps whose adapter has a compensate method
    Vetoes,           \* the steps whose adapter has validate_compensation
    Partial,          \* the steps whose failure keeps what the others have done
    Pauses,           \* BookingFlow: wait for the user after the plan
    RunBreaker,       \* the flow checks a circuit breaker before a step
    BreakerOpens,     \* a circuit breaker can be found open
    MaxStartRetries,  \* start_saga(max_retries=5)
    MaxResumeRetries, \* resume_saga_on_confirm(max_retries=3)
    MaxAttempts,      \* retry_config.max_attempts
    MaxCrashes, MaxOutages, MaxReplays   \* bounds of the environment

ASSUME PlanAssumption ==
    /\ Plan \in Seq(STRING) /\ Plan # <<>>
    /\ Compensatable \subseteq STRING /\ Undoable \subseteq STRING
    /\ Vetoes \subseteq STRING /\ Partial \subseteq STRING
\* A flow that pauses has a reservation to confirm as its last step.
ASSUME PauseAssumption == Pauses => Plan[Len(Plan)] \in Compensatable
ASSUME LockAssumption == Free \notin Tasks /\ Orphan \notin Tasks /\ Free # Orphan
ASSUME FlagAssumption ==
    Pauses \in BOOLEAN /\ RunBreaker \in BOOLEAN /\ BreakerOpens \in BOOLEAN
ASSUME BoundAssumption ==
    /\ MaxStartRetries \in Nat /\ MaxResumeRetries \in Nat /\ MaxAttempts \in Nat \ {0}
    /\ MaxCrashes \in Nat /\ MaxOutages \in Nat /\ MaxReplays \in Nat

VARIABLES
    state,    \* sagas.state, "absent" when there is no row
    steps,    \* sagas.steps
    expired,  \* NOW() > sagas.expires_at
    lock,     \* the Redis key saga:lock:<id>:state
    idem,     \* saga_idempotency: the keys start, resume, compensate:<step>
    history,  \* compensation_history: the steps it names
    dlq,      \* saga_dlq_messages holds a message of this saga
    db,       \* the database answers
    world,    \* the step calls the adapters have answered, in order
    pc, snap, at, after, cops, todo, results, retry, mine, res,  \* task locals
    crashes, outages, replays   \* what the environment has done so far

shared == <<state, steps, expired, lock, idem, history, dlq, db, world>>
locals == <<pc, snap, at, after, cops, todo, results, retry, mine, res>>
budget == <<crashes, outages, replays>>
vars   == <<shared, locals, budget>>

Names == {Plan[i] : i \in 1..Len(Plan)}
SagaState == {"absent", "pending", "in_progress", "waiting_confirm", "succeeded",
              "failed", "compensating", "compensated", "archived"}
StepRecord == [name : STRING, eff : Nat, compensated : BOOLEAN]
\* An effect, and what has been asked of its adapter since: standing, no
\* compensation since it was made or put back; answered, one has returned;
\* again, one was called after another had returned.
Effect     == [name : STRING, standing : BOOLEAN, answered : BOOLEAN, again : BOOLEAN]
ResumeResult == {"none", "error", "failed", "compensated", "succeeded"}

StartPc  == {"s_check", "s_lock", "s_insert", "s_record", "s_cas", "s_release", "s_raise"}
RunPc    == {"r_timeout", "r_fetch", "r_mark", "r_step", "r_save", "r_finish",
             "r_partial", "r_fail", "r_raise", "d_persist"}
CompPc   == {"c_read", "c_lock", "c_mark", "c_step", "c_call", "c_history", "c_idem",
             "c_summary", "c_abort"}
ResumePc == {"u_check", "u_lock", "u_timeout", "u_fetch", "u_confirm",
             "u_succeed", "u_record", "u_except", "u_release"}
OtherPc  == {"idle", "v_check", "p_mark"}
Pc       == StartPc \cup RunPc \cup CompPc \cup ResumePc \cup OtherPc
Caller   == {"none", "run_timeout", "run_failed", "resume_timeout", "resume_failed",
             "recover"}

TypeOK ==
    /\ state \in SagaState /\ steps \in Seq(StepRecord)
    /\ expired \in BOOLEAN /\ lock \in Tasks \cup {Free, Orphan}
    /\ idem \in [start : BOOLEAN, resume : ResumeResult, comp : SUBSET STRING]
    /\ history \in SUBSET STRING /\ dlq \in BOOLEAN /\ db \in {"up", "down"}
    /\ world \in Seq(Effect)
    /\ pc \in [Tasks -> Pc] /\ snap \in [Tasks -> Seq(StepRecord)]
    /\ at \in [Tasks -> Nat] /\ after \in [Tasks -> Caller]
    /\ cops \in [Tasks -> SUBSET STRING] /\ todo \in [Tasks -> SUBSET Nat]
    /\ results \in [Tasks -> SUBSET {"succeeded", "skipped", "failed"}]
    /\ retry \in [Tasks -> Nat] /\ mine \in [Tasks -> BOOLEAN]
    /\ res \in [Tasks -> ResumeResult]
    /\ crashes \in Nat /\ outages \in Nat /\ replays \in Nat

Init ==
    /\ state = "absent" /\ steps = <<>> /\ expired = FALSE /\ lock = Free
    /\ idem = [start |-> FALSE, resume |-> "none", comp |-> {}]
    /\ history = {} /\ dlq = FALSE /\ db = "up" /\ world = <<>>
    /\ pc = [t \in Tasks |-> "idle"] /\ snap = [t \in Tasks |-> <<>>]
    /\ at = [t \in Tasks |-> 1] /\ after = [t \in Tasks |-> "none"]
    /\ cops = [t \in Tasks |-> {}] /\ todo = [t \in Tasks |-> {}]
    /\ results = [t \in Tasks |-> {}] /\ retry = [t \in Tasks |-> 0]
    /\ mine = [t \in Tasks |-> FALSE] /\ res = [t \in Tasks |-> "none"]
    /\ crashes = 0 /\ outages = 0 /\ replays = 0

-----------------------------------------------------------------------------
(* Control of one task.  At idle its locals are reset: the coroutine is gone. *)

At(t, p)   == pc[t] = p
Goto(t, p) == pc' = [pc EXCEPT ![t] = p]

\* The coroutine returns (or raises) to its caller outside the orchestrator.
Return(t) ==
    /\ Goto(t, "idle")
    /\ snap' = [snap EXCEPT ![t] = <<>>] /\ at' = [at EXCEPT ![t] = 1]
    /\ after' = [after EXCEPT ![t] = "none"] /\ cops' = [cops EXCEPT ![t] = {}]
    /\ todo' = [todo EXCEPT ![t] = {}] /\ results' = [results EXCEPT ![t] = {}]
    /\ retry' = [retry EXCEPT ![t] = 0] /\ mine' = [mine EXCEPT ![t] = FALSE]
    /\ res' = [res EXCEPT ![t] = "none"]

\* UPDATE sagas SET state, steps (_update_saga_state): unconditional.
WriteRow(s, recs) == state' = s /\ steps' = recs

\* release() deletes the key only when it still holds the task's token.
Release(t) == lock' = IF lock = t THEN Free ELSE lock

\* What a read of saga_idempotency may return: a failed read counts as a miss,
\* unless the process has the key in its cache.
Misses(hit) == ~hit \/ db = "down"

-----------------------------------------------------------------------------
(* start_saga: idempotency check, lock, INSERT, record, compare-and-set.     *)

start_saga(t) ==
    /\ At(t, "idle") /\ Goto(t, "s_check")
    /\ UNCHANGED <<shared, snap, at, after, cops, todo, results, retry, mine, res, budget>>

start_saga_check(t) ==
    /\ At(t, "s_check")
    /\ \/ idem.start /\ Return(t)
       \/ /\ Misses(idem.start) /\ Goto(t, "s_lock")
          /\ UNCHANGED <<snap, at, after, cops, todo, results, retry, mine, res>>
    /\ UNCHANGED <<shared, budget>>

start_saga_acquired(t) ==
    /\ At(t, "s_lock") /\ lock = Free
    /\ lock' = t /\ Goto(t, "s_insert") /\ retry' = [retry EXCEPT ![t] = 0]
    /\ UNCHANGED <<state, steps, expired, idem, history, dlq, db, world,
                   snap, at, after, cops, todo, results, mine, res, budget>>

\* Not acquired: an existing row makes the call a duplicate; otherwise sleep
\* and start over, or raise TimeoutError.
start_saga_busy(t) ==
    /\ At(t, "s_lock") /\ lock # Free
    /\ LET exists == db = "up" /\ state # "absent"
       IN  IF exists \/ retry[t] >= MaxStartRetries
           THEN Return(t) /\ idem' = [idem EXCEPT !.start = @ \/ exists]
           ELSE /\ Goto(t, "s_check") /\ retry' = [retry EXCEPT ![t] = @ + 1]
                /\ UNCHANGED <<snap, at, after, cops, todo, results, mine, res, idem>>
    /\ UNCHANGED <<state, steps, expired, lock, history, dlq, db, world, budget>>

\* INSERT ... ON CONFLICT (saga_id) DO NOTHING
start_saga_insert(t) ==
    /\ At(t, "s_insert")
    /\ IF db = "up"
       THEN /\ Goto(t, "s_record")
            /\ mine' = [mine EXCEPT ![t] = state = "absent"]
            /\ state' = IF state = "absent" THEN "pending" ELSE state
       ELSE Goto(t, "s_raise") /\ UNCHANGED <<mine, state>>
    /\ UNCHANGED <<steps, expired, lock, idem, history, dlq, db, world,
                   snap, at, after, cops, todo, results, retry, res, budget>>

start_saga_record(t) ==
    /\ At(t, "s_record")
    /\ IF db = "up" THEN Goto(t, "s_cas") /\ idem' = [idem EXCEPT !.start = TRUE]
                    ELSE Goto(t, "s_raise") /\ UNCHANGED idem
    /\ UNCHANGED <<state, steps, expired, lock, history, dlq, db, world,
                   snap, at, after, cops, todo, results, retry, mine, res, budget>>

\* UPDATE ... SET state = in_progress WHERE state = pending
start_saga_cas(t) ==
    /\ At(t, "s_cas")
    /\ Goto(t, IF mine[t] /\ db = "down" THEN "s_raise" ELSE "s_release")
    /\ LET wins == mine[t] /\ db = "up" /\ state = "pending"
       IN  /\ state' = IF wins THEN "in_progress" ELSE state
           /\ mine' = [mine EXCEPT ![t] = wins]
    /\ UNCHANGED <<steps, expired, lock, idem, history, dlq, db, world,
                   snap, at, after, cops, todo, results, retry, res, budget>>

\* Mutant: the saga is run although another call has inserted the row.
start_saga_release_runs(t) ==
    /\ pc[t] \in {"s_release", "s_raise"} /\ Release(t)
    /\ IF At(t, "s_release")
       THEN /\ Goto(t, "r_timeout")
            /\ UNCHANGED <<snap, at, after, cops, todo, results, retry, mine, res>>
       ELSE Return(t)
    /\ UNCHANGED <<state, steps, expired, idem, history, dlq, db, world, budget>>

\* finally: release; the task that inserted the row runs the saga, unlocked.
start_saga_release(t) ==
    /\ pc[t] \in {"s_release", "s_raise"} /\ Release(t)
    /\ IF At(t, "s_release") /\ mine[t]
       THEN /\ Goto(t, "r_timeout")
            /\ UNCHANGED <<snap, at, after, cops, todo, results, retry, mine, res>>
       ELSE Return(t)
    /\ UNCHANGED <<state, steps, expired, idem, history, dlq, db, world, budget>>

-----------------------------------------------------------------------------
(* _run_saga and the run method of a legacy flow.  No lock is held.          *)

\* Ask _compensate_saga to undo recs for the given caller.
Compensate(t, recs, caller) ==
    /\ Goto(t, "c_read")
    /\ snap' = [snap EXCEPT ![t] = recs] /\ after' = [after EXCEPT ![t] = caller]

\* The except clause of run: _attempt_compensation compensates when a
\* compensatable step has succeeded, then the flow writes FAILED.
AttemptCompensation(t, recs) ==
    IF recs # <<>> THEN Compensate(t, recs, "run_failed")
    ELSE Goto(t, "r_fail") /\ snap' = [snap EXCEPT ![t] = recs] /\ UNCHANGED after

\* _check_saga_timeout: true whatever the state of the row.
TimedOut == db = "up" /\ state # "absent" /\ expired

run_saga_timeout(t) ==
    /\ At(t, "r_timeout")
    /\ IF TimedOut THEN Compensate(t, steps, "run_timeout")
                   ELSE Goto(t, "r_fetch") /\ UNCHANGED <<snap, after>>
    /\ UNCHANGED <<shared, at, cops, todo, results, retry, mine, res, budget>>

\* Pre-populate reservation info in the adapter's store: a pending reservation,
\* whatever has been made of it since.
Repopulated(recs) ==
    [e \in DOMAIN world |->
        IF \E i \in DOMAIN recs : recs[i].eff = e
        THEN [world[e] EXCEPT !.standing = TRUE] ELSE world[e]]

run_saga_fetch(t) ==
    /\ At(t, "r_fetch")
    /\ IF db = "down" \/ state \in {"waiting_confirm", "succeeded", "compensated", "failed"}
       THEN Return(t)
       ELSE /\ Goto(t, "r_mark") /\ snap' = [snap EXCEPT ![t] = steps]
            /\ UNCHANGED <<at, after, cops, todo, results, retry, mine, res>>
    /\ world' = IF db = "up" /\ state = "waiting_confirm" THEN Repopulated(steps) ELSE world
    /\ UNCHANGED <<state, steps, expired, lock, idem, history, dlq, db, budget>>

run_saga_mark(t) ==
    /\ At(t, "r_mark")
    /\ IF db = "up" THEN WriteRow("in_progress", snap[t]) /\ Goto(t, "r_step")
                    ELSE Goto(t, "r_raise") /\ UNCHANGED <<state, steps>>
    /\ at' = [at EXCEPT ![t] = 1]
    /\ UNCHANGED <<expired, lock, idem, history, dlq, db, world,
                   snap, after, cops, todo, results, retry, mine, res, budget>>

\* An adapter call that is answered, after as many attempts as it took, and
\* what the flow remembers of it.
NewEffect(n) == [name |-> n, standing |-> TRUE, answered |-> FALSE, again |-> FALSE]
Recorded(recs, n) ==
    IF n \in Compensatable
    THEN Append(recs, [name |-> n, eff |-> Len(world) + 1, compensated |-> FALSE])
    ELSE recs

\* Mutant: every flow persists its steps while it is still running.
flow_step_ok_saves(t) ==
    /\ At(t, "r_step")
    /\ LET n == Plan[at[t]]
       IN  /\ world' = Append(world, NewEffect(n))
           /\ snap' = [snap EXCEPT ![t] = Recorded(@, n)]
    /\ IF at[t] < Len(Plan)
       THEN at' = [at EXCEPT ![t] = @ + 1] /\ UNCHANGED pc
       ELSE Goto(t, "r_save") /\ UNCHANGED at
    /\ UNCHANGED <<state, steps, expired, lock, idem, history, dlq, db,
                   after, cops, todo, results, retry, mine, res, budget>>

flow_step_ok(t) ==
    /\ At(t, "r_step")
    /\ LET n == Plan[at[t]]
       IN  /\ world' = Append(world, NewEffect(n))
           /\ snap' = [snap EXCEPT ![t] = Recorded(@, n)]
    /\ IF at[t] < Len(Plan)
       THEN at' = [at EXCEPT ![t] = @ + 1] /\ UNCHANGED pc
       ELSE Goto(t, IF Pauses THEN "r_save" ELSE "r_finish") /\ UNCHANGED at
    /\ UNCHANGED <<state, steps, expired, lock, idem, history, dlq, db,
                   after, cops, todo, results, retry, mine, res, budget>>

flow_step_error(t) ==
    /\ At(t, "r_step") /\ Plan[at[t]] \notin Partial /\ AttemptCompensation(t, snap[t])
    /\ UNCHANGED <<shared, at, cops, todo, results, retry, mine, res, budget>>

\* The outreach of CareerGrowthFlow fails: FAILED with partial_success, and
\* nothing is compensated unless that write fails too.
flow_step_partial(t) ==
    /\ At(t, "r_step") /\ Plan[at[t]] \in Partial /\ Goto(t, "r_partial")
    /\ UNCHANGED <<shared, snap, at, after, cops, todo, results, retry, mine, res, budget>>

flow_partial(t) ==
    /\ At(t, "r_partial")
    /\ IF db = "up" THEN Return(t) /\ WriteRow("failed", snap[t])
       ELSE /\ AttemptCompensation(t, snap[t])
            /\ UNCHANGED <<state, steps, at, cops, todo, results, retry, mine, res>>
    /\ UNCHANGED <<expired, lock, idem, history, dlq, db, world, budget>>

\* CircuitBreakerOpenError: FAILED without compensation.
flow_step_breaker(t) ==
    /\ At(t, "r_step") /\ RunBreaker /\ BreakerOpens /\ Goto(t, "r_fail")
    /\ UNCHANGED <<shared, snap, at, after, cops, todo, results, retry, mine, res, budget>>

\* BookingFlow persists the reservation before it pauses.
flow_save(t) ==
    /\ At(t, "r_save")
    /\ IF db = "up"
       THEN WriteRow("in_progress", snap[t]) /\ Goto(t, "r_finish") /\ UNCHANGED <<snap, after>>
       ELSE AttemptCompensation(t, snap[t]) /\ UNCHANGED <<state, steps>>
    /\ UNCHANGED <<expired, lock, idem, history, dlq, db, world,
                   at, cops, todo, results, retry, mine, res, budget>>

flow_finish(t) ==
    /\ At(t, "r_finish")
    /\ \/ /\ db = "up" /\ Return(t)
          /\ WriteRow(IF Pauses THEN "waiting_confirm" ELSE "succeeded", snap[t])
       \/ /\ db = "down"
          /\ IF Plan[Len(Plan)] \in Partial THEN Goto(t, "r_partial") /\ UNCHANGED <<snap, after>>
                                            ELSE AttemptCompensation(t, snap[t])
          /\ UNCHANGED <<state, steps, at, cops, todo, results, retry, mine, res>>
    /\ UNCHANGED <<expired, lock, idem, history, dlq, db, world, budget>>

flow_fail(t) ==
    /\ At(t, "r_fail")
    /\ IF db = "up" THEN Return(t) /\ WriteRow("failed", snap[t])
       ELSE /\ Goto(t, "r_raise")
            /\ UNCHANGED <<state, steps, snap, at, after, cops, todo, results, retry, mine, res>>
    /\ UNCHANGED <<expired, lock, idem, history, dlq, db, world, budget>>

\* The except clause of _run_saga: write FAILED once more, then give up.
run_saga_except(t) ==
    /\ At(t, "r_raise") /\ Return(t)
    /\ IF db = "up" THEN WriteRow("failed", snap[t]) ELSE UNCHANGED <<state, steps>>
    /\ UNCHANGED <<expired, lock, idem, history, dlq, db, world, budget>>

\* _attempt_compensation keeps a COMPENSATION_FAILED message, if it can.
persist_dlq_message(t) ==
    /\ At(t, "d_persist") /\ Goto(t, "r_fail") /\ dlq' = (dlq \/ db = "up")
    /\ UNCHANGED <<state, steps, expired, lock, idem, history, db, world,
                   snap, at, after, cops, todo, results, retry, mine, res, budget>>

-----------------------------------------------------------------------------
(* _compensate_saga: read the history, lock, undo in LIFO order, settle.     *)

\* Hand control back: p is where the caller goes on, r what a resume reports.
Leave(t, p, recs, r) ==
    /\ Goto(t, p) /\ snap' = [snap EXCEPT ![t] = recs]
    /\ res' = [res EXCEPT ![t] = r] /\ after' = [after EXCEPT ![t] = "none"]
    /\ cops' = [cops EXCEPT ![t] = {}] /\ todo' = [todo EXCEPT ![t] = {}]
    /\ results' = [results EXCEPT ![t] = {}] /\ UNCHANGED <<at, retry, mine>>

\* _compensate_saga returns.
CompensateReturns(t) ==
    CASE after[t] = "run_failed"     -> Leave(t, "r_fail", snap[t], res[t])
      [] after[t] = "resume_timeout" -> Leave(t, "u_record", <<>>, "error")
      [] after[t] = "resume_failed"  -> Leave(t, "u_record", <<>>, "compensated")
      [] OTHER                       -> Return(t)

\* _compensate_saga raises: even its own write of FAILED has failed.
CompensateRaises(t) ==
    CASE after[t] = "run_failed"  -> Leave(t, "d_persist", snap[t], res[t])
      [] after[t] = "run_timeout" -> Leave(t, "r_raise", <<>>, res[t])
      [] after[t] \in {"resume_timeout", "resume_failed"} -> Leave(t, "u_record", <<>>, "error")
      [] OTHER                    -> Return(t)

compensate_read(t) ==
    /\ At(t, "c_read")
    /\ IF db = "up" THEN Goto(t, "c_lock") /\ cops' = [cops EXCEPT ![t] = history]
                    ELSE Goto(t, "c_abort") /\ UNCHANGED cops
    /\ UNCHANGED <<shared, snap, at, after, todo, results, retry, mine, res, budget>>

\* Mutant: compensation goes ahead whether or not it got the lock.
compensate_acquired_anyway(t) ==
    /\ At(t, "c_lock")
    /\ lock' = t /\ Goto(t, "c_mark")
    /\ UNCHANGED <<state, steps, expired, idem, history, dlq, db, world,
                   snap, at, after, cops, todo, results, retry, mine, res, budget>>

compensate_acquired(t) ==
    /\ At(t, "c_lock") /\ lock = Free
    /\ lock' = t /\ Goto(t, "c_mark")
    /\ UNCHANGED <<state, steps, expired, idem, history, dlq, db, world,
                   snap, at, after, cops, todo, results, retry, mine, res, budget>>

\* Mutant: a compensation waits until the lock is free.
compensate_busy_waits(t) ==
    /\ At(t, "c_lock") /\ lock # Free /\ UNCHANGED vars

\* The lock is taken, if only by this very task: return without a word.
compensate_busy(t) ==
    /\ At(t, "c_lock") /\ lock # Free /\ CompensateReturns(t)
    /\ UNCHANGED <<shared, budget>>

compensate_mark(t) ==
    /\ At(t, "c_mark")
    /\ IF db = "up"
       THEN /\ WriteRow("compensating", snap[t]) /\ Goto(t, "c_step") /\ UNCHANGED lock
            /\ todo' = [todo EXCEPT ![t] =
                          {i \in 1..Len(snap[t]) : ~snap[t][i].compensated}]
       ELSE /\ Goto(t, "c_abort") /\ Release(t) /\ UNCHANGED <<state, steps, todo>>
    /\ UNCHANGED <<expired, idem, history, dlq, db, world,
                   snap, at, after, cops, results, retry, mine, res, budget>>

\* i is the next record to undo: the last one left.
Last(t, i) == i \in todo[t] /\ \A j \in todo[t] : j <= i
Settle(t, i, r) ==
    /\ todo' = [todo EXCEPT ![t] = @ \ {i}] /\ results' = [results EXCEPT ![t] = @ \cup r]

\* Mutant: only the history read before the lock is consulted.
Attempted_history_only(t, i) ==
    Last(t, i) /\ snap[t][i].name \notin cops[t]

\* The record is not in the history read before the lock, nor in the
\* idempotency table.
Attempted(t, i) ==
    /\ Last(t, i) /\ snap[t][i].name \notin cops[t]
    /\ Misses(snap[t][i].name \in idem.comp)

\* Compensated before according to either, or vetoed by validate_compensation.
compensate_skip(t) ==
    /\ At(t, "c_step")
    /\ \E i \in todo[t] :
          /\ Last(t, i) /\ Settle(t, i, {"skipped"})
          /\ snap[t][i].name \in cops[t] \cup idem.comp \cup (Vetoes \cap Undoable)
    /\ UNCHANGED <<shared, pc, snap, at, after, cops, retry, mine, res, budget>>

\* No compensate method, or the breaker is open: no entry in compensation_results.
compensate_pass(t) ==
    /\ At(t, "c_step")
    /\ \E i \in todo[t] :
          /\ Attempted(t, i) /\ (BreakerOpens \/ snap[t][i].name \notin Undoable)
          /\ Settle(t, i, {})
    /\ UNCHANGED <<shared, pc, snap, at, after, cops, retry, mine, res, budget>>

\* An adapter's compensate has been called for an effect; it has returned.
Asked(e)    == [e EXCEPT !.standing = FALSE, !.again = @ \/ e.answered]
Answered(e) == [e EXCEPT !.answered = TRUE]

compensate_call(t) ==
    /\ At(t, "c_step") /\ Goto(t, "c_call")
    /\ \E i \in todo[t] :
          /\ Attempted(t, i) /\ snap[t][i].name \in Undoable
          /\ world' = [world EXCEPT ![snap[t][i].eff] = Asked(@)]
    /\ UNCHANGED <<state, steps, expired, lock, idem, history, dlq, db,
                   snap, at, after, cops, todo, results, retry, mine, res, budget>>

\* TransientAdapterError: called once more, although the call that failed may
\* have been carried out.
compensate_step_retry(t) ==
    /\ At(t, "c_call") /\ retry[t] + 1 < MaxAttempts
    /\ retry' = [retry EXCEPT ![t] = @ + 1]
    /\ \E i \in todo[t] :
          Last(t, i) /\ world' = [world EXCEPT ![snap[t][i].eff] = Asked(@)]
    /\ UNCHANGED <<state, steps, expired, lock, idem, history, dlq, db,
                   pc, snap, at, after, cops, todo, results, mine, res, budget>>

\* It returns, whatever the answer says; the record in memory is flagged.
compensate_step_ok(t) ==
    /\ At(t, "c_call") /\ Goto(t, "c_history")
    /\ \E i \in todo[t] :
          /\ Last(t, i)
          /\ world' = [world EXCEPT ![snap[t][i].eff] = Answered(@)]
          /\ snap' = [snap EXCEPT ![t][i].compensated = TRUE]
    /\ retry' = [retry EXCEPT ![t] = 0]
    /\ UNCHANGED <<state, steps, expired, lock, idem, history, dlq, db,
                   at, after, cops, todo, results, mine, res, budget>>

\* A permanent or unexpected error (a timeout is one), or the last attempt.
compensate_step_error(t) ==
    /\ At(t, "c_call") /\ Goto(t, "c_step")
    /\ \E i \in todo[t] : Last(t, i) /\ Settle(t, i, {"failed"})
    /\ retry' = [retry EXCEPT ![t] = 0]
    /\ UNCHANGED <<shared, snap, at, after, cops, mine, res, budget>>

\* _record_compensation: a failed INSERT is only logged.
compensate_history(t) ==
    /\ At(t, "c_history") /\ Goto(t, "c_idem")
    /\ \E i \in todo[t] :
          /\ Last(t, i)
          /\ history' = IF db = "up" THEN history \cup {snap[t][i].name} ELSE history
    /\ UNCHANGED <<state, steps, expired, lock, idem, dlq, db, world,
                   snap, at, after, cops, todo, results, retry, mine, res, budget>>

\* _record_idempotency raises on failure: the step then counts as failed.
compensate_idem(t) ==
    /\ At(t, "c_idem") /\ Goto(t, "c_step")
    /\ \E i \in todo[t] :
          /\ Last(t, i)
          /\ IF db = "up"
             THEN /\ idem' = [idem EXCEPT !.comp = @ \cup {snap[t][i].name}]
                  /\ Settle(t, i, {"succeeded"})
             ELSE UNCHANGED idem /\ Settle(t, i, {"failed"})
    /\ UNCHANGED <<state, steps, expired, lock, history, dlq, db, world,
                   snap, at, after, cops, retry, mine, res, budget>>

\* Mutants: a state the enumeration does not know; a failed call counts as well.
FinalState_unknown(rs) == IF rs = {"succeeded"} THEN "rolled_back" ELSE "failed"
FinalState_called(rs) == IF rs # {} /\ "skipped" \notin rs THEN "compensated" ELSE "failed"

FinalState(rs) == IF rs = {"succeeded"} THEN "compensated" ELSE "failed"

compensate_finish(t) ==
    /\ At(t, "c_step") /\ todo[t] = {}
    /\ IF db = "up"
       THEN /\ WriteRow(FinalState(results[t]), snap[t])
            /\ Goto(t, "c_summary") /\ UNCHANGED lock
       ELSE Goto(t, "c_abort") /\ Release(t) /\ UNCHANGED <<state, steps>>
    /\ UNCHANGED <<expired, idem, history, dlq, db, world,
                   snap, at, after, cops, todo, results, retry, mine, res, budget>>

\* Record compensate:summary and release; a failed record lands in the outer
\* except clause, which overwrites the state just written.
compensate_summary(t) ==
    /\ At(t, "c_summary") /\ Release(t)
    /\ IF db = "up" THEN CompensateReturns(t)
       ELSE /\ Goto(t, "c_abort")
            /\ UNCHANGED <<snap, at, after, cops, todo, results, retry, mine, res>>
    /\ UNCHANGED <<state, steps, expired, idem, history, dlq, db, world, budget>>

compensate_abort(t) ==
    /\ At(t, "c_abort")
    /\ IF db = "up" THEN WriteRow("failed", snap[t]) /\ CompensateReturns(t)
                    ELSE UNCHANGED <<state, steps>> /\ CompensateRaises(t)
    /\ UNCHANGED <<expired, lock, idem, history, dlq, db, world, budget>>

-----------------------------------------------------------------------------
(* resume_saga_on_confirm and BookingFlow.resume, under the lock throughout.  *)

resume_saga(t) ==
    /\ At(t, "idle") /\ Goto(t, "u_check")
    /\ UNCHANGED <<shared, snap, at, after, cops, todo, results, retry, mine, res, budget>>

resume_saga_check(t) ==
    /\ At(t, "u_check")
    /\ \/ idem.resume # "none" /\ Return(t)
       \/ /\ Misses(idem.resume # "none") /\ Goto(t, "u_lock")
          /\ UNCHANGED <<snap, at, after, cops, todo, results, retry, mine, res>>
    /\ UNCHANGED <<shared, budget>>

resume_saga_acquired(t) ==
    /\ At(t, "u_lock") /\ lock = Free
    /\ lock' = t /\ Goto(t, "u_timeout") /\ retry' = [retry EXCEPT ![t] = 0]
    /\ UNCHANGED <<state, steps, expired, idem, history, dlq, db, world,
                   snap, at, after, cops, todo, results, mine, res, budget>>

\* After max_retries the failure to lock is recorded as the result of the resume.
resume_saga_busy(t) ==
    /\ At(t, "u_lock") /\ lock # Free
    /\ IF retry[t] >= MaxResumeRetries
       THEN Return(t) /\ idem' = IF db = "up" THEN [idem EXCEPT !.resume = "error"] ELSE idem
       ELSE /\ Goto(t, "u_check") /\ retry' = [retry EXCEPT ![t] = @ + 1]
            /\ UNCHANGED <<snap, at, after, cops, todo, results, mine, res, idem>>
    /\ UNCHANGED <<state, steps, expired, lock, history, dlq, db, world, budget>>

resume_saga_timeout(t) ==
    /\ At(t, "u_timeout")
    /\ IF TimedOut THEN Compensate(t, steps, "resume_timeout")
                   ELSE Goto(t, "u_fetch") /\ UNCHANGED <<snap, after>>
    /\ UNCHANGED <<shared, at, cops, todo, results, retry, mine, res, budget>>

resume_saga_fetch(t) ==
    /\ At(t, "u_fetch")
    /\ IF db = "up" /\ state = "waiting_confirm"
       THEN /\ Goto(t, "u_confirm") /\ snap' = [snap EXCEPT ![t] = steps] /\ UNCHANGED res
       ELSE /\ Goto(t, "u_record") /\ res' = [res EXCEPT ![t] = "error"] /\ UNCHANGED snap
    /\ UNCHANGED <<shared, at, after, cops, todo, results, retry, mine, budget>>

\* The reservations the row records are put back into the adapter's store, then
\* it confirms the one confirm_payload names: any it knows, not necessarily this
\* saga's, so that which one it is does not matter to the row.
booking_confirm_ok(t) ==
    /\ At(t, "u_confirm") /\ Goto(t, "u_succeed")
    /\ world' = Repopulated(snap[t])
    /\ UNCHANGED <<state, steps, expired, lock, idem, history, dlq, db,
                   snap, at, after, cops, todo, results, retry, mine, res, budget>>

\* It names none the adapter knows, or the call fails.
booking_confirm_error(t) ==
    /\ At(t, "u_confirm") /\ Compensate(t, snap[t], "resume_failed")
    /\ world' = Repopulated(snap[t])
    /\ UNCHANGED <<state, steps, expired, lock, idem, history, dlq, db,
                   at, cops, todo, results, retry, mine, res, budget>>

\* CircuitBreakerOpenError: not compensated, the saga keeps waiting.
booking_confirm_breaker(t) ==
    /\ At(t, "u_confirm") /\ BreakerOpens
    /\ Goto(t, "u_record") /\ res' = [res EXCEPT ![t] = "failed"]
    /\ UNCHANGED <<shared, snap, at, after, cops, todo, results, retry, mine, budget>>

booking_succeed(t) ==
    /\ At(t, "u_succeed")
    /\ IF db = "up"
       THEN /\ WriteRow("succeeded", snap[t]) /\ Goto(t, "u_record")
            /\ res' = [res EXCEPT ![t] = "succeeded"] /\ UNCHANGED <<snap, after>>
       ELSE Compensate(t, snap[t], "resume_failed") /\ UNCHANGED <<state, steps, res>>
    /\ UNCHANGED <<expired, lock, idem, history, dlq, db, world,
                   at, cops, todo, results, retry, mine, budget>>

resume_saga_record(t) ==
    /\ At(t, "u_record")
    /\ IF db = "up" THEN Goto(t, "u_release") /\ idem' = [idem EXCEPT !.resume = res[t]]
                    ELSE Goto(t, "u_except") /\ UNCHANGED idem
    /\ UNCHANGED <<state, steps, expired, lock, history, dlq, db, world,
                   snap, at, after, cops, todo, results, retry, mine, res, budget>>

\* The except clause records the exception as the result, or raises in turn.
resume_saga_except(t) ==
    /\ At(t, "u_except") /\ Goto(t, "u_release")
    /\ idem' = IF db = "up" THEN [idem EXCEPT !.resume = "error"] ELSE idem
    /\ UNCHANGED <<state, steps, expired, lock, history, dlq, db, world,
                   snap, at, after, cops, todo, results, retry, mine, res, budget>>

resume_saga_release(t) ==
    /\ At(t, "u_release") /\ Release(t) /\ Return(t)
    /\ UNCHANGED <<state, steps, expired, idem, history, dlq, db, world, budget>>

-----------------------------------------------------------------------------
(* Background workers and operators.                                         *)

\* Mutant: the loop selects the wrong rows.
recover_pending_saga(t) ==
    /\ At(t, "idle") /\ db = "up" /\ state = "pending" /\ Goto(t, "v_check")
    /\ UNCHANGED <<shared, snap, at, after, cops, todo, results, retry, mine, res, budget>>

\* recover_stuck_sagas_loop: SELECT the in_progress rows, then check each one.
recover_stuck_saga(t) ==
    /\ At(t, "idle") /\ db = "up" /\ state = "in_progress" /\ Goto(t, "v_check")
    /\ UNCHANGED <<shared, snap, at, after, cops, todo, results, retry, mine, res, budget>>

recover_check(t) ==
    /\ At(t, "v_check")
    /\ IF TimedOut
       THEN Compensate(t, steps, "recover") /\ UNCHANGED <<at, cops, todo, results, retry, mine, res>>
       ELSE Return(t)
    /\ UNCHANGED <<shared, budget>>

\* POST /saga/recover on a saga that is not succeeded, failed or compensated:
\* compensate the row as selected, expired or not.
operator_recover(t) ==
    /\ At(t, "idle") /\ db = "up"
    /\ state \notin {"absent", "succeeded", "failed", "compensated"}
    /\ Compensate(t, steps, "recover")
    /\ UNCHANGED <<shared, at, cops, todo, results, retry, mine, res, budget>>

\* POST /saga/dlq/{id}/retry with replay_now.
replay_saga(t) ==
    /\ At(t, "idle") /\ db = "up" /\ dlq /\ replays < MaxReplays
    /\ state \notin {"absent", "succeeded"}
    /\ Goto(t, "p_mark") /\ snap' = [snap EXCEPT ![t] = steps]
    /\ replays' = replays + 1
    /\ UNCHANGED <<shared, at, after, cops, todo, results, retry, mine, res, crashes, outages>>

replay_mark(t) ==
    /\ At(t, "p_mark")
    /\ IF db = "up"
       THEN /\ WriteRow("in_progress", snap[t]) /\ Goto(t, "r_timeout")
            /\ UNCHANGED <<snap, at, after, cops, todo, results, retry, mine, res>>
       ELSE Return(t) /\ UNCHANGED <<state, steps>>
    /\ UNCHANGED <<expired, lock, idem, history, dlq, db, world, budget>>

\* archive_waiting_confirm_sagas: one conditional UPDATE, no lock.
archive_waiting_confirm ==
    /\ db = "up" /\ state = "waiting_confirm" /\ state' = "archived"
    /\ UNCHANGED <<steps, expired, lock, idem, history, dlq, db, world, locals, budget>>

-----------------------------------------------------------------------------
(* The environment.                                                          *)

crash(t) ==
    /\ pc[t] # "idle" /\ crashes < MaxCrashes /\ crashes' = crashes + 1
    /\ Return(t) /\ lock' = IF lock = t THEN Orphan ELSE lock
    /\ UNCHANGED <<state, steps, expired, idem, history, dlq, db, world, outages, replays>>

\* The TTL of a lock nobody refreshes.
lock_expire ==
    /\ lock = Orphan /\ lock' = Free
    /\ UNCHANGED <<state, steps, expired, idem, history, dlq, db, world, locals, budget>>

db_fails ==
    /\ db = "up" /\ outages < MaxOutages /\ db' = "down" /\ outages' = outages + 1
    /\ UNCHANGED <<state, steps, expired, lock, idem, history, dlq, world, locals,
                   crashes, replays>>

db_returns ==
    /\ db = "down" /\ db' = "up"
    /\ UNCHANGED <<state, steps, expired, lock, idem, history, dlq, world, locals, budget>>

saga_expires ==
    /\ state # "absent" /\ ~expired /\ expired' = TRUE
    /\ UNCHANGED <<state, steps, lock, idem, history, dlq, db, world, locals, budget>>

\* expires_at of saga_idempotency (one hour) passes.  No call lasts that long:
\* every adapter call ends after SAGA_ADAPTER_TIMEOUT_SECONDS.
idempotency_expires ==
    /\ \A t \in Tasks : pc[t] = "idle"
    /\ idem' = [start |-> FALSE, resume |-> "none", comp |-> {}] /\ idem' # idem
    /\ UNCHANGED <<state, steps, expired, lock, history, dlq, db, world, locals, budget>>

-----------------------------------------------------------------------------
Start(t) ==
    \/ start_saga(t) \/ start_saga_check(t) \/ start_saga_acquired(t) \/ start_saga_busy(t)
    \/ start_saga_insert(t) \/ start_saga_record(t) \/ start_saga_cas(t)
    \/ start_saga_release(t)
Run(t) ==
    \/ run_saga_timeout(t) \/ run_saga_fetch(t) \/ run_saga_mark(t)
    \/ flow_step_ok(t) \/ flow_step_error(t) \/ flow_step_breaker(t)
    \/ flow_step_partial(t) \/ flow_partial(t)
    \/ flow_save(t) \/ flow_finish(t) \/ flow_fail(t) \/ run_saga_except(t)
    \/ persist_dlq_message(t)
CompensateStep(t) ==
    \/ compensate_read(t) \/ compensate_acquired(t) \/ compensate_busy(t)
    \/ compensate_mark(t) \/ compensate_skip(t) \/ compensate_pass(t)
    \/ compensate_call(t) \/ compensate_step_retry(t) \/ compensate_step_ok(t)
    \/ compensate_step_error(t) \/ compensate_history(t) \/ compensate_idem(t)
    \/ compensate_finish(t) \/ compensate_summary(t) \/ compensate_abort(t)
Resume(t) ==
    \/ resume_saga(t) \/ resume_saga_check(t) \/ resume_saga_acquired(t) \/ resume_saga_busy(t)
    \/ resume_saga_timeout(t) \/ resume_saga_fetch(t) \/ booking_confirm_ok(t)
    \/ booking_confirm_error(t) \/ booking_confirm_breaker(t) \/ booking_succeed(t)
    \/ resume_saga_record(t) \/ resume_saga_except(t) \/ resume_saga_release(t)
Recover(t) ==
    \/ recover_stuck_saga(t) \/ recover_check(t) \/ operator_recover(t)
    \/ replay_saga(t) \/ replay_mark(t)
Environment ==
    \/ archive_waiting_confirm \/ lock_expire \/ db_fails \/ db_returns
    \/ saga_expires \/ idempotency_expires

Next ==
    \/ \E t \in Tasks : Start(t) \/ Run(t) \/ CompensateStep(t) \/ Resume(t) \/ Recover(t)
                        \/ crash(t)
    \/ Environment

Spec == Init /\ [][Next]_vars

\* What a task does once it is inside a call.
Inside(t) == pc[t] # "idle" /\ (Start(t) \/ Run(t) \/ CompensateStep(t) \/ Resume(t) \/ Recover(t))

\* asyncio runs every ready coroutine; Redis expires keys; the recovery loop
\* comes round every SAGA_RECOVERY_INTERVAL_SECONDS (it is a worker of its own,
\* hence strong fairness among the tasks); time passes; the database returns.
Fairness ==
    /\ \A t \in Tasks : WF_vars(Inside(t))
    /\ WF_vars(lock_expire) /\ WF_vars(saga_expires) /\ WF_vars(db_returns)
    /\ SF_vars(\E t \in Tasks : recover_stuck_saga(t))

\* Within one hour no idempotency key expires: Next without that step.
LiveNext ==
    \/ \E t \in Tasks : Start(t) \/ Run(t) \/ CompensateStep(t) \/ Resume(t) \/ Recover(t)
                        \/ crash(t)
    \/ archive_waiting_confirm \/ lock_expire \/ db_fails \/ db_returns \/ saga_expires
LiveSpec == Init /\ [][LiveNext]_vars /\ Fairness

-----------------------------------------------------------------------------
(* Properties.                                                               *)

\* The tasks inside a section that DistributedLock protects: start_saga up to
\* its finally clause, _compensate_saga from COMPENSATING to its release, and
\* the whole of a resume, the compensation it calls included.
Critical(t) ==
    \/ pc[t] \in {"s_insert", "s_record", "s_cas", "s_release", "s_raise"}
    \/ pc[t] \in {"c_mark", "c_step", "c_call", "c_history", "c_idem", "c_summary"}
    \/ pc[t] \in {"u_timeout", "u_fetch", "u_confirm", "u_succeed", "u_record",
                  "u_except", "u_release"}
    \/ pc[t] \in CompPc /\ after[t] \in {"resume_timeout", "resume_failed"}

\* The lock belongs to the task in a protected section and to no other, and no
\* return, exception or compensation nested in a resume gives it away early or
\* keeps it (every acquire of orchestrator.py has its release).
LockDiscipline == \A t \in Tasks : Critical(t) <=> lock = t

\* A row that says compensated: the adapter of every completed step it lists has
\* been asked to compensate it and has answered, if it can be asked at all
\* (_compensate_saga's final state).  With a breaker open it need not be so.
CompensatedIsAnswered ==
    state = "compensated" /\ ~BreakerOpens =>
        /\ steps # <<>>
        /\ \A i \in 1..Len(steps) :
              steps[i].name \in Undoable => world[steps[i].eff].answered

\* A booking row that says succeeded lists reservations for none of which a
\* compensation has been called since BookingFlow.resume put them back: no
\* recovery, operator or expired timer has come between the confirm and the row.
ConfirmedStands ==
    Pauses /\ state = "succeeded" =>
        /\ steps # <<>>
        /\ \A i \in 1..Len(steps) : world[steps[i].eff].standing

\* A flow that does not pause writes its steps only together with its outcome,
\* so no recovery that races the unlocked runner has asked an adapter to undo a
\* step of the row that says succeeded (CalendarFlow, CVGenerationFlow, ...).  A
\* replay starts from the steps of the row, and this is then no longer so.
SucceededStands ==
    ~Pauses /\ state = "succeeded" /\ replays = 0 =>
        \A i \in 1..Len(steps) : world[steps[i].eff].standing

\* However many tasks call start_saga for one action_id, the plan is executed
\* once, and once more for each replay (uuid5 id, INSERT ON CONFLICT, lock).
PlanRunsOnce == Len(world) <= Len(Plan) * (1 + replays)

\* No adapter is asked to compensate an effect after it has answered for it once,
\* though every compensation reads the history before it has the lock: the
\* idempotency key of the step is read under it.  (Before an answer it may be
\* asked many times: retries, and rounds that follow a failed one.)  A crash or
\* an outage between the answer and the two writes can lose the key.
AnsweredOnce ==
    crashes = 0 /\ outages = 0 => \A e \in 1..Len(world) : ~world[e].again

\* Every call of the orchestrator returns: retries on a busy lock are bounded,
\* the compensation loop shrinks, and no path waits for a lock it holds.
CallsReturn == \A t \in Tasks : pc[t] # "idle" ~> pc[t] = "idle"

\* A saga does not stay in_progress: if its runner dies, the recovery loop
\* finds the row once it has expired and compensates it.
StuckIsRecovered == state = "in_progress" ~> state # "in_progress"

-----------------------------------------------------------------------------
(* What comments, docstrings and tests say, and the code does not do.        *)

\* A resume that reports "compensated": True has compensated.
ResumeReportIsTrue ==
    idem.resume = "compensated" => state \in {"compensating", "compensated", "failed"}
=============================================================================
