---------------------------- MODULE ActionRouter ----------------------------
(***************************************************************************)
(* The confirmation of one action: the memory of the ActionRouter of one   *)
(* server process (app/core/realtime/action_router.py), the HTTP handlers  *)
(* and the WebSocket consumer that bring the user's answer                 *)
(* (api/actions_saga_routes.py, ws_consumers.py), the tray in Redis        *)
(* (pending_store.py), and the saga the action is routed to as far as the  *)
(* router knows of it: whether it has the saga_id.                         *)
(*                                                                         *)
(* A handler is a coroutine: what it does between two awaits is one step.  *)
(* An action that is invoked again while it waits is registered again.     *)
(* A write to the tray that the router schedules is done at once.          *)
(* Redis is up, and keeps the executor's result for longer than the        *)
(* behaviour lasts (an hour); validation, rate limits and guardrails have  *)
(* passed; the action has an executor and may be routed to a saga, as      *)
(* create_or_update_cv.                                                    *)
(***************************************************************************)
EXTENDS Integers, Sequences

CONSTANTS
    Handlers,     \* coroutines that each handle one confirm or cancel request
    Modes,        \* BOOLEAN values: whether the saga flag may be on, off
    MaxInvokes    \* bound on the invocations of the action

ASSUME RouterAssumption == Modes \subseteq BOOLEAN /\ MaxInvokes \in Nat

VARIABLES
    regs,        \* all registrations so far: their flow and what became of them
    current,     \* _pending_confirmations: the registration it holds, 0 for none
    saga_id,     \* the entry has its saga_id
    late,        \* the entry is past its expires_at
    timer,       \* _pending_confirmation_tasks: the registration its task was
                 \* created for, 0 for none
    spent,       \* that task has ended and is still registered
    expiring,    \* timeout tasks past the clearing of the entry, all cancelled
    starts,      \* _async_start_saga: registration -> "publish", "attach", "done"
    started_id,  \* _pending_saga_starts has the saga_id
    executions,  \* how often the executor has run
    outcome,     \* idempotency:<id>:result in Redis: what it returned
    tray,        \* the status in the pending store
    status, result,   \* Redis: idempotency:confirm:<id>:status, :result
    pc, want, mine, verdict  \* handler: its place, request, registration, answer

memory == <<regs, current, saga_id, late, timer, spent, expiring>>
starter == <<starts, started_id>>
executor == <<executions, outcome>>
locals == <<pc, want, mine, verdict>>
redis == <<tray, status, result>>
vars == <<memory, starter, executor, redis, locals>>

Verdict == {"none", "success", "failed", "rejected", "expired", "not_found"}
Decision == {"confirmed", "rejected", "expired"}
Registration == [saga : BOOLEAN, decisions : Seq(Decision)]
Tray == {"none", "pending", "confirmed", "rejected", "expired", "pending_user"}

TypeOK ==
    /\ regs \in Seq(Registration) /\ Len(regs) <= MaxInvokes
    /\ current \in 0..Len(regs) /\ timer \in 0..current
    /\ saga_id \in BOOLEAN /\ late \in BOOLEAN /\ spent \in BOOLEAN /\ expiring \in Nat
    /\ starts \in [1..Len(regs) -> {"publish", "attach", "done"}]
    /\ started_id \in BOOLEAN
    /\ executions \in Nat /\ outcome \in {"none", "success", "failed"}
    /\ tray \in Tray
    /\ status \in {"none", "PENDING", "DONE"} /\ result \in Verdict
    /\ pc \in [Handlers -> {"idle", "get", "reserve", "resume", "saga", "mark", "store", "answered"}]
    /\ want \in [Handlers -> {"confirm", "cancel"}]
    /\ mine \in [Handlers -> 0..Len(regs)] /\ verdict \in [Handlers -> Verdict]

Init ==
    /\ regs = <<>> /\ current = 0 /\ saga_id = FALSE /\ late = FALSE
    /\ timer = 0 /\ spent = FALSE /\ expiring = 0
    /\ starts = <<>> /\ started_id = FALSE
    /\ executions = 0 /\ outcome = "none"
    /\ tray = "none" /\ status = "none" /\ result = "none"
    /\ pc = [h \in Handlers |-> "idle"] /\ want = [h \in Handlers |-> "cancel"]
    /\ mine = [h \in Handlers |-> 0] /\ verdict = [h \in Handlers |-> "none"]

-----------------------------------------------------------------------------
(* The router: registration, timeout, start of the saga.                     *)

\* _clear_pending_confirmation: forget the entry and cancel its timeout task.
Clear == current' = 0 /\ saga_id' = FALSE /\ late' = FALSE /\ timer' = 0 /\ spent' = FALSE

Decide(r, d) == regs' = [regs EXCEPT ![r].decisions = Append(@, d)]

\* execute_action up to REQUIRES_MANUAL_REVIEW.  A timeout task that is still
\* registered stays, also if it was made for an earlier registration.
execute_action ==
    /\ Len(regs) < MaxInvokes
    /\ \E s \in Modes :
          /\ regs' = Append(regs, [saga |-> s, decisions |-> <<>>])
          /\ starts' = Append(starts, IF s THEN "publish" ELSE "done")
          /\ started_id' = (started_id /\ ~s)
    /\ current' = Len(regs) + 1 /\ saga_id' = FALSE /\ late' = FALSE
    /\ timer' = IF timer = 0 THEN Len(regs) + 1 ELSE timer
    /\ tray' = "pending"
    /\ UNCHANGED <<spent, expiring, executor, status, result, locals>>

\* The deadline of the entry: no earlier than the one its timeout task waits for.
deadline_passes ==
    /\ current # 0 /\ ~late /\ late' = TRUE
    /\ UNCHANGED <<regs, current, saga_id, timer, spent, expiring, starter, executor, redis, locals>>

\* Mutant: the timeout task gives up on an entry that has passed its deadline.
expire_pending_ignores ==
    /\ timer # 0 /\ ~spent /\ (timer = current => late)
    /\ spent' = TRUE
    /\ UNCHANGED <<regs, current, saga_id, late, timer, expiring, starter, executor, redis, locals>>

\* _expire_pending_confirmation wakes.  It clears the entry and with it cancels
\* the registered task: itself.  If the entry is a later one it just ends.
expire_pending_confirmation ==
    /\ timer # 0 /\ ~spent /\ (timer = current => late)
    /\ IF late
       THEN Clear /\ Decide(current, "expired") /\ expiring' = expiring + 1
       ELSE spent' = TRUE /\ UNCHANGED <<regs, current, saga_id, late, timer, expiring>>
    /\ UNCHANGED <<starter, executor, redis, locals>>

\* Its next await raises CancelledError, which it swallows: neither pending_user
\* nor the notification gets out.
expire_cancelled ==
    /\ expiring > 0 /\ expiring' = expiring - 1
    /\ UNCHANGED <<regs, current, saga_id, late, timer, spent, starter, executor, redis, locals>>

\* _async_start_saga: the event bus has taken the start command ...
publish_start(r) ==
    /\ starts[r] = "publish" /\ starts' = [starts EXCEPT ![r] = "attach"]
    /\ UNCHANGED <<started_id, memory, executor, redis, locals>>

\* ... and its saga_id goes to the entry, whichever registration that is by now.
attach_saga_id(r) ==
    /\ starts[r] = "attach" /\ starts' = [starts EXCEPT ![r] = "done"]
    /\ saga_id' = (saga_id \/ current # 0) /\ started_id' = TRUE
    /\ UNCHANGED <<regs, current, late, timer, spent, expiring, executor, redis, locals>>

\* store_pending gave the key a TTL that ends with the confirmation window.
tray_expires ==
    /\ tray = "pending" /\ (current = 0 \/ late) /\ tray' = "none"
    /\ UNCHANGED <<memory, starter, executor, status, result, locals>>

-----------------------------------------------------------------------------
(* A handler of POST /actions/{id}/confirm or /cancel.                       *)

At(h, p) == pc[h] = p
Goto(h, p) == pc' = [pc EXCEPT ![h] = p]
Answer(h, p, v) == Goto(h, p) /\ verdict' = [verdict EXCEPT ![h] = v] /\ UNCHANGED want

api_request(h) ==
    /\ At(h, "idle") /\ Goto(h, "get")
    /\ \E d \in {"confirm", "cancel"} : want' = [want EXCEPT ![h] = d]
    /\ UNCHANGED <<memory, starter, executor, redis, mine, verdict>>

\* A result that is kept in Redis is the answer.
api_get(h) ==
    /\ At(h, "get") /\ Goto(h, IF result = "none" THEN "reserve" ELSE "answered")
    /\ UNCHANGED <<memory, starter, executor, redis, want, mine, verdict>>

\* SET NX.  A reservation that fails answers None, and the handler looks for
\* False: it goes on in either case.
api_reserve(h) ==
    /\ At(h, "reserve") /\ Goto(h, "resume")
    /\ status' = IF status = "none" THEN "PENDING" ELSE status
    /\ UNCHANGED <<memory, starter, executor, tray, result, want, mine, verdict>>

resume_not_found(h) ==
    /\ At(h, "resume") /\ current = 0 /\ Answer(h, "store", "not_found")
    /\ UNCHANGED <<memory, starter, executor, redis, mine>>

\* The deadline is checked again, whatever the timeout task does.
resume_expired(h) ==
    /\ At(h, "resume") /\ current # 0 /\ late /\ Answer(h, "mark", "expired")
    /\ Clear /\ Decide(current, "expired")
    /\ UNCHANGED <<expiring, starter, executor, redis, mine>>

\* Mutant: a rejected entry stays.
resume_rejected_keeps(h) ==
    /\ At(h, "resume") /\ current # 0 /\ ~late /\ want[h] = "cancel"
    /\ Decide(current, "rejected")
    /\ IF regs[current].saga
       THEN Answer(h, "mark", "rejected") /\ UNCHANGED tray
       ELSE Answer(h, "store", "rejected") /\ tray' = "rejected"
    /\ UNCHANGED <<current, saga_id, late, timer, spent, expiring, starter, executor,
                   status, result, mine>>

\* The user declines.  A saga that runs already is left to run.
resume_rejected(h) ==
    /\ At(h, "resume") /\ current # 0 /\ ~late /\ want[h] = "cancel"
    /\ Clear /\ Decide(current, "rejected")
    /\ IF regs[current].saga
       THEN Answer(h, "mark", "rejected") /\ UNCHANGED tray
       ELSE Answer(h, "store", "rejected") /\ tray' = "rejected"
    /\ UNCHANGED <<expiring, starter, executor, status, result, mine>>

\* Mutant: an execution that failed is done again.
get_or_execute_retries ==
    \E o \in {"success", "failed"} :
        IF outcome = "success" THEN UNCHANGED executor
        ELSE outcome' = o /\ executions' = executions + 1

\* RedisIdempotencyManager.get_or_execute: a kept result, an error the executor
\* has returned included, spares the execution.  (No registered executor raises.)
get_or_execute ==
    \E o \in {"success", "failed"} :
        IF outcome # "none" THEN UNCHANGED executor
        ELSE outcome' = o /\ executions' = executions + 1

\* _execute_now: the result, kept or fresh, decides the answer.
execute_now(h, p) == get_or_execute /\ Answer(h, p, outcome')

Approved(h) == At(h, "resume") /\ current # 0 /\ ~late /\ want[h] = "confirm"

\* No await from the lookup of the entry to its removal.
confirm_traditional(h) ==
    /\ Approved(h) /\ ~regs[current].saga
    /\ execute_now(h, "store")
    /\ Clear /\ Decide(current, "confirmed") /\ tray' = "confirmed"
    /\ UNCHANGED <<expiring, starter, status, result, mine>>

\* The saga has no id yet: execute the action at once.
confirm_fallback(h) ==
    /\ Approved(h) /\ regs[current].saga /\ ~saga_id /\ ~started_id
    /\ execute_now(h, "mark")
    /\ Clear /\ Decide(current, "confirmed")
    /\ UNCHANGED <<expiring, starter, redis, mine>>

\* The entry stays while the orchestrator resumes the saga.
confirm_saga(h) ==
    /\ Approved(h) /\ regs[current].saga /\ (saga_id \/ started_id)
    /\ Goto(h, "saga") /\ mine' = [mine EXCEPT ![h] = current]
    /\ UNCHANGED <<memory, starter, executor, redis, want, verdict>>

\* resume_saga_on_confirm returns: SUCCESS, whatever it reports.  The entry that
\* is cleared is the one held now.
saga_resumed(h) ==
    /\ At(h, "saga") /\ Answer(h, "mark", "success")
    /\ Decide(mine[h], "confirmed") /\ mine' = [mine EXCEPT ![h] = 0]
    /\ Clear
    /\ UNCHANGED <<expiring, starter, executor, redis>>

\* It raises: the entry stays for another try.
saga_raised(h) ==
    /\ At(h, "saga") /\ Answer(h, "store", "failed") /\ mine' = [mine EXCEPT ![h] = 0]
    /\ UNCHANGED <<memory, starter, executor, redis>>

\* Mutant: the answer is taken for the status.
MarkOf_answer(v) == v

\* The status an answer leaves in the tray.
MarkOf(v) == IF v \in {"success", "failed"} THEN "confirmed" ELSE v

mark_pending_status(h) ==
    /\ At(h, "mark") /\ Goto(h, "store") /\ tray' = MarkOf(verdict[h])
    /\ UNCHANGED <<memory, starter, executor, status, result, want, mine, verdict>>

\* SET result, SET status: the answer to this and, for an hour, to any other
\* request.
api_store(h) ==
    /\ At(h, "store") /\ Goto(h, "answered") /\ result' = verdict[h] /\ status' = "DONE"
    /\ UNCHANGED <<memory, starter, executor, tray, want, mine, verdict>>

-----------------------------------------------------------------------------
Router ==
    \/ execute_action \/ deadline_passes \/ expire_pending_confirmation \/ expire_cancelled
    \/ \E r \in 1..Len(regs) : publish_start(r) \/ attach_saga_id(r)
    \/ tray_expires

Resume(h) ==
    \/ resume_not_found(h) \/ resume_expired(h) \/ resume_rejected(h)
    \/ confirm_traditional(h) \/ confirm_fallback(h) \/ confirm_saga(h)
    \/ saga_resumed(h) \/ saga_raised(h) \/ mark_pending_status(h)
Handler(h) == api_get(h) \/ api_reserve(h) \/ Resume(h) \/ api_store(h)

Next == Router \/ \E h \in Handlers : api_request(h) \/ Handler(h)

Spec == Init /\ [][Next]_vars

\* Time passes, and the event loop runs what is ready.
Fairness ==
    /\ WF_vars(deadline_passes) /\ WF_vars(expire_pending_confirmation)
    /\ WF_vars(expire_cancelled)
    /\ \A h \in Handlers : WF_vars(Handler(h))
LiveSpec == Spec /\ Fairness

-----------------------------------------------------------------------------
(* Properties.                                                               *)

\* The executor runs once for an action, however often the action is invoked,
\* confirmed, declined and confirmed again, by saga fallback or directly, and
\* whether it succeeds or not (get_or_execute looks the action up first).
ExecutedOnce == executions <= 1

\* A confirmation outside the saga flow is decided once: of a double click, a
\* cancel and a timeout that cross, one finds the entry.  (No handler awaits
\* between finding the entry and removing it.)
OneDecision ==
    \A r \in 1..Len(regs) : ~regs[r].saga => Len(regs[r].decisions) <= 1

\* An entry does not wait for ever for a user who does not answer, if the
\* timeout task is its own (_schedule_confirmation_timeout).
PendingIsSettled ==
    \A r \in 1..MaxInvokes : (current = r /\ timer = r) ~> current # r
=============================================================================
