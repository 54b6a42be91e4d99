------------------------------ MODULE JobQueue ------------------------------
(* Jobs from the request to the result: POST /v1/actions with its idempotency *)
(* key and its inline execution (api/actions_endpoint.py), the older          *)
(* submissions (api/job_queue.py, api/path.py), cancellation                  *)
(* (api/jobs_routes.py), the Redis queue (infrastructure/redis/queue.py), the *)
(* scheduler (infrastructure/scheduler.py) and the workers                    *)
(* (infrastructure/redis/worker.py).  The API is one process; each worker and *)
(* each scheduler is a process of its own, on the same SQLite file.           *)
EXTENDS Integers, FiniteSets

CONSTANTS
    Requests,       \* the calls that submit a job; the job of a call has its name
    Keys, NoKey,    \* idempotency keys
    Hashes,         \* values of input_hash
    Calls,          \* what the calls ask for: request -> key, hash and kind, which
                    \* is what the policy decides ("fast" runs inline, "batch" is
                    \* queued, "later" has a not_before) or an older submission
    Workers, Schedulers,
    MaxFaults,      \* bound on errors, crashes and slow clocks
    NoJob

ASSUME JobQueueAssumption ==
    /\ NoKey \notin Keys /\ NoJob \notin Requests \cup Workers /\ Requests \cap Workers = {}
    /\ Calls \subseteq [Requests -> [kind : {"fast", "batch", "later", "submit", "path"},
                                    key : Keys \cup {NoKey}, hash : Hashes]]
    /\ \A c \in Calls : \A r \in Requests :
          c[r].kind \in {"submit", "path"} => c[r].key = NoKey
    /\ MaxFaults \in Nat

VARIABLES
    call,           \* request: its kind, key and hash
    rows,           \* jobs: request -> status, or "none"
    started,        \* jobs.started_at: who wrote it
    queue,          \* the sorted set q:*
    scheduled,      \* the sorted set of jobs that wait for their time
    due,            \* the jobs whose not_before has passed
    pc, answer,     \* request: where its coroutine is, the job it has answered with
    worker,         \* worker: where it is in process_job, and its job
    scheduler,      \* scheduler: the same
    cancelling,     \* the job of the cancellation that has read "queued"
    completed,      \* history: job -> executions that came back with a result
    lost,           \* history: the jobs a fault has dropped before their end
    faults

table == <<rows, started>>
redis == <<queue, scheduled, due>>
api == <<pc, answer>>
vars == <<call, table, redis, api, worker, scheduler, cancelling, completed, lost, faults>>

Idle == [at |-> "idle", job |-> NoJob]
Dead == [at |-> "dead", job |-> NoJob]

Init ==
    /\ call \in Calls
    /\ rows = [r \in Requests |-> "none"]
    /\ started = [r \in Requests |-> NoJob]
    /\ queue = {} /\ scheduled = {} /\ due = {}
    /\ pc = [r \in Requests |-> "lookup"]
    /\ answer = [r \in Requests |-> NoJob]
    /\ worker = [w \in Workers |-> Idle] /\ scheduler = [s \in Schedulers |-> Idle]
    /\ cancelling = NoJob
    /\ completed = [r \in Requests |-> 0]
    /\ lost = {}
    /\ faults = 0

fault == faults < MaxFaults /\ faults' = faults + 1

-----------------------------------------------------------------------------
(* The API process.  Its coroutines change only at an await: no other one runs *)
(* between the two statements of a cancellation.                             *)

\* The request is at p and its coroutine may run.
At(r, p) == pc[r] = p /\ cancelling = NoJob

Existing(r) == {j \in Requests : /\ rows[j] # "none" /\ call[r].key # NoKey
                                 /\ call[j].key = call[r].key}

\* The answer for a key that has a job: the row, or 409 for another payload.
answer_existing(r) ==
    \E j \in Existing(r) :
        IF call[j].hash = call[r].hash
        THEN answer' = [answer EXCEPT ![r] = j] /\ pc' = [pc EXCEPT ![r] = "answered"]
        ELSE pc' = [pc EXCEPT ![r] = "error"] /\ UNCHANGED answer

\* The first look at the key; rate limits and policy are awaited before the insert.
lookup(r) ==
    /\ At(r, "lookup")
    /\ IF Existing(r) # {} THEN answer_existing(r)
       ELSE pc' = [pc EXCEPT ![r] = "insert"] /\ UNCHANGED answer
    /\ UNCHANGED <<call, table, redis, worker, scheduler, cancelling, completed, lost, faults>>

\* INSERT INTO jobs; idx_jobs_user_idempotency makes the second of two inserts
\* with one key an IntegrityError.
insert_twice(r) ==  \* Mutant: no unique index
    /\ At(r, "insert")
    /\ rows' = [rows EXCEPT ![r] = "queued"]
    /\ pc' = [pc EXCEPT ![r] = IF call[r].kind \in {"submit", "path"} THEN "enqueue" ELSE "bump"]
    /\ UNCHANGED <<call, started, redis, answer, worker, scheduler, cancelling, completed, lost, faults>>
insert_enqueues(r) ==  \* Mutant: the job is put into the queue before it is run inline
    /\ At(r, "insert") /\ Existing(r) = {}
    /\ rows' = [rows EXCEPT ![r] = "queued"]
    /\ queue' = queue \cup {r}
    /\ pc' = [pc EXCEPT ![r] = IF call[r].kind \in {"submit", "path"} THEN "enqueue" ELSE "bump"]
    /\ UNCHANGED <<call, started, scheduled, due, answer, worker, scheduler, cancelling, completed,
                   lost, faults>>
insert(r) ==
    /\ At(r, "insert")
    /\ \/ /\ Existing(r) # {} /\ answer_existing(r)
          /\ UNCHANGED <<rows, faults>>
       \/ /\ Existing(r) = {}
          /\ rows' = [rows EXCEPT ![r] = "queued"]
          /\ pc' = [pc EXCEPT ![r] = IF call[r].kind \in {"submit", "path"} THEN "enqueue" ELSE "bump"]
          /\ UNCHANGED <<answer, faults>>
       \/ /\ fault /\ pc' = [pc EXCEPT ![r] = "error"]
          /\ UNCHANGED <<rows, answer>>
    /\ UNCHANGED <<call, started, redis, worker, scheduler, cancelling, completed, lost>>

\* bump_usage: an error of Redis is an error of the request, the row stays.
bump_usage(r) ==
    /\ At(r, "bump")
    /\ \/ /\ pc' = [pc EXCEPT ![r] = IF call[r].kind = "fast" THEN "inline" ELSE "enqueue"]
          /\ UNCHANGED <<lost, faults>>
       \/ /\ fault /\ pc' = [pc EXCEPT ![r] = "error"] /\ lost' = lost \cup {r}
    /\ UNCHANGED <<call, table, redis, answer, worker, scheduler, cancelling, completed>>

\* The inline claim does not look whether it has changed a row.
inline_claim(r) ==
    /\ At(r, "inline")
    /\ \/ /\ IF rows[r] = "queued"
             THEN rows' = [rows EXCEPT ![r] = "running"] /\ started' = [started EXCEPT ![r] = r]
             ELSE UNCHANGED table
          /\ \/ pc' = [pc EXCEPT ![r] = "execute"] /\ UNCHANGED faults
             \/ pc' = [pc EXCEPT ![r] = "except"] /\ fault
       \/ /\ fault /\ pc' = [pc EXCEPT ![r] = "except"] /\ UNCHANGED table
    /\ UNCHANGED <<call, redis, answer, worker, scheduler, cancelling, completed, lost>>

\* execute_action has a result within fast_timeout_sec.
inline_done(r) ==
    /\ At(r, "execute")
    /\ completed' = [completed EXCEPT ![r] = @ + 1]
    /\ \/ /\ rows' = [rows EXCEPT ![r] = "done"]
          /\ pc' = [pc EXCEPT ![r] = "publish"] /\ UNCHANGED faults
       \/ /\ fault /\ pc' = [pc EXCEPT ![r] = "except"] /\ UNCHANGED rows
    /\ UNCHANGED <<call, started, redis, answer, worker, scheduler, cancelling, lost>>

inline_publish(r) ==
    /\ At(r, "publish")
    /\ \/ /\ answer' = [answer EXCEPT ![r] = r]
          /\ pc' = [pc EXCEPT ![r] = "answered"] /\ UNCHANGED faults
       \/ /\ fault /\ pc' = [pc EXCEPT ![r] = "except"] /\ UNCHANGED answer
    /\ UNCHANGED <<call, table, redis, worker, scheduler, cancelling, completed, lost>>

\* wait_for has cancelled execute_action: back to queued, then to the queue.
inline_timeout_forgets(r) ==  \* Mutant: reverted to queued and answered, not enqueued
    /\ At(r, "execute")
    /\ rows' = [rows EXCEPT ![r] = "queued"] /\ started' = [started EXCEPT ![r] = NoJob]
    /\ pc' = [pc EXCEPT ![r] = "answered"] /\ answer' = [answer EXCEPT ![r] = r]
    /\ UNCHANGED <<call, redis, worker, scheduler, cancelling, completed, lost, faults>>
inline_timeout(r) ==
    /\ At(r, "execute")
    /\ \/ /\ rows' = [rows EXCEPT ![r] = "queued"] /\ started' = [started EXCEPT ![r] = NoJob]
          /\ pc' = [pc EXCEPT ![r] = "enqueue"] /\ UNCHANGED faults
       \/ /\ fault /\ pc' = [pc EXCEPT ![r] = "except"] /\ UNCHANGED table
    /\ UNCHANGED <<call, redis, answer, worker, scheduler, cancelling, completed, lost>>

inline_raises(r) ==
    /\ At(r, "execute")
    /\ pc' = [pc EXCEPT ![r] = "except"]
    /\ UNCHANGED <<call, table, redis, answer, worker, scheduler, cancelling, completed, lost, faults>>

\* The except branches write failed, whatever the row says.
inline_except(r) ==
    /\ At(r, "except")
    /\ \/ /\ rows' = [rows EXCEPT ![r] = "failed"]
          /\ answer' = [answer EXCEPT ![r] = r]
          /\ pc' = [pc EXCEPT ![r] = "answered"] /\ UNCHANGED <<lost, faults>>
       \/ /\ fault /\ pc' = [pc EXCEPT ![r] = "error"] /\ lost' = lost \cup {r}
          /\ UNCHANGED <<rows, answer>>
    /\ UNCHANGED <<call, started, redis, worker, scheduler, cancelling, completed>>

\* hub.schedule or hub.enqueue.
push(r) ==
    IF call[r].kind = "later" THEN scheduled' = scheduled \cup {r} /\ UNCHANGED queue
                              ELSE queue' = queue \cup {r} /\ UNCHANGED scheduled
enqueue(r) ==
    /\ At(r, "enqueue")
    /\ \/ /\ push(r)
          /\ \/ /\ pc' = [pc EXCEPT ![r] = "answered"] /\ answer' = [answer EXCEPT ![r] = r]
                /\ UNCHANGED faults
             \/ /\ fault /\ pc' = [pc EXCEPT ![r] = "error"] /\ UNCHANGED answer
          /\ UNCHANGED lost
       \/ /\ fault /\ pc' = [pc EXCEPT ![r] = "error"] /\ lost' = lost \cup {r}
          /\ UNCHANGED <<queue, scheduled, answer>>
    /\ UNCHANGED <<call, table, due, worker, scheduler, cancelling, completed>>

\* POST /v1/jobs/{job_id}/cancel: a read, then an update that does not ask again.
cancel_read(j) ==
    /\ cancelling = NoJob /\ rows[j] = "queued"
    /\ cancelling' = j
    /\ UNCHANGED <<call, table, redis, api, worker, scheduler, completed, lost, faults>>

cancel_update ==
    /\ cancelling # NoJob
    /\ \/ rows' = [rows EXCEPT ![cancelling] = "cancelled"] /\ UNCHANGED faults
       \/ fault /\ UNCHANGED rows
    /\ cancelling' = NoJob
    /\ UNCHANGED <<call, started, redis, api, worker, scheduler, completed, lost>>

\* The process dies with all its coroutines.
InFlight == {r \in Requests : pc[r] \notin {"lookup", "answered", "error"}}
api_crash ==
    /\ InFlight # {} /\ fault
    /\ pc' = [r \in Requests |-> IF r \in InFlight THEN "error" ELSE pc[r]]
    /\ lost' = lost \cup {r \in InFlight : rows[r] # "none"}
    /\ cancelling' = NoJob
    /\ UNCHANGED <<call, table, redis, answer, worker, scheduler, completed>>

-----------------------------------------------------------------------------
(* scheduler_loop.                                                           *)

time_passes(j) ==
    /\ j \in scheduled \ due
    /\ due' = due \cup {j}
    /\ UNCHANGED <<call, table, queue, scheduled, api, worker, scheduler, cancelling, completed,
                   lost, faults>>

\* peek_next_schedule, in the loop and again in pop_due_scheduled: an item is due.
peek(s) ==
    /\ scheduler[s].at = "idle"
    /\ \E j \in scheduled \cap due :
          scheduler' = [scheduler EXCEPT ![s] = [at |-> "zrem", job |-> j]]
    /\ UNCHANGED <<call, table, redis, api, worker, cancelling, completed, lost, faults>>

\* ZREM tells which of two schedulers has taken the item; an error ends the loop.
pop_due_scheduled(s) ==
    LET j == scheduler[s].job IN
    /\ scheduler[s].at = "zrem"
    /\ \/ /\ scheduled' = scheduled \ {j}
          /\ scheduler' = [scheduler EXCEPT ![s] = IF j \in scheduled
                                                      THEN [@ EXCEPT !.at = "enqueue"] ELSE Idle]
          /\ UNCHANGED <<lost, faults>>
       \/ /\ fault /\ scheduler' = [scheduler EXCEPT ![s] = Dead]
          /\ \/ UNCHANGED <<scheduled, lost>>
             \/ /\ j \in scheduled
                /\ scheduled' = scheduled \ {j} /\ lost' = lost \cup {j}
    /\ UNCHANGED <<call, table, queue, due, api, worker, cancelling, completed>>

\* An error drops the item "on floor (job still in DB)".
schedule_enqueue_payload(s) ==  \* Mutant: the item is used after the local has been reset
    /\ scheduler[s].at = "enqueue"
    /\ scheduler' = [scheduler EXCEPT ![s] = Idle]
    /\ queue' = queue \cup {scheduler'[s].job}
    /\ UNCHANGED <<call, table, scheduled, due, api, worker, cancelling, completed, lost, faults>>
schedule_enqueue(s) ==
    /\ scheduler[s].at = "enqueue"
    /\ \/ queue' = queue \cup {scheduler[s].job} /\ UNCHANGED <<lost, faults>>
       \/ fault /\ lost' = lost \cup {scheduler[s].job} /\ UNCHANGED queue
    /\ scheduler' = [scheduler EXCEPT ![s] = Idle]
    /\ UNCHANGED <<call, table, scheduled, due, api, worker, cancelling, completed>>

scheduler_crash(s) ==
    /\ scheduler[s].at \in {"zrem", "enqueue"} /\ fault
    /\ scheduler' = [scheduler EXCEPT ![s] = Dead]
    /\ lost' = IF scheduler[s].at = "enqueue" THEN lost \cup {scheduler[s].job} ELSE lost
    /\ UNCHANGED <<call, table, redis, api, worker, cancelling, completed>>

\* The container starts again.
scheduler_restart(s) ==
    /\ scheduler[s].at = "dead"
    /\ scheduler' = [scheduler EXCEPT ![s] = Idle]
    /\ UNCHANGED <<call, table, redis, api, worker, cancelling, completed, lost, faults>>

-----------------------------------------------------------------------------
(* worker_loop and process_job.  What escapes process_job ends the process.   *)

\* BZPOPMIN: from here on the job is in the memory of the worker only.
dequeue(w) ==
    /\ worker[w].at = "idle"
    /\ \E j \in queue :
          /\ queue' = queue \ {j}
          /\ \/ worker' = [worker EXCEPT ![w] = [at |-> "read", job |-> j]] /\ UNCHANGED <<lost, faults>>
             \/ fault /\ worker' = [worker EXCEPT ![w] = Dead] /\ lost' = lost \cup {j}
    /\ UNCHANGED <<call, table, scheduled, due, api, scheduler, cancelling, completed>>

\* The row is read: a status other than queued ends the job here, and so does a
\* clock behind that of the scheduler.
read(w) ==
    LET j == worker[w].job IN
    /\ worker[w].at = "read"
    /\ \/ /\ rows[j] # "queued"
          /\ worker' = [worker EXCEPT ![w] = Idle] /\ UNCHANGED <<lost, faults>>
       \/ /\ rows[j] = "queued"
          /\ worker' = [worker EXCEPT ![w].at = IF call[j].kind = "path" THEN "path" ELSE "claim"]
          /\ UNCHANGED <<lost, faults>>
       \/ /\ rows[j] = "queued" /\ call[j].kind = "later" /\ fault
          /\ worker' = [worker EXCEPT ![w] = Idle] /\ lost' = lost \cup {j}
       \/ /\ fault /\ worker' = [worker EXCEPT ![w] = Dead] /\ lost' = lost \cup {j}
    /\ UNCHANGED <<call, table, redis, api, scheduler, cancelling, completed>>

\* process_path_node_generation: claimed, then publish is called with an argument
\* "channel" that RedisEventBroker.publish does not have, outside of its try; an
\* UPDATE that raises is only logged.
path_claim(w) ==
    LET j == worker[w].job IN
    /\ worker[w].at = "path"
    /\ \/ /\ IF rows[j] = "queued"
             THEN rows' = [rows EXCEPT ![j] = "running"] /\ started' = [started EXCEPT ![j] = w]
             ELSE UNCHANGED table
          /\ worker' = [worker EXCEPT ![w] = Dead] /\ UNCHANGED faults
       \/ fault /\ worker' = [worker EXCEPT ![w] = Idle] /\ UNCHANGED table
    /\ lost' = lost \cup {j}
    /\ UNCHANGED <<call, redis, api, scheduler, cancelling, completed>>

\* UPDATE ... WHERE status = 'queued'; an error before correlation_id has a value
\* writes failed and then raises again.
claim_any(w) ==  \* Mutant: no "AND status='queued'"
    LET j == worker[w].job IN
    /\ worker[w].at = "claim"
    /\ rows' = [rows EXCEPT ![j] = "running"] /\ started' = [started EXCEPT ![j] = w]
    /\ worker' = [worker EXCEPT ![w].at = "check"]
    /\ UNCHANGED <<call, redis, api, scheduler, cancelling, completed, lost, faults>>
claim(w) ==
    LET j == worker[w].job IN
    /\ worker[w].at = "claim"
    /\ \/ /\ IF rows[j] = "queued"
             THEN rows' = [rows EXCEPT ![j] = "running"] /\ started' = [started EXCEPT ![j] = w]
             ELSE UNCHANGED table
          /\ worker' = [worker EXCEPT ![w].at = "check"] /\ UNCHANGED faults
       \/ /\ fault /\ worker' = [worker EXCEPT ![w].at = "except_unbound"] /\ UNCHANGED table
    /\ UNCHANGED <<call, redis, api, scheduler, cancelling, completed, lost>>

\* The row is read again: did the update change it?
check_claim(w) ==
    LET j == worker[w].job IN
    /\ worker[w].at = "check"
    /\ \/ /\ worker' = [worker EXCEPT ![w] = IF rows[j] = "running" /\ started[j] = w
                                          THEN [@ EXCEPT !.at = "execute"] ELSE Idle]
          /\ UNCHANGED faults
       \/ /\ fault /\ worker' = [worker EXCEPT ![w].at = "except_unbound"]
    /\ UNCHANGED <<call, table, redis, api, scheduler, cancelling, completed, lost>>

work_done(w) ==
    LET j == worker[w].job IN
    /\ worker[w].at = "execute"
    /\ completed' = [completed EXCEPT ![j] = @ + 1]
    /\ \/ /\ rows' = [rows EXCEPT ![j] = "done"]
          /\ worker' = [worker EXCEPT ![w].at = "publish"] /\ UNCHANGED faults
       \/ /\ fault /\ worker' = [worker EXCEPT ![w].at = "except"] /\ UNCHANGED rows
    /\ UNCHANGED <<call, started, redis, api, scheduler, cancelling, lost>>

work_raises(w) ==
    /\ worker[w].at = "execute"
    /\ worker' = [worker EXCEPT ![w].at = "except"]
    /\ UNCHANGED <<call, table, redis, api, scheduler, cancelling, completed, lost, faults>>

publish(w) ==
    /\ worker[w].at = "publish"
    /\ \/ worker' = [worker EXCEPT ![w] = Idle] /\ UNCHANGED faults
       \/ worker' = [worker EXCEPT ![w].at = "except"] /\ fault
    /\ UNCHANGED <<call, table, redis, api, scheduler, cancelling, completed, lost>>

work_except(w) ==
    LET j == worker[w].job IN
    /\ worker[w].at \in {"except", "except_unbound"}
    /\ \/ /\ rows' = [rows EXCEPT ![j] = "failed"]
          /\ \/ /\ worker' = [worker EXCEPT ![w] = IF @.at = "except" THEN Idle ELSE Dead]
                /\ UNCHANGED faults
             \/ worker' = [worker EXCEPT ![w] = Dead] /\ fault
          /\ UNCHANGED lost
       \/ /\ fault /\ worker' = [worker EXCEPT ![w] = Dead] /\ lost' = lost \cup {j}
          /\ UNCHANGED rows
    /\ UNCHANGED <<call, started, redis, api, scheduler, cancelling, completed>>

worker_crash(w) ==
    /\ worker[w].at \notin {"idle", "dead"} /\ fault
    /\ worker' = [worker EXCEPT ![w] = Dead]
    /\ lost' = lost \cup {worker[w].job}
    /\ UNCHANGED <<call, table, redis, api, scheduler, cancelling, completed>>

worker_restart(w) ==
    /\ worker[w].at = "dead"
    /\ worker' = [worker EXCEPT ![w] = Idle]
    /\ UNCHANGED <<call, table, redis, api, scheduler, cancelling, completed, lost, faults>>

-----------------------------------------------------------------------------
RequestStep(r) ==
    \/ lookup(r) \/ insert(r) \/ bump_usage(r) \/ inline_claim(r) \/ inline_done(r)
    \/ inline_publish(r) \/ inline_timeout(r) \/ inline_raises(r) \/ inline_except(r)
    \/ enqueue(r)

SchedulerStep(s) ==
    peek(s) \/ pop_due_scheduled(s) \/ schedule_enqueue(s) \/ scheduler_restart(s)

WorkerStep(w) ==
    \/ dequeue(w) \/ read(w) \/ path_claim(w) \/ claim(w) \/ check_claim(w) \/ work_done(w)
    \/ work_raises(w) \/ publish(w) \/ work_except(w) \/ worker_restart(w)

Next ==
    \/ \E r \in Requests : RequestStep(r) \/ cancel_read(r) \/ time_passes(r)
    \/ cancel_update
    \/ api_crash
    \/ \E s \in Schedulers : SchedulerStep(s) \/ scheduler_crash(s)
    \/ \E w \in Workers : WorkerStep(w) \/ worker_crash(w)

Spec == Init /\ [][Next]_vars

\* Coroutines that can go on do, time passes, execute_action returns, raises or
\* times out, and a container that has ended is started again.
LiveSpec ==
    /\ Spec
    /\ WF_vars(cancel_update)
    /\ \A r \in Requests : WF_vars(RequestStep(r)) /\ WF_vars(time_passes(r))
    /\ \A s \in Schedulers : WF_vars(SchedulerStep(s))
    /\ \A w \in Workers : WF_vars(WorkerStep(w))

-----------------------------------------------------------------------------
Statuses == {"none", "queued", "running", "done", "failed", "cancelled"}
TypeOK ==
    /\ rows \in [Requests -> Statuses]
    /\ started \in [Requests -> Requests \cup Workers \cup {NoJob}]
    /\ queue \subseteq Requests /\ scheduled \subseteq Requests /\ due \subseteq Requests
    /\ pc \in [Requests -> {"lookup", "insert", "bump", "inline", "execute", "publish", "except",
                            "enqueue", "answered", "error"}]
    /\ answer \in [Requests -> Requests \cup {NoJob}]
    /\ worker \in [Workers -> [at : {"idle", "read", "path", "claim", "check", "execute", "publish",
                                     "except", "except_unbound", "dead"},
                               job : Requests \cup {NoJob}]]
    /\ scheduler \in [Schedulers -> [at : {"idle", "zrem", "enqueue", "dead"},
                                     job : Requests \cup {NoJob}]]
    /\ cancelling \in Requests \cup {NoJob}
    /\ completed \in [Requests -> Nat]
    /\ lost \subseteq Requests
    /\ faults \in 0..MaxFaults

\* Those who are executing a job.
Executors(j) == {r \in Requests : r = j /\ pc[r] = "execute"}
                \cup {w \in Workers : worker[w].at = "execute" /\ worker[w].job = j}

\* A job is executed by one at a time, and not again once an execution has come back
\* with a result, inline, by a worker, after a timeout, whatever fails: the user pays
\* for one result (the claim of process_job, the order of insert and enqueue).
RunsOnce == \A j \in Requests : Cardinality(Executors(j)) + completed[j] <= 1

\* An idempotency key has one job, and every caller that gets a job for the key gets
\* that one, also when their requests overlap.
KeyNamesOneJob ==
    \A r, q \in Requests :
        call[r].key = call[q].key /\ call[r].key # NoKey =>
            /\ rows[r] # "none" /\ rows[q] # "none" => r = q
            /\ answer[r] # NoJob /\ answer[q] # NoJob => answer[r] = answer[q]
            /\ answer[r] # NoJob => call[answer[r]].hash = call[r].hash

\* An execution of the job, or the report of an error about it, is under way.
Committed(j) ==
    \/ call[j].kind = "fast" /\ pc[j] \in {"bump", "inline", "execute", "publish", "except"}
    \/ \E w \in Workers : /\ worker[w].job = j
                          /\ worker[w].at \in {"execute", "publish", "except", "except_unbound"}

\* A cancellation that comes before that holds: the job stays cancelled and is not
\* run, although its item is still in the queue, a worker that had read "queued" is
\* about to claim it, or an inline timeout or the scheduler will enqueue it yet.
CancelledStays ==
    [][\A j \in Requests :
          rows[j] = "cancelled" /\ ~Committed(j) =>
              rows'[j] = "cancelled" /\ Executors(j)' = {}]_vars

\* Every job that was inserted ends, or it was dropped where this module says so
\* ("lost"): by an error or a crash, or, of a path job, by the publish of its worker,
\* which always raises.  No order of steps alone loses another job.
JobsEnd ==
    \A j \in Requests :
        rows[j] # "none" ~> rows[j] \in {"done", "failed", "cancelled"} \/ j \in lost
=============================================================================
