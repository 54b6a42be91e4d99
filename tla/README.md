# Formal models of Seed Server

TLA+ models of the concurrent core of Seed Server (`src/` is the repository): the
saga orchestrator with its flows and recovery, the distributed lock under it, the
circuit breakers beside it, the action router that turns a user's
confirmation into a saga or an execution, the event bus and the dead letters at
both ends of a saga, the order saga over its inventory ledger, the executor of
flow graphs, and the job queue with its workers. TLC checks them on small
instances; TLAPS proves what matters most for every value of the constants.

Paths below are relative to `src/app/`: `sagas/` stands for `core/realtime/sagas/`,
`engine/` for `infrastructure/realtime/engine/`.

## 1. The system

Seed Server is a FastAPI backend. An LLM proposes *actions*; an action that needs
the user's consent waits as a *pending confirmation*; once confirmed it is executed
at once or carried out by a *saga*, a plan of adapter calls with compensations,
stored in PostgreSQL and protected by a lock in Redis. Several server processes and a
worker process run the same code against the same PostgreSQL and Redis.

```
 HTTP / WebSocket                      saga_event_bus (Redis stream)
      |                                        |
 actions_saga_routes, ws_consumers ---> ActionRouter ---> SagaOrchestrator <--- background_workers,
      |                                 |   (memory)        |      |   |           saga_health (operator)
      +-- idempotency:confirm:* (Redis) |                   |      |   +-- saga_dlq
                      pending_store ----+   DistributedLock-+      +-- flows/legacy --> CircuitBreaker --> adapters
                      executors                (Redis, advisory lock)

 POST /v1/actions, jobs ---> jobs (SQLite) <--- workers, schedulers <--- Redis queues
      (actions_endpoint, job_queue, jobs_routes)   (infrastructure/redis, scheduler)

 flows: orchestrator.execute_step_plan <--- neoeats_order (inventory ledger, PostgreSQL),
                                            flow_executor (graph, levels), llm_pipeline
```

### Inventory

| Component (code) | State it keeps | Operations | What is hard | What makes it correct |
|---|---|---|---|---|
| Saga orchestrator (`sagas/orchestrator.py`) | row of `sagas`, `saga_idempotency`, `compensation_history`, `saga_dlq_messages` | `start_saga`, `_run_saga`, `resume_saga_on_confirm`, `_compensate_saga`, `_check_saga_timeout`, archive, replay | the runner works without the lock; compensation is called from inside and outside the lock; crash at any await; database outage | one plan per action; terminal states tell the truth about what the adapters were asked and answered; no adapter is asked again after its answer; lock discipline; nothing stays stuck |
| Legacy flows (`sagas/flows/legacy.py`) | step records, in memory until saved | `run`, `resume` | the pause for the user; breaker refusals; failure in the middle; partial success | as above |
| Recovery (`sagas/background_workers.py`, `sagas/saga_health.py`) | none | scan and compensate; operator's recover and reset | acts on rows it has read earlier | does not compensate what has succeeded |
| Distributed lock (`engine/locks.py`) | Redis key with TTL, tokens, refresh tasks, advisory locks | `acquire`, `release`, `_refresh_redis_lock` | lost replies, outage between acquire and release, fallback to another lock | mutual exclusion; comes free |
| Circuit breaker (`engine/circuit_breaker.py`) | state and counters per process, a copy in Redis | `can_execute`, `record_*`, `load_state` | late outcomes, copies out of date | thresholds mean what they say; reopens |
| Action router (`core/realtime/action_router.py`), routes, consumer, tray | `_pending_confirmations`, timeout tasks, pending starts; Redis: tray, reservation, results | invoke, confirm, cancel, expire, attach saga id | requests that cross each other, the timeout and a start that is on its way | one decision, one execution, no confirmation for ever |
| Booking adapter (`infrastructure/realtime/adapters/booking.py`) | provider records | reserve, confirm, compensate | called again after a failure | — (the calls to it appear in the orchestrator's model, its records do not) |
| Idempotency across processes (`core/realtime/redis_idempotency.py`) | `idempotency:<id>:*` | `get_or_execute` | check and mark are two commands | one execution per id |
| NeoEats order (`sagas/flows/neoeats_order.py`, `core/neoeats_blocks.py`) | lots, reservations and their lines, receipt, journal | resolve, reserve, charge, post, commit; release as compensation | transactions of several orders on the same rows; errors and lost answers at every statement; recovery beside the order | stock adds up; nothing sold twice; succeeded means committed; a failure gives back |
| Flow executor (`sagas/flows/flow_executor.py`, `core/flow_graph.py`) | graph, levels, skipped nodes, outputs | sort, group, run a level, route, aggregate | coroutines of a level that fill sets others read; cycles, duplicates, retries, one failure of several | order respects the graph; cycles refused; skips propagate and leave joins alone; success is complete |
| Event bus (`sagas/saga_event_bus.py`) | Redis stream, consumer group, a queue in memory | publish, consume, ack | crash or exception between delivery and ack; duplicate starts; a server cut off from Redis | the saga runs once and ends |
| DLQ (`sagas/saga_dlq.py`, `dlq_maintenance.py`, `saga_replay.py`) | messages and retry counters | add, retry, purge, replay | replay of a saga that is being recovered | a plan runs as often as it was asked for |
| Jobs (`api/actions_endpoint.py`, `api/job_queue.py`, `api/jobs_routes.py`, `infrastructure/redis/queue.py`, `worker.py`, `infrastructure/scheduler.py`) | rows of `jobs`, sorted sets in Redis | submit, run inline, enqueue, schedule, claim, execute, cancel | crash between pop and claim; inline timeout; cancellation beside a claim; overlapping requests with one key | one result; one job per key; a cancellation holds; no order of steps loses a job |
| Agent sessions, budgets (`core/agent`) | counters | consume, split, merge | nested budgets | children stay within their parent |
| Module registry, SDK, publication (`module_sdk`, `services/module_registry.py`) | package files, evidence, versions | qualify, approve, publish, deprecate, roll back | order of gates, stale evidence | nothing is published unqualified |
| Console control plane (`api/console`) | runs in memory | start, poll, resume | background runs | — |
| Rate limiter, LLM budget, tenant quotas | counters and windows | allow, record, reset | boundaries of windows | limits hold |
| Gateway (`api/ws`, SSE) | connections | send, receive | reconnects | — |
| Governance, marketplace, billing, webhooks; lessons, diagnostics, photos, opportunity; LLM clients; simulation; catalog and front end; operations around sagas (audit, telemetry, alerts) | SQLite rows, files | CRUD | mostly sequential | — |

`PROJECT.json` lists every component with its status and reason, and the hazards
of the code line by line.

## 2. Modules

| Module | Models | Extended by |
|---|---|---|
| `SagaMutex` | the abstract lock: one holder; instantiated by `DistributedLock` and `SagaOrchestratorProofs` | — |
| `Inventory` | the abstract ledger: reservations and releases as single steps; instantiated by `OrderSaga` | — |
| `DistributedLock` | `engine/locks.py` | `MCDistributedLock`, `DistributedLockProofs` |
| `SagaOrchestrator` | `sagas/orchestrator.py`, `flows/legacy.py` (`BookingFlow`, `CareerGrowthFlow`), recovery, archive, replay; the calls to the adapters | `MCSagaOrchestrator`, `SagaOrchestratorProofs` |
| `CircuitBreaker` | `engine/circuit_breaker.py`, `init_async`, the operator's reset | `MCCircuitBreaker`, `CircuitBreakerProofs` |
| `ActionRouter` | `core/realtime/action_router.py`, `api/actions_saga_routes.py`, `pending_store.py`, `redis_idempotency.py` within one process | `MCActionRouter`, `ActionRouterProofs` |
| `SagaIntake` | `sagas/saga_event_bus.py`, its consumer in `infrastructure/app_wiring.py`, `start_saga` and `_run_saga` in several servers, recovery, replay, dead letters | `MCSagaIntake`, `SagaIntakeProofs` |
| `OrderSaga` | `sagas/flows/neoeats_order.py`, `InventoryBlock` of `core/neoeats_blocks.py`, `execute_step_plan` | `MCOrderSaga`, `OrderSagaProofs` |
| `FlowExecutor` | `sagas/flows/flow_executor.py`, `validated_flow_executor.py`, `core/flow_graph.py`, routing blocks | `MCFlowExecutor`, `FlowExecutorProofs` |
| `JobQueue` | `api/actions_endpoint.py`, `job_queue.py`, `jobs_routes.py`, `infrastructure/redis`, `scheduler.py`, `services/path/worker.py` | `MCJobQueue`, `JobQueueProofs` |

Operators named `x_something` next to an operator `x` and commented "Mutant" are
deliberately wrong variants of `x`: `PROJECT.json` "mutants" says which property
fails when one takes the place of `x`.

### SagaOrchestrator

One saga, hence one row of each table; sagas share nothing but breakers. A *task*
is a coroutine in a call of the orchestrator; its program counter names the await
it has reached (`s_` start, `r_` run, `c_` compensate, `u_` resume, `v_` recover, `p_`
replay), and one action is the code from one access to shared state to the next.

| Variable | Code |
|---|---|
| `state`, `steps`, `expired` | columns of `sagas`; `expired` is `NOW() > expires_at` |
| `lock` | the key `saga:lock:<id>:state`; `Orphan` when its holder has died |
| `idem`, `history`, `dlq` | `saga_idempotency`, `compensation_history`, `saga_dlq_messages` |
| `world` | the step calls the adapters have answered, and of each effect: `standing`, no compensation has been called for it since it was made or put back; `answered`, one has returned; `again`, one was called after another had returned |
| `snap`, `at`, `todo`, `results`, `cops` | locals `steps`, position in the plan, steps still to compensate, `compensation_results`, `compensation_ops` |
| `after` | who has called `_compensate_saga` |
| `retry`, `mine`, `res` | `attempt` of a wait for the lock or of `retry_with_backoff`, the row was inserted or claimed here, the result to record |

Abstractions.

- *The adapters.* The model has when `compensate` is called, how often, and how the call ends; `retry_with_backoff` around it is
  modelled call by call (a `TransientAdapterError` is retried, whether or not the call was carried out; a timeout and any other error is
  not, `engine/retry.py:49`). It has no record of what a provider makes of a call, because the adapters of the repository make nothing of it:
  the orchestrator adds `_compensation_context` to the payload (`orchestrator.py:1917`), and `BookingAdapter.compensate`
  (`booking.py:96`) and `CalendarAdapter.compensate` (`calendar.py:77`) cancel the records whose payload is *equal*, hence none, and answer
  "cancelled"; the education adapter answers "noop" (`saga_integration.py:463`). So the properties say that an adapter has been asked and
  has answered, never that an effect is gone. The attempts of a *reserve* are one step: it answers, or it fails.
- *The confirmation.* `BookingAdapter.confirm` confirms the reservation the client names, any it knows
  (`booking.py:63`); it succeeds or fails, and which reservation it was is not kept. What `BookingFlow.resume` does before
  (it puts the reservations of the row back into the adapter as pending, `legacy.py:196`) is `Repopulated`.
- *Records.* Only records of compensatable, succeeded steps are kept, the only ones read back.
- *The row's JSON is decoded.* This is an assumption: it is so with an `AsyncDatabaseProtocol` that decodes `jsonb`. `AsyncPGDatabase`
  (`infrastructure/db/postgres.py:39`) sets no codec and `_get_saga` (`orchestrator.py:2045`) does not decode, so with it `steps` is a string, and
  code that appends to it raises.
- A process' idempotency cache is a copy of the table: one map stands for both.
- The lock is an atomic `SagaMutex` whose key can outlive a dead holder; `DistributedLock` says when this is justified.

### DistributedLock and SagaMutex

Tasks in processes; a process has the dictionaries of its `DistributedLock` object
(`tokens`, `refreshers`, `registered`, `db_held`, `db_conn`). Every command to Redis
or PostgreSQL is split into its execution and the processing of its reply, so an
outage can fall in between and a command may have been executed although it raised.
`Db` selects the database: none, a pool that keeps a session per lock, or
`AsyncPGDatabase`, which takes a connection per statement (asyncpg resets a returned
connection, and with it its advisory locks: external). The TTL passes only when
no refresh task keeps the key and no reply is under way: an event loop that stalls
for longer than the TTL is not modelled.

### CircuitBreaker

A breaker per process, calls in flight between `can_execute` and their outcome. A
failure changes the breaker before its first await and fixes the data it will write,
so writes of two calls may overtake each other. Ages are relative to the timeout
("recent", "past").

### ActionRouter

One action in one process. A *registration* is one `REQUIRES_MANUAL_REVIEW` answer to
an invocation; `regs` records each with its flow and the decisions taken on it, which
is bookkeeping for the properties. `current`, `saga_id`, `late`, `timer`, `spent` are
the entry of `_pending_confirmations` and its timeout task. A handler is a request
to confirm or cancel: it looks for a result in Redis, reserves, calls
`resume_on_confirmation`, marks the tray and stores the result. From the
lookup of the entry to its removal there is no await outside the saga flow, which is
why that is one action. The manager of the executor's results is the
`RedisIdempotencyManager` that `infrastructure/app_wiring.py` injects; within one process
no other call comes between its commands, because `get_or_execute` is synchronous. Its results
last for an hour, longer than a behaviour. `confirm_action` (synchronous, not used by
the routes) is left out.

### SagaIntake

The way of an `llm_pipeline` saga through several servers, from the publication of
its start to its end or dead letter. A *task* is the consumer task of a server or a
helper, which stands for the recovery loop and for operators' requests. `stream` and
`memory` are the two queues of the bus, `batch` the entries one `XREADGROUP` has
returned; `mode` says which queue a server uses since its `init`. `rows`, `started`, `lock`
and `letters` are `sagas`, `saga_idempotency`, the lock and `saga_dlq_messages`. `ask` is
bookkeeping: which run of its saga the task is to make, 1 for the start and n + 1
for the n-th replay, so that `RunsAreAsked` can count each of them. The lock is the
atomic one of `SagaOrchestrator`, but its lease may be lost while its holder works. The
pipeline is compute-only, so a compensation only writes the row. `release` and the record
of the idempotency result are one statement each; errors that the code swallows leave no trace.

### OrderSaga

Orders as coroutines of the plan that `execute_step_plan` runs, over `inventory_lot`,
`inventory_reservation` and its lines. A transaction is what PostgreSQL makes of it
in READ COMMITTED: `tx` holds what the open transaction of an order has changed, `lock` the
rows it has updated, `Visible` what its SELECT sees; COMMIT publishes, any error rolls back
(`leave`), and of a deadlock one is cancelled. Each statement may fail; a COMMIT may also be
done and its answer lost (`answer`). `process_payment` and billing touch nothing shared and are one
step. Recovery reads the rows it will look at (`recover`) and later writes each of them, whatever has become of it (`recover_mark`, `recover_end`).
Reserving does not look at `is_active`, so there is no removal of products. `execute_step_plan` writes FAILED first and compensates afterwards; when the write of
FAILED raises, `_run_saga` writes it again and nothing is compensated (`run_saga_failed`).

### FlowExecutor

One flow as one saga. `topological_round` and `group_node` are the rounds of the two loops of
`topological_order` and `_group_by_level`; `start_node`, `node_output` and `node_raises` are the awaits of
`_run_single_node`, interleaved within a level as `asyncio.gather` does; `level_ends` is its return. A node's module
is a choice: it answers, with a route if it is a routing block, or raises. A write of
the row is done, done with its answer lost, or not done. An edge with an end that is no node is ignored by the order
(`Pred`, `Targets`) and seen by the skips (`Sources`), as in the code. Where the code goes through a list whose order counts
(`Insertion`, `FirstEdge`), the model takes the sequence that has this order (`InOrder`): no recursion, so that it can be
proved about.

### JobQueue

Requests are coroutines of one API process over synchronous SQLite: no other coroutine comes between two
statements without an await (`cancelling` keeps them out while a cancellation is between its two), but workers,
which are processes of their own, do. `queue` and `scheduled` are the sorted sets, `worker` and
`scheduler` what each process is doing. `lost` records the jobs that a *named* fault has dropped, so that `JobsEnd`
can say that nothing else loses one. `completed` counts executions that came back with a result. A claimed path job ends its worker (`publish` is called with an argument it does not
have); an error of the UPDATE before that is caught and only the job is lost. It is the one kind of job that is lost without a fault, and `lost` has it.

## 3. Runs

| Run | Question and result |
|---|---|
| `booking` | A booking, two tasks, one crash, breakers that may be open, a compensation that is retried, fairly scheduled. Holds: the lock belongs exactly to the task in a protected section (`LockDiscipline`); of a row that says `succeeded` nobody has asked to compensate a reservation since `BookingFlow.resume` put it back (`ConfirmedStands`); no adapter is asked again after it has answered (`AnsweredOnce`); every call returns (`CallsReturn`); no saga stays `in_progress` when its runner dies (`StuckIsRecovered`). |
| `career` | `CareerGrowthFlow`: four steps, no pause, an adapter without `compensate`, a last step whose failure keeps the others; one crash, one outage, one replay. The plan runs once and once per replay (`PlanRunsOnce`); for a row that says `compensated` every adapter that can be asked has answered (`CompensatedIsAnswered`); what a succeeded row lists nobody has asked to compensate, though recovery races the unlocked runner (`SucceededStands`). |
| `lock_redis` | Three processes, a crash, no outage: the lock implements `SagaMutex` and always comes free. |
| `lock_outage` | Two outages, a crash, the database fallback: a release never deletes the key of another holder. |
| `breaker` | Two processes, two calls at once in one of them, restart, reset: the counters keep their room, and an open breaker closes. |
| `router` | Two invocations, two requests, either flow: executed once, decided once, and a confirmation is settled. |
| `orders` | Two orders on three lots in either order of items, a delivery, one error at any statement, one crash, one recovery: stock adds up (`StockAddsUp`); each reservation takes all of its lots at once and only what is there, each release returns them at once (`ImplementsInventory`); a succeeded order is committed and has its receipt (`SucceededIsCommitted`); stock is left reserved by three named failures only (`HeldIsExplained`); row locks keep no order for ever (`OrdersEnd`). |
| `flow` | Some 1800 payloads with branches, joins, shortcuts, cycles, duplicates, disabled, unknown and missing nodes: a node runs when its sources have ended (`SourcesEnded`), a cycle runs nothing (`CycleIsRefused`), success is complete (`SucceededIsComplete`), a node all of whose sources are skipped is skipped, a node with a source on the path is not unless it is disabled (`SkipsPropagate`), every flow ends (`FlowEnds`). |
| `jobs` | Two submissions in five combinations, two workers, two schedulers, cancellations, one error or crash at any statement: one result per job (`RunsOnce`), one job per key (`KeyNamesOneJob`), a cancellation holds until somebody is committed to the job (`CancelledStays`), only named faults lose a job (`JobsEnd`). |
| `intake` | A start published twice to two servers, one of which is cut off from Redis, expiry, recovery, an operator's replay, one error, lost lease or crash: the plan runs once and once per replay (`RunsAreAsked`), and only named faults lose the saga (`SagasEnd`). |
| `flow_branch` | Violation: the first node of a branch that an `if_block` has not taken runs (`BranchNotTakenIsSkipped`). |
| `resume_report` | Violation: a failed confirmation answers `compensated: True`, with nothing compensated. |

### Bounds

- *Tasks* 2 in the saga runs. A task may make any number of calls one after the
  other, so each pair of calls meets at each pair of awaits, with each earlier history. A race of three
  needs a third to hold a stale read while two others pass; its shape (stale row, two
  compensations) already arises from two tasks, because a task's reads outlive the
  other's calls. The proofs hold for any number of tasks.
- *Retries* 1 for `start_saga` and `resume_saga_on_confirm`: a further retry returns to the same place.
- *Crashes, outages, replays* at most 1 each. The `booking` run has liveness and no outage: with both it takes longer
  than anyone waits. The outage is in `career`; `LockDiscipline`, `ConfirmedStands` and `CompensatedIsAnswered` are proved with any number of them.
- *Plans*: `BookingFlow` (one compensatable step and a pause) and `CareerGrowthFlow` (four steps, no pause; `generate_cv` and
  `generate_learning_path` are compensatable, the adapter of the first has no `compensate`). `retry_with_backoff` makes two attempts: a
  third repeats the second. No adapter of the repository has `validate_compensation`, hence no `Vetoes` in the runs.
- *Lock*: five acquisitions by three processes, four with outages: enough for a holder,
  a waiter and a successor, and for a stale token.
- *Breaker*: thresholds 2 and 2, three failures: enough to open, half open and open again.
- *Router*: two invocations and two requests.
- *Orders*: two orders, two lots of one item, one of them delivered later, one lot of another; carts in both orders of
  items (the deadlock), an item twice with one lot named, a custom dish, a quantity of zero. The quantities make the
  second order fail or take the later lot. One error, one crash and one recovery, at any point and in any combination.
- *Flows*: four nodes and eight candidate edges in every subset, two orders of insertion, which decide the order of Kahn's queue,
  and once with one of the nodes missing, so that its edges lead nowhere.
  Four nodes are enough for a branch, its join and a shortcut past both; one node has a second attempt.
- *Jobs*: two requests, so that each case has a pair; two workers and two schedulers, for the two claims and the two
  ZREMs that may race; one fault. The proofs of `RunsOnce` and `KeyNamesOneJob` hold for any number of each.
- *Intake*: one saga, two publications, two servers, one helper (a task may turn from recovery to replay, not do both at
  once), one retry of the lock, one letter, one replay, one fault. The proof of `RunsAreAsked` holds for any number of each.

### Fairness

- A coroutine that is inside a call goes on (asyncio runs what is ready): weak
  fairness of each task, handler and call. Whether a call is made at all is left free.
- Redis expires keys, time passes, the database returns: weak fairness.
- The recovery loop is a worker of its own that comes round regularly. In the model it is
  played by a task, and a task may be busy with other calls each time; strong fairness of the
  scan over all tasks says that it is not starved.
- No idempotency key expires in the liveness run (`LiveNext`): a caller may not wait for more than an hour.
- Holders of the lock release it: each `acquire` of the orchestrator has its `release`, which
  `LockDiscipline` shows.
- Orders, flows, jobs: a coroutine that can go on does; a query returns; a node's block and `execute_action` answer, raise or
  time out (there is a timeout in each case); a row lock is given to somebody who waits, or PostgreSQL finds the deadlock.
- Workers, schedulers and servers that have ended are started again (`docker-compose.public.yml`, `restart: unless-stopped`); the time
  of a scheduled job comes. Requests, cancellations, faults, crashes and operators need not come.
- The adapter behind a breaker works again after `MaxFailures` failures, and callers keep coming: else
  an open breaker rightly stays open.

Deadlock checking is off in the lock and router runs, where the number of acquisitions and
invocations is bounded and the system stops when they are used up, and in the runs of orders, flows, jobs and starts, which
stop when their last order, flow, job or saga has ended.

## 4. Proofs

All theorems are for any number of tasks, processes, requests, orders and nodes, any plan, payload and cart, and any bounds. Every
invariant and every action property of the passing runs is the subject of one; liveness is not. `TypeOK` is a
theorem of every module with a run. No assumption is made beyond the ASSUMEs of the modules, which TLC evaluates, and the hypotheses named here.

- **LockDiscipline** (`SagaOrchestratorProofs`). The invariant is `LockInv`: the types of `pc`,
  `after` and `lock`; the lock belongs to exactly the task in a critical section; and
  `ResumeNeverCompensates`. The last is needed because a compensation that a resume asks for shares the
  program points of any other compensation: if it could get the lock, its release would free the
  lock the resume still needs. It cannot, for the resume holds the lock. That is a theorem of its own: it is
  also why the run `resume_report` fails.
- **SectionsAreMutexHolds** (`SagaOrchestratorProofs`): the tasks in the protected sections follow `SagaMutex`, the specification that
  `ImplementsMutexHolds` proves of `DistributedLock`; so the atomic lock of the orchestrator's model asks for no more than is implemented, under
  `Reliable`. `LockInv` gives that there is at most one such task; what remains is that no step
  lets one in while another is (`HandsOver`).
- **TypeOK** of the orchestrator (`SagaOrchestratorProofs`). Not inductive as it stands: step records point into `world`
  (`eff`), positions into the plan, `todo` into `snap`. `TypeInv` adds these.
- **ConfirmedStands** (`SagaOrchestratorProofs`). `OutcomeInv` adds: a waiting row has a step, and so has
  a runner about to let it wait; between `confirm` and the write of `succeeded` no compensation has been called for what the resume
  put back; no task is in the compensation loop of a booking whose row says `succeeded`.
  The two writers exclude each other by the lock (`LockInvariant`); whatever else writes the row without it
  never writes `succeeded` (`ColdKeeps`). It assumes `PauseAssumption`: the last step of a flow that pauses is compensatable.
  It holds with any crashes, outages and replays, and says nothing of which reservation was confirmed.
- **PlanRunsOnce** (`SagaOrchestratorProofs`). The property bounds the length of `world`, which says nothing of executions still to
  come. `BudgetInv` counts these too: `Due` is the set of pairs of a task and a position of the plan that it is yet to
  execute, and what is executed, due, and still allowed by an absent row never adds up to more than a plan for the start and one
  for each replay. Each action makes `Due` smaller, or moves a pair into `world`, or pays for new pairs with the row or a replay.
- **AnsweredOnce** (`SagaOrchestratorProofs`). `OnceInv` says of each effect whose compensation was answered that the history names its step or will
  (`Logged`), and that nobody else can ask again (`Guarded`): the task that got the answer is still at it and has the lock, or
  everyone who has read the history knows of the step or finds its idempotency key. A task between a call and its end has found neither
  (`Untraced`), so what it asks again, after a transient error, has not been answered. Keys live for hours: they expire
  in the model while no call is under way, hence while nobody holds an older reading. The lock comes from `LockInvariant`. Without the hypothesis of the property (no crash, no
  outage) it fails: the adapter answers and neither record is written.
- **CompensatedIsAnswered** (`SagaOrchestratorProofs`), for any flow and closed breakers.
  `CompInv` ties the results of a loop under way to the flags of the records it is through with (`ResultsTrue`, `Done`: flagged, or of an adapter
  that has no `compensate`), and `FaithInv` ties a flag to an effect that was answered; an answer is never taken back. With a breaker open at
  compensation time it is false: the step leaves no result.
- **SucceededStands** (`SagaOrchestratorProofs`), for flows without a pause and before any replay. `SoleInv`: at most one task
  runs the plan, the row lists no step until it ends, and no other task has a step in memory, so that nobody has been asked to compensate
  anything (`AllStand`); a compensation that races the runner therefore has nothing to ask for. The runner holds no lock, so this does not
  follow from `LockInvariant`.
- **MutualExclusion** and **ImplementsMutex** (`DistributedLockProofs`), under `Reliable`: Redis is up and no two tasks of one process
  want the lock of one saga. The invariant ties a holder to the key, its token and its refresh task.
  Neither condition can be dropped: with an outage a task with the key and one with
  the advisory lock hold together, and with two tasks in one process the release of one cancels the
  refresh of the other, whose key then expires while it is held.
- **ReleaseSparesOthers** (`DistributedLockProofs`), for tasks that are alone in their process (`Alone`), whatever outages, lost replies, crashes and
  fallbacks come. `TokensApart`: a token is known to one process only, also one that a failed release has left in its dictionary. The
  script that deletes the key compares tokens, so a late release finds its own or nothing. With a neighbour in its process the dictionary, which is
  per lock name, hands it the neighbour's token.
- **CountersHaveRoom** (`CircuitBreakerProofs`). The strengthening extends it to the copies in Redis and on their
  way, none of which is half open.
- **ExecutedOnce** and **OneDecision** (`ActionRouterProofs`). A kept result stands for exactly one
  execution (`KeptOnce`). For decisions: an entry outside the saga flow is still undecided (`EntryOpen`), and a
  handler that waits for the orchestrator has a registration of the saga flow in hand (`HandsOK`), so that its late
  decision never falls on another kind.

- **RunsOnce** and **KeyNamesOneJob** (`JobQueueProofs`). Neither is inductive: the right to execute a job wanders from the
  request to a set, a scheduler and a worker. `Has` names it as a token; `TokensOK` says that one has it and that a result uses
  it up; each action leaves a token where it was, hands it on, drops it or uses it up (`Passes`). `Rows` says that nobody works on a job
  without a row and that of the requests with one key one has a row, which is what the unique index gives.
- **CancelledStays** (`JobQueueProofs`), an action property: a cancelled job to which nobody is committed is neither rewritten nor executed. Beside the
  invariant above it needs `StagesOK`: a request that is still looking up or inserting has no row to cancel, and only fast requests
  come to the inline path.
- **StockAddsUp** and **NoOversell** (`OrderSagaProofs`). What the orders hold of a lot is counted unit by unit; `PileChange` says how the
  number changes when one order's share does. `LedgerInv` ties an open transaction to its locks and to what it has seen: what it
  changed it has locked, what it is about to take is still there, outside a transaction nothing is changed, and a release has
  given back exactly the lines that have left its list. The last is where the set of lots to release and the
  transaction's takes must agree for the sum to come out.
- **ImplementsInventory** (`OrderSagaProofs`): `OrderSaga` refines `Inventory`, with the variables of the same names. The step of a reservation is
  its COMMIT, by which `TakesOK` still holds of what the statements before it have seen; the step of a release is its COMMIT, when `ReleaseOK` says
  that it gives back every line; `commit_inventory` finds what `Booked` says. All other steps stutter (`OthersRest`), and
  nothing else of a transaction is ever published. A reservation that was committed may be released: a lost answer to `commit_inventory` or to the write of SUCCEEDED
  fails the plan. `NoOversell`, which follows from `Inventory`, is a theorem of its own and not run.
- **SucceededIsCommitted** and **HeldIsExplained** (`OrderSagaProofs`). `PlanInv` says of each step of the plan what those before it have
  achieved (`Booked`), and that a reservation is known to `executed_steps`, or its order is in `hurt` (`Explained`). It speaks of one order at a
  time: what an order is judged by is written by nobody else, except the row by recovery, which never writes `succeeded`.
- **SourcesEnded** (`FlowExecutorProofs`). `KahnInv`: `indegree` counts the sources that have no place in the order yet, a node in the queue
  has none of those, a node in the order has all of them before it. Hence a node's level is above those of its sources (`LevelInv`), and the levels
  below the current one are done (`StepInv`). The same gives **TypeOK**: no `indegree` below zero, no node twice.
- **CycleIsRefused** (`FlowExecutorProofs`). Of the nodes of a cycle the one with the first place in the order would have a source before
  it, which is in the cycle too (`CycleHasNoPlace`); and no node runs before all have a place (`PhaseInv`).
- **SucceededIsComplete** and **SkipsPropagate** (`FlowExecutorProofs`). `ReportInv` ties the timeline to the states of the nodes; `SkipInv` says that
  a node is in `skipped_nodes` exactly if it was skipped or is a target a routing block has not taken, and that a node was skipped exactly if it is disabled or
  starved (all of its sources are in `skipped_nodes`): this never changes
  afterwards, because the sources have ended. It is said of nodes whose sources are nodes of the payload or the context; of an edge from
  anything else the order knows nothing.
- **RunsAreAsked** (`SagaIntakeProofs`). Run n of a saga is *owed* by at most one task (`Owes`), from the INSERT or the replay that
  created the obligation to the `mark` that meets it; the first run is owed by nobody before the row is there. The lock is
  not needed, and the theorem does not assume that leases hold: the unique key and the compare-and-set carry it alone.

Where a proof needs an induction over data, it is replaced by the least number principle (`WFMin` with `NatLessThanWellFounded`: `LeastNumber`,
`MinIsMember`) or by counting the elements of a set (`FiniteSetTheorems`), which need no operator as a parameter.

Only model-checked: all liveness (`CallsReturn`, `StuckIsRecovered`, `LockComesFree`, `OpenCloses`, `PendingIsSettled`, `OrdersEnd`,
`FlowEnds`, `JobsEnd`, `SagasEnd`), as liveness under fairness and ENABLED are out of TLAPS' reach.

## 5. What the models show of the code

Two runs show a violation of what the repository says:

- A confirmation that fails reports `compensated: True`, while `_compensate_saga` has returned at once, because the resume itself holds the lock
  (`resume_report`).
- The first node of a branch that is not taken runs. A routing block puts it into `skipped_nodes`, but `_should_skip` looks at the *sources* of a
  node only (`flow_executor.py:182`), so only the nodes behind it are skipped; `control_flow_blocks.py:82` says that the executor uses `_route` "to decide
  which downstream edge to activate" (`flow_branch`).

Beside these, counterexamples met while modelling. They contradict no statement a run could quote, or the
statement is quoted here and the property that failed was replaced by the strongest one that holds.

Sagas, lock, router:

- `_compensate_saga` gives a step whose breaker is open, or whose adapter has no `compensate`, no entry in
  its results. With a second step compensated, `all(...)` of the results is true and the row says `compensated` although
  the first adapter was never asked. `CareerGrowthFlow` has such a step: the adapter of `generate_cv` has no `compensate`.
  `CompensatedIsAnswered` is of adapters that have the method, and false of a plan of two compensatable steps with `BreakerOpens`.
- `compensated` does not mean undone. What `_compensate_saga` passes to `BookingAdapter` and `CalendarAdapter` is not equal to the payload they have
  stored, so they cancel nothing and answer "cancelled" (`booking.py:96`, `calendar.py:77`), an exception inside them is an answer too (`booking.py:110`), and
  the education adapter answers "noop" (`saga_integration.py:463`); each counts as a success. The booking adapter would in any case
  leave alone a reservation that is confirmed.
- A confirmation confirms the reservation the client names, any the adapter knows (`booking.py:63`; nothing checks it on the
  way, `saga_integration.py:179`): the row of a saga may say `succeeded` while its own reservation is pending.
- `BookingFlow.resume` puts the reservations of the row back into the adapter as pending whatever has become of them (`legacy.py:196`), one that was
  cancelled included.
- `AsyncPGDatabase` sets no codec for `jsonb` (`postgres.py:39`) and `_get_saga` does not decode: with it the row's `steps` is a string, to
  which nothing can be appended. The models assume decoded rows.
- The operator's recovery (`saga_health.py:712`) compensates from the row it selected; a saga that has succeeded in between
  is rolled back and its row overwritten. `ConfirmedStands` and `SucceededStands` are about rows that still say `succeeded`.
- A crash between INSERT and compare-and-set of `start_saga` leaves a `pending` row that nothing selects again.
- A confirmation after the saga has expired asks for a compensation that cannot get the lock; the row stays
  `waiting_confirm`, which the recovery loop does not select.
- A resume that gives up on the lock is recorded as the result of the confirmation; a later attempt gets the
  recorded error.
- An outage during `release` (`locks.py:177`) leaves the refresh task, which then keeps the key of a released lock for
  ever; `LockComesFree` is checked without outages.
- In one process, the `release` of one task cancels the refresh task of the next holder of the same key.
- `AsyncPGDatabase` takes an advisory lock on a connection that it gives back at once: the database fallback
  excludes nobody.
- The reservation of a request is `SET NX`, whose refusal is `None`, while the code asks for `False`
  (`actions_saga_routes.py:519`): a confirm and a cancel of one saga registration can both report success.
- The timeout task of a confirmation clears the entry and with it cancels itself (`action_router.py:329`) before it has recorded
  `pending_user`.
- An action invoked again while an old timeout task is registered gets no timeout of its own.

Starts and dead letters:

- Entries that were delivered and not acknowledged are never read again: a handler that raises drops the start. An error of
  `XREADGROUP` is outside the `try` and ends the consumer task of the server, which nobody supervises.
- A replay does not renew `expires_at`: a dead letter that is replayed after the timeout of its saga (ten minutes for
  `llm_pipeline`) is compensated without being run, though the endpoint answers "replayed".
- `next_retry_at` and the state `queued_for_retry` are written and never read. The triage of the maintenance works on a list it
  has read before, by saga id, and can overwrite an operator's verdict; its default types never match the
  types the orchestrator writes.
- An operator's recovery of a row that was read earlier can write `failed` over `succeeded`.

Orders:

- Reserving does not look at `is_active` (`neoeats_blocks.py:1600`): an item that was removed while its lots have stock
  can still be ordered, although `docs/NEOEATS_TECH_SPEC.md:102` says that removing it "prevents reservation".
- Stock stays reserved for ever when the answer to the COMMIT of the reservation is lost (the step is not in
  `executed_steps`), when writing FAILED raises (the compensation is not run), or when the release fails: the three cases of `hurt`.
- The plan keeps its executed steps in memory: recovery sees an empty list, writes FAILED and gives nothing back.
  The order, if only slow, goes on and may write `succeeded` over it.

Flow graphs:

- A node without a `module_id` raises outside the retry loop and appears in no timeline.

Jobs:

- A cancellation does not ask again for `queued` (`jobs_routes.py:70`): a job that runs by then is shown as cancelled, and then as done.
- The inline claim does not look at its row count (`actions_endpoint.py:225`): a job cancelled before its inline execution is executed
  and becomes done. Hence `Committed` in `CancelledStays`.
- A `publish` that raises after `done` was written makes the worker, and the inline path, write `failed` over it (`worker.py:128`): a job
  with a result is reported as failed. `RunsOnce` counts results for that reason.
- An error before `correlation_id` has a value makes the `except` branch raise itself (`worker.py:138`) and ends the worker.
- Path jobs call `broker.publish` with an argument it does not have (`path/worker.py:69`): the worker ends and the job stays running, without any fault.
- Nothing takes up a job again that was popped and not claimed, claimed by a worker that died, inserted and not
  enqueued, or taken from the scheduled set and not enqueued (`scheduler.py:35`, "job still in DB").

### Not modelled, and why

"components" in `PROJECT.json` has the reason for each part. The repository has some 131 000 lines, most of them the HTTP surface
of the console and the domain services, content generation, catalogues, a simulation harness and calls to language models:
sequential code over one row at a time, whose results are data. The models cover the parts where several
actors share state. Of those, not modelled: two processes in `RedisIdempotencyManager.get_or_execute` (it reads and marks in
separate commands, though its docstring says atomic); the in-memory fallbacks without a database or without Redis; the loss of pending confirmations at a
restart (`_rehydrate_pending_from_store` is never called); what the adapters make of a call; the budget of agent
sessions; the life of a module version over files on disk; tracing, metrics and messages.

## 6. Plan

What would come next, by weight:

1. `RedisIdempotency`: two processes in `get_or_execute`; abstract: execute once.
2. A composition of `ActionRouter` and `SagaIntake`: one execution per confirmed action, fallback included.
3. `Publication`: the life of a module version, gates and evidence.
4. `AgentBudget` and the quotas: nested budgets, windows.

Theorems: one execution per confirmed action as an abstract specification, which `ActionRouter` and, composed with it, `SagaIntake` implement.

Runs are kept to a dozen, one or two per component; a component that is added has to replace a run.
