----------------------------- MODULE SagaIntake -----------------------------
(* An llm_pipeline saga from its start command to its dead letter: the event *)
(* bus (sagas/saga_event_bus.py), start_saga and _run_saga                   *)
(* (sagas/orchestrator.py) as the consumers of several servers call them,    *)
(* the recovery loop (sagas/background_workers.py), and the dead letters     *)
(* from which an operator replays it (sagas/saga_health.py).  The pipeline   *)
(* is compute-only: it has no step to undo.                                  *)
EXTENDS Integers, Sequences, FiniteSets

CONSTANTS
    Sagas,
    Starts,         \* the publications of a start command
    Sources,        \* which saga each publication is for: a set of functions
    Servers,        \* server processes, each with a bus and a consumer task
    Modes,          \* what their buses use at first: a set of functions
    Helpers,        \* tasks of the recovery loop and of operators' requests
    COUNT,          \* entries one XREADGROUP returns
    MAX_RETRIES,    \* lock attempts of a start after the first
    MaxLetters, MaxReplays, MaxFaults,  \* bounds
    Nobody, Ghost   \* no holder; a holder that died

Tasks == Servers \cup Helpers

ASSUME SagaIntakeAssumption ==
    /\ Sources \subseteq [Starts -> Sagas]
    /\ Modes \subseteq [Servers -> {"redis", "memory"}]
    /\ Servers \cap Helpers = {}
    /\ Nobody \notin Tasks /\ Ghost \notin Tasks /\ Nobody # Ghost
    /\ COUNT \in Nat \ {0}
    /\ {MAX_RETRIES, MaxLetters, MaxReplays, MaxFaults} \subseteq Nat

VARIABLES
    source,         \* publication -> its saga
    unpublished,    \* the publications that are still to come
    stream,         \* the entries of the stream no consumer has read
    memory,         \* server -> its in-memory queue
    mode,           \* server -> what its bus uses: "redis", "memory"; or "down"
    batch,          \* server -> the entries its consumer has in hand
    task,           \* task -> where it is, its saga, its lock attempts, and which run
                    \* of the saga it is to make: 1 the start, n + 1 the n-th replay
    rows,           \* sagas.state, or "none"
    expired,        \* the sagas whose expires_at has passed
    started,        \* the sagas whose start is in saga_idempotency
    lock,           \* saga -> who holds its lock
    letters,        \* saga_dlq_messages: saga -> how many rows it has
    runs, replays,  \* history: saga -> executions of each run, replays asked for
    lost,           \* history: the publications a fault has dropped
    orphaned,       \* history: the sagas whose first run a fault has ended
    faults

bus == <<unpublished, stream, memory, mode, batch>>
table == <<rows, expired, started, lock>>
history == <<runs, replays, lost, orphaned>>
vars == <<source, bus, task, table, letters, history, faults>>

Asks == 1..(MaxReplays + 1)
Terminal == {"succeeded", "failed"}
Idle == [at |-> "idle", saga |-> Nobody, tries |-> 0, ask |-> 0]

Init ==
    /\ source \in Sources
    /\ unpublished = Starts /\ stream = <<>>
    /\ memory = [p \in Servers |-> <<>>] /\ batch = [p \in Servers |-> <<>>]
    /\ mode \in Modes
    /\ task = [t \in Tasks |-> Idle]
    /\ rows = [s \in Sagas |-> "none"] /\ expired = {} /\ started = {}
    /\ lock = [s \in Sagas |-> Nobody]
    /\ letters = [s \in Sagas |-> 0]
    /\ runs = [s \in Sagas |-> [n \in Asks |-> 0]] /\ replays = [s \in Sagas |-> 0]
    /\ lost = {} /\ orphaned = {}
    /\ faults = 0

fault == faults < MaxFaults /\ faults' = faults + 1
no_fault == UNCHANGED faults

At(t, p) == task[t].at = p
Goto(t, p) == task' = [task EXCEPT ![t].at = p]
SagaOf(t) == task[t].saga

\* t goes to p with n lock attempts behind it, to make run k of its saga.
Put(t, p, n, k) ==
    task' = [task EXCEPT ![t] = [at |-> p, saga |-> @.saga, tries |-> n, ask |-> k]]

-----------------------------------------------------------------------------
(* The bus.                                                                  *)

\* publish_start: onto the stream, or into the publisher's own queue.
publish(p, r) ==
    /\ r \in unpublished /\ mode[p] # "down"
    /\ unpublished' = unpublished \ {r}
    /\ \/ mode[p] = "redis" /\ stream' = Append(stream, r) /\ UNCHANGED memory
       \/ mode[p] = "memory" /\ memory' = [memory EXCEPT ![p] = Append(@, r)]
          /\ UNCHANGED stream
    /\ no_fault /\ UNCHANGED <<source, mode, batch, task, table, letters, history>>

\* XADD raises; the router only notes it in the audit trail.
publish_fails(p, r) ==
    /\ r \in unpublished /\ mode[p] = "redis" /\ fault
    /\ unpublished' = unpublished \ {r} /\ lost' = lost \cup {r}
    /\ UNCHANGED <<source, stream, memory, mode, batch, task, table, letters,
                   runs, replays, orphaned>>

\* The consumer of p turns to the next of the entries b it has in hand, or polls.
Take(p, b) ==
    /\ batch' = [batch EXCEPT ![p] = b]
    /\ task' = [task EXCEPT ![p] =
          IF b = <<>> THEN Idle
          ELSE [at |-> "check", saga |-> source[Head(b)], tries |-> 0, ask |-> 0]]

\* XREADGROUP ">": every entry no consumer of the group has read, up to COUNT.
read_group(p) ==
    /\ At(p, "idle") /\ mode[p] = "redis" /\ stream # <<>>
    /\ LET n == IF Len(stream) < COUNT THEN Len(stream) ELSE COUNT
           b == SubSeq(stream, 1, n)
       IN  /\ stream' = SubSeq(stream, n + 1, Len(stream))
           /\ Take(p, b)
    /\ no_fault /\ UNCHANGED <<source, unpublished, memory, mode, table, letters, history>>

\* XREADGROUP raises outside the try block: the consumer task of p ends.
read_group_raises(p) ==
    /\ At(p, "idle") /\ mode[p] = "redis" /\ fault /\ Goto(p, "gone")
    /\ UNCHANGED <<source, bus, table, letters, history>>

memory_get(p) ==
    /\ At(p, "idle") /\ mode[p] = "memory" /\ memory[p] # <<>>
    /\ memory' = [memory EXCEPT ![p] = Tail(@)]
    /\ Take(p, <<Head(memory[p])>>)
    /\ no_fault /\ UNCHANGED <<source, unpublished, stream, mode, table, letters, history>>

\* The handler has returned: XACK, whose outcome nobody looks at, and the next entry.
ack(p) ==
    /\ At(p, "ack") /\ Take(p, Tail(batch[p]))
    /\ no_fault /\ UNCHANGED <<source, unpublished, stream, memory, mode, table, letters, history>>

\* The handler has raised: the entry stays in the pending list, which nobody reads.
handler_failed(p) ==
    /\ At(p, "raised") /\ Take(p, Tail(batch[p]))
    /\ lost' = lost \cup {Head(batch[p])}
    /\ no_fault /\ UNCHANGED <<source, unpublished, stream, memory, mode, table,
                               letters, runs, replays, orphaned>>

-----------------------------------------------------------------------------
(* start_saga, in the consumer of p.                                         *)

check_idempotency(p) ==
    /\ At(p, "check")
    /\ \/ SagaOf(p) \in started /\ Goto(p, "ack") /\ no_fault
       \/ SagaOf(p) \notin started /\ Goto(p, "acquire") /\ no_fault
       \/ SagaOf(p) \in started /\ Goto(p, "acquire") /\ fault  \* the read fails
    /\ UNCHANGED <<source, bus, table, letters, history>>

\* Mutant: the start is noted as done before the saga is inserted.
acquire_records(p) ==
    /\ At(p, "acquire") /\ lock[SagaOf(p)] = Nobody
    /\ lock' = [lock EXCEPT ![SagaOf(p)] = p]
    /\ started' = started \cup {SagaOf(p)}
    /\ Put(p, "insert", 0, 0)
    /\ no_fault /\ UNCHANGED <<source, bus, rows, expired, letters, history>>

acquire(p) ==
    /\ At(p, "acquire") /\ lock[SagaOf(p)] = Nobody
    /\ lock' = [lock EXCEPT ![SagaOf(p)] = p]
    /\ Put(p, "insert", 0, 0)
    /\ no_fault /\ UNCHANGED <<source, bus, rows, expired, started, letters, history>>

\* Mutant: one attempt too many.
refused_once_more(p) ==
    /\ At(p, "acquire") /\ lock[SagaOf(p)] # Nobody
    /\ IF task[p].tries > MAX_RETRIES THEN Goto(p, "raised")
       ELSE Put(p, "check", task[p].tries + 1, 0)
    /\ no_fault /\ UNCHANGED <<source, bus, table, letters, history>>

\* Somebody holds the lock: the saga exists, or the call starts over.
refused(p) ==
    /\ At(p, "acquire") /\ lock[SagaOf(p)] # Nobody
    /\ \/ /\ rows[SagaOf(p)] # "none"
          /\ started' = started \cup {SagaOf(p)} /\ Goto(p, "ack")
       \/ /\ rows[SagaOf(p)] = "none" /\ UNCHANGED started
          /\ IF task[p].tries >= MAX_RETRIES THEN Goto(p, "raised")
             ELSE Put(p, "check", task[p].tries + 1, 0)
    /\ no_fault /\ UNCHANGED <<source, bus, rows, expired, lock, letters, history>>

\* Mutant: the conflict clause updates the row, and the caller takes it for its own.
insert_or_update(p) ==
    /\ At(p, "insert")
    /\ rows' = [rows EXCEPT ![SagaOf(p)] = "pending"]
    /\ Put(p, "record", 0, 1)
    /\ no_fault /\ UNCHANGED <<source, bus, expired, started, lock, letters, history>>

\* INSERT ... ON CONFLICT DO NOTHING.
insert(p) ==
    /\ At(p, "insert")
    /\ LET new == rows[SagaOf(p)] = "none"
       IN  /\ rows' = IF new THEN [rows EXCEPT ![SagaOf(p)] = "pending"] ELSE rows
           /\ Put(p, "record", 0, IF new THEN 1 ELSE 0)
    /\ no_fault /\ UNCHANGED <<source, bus, expired, started, lock, letters, history>>

record_idempotency(p) ==
    /\ At(p, "record")
    /\ started' = started \cup {SagaOf(p)}
    /\ Goto(p, IF task[p].ask # 0 THEN "cas" ELSE "release")
    /\ no_fault /\ UNCHANGED <<source, bus, rows, expired, lock, letters, history>>

\* UPDATE ... WHERE state = 'pending': who changes the row runs the plan.
cas(p) ==
    /\ At(p, "cas")
    /\ LET mine == rows[SagaOf(p)] = "pending"
       IN  /\ rows' = IF mine THEN [rows EXCEPT ![SagaOf(p)] = "in_progress"] ELSE rows
           /\ Put(p, "release", 0, IF mine THEN 1 ELSE 0)
    /\ no_fault /\ UNCHANGED <<source, bus, expired, started, lock, letters, history>>

\* The lock of t's saga, given back if t still has it.
Unlocked(t) == [lock EXCEPT ![SagaOf(t)] = IF @ = t THEN Nobody ELSE @]

release(p) ==
    /\ At(p, "release")
    /\ lock' = Unlocked(p)
    /\ Goto(p, IF task[p].ask # 0 THEN "timeout" ELSE "ack")
    /\ no_fault /\ UNCHANGED <<source, bus, rows, expired, started, letters, history>>

\* A statement of start_saga raises: the lock is released, the handler fails.
start_raises(p) ==
    /\ task[p].at \in {"insert", "record", "cas"} /\ fault
    /\ lock' = Unlocked(p) /\ Goto(p, "raised")
    /\ orphaned' = IF task[p].ask # 0 THEN orphaned \cup {SagaOf(p)} ELSE orphaned
    /\ UNCHANGED <<source, bus, rows, expired, started, letters, runs, replays, lost>>

-----------------------------------------------------------------------------
(* _run_saga, of a start or of a replay, and _check_saga_timeout.            *)

\* The call has returned: a consumer acknowledges, the others are done.
Return(t) == IF t \in Servers THEN Goto(t, "ack")
             ELSE task' = [task EXCEPT ![t] = Idle]

check_timeout(t) ==
    /\ At(t, "timeout")
    /\ \/ SagaOf(t) \in expired /\ Goto(t, "undo")
       \/ SagaOf(t) \notin expired /\ Goto(t, "read")
    /\ no_fault /\ UNCHANGED <<source, bus, table, letters, history>>

\* A saga that has ended is not run again.
read_row(t) ==
    /\ At(t, "read")
    /\ \/ rows[SagaOf(t)] \in Terminal /\ Return(t)
       \/ rows[SagaOf(t)] \notin Terminal /\ Goto(t, "mark")
    /\ no_fault /\ UNCHANGED <<source, bus, table, letters, history>>

mark(t) ==
    /\ At(t, "mark")
    /\ rows' = [rows EXCEPT ![SagaOf(t)] = "in_progress"]
    /\ runs' = [runs EXCEPT ![SagaOf(t)][task[t].ask] = @ + 1]
    /\ Goto(t, "execute")
    /\ no_fault /\ UNCHANGED <<source, bus, expired, started, lock, letters, replays, lost, orphaned>>

\* execute_step_plan ends the saga.
succeed(t) ==
    /\ At(t, "execute") /\ Return(t)
    /\ rows' = [rows EXCEPT ![SagaOf(t)] = "succeeded"]
    /\ no_fault /\ UNCHANGED <<source, bus, expired, started, lock, letters, history>>

fail(t) ==
    /\ At(t, "execute") /\ Goto(t, "letter")
    /\ rows' = [rows EXCEPT ![SagaOf(t)] = "failed"]
    /\ no_fault /\ UNCHANGED <<source, bus, expired, started, lock, letters, history>>

\* _persist_dlq_message, which swallows an error.
persist_dlq_message(t) ==
    /\ At(t, "letter") /\ Return(t)
    /\ \/ /\ no_fault /\ letters[SagaOf(t)] < MaxLetters
          /\ letters' = [letters EXCEPT ![SagaOf(t)] = @ + 1]
       \/ fault /\ UNCHANGED letters
    /\ UNCHANGED <<source, bus, table, history>>

\* _compensate_saga of a saga with no step to undo; without the lock it gives up.
undo(t) ==
    /\ At(t, "undo")
    /\ \/ /\ lock[SagaOf(t)] = Nobody /\ Goto(t, "compensating")
          /\ lock' = [lock EXCEPT ![SagaOf(t)] = t]
       \/ lock[SagaOf(t)] # Nobody /\ Return(t) /\ UNCHANGED lock
    /\ no_fault /\ UNCHANGED <<source, bus, rows, expired, started, letters, history>>

compensating(t) ==
    /\ At(t, "compensating") /\ Goto(t, "compensated")
    /\ rows' = [rows EXCEPT ![SagaOf(t)] = "compensating"]
    /\ no_fault /\ UNCHANGED <<source, bus, expired, started, lock, letters, history>>

compensated(t) ==
    /\ At(t, "compensated") /\ Return(t)
    /\ rows' = [rows EXCEPT ![SagaOf(t)] = "failed"]
    /\ lock' = Unlocked(t)
    /\ no_fault /\ UNCHANGED <<source, bus, expired, started, letters, history>>

\* A helper turns to a saga, to make run n of it or, if n is 0, none.
Begin(h, p, s, n) ==
    /\ At(h, "idle")
    /\ task' = [task EXCEPT ![h] = [at |-> p, saga |-> s, tries |-> 0, ask |-> n]]

\* recover_stuck_sagas_loop selects a row that has not moved for a while (for one
\* that has not expired the loop then does nothing).
select_stuck(h, s) ==
    /\ rows[s] = "in_progress" /\ s \in expired /\ Begin(h, "timeout", s, 0)
    /\ no_fault /\ UNCHANGED <<source, bus, table, letters, history>>

-----------------------------------------------------------------------------
(* The operator's endpoints.                                                 *)

\* POST .../retry with replay_now.
retry(o, s) ==
    /\ letters[s] > 0 /\ replays[s] < MaxReplays
    /\ replays' = [replays EXCEPT ![s] = @ + 1]
    /\ Begin(o, "replay", s, replays[s] + 2)
    /\ no_fault /\ UNCHANGED <<source, bus, table, letters, runs, lost, orphaned>>

\* replay_saga_from_dlq: a saga that has not succeeded is set to in_progress.
replay_read(o) ==
    /\ At(o, "replay")
    /\ \/ rows[SagaOf(o)] = "succeeded" /\ Return(o)
       \/ rows[SagaOf(o)] # "succeeded" /\ Goto(o, "replay_mark")
    /\ no_fault /\ UNCHANGED <<source, bus, table, letters, history>>

replay_mark(o) ==
    /\ At(o, "replay_mark") /\ Goto(o, "timeout")
    /\ rows' = [rows EXCEPT ![SagaOf(o)] = "in_progress"]
    /\ no_fault /\ UNCHANGED <<source, bus, expired, started, lock, letters, history>>

\* recover_stuck_sagas of a saga that is named and has not ended.
recover(o, s) ==
    /\ rows[s] \notin Terminal \cup {"none"} /\ Begin(o, "recover", s, 0)
    /\ no_fault /\ UNCHANGED <<source, bus, table, letters, history>>

recover_mark(o) ==
    /\ At(o, "recover") /\ Goto(o, "letter")
    /\ rows' = [rows EXCEPT ![SagaOf(o)] = "failed"]
    /\ no_fault /\ UNCHANGED <<source, bus, expired, started, lock, letters, history>>

\* The operator removes the latest letter of the saga, or an old one is purged.
remove(s) ==
    /\ letters[s] > 0 /\ letters' = [letters EXCEPT ![s] = @ - 1]
    /\ no_fault /\ UNCHANGED <<source, bus, task, table, history>>

-----------------------------------------------------------------------------
(* The environment.                                                          *)

time_passes(s) ==
    /\ rows[s] # "none" /\ s \notin expired /\ expired' = expired \cup {s}
    /\ no_fault /\ UNCHANGED <<source, bus, task, rows, started, lock, letters, history>>

\* The lease of a task that is still at work is lost, as DistributedLock allows.
lock_lost(s) ==
    /\ lock[s] \in Tasks /\ fault /\ lock' = [lock EXCEPT ![s] = Nobody]
    /\ UNCHANGED <<source, bus, task, rows, expired, started, letters, history>>

\* The lease of a dead task runs out.
lock_expires(s) ==
    /\ lock[s] = Ghost /\ lock' = [lock EXCEPT ![s] = Nobody]
    /\ no_fault /\ UNCHANGED <<source, bus, task, rows, expired, started, letters, history>>

\* A server dies with what it has in hand and in its queue.
crash(p) ==
    /\ mode[p] # "down" /\ fault
    /\ mode' = [mode EXCEPT ![p] = "down"]
    /\ lost' = lost \cup {batch[p][i] : i \in 1..Len(batch[p])}
                    \cup {memory[p][i] : i \in 1..Len(memory[p])}
    /\ orphaned' = IF task[p].ask # 0 THEN orphaned \cup {SagaOf(p)} ELSE orphaned
    /\ batch' = [batch EXCEPT ![p] = <<>>] /\ memory' = [memory EXCEPT ![p] = <<>>]
    /\ task' = [task EXCEPT ![p] = Idle]
    /\ lock' = [s \in Sagas |-> IF lock[s] = p THEN Ghost ELSE lock[s]]
    /\ UNCHANGED <<source, unpublished, stream, rows, expired, started, letters,
                   runs, replays>>

\* It comes back under a new consumer name; a failed ping leaves it its memory.
restart(p) ==
    /\ mode[p] = "down"
    /\ \/ mode' = [mode EXCEPT ![p] = "redis"] /\ no_fault
       \/ mode' = [mode EXCEPT ![p] = "memory"] /\ fault
    /\ UNCHANGED <<source, unpublished, stream, memory, batch, task, table, letters, history>>

-----------------------------------------------------------------------------
consume(p) ==
    \/ read_group(p) \/ memory_get(p) \/ ack(p) \/ handler_failed(p)
    \/ check_idempotency(p) \/ acquire(p) \/ refused(p) \/ insert(p)
    \/ record_idempotency(p) \/ cas(p) \/ release(p)

run(t) ==
    \/ check_timeout(t) \/ read_row(t) \/ mark(t) \/ succeed(t) \/ fail(t)
    \/ persist_dlq_message(t) \/ undo(t) \/ compensating(t) \/ compensated(t)

answer(o) == replay_read(o) \/ replay_mark(o) \/ recover_mark(o)

operate ==
    \/ \E o \in Helpers : answer(o)
    \/ \E o \in Helpers, s \in Sagas : retry(o, s) \/ recover(o, s) \/ select_stuck(o, s)
    \/ \E s \in Sagas : remove(s)

break ==
    \/ \E p \in Servers : \/ read_group_raises(p) \/ start_raises(p) \/ crash(p)
                          \/ restart(p)
                          \/ \E r \in Starts : publish_fails(p, r)
    \/ \E s \in Sagas : time_passes(s) \/ lock_lost(s) \/ lock_expires(s)

Next ==
    \/ \E p \in Servers : consume(p) \/ \E r \in Starts : publish(p, r)
    \/ \E t \in Tasks : run(t)
    \/ operate \/ break

\* A server that runs gets on with what it has read, the recovery loop comes round,
\* a request that has begun ends; a server that died is restarted
\* (docker-compose.public.yml, restart: unless-stopped), and leases run out.
Fairness ==
    /\ \A p \in Servers : WF_vars(consume(p) \/ run(p) \/ restart(p))
    /\ \A h \in Helpers :
          WF_vars(run(h) \/ answer(h) \/ \E s \in Sagas : select_stuck(h, s))
    /\ \A s \in Sagas : WF_vars(lock_expires(s))

Spec == Init /\ [][Next]_vars /\ Fairness

-----------------------------------------------------------------------------
Places ==
    {"idle", "gone", "check", "acquire", "insert", "record", "cas", "release", "ack", "raised",
     "timeout", "read", "mark", "execute", "letter", "undo", "compensating", "compensated",
     "replay", "replay_mark", "recover"}

\* The shape of the state.
TypeOK ==
    /\ source \in [Starts -> Sagas]
    /\ unpublished \subseteq Starts /\ stream \in Seq(Starts)
    /\ memory \in [Servers -> Seq(Starts)] /\ batch \in [Servers -> Seq(Starts)]
    /\ mode \in [Servers -> {"redis", "memory", "down"}]
    /\ task \in [Tasks -> [at : Places, saga : Sagas \cup {Nobody},
                           tries : 0..MAX_RETRIES, ask : 0..(MaxReplays + 1)]]
    /\ rows \in [Sagas -> {"none", "pending", "in_progress", "compensating"} \cup Terminal]
    /\ expired \subseteq Sagas /\ started \subseteq Sagas
    /\ lock \in [Sagas -> Tasks \cup {Nobody, Ghost}]
    /\ letters \in [Sagas -> 0..MaxLetters]
    /\ runs \in [Sagas -> [Asks -> Nat]] /\ replays \in [Sagas -> 0..MaxReplays]
    /\ lost \subseteq Starts /\ orphaned \subseteq Sagas
    /\ faults \in 0..MaxFaults

\* However often the start of a saga is published, delivered, retried or delivered to
\* several servers, and whatever the lock does, its plan is executed once, and once
\* more for every replay an operator asks for (start_saga's INSERT and compare-and-set).
RunsAreAsked ==
    \A s \in Sagas : \A n \in Asks : runs[s][n] <= IF n <= 1 + replays[s] THEN 1 ELSE 0

\* No consumer reads the stream any more.
Unread == \A p \in Servers : mode[p] # "redis" \/ At(p, "gone")

Published(s) == {r \in Starts \ unpublished : source[r] = s}

\* A saga whose start was published ends, unless a fault has dropped all its entries or
\* ended its run, or every consumer of the stream is gone: the idempotency record,
\* the lock and the duplicate entries never make everybody believe that another one
\* has started the saga.
SagasEnd ==
    \A s \in Sagas :
       (Published(s) # {}) ~> \/ rows[s] \in Terminal
                              \/ Published(s) \subseteq lost \/ s \in orphaned \/ Unread
=============================================================================
