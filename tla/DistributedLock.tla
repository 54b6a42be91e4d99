-------------------------- MODULE DistributedLock --------------------------
(* app/infrastructure/realtime/engine/locks.py: the lock "saga:lock:<id>:state" *)
(* of one saga.  Tasks are the coroutines that want it; each runs in a server *)
(* process, and the tasks of one process share one DistributedLock object,    *)
(* hence its dictionaries.  The lock is a Redis key with a TTL that a refresh *)
(* task prolongs; when Redis fails, or is not configured, it is a PostgreSQL  *)
(* advisory lock.                                                            *)
EXTENDS Integers, FiniteSets

CONSTANTS
    Tasks,          \* the coroutines that acquire and release the lock
    Procs,          \* the server processes
    ProcOf,         \* the process a task runs in
    NoTask,         \* no database session holds the advisory lock
    Redis,          \* a Redis client is configured
    Db,             \* "none"; "pool": has acquire and release, a session per
                    \* holder; "statement": AsyncPGDatabase, a session per statement
    FailOpen,       \* fail_open: without Redis and database, acquire succeeds
    MaxAcquires,    \* bound on the calls of acquire
    MaxOutages,     \* bound on the Redis outages
    MaxCrashes      \* bound on the process crashes

ASSUME LockAssumption ==
    /\ ProcOf \in [Tasks -> Procs] /\ NoTask \notin Tasks
    /\ Redis \in BOOLEAN /\ Db \in {"none", "pool", "statement"} /\ FailOpen \in BOOLEAN
    /\ MaxAcquires \in Nat /\ MaxOutages \in Nat /\ MaxCrashes \in Nat

\* Tokens (uuid4) are numbered in the order they are drawn; 0 is none.
Token == 0..MaxAcquires

VARIABLES
    key,            \* Redis: the value of the lock key, 0 if it does not exist
    redis,          \* "up" or "down"
    advisory,       \* PostgreSQL: the session (named after the task that opened
                    \* it) that holds the advisory lock, or NoTask
    tokens,         \* process: _redis_tokens[lock_key]
    refreshers,     \* process: the tokens its live _refresh_redis_lock tasks keep
    registered,     \* process: the token of the task in _redis_refresh_tasks
    db_held,        \* process: lock_id \in db_locks_held
    db_conn,        \* process: _db_lock_conns[lock_id], or NoTask
    pc,             \* task: the await it is at
    mine,           \* task: lock_value in acquire and while it holds the lock,
                    \* token in release
    conn,           \* task: the session whose advisory lock it is giving back
    issued, outages, crashes

store == <<key, redis, advisory>>
local == <<tokens, refreshers, registered, db_held, db_conn>>
task == <<pc, mine, conn>>
budget == <<issued, outages, crashes>>
vars == <<store, local, task, budget>>

Pc == {"idle", "set", "set_ok", "db", "db_ok", "held", "eval", "eval_ok",
       "unlock", "unlocked"}

Init ==
    /\ key = 0 /\ redis = "up" /\ advisory = NoTask
    /\ tokens = [p \in Procs |-> 0]
    /\ refreshers = [p \in Procs |-> {}]
    /\ registered = [p \in Procs |-> 0]
    /\ db_held = [p \in Procs |-> FALSE]
    /\ db_conn = [p \in Procs |-> NoTask]
    /\ pc = [t \in Tasks |-> "idle"]
    /\ mine = [t \in Tasks |-> 0]
    /\ conn = [t \in Tasks |-> NoTask]
    /\ issued = 0 /\ outages = 0 /\ crashes = 0

Goto(t, l) == pc' = [pc EXCEPT ![t] = l]

-----------------------------------------------------------------------------
(* acquire: True is pc "held", False is pc "idle".                           *)

\* Where acquire goes when Redis is not configured or has raised.
Fallback ==
    IF Db # "none" THEN "db" ELSE IF FailOpen THEN "held" ELSE "idle"

acquire(t) ==
    /\ pc[t] = "idle" /\ issued < MaxAcquires
    /\ IF Redis
       THEN /\ issued' = issued + 1 /\ mine' = [mine EXCEPT ![t] = issued + 1]
            /\ Goto(t, "set")
       ELSE Goto(t, Fallback) /\ UNCHANGED <<issued, mine>>
    /\ UNCHANGED <<store, local, conn, outages, crashes>>

\* Redis executes SET NX EX; if the key exists, acquire returns False.
redis_set(t) ==
    /\ pc[t] = "set" /\ redis = "up"
    /\ IF key = 0
       THEN key' = mine[t] /\ Goto(t, "set_ok")
       ELSE Goto(t, "idle") /\ UNCHANGED key
    /\ UNCHANGED <<redis, advisory, local, mine, conn, budget>>

\* SET raises; the command may have been executed before the reply was lost.
redis_set_error(t) ==
    /\ pc[t] = "set" /\ redis = "down"
    /\ key' = key \/ (key = 0 /\ key' = mine[t])
    /\ Goto(t, Fallback) /\ mine' = [mine EXCEPT ![t] = 0]
    /\ UNCHANGED <<redis, advisory, local, conn, budget>>

\* Mutant: the token is registered under the wrong dictionary: the task in its place.
redis_acquired_swapped(t) ==
    /\ pc[t] = "set_ok" /\ Goto(t, "held")
    /\ LET p == ProcOf[t]
       IN  /\ tokens' = [tokens EXCEPT ![p] = t]
           /\ refreshers' = [refreshers EXCEPT ![p] = @ \cup {mine[t]}]
           /\ registered' = [registered EXCEPT ![p] = mine[t]]
    /\ UNCHANGED <<store, db_held, db_conn, mine, conn, budget>>

\* Mutant: acquire without its refresh task.
redis_acquired_unrefreshed(t) ==
    /\ pc[t] = "set_ok" /\ Goto(t, "held")
    /\ tokens' = [tokens EXCEPT ![ProcOf[t]] = mine[t]]
    /\ UNCHANGED <<store, refreshers, registered, db_held, db_conn, mine, conn, budget>>

\* The reply is processed: the token and a refresh task are registered under
\* the lock key, in place of what other tasks of the process had there.
redis_acquired(t) ==
    /\ pc[t] = "set_ok" /\ Goto(t, "held")
    /\ LET p == ProcOf[t]
       IN  /\ tokens' = [tokens EXCEPT ![p] = mine[t]]
           /\ refreshers' = [refreshers EXCEPT ![p] = @ \cup {mine[t]}]
           /\ registered' = [registered EXCEPT ![p] = mine[t]]
    /\ UNCHANGED <<store, db_held, db_conn, mine, conn, budget>>

\* pg_try_advisory_lock.  With a pool the session lives as long as the lock is
\* held.  AsyncPGDatabase returns the connection after the statement, and the
\* reset of a returned connection drops its advisory locks.
db_try_lock(t) ==
    /\ pc[t] = "db" /\ Goto(t, "db_ok")
    /\ IF Db = "pool" THEN advisory = NoTask /\ advisory' = t ELSE UNCHANGED advisory
    /\ UNCHANGED <<key, redis, local, mine, conn, budget>>

db_acquired(t) ==
    /\ pc[t] = "db_ok" /\ Goto(t, "held")
    /\ db_held' = [db_held EXCEPT ![ProcOf[t]] = TRUE]
    /\ db_conn' = IF Db = "pool" THEN [db_conn EXCEPT ![ProcOf[t]] = t] ELSE db_conn
    /\ UNCHANGED <<store, tokens, refreshers, registered, mine, conn, budget>>

\* The backoff loop has waited lock_timeout, or the statement has raised.
db_gives_up(t) ==
    /\ pc[t] = "db" /\ Goto(t, "idle")
    /\ UNCHANGED <<store, local, mine, conn, budget>>

-----------------------------------------------------------------------------
(* release.                                                                  *)

\* The database half of release, which follows the Redis half without an await:
\* it looks for lock_id in db_locks_held and pops the connection.
ReleaseDb(t) ==
    LET p == ProcOf[t]
    IN  IF db_held[p] /\ (Db = "pool" => db_conn[p] # NoTask)
        THEN /\ Goto(t, "unlock") /\ conn' = [conn EXCEPT ![t] = db_conn[p]]
             /\ db_conn' = [db_conn EXCEPT ![p] = NoTask]
        ELSE Goto(t, "idle") /\ UNCHANGED <<conn, db_conn>>

\* Whatever is registered for the lock key is cancelled and forgotten.
ForgetRedis(p) ==
    /\ refreshers' = [refreshers EXCEPT ![p] = @ \ {registered[p]}]
    /\ registered' = [registered EXCEPT ![p] = 0]
    /\ tokens' = [tokens EXCEPT ![p] = 0]

release(t) ==
    /\ pc[t] = "held"
    /\ LET p == ProcOf[t]
       IN  \/ /\ Redis /\ tokens[p] # 0
              /\ mine' = [mine EXCEPT ![t] = tokens[p]] /\ Goto(t, "eval")
              /\ UNCHANGED <<local, conn>>
           \/ /\ Redis /\ tokens[p] = 0
              /\ ForgetRedis(p) /\ ReleaseDb(t) /\ UNCHANGED <<db_held, mine>>
           \/ /\ ~Redis /\ ReleaseDb(t)
              /\ UNCHANGED <<tokens, refreshers, registered, db_held, mine>>
    /\ UNCHANGED <<store, budget>>

\* Mutant: lua_release without its comparison.
release_eval_any(t) ==
    /\ pc[t] = "eval" /\ redis = "up"
    /\ key' = 0 /\ Goto(t, "eval_ok")
    /\ UNCHANGED <<redis, advisory, local, mine, conn, budget>>

\* Redis executes lua_release: the key is deleted if it holds the token.
release_eval(t) ==
    /\ pc[t] = "eval" /\ redis = "up"
    /\ key' = (IF key = mine[t] THEN 0 ELSE key) /\ Goto(t, "eval_ok")
    /\ UNCHANGED <<redis, advisory, local, mine, conn, budget>>

\* eval raises, with or without having been executed: the refresh task and the
\* token stay registered.
release_eval_error(t) ==
    /\ pc[t] = "eval" /\ redis = "down"
    /\ key' = key \/ (key = mine[t] /\ key' = 0)
    /\ ReleaseDb(t)
    /\ UNCHANGED <<redis, advisory, tokens, refreshers, registered, db_held, mine, budget>>

\* The reply is processed: the refresh task registered now is cancelled, the
\* token registered now is popped.
release_redis(t) ==
    /\ pc[t] = "eval_ok" /\ ForgetRedis(ProcOf[t]) /\ ReleaseDb(t)
    /\ UNCHANGED <<store, db_held, mine, budget>>

\* pg_advisory_unlock; the session goes back to the pool.
db_unlock(t) ==
    /\ pc[t] = "unlock" /\ Goto(t, "unlocked")
    /\ advisory' = IF Db = "pool" /\ advisory = conn[t] THEN NoTask ELSE advisory
    /\ UNCHANGED <<key, redis, local, mine, conn, budget>>

\* The statement raises: the session is given back all the same, and with it
\* the lock, but lock_id stays in db_locks_held.
db_unlock_error(t) ==
    /\ pc[t] = "unlock" /\ Goto(t, "idle")
    /\ advisory' = (IF Db = "pool" /\ advisory = conn[t] THEN NoTask ELSE advisory)
    /\ UNCHANGED <<key, redis, local, mine, conn, budget>>

db_released(t) ==
    /\ pc[t] = "unlocked" /\ Goto(t, "idle")
    /\ db_held' = [db_held EXCEPT ![ProcOf[t]] = FALSE]
    /\ UNCHANGED <<store, tokens, refreshers, registered, db_conn, mine, conn, budget>>

-----------------------------------------------------------------------------
(* The refresh tasks, Redis, and crashes.                                    *)

\* The loop condition of _refresh_redis_lock.
refresh_ends(p, tok) ==
    /\ tok \in refreshers[p] /\ tokens[p] # tok
    /\ refreshers' = [refreshers EXCEPT ![p] = @ \ {tok}]
    /\ UNCHANGED <<store, tokens, registered, db_held, db_conn, task, budget>>

\* An exception ends _refresh_redis_lock.
refresh_error(p, tok) ==
    /\ tok \in refreshers[p] /\ redis = "down"
    /\ refreshers' = [refreshers EXCEPT ![p] = @ \ {tok}]
    /\ UNCHANGED <<store, tokens, registered, db_held, db_conn, task, budget>>

\* Mutant: SET NX without EX.
key_expires_never == FALSE /\ UNCHANGED vars

\* The TTL passes.  A live refresh task comes round every lock_timeout // 2
\* seconds and prevents it, and a reply takes less than lock_timeout.
key_expires ==
    /\ key # 0 /\ key' = 0
    /\ \A p \in Procs : key \notin refreshers[p]
    /\ \A t \in Tasks : pc[t] = "set_ok" => mine[t] # key
    /\ UNCHANGED <<redis, advisory, local, task, budget>>

redis_fails ==
    /\ Redis /\ redis = "up" /\ outages < MaxOutages
    /\ redis' = "down" /\ outages' = outages + 1
    /\ UNCHANGED <<key, advisory, local, task, issued, crashes>>

redis_returns ==
    /\ redis = "down" /\ redis' = "up"
    /\ UNCHANGED <<key, advisory, local, task, budget>>

\* A process dies: its tasks, dictionaries and database sessions are gone, the
\* Redis key stays.
crash(p) ==
    /\ crashes < MaxCrashes /\ crashes' = crashes + 1
    /\ pc' = [t \in Tasks |-> IF ProcOf[t] = p THEN "idle" ELSE pc[t]]
    /\ tokens' = [tokens EXCEPT ![p] = 0]
    /\ refreshers' = [refreshers EXCEPT ![p] = {}]
    /\ registered' = [registered EXCEPT ![p] = 0]
    /\ db_held' = [db_held EXCEPT ![p] = FALSE]
    /\ db_conn' = [db_conn EXCEPT ![p] = NoTask]
    /\ advisory' = IF advisory \in Tasks /\ ProcOf[advisory] = p THEN NoTask ELSE advisory
    /\ UNCHANGED <<key, redis, mine, conn, issued, outages>>

-----------------------------------------------------------------------------
Acquire(t) ==
    \/ acquire(t) \/ redis_set(t) \/ redis_set_error(t) \/ redis_acquired(t)
    \/ db_try_lock(t) \/ db_acquired(t) \/ db_gives_up(t)
Release(t) ==
    \/ release(t) \/ release_eval(t) \/ release_eval_error(t) \/ release_redis(t)
    \/ db_unlock(t) \/ db_unlock_error(t) \/ db_released(t)
Refresh(p) == \E tok \in Token : refresh_ends(p, tok) \/ refresh_error(p, tok)

Next ==
    \/ \E t \in Tasks : Acquire(t) \/ Release(t)
    \/ \E p \in Procs : Refresh(p) \/ crash(p)
    \/ key_expires \/ redis_fails \/ redis_returns

Spec == Init /\ [][Next]_vars

\* The event loop runs every ready task, and a caller gives back what it holds:
\* every acquire of orchestrator.py has its release in a finally clause or
\* before the return.  Redis expires keys, and comes back.
Fairness ==
    /\ \A t \in Tasks : WF_vars(pc[t] # "idle" /\ (Acquire(t) \/ Release(t)))
    /\ \A p \in Procs : WF_vars(\E tok \in Token : refresh_ends(p, tok))
    /\ WF_vars(key_expires) /\ WF_vars(redis_returns)

LiveSpec == Spec /\ Fairness

-----------------------------------------------------------------------------
(* Properties.                                                               *)

TypeOK ==
    /\ key \in Token /\ redis \in {"up", "down"} /\ advisory \in Tasks \cup {NoTask}
    /\ tokens \in [Procs -> Token] /\ refreshers \in [Procs -> SUBSET Token]
    /\ registered \in [Procs -> Token] /\ db_held \in [Procs -> BOOLEAN]
    /\ db_conn \in [Procs -> Tasks \cup {NoTask}]
    /\ pc \in [Tasks -> Pc] /\ mine \in [Tasks -> Token]
    /\ conn \in [Tasks -> Tasks \cup {NoTask}]
    /\ issued \in Token /\ outages \in 0..MaxOutages /\ crashes \in 0..MaxCrashes

\* The tasks that acquire has told they hold the lock.
Holders == {t \in Tasks : pc[t] = "held"}

\* DistributedLock implements the lock it stands for.
Mutex == INSTANCE SagaMutex WITH holders <- Holders
ImplementsMutex == Mutex!Spec

\* At most one task at a time holds the lock of the saga.
MutualExclusion == \A t, u \in Holders : t = u

\* A release, even a late one, one of a lock that was lost to an outage or one
\* of the database lock, never deletes the key by which another task holds it.
ReleaseSparesOthers ==
    [][\A t, u \in Tasks :
          pc[t] = "eval" /\ pc'[t] # "eval" /\ key' # key /\ u # t =>
              ~(pc[u] = "held" /\ mine[u] = key)]_vars

\* The Redis lock is not taken for ever: its holder releases it, or dies and it
\* expires.
LockComesFree == key # 0 ~> key = 0
=============================================================================
