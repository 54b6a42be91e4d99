----------------------- MODULE DistributedLockProofs -----------------------
(* When Redis is configured and never fails, and no two tasks of one process  *)
(* want the lock of the same saga, DistributedLock implements SagaMutex for   *)
(* any number of processes, acquisitions and crashes.  Neither condition can  *)
(* be dropped: with an outage one task holds the key and one the advisory     *)
(* lock, and a release forgets the refresh task of a neighbour in its process. *)
(* With outages, what remains is that a release spares the key of the others. *)
EXTENDS DistributedLock, TLAPS

Reliable ==
    /\ Redis /\ MaxOutages = 0
    /\ \A t, u \in Tasks : ProcOf[t] = ProcOf[u] => t = u

\* Redis answers, so no task is on the database path.
OnRedis ==
    /\ redis = "up" /\ outages = 0
    /\ \A p \in Procs : ~db_held[p]
    /\ \A t \in Tasks : pc[t] \in {"idle", "set", "set_ok", "held", "eval", "eval_ok"}

\* Tokens are drawn once.
TokensUnique ==
    /\ \A t \in Tasks : mine[t] <= issued
    /\ \A t \in Tasks : pc[t] \in {"set", "set_ok", "held"} => mine[t] # 0
    /\ \A t, u \in Tasks : t # u /\ mine[t] = mine[u] => mine[t] = 0

\* The key carries the token of the task that has been given the lock.
KeyOfOwner == \A t \in Tasks : pc[t] \in {"set_ok", "held"} => key = mine[t]

\* The dictionaries of a process speak of its task, and a holder is refreshed.
Registered ==
    \A t \in Tasks :
        /\ tokens[ProcOf[t]] \in {0, mine[t]}
        /\ pc[t] \in {"idle", "set", "set_ok"} => tokens[ProcOf[t]] = 0
        /\ pc[t] = "held" => /\ tokens[ProcOf[t]] = mine[t]
                             /\ mine[t] \in refreshers[ProcOf[t]]

LockInv == TypeOK /\ OnRedis /\ TokensUnique /\ KeyOfOwner /\ Registered

USE DEF Token, Pc

-----------------------------------------------------------------------------
(* The shape of the state, with every outage and every crash.                *)

LEMMA StepType == ASSUME TypeOK, [Next]_vars PROVE TypeOK'
<1> USE LockAssumption
        DEF TypeOK, Goto, ReleaseDb, ForgetRedis, store, local, task, budget
<1>1. CASE UNCHANGED vars
  BY <1>1 DEF vars
<1>2. ASSUME NEW t \in Tasks, acquire(t) \/ redis_set(t) \/ redis_set_error(t)
      PROVE TypeOK'
  <2>1. CASE acquire(t)  BY <2>1 DEF acquire, Fallback
  <2>2. CASE redis_set(t)  BY <2>2 DEF redis_set
  <2>3. CASE redis_set_error(t)  BY <2>3 DEF redis_set_error, Fallback
  <2> QED BY <1>2, <2>1, <2>2, <2>3
<1>3. ASSUME NEW t \in Tasks,
             redis_acquired(t) \/ db_try_lock(t) \/ db_acquired(t) \/ db_gives_up(t)
      PROVE TypeOK'
  <2>1. CASE redis_acquired(t)  BY <2>1 DEF redis_acquired
  <2>2. CASE db_try_lock(t)  BY <2>2 DEF db_try_lock
  <2>3. CASE db_acquired(t)  BY <2>3 DEF db_acquired
  <2>4. CASE db_gives_up(t)  BY <2>4 DEF db_gives_up
  <2> QED BY <1>3, <2>1, <2>2, <2>3, <2>4
<1>4. ASSUME NEW t \in Tasks,
             release(t) \/ release_eval(t) \/ release_eval_error(t) \/ release_redis(t)
      PROVE TypeOK'
  <2>1. CASE release(t)  BY <2>1, SMTT(20) DEF release
  <2>2. CASE release_eval(t)  BY <2>2 DEF release_eval
  <2>3. CASE release_eval_error(t)  BY <2>3 DEF release_eval_error
  <2>4. CASE release_redis(t)  BY <2>4 DEF release_redis
  <2> QED BY <1>4, <2>1, <2>2, <2>3, <2>4
<1>5. ASSUME NEW t \in Tasks, db_unlock(t) \/ db_unlock_error(t) \/ db_released(t)
      PROVE TypeOK'
  BY <1>5 DEF db_unlock, db_unlock_error, db_released
<1>6. ASSUME NEW p \in Procs, NEW tok \in Token,
             refresh_ends(p, tok) \/ refresh_error(p, tok)
      PROVE TypeOK'
  BY <1>6 DEF refresh_ends, refresh_error
<1>7. ASSUME NEW p \in Procs, crash(p) PROVE TypeOK'
  BY <1>7 DEF crash
<1>8. CASE key_expires \/ redis_fails \/ redis_returns
  BY <1>8 DEF key_expires, redis_fails, redis_returns
<1> QED
  BY <1>1, <1>2, <1>3, <1>4, <1>5, <1>6, <1>7, <1>8 DEF Next, Acquire, Release, Refresh

\* The shape of the state, for any number of tasks, processes, outages and crashes.
THEOREM TypeOKHolds == Spec => []TypeOK
<1>1. Init => TypeOK  BY LockAssumption DEF Init, TypeOK
<1>2. TypeOK /\ [Next]_vars => TypeOK'  BY StepType
<1> QED BY <1>1, <1>2, PTL DEF Spec

-----------------------------------------------------------------------------
(* The lock.                                                                 *)

LEMMA InitLock == ASSUME Init PROVE LockInv
BY LockAssumption DEF Init, LockInv, TypeOK, OnRedis, TokensUnique, KeyOfOwner, Registered

LEMMA StepLock == ASSUME Reliable, LockInv, [Next]_vars PROVE LockInv'
<1> USE LockAssumption
        DEF LockInv, OnRedis, TokensUnique, KeyOfOwner, Registered, TypeOK,
            Goto, ReleaseDb, ForgetRedis, store, local, task, budget
<1>1. CASE UNCHANGED vars
  BY <1>1 DEF vars
<1>2. ASSUME NEW t \in Tasks, acquire(t) PROVE LockInv'
  BY <1>2, SMTT(20) DEF acquire, Reliable
<1>3. ASSUME NEW t \in Tasks, redis_set(t) PROVE LockInv'
  BY <1>3 DEF redis_set
<1>4. ASSUME NEW t \in Tasks, redis_acquired(t) PROVE LockInv'
  BY <1>4 DEF redis_acquired, Reliable
<1>5. ASSUME NEW t \in Tasks, \/ redis_set_error(t) \/ db_try_lock(t) \/ db_acquired(t)
                              \/ db_gives_up(t) \/ release_eval_error(t)
                              \/ db_unlock(t) \/ db_unlock_error(t) \/ db_released(t)
      PROVE FALSE
  BY <1>5 DEF redis_set_error, db_try_lock, db_acquired, db_gives_up, release_eval_error,
              db_unlock, db_unlock_error, db_released
<1>6. ASSUME NEW t \in Tasks, release(t) PROVE LockInv'
  BY <1>6 DEF release, Reliable
<1>7. ASSUME NEW t \in Tasks, release_eval(t) PROVE LockInv'
  BY <1>7 DEF release_eval
<1>8. ASSUME NEW t \in Tasks, release_redis(t) PROVE LockInv'
  BY <1>8 DEF release_redis, Reliable
<1>9. ASSUME NEW p \in Procs, NEW tok \in Token, refresh_ends(p, tok) PROVE LockInv'
  BY <1>9 DEF refresh_ends
<1>10. ASSUME NEW p \in Procs, NEW tok \in Token, refresh_error(p, tok) PROVE LockInv'
  BY <1>10 DEF refresh_error
<1>11. ASSUME NEW p \in Procs, crash(p) PROVE LockInv'
  BY <1>11 DEF crash
<1>12. CASE key_expires
  BY <1>12 DEF key_expires
<1>13. CASE redis_fails \/ redis_returns
  BY <1>13 DEF redis_fails, redis_returns, Reliable
<1> QED
  BY <1>1, <1>2, <1>3, <1>4, <1>5, <1>6, <1>7, <1>8, <1>9, <1>10, <1>11, <1>12, <1>13
  DEF Next, Acquire, Release, Refresh

\* The strengthening holds in every reachable state.
THEOREM LockInvHolds == Reliable => (Spec => []LockInv)
<1> SUFFICES ASSUME Reliable PROVE Spec => []LockInv OBVIOUS
<1>1. Init => LockInv BY InitLock
<1>2. LockInv /\ [Next]_vars => LockInv' BY StepLock
<1> QED BY <1>1, <1>2, PTL DEF Spec

\* Two holders would hold the key by the same token.
LEMMA OneHolder == ASSUME LockInv PROVE MutualExclusion
BY DEF LockInv, OnRedis, TokensUnique, KeyOfOwner, MutualExclusion, Holders

\* At most one task holds the lock of the saga (DistributedLock.acquire).
THEOREM MutualExclusionHolds == Reliable => (Spec => []MutualExclusion)
BY LockInvHolds, OneHolder, PTL

\* A step gives the lock to one task when nobody has it, takes it from one, or
\* changes nothing that callers see.
LEMMA StepMutex == ASSUME Reliable, LockInv, [Next]_vars
                   PROVE  [Mutex!Next]_Holders
<1> USE LockAssumption DEF LockInv, OnRedis, TypeOK, Goto, Holders
<1>1. CASE UNCHANGED vars
  BY <1>1 DEF vars, task
<1>2. ASSUME NEW t \in Tasks, acquire(t) \/ redis_set(t) \/ release_eval(t) \/ release_redis(t)
      PROVE Holders' = Holders
  BY <1>2 DEF acquire, redis_set, release_eval, release_redis, ReleaseDb, Reliable
<1>3. ASSUME NEW t \in Tasks, redis_acquired(t) PROVE Mutex!Acquire(t)
  <2>1. Holders = {}
    BY <1>3 DEF redis_acquired, KeyOfOwner, TokensUnique
  <2>2. Holders' = {t}
    BY <1>3, <2>1 DEF redis_acquired
  <2> QED BY <2>1, <2>2 DEF Mutex!Acquire
<1>4. ASSUME NEW t \in Tasks, \/ redis_set_error(t) \/ db_try_lock(t) \/ db_acquired(t)
                              \/ db_gives_up(t) \/ release_eval_error(t)
                              \/ db_unlock(t) \/ db_unlock_error(t) \/ db_released(t)
      PROVE FALSE
  BY <1>4 DEF redis_set_error, db_try_lock, db_acquired, db_gives_up, release_eval_error,
              db_unlock, db_unlock_error, db_released
<1>5. ASSUME NEW t \in Tasks, release(t) PROVE Mutex!Release(t)
  <2>1. t \in Holders BY <1>5 DEF release
  <2>2. Holders' = Holders \ {t}
    BY <1>5 DEF release, ReleaseDb
  <2> QED BY <2>1, <2>2 DEF Mutex!Release
<1>6. ASSUME NEW p \in Procs, NEW tok \in Token,
             refresh_ends(p, tok) \/ refresh_error(p, tok)
      PROVE Holders' = Holders
  BY <1>6 DEF refresh_ends, refresh_error, task
<1>7. ASSUME NEW p \in Procs, crash(p)
      PROVE Holders' = Holders \/ \E t \in Tasks : Mutex!Release(t)
  <2>1. CASE \E t \in Holders : ProcOf[t] = p
    <3>1. PICK t \in Holders : ProcOf[t] = p BY <2>1
    <3>2. Holders' = Holders \ {t} BY <1>7, <3>1 DEF crash, Reliable
    <3> QED BY <3>1, <3>2 DEF Mutex!Release
  <2>2. CASE ~ \E t \in Holders : ProcOf[t] = p
    BY <1>7, <2>2 DEF crash
  <2> QED BY <2>1, <2>2
<1>8. CASE key_expires \/ redis_fails \/ redis_returns
  BY <1>8 DEF key_expires, redis_fails, redis_returns, task
<1> QED
  BY <1>1, <1>2, <1>3, <1>4, <1>5, <1>6, <1>7, <1>8
  DEF Next, Acquire, Release, Refresh, Mutex!Next

\* DistributedLock implements the abstract lock.
THEOREM ImplementsMutexHolds == Reliable => (Spec => ImplementsMutex)
<1> SUFFICES ASSUME Reliable PROVE Spec => ImplementsMutex OBVIOUS
<1>1. Init => Mutex!Init BY DEF Init, Mutex!Init, Holders
<1>2. LockInv /\ [Next]_vars => [Mutex!Next]_Holders BY StepMutex
<1>3. Spec => []LockInv BY LockInvHolds
<1> QED BY <1>1, <1>2, <1>3, PTL DEF Spec, ImplementsMutex, Mutex!Spec
-----------------------------------------------------------------------------
(* Late releases, with outages, lost replies and crashes.                    *)

\* No two tasks of one process want the lock: with a neighbour in its process a
\* release would take the neighbour's token for its own.
Alone == \A t, u \in Tasks : ProcOf[t] = ProcOf[u] => t = u

\* A token is known to one process only: what a task carries and what is registered
\* stays there, also when a release that failed has left it behind.
TokensApart ==
    /\ \A t \in Tasks : mine[t] <= issued
    /\ \A p \in Procs : tokens[p] <= issued
    /\ \A t, u \in Tasks : t # u /\ mine[t] = mine[u] => mine[t] = 0
    /\ \A t \in Tasks : \A p \in Procs : p # ProcOf[t] /\ mine[t] = tokens[p] => mine[t] = 0
    /\ \A p, q \in Procs : p # q /\ tokens[p] = tokens[q] => tokens[p] = 0

\* A new token is nobody's; the others move between a task and its own process.
LEMMA StepApart ==
    ASSUME Alone, TypeOK, TokensApart, [Next]_vars PROVE TokensApart'
<1> USE LockAssumption
        DEF TokensApart, TypeOK, ReleaseDb, ForgetRedis, store, local, task, budget
<1>1. CASE UNCHANGED vars
  BY <1>1 DEF vars
<1>2. ASSUME NEW t \in Tasks, acquire(t) PROVE TokensApart'
  BY <1>2 DEF acquire
<1>3. ASSUME NEW t \in Tasks, redis_set(t) \/ redis_set_error(t) PROVE TokensApart'
  BY <1>3 DEF redis_set, redis_set_error
<1>4. ASSUME NEW t \in Tasks, redis_acquired(t) PROVE TokensApart'
  BY <1>4 DEF redis_acquired, Alone
<1>5. ASSUME NEW t \in Tasks, release(t) PROVE TokensApart'
  BY <1>5 DEF release, Alone
<1>6. ASSUME NEW t \in Tasks, release_redis(t) PROVE TokensApart'
  BY <1>6 DEF release_redis
<1>7. ASSUME NEW t \in Tasks,
             \/ db_try_lock(t) \/ db_acquired(t) \/ db_gives_up(t) \/ release_eval(t)
             \/ release_eval_error(t) \/ db_unlock(t) \/ db_unlock_error(t) \/ db_released(t)
      PROVE TokensApart'
  BY <1>7 DEF db_try_lock, db_acquired, db_gives_up, release_eval, release_eval_error,
              db_unlock, db_unlock_error, db_released
<1>8. ASSUME NEW p \in Procs, NEW tok \in Token,
             refresh_ends(p, tok) \/ refresh_error(p, tok)
      PROVE TokensApart'
  BY <1>8 DEF refresh_ends, refresh_error
<1>9. ASSUME NEW p \in Procs, crash(p) PROVE TokensApart'
  BY <1>9 DEF crash
<1>10. CASE key_expires \/ redis_fails \/ redis_returns
  BY <1>10 DEF key_expires, redis_fails, redis_returns
<1> QED
  BY <1>1, <1>2, <1>3, <1>4, <1>5, <1>6, <1>7, <1>8, <1>9, <1>10
  DEF Next, Acquire, Release, Refresh

\* The step of a release that changes the key has found its own token there.
LEMMA StepSpares ==
    ASSUME TypeOK, TokensApart, Next, NEW t \in Tasks, NEW u \in Tasks,
           pc[t] = "eval", pc'[t] # "eval", key' # key, u # t
    PROVE  ~(pc[u] = "held" /\ mine[u] = key)
<1> USE DEF TypeOK, Goto, store, local, task, budget
<1>1. key = mine[t] /\ key' = 0
  <2>1. ASSUME NEW s \in Tasks, \/ acquire(s) \/ redis_set(s) \/ redis_set_error(s)
                                \/ redis_acquired(s) \/ db_try_lock(s) \/ db_acquired(s)
                                \/ db_gives_up(s) \/ release(s) \/ release_redis(s)
                                \/ db_unlock(s) \/ db_unlock_error(s) \/ db_released(s)
        PROVE  FALSE
    BY <2>1 DEF acquire, redis_set, redis_set_error, redis_acquired, db_try_lock, db_acquired,
                db_gives_up, release, release_redis, db_unlock, db_unlock_error, db_released,
                ReleaseDb
  <2>2. ASSUME NEW s \in Tasks, release_eval(s) \/ release_eval_error(s)
        PROVE  key = mine[t] /\ key' = 0
    BY <2>2 DEF release_eval, release_eval_error, ReleaseDb
  <2>3. ASSUME NEW p \in Procs, NEW tok \in Token,
               refresh_ends(p, tok) \/ refresh_error(p, tok) \/ crash(p)
        PROVE  FALSE
    BY <2>3 DEF refresh_ends, refresh_error, crash
  <2>4. CASE key_expires \/ redis_fails \/ redis_returns
    BY <2>4 DEF key_expires, redis_fails, redis_returns
  <2> QED BY <2>1, <2>2, <2>3, <2>4 DEF Next, Acquire, Release, Refresh
<1>2. mine[u] = mine[t] => mine[t] = 0 BY DEF TokensApart
<1> QED BY <1>1, <1>2

\* However late a release is, and whatever outage or lost reply came between, it
\* never deletes the key by which a task of another process holds the lock.
THEOREM ReleaseSparesOthersHolds == Alone => (Spec => ReleaseSparesOthers)
<1> SUFFICES ASSUME Alone PROVE Spec => ReleaseSparesOthers OBVIOUS
<1>1. Init => TokensApart BY LockAssumption DEF Init, TokensApart
<1>2. TypeOK /\ TokensApart /\ [Next]_vars => TokensApart' BY StepApart
<1>3. TypeOK /\ TokensApart /\ [Next]_vars =>
          [\A t, u \in Tasks :
              pc[t] = "eval" /\ pc'[t] # "eval" /\ key' # key /\ u # t =>
                  ~(pc[u] = "held" /\ mine[u] = key)]_vars
  BY StepSpares
<1> QED BY <1>1, <1>2, <1>3, TypeOKHolds, PTL DEF Spec, ReleaseSparesOthers
=============================================================================
