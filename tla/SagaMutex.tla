----------------------------- MODULE SagaMutex -----------------------------
(* What a lock of the saga engine promises its callers: one task at a time   *)
(* holds the lock of a saga.  DistributedLock implements it with Redis and   *)
(* PostgreSQL; SagaOrchestrator relies on it.                                *)
CONSTANT Tasks
VARIABLE holders

TypeOK == holders \subseteq Tasks

Init == holders = {}

Acquire(t) == holders = {} /\ holders' = {t}

\* A holder gives the lock back, or dies.
Release(t) == t \in holders /\ holders' = holders \ {t}

Next == \E t \in Tasks : Acquire(t) \/ Release(t)

Spec == Init /\ [][Next]_holders
=============================================================================
