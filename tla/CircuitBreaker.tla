--------------------------- MODULE CircuitBreaker ---------------------------
(* app/infrastructure/realtime/engine/circuit_breaker.py: the breakers that   *)
(* the server processes keep for one adapter.  Each lives in the memory of its *)
(* process; a failure writes a copy to Redis, and a process reads the copy     *)
(* when it starts.  Calls are in flight between can_execute and the record of  *)
(* their outcome, and several are at once.                                    *)
EXTENDS Integers

CONSTANTS
    Calls,              \* the coroutines that call the adapter
    Procs,              \* the server processes
    ProcOf,             \* the process a coroutine runs in
    failure_threshold, success_threshold,
    MaxFailures,        \* bound on the failures of the adapter
    MaxRestarts,        \* bound on the restarts of a process
    MaxResets           \* bound on the resets by an operator

ASSUME BreakerAssumption ==
    /\ ProcOf \in [Calls -> Procs]
    /\ failure_threshold \in Nat \ {0} /\ success_threshold \in Nat \ {0}
    /\ MaxFailures \in Nat /\ MaxRestarts \in Nat /\ MaxResets \in Nat

VARIABLES
    state, failure_count, success_count,    \* of the breaker of a process
    last_failure,   \* process: "none"; "recent", "past": less or more than timeout ago
    saved,          \* the copies in Redis: none, or one
    pc,             \* call: "idle", "calling", or "saving" after a failure
    data,           \* call: what its _persist_state will write
    failures, restarts, resets

breaker == <<state, failure_count, success_count, last_failure>>
budget == <<failures, restarts, resets>>
vars == <<breaker, saved, pc, data, budget>>

CircuitState == {"closed", "open", "half_open"}
Age == {"none", "recent", "past"}
Copy == [state : CircuitState, failure_count : 0..MaxFailures,
         success_count : 0..success_threshold, last_failure : Age]
Fresh == [state |-> "closed", failure_count |-> 0, success_count |-> 0, last_failure |-> "none"]

Init ==
    /\ state = [p \in Procs |-> "closed"]
    /\ failure_count = [p \in Procs |-> 0] /\ success_count = [p \in Procs |-> 0]
    /\ last_failure = [p \in Procs |-> "none"]
    /\ saved = {} /\ data = [c \in Calls |-> Fresh]
    /\ pc = [c \in Calls |-> "idle"]
    /\ failures = 0 /\ restarts = 0 /\ resets = 0

-----------------------------------------------------------------------------
\* can_execute admits a call: CLOSED, HALF_OPEN, or OPEN for timeout seconds.
can_execute(c) ==
    LET p == ProcOf[c]
    IN  /\ pc[c] = "idle" /\ pc' = [pc EXCEPT ![c] = "calling"]
        /\ \/ /\ state[p] # "open" /\ UNCHANGED <<state, success_count>>
           \/ /\ state[p] = "open" /\ last_failure[p] = "past"
              /\ state' = [state EXCEPT ![p] = "half_open"]
              /\ success_count' = [success_count EXCEPT ![p] = 0]
        /\ UNCHANGED <<failure_count, last_failure, saved, data, budget>>

\* Mutant: a recovery that keeps the failures counted before.
record_success_keeps(c) ==
    LET p == ProcOf[c]
        closes == success_count[p] + 1 >= success_threshold
    IN  /\ pc[c] = "calling" /\ pc' = [pc EXCEPT ![c] = "idle"]
        /\ IF state[p] = "half_open"
           THEN /\ success_count' = [success_count EXCEPT ![p] = @ + 1]
                /\ state' = [state EXCEPT ![p] = IF closes THEN "closed" ELSE @]
           ELSE UNCHANGED <<state, success_count>>
        /\ failure_count' = [failure_count EXCEPT ![p] =
                                IF state[p] = "closed" THEN 0 ELSE @]
        /\ UNCHANGED <<last_failure, saved, data, budget>>

\* Mutant: off by one, more than success_threshold successes.
record_success_late(c) ==
    LET p == ProcOf[c]
        closes == success_count[p] + 1 > success_threshold
    IN  /\ pc[c] = "calling" /\ pc' = [pc EXCEPT ![c] = "idle"]
        /\ IF state[p] = "half_open"
           THEN /\ success_count' = [success_count EXCEPT ![p] = @ + 1]
                /\ state' = [state EXCEPT ![p] = IF closes THEN "closed" ELSE @]
           ELSE UNCHANGED <<state, success_count>>
        /\ failure_count' = [failure_count EXCEPT ![p] =
                IF state[p] = "closed" \/ (state[p] = "half_open" /\ closes) THEN 0 ELSE @]
        /\ UNCHANGED <<last_failure, saved, data, budget>>

record_success(c) ==
    LET p == ProcOf[c]
        closes == success_count[p] + 1 >= success_threshold
    IN  /\ pc[c] = "calling" /\ pc' = [pc EXCEPT ![c] = "idle"]
        /\ IF state[p] = "half_open"
           THEN /\ success_count' = [success_count EXCEPT ![p] = @ + 1]
                /\ state' = [state EXCEPT ![p] = IF closes THEN "closed" ELSE @]
           ELSE UNCHANGED <<state, success_count>>
        /\ failure_count' = [failure_count EXCEPT ![p] =
                IF state[p] = "closed" \/ (state[p] = "half_open" /\ closes) THEN 0 ELSE @]
        /\ UNCHANGED <<last_failure, saved, data, budget>>

\* The counters and the state change before the first await; what is written
\* to Redis is fixed then.
record_failure(c) ==
    LET p == ProcOf[c]
        opens == \/ state[p] = "half_open"
                 \/ state[p] = "closed" /\ failure_count[p] + 1 >= failure_threshold
    IN  /\ pc[c] = "calling" /\ pc' = [pc EXCEPT ![c] = "saving"]
        /\ failures < MaxFailures /\ failures' = failures + 1
        /\ failure_count' = [failure_count EXCEPT ![p] = @ + 1]
        /\ last_failure' = [last_failure EXCEPT ![p] = "recent"]
        /\ state' = [state EXCEPT ![p] = IF opens THEN "open" ELSE @]
        /\ data' = [data EXCEPT ![c] =
                        [state |-> state'[p], failure_count |-> failure_count'[p],
                         success_count |-> success_count[p], last_failure |-> "recent"]]
        /\ UNCHANGED <<success_count, saved, restarts, resets>>

\* SETEX; an error of Redis is logged.  Writes of two calls may overtake each
\* other on their connections.
persist_state(c) ==
    /\ pc[c] = "saving" /\ pc' = [pc EXCEPT ![c] = "idle"]
    /\ saved' = {data[c]} \/ saved' = saved
    /\ UNCHANGED <<breaker, data, budget>>

\* Mutant: the copy a process loads lacks its last_failure_time.
load_state_untimed(p) ==
    \E s \in saved \cup {Fresh} :
        /\ state' = [state EXCEPT ![p] = s.state]
        /\ failure_count' = [failure_count EXCEPT ![p] = s.failure_count]
        /\ success_count' = [success_count EXCEPT ![p] = s.success_count]
        /\ last_failure' = [last_failure EXCEPT ![p] = "none"]

\* load_state, or a fresh breaker if there is no copy or Redis fails.
load_state(p) ==
    \E s \in saved \cup {Fresh} :
        /\ state' = [state EXCEPT ![p] = s.state]
        /\ failure_count' = [failure_count EXCEPT ![p] = s.failure_count]
        /\ success_count' = [success_count EXCEPT ![p] = s.success_count]
        /\ last_failure' = [last_failure EXCEPT ![p] = s.last_failure]

\* A process dies and starts again (init_async).
restart(p) ==
    /\ restarts < MaxRestarts /\ restarts' = restarts + 1
    /\ pc' = [c \in Calls |-> IF ProcOf[c] = p THEN "idle" ELSE pc[c]]
    /\ load_state(p)
    /\ UNCHANGED <<saved, data, failures, resets>>

\* POST /saga/circuit-breaker/reset/{adapter}, for the process that serves it.
reset_circuit_breaker(p) ==
    /\ resets < MaxResets /\ resets' = resets + 1
    /\ state' = [state EXCEPT ![p] = "closed"]
    /\ failure_count' = [failure_count EXCEPT ![p] = 0]
    /\ success_count' = [success_count EXCEPT ![p] = 0]
    /\ last_failure' = [last_failure EXCEPT ![p] = "none"]
    /\ UNCHANGED <<saved, pc, data, failures, restarts>>

\* timeout seconds since the last failure of p, and since those of the copies.
timeout_passes(p) ==
    /\ last_failure[p] = "recent"
    /\ last_failure' = [last_failure EXCEPT ![p] = "past"]
    /\ UNCHANGED <<state, failure_count, success_count, saved, pc, data, budget>>

Aged(s) == [s EXCEPT !.last_failure = "past"]
copy_ages ==
    /\ \E s \in saved : s.last_failure = "recent"
    /\ saved' = {Aged(s) : s \in saved}
    /\ UNCHANGED <<breaker, pc, data, budget>>

\* The copy lives for 3600 seconds.
copy_expires ==
    /\ \E s \in saved : s.last_failure = "past"
    /\ saved' = {}
    /\ UNCHANGED <<breaker, pc, data, budget>>

-----------------------------------------------------------------------------
Call(c) == can_execute(c) \/ record_success(c) \/ record_failure(c) \/ persist_state(c)

Next ==
    \/ \E c \in Calls : Call(c)
    \/ \E p \in Procs : restart(p) \/ reset_circuit_breaker(p) \/ timeout_passes(p)
    \/ copy_ages \/ copy_expires

Spec == Init /\ [][Next]_vars

\* Callers keep coming, their calls end (SAGA_ADAPTER_TIMEOUT_SECONDS), the
\* adapter works again after MaxFailures failures, and time passes.
Fairness ==
    /\ \A c \in Calls :
           /\ WF_vars(can_execute(c)) /\ WF_vars(persist_state(c))
           /\ WF_vars(record_success(c) \/ record_failure(c))
    /\ \A p \in Procs : WF_vars(timeout_passes(p))

LiveSpec == Spec /\ Fairness

-----------------------------------------------------------------------------
(* Properties.                                                               *)

TypeOK ==
    /\ state \in [Procs -> CircuitState]
    /\ failure_count \in [Procs -> 0..MaxFailures]
    /\ success_count \in [Procs -> 0..success_threshold]
    /\ last_failure \in [Procs -> Age]
    /\ saved \subseteq Copy /\ data \in [Calls -> Copy]
    /\ pc \in [Calls -> {"idle", "calling", "saving"}]
    /\ failures \in 0..MaxFailures /\ restarts \in 0..MaxRestarts /\ resets \in 0..MaxResets

\* A breaker that lets calls through has room in the counter that decides on
\* its next state, whatever calls of an earlier state come back late and
\* whatever copy its process has started from: a closed one opens only after
\* failure_threshold failures, not on the first failure after a recovery.
CountersHaveRoom ==
    \A p \in Procs :
        /\ state[p] = "closed" => failure_count[p] < failure_threshold
        /\ state[p] = "half_open" => success_count[p] < success_threshold

\* Once the adapter works again every breaker closes, in every process,
\* restarted from whatever copy.
OpenCloses == \A p \in Procs : state[p] = "open" ~> state[p] = "closed"
=============================================================================
