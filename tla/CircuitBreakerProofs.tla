------------------------ MODULE CircuitBreakerProofs ------------------------
(* The counters of every breaker have room, for any number of processes and   *)
(* calls and any thresholds.  The strengthening says the same of the copies   *)
(* a process may start from, in Redis and on their way to it; none of them is *)
(* half open, because a failure is what writes a copy and ends a half open    *)
(* state.                                                                    *)
EXTENDS CircuitBreaker, TLAPS

\* A copy whose counter has room.
Sound(s) ==
    /\ s.state # "half_open"
    /\ s.state = "closed" => s.failure_count < failure_threshold

CopiesSound == (\A s \in saved : Sound(s)) /\ (\A c \in Calls : Sound(data[c]))

\* TypeOK without the bounds of the counters.
BreakerTypes ==
    /\ state \in [Procs -> CircuitState]
    /\ failure_count \in [Procs -> Nat] /\ success_count \in [Procs -> Nat]
    /\ last_failure \in [Procs -> Age]
    /\ pc \in [Calls -> {"idle", "calling", "saving"}]
    /\ data \in [Calls -> [state : CircuitState, failure_count : Nat,
                           success_count : Nat, last_failure : Age]]
    /\ saved \in SUBSET [state : CircuitState, failure_count : Nat,
                         success_count : Nat, last_failure : Age]

BreakerInv == BreakerTypes /\ CopiesSound /\ CountersHaveRoom

LEMMA FreshSound == Sound(Fresh) /\ Fresh.failure_count \in Nat /\ Fresh.success_count \in Nat
                    /\ Fresh.state \in CircuitState /\ Fresh.last_failure \in Age
BY BreakerAssumption DEF Sound, Fresh, CircuitState, Age

LEMMA InitBreaker == ASSUME Init PROVE BreakerInv
BY BreakerAssumption, FreshSound
DEF Init, BreakerInv, BreakerTypes, CopiesSound, CountersHaveRoom, Sound, Fresh, CircuitState, Age

LEMMA StepBreaker == ASSUME BreakerInv, [Next]_vars PROVE BreakerInv'
<1> USE BreakerAssumption
        DEF BreakerInv, BreakerTypes, CopiesSound, CountersHaveRoom, Sound,
            CircuitState, Age, breaker, budget
<1>1. CASE UNCHANGED vars
  BY <1>1 DEF vars
<1>2. ASSUME NEW c \in Calls, can_execute(c) PROVE BreakerInv'
  BY <1>2 DEF can_execute
<1>3. ASSUME NEW c \in Calls, record_success(c) PROVE BreakerInv'
  BY <1>3 DEF record_success
<1>4. ASSUME NEW c \in Calls, record_failure(c) PROVE BreakerInv'
  BY <1>4 DEF record_failure
<1>5. ASSUME NEW c \in Calls, persist_state(c) PROVE BreakerInv'
  BY <1>5 DEF persist_state
<1>6. ASSUME NEW p \in Procs, restart(p) PROVE BreakerInv'
  BY <1>6, FreshSound DEF restart, load_state
<1>7. ASSUME NEW p \in Procs, reset_circuit_breaker(p) \/ timeout_passes(p) PROVE BreakerInv'
  <2>1. CASE reset_circuit_breaker(p)
    BY <2>1 DEF reset_circuit_breaker
  <2>2. CASE timeout_passes(p)
    BY <2>2 DEF timeout_passes
  <2> QED BY <1>7, <2>1, <2>2
<1>8. CASE copy_ages \/ copy_expires
  BY <1>8 DEF copy_ages, copy_expires, Aged
<1> QED
  BY <1>1, <1>2, <1>3, <1>4, <1>5, <1>6, <1>7, <1>8 DEF Next, Call

\* A closed breaker is fewer than failure_threshold failures, a half open one
\* fewer than success_threshold successes, from its next state.
THEOREM CountersHaveRoomHolds == Spec => []CountersHaveRoom
<1>1. Init => BreakerInv BY InitBreaker
<1>2. BreakerInv /\ [Next]_vars => BreakerInv' BY StepBreaker
<1>3. BreakerInv => CountersHaveRoom BY DEF BreakerInv
<1> QED BY <1>1, <1>2, <1>3, PTL DEF Spec

-----------------------------------------------------------------------------
(* The shape of the state: no counter and no copy counts more failures than   *)
(* there have been, nor more successes than close a breaker.                  *)

Within(s) == s.failure_count <= failures /\ s.success_count <= success_threshold

Bounded ==
    /\ \A p \in Procs : failure_count[p] <= failures /\ success_count[p] <= success_threshold
    /\ (\A s \in saved : Within(s)) /\ (\A c \in Calls : Within(data[c]))
    /\ failures \in 0..MaxFailures /\ restarts \in 0..MaxRestarts /\ resets \in 0..MaxResets

LEMMA StepBounded == ASSUME BreakerInv, Bounded, [Next]_vars PROVE Bounded'
<1> USE BreakerAssumption, FreshSound
        DEF BreakerInv, BreakerTypes, CountersHaveRoom, Bounded, Within, breaker, budget
<1>1. CASE UNCHANGED vars
  BY <1>1 DEF vars
<1>2. ASSUME NEW c \in Calls, can_execute(c) PROVE Bounded'
  BY <1>2 DEF can_execute
<1>3. ASSUME NEW c \in Calls, record_success(c) PROVE Bounded'
  BY <1>3 DEF record_success
<1>4. ASSUME NEW c \in Calls, record_failure(c) PROVE Bounded'
  BY <1>4 DEF record_failure
<1>5. ASSUME NEW c \in Calls, persist_state(c) PROVE Bounded'
  BY <1>5 DEF persist_state
<1>6. ASSUME NEW p \in Procs, restart(p) PROVE Bounded'
  BY <1>6 DEF restart, load_state, Fresh
<1>7. ASSUME NEW p \in Procs, reset_circuit_breaker(p) \/ timeout_passes(p) PROVE Bounded'
  BY <1>7 DEF reset_circuit_breaker, timeout_passes
<1>8. CASE copy_ages \/ copy_expires
  BY <1>8 DEF copy_ages, copy_expires, Aged
<1> QED
  BY <1>1, <1>2, <1>3, <1>4, <1>5, <1>6, <1>7, <1>8 DEF Next, Call

LEMMA CopyType ==
    ASSUME NEW s \in [state : CircuitState, failure_count : Nat,
                      success_count : Nat, last_failure : Age],
           Within(s), failures \in 0..MaxFailures
    PROVE  s \in Copy
BY BreakerAssumption DEF Within, Copy

\* No breaker and no copy of one has counters outside their bounds.
THEOREM TypeOKHolds == Spec => []TypeOK
<1>1. Init => BreakerInv  BY InitBreaker
<1>2. Init => Bounded  BY BreakerAssumption DEF Init, Bounded, Within, Fresh
<1>3. BreakerInv /\ [Next]_vars => BreakerInv'  BY StepBreaker
<1>4. BreakerInv /\ Bounded /\ [Next]_vars => Bounded'  BY StepBounded
<1>5. BreakerInv /\ Bounded => TypeOK
  <2> SUFFICES ASSUME BreakerInv, Bounded PROVE TypeOK
    OBVIOUS
  <2>1. saved \subseteq Copy
    BY CopyType DEF BreakerInv, BreakerTypes, Bounded
  <2>2. data \in [Calls -> Copy]
    BY CopyType DEF BreakerInv, BreakerTypes, Bounded
  <2>3. failure_count \in [Procs -> 0..MaxFailures]
    BY BreakerAssumption DEF BreakerInv, BreakerTypes, Bounded
  <2>4. success_count \in [Procs -> 0..success_threshold]
    BY BreakerAssumption DEF BreakerInv, BreakerTypes, Bounded
  <2> QED BY <2>1, <2>2, <2>3, <2>4 DEF BreakerInv, BreakerTypes, Bounded, TypeOK
<1> QED BY <1>1, <1>2, <1>3, <1>4, <1>5, PTL DEF Spec
=============================================================================
