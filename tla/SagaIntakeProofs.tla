-------------------------- MODULE SagaIntakeProofs --------------------------
(* TypeOK and RunsAreAsked of SagaIntake, for any number of sagas, starts,    *)
(* servers, helpers and faults.  Run n of a saga belongs to at most one task  *)
(* until it begins: whoever inserts the row has the first, each replay its    *)
(* own.                                                                      *)
EXTENDS SagaIntake, SequenceTheorems, TLAPS

Record == [at : Places, saga : Sagas \cup {Nobody},
           tries : 0..MAX_RETRIES, ask : 0..(MaxReplays + 1)]
States == {"none", "pending", "in_progress", "compensating", "succeeded", "failed"}

\* TypeOK in the groups of variables that change together.
BusOK ==
    /\ source \in [Starts -> Sagas]
    /\ unpublished \subseteq Starts /\ stream \in Seq(Starts)
    /\ memory \in [Servers -> Seq(Starts)] /\ batch \in [Servers -> Seq(Starts)]
    /\ mode \in [Servers -> {"redis", "memory", "down"}]
TaskOK == task \in [Tasks -> Record]
TableOK ==
    /\ rows \in [Sagas -> States]
    /\ expired \subseteq Sagas /\ started \subseteq Sagas
    /\ lock \in [Sagas -> Tasks \cup {Nobody, Ghost}]
    /\ letters \in [Sagas -> 0..MaxLetters]
RunsOK == runs \in [Sagas -> [Asks -> Nat]] /\ replays \in [Sagas -> 0..MaxReplays]
PastOK == lost \subseteq Starts /\ orphaned \subseteq Sagas /\ faults \in 0..MaxFaults

\* The places before the plan begins.
Before == {"record", "cas", "release", "timeout", "read", "mark", "replay", "replay_mark"}
\* A task at work has a saga, and a consumer at work has entries.
BusyOK(t) ==
    task[t].at \notin {"idle", "gone"} =>
        /\ task[t].saga \in Sagas
        /\ t \in Servers => batch[t] # <<>>
\* t has a run of s to make, and has not begun it.
Owes(t, s, n) == task[t].saga = s /\ task[t].ask = n /\ n # 0 /\ task[t].at \in Before
\* Nobody gets to the plan without a run to make.
PlanOK(t) ==
    /\ task[t].at \in {"read", "mark", "replay", "replay_mark", "cas"} => task[t].ask # 0
    /\ task[t].at \in {"record", "cas"} => task[t].ask \in {0, 1}
    /\ task[t].at \in {"idle", "gone"} => task[t].ask = 0
    /\ task[t].at = "timeout" => task[t].ask # 0 \/ task[t].saga \in expired
OwedOK ==
    \A s \in Sagas, n \in Asks, t \in Tasks :
        Owes(t, s, n) =>
            /\ n <= 1 + replays[s] /\ runs[s][n] = 0 /\ (n = 1 => rows[s] # "none")
            /\ \A u \in Tasks : Owes(u, s, n) => u = t
UnbornOK == \A s \in Sagas : rows[s] = "none" => runs[s][1] = 0

AllBusyOK == \A t \in Tasks : BusyOK(t)
AllPlanOK == \A t \in Tasks : PlanOK(t)

TypesOK == BusOK /\ TaskOK /\ TableOK /\ RunsOK /\ PastOK

\* t gets to p, with n attempts behind it, to make run k of s.
Moves(t, p, s, n, k) ==
    task' = [task EXCEPT ![t] = [at |-> p, saga |-> s, tries |-> n, ask |-> k]]
\* What t has to make once it is at p with run k of s is what it had to make, or nobody's.
Inherits(t, p, s, k) ==
    (k # 0 /\ p \in Before) =>
        \/ Owes(t, s, k)
        \/ /\ k <= 1 + replays'[s] /\ runs'[s][k] = 0 /\ (k = 1 => rows'[s] # "none")
           /\ \A u \in Tasks : ~Owes(u, s, k)
\* Rows and replays are never taken back, and a run is made by the task that owes it.
Forward ==
    /\ \A s \in Sagas : rows'[s] = "none" => rows[s] = "none"
    /\ \A s \in Sagas : replays[s] <= replays'[s]
    /\ expired \subseteq expired'
Protocol == AllBusyOK /\ AllPlanOK /\ OwedOK /\ UnbornOK /\ RunsAreAsked
IInv == TypesOK /\ Protocol

-----------------------------------------------------------------------------
(* A move of one task, and a step that moves none.                           *)

LEMMA MovedTask ==
    ASSUME TaskOK, NEW t \in Tasks, NEW p, NEW s, NEW n, NEW k, Moves(t, p, s, n, k)
    PROVE  /\ task'[t] = [at |-> p, saga |-> s, tries |-> n, ask |-> k]
           /\ \A u \in Tasks : u # t => task'[u] = task[u]
BY DEF TaskOK, Moves

LEMMA MoveType ==
    ASSUME TaskOK, NEW t \in Tasks, NEW p \in Places, NEW s \in Sagas \cup {Nobody},
           NEW n \in 0..MAX_RETRIES, NEW k \in 0..(MaxReplays + 1), Moves(t, p, s, n, k)
    PROVE  TaskOK'
<1>1. [at |-> p, saga |-> s, tries |-> n, ask |-> k] \in Record
  BY DEF Record
<1>. QED  BY <1>1 DEF TaskOK, Moves

LEMMA GotoMoves ==
    ASSUME TaskOK, NEW t \in Tasks, NEW p, Goto(t, p)
    PROVE  Moves(t, p, task[t].saga, task[t].tries, task[t].ask)
<1>1. task[t] \in Record  BY DEF TaskOK
<1>2. [task[t] EXCEPT !.at = p]
        = [at |-> p, saga |-> task[t].saga, tries |-> task[t].tries, ask |-> task[t].ask]
  BY <1>1 DEF Record
<1>. QED  BY <1>2 DEF Goto, Moves, TaskOK

LEMMA PutMoves ==
    ASSUME TaskOK, NEW t \in Tasks, NEW p, NEW n, NEW k, Put(t, p, n, k)
    PROVE  Moves(t, p, task[t].saga, n, k)
BY DEF TaskOK, Put, Moves

LEMMA FieldTypes ==
    ASSUME TaskOK, NEW t \in Tasks
    PROVE  /\ task[t].at \in Places /\ task[t].saga \in Sagas \cup {Nobody}
           /\ task[t].tries \in 0..MAX_RETRIES /\ task[t].ask \in 0..(MaxReplays + 1)
BY DEF TaskOK, Record

\* Every step of the protocol but the execution of a plan is one of these.
LEMMA MoveKeeps ==
    ASSUME TypesOK, Protocol, RunsOK', NEW t \in Tasks, NEW p, NEW s, NEW n, NEW k,
           Moves(t, p, s, n, k), Forward, runs' = runs,
           p \notin {"idle", "gone"} => s \in Sagas /\ (t \in Servers => batch'[t] # <<>>),
           \A u \in Servers : u # t => batch'[u] = batch[u],
           p \in {"read", "mark", "replay", "replay_mark", "cas"} => k # 0,
           p \in {"record", "cas"} => k \in {0, 1},
           p \in {"idle", "gone"} => k = 0,
           p = "timeout" => k # 0 \/ s \in expired',
           Inherits(t, p, s, k)
    PROVE  Protocol'
<1>0. TaskOK  BY DEF TypesOK
<1>1. task'[t] = [at |-> p, saga |-> s, tries |-> n, ask |-> k]  BY <1>0, MovedTask
<1>2. \A u \in Tasks : u # t => task'[u] = task[u]  BY <1>0, MovedTask
<1>3. AllBusyOK'
  <2>1. ASSUME NEW u \in Tasks PROVE BusyOK(u)'
    <3>1. CASE u = t  BY <1>1, <3>1 DEF BusyOK
    <3>2. CASE u # t
      BY <1>2, <3>2 DEF BusyOK, Protocol, AllBusyOK
    <3>. QED  BY <3>1, <3>2
  <2>. QED  BY <2>1 DEF AllBusyOK
<1>4. AllPlanOK'
  <2>1. ASSUME NEW u \in Tasks PROVE PlanOK(u)'
    <3>1. CASE u = t  BY <1>1, <3>1 DEF PlanOK
    <3>2. CASE u # t
      BY <1>2, <3>2 DEF PlanOK, Protocol, AllPlanOK, Forward
    <3>. QED  BY <3>1, <3>2
  <2>. QED  BY <2>1 DEF AllPlanOK
<1>5. \A u \in Tasks, z \in Sagas, m \in Asks :
        u # t => (Owes(u, z, m)' <=> Owes(u, z, m))
  BY <1>2 DEF Owes
<1>6. \A z \in Sagas, m \in Asks : Owes(t, z, m)' => z = s /\ m = k /\ k # 0 /\ p \in Before
  BY <1>1 DEF Owes
<1>7. OwedOK'
  <2> SUFFICES ASSUME NEW z \in Sagas, NEW m \in Asks, NEW u \in Tasks, Owes(u, z, m)'
               PROVE  /\ m <= 1 + replays'[z] /\ runs'[z][m] = 0 /\ (m = 1 => rows'[z] # "none")
                      /\ \A v \in Tasks : Owes(v, z, m)' => v = u
    BY DEF OwedOK
  <2>1. ASSUME NEW w \in Tasks, Owes(w, z, m)
        PROVE  /\ m <= 1 + replays'[z] /\ runs'[z][m] = 0 /\ (m = 1 => rows'[z] # "none")
               /\ \A v \in Tasks : Owes(v, z, m) => v = w
    <3>1. /\ m <= 1 + replays[z] /\ runs[z][m] = 0 /\ (m = 1 => rows[z] # "none")
          /\ \A v \in Tasks : Owes(v, z, m) => v = w
      BY <2>1 DEF Protocol, OwedOK
    <3>2. replays[z] <= replays'[z] /\ replays[z] \in Int /\ replays'[z] \in Int /\ m \in Int
      BY SagaIntakeAssumption DEF Forward, TypesOK, RunsOK, Asks
    <3>3. m <= 1 + replays'[z]  BY <3>1, <3>2
    <3>. QED  BY <3>1, <3>3 DEF Forward
  <2>2. CASE u # t
    <3>1. Owes(u, z, m)  BY <1>5, <2>2
    <3>2. ASSUME NEW v \in Tasks, Owes(v, z, m)' PROVE v = u
      <4>1. CASE v # t  BY <1>5, <2>1, <3>1, <3>2, <4>1
      <4>2. CASE v = t
        BY <1>6, <2>1, <3>1, <3>2, <4>2 DEF Inherits
      <4>. QED  BY <4>1, <4>2
    <3>. QED  BY <2>1, <3>1, <3>2
  <2>3. CASE u = t
    <3>1. z = s /\ m = k /\ k # 0 /\ p \in Before  BY <1>6, <2>3
    <3>2. CASE Owes(t, s, k)
      <4>1. \A v \in Tasks : Owes(v, z, m)' => v = t
        BY <1>5, <2>1, <3>1, <3>2
      <4>. QED  BY <2>1, <2>3, <3>1, <3>2, <4>1
    <3>3. CASE ~Owes(t, s, k)
      <4>1. /\ k <= 1 + replays'[s] /\ runs'[s][k] = 0 /\ (k = 1 => rows'[s] # "none")
            /\ \A v \in Tasks : ~Owes(v, s, k)
        BY <3>1, <3>3 DEF Inherits
      <4>2. \A v \in Tasks : Owes(v, z, m)' => v = t  BY <1>5, <3>1, <4>1
      <4>. QED  BY <2>3, <3>1, <4>1, <4>2
    <3>. QED  BY <3>2, <3>3
  <2>. QED  BY <2>2, <2>3
<1>8. UnbornOK'  BY DEF Protocol, UnbornOK, Forward
<1>9. RunsAreAsked'
  <2> SUFFICES ASSUME NEW z \in Sagas, NEW m \in Asks
               PROVE  runs'[z][m] <= IF m <= 1 + replays'[z] THEN 1 ELSE 0
    BY DEF RunsAreAsked
  <2>1. runs[z][m] <= IF m <= 1 + replays[z] THEN 1 ELSE 0
    BY DEF Protocol, RunsAreAsked
  <2>2. /\ replays[z] <= replays'[z] /\ replays[z] \in Int /\ replays'[z] \in Int
        /\ m \in Int /\ runs[z][m] \in Nat
    BY SagaIntakeAssumption DEF Forward, TypesOK, RunsOK, Asks
  <2>. QED  BY <2>1, <2>2
<1>. QED  BY <1>3, <1>4, <1>7, <1>8, <1>9 DEF Protocol

LEMMA RestKeeps ==
    ASSUME TypesOK, Protocol, RunsOK', UNCHANGED <<task, batch, runs>>, Forward
    PROVE  Protocol'
<1>1. AllBusyOK'  BY DEF Protocol, AllBusyOK, BusyOK
<1>2. AllPlanOK'  BY DEF Protocol, AllPlanOK, PlanOK, Forward
<1>3. \A u \in Tasks, z \in Sagas, m \in Asks : Owes(u, z, m)' <=> Owes(u, z, m)
  BY DEF Owes
<1>4. OwedOK'
  <2> SUFFICES ASSUME NEW z \in Sagas, NEW m \in Asks, NEW u \in Tasks, Owes(u, z, m)'
               PROVE  /\ m <= 1 + replays'[z] /\ runs'[z][m] = 0 /\ (m = 1 => rows'[z] # "none")
                      /\ \A v \in Tasks : Owes(v, z, m)' => v = u
    BY DEF OwedOK
  <2>1. /\ m <= 1 + replays[z] /\ runs[z][m] = 0 /\ (m = 1 => rows[z] # "none")
        /\ \A v \in Tasks : Owes(v, z, m) => v = u
    BY <1>3 DEF Protocol, OwedOK
  <2>2. replays[z] <= replays'[z] /\ replays[z] \in Int /\ replays'[z] \in Int /\ m \in Int
    BY SagaIntakeAssumption DEF Forward, TypesOK, RunsOK, Asks
  <2>3. m <= 1 + replays'[z]  BY <2>1, <2>2
  <2>. QED  BY <1>3, <2>1, <2>3 DEF Forward
<1>5. UnbornOK'  BY DEF Protocol, UnbornOK, Forward
<1>6. RunsAreAsked'
  <2> SUFFICES ASSUME NEW z \in Sagas, NEW m \in Asks
               PROVE  runs'[z][m] <= IF m <= 1 + replays'[z] THEN 1 ELSE 0
    BY DEF RunsAreAsked
  <2>1. runs[z][m] <= IF m <= 1 + replays[z] THEN 1 ELSE 0
    BY DEF Protocol, RunsAreAsked
  <2>2. /\ replays[z] <= replays'[z] /\ replays[z] \in Int /\ replays'[z] \in Int
        /\ m \in Int /\ runs[z][m] \in Nat
    BY SagaIntakeAssumption DEF Forward, TypesOK, RunsOK, Asks
  <2>. QED  BY <2>1, <2>2
<1>. QED  BY <1>1, <1>2, <1>4, <1>5, <1>6 DEF Protocol

\* A task at work goes on with the saga it has.
LEMMA WalkKeeps ==
    ASSUME TypesOK, Protocol, RunsOK', NEW t \in Tasks, NEW p, NEW n, NEW k,
           Moves(t, p, task[t].saga, n, k), task[t].at \notin {"idle", "gone"},
           Forward, UNCHANGED <<batch, runs>>, k \in {0, task[t].ask},
           p \in {"read", "mark", "replay", "replay_mark", "cas"} => k # 0,
           p \in {"record", "cas"} => k \in {0, 1},
           p \in {"idle", "gone"} => k = 0,
           p = "timeout" => k # 0 \/ task[t].saga \in expired',
           p \in Before /\ k # 0 => task[t].at \in Before
    PROVE  Protocol'
<1>1. task[t].saga \in Sagas /\ (t \in Servers => batch[t] # <<>>)
  BY DEF Protocol, AllBusyOK, BusyOK
<1>2. Inherits(t, p, task[t].saga, k)
  BY DEF Inherits, Owes
<1>. QED  BY <1>1, <1>2, MoveKeeps

LEMMA GotoKeeps ==
    ASSUME TypesOK, Protocol, RunsOK', NEW t \in Tasks, NEW p,
           Goto(t, p), task[t].at \notin {"idle", "gone"},
           Forward, UNCHANGED <<batch, runs>>,
           p \in {"read", "mark", "replay", "replay_mark", "cas"} => task[t].ask # 0,
           p \in {"record", "cas"} => task[t].ask \in {0, 1},
           p \in {"idle", "gone"} => task[t].ask = 0,
           p = "timeout" => task[t].ask # 0 \/ task[t].saga \in expired',
           p \in Before => task[t].at \in Before
    PROVE  Protocol'
<1>1. Moves(t, p, task[t].saga, task[t].tries, task[t].ask)  BY GotoMoves DEF TypesOK
<1>. QED  BY <1>1, WalkKeeps

LEMMA GotoType ==
    ASSUME TaskOK, NEW t \in Tasks, NEW p \in Places, Goto(t, p)
    PROVE  TaskOK'
BY GotoMoves, MoveType, FieldTypes

LEMMA PutType ==
    ASSUME TaskOK, NEW t \in Tasks, NEW p \in Places, NEW n \in 0..MAX_RETRIES,
           NEW k \in 0..(MaxReplays + 1), Put(t, p, n, k)
    PROVE  TaskOK'
BY PutMoves, MoveType, FieldTypes

LEMMA IdleKeeps ==
    ASSUME TypesOK, Protocol, RunsOK', NEW t \in Tasks, task' = [task EXCEPT ![t] = Idle],
           Forward, runs' = runs, \A u \in Servers : u # t => batch'[u] = batch[u]
    PROVE  TaskOK' /\ Protocol'
<1>1. Moves(t, "idle", Nobody, 0, 0)  BY DEF Moves, Idle
<1>2. Inherits(t, "idle", Nobody, 0)  BY DEF Inherits
<1>3. Protocol'  BY <1>1, <1>2, MoveKeeps
<1>4. "idle" \in Places /\ 0 \in 0..MAX_RETRIES /\ 0 \in 0..(MaxReplays + 1)
  BY SagaIntakeAssumption DEF Places
<1>5. TaskOK'  BY <1>1, <1>4, MoveType DEF TypesOK
<1>. QED  BY <1>3, <1>5

LEMMA ReturnKeeps ==
    ASSUME TypesOK, Protocol, RunsOK', NEW t \in Tasks, Return(t),
           task[t].at \notin {"idle", "gone"}, Forward, UNCHANGED <<batch, runs>>
    PROVE  TaskOK' /\ Protocol'
<1>1. CASE t \in Servers
  <2>1. Goto(t, "ack")  BY <1>1 DEF Return
  <2>2. Protocol'  BY <2>1, GotoKeeps DEF Before
  <2>3. "ack" \in Places  BY DEF Places
  <2>4. TaskOK'  BY <2>1, <2>3, GotoType DEF TypesOK
  <2>. QED  BY <2>2, <2>4
<1>2. CASE t \notin Servers
  <2>1. task' = [task EXCEPT ![t] = Idle]  BY <1>2 DEF Return
  <2>. QED  BY <2>1, IdleKeeps
<1>. QED  BY <1>1, <1>2

-----------------------------------------------------------------------------
(* The steps that leave the bus and the history alone.                       *)

LEMMA QuietFrame ==
    ASSUME TypesOK, UNCHANGED <<source, bus, history>>, fault \/ no_fault
    PROVE  /\ BusOK' /\ RunsOK' /\ PastOK' /\ UNCHANGED <<batch, runs>>
           /\ \A s \in Sagas : replays[s] <= replays'[s]
<1>1. BusOK' /\ UNCHANGED batch  BY DEF TypesOK, BusOK, bus
<1>2. RunsOK' /\ UNCHANGED <<runs, replays>>  BY DEF TypesOK, RunsOK, history
<1>3. faults' \in 0..MaxFaults
  BY SagaIntakeAssumption DEF TypesOK, PastOK, fault, no_fault
<1>4. PastOK'  BY <1>3 DEF TypesOK, PastOK, history
<1>5. \A s \in Sagas : replays[s] <= replays'[s]
  BY <1>2, SagaIntakeAssumption DEF TypesOK, RunsOK
<1>. QED  BY <1>1, <1>2, <1>4, <1>5

LEMMA SagaAtWork ==
    ASSUME TypesOK, Protocol, NEW t \in Tasks, task[t].at \notin {"idle", "gone"}
    PROVE  task[t].saga \in Sagas
BY DEF Protocol, AllBusyOK, BusyOK

LEMMA UnlockedType ==
    ASSUME TypesOK, NEW t \in Tasks
    PROVE  Unlocked(t) \in [Sagas -> Tasks \cup {Nobody, Ghost}]
BY DEF TypesOK, TableOK, Unlocked

LEMMA check_idempotency_keeps ==
    ASSUME TypesOK, Protocol, NEW p \in Servers, check_idempotency(p)
    PROVE  TypesOK' /\ Protocol'
<1>1. p \in Tasks /\ task[p].at \notin {"idle", "gone"}
  BY DEF Tasks, check_idempotency, At
<1>2. BusOK' /\ RunsOK' /\ PastOK' /\ UNCHANGED <<batch, runs>>
        /\ \A s \in Sagas : replays[s] <= replays'[s]
  BY QuietFrame DEF check_idempotency
<1>3. TableOK'
  BY SagaAtWork, UnlockedType, <1>1 DEF check_idempotency, TypesOK, TableOK, States, Terminal, table, SagaOf
<1>4. Forward
  BY <1>2 DEF check_idempotency, Forward, TypesOK, TableOK, table, Terminal
<1>5. TaskOK' /\ Protocol'
  <2>1. PICK q \in {"ack", "acquire"} : Goto(p, q)  BY DEF check_idempotency
  <2>2. q \in Places  BY DEF Places
  <2>3. TaskOK'  BY <1>1, <2>1, <2>2, GotoType DEF TypesOK
  <2>4. Protocol'  BY <1>1, <1>2, <1>4, <2>1, GotoKeeps DEF At, Before
  <2>. QED  BY <2>3, <2>4
<1>. QED  BY <1>2, <1>3, <1>5 DEF TypesOK

LEMMA acquire_keeps ==
    ASSUME TypesOK, Protocol, NEW p \in Servers, acquire(p)
    PROVE  TypesOK' /\ Protocol'
<1>1. p \in Tasks /\ task[p].at \notin {"idle", "gone"}
  BY DEF Tasks, acquire, At
<1>2. BusOK' /\ RunsOK' /\ PastOK' /\ UNCHANGED <<batch, runs>>
        /\ \A s \in Sagas : replays[s] <= replays'[s]
  BY QuietFrame DEF acquire
<1>3. TableOK'
  BY SagaAtWork, UnlockedType, <1>1 DEF acquire, TypesOK, TableOK, States, Terminal, table, SagaOf
<1>4. Forward
  BY <1>2 DEF acquire, Forward, TypesOK, TableOK, table, Terminal
<1>5. TaskOK' /\ Protocol'
  <2>1. Put(p, "insert", 0, 0) /\ "insert" \in Places  BY DEF acquire, Places
  <2>2. TaskOK'  BY <1>1, <2>1, PutType, SagaIntakeAssumption DEF TypesOK
  <2>3. Moves(p, "insert", task[p].saga, 0, 0)  BY <1>1, <2>1, PutMoves DEF TypesOK
  <2>4. Protocol'  BY <1>1, <1>2, <1>4, <2>3, WalkKeeps
  <2>. QED  BY <2>2, <2>4
<1>. QED  BY <1>2, <1>3, <1>5 DEF TypesOK

LEMMA refused_keeps ==
    ASSUME TypesOK, Protocol, NEW p \in Servers, refused(p)
    PROVE  TypesOK' /\ Protocol'
<1>1. p \in Tasks /\ task[p].at \notin {"idle", "gone"}
  BY DEF Tasks, refused, At
<1>2. BusOK' /\ RunsOK' /\ PastOK' /\ UNCHANGED <<batch, runs>>
        /\ \A s \in Sagas : replays[s] <= replays'[s]
  BY QuietFrame DEF refused
<1>3. TableOK'
  BY SagaAtWork, UnlockedType, <1>1 DEF refused, TypesOK, TableOK, States, Terminal, table, SagaOf
<1>4. Forward
  BY <1>2 DEF refused, Forward, TypesOK, TableOK, table, Terminal
<1>5. TaskOK' /\ Protocol'
  <2>1. CASE \E q \in {"ack", "raised"} : Goto(p, q)
    <3>1. PICK q \in {"ack", "raised"} : Goto(p, q)  BY <2>1
    <3>2. q \in Places  BY DEF Places
    <3>3. TaskOK'  BY <1>1, <3>1, <3>2, GotoType DEF TypesOK
    <3>4. Protocol'  BY <1>1, <1>2, <1>4, <3>1, GotoKeeps DEF Before
    <3>. QED  BY <3>3, <3>4
  <2>2. CASE task[p].tries < MAX_RETRIES /\ Put(p, "check", task[p].tries + 1, 0)
    <3>1. task[p].tries + 1 \in 0..MAX_RETRIES /\ 0 \in 0..(MaxReplays + 1)
      BY <1>1, <2>2, FieldTypes, SagaIntakeAssumption DEF TypesOK
    <3>2. TaskOK'  BY <1>1, <2>2, <3>1, PutType DEF TypesOK, Places
    <3>3. Moves(p, "check", task[p].saga, task[p].tries + 1, 0)
      BY <1>1, <2>2, PutMoves DEF TypesOK
    <3>4. Protocol'  BY <1>1, <1>2, <1>4, <3>3, WalkKeeps
    <3>. QED  BY <3>2, <3>4
  <2>3. task[p].tries \in Int  BY <1>1, FieldTypes DEF TypesOK
  <2>. QED  BY <2>1, <2>2, <2>3, SagaIntakeAssumption DEF refused
<1>. QED  BY <1>2, <1>3, <1>5 DEF TypesOK

LEMMA record_idempotency_keeps ==
    ASSUME TypesOK, Protocol, NEW p \in Servers, record_idempotency(p)
    PROVE  TypesOK' /\ Protocol'
<1>1. p \in Tasks /\ task[p].at \notin {"idle", "gone"}
  BY DEF Tasks, record_idempotency, At
<1>2. BusOK' /\ RunsOK' /\ PastOK' /\ UNCHANGED <<batch, runs>>
        /\ \A s \in Sagas : replays[s] <= replays'[s]
  BY QuietFrame DEF record_idempotency
<1>3. TableOK'
  BY SagaAtWork, UnlockedType, <1>1 DEF record_idempotency, TypesOK, TableOK, States, Terminal, table, SagaOf
<1>4. Forward
  BY <1>2 DEF record_idempotency, Forward, TypesOK, TableOK, table, Terminal
<1>5. TaskOK' /\ Protocol'
  <2>1. PICK q \in {"cas", "release"} : Goto(p, q) /\ (q = "cas" => task[p].ask # 0)
    BY DEF record_idempotency
  <2>2. q \in Places  BY DEF Places
  <2>3. TaskOK'  BY <1>1, <2>1, <2>2, GotoType DEF TypesOK
  <2>4. task[p].at \in Before /\ task[p].ask \in {0, 1}
    BY <1>1 DEF record_idempotency, At, Before, Protocol, AllPlanOK, PlanOK
  <2>5. Protocol'  BY <1>1, <1>2, <1>4, <2>1, <2>4, GotoKeeps
  <2>. QED  BY <2>3, <2>5
<1>. QED  BY <1>2, <1>3, <1>5 DEF TypesOK

LEMMA release_keeps ==
    ASSUME TypesOK, Protocol, NEW p \in Servers, release(p)
    PROVE  TypesOK' /\ Protocol'
<1>1. p \in Tasks /\ task[p].at \notin {"idle", "gone"}
  BY DEF Tasks, release, At
<1>2. BusOK' /\ RunsOK' /\ PastOK' /\ UNCHANGED <<batch, runs>>
        /\ \A s \in Sagas : replays[s] <= replays'[s]
  BY QuietFrame DEF release
<1>3. TableOK'
  BY SagaAtWork, UnlockedType, <1>1 DEF release, TypesOK, TableOK, States, Terminal, table, SagaOf
<1>4. Forward
  BY <1>2 DEF release, Forward, TypesOK, TableOK, table, Terminal
<1>5. TaskOK' /\ Protocol'
  <2>1. PICK q \in {"timeout", "ack"} : Goto(p, q) /\ (q = "timeout" => task[p].ask # 0)
    BY DEF release
  <2>2. q \in Places  BY DEF Places
  <2>3. TaskOK'  BY <1>1, <2>1, <2>2, GotoType DEF TypesOK
  <2>4. task[p].at \in Before  BY DEF release, At, Before
  <2>5. Protocol'  BY <1>1, <1>2, <1>4, <2>1, <2>4, GotoKeeps
  <2>. QED  BY <2>3, <2>5
<1>. QED  BY <1>2, <1>3, <1>5 DEF TypesOK

LEMMA check_timeout_keeps ==
    ASSUME TypesOK, Protocol, NEW t \in Tasks, check_timeout(t)
    PROVE  TypesOK' /\ Protocol'
<1>1. t \in Tasks /\ task[t].at \notin {"idle", "gone"}
  BY DEF Tasks, check_timeout, At
<1>2. BusOK' /\ RunsOK' /\ PastOK' /\ UNCHANGED <<batch, runs>>
        /\ \A s \in Sagas : replays[s] <= replays'[s]
  BY QuietFrame DEF check_timeout
<1>3. TableOK'
  BY SagaAtWork, UnlockedType, <1>1 DEF check_timeout, TypesOK, TableOK, States, Terminal, table, SagaOf
<1>4. Forward
  BY <1>2 DEF check_timeout, Forward, TypesOK, TableOK, table, Terminal
<1>5. TaskOK' /\ Protocol'
  <2>1. PICK q \in {"undo", "read"} : Goto(t, q) /\ (q = "read" => task[t].saga \notin expired)
    BY DEF check_timeout, SagaOf
  <2>2. q \in Places  BY DEF Places
  <2>3. TaskOK'  BY <1>1, <2>1, <2>2, GotoType DEF TypesOK
  <2>4. task[t].at \in Before /\ (q = "read" => task[t].ask # 0)
    BY <2>1 DEF check_timeout, At, Before, Protocol, AllPlanOK, PlanOK
  <2>5. Protocol'  BY <1>1, <1>2, <1>4, <2>1, <2>4, GotoKeeps
  <2>. QED  BY <2>3, <2>5
<1>. QED  BY <1>2, <1>3, <1>5 DEF TypesOK

LEMMA read_row_keeps ==
    ASSUME TypesOK, Protocol, NEW t \in Tasks, read_row(t)
    PROVE  TypesOK' /\ Protocol'
<1>1. t \in Tasks /\ task[t].at \notin {"idle", "gone"}
  BY DEF Tasks, read_row, At
<1>2. BusOK' /\ RunsOK' /\ PastOK' /\ UNCHANGED <<batch, runs>>
        /\ \A s \in Sagas : replays[s] <= replays'[s]
  BY QuietFrame DEF read_row
<1>3. TableOK'
  BY SagaAtWork, UnlockedType, <1>1 DEF read_row, TypesOK, TableOK, States, Terminal, table, SagaOf
<1>4. Forward
  BY <1>2 DEF read_row, Forward, TypesOK, TableOK, table, Terminal
<1>5. TaskOK' /\ Protocol'
  <2>1. CASE Return(t)  BY <1>1, <1>2, <1>4, <2>1, ReturnKeeps
  <2>2. CASE Goto(t, "mark")
    <3>1. TaskOK'  BY <1>1, <2>2, GotoType DEF TypesOK, Places
    <3>2. task[t].at \in Before /\ task[t].ask # 0
      BY DEF read_row, At, Before, Protocol, AllPlanOK, PlanOK
    <3>3. Protocol'  BY <1>1, <1>2, <1>4, <2>2, <3>2, GotoKeeps
    <3>. QED  BY <3>1, <3>3
  <2>. QED  BY <2>1, <2>2 DEF read_row
<1>. QED  BY <1>2, <1>3, <1>5 DEF TypesOK

LEMMA succeed_keeps ==
    ASSUME TypesOK, Protocol, NEW t \in Tasks, succeed(t)
    PROVE  TypesOK' /\ Protocol'
<1>1. t \in Tasks /\ task[t].at \notin {"idle", "gone"}
  BY DEF Tasks, succeed, At
<1>2. BusOK' /\ RunsOK' /\ PastOK' /\ UNCHANGED <<batch, runs>>
        /\ \A s \in Sagas : replays[s] <= replays'[s]
  BY QuietFrame DEF succeed
<1>3. TableOK'
  BY SagaAtWork, UnlockedType, <1>1 DEF succeed, TypesOK, TableOK, States, Terminal, table, SagaOf
<1>4. Forward
  BY <1>2 DEF succeed, Forward, TypesOK, TableOK, table, Terminal
<1>5. TaskOK' /\ Protocol'
  BY <1>1, <1>2, <1>4, ReturnKeeps DEF succeed
<1>. QED  BY <1>2, <1>3, <1>5 DEF TypesOK

LEMMA persist_dlq_message_keeps ==
    ASSUME TypesOK, Protocol, NEW t \in Tasks, persist_dlq_message(t)
    PROVE  TypesOK' /\ Protocol'
<1>1. t \in Tasks /\ task[t].at \notin {"idle", "gone"}
  BY DEF Tasks, persist_dlq_message, At
<1>2. BusOK' /\ RunsOK' /\ PastOK' /\ UNCHANGED <<batch, runs>>
        /\ \A s \in Sagas : replays[s] <= replays'[s]
  BY QuietFrame DEF persist_dlq_message
<1>3. TableOK'
  <2>1. CASE letters' = letters  BY <2>1 DEF persist_dlq_message, TypesOK, TableOK, table
  <2>2. CASE /\ letters[SagaOf(t)] < MaxLetters
             /\ letters' = [letters EXCEPT ![SagaOf(t)] = @ + 1]
    <3>1. SagaOf(t) \in Sagas  BY <1>1, SagaAtWork DEF SagaOf
    <3>2. letters[SagaOf(t)] + 1 \in 0..MaxLetters
      BY <2>2, <3>1, SagaIntakeAssumption DEF TypesOK, TableOK
    <3>3. letters' \in [Sagas -> 0..MaxLetters]
      BY <2>2, <3>2 DEF TypesOK, TableOK
    <3>. QED  BY <3>3 DEF persist_dlq_message, TypesOK, TableOK, table
  <2>. QED  BY <2>1, <2>2 DEF persist_dlq_message
<1>4. Forward
  BY <1>2 DEF persist_dlq_message, Forward, TypesOK, TableOK, table, Terminal
<1>5. TaskOK' /\ Protocol'
  BY <1>1, <1>2, <1>4, ReturnKeeps DEF persist_dlq_message
<1>. QED  BY <1>2, <1>3, <1>5 DEF TypesOK

LEMMA compensated_keeps ==
    ASSUME TypesOK, Protocol, NEW t \in Tasks, compensated(t)
    PROVE  TypesOK' /\ Protocol'
<1>1. t \in Tasks /\ task[t].at \notin {"idle", "gone"}
  BY DEF Tasks, compensated, At
<1>2. BusOK' /\ RunsOK' /\ PastOK' /\ UNCHANGED <<batch, runs>>
        /\ \A s \in Sagas : replays[s] <= replays'[s]
  BY QuietFrame DEF compensated
<1>3. TableOK'
  BY SagaAtWork, UnlockedType, <1>1 DEF compensated, TypesOK, TableOK, States, Terminal, table, SagaOf
<1>4. Forward
  BY <1>2 DEF compensated, Forward, TypesOK, TableOK, table, Terminal
<1>5. TaskOK' /\ Protocol'
  BY <1>1, <1>2, <1>4, ReturnKeeps DEF compensated
<1>. QED  BY <1>2, <1>3, <1>5 DEF TypesOK

LEMMA fail_keeps ==
    ASSUME TypesOK, Protocol, NEW t \in Tasks, fail(t)
    PROVE  TypesOK' /\ Protocol'
<1>1. t \in Tasks /\ task[t].at \notin {"idle", "gone"}
  BY DEF Tasks, fail, At
<1>2. BusOK' /\ RunsOK' /\ PastOK' /\ UNCHANGED <<batch, runs>>
        /\ \A s \in Sagas : replays[s] <= replays'[s]
  BY QuietFrame DEF fail
<1>3. TableOK'
  BY SagaAtWork, UnlockedType, <1>1 DEF fail, TypesOK, TableOK, States, Terminal, table, SagaOf
<1>4. Forward
  BY <1>2 DEF fail, Forward, TypesOK, TableOK, table, Terminal
<1>5. TaskOK' /\ Protocol'
  <2>1. Goto(t, "letter") /\ "letter" \in Places  BY DEF fail, Places
  <2>2. TaskOK'  BY <1>1, <2>1, GotoType DEF TypesOK
  <2>3. Protocol'  BY <1>1, <1>2, <1>4, <2>1, GotoKeeps DEF fail, At, Before
  <2>. QED  BY <2>2, <2>3
<1>. QED  BY <1>2, <1>3, <1>5 DEF TypesOK

LEMMA undo_keeps ==
    ASSUME TypesOK, Protocol, NEW t \in Tasks, undo(t)
    PROVE  TypesOK' /\ Protocol'
<1>1. t \in Tasks /\ task[t].at \notin {"idle", "gone"}
  BY DEF Tasks, undo, At
<1>2. BusOK' /\ RunsOK' /\ PastOK' /\ UNCHANGED <<batch, runs>>
        /\ \A s \in Sagas : replays[s] <= replays'[s]
  BY QuietFrame DEF undo
<1>3. TableOK'
  BY SagaAtWork, UnlockedType, <1>1 DEF undo, TypesOK, TableOK, States, Terminal, table, SagaOf
<1>4. Forward
  BY <1>2 DEF undo, Forward, TypesOK, TableOK, table, Terminal
<1>5. TaskOK' /\ Protocol'
  <2>1. CASE Return(t)  BY <1>1, <1>2, <1>4, <2>1, ReturnKeeps
  <2>2. CASE Goto(t, "compensating")
    <3>1. TaskOK'  BY <1>1, <2>2, GotoType DEF TypesOK, Places
    <3>2. Protocol'  BY <1>1, <1>2, <1>4, <2>2, GotoKeeps DEF Before
    <3>. QED  BY <3>1, <3>2
  <2>. QED  BY <2>1, <2>2 DEF undo
<1>. QED  BY <1>2, <1>3, <1>5 DEF TypesOK

LEMMA compensating_keeps ==
    ASSUME TypesOK, Protocol, NEW t \in Tasks, compensating(t)
    PROVE  TypesOK' /\ Protocol'
<1>1. t \in Tasks /\ task[t].at \notin {"idle", "gone"}
  BY DEF Tasks, compensating, At
<1>2. BusOK' /\ RunsOK' /\ PastOK' /\ UNCHANGED <<batch, runs>>
        /\ \A s \in Sagas : replays[s] <= replays'[s]
  BY QuietFrame DEF compensating
<1>3. TableOK'
  BY SagaAtWork, UnlockedType, <1>1 DEF compensating, TypesOK, TableOK, States, Terminal, table, SagaOf
<1>4. Forward
  BY <1>2 DEF compensating, Forward, TypesOK, TableOK, table, Terminal
<1>5. TaskOK' /\ Protocol'
  <2>1. Goto(t, "compensated") /\ "compensated" \in Places  BY DEF compensating, Places
  <2>2. TaskOK'  BY <1>1, <2>1, GotoType DEF TypesOK
  <2>3. Protocol'  BY <1>1, <1>2, <1>4, <2>1, GotoKeeps DEF compensating, At, Before
  <2>. QED  BY <2>2, <2>3
<1>. QED  BY <1>2, <1>3, <1>5 DEF TypesOK

LEMMA recover_mark_keeps ==
    ASSUME TypesOK, Protocol, NEW o \in Helpers, recover_mark(o)
    PROVE  TypesOK' /\ Protocol'
<1>1. o \in Tasks /\ task[o].at \notin {"idle", "gone"}
  BY DEF Tasks, recover_mark, At
<1>2. BusOK' /\ RunsOK' /\ PastOK' /\ UNCHANGED <<batch, runs>>
        /\ \A s \in Sagas : replays[s] <= replays'[s]
  BY QuietFrame DEF recover_mark
<1>3. TableOK'
  BY SagaAtWork, UnlockedType, <1>1 DEF recover_mark, TypesOK, TableOK, States, Terminal, table, SagaOf
<1>4. Forward
  BY <1>2 DEF recover_mark, Forward, TypesOK, TableOK, table, Terminal
<1>5. TaskOK' /\ Protocol'
  <2>1. Goto(o, "letter") /\ "letter" \in Places  BY DEF recover_mark, Places
  <2>2. TaskOK'  BY <1>1, <2>1, GotoType DEF TypesOK
  <2>3. Protocol'  BY <1>1, <1>2, <1>4, <2>1, GotoKeeps DEF recover_mark, At, Before
  <2>. QED  BY <2>2, <2>3
<1>. QED  BY <1>2, <1>3, <1>5 DEF TypesOK

LEMMA replay_read_keeps ==
    ASSUME TypesOK, Protocol, NEW o \in Helpers, replay_read(o)
    PROVE  TypesOK' /\ Protocol'
<1>1. o \in Tasks /\ task[o].at \notin {"idle", "gone"}
  BY DEF Tasks, replay_read, At
<1>2. BusOK' /\ RunsOK' /\ PastOK' /\ UNCHANGED <<batch, runs>>
        /\ \A s \in Sagas : replays[s] <= replays'[s]
  BY QuietFrame DEF replay_read
<1>3. TableOK'
  BY SagaAtWork, UnlockedType, <1>1 DEF replay_read, TypesOK, TableOK, States, Terminal, table, SagaOf
<1>4. Forward
  BY <1>2 DEF replay_read, Forward, TypesOK, TableOK, table, Terminal
<1>5. TaskOK' /\ Protocol'
  <2>1. CASE Return(o)  BY <1>1, <1>2, <1>4, <2>1, ReturnKeeps
  <2>2. CASE Goto(o, "replay_mark")
    <3>1. TaskOK'  BY <1>1, <2>2, GotoType DEF TypesOK, Places
    <3>2. task[o].at \in Before /\ task[o].ask # 0
      BY <1>1 DEF replay_read, At, Before, Protocol, AllPlanOK, PlanOK
    <3>3. Protocol'  BY <1>1, <1>2, <1>4, <2>2, <3>2, GotoKeeps
    <3>. QED  BY <3>1, <3>3
  <2>. QED  BY <2>1, <2>2 DEF replay_read
<1>. QED  BY <1>2, <1>3, <1>5 DEF TypesOK

LEMMA replay_mark_keeps ==
    ASSUME TypesOK, Protocol, NEW o \in Helpers, replay_mark(o)
    PROVE  TypesOK' /\ Protocol'
<1>1. o \in Tasks /\ task[o].at \notin {"idle", "gone"}
  BY DEF Tasks, replay_mark, At
<1>2. BusOK' /\ RunsOK' /\ PastOK' /\ UNCHANGED <<batch, runs>>
        /\ \A s \in Sagas : replays[s] <= replays'[s]
  BY QuietFrame DEF replay_mark
<1>3. TableOK'
  BY SagaAtWork, UnlockedType, <1>1 DEF replay_mark, TypesOK, TableOK, States, Terminal, table, SagaOf
<1>4. Forward
  BY <1>2 DEF replay_mark, Forward, TypesOK, TableOK, table, Terminal
<1>5. TaskOK' /\ Protocol'
  <2>1. TaskOK'  BY <1>1, GotoType DEF TypesOK, Places, replay_mark
  <2>2. task[o].at \in Before /\ task[o].ask # 0
    BY <1>1 DEF replay_mark, At, Before, Protocol, AllPlanOK, PlanOK
  <2>3. Protocol'  BY <1>1, <1>2, <1>4, <2>2, GotoKeeps DEF replay_mark
  <2>. QED  BY <2>1, <2>3
<1>. QED  BY <1>2, <1>3, <1>5 DEF TypesOK

LEMMA cas_keeps ==
    ASSUME TypesOK, Protocol, NEW p \in Servers, cas(p)
    PROVE  TypesOK' /\ Protocol'
<1>1. p \in Tasks /\ task[p].at \notin {"idle", "gone"}
  BY DEF Tasks, cas, At
<1>2. BusOK' /\ RunsOK' /\ PastOK' /\ UNCHANGED <<batch, runs>>
        /\ \A s \in Sagas : replays[s] <= replays'[s]
  BY QuietFrame DEF cas
<1>3. TableOK'
  BY SagaAtWork, UnlockedType, <1>1 DEF cas, TypesOK, TableOK, States, Terminal, table, SagaOf
<1>4. Forward
  BY <1>2 DEF cas, Forward, TypesOK, TableOK, table, Terminal
<1>5. TaskOK' /\ Protocol'
  <2>1. PICK k \in {0, 1} : Put(p, "release", 0, k)  BY DEF cas
  <2>2. task[p].at \in Before /\ task[p].ask = 1
    BY <1>1 DEF cas, At, Before, Protocol, AllPlanOK, PlanOK
  <2>3. k \in 0..(MaxReplays + 1) /\ "release" \in Places /\ 0 \in 0..MAX_RETRIES
    BY <2>1, SagaIntakeAssumption DEF Places
  <2>4. TaskOK'  BY <1>1, <2>1, <2>3, PutType DEF TypesOK
  <2>5. Moves(p, "release", task[p].saga, 0, k)  BY <1>1, <2>1, PutMoves DEF TypesOK
  <2>6. Protocol'  BY <1>1, <1>2, <1>4, <2>2, <2>5, WalkKeeps
  <2>. QED  BY <2>4, <2>6
<1>. QED  BY <1>2, <1>3, <1>5 DEF TypesOK

LEMMA insert_keeps ==
    ASSUME TypesOK, Protocol, NEW p \in Servers, insert(p)
    PROVE  TypesOK' /\ Protocol'
<1>1. p \in Tasks /\ task[p].at \notin {"idle", "gone"}
  BY DEF Tasks, insert, At
<1>2. BusOK' /\ RunsOK' /\ PastOK' /\ UNCHANGED <<batch, runs>>
        /\ \A s \in Sagas : replays[s] <= replays'[s]
  BY QuietFrame DEF insert
<1>3. TableOK'
  BY SagaAtWork, UnlockedType, <1>1 DEF insert, TypesOK, TableOK, States, Terminal, table, SagaOf
<1>4. Forward
  BY <1>2 DEF insert, Forward, TypesOK, TableOK, table, Terminal
<1>5. TaskOK' /\ Protocol'
  <2>1. PICK k \in {0, 1} : /\ Put(p, "record", 0, k)
                            /\ k = 1 => rows[task[p].saga] = "none"
    BY DEF insert, SagaOf
  <2>2. k \in 0..(MaxReplays + 1) /\ "record" \in Places /\ 0 \in 0..MAX_RETRIES
    BY <2>1, SagaIntakeAssumption DEF Places
  <2>3. TaskOK'  BY <1>1, <2>1, <2>2, PutType DEF TypesOK
  <2>4. Moves(p, "record", task[p].saga, 0, k)  BY <1>1, <2>1, PutMoves DEF TypesOK
  <2>5. task[p].saga \in Sagas /\ batch[p] # <<>>
    BY <1>1 DEF Protocol, AllBusyOK, BusyOK
  <2>6. Inherits(p, "record", task[p].saga, k)
    <3>1. CASE k = 0  BY <3>1 DEF Inherits
    <3>2. CASE k = 1
      <4>1. rows[task[p].saga] = "none"  BY <2>1, <3>2
      <4>2. rows'[task[p].saga] = "pending"
        BY <2>5, <4>1 DEF insert, SagaOf, TypesOK, TableOK
      <4>3. 1 \in Asks /\ 1 <= 1 + replays'[task[p].saga]
        BY <1>2, <2>5, SagaIntakeAssumption DEF RunsOK, Asks
      <4>4. runs'[task[p].saga][1] = 0
        BY <1>2, <2>5, <4>1 DEF Protocol, UnbornOK
      <4>5. \A u \in Tasks : ~Owes(u, task[p].saga, 1)
        BY <2>5, <4>1, <4>3 DEF Protocol, OwedOK
      <4>. QED  BY <3>2, <4>2, <4>3, <4>4, <4>5 DEF Inherits
    <3>. QED  BY <3>1, <3>2
  <2>7. Protocol'  BY <1>1, <1>2, <1>4, <2>4, <2>5, <2>6, MoveKeeps
  <2>. QED  BY <2>3, <2>7
<1>. QED  BY <1>2, <1>3, <1>5 DEF TypesOK

LEMMA time_passes_keeps ==
    ASSUME TypesOK, Protocol, NEW s \in Sagas, time_passes(s)
    PROVE  TypesOK' /\ Protocol'
<1>1. BusOK' /\ RunsOK' /\ PastOK' /\ UNCHANGED <<batch, runs>>
        /\ \A z \in Sagas : replays[z] <= replays'[z]
  BY QuietFrame DEF time_passes
<1>2. TableOK'
  BY DEF time_passes, TypesOK, TableOK
<1>3. Forward
  BY <1>1 DEF time_passes, Forward, TypesOK, TableOK, table
<1>4. UNCHANGED task  BY DEF time_passes
<1>5. Protocol'  BY <1>1, <1>3, <1>4, RestKeeps
<1>6. TaskOK'  BY <1>4 DEF TypesOK, TaskOK
<1>. QED  BY <1>1, <1>2, <1>5, <1>6 DEF TypesOK

LEMMA lock_lost_keeps ==
    ASSUME TypesOK, Protocol, NEW s \in Sagas, lock_lost(s)
    PROVE  TypesOK' /\ Protocol'
<1>1. BusOK' /\ RunsOK' /\ PastOK' /\ UNCHANGED <<batch, runs>>
        /\ \A z \in Sagas : replays[z] <= replays'[z]
  BY QuietFrame DEF lock_lost
<1>2. TableOK'
  BY DEF lock_lost, TypesOK, TableOK
<1>3. Forward
  BY <1>1 DEF lock_lost, Forward, TypesOK, TableOK, table
<1>4. UNCHANGED task  BY DEF lock_lost
<1>5. Protocol'  BY <1>1, <1>3, <1>4, RestKeeps
<1>6. TaskOK'  BY <1>4 DEF TypesOK, TaskOK
<1>. QED  BY <1>1, <1>2, <1>5, <1>6 DEF TypesOK

LEMMA lock_expires_keeps ==
    ASSUME TypesOK, Protocol, NEW s \in Sagas, lock_expires(s)
    PROVE  TypesOK' /\ Protocol'
<1>1. BusOK' /\ RunsOK' /\ PastOK' /\ UNCHANGED <<batch, runs>>
        /\ \A z \in Sagas : replays[z] <= replays'[z]
  BY QuietFrame DEF lock_expires
<1>2. TableOK'
  BY DEF lock_expires, TypesOK, TableOK
<1>3. Forward
  BY <1>1 DEF lock_expires, Forward, TypesOK, TableOK, table
<1>4. UNCHANGED task  BY DEF lock_expires
<1>5. Protocol'  BY <1>1, <1>3, <1>4, RestKeeps
<1>6. TaskOK'  BY <1>4 DEF TypesOK, TaskOK
<1>. QED  BY <1>1, <1>2, <1>5, <1>6 DEF TypesOK

LEMMA remove_keeps ==
    ASSUME TypesOK, Protocol, NEW s \in Sagas, remove(s)
    PROVE  TypesOK' /\ Protocol'
<1>1. BusOK' /\ RunsOK' /\ PastOK' /\ UNCHANGED <<batch, runs>>
        /\ \A z \in Sagas : replays[z] <= replays'[z]
  BY QuietFrame DEF remove
<1>2. TableOK'
  <2>1. letters[s] - 1 \in 0..MaxLetters
    BY SagaIntakeAssumption DEF remove, TypesOK, TableOK
  <2>. QED  BY <2>1 DEF remove, TypesOK, TableOK, table
<1>3. Forward
  BY <1>1 DEF remove, Forward, TypesOK, TableOK, table
<1>4. UNCHANGED task  BY DEF remove
<1>5. Protocol'  BY <1>1, <1>3, <1>4, RestKeeps
<1>6. TaskOK'  BY <1>4 DEF TypesOK, TaskOK
<1>. QED  BY <1>1, <1>2, <1>5, <1>6 DEF TypesOK

LEMMA select_stuck_keeps ==
    ASSUME TypesOK, Protocol, NEW h \in Helpers, NEW s \in Sagas, select_stuck(h, s)
    PROVE  TypesOK' /\ Protocol'
<1>1. h \in Tasks /\ h \notin Servers  BY SagaIntakeAssumption DEF Tasks
<1>2. BusOK' /\ RunsOK' /\ PastOK' /\ UNCHANGED <<batch, runs>>
        /\ \A z \in Sagas : replays[z] <= replays'[z]
  BY QuietFrame DEF select_stuck
<1>3. TableOK'  BY DEF select_stuck, TypesOK, TableOK, table
<1>4. Forward
  BY <1>2 DEF select_stuck, Forward, table
<1>5. Moves(h, "timeout", s, 0, 0)  BY DEF select_stuck, Begin, Moves
<1>6. "timeout" \in Places /\ 0 \in 0..MAX_RETRIES /\ 0 \in 0..(MaxReplays + 1)
  BY SagaIntakeAssumption DEF Places
<1>7. TaskOK'  BY <1>1, <1>5, <1>6, MoveType DEF TypesOK
<1>8. Inherits(h, "timeout", s, 0)  BY DEF Inherits
<1>9. "timeout" = "timeout" => s \in expired'  BY DEF select_stuck, table
<1>10. Protocol'  BY <1>1, <1>2, <1>4, <1>5, <1>8, <1>9, MoveKeeps
<1>. QED  BY <1>2, <1>3, <1>7, <1>10 DEF TypesOK

LEMMA recover_keeps ==
    ASSUME TypesOK, Protocol, NEW h \in Helpers, NEW s \in Sagas, recover(h, s)
    PROVE  TypesOK' /\ Protocol'
<1>1. h \in Tasks /\ h \notin Servers  BY SagaIntakeAssumption DEF Tasks
<1>2. BusOK' /\ RunsOK' /\ PastOK' /\ UNCHANGED <<batch, runs>>
        /\ \A z \in Sagas : replays[z] <= replays'[z]
  BY QuietFrame DEF recover
<1>3. TableOK'  BY DEF recover, TypesOK, TableOK, table
<1>4. Forward
  BY <1>2 DEF recover, Forward, table
<1>5. Moves(h, "recover", s, 0, 0)  BY DEF recover, Begin, Moves
<1>6. "recover" \in Places /\ 0 \in 0..MAX_RETRIES /\ 0 \in 0..(MaxReplays + 1)
  BY SagaIntakeAssumption DEF Places
<1>7. TaskOK'  BY <1>1, <1>5, <1>6, MoveType DEF TypesOK
<1>8. Inherits(h, "recover", s, 0)  BY DEF Inherits
<1>9. "recover" = "timeout" => s \in expired'  BY DEF recover, table
<1>10. Protocol'  BY <1>1, <1>2, <1>4, <1>5, <1>8, <1>9, MoveKeeps
<1>. QED  BY <1>2, <1>3, <1>7, <1>10 DEF TypesOK

LEMMA start_raises_keeps ==
    ASSUME TypesOK, Protocol, NEW p \in Servers, start_raises(p)
    PROVE  TypesOK' /\ Protocol'
<1>1. p \in Tasks /\ task[p].at \notin {"idle", "gone"}
  BY DEF Tasks, start_raises
<1>2. task[p].saga \in Sagas  BY <1>1, SagaAtWork
<1>3. BusOK' /\ UNCHANGED batch  BY DEF start_raises, TypesOK, BusOK, bus
<1>4. RunsOK' /\ UNCHANGED <<runs, replays>>  BY DEF start_raises, TypesOK, RunsOK
<1>5. faults' \in 0..MaxFaults
  BY SagaIntakeAssumption DEF start_raises, TypesOK, PastOK, fault
<1>6. PastOK'  BY <1>2, <1>5 DEF start_raises, TypesOK, PastOK, SagaOf
<1>7. TableOK'  BY <1>1, UnlockedType DEF start_raises, TypesOK, TableOK
<1>8. Forward
  BY <1>4, SagaIntakeAssumption DEF start_raises, Forward, TypesOK, RunsOK
<1>9. TaskOK'  BY <1>1, GotoType DEF start_raises, TypesOK, Places
<1>10. Protocol'  BY <1>1, <1>3, <1>4, <1>8, GotoKeeps DEF start_raises, Before
<1>. QED  BY <1>3, <1>4, <1>6, <1>7, <1>9, <1>10 DEF TypesOK

\* A replay has a number nobody had before.
LEMMA retry_keeps ==
    ASSUME TypesOK, Protocol, NEW o \in Helpers, NEW s \in Sagas, retry(o, s)
    PROVE  TypesOK' /\ Protocol'
<1>1. o \in Tasks /\ o \notin Servers  BY SagaIntakeAssumption DEF Tasks
<1>2. BusOK' /\ UNCHANGED batch  BY DEF retry, TypesOK, BusOK, bus
<1>3. PastOK'  BY DEF retry, TypesOK, PastOK, no_fault
<1>4. TableOK' /\ UNCHANGED <<rows, expired>>  BY DEF retry, TypesOK, TableOK, table
<1>5. replays[s] \in 0..MaxReplays /\ replays[s] < MaxReplays /\ MaxReplays \in Nat
  BY SagaIntakeAssumption DEF retry, TypesOK, RunsOK
<1>6. replays'[s] = replays[s] + 1 /\ \A z \in Sagas : z # s => replays'[z] = replays[z]
  BY DEF retry, TypesOK, RunsOK
<1>7. runs' = runs  BY DEF retry
<1>8. RunsOK'
  <2>1. replays[s] + 1 \in 0..MaxReplays  BY <1>5
  <2>. QED  BY <1>7, <2>1 DEF retry, TypesOK, RunsOK
<1>9. Forward
  <2>1. \A z \in Sagas : replays[z] \in Int  BY SagaIntakeAssumption DEF TypesOK, RunsOK
  <2>2. \A z \in Sagas : replays[z] <= replays'[z]  BY <1>5, <1>6, <2>1
  <2>. QED  BY <1>4, <2>2 DEF Forward
<1>10. DEFINE k == replays[s] + 2
<1>11. Moves(o, "replay", s, 0, k)  BY DEF retry, Begin, Moves
<1>12. k \in 0..(MaxReplays + 1) /\ k # 0 /\ k \in Asks /\ 0 \in 0..MAX_RETRIES
       /\ "replay" \in Places
  BY <1>5, SagaIntakeAssumption DEF Places, Asks
<1>13. TaskOK'  BY <1>1, <1>11, <1>12, MoveType DEF TypesOK
<1>14. Inherits(o, "replay", s, k)
  <2>1. k <= 1 + replays'[s]  BY <1>5, <1>6
  <2>2. ~(k <= 1 + replays[s])  BY <1>5
  <2>3. runs[s][k] <= IF k <= 1 + replays[s] THEN 1 ELSE 0
    BY <1>12 DEF Protocol, RunsAreAsked
  <2>4. runs[s][k] \in Nat  BY <1>12 DEF TypesOK, RunsOK
  <2>5. runs'[s][k] = 0  BY <1>7, <2>2, <2>3, <2>4
  <2>6. \A u \in Tasks : ~Owes(u, s, k)  BY <1>12, <2>2 DEF Protocol, OwedOK
  <2>7. k # 1  BY <1>5
  <2>. QED  BY <1>4, <2>1, <2>5, <2>6, <2>7 DEF Inherits
<1>15. Protocol'  BY <1>1, <1>2, <1>7, <1>8, <1>9, <1>11, <1>12, <1>14, MoveKeeps
<1>. QED  BY <1>2, <1>3, <1>4, <1>8, <1>13, <1>15 DEF TypesOK

-----------------------------------------------------------------------------
(* The steps of the bus.                                                     *)

LEMMA RunsFrame ==
    ASSUME TypesOK, UNCHANGED <<runs, replays>>
    PROVE  RunsOK' /\ \A s \in Sagas : replays[s] <= replays'[s]
BY SagaIntakeAssumption DEF TypesOK, RunsOK

LEMMA FaultType ==
    ASSUME TypesOK, fault \/ no_fault
    PROVE  faults' \in 0..MaxFaults
BY SagaIntakeAssumption DEF TypesOK, PastOK, fault, no_fault

LEMMA TableFrame ==
    ASSUME TypesOK, UNCHANGED <<table, letters>>, UNCHANGED <<runs, replays>>
    PROVE  TableOK' /\ Forward
<1>1. TableOK'  BY DEF TypesOK, TableOK, table
<1>2. Forward  BY RunsFrame DEF table, Forward
<1>. QED  BY <1>1, <1>2

LEMMA TakeKeeps ==
    ASSUME TypesOK, Protocol, NEW p \in Servers, NEW b \in Seq(Starts), Take(p, b),
           UNCHANGED <<table, letters, runs, replays>>
    PROVE  TaskOK' /\ Protocol' /\ batch' \in [Servers -> Seq(Starts)]
<1>1. RunsOK' /\ Forward  BY RunsFrame, TableFrame
<1>2. batch' = [batch EXCEPT ![p] = b] /\ batch \in [Servers -> Seq(Starts)]
  BY DEF Take, TypesOK, BusOK
<1>3. \A u \in Servers : u # p => batch'[u] = batch[u]  BY <1>2
<1>4. p \in Tasks  BY DEF Tasks
<1>5. TaskOK' /\ Protocol'
  <2>1. CASE b = <<>>
    <3>1. task' = [task EXCEPT ![p] = Idle]  BY <2>1 DEF Take
    <3>. QED  BY <1>1, <1>3, <1>4, <3>1, IdleKeeps
  <2>2. CASE b # <<>>
    <3>1. Head(b) \in Starts  BY <2>2
    <3>2. source[Head(b)] \in Sagas  BY <3>1 DEF TypesOK, BusOK
    <3>3. Moves(p, "check", source[Head(b)], 0, 0)  BY <2>2 DEF Take, Moves
    <3>4. "check" \in Places /\ 0 \in 0..MAX_RETRIES /\ 0 \in 0..(MaxReplays + 1)
      BY SagaIntakeAssumption DEF Places
    <3>5. TaskOK'  BY <1>4, <3>2, <3>3, <3>4, MoveType DEF TypesOK
    <3>6. Inherits(p, "check", source[Head(b)], 0)  BY DEF Inherits
    <3>7. batch'[p] # <<>>  BY <1>2, <2>2
    <3>8. Protocol'
      BY <1>1, <1>3, <1>4, <3>2, <3>3, <3>6, <3>7, MoveKeeps
    <3>. QED  BY <3>5, <3>8
  <2>. QED  BY <2>1, <2>2
<1>6. batch' \in [Servers -> Seq(Starts)]  BY <1>2
<1>. QED  BY <1>5, <1>6

LEMMA InHand ==
    ASSUME TypesOK, Protocol, NEW p \in Servers, task[p].at \notin {"idle", "gone"}
    PROVE  /\ batch[p] \in Seq(Starts) /\ batch[p] # <<>>
           /\ Tail(batch[p]) \in Seq(Starts) /\ Head(batch[p]) \in Starts
<1>1. batch[p] # <<>>  BY DEF Protocol, AllBusyOK, BusyOK, Tasks
<1>2. batch[p] \in Seq(Starts)  BY DEF TypesOK, BusOK
<1>. QED  BY <1>1, <1>2

LEMMA publish_keeps ==
    ASSUME TypesOK, Protocol, NEW p \in Servers, NEW r \in Starts, publish(p, r)
    PROVE  TypesOK' /\ Protocol'
<1>1. RunsOK' /\ TableOK' /\ Forward  BY RunsFrame, TableFrame DEF publish, history
<1>2. PastOK'  BY DEF publish, history, no_fault, TypesOK, PastOK
<1>3. stream' \in Seq(Starts)
  <2>1. stream \in Seq(Starts) /\ Append(stream, r) \in Seq(Starts)  BY DEF TypesOK, BusOK
  <2>2. stream' \in {stream, Append(stream, r)}  BY DEF publish
  <2>. QED  BY <2>1, <2>2
<1>4. memory' \in [Servers -> Seq(Starts)]
  <2>1. CASE UNCHANGED memory  BY <2>1 DEF TypesOK, BusOK
  <2>2. CASE memory' = [memory EXCEPT ![p] = Append(@, r)]
    <3>1. Append(memory[p], r) \in Seq(Starts)  BY DEF TypesOK, BusOK
    <3>. QED  BY <2>2, <3>1 DEF TypesOK, BusOK
  <2>. QED  BY <2>1, <2>2 DEF publish
<1>5. BusOK' /\ UNCHANGED batch  BY <1>3, <1>4 DEF publish, TypesOK, BusOK
<1>6. TaskOK'  BY DEF publish, TypesOK, TaskOK
<1>7. Protocol'  BY <1>1, <1>5, RestKeeps DEF publish, history
<1>. QED  BY <1>1, <1>2, <1>5, <1>6, <1>7 DEF TypesOK

LEMMA publish_fails_keeps ==
    ASSUME TypesOK, Protocol, NEW p \in Servers, NEW r \in Starts, publish_fails(p, r)
    PROVE  TypesOK' /\ Protocol'
<1>1. RunsOK' /\ TableOK' /\ Forward  BY RunsFrame, TableFrame DEF publish_fails
<1>2. PastOK'  BY FaultType DEF publish_fails, TypesOK, PastOK
<1>3. BusOK' /\ UNCHANGED batch  BY DEF publish_fails, TypesOK, BusOK
<1>4. TaskOK'  BY DEF publish_fails, TypesOK, TaskOK
<1>5. Protocol'  BY <1>1, <1>3, RestKeeps DEF publish_fails
<1>. QED  BY <1>1, <1>2, <1>3, <1>4, <1>5 DEF TypesOK

LEMMA read_group_keeps ==
    ASSUME TypesOK, Protocol, NEW p \in Servers, read_group(p)
    PROVE  TypesOK' /\ Protocol'
<1>1. RunsOK' /\ TableOK'  BY RunsFrame, TableFrame DEF read_group, history
<1>2. PastOK'  BY DEF read_group, history, no_fault, TypesOK, PastOK
<1>3. PICK n \in Nat : /\ n <= Len(stream) /\ Take(p, SubSeq(stream, 1, n))
                       /\ stream' = SubSeq(stream, n + 1, Len(stream))
  <2>1. Len(stream) \in Nat /\ COUNT \in Nat  BY SagaIntakeAssumption DEF TypesOK, BusOK
  <2>2. CASE Len(stream) < COUNT
    <3>1. /\ Take(p, SubSeq(stream, 1, Len(stream)))
          /\ stream' = SubSeq(stream, Len(stream) + 1, Len(stream))
      BY <2>2 DEF read_group
    <3>. QED  BY <2>1, <3>1
  <2>3. CASE ~(Len(stream) < COUNT)
    <3>1. /\ Take(p, SubSeq(stream, 1, COUNT))
          /\ stream' = SubSeq(stream, COUNT + 1, Len(stream))
      BY <2>3 DEF read_group
    <3>2. COUNT <= Len(stream)  BY <2>1, <2>3
    <3>. QED  BY <2>1, <3>1, <3>2
  <2>. QED  BY <2>2, <2>3
<1>4. SubSeq(stream, 1, n) \in Seq(Starts) /\ stream' \in Seq(Starts)
  BY <1>3 DEF TypesOK, BusOK
<1>5. TaskOK' /\ Protocol' /\ batch' \in [Servers -> Seq(Starts)]
  BY <1>3, <1>4, TakeKeeps DEF read_group, history
<1>6. BusOK'  BY <1>4, <1>5 DEF read_group, TypesOK, BusOK
<1>. QED  BY <1>1, <1>2, <1>5, <1>6 DEF TypesOK

LEMMA memory_get_keeps ==
    ASSUME TypesOK, Protocol, NEW p \in Servers, memory_get(p)
    PROVE  TypesOK' /\ Protocol'
<1>1. RunsOK' /\ TableOK'  BY RunsFrame, TableFrame DEF memory_get, history
<1>2. PastOK'  BY DEF memory_get, history, no_fault, TypesOK, PastOK
<1>3. memory[p] \in Seq(Starts) /\ memory[p] # <<>>  BY DEF memory_get, TypesOK, BusOK
<1>4. Tail(memory[p]) \in Seq(Starts) /\ <<Head(memory[p])>> \in Seq(Starts)  BY <1>3
<1>5. TaskOK' /\ Protocol' /\ batch' \in [Servers -> Seq(Starts)]
  BY <1>4, TakeKeeps DEF memory_get, history
<1>6. BusOK'  BY <1>4, <1>5 DEF memory_get, TypesOK, BusOK
<1>. QED  BY <1>1, <1>2, <1>5, <1>6 DEF TypesOK

LEMMA ack_keeps ==
    ASSUME TypesOK, Protocol, NEW p \in Servers, ack(p)
    PROVE  TypesOK' /\ Protocol'
<1>1. RunsOK' /\ TableOK'  BY RunsFrame, TableFrame DEF ack, history
<1>2. PastOK'  BY DEF ack, history, no_fault, TypesOK, PastOK
<1>3. Tail(batch[p]) \in Seq(Starts)  BY InHand DEF ack, At
<1>4. TaskOK' /\ Protocol' /\ batch' \in [Servers -> Seq(Starts)]
  BY <1>3, TakeKeeps DEF ack, history
<1>5. BusOK'  BY <1>4 DEF ack, TypesOK, BusOK
<1>. QED  BY <1>1, <1>2, <1>4, <1>5 DEF TypesOK

LEMMA handler_failed_keeps ==
    ASSUME TypesOK, Protocol, NEW p \in Servers, handler_failed(p)
    PROVE  TypesOK' /\ Protocol'
<1>1. RunsOK' /\ TableOK'  BY RunsFrame, TableFrame DEF handler_failed
<1>2. Tail(batch[p]) \in Seq(Starts) /\ Head(batch[p]) \in Starts
  BY InHand DEF handler_failed, At
<1>3. PastOK'  BY <1>2 DEF handler_failed, no_fault, TypesOK, PastOK
<1>4. TaskOK' /\ Protocol' /\ batch' \in [Servers -> Seq(Starts)]
  BY <1>2, TakeKeeps DEF handler_failed
<1>5. BusOK'  BY <1>4 DEF handler_failed, TypesOK, BusOK
<1>. QED  BY <1>1, <1>3, <1>4, <1>5 DEF TypesOK

LEMMA read_group_raises_keeps ==
    ASSUME TypesOK, Protocol, NEW p \in Servers, read_group_raises(p)
    PROVE  TypesOK' /\ Protocol'
<1>1. p \in Tasks  BY DEF Tasks
<1>2. BusOK' /\ RunsOK' /\ PastOK' /\ UNCHANGED <<batch, runs>>
  BY QuietFrame DEF read_group_raises
<1>3. TableOK' /\ Forward  BY TableFrame DEF read_group_raises, history
<1>4. Moves(p, "gone", task[p].saga, task[p].tries, task[p].ask)
  BY <1>1, GotoMoves DEF read_group_raises, TypesOK
<1>5. TaskOK'  BY <1>1, GotoType DEF read_group_raises, TypesOK, Places
<1>6. Inherits(p, "gone", task[p].saga, task[p].ask)  BY DEF Inherits, Before
<1>7. task[p].ask = 0
  BY <1>1 DEF read_group_raises, At, Protocol, AllPlanOK, PlanOK
<1>8. \A u \in Servers : u # p => batch'[u] = batch[u]  BY <1>2
<1>9. Protocol'  BY <1>1, <1>2, <1>3, <1>4, <1>6, <1>7, <1>8, MoveKeeps
<1>. QED  BY <1>2, <1>3, <1>5, <1>9 DEF TypesOK

LEMMA crash_keeps ==
    ASSUME TypesOK, Protocol, NEW p \in Servers, crash(p)
    PROVE  TypesOK' /\ Protocol'
<1>1. p \in Tasks  BY DEF Tasks
<1>2. RunsOK' /\ \A s \in Sagas : replays[s] <= replays'[s]  BY RunsFrame DEF crash
<1>3. Forward  BY <1>2 DEF crash, Forward
<1>4. <<>> \in Seq(Starts)  OBVIOUS
<1>5. batch' = [batch EXCEPT ![p] = <<>>] /\ batch \in [Servers -> Seq(Starts)]
  BY DEF crash, TypesOK, BusOK
<1>6. \A u \in Servers : u # p => batch'[u] = batch[u]  BY <1>5
<1>7. TaskOK' /\ Protocol'
  BY <1>1, <1>2, <1>3, <1>6, IdleKeeps DEF crash
<1>8. BusOK'  BY <1>4, <1>5 DEF crash, TypesOK, BusOK
<1>9. TableOK'  BY DEF crash, TypesOK, TableOK
<1>10. PastOK'
  <2>1. batch[p] \in Seq(Starts) /\ memory[p] \in Seq(Starts)  BY DEF TypesOK, BusOK
  <2>2. {batch[p][i] : i \in 1..Len(batch[p])} \subseteq Starts  BY <2>1
  <2>3. {memory[p][i] : i \in 1..Len(memory[p])} \subseteq Starts  BY <2>1
  <2>4. lost' \subseteq Starts  BY <2>2, <2>3 DEF crash, TypesOK, PastOK
  <2>5. CASE orphaned' = orphaned  BY <2>4, <2>5, FaultType DEF crash, TypesOK, PastOK
  <2>6. CASE task[p].ask # 0 /\ orphaned' = orphaned \cup {task[p].saga}
    <3>1. task[p].at \notin {"idle", "gone"}
      BY <1>1, <2>6 DEF Protocol, AllPlanOK, PlanOK
    <3>2. task[p].saga \in Sagas  BY <1>1, <3>1, SagaAtWork
    <3>. QED  BY <2>4, <2>6, <3>2, FaultType DEF crash, TypesOK, PastOK
  <2>. QED  BY <2>5, <2>6 DEF crash, SagaOf
<1>. QED  BY <1>2, <1>7, <1>8, <1>9, <1>10 DEF TypesOK

LEMMA restart_keeps ==
    ASSUME TypesOK, Protocol, NEW p \in Servers, restart(p)
    PROVE  TypesOK' /\ Protocol'
<1>1. RunsOK' /\ TableOK' /\ Forward  BY RunsFrame, TableFrame DEF restart, history
<1>2. PastOK'  BY FaultType DEF restart, history, TypesOK, PastOK
<1>3. BusOK' /\ UNCHANGED batch  BY DEF restart, TypesOK, BusOK
<1>4. TaskOK'  BY DEF restart, TypesOK, TaskOK
<1>5. Protocol'  BY <1>1, <1>3, RestKeeps DEF restart, history
<1>. QED  BY <1>1, <1>2, <1>3, <1>4, <1>5 DEF TypesOK

-----------------------------------------------------------------------------
(* The execution of a plan, which nobody else can begin.                     *)

LEMMA mark_keeps ==
    ASSUME TypesOK, Protocol, NEW t \in Tasks, mark(t)
    PROVE  TypesOK' /\ Protocol'
<1>1. task[t].saga \in Sagas /\ (t \in Servers => batch[t] # <<>>)
  BY DEF mark, At, Protocol, AllBusyOK, BusyOK
<1>2. DEFINE s == task[t].saga
             n == task[t].ask
<1>3. n \in Asks /\ n # 0
  BY FieldTypes, SagaIntakeAssumption
     DEF mark, At, Protocol, AllPlanOK, PlanOK, TypesOK, Asks
<1>4. Owes(t, s, n)  BY <1>3 DEF Owes, mark, At, Before
<1>5. /\ n <= 1 + replays[s] /\ runs[s][n] = 0
      /\ \A u \in Tasks : Owes(u, s, n) => u = t
  BY <1>1, <1>3, <1>4 DEF Protocol, OwedOK
<1>6. BusOK' /\ batch' = batch  BY DEF mark, bus, TypesOK, BusOK
<1>7. PastOK'  BY DEF mark, no_fault, TypesOK, PastOK
<1>8. TableOK' /\ rows'[s] = "in_progress" /\ (\A z \in Sagas : z # s => rows'[z] = rows[z])
  BY <1>1 DEF mark, SagaOf, TypesOK, TableOK, States
<1>9. TaskOK'  BY GotoType DEF mark, TypesOK, Places
<1>10. runs' = [runs EXCEPT ![s][n] = @ + 1] /\ replays' = replays
  BY DEF mark, SagaOf
<1>11. /\ runs'[s][n] = 1
       /\ \A z \in Sagas, m \in Asks : z # s \/ m # n => runs'[z][m] = runs[z][m]
  BY <1>1, <1>3, <1>5, <1>10 DEF TypesOK, RunsOK
<1>12. RunsOK'
  <2>1. [runs[s] EXCEPT ![n] = @ + 1] \in [Asks -> Nat]
    BY <1>1, <1>3 DEF TypesOK, RunsOK
  <2>. QED  BY <1>1, <1>10, <2>1 DEF TypesOK, RunsOK
<1>13. /\ task'[t] = [at |-> "execute", saga |-> s, tries |-> task[t].tries, ask |-> n]
       /\ \A u \in Tasks : u # t => task'[u] = task[u]
  BY GotoMoves, MovedTask DEF mark, TypesOK
<1>14. \A u \in Tasks, z \in Sagas, m \in Asks :
          Owes(u, z, m)' => Owes(u, z, m) /\ u # t
  BY <1>13 DEF Owes, Before
<1>15. AllBusyOK'
  <2> SUFFICES ASSUME NEW u \in Tasks PROVE BusyOK(u)'
    BY DEF AllBusyOK
  <2>1. CASE u = t  BY <1>1, <1>6, <1>13, <2>1 DEF BusyOK
  <2>2. CASE u # t  BY <1>6, <1>13, <2>2 DEF BusyOK, Protocol, AllBusyOK
  <2>. QED  BY <2>1, <2>2
<1>16. AllPlanOK'
  <2> SUFFICES ASSUME NEW u \in Tasks PROVE PlanOK(u)'
    BY DEF AllPlanOK
  <2>1. CASE u = t  BY <1>13, <2>1 DEF PlanOK
  <2>2. expired' = expired  BY DEF mark
  <2>3. CASE u # t  BY <1>13, <2>2, <2>3 DEF PlanOK, Protocol, AllPlanOK
  <2>. QED  BY <2>1, <2>3
<1>17. OwedOK'
  <2> SUFFICES ASSUME NEW z \in Sagas, NEW m \in Asks, NEW u \in Tasks, Owes(u, z, m)'
               PROVE  /\ m <= 1 + replays'[z] /\ runs'[z][m] = 0
                      /\ (m = 1 => rows'[z] # "none")
                      /\ \A v \in Tasks : Owes(v, z, m)' => v = u
    BY DEF OwedOK
  <2>1. Owes(u, z, m) /\ u # t  BY <1>14
  <2>2. /\ m <= 1 + replays[z] /\ runs[z][m] = 0 /\ (m = 1 => rows[z] # "none")
        /\ \A v \in Tasks : Owes(v, z, m) => v = u
    BY <2>1 DEF Protocol, OwedOK
  <2>3. z # s \/ m # n  BY <1>5, <2>1
  <2>4. runs'[z][m] = 0  BY <1>11, <2>2, <2>3
  <2>5. m = 1 => rows'[z] # "none"  BY <1>8, <2>2
  <2>6. \A v \in Tasks : Owes(v, z, m)' => v = u  BY <1>14, <2>2
  <2>. QED  BY <1>10, <2>2, <2>4, <2>5, <2>6
<1>18. UnbornOK'
  <2> SUFFICES ASSUME NEW z \in Sagas, rows'[z] = "none" PROVE runs'[z][1] = 0
    BY DEF UnbornOK
  <2>1. z # s /\ rows[z] = "none"  BY <1>8
  <2>2. 1 \in Asks  BY SagaIntakeAssumption DEF Asks
  <2>. QED  BY <1>11, <2>1, <2>2 DEF Protocol, UnbornOK
<1>19. RunsAreAsked'
  <2> SUFFICES ASSUME NEW z \in Sagas, NEW m \in Asks
               PROVE  runs'[z][m] <= IF m <= 1 + replays'[z] THEN 1 ELSE 0
    BY DEF RunsAreAsked
  <2>1. CASE z = s /\ m = n
    BY <1>5, <1>10, <1>11, <2>1
  <2>2. CASE z # s \/ m # n
    BY <1>10, <1>11, <2>2 DEF Protocol, RunsAreAsked
  <2>. QED  BY <2>1, <2>2
<1>. QED  BY <1>6, <1>7, <1>8, <1>9, <1>12, <1>15, <1>16, <1>17, <1>18, <1>19
             DEF TypesOK, Protocol

-----------------------------------------------------------------------------
(* The induction.                                                            *)

LEMMA InitOK == Init => IInv
<1> SUFFICES ASSUME Init PROVE IInv
  OBVIOUS
<1>1. BusOK  BY SagaIntakeAssumption DEF Init, BusOK
<1>2. Idle \in Record  BY SagaIntakeAssumption DEF Idle, Record, Places
<1>3. TaskOK  BY <1>2 DEF Init, TaskOK
<1>4. TableOK  BY SagaIntakeAssumption DEF Init, TableOK, States
<1>5. RunsOK  BY SagaIntakeAssumption DEF Init, RunsOK
<1>6. PastOK  BY SagaIntakeAssumption DEF Init, PastOK
<1>7. \A t \in Tasks : task[t] = Idle  BY DEF Init
<1>8. AllBusyOK  BY <1>7 DEF AllBusyOK, BusyOK, Idle
<1>9. AllPlanOK  BY <1>7 DEF AllPlanOK, PlanOK, Idle
<1>10. OwedOK  BY <1>7 DEF OwedOK, Owes, Idle, Before
<1>11. UnbornOK  BY SagaIntakeAssumption DEF Init, UnbornOK, Asks
<1>12. RunsAreAsked
  <2>1. \A s \in Sagas, n \in Asks : runs[s][n] = 0  BY DEF Init
  <2>. QED  BY <2>1 DEF RunsAreAsked
<1>. QED  BY <1>1, <1>3, <1>4, <1>5, <1>6, <1>8, <1>9, <1>10, <1>11, <1>12
             DEF IInv, TypesOK, Protocol

LEMMA StepOK == IInv /\ [Next]_vars => IInv'
<1> SUFFICES ASSUME TypesOK, Protocol, [Next]_vars PROVE TypesOK' /\ Protocol'
  BY DEF IInv
<1>1. ASSUME NEW p \in Servers, consume(p) PROVE TypesOK' /\ Protocol'
  BY <1>1, read_group_keeps, memory_get_keeps, ack_keeps, handler_failed_keeps,
     check_idempotency_keeps, acquire_keeps, refused_keeps, insert_keeps,
     record_idempotency_keeps, cas_keeps, release_keeps DEF consume
<1>2. ASSUME NEW t \in Tasks, run(t) PROVE TypesOK' /\ Protocol'
  BY <1>2, check_timeout_keeps, read_row_keeps, mark_keeps, succeed_keeps, fail_keeps,
     persist_dlq_message_keeps, undo_keeps, compensating_keeps, compensated_keeps DEF run
<1>3. ASSUME operate PROVE TypesOK' /\ Protocol'
  BY <1>3, replay_read_keeps, replay_mark_keeps, recover_mark_keeps, retry_keeps,
     recover_keeps, select_stuck_keeps, remove_keeps DEF operate, answer
<1>4. ASSUME break PROVE TypesOK' /\ Protocol'
  BY <1>4, read_group_raises_keeps, start_raises_keeps, crash_keeps, restart_keeps,
     publish_fails_keeps, time_passes_keeps, lock_lost_keeps, lock_expires_keeps DEF break
<1>5. ASSUME UNCHANGED vars PROVE TypesOK' /\ Protocol'
  <2>1. /\ UNCHANGED <<source, bus, task, table, letters, history, faults>>
        /\ UNCHANGED <<batch, runs, replays>>
    BY <1>5 DEF vars, bus, history
  <2>2. BusOK' /\ RunsOK' /\ PastOK'
    BY <2>1, QuietFrame DEF no_fault
  <2>3. TableOK' /\ Forward  BY <2>1, TableFrame
  <2>4. TaskOK'  BY <2>1 DEF TypesOK, TaskOK
  <2>. QED  BY <2>1, <2>2, <2>3, <2>4, RestKeeps DEF TypesOK
<1>. QED  BY <1>1, <1>2, <1>3, <1>4, <1>5, publish_keeps DEF Next

LEMMA Invariance == Spec => []IInv
<1>. QED  BY InitOK, StepOK, PTL DEF Spec

\* The shape of the state, for every number of sagas, servers and faults.
THEOREM TypeOKHolds == Spec => []TypeOK
<1>1. IInv => TypeOK
  BY DEF IInv, TypesOK, BusOK, TaskOK, TableOK, RunsOK, PastOK, Record, States, Terminal, TypeOK
<1>. QED  BY <1>1, Invariance, PTL

\* No duplicate, redelivery, crash, lost lock or rival server makes the plan of a saga
\* run more often than its one start and the replays an operator asked for.
THEOREM RunsAreAskedHolds == Spec => []RunsAreAsked
<1>1. IInv => RunsAreAsked  BY DEF IInv, Protocol
<1>. QED  BY <1>1, Invariance, PTL

=============================================================================
