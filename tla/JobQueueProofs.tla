--------------------------- MODULE JobQueueProofs ---------------------------
(* TypeOK, RunsOnce, KeyNamesOneJob and CancelledStays of JobQueue, for any   *)
(* number of requests, workers, schedulers and faults.  The right to execute  *)
(* a job is a token that at any time one has: the request, the queue, the     *)
(* scheduled set, a scheduler or a worker; whoever executes the job with a    *)
(* result uses it up.                                                         *)
EXTENDS JobQueue, FiniteSetTheorems, TLAPS

PcOf == {"lookup", "insert", "bump", "inline", "execute", "publish", "except",
         "enqueue", "answered", "error"}
WorkerRecord == [at : {"idle", "read", "path", "claim", "check", "execute", "publish",
                       "except", "except_unbound", "dead"},
                 job : Requests \cup {NoJob}]
SchedulerRecord == [at : {"idle", "zrem", "enqueue", "dead"}, job : Requests \cup {NoJob}]

\* TypeOK in the groups of variables that change together.
TableType ==
    /\ rows \in [Requests -> Statuses]
    /\ started \in [Requests -> Requests \cup Workers \cup {NoJob}]
RedisType == queue \subseteq Requests /\ scheduled \subseteq Requests /\ due \subseteq Requests
ApiType ==
    /\ pc \in [Requests -> PcOf] /\ answer \in [Requests -> Requests \cup {NoJob}]
    /\ cancelling \in Requests \cup {NoJob}
WorkerType == worker \in [Workers -> WorkerRecord]
SchedulerType == scheduler \in [Schedulers -> SchedulerRecord]
PastType ==
    /\ completed \in [Requests -> Nat] /\ lost \subseteq Requests /\ faults \in 0..MaxFaults
Types == TableType /\ RedisType /\ ApiType /\ WorkerType /\ SchedulerType /\ PastType

-----------------------------------------------------------------------------
\* Where a request and a worker still have the execution before them.
Pre == {"lookup", "insert", "bump", "inline", "execute", "enqueue"}
WorkerPre == {"read", "path", "claim", "check", "execute"}

\* x, of kind k, has the token of job j.
Has(k, x, j) ==
    \/ k = "request" /\ x = j /\ pc[j] \in Pre
    \/ k = "queue" /\ x = j /\ j \in queue
    \/ k = "scheduled" /\ x = j /\ j \in scheduled
    \/ /\ k = "scheduler" /\ x \in Schedulers
       /\ scheduler[x].at = "enqueue" /\ scheduler[x].job = j
    \/ k = "worker" /\ x \in Workers /\ worker[x].at \in WorkerPre /\ worker[x].job = j

\* One has the token of j, or it is used up.
TokenOK(j) ==
    /\ \A k, x, l, y : Has(k, x, j) /\ Has(l, y, j) => k = l /\ x = y
    /\ (\E k, x : Has(k, x, j)) => completed[j] = 0
    /\ completed[j] <= 1
TokensOK == \A j \in Requests : TokenOK(j)

\* A step leaves the token of j where it was or drops it, hands it on, or uses it up.
Passes(j) ==
    \/ /\ \A k, x : Has(k, x, j)' => Has(k, x, j)
       /\ completed'[j] = completed[j]
    \/ /\ \E k, x : Has(k, x, j)
       /\ \E l, y : \A k, x : Has(k, x, j)' => k = l /\ x = y
       /\ completed'[j] = completed[j]
    \/ /\ \E k, x : Has(k, x, j)
       /\ \A k, x : ~Has(k, x, j)'
       /\ completed'[j] = completed[j] + 1

\* What anybody works on has a row.
Inserted(j) == j \in Requests /\ rows[j] # "none"
RequestsOK ==
    /\ \A r \in Requests :
          /\ pc[r] \in {"bump", "inline", "execute", "publish", "except", "enqueue"} => Inserted(r)
          /\ answer[r] # NoJob =>
                /\ Inserted(answer[r])
                /\ call[r].key # NoKey => /\ call[answer[r]].key = call[r].key
                                          /\ call[answer[r]].hash = call[r].hash
    /\ cancelling # NoJob => Inserted(cancelling)
QueuesOK == \A j \in queue \cup scheduled : Inserted(j)
WorkersOK == \A w \in Workers : worker[w].at \notin {"idle", "dead"} => Inserted(worker[w].job)
SchedulersOK == \A s \in Schedulers : scheduler[s].at = "enqueue" => Inserted(scheduler[s].job)
\* Of the requests with one key one has a row.
KeysOK ==
    \A r, q \in Requests :
        /\ call[r].key = call[q].key /\ call[r].key # NoKey
        /\ rows[r] # "none" /\ rows[q] # "none"
        => r = q
Rows == RequestsOK /\ QueuesOK /\ WorkersOK /\ SchedulersOK /\ KeysOK

IInv == Types /\ TokensOK /\ Rows

\* The step makes no row and removes none.
SameRows == \A j \in Requests : rows'[j] = "none" <=> rows[j] = "none"
KeepsRows == \A j \in Requests : rows[j] # "none" => rows'[j] # "none"

-----------------------------------------------------------------------------
(* Tokens.                                                                   *)

LEMMA PassesKeeps ==
    ASSUME Types, TokensOK, \A j \in Requests : Passes(j)
    PROVE  TokensOK'
<1> SUFFICES ASSUME NEW j \in Requests PROVE TokenOK(j)'
    BY DEF TokensOK
<1>0. TokenOK(j) /\ Passes(j) /\ completed[j] \in Nat
    BY DEF TokensOK, Types, PastType
<1>1. CASE /\ \A k, x : Has(k, x, j)' => Has(k, x, j)
           /\ completed'[j] = completed[j]
    BY <1>0, <1>1 DEF TokenOK
<1>2. CASE /\ \E k, x : Has(k, x, j)
           /\ \E l, y : \A k, x : Has(k, x, j)' => k = l /\ x = y
           /\ completed'[j] = completed[j]
    BY <1>0, <1>2 DEF TokenOK
<1>3. CASE /\ \E k, x : Has(k, x, j)
           /\ \A k, x : ~Has(k, x, j)'
           /\ completed'[j] = completed[j] + 1
    BY <1>0, <1>3 DEF TokenOK
<1> QED BY <1>0, <1>1, <1>2, <1>3 DEF Passes

\* Nobody gets a token.
LEMMA NoGain ==
    ASSUME \A j \in Requests : pc'[j] \in Pre => pc[j] \in Pre,
           queue' \subseteq queue, scheduled' \subseteq scheduled,
           \A s \in Schedulers, j \in Requests :
               scheduler'[s].at = "enqueue" /\ scheduler'[s].job = j =>
                   scheduler[s].at = "enqueue" /\ scheduler[s].job = j,
           \A w \in Workers, j \in Requests :
               worker'[w].at \in WorkerPre /\ worker'[w].job = j =>
                   worker[w].at \in WorkerPre /\ worker[w].job = j,
           completed' = completed
    PROVE  \A j \in Requests : Passes(j)
<1> SUFFICES ASSUME NEW j \in Requests PROVE Passes(j)
    OBVIOUS
<1>1. ASSUME NEW k, NEW x, Has(k, x, j)' PROVE Has(k, x, j)
    BY <1>1 DEF Has
<1> QED BY <1>1 DEF Passes

-----------------------------------------------------------------------------
(* Rows.                                                                     *)

LEMMA InsertedStays ==
    ASSUME KeepsRows, NEW j, Inserted(j)
    PROVE  Inserted(j)'
BY DEF KeepsRows, Inserted

\* The job an answer names: the request's own, or the one of its key.
Answers(r, j) ==
    /\ Inserted(j)
    /\ call[r].key # NoKey => call[j].key = call[r].key /\ call[j].hash = call[r].hash

After == {"bump", "inline", "execute", "publish", "except", "enqueue"}

LEMMA RequestsKept ==
    ASSUME RequestsOK, KeepsRows, UNCHANGED call,
           \A r \in Requests : pc'[r] \in After => pc[r] \in After \/ Inserted(r)',
           \A r \in Requests : answer'[r] \in {answer[r], NoJob} \/ Answers(r, answer'[r]),
           cancelling' \in {cancelling, NoJob} \/ Inserted(cancelling')
    PROVE  RequestsOK'
<1>1. ASSUME NEW r \in Requests, pc'[r] \in After PROVE Inserted(r)'
    BY <1>1, InsertedStays DEF RequestsOK, After
<1>2. ASSUME NEW r \in Requests, answer'[r] # NoJob
      PROVE  Answers(r, answer'[r])
    BY <1>2 DEF RequestsOK, Answers
<1>3. ASSUME NEW r \in Requests, answer'[r] # NoJob
      PROVE  /\ Inserted(answer[r])'
             /\ call'[r].key # NoKey => /\ call'[answer'[r]].key = call'[r].key
                                        /\ call'[answer'[r]].hash = call'[r].hash
    <2>1. Answers(r, answer'[r])
        BY <1>2, <1>3
    <2>2. Inserted(answer[r])'
        BY <2>1, InsertedStays DEF Answers, Inserted, KeepsRows
    <2> QED BY <2>1, <2>2 DEF Answers
<1>4. cancelling' # NoJob => Inserted(cancelling)'
    BY DEF RequestsOK, Inserted, KeepsRows
<1> QED BY <1>1, <1>3, <1>4 DEF RequestsOK, After

LEMMA KeysKept ==
    ASSUME KeysOK, SameRows, UNCHANGED call
    PROVE  KeysOK'
BY DEF KeysOK, SameRows

LEMMA QueuesKept ==
    ASSUME QueuesOK, KeepsRows,
           \A j \in queue' \cup scheduled' : j \in queue \cup scheduled \/ Inserted(j)
    PROVE  QueuesOK'
BY DEF QueuesOK, KeepsRows, Inserted

LEMMA WorkersKept ==
    ASSUME KeepsRows,
           \A w \in Workers : worker'[w].at \notin {"idle", "dead"} => Inserted(worker'[w].job)
    PROVE  WorkersOK'
BY DEF WorkersOK, KeepsRows, Inserted

LEMMA SchedulersKept ==
    ASSUME KeepsRows,
           \A s \in Schedulers : scheduler'[s].at = "enqueue" => Inserted(scheduler'[s].job)
    PROVE  SchedulersOK'
BY DEF SchedulersOK, KeepsRows, Inserted

-----------------------------------------------------------------------------
(* A step of a worker, of a scheduler, of the API.                           *)

LEMMA RecordAt ==
    ASSUME NEW D, NEW J, NEW x \in [at : D, job : J], NEW a
    PROVE  [x EXCEPT !.at = a] = [at |-> a, job |-> x.job]
OBVIOUS

LEMMA RowsStay == ASSUME SameRows PROVE KeepsRows
BY DEF SameRows, KeepsRows

LEMMA WorkerMove ==
    ASSUME IInv, NEW w \in Workers, NEW a, NEW j,
           worker' = [worker EXCEPT ![w] = [at |-> a, job |-> j]],
           a \notin {"idle", "dead"} => Inserted(j),
           a \in WorkerPre => worker[w].at \in WorkerPre /\ worker[w].job = j,
           UNCHANGED <<call, queue, scheduled, pc, answer, cancelling, scheduler, completed>>,
           SameRows
    PROVE  TokensOK' /\ Rows'
<1>1. /\ worker'[w] = [at |-> a, job |-> j]
      /\ \A v \in Workers : v # w => worker'[v] = worker[v]
    BY DEF IInv, Types, WorkerType
<1>2. \A i \in Requests : Passes(i)
    <2>1. \A v \in Workers, i \in Requests :
              worker'[v].at \in WorkerPre /\ worker'[v].job = i =>
                  worker[v].at \in WorkerPre /\ worker[v].job = i
        BY <1>1
    <2> QED BY <2>1, NoGain
<1>3. TokensOK'
    BY <1>2, PassesKeeps DEF IInv
<1>4. WorkersOK'
    <2>1. \A v \in Workers : worker'[v].at \notin {"idle", "dead"} => Inserted(worker'[v].job)
        BY <1>1 DEF IInv, Rows, WorkersOK
    <2> QED BY <2>1, RowsStay, WorkersKept
<1>5. RequestsOK' /\ QueuesOK' /\ SchedulersOK' /\ KeysOK'
    BY RowsStay, RequestsKept, QueuesKept, SchedulersKept, KeysKept DEF IInv, Rows, SchedulersOK
<1> QED BY <1>3, <1>4, <1>5 DEF Rows

LEMMA SchedulerMove ==
    ASSUME IInv, NEW s \in Schedulers, NEW a, NEW j,
           scheduler' = [scheduler EXCEPT ![s] = [at |-> a, job |-> j]],
           a # "enqueue",
           scheduled' \subseteq scheduled,
           UNCHANGED <<call, rows, queue, pc, answer, cancelling, worker, completed>>
    PROVE  TokensOK' /\ Rows'
<1>1. /\ scheduler'[s] = [at |-> a, job |-> j]
      /\ \A v \in Schedulers : v # s => scheduler'[v] = scheduler[v]
    BY DEF IInv, Types, SchedulerType
<1>2. \A i \in Requests : Passes(i)
    <2>1. \A v \in Schedulers, i \in Requests :
              scheduler'[v].at = "enqueue" /\ scheduler'[v].job = i =>
                  scheduler[v].at = "enqueue" /\ scheduler[v].job = i
        BY <1>1
    <2> QED BY <2>1, NoGain
<1>3. TokensOK'
    BY <1>2, PassesKeeps DEF IInv
<1>4. SameRows
    BY DEF SameRows
<1>5. SchedulersOK'
    <2>1. \A v \in Schedulers : scheduler'[v].at = "enqueue" => Inserted(scheduler'[v].job)
        BY <1>1 DEF IInv, Rows, SchedulersOK
    <2> QED BY <1>4, <2>1, RowsStay, SchedulersKept
<1>6. RequestsOK' /\ QueuesOK' /\ WorkersOK' /\ KeysOK'
    BY <1>4, RowsStay, RequestsKept, QueuesKept, WorkersKept, KeysKept DEF IInv, Rows, WorkersOK
<1> QED BY <1>3, <1>5, <1>6 DEF Rows

\* The token of j goes from one to another, or is used up; the rows are kept elsewhere.
LEMMA TokenMoves ==
    ASSUME IInv, NEW j \in Requests,
           \A i \in Requests : i # j =>
               (\A k, x : Has(k, x, i)' => Has(k, x, i)) /\ completed'[i] = completed[i],
           \E k, x : Has(k, x, j),
           \/ /\ \E l, y : \A k, x : Has(k, x, j)' => k = l /\ x = y
              /\ completed'[j] = completed[j]
           \/ (\A k, x : ~Has(k, x, j)') /\ completed'[j] = completed[j] + 1
    PROVE  TokensOK'
<1>1. \A i \in Requests : Passes(i)
    BY DEF Passes
<1> QED BY <1>1, PassesKeeps DEF IInv

\* A request goes on without using its token.
LEMMA RequestMove ==
    ASSUME IInv, NEW r \in Requests, NEW p,
           pc' = [pc EXCEPT ![r] = p],
           p \in Pre => pc[r] \in Pre, p \in After => pc[r] \in After,
           \A q \in Requests : answer'[q] \in {answer[q], NoJob} \/ Answers(q, answer'[q]),
           UNCHANGED <<call, queue, scheduled, cancelling, worker, scheduler, completed>>,
           SameRows
    PROVE  TokensOK' /\ Rows'
<1>1. pc'[r] = p /\ \A q \in Requests : q # r => pc'[q] = pc[q]
    BY DEF IInv, Types, ApiType
<1>2. \A i \in Requests : Passes(i)
    <2>1. \A q \in Requests : pc'[q] \in Pre => pc[q] \in Pre
        BY <1>1
    <2> QED BY <2>1, NoGain
<1>3. TokensOK'
    BY <1>2, PassesKeeps DEF IInv
<1>4. RequestsOK'
    <2>1. \A q \in Requests : pc'[q] \in After => pc[q] \in After
        BY <1>1
    <2> QED BY <2>1, RowsStay, RequestsKept DEF IInv, Rows
<1>5. QueuesOK' /\ WorkersOK' /\ SchedulersOK' /\ KeysOK'
    BY RowsStay, QueuesKept, WorkersKept, SchedulersKept, KeysKept DEF IInv, Rows, WorkersOK, SchedulersOK
<1> QED BY <1>3, <1>4, <1>5 DEF Rows

-----------------------------------------------------------------------------
(* The API.                                                                  *)

LEMMA FaultType ==
    ASSUME Types, fault \/ UNCHANGED faults
    PROVE  faults' \in 0..MaxFaults
BY JobQueueAssumption DEF Types, PastType, fault

\* The types after a step of the API that leaves the others alone.
LEMMA ApiTypes ==
    ASSUME Types, NEW r \in Requests, NEW p \in PcOf, pc' = [pc EXCEPT ![r] = p],
           TableType', RedisType', PastType',
           answer' = answer \/ \E j \in Requests : answer' = [answer EXCEPT ![r] = j],
           UNCHANGED <<cancelling, worker, scheduler>>
    PROVE  Types'
<1>1. ApiType'
    BY DEF Types, ApiType
<1>2. WorkerType' /\ SchedulerType'
    BY DEF Types, WorkerType, SchedulerType
<1> QED BY <1>1, <1>2 DEF Types

LEMMA AnswerOwn ==
    ASSUME IInv, NEW r \in Requests, Inserted(r),
           answer' = answer \/ answer' = [answer EXCEPT ![r] = r]
    PROVE  \A q \in Requests : answer'[q] \in {answer[q], NoJob} \/ Answers(q, answer'[q])
BY DEF IInv, Types, ApiType, Answers

LEMMA ExistingAnswer ==
    ASSUME IInv, NEW r \in Requests, answer_existing(r)
    PROVE  /\ \E p \in {"answered", "error"} : pc' = [pc EXCEPT ![r] = p]
           /\ answer' = answer \/ \E j \in Requests : answer' = [answer EXCEPT ![r] = j]
           /\ \A q \in Requests : answer'[q] \in {answer[q], NoJob} \/ Answers(q, answer'[q])
<1>1. PICK j \in Existing(r) :
          IF call[j].hash = call[r].hash
          THEN answer' = [answer EXCEPT ![r] = j] /\ pc' = [pc EXCEPT ![r] = "answered"]
          ELSE pc' = [pc EXCEPT ![r] = "error"] /\ UNCHANGED answer
    BY DEF answer_existing
<1>2. j \in Requests /\ rows[j] # "none" /\ call[j].key = call[r].key
    BY DEF Existing
<1>3. CASE call[j].hash = call[r].hash
    <2>1. Answers(r, j)
        BY <1>2, <1>3 DEF Answers, Inserted
    <2>2. answer' = [answer EXCEPT ![r] = j] /\ pc' = [pc EXCEPT ![r] = "answered"]
        BY <1>1, <1>3
    <2>3. \A q \in Requests : q # r => answer'[q] = answer[q]
        BY <2>2 DEF IInv, Types, ApiType
    <2>4. answer'[r] = j
        BY <2>2 DEF IInv, Types, ApiType
    <2> QED BY <1>2, <2>1, <2>2, <2>3, <2>4
<1>4. CASE call[j].hash # call[r].hash
    BY <1>1, <1>4
<1> QED BY <1>3, <1>4

LEMMA LookupStep ==
    ASSUME IInv, NEW r \in Requests, lookup(r)
    PROVE  IInv'
<1>1. PICK p \in {"answered", "error", "insert"} :
          /\ pc' = [pc EXCEPT ![r] = p]
          /\ answer' = answer \/ \E j \in Requests : answer' = [answer EXCEPT ![r] = j]
          /\ \A q \in Requests : answer'[q] \in {answer[q], NoJob} \/ Answers(q, answer'[q])
    BY ExistingAnswer DEF lookup
<1>2. pc[r] \in Pre
    BY DEF lookup, At, Pre
<1>3. SameRows
    BY DEF lookup, table, SameRows
<1>4. TokensOK' /\ Rows'
    BY <1>1, <1>2, <1>3, RequestMove DEF lookup, redis, After
<1>5. TableType' /\ RedisType' /\ PastType'
    BY DEF lookup, table, redis, IInv, Types, TableType, RedisType, PastType
<1>6. Types'
    BY <1>1, <1>5, ApiTypes DEF lookup, IInv, PcOf
<1> QED BY <1>4, <1>6 DEF IInv

\* The row a request inserts is the only one of its key.
LEMMA InsertNew ==
    ASSUME IInv, NEW r \in Requests, pc[r] = "insert", Existing(r) = {},
           rows' = [rows EXCEPT ![r] = "queued"],
           NEW p \in {"enqueue", "bump"}, pc' = [pc EXCEPT ![r] = p],
           UNCHANGED <<call, queue, scheduled, answer, cancelling, worker, scheduler, completed>>
    PROVE  TokensOK' /\ Rows'
<1>1. /\ pc'[r] = p /\ \A q \in Requests : q # r => pc'[q] = pc[q]
      /\ rows'[r] = "queued" /\ \A q \in Requests : q # r => rows'[q] = rows[q]
    BY DEF IInv, Types, ApiType, TableType
<1>2. KeepsRows /\ Inserted(r)'
    BY <1>1 DEF KeepsRows, Inserted
<1>3. \A i \in Requests : Passes(i)
    <2>1. \A q \in Requests : pc'[q] \in Pre => pc[q] \in Pre
        BY <1>1 DEF Pre
    <2> QED BY <2>1, NoGain
<1>4. TokensOK'
    BY <1>3, PassesKeeps DEF IInv
<1>5. RequestsOK'
    <2>1. \A q \in Requests : pc'[q] \in After => pc[q] \in After \/ Inserted(q)'
        BY <1>1, <1>2
    <2> QED BY <1>2, <2>1, RequestsKept DEF IInv, Rows
<1>6. QueuesOK' /\ WorkersOK' /\ SchedulersOK'
    BY <1>2, QueuesKept, WorkersKept, SchedulersKept DEF IInv, Rows, WorkersOK, SchedulersOK
<1>7. KeysOK'
    <2> SUFFICES ASSUME NEW a \in Requests, NEW b \in Requests,
                        call[a].key = call[b].key, call[a].key # NoKey,
                        rows'[a] # "none", rows'[b] # "none"
                 PROVE  a = b
        BY DEF KeysOK
    <2>1. \A q \in Requests : q # r /\ call[q].key = call[r].key /\ call[r].key # NoKey
                                => rows[q] = "none"
        BY DEF Existing
    <2>2. CASE a # r /\ b # r
        BY <1>1, <2>2 DEF IInv, Rows, KeysOK
    <2>3. CASE a = r \/ b = r
        BY <1>1, <2>1, <2>3
    <2> QED BY <2>2, <2>3
<1> QED BY <1>4, <1>5, <1>6, <1>7 DEF Rows

LEMMA InsertStep ==
    ASSUME IInv, NEW r \in Requests, insert(r)
    PROVE  IInv'
<1>1. pc[r] = "insert"
    BY DEF insert, At
<1>2. RedisType' /\ PastType'
    <2>1. faults' \in 0..MaxFaults
        BY FaultType DEF insert, IInv
    <2> QED BY <2>1 DEF insert, redis, IInv, Types, RedisType, PastType
<1>3. CASE /\ Existing(r) # {} /\ answer_existing(r)
           /\ UNCHANGED <<rows, faults>>
    <2>1. PICK p \in {"answered", "error"} : pc' = [pc EXCEPT ![r] = p]
        BY <1>3, ExistingAnswer
    <2>2. /\ answer' = answer \/ \E j \in Requests : answer' = [answer EXCEPT ![r] = j]
          /\ \A q \in Requests : answer'[q] \in {answer[q], NoJob} \/ Answers(q, answer'[q])
        BY <1>3, ExistingAnswer
    <2>3. SameRows
        BY <1>3 DEF SameRows
    <2>4. TokensOK' /\ Rows'
        BY <2>1, <2>2, <2>3, RequestMove DEF insert, redis, After, Pre
    <2>5. TableType'
        BY <1>3 DEF insert, IInv, Types, TableType
    <2>6. Types'
        BY <1>2, <2>1, <2>2, <2>5, ApiTypes DEF insert, IInv, PcOf
    <2> QED BY <2>4, <2>6 DEF IInv
<1>4. CASE /\ Existing(r) = {} /\ rows' = [rows EXCEPT ![r] = "queued"]
           /\ pc' = [pc EXCEPT ![r] = IF call[r].kind \in {"submit", "path"}
                                      THEN "enqueue" ELSE "bump"]
           /\ UNCHANGED answer
    <2>1. PICK p \in {"enqueue", "bump"} : pc' = [pc EXCEPT ![r] = p]
        BY <1>4
    <2>2. TokensOK' /\ Rows'
        BY <1>1, <1>4, <2>1, InsertNew DEF insert, redis
    <2>3. TableType'
        BY <1>4 DEF insert, IInv, Types, TableType, Statuses
    <2>4. Types'
        BY <1>2, <1>4, <2>1, <2>3, ApiTypes DEF insert, IInv, PcOf
    <2> QED BY <2>2, <2>4 DEF IInv
<1>5. CASE pc' = [pc EXCEPT ![r] = "error"] /\ UNCHANGED <<rows, answer>>
    <2>1. SameRows
        BY <1>5 DEF SameRows
    <2>2. TokensOK' /\ Rows'
        BY <1>5, <2>1, RequestMove DEF insert, redis, After, Pre
    <2>3. TableType'
        BY <1>5 DEF insert, IInv, Types, TableType
    <2>4. Types'
        BY <1>2, <1>5, <2>3, ApiTypes DEF insert, IInv, PcOf
    <2> QED BY <2>2, <2>4 DEF IInv
<1> QED BY <1>3, <1>4, <1>5 DEF insert

LEMMA BumpStep ==
    ASSUME IInv, NEW r \in Requests, bump_usage(r)
    PROVE  IInv'
<1>1. PICK p \in {"inline", "enqueue", "error"} : pc' = [pc EXCEPT ![r] = p]
    BY DEF bump_usage
<1>2. pc[r] \in After /\ (p \in Pre => pc[r] \in Pre) /\ Inserted(r)
    BY <1>1 DEF bump_usage, At, After, Pre, IInv, Rows, RequestsOK
<1>3. answer' = answer \/ answer' = [answer EXCEPT ![r] = r]
    BY DEF bump_usage
<1>4. TableType' /\ SameRows
    BY <1>2 DEF bump_usage, table, IInv, Types, TableType, Statuses, SameRows, Inserted
<1>5. RedisType' /\ PastType'
    <2>1. faults' \in 0..MaxFaults
        BY FaultType DEF bump_usage, IInv
    <2> QED BY <2>1 DEF bump_usage, redis, IInv, Types, RedisType, PastType
<1>6. TokensOK' /\ Rows'
    BY <1>1, <1>2, <1>3, <1>4, AnswerOwn, RequestMove DEF bump_usage, redis
<1>7. Types'
    BY <1>1, <1>3, <1>4, <1>5, ApiTypes DEF bump_usage, IInv, PcOf
<1> QED BY <1>6, <1>7 DEF IInv

LEMMA InlineClaimStep ==
    ASSUME IInv, NEW r \in Requests, inline_claim(r)
    PROVE  IInv'
<1>1. PICK p \in {"execute", "except"} : pc' = [pc EXCEPT ![r] = p]
    BY DEF inline_claim
<1>2. pc[r] \in After /\ (p \in Pre => pc[r] \in Pre) /\ Inserted(r)
    BY <1>1 DEF inline_claim, At, After, Pre, IInv, Rows, RequestsOK
<1>3. answer' = answer \/ answer' = [answer EXCEPT ![r] = r]
    BY DEF inline_claim
<1>4. TableType' /\ SameRows
    BY <1>2 DEF inline_claim, table, IInv, Types, TableType, Statuses, SameRows, Inserted
<1>5. RedisType' /\ PastType'
    <2>1. faults' \in 0..MaxFaults
        BY FaultType DEF inline_claim, IInv
    <2> QED BY <2>1 DEF inline_claim, redis, IInv, Types, RedisType, PastType
<1>6. TokensOK' /\ Rows'
    BY <1>1, <1>2, <1>3, <1>4, AnswerOwn, RequestMove DEF inline_claim, redis
<1>7. Types'
    BY <1>1, <1>3, <1>4, <1>5, ApiTypes DEF inline_claim, IInv, PcOf
<1> QED BY <1>6, <1>7 DEF IInv

LEMMA InlinePublishStep ==
    ASSUME IInv, NEW r \in Requests, inline_publish(r)
    PROVE  IInv'
<1>1. PICK p \in {"answered", "except"} : pc' = [pc EXCEPT ![r] = p]
    BY DEF inline_publish
<1>2. pc[r] \in After /\ (p \in Pre => pc[r] \in Pre) /\ Inserted(r)
    BY <1>1 DEF inline_publish, At, After, Pre, IInv, Rows, RequestsOK
<1>3. answer' = answer \/ answer' = [answer EXCEPT ![r] = r]
    BY DEF inline_publish
<1>4. TableType' /\ SameRows
    BY <1>2 DEF inline_publish, table, IInv, Types, TableType, Statuses, SameRows, Inserted
<1>5. RedisType' /\ PastType'
    <2>1. faults' \in 0..MaxFaults
        BY FaultType DEF inline_publish, IInv
    <2> QED BY <2>1 DEF inline_publish, redis, IInv, Types, RedisType, PastType
<1>6. TokensOK' /\ Rows'
    BY <1>1, <1>2, <1>3, <1>4, AnswerOwn, RequestMove DEF inline_publish, redis
<1>7. Types'
    BY <1>1, <1>3, <1>4, <1>5, ApiTypes DEF inline_publish, IInv, PcOf
<1> QED BY <1>6, <1>7 DEF IInv

LEMMA InlineTimeoutStep ==
    ASSUME IInv, NEW r \in Requests, inline_timeout(r)
    PROVE  IInv'
<1>1. PICK p \in {"enqueue", "except"} : pc' = [pc EXCEPT ![r] = p]
    BY DEF inline_timeout
<1>2. pc[r] \in After /\ (p \in Pre => pc[r] \in Pre) /\ Inserted(r)
    BY <1>1 DEF inline_timeout, At, After, Pre, IInv, Rows, RequestsOK
<1>3. answer' = answer \/ answer' = [answer EXCEPT ![r] = r]
    BY DEF inline_timeout
<1>4. TableType' /\ SameRows
    BY <1>2 DEF inline_timeout, table, IInv, Types, TableType, Statuses, SameRows, Inserted
<1>5. RedisType' /\ PastType'
    <2>1. faults' \in 0..MaxFaults
        BY FaultType DEF inline_timeout, IInv
    <2> QED BY <2>1 DEF inline_timeout, redis, IInv, Types, RedisType, PastType
<1>6. TokensOK' /\ Rows'
    BY <1>1, <1>2, <1>3, <1>4, AnswerOwn, RequestMove DEF inline_timeout, redis
<1>7. Types'
    BY <1>1, <1>3, <1>4, <1>5, ApiTypes DEF inline_timeout, IInv, PcOf
<1> QED BY <1>6, <1>7 DEF IInv

LEMMA InlineRaisesStep ==
    ASSUME IInv, NEW r \in Requests, inline_raises(r)
    PROVE  IInv'
<1>1. PICK p \in {"except"} : pc' = [pc EXCEPT ![r] = p]
    BY DEF inline_raises
<1>2. pc[r] \in After /\ (p \in Pre => pc[r] \in Pre) /\ Inserted(r)
    BY <1>1 DEF inline_raises, At, After, Pre, IInv, Rows, RequestsOK
<1>3. answer' = answer \/ answer' = [answer EXCEPT ![r] = r]
    BY DEF inline_raises
<1>4. TableType' /\ SameRows
    BY <1>2 DEF inline_raises, table, IInv, Types, TableType, Statuses, SameRows, Inserted
<1>5. RedisType' /\ PastType'
    <2>1. faults' \in 0..MaxFaults
        BY FaultType DEF inline_raises, IInv
    <2> QED BY <2>1 DEF inline_raises, redis, IInv, Types, RedisType, PastType
<1>6. TokensOK' /\ Rows'
    BY <1>1, <1>2, <1>3, <1>4, AnswerOwn, RequestMove DEF inline_raises, redis
<1>7. Types'
    BY <1>1, <1>3, <1>4, <1>5, ApiTypes DEF inline_raises, IInv, PcOf
<1> QED BY <1>6, <1>7 DEF IInv

LEMMA InlineExceptStep ==
    ASSUME IInv, NEW r \in Requests, inline_except(r)
    PROVE  IInv'
<1>1. PICK p \in {"answered", "error"} : pc' = [pc EXCEPT ![r] = p]
    BY DEF inline_except
<1>2. pc[r] \in After /\ (p \in Pre => pc[r] \in Pre) /\ Inserted(r)
    BY <1>1 DEF inline_except, At, After, Pre, IInv, Rows, RequestsOK
<1>3. answer' = answer \/ answer' = [answer EXCEPT ![r] = r]
    BY DEF inline_except
<1>4. TableType' /\ SameRows
    BY <1>2 DEF inline_except, table, IInv, Types, TableType, Statuses, SameRows, Inserted
<1>5. RedisType' /\ PastType'
    <2>1. faults' \in 0..MaxFaults
        BY FaultType DEF inline_except, IInv
    <2> QED BY <2>1 DEF inline_except, redis, IInv, Types, RedisType, PastType
<1>6. TokensOK' /\ Rows'
    BY <1>1, <1>2, <1>3, <1>4, AnswerOwn, RequestMove DEF inline_except, redis
<1>7. Types'
    BY <1>1, <1>3, <1>4, <1>5, ApiTypes DEF inline_except, IInv, PcOf
<1> QED BY <1>6, <1>7 DEF IInv

\* The result uses up the token of the request.
LEMMA InlineDoneStep ==
    ASSUME IInv, NEW r \in Requests, inline_done(r)
    PROVE  IInv'
<1>1. PICK p \in {"publish", "except"} : pc' = [pc EXCEPT ![r] = p]
    BY DEF inline_done
<1>2. /\ pc[r] = "execute" /\ Inserted(r)
      /\ UNCHANGED <<call, queue, scheduled, answer, cancelling, worker, scheduler>>
    BY DEF inline_done, At, redis, IInv, Rows, RequestsOK
<1>3. /\ pc'[r] = p /\ \A q \in Requests : q # r => pc'[q] = pc[q]
      /\ completed'[r] = completed[r] + 1
      /\ \A q \in Requests : q # r => completed'[q] = completed[q]
    BY <1>1 DEF inline_done, IInv, Types, ApiType, PastType
<1>4. TableType' /\ SameRows
    BY <1>2 DEF inline_done, IInv, Types, TableType, Statuses, SameRows, Inserted
<1>5. RedisType' /\ PastType'
    <2>1. faults' \in 0..MaxFaults
        BY FaultType DEF inline_done, IInv
    <2>2. completed' \in [Requests -> Nat]
        BY DEF inline_done, IInv, Types, PastType
    <2> QED BY <2>1, <2>2 DEF inline_done, redis, IInv, Types, RedisType, PastType
<1>6. TokensOK'
    <2>1. Has("request", r, r)
        BY <1>2 DEF Has, Pre
    <2>2. \A k, x : Has(k, x, r) => k = "request" /\ x = r
        BY <2>1 DEF IInv, TokensOK, TokenOK
    <2>3. ASSUME NEW k, NEW x, Has(k, x, r)' PROVE FALSE
        <3>1. k # "request"
            BY <1>1, <1>3, <2>3 DEF Has, Pre
        <3>2. Has(k, x, r)
            BY <1>2, <2>3, <3>1 DEF Has
        <3> QED BY <2>2, <3>1, <3>2
    <2>4. ASSUME NEW i \in Requests, i # r, NEW k, NEW x, Has(k, x, i)'
          PROVE  Has(k, x, i)
        BY <1>2, <1>3, <2>4 DEF Has
    <2> QED BY <1>3, <2>1, <2>3, <2>4, TokenMoves
<1>7. Rows'
    <2>1. RequestsOK'
        <3>1. \A q \in Requests : pc'[q] \in After => pc[q] \in After
            BY <1>2, <1>3 DEF After
        <3> QED BY <1>2, <1>4, <3>1, RowsStay, RequestsKept DEF IInv, Rows
    <2>2. QueuesOK' /\ WorkersOK' /\ SchedulersOK' /\ KeysOK'
        BY <1>2, <1>4, RowsStay, QueuesKept, WorkersKept, SchedulersKept, KeysKept
           DEF IInv, Rows, WorkersOK, SchedulersOK
    <2> QED BY <2>1, <2>2 DEF Rows
<1>8. Types'
    BY <1>1, <1>2, <1>4, <1>5, ApiTypes DEF IInv, PcOf
<1> QED BY <1>6, <1>7, <1>8 DEF IInv

\* The request hands its token to the queue or to the scheduled set.
LEMMA EnqueueStep ==
    ASSUME IInv, NEW r \in Requests, enqueue(r)
    PROVE  IInv'
<1>1. PICK p \in {"answered", "error"} : pc' = [pc EXCEPT ![r] = p]
    BY DEF enqueue
<1>2. /\ pc[r] = "enqueue" /\ Inserted(r)
      /\ UNCHANGED <<call, rows, started, due, cancelling, worker, scheduler, completed>>
    BY DEF enqueue, At, table, IInv, Rows, RequestsOK
<1>3. pc'[r] = p /\ \A q \in Requests : q # r => pc'[q] = pc[q]
    BY <1>1 DEF IInv, Types, ApiType
<1>4. answer' = answer \/ answer' = [answer EXCEPT ![r] = r]
    BY DEF enqueue
<1>5. \/ queue' = queue \cup {r} /\ scheduled' = scheduled
      \/ queue' = queue /\ scheduled' = scheduled \cup {r}
      \/ queue' = queue /\ scheduled' = scheduled
    BY DEF enqueue, push
<1>6. TableType' /\ SameRows
    BY <1>2 DEF IInv, Types, TableType, SameRows
<1>7. RedisType' /\ PastType'
    <2>1. faults' \in 0..MaxFaults
        BY FaultType DEF enqueue, IInv
    <2>2. lost' \subseteq Requests
        BY DEF enqueue, IInv, Types, PastType
    <2> QED BY <1>2, <1>5, <2>1, <2>2 DEF IInv, Types, RedisType, PastType
<1>8. TokensOK'
    <2>1. Has("request", r, r)
        BY <1>2 DEF Has, Pre
    <2>2. \A k, x : Has(k, x, r) => k = "request" /\ x = r
        BY <2>1 DEF IInv, TokensOK, TokenOK
    <2>3. r \notin queue /\ r \notin scheduled
        BY <2>2 DEF Has
    <2>4. ASSUME NEW k, NEW x, Has(k, x, r)'
          PROVE  x = r /\ (\/ k = "queue" /\ r \in queue'
                           \/ k = "scheduled" /\ r \in scheduled')
        <3>1. k # "request"
            BY <1>1, <1>3, <2>4 DEF Has, Pre
        <3>2. CASE k \in {"queue", "scheduled"}
            BY <2>4, <3>2 DEF Has
        <3>3. CASE k \notin {"queue", "scheduled"}
            <4>1. Has(k, x, r)
                BY <1>2, <2>4, <3>1, <3>3 DEF Has
            <4> QED BY <2>2, <3>1, <4>1
        <3> QED BY <3>2, <3>3
    <2>5. ~(r \in queue' /\ r \in scheduled')
        BY <1>5, <2>3
    <2>6. \E l, y : \A k, x : Has(k, x, r)' => k = l /\ x = y
        <3>1. CASE r \in queue'
            BY <2>4, <2>5, <3>1
        <3>2. CASE r \notin queue'
            BY <2>4, <3>2
        <3> QED BY <3>1, <3>2
    <2>7. ASSUME NEW i \in Requests, i # r, NEW k, NEW x, Has(k, x, i)'
          PROVE  Has(k, x, i)
        BY <1>2, <1>3, <1>5, <2>7 DEF Has
    <2> QED BY <1>2, <2>1, <2>6, <2>7, TokenMoves
<1>9. Rows'
    <2>1. RequestsOK'
        <3>1. \A q \in Requests : pc'[q] \in After => pc[q] \in After
            BY <1>2, <1>3 DEF After
        <3> QED BY <1>2, <1>4, <1>6, <3>1, AnswerOwn, RowsStay, RequestsKept DEF IInv, Rows
    <2>2. QueuesOK'
        <3>1. \A j \in queue' \cup scheduled' : j \in queue \cup scheduled \/ Inserted(j)
            BY <1>2, <1>5
        <3> QED BY <1>6, <3>1, RowsStay, QueuesKept DEF IInv, Rows
    <2>3. WorkersOK' /\ SchedulersOK' /\ KeysOK'
        BY <1>2, <1>6, RowsStay, WorkersKept, SchedulersKept, KeysKept
           DEF IInv, Rows, WorkersOK, SchedulersOK
    <2> QED BY <2>1, <2>2, <2>3 DEF Rows
<1>10. Types'
    BY <1>1, <1>2, <1>4, <1>6, <1>7, ApiTypes DEF IInv, PcOf
<1> QED BY <1>8, <1>9, <1>10 DEF IInv

LEMMA CancelReadStep ==
    ASSUME IInv, NEW j \in Requests, cancel_read(j)
    PROVE  IInv'
<1>1. /\ cancelling' = j /\ rows[j] = "queued"
      /\ UNCHANGED <<call, rows, started, queue, scheduled, due, pc, answer, worker, scheduler,
                     completed, lost, faults>>
    BY DEF cancel_read, table, redis, api
<1>2. Types'
    BY <1>1 DEF IInv, Types, TableType, RedisType, ApiType, WorkerType, SchedulerType, PastType
<1>3. SameRows /\ Inserted(j)
    BY <1>1 DEF SameRows, Inserted
<1>4. TokensOK'
    BY <1>1, NoGain, PassesKeeps DEF IInv
<1>5. Rows'
    BY <1>1, <1>3, RowsStay, RequestsKept, QueuesKept, WorkersKept, SchedulersKept, KeysKept
       DEF IInv, Rows, WorkersOK, SchedulersOK
<1> QED BY <1>2, <1>4, <1>5 DEF IInv

LEMMA CancelUpdateStep ==
    ASSUME IInv, cancel_update
    PROVE  IInv'
<1>1. /\ cancelling' = NoJob
      /\ UNCHANGED <<call, started, queue, scheduled, due, pc, answer, worker, scheduler,
                     completed, lost>>
    BY DEF cancel_update, redis, api
<1>2. Inserted(cancelling)
    BY DEF cancel_update, IInv, Rows, RequestsOK
<1>3. TableType' /\ SameRows
    BY <1>2 DEF cancel_update, IInv, Types, TableType, Statuses, SameRows, Inserted
<1>4. Types'
    <2>1. faults' \in 0..MaxFaults
        BY FaultType DEF cancel_update, IInv
    <2> QED BY <1>1, <1>3, <2>1
            DEF IInv, Types, RedisType, ApiType, WorkerType, SchedulerType, PastType
<1>5. TokensOK'
    BY <1>1, NoGain, PassesKeeps DEF IInv
<1>6. Rows'
    BY <1>1, <1>3, RowsStay, RequestsKept, QueuesKept, WorkersKept, SchedulersKept, KeysKept
       DEF IInv, Rows, WorkersOK, SchedulersOK
<1> QED BY <1>4, <1>5, <1>6 DEF IInv

LEMMA ApiCrashStep ==
    ASSUME IInv, api_crash
    PROVE  IInv'
<1>1. /\ cancelling' = NoJob
      /\ UNCHANGED <<call, rows, started, queue, scheduled, due, answer, worker, scheduler,
                     completed>>
    BY DEF api_crash, table, redis
<1>2. \A r \in Requests : pc'[r] = pc[r] \/ pc'[r] = "error"
    BY DEF api_crash
<1>3. Types'
    <2>1. faults' \in 0..MaxFaults
        BY FaultType DEF api_crash, IInv
    <2>2. lost' \subseteq Requests
        BY DEF api_crash, IInv, Types, PastType, InFlight
    <2>3. pc' \in [Requests -> PcOf]
        BY DEF api_crash, IInv, Types, ApiType, PcOf
    <2> QED BY <1>1, <2>1, <2>2, <2>3
            DEF IInv, Types, TableType, RedisType, ApiType, WorkerType, SchedulerType, PastType
<1>4. TokensOK'
    <2>1. \A r \in Requests : pc'[r] \in Pre => pc[r] \in Pre
        BY <1>2 DEF Pre
    <2> QED BY <1>1, <2>1, NoGain, PassesKeeps DEF IInv
<1>5. Rows'
    <2>1. \A r \in Requests : pc'[r] \in After => pc[r] \in After
        BY <1>2 DEF After
    <2>2. SameRows
        BY <1>1 DEF SameRows
    <2> QED BY <1>1, <2>1, <2>2, RowsStay, RequestsKept, QueuesKept, WorkersKept,
               SchedulersKept, KeysKept DEF IInv, Rows, WorkersOK, SchedulersOK
<1> QED BY <1>3, <1>4, <1>5 DEF IInv

LEMMA TimeStep ==
    ASSUME IInv, NEW j \in Requests, time_passes(j)
    PROVE  IInv'
<1>1. UNCHANGED <<call, rows, started, queue, scheduled, pc, answer, cancelling, worker,
                  scheduler, completed, lost, faults>>
    BY DEF time_passes, table, api
<1>2. Types'
    BY <1>1 DEF time_passes, IInv, Types, TableType, RedisType, ApiType, WorkerType,
                SchedulerType, PastType
<1>3. TokensOK'
    BY <1>1, NoGain, PassesKeeps DEF IInv
<1>4. SameRows
    BY <1>1 DEF SameRows
<1>5. Rows'
    BY <1>1, <1>4, RowsStay, RequestsKept, QueuesKept, WorkersKept, SchedulersKept, KeysKept
       DEF IInv, Rows, WorkersOK, SchedulersOK
<1> QED BY <1>2, <1>3, <1>5 DEF IInv

-----------------------------------------------------------------------------
(* The schedulers.                                                           *)

LEMMA SchedulerTypes ==
    ASSUME Types, NEW s \in Schedulers, NEW a \in {"idle", "zrem", "enqueue", "dead"},
           NEW j \in Requests \cup {NoJob},
           scheduler' = [scheduler EXCEPT ![s] = [at |-> a, job |-> j]],
           RedisType', lost' \subseteq Requests, fault \/ UNCHANGED faults,
           UNCHANGED <<rows, started, pc, answer, cancelling, worker, completed>>
    PROVE  Types'
<1>1. [at |-> a, job |-> j] \in SchedulerRecord
    BY DEF SchedulerRecord
<1>2. SchedulerType'
    BY <1>1 DEF Types, SchedulerType
<1>3. PastType'
    BY FaultType DEF Types, PastType
<1> QED BY <1>2, <1>3 DEF Types, TableType, ApiType, WorkerType

LEMMA PeekStep ==
    ASSUME IInv, NEW s \in Schedulers, peek(s)
    PROVE  IInv'
<1>1. PICK j \in scheduled \cap due :
          scheduler' = [scheduler EXCEPT ![s] = [at |-> "zrem", job |-> j]]
    BY DEF peek
<1>2. UNCHANGED <<call, rows, started, queue, scheduled, due, pc, answer, cancelling, worker,
                  completed, lost, faults>>
    BY DEF peek, table, redis, api
<1>3. TokensOK' /\ Rows'
    BY <1>1, <1>2, SchedulerMove
<1>4. j \in Requests /\ RedisType' /\ lost' \subseteq Requests
    BY <1>2 DEF IInv, Types, RedisType, PastType
<1>5. Types'
    BY <1>1, <1>2, <1>4, SchedulerTypes DEF IInv
<1> QED BY <1>3, <1>5 DEF IInv

\* A step by which a scheduler comes to rest or ends, whatever it had.
LEMMA SchedulerStops ==
    ASSUME IInv, NEW s \in Schedulers, NEW x \in {Idle, Dead},
           scheduler' = [scheduler EXCEPT ![s] = x],
           scheduled' \subseteq scheduled, lost' \subseteq Requests, fault \/ UNCHANGED faults,
           UNCHANGED <<call, rows, started, queue, due, pc, answer, cancelling, worker, completed>>
    PROVE  IInv'
<1>1. PICK a \in {"idle", "dead"} : x = [at |-> a, job |-> NoJob]
    BY DEF Idle, Dead
<1>2. TokensOK' /\ Rows'
    BY <1>1, SchedulerMove
<1>3. RedisType'
    BY DEF IInv, Types, RedisType
<1>4. Types'
    BY <1>1, <1>3, SchedulerTypes DEF IInv
<1> QED BY <1>2, <1>4 DEF IInv

LEMMA SchedulerJob ==
    ASSUME Types, NEW s \in Schedulers
    PROVE  scheduler[s] \in SchedulerRecord /\ scheduler[s].job \in Requests \cup {NoJob}
BY DEF Types, SchedulerType, SchedulerRecord

\* The scheduler that removes the item has its token.
LEMMA TakeScheduled ==
    ASSUME IInv, NEW s \in Schedulers, NEW j \in scheduled,
           scheduler[s].at = "zrem", scheduled' = scheduled \ {j},
           scheduler' = [scheduler EXCEPT ![s] = [at |-> "enqueue", job |-> j]],
           UNCHANGED <<call, rows, started, queue, due, pc, answer, cancelling, worker, completed,
                       lost, faults>>
    PROVE  IInv'
<1>1. j \in Requests
    BY DEF IInv, Types, RedisType
<1>2. /\ scheduler'[s] = [at |-> "enqueue", job |-> j]
      /\ \A v \in Schedulers : v # s => scheduler'[v] = scheduler[v]
    BY DEF IInv, Types, SchedulerType
<1>3. TokensOK'
    <2>1. Has("scheduled", j, j)
        BY <1>1 DEF Has
    <2>2. \A k, x : Has(k, x, j) => k = "scheduled" /\ x = j
        BY <1>1, <2>1 DEF IInv, TokensOK, TokenOK
    <2>3. ASSUME NEW k, NEW x, Has(k, x, j)'
          PROVE  k = "scheduler" /\ x = s
        <3>1. ~(k = "scheduled" /\ x = j)
            BY <2>3 DEF Has
        <3>2. CASE k = "scheduler" /\ x # s
            <4>1. Has(k, x, j)
                BY <1>2, <2>3, <3>2 DEF Has
            <4> QED BY <2>2, <3>2, <4>1
        <3>3. CASE k # "scheduler"
            <4>1. Has(k, x, j)
                BY <2>3, <3>1, <3>3 DEF Has
            <4> QED BY <2>2, <3>1, <4>1
        <3>4. k = "scheduler" => x \in Schedulers
            BY <2>3 DEF Has
        <3> QED BY <3>2, <3>3
    <2>4. ASSUME NEW i \in Requests, i # j, NEW k, NEW x, Has(k, x, i)'
          PROVE  Has(k, x, i)
        BY <1>2, <2>4 DEF Has
    <2> QED BY <1>1, <2>1, <2>3, <2>4, TokenMoves
<1>4. SameRows
    BY DEF SameRows
<1>5. Rows'
    <2>1. Inserted(j)
        BY DEF IInv, Rows, QueuesOK
    <2>2. \A v \in Schedulers : scheduler'[v].at = "enqueue" => Inserted(scheduler'[v].job)
        BY <1>2, <2>1 DEF IInv, Rows, SchedulersOK
    <2>3. SchedulersOK'
        BY <1>4, <2>2, RowsStay, SchedulersKept
    <2>4. RequestsOK' /\ QueuesOK' /\ WorkersOK' /\ KeysOK'
        BY <1>4, RowsStay, RequestsKept, QueuesKept, WorkersKept, KeysKept
           DEF IInv, Rows, WorkersOK
    <2> QED BY <2>3, <2>4 DEF Rows
<1>6. Types'
    <2>1. RedisType' /\ lost' \subseteq Requests
        BY DEF IInv, Types, RedisType, PastType
    <2> QED BY <1>1, <2>1, SchedulerTypes DEF IInv
<1> QED BY <1>3, <1>5, <1>6 DEF IInv

LEMMA PopStep ==
    ASSUME IInv, NEW s \in Schedulers, pop_due_scheduled(s)
    PROVE  IInv'
<1>1. UNCHANGED <<call, rows, started, queue, due, pc, answer, cancelling, worker, completed>>
    BY DEF pop_due_scheduled, table, api
<1>2. lost' \subseteq Requests /\ (fault \/ UNCHANGED faults) /\ scheduled' \subseteq scheduled
    <2>1. scheduled \subseteq Requests /\ lost \subseteq Requests
        BY DEF IInv, Types, RedisType, PastType
    <2> QED BY <2>1 DEF pop_due_scheduled
<1>3. CASE scheduler' = [scheduler EXCEPT ![s] = Idle] \/ scheduler' = [scheduler EXCEPT ![s] = Dead]
    BY <1>1, <1>2, <1>3, SchedulerStops
<1>4. CASE /\ scheduler[s].job \in scheduled
           /\ scheduled' = scheduled \ {scheduler[s].job}
           /\ scheduler' = [scheduler EXCEPT ![s] = [scheduler[s] EXCEPT !.at = "enqueue"]]
           /\ UNCHANGED <<lost, faults>>
    <2>1. [scheduler[s] EXCEPT !.at = "enqueue"] = [at |-> "enqueue", job |-> scheduler[s].job]
        BY SchedulerJob, RecordAt DEF IInv, SchedulerRecord
    <2>2. scheduler[s].at = "zrem"
        BY DEF pop_due_scheduled
    <2> QED BY <1>1, <1>4, <2>1, <2>2, TakeScheduled
<1> QED BY <1>3, <1>4 DEF pop_due_scheduled

\* The scheduler hands its token to the queue.
LEMMA ScheduleEnqueueStep ==
    ASSUME IInv, NEW s \in Schedulers, schedule_enqueue(s)
    PROVE  IInv'
<1>1. /\ scheduler[s].at = "enqueue" /\ scheduler' = [scheduler EXCEPT ![s] = Idle]
      /\ UNCHANGED <<call, rows, started, scheduled, due, pc, answer, cancelling, worker,
                     completed>>
    BY DEF schedule_enqueue, table, api
<1>2. PICK j \in Requests : j = scheduler[s].job /\ Inserted(j)
    BY <1>1 DEF IInv, Rows, SchedulersOK, Inserted
<1>3. CASE fault /\ lost' = lost \cup {j} /\ UNCHANGED queue
    <2>1. lost' \subseteq Requests
        BY <1>2, <1>3 DEF IInv, Types, PastType
    <2> QED BY <1>1, <1>3, <2>1, SchedulerStops
<1>4. CASE queue' = queue \cup {j} /\ UNCHANGED <<lost, faults>>
    <2>1. /\ scheduler'[s] = [at |-> "idle", job |-> NoJob]
          /\ \A v \in Schedulers : v # s => scheduler'[v] = scheduler[v]
        BY <1>1 DEF IInv, Types, SchedulerType, Idle
    <2>2. TokensOK'
        <3>1. Has("scheduler", s, j)
            BY <1>1, <1>2 DEF Has
        <3>2. \A k, x : Has(k, x, j) => k = "scheduler" /\ x = s
            BY <1>2, <3>1 DEF IInv, TokensOK, TokenOK
        <3>3. ASSUME NEW k, NEW x, Has(k, x, j)'
              PROVE  k = "queue" /\ x = j
            <4>1. ~(k = "scheduler" /\ x = s)
                BY <2>1, <3>3 DEF Has
            <4>2. CASE ~(k = "queue" /\ x = j)
                <5>1. Has(k, x, j)
                    BY <1>1, <2>1, <3>3, <4>1, <4>2 DEF Has
                <5> QED BY <3>2, <4>1, <5>1
            <4> QED BY <4>2
        <3>4. ASSUME NEW i \in Requests, i # j, NEW k, NEW x, Has(k, x, i)'
              PROVE  Has(k, x, i)
            BY <1>1, <1>4, <2>1, <3>4 DEF Has
        <3> QED BY <1>1, <1>2, <3>1, <3>3, <3>4, TokenMoves
    <2>3. SameRows
        BY <1>1 DEF SameRows
    <2>4. Rows'
        <3>1. \A i \in queue' \cup scheduled' : i \in queue \cup scheduled \/ Inserted(i)
            BY <1>1, <1>2, <1>4
        <3>2. QueuesOK'
            BY <2>3, <3>1, RowsStay, QueuesKept DEF IInv, Rows
        <3>3. \A v \in Schedulers : scheduler'[v].at = "enqueue" => Inserted(scheduler'[v].job)
            BY <2>1 DEF IInv, Rows, SchedulersOK
        <3>4. SchedulersOK'
            BY <2>3, <3>3, RowsStay, SchedulersKept
        <3>5. RequestsOK' /\ WorkersOK' /\ KeysOK'
            BY <1>1, <2>3, RowsStay, RequestsKept, WorkersKept, KeysKept
               DEF IInv, Rows, WorkersOK
        <3> QED BY <3>2, <3>4, <3>5 DEF Rows
    <2>5. Types'
        <3>1. RedisType' /\ lost' \subseteq Requests
            BY <1>1, <1>2, <1>4 DEF IInv, Types, RedisType, PastType
        <3> QED BY <1>1, <1>4, <3>1, SchedulerTypes DEF IInv, Idle
    <2> QED BY <2>2, <2>4, <2>5 DEF IInv
<1> QED BY <1>2, <1>3, <1>4 DEF schedule_enqueue

LEMMA SchedulerCrashStep ==
    ASSUME IInv, NEW s \in Schedulers, scheduler_crash(s) \/ scheduler_restart(s)
    PROVE  IInv'
<1>1. UNCHANGED <<call, rows, started, queue, scheduled, due, pc, answer, cancelling, worker,
                  completed>>
    BY DEF scheduler_crash, scheduler_restart, table, redis, api
<1>2. scheduler[s].at = "enqueue" => scheduler[s].job \in Requests
    BY DEF IInv, Rows, SchedulersOK, Inserted
<1>3. lost' \subseteq Requests
    BY <1>2 DEF scheduler_crash, scheduler_restart, IInv, Types, PastType
<1>4. fault \/ UNCHANGED faults
    BY DEF scheduler_crash, scheduler_restart
<1>5. \E x \in {Idle, Dead} : scheduler' = [scheduler EXCEPT ![s] = x]
    BY DEF scheduler_crash, scheduler_restart
<1> QED BY <1>1, <1>3, <1>4, <1>5, SchedulerStops
-----------------------------------------------------------------------------
(* The workers.                                                              *)

WorkerAt == {"idle", "read", "path", "claim", "check", "execute", "publish", "except",
             "except_unbound", "dead"}

LEMMA WorkerTypes ==
    ASSUME Types, NEW w \in Workers, NEW a \in WorkerAt, NEW j \in Requests \cup {NoJob},
           worker' = [worker EXCEPT ![w] = [at |-> a, job |-> j]],
           TableType', RedisType', completed' \in [Requests -> Nat], lost' \subseteq Requests,
           fault \/ UNCHANGED faults,
           UNCHANGED <<pc, answer, cancelling, scheduler>>
    PROVE  Types'
<1>1. [at |-> a, job |-> j] \in WorkerRecord
    BY DEF WorkerRecord, WorkerAt
<1>2. WorkerType'
    BY <1>1 DEF Types, WorkerType
<1>3. PastType'
    BY FaultType DEF Types, PastType
<1> QED BY <1>2, <1>3 DEF Types, ApiType, SchedulerType

LEMMA WorkerJob ==
    ASSUME IInv, NEW w \in Workers
    PROVE  /\ worker[w] \in WorkerRecord
           /\ worker[w].at \notin {"idle", "dead"} => Inserted(worker[w].job)
           /\ Inserted(worker[w].job) => worker[w].job \in Requests
BY DEF IInv, Types, WorkerType, Rows, WorkersOK, Inserted

\* What a step of a worker writes to the row of its job.
LEMMA RowWritten ==
    ASSUME IInv, NEW j, Inserted(j), NEW st \in Statuses \ {"none"},
           rows' = rows \/ rows' = [rows EXCEPT ![j] = st],
           started' = started \/ \E w \in Workers : started' = [started EXCEPT ![j] = w]
    PROVE  TableType' /\ SameRows
<1>1. rows' \in [Requests -> Statuses] /\ SameRows
    BY DEF IInv, Types, TableType, Inserted, SameRows
<1>2. started' \in [Requests -> Requests \cup Workers \cup {NoJob}]
    BY DEF IInv, Types, TableType, Inserted
<1> QED BY <1>1, <1>2 DEF TableType

\* A step by which a worker comes to rest or ends, whatever it had.
LEMMA WorkerStops ==
    ASSUME IInv, NEW w \in Workers, NEW x \in {Idle, Dead},
           worker' = [worker EXCEPT ![w] = x], TableType', SameRows,
           lost' \subseteq Requests, fault \/ UNCHANGED faults,
           UNCHANGED <<call, queue, scheduled, due, pc, answer, cancelling, scheduler, completed>>
    PROVE  IInv'
<1>1. PICK a \in {"idle", "dead"} : x = [at |-> a, job |-> NoJob]
    BY DEF Idle, Dead
<1>2. TokensOK' /\ Rows'
    BY <1>1, WorkerMove DEF WorkerPre
<1>3. RedisType' /\ completed' \in [Requests -> Nat]
    BY DEF IInv, Types, RedisType, PastType
<1>4. Types'
    BY <1>1, <1>3, WorkerTypes DEF IInv, WorkerAt
<1> QED BY <1>2, <1>4 DEF IInv

\* A step by which a worker goes on with its job.
LEMMA WorkerGoesOn ==
    ASSUME IInv, NEW w \in Workers, worker[w].at \notin {"idle", "dead"},
           NEW a \in WorkerAt \ {"idle", "dead"}, a \in WorkerPre => worker[w].at \in WorkerPre,
           worker' = [worker EXCEPT ![w] = [worker[w] EXCEPT !.at = a]], TableType', SameRows,
           fault \/ UNCHANGED faults,
           UNCHANGED <<call, queue, scheduled, due, pc, answer, cancelling, scheduler, completed,
                       lost>>
    PROVE  IInv'
<1>1. /\ worker[w] \in WorkerRecord /\ Inserted(worker[w].job) /\ worker[w].job \in Requests
    BY WorkerJob
<1>2. worker' = [worker EXCEPT ![w] = [at |-> a, job |-> worker[w].job]]
    <2>1. [worker[w] EXCEPT !.at = a] = [at |-> a, job |-> worker[w].job]
        BY <1>1, RecordAt DEF WorkerRecord
    <2> QED BY <2>1
<1>3. TokensOK' /\ Rows'
    BY <1>1, <1>2, WorkerMove
<1>4. RedisType' /\ completed' \in [Requests -> Nat] /\ lost' \subseteq Requests
    BY DEF IInv, Types, RedisType, PastType
<1>5. Types'
    BY <1>1, <1>2, <1>4, WorkerTypes DEF IInv
<1> QED BY <1>3, <1>5 DEF IInv

\* The queue hands the token to a worker, or a fault drops it.
LEMMA DequeueStep ==
    ASSUME IInv, NEW w \in Workers, dequeue(w)
    PROVE  IInv'
<1>1. PICK j \in queue :
          /\ queue' = queue \ {j}
          /\ \/ /\ worker' = [worker EXCEPT ![w] = [at |-> "read", job |-> j]]
                /\ UNCHANGED <<lost, faults>>
             \/ fault /\ worker' = [worker EXCEPT ![w] = Dead] /\ lost' = lost \cup {j}
    BY DEF dequeue
<1>2. /\ worker[w].at = "idle"
      /\ UNCHANGED <<call, rows, started, scheduled, due, pc, answer, cancelling, scheduler,
                     completed>>
    BY DEF dequeue, table, api
<1>3. j \in Requests /\ Inserted(j)
    BY DEF IInv, Types, RedisType, Rows, QueuesOK
<1>4. PICK a \in {"read", "dead"}, i \in {j, NoJob} :
          /\ worker' = [worker EXCEPT ![w] = [at |-> a, job |-> i]]
          /\ a = "read" => i = j
    BY <1>1 DEF Dead
<1>5. /\ worker'[w] = [at |-> a, job |-> i]
      /\ \A v \in Workers : v # w => worker'[v] = worker[v]
    BY <1>4 DEF IInv, Types, WorkerType
<1>6. SameRows
    BY <1>2 DEF SameRows
<1>7. TokensOK'
    <2>1. Has("queue", j, j)
        BY DEF Has
    <2>2. \A k, x : Has(k, x, j) => k = "queue" /\ x = j
        BY <1>3, <2>1 DEF IInv, TokensOK, TokenOK
    <2>3. ASSUME NEW k, NEW x, Has(k, x, j)'
          PROVE  k = "worker" /\ x = w
        <3>1. ~(k = "queue" /\ x = j)
            BY <1>1, <2>3 DEF Has
        <3>2. CASE ~(k = "worker" /\ x = w)
            <4>1. Has(k, x, j)
                BY <1>2, <1>5, <2>3, <3>1, <3>2 DEF Has
            <4> QED BY <2>2, <3>1, <4>1
        <3> QED BY <3>2
    <2>4. ASSUME NEW m \in Requests, m # j, NEW k, NEW x, Has(k, x, m)'
          PROVE  Has(k, x, m)
        BY <1>1, <1>2, <1>4, <1>5, <2>4 DEF Has, WorkerPre
    <2> QED BY <1>2, <1>3, <2>1, <2>3, <2>4, TokenMoves
<1>8. Rows'
    <2>1. WorkersOK'
        <3>1. \A v \in Workers : worker'[v].at \notin {"idle", "dead"} => Inserted(worker'[v].job)
            BY <1>3, <1>4, <1>5 DEF IInv, Rows, WorkersOK
        <3> QED BY <1>6, <3>1, RowsStay, WorkersKept
    <2>2. QueuesOK'
        <3>1. queue' \cup scheduled' \subseteq queue \cup scheduled
            BY <1>1, <1>2
        <3> QED BY <1>6, <3>1, RowsStay, QueuesKept DEF IInv, Rows
    <2>3. RequestsOK' /\ SchedulersOK' /\ KeysOK'
        BY <1>2, <1>6, RowsStay, RequestsKept, SchedulersKept, KeysKept
           DEF IInv, Rows, SchedulersOK
    <2> QED BY <2>1, <2>2, <2>3 DEF Rows
<1>9. Types'
    <2>1. TableType' /\ RedisType' /\ completed' \in [Requests -> Nat]
        BY <1>1, <1>2 DEF IInv, Types, TableType, RedisType, PastType
    <2>2. lost' \subseteq Requests /\ (fault \/ UNCHANGED faults)
        BY <1>1, <1>3 DEF IInv, Types, PastType
    <2> QED BY <1>2, <1>3, <1>4, <2>1, <2>2, WorkerTypes DEF IInv, WorkerAt
<1> QED BY <1>7, <1>8, <1>9 DEF IInv

LEMMA ReadStep ==
    ASSUME IInv, NEW w \in Workers, read(w)
    PROVE  IInv'
<1>1. /\ worker[w].at = "read"
      /\ UNCHANGED <<call, rows, started, queue, scheduled, due, pc, answer, cancelling, scheduler,
                     completed>>
    BY DEF read, table, redis, api
<1>2. TableType' /\ SameRows
    BY <1>1 DEF IInv, Types, TableType, SameRows
<1>3. lost' \subseteq Requests /\ (fault \/ UNCHANGED faults)
    <2>1. worker[w].job \in Requests
        BY <1>1, WorkerJob
    <2> QED BY <2>1 DEF read, IInv, Types, PastType
<1>4. CASE \E x \in {Idle, Dead} : worker' = [worker EXCEPT ![w] = x]
    BY <1>1, <1>2, <1>3, <1>4, WorkerStops
<1>5. CASE /\ \E a \in {"path", "claim"} :
                  worker' = [worker EXCEPT ![w] = [worker[w] EXCEPT !.at = a]]
           /\ UNCHANGED lost
    BY <1>1, <1>2, <1>3, <1>5, WorkerGoesOn DEF WorkerAt, WorkerPre
<1> QED BY <1>4, <1>5 DEF read

LEMMA PathClaimStep ==
    ASSUME IInv, NEW w \in Workers, path_claim(w)
    PROVE  IInv'
<1>1. /\ worker[w].at = "path" /\ (fault \/ UNCHANGED faults)
      /\ UNCHANGED <<call, queue, scheduled, due, pc, answer, cancelling, scheduler, completed>>
      /\ worker' = [worker EXCEPT ![w] = Dead] \/ worker' = [worker EXCEPT ![w] = Idle]
    BY DEF path_claim, redis, api
<1>2. Inserted(worker[w].job) /\ worker[w].job \in Requests
    BY <1>1, WorkerJob
<1>3. TableType' /\ SameRows
    BY <1>2, RowWritten DEF path_claim, table, Statuses
<1>4. lost' \subseteq Requests
    BY <1>2 DEF path_claim, IInv, Types, PastType
<1> QED BY <1>1, <1>3, <1>4, WorkerStops

LEMMA ClaimStep ==
    ASSUME IInv, NEW w \in Workers, claim(w)
    PROVE  IInv'
<1>1. /\ worker[w].at = "claim" /\ (fault \/ UNCHANGED faults)
      /\ UNCHANGED <<call, queue, scheduled, due, pc, answer, cancelling, scheduler, completed,
                     lost>>
    BY DEF claim, redis, api
<1>2. Inserted(worker[w].job) /\ worker[w].job \in Requests
    BY <1>1, WorkerJob
<1>3. TableType' /\ SameRows
    BY <1>2, RowWritten DEF claim, table, Statuses
<1>4. PICK a \in {"check", "except_unbound"} :
          worker' = [worker EXCEPT ![w] = [worker[w] EXCEPT !.at = a]]
    BY DEF claim
<1> QED BY <1>1, <1>3, <1>4, WorkerGoesOn DEF WorkerAt, WorkerPre

LEMMA CheckStep ==
    ASSUME IInv, NEW w \in Workers, check_claim(w)
    PROVE  IInv'
<1>1. /\ worker[w].at = "check" /\ (fault \/ UNCHANGED faults)
      /\ UNCHANGED <<call, rows, started, queue, scheduled, due, pc, answer, cancelling, scheduler,
                     completed, lost>>
    BY DEF check_claim, table, redis, api
<1>2. TableType' /\ SameRows
    BY <1>1 DEF IInv, Types, TableType, SameRows
<1>3. lost' \subseteq Requests
    BY <1>1 DEF IInv, Types, PastType
<1>4. CASE worker' = [worker EXCEPT ![w] = Idle]
    BY <1>1, <1>2, <1>3, <1>4, WorkerStops
<1>5. CASE \E a \in {"execute", "except_unbound"} :
               worker' = [worker EXCEPT ![w] = [worker[w] EXCEPT !.at = a]]
    BY <1>1, <1>2, <1>5, WorkerGoesOn DEF WorkerAt, WorkerPre
<1> QED BY <1>4, <1>5 DEF check_claim

\* The result uses up the token of the worker.
LEMMA WorkDoneStep ==
    ASSUME IInv, NEW w \in Workers, work_done(w)
    PROVE  IInv'
<1>1. /\ worker[w].at = "execute" /\ (fault \/ UNCHANGED faults)
      /\ UNCHANGED <<call, started, queue, scheduled, due, pc, answer, cancelling, scheduler, lost>>
    BY DEF work_done, redis, api
<1>2. PICK j \in Requests : j = worker[w].job /\ Inserted(j)
    BY <1>1, WorkerJob
<1>3. TableType' /\ SameRows
    BY <1>1, <1>2, RowWritten DEF work_done, Statuses
<1>4. PICK a \in {"publish", "except"} : worker' = [worker EXCEPT ![w] = [at |-> a, job |-> j]]
    <2>1. PICK b \in {"publish", "except"} :
              worker' = [worker EXCEPT ![w] = [worker[w] EXCEPT !.at = b]]
        BY DEF work_done
    <2>2. [worker[w] EXCEPT !.at = b] = [at |-> b, job |-> worker[w].job]
        BY WorkerJob, RecordAt DEF WorkerRecord
    <2> QED BY <1>2, <2>1, <2>2
<1>5. /\ worker'[w] = [at |-> a, job |-> j]
      /\ \A v \in Workers : v # w => worker'[v] = worker[v]
    BY <1>4 DEF IInv, Types, WorkerType
<1>6. /\ completed' \in [Requests -> Nat] /\ completed'[j] = completed[j] + 1
      /\ \A i \in Requests : i # j => completed'[i] = completed[i]
    BY <1>2 DEF work_done, IInv, Types, PastType
<1>7. TokensOK'
    <2>1. Has("worker", w, j)
        BY <1>1, <1>2 DEF Has, WorkerPre
    <2>2. \A k, x : Has(k, x, j) => k = "worker" /\ x = w
        BY <2>1 DEF IInv, TokensOK, TokenOK
    <2>3. ASSUME NEW k, NEW x, Has(k, x, j)' PROVE FALSE
        <3>1. ~(k = "worker" /\ x = w)
            BY <1>4, <1>5, <2>3 DEF Has, WorkerPre
        <3>2. Has(k, x, j)
            BY <1>1, <1>5, <2>3, <3>1 DEF Has
        <3> QED BY <2>2, <3>1, <3>2
    <2>4. ASSUME NEW i \in Requests, i # j, NEW k, NEW x, Has(k, x, i)'
          PROVE  Has(k, x, i)
        BY <1>1, <1>5, <2>4 DEF Has
    <2> QED BY <1>6, <2>1, <2>3, <2>4, TokenMoves
<1>8. Rows'
    <2>1. WorkersOK'
        <3>1. \A v \in Workers : worker'[v].at \notin {"idle", "dead"} => Inserted(worker'[v].job)
            BY <1>2, <1>5 DEF IInv, Rows, WorkersOK
        <3> QED BY <1>3, <3>1, RowsStay, WorkersKept
    <2>2. RequestsOK' /\ QueuesOK' /\ SchedulersOK' /\ KeysOK'
        BY <1>1, <1>3, RowsStay, RequestsKept, QueuesKept, SchedulersKept, KeysKept
           DEF IInv, Rows, SchedulersOK
    <2> QED BY <2>1, <2>2 DEF Rows
<1>9. Types'
    <2>1. RedisType' /\ lost' \subseteq Requests
        BY <1>1 DEF IInv, Types, RedisType, PastType
    <2> QED BY <1>1, <1>3, <1>4, <1>6, <2>1, WorkerTypes DEF IInv, WorkerAt
<1> QED BY <1>7, <1>8, <1>9 DEF IInv

LEMMA WorkRaisesStep ==
    ASSUME IInv, NEW w \in Workers, work_raises(w)
    PROVE  IInv'
<1>1. /\ worker[w].at = "execute"
      /\ worker' = [worker EXCEPT ![w] = [worker[w] EXCEPT !.at = "except"]]
      /\ UNCHANGED <<call, rows, started, queue, scheduled, due, pc, answer, cancelling, scheduler,
                     completed, lost, faults>>
    BY DEF work_raises, table, redis, api
<1>2. TableType' /\ SameRows
    BY <1>1 DEF IInv, Types, TableType, SameRows
<1> QED BY <1>1, <1>2, WorkerGoesOn DEF WorkerAt, WorkerPre

LEMMA PublishStep ==
    ASSUME IInv, NEW w \in Workers, publish(w)
    PROVE  IInv'
<1>1. /\ worker[w].at = "publish" /\ (fault \/ UNCHANGED faults)
      /\ UNCHANGED <<call, rows, started, queue, scheduled, due, pc, answer, cancelling, scheduler,
                     completed, lost>>
    BY DEF publish, table, redis, api
<1>2. TableType' /\ SameRows
    BY <1>1 DEF IInv, Types, TableType, SameRows
<1>3. lost' \subseteq Requests
    BY <1>1 DEF IInv, Types, PastType
<1>4. CASE worker' = [worker EXCEPT ![w] = Idle]
    BY <1>1, <1>2, <1>3, <1>4, WorkerStops
<1>5. CASE worker' = [worker EXCEPT ![w] = [worker[w] EXCEPT !.at = "except"]]
    BY <1>1, <1>2, <1>5, WorkerGoesOn DEF WorkerAt, WorkerPre
<1> QED BY <1>4, <1>5 DEF publish

LEMMA WorkExceptStep ==
    ASSUME IInv, NEW w \in Workers, work_except(w)
    PROVE  IInv'
<1>1. /\ worker[w].at \in {"except", "except_unbound"} /\ (fault \/ UNCHANGED faults)
      /\ UNCHANGED <<call, started, queue, scheduled, due, pc, answer, cancelling, scheduler,
                     completed>>
    BY DEF work_except, redis, api
<1>2. Inserted(worker[w].job) /\ worker[w].job \in Requests
    BY <1>1, WorkerJob
<1>3. TableType' /\ SameRows
    BY <1>1, <1>2, RowWritten DEF work_except, Statuses
<1>4. lost' \subseteq Requests
    BY <1>2 DEF work_except, IInv, Types, PastType
<1>5. \E x \in {Idle, Dead} : worker' = [worker EXCEPT ![w] = x]
    BY DEF work_except
<1> QED BY <1>1, <1>3, <1>4, <1>5, WorkerStops

LEMMA WorkerCrashStep ==
    ASSUME IInv, NEW w \in Workers, worker_crash(w) \/ worker_restart(w)
    PROVE  IInv'
<1>1. /\ fault \/ UNCHANGED faults
      /\ UNCHANGED <<call, rows, started, queue, scheduled, due, pc, answer, cancelling, scheduler,
                     completed>>
    BY DEF worker_crash, worker_restart, table, redis, api
<1>2. TableType' /\ SameRows
    BY <1>1 DEF IInv, Types, TableType, SameRows
<1>3. lost' \subseteq Requests
    BY WorkerJob DEF worker_crash, worker_restart, IInv, Types, PastType
<1>4. \E x \in {Idle, Dead} : worker' = [worker EXCEPT ![w] = x]
    BY DEF worker_crash, worker_restart
<1> QED BY <1>1, <1>2, <1>3, <1>4, WorkerStops
-----------------------------------------------------------------------------
(* The invariant.                                                            *)

LEMMA InitOK == Init => IInv
<1> SUFFICES ASSUME Init PROVE IInv
    OBVIOUS
<1>1. Types
    <2>1. TableType /\ RedisType /\ ApiType /\ PastType
        BY JobQueueAssumption DEF Init, TableType, RedisType, ApiType, PastType, Statuses, PcOf
    <2>2. Idle \in WorkerRecord /\ Idle \in SchedulerRecord
        BY DEF Idle, WorkerRecord, SchedulerRecord
    <2>3. WorkerType /\ SchedulerType
        BY <2>2 DEF Init, WorkerType, SchedulerType
    <2> QED BY <2>1, <2>3 DEF Types
<1>2. TokensOK
    <2> SUFFICES ASSUME NEW j \in Requests PROVE TokenOK(j)
        BY DEF TokensOK
    <2>1. \A k, x : Has(k, x, j) => k = "request" /\ x = j
        BY DEF Has, Init, Idle, WorkerPre
    <2>2. completed[j] = 0
        BY DEF Init
    <2> QED BY <2>1, <2>2 DEF TokenOK
<1>3. Rows
    <2>1. RequestsOK
        BY DEF Init, RequestsOK
    <2>2. QueuesOK /\ WorkersOK /\ SchedulersOK /\ KeysOK
        BY DEF Init, QueuesOK, WorkersOK, SchedulersOK, KeysOK, Idle
    <2> QED BY <2>1, <2>2 DEF Rows
<1> QED BY <1>1, <1>2, <1>3 DEF IInv

LEMMA StutterOK == IInv /\ UNCHANGED vars => IInv'
<1> SUFFICES ASSUME IInv, UNCHANGED vars PROVE IInv'
    OBVIOUS
<1>1. UNCHANGED <<call, rows, started, queue, scheduled, due, pc, answer, worker, scheduler,
                  cancelling, completed, lost, faults>>
    BY DEF vars, table, redis, api
<1>2. Types'
    BY <1>1 DEF IInv, Types, TableType, RedisType, ApiType, WorkerType, SchedulerType, PastType
<1>3. TokensOK'
    BY <1>1, NoGain, PassesKeeps DEF IInv
<1>4. SameRows
    BY <1>1 DEF SameRows
<1>5. Rows'
    BY <1>1, <1>4, RowsStay, RequestsKept, QueuesKept, WorkersKept, SchedulersKept, KeysKept
       DEF IInv, Rows, WorkersOK, SchedulersOK
<1> QED BY <1>2, <1>3, <1>5 DEF IInv

LEMMA StepOK == IInv /\ [Next]_vars => IInv'
<1> SUFFICES ASSUME IInv, Next \/ UNCHANGED vars PROVE IInv'
    OBVIOUS
<1>1. ASSUME NEW r \in Requests, RequestStep(r) PROVE IInv'
    BY <1>1, LookupStep, InsertStep, BumpStep, InlineClaimStep, InlineDoneStep, InlinePublishStep,
       InlineTimeoutStep, InlineRaisesStep, InlineExceptStep, EnqueueStep DEF RequestStep
<1>2. ASSUME NEW j \in Requests, cancel_read(j) \/ time_passes(j) PROVE IInv'
    BY <1>2, CancelReadStep, TimeStep
<1>3. ASSUME NEW s \in Schedulers, SchedulerStep(s) \/ scheduler_crash(s) PROVE IInv'
    BY <1>3, PeekStep, PopStep, ScheduleEnqueueStep, SchedulerCrashStep DEF SchedulerStep
<1>4. ASSUME NEW w \in Workers, WorkerStep(w) \/ worker_crash(w) PROVE IInv'
    BY <1>4, DequeueStep, ReadStep, PathClaimStep, ClaimStep, CheckStep, WorkDoneStep,
       WorkRaisesStep, PublishStep, WorkExceptStep, WorkerCrashStep DEF WorkerStep
<1> QED BY <1>1, <1>2, <1>3, <1>4, CancelUpdateStep, ApiCrashStep, StutterOK DEF Next

LEMMA Invariance == Spec => []IInv
<1>1. Init => IInv
    BY InitOK
<1>2. IInv /\ [Next]_vars => IInv'
    BY StepOK
<1> QED BY <1>1, <1>2, PTL DEF Spec

-----------------------------------------------------------------------------
(* The theorems.                                                             *)

\* Every variable keeps its type.
THEOREM TypeOKHolds == Spec => []TypeOK
<1>1. IInv => TypeOK
    BY DEF IInv, Types, TableType, RedisType, ApiType, WorkerType, SchedulerType, PastType, TypeOK,
           PcOf, WorkerRecord, SchedulerRecord
<1> QED BY <1>1, Invariance, PTL

\* Those who execute a job have its token: there is at most one.
LEMMA OneExecutor ==
    ASSUME IInv, NEW j \in Requests
    PROVE  /\ \A x, y \in Executors(j) : x = y
           /\ Executors(j) # {} => completed[j] = 0
           /\ completed[j] \in 0..1
<1>1. \A x \in Executors(j) : \E k : Has(k, x, j) /\ (k = "request" \/ k = "worker")
    <2>1. ASSUME NEW x \in Executors(j), x \in Requests, x = j, pc[x] = "execute"
          PROVE  Has("request", x, j)
        BY <2>1 DEF Has, Pre
    <2>2. ASSUME NEW x \in Executors(j), x \in Workers, worker[x].at = "execute", worker[x].job = j
          PROVE  Has("worker", x, j)
        BY <2>2 DEF Has, WorkerPre
    <2> QED BY <2>1, <2>2 DEF Executors
<1>2. TokenOK(j) /\ completed[j] \in Nat
    BY DEF IInv, TokensOK, Types, PastType
<1>3. \A x, y \in Executors(j) : x = y
    BY <1>1, <1>2 DEF TokenOK
<1>4. Executors(j) # {} => completed[j] = 0
    BY <1>1, <1>2 DEF TokenOK
<1>5. completed[j] \in 0..1
    BY <1>2 DEF TokenOK
<1> QED BY <1>3, <1>4, <1>5

\* A job is executed by one at a time, and not again after a result.
THEOREM RunsOnceHolds == Spec => []RunsOnce
<1>1. IInv => RunsOnce
    <2> SUFFICES ASSUME IInv, NEW j \in Requests
                 PROVE  Cardinality(Executors(j)) + completed[j] <= 1
        BY DEF RunsOnce
    <2>1. CASE Executors(j) = {}
        <3>1. Cardinality(Executors(j)) = 0
            BY <2>1, FS_EmptySet
        <3> QED BY <3>1, OneExecutor
    <2>2. CASE Executors(j) # {}
        <3>1. PICK x \in Executors(j) : Executors(j) = {x}
            BY <2>2, OneExecutor
        <3>2. Cardinality({x}) = 1
            BY FS_Singleton
        <3> QED BY <2>2, <3>1, <3>2, OneExecutor
    <2> QED BY <2>1, <2>2
<1> QED BY <1>1, Invariance, PTL

\* An idempotency key has one job, and all callers are given that one.
THEOREM KeyNamesOneJobHolds == Spec => []KeyNamesOneJob
<1>1. IInv => KeyNamesOneJob
    <2> SUFFICES ASSUME IInv, NEW r \in Requests, NEW q \in Requests,
                        call[r].key = call[q].key, call[r].key # NoKey
                 PROVE  /\ rows[r] # "none" /\ rows[q] # "none" => r = q
                        /\ answer[r] # NoJob /\ answer[q] # NoJob => answer[r] = answer[q]
                        /\ answer[r] # NoJob => call[answer[r]].hash = call[r].hash
        BY DEF KeyNamesOneJob
    <2>1. \A p \in Requests : answer[p] # NoJob => Inserted(answer[p])
        BY DEF IInv, Rows, RequestsOK
    <2>2. \A p \in {r, q} : answer[p] # NoJob => /\ call[answer[p]].key = call[p].key
                                                 /\ call[answer[p]].hash = call[p].hash
        BY DEF IInv, Rows, RequestsOK
    <2>3. \A a, b : Inserted(a) /\ Inserted(b) /\ call[a].key = call[b].key /\ call[a].key # NoKey
                        => a = b
        BY DEF IInv, Rows, KeysOK, Inserted
    <2>4. rows[r] # "none" /\ rows[q] # "none" => r = q
        BY <2>3 DEF Inserted
    <2>5. answer[r] # NoJob /\ answer[q] # NoJob => answer[r] = answer[q]
        BY <2>1, <2>2, <2>3
    <2> QED BY <2>2, <2>4, <2>5
<1> QED BY <1>1, Invariance, PTL
-----------------------------------------------------------------------------
(* Cancellations.                                                            *)

\* Before its insert a request has no row, so no insert overwrites one; and only a
\* fast request is executed by the API.
StageOK(r) ==
    /\ pc[r] \in {"lookup", "insert"} => rows[r] = "none"
    /\ pc[r] \in {"inline", "execute", "publish", "except"} => call[r].kind = "fast"
StagesOK == \A r \in Requests : StageOK(r)

\* The steps of one request.
LEMMA RequestStages ==
    ASSUME IInv, StagesOK, NEW r \in Requests, RequestStep(r) PROVE StagesOK'
<1>1. /\ rows \in [Requests -> Statuses] /\ pc \in [Requests -> PcOf]
      /\ \A q \in Requests : StageOK(q)
    BY DEF IInv, Types, TableType, ApiType, StagesOK
<1> USE DEF StageOK, StagesOK, At, table, api, redis
<1>2. CASE lookup(r) BY <1>1, <1>2 DEF lookup, answer_existing
<1>3. CASE insert(r) BY <1>1, <1>3 DEF insert, answer_existing
<1>4. CASE bump_usage(r) BY <1>1, <1>4 DEF bump_usage
<1>5. CASE inline_claim(r) BY <1>1, <1>5 DEF inline_claim
<1>6. CASE inline_done(r) BY <1>1, <1>6 DEF inline_done
<1>7. CASE inline_publish(r) BY <1>1, <1>7 DEF inline_publish
<1>8. CASE inline_timeout(r) BY <1>1, <1>8 DEF inline_timeout
<1>9. CASE inline_raises(r) BY <1>1, <1>9 DEF inline_raises
<1>10. CASE inline_except(r) BY <1>1, <1>10 DEF inline_except
<1>11. CASE enqueue(r) BY <1>1, <1>11 DEF enqueue
<1> QED BY <1>2, <1>3, <1>4, <1>5, <1>6, <1>7, <1>8, <1>9, <1>10, <1>11 DEF RequestStep

\* A step that leaves the requests alone and makes no row leaves them at their stage.
LEMMA StagesKept ==
    ASSUME StagesOK, UNCHANGED <<call, pc>>, \A j \in Requests : rows[j] = "none" => rows'[j] = "none"
    PROVE  StagesOK'
BY DEF StagesOK, StageOK

\* The steps of a worker: it writes only rows that are there.
LEMMA WorkerStages ==
    ASSUME IInv, StagesOK, NEW w \in Workers, WorkerStep(w) \/ worker_crash(w) PROVE StagesOK'
<1>1. /\ rows \in [Requests -> Statuses]
      /\ worker[w].at \notin {"idle", "dead"} =>
             worker[w].job \in Requests /\ rows[worker[w].job] # "none"
    BY DEF IInv, Types, TableType, Rows, WorkersOK, Inserted
<1>2. UNCHANGED <<call, pc>>
    BY DEF WorkerStep, dequeue, read, path_claim, claim, check_claim, work_done, work_raises,
           publish, work_except, worker_restart, worker_crash, api
<1>3. \A j \in Requests : rows[j] = "none" => rows'[j] = "none"
    <2>1. CASE \/ dequeue(w) \/ read(w) \/ check_claim(w) \/ work_raises(w) \/ publish(w)
               \/ worker_restart(w) \/ worker_crash(w)
        BY <2>1 DEF dequeue, read, check_claim, work_raises, publish, worker_restart,
                    worker_crash, table
    <2>2. CASE path_claim(w) BY <1>1, <2>2 DEF path_claim, table
    <2>3. CASE claim(w) BY <1>1, <2>3 DEF claim, table
    <2>4. CASE work_done(w) BY <1>1, <2>4 DEF work_done
    <2>5. CASE work_except(w) BY <1>1, <2>5 DEF work_except
    <2> QED BY <2>1, <2>2, <2>3, <2>4, <2>5 DEF WorkerStep
<1> QED BY <1>2, <1>3, StagesKept

\* So does every other step.
LEMMA StagesStep == ASSUME IInv, StagesOK, [Next]_vars PROVE StagesOK'
<1>1. ASSUME NEW j \in Requests, cancel_read(j) \/ time_passes(j) PROVE StagesOK'
    <2>1. UNCHANGED <<call, pc, rows>> BY <1>1 DEF cancel_read, time_passes, table, api
    <2> QED BY <2>1, StagesKept
<1>2. CASE cancel_update
    <2>1. UNCHANGED <<call, pc>> BY <1>2 DEF cancel_update, api
    <2>2. Inserted(cancelling) /\ rows \in [Requests -> Statuses]
        BY <1>2 DEF cancel_update, IInv, Rows, RequestsOK, Types, TableType
    <2>3. \A j \in Requests : rows[j] = "none" => rows'[j] = "none"
        BY <1>2, <2>2 DEF cancel_update, Inserted
    <2> QED BY <2>1, <2>3, StagesKept
<1>3. CASE api_crash
    <2>1. /\ UNCHANGED <<call, rows>>
          /\ \A r \in Requests : pc'[r] = pc[r] \/ pc'[r] = "error"
        BY <1>3 DEF api_crash, table
    <2> QED BY <2>1 DEF StagesOK, StageOK
<1>4. ASSUME NEW s \in Schedulers, SchedulerStep(s) \/ scheduler_crash(s) PROVE StagesOK'
    <2>1. UNCHANGED <<call, pc, rows>>
        BY <1>4 DEF SchedulerStep, peek, pop_due_scheduled, schedule_enqueue, scheduler_restart,
                    scheduler_crash, table, api
    <2> QED BY <2>1, StagesKept
<1>5. CASE UNCHANGED vars
    <2>1. UNCHANGED <<call, pc, rows>> BY <1>5 DEF vars, table, api
    <2> QED BY <2>1, StagesKept
<1> QED BY <1>1, <1>2, <1>3, <1>4, <1>5, RequestStages, WorkerStages DEF Next

\* Who could write the row of a cancelled job or execute it is committed to it; a
\* worker that is about to claim it finds that it is not queued.
LEMMA CancelledStep ==
    ASSUME IInv, StagesOK, [Next]_vars, NEW j \in Requests, rows[j] = "cancelled", ~Committed(j)
    PROVE  rows'[j] = "cancelled" /\ Executors(j)' = {}
<1>1. /\ rows \in [Requests -> Statuses] /\ pc \in [Requests -> PcOf]
      /\ worker \in [Workers -> WorkerRecord]
    BY DEF IInv, Types, TableType, ApiType, WorkerType
<1>2. pc[j] \notin {"lookup", "insert", "inline", "execute", "publish", "except"}
      /\ (pc[j] = "bump" => call[j].kind # "fast")
    BY DEF StagesOK, StageOK, Committed
<1>3. \A w \in Workers : worker[w].job = j =>
          worker[w].at \notin {"execute", "publish", "except", "except_unbound"}
    BY DEF Committed
<1> DEFINE Stays == rows'[j] = "cancelled"
           Rests == pc'[j] # "execute"
           Leaves == \A w \in Workers : ~(worker'[w].at = "execute" /\ worker'[w].job = j)
<1>0. SUFFICES Stays /\ Rests /\ Leaves BY DEF Executors
<1>4. ASSUME NEW r \in Requests, RequestStep(r) PROVE Stays /\ Rests /\ Leaves
    <2>1. UNCHANGED worker
        BY <1>4 DEF RequestStep, lookup, insert, bump_usage, inline_claim, inline_done,
                    inline_publish, inline_timeout, inline_raises, inline_except, enqueue
    <2>2. Leaves BY <1>3, <2>1
    <2> USE DEF At, table, api
    <2>3. CASE lookup(r) \/ insert(r)
        <3>1. r # j BY <1>2, <2>3 DEF lookup, insert
        <3> QED BY <1>1, <1>2, <2>2, <2>3, <3>1 DEF lookup, insert, answer_existing
    <2>4. CASE bump_usage(r) BY <1>1, <1>2, <2>2, <2>4 DEF bump_usage
    <2>5. CASE enqueue(r) BY <1>1, <1>2, <2>2, <2>5 DEF enqueue
    <2>6. CASE inline_claim(r)
        <3>1. r # j BY <1>2, <2>6 DEF inline_claim
        <3> QED BY <1>1, <1>2, <2>2, <2>6, <3>1 DEF inline_claim
    <2>7. CASE inline_done(r) \/ inline_publish(r) \/ inline_timeout(r)
        <3>1. r # j BY <1>2, <2>7 DEF inline_done, inline_publish, inline_timeout
        <3> QED BY <1>1, <1>2, <2>2, <2>7, <3>1 DEF inline_done, inline_publish, inline_timeout
    <2>8. CASE inline_raises(r) \/ inline_except(r)
        <3>1. r # j BY <1>2, <2>8 DEF inline_raises, inline_except
        <3> QED BY <1>1, <1>2, <2>2, <2>8, <3>1 DEF inline_raises, inline_except
    <2> QED BY <1>4, <2>3, <2>4, <2>5, <2>6, <2>7, <2>8 DEF RequestStep
<1>5. ASSUME NEW i \in Requests, cancel_read(i) \/ time_passes(i) PROVE Stays /\ Rests /\ Leaves
    BY <1>2, <1>3, <1>5 DEF cancel_read, time_passes, table, api
<1>6. CASE cancel_update
    <2>1. UNCHANGED <<pc, worker>> /\ (rows' = [rows EXCEPT ![cancelling] = "cancelled"] \/ rows' = rows)
        BY <1>6 DEF cancel_update, api
    <2>2. Stays BY <1>1, <2>1
    <2>3. Rests BY <1>2, <2>1
    <2>4. Leaves BY <1>3, <2>1
    <2> QED BY <2>2, <2>3, <2>4
<1>7. CASE api_crash
    <2>1. UNCHANGED <<rows, worker>> /\ (pc'[j] = pc[j] \/ pc'[j] = "error")
        BY <1>7 DEF api_crash, table
    <2>2. Stays BY <2>1
    <2>3. Rests BY <1>2, <2>1
    <2>4. Leaves BY <1>3, <2>1
    <2> QED BY <2>2, <2>3, <2>4
<1>8. ASSUME NEW s \in Schedulers, SchedulerStep(s) \/ scheduler_crash(s)
      PROVE  Stays /\ Rests /\ Leaves
    <2>1. UNCHANGED <<rows, pc, worker>>
        BY <1>8 DEF SchedulerStep, peek, pop_due_scheduled, schedule_enqueue, scheduler_restart,
                    scheduler_crash, table, api
    <2> QED BY <1>2, <1>3, <2>1
<1>9. ASSUME NEW w \in Workers, WorkerStep(w) \/ worker_crash(w) PROVE Stays /\ Rests /\ Leaves
    <2>1. UNCHANGED pc
        BY <1>9 DEF WorkerStep, dequeue, read, path_claim, claim, check_claim, work_done,
                    work_raises, publish, work_except, worker_restart, worker_crash, api
    <2>2. \A v \in Workers \ {w} : worker'[v] = worker[v]
        BY <1>1, <1>9 DEF WorkerStep, dequeue, read, path_claim, claim, check_claim, work_done,
                    work_raises, publish, work_except, worker_restart, worker_crash
    <2>3. worker[w] \in WorkerRecord BY <1>1
    <2> USE DEF table, Idle, Dead
    <2>4. CASE \/ dequeue(w) \/ worker_restart(w) \/ worker_crash(w)
        BY <1>1, <1>2, <1>3, <2>1, <2>2, <2>4 DEF dequeue, worker_restart, worker_crash
    <2>5. CASE read(w) BY <1>1, <1>2, <1>3, <2>1, <2>2, <2>3, <2>5 DEF read, WorkerRecord
    <2>6. CASE path_claim(w) BY <1>1, <1>2, <1>3, <2>1, <2>2, <2>6 DEF path_claim
    <2>7. CASE claim(w) BY <1>1, <1>2, <1>3, <2>1, <2>2, <2>3, <2>7 DEF claim, WorkerRecord
    <2>8. CASE check_claim(w)
        BY <1>1, <1>2, <1>3, <2>1, <2>2, <2>3, <2>8 DEF check_claim, WorkerRecord
    <2>9. CASE work_done(w) \/ work_raises(w) \/ publish(w) \/ work_except(w)
        <3>1. worker[w].job # j BY <1>3, <2>9 DEF work_done, work_raises, publish, work_except
        <3>2. rows'[j] = rows[j]
            BY <1>1, <2>9, <3>1 DEF work_done, work_raises, publish, work_except
        <3>3. worker'[w].at # "execute"
            BY <1>1, <2>3, <2>9 DEF work_done, work_raises, publish, work_except, WorkerRecord
        <3> QED BY <1>2, <1>3, <2>1, <2>2, <3>2, <3>3
    <2> QED BY <1>9, <2>4, <2>5, <2>6, <2>7, <2>8, <2>9 DEF WorkerStep
<1>10. CASE UNCHANGED vars
    <2>1. UNCHANGED <<rows, pc, worker>> BY <1>10 DEF vars, table, api
    <2> QED BY <1>2, <1>3, <2>1
<1> HIDE DEF Stays, Rests, Leaves
<1> QED BY <1>4, <1>5, <1>6, <1>7, <1>8, <1>9, <1>10 DEF Next

\* A cancelled job that nobody is executing stays cancelled and is not run: not by
\* the item it left in the queue, not by a worker that has read "queued", not by a
\* timeout or a scheduler that enqueues it afterwards, whatever fails.
THEOREM CancelledStaysHolds == Spec => CancelledStays
<1>1. Init => StagesOK BY DEF Init, StagesOK, StageOK
<1>2. IInv /\ StagesOK /\ [Next]_vars => StagesOK' BY StagesStep
<1>3. IInv /\ StagesOK /\ [Next]_vars =>
          [\A j \in Requests : rows[j] = "cancelled" /\ ~Committed(j) =>
               rows'[j] = "cancelled" /\ Executors(j)' = {}]_vars
    BY CancelledStep
<1> QED BY <1>1, <1>2, <1>3, Invariance, PTL DEF Spec, CancelledStays
=============================================================================
