------------------------- MODULE ActionRouterProofs -------------------------
(* ExecutedOnce and OneDecision of ActionRouter, for any number of handlers   *)
(* and invocations.                                                          *)
EXTENDS ActionRouter, TLAPS

\* A kept result stands for one execution, and only that.
KeptOnce == executions = IF outcome = "none" THEN 0 ELSE 1

\* The entry is one of the registrations, and only an entry can be late; a handler that waits for the
\* orchestrator has a registration of the saga flow in hand.
RegsOK ==
    /\ regs \in Seq(Registration) /\ current \in 0..Len(regs)
    /\ current = 0 => ~late
    /\ mine \in [Handlers -> 0..Len(regs)]
HandsOK ==
    \A h \in Handlers :
        /\ pc[h] = "saga" => mine[h] # 0
        /\ mine[h] # 0 => regs[mine[h]].saga
Places == {"idle", "get", "reserve", "resume", "saga", "mark", "store", "answered"}
PlacesOK == pc \in [Handlers -> Places]

\* Outside the saga flow the entry has not been decided yet.
EntryOpen == current # 0 /\ ~regs[current].saga => regs[current].decisions = <<>>

IInv == PlacesOK /\ RegsOK /\ HandsOK /\ EntryOpen /\ OneDecision

-----------------------------------------------------------------------------
(* ExecutedOnce.                                                             *)

LEMMA GetOrExecute ==
    ASSUME KeptOnce, get_or_execute
    PROVE  KeptOnce'
BY DEF KeptOnce, get_or_execute, executor

LEMMA KeptInit == Init => KeptOnce
BY DEF Init, KeptOnce

LEMMA KeptStep == KeptOnce /\ [Next]_vars => KeptOnce'
<1> SUFFICES ASSUME KeptOnce, [Next]_vars PROVE KeptOnce'
    OBVIOUS
<1> USE DEF executor, vars
<1>1. CASE UNCHANGED vars
    BY <1>1 DEF KeptOnce
<1>2. CASE Router
    <2> UNCHANGED executor
        BY <1>2 DEF Router, execute_action, deadline_passes, expire_pending_confirmation,
            expire_cancelled, publish_start, attach_saga_id, tray_expires
    <2> QED BY DEF KeptOnce
<1>3. ASSUME NEW h \in Handlers, api_request(h) \/ Handler(h)
      PROVE  KeptOnce'
    <2>1. CASE confirm_traditional(h) \/ confirm_fallback(h)
        <3> get_or_execute BY <2>1 DEF confirm_traditional, confirm_fallback, execute_now
        <3> QED BY GetOrExecute
    <2>2. CASE ~confirm_traditional(h) /\ ~confirm_fallback(h)
        <3> UNCHANGED executor
            BY <1>3, <2>2 DEF Handler, Resume, api_request, api_get, api_reserve,
                resume_not_found, resume_expired, resume_rejected, confirm_saga, saga_resumed,
                saga_raised, mark_pending_status, api_store
        <3> QED BY DEF KeptOnce
    <2> QED BY <2>1, <2>2
<1> QED BY <1>1, <1>2, <1>3 DEF Next

\* The executor runs at most once for an action, whatever is invoked, confirmed
\* and declined (RedisIdempotencyManager behind _execute_now).
THEOREM ExecutedOnceHolds == Spec => []ExecutedOnce
<1>1. KeptOnce => ExecutedOnce
    BY DEF KeptOnce, ExecutedOnce
<1> QED BY <1>1, KeptInit, KeptStep, PTL DEF Spec

-----------------------------------------------------------------------------
(* OneDecision.                                                              *)

LEMMA DecisionsOnly ==
    ASSUME NEW x \in Registration, NEW ds
    PROVE  [x EXCEPT !.decisions = ds] = [saga |-> x.saga, decisions |-> ds]
<1>1. x \in [saga : BOOLEAN, decisions : Seq(Decision)]
    BY DEF Registration
<1> QED BY <1>1

\* A decision is added to one registration, and no registration changes its flow.
LEMMA DecideEffect ==
    ASSUME RegsOK, NEW r \in 1..Len(regs), NEW d \in Decision, Decide(r, d)
    PROVE  /\ regs' \in Seq(Registration) /\ Len(regs') = Len(regs)
           /\ \A i \in 1..Len(regs) : regs'[i].saga = regs[i].saga
           /\ \A i \in 1..Len(regs) : i # r => regs'[i] = regs[i]
           /\ regs'[r].decisions = Append(regs[r].decisions, d)
<1> DEFINE e == [saga |-> regs[r].saga, decisions |-> Append(regs[r].decisions, d)]
<1>1. regs \in Seq(Registration) /\ regs[r] \in Registration
    BY DEF RegsOK
<1>2. regs[r].decisions \in Seq(Decision)
    BY <1>1 DEF Registration
<1>3. Append(regs[r].decisions, d) \in Seq(Decision)
    BY <1>2
<1>4. e \in Registration
    BY <1>1, <1>3 DEF Registration
<1>5. regs' = [regs EXCEPT ![r] = e]
    <2>1. [regs[r] EXCEPT !.decisions = Append(regs[r].decisions, d)] = e
        BY <1>1, DecisionsOnly
    <2>2. regs' = [regs EXCEPT ![r] = [regs[r] EXCEPT !.decisions = Append(regs[r].decisions, d)]]
        BY DEF Decide
    <2> QED BY <2>1, <2>2
<1> HIDE DEF e
<1>6. regs' \in Seq(Registration) /\ Len(regs') = Len(regs)
    BY <1>1, <1>4, <1>5
<1>7. regs'[r] = e /\ \A i \in 1..Len(regs) : i # r => regs'[i] = regs[i]
    BY <1>1, <1>5
<1>8. e.saga = regs[r].saga /\ e.decisions = Append(regs[r].decisions, d)
    BY DEF e
<1> QED BY <1>6, <1>7, <1>8

\* The entry is decided and cleared.
LEMMA SettleStep ==
    ASSUME IInv, current # 0, NEW d \in Decision, Decide(current, d), Clear,
           mine' = mine, PlacesOK', \A h \in Handlers : pc'[h] = "saga" => pc[h] = "saga"
    PROVE  IInv'
<1>1. current \in 1..Len(regs)
    BY DEF IInv, RegsOK
<1>2. /\ regs' \in Seq(Registration) /\ Len(regs') = Len(regs)
      /\ \A i \in 1..Len(regs) : regs'[i].saga = regs[i].saga
      /\ \A i \in 1..Len(regs) : i # current => regs'[i] = regs[i]
      /\ regs'[current].decisions = Append(regs[current].decisions, d)
    BY <1>1, DecideEffect DEF IInv
<1>3. RegsOK'
    BY <1>2 DEF IInv, RegsOK, Clear
<1>4. HandsOK'
    BY <1>2 DEF IInv, RegsOK, HandsOK
<1>5. EntryOpen'
    BY DEF EntryOpen, Clear
<1>6. OneDecision'
    <2> SUFFICES ASSUME NEW i \in 1..Len(regs), ~regs[i].saga
                 PROVE  Len(regs'[i].decisions) <= 1
        BY <1>2 DEF OneDecision
    <2>1. CASE i # current
        BY <2>1, <1>2 DEF IInv, OneDecision
    <2>2. CASE i = current
        <3>1. regs[current].decisions = <<>>
            BY <2>2 DEF IInv, EntryOpen
        <3> QED BY <3>1, <2>2, <1>2
    <2> QED BY <2>1, <2>2
<1> QED BY <1>3, <1>4, <1>5, <1>6 DEF IInv

\* A step that decides nothing and registers nothing.
LEMMA QuietStep ==
    ASSUME IInv, UNCHANGED <<regs, current>>, PlacesOK', RegsOK', HandsOK'
    PROVE  IInv'
BY DEF IInv, RegsOK, EntryOpen, OneDecision

LEMMA IInvInit == Init => IInv
BY DEF Init, IInv, PlacesOK, Places, RegsOK, HandsOK, EntryOpen, OneDecision

LEMMA RegisterStep == IInv /\ execute_action => IInv'
<1> SUFFICES ASSUME IInv, execute_action PROVE IInv'
    OBVIOUS
<1>1. PICK s \in Modes : regs' = Append(regs, [saga |-> s, decisions |-> <<>>])
    BY DEF execute_action
<1>2. [saga |-> s, decisions |-> <<>>] \in Registration
    BY RouterAssumption DEF Registration
<1>3. /\ regs' \in Seq(Registration) /\ Len(regs') = Len(regs) + 1
      /\ regs'[Len(regs) + 1] = [saga |-> s, decisions |-> <<>>]
      /\ \A i \in 1..Len(regs) : regs'[i] = regs[i]
    BY <1>1, <1>2 DEF IInv, RegsOK
<1>4. current' = Len(regs) + 1 /\ late' = FALSE /\ pc' = pc /\ mine' = mine
    BY DEF execute_action, locals
<1>5. RegsOK'
    BY <1>3, <1>4 DEF IInv, RegsOK
<1>6. HandsOK'
    BY <1>3, <1>4 DEF IInv, RegsOK, HandsOK
<1>7. EntryOpen'
    BY <1>3, <1>4 DEF EntryOpen
<1>8. OneDecision'
    BY <1>3, SMTT(20) DEF IInv, RegsOK, OneDecision
<1>9. PlacesOK'
    BY <1>4 DEF IInv, PlacesOK
<1> QED BY <1>5, <1>6, <1>7, <1>8, <1>9 DEF IInv

\* The orchestrator has resumed the saga of a registration, which may be no
\* longer the one that waits.
LEMMA ResumedStep ==
    ASSUME IInv, NEW h \in Handlers, saga_resumed(h)
    PROVE  IInv'
<1>1. mine[h] \in 1..Len(regs) /\ regs[mine[h]].saga
    BY DEF IInv, RegsOK, HandsOK, saga_resumed, At
<1>2. /\ regs' \in Seq(Registration) /\ Len(regs') = Len(regs)
      /\ \A i \in 1..Len(regs) : regs'[i].saga = regs[i].saga
      /\ \A i \in 1..Len(regs) : i # mine[h] => regs'[i] = regs[i]
    BY <1>1, DecideEffect DEF IInv, saga_resumed, Decision
<1>3. /\ current' = 0 /\ late' = FALSE /\ mine' = [mine EXCEPT ![h] = 0]
      /\ \A g \in Handlers : pc'[g] = "saga" => pc[g] = "saga" /\ g # h
    <2>1. pc' = [pc EXCEPT ![h] = "mark"]
        BY DEF saga_resumed, Answer, Goto
    <2> QED BY <2>1 DEF IInv, PlacesOK, saga_resumed, Clear
<1>4. RegsOK'
    BY <1>2, <1>3 DEF IInv, RegsOK
<1>5. HandsOK'
    BY <1>2, <1>3 DEF IInv, RegsOK, HandsOK
<1>6. EntryOpen'
    BY <1>3 DEF EntryOpen
<1>7. OneDecision'
    BY <1>1, <1>2 DEF IInv, OneDecision
<1>8. PlacesOK'
    BY DEF IInv, PlacesOK, Places, saga_resumed, Answer, Goto
<1> QED BY <1>4, <1>5, <1>6, <1>7, <1>8 DEF IInv

\* A handler that goes to p, which is not "saga", and keeps its hands.
LEMMA MoveStep ==
    ASSUME PlacesOK, NEW h \in Handlers, NEW p \in Places, Goto(h, p), p # "saga"
    PROVE  PlacesOK' /\ \A g \in Handlers : pc'[g] = "saga" => pc[g] = "saga"
BY DEF PlacesOK, Goto

LEMMA RouterStep == IInv /\ Router => IInv'
<1> SUFFICES ASSUME IInv, Router PROVE IInv'
    OBVIOUS
<1>1. CASE execute_action
    BY <1>1, RegisterStep
<1>2. CASE expire_pending_confirmation
    <2>1. UNCHANGED locals
        BY <1>2 DEF expire_pending_confirmation
    <2>2. PlacesOK' /\ mine' = mine /\ pc' = pc
        BY <2>1 DEF locals, IInv, PlacesOK
    <2>3. CASE late /\ current # 0
        <3>1. Clear /\ Decide(current, "expired")
            BY <1>2, <2>3 DEF expire_pending_confirmation
        <3> QED BY <2>2, <2>3, <3>1, SettleStep DEF Decision
    <2>4. CASE ~late
        <3>1. UNCHANGED <<regs, current, late>>
            BY <1>2, <2>4 DEF expire_pending_confirmation
        <3> QED BY <2>2, <3>1, QuietStep DEF IInv, RegsOK, HandsOK
    <2> QED BY <2>3, <2>4 DEF IInv, RegsOK
<1>3. CASE deadline_passes
    BY <1>3, QuietStep DEF deadline_passes, IInv, PlacesOK, RegsOK, HandsOK, locals
<1>4. CASE UNCHANGED <<regs, current, late, locals>>
    BY <1>4, QuietStep DEF IInv, PlacesOK, RegsOK, HandsOK, locals
<1> QED BY <1>1, <1>2, <1>3, <1>4 DEF Router, expire_cancelled, publish_start,
           attach_saga_id, tray_expires, memory

\* The answers that decide the entry and clear it.
LEMMA DecidingStep ==
    ASSUME IInv, NEW h \in Handlers,
           \/ resume_expired(h) \/ resume_rejected(h)
           \/ confirm_traditional(h) \/ confirm_fallback(h)
    PROVE  IInv'
<1>1. current # 0 /\ Clear /\ mine' = mine
    BY DEF resume_expired, resume_rejected, confirm_traditional, confirm_fallback, Approved
<1>2. \E p \in {"mark", "store"} : Goto(h, p)
    BY DEF resume_expired, resume_rejected, confirm_traditional, confirm_fallback,
           execute_now, Answer
<1>3. PlacesOK' /\ \A g \in Handlers : pc'[g] = "saga" => pc[g] = "saga"
    BY <1>2, MoveStep DEF IInv, Places
<1>4. \E d \in Decision : Decide(current, d)
    BY DEF resume_expired, resume_rejected, confirm_traditional, confirm_fallback, Decision
<1> QED BY <1>1, <1>3, <1>4, SettleStep

LEMMA HandlerStep ==
    ASSUME IInv, NEW h \in Handlers, api_request(h) \/ Handler(h)
    PROVE  IInv'
<1>1. CASE \/ resume_expired(h) \/ resume_rejected(h)
           \/ confirm_traditional(h) \/ confirm_fallback(h)
    BY <1>1, DecidingStep
<1>2. CASE saga_resumed(h)
    BY <1>2, ResumedStep
<1>3. CASE confirm_saga(h)
    <2>1. UNCHANGED <<regs, current, late>>
        BY <1>3 DEF confirm_saga, memory
    <2>2. current \in 1..Len(regs) /\ regs[current].saga
        BY <1>3 DEF confirm_saga, Approved, IInv, RegsOK
    <2>3. mine' = [mine EXCEPT ![h] = current] /\ pc' = [pc EXCEPT ![h] = "saga"]
        BY <1>3 DEF confirm_saga, Goto
    <2>4. PlacesOK' /\ RegsOK'
        BY <2>1, <2>2, <2>3 DEF IInv, PlacesOK, Places, RegsOK
    <2>5. HandsOK'
        BY <2>1, <2>2, <2>3 DEF IInv, PlacesOK, RegsOK, HandsOK
    <2> QED BY <2>1, <2>4, <2>5, QuietStep
<1>4. CASE saga_raised(h)
    <2>1. UNCHANGED <<regs, current, late>>
        BY <1>4 DEF saga_raised, memory
    <2>2. mine' = [mine EXCEPT ![h] = 0] /\ pc' = [pc EXCEPT ![h] = "store"]
        BY <1>4 DEF saga_raised, Answer, Goto
    <2>3. PlacesOK' /\ RegsOK'
        BY <2>1, <2>2 DEF IInv, PlacesOK, Places, RegsOK
    <2>4. HandsOK'
        BY <2>1, <2>2 DEF IInv, PlacesOK, RegsOK, HandsOK
    <2> QED BY <2>1, <2>3, <2>4, QuietStep
<1>5. CASE \/ api_request(h) \/ api_get(h) \/ api_reserve(h) \/ resume_not_found(h)
           \/ mark_pending_status(h) \/ api_store(h)
    <2>1. UNCHANGED <<regs, current, late, mine>>
        BY <1>5 DEF memory, api_request, api_get, api_reserve, resume_not_found,
            mark_pending_status, api_store
    <2>2. \E p \in Places \ {"saga"} : Goto(h, p)
        BY <1>5 DEF Places, Answer, api_request, api_get, api_reserve, resume_not_found,
            mark_pending_status, api_store
    <2>3. PlacesOK' /\ \A g \in Handlers : pc'[g] = "saga" => pc[g] = "saga"
        BY <2>2, MoveStep DEF IInv
    <2>4. RegsOK' /\ HandsOK'
        BY <2>1, <2>3 DEF IInv, RegsOK, HandsOK
    <2> QED BY <2>1, <2>3, <2>4, QuietStep
<1> QED BY <1>1, <1>2, <1>3, <1>4, <1>5 DEF Handler, Resume

LEMMA IInvStep == IInv /\ [Next]_vars => IInv'
<1> SUFFICES ASSUME IInv, [Next]_vars PROVE IInv'
    OBVIOUS
<1>1. CASE UNCHANGED vars
    BY <1>1, QuietStep DEF vars, memory, locals, IInv, PlacesOK, RegsOK, HandsOK
<1>2. CASE Next
    BY <1>2, RouterStep, HandlerStep DEF Next
<1> QED BY <1>1, <1>2

\* A confirmation outside the saga flow is decided once, whatever requests,
\* timeouts and invocations cross.
THEOREM OneDecisionHolds == Spec => []OneDecision
<1>1. IInv => OneDecision
    BY DEF IInv
<1> QED BY <1>1, IInvInit, IInvStep, PTL DEF Spec

-----------------------------------------------------------------------------
(* The shape of the state.                                                   *)

Progress == {"publish", "attach", "done"}

\* TypeOK without what IInv says.
EntryShape ==
    /\ Len(regs) <= MaxInvokes /\ timer \in 0..current
    /\ saga_id \in BOOLEAN /\ late \in BOOLEAN /\ spent \in BOOLEAN /\ expiring \in Nat
StarterShape ==
    /\ starts \in Seq(Progress) /\ Len(starts) = Len(regs) /\ started_id \in BOOLEAN
OutcomeShape == executions \in Nat /\ outcome \in {"none", "success", "failed"}
AnswerShape ==
    /\ tray \in Tray /\ status \in {"none", "PENDING", "DONE"} /\ result \in Verdict
    /\ want \in [Handlers -> {"confirm", "cancel"}] /\ verdict \in [Handlers -> Verdict]
\* What goes to the tray is a status of the tray.
MarksShape == \A h \in Handlers : pc[h] = "mark" => MarkOf(verdict[h]) \in Tray
Shape == EntryShape /\ StarterShape /\ OutcomeShape /\ AnswerShape /\ MarksShape

LEMMA SameLength ==
    ASSUME IInv, [Next]_vars, ~execute_action
    PROVE  Len(regs') = Len(regs)
<1>1. CASE UNCHANGED regs
    BY <1>1
<1>2. CASE \E r \in 1..Len(regs), d \in Decision : Decide(r, d)
    BY <1>2, DecideEffect DEF IInv
<1>3. current # 0 => current \in 1..Len(regs)
    BY DEF IInv, RegsOK
<1>4. CASE expire_pending_confirmation
    <2>1. late => current # 0
        BY DEF IInv, RegsOK
    <2> QED BY <1>1, <1>2, <1>3, <1>4, <2>1 DEF expire_pending_confirmation, Decision
<1>5. ASSUME NEW h \in Handlers,
             \/ resume_expired(h) \/ resume_rejected(h)
             \/ confirm_traditional(h) \/ confirm_fallback(h)
      PROVE  Len(regs') = Len(regs)
    <2>1. current # 0 /\ \E d \in Decision : Decide(current, d)
        BY <1>5 DEF resume_expired, resume_rejected, confirm_traditional, confirm_fallback,
                    Approved, Decision
    <2> QED BY <1>2, <1>3, <2>1
<1>6. ASSUME NEW h \in Handlers, saga_resumed(h)
      PROVE  Len(regs') = Len(regs)
    <2>1. mine[h] \in 1..Len(regs)
        BY <1>6 DEF IInv, RegsOK, HandsOK, saga_resumed, At
    <2>2. Decide(mine[h], "confirmed")
        BY <1>6 DEF saga_resumed
    <2> QED BY <1>2, <2>1, <2>2 DEF Decision
<1>7. ASSUME NEW h \in Handlers,
             \/ api_request(h) \/ api_get(h) \/ api_reserve(h) \/ resume_not_found(h)
             \/ confirm_saga(h) \/ saga_raised(h) \/ mark_pending_status(h) \/ api_store(h)
      PROVE  UNCHANGED regs
    BY <1>7 DEF api_request, api_get, api_reserve, resume_not_found, confirm_saga,
                saga_raised, mark_pending_status, api_store, memory
<1>8. CASE Router
    BY <1>1, <1>4, <1>8 DEF Router, deadline_passes, expire_cancelled, publish_start,
       attach_saga_id, tray_expires, memory
<1>9. CASE UNCHANGED vars
    BY <1>1, <1>9 DEF vars, memory
<1> QED BY <1>1, <1>5, <1>6, <1>7, <1>8, <1>9 DEF Next, Handler, Resume

LEMMA EntryStep ==
    ASSUME IInv, EntryShape, [Next]_vars
    PROVE  EntryShape'
<1>1. current \in 0..Len(regs) /\ Len(regs) \in Nat
    BY DEF IInv, RegsOK
<1>2. CASE execute_action
    <2>1. Len(regs') = Len(regs) + 1
        <3>1. PICK s \in Modes : regs' = Append(regs, [saga |-> s, decisions |-> <<>>])
            BY <1>2 DEF execute_action
        <3>2. [saga |-> s, decisions |-> <<>>] \in Registration
            BY RouterAssumption DEF Registration
        <3> QED BY <3>1, <3>2 DEF IInv, RegsOK
    <2>2. timer' \in 0..current'
        BY <1>1, <1>2 DEF EntryShape, execute_action
    <2>3. saga_id' = FALSE /\ late' = FALSE /\ UNCHANGED <<spent, expiring>>
        BY <1>2 DEF execute_action
    <2>4. saga_id' \in BOOLEAN /\ late' \in BOOLEAN /\ spent' \in BOOLEAN /\ expiring' \in Nat
        BY <2>3, Zenon DEF EntryShape
    <2>5. Len(regs') <= MaxInvokes
        BY <1>1, <1>2, <2>1, RouterAssumption DEF execute_action
    <2> QED BY <2>2, <2>4, <2>5 DEF EntryShape
<1>3. CASE ~execute_action
    <2>1. Len(regs') = Len(regs)
        BY <1>3, SameLength
    <2>2. CASE Clear /\ (expiring' = expiring \/ expiring' = expiring + 1)
        <3>1. saga_id' \in BOOLEAN /\ late' \in BOOLEAN /\ spent' \in BOOLEAN
            BY <2>2, Zenon DEF Clear
        <3>2. expiring' \in Nat
            BY <2>2 DEF EntryShape
        <3>3. timer' \in 0..current'
            BY <2>2 DEF Clear
        <3>4. Len(regs') <= MaxInvokes
            BY <2>1 DEF EntryShape
        <3> QED BY <3>1, <3>2, <3>3, <3>4 DEF EntryShape
    <2>3. CASE /\ UNCHANGED <<current, timer>>
               /\ saga_id' \in BOOLEAN /\ late' \in BOOLEAN /\ spent' \in BOOLEAN
               /\ expiring' \in Nat
        BY <2>1, <2>3 DEF EntryShape
    <2>4. CASE UNCHANGED memory
        BY <2>3, <2>4 DEF memory, EntryShape
    <2>5. CASE UNCHANGED vars
        BY <2>4, <2>5 DEF vars
    <2>6. CASE Router
        <3>1. CASE deadline_passes
            BY <2>3, <3>1 DEF deadline_passes, EntryShape
        <3>2. CASE expire_pending_confirmation
            BY <2>2, <2>3, <3>2 DEF expire_pending_confirmation, EntryShape
        <3>3. CASE expire_cancelled
            BY <2>3, <3>3 DEF expire_cancelled, EntryShape
        <3>4. CASE \E r \in 1..Len(regs) : publish_start(r)
            BY <2>4, <3>4 DEF publish_start
        <3>5. CASE \E r \in 1..Len(regs) : attach_saga_id(r)
            BY <2>3, <3>5 DEF attach_saga_id, EntryShape
        <3>6. CASE tray_expires
            BY <2>4, <3>6 DEF tray_expires
        <3> QED BY <1>3, <2>6, <3>1, <3>2, <3>3, <3>4, <3>5, <3>6 DEF Router
    <2>7. ASSUME NEW h \in Handlers, api_request(h) \/ Handler(h)
          PROVE  EntryShape'
        <3>1. CASE \/ resume_expired(h) \/ resume_rejected(h) \/ confirm_traditional(h)
                   \/ confirm_fallback(h) \/ saga_resumed(h)
            BY <2>2, <3>1 DEF resume_expired, resume_rejected, confirm_traditional,
                              confirm_fallback, saga_resumed
        <3>2. CASE \/ api_request(h) \/ api_get(h) \/ api_reserve(h) \/ resume_not_found(h)
                   \/ confirm_saga(h) \/ saga_raised(h) \/ mark_pending_status(h)
                   \/ api_store(h)
            BY <2>4, <3>2 DEF api_request, api_get, api_reserve, resume_not_found,
                              confirm_saga, saga_raised, mark_pending_status, api_store
        <3> QED BY <2>7, <3>1, <3>2 DEF Handler, Resume
    <2> QED BY <2>5, <2>6, <2>7 DEF Next
<1> QED BY <1>2, <1>3

LEMMA StarterStep ==
    ASSUME IInv, StarterShape, [Next]_vars
    PROVE  StarterShape'
<1>1. CASE execute_action
    <2>1. PICK s \in Modes :
              /\ regs' = Append(regs, [saga |-> s, decisions |-> <<>>])
              /\ starts' = Append(starts, IF s THEN "publish" ELSE "done")
              /\ started_id' = (started_id /\ ~s)
        BY <1>1 DEF execute_action
    <2>2. s \in BOOLEAN
        BY RouterAssumption
    <2>3. [saga |-> s, decisions |-> <<>>] \in Registration
        BY <2>2 DEF Registration
    <2>4. Len(regs') = Len(regs) + 1
        BY <2>1, <2>3 DEF IInv, RegsOK
    <2>5. (IF s THEN "publish" ELSE "done") \in Progress
        BY DEF Progress
    <2>6. starts' \in Seq(Progress) /\ Len(starts') = Len(starts) + 1
        BY <2>1, <2>5 DEF StarterShape
    <2>7. started_id' \in BOOLEAN
        BY <2>1
    <2> QED BY <2>4, <2>6, <2>7 DEF StarterShape
<1>2. ASSUME ~execute_action, NEW r \in 1..Len(regs), publish_start(r) \/ attach_saga_id(r)
      PROVE  StarterShape'
    <2>1. Len(regs') = Len(regs)
        BY <1>2, SameLength
    <2>2. PICK x \in Progress : starts' = [starts EXCEPT ![r] = x]
        BY <1>2 DEF publish_start, attach_saga_id, Progress
    <2>3. starts' \in Seq(Progress) /\ Len(starts') = Len(starts)
        BY <2>2 DEF StarterShape
    <2>4. started_id' \in BOOLEAN
        BY <1>2 DEF publish_start, attach_saga_id, StarterShape
    <2> QED BY <2>1, <2>3, <2>4 DEF StarterShape
<1>3. CASE ~execute_action /\ UNCHANGED starter
    <2>1. Len(regs') = Len(regs)
        BY <1>3, SameLength
    <2> QED BY <1>3, <2>1 DEF StarterShape, starter
<1>4. CASE UNCHANGED vars
    BY <1>4, <1>1, <1>3 DEF vars
<1>5. CASE Router
    BY <1>1, <1>2, <1>3, <1>5 DEF Router, deadline_passes, expire_pending_confirmation,
       expire_cancelled, tray_expires
<1>6. ASSUME NEW h \in Handlers, api_request(h) \/ Handler(h)
      PROVE  UNCHANGED starter
    BY <1>6 DEF Handler, Resume, api_request, api_get, api_reserve, resume_not_found,
       resume_expired, resume_rejected, confirm_traditional, confirm_fallback, confirm_saga,
       saga_resumed, saga_raised, mark_pending_status, api_store
<1> QED BY <1>1, <1>3, <1>4, <1>5, <1>6 DEF Next

LEMMA AnswerType ==
    ASSUME AnswerShape, NEW h \in Handlers, NEW p, NEW v \in Verdict, Answer(h, p, v)
    PROVE  /\ want' \in [Handlers -> {"confirm", "cancel"}]
           /\ verdict' \in [Handlers -> Verdict]
BY DEF AnswerShape, Answer

LEMMA OutcomeStep ==
    ASSUME OutcomeShape, [Next]_vars
    PROVE  OutcomeShape'
<1>1. CASE UNCHANGED executor
    BY <1>1 DEF executor, OutcomeShape
<1>2. CASE get_or_execute
    BY <1>1, <1>2 DEF get_or_execute, OutcomeShape
<1>3. CASE UNCHANGED vars
    BY <1>1, <1>3 DEF vars
<1>4. CASE Router
    BY <1>1, <1>4 DEF Router, execute_action, deadline_passes, expire_pending_confirmation,
       expire_cancelled, publish_start, attach_saga_id, tray_expires
<1>5. ASSUME NEW h \in Handlers, api_request(h) \/ Handler(h)
      PROVE  UNCHANGED executor \/ get_or_execute
    BY <1>5 DEF Handler, Resume, api_request, api_get, api_reserve, resume_not_found,
       resume_expired, resume_rejected, confirm_traditional, confirm_fallback, confirm_saga,
       saga_resumed, saga_raised, mark_pending_status, api_store, execute_now
<1> QED BY <1>1, <1>2, <1>3, <1>4, <1>5 DEF Next

LEMMA AnswerStep ==
    ASSUME AnswerShape, MarksShape, OutcomeShape', [Next]_vars
    PROVE  AnswerShape'
<1>1. CASE UNCHANGED vars
    BY <1>1 DEF vars, redis, locals, AnswerShape
<1>2. CASE Router
    BY <1>2 DEF Router, execute_action, deadline_passes, expire_pending_confirmation,
       expire_cancelled, publish_start, attach_saga_id, tray_expires, redis, locals,
       AnswerShape, Tray
<1>3. ASSUME NEW h \in Handlers, api_request(h) \/ Handler(h)
      PROVE  AnswerShape'
    <2>1. CASE api_request(h) \/ api_get(h) \/ api_reserve(h) \/ confirm_saga(h)
        BY <2>1 DEF api_request, api_get, api_reserve, confirm_saga, redis, AnswerShape
    <2>2. CASE \/ resume_not_found(h) \/ resume_expired(h) \/ saga_resumed(h)
               \/ saga_raised(h)
        <3>1. UNCHANGED redis /\ \E p : \E v \in Verdict : Answer(h, p, v)
            BY <2>2 DEF resume_not_found, resume_expired, saga_resumed, saga_raised, Verdict
        <3> QED BY <3>1, AnswerType DEF AnswerShape, redis
    <2>3. CASE resume_rejected(h)
        <3>1. UNCHANGED <<status, result>> /\ (tray' = tray \/ tray' = "rejected")
            BY <2>3 DEF resume_rejected
        <3>2. \E p : \E v \in Verdict : Answer(h, p, v)
            BY <2>3 DEF resume_rejected, Verdict
        <3> QED BY <3>1, <3>2, AnswerType DEF AnswerShape, Tray
    <2>4. CASE confirm_traditional(h) \/ confirm_fallback(h)
        <3>1. outcome' \in Verdict
            BY DEF OutcomeShape, Verdict
        <3>2. \E p : Answer(h, p, outcome')
            BY <2>4 DEF confirm_traditional, confirm_fallback, execute_now
        <3>3. UNCHANGED <<status, result>> /\ (tray' = tray \/ tray' = "confirmed")
            BY <2>4 DEF confirm_traditional, confirm_fallback, redis
        <3> QED BY <3>1, <3>2, <3>3, AnswerType DEF AnswerShape, Tray
    <2>5. CASE mark_pending_status(h)
        <3>1. tray' \in Tray
            BY <2>5 DEF mark_pending_status, MarksShape, At
        <3> QED BY <2>5, <3>1 DEF mark_pending_status, AnswerShape
    <2>6. CASE api_store(h)
        BY <2>6 DEF api_store, AnswerShape
    <2> QED BY <1>3, <2>1, <2>2, <2>3, <2>4, <2>5, <2>6 DEF Handler, Resume
<1> QED BY <1>1, <1>2, <1>3 DEF Next

LEMMA MarksGoto ==
    ASSUME PlacesOK, MarksShape, NEW h \in Handlers, NEW p, Goto(h, p), verdict' = verdict,
           p # "mark"
    PROVE  MarksShape'
BY DEF PlacesOK, MarksShape, Goto

LEMMA MarksAnswer ==
    ASSUME PlacesOK, AnswerShape, MarksShape, NEW h \in Handlers, NEW p, NEW v, Answer(h, p, v),
           p = "mark" => MarkOf(v) \in Tray
    PROVE  MarksShape'
BY DEF PlacesOK, AnswerShape, MarksShape, Answer, Goto

LEMMA MarksStep ==
    ASSUME IInv, AnswerShape, MarksShape, OutcomeShape, [Next]_vars
    PROVE  MarksShape'
<1>1. CASE UNCHANGED locals
    BY <1>1 DEF locals, MarksShape
<1>2. CASE Router
    BY <1>1, <1>2 DEF Router, execute_action, deadline_passes, expire_pending_confirmation,
       expire_cancelled, publish_start, attach_saga_id, tray_expires
<1>3. ASSUME NEW h \in Handlers, api_request(h) \/ Handler(h)
      PROVE  MarksShape'
    <2>1. CASE \/ api_request(h) \/ api_get(h) \/ api_reserve(h) \/ confirm_saga(h)
               \/ mark_pending_status(h) \/ api_store(h)
        <3>1. verdict' = verdict
            BY <2>1 DEF api_request, api_get, api_reserve, confirm_saga, mark_pending_status,
                        api_store
        <3>2. \E p \in Places \ {"mark"} : Goto(h, p)
            BY <2>1 DEF api_request, api_get, api_reserve, confirm_saga, mark_pending_status,
                        api_store, Places
        <3> QED BY <3>1, <3>2, MarksGoto DEF IInv
    <2>2. CASE resume_not_found(h) \/ saga_raised(h)
        <3>1. \E v : Answer(h, "store", v)
            BY <2>2 DEF resume_not_found, saga_raised
        <3> QED BY <3>1, MarksAnswer DEF IInv
    <2>3. CASE resume_expired(h) \/ saga_resumed(h) \/ resume_rejected(h)
        <3>1. \E p : \E v \in {"expired", "success", "rejected"} : Answer(h, p, v)
            BY <2>3 DEF resume_expired, saga_resumed, resume_rejected
        <3>2. \A v \in {"expired", "success", "rejected"} : MarkOf(v) \in Tray
            BY DEF MarkOf, Tray
        <3> QED BY <3>1, <3>2, MarksAnswer DEF IInv
    <2>4. CASE confirm_traditional(h) \/ confirm_fallback(h)
        <3>1. get_or_execute /\ \E p : Answer(h, p, outcome')
            BY <2>4 DEF confirm_traditional, confirm_fallback, execute_now
        <3>2. outcome' \in {"success", "failed"}
            BY <3>1 DEF get_or_execute, OutcomeShape, executor
        <3>3. MarkOf(outcome') \in Tray
            BY <3>2 DEF MarkOf, Tray
        <3> QED BY <3>1, <3>3, MarksAnswer DEF IInv
    <2> QED BY <1>3, <2>1, <2>2, <2>3, <2>4 DEF Handler, Resume
<1>4. CASE UNCHANGED vars
    BY <1>1, <1>4 DEF vars
<1> QED BY <1>2, <1>3, <1>4 DEF Next

LEMMA ShapeInit == Init => Shape
<1> SUFFICES ASSUME Init PROVE Shape
    OBVIOUS
<1>1. EntryShape
    <2>1. Len(regs) <= MaxInvokes /\ timer \in 0..current /\ expiring \in Nat
        BY RouterAssumption DEF Init
    <2>2. saga_id \in BOOLEAN /\ late \in BOOLEAN /\ spent \in BOOLEAN
        BY Zenon DEF Init
    <2> QED BY <2>1, <2>2 DEF EntryShape
<1>2. StarterShape
    <2>1. starts \in Seq(Progress) /\ Len(starts) = Len(regs)
        BY DEF Init
    <2>2. started_id \in BOOLEAN
        BY Zenon DEF Init
    <2> QED BY <2>1, <2>2 DEF StarterShape
<1>3. OutcomeShape /\ AnswerShape /\ MarksShape
    BY DEF Init, OutcomeShape, AnswerShape, MarksShape, Tray, Verdict
<1> QED BY <1>1, <1>2, <1>3 DEF Shape

\* The shape of the state, for any number of handlers and invocations; a handler
\* leaves only statuses of the tray in the tray.
THEOREM TypeOKHolds == Spec => []TypeOK
<1>1. IInv /\ Shape /\ [Next]_vars => Shape'
    BY EntryStep, StarterStep, OutcomeStep, AnswerStep, MarksStep DEF Shape
<1>2. IInv /\ Shape => TypeOK
    <2> SUFFICES ASSUME IInv, Shape PROVE TypeOK
        OBVIOUS
    <2>1. starts \in [1..Len(regs) -> {"publish", "attach", "done"}]
        BY DEF Shape, StarterShape, Progress
    <2> QED BY <2>1 DEF Shape, EntryShape, StarterShape, OutcomeShape, AnswerShape, TypeOK,
               IInv, RegsOK, PlacesOK, Places
<1> QED BY <1>1, <1>2, IInvInit, IInvStep, ShapeInit, PTL DEF Spec
=============================================================================
