----------------------------- MODULE OrderSaga -----------------------------
(* The NeoEats order (core/realtime/sagas/flows/neoeats_order.py) as the step *)
(* plan that orchestrator.execute_step_plan runs, over the inventory ledger of *)
(* core/neoeats_blocks.py in PostgreSQL.  Every order is a coroutine of its    *)
(* own; what orders share are the lots, whose rows a transaction locks from    *)
(* its UPDATE to its end.  Recovery only ever sees the empty step list that    *)
(* the IN_PROGRESS write has stored, so it finds nothing to compensate.        *)
EXTENDS Integers, Sequences, FiniteSetsExt

CONSTANTS
    Orders,         \* the orders, each with its saga and at most one reservation
    Items,          \* inventory_item
    Lots,           \* inventory_lot
    ItemOf,         \* the item of a lot
    Expiry,         \* lots are taken in the order of expires_at, created_at
    Stock,          \* quantity_total of a lot
    Initial,        \* the lots there are from the start
    Carts,          \* the item lists of orders: [item, lot, quantity]
    Custom,         \* item_id "custom_ai_dish": nothing to reserve
    AnyLot,         \* the order names no lot
    NoOrder,        \* no transaction holds the row
    MaxFaults,      \* bound on the database errors
    MaxCrashes,     \* bound on the crashes of a process
    MaxRecoveries   \* bound on the interventions of recovery

ASSUME OrderAssumption ==
    /\ ItemOf \in [Lots -> Items] /\ Expiry \in [Lots -> Nat] /\ Stock \in [Lots -> Nat]
    /\ Initial \subseteq Lots /\ NoOrder \notin Orders
    /\ Custom \notin Items /\ AnyLot \notin Lots
    /\ Carts \subseteq Seq([item : Items \cup {Custom}, lot : Lots \cup {AnyLot}, quantity : Nat])
    /\ IsFiniteSet(Orders)
    /\ MaxFaults \in Nat /\ MaxCrashes \in Nat /\ MaxRecoveries \in Nat

VARIABLES
    row,            \* sagas.state of the order
    cart,           \* the items of the order
    available,      \* lot: quantity_available
    total,          \* lot: quantity_total, 0 before the lot is there
    lock,           \* lot: the order whose transaction has updated the row
    resv,           \* inventory_reservation.status, or "none"
    lines,          \* inventory_reservation_line: lot -> quantity
    posted,         \* the receipt and the journal entry are there
    pc,             \* order: the await its coroutine is at
    at,             \* order: position in the item list
    pick,           \* order: lot_id of the item
    tx,             \* order: what the open transaction has changed per lot
    todo,           \* order: lots the release has still to update
    done,           \* order: Len(executed_steps)
    rec,            \* order: what recovery has done: selected its row, written
                    \* COMPENSATING
    hurt,           \* history: the orders whose reservation nobody knows of or
                    \* gives back, because of a crash, the lost answer to its
                    \* COMMIT, or an error in FAILED's write or in the release
    faults, crashes, recoveries

ledger == <<available, total, lock, resv, lines, posted>>
coroutine == <<pc, at, pick, tx, todo, done>>
vars == <<row, cart, ledger, coroutine, rec, hurt, faults, crashes, recoveries>>

Pc == {"idle", "resolve", "select", "update", "commit_tx", "charge", "accounting",
       "commit", "finish", "fail", "fail_again", "undo", "release", "end", "dead"}
Row == {"none", "in_progress", "compensating", "failed", "succeeded"}

\* The first and the third step of the plan; all steps are done at 5.
Reserved == 1
Billed == 3
Accounted == 4
Committed == 5

NoLots == [l \in Lots |-> 0]

Init ==
    /\ row = [o \in Orders |-> "none"]
    /\ cart = [o \in Orders |-> <<>>]
    /\ available = [l \in Lots |-> IF l \in Initial THEN Stock[l] ELSE 0]
    /\ total = available
    /\ lock = [l \in Lots |-> NoOrder]
    /\ resv = [o \in Orders |-> "none"]
    /\ lines = [o \in Orders |-> NoLots]
    /\ posted = [o \in Orders |-> FALSE]
    /\ pc = [o \in Orders |-> "idle"]
    /\ at = [o \in Orders |-> 0]
    /\ pick = [o \in Orders |-> AnyLot]
    /\ tx = [o \in Orders |-> NoLots]
    /\ todo = [o \in Orders |-> {}]
    /\ done = [o \in Orders |-> 0]
    /\ rec = [o \in Orders |-> "none"]
    /\ hurt = {}
    /\ faults = 0 /\ crashes = 0 /\ recoveries = 0

Goto(o, l) == pc' = [pc EXCEPT ![o] = l]

\* What a transaction of order o reads of a lot: the committed quantity less
\* what it has taken itself (READ COMMITTED).
Visible(o, l) == available[l] - tx[o][l]

Item(o) == cart[o][at[o]]

\* The positions of the items still to be reserved after position i: custom
\* dishes need no reservation.
Reservable(o, i) == {j \in DOMAIN cart[o] : j > i /\ cart[o][j].item # Custom}

-----------------------------------------------------------------------------
(* Transactions: async with db.transaction().                                *)

\* The block is left, by a COMMIT or, with an exception, by a ROLLBACK: the
\* transaction and its row locks are gone, and with it the locals of the block.
leave_keeps_locks(o) ==  \* Mutant: the row locks stay
    /\ tx' = [tx EXCEPT ![o] = NoLots]
    /\ todo' = [todo EXCEPT ![o] = {}]
    /\ at' = [at EXCEPT ![o] = 0] /\ pick' = [pick EXCEPT ![o] = AnyLot]
    /\ UNCHANGED lock
leave(o) ==
    /\ tx' = [tx EXCEPT ![o] = NoLots]
    /\ todo' = [todo EXCEPT ![o] = {}]
    /\ at' = [at EXCEPT ![o] = 0] /\ pick' = [pick EXCEPT ![o] = AnyLot]
    /\ lock' = [l \in Lots |-> IF lock[l] = o THEN NoOrder ELSE lock[l]]

InTransaction == {"select", "update", "commit_tx", "release"}

\* Where an exception in a step of the plan, in a compensation and in the write
\* of SUCCEEDED, or of FAILED, takes the coroutine.
Except(l) ==
    CASE l = "fail" -> "fail_again"
      [] l \in {"fail_again", "undo", "release"} -> "end"
      [] OTHER -> "fail"

\* The statement the coroutine waits for, or the COMMIT, raises: connection
\* lost, timeout, outage.  A failed statement rolls the transaction back.
db_error(o) ==
    /\ faults < MaxFaults /\ faults' = faults + 1
    /\ pc[o] \in {"resolve", "accounting", "commit", "finish", "fail", "fail_again",
                  "undo"} \cup InTransaction
    /\ hurt' = IF pc[o] \in {"fail", "undo", "release"} THEN hurt \cup {o} ELSE hurt
    /\ leave(o)
    /\ Goto(o, Except(pc[o]))
    /\ UNCHANGED <<row, cart, available, total, resv, lines, posted, done, rec,
                   crashes, recoveries>>

\* The answer to the COMMIT or UPDATE that ends step n comes, and the step is in
\* executed_steps; or it is lost, and the step has failed although the database
\* has done what it was asked.
answer(o, n, l) ==
    \/ /\ Goto(o, l) /\ done' = [done EXCEPT ![o] = n]
       /\ UNCHANGED <<hurt, faults>>
    \/ /\ faults < MaxFaults /\ faults' = faults + 1
       /\ hurt' = IF n = Reserved THEN hurt \cup {o} ELSE hurt
       /\ Goto(o, "fail") /\ UNCHANGED done

\* The orders in S wait for rows that other orders in S have locked.
Wants(o) ==
    CASE pc[o] = "update" -> {pick[o]}
      [] pc[o] = "release" -> todo[o]
      [] OTHER -> {}
Deadlocked(S) ==
    \A o \in S : /\ Wants(o) # {}
                 /\ \A l \in Wants(o) : lock[l] \in S \ {o}

\* PostgreSQL cancels one transaction of a deadlock.
deadlock_detected(o) ==
    /\ \E S \in SUBSET Orders : o \in S /\ Deadlocked(S)
    /\ leave(o)
    /\ hurt' = IF pc[o] = "release" THEN hurt \cup {o} ELSE hurt
    /\ Goto(o, Except(pc[o]))
    /\ UNCHANGED <<row, cart, available, total, resv, lines, posted, done, rec,
                   faults, crashes, recoveries>>

-----------------------------------------------------------------------------
(* start_saga has written the row; resolve_items.                             *)

init_order_saga(o) ==
    /\ pc[o] = "idle"
    /\ \E c \in Carts : cart' = [cart EXCEPT ![o] = c]
    /\ row' = [row EXCEPT ![o] = "in_progress"]
    /\ Goto(o, "resolve")
    /\ UNCHANGED <<ledger, at, pick, tx, todo, done, rec, hurt, faults, crashes, recoveries>>

\* Every quantity must be positive; an order of nothing but custom dishes skips
\* the reservation.
resolve_items(o) ==
    /\ pc[o] = "resolve"
    /\ LET items == Reservable(o, 0) IN
       IF \E i \in DOMAIN cart[o] : cart[o][i].quantity = 0
       THEN Goto(o, "fail") /\ UNCHANGED <<at, done>>
       ELSE IF items = {}
       THEN Goto(o, "charge") /\ done' = [done EXCEPT ![o] = Reserved] /\ UNCHANGED at
       ELSE Goto(o, "select") /\ at' = [at EXCEPT ![o] = Min(items)] /\ UNCHANGED done
    /\ UNCHANGED <<row, cart, ledger, pick, tx, todo, rec, hurt, faults, crashes, recoveries>>

-----------------------------------------------------------------------------
(* InventoryBlock, action "reserve".                                         *)

raise_in_transaction(o) == leave(o) /\ Goto(o, "fail")

\* SELECT ... ORDER BY expires_at, created_at LIMIT 1 unless the order names the
\* lot; is_active, which an administrator may clear, is not looked at.
reserve_select_unset(o) ==  \* Mutant: lot_id is not taken from the row
    /\ pc[o] = "select"
    /\ Goto(o, "update")
    /\ pick' = [pick EXCEPT ![o] = Item(o).lot]
    /\ UNCHANGED <<row, cart, available, total, lock, resv, lines, posted, at, tx,
                   todo, done, rec, hurt, faults, crashes, recoveries>>
reserve_select(o) ==
    /\ pc[o] = "select"
    /\ LET fits == {l \in Lots : /\ ItemOf[l] = Item(o).item /\ total[l] > 0
                                 /\ Visible(o, l) >= Item(o).quantity} IN
       \/ /\ Item(o).lot # AnyLot
          /\ pick' = [pick EXCEPT ![o] = Item(o).lot]
          /\ Goto(o, "update") /\ UNCHANGED <<tx, todo, lock, at>>
       \/ /\ Item(o).lot = AnyLot
          /\ \E l \in fits :
                /\ \A m \in fits : Expiry[l] <= Expiry[m]
                /\ pick' = [pick EXCEPT ![o] = l]
          /\ Goto(o, "update") /\ UNCHANGED <<tx, todo, lock, at>>
       \/ /\ Item(o).lot = AnyLot /\ fits = {}
          /\ raise_in_transaction(o)
    /\ UNCHANGED <<row, cart, available, total, resv, lines, posted, done, rec,
                   hurt, faults, crashes, recoveries>>

\* UPDATE ... WHERE quantity_available >= $1 once the row is free, then the line,
\* whose key (reservation, lot) allows a lot once per reservation.
Fits_unguarded(o, l) ==  \* Mutant: UPDATE without its condition
    tx[o][l] = 0
Fits(o, l) ==
    /\ Visible(o, l) >= Item(o).quantity
    /\ tx[o][l] = 0

reserve_update(o) ==
    /\ pc[o] = "update"
    /\ LET l == pick[o]
           rest == Reservable(o, at[o])
       IN
       /\ lock[l] \in {NoOrder, o}
       /\ \/ /\ Fits(o, l)
             /\ lock' = [lock EXCEPT ![l] = o]
             /\ tx' = [tx EXCEPT ![o][l] = Item(o).quantity]
             /\ IF rest = {}
                THEN Goto(o, "commit_tx") /\ UNCHANGED at
                ELSE Goto(o, "select") /\ at' = [at EXCEPT ![o] = Min(rest)]
             /\ UNCHANGED <<pick, todo>>
          \/ ~Fits(o, l) /\ raise_in_transaction(o)
    /\ UNCHANGED <<row, cart, available, total, resv, lines, posted, done, rec,
                   hurt, faults, crashes, recoveries>>

\* COMMIT.
reserve_commit(o) ==
    /\ pc[o] = "commit_tx"
    /\ available' = [l \in Lots |-> available[l] - tx[o][l]]
    /\ lines' = [lines EXCEPT ![o] = tx[o]]
    /\ resv' = [resv EXCEPT ![o] = "reserved"]
    /\ leave(o)
    /\ answer(o, Reserved, "charge")
    /\ UNCHANGED <<row, cart, total, posted, rec, crashes, recoveries>>

-----------------------------------------------------------------------------
(* The steps after it.                                                       *)

\* process_payment and billing touch nothing that is shared.
charge(o) ==
    /\ pc[o] = "charge"
    /\ done' = [done EXCEPT ![o] = Billed]
    /\ Goto(o, "accounting")
    /\ UNCHANGED <<row, cart, ledger, at, pick, tx, todo, rec, hurt, faults, crashes, recoveries>>

post_accounting(o) ==
    /\ pc[o] = "accounting"
    /\ posted' = [posted EXCEPT ![o] = TRUE]
    /\ answer(o, Accounted, "commit")
    /\ UNCHANGED <<row, cart, available, total, lock, resv, lines, at, pick, tx,
                   todo, rec, crashes, recoveries>>

commit_inventory_late(o) ==  \* Mutant: the step forgets InventoryBlock's commit
    /\ pc[o] = "commit"
    /\ done' = [done EXCEPT ![o] = Committed]
    /\ Goto(o, "finish")
    /\ UNCHANGED <<row, cart, ledger, at, pick, tx, todo, rec, hurt, faults, crashes, recoveries>>
commit_inventory(o) ==
    /\ pc[o] = "commit"
    /\ resv' = [resv EXCEPT ![o] = IF @ = "none" THEN @ ELSE "committed"]
    /\ answer(o, Committed, "finish")
    /\ UNCHANGED <<row, cart, available, total, lock, lines, posted, at, pick, tx,
                   todo, rec, crashes, recoveries>>

-----------------------------------------------------------------------------
(* execute_step_plan: the end of the plan.                                   *)

\* SUCCEEDED is written.
finish(o) ==
    /\ pc[o] = "finish"
    /\ row' = [row EXCEPT ![o] = "succeeded"]
    /\ answer(o, Committed, "end")
    /\ UNCHANGED <<cart, ledger, at, pick, tx, todo, rec, crashes, recoveries>>

\* FAILED is written before anything is compensated.
write_failed(o) ==
    /\ pc[o] = "fail"
    /\ row' = [row EXCEPT ![o] = "failed"]
    /\ Goto(o, "undo")
    /\ UNCHANGED <<cart, ledger, at, pick, tx, todo, done, rec, hurt, faults, crashes, recoveries>>

\* _run_saga catches what the write of FAILED has raised and writes it again;
\* the compensation is not run.
run_saga_failed(o) ==
    /\ pc[o] = "fail_again"
    /\ row' = [row EXCEPT ![o] = "failed"]
    /\ Goto(o, "end")
    /\ UNCHANGED <<cart, ledger, at, pick, tx, todo, done, rec, hurt, faults, crashes, recoveries>>

\* _run_step_compensation: of the executed steps only reserve_inventory has a
\* compensation, release_inventory, which reads the lines of the reservation.
run_step_compensation_last(o) ==  \* Mutant: only the last executed step is compensated
    /\ pc[o] = "undo"
    /\ IF done[o] = Reserved /\ resv[o] # "none"
       THEN /\ Goto(o, "release")
            /\ todo' = [todo EXCEPT ![o] = {l \in Lots : lines[o][l] > 0}]
       ELSE Goto(o, "end") /\ UNCHANGED todo
    /\ UNCHANGED <<row, cart, ledger, at, pick, tx, done, rec, hurt, faults, crashes, recoveries>>
run_step_compensation(o) ==
    /\ pc[o] = "undo"
    /\ IF done[o] >= Reserved /\ resv[o] # "none"
       THEN /\ Goto(o, "release")
            /\ todo' = [todo EXCEPT ![o] = {l \in Lots : lines[o][l] > 0}]
       ELSE Goto(o, "end") /\ UNCHANGED todo
    /\ UNCHANGED <<row, cart, ledger, at, pick, tx, done, rec, hurt, faults, crashes, recoveries>>

\* One UPDATE of the release per line, in the order the database returns them.
release_update(o) ==
    /\ pc[o] = "release"
    /\ \E l \in todo[o] :
          /\ lock[l] = NoOrder
          /\ lock' = [lock EXCEPT ![l] = o]
          /\ tx' = [tx EXCEPT ![o][l] = lines[o][l]]
          /\ todo' = [todo EXCEPT ![o] = @ \ {l}]
    /\ UNCHANGED <<row, cart, available, total, resv, lines, posted, pc, at, pick,
                   done, rec, hurt, faults, crashes, recoveries>>

release_commit_status_only(o) ==  \* Mutant: the lots do not get their quantity back
    /\ pc[o] = "release" /\ todo[o] = {}
    /\ resv' = [resv EXCEPT ![o] = "released"]
    /\ leave(o)
    /\ Goto(o, "end")
    /\ UNCHANGED <<row, cart, available, total, lines, posted, done, rec, hurt,
                   faults, crashes, recoveries>>
release_commit(o) ==
    /\ pc[o] = "release" /\ todo[o] = {}
    /\ available' = [l \in Lots |-> available[l] + tx[o][l]]
    /\ resv' = [resv EXCEPT ![o] = "released"]
    /\ leave(o)
    /\ Goto(o, "end")
    /\ UNCHANGED <<row, cart, total, lines, posted, done, rec, hurt, faults,
                   crashes, recoveries>>

-----------------------------------------------------------------------------
(* The surroundings.                                                         *)

\* The process dies; the database rolls its transaction back.
crash(o) ==
    /\ crashes < MaxCrashes /\ crashes' = crashes + 1
    /\ pc[o] \notin {"idle", "end", "dead"}
    /\ hurt' = hurt \cup {o}
    /\ leave(o)
    /\ Goto(o, "dead")
    /\ UNCHANGED <<row, cart, available, total, resv, lines, posted, done, rec,
                   faults, recoveries>>

\* recover_stuck_sagas_loop selects a row that has been in_progress for too long,
\* its coroutine dead or only slow.
recover(o) ==
    /\ row[o] = "in_progress" /\ rec[o] = "none"
    /\ recoveries < MaxRecoveries /\ recoveries' = recoveries + 1
    /\ rec' = [rec EXCEPT ![o] = "selected"]
    /\ UNCHANGED <<row, cart, ledger, coroutine, hurt, faults, crashes>>

\* The saga has expired and is compensated, whatever has become of the row since:
\* no step it lists has an adapter that could undo it.
recover_mark(o) ==
    /\ rec[o] = "selected"
    /\ row' = [row EXCEPT ![o] = "compensating"]
    /\ rec' = [rec EXCEPT ![o] = "marked"]
    /\ UNCHANGED <<cart, ledger, coroutine, hurt, faults, crashes, recoveries>>

\* No compensation results: the final state is FAILED.
recover_end(o) ==
    /\ rec[o] = "marked"
    /\ row' = [row EXCEPT ![o] = "failed"]
    /\ rec' = [rec EXCEPT ![o] = "none"]
    /\ UNCHANGED <<cart, ledger, coroutine, hurt, faults, crashes, recoveries>>

\* A new lot: VisionApplyUpdateBlock.
vision_apply_update(l) ==
    /\ total[l] = 0 /\ Stock[l] > 0
    /\ available' = [available EXCEPT ![l] = Stock[l]]
    /\ total' = [total EXCEPT ![l] = Stock[l]]
    /\ UNCHANGED <<row, cart, lock, resv, lines, posted, coroutine, rec, hurt,
                   faults, crashes, recoveries>>

\* The next step of the coroutine of an order.
Step(o) ==
    \/ resolve_items(o)
    \/ reserve_select(o)
    \/ reserve_update(o)
    \/ reserve_commit(o)
    \/ charge(o)
    \/ post_accounting(o)
    \/ commit_inventory(o)
    \/ finish(o)
    \/ write_failed(o)
    \/ run_saga_failed(o)
    \/ run_step_compensation(o)
    \/ release_update(o)
    \/ release_commit(o)
    \/ deadlock_detected(o)

Next ==
    \/ \E o \in Orders :
          \/ init_order_saga(o)
          \/ Step(o)
          \/ db_error(o)
          \/ crash(o)
          \/ recover(o)
          \/ recover_mark(o)
          \/ recover_end(o)
    \/ \E l \in Lots : vision_apply_update(l)

Spec == Init /\ [][Next]_vars

\* A coroutine of the event loop goes on, and a waiting transaction gets its row
\* or is cancelled; requests, faults, crashes and recovery need not happen.
LiveSpec == Spec /\ \A o \in Orders : WF_vars(Step(o)) /\ WF_vars(recover_mark(o) \/ recover_end(o))

-----------------------------------------------------------------------------
Entry == [item : Items \cup {Custom}, lot : Lots \cup {AnyLot}, quantity : Nat]
OrderTypes ==
    /\ row \in [Orders -> Row] /\ cart \in [Orders -> Seq(Entry)]
    /\ rec \in [Orders -> {"none", "selected", "marked"}] /\ hurt \subseteq Orders
LotTypes ==
    /\ available \in [Lots -> Int] /\ total \in [Lots -> Nat]
    /\ lock \in [Lots -> Orders \cup {NoOrder}]
ReservationTypes ==
    /\ resv \in [Orders -> {"none", "reserved", "committed", "released"}]
    /\ lines \in [Orders -> [Lots -> Nat]] /\ posted \in [Orders -> BOOLEAN]
PlanTypes == pc \in [Orders -> Pc] /\ done \in [Orders -> 0..Committed]
TransactionTypes ==
    /\ at \in [Orders -> Nat] /\ tx \in [Orders -> [Lots -> Nat]]
    /\ todo \in [Orders -> SUBSET Lots] /\ pick \in [Orders -> Lots \cup {AnyLot}]
    /\ \A o \in Orders : pc[o] = "update" => pick[o] \in Lots
CountTypes ==
    /\ faults \in 0..MaxFaults /\ crashes \in 0..MaxCrashes
    /\ recoveries \in 0..MaxRecoveries
TypeOK == OrderTypes /\ LotTypes /\ ReservationTypes /\ PlanTypes /\ TransactionTypes /\ CountTypes

Live == {"reserved", "committed"}
Holds(o, l) == IF resv[o] \in Live THEN lines[o][l] ELSE 0

\* The units of lot l that the live reservations hold, each with its order.
Units(l) == UNION {{o} \X (1..Holds(o, l)) : o \in Orders}

\* Whatever orders do at the same time, fail, deadlock or die: what a lot has
\* available and what the live reservations hold of it is what has been put in
\* (the UPDATEs of inventory_lot against inventory_reservation_line).
StockAddsUp ==
    \A l \in Lots : available[l] + Cardinality(Units(l)) = total[l]

\* No lot is sold twice: quantity_available never falls below zero, although
\* the SELECT that picks a lot and the UPDATE that takes it are two statements.
NoOversell == \A l \in Lots : available[l] >= 0

\* The transactions are atomic although other orders come between their statements:
\* each reservation takes all of its lots at once, of what is there, or none; each
\* release gives back at once all that was taken, and once (InventoryBlock.execute).
Ledger == INSTANCE Inventory
ImplementsInventory == Ledger!Spec

\* An order shown as succeeded has its stock committed and its receipt posted,
\* also where recovery, a lost answer or a failed write cross the runner.
SucceededIsCommitted ==
    \A o \in Orders :
        row[o] = "succeeded" => /\ posted[o]
                                /\ resv[o] = "committed" \/ Reservable(o, 0) = {}

\* Stock stays reserved for an order whose coroutine has ended only if the answer
\* to the COMMIT of the reservation was lost, or the write of FAILED or the release
\* itself has failed: after any other failure _run_step_compensation gives it back.
HeldIsExplained ==
    \A o \in Orders : pc[o] = "end" /\ resv[o] = "reserved" => o \in hurt

\* Every order comes to an end or dies with its process: no two transactions
\* wait for each other's lots for ever.
OrdersEnd == \A o \in Orders : pc[o] = "resolve" ~> pc[o] \in {"end", "dead"}
=============================================================================
