--------------------------- MODULE OrderSagaProofs ---------------------------
(***************************************************************************)
(* Proofs about OrderSaga, for any number of orders, lots, items and       *)
(* faults: the types, the ledger (stock adds up and is never oversold),    *)
(* what a succeeded order stands for, which orders may leave stock         *)
(* reserved, and that the transactions implement Inventory.                *)
(***************************************************************************)
EXTENDS OrderSaga, FiniteSetTheorems, SequenceTheorems, WellFoundedInduction, TLAPS

-----------------------------------------------------------------------------
(* Facts about numbers and counting.                                         *)

\* A non-empty set of natural numbers has a least element.
LEMMA MinIsMember ==
    ASSUME NEW T \in SUBSET Nat, T # {} PROVE Min(T) \in T
<1>1. IsWellFoundedOn({x \in Nat \X Nat : x[1] < x[2]}, Nat)
  BY NatLessThanWellFounded DEF OpToRel
<1>2. PICK n \in T : \A m \in T : <<m, n>> \notin {x \in Nat \X Nat : x[1] < x[2]}
  BY <1>1, WFMin
<1>3. \A m \in T : n <= m
  <2> SUFFICES ASSUME NEW m \in T PROVE n <= m OBVIOUS
  <2>1. m \in Nat /\ n \in Nat OBVIOUS
  <2>2. ~(m < n) BY <1>2, <2>1
  <2> QED BY <2>1, <2>2
<1> QED BY <1>3 DEF Min

\* Tagging the elements of a set with one value does not change their number.
LEMMA ProductWithOne ==
    ASSUME NEW S, NEW T, IsFiniteSet(S), Cardinality(S) = 1, IsFiniteSet(T)
    PROVE  IsFiniteSet(S \X T) /\ Cardinality(S \X T) = Cardinality(T)
<1>1. /\ IsFiniteSet(S \X T)
      /\ Cardinality(S \X T) = Cardinality(S) * Cardinality(T)
  BY FS_Product
<1>2. Cardinality(T) \in Nat BY FS_CardinalityType
<1> QED BY <1>1, <1>2

\* What the orders hold of a lot, counted unit by unit.
Pile(held) == UNION {{o} \X (1..held[o]) : o \in Orders}

\* Finitely many orders hold finitely many units.
LEMMA PileIsFinite ==
    ASSUME NEW held \in [Orders -> Nat] PROVE IsFiniteSet(Pile(held))
<1> DEFINE f == [o \in Orders |-> {o} \X (1..held[o])]
           piles == {{o} \X (1..held[o]) : o \in Orders}
<1>1. ASSUME NEW o \in Orders PROVE IsFiniteSet({o} \X (1..held[o]))
  <2>1. IsFiniteSet({o}) BY FS_Singleton
  <2>2. IsFiniteSet(1..held[o]) BY FS_Interval
  <2> QED BY <2>1, <2>2, FS_Product
<1>2. f \in Surjection(Orders, piles) BY DEF Surjection
<1>3. IsFiniteSet(piles) BY <1>2, OrderAssumption, FS_Surjection
<1>4. \A T \in piles : IsFiniteSet(T) BY <1>1
<1> HIDE DEF piles
<1>5. IsFiniteSet(UNION piles) BY <1>3, <1>4, FS_UNION
<1> QED BY <1>5 DEF Pile, piles

\* When one order holds more or less, the pile grows or shrinks by as much.
LEMMA PileChange ==
    ASSUME NEW held \in [Orders -> Nat], NEW new \in [Orders -> Nat], NEW o \in Orders,
           \A p \in Orders \ {o} : new[p] = held[p]
    PROVE  Cardinality(Pile(new)) = Cardinality(Pile(held)) - held[o] + new[o]
<1> DEFINE others == UNION {{p} \X (1..held[p]) : p \in Orders \ {o}}
<1>1. IsFiniteSet(others)
  <2>1. {{p} \X (1..held[p]) : p \in Orders \ {o}} \subseteq {{p} \X (1..held[p]) : p \in Orders}
    OBVIOUS
  <2>2. \A S, T : S \subseteq T => UNION S \subseteq UNION T OBVIOUS
  <2>3. others \in SUBSET Pile(held) BY <2>1, <2>2 DEF Pile
  <2> QED BY <2>3, PileIsFinite, FS_Subset
<1>2. ASSUME NEW h \in Nat
      PROVE  Cardinality(others \cup ({o} \X (1..h))) = Cardinality(others) + h
  <2> DEFINE mine == {o} \X (1..h)
  <2>1. IsFiniteSet(mine) /\ Cardinality(mine) = h
    <3>1. IsFiniteSet({o}) /\ Cardinality({o}) = 1 BY FS_Singleton
    <3>2. IsFiniteSet(1..h) BY FS_Interval
    <3>0. 1 \in Int /\ h \in Int OBVIOUS
    <3>3. Cardinality(1..h) = IF 1 > h THEN 0 ELSE h - 1 + 1 BY <3>0, FS_Interval, Zenon
    <3>4. Cardinality(1..h) = h BY <3>3
    <3> QED BY <3>1, <3>2, <3>4, ProductWithOne
  <2>2. others \cap mine = {} OBVIOUS
  <2>3. Cardinality(others \cap mine) = 0 BY <2>2, FS_EmptySet
  <2>4. Cardinality(others) \in Nat BY <1>1, FS_CardinalityType
  <2> HIDE DEF others, mine
  <2>5. Cardinality(others \cup mine)
          = Cardinality(others) + Cardinality(mine) - Cardinality(others \cap mine)
    BY <1>1, <2>1, FS_Union
  <2>6. Cardinality(others \cup mine) = Cardinality(others) + h
    BY <2>1, <2>3, <2>4, <2>5
  <2> QED BY <2>6 DEF mine
<1>3. Pile(held) = others \cup ({o} \X (1..held[o])) BY DEF Pile
<1>4. Pile(new) = others \cup ({o} \X (1..new[o])) BY DEF Pile
<1>5. held[o] \in Nat /\ new[o] \in Nat /\ Cardinality(others) \in Nat
  BY <1>1, FS_CardinalityType
<1> HIDE DEF others
<1> QED BY <1>2, <1>3, <1>4, <1>5

-----------------------------------------------------------------------------
(* Types.                                                                    *)

\* The coroutine is reserving: it has a current item, and every quantity is
\* positive.
Reserving == {"select", "update", "commit_tx"}
ItemsOK ==
    \A o \in Orders : pc[o] \in Reserving =>
        /\ at[o] \in DOMAIN cart[o]
        /\ \A i \in DOMAIN cart[o] : cart[o][i].quantity # 0
TypeInv == TypeOK /\ ItemsOK

\* What is in a cart, and that the next position to reserve is one of it.
LEMMA CartFacts ==
    ASSUME TypeOK, NEW o \in Orders
    PROVE  /\ cart[o] \in Seq(Entry) /\ DOMAIN cart[o] = 1..Len(cart[o]) /\ Len(cart[o]) \in Nat
           /\ \A i \in DOMAIN cart[o] : cart[o][i] \in Entry
           /\ \A i : Reservable(o, i) \subseteq DOMAIN cart[o]
           /\ \A i : Reservable(o, i) # {} => Min(Reservable(o, i)) \in Reservable(o, i)
<1>0. cart[o] \in Seq(Entry) BY DEF TypeOK, OrderTypes
<1>1. /\ cart[o] \in Seq(Entry) /\ DOMAIN cart[o] = 1..Len(cart[o]) /\ Len(cart[o]) \in Nat
      /\ \A i \in DOMAIN cart[o] : cart[o][i] \in Entry
  BY <1>0, LenProperties, ElementOfSeq
<1>2. \A i : Reservable(o, i) \subseteq DOMAIN cart[o] BY DEF Reservable
<1>3. \A i : Reservable(o, i) \in SUBSET Nat BY <1>1, <1>2
<1> QED BY <1>1, <1>2, <1>3, MinIsMember

\* The types hold at the start.
LEMMA TypeInit == Init => TypeInv
<1> SUFFICES ASSUME Init PROVE TypeInv OBVIOUS
<1> USE OrderAssumption DEF Init
<1>1. OrderTypes /\ PlanTypes /\ CountTypes /\ ItemsOK
  BY DEF OrderTypes, PlanTypes, CountTypes, ItemsOK, Reserving, Pc, Row, Committed
<1>2. LotTypes /\ ReservationTypes BY DEF LotTypes, ReservationTypes, NoLots
<1>3. TransactionTypes BY DEF TransactionTypes, NoLots
<1> QED BY <1>1, <1>2, <1>3 DEF TypeInv, TypeOK

\* A coroutine that moves on, with another step done or not.
LEMMA TypeMove ==
    ASSUME TypeOK, NEW o \in Orders, NEW l \in Pc, Goto(o, l),
           done' = done \/ \E n \in 0..Committed : done' = [done EXCEPT ![o] = n]
    PROVE  PlanTypes' /\ pc'[o] = l /\ \A p \in Orders \ {o} : pc'[p] = pc[p]
  BY DEF TypeOK, PlanTypes, Goto

\* The end of a transaction keeps the types of what it touches.
LEMMA TypeLeave ==
    ASSUME TypeOK, NEW o \in Orders, leave(o), NEW l \in Pc \ {"update"}, Goto(o, l)
    PROVE  TransactionTypes' /\ lock' \in [Lots -> Orders \cup {NoOrder}]
<1>1. lock' \in [Lots -> Orders \cup {NoOrder}] BY DEF TypeOK, LotTypes, leave
<1>2. /\ tx' \in [Orders -> [Lots -> Nat]] /\ todo' \in [Orders -> SUBSET Lots]
      /\ at' \in [Orders -> Nat] /\ pick' \in [Orders -> Lots \cup {AnyLot}]
  BY DEF TypeOK, TransactionTypes, leave, NoLots
<1>3. ASSUME NEW p \in Orders, pc'[p] = "update" PROVE pick'[p] \in Lots
  <2>1. p # o /\ pc[p] = "update" BY <1>3 DEF Goto, TypeOK, PlanTypes
  <2> QED BY <2>1 DEF leave, TypeOK, TransactionTypes
<1> QED BY <1>1, <1>2, <1>3 DEF TransactionTypes

\* A step outside the transactions.
LEMMA TypeStay ==
    ASSUME TypeOK, NEW o \in Orders, UNCHANGED <<at, pick, tx, todo>>,
           NEW l \in Pc \ {"update"}, Goto(o, l)
    PROVE  TransactionTypes'
<1>1. ASSUME NEW p \in Orders, pc'[p] = "update" PROVE pick'[p] \in Lots
  <2>1. p # o /\ pc[p] = "update" BY <1>1 DEF Goto, TypeOK, PlanTypes
  <2> QED BY <2>1 DEF TypeOK, TransactionTypes
<1> QED BY <1>1 DEF TypeOK, TransactionTypes

\* What an answer may do.
LEMMA TypeAnswer ==
    ASSUME TypeOK, NEW o \in Orders, NEW n \in 0..Committed, NEW l \in Pc \ {"update"},
           answer(o, n, l)
    PROVE  /\ \E m \in {l, "fail"} : Goto(o, m)
           /\ done' = done \/ \E k \in 0..Committed : done' = [done EXCEPT ![o] = k]
           /\ faults' \in 0..MaxFaults /\ hurt' \subseteq Orders
  BY OrderAssumption DEF answer, TypeOK, CountTypes, OrderTypes

\* Every position still to be reserved is one of the cart.
ItemsKept(o) ==
    pc'[o] \in Reserving => /\ at'[o] \in DOMAIN cart'[o]
                            /\ \A i \in DOMAIN cart'[o] : cart'[o][i].quantity # 0
\* A step of one order keeps ItemsOK if it does so for that order.
LEMMA ItemsStay ==
    ASSUME ItemsOK, NEW o \in Orders, ItemsKept(o),
           \A p \in Orders \ {o} : pc'[p] = pc[p] /\ at'[p] = at[p] /\ cart'[p] = cart[p]
    PROVE  ItemsOK'
  BY DEF ItemsOK, ItemsKept

\* resolve_items and the steps of reserve.
LEMMA TypeReserve ==
    ASSUME TypeInv, NEW o \in Orders,
           \/ resolve_items(o) \/ reserve_select(o) \/ reserve_update(o) \/ reserve_commit(o)
    PROVE  TypeInv'
<1>0. TypeOK /\ ItemsOK BY DEF TypeInv
<1> DEFINE Others == \A p \in Orders \ {o} : pc'[p] = pc[p] /\ at'[p] = at[p] /\ cart'[p] = cart[p]
<1>a. pc \in [Orders -> Pc] /\ at \in [Orders -> Nat] /\ pick \in [Orders -> Lots \cup {AnyLot}]
  BY <1>0 DEF TypeOK, PlanTypes, TransactionTypes
<1>1. CASE resolve_items(o)
  <2> DEFINE items == Reservable(o, 0)
  <2>0. /\ UNCHANGED <<row, cart, available, total, lock, resv, lines, posted>>
        /\ UNCHANGED <<pick, tx, todo, rec, hurt, faults, crashes, recoveries>>
    BY <1>1 DEF resolve_items, ledger
  <2>1. OrderTypes' /\ LotTypes' /\ ReservationTypes' /\ CountTypes'
    BY <1>0, <2>0 DEF TypeOK, OrderTypes, LotTypes, ReservationTypes, CountTypes
  <2>2. CASE \E i \in DOMAIN cart[o] : cart[o][i].quantity = 0
    <3>1. Goto(o, "fail") /\ UNCHANGED <<at, done>> BY <1>1, <2>2 DEF resolve_items
    <3>2. "fail" \in Pc \ {"update"} BY DEF Pc
    <3>3. PlanTypes' /\ TransactionTypes' BY <1>0, <2>0, <3>1, <3>2, TypeMove, TypeStay
    <3>4. ItemsKept(o) /\ Others
      BY <1>a, <2>0, <3>1 DEF Goto, ItemsKept, Reserving
    <3> QED BY <1>0, <2>1, <3>3, <3>4, ItemsStay DEF TypeInv, TypeOK
  <2>3. CASE ~(\E i \in DOMAIN cart[o] : cart[o][i].quantity = 0) /\ items = {}
    <3>1. Goto(o, "charge") /\ done' = [done EXCEPT ![o] = Reserved] /\ UNCHANGED at
      BY <1>1, <2>3 DEF resolve_items
    <3>2. "charge" \in Pc \ {"update"} /\ Reserved \in 0..Committed BY DEF Pc, Reserved, Committed
    <3>3. PlanTypes' /\ TransactionTypes' BY <1>0, <2>0, <3>1, <3>2, TypeMove, TypeStay
    <3>4. ItemsKept(o) /\ Others
      BY <1>a, <2>0, <3>1 DEF Goto, ItemsKept, Reserving
    <3> QED BY <1>0, <2>1, <3>3, <3>4, ItemsStay DEF TypeInv, TypeOK
  <2>4. CASE ~(\E i \in DOMAIN cart[o] : cart[o][i].quantity = 0) /\ items # {}
    <3>1. Goto(o, "select") /\ at' = [at EXCEPT ![o] = Min(items)] /\ UNCHANGED done
      BY <1>1, <2>4 DEF resolve_items
    <3>2. "select" \in Pc BY DEF Pc
    <3>3. PlanTypes' BY <1>0, <3>1, <3>2, TypeMove
    <3>4. Min(items) \in DOMAIN cart[o] /\ Min(items) \in Nat BY <1>0, <2>4, CartFacts
    <3>5. TransactionTypes'
      BY <1>0, <1>a, <2>0, <3>1, <3>4 DEF TypeOK, TransactionTypes, Goto
    <3>6. ItemsKept(o) /\ Others
      BY <1>a, <2>0, <2>4, <3>1, <3>4 DEF Goto, ItemsKept
    <3> QED BY <1>0, <2>1, <3>3, <3>5, <3>6, ItemsStay DEF TypeInv, TypeOK
  <2> QED BY <2>2, <2>3, <2>4
<1>b. ASSUME raise_in_transaction(o), UNCHANGED <<cart, done>>
      PROVE  /\ PlanTypes' /\ TransactionTypes' /\ ItemsOK'
             /\ lock' \in [Lots -> Orders \cup {NoOrder}]
  <2>1. leave(o) /\ Goto(o, "fail") /\ "fail" \in Pc \ {"update"}
    BY <1>b DEF raise_in_transaction, Pc
  <2>2. ItemsKept(o) /\ Others
    BY <1>a, <1>b, <2>1 DEF Goto, ItemsKept, leave, Reserving
  <2> QED BY <1>0, <1>b, <2>1, <2>2, TypeLeave, TypeMove, ItemsStay
<1>2. CASE reserve_select(o)
  <2>0. /\ UNCHANGED <<row, cart, available, total, resv, lines, posted>>
        /\ UNCHANGED <<done, rec, hurt, faults, crashes, recoveries>> /\ pc[o] = "select"
    BY <1>2 DEF reserve_select
  <2>1. OrderTypes' /\ ReservationTypes' /\ CountTypes'
    BY <1>0, <2>0 DEF TypeOK, OrderTypes, ReservationTypes, CountTypes
  <2>2. \/ /\ \E l \in Lots : pick' = [pick EXCEPT ![o] = l]
           /\ Goto(o, "update") /\ UNCHANGED <<tx, todo, lock, at>>
        \/ raise_in_transaction(o)
    <3>1. Item(o).lot \in Lots \cup {AnyLot}
      BY <1>0, <2>0, CartFacts DEF Item, ItemsOK, Reserving, Entry
    <3> QED BY <1>2, <3>1 DEF reserve_select
  <2>3. CASE raise_in_transaction(o)
    <3>1. LotTypes' BY <1>0, <2>0, <2>3, <1>b DEF TypeOK, LotTypes
    <3> QED BY <2>0, <2>1, <2>3, <1>b, <3>1 DEF TypeInv, TypeOK
  <2>4. ASSUME NEW l \in Lots, pick' = [pick EXCEPT ![o] = l], Goto(o, "update"),
               UNCHANGED <<tx, todo, lock, at>>
        PROVE  TypeInv'
    <3>1. "update" \in Pc BY DEF Pc
    <3>2. PlanTypes' BY <1>0, <2>0, <2>4, <3>1, TypeMove
    <3>3. LotTypes' BY <1>0, <2>0, <2>4 DEF TypeOK, LotTypes
    <3>4. TransactionTypes' BY <1>0, <1>a, <2>4 DEF TypeOK, TransactionTypes, Goto
    <3>5. ItemsKept(o) /\ Others
      BY <1>0, <1>a, <2>0, <2>4 DEF Goto, ItemsKept, ItemsOK, Reserving
    <3> QED BY <1>0, <2>1, <3>2, <3>3, <3>4, <3>5, ItemsStay DEF TypeInv, TypeOK
  <2> QED BY <2>2, <2>3, <2>4
<1>3. CASE reserve_update(o)
  <2> DEFINE rest == Reservable(o, at[o])
  <2>0. /\ UNCHANGED <<row, cart, available, total, resv, lines, posted>>
        /\ UNCHANGED <<done, rec, hurt, faults, crashes, recoveries>> /\ pc[o] = "update"
    BY <1>3 DEF reserve_update
  <2>1. OrderTypes' /\ ReservationTypes' /\ CountTypes'
    BY <1>0, <2>0 DEF TypeOK, OrderTypes, ReservationTypes, CountTypes
  <2>3. CASE raise_in_transaction(o)
    <3>1. LotTypes' BY <1>0, <2>0, <2>3, <1>b DEF TypeOK, LotTypes
    <3> QED BY <2>0, <2>1, <2>3, <1>b, <3>1 DEF TypeInv, TypeOK
  <2>4. CASE ~raise_in_transaction(o)
    <3>1. /\ lock' = [lock EXCEPT ![pick[o]] = o]
          /\ tx' = [tx EXCEPT ![o][pick[o]] = Item(o).quantity]
          /\ IF rest = {} THEN Goto(o, "commit_tx") /\ UNCHANGED at
             ELSE Goto(o, "select") /\ at' = [at EXCEPT ![o] = Min(rest)]
          /\ UNCHANGED <<pick, todo>>
      BY <1>3, <2>4 DEF reserve_update
    <3>2. /\ pick[o] \in Lots /\ Item(o).quantity \in Nat
          /\ \A i \in DOMAIN cart[o] : cart[o][i].quantity # 0
          /\ at[o] \in DOMAIN cart[o]
      BY <1>0, <2>0, CartFacts DEF Item, ItemsOK, Reserving, Entry, TypeOK, TransactionTypes
    <3>3. LotTypes' BY <1>0, <2>0, <3>1, <3>2 DEF TypeOK, LotTypes
    <3>4. tx' \in [Orders -> [Lots -> Nat]]
      BY <1>0, <3>1, <3>2 DEF TypeOK, TransactionTypes
    <3>5. PICK l \in {"commit_tx", "select"} : Goto(o, l) BY <3>1
    <3>6. l \in Pc \ {"update"} BY DEF Pc
    <3>7. PlanTypes' BY <1>0, <2>0, <3>5, <3>6, TypeMove
    <3>8. rest # {} => Min(rest) \in DOMAIN cart[o] /\ Min(rest) \in Nat BY <1>0, CartFacts
    <3>9. TransactionTypes'
      BY <1>0, <1>a, <3>1, <3>4, <3>5, <3>8 DEF TypeOK, TransactionTypes, Goto
    <3>10. ItemsKept(o) /\ Others
      BY <1>a, <2>0, <3>1, <3>2, <3>5, <3>8 DEF Goto, ItemsKept
    <3> QED BY <1>0, <2>1, <3>3, <3>7, <3>9, <3>10, ItemsStay DEF TypeInv, TypeOK
  <2> QED BY <2>3, <2>4
<1>4. CASE reserve_commit(o)
  <2>0. /\ UNCHANGED <<row, cart, total, posted, rec, crashes, recoveries>>
        /\ leave(o) /\ answer(o, Reserved, "charge")
        /\ available' = [l \in Lots |-> available[l] - tx[o][l]]
        /\ lines' = [lines EXCEPT ![o] = tx[o]]
        /\ resv' = [resv EXCEPT ![o] = "reserved"]
    BY <1>4 DEF reserve_commit
  <2>1. "charge" \in Pc \ {"update"} /\ "fail" \in Pc \ {"update"} /\ Reserved \in 0..Committed
    BY DEF Pc, Reserved, Committed
  <2>2. /\ faults' \in 0..MaxFaults /\ hurt' \subseteq Orders
        /\ \E m \in {"charge", "fail"} : Goto(o, m)
        /\ done' = done \/ \E k \in 0..Committed : done' = [done EXCEPT ![o] = k]
    BY <1>0, <2>0, <2>1, TypeAnswer
  <2>3. PICK m \in {"charge", "fail"} : Goto(o, m) BY <2>2
  <2>4. PlanTypes' /\ TransactionTypes' /\ lock' \in [Lots -> Orders \cup {NoOrder}]
    BY <1>0, <2>0, <2>1, <2>2, <2>3, TypeMove, TypeLeave
  <2>5. OrderTypes' /\ CountTypes' BY <1>0, <2>0, <2>2 DEF TypeOK, OrderTypes, CountTypes
  <2>6. LotTypes' BY <1>0, <2>0, <2>4 DEF TypeOK, LotTypes, TransactionTypes
  <2>7. ReservationTypes' BY <1>0, <2>0 DEF TypeOK, ReservationTypes, TransactionTypes
  <2>8. ItemsKept(o) /\ Others BY <1>a, <2>0, <2>3 DEF Goto, ItemsKept, leave, Reserving
  <2> QED BY <1>0, <2>4, <2>5, <2>6, <2>7, <2>8, ItemsStay DEF TypeInv, TypeOK
<1> QED BY <1>1, <1>2, <1>3, <1>4

\* A step that leaves the transaction, or starts from outside it, to a place
\* where nothing is reserved: what is left to show are the types of what else it
\* changes.
LEMMA TypeGo ==
    ASSUME TypeInv, NEW o \in Orders, NEW l \in Pc \ (Reserving \cup {"update"}), Goto(o, l),
           leave(o) \/ UNCHANGED <<at, pick, tx, todo>>, UNCHANGED cart,
           done' = done \/ \E n \in 0..Committed : done' = [done EXCEPT ![o] = n],
           lock' = lock \/ leave(o)
    PROVE  /\ PlanTypes' /\ TransactionTypes' /\ ItemsOK'
           /\ lock' \in [Lots -> Orders \cup {NoOrder}]
<1>0. TypeOK /\ ItemsOK BY DEF TypeInv
<1>1. pc \in [Orders -> Pc] /\ at \in [Orders -> Nat]
  BY <1>0 DEF TypeOK, PlanTypes, TransactionTypes
<1>2. PlanTypes' BY <1>0, TypeMove
<1>3. TransactionTypes' BY <1>0, TypeLeave, TypeStay
<1>4. lock' \in [Lots -> Orders \cup {NoOrder}] BY <1>0, TypeLeave DEF TypeOK, LotTypes
<1>5. /\ ItemsKept(o)
      /\ \A p \in Orders \ {o} : pc'[p] = pc[p] /\ at'[p] = at[p] /\ cart'[p] = cart[p]
  BY <1>1 DEF Goto, ItemsKept, leave
<1>6. ItemsOK' BY <1>0, <1>5, ItemsStay
<1> QED BY <1>2, <1>3, <1>4, <1>6

\* The steps after the reservation and the end of the plan.
LEMMA TypePlan ==
    ASSUME TypeInv, NEW o \in Orders,
           \/ charge(o) \/ post_accounting(o) \/ commit_inventory(o) \/ finish(o)
           \/ write_failed(o) \/ run_saga_failed(o)
    PROVE  TypeInv'
<1>0. TypeOK /\ ItemsOK BY DEF TypeInv
<1>p. {"accounting", "commit", "finish", "end", "undo", "fail"} \subseteq Pc \ (Reserving \cup {"update"})
  BY DEF Pc, Reserving
<1>n. {Billed, Accounted, Committed} \subseteq 0..Committed BY DEF Billed, Accounted, Committed
<1>a. ASSUME NEW n \in {Accounted, Committed}, NEW l \in {"commit", "finish", "end"},
             answer(o, n, l), UNCHANGED <<cart, lock, at, pick, tx, todo>>
      PROVE  PlanTypes' /\ TransactionTypes' /\ ItemsOK'
  <2>0. n \in 0..Committed /\ l \in Pc \ {"update"} BY <1>p, <1>n
  <2>1. /\ \E m \in {l, "fail"} : Goto(o, m)
        /\ done' = done \/ \E k \in 0..Committed : done' = [done EXCEPT ![o] = k]
    BY <1>0, <1>a, <2>0, TypeAnswer
  <2>2. PICK m \in {l, "fail"} : Goto(o, m) BY <2>1
  <2>3. m \in Pc \ (Reserving \cup {"update"}) BY <1>p
  <2> QED BY <1>a, <2>1, <2>2, <2>3, TypeGo
<1>f. ASSUME NEW n \in {Accounted, Committed}, NEW l \in {"commit", "finish", "end"},
             answer(o, n, l)
      PROVE  faults' \in 0..MaxFaults /\ hurt' \subseteq Orders
  <2>0. n \in 0..Committed /\ l \in Pc \ {"update"} BY <1>p, <1>n
  <2> QED BY <1>0, <1>f, <2>0, TypeAnswer
<1>1. CASE charge(o)
  <2>0. /\ UNCHANGED <<row, cart, available, total, lock, resv, lines, posted>>
        /\ UNCHANGED <<at, pick, tx, todo, rec, hurt, faults, crashes, recoveries>>
        /\ done' = [done EXCEPT ![o] = Billed] /\ Goto(o, "accounting")
    BY <1>1 DEF charge, ledger
  <2>1. OrderTypes' /\ LotTypes' /\ ReservationTypes' /\ CountTypes'
    BY <1>0, <2>0 DEF TypeOK, OrderTypes, LotTypes, ReservationTypes, CountTypes
  <2>2. PlanTypes' /\ TransactionTypes' /\ ItemsOK' BY <2>0, <1>p, <1>n, TypeGo
  <2> QED BY <2>1, <2>2 DEF TypeInv, TypeOK
<1>2. CASE post_accounting(o)
  <2>0. /\ UNCHANGED <<row, cart, available, total, lock, resv, lines, at, pick, tx>>
        /\ UNCHANGED <<todo, rec, crashes, recoveries>>
        /\ posted' = [posted EXCEPT ![o] = TRUE] /\ answer(o, Accounted, "commit")
    BY <1>2 DEF post_accounting
  <2>f. faults' \in 0..MaxFaults /\ hurt' \subseteq Orders BY <2>0, <1>f
  <2>1. OrderTypes' /\ LotTypes' /\ ReservationTypes' /\ CountTypes'
    BY <1>0, <2>0, <2>f DEF TypeOK, OrderTypes, LotTypes, ReservationTypes, CountTypes
  <2>2. PlanTypes' /\ TransactionTypes' /\ ItemsOK' BY <2>0, <1>a
  <2> QED BY <2>1, <2>2 DEF TypeInv, TypeOK
<1>3. CASE commit_inventory(o)
  <2>0. /\ UNCHANGED <<row, cart, available, total, lock, lines, posted, at, pick, tx>>
        /\ UNCHANGED <<todo, rec, crashes, recoveries>>
        /\ resv' = [resv EXCEPT ![o] = IF @ = "none" THEN @ ELSE "committed"]
        /\ answer(o, Committed, "finish")
    BY <1>3 DEF commit_inventory
  <2>f. faults' \in 0..MaxFaults /\ hurt' \subseteq Orders BY <2>0, <1>f
  <2>1. OrderTypes' /\ LotTypes' /\ ReservationTypes' /\ CountTypes'
    BY <1>0, <2>0, <2>f DEF TypeOK, OrderTypes, LotTypes, ReservationTypes, CountTypes
  <2>2. PlanTypes' /\ TransactionTypes' /\ ItemsOK' BY <2>0, <1>a
  <2> QED BY <2>1, <2>2 DEF TypeInv, TypeOK
<1>4. CASE finish(o)
  <2>0. /\ UNCHANGED <<cart, available, total, lock, resv, lines, posted, at, pick, tx>>
        /\ UNCHANGED <<todo, rec, crashes, recoveries>>
        /\ row' = [row EXCEPT ![o] = "succeeded"] /\ answer(o, Committed, "end")
    BY <1>4 DEF finish, ledger
  <2>f. faults' \in 0..MaxFaults /\ hurt' \subseteq Orders BY <2>0, <1>f
  <2>1. OrderTypes' /\ LotTypes' /\ ReservationTypes' /\ CountTypes'
    BY <1>0, <2>0, <2>f DEF TypeOK, OrderTypes, LotTypes, ReservationTypes, CountTypes, Row
  <2>2. PlanTypes' /\ TransactionTypes' /\ ItemsOK' BY <2>0, <1>a
  <2> QED BY <2>1, <2>2 DEF TypeInv, TypeOK
<1>5. CASE write_failed(o) \/ run_saga_failed(o)
  <2>0. /\ UNCHANGED <<cart, available, total, lock, resv, lines, posted, done>>
        /\ UNCHANGED <<at, pick, tx, todo, rec, hurt, faults, crashes, recoveries>>
        /\ row' = [row EXCEPT ![o] = "failed"] /\ \E l \in {"undo", "end"} : Goto(o, l)
    BY <1>5 DEF write_failed, run_saga_failed, ledger
  <2>1. OrderTypes' /\ LotTypes' /\ ReservationTypes' /\ CountTypes'
    BY <1>0, <2>0 DEF TypeOK, OrderTypes, LotTypes, ReservationTypes, CountTypes, Row
  <2>2. PICK l \in {"undo", "end"} : Goto(o, l) BY <2>0
  <2>3. PlanTypes' /\ TransactionTypes' /\ ItemsOK' BY <2>0, <2>2, <1>p, TypeGo
  <2> QED BY <2>1, <2>3 DEF TypeInv, TypeOK
<1> QED BY <1>1, <1>2, <1>3, <1>4, <1>5

\* The compensation, and every way a transaction or a statement is lost.
LEMMA TypeUndo ==
    ASSUME TypeInv, NEW o \in Orders,
           \/ run_step_compensation(o) \/ release_update(o) \/ release_commit(o)
           \/ deadlock_detected(o) \/ db_error(o) \/ crash(o)
    PROVE  TypeInv'
<1>0. TypeOK /\ ItemsOK BY DEF TypeInv
<1>a. pc \in [Orders -> Pc] /\ at \in [Orders -> Nat] /\ lines[o] \in [Lots -> Nat]
  BY <1>0 DEF TypeOK, PlanTypes, TransactionTypes, ReservationTypes
<1>p. {"release", "fail", "fail_again", "end", "dead"} \subseteq Pc \ (Reserving \cup {"update"})
  BY DEF Pc, Reserving
<1>1. CASE run_step_compensation(o)
  <2>0. /\ UNCHANGED <<row, cart, available, total, lock, resv, lines, posted, done>>
        /\ UNCHANGED <<at, pick, tx, rec, hurt, faults, crashes, recoveries>>
        /\ \E T \in SUBSET Lots : todo' = [todo EXCEPT ![o] = T] \/ todo' = todo
        /\ \E l \in {"release", "end"} : Goto(o, l)
    BY <1>1 DEF run_step_compensation, ledger
  <2>1. OrderTypes' /\ LotTypes' /\ ReservationTypes' /\ CountTypes'
    BY <1>0, <2>0 DEF TypeOK, OrderTypes, LotTypes, ReservationTypes, CountTypes, Row
  <2>2. PICK l \in {"release", "end"} : Goto(o, l) BY <2>0
  <2>3. l \in Pc /\ l \notin Reserving BY <1>p
  <2>4. PlanTypes' BY <1>0, <2>0, <2>2, <2>3, TypeMove
  <2>5. todo' \in [Orders -> SUBSET Lots] BY <1>0, <2>0 DEF TypeOK, TransactionTypes
  <2>6. TransactionTypes'
    BY <1>0, <1>a, <2>0, <2>2, <2>5 DEF TypeOK, TransactionTypes, Goto
  <2>7. /\ ItemsKept(o)
        /\ \A p \in Orders \ {o} : pc'[p] = pc[p] /\ at'[p] = at[p] /\ cart'[p] = cart[p]
    BY <1>a, <2>0, <2>2, <2>3 DEF Goto, ItemsKept
  <2> QED BY <1>0, <2>1, <2>4, <2>6, <2>7, ItemsStay DEF TypeInv, TypeOK
<1>2. CASE release_update(o)
  <2>0. /\ UNCHANGED <<row, cart, available, total, resv, lines, posted, pc, at, pick>>
        /\ UNCHANGED <<done, rec, hurt, faults, crashes, recoveries>>
    BY <1>2 DEF release_update
  <2>1. PICK l \in todo[o] : /\ lock' = [lock EXCEPT ![l] = o]
                             /\ tx' = [tx EXCEPT ![o][l] = lines[o][l]]
                             /\ todo' = [todo EXCEPT ![o] = @ \ {l}]
    BY <1>2 DEF release_update
  <2>2. l \in Lots /\ lines[o][l] \in Nat BY <1>0, <1>a DEF TypeOK, TransactionTypes
  <2>3. OrderTypes' /\ LotTypes' /\ ReservationTypes' /\ CountTypes' /\ PlanTypes'
    BY <1>0, <2>0, <2>1, <2>2
    DEF TypeOK, OrderTypes, LotTypes, ReservationTypes, CountTypes, PlanTypes
  <2>4. tx' \in [Orders -> [Lots -> Nat]] /\ todo' \in [Orders -> SUBSET Lots]
    BY <1>0, <2>1, <2>2 DEF TypeOK, TransactionTypes
  <2>5. TransactionTypes' BY <1>0, <2>0, <2>4 DEF TypeOK, TransactionTypes
  <2>6. ItemsOK' BY <1>0, <2>0 DEF ItemsOK
  <2> QED BY <2>3, <2>5, <2>6 DEF TypeInv, TypeOK
<1>3. CASE release_commit(o)
  <2>0. /\ UNCHANGED <<row, cart, total, lines, posted, done, rec, hurt, faults>>
        /\ UNCHANGED <<crashes, recoveries>> /\ leave(o) /\ Goto(o, "end")
        /\ available' = [l \in Lots |-> available[l] + tx[o][l]]
        /\ resv' = [resv EXCEPT ![o] = "released"]
    BY <1>3 DEF release_commit
  <2>1. PlanTypes' /\ TransactionTypes' /\ ItemsOK' /\ lock' \in [Lots -> Orders \cup {NoOrder}]
    BY <2>0, <1>p, TypeGo
  <2>2. OrderTypes' /\ ReservationTypes' /\ CountTypes'
    BY <1>0, <2>0 DEF TypeOK, OrderTypes, ReservationTypes, CountTypes
  <2>3. LotTypes' BY <1>0, <2>0, <2>1 DEF TypeOK, LotTypes, TransactionTypes
  <2> QED BY <2>1, <2>2, <2>3 DEF TypeInv, TypeOK
<1>4. CASE deadlock_detected(o) \/ db_error(o) \/ crash(o)
  <2>0. /\ UNCHANGED <<row, cart, available, total, resv, lines, posted, done, rec>>
        /\ UNCHANGED recoveries /\ leave(o)
        /\ hurt' = hurt \cup {o} \/ hurt' = hurt
    BY <1>4 DEF deadlock_detected, db_error, crash
  <2>1. faults' \in 0..MaxFaults /\ crashes' \in 0..MaxCrashes
    BY <1>0, <1>4, OrderAssumption DEF deadlock_detected, db_error, crash, TypeOK, CountTypes
  <2>2. PICK l \in {"fail", "fail_again", "end", "dead"} : Goto(o, l)
    BY <1>4 DEF deadlock_detected, db_error, crash, Except
  <2>3. PlanTypes' /\ TransactionTypes' /\ ItemsOK' /\ lock' \in [Lots -> Orders \cup {NoOrder}]
    BY <2>0, <2>2, <1>p, TypeGo
  <2>4. OrderTypes' /\ ReservationTypes' /\ CountTypes' /\ LotTypes'
    BY <1>0, <2>0, <2>1, <2>3 DEF TypeOK, OrderTypes, ReservationTypes, CountTypes, LotTypes
  <2> QED BY <2>3, <2>4 DEF TypeInv, TypeOK
<1> QED BY <1>1, <1>2, <1>3, <1>4

\* Requests, recovery and the administrators.
LEMMA TypeSurroundings ==
    ASSUME TypeInv,
           \/ \E o \in Orders : init_order_saga(o) \/ recover(o) \/ recover_mark(o) \/ recover_end(o)
           \/ \E l \in Lots : vision_apply_update(l)
           \/ UNCHANGED vars
    PROVE  TypeInv'
<1>0. TypeOK /\ ItemsOK BY DEF TypeInv
<1>1. ASSUME NEW o \in Orders, init_order_saga(o) PROVE TypeInv'
  <2>0. /\ UNCHANGED <<available, total, lock, resv, lines, posted, at, pick, tx, todo>>
        /\ UNCHANGED <<done, rec, hurt, faults, crashes, recoveries>>
        /\ Goto(o, "resolve") /\ row' = [row EXCEPT ![o] = "in_progress"]
    BY <1>1 DEF init_order_saga, ledger
  <2>1. PICK c \in Carts : cart' = [cart EXCEPT ![o] = c] BY <1>1 DEF init_order_saga
  <2>2. c \in Seq(Entry) BY OrderAssumption DEF Entry
  <2>3. OrderTypes' BY <1>0, <2>0, <2>1, <2>2 DEF TypeOK, OrderTypes, Row
  <2>4. LotTypes' /\ ReservationTypes' /\ CountTypes'
    BY <1>0, <2>0 DEF TypeOK, LotTypes, ReservationTypes, CountTypes
  <2>5. "resolve" \in Pc \ {"update"} BY DEF Pc
  <2>6. PlanTypes' /\ TransactionTypes' BY <1>0, <2>0, <2>5, TypeMove, TypeStay
  <2>7. /\ ItemsKept(o)
        /\ \A p \in Orders \ {o} : pc'[p] = pc[p] /\ at'[p] = at[p] /\ cart'[p] = cart[p]
    BY <1>0, <2>0, <2>1 DEF Goto, ItemsKept, Reserving, TypeOK, PlanTypes, OrderTypes
  <2> QED BY <1>0, <2>3, <2>4, <2>6, <2>7, ItemsStay DEF TypeInv, TypeOK
<1>2. ASSUME NEW o \in Orders, recover(o) \/ recover_mark(o) \/ recover_end(o) PROVE TypeInv'
  <2>0. UNCHANGED <<cart, available, total, lock, resv, lines, posted, pc, at, pick>>
    BY <1>2 DEF recover, recover_mark, recover_end, ledger, coroutine
  <2>1. UNCHANGED <<tx, todo, done, hurt, faults, crashes>>
    BY <1>2 DEF recover, recover_mark, recover_end, coroutine
  <2>2. /\ \E r \in Row : row' = [row EXCEPT ![o] = r]
        /\ \E b \in {"none", "selected", "marked"} : rec' = [rec EXCEPT ![o] = b]
    <3>1. row \in [Orders -> Row] /\ rec \in [Orders -> {"none", "selected", "marked"}]
      BY <1>0 DEF TypeOK, OrderTypes
    <3>2. row = [row EXCEPT ![o] = row[o]] /\ row[o] \in Row BY <3>1
    <3> QED BY <1>2, <3>2 DEF recover, recover_mark, recover_end, Row
  <2>3. recoveries' \in 0..MaxRecoveries
    BY <1>0, <1>2, OrderAssumption DEF recover, recover_mark, recover_end, TypeOK, CountTypes
  <2>4. OrderTypes' BY <1>0, <2>0, <2>1, <2>2 DEF TypeOK, OrderTypes
  <2>5. LotTypes' /\ ReservationTypes' /\ CountTypes' /\ PlanTypes' /\ TransactionTypes'
    BY <1>0, <2>0, <2>1, <2>3
    DEF TypeOK, LotTypes, ReservationTypes, CountTypes, PlanTypes, TransactionTypes
  <2>6. ItemsOK' BY <1>0, <2>0 DEF ItemsOK
  <2> QED BY <2>4, <2>5, <2>6 DEF TypeInv, TypeOK
<1>3. ASSUME \/ \E l \in Lots : vision_apply_update(l)
             \/ UNCHANGED vars
      PROVE  TypeInv'
  <2>0. /\ UNCHANGED <<row, cart, lock, resv, lines, posted, pc, at, pick, tx, todo, done>>
        /\ UNCHANGED <<rec, hurt, faults, crashes, recoveries>>
    BY <1>3 DEF vision_apply_update, coroutine, vars, ledger
  <2>1. \/ UNCHANGED <<available, total>>
        \/ \E l \in Lots : /\ available' = [available EXCEPT ![l] = Stock[l]]
                           /\ total' = [total EXCEPT ![l] = Stock[l]]
    BY <1>3 DEF vision_apply_update, vars, ledger
  <2>a. available \in [Lots -> Int] /\ total \in [Lots -> Nat] BY <1>0 DEF TypeOK, LotTypes
  <2>b. \A l \in Lots : Stock[l] \in Nat /\ Stock[l] \in Int BY OrderAssumption
  <2>c. available' \in [Lots -> Int] /\ total' \in [Lots -> Nat] BY <2>1, <2>a, <2>b
  <2>4. LotTypes' BY <1>0, <2>0, <2>c DEF TypeOK, LotTypes
  <2>5. OrderTypes' /\ ReservationTypes' /\ CountTypes' /\ PlanTypes' /\ TransactionTypes'
    BY <1>0, <2>0
    DEF TypeOK, OrderTypes, ReservationTypes, CountTypes, PlanTypes, TransactionTypes
  <2>6. ItemsOK' BY <1>0, <2>0 DEF ItemsOK
  <2> QED BY <2>4, <2>5, <2>6 DEF TypeInv, TypeOK
<1> QED BY <1>1, <1>2, <1>3

\* Every step keeps the types.
LEMMA TypeStep == TypeInv /\ [Next]_vars => TypeInv'
<1> SUFFICES ASSUME TypeInv, [Next]_vars PROVE TypeInv' OBVIOUS
<1>1. ASSUME NEW o \in Orders, Step(o) PROVE TypeInv'
  BY <1>1, TypeReserve, TypePlan, TypeUndo DEF Step
<1>2. ASSUME NEW o \in Orders, db_error(o) \/ crash(o) PROVE TypeInv' BY <1>2, TypeUndo
<1> QED BY <1>1, <1>2, TypeSurroundings DEF Next

\* The types are kept by every step.
THEOREM TypeInvariant == Spec => []TypeInv
<1> QED BY TypeInit, TypeStep, PTL DEF Spec

\* Every variable keeps its type: the part of it that TypeOK states, as the
\* orders run checks it.
THEOREM TypeOKHolds == Spec => []TypeOK
<1>1. TypeInv => TypeOK BY DEF TypeInv
<1> QED BY <1>1, TypeInvariant, PTL

-----------------------------------------------------------------------------
(* The ledger.                                                               *)

\* What a transaction has changed it has locked.
LocksOK == \A o \in Orders, l \in Lots : tx[o][l] # 0 => lock[l] = o

\* What a reservation is about to take is still there.
TakesOK == \A o \in Orders, l \in Lots : pc[o] \in Reserving => tx[o][l] <= available[l]

\* Outside its transactions an order has changed nothing.
QuietOK == \A o \in Orders, l \in Lots : pc[o] \notin InTransaction => tx[o][l] = 0

\* The reservation of an order by where its coroutine is: none before the
\* COMMIT, live while it is being released, and released only at the end.
ResvOK ==
    \A o \in Orders : /\ pc[o] \in Reserving \cup {"idle", "resolve"} => resv[o] = "none"
                      /\ pc[o] = "release" => resv[o] \in Live
                      /\ resv[o] = "released" => pc[o] = "end"

\* The release has updated the lot of every line that is no longer on its list.
ReleaseOK ==
    \A o \in Orders, l \in Lots :
        pc[o] = "release" /\ l \notin todo[o] => tx[o][l] = lines[o][l]

LedgerInv == LocksOK /\ TakesOK /\ QuietOK /\ ResvOK /\ ReleaseOK /\ NoOversell

\* The components of the types that the ledger is about.
LEMMA LedgerTypes ==
    ASSUME TypeInv
    PROVE  /\ available \in [Lots -> Int] /\ total \in [Lots -> Nat]
           /\ lock \in [Lots -> Orders \cup {NoOrder}]
           /\ lines \in [Orders -> [Lots -> Nat]] /\ tx \in [Orders -> [Lots -> Nat]]
           /\ todo \in [Orders -> SUBSET Lots] /\ pc \in [Orders -> Pc]
           /\ resv \in [Orders -> {"none", "reserved", "committed", "released"}]
           /\ pick \in [Orders -> Lots \cup {AnyLot}]
           /\ \A o \in Orders : pc[o] = "update" => pick[o] \in Lots
           /\ NoOrder \notin Orders
  BY OrderAssumption
  DEF TypeInv, TypeOK, LotTypes, ReservationTypes, TransactionTypes, PlanTypes

\* The ledger is in order at the start.
LEMMA LedgerInit == Init => LedgerInv
<1> SUFFICES ASSUME Init PROVE LedgerInv OBVIOUS
<1> USE OrderAssumption DEF Init, NoLots
<1>1. LocksOK /\ TakesOK /\ QuietOK /\ ResvOK /\ ReleaseOK
  BY DEF LocksOK, TakesOK, QuietOK, ResvOK, ReleaseOK, Reserving, InTransaction
<1>2. NoOversell BY DEF NoOversell
<1> QED BY <1>1, <1>2 DEF LedgerInv

\* Two transactions have not changed the same lot.
LEMMA OneWriter ==
    ASSUME LedgerInv, NEW o \in Orders, NEW p \in Orders, o # p, NEW l \in Lots, tx[o][l] # 0
    PROVE  tx[p][l] = 0
  BY DEF LedgerInv, LocksOK

\* A transaction that is given up leaves the ledger as it was.
LEMMA LedgerLeave ==
    ASSUME TypeInv, LedgerInv, NEW o \in Orders, leave(o),
           NEW m \in Pc \ (Reserving \cup {"idle", "resolve", "release"}), Goto(o, m),
           UNCHANGED <<available, total, resv, lines>>, pc[o] # "end"
    PROVE  LedgerInv'
<1> USE LedgerTypes DEF LedgerInv
<1>1. /\ \A p \in Orders \ {o} : pc'[p] = pc[p] /\ tx'[p] = tx[p] /\ todo'[p] = todo[p]
      /\ pc'[o] = m /\ \A l \in Lots : tx'[o][l] = 0
  BY DEF Goto, leave, NoLots
<1>2. LocksOK' BY <1>1 DEF LocksOK, leave
<1>a. TakesOK'
  <2> SUFFICES ASSUME NEW p \in Orders, NEW l \in Lots, pc'[p] \in Reserving
               PROVE  tx'[p][l] <= available[l]
    BY DEF TakesOK
  <2>1. p # o /\ tx'[p] = tx[p] /\ pc'[p] = pc[p] BY <1>1
  <2> QED BY <2>1 DEF TakesOK
<1>b. QuietOK'
  <2> SUFFICES ASSUME NEW p \in Orders, NEW l \in Lots, pc'[p] \notin InTransaction
               PROVE  tx'[p][l] = 0
    BY DEF QuietOK
  <2>1. p # o => tx'[p] = tx[p] /\ pc'[p] = pc[p] BY <1>1
  <2>2. p = o => tx'[p][l] = 0 BY <1>1
  <2> QED BY <2>1, <2>2 DEF QuietOK
<1>3. TakesOK' /\ QuietOK' /\ NoOversell' BY <1>a, <1>b DEF NoOversell
<1>4. ResvOK' BY <1>1 DEF ResvOK
<1>5. ReleaseOK' BY <1>1, SMTT(20) DEF ReleaseOK
<1> QED BY <1>2, <1>3, <1>4, <1>5

\* A coroutine that moves on outside its transactions: the reservation may only
\* become committed.
LEMMA LedgerMove ==
    ASSUME TypeInv, LedgerInv, NEW o \in Orders,
           NEW m \in Pc \ (Reserving \cup {"idle", "release"}), Goto(o, m),
           UNCHANGED <<available, total, lock, lines, tx>>,
           pc[o] \notin InTransaction, pc[o] # "end", m = "resolve" => resv[o] = "none",
           \A p \in Orders \ {o} : todo'[p] = todo[p] /\ resv'[p] = resv[p],
           resv'[o] = resv[o] \/ (m # "resolve" /\ resv'[o] = "committed")
    PROVE  LedgerInv'
<1> USE LedgerTypes DEF LedgerInv
<1>1. (\A p \in Orders \ {o} : pc'[p] = pc[p]) /\ pc'[o] = m BY DEF Goto
<1>2. LocksOK' BY DEF LocksOK
<1>a. TakesOK'
  <2> SUFFICES ASSUME NEW p \in Orders, NEW l \in Lots, pc'[p] \in Reserving
               PROVE  tx'[p][l] <= available[l]
    BY DEF TakesOK
  <2>1. p # o /\ tx'[p] = tx[p] /\ pc'[p] = pc[p] BY <1>1
  <2> QED BY <2>1 DEF TakesOK
<1>b. QuietOK' BY <1>1 DEF QuietOK
<1>3. TakesOK' /\ QuietOK' /\ NoOversell' BY <1>a, <1>b DEF NoOversell
<1>4. ResvOK' BY <1>1 DEF ResvOK
<1>5. ReleaseOK' BY <1>1 DEF ReleaseOK
<1> QED BY <1>2, <1>3, <1>4, <1>5

\* resolve_items and the statements of the reservation.
LEMMA LedgerReserve ==
    ASSUME TypeInv, LedgerInv, NEW o \in Orders,
           resolve_items(o) \/ reserve_select(o) \/ reserve_update(o)
    PROVE  LedgerInv'
<1>t. /\ available \in [Lots -> Int] /\ lock \in [Lots -> Orders \cup {NoOrder}]
      /\ tx \in [Orders -> [Lots -> Nat]] /\ pc \in [Orders -> Pc] /\ NoOrder \notin Orders
      /\ pick \in [Orders -> Lots \cup {AnyLot}]
      /\ \A p \in Orders : pc[p] = "update" => pick[p] \in Lots
  BY LedgerTypes
<1> USE DEF LedgerInv
<1>f. {"fail", "charge"} \subseteq Pc \ (Reserving \cup {"idle", "resolve", "release"})
  BY DEF Pc, Reserving
<1>s. {"select", "update", "commit_tx"} = Reserving /\ Reserving \subseteq InTransaction
  BY DEF Reserving, InTransaction
<1>1. CASE resolve_items(o)
  <2>0. /\ UNCHANGED <<available, total, lock, resv, lines, tx, todo>> /\ pc[o] = "resolve"
        /\ \E m \in {"fail", "charge", "select"} : Goto(o, m)
    BY <1>1 DEF resolve_items, ledger
  <2>1. pc[o] \notin InTransaction /\ pc[o] # "end" BY <2>0 DEF InTransaction
  <2>2. ASSUME NEW m \in {"fail", "charge"}, Goto(o, m) PROVE LedgerInv'
    BY <2>0, <2>1, <2>2, <1>f, LedgerMove
  <2>3. CASE Goto(o, "select")
    <3>1. pc'[o] = "select" /\ \A p \in Orders \ {o} : pc'[p] = pc[p]
      BY <2>3, <1>t DEF Goto
    <3>2. \A l \in Lots : tx[o][l] = 0 BY <2>1 DEF QuietOK
    <3>3. resv[o] = "none" BY <2>0 DEF ResvOK
    <3>4. LocksOK' /\ NoOversell' BY <2>0 DEF LocksOK, NoOversell
    <3>5. TakesOK' BY <2>0, <3>1, <3>2, <1>t DEF TakesOK, NoOversell
    <3>6. QuietOK' BY <2>0, <3>1, <3>2 DEF QuietOK
    <3>7. ResvOK' BY <2>0, <3>1, <3>3 DEF ResvOK, Live
    <3>8. ReleaseOK' BY <2>0, <3>1 DEF ReleaseOK
    <3> QED BY <3>4, <3>5, <3>6, <3>7, <3>8
  <2> QED BY <2>0, <2>2, <2>3
<1>r. ASSUME raise_in_transaction(o), pc[o] \in Reserving,
             UNCHANGED <<available, total, resv, lines>>
      PROVE  LedgerInv'
  <2>1. leave(o) /\ Goto(o, "fail") /\ pc[o] # "end"
    BY <1>r DEF raise_in_transaction, Reserving
  <2> QED BY <2>1, <1>r, <1>f, LedgerLeave
<1>2. CASE reserve_select(o)
  <2>0. UNCHANGED <<available, total, resv, lines>> /\ pc[o] = "select"
    BY <1>2 DEF reserve_select
  <2>1. \/ Goto(o, "update") /\ UNCHANGED <<tx, todo, lock>>
        \/ raise_in_transaction(o)
    BY <1>2 DEF reserve_select
  <2>2. CASE Goto(o, "update") /\ UNCHANGED <<tx, todo, lock>>
    <3>1. pc'[o] = "update" /\ \A p \in Orders \ {o} : pc'[p] = pc[p]
      BY <2>2, <1>t DEF Goto
    <3>2. LocksOK' /\ NoOversell' BY <2>0, <2>2 DEF LocksOK, NoOversell
    <3>3. TakesOK' BY <2>0, <2>2, <3>1, <1>s DEF TakesOK
    <3>4. QuietOK' BY <2>2, <3>1, <1>s DEF QuietOK
    <3>5. ResvOK' BY <2>0, <3>1, <1>s DEF ResvOK
    <3>6. ReleaseOK' BY <2>0, <2>2, <3>1 DEF ReleaseOK
    <3> QED BY <3>2, <3>3, <3>4, <3>5, <3>6
  <2> QED BY <2>0, <2>1, <2>2, <1>r, <1>s
<1>3. CASE reserve_update(o)
  <2>0. UNCHANGED <<available, total, resv, lines>> /\ pc[o] = "update"
    BY <1>3 DEF reserve_update
  <2> DEFINE l == pick[o]
  <2>1. CASE ~raise_in_transaction(o)
    <3>1. /\ lock[l] \in {NoOrder, o} /\ Fits(o, l)
          /\ lock' = [lock EXCEPT ![l] = o]
          /\ tx' = [tx EXCEPT ![o][l] = Item(o).quantity]
          /\ UNCHANGED todo
          /\ Goto(o, "commit_tx") \/ Goto(o, "select")
      BY <1>3, <2>1 DEF reserve_update
    <3>2. l \in Lots BY <2>0, <1>t
    <3>3. Item(o).quantity \in Nat /\ Item(o).quantity <= available[l]
      <4>1. Item(o).quantity \in Nat
        BY <2>0, CartFacts DEF Item, TypeInv, ItemsOK, Reserving, Entry
      <4>2. available[l] - tx[o][l] >= Item(o).quantity /\ tx[o][l] = 0
        BY <3>1 DEF Fits, Visible
      <4>3. available[l] \in Int BY <3>2, <1>t
      <4> QED BY <4>1, <4>2, <4>3
    <3> HIDE DEF l
    <3>4. /\ \A p \in Orders \ {o} : pc'[p] = pc[p] /\ tx'[p] = tx[p]
          /\ pc'[o] \in Reserving
          /\ tx'[o][l] = Item(o).quantity
          /\ \A k \in Lots \ {l} : tx'[o][k] = tx[o][k] /\ lock'[k] = lock[k]
          /\ lock'[l] = o
      BY <3>1, <3>2, <1>t DEF Goto, Reserving
    <3>5. ASSUME NEW p \in Orders, NEW k \in Lots, tx'[p][k] # 0 PROVE lock'[k] = p
      <4>1. CASE p = o BY <4>1, <3>4, <3>5 DEF LocksOK
      <4>2. CASE p # o
        <5>1. lock[k] = p BY <4>2, <3>4, <3>5 DEF LocksOK
        <5>2. k # l BY <5>1, <3>1, <4>2, <1>t
        <5> QED BY <5>1, <5>2, <3>4
      <4> QED BY <4>1, <4>2
    <3>6. LocksOK' BY <3>5 DEF LocksOK
    <3>7. ASSUME NEW p \in Orders, NEW k \in Lots, pc'[p] \in Reserving
          PROVE  tx'[p][k] <= available[k]
      <4>1. CASE p = o /\ k = l BY <4>1, <3>3, <3>4
      <4>2. CASE p # o \/ k # l BY <4>2, <2>0, <3>4, <3>7, <1>s DEF TakesOK
      <4> QED BY <4>1, <4>2
    <3>8. TakesOK' BY <3>7, <2>0 DEF TakesOK
    <3>9. QuietOK' BY <3>4, <1>s DEF QuietOK
    <3>10. ResvOK' BY <2>0, <3>4, <1>s DEF ResvOK
    <3>11. ReleaseOK' BY <2>0, <3>1, <3>4, <1>s DEF ReleaseOK
    <3>12. NoOversell' BY <2>0 DEF NoOversell
    <3> QED BY <3>6, <3>8, <3>9, <3>10, <3>11, <3>12
  <2> QED BY <2>0, <2>1, <1>r, <1>s
<1> QED BY <1>1, <1>2, <1>3

\* COMMIT of a reservation and of a release, and the release's statements.
LEMMA LedgerCommit ==
    ASSUME TypeInv, LedgerInv, NEW o \in Orders,
           \/ reserve_commit(o) \/ run_step_compensation(o)
           \/ release_update(o) \/ release_commit(o)
    PROVE  LedgerInv'
<1>t. /\ available \in [Lots -> Int] /\ lock \in [Lots -> Orders \cup {NoOrder}]
      /\ tx \in [Orders -> [Lots -> Nat]] /\ pc \in [Orders -> Pc] /\ NoOrder \notin Orders
      /\ lines \in [Orders -> [Lots -> Nat]] /\ todo \in [Orders -> SUBSET Lots]
      /\ resv \in [Orders -> {"none", "reserved", "committed", "released"}]
  BY LedgerTypes
<1> USE DEF LedgerInv
<1>f. {"fail", "charge", "end"} \subseteq Pc \ (Reserving \cup {"idle", "resolve", "release"})
  BY DEF Pc, Reserving
<1>1. CASE reserve_commit(o)
  <2>0. /\ pc[o] = "commit_tx" /\ leave(o) /\ \E m \in {"charge", "fail"} : Goto(o, m)
        /\ available' = [l \in Lots |-> available[l] - tx[o][l]]
        /\ lines' = [lines EXCEPT ![o] = tx[o]]
        /\ resv' = [resv EXCEPT ![o] = "reserved"]
    BY <1>1 DEF reserve_commit, answer
  <2>1. /\ \A p \in Orders \ {o} : /\ pc'[p] = pc[p] /\ tx'[p] = tx[p] /\ todo'[p] = todo[p]
                                   /\ resv'[p] = resv[p] /\ lines'[p] = lines[p]
        /\ pc'[o] \in {"charge", "fail"} /\ \A l \in Lots : tx'[o][l] = 0
        /\ resv'[o] = "reserved"
    BY <2>0, <1>t DEF Goto, leave, NoLots
  <2>2. \A l \in Lots : tx[o][l] <= available[l] BY <2>0 DEF TakesOK, Reserving
  <2>3. LocksOK' BY <2>0, <2>1 DEF LocksOK, leave
  <2>4. ASSUME NEW p \in Orders, NEW l \in Lots, pc'[p] \in Reserving
        PROVE  tx'[p][l] <= available'[l]
    <3>1. p # o BY <2>1, <2>4 DEF Reserving
    <3>2. tx[p][l] <= available[l] /\ tx'[p] = tx[p]
      BY <2>1, <2>4, <3>1 DEF TakesOK
    <3>3. tx[o][l] = 0 \/ tx[p][l] = 0 BY <3>1, OneWriter
    <3>4. available'[l] = available[l] - tx[o][l] BY <2>0
    <3>5. available[l] \in Int /\ tx[o][l] \in Nat /\ tx[p][l] \in Nat BY <1>t
    <3> QED BY <3>2, <3>3, <3>4, <3>5, <2>2
  <2>5. TakesOK' BY <2>4 DEF TakesOK
  <2>6. QuietOK' BY <2>1 DEF QuietOK
  <2>7. ResvOK' BY <2>1, <1>f DEF ResvOK
  <2>8. ReleaseOK' BY <2>1 DEF ReleaseOK
  <2>9. NoOversell' BY <2>0, <2>2, <1>t DEF NoOversell
  <2> QED BY <2>3, <2>5, <2>6, <2>7, <2>8, <2>9
<1>2. CASE run_step_compensation(o)
  <2>0. /\ pc[o] = "undo" /\ UNCHANGED <<available, total, lock, resv, lines, tx>>
    BY <1>2 DEF run_step_compensation, ledger
  <2>1. pc[o] \notin InTransaction /\ pc[o] # "end" BY <2>0 DEF InTransaction
  <2>2. \/ Goto(o, "end") /\ UNCHANGED todo
        \/ /\ Goto(o, "release") /\ resv[o] # "none"
           /\ todo' = [todo EXCEPT ![o] = {l \in Lots : lines[o][l] > 0}]
    BY <1>2 DEF run_step_compensation
  <2>3. CASE Goto(o, "end") /\ UNCHANGED todo BY <2>0, <2>1, <2>3, <1>f, LedgerMove
  <2>4. CASE /\ Goto(o, "release") /\ resv[o] # "none"
             /\ todo' = [todo EXCEPT ![o] = {l \in Lots : lines[o][l] > 0}]
    <3>1. /\ \A p \in Orders \ {o} : pc'[p] = pc[p] /\ todo'[p] = todo[p]
          /\ pc'[o] = "release" /\ todo'[o] = {l \in Lots : lines[o][l] > 0}
      BY <2>4, <1>t DEF Goto
    <3>2. \A l \in Lots : tx[o][l] = 0 BY <2>1 DEF QuietOK
    <3>3. resv[o] \in Live BY <2>0, <2>4, <1>t DEF ResvOK, Live
    <3>4. LocksOK' /\ NoOversell' BY <2>0 DEF LocksOK, NoOversell
    <3>5. TakesOK' BY <2>0, <3>1 DEF TakesOK, Reserving
    <3>6. QuietOK' BY <2>0, <3>1 DEF QuietOK, InTransaction
    <3>7. ResvOK' BY <2>0, <3>1, <3>3 DEF ResvOK, Live, Reserving
    <3>8. \A l \in Lots \ todo'[o] : lines[o][l] = 0 BY <3>1, <1>t
    <3>9. ReleaseOK' BY <2>0, <3>1, <3>2, <3>8 DEF ReleaseOK
    <3> QED BY <3>4, <3>5, <3>6, <3>7, <3>9
  <2> QED BY <2>2, <2>3, <2>4
<1>3. CASE release_update(o)
  <2>0. /\ pc[o] = "release" /\ UNCHANGED <<available, resv, lines, pc>>
    BY <1>3 DEF release_update
  <2>1. PICK l \in todo[o] : /\ lock[l] = NoOrder /\ lock' = [lock EXCEPT ![l] = o]
                             /\ tx' = [tx EXCEPT ![o][l] = lines[o][l]]
                             /\ todo' = [todo EXCEPT ![o] = @ \ {l}]
    BY <1>3 DEF release_update
  <2>2. l \in Lots BY <1>t
  <2>3. /\ \A p \in Orders \ {o} : tx'[p] = tx[p] /\ todo'[p] = todo[p]
        /\ tx'[o][l] = lines[o][l] /\ lock'[l] = o /\ todo'[o] = todo[o] \ {l}
        /\ \A k \in Lots \ {l} : tx'[o][k] = tx[o][k] /\ lock'[k] = lock[k]
    BY <2>1, <2>2, <1>t
  <2>4. ASSUME NEW p \in Orders, NEW k \in Lots, tx'[p][k] # 0 PROVE lock'[k] = p
    <3>1. CASE p = o BY <3>1, <2>3, <2>4 DEF LocksOK
    <3>2. CASE p # o
      <4>1. lock[k] = p BY <3>2, <2>3, <2>4 DEF LocksOK
      <4>2. k # l BY <4>1, <2>1, <1>t
      <4> QED BY <4>1, <4>2, <2>3
    <3> QED BY <3>1, <3>2
  <2>5. LocksOK' BY <2>4 DEF LocksOK
  <2>6. pc[o] \notin Reserving BY <2>0 DEF Reserving
  <2>7. TakesOK' BY <2>0, <2>3, <2>6 DEF TakesOK
  <2>8. pc[o] \in InTransaction BY <2>0 DEF InTransaction
  <2>9. QuietOK' BY <2>0, <2>3, <2>8 DEF QuietOK
  <2>10. ResvOK' /\ NoOversell' BY <2>0 DEF ResvOK, NoOversell
  <2>11. ReleaseOK' BY <2>0, <2>3 DEF ReleaseOK
  <2> QED BY <2>5, <2>7, <2>9, <2>10, <2>11
<1>4. CASE release_commit(o)
  <2>0. /\ pc[o] = "release" /\ leave(o) /\ Goto(o, "end") /\ UNCHANGED lines
        /\ available' = [l \in Lots |-> available[l] + tx[o][l]]
        /\ resv' = [resv EXCEPT ![o] = "released"]
    BY <1>4 DEF release_commit
  <2>1. /\ \A p \in Orders \ {o} : /\ pc'[p] = pc[p] /\ tx'[p] = tx[p] /\ todo'[p] = todo[p]
                                   /\ resv'[p] = resv[p]
        /\ pc'[o] = "end" /\ \A l \in Lots : tx'[o][l] = 0
    BY <2>0, <1>t DEF Goto, leave, NoLots
  <2>2. \A l \in Lots : available'[l] >= available[l] /\ available'[l] \in Int
    BY <2>0, <1>t
  <2>3. LocksOK' BY <2>0, <2>1 DEF LocksOK, leave
  <2>4. ASSUME NEW p \in Orders, NEW l \in Lots, pc'[p] \in Reserving
        PROVE  tx'[p][l] <= available'[l]
    <3>1. p # o BY <2>1, <2>4 DEF Reserving
    <3>2. tx[p][l] <= available[l] /\ tx'[p] = tx[p]
      BY <2>1, <2>4, <3>1 DEF TakesOK
    <3>5. available[l] \in Int /\ tx[p][l] \in Nat BY <1>t
    <3> QED BY <3>2, <3>5, <2>2
  <2>5. TakesOK' BY <2>4 DEF TakesOK
  <2>6. QuietOK' BY <2>1 DEF QuietOK
  <2>7. ResvOK' BY <2>1, <1>f DEF ResvOK
  <2>8. ReleaseOK' BY <2>0, <2>1 DEF ReleaseOK
  <2>9. NoOversell' BY <2>2, <1>t DEF NoOversell
  <2> QED BY <2>3, <2>5, <2>6, <2>7, <2>8, <2>9
<1> QED BY <1>1, <1>2, <1>3, <1>4

\* The other steps of the plan and whatever gives a transaction up.
LEMMA LedgerPlan ==
    ASSUME TypeInv, LedgerInv, NEW o \in Orders,
           \/ charge(o) \/ post_accounting(o) \/ commit_inventory(o) \/ finish(o)
           \/ write_failed(o) \/ run_saga_failed(o) \/ init_order_saga(o)
           \/ deadlock_detected(o) \/ db_error(o) \/ crash(o)
    PROVE  LedgerInv'
<1>f. {"accounting", "commit", "finish", "end", "undo", "fail", "fail_again", "dead"}
        \subseteq Pc \ (Reserving \cup {"idle", "resolve", "release"})
  BY DEF Pc, Reserving
<1>t. /\ pc \in [Orders -> Pc]
      /\ resv \in [Orders -> {"none", "reserved", "committed", "released"}]
  BY LedgerTypes
<1>1. CASE charge(o) \/ post_accounting(o) \/ finish(o) \/ write_failed(o) \/ run_saga_failed(o)
  <2>0. UNCHANGED <<available, total, lock, resv, lines, tx, todo>>
    BY <1>1 DEF charge, post_accounting, finish, write_failed, run_saga_failed, ledger
  <2>1. pc[o] \in {"charge", "accounting", "finish", "fail", "fail_again"}
    BY <1>1 DEF charge, post_accounting, finish, write_failed, run_saga_failed
  <2>2. PICK m \in {"accounting", "commit", "finish", "end", "undo", "fail"} : Goto(o, m)
    BY <1>1 DEF charge, post_accounting, finish, write_failed, run_saga_failed, answer
  <2>3. pc[o] \notin InTransaction /\ pc[o] # "end" BY <2>1 DEF InTransaction
  <2> QED BY <2>0, <2>2, <2>3, <1>f, LedgerMove
<1>2. CASE commit_inventory(o)
  <2>0. /\ UNCHANGED <<available, total, lock, lines, tx, todo>> /\ pc[o] = "commit"
        /\ resv' = [resv EXCEPT ![o] = IF @ = "none" THEN @ ELSE "committed"]
        /\ \E m \in {"finish", "fail"} : Goto(o, m)
    BY <1>2 DEF commit_inventory, answer
  <2>1. PICK m \in {"finish", "fail"} : Goto(o, m) BY <2>0
  <2>2. /\ \A p \in Orders \ {o} : todo'[p] = todo[p] /\ resv'[p] = resv[p]
        /\ resv'[o] = resv[o] \/ resv'[o] = "committed"
    BY <2>0, <1>t
  <2>3. pc[o] \notin InTransaction /\ pc[o] # "end" BY <2>0 DEF InTransaction
  <2> QED BY <2>0, <2>1, <2>2, <2>3, <1>f, LedgerMove
<1>3. CASE init_order_saga(o)
  <2>0. /\ UNCHANGED <<available, total, lock, resv, lines, tx, todo>> /\ pc[o] = "idle"
        /\ Goto(o, "resolve")
    BY <1>3 DEF init_order_saga, ledger
  <2>1. pc[o] \notin InTransaction /\ pc[o] # "end" BY <2>0 DEF InTransaction
  <2>2. resv[o] = "none" BY <2>0 DEF LedgerInv, ResvOK
  <2>3. "resolve" \in Pc \ (Reserving \cup {"idle", "release"}) BY DEF Pc, Reserving
  <2> QED BY <2>0, <2>1, <2>2, <2>3, LedgerMove
<1>4. CASE deadlock_detected(o) \/ db_error(o) \/ crash(o)
  <2>0. leave(o) /\ UNCHANGED <<available, total, resv, lines>>
    BY <1>4 DEF deadlock_detected, db_error, crash
  <2>1. PICK m \in {"fail", "fail_again", "end", "dead"} : Goto(o, m)
    BY <1>4 DEF deadlock_detected, db_error, crash, Except
  <2>2. pc[o] # "end"
    <3>1. CASE deadlock_detected(o)
      <4>1. Wants(o) # {} BY <3>1 DEF deadlock_detected, Deadlocked
      <4> QED BY <4>1 DEF Wants
    <3>2. CASE db_error(o) \/ crash(o) BY <3>2 DEF db_error, crash, InTransaction
    <3> QED BY <1>4, <3>1, <3>2
  <2> QED BY <2>0, <2>1, <2>2, <1>f, LedgerLeave
<1> QED BY <1>1, <1>2, <1>3, <1>4

\* What the orders hold of a lot is a natural number each, and Units counts it.
LEMMA UnitsArePile ==
    ASSUME TypeInv, NEW l \in Lots
    PROVE  /\ [o \in Orders |-> Holds(o, l)] \in [Orders -> Nat]
           /\ Units(l) = Pile([o \in Orders |-> Holds(o, l)])
           /\ Cardinality(Units(l)) \in Nat
<1>1. [o \in Orders |-> Holds(o, l)] \in [Orders -> Nat] BY LedgerTypes DEF Holds
<1>2. Units(l) = Pile([o \in Orders |-> Holds(o, l)])
  <2> DEFINE held == [o \in Orders |-> Holds(o, l)]
  <2>1. \A o \in Orders : held[o] = Holds(o, l) OBVIOUS
  <2> HIDE DEF held
  <2> QED BY <2>1 DEF Units, Pile
<1>3. IsFiniteSet(Units(l)) BY <1>1, <1>2, PileIsFinite
<1> QED BY <1>1, <1>2, <1>3, FS_CardinalityType

\* A step after which everybody holds what he held.
LEMMA StockStays ==
    ASSUME StockAddsUp, UNCHANGED <<available, total>>,
           \A o \in Orders, l \in Lots : Holds(o, l)' = Holds(o, l)
    PROVE  StockAddsUp'
<1>1. \A l \in Lots : Units(l)' = Units(l) BY DEF Units
<1> QED BY <1>1 DEF StockAddsUp

\* A COMMIT that moves units between a lot and the order's lines.
LEMMA StockMoves ==
    ASSUME TypeInv, TypeInv', StockAddsUp, UNCHANGED total, NEW o \in Orders,
           \A p \in Orders \ {o}, l \in Lots : Holds(p, l)' = Holds(p, l),
           \A l \in Lots : available'[l] = available[l] + Holds(o, l) - Holds(o, l)'
    PROVE  StockAddsUp'
<1> SUFFICES ASSUME NEW l \in Lots
             PROVE  available'[l] + Cardinality(Units(l)') = total[l]
  BY DEF StockAddsUp
<1>0. PICK old, new : /\ old = [p \in Orders |-> Holds(p, l)]
                      /\ new = [p \in Orders |-> Holds(p, l)']
  OBVIOUS
<1>1. /\ old \in [Orders -> Nat] /\ Units(l) = Pile(old) /\ Cardinality(Units(l)) \in Nat
  BY <1>0, UnitsArePile
<1>2. ASSUME NEW p \in Orders PROVE Holds(p, l)' \in Nat
  <2>1. lines' \in [Orders -> [Lots -> Nat]] BY DEF TypeInv, TypeOK, ReservationTypes
  <2> QED BY <2>1 DEF Holds
<1>3. new \in [Orders -> Nat] BY <1>0, <1>2
<1>4. Units(l)' = Pile(new)
  <2>1. \A p \in Orders : new[p] = Holds(p, l)' BY <1>0
  <2> QED BY <2>1 DEF Units, Pile
<1>5. \A p \in Orders \ {o} : new[p] = old[p] BY <1>0
<1>6. Cardinality(Pile(new)) = Cardinality(Pile(old)) - old[o] + new[o]
  BY <1>1, <1>3, <1>5, PileChange
<1>7. available'[l] = available[l] + old[o] - new[o] BY <1>0
<1>8. available[l] + Cardinality(Pile(old)) = total[l] BY <1>1 DEF StockAddsUp
<1>9. available[l] \in Int /\ old[o] \in Nat /\ new[o] \in Nat /\ total[l] \in Nat
  BY <1>1, <1>3, LedgerTypes
<1> HIDE DEF Pile
<1> QED BY <1>1, <1>4, <1>6, <1>7, <1>8, <1>9

\* The release and the receipt of stock, the two that give a lot more, and the
\* reservation, that takes from it.
LEMMA StockStep ==
    ASSUME TypeInv, TypeInv', LedgerInv, StockAddsUp, [Next]_vars
    PROVE  StockAddsUp'
<1>t. /\ available \in [Lots -> Int] /\ total \in [Lots -> Nat]
      /\ lines \in [Orders -> [Lots -> Nat]] /\ tx \in [Orders -> [Lots -> Nat]]
      /\ resv \in [Orders -> {"none", "reserved", "committed", "released"}]
  BY LedgerTypes
<1>1. ASSUME NEW o \in Orders, reserve_commit(o) PROVE StockAddsUp'
  <2>0. /\ pc[o] = "commit_tx" /\ UNCHANGED total
        /\ available' = [l \in Lots |-> available[l] - tx[o][l]]
        /\ lines' = [lines EXCEPT ![o] = tx[o]]
        /\ resv' = [resv EXCEPT ![o] = "reserved"]
    BY <1>1 DEF reserve_commit
  <2>1. resv[o] = "none" BY <2>0 DEF LedgerInv, ResvOK, Reserving
  <2>2. \A p \in Orders \ {o}, l \in Lots : Holds(p, l)' = Holds(p, l)
    BY <2>0, <1>t DEF Holds
  <2>3. \A l \in Lots : Holds(o, l) = 0 /\ Holds(o, l)' = tx[o][l]
    BY <2>0, <2>1, <1>t DEF Holds, Live
  <2>4. \A l \in Lots : available'[l] = available[l] + Holds(o, l) - Holds(o, l)'
    BY <2>0, <2>3, <1>t
  <2> QED BY <2>0, <2>2, <2>4, StockMoves
<1>2. ASSUME NEW o \in Orders, release_commit(o) PROVE StockAddsUp'
  <2>0. /\ pc[o] = "release" /\ todo[o] = {} /\ UNCHANGED <<total, lines>>
        /\ available' = [l \in Lots |-> available[l] + tx[o][l]]
        /\ resv' = [resv EXCEPT ![o] = "released"]
    BY <1>2 DEF release_commit
  <2>1. resv[o] \in Live BY <2>0 DEF LedgerInv, ResvOK
  <2>2. \A l \in Lots : tx[o][l] = lines[o][l] BY <2>0 DEF LedgerInv, ReleaseOK
  <2>3. \A p \in Orders \ {o}, l \in Lots : Holds(p, l)' = Holds(p, l)
    BY <2>0, <1>t DEF Holds
  <2>4. \A l \in Lots : Holds(o, l) = tx[o][l] /\ Holds(o, l)' = 0
    BY <2>0, <2>1, <2>2, <1>t DEF Holds, Live
  <2>5. \A l \in Lots : available'[l] = available[l] + Holds(o, l) - Holds(o, l)'
    BY <2>0, <2>4, <1>t
  <2> QED BY <2>0, <2>3, <2>5, StockMoves
<1>3. ASSUME NEW k \in Lots, vision_apply_update(k) PROVE StockAddsUp'
  <2>0. /\ total[k] = 0 /\ available' = [available EXCEPT ![k] = Stock[k]]
        /\ total' = [total EXCEPT ![k] = Stock[k]] /\ UNCHANGED <<resv, lines>>
    BY <1>3 DEF vision_apply_update
  <2>1. Cardinality(Units(k)) = 0
    <3>1. available[k] + Cardinality(Units(k)) = 0 /\ available[k] >= 0
      BY <2>0 DEF StockAddsUp, LedgerInv, NoOversell
    <3>2. available[k] \in Int /\ Cardinality(Units(k)) \in Nat BY <1>t, UnitsArePile
    <3> QED BY <3>1, <3>2
  <2>2. \A l \in Lots : Units(l)' = Units(l) BY <2>0 DEF Units, Holds
  <2>3. ASSUME NEW l \in Lots PROVE available'[l] + Cardinality(Units(l)) = total'[l]
    <3>1. Stock[k] \in Nat BY OrderAssumption
    <3>2. CASE l = k BY <3>1, <3>2, <2>0, <2>1, <1>t
    <3>3. CASE l # k BY <3>3, <2>0, <1>t DEF StockAddsUp
    <3> QED BY <3>2, <3>3
  <2> QED BY <2>2, <2>3 DEF StockAddsUp
<1>4. ASSUME NEW o \in Orders, commit_inventory(o) PROVE StockAddsUp'
  <2>0. /\ UNCHANGED <<available, total, lines>>
        /\ resv' = [resv EXCEPT ![o] = IF @ = "none" THEN @ ELSE "committed"]
        /\ pc[o] = "commit"
    BY <1>4 DEF commit_inventory
  <2>1. resv[o] # "released" BY <2>0 DEF LedgerInv, ResvOK
  <2>2. \A p \in Orders : resv[p] \in Live <=> resv'[p] \in Live
    BY <2>0, <2>1, <1>t DEF Live
  <2>3. \A p \in Orders, l \in Lots : Holds(p, l)' = Holds(p, l) BY <2>0, <2>2 DEF Holds
  <2> QED BY <2>0, <2>3, StockStays
<1>5. ASSUME UNCHANGED <<available, total, resv, lines>> PROVE StockAddsUp'
  <2>1. \A p \in Orders, l \in Lots : Holds(p, l)' = Holds(p, l) BY <1>5 DEF Holds
  <2> QED BY <1>5, <2>1, StockStays
<1>6. ASSUME NEW o \in Orders,
             \/ resolve_items(o) \/ reserve_select(o) \/ reserve_update(o) \/ charge(o)
             \/ post_accounting(o) \/ finish(o) \/ write_failed(o) \/ run_saga_failed(o)
      PROVE  UNCHANGED <<available, total, resv, lines>>
  BY <1>6 DEF resolve_items, reserve_select, reserve_update, charge, post_accounting,
              finish, write_failed, run_saga_failed, ledger
<1>7. ASSUME NEW o \in Orders,
             \/ run_step_compensation(o) \/ release_update(o) \/ deadlock_detected(o)
             \/ init_order_saga(o) \/ db_error(o) \/ crash(o)
             \/ recover(o) \/ recover_mark(o) \/ recover_end(o)
      PROVE  UNCHANGED <<available, total, resv, lines>>
  BY <1>7 DEF run_step_compensation, release_update, deadlock_detected, init_order_saga,
              db_error, crash, recover, recover_mark, recover_end, ledger
<1>8. ASSUME UNCHANGED vars
      PROVE  UNCHANGED <<available, total, resv, lines>>
  BY <1>8 DEF vars, ledger
<1> QED BY <1>1, <1>2, <1>3, <1>4, <1>5, <1>6, <1>7, <1>8 DEF Next, Step

\* Every step keeps the ledger in order, given that the stock adds up: that is
\* why a lot that has never been put in has nothing available.
LEMMA LedgerStep ==
    ASSUME TypeInv, LedgerInv, StockAddsUp, [Next]_vars
    PROVE  LedgerInv'
<1>1. ASSUME NEW o \in Orders, Step(o) \/ init_order_saga(o) \/ db_error(o) \/ crash(o)
      PROVE  LedgerInv'
  BY <1>1, LedgerReserve, LedgerCommit, LedgerPlan DEF Step
<1>2. ASSUME UNCHANGED <<available, lock, resv, lines, pc, tx, todo>> PROVE LedgerInv'
  BY <1>2 DEF LedgerInv, LocksOK, TakesOK, QuietOK, ResvOK, ReleaseOK, NoOversell
<1>3. ASSUME \/ \E o \in Orders : recover(o) \/ recover_mark(o) \/ recover_end(o)
             \/ UNCHANGED vars
      PROVE  UNCHANGED <<available, lock, resv, lines, pc, tx, todo>>
  BY <1>3 DEF recover, recover_mark, recover_end, ledger, coroutine, vars
<1>4. ASSUME NEW k \in Lots, vision_apply_update(k) PROVE LedgerInv'
  <2>0. /\ total[k] = 0 /\ available' = [available EXCEPT ![k] = Stock[k]]
        /\ UNCHANGED <<lock, resv, lines, pc, tx, todo>>
    BY <1>4 DEF vision_apply_update, coroutine
  <2>t. available \in [Lots -> Int] /\ tx \in [Orders -> [Lots -> Nat]] BY LedgerTypes
  <2>1. available[k] <= Stock[k] /\ Stock[k] \in Nat
    <3>1. available[k] + Cardinality(Units(k)) = 0 BY <2>0 DEF StockAddsUp
    <3>2. available[k] \in Int /\ Cardinality(Units(k)) \in Nat BY <2>t, UnitsArePile
    <3> QED BY <3>1, <3>2, OrderAssumption
  <2>2. ASSUME NEW p \in Orders, NEW l \in Lots, pc[p] \in Reserving
        PROVE  tx[p][l] <= available'[l]
    <3>1. tx[p][l] <= available[l] BY <2>2 DEF LedgerInv, TakesOK
    <3>2. tx[p][l] \in Nat /\ available[l] \in Int BY <2>t
    <3>3. available'[l] = available[l] \/ (l = k /\ available'[l] = Stock[k]) BY <2>0, <2>t
    <3> QED BY <3>1, <3>2, <3>3, <2>1
  <2>3. TakesOK' BY <2>0, <2>2 DEF TakesOK
  <2>4. NoOversell' BY <2>0, <2>1, <2>t DEF LedgerInv, NoOversell
  <2>5. LocksOK' /\ QuietOK' /\ ResvOK' /\ ReleaseOK'
    BY <2>0 DEF LedgerInv, LocksOK, QuietOK, ResvOK, ReleaseOK
  <2> QED BY <2>3, <2>4, <2>5 DEF LedgerInv
<1> QED BY <1>1, <1>2, <1>3, <1>4 DEF Next

\* At the start nobody holds anything.
LEMMA StockInit == Init => StockAddsUp
<1> SUFFICES ASSUME Init, NEW l \in Lots
             PROVE  available[l] + Cardinality(Units(l)) = total[l]
  BY DEF StockAddsUp
<1>1. \A o \in Orders : Holds(o, l) = 0 BY DEF Init, Holds, Live
<1>2. Units(l) = {}
  <2>1. \A o \in Orders : {o} \X (1..Holds(o, l)) = {} BY <1>1
  <2> QED BY <2>1 DEF Units
<1>3. Cardinality(Units(l)) = 0 BY <1>2, FS_EmptySet
<1>4. total[l] = available[l] /\ available[l] \in Nat BY OrderAssumption DEF Init
<1> QED BY <1>3, <1>4

\* The ledger adds up, and what it needs for that, in every state.
THEOREM LedgerInvariant == Spec => [](TypeInv /\ LedgerInv /\ StockAddsUp)
<1>1. Init => TypeInv /\ LedgerInv /\ StockAddsUp BY TypeInit, LedgerInit, StockInit
<1>2. TypeInv /\ LedgerInv /\ StockAddsUp /\ [Next]_vars
        => (TypeInv /\ LedgerInv /\ StockAddsUp)'
  <2> SUFFICES ASSUME TypeInv, LedgerInv, StockAddsUp, [Next]_vars
               PROVE  TypeInv' /\ LedgerInv' /\ StockAddsUp'
    OBVIOUS
  <2>1. TypeInv' BY TypeStep
  <2> QED BY <2>1, LedgerStep, StockStep
<1> QED BY <1>1, <1>2, PTL DEF Spec

\* What a lot has available and what the live reservations hold of it is what
\* has been put in: reserve, release and vision_apply_update keep inventory_lot
\* and inventory_reservation_line in step, for any orders, lots and faults.
THEOREM StockAddsUpHolds == Spec => []StockAddsUp
<1> QED BY LedgerInvariant, PTL

\* quantity_available never falls below zero, for any number of orders that
\* reserve the same lots at the same time: the UPDATE's condition and its row
\* lock are enough although the lot was picked by an earlier SELECT.
THEOREM NoOversellHolds == Spec => []NoOversell
<1>1. LedgerInv => NoOversell BY DEF LedgerInv
<1> QED BY <1>1, LedgerInvariant, PTL

-----------------------------------------------------------------------------
(* What an order's row and its reservation say of each other.                *)

\* The stock of the order is taken, in status s, or it needs none.
Taken(o, s) == resv[o] = s \/ (resv[o] = "none" /\ Reservable(o, 0) = {})

\* The steps up to the one the coroutine is at have done what they are for.
Booked(o) ==
    /\ pc[o] \in {"charge", "accounting", "commit"} => Taken(o, "reserved")
    /\ pc[o] = "finish" => Taken(o, "committed")
    /\ pc[o] \in {"commit", "finish"} => posted[o]
    /\ row[o] = "succeeded" => /\ pc[o] \in {"end", "fail", "fail_again", "dead"}
                               /\ posted[o]
                               /\ resv[o] = "committed" \/ Reservable(o, 0) = {}

\* A reservation is in executed_steps, so that the compensation finds it, or its
\* order is among those that may keep it.
Explained(o) ==
    /\ resv[o] = "reserved" => done[o] >= Reserved \/ o \in hurt
    /\ pc[o] = "fail_again" => o \in hurt
    /\ pc[o] = "end" /\ resv[o] = "reserved" => o \in hurt

PlanInv == \A o \in Orders : Booked(o) /\ Explained(o)

\* What the properties of an order are about is its own.
Mine(o) == <<pc[o], row[o], cart[o], resv[o], posted[o], done[o]>>

\* An order whose own state stays keeps what is said of it.
LEMMA PlanStays ==
    ASSUME NEW p \in Orders, Booked(p), Explained(p), Mine(p)' = Mine(p), hurt \subseteq hurt'
    PROVE  Booked(p)' /\ Explained(p)'
<1>1. /\ pc'[p] = pc[p] /\ row'[p] = row[p] /\ cart'[p] = cart[p] /\ resv'[p] = resv[p]
      /\ posted'[p] = posted[p] /\ done'[p] = done[p]
  BY DEF Mine
<1>2. Reservable(p, 0)' = Reservable(p, 0) BY <1>1 DEF Reservable
<1>3. \A s : Taken(p, s)' = Taken(p, s) BY <1>1, <1>2 DEF Taken
<1>4. Booked(p)' BY <1>1, <1>2, <1>3 DEF Booked
<1>5. Explained(p)' BY <1>1 DEF Explained
<1> QED BY <1>4, <1>5

\* The types these proofs need.
LEMMA PlanTypesOf ==
    ASSUME TypeInv
    PROVE  /\ pc \in [Orders -> Pc] /\ done \in [Orders -> 0..Committed]
           /\ row \in [Orders -> Row] /\ cart \in [Orders -> Seq(Entry)]
           /\ resv \in [Orders -> {"none", "reserved", "committed", "released"}]
           /\ posted \in [Orders -> BOOLEAN]
  BY DEF TypeInv, TypeOK, OrderTypes, ReservationTypes, PlanTypes

\* A step of one order leaves the others alone.
LEMMA OwnStep ==
    ASSUME TypeInv, NEW o \in Orders, NEW p \in Orders \ {o},
           Step(o) \/ init_order_saga(o) \/ db_error(o) \/ crash(o)
           \/ recover(o) \/ recover_mark(o) \/ recover_end(o)
    PROVE  Mine(p)' = Mine(p) /\ hurt \subseteq hurt'
<1> USE PlanTypesOf DEF Mine, Goto
<1>1. CASE \/ resolve_items(o) \/ reserve_select(o) \/ reserve_update(o) \/ reserve_commit(o)
  BY <1>1 DEF resolve_items, reserve_select, reserve_update, reserve_commit, answer,
              raise_in_transaction, ledger
<1>2. CASE \/ charge(o) \/ post_accounting(o) \/ commit_inventory(o) \/ finish(o)
           \/ write_failed(o) \/ run_saga_failed(o)
  BY <1>2 DEF charge, post_accounting, commit_inventory, finish, write_failed,
              run_saga_failed, answer, ledger
<1>3. CASE \/ run_step_compensation(o) \/ release_update(o) \/ release_commit(o)
           \/ deadlock_detected(o)
  BY <1>3 DEF run_step_compensation, release_update, release_commit, deadlock_detected, ledger
<1>4. CASE init_order_saga(o) \/ db_error(o) \/ crash(o) \/ recover(o) \/ recover_mark(o) \/ recover_end(o)
  BY <1>4 DEF init_order_saga, db_error, crash, recover, recover_mark, recover_end, ledger, coroutine
<1> QED BY <1>1, <1>2, <1>3, <1>4 DEF Step

\* The steps of the plan up to its end.
LEMMA PlanForward ==
    ASSUME TypeInv, LedgerInv, NEW o \in Orders, Booked(o), Explained(o),
           \/ resolve_items(o) \/ reserve_select(o) \/ reserve_update(o) \/ reserve_commit(o)
           \/ charge(o) \/ post_accounting(o) \/ commit_inventory(o) \/ finish(o)
    PROVE  Booked(o)' /\ Explained(o)'
<1>t. /\ pc \in [Orders -> Pc] /\ done \in [Orders -> 0..Committed]
      /\ row \in [Orders -> Row] /\ cart \in [Orders -> Seq(Entry)]
      /\ resv \in [Orders -> {"none", "reserved", "committed", "released"}]
      /\ posted \in [Orders -> BOOLEAN]
  BY PlanTypesOf
<1>c. UNCHANGED cart
  BY DEF resolve_items, reserve_select, reserve_update, reserve_commit, charge,
         post_accounting, commit_inventory, finish
<1>r. Reservable(o, 0)' = Reservable(o, 0) BY <1>c DEF Reservable
<1>1. CASE resolve_items(o)
  <2>0. pc[o] = "resolve" /\ UNCHANGED <<row, resv, posted, hurt>>
    BY <1>1 DEF resolve_items, ledger
  <2>1. resv[o] = "none" /\ row[o] # "succeeded" BY <2>0 DEF LedgerInv, ResvOK, Booked
  <2>2. \/ pc'[o] = "fail" \/ pc'[o] = "select"
        \/ pc'[o] = "charge" /\ Reservable(o, 0) = {}
    BY <1>1, <1>t DEF resolve_items, Goto
  <2>3. Booked(o)' BY <2>0, <2>1, <2>2, <1>r DEF Booked, Taken
  <2>4. Explained(o)' BY <2>0, <2>1, <2>2 DEF Explained
  <2> QED BY <2>3, <2>4
<1>2. CASE reserve_select(o) \/ reserve_update(o)
  <2>0. /\ pc[o] \in {"select", "update"} /\ UNCHANGED <<row, resv, posted, hurt>>
        /\ pc'[o] \in {"fail", "select", "update", "commit_tx"}
    BY <1>2, <1>t DEF reserve_select, reserve_update, raise_in_transaction, Goto
  <2>1. resv[o] = "none" /\ row[o] # "succeeded"
    BY <2>0 DEF LedgerInv, ResvOK, Booked, Reserving
  <2>3. Booked(o)' BY <2>0, <2>1 DEF Booked
  <2>4. Explained(o)' BY <2>0, <2>1 DEF Explained
  <2> QED BY <2>3, <2>4
<1>3. CASE reserve_commit(o)
  <2>0. /\ pc[o] = "commit_tx" /\ UNCHANGED <<row, posted>> /\ resv'[o] = "reserved"
        /\ \/ pc'[o] = "charge" /\ done'[o] = Reserved
           \/ pc'[o] = "fail" /\ o \in hurt'
    BY <1>3, <1>t DEF reserve_commit, answer, Goto
  <2>1. row[o] # "succeeded" BY <2>0 DEF Booked
  <2>3. Booked(o)' BY <2>0, <2>1 DEF Booked, Taken
  <2>4. Explained(o)' BY <2>0 DEF Explained, Reserved
  <2> QED BY <2>3, <2>4
<1>4. CASE charge(o)
  <2>0. /\ pc[o] = "charge" /\ UNCHANGED <<row, resv, posted, hurt>>
        /\ pc'[o] = "accounting" /\ done'[o] = Billed
    BY <1>4, <1>t DEF charge, Goto, ledger
  <2>3. Booked(o)' BY <2>0, <1>r DEF Booked, Taken
  <2>4. Explained(o)' BY <2>0 DEF Explained, Reserved, Billed
  <2> QED BY <2>3, <2>4
<1>5. CASE post_accounting(o)
  <2>0. /\ pc[o] = "accounting" /\ UNCHANGED <<row, resv>> /\ posted'[o] = TRUE
        /\ hurt \subseteq hurt'
        /\ \/ pc'[o] = "commit" /\ done'[o] = Accounted
           \/ pc'[o] = "fail" /\ done'[o] = done[o]
    BY <1>5, <1>t DEF post_accounting, answer, Goto
  <2>3. Booked(o)' BY <2>0, <1>r DEF Booked, Taken
  <2>4. Explained(o)' BY <2>0 DEF Explained, Reserved, Accounted
  <2> QED BY <2>3, <2>4
<1>6. CASE commit_inventory(o)
  <2>0. /\ pc[o] = "commit" /\ UNCHANGED <<row, posted>>
        /\ resv'[o] = IF resv[o] = "none" THEN "none" ELSE "committed"
        /\ pc'[o] \in {"finish", "fail"}
    BY <1>6, <1>t DEF commit_inventory, answer, Goto
  <2>1. row[o] # "succeeded" /\ posted[o] /\ Taken(o, "reserved") BY <2>0 DEF Booked
  <2>3. Booked(o)' BY <2>0, <2>1, <1>r DEF Booked, Taken
  <2>4. Explained(o)' BY <2>0 DEF Explained
  <2> QED BY <2>3, <2>4
<1>7. CASE finish(o)
  <2>0. /\ pc[o] = "finish" /\ UNCHANGED <<resv, posted>>
        /\ pc'[o] \in {"end", "fail"}
    BY <1>7, <1>t DEF finish, answer, Goto, ledger
  <2>1. posted[o] /\ Taken(o, "committed") BY <2>0 DEF Booked
  <2>3. Booked(o)' BY <2>0, <2>1, <1>r DEF Booked, Taken
  <2>4. Explained(o)' BY <2>0, <2>1 DEF Explained, Taken
  <2> QED BY <2>3, <2>4
<1> QED BY <1>1, <1>2, <1>3, <1>4, <1>5, <1>6, <1>7

\* The ways of failure, the compensation and what comes from outside.
LEMMA PlanBackward ==
    ASSUME TypeInv, LedgerInv, NEW o \in Orders, Booked(o), Explained(o),
           \/ write_failed(o) \/ run_saga_failed(o) \/ run_step_compensation(o)
           \/ release_update(o) \/ release_commit(o) \/ deadlock_detected(o)
           \/ init_order_saga(o) \/ db_error(o) \/ crash(o)
           \/ recover(o) \/ recover_mark(o) \/ recover_end(o)
    PROVE  Booked(o)' /\ Explained(o)'
<1>t. /\ pc \in [Orders -> Pc] /\ done \in [Orders -> 0..Committed]
      /\ row \in [Orders -> Row] /\ cart \in [Orders -> Seq(Entry)]
      /\ resv \in [Orders -> {"none", "reserved", "committed", "released"}]
      /\ posted \in [Orders -> BOOLEAN]
  BY PlanTypesOf
<1>1. CASE write_failed(o) \/ run_saga_failed(o)
  <2>0. /\ UNCHANGED <<resv, posted, hurt, done>> /\ row'[o] = "failed"
        /\ \/ pc'[o] = "undo"
           \/ pc[o] = "fail_again" /\ pc'[o] = "end"
    BY <1>1, <1>t DEF write_failed, run_saga_failed, Goto, ledger
  <2>3. Booked(o)' BY <2>0 DEF Booked
  <2>4. Explained(o)' BY <2>0 DEF Explained
  <2> QED BY <2>3, <2>4
<1>2. CASE run_step_compensation(o)
  <2>0. /\ pc[o] = "undo" /\ UNCHANGED <<row, resv, posted, hurt, done>>
        /\ \/ pc'[o] = "release"
           \/ pc'[o] = "end" /\ ~(done[o] >= Reserved /\ resv[o] # "none")
    BY <1>2, <1>t DEF run_step_compensation, Goto, ledger
  <2>3. Booked(o)' BY <2>0 DEF Booked
  <2>4. Explained(o)' BY <2>0 DEF Explained
  <2> QED BY <2>3, <2>4
<1>3. CASE release_update(o)
  <2>0. Mine(o)' = Mine(o) /\ UNCHANGED hurt BY <1>3 DEF release_update, Mine
  <2> QED BY <2>0, PlanStays
<1>4. CASE release_commit(o)
  <2>0. /\ pc[o] = "release" /\ UNCHANGED <<row, posted, hurt, done>>
        /\ pc'[o] = "end" /\ resv'[o] = "released"
    BY <1>4, <1>t DEF release_commit, Goto
  <2>3. Booked(o)' BY <2>0 DEF Booked
  <2>4. Explained(o)' BY <2>0 DEF Explained
  <2> QED BY <2>3, <2>4
<1>5. CASE deadlock_detected(o)
  <2>0. /\ UNCHANGED <<row, resv, posted, done>> /\ hurt \subseteq hurt'
        /\ \/ pc[o] = "update" /\ pc'[o] = "fail"
           \/ pc[o] = "release" /\ pc'[o] = "end" /\ o \in hurt'
    <3>1. Wants(o) # {} BY <1>5 DEF deadlock_detected, Deadlocked
    <3>2. pc[o] \in {"update", "release"} BY <3>1 DEF Wants
    <3> QED BY <1>5, <1>t, <3>2 DEF deadlock_detected, Goto, Except
  <2>3. Booked(o)' BY <2>0 DEF Booked
  <2>4. Explained(o)' BY <2>0 DEF Explained
  <2> QED BY <2>3, <2>4
<1>6. CASE init_order_saga(o)
  <2>0. /\ pc[o] = "idle" /\ UNCHANGED <<resv, posted, hurt, done>>
        /\ pc'[o] = "resolve" /\ row'[o] = "in_progress"
    BY <1>6, <1>t DEF init_order_saga, Goto, ledger
  <2>3. Booked(o)' BY <2>0 DEF Booked
  <2>4. Explained(o)' BY <2>0 DEF Explained
  <2> QED BY <2>3, <2>4
<1>r. cart' = cart => Reservable(o, 0)' = Reservable(o, 0) BY DEF Reservable
<1>7. CASE db_error(o)
  <2>0. /\ UNCHANGED <<row, cart, resv, posted, done>> /\ hurt \subseteq hurt'
        /\ pc[o] \in {"resolve", "accounting", "commit", "finish", "fail", "fail_again",
                      "undo"} \cup InTransaction
        /\ pc[o] \in {"fail", "undo", "release"} => o \in hurt'
        /\ pc'[o] = Except(pc[o])
    BY <1>7, <1>t DEF db_error, Goto
  <2>1. /\ pc[o] = "fail" => pc'[o] = "fail_again"
        /\ pc[o] \in {"fail_again", "undo", "release"} => pc'[o] = "end"
        /\ pc[o] \notin {"fail", "fail_again", "undo", "release"} => pc'[o] = "fail"
    BY <2>0 DEF Except
  <2>2. pc'[o] \in {"end", "fail", "fail_again"} BY <2>1
  <2>3. Booked(o)' BY <2>0, <2>2, <1>r DEF Booked
  <2>4. Explained(o)' BY <2>0, <2>1, <2>2 DEF Explained
  <2> QED BY <2>3, <2>4
<1>8. CASE crash(o)
  <2>0. /\ UNCHANGED <<row, cart, resv, posted, done>> /\ o \in hurt' /\ pc'[o] = "dead"
    BY <1>8, <1>t DEF crash, Goto
  <2>3. Booked(o)' BY <2>0, <1>r DEF Booked
  <2>4. Explained(o)' BY <2>0 DEF Explained
  <2> QED BY <2>3, <2>4
<1>9. CASE recover(o) \/ recover_mark(o) \/ recover_end(o)
  <2>0. /\ UNCHANGED <<pc, cart, resv, posted, done, hurt>> /\ row'[o] # "succeeded"
    BY <1>9, <1>t DEF recover, recover_mark, recover_end, ledger, coroutine
  <2>1. \A s : Taken(o, s)' = Taken(o, s) BY <2>0, <1>r DEF Taken
  <2>3. Booked(o)' BY <2>0, <2>1 DEF Booked
  <2>4. Explained(o)' BY <2>0 DEF Explained
  <2> QED BY <2>3, <2>4
<1> QED BY <1>1, <1>2, <1>3, <1>4, <1>5, <1>6, <1>7, <1>8, <1>9

\* Every step keeps what the rows and the reservations say of each other.
LEMMA PlanStep ==
    ASSUME TypeInv, LedgerInv, PlanInv, [Next]_vars
    PROVE  PlanInv'
<1>1. ASSUME NEW o \in Orders,
             Step(o) \/ init_order_saga(o) \/ db_error(o) \/ crash(o)
             \/ recover(o) \/ recover_mark(o) \/ recover_end(o)
      PROVE  PlanInv'
  <2>1. Booked(o) /\ Explained(o) BY DEF PlanInv
  <2>2. Booked(o)' /\ Explained(o)' BY <1>1, <2>1, PlanForward, PlanBackward DEF Step
  <2>3. ASSUME NEW p \in Orders \ {o} PROVE Booked(p)' /\ Explained(p)'
    BY <1>1, OwnStep, PlanStays DEF PlanInv
  <2> QED BY <2>2, <2>3 DEF PlanInv
<1>2. ASSUME \/ \E l \in Lots : vision_apply_update(l)
             \/ UNCHANGED vars
      PROVE  PlanInv'
  <2>1. \A o \in Orders : Mine(o)' = Mine(o) /\ hurt \subseteq hurt'
    BY <1>2 DEF vision_apply_update, vars, ledger, coroutine, Mine
  <2> QED BY <2>1, PlanStays DEF PlanInv
<1> QED BY <1>1, <1>2 DEF Next

\* At the start no order has got anywhere.
LEMMA PlanInit == Init => PlanInv
  BY DEF Init, PlanInv, Booked, Explained

\* At every await of execute_step_plan the steps before it have done their work,
\* or their reservation is accounted for.
THEOREM PlanInvariant == Spec => []PlanInv
<1>1. TypeInv /\ LedgerInv /\ StockAddsUp /\ PlanInv /\ [Next]_vars => PlanInv' BY PlanStep
<1> QED BY <1>1, PlanInit, LedgerInvariant, PTL DEF Spec

\* A row that says succeeded stands for a posted receipt and a committed
\* reservation (or an order that needs none), whatever recovery, lost answers
\* and failed writes do to the order.
THEOREM SucceededIsCommittedHolds == Spec => []SucceededIsCommitted
<1>1. PlanInv => SucceededIsCommitted BY DEF PlanInv, Booked, SucceededIsCommitted
<1> QED BY <1>1, PlanInvariant, PTL

\* An order that has ended and still holds stock is one whose reservation's
\* COMMIT was never answered, or whose write of FAILED or release has failed:
\* every other failure gives the stock back.
THEOREM HeldIsExplainedHolds == Spec => []HeldIsExplained
<1>1. PlanInv => HeldIsExplained BY DEF PlanInv, Explained, HeldIsExplained
<1> QED BY <1>1, PlanInvariant, PTL

-----------------------------------------------------------------------------
(* The transactions are atomic.                                              *)

\* What Inventory does not see.
LedgerRests == UNCHANGED <<available, total, resv, lines>>

\* The COMMIT of a reservation takes all of its lots at once, of what is there.
LEMMA ReserveCommits ==
    ASSUME TypeInv, LedgerInv, NEW o \in Orders, reserve_commit(o) PROVE Ledger!Reserve(o)
<1>t. /\ available \in [Lots -> Int] /\ tx \in [Orders -> [Lots -> Nat]]
      /\ lines \in [Orders -> [Lots -> Nat]]
  BY LedgerTypes
<1>0. /\ pc[o] = "commit_tx"
      /\ available' = [l \in Lots |-> available[l] - tx[o][l]]
      /\ lines' = [lines EXCEPT ![o] = tx[o]] /\ resv' = [resv EXCEPT ![o] = "reserved"]
      /\ total' = total
  BY DEF reserve_commit
<1>1. lines'[o] = tx[o] BY <1>0, <1>t
<1>2. resv[o] = "none" BY <1>0 DEF LedgerInv, ResvOK, Reserving
<1>3. \A l \in Lots : tx[o][l] \in 0..available[l]
  <2> SUFFICES ASSUME NEW l \in Lots PROVE tx[o][l] \in 0..available[l] OBVIOUS
  <2>1. tx[o][l] <= available[l] BY <1>0 DEF LedgerInv, TakesOK, Reserving
  <2> QED BY <2>1, <1>t
<1> QED BY <1>0, <1>1, <1>2, <1>3 DEF Ledger!Reserve

\* The COMMIT of a release gives back at once every line of a live reservation.
LEMMA ReleaseCommits ==
    ASSUME TypeInv, LedgerInv, NEW o \in Orders, release_commit(o) PROVE Ledger!Release(o)
<1>0. /\ pc[o] = "release" /\ todo[o] = {}
      /\ available' = [l \in Lots |-> available[l] + tx[o][l]]
      /\ resv' = [resv EXCEPT ![o] = "released"] /\ UNCHANGED <<total, lines>>
  BY DEF release_commit
<1>1. resv[o] \in Live BY <1>0 DEF LedgerInv, ResvOK
<1>2. \A l \in Lots : tx[o][l] = lines[o][l] BY <1>0 DEF LedgerInv, ReleaseOK
<1> QED BY <1>0, <1>1, <1>2 DEF Ledger!Release, Live

\* commit_inventory finds the reservation, or the order has none to commit.
LEMMA CommitCommits ==
    ASSUME TypeInv, PlanInv, NEW o \in Orders, commit_inventory(o)
    PROVE  Ledger!Commit(o) \/ LedgerRests
<1>t. resv \in [Orders -> {"none", "reserved", "committed", "released"}] BY LedgerTypes
<1>0. /\ pc[o] = "commit"
      /\ resv' = [resv EXCEPT ![o] = IF @ = "none" THEN @ ELSE "committed"]
      /\ UNCHANGED <<available, total, lines>>
  BY DEF commit_inventory
<1>1. resv[o] \in {"none", "reserved"} BY <1>0 DEF PlanInv, Booked, Taken
<1>2. CASE resv[o] = "none" BY <1>0, <1>2, <1>t DEF LedgerRests
<1>3. CASE resv[o] = "reserved" BY <1>0, <1>3 DEF Ledger!Commit
<1> QED BY <1>1, <1>2, <1>3

\* No other step of an order publishes anything of its transaction.
LEMMA OthersRest ==
    ASSUME NEW o \in Orders,
           \/ Step(o) \/ init_order_saga(o) \/ db_error(o) \/ crash(o) \/ recover(o)
           \/ recover_mark(o) \/ recover_end(o),
           ~reserve_commit(o), ~release_commit(o), ~commit_inventory(o)
    PROVE  LedgerRests
<1> USE DEF LedgerRests, ledger, coroutine
<1>1. CASE \/ resolve_items(o) \/ reserve_select(o) \/ reserve_update(o) \/ charge(o)
           \/ post_accounting(o)
  BY <1>1 DEF resolve_items, reserve_select, reserve_update, charge, post_accounting
<1>2. CASE \/ finish(o) \/ write_failed(o) \/ run_saga_failed(o) \/ run_step_compensation(o)
           \/ release_update(o) \/ deadlock_detected(o)
  BY <1>2 DEF finish, write_failed, run_saga_failed, run_step_compensation, release_update,
     deadlock_detected
<1>3. CASE init_order_saga(o) \/ db_error(o) \/ crash(o) \/ recover(o) \/ recover_mark(o) \/ recover_end(o)
  BY <1>3 DEF init_order_saga, db_error, crash, recover, recover_mark, recover_end
<1> QED BY <1>1, <1>2, <1>3 DEF Step

\* Every step is one of Inventory or changes nothing it speaks of.
LEMMA LedgerSteps ==
    ASSUME TypeInv, LedgerInv, PlanInv, [Next]_vars PROVE [Ledger!Next]_(Ledger!vars)
<1> SUFFICES Ledger!Next \/ LedgerRests BY DEF Ledger!vars, LedgerRests
<1>1. ASSUME NEW o \in Orders,
             \/ Step(o) \/ init_order_saga(o) \/ db_error(o) \/ crash(o) \/ recover(o)
             \/ recover_mark(o) \/ recover_end(o)
      PROVE  Ledger!Next \/ LedgerRests
  <2>1. CASE reserve_commit(o) BY <2>1, ReserveCommits DEF Ledger!Next
  <2>2. CASE release_commit(o) BY <2>2, ReleaseCommits DEF Ledger!Next
  <2>3. CASE commit_inventory(o) BY <2>3, CommitCommits DEF Ledger!Next
  <2> QED BY <1>1, <2>1, <2>2, <2>3, OthersRest
<1>2. ASSUME NEW l \in Lots, vision_apply_update(l) PROVE Ledger!Next
  BY <1>2 DEF vision_apply_update, Ledger!Next, Ledger!Deliver
<1>3. CASE UNCHANGED vars
  BY <1>3 DEF vars, ledger, LedgerRests
<1> QED BY <1>1, <1>2, <1>3 DEF Next

\* However the statements of orders interleave, fail and are rolled back, to the
\* ledger they are single steps: a reservation takes all its lots or none, a
\* release gives all of them back, once, and neither uses what is not there.
THEOREM ImplementsInventoryHolds == Spec => ImplementsInventory
<1>1. Init => Ledger!Init BY DEF Init, Ledger!Init, NoLots
<1>2. TypeInv /\ LedgerInv /\ PlanInv /\ [Next]_vars => [Ledger!Next]_(Ledger!vars)
  BY LedgerSteps
<1> QED BY <1>1, <1>2, LedgerInvariant, PlanInvariant, PTL
        DEF Spec, ImplementsInventory, Ledger!Spec
=============================================================================
