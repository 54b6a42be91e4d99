----------------------------- MODULE Inventory -----------------------------
(* What the inventory promises its orders: a reservation takes what it needs  *)
(* of all its lots in one step, only of what is there, or takes nothing; a    *)
(* release gives all of it back in one step, once.  OrderSaga implements it   *)
(* with transactions of several statements that meet on the rows of the lots. *)
EXTENDS Integers

CONSTANTS Orders, Lots, Stock, Initial

VARIABLES available, total, resv, lines

vars == <<available, total, resv, lines>>

Init ==
    /\ available = [l \in Lots |-> IF l \in Initial THEN Stock[l] ELSE 0]
    /\ total = available
    /\ resv = [o \in Orders |-> "none"]
    /\ lines = [o \in Orders |-> [l \in Lots |-> 0]]

\* An order reserves once.
Reserve(o) ==
    /\ resv[o] = "none" /\ resv' = [resv EXCEPT ![o] = "reserved"]
    /\ \A l \in Lots : lines'[o][l] \in 0..available[l]
    /\ lines' = [lines EXCEPT ![o] = lines'[o]]
    /\ available' = [l \in Lots |-> available[l] - lines'[o][l]]
    /\ UNCHANGED total

Commit(o) ==
    /\ resv[o] = "reserved" /\ resv' = [resv EXCEPT ![o] = "committed"]
    /\ UNCHANGED <<available, total, lines>>

\* Also of a committed reservation, when a later step of the order fails.
Release(o) ==
    /\ resv[o] \in {"reserved", "committed"} /\ resv' = [resv EXCEPT ![o] = "released"]
    /\ available' = [l \in Lots |-> available[l] + lines[o][l]]
    /\ UNCHANGED <<total, lines>>

\* A new lot.
Deliver(l) ==
    /\ total[l] = 0 /\ total' = [total EXCEPT ![l] = Stock[l]]
    /\ available' = [available EXCEPT ![l] = Stock[l]]
    /\ UNCHANGED <<resv, lines>>

Next ==
    \/ \E o \in Orders : Reserve(o) \/ Commit(o) \/ Release(o)
    \/ \E l \in Lots : Deliver(l)

Spec == Init /\ [][Next]_vars
=============================================================================
