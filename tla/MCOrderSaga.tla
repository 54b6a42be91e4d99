---------------------------- MODULE MCOrderSaga ----------------------------
(* Instances of OrderSaga for TLC: two lots of one item, one of which is      *)
(* delivered later, and one lot of another item.                              *)
EXTENDS OrderSaga, TLC

CONSTANTS o1, o2, o3, milk, bread, m1, m2, b1

LotItem == m1 :> milk @@ m2 :> milk @@ b1 :> bread
LotExpiry == m1 :> 1 @@ m2 :> 2 @@ b1 :> 1
LotStock == m1 :> 3 @@ m2 :> 2 @@ b1 :> 2

Wish(i, l, q) == [item |-> i, lot |-> l, quantity |-> q]
Milk == Wish(milk, AnyLot, 2)
Bread == Wish(bread, AnyLot, 1)

\* Either order of the two items, one item twice with a lot that is named, a
\* custom dish alone, and a quantity of zero.
AllCarts ==
    {<<Milk, Bread>>, <<Bread, Milk>>, <<Wish(milk, m1, 2), Milk>>,
     <<Wish(Custom, AnyLot, 1)>>, <<Wish(Custom, AnyLot, 0), Bread>>}
=============================================================================
