----------------------------- MODULE MCFreshCart ------------------------------
(***************************************************************************)
(* Small instances of FreshCart for TLC.                                     *)
(***************************************************************************)
EXTENDS FreshCart, TLC

CONSTANTS r1, r2, apple, bread

Item(p, q) == [product |-> p, quantity |-> q]

(* Both orders want the same products; the stock holds for one and a half.         *)
Baskets == [r \in Orders |-> <<Item(apple, 2), Item(bread, 1)>>]
Shelves == [p \in Products |-> IF p = apple THEN 3 ELSE 2]

(* Of the events of one order, those that tell these statuses.                      *)
Followed == {r1} \X {"confirmed", "cancelled"}

HandlerSymmetry == Permutations(Handlers)
=============================================================================
