---------------------------- MODULE MCOrderSaga -----------------------------
(***************************************************************************)
(* Small instances of OrderSaga for TLC.                                    *)
(***************************************************************************)
EXTENDS OrderSaga

CONSTANTS s1, s2, s3, apple, bread, ghost

Item(p, q) == [product |-> p, quantity |-> q]

(* Three sagas: two want both products in opposite orders, from a stock that    *)
(* serves one of them and a half; the third names a product that is not there,   *)
(* after one that is.                                                        *)
CrossedItems == [s \in Sagas |->
    CASE s = s1 -> <<Item(apple, 1), Item(bread, 2)>>
      [] s = s2 -> <<Item(bread, 1), Item(apple, 1)>>
      [] s = s3 -> <<Item(apple, 1), Item(ghost, 1)>>]

(* Without any fault: two orders for more bread than there is left race a saga   *)
(* that must give its own bread back.                                         *)
RacingItems == [s \in Sagas |->
    IF s = s1 THEN <<Item(bread, 1), Item(ghost, 1)>> ELSE <<Item(bread, 2)>>]

(* Two sagas for one slot: one wants a product, the other the same product and one  *)
(* that is not there.                                                         *)
WaitingItems == [s \in Sagas |->
    IF s = s1 THEN <<Item(bread, 1)>> ELSE <<Item(bread, 2), Item(ghost, 1)>>]

RacingStock == [p \in Products |-> IF p = bread THEN 3 ELSE 0]

CrossedStock == [p \in Products |-> IF p = ghost THEN 0 ELSE 2]
=============================================================================
