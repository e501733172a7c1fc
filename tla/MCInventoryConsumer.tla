------------------------- MODULE MCInventoryConsumer --------------------------
(***************************************************************************)
(* Small instances of InventoryConsumer for TLC.                             *)
(***************************************************************************)
EXTENDS InventoryConsumer, TLC

CONSTANTS m1, m2, m3, apple, ghost

AllApples == [m \in Messages |-> apple]

(* Two updates of one product, and one of a product that is not in the table.     *)
TwoAndGhost == [m \in Messages |-> IF m = m3 THEN ghost ELSE apple]

(* The first takes more than there is.                                          *)
Changes == [m \in Messages |-> IF m = m1 THEN -2 ELSE 3]

OneEach == [p \in Products |-> 1]

ConsumerSymmetry == Permutations(Consumers)
=============================================================================
