--------------------------- MODULE MCProductStock ---------------------------
(***************************************************************************)
(* Small instances of ProductStock for TLC.                                 *)
(***************************************************************************)
EXTENDS ProductStock, TLC

(* The handlers are interchangeable goroutines.                              *)
HandlerSymmetry == Permutations(Handlers)
=============================================================================
