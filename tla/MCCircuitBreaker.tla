-------------------------- MODULE MCCircuitBreaker --------------------------
(***************************************************************************)
(* Small instances of CircuitBreaker for TLC.                               *)
(***************************************************************************)
EXTENDS CircuitBreaker, TLC

(* The callers are interchangeable goroutines; only for runs of invariants    *)
(* and action properties.                                                    *)
CallerSymmetry == Permutations(Callers)
=============================================================================
