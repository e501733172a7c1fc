------------------------------ MODULE MCAccounts ------------------------------
(***************************************************************************)
(* Small instances of Accounts for TLC.                                      *)
(***************************************************************************)
EXTENDS Accounts, TLC

(* Some passwords that are too long begin with a password that is not.                *)
First72Def ==
    [p \in Passwords |-> IF p \in TooLong THEN CHOOSE q \in Passwords \ TooLong : TRUE ELSE p]

Symmetry == Permutations(Requests) \cup Permutations(Emails)
=============================================================================
