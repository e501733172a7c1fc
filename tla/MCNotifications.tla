--------------------------- MODULE MCNotifications ----------------------------
(***************************************************************************)
(* Small instances of Notifications for TLC.                                 *)
(***************************************************************************)
EXTENDS Notifications, TLC

CONSTANTS m1, m2, m3, confirmed, packing

(* An order is confirmed and packed; something else publishes the third message.  *)
TwoKeys == [m \in Messages |-> IF m = m1 THEN confirmed ELSE packing]

(* The replicas are interchangeable.                                           *)
ConsumerSymmetry == Permutations(Consumers)
=============================================================================
