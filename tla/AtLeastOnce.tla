----------------------------- MODULE AtLeastOnce ------------------------------
(***************************************************************************)
(* What a consumer that acknowledges by hand promises about the messages of     *)
(* its queue, without connections, replicas or buffers: a message leaves the     *)
(* queue as done only after it was worked on, or goes to the dead letters, and   *)
(* is worked on again only when something was lost, once for each loss.          *)
(* Notifications and InventoryConsumer implement it.                            *)
(***************************************************************************)
EXTENDS Integers

CONSTANTS
    Messages,   \* what is published
    MaxLosses   \* bound: connections and processes lost, in all

VARIABLES
    fate,       \* what has become of each message
    done,       \* how often its effect has happened
    losses      \* connections and processes lost so far

vars == <<fate, done, losses>>

Init ==
    /\ fate = [m \in Messages |-> "new"]
    /\ done = [m \in Messages |-> 0]
    /\ losses = 0

(* The message is published, to a queue or to nobody.                           *)
Publish(m) ==
    /\ fate[m] = "new"
    /\ \E f \in {"queued", "gone"} : fate' = [fate EXCEPT ![m] = f]
    /\ UNCHANGED <<done, losses>>

(* The effect happens: for the first time, or again after a loss.  The worker may   *)
(* take it for a failure and give the message up.                               *)
Work(m) ==
    /\ fate[m] # "new"
    /\ done[m] <= losses
    /\ done' = [done EXCEPT ![m] = @ + 1]
    /\ \/ UNCHANGED fate
       \/ fate[m] = "queued" /\ fate' = [fate EXCEPT ![m] = "dead"]
    /\ UNCHANGED losses

Acknowledge(m) ==
    /\ fate[m] = "queued"
    /\ done[m] > 0
    /\ fate' = [fate EXCEPT ![m] = "acked"]
    /\ UNCHANGED <<done, losses>>

Reject(m) ==
    /\ fate[m] = "queued"
    /\ fate' = [fate EXCEPT ![m] = "dead"]
    /\ UNCHANGED <<done, losses>>

(* A connection or a process is lost; with the broker may go messages it keeps.    *)
Lose ==
    /\ losses < MaxLosses
    /\ losses' = losses + 1
    /\ \E dropped \in SUBSET Messages :
          fate' = [m \in Messages |-> IF m \in dropped /\ fate[m] \in {"queued", "dead"} THEN "gone"
                                     ELSE fate[m]]
    /\ UNCHANGED done

Next ==
    \/ \E m \in Messages : Publish(m) \/ Work(m) \/ Acknowledge(m) \/ Reject(m)
    \/ Lose

Spec == Init /\ [][Next]_vars
=============================================================================
