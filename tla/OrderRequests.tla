---------------------------- MODULE OrderRequests -----------------------------
(***************************************************************************)
(* What placing an order promises, without calls, jobs, slots or retries: an     *)
(* order takes the items of its request one by one, exists only when it has       *)
(* taken all of them, and a request that fails gives every item back before it    *)
(* is answered, or has given that item up.  OrderSaga implements it as long as    *)
(* no reply is lost and nobody hangs up.                                         *)
(***************************************************************************)
EXTENDS Integers, Sequences

CONSTANTS
    Requests,   \* the order requests
    Products,   \* product identifiers
    Items,      \* Items[r]: the items of request r, in order
    InitStock   \* the stock of each product at the start

VARIABLES
    stage,      \* how far each request is
    held,       \* the positions of its items that are taken from the stock
    lost,       \* those of them that will not be given back
    stock,      \* what is left of each product
    announced   \* the requests whose order was announced

vars == <<stage, held, lost, stock, announced>>

All(r) == 1 .. Len(Items[r])

Init ==
    /\ stage = [r \in Requests |-> "open"]
    /\ held = [r \in Requests |-> {}]
    /\ lost = [r \in Requests |-> {}]
    /\ stock = InitStock
    /\ announced = {}

Moves(r, from, to) ==
    /\ stage[r] \in from
    /\ stage' = [stage EXCEPT ![r] = to]

Change(r, i, sign) ==
    stock' = [stock EXCEPT ![Items[r][i].product] = @ + sign * Items[r][i].quantity]

Take(r, i) ==
    /\ stage[r] = "open"
    /\ i \in All(r) \ held[r]
    /\ held' = [held EXCEPT ![r] = @ \cup {i}]
    /\ Change(r, i, -1)
    /\ UNCHANGED <<stage, lost, announced>>

(* The order exists, with everything it needs.                                 *)
Place(r) ==
    /\ held[r] = All(r)
    /\ Moves(r, {"open"}, "placed")
    /\ UNCHANGED <<held, lost, stock, announced>>

Fail(r) ==
    /\ Moves(r, {"open"}, "failed")
    /\ UNCHANGED <<held, lost, stock, announced>>

GiveBack(r, i) ==
    /\ stage[r] = "failed"
    /\ i \in held[r] \ lost[r]
    /\ held' = [held EXCEPT ![r] = @ \ {i}]
    /\ Change(r, i, 1)
    /\ UNCHANGED <<stage, lost, announced>>

GiveUp(r, i) ==
    /\ stage[r] = "failed"
    /\ i \in held[r] \ lost[r]
    /\ lost' = [lost EXCEPT ![r] = @ \cup {i}]
    /\ UNCHANGED <<stage, held, stock, announced>>

Announce(r) ==
    /\ stage[r] = "placed"
    /\ announced' = announced \cup {r}
    /\ UNCHANGED <<stage, held, lost, stock>>

Confirm(r) ==
    /\ Moves(r, {"placed"}, "confirmed")
    /\ UNCHANGED <<held, lost, stock, announced>>

(* The client is told that there is no order: nothing of it is still taken that    *)
(* could be given back.                                                        *)
Refuse(r) ==
    /\ held[r] = lost[r]
    /\ Moves(r, {"open", "failed"}, "refused")
    /\ UNCHANGED <<held, lost, stock, announced>>

RequestStep(r) ==
    \/ \E i \in All(r) : Take(r, i) \/ GiveBack(r, i) \/ GiveUp(r, i)
    \/ Place(r) \/ Fail(r) \/ Announce(r) \/ Confirm(r) \/ Refuse(r)

Next == \E r \in Requests : RequestStep(r)

Spec == Init /\ [][Next]_vars
=============================================================================
