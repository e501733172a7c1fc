------------------------------ MODULE FreshCart -------------------------------
(***************************************************************************)
(* The life of an order across the services: it takes its items from the stock    *)
(* of the product service (createOrderHandler), its status changes and gives      *)
(* items back (updateOrderStatusHandler), and each change is told to the user      *)
(* through RabbitMQ (notification-service).                                    *)
(*                                                                          *)
(* The three parts are those of other modules: OrderRequests, which OrderSaga     *)
(* implements; OrderStatus, which this module extends; and AtLeastOnce, which       *)
(* Notifications implements.  Here they meet: in the stock, in the orders table      *)
(* and at the exchange.  What overlapping status requests on one order do, and what   *)
(* their failures do, is the subject of OrderStatus; here the requests for one       *)
(* order take turns, those for different orders overlap, and a status request does   *)
(* not fail.                                                                  *)
(***************************************************************************)
EXTENDS OrderStatus, Sequences, Functions

CONSTANTS
    Products,       \* product identifiers
    Items,          \* Items[r]: the items of the request for order r, in order
    InitStock,      \* the stock of each product at the start
    MaxLosses,      \* bound: connections and processes lost behind the queue
    Messages        \* the events followed to the user, <<order, status>> each

ASSUME OrdersAssumption == IsFiniteSet(Orders)
ASSUME ItemsAssumption ==
    \A r \in Orders : /\ Items[r] \in Seq([product : Products, quantity : Int])
                      /\ Len(Items[r]) = ItemCount
ASSUME StockAssumption == InitStock \in [Products -> Int]
ASSUME MessagesAssumption ==
    Messages \subseteq Orders \X {"confirmed", "packing", "out_for_delivery", "delivered",
                                 "cancelled"}

VARIABLES
    stage, held, lost, announced,                       \* OrderRequests
    stock,                                              \* products.stock
    fate, done, losses,                                 \* AtLeastOnce
    early   \* history: orders whose status was asked to change before their
            \* confirmation was published

Placing == INSTANCE OrderRequests WITH Requests <- Orders
Telling == INSTANCE AtLeastOnce

placingVars == <<stage, held, lost, announced>>
changingVars == <<status, pc, locals, events, historyVars>>
tellingVars == <<fate, done, losses>>
cartVars == <<placingVars, stock, changingVars, lastEvent, tellingVars, early>>

(* A row of orders starts as confirmed; OrderStatus keeps it for orders that may yet    *)
(* come to be.                                                                *)
CartInit ==
    /\ Placing!Init
    /\ Init
    /\ Telling!Init
    /\ early = {}

-----------------------------------------------------------------------------
(* An event goes to the exchange; some are not followed further.                     *)
Tell(m) == IF m \in Messages THEN Telling!Publish(m) ELSE UNCHANGED tellingVars

(* createOrderHandler, and its compensation.                                   *)
PlaceOrder(r) ==
    /\ \/ \E i \in Placing!All(r) :
             Placing!Take(r, i) \/ Placing!GiveBack(r, i) \/ Placing!GiveUp(r, i)
       \/ Placing!Place(r) \/ Placing!Fail(r) \/ Placing!Confirm(r) \/ Placing!Refuse(r)
    /\ UNCHANGED <<changingVars, lastEvent, tellingVars, early>>

(* Mutant: the confirmation is published behind the answer.                         *)
AnnounceOrderLate(r) ==
    /\ r \notin announced
    /\ stage[r] = "confirmed"
    /\ announced' = announced \cup {r}
    /\ Tell(<<r, "confirmed">>)
    /\ lastEvent' = [lastEvent EXCEPT ![r] = "confirmed"]
    /\ UNCHANGED <<stage, held, lost, stock, changingVars, early>>

(* publishOrderConfirmed, after the commit and before the answer.                   *)
AnnounceOrder(r) ==
    /\ r \notin announced
    /\ Placing!Announce(r)
    /\ Tell(<<r, "confirmed">>)
    /\ lastEvent' = [lastEvent EXCEPT ![r] = "confirmed"]
    /\ UNCHANGED <<changingVars, early>>

(* The row is there for everyone from the commit on, before the saga has announced it    *)
(* or answered.                                                                *)
Exists(r) == stage[r] \in {"placed", "confirmed"}

(* A status request for an order that no other request is at.                        *)
StartChange(h, r) ==
    /\ Exists(r)
    /\ \A g \in Handlers : order[g] # r
    /\ \E to \in Statuses : Validate(h, r, to)
    /\ early' = IF stage[r] = "placed" /\ r \notin announced THEN early \cup {r} ELSE early
    /\ UNCHANGED <<placingVars, stock, tellingVars>>

(* The items of all orders, and those of one product.                              *)
AllItems == Orders \X (1 .. ItemCount)
ItemsOf(p) == {ri \in AllItems : Items[ri[1]][ri[2]].product = p}

(* Mutant: a release gives back one unit, whatever was ordered.                       *)
RestockedByOne(p) ==
    stock[p] + Cardinality({ri \in ItemsOf(p) : released'[ri[1]][ri[2]] # released[ri[1]][ri[2]]})

(* What releaseStockForOrder gives back to a product is the quantity in order_items.    *)
Restocked(p) ==
    stock[p] + SumFunctionOnSet(
        [ri \in AllItems |->
            Items[ri[1]][ri[2]].quantity * (released'[ri[1]][ri[2]] - released[ri[1]][ri[2]])],
        ItemsOf(p))

GiveBackStock(h) ==
    /\ ReleaseItem(h)
    /\ stock' = [p \in Products |-> Restocked(p)]
    /\ UNCHANGED <<placingVars, tellingVars, early>>

(* Mutant: no event tells a cancellation.                                          *)
FinishChangeSilently(h) ==
    /\ WriteStatus(h) \/ PublishEvent(h)
    /\ faults' = faults
    /\ IF events' = events \/ target[h] = "cancelled" THEN UNCHANGED tellingVars
       ELSE Tell(<<order[h], target[h]>>)
    /\ UNCHANGED <<placingVars, stock, early>>

(* The new status, and its event if it can be published.                             *)
FinishChange(h) ==
    /\ WriteStatus(h) \/ PublishEvent(h)
    /\ faults' = faults
    /\ IF events' = events THEN UNCHANGED tellingVars
       ELSE Tell(<<order[h], target[h]>>)
    /\ UNCHANGED <<placingVars, stock, early>>

(* The notification service, behind the queue.                                     *)
TellUser ==
    /\ \/ \E m \in Messages : Telling!Work(m) \/ Telling!Acknowledge(m) \/ Telling!Reject(m)
       \/ Telling!Lose
    /\ UNCHANGED <<placingVars, stock, changingVars, lastEvent, early>>

Final(st) == validTransitions(st) = {}

(* No request is under way and every event is settled.                              *)
Settled ==
    /\ \A r \in Orders : stage[r] \in {"confirmed", "refused"}
    /\ \A h \in Handlers : pc[h] = "idle"
    /\ \A m \in Messages : fate[m] # "queued"

CartRest ==
    /\ Settled
    /\ \A r \in Orders : Exists(r) => Final(status[r])
    /\ UNCHANGED cartVars

CartNext ==
    \/ \E r \in Orders : PlaceOrder(r) \/ AnnounceOrder(r)
    \/ \E h \in Handlers : \/ \E r \in Orders : StartChange(h, r)
                           \/ GiveBackStock(h)
                           \/ FinishChange(h)
    \/ TellUser
    \/ CartRest

CartSpec == CartInit /\ [][CartNext]_cartVars

-----------------------------------------------------------------------------
(* Stock is conserved over the whole life of every order, by two services that share       *)
(* nothing but HTTP calls: when nothing is under way, what is missing from the shelves is    *)
(* what the orders that stand contain, and what a compensation had to give up.           *)
OwnedItems(p) ==
    {ri \in ItemsOf(p) : IF Exists(ri[1]) THEN status[ri[1]] # "cancelled"
                         ELSE ri[2] \in lost[ri[1]]}

StockConserved ==
    Settled =>
        \A p \in Products :
            InitStock[p] - stock[p] =
                SumFunctionOnSet([ri \in AllItems |-> Items[ri[1]][ri[2]].quantity], OwnedItems(p))

(* What a user is told is what happened: a notification exists only of a status that the     *)
(* order had, and, when nothing is under way and no status request failed, each status      *)
(* that an order has had was told, unless its event was lost behind the exchange or the      *)
(* saga could not publish it.                                                    *)
UsersToldTheTruth ==
    \A m \in Messages :
        LET r == m[1]  st == m[2]
        IN  /\ done[m] > 0 => Exists(r) /\ st \in visited[r]
            /\ Settled /\ Exists(r) /\ st \in visited[r]
                  => \/ done[m] > 0
                     \/ fate[m] \in {"dead", "gone"}
                     \/ st = "confirmed" /\ r \notin announced

(* Between two requests the latest event of an order tells its status, from its            *)
(* confirmation on, as long as no status request failed, and none came before the saga       *)
(* published the confirmation ...                                                *)
Quiet(r) == r \in announced /\ \A h \in Handlers : order[h] # r

LatestEventCurrent ==
    \A r \in Orders \ early : Quiet(r) => lastEvent[r] = status[r]

(* ... but the row can be seen and changed before that: "confirmed" then follows              *)
(* "packing".                                                                  *)
LatestEventAlwaysCurrent ==
    \A r \in Orders : Quiet(r) => lastEvent[r] = status[r]
=============================================================================
