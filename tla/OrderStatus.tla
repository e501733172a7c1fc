----------------------------- MODULE OrderStatus ------------------------------
(***************************************************************************)
(* PATCH /orders/{id}/status (order-service/main.go, updateOrderStatusHandler):  *)
(* the life of an order after the saga has confirmed it.                       *)
(*                                                                          *)
(* A handler reads the status, checks the transition against the status it      *)
(* read, gives the stock back item by item when the order is cancelled, writes   *)
(* the new status in a statement that does not look at the old one again, and    *)
(* publishes an event.  Handlers of any number of requests and of both replicas  *)
(* of the service run at the same time; they share nothing but the database.    *)
(*                                                                          *)
(* The UPDATE commits by itself (db.Exec outside of a transaction).  When its       *)
(* connection or its process is gone, Postgres may still be at it: the handler's     *)
(* place is then "orphan", and its statement commits at any later time, or never.    *)
(*                                                                          *)
(* A request that is refused (bad id or body, no such order, invalid transition,  *)
(* failed SELECT) changes nothing and is not a step.                            *)
(***************************************************************************)
EXTENDS Integers, FiniteSets

CONSTANTS
    Orders,         \* the orders the saga has created
    NoOrder,        \* no order, for a handler that serves nothing
    Handlers,       \* the concurrent requests
    ItemCount,      \* rows of order_items per order
    MaxReleases     \* bound: how often an item is given back at most

(* The failures that may happen.                                              *)
(*   "stockDown"   a release fails without effect                              *)
(*   "lostReply"   a release takes effect, but fails for its caller             *)
(*   "rowsLost"    the connection breaks between two rows of order_items         *)
(*   "orderDB"     the UPDATE of the status fails, or its connection is lost      *)
(*   "brokerDown"  the event cannot be published                               *)
(*   "crash"       a process of the order service dies                         *)
AllFaults == {"stockDown", "lostReply", "rowsLost", "orderDB", "brokerDown", "crash"}

ASSUME NoOrderAssumption == NoOrder \notin Orders
ASSUME HandlersAssumption == IsFiniteSet(Handlers)
ASSUME ItemCountAssumption == ItemCount \in Nat
ASSUME MaxReleasesAssumption == MaxReleases \in Nat

VARIABLES
    status,     \* orders.status
    pc,         \* where each handler is, or the UPDATE it left behind
    order,      \* the order its request names, NoOrder outside of a request
    target,     \* req.Status
    read,       \* currentStatus, as its SELECT saw it
    item,       \* the item its release is at
    released,   \* history: how often each item of an order was given back
    visited,    \* history: the statuses the row of an order has had
    events,     \* the published events
    lastEvent,  \* the status the latest event of an order tells
    overlapped, \* history: the orders a request was let through for while
                \* another, or a statement it left behind, was at work on it
    faults      \* history: the failures that have happened, of AllFaults

locals == <<order, target, read, item>>
historyVars == <<released, visited, overlapped, faults>>
vars == <<status, pc, locals, events, lastEvent, historyVars>>

Statuses == {"pending", "confirmed", "packing", "out_for_delivery", "delivered",
             "cancelled", "failed"}

Events == [order : Orders, status : Statuses, previous : Statuses]

TypeOK ==
    /\ status \in [Orders -> Statuses]
    /\ pc \in [Handlers -> {"idle", "release", "update", "publish", "orphan"}]
    /\ order \in [Handlers -> Orders \cup {NoOrder}]
    /\ \A h \in Handlers : pc[h] # "idle" => order[h] \in Orders
    /\ target \in [Handlers -> Statuses]
    /\ read \in [Handlers -> Statuses]
    /\ item \in [Handlers -> 1 .. (ItemCount + 1)]
    /\ \A h \in Handlers : pc[h] = "release" => item[h] <= ItemCount
    /\ released \in [Orders -> [1 .. ItemCount -> Nat]]
    /\ visited \in [Orders -> SUBSET Statuses]
    /\ events \in SUBSET Events
    /\ lastEvent \in [Orders -> Statuses]
    /\ overlapped \in SUBSET Orders
    /\ faults \in SUBSET AllFaults

(* Mutant: an order can skip the packing.                                     *)
validTransitionsSkip(from) ==
    CASE from = "pending"          -> {"confirmed", "failed"}
      [] from = "confirmed"        -> {"packing", "out_for_delivery", "cancelled"}
      [] from = "packing"          -> {"out_for_delivery"}
      [] from = "out_for_delivery" -> {"delivered"}
      [] OTHER                     -> {}

(* Mutant: a cancelled order can be confirmed again.                           *)
validTransitionsReopen(from) ==
    CASE from = "pending"          -> {"confirmed", "failed"}
      [] from = "confirmed"        -> {"packing", "cancelled"}
      [] from = "packing"          -> {"out_for_delivery"}
      [] from = "out_for_delivery" -> {"delivered"}
      [] from = "cancelled"        -> {"confirmed"}
      [] OTHER                     -> {}

(* validTransitions and isValidTransition.                                    *)
validTransitions(from) ==
    CASE from = "pending"          -> {"confirmed", "failed"}
      [] from = "confirmed"        -> {"packing", "cancelled"}
      [] from = "packing"          -> {"out_for_delivery"}
      [] from = "out_for_delivery" -> {"delivered"}
      [] OTHER                     -> {}

(* The saga inserts its orders as confirmed and has published that.            *)
Init ==
    /\ status = [o \in Orders |-> "confirmed"]
    /\ pc = [h \in Handlers |-> "idle"]
    /\ order = [h \in Handlers |-> NoOrder]
    /\ target = [h \in Handlers |-> "pending"]
    /\ read = [h \in Handlers |-> "pending"]
    /\ item = [h \in Handlers |-> 1]
    /\ released = [o \in Orders |-> [i \in 1 .. ItemCount |-> 0]]
    /\ visited = [o \in Orders |-> {"confirmed"}]
    /\ events = {}
    /\ lastEvent = [o \in Orders |-> "confirmed"]
    /\ overlapped = {}
    /\ faults = {}

-----------------------------------------------------------------------------
(* The handler answers; its locals are gone.                                  *)
Return(h) ==
    /\ pc' = [pc EXCEPT ![h] = "idle"]
    /\ order' = [order EXCEPT ![h] = NoOrder]
    /\ target' = [target EXCEPT ![h] = "pending"]
    /\ read' = [read EXCEPT ![h] = "pending"]
    /\ item' = [item EXCEPT ![h] = 1]

(* A failure happens.                                                        *)
Fault(f) == faults' = faults \cup {f}

(* Mutant: the loop runs past the last item.                                   *)
ReleaseHeadPastEnd(i) == IF i <= ItemCount + 1 THEN "release" ELSE "update"

(* The loop of releaseStockForOrder is at item i.                              *)
ReleaseHead(i) == IF i <= ItemCount THEN "release" ELSE "update"

(* SELECT status, then isValidTransition on what it returned.                  *)
Validate(h, o, to) ==
    /\ pc[h] = "idle"
    /\ to \in validTransitions(status[o])
    /\ order' = [order EXCEPT ![h] = o]
    /\ target' = [target EXCEPT ![h] = to]
    /\ read' = [read EXCEPT ![h] = status[o]]
    /\ pc' = [pc EXCEPT ![h] = IF to = "cancelled" THEN ReleaseHead(1) ELSE "update"]
    /\ overlapped' = IF \E g \in Handlers : order[g] = o THEN overlapped \cup {o}
                     ELSE overlapped
    /\ UNCHANGED <<status, item, events, lastEvent, released, visited, faults>>

(* One more unit of item i of order o goes back: the product service's UPDATE.  *)
GiveBack(o, i) ==
    /\ released[o][i] < MaxReleases
    /\ released' = [released EXCEPT ![o][i] = @ + 1]

(* updateStock returns nil.                                                  *)
ReleaseItem(h) ==
    /\ pc[h] = "release"
    /\ GiveBack(order[h], item[h])
    /\ item' = [item EXCEPT ![h] = @ + 1]
    /\ pc' = [pc EXCEPT ![h] = ReleaseHead(item[h] + 1)]
    /\ UNCHANGED <<status, order, target, read, events, lastEvent, visited, overlapped, faults>>

(* Mutant: the error of a release is only logged.                              *)
ReleaseFailsIgnored(h) ==
    /\ pc[h] = "release"
    /\ Fault("stockDown")
    /\ item' = [item EXCEPT ![h] = @ + 1]
    /\ pc' = [pc EXCEPT ![h] = ReleaseHead(item[h] + 1)]
    /\ UNCHANGED <<status, order, target, read, events, lastEvent, released, visited,
                   overlapped>>

(* A release takes effect without its reply, and the client tries it again.        *)
ReleaseLost(h) ==
    /\ pc[h] = "release"
    /\ Fault("lostReply")
    /\ GiveBack(order[h], item[h])
    /\ UNCHANGED <<status, pc, locals, events, lastEvent, visited, overlapped>>

(* updateStock returns an error: the handler answers 500 and leaves the items    *)
(* it has already given back, and the status, as they are.  The release itself     *)
(* may have taken effect without its reply (or do so later: nothing here looks).   *)
ReleaseFails(h) ==
    /\ pc[h] = "release"
    /\ \/ Fault("stockDown") /\ UNCHANGED released
       \/ Fault("lostReply") /\ GiveBack(order[h], item[h])
    /\ Return(h)
    /\ UNCHANGED <<status, events, lastEvent, visited, overlapped>>

(* rows.Next returns false because of an error.  The loop ends like after the       *)
(* last row, nobody asks rows.Err, and the release counts as done.               *)
RowsLost(h) ==
    /\ pc[h] = "release"
    /\ Fault("rowsLost")
    /\ pc' = [pc EXCEPT ![h] = "update"]
    /\ UNCHANGED <<status, locals, events, lastEvent, released, visited, overlapped>>

(* UPDATE orders SET status = $1 WHERE id = $2.                                *)
WriteStatus(h) ==
    /\ pc[h] = "update"
    /\ status' = [status EXCEPT ![order[h]] = target[h]]
    /\ visited' = [visited EXCEPT ![order[h]] = @ \cup {target[h]}]
    /\ pc' = [pc EXCEPT ![h] = "publish"]
    /\ UNCHANGED <<locals, events, lastEvent, released, overlapped, faults>>

(* Mutant: the error of the UPDATE is only logged.                             *)
WriteFailsIgnored(h) ==
    /\ pc[h] = "update"
    /\ Fault("orderDB")
    /\ pc' = [pc EXCEPT ![h] = "publish"]
    /\ UNCHANGED <<status, locals, events, lastEvent, released, visited, overlapped>>

(* The UPDATE returns an error: 500.  It is rolled back, or its connection is lost     *)
(* and nobody knows.                                                          *)
WriteFails(h) ==
    /\ pc[h] = "update"
    /\ Fault("orderDB")
    /\ \/ Return(h)
       \/ pc' = [pc EXCEPT ![h] = "orphan"] /\ UNCHANGED locals
    /\ UNCHANGED <<status, events, lastEvent, released, visited, overlapped>>

(* Postgres commits a statement nobody waits for; there is no event of it.          *)
OrphanCommits(h) ==
    /\ pc[h] = "orphan"
    /\ status' = [status EXCEPT ![order[h]] = target[h]]
    /\ visited' = [visited EXCEPT ![order[h]] = @ \cup {target[h]}]
    /\ Return(h)
    /\ UNCHANGED <<events, lastEvent, released, overlapped, faults>>

(* It is rolled back, or never arrived.                                        *)
OrphanDies(h) ==
    /\ pc[h] = "orphan"
    /\ Return(h)
    /\ UNCHANGED <<status, events, lastEvent, released, visited, overlapped, faults>>

(* publishOrderEvent, then the answer with the order as it is now.  An event     *)
(* that cannot be published is logged, the answer stays 200.                   *)
PublishEvent(h) ==
    /\ pc[h] = "publish"
    /\ \/ /\ events' = events \cup {[order |-> order[h], status |-> target[h],
                                     previous |-> read[h]]}
          /\ lastEvent' = [lastEvent EXCEPT ![order[h]] = target[h]]
          /\ UNCHANGED faults
       \/ Fault("brokerDown") /\ UNCHANGED <<events, lastEvent>>
    /\ Return(h)
    /\ UNCHANGED <<status, released, visited, overlapped>>

(* The process that serves some of the requests dies; of those that are at their      *)
(* UPDATE, some leave it behind.  (A release that is under way takes effect or not:    *)
(* ReleaseLost, then the crash.)                                               *)
Crash(dead, left) ==
    /\ Fault("crash")
    /\ \A h \in dead : pc[h] \notin {"idle", "orphan"}
    /\ \A h \in left : pc[h] = "update"
    /\ pc' = [h \in Handlers |-> IF h \in left THEN "orphan"
                                ELSE IF h \in dead THEN "idle" ELSE pc[h]]
    /\ order' = [h \in Handlers |-> IF h \in dead \ left THEN NoOrder ELSE order[h]]
    /\ target' = [h \in Handlers |-> IF h \in dead \ left THEN "pending" ELSE target[h]]
    /\ read' = [h \in Handlers |-> IF h \in dead \ left THEN "pending" ELSE read[h]]
    /\ item' = [h \in Handlers |-> IF h \in dead \ left THEN 1 ELSE item[h]]
    /\ UNCHANGED <<status, events, lastEvent, released, visited, overlapped>>

Idle == \A h \in Handlers : pc[h] = "idle"

(* Every order has reached a status that nothing follows.                      *)
Rest ==
    /\ Idle
    /\ \A o \in Orders : validTransitions(status[o]) = {}
    /\ UNCHANGED vars

Next ==
    \/ \E h \in Handlers :
          \/ \E o \in Orders, to \in Statuses : Validate(h, o, to)
          \/ ReleaseItem(h)
          \/ ReleaseLost(h)
          \/ ReleaseFails(h)
          \/ RowsLost(h)
          \/ WriteStatus(h)
          \/ WriteFails(h)
          \/ OrphanCommits(h)
          \/ OrphanDies(h)
          \/ PublishEvent(h)
    \/ \E dead \in (SUBSET Handlers) \ {{}} : \E left \in SUBSET dead : Crash(dead, left)
    \/ Rest

Spec == Init /\ [][Next]_vars

-----------------------------------------------------------------------------
(* The life of an order, as the documentation draws it.                        *)
Before == [packing |-> "confirmed", out_for_delivery |-> "packing",
           delivered |-> "out_for_delivery", cancelled |-> "confirmed"]

Terminal == {"delivered", "cancelled", "failed"}

-----------------------------------------------------------------------------
(* No stage is skipped: a row only gets a status when it has had the one before it,   *)
(* so a delivered order was packed and was out for delivery, whatever overlaps,      *)
(* crashes or fails.  A stale write may still move the row back, or over a stage that   *)
(* another request has just gone back to.                                        *)
NoStageSkipped ==
    \A o \in Orders : \A st \in visited[o] \ {"confirmed"} :
        st \in DOMAIN Before /\ Before[st] \in visited[o]

(* A cancelled order has given every item back at least once: the release comes   *)
(* before the status, and an error of the release ends the request.  Only an error *)
(* between two rows of order_items, which the release does not see, breaks this.   *)
CancelledIsReleased ==
    "rowsLost" \notin faults =>
        \A o \in Orders : "cancelled" \in visited[o] =>
            \A i \in 1 .. ItemCount : released[o][i] >= 1

(* Every event tells a transition that was made: from a status the row had to the  *)
(* next one, which was written, whatever overlaps or fails.                      *)
EventsTruthful ==
    \A e \in events :
        /\ {e.status, e.previous} \subseteq visited[e.order]
        /\ e.status \in DOMAIN Before /\ e.previous = Before[e.status]

(* While nothing fails, an order can be cancelled by each of the requests that     *)
(* overlap, but no more: once one of them has written a status, no later request    *)
(* is let through.  So an item is given back at most once per concurrent handler,   *)
(* and if it was given back at all, the cancellation was written in the end.       *)
ReleasesBounded ==
    faults = {} =>
        \A o \in Orders : \A i \in 1 .. ItemCount :
            /\ released[o][i] <= Cardinality(Handlers)
            /\ Idle /\ released[o][i] > 0 => "cancelled" \in visited[o]

(* An order that no two requests worked on at the same time, in a run without        *)
(* failures.                                                                  *)
Calm(o) == o \notin overlapped /\ faults = {}

(* Of such an order, a cancellation gives every item back exactly once, and         *)
(* nothing else gives any back.                                                *)
CancelReleasesOnce ==
    \A o \in Orders : Calm(o) /\ (\A h \in Handlers : order[h] # o) =>
        \A i \in 1 .. ItemCount :
            released[o][i] = IF status[o] = "cancelled" THEN 1 ELSE 0

(* Between two requests, the latest event of such an order tells its status:         *)
(* whoever follows the events is not left with a status the order does not have.   *)
LastEventCurrent ==
    \A o \in Orders : Calm(o) /\ (\A h \in Handlers : order[h] # o) =>
        lastEvent[o] = status[o]

(* "Valid status transitions": nothing follows delivered or cancelled, as long as no      *)
(* request came while another one was at work on the order, or an UPDATE that another    *)
(* left behind.  Failures break it only by leaving such an UPDATE ...                  *)
FinalUnlessOverlapped ==
    \A o \in Orders \ overlapped : \A st \in visited[o] \cap Terminal : status[o] = st

(* ... but two requests that overlap do, while nothing fails.                       *)
TerminalIsFinal ==
    faults = {} => \A o \in Orders : \A st \in visited[o] \cap Terminal : status[o] = st
=============================================================================
