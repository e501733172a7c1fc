------------------------------ MODULE OrderSaga ------------------------------
(***************************************************************************)
(* The order creation saga (order-service/main.go, createOrderHandler) and    *)
(* the part of the product service it drives (product-service/main.go,        *)
(* updateStockHandler).                                                      *)
(*                                                                          *)
(* Every POST /orders runs in its own goroutine: it takes a slot of the       *)
(* bulkhead, reserves the items one HTTP call at a time, writes the order in  *)
(* one database transaction and publishes an event; on a failure it releases  *)
(* what it reserved, with the same HTTP call and the opposite quantity.        *)
(*                                                                          *)
(* A call (updateStock) is retried inside the client (ResilientClient), at most   *)
(* MaxSends attempts in all.  An attempt is served by a goroutine of the product   *)
(* service (a job) that keeps running when the caller has stopped waiting: the    *)
(* caller may send the call again while the job of an earlier attempt can still     *)
(* take effect, and several of them may.  Whether the next attempt of a call that   *)
(* was sent once is sent at all depends on the connection it gets.                *)
(*                                                                          *)
(* Faults says which failures the environment may produce, so that a run or   *)
(* a theorem can say under which of them a property holds:                    *)
(*   "unavailable"    a call fails without any effect: no attempt finds a      *)
(*                    listener or a closed breaker, or a statement of the job   *)
(*                    fails                                                  *)
(*   "lostReply"      an attempt fails for its caller although the job may     *)
(*                    still take effect: 5 s timeout, broken connection, a       *)
(*                    statement whose outcome is unknown                       *)
(*   "cancel"         the request's context ends: the client, or the gateway   *)
(*                    after its own 5 s, hangs up                             *)
(*   "orderDB"        the order's transaction fails and is rolled back         *)
(*   "commitUnknown"  COMMIT takes effect, its acknowledgement is lost         *)
(*   "brokerDown"     the event cannot be published                           *)
(*   "crash"          the order-service process dies and is started again      *)
(***************************************************************************)
EXTENDS Integers, Sequences, FiniteSets, Functions

CONSTANTS
    Sagas,              \* the order requests
    Products,           \* product identifiers
    Catalog,            \* the products that exist
    Items,              \* Items[s]: the items of request s, in order
    MaxItems,           \* the largest number of items of a request
    InitStock,          \* the stock of each product at the start
    MaxConcurrentSagas, \* maxConcurrentSagas, the capacity of sagaSemaphore
    MaxSends,           \* attempts of a call: MaxRetries + 1
    Faults              \* the failures that may happen

AllFaults == {"unavailable", "lostReply", "cancel", "orderDB", "commitUnknown",
              "brokerDown", "crash"}

ASSUME SagasAssumption == IsFiniteSet(Sagas)
ASSUME ItemsAssumption ==
    /\ MaxItems \in Nat
    /\ Items \in [Sagas -> Seq([product : Products, quantity : Int])]
    /\ \A s \in Sagas : Len(Items[s]) <= MaxItems
ASSUME CatalogAssumption == Catalog \subseteq Products
ASSUME StockAssumption == InitStock \in [Products -> Nat]
ASSUME LimitsAssumption == MaxConcurrentSagas \in Nat \ {0}
ASSUME SendsAssumption == MaxSends \in Nat \ {0}
ASSUME FaultsAssumption == Faults \subseteq AllFaults

VARIABLES
    pc,         \* where each saga is
    idx,        \* the item its loop is at
    reserved,   \* len(reservedProducts): items are reserved in order, so the
                \* list always holds the products of the first items
    sent,       \* its current stock call is waiting for the reply
    tries,      \* the attempts of that call that were sent
    cancelled,  \* ctx.Err() # nil
    resp,       \* the status code the saga answers with, 0 before it knows
    unreleased, \* items whose "compensation failed" error was logged
    sem,        \* len(sagaSemaphore)
    jobs,       \* stock updates the product service is serving
    stock,      \* products.stock
    taken,      \* history: how often item i of saga s was taken from the
                \* stock, less how often it was put back
    unheard,    \* history: how often an attempt to reserve item i of saga s
                \* was given up while its job could still take effect
    orders,     \* the sagas whose order row is committed
    events      \* the sagas whose order.confirmed event was published

sagaVars   == <<pc, idx, reserved, sent, tries, resp, unreleased>>
remoteVars == <<jobs, stock, taken, unheard>>
vars == <<pc, idx, reserved, sent, tries, cancelled, resp, unreleased, sem,
          jobs, stock, taken, unheard, orders, events>>

Pos(s) == 1 .. Len(Items[s])
ProductOf(s, i)  == Items[s][i].product
QuantityOf(s, i) == Items[s][i].quantity

Labels == {"waiting", "decode", "getProduct", "reserve", "pay", "commit",
           "publish", "release", "respond", "done", "crashed"}
Codes  == {0, 201, 400, 409, 500, 503}

(* A stock update in the product service, for one attempt of a call: "reserve"  *)
(* subtracts the quantity of the item, "release" adds it back.                 *)
Jobs == [saga : Sagas, item : 1 .. MaxItems, dir : {"reserve", "release"},
         try : 1 .. MaxSends, stage : {"select", "update"}]

SagaTypeOK ==
    /\ pc \in [Sagas -> Labels]
    /\ idx \in [Sagas -> 1 .. (MaxItems + 1)]
    /\ reserved \in [Sagas -> 0 .. MaxItems]
    /\ sent \in [Sagas -> BOOLEAN]
    /\ tries \in [Sagas -> 0 .. MaxSends]
    /\ resp \in [Sagas -> Codes]
    /\ unreleased \in [Sagas -> SUBSET (1 .. MaxItems)]

TypeOK ==
    /\ SagaTypeOK
    /\ cancelled \in [Sagas -> BOOLEAN]
    /\ sem \in 0 .. MaxConcurrentSagas
    /\ jobs \in SUBSET Jobs
    /\ stock \in [Products -> Int]
    /\ taken \in [Sagas -> [1 .. MaxItems -> Int]]
    /\ unheard \in [Sagas -> [1 .. MaxItems -> Nat]]
    /\ orders \in SUBSET Sagas
    /\ events \in SUBSET Sagas

Init ==
    /\ pc = [s \in Sagas |-> "waiting"]
    /\ idx = [s \in Sagas |-> 1]
    /\ reserved = [s \in Sagas |-> 0]
    /\ sent = [s \in Sagas |-> FALSE]
    /\ tries = [s \in Sagas |-> 0]
    /\ cancelled = [s \in Sagas |-> FALSE]
    /\ resp = [s \in Sagas |-> 0]
    /\ unreleased = [s \in Sagas |-> {}]
    /\ sem = 0
    /\ jobs = {}
    /\ stock = InitStock
    /\ taken = [s \in Sagas |-> [i \in 1 .. MaxItems |-> 0]]
    /\ unheard = [s \in Sagas |-> [i \in 1 .. MaxItems |-> 0]]
    /\ orders = {}
    /\ events = {}

-----------------------------------------------------------------------------
(* The bulkhead.                                                             *)

Acquire(s) ==
    /\ pc[s] = "waiting"
    /\ sem < MaxConcurrentSagas
    /\ sem' = sem + 1
    /\ pc' = [pc EXCEPT ![s] = "decode"]
    /\ UNCHANGED <<idx, reserved, sent, tries, cancelled, resp, unreleased,
                   remoteVars, orders, events>>

(* Mutant: the deferred receive also runs for a saga that never got a slot.    *)
GiveUpWaitingFreesSlot(s) ==
    /\ pc[s] = "waiting"
    /\ cancelled[s]
    /\ pc' = [pc EXCEPT ![s] = "done"]
    /\ resp' = [resp EXCEPT ![s] = 503]
    /\ cancelled' = [cancelled EXCEPT ![s] = FALSE]
    /\ sem' = sem - 1
    /\ UNCHANGED <<idx, reserved, sent, tries, unreleased, remoteVars, orders, events>>

(* ctx.Done() while waiting for a slot: 503, no slot was taken.               *)
GiveUpWaiting(s) ==
    /\ pc[s] = "waiting"
    /\ cancelled[s]
    /\ pc' = [pc EXCEPT ![s] = "done"]
    /\ resp' = [resp EXCEPT ![s] = 503]
    /\ cancelled' = [cancelled EXCEPT ![s] = FALSE]
    /\ UNCHANGED <<idx, reserved, sent, tries, unreleased, sem, remoteVars,
                   orders, events>>

(* Mutant: the handler frees the slot by hand and the deferred receive again.  *)
RespondFreesTwice(s) ==
    /\ pc[s] = "respond"
    /\ pc' = [pc EXCEPT ![s] = "done"]
    /\ sem' = sem - 2
    /\ idx' = [idx EXCEPT ![s] = 1]
    /\ reserved' = [reserved EXCEPT ![s] = 0]
    /\ cancelled' = [cancelled EXCEPT ![s] = FALSE]
    /\ UNCHANGED <<sent, tries, resp, unreleased, remoteVars, orders, events>>

(* Mutant: a failed saga keeps its slot.                                      *)
RespondKeepsSlot(s) ==
    /\ pc[s] = "respond"
    /\ pc' = [pc EXCEPT ![s] = "done"]
    /\ sem' = IF resp[s] = 201 THEN sem - 1 ELSE sem
    /\ idx' = [idx EXCEPT ![s] = 1]
    /\ reserved' = [reserved EXCEPT ![s] = 0]
    /\ cancelled' = [cancelled EXCEPT ![s] = FALSE]
    /\ UNCHANGED <<sent, tries, resp, unreleased, remoteVars, orders, events>>

(* http.Error or the encoded order, then the deferred receive frees the slot;  *)
(* the handler's locals and its context are gone.                             *)
Respond(s) ==
    /\ pc[s] = "respond"
    /\ pc' = [pc EXCEPT ![s] = "done"]
    /\ sem' = sem - 1
    /\ idx' = [idx EXCEPT ![s] = 1]
    /\ reserved' = [reserved EXCEPT ![s] = 0]
    /\ cancelled' = [cancelled EXCEPT ![s] = FALSE]
    /\ UNCHANGED <<sent, tries, resp, unreleased, remoteVars, orders, events>>

-----------------------------------------------------------------------------
(* The saga's own steps.                                                     *)

(* The head of the loop over req.Items.                                      *)
LoopHead(s, i) == IF i <= Len(Items[s]) THEN "getProduct" ELSE "pay"

Decode(s) ==
    /\ pc[s] = "decode"
    /\ pc' = [pc EXCEPT ![s] = LoopHead(s, 1)]
    /\ UNCHANGED <<idx, reserved, sent, tries, cancelled, resp, unreleased,
                   sem, remoteVars, orders, events>>

DecodeFails(s) ==
    /\ pc[s] = "decode"
    /\ pc' = [pc EXCEPT ![s] = "respond"]
    /\ resp' = [resp EXCEPT ![s] = 400]
    /\ UNCHANGED <<idx, reserved, sent, tries, cancelled, unreleased, sem,
                   remoteVars, orders, events>>

(* Mutant: the loop of the compensation misses the last item.                 *)
CompensateMissesLast(s, code) ==
    /\ resp' = [resp EXCEPT ![s] = code]
    /\ idx' = [idx EXCEPT ![s] = 1]
    /\ sent' = [sent EXCEPT ![s] = FALSE]
    /\ tries' = [tries EXCEPT ![s] = 0]
    /\ pc' = [pc EXCEPT ![s] = IF reserved[s] <= 1 THEN "respond" ELSE "release"]
    /\ UNCHANGED <<reserved, unreleased>>

(* releaseReservedStock starts, after which the saga answers code.            *)
Compensate(s, code) ==
    /\ resp' = [resp EXCEPT ![s] = code]
    /\ idx' = [idx EXCEPT ![s] = 1]
    /\ sent' = [sent EXCEPT ![s] = FALSE]
    /\ tries' = [tries EXCEPT ![s] = 0]
    /\ pc' = [pc EXCEPT ![s] = IF reserved[s] = 0 THEN "respond" ELSE "release"]
    /\ UNCHANGED <<reserved, unreleased>>

(* getProduct returns the product of the current item.                        *)
GetProduct(s) ==
    /\ pc[s] = "getProduct"
    /\ ProductOf(s, idx[s]) \in Catalog
    /\ ~ cancelled[s]
    /\ pc' = [pc EXCEPT ![s] = "reserve"]
    /\ UNCHANGED <<idx, reserved, sent, tries, cancelled, resp, unreleased,
                   sem, remoteVars, orders, events>>

(* getProduct returns an error: no such product, or no answer after all the    *)
(* attempts of this read, or the context has ended.                           *)
GetProductFails(s) ==
    /\ pc[s] = "getProduct"
    /\ \/ ProductOf(s, idx[s]) \notin Catalog
       \/ cancelled[s]
       \/ Faults \cap {"unavailable", "lostReply"} # {}
    /\ Compensate(s, 400)
    /\ UNCHANGED <<cancelled, sem, remoteVars, orders, events>>

(* The simulated payment always succeeds.                                    *)
Pay(s) ==
    /\ pc[s] = "pay"
    /\ pc' = [pc EXCEPT ![s] = "commit"]
    /\ UNCHANGED <<idx, reserved, sent, tries, cancelled, resp, unreleased,
                   sem, remoteVars, orders, events>>

(* BEGIN, the INSERTs and COMMIT: nothing of the transaction is seen before    *)
(* the commit.                                                               *)
CommitOrder(s) ==
    /\ pc[s] = "commit"
    /\ orders' = orders \cup {s}
    /\ pc' = [pc EXCEPT ![s] = "publish"]
    /\ UNCHANGED <<idx, reserved, sent, tries, cancelled, resp, unreleased,
                   sem, remoteVars, events>>

(* Mutant: the INSERTs run outside of a transaction.                          *)
CommitFailsHalfway(s) ==
    /\ pc[s] = "commit"
    /\ "orderDB" \in Faults
    /\ orders' = orders \cup {s}
    /\ Compensate(s, 500)
    /\ UNCHANGED <<cancelled, sem, remoteVars, events>>

(* BEGIN, an INSERT or COMMIT returns an error.                               *)
CommitFails(s) ==
    /\ pc[s] = "commit"
    /\ \/ "orderDB" \in Faults /\ UNCHANGED orders
       \/ "commitUnknown" \in Faults /\ orders' = orders \cup {s}
    /\ Compensate(s, 500)
    /\ UNCHANGED <<cancelled, sem, remoteVars, events>>

(* publishOrderConfirmed: an error is logged and changes nothing.             *)
Publish(s) ==
    /\ pc[s] = "publish"
    /\ \/ events' = events \cup {s}
       \/ "brokerDown" \in Faults /\ UNCHANGED events
    /\ pc' = [pc EXCEPT ![s] = "respond"]
    /\ resp' = [resp EXCEPT ![s] = 201]
    /\ UNCHANGED <<idx, reserved, sent, tries, cancelled, unreleased, sem,
                   remoteVars, orders>>

-----------------------------------------------------------------------------
(* updateStock as its caller sees it, in the loop (pc "reserve") and in        *)
(* releaseReservedStock (pc "release").                                      *)

InCall(s) == pc[s] \in {"reserve", "release"}

(* The call is over; the caller goes on with its next item.                   *)
NextCall(s) ==
    /\ idx' = [idx EXCEPT ![s] = @ + 1]
    /\ sent' = [sent EXCEPT ![s] = FALSE]
    /\ tries' = [tries EXCEPT ![s] = 0]

(* updateStock returns nil.                                                  *)
CallSucceeds(s) ==
    /\ NextCall(s)
    /\ IF pc[s] = "reserve"
       THEN /\ reserved' = [reserved EXCEPT ![s] = idx[s]]
            /\ pc' = [pc EXCEPT ![s] = LoopHead(s, idx[s] + 1)]
       ELSE /\ pc' = [pc EXCEPT ![s] = IF idx[s] < reserved[s] THEN "release" ELSE "respond"]
            /\ UNCHANGED reserved
    /\ UNCHANGED <<resp, unreleased>>

(* Mutant: the error of a reservation is ignored.                             *)
CallFailsIgnored(s) ==
    /\ NextCall(s)
    /\ IF pc[s] = "reserve"
       THEN /\ reserved' = [reserved EXCEPT ![s] = idx[s]]
            /\ pc' = [pc EXCEPT ![s] = LoopHead(s, idx[s] + 1)]
       ELSE /\ pc' = [pc EXCEPT ![s] = IF idx[s] < reserved[s] THEN "release" ELSE "respond"]
            /\ UNCHANGED reserved
    /\ UNCHANGED <<resp, unreleased>>

(* updateStock returns an error: a failed reservation starts compensation; a   *)
(* failed compensation is logged and the loop goes on.                        *)
CallFails(s) ==
    \/ /\ pc[s] = "reserve"
       /\ Compensate(s, 409)
    \/ /\ pc[s] = "release"
       /\ NextCall(s)
       /\ pc' = [pc EXCEPT ![s] = IF idx[s] < reserved[s] THEN "release" ELSE "respond"]
       /\ unreleased' = [unreleased EXCEPT ![s] = @ \cup {idx[s]}]
       /\ UNCHANGED <<resp, reserved>>

(* Another attempt of the call will be made.                                    *)
Retries(s) ==
    /\ tries[s] < MaxSends
    /\ sent' = [sent EXCEPT ![s] = FALSE]
    /\ UNCHANGED <<pc, idx, reserved, tries, resp, unreleased>>

(* An attempt has failed in a way that is retried: another one is made, or none is   *)
(* left, or those that are left fail before they are sent, and the call has failed.   *)
AttemptFails(s) == CallFails(s) \/ Retries(s)

(* An attempt reaches the product service, which starts serving it.             *)
Send(s) ==
    /\ InCall(s)
    /\ ~ sent[s]
    /\ tries[s] < MaxSends
    /\ ~ cancelled[s]
    /\ sent' = [sent EXCEPT ![s] = TRUE]
    /\ tries' = [tries EXCEPT ![s] = @ + 1]
    /\ jobs' = jobs \cup {[saga |-> s, item |-> idx[s], dir |-> pc[s],
                           try |-> tries[s] + 1, stage |-> "select"]}
    /\ UNCHANGED <<pc, idx, reserved, cancelled, resp, unreleased, sem, stock,
                   taken, unheard, orders, events>>

(* No further attempt of the call reaches the product service.                  *)
SendFails(s) ==
    /\ InCall(s)
    /\ ~ sent[s]
    /\ "unavailable" \in Faults
    /\ CallFails(s)
    /\ UNCHANGED <<cancelled, sem, remoteVars, orders, events>>

(* The caller stops waiting for the reply; the job knows nothing of it.         *)
Timeout(s) ==
    /\ InCall(s)
    /\ sent[s]
    /\ "lostReply" \in Faults
    /\ AttemptFails(s)
    /\ unheard' = IF pc[s] = "reserve" THEN [unheard EXCEPT ![s][idx[s]] = @ + 1] ELSE unheard
    /\ UNCHANGED <<cancelled, sem, jobs, stock, taken, orders, events>>

(* The context has ended: ExecuteHTTP returns its error, before the call is      *)
(* sent, while it waits for the reply or backs off.                            *)
CallCancelled(s) ==
    /\ InCall(s)
    /\ cancelled[s]
    /\ CallFails(s)
    /\ UNCHANGED <<cancelled, sem, remoteVars, orders, events>>

-----------------------------------------------------------------------------
(* updateStockHandler in the product service (ProductStock has it in full).    *)

(* Its caller is still waiting for it: a saga makes the call (dir, item) once, and  *)
(* waits for its latest attempt.                                              *)
Awaited(j) ==
    /\ sent[j.saga] /\ tries[j.saga] = j.try
    /\ pc[j.saga] = j.dir /\ idx[j.saga] = j.item

(* Mutant: a release subtracts once more.                                    *)
ChangeSubtracts(j) == - QuantityOf(j.saga, j.item)

Change(j) ==
    IF j.dir = "reserve" THEN - QuantityOf(j.saga, j.item) ELSE QuantityOf(j.saga, j.item)

(* The job ends: its reply reaches the caller, or nobody.                     *)
Deliver(j, Reaction) ==
    /\ jobs' = jobs \ {j}
    /\ IF Awaited(j) THEN Reaction ELSE UNCHANGED sagaVars
    /\ UNCHANGED <<cancelled, sem, orders, events>>

(* The check passes on the stock just read.                                  *)
Select(j) ==
    /\ j.stage = "select"
    /\ stock[ProductOf(j.saga, j.item)] + Change(j) >= 0
    /\ jobs' = (jobs \ {j}) \cup {[j EXCEPT !.stage = "update"]}
    /\ UNCHANGED <<sagaVars, cancelled, sem, stock, taken, unheard, orders, events>>

(* 409 when the stock would go negative; 404 when the SELECT fails.            *)
Refuse(j) ==
    /\ j.stage = "select"
    /\ \/ stock[ProductOf(j.saga, j.item)] + Change(j) < 0
       \/ "unavailable" \in Faults
    /\ Deliver(j, CallFails(j.saga))
    /\ UNCHANGED <<stock, taken, unheard>>

(* The UPDATE commits; 200.                                                  *)
Update(j) ==
    /\ j.stage = "update"
    /\ stock' = [stock EXCEPT ![ProductOf(j.saga, j.item)] = @ + Change(j)]
    /\ taken' = [taken EXCEPT ![j.saga][j.item] =
                   IF j.dir = "reserve" THEN @ + 1 ELSE @ - 1]
    /\ Deliver(j, CallSucceeds(j.saga))
    /\ UNCHANGED unheard

(* The UPDATE fails: 500, which is retried.  With "lostReply" also the death of the  *)
(* process that serves the job, at any stage; where its UPDATE commits all the same,  *)
(* the job lives on and its caller has timed out.                               *)
UpdateFails(j) ==
    /\ \/ "unavailable" \in Faults /\ j.stage = "update"
       \/ "lostReply" \in Faults
    /\ Deliver(j, AttemptFails(j.saga))
    /\ UNCHANGED <<stock, taken, unheard>>

-----------------------------------------------------------------------------
(* The environment.                                                          *)

Cancel(s) ==
    /\ "cancel" \in Faults
    /\ ~ cancelled[s]
    /\ pc[s] \notin {"done", "crashed"}
    /\ cancelled' = [cancelled EXCEPT ![s] = TRUE]
    /\ UNCHANGED <<sagaVars, sem, remoteVars, orders, events>>

(* The process dies: its sagas and its semaphore with it.  Nothing of a saga   *)
(* is kept that a new process could resume.  A request that holds no slot has   *)
(* touched nothing yet: after the restart it stands for one that arrives then.  *)
Crash ==
    /\ "crash" \in Faults
    /\ \E s \in Sagas : pc[s] \notin {"waiting", "done", "crashed"}
    /\ pc' = [s \in Sagas |-> IF pc[s] \in {"waiting", "done"} THEN pc[s] ELSE "crashed"]
    /\ idx' = [s \in Sagas |-> 1]
    /\ reserved' = [s \in Sagas |-> 0]
    /\ sent' = [s \in Sagas |-> FALSE]
    /\ tries' = [s \in Sagas |-> 0]
    /\ cancelled' = [s \in Sagas |-> FALSE]
    /\ sem' = 0
    /\ UNCHANGED <<resp, unreleased, remoteVars, orders, events>>

Finished == \A s \in Sagas : pc[s] \in {"done", "crashed"}

(* All requests are answered and the product service is idle.                 *)
Rest ==
    /\ Finished
    /\ jobs = {}
    /\ UNCHANGED vars

SagaStep(s) ==
    \/ Acquire(s)
    \/ GiveUpWaiting(s)
    \/ Decode(s)
    \/ DecodeFails(s)
    \/ GetProduct(s)
    \/ GetProductFails(s)
    \/ Pay(s)
    \/ CommitOrder(s)
    \/ CommitFails(s)
    \/ Publish(s)
    \/ Send(s)
    \/ SendFails(s)
    \/ Timeout(s)
    \/ CallCancelled(s)
    \/ Respond(s)

JobStep(j) ==
    \/ Select(j)
    \/ Refuse(j)
    \/ Update(j)
    \/ UpdateFails(j)

Next ==
    \/ \E s \in Sagas : SagaStep(s) \/ Cancel(s)
    \/ \E j \in jobs : JobStep(j)
    \/ Crash
    \/ Rest

Spec == Init /\ [][Next]_vars

(* A goroutine that can move does, jobs included.  Weak fairness is enough for  *)
(* the wait at the bulkhead: a request takes a slot only once, and the sagas     *)
(* that hold one return it.  GiveUpWaiting, failures and cancellations may       *)
(* happen or not.                                                            *)
SagaRuns(s) ==
    \/ Acquire(s)
    \/ Decode(s)
    \/ GetProduct(s)
    \/ GetProductFails(s)
    \/ Pay(s)
    \/ CommitOrder(s)
    \/ Publish(s)
    \/ Send(s)
    \/ CallCancelled(s)
    \/ Respond(s)

Fairness ==
    /\ \A s \in Sagas : WF_vars(SagaRuns(s))
    /\ WF_vars(\E j \in jobs : JobStep(j))

FairSpec == Spec /\ Fairness

-----------------------------------------------------------------------------
(* Definitions the properties share.                                         *)

Active == {s \in Sagas : pc[s] \notin {"waiting", "done", "crashed"}}

(* The saga has decided to fail and runs, or has run, its compensation.        *)
Failed(s) == resp[s] \in {400, 409, 500, 503}

Quiescent == Finished /\ jobs = {}

(* The saga answered that it failed, and nothing of it is in flight.           *)
FailedForGood(s) == pc[s] = "done" /\ Failed(s) /\ \A j \in jobs : j.saga # s

-----------------------------------------------------------------------------
(* Safety.                                                                   *)

(* Bulkhead: the tokens in sagaSemaphore are exactly the sagas between their   *)
(* acquire and their answer, on every path out of the handler, so there are    *)
(* never more of those than slots and a failed saga never keeps one.          *)
SlotsAccounted == sem = Cardinality(Active) /\ sem <= MaxConcurrentSagas

(* Where the saga's loops are: items are reserved one after the other from the  *)
(* first, and exactly those are released.                                     *)
LoopOK(s) ==
    /\ pc[s] \in {"waiting", "decode"} => idx[s] = 1 /\ reserved[s] = 0
    /\ pc[s] \in {"getProduct", "reserve"} =>
          idx[s] \in Pos(s) /\ reserved[s] = idx[s] - 1
    /\ pc[s] \in {"pay", "commit", "publish"} => reserved[s] = Len(Items[s])
    /\ pc[s] = "release" => idx[s] \in 1 .. reserved[s]
    /\ reserved[s] \in 0 .. Len(Items[s])

LoopInv == \A s \in Sagas : LoopOK(s)

(* No order without its stock: while an order's row exists, every item of it has    *)
(* been taken at least once more than it was put back; and it has been taken more     *)
(* than once only as often as an attempt was given up that could still take effect.   *)
OrdersHaveTheirStock ==
    \A s \in orders : \A i \in Pos(s) : taken[s][i] \in 1 .. (1 + unheard[s][i])

(* The answer and the database agree: 201 if and only if the order exists, and  *)
(* an event is only published for an order that exists.                        *)
AnswerMatchesOrder ==
    /\ \A s \in Sagas : pc[s] = "done" => (resp[s] = 201 <=> s \in orders)
    /\ events \subseteq orders

(* Why both of the above hold, as long as a COMMIT never leaves its outcome       *)
(* open.  The answer is decided once, and a saga that has decided to fail owns no   *)
(* order.                                                                     *)
StageOK(s) ==
    /\ pc[s] \in {"waiting", "decode", "getProduct", "reserve", "pay", "commit", "publish"} =>
          resp[s] = 0
    /\ pc[s] = "release" => Failed(s)
    /\ pc[s] \in {"respond", "done"} => resp[s] # 0

OrderOK(s) ==
    /\ s \in orders => pc[s] \in {"publish", "respond", "done", "crashed"} /\ ~ Failed(s)
    /\ pc[s] = "publish" \/ resp[s] = 201 => s \in orders
    /\ s \in events => s \in orders

(* The order of saga s exists, or s is still on its way to one.                    *)
Ordering(s) == s \in orders \/ (~ Failed(s) /\ pc[s] # "crashed")

(* Saga s was told that item i is reserved.                                      *)
Owns(s, i) == s \in orders \/ i <= reserved[s]

(* Saga s waits for the reply to a reservation of item i.                           *)
Asks(s, i) == pc[s] = "reserve" /\ sent[s] /\ idx[s] = i

(* The attempts for item i that the product service still serves.                  *)
JobsOf(s) == {j \in jobs : j.saga = s}
Pending(s, i) == {j \in JobsOf(s) : j.item = i}

(* An item the saga owns was taken; and an attempt that was, or may yet be, served   *)
(* for an item is the one that succeeded, the one it waits for, or was given up.       *)
ItemOK(s, i) ==
    /\ taken[s][i] >= (IF Owns(s, i) THEN 1 ELSE 0)
    /\ taken[s][i] + Cardinality(Pending(s, i)) <=
          unheard[s][i] + (IF Owns(s, i) \/ Asks(s, i) THEN 1 ELSE 0)

(* The ledger of a saga with an order, or on its way to one: nothing gives its items  *)
(* back.                                                                      *)
LedgerOK(s) == Ordering(s) =>
    /\ \A j \in JobsOf(s) : j.dir = "reserve"
    /\ \A i \in Pos(s) : ItemOK(s, i)

(* A saga that waits for a reply has a job that will send it.                       *)
WaitOK(s) == sent[s] => \E j \in JobsOf(s) : Awaited(j)

OrderInv == \A s \in Sagas : StageOK(s) /\ OrderOK(s) /\ LedgerOK(s) /\ WaitOK(s)

(* Compensation is exact: when a saga has failed, every item it reserved is     *)
(* back in the stock, but for the items whose failed compensation was logged,    *)
(* and nothing else is.                                                      *)
CompensationExact ==
    \A s \in Sagas : pc[s] = "done" /\ Failed(s) =>
        \A i \in Pos(s) : taken[s][i] = IF i \in unreleased[s] THEN 1 ELSE 0

(* What createOrderHandler says of itself: on any failure, compensating         *)
(* transactions release reserved stock.                                       *)
SagaAtomic ==
    \A s \in Sagas : FailedForGood(s) => \A i \in Pos(s) : taken[s][i] = 0

(* The least of it: of the items a failing saga was told are reserved, none is still  *)
(* missing from the stock when its compensation is through and no call of it is in     *)
(* flight.                                                                    *)
ReservedIsReleased ==
    \A s \in Sagas : pc[s] = "respond" /\ Failed(s) /\ (\A j \in jobs : j.saga # s) =>
        \A i \in 1 .. reserved[s] : taken[s][i] = 0

(* Items of the orders that exist.                                           *)
Ordered(p) == {o \in orders \X (1 .. MaxItems) :
                  o[2] \in Pos(o[1]) /\ ProductOf(o[1], o[2]) = p}

(* The product database and the order database agree: at rest, and unless a     *)
(* failed compensation was logged, the stock of every product is what it was     *)
(* at the start less the items of the orders that exist.                        *)
StockMatchesOrders ==
    Quiescent /\ (\A s \in Sagas : unreleased[s] = {}) =>
        \A p \in Products :
            stock[p] = InitStock[p]
                - SumFunctionOnSet([o \in Ordered(p) |-> QuantityOf(o[1], o[2])], Ordered(p))

-----------------------------------------------------------------------------
(* The saga as its client and the stock see it.                                *)
StageOf(s) ==
    CASE pc[s] = "done" -> IF resp[s] = 201 THEN "confirmed" ELSE "refused"
      [] pc[s] # "done" /\ s \in orders -> "placed"
      [] pc[s] # "done" /\ s \notin orders /\ Failed(s) -> "failed"
      [] OTHER -> "open"

TakenOf(s) == {i \in Pos(s) : taken[s][i] = 1}

Requests == INSTANCE OrderRequests WITH
    Requests <- Sagas,
    stage <- [s \in Sagas |-> StageOf(s)],
    held <- [s \in Sagas |-> TakenOf(s)],
    lost <- unreleased,
    announced <- events

(* The saga is a placed order or gives everything back: item by item and call by   *)
(* call, its steps are those of OrderRequests, as long as no reply is lost,        *)
(* nobody hangs up and no process dies.                                         *)
ImplementsRequests == Requests!Spec

-----------------------------------------------------------------------------
(* Liveness: every request is answered, unless its process dies: no wait for a     *)
(* slot, a reply or a compensation is for ever.                               *)
EveryRequestAnswered == \A s \in Sagas : <>(pc[s] \in {"done", "crashed"})
=============================================================================
