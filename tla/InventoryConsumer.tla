-------------------------- MODULE InventoryConsumer ---------------------------
(***************************************************************************)
(* The queue inventory.update and startRabbitMQConsumer                        *)
(* (product-service/main.go) in each replica of the service: an update read      *)
(* from the queue changes products.stock, then the inventory_level gauge of the   *)
(* replica that handled it, then is acknowledged.                             *)
(*                                                                          *)
(* RabbitMQ and whoever publishes are external (nothing in the repository        *)
(* publishes to this queue): messages go through the default exchange, which     *)
(* drops what it has no queue for.  Acknowledgements count only on the           *)
(* connection that delivered the message.  Stock requests over HTTP are the       *)
(* business of ProductStock; here the messages are the only writers.            *)
(***************************************************************************)
EXTENDS Integers, FiniteSets, Functions

CONSTANTS
    Messages,   \* the updates to be published
    Malformed,  \* those that do not parse
    Transient,  \* those that were not published as persistent
    Products,   \* the products with a row in the products table
    ProductOf,  \* the product each message names, perhaps one without a row
    ChangeOf,   \* the quantity_change of each message
    InitStock,  \* the stock of each product at the start
    Consumers,  \* the replicas of the product service
    None,       \* no message, no reading
    MaxLosses,  \* bound: connections and processes lost, in all
    Faults      \* the failures that may happen, of AllFaults

(*   "connLost"   a consumer's connection breaks, or cannot be set up           *)
(*   "crash"      a consumer's process dies                                   *)
(*   "db"         a statement returns an error                                *)
(*   "broker"     RabbitMQ is restarted                                       *)
AllFaults == {"connLost", "crash", "db", "broker"}

ASSUME MessagesAssumption == IsFiniteSet(Messages) /\ None \notin Messages
ASSUME SubsetsAssumption == Malformed \subseteq Messages /\ Transient \subseteq Messages
ASSUME ChangeAssumption == ChangeOf \in [Messages -> Int]
ASSUME StockAssumption == InitStock \in [Products -> Int] /\ None \notin Int
ASSUME ConsumersAssumption == IsFiniteSet(Consumers) /\ Consumers # {}
ASSUME MaxLossesAssumption == MaxLosses \in Nat
ASSUME FaultsAssumption == Faults \subseteq AllFaults

VARIABLES
    declared,   \* the queue exists
    place,      \* where RabbitMQ has each message
    receiver,   \* the consumer it was last delivered to, if any
    up,         \* the consumers with a connection
    held,       \* deliveries buffered in their processes
    handling,   \* the delivery a loop is at
    step,       \* how far it is with that
    newStock,   \* the stock its SELECT returned
    stock,      \* products.stock
    level,      \* the inventory_level gauges of each replica
    applied,    \* history: how often the UPDATE of a message was committed
    unheard,    \* history: products with an UPDATE whose result no replica read back
    losses      \* history: connections and processes lost

brokerVars == <<declared, place, receiver>>
loopVars == <<handling, step, newStock>>
clientVars == <<up, held, loopVars>>
tableVars == <<stock, applied>>
vars == <<brokerVars, clientVars, tableVars, level, unheard, losses>>

(* "limbo": unacknowledged on a connection whose end RabbitMQ has not noticed.      *)
Places == {"unpublished", "ready", "delivered", "limbo", "dead", "acked", "gone"}

(* "select": the UPDATE changed a row, the gauge is next.                         *)
Steps == {"idle", "update", "select", "gauge", "ack"}

TypeOK ==
    /\ declared \in BOOLEAN
    /\ place \in [Messages -> Places]
    /\ receiver \in [Messages -> Consumers \cup {None}]
    /\ up \in SUBSET Consumers
    /\ held \in [Consumers -> SUBSET Messages]
    /\ handling \in [Consumers -> Messages \cup {None}]
    /\ step \in [Consumers -> Steps]
    /\ \A c \in Consumers : step[c] = "idle" <=> handling[c] = None
    /\ \A c \in Consumers : step[c] \in {"select", "gauge"} => ProductOf[handling[c]] \in Products
    /\ newStock \in [Consumers -> Int \cup {None}]
    /\ \A c \in Consumers : newStock[c] # None <=> step[c] = "gauge"
    /\ stock \in [Products -> Int]
    /\ level \in [Consumers -> [Products -> Int \cup {None}]]
    /\ applied \in [Messages -> Nat]
    /\ unheard \in SUBSET Products
    /\ losses \in 0 .. MaxLosses

(* Postgres and RabbitMQ run; the replicas have read their gauges (main calls        *)
(* initInventoryMetrics first) and are about to connect.                        *)
Init ==
    /\ declared = FALSE
    /\ place = [m \in Messages |-> "unpublished"]
    /\ receiver = [m \in Messages |-> None]
    /\ up = {}
    /\ held = [c \in Consumers |-> {}]
    /\ handling = [c \in Consumers |-> None]
    /\ step = [c \in Consumers |-> "idle"]
    /\ newStock = [c \in Consumers |-> None]
    /\ stock = InitStock
    /\ level = [c \in Consumers |-> InitStock]
    /\ applied = [m \in Messages |-> 0]
    /\ unheard = {}
    /\ losses = 0

-----------------------------------------------------------------------------
(* RabbitMQ, and the loop around the connection.                              *)

Publish(m) ==
    /\ place[m] = "unpublished"
    /\ place' = [place EXCEPT ![m] = IF declared THEN "ready" ELSE "gone"]
    /\ UNCHANGED <<declared, receiver, clientVars, tableVars, level, unheard, losses>>

(* Dial, Channel, both QueueDeclares, Consume: the loop of the previous connection   *)
(* has ended.                                                                 *)
Connect(c) ==
    /\ c \notin up
    /\ held[c] = {} /\ handling[c] = None
    /\ up' = up \cup {c}
    /\ declared' = TRUE
    /\ UNCHANGED <<place, receiver, held, loopVars, tableVars, level, unheard, losses>>

(* Consume fails after the queue was declared; earlier failures change nothing.      *)
ConnectFails(c) ==
    /\ "connLost" \in Faults
    /\ c \notin up
    /\ held[c] = {} /\ handling[c] = None
    /\ declared' = TRUE
    /\ UNCHANGED <<place, receiver, clientVars, tableVars, level, unheard, losses>>

Deliver(c, m) ==
    /\ c \in up
    /\ place[m] = "ready"
    /\ place' = [place EXCEPT ![m] = "delivered"]
    /\ receiver' = [receiver EXCEPT ![m] = c]
    /\ held' = [held EXCEPT ![c] = @ \cup {m}]
    /\ UNCHANGED <<declared, up, loopVars, tableVars, level, unheard, losses>>

-----------------------------------------------------------------------------
(* The loop over the deliveries.                                              *)

Take(c, m) ==
    /\ handling[c] = None
    /\ m \in held[c]
    /\ held' = [held EXCEPT ![c] = @ \ {m}]
    /\ handling' = [handling EXCEPT ![c] = m]
    /\ step' = [step EXCEPT ![c] = "update"]
    /\ UNCHANGED <<brokerVars, up, newStock, tableVars, level, unheard, losses>>

(* Ack or Nack, which do something on a connection that is still there, and the       *)
(* next round of the loop.                                                     *)
Settle(c, p) ==
    /\ place' = IF c \in up THEN [place EXCEPT ![handling[c]] = p] ELSE place
    /\ handling' = [handling EXCEPT ![c] = None]
    /\ step' = [step EXCEPT ![c] = "idle"]

(* json.Unmarshal fails: Nack without requeue.                                  *)
Discard(c) ==
    /\ step[c] = "update"
    /\ handling[c] \in Malformed
    /\ Settle(c, "dead")
    /\ UNCHANGED <<declared, receiver, up, held, newStock, tableVars, level, unheard, losses>>

(* What a committed UPDATE ... SET stock = stock + $1 does, without a lower bound.     *)
(* A product without a row is no error.                                         *)
Apply(m) ==
    /\ applied' = [applied EXCEPT ![m] = @ + 1]
    /\ stock' = IF ProductOf[m] \in Products
                THEN [stock EXCEPT ![ProductOf[m]] = @ + ChangeOf[m]] ELSE stock

(* Mutant: the gauge is to show the stock from before the UPDATE.                  *)
UpdateReadsFirst(c) ==
    /\ step[c] = "update"
    /\ handling[c] \notin Malformed
    /\ Apply(handling[c])
    /\ LET p == ProductOf[handling[c]]
       IN  IF p \in Products
           THEN newStock' = [newStock EXCEPT ![c] = stock[p]] /\ step' = [step EXCEPT ![c] = "gauge"]
           ELSE step' = [step EXCEPT ![c] = "ack"] /\ UNCHANGED newStock
    /\ UNCHANGED <<brokerVars, up, held, handling, level, unheard, losses>>

(* The UPDATE returns: with a row, the gauge is next.                             *)
Update(c) ==
    /\ step[c] = "update"
    /\ handling[c] \notin Malformed
    /\ Apply(handling[c])
    /\ step' = [step EXCEPT ![c] =
                    IF ProductOf[handling[c]] \in Products THEN "select" ELSE "ack"]
    /\ UNCHANGED <<brokerVars, up, held, handling, newStock, level, unheard, losses>>

(* Mutant: the error of the UPDATE is only logged, the message acknowledged.         *)
UpdateFailsAcks(c) ==
    /\ step[c] = "update"
    /\ handling[c] \notin Malformed
    /\ "db" \in Faults
    /\ Settle(c, "acked")
    /\ UNCHANGED <<declared, receiver, up, held, newStock, tableVars, level, unheard, losses>>

(* Mutant: the message is put back into the queue (requeue is true).                *)
UpdateFailsRequeues(c) ==
    /\ step[c] = "update"
    /\ handling[c] \notin Malformed
    /\ "db" \in Faults
    /\ \/ UNCHANGED <<tableVars, unheard>>
       \/ /\ Apply(handling[c])
          /\ unheard' = unheard \cup ({ProductOf[handling[c]]} \cap Products)
    /\ Settle(c, "ready")
    /\ UNCHANGED <<declared, receiver, up, held, newStock, level, losses>>

(* The UPDATE returns an error, possibly after it was committed: Nack without         *)
(* requeue.                                                                   *)
UpdateFails(c) ==
    /\ step[c] = "update"
    /\ handling[c] \notin Malformed
    /\ "db" \in Faults
    /\ \/ UNCHANGED <<tableVars, unheard>>
       \/ /\ Apply(handling[c])
          /\ unheard' = unheard \cup ({ProductOf[handling[c]]} \cap Products)
    /\ Settle(c, "dead")
    /\ UNCHANGED <<declared, receiver, up, held, newStock, level, losses>>

(* SELECT stock: a later statement, which sees what other replicas have written.      *)
SelectStock(c) ==
    /\ step[c] = "select"
    /\ newStock' = [newStock EXCEPT ![c] = stock[ProductOf[handling[c]]]]
    /\ step' = [step EXCEPT ![c] = "gauge"]
    /\ UNCHANGED <<brokerVars, up, held, handling, tableVars, level, unheard, losses>>

(* The SELECT fails: the gauge stays as it is, and nothing is logged.                *)
SelectFails(c) ==
    /\ step[c] = "select"
    /\ "db" \in Faults
    /\ step' = [step EXCEPT ![c] = "ack"]
    /\ unheard' = unheard \cup {ProductOf[handling[c]]}
    /\ UNCHANGED <<brokerVars, up, held, handling, newStock, tableVars, level, losses>>

SetGauge(c) ==
    /\ step[c] = "gauge"
    /\ level' = [level EXCEPT ![c][ProductOf[handling[c]]] = newStock[c]]
    /\ newStock' = [newStock EXCEPT ![c] = None]
    /\ step' = [step EXCEPT ![c] = "ack"]
    /\ UNCHANGED <<brokerVars, up, held, handling, tableVars, unheard, losses>>

Ack(c) ==
    /\ step[c] = "ack"
    /\ Settle(c, "acked")
    /\ UNCHANGED <<declared, receiver, up, held, newStock, tableVars, level, unheard, losses>>

-----------------------------------------------------------------------------
(* Failures.                                                                 *)

Lose == losses < MaxLosses /\ losses' = losses + 1

(* What the consumers in lost had not acknowledged will go back to the queue.         *)
Orphaned(lost) ==
    [m \in Messages |-> IF place[m] = "delivered" /\ receiver[m] \in lost THEN "limbo"
                        ELSE place[m]]

(* The client still hands out some of the deliveries it has buffered.               *)
LoseConnection(c) ==
    /\ "connLost" \in Faults
    /\ c \in up
    /\ Lose
    /\ up' = up \ {c}
    /\ \E kept \in SUBSET held[c] : held' = [held EXCEPT ![c] = kept]
    /\ place' = Orphaned({c})
    /\ UNCHANGED <<declared, receiver, loopVars, tableVars, level, unheard>>

(* A process dies and starts again: initInventoryMetrics sets the gauges of the rows   *)
(* it reads, which a failing query may leave incomplete.  An UPDATE under way was       *)
(* committed before, or never is: additions commute.                             *)
Crash(c) ==
    /\ "crash" \in Faults
    /\ Lose
    /\ up' = up \ {c}
    /\ held' = [held EXCEPT ![c] = {}]
    /\ handling' = [handling EXCEPT ![c] = None]
    /\ step' = [step EXCEPT ![c] = "idle"]
    /\ newStock' = [newStock EXCEPT ![c] = None]
    /\ \E seen \in SUBSET Products :
          level' = [level EXCEPT ![c] = [p \in Products |-> IF p \in seen THEN stock[p] ELSE None]]
    /\ place' = Orphaned({c})
    /\ UNCHANGED <<declared, receiver, tableVars, unheard>>

Requeue(m) ==
    /\ place[m] = "limbo"
    /\ place' = [place EXCEPT ![m] = "ready"]
    /\ UNCHANGED <<declared, receiver, clientVars, tableVars, level, unheard, losses>>

(* RabbitMQ is restarted: connections break, transient messages are dropped, the       *)
(* queues survive.                                                            *)
BrokerRestarts ==
    /\ "broker" \in Faults
    /\ Lose
    /\ up' = {}
    /\ place' = [m \in Messages |->
                    IF place[m] \in {"ready", "delivered", "limbo", "dead"} /\ m \in Transient
                    THEN "gone" ELSE Orphaned(Consumers)[m]]
    /\ UNCHANGED <<declared, receiver, held, loopVars, tableVars, level, unheard>>

(* Every message is settled.                                                   *)
Rest ==
    /\ \A c \in Consumers : handling[c] = None /\ held[c] = {}
    /\ \A m \in Messages : place[m] \in {"dead", "acked", "gone"}
    /\ UNCHANGED vars

LoopStep(c) ==
    \/ \E m \in Messages : Take(c, m)
    \/ Discard(c) \/ Update(c) \/ UpdateFails(c)
    \/ SelectStock(c) \/ SelectFails(c) \/ SetGauge(c)
    \/ Ack(c)

Next ==
    \/ \E m \in Messages : Publish(m) \/ Requeue(m) \/ \E c \in Consumers : Deliver(c, m)
    \/ \E c \in Consumers : Connect(c) \/ ConnectFails(c) \/ LoopStep(c)
                            \/ LoseConnection(c) \/ Crash(c)
    \/ BrokerRestarts
    \/ Rest

Spec == Init /\ [][Next]_vars

-----------------------------------------------------------------------------
(* Seen from the queue, the replicas are one consumer that applies each update at      *)
(* least once, acknowledges only what it applied, and applies an update again only      *)
(* after a loss: at most n + 1 times with n of those.                             *)
FateAt(p) == CASE p = "unpublished" -> "new"
              [] p \in {"ready", "delivered", "limbo"} -> "queued"
              [] OTHER -> p

Delivery == INSTANCE AtLeastOnce WITH
    fate <- [m \in Messages |-> FateAt(place[m])],
    done <- applied

UpdatesAtLeastOnce == Delivery!Spec

(* As long as no connection or process is lost and every answer arrives, the queue and    *)
(* the table agree: the stock of a product is what it was, with each acknowledged        *)
(* update, or one that is about to be, counted once, and a dead-lettered one not at all.  *)
Counted(m) == place[m] = "acked"
              \/ \E c \in Consumers : handling[c] = m /\ step[c] \in {"select", "gauge", "ack"}

StockAccounted ==
    losses = 0 => \A p \in Products \ unheard :
        stock[p] = InitStock[p]
                   + SumFunctionOnSet(ChangeOf, {m \in Messages : ProductOf[m] = p /\ Counted(m)})

(* Whoever wrote last also reads last: when no replica is at work, some replica's gauge     *)
(* shows the stock of a product, unless a replica was restarted or could not read it.     *)
(* The gauges of the others may show what they wrote themselves.                    *)
SomeGaugeCurrent ==
    losses = 0 /\ (\A c \in Consumers : handling[c] = None) =>
        \A p \in Products \ unheard : \E c \in Consumers : level[c][p] = stock[p]
=============================================================================
