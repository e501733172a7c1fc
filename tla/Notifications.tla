---------------------------- MODULE Notifications -----------------------------
(***************************************************************************)
(* From an order event to a stored notification: publishOrderConfirmed and     *)
(* publishOrderEvent (order-service/main.go), the queue notifications.order and  *)
(* its dead-letter queue in RabbitMQ, and startRabbitMQConsumer                 *)
(* (notification-service/main.go) in each replica of the service.              *)
(*                                                                          *)
(* RabbitMQ is modelled from the way the code uses it: a durable queue whose     *)
(* messages are not (DeliveryMode is left at transient), no publisher confirms,   *)
(* no prefetch limit, manual acknowledgement.  Ack and Nack are sent on the      *)
(* connection that delivered the message and mean nothing once that is lost.     *)
(* The order in which a consumer works on its deliveries is left open.           *)
(***************************************************************************)
EXTENDS Integers, FiniteSets

CONSTANTS
    Messages,   \* the events to be published
    Malformed,  \* those that do not parse, or have no message template
    Keys,       \* the routing keys the consumer binds
    KeyOf,      \* the routing key of each message
    Consumers,  \* the replicas of the notification service
    None,       \* no message
    MaxLosses,  \* bound: connections and processes lost, in all
    Faults      \* the failures that may happen, of AllFaults

(*   "connLost"   a consumer's connection breaks, or cannot be set up           *)
(*   "crash"      a consumer's process dies                                   *)
(*   "mongo"      InsertOne returns an error                                   *)
(*   "broker"     RabbitMQ goes down and comes back                            *)
AllFaults == {"connLost", "crash", "mongo", "broker"}

ASSUME MessagesAssumption == IsFiniteSet(Messages) /\ None \notin Messages
ASSUME MalformedAssumption == Malformed \subseteq Messages
ASSUME KeysAssumption == IsFiniteSet(Keys) /\ KeyOf \in [Messages -> Keys]
ASSUME ConsumersAssumption == IsFiniteSet(Consumers)
ASSUME MaxLossesAssumption == MaxLosses \in Nat
ASSUME FaultsAssumption == Faults \subseteq AllFaults

VARIABLES
    brokerUp,   \* RabbitMQ is running
    pubOpen,    \* rabbitCh of the order service is usable
    bound,      \* the keys bound to notifications.order
    place,      \* where the broker has each message
    receiver,   \* the consumer it was last delivered to, if any
    conn,       \* the connection of each consumer
    held,       \* deliveries buffered in its process
    handling,   \* the delivery its loop is at
    inserted,   \* the notification of that delivery has been stored
    stored,     \* history: how often each event was stored in MongoDB
    losses,     \* history: connections and processes lost
    missed,     \* history: events not published although RabbitMQ was running
    rejected    \* history: the messages that were dead-lettered

brokerVars == <<brokerUp, bound, place, receiver>>
clientVars == <<conn, held, handling, inserted>>
historyVars == <<stored, losses, missed, rejected>>
vars == <<brokerVars, pubOpen, clientVars, historyVars>>

(* "limbo": unacknowledged on a connection whose end RabbitMQ has not noticed;    *)
(* "gone": dropped by RabbitMQ, or never accepted.                              *)
Places == {"unpublished", "ready", "delivered", "limbo", "dead", "acked", "gone"}

TypeOK ==
    /\ brokerUp \in BOOLEAN
    /\ pubOpen \in BOOLEAN /\ (pubOpen => brokerUp)
    /\ bound \in SUBSET Keys
    /\ place \in [Messages -> Places]
    /\ receiver \in [Messages -> Consumers \cup {None}]
    /\ conn \in [Consumers -> {"down", "binding", "up"}]
    /\ held \in [Consumers -> SUBSET Messages]
    /\ handling \in [Consumers -> Messages \cup {None}]
    /\ inserted \in [Consumers -> BOOLEAN]
    /\ \A c \in Consumers : inserted[c] => handling[c] # None
    /\ stored \in [Messages -> Nat]
    /\ losses \in 0 .. MaxLosses
    /\ missed \in SUBSET Messages
    /\ rejected \in SUBSET Messages

(* RabbitMQ is up and the order service connected (both depend on its health      *)
(* check); the consumers are still on their way.                               *)
Init ==
    /\ brokerUp = TRUE
    /\ pubOpen = TRUE
    /\ bound = {}
    /\ place = [m \in Messages |-> "unpublished"]
    /\ receiver = [m \in Messages |-> None]
    /\ conn = [c \in Consumers |-> "down"]
    /\ held = [c \in Consumers |-> {}]
    /\ handling = [c \in Consumers |-> None]
    /\ inserted = [c \in Consumers |-> FALSE]
    /\ stored = [m \in Messages |-> 0]
    /\ losses = 0
    /\ missed = {}
    /\ rejected = {}

-----------------------------------------------------------------------------
(* The order service.                                                        *)

(* PublishWithContext: the topic exchange drops what no queue is bound for, and    *)
(* nobody is told.                                                            *)
Publish(m) ==
    /\ place[m] = "unpublished"
    /\ pubOpen
    /\ place' = [place EXCEPT ![m] = IF KeyOf[m] \in bound THEN "ready" ELSE "gone"]
    /\ UNCHANGED <<brokerUp, bound, receiver, pubOpen, clientVars, historyVars>>

(* rabbitCh is nil or closed: a warning or an error is logged, the event is gone.   *)
PublishFails(m) ==
    /\ place[m] = "unpublished"
    /\ ~ pubOpen
    /\ place' = [place EXCEPT ![m] = "gone"]
    /\ missed' = IF brokerUp THEN missed \cup {m} ELSE missed
    /\ UNCHANGED <<brokerUp, bound, receiver, pubOpen, clientVars, stored, losses, rejected>>

(* A new process of the order service: the only time connectRabbitMQ is called.     *)
RestartPublisher ==
    /\ ~ pubOpen
    /\ brokerUp
    /\ pubOpen' = TRUE
    /\ UNCHANGED <<brokerVars, clientVars, historyVars>>

-----------------------------------------------------------------------------
(* A consumer sets up its connection: startRabbitMQConsumer, outer loop.         *)

Quiet(c) == held[c] = {} /\ handling[c] = None

(* amqp.Dial, the channel and the declarations.  The inner loop of the previous    *)
(* connection has ended.                                                      *)
Dial(c) ==
    /\ conn[c] = "down"
    /\ Quiet(c)
    /\ brokerUp
    /\ conn' = [conn EXCEPT ![c] = "binding"]
    /\ UNCHANGED <<brokerVars, pubOpen, held, handling, inserted, historyVars>>

(* QueueBind, one routing key at a time.                                        *)
Bind(c, k) ==
    /\ conn[c] = "binding"
    /\ k \notin bound
    /\ bound' = bound \cup {k}
    /\ UNCHANGED <<brokerUp, place, receiver, pubOpen, clientVars, historyVars>>

(* Mutant: the consumer starts with the first key it has bound.                   *)
ConsumeEarly(c) ==
    /\ conn[c] = "binding"
    /\ bound # {}
    /\ conn' = [conn EXCEPT ![c] = "up"]
    /\ UNCHANGED <<brokerVars, pubOpen, held, handling, inserted, historyVars>>

(* Every key is bound: Consume.                                                *)
Consume(c) ==
    /\ conn[c] = "binding"
    /\ bound = Keys
    /\ conn' = [conn EXCEPT ![c] = "up"]
    /\ UNCHANGED <<brokerVars, pubOpen, held, handling, inserted, historyVars>>

-----------------------------------------------------------------------------
(* The inner loop: one delivery after the other.                               *)

(* RabbitMQ pushes a message to a consumer, however many that has not yet        *)
(* acknowledged.                                                             *)
Deliver(c, m) ==
    /\ conn[c] = "up"
    /\ place[m] = "ready"
    /\ place' = [place EXCEPT ![m] = "delivered"]
    /\ receiver' = [receiver EXCEPT ![m] = c]
    /\ held' = [held EXCEPT ![c] = @ \cup {m}]
    /\ UNCHANGED <<brokerUp, bound, pubOpen, conn, handling, inserted, historyVars>>

(* The loop takes a delivery.                                                  *)
Take(c, m) ==
    /\ handling[c] = None
    /\ m \in held[c]
    /\ held' = [held EXCEPT ![c] = @ \ {m}]
    /\ handling' = [handling EXCEPT ![c] = m]
    /\ UNCHANGED <<brokerVars, pubOpen, conn, inserted, historyVars>>

(* Mutant: the marker of the previous delivery is not reset.                     *)
FinishKeepsInserted(c) ==
    /\ handling' = [handling EXCEPT ![c] = None]
    /\ UNCHANGED <<conn, held, inserted>>

(* The loop is done with its delivery.                                         *)
Finish(c) ==
    /\ handling' = [handling EXCEPT ![c] = None]
    /\ inserted' = [inserted EXCEPT ![c] = FALSE]
    /\ UNCHANGED <<conn, held>>

(* InsertOne returns nil.                                                    *)
InsertOne(c) ==
    /\ handling[c] \notin Malformed \cup {None}
    /\ ~ inserted[c]
    /\ stored' = [stored EXCEPT ![handling[c]] = @ + 1]
    /\ inserted' = [inserted EXCEPT ![c] = TRUE]
    /\ UNCHANGED <<brokerVars, pubOpen, conn, held, handling, losses, missed, rejected>>

(* What Ack and Nack do, on a connection that is still there.                     *)
Settle(c, p) ==
    IF conn[c] = "up" THEN place' = [place EXCEPT ![handling[c]] = p] ELSE UNCHANGED place

Ack(c) ==
    /\ inserted[c]
    /\ Settle(c, "acked")
    /\ Finish(c)
    /\ UNCHANGED <<brokerUp, bound, receiver, pubOpen, historyVars>>

(* Nack without requeue, to the dead-letter queue.                               *)
Nack(c) ==
    /\ Settle(c, "dead")
    /\ rejected' = IF conn[c] = "up" THEN rejected \cup {handling[c]} ELSE rejected
    /\ Finish(c)

(* The body does not parse, or there is no message for its routing key.            *)
Discard(c) ==
    /\ handling[c] \in Malformed
    /\ Nack(c)
    /\ UNCHANGED <<brokerUp, bound, receiver, pubOpen, stored, losses, missed>>

(* Mutant: the message is put back into the queue (requeue is true).              *)
InsertFailsRequeues(c) ==
    /\ handling[c] \notin Malformed \cup {None}
    /\ ~ inserted[c]
    /\ "mongo" \in Faults
    /\ \/ UNCHANGED stored
       \/ stored' = [stored EXCEPT ![handling[c]] = @ + 1]
    /\ Settle(c, "ready")
    /\ Finish(c)
    /\ UNCHANGED <<brokerUp, bound, receiver, pubOpen, losses, missed, rejected>>

(* Mutant: the loop goes on without a Nack.                                     *)
InsertFailsForgets(c) ==
    /\ handling[c] \notin Malformed \cup {None}
    /\ ~ inserted[c]
    /\ "mongo" \in Faults
    /\ Finish(c)
    /\ UNCHANGED <<brokerVars, pubOpen, historyVars>>

(* InsertOne returns an error, after the 5 s timeout possibly of an insert that      *)
(* took place.                                                                *)
InsertFails(c) ==
    /\ handling[c] \notin Malformed \cup {None}
    /\ ~ inserted[c]
    /\ "mongo" \in Faults
    /\ \/ UNCHANGED stored
       \/ stored' = [stored EXCEPT ![handling[c]] = @ + 1]
    /\ Nack(c)
    /\ UNCHANGED <<brokerUp, bound, receiver, pubOpen, losses, missed>>

-----------------------------------------------------------------------------
(* Failures.                                                                 *)

Lose == losses < MaxLosses /\ losses' = losses + 1

(* Unacknowledged deliveries of the consumers in lost go back to the queue, when     *)
(* RabbitMQ notices.                                                          *)
Orphaned(lost) ==
    [m \in Messages |-> IF place[m] = "delivered" /\ receiver[m] \in lost THEN "limbo"
                        ELSE place[m]]

(* A connection breaks, or cannot be set up.  The client still hands out some of     *)
(* the deliveries it has buffered before its loop ends.                         *)
LoseConnection(c) ==
    /\ "connLost" \in Faults
    /\ conn[c] # "down"
    /\ Lose
    /\ conn' = [conn EXCEPT ![c] = "down"]
    /\ \E kept \in SUBSET held[c] : held' = [held EXCEPT ![c] = kept]
    /\ place' = Orphaned({c})
    /\ UNCHANGED <<brokerUp, bound, receiver, pubOpen, handling, inserted,
                   stored, missed, rejected>>

(* A consumer's process dies; a new one starts over.                             *)
Crash(c) ==
    /\ "crash" \in Faults
    /\ conn[c] # "down" \/ ~ Quiet(c)
    /\ Lose
    /\ conn' = [conn EXCEPT ![c] = "down"]
    /\ held' = [held EXCEPT ![c] = {}]
    /\ handling' = [handling EXCEPT ![c] = None]
    /\ inserted' = [inserted EXCEPT ![c] = FALSE]
    /\ place' = Orphaned({c})
    /\ UNCHANGED <<brokerUp, bound, receiver, pubOpen, stored, missed, rejected>>

(* RabbitMQ notices the end of a connection.                                     *)
Requeue(m) ==
    /\ place[m] = "limbo"
    /\ place' = [place EXCEPT ![m] = "ready"]
    /\ UNCHANGED <<brokerUp, bound, receiver, pubOpen, clientVars, historyVars>>

(* RabbitMQ goes down: connections break, transient messages are dropped, queues      *)
(* and bindings survive.                                                      *)
BrokerDies ==
    /\ "broker" \in Faults
    /\ brokerUp
    /\ Lose
    /\ brokerUp' = FALSE
    /\ pubOpen' = FALSE
    /\ conn' = [c \in Consumers |-> "down"]
    /\ place' = [m \in Messages |->
                    IF place[m] \in {"ready", "delivered", "limbo", "dead"} THEN "gone"
                    ELSE place[m]]
    /\ UNCHANGED <<bound, receiver, held, handling, inserted, stored, missed, rejected>>

BrokerStarts ==
    /\ ~ brokerUp
    /\ brokerUp' = TRUE
    /\ UNCHANGED <<bound, place, receiver, pubOpen, clientVars, historyVars>>

(* Nothing is left to do.                                                     *)
Rest ==
    /\ brokerUp /\ pubOpen
    /\ \A c \in Consumers : conn[c] = "up" /\ Quiet(c)
    /\ \A m \in Messages : place[m] \in {"dead", "acked", "gone"}
    /\ UNCHANGED vars

(* What a consumer's goroutine does by itself.                                  *)
ConsumerStep(c) ==
    \/ Dial(c)
    \/ \E k \in Keys : Bind(c, k)
    \/ Consume(c)
    \/ \E m \in Messages : Take(c, m)
    \/ Discard(c)
    \/ InsertOne(c)
    \/ InsertFails(c)
    \/ Ack(c)

BrokerStep(m) == Requeue(m) \/ \E c \in Consumers : Deliver(c, m)

Next ==
    \/ \E m \in Messages : Publish(m) \/ PublishFails(m) \/ BrokerStep(m)
    \/ \E c \in Consumers : ConsumerStep(c) \/ LoseConnection(c) \/ Crash(c)
    \/ RestartPublisher
    \/ BrokerDies
    \/ BrokerStarts
    \/ Rest

Spec == Init /\ [][Next]_vars

(* The consumers dial for ever, and each delivery ends within 5 s; RabbitMQ          *)
(* delivers what it has and notices a dead connection by its heartbeat.  Losses      *)
(* are finitely many, within MaxLosses.                                         *)
Fairness ==
    /\ \A c \in Consumers : WF_vars(ConsumerStep(c))
    /\ \A m \in Messages : WF_vars(BrokerStep(m))

FairSpec == Spec /\ Fairness

-----------------------------------------------------------------------------
(* An event leaves the queue only when its notification is stored: the code          *)
(* acknowledges after the insert, whatever connection or process is lost in between.  *)
AckedIsStored == \A m \in Messages : place[m] = "acked" => stored[m] > 0

(* No delivery is forgotten: what RabbitMQ counts as delivered to a consumer is in     *)
(* that consumer's hands, on the connection it came by, and will be settled.  An      *)
(* early exit of the loop body without Ack or Nack would leave it unacknowledged.     *)
InHands(c) == held[c] \cup ({handling[c]} \ {None})

NoneForgotten ==
    \A c \in Consumers :
        {m \in Messages : place[m] = "delivered" /\ receiver[m] = c} =
            IF conn[c] = "up" THEN InHands(c) ELSE {}

(* A user is told the same thing twice only because of a lost connection or process:    *)
(* with n of those, an event is stored at most n + 1 times, over all replicas, an       *)
(* insert that failed for its caller included.                                   *)
DuplicatesBounded == \A m \in Messages : stored[m] <= 1 + losses

(* Both, as a specification: seen from the queue, the replicas are one consumer that   *)
(* works at least once on each event, and again only after a loss.                 *)
FateAt(p) == CASE p = "unpublished" -> "new"
              [] p \in {"ready", "delivered", "limbo"} -> "queued"
              [] OTHER -> p

Delivery == INSTANCE AtLeastOnce WITH
    fate <- [m \in Messages |-> FateAt(place[m])],
    done <- stored

DeliversAtLeastOnce == Delivery!Spec

(* While a consumer is connected and the publisher's own connection stands, an event    *)
(* that is published reaches the queue: every key was bound before the first consumer   *)
(* started, and stays bound.  Events are dropped only before that.                  *)
QueuedWhileConsumed ==
    [][pubOpen /\ (\E c \in Consumers : conn[c] = "up") =>
          \A m \in Messages : place[m] = "unpublished" => place'[m] \in {"unpublished", "ready"}]_vars

(* Liveness: an event in the queue becomes a notification, or is dead-lettered, as      *)
(* long as the broker that holds it stays up.                                    *)
EventHandled ==
    \A m \in Messages :
        place[m] = "ready" ~> (stored[m] > 0 \/ place[m] = "dead" \/ ~ brokerUp)

(* "Failed messages routed to .dlq queues instead of being lost".                   *)
DeadLettersKept == \A m \in rejected : place[m] = "dead"

(* "State changes publish events to RabbitMQ": as long as there is one running.        *)
PublishedWhileUp == missed = {}
=============================================================================
