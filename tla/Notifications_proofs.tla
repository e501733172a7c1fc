------------------------- MODULE Notifications_proofs -------------------------
(***************************************************************************)
(* Proofs about Notifications, for any messages, routing keys and replicas, any  *)
(* number of losses, and for every combination of failures.                    *)
(***************************************************************************)
EXTENDS Notifications, FiniteSetTheorems, TLAPS

-----------------------------------------------------------------------------
(* Type correctness, one part for the broker, one for the consumers and one for     *)
(* the histories.                                                            *)
BrokerOK ==
    /\ brokerUp \in BOOLEAN
    /\ pubOpen \in BOOLEAN /\ (pubOpen => brokerUp)
    /\ bound \in SUBSET Keys
    /\ place \in [Messages -> Places]
    /\ receiver \in [Messages -> Consumers \cup {None}]

ClientOK ==
    /\ conn \in [Consumers -> {"down", "binding", "up"}]
    /\ held \in [Consumers -> SUBSET Messages]
    /\ handling \in [Consumers -> Messages \cup {None}]
    /\ inserted \in [Consumers -> BOOLEAN]
    /\ \A c \in Consumers : inserted[c] => handling[c] # None

HistoryOK ==
    /\ stored \in [Messages -> Nat]
    /\ losses \in 0 .. MaxLosses
    /\ missed \in SUBSET Messages
    /\ rejected \in SUBSET Messages

TypeInv == BrokerOK /\ ClientOK /\ HistoryOK

LEMMA TypeInit == Init => TypeInv
BY MaxLossesAssumption DEF Init, TypeInv, BrokerOK, ClientOK, HistoryOK, Places

(* What settling a delivery does to the broker's types.                           *)
LEMMA SettleTyped ==
    ASSUME TypeInv, NEW c \in Consumers, handling[c] # None, NEW p \in Places, Settle(c, p)
    PROVE  place' \in [Messages -> Places]
BY DEF TypeInv, BrokerOK, ClientOK, Settle

LEMMA FinishTyped ==
    ASSUME TypeInv, NEW c \in Consumers, Finish(c)
    PROVE  ClientOK'
BY DEF TypeInv, ClientOK, Finish

LEMMA OrphanedTyped ==
    ASSUME TypeInv, NEW lost
    PROVE  Orphaned(lost) \in [Messages -> Places]
BY DEF TypeInv, BrokerOK, Orphaned, Places

(* What the publisher and the broker do.                                          *)
LEMMA BrokerTypeStep ==
    ASSUME TypeInv,
           \/ \E m \in Messages : Publish(m) \/ PublishFails(m) \/ BrokerStep(m)
           \/ RestartPublisher \/ BrokerStarts
    PROVE  TypeInv'
<1> USE DEF TypeInv, BrokerOK, ClientOK, HistoryOK, Places, clientVars, brokerVars, historyVars
<1>1. ASSUME NEW m \in Messages, Publish(m)
      PROVE  TypeInv'
  BY <1>1 DEF Publish
<1>2. ASSUME NEW m \in Messages, PublishFails(m)
      PROVE  TypeInv'
  BY <1>2 DEF PublishFails
<1>3. ASSUME NEW m \in Messages, Requeue(m)
      PROVE  TypeInv'
  BY <1>3 DEF Requeue
<1>4. ASSUME NEW m \in Messages, NEW c \in Consumers, Deliver(c, m)
      PROVE  TypeInv'
  <2>1. place' \in [Messages -> Places] /\ receiver' \in [Messages -> Consumers \cup {None}]
    BY <1>4 DEF Deliver
  <2>2. held' \in [Consumers -> SUBSET Messages]
    BY <1>4 DEF Deliver
  <2> QED BY <1>4, <2>1, <2>2 DEF Deliver
<1>5. CASE RestartPublisher
  BY <1>5 DEF RestartPublisher
<1>6. CASE BrokerStarts
  BY <1>6 DEF BrokerStarts
<1> QED BY <1>1, <1>2, <1>3, <1>4, <1>5, <1>6 DEF BrokerStep

(* What the loops of the consumers do.                                           *)
LEMMA ConsumerTypeStep ==
    ASSUME TypeInv, NEW c \in Consumers, ConsumerStep(c)
    PROVE  TypeInv'
<1>1. CASE Dial(c)
  BY <1>1 DEF Dial, TypeInv, BrokerOK, ClientOK, HistoryOK, brokerVars, historyVars
<1>2. ASSUME NEW k \in Keys, Bind(c, k)
      PROVE  TypeInv'
  BY <1>2 DEF Bind, TypeInv, BrokerOK, ClientOK, HistoryOK, clientVars, historyVars
<1>3. CASE Consume(c)
  BY <1>3 DEF Consume, TypeInv, BrokerOK, ClientOK, HistoryOK, brokerVars, historyVars
<1>4. ASSUME NEW m \in Messages, Take(c, m)
      PROVE  TypeInv'
  <2>1. held' \in [Consumers -> SUBSET Messages]
    BY <1>4 DEF Take, TypeInv, ClientOK
  <2>2. handling' \in [Consumers -> Messages \cup {None}]
    BY <1>4 DEF Take, TypeInv, ClientOK
  <2>3. \A d \in Consumers : inserted'[d] => handling'[d] # None
    BY <1>4, MessagesAssumption DEF Take, TypeInv, ClientOK
  <2> QED BY <1>4, <2>1, <2>2, <2>3
          DEF Take, TypeInv, BrokerOK, ClientOK, HistoryOK, brokerVars, historyVars
<1>5. CASE Discard(c)
  <2>1. handling[c] \in Messages /\ handling[c] # None
    BY <1>5, MalformedAssumption, MessagesAssumption DEF Discard
  <2>2. place' \in [Messages -> Places]
    BY <1>5, <2>1, SettleTyped DEF Discard, Nack, Places
  <2>3. ClientOK'
    BY <1>5, FinishTyped DEF Discard, Nack
  <2>4. rejected' \in SUBSET Messages
    BY <1>5, <2>1 DEF Discard, Nack, TypeInv, HistoryOK
  <2> QED BY <1>5, <2>2, <2>3, <2>4 DEF Discard, TypeInv, BrokerOK, HistoryOK
<1>6. CASE InsertOne(c)
  <2>1. handling[c] \in Messages
    BY <1>6 DEF InsertOne, TypeInv, ClientOK
  <2>2. stored' \in [Messages -> Nat]
    BY <1>6, <2>1 DEF InsertOne, TypeInv, HistoryOK
  <2>3. ClientOK'
    BY <1>6 DEF InsertOne, TypeInv, ClientOK
  <2> QED BY <1>6, <2>2, <2>3 DEF InsertOne, TypeInv, BrokerOK, HistoryOK, brokerVars
<1>7. CASE InsertFails(c)
  <2>1. handling[c] \in Messages /\ handling[c] # None
    BY <1>7 DEF InsertFails, TypeInv, ClientOK
  <2>2. place' \in [Messages -> Places]
    BY <1>7, <2>1, SettleTyped DEF InsertFails, Nack, Places
  <2>3. ClientOK'
    BY <1>7, FinishTyped DEF InsertFails, Nack
  <2>4. rejected' \in SUBSET Messages
    BY <1>7, <2>1 DEF InsertFails, Nack, TypeInv, HistoryOK
  <2>5. stored' \in [Messages -> Nat]
    BY <1>7, <2>1 DEF InsertFails, TypeInv, HistoryOK
  <2> QED BY <1>7, <2>2, <2>3, <2>4, <2>5 DEF InsertFails, TypeInv, BrokerOK, HistoryOK
<1>8. CASE Ack(c)
  <2>1. place' \in [Messages -> Places]
    BY <1>8, SettleTyped DEF Ack, Places, TypeInv, ClientOK
  <2>2. ClientOK'
    BY <1>8, FinishTyped DEF Ack
  <2> QED BY <1>8, <2>1, <2>2 DEF Ack, TypeInv, BrokerOK, HistoryOK, historyVars
<1> QED BY <1>1, <1>2, <1>3, <1>4, <1>5, <1>6, <1>7, <1>8 DEF ConsumerStep

(* What is lost.                                                                *)
LEMMA LossTypeStep ==
    ASSUME TypeInv,
           BrokerDies \/ \E c \in Consumers : LoseConnection(c) \/ Crash(c)
    PROVE  TypeInv'
<1> USE DEF TypeInv
<1>0. Lose => losses' \in 0 .. MaxLosses
  BY MaxLossesAssumption DEF Lose, HistoryOK
<1>1. CASE BrokerDies
  <2>1. place' \in [Messages -> Places]
    BY <1>1 DEF BrokerDies, BrokerOK, Places
  <2>2. ClientOK'
    BY <1>1 DEF BrokerDies, ClientOK
  <2> QED BY <1>0, <1>1, <2>1, <2>2 DEF BrokerDies, BrokerOK, HistoryOK
<1>2. ASSUME NEW c \in Consumers, LoseConnection(c)
      PROVE  TypeInv'
  <2>1. place' \in [Messages -> Places]
    BY <1>2, OrphanedTyped DEF LoseConnection
  <2>2. held' \in [Consumers -> SUBSET Messages]
    BY <1>2 DEF LoseConnection, ClientOK
  <2>3. ClientOK'
    BY <1>2, <2>2 DEF LoseConnection, ClientOK
  <2> QED BY <1>0, <1>2, <2>1, <2>3 DEF LoseConnection, BrokerOK, HistoryOK
<1>3. ASSUME NEW c \in Consumers, Crash(c)
      PROVE  TypeInv'
  <2>1. place' \in [Messages -> Places]
    BY <1>3, OrphanedTyped DEF Crash
  <2>2. ClientOK'
    BY <1>3 DEF Crash, ClientOK
  <2> QED BY <1>0, <1>3, <2>1, <2>2 DEF Crash, BrokerOK, HistoryOK
<1> QED BY <1>1, <1>2, <1>3

LEMMA TypeStep == TypeInv /\ [Next]_vars => TypeInv'
<1> SUFFICES ASSUME TypeInv, [Next]_vars
             PROVE  TypeInv'
  OBVIOUS
<1>1. CASE \/ \E m \in Messages : Publish(m) \/ PublishFails(m) \/ BrokerStep(m)
           \/ RestartPublisher \/ BrokerStarts
  BY <1>1, BrokerTypeStep
<1>2. ASSUME NEW c \in Consumers, ConsumerStep(c)
      PROVE  TypeInv'
  BY <1>2, ConsumerTypeStep
<1>3. CASE BrokerDies \/ \E c \in Consumers : LoseConnection(c) \/ Crash(c)
  BY <1>3, LossTypeStep
<1>4. CASE Rest \/ UNCHANGED vars
  BY <1>4 DEF Rest, vars, brokerVars, clientVars, historyVars, TypeInv, BrokerOK, ClientOK,
              HistoryOK
<1> QED BY <1>1, <1>2, <1>3, <1>4 DEF Next

LEMMA TypeInvariant == Spec => []TypeInv
BY TypeInit, TypeStep, PTL DEF Spec

(* Every reachable state of the queue, its publisher and its consumers is well typed.   *)
THEOREM TypeCorrect == Spec => []TypeOK
<1>1. TypeInv => TypeOK
  BY DEF TypeInv, BrokerOK, ClientOK, HistoryOK, TypeOK
<1> QED BY <1>1, TypeInvariant, PTL

-----------------------------------------------------------------------------
(* A consumer that is about to acknowledge has stored the notification.               *)
InsertedStored == \A c \in Consumers : inserted[c] => stored[handling[c]] > 0

StoredInv == InsertedStored /\ AckedIsStored

(* Nothing is removed from MongoDB.                                              *)
StoreGrows == \A m \in Messages : stored[m] > 0 => stored'[m] > 0

LEMMA StoreUntouched ==
    ASSUME UNCHANGED stored
    PROVE  StoreGrows
BY DEF StoreGrows

LEMMA StoreAdds ==
    ASSUME TypeInv, NEW m \in Messages, stored' = [stored EXCEPT ![m] = @ + 1]
    PROVE  StoreGrows /\ stored'[m] > 0
<1>1. \A n \in Messages : stored[n] \in Nat
  BY DEF TypeInv, HistoryOK
<1>2. \A n \in Messages : stored'[n] = IF n = m THEN stored[n] + 1 ELSE stored[n]
  BY DEF TypeInv, HistoryOK
<1>3. ASSUME NEW n \in Messages, stored[n] > 0
      PROVE  stored'[n] > 0
  BY <1>1, <1>2, <1>3
<1>4. stored'[m] > 0
  BY <1>1, <1>2
<1> QED BY <1>3, <1>4 DEF StoreGrows

(* What was acknowledged before stays stored; it is enough to look at what is           *)
(* acknowledged now.                                                           *)
LEMMA AckedKept ==
    ASSUME TypeInv, AckedIsStored, StoreGrows,
           \A m \in Messages : place'[m] = "acked" => place[m] = "acked" \/ stored[m] > 0
    PROVE  AckedIsStored'
BY DEF AckedIsStored, StoreGrows

LEMMA InsertedKept ==
    ASSUME TypeInv, InsertedStored, StoreGrows,
           \A c \in Consumers : inserted'[c] => inserted[c] /\ handling'[c] = handling[c]
    PROVE  InsertedStored'
<1> SUFFICES ASSUME NEW c \in Consumers, inserted'[c]
             PROVE  stored'[handling'[c]] > 0
  BY DEF InsertedStored
<1>1. inserted[c] /\ handling'[c] = handling[c] /\ stored[handling[c]] > 0
  BY DEF InsertedStored
<1>2. handling[c] \in Messages
  BY <1>1 DEF TypeInv, ClientOK
<1> QED BY <1>1, <1>2 DEF StoreGrows

LEMMA StoredStep == TypeInv /\ StoredInv /\ [Next]_vars => StoredInv'
<1> SUFFICES ASSUME TypeInv, StoredInv, [Next]_vars
             PROVE  StoredInv'
  OBVIOUS
<1> DEFINE NoAck == \A m \in Messages : place'[m] = "acked" => place[m] = "acked"
           NoInsert == \A c \in Consumers :
                          inserted'[c] => inserted[c] /\ handling'[c] = handling[c]
<1>0. ASSUME NoAck, NoInsert, StoreGrows
      PROVE  StoredInv'
  BY <1>0, AckedKept, InsertedKept DEF StoredInv
<1>1. ASSUME NEW m \in Messages, Publish(m) \/ PublishFails(m) \/ Requeue(m)
      PROVE  StoredInv'
  <2>1. NoAck
    BY <1>1 DEF Publish, PublishFails, Requeue, TypeInv, BrokerOK
  <2>2. UNCHANGED clientVars /\ StoreGrows
    BY <1>1, StoreUntouched DEF Publish, PublishFails, Requeue, historyVars
  <2> QED BY <1>0, <2>1, <2>2 DEF clientVars
<1>2. ASSUME NEW m \in Messages, NEW c \in Consumers, Deliver(c, m)
      PROVE  StoredInv'
  <2>1. NoAck /\ NoInsert /\ StoreGrows
    BY <1>2, StoreUntouched DEF Deliver, TypeInv, BrokerOK, historyVars
  <2> QED BY <1>0, <2>1
<1>3. CASE RestartPublisher \/ BrokerStarts \/ Rest \/ UNCHANGED vars
  <2>1. NoAck /\ NoInsert /\ StoreGrows
    BY <1>3, StoreUntouched
       DEF RestartPublisher, BrokerStarts, Rest, vars, brokerVars, clientVars, historyVars
  <2> QED BY <1>0, <2>1
<1>4. CASE BrokerDies
  <2>1. NoAck /\ NoInsert /\ StoreGrows
    BY <1>4, StoreUntouched DEF BrokerDies
  <2> QED BY <1>0, <2>1
<1>5. ASSUME NEW c \in Consumers, LoseConnection(c) \/ Crash(c)
      PROVE  StoredInv'
  <2>1. NoAck
    BY <1>5 DEF LoseConnection, Crash, Orphaned
  <2>2. NoInsert /\ StoreGrows
    BY <1>5, StoreUntouched DEF LoseConnection, Crash, TypeInv, ClientOK
  <2> QED BY <1>0, <2>1, <2>2
<1>6. ASSUME NEW c \in Consumers, Dial(c) \/ (\E k \in Keys : Bind(c, k)) \/ Consume(c)
      PROVE  StoredInv'
  <2>1. NoAck /\ NoInsert /\ StoreGrows
    BY <1>6, StoreUntouched DEF Dial, Bind, Consume, brokerVars, clientVars, historyVars
  <2> QED BY <1>0, <2>1
<1>7. ASSUME NEW c \in Consumers, NEW m \in Messages, Take(c, m)
      PROVE  StoredInv'
  <2>1. NoAck /\ StoreGrows
    BY <1>7, StoreUntouched DEF Take, brokerVars, historyVars
  <2>2. ~ inserted[c] /\ inserted' = inserted
    BY <1>7 DEF Take, TypeInv, ClientOK
  <2>3. \A d \in Consumers \ {c} : handling'[d] = handling[d]
    BY <1>7 DEF Take, TypeInv, ClientOK
  <2> QED BY <1>0, <2>1, <2>2, <2>3
<1>8. ASSUME NEW c \in Consumers, InsertOne(c)
      PROVE  StoredInv'
  <2>1. handling[c] \in Messages /\ handling' = handling /\ place' = place
    BY <1>8 DEF InsertOne, TypeInv, ClientOK, brokerVars
  <2>2. StoreGrows /\ stored'[handling[c]] > 0
    BY <1>8, <2>1, StoreAdds DEF InsertOne
  <2>3. AckedIsStored'
    BY <2>1, <2>2, AckedKept DEF StoredInv
  <2>4. \A d \in Consumers \ {c} : inserted'[d] = inserted[d]
    BY <1>8 DEF InsertOne, TypeInv, ClientOK
  <2>5. \A d \in Consumers : inserted[d] => handling[d] \in Messages
    BY DEF TypeInv, ClientOK
  <2>6. InsertedStored'
    BY <2>1, <2>2, <2>4, <2>5 DEF StoredInv, InsertedStored, StoreGrows
  <2> QED BY <2>3, <2>6 DEF StoredInv
<1>9. ASSUME NEW c \in Consumers, Discard(c) \/ InsertFails(c)
      PROVE  StoredInv'
  <2>1. Nack(c)
    BY <1>9 DEF Discard, InsertFails
  <2>2. NoAck
    BY <2>1 DEF Nack, Settle, TypeInv, BrokerOK
  <2>3. NoInsert
    BY <2>1 DEF Nack, Finish, TypeInv, ClientOK
  <2>4. StoreGrows
    <3>1. CASE UNCHANGED stored
      BY <3>1, StoreUntouched
    <3>2. CASE InsertFails(c) /\ stored' = [stored EXCEPT ![handling[c]] = @ + 1]
      BY <3>2, StoreAdds DEF InsertFails, TypeInv, ClientOK
    <3> QED BY <1>9, <3>1, <3>2 DEF Discard, InsertFails
  <2> QED BY <1>0, <2>2, <2>3, <2>4
<1>10. ASSUME NEW c \in Consumers, Ack(c)
      PROVE  StoredInv'
  <2>1. stored[handling[c]] > 0 /\ StoreGrows
    BY <1>10, StoreUntouched DEF Ack, StoredInv, InsertedStored, historyVars
  <2>2. \A m \in Messages : place'[m] = "acked" => place[m] = "acked" \/ stored[m] > 0
    BY <1>10, <2>1 DEF Ack, Settle, TypeInv, BrokerOK
  <2>3. NoInsert
    BY <1>10 DEF Ack, Finish, TypeInv, ClientOK
  <2> QED BY <2>1, <2>2, <2>3, AckedKept, InsertedKept DEF StoredInv
<1> QED BY <1>1, <1>2, <1>3, <1>4, <1>5, <1>6, <1>7, <1>8, <1>9, <1>10
        DEF Next, ConsumerStep, BrokerStep

LEMMA StoredInit == Init => StoredInv
BY DEF Init, StoredInv, InsertedStored, AckedIsStored

(* No acknowledged event is without its notification, whatever connection, process or     *)
(* broker is lost between the insert and the acknowledgement.                       *)
THEOREM AckedAreStored == Spec => []AckedIsStored
<1>1. Spec => []StoredInv
  BY StoredInit, StoredStep, TypeInvariant, PTL DEF Spec
<1> QED BY <1>1, PTL DEF StoredInv

-----------------------------------------------------------------------------
(* NoneForgotten, one message at a time, with what makes it inductive: a delivery is in    *)
(* the buffer or with the loop, not both, and a new connection starts empty-handed.      *)
Hands(c, m) ==
    /\ (place[m] = "delivered" /\ receiver[m] = c)
          <=> (conn[c] = "up" /\ (m \in held[c] \/ m = handling[c]))
    /\ m = handling[c] => m \notin held[c]
    /\ conn[c] = "binding" => m \notin held[c] /\ m # handling[c]

HandsInv == \A c \in Consumers, m \in Messages : Hands(c, m)

LEMMA HandsMean == TypeInv /\ HandsInv => NoneForgotten
<1> SUFFICES ASSUME TypeInv, HandsInv, NEW c \in Consumers
             PROVE  {m \in Messages : place[m] = "delivered" /\ receiver[m] = c} =
                        IF conn[c] = "up" THEN InHands(c) ELSE {}
  BY DEF NoneForgotten
<1>1. InHands(c) \subseteq Messages
  BY DEF InHands, TypeInv, ClientOK
<1>2. \A m \in Messages : m \in InHands(c) <=> m \in held[c] \/ m = handling[c]
  BY MessagesAssumption DEF InHands
<1>3. \A m \in Messages : Hands(c, m)
  BY DEF HandsInv
<1> QED BY <1>1, <1>2, <1>3 DEF Hands

LEMMA HandsInit == Init => HandsInv
BY MessagesAssumption DEF Init, HandsInv, Hands

(* Steps that touch neither a delivered message nor a consumer's hands.                   *)
LEMMA HandsKept ==
    ASSUME HandsInv, UNCHANGED <<held, handling>>,
           \A m \in Messages : (place'[m] = "delivered") <=> (place[m] = "delivered"),
           UNCHANGED <<conn, receiver>>
    PROVE  HandsInv'
BY DEF HandsInv, Hands

(* The loop of c lets go of its delivery, which is settled if it can be.                   *)
LEMMA HandsLetGo ==
    ASSUME TypeInv, HandsInv, NEW c \in Consumers, handling[c] \in Messages,
           NEW p \in {"acked", "dead"}, Settle(c, p), Finish(c), receiver' = receiver
    PROVE  HandsInv'
<1> SUFFICES ASSUME NEW d \in Consumers, NEW m \in Messages
             PROVE  Hands(d, m)'
  BY DEF HandsInv
<1>1. conn' = conn /\ held' = held
  BY DEF Finish
<1>2. handling'[d] = IF d = c THEN None ELSE handling[d]
  BY DEF Finish, TypeInv, ClientOK
<1>3. place'[m] = IF conn[c] = "up" /\ m = handling[c] THEN p ELSE place[m]
  BY DEF Settle, TypeInv, BrokerOK
<1>4. m # None /\ Hands(d, m) /\ Hands(c, m)
  BY MessagesAssumption DEF HandsInv
<1> QED BY <1>1, <1>2, <1>3, <1>4 DEF Hands

LEMMA HandsConsumerStep ==
    ASSUME TypeInv, HandsInv, NEW c \in Consumers, ConsumerStep(c)
    PROVE  HandsInv'
<1>1. CASE Dial(c) \/ Consume(c)
  <2> SUFFICES ASSUME NEW d \in Consumers, NEW m \in Messages
               PROVE  Hands(d, m)'
    BY DEF HandsInv
  <2>1. UNCHANGED <<place, receiver, held, handling>>
    BY <1>1 DEF Dial, Consume, brokerVars
  <2>2. d # c => conn'[d] = conn[d]
    BY <1>1 DEF Dial, Consume, TypeInv, ClientOK
  <2>3. \/ conn[c] = "down" /\ conn'[c] = "binding" /\ held[c] = {} /\ handling[c] = None
        \/ conn[c] = "binding" /\ conn'[c] = "up"
    BY <1>1 DEF Dial, Consume, Quiet, TypeInv, ClientOK
  <2>4. m # None /\ Hands(d, m)
    BY MessagesAssumption DEF HandsInv
  <2> QED BY <2>1, <2>2, <2>3, <2>4 DEF Hands
<1>2. ASSUME NEW k \in Keys, Bind(c, k)
      PROVE  HandsInv'
  BY <1>2, HandsKept DEF Bind, clientVars
<1>3. ASSUME NEW n \in Messages, Take(c, n)
      PROVE  HandsInv'
  <2> SUFFICES ASSUME NEW d \in Consumers, NEW m \in Messages
               PROVE  Hands(d, m)'
    BY DEF HandsInv
  <2>1. UNCHANGED <<place, receiver, conn>>
    BY <1>3 DEF Take, brokerVars
  <2>2. d # c => held'[d] = held[d] /\ handling'[d] = handling[d]
    BY <1>3 DEF Take, TypeInv, ClientOK
  <2>3. held'[c] = held[c] \ {n} /\ handling'[c] = n /\ n \in held[c] /\ handling[c] = None
    BY <1>3 DEF Take, TypeInv, ClientOK
  <2>4. m # None /\ Hands(d, m) /\ Hands(d, n)
    BY MessagesAssumption DEF HandsInv
  <2> QED BY <2>1, <2>2, <2>3, <2>4 DEF Hands
<1>4. CASE InsertOne(c)
  BY <1>4, HandsKept DEF InsertOne, brokerVars
<1>5. CASE Discard(c) \/ InsertFails(c)
  <2>1. handling[c] \in Messages
    BY <1>5, MalformedAssumption DEF Discard, InsertFails, TypeInv, ClientOK
  <2>2. Settle(c, "dead") /\ Finish(c) /\ receiver' = receiver
    BY <1>5 DEF Discard, InsertFails, Nack
  <2> QED BY <2>1, <2>2, HandsLetGo
<1>6. CASE Ack(c)
  <2>1. handling[c] \in Messages
    BY <1>6 DEF Ack, TypeInv, ClientOK
  <2>2. Settle(c, "acked") /\ Finish(c) /\ receiver' = receiver
    BY <1>6 DEF Ack
  <2> QED BY <2>1, <2>2, HandsLetGo
<1> QED BY <1>1, <1>2, <1>3, <1>4, <1>5, <1>6 DEF ConsumerStep

LEMMA HandsStep == TypeInv /\ HandsInv /\ [Next]_vars => HandsInv'
<1> SUFFICES ASSUME TypeInv, HandsInv, [Next]_vars
             PROVE  HandsInv'
  OBVIOUS
<1>1. ASSUME NEW m \in Messages, Publish(m) \/ PublishFails(m) \/ Requeue(m)
      PROVE  HandsInv'
  <2>1. \A n \in Messages : (place'[n] = "delivered") <=> (place[n] = "delivered")
    BY <1>1 DEF Publish, PublishFails, Requeue, TypeInv, BrokerOK
  <2> QED BY <1>1, <2>1, HandsKept DEF Publish, PublishFails, Requeue, clientVars
<1>2. ASSUME NEW n \in Messages, NEW c \in Consumers, Deliver(c, n)
      PROVE  HandsInv'
  <2> SUFFICES ASSUME NEW d \in Consumers, NEW m \in Messages
               PROVE  Hands(d, m)'
    BY DEF HandsInv
  <2>1. UNCHANGED <<conn, handling>> /\ conn[c] = "up" /\ place[n] = "ready"
    BY <1>2 DEF Deliver
  <2>2. held'[d] = IF d = c THEN held[d] \cup {n} ELSE held[d]
    BY <1>2 DEF Deliver, TypeInv, ClientOK
  <2>3. /\ place'[m] = IF m = n THEN "delivered" ELSE place[m]
        /\ receiver'[m] = IF m = n THEN c ELSE receiver[m]
    BY <1>2 DEF Deliver, TypeInv, BrokerOK
  <2>4. Hands(d, m) /\ Hands(c, m)
    BY DEF HandsInv
  <2> QED BY <2>1, <2>2, <2>3, <2>4 DEF Hands
<1>3. CASE RestartPublisher \/ BrokerStarts \/ Rest \/ UNCHANGED vars
  BY <1>3, HandsKept
     DEF RestartPublisher, BrokerStarts, Rest, vars, brokerVars, clientVars, historyVars
<1>4. CASE BrokerDies
  <2> SUFFICES ASSUME NEW d \in Consumers, NEW m \in Messages
               PROVE  Hands(d, m)'
    BY DEF HandsInv
  <2>1. conn'[d] = "down" /\ place'[m] # "delivered" /\ UNCHANGED <<held, handling>>
    BY <1>4 DEF BrokerDies
  <2>2. Hands(d, m)
    BY DEF HandsInv
  <2> QED BY <2>1, <2>2 DEF Hands
<1>5. ASSUME NEW c \in Consumers, LoseConnection(c) \/ Crash(c)
      PROVE  HandsInv'
  <2> SUFFICES ASSUME NEW d \in Consumers, NEW m \in Messages
               PROVE  Hands(d, m)'
    BY DEF HandsInv
  <2>1. conn'[d] = IF d = c THEN "down" ELSE conn[d]
    BY <1>5 DEF LoseConnection, Crash, TypeInv, ClientOK
  <2>2. /\ d # c => held'[d] = held[d] /\ handling'[d] = handling[d]
        /\ held'[c] \subseteq held[c] /\ handling'[c] \in {handling[c], None}
    BY <1>5 DEF LoseConnection, Crash, TypeInv, ClientOK
  <2>3. /\ receiver' = receiver
        /\ place'[m] = IF place[m] = "delivered" /\ receiver[m] = c THEN "limbo" ELSE place[m]
    BY <1>5 DEF LoseConnection, Crash, Orphaned
  <2>4. m # None /\ Hands(d, m) /\ Hands(c, m)
    BY MessagesAssumption DEF HandsInv
  <2> QED BY <2>1, <2>2, <2>3, <2>4 DEF Hands
<1>6. ASSUME NEW c \in Consumers, ConsumerStep(c)
      PROVE  HandsInv'
  BY <1>6, HandsConsumerStep
<1> QED BY <1>1, <1>2, <1>3, <1>4, <1>5, <1>6 DEF Next, BrokerStep

LEMMA HandsInvariant == Spec => []HandsInv
BY HandsInit, HandsStep, TypeInvariant, PTL DEF Spec

(* What RabbitMQ counts as delivered to a consumer is exactly what that consumer holds on    *)
(* the connection it came by: the loop settles every delivery, on each of its ways out.    *)
THEOREM NothingForgotten == Spec => []NoneForgotten
BY HandsMean, HandsInvariant, TypeInvariant, PTL

-----------------------------------------------------------------------------
(* DuplicatesBounded.  An event is stored once more for each consumer that still has it    *)
(* in hand and once more if the broker will deliver it again; that sum grows only when a   *)
(* connection or a process is lost.                                              *)
Working(m) == {c \in Consumers : m \in held[c] \/ (m = handling[c] /\ ~ inserted[c])}

Waiting(m) == IF place[m] \in {"unpublished", "ready", "limbo"} THEN 1 ELSE 0

CopiesInv == \A m \in Messages : stored[m] + Cardinality(Working(m)) + Waiting(m) <= 1 + losses

(* Counting consumers.                                                            *)
LEMMA Counting ==
    ASSUME NEW S \in SUBSET Consumers, NEW T \in SUBSET Consumers
    PROVE  /\ Cardinality(S) \in Nat
           /\ Cardinality(T) \in Nat
           /\ T \subseteq S => Cardinality(T) <= Cardinality(S)
           /\ \A c \in Consumers : T \subseteq S \cup {c} => Cardinality(T) <= Cardinality(S) + 1
           /\ \A c \in S : T \subseteq S \ {c} => Cardinality(T) <= Cardinality(S) - 1
<1>1. IsFiniteSet(S) /\ IsFiniteSet(T)
  BY ConsumersAssumption, FS_Subset
<1>2. Cardinality(S) \in Nat /\ Cardinality(T) \in Nat
  BY <1>1, FS_CardinalityType
<1>3. T \subseteq S => Cardinality(T) <= Cardinality(S)
  BY <1>1, FS_Subset
<1>4. ASSUME NEW c \in Consumers, T \subseteq S \cup {c}
      PROVE  Cardinality(T) <= Cardinality(S) + 1
  <2>1. IsFiniteSet(S \cup {c}) /\ Cardinality(S \cup {c}) \in {Cardinality(S), Cardinality(S) + 1}
    BY <1>1, FS_AddElement
  <2>2. Cardinality(T) <= Cardinality(S \cup {c})
    BY <1>4, <2>1, FS_Subset
  <2> QED BY <1>2, <2>1, <2>2
<1>5. ASSUME NEW c \in S, T \subseteq S \ {c}
      PROVE  Cardinality(T) <= Cardinality(S) - 1
  <2>1. IsFiniteSet(S \ {c}) /\ Cardinality(S \ {c}) = Cardinality(S) - 1
    BY <1>1, FS_RemoveElement
  <2>2. Cardinality(T) <= Cardinality(S \ {c})
    BY <1>5, <2>1, FS_Subset
  <2> QED BY <2>1, <2>2
<1> QED BY <1>2, <1>3, <1>4, <1>5

(* What one step may do to the copies of m.                                              *)
LEMMA CopiesStep ==
    ASSUME TypeInv, TypeInv', CopiesInv, NEW m \in Messages,
           \/ /\ stored'[m] = stored[m] /\ Working(m)' \subseteq Working(m)
              /\ \/ Waiting(m)' <= Waiting(m) /\ losses' = losses
                 \/ losses' = losses + 1
           \/ /\ stored'[m] = stored[m] /\ losses' = losses
              /\ \E c \in Consumers : Working(m)' \subseteq Working(m) \cup {c}
              /\ Waiting(m) = 1 /\ Waiting(m)' = 0
           \/ /\ stored'[m] = stored[m] + 1 /\ losses' = losses
              /\ \E c \in Working(m) : Working(m)' \subseteq Working(m) \ {c}
              /\ Waiting(m)' <= Waiting(m)
    PROVE  stored'[m] + Cardinality(Working(m)') + Waiting(m)' <= 1 + losses'
<1> DEFINE S == Working(m)
           T == Working(m)'
           w == Waiting(m)
           x == Waiting(m)'
<1>1. S \in SUBSET Consumers /\ T \in SUBSET Consumers
  BY DEF Working
<1>2. w \in {0, 1} /\ x \in {0, 1}
  BY DEF Waiting
<1>3. stored[m] \in Nat /\ stored'[m] \in Nat /\ losses \in Nat /\ losses' \in Nat
  BY MaxLossesAssumption DEF TypeInv, HistoryOK
<1>4. stored[m] + Cardinality(S) + w <= 1 + losses
  BY DEF CopiesInv
<1> HIDE DEF S, T, w, x
<1>5. /\ Cardinality(S) \in Nat
      /\ Cardinality(T) \in Nat
      /\ T \subseteq S => Cardinality(T) <= Cardinality(S)
      /\ \A c \in Consumers : T \subseteq S \cup {c} => Cardinality(T) <= Cardinality(S) + 1
      /\ \A c \in S : T \subseteq S \ {c} => Cardinality(T) <= Cardinality(S) - 1
  BY <1>1, Counting
<1>6. \/ /\ stored'[m] = stored[m] /\ T \subseteq S
         /\ \/ x <= w /\ losses' = losses
            \/ losses' = losses + 1
      \/ /\ stored'[m] = stored[m] /\ losses' = losses
         /\ \E c \in Consumers : T \subseteq S \cup {c}
         /\ w = 1 /\ x = 0
      \/ /\ stored'[m] = stored[m] + 1 /\ losses' = losses
         /\ \E c \in S : T \subseteq S \ {c}
         /\ x <= w
  BY DEF S, T, w, x
<1>7. stored'[m] + Cardinality(T) + x <= 1 + losses'
  BY <1>2, <1>3, <1>4, <1>5, <1>6
<1> QED BY <1>7 DEF T, x

(* A consumer has m in hand no more than before: its buffer has not grown, and its loop   *)
(* is at the same delivery or at none.                                              *)
LEMMA WorkingShrinks ==
    ASSUME NEW m \in Messages,
           \A c \in Consumers :
              /\ held'[c] \subseteq held[c]
              /\ \/ handling'[c] = handling[c] /\ (inserted'[c] <=> inserted[c])
                 \/ handling'[c] = None
    PROVE  Working(m)' \subseteq Working(m)
BY MessagesAssumption DEF Working

(* A step that loses nothing, stores nothing and puts nothing back into the queue.          *)
LEMMA CopiesKept ==
    ASSUME TypeInv, TypeInv', CopiesInv, UNCHANGED <<stored, losses>>,
           \A m \in Messages : place'[m] \in {"unpublished", "ready", "limbo"} =>
                                 place[m] \in {"unpublished", "ready", "limbo"},
           \A m \in Messages : Working(m)' \subseteq Working(m)
    PROVE  CopiesInv'
<1> SUFFICES ASSUME NEW m \in Messages
             PROVE  stored'[m] + Cardinality(Working(m)') + Waiting(m)' <= 1 + losses'
  BY DEF CopiesInv
<1>1. Waiting(m)' <= Waiting(m)
  BY DEF Waiting
<1> QED BY <1>1, CopiesStep

(* The loop of c gives up its delivery, and stored it at most once if it was in hand.        *)
LEMMA CopiesLetGo ==
    ASSUME TypeInv, TypeInv', HandsInv, CopiesInv, NEW c \in Consumers,
           handling[c] \in Messages, Finish(c), losses' = losses,
           NEW p \in {"acked", "dead"}, Settle(c, p),
           \/ UNCHANGED stored
           \/ ~ inserted[c] /\ stored' = [stored EXCEPT ![handling[c]] = @ + 1]
    PROVE  CopiesInv'
<1> SUFFICES ASSUME NEW m \in Messages
             PROVE  stored'[m] + Cardinality(Working(m)') + Waiting(m)' <= 1 + losses'
  BY DEF CopiesInv
<1>1. Waiting(m)' <= Waiting(m)
  BY DEF Waiting, Settle, TypeInv, BrokerOK
<1>2. \A d \in Consumers :
         /\ held'[d] = held[d]
         /\ d # c => handling'[d] = handling[d] /\ (inserted'[d] <=> inserted[d])
         /\ d = c => handling'[d] = None
  BY DEF Finish, TypeInv, ClientOK
<1>3. Working(m)' \subseteq Working(m)
  BY <1>2, WorkingShrinks
<1>4. CASE stored'[m] = stored[m]
  BY <1>1, <1>3, <1>4, CopiesStep
<1>5. CASE /\ ~ inserted[c] /\ m = handling[c]
           /\ stored' = [stored EXCEPT ![handling[c]] = @ + 1]
  <2>1. stored'[m] = stored[m] + 1
    BY <1>5 DEF TypeInv, HistoryOK
  <2>2. m \notin held[c]
    BY <1>5 DEF HandsInv, Hands
  <2>3. c \in Working(m) /\ Working(m)' \subseteq Working(m) \ {c}
    BY <1>2, <1>3, <1>5, <2>2, MessagesAssumption DEF Working
  <2> QED BY <1>1, <2>1, <2>3, CopiesStep
<1> QED BY <1>4, <1>5 DEF TypeInv, HistoryOK

LEMMA CopiesInit == Init => CopiesInv
<1> SUFFICES ASSUME Init, NEW m \in Messages
             PROVE  stored[m] + Cardinality(Working(m)) + Waiting(m) <= 1 + losses
  BY DEF CopiesInv
<1>1. Working(m) = {}
  BY MessagesAssumption DEF Init, Working
<1>2. Cardinality(Working(m)) = 0
  BY <1>1, FS_EmptySet
<1>3. stored[m] = 0 /\ Waiting(m) = 1 /\ losses = 0
  BY DEF Init, Waiting
<1> QED BY <1>2, <1>3

LEMMA CopiesConsumerStep ==
    ASSUME TypeInv, TypeInv', HandsInv, CopiesInv, NEW c \in Consumers, ConsumerStep(c)
    PROVE  CopiesInv'
<1>1. CASE Dial(c) \/ (\E k \in Keys : Bind(c, k)) \/ Consume(c)
  <2>1. UNCHANGED <<held, handling, inserted, place, stored, losses>>
    BY <1>1 DEF Dial, Bind, Consume, brokerVars, clientVars, historyVars
  <2>2. \A m \in Messages : Working(m)' \subseteq Working(m)
    BY <2>1, WorkingShrinks
  <2> QED BY <2>1, <2>2, CopiesKept
<1>2. ASSUME NEW n \in Messages, Take(c, n)
      PROVE  CopiesInv'
  <2>1. UNCHANGED <<place, stored, losses, inserted>>
    BY <1>2 DEF Take, brokerVars, historyVars
  <2>2. \A d \in Consumers :
           /\ d # c => held'[d] = held[d] /\ handling'[d] = handling[d]
           /\ d = c => held'[d] = held[d] \ {n} /\ handling'[d] = n /\ n \in held[d]
    BY <1>2 DEF Take, TypeInv, ClientOK
  <2>3. \A m \in Messages : Working(m)' \subseteq Working(m)
    BY <2>1, <2>2 DEF Working
  <2> QED BY <2>1, <2>3, CopiesKept
<1>3. CASE InsertOne(c)
  <2> SUFFICES ASSUME NEW m \in Messages
               PROVE  stored'[m] + Cardinality(Working(m)') + Waiting(m)' <= 1 + losses'
    BY DEF CopiesInv
  <2>1. UNCHANGED <<held, handling, place, losses>>
    BY <1>3 DEF InsertOne, brokerVars
  <2>2. Waiting(m)' <= Waiting(m)
    BY <2>1 DEF Waiting
  <2>3. \A d \in Consumers : inserted'[d] <=> (inserted[d] \/ d = c)
    BY <1>3 DEF InsertOne, TypeInv, ClientOK
  <2>4. Working(m)' \subseteq Working(m)
    BY <2>1, <2>3 DEF Working
  <2>5. CASE m # handling[c]
    <3>1. stored'[m] = stored[m]
      BY <1>3, <2>5 DEF InsertOne, TypeInv, HistoryOK
    <3> QED BY <2>1, <2>2, <2>4, <3>1, CopiesStep
  <2>6. CASE m = handling[c]
    <3>1. stored'[m] = stored[m] + 1
      BY <1>3, <2>6 DEF InsertOne, TypeInv, HistoryOK
    <3>2. m \notin held[c] /\ ~ inserted[c]
      BY <1>3, <2>6 DEF InsertOne, HandsInv, Hands
    <3>3. c \in Working(m) /\ Working(m)' \subseteq Working(m) \ {c}
      BY <2>1, <2>3, <2>4, <2>6, <3>2 DEF Working
    <3> QED BY <2>1, <2>2, <3>1, <3>3, CopiesStep
  <2> QED BY <2>5, <2>6
<1>4. CASE Discard(c) \/ InsertFails(c)
  <2>1. handling[c] \in Messages
    BY <1>4, MalformedAssumption DEF Discard, InsertFails, TypeInv, ClientOK
  <2>2. Settle(c, "dead") /\ Finish(c) /\ losses' = losses
    BY <1>4 DEF Discard, InsertFails, Nack
  <2>3. \/ UNCHANGED stored
        \/ ~ inserted[c] /\ stored' = [stored EXCEPT ![handling[c]] = @ + 1]
    BY <1>4 DEF Discard, InsertFails
  <2> QED BY <2>1, <2>2, <2>3, CopiesLetGo
<1>5. CASE Ack(c)
  <2>1. handling[c] \in Messages
    BY <1>5 DEF Ack, TypeInv, ClientOK
  <2>2. Settle(c, "acked") /\ Finish(c) /\ UNCHANGED <<stored, losses>>
    BY <1>5 DEF Ack, historyVars
  <2> QED BY <2>1, <2>2, CopiesLetGo
<1> QED BY <1>1, <1>2, <1>3, <1>4, <1>5 DEF ConsumerStep

LEMMA CopiesNextStep ==
    TypeInv /\ TypeInv' /\ HandsInv /\ CopiesInv /\ [Next]_vars => CopiesInv'
<1> SUFFICES ASSUME TypeInv, TypeInv', HandsInv, CopiesInv, [Next]_vars
             PROVE  CopiesInv'
  OBVIOUS
<1>1. ASSUME NEW n \in Messages, Publish(n) \/ PublishFails(n) \/ Requeue(n)
      PROVE  CopiesInv'
  <2>1. UNCHANGED <<held, handling, inserted, stored, losses>>
    BY <1>1 DEF Publish, PublishFails, Requeue, clientVars, historyVars
  <2>2. \A m \in Messages : place'[m] \in {"unpublished", "ready", "limbo"} =>
                               place[m] \in {"unpublished", "ready", "limbo"}
    BY <1>1 DEF Publish, PublishFails, Requeue, TypeInv, BrokerOK
  <2>3. \A m \in Messages : Working(m)' \subseteq Working(m)
    BY <2>1, WorkingShrinks
  <2> QED BY <2>1, <2>2, <2>3, CopiesKept
<1>2. ASSUME NEW n \in Messages, NEW c \in Consumers, Deliver(c, n)
      PROVE  CopiesInv'
  <2> SUFFICES ASSUME NEW m \in Messages
               PROVE  stored'[m] + Cardinality(Working(m)') + Waiting(m)' <= 1 + losses'
    BY DEF CopiesInv
  <2>1. UNCHANGED <<handling, inserted, stored, losses>>
    BY <1>2 DEF Deliver, historyVars
  <2>2. \A d \in Consumers : held'[d] = IF d = c THEN held[d] \cup {n} ELSE held[d]
    BY <1>2 DEF Deliver, TypeInv, ClientOK
  <2>3. place[n] = "ready" /\ place'[m] = IF m = n THEN "delivered" ELSE place[m]
    BY <1>2 DEF Deliver, TypeInv, BrokerOK
  <2>4. CASE m = n
    <3>1. Waiting(m) = 1 /\ Waiting(m)' = 0
      BY <2>3, <2>4 DEF Waiting
    <3>2. Working(m)' \subseteq Working(m) \cup {c}
      BY <2>1, <2>2, <2>4 DEF Working
    <3> QED BY <2>1, <3>1, <3>2, CopiesStep
  <2>5. CASE m # n
    <3>1. Waiting(m)' <= Waiting(m)
      BY <2>3, <2>5 DEF Waiting
    <3>2. Working(m)' \subseteq Working(m)
      BY <2>1, <2>2, <2>5 DEF Working
    <3> QED BY <2>1, <3>1, <3>2, CopiesStep
  <2> QED BY <2>4, <2>5
<1>3. CASE RestartPublisher \/ BrokerStarts \/ Rest \/ UNCHANGED vars
  <2>1. UNCHANGED <<held, handling, inserted, place, stored, losses>>
    BY <1>3 DEF RestartPublisher, BrokerStarts, Rest, vars, brokerVars, clientVars, historyVars
  <2>2. \A m \in Messages : Working(m)' \subseteq Working(m)
    BY <2>1, WorkingShrinks
  <2> QED BY <2>1, <2>2, CopiesKept
<1>4. CASE BrokerDies \/ \E c \in Consumers : LoseConnection(c) \/ Crash(c)
  <2> SUFFICES ASSUME NEW m \in Messages
               PROVE  stored'[m] + Cardinality(Working(m)') + Waiting(m)' <= 1 + losses'
    BY DEF CopiesInv
  <2>1. stored' = stored /\ losses' = losses + 1
    BY <1>4 DEF BrokerDies, LoseConnection, Crash, Lose
  <2>2. \A c \in Consumers :
           /\ held'[c] \subseteq held[c]
           /\ \/ handling'[c] = handling[c] /\ (inserted'[c] <=> inserted[c])
              \/ handling'[c] = None
    <3>1. CASE BrokerDies
      BY <3>1 DEF BrokerDies
    <3>2. ASSUME NEW d \in Consumers, LoseConnection(d)
          PROVE  UNCHANGED <<handling, inserted>> /\ \A c \in Consumers : held'[c] \subseteq held[c]
      <4>1. UNCHANGED <<handling, inserted>>
        BY <3>2 DEF LoseConnection
      <4>2. PICK kept \in SUBSET held[d] : held' = [held EXCEPT ![d] = kept]
        BY <3>2 DEF LoseConnection
      <4> QED BY <4>1, <4>2 DEF TypeInv, ClientOK
    <3>3. ASSUME NEW d \in Consumers, Crash(d), NEW c \in Consumers
          PROVE  /\ held'[c] \subseteq held[c]
                 /\ \/ handling'[c] = handling[c] /\ (inserted'[c] <=> inserted[c])
                    \/ handling'[c] = None
      <4>1. CASE c = d
        BY <3>3, <4>1 DEF Crash, TypeInv, ClientOK
      <4>2. CASE c # d
        BY <3>3, <4>2 DEF Crash, TypeInv, ClientOK
      <4> QED BY <4>1, <4>2
    <3> QED BY <1>4, <3>1, <3>2, <3>3
  <2>3. Working(m)' \subseteq Working(m)
    BY <2>2, WorkingShrinks
  <2> QED BY <2>1, <2>3, CopiesStep
<1>5. ASSUME NEW c \in Consumers, ConsumerStep(c)
      PROVE  CopiesInv'
  BY <1>5, CopiesConsumerStep
<1> QED BY <1>1, <1>2, <1>3, <1>4, <1>5 DEF Next, BrokerStep

LEMMA CopiesMean == TypeInv /\ CopiesInv => DuplicatesBounded
<1> SUFFICES ASSUME TypeInv, CopiesInv, NEW m \in Messages
             PROVE  stored[m] <= 1 + losses
  BY DEF DuplicatesBounded
<1> DEFINE S == Working(m)
           w == Waiting(m)
<1>1. stored[m] + Cardinality(S) + w <= 1 + losses
  BY DEF CopiesInv
<1>2. S \in SUBSET Consumers /\ w \in {0, 1}
  BY DEF Working, Waiting
<1>3. stored[m] \in Nat /\ losses \in Nat
  BY MaxLossesAssumption DEF TypeInv, HistoryOK
<1> HIDE DEF S, w
<1>4. Cardinality(S) \in Nat
  BY <1>2, Counting
<1> QED BY <1>1, <1>2, <1>3, <1>4

(* With n connections or processes lost, an event is stored at most n + 1 times, over any    *)
(* number of replicas and with failing inserts.                                    *)
THEOREM DuplicatesAreBounded == Spec => []DuplicatesBounded
<1>1. Spec => [](TypeInv /\ HandsInv)
  BY TypeInvariant, HandsInvariant, PTL
<1>2. Spec => []CopiesInv
  BY <1>1, CopiesInit, CopiesNextStep, PTL DEF Spec
<1> QED BY <1>1, <1>2, CopiesMean, PTL

-----------------------------------------------------------------------------
(* The replicas together implement AtLeastOnce: what follows says which of its steps      *)
(* each step of Notifications is.                                              *)
Fates == [m \in Messages |-> FateAt(place[m])]

Stuttering == UNCHANGED <<Fates, stored, losses>>

(* What is left when the broker has dropped some of what it kept.                       *)
Dropping(dropped) ==
    [m \in Messages |-> IF m \in dropped /\ Fates[m] \in {"queued", "dead"} THEN "gone"
                       ELSE Fates[m]]

(* One message moves, to a place with another fate or not.                              *)
LEMMA FateMoves ==
    ASSUME TypeInv, NEW m \in Messages, NEW p, place' = [place EXCEPT ![m] = p]
    PROVE  Fates' = [Fates EXCEPT ![m] = FateAt(p)]
BY DEF Fates, TypeInv, BrokerOK

LEMMA FateStays ==
    ASSUME TypeInv, NEW m \in Messages, NEW p, place' = [place EXCEPT ![m] = p],
           FateAt(p) = FateAt(place[m])
    PROVE  Fates' = Fates
BY DEF Fates, TypeInv, BrokerOK

LEMMA OrphansKeepFate ==
    ASSUME TypeInv, NEW lost, place' = Orphaned(lost)
    PROVE  Fates' = Fates
BY DEF Fates, TypeInv, BrokerOK, Orphaned, FateAt

(* An event in the hands of a connected consumer is still in the queue.                  *)
LEMMA HandledIsQueued ==
    ASSUME TypeInv, HandsInv, NEW c \in Consumers, handling[c] \in Messages, conn[c] = "up"
    PROVE  Fates[handling[c]] = "queued"
<1>1. Hands(c, handling[c])
  BY DEF HandsInv
<1> QED BY <1>1 DEF Hands, Fates, FateAt

(* Publisher, broker and failures.                                              *)
LEMMA DeliveryBrokerStep ==
    ASSUME TypeInv,
           \/ \E m \in Messages : Publish(m) \/ PublishFails(m) \/ BrokerStep(m)
           \/ \E c \in Consumers : LoseConnection(c) \/ Crash(c)
           \/ RestartPublisher \/ BrokerDies \/ BrokerStarts
    PROVE  Delivery!Next \/ Stuttering
<1>1. ASSUME NEW m \in Messages, Publish(m) \/ PublishFails(m)
      PROVE  Delivery!Publish(m)
  <2>1. PICK p \in {"ready", "gone"} : place' = [place EXCEPT ![m] = p]
    BY <1>1 DEF Publish, PublishFails
  <2>2. Fates[m] = "new" /\ UNCHANGED <<stored, losses>>
    BY <1>1 DEF Publish, PublishFails, Fates, FateAt, historyVars
  <2>3. FateAt(p) \in {"queued", "gone"}
    BY DEF FateAt
  <2> QED BY <2>1, <2>2, <2>3, FateMoves DEF Delivery!Publish, Fates
<1>2. ASSUME NEW m \in Messages, NEW c \in Consumers, Requeue(m) \/ Deliver(c, m)
      PROVE  Stuttering
  <2>1. PICK p \in {"ready", "delivered"} : place' = [place EXCEPT ![m] = p]
    BY <1>2 DEF Requeue, Deliver
  <2>2. FateAt(p) = FateAt(place[m]) /\ UNCHANGED <<stored, losses>>
    BY <1>2 DEF Requeue, Deliver, FateAt, historyVars
  <2> QED BY <2>1, <2>2, FateStays DEF Stuttering
<1>3. ASSUME NEW m \in Messages, Requeue(m)
      PROVE  Stuttering
  <2>1. place' = [place EXCEPT ![m] = "ready"] /\ UNCHANGED <<stored, losses>>
    BY <1>3 DEF Requeue, historyVars
  <2>2. FateAt("ready") = FateAt(place[m])
    BY <1>3 DEF Requeue, FateAt
  <2> QED BY <2>1, <2>2, FateStays DEF Stuttering
<1>4. ASSUME NEW c \in Consumers, LoseConnection(c) \/ Crash(c)
      PROVE  Delivery!Lose
  <2>1. Fates' = Fates
    BY <1>4, OrphansKeepFate DEF LoseConnection, Crash
  <2>2. losses < MaxLosses /\ losses' = losses + 1 /\ stored' = stored
    BY <1>4 DEF LoseConnection, Crash, Lose
  <2>3. Fates' = Dropping({})
    BY <2>1 DEF Dropping, Fates
  <2>4. \E dropped \in SUBSET Messages : Fates' = Dropping(dropped)
    BY <2>3
  <2> QED BY <2>2, <2>4 DEF Delivery!Lose, Fates, Dropping
<1>5. CASE BrokerDies
  <2>1. Fates' = Dropping(Messages)
    BY <1>5 DEF BrokerDies, Dropping, Fates, FateAt, TypeInv, BrokerOK, Places
  <2>2. losses < MaxLosses /\ losses' = losses + 1 /\ stored' = stored
    BY <1>5 DEF BrokerDies, Lose
  <2> QED BY <2>1, <2>2 DEF Delivery!Lose, Delivery!Next, Fates, Dropping
<1>6. CASE RestartPublisher \/ BrokerStarts
  BY <1>6 DEF RestartPublisher, BrokerStarts, Stuttering, Fates, brokerVars, historyVars
<1> QED BY <1>1, <1>2, <1>3, <1>4, <1>5, <1>6 DEF BrokerStep, Delivery!Next

(* The loop of c gives its delivery up or is done with it.                             *)
LEMMA SettleIsStep ==
    ASSUME TypeInv, HandsInv, NEW c \in Consumers, handling[c] \in Messages,
           NEW p \in {"acked", "dead"}, Settle(c, p)
    PROVE  \/ Fates' = Fates
           \/ /\ Fates[handling[c]] = "queued"
              /\ Fates' = [Fates EXCEPT ![handling[c]] = p]
<1>1. CASE conn[c] = "up"
  <2>1. place' = [place EXCEPT ![handling[c]] = p]
    BY <1>1 DEF Settle
  <2>2. FateAt(p) = p
    BY DEF FateAt
  <2>3. Fates' = [Fates EXCEPT ![handling[c]] = FateAt(p)]
    BY <2>1, FateMoves
  <2>4. Fates' = [Fates EXCEPT ![handling[c]] = p]
    BY <2>2, <2>3
  <2>5. Fates[handling[c]] = "queued"
    BY <1>1, HandledIsQueued
  <2> QED BY <2>4, <2>5
<1>2. CASE conn[c] # "up"
  BY <1>2 DEF Settle, Fates
<1> QED BY <1>1, <1>2

(* What an insert adds, within the bound that holds after it.                           *)
LEMMA InsertIsWork ==
    ASSUME TypeInv, HandsInv, DuplicatesBounded', NEW c \in Consumers,
           handling[c] \in Messages, stored' = [stored EXCEPT ![handling[c]] = @ + 1],
           losses' = losses
    PROVE  stored[handling[c]] <= losses
<1>1. stored'[handling[c]] <= 1 + losses
  BY DEF DuplicatesBounded
<1> QED BY <1>1, MaxLossesAssumption DEF TypeInv, HistoryOK

(* The event a consumer works on has been published.                                  *)
Published == \A c \in Consumers, m \in Messages :
                 m \in held[c] \/ m = handling[c] => place[m] # "unpublished"

LEMMA PublishedStep == TypeInv /\ Published /\ [Next]_vars => Published'
<1> SUFFICES ASSUME TypeInv, Published, [Next]_vars
             PROVE  Published'
  OBVIOUS
<1> DEFINE Stays == \A m \in Messages : place[m] # "unpublished" => place'[m] # "unpublished"
           NoNew == \A c \in Consumers, m \in Messages :
                       m \in held'[c] \/ m = handling'[c] => m \in held[c] \/ m = handling[c]
<1>0. ASSUME Stays, NoNew
      PROVE  Published'
  BY <1>0 DEF Published
<1>1. Stays
  <2> USE DEF TypeInv, BrokerOK
  <2>1. ASSUME NEW m \in Messages, Publish(m) \/ PublishFails(m) \/ BrokerStep(m)
        PROVE  Stays
    BY <2>1 DEF Publish, PublishFails, BrokerStep, Requeue, Deliver
  <2>2. ASSUME NEW c \in Consumers, ConsumerStep(c)
        PROVE  Stays
    BY <2>2 DEF ConsumerStep, Dial, Bind, Consume, Take, Discard, InsertOne, InsertFails, Ack,
                Nack, Settle, brokerVars
  <2>3. ASSUME NEW c \in Consumers, LoseConnection(c) \/ Crash(c)
        PROVE  Stays
    BY <2>3 DEF LoseConnection, Crash, Orphaned
  <2>4. CASE BrokerDies
    BY <2>4 DEF BrokerDies
  <2>5. CASE RestartPublisher \/ BrokerStarts \/ Rest \/ UNCHANGED vars
    BY <2>5 DEF RestartPublisher, BrokerStarts, Rest, vars, brokerVars
  <2> QED BY <2>1, <2>2, <2>3, <2>4, <2>5 DEF Next
<1>2. ASSUME NEW c \in Consumers, NEW m \in Messages, Deliver(c, m)
      PROVE  Published'
  <2>1. \A d \in Consumers, n \in Messages :
            n \in held'[d] \/ n = handling'[d] => n = m \/ n \in held[d] \/ n = handling[d]
    BY <1>2 DEF Deliver, TypeInv, ClientOK
  <2>2. place'[m] = "delivered"
    BY <1>2 DEF Deliver, TypeInv, BrokerOK
  <2> QED BY <1>1, <2>1, <2>2 DEF Published
<1>3. ASSUME NEW m \in Messages, Publish(m) \/ PublishFails(m) \/ Requeue(m)
      PROVE  NoNew
  BY <1>3 DEF Publish, PublishFails, Requeue, clientVars
<1>4. ASSUME NEW c \in Consumers, ConsumerStep(c) \/ LoseConnection(c) \/ Crash(c)
      PROVE  NoNew
  <2> USE MessagesAssumption DEF TypeInv, ClientOK
  <2>1. CASE Dial(c) \/ Consume(c) \/ InsertOne(c) \/ \E k \in Keys : Bind(c, k)
    BY <2>1 DEF Dial, Bind, Consume, InsertOne, clientVars
  <2>2. CASE Discard(c) \/ InsertFails(c) \/ Ack(c)
    BY <2>2 DEF Discard, InsertFails, Ack, Nack, Finish
  <2>3. ASSUME NEW m \in Messages, Take(c, m)
        PROVE  NoNew
    BY <2>3 DEF Take
  <2>4. CASE LoseConnection(c)
    BY <2>4 DEF LoseConnection
  <2>5. CASE Crash(c)
    BY <2>5 DEF Crash
  <2> QED BY <1>4, <2>1, <2>2, <2>3, <2>4, <2>5 DEF ConsumerStep
<1>5. ASSUME RestartPublisher \/ BrokerDies \/ BrokerStarts \/ Rest \/ UNCHANGED vars
      PROVE  NoNew
  BY <1>5 DEF RestartPublisher, BrokerDies, BrokerStarts, Rest, vars, clientVars
<1>6. ASSUME NEW m \in Messages, Publish(m) \/ PublishFails(m) \/ BrokerStep(m)
      PROVE  Published'
  <2>1. CASE Publish(m) \/ PublishFails(m) \/ Requeue(m)
    BY <2>1, <1>0, <1>1, <1>3
  <2>2. ASSUME NEW c \in Consumers, Deliver(c, m)
        PROVE  Published'
    BY <2>2, <1>2
  <2> QED BY <1>6, <2>1, <2>2 DEF BrokerStep
<1>7. ASSUME NEW c \in Consumers, ConsumerStep(c) \/ LoseConnection(c) \/ Crash(c)
      PROVE  Published'
  BY <1>7, <1>0, <1>1, <1>4
<1>8. CASE RestartPublisher \/ BrokerDies \/ BrokerStarts \/ Rest \/ UNCHANGED vars
  BY <1>8, <1>0, <1>1, <1>5
<1> HIDE DEF Stays, NoNew
<1> QED BY <1>6, <1>7, <1>8 DEF Next

LEMMA DeliveryConsumerStep ==
    ASSUME TypeInv, HandsInv, Published, StoredInv, DuplicatesBounded',
           NEW c \in Consumers, ConsumerStep(c)
    PROVE  Delivery!Next \/ Stuttering
<1>1. CASE Dial(c) \/ Consume(c) \/ (\E k \in Keys : Bind(c, k)) \/ \E m \in Messages : Take(c, m)
  BY <1>1 DEF Dial, Bind, Consume, Take, Stuttering, Fates, brokerVars, historyVars
<1>2. CASE InsertOne(c)
  <2> DEFINE m == handling[c]
  <2>1. m \in Messages /\ Fates' = Fates /\ losses' = losses
    BY <1>2 DEF InsertOne, Fates, brokerVars, TypeInv, ClientOK
  <2>2. stored' = [stored EXCEPT ![m] = @ + 1]
    BY <1>2 DEF InsertOne
  <2>3. Fates[m] # "new"
    BY <2>1 DEF Fates, FateAt, Published, TypeInv, BrokerOK, Places
  <2>4. stored[m] <= losses
    BY <2>1, <2>2, InsertIsWork
  <2> HIDE DEF m
  <2> QED BY <2>1, <2>2, <2>3, <2>4 DEF Delivery!Next, Delivery!Work, Fates
<1>3. CASE Ack(c)
  <2> DEFINE m == handling[c]
  <2>1. m \in Messages /\ UNCHANGED <<stored, losses>>
    BY <1>3 DEF Ack, TypeInv, ClientOK, historyVars
  <2>2. stored[m] > 0
    BY <1>3 DEF Ack, StoredInv, InsertedStored
  <2>3. \/ Fates' = Fates
        \/ Fates[m] = "queued" /\ Fates' = [Fates EXCEPT ![m] = "acked"]
    BY <1>3, <2>1, SettleIsStep DEF Ack
  <2> HIDE DEF m
  <2> QED BY <2>1, <2>2, <2>3 DEF Delivery!Next, Delivery!Acknowledge, Stuttering, Fates
<1>4. CASE Discard(c) \/ InsertFails(c)
  <2> DEFINE m == handling[c]
  <2>1. m \in Messages /\ losses' = losses
    BY <1>4, MalformedAssumption, MessagesAssumption
       DEF Discard, InsertFails, TypeInv, ClientOK
  <2>2. stored' = stored \/ stored' = [stored EXCEPT ![m] = @ + 1]
    BY <1>4 DEF Discard, InsertFails
  <2>3. \/ Fates' = Fates
        \/ Fates[m] = "queued" /\ Fates' = [Fates EXCEPT ![m] = "dead"]
    BY <1>4, <2>1, SettleIsStep DEF Discard, InsertFails, Nack
  <2>4. Fates[m] # "new"
    BY <2>1 DEF Fates, FateAt, Published, TypeInv, BrokerOK, Places
  <2>5. stored' = [stored EXCEPT ![m] = @ + 1] => stored[m] <= losses
    BY <2>1, InsertIsWork
  <2> HIDE DEF m
  <2> QED BY <2>1, <2>2, <2>3, <2>4, <2>5
          DEF Delivery!Next, Delivery!Work, Delivery!Reject, Stuttering, Fates
<1> QED BY <1>1, <1>2, <1>3, <1>4 DEF ConsumerStep

LEMMA DeliveryStep ==
    TypeInv /\ HandsInv /\ Published /\ StoredInv /\ DuplicatesBounded' /\ [Next]_vars
        => [Delivery!Next]_(Delivery!vars)
<1> SUFFICES ASSUME TypeInv, HandsInv, Published, StoredInv, DuplicatesBounded', [Next]_vars
             PROVE  Delivery!Next \/ Stuttering
  BY DEF Stuttering, Delivery!vars, Fates
<1>1. CASE Rest \/ UNCHANGED vars
  BY <1>1 DEF Rest, vars, brokerVars, historyVars, Stuttering, Fates
<1> QED BY <1>1, DeliveryBrokerStep, DeliveryConsumerStep DEF Next

(* The pipeline of publisher, broker and any number of replicas, with connections and        *)
(* processes lost at any point, does only what AtLeastOnce allows.                    *)
THEOREM ImplementsAtLeastOnce == Spec => DeliversAtLeastOnce
<1>1. Init => Delivery!Init
  BY DEF Init, Delivery!Init, FateAt
<1>2. Spec => [](TypeInv /\ HandsInv /\ DuplicatesBounded)
  BY TypeInvariant, HandsInvariant, DuplicatesAreBounded, PTL
<1>3. Spec => []StoredInv
  BY TypeInvariant, StoredInit, StoredStep, PTL DEF Spec
<1>4. Init => Published
  BY MessagesAssumption DEF Init, Published
<1>5. Spec => []Published
  BY <1>4, TypeInvariant, PublishedStep, PTL DEF Spec
<1> QED BY <1>1, <1>2, <1>3, <1>5, DeliveryStep, PTL DEF Spec, DeliversAtLeastOnce, Delivery!Spec
-----------------------------------------------------------------------------
(* A consumer that is connected has found every key bound, and none is ever unbound.       *)
BoundInv == \A c \in Consumers : conn[c] = "up" => bound = Keys

LEMMA BoundStep == TypeInv /\ BoundInv /\ [Next]_vars => BoundInv'
<1> SUFFICES ASSUME TypeInv, BoundInv, [Next]_vars
             PROVE  BoundInv'
  OBVIOUS
<1> USE DEF BoundInv
<1>1. ASSUME NEW m \in Messages, Publish(m) \/ PublishFails(m) \/ BrokerStep(m)
      PROVE  BoundInv'
  BY <1>1 DEF Publish, PublishFails, BrokerStep, Requeue, Deliver, clientVars
<1>2. ASSUME NEW c \in Consumers, ConsumerStep(c)
      PROVE  BoundInv'
  <2>1. CASE Consume(c)
    BY <2>1 DEF Consume, brokerVars
  <2>2. ASSUME NEW k \in Keys, Bind(c, k)
        PROVE  BoundInv'
    BY <2>2 DEF Bind, clientVars
  <2>3. CASE Dial(c)
    BY <2>3 DEF Dial, brokerVars, TypeInv, ClientOK
  <2>4. ASSUME ~ Consume(c), ~ Dial(c), \A k \in Keys : ~ Bind(c, k)
        PROVE  UNCHANGED <<bound, conn>>
    BY <1>2, <2>4 DEF ConsumerStep, Take, Discard, InsertOne, InsertFails, Ack, Nack, Finish, brokerVars
  <2> QED BY <2>1, <2>2, <2>3, <2>4
<1>3. ASSUME NEW c \in Consumers, LoseConnection(c) \/ Crash(c)
      PROVE  BoundInv'
  BY <1>3 DEF LoseConnection, Crash, TypeInv, ClientOK
<1>4. CASE RestartPublisher \/ BrokerDies \/ BrokerStarts \/ Rest \/ UNCHANGED vars
  BY <1>4 DEF RestartPublisher, BrokerDies, BrokerStarts, Rest, vars, brokerVars, clientVars
<1> QED BY <1>1, <1>2, <1>3, <1>4 DEF Next

(* What is not the publisher's leaves an unpublished event alone.                        *)
LEMMA OthersLeaveUnpublished ==
    ASSUME TypeInv, Published, [Next]_vars, NEW m \in Messages, place[m] = "unpublished",
           ~ Publish(m), ~ PublishFails(m)
    PROVE  place'[m] = "unpublished"
<1> USE DEF TypeInv, BrokerOK
<1>1. ASSUME NEW n \in Messages, Publish(n) \/ PublishFails(n) \/ BrokerStep(n)
      PROVE  place'[m] = "unpublished"
  <2>1. n # m
    BY <1>1 DEF BrokerStep, Requeue, Deliver
  <2> QED BY <1>1, <2>1 DEF Publish, PublishFails, BrokerStep, Requeue, Deliver
<1>2. ASSUME NEW c \in Consumers, ConsumerStep(c)
      PROVE  place'[m] = "unpublished"
  <2>1. handling[c] # m
    BY DEF Published
  <2> QED BY <1>2, <2>1
          DEF ConsumerStep, Dial, Bind, Consume, Take, Discard, InsertOne, InsertFails, Ack, Nack,
              Settle, brokerVars
<1>3. ASSUME NEW c \in Consumers, LoseConnection(c) \/ Crash(c)
      PROVE  place'[m] = "unpublished"
  BY <1>3 DEF LoseConnection, Crash, Orphaned
<1>4. CASE RestartPublisher \/ BrokerDies \/ BrokerStarts \/ Rest \/ UNCHANGED vars
  BY <1>4 DEF RestartPublisher, BrokerDies, BrokerStarts, Rest, vars, brokerVars
<1> QED BY <1>1, <1>2, <1>3, <1>4 DEF Next

(* While the publisher's connection stands and a consumer is connected, no event is dropped   *)
(* by the exchange, in whatever order the keys were bound and the replicas came and went.   *)
THEOREM EventsAreQueued == Spec => QueuedWhileConsumed
<1> DEFINE Consumed == \E c \in Consumers : conn[c] = "up"
           Kept == \A m \in Messages :
                      place[m] = "unpublished" => place'[m] \in {"unpublished", "ready"}
<1>1. Init => Published /\ BoundInv
  BY MessagesAssumption DEF Init, Published, BoundInv
<1>2. Spec => [](TypeInv /\ Published /\ BoundInv)
  BY <1>1, TypeInvariant, PublishedStep, BoundStep, PTL DEF Spec
<1>3. ASSUME TypeInv, Published, BoundInv, [Next]_vars, pubOpen, Consumed
      PROVE  Kept
  <2> SUFFICES ASSUME NEW m \in Messages, place[m] = "unpublished"
               PROVE  place'[m] \in {"unpublished", "ready"}
    OBVIOUS
  <2>1. CASE Publish(m)
    <3>1. KeyOf[m] \in bound
      BY <1>3, KeysAssumption DEF BoundInv
    <3> QED BY <1>3, <2>1, <3>1 DEF Publish, TypeInv, BrokerOK
  <2>2. CASE PublishFails(m)
    BY <1>3, <2>2 DEF PublishFails
  <2> QED BY <1>3, <2>1, <2>2, OthersLeaveUnpublished
<1>4. TypeInv /\ Published /\ BoundInv /\ [Next]_vars => [pubOpen /\ Consumed => Kept]_vars
  BY <1>3
<1> QED BY <1>2, <1>4, PTL DEF Spec, QueuedWhileConsumed
=============================================================================
