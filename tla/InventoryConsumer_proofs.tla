----------------------- MODULE InventoryConsumer_proofs -----------------------
(***************************************************************************)
(* Proofs about InventoryConsumer, for any updates, products and replicas, any   *)
(* number of losses, and for every combination of failures.                    *)
(***************************************************************************)
EXTENDS InventoryConsumer, FiniteSetTheorems, SumTheorems, TLAPS

-----------------------------------------------------------------------------
(* Type correctness, one part for the broker, one for the consumers and one for     *)
(* the table and the gauges.                                                   *)
BrokerOK ==
    /\ declared \in BOOLEAN
    /\ place \in [Messages -> Places]
    /\ receiver \in [Messages -> Consumers \cup {None}]

LoopOK ==
    /\ handling \in [Consumers -> Messages \cup {None}]
    /\ step \in [Consumers -> Steps]
    /\ \A c \in Consumers : step[c] = "idle" <=> handling[c] = None
    /\ \A c \in Consumers : step[c] \in {"select", "gauge"} => ProductOf[handling[c]] \in Products

ClientOK ==
    /\ up \in SUBSET Consumers
    /\ held \in [Consumers -> SUBSET Messages]
    /\ LoopOK

ReadOK ==
    /\ newStock \in [Consumers -> Int \cup {None}]
    /\ \A c \in Consumers : newStock[c] # None <=> step[c] = "gauge"

TableOK ==
    /\ stock \in [Products -> Int]
    /\ level \in [Consumers -> [Products -> Int \cup {None}]]
    /\ applied \in [Messages -> Nat]
    /\ unheard \in SUBSET Products
    /\ losses \in 0 .. MaxLosses

TypeInv == BrokerOK /\ ClientOK /\ ReadOK /\ TableOK

LEMMA TypeInit == Init => TypeInv
<1> SUFFICES ASSUME Init
             PROVE  TypeInv
  OBVIOUS
<1>1. BrokerOK
  BY DEF Init, BrokerOK, Places
<1>2. ClientOK /\ ReadOK
  BY DEF Init, ClientOK, LoopOK, ReadOK, Steps
<1>3. TableOK
  BY MaxLossesAssumption, StockAssumption DEF Init, TableOK
<1> QED BY <1>1, <1>2, <1>3 DEF TypeInv

(* What the steps of a loop are about: a consumer that is not idle has a message.      *)
LEMMA AtWork ==
    ASSUME TypeInv, NEW c \in Consumers, step[c] # "idle"
    PROVE  handling[c] \in Messages /\ handling[c] # None
BY MessagesAssumption DEF TypeInv, ClientOK, LoopOK

LEMMA SettleTyped ==
    ASSUME TypeInv, NEW c \in Consumers, step[c] # "idle", step[c] # "gauge",
           NEW p \in Places, Settle(c, p), newStock' = newStock
    PROVE  place' \in [Messages -> Places] /\ LoopOK' /\ ReadOK'
<1>1. handling[c] \in Messages
  BY AtWork
<1>2. place' \in [Messages -> Places]
  BY <1>1 DEF Settle, TypeInv, BrokerOK
<1>3. \A d \in Consumers : /\ handling'[d] = IF d = c THEN None ELSE handling[d]
                           /\ step'[d] = IF d = c THEN "idle" ELSE step[d]
  BY DEF Settle, TypeInv, ClientOK, LoopOK
<1>4. LoopOK'
  <2>1. handling' \in [Consumers -> Messages \cup {None}] /\ step' \in [Consumers -> Steps]
    BY DEF Settle, TypeInv, ClientOK, LoopOK, Steps
  <2> QED BY <1>3, <2>1 DEF TypeInv, ClientOK, LoopOK
<1>5. ReadOK'
  BY <1>3 DEF TypeInv, ReadOK
<1> QED BY <1>2, <1>4, <1>5

LEMMA OrphanedTyped ==
    ASSUME TypeInv, NEW lost
    PROVE  Orphaned(lost) \in [Messages -> Places]
BY DEF TypeInv, BrokerOK, Orphaned, Places

LEMMA ApplyTyped ==
    ASSUME TypeInv, NEW m \in Messages, Apply(m)
    PROVE  applied' \in [Messages -> Nat] /\ stock' \in [Products -> Int]
<1>1. applied' \in [Messages -> Nat]
  BY DEF Apply, TypeInv, TableOK
<1>2. ChangeOf[m] \in Int
  BY ChangeAssumption
<1>3. stock' \in [Products -> Int]
  BY <1>2 DEF Apply, TypeInv, TableOK
<1> QED BY <1>1, <1>3

(* One consumer's loop gets to another step of the same delivery.                     *)
LEMMA StepTyped ==
    ASSUME TypeInv, NEW c \in Consumers, step[c] # "idle", handling' = handling,
           NEW s \in Steps \ {"idle"}, step' = [step EXCEPT ![c] = s],
           s \in {"select", "gauge"} => ProductOf[handling[c]] \in Products
    PROVE  LoopOK'
<1>1. step' \in [Consumers -> Steps]
  BY DEF TypeInv, ClientOK, LoopOK
<1>2. \A d \in Consumers : step'[d] = IF d = c THEN s ELSE step[d]
  BY DEF TypeInv, ClientOK, LoopOK
<1> QED BY <1>1, <1>2 DEF TypeInv, ClientOK, LoopOK

LEMMA LoopTypeStep ==
    ASSUME TypeInv, NEW c \in Consumers, LoopStep(c)
    PROVE  TypeInv'
<1>1. ASSUME NEW m \in Messages, Take(c, m)
      PROVE  TypeInv'
  <2>1. held' \in [Consumers -> SUBSET Messages]
    BY <1>1 DEF Take, TypeInv, ClientOK
  <2>2. /\ handling' \in [Consumers -> Messages \cup {None}]
        /\ step' \in [Consumers -> Steps]
    BY <1>1 DEF Take, TypeInv, ClientOK, LoopOK, Steps
  <2>3. \A d \in Consumers : /\ handling'[d] = IF d = c THEN m ELSE handling[d]
                             /\ step'[d] = IF d = c THEN "update" ELSE step[d]
    BY <1>1 DEF Take, TypeInv, ClientOK, LoopOK
  <2>4. LoopOK'
    BY <2>2, <2>3, MessagesAssumption DEF TypeInv, ClientOK, LoopOK
  <2>5. newStock' = newStock /\ step[c] = "idle"
    BY <1>1 DEF Take, TypeInv, ClientOK, LoopOK
  <2>6. ReadOK'
    BY <2>3, <2>5 DEF TypeInv, ReadOK
  <2> QED BY <1>1, <2>1, <2>4, <2>6
          DEF Take, TypeInv, BrokerOK, ClientOK, TableOK, brokerVars, tableVars
<1>2. CASE Discard(c)
  <2>1. place' \in [Messages -> Places] /\ LoopOK' /\ ReadOK'
    BY <1>2, SettleTyped DEF Discard, Places
  <2> QED BY <1>2, <2>1 DEF Discard, TypeInv, BrokerOK, ClientOK, TableOK, tableVars
<1>3. CASE Update(c)
  <2>1. handling[c] \in Messages
    BY <1>3, AtWork DEF Update
  <2>2. applied' \in [Messages -> Nat] /\ stock' \in [Products -> Int]
    BY <1>3, <2>1, ApplyTyped DEF Update
  <2>3. LoopOK'
    BY <1>3, StepTyped DEF Update, Steps
  <2>4. ReadOK'
    BY <1>3 DEF Update, TypeInv, ReadOK, ClientOK, LoopOK
  <2> QED BY <1>3, <2>2, <2>3, <2>4 DEF Update, TypeInv, BrokerOK, ClientOK, TableOK, brokerVars
<1>4. CASE UpdateFails(c)
  <2>1. place' \in [Messages -> Places] /\ LoopOK' /\ ReadOK'
    BY <1>4, SettleTyped DEF UpdateFails, Places
  <2>2. handling[c] \in Messages
    BY <1>4, AtWork DEF UpdateFails
  <2>3. CASE UNCHANGED <<tableVars, unheard>>
    BY <1>4, <2>1, <2>3 DEF UpdateFails, TypeInv, BrokerOK, ClientOK, TableOK, tableVars
  <2>4. CASE Apply(handling[c]) /\ unheard' = unheard \cup ({ProductOf[handling[c]]} \cap Products)
    <3>1. applied' \in [Messages -> Nat] /\ stock' \in [Products -> Int]
      BY <2>2, <2>4, ApplyTyped
    <3> QED BY <1>4, <2>1, <2>4, <3>1 DEF UpdateFails, TypeInv, BrokerOK, ClientOK, TableOK
  <2> QED BY <1>4, <2>3, <2>4 DEF UpdateFails
<1>5. CASE SelectStock(c)
  <2>1. ProductOf[handling[c]] \in Products
    BY <1>5 DEF SelectStock, TypeInv, ClientOK, LoopOK
  <2>2. stock[ProductOf[handling[c]]] \in Int
    BY <2>1 DEF TypeInv, TableOK
  <2>3. LoopOK'
    BY <1>5, <2>1, StepTyped DEF SelectStock, Steps
  <2>4. ReadOK'
    BY <1>5, <2>2, StockAssumption DEF SelectStock, TypeInv, ReadOK, ClientOK, LoopOK
  <2> QED BY <1>5, <2>3, <2>4
          DEF SelectStock, TypeInv, BrokerOK, ClientOK, TableOK, brokerVars, tableVars
<1>6. CASE SelectFails(c)
  <2>1. ProductOf[handling[c]] \in Products
    BY <1>6 DEF SelectFails, TypeInv, ClientOK, LoopOK
  <2>2. LoopOK'
    BY <1>6, StepTyped DEF SelectFails, Steps
  <2>3. ReadOK'
    BY <1>6 DEF SelectFails, TypeInv, ReadOK, ClientOK, LoopOK
  <2> QED BY <1>6, <2>1, <2>2, <2>3
          DEF SelectFails, TypeInv, BrokerOK, ClientOK, TableOK, brokerVars, tableVars
<1>7. CASE SetGauge(c)
  <2>1. newStock[c] \in Int \cup {None}
    BY DEF TypeInv, ReadOK
  <2>2. level' \in [Consumers -> [Products -> Int \cup {None}]]
    BY <1>7, <2>1 DEF SetGauge, TypeInv, TableOK
  <2>3. LoopOK'
    BY <1>7, StepTyped DEF SetGauge, Steps
  <2>4. ReadOK'
    BY <1>7 DEF SetGauge, TypeInv, ReadOK, ClientOK, LoopOK
  <2> QED BY <1>7, <2>2, <2>3, <2>4
          DEF SetGauge, TypeInv, BrokerOK, ClientOK, TableOK, brokerVars, tableVars
<1>8. CASE Ack(c)
  <2>1. place' \in [Messages -> Places] /\ LoopOK' /\ ReadOK'
    BY <1>8, SettleTyped DEF Ack, Places
  <2> QED BY <1>8, <2>1 DEF Ack, TypeInv, BrokerOK, ClientOK, TableOK, tableVars
<1> QED BY <1>1, <1>2, <1>3, <1>4, <1>5, <1>6, <1>7, <1>8 DEF LoopStep

(* The broker, the connections and what is lost.                                  *)
LEMMA TypeStep == TypeInv /\ [Next]_vars => TypeInv'
<1> SUFFICES ASSUME TypeInv, [Next]_vars
             PROVE  TypeInv'
  OBVIOUS
<1>0. Lose => losses' \in 0 .. MaxLosses
  BY MaxLossesAssumption DEF Lose, TypeInv, TableOK
<1>1. ASSUME NEW m \in Messages, Publish(m) \/ Requeue(m)
      PROVE  TypeInv'
  <2>1. place' \in [Messages -> Places]
    BY <1>1 DEF Publish, Requeue, TypeInv, BrokerOK, Places
  <2> QED BY <1>1, <2>1 DEF Publish, Requeue, TypeInv, BrokerOK, ClientOK, LoopOK, ReadOK, TableOK,
                            clientVars, loopVars, tableVars
<1>2. ASSUME NEW m \in Messages, NEW c \in Consumers, Deliver(c, m)
      PROVE  TypeInv'
  <2>1. place' \in [Messages -> Places] /\ receiver' \in [Messages -> Consumers \cup {None}]
    BY <1>2 DEF Deliver, TypeInv, BrokerOK, Places
  <2>2. held' \in [Consumers -> SUBSET Messages]
    BY <1>2 DEF Deliver, TypeInv, ClientOK
  <2> QED BY <1>2, <2>1, <2>2
          DEF Deliver, TypeInv, BrokerOK, ClientOK, LoopOK, ReadOK, TableOK, loopVars, tableVars
<1>3. ASSUME NEW c \in Consumers, Connect(c) \/ ConnectFails(c)
      PROVE  TypeInv'
  BY <1>3 DEF Connect, ConnectFails, TypeInv, BrokerOK, ClientOK, LoopOK, ReadOK, TableOK,
              clientVars, loopVars, tableVars
<1>4. ASSUME NEW c \in Consumers, LoopStep(c)
      PROVE  TypeInv'
  BY <1>4, LoopTypeStep
<1>5. ASSUME NEW c \in Consumers, LoseConnection(c)
      PROVE  TypeInv'
  <2>1. place' \in [Messages -> Places]
    BY <1>5, OrphanedTyped DEF LoseConnection
  <2>2. held' \in [Consumers -> SUBSET Messages] /\ up' \in SUBSET Consumers
    BY <1>5 DEF LoseConnection, TypeInv, ClientOK
  <2> QED BY <1>0, <1>5, <2>1, <2>2
          DEF LoseConnection, TypeInv, BrokerOK, ClientOK, LoopOK, ReadOK, TableOK, loopVars, tableVars
<1>6. ASSUME NEW c \in Consumers, Crash(c)
      PROVE  TypeInv'
  <2>1. place' \in [Messages -> Places]
    BY <1>6, OrphanedTyped DEF Crash
  <2>2. held' \in [Consumers -> SUBSET Messages] /\ up' \in SUBSET Consumers
    BY <1>6 DEF Crash, TypeInv, ClientOK
  <2>3. LoopOK'
    BY <1>6 DEF Crash, TypeInv, ClientOK, LoopOK, Steps
  <2>4. ReadOK'
    BY <1>6 DEF Crash, TypeInv, ClientOK, LoopOK, ReadOK
  <2>5. level' \in [Consumers -> [Products -> Int \cup {None}]]
    <3>1. PICK seen \in SUBSET Products :
             level' = [level EXCEPT ![c] =
                          [p \in Products |-> IF p \in seen THEN stock[p] ELSE None]]
      BY <1>6 DEF Crash
    <3>2. [p \in Products |-> IF p \in seen THEN stock[p] ELSE None] \in [Products -> Int \cup {None}]
      BY DEF TypeInv, TableOK
    <3> QED BY <3>1, <3>2 DEF TypeInv, TableOK
  <2> QED BY <1>0, <1>6, <2>1, <2>2, <2>3, <2>4, <2>5
          DEF Crash, TypeInv, BrokerOK, ClientOK, TableOK, tableVars
<1>7. CASE BrokerRestarts
  <2>1. place' \in [Messages -> Places]
    BY <1>7, OrphanedTyped DEF BrokerRestarts, Places
  <2> QED BY <1>0, <1>7, <2>1
          DEF BrokerRestarts, TypeInv, BrokerOK, ClientOK, LoopOK, ReadOK, TableOK, loopVars, tableVars
<1>8. CASE Rest \/ UNCHANGED vars
  BY <1>8 DEF Rest, vars, brokerVars, clientVars, loopVars, tableVars, TypeInv, BrokerOK, ClientOK,
              LoopOK, ReadOK, TableOK
<1> QED BY <1>1, <1>2, <1>3, <1>4, <1>5, <1>6, <1>7, <1>8 DEF Next

LEMMA TypeInvariant == Spec => []TypeInv
BY TypeInit, TypeStep, PTL DEF Spec

(* Every reachable state of the queue, the loops, the table and the gauges is well typed.   *)
THEOREM TypeCorrect == Spec => []TypeOK
<1>1. TypeInv => TypeOK
  BY DEF TypeInv, BrokerOK, ClientOK, LoopOK, ReadOK, TableOK, TypeOK
<1> QED BY <1>1, TypeInvariant, PTL
-----------------------------------------------------------------------------
(* What has been applied stays applied: a loop past its UPDATE has committed it, and the   *)
(* queue lets go of an update only then.                                         *)
PastUpdate == {"select", "gauge", "ack"}

AppliedInv ==
    /\ \A c \in Consumers : step[c] \in PastUpdate => applied[handling[c]] > 0
    /\ \A m \in Messages : place[m] = "acked" => applied[m] > 0

AppliedGrows == \A m \in Messages : applied[m] > 0 => applied'[m] > 0

LEMMA ApplyGrows ==
    ASSUME TypeInv, NEW m \in Messages, Apply(m)
    PROVE  /\ applied'[m] = applied[m] + 1
           /\ applied'[m] > 0
           /\ \A n \in Messages \ {m} : applied'[n] = applied[n]
           /\ AppliedGrows
<1>1. \A n \in Messages : applied[n] \in Nat
  BY DEF TypeInv, TableOK
<1>2. \A n \in Messages : applied'[n] = IF n = m THEN applied[n] + 1 ELSE applied[n]
  BY DEF Apply, TypeInv, TableOK
<1> QED BY <1>1, <1>2 DEF AppliedGrows

(* Nothing new is acknowledged, and no loop gets past an UPDATE.                        *)
LEMMA AppliedKept ==
    ASSUME TypeInv, AppliedInv, AppliedGrows,
           \A m \in Messages : place'[m] = "acked" => place[m] = "acked" \/ applied[m] > 0,
           \A c \in Consumers : step'[c] \in PastUpdate =>
              step[c] \in PastUpdate /\ handling'[c] = handling[c]
    PROVE  AppliedInv'
<1>1. ASSUME NEW c \in Consumers, step'[c] \in PastUpdate
      PROVE  applied'[handling'[c]] > 0
  <2>1. step[c] \in PastUpdate /\ handling'[c] = handling[c]
    BY <1>1
  <2>2. handling[c] \in Messages
    BY <2>1, AtWork DEF PastUpdate
  <2> QED BY <2>1, <2>2 DEF AppliedInv, AppliedGrows
<1>2. ASSUME NEW m \in Messages, place'[m] = "acked"
      PROVE  applied'[m] > 0
  BY <1>2 DEF AppliedInv, AppliedGrows
<1> QED BY <1>1, <1>2 DEF AppliedInv, PastUpdate

LEMMA AppliedInit == Init => AppliedInv
BY DEF Init, AppliedInv, PastUpdate

LEMMA AppliedLoopStep ==
    ASSUME TypeInv, AppliedInv, NEW c \in Consumers, LoopStep(c)
    PROVE  AppliedInv'
<1> DEFINE NoAck == \A m \in Messages : place'[m] = "acked" => place[m] = "acked"
           NoPast == \A d \in Consumers : step'[d] \in PastUpdate =>
                        step[d] \in PastUpdate /\ handling'[d] = handling[d]
<1>1. ASSUME NEW m \in Messages, Take(c, m)
      PROVE  AppliedInv'
  <2>1. NoAck /\ AppliedGrows
    BY <1>1 DEF Take, brokerVars, tableVars, AppliedGrows
  <2>2. NoPast
    BY <1>1 DEF Take, TypeInv, ClientOK, LoopOK, PastUpdate
  <2> QED BY <2>1, <2>2, AppliedKept
<1>2. ASSUME NEW p \in {"dead", "acked"}, Settle(c, p), step[c] # "idle", AppliedGrows,
             p = "acked" => applied[handling[c]] > 0
      PROVE  AppliedInv'
  <2>1. \A m \in Messages : place'[m] = "acked" => place[m] = "acked" \/ applied[m] > 0
    BY <1>2, AtWork DEF Settle, TypeInv, BrokerOK
  <2>2. NoPast
    BY <1>2 DEF Settle, TypeInv, ClientOK, LoopOK, PastUpdate
  <2> QED BY <1>2, <2>1, <2>2, AppliedKept
<1>3. CASE Discard(c)
  <2>1. AppliedGrows
    BY <1>3 DEF Discard, tableVars, AppliedGrows
  <2> QED BY <1>2, <1>3, <2>1 DEF Discard
<1>4. CASE Ack(c)
  <2>1. AppliedGrows
    BY <1>4 DEF Ack, tableVars, AppliedGrows
  <2>2. applied[handling[c]] > 0
    BY <1>4 DEF Ack, AppliedInv, PastUpdate
  <2> QED BY <1>2, <1>4, <2>1, <2>2 DEF Ack
<1>5. CASE UpdateFails(c)
  <2>1. AppliedGrows
    <3>1. handling[c] \in Messages
      BY <1>5, AtWork DEF UpdateFails
    <3>2. CASE UNCHANGED tableVars
      BY <3>2 DEF tableVars, AppliedGrows
    <3>3. CASE Apply(handling[c])
      BY <3>1, <3>3, ApplyGrows
    <3> QED BY <1>5, <3>2, <3>3 DEF UpdateFails, tableVars
  <2> QED BY <1>2, <1>5, <2>1 DEF UpdateFails
<1>6. CASE Update(c)
  <2>1. handling[c] \in Messages /\ handling' = handling /\ place' = place
    BY <1>6, AtWork DEF Update, brokerVars
  <2>2. applied'[handling[c]] > 0 /\ AppliedGrows
    BY <1>6, <2>1, ApplyGrows DEF Update
  <2>3. \A d \in Consumers \ {c} : step'[d] = step[d]
    BY <1>6 DEF Update, TypeInv, ClientOK, LoopOK
  <2>4. \A d \in Consumers : step'[d] \in PastUpdate => applied'[handling'[d]] > 0
    BY <2>1, <2>2, <2>3, AtWork DEF AppliedInv, AppliedGrows, PastUpdate
  <2>5. \A m \in Messages : place'[m] = "acked" => applied'[m] > 0
    BY <2>1, <2>2 DEF AppliedInv, AppliedGrows
  <2> QED BY <2>4, <2>5 DEF AppliedInv, PastUpdate
<1>7. CASE SelectStock(c) \/ SelectFails(c) \/ SetGauge(c)
  <2>1. NoAck /\ AppliedGrows
    BY <1>7 DEF SelectStock, SelectFails, SetGauge, brokerVars, tableVars, AppliedGrows
  <2>2. NoPast
    BY <1>7 DEF SelectStock, SelectFails, SetGauge, TypeInv, ClientOK, LoopOK, PastUpdate
  <2> QED BY <2>1, <2>2, AppliedKept
<1> QED BY <1>1, <1>3, <1>4, <1>5, <1>6, <1>7 DEF LoopStep

LEMMA AppliedStep == TypeInv /\ AppliedInv /\ [Next]_vars => AppliedInv'
<1> SUFFICES ASSUME TypeInv, AppliedInv, [Next]_vars
             PROVE  AppliedInv'
  OBVIOUS
<1> DEFINE NoAck == \A m \in Messages : place'[m] = "acked" => place[m] = "acked"
           NoPast == \A d \in Consumers : step'[d] \in PastUpdate =>
                        step[d] \in PastUpdate /\ handling'[d] = handling[d]
<1>1. ASSUME NEW c \in Consumers, LoopStep(c)
      PROVE  AppliedInv'
  BY <1>1, AppliedLoopStep
<1>2. ASSUME applied' = applied, NoAck, NoPast
      PROVE  AppliedInv'
  <2>1. AppliedGrows
    BY <1>2 DEF AppliedGrows
  <2> QED BY <1>2, <2>1, AppliedKept
<1>3. ASSUME NEW m \in Messages, Publish(m) \/ Requeue(m) \/ \E c \in Consumers : Deliver(c, m)
      PROVE  applied' = applied /\ NoAck /\ NoPast
  BY <1>3 DEF Publish, Requeue, Deliver, clientVars, loopVars, tableVars, TypeInv, BrokerOK
<1>4. ASSUME NEW c \in Consumers, Connect(c) \/ ConnectFails(c)
      PROVE  applied' = applied /\ NoAck /\ NoPast
  BY <1>4 DEF Connect, ConnectFails, clientVars, loopVars, tableVars
<1>5. ASSUME NEW c \in Consumers, LoseConnection(c)
      PROVE  applied' = applied /\ NoAck /\ NoPast
  BY <1>5 DEF LoseConnection, Orphaned, loopVars, tableVars
<1>6. ASSUME NEW c \in Consumers, Crash(c)
      PROVE  applied' = applied /\ NoAck /\ NoPast
  <2>1. applied' = applied /\ NoAck
    BY <1>6 DEF Crash, Orphaned, tableVars
  <2>2. NoPast
    BY <1>6 DEF Crash, PastUpdate, TypeInv, ClientOK, LoopOK
  <2> QED BY <2>1, <2>2
<1>7. CASE BrokerRestarts
  <2>1. applied' = applied /\ NoAck /\ NoPast
    BY <1>7 DEF BrokerRestarts, Orphaned, loopVars, tableVars
  <2> QED BY <1>2, <2>1
<1>8. CASE Rest \/ UNCHANGED vars
  <2>1. applied' = applied /\ NoAck /\ NoPast
    BY <1>8 DEF Rest, vars, brokerVars, clientVars, loopVars, tableVars
  <2> QED BY <1>2, <2>1
<1>9. ASSUME NEW m \in Messages, Publish(m) \/ Requeue(m) \/ \E c \in Consumers : Deliver(c, m)
      PROVE  AppliedInv'
  BY <1>2, <1>3, <1>9
<1>10. ASSUME NEW c \in Consumers, Connect(c) \/ ConnectFails(c) \/ LoseConnection(c) \/ Crash(c)
       PROVE  AppliedInv'
  BY <1>2, <1>4, <1>5, <1>6, <1>10
<1> HIDE DEF NoAck, NoPast
<1> QED BY <1>1, <1>7, <1>8, <1>9, <1>10 DEF Next

-----------------------------------------------------------------------------
(* Of one message and one consumer: what RabbitMQ counts as delivered is in the consumer's *)
(* hands, in its buffer or with its loop, on the connection that stands.              *)
Hands(c, m) ==
    /\ (place[m] = "delivered" /\ receiver[m] = c)
          <=> (c \in up /\ (m \in held[c] \/ m = handling[c]))
    /\ m = handling[c] => m \notin held[c]

HandsInv == \A c \in Consumers, m \in Messages : Hands(c, m)

LEMMA HandsInit == Init => HandsInv
BY DEF Init, HandsInv, Hands

(* Steps that touch neither a delivered message nor a consumer's hands.                   *)
LEMMA HandsKept ==
    ASSUME HandsInv, UNCHANGED <<held, handling, up, receiver>>,
           \A m \in Messages : (place'[m] = "delivered") <=> (place[m] = "delivered")
    PROVE  HandsInv'
BY DEF HandsInv, Hands

(* The loop of c lets go of its delivery.                                              *)
LEMMA HandsLetGo ==
    ASSUME TypeInv, HandsInv, NEW c \in Consumers, handling[c] \in Messages,
           NEW p \in {"acked", "dead"}, Settle(c, p), UNCHANGED <<receiver, up, held>>
    PROVE  HandsInv'
<1> SUFFICES ASSUME NEW d \in Consumers, NEW m \in Messages
             PROVE  Hands(d, m)'
  BY DEF HandsInv
<1>1. handling'[d] = IF d = c THEN None ELSE handling[d]
  BY DEF Settle, TypeInv, ClientOK, LoopOK
<1>2. place'[m] = IF c \in up /\ m = handling[c] THEN p ELSE place[m]
  BY DEF Settle, TypeInv, BrokerOK
<1>3. m # None /\ Hands(d, m) /\ Hands(c, m)
  BY MessagesAssumption DEF HandsInv
<1> QED BY <1>1, <1>2, <1>3 DEF Hands

LEMMA HandsLoopStep ==
    ASSUME TypeInv, HandsInv, NEW c \in Consumers, LoopStep(c)
    PROVE  HandsInv'
<1>1. ASSUME NEW n \in Messages, Take(c, n)
      PROVE  HandsInv'
  <2> SUFFICES ASSUME NEW d \in Consumers, NEW m \in Messages
               PROVE  Hands(d, m)'
    BY DEF HandsInv
  <2>1. UNCHANGED <<place, receiver, up>>
    BY <1>1 DEF Take, brokerVars
  <2>2. d # c => held'[d] = held[d] /\ handling'[d] = handling[d]
    BY <1>1 DEF Take, TypeInv, ClientOK, LoopOK
  <2>3. held'[c] = held[c] \ {n} /\ handling'[c] = n /\ n \in held[c] /\ handling[c] = None
    BY <1>1 DEF Take, TypeInv, ClientOK, LoopOK
  <2>4. m # None /\ Hands(d, m) /\ Hands(d, n)
    BY MessagesAssumption DEF HandsInv
  <2> QED BY <2>1, <2>2, <2>3, <2>4 DEF Hands
<1>2. CASE Discard(c) \/ UpdateFails(c)
  <2>1. handling[c] \in Messages
    BY <1>2, AtWork DEF Discard, UpdateFails
  <2>2. Settle(c, "dead") /\ UNCHANGED <<receiver, up, held>>
    BY <1>2 DEF Discard, UpdateFails
  <2> QED BY <2>1, <2>2, HandsLetGo
<1>3. CASE Ack(c)
  <2>1. handling[c] \in Messages
    BY <1>3, AtWork DEF Ack
  <2>2. Settle(c, "acked") /\ UNCHANGED <<receiver, up, held>>
    BY <1>3 DEF Ack
  <2> QED BY <2>1, <2>2, HandsLetGo
<1>4. CASE Update(c) \/ SelectStock(c) \/ SelectFails(c) \/ SetGauge(c)
  BY <1>4, HandsKept DEF Update, SelectStock, SelectFails, SetGauge, brokerVars
<1> QED BY <1>1, <1>2, <1>3, <1>4 DEF LoopStep

LEMMA HandsStep == TypeInv /\ HandsInv /\ [Next]_vars => HandsInv'
<1> SUFFICES ASSUME TypeInv, HandsInv, [Next]_vars
             PROVE  HandsInv'
  OBVIOUS
<1>1. ASSUME NEW m \in Messages, Publish(m) \/ Requeue(m)
      PROVE  HandsInv'
  <2>1. \A n \in Messages : (place'[n] = "delivered") <=> (place[n] = "delivered")
    BY <1>1 DEF Publish, Requeue, TypeInv, BrokerOK
  <2> QED BY <1>1, <2>1, HandsKept DEF Publish, Requeue, clientVars, loopVars
<1>2. ASSUME NEW n \in Messages, NEW c \in Consumers, Deliver(c, n)
      PROVE  HandsInv'
  <2> SUFFICES ASSUME NEW d \in Consumers, NEW m \in Messages
               PROVE  Hands(d, m)'
    BY DEF HandsInv
  <2>1. UNCHANGED <<up, handling>> /\ c \in up /\ place[n] = "ready"
    BY <1>2 DEF Deliver, loopVars
  <2>2. held'[d] = IF d = c THEN held[d] \cup {n} ELSE held[d]
    BY <1>2 DEF Deliver, TypeInv, ClientOK
  <2>3. /\ place'[m] = IF m = n THEN "delivered" ELSE place[m]
        /\ receiver'[m] = IF m = n THEN c ELSE receiver[m]
    BY <1>2 DEF Deliver, TypeInv, BrokerOK
  <2>4. Hands(d, m) /\ Hands(c, m)
    BY DEF HandsInv
  <2> QED BY <2>1, <2>2, <2>3, <2>4 DEF Hands
<1>3. ASSUME NEW c \in Consumers, Connect(c)
      PROVE  HandsInv'
  <2> SUFFICES ASSUME NEW d \in Consumers, NEW m \in Messages
               PROVE  Hands(d, m)'
    BY DEF HandsInv
  <2>1. UNCHANGED <<place, receiver, held, handling>> /\ held[c] = {} /\ handling[c] = None
    BY <1>3 DEF Connect, loopVars
  <2>2. up' = up \cup {c}
    BY <1>3 DEF Connect
  <2>3. m # None /\ Hands(d, m)
    BY MessagesAssumption DEF HandsInv
  <2> QED BY <2>1, <2>2, <2>3 DEF Hands
<1>4. ASSUME NEW c \in Consumers, ConnectFails(c)
      PROVE  HandsInv'
  BY <1>4, HandsKept DEF ConnectFails, clientVars, loopVars
<1>5. ASSUME NEW c \in Consumers, LoopStep(c)
      PROVE  HandsInv'
  BY <1>5, HandsLoopStep
<1>6. ASSUME NEW c \in Consumers, LoseConnection(c) \/ Crash(c)
      PROVE  HandsInv'
  <2> SUFFICES ASSUME NEW d \in Consumers, NEW m \in Messages
               PROVE  Hands(d, m)'
    BY DEF HandsInv
  <2>1. up' = up \ {c}
    BY <1>6 DEF LoseConnection, Crash
  <2>2. /\ d # c => held'[d] = held[d] /\ handling'[d] = handling[d]
        /\ held'[c] \subseteq held[c] /\ handling'[c] \in {handling[c], None}
    <3>1. CASE LoseConnection(c)
      <4>1. PICK kept \in SUBSET held[c] : held' = [held EXCEPT ![c] = kept]
        BY <3>1 DEF LoseConnection
      <4> QED BY <3>1, <4>1 DEF LoseConnection, loopVars, TypeInv, ClientOK
    <3>2. CASE Crash(c)
      BY <3>2 DEF Crash, TypeInv, ClientOK, LoopOK
    <3> QED BY <1>6, <3>1, <3>2
  <2>3. /\ receiver' = receiver
        /\ place'[m] = IF place[m] = "delivered" /\ receiver[m] = c THEN "limbo" ELSE place[m]
    BY <1>6 DEF LoseConnection, Crash, Orphaned
  <2>4. m # None /\ Hands(d, m) /\ Hands(c, m)
    BY MessagesAssumption DEF HandsInv
  <2> QED BY <2>1, <2>2, <2>3, <2>4 DEF Hands
<1>7. CASE BrokerRestarts
  <2> SUFFICES ASSUME NEW d \in Consumers, NEW m \in Messages
               PROVE  Hands(d, m)'
    BY DEF HandsInv
  <2>1. up' = {} /\ UNCHANGED <<receiver, held, handling>>
    BY <1>7 DEF BrokerRestarts, loopVars
  <2>2. ~ (place'[m] = "delivered" /\ receiver[m] = d)
    BY <1>7 DEF BrokerRestarts, Orphaned
  <2>3. Hands(d, m)
    BY DEF HandsInv
  <2> QED BY <2>1, <2>2, <2>3 DEF Hands
<1>8. CASE Rest \/ UNCHANGED vars
  BY <1>8, HandsKept DEF Rest, vars, brokerVars, clientVars, loopVars
<1> QED BY <1>1, <1>2, <1>3, <1>4, <1>5, <1>6, <1>7, <1>8 DEF Next

LEMMA HandsInvariant == Spec => []HandsInv
BY HandsInit, HandsStep, TypeInvariant, PTL DEF Spec
-----------------------------------------------------------------------------
(* How often an update is applied.  It will be once more for each consumer that still has   *)
(* it in hand before its UPDATE, and once more if the broker will deliver it again; that    *)
(* sum grows only with a loss.                                                   *)
Working(m) == {c \in Consumers : m \in held[c] \/ (m = handling[c] /\ step[c] = "update")}

Queued == {"unpublished", "ready", "limbo"}

Waiting(m) == IF place[m] \in Queued THEN 1 ELSE 0

CopiesInv == \A m \in Messages : applied[m] + Cardinality(Working(m)) + Waiting(m) <= 1 + losses

AppliedBounded == \A m \in Messages : applied[m] <= 1 + losses

(* Counting consumers.                                                            *)
LEMMA Counting ==
    ASSUME NEW S \in SUBSET Consumers, NEW T \in SUBSET Consumers
    PROVE  /\ Cardinality(S) \in Nat
           /\ Cardinality(T) \in Nat
           /\ T \subseteq S => Cardinality(T) <= Cardinality(S)
           /\ \A c \in Consumers : T \subseteq S \cup {c} => Cardinality(T) <= Cardinality(S) + 1
           /\ \A c \in S : T \subseteq S \ {c} => Cardinality(T) <= Cardinality(S) - 1
<1>1. IsFiniteSet(S) /\ IsFiniteSet(T)
  BY ConsumersAssumption, FS_Subset
<1>2. Cardinality(S) \in Nat /\ Cardinality(T) \in Nat
  BY <1>1, FS_CardinalityType
<1>3. T \subseteq S => Cardinality(T) <= Cardinality(S)
  BY <1>1, FS_Subset
<1>4. ASSUME NEW c \in Consumers, T \subseteq S \cup {c}
      PROVE  Cardinality(T) <= Cardinality(S) + 1
  <2>1. IsFiniteSet(S \cup {c}) /\ Cardinality(S \cup {c}) \in {Cardinality(S), Cardinality(S) + 1}
    BY <1>1, FS_AddElement
  <2>2. Cardinality(T) <= Cardinality(S \cup {c})
    BY <1>4, <2>1, FS_Subset
  <2> QED BY <1>2, <2>1, <2>2
<1>5. ASSUME NEW c \in S, T \subseteq S \ {c}
      PROVE  Cardinality(T) <= Cardinality(S) - 1
  <2>1. IsFiniteSet(S \ {c}) /\ Cardinality(S \ {c}) = Cardinality(S) - 1
    BY <1>1, FS_RemoveElement
  <2>2. Cardinality(T) <= Cardinality(S \ {c})
    BY <1>5, <2>1, FS_Subset
  <2> QED BY <2>1, <2>2
<1> QED BY <1>2, <1>3, <1>4, <1>5

(* The ways a step may change the copies of m: they become fewer or something is lost, the   *)
(* broker delivers it, or a consumer applies it.                                     *)
LEMMA CopiesStep ==
    ASSUME TypeInv, TypeInv', CopiesInv, NEW m \in Messages,
           \/ /\ applied'[m] = applied[m] /\ Working(m)' \subseteq Working(m)
              /\ \/ Waiting(m)' <= Waiting(m) /\ losses' = losses
                 \/ losses' = losses + 1
           \/ /\ applied'[m] = applied[m] /\ losses' = losses
              /\ \E c \in Consumers : Working(m)' \subseteq Working(m) \cup {c}
              /\ Waiting(m) = 1 /\ Waiting(m)' = 0
           \/ /\ applied'[m] = applied[m] + 1 /\ losses' = losses
              /\ \E c \in Working(m) : Working(m)' \subseteq Working(m) \ {c}
              /\ Waiting(m)' <= Waiting(m)
    PROVE  applied'[m] + Cardinality(Working(m)') + Waiting(m)' <= 1 + losses'
<1> DEFINE S == Working(m)
           T == Working(m)'
           w == Waiting(m)
           x == Waiting(m)'
<1>1. S \in SUBSET Consumers /\ T \in SUBSET Consumers
  BY DEF Working
<1>2. w \in {0, 1} /\ x \in {0, 1}
  BY DEF Waiting
<1>3. applied[m] \in Nat /\ applied'[m] \in Nat /\ losses \in Nat /\ losses' \in Nat
  BY MaxLossesAssumption DEF TypeInv, TableOK
<1>4. applied[m] + Cardinality(S) + w <= 1 + losses
  BY DEF CopiesInv
<1> HIDE DEF S, T, w, x
<1>5. /\ Cardinality(S) \in Nat
      /\ Cardinality(T) \in Nat
      /\ T \subseteq S => Cardinality(T) <= Cardinality(S)
      /\ \A c \in Consumers : T \subseteq S \cup {c} => Cardinality(T) <= Cardinality(S) + 1
      /\ \A c \in S : T \subseteq S \ {c} => Cardinality(T) <= Cardinality(S) - 1
  BY <1>1, Counting
<1>6. \/ /\ applied'[m] = applied[m] /\ T \subseteq S
         /\ \/ x <= w /\ losses' = losses
            \/ losses' = losses + 1
      \/ /\ applied'[m] = applied[m] /\ losses' = losses
         /\ \E c \in Consumers : T \subseteq S \cup {c}
         /\ w = 1 /\ x = 0
      \/ /\ applied'[m] = applied[m] + 1 /\ losses' = losses
         /\ \E c \in S : T \subseteq S \ {c}
         /\ x <= w
  BY DEF S, T, w, x
<1>7. applied'[m] + Cardinality(T) + x <= 1 + losses'
  BY <1>2, <1>3, <1>4, <1>5, <1>6
<1> QED BY <1>7 DEF T, x

(* A step that loses nothing, applies nothing and puts nothing back into the queue.         *)
LEMMA CopiesKept ==
    ASSUME TypeInv, TypeInv', CopiesInv, UNCHANGED <<applied, losses>>,
           \A m \in Messages : place'[m] \in Queued => place[m] \in Queued,
           \A m \in Messages : Working(m)' \subseteq Working(m)
    PROVE  CopiesInv'
<1> SUFFICES ASSUME NEW m \in Messages
             PROVE  applied'[m] + Cardinality(Working(m)') + Waiting(m)' <= 1 + losses'
  BY DEF CopiesInv
<1>1. Waiting(m)' <= Waiting(m)
  BY DEF Waiting, Queued
<1> QED BY <1>1, CopiesStep

(* The loop of c applies its delivery, and keeps it or gives it up.                        *)
LEMMA CopiesApplied ==
    ASSUME TypeInv, TypeInv', HandsInv, CopiesInv, NEW c \in Consumers, step[c] = "update",
           Apply(handling[c]), UNCHANGED <<held, losses>>, step'[c] # "update",
           \A d \in Consumers \ {c} : handling'[d] = handling[d] /\ step'[d] = step[d],
           \A m \in Messages : place'[m] \in Queued => place[m] \in Queued
    PROVE  CopiesInv'
<1> SUFFICES ASSUME NEW m \in Messages
             PROVE  applied'[m] + Cardinality(Working(m)') + Waiting(m)' <= 1 + losses'
  BY DEF CopiesInv
<1>1. Waiting(m)' <= Waiting(m)
  BY DEF Waiting, Queued
<1>2. handling[c] \in Messages
  BY AtWork
<1>3. Working(m)' \subseteq Working(m)
  BY DEF Working
<1>4. CASE m # handling[c]
  <2>1. applied'[m] = applied[m]
    BY <1>2, <1>4, ApplyGrows
  <2> QED BY <1>1, <1>3, <2>1, CopiesStep
<1>5. CASE m = handling[c]
  <2>1. applied'[m] = applied[m] + 1
    BY <1>5, ApplyGrows
  <2>2. m \notin held[c]
    BY <1>5 DEF HandsInv, Hands
  <2>3. c \in Working(m) /\ Working(m)' \subseteq Working(m) \ {c}
    BY <1>3, <1>5, <2>2 DEF Working
  <2> QED BY <1>1, <2>1, <2>3, CopiesStep
<1> QED BY <1>4, <1>5

LEMMA CopiesInit == Init => CopiesInv
<1> SUFFICES ASSUME Init, NEW m \in Messages
             PROVE  applied[m] + Cardinality(Working(m)) + Waiting(m) <= 1 + losses
  BY DEF CopiesInv
<1>1. Working(m) = {}
  BY DEF Init, Working
<1>2. Cardinality(Working(m)) = 0
  BY <1>1, FS_EmptySet
<1>3. applied[m] = 0 /\ Waiting(m) = 1 /\ losses = 0
  BY DEF Init, Waiting, Queued
<1> QED BY <1>2, <1>3

LEMMA CopiesLoopStep ==
    ASSUME TypeInv, TypeInv', HandsInv, CopiesInv, NEW c \in Consumers, LoopStep(c)
    PROVE  CopiesInv'
<1>1. ASSUME NEW n \in Messages, Take(c, n)
      PROVE  CopiesInv'
  <2>1. UNCHANGED <<place, applied, losses>>
    BY <1>1 DEF Take, brokerVars, tableVars
  <2>2. \A d \in Consumers :
           /\ d # c => held'[d] = held[d] /\ handling'[d] = handling[d] /\ step'[d] = step[d]
           /\ d = c => held'[d] = held[d] \ {n} /\ handling'[d] = n /\ n \in held[d]
    BY <1>1 DEF Take, TypeInv, ClientOK, LoopOK
  <2>3. \A m \in Messages : Working(m)' \subseteq Working(m)
    BY <2>2 DEF Working
  <2> QED BY <2>1, <2>3, CopiesKept
<1>2. ASSUME NEW p \in {"dead", "acked"}, Settle(c, p), step[c] # "idle"
      PROVE  /\ \A d \in Consumers \ {c} : handling'[d] = handling[d] /\ step'[d] = step[d]
             /\ step'[c] = "idle"
             /\ \A m \in Messages : place'[m] \in Queued => place[m] \in Queued
  BY <1>2 DEF Settle, TypeInv, BrokerOK, ClientOK, LoopOK, Queued
<1>3. CASE Discard(c) \/ Ack(c) \/ (UpdateFails(c) /\ UNCHANGED tableVars)
  <2>1. UNCHANGED <<held, applied, losses>>
    BY <1>3 DEF Discard, Ack, UpdateFails, tableVars
  <2>2. /\ \A d \in Consumers \ {c} : handling'[d] = handling[d] /\ step'[d] = step[d]
        /\ step'[c] = "idle"
        /\ \A m \in Messages : place'[m] \in Queued => place[m] \in Queued
    BY <1>2, <1>3 DEF Discard, Ack, UpdateFails
  <2>3. \A m \in Messages : Working(m)' \subseteq Working(m)
    BY <2>1, <2>2 DEF Working
  <2> QED BY <2>1, <2>2, <2>3, CopiesKept
<1>4. CASE UpdateFails(c) /\ Apply(handling[c])
  <2>1. /\ \A d \in Consumers \ {c} : handling'[d] = handling[d] /\ step'[d] = step[d]
        /\ step'[c] = "idle"
        /\ \A m \in Messages : place'[m] \in Queued => place[m] \in Queued
    BY <1>2, <1>4 DEF UpdateFails
  <2> QED BY <1>4, <2>1, CopiesApplied DEF UpdateFails
<1>5. CASE Update(c)
  <2>1. /\ \A d \in Consumers \ {c} : handling'[d] = handling[d] /\ step'[d] = step[d]
        /\ step'[c] # "update"
        /\ place' = place
    BY <1>5 DEF Update, TypeInv, ClientOK, LoopOK, brokerVars
  <2> QED BY <1>5, <2>1, CopiesApplied DEF Update
<1>6. CASE SelectStock(c) \/ SelectFails(c) \/ SetGauge(c)
  <2>1. UNCHANGED <<held, handling, place, applied, losses>>
    BY <1>6 DEF SelectStock, SelectFails, SetGauge, brokerVars, tableVars
  <2>2. \A d \in Consumers : step'[d] = "update" => step[d] = "update"
    BY <1>6 DEF SelectStock, SelectFails, SetGauge, TypeInv, ClientOK, LoopOK
  <2>3. \A m \in Messages : Working(m)' \subseteq Working(m)
    BY <2>1, <2>2 DEF Working
  <2> QED BY <2>1, <2>3, CopiesKept
<1>7. UpdateFails(c) => UNCHANGED tableVars \/ Apply(handling[c])
  BY DEF UpdateFails, tableVars
<1> QED BY <1>1, <1>3, <1>4, <1>5, <1>6, <1>7 DEF LoopStep

LEMMA CopiesNextStep ==
    TypeInv /\ TypeInv' /\ HandsInv /\ CopiesInv /\ [Next]_vars => CopiesInv'
<1> SUFFICES ASSUME TypeInv, TypeInv', HandsInv, CopiesInv, [Next]_vars
             PROVE  CopiesInv'
  OBVIOUS
<1>1. ASSUME NEW n \in Messages, Publish(n) \/ Requeue(n)
      PROVE  CopiesInv'
  <2>1. UNCHANGED <<held, handling, step, applied, losses>>
    BY <1>1 DEF Publish, Requeue, clientVars, loopVars, tableVars
  <2>2. \A m \in Messages : place'[m] \in Queued => place[m] \in Queued
    BY <1>1 DEF Publish, Requeue, TypeInv, BrokerOK, Queued
  <2>3. \A m \in Messages : Working(m)' \subseteq Working(m)
    BY <2>1 DEF Working
  <2> QED BY <2>1, <2>2, <2>3, CopiesKept
<1>2. ASSUME NEW n \in Messages, NEW c \in Consumers, Deliver(c, n)
      PROVE  CopiesInv'
  <2> SUFFICES ASSUME NEW m \in Messages
               PROVE  applied'[m] + Cardinality(Working(m)') + Waiting(m)' <= 1 + losses'
    BY DEF CopiesInv
  <2>1. UNCHANGED <<handling, step, applied, losses>>
    BY <1>2 DEF Deliver, loopVars, tableVars
  <2>2. \A d \in Consumers : held'[d] = IF d = c THEN held[d] \cup {n} ELSE held[d]
    BY <1>2 DEF Deliver, TypeInv, ClientOK
  <2>3. place[n] = "ready" /\ place'[m] = IF m = n THEN "delivered" ELSE place[m]
    BY <1>2 DEF Deliver, TypeInv, BrokerOK
  <2>4. CASE m = n
    <3>1. Waiting(m) = 1 /\ Waiting(m)' = 0
      BY <2>3, <2>4 DEF Waiting, Queued
    <3>2. Working(m)' \subseteq Working(m) \cup {c}
      BY <2>1, <2>2, <2>4 DEF Working
    <3> QED BY <2>1, <3>1, <3>2, CopiesStep
  <2>5. CASE m # n
    <3>1. Waiting(m)' <= Waiting(m)
      BY <2>3, <2>5 DEF Waiting
    <3>2. Working(m)' \subseteq Working(m)
      BY <2>1, <2>2, <2>5 DEF Working
    <3> QED BY <2>1, <3>1, <3>2, CopiesStep
  <2> QED BY <2>4, <2>5
<1>3. ASSUME NEW c \in Consumers, Connect(c) \/ ConnectFails(c)
      PROVE  CopiesInv'
  <2>1. UNCHANGED <<held, handling, step, place, applied, losses>>
    BY <1>3 DEF Connect, ConnectFails, clientVars, loopVars, tableVars
  <2>2. \A m \in Messages : Working(m)' \subseteq Working(m)
    BY <2>1 DEF Working
  <2> QED BY <2>1, <2>2, CopiesKept
<1>4. ASSUME NEW c \in Consumers, LoopStep(c)
      PROVE  CopiesInv'
  BY <1>4, CopiesLoopStep
<1>5. ASSUME applied' = applied, losses' = losses + 1,
             \A d \in Consumers : /\ held'[d] \subseteq held[d]
                                  /\ \/ handling'[d] = handling[d] /\ step'[d] = step[d]
                                     \/ handling'[d] = None
      PROVE  CopiesInv'
  <2> SUFFICES ASSUME NEW m \in Messages
               PROVE  applied'[m] + Cardinality(Working(m)') + Waiting(m)' <= 1 + losses'
    BY DEF CopiesInv
  <2>1. Working(m)' \subseteq Working(m)
    BY <1>5, MessagesAssumption DEF Working
  <2> QED BY <1>5, <2>1, CopiesStep
<1>6. ASSUME NEW c \in Consumers, LoseConnection(c)
      PROVE  CopiesInv'
  <2>1. PICK kept \in SUBSET held[c] : held' = [held EXCEPT ![c] = kept]
    BY <1>6 DEF LoseConnection
  <2>2. \A d \in Consumers : held'[d] \subseteq held[d]
    BY <2>1 DEF TypeInv, ClientOK
  <2> QED BY <1>5, <1>6, <2>2 DEF LoseConnection, Lose, loopVars, tableVars
<1>7. ASSUME NEW c \in Consumers, Crash(c)
      PROVE  CopiesInv'
  <2>1. \A d \in Consumers : /\ held'[d] \subseteq held[d]
                             /\ \/ handling'[d] = handling[d] /\ step'[d] = step[d]
                                \/ handling'[d] = None
    BY <1>7 DEF Crash, TypeInv, ClientOK, LoopOK
  <2> QED BY <1>5, <1>7, <2>1 DEF Crash, Lose, tableVars
<1>8. CASE BrokerRestarts
  BY <1>5, <1>8 DEF BrokerRestarts, Lose, loopVars, tableVars
<1>9. CASE Rest \/ UNCHANGED vars
  <2>1. UNCHANGED <<held, handling, step, place, applied, losses>>
    BY <1>9 DEF Rest, vars, brokerVars, clientVars, loopVars, tableVars
  <2>2. \A m \in Messages : Working(m)' \subseteq Working(m)
    BY <2>1 DEF Working
  <2> QED BY <2>1, <2>2, CopiesKept
<1> QED BY <1>1, <1>2, <1>3, <1>4, <1>6, <1>7, <1>8, <1>9 DEF Next

LEMMA CopiesMean ==
    ASSUME TypeInv, CopiesInv
    PROVE  /\ AppliedBounded
           /\ \A m \in Messages, c \in Consumers : c \in Working(m) => applied[m] <= losses
<1> SUFFICES ASSUME NEW m \in Messages
             PROVE  /\ applied[m] <= 1 + losses
                    /\ Working(m) # {} => applied[m] <= losses
  BY DEF AppliedBounded
<1> DEFINE S == Working(m)
           w == Waiting(m)
<1>1. applied[m] + Cardinality(S) + w <= 1 + losses
  BY DEF CopiesInv
<1>2. S \in SUBSET Consumers /\ w \in {0, 1}
  BY DEF Working, Waiting
<1>3. applied[m] \in Nat /\ losses \in Nat
  BY MaxLossesAssumption DEF TypeInv, TableOK
<1> HIDE DEF S, w
<1>4. Cardinality(S) \in Nat
  BY <1>2, Counting
<1>5. S # {} => Cardinality(S) # 0
  BY <1>2, ConsumersAssumption, FS_Subset, FS_EmptySet
<1>6. applied[m] <= 1 + losses /\ (S # {} => applied[m] <= losses)
  BY <1>1, <1>2, <1>3, <1>4, <1>5
<1> QED BY <1>6 DEF S

LEMMA CopiesInvariant == Spec => []CopiesInv
BY CopiesInit, CopiesNextStep, TypeInvariant, HandsInvariant, PTL DEF Spec
-----------------------------------------------------------------------------
(* The replicas together implement AtLeastOnce: what follows says which of its steps      *)
(* each step of InventoryConsumer is.                                           *)
Fates == [m \in Messages |-> FateAt(place[m])]

Stuttering == UNCHANGED <<Fates, applied, losses>>

(* What is left when the broker has dropped some of what it kept.                       *)
Dropping(dropped) ==
    [m \in Messages |-> IF m \in dropped /\ Fates[m] \in {"queued", "dead"} THEN "gone"
                       ELSE Fates[m]]

(* One message moves, to a place with another fate or not.                              *)
LEMMA FateMoves ==
    ASSUME TypeInv, NEW m \in Messages, NEW p, place' = [place EXCEPT ![m] = p]
    PROVE  Fates' = [Fates EXCEPT ![m] = FateAt(p)]
BY DEF Fates, TypeInv, BrokerOK

LEMMA OrphansKeepFate ==
    ASSUME TypeInv, NEW lost, place' = Orphaned(lost)
    PROVE  Fates' = Fates
BY DEF Fates, TypeInv, BrokerOK, Orphaned, FateAt

(* A message a consumer works on has been published.                                   *)
Published == \A c \in Consumers, m \in Messages :
                 m \in held[c] \/ m = handling[c] => place[m] # "unpublished"

LEMMA PublishedStep == TypeInv /\ Published /\ [Next]_vars => Published'
<1> SUFFICES ASSUME TypeInv, Published, [Next]_vars
             PROVE  Published'
  OBVIOUS
<1> DEFINE Stays == \A m \in Messages : place[m] # "unpublished" => place'[m] # "unpublished"
           NoNew == \A c \in Consumers, m \in Messages :
                       m \in held'[c] \/ m = handling'[c] => m \in held[c] \/ m = handling[c]
<1>0. ASSUME Stays, NoNew
      PROVE  Published'
  BY <1>0 DEF Published
<1>1. Stays
  <2> USE DEF TypeInv, BrokerOK
  <2>1. ASSUME NEW m \in Messages, Publish(m) \/ Requeue(m) \/ \E c \in Consumers : Deliver(c, m)
        PROVE  Stays
    BY <2>1 DEF Publish, Requeue, Deliver
  <2>2. ASSUME NEW c \in Consumers, LoopStep(c)
        PROVE  Stays
    BY <2>2 DEF LoopStep, Take, Discard, Update, UpdateFails, SelectStock, SelectFails, SetGauge,
                Ack, Settle, brokerVars
  <2>3. ASSUME NEW c \in Consumers,
               Connect(c) \/ ConnectFails(c) \/ LoseConnection(c) \/ Crash(c)
        PROVE  Stays
    BY <2>3 DEF Connect, ConnectFails, LoseConnection, Crash, Orphaned
  <2>4. CASE BrokerRestarts
    BY <2>4 DEF BrokerRestarts, Orphaned
  <2>5. CASE Rest \/ UNCHANGED vars
    BY <2>5 DEF Rest, vars, brokerVars
  <2> QED BY <2>1, <2>2, <2>3, <2>4, <2>5 DEF Next
<1>2. ASSUME NEW c \in Consumers, NEW m \in Messages, Deliver(c, m)
      PROVE  Published'
  <2>1. \A d \in Consumers, n \in Messages :
            n \in held'[d] \/ n = handling'[d] => n = m \/ n \in held[d] \/ n = handling[d]
    BY <1>2 DEF Deliver, TypeInv, ClientOK, loopVars
  <2>2. place'[m] = "delivered"
    BY <1>2 DEF Deliver, TypeInv, BrokerOK
  <2> QED BY <1>1, <2>1, <2>2 DEF Published
<1>3. ASSUME NEW m \in Messages, Publish(m) \/ Requeue(m)
      PROVE  NoNew
  BY <1>3 DEF Publish, Requeue, clientVars, loopVars
<1>4. ASSUME NEW c \in Consumers,
             Connect(c) \/ ConnectFails(c) \/ LoopStep(c) \/ LoseConnection(c) \/ Crash(c)
      PROVE  NoNew
  <2> USE MessagesAssumption DEF TypeInv, ClientOK, LoopOK
  <2>1. CASE Connect(c) \/ ConnectFails(c) \/ Update(c) \/ SelectStock(c) \/ SelectFails(c)
             \/ SetGauge(c)
    BY <2>1 DEF Connect, ConnectFails, Update, SelectStock, SelectFails, SetGauge, clientVars,
                loopVars
  <2>2. CASE Discard(c) \/ UpdateFails(c) \/ Ack(c)
    BY <2>2 DEF Discard, UpdateFails, Ack, Settle
  <2>3. ASSUME NEW m \in Messages, Take(c, m)
        PROVE  NoNew
    BY <2>3 DEF Take
  <2>4. CASE LoseConnection(c)
    BY <2>4 DEF LoseConnection, loopVars
  <2>5. CASE Crash(c)
    BY <2>5 DEF Crash
  <2> QED BY <1>4, <2>1, <2>2, <2>3, <2>4, <2>5 DEF LoopStep
<1>5. ASSUME BrokerRestarts \/ Rest \/ UNCHANGED vars
      PROVE  NoNew
  BY <1>5 DEF BrokerRestarts, Rest, vars, clientVars, loopVars
<1>6. ASSUME NEW m \in Messages, Publish(m) \/ Requeue(m) \/ \E c \in Consumers : Deliver(c, m)
      PROVE  Published'
  BY <1>0, <1>1, <1>2, <1>3, <1>6
<1>7. ASSUME NEW c \in Consumers,
             Connect(c) \/ ConnectFails(c) \/ LoopStep(c) \/ LoseConnection(c) \/ Crash(c)
      PROVE  Published'
  BY <1>7, <1>0, <1>1, <1>4
<1>8. CASE BrokerRestarts \/ Rest \/ UNCHANGED vars
  BY <1>8, <1>0, <1>1, <1>5
<1> HIDE DEF Stays, NoNew
<1> QED BY <1>6, <1>7, <1>8 DEF Next

(* The queue, the connections and what is lost.                                       *)
LEMMA DeliveryBrokerStep ==
    ASSUME TypeInv,
           \/ \E m \in Messages : Publish(m) \/ Requeue(m) \/ \E c \in Consumers : Deliver(c, m)
           \/ \E c \in Consumers : Connect(c) \/ ConnectFails(c) \/ LoseConnection(c) \/ Crash(c)
           \/ BrokerRestarts
    PROVE  Delivery!Next \/ Stuttering
<1>1. ASSUME NEW m \in Messages, Publish(m)
      PROVE  Delivery!Publish(m)
  <2>1. PICK p \in {"ready", "gone"} : place' = [place EXCEPT ![m] = p]
    BY <1>1 DEF Publish
  <2>2. Fates[m] = "new" /\ UNCHANGED <<applied, losses>>
    BY <1>1 DEF Publish, Fates, FateAt, tableVars
  <2>3. FateAt(p) \in {"queued", "gone"}
    BY DEF FateAt
  <2> QED BY <2>1, <2>2, <2>3, FateMoves DEF Delivery!Publish, Fates
<1>2. ASSUME NEW m \in Messages, Requeue(m) \/ \E c \in Consumers : Deliver(c, m)
      PROVE  Stuttering
  <2>1. PICK p \in {"ready", "delivered"} : place' = [place EXCEPT ![m] = p]
    BY <1>2 DEF Requeue, Deliver
  <2>2. FateAt(p) = FateAt(place[m]) /\ UNCHANGED <<applied, losses>>
    BY <1>2 DEF Requeue, Deliver, FateAt, tableVars
  <2>3. Fates' = [Fates EXCEPT ![m] = Fates[m]]
    BY <2>1, <2>2, FateMoves DEF Fates
  <2> QED BY <2>2, <2>3 DEF Stuttering, Fates
<1>3. ASSUME NEW c \in Consumers, Connect(c) \/ ConnectFails(c)
      PROVE  Stuttering
  BY <1>3 DEF Connect, ConnectFails, Stuttering, Fates, tableVars
<1>4. ASSUME NEW c \in Consumers, LoseConnection(c) \/ Crash(c)
      PROVE  Delivery!Lose
  <2>1. Fates' = Fates
    BY <1>4, OrphansKeepFate DEF LoseConnection, Crash
  <2>2. losses < MaxLosses /\ losses' = losses + 1 /\ applied' = applied
    BY <1>4 DEF LoseConnection, Crash, Lose, tableVars
  <2>3. Fates' = Dropping({})
    BY <2>1 DEF Dropping, Fates
  <2>4. \E dropped \in SUBSET Messages : Fates' = Dropping(dropped)
    BY <2>3
  <2> QED BY <2>2, <2>4 DEF Delivery!Lose, Fates, Dropping
<1>5. CASE BrokerRestarts
  <2>1. Fates' = Dropping(Transient)
    BY <1>5 DEF BrokerRestarts, Orphaned, Dropping, Fates, FateAt, TypeInv, BrokerOK, Places
  <2>2. losses < MaxLosses /\ losses' = losses + 1 /\ applied' = applied
    BY <1>5 DEF BrokerRestarts, Lose, tableVars
  <2> QED BY <2>1, <2>2, SubsetsAssumption DEF Delivery!Lose, Delivery!Next, Fates, Dropping
<1> QED BY <1>1, <1>2, <1>3, <1>4, <1>5 DEF Delivery!Next

(* The loop of c gives its delivery up or is done with it.                             *)
LEMMA SettleIsStep ==
    ASSUME TypeInv, HandsInv, NEW c \in Consumers, handling[c] \in Messages,
           NEW p \in {"acked", "dead"}, Settle(c, p)
    PROVE  \/ Fates' = Fates
           \/ /\ Fates[handling[c]] = "queued"
              /\ Fates' = [Fates EXCEPT ![handling[c]] = p]
<1>1. CASE c \in up
  <2>1. place' = [place EXCEPT ![handling[c]] = p]
    BY <1>1 DEF Settle
  <2>2. FateAt(p) = p
    BY DEF FateAt
  <2>3. Fates' = [Fates EXCEPT ![handling[c]] = FateAt(p)]
    BY <2>1, FateMoves
  <2>4. Fates' = [Fates EXCEPT ![handling[c]] = p]
    BY <2>2, <2>3
  <2>5. Fates[handling[c]] = "queued"
    BY <1>1 DEF HandsInv, Hands, Fates, FateAt
  <2> QED BY <2>4, <2>5
<1>2. CASE c \notin up
  BY <1>2 DEF Settle, Fates
<1> QED BY <1>1, <1>2

LEMMA DeliveryLoopStep ==
    ASSUME TypeInv, HandsInv, CopiesInv, Published, AppliedInv, NEW c \in Consumers, LoopStep(c)
    PROVE  Delivery!Next \/ Stuttering
<1> DEFINE m == handling[c]
<1>1. CASE (\E n \in Messages : Take(c, n)) \/ SelectStock(c) \/ SelectFails(c) \/ SetGauge(c)
  BY <1>1 DEF Take, SelectStock, SelectFails, SetGauge, Stuttering, Fates, brokerVars, tableVars
<1>2. ASSUME step[c] = "update", Apply(m)
      PROVE  /\ m \in Messages
             /\ applied' = [applied EXCEPT ![m] = @ + 1]
             /\ applied[m] <= losses
             /\ Fates[m] # "new"
  <2>1. m \in Messages
    BY <1>2, AtWork
  <2>2. c \in Working(m)
    BY <1>2 DEF Working
  <2>3. applied[m] <= losses
    BY <2>1, <2>2, CopiesMean
  <2>4. Fates[m] # "new"
    BY <2>1 DEF Fates, FateAt, Published, TypeInv, BrokerOK, Places
  <2> QED BY <1>2, <2>1, <2>3, <2>4 DEF Apply
<1>3. CASE Update(c)
  <2>1. Fates' = Fates /\ losses' = losses
    BY <1>3 DEF Update, Fates, brokerVars
  <2>2. /\ m \in Messages
        /\ applied' = [applied EXCEPT ![m] = @ + 1]
        /\ applied[m] <= losses
        /\ Fates[m] # "new"
    BY <1>2, <1>3 DEF Update
  <2> HIDE DEF m
  <2> QED BY <2>1, <2>2 DEF Delivery!Next, Delivery!Work, Fates
<1>4. CASE Discard(c) \/ (UpdateFails(c) /\ UNCHANGED tableVars)
  <2>1. m \in Messages /\ UNCHANGED <<applied, losses>>
    BY <1>4, AtWork DEF Discard, UpdateFails, tableVars
  <2>2. \/ Fates' = Fates
        \/ Fates[m] = "queued" /\ Fates' = [Fates EXCEPT ![m] = "dead"]
    BY <1>4, <2>1, SettleIsStep DEF Discard, UpdateFails
  <2> HIDE DEF m
  <2> QED BY <2>1, <2>2 DEF Delivery!Next, Delivery!Reject, Stuttering, Fates
<1>5. CASE UpdateFails(c) /\ Apply(m)
  <2>1. /\ m \in Messages
        /\ applied' = [applied EXCEPT ![m] = @ + 1]
        /\ applied[m] <= losses
        /\ Fates[m] # "new"
    BY <1>2, <1>5 DEF UpdateFails
  <2>2. losses' = losses
    BY <1>5 DEF UpdateFails
  <2>3. \/ Fates' = Fates
        \/ Fates[m] = "queued" /\ Fates' = [Fates EXCEPT ![m] = "dead"]
    BY <1>5, <2>1, SettleIsStep DEF UpdateFails
  <2> HIDE DEF m
  <2> QED BY <2>1, <2>2, <2>3 DEF Delivery!Next, Delivery!Work, Fates
<1>6. CASE Ack(c)
  <2>1. m \in Messages /\ UNCHANGED <<applied, losses>>
    BY <1>6, AtWork DEF Ack, tableVars
  <2>2. applied[m] > 0
    BY <1>6 DEF Ack, AppliedInv, PastUpdate
  <2>3. \/ Fates' = Fates
        \/ Fates[m] = "queued" /\ Fates' = [Fates EXCEPT ![m] = "acked"]
    BY <1>6, <2>1, SettleIsStep DEF Ack
  <2> HIDE DEF m
  <2> QED BY <2>1, <2>2, <2>3 DEF Delivery!Next, Delivery!Acknowledge, Stuttering, Fates
<1>7. UpdateFails(c) => UNCHANGED tableVars \/ Apply(m)
  BY DEF UpdateFails, tableVars
<1> QED BY <1>1, <1>3, <1>4, <1>5, <1>6, <1>7 DEF LoopStep

LEMMA DeliveryStep ==
    TypeInv /\ HandsInv /\ CopiesInv /\ Published /\ AppliedInv /\ [Next]_vars
        => [Delivery!Next]_(Delivery!vars)
<1> SUFFICES ASSUME TypeInv, HandsInv, CopiesInv, Published, AppliedInv, [Next]_vars
             PROVE  Delivery!Next \/ Stuttering
  BY DEF Stuttering, Delivery!vars, Fates
<1>1. CASE Rest \/ UNCHANGED vars
  BY <1>1 DEF Rest, vars, brokerVars, tableVars, Stuttering, Fates
<1> QED BY <1>1, DeliveryBrokerStep, DeliveryLoopStep DEF Next

(* The queue and any number of replicas, with connections, processes and the broker lost at   *)
(* any point, apply each update at least once before they acknowledge it and again only      *)
(* after a loss.                                                                *)
THEOREM ImplementsAtLeastOnce == Spec => UpdatesAtLeastOnce
<1>1. Init => Delivery!Init
  BY DEF Init, Delivery!Init, FateAt
<1>2. Init => Published
  BY MessagesAssumption DEF Init, Published
<1>3. Spec => [](TypeInv /\ HandsInv /\ CopiesInv)
  BY TypeInvariant, HandsInvariant, CopiesInvariant, PTL
<1>4. Spec => [](AppliedInv /\ Published)
  BY <1>2, TypeInvariant, AppliedInit, AppliedStep, PublishedStep, PTL DEF Spec
<1> QED BY <1>1, <1>3, <1>4, DeliveryStep, PTL DEF Spec, UpdatesAtLeastOnce, Delivery!Spec
-----------------------------------------------------------------------------
(* As long as nothing is lost, whoever has deliveries has the connection they came by.       *)
ConnectedInv == losses = 0 => \A c \in Consumers : held[c] # {} \/ handling[c] # None => c \in up

LEMMA LossCounts ==
    ASSUME TypeInv, BrokerRestarts \/ \E c \in Consumers : LoseConnection(c) \/ Crash(c)
    PROVE  losses' # 0
<1>1. losses' = losses + 1
  BY DEF BrokerRestarts, LoseConnection, Crash, Lose
<1>2. losses \in Nat
  BY MaxLossesAssumption DEF TypeInv, TableOK
<1> QED BY <1>1, <1>2

LEMMA ConnectedStep == TypeInv /\ ConnectedInv /\ [Next]_vars => ConnectedInv'
<1> SUFFICES ASSUME TypeInv, ConnectedInv, [Next]_vars
             PROVE  ConnectedInv'
  OBVIOUS
<1> USE DEF ConnectedInv
<1>1. ASSUME NEW m \in Messages, Publish(m) \/ Requeue(m) \/ \E c \in Consumers : Deliver(c, m)
      PROVE  ConnectedInv'
  BY <1>1 DEF Publish, Requeue, Deliver, clientVars, loopVars, TypeInv, ClientOK
<1>2. ASSUME NEW c \in Consumers, Connect(c) \/ ConnectFails(c)
      PROVE  ConnectedInv'
  BY <1>2 DEF Connect, ConnectFails, clientVars, loopVars
<1>3. ASSUME NEW c \in Consumers, LoopStep(c)
      PROVE  ConnectedInv'
  <2>1. ASSUME NEW m \in Messages, Take(c, m)
        PROVE  ConnectedInv'
    BY <2>1 DEF Take, TypeInv, ClientOK, LoopOK
  <2>2. CASE Discard(c) \/ UpdateFails(c) \/ Ack(c)
    BY <2>2 DEF Discard, UpdateFails, Ack, Settle, TypeInv, ClientOK, LoopOK
  <2>3. CASE Update(c) \/ SelectStock(c) \/ SelectFails(c) \/ SetGauge(c)
    BY <2>3 DEF Update, SelectStock, SelectFails, SetGauge
  <2> QED BY <1>3, <2>1, <2>2, <2>3 DEF LoopStep
<1>4. ASSUME BrokerRestarts \/ \E c \in Consumers : LoseConnection(c) \/ Crash(c)
      PROVE  ConnectedInv'
  <2>1. losses' # 0
    BY <1>4, LossCounts
  <2> QED BY <2>1
<1>5. CASE Rest \/ UNCHANGED vars
  BY <1>5 DEF Rest, vars, clientVars, loopVars
<1> QED BY <1>1, <1>2, <1>3, <1>4, <1>5 DEF Next

-----------------------------------------------------------------------------
(* The sum of StockAccounted: the updates of p that count.                               *)
CountedOf(p) == {m \in Messages : ProductOf[m] = p /\ Counted(m)}

TotalChange(S) == SumFunctionOnSet(ChangeOf, S)

LEMMA TotalAdds ==
    ASSUME NEW S \in SUBSET Messages, NEW m \in Messages \ S
    PROVE  TotalChange(S) \in Int /\ TotalChange(S \cup {m}) = TotalChange(S) + ChangeOf[m]
<1> DEFINE T == S \cup {m}
<1>1. IsFiniteSet(S) /\ IsFiniteSet(T) /\ \A n \in T : ChangeOf[n] \in Int
  BY MessagesAssumption, ChangeAssumption, FS_Subset
<1>2. TotalChange(S) \in Int
  BY <1>1, SumIsInt DEF TotalChange
<1>3. m \in T /\ T \ {m} = S
  OBVIOUS
<1>4. SumFunctionOnSet(ChangeOf, T) = ChangeOf[m] + SumFunctionOnSet(ChangeOf, T \ {m})
  BY <1>1, <1>3, SumSplit
<1> HIDE DEF T
<1>5. TotalChange(T) = ChangeOf[m] + TotalChange(S)
  BY <1>3, <1>4 DEF TotalChange
<1>6. ChangeOf[m] \in Int
  BY ChangeAssumption
<1> QED BY <1>2, <1>5, <1>6 DEF T

LEMMA AccountedMeans ==
    StockAccounted <=>
        (losses = 0 => \A p \in Products \ unheard : stock[p] = InitStock[p] + TotalChange(CountedOf(p)))
BY DEF StockAccounted, TotalChange, CountedOf

(* While nothing is lost, an update that a loop has yet to apply does not count.            *)
LEMMA UncountedYet ==
    ASSUME TypeInv, CopiesInv, AppliedInv, losses = 0, NEW c \in Consumers, step[c] = "update"
    PROVE  handling[c] \in Messages /\ ~ Counted(handling[c])
<1>1. handling[c] \in Messages /\ c \in Working(handling[c])
  BY AtWork DEF Working
<1>2. applied[handling[c]] <= 0
  BY <1>1, CopiesMean
<1>3. ~ (applied[handling[c]] > 0)
  BY <1>1, <1>2 DEF TypeInv, TableOK
<1> QED BY <1>1, <1>3 DEF Counted, AppliedInv, PastUpdate

(* Nothing changes that StockAccounted is about, except that products become unheard.       *)
LEMMA AccountedKept ==
    ASSUME TypeInv, StockAccounted, losses' = losses, unheard \subseteq unheard',
           \A p \in Products \ unheard' : stock'[p] = stock[p],
           \A m \in Messages : Counted(m)' <=> Counted(m)
    PROVE  StockAccounted'
<1>1. \A p \in Products : CountedOf(p)' = CountedOf(p)
  BY DEF CountedOf
<1> QED BY <1>1 DEF StockAccounted, CountedOf

LEMMA AccountedLoopStep ==
    ASSUME TypeInv, HandsInv, CopiesInv, AppliedInv, ConnectedInv, StockAccounted, losses = 0,
           NEW c \in Consumers, LoopStep(c)
    PROVE  StockAccounted'
<1> DEFINE Same == \A m \in Messages : Counted(m)' <=> Counted(m)
           h == handling[c]
<1>1. ASSUME NEW n \in Messages, Take(c, n)
      PROVE  StockAccounted'
  <2>1. UNCHANGED <<place, stock, unheard, losses>>
    BY <1>1 DEF Take, brokerVars, tableVars
  <2>2. \A d \in Consumers : /\ d # c => handling'[d] = handling[d] /\ step'[d] = step[d]
                             /\ d = c => step'[d] = "update" /\ step[d] = "idle"
    BY <1>1 DEF Take, TypeInv, ClientOK, LoopOK
  <2>3. Same
    BY <2>1, <2>2 DEF Counted
  <2> QED BY <2>1, <2>3, AccountedKept
<1>2. CASE Discard(c) \/ UpdateFails(c)
  <2>1. step[c] = "update" /\ Settle(c, "dead") /\ losses' = losses
    BY <1>2 DEF Discard, UpdateFails
  <2>2. h \in Messages /\ ~ Counted(h)
    BY <2>1, UncountedYet
  <2>3. \A d \in Consumers : /\ d # c => handling'[d] = handling[d] /\ step'[d] = step[d]
                             /\ d = c => step'[d] = "idle"
    BY <2>1 DEF Settle, TypeInv, ClientOK, LoopOK
  <2>4. \A m \in Messages : (place'[m] = "acked") <=> (place[m] = "acked")
    BY <2>1, <2>2 DEF Settle, TypeInv, BrokerOK, Counted
  <2>5. Same
    BY <2>1, <2>3, <2>4 DEF Counted
  <2>6. unheard \subseteq unheard' /\ \A p \in Products \ unheard' : stock'[p] = stock[p]
    <3>1. CASE UNCHANGED <<tableVars, unheard>>
      BY <3>1 DEF tableVars
    <3>2. CASE Apply(h) /\ unheard' = unheard \cup ({ProductOf[h]} \cap Products)
      BY <3>2 DEF Apply, TypeInv, TableOK
    <3> QED BY <1>2, <3>1, <3>2 DEF Discard, UpdateFails
  <2> HIDE DEF Same
  <2>7. \A m \in Messages : Counted(m)' <=> Counted(m)
    BY <2>5 DEF Same
  <2> QED BY <2>1, <2>6, <2>7, AccountedKept
<1>3. CASE Update(c)
  <2>1. h \in Messages /\ ~ Counted(h)
    BY <1>3, UncountedYet DEF Update
  <2>2. UNCHANGED <<place, handling, unheard, losses>>
    BY <1>3 DEF Update, brokerVars
  <2>3. \A d \in Consumers : /\ d # c => step'[d] = step[d]
                             /\ d = c => step'[d] \in {"select", "ack"} /\ step[d] = "update"
    BY <1>3 DEF Update, TypeInv, ClientOK, LoopOK
  <2>4. \A m \in Messages : Counted(m)' <=> Counted(m) \/ m = h
    BY <2>1, <2>2, <2>3 DEF Counted
  <2>5. ASSUME NEW p \in Products \ unheard
        PROVE  stock'[p] = InitStock[p] + TotalChange(CountedOf(p)')
    <3>1. stock[p] = InitStock[p] + TotalChange(CountedOf(p))
      BY AccountedMeans
    <3>2. CASE ProductOf[h] = p
      <4>1. CountedOf(p)' = CountedOf(p) \cup {h} /\ h \notin CountedOf(p)
        BY <2>1, <2>4, <3>2 DEF CountedOf
      <4>2. CountedOf(p) \in SUBSET Messages
        BY DEF CountedOf
      <4>3. /\ TotalChange(CountedOf(p)) \in Int
            /\ TotalChange(CountedOf(p)') = TotalChange(CountedOf(p)) + ChangeOf[h]
        BY <2>1, <4>1, <4>2, TotalAdds
      <4>4. stock'[p] = stock[p] + ChangeOf[h]
        BY <1>3, <3>2 DEF Update, Apply, TypeInv, TableOK
      <4>5. InitStock[p] \in Int /\ ChangeOf[h] \in Int
        BY <2>1, StockAssumption, ChangeAssumption
      <4> DEFINE t == TotalChange(CountedOf(p))
                 u == TotalChange(CountedOf(p)')
      <4> HIDE DEF t, u
      <4>6. stock[p] = InitStock[p] + t /\ t \in Int /\ u = t + ChangeOf[h]
        BY <3>1, <4>3 DEF t, u
      <4>7. stock'[p] = InitStock[p] + u
        BY <4>4, <4>5, <4>6
      <4> QED BY <4>7 DEF u
    <3>3. CASE ProductOf[h] # p
      <4>1. CountedOf(p)' = CountedOf(p)
        BY <2>4, <3>3 DEF CountedOf
      <4>2. stock'[p] = stock[p]
        BY <1>3, <3>3 DEF Update, Apply, TypeInv, TableOK
      <4> QED BY <3>1, <4>1, <4>2
    <3> QED BY <3>2, <3>3
  <2>6. \A p \in Products \ unheard' : stock'[p] = InitStock[p] + TotalChange(CountedOf(p)')
    BY <2>2, <2>5
  <2> QED BY <2>6 DEF StockAccounted, TotalChange, CountedOf
<1>4. CASE SelectStock(c) \/ SelectFails(c) \/ SetGauge(c)
  <2>1. UNCHANGED <<place, handling, stock, losses>> /\ unheard \subseteq unheard'
    BY <1>4 DEF SelectStock, SelectFails, SetGauge, brokerVars, tableVars
  <2>2. \A d \in Consumers : \/ step'[d] = step[d]
                             \/ step[d] \in PastUpdate /\ step'[d] \in PastUpdate
    BY <1>4 DEF SelectStock, SelectFails, SetGauge, TypeInv, ClientOK, LoopOK, PastUpdate
  <2>3. Same
    BY <2>1, <2>2 DEF Counted, PastUpdate
  <2> QED BY <2>1, <2>3, AccountedKept
<1>5. CASE Ack(c)
  <2>1. h \in Messages /\ h # None /\ UNCHANGED <<stock, unheard, losses>> /\ step[c] = "ack"
    BY <1>5, AtWork DEF Ack, tableVars
  <2>2. c \in up
    BY <2>1 DEF ConnectedInv
  <2>3. \A m \in Messages : place'[m] = IF m = h THEN "acked" ELSE place[m]
    BY <1>5, <2>1, <2>2 DEF Ack, Settle, TypeInv, BrokerOK
  <2>4. \A d \in Consumers : /\ d # c => handling'[d] = handling[d] /\ step'[d] = step[d]
                             /\ d = c => step'[d] = "idle"
    BY <1>5 DEF Ack, Settle, TypeInv, ClientOK, LoopOK
  <2>5. Same
    BY <2>1, <2>3, <2>4 DEF Counted
  <2> QED BY <2>1, <2>5, AccountedKept
<1> QED BY <1>1, <1>2, <1>3, <1>4, <1>5 DEF LoopStep

LEMMA AccountedStep ==
    TypeInv /\ HandsInv /\ CopiesInv /\ AppliedInv /\ ConnectedInv /\ StockAccounted /\ [Next]_vars
        => StockAccounted'
<1> SUFFICES ASSUME TypeInv, HandsInv, CopiesInv, AppliedInv, ConnectedInv, StockAccounted,
                    [Next]_vars
             PROVE  StockAccounted'
  OBVIOUS
<1> DEFINE Still == /\ UNCHANGED <<stock, unheard, losses>>
                    /\ \A m \in Messages : Counted(m)' <=> Counted(m)
<1>1. ASSUME Still
      PROVE  StockAccounted'
  BY <1>1, AccountedKept
<1>2. ASSUME NEW m \in Messages, Publish(m) \/ Requeue(m) \/ \E c \in Consumers : Deliver(c, m)
      PROVE  Still
  <2>1. \A n \in Messages : (place'[n] = "acked") <=> (place[n] = "acked")
    BY <1>2 DEF Publish, Requeue, Deliver, TypeInv, BrokerOK
  <2>2. UNCHANGED <<handling, step, stock, unheard, losses>>
    BY <1>2 DEF Publish, Requeue, Deliver, clientVars, loopVars, tableVars
  <2> QED BY <2>1, <2>2 DEF Counted
<1>3. ASSUME NEW c \in Consumers, Connect(c) \/ ConnectFails(c)
      PROVE  Still
  BY <1>3 DEF Connect, ConnectFails, clientVars, loopVars, tableVars, Counted
<1>4. ASSUME NEW c \in Consumers, LoopStep(c)
      PROVE  StockAccounted'
  <2>1. losses' = losses
    BY <1>4 DEF LoopStep, Take, Discard, Update, UpdateFails, SelectStock, SelectFails, SetGauge, Ack
  <2>2. CASE losses = 0
    BY <1>4, <2>2, AccountedLoopStep
  <2>3. CASE losses # 0
    BY <2>1, <2>3 DEF StockAccounted
  <2> QED BY <2>2, <2>3
<1>5. ASSUME BrokerRestarts \/ \E c \in Consumers : LoseConnection(c) \/ Crash(c)
      PROVE  StockAccounted'
  <2>1. losses' # 0
    BY <1>5, LossCounts
  <2> QED BY <2>1 DEF StockAccounted
<1>6. ASSUME Rest \/ UNCHANGED vars
      PROVE  Still
  BY <1>6 DEF Rest, vars, brokerVars, clientVars, loopVars, tableVars, Counted
<1> HIDE DEF Still
<1> QED BY <1>1, <1>2, <1>3, <1>4, <1>5, <1>6 DEF Next

LEMMA AccountedInit == Init => StockAccounted
<1> SUFFICES ASSUME Init, NEW p \in Products
             PROVE  stock[p] = InitStock[p] + TotalChange(CountedOf(p))
  BY AccountedMeans
<1>1. CountedOf(p) = {}
  BY DEF Init, CountedOf, Counted
<1>2. TotalChange({}) = 0
  BY SumOfNone DEF TotalChange
<1>3. stock[p] = InitStock[p] /\ InitStock[p] \in Int
  BY StockAssumption DEF Init
<1> QED BY <1>1, <1>2, <1>3

(* While nothing is lost and every answer arrives, the table and the queue agree: a product's   *)
(* stock is what it was at the start, with each update that counts added once, for any      *)
(* number of updates, products and replicas and in any order of their statements.          *)
THEOREM StockAgreesWithQueue == Spec => []StockAccounted
<1>1. Init => ConnectedInv
  BY DEF Init, ConnectedInv
<1>2. Spec => [](TypeInv /\ HandsInv /\ CopiesInv)
  BY TypeInvariant, HandsInvariant, CopiesInvariant, PTL
<1>3. Spec => [](AppliedInv /\ ConnectedInv)
  BY <1>1, TypeInvariant, AppliedInit, AppliedStep, ConnectedStep, PTL DEF Spec
<1> QED BY <1>2, <1>3, AccountedInit, AccountedStep, PTL DEF Spec

-----------------------------------------------------------------------------
(* Some replica is right about p, or about to be: its gauge shows the stock, unless it is    *)
(* between its own UPDATE of p and the gauge, where it has still to read the stock, or has   *)
(* read it as it is now.                                                       *)
Right(c, p) ==
    CASE step[c] = "select" /\ ProductOf[handling[c]] = p -> TRUE
      [] step[c] = "gauge" /\ ProductOf[handling[c]] = p -> newStock[c] = stock[p]
      [] OTHER -> level[c][p] = stock[p]

GaugeInv == losses = 0 => \A p \in Products \ unheard : \E c \in Consumers : Right(c, p)

LEMMA GaugeInit == Init => GaugeInv
<1> SUFFICES ASSUME Init, NEW p \in Products
             PROVE  \E c \in Consumers : Right(c, p)
  BY DEF GaugeInv
<1>1. PICK c \in Consumers : TRUE
  BY ConsumersAssumption
<1>2. Right(c, p)
  BY DEF Init, Right
<1> QED BY <1>2

(* It is enough that each replica that was right still is.                                *)
LEMMA GaugeKept ==
    ASSUME GaugeInv, losses' = losses, unheard \subseteq unheard',
           \A p \in Products \ unheard', c \in Consumers : Right(c, p) => Right(c, p)'
    PROVE  GaugeInv'
BY DEF GaugeInv

(* What is right stays so when nobody writes the table or c's gauge, and c's loop does not   *)
(* come from or get to the two steps before it.                                       *)
LEMMA RightKept ==
    ASSUME NEW c \in Consumers, NEW p \in Products, Right(c, p),
           stock'[p] = stock[p], level'[c] = level[c], newStock'[c] = newStock[c],
           \/ step'[c] = step[c] /\ handling'[c] = handling[c]
           \/ {step[c], step'[c]} \cap {"select", "gauge"} = {}
    PROVE  Right(c, p)'
BY DEF Right

LEMMA GaugeLoopStep ==
    ASSUME TypeInv, GaugeInv, NEW c \in Consumers, LoopStep(c)
    PROVE  GaugeInv'
<1>1. ASSUME NEW n \in Messages, Take(c, n)
      PROVE  GaugeInv'
  <2>1. UNCHANGED <<stock, level, newStock, unheard, losses>>
    BY <1>1 DEF Take, tableVars
  <2>2. \A d \in Consumers : \/ step'[d] = step[d] /\ handling'[d] = handling[d]
                             \/ {step[d], step'[d]} \cap {"select", "gauge"} = {}
    BY <1>1 DEF Take, TypeInv, ClientOK, LoopOK
  <2>3. \A p \in Products, d \in Consumers : Right(d, p) => Right(d, p)'
    BY <2>1, <2>2, RightKept
  <2> QED BY <2>1, <2>3, GaugeKept
<1>2. CASE Discard(c) \/ UpdateFails(c) \/ Ack(c)
  <2>1. /\ UNCHANGED <<level, newStock, losses>>
        /\ unheard \subseteq unheard'
        /\ \A p \in Products \ unheard' : stock'[p] = stock[p]
    <3>1. CASE UNCHANGED <<tableVars, unheard>>
      BY <1>2, <3>1 DEF Discard, UpdateFails, Ack, tableVars
    <3>2. CASE /\ UpdateFails(c) /\ Apply(handling[c])
               /\ unheard' = unheard \cup ({ProductOf[handling[c]]} \cap Products)
      BY <3>2 DEF UpdateFails, Apply, TypeInv, TableOK
    <3> QED BY <1>2, <3>1, <3>2 DEF Discard, UpdateFails, Ack
  <2>2. \A d \in Consumers : \/ step'[d] = step[d] /\ handling'[d] = handling[d]
                             \/ {step[d], step'[d]} \cap {"select", "gauge"} = {}
    BY <1>2 DEF Discard, UpdateFails, Ack, Settle, TypeInv, ClientOK, LoopOK
  <2>3. \A p \in Products \ unheard', d \in Consumers : Right(d, p) => Right(d, p)'
    BY <2>1, <2>2, RightKept
  <2> QED BY <2>1, <2>3, GaugeKept
<1>3. CASE Update(c)
  <2>1. UNCHANGED <<handling, level, newStock, unheard, losses>>
    BY <1>3 DEF Update
  <2>2. \A d \in Consumers \ {c} : step'[d] = step[d]
    BY <1>3 DEF Update, TypeInv, ClientOK, LoopOK
  <2>3. /\ step[c] = "update"
        /\ step'[c] = IF ProductOf[handling[c]] \in Products THEN "select" ELSE "ack"
    BY <1>3 DEF Update, TypeInv, ClientOK, LoopOK
  <2>4. ASSUME NEW p \in Products, ProductOf[handling[c]] = p
        PROVE  Right(c, p)'
    BY <2>1, <2>3, <2>4 DEF Right
  <2>5. ASSUME NEW p \in Products, ProductOf[handling[c]] # p, NEW d \in Consumers, Right(d, p)
        PROVE  Right(d, p)'
    <3>1. stock'[p] = stock[p]
      BY <1>3, <2>5 DEF Update, Apply, TypeInv, TableOK
    <3>2. CASE d # c
      BY <2>1, <2>2, <2>5, <3>1, <3>2, RightKept
    <3>3. CASE d = c
      BY <2>1, <2>3, <2>5, <3>1, <3>3 DEF Right
    <3> QED BY <3>2, <3>3
  <2>6. \A p \in Products : (\E d \in Consumers : Right(d, p)) => \E d \in Consumers : Right(d, p)'
    BY <2>4, <2>5
  <2> QED BY <2>1, <2>6 DEF GaugeInv
<1>4. CASE SelectStock(c) \/ SelectFails(c) \/ SetGauge(c)
  <2>1. UNCHANGED <<handling, stock, losses>> /\ unheard \subseteq unheard'
    BY <1>4 DEF SelectStock, SelectFails, SetGauge, tableVars
  <2>2. ASSUME NEW p \in Products \ unheard', NEW d \in Consumers \ {c}, Right(d, p)
        PROVE  Right(d, p)'
    <3>1. step'[d] = step[d] /\ newStock'[d] = newStock[d] /\ level'[d] = level[d]
      BY <1>4 DEF SelectStock, SelectFails, SetGauge, TypeInv, ClientOK, LoopOK, ReadOK, TableOK
    <3> QED BY <2>1, <2>2, <3>1, RightKept
  <2>3. ASSUME NEW p \in Products \ unheard', Right(c, p)
        PROVE  Right(c, p)'
    <3>1. CASE SelectStock(c)
      <4>1. /\ step[c] = "select" /\ step'[c] = "gauge" /\ level' = level
            /\ newStock'[c] = stock[ProductOf[handling[c]]]
        BY <3>1 DEF SelectStock, TypeInv, ClientOK, LoopOK, ReadOK
      <4> QED BY <2>1, <2>3, <4>1 DEF Right
    <3>2. CASE SelectFails(c)
      <4>1. step[c] = "select" /\ step'[c] = "ack" /\ level' = level
        BY <3>2 DEF SelectFails, TypeInv, ClientOK, LoopOK
      <4>2. ProductOf[handling[c]] # p
        BY <3>2 DEF SelectFails
      <4> QED BY <2>1, <2>3, <4>1, <4>2 DEF Right
    <3>3. CASE SetGauge(c)
      <4>1. step[c] = "gauge" /\ step'[c] = "ack"
        BY <3>3 DEF SetGauge, TypeInv, ClientOK, LoopOK
      <4>2. level'[c][p] = IF p = ProductOf[handling[c]] THEN newStock[c] ELSE level[c][p]
        BY <3>3 DEF SetGauge, TypeInv, TableOK
      <4> QED BY <2>1, <2>3, <4>1, <4>2 DEF Right
    <3> QED BY <1>4, <3>1, <3>2, <3>3
  <2> QED BY <2>1, <2>2, <2>3, GaugeKept
<1> QED BY <1>1, <1>2, <1>3, <1>4 DEF LoopStep

LEMMA GaugeStep == TypeInv /\ GaugeInv /\ [Next]_vars => GaugeInv'
<1> SUFFICES ASSUME TypeInv, GaugeInv, [Next]_vars
             PROVE  GaugeInv'
  OBVIOUS
<1> DEFINE Still == UNCHANGED <<handling, step, newStock, stock, level, unheard, losses>>
<1>1. ASSUME Still
      PROVE  GaugeInv'
  BY <1>1 DEF GaugeInv, Right
<1>2. ASSUME NEW m \in Messages, Publish(m) \/ Requeue(m) \/ \E c \in Consumers : Deliver(c, m)
      PROVE  Still
  BY <1>2 DEF Publish, Requeue, Deliver, clientVars, loopVars, tableVars
<1>3. ASSUME NEW c \in Consumers, Connect(c) \/ ConnectFails(c)
      PROVE  Still
  BY <1>3 DEF Connect, ConnectFails, clientVars, loopVars, tableVars
<1>4. ASSUME NEW c \in Consumers, LoopStep(c)
      PROVE  GaugeInv'
  BY <1>4, GaugeLoopStep
<1>5. ASSUME BrokerRestarts \/ \E c \in Consumers : LoseConnection(c) \/ Crash(c)
      PROVE  GaugeInv'
  <2>1. losses' # 0
    BY <1>5, LossCounts
  <2> QED BY <2>1 DEF GaugeInv
<1>6. ASSUME Rest \/ UNCHANGED vars
      PROVE  Still
  BY <1>6 DEF Rest, vars, clientVars, loopVars, tableVars
<1> HIDE DEF Still
<1> QED BY <1>1, <1>2, <1>3, <1>4, <1>5, <1>6 DEF Next

(* While nothing is lost, and once the loops are idle, some replica's gauge shows the stock of  *)
(* each product whose updates were all read back, however the statements of the replicas were   *)
(* interleaved.                                                                *)
THEOREM SomeGaugeIsCurrent == Spec => []SomeGaugeCurrent
<1>1. Spec => [](TypeInv /\ GaugeInv)
  BY GaugeInit, GaugeStep, TypeInvariant, PTL DEF Spec
<1>2. TypeInv /\ GaugeInv => SomeGaugeCurrent
  <2> SUFFICES ASSUME TypeInv, GaugeInv, losses = 0, \A c \in Consumers : handling[c] = None,
                      NEW p \in Products \ unheard
               PROVE  \E c \in Consumers : level[c][p] = stock[p]
    BY DEF SomeGaugeCurrent
  <2>1. PICK c \in Consumers : Right(c, p)
    BY DEF GaugeInv
  <2>2. step[c] = "idle"
    BY DEF TypeInv, ClientOK, LoopOK
  <2> QED BY <2>1, <2>2 DEF Right
<1> QED BY <1>1, <1>2, PTL
=============================================================================
