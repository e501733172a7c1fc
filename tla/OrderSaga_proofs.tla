-------------------------- MODULE OrderSaga_proofs --------------------------
(***************************************************************************)
(* What OrderSaga guarantees for every set of requests, whatever their        *)
(* items, for every stock, bulkhead capacity and number of attempts.          *)
(*                                                                          *)
(* A step of the saga's control and a step of a job meet in two operators,     *)
(* CallSucceeds and CallFails: what those do is stated once, in ControlKept,    *)
(* and used for every action that reacts with one of them.                     *)
(***************************************************************************)
EXTENDS OrderSaga, FiniteSetTheorems, SequenceTheorems, SumTheorems, TLAPS

USE LimitsAssumption, SendsAssumption

LEMMA ItemFacts ==
    ASSUME NEW s \in Sagas
    PROVE  /\ MaxItems \in Nat
           /\ Len(Items[s]) \in 0 .. MaxItems
           /\ Pos(s) \subseteq 1 .. MaxItems
           /\ \A i \in Pos(s) : ProductOf(s, i) \in Products /\ QuantityOf(s, i) \in Int
<1>1. Items[s] \in Seq([product : Products, quantity : Int])
  BY ItemsAssumption
<1>2. Len(Items[s]) \in Nat /\ Len(Items[s]) <= MaxItems
  BY <1>1, ItemsAssumption
<1>3. \A i \in 1 .. Len(Items[s]) : Items[s][i] \in [product : Products, quantity : Int]
  BY <1>1, ElementOfSeq
<1> QED
  BY <1>2, <1>3, ItemsAssumption DEF Pos, ProductOf, QuantityOf

(* The control of a saga: its types and where its loops are.                  *)
ControlInv == SagaTypeOK /\ LoopInv

(* A reaction to the end of a call.                                          *)
Reacts(s) == CallSucceeds(s) \/ AttemptFails(s)

(* The other sagas are left alone.                                           *)
OthersKept(s) ==
    \A t \in Sagas \ {s} :
        /\ pc'[t] = pc[t] /\ idx'[t] = idx[t] /\ reserved'[t] = reserved[t]
        /\ sent'[t] = sent[t] /\ tries'[t] = tries[t]
        /\ resp'[t] = resp[t] /\ unreleased'[t] = unreleased[t]

LEMMA ControlKept ==
    ASSUME ControlInv, NEW s \in Sagas, InCall(s), Reacts(s)
    PROVE  /\ SagaTypeOK'
           /\ OthersKept(s)
           /\ LoopOK(s)'
           /\ pc'[s] \in {"getProduct", "pay", "reserve", "release", "respond"}
<1> DEFINE Goal == /\ SagaTypeOK'
                   /\ OthersKept(s)
                   /\ LoopOK(s)'
                   /\ pc'[s] \in {"getProduct", "pay", "reserve", "release", "respond"}
<1> HIDE DEF Goal
<1>0. SagaTypeOK /\ LoopOK(s) /\ pc[s] \in {"reserve", "release"}
  BY DEF ControlInv, LoopInv, InCall
<1>1. /\ MaxItems \in Nat
      /\ Len(Items[s]) \in 0 .. MaxItems
  BY ItemFacts
<1>2. idx[s] \in 1 .. MaxItems /\ idx[s] <= Len(Items[s])
  BY <1>0, <1>1 DEF LoopOK, Pos, SagaTypeOK
<1>3. CASE CallSucceeds(s)
  <2>0. sent' \in [Sagas -> BOOLEAN] /\ tries' \in [Sagas -> 0 .. MaxSends]
    <3>1. sent' \in [Sagas -> BOOLEAN]
      BY <1>0, <1>3 DEF CallSucceeds, NextCall, SagaTypeOK
    <3>2. tries' \in [Sagas -> 0 .. MaxSends]
      BY <1>0, <1>3 DEF CallSucceeds, NextCall, SagaTypeOK
    <3> QED
      BY <3>1, <3>2
  <2>1. SagaTypeOK'
    <3>1. pc' \in [Sagas -> Labels]
      BY <1>0, <1>3 DEF CallSucceeds, LoopHead, SagaTypeOK, Labels
    <3>2. idx' \in [Sagas -> 1 .. (MaxItems + 1)]
      BY <1>0, <1>1, <1>2, <1>3 DEF CallSucceeds, NextCall, SagaTypeOK
    <3>3. reserved' \in [Sagas -> 0 .. MaxItems]
      <4>1. reserved \in [Sagas -> 0 .. MaxItems] /\ idx[s] \in 0 .. MaxItems
        BY <1>0, <1>1, <1>2 DEF SagaTypeOK
      <4>2. reserved' = reserved \/ reserved' = [reserved EXCEPT ![s] = idx[s]]
        BY <1>3 DEF CallSucceeds
      <4> QED
        BY <4>1, <4>2
    <3> QED
      BY <1>0, <1>3, <2>0, <3>1, <3>2, <3>3 DEF CallSucceeds, SagaTypeOK
  <2>2. OthersKept(s)
    BY <1>0, <1>3 DEF CallSucceeds, NextCall, OthersKept, SagaTypeOK
  <2>3. pc'[s] \in {"getProduct", "pay", "reserve", "release", "respond"}
    BY <1>0, <1>3 DEF CallSucceeds, LoopHead, SagaTypeOK
  <2>4. LoopOK(s)'
    BY <1>0, <1>1, <1>2, <1>3
       DEF CallSucceeds, NextCall, LoopHead, SagaTypeOK, LoopOK, Pos
  <2> QED
    BY <2>1, <2>2, <2>3, <2>4 DEF Goal
<1>4. ASSUME CallFails(s)
      PROVE  Goal
  <2>1. SagaTypeOK'
    <3>0. sent' \in [Sagas -> BOOLEAN] /\ tries' \in [Sagas -> 0 .. MaxSends]
      <4>1. sent' \in [Sagas -> BOOLEAN]
        BY <1>0, <1>4 DEF CallFails, NextCall, Compensate, SagaTypeOK
      <4>2. tries' \in [Sagas -> 0 .. MaxSends]
        BY <1>0, <1>4 DEF CallFails, NextCall, Compensate, SagaTypeOK
      <4> QED
        BY <4>1, <4>2
    <3>1. CASE Compensate(s, 409)
      BY <1>0, <1>1, <3>0, <3>1 DEF Compensate, SagaTypeOK, Labels, Codes
    <3>2. CASE ~ Compensate(s, 409)
      <4>0. /\ NextCall(s)
            /\ pc' = [pc EXCEPT ![s] = IF idx[s] < reserved[s] THEN "release" ELSE "respond"]
            /\ unreleased' = [unreleased EXCEPT ![s] = @ \cup {idx[s]}]
            /\ UNCHANGED <<resp, reserved>>
        BY <1>4, <3>2 DEF CallFails
      <4>1. pc' \in [Sagas -> Labels]
        BY <1>0, <4>0 DEF SagaTypeOK, Labels
      <4>2. idx' \in [Sagas -> 1 .. (MaxItems + 1)]
        BY <1>0, <1>1, <1>2, <4>0 DEF NextCall, SagaTypeOK
      <4>3. unreleased' \in [Sagas -> SUBSET (1 .. MaxItems)]
        <5>1. unreleased[s] \cup {idx[s]} \in SUBSET (1 .. MaxItems)
          BY <1>0, <1>2 DEF SagaTypeOK
        <5> QED
          BY <1>0, <4>0, <5>1 DEF SagaTypeOK
      <4> QED
        BY <1>0, <3>0, <4>0, <4>1, <4>2, <4>3 DEF SagaTypeOK
    <3> QED
      BY <3>1, <3>2
  <2>2. OthersKept(s)
    BY <1>0, <1>4 DEF CallFails, NextCall, Compensate, OthersKept, SagaTypeOK
  <2>3. pc'[s] \in {"getProduct", "pay", "reserve", "release", "respond"}
    BY <1>0, <1>4 DEF CallFails, Compensate, SagaTypeOK
  <2>4. LoopOK(s)'
    BY <1>0, <1>1, <1>2, <1>4
       DEF CallFails, NextCall, Compensate, SagaTypeOK, LoopOK, Pos
  <2> QED
    BY <2>1, <2>2, <2>3, <2>4 DEF Goal
<1>5. ASSUME Retries(s)
      PROVE  Goal
  <2>1. sent' \in [Sagas -> BOOLEAN]
    BY <1>0, <1>5 DEF Retries, SagaTypeOK
  <2>2. SagaTypeOK'
    BY <1>0, <1>5, <2>1 DEF Retries, SagaTypeOK
  <2>3. OthersKept(s) /\ LoopOK(s)'
    BY <1>0, <1>5 DEF Retries, OthersKept, LoopOK, SagaTypeOK
  <2> QED
    BY <1>0, <1>5, <2>2, <2>3 DEF Goal, Retries
<1> QED
  BY <1>3, <1>4, <1>5 DEF Reacts, AttemptFails, Goal

(* The same of a compensation that starts outside a stock call.               *)
LEMMA CompensateKept ==
    ASSUME ControlInv, NEW s \in Sagas, NEW code \in Codes, Compensate(s, code)
    PROVE  /\ SagaTypeOK'
           /\ OthersKept(s)
           /\ LoopOK(s)'
           /\ pc'[s] \in {"release", "respond"}
<1>1. SagaTypeOK /\ LoopOK(s) /\ MaxItems \in Nat /\ Len(Items[s]) \in 0 .. MaxItems
  BY ItemFacts DEF ControlInv, LoopInv
<1>2. sent' \in [Sagas -> BOOLEAN] /\ tries' \in [Sagas -> 0 .. MaxSends]
  <2>1. sent' \in [Sagas -> BOOLEAN]
    BY <1>1 DEF Compensate, SagaTypeOK
  <2>2. tries' \in [Sagas -> 0 .. MaxSends]
    BY <1>1 DEF Compensate, SagaTypeOK
  <2> QED
    BY <2>1, <2>2
<1>3. SagaTypeOK'
  BY <1>1, <1>2 DEF Compensate, SagaTypeOK, Labels
<1>4. OthersKept(s) /\ pc'[s] \in {"release", "respond"}
  BY <1>1 DEF Compensate, OthersKept, SagaTypeOK
<1>5. LoopOK(s)'
  BY <1>1 DEF Compensate, SagaTypeOK, LoopOK, Pos
<1> QED
  BY <1>3, <1>4, <1>5

-----------------------------------------------------------------------------
(* What every step of saga s leaves of the control state.                     *)
Controlled(s) == SagaTypeOK' /\ OthersKept(s) /\ LoopOK(s)'

ActiveLabels == Labels \ {"waiting", "done", "crashed"}

(* A saga that holds a slot goes on holding it.                               *)
KeepsSlot(s) == pc[s] \in ActiveLabels /\ pc'[s] \in ActiveLabels /\ sem' = sem

LEMMA AcquireControl ==
    ASSUME ControlInv, NEW s \in Sagas, Acquire(s) PROVE Controlled(s)
BY DEF ControlInv, LoopInv, Controlled, Acquire, SagaTypeOK, OthersKept, LoopOK, Labels

LEMMA GiveUpControl ==
    ASSUME ControlInv, NEW s \in Sagas, GiveUpWaiting(s) PROVE Controlled(s)
BY DEF ControlInv, LoopInv, Controlled, GiveUpWaiting, SagaTypeOK, OthersKept, LoopOK,
       Labels, Codes

LEMMA RespondControl ==
    ASSUME ControlInv, NEW s \in Sagas, Respond(s) PROVE Controlled(s)
<1>1. SagaTypeOK /\ LoopOK(s) /\ MaxItems \in Nat /\ Len(Items[s]) \in Nat
  BY ItemFacts DEF ControlInv, LoopInv
<1> QED
  BY <1>1 DEF Controlled, Respond, SagaTypeOK, OthersKept, LoopOK, Labels

LEMMA DecodeControl ==
    ASSUME ControlInv, NEW s \in Sagas, Decode(s) \/ DecodeFails(s)
    PROVE  Controlled(s) /\ KeepsSlot(s)
<1>1. SagaTypeOK /\ LoopOK(s) /\ MaxItems \in Nat /\ Len(Items[s]) \in Nat
  BY ItemFacts DEF ControlInv, LoopInv
<1>2. CASE Decode(s)
  BY <1>1, <1>2 DEF Controlled, KeepsSlot, ActiveLabels, Decode, LoopHead, SagaTypeOK,
                    OthersKept, LoopOK, Labels, Pos
<1>3. CASE DecodeFails(s)
  BY <1>1, <1>3 DEF Controlled, KeepsSlot, ActiveLabels, DecodeFails, SagaTypeOK,
                    OthersKept, LoopOK, Labels, Codes
<1> QED
  BY <1>2, <1>3

LEMMA ForwardControl ==
    ASSUME ControlInv, NEW s \in Sagas, GetProduct(s) \/ Pay(s) \/ CommitOrder(s) \/ Publish(s)
    PROVE  Controlled(s) /\ KeepsSlot(s)
<1>1. SagaTypeOK /\ LoopOK(s)
  BY DEF ControlInv, LoopInv
<1>2. CASE GetProduct(s)
  BY <1>1, <1>2 DEF Controlled, KeepsSlot, ActiveLabels, GetProduct, SagaTypeOK,
                    OthersKept, LoopOK, Labels
<1>3. CASE Pay(s)
  BY <1>1, <1>3 DEF Controlled, KeepsSlot, ActiveLabels, Pay, SagaTypeOK,
                    OthersKept, LoopOK, Labels
<1>4. CASE CommitOrder(s)
  BY <1>1, <1>4 DEF Controlled, KeepsSlot, ActiveLabels, CommitOrder, SagaTypeOK,
                    OthersKept, LoopOK, Labels
<1>5. CASE Publish(s)
  BY <1>1, <1>5 DEF Controlled, KeepsSlot, ActiveLabels, Publish, SagaTypeOK,
                    OthersKept, LoopOK, Labels, Codes
<1> QED
  BY <1>2, <1>3, <1>4, <1>5

LEMMA FailControl ==
    ASSUME ControlInv, NEW s \in Sagas, GetProductFails(s) \/ CommitFails(s)
    PROVE  Controlled(s) /\ KeepsSlot(s)
<1>1. PICK code \in Codes : Compensate(s, code)
  BY DEF GetProductFails, CommitFails, Codes
<1>2. pc[s] \in ActiveLabels /\ sem' = sem
  BY DEF GetProductFails, CommitFails, ActiveLabels, Labels
<1> QED
  BY <1>1, <1>2, CompensateKept DEF Controlled, KeepsSlot, ActiveLabels, Labels

LEMMA CallControl ==
    ASSUME ControlInv, NEW s \in Sagas,
           Send(s) \/ SendFails(s) \/ Timeout(s) \/ CallCancelled(s)
    PROVE  Controlled(s) /\ KeepsSlot(s)
<1>1. SagaTypeOK /\ LoopOK(s)
  BY DEF ControlInv, LoopInv
<1>2. InCall(s) /\ sem' = sem /\ pc[s] \in ActiveLabels
  BY DEF Send, SendFails, Timeout, CallCancelled, InCall, ActiveLabels, Labels
<1>3. CASE Send(s)
  <2>1. sent' \in [Sagas -> BOOLEAN]
    BY <1>1, <1>3 DEF Send, SagaTypeOK
  <2>2. tries' \in [Sagas -> 0 .. MaxSends]
    BY <1>1, <1>3 DEF Send, SagaTypeOK
  <2>3. SagaTypeOK'
    BY <1>1, <1>3, <2>1, <2>2 DEF Send, SagaTypeOK
  <2> QED
    BY <1>1, <1>2, <1>3, <2>3 DEF Controlled, KeepsSlot, Send, OthersKept, LoopOK, Pos, SagaTypeOK
<1>4. CASE ~ Send(s)
  <2>1. Reacts(s)
    BY <1>4 DEF SendFails, Timeout, CallCancelled, Reacts, AttemptFails
  <2> QED
    BY <1>2, <2>1, ControlKept DEF Controlled, KeepsSlot, ActiveLabels, Labels
<1> QED
  BY <1>3, <1>4

(* A saga step in one statement: it leaves the control of every saga in order,  *)
(* and but for Acquire, GiveUpWaiting and Respond it keeps the slot.           *)
LEMMA SagaControl ==
    ASSUME ControlInv, NEW s \in Sagas, SagaStep(s)
    PROVE  /\ Controlled(s)
           /\ Acquire(s) \/ GiveUpWaiting(s) \/ Respond(s) \/ KeepsSlot(s)
BY AcquireControl, GiveUpControl, RespondControl, DecodeControl, ForwardControl,
   FailControl, CallControl DEF SagaStep

(* Jobs only serve items that their saga's request has.                       *)
JobItems == \A j \in jobs : j.item \in Pos(j.saga)

(* A job step touches the control of its saga only by a reaction, and only while *)
(* that saga is inside the very call the job serves.                          *)
LEMMA JobControl ==
    ASSUME ControlInv, jobs \in SUBSET Jobs, NEW j \in jobs, JobStep(j)
    PROVE  /\ j.saga \in Sagas
           /\ \/ /\ UNCHANGED sagaVars
                 /\ sem' = sem
              \/ /\ Awaited(j) /\ InCall(j.saga) /\ Reacts(j.saga)
                 /\ Controlled(j.saga) /\ KeepsSlot(j.saga)
<1> DEFINE s == j.saga
<1>1. s \in Sagas /\ j.dir \in {"reserve", "release"}
  BY DEF Jobs
<1>2. sem' = sem
  BY DEF JobStep, Select, Refuse, Update, UpdateFails, Deliver
<1>3. \/ UNCHANGED sagaVars
      \/ Awaited(j) /\ (AttemptFails(s) \/ CallSucceeds(s))
  BY DEF JobStep, Select, Refuse, Update, UpdateFails, Deliver, AttemptFails
<1>4. CASE UNCHANGED sagaVars
  BY <1>1, <1>2, <1>4
<1>5. CASE Awaited(j) /\ (AttemptFails(s) \/ CallSucceeds(s))
  <2>1. InCall(s) /\ Reacts(s)
    BY <1>1, <1>5 DEF Awaited, InCall, Reacts
  <2>2. pc[s] \in ActiveLabels
    BY <2>1 DEF InCall, ActiveLabels, Labels
  <2>3. Controlled(s) /\ KeepsSlot(s)
    BY <1>1, <1>2, <2>1, <2>2, ControlKept DEF Controlled, KeepsSlot, ActiveLabels, Labels
  <2> QED
    BY <1>1, <1>5, <2>1, <2>3
<1> QED
  BY <1>3, <1>4, <1>5

LEMMA LoopFrame ==
    ASSUME LoopInv, NEW s \in Sagas, Controlled(s)
    PROVE  LoopInv'
BY DEF LoopInv, Controlled, OthersKept, LoopOK

-----------------------------------------------------------------------------
(* The bulkhead.                                                             *)

LEMMA ActiveFinite == IsFiniteSet(Active) /\ Cardinality(Active) \in Nat
BY SagasAssumption, FS_Subset, FS_CardinalityType DEF Active

LEMMA SlotsKept ==
    ASSUME SagaTypeOK, NEW s \in Sagas, OthersKept(s), KeepsSlot(s), SlotsAccounted
    PROVE  SlotsAccounted'
<1>1. Active' = Active
  BY DEF SagaTypeOK, OthersKept, KeepsSlot, Active, ActiveLabels
<1> QED
  BY <1>1 DEF SlotsAccounted, KeepsSlot

LEMMA AcquireSlot ==
    ASSUME SagaTypeOK, NEW s \in Sagas, Acquire(s), SlotsAccounted
    PROVE  SlotsAccounted'
<1>1. s \notin Active /\ Active' = Active \cup {s}
  BY DEF SagaTypeOK, Acquire, Active
<1>2. Cardinality(Active \cup {s}) = Cardinality(Active) + 1
  BY <1>1, ActiveFinite, FS_AddElement
<1> QED
  BY <1>1, <1>2, ActiveFinite DEF SlotsAccounted, Acquire

LEMMA RespondSlot ==
    ASSUME SagaTypeOK, NEW s \in Sagas, Respond(s), SlotsAccounted
    PROVE  SlotsAccounted' /\ sem \in Nat \ {0}
<1>1. s \in Active /\ Active' = Active \ {s}
  BY DEF SagaTypeOK, Respond, Active
<1>2. Cardinality(Active \ {s}) = Cardinality(Active) - 1
  BY <1>1, ActiveFinite, FS_RemoveElement
<1>3. Cardinality(Active \ {s}) \in Nat
  BY <1>1, ActiveFinite, FS_RemoveElement, FS_CardinalityType
<1> QED
  BY <1>1, <1>2, <1>3, ActiveFinite DEF SlotsAccounted, Respond

LEMMA CrashSlots ==
    ASSUME SagaTypeOK, Crash
    PROVE  SlotsAccounted'
<1>1. Active' = {}
  BY DEF SagaTypeOK, Crash, Active
<1> QED
  BY <1>1, FS_EmptySet DEF SlotsAccounted, Crash

-----------------------------------------------------------------------------
(* The base invariant: types, control, slots and jobs.                        *)
BaseInv == TypeOK /\ LoopInv /\ SlotsAccounted /\ JobItems

LEMMA BaseInit == Init => BaseInv
<1> SUFFICES ASSUME Init PROVE BaseInv
  OBVIOUS
<1>1. MaxItems \in Nat /\ \A s \in Sagas : Len(Items[s]) \in 0 .. MaxItems
  BY ItemFacts, ItemsAssumption
<1>2. TypeOK
  BY <1>1, StockAssumption DEF Init, TypeOK, SagaTypeOK, Labels, Codes
<1>3. LoopInv /\ JobItems
  BY <1>1 DEF Init, LoopInv, LoopOK, JobItems
<1>4. SlotsAccounted
  <2>1. Active = {}
    BY DEF Init, Active
  <2> QED
    BY <2>1, FS_EmptySet DEF Init, SlotsAccounted
<1> QED
  BY <1>2, <1>3, <1>4 DEF BaseInv

(* An attempt to reserve the current item is given up.                          *)
LEMMA UnheardRow ==
    ASSUME TypeOK, LoopInv, NEW s \in Sagas, Timeout(s), pc[s] = "reserve"
    PROVE  /\ unheard' \in [Sagas -> [1 .. MaxItems -> Nat]]
           /\ \A t \in Sagas \ {s} : unheard'[t] = unheard[t]
           /\ unheard'[s][idx[s]] = unheard[s][idx[s]] + 1
           /\ \A i \in Pos(s) : i # idx[s] => unheard'[s][i] = unheard[s][i]
<1> DEFINE row == unheard[s]
           i0 == idx[s]
           entry == [row EXCEPT ![i0] = @ + 1]
<1>1. row \in [1 .. MaxItems -> Nat] /\ unheard \in [Sagas -> [1 .. MaxItems -> Nat]]
  BY DEF TypeOK
<1>2. i0 \in 1 .. MaxItems /\ Pos(s) \subseteq 1 .. MaxItems
  BY ItemFacts DEF LoopInv, LoopOK
<1>3. unheard' = [unheard EXCEPT ![s] = entry]
  BY DEF Timeout
<1>4. /\ entry \in [1 .. MaxItems -> Nat] /\ entry[i0] = row[i0] + 1
      /\ \A i \in 1 .. MaxItems : i # i0 => entry[i] = row[i]
  <2> HIDE DEF row, i0
  <2> QED
    BY <1>1, <1>2
<1> HIDE DEF entry
<1>5. unheard'[s] = entry /\ \A t \in Sagas \ {s} : unheard'[t] = unheard[t]
  BY <1>1, <1>3
<1>6. unheard' \in [Sagas -> [1 .. MaxItems -> Nat]]
  BY <1>1, <1>3, <1>4
<1> QED
  BY <1>2, <1>4, <1>5, <1>6

(* The types of the state a saga step changes outside its own control.         *)
LEMMA SagaTypes ==
    ASSUME BaseInv, NEW s \in Sagas, SagaStep(s)
    PROVE  TypeOK' /\ SlotsAccounted' /\ JobItems'
<1>1. TypeOK /\ SagaTypeOK /\ LoopOK(s) /\ SlotsAccounted /\ JobItems /\ ControlInv
  BY DEF BaseInv, TypeOK, LoopInv, ControlInv
<1>2. Controlled(s)
  BY <1>1, SagaControl
<1>3. SlotsAccounted'
  <2>1. CASE GiveUpWaiting(s)
    <3>1. Active' = Active
      BY <1>1, <2>1 DEF SagaTypeOK, GiveUpWaiting, Active
    <3> QED
      BY <1>1, <2>1, <3>1 DEF SlotsAccounted, GiveUpWaiting
  <2> QED
    BY <1>1, <1>2, <2>1, SagaControl, AcquireSlot, RespondSlot, SlotsKept DEF Controlled
<1>4. sem' \in 0 .. MaxConcurrentSagas
  <2>1. Cardinality(Active)' \in Nat
    BY SagasAssumption, FS_Subset, FS_CardinalityType DEF Active
  <2> QED
    BY <1>3, <2>1 DEF SlotsAccounted
<1>5. cancelled' \in [Sagas -> BOOLEAN] /\ orders' \in SUBSET Sagas /\ events' \in SUBSET Sagas
  BY <1>1 DEF TypeOK, SagaStep, Acquire, GiveUpWaiting, Decode, DecodeFails, GetProduct,
     GetProductFails, Pay, CommitOrder, CommitFails, Publish, Send, SendFails, Timeout,
     CallCancelled, Respond
<1>6. stock' = stock /\ taken' = taken
  BY DEF SagaStep, Acquire, GiveUpWaiting, Decode, DecodeFails, GetProduct,
     GetProductFails, Pay, CommitOrder, CommitFails, Publish, Send, SendFails, Timeout,
     CallCancelled, Respond, remoteVars
<1>7. unheard' \in [Sagas -> [1 .. MaxItems -> Nat]]
  <2>1. CASE unheard' = unheard
    BY <1>1, <2>1 DEF TypeOK
  <2>2. CASE Timeout(s) /\ pc[s] = "reserve"
    BY <1>1, <2>2, UnheardRow DEF BaseInv
  <2>3. unheard' = unheard \/ Timeout(s)
    BY DEF SagaStep, Acquire, GiveUpWaiting, Decode, DecodeFails, GetProduct,
       GetProductFails, Pay, CommitOrder, CommitFails, Publish, Send, SendFails,
       CallCancelled, Respond, remoteVars
  <2>4. Timeout(s) => unheard' = unheard \/ pc[s] = "reserve"
    BY DEF Timeout
  <2> QED
    BY <2>1, <2>2, <2>3, <2>4
<1>8. jobs' \in SUBSET Jobs /\ JobItems'
  <2>1. CASE Send(s)
    <3>1. idx[s] \in Pos(s) /\ idx[s] \in 1 .. MaxItems
      BY <1>1, <2>1, ItemFacts DEF Send, InCall, LoopOK, Pos, SagaTypeOK
    <3> DEFINE j == [saga |-> s, item |-> idx[s], dir |-> pc[s],
                     try |-> tries[s] + 1, stage |-> "select"]
    <3>2. j \in Jobs /\ j.item \in Pos(j.saga)
      <4>1. tries[s] + 1 \in 1 .. MaxSends
        BY <1>1, <2>1 DEF Send, SagaTypeOK
      <4> QED
        BY <1>1, <2>1, <3>1, <4>1 DEF Send, InCall, Jobs
    <3>3. jobs' = jobs \cup {j}
      BY <2>1 DEF Send
    <3> HIDE DEF j
    <3> QED
      BY <1>1, <3>2, <3>3 DEF TypeOK, JobItems
  <2>2. CASE ~ Send(s)
    <3>1. jobs' = jobs
      BY <2>2 DEF SagaStep, Acquire, GiveUpWaiting, Decode, DecodeFails, GetProduct,
         GetProductFails, Pay, CommitOrder, CommitFails, Publish, SendFails, Timeout,
         CallCancelled, Respond, remoteVars
    <3> QED
      BY <1>1, <3>1 DEF TypeOK, JobItems
  <2> QED
    BY <2>1, <2>2
<1> QED
  BY <1>1, <1>2, <1>3, <1>4, <1>5, <1>6, <1>7, <1>8 DEF TypeOK, Controlled

(* The types of the state a job changes in the product service.               *)
LEMMA JobTypes ==
    ASSUME BaseInv, NEW j \in jobs, JobStep(j)
    PROVE  /\ jobs' \in SUBSET Jobs /\ JobItems'
           /\ stock' \in [Products -> Int]
           /\ taken' \in [Sagas -> [1 .. MaxItems -> Int]]
           /\ UNCHANGED <<cancelled, orders, events, unheard>>
<1>1. /\ TypeOK /\ JobItems
      /\ j \in Jobs /\ j.saga \in Sagas /\ j.item \in 1 .. MaxItems
      /\ j.item \in Pos(j.saga)
  BY DEF BaseInv, TypeOK, JobItems, Jobs
<1>2. UNCHANGED <<cancelled, orders, events, unheard>>
  BY DEF JobStep, Select, Refuse, Update, UpdateFails, Deliver
<1>3. jobs' \in SUBSET Jobs /\ JobItems'
  <2>1. CASE Select(j)
    <3> DEFINE k == [j EXCEPT !.stage = "update"]
    <3>1. k \in Jobs /\ k.saga = j.saga /\ k.item = j.item
      BY <1>1 DEF Jobs
    <3>2. jobs' = (jobs \ {j}) \cup {k}
      BY <2>1 DEF Select
    <3> HIDE DEF k
    <3> QED
      BY <1>1, <3>1, <3>2 DEF TypeOK, JobItems
  <2>2. CASE ~ Select(j)
    <3>1. jobs' = jobs \ {j}
      BY <2>2 DEF JobStep, Refuse, Update, UpdateFails, Deliver
    <3> QED
      BY <1>1, <3>1 DEF TypeOK, JobItems
  <2> QED
    BY <2>1, <2>2
<1>4. /\ stock' \in [Products -> Int]
      /\ taken' \in [Sagas -> [1 .. MaxItems -> Int]]
  <2>1. CASE Update(j)
    <3>1. ProductOf(j.saga, j.item) \in Products /\ Change(j) \in Int
      BY <1>1, ItemFacts DEF Change
    <3>2. stock' \in [Products -> Int]
      BY <1>1, <2>1, <3>1 DEF Update, TypeOK
    <3> DEFINE entry == [taken[j.saga] EXCEPT ![j.item] =
                           IF j.dir = "reserve" THEN @ + 1 ELSE @ - 1]
    <3>3. taken' = [taken EXCEPT ![j.saga] = entry]
      BY <1>1, <2>1 DEF Update, TypeOK
    <3>4. taken[j.saga] \in [1 .. MaxItems -> Int]
      BY <1>1 DEF TypeOK
    <3>5. entry \in [1 .. MaxItems -> Int]
      <4> DEFINE row == taken[j.saga]
                 count == IF j.dir = "reserve" THEN row[j.item] + 1 ELSE row[j.item] - 1
      <4>0. row[j.item] \in Int
        <5> HIDE DEF row
        <5>1. row \in [1 .. MaxItems -> Int]
          BY <3>4 DEF row
        <5> QED
          BY <1>1, <5>1
      <4>1. count \in Int
        BY <4>0
      <4>2. entry = [row EXCEPT ![j.item] = count]
        OBVIOUS
      <4> HIDE DEF entry, count
      <4> QED
        BY <3>4, <4>1, <4>2
    <3> HIDE DEF entry
    <3>6. taken' \in [Sagas -> [1 .. MaxItems -> Int]]
      BY <1>1, <3>3, <3>5 DEF TypeOK
    <3> QED
      BY <3>2, <3>6
  <2>2. CASE ~ Update(j)
    BY <1>1, <2>2 DEF JobStep, Select, Refuse, UpdateFails, TypeOK
  <2> QED
    BY <2>1, <2>2
<1> QED
  BY <1>2, <1>3, <1>4

LEMMA BaseStep == BaseInv /\ [Next]_vars => BaseInv'
<1> SUFFICES ASSUME BaseInv, [Next]_vars PROVE BaseInv'
  OBVIOUS
<1>1. TypeOK /\ SagaTypeOK /\ LoopInv /\ SlotsAccounted /\ JobItems /\ ControlInv
  BY DEF BaseInv, TypeOK, ControlInv
<1>2. ASSUME NEW s \in Sagas, SagaStep(s) PROVE BaseInv'
  BY <1>1, <1>2, SagaTypes, SagaControl, LoopFrame DEF BaseInv
<1>3. ASSUME NEW s \in Sagas, Cancel(s) PROVE BaseInv'
  <2>1. cancelled' \in [Sagas -> BOOLEAN]
    BY <1>1, <1>3 DEF TypeOK, Cancel
  <2>2. SagaTypeOK' /\ LoopInv' /\ SlotsAccounted' /\ JobItems'
    BY <1>1, <1>3 DEF Cancel, sagaVars, remoteVars, SagaTypeOK, LoopInv, LoopOK,
                      SlotsAccounted, Active, JobItems
  <2> QED
    BY <1>1, <1>3, <2>1, <2>2 DEF BaseInv, TypeOK, Cancel, remoteVars
<1>4. ASSUME NEW j \in jobs, JobStep(j) PROVE BaseInv'
  <2>1. SagaTypeOK' /\ LoopInv' /\ SlotsAccounted' /\ sem' = sem
    <3>1. jobs \in SUBSET Jobs
      BY <1>1 DEF TypeOK
    <3>2. CASE UNCHANGED sagaVars /\ sem' = sem
      BY <1>1, <3>2 DEF sagaVars, SagaTypeOK, LoopInv, LoopOK, SlotsAccounted, Active
    <3>3. CASE j.saga \in Sagas /\ Controlled(j.saga) /\ KeepsSlot(j.saga)
      BY <1>1, <3>3, LoopFrame, SlotsKept DEF Controlled, KeepsSlot
    <3> QED
      BY <1>1, <1>4, <3>1, <3>2, <3>3, JobControl
  <2> QED
    BY <1>1, <1>4, <2>1, JobTypes DEF BaseInv, TypeOK
<1>5. CASE Crash
  <2>1. \A s \in Sagas : Len(Items[s]) \in Nat /\ MaxItems \in Nat
    BY ItemFacts
  <2>2. SagaTypeOK'
    BY <1>1, <1>5, <2>1 DEF Crash, SagaTypeOK, Labels
  <2>3. LoopInv'
    BY <1>1, <1>5, <2>1 DEF Crash, SagaTypeOK, LoopInv, LoopOK
  <2>4. cancelled' \in [Sagas -> BOOLEAN] /\ sem' \in 0 .. MaxConcurrentSagas
    BY <1>5 DEF Crash
  <2>5. SlotsAccounted' /\ JobItems'
    BY <1>1, <1>5, CrashSlots DEF Crash, remoteVars, JobItems
  <2> QED
    BY <1>1, <1>5, <2>2, <2>3, <2>4, <2>5 DEF BaseInv, TypeOK, Crash, remoteVars
<1>6. CASE UNCHANGED vars
  <2>1. SagaTypeOK' /\ LoopInv' /\ SlotsAccounted' /\ JobItems'
    BY <1>1, <1>6 DEF vars, SagaTypeOK, LoopInv, LoopOK, SlotsAccounted, Active, JobItems
  <2> QED
    BY <1>1, <1>6, <2>1 DEF BaseInv, TypeOK, vars
<1> QED
  BY <1>2, <1>3, <1>4, <1>5, <1>6 DEF Next, Rest

(* The base invariant holds throughout, whatever faults happen.               *)
THEOREM BaseInvariant == Spec => []BaseInv
BY BaseInit, BaseStep, PTL DEF Spec

(* Type correctness.                                                         *)
THEOREM TypeCorrect == Spec => []TypeOK
<1>1. BaseInv => TypeOK
  BY DEF BaseInv
<1> QED
  BY <1>1, BaseInvariant, PTL

(* The bulkhead holds for any number of requests and any capacity: the tokens   *)
(* taken are exactly the sagas in progress, so no path out of the handler leaks  *)
(* a slot or returns one twice, whatever fails.                               *)
THEOREM BulkheadHolds == Spec => []SlotsAccounted
<1>1. BaseInv => SlotsAccounted
  BY DEF BaseInv
<1> QED
  BY <1>1, BaseInvariant, PTL

-----------------------------------------------------------------------------
(* The jobs that serve one item of one saga, and how their number changes.        *)
PendingIn(J, s, i) == {j \in J : j.saga = s /\ j.item = i}

LEMMA JobsFinite == IsFiniteSet(Jobs)
<1> DEFINE Dirs == {"reserve", "release"}
           Stages2 == {"select", "update"}
           Tuples == (Sagas \X (1 .. MaxItems)) \X (Dirs \X ((1 .. MaxSends) \X Stages2))
           f == [x \in Tuples |-> [saga |-> x[1][1], item |-> x[1][2], dir |-> x[2][1],
                                   try |-> x[2][2][1], stage |-> x[2][2][2]]]
<1>1. IsFiniteSet(Tuples)
  <2>1. IsFiniteSet(1 .. MaxItems) /\ IsFiniteSet(1 .. MaxSends)
    BY ItemsAssumption, FS_Interval
  <2>2. IsFiniteSet(Dirs) /\ IsFiniteSet(Stages2)
    <3>1. \A a, b : IsFiniteSet({a, b})
      <4> TAKE a, b
      <4>1. IsFiniteSet({a}) /\ IsFiniteSet({b})
        BY FS_Singleton
      <4>2. {a, b} = {a} \cup {b}
        OBVIOUS
      <4> QED
        BY <4>1, <4>2, FS_Union
    <3> QED
      BY <3>1
  <2> HIDE DEF Dirs, Stages2
  <2>3. IsFiniteSet(Sagas \X (1 .. MaxItems)) /\ IsFiniteSet((1 .. MaxSends) \X Stages2)
    BY <2>1, <2>2, SagasAssumption, FS_Product
  <2>4. IsFiniteSet(Dirs \X ((1 .. MaxSends) \X Stages2))
    BY <2>2, <2>3, FS_Product
  <2> QED
    BY <2>3, <2>4, FS_Product
<1>2. f \in Surjection(Tuples, Jobs)
  <2>1. f \in [Tuples -> Jobs]
    BY DEF Jobs
  <2>2. ASSUME NEW j \in Jobs
        PROVE  \E x \in Tuples : f[x] = j
    <3> DEFINE x == <<<<j.saga, j.item>>, <<j.dir, <<j.try, j.stage>>>>>>
    <3>1. x \in Tuples /\ f[x] = j
      BY DEF Jobs
    <3> QED
      BY <3>1
  <2> QED
    BY <2>1, <2>2 DEF Surjection
<1> QED
  BY <1>1, <1>2, FS_Surjection

LEMMA PendingCount ==
    ASSUME NEW J \in SUBSET Jobs, NEW s, NEW i
    PROVE  IsFiniteSet(PendingIn(J, s, i)) /\ Cardinality(PendingIn(J, s, i)) \in Nat
<1>1. PendingIn(J, s, i) \subseteq Jobs
  BY DEF PendingIn
<1> QED
  BY <1>1, JobsFinite, FS_Subset, FS_CardinalityType

LEMMA PendingLess ==
    ASSUME NEW J \in SUBSET Jobs, NEW s, NEW i, NEW j \in PendingIn(J, s, i)
    PROVE  Cardinality(PendingIn(J \ {j}, s, i)) = Cardinality(PendingIn(J, s, i)) - 1
<1>1. PendingIn(J \ {j}, s, i) = PendingIn(J, s, i) \ {j}
  BY DEF PendingIn
<1>2. IsFiniteSet(PendingIn(J, s, i))
  BY PendingCount
<1> DEFINE P == PendingIn(J, s, i)
<1> HIDE DEF P
<1>3. Cardinality(P \ {j}) = Cardinality(P) - 1
  BY <1>1, <1>2, FS_RemoveElement DEF P
<1> QED
  BY <1>1, <1>3 DEF P

LEMMA PendingMore ==
    ASSUME NEW J \in SUBSET Jobs, NEW j, NEW s, NEW i
    PROVE  Cardinality(PendingIn(J \cup {j}, s, i)) <= Cardinality(PendingIn(J, s, i)) + 1
<1> DEFINE P == PendingIn(J, s, i)
           Q == PendingIn(J \cup {j}, s, i)
<1>1. Q = P \/ Q = P \cup {j}
  BY DEF PendingIn
<1>2. IsFiniteSet(P) /\ Cardinality(P) \in Nat
  BY PendingCount
<1> HIDE DEF P, Q
<1>3. Cardinality(P \cup {j}) <= Cardinality(P) + 1
  <2>1. Cardinality(P \cup {j}) = IF j \in P THEN Cardinality(P) ELSE Cardinality(P) + 1
    BY <1>2, FS_AddElement
  <2> QED
    BY <1>2, <2>1
<1>4. Cardinality(Q) <= Cardinality(P) + 1
  BY <1>1, <1>2, <1>3
<1> QED
  BY <1>4 DEF P, Q

(* A job that reads on is another job for the same item.                          *)
LEMMA PendingSwap ==
    ASSUME NEW J \in SUBSET Jobs, NEW s, NEW i, NEW j \in PendingIn(J, s, i), NEW k \in Jobs
    PROVE  Cardinality(PendingIn((J \ {j}) \cup {k}, s, i)) <= Cardinality(PendingIn(J, s, i))
<1> DEFINE L == J \ {j}
<1>1. L \in SUBSET Jobs /\ L \cup {k} \in SUBSET Jobs
  OBVIOUS
<1>2. Cardinality(PendingIn(L, s, i)) = Cardinality(PendingIn(J, s, i)) - 1
  BY PendingLess
<1>3. /\ Cardinality(PendingIn(J, s, i)) \in Nat /\ Cardinality(PendingIn(L, s, i)) \in Nat
      /\ Cardinality(PendingIn(L \cup {k}, s, i)) \in Nat
  BY <1>1, PendingCount
<1> HIDE DEF L
<1>4. Cardinality(PendingIn(L \cup {k}, s, i)) <= Cardinality(PendingIn(L, s, i)) + 1
  BY <1>1, PendingMore
<1>5. Cardinality(PendingIn(L \cup {k}, s, i)) <= Cardinality(PendingIn(J, s, i))
  BY <1>2, <1>3, <1>4
<1> QED
  BY <1>5 DEF L

-----------------------------------------------------------------------------
(* Orders and answers: no order without its stock, and no answer that contradicts   *)
(* the database, whatever fails, crashes, lost replies and cancellations included,    *)
(* unless a COMMIT can take effect without its acknowledgement ("commitUnknown";      *)
(* TLC shows that it then fails).                                              *)
(*                                                                          *)
(* The argument is OrderInv, step by step: a step of saga s touches the answer,   *)
(* the order, the control and the jobs of s only, a step of a job the ledger of    *)
(* one item of one saga, so that every other saga keeps what OrderInv says of it.   *)
(* In the ledger every attempt is one of three: already taken, still served, or      *)
(* ended without effect; so a step that ends an attempt moves it from one count to    *)
(* the other or drops it, and a step that gives one up is the one that raises the     *)
(* bound.                                                                     *)

SagaOK(s) == StageOK(s) /\ OrderOK(s) /\ LedgerOK(s) /\ WaitOK(s)

(* What ItemOK compares is numbers.                                              *)
LEMMA ItemNumbers ==
    ASSUME TypeOK, NEW s \in Sagas, NEW i \in Pos(s)
    PROVE  /\ taken[s][i] \in Int /\ unheard[s][i] \in Nat
           /\ Cardinality(Pending(s, i)) \in Nat
           /\ Pending(s, i) = PendingIn(jobs, s, i)
<1>1. Pos(s) \subseteq 1 .. MaxItems
  BY ItemFacts
<1>2. Pending(s, i) = PendingIn(jobs, s, i)
  BY DEF Pending, JobsOf, PendingIn
<1>3. jobs \in SUBSET Jobs
  BY DEF TypeOK
<1> QED
  BY <1>1, <1>2, <1>3, PendingCount DEF TypeOK

(* Nothing that OrderInv says of saga t has changed.                            *)
Untouched(t) ==
    /\ pc'[t] = pc[t] /\ idx'[t] = idx[t] /\ reserved'[t] = reserved[t]
    /\ sent'[t] = sent[t] /\ tries'[t] = tries[t] /\ resp'[t] = resp[t]
    /\ t \in orders' <=> t \in orders
    /\ t \in events' <=> t \in events
    /\ taken'[t] = taken[t] /\ unheard'[t] = unheard[t]
    /\ JobsOf(t)' = JobsOf(t)

LEMMA UntouchedOK ==
    ASSUME NEW t \in Sagas, Untouched(t), SagaOK(t)
    PROVE  SagaOK(t)'
<1>1. StageOK(t)' /\ OrderOK(t)'
  BY DEF Untouched, SagaOK, StageOK, OrderOK, Failed
<1>2. WaitOK(t)'
  <2> SUFFICES ASSUME sent'[t] PROVE \E j \in JobsOf(t)' : Awaited(j)'
    BY DEF WaitOK
  <2>1. PICK j \in JobsOf(t) : Awaited(j)
    BY DEF Untouched, SagaOK, WaitOK
  <2>2. j \in JobsOf(t)' /\ j.saga = t
    BY <2>1 DEF Untouched, JobsOf
  <2>3. Awaited(j)'
    BY <2>1, <2>2 DEF Untouched, Awaited
  <2> QED
    BY <2>2, <2>3
<1>3. \A i : Pending(t, i)' = Pending(t, i)
  BY DEF Untouched, Pending
<1>4. Ordering(t)' <=> Ordering(t)
  BY DEF Untouched, Ordering, Failed
<1>5. \A i \in Pos(t) : ItemOK(t, i) => ItemOK(t, i)'
  BY <1>3 DEF Untouched, ItemOK, Owns, Asks
<1>6. LedgerOK(t)'
  BY <1>4, <1>5 DEF Untouched, SagaOK, LedgerOK
<1> QED
  BY <1>1, <1>2, <1>6 DEF SagaOK

(* A saga that goes on failing, or begins to.                                 *)
LEMMA FailingSaga ==
    ASSUME NEW s \in Sagas, SagaOK(s), s \notin orders,
           Failed(s)', s \notin orders', s \in events' => s \in events,
           pc'[s] \in {"release", "respond"}, WaitOK(s)'
    PROVE  SagaOK(s)'
BY DEF SagaOK, StageOK, OrderOK, LedgerOK, Ordering, Failed

LEMMA CompensateOK ==
    ASSUME BaseInv, NEW s \in Sagas, NEW code \in {400, 409, 500, 503},
           Compensate(s, code), SagaOK(s), s \notin orders, UNCHANGED <<orders, events>>
    PROVE  SagaOK(s)'
<1>1. resp'[s] = code /\ pc'[s] \in {"release", "respond"} /\ ~ sent'[s]
  BY DEF BaseInv, TypeOK, SagaTypeOK, Compensate
<1>2. Failed(s)' /\ WaitOK(s)'
  BY <1>1 DEF Failed, WaitOK
<1> QED
  BY <1>1, <1>2, FailingSaga

(* A saga waits for a reply only inside a stock call.                             *)
LEMMA WaitsInCall ==
    ASSUME BaseInv, NEW s \in Sagas, SagaOK(s), sent[s]
    PROVE  InCall(s)
BY DEF BaseInv, TypeOK, Jobs, SagaOK, WaitOK, JobsOf, Awaited, InCall

(* A step that leaves the ledger of s alone, and what the ledger is compared with.      *)
LEMMA LedgerKept ==
    ASSUME NEW s \in Sagas, LedgerOK(s), Ordering(s)' => Ordering(s),
           UNCHANGED <<taken, unheard, jobs>>,
           \A i \in Pos(s) : Owns(s, i)' <=> Owns(s, i),
           \A i \in Pos(s) : Asks(s, i)' <=> Asks(s, i)
    PROVE  LedgerOK(s)'
<1>1. JobsOf(s)' = JobsOf(s) /\ \A i : Pending(s, i)' = Pending(s, i)
  BY DEF JobsOf, Pending
<1>2. \A i \in Pos(s) : ItemOK(s, i) => ItemOK(s, i)'
  BY <1>1 DEF ItemOK
<1> QED
  BY <1>1, <1>2 DEF LedgerOK

-----------------------------------------------------------------------------
(* The steps of a saga outside its stock calls.                               *)
LEMMA OwnStepOK ==
    ASSUME BaseInv, NEW s \in Sagas, SagaOK(s), "commitUnknown" \notin Faults,
           SagaStep(s), ~ InCall(s)
    PROVE  SagaOK(s)'
<1>1. SagaTypeOK /\ LoopOK(s) /\ jobs \in SUBSET Jobs
  BY DEF BaseInv, TypeOK, LoopInv
<1>2. UNCHANGED <<taken, unheard, jobs>> /\ ~ sent[s]
  BY WaitsInCall DEF SagaStep, InCall, Acquire, GiveUpWaiting, Decode, DecodeFails, GetProduct,
     GetProductFails, Pay, CommitOrder, CommitFails, Publish, Send, SendFails, Timeout,
     CallCancelled, Respond, remoteVars
<1>3. ASSUME UNCHANGED sent
      PROVE  WaitOK(s)' /\ \A i \in Pos(s) : Asks(s, i)' <=> Asks(s, i)
  BY <1>2, <1>3 DEF WaitOK, Asks
<1>4. CASE Acquire(s) \/ Decode(s) \/ GetProduct(s) \/ Pay(s)
  <2>1. /\ UNCHANGED <<resp, reserved, sent, orders, events>>
        /\ pc[s] \in {"waiting", "decode", "getProduct", "pay"}
        /\ pc'[s] \in {"decode", "getProduct", "reserve", "pay", "commit"}
    BY <1>1, <1>4 DEF SagaTypeOK, Acquire, Decode, GetProduct, Pay, LoopHead
  <2>2. StageOK(s)' /\ OrderOK(s)'
    BY <2>1 DEF SagaOK, StageOK, OrderOK, Failed
  <2>3. /\ Ordering(s)' => Ordering(s)
        /\ \A i \in Pos(s) : Owns(s, i)' <=> Owns(s, i)
    BY <2>1 DEF Ordering, Owns, Failed
  <2> QED
    BY <1>2, <1>3, <2>1, <2>2, <2>3, LedgerKept DEF SagaOK
<1>5. CASE GiveUpWaiting(s) \/ DecodeFails(s)
  <2>1. /\ UNCHANGED <<orders, events, sent>> /\ pc[s] \in {"waiting", "decode"}
        /\ pc'[s] \in {"respond", "done"} /\ resp'[s] \in {400, 503}
    BY <1>1, <1>5 DEF SagaTypeOK, GiveUpWaiting, DecodeFails
  <2> QED
    BY <1>3, <2>1 DEF SagaOK, StageOK, OrderOK, LedgerOK, Ordering, Failed
<1>6. CASE GetProductFails(s) \/ CommitFails(s)
  <2>1. UNCHANGED <<orders, events>> /\ pc[s] \in {"getProduct", "commit"}
    BY <1>6 DEF GetProductFails, CommitFails
  <2>2. s \notin orders
    BY <2>1 DEF SagaOK, OrderOK
  <2>3. PICK code \in {400, 500} : Compensate(s, code)
    BY <1>6 DEF GetProductFails, CommitFails
  <2> QED
    BY <2>1, <2>2, <2>3, CompensateOK
<1>7. CASE CommitOrder(s)
  <2>1. /\ orders' = orders \cup {s} /\ UNCHANGED <<resp, reserved, sent, events>>
        /\ pc[s] = "commit" /\ pc'[s] = "publish" /\ reserved[s] = Len(Items[s])
    BY <1>1, <1>7 DEF CommitOrder, SagaTypeOK, LoopOK
  <2>2. ~ Failed(s) /\ s \notin orders
    BY <2>1 DEF SagaOK, StageOK, OrderOK, Failed
  <2>3. StageOK(s)' /\ OrderOK(s)'
    BY <2>1, <2>2 DEF SagaOK, StageOK, OrderOK, Failed
  <2>4. /\ Ordering(s)' => Ordering(s)
        /\ \A i \in Pos(s) : Owns(s, i)' <=> Owns(s, i)
    BY <2>1, <2>2 DEF Ordering, Owns, Pos
  <2> QED
    BY <1>2, <1>3, <2>1, <2>3, <2>4, LedgerKept DEF SagaOK
<1>8. CASE Publish(s)
  <2>1. /\ UNCHANGED <<orders, reserved, sent>> /\ events' \in {events, events \cup {s}}
        /\ pc[s] = "publish" /\ pc'[s] = "respond" /\ resp'[s] = 201
    BY <1>1, <1>8 DEF Publish, SagaTypeOK
  <2>2. s \in orders
    BY <2>1 DEF SagaOK, OrderOK
  <2>3. StageOK(s)' /\ OrderOK(s)'
    BY <2>1, <2>2 DEF SagaOK, StageOK, OrderOK, Failed
  <2>4. Ordering(s) /\ \A i \in Pos(s) : Owns(s, i)' <=> Owns(s, i)
    BY <2>1, <2>2 DEF Ordering, Owns
  <2> QED
    BY <1>2, <1>3, <2>1, <2>3, <2>4, LedgerKept DEF SagaOK
<1>9. CASE Respond(s)
  <2>1. /\ UNCHANGED <<resp, orders, events, sent>> /\ pc[s] = "respond" /\ pc'[s] = "done"
    BY <1>1, <1>9 DEF Respond, SagaTypeOK
  <2>2. Failed(s) \/ s \in orders
    BY <1>1, <2>1 DEF SagaOK, StageOK, OrderOK, Failed, SagaTypeOK, Codes
  <2>3. StageOK(s)' /\ OrderOK(s)'
    BY <2>1 DEF SagaOK, StageOK, OrderOK, Failed
  <2>4. CASE s \in orders
    <3>1. Ordering(s) /\ \A i \in Pos(s) : Owns(s, i)' <=> Owns(s, i)
      BY <2>1, <2>4 DEF Ordering, Owns
    <3> QED
      BY <1>2, <1>3, <2>1, <2>3, <3>1, LedgerKept DEF SagaOK
  <2>5. CASE s \notin orders
    BY <1>3, <2>1, <2>2, <2>3, <2>5 DEF SagaOK, LedgerOK, Ordering, Failed
  <2> QED
    BY <2>4, <2>5
<1> QED
  BY <1>4, <1>5, <1>6, <1>7, <1>8, <1>9
     DEF SagaStep, InCall, Send, SendFails, Timeout, CallCancelled

-----------------------------------------------------------------------------
(* A stock call is made by a saga that has failed, or that owns nothing yet.     *)
LEMMA InCallFacts ==
    ASSUME NEW s \in Sagas, StageOK(s), OrderOK(s), InCall(s)
    PROVE  /\ s \notin orders /\ pc[s] # "crashed"
           /\ pc[s] = "reserve" => resp[s] = 0 /\ ~ Failed(s)
           /\ pc[s] = "release" => Failed(s)
BY DEF InCall, StageOK, OrderOK, Failed

LEMMA CallFailsOK ==
    ASSUME BaseInv, NEW s \in Sagas, SagaOK(s), InCall(s), CallFails(s),
           UNCHANGED <<orders, events>>
    PROVE  SagaOK(s)'
<1>1. SagaTypeOK /\ s \notin orders
  BY InCallFacts DEF BaseInv, TypeOK, SagaOK
<1>2. CASE Compensate(s, 409)
  BY <1>1, <1>2, CompensateOK
<1>3. CASE ~ Compensate(s, 409)
  <2>1. /\ pc[s] = "release" /\ resp' = resp /\ pc'[s] \in {"release", "respond"}
        /\ ~ sent'[s]
    BY <1>1, <1>3 DEF CallFails, NextCall, SagaTypeOK
  <2>2. Failed(s)' /\ WaitOK(s)'
    BY <2>1, InCallFacts DEF Failed, SagaOK, WaitOK
  <2> QED
    BY <1>1, <2>1, <2>2, FailingSaga
<1> QED
  BY <1>2, <1>3

(* The attempt that is sent is the one the saga now waits for.                     *)
LEMMA SendOK ==
    ASSUME BaseInv, BaseInv', NEW s \in Sagas, SagaOK(s), Send(s)
    PROVE  SagaOK(s)'
<1>1. SagaTypeOK /\ LoopOK(s) /\ jobs \in SUBSET Jobs
  BY DEF BaseInv, TypeOK, LoopInv
<1>2. /\ UNCHANGED <<pc, idx, resp, reserved, orders, events, taken, unheard>>
      /\ ~ sent[s] /\ sent'[s] /\ tries'[s] = tries[s] + 1 /\ InCall(s)
  BY <1>1 DEF Send, SagaTypeOK
<1>3. PICK call : /\ jobs' = jobs \cup {call}
                  /\ call.saga = s /\ call.item = idx[s] /\ call.dir = pc[s]
                  /\ call.try = tries[s] + 1
  <2> DEFINE k == [saga |-> s, item |-> idx[s], dir |-> pc[s], try |-> tries[s] + 1,
                   stage |-> "select"]
  <2>1. jobs' = jobs \cup {k}
    BY DEF Send
  <2>2. k.saga = s /\ k.item = idx[s] /\ k.dir = pc[s] /\ k.try = tries[s] + 1
    OBVIOUS
  <2> HIDE DEF k
  <2> QED
    BY <2>1, <2>2
<1>4. StageOK(s)' /\ OrderOK(s)'
  BY <1>2 DEF SagaOK, StageOK, OrderOK, Failed
<1>5. WaitOK(s)'
  <2>1. call \in JobsOf(s)'
    BY <1>3 DEF JobsOf
  <2>2. Awaited(call)'
    BY <1>2, <1>3 DEF Awaited
  <2> QED
    BY <2>1, <2>2 DEF WaitOK
<1>6. LedgerOK(s)'
  <2> SUFFICES ASSUME Ordering(s)' PROVE LedgerOK(s)'
    BY DEF LedgerOK
  <2>1. Ordering(s) /\ ~ Failed(s) /\ s \notin orders
    BY <1>2, InCallFacts DEF Ordering, Failed, SagaOK
  <2>2. pc[s] = "reserve" /\ idx[s] \in Pos(s) /\ reserved[s] = idx[s] - 1
    BY <1>1, <1>2, <2>1, InCallFacts DEF InCall, LoopOK, SagaOK
  <2>3. \A j \in JobsOf(s)' : j.dir = "reserve"
    BY <1>2, <1>3, <2>1, <2>2 DEF JobsOf, SagaOK, LedgerOK
  <2>4. ASSUME NEW i \in Pos(s) PROVE ItemOK(s, i)'
    <3> DEFINE c == Cardinality(Pending(s, i))
               d == Cardinality(Pending(s, i)')
               t == taken[s][i]
               u == unheard[s][i]
    <3>1. /\ t \in Int /\ u \in Nat /\ c \in Nat /\ Pending(s, i) = PendingIn(jobs, s, i)
      BY ItemNumbers DEF BaseInv
    <3>2. d \in Nat /\ Pending(s, i)' = PendingIn(jobs', s, i)
      <4>1. Pending(s, i)' = PendingIn(jobs', s, i)
        BY DEF Pending, JobsOf, PendingIn
      <4>2. jobs' \in SUBSET Jobs
        BY DEF BaseInv, TypeOK
      <4> QED
        BY <4>1, <4>2, PendingCount
    <3>3. ItemOK(s, i)
      BY <2>1 DEF SagaOK, LedgerOK
    <3>4. Owns(s, i)' <=> Owns(s, i)
      BY <1>2 DEF Owns
    <3>5. taken'[s][i] = t /\ unheard'[s][i] = u
      BY <1>2
    <3>6. CASE i = idx[s]
      <4>1. ~ Owns(s, i) /\ ~ Asks(s, i) /\ Asks(s, i)'
        <5>1. idx[s] \in Nat
          BY <1>1, ItemsAssumption DEF SagaTypeOK
        <5> QED
          BY <1>2, <2>1, <2>2, <3>6, <5>1 DEF Owns, Asks
      <4>2. d <= c + 1
        BY <1>1, <1>3, <3>1, <3>2, PendingMore
      <4>3. t >= 0 /\ t + c <= u
        BY <3>1, <3>3, <4>1 DEF ItemOK
      <4> HIDE DEF c, d, t, u
      <4>4. t >= 0 /\ t + d <= u + 1
        BY <3>1, <3>2, <4>2, <4>3
      <4> QED
        BY <3>4, <3>5, <4>1, <4>4 DEF ItemOK, c, d, t, u
    <3>7. CASE i # idx[s]
      <4>1. Pending(s, i)' = Pending(s, i)
        BY <1>2, <1>3, <3>1, <3>2, <3>7 DEF PendingIn
      <4>2. ~ Asks(s, i) /\ ~ Asks(s, i)'
        BY <1>2, <3>7 DEF Asks
      <4> QED
        BY <3>3, <3>4, <3>5, <4>1, <4>2 DEF ItemOK
    <3> QED
      BY <3>6, <3>7
  <2> QED
    BY <2>3, <2>4 DEF LedgerOK
<1> QED
  BY <1>4, <1>5, <1>6 DEF SagaOK

(* An attempt is given up and the call goes on: the attempt that was waited for is one  *)
(* of those given up.                                                          *)
LEMMA GivenUpOK ==
    ASSUME BaseInv, NEW s \in Sagas, SagaOK(s), Timeout(s), Retries(s)
    PROVE  SagaOK(s)'
<1>1. SagaTypeOK /\ LoopOK(s) /\ TypeOK /\ LoopInv
  BY DEF BaseInv, TypeOK, LoopInv
<1>2. /\ UNCHANGED <<pc, idx, resp, reserved, orders, events, taken, jobs>>
      /\ sent[s] /\ ~ sent'[s] /\ InCall(s)
  BY <1>1 DEF Timeout, Retries, SagaTypeOK
<1>3. StageOK(s)' /\ OrderOK(s)' /\ WaitOK(s)'
  BY <1>2 DEF SagaOK, StageOK, OrderOK, Failed, WaitOK
<1>4. LedgerOK(s)'
  <2> SUFFICES ASSUME Ordering(s)' PROVE LedgerOK(s)'
    BY DEF LedgerOK
  <2>1. Ordering(s) /\ ~ Failed(s) /\ s \notin orders
    BY <1>2, InCallFacts DEF Ordering, Failed, SagaOK
  <2>2. pc[s] = "reserve"
    BY <1>2, <2>1, InCallFacts DEF InCall, SagaOK
  <2>3. \A j \in JobsOf(s)' : j.dir = "reserve"
    BY <1>2, <2>1 DEF JobsOf, SagaOK, LedgerOK
  <2>4. ASSUME NEW i \in Pos(s) PROVE ItemOK(s, i)'
    <3> DEFINE c == Cardinality(Pending(s, i))
               t == taken[s][i]
               u == unheard[s][i]
    <3>1. t \in Int /\ u \in Nat /\ c \in Nat
      BY <1>1, ItemNumbers
    <3>2. ItemOK(s, i) /\ Pending(s, i)' = Pending(s, i) /\ taken'[s][i] = t
      BY <1>2, <2>1 DEF SagaOK, LedgerOK, Pending, JobsOf
    <3>3. (Owns(s, i)' <=> Owns(s, i)) /\ ~ Asks(s, i)'
      BY <1>2 DEF Owns, Asks
    <3>4. CASE i = idx[s]
      <4>1. unheard'[s][i] = u + 1
        BY <1>1, <2>2, <3>4, UnheardRow
      <4>2. t >= (IF Owns(s, i) THEN 1 ELSE 0) /\ t + c <= u + 1
        <5>1. t >= (IF Owns(s, i) THEN 1 ELSE 0)
          BY <3>2 DEF ItemOK
        <5>2. t + c <= u + (IF Owns(s, i) \/ Asks(s, i) THEN 1 ELSE 0)
          BY <3>2 DEF ItemOK
        <5> HIDE DEF t, c, u
        <5> QED
          BY <3>1, <5>1, <5>2
      <4> HIDE DEF c, t, u
      <4>3. t + c <= u + 1 + (IF Owns(s, i) \/ Asks(s, i)' THEN 1 ELSE 0)
        BY <3>1, <4>2
      <4> QED
        BY <3>2, <3>3, <4>1, <4>2, <4>3 DEF ItemOK, c, t, u
    <3>5. CASE i # idx[s]
      <4>1. unheard'[s][i] = u /\ ~ Asks(s, i)
        BY <1>1, <2>2, <3>5, UnheardRow DEF Asks
      <4> QED
        BY <3>2, <3>3, <4>1 DEF ItemOK
    <3> QED
      BY <3>4, <3>5
  <2> QED
    BY <2>3, <2>4 DEF LedgerOK
<1> QED
  BY <1>3, <1>4 DEF SagaOK

(* The steps of a stock call on the caller's side.                             *)
LEMMA CallStepOK ==
    ASSUME BaseInv, BaseInv', NEW s \in Sagas, SagaOK(s), SagaStep(s), InCall(s)
    PROVE  SagaOK(s)'
<1>1. Send(s) \/ SendFails(s) \/ Timeout(s) \/ CallCancelled(s)
  BY DEF SagaStep, InCall, Acquire, GiveUpWaiting, Decode, DecodeFails, GetProduct,
     GetProductFails, Pay, CommitOrder, CommitFails, Publish, Respond
<1>2. Send(s) \/ CallFails(s) \/ (Timeout(s) /\ Retries(s))
  BY <1>1 DEF SendFails, Timeout, CallCancelled, AttemptFails
<1>3. ~ Send(s) => UNCHANGED <<orders, events>>
  BY <1>1 DEF SendFails, Timeout, CallCancelled
<1> QED
  BY <1>2, <1>3, SendOK, CallFailsOK, GivenUpOK

(* A step of saga s leaves the others alone.                                    *)
LEMMA SagaElsewhere ==
    ASSUME BaseInv, NEW s \in Sagas, SagaStep(s)
    PROVE  \A t \in Sagas \ {s} : Untouched(t)
<1>1. SagaTypeOK /\ ControlInv /\ TypeOK /\ LoopInv
  BY DEF BaseInv, TypeOK, ControlInv
<1>2. OthersKept(s)
  BY <1>1, SagaControl DEF Controlled
<1>3. /\ taken' = taken
      /\ orders' \in {orders, orders \cup {s}}
      /\ events' \in {events, events \cup {s}}
  BY DEF SagaStep, Acquire, GiveUpWaiting, Decode, DecodeFails, GetProduct,
     GetProductFails, Pay, CommitOrder, CommitFails, Publish, Send, SendFails, Timeout,
     CallCancelled, Respond, remoteVars
<1>4. \A t \in Sagas \ {s} : JobsOf(t)' = JobsOf(t)
  <2>1. CASE Send(s)
    BY <2>1 DEF Send, JobsOf
  <2>2. CASE ~ Send(s)
    BY <2>2 DEF SagaStep, Acquire, GiveUpWaiting, Decode, DecodeFails, GetProduct,
       GetProductFails, Pay, CommitOrder, CommitFails, Publish, SendFails, Timeout,
       CallCancelled, Respond, remoteVars, JobsOf
  <2> QED
    BY <2>1, <2>2
<1>5. \A t \in Sagas \ {s} : unheard'[t] = unheard[t]
  <2>1. CASE Timeout(s) /\ pc[s] = "reserve"
    BY <1>1, <2>1, UnheardRow
  <2>2. CASE Timeout(s) /\ pc[s] # "reserve"
    BY <2>2 DEF Timeout
  <2>3. CASE ~ Timeout(s)
    BY <2>3 DEF SagaStep, Acquire, GiveUpWaiting, Decode, DecodeFails, GetProduct,
       GetProductFails, Pay, CommitOrder, CommitFails, Publish, Send, SendFails,
       CallCancelled, Respond, remoteVars
  <2> QED
    BY <2>1, <2>2, <2>3
<1> QED
  BY <1>2, <1>3, <1>4, <1>5 DEF OthersKept, Untouched

LEMMA SagaStepOrder ==
    ASSUME BaseInv, BaseInv', OrderInv, "commitUnknown" \notin Faults,
           NEW s \in Sagas, SagaStep(s)
    PROVE  OrderInv'
<1>1. \A t \in Sagas : SagaOK(t)
  BY DEF OrderInv, SagaOK
<1>2. SagaOK(s)'
  BY <1>1, OwnStepOK, CallStepOK
<1>3. \A t \in Sagas \ {s} : SagaOK(t)'
  BY <1>1, SagaElsewhere, UntouchedOK
<1> QED
  BY <1>2, <1>3 DEF OrderInv, SagaOK

-----------------------------------------------------------------------------
(* The ledger when a job's UPDATE commits.                                     *)
LEMMA UpdateRow ==
    ASSUME BaseInv, NEW j \in jobs, Update(j)
    PROVE  /\ \A t \in Sagas \ {j.saga} : taken'[t] = taken[t]
           /\ \A i \in Pos(j.saga) : i # j.item => taken'[j.saga][i] = taken[j.saga][i]
           /\ j.dir = "reserve" => taken'[j.saga][j.item] = taken[j.saga][j.item] + 1
           /\ j.dir # "reserve" => taken'[j.saga][j.item] = taken[j.saga][j.item] - 1
<1>1. j.saga \in Sagas /\ j.item \in 1 .. MaxItems
  BY DEF BaseInv, TypeOK, Jobs
<1>2. taken \in [Sagas -> [1 .. MaxItems -> Int]]
  BY DEF BaseInv, TypeOK
<1> DEFINE row == taken[j.saga]
           entry == [row EXCEPT ![j.item] = IF j.dir = "reserve" THEN @ + 1 ELSE @ - 1]
<1>3. row \in [1 .. MaxItems -> Int]
  BY <1>1, <1>2
<1>4. taken' = [taken EXCEPT ![j.saga] = entry]
  BY DEF Update
<1>5. taken'[j.saga] = entry /\ \A t \in Sagas \ {j.saga} : taken'[t] = taken[t]
  BY <1>1, <1>2, <1>4
<1>6. /\ j.dir = "reserve" => entry[j.item] = row[j.item] + 1
      /\ j.dir # "reserve" => entry[j.item] = row[j.item] - 1
      /\ \A i \in 1 .. MaxItems : i # j.item => entry[i] = row[i]
  <2> HIDE DEF row
  <2> QED
    BY <1>1, <1>3
<1> HIDE DEF entry
<1> QED
  BY <1>1, <1>5, <1>6, ItemFacts DEF row

(* What a job step does to the jobs: it reads on, or is over.                     *)
LEMMA JobMoves ==
    ASSUME jobs \in SUBSET Jobs, NEW j \in jobs, JobStep(j)
    PROVE  \/ ~ Select(j) /\ jobs' = jobs \ {j}
           \/ /\ Select(j)
              /\ \E k \in Jobs : /\ jobs' = (jobs \ {j}) \cup {k}
                                 /\ k.saga = j.saga /\ k.item = j.item
                                 /\ k.dir = j.dir /\ k.try = j.try
<1>1. CASE Select(j)
  <2> DEFINE k == [j EXCEPT !.stage = "update"]
  <2>1. k \in Jobs /\ k.saga = j.saga /\ k.item = j.item /\ k.dir = j.dir /\ k.try = j.try
    BY DEF Jobs
  <2>2. jobs' = (jobs \ {j}) \cup {k}
    BY <1>1 DEF Select
  <2> HIDE DEF k
  <2> QED
    BY <1>1, <2>1, <2>2
<1>2. CASE ~ Select(j)
  BY <1>2 DEF JobStep, Refuse, Update, UpdateFails, Deliver
<1> QED
  BY <1>1, <1>2

(* A saga that still waits after the step of a job of its own still has one to wait    *)
(* for.                                                                       *)
LEMMA JobWait ==
    ASSUME BaseInv, NEW j \in jobs, JobStep(j), WaitOK(j.saga)
    PROVE  WaitOK(j.saga)'
<1> DEFINE s == j.saga
<1>1. SagaTypeOK /\ jobs \in SUBSET Jobs /\ s \in Sagas
  BY DEF BaseInv, TypeOK, Jobs
<1>2. PICK t : t = s
  OBVIOUS
<1>3. UNCHANGED sagaVars \/ (Awaited(j) /\ ~ sent'[s])
  <2>1. UNCHANGED sagaVars \/ (Awaited(j) /\ (AttemptFails(s) \/ CallSucceeds(s)))
    BY DEF JobStep, Select, Refuse, Update, UpdateFails, Deliver, AttemptFails
  <2>2. AttemptFails(s) \/ CallSucceeds(s) => ~ sent'[s]
    BY <1>1 DEF AttemptFails, Retries, CallFails, Compensate, CallSucceeds, NextCall, SagaTypeOK
  <2> QED
    BY <2>1, <2>2
<1>4. CASE UNCHANGED sagaVars
  <2> SUFFICES ASSUME sent[t] PROVE \E l \in JobsOf(t)' : Awaited(l)'
    BY <1>2, <1>4 DEF WaitOK, sagaVars
  <2>1. PICK l \in JobsOf(t) : Awaited(l)
    BY <1>2 DEF WaitOK
  <2>2. l \in jobs /\ l.saga = t
    BY <2>1 DEF JobsOf
  <2>3. PICK m : /\ m \in jobs' /\ m.saga = l.saga /\ m.item = l.item
                 /\ m.dir = l.dir /\ m.try = l.try
    <3>1. CASE l \in jobs'
      BY <3>1
    <3>2. CASE l \notin jobs'
      <4>1. l = j
        BY <1>1, <2>2, <3>2, JobMoves
      <4>2. Awaited(j) => Select(j) \/ ~ UNCHANGED sagaVars
        <5>1. ASSUME Awaited(j), ~ Select(j) PROVE ~ sent'[s]
          BY <1>1, <5>1 DEF JobStep, Refuse, Update, UpdateFails, Deliver, AttemptFails, Retries,
             CallFails, Compensate, CallSucceeds, NextCall, SagaTypeOK
        <5> QED
          BY <5>1 DEF Awaited, sagaVars
      <4>3. Select(j)
        BY <1>4, <2>1, <4>1, <4>2
      <4>4. \E k \in Jobs : /\ jobs' = (jobs \ {j}) \cup {k}
                            /\ k.saga = j.saga /\ k.item = j.item
                            /\ k.dir = j.dir /\ k.try = j.try
        BY <1>1, <4>3, JobMoves
      <4> QED
        BY <4>1, <4>4
    <3> QED
      BY <3>1, <3>2
  <2>4. m \in JobsOf(t)'
    BY <2>2, <2>3 DEF JobsOf
  <2>5. Awaited(m)'
    BY <1>4, <2>1, <2>3 DEF Awaited, sagaVars
  <2> QED
    BY <2>4, <2>5
<1>5. CASE Awaited(j) /\ ~ sent'[s]
  BY <1>5 DEF WaitOK
<1> QED
  BY <1>3, <1>4, <1>5

(* The counts of an item other than the one of the job, and of that one.             *)
LEMMA JobCounts ==
    ASSUME BaseInv, BaseInv', NEW j \in jobs, JobStep(j), NEW s \in Sagas, s = j.saga,
           NEW i \in Pos(s)
    PROVE  /\ i # j.item => Pending(s, i)' = Pending(s, i) /\ taken'[s][i] = taken[s][i]
           /\ i = j.item =>
                /\ Cardinality(Pending(s, i)') <= Cardinality(Pending(s, i))
                /\ ~ Select(j) => Cardinality(Pending(s, i)') = Cardinality(Pending(s, i)) - 1
           /\ ~ Update(j) => taken' = taken
           /\ unheard' = unheard
<1>1. jobs \in SUBSET Jobs /\ jobs' \in SUBSET Jobs /\ TypeOK
  BY DEF BaseInv, TypeOK
<1>2. Pending(s, i) = PendingIn(jobs, s, i) /\ Pending(s, i)' = PendingIn(jobs', s, i)
  BY DEF Pending, JobsOf, PendingIn
<1>3. /\ Cardinality(PendingIn(jobs, s, i)) \in Nat
      /\ Cardinality(PendingIn(jobs', s, i)) \in Nat
  BY <1>1, PendingCount
<1>4. ~ Update(j) => taken' = taken
  BY DEF JobStep, Select, Refuse, UpdateFails
<1>5. unheard' = unheard
  BY DEF JobStep, Select, Refuse, Update, UpdateFails
<1>6. i # j.item => taken'[s][i] = taken[s][i]
  BY <1>4, UpdateRow
<1>7. i = j.item => j \in PendingIn(jobs, s, i)
  BY DEF PendingIn
<1>8. CASE ~ Select(j) /\ jobs' = jobs \ {j}
  <2>1. i # j.item => PendingIn(jobs \ {j}, s, i) = PendingIn(jobs, s, i)
    BY DEF PendingIn
  <2>2. i = j.item =>
          Cardinality(PendingIn(jobs \ {j}, s, i)) = Cardinality(PendingIn(jobs, s, i)) - 1
    BY <1>1, <1>7, PendingLess
  <2> QED
    BY <1>2, <1>3, <1>4, <1>5, <1>6, <1>8, <2>1, <2>2
<1>9. ASSUME Select(j), NEW k \in Jobs, jobs' = (jobs \ {j}) \cup {k},
             k.saga = j.saga, k.item = j.item
      PROVE  /\ i # j.item => Pending(s, i)' = Pending(s, i)
             /\ i = j.item => Cardinality(Pending(s, i)') <= Cardinality(Pending(s, i))
  <2>1. i # j.item => PendingIn((jobs \ {j}) \cup {k}, s, i) = PendingIn(jobs, s, i)
    BY <1>9 DEF PendingIn
  <2>2. i = j.item =>
          Cardinality(PendingIn((jobs \ {j}) \cup {k}, s, i))
            <= Cardinality(PendingIn(jobs, s, i))
    BY <1>1, <1>7, PendingSwap
  <2> QED
    BY <1>2, <1>9, <2>1, <2>2
<1> QED
  BY <1>1, <1>4, <1>5, <1>6, <1>8, <1>9, JobMoves

(* What a job step makes of what its saga owns and asks for.                         *)
LEMMA JobClaims ==
    ASSUME BaseInv, NEW j \in jobs, JobStep(j), NEW s \in Sagas, s = j.saga,
           j.dir = "reserve", ~ CallFails(s) \/ ~ Awaited(j),
           NEW i \in Pos(s)
    PROVE  /\ i # j.item => (Owns(s, i)' <=> Owns(s, i)) /\ (Asks(s, i)' <=> Asks(s, i))
           /\ i = j.item =>
                \/ (Owns(s, i)' <=> Owns(s, i)) /\ (Asks(s, i)' <=> Asks(s, i))
                \/ Update(j) /\ Asks(s, i) /\ Owns(s, i)'
                \/ /\ ~ Update(j) /\ ~ Select(j)
                   /\ (Owns(s, i)' <=> Owns(s, i))
<1>1. SagaTypeOK /\ LoopOK(s)
  BY DEF BaseInv, TypeOK, LoopInv
<1>2. orders' = orders
  BY DEF JobStep, Select, Refuse, Update, UpdateFails, Deliver
<1>3. CASE UNCHANGED sagaVars
  BY <1>2, <1>3 DEF sagaVars, Owns, Asks
<1>4. CASE Awaited(j) /\ Update(j) /\ CallSucceeds(s)
  <2>1. /\ pc[s] = "reserve" /\ idx[s] = j.item /\ sent[s] /\ ~ sent'[s]
        /\ reserved'[s] = j.item /\ reserved[s] = j.item - 1
    BY <1>1, <1>4 DEF Awaited, CallSucceeds, NextCall, LoopOK, SagaTypeOK
  <2>2. i \in Nat /\ j.item \in Nat
    BY <1>1, <2>1, ItemFacts DEF LoopOK
  <2>3. i # j.item => (i <= j.item <=> i <= j.item - 1)
    BY <2>2
  <2>4. i # j.item => (Owns(s, i)' <=> Owns(s, i)) /\ ~ Asks(s, i) /\ ~ Asks(s, i)'
    BY <1>2, <2>1, <2>3 DEF Owns, Asks
  <2>5. i = j.item => Asks(s, i) /\ Owns(s, i)'
    BY <2>1, <2>2 DEF Owns, Asks
  <2> QED
    BY <1>4, <2>4, <2>5
<1>5. CASE Awaited(j) /\ UpdateFails(j) /\ Retries(s)
  <2>1. UNCHANGED <<pc, idx, reserved>> /\ idx[s] = j.item /\ ~ sent'[s] /\ pc[s] = "reserve"
    BY <1>1, <1>5 DEF Awaited, Retries, SagaTypeOK
  <2>2. /\ Owns(s, i)' <=> Owns(s, i)
        /\ i # j.item => ~ Asks(s, i) /\ ~ Asks(s, i)'
    BY <1>2, <2>1 DEF Owns, Asks
  <2>3. ~ Update(j) /\ ~ Select(j)
    <3>1. jobs' = jobs \ {j}
      BY <1>5 DEF UpdateFails, Deliver
    <3>2. ~ Select(j)
      BY <1>1, <1>5 DEF Select, sagaVars, Retries, SagaTypeOK, Awaited
    <3>3. ~ Update(j)
      BY <1>1, <1>5, <2>1 DEF Update, Deliver, CallSucceeds, NextCall, Retries, SagaTypeOK
    <3> QED
      BY <3>2, <3>3
  <2> QED
    BY <2>2, <2>3
<1> QED
  BY <1>3, <1>4, <1>5 DEF JobStep, Select, Refuse, Update, UpdateFails, Deliver, AttemptFails

LEMMA JobLedger ==
    ASSUME BaseInv, BaseInv', NEW j \in jobs, JobStep(j), NEW s \in Sagas, s = j.saga,
           SagaOK(s), Ordering(s), ~ CallFails(s) \/ ~ Awaited(j)
    PROVE  LedgerOK(s)'
<1>1. TypeOK /\ jobs \in SUBSET Jobs
  BY DEF BaseInv, TypeOK
<1>2. j.dir = "reserve" /\ \A l \in JobsOf(s) : l.dir = "reserve"
  BY DEF SagaOK, LedgerOK, JobsOf
<1>3. \A l \in JobsOf(s)' : l.dir = "reserve"
  BY <1>1, <1>2, JobMoves DEF JobsOf
<1>4. ASSUME NEW i \in Pos(s) PROVE ItemOK(s, i)'
  <2> DEFINE c == Cardinality(Pending(s, i))
             d == Cardinality(Pending(s, i)')
             t == taken[s][i]
             v == taken'[s][i]
             u == unheard[s][i]
             own == Owns(s, i)
             ask == Asks(s, i)
  <2>1. t \in Int /\ u \in Nat /\ c \in Nat
    BY <1>1, ItemNumbers
  <2>2. d \in Nat
    <3>1. Pending(s, i)' = PendingIn(jobs', s, i) /\ jobs' \in SUBSET Jobs
      BY DEF Pending, JobsOf, PendingIn, BaseInv, TypeOK
    <3> QED
      BY <3>1, PendingCount
  <2>3. t >= (IF own THEN 1 ELSE 0) /\ t + c <= u + (IF own \/ ask THEN 1 ELSE 0)
    BY DEF SagaOK, LedgerOK, ItemOK
  <2>4. /\ i # j.item => d = c /\ v = t
        /\ i = j.item => d <= c /\ (~ Select(j) => d = c - 1)
        /\ ~ Update(j) => v = t
        /\ unheard' = unheard
    BY JobCounts
  <2>5. Update(j) /\ i = j.item => v = t + 1 /\ ~ Select(j)
    BY <1>2, UpdateRow DEF Update, Select
  <2>6. /\ i # j.item => (own' <=> own) /\ (ask' <=> ask)
        /\ i = j.item => \/ (own' <=> own) /\ (ask' <=> ask)
                         \/ Update(j) /\ ask /\ own'
                         \/ ~ Update(j) /\ ~ Select(j) /\ (own' <=> own)
    BY <1>2, JobClaims
  <2>7. unheard'[s][i] = u
    BY <2>4
  <2> HIDE DEF c, d, t, v, u
  <2>8. v >= (IF own' THEN 1 ELSE 0) /\ v + d <= u + (IF own' \/ ask' THEN 1 ELSE 0)
    <3> HIDE DEF own, ask
    <3>1. CASE i # j.item
      BY <2>1, <2>2, <2>3, <2>4, <2>6, <3>1
    <3>2. CASE i = j.item /\ (own' <=> own) /\ (ask' <=> ask)
      <4>1. CASE Update(j)
        BY <2>1, <2>2, <2>3, <2>4, <2>5, <3>2, <4>1
      <4>2. CASE ~ Update(j)
        BY <2>1, <2>2, <2>3, <2>4, <3>2, <4>2
      <4> QED
        BY <4>1, <4>2
    <3>3. CASE i = j.item /\ Update(j) /\ ask /\ own'
      BY <2>1, <2>2, <2>3, <2>4, <2>5, <3>3
    <3>4. CASE i = j.item /\ ~ Update(j) /\ ~ Select(j) /\ (own' <=> own)
      BY <2>1, <2>2, <2>3, <2>4, <3>4
    <3> QED
      BY <2>6, <3>1, <3>2, <3>3, <3>4
  <2> QED
    BY <2>7, <2>8 DEF ItemOK, c, d, t, v, u
<1> QED
  BY <1>3, <1>4 DEF LedgerOK

(* A job of a saga that has failed, or has died without an order.                   *)
LEMMA JobStepOK ==
    ASSUME BaseInv, BaseInv', NEW j \in jobs, JobStep(j), NEW s \in Sagas, s = j.saga, SagaOK(s)
    PROVE  SagaOK(s)'
<1>1. SagaTypeOK /\ jobs \in SUBSET Jobs /\ UNCHANGED <<orders, events>>
  BY JobTypes DEF BaseInv, TypeOK
<1>2. WaitOK(s)'
  BY JobWait DEF SagaOK
<1>3. CASE Awaited(j) /\ CallFails(s)
  BY <1>1, <1>3, CallFailsOK DEF Awaited, InCall, Jobs
<1>4. CASE ~ (Awaited(j) /\ CallFails(s))
  <2>1. \/ UNCHANGED <<pc, resp>>
        \/ Awaited(j) /\ CallSucceeds(s) /\ resp' = resp
    BY <1>4 DEF JobStep, Select, Refuse, Update, UpdateFails, Deliver, AttemptFails, Retries,
       CallSucceeds, sagaVars
  <2>2. StageOK(s)' /\ OrderOK(s)'
    <3>1. CASE UNCHANGED <<pc, resp>>
      BY <1>1, <3>1 DEF SagaOK, StageOK, OrderOK, Failed
    <3>2. CASE Awaited(j) /\ CallSucceeds(s) /\ resp' = resp
      <4>1. InCall(s) /\ (pc[s] = "reserve" => pc'[s] \in {"getProduct", "pay"})
            /\ (pc[s] = "release" => pc'[s] \in {"release", "respond"})
        BY <1>1, <3>2 DEF Awaited, InCall, CallSucceeds, LoopHead, SagaTypeOK, Jobs
      <4>2. s \notin orders /\ (pc[s] = "reserve" => resp[s] = 0)
            /\ (pc[s] = "release" => Failed(s))
        BY <4>1, InCallFacts DEF SagaOK
      <4> QED
        BY <1>1, <3>2, <4>1, <4>2 DEF InCall, SagaOK, StageOK, OrderOK, Failed
    <3> QED
      BY <2>1, <3>1, <3>2
  <2>3. LedgerOK(s)'
    <3>1. CASE Ordering(s)
      BY <1>4, <3>1, JobLedger
    <3>2. CASE ~ Ordering(s)
      <4>1. s \notin orders /\ (Failed(s) \/ pc[s] = "crashed")
        BY <3>2 DEF Ordering
      <4>2. s \notin orders' /\ (Failed(s)' \/ pc'[s] = "crashed")
        <5>1. pc[s] = "crashed" => ~ Awaited(j)
          BY <1>1 DEF Awaited, Jobs
        <5> QED
          BY <1>1, <2>1, <4>1, <5>1 DEF Failed
      <4> QED
        BY <4>2 DEF LedgerOK, Ordering
    <3> QED
      BY <3>1, <3>2
  <2> QED
    BY <1>2, <2>2, <2>3 DEF SagaOK
<1> QED
  BY <1>3, <1>4

LEMMA JobElsewhere ==
    ASSUME BaseInv, NEW j \in jobs, JobStep(j)
    PROVE  \A t \in Sagas \ {j.saga} : Untouched(t)
<1> DEFINE s == j.saga
<1>1. ControlInv /\ jobs \in SUBSET Jobs /\ j \in Jobs
  BY DEF BaseInv, TypeOK, ControlInv
<1>2. s \in Sagas /\ UNCHANGED <<orders, events, unheard>>
  BY <1>1, JobTypes, JobControl
<1>3. OthersKept(s)
  <2>1. UNCHANGED sagaVars \/ Controlled(s)
    BY <1>1, JobControl
  <2> QED
    BY <2>1 DEF Controlled, OthersKept, sagaVars
<1>4. \A t \in Sagas \ {s} : taken'[t] = taken[t]
  BY UpdateRow DEF JobStep, Select, Refuse, UpdateFails
<1>5. \A t \in Sagas \ {s} : JobsOf(t)' = JobsOf(t)
  BY <1>1, JobMoves DEF JobsOf
<1> QED
  BY <1>2, <1>3, <1>4, <1>5 DEF OthersKept, Untouched

LEMMA JobStepOrder ==
    ASSUME BaseInv, BaseInv', OrderInv, NEW j \in jobs, JobStep(j)
    PROVE  OrderInv'
<1>1. j.saga \in Sagas /\ \A t \in Sagas : SagaOK(t)
  BY DEF BaseInv, TypeOK, Jobs, OrderInv, SagaOK
<1>2. SagaOK(j.saga)'
  <2>1. PICK s \in Sagas : s = j.saga
    BY <1>1
  <2> QED
    BY <1>1, <2>1, JobStepOK
<1>3. \A t \in Sagas \ {j.saga} : SagaOK(t)'
  BY <1>1, JobElsewhere, UntouchedOK
<1> QED
  BY <1>2, <1>3 DEF OrderInv, SagaOK

-----------------------------------------------------------------------------
LEMMA CrashOrder ==
    ASSUME BaseInv, OrderInv, Crash
    PROVE  OrderInv'
<1>1. SagaTypeOK /\ LoopInv
  BY DEF BaseInv, TypeOK
<1>2. ASSUME NEW s \in Sagas PROVE SagaOK(s)'
  <2>1. /\ UNCHANGED <<resp, orders, events, taken, unheard, jobs>>
        /\ reserved'[s] = 0 /\ ~ sent'[s]
        /\ \/ pc'[s] = "crashed"
           \/ pc'[s] = pc[s] /\ pc[s] \in {"waiting", "done"}
    BY <1>1 DEF Crash, SagaTypeOK, remoteVars
  <2>2. SagaOK(s)
    BY DEF OrderInv, SagaOK
  <2>3. StageOK(s)' /\ OrderOK(s)' /\ WaitOK(s)'
    BY <2>1, <2>2 DEF SagaOK, StageOK, OrderOK, WaitOK, Failed
  <2>4. CASE s \in orders
    <3>1. JobsOf(s)' = JobsOf(s) /\ \A i : Pending(s, i)' = Pending(s, i)
      BY <2>1 DEF JobsOf, Pending
    <3>2. \A i \in Pos(s) : ItemOK(s, i) => ItemOK(s, i)'
      BY <2>1, <2>4, <3>1 DEF ItemOK, Owns
    <3> QED
      BY <2>2, <2>3, <2>4, <3>1, <3>2 DEF SagaOK, LedgerOK, Ordering
  <2>5. CASE s \notin orders /\ pc'[s] = pc[s] /\ pc[s] = "waiting"
    <3>1. reserved[s] = 0
      BY <1>1, <2>5 DEF LoopInv, LoopOK
    <3>2. /\ Ordering(s)' => Ordering(s)
          /\ \A i \in Pos(s) : Owns(s, i)' <=> Owns(s, i)
          /\ \A i \in Pos(s) : Asks(s, i)' <=> Asks(s, i)
      BY <2>1, <2>5, <3>1 DEF Ordering, Failed, Owns, Asks
    <3> QED
      BY <2>1, <2>2, <2>3, <3>2, LedgerKept DEF SagaOK
  <2>6. CASE s \notin orders /\ pc'[s] = pc[s] /\ pc[s] = "done"
    <3>1. Failed(s)
      BY <1>1, <2>2, <2>6 DEF SagaOK, StageOK, OrderOK, Failed, SagaTypeOK, Codes
    <3> QED
      BY <2>1, <2>3, <2>6, <3>1 DEF SagaOK, LedgerOK, Ordering, Failed
  <2>7. CASE s \notin orders /\ pc'[s] = "crashed"
    BY <2>1, <2>3, <2>7 DEF SagaOK, LedgerOK, Ordering
  <2> QED
    BY <2>1, <2>4, <2>5, <2>6, <2>7
<1> QED
  BY <1>2 DEF OrderInv, SagaOK

LEMMA OrderInit == Init => OrderInv
<1> SUFFICES ASSUME Init, NEW s \in Sagas PROVE SagaOK(s)
  BY DEF OrderInv, SagaOK
<1>1. \A i \in Pos(s) : i \in 1 .. MaxItems /\ ~ i <= 0
  BY ItemFacts DEF Pos
<1>2. StageOK(s) /\ OrderOK(s) /\ WaitOK(s)
  BY DEF Init, StageOK, OrderOK, WaitOK, Failed
<1>3. ASSUME NEW i \in Pos(s) PROVE ItemOK(s, i)
  <2>1. Pending(s, i) = {} /\ Cardinality({}) = 0
    BY FS_EmptySet DEF Init, Pending, JobsOf
  <2>2. taken[s][i] = 0 /\ unheard[s][i] = 0 /\ ~ Owns(s, i)
    BY <1>1 DEF Init, Owns
  <2> QED
    BY <2>1, <2>2 DEF ItemOK
<1> QED
  BY <1>2, <1>3 DEF Init, SagaOK, LedgerOK, JobsOf

LEMMA OrderStep ==
    ASSUME "commitUnknown" \notin Faults
    PROVE  BaseInv /\ OrderInv /\ [Next]_vars => OrderInv'
<1> SUFFICES ASSUME BaseInv, OrderInv, [Next]_vars PROVE OrderInv'
  OBVIOUS
<1>1. BaseInv'
  BY BaseStep
<1>2. ASSUME \A s \in Sagas : Untouched(s) PROVE OrderInv'
  BY <1>2, UntouchedOK DEF OrderInv, SagaOK
<1>3. CASE UNCHANGED vars
  BY <1>2, <1>3 DEF vars, Untouched, JobsOf
<1>4. ASSUME NEW s \in Sagas, Cancel(s) PROVE OrderInv'
  BY <1>2, <1>4 DEF Cancel, sagaVars, remoteVars, Untouched, JobsOf
<1> QED
  BY <1>1, <1>3, <1>4, SagaStepOrder, JobStepOrder, CrashOrder DEF Next, Rest

-----------------------------------------------------------------------------
(* Orders, answers, jobs and the stock ledger are tied together as OrderInv says.  *)
THEOREM OrderInvariant ==
    ASSUME "commitUnknown" \notin Faults
    PROVE  Spec => []OrderInv
BY OrderInit, OrderStep, BaseInvariant, PTL DEF Spec

(* No order without its stock: whatever crashes, times out or is cancelled, every      *)
(* item of an order that was committed has been taken from the stock, and more often    *)
(* than once only as often as an attempt was given up that could still take effect.     *)
THEOREM OrdersOwnTheirStock ==
    ASSUME "commitUnknown" \notin Faults
    PROVE  Spec => []OrdersHaveTheirStock
<1>1. BaseInv /\ OrderInv => OrdersHaveTheirStock
  <2> SUFFICES ASSUME BaseInv, OrderInv, NEW s \in orders, NEW i \in Pos(s)
               PROVE  taken[s][i] \in 1 .. (1 + unheard[s][i])
    BY DEF OrdersHaveTheirStock
  <2>1. s \in Sagas /\ TypeOK
    BY DEF BaseInv, TypeOK
  <2>2. ItemOK(s, i) /\ Owns(s, i)
    BY <2>1 DEF OrderInv, LedgerOK, Ordering, Owns
  <2> DEFINE t == taken[s][i]
             u == unheard[s][i]
             c == Cardinality(Pending(s, i))
  <2>3. t \in Int /\ u \in Nat /\ c \in Nat
    BY <2>1, ItemNumbers
  <2>4. t >= 1 /\ t + c <= u + 1
    BY <2>2 DEF ItemOK
  <2> HIDE DEF t, u, c
  <2>5. t \in 1 .. (1 + u)
    BY <2>3, <2>4
  <2> QED
    BY <2>5 DEF t, u
<1> QED
  BY <1>1, BaseInvariant, OrderInvariant, PTL

(* The client's answer and the database agree, and so do the events.             *)
THEOREM AnswersMatchOrders ==
    ASSUME "commitUnknown" \notin Faults
    PROVE  Spec => []AnswerMatchesOrder
<1>1. BaseInv /\ OrderInv => AnswerMatchesOrder
  <2> SUFFICES ASSUME BaseInv, OrderInv PROVE AnswerMatchesOrder
    OBVIOUS
  <2>1. \A s \in Sagas : resp[s] \in Codes /\ StageOK(s) /\ OrderOK(s)
    BY DEF BaseInv, TypeOK, SagaTypeOK, OrderInv
  <2>2. orders \subseteq Sagas /\ events \subseteq Sagas
    BY DEF BaseInv, TypeOK
  <2> QED
    BY <2>1, <2>2 DEF AnswerMatchesOrder, StageOK, OrderOK, Failed, Codes
<1> QED
  BY <1>1, BaseInvariant, OrderInvariant, PTL

-----------------------------------------------------------------------------
(* Without lost replies, cancellations and crashes the saga implements            *)
(* OrderRequests: a failed saga gives back, item by item, what it took, and what   *)
(* it could not give back is what it logged.                                    *)

CleanFaults == Faults \subseteq {"unavailable", "orderDB", "brokerDown"}

(* No reply is lost, so no attempt is given up that could still take effect.          *)
NoneUnheard == \A s \in Sagas : \A i \in Pos(s) : unheard[s][i] = 0

LEMMA NoneUnheardInvariant ==
    ASSUME CleanFaults
    PROVE  Spec => []NoneUnheard
<1>1. Init => NoneUnheard
  BY ItemFacts DEF Init, NoneUnheard
<1>2. NoneUnheard /\ [Next]_vars => NoneUnheard'
  <2> SUFFICES ASSUME NoneUnheard, [Next]_vars PROVE unheard' = unheard
    BY DEF NoneUnheard
  <2>1. ASSUME NEW s \in Sagas, SagaStep(s) PROVE unheard' = unheard
    BY <2>1 DEF CleanFaults, SagaStep, Acquire, GiveUpWaiting, Decode, DecodeFails, GetProduct,
       GetProductFails, Pay, CommitOrder, CommitFails, Publish, Send, SendFails, Timeout,
       CallCancelled, Respond, remoteVars
  <2>2. ASSUME NEW j \in jobs, JobStep(j) PROVE unheard' = unheard
    BY <2>2 DEF JobStep, Select, Refuse, Update, UpdateFails
  <2> QED
    BY <2>1, <2>2 DEF Next, Cancel, Crash, Rest, vars, remoteVars
<1> QED
  BY <1>1, <1>2, PTL DEF Spec

(* Then the ledger is exact: what a saga on its way to an order counts as reserved was  *)
(* taken once, nothing else was, and its one job, if any, is the call it waits for.      *)
ExactOK(s) ==
    /\ s \in orders =>
          /\ \A i \in Pos(s) : taken[s][i] = 1
          /\ \A j \in jobs : j.saga # s
    /\ s \notin orders /\ ~ Failed(s) /\ pc[s] # "crashed" =>
          /\ \A i \in Pos(s) : taken[s][i] = IF i <= reserved[s] THEN 1 ELSE 0
          /\ \A j \in jobs : j.saga = s => Awaited(j)
          /\ \A j, k \in jobs : j.saga = s /\ k.saga = s => j = k

ExactSaga(s) == StageOK(s) /\ OrderOK(s) /\ ExactOK(s)

ExactInv == \A s \in Sagas : ExactSaga(s)

(* What the ledger says of item i while nothing is given up.                        *)
LEMMA ExactItem ==
    ASSUME NEW s \in Sagas, NEW i \in Pos(s), BaseInv, SagaOK(s), Ordering(s), NoneUnheard
    PROVE  /\ Owns(s, i) => taken[s][i] = 1 /\ Pending(s, i) = {}
           /\ ~ Owns(s, i) /\ ~ Asks(s, i) => taken[s][i] = 0 /\ Pending(s, i) = {}
           /\ ~ Owns(s, i) /\ Asks(s, i) =>
                taken[s][i] = 0 /\ \E j : Awaited(j) /\ Pending(s, i) = {j}
<1> DEFINE P == Pending(s, i)
           c == Cardinality(P)
           t == taken[s][i]
<1>1. t \in Int /\ c \in Nat /\ IsFiniteSet(P)
  BY ItemNumbers, PendingCount DEF BaseInv, TypeOK
<1>2. /\ t >= (IF Owns(s, i) THEN 1 ELSE 0)
      /\ t + c <= 0 + (IF Owns(s, i) \/ Asks(s, i) THEN 1 ELSE 0)
  BY DEF SagaOK, LedgerOK, ItemOK, NoneUnheard
<1>3. c = 0 => P = {}
  <2> HIDE DEF P
  <2> QED
    BY <1>1, FS_EmptySet
<1>4. CASE Owns(s, i)
  <2>1. t = 1 /\ c = 0
    <3> HIDE DEF t, c
    <3> QED
      BY <1>1, <1>2, <1>4
  <2> QED
    BY <1>3, <1>4, <2>1
<1>5. CASE ~ Owns(s, i) /\ ~ Asks(s, i)
  <2>1. t = 0 /\ c = 0
    <3> HIDE DEF t, c
    <3> QED
      BY <1>1, <1>2, <1>5
  <2> QED
    BY <1>3, <1>5, <2>1
<1>6. CASE ~ Owns(s, i) /\ Asks(s, i)
  <2>1. PICK j \in JobsOf(s) : Awaited(j)
    BY <1>6 DEF Asks, SagaOK, WaitOK
  <2>2. j \in P
    BY <1>6, <2>1 DEF Awaited, Asks, Pending, JobsOf
  <2>3. IsFiniteSet(P \ {j}) /\ Cardinality(P \ {j}) = c - 1 /\ Cardinality(P \ {j}) \in Nat
    <3> HIDE DEF P
    <3> QED
      BY <1>1, <2>2, FS_RemoveElement, FS_CardinalityType
  <2>4. t = 0 /\ c - 1 = 0
    <3>1. c - 1 \in Nat
      BY <2>3
    <3> HIDE DEF t, c
    <3> QED
      BY <1>1, <1>2, <1>6, <3>1
  <2>5. P \ {j} = {}
    <3> HIDE DEF P
    <3> QED
      BY <2>3, <2>4, FS_EmptySet
  <2> QED
    BY <1>6, <2>1, <2>2, <2>4, <2>5
<1> QED
  BY <1>4, <1>5, <1>6

LEMMA ExactLedger ==
    ASSUME NEW s \in Sagas, BaseInv, SagaOK(s), NoneUnheard
    PROVE  ExactSaga(s)
<1>1. \A j \in jobs : j.saga = s => j.item \in Pos(s) /\ j \in Pending(s, j.item)
  BY DEF BaseInv, JobItems, Pending, JobsOf
<1>2. ASSUME s \in orders
      PROVE  (\A i \in Pos(s) : taken[s][i] = 1) /\ (\A j \in jobs : j.saga # s)
  <2>1. \A i \in Pos(s) : taken[s][i] = 1 /\ Pending(s, i) = {}
    BY <1>2, ExactItem DEF Ordering, Owns
  <2> QED
    BY <1>1, <2>1
<1>3. ASSUME s \notin orders, ~ Failed(s), pc[s] # "crashed"
      PROVE  /\ \A i \in Pos(s) : taken[s][i] = IF i <= reserved[s] THEN 1 ELSE 0
             /\ \A j \in jobs : j.saga = s => Awaited(j)
             /\ \A j, k \in jobs : j.saga = s /\ k.saga = s => j = k
  <2>1. Ordering(s) /\ \A i \in Pos(s) : Owns(s, i) <=> i <= reserved[s]
    BY <1>3 DEF Ordering, Owns
  <2>2. \A i \in Pos(s) : taken[s][i] = IF i <= reserved[s] THEN 1 ELSE 0
    BY <2>1, ExactItem
  <2>3. \A j \in jobs : j.saga = s => Asks(s, j.item) /\ Awaited(j) /\ Pending(s, j.item) = {j}
    <3> SUFFICES ASSUME NEW j \in jobs, j.saga = s
                 PROVE  Asks(s, j.item) /\ Awaited(j) /\ Pending(s, j.item) = {j}
      OBVIOUS
    <3>1. j.item \in Pos(s) /\ j \in Pending(s, j.item)
      BY <1>1
    <3>2. ~ Owns(s, j.item) /\ Asks(s, j.item)
      BY <2>1, <3>1, ExactItem
    <3>3. PICK k : Awaited(k) /\ Pending(s, j.item) = {k}
      BY <2>1, <3>1, <3>2, ExactItem
    <3>4. j = k
      BY <3>1, <3>3
    <3> QED
      BY <3>2, <3>3, <3>4
  <2>4. \A j, k \in jobs : j.saga = s /\ k.saga = s => j = k
    BY <1>1, <2>3 DEF Asks
  <2> QED
    BY <2>2, <2>3, <2>4
<1> QED
  BY <1>2, <1>3 DEF SagaOK, ExactSaga, ExactOK

LEMMA ExactInvariant ==
    ASSUME CleanFaults
    PROVE  Spec => []ExactInv
<1>1. BaseInv /\ OrderInv /\ NoneUnheard => ExactInv
  BY ExactLedger DEF OrderInv, SagaOK, ExactInv
<1>2. "commitUnknown" \notin Faults
  BY DEF CleanFaults
<1> QED
  BY <1>1, <1>2, BaseInvariant, OrderInvariant, NoneUnheardInvariant, PTL

(* A saga that has not failed has no job outside of a stock call.               *)
LEMMA NoJobs ==
    ASSUME NEW s \in Sagas, ExactSaga(s), ~ Failed(s), pc[s] # "crashed",
           ~ InCall(s) \/ ~ sent[s], jobs \in SUBSET Jobs
    PROVE  \A j \in jobs : j.saga # s
BY DEF ExactSaga, ExactOK, Awaited, InCall, Jobs

(* A job of a saga that has not failed, and has not died, is the one it waits for. *)
LEMMA JobOfSaga ==
    ASSUME NEW j \in jobs, ExactSaga(j.saga), j.dir \in {"reserve", "release"}
    PROVE  /\ j.saga \notin orders
           /\ \/ Failed(j.saga)
              \/ pc[j.saga] = "crashed"
              \/ Awaited(j) /\ j.dir = "reserve" /\ \A k \in jobs : k.saga = j.saga => k = j
BY DEF ExactSaga, StageOK, ExactOK, Awaited

-----------------------------------------------------------------------------
(* The release loop of a failed saga still has to come to item i.                *)
ToRelease(s, i) == pc[s] = "release" /\ idx[s] <= i /\ i <= reserved[s]

FailedOK(s) ==
    /\ \A j \in jobs : j.saga = s => Awaited(j)
    /\ \A j, k \in jobs : j.saga = s /\ k.saga = s => j = k
    /\ \A i \in Pos(s) :
          taken[s][i] = IF i \in unreleased[s] \/ ToRelease(s, i) THEN 1 ELSE 0
    /\ pc[s] = "release" => \A i \in unreleased[s] : i < idx[s]

CleanSaga(s) ==
    /\ ~ cancelled[s]
    /\ pc[s] # "crashed"
    /\ unreleased[s] \subseteq Pos(s)
    /\ ~ Failed(s) => unreleased[s] = {}
    /\ Failed(s) => FailedOK(s)

CleanInv == \A s \in Sagas : CleanSaga(s)

(* Nothing that CleanInv says of saga t, or OrderRequests sees of it, has changed.  *)
CleanUntouched(t) ==
    Untouched(t) /\ unreleased'[t] = unreleased[t] /\ ~ cancelled'[t]

SameRequest(t) == StageOf(t)' = StageOf(t) /\ TakenOf(t)' = TakenOf(t)

LEMMA CleanUntouchedOK ==
    ASSUME NEW t \in Sagas, CleanUntouched(t), CleanSaga(t)
    PROVE  CleanSaga(t)' /\ SameRequest(t)
<1>1. SameRequest(t)
  BY DEF CleanUntouched, Untouched, SameRequest, StageOf, TakenOf, Failed
<1>2. \A j \in jobs' : j.saga = t => j \in jobs /\ (Awaited(j) => Awaited(j)')
  BY DEF CleanUntouched, Untouched, JobsOf, Awaited
<1>3. Failed(t)' <=> Failed(t)
  BY DEF CleanUntouched, Untouched, Failed
<1>4. FailedOK(t) => FailedOK(t)'
  BY <1>2 DEF CleanUntouched, Untouched, FailedOK, ToRelease
<1> QED
  BY <1>1, <1>3, <1>4 DEF CleanUntouched, Untouched, CleanSaga

(* A step of saga s leaves the others alone.                                    *)
LEMMA SagaFrame ==
    ASSUME BaseInv, CleanInv, NEW s \in Sagas, SagaStep(s)
    PROVE  \A t \in Sagas \ {s} : CleanUntouched(t)
<1>1. cancelled \in [Sagas -> BOOLEAN]
  BY DEF BaseInv, TypeOK
<1>2. cancelled' = cancelled \/ cancelled' = [cancelled EXCEPT ![s] = FALSE]
  BY DEF SagaStep, Acquire, GiveUpWaiting, Decode, DecodeFails, GetProduct,
     GetProductFails, Pay, CommitOrder, CommitFails, Publish, Send, SendFails, Timeout,
     CallCancelled, Respond
<1>3. \A t \in Sagas \ {s} : ~ cancelled'[t]
  BY <1>1, <1>2 DEF CleanInv, CleanSaga
<1>4. \A t \in Sagas \ {s} : unreleased'[t] = unreleased[t]
  BY SagaControl DEF BaseInv, TypeOK, ControlInv, Controlled, OthersKept
<1> QED
  BY <1>3, <1>4, SagaElsewhere DEF CleanUntouched

LEMMA JobFrame ==
    ASSUME BaseInv, CleanInv, NEW j \in jobs, JobStep(j)
    PROVE  \A t \in Sagas \ {j.saga} : CleanUntouched(t)
<1>1. cancelled' = cancelled
  BY JobTypes
<1>2. \A t \in Sagas \ {j.saga} : unreleased'[t] = unreleased[t]
  <2>1. UNCHANGED sagaVars \/ Controlled(j.saga)
    BY JobControl DEF BaseInv, TypeOK, ControlInv
  <2> QED
    BY <2>1 DEF Controlled, OthersKept, sagaVars
<1> QED
  BY <1>1, <1>2, JobElsewhere DEF CleanUntouched, CleanInv, CleanSaga

(* A saga begins to fail.                                                       *)
LEMMA FailsCleanly ==
    ASSUME BaseInv, NEW s \in Sagas, NEW code \in {400, 409, 500, 503}, Compensate(s, code),
           ExactSaga(s), CleanSaga(s), ~ Failed(s), s \notin orders, pc[s] # "done",
           \A j \in jobs' : j.saga # s, UNCHANGED <<orders, taken, cancelled>>
    PROVE  /\ CleanSaga(s)'
           /\ StageOf(s) = "open" /\ StageOf(s)' = "failed"
           /\ TakenOf(s)' = TakenOf(s) /\ unreleased' = unreleased
<1>1. /\ SagaTypeOK /\ Pos(s) \subseteq 1 .. MaxItems /\ MaxItems \in Nat
      /\ reserved[s] \in Nat
  BY ItemFacts DEF BaseInv, TypeOK, SagaTypeOK
<1>2. /\ resp'[s] = code /\ idx'[s] = 1 /\ reserved' = reserved /\ unreleased' = unreleased
      /\ pc'[s] = IF reserved[s] = 0 THEN "respond" ELSE "release"
  BY <1>1 DEF Compensate, SagaTypeOK
<1>3. unreleased[s] = {} /\ pc[s] # "crashed"
  BY DEF CleanSaga
<1>4. \A i \in Pos(s) : taken[s][i] = IF i <= reserved[s] THEN 1 ELSE 0
  BY <1>3 DEF ExactSaga, ExactOK
<1>5. \A i \in Pos(s) : i <= reserved[s] <=> ToRelease(s, i)'
  <2>1. \A i \in Pos(s) : i \in Nat /\ 1 <= i
    BY <1>1
  <2>2. \A i \in Pos(s) : ToRelease(s, i)' <=> pc'[s] = "release" /\ 1 <= i /\ i <= reserved[s]
    BY <1>2 DEF ToRelease
  <2> QED
    BY <1>1, <1>2, <2>1, <2>2
<1>6. FailedOK(s)'
  BY <1>2, <1>3, <1>4, <1>5 DEF FailedOK
<1>7. Failed(s)'
  BY <1>2 DEF Failed
<1> QED
  BY <1>2, <1>3, <1>6, <1>7 DEF CleanSaga, StageOf, TakenOf, Failed

(* What a failing saga's release loop knows of the item it is at.                  *)
LEMMA ReleaseFacts ==
    ASSUME BaseInv, NEW s \in Sagas, ExactSaga(s), CleanSaga(s), pc[s] = "release"
    PROVE  /\ SagaTypeOK /\ s \notin orders /\ Failed(s) /\ FailedOK(s)
           /\ Pos(s) \subseteq Nat /\ idx[s] \in Nat /\ reserved[s] \in Nat
           /\ idx[s] \in Pos(s) /\ idx[s] <= reserved[s]
           /\ idx[s] \in TakenOf(s) \ unreleased[s]
<1>1. /\ SagaTypeOK /\ LoopOK(s) /\ Pos(s) \subseteq 1 .. MaxItems /\ MaxItems \in Nat
      /\ Len(Items[s]) \in Nat
  BY ItemFacts DEF BaseInv, TypeOK, LoopInv
<1>2. s \notin orders /\ Failed(s) /\ FailedOK(s)
  BY DEF ExactSaga, StageOK, OrderOK, CleanSaga
<1>3. idx[s] \in Pos(s) /\ idx[s] <= reserved[s] /\ idx[s] \in Nat /\ reserved[s] \in Nat
  BY <1>1 DEF LoopOK, Pos, SagaTypeOK
<1>4. ToRelease(s, idx[s]) /\ idx[s] \notin unreleased[s]
  BY <1>2, <1>3 DEF ToRelease, FailedOK
<1> QED
  BY <1>1, <1>2, <1>3, <1>4 DEF FailedOK, TakenOf

(* The release call is over, whatever came of it: the loop is at the next item.     *)
LEMMA NextRelease ==
    ASSUME BaseInv, NEW s \in Sagas, ExactSaga(s), CleanSaga(s), pc[s] = "release",
           NextCall(s), UNCHANGED <<resp, reserved>>,
           pc' = [pc EXCEPT ![s] = IF idx[s] < reserved[s] THEN "release" ELSE "respond"]
    PROVE  /\ resp'[s] = resp[s] /\ idx'[s] = idx[s] + 1 /\ reserved'[s] = reserved[s]
           /\ pc'[s] \in {"release", "respond"}
           /\ \A i \in Pos(s) : ToRelease(s, i)' <=> ToRelease(s, i) /\ i # idx[s]
<1>1. /\ SagaTypeOK /\ Pos(s) \subseteq Nat /\ idx[s] \in Nat /\ reserved[s] \in Nat
      /\ idx[s] <= reserved[s]
  BY ReleaseFacts
<1>2. /\ resp'[s] = resp[s] /\ idx'[s] = idx[s] + 1 /\ reserved'[s] = reserved[s]
      /\ pc'[s] = IF idx[s] < reserved[s] THEN "release" ELSE "respond"
  BY <1>1 DEF NextCall, SagaTypeOK
<1>3. ASSUME NEW i \in Pos(s)
      PROVE  ToRelease(s, i)' <=> ToRelease(s, i) /\ i # idx[s]
  <2>1. i \in Nat
    BY <1>1
  <2>2. ToRelease(s, i)' <=> pc'[s] = "release" /\ idx[s] + 1 <= i /\ i <= reserved[s]
    BY <1>2 DEF ToRelease
  <2>3. ToRelease(s, i) <=> idx[s] <= i /\ i <= reserved[s]
    BY DEF ToRelease
  <2> QED
    BY <1>1, <1>2, <2>1, <2>2, <2>3
<1> QED
  BY <1>2, <1>3

(* A release fails: its item is logged as not released.                          *)
LEMMA ReleaseFails ==
    ASSUME BaseInv, NEW s \in Sagas, ExactSaga(s), CleanSaga(s), pc[s] = "release",
           CallFails(s), \A j \in jobs' : j.saga # s, UNCHANGED <<orders, taken, cancelled>>
    PROVE  /\ CleanSaga(s)' /\ StageOf(s) = "failed" /\ SameRequest(s)
           /\ unreleased' = [unreleased EXCEPT ![s] = @ \cup {idx[s]}]
<1>1. /\ NextCall(s) /\ UNCHANGED <<resp, reserved>>
      /\ pc' = [pc EXCEPT ![s] = IF idx[s] < reserved[s] THEN "release" ELSE "respond"]
      /\ unreleased' = [unreleased EXCEPT ![s] = @ \cup {idx[s]}]
  BY DEF CallFails
<1>2. /\ resp'[s] = resp[s] /\ idx'[s] = idx[s] + 1 /\ reserved'[s] = reserved[s]
      /\ pc'[s] \in {"release", "respond"}
      /\ \A i \in Pos(s) : ToRelease(s, i)' <=> ToRelease(s, i) /\ i # idx[s]
  BY <1>1, NextRelease
<1>3. /\ SagaTypeOK /\ s \notin orders /\ Failed(s) /\ FailedOK(s)
      /\ Pos(s) \subseteq Nat /\ idx[s] \in Nat /\ idx[s] \in Pos(s)
      /\ idx[s] \in TakenOf(s) \ unreleased[s]
  BY ReleaseFacts
<1>4. unreleased'[s] = unreleased[s] \cup {idx[s]}
  BY <1>1, <1>3 DEF SagaTypeOK
<1>5. Failed(s)'
  BY <1>2, <1>3 DEF Failed
<1>6. \A i \in Pos(s) : taken[s][i] = IF i \in unreleased'[s] \/ ToRelease(s, i)' THEN 1 ELSE 0
  BY <1>2, <1>3, <1>4 DEF FailedOK, TakenOf
<1>7. \A i \in unreleased'[s] : i < idx'[s]
  <2>1. \A i \in unreleased[s] : i \in Nat /\ i < idx[s]
    BY <1>3 DEF FailedOK, CleanSaga
  <2> QED
    BY <1>2, <1>3, <1>4, <2>1
<1>8. FailedOK(s)'
  BY <1>6, <1>7 DEF FailedOK
<1>9. CleanSaga(s)'
  BY <1>2, <1>3, <1>4, <1>5, <1>8 DEF CleanSaga
<1> QED
  BY <1>1, <1>2, <1>3, <1>5, <1>9 DEF SameRequest, StageOf, TakenOf

(* A release succeeds: its item is back.                                         *)
LEMMA ReleaseSucceeds ==
    ASSUME BaseInv, NEW j \in jobs, Update(j), Awaited(j), j.dir = "release",
           ExactSaga(j.saga), CleanSaga(j.saga)
    PROVE  /\ CleanSaga(j.saga)'
           /\ StageOf(j.saga) = "failed" /\ StageOf(j.saga)' = "failed"
           /\ j.item \in TakenOf(j.saga) \ unreleased[j.saga]
           /\ TakenOf(j.saga)' = TakenOf(j.saga) \ {j.item}
           /\ unreleased' = unreleased
<1> DEFINE s == j.saga
<1>1. s \in Sagas /\ jobs' = jobs \ {j} /\ CallSucceeds(s) /\ UNCHANGED <<cancelled, orders>>
  BY DEF BaseInv, TypeOK, Jobs, Update, Deliver
<1>2. pc[s] = "release" /\ idx[s] = j.item
  BY DEF Awaited
<1>3. /\ NextCall(s) /\ UNCHANGED <<resp, reserved, unreleased>>
      /\ pc' = [pc EXCEPT ![s] = IF idx[s] < reserved[s] THEN "release" ELSE "respond"]
  BY <1>1, <1>2 DEF CallSucceeds
<1>4. /\ resp'[s] = resp[s] /\ idx'[s] = idx[s] + 1 /\ reserved'[s] = reserved[s]
      /\ pc'[s] \in {"release", "respond"}
      /\ \A i \in Pos(s) : ToRelease(s, i)' <=> ToRelease(s, i) /\ i # idx[s]
  BY <1>1, <1>2, <1>3, NextRelease
<1>5. /\ s \notin orders /\ Failed(s) /\ FailedOK(s)
      /\ Pos(s) \subseteq Nat /\ idx[s] \in Nat /\ idx[s] \in Pos(s)
      /\ idx[s] \in TakenOf(s) \ unreleased[s]
  BY <1>1, <1>2, ReleaseFacts
<1>6. Failed(s)'
  BY <1>4, <1>5 DEF Failed
<1>7. /\ taken[s][j.item] = 1 /\ taken'[s][j.item] = 0
      /\ \A i \in Pos(s) : i # j.item => taken'[s][i] = taken[s][i]
  <2>1. taken[s][j.item] = 1
    BY <1>2, <1>5 DEF TakenOf
  <2>2. taken'[s][j.item] = taken[s][j.item] - 1
    BY UpdateRow
  <2> QED
    BY <2>1, <2>2, UpdateRow
<1>8. \A i \in Pos(s) : taken'[s][i] = IF i \in unreleased'[s] \/ ToRelease(s, i)' THEN 1 ELSE 0
  BY <1>2, <1>3, <1>4, <1>5, <1>7 DEF FailedOK
<1>9. \A i \in unreleased'[s] : i < idx'[s]
  <2>1. \A i \in unreleased[s] : i \in Nat /\ i < idx[s]
    BY <1>2, <1>5 DEF FailedOK, CleanSaga
  <2> QED
    BY <1>3, <1>4, <1>5, <2>1
<1>10. \A k \in jobs' : k.saga # s
  BY <1>1, <1>5 DEF FailedOK
<1>11. CleanSaga(s)'
  <2>1. FailedOK(s)'
    BY <1>8, <1>9, <1>10 DEF FailedOK
  <2> QED
    BY <1>1, <1>3, <1>4, <1>6, <2>1 DEF CleanSaga
<1>12. TakenOf(s)' = TakenOf(s) \ {j.item}
  BY <1>7 DEF TakenOf
<1>13. StageOf(s) = "failed" /\ StageOf(s)' = "failed"
  BY <1>1, <1>2, <1>4, <1>5, <1>6 DEF StageOf
<1> QED
  BY <1>2, <1>3, <1>5, <1>11, <1>12, <1>13

(* A reservation succeeds: its item is taken.                                    *)
LEMMA ReserveSucceeds ==
    ASSUME BaseInv, NEW j \in jobs, Update(j), Awaited(j), j.dir = "reserve",
           ExactSaga(j.saga), CleanSaga(j.saga)
    PROVE  /\ CleanSaga(j.saga)'
           /\ StageOf(j.saga) = "open" /\ StageOf(j.saga)' = "open"
           /\ j.item \in Pos(j.saga) \ TakenOf(j.saga)
           /\ TakenOf(j.saga)' = TakenOf(j.saga) \cup {j.item}
           /\ unreleased' = unreleased
<1> DEFINE s == j.saga
<1>1. /\ s \in Sagas /\ CallSucceeds(s) /\ UNCHANGED <<cancelled, orders>>
      /\ SagaTypeOK /\ LoopOK(s)
  BY DEF BaseInv, TypeOK, LoopInv, Jobs, Update, Deliver
<1>2. /\ pc[s] = "reserve" /\ idx[s] = j.item /\ j.item \in Pos(s)
      /\ reserved[s] = j.item - 1
  BY <1>1 DEF Awaited, LoopOK
<1>3. /\ UNCHANGED <<resp, unreleased>> /\ pc'[s] \in {"getProduct", "pay"}
  BY <1>1, <1>2 DEF CallSucceeds, LoopHead, SagaTypeOK
<1>4. s \notin orders /\ ~ Failed(s)
  BY <1>1, <1>2, InCallFacts DEF InCall, ExactSaga
<1>5. CleanSaga(s)'
  BY <1>1, <1>3, <1>4 DEF CleanSaga, Failed
<1>6. taken[s][j.item] = 0
  <2>1. j.item \in Nat
    BY <1>1, <1>2, ItemFacts
  <2>2. ~ j.item <= reserved[s]
    BY <1>2, <2>1
  <2> QED
    BY <1>1, <1>2, <1>4, <2>2 DEF ExactSaga, ExactOK
<1>7. taken'[s][j.item] = 1 /\ \A i \in Pos(s) : i # j.item => taken'[s][i] = taken[s][i]
  BY <1>6, UpdateRow
<1>8. j.item \in Pos(s) \ TakenOf(s) /\ TakenOf(s)' = TakenOf(s) \cup {j.item}
  BY <1>2, <1>6, <1>7 DEF TakenOf
<1> QED
  BY <1>1, <1>2, <1>3, <1>4, <1>5, <1>8 DEF StageOf, Failed

-----------------------------------------------------------------------------
(* The refinement, step by step.                                                *)
Stages == [s \in Sagas |-> StageOf(s)]
Helds  == [s \in Sagas |-> TakenOf(s)]

RequestsStep == Requests!Next \/ UNCHANGED <<Stages, Helds, unreleased, stock, events>>

(* Only saga s has moved, as OrderRequests sees it.                              *)
LEMMA OneMoves ==
    ASSUME CleanInv, NEW s \in Sagas, \A t \in Sagas \ {s} : CleanUntouched(t), CleanSaga(s)'
    PROVE  /\ CleanInv'
           /\ Stages' = [Stages EXCEPT ![s] = StageOf(s)']
           /\ Helds' = [Helds EXCEPT ![s] = TakenOf(s)']
<1>1. \A t \in Sagas \ {s} : CleanSaga(t)' /\ SameRequest(t)
  BY CleanUntouchedOK DEF CleanInv
<1>2. CleanInv'
  BY <1>1 DEF CleanInv
<1>3. \A t \in Sagas \ {s} : StageOf(t)' = StageOf(t) /\ TakenOf(t)' = TakenOf(t)
  BY <1>1 DEF SameRequest
<1>4. Stages' = [Stages EXCEPT ![s] = StageOf(s)']
  <2>1. \A t \in Sagas : Stages'[t] = [Stages EXCEPT ![s] = StageOf(s)'][t]
    BY <1>3 DEF Stages
  <2> QED
    BY <2>1 DEF Stages
<1>5. Helds' = [Helds EXCEPT ![s] = TakenOf(s)']
  <2>1. \A t \in Sagas : Helds'[t] = [Helds EXCEPT ![s] = TakenOf(s)'][t]
    BY <1>3 DEF Helds
  <2> QED
    BY <2>1 DEF Helds
<1> QED
  BY <1>2, <1>4, <1>5

LEMMA SameStutters ==
    ASSUME NEW s \in Sagas, SameRequest(s), UNCHANGED <<unreleased, stock, events>>,
           Stages' = [Stages EXCEPT ![s] = StageOf(s)'],
           Helds' = [Helds EXCEPT ![s] = TakenOf(s)']
    PROVE  RequestsStep
BY DEF SameRequest, Stages, Helds, RequestsStep

LEMMA FailMoves ==
    ASSUME NEW s \in Sagas, StageOf(s) = "open", StageOf(s)' = "failed",
           TakenOf(s)' = TakenOf(s), UNCHANGED <<unreleased, stock, events>>,
           Stages' = [Stages EXCEPT ![s] = StageOf(s)'],
           Helds' = [Helds EXCEPT ![s] = TakenOf(s)']
    PROVE  RequestsStep
<1>1. Requests!Fail(s)
  BY DEF Stages, Helds, Requests!Fail, Requests!Moves
<1> QED
  BY <1>1 DEF RequestsStep, Requests!Next, Requests!RequestStep

LEMMA GiveUpMoves ==
    ASSUME NEW s \in Sagas, StageOf(s) = "failed", SameRequest(s), UNCHANGED <<stock, events>>,
           NEW i \in Pos(s), i \in TakenOf(s) \ unreleased[s],
           unreleased' = [unreleased EXCEPT ![s] = @ \cup {i}],
           Stages' = [Stages EXCEPT ![s] = StageOf(s)'],
           Helds' = [Helds EXCEPT ![s] = TakenOf(s)']
    PROVE  RequestsStep
<1>1. UNCHANGED <<Stages, Helds>>
  BY DEF SameRequest, Stages, Helds
<1>2. Requests!GiveUp(s, i)
  BY <1>1 DEF Stages, Helds, Requests!GiveUp
<1> QED
  BY <1>2 DEF RequestsStep, Requests!Next, Requests!RequestStep, Requests!All, Pos

(* The error of a call, wherever it comes from.                                  *)
LEMMA CallFailsMoves ==
    ASSUME BaseInv, CleanInv, NEW s \in Sagas, ExactSaga(s), InCall(s), CallFails(s),
           \A j \in jobs' : j.saga # s, UNCHANGED <<orders, taken, cancelled, stock, events>>,
           \A t \in Sagas \ {s} : CleanUntouched(t)
    PROVE  CleanInv' /\ RequestsStep
<1>1. CleanSaga(s)
  BY DEF CleanInv
<1>2. CASE pc[s] = "reserve"
  <2>1. Compensate(s, 409)
    BY <1>2 DEF CallFails
  <2>2. /\ CleanSaga(s)' /\ StageOf(s) = "open" /\ StageOf(s)' = "failed"
        /\ TakenOf(s)' = TakenOf(s) /\ unreleased' = unreleased
    BY <1>1, <1>2, <2>1, InCallFacts, FailsCleanly DEF ExactSaga
  <2> QED
    BY <2>2, OneMoves, FailMoves
<1>3. CASE pc[s] = "release"
  <2>1. /\ CleanSaga(s)' /\ StageOf(s) = "failed" /\ SameRequest(s)
        /\ unreleased' = [unreleased EXCEPT ![s] = @ \cup {idx[s]}]
    BY <1>1, <1>3, ReleaseFails
  <2>2. idx[s] \in Pos(s) /\ idx[s] \in TakenOf(s) \ unreleased[s]
    BY <1>1, <1>3, ReleaseFacts
  <2> QED
    BY <2>1, <2>2, OneMoves, GiveUpMoves
<1> QED
  BY <1>2, <1>3 DEF InCall

(* The saga goes on, still without an order.                                     *)
LEMMA ForwardMoves ==
    ASSUME BaseInv, NEW s \in Sagas, ExactSaga(s), CleanSaga(s),
           Acquire(s) \/ Decode(s) \/ GetProduct(s) \/ Pay(s)
    PROVE  CleanSaga(s)' /\ SameRequest(s) /\ UNCHANGED <<unreleased, stock, events>>
<1>1. /\ UNCHANGED <<resp, unreleased, taken, jobs, orders, events, stock, cancelled>>
      /\ pc[s] \in {"waiting", "decode", "getProduct", "pay"}
      /\ pc'[s] \in {"decode", "getProduct", "reserve", "pay", "commit"}
  BY DEF BaseInv, TypeOK, SagaTypeOK, Acquire, Decode, GetProduct, Pay, LoopHead, remoteVars
<1>2. s \notin orders /\ ~ Failed(s)
  BY <1>1 DEF ExactSaga, StageOK, OrderOK, Failed
<1> QED
  BY <1>1, <1>2 DEF CleanSaga, SameRequest, StageOf, TakenOf, Failed

LEMMA SendMoves ==
    ASSUME BaseInv, NEW s \in Sagas, ExactSaga(s), CleanSaga(s), Send(s)
    PROVE  CleanSaga(s)' /\ SameRequest(s) /\ UNCHANGED <<unreleased, stock, events>>
<1>1. /\ SagaTypeOK
      /\ UNCHANGED <<pc, idx, resp, reserved, orders, events, taken, unreleased, cancelled, stock>>
      /\ ~ sent[s] /\ sent'[s] /\ tries'[s] = tries[s] + 1
  BY DEF BaseInv, TypeOK, SagaTypeOK, Send
<1>2. PICK call : /\ jobs' = jobs \cup {call}
                  /\ call.saga = s /\ call.item = idx[s] /\ call.dir = pc[s]
                  /\ call.try = tries[s] + 1
  <2> DEFINE k == [saga |-> s, item |-> idx[s], dir |-> pc[s], try |-> tries[s] + 1,
                   stage |-> "select"]
  <2>1. jobs' = jobs \cup {k}
    BY DEF Send
  <2>2. k.saga = s /\ k.item = idx[s] /\ k.dir = pc[s] /\ k.try = tries[s] + 1
    OBVIOUS
  <2> HIDE DEF k
  <2> QED
    BY <2>1, <2>2
<1>3. SameRequest(s)
  BY <1>1 DEF SameRequest, StageOf, TakenOf, Failed
<1>4. ASSUME Failed(s)
      PROVE  FailedOK(s)'
  <2>1. \A j \in jobs' : j.saga = s => j = call
    BY <1>1, <1>2, <1>4 DEF CleanSaga, FailedOK, Awaited
  <2>2. Awaited(call)'
    BY <1>1, <1>2 DEF Awaited
  <2>3. \A i \in Pos(s) :
            taken[s][i] = IF i \in unreleased[s] \/ ToRelease(s, i) THEN 1 ELSE 0
    BY <1>4 DEF CleanSaga, FailedOK
  <2>4. pc[s] = "release" => \A i \in unreleased[s] : i < idx[s]
    BY <1>4 DEF CleanSaga, FailedOK
  <2>5. \A i \in Pos(s) : ToRelease(s, i)' <=> ToRelease(s, i)
    BY <1>1 DEF ToRelease
  <2>6. \A j \in jobs' : j.saga = s => Awaited(j)'
    BY <2>1, <2>2
  <2>7. \A j, k \in jobs' : j.saga = s /\ k.saga = s => j = k
    BY <2>1
  <2> QED
    BY <1>1, <2>3, <2>4, <2>5, <2>6, <2>7 DEF FailedOK
<1> QED
  BY <1>1, <1>3, <1>4 DEF CleanSaga, Failed

LEMMA DecodeFailsMoves ==
    ASSUME BaseInv, NEW s \in Sagas, ExactSaga(s), CleanSaga(s), DecodeFails(s)
    PROVE  /\ CleanSaga(s)' /\ StageOf(s) = "open" /\ StageOf(s)' = "failed"
           /\ TakenOf(s)' = TakenOf(s) /\ UNCHANGED <<unreleased, stock, events>>
<1>1. /\ UNCHANGED <<unreleased, taken, jobs, orders, events, stock, cancelled>>
      /\ pc[s] = "decode" /\ pc'[s] = "respond" /\ resp'[s] = 400
      /\ reserved[s] = 0 /\ jobs \in SUBSET Jobs
  BY DEF BaseInv, TypeOK, SagaTypeOK, LoopInv, LoopOK, DecodeFails, remoteVars
<1>2. s \notin orders /\ ~ Failed(s)
  BY <1>1 DEF ExactSaga, StageOK, OrderOK, Failed
<1>3. \A j \in jobs : j.saga # s
  BY <1>1, <1>2, NoJobs DEF InCall
<1>4. \A i \in Pos(s) : taken[s][i] = 0
  <2>1. \A i \in Pos(s) : i \in 1 .. MaxItems /\ ~ i <= 0
    BY ItemFacts DEF Pos
  <2> QED
    BY <1>1, <1>2, <2>1 DEF ExactSaga, ExactOK
<1>5. FailedOK(s)' /\ Failed(s)'
  BY <1>1, <1>2, <1>3, <1>4 DEF CleanSaga, FailedOK, ToRelease, Failed
<1> QED
  BY <1>1, <1>2, <1>5 DEF CleanSaga, StageOf, TakenOf, Failed

(* GetProductFails and CommitFails: no job is left, the compensation begins.        *)
LEMMA FailureMoves ==
    ASSUME BaseInv, NEW s \in Sagas, ExactSaga(s), CleanSaga(s), CleanFaults,
           GetProductFails(s) \/ CommitFails(s)
    PROVE  /\ CleanSaga(s)' /\ StageOf(s) = "open" /\ StageOf(s)' = "failed"
           /\ TakenOf(s)' = TakenOf(s) /\ UNCHANGED <<unreleased, stock, events>>
<1>1. /\ UNCHANGED <<taken, jobs, orders, events, stock, cancelled>>
      /\ pc[s] \in {"getProduct", "commit"} /\ jobs \in SUBSET Jobs
  BY DEF BaseInv, TypeOK, GetProductFails, CommitFails, remoteVars, CleanFaults
<1>2. PICK code \in {400, 500} : Compensate(s, code)
  BY DEF GetProductFails, CommitFails
<1>3. s \notin orders /\ ~ Failed(s)
  BY <1>1 DEF ExactSaga, StageOK, OrderOK, Failed
<1>4. \A j \in jobs' : j.saga # s
  BY <1>1, <1>3, NoJobs DEF InCall
<1> QED
  BY <1>1, <1>2, <1>3, <1>4, FailsCleanly

LEMMA CommitMoves ==
    ASSUME BaseInv, NEW s \in Sagas, ExactSaga(s), CleanSaga(s), CommitOrder(s)
    PROVE  /\ CleanSaga(s)' /\ StageOf(s) = "open" /\ StageOf(s)' = "placed"
           /\ TakenOf(s) = Pos(s) /\ TakenOf(s)' = TakenOf(s)
           /\ UNCHANGED <<unreleased, stock, events>>
<1>1. /\ UNCHANGED <<resp, unreleased, taken, jobs, events, stock, cancelled>>
      /\ orders' = orders \cup {s}
      /\ pc[s] = "commit" /\ pc'[s] = "publish" /\ reserved[s] = Len(Items[s])
  BY DEF BaseInv, TypeOK, SagaTypeOK, LoopInv, LoopOK, CommitOrder, remoteVars
<1>2. s \notin orders /\ ~ Failed(s)
  BY <1>1 DEF ExactSaga, StageOK, OrderOK, Failed
<1>3. \A i \in Pos(s) : taken[s][i] = 1
  <2>1. Len(Items[s]) \in Nat
    BY ItemFacts
  <2> QED
    BY <1>1, <1>2, <2>1 DEF ExactSaga, ExactOK, Pos
<1> QED
  BY <1>1, <1>2, <1>3 DEF CleanSaga, StageOf, TakenOf, Failed

LEMMA PublishMoves ==
    ASSUME BaseInv, NEW s \in Sagas, ExactSaga(s), CleanSaga(s), Publish(s)
    PROVE  /\ CleanSaga(s)' /\ StageOf(s) = "placed" /\ SameRequest(s)
           /\ events' = events \/ events' = events \cup {s}
           /\ UNCHANGED <<unreleased, stock>>
<1>1. /\ UNCHANGED <<unreleased, taken, jobs, orders, stock, cancelled>>
      /\ pc[s] = "publish" /\ pc'[s] = "respond" /\ resp'[s] = 201
      /\ events' = events \/ events' = events \cup {s}
  BY DEF BaseInv, TypeOK, SagaTypeOK, Publish, remoteVars
<1>2. s \in orders /\ ~ Failed(s)
  BY <1>1 DEF ExactSaga, OrderOK
<1> QED
  BY <1>1, <1>2 DEF CleanSaga, SameRequest, StageOf, TakenOf, Failed

(* The answer: there is an order, or nothing but what was given up is taken.        *)
LEMMA RespondMoves ==
    ASSUME BaseInv, NEW s \in Sagas, ExactSaga(s), CleanSaga(s), Respond(s)
    PROVE  /\ CleanSaga(s)' /\ TakenOf(s)' = TakenOf(s)
           /\ \/ StageOf(s) = "placed" /\ StageOf(s)' = "confirmed"
              \/ /\ StageOf(s) = "failed" /\ StageOf(s)' = "refused"
                 /\ TakenOf(s) = unreleased[s]
           /\ UNCHANGED <<unreleased, stock, events>>
<1>1. /\ UNCHANGED <<resp, unreleased, taken, jobs, orders, events, stock>>
      /\ pc[s] = "respond" /\ pc'[s] = "done" /\ ~ cancelled'[s]
      /\ resp[s] \in Codes /\ jobs \in SUBSET Jobs
  BY DEF BaseInv, TypeOK, SagaTypeOK, Respond, remoteVars
<1>2. CASE Failed(s)
  <2>1. \A j \in jobs : j.saga # s
    BY <1>1, <1>2 DEF CleanSaga, FailedOK, Awaited, Jobs
  <2>2. FailedOK(s)' /\ TakenOf(s) = unreleased[s]
    BY <1>1, <1>2, <2>1 DEF CleanSaga, FailedOK, ToRelease, TakenOf
  <2>3. s \notin orders /\ resp[s] # 201
    BY <1>2 DEF ExactSaga, OrderOK, Failed
  <2> QED
    BY <1>1, <1>2, <2>2, <2>3 DEF CleanSaga, StageOf, TakenOf, Failed
<1>3. CASE ~ Failed(s)
  <2>1. resp[s] = 201 /\ s \in orders
    BY <1>1, <1>3 DEF ExactSaga, StageOK, OrderOK, Failed, Codes
  <2> QED
    BY <1>1, <1>3, <2>1 DEF CleanSaga, StageOf, TakenOf, Failed
<1> QED
  BY <1>2, <1>3

LEMMA SagaStepMoves ==
    ASSUME BaseInv, ExactInv, CleanInv, CleanFaults, NEW s \in Sagas, SagaStep(s)
    PROVE  CleanInv' /\ RequestsStep
<1>1. ExactSaga(s) /\ CleanSaga(s)
  BY DEF ExactInv, ExactSaga, CleanInv
<1>2. \A t \in Sagas \ {s} : CleanUntouched(t)
  BY SagaFrame
<1> DEFINE Mapped == /\ CleanInv'
                     /\ Stages' = [Stages EXCEPT ![s] = StageOf(s)']
                     /\ Helds' = [Helds EXCEPT ![s] = TakenOf(s)']
<1>3. CleanSaga(s)' => Mapped
  BY <1>2, OneMoves
<1> HIDE DEF Mapped
<1>4. CASE Acquire(s) \/ Decode(s) \/ GetProduct(s) \/ Pay(s) \/ Send(s)
  <2>1. CleanSaga(s)' /\ SameRequest(s) /\ UNCHANGED <<unreleased, stock, events>>
    BY <1>1, <1>4, ForwardMoves, SendMoves
  <2> QED
    BY <1>3, <2>1, SameStutters DEF Mapped
<1>5. CASE DecodeFails(s) \/ GetProductFails(s) \/ CommitFails(s)
  <2>1. /\ CleanSaga(s)' /\ StageOf(s) = "open" /\ StageOf(s)' = "failed"
        /\ TakenOf(s)' = TakenOf(s) /\ UNCHANGED <<unreleased, stock, events>>
    BY <1>1, <1>5, DecodeFailsMoves, FailureMoves
  <2> QED
    BY <1>3, <2>1, FailMoves DEF Mapped
<1>6. CASE CommitOrder(s)
  <2>1. /\ CleanSaga(s)' /\ StageOf(s) = "open" /\ StageOf(s)' = "placed"
        /\ TakenOf(s) = Pos(s) /\ TakenOf(s)' = TakenOf(s)
        /\ UNCHANGED <<unreleased, stock, events>>
    BY <1>1, <1>6, CommitMoves
  <2>2. Requests!Place(s)
    BY <1>3, <2>1 DEF Mapped, Stages, Helds, Requests!Place, Requests!Moves, Requests!All, Pos
  <2> QED
    BY <1>3, <2>1, <2>2 DEF Mapped, RequestsStep, Requests!Next, Requests!RequestStep
<1>7. CASE Publish(s)
  <2>1. /\ CleanSaga(s)' /\ StageOf(s) = "placed" /\ SameRequest(s)
        /\ events' = events \/ events' = events \cup {s}
        /\ UNCHANGED <<unreleased, stock>>
    BY <1>1, <1>7, PublishMoves
  <2>2. CASE events' = events
    BY <1>3, <2>1, <2>2, SameStutters DEF Mapped
  <2>3. CASE events' = events \cup {s}
    <3>1. UNCHANGED <<Stages, Helds>>
      BY <1>3, <2>1 DEF Mapped, SameRequest, Stages, Helds
    <3>2. Requests!Announce(s)
      BY <2>1, <2>3, <3>1 DEF Stages, Helds, Requests!Announce
    <3> QED
      BY <1>3, <2>1, <3>2 DEF Mapped, RequestsStep, Requests!Next, Requests!RequestStep
  <2> QED
    BY <2>1, <2>2, <2>3
<1>8. CASE Respond(s)
  <2>1. /\ CleanSaga(s)' /\ TakenOf(s)' = TakenOf(s)
        /\ \/ StageOf(s) = "placed" /\ StageOf(s)' = "confirmed"
           \/ /\ StageOf(s) = "failed" /\ StageOf(s)' = "refused"
              /\ TakenOf(s) = unreleased[s]
        /\ UNCHANGED <<unreleased, stock, events>>
    BY <1>1, <1>8, RespondMoves
  <2>2. UNCHANGED Helds
    BY <1>3, <2>1 DEF Mapped, Helds
  <2>3. Requests!Confirm(s) \/ Requests!Refuse(s)
    BY <1>3, <2>1, <2>2
       DEF Mapped, Stages, Helds, Requests!Confirm, Requests!Refuse, Requests!Moves
  <2> QED
    BY <1>3, <2>1, <2>3 DEF Mapped, RequestsStep, Requests!Next, Requests!RequestStep
<1>9. CASE SendFails(s)
  <2>1. /\ InCall(s) /\ ~ sent[s] /\ CallFails(s) /\ jobs \in SUBSET Jobs
        /\ UNCHANGED <<orders, taken, cancelled, stock, events, jobs>>
    BY <1>9 DEF BaseInv, TypeOK, SendFails, remoteVars
  <2>2. \A j \in jobs' : j.saga # s
    BY <1>1, <2>1, NoJobs DEF CleanSaga, FailedOK, Awaited
  <2> QED
    BY <1>1, <1>2, <2>1, <2>2, CallFailsMoves
<1>10. ~ (GiveUpWaiting(s) \/ Timeout(s) \/ CallCancelled(s))
  BY <1>1 DEF CleanSaga, CleanFaults, GiveUpWaiting, Timeout, CallCancelled
<1> QED
  BY <1>4, <1>5, <1>6, <1>7, <1>8, <1>9, <1>10 DEF SagaStep

LEMMA UpdateMoves ==
    ASSUME BaseInv, ExactInv, CleanInv, NEW j \in jobs, Update(j), Awaited(j)
    PROVE  CleanInv' /\ RequestsStep
<1> DEFINE s == j.saga
<1>1. /\ s \in Sagas /\ j.dir \in {"reserve", "release"} /\ j.item \in Pos(s)
      /\ ExactSaga(s) /\ CleanSaga(s) /\ events' = events
      /\ QuantityOf(s, j.item) \in Int
      /\ \A t \in Sagas \ {s} : CleanUntouched(t)
  <2>1. s \in Sagas /\ j.dir \in {"reserve", "release"} /\ j.item \in Pos(s)
    BY DEF BaseInv, TypeOK, Jobs, JobItems
  <2> QED
    BY <2>1, ItemFacts, JobFrame DEF JobStep, ExactInv, ExactSaga, CleanInv, Update, Deliver
<1>2. stock' = [stock EXCEPT ![Items[s][j.item].product] = @ + Change(j)]
  BY DEF Update, ProductOf
<1>3. CASE j.dir = "reserve"
  <2>1. /\ CleanSaga(s)' /\ StageOf(s) = "open" /\ StageOf(s)' = "open"
        /\ j.item \in Pos(s) \ TakenOf(s) /\ TakenOf(s)' = TakenOf(s) \cup {j.item}
        /\ unreleased' = unreleased
    BY <1>1, <1>3, ReserveSucceeds
  <2>2. CleanInv' /\ UNCHANGED Stages /\ Helds' = [Helds EXCEPT ![s] = TakenOf(s)']
    <3>1. /\ CleanInv' /\ Stages' = [Stages EXCEPT ![s] = StageOf(s)']
          /\ Helds' = [Helds EXCEPT ![s] = TakenOf(s)']
      BY <1>1, <2>1, OneMoves
    <3> QED
      BY <2>1, <3>1 DEF Stages
  <2>3. Change(j) = (-1) * Items[s][j.item].quantity
    <3>1. \A q \in Int : - q = (-1) * q
      OBVIOUS
    <3> QED
      BY <1>1, <1>3, <3>1 DEF Change, QuantityOf
  <2>4. Requests!Take(s, j.item)
    <3>1. Requests!Change(s, j.item, -1)
      BY <1>2, <2>3 DEF Requests!Change
    <3>2. [t \in Sagas |-> TakenOf(t)]' = [[t \in Sagas |-> TakenOf(t)] EXCEPT ![s] = @ \cup {j.item}]
      BY <1>1, <2>1, <2>2 DEF Helds
    <3> QED
      BY <1>1, <2>1, <2>2, <3>1, <3>2 DEF Stages, Requests!Take, Requests!All, Pos
  <2> QED
    BY <1>1, <2>2, <2>4 DEF RequestsStep, Requests!Next, Requests!RequestStep, Requests!All, Pos
<1>4. CASE j.dir = "release"
  <2>1. /\ CleanSaga(s)' /\ StageOf(s) = "failed" /\ StageOf(s)' = "failed"
        /\ j.item \in TakenOf(s) \ unreleased[s] /\ TakenOf(s)' = TakenOf(s) \ {j.item}
        /\ unreleased' = unreleased
    BY <1>1, <1>4, ReleaseSucceeds
  <2>2. CleanInv' /\ UNCHANGED Stages /\ Helds' = [Helds EXCEPT ![s] = TakenOf(s)']
    <3>1. /\ CleanInv' /\ Stages' = [Stages EXCEPT ![s] = StageOf(s)']
          /\ Helds' = [Helds EXCEPT ![s] = TakenOf(s)']
      BY <1>1, <2>1, OneMoves
    <3> QED
      BY <2>1, <3>1 DEF Stages
  <2>3. Change(j) = 1 * Items[s][j.item].quantity
    BY <1>1, <1>4 DEF Change, QuantityOf
  <2>4. Requests!GiveBack(s, j.item)
    BY <1>1, <1>2, <2>1, <2>2, <2>3
       DEF Stages, Helds, Requests!GiveBack, Requests!Change
  <2> QED
    BY <1>1, <2>2, <2>4 DEF RequestsStep, Requests!Next, Requests!RequestStep, Requests!All, Pos
<1> QED
  BY <1>1, <1>3, <1>4

LEMMA JobStepMoves ==
    ASSUME BaseInv, ExactInv, CleanInv, NEW j \in jobs, JobStep(j)
    PROVE  CleanInv' /\ RequestsStep
<1> DEFINE s == j.saga
<1>1. /\ s \in Sagas /\ j.dir \in {"reserve", "release"} /\ j \in Jobs
      /\ ExactSaga(s) /\ CleanSaga(s)
  BY DEF BaseInv, TypeOK, Jobs, ExactInv, ExactSaga, CleanInv
<1>2. /\ s \notin orders /\ Awaited(j)
      /\ \A k \in jobs : k.saga = s => k = j
  BY <1>1, JobOfSaga DEF CleanSaga, FailedOK
<1>3. UNCHANGED <<orders, cancelled, events>> /\ \A t \in Sagas \ {s} : CleanUntouched(t)
  BY JobTypes, JobFrame
<1>4. CASE Select(j)
  <2>1. UNCHANGED sagaVars /\ taken' = taken /\ stock' = stock
    BY <1>4 DEF Select
  <2>2. PICK next : /\ jobs' = (jobs \ {j}) \cup {next}
                    /\ next.saga = s /\ next.item = j.item
                    /\ next.dir = j.dir /\ next.try = j.try
    <3>1. j.saga = s /\ jobs \in SUBSET Jobs
      BY DEF BaseInv, TypeOK
    <3> DEFINE k == [j EXCEPT !.stage = "update"]
    <3>2. k.saga = s /\ k.item = j.item /\ k.dir = j.dir /\ k.try = j.try
      BY <1>1 DEF Jobs
    <3>3. jobs' = (jobs \ {j}) \cup {k}
      BY <1>4 DEF Select
    <3> HIDE DEF k
    <3> QED
      BY <3>2, <3>3
  <2>3. SameRequest(s)
    BY <1>3, <2>1 DEF SameRequest, StageOf, TakenOf, Failed, sagaVars
  <2>4. \A k \in jobs' : k.saga = s => k = next
    BY <1>2, <2>2
  <2>5. Awaited(next)'
    BY <1>2, <2>1, <2>2 DEF Awaited, sagaVars
  <2>6. Failed(s) => FailedOK(s)'
    <3>1. \A i \in Pos(s) : ToRelease(s, i)' <=> ToRelease(s, i)
      BY <2>1 DEF ToRelease, sagaVars
    <3>2. \A k \in jobs' : k.saga = s => Awaited(k)'
      BY <2>4, <2>5
    <3>3. \A k, l \in jobs' : k.saga = s /\ l.saga = s => k = l
      BY <2>4
    <3> QED
      BY <1>1, <2>1, <3>1, <3>2, <3>3 DEF CleanSaga, FailedOK, sagaVars
  <2>7. CleanSaga(s)'
    BY <1>1, <1>3, <2>1, <2>6 DEF CleanSaga, Failed, sagaVars
  <2> QED
    BY <1>1, <1>3, <2>1, <2>3, <2>7, OneMoves, SameStutters DEF sagaVars
<1>5. CASE Refuse(j) \/ UpdateFails(j)
  <2>1. AttemptFails(s) /\ jobs' = jobs \ {j} /\ UNCHANGED <<taken, stock>>
    BY <1>2, <1>5 DEF Refuse, UpdateFails, Deliver, AttemptFails
  <2>2. InCall(s)
    BY <1>1, <1>2 DEF Awaited, InCall
  <2>3. \A k \in jobs' : k.saga # s
    BY <1>2, <2>1
  <2>4. CASE CallFails(s)
    BY <1>1, <1>3, <2>1, <2>2, <2>3, <2>4, CallFailsMoves
  <2>5. CASE Retries(s)
    <3>1. UNCHANGED <<pc, idx, reserved, resp, unreleased, taken>>
      BY <2>1, <2>5 DEF Retries
    <3>2. SameRequest(s)
      BY <1>3, <3>1 DEF SameRequest, StageOf, TakenOf, Failed
    <3>3. Failed(s) => FailedOK(s)'
      <4>1. \A i \in Pos(s) : ToRelease(s, i)' <=> ToRelease(s, i)
        BY <3>1 DEF ToRelease
      <4> QED
        BY <1>1, <2>3, <3>1, <4>1 DEF CleanSaga, FailedOK
    <3>4. CleanSaga(s)'
      BY <1>1, <1>3, <3>1, <3>3 DEF CleanSaga, Failed
    <3> QED
      BY <1>1, <1>3, <2>1, <3>1, <3>2, <3>4, OneMoves, SameStutters
  <2> QED
    BY <2>1, <2>4, <2>5 DEF AttemptFails
<1>6. CASE Update(j)
  BY <1>2, <1>6, UpdateMoves
<1> QED
  BY <1>4, <1>5, <1>6 DEF JobStep

LEMMA CleanInit == Init => CleanInv /\ Requests!Init
<1> SUFFICES ASSUME Init PROVE CleanInv /\ Requests!Init
  OBVIOUS
<1>1. \A s \in Sagas : CleanSaga(s) /\ StageOf(s) = "open"
  BY DEF Init, CleanSaga, StageOf, Failed
<1>2. \A s \in Sagas : TakenOf(s) = {}
  BY ItemFacts DEF Init, TakenOf
<1> QED
  BY <1>1, <1>2 DEF Init, CleanInv, Requests!Init

LEMMA CleanStep ==
    ASSUME CleanFaults
    PROVE  BaseInv /\ ExactInv /\ CleanInv /\ [Next]_vars => CleanInv' /\ RequestsStep
<1> SUFFICES ASSUME BaseInv, ExactInv, CleanInv, [Next]_vars PROVE CleanInv' /\ RequestsStep
  OBVIOUS
<1>1. CASE UNCHANGED vars
  <2>1. UNCHANGED <<pc, idx, reserved, sent, tries, resp, unreleased, cancelled, jobs,
                    taken, unheard, orders, events>>
    BY <1>1 DEF vars
  <2>2. \A s \in Sagas : JobsOf(s)' = JobsOf(s)
    BY <2>1 DEF JobsOf
  <2>3. \A s \in Sagas : ~ cancelled[s]
    BY DEF CleanInv, CleanSaga
  <2>4. \A s \in Sagas : CleanUntouched(s)
    BY <2>1, <2>2, <2>3 DEF CleanUntouched, Untouched
  <2>5. \A s \in Sagas : CleanSaga(s)' /\ SameRequest(s)
    BY <2>4, CleanUntouchedOK DEF CleanInv
  <2> QED
    BY <1>1, <2>5 DEF CleanInv, SameRequest, RequestsStep, Stages, Helds, vars
<1>2. ASSUME NEW s \in Sagas PROVE ~ Cancel(s)
  BY DEF CleanFaults, Cancel
<1>3. ~ Crash
  BY DEF CleanFaults, Crash
<1> QED
  BY <1>1, <1>2, <1>3, SagaStepMoves, JobStepMoves DEF Next, Rest

(* While no failed saga owes an item it did not log, whatever is unavailable and    *)
(* however the sagas interleave.                                                *)
LEMMA CleanInvariant ==
    ASSUME CleanFaults
    PROVE  Spec => []CleanInv
<1>2. Spec => []BaseInv /\ []ExactInv
  BY BaseInvariant, ExactInvariant
<1>3. BaseInv /\ ExactInv /\ CleanInv /\ [Next]_vars => CleanInv'
  BY CleanStep
<1>4. Init => CleanInv
  BY CleanInit
<1> QED
  BY <1>2, <1>3, <1>4, PTL DEF Spec

(* The saga implements OrderRequests as long as services and databases only refuse,   *)
(* or do not answer before they have taken an effect.                             *)
THEOREM SagaImplementsRequests ==
    ASSUME Faults \subseteq {"unavailable", "orderDB", "brokerDown"}
    PROVE  Spec => ImplementsRequests
<1>1. CleanFaults
  BY DEF CleanFaults
<1>2. BaseInv /\ ExactInv /\ CleanInv /\ [Next]_vars => [Requests!Next]_(Requests!vars)
  BY <1>1, CleanStep DEF RequestsStep, Requests!vars, Stages, Helds
<1>3. Spec => []BaseInv /\ []ExactInv /\ []CleanInv
  BY <1>1, BaseInvariant, ExactInvariant, CleanInvariant
<1> QED
  BY <1>2, <1>3, CleanInit, PTL DEF Spec, ImplementsRequests, Requests!Spec

(* Compensation is exact under the same failures: a saga that answered with an error   *)
(* has left in the stock all it took, but for what it logged.                       *)
THEOREM CompensatesExactly ==
    ASSUME Faults \subseteq {"unavailable", "orderDB", "brokerDown"}
    PROVE  Spec => []CompensationExact
<1>1. CleanInv => CompensationExact
  BY DEF CleanInv, CleanSaga, FailedOK, ToRelease, CompensationExact
<1>2. CleanFaults
  BY DEF CleanFaults
<1> QED
  BY <1>1, <1>2, CleanInvariant, PTL

-----------------------------------------------------------------------------
(* The stock ledger.  Whatever fails, the stock of a product is what it was less all   *)
(* that is taken of it, item by item (StockInv): only the UPDATE of a job changes       *)
(* either, and it changes one entry of that sum.  Where compensation is exact the       *)
(* entries that are left at rest are those of the orders.                            *)
AllItems == Sagas \X (1 .. MaxItems)

TakenFrom(ledger, p) ==
    [o \in AllItems |->
        IF o[2] \in Pos(o[1]) /\ ProductOf(o[1], o[2]) = p
        THEN QuantityOf(o[1], o[2]) * ledger[o[1]][o[2]] ELSE 0]

StockInv == \A p \in Products : stock[p] = InitStock[p] - SumFunctionOnSet(TakenFrom(taken, p), AllItems)

LEMMA AllItemsFinite == IsFiniteSet(AllItems)
<1>1. MaxItems \in Nat
  BY ItemsAssumption
<1>2. IsFiniteSet(1 .. MaxItems)
  BY <1>1, FS_Interval
<1> QED BY <1>2, SagasAssumption, FS_Product DEF AllItems

LEMMA TakenFromType ==
    ASSUME NEW ledger \in [Sagas -> [1 .. MaxItems -> Int]], NEW p \in Products, NEW o \in AllItems
    PROVE  TakenFrom(ledger, p)[o] \in Int
<1>1. o[1] \in Sagas /\ o[2] \in 1 .. MaxItems
  BY DEF AllItems
<1>2. ledger[o[1]][o[2]] \in Int
  BY <1>1
<1>3. o[2] \in Pos(o[1]) => QuantityOf(o[1], o[2]) \in Int
  BY <1>1, ItemFacts
<1>4. \A q, t \in Int : q * t \in Int
  OBVIOUS
<1> QED BY <1>2, <1>3, <1>4 DEF TakenFrom

(* An UPDATE changes the entry of its item, for the product of that item, by what it      *)
(* takes from the stock.                                                           *)
LEMMA UpdateEntry ==
    ASSUME BaseInv, BaseInv', NEW j \in jobs, Update(j), NEW p \in Products
    PROVE  LET o == <<j.saga, j.item>> IN
           /\ o \in AllItems
           /\ \A x \in AllItems \ {o} : TakenFrom(taken', p)[x] = TakenFrom(taken, p)[x]
           /\ ProductOf(j.saga, j.item) = p => TakenFrom(taken', p)[o] = TakenFrom(taken, p)[o] - Change(j)
           /\ ProductOf(j.saga, j.item) # p => TakenFrom(taken', p)[o] = TakenFrom(taken, p)[o]
<1> DEFINE o == <<j.saga, j.item>>
           q == QuantityOf(j.saga, j.item)
           t == taken[j.saga][j.item]
           u == taken'[j.saga][j.item]
<1>1. /\ j.saga \in Sagas /\ j.item \in 1 .. MaxItems /\ j.item \in Pos(j.saga)
      /\ o \in AllItems /\ q \in Int
  <2>1. j.saga \in Sagas /\ j.item \in 1 .. MaxItems /\ j.item \in Pos(j.saga)
    BY DEF BaseInv, TypeOK, Jobs, JobItems
  <2> QED BY <2>1, ItemFacts DEF AllItems
<1>2. taken \in [Sagas -> [1 .. MaxItems -> Int]]
  BY DEF BaseInv, TypeOK
<1>3. t \in Int
  BY <1>1, <1>2
<1>4. /\ \A s \in Sagas \ {j.saga} : taken'[s] = taken[s]
      /\ \A i \in Pos(j.saga) : i # j.item => taken'[j.saga][i] = taken[j.saga][i]
      /\ j.dir = "reserve" => u = t + 1
      /\ j.dir # "reserve" => u = t - 1
  BY UpdateRow
<1>5. ASSUME NEW x \in AllItems, x # o
      PROVE  TakenFrom(taken', p)[x] = TakenFrom(taken, p)[x]
  <2>1. x[1] \in Sagas /\ x[2] \in 1 .. MaxItems /\ x = <<x[1], x[2]>>
    BY DEF AllItems
  <2>2. x[2] \in Pos(x[1]) => taken'[x[1]][x[2]] = taken[x[1]][x[2]]
    BY <1>4, <1>5, <2>1
  <2> QED BY <2>2 DEF TakenFrom
<1>6. /\ TakenFrom(taken, p)[o] = IF ProductOf(j.saga, j.item) = p THEN q * t ELSE 0
      /\ TakenFrom(taken', p)[o] = IF ProductOf(j.saga, j.item) = p THEN q * u ELSE 0
  BY <1>1 DEF TakenFrom
<1>7. q * u = q * t - Change(j)
  <2>1. \A a, b \in Int : a * (b + 1) = a * b - (- a) /\ a * (b - 1) = a * b - a
    OBVIOUS
  <2>2. CASE j.dir = "reserve"
    <3>1. Change(j) = - q /\ u = t + 1
      BY <1>4, <2>2 DEF Change
    <3> HIDE DEF q, t, u
    <3> QED BY <1>1, <1>3, <2>1, <3>1
  <2>3. CASE j.dir # "reserve"
    <3>1. Change(j) = q /\ u = t - 1
      BY <1>4, <2>3 DEF Change
    <3> HIDE DEF q, t, u
    <3> QED BY <1>1, <1>3, <2>1, <3>1
  <2> QED BY <2>2, <2>3
<1> HIDE DEF q, t, u
<1>8. ProductOf(j.saga, j.item) = p => TakenFrom(taken', p)[o] = TakenFrom(taken, p)[o] - Change(j)
  BY <1>6, <1>7
<1> QED BY <1>1, <1>5, <1>6, <1>8

LEMMA UpdateStock ==
    ASSUME BaseInv, BaseInv', StockInv, NEW j \in jobs, Update(j)
    PROVE  StockInv'
<1> SUFFICES ASSUME NEW p \in Products
             PROVE  stock'[p] = InitStock[p] - SumFunctionOnSet(TakenFrom(taken', p), AllItems)
  BY DEF StockInv
<1> DEFINE o == <<j.saga, j.item>>
           f == TakenFrom(taken, p)
           g == TakenFrom(taken', p)
           F == SumFunctionOnSet(f, AllItems)
           G == SumFunctionOnSet(g, AllItems)
           P == ProductOf(j.saga, j.item)
           S == stock[p]
           N == InitStock[p]
           C == Change(j)
<1>1. /\ o \in AllItems
      /\ \A x \in AllItems \ {o} : g[x] = f[x]
      /\ P = p => g[o] = f[o] - C
      /\ P # p => g[o] = f[o]
  BY UpdateEntry
<1>2. \A x \in AllItems : f[x] \in Int /\ g[x] \in Int
  <2>1. \A x \in AllItems : f[x] \in Int
    BY TakenFromType DEF BaseInv, TypeOK
  <2>2. \A x \in AllItems : g[x] \in Int
    BY TakenFromType DEF BaseInv, TypeOK
  <2> QED BY <2>1, <2>2
<1>3. F \in Int /\ S = N - F /\ C \in Int /\ N \in Int /\ S \in Int
  <2>1. F \in Int
    <3> HIDE DEF f
    <3> QED BY <1>2, AllItemsFinite, SumIsInt
  <2>2. S = N - F /\ S \in Int /\ N \in Int
    BY StockAssumption DEF StockInv, BaseInv, TypeOK
  <2>3. C \in Int
    BY ItemFacts DEF BaseInv, TypeOK, Jobs, JobItems, Change
  <2> QED BY <2>1, <2>2, <2>3
<1>4. stock'[p] = IF P = p THEN S + C ELSE S
  BY DEF Update, BaseInv, TypeOK
<1>5. G = F + g[o] - f[o]
  <2>1. o \in AllItems /\ \A x \in AllItems \ {o} : g[x] = f[x]
    BY <1>1
  <2> HIDE DEF f, g, o
  <2> QED BY <1>2, <2>1, AllItemsFinite, SumChange
<1> DEFINE a == f[o]   b == g[o]
<1>6. a \in Int /\ (P = p => b = a - C) /\ (P # p => b = a) /\ G = F + b - a
  BY <1>1, <1>2, <1>5
<1> HIDE DEF f, g, o, F, G, P, S, N, C, a, b
<1>7. stock'[p] = N - G
  <2>1. CASE P = p
    <3>1. stock'[p] = S + C /\ b = a - C
      BY <1>4, <1>6, <2>1
    <3> QED
      BY <1>3, <1>6, <3>1
  <2>2. CASE P # p
    <3>1. stock'[p] = S /\ b = a
      BY <1>4, <1>6, <2>2
    <3> QED
      BY <1>3, <1>6, <3>1
  <2> QED
    BY <2>1, <2>2
<1> QED BY <1>7 DEF N, G, g

LEMMA StockStep == BaseInv /\ BaseInv' /\ StockInv /\ [Next]_vars => StockInv'
<1> SUFFICES ASSUME BaseInv, BaseInv', StockInv, [Next]_vars PROVE StockInv'
  OBVIOUS
<1>1. ASSUME UNCHANGED <<stock, taken>> PROVE StockInv'
  BY <1>1 DEF StockInv, TakenFrom
<1>2. ASSUME NEW s \in Sagas, SagaStep(s) PROVE StockInv'
  BY <1>1, <1>2 DEF SagaStep, Acquire, GiveUpWaiting, Decode, DecodeFails, GetProduct,
     GetProductFails, Pay, CommitOrder, CommitFails, Publish, Send, SendFails, Timeout,
     CallCancelled, Respond, remoteVars
<1>3. ASSUME NEW j \in jobs, JobStep(j) PROVE StockInv'
  BY <1>1, <1>3, UpdateStock DEF JobStep, Select, Refuse, UpdateFails
<1>4. ASSUME NEW s \in Sagas, Cancel(s) PROVE StockInv'
  BY <1>1, <1>4 DEF Cancel, remoteVars
<1>5. CASE Crash
  BY <1>1, <1>5 DEF Crash, remoteVars
<1>6. CASE UNCHANGED vars
  BY <1>1, <1>6 DEF vars
<1> QED
  BY <1>2, <1>3, <1>4, <1>5, <1>6 DEF Next, Rest

LEMMA StockInit == Init => StockInv
<1> SUFFICES ASSUME Init, NEW p \in Products
             PROVE  stock[p] = InitStock[p] - SumFunctionOnSet(TakenFrom(taken, p), AllItems)
  BY DEF StockInv
<1> DEFINE f == TakenFrom(taken, p)
           F == SumFunctionOnSet(f, AllItems)
<1>1. \A o \in AllItems : f[o] = 0
  <2> SUFFICES ASSUME NEW o \in AllItems PROVE f[o] = 0
    OBVIOUS
  <2>1. o[1] \in Sagas /\ o[2] \in 1 .. MaxItems
    BY DEF AllItems
  <2>2. taken[o[1]][o[2]] = 0
    BY <2>1 DEF Init
  <2>3. o[2] \in Pos(o[1]) => QuantityOf(o[1], o[2]) * 0 = 0
    BY <2>1, ItemFacts
  <2> QED BY <2>2, <2>3 DEF TakenFrom
<1>2. F = 0
  <2> HIDE DEF f
  <2>1. SumFunctionOnSet(f, AllItems) = SumFunctionOnSet(f, {})
    BY <1>1, AllItemsFinite, SumOfSupport
  <2> QED BY <2>1, SumOfNone
<1>3. stock[p] = InitStock[p] /\ InitStock[p] \in Int
  BY StockAssumption DEF Init
<1> HIDE DEF F
<1> QED BY <1>2, <1>3 DEF F

(* The two databases agree: at rest, and where no compensation failed, the stock is     *)
(* what the orders have left of it, for any requests and any quantities.               *)
THEOREM StockAgreesWithOrders ==
    ASSUME Faults \subseteq {"unavailable", "orderDB", "brokerDown"}
    PROVE  Spec => []StockMatchesOrders
<1>1. BaseInv /\ ExactInv /\ CleanInv /\ StockInv => StockMatchesOrders
  <2> SUFFICES ASSUME BaseInv, ExactInv, CleanInv, StockInv,
                      Quiescent, \A s \in Sagas : unreleased[s] = {}, NEW p \in Products
               PROVE  stock[p] = InitStock[p]
                        - SumFunctionOnSet([o \in Ordered(p) |-> QuantityOf(o[1], o[2])], Ordered(p))
    BY DEF StockMatchesOrders
  <2> DEFINE f == TakenFrom(taken, p)
             g == [o \in Ordered(p) |-> QuantityOf(o[1], o[2])]
  <2>1. orders \subseteq Sagas /\ Ordered(p) \subseteq AllItems
    BY DEF BaseInv, TypeOK, Ordered, AllItems
  <2>2. \A q \in Int : q * 1 = q /\ q * 0 = 0
    OBVIOUS
  <2>3. ASSUME NEW o \in Ordered(p)
        PROVE  f[o] \in Int /\ g[o] = f[o]
    <3>1. /\ o \in AllItems /\ o[1] \in orders /\ o[1] \in Sagas /\ o[2] \in Pos(o[1])
          /\ ProductOf(o[1], o[2]) = p
      BY <2>1 DEF Ordered
    <3>2. taken[o[1]][o[2]] = 1
      BY <3>1 DEF ExactInv, ExactSaga, ExactOK
    <3>3. QuantityOf(o[1], o[2]) \in Int
      BY <3>1, ItemFacts
    <3>4. f[o] = QuantityOf(o[1], o[2]) * 1
      BY <3>1, <3>2 DEF TakenFrom
    <3> QED BY <2>2, <3>3, <3>4
  <2>4. ASSUME NEW o \in AllItems \ Ordered(p)
        PROVE  f[o] = 0
    <3>1. o[1] \in Sagas /\ o[2] \in 1 .. MaxItems /\ o = <<o[1], o[2]>>
      BY DEF AllItems
    <3>2. CASE o[2] \in Pos(o[1]) /\ ProductOf(o[1], o[2]) = p
      <4>1. o[1] \notin orders
        BY <3>1, <3>2 DEF Ordered
      <4>2. pc[o[1]] = "done"
        BY <3>1 DEF Quiescent, Finished, CleanInv, CleanSaga
      <4>3. Failed(o[1])
        <5>1. resp[o[1]] \in Codes /\ resp[o[1]] # 0 /\ resp[o[1]] # 201
          BY <3>1, <4>1, <4>2 DEF BaseInv, TypeOK, SagaTypeOK, ExactInv, ExactSaga, StageOK, OrderOK
        <5> QED BY <5>1 DEF Codes, Failed
      <4>4. taken[o[1]][o[2]] = 0
        BY <3>1, <3>2, <4>2, <4>3 DEF CleanInv, CleanSaga, FailedOK, ToRelease
      <4>5. QuantityOf(o[1], o[2]) \in Int
        BY <3>1, <3>2, ItemFacts
      <4>6. f[o] = QuantityOf(o[1], o[2]) * 0
        BY <3>2, <4>4 DEF TakenFrom
      <4> QED BY <2>2, <4>5, <4>6
    <3>3. CASE ~ (o[2] \in Pos(o[1]) /\ ProductOf(o[1], o[2]) = p)
      BY <3>3 DEF TakenFrom
    <3> QED BY <3>2, <3>3
  <2>5. SumFunctionOnSet(f, AllItems) = SumFunctionOnSet(g, Ordered(p))
    <3> HIDE DEF f, g
    <3> QED BY <2>1, <2>3, <2>4, AllItemsFinite, SumOfSupport
  <2>6. stock[p] = InitStock[p] - SumFunctionOnSet(f, AllItems)
    BY DEF StockInv
  <2> QED BY <2>5, <2>6
<1>2. CleanFaults
  BY DEF CleanFaults
<1>3. Spec => []StockInv
  BY BaseInvariant, StockInit, StockStep, PTL DEF Spec
<1> QED
  BY <1>1, <1>2, <1>3, BaseInvariant, ExactInvariant, CleanInvariant, PTL
=============================================================================
