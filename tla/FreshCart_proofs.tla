-------------------------- MODULE FreshCart_proofs ---------------------------
(***************************************************************************)
(* Proofs about OrderStatus, for any orders, handlers and numbers of items,   *)
(* and for every failure the model has; and, from them, about FreshCart, the   *)
(* life of an order across the services.                                     *)
(***************************************************************************)
EXTENDS FreshCart, FiniteSetTheorems, SumTheorems, TLAPS

-----------------------------------------------------------------------------
(* Type correctness.  A handler outside of a request has the initial locals;     *)
(* without that, Validate could enter the loop beyond its last item.             *)
Places == {"idle", "release", "update", "publish", "orphan"}

LocalsOK ==
    /\ pc \in [Handlers -> Places]
    /\ order \in [Handlers -> Orders \cup {NoOrder}]
    /\ target \in [Handlers -> Statuses]
    /\ read \in [Handlers -> Statuses]
    /\ item \in [Handlers -> 1 .. (ItemCount + 1)]
    /\ \A h \in Handlers : pc[h] # "idle" => order[h] \in Orders
    /\ \A h \in Handlers : pc[h] = "release" => item[h] <= ItemCount
    /\ \A h \in Handlers : pc[h] = "idle" => item[h] = 1 /\ order[h] = NoOrder

DataOK ==
    /\ status \in [Orders -> Statuses]
    /\ released \in [Orders -> [1 .. ItemCount -> Nat]]
    /\ visited \in [Orders -> SUBSET Statuses]
    /\ events \in SUBSET Events
    /\ lastEvent \in [Orders -> Statuses]
    /\ overlapped \in SUBSET Orders
    /\ faults \in SUBSET AllFaults

TypeInv == LocalsOK /\ DataOK

(* A transition the code allows leads to a status, and from the one that the        *)
(* documentation draws before it.                                             *)
LEMMA TransitionsKnown ==
    ASSUME NEW from \in Statuses \ {"pending"}, NEW to \in validTransitions(from)
    PROVE  /\ to \in Statuses \ {"pending", "failed"}
           /\ to \in DOMAIN Before
           /\ Before[to] = from
           /\ from \notin Terminal
BY DEF Statuses, validTransitions, Before, Terminal

(* A handler that returns leaves well-typed locals behind.                       *)
LEMMA ReturnTyped ==
    ASSUME LocalsOK, NEW h \in Handlers, Return(h)
    PROVE  LocalsOK'
<1> USE ItemCountAssumption DEF LocalsOK, Return, Places
<1>1. pc' \in [Handlers -> Places]
  OBVIOUS
<1>2. order' \in [Handlers -> Orders \cup {NoOrder}]
  OBVIOUS
<1>3. target' \in [Handlers -> Statuses]
  BY DEF Statuses
<1>4. read' \in [Handlers -> Statuses]
  BY DEF Statuses
<1>5. item' \in [Handlers -> 1 .. (ItemCount + 1)]
  OBVIOUS
<1>6. \A g \in Handlers : pc'[g] # "idle" => order'[g] \in Orders
  OBVIOUS
<1>7. \A g \in Handlers : pc'[g] = "release" => item'[g] <= ItemCount
  OBVIOUS
<1>8. \A g \in Handlers : pc'[g] = "idle" => item'[g] = 1 /\ order'[g] = NoOrder
  OBVIOUS
<1> QED BY <1>1, <1>2, <1>3, <1>4, <1>5, <1>6, <1>7, <1>8

(* Giving an item back keeps the ledger a ledger, and only adds to it.             *)
LEMMA GiveBackTyped ==
    ASSUME released \in [Orders -> [1 .. ItemCount -> Nat]],
           NEW o \in Orders, NEW i \in 1 .. ItemCount, GiveBack(o, i)
    PROVE  /\ released' \in [Orders -> [1 .. ItemCount -> Nat]]
           /\ \A p \in Orders : \A j \in 1 .. ItemCount : released'[p][j] >= released[p][j]
           /\ released'[o][i] = released[o][i] + 1
<1> DEFINE old == released[o]
           row == [old EXCEPT ![i] = old[i] + 1]
<1>1. old \in [1 .. ItemCount -> Nat]
  OBVIOUS
<1>2. released' = [released EXCEPT ![o] = row]
  BY DEF GiveBack
<1> HIDE DEF old
<1>3. \A j \in 1 .. ItemCount : row[j] = IF j = i THEN old[i] + 1 ELSE old[j]
  BY <1>1
<1>4. row \in [1 .. ItemCount -> Nat]
  BY <1>1
<1>5. \A j \in 1 .. ItemCount : row[j] >= old[j]
  BY <1>1, <1>3
<1>6. row[i] = old[i] + 1
  BY <1>3
<1> HIDE DEF row
<1>7. released' \in [Orders -> [1 .. ItemCount -> Nat]]
  BY <1>2, <1>4
<1>8. released'[o] = row /\ \A p \in Orders \ {o} : released'[p] = released[p]
  BY <1>2
<1>9. ASSUME NEW p \in Orders, NEW j \in 1 .. ItemCount
      PROVE  released'[p][j] >= released[p][j]
  <2>1. CASE p = o
    BY <2>1, <1>5, <1>8 DEF old
  <2>2. CASE p # o
    <3>1. released[p] \in [1 .. ItemCount -> Nat]
      OBVIOUS
    <3>2. released'[p] = released[p]
      BY <2>2, <1>8
    <3> QED BY <3>1, <3>2
  <2> QED BY <2>1, <2>2
<1> QED BY <1>6, <1>7, <1>8, <1>9 DEF old

(* What a handler that goes on to another place leaves in its locals.             *)
LEMMA MoveTyped ==
    ASSUME LocalsOK, NEW h \in Handlers, pc[h] # "idle",
           NEW l \in {"update", "publish", "orphan"},
           pc' = [pc EXCEPT ![h] = l], UNCHANGED locals
    PROVE  LocalsOK'
BY DEF LocalsOK, Places, locals

LEMMA ValidateTyped ==
    ASSUME TypeInv, NEW h \in Handlers, NEW o \in Orders, NEW to \in Statuses,
           Validate(h, o, to)
    PROVE  TypeInv'
<1> USE ItemCountAssumption DEF TypeInv, LocalsOK, Places, DataOK, Validate
<1>1. pc'[h] \in {"release", "update"} /\ (pc'[h] = "release" => ItemCount >= 1)
  BY DEF ReleaseHead
<1>2. pc' \in [Handlers -> Places]
  BY DEF ReleaseHead
<1>3. order' \in [Handlers -> Orders \cup {NoOrder}]
  OBVIOUS
<1>4. target' \in [Handlers -> Statuses]
  OBVIOUS
<1>5. read' \in [Handlers -> Statuses]
  OBVIOUS
<1>6. order'[h] = o /\ item[h] = 1 /\ item' = item
  OBVIOUS
<1>7. \A g \in Handlers \ {h} : pc'[g] = pc[g] /\ order'[g] = order[g]
  OBVIOUS
<1>8. LocalsOK'
  BY <1>1, <1>2, <1>3, <1>4, <1>5, <1>6, <1>7
<1>9. DataOK'
  OBVIOUS
<1> QED BY <1>8, <1>9

LEMMA ReleaseItemTyped ==
    ASSUME TypeInv, NEW h \in Handlers, ReleaseItem(h)
    PROVE  TypeInv'
<1> USE ItemCountAssumption DEF TypeInv, LocalsOK, Places, DataOK
<1>1. order[h] \in Orders /\ item[h] \in 1 .. ItemCount
  BY DEF ReleaseItem
<1>2. released' \in [Orders -> [1 .. ItemCount -> Nat]]
  BY <1>1, GiveBackTyped DEF ReleaseItem
<1>3. pc' \in [Handlers -> Places]
  BY DEF ReleaseItem, ReleaseHead
<1>4. item' \in [Handlers -> 1 .. (ItemCount + 1)]
  BY <1>1 DEF ReleaseItem
<1>5. pc'[h] # "idle" /\ (pc'[h] = "release" => item'[h] <= ItemCount)
  BY <1>1 DEF ReleaseItem, ReleaseHead
<1>6. \A g \in Handlers \ {h} : pc'[g] = pc[g] /\ item'[g] = item[g]
  BY DEF ReleaseItem
<1>7. UNCHANGED <<order, target, read>>
  BY DEF ReleaseItem
<1>8. LocalsOK'
  BY <1>1, <1>3, <1>4, <1>5, <1>6, <1>7
<1>9. DataOK'
  BY <1>2 DEF ReleaseItem
<1> QED BY <1>8, <1>9

LEMMA WriteTyped ==
    ASSUME TypeInv, NEW h \in Handlers, pc[h] # "idle",
           status' = [status EXCEPT ![order[h]] = target[h]],
           visited' = [visited EXCEPT ![order[h]] = @ \cup {target[h]}]
    PROVE  /\ status' \in [Orders -> Statuses]
           /\ visited' \in [Orders -> SUBSET Statuses]
BY DEF TypeInv, LocalsOK, DataOK

LEMMA PublishEventTyped ==
    ASSUME TypeInv, NEW h \in Handlers, PublishEvent(h)
    PROVE  TypeInv'
<1> USE DEF TypeInv, DataOK
<1>1. LocalsOK'
  BY ReturnTyped DEF PublishEvent
<1>2. order[h] \in Orders /\ target[h] \in Statuses /\ read[h] \in Statuses
  BY DEF PublishEvent, LocalsOK
<1>3. [order |-> order[h], status |-> target[h], previous |-> read[h]] \in Events
  BY <1>2 DEF Events
<1>4. events' \in SUBSET Events /\ lastEvent' \in [Orders -> Statuses]
  BY <1>2, <1>3 DEF PublishEvent
<1>5. UNCHANGED <<status, released, visited, overlapped>> /\ faults' \in SUBSET AllFaults
  BY DEF PublishEvent, Fault, AllFaults
<1> QED BY <1>1, <1>4, <1>5

LEMMA CrashTyped ==
    ASSUME TypeInv, NEW dead \in SUBSET Handlers, NEW left \in SUBSET dead, Crash(dead, left)
    PROVE  TypeInv'
<1> USE ItemCountAssumption DEF TypeInv, LocalsOK, DataOK, Crash
<1>1. pc' \in [Handlers -> Places]
  BY DEF Places
<1>2. order' \in [Handlers -> Orders \cup {NoOrder}]
  OBVIOUS
<1>3. target' \in [Handlers -> Statuses]
  BY DEF Statuses
<1>4. read' \in [Handlers -> Statuses]
  BY DEF Statuses
<1>5. item' \in [Handlers -> 1 .. (ItemCount + 1)]
  OBVIOUS
<1>6. \A g \in Handlers :
         /\ pc'[g] # "idle" => order'[g] \in Orders
         /\ pc'[g] = "release" => item'[g] <= ItemCount
         /\ pc'[g] = "idle" => item'[g] = 1 /\ order'[g] = NoOrder
  OBVIOUS
<1>7. faults' \in SUBSET AllFaults
  BY DEF Fault, AllFaults
<1>8. LocalsOK'
  BY <1>1, <1>2, <1>3, <1>4, <1>5, <1>6
<1>9. DataOK'
  BY <1>7
<1> QED BY <1>8, <1>9

(* Every step keeps the types.                                                 *)
LEMMA TypeStep == TypeInv /\ [Next]_vars => TypeInv'
<1> SUFFICES ASSUME TypeInv, [Next]_vars
             PROVE  TypeInv'
  OBVIOUS
<1>1. ASSUME NEW h \in Handlers, NEW o \in Orders, NEW to \in Statuses, Validate(h, o, to)
      PROVE  TypeInv'
  BY <1>1, ValidateTyped
<1>2. ASSUME NEW h \in Handlers, ReleaseItem(h)
      PROVE  TypeInv'
  BY <1>2, ReleaseItemTyped
<1>3. ASSUME NEW h \in Handlers, ReleaseFails(h)
      PROVE  TypeInv'
  <2>1. LocalsOK'
    BY <1>3, ReturnTyped DEF ReleaseFails, TypeInv
  <2>2. order[h] \in Orders /\ item[h] \in 1 .. ItemCount
    BY <1>3, ItemCountAssumption DEF ReleaseFails, TypeInv, LocalsOK
  <2>3. released' \in [Orders -> [1 .. ItemCount -> Nat]]
    BY <1>3, <2>2, GiveBackTyped DEF ReleaseFails, TypeInv, DataOK
  <2>4. faults' \in SUBSET AllFaults
    BY <1>3 DEF ReleaseFails, Fault, AllFaults, TypeInv, DataOK
  <2>5. UNCHANGED <<status, events, lastEvent, visited, overlapped>>
    BY <1>3 DEF ReleaseFails
  <2> QED BY <2>1, <2>3, <2>4, <2>5 DEF TypeInv, DataOK
<1>4. ASSUME NEW h \in Handlers, RowsLost(h)
      PROVE  TypeInv'
  <2>1. LocalsOK'
    BY <1>4, MoveTyped DEF RowsLost, TypeInv
  <2>2. DataOK'
    BY <1>4 DEF RowsLost, Fault, AllFaults, TypeInv, DataOK
  <2> QED BY <2>1, <2>2 DEF TypeInv
<1>5. ASSUME NEW h \in Handlers, WriteStatus(h)
      PROVE  TypeInv'
  <2>1. LocalsOK'
    BY <1>5, MoveTyped DEF WriteStatus, TypeInv
  <2>2. /\ status' \in [Orders -> Statuses]
        /\ visited' \in [Orders -> SUBSET Statuses]
    BY <1>5, WriteTyped DEF WriteStatus
  <2> QED BY <1>5, <2>1, <2>2 DEF WriteStatus, TypeInv, DataOK
<1>6. ASSUME NEW h \in Handlers, WriteFails(h)
      PROVE  TypeInv'
  <2>1. LocalsOK'
    BY <1>6, ReturnTyped, MoveTyped DEF WriteFails, TypeInv
  <2>2. DataOK'
    BY <1>6 DEF WriteFails, Fault, AllFaults, TypeInv, DataOK
  <2> QED BY <2>1, <2>2 DEF TypeInv
<1>10. ASSUME NEW h \in Handlers, ReleaseLost(h)
       PROVE  TypeInv'
  <2>1. LocalsOK'
    BY <1>10 DEF ReleaseLost, locals, TypeInv, LocalsOK
  <2>2. order[h] \in Orders /\ item[h] \in 1 .. ItemCount
    BY <1>10, ItemCountAssumption DEF ReleaseLost, TypeInv, LocalsOK
  <2>3. released' \in [Orders -> [1 .. ItemCount -> Nat]]
    BY <1>10, <2>2, GiveBackTyped DEF ReleaseLost, TypeInv, DataOK
  <2>4. faults' \in SUBSET AllFaults
    BY <1>10 DEF ReleaseLost, Fault, AllFaults, TypeInv, DataOK
  <2> QED BY <1>10, <2>1, <2>3, <2>4 DEF ReleaseLost, TypeInv, DataOK
<1>11. ASSUME NEW h \in Handlers, OrphanCommits(h)
       PROVE  TypeInv'
  <2>1. LocalsOK'
    BY <1>11, ReturnTyped DEF OrphanCommits, TypeInv
  <2>2. /\ status' \in [Orders -> Statuses]
        /\ visited' \in [Orders -> SUBSET Statuses]
    BY <1>11, WriteTyped DEF OrphanCommits
  <2> QED BY <1>11, <2>1, <2>2 DEF OrphanCommits, TypeInv, DataOK
<1>12. ASSUME NEW h \in Handlers, OrphanDies(h)
       PROVE  TypeInv'
  <2>1. LocalsOK'
    BY <1>12, ReturnTyped DEF OrphanDies, TypeInv
  <2> QED BY <1>12, <2>1 DEF OrphanDies, TypeInv, DataOK
<1>7. ASSUME NEW h \in Handlers, PublishEvent(h)
      PROVE  TypeInv'
  BY <1>7, PublishEventTyped
<1>8. ASSUME NEW dead \in SUBSET Handlers, NEW left \in SUBSET dead, Crash(dead, left)
      PROVE  TypeInv'
  BY <1>8, CrashTyped
<1>9. CASE Rest \/ UNCHANGED vars
  BY <1>9 DEF Rest, vars, locals, historyVars, TypeInv, LocalsOK, DataOK
<1> QED BY <1>1, <1>2, <1>3, <1>4, <1>5, <1>6, <1>7, <1>8, <1>9, <1>10, <1>11, <1>12 DEF Next

LEMMA TypeInit == Init => TypeInv
BY ItemCountAssumption DEF Init, TypeInv, LocalsOK, Places, DataOK, Statuses

LEMMA TypeInvariant == Spec => []TypeInv
BY TypeInit, TypeStep, PTL DEF Spec

(* Every reachable state of the status handlers is well typed, whatever overlaps,   *)
(* crashes or fails.                                                          *)
THEOREM TypeCorrect == Spec => []TypeOK
<1>1. TypeInv => TypeOK
  BY DEF TypeInv, LocalsOK, Places, DataOK, TypeOK
<1> QED BY <1>1, TypeInvariant, PTL

-----------------------------------------------------------------------------
(* What a handler has read stays in the history of the row, and what it is to      *)
(* write comes right after that.                                              *)
HandlerOK(h) ==
    pc[h] # "idle" =>
        /\ target[h] \in DOMAIN Before
        /\ Before[target[h]] = read[h]
        /\ read[h] \in visited[order[h]]
        /\ pc[h] = "publish" => target[h] \in visited[order[h]]

RowOK(o) == status[o] \in visited[o] /\ "pending" \notin visited[o]

HistoryInv ==
    /\ \A h \in Handlers : HandlerOK(h)
    /\ \A o \in Orders : RowOK(o)
    /\ NoStageSkipped
    /\ EventsTruthful

(* The history of a row only grows.                                            *)
Grows == \A o \in Orders : visited[o] \subseteq visited'[o]

(* A handler that goes on with the same request, or returns.                     *)
Keeps(h) ==
    pc'[h] # "idle" =>
        /\ pc[h] # "idle"
        /\ order'[h] = order[h] /\ target'[h] = target[h] /\ read'[h] = read[h]
        /\ pc'[h] = "publish" => pc[h] = "publish" \/ target[h] \in visited'[order[h]]

LEMMA HandlerKept ==
    ASSUME TypeInv, NEW h \in Handlers, HandlerOK(h), Keeps(h), Grows
    PROVE  HandlerOK(h)'
BY DEF TypeInv, LocalsOK, HandlerOK, Keeps, Grows

(* The handlers keep what they have while one of them returns.                    *)
LEMMA ReturnKeeps ==
    ASSUME TypeInv, NEW h \in Handlers, Return(h)
    PROVE  \A g \in Handlers : Keeps(g)
BY DEF TypeInv, LocalsOK, Return, Keeps

(* Events that were true stay true.                                            *)
LEMMA EventsKept ==
    ASSUME TypeInv, EventsTruthful, Grows, UNCHANGED events
    PROVE  EventsTruthful'
BY DEF TypeInv, DataOK, EventsTruthful, Grows, Events

(* No row is touched.                                                          *)
LEMMA RowsKept ==
    ASSUME TypeInv, HistoryInv, UNCHANGED <<status, visited>>
    PROVE  Grows /\ (\A o \in Orders : RowOK(o)') /\ NoStageSkipped'
BY DEF HistoryInv, Grows, RowOK, NoStageSkipped

(* One row is: it had the status that comes before the one that is written.        *)
LEMMA RowWritten ==
    ASSUME TypeInv, HistoryInv, NEW h \in Handlers, pc[h] # "idle",
           status' = [status EXCEPT ![order[h]] = target[h]],
           visited' = [visited EXCEPT ![order[h]] = @ \cup {target[h]}]
    PROVE  /\ Grows
           /\ \A o \in Orders : RowOK(o)'
           /\ NoStageSkipped'
           /\ target[h] \in visited'[order[h]]
<1> DEFINE o == order[h]
           t == target[h]
<1>1. o \in Orders /\ t \in Statuses
  BY DEF TypeInv, LocalsOK
<1>2. t \in DOMAIN Before /\ Before[t] \in visited[o] /\ t # "pending"
  BY DEF HistoryInv, HandlerOK, Before
<1>3. visited'[o] = visited[o] \cup {t} /\ status'[o] = t
  BY <1>1 DEF TypeInv, DataOK
<1>4. \A p \in Orders \ {o} : visited'[p] = visited[p] /\ status'[p] = status[p]
  BY <1>1 DEF TypeInv, DataOK
<1> HIDE DEF o, t
<1>5. Grows
  BY <1>3, <1>4 DEF Grows
<1>6. \A p \in Orders : RowOK(p)'
  BY <1>2, <1>3, <1>4 DEF HistoryInv, RowOK
<1>7. NoStageSkipped'
  BY <1>2, <1>3, <1>4 DEF HistoryInv, NoStageSkipped
<1> QED BY <1>3, <1>5, <1>6, <1>7 DEF o, t

LEMMA HistoryStep == TypeInv /\ HistoryInv /\ [Next]_vars => HistoryInv'
<1> SUFFICES ASSUME TypeInv, HistoryInv, [Next]_vars
             PROVE  HistoryInv'
  OBVIOUS
<1>0. (\A h \in Handlers : HandlerOK(h)) /\ EventsTruthful
  BY DEF HistoryInv
<1>1. ASSUME NEW h \in Handlers, NEW o \in Orders, NEW to \in Statuses, Validate(h, o, to)
      PROVE  HistoryInv'
  <2>1. Grows /\ (\A p \in Orders : RowOK(p)') /\ NoStageSkipped'
    BY <1>1, RowsKept DEF Validate
  <2>2. EventsTruthful'
    BY <1>0, <1>1, <2>1, EventsKept DEF Validate
  <2>3. status[o] \in Statuses \ {"pending"} /\ status[o] \in visited[o]
    BY DEF TypeInv, DataOK, HistoryInv, RowOK
  <2>4. to \in DOMAIN Before /\ Before[to] = status[o]
    BY <1>1, <2>3, TransitionsKnown DEF Validate
  <2>5. /\ order'[h] = o /\ target'[h] = to /\ read'[h] = status[o]
        /\ pc'[h] # "publish" /\ visited' = visited
    BY <1>1 DEF Validate, ReleaseHead, TypeInv, LocalsOK
  <2>6. HandlerOK(h)'
    BY <2>3, <2>4, <2>5 DEF HandlerOK
  <2>7. ASSUME NEW g \in Handlers \ {h}
        PROVE  HandlerOK(g)'
    <3>1. Keeps(g)
      BY <1>1 DEF Validate, Keeps, TypeInv, LocalsOK
    <3> QED BY <1>0, <2>1, <3>1, HandlerKept
  <2> QED BY <2>1, <2>2, <2>6, <2>7 DEF HistoryInv
<1>2. ASSUME NEW h \in Handlers, ReleaseItem(h)
      PROVE  HistoryInv'
  <2>1. Grows /\ (\A p \in Orders : RowOK(p)') /\ NoStageSkipped'
    BY <1>2, RowsKept DEF ReleaseItem
  <2>2. EventsTruthful'
    BY <1>0, <1>2, <2>1, EventsKept DEF ReleaseItem
  <2>3. \A g \in Handlers : Keeps(g)
    BY <1>2 DEF ReleaseItem, ReleaseHead, Keeps, TypeInv, LocalsOK
  <2> QED BY <1>0, <2>1, <2>2, <2>3, HandlerKept DEF HistoryInv
<1>3. ASSUME NEW h \in Handlers, ReleaseFails(h)
      PROVE  HistoryInv'
  <2>1. Grows /\ (\A p \in Orders : RowOK(p)') /\ NoStageSkipped'
    BY <1>3, RowsKept DEF ReleaseFails
  <2>2. EventsTruthful'
    BY <1>0, <1>3, <2>1, EventsKept DEF ReleaseFails
  <2>3. \A g \in Handlers : Keeps(g)
    BY <1>3, ReturnKeeps DEF ReleaseFails
  <2> QED BY <1>0, <2>1, <2>2, <2>3, HandlerKept DEF HistoryInv
<1>4. ASSUME NEW h \in Handlers, RowsLost(h)
      PROVE  HistoryInv'
  <2>1. Grows /\ (\A p \in Orders : RowOK(p)') /\ NoStageSkipped'
    BY <1>4, RowsKept DEF RowsLost
  <2>2. EventsTruthful'
    BY <1>0, <1>4, <2>1, EventsKept DEF RowsLost
  <2>3. \A g \in Handlers : Keeps(g)
    BY <1>4 DEF RowsLost, locals, Keeps, TypeInv, LocalsOK
  <2> QED BY <1>0, <2>1, <2>2, <2>3, HandlerKept DEF HistoryInv
<1>5. ASSUME NEW h \in Handlers, WriteStatus(h)
      PROVE  HistoryInv'
  <2>1. /\ Grows /\ (\A p \in Orders : RowOK(p)') /\ NoStageSkipped'
        /\ target[h] \in visited'[order[h]]
    BY <1>5, RowWritten DEF WriteStatus
  <2>2. EventsTruthful'
    BY <1>0, <1>5, <2>1, EventsKept DEF WriteStatus
  <2>3. \A g \in Handlers : Keeps(g)
    BY <1>5, <2>1 DEF WriteStatus, locals, Keeps, TypeInv, LocalsOK
  <2> QED BY <1>0, <2>1, <2>2, <2>3, HandlerKept DEF HistoryInv
<1>6. ASSUME NEW h \in Handlers, WriteFails(h)
      PROVE  HistoryInv'
  <2>1. Grows /\ (\A p \in Orders : RowOK(p)') /\ NoStageSkipped'
    BY <1>6, RowsKept DEF WriteFails
  <2>2. EventsTruthful'
    BY <1>0, <1>6, <2>1, EventsKept DEF WriteFails
  <2>3. \A g \in Handlers : Keeps(g)
    <3>1. CASE Return(h)
      BY <3>1, ReturnKeeps
    <3>2. CASE pc' = [pc EXCEPT ![h] = "orphan"] /\ UNCHANGED locals
      BY <1>6, <3>2 DEF WriteFails, locals, Keeps, TypeInv, LocalsOK
    <3> QED BY <1>6, <3>1, <3>2 DEF WriteFails
  <2> QED BY <1>0, <2>1, <2>2, <2>3, HandlerKept DEF HistoryInv
<1>10. ASSUME NEW h \in Handlers, ReleaseLost(h)
       PROVE  HistoryInv'
  <2>1. Grows /\ (\A p \in Orders : RowOK(p)') /\ NoStageSkipped'
    BY <1>10, RowsKept DEF ReleaseLost
  <2>2. EventsTruthful'
    BY <1>0, <1>10, <2>1, EventsKept DEF ReleaseLost
  <2>3. \A g \in Handlers : Keeps(g)
    BY <1>10 DEF ReleaseLost, locals, Keeps
  <2> QED BY <1>0, <2>1, <2>2, <2>3, HandlerKept DEF HistoryInv
<1>11. ASSUME NEW h \in Handlers, OrphanCommits(h)
       PROVE  HistoryInv'
  <2>1. Grows /\ (\A p \in Orders : RowOK(p)') /\ NoStageSkipped'
    BY <1>11, RowWritten DEF OrphanCommits
  <2>2. EventsTruthful'
    BY <1>0, <1>11, <2>1, EventsKept DEF OrphanCommits
  <2>3. \A g \in Handlers : Keeps(g)
    BY <1>11, ReturnKeeps DEF OrphanCommits
  <2> QED BY <1>0, <2>1, <2>2, <2>3, HandlerKept DEF HistoryInv
<1>12. ASSUME NEW h \in Handlers, OrphanDies(h)
       PROVE  HistoryInv'
  <2>1. Grows /\ (\A p \in Orders : RowOK(p)') /\ NoStageSkipped'
    BY <1>12, RowsKept DEF OrphanDies
  <2>2. EventsTruthful'
    BY <1>0, <1>12, <2>1, EventsKept DEF OrphanDies
  <2>3. \A g \in Handlers : Keeps(g)
    BY <1>12, ReturnKeeps DEF OrphanDies
  <2> QED BY <1>0, <2>1, <2>2, <2>3, HandlerKept DEF HistoryInv
<1>7. ASSUME NEW h \in Handlers, PublishEvent(h)
      PROVE  HistoryInv'
  <2>1. Grows /\ (\A p \in Orders : RowOK(p)') /\ NoStageSkipped'
    BY <1>7, RowsKept DEF PublishEvent
  <2>2. EventsTruthful'
    <3> DEFINE e == [order |-> order[h], status |-> target[h], previous |-> read[h]]
    <3>1. /\ {e.status, e.previous} \subseteq visited[e.order]
          /\ e.status \in DOMAIN Before /\ e.previous = Before[e.status]
      BY <1>0, <1>7 DEF PublishEvent, HandlerOK
    <3>2. events' \subseteq events \cup {e}
      BY <1>7 DEF PublishEvent
    <3>3. visited' = visited
      BY <1>7 DEF PublishEvent
    <3> HIDE DEF e
    <3> QED BY <1>0, <3>1, <3>2, <3>3 DEF EventsTruthful
  <2>3. \A g \in Handlers : Keeps(g)
    BY <1>7, ReturnKeeps DEF PublishEvent
  <2> QED BY <1>0, <2>1, <2>2, <2>3, HandlerKept DEF HistoryInv
<1>8. ASSUME NEW dead \in SUBSET Handlers, NEW left \in SUBSET dead, Crash(dead, left)
      PROVE  HistoryInv'
  <2>1. Grows /\ (\A p \in Orders : RowOK(p)') /\ NoStageSkipped'
    BY <1>8, RowsKept DEF Crash
  <2>2. EventsTruthful'
    BY <1>0, <1>8, <2>1, EventsKept DEF Crash
  <2>3. \A g \in Handlers : Keeps(g)
    BY <1>8 DEF Crash, Keeps, TypeInv, LocalsOK
  <2> QED BY <1>0, <2>1, <2>2, <2>3, HandlerKept DEF HistoryInv
<1>9. CASE Rest \/ UNCHANGED vars
  BY <1>9 DEF Rest, vars, locals, historyVars, HistoryInv, HandlerOK, RowOK,
              NoStageSkipped, EventsTruthful
<1> QED BY <1>1, <1>2, <1>3, <1>4, <1>5, <1>6, <1>7, <1>8, <1>9, <1>10, <1>11, <1>12 DEF Next

LEMMA HistoryInit == Init => HistoryInv
BY DEF Init, HistoryInv, HandlerOK, RowOK, NoStageSkipped, EventsTruthful

LEMMA HistoryInvariant == Spec => []HistoryInv
BY HistoryInit, HistoryStep, TypeInvariant, PTL DEF Spec

(* No order ever has a status without having had the ones before it, for any number   *)
(* of requests that overlap, crash or fail.                                      *)
THEOREM StagesInOrder == Spec => []NoStageSkipped
BY HistoryInvariant, PTL DEF HistoryInv

(* Every event tells a transition that was made.                                  *)
THEOREM EventsTellTheTruth == Spec => []EventsTruthful
BY HistoryInvariant, PTL DEF HistoryInv

-----------------------------------------------------------------------------
(* As long as no row of order_items was lost: a handler that cancels has given back   *)
(* the items its loop has passed, all of them when it writes the status.           *)
ReturnedOK(h) ==
    /\ pc[h] = "release" =>
          /\ target[h] = "cancelled"
          /\ \A i \in 1 .. ItemCount : i < item[h] => released[order[h]][i] >= 1
    /\ pc[h] \in {"update", "orphan"} /\ target[h] = "cancelled" =>
          \A i \in 1 .. ItemCount : released[order[h]][i] >= 1

ReturnedInv ==
    /\ "rowsLost" \notin faults => \A h \in Handlers : ReturnedOK(h)
    /\ CancelledIsReleased

(* What was given back stays given back.                                        *)
Accumulates ==
    \A o \in Orders : \A i \in 1 .. ItemCount : released'[o][i] >= released[o][i]

LEMMA UntouchedAccumulates ==
    ASSUME TypeInv, UNCHANGED released
    PROVE  Accumulates
<1> SUFFICES ASSUME NEW o \in Orders, NEW i \in 1 .. ItemCount
             PROVE  released'[o][i] >= released[o][i]
  BY DEF Accumulates
<1>1. released[o] \in [1 .. ItemCount -> Nat]
  BY DEF TypeInv, DataOK
<1>2. released[o][i] \in Nat
  BY <1>1
<1> QED BY <1>2

LEMMA StillReturned ==
    ASSUME TypeInv, TypeInv', Accumulates,
           NEW o \in Orders, NEW i \in 1 .. ItemCount, released[o][i] >= 1
    PROVE  released'[o][i] >= 1
<1> DEFINE before == released[o][i]
           after == released'[o][i]
<1>1. /\ released[o] \in [1 .. ItemCount -> Nat]
      /\ released'[o] \in [1 .. ItemCount -> Nat]
  BY DEF TypeInv, DataOK
<1>2. before \in Nat /\ after \in Nat
  BY <1>1
<1>3. after >= before /\ before >= 1
  BY DEF Accumulates
<1> HIDE DEF before, after
<1>4. after >= 1
  BY <1>2, <1>3
<1> QED BY <1>4 DEF after

(* The places of a request, or its statement, that has not written its status.      *)
Unwritten == {"release", "update", "orphan"}

(* A handler that stays where it is, leaves its UPDATE behind, or is done.           *)
Stays(h) ==
    pc'[h] \in Unwritten =>
        /\ pc'[h] = pc[h] \/ (pc[h] = "update" /\ pc'[h] = "orphan")
        /\ order'[h] = order[h] /\ target'[h] = target[h] /\ item'[h] = item[h]

LEMMA ReturnStays ==
    ASSUME TypeInv, NEW h \in Handlers, Return(h)
    PROVE  \A g \in Handlers : Stays(g)
BY DEF TypeInv, LocalsOK, Return, Stays, Unwritten

LEMMA ReturnedKept ==
    ASSUME TypeInv, TypeInv', NEW h \in Handlers, ReturnedOK(h), Stays(h), Accumulates
    PROVE  ReturnedOK(h)'
<1>1. CASE pc'[h] \notin Unwritten
  BY <1>1 DEF ReturnedOK, Unwritten
<1>2. CASE pc'[h] \in Unwritten
  <2> DEFINE o == order[h]
  <2>1. /\ pc'[h] = pc[h] \/ (pc[h] = "update" /\ pc'[h] = "orphan")
        /\ order'[h] = o /\ target'[h] = target[h]
        /\ item'[h] = item[h] /\ o \in Orders
    BY <1>2 DEF Stays, Unwritten, TypeInv, LocalsOK
  <2>2. \A i \in 1 .. ItemCount : released[o][i] >= 1 => released'[o][i] >= 1
    BY <2>1, StillReturned
  <2> QED BY <2>1, <2>2 DEF ReturnedOK
<1> QED BY <1>1, <1>2

LEMMA CancelledKept ==
    ASSUME TypeInv, TypeInv', CancelledIsReleased, Accumulates,
           UNCHANGED visited, faults \subseteq faults'
    PROVE  CancelledIsReleased'
<1> SUFFICES ASSUME "rowsLost" \notin faults', NEW o \in Orders,
                    "cancelled" \in visited'[o], NEW i \in 1 .. ItemCount
             PROVE  released'[o][i] >= 1
  BY DEF CancelledIsReleased
<1>1. released[o][i] >= 1
  BY DEF CancelledIsReleased
<1> QED BY <1>1, StillReturned

(* The status is written: if it is "cancelled", every item has been given back.       *)
LEMMA CancelledWritten ==
    ASSUME TypeInv, ReturnedInv, NEW h \in Handlers, pc[h] \in {"update", "orphan"},
           visited' = [visited EXCEPT ![order[h]] = @ \cup {target[h]}],
           UNCHANGED released, faults \subseteq faults'
    PROVE  CancelledIsReleased'
<1> SUFFICES ASSUME "rowsLost" \notin faults', NEW o \in Orders,
                    "cancelled" \in visited'[o], NEW i \in 1 .. ItemCount
             PROVE  released[o][i] >= 1
  BY DEF CancelledIsReleased
<1>1. CASE "cancelled" \in visited[o]
  BY <1>1 DEF ReturnedInv, CancelledIsReleased
<1>2. CASE "cancelled" \notin visited[o]
  <2>1. order[h] = o /\ target[h] = "cancelled"
    BY <1>2 DEF TypeInv, DataOK, LocalsOK
  <2> QED BY <2>1 DEF ReturnedInv, ReturnedOK
<1> QED BY <1>1, <1>2

LEMMA ReturnedStep == TypeInv /\ ReturnedInv /\ [Next]_vars => ReturnedInv'
<1> SUFFICES ASSUME TypeInv, ReturnedInv, [Next]_vars
             PROVE  ReturnedInv'
  OBVIOUS
<1>0. TypeInv' /\ CancelledIsReleased
  BY TypeStep DEF ReturnedInv
<1>1. ASSUME NEW h \in Handlers, NEW o \in Orders, NEW to \in Statuses, Validate(h, o, to)
      PROVE  ReturnedInv'
  <2>1. Accumulates
    BY <1>1, UntouchedAccumulates DEF Validate
  <2>2. CancelledIsReleased'
    BY <1>0, <1>1, <2>1, CancelledKept DEF Validate
  <2>3. ReturnedOK(h)'
    <3>1. item[h] = 1 /\ item' = item
      BY <1>1 DEF Validate, TypeInv, LocalsOK
    <3>2. target'[h] = to
      BY <1>1 DEF Validate, TypeInv, LocalsOK
    <3>3. CASE to # "cancelled"
      <4>1. pc'[h] = "update"
        BY <1>1, <3>3 DEF Validate, TypeInv, LocalsOK
      <4> QED BY <3>2, <3>3, <4>1 DEF ReturnedOK
    <3>4. CASE to = "cancelled"
      <4>1. pc'[h] = ReleaseHead(1)
        BY <1>1, <3>4 DEF Validate, TypeInv, LocalsOK
      <4>2. pc'[h] \in {"update", "orphan"} => 1 .. ItemCount = {}
        BY <4>1, ItemCountAssumption DEF ReleaseHead
      <4>3. \A i \in 1 .. ItemCount : ~ (i < item'[h])
        BY <3>1
      <4> QED BY <3>2, <3>4, <4>2, <4>3 DEF ReturnedOK
    <3> QED BY <3>3, <3>4
  <2>4. \A g \in Handlers \ {h} : Stays(g)
    BY <1>1 DEF Validate, Stays, Unwritten, TypeInv, LocalsOK
  <2>5. faults' = faults
    BY <1>1 DEF Validate
  <2> QED BY <1>0, <2>1, <2>2, <2>3, <2>4, <2>5, ReturnedKept DEF ReturnedInv
<1>2. ASSUME NEW h \in Handlers, ReleaseItem(h)
      PROVE  ReturnedInv'
  <2> DEFINE o == order[h]
             i == item[h]
  <2>1. o \in Orders /\ i \in 1 .. ItemCount
    BY <1>2, ItemCountAssumption DEF ReleaseItem, TypeInv, LocalsOK
  <2>2. Accumulates /\ released'[o][i] = released[o][i] + 1
    BY <1>2, <2>1, GiveBackTyped DEF ReleaseItem, TypeInv, DataOK, Accumulates
  <2>3. UNCHANGED <<visited, faults>>
    BY <1>2 DEF ReleaseItem
  <2>4. CancelledIsReleased'
    BY <1>0, <2>2, <2>3, CancelledKept
  <2>5. ASSUME "rowsLost" \notin faults
        PROVE  ReturnedOK(h)'
    <3>1. /\ pc[h] = "release" /\ target[h] = "cancelled"
          /\ \A j \in 1 .. ItemCount : j < i => released[o][j] >= 1
      BY <1>2, <2>5 DEF ReleaseItem, ReturnedInv, ReturnedOK
    <3>2. /\ order'[h] = o /\ target'[h] = "cancelled" /\ item'[h] = i + 1
          /\ pc'[h] = ReleaseHead(i + 1)
      BY <1>2, <3>1 DEF ReleaseItem, TypeInv, LocalsOK
    <3>3. released[o][i] \in Nat
      <4>1. released[o] \in [1 .. ItemCount -> Nat]
        BY <2>1 DEF TypeInv, DataOK
      <4> QED BY <2>1, <4>1
    <3>4. \A j \in 1 .. ItemCount : j < i => released'[o][j] >= 1
      BY <1>0, <2>1, <2>2, <3>1, StillReturned
    <3> HIDE DEF o, i
    <3>5. released'[o][i] >= 1
      BY <2>2, <3>3
    <3>6. \A j \in 1 .. ItemCount : j < i + 1 => released'[o][j] >= 1
      <4>1. \A j \in 1 .. ItemCount : j < i + 1 => j < i \/ j = i
        BY <2>1
      <4> QED BY <3>4, <3>5, <4>1
    <3>7. pc'[h] \in {"update", "orphan"} => \A j \in 1 .. ItemCount : j < i + 1
      BY <2>1, <3>2, ItemCountAssumption DEF ReleaseHead
    <3> QED BY <3>2, <3>6, <3>7 DEF ReturnedOK
  <2>6. \A g \in Handlers \ {h} : Stays(g)
    BY <1>2 DEF ReleaseItem, Stays, Unwritten, TypeInv, LocalsOK
  <2> QED BY <1>0, <2>2, <2>3, <2>4, <2>5, <2>6, ReturnedKept DEF ReturnedInv
<1>3. ASSUME NEW h \in Handlers, ReleaseFails(h)
      PROVE  ReturnedInv'
  <2>1. Accumulates
    <3>1. order[h] \in Orders /\ item[h] \in 1 .. ItemCount
      BY <1>3, ItemCountAssumption DEF ReleaseFails, TypeInv, LocalsOK
    <3>2. CASE GiveBack(order[h], item[h])
      BY <3>1, <3>2, GiveBackTyped DEF TypeInv, DataOK, Accumulates
    <3>3. CASE UNCHANGED released
      BY <3>3, UntouchedAccumulates
    <3> QED BY <1>3, <3>2, <3>3 DEF ReleaseFails
  <2>2. UNCHANGED visited /\ faults \subseteq faults'
    BY <1>3 DEF ReleaseFails, Fault
  <2>3. \A g \in Handlers : Stays(g)
    BY <1>3, ReturnStays DEF ReleaseFails
  <2> QED BY <1>0, <2>1, <2>2, <2>3, ReturnedKept, CancelledKept DEF ReturnedInv
<1>4. ASSUME NEW h \in Handlers, RowsLost(h)
      PROVE  ReturnedInv'
  BY <1>4 DEF RowsLost, Fault, ReturnedInv, CancelledIsReleased
<1>5. ASSUME NEW h \in Handlers, WriteStatus(h)
      PROVE  ReturnedInv'
  <2>1. Accumulates /\ faults' = faults
    BY <1>5, UntouchedAccumulates DEF WriteStatus
  <2>2. CancelledIsReleased'
    BY <1>5, CancelledWritten DEF WriteStatus
  <2>3. \A g \in Handlers : Stays(g)
    BY <1>5 DEF WriteStatus, locals, Stays, Unwritten, TypeInv, LocalsOK
  <2> QED BY <1>0, <2>1, <2>2, <2>3, ReturnedKept DEF ReturnedInv
<1>6. ASSUME NEW h \in Handlers, WriteFails(h)
      PROVE  ReturnedInv'
  <2>1. Accumulates /\ UNCHANGED visited /\ faults \subseteq faults'
    BY <1>6, UntouchedAccumulates DEF WriteFails, Fault
  <2>2. \A g \in Handlers : Stays(g)
    <3>1. CASE Return(h)
      BY <3>1, ReturnStays
    <3>2. CASE pc' = [pc EXCEPT ![h] = "orphan"] /\ UNCHANGED locals
      BY <1>6, <3>2 DEF WriteFails, locals, Stays, Unwritten, TypeInv, LocalsOK
    <3> QED BY <1>6, <3>1, <3>2 DEF WriteFails
  <2> QED BY <1>0, <2>1, <2>2, ReturnedKept, CancelledKept DEF ReturnedInv
<1>10. ASSUME NEW h \in Handlers, ReleaseLost(h)
       PROVE  ReturnedInv'
  <2>1. Accumulates
    <3>1. order[h] \in Orders /\ item[h] \in 1 .. ItemCount
      BY <1>10, ItemCountAssumption DEF ReleaseLost, TypeInv, LocalsOK
    <3> QED BY <1>10, <3>1, GiveBackTyped DEF ReleaseLost, TypeInv, DataOK, Accumulates
  <2>2. UNCHANGED visited /\ faults \subseteq faults'
    BY <1>10 DEF ReleaseLost, Fault
  <2>3. \A g \in Handlers : Stays(g)
    BY <1>10 DEF ReleaseLost, locals, Stays, Unwritten
  <2> QED BY <1>0, <2>1, <2>2, <2>3, ReturnedKept, CancelledKept DEF ReturnedInv
<1>11. ASSUME NEW h \in Handlers, OrphanCommits(h)
       PROVE  ReturnedInv'
  <2>1. Accumulates /\ faults' = faults
    BY <1>11, UntouchedAccumulates DEF OrphanCommits
  <2>2. CancelledIsReleased'
    BY <1>11, CancelledWritten DEF OrphanCommits
  <2>3. \A g \in Handlers : Stays(g)
    BY <1>11, ReturnStays DEF OrphanCommits
  <2> QED BY <1>0, <2>1, <2>2, <2>3, ReturnedKept DEF ReturnedInv
<1>12. ASSUME NEW h \in Handlers, OrphanDies(h)
       PROVE  ReturnedInv'
  <2>1. Accumulates /\ UNCHANGED <<visited, faults>>
    BY <1>12, UntouchedAccumulates DEF OrphanDies
  <2>2. \A g \in Handlers : Stays(g)
    BY <1>12, ReturnStays DEF OrphanDies
  <2> QED BY <1>0, <2>1, <2>2, ReturnedKept, CancelledKept DEF ReturnedInv
<1>7. ASSUME NEW h \in Handlers, PublishEvent(h)
      PROVE  ReturnedInv'
  <2>1. Accumulates /\ UNCHANGED visited /\ faults \subseteq faults'
    BY <1>7, UntouchedAccumulates DEF PublishEvent, Fault
  <2>2. \A g \in Handlers : Stays(g)
    BY <1>7, ReturnStays DEF PublishEvent
  <2> QED BY <1>0, <2>1, <2>2, ReturnedKept, CancelledKept DEF ReturnedInv
<1>8. ASSUME NEW dead \in SUBSET Handlers, NEW left \in SUBSET dead, Crash(dead, left)
      PROVE  ReturnedInv'
  <2>1. Accumulates /\ UNCHANGED visited /\ faults \subseteq faults'
    BY <1>8, UntouchedAccumulates DEF Crash, Fault
  <2>2. \A g \in Handlers : Stays(g)
    BY <1>8 DEF Crash, Stays, Unwritten, TypeInv, LocalsOK
  <2> QED BY <1>0, <2>1, <2>2, ReturnedKept, CancelledKept DEF ReturnedInv
<1>9. CASE Rest \/ UNCHANGED vars
  BY <1>9 DEF Rest, vars, locals, historyVars, ReturnedInv, ReturnedOK, CancelledIsReleased
<1> QED BY <1>1, <1>2, <1>3, <1>4, <1>5, <1>6, <1>7, <1>8, <1>9, <1>10, <1>11, <1>12 DEF Next

LEMMA ReturnedInit == Init => ReturnedInv
BY DEF Init, ReturnedInv, ReturnedOK, CancelledIsReleased

(* However many requests overlap, crash or fail: while no row of order_items is lost,   *)
(* an order that was ever cancelled has given back each of its items.               *)
THEOREM CancellationReleases == Spec => []CancelledIsReleased
<1>1. Spec => []ReturnedInv
  BY ReturnedInit, ReturnedStep, TypeInvariant, PTL DEF Spec
<1> QED BY <1>1, PTL DEF ReturnedInv

-----------------------------------------------------------------------------
(* Without overlap: the only handler at work on an order, or the statement that is       *)
(* left of it, has read the status that the order has until it writes.               *)
Alone ==
    \A g, h \in Handlers :
        g # h /\ pc[g] # "idle" /\ pc[h] # "idle" /\ order[g] = order[h] =>
            order[h] \in overlapped

ReadOK(h) ==
    pc[h] \in Unwritten /\ order[h] \notin overlapped => read[h] = status[order[h]]

AloneInv ==
    /\ Alone
    /\ \A h \in Handlers : ReadOK(h)
    /\ FinalUnlessOverlapped

(* A handler that goes on with the same request, before or after its write, or         *)
(* returns.                                                                    *)
GoesOn(h) ==
    pc'[h] # "idle" =>
        /\ pc[h] # "idle"
        /\ order'[h] = order[h] /\ target'[h] = target[h] /\ read'[h] = read[h]
        /\ pc'[h] \in Unwritten => pc[h] \in Unwritten

LEMMA ReturnGoesOn ==
    ASSUME TypeInv, NEW h \in Handlers, Return(h)
    PROVE  \A g \in Handlers : GoesOn(g)
BY DEF TypeInv, LocalsOK, Return, GoesOn, Unwritten

LEMMA AloneKept ==
    ASSUME Alone, \A g \in Handlers : GoesOn(g), UNCHANGED overlapped
    PROVE  Alone'
BY DEF Alone, GoesOn

(* Nothing is written.                                                         *)
LEMMA NothingWritten ==
    ASSUME TypeInv, AloneInv, \A g \in Handlers : GoesOn(g),
           UNCHANGED <<status, visited, overlapped>>
    PROVE  AloneInv'
<1>1. Alone'
  BY AloneKept DEF AloneInv
<1>2. \A g \in Handlers : ReadOK(g)'
  BY DEF AloneInv, ReadOK, GoesOn, Unwritten
<1>3. FinalUnlessOverlapped'
  BY DEF AloneInv, FinalUnlessOverlapped
<1> QED BY <1>1, <1>2, <1>3 DEF AloneInv

(* The status of one order is.                                                  *)
LEMMA OneWritten ==
    ASSUME TypeInv, HistoryInv, AloneInv, NEW h \in Handlers,
           pc[h] \in {"update", "orphan"}, pc'[h] \in {"idle", "publish"},
           \A g \in Handlers : GoesOn(g),
           status' = [status EXCEPT ![order[h]] = target[h]],
           visited' = [visited EXCEPT ![order[h]] = @ \cup {target[h]}],
           UNCHANGED overlapped
    PROVE  AloneInv'
<1>1. Alone'
  BY AloneKept DEF AloneInv
<1>2. ASSUME NEW g \in Handlers
      PROVE  ReadOK(g)'
  <2>1. SUFFICES ASSUME pc'[g] \in Unwritten, order'[g] \notin overlapped
                 PROVE  read'[g] = status'[order'[g]]
    BY DEF ReadOK
  <2>2. /\ g # h /\ pc[g] \in Unwritten
        /\ order'[g] = order[g] /\ read'[g] = read[g]
    BY <2>1 DEF GoesOn, Unwritten
  <2>3. order[g] # order[h]
    BY <2>1, <2>2 DEF AloneInv, Alone, Unwritten
  <2>4. read[g] = status[order[g]]
    BY <2>1, <2>2 DEF AloneInv, ReadOK
  <2>5. order[g] \in Orders
    BY <2>2 DEF TypeInv, LocalsOK, Unwritten
  <2> QED BY <2>2, <2>3, <2>4, <2>5 DEF TypeInv, DataOK
<1>3. FinalUnlessOverlapped'
  <2> SUFFICES ASSUME NEW o \in Orders \ overlapped,
                      NEW st \in visited'[o] \cap Terminal
               PROVE  status'[o] = st
    BY DEF FinalUnlessOverlapped
  <2>1. CASE order[h] # o
    BY <2>1 DEF TypeInv, DataOK, AloneInv, FinalUnlessOverlapped
  <2>2. CASE order[h] = o
    <3>1. read[h] = status[o]
      BY <2>2 DEF AloneInv, ReadOK, Unwritten
    <3>2. read[h] \notin Terminal
      BY DEF HistoryInv, HandlerOK, Before, Terminal
    <3>3. visited[o] \cap Terminal = {}
      BY <3>1, <3>2 DEF AloneInv, FinalUnlessOverlapped
    <3>4. visited'[o] = visited[o] \cup {target[h]} /\ status'[o] = target[h]
      BY <2>2 DEF TypeInv, DataOK
    <3> QED BY <3>3, <3>4
  <2> QED BY <2>1, <2>2
<1> QED BY <1>1, <1>2, <1>3 DEF AloneInv

LEMMA ValidateAlone ==
    ASSUME TypeInv, AloneInv, NEW h \in Handlers, NEW o \in Orders, NEW to \in Statuses,
           Validate(h, o, to)
    PROVE  AloneInv'
<1>1. /\ order'[h] = o /\ read'[h] = status[o]
      /\ pc[h] = "idle" /\ order[h] = NoOrder
      /\ UNCHANGED <<status, visited>>
  BY DEF Validate, TypeInv, LocalsOK
<1>2. \A g \in Handlers \ {h} :
         order'[g] = order[g] /\ read'[g] = read[g] /\ pc'[g] = pc[g]
  BY DEF Validate, TypeInv, LocalsOK
<1>3. overlapped \subseteq overlapped'
  BY DEF Validate
<1>4. (\E g \in Handlers : order[g] = o) => o \in overlapped'
  BY DEF Validate
<1>5. Alone'
  BY <1>1, <1>2, <1>3, <1>4 DEF AloneInv, Alone
<1>6. \A g \in Handlers : ReadOK(g)'
  BY <1>1, <1>2, <1>3 DEF AloneInv, ReadOK, Unwritten
<1>7. FinalUnlessOverlapped'
  BY <1>1, <1>3 DEF AloneInv, FinalUnlessOverlapped
<1> QED BY <1>5, <1>6, <1>7 DEF AloneInv

LEMMA AloneStep == TypeInv /\ HistoryInv /\ AloneInv /\ [Next]_vars => AloneInv'
<1> SUFFICES ASSUME TypeInv, HistoryInv, AloneInv, [Next]_vars
             PROVE  AloneInv'
  OBVIOUS
<1>1. ASSUME NEW h \in Handlers, NEW o \in Orders, NEW to \in Statuses, Validate(h, o, to)
      PROVE  AloneInv'
  BY <1>1, ValidateAlone
<1>2. ASSUME NEW h \in Handlers, ReleaseItem(h)
      PROVE  AloneInv'
  <2>1. \A g \in Handlers : GoesOn(g)
    BY <1>2 DEF ReleaseItem, ReleaseHead, GoesOn, Unwritten, TypeInv, LocalsOK
  <2> QED BY <1>2, <2>1, NothingWritten DEF ReleaseItem
<1>3. ASSUME NEW h \in Handlers, ReleaseFails(h)
      PROVE  AloneInv'
  BY <1>3, ReturnGoesOn, NothingWritten DEF ReleaseFails
<1>4. ASSUME NEW h \in Handlers, RowsLost(h)
      PROVE  AloneInv'
  <2>1. \A g \in Handlers : GoesOn(g)
    BY <1>4 DEF RowsLost, locals, GoesOn, Unwritten, TypeInv, LocalsOK
  <2> QED BY <1>4, <2>1, NothingWritten DEF RowsLost
<1>5. ASSUME NEW h \in Handlers, WriteStatus(h)
      PROVE  AloneInv'
  <2>1. \A g \in Handlers : GoesOn(g)
    BY <1>5 DEF WriteStatus, locals, GoesOn, Unwritten, TypeInv, LocalsOK
  <2>2. pc'[h] = "publish"
    BY <1>5 DEF WriteStatus, TypeInv, LocalsOK
  <2> QED BY <1>5, <2>1, <2>2, OneWritten DEF WriteStatus
<1>6. ASSUME NEW h \in Handlers, WriteFails(h)
      PROVE  AloneInv'
  <2>1. \A g \in Handlers : GoesOn(g)
    <3>1. CASE Return(h)
      BY <3>1, ReturnGoesOn
    <3>2. CASE pc' = [pc EXCEPT ![h] = "orphan"] /\ UNCHANGED locals
      BY <1>6, <3>2 DEF WriteFails, locals, GoesOn, Unwritten, TypeInv, LocalsOK
    <3> QED BY <1>6, <3>1, <3>2 DEF WriteFails
  <2> QED BY <1>6, <2>1, NothingWritten DEF WriteFails
<1>10. ASSUME NEW h \in Handlers, ReleaseLost(h)
       PROVE  AloneInv'
  <2>1. \A g \in Handlers : GoesOn(g)
    BY <1>10 DEF ReleaseLost, locals, GoesOn
  <2> QED BY <1>10, <2>1, NothingWritten DEF ReleaseLost
<1>11. ASSUME NEW h \in Handlers, OrphanCommits(h)
       PROVE  AloneInv'
  <2>1. \A g \in Handlers : GoesOn(g)
    BY <1>11, ReturnGoesOn DEF OrphanCommits
  <2>2. pc'[h] = "idle"
    BY <1>11 DEF OrphanCommits, Return, TypeInv, LocalsOK
  <2> QED BY <1>11, <2>1, <2>2, OneWritten DEF OrphanCommits
<1>12. ASSUME NEW h \in Handlers, OrphanDies(h)
       PROVE  AloneInv'
  BY <1>12, ReturnGoesOn, NothingWritten DEF OrphanDies
<1>7. ASSUME NEW h \in Handlers, PublishEvent(h)
      PROVE  AloneInv'
  BY <1>7, ReturnGoesOn, NothingWritten DEF PublishEvent
<1>8. ASSUME NEW dead \in SUBSET Handlers, NEW left \in SUBSET dead, Crash(dead, left)
      PROVE  AloneInv'
  <2>1. \A g \in Handlers : GoesOn(g)
    BY <1>8 DEF Crash, GoesOn, Unwritten, TypeInv, LocalsOK
  <2> QED BY <1>8, <2>1, NothingWritten DEF Crash
<1>9. CASE Rest \/ UNCHANGED vars
  <2>1. UNCHANGED vars
    BY <1>9 DEF Rest
  <2>2. \A g \in Handlers : GoesOn(g)
    BY <2>1 DEF vars, locals, GoesOn
  <2> QED BY <2>1, <2>2, NothingWritten DEF vars, historyVars
<1> QED BY <1>1, <1>2, <1>3, <1>4, <1>5, <1>6, <1>7, <1>8, <1>9, <1>10, <1>11, <1>12 DEF Next

LEMMA AloneInit == Init => AloneInv
BY DEF Init, AloneInv, Alone, ReadOK, Unwritten, FinalUnlessOverlapped

(* An order that no request was let through for while another one, or an UPDATE that      *)
(* another left behind, was at work on it keeps the terminal status it has reached,       *)
(* whatever crashes or fails.                                                   *)
THEOREM FinalWithoutOverlap == Spec => []FinalUnlessOverlapped
<1>1. Spec => []AloneInv
  BY AloneInit, AloneStep, TypeInvariant, HistoryInvariant, PTL DEF Spec
<1> QED BY <1>1, PTL DEF AloneInv

-----------------------------------------------------------------------------
(* An UPDATE is left behind by a failure only.                                   *)
OrphanInv == \A h \in Handlers : pc[h] = "orphan" => faults # {}

LEMMA OrphanStep == TypeInv /\ OrphanInv /\ [Next]_vars => OrphanInv'
<1> SUFFICES ASSUME TypeInv, OrphanInv, [Next]_vars, NEW h \in Handlers, pc'[h] = "orphan"
             PROVE  faults' # {}
  BY DEF OrphanInv
<1> USE DEF TypeInv, LocalsOK
<1>1. faults \subseteq faults'
  BY DEF Next, Validate, ReleaseItem, ReleaseLost, ReleaseFails, RowsLost, WriteStatus,
         WriteFails, OrphanCommits, OrphanDies, PublishEvent, Crash, Rest, Fault, vars,
         historyVars
<1>2. CASE pc[h] = "orphan"
  BY <1>1, <1>2 DEF OrphanInv
<1>3. CASE pc[h] # "orphan"
  <2>1. ASSUME NEW g \in Handlers, WriteFails(g)
        PROVE  faults' # {}
    BY <2>1 DEF WriteFails, Fault
  <2>2. ASSUME NEW dead \in SUBSET Handlers, NEW left \in SUBSET dead, Crash(dead, left)
        PROVE  faults' # {}
    BY <2>2 DEF Crash, Fault
  <2>3. ASSUME NEW g \in Handlers, Return(g)
        PROVE  FALSE
    BY <1>3, <2>3 DEF Return
  <2>4. ASSUME NEW g \in Handlers,
               \/ \E o \in Orders, to \in Statuses : Validate(g, o, to)
               \/ ReleaseItem(g) \/ ReleaseLost(g) \/ RowsLost(g) \/ WriteStatus(g)
        PROVE  FALSE
    BY <1>3, <2>4 DEF Validate, ReleaseItem, ReleaseHead, ReleaseLost, RowsLost, WriteStatus
  <2>5. CASE Rest \/ UNCHANGED vars
    BY <1>3, <2>5 DEF Rest, vars
  <2> QED BY <2>1, <2>2, <2>3, <2>4, <2>5
          DEF Next, ReleaseFails, OrphanCommits, OrphanDies, PublishEvent
<1> QED BY <1>2, <1>3

LEMMA OrphanInit == Init => OrphanInv
BY DEF Init, OrphanInv

LEMMA OrphanInvariant == Spec => []OrphanInv
BY OrphanInit, OrphanStep, TypeInvariant, PTL DEF Spec

-----------------------------------------------------------------------------
(* An order that no two requests worked on at the same time, while nothing failed.   *)
(* Its history is the way to its status, and every item was given back once if a      *)
(* request has cancelled the order or has passed that item on the way to it.         *)
Path(st) ==
    CASE st = "confirmed"        -> {"confirmed"}
      [] st = "packing"          -> {"confirmed", "packing"}
      [] st = "out_for_delivery" -> {"confirmed", "packing", "out_for_delivery"}
      [] st = "delivered"        -> {"confirmed", "packing", "out_for_delivery", "delivered"}
      [] st = "cancelled"        -> {"confirmed", "cancelled"}
      [] OTHER                   -> {}

Unserved(o) == \A h \in Handlers : order[h] # o

Once(b) == IF b THEN 1 ELSE 0

CalmOrder(o) ==
    /\ visited[o] = Path(status[o])
    /\ Unserved(o) =>
          \A i \in 1 .. ItemCount : released[o][i] = Once(status[o] = "cancelled")

GivenBackBy(h, i) ==
    /\ target[h] = "cancelled"
    /\ pc[h] = "release" => i < item[h]

CalmHandler(h) ==
    /\ pc[h] = "release" => target[h] = "cancelled"
    /\ pc[h] = "publish" =>
          /\ target[h] = status[order[h]]
          /\ \A e \in events : e.order = order[h] => e.status # target[h]
    /\ \A i \in 1 .. ItemCount : released[order[h]][i] = Once(GivenBackBy(h, i))

CalmInv ==
    /\ \A o \in Orders : Calm(o) => CalmOrder(o)
    /\ \A h \in Handlers : pc[h] # "idle" /\ Calm(order[h]) => CalmHandler(h)

(* The next status is a new one, and the only new one.                            *)
LEMMA PathGrows ==
    ASSUME NEW to \in DOMAIN Before
    PROVE  /\ Path(to) = Path(Before[to]) \cup {to}
           /\ to \notin Path(Before[to])
           /\ Before[to] # "cancelled"
BY DEF Path, Before

(* What a step of one handler on one order leaves alone.                            *)
Elsewhere(h, o) ==
    /\ \A g \in Handlers \ {h} : /\ pc'[g] = pc[g] /\ order'[g] = order[g]
                                /\ target'[g] = target[g] /\ item'[g] = item[g]
    /\ \A p \in Orders \ {o} : /\ status'[p] = status[p] /\ visited'[p] = visited[p]
                              /\ released'[p] = released[p]
    /\ \A e \in events' \ events : e.order = o
    /\ {order[h], order'[h]} \subseteq {o, NoOrder}

(* So only that order and that handler have to be looked at.                        *)
LEMMA CalmElsewhere ==
    ASSUME TypeInv, TypeInv', CalmInv, NEW h \in Handlers, NEW o \in Orders, Elsewhere(h, o),
           overlapped \subseteq overlapped', faults \subseteq faults',
           Calm(o)' => /\ \A g \in Handlers \ {h} : order[g] # o
                       /\ CalmOrder(o)'
                       /\ pc'[h] # "idle" => CalmHandler(h)'
    PROVE  CalmInv'
<1>1. \A p \in Orders : Calm(p)' => Calm(p)
  BY DEF Calm
<1>2. ASSUME NEW p \in Orders \ {o}, Calm(p)'
      PROVE  CalmOrder(p)'
  <2>1. Unserved(p)' => Unserved(p)
    BY NoOrderAssumption DEF Unserved, Elsewhere
  <2>2. CalmOrder(p)
    BY <1>1, <1>2 DEF CalmInv
  <2> QED BY <2>1, <2>2 DEF CalmOrder, Elsewhere
<1>3. ASSUME NEW g \in Handlers \ {h}, pc'[g] # "idle", Calm(order[g])'
      PROVE  CalmHandler(g)'
  <2> DEFINE p == order[g]
  <2>1. /\ pc'[g] = pc[g] /\ order'[g] = p /\ target'[g] = target[g] /\ item'[g] = item[g]
    BY DEF Elsewhere
  <2>2. p \in Orders
    BY <1>3, <2>1 DEF TypeInv, LocalsOK
  <2>3. p \notin overlapped' /\ faults' = {}
    BY <1>3, <2>1 DEF Calm
  <2>4. p # o
    BY <2>3 DEF Calm
  <2>5. CalmHandler(g)
    BY <1>3, <2>1, <2>2, <2>3 DEF CalmInv, Calm
  <2>6. status'[p] = status[p] /\ released'[p] = released[p]
    BY <2>2, <2>4 DEF Elsewhere
  <2>7. \A e \in events' : e.order = p => e \in events
    BY <2>4 DEF Elsewhere
  <2> HIDE DEF p
  <2>8. \A i \in 1 .. ItemCount : GivenBackBy(g, i)' = GivenBackBy(g, i)
    BY <2>1 DEF GivenBackBy
  <2>9. \A i \in 1 .. ItemCount : released'[p][i] = Once(GivenBackBy(g, i)')
    BY <2>5, <2>6, <2>8 DEF CalmHandler, p
  <2> QED BY <2>1, <2>5, <2>6, <2>7, <2>9 DEF CalmHandler, p, Once
<1>4. \A g \in Handlers \ {h} : pc'[g] # "idle" /\ Calm(order[g])' => CalmHandler(g)'
  BY <1>3
<1>5. pc'[h] # "idle" /\ Calm(order[h])' => CalmHandler(h)'
  <2>1. SUFFICES ASSUME pc'[h] # "idle", Calm(order[h])'
                 PROVE  CalmHandler(h)'
    OBVIOUS
  <2>2. order'[h] = o
    BY <2>1, NoOrderAssumption DEF TypeInv, LocalsOK, Elsewhere
  <2>3. Calm(o)'
    BY <2>1, <2>2 DEF Calm
  <2> QED BY <2>1, <2>3
<1>6. \A p \in Orders : Calm(p)' => CalmOrder(p)'
  BY <1>2
<1> QED BY <1>4, <1>5, <1>6 DEF CalmInv

(* A request begins.                                                          *)
LEMMA ValidateCalm ==
    ASSUME TypeInv, TypeInv', CalmInv, NEW h \in Handlers, NEW o \in Orders, NEW to \in Statuses,
           Validate(h, o, to)
    PROVE  CalmInv'
<1>1. /\ pc[h] = "idle" /\ order[h] = NoOrder /\ item[h] = 1
      /\ order'[h] = o /\ target'[h] = to /\ item' = item
      /\ UNCHANGED <<status, visited, released, events>>
  BY DEF Validate, TypeInv, LocalsOK
<1>2. pc'[h] = IF to = "cancelled" THEN ReleaseHead(1) ELSE "update"
  BY DEF Validate, TypeInv, LocalsOK
<1>3. Elsewhere(h, o)
  BY <1>1 DEF Validate, Elsewhere, TypeInv, LocalsOK
<1>4. overlapped \subseteq overlapped' /\ faults' = faults
  BY DEF Validate
<1>5. ASSUME Calm(o)'
      PROVE  /\ \A g \in Handlers \ {h} : order[g] # o
             /\ CalmOrder(o)'
             /\ CalmHandler(h)'
  <2>1. \A g \in Handlers : order[g] # o
    BY <1>5 DEF Validate, Calm
  <2>2. Calm(o)
    BY <1>4, <1>5 DEF Calm
  <2>3. /\ visited[o] = Path(status[o])
        /\ \A i \in 1 .. ItemCount : released[o][i] = Once(status[o] = "cancelled")
    BY <2>1, <2>2 DEF CalmInv, CalmOrder, Unserved
  <2>4. CalmOrder(o)'
    BY <1>1, <2>3 DEF CalmOrder, Unserved
  <2>5. status[o] # "cancelled"
    BY DEF Validate, validTransitions
  <2>6. \A i \in 1 .. ItemCount : released'[o][i] = 0
    BY <1>1, <2>3, <2>5 DEF Once
  <2>7. \A i \in 1 .. ItemCount : ~ GivenBackBy(h, i)'
    <3>1. pc'[h] # "release" /\ to = "cancelled" => 1 .. ItemCount = {}
      BY <1>2, ItemCountAssumption DEF ReleaseHead
    <3>2. \A i \in 1 .. ItemCount : ~ (i < item'[h])
      BY <1>1
    <3> QED BY <1>1, <3>1, <3>2 DEF GivenBackBy
  <2>8. pc'[h] # "publish" /\ (pc'[h] = "release" => to = "cancelled")
    BY <1>2 DEF ReleaseHead
  <2> QED BY <1>1, <2>1, <2>4, <2>6, <2>7, <2>8 DEF CalmHandler, Once
<1> QED BY <1>3, <1>4, <1>5, CalmElsewhere

(* The handler at work on a calm order is the only one.                            *)
LEMMA OnlyHandler ==
    ASSUME TypeInv, Alone, NEW h \in Handlers, pc[h] # "idle", order[h] \notin overlapped
    PROVE  \A g \in Handlers \ {h} : order[g] # order[h]
<1> SUFFICES ASSUME NEW g \in Handlers \ {h}, order[g] = order[h]
             PROVE  FALSE
  OBVIOUS
<1>1. order[h] \in Orders
  BY DEF TypeInv, LocalsOK
<1>2. pc[g] # "idle"
  BY <1>1, NoOrderAssumption DEF TypeInv, LocalsOK
<1> QED BY <1>2 DEF Alone

(* One item goes back.                                                         *)
LEMMA ReleaseItemCalm ==
    ASSUME TypeInv, TypeInv', AloneInv, CalmInv, NEW h \in Handlers, ReleaseItem(h),
           NEW o \in Orders, order[h] = o
    PROVE  CalmInv'
<1> DEFINE k == item[h]
<1>1. /\ o \in Orders /\ k \in 1 .. ItemCount /\ pc[h] = "release"
      /\ UNCHANGED <<status, visited, events, order, target, overlapped, faults>>
  BY ItemCountAssumption DEF ReleaseItem, TypeInv, LocalsOK
<1>2. item'[h] = k + 1 /\ pc'[h] = ReleaseHead(k + 1)
  BY DEF ReleaseItem, TypeInv, LocalsOK
<1>3. released' = [released EXCEPT ![o][k] = @ + 1]
  BY DEF ReleaseItem, GiveBack
<1>4. Elsewhere(h, o)
  BY <1>1, <1>3 DEF ReleaseItem, Elsewhere, TypeInv, LocalsOK, DataOK
<1>5. ASSUME Calm(o)
      PROVE  /\ \A g \in Handlers \ {h} : order[g] # o
             /\ CalmOrder(o)'
             /\ CalmHandler(h)'
  <2>1. \A g \in Handlers \ {h} : order[g] # o
    BY <1>1, <1>5, OnlyHandler DEF AloneInv, Calm
  <2>2. CalmOrder(o)'
    BY <1>1, <1>5 DEF CalmInv, CalmOrder, Unserved
  <2>3. /\ target[h] = "cancelled"
        /\ \A i \in 1 .. ItemCount : released[o][i] = Once(i < k)
    BY <1>1, <1>5 DEF CalmInv, CalmHandler, GivenBackBy, Once
  <2>4. \A i \in 1 .. ItemCount : released'[o][i] = Once(i < k + 1)
    <3>1. released[o] \in [1 .. ItemCount -> Nat]
      BY <1>1 DEF TypeInv, DataOK
    <3>2. released'[o] = [released[o] EXCEPT ![k] = released[o][k] + 1]
      BY <1>1, <1>3 DEF TypeInv, DataOK
    <3>3. released[o][k] = 0
      BY <1>1, <2>3 DEF Once
    <3> HIDE DEF k
    <3>4. SUFFICES ASSUME NEW i \in 1 .. ItemCount
                   PROVE  released'[o][i] = Once(i < k + 1)
      OBVIOUS
    <3>5. CASE i = k
      <4>1. released'[o][k] = 0 + 1
        BY <1>1, <3>1, <3>2, <3>3
      <4>2. k < k + 1
        BY <1>1
      <4> QED BY <3>5, <4>1, <4>2 DEF Once
    <3>6. CASE i # k
      <4>1. released'[o][i] = released[o][i] /\ (i < k + 1 <=> i < k)
        BY <1>1, <3>1, <3>2, <3>6
      <4> QED BY <2>3, <4>1 DEF Once
    <3> QED BY <3>5, <3>6
  <2>5. \A i \in 1 .. ItemCount : (i < k + 1) <=> GivenBackBy(h, i)'
    <3>1. pc'[h] = "release" \/ \A i \in 1 .. ItemCount : i < k + 1
      BY <1>1, <1>2, ItemCountAssumption DEF ReleaseHead
    <3> QED BY <1>1, <1>2, <2>3, <3>1 DEF GivenBackBy
  <2>6. pc'[h] # "publish" /\ target'[h] = "cancelled" /\ order'[h] = o
    BY <1>1, <1>2, <2>3 DEF ReleaseHead
  <2> QED BY <2>1, <2>2, <2>4, <2>5, <2>6 DEF CalmHandler, Once
<1>6. Calm(o)' => Calm(o)
  BY <1>1 DEF Calm
<1> HIDE DEF k
<1> QED BY <1>1, <1>4, <1>5, <1>6, CalmElsewhere

(* The status is written.                                                      *)
LEMMA WriteStatusCalm ==
    ASSUME TypeInv, TypeInv', HistoryInv, AloneInv, CalmInv, NEW h \in Handlers, WriteStatus(h),
           NEW o \in Orders, order[h] = o
    PROVE  CalmInv'
<1> DEFINE t == target[h]
<1>1. /\ o \in Orders /\ t \in Statuses /\ pc[h] = "update" /\ pc'[h] = "publish"
      /\ UNCHANGED <<events, order, target, item, released, overlapped, faults>>
  BY DEF WriteStatus, locals, TypeInv, LocalsOK
<1>2. status'[o] = t /\ visited'[o] = visited[o] \cup {t}
  BY <1>1 DEF WriteStatus, TypeInv, DataOK
<1>3. Elsewhere(h, o)
  BY <1>1 DEF WriteStatus, locals, Elsewhere, TypeInv, LocalsOK, DataOK
<1>4. ASSUME Calm(o)
      PROVE  /\ \A g \in Handlers \ {h} : order[g] # o
             /\ CalmOrder(o)'
             /\ CalmHandler(h)'
  <2>1. \A g \in Handlers \ {h} : order[g] # o
    BY <1>1, <1>4, OnlyHandler DEF AloneInv, Calm
  <2>2. t \in DOMAIN Before /\ Before[t] = status[o]
    BY <1>1, <1>4 DEF HistoryInv, HandlerOK, AloneInv, ReadOK, Unwritten, Calm
  <2>3. visited[o] = Path(status[o])
    BY <1>1, <1>4 DEF CalmInv, CalmOrder
  <2>4. visited'[o] = Path(status'[o])
    BY <1>2, <2>2, <2>3, PathGrows
  <2>5. CalmOrder(o)'
    BY <1>1, <2>4 DEF CalmOrder, Unserved
  <2>6. \A e \in events : e.order = o => e.status # t
    <3>1. t \notin visited[o]
      BY <2>2, <2>3, PathGrows
    <3> QED BY <3>1 DEF HistoryInv, EventsTruthful
  <2>7. \A i \in 1 .. ItemCount : released[o][i] = Once(t = "cancelled")
    BY <1>1, <1>4 DEF CalmInv, CalmHandler, GivenBackBy
  <2>8. \A i \in 1 .. ItemCount : GivenBackBy(h, i)' <=> t = "cancelled"
    BY <1>1 DEF GivenBackBy
  <2> QED BY <1>1, <1>2, <2>1, <2>5, <2>6, <2>7, <2>8 DEF CalmHandler, Once
<1>5. Calm(o)' => Calm(o)
  BY <1>1 DEF Calm
<1> HIDE DEF t
<1> QED BY <1>1, <1>3, <1>4, <1>5, CalmElsewhere

(* The event is published and the request ends.                                   *)
LEMMA PublishEventCalm ==
    ASSUME TypeInv, TypeInv', AloneInv, CalmInv, NEW h \in Handlers, PublishEvent(h),
           NEW o \in Orders, order[h] = o
    PROVE  CalmInv'
<1>1. /\ o \in Orders /\ pc[h] = "publish" /\ pc'[h] = "idle" /\ order'[h] = NoOrder
      /\ UNCHANGED <<status, visited, released, overlapped>>
      /\ faults \subseteq faults'
  BY DEF PublishEvent, Return, Fault, TypeInv, LocalsOK
<1>2. \A e \in events' \ events : e.order = o
  BY DEF PublishEvent
<1>3. Elsewhere(h, o)
  BY <1>1, <1>2 DEF PublishEvent, Return, Elsewhere, TypeInv, LocalsOK
<1>4. ASSUME Calm(o)
      PROVE  /\ \A g \in Handlers \ {h} : order[g] # o
             /\ CalmOrder(o)'
  <2>1. \A g \in Handlers \ {h} : order[g] # o
    BY <1>1, <1>4, OnlyHandler DEF AloneInv, Calm
  <2>2. /\ target[h] = status[o]
        /\ \A i \in 1 .. ItemCount : released[o][i] = Once(target[h] = "cancelled")
    BY <1>1, <1>4 DEF CalmInv, CalmHandler, GivenBackBy
  <2>3. visited[o] = Path(status[o])
    BY <1>1, <1>4 DEF CalmInv, CalmOrder
  <2> QED BY <1>1, <2>1, <2>2, <2>3 DEF CalmOrder, Once
<1>5. Calm(o)' => Calm(o)
  BY <1>1 DEF Calm
<1> QED BY <1>1, <1>3, <1>4, <1>5, CalmElsewhere

(* A failure, and no order is calm any more.                                      *)
LEMMA FaultCalm ==
    ASSUME NEW f, Fault(f)
    PROVE  CalmInv'
BY DEF Fault, CalmInv, Calm

LEMMA CalmStutter ==
    ASSUME CalmInv, UNCHANGED changingVars
    PROVE  CalmInv'
BY DEF changingVars, locals, historyVars, CalmInv, Calm, CalmOrder, CalmHandler, Unserved,
       GivenBackBy, Once

LEMMA CalmStep ==
    TypeInv /\ HistoryInv /\ AloneInv /\ OrphanInv /\ CalmInv /\ [Next]_vars => CalmInv'
<1> SUFFICES ASSUME TypeInv, HistoryInv, AloneInv, OrphanInv, CalmInv, [Next]_vars
             PROVE  CalmInv'
  OBVIOUS
<1>0. TypeInv'
  BY TypeStep
<1>1. ASSUME NEW h \in Handlers, NEW o \in Orders, NEW to \in Statuses, Validate(h, o, to)
      PROVE  CalmInv'
  BY <1>0, <1>1, ValidateCalm
<1>2. ASSUME NEW h \in Handlers, ReleaseItem(h)
      PROVE  CalmInv'
  <2>1. order[h] \in Orders
    BY <1>2 DEF ReleaseItem, TypeInv, LocalsOK
  <2> QED BY <1>0, <1>2, <2>1, ReleaseItemCalm
<1>3. ASSUME NEW h \in Handlers,
             ReleaseLost(h) \/ ReleaseFails(h) \/ RowsLost(h) \/ WriteFails(h)
      PROVE  CalmInv'
  BY <1>3, FaultCalm DEF ReleaseLost, ReleaseFails, RowsLost, WriteFails
<1>8. ASSUME NEW h \in Handlers, OrphanCommits(h) \/ OrphanDies(h)
      PROVE  CalmInv'
  BY <1>8 DEF OrphanCommits, OrphanDies, OrphanInv, CalmInv, Calm
<1>4. ASSUME NEW h \in Handlers, WriteStatus(h)
      PROVE  CalmInv'
  <2>1. order[h] \in Orders
    BY <1>4 DEF WriteStatus, TypeInv, LocalsOK
  <2> QED BY <1>0, <1>4, <2>1, WriteStatusCalm
<1>5. ASSUME NEW h \in Handlers, PublishEvent(h)
      PROVE  CalmInv'
  <2>1. order[h] \in Orders
    BY <1>5 DEF PublishEvent, TypeInv, LocalsOK
  <2> QED BY <1>0, <1>5, <2>1, PublishEventCalm
<1>6. ASSUME NEW dead \in SUBSET Handlers, NEW left \in SUBSET dead, Crash(dead, left)
      PROVE  CalmInv'
  BY <1>6, FaultCalm DEF Crash
<1>7. CASE Rest \/ UNCHANGED vars
  BY <1>7, CalmStutter DEF Rest, vars, changingVars
<1> QED BY <1>1, <1>2, <1>3, <1>4, <1>5, <1>6, <1>7, <1>8 DEF Next

LEMMA CalmInit == Init => CalmInv
BY NoOrderAssumption DEF Init, CalmInv, CalmOrder, CalmHandler, Path, Once

LEMMA CalmInvariant == Spec => []CalmInv
<1>1. Spec => []AloneInv
  BY AloneInit, AloneStep, TypeInvariant, HistoryInvariant, PTL DEF Spec
<1> QED BY <1>1, CalmInit, CalmStep, TypeInvariant, HistoryInvariant, OrphanInvariant, PTL DEF Spec

(* An order that no two requests worked on at the same time has given each of its items   *)
(* back exactly once when it is cancelled, and none otherwise, as long as nothing fails.   *)
THEOREM CancellationReleasesOnce == Spec => []CancelReleasesOnce
<1>1. CalmInv => CancelReleasesOnce
  BY DEF CalmInv, CalmOrder, Unserved, Once, CancelReleasesOnce
<1> QED BY <1>1, CalmInvariant, PTL

(* The latest event of a calm order tells its status, except between the write of the    *)
(* status and its event.                                                        *)
ToldOf(o) == \A h \in Handlers : order[h] = o => pc[h] # "publish"

CalmLatestInv == \A o \in Orders : Calm(o) /\ ToldOf(o) => lastEvent[o] = status[o]

LEMMA CalmLatestStep ==
    TypeInv /\ AloneInv /\ OrphanInv /\ CalmInv /\ CalmLatestInv /\ [Next]_vars
        => CalmLatestInv'
<1> SUFFICES ASSUME TypeInv, AloneInv, OrphanInv, CalmInv, CalmLatestInv, [Next]_vars,
                    NEW o \in Orders, Calm(o)', ToldOf(o)'
             PROVE  lastEvent'[o] = status'[o]
  BY DEF CalmLatestInv
<1>0. (Calm(o) /\ ToldOf(o) => lastEvent[o] = status[o]) /\ faults' = {} /\ o \notin overlapped'
  BY DEF CalmLatestInv, Calm
<1>1. ASSUME NEW h \in Handlers, NEW r \in Orders, NEW to \in Statuses, Validate(h, r, to)
      PROVE  lastEvent'[o] = status'[o]
  <2>1. UNCHANGED <<status, lastEvent, faults>> /\ overlapped \subseteq overlapped'
    BY <1>1 DEF Validate
  <2>2. ToldOf(o)
    BY <1>1, NoOrderAssumption DEF Validate, ToldOf, TypeInv, LocalsOK
  <2> QED BY <1>0, <2>1, <2>2 DEF Calm
<1>2. ASSUME NEW h \in Handlers, ReleaseItem(h)
      PROVE  lastEvent'[o] = status'[o]
  <2>1. UNCHANGED <<status, lastEvent, faults, overlapped, order>>
    BY <1>2 DEF ReleaseItem
  <2>2. ToldOf(o)
    BY <1>2, <2>1 DEF ReleaseItem, ToldOf, TypeInv, LocalsOK
  <2> QED BY <1>0, <2>1, <2>2 DEF Calm
<1>3. ASSUME NEW h \in Handlers,
             ReleaseLost(h) \/ ReleaseFails(h) \/ RowsLost(h) \/ WriteFails(h)
      PROVE  FALSE
  BY <1>0, <1>3 DEF ReleaseLost, ReleaseFails, RowsLost, WriteFails, Fault
<1>8. ASSUME NEW h \in Handlers, OrphanCommits(h) \/ OrphanDies(h)
      PROVE  FALSE
  BY <1>0, <1>8 DEF OrphanCommits, OrphanDies, OrphanInv
<1>4. ASSUME NEW h \in Handlers, WriteStatus(h)
      PROVE  lastEvent'[o] = status'[o]
  <2>1. /\ UNCHANGED <<lastEvent, faults, overlapped, order>> /\ pc'[h] = "publish"
        /\ \A g \in Handlers \ {h} : pc'[g] = pc[g]
        /\ pc[h] = "update"
    BY <1>4 DEF WriteStatus, locals, TypeInv, LocalsOK
  <2>2. order[h] # o
    BY <2>1 DEF ToldOf
  <2>3. ToldOf(o) /\ status'[o] = status[o]
    BY <1>4, <2>1, <2>2 DEF WriteStatus, ToldOf, TypeInv, DataOK
  <2> QED BY <1>0, <2>1, <2>3 DEF Calm
<1>5. ASSUME NEW h \in Handlers, PublishEvent(h)
      PROVE  lastEvent'[o] = status'[o]
  <2>1. /\ UNCHANGED <<status, faults, overlapped>>
        /\ lastEvent' = [lastEvent EXCEPT ![order[h]] = target[h]]
    BY <1>0, <1>5 DEF PublishEvent, Fault
  <2>2. CASE order[h] = o
    <3>1. target[h] = status[o]
      BY <1>0, <1>5, <2>1, <2>2 DEF PublishEvent, CalmInv, CalmHandler, Calm
    <3> QED BY <2>1, <2>2, <3>1 DEF TypeInv, DataOK
  <2>3. CASE order[h] # o
    <3>1. ToldOf(o)
      BY <1>5, <2>3 DEF PublishEvent, Return, ToldOf, TypeInv, LocalsOK
    <3> QED BY <1>0, <2>1, <2>3, <3>1 DEF TypeInv, DataOK, Calm
  <2> QED BY <2>2, <2>3
<1>6. ASSUME NEW dead \in SUBSET Handlers, NEW left \in SUBSET dead, Crash(dead, left)
      PROVE  FALSE
  BY <1>0, <1>6 DEF Crash, Fault
<1>7. CASE Rest \/ UNCHANGED vars
  BY <1>0, <1>7 DEF Rest, vars, locals, historyVars, ToldOf, Calm
<1> QED BY <1>1, <1>2, <1>3, <1>4, <1>5, <1>6, <1>7, <1>8 DEF Next

(* Between two requests, the latest event of an order that no two requests worked on at     *)
(* the same time tells its status, as long as nothing fails.                            *)
THEOREM LastEventIsCurrent == Spec => []LastEventCurrent
<1>1. Init => CalmLatestInv
  BY DEF Init, CalmLatestInv
<1>2. Spec => []AloneInv
  BY AloneInit, AloneStep, TypeInvariant, HistoryInvariant, PTL DEF Spec
<1>3. Spec => []CalmLatestInv
  BY <1>1, <1>2, CalmLatestStep, CalmInvariant, TypeInvariant, OrphanInvariant, PTL DEF Spec
<1>4. CalmLatestInv => LastEventCurrent
  BY DEF CalmLatestInv, ToldOf, LastEventCurrent
<1> QED BY <1>3, <1>4, PTL

-----------------------------------------------------------------------------
(* How often an item can be given back while nothing fails.  The handlers that cancel an    *)
(* order have passed an item in their loop, or are still to come to it.  As long as the       *)
(* order is confirmed, each of those that passed it is still there, and has given it back      *)
(* once; from the first write on, no handler joins them.                               *)
Passed(o, i) ==
    {h \in Handlers : /\ order[h] = o /\ target[h] = "cancelled"
                      /\ pc[h] = "release" => item[h] > i}

Coming(o, i) == {h \in Handlers : order[h] = o /\ pc[h] = "release" /\ item[h] <= i}

Cancelling(h, o) == order[h] = o /\ target[h] = "cancelled" /\ pc[h] \in {"release", "update"}

CountsOK(o) ==
    \A i \in 1 .. ItemCount :
        /\ status[o] = "confirmed" => released[o][i] = Cardinality(Passed(o, i))
        /\ released[o][i] + Cardinality(Coming(o, i)) <= Cardinality(Handlers)
        /\ released[o][i] > 0 =>
              "cancelled" \in visited[o] \/ \E h \in Handlers : Cancelling(h, o)

WriterOK(h) ==
    /\ pc[h] = "release" => target[h] = "cancelled"
    /\ pc[h] = "publish" => status[order[h]] # "confirmed"

CountInv ==
    faults = {} => (\A o \in Orders : CountsOK(o)) /\ (\A h \in Handlers : WriterOK(h))

LEMMA HandlerSets ==
    ASSUME NEW o, NEW i
    PROVE  /\ IsFiniteSet(Passed(o, i)) /\ Cardinality(Passed(o, i)) \in Nat
           /\ IsFiniteSet(Coming(o, i)) /\ Cardinality(Coming(o, i)) \in Nat
           /\ Cardinality(Handlers) \in Nat
<1>1. Passed(o, i) \subseteq Handlers /\ Coming(o, i) \subseteq Handlers
  BY DEF Passed, Coming
<1> QED BY <1>1, HandlersAssumption, FS_Subset, FS_CardinalityType

(* A step of one handler at one order leaves the counts of the others alone.               *)
LEMMA CountsElsewhere ==
    ASSUME TypeInv, NEW h \in Handlers, NEW o \in Orders, Elsewhere(h, o),
           NEW p \in Orders \ {o}, CountsOK(p)
    PROVE  CountsOK(p)'
<1>1. \A g \in Handlers \ {h} : /\ pc'[g] = pc[g] /\ order'[g] = order[g]
                                /\ target'[g] = target[g] /\ item'[g] = item[g]
  BY DEF Elsewhere
<1>2. order[h] # p /\ order'[h] # p
  BY NoOrderAssumption DEF Elsewhere
<1>3. \A i : Passed(p, i)' = Passed(p, i) /\ Coming(p, i)' = Coming(p, i)
  BY <1>1, <1>2 DEF Passed, Coming
<1>4. \A g \in Handlers : Cancelling(g, p)' <=> Cancelling(g, p)
  BY <1>1, <1>2 DEF Cancelling
<1>5. UNCHANGED <<status[p], visited[p], released[p]>>
  BY DEF Elsewhere
<1> QED BY <1>3, <1>4, <1>5 DEF CountsOK

LEMMA ValidateCounts ==
    ASSUME TypeInv, HistoryInv, CountInv, faults = {}, NEW h \in Handlers, NEW o \in Orders,
           NEW to \in Statuses, Validate(h, o, to)
    PROVE  CountInv'
<1>1. /\ pc[h] = "idle" /\ order[h] = NoOrder /\ item[h] = 1 /\ order[h] # o
      /\ order'[h] = o /\ target'[h] = to /\ item' = item
      /\ UNCHANGED <<status, visited, released, events>>
  BY NoOrderAssumption DEF Validate, TypeInv, LocalsOK
<1>2. pc'[h] = IF to = "cancelled" THEN ReleaseHead(1) ELSE "update"
  BY DEF Validate, TypeInv, LocalsOK
<1>3. Elsewhere(h, o)
  BY <1>1 DEF Validate, Elsewhere, TypeInv, LocalsOK
<1>4. \A g \in Handlers \ {h} : /\ pc'[g] = pc[g] /\ order'[g] = order[g]
                                /\ target'[g] = target[g] /\ item'[g] = item[g]
  BY <1>3 DEF Elsewhere
<1>5. CountsOK(o)'
  <2> SUFFICES ASSUME NEW i \in 1 .. ItemCount
               PROVE  /\ status[o] = "confirmed" => released[o][i] = Cardinality(Passed(o, i)')
                      /\ released[o][i] + Cardinality(Coming(o, i)') <= Cardinality(Handlers)
                      /\ released[o][i] > 0 =>
                            "cancelled" \in visited[o] \/ \E g \in Handlers : Cancelling(g, o)'
    BY <1>1 DEF CountsOK
  <2>1. /\ status[o] = "confirmed" => released[o][i] = Cardinality(Passed(o, i))
        /\ released[o][i] + Cardinality(Coming(o, i)) <= Cardinality(Handlers)
        /\ released[o][i] > 0 =>
              "cancelled" \in visited[o] \/ \E g \in Handlers : Cancelling(g, o)
    BY DEF CountInv, CountsOK
  <2>2. \A g \in Handlers : Cancelling(g, o) => Cancelling(g, o)'
    BY <1>1, <1>4 DEF Cancelling
  <2>3. to = "cancelled" => pc'[h] = "release" /\ ~ (item'[h] > i) /\ item'[h] <= i
    BY <1>1, <1>2, ItemCountAssumption DEF ReleaseHead
  <2>4. to # "cancelled" => pc'[h] = "update"
    BY <1>2
  <2>5. Passed(o, i)' = Passed(o, i)
    BY <1>1, <1>4, <2>3 DEF Passed
  <2>6. released[o][i] + Cardinality(Coming(o, i)') <= Cardinality(Handlers)
    <3>1. CASE to # "cancelled"
      <4>1. Coming(o, i)' = Coming(o, i)
        BY <1>1, <1>4, <2>4, <3>1 DEF Coming
      <4> QED BY <2>1, <4>1
    <3>2. CASE to = "cancelled"
      <4>1. status[o] = "confirmed"
        BY <3>2 DEF Validate, validTransitions
      <4>2. released[o][i] = Cardinality(Passed(o, i))
        BY <2>1, <4>1
      <4> DEFINE P == Passed(o, i)
                 C == Coming(o, i)'
      <4>3. P \subseteq Handlers /\ C \subseteq Handlers /\ P \cap C = {}
        <5>1. \A g \in P : g # h /\ (pc[g] = "release" => ~ (item[g] <= i))
          BY <1>1 DEF Passed, TypeInv, LocalsOK
        <5>2. \A g \in C : g # h => pc[g] = "release" /\ item[g] <= i
          BY <1>4 DEF Coming
        <5>3. P \subseteq Handlers /\ C \subseteq Handlers
          BY DEF Passed, Coming
        <5> QED BY <5>1, <5>2, <5>3
      <4> HIDE DEF P, C
      <4>4. IsFiniteSet(P) /\ IsFiniteSet(C) /\ P \cup C \in SUBSET Handlers
        BY <4>3, HandlersAssumption, FS_Subset
      <4>5. /\ Cardinality(P \cup C) = Cardinality(P) + Cardinality(C) - Cardinality(P \cap C)
            /\ Cardinality(P \cup C) <= Cardinality(Handlers)
            /\ Cardinality(P \cap C) = 0
        BY <4>3, <4>4, HandlersAssumption, FS_Union, FS_Subset, FS_EmptySet
      <4>6. Cardinality(P) \in Nat /\ Cardinality(C) \in Nat
        BY <4>4, FS_CardinalityType
      <4>7. Cardinality(P) + Cardinality(C) <= Cardinality(Handlers)
        BY <4>5, <4>6
      <4> QED BY <4>2, <4>7 DEF P, C
    <3> QED BY <3>1, <3>2
  <2> QED BY <2>1, <2>2, <2>5, <2>6
<1>6. \A p \in Orders \ {o} : CountsOK(p)'
  BY <1>3, CountsElsewhere DEF CountInv
<1>7. \A g \in Handlers : WriterOK(g)'
  <2>1. WriterOK(h)'
    BY <1>1, <1>2 DEF WriterOK, ReleaseHead
  <2>2. \A g \in Handlers \ {h} : WriterOK(g)'
    BY <1>1, <1>4 DEF CountInv, WriterOK
  <2> QED BY <2>1, <2>2
<1> QED BY <1>5, <1>6, <1>7 DEF CountInv

LEMMA ReleaseItemCounts ==
    ASSUME TypeInv, CountInv, faults = {}, NEW h \in Handlers, ReleaseItem(h),
           NEW o \in Orders, order[h] = o
    PROVE  CountInv'
<1> DEFINE k == item[h]
<1>1. /\ k \in 1 .. ItemCount /\ pc[h] = "release" /\ target[h] = "cancelled"
      /\ UNCHANGED <<status, visited, events, order, target, faults>>
  BY ItemCountAssumption DEF ReleaseItem, TypeInv, LocalsOK, CountInv, WriterOK
<1>2. item'[h] = k + 1 /\ pc'[h] = ReleaseHead(k + 1)
  BY DEF ReleaseItem, TypeInv, LocalsOK
<1>3. /\ released' = [released EXCEPT ![o][k] = @ + 1]
      /\ \A g \in Handlers \ {h} : pc'[g] = pc[g] /\ item'[g] = item[g]
  BY DEF ReleaseItem, GiveBack, TypeInv, LocalsOK
<1>4. Elsewhere(h, o)
  BY <1>1, <1>3 DEF ReleaseItem, Elsewhere, TypeInv, LocalsOK, DataOK
<1>5. released[o] \in [1 .. ItemCount -> Nat]
  BY DEF TypeInv, DataOK
<1>6. released'[o] = [released[o] EXCEPT ![k] = released[o][k] + 1]
  BY <1>1, <1>3 DEF TypeInv, DataOK
<1> HIDE DEF k
<1>7. CountsOK(o)'
  <2> SUFFICES ASSUME NEW i \in 1 .. ItemCount
               PROVE  /\ status[o] = "confirmed" => released'[o][i] = Cardinality(Passed(o, i)')
                      /\ released'[o][i] + Cardinality(Coming(o, i)') <= Cardinality(Handlers)
                      /\ "cancelled" \in visited[o] \/ \E g \in Handlers : Cancelling(g, o)'
    BY <1>1 DEF CountsOK
  <2>1. /\ status[o] = "confirmed" => released[o][i] = Cardinality(Passed(o, i))
        /\ released[o][i] + Cardinality(Coming(o, i)) <= Cardinality(Handlers)
    BY DEF CountInv, CountsOK
  <2>2. Cancelling(h, o)'
    BY <1>1, <1>2 DEF Cancelling, ReleaseHead
  <2>3. pc'[h] = "release" => item'[h] = k + 1
    BY <1>2
  <2>4. i >= k + 1 => pc'[h] = "release"
    BY <1>1, <1>2, ItemCountAssumption DEF ReleaseHead
  <2>5. CASE i # k
    <3>1. released'[o][i] = released[o][i]
      BY <1>1, <1>5, <1>6, <2>5
    <3>2. (pc'[h] = "release" => item'[h] > i) <=> k > i
      BY <1>1, <1>2, <2>4, <2>5
    <3>3. (pc'[h] = "release" /\ item'[h] <= i) <=> k <= i
      BY <1>1, <1>2, <2>4, <2>5
    <3>4. Passed(o, i)' = Passed(o, i)
      BY <1>1, <1>3, <3>2 DEF Passed, k
    <3>5. Coming(o, i)' = Coming(o, i)
      BY <1>1, <1>3, <3>3 DEF Coming, k
    <3> QED BY <2>1, <2>2, <3>1, <3>4, <3>5
  <2>6. CASE i = k
    <3>1. released'[o][i] = released[o][i] + 1 /\ released[o][i] \in Nat
      BY <1>1, <1>5, <1>6, <2>6
    <3>2. (pc'[h] = "release" => item'[h] > i) /\ ~ (pc'[h] = "release" /\ item'[h] <= i)
      BY <1>1, <1>2, <2>6
    <3>3. h \notin Passed(o, i) /\ h \in Coming(o, i)
      BY <1>1, <2>6 DEF Passed, Coming, k
    <3>4. Passed(o, i)' = Passed(o, i) \cup {h}
      BY <1>1, <1>3, <3>2 DEF Passed
    <3>5. Coming(o, i)' = Coming(o, i) \ {h}
      BY <1>1, <1>3, <3>2 DEF Coming
    <3> DEFINE P == Passed(o, i)
               C == Coming(o, i)
    <3>6. IsFiniteSet(P) /\ IsFiniteSet(C)
      BY HandlerSets
    <3>7. Cardinality(P) \in Nat /\ Cardinality(C) \in Nat /\ Cardinality(Handlers) \in Nat
      BY HandlerSets
    <3>8. Cardinality(Passed(o, i)') = Cardinality(P) + 1
      BY <3>3, <3>4, <3>6, FS_AddElement
    <3>9. Cardinality(Coming(o, i)') = Cardinality(C) - 1
      BY <3>3, <3>5, <3>6, FS_RemoveElement
    <3> DEFINE r == released[o][i]
               cp == Cardinality(P)
               cc == Cardinality(C)
               n == Cardinality(Handlers)
    <3>10. /\ status[o] = "confirmed" => r = cp
           /\ r + cc <= n
      BY <2>1
    <3> HIDE DEF P, C, r, cp, cc, n
    <3>11. r \in Nat /\ cp \in Nat /\ cc \in Nat /\ n \in Nat
      BY <3>1, <3>7 DEF r, cp, cc, n
    <3>12. (r + 1) + (cc - 1) <= n
      BY <3>10, <3>11
    <3>13. status[o] = "confirmed" => r + 1 = cp + 1
      BY <3>10
    <3> QED BY <2>2, <3>1, <3>8, <3>9, <3>12, <3>13 DEF r, cp, cc, n
  <2> QED BY <2>5, <2>6
<1>8. \A p \in Orders \ {o} : CountsOK(p)'
  BY <1>4, CountsElsewhere DEF CountInv
<1>9. \A g \in Handlers : WriterOK(g)'
  <2>1. WriterOK(h)'
    BY <1>1, <1>2 DEF WriterOK, ReleaseHead
  <2>2. \A g \in Handlers \ {h} : WriterOK(g)'
    BY <1>1, <1>3 DEF CountInv, WriterOK
  <2> QED BY <2>1, <2>2
<1> QED BY <1>7, <1>8, <1>9 DEF CountInv

LEMMA WriteStatusCounts ==
    ASSUME TypeInv, HistoryInv, CountInv, faults = {}, NEW h \in Handlers, WriteStatus(h),
           NEW o \in Orders, order[h] = o
    PROVE  CountInv'
<1>1. /\ pc[h] = "update" /\ pc'[h] = "publish" /\ target[h] # "confirmed"
      /\ UNCHANGED <<events, order, target, item, released, faults>>
      /\ \A g \in Handlers \ {h} : pc'[g] = pc[g]
  BY DEF WriteStatus, locals, TypeInv, LocalsOK, HistoryInv, HandlerOK, Before
<1>2. /\ status'[o] = target[h] /\ visited'[o] = visited[o] \cup {target[h]}
      /\ \A p \in Orders \ {o} : status'[p] = status[p]
  BY DEF WriteStatus, TypeInv, DataOK
<1>3. Elsewhere(h, o)
  BY <1>1 DEF WriteStatus, Elsewhere, TypeInv, LocalsOK, DataOK
<1>4. CountsOK(o)'
  <2> SUFFICES ASSUME NEW i \in 1 .. ItemCount
               PROVE  /\ released[o][i] + Cardinality(Coming(o, i)') <= Cardinality(Handlers)
                      /\ released[o][i] > 0 =>
                            "cancelled" \in visited'[o] \/ \E g \in Handlers : Cancelling(g, o)'
    BY <1>1, <1>2 DEF CountsOK
  <2>1. /\ released[o][i] + Cardinality(Coming(o, i)) <= Cardinality(Handlers)
        /\ released[o][i] > 0 =>
              "cancelled" \in visited[o] \/ \E g \in Handlers : Cancelling(g, o)
    BY DEF CountInv, CountsOK
  <2>2. Coming(o, i)' = Coming(o, i)
    BY <1>1 DEF Coming
  <2>3. \A g \in Handlers : Cancelling(g, o) => Cancelling(g, o)' \/ "cancelled" \in visited'[o]
    BY <1>1, <1>2 DEF Cancelling
  <2> QED BY <1>2, <2>1, <2>2, <2>3
<1>5. \A p \in Orders \ {o} : CountsOK(p)'
  BY <1>3, CountsElsewhere DEF CountInv
<1>6. \A g \in Handlers : WriterOK(g)'
  <2>1. WriterOK(h)'
    BY <1>1, <1>2 DEF WriterOK
  <2>2. ASSUME NEW g \in Handlers \ {h}
        PROVE  WriterOK(g)'
    <3>1. WriterOK(g)
      BY DEF CountInv
    <3>2. pc'[g] = "publish" => status'[order[g]] # "confirmed"
      BY <1>1, <1>2, <3>1 DEF WriterOK, TypeInv, LocalsOK
    <3> QED BY <1>1, <3>1, <3>2 DEF WriterOK
  <2> QED BY <2>1, <2>2
<1> QED BY <1>4, <1>5, <1>6 DEF CountInv

LEMMA PublishEventCounts ==
    ASSUME TypeInv, CountInv, faults = {}, NEW h \in Handlers, PublishEvent(h),
           NEW o \in Orders, order[h] = o
    PROVE  CountInv'
<1>1. /\ pc[h] = "publish" /\ pc'[h] = "idle" /\ order'[h] = NoOrder
      /\ UNCHANGED <<status, visited, released>>
  BY DEF PublishEvent, Return, TypeInv, LocalsOK
<1>2. \A e \in events' \ events : e.order = o
  BY DEF PublishEvent
<1>3. Elsewhere(h, o)
  BY <1>1, <1>2 DEF PublishEvent, Return, Elsewhere, TypeInv, LocalsOK
<1>4. \A g \in Handlers \ {h} : /\ pc'[g] = pc[g] /\ order'[g] = order[g]
                                /\ target'[g] = target[g] /\ item'[g] = item[g]
  BY <1>3 DEF Elsewhere
<1>5. CountsOK(o)'
  <2> SUFFICES ASSUME NEW i \in 1 .. ItemCount
               PROVE  /\ status[o] # "confirmed"
                      /\ released[o][i] + Cardinality(Coming(o, i)') <= Cardinality(Handlers)
                      /\ released[o][i] > 0 =>
                            "cancelled" \in visited[o] \/ \E g \in Handlers : Cancelling(g, o)'
    BY <1>1 DEF CountsOK
  <2>1. /\ released[o][i] + Cardinality(Coming(o, i)) <= Cardinality(Handlers)
        /\ released[o][i] > 0 =>
              "cancelled" \in visited[o] \/ \E g \in Handlers : Cancelling(g, o)
    BY DEF CountInv, CountsOK
  <2>2. Coming(o, i)' = Coming(o, i)
    BY <1>1, <1>4 DEF Coming
  <2>3. \A g \in Handlers : Cancelling(g, o) => Cancelling(g, o)'
    BY <1>1, <1>4 DEF Cancelling
  <2>4. status[o] # "confirmed"
    BY <1>1 DEF CountInv, WriterOK
  <2> QED BY <2>1, <2>2, <2>3, <2>4
<1>6. \A p \in Orders \ {o} : CountsOK(p)'
  BY <1>3, CountsElsewhere DEF CountInv
<1>7. \A g \in Handlers : WriterOK(g)'
  BY <1>1, <1>4 DEF CountInv, WriterOK
<1> QED BY <1>5, <1>6, <1>7 DEF CountInv

LEMMA CountStep ==
    TypeInv /\ HistoryInv /\ OrphanInv /\ CountInv /\ [Next]_vars => CountInv'
<1> SUFFICES ASSUME TypeInv, HistoryInv, OrphanInv, CountInv, [Next]_vars, faults' = {}
             PROVE  CountInv'
  BY DEF CountInv
<1>1. ASSUME NEW h \in Handlers, NEW o \in Orders, NEW to \in Statuses, Validate(h, o, to)
      PROVE  CountInv'
  <2>1. faults = {}
    BY <1>1 DEF Validate
  <2> QED BY <1>1, <2>1, ValidateCounts
<1>2. ASSUME NEW h \in Handlers, ReleaseItem(h)
      PROVE  CountInv'
  <2>1. faults = {} /\ order[h] \in Orders
    BY <1>2 DEF ReleaseItem, TypeInv, LocalsOK
  <2> QED BY <1>2, <2>1, ReleaseItemCounts
<1>3. ASSUME NEW h \in Handlers,
             ReleaseLost(h) \/ ReleaseFails(h) \/ RowsLost(h) \/ WriteFails(h)
      PROVE  FALSE
  BY <1>3 DEF ReleaseLost, ReleaseFails, RowsLost, WriteFails, Fault
<1>8. ASSUME NEW h \in Handlers, OrphanCommits(h) \/ OrphanDies(h)
      PROVE  FALSE
  BY <1>8 DEF OrphanCommits, OrphanDies, OrphanInv
<1>4. ASSUME NEW h \in Handlers, WriteStatus(h)
      PROVE  CountInv'
  <2>1. faults = {} /\ order[h] \in Orders
    BY <1>4 DEF WriteStatus, TypeInv, LocalsOK
  <2> QED BY <1>4, <2>1, WriteStatusCounts
<1>5. ASSUME NEW h \in Handlers, PublishEvent(h)
      PROVE  CountInv'
  <2>1. faults = {} /\ order[h] \in Orders
    BY <1>5 DEF PublishEvent, Fault, TypeInv, LocalsOK
  <2> QED BY <1>5, <2>1, PublishEventCounts
<1>6. ASSUME NEW dead \in SUBSET Handlers, NEW left \in SUBSET dead, Crash(dead, left)
      PROVE  FALSE
  BY <1>6 DEF Crash, Fault
<1>7. CASE Rest \/ UNCHANGED vars
  <2>1. UNCHANGED <<pc, order, target, item, status, visited, released, faults>>
    BY <1>7 DEF Rest, vars, locals, historyVars
  <2>2. \A o, i : Passed(o, i)' = Passed(o, i) /\ Coming(o, i)' = Coming(o, i)
    BY <2>1 DEF Passed, Coming
  <2>3. \A h, o : Cancelling(h, o)' <=> Cancelling(h, o)
    BY <2>1 DEF Cancelling
  <2>4. \A o \in Orders : CountsOK(o)'
    BY <2>1, <2>2, <2>3 DEF CountInv, CountsOK
  <2>5. \A h \in Handlers : WriterOK(h)'
    BY <2>1 DEF CountInv, WriterOK
  <2> QED BY <2>4, <2>5 DEF CountInv
<1> QED BY <1>1, <1>2, <1>3, <1>4, <1>5, <1>6, <1>7, <1>8 DEF Next

LEMMA CountInit == Init => CountInv
<1> SUFFICES ASSUME Init
             PROVE  CountInv
  OBVIOUS
<1>1. \A o \in Orders : \A i \in 1 .. ItemCount : Passed(o, i) = {} /\ Coming(o, i) = {}
  BY NoOrderAssumption DEF Init, Passed, Coming
<1>2. Cardinality({}) = 0 /\ Cardinality(Handlers) \in Nat
  BY FS_EmptySet, HandlersAssumption, FS_CardinalityType
<1>3. ASSUME NEW o \in Orders
      PROVE  CountsOK(o)
  <2> SUFFICES ASSUME NEW i \in 1 .. ItemCount
               PROVE  /\ status[o] = "confirmed" => released[o][i] = Cardinality(Passed(o, i))
                      /\ released[o][i] + Cardinality(Coming(o, i)) <= Cardinality(Handlers)
                      /\ released[o][i] > 0 =>
                            "cancelled" \in visited[o] \/ \E h \in Handlers : Cancelling(h, o)
    BY DEF CountsOK
  <2>1. released[o][i] = 0
    BY DEF Init
  <2>2. Cardinality(Passed(o, i)) = 0 /\ Cardinality(Coming(o, i)) = 0
    BY <1>1, <1>2
  <2> DEFINE n == Cardinality(Handlers)
  <2>3. 0 + 0 <= n
    <3>1. n \in Nat
      BY <1>2
    <3> HIDE DEF n
    <3> QED BY <3>1
  <2> QED BY <2>1, <2>2, <2>3
<1>4. \A h \in Handlers : WriterOK(h)
  BY DEF Init, WriterOK
<1> QED BY <1>3, <1>4 DEF CountInv

(* While nothing fails, an item of an order is given back at most once per concurrent         *)
(* handler, and if it was given back at all the cancellation is written in the end.            *)
THEOREM ReleasesAreBounded == Spec => []ReleasesBounded
<1>1. Spec => []CountInv
  BY CountInit, CountStep, TypeInvariant, HistoryInvariant, OrphanInvariant, PTL DEF Spec
<1>2. TypeInv /\ CountInv => ReleasesBounded
  <2> SUFFICES ASSUME TypeInv, CountInv, faults = {}, NEW o \in Orders,
                      NEW i \in 1 .. ItemCount
               PROVE  /\ released[o][i] <= Cardinality(Handlers)
                      /\ Idle /\ released[o][i] > 0 => "cancelled" \in visited[o]
    BY DEF ReleasesBounded
  <2>1. /\ released[o][i] + Cardinality(Coming(o, i)) <= Cardinality(Handlers)
        /\ released[o][i] > 0 =>
              "cancelled" \in visited[o] \/ \E h \in Handlers : Cancelling(h, o)
    BY DEF CountInv, CountsOK
  <2>2. released[o][i] \in Nat
    <3>1. released[o] \in [1 .. ItemCount -> Nat]
      BY DEF TypeInv, DataOK
    <3> QED BY <3>1
  <2> DEFINE r == released[o][i]
             c == Cardinality(Coming(o, i))
             n == Cardinality(Handlers)
  <2>3. c \in Nat /\ n \in Nat
    BY HandlerSets
  <2>4. r <= n
    <3>1. r + c <= n /\ r \in Nat
      BY <2>1, <2>2
    <3> HIDE DEF r, c, n
    <3> QED BY <2>3, <3>1
  <2>5. Idle => ~ \E h \in Handlers : Cancelling(h, o)
    BY DEF Idle, Cancelling
  <2> QED BY <2>1, <2>4, <2>5
<1> QED BY <1>1, <1>2, TypeInvariant, PTL

-----------------------------------------------------------------------------
(* The life of an order across the services.  A step of FreshCart is a step of       *)
(* OrderStatus or leaves its variables alone, except for the latest event, which the     *)
(* saga's announcement changes as well.                                         *)
StatusStep == Next \/ UNCHANGED changingVars

LEMMA ChangeIsStatusStep ==
    ASSUME NEW h \in Handlers,
           \/ \E r \in Orders : StartChange(h, r)
           \/ GiveBackStock(h)
           \/ FinishChange(h)
    PROVE  Next
<1>1. CASE \E r \in Orders : StartChange(h, r)
  BY <1>1 DEF StartChange, Next
<1>2. CASE GiveBackStock(h)
  BY <1>2 DEF GiveBackStock, Next
<1>3. CASE FinishChange(h)
  BY <1>3 DEF FinishChange, Next
<1> QED BY <1>1, <1>2, <1>3

LEMMA OthersLeaveStatus ==
    ASSUME \/ \E r \in Orders : PlaceOrder(r) \/ AnnounceOrder(r)
           \/ TellUser
           \/ CartRest
           \/ UNCHANGED cartVars
    PROVE  UNCHANGED changingVars
BY DEF PlaceOrder, AnnounceOrder, TellUser, CartRest, cartVars

LEMMA CartStepIsStatusStep == [CartNext]_cartVars => StatusStep
BY ChangeIsStatusStep, OthersLeaveStatus DEF CartNext, StatusStep

(* What a step does to the latest events keeps them typed.                          *)
LEMMA CartTypeStep == TypeInv /\ [CartNext]_cartVars => TypeInv'
<1> SUFFICES ASSUME TypeInv, [CartNext]_cartVars
             PROVE  TypeInv'
  OBVIOUS
<1>1. ASSUME NEW h \in Handlers,
             (\E r \in Orders : StartChange(h, r)) \/ GiveBackStock(h) \/ FinishChange(h)
      PROVE  TypeInv'
  BY <1>1, ChangeIsStatusStep, TypeStep
<1>2. ASSUME NEW r \in Orders, PlaceOrder(r) \/ AnnounceOrder(r)
      PROVE  lastEvent' \in [Orders -> Statuses]
  BY <1>2 DEF PlaceOrder, AnnounceOrder, TypeInv, DataOK, Statuses
<1>3. CASE TellUser \/ CartRest \/ UNCHANGED cartVars
  <2>1. UNCHANGED <<changingVars, lastEvent>>
    BY <1>3 DEF TellUser, CartRest, cartVars
  <2> QED BY <2>1 DEF changingVars, locals, historyVars, TypeInv, LocalsOK, DataOK
<1>4. ASSUME NEW r \in Orders, PlaceOrder(r) \/ AnnounceOrder(r)
      PROVE  TypeInv'
  <2>1. UNCHANGED changingVars
    BY <1>4, OthersLeaveStatus
  <2> QED BY <1>2, <1>4, <2>1 DEF changingVars, locals, historyVars, TypeInv, LocalsOK, DataOK
<1> QED BY <1>1, <1>3, <1>4 DEF CartNext

(* So the invariants of OrderStatus hold here.                                    *)
LEMMA StatusStutter ==
    ASSUME HistoryInv, AloneInv, OrphanInv, UNCHANGED changingVars
    PROVE  HistoryInv' /\ AloneInv' /\ OrphanInv'
<1> USE DEF changingVars, locals, historyVars
<1>1. HistoryInv'
  BY DEF HistoryInv, HandlerOK, RowOK, NoStageSkipped, EventsTruthful
<1>2. AloneInv'
  BY DEF AloneInv, Alone, ReadOK, Unwritten, FinalUnlessOverlapped
<1>3. OrphanInv'
  BY DEF OrphanInv
<1> QED BY <1>1, <1>2, <1>3

StatusInv == TypeInv /\ HistoryInv /\ AloneInv /\ OrphanInv /\ CalmInv

LEMMA StatusInvStep == StatusInv /\ [CartNext]_cartVars => StatusInv'
<1> SUFFICES ASSUME StatusInv, [CartNext]_cartVars
             PROVE  StatusInv'
  OBVIOUS
<1> USE DEF StatusInv
<1>1. TypeInv'
  BY CartTypeStep
<1>2. CASE Next
  BY <1>1, <1>2, HistoryStep, AloneStep, OrphanStep, CalmStep
<1>3. CASE UNCHANGED changingVars
  BY <1>1, <1>3, StatusStutter, CalmStutter
<1> QED BY <1>2, <1>3, CartStepIsStatusStep DEF StatusStep

LEMMA StatusInvInit == CartInit => StatusInv
BY TypeInit, HistoryInit, AloneInit, OrphanInit, CalmInit DEF CartInit, StatusInv

-----------------------------------------------------------------------------
(* The variables that FreshCart adds.                                            *)
CartTypeOK ==
    /\ stage \in [Orders -> {"open", "placed", "failed", "confirmed", "refused"}]
    /\ held \in [Orders -> SUBSET (1 .. ItemCount)]
    /\ lost \in [Orders -> SUBSET (1 .. ItemCount)]
    /\ announced \in SUBSET Orders
    /\ stock \in [Products -> Int]
    /\ fate \in [Messages -> {"new", "queued", "gone", "dead", "acked"}]
    /\ done \in [Messages -> Nat]
    /\ losses \in Nat

(* An order that exists has all its items; a refused request has given back what it did   *)
(* not lose; nothing has happened to an order that does not exist.                      *)
RequestOK(r) ==
    /\ lost[r] \subseteq held[r]
    /\ Exists(r) => held[r] = 1 .. ItemCount
    /\ stage[r] = "refused" => held[r] = lost[r]
    /\ r \in announced => Exists(r)
    /\ ~ Exists(r) => status[r] = "confirmed" /\ Unserved(r)

(* Requests for one order take turns and none fails, so every order is calm.             *)
AllCalm == overlapped = {} /\ faults = {}

CartInv ==
    /\ CartTypeOK
    /\ \A r \in Orders : RequestOK(r)
    /\ AllCalm

LEMMA AllItemsOf ==
    ASSUME NEW r \in Orders
    PROVE  /\ Placing!All(r) = 1 .. ItemCount
           /\ \A i \in 1 .. ItemCount : /\ Items[r][i].product \in Products
                                        /\ Items[r][i].quantity \in Int
<1> DEFINE Row == [product : Products, quantity : Int]
<1>1. Items[r] \in Seq(Row) /\ Len(Items[r]) = ItemCount
  BY ItemsAssumption
<1>2. \A i \in 1 .. ItemCount : Items[r][i] \in Row
  <2> HIDE DEF Row
  <2> QED BY <1>1
<1> QED BY <1>1, <1>2 DEF Placing!All

(* A change of the stock of one product keeps it a number.                             *)
LEMMA ChangeTyped ==
    ASSUME stock \in [Products -> Int], NEW r \in Orders, NEW i \in 1 .. ItemCount,
           NEW s \in {-1, 1}, Placing!Change(r, i, s)
    PROVE  stock' \in [Products -> Int]
<1> DEFINE q == Items[r][i].quantity
           p == Items[r][i].product
<1>1. p \in Products /\ q \in Int
  BY AllItemsOf
<1>2. stock' = [stock EXCEPT ![p] = stock[p] + s * q]
  BY DEF Placing!Change
<1>3. stock[p] \in Int
  BY <1>1
<1> HIDE DEF q, p
<1>4. s * q \in Int
  BY <1>1
<1>5. stock[p] + s * q \in Int
  BY <1>3, <1>4
<1> QED BY <1>1, <1>2, <1>5

(* Telling: each message keeps a fate, and the effects are counted.                      *)
LEMMA TellTyped ==
    ASSUME CartTypeOK,
           \/ \E m \in Messages : \/ Telling!Publish(m) \/ Telling!Work(m)
                                  \/ Telling!Acknowledge(m) \/ Telling!Reject(m)
           \/ Telling!Lose
           \/ UNCHANGED tellingVars
    PROVE  /\ fate' \in [Messages -> {"new", "queued", "gone", "dead", "acked"}]
           /\ done' \in [Messages -> Nat]
           /\ losses' \in Nat
<1> USE DEF CartTypeOK
<1>1. ASSUME NEW m \in Messages, Telling!Publish(m)
      PROVE  /\ fate' \in [Messages -> {"new", "queued", "gone", "dead", "acked"}]
             /\ done' = done /\ losses' = losses
  BY <1>1 DEF Telling!Publish
<1>2. ASSUME NEW m \in Messages, Telling!Work(m)
      PROVE  /\ fate' \in [Messages -> {"new", "queued", "gone", "dead", "acked"}]
             /\ done' \in [Messages -> Nat] /\ losses' = losses
  <2>1. done' = [done EXCEPT ![m] = done[m] + 1] /\ done[m] \in Nat
    BY <1>2 DEF Telling!Work
  <2>2. done' \in [Messages -> Nat]
    BY <2>1
  <2> QED BY <1>2, <2>2 DEF Telling!Work
<1>3. ASSUME NEW m \in Messages, Telling!Acknowledge(m) \/ Telling!Reject(m)
      PROVE  /\ fate' \in [Messages -> {"new", "queued", "gone", "dead", "acked"}]
             /\ done' = done /\ losses' = losses
  BY <1>3 DEF Telling!Acknowledge, Telling!Reject
<1>4. ASSUME Telling!Lose
      PROVE  /\ fate' \in [Messages -> {"new", "queued", "gone", "dead", "acked"}]
             /\ done' = done /\ losses' \in Nat
  BY <1>4 DEF Telling!Lose
<1> QED BY <1>1, <1>2, <1>3, <1>4 DEF tellingVars

(* The items of the orders, as the sums of the ledger range over them.                     *)
LEMMA ItemsFinite ==
    /\ IsFiniteSet(AllItems)
    /\ \A p \in Products : ItemsOf(p) \subseteq AllItems /\ IsFiniteSet(ItemsOf(p))
<1>1. IsFiniteSet(1 .. ItemCount)
  BY FS_Interval, ItemCountAssumption
<1>2. IsFiniteSet(AllItems)
  BY <1>1, FS_Product, OrdersAssumption DEF AllItems
<1>3. \A p \in Products : ItemsOf(p) \subseteq AllItems
  BY DEF ItemsOf
<1> QED BY <1>2, <1>3, FS_Subset

Quantity == [ri \in AllItems |-> Items[ri[1]][ri[2]].quantity]

LEMMA QuantityTyped ==
    ASSUME NEW ri \in AllItems
    PROVE  /\ ri[1] \in Orders /\ ri[2] \in 1 .. ItemCount
           /\ Quantity[ri] = Items[ri[1]][ri[2]].quantity
           /\ Quantity[ri] \in Int
<1>1. ri[1] \in Orders /\ ri[2] \in 1 .. ItemCount
  BY DEF AllItems
<1>2. Quantity[ri] = Items[ri[1]][ri[2]].quantity
  BY DEF Quantity
<1> QED BY <1>1, <1>2, AllItemsOf

Ledgers == [Orders -> [1 .. ItemCount -> Nat]]

(* What has come back of each item between two ledgers of what was released.              *)
Back(before, after) ==
    [ri \in AllItems |-> Quantity[ri] * (after[ri[1]][ri[2]] - before[ri[1]][ri[2]])]

LEMMA BackTyped ==
    ASSUME NEW before \in Ledgers, NEW after \in Ledgers
    PROVE  Back(before, after) \in [AllItems -> Int]
<1> SUFFICES ASSUME NEW ri \in AllItems
             PROVE  Back(before, after)[ri] \in Int
  BY DEF Back
<1> DEFINE r == ri[1]
           i == ri[2]
<1>1. r \in Orders /\ i \in 1 .. ItemCount /\ Quantity[ri] \in Int
  BY QuantityTyped
<1>2. before[r] \in [1 .. ItemCount -> Nat] /\ after[r] \in [1 .. ItemCount -> Nat]
  BY <1>1 DEF Ledgers
<1>3. before[r][i] \in Nat /\ after[r][i] \in Nat
  BY <1>1, <1>2
<1>4. Back(before, after)[ri] = Quantity[ri] * (after[r][i] - before[r][i])
  BY DEF Back
<1>5. \A q \in Int, a, b \in Nat : q * (a - b) \in Int
  OBVIOUS
<1> QED BY <1>1, <1>3, <1>4, <1>5

LEMMA RestockedIs ==
    ASSUME NEW p \in Products
    PROVE  Restocked(p) = stock[p] + SumFunctionOnSet(Back(released, released'), ItemsOf(p))
<1> DEFINE D == [ri \in AllItems |->
                    Items[ri[1]][ri[2]].quantity * (released'[ri[1]][ri[2]] - released[ri[1]][ri[2]])]
<1>1. \A ri \in AllItems : Quantity[ri] = Items[ri[1]][ri[2]].quantity
  BY QuantityTyped
<1>2. D = Back(released, released')
  BY <1>1 DEF Back
<1> HIDE DEF D
<1>3. Restocked(p) = stock[p] + SumFunctionOnSet(D, ItemsOf(p))
  BY DEF Restocked, D
<1> QED BY <1>2, <1>3

LEMMA RestockTyped ==
    ASSUME stock \in [Products -> Int], released \in Ledgers, released' \in Ledgers,
           stock' = [p \in Products |-> Restocked(p)]
    PROVE  stock' \in [Products -> Int]
<1> SUFFICES ASSUME NEW p \in Products
             PROVE  Restocked(p) \in Int
  OBVIOUS
<1> DEFINE S == SumFunctionOnSet(Back(released, released'), ItemsOf(p))
<1>1. \A ri \in ItemsOf(p) : Back(released, released')[ri] \in Int
  BY BackTyped, ItemsFinite
<1>2. S \in Int
  BY <1>1, SumIsInt, ItemsFinite
<1>3. stock[p] \in Int
  OBVIOUS
<1>4. Restocked(p) = stock[p] + S
  BY RestockedIs
<1> HIDE DEF S
<1> QED BY <1>2, <1>3, <1>4

(* A status request changes neither the requests of the saga, nor is it the first thing   *)
(* that happens to an order.                                                    *)
LEMMA StartChangeCart ==
    ASSUME StatusInv, CartInv, NEW h \in Handlers, NEW r \in Orders, StartChange(h, r)
    PROVE  CartInv'
<1>1. UNCHANGED <<placingVars, stock, tellingVars, status, faults>>
  BY DEF StartChange, Validate
<1>2. overlapped' = overlapped
  BY DEF StartChange, Validate
<1>3. Exists(r) /\ \A g \in Handlers : order'[g] # order[g] => order'[g] = r
  BY DEF StartChange, Validate, StatusInv, TypeInv, LocalsOK
<1>4. CartTypeOK'
  BY <1>1 DEF CartInv, CartTypeOK, placingVars, tellingVars
<1>5. \A o \in Orders : RequestOK(o)'
  BY <1>1, <1>3 DEF CartInv, RequestOK, Exists, Unserved, placingVars
<1> QED BY <1>1, <1>2, <1>4, <1>5 DEF CartInv, AllCalm

LEMMA GiveBackStockCart ==
    ASSUME StatusInv, StatusInv', CartInv, NEW h \in Handlers, GiveBackStock(h)
    PROVE  CartInv'
<1>1. UNCHANGED <<placingVars, tellingVars, status, order, overlapped, faults>>
  BY DEF GiveBackStock, ReleaseItem
<1>2. stock' \in [Products -> Int]
  BY RestockTyped DEF GiveBackStock, StatusInv, TypeInv, DataOK, Ledgers, CartInv, CartTypeOK
<1>3. CartTypeOK'
  BY <1>1, <1>2 DEF CartInv, CartTypeOK, placingVars, tellingVars
<1>4. \A o \in Orders : RequestOK(o)'
  BY <1>1 DEF CartInv, RequestOK, Exists, Unserved, placingVars
<1> QED BY <1>1, <1>3, <1>4 DEF CartInv, AllCalm

(* The order of a request that is under way exists.                                    *)
LEMMA ServedExists ==
    ASSUME StatusInv, CartInv, NEW h \in Handlers, pc[h] # "idle"
    PROVE  order[h] \in Orders /\ Exists(order[h])
BY DEF StatusInv, TypeInv, LocalsOK, CartInv, RequestOK, Unserved

LEMMA FinishChangeCart ==
    ASSUME StatusInv, CartInv, NEW h \in Handlers, FinishChange(h)
    PROVE  CartInv'
<1>1. UNCHANGED <<placingVars, stock, overlapped, faults>>
  BY DEF FinishChange, WriteStatus, PublishEvent
<1>2. /\ fate' \in [Messages -> {"new", "queued", "gone", "dead", "acked"}]
      /\ done' \in [Messages -> Nat]
      /\ losses' \in Nat
  BY TellTyped DEF FinishChange, Tell, CartInv
<1>3. CartTypeOK'
  BY <1>1, <1>2 DEF CartInv, CartTypeOK, placingVars
<1>4. \A g \in Handlers : order'[g] \in {order[g], NoOrder}
  BY DEF FinishChange, WriteStatus, PublishEvent, Return, locals, StatusInv, TypeInv, LocalsOK
<1>5. \A o \in Orders : ~ Exists(o) => status'[o] = status[o]
  <2>1. pc[h] # "idle"
    BY DEF FinishChange, WriteStatus, PublishEvent
  <2>2. order[h] \in Orders /\ Exists(order[h])
    BY <2>1, ServedExists
  <2> QED BY <2>2 DEF FinishChange, WriteStatus, PublishEvent, StatusInv, TypeInv, DataOK
<1>6. \A o \in Orders : RequestOK(o)'
  BY <1>1, <1>4, <1>5, NoOrderAssumption DEF CartInv, RequestOK, Exists, Unserved, placingVars
<1> QED BY <1>1, <1>3, <1>6 DEF CartInv, AllCalm

LEMMA AnnounceOrderCart ==
    ASSUME StatusInv, CartInv, NEW r \in Orders, AnnounceOrder(r)
    PROVE  CartInv'
<1>1. /\ UNCHANGED <<stage, held, lost, stock, status, order, overlapped, faults>>
      /\ stage[r] = "placed" /\ announced' = announced \cup {r}
  BY DEF AnnounceOrder, Placing!Announce, changingVars, locals, historyVars
<1>2. /\ fate' \in [Messages -> {"new", "queued", "gone", "dead", "acked"}]
      /\ done' \in [Messages -> Nat]
      /\ losses' \in Nat
  BY TellTyped DEF AnnounceOrder, Tell, CartInv
<1>3. CartTypeOK'
  BY <1>1, <1>2 DEF CartInv, CartTypeOK
<1>4. \A o \in Orders : RequestOK(o)'
  BY <1>1 DEF CartInv, RequestOK, Exists, Unserved
<1> QED BY <1>1, <1>3, <1>4 DEF CartInv, AllCalm

LEMMA TellUserCart ==
    ASSUME CartInv, TellUser
    PROVE  CartInv'
<1>1. UNCHANGED <<placingVars, stock, changingVars>>
  BY DEF TellUser
<1>2. /\ fate' \in [Messages -> {"new", "queued", "gone", "dead", "acked"}]
      /\ done' \in [Messages -> Nat]
      /\ losses' \in Nat
  BY TellTyped DEF TellUser, CartInv
<1> USE <1>1, <1>2 DEF placingVars, changingVars, locals, historyVars
<1>3. CartTypeOK'
  BY DEF CartInv, CartTypeOK
<1>4. \A o \in Orders : RequestOK(o)'
  BY DEF CartInv, RequestOK, Exists, Unserved
<1> QED BY <1>3, <1>4 DEF CartInv, AllCalm

(* The saga: an order is placed with all its items, and answered as refused with none      *)
(* that it still could give back.                                                 *)
LEMMA PlaceOrderCart ==
    ASSUME StatusInv, CartInv, NEW r \in Orders, PlaceOrder(r)
    PROVE  CartInv'
<1>1. UNCHANGED <<status, order, overlapped, faults, fate, done, losses>>
  BY DEF PlaceOrder, changingVars, locals, historyVars, tellingVars
<1>2. AllCalm'
  BY <1>1 DEF CartInv, AllCalm
<1>3. CartTypeOK /\ RequestOK(r) /\ \A o \in Orders : RequestOK(o)
  BY DEF CartInv
<1>4. Placing!All(r) = 1 .. ItemCount
  BY AllItemsOf
<1>5. ASSUME NEW i \in 1 .. ItemCount, Placing!Take(r, i)
      PROVE  CartInv'
  <2>1. /\ UNCHANGED <<stage, lost, announced>> /\ stage[r] = "open"
        /\ held' = [held EXCEPT ![r] = @ \cup {i}]
    BY <1>5 DEF Placing!Take
  <2>2. stock' \in [Products -> Int]
    BY <1>3, <1>5, ChangeTyped DEF Placing!Take, CartTypeOK
  <2>3. CartTypeOK'
    BY <1>1, <1>3, <2>1, <2>2 DEF CartTypeOK
  <2>4. \A o \in Orders : RequestOK(o)'
    BY <1>1, <1>3, <2>1 DEF CartTypeOK, RequestOK, Exists, Unserved
  <2> QED BY <1>2, <2>3, <2>4 DEF CartInv
<1>6. ASSUME NEW i \in 1 .. ItemCount, Placing!GiveBack(r, i)
      PROVE  CartInv'
  <2>1. /\ UNCHANGED <<stage, lost, announced>> /\ stage[r] = "failed"
        /\ held' = [held EXCEPT ![r] = @ \ {i}] /\ i \notin lost[r]
    BY <1>6 DEF Placing!GiveBack
  <2>2. stock' \in [Products -> Int]
    BY <1>3, <1>6, ChangeTyped DEF Placing!GiveBack, CartTypeOK
  <2>3. CartTypeOK'
    BY <1>1, <1>3, <2>1, <2>2 DEF CartTypeOK
  <2>4. \A o \in Orders : RequestOK(o)'
    BY <1>1, <1>3, <2>1 DEF CartTypeOK, RequestOK, Exists, Unserved
  <2> QED BY <1>2, <2>3, <2>4 DEF CartInv
<1>7. ASSUME NEW i \in 1 .. ItemCount, Placing!GiveUp(r, i)
      PROVE  CartInv'
  <2>1. /\ UNCHANGED <<stage, held, stock, announced>> /\ stage[r] = "failed"
        /\ lost' = [lost EXCEPT ![r] = @ \cup {i}] /\ i \in held[r]
    BY <1>7 DEF Placing!GiveUp
  <2>2. CartTypeOK'
    BY <1>1, <1>3, <2>1 DEF CartTypeOK
  <2>3. \A o \in Orders : RequestOK(o)'
    BY <1>1, <1>3, <2>1 DEF CartTypeOK, RequestOK, Exists, Unserved
  <2> QED BY <1>2, <2>2, <2>3 DEF CartInv
<1>8. ASSUME Placing!Place(r) \/ Placing!Fail(r) \/ Placing!Confirm(r) \/ Placing!Refuse(r)
      PROVE  CartInv'
  <2>1. UNCHANGED <<held, lost, stock, announced>>
    BY <1>8 DEF Placing!Place, Placing!Fail, Placing!Confirm, Placing!Refuse
  <2>2. \E to \in {"placed", "failed", "confirmed", "refused"} :
           /\ stage' = [stage EXCEPT ![r] = to]
           /\ stage[r] = "placed" => to = "confirmed"
           /\ stage[r] # "confirmed"
           /\ to = "confirmed" => stage[r] = "placed"
           /\ to = "placed" => held[r] = 1 .. ItemCount
           /\ to = "refused" => held[r] = lost[r]
    BY <1>4, <1>8 DEF Placing!Place, Placing!Fail, Placing!Confirm, Placing!Refuse,
                      Placing!Moves
  <2>3. CartTypeOK'
    BY <1>1, <1>3, <2>1, <2>2 DEF CartTypeOK
  <2>4. \A o \in Orders : RequestOK(o)'
    BY <1>1, <1>3, <2>1, <2>2 DEF CartTypeOK, RequestOK, Exists, Unserved
  <2> QED BY <1>2, <2>3, <2>4 DEF CartInv
<1> QED BY <1>4, <1>5, <1>6, <1>7, <1>8 DEF PlaceOrder

LEMMA CartInvStep == StatusInv /\ CartInv /\ [CartNext]_cartVars => CartInv'
<1> SUFFICES ASSUME StatusInv, CartInv, [CartNext]_cartVars
             PROVE  CartInv'
  OBVIOUS
<1>0. StatusInv'
  BY StatusInvStep
<1>1. ASSUME NEW r \in Orders, PlaceOrder(r)
      PROVE  CartInv'
  BY <1>1, PlaceOrderCart
<1>2. ASSUME NEW r \in Orders, AnnounceOrder(r)
      PROVE  CartInv'
  BY <1>2, AnnounceOrderCart
<1>3. ASSUME NEW h \in Handlers, NEW r \in Orders, StartChange(h, r)
      PROVE  CartInv'
  BY <1>3, StartChangeCart
<1>4. ASSUME NEW h \in Handlers, GiveBackStock(h)
      PROVE  CartInv'
  BY <1>0, <1>4, GiveBackStockCart
<1>5. ASSUME NEW h \in Handlers, FinishChange(h)
      PROVE  CartInv'
  BY <1>5, FinishChangeCart
<1>6. CASE TellUser
  BY <1>6, TellUserCart
<1>7. CASE CartRest \/ UNCHANGED cartVars
  BY <1>7 DEF CartRest, cartVars, placingVars, changingVars, locals, historyVars, tellingVars,
              CartInv, CartTypeOK, RequestOK, Exists, Unserved, AllCalm
<1> QED BY <1>1, <1>2, <1>3, <1>4, <1>5, <1>6, <1>7 DEF CartNext

LEMMA CartInvInit == CartInit => CartInv
BY StockAssumption, NoOrderAssumption
   DEF CartInit, Init, Placing!Init, Telling!Init, CartInv, CartTypeOK, RequestOK, Exists,
       Unserved, AllCalm

LEMMA CartInvariant == CartSpec => [](StatusInv /\ CartInv)
<1>1. CartInit => StatusInv /\ CartInv
  BY StatusInvInit, CartInvInit
<1>2. StatusInv /\ CartInv /\ [CartNext]_cartVars => (StatusInv /\ CartInv)'
  BY StatusInvStep, CartInvStep
<1> QED BY <1>1, <1>2, PTL DEF CartSpec

-----------------------------------------------------------------------------
(* The ledger of the stock: what is missing of a product is what the requests hold and    *)
(* the status requests have not given back.                                      *)
Holdings == [Orders -> SUBSET (1 .. ItemCount)]

Taken(holding, back) ==
    [ri \in AllItems |->
        Quantity[ri] * (Once(ri[2] \in holding[ri[1]]) - back[ri[1]][ri[2]])]

Total(f, p) == SumFunctionOnSet(f, ItemsOf(p))

LedgerInv ==
    \A p \in Products : stock[p] = InitStock[p] - Total(Taken(held, released), p)

LEMMA TakenTyped ==
    ASSUME NEW holding \in Holdings, NEW back \in Ledgers
    PROVE  Taken(holding, back) \in [AllItems -> Int]
<1> SUFFICES ASSUME NEW ri \in AllItems
             PROVE  Taken(holding, back)[ri] \in Int
  BY DEF Taken
<1> DEFINE r == ri[1]
           i == ri[2]
           t == Once(i \in holding[r])
<1>1. r \in Orders /\ i \in 1 .. ItemCount /\ Quantity[ri] \in Int
  BY QuantityTyped
<1>2. back[r][i] \in Nat
  <2>1. back[r] \in [1 .. ItemCount -> Nat]
    BY <1>1 DEF Ledgers
  <2> QED BY <1>1, <2>1
<1>3. t \in {0, 1}
  BY DEF Once
<1>4. Taken(holding, back)[ri] = Quantity[ri] * (t - back[r][i])
  BY DEF Taken
<1>5. \A q \in Int, a \in {0, 1}, b \in Nat : q * (a - b) \in Int
  OBVIOUS
<1> HIDE DEF t, r, i
<1> QED BY <1>1, <1>2, <1>3, <1>4, <1>5

LEMMA TotalTyped ==
    ASSUME NEW f \in [AllItems -> Int], NEW p \in Products
    PROVE  Total(f, p) \in Int
<1>1. \A ri \in ItemsOf(p) : f[ri] \in Int
  BY ItemsFinite
<1> QED BY <1>1, SumIsInt, ItemsFinite DEF Total

(* A change at one item changes the total of its product, and no other.                   *)
LEMMA TotalChange ==
    ASSUME NEW f \in [AllItems -> Int], NEW g \in [AllItems -> Int], NEW y \in AllItems,
           \A x \in AllItems \ {y} : g[x] = f[x], NEW p \in Products
    PROVE  /\ y \in ItemsOf(p) => Total(g, p) = Total(f, p) + g[y] - f[y]
           /\ y \notin ItemsOf(p) => Total(g, p) = Total(f, p)
<1>1. IsFiniteSet(ItemsOf(p)) /\ ItemsOf(p) \subseteq AllItems
  BY ItemsFinite
<1>2. \A x \in ItemsOf(p) : f[x] \in Int /\ g[x] \in Int
  BY <1>1
<1>3. CASE y \in ItemsOf(p)
  <2>1. \A x \in ItemsOf(p) \ {y} : g[x] = f[x]
    BY <1>1
  <2> QED BY <1>1, <1>2, <1>3, <2>1, SumChange DEF Total
<1>4. CASE y \notin ItemsOf(p)
  <2>1. \A x \in ItemsOf(p) : f[x] \in Int /\ f[x] = g[x]
    BY <1>1, <1>2, <1>4
  <2> QED BY <1>1, <1>4, <2>1, SumSame DEF Total
<1> QED BY <1>3, <1>4

Nothing == [ri \in AllItems |-> 0]

LEMMA TotalOfNothing ==
    ASSUME NEW p \in Products
    PROVE  Total(Nothing, p) = 0
<1>1. IsFiniteSet(ItemsOf(p)) /\ ItemsOf(p) \subseteq AllItems
  BY ItemsFinite
<1>2. \A x \in ItemsOf(p) \ {} : Nothing[x] = 0
  BY <1>1 DEF Nothing
<1>3. SumFunctionOnSet(Nothing, ItemsOf(p)) = SumFunctionOnSet(Nothing, {})
  BY <1>1, <1>2, SumOfSupport
<1> QED BY <1>3, SumOfNone DEF Total

(* The saga takes one item of an order, or gives it back.                              *)
LEMMA HeldLedger ==
    ASSUME StatusInv, CartInv, CartInv', LedgerInv, UNCHANGED released,
           NEW r \in Orders, NEW i \in 1 .. ItemCount, NEW s \in {-1, 1},
           Placing!Change(r, i, s),
           \A o \in Orders : \A j \in 1 .. ItemCount :
              <<o, j>> # <<r, i>> => (j \in held'[o] <=> j \in held[o]),
           s = -1 => i \notin held[r] /\ i \in held'[r],
           s = 1 => i \in held[r] /\ i \notin held'[r]
    PROVE  LedgerInv'
<1> DEFINE y == <<r, i>>
           f == Taken(held, released)
           g == Taken(held', released)
           p0 == Items[r][i].product
           q == Quantity[y]
<1>1. y \in AllItems /\ y[1] = r /\ y[2] = i
  BY DEF AllItems
<1>2. q = Items[r][i].quantity /\ q \in Int /\ p0 \in Products
  BY <1>1, QuantityTyped, AllItemsOf
<1>3. \A p \in Products : y \in ItemsOf(p) <=> p = p0
  BY <1>1 DEF ItemsOf
<1>4. released \in Ledgers /\ held \in Holdings /\ held' \in Holdings
  BY DEF StatusInv, TypeInv, DataOK, CartInv, CartTypeOK, Ledgers, Holdings
<1>5. f \in [AllItems -> Int] /\ g \in [AllItems -> Int]
  BY <1>4, TakenTyped
<1>6. \A x \in AllItems \ {y} : g[x] = f[x]
  <2> SUFFICES ASSUME NEW x \in AllItems \ {y}
               PROVE  g[x] = f[x]
    OBVIOUS
  <2>1. x[1] \in Orders /\ x[2] \in 1 .. ItemCount /\ <<x[1], x[2]>> # <<r, i>>
    BY DEF AllItems
  <2>2. Once(x[2] \in held'[x[1]]) = Once(x[2] \in held[x[1]])
    BY <2>1 DEF Once
  <2> QED BY <2>2 DEF Taken
<1>7. g[y] - f[y] = - (s * q)
  <2>1. released[r] \in [1 .. ItemCount -> Nat]
    BY <1>4 DEF Ledgers
  <2>2. released[r][i] \in Nat
    BY <2>1
  <2>3. /\ f[y] = q * (Once(i \in held[r]) - released[r][i])
        /\ g[y] = q * (Once(i \in held'[r]) - released[r][i])
    BY <1>1 DEF Taken
  <2>4. \A a \in Int, n \in Nat : /\ a * (1 - n) - a * (0 - n) = - (-1 * a)
                                  /\ a * (0 - n) - a * (1 - n) = - (1 * a)
    OBVIOUS
  <2>5. CASE s = -1
    <3>1. f[y] = q * (0 - released[r][i]) /\ g[y] = q * (1 - released[r][i])
      BY <2>3, <2>5 DEF Once
    <3> HIDE DEF f, g, q
    <3> QED BY <1>2, <2>2, <2>4, <2>5, <3>1
  <2>6. CASE s = 1
    <3>1. f[y] = q * (1 - released[r][i]) /\ g[y] = q * (0 - released[r][i])
      BY <2>3, <2>6 DEF Once
    <3> HIDE DEF f, g, q
    <3> QED BY <1>2, <2>2, <2>4, <2>6, <3>1
  <2> QED BY <2>5, <2>6
<1>8. stock \in [Products -> Int] /\ InitStock \in [Products -> Int]
  BY StockAssumption DEF CartInv, CartTypeOK
<1>9. stock' = [stock EXCEPT ![p0] = stock[p0] + s * q]
  BY <1>2 DEF Placing!Change
<1>10. g = Taken(held, released)'
  OBVIOUS
<1>11. s * q \in Int
  BY <1>2
<1> DEFINE d == s * q
<1> HIDE DEF f, g, q, p0, y, d
<1>12. ASSUME NEW p \in Products
       PROVE  stock'[p] = InitStock[p] - Total(g, p)
  <2>1. /\ Total(f, p) \in Int /\ InitStock[p] \in Int /\ stock[p] \in Int
        /\ f[y] \in Int /\ g[y] \in Int
    BY <1>1, <1>5, <1>8, TotalTyped
  <2>2. stock[p] = InitStock[p] - Total(f, p)
    BY DEF LedgerInv, f
  <2>3. CASE p = p0
    <3>1. Total(g, p) = Total(f, p) + g[y] - f[y]
      BY <1>1, <1>3, <1>5, <1>6, <2>3, TotalChange
    <3>2. stock'[p] = stock[p] + d
      BY <1>8, <1>9, <2>3 DEF d
    <3>3. g[y] - f[y] = - d /\ d \in Int
      BY <1>7, <1>11 DEF d
    <3> QED BY <2>1, <2>2, <3>1, <3>2, <3>3
  <2>4. CASE p # p0
    <3>1. Total(g, p) = Total(f, p)
      BY <1>1, <1>3, <1>5, <1>6, <2>4, TotalChange
    <3>2. stock'[p] = stock[p]
      BY <1>8, <1>9, <2>4
    <3> QED BY <2>2, <3>1, <3>2
  <2> QED BY <2>3, <2>4
<1> QED BY <1>10, <1>12 DEF LedgerInv

(* A cancellation gives one item back.                                              *)
LEMMA ReleasedLedger ==
    ASSUME StatusInv, StatusInv', CartInv, LedgerInv, NEW h \in Handlers, GiveBackStock(h)
    PROVE  LedgerInv'
<1> DEFINE o == order[h]
           k == item[h]
           y == <<o, k>>
           f == Taken(held, released)
           g == Taken(held, released')
           D == Back(released, released')
           q == Quantity[y]
<1>1. o \in Orders /\ k \in 1 .. ItemCount /\ y \in AllItems /\ y[1] = o /\ y[2] = k
  BY ItemCountAssumption
     DEF GiveBackStock, ReleaseItem, StatusInv, TypeInv, LocalsOK, AllItems
<1>2. q \in Int
  BY <1>1, QuantityTyped
<1>3. released \in Ledgers /\ released' \in Ledgers /\ held \in Holdings
  BY DEF StatusInv, TypeInv, DataOK, CartInv, CartTypeOK, Ledgers, Holdings
<1>4. f \in [AllItems -> Int] /\ g \in [AllItems -> Int] /\ D \in [AllItems -> Int]
  BY <1>3, TakenTyped, BackTyped
<1>5. released' = [released EXCEPT ![o][k] = @ + 1]
  BY DEF GiveBackStock, ReleaseItem, GiveBack
<1>6. /\ released[o][k] \in Nat
      /\ released'[o][k] = released[o][k] + 1
      /\ \A r \in Orders : \A j \in 1 .. ItemCount :
            /\ released[r][j] \in Nat
            /\ <<r, j>> # <<o, k>> => released'[r][j] = released[r][j]
  <2>1. \A r \in Orders : released[r] \in [1 .. ItemCount -> Nat]
    BY <1>3 DEF Ledgers
  <2>2. \A r \in Orders \ {o} : released'[r] = released[r]
    BY <1>1, <1>3, <1>5 DEF Ledgers
  <2>3. released'[o] = [released[o] EXCEPT ![k] = released[o][k] + 1]
    BY <1>1, <1>3, <1>5 DEF Ledgers
  <2> HIDE DEF o, k
  <2>4. \A r \in Orders : \A j \in 1 .. ItemCount : released[r][j] \in Nat
    BY <2>1
  <2>5. released'[o][k] = released[o][k] + 1
    BY <1>1, <2>1, <2>3
  <2>6. \A j \in 1 .. ItemCount \ {k} : released'[o][j] = released[o][j]
    BY <1>1, <2>1, <2>3
  <2>7. ASSUME NEW r \in Orders, NEW j \in 1 .. ItemCount, <<r, j>> # <<o, k>>
        PROVE  released'[r][j] = released[r][j]
    BY <2>2, <2>6, <2>7
  <2> QED BY <1>1, <2>4, <2>5, <2>7
<1>7. \A x \in AllItems \ {y} : g[x] = f[x] /\ D[x] = 0
  <2> SUFFICES ASSUME NEW x \in AllItems \ {y}
               PROVE  g[x] = f[x] /\ D[x] = 0
    OBVIOUS
  <2>1. x[1] \in Orders /\ x[2] \in 1 .. ItemCount /\ <<x[1], x[2]>> # <<o, k>>
    BY DEF AllItems
  <2>2. released'[x[1]][x[2]] = released[x[1]][x[2]] /\ released[x[1]][x[2]] \in Nat
    BY <1>6, <2>1
  <2>3. g[x] = f[x]
    BY <2>2 DEF Taken
  <2>4. D[x] = Quantity[x] * (released[x[1]][x[2]] - released[x[1]][x[2]])
    BY <2>2 DEF Back
  <2>5. Quantity[x] \in Int
    BY QuantityTyped
  <2>6. \A a \in Int, n \in Nat : a * (n - n) = 0
    OBVIOUS
  <2> HIDE DEF D, g, f
  <2> QED BY <2>2, <2>3, <2>4, <2>5, <2>6
<1>8. g[y] = f[y] - q /\ D[y] = q
  <2> DEFINE n == released[o][k]
             t == Once(k \in held[o])
  <2>1. /\ f[y] = q * (t - n) /\ g[y] = q * (t - (n + 1)) /\ D[y] = q * ((n + 1) - n)
        /\ n \in Nat /\ t \in {0, 1}
    BY <1>1, <1>6 DEF Taken, Back, Once
  <2>2. \A a \in Int, b \in Nat, c \in {0, 1} : /\ a * (c - (b + 1)) = a * (c - b) - a
                                                 /\ a * ((b + 1) - b) = a
    OBVIOUS
  <2> HIDE DEF f, g, D, q, n, t
  <2> QED BY <1>2, <2>1, <2>2
<1>9. g = Taken(held, released)'
  BY DEF GiveBackStock, placingVars
<1>10. \A p \in Products : stock'[p] = stock[p] + Total(D, p)
  BY RestockedIs DEF GiveBackStock, Total
<1>11. Nothing \in [AllItems -> Int] /\ \A x \in AllItems : Nothing[x] = 0
  BY DEF Nothing
<1>12. stock \in [Products -> Int] /\ InitStock \in [Products -> Int]
  BY StockAssumption DEF CartInv, CartTypeOK
<1> HIDE DEF f, g, D, q, y
<1>13. ASSUME NEW p \in Products
       PROVE  stock'[p] = InitStock[p] - Total(g, p)
  <2>1. /\ Total(f, p) \in Int /\ InitStock[p] \in Int /\ stock[p] \in Int
        /\ f[y] \in Int /\ g[y] \in Int
    BY <1>1, <1>4, <1>12, TotalTyped
  <2>2. stock[p] = InitStock[p] - Total(f, p)
    BY DEF LedgerInv, f
  <2>3. CASE y \in ItemsOf(p)
    <3>1. Total(g, p) = Total(f, p) + g[y] - f[y]
      BY <1>1, <1>4, <1>7, <2>3, TotalChange
    <3>2. Total(D, p) = Total(Nothing, p) + D[y] - Nothing[y]
      <4>1. \A x \in AllItems \ {y} : D[x] = Nothing[x]
        BY <1>7, <1>11
      <4> QED BY <1>1, <1>4, <1>11, <2>3, <4>1, TotalChange
    <3>3. Total(Nothing, p) = 0 /\ Nothing[y] = 0
      BY <1>1, <1>11, TotalOfNothing
    <3>4. Total(D, p) = q
      BY <1>2, <1>8, <3>2, <3>3
    <3> QED BY <1>2, <1>8, <1>10, <2>1, <2>2, <3>1, <3>4
  <2>4. CASE y \notin ItemsOf(p)
    <3>1. Total(g, p) = Total(f, p)
      BY <1>1, <1>4, <1>7, <2>4, TotalChange
    <3>2. Total(D, p) = 0
      BY <1>1, <1>4, <1>7, <1>11, <2>4, TotalChange, TotalOfNothing
    <3> QED BY <1>10, <2>1, <2>2, <3>1, <3>2
  <2> QED BY <2>3, <2>4
<1> QED BY <1>9, <1>13 DEF LedgerInv

LEMMA LedgerStutter ==
    ASSUME LedgerInv, UNCHANGED <<stock, held, released>>
    PROVE  LedgerInv'
BY DEF LedgerInv

LEMMA LedgerStep ==
    StatusInv /\ CartInv /\ LedgerInv /\ [CartNext]_cartVars => LedgerInv'
<1> SUFFICES ASSUME StatusInv, CartInv, LedgerInv, [CartNext]_cartVars
             PROVE  LedgerInv'
  OBVIOUS
<1>0. StatusInv' /\ CartInv'
  BY StatusInvStep, CartInvStep
<1>1. ASSUME NEW r \in Orders, PlaceOrder(r)
      PROVE  LedgerInv'
  <2>1. released' = released
    BY <1>1 DEF PlaceOrder, changingVars, historyVars
  <2>2. ASSUME NEW i \in Placing!All(r), Placing!Take(r, i)
        PROVE  LedgerInv'
    <3>1. i \in 1 .. ItemCount
      BY AllItemsOf
    <3>2. /\ held' = [held EXCEPT ![r] = @ \cup {i}] /\ i \notin held[r]
          /\ Placing!Change(r, i, -1)
      BY <2>2 DEF Placing!Take
    <3>3. /\ \A o \in Orders : \A j \in 1 .. ItemCount :
                <<o, j>> # <<r, i>> => (j \in held'[o] <=> j \in held[o])
          /\ i \in held'[r]
      BY <3>1, <3>2 DEF CartInv, CartTypeOK
    <3> QED BY <1>0, <2>1, <3>1, <3>2, <3>3, HeldLedger
  <2>3. ASSUME NEW i \in Placing!All(r), Placing!GiveBack(r, i)
        PROVE  LedgerInv'
    <3>1. i \in 1 .. ItemCount
      BY AllItemsOf
    <3>2. /\ held' = [held EXCEPT ![r] = @ \ {i}] /\ i \in held[r]
          /\ Placing!Change(r, i, 1)
      BY <2>3 DEF Placing!GiveBack
    <3>3. /\ \A o \in Orders : \A j \in 1 .. ItemCount :
                <<o, j>> # <<r, i>> => (j \in held'[o] <=> j \in held[o])
          /\ i \notin held'[r]
      BY <3>1, <3>2 DEF CartInv, CartTypeOK
    <3> QED BY <1>0, <2>1, <3>1, <3>2, <3>3, HeldLedger
  <2>4. CASE UNCHANGED <<held, stock>>
    BY <2>1, <2>4, LedgerStutter
  <2> QED BY <1>1, <2>2, <2>3, <2>4
          DEF PlaceOrder, Placing!GiveUp, Placing!Place, Placing!Fail, Placing!Confirm,
              Placing!Refuse
<1>2. ASSUME NEW r \in Orders, AnnounceOrder(r)
      PROVE  LedgerInv'
  BY <1>2, LedgerStutter DEF AnnounceOrder, Placing!Announce, changingVars, historyVars
<1>3. ASSUME NEW h \in Handlers, (\E r \in Orders : StartChange(h, r)) \/ FinishChange(h)
      PROVE  LedgerInv'
  BY <1>3, LedgerStutter DEF StartChange, Validate, FinishChange, WriteStatus, PublishEvent,
                             placingVars
<1>4. ASSUME NEW h \in Handlers, GiveBackStock(h)
      PROVE  LedgerInv'
  BY <1>0, <1>4, ReleasedLedger
<1>5. CASE TellUser \/ CartRest \/ UNCHANGED cartVars
  BY <1>5, LedgerStutter DEF TellUser, CartRest, cartVars, placingVars, changingVars, historyVars
<1> QED BY <1>1, <1>2, <1>3, <1>4, <1>5 DEF CartNext

LEMMA LedgerInit == CartInit => LedgerInv
<1> SUFFICES ASSUME CartInit, NEW p \in Products
             PROVE  stock[p] = InitStock[p] - Total(Taken(held, released), p)
  BY DEF LedgerInv
<1>1. /\ held = [r \in Orders |-> {}] /\ stock = InitStock
      /\ released = [o \in Orders |-> [i \in 1 .. ItemCount |-> 0]]
  BY DEF CartInit, Init, Placing!Init
<1>2. \A ri \in AllItems : Taken(held, released)[ri] = 0
  <2> SUFFICES ASSUME NEW ri \in AllItems
               PROVE  Taken(held, released)[ri] = 0
    OBVIOUS
  <2>1. ri[1] \in Orders /\ ri[2] \in 1 .. ItemCount /\ Quantity[ri] \in Int
    BY QuantityTyped
  <2>2. Once(ri[2] \in held[ri[1]]) = 0 /\ released[ri[1]][ri[2]] = 0
    BY <1>1, <2>1 DEF Once
  <2>3. Taken(held, released)[ri] = Quantity[ri] * (0 - 0)
    BY <2>2 DEF Taken
  <2> QED BY <2>1, <2>3
<1>3. Taken(held, released) = Nothing
  BY <1>2 DEF Taken, Nothing
<1>4. Total(Taken(held, released), p) = 0
  BY <1>3, TotalOfNothing
<1>5. InitStock[p] \in Int
  BY StockAssumption
<1> QED BY <1>1, <1>4, <1>5

(* Stock is conserved over the whole life of every order: what is missing from the        *)
(* shelves when nothing is under way is what the orders that stand contain, and what a     *)
(* compensation had to give up, for any orders, items, stock and number of requests.       *)
THEOREM StockIsConserved == CartSpec => []StockConserved
<1>1. CartSpec => []LedgerInv
  BY LedgerInit, LedgerStep, CartInvariant, PTL DEF CartSpec
<1>2. StatusInv /\ CartInv /\ LedgerInv => StockConserved
  <2> SUFFICES ASSUME StatusInv, CartInv, LedgerInv, Settled, NEW p \in Products
               PROVE  InitStock[p] - stock[p] = SumFunctionOnSet(Quantity, OwnedItems(p))
    BY DEF StockConserved, Quantity
  <2> DEFINE f == Taken(held, released)
             mine == OwnedItems(p)
  <2>1. \A r \in Orders : Unserved(r)
    BY NoOrderAssumption DEF Settled, StatusInv, TypeInv, LocalsOK, Unserved
  <2>2. ASSUME NEW r \in Orders
        PROVE  \A i \in 1 .. ItemCount :
                  released[r][i] = Once(Exists(r) /\ status[r] = "cancelled")
    <3>1. /\ \A i \in 1 .. ItemCount : released[r][i] = Once(status[r] = "cancelled")
          /\ ~ Exists(r) => status[r] = "confirmed"
      BY <2>1 DEF StatusInv, CalmInv, CalmOrder, Calm, CartInv, AllCalm, RequestOK
    <3> QED BY <3>1 DEF Once
  <2>3. ASSUME NEW r \in Orders
        PROVE  held[r] = IF Exists(r) THEN 1 .. ItemCount ELSE lost[r]
    BY DEF CartInv, RequestOK, Settled, Exists
  <2>4. \A ri \in ItemsOf(p) :
           /\ Quantity[ri] \in Int
           /\ f[ri] = IF ri \in mine THEN Quantity[ri] ELSE 0
    <3> SUFFICES ASSUME NEW ri \in ItemsOf(p)
                 PROVE  /\ Quantity[ri] \in Int
                        /\ f[ri] = IF ri \in mine THEN Quantity[ri] ELSE 0
      OBVIOUS
    <3>1. ri \in AllItems
      BY DEF ItemsOf
    <3>2. ri[1] \in Orders /\ ri[2] \in 1 .. ItemCount /\ Quantity[ri] \in Int
      BY <3>1, QuantityTyped
    <3>3. f[ri] = Quantity[ri] * (Once(ri[2] \in held[ri[1]]) - released[ri[1]][ri[2]])
      BY <3>1 DEF Taken
    <3>4. ri \in mine <=> IF Exists(ri[1]) THEN status[ri[1]] # "cancelled"
                          ELSE ri[2] \in lost[ri[1]]
      BY DEF OwnedItems
    <3>5. released[ri[1]][ri[2]] = Once(Exists(ri[1]) /\ status[ri[1]] = "cancelled")
      BY <2>2, <3>2
    <3>6. held[ri[1]] = IF Exists(ri[1]) THEN 1 .. ItemCount ELSE lost[ri[1]]
      BY <2>3, <3>2
    <3>7. Once(ri[2] \in held[ri[1]]) - released[ri[1]][ri[2]] = Once(ri \in mine)
      <4>1. CASE ri \in mine
        <5>1. /\ ri[2] \in held[ri[1]]
              /\ ~ (Exists(ri[1]) /\ status[ri[1]] = "cancelled")
          BY <3>2, <3>4, <3>6, <4>1
        <5>2. Once(ri[2] \in held[ri[1]]) = 1 /\ released[ri[1]][ri[2]] = 0
          BY <3>5, <5>1 DEF Once
        <5> QED BY <4>1, <5>2 DEF Once
      <4>2. CASE ri \notin mine
        <5>1. ri[2] \in held[ri[1]] <=> (Exists(ri[1]) /\ status[ri[1]] = "cancelled")
          BY <3>2, <3>4, <3>6, <4>2
        <5>2. /\ Once(ri[2] \in held[ri[1]]) = released[ri[1]][ri[2]]
              /\ released[ri[1]][ri[2]] \in {0, 1}
          BY <3>5, <5>1 DEF Once
        <5> QED BY <4>2, <5>2 DEF Once
      <4> QED BY <4>1, <4>2
    <3>8. f[ri] = Quantity[ri] * Once(ri \in mine)
      BY <3>3, <3>7
    <3> HIDE DEF f, mine
    <3>9. \A q \in Int : q * 1 = q /\ q * 0 = 0
      OBVIOUS
    <3> QED BY <3>2, <3>8, <3>9 DEF Once
  <2>5. /\ mine \in SUBSET ItemsOf(p) /\ IsFiniteSet(ItemsOf(p))
    BY ItemsFinite DEF OwnedItems
  <2> DEFINE total == SumFunctionOnSet(f, ItemsOf(p))
             sum == SumFunctionOnSet(Quantity, mine)
  <2>6. total = sum
    <3> HIDE DEF f, mine
    <3>1. /\ \A x \in mine : f[x] \in Int /\ Quantity[x] = f[x]
          /\ \A x \in ItemsOf(p) \ mine : f[x] = 0
      BY <2>4, <2>5
    <3> QED BY <2>5, <3>1, SumOfSupport
  <2>7. total \in Int
    <3> HIDE DEF f, mine
    <3>1. \A x \in ItemsOf(p) : f[x] \in Int
      BY <2>4
    <3> QED BY <2>5, <3>1, SumIsInt
  <2>8. stock[p] = InitStock[p] - total
    BY DEF LedgerInv, Total
  <2>9. InitStock[p] \in Int
    BY StockAssumption
  <2>10. InitStock[p] - stock[p] = sum
    <3> HIDE DEF total, sum
    <3> QED BY <2>6, <2>7, <2>8, <2>9
  <2> QED BY <2>10
<1> QED BY <1>1, <1>2, CartInvariant, PTL

-----------------------------------------------------------------------------
(* What is told to the user.  An event that was published tells a status the order had,   *)
(* and the only statuses without an event are one that its request is about to publish,     *)
(* and a confirmation that the saga has not published.                               *)
EffectOK(m) ==
    /\ done[m] > 0 => fate[m] # "new"
    /\ fate[m] = "acked" => done[m] > 0

SourceOK(m) == fate[m] # "new" => Exists(m[1]) /\ m[2] \in visited[m[1]]

AboutToTell(h, m) == pc[h] = "publish" /\ order[h] = m[1] /\ target[h] = m[2]

KnownOK(m) ==
    Exists(m[1]) /\ m[2] \in visited[m[1]] =>
        \/ fate[m] # "new"
        \/ \E h \in Handlers : AboutToTell(h, m)
        \/ m[2] = "confirmed" /\ m[1] \notin announced

ToldInv == \A m \in Messages : EffectOK(m) /\ SourceOK(m) /\ KnownOK(m)

(* While nothing is published, the effects happen in their order.                       *)
LEMMA EffectStep ==
    ASSUME CartTypeOK, NEW n \in Messages, EffectOK(n),
           \/ \E m \in Messages : \/ Telling!Publish(m) \/ Telling!Work(m)
                                  \/ Telling!Acknowledge(m) \/ Telling!Reject(m)
           \/ Telling!Lose
           \/ UNCHANGED tellingVars
    PROVE  EffectOK(n)' /\ (fate[n] # "new" => fate'[n] # "new")
<1> USE DEF CartTypeOK, EffectOK
<1>1. ASSUME NEW m \in Messages, Telling!Publish(m)
      PROVE  EffectOK(n)' /\ (fate[n] # "new" => fate'[n] # "new")
  BY <1>1 DEF Telling!Publish
<1>2. ASSUME NEW m \in Messages, Telling!Work(m)
      PROVE  EffectOK(n)' /\ (fate[n] # "new" => fate'[n] # "new")
  <2>1. /\ fate[m] # "new" /\ done' = [done EXCEPT ![m] = done[m] + 1]
        /\ fate' = fate \/ fate' = [fate EXCEPT ![m] = "dead"]
    BY <1>2 DEF Telling!Work
  <2>2. done[m] \in Nat /\ done[n] \in Nat
    OBVIOUS
  <2>3. CASE n = m
    <3>1. done'[n] = done[n] + 1 /\ fate'[n] \in {fate[n], "dead"}
      BY <2>1, <2>3
    <3> QED BY <2>1, <2>2, <2>3, <3>1
  <2>4. CASE n # m
    <3>1. done'[n] = done[n] /\ fate'[n] = fate[n]
      BY <2>1, <2>4
    <3> QED BY <3>1
  <2> QED BY <2>3, <2>4
<1>3. ASSUME NEW m \in Messages, Telling!Acknowledge(m) \/ Telling!Reject(m)
      PROVE  EffectOK(n)' /\ (fate[n] # "new" => fate'[n] # "new")
  BY <1>3 DEF Telling!Acknowledge, Telling!Reject
<1>4. ASSUME Telling!Lose
      PROVE  EffectOK(n)' /\ (fate[n] # "new" => fate'[n] # "new")
  BY <1>4 DEF Telling!Lose
<1> QED BY <1>1, <1>2, <1>3, <1>4 DEF tellingVars

(* An event goes to the exchange: every other message keeps its fate.                     *)
LEMMA Told ==
    ASSUME CartTypeOK, NEW m, Tell(m), NEW n \in Messages, EffectOK(n)
    PROVE  /\ EffectOK(n)'
           /\ n = m => fate'[n] # "new"
           /\ n # m => fate'[n] = fate[n]
<1>1. EffectOK(n)'
  BY EffectStep DEF Tell
<1>2. (n = m => fate'[n] # "new") /\ (n # m => fate'[n] = fate[n])
  BY DEF Tell, Telling!Publish, tellingVars, CartTypeOK
<1> QED BY <1>1, <1>2

LEMMA MessageOf ==
    ASSUME NEW m \in Messages
    PROVE  m[1] \in Orders /\ m[2] \in Statuses /\ m = <<m[1], m[2]>>
BY MessagesAssumption DEF Statuses

LEMMA EffectKept ==
    ASSUME NEW m, EffectOK(m), UNCHANGED tellingVars
    PROVE  EffectOK(m)' /\ fate'[m] = fate[m]
BY DEF EffectOK, tellingVars

(* A status that a row had is one that comes after its confirmation, if not that.           *)
LEMMA ConfirmedFirst ==
    ASSUME StatusInv, CartInv, NEW r \in Orders
    PROVE  /\ visited[r] = Path(status[r])
           /\ "confirmed" \in visited[r]
<1>1. visited[r] = Path(status[r]) /\ status[r] \in visited[r]
  BY DEF StatusInv, CalmInv, CalmOrder, Calm, HistoryInv, RowOK, CartInv, AllCalm
<1> QED BY <1>1 DEF Path

(* The saga goes on; an order that comes to be is confirmed, and not yet announced.        *)
LEMMA PlaceOrderTold ==
    ASSUME StatusInv, CartInv, ToldInv, NEW r \in Orders, PlaceOrder(r), NEW m \in Messages
    PROVE  EffectOK(m)' /\ SourceOK(m)' /\ KnownOK(m)'
<1>0. m[1] \in Orders /\ EffectOK(m) /\ SourceOK(m) /\ KnownOK(m)
  BY MessageOf DEF ToldInv
<1>1. /\ UNCHANGED <<tellingVars, visited, status, pc, order, target>>
      /\ UNCHANGED announced
  BY DEF PlaceOrder, changingVars, locals, historyVars, Placing!Take, Placing!GiveBack,
         Placing!GiveUp, Placing!Place, Placing!Fail, Placing!Confirm, Placing!Refuse
<1>2. EffectOK(m)' /\ fate'[m] = fate[m]
  BY <1>0, <1>1, EffectKept
<1>3. Exists(m[1]) => Exists(m[1])'
  <2>1. stage' = stage \/ \E to \in {"placed", "failed", "confirmed", "refused"} :
           /\ stage' = [stage EXCEPT ![r] = to]
           /\ stage[r] # "confirmed" /\ (stage[r] = "placed" => to = "confirmed")
    BY DEF PlaceOrder, Placing!Take, Placing!GiveBack, Placing!GiveUp, Placing!Place,
           Placing!Fail, Placing!Confirm, Placing!Refuse, Placing!Moves
  <2> QED BY <1>0, <2>1 DEF Exists, CartInv, CartTypeOK
<1>4. SourceOK(m)'
  BY <1>0, <1>1, <1>2, <1>3 DEF SourceOK
<1>5. KnownOK(m)'
  <2>1. CASE Exists(m[1])
    BY <1>0, <1>1, <1>2, <2>1 DEF KnownOK, AboutToTell
  <2>2. CASE ~ Exists(m[1])
    <3>1. status[m[1]] = "confirmed" /\ m[1] \notin announced
      BY <1>0, <2>2 DEF CartInv, RequestOK
    <3>2. visited[m[1]] = {"confirmed"}
      BY <1>0, <3>1, ConfirmedFirst DEF Path
    <3> QED BY <1>1, <3>1, <3>2 DEF KnownOK
  <2> QED BY <2>1, <2>2
<1> QED BY <1>2, <1>4, <1>5

LEMMA AnnounceOrderTold ==
    ASSUME StatusInv, CartInv, ToldInv, NEW r \in Orders, AnnounceOrder(r), NEW m \in Messages
    PROVE  EffectOK(m)' /\ SourceOK(m)' /\ KnownOK(m)'
<1>0. /\ m[1] \in Orders /\ m = <<m[1], m[2]>>
      /\ EffectOK(m) /\ SourceOK(m) /\ KnownOK(m)
  BY MessageOf DEF ToldInv
<1>1. /\ UNCHANGED <<stage, visited, pc, order, target>>
      /\ stage[r] = "placed" /\ announced' = announced \cup {r}
  BY DEF AnnounceOrder, Placing!Announce, changingVars, locals, historyVars
<1>2. /\ EffectOK(m)'
      /\ m = <<r, "confirmed">> => fate'[m] # "new"
      /\ m # <<r, "confirmed">> => fate'[m] = fate[m]
  BY <1>0, Told DEF AnnounceOrder, CartInv
<1>3. SourceOK(m)'
  <2>1. CASE m = <<r, "confirmed">>
    <3>1. Exists(r) /\ "confirmed" \in visited[r]
      BY <1>1, ConfirmedFirst DEF Exists
    <3> QED BY <1>1, <2>1, <3>1 DEF SourceOK, Exists
  <2>2. CASE m # <<r, "confirmed">>
    BY <1>0, <1>1, <1>2, <2>2 DEF SourceOK, Exists
  <2> QED BY <2>1, <2>2
<1>4. KnownOK(m)'
  <2>1. CASE m = <<r, "confirmed">>
    BY <1>2, <2>1 DEF KnownOK
  <2>2. CASE m # <<r, "confirmed">>
    <3>1. m[2] = "confirmed" => m[1] # r
      BY <1>0, <2>2
    <3> QED BY <1>0, <1>1, <1>2, <2>2, <3>1 DEF KnownOK, Exists, AboutToTell
  <2> QED BY <2>1, <2>2
<1> QED BY <1>2, <1>3, <1>4

(* Requests that publish nothing yet.                                              *)
LEMMA QuietTold ==
    ASSUME StatusInv, CartInv, ToldInv, NEW m \in Messages, UNCHANGED tellingVars,
           UNCHANGED <<stage, announced, visited>>,
           \A h \in Handlers : AboutToTell(h, m) => AboutToTell(h, m)'
    PROVE  EffectOK(m)' /\ SourceOK(m)' /\ KnownOK(m)'
<1>0. EffectOK(m) /\ SourceOK(m) /\ KnownOK(m)
  BY DEF ToldInv
<1>1. EffectOK(m)' /\ fate'[m] = fate[m]
  BY <1>0, EffectKept
<1>2. SourceOK(m)'
  BY <1>0, <1>1 DEF SourceOK, Exists
<1>3. KnownOK(m)'
  BY <1>0, <1>1 DEF KnownOK, Exists
<1> QED BY <1>1, <1>2, <1>3

LEMMA WriteTold ==
    ASSUME StatusInv, CartInv, ToldInv, NEW h \in Handlers, FinishChange(h), WriteStatus(h),
           NEW m \in Messages
    PROVE  EffectOK(m)' /\ SourceOK(m)' /\ KnownOK(m)'
<1>0. m[1] \in Orders /\ m = <<m[1], m[2]>> /\ EffectOK(m) /\ SourceOK(m) /\ KnownOK(m)
  BY MessageOf DEF ToldInv
<1>1. UNCHANGED <<stage, announced, order, target, tellingVars>>
  BY DEF FinishChange, WriteStatus, placingVars, locals
<1>2. EffectOK(m)' /\ fate'[m] = fate[m]
  BY <1>0, <1>1, EffectKept
<1>3. /\ order[h] \in Orders /\ pc[h] = "update" /\ pc' = [pc EXCEPT ![h] = "publish"]
      /\ visited' = [visited EXCEPT ![order[h]] = @ \cup {target[h]}]
      /\ pc'[h] = "publish"
  BY DEF WriteStatus, StatusInv, TypeInv, LocalsOK
<1>4. /\ visited[m[1]] \subseteq visited'[m[1]]
      /\ \A st \in visited'[m[1]] \ visited[m[1]] : order[h] = m[1] /\ target[h] = st
  BY <1>0, <1>3 DEF StatusInv, TypeInv, DataOK
<1>5. SourceOK(m)'
  BY <1>0, <1>1, <1>2, <1>4 DEF SourceOK, Exists
<1>6. \A g \in Handlers : AboutToTell(g, m) => AboutToTell(g, m)'
  BY <1>1, <1>3 DEF AboutToTell, StatusInv, TypeInv, LocalsOK
<1>7. KnownOK(m)'
  <2>1. CASE m[2] \in visited[m[1]]
    BY <1>0, <1>1, <1>2, <1>6, <2>1 DEF KnownOK, Exists
  <2>2. CASE m[2] \notin visited[m[1]]
    <3>1. m[2] \in visited'[m[1]] => AboutToTell(h, m)'
      BY <1>1, <1>3, <1>4, <2>2 DEF AboutToTell
    <3> QED BY <3>1 DEF KnownOK
  <2> QED BY <2>1, <2>2
<1> QED BY <1>2, <1>5, <1>7

(* The event of a change is a new one, so it goes out.                                  *)
LEMMA PublishTells ==
    ASSUME StatusInv, CartInv, NEW h \in Handlers, FinishChange(h), PublishEvent(h)
    PROVE  /\ Tell(<<order[h], target[h]>>)
           /\ lastEvent' = [lastEvent EXCEPT ![order[h]] = target[h]]
           /\ target[h] = status[order[h]]
<1>1. faults' = faults /\ faults = {}
  BY DEF FinishChange, CartInv, AllCalm
<1>2. /\ events' = events \cup {[order |-> order[h], status |-> target[h], previous |-> read[h]]}
      /\ lastEvent' = [lastEvent EXCEPT ![order[h]] = target[h]]
  BY <1>1 DEF PublishEvent, Fault
<1>3. CalmHandler(h) /\ pc[h] = "publish"
  BY DEF PublishEvent, StatusInv, TypeInv, LocalsOK, CalmInv, Calm, CartInv, AllCalm
<1>4. \A e \in events : e.order = order[h] => e.status # target[h]
  BY <1>3 DEF CalmHandler
<1>5. [order |-> order[h], status |-> target[h], previous |-> read[h]] \notin events
  BY <1>4
<1>6. events' # events
  BY <1>2, <1>5
<1>7. target[h] = status[order[h]]
  BY <1>3 DEF CalmHandler
<1> QED BY <1>2, <1>6, <1>7 DEF FinishChange

LEMMA PublishTold ==
    ASSUME StatusInv, CartInv, ToldInv, NEW h \in Handlers, FinishChange(h), PublishEvent(h),
           NEW m \in Messages
    PROVE  EffectOK(m)' /\ SourceOK(m)' /\ KnownOK(m)'
<1> DEFINE n == <<order[h], target[h]>>
<1>0. m[1] \in Orders /\ m = <<m[1], m[2]>> /\ EffectOK(m) /\ SourceOK(m) /\ KnownOK(m)
  BY MessageOf DEF ToldInv
<1>1. UNCHANGED <<stage, announced, visited>>
  BY DEF FinishChange, PublishEvent, placingVars
<1>2. EffectOK(m)' /\ (m = n => fate'[m] # "new") /\ (m # n => fate'[m] = fate[m])
  <2>1. Tell(n) /\ CartTypeOK
    BY PublishTells DEF CartInv
  <2> HIDE DEF n
  <2> QED BY <1>0, <2>1, Told
<1>3. /\ pc[h] = "publish" /\ order[h] \in Orders
      /\ \A g \in Handlers \ {h} : pc'[g] = pc[g] /\ order'[g] = order[g] /\ target'[g] = target[g]
  BY DEF PublishEvent, Return, StatusInv, TypeInv, LocalsOK
<1>4. SourceOK(m)'
  <2>1. CASE m = n
    <3>1. Exists(order[h]) /\ target[h] \in visited[order[h]]
      BY <1>3, ServedExists DEF StatusInv, HistoryInv, HandlerOK
    <3> QED BY <1>1, <2>1, <3>1 DEF SourceOK, Exists
  <2>2. CASE m # n
    BY <1>0, <1>1, <1>2, <2>2 DEF SourceOK, Exists
  <2> QED BY <2>1, <2>2
<1>5. KnownOK(m)'
  <2>1. CASE m = n
    BY <1>2, <2>1 DEF KnownOK
  <2>2. CASE m # n
    <3>1. ~ AboutToTell(h, m)
      BY <1>0, <2>2 DEF AboutToTell
    <3>2. \A g \in Handlers : AboutToTell(g, m) => AboutToTell(g, m)'
      BY <1>3, <3>1 DEF AboutToTell
    <3> QED BY <1>0, <1>1, <1>2, <2>2, <3>2 DEF KnownOK, Exists
  <2> QED BY <2>1, <2>2
<1> QED BY <1>2, <1>4, <1>5

LEMMA ToldStep == StatusInv /\ CartInv /\ ToldInv /\ [CartNext]_cartVars => ToldInv'
<1> SUFFICES ASSUME StatusInv, CartInv, ToldInv, [CartNext]_cartVars, NEW m \in Messages
             PROVE  EffectOK(m)' /\ SourceOK(m)' /\ KnownOK(m)'
  BY DEF ToldInv
<1>0. EffectOK(m) /\ SourceOK(m) /\ KnownOK(m)
  BY DEF ToldInv
<1>1. ASSUME NEW r \in Orders, PlaceOrder(r)
      PROVE  EffectOK(m)' /\ SourceOK(m)' /\ KnownOK(m)'
  BY <1>1, PlaceOrderTold
<1>2. ASSUME NEW r \in Orders, AnnounceOrder(r)
      PROVE  EffectOK(m)' /\ SourceOK(m)' /\ KnownOK(m)'
  BY <1>2, AnnounceOrderTold
<1>3. ASSUME NEW h \in Handlers, NEW r \in Orders, StartChange(h, r)
      PROVE  EffectOK(m)' /\ SourceOK(m)' /\ KnownOK(m)'
  <2>1. UNCHANGED tellingVars /\ UNCHANGED <<stage, announced, visited>>
    BY <1>3 DEF StartChange, Validate, placingVars
  <2>2. \A g \in Handlers : AboutToTell(g, m) => AboutToTell(g, m)'
    BY <1>3 DEF StartChange, Validate, AboutToTell, StatusInv, TypeInv, LocalsOK
  <2> QED BY <2>1, <2>2, QuietTold
<1>4. ASSUME NEW h \in Handlers, GiveBackStock(h)
      PROVE  EffectOK(m)' /\ SourceOK(m)' /\ KnownOK(m)'
  <2>1. UNCHANGED tellingVars /\ UNCHANGED <<stage, announced, visited>>
    BY <1>4 DEF GiveBackStock, ReleaseItem, placingVars
  <2>2. \A g \in Handlers : AboutToTell(g, m) => AboutToTell(g, m)'
    BY <1>4 DEF GiveBackStock, ReleaseItem, AboutToTell, StatusInv, TypeInv, LocalsOK
  <2> QED BY <2>1, <2>2, QuietTold
<1>5. ASSUME NEW h \in Handlers, FinishChange(h)
      PROVE  EffectOK(m)' /\ SourceOK(m)' /\ KnownOK(m)'
  BY <1>5, WriteTold, PublishTold DEF FinishChange
<1>6. CASE TellUser
  <2>1. EffectOK(m)' /\ (fate[m] # "new" => fate'[m] # "new")
    BY <1>0, <1>6, EffectStep DEF TellUser, CartInv
  <2>2. fate[m] = "new" => fate'[m] = "new"
    BY <1>6 DEF TellUser, Telling!Work, Telling!Acknowledge, Telling!Reject, Telling!Lose,
                CartInv, CartTypeOK
  <2>3. UNCHANGED <<stage, announced, visited, pc, order, target>>
    BY <1>6 DEF TellUser, placingVars, changingVars, locals, historyVars
  <2>4. SourceOK(m)'
    BY <1>0, <2>1, <2>2, <2>3 DEF SourceOK, Exists
  <2>5. KnownOK(m)'
    BY <1>0, <2>1, <2>3 DEF KnownOK, Exists, AboutToTell
  <2> QED BY <2>1, <2>4, <2>5
<1>7. CASE CartRest \/ UNCHANGED cartVars
  <2>1. /\ UNCHANGED tellingVars
        /\ UNCHANGED <<stage, announced, visited, pc, order, target>>
    BY <1>7 DEF CartRest, cartVars, placingVars, changingVars, locals, historyVars
  <2>2. \A g \in Handlers : AboutToTell(g, m) => AboutToTell(g, m)'
    BY <2>1 DEF AboutToTell
  <2> QED BY <2>1, <2>2, QuietTold
<1> QED BY <1>1, <1>2, <1>3, <1>4, <1>5, <1>6, <1>7 DEF CartNext

LEMMA ToldInit == CartInit => ToldInv
BY MessageOf
   DEF CartInit, Placing!Init, Telling!Init, ToldInv, EffectOK, SourceOK, KnownOK, Exists

(* A user is told only what happened, and in the end all of it that was neither lost       *)
(* behind the exchange nor left unpublished by the saga.                              *)
THEOREM UsersAreToldTheTruth == CartSpec => []UsersToldTheTruth
<1>1. CartSpec => []ToldInv
  BY ToldInit, ToldStep, CartInvariant, PTL DEF CartSpec
<1>2. StatusInv /\ CartInv /\ ToldInv => UsersToldTheTruth
  <2> SUFFICES ASSUME StatusInv, CartInv, ToldInv, NEW m \in Messages
               PROVE  /\ done[m] > 0 => Exists(m[1]) /\ m[2] \in visited[m[1]]
                      /\ Settled /\ Exists(m[1]) /\ m[2] \in visited[m[1]] =>
                            \/ done[m] > 0
                            \/ fate[m] \in {"dead", "gone"}
                            \/ m[2] = "confirmed" /\ m[1] \notin announced
    BY DEF UsersToldTheTruth
  <2>1. EffectOK(m) /\ SourceOK(m) /\ KnownOK(m)
    BY DEF ToldInv
  <2>2. fate[m] \in {"new", "queued", "gone", "dead", "acked"}
    BY DEF CartInv, CartTypeOK
  <2>3. Settled => fate[m] # "queued" /\ \A h \in Handlers : ~ AboutToTell(h, m)
    BY DEF Settled, AboutToTell
  <2>4. done[m] > 0 => Exists(m[1]) /\ m[2] \in visited[m[1]]
    BY <2>1 DEF EffectOK, SourceOK
  <2>5. Settled /\ Exists(m[1]) /\ m[2] \in visited[m[1]] =>
           \/ done[m] > 0
           \/ fate[m] \in {"dead", "gone"}
           \/ m[2] = "confirmed" /\ m[1] \notin announced
    BY <2>1, <2>2, <2>3 DEF EffectOK, KnownOK
  <2> QED BY <2>4, <2>5
<1> QED BY <1>1, <1>2, CartInvariant, PTL

-----------------------------------------------------------------------------
(* The latest event of an order whose confirmation was published before anyone asked for    *)
(* a change: it tells the status, except between the write of a change and its event.        *)
Announced(r) ==
    /\ r \in announced /\ (\A h \in Handlers : order[h] = r => pc[h] # "publish") =>
          lastEvent[r] = status[r]
    /\ stage[r] = "placed" /\ r \notin announced =>
          status[r] = "confirmed" /\ Unserved(r)

LatestInv == \A r \in Orders \ early : Announced(r)

LEMMA AnnouncedKept ==
    ASSUME NEW r, Announced(r),
           UNCHANGED <<stage, announced, pc, order, status, lastEvent>>
    PROVE  Announced(r)'
BY DEF Announced, Unserved

LEMMA PlaceOrderLatest ==
    ASSUME StatusInv, CartInv, LatestInv, NEW r \in Orders, PlaceOrder(r)
    PROVE  LatestInv'
<1> SUFFICES ASSUME NEW o \in Orders \ early'
             PROVE  Announced(o)'
  BY DEF LatestInv
<1>1. UNCHANGED <<early, announced, pc, order, status, lastEvent>>
  BY DEF PlaceOrder, changingVars, locals, historyVars, Placing!Take, Placing!GiveBack,
         Placing!GiveUp, Placing!Place, Placing!Fail, Placing!Confirm, Placing!Refuse
<1>2. stage' = stage \/ \E to \in {"placed", "failed", "confirmed", "refused"} :
         /\ stage' = [stage EXCEPT ![r] = to]
         /\ to = "placed" => stage[r] = "open"
  BY DEF PlaceOrder, Placing!Take, Placing!GiveBack, Placing!GiveUp, Placing!Place,
         Placing!Fail, Placing!Confirm, Placing!Refuse, Placing!Moves
<1>3. Announced(o)
  BY <1>1 DEF LatestInv
<1>4. CASE stage'[o] = stage[o]
  BY <1>1, <1>3, <1>4 DEF Announced, Unserved
<1>5. CASE stage'[o] # stage[o] /\ stage'[o] = "placed"
  <2>1. stage[o] = "open"
    BY <1>2, <1>5 DEF CartInv, CartTypeOK
  <2>2. status[o] = "confirmed" /\ Unserved(o)
    BY <2>1 DEF CartInv, RequestOK, Exists
  <2> QED BY <1>1, <1>3, <2>2 DEF Announced, Unserved
<1>6. CASE stage'[o] # "placed"
  BY <1>1, <1>3, <1>6 DEF Announced
<1> QED BY <1>4, <1>5, <1>6

LEMMA AnnounceOrderLatest ==
    ASSUME StatusInv, CartInv, LatestInv, NEW r \in Orders, AnnounceOrder(r)
    PROVE  LatestInv'
<1> SUFFICES ASSUME NEW o \in Orders \ early'
             PROVE  Announced(o)'
  BY DEF LatestInv
<1>1. /\ UNCHANGED <<early, stage, pc, order, status>>
      /\ stage[r] = "placed" /\ r \notin announced /\ announced' = announced \cup {r}
      /\ lastEvent' = [lastEvent EXCEPT ![r] = "confirmed"]
  BY DEF AnnounceOrder, Placing!Announce, changingVars, locals, historyVars
<1>2. Announced(o) /\ lastEvent \in [Orders -> Statuses]
  BY <1>1 DEF LatestInv, StatusInv, TypeInv, DataOK
<1>3. CASE o = r
  BY <1>1, <1>2, <1>3 DEF Announced
<1>4. CASE o # r
  BY <1>1, <1>2, <1>4 DEF Announced, Unserved
<1> QED BY <1>3, <1>4

LEMMA StartChangeLatest ==
    ASSUME StatusInv, CartInv, LatestInv, NEW h \in Handlers, NEW r \in Orders,
           StartChange(h, r)
    PROVE  LatestInv'
<1> SUFFICES ASSUME NEW o \in Orders \ early'
             PROVE  Announced(o)'
  BY DEF LatestInv
<1>1. /\ UNCHANGED <<stage, announced, status, lastEvent>>
      /\ early' = IF stage[r] = "placed" /\ r \notin announced THEN early \cup {r} ELSE early
      /\ \A g \in Handlers : order[g] # r
  BY DEF StartChange, Validate, placingVars
<1>2. /\ order'[h] = r
      /\ \A g \in Handlers \ {h} : order'[g] = order[g] /\ pc'[g] = pc[g]
      /\ order[h] = NoOrder
  BY DEF StartChange, Validate, StatusInv, TypeInv, LocalsOK
<1>3. Announced(o)
  BY <1>1 DEF LatestInv
<1>4. CASE o = r
  <2>1. ~ (stage[r] = "placed" /\ r \notin announced)
    BY <1>1, <1>4
  <2>2. r \in announced => lastEvent[r] = status[r]
    BY <1>1, <1>3, <1>4 DEF Announced
  <2> QED BY <1>1, <1>4, <2>1, <2>2 DEF Announced
<1>5. CASE o # r
  BY <1>1, <1>2, <1>3, <1>5, NoOrderAssumption DEF Announced, Unserved
<1> QED BY <1>4, <1>5

LEMMA GiveBackStockLatest ==
    ASSUME StatusInv, LatestInv, NEW h \in Handlers, GiveBackStock(h)
    PROVE  LatestInv'
<1> SUFFICES ASSUME NEW o \in Orders \ early'
             PROVE  Announced(o)'
  BY DEF LatestInv
<1>1. UNCHANGED <<early, stage, announced, order, status, lastEvent>>
  BY DEF GiveBackStock, ReleaseItem, placingVars
<1>2. /\ pc[h] # "publish"
      /\ \A g \in Handlers \ {h} : pc'[g] = pc[g]
  BY DEF GiveBackStock, ReleaseItem, StatusInv, TypeInv, LocalsOK
<1>3. Announced(o)
  BY <1>1 DEF LatestInv
<1> QED BY <1>1, <1>2, <1>3 DEF Announced, Unserved

LEMMA FinishChangeLatest ==
    ASSUME StatusInv, CartInv, LatestInv, NEW h \in Handlers, FinishChange(h)
    PROVE  LatestInv'
<1> SUFFICES ASSUME NEW o \in Orders \ early'
             PROVE  Announced(o)'
  BY DEF LatestInv
<1>1. UNCHANGED <<early, stage, announced>>
  BY DEF FinishChange, placingVars
<1>2. Announced(o)
  BY <1>1 DEF LatestInv
<1>3. order[h] \in Orders
  BY DEF FinishChange, WriteStatus, PublishEvent, StatusInv, TypeInv, LocalsOK
<1>4. CASE WriteStatus(h)
  <2>1. /\ UNCHANGED <<order, lastEvent>> /\ pc'[h] = "publish" /\ pc[h] = "update"
        /\ \A g \in Handlers \ {h} : pc'[g] = pc[g]
        /\ \A p \in Orders \ {order[h]} : status'[p] = status[p]
    BY <1>3, <1>4 DEF WriteStatus, locals, StatusInv, TypeInv, LocalsOK, DataOK
  <2>2. CASE o = order[h]
    BY <1>1, <1>2, <2>1, <2>2 DEF Announced, Unserved
  <2>3. CASE o # order[h]
    BY <1>1, <1>2, <2>1, <2>3 DEF Announced, Unserved
  <2> QED BY <2>2, <2>3
<1>5. CASE PublishEvent(h)
  <2>1. /\ UNCHANGED status /\ pc'[h] = "idle" /\ order'[h] = NoOrder
        /\ \A g \in Handlers \ {h} : pc'[g] = pc[g] /\ order'[g] = order[g]
    BY <1>5 DEF PublishEvent, Return, StatusInv, TypeInv, LocalsOK
  <2>2. lastEvent' = [lastEvent EXCEPT ![order[h]] = target[h]] /\ target[h] = status[order[h]]
    BY <1>5, PublishTells
  <2>3. /\ lastEvent'[order[h]] = status[order[h]]
        /\ \A p \in Orders \ {order[h]} : lastEvent'[p] = lastEvent[p]
    BY <1>3, <2>2 DEF StatusInv, TypeInv, DataOK
  <2>4. CASE o = order[h]
    BY <1>1, <1>2, <2>1, <2>3, <2>4 DEF Announced, Unserved
  <2>5. CASE o # order[h]
    BY <1>1, <1>2, <2>1, <2>3, <2>5, NoOrderAssumption DEF Announced, Unserved
  <2> QED BY <2>4, <2>5
<1> QED BY <1>4, <1>5 DEF FinishChange

LEMMA LatestStep == StatusInv /\ CartInv /\ LatestInv /\ [CartNext]_cartVars => LatestInv'
<1> SUFFICES ASSUME StatusInv, CartInv, LatestInv, [CartNext]_cartVars
             PROVE  LatestInv'
  OBVIOUS
<1>1. ASSUME NEW r \in Orders, PlaceOrder(r)
      PROVE  LatestInv'
  BY <1>1, PlaceOrderLatest
<1>2. ASSUME NEW r \in Orders, AnnounceOrder(r)
      PROVE  LatestInv'
  BY <1>2, AnnounceOrderLatest
<1>3. ASSUME NEW h \in Handlers, NEW r \in Orders, StartChange(h, r)
      PROVE  LatestInv'
  BY <1>3, StartChangeLatest
<1>4. ASSUME NEW h \in Handlers, GiveBackStock(h)
      PROVE  LatestInv'
  BY <1>4, GiveBackStockLatest
<1>5. ASSUME NEW h \in Handlers, FinishChange(h)
      PROVE  LatestInv'
  BY <1>5, FinishChangeLatest
<1>6. CASE TellUser \/ CartRest \/ UNCHANGED cartVars
  <2>1. /\ UNCHANGED early
        /\ UNCHANGED <<stage, announced, pc, order, status, lastEvent>>
    BY <1>6 DEF TellUser, CartRest, cartVars, placingVars, changingVars, locals, historyVars
  <2> QED BY <2>1, AnnouncedKept DEF LatestInv
<1> QED BY <1>1, <1>2, <1>3, <1>4, <1>5, <1>6 DEF CartNext

LEMMA LatestInit == CartInit => LatestInv
BY NoOrderAssumption DEF CartInit, Init, Placing!Init, LatestInv, Announced, Unserved

(* From its confirmation on, and between two requests, the latest event of an order tells    *)
(* its status, if no change was asked for before the confirmation was published.            *)
THEOREM LatestEventIsCurrent == CartSpec => []LatestEventCurrent
<1>1. CartSpec => []LatestInv
  BY LatestInit, LatestStep, CartInvariant, PTL DEF CartSpec
<1>2. LatestInv => LatestEventCurrent
  BY DEF LatestInv, Announced, LatestEventCurrent, Quiet
<1> QED BY <1>1, <1>2, PTL
====
