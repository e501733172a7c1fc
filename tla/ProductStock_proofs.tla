------------------------ MODULE ProductStock_proofs -------------------------
(***************************************************************************)
(* What ProductStock guarantees for every set of products, every number of   *)
(* concurrent handlers and every request size.                              *)
(***************************************************************************)
EXTENDS ProductStock, FiniteSetTheorems, TLAPS

USE MaxQtyAssumption, MaxStockAssumption, HandlersAssumption, ProductsAssumption

(* The default product of an idle handler is a product.                      *)
LEMMA AnyProductIsProduct == AnyProduct \in Products
BY DEF AnyProduct

(* Every variable keeps its type: in particular the handlers of createProduct *)
(* and updateStock only ever store integers in a row or in a gauge.          *)
THEOREM TypeCorrect == Spec => []TypeOK
<1>1. Init => TypeOK
  BY AnyProductIsProduct DEF Init, TypeOK, Steps, Quantities
<1>2. TypeOK /\ [Next]_vars => TypeOK'
  <2> SUFFICES ASSUME TypeOK, [Next]_vars PROVE TypeOK'
    OBVIOUS
  <2> USE AnyProductIsProduct DEF TypeOK, Steps, Quantities
  <2>1. ASSUME NEW left \in SUBSET Handlers, Restart(left) PROVE TypeOK'
    BY <2>1 DEF Restart, InitInventoryMetrics
  <2>2. ASSUME NEW h \in Handlers, NEW p \in Products, NEW q \in 0 .. MaxStock,
               InsertProduct(h, p, q)
        PROVE TypeOK'
    BY <2>2 DEF InsertProduct, Arrive
  <2>3. ASSUME NEW h \in Handlers, NEW p \in Products, NEW q \in Quantities,
               ReceiveUpdate(h, p, q)
        PROVE TypeOK'
    BY <2>3 DEF ReceiveUpdate, Arrive
  <2>4. ASSUME NEW h \in Handlers, SelectStock(h) PROVE TypeOK'
    BY <2>4 DEF SelectStock
  <2>5. ASSUME NEW h \in Handlers, RefuseUpdate(h) PROVE TypeOK'
    BY <2>5 DEF RefuseUpdate, Return
  <2>6. ASSUME NEW h \in Handlers, UpdateStock(h) PROVE TypeOK'
    BY <2>6 DEF UpdateStock
  <2>7. ASSUME NEW h \in Handlers, UpdateFails(h) PROVE TypeOK'
    BY <2>7 DEF UpdateFails, Return
  <2>8. ASSUME NEW h \in Handlers, SetGauge(h) PROVE TypeOK'
    BY <2>8 DEF SetGauge, Return
  <2>9. ASSUME NEW h \in Handlers, NEW p \in Products, NEW q \in 0 .. MaxStock,
               InsertUnheard(h, p, q)
        PROVE TypeOK'
    BY <2>9 DEF InsertUnheard
  <2>10. ASSUME NEW h \in Handlers, UpdateUnheard(h) PROVE TypeOK'
    BY <2>10 DEF UpdateUnheard, Return
  <2>11. CASE UNCHANGED vars
    BY <2>11 DEF vars
  <2> QED
    BY <2>1, <2>2, <2>3, <2>4, <2>5, <2>6, <2>7, <2>8, <2>9, <2>10, <2>11 DEF Next
<1> QED
  BY <1>1, <1>2, PTL DEF Spec

-----------------------------------------------------------------------------
(* Arithmetic on the products with MaxQty, which the solver only proves on
   plain names.                                                             *)
LEMMA Monotone == ASSUME NEW m \in Nat, NEW a \in Int, NEW b \in Int, a <= b
                  PROVE  m * a <= m * b
BY Z3

(* One pending reservation less is MaxQty less.                              *)
LEMMA Distribute == ASSUME NEW m \in Int, NEW a \in Int
                    PROVE  m * (a - 1) = m * a - m
BY Z3

(* A product of integers is an integer.                                      *)
LEMMA ProductIsInt == ASSUME NEW m \in Int, NEW a \in Int PROVE m * a \in Int
BY Z3

(* The pending reservations other than w are counted by a natural number that *)
(* leaves room for w among the handlers.                                     *)
LEMMA OthersCounted ==
    ASSUME NEW p \in Products, NEW w \in Handlers
    PROVE  /\ IsFiniteSet(Pending(p) \ {w})
           /\ Cardinality(Pending(p) \ {w}) \in Nat
           /\ Cardinality(Handlers) \in Nat \ {0}
           /\ Cardinality(Pending(p) \ {w}) <= Cardinality(Handlers) - 1
<1>1. /\ IsFiniteSet(Handlers \ {w})
      /\ Cardinality(Handlers \ {w}) = Cardinality(Handlers) - 1
  BY FS_RemoveElement
<1>2. Pending(p) \ {w} \subseteq Handlers \ {w}
  BY DEF Pending
<1>3. /\ IsFiniteSet(Pending(p) \ {w})
      /\ Cardinality(Pending(p) \ {w}) <= Cardinality(Handlers \ {w})
  BY <1>1, <1>2, FS_Subset
<1> QED
  BY <1>1, <1>3, FS_CardinalityType, FS_EmptySet

(* There is at least one handler, so the bound is a natural number.           *)
LEMMA OversellBoundType == OversellBound \in Nat
<1>1. Cardinality(Handlers) \in Nat /\ Cardinality(Handlers) # 0
  BY FS_CardinalityType, FS_EmptySet
<1>2. Cardinality(Handlers) - 1 \in Nat
  BY <1>1
<1> QED
  BY <1>2, Monotone, ProductIsInt, MaxQty * 0 = 0 DEF OversellBound

(* A step that takes no stock of p and starts no reservation of p keeps the   *)
(* witness of OversellInv.                                                   *)
LEMMA WitnessKept ==
    ASSUME TypeOK, TypeOK', NEW p \in Products, NEW w \in Handlers,
           stock[p] - Owed(w, p) >= - OversellBound,
           Pending(p)' \subseteq Pending(p),
           \A h \in Pending(p)' : quantity'[h] = quantity[h],
           stock'[p] >= stock[p]
    PROVE  stock'[p] - Owed(w, p)' >= - OversellBound
<1> DEFINE k == Cardinality(Pending(p) \ {w})
           l == Cardinality(Pending(p)' \ {w})
<1>1. /\ k \in Nat /\ l \in Nat
      /\ l <= k
  <2>1. IsFiniteSet(Pending(p) \ {w})
    BY OthersCounted
  <2> QED
    BY <2>1, FS_Subset, FS_CardinalityType
<1>2. MaxQty * l <= MaxQty * k /\ MaxQty * l \in Int /\ MaxQty * k \in Int
  BY <1>1, Monotone, ProductIsInt
<1>3. w \in Pending(p) => quantity[w] \in Int /\ quantity[w] < 0
  BY DEF Pending, TypeOK, Quantities
<1>4. Owed(w, p) = MaxQty * k - (IF w \in Pending(p) THEN quantity[w] ELSE 0)
  BY DEF Owed
<1>5. Owed(w, p)' = MaxQty * l - (IF w \in Pending(p)' THEN quantity'[w] ELSE 0)
  BY DEF Owed
<1>6. w \in Pending(p)' => w \in Pending(p) /\ quantity'[w] = quantity[w]
  OBVIOUS
<1>7. stock[p] \in Int /\ stock'[p] \in Int
  BY DEF TypeOK
<1> HIDE DEF k, l
<1> QED
  BY <1>2, <1>3, <1>4, <1>5, <1>6, <1>7, OversellBoundType

(* An accepted check makes its handler the witness: the value it read covers  *)
(* its own quantity, and at most all the other handlers are pending.          *)
LEMMA CheckKeepsBound ==
    ASSUME TypeOK, TypeOK', NEW p \in Products, NEW h \in Handlers,
           SelectStock(h), product[h] = p, quantity[h] < 0
    PROVE  stock'[p] - Owed(h, p)' >= - OversellBound
<1> DEFINE k == Cardinality(Pending(p)' \ {h})
<1>1. /\ k \in Nat /\ Cardinality(Handlers) - 1 \in Nat
      /\ k <= Cardinality(Handlers) - 1
  <2>1. /\ IsFiniteSet(Handlers \ {h})
        /\ Cardinality(Handlers \ {h}) = Cardinality(Handlers) - 1
        /\ Cardinality(Handlers \ {h}) \in Nat
    BY FS_RemoveElement, FS_CardinalityType
  <2>2. Pending(p)' \ {h} \subseteq Handlers \ {h}
    BY DEF Pending
  <2> QED
    BY <2>1, <2>2, FS_Subset, FS_CardinalityType
<1>2. /\ MaxQty * k <= OversellBound
      /\ MaxQty * k \in Int /\ OversellBound \in Int
  BY <1>1, Monotone, ProductIsInt DEF OversellBound
<1>3. h \in Pending(p)'
  BY DEF SelectStock, Pending, TypeOK
<1>4. quantity' = quantity /\ stock' = stock
  BY DEF SelectStock
<1>5. Owed(h, p)' = MaxQty * k - quantity[h]
  BY <1>3, <1>4 DEF Owed
<1>6. stock[p] + quantity[h] >= 0
  BY DEF SelectStock, EnoughStock
<1>7. stock[p] \in Int /\ quantity[h] \in Int
  BY DEF TypeOK, Quantities
<1> HIDE DEF k
<1> QED
  BY <1>2, <1>4, <1>5, <1>6, <1>7

(* Writing a pending reservation moves its quantity from what is owed to what *)
(* is taken; the witness stays.                                              *)
LEMMA WriteKeepsBound ==
    ASSUME TypeOK, TypeOK', NEW p \in Products, NEW h \in Handlers,
           UpdateStock(h) \/ UpdateUnheard(h), product[h] = p, quantity[h] < 0,
           NEW w \in Handlers,
           stock[p] - Owed(w, p) >= - OversellBound
    PROVE  stock'[p] - Owed(w, p)' >= - OversellBound
<1> DEFINE k == Cardinality(Pending(p) \ {w})
           l == Cardinality(Pending(p)' \ {w})
<1>1. h \in Pending(p) /\ Pending(p)' = Pending(p) \ {h}
  BY DEF UpdateStock, UpdateUnheard, Return, Pending, TypeOK
<1>2. /\ \A g \in Handlers \ {h} : quantity'[g] = quantity[g]
      /\ stock'[p] = stock[p] + quantity[h]
  BY DEF UpdateStock, UpdateUnheard, Return, TypeOK
<1>3. /\ stock[p] \in Int
      /\ quantity[h] \in Int /\ quantity[h] >= - MaxQty
      /\ quantity[w] \in Int
  BY DEF TypeOK, Quantities
<1>4. IsFiniteSet(Pending(p) \ {w}) /\ k \in Nat
  BY OthersCounted
<1>5. Owed(w, p) = MaxQty * k - (IF w \in Pending(p) THEN quantity[w] ELSE 0)
  BY DEF Owed
<1>6. Owed(w, p)' = MaxQty * l - (IF w \in Pending(p)' THEN quantity[w] ELSE 0)
  BY <1>1, <1>2 DEF Owed
<1>7. CASE h = w
  <2>1. l = k
    BY <1>1, <1>7
  <2>2. MaxQty * k \in Int
    BY <1>4, ProductIsInt
  <2> HIDE DEF k, l
  <2> QED
    BY <1>1, <1>2, <1>3, <1>5, <1>6, <1>7, <2>1, <2>2, OversellBoundType
<1>8. CASE h # w
  <2>1. Pending(p)' \ {w} = (Pending(p) \ {w}) \ {h} /\ h \in Pending(p) \ {w}
    BY <1>1, <1>8
  <2>2. l = k - 1
    <3> DEFINE S == Pending(p) \ {w}
    <3>1. IsFiniteSet(S) /\ h \in S
      BY <1>4, <2>1
    <3> HIDE DEF S
    <3>2. Cardinality(S \ {h}) = Cardinality(S) - 1
      BY <3>1, FS_RemoveElement
    <3> QED
      BY <2>1, <3>2 DEF S
  <2>4. w \in Pending(p)' <=> w \in Pending(p)
    BY <1>1, <1>8
  <2> HIDE DEF k, l
  <2>3. MaxQty * l = MaxQty * k - MaxQty /\ MaxQty * k \in Int
    BY <1>4, <2>2, MaxQtyAssumption, Distribute, ProductIsInt
  <2> QED
    BY <1>2, <1>3, <1>5, <1>6, <2>3, <2>4, OversellBoundType
<1> QED
  BY <1>7, <1>8

-----------------------------------------------------------------------------
(* Rows are only ever written after they were inserted: updateStockHandler    *)
(* reaches its UPDATE only through a SELECT that found the row, and no        *)
(* handler deletes one.                                                      *)
LEMMA RowsInvariant == TypeOK /\ RowsInv /\ [Next]_vars => RowsInv'
<1> SUFFICES ASSUME TypeOK, RowsInv, [Next]_vars PROVE RowsInv'
  OBVIOUS
<1> USE DEF TypeOK, RowsInv
<1>1. ASSUME NEW left \in SUBSET Handlers, Restart(left) PROVE RowsInv'
  BY <1>1 DEF Restart, InitInventoryMetrics
<1>2. ASSUME NEW h \in Handlers, NEW p \in Products, NEW q \in 0 .. MaxStock,
             InsertProduct(h, p, q)
      PROVE RowsInv'
  BY <1>2 DEF InsertProduct
<1>9. ASSUME NEW h \in Handlers, NEW p \in Products, NEW q \in 0 .. MaxStock,
             InsertUnheard(h, p, q)
      PROVE RowsInv'
  BY <1>9 DEF InsertUnheard
<1>3. ASSUME NEW h \in Handlers, NEW p \in Products, NEW q \in Quantities,
             ReceiveUpdate(h, p, q)
      PROVE RowsInv'
  BY <1>3 DEF ReceiveUpdate
<1>4. ASSUME NEW h \in Handlers, SelectStock(h) PROVE RowsInv'
  BY <1>4 DEF SelectStock
<1>5. ASSUME NEW h \in Handlers, RefuseUpdate(h) \/ UpdateFails(h) PROVE RowsInv'
  BY <1>5 DEF RefuseUpdate, UpdateFails, Return
<1>6. ASSUME NEW h \in Handlers, UpdateStock(h) \/ UpdateUnheard(h) PROVE RowsInv'
  BY <1>6 DEF UpdateStock, UpdateUnheard, Return
<1>7. ASSUME NEW h \in Handlers, SetGauge(h) PROVE RowsInv'
  BY <1>7 DEF SetGauge, Return
<1>8. CASE UNCHANGED vars
  BY <1>8 DEF vars
<1> QED
  BY <1>1, <1>2, <1>3, <1>4, <1>5, <1>6, <1>7, <1>8, <1>9 DEF Next

(* The inductive invariant: OversellInv, with what its step needs.            *)
IInv == TypeOK /\ RowsInv /\ OversellInv

(* One step keeps OversellInv.  Only two steps take from the budget of a       *)
(* product: a check that accepts a reservation, and the UPDATE that writes    *)
(* it; every other step keeps the witness.                                   *)
LEMMA OversellStep == IInv /\ TypeOK' /\ [Next]_vars => OversellInv'
<1> SUFFICES ASSUME IInv, TypeOK', [Next]_vars, NEW p \in Products
             PROVE  \E w \in Handlers : stock'[p] - Owed(w, p)' >= - OversellBound
  BY DEF OversellInv, OversellBound
<1>0. TypeOK /\ RowsInv /\ OversellInv
  BY DEF IInv
<1>1. PICK w \in Handlers : stock[p] - Owed(w, p) >= - OversellBound
  BY <1>0 DEF OversellInv
<1>2. ASSUME Pending(p)' \subseteq Pending(p),
             \A g \in Pending(p)' : quantity'[g] = quantity[g],
             stock'[p] >= stock[p]
      PROVE  \E v \in Handlers : stock'[p] - Owed(v, p)' >= - OversellBound
  BY <1>0, <1>1, <1>2, WitnessKept
<1>3. stock[p] \in Int
  BY <1>0 DEF TypeOK
<1>4. ASSUME NEW left \in SUBSET Handlers, Restart(left)
      PROVE  \E v \in Handlers : stock'[p] - Owed(v, p)' >= - OversellBound
  BY <1>2, <1>3, <1>4 DEF Restart, Pending
<1>5. ASSUME NEW h \in Handlers, NEW r \in Products, NEW q \in 0 .. MaxStock,
             InsertProduct(h, r, q) \/ InsertUnheard(h, r, q)
      PROVE  \E v \in Handlers : stock'[p] - Owed(v, p)' >= - OversellBound
  <2>1. stock'[p] >= stock[p]
    BY <1>0, <1>3, <1>5 DEF InsertProduct, InsertUnheard, RowsInv, TypeOK
  <2> QED
    BY <1>0, <1>2, <1>5, <2>1 DEF InsertProduct, InsertUnheard, Pending, TypeOK
<1>6. ASSUME NEW h \in Handlers, NEW r \in Products, NEW q \in Quantities,
             ReceiveUpdate(h, r, q)
      PROVE  \E v \in Handlers : stock'[p] - Owed(v, p)' >= - OversellBound
  BY <1>0, <1>2, <1>3, <1>6 DEF ReceiveUpdate, Pending, TypeOK
<1>7. ASSUME NEW h \in Handlers, SelectStock(h)
      PROVE  \E v \in Handlers : stock'[p] - Owed(v, p)' >= - OversellBound
  <2>1. CASE product[h] = p /\ quantity[h] < 0
    BY <1>0, <1>7, <2>1, CheckKeepsBound
  <2>2. CASE ~ (product[h] = p /\ quantity[h] < 0)
    BY <1>0, <1>2, <1>3, <1>7, <2>2 DEF SelectStock, Pending, TypeOK
  <2> QED
    BY <2>1, <2>2
<1>8. ASSUME NEW h \in Handlers, RefuseUpdate(h) \/ UpdateFails(h) \/ SetGauge(h)
      PROVE  \E v \in Handlers : stock'[p] - Owed(v, p)' >= - OversellBound
  BY <1>0, <1>2, <1>3, <1>8
     DEF RefuseUpdate, UpdateFails, SetGauge, Return, Pending, TypeOK
<1>9. ASSUME NEW h \in Handlers, UpdateStock(h) \/ UpdateUnheard(h)
      PROVE  \E v \in Handlers : stock'[p] - Owed(v, p)' >= - OversellBound
  <2>1. CASE product[h] = p /\ quantity[h] < 0
    BY <1>0, <1>1, <1>9, <2>1, WriteKeepsBound
  <2>2. CASE ~ (product[h] = p /\ quantity[h] < 0)
    <3>1. stock'[p] >= stock[p]
      BY <1>0, <1>3, <1>9, <2>2 DEF UpdateStock, UpdateUnheard, TypeOK, Quantities
    <3> QED
      BY <1>0, <1>2, <1>9, <3>1 DEF UpdateStock, UpdateUnheard, Return, Pending, TypeOK
  <2> QED
    BY <2>1, <2>2
<1>10. CASE UNCHANGED vars
  BY <1>2, <1>3, <1>10 DEF vars, Pending
<1> QED
  BY <1>4, <1>5, <1>6, <1>7, <1>8, <1>9, <1>10 DEF Next

(* Nothing is stocked or pending in the initial state.                       *)
LEMMA OversellInit == Init => RowsInv /\ OversellInv
<1> SUFFICES ASSUME Init PROVE RowsInv /\ OversellInv
  OBVIOUS
<1>1. RowsInv
  BY DEF Init, RowsInv
<1>2. ASSUME NEW p \in Products, NEW w \in Handlers
      PROVE  stock[p] - Owed(w, p) >= - OversellBound
  <2>1. Pending(p) = {}
    BY DEF Init, Pending
  <2>2. Cardinality(Pending(p) \ {w}) = 0
    BY <2>1, FS_EmptySet
  <2>3. Owed(w, p) = 0
    BY <2>1, <2>2, MaxQty * 0 = 0 DEF Owed
  <2> QED
    BY <2>3, OversellBoundType DEF Init
<1> QED
  BY <1>1, <1>2 DEF OversellInv

(* The budget of every product is kept for ever.                             *)
THEOREM OversellInvariant == Spec => []IInv
<1>1. Init => OversellInv /\ RowsInv
  BY OversellInit
<1>2. IInv /\ TypeOK' /\ [Next]_vars => IInv'
  BY OversellStep, RowsInvariant DEF IInv
<1>3. Spec => []TypeOK
  BY TypeCorrect
<1> QED
  BY <1>1, <1>2, <1>3, PTL DEF Spec, IInv

(* However many requests are served, n concurrent handlers of updateStock     *)
(* never take a product below - (n - 1) * MaxQty: the gap between the check    *)
(* and the UPDATE costs at most one request per other handler.                *)
THEOREM OversellIsBounded == Spec => []BoundedOversell
<1>1. IInv => BoundedOversell
  <2> SUFFICES ASSUME IInv, NEW p \in rows PROVE stock[p] >= - OversellBound
    BY DEF BoundedOversell
  <2>0. p \in Products /\ stock[p] \in Int
    BY DEF IInv, TypeOK
  <2>1. PICK w \in Handlers : stock[p] - Owed(w, p) >= - OversellBound
    BY <2>0 DEF IInv, OversellInv
  <2> DEFINE k == Cardinality(Pending(p) \ {w})
  <2>2. k \in Nat
    BY <2>0, OthersCounted
  <2>3. MaxQty * k \in Int /\ MaxQty * k >= MaxQty * 0 /\ MaxQty * 0 = 0
    BY <2>2, Monotone, ProductIsInt
  <2>4. w \in Pending(p) => quantity[w] \in Int /\ quantity[w] < 0
    BY DEF Pending, IInv, TypeOK, Quantities
  <2>5. Owed(w, p) = MaxQty * k - (IF w \in Pending(p) THEN quantity[w] ELSE 0)
    BY DEF Owed
  <2> HIDE DEF k
  <2> QED
    BY <2>0, <2>1, <2>3, <2>4, <2>5, OversellBoundType
<1> QED
  BY <1>1, OversellInvariant, PTL

-----------------------------------------------------------------------------
(* Without overlap: the only handler at a product has a check that is still   *)
(* valid, and a stock to report that is the row's.                           *)
Alone(p) ==
    \A g, h \in Handlers :
        pc[g] # "idle" /\ pc[h] # "idle" /\ product[g] = p /\ product[h] = p => g = h

HandlerOK(h, p) ==
    product[h] = p =>
        /\ pc[h] \in {"update", "orphan"} => stock[p] + quantity[h] >= 0
        /\ pc[h] = "gauge" => newStock[h] = stock[p]

GaugeOK(p) ==
    p \in rows \ unheard /\ (\A h \in Handlers : ~ (pc[h] = "gauge" /\ product[h] = p)) =>
        level[p] \in {stock[p], NoReading}

SerialOK(p) ==
    /\ Alone(p)
    /\ \A h \in Handlers : HandlerOK(h, p)
    /\ stock[p] >= 0
    /\ GaugeOK(p)

SerialInv == \A p \in Products \ contended : SerialOK(p)

(* Nothing that concerns p changes but that a handler may have returned.       *)
Untouched(p) ==
    /\ stock'[p] = stock[p] /\ level'[p] = level[p]
    /\ (p \in rows' <=> p \in rows) /\ (p \in unheard' <=> p \in unheard)
    /\ \A h \in Handlers : pc'[h] # "idle" /\ product'[h] = p =>
          /\ product[h] = p /\ pc'[h] = pc[h]
          /\ quantity'[h] = quantity[h] /\ newStock'[h] = newStock[h]
    /\ \A h \in Handlers : pc[h] = "gauge" /\ product[h] = p =>
          pc'[h] = "gauge" /\ product'[h] = p

LEMMA UntouchedSerial ==
    ASSUME NEW p \in Products, SerialOK(p), Untouched(p)
    PROVE  SerialOK(p)'
BY DEF Untouched, SerialOK, Alone, HandlerOK, GaugeOK

(* A handler at another product, or one that comes or goes.                    *)
LEMMA OtherProduct ==
    ASSUME TypeOK, NEW h \in Handlers, NEW p \in Products, product[h] # p,
           SelectStock(h) \/ UpdateStock(h) \/ SetGauge(h)
           \/ RefuseUpdate(h) \/ UpdateFails(h) \/ UpdateUnheard(h)
    PROVE  Untouched(p)
BY DEF SelectStock, UpdateStock, SetGauge, RefuseUpdate, UpdateFails, UpdateUnheard, Return,
       Untouched, TypeOK

LEMMA SerialStep ==
    TypeOK /\ RowsInv /\ SerialInv /\ [Next]_vars => SerialInv'
<1> SUFFICES ASSUME TypeOK, RowsInv, SerialInv, [Next]_vars
             PROVE  SerialInv'
  OBVIOUS
<1>1. ASSUME NEW left \in SUBSET Handlers, Restart(left) PROVE SerialInv'
  <2>1. ASSUME NEW p \in Products \ contended
        PROVE  SerialOK(p)'
    <3>1. \A h \in Handlers : pc'[h] # "idle" =>
             /\ pc[h] \in {"update", "orphan"} /\ pc'[h] = "orphan"
             /\ product'[h] = product[h] /\ quantity'[h] = quantity[h]
      BY <1>1 DEF Restart
    <3>2. stock' = stock /\ level'[p] \in {stock[p], NoReading}
      BY <1>1 DEF Restart, InitInventoryMetrics
    <3>3. SerialOK(p)
      BY <2>1 DEF SerialInv
    <3> QED BY <3>1, <3>2, <3>3 DEF SerialOK, Alone, HandlerOK, GaugeOK
  <2> QED BY <1>1, <2>1 DEF Restart, SerialInv
<1>2. ASSUME NEW h \in Handlers, NEW r \in Products, NEW q \in 0 .. MaxStock,
             InsertProduct(h, r, q)
      PROVE  SerialInv'
  <2>1. ASSUME NEW p \in Products \ contended'
        PROVE  SerialOK(p)'
    <3>1. SerialOK(p)
      BY <1>2, <2>1 DEF InsertProduct, Arrive, SerialInv
    <3>2. CASE p # r
      <4>1. Untouched(p)
        BY <1>2, <3>2 DEF InsertProduct, Untouched, TypeOK
      <4> QED BY <3>1, <4>1, UntouchedSerial
    <3>3. CASE p = r
      <4>1. \A g \in Handlers : pc[g] = "idle" \/ product[g] # p
        BY <1>2, <2>1, <3>3 DEF InsertProduct, Arrive
      <4>2. /\ pc'[h] = "gauge" /\ product'[h] = p /\ newStock'[h] = q
            /\ stock'[p] = q
        BY <1>2, <3>3 DEF InsertProduct, TypeOK
      <4>3. \A g \in Handlers \ {h} : pc'[g] = pc[g] /\ product'[g] = product[g]
        BY <1>2 DEF InsertProduct, TypeOK
      <4> QED BY <4>1, <4>2, <4>3 DEF SerialOK, Alone, HandlerOK, GaugeOK
    <3> QED BY <3>2, <3>3
  <2> QED BY <2>1 DEF SerialInv
<1>3. ASSUME NEW h \in Handlers, NEW r \in Products, NEW q \in Quantities,
             ReceiveUpdate(h, r, q)
      PROVE  SerialInv'
  <2>1. ASSUME NEW p \in Products \ contended'
        PROVE  SerialOK(p)'
    <3>1. SerialOK(p)
      BY <1>3, <2>1 DEF ReceiveUpdate, Arrive, SerialInv
    <3>2. CASE p # r
      <4>1. Untouched(p)
        BY <1>3, <3>2 DEF ReceiveUpdate, Untouched, TypeOK
      <4> QED BY <3>1, <4>1, UntouchedSerial
    <3>3. CASE p = r
      <4>1. \A g \in Handlers : pc[g] = "idle" \/ product[g] # p
        BY <1>3, <2>1, <3>3 DEF ReceiveUpdate, Arrive
      <4>2. pc'[h] = "select" /\ product'[h] = p /\ UNCHANGED <<rows, stock, level, unheard>>
        BY <1>3, <3>3 DEF ReceiveUpdate, TypeOK
      <4>3. \A g \in Handlers \ {h} : pc'[g] = pc[g] /\ product'[g] = product[g]
        BY <1>3 DEF ReceiveUpdate, TypeOK
      <4> QED BY <3>1, <4>1, <4>2, <4>3 DEF SerialOK, Alone, HandlerOK, GaugeOK
    <3> QED BY <3>2, <3>3
  <2> QED BY <2>1 DEF SerialInv
<1>4. ASSUME NEW h \in Handlers,
             SelectStock(h) \/ UpdateStock(h) \/ SetGauge(h) \/ RefuseUpdate(h) \/ UpdateFails(h)
             \/ UpdateUnheard(h)
      PROVE  SerialInv'
  <2>0. rows' = rows /\ contended' = contended
    BY <1>4 DEF SelectStock, UpdateStock, SetGauge, RefuseUpdate, UpdateFails, UpdateUnheard, Return
  <2>1. ASSUME NEW p \in Products \ contended
        PROVE  SerialOK(p)'
    <3>1. SerialOK(p)
      BY <2>1 DEF SerialInv
    <3>2. CASE product[h] # p
      BY <1>4, <3>1, <3>2, OtherProduct, UntouchedSerial
    <3>3. CASE product[h] = p
      <4>0. \A g \in Handlers \ {h} : pc[g] = "idle" \/ product[g] # p
        BY <1>4, <3>1, <3>3
           DEF SerialOK, Alone, SelectStock, UpdateStock, SetGauge, RefuseUpdate, UpdateFails,
               UpdateUnheard
      <4>1. CASE SelectStock(h)
        <5>1. UNCHANGED <<rows, stock, level, product, quantity, newStock, unheard>> /\ pc[h] = "select"
          BY <4>1 DEF SelectStock
        <5>2. pc'[h] = "update" /\ \A g \in Handlers \ {h} : pc'[g] = pc[g]
          BY <4>1 DEF SelectStock, TypeOK
        <5>3. stock[p] + quantity[h] >= 0
          BY <3>3, <4>1 DEF SelectStock, EnoughStock
        <5> QED BY <3>1, <3>3, <4>0, <5>1, <5>2, <5>3
                DEF SerialOK, Alone, HandlerOK, GaugeOK
      <4>2. CASE UpdateStock(h)
        <5>1. UNCHANGED <<rows, level, product, quantity, unheard>>
          BY <4>2 DEF UpdateStock
        <5>2. pc[h] = "update" /\ pc'[h] = "gauge" /\ \A g \in Handlers \ {h} : pc'[g] = pc[g]
          BY <4>2 DEF UpdateStock, TypeOK
        <5>3. stock'[p] = stock[p] + quantity[h] /\ newStock'[h] = stock[p] + quantity[h]
          BY <3>3, <4>2 DEF UpdateStock, TypeOK
        <5>4. stock[p] + quantity[h] >= 0
          BY <3>1, <3>3, <5>2 DEF SerialOK, HandlerOK
        <5> QED BY <3>3, <4>0, <5>1, <5>2, <5>3, <5>4
                DEF SerialOK, Alone, HandlerOK, GaugeOK
      <4>3. CASE SetGauge(h) \/ RefuseUpdate(h) \/ UpdateFails(h)
        <5>1. UNCHANGED <<rows, stock, unheard>> /\ pc'[h] = "idle"
          BY <4>3 DEF SetGauge, RefuseUpdate, UpdateFails, Return, TypeOK
        <5>2. \A g \in Handlers \ {h} : pc'[g] = pc[g] /\ product'[g] = product[g]
          BY <4>3 DEF SetGauge, RefuseUpdate, UpdateFails, Return, TypeOK
        <5>3. CASE SetGauge(h)
          <6>1. level'[p] = stock[p]
            BY <3>1, <3>3, <5>3 DEF SetGauge, SerialOK, HandlerOK, TypeOK
          <6> QED BY <3>1, <4>0, <5>1, <5>2, <6>1 DEF SerialOK, Alone, HandlerOK, GaugeOK
        <5>4. CASE RefuseUpdate(h) \/ UpdateFails(h)
          <6>1. level' = level /\ pc[h] # "gauge"
            BY <5>4 DEF RefuseUpdate, UpdateFails
          <6> QED BY <3>1, <4>0, <5>1, <5>2, <6>1 DEF SerialOK, Alone, HandlerOK, GaugeOK
        <5> QED BY <4>3, <5>3, <5>4
      <4>4. CASE UpdateUnheard(h)
        <5>1. /\ p \in unheard' /\ stock'[p] = stock[p] + quantity[h]
              /\ pc[h] \in {"update", "orphan"} /\ pc'[h] = "idle"
          BY <3>3, <4>4 DEF UpdateUnheard, Return, TypeOK
        <5>2. \A g \in Handlers \ {h} : pc'[g] = pc[g] /\ product'[g] = product[g]
          BY <4>4 DEF UpdateUnheard, Return, TypeOK
        <5>3. stock[p] + quantity[h] >= 0
          BY <3>1, <3>3, <5>1 DEF SerialOK, HandlerOK
        <5> QED BY <4>0, <5>1, <5>2, <5>3 DEF SerialOK, Alone, HandlerOK, GaugeOK
      <4> QED BY <1>4, <4>1, <4>2, <4>3, <4>4
    <3> QED BY <3>2, <3>3
  <2> QED BY <2>0, <2>1 DEF SerialInv
<1>5. CASE UNCHANGED vars
  <2>1. \A p \in Products : Untouched(p)
    BY <1>5 DEF vars, Untouched
  <2> QED BY <1>5, <2>1, UntouchedSerial DEF vars, SerialInv
<1>6. ASSUME NEW h \in Handlers, NEW r \in Products, NEW q \in 0 .. MaxStock,
             InsertUnheard(h, r, q)
      PROVE  SerialInv'
  <2>1. ASSUME NEW p \in Products \ contended
        PROVE  SerialOK(p)'
    <3>1. SerialOK(p)
      BY <2>1 DEF SerialInv
    <3>2. CASE p # r
      <4>1. Untouched(p)
        BY <1>6, <3>2 DEF InsertUnheard, Untouched, TypeOK
      <4> QED BY <3>1, <4>1, UntouchedSerial
    <3>3. CASE p = r
      <4>1. level[p] = NoReading /\ \A g \in Handlers :
               pc[g] \in {"update", "orphan", "gauge"} => product[g] # p
        BY <1>6, <3>3 DEF InsertUnheard, RowsInv
      <4>2. stock'[p] = q /\ UNCHANGED <<level, pc, product>>
        BY <1>6, <3>3 DEF InsertUnheard, TypeOK
      <4> QED BY <3>1, <4>1, <4>2 DEF SerialOK, Alone, HandlerOK, GaugeOK
    <3> QED BY <3>2, <3>3
  <2> QED BY <1>6, <2>1 DEF InsertUnheard, SerialInv
<1> QED BY <1>1, <1>2, <1>3, <1>4, <1>5, <1>6 DEF Next

LEMMA SerialInit == Init => SerialInv
BY DEF Init, SerialInv, SerialOK, Alone, HandlerOK, GaugeOK

LEMMA SerialInvariant == Spec => []SerialInv
<1>1. Spec => []RowsInv
  BY OversellInvariant, PTL DEF IInv
<1> QED BY <1>1, TypeCorrect, SerialInit, SerialStep, PTL DEF Spec

(* A product whose requests never overlapped is never oversold, however many  *)
(* requests it was served, whatever restarts and other products do.           *)
THEOREM NotOversoldAlone == Spec => []SerialNeverOversold
<1>1. TypeOK /\ SerialInv => SerialNeverOversold
  BY DEF TypeOK, SerialInv, SerialOK, SerialNeverOversold
<1> QED BY <1>1, SerialInvariant, TypeCorrect, PTL

(* Of such a product, the gauge shows the row's stock between two requests, or  *)
(* was never set since the last start, if every UPDATE since then was heard of.  *)
THEOREM GaugeCurrentAlone == Spec => []SerialGaugeCurrent
<1>1. TypeOK /\ SerialInv => SerialGaugeCurrent
  BY DEF TypeOK, SerialInv, SerialOK, GaugeOK, AtRest, SerialGaugeCurrent
<1> QED BY <1>1, SerialInvariant, TypeCorrect, PTL
=============================================================================
