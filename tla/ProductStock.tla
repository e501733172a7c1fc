---------------------------- MODULE ProductStock ----------------------------
(***************************************************************************)
(* The stock ledger of one product-service process                          *)
(* (services/product-service/main.go): the products table in Postgres, the  *)
(* inventory_level gauge in the process, and the HTTP handlers that touch   *)
(* both.  A handler is several steps: net/http runs each request in its own *)
(* goroutine, and every SQL statement is its own transaction, so handlers   *)
(* interleave between any two statements.                                   *)
(*                                                                          *)
(* A Handler is a goroutine slot: Cardinality(Handlers) bounds how many     *)
(* requests are being served at once, not how many are ever served.         *)
(***************************************************************************)
EXTENDS Integers, FiniteSets

CONSTANTS
    Products,   \* product identifiers
    Handlers,   \* goroutines serving createProduct or updateStock requests
    MaxQty,     \* the largest quantity one request adds or removes
    MaxStock,   \* bound: no request is made that aims above this stock
    NoReading   \* a gauge that was never set

ASSUME MaxQtyAssumption   == MaxQty \in Nat
ASSUME MaxStockAssumption == MaxStock \in Nat
ASSUME HandlersAssumption == IsFiniteSet(Handlers) /\ Handlers # {}
ASSUME ProductsAssumption == Products # {}
ASSUME NoReadingAssumption == NoReading \notin Int

VARIABLES
    rows,       \* the products that have a row in the products table
    stock,      \* products.stock, meaningful for the products in rows
    level,      \* the inventory_level gauge of this process
    pc,         \* where each handler is
    product,    \* the product its request names
    quantity,   \* the quantity its request asks for
    newStock,   \* the stock its INSERT or UPDATE returned
    contended,  \* history: products two requests were served for at once
    unheard     \* history: products with an UPDATE since the last start of which
                \* this process has not heard

vars == <<rows, stock, level, pc, product, quantity, newStock, contended, unheard>>

(* "select": decoded, about to read the stock;  "update": the check passed,  *)
(* about to write;  "gauge": the row is written, the gauge is not set yet;    *)
(* "orphan": the process died while Postgres was at its UPDATE.              *)
Steps == {"idle", "select", "update", "gauge", "orphan"}

Quantities == (- MaxQty) .. MaxQty

TypeOK ==
    /\ rows \in SUBSET Products
    /\ stock \in [Products -> Int]
    /\ level \in [Products -> Int \cup {NoReading}]
    /\ pc \in [Handlers -> Steps]
    /\ product \in [Handlers -> Products]
    /\ quantity \in [Handlers -> Quantities]
    /\ newStock \in [Handlers -> Int]
    /\ contended \in SUBSET Products
    /\ unheard \in SUBSET Products

(* The locals of a handler that serves nothing.                              *)
AnyProduct == CHOOSE p \in Products : TRUE

Init ==
    /\ rows = {}
    /\ stock = [p \in Products |-> 0]
    /\ level = [p \in Products |-> NoReading]
    /\ pc = [h \in Handlers |-> "idle"]
    /\ product = [h \in Handlers |-> AnyProduct]
    /\ quantity = [h \in Handlers |-> 0]
    /\ newStock = [h \in Handlers |-> 0]
    /\ contended = {}
    /\ unheard = {}

-----------------------------------------------------------------------------
(* A handler returns: its goroutine and its locals are gone.                 *)
Return(h) ==
    /\ pc' = [pc EXCEPT ![h] = "idle"]
    /\ product' = [product EXCEPT ![h] = AnyProduct]
    /\ quantity' = [quantity EXCEPT ![h] = 0]
    /\ newStock' = [newStock EXCEPT ![h] = 0]
    /\ UNCHANGED contended

(* A request for p arrives, perhaps while another one for p is being served.  *)
Arrive(p) ==
    contended' = IF \E g \in Handlers : pc[g] # "idle" /\ product[g] = p
                 THEN contended \cup {p} ELSE contended

(* createProductHandler: INSERT ... RETURNING, then the gauge.  The row is    *)
(* visible to every other request as soon as it is inserted.                 *)
InsertProduct(h, p, q) ==
    /\ pc[h] = "idle"
    /\ p \notin rows
    /\ Arrive(p)
    /\ rows' = rows \cup {p}
    /\ stock' = [stock EXCEPT ![p] = q]
    /\ product' = [product EXCEPT ![h] = p]
    /\ newStock' = [newStock EXCEPT ![h] = q]
    /\ pc' = [pc EXCEPT ![h] = "gauge"]
    /\ UNCHANGED <<level, quantity, unheard>>

(* The INSERT takes effect and the handler is told of an error: 500, no gauge. *)
InsertUnheard(h, p, q) ==
    /\ pc[h] = "idle"
    /\ p \notin rows
    /\ rows' = rows \cup {p}
    /\ stock' = [stock EXCEPT ![p] = q]
    /\ UNCHANGED <<level, pc, product, quantity, newStock, contended, unheard>>

(* updateStockHandler has parsed the id and decoded the body.                *)
ReceiveUpdate(h, p, q) ==
    /\ pc[h] = "idle"
    /\ q > 0 => stock[p] + q <= MaxStock
    /\ Arrive(p)
    /\ product' = [product EXCEPT ![h] = p]
    /\ quantity' = [quantity EXCEPT ![h] = q]
    /\ pc' = [pc EXCEPT ![h] = "select"]
    /\ UNCHANGED <<rows, stock, level, newStock, unheard>>

(* Mutant: the check lets one unit too many through.                          *)
EnoughStockOffByOne(p, q) == stock[p] + q >= -1

(* "Check if stock would go negative".                                       *)
EnoughStock(p, q) == stock[p] + q >= 0

(* SELECT stock returned a row and the check on the value just read passed.   *)
SelectStock(h) ==
    /\ pc[h] = "select"
    /\ product[h] \in rows
    /\ EnoughStock(product[h], quantity[h])
    /\ pc' = [pc EXCEPT ![h] = "update"]
    /\ UNCHANGED <<rows, stock, level, product, quantity, newStock, contended, unheard>>

(* The handler answers without writing: 409 when the check fails, 404 when    *)
(* there is no row or the SELECT itself fails (the code does not tell those   *)
(* two apart).                                                               *)
RefuseUpdate(h) ==
    /\ pc[h] = "select"
    /\ Return(h)
    /\ UNCHANGED <<rows, stock, level, unheard>>

(* Mutant: the gauge is to show the stock that the check read.                *)
UpdateStockReportsOld(h) ==
    /\ pc[h] = "update"
    /\ stock' = [stock EXCEPT ![product[h]] = @ + quantity[h]]
    /\ newStock' = [newStock EXCEPT ![h] = stock[product[h]]]
    /\ pc' = [pc EXCEPT ![h] = "gauge"]
    /\ UNCHANGED <<rows, level, product, quantity, contended, unheard>>

(* UPDATE ... SET stock = stock + $1 RETURNING: a second statement, which     *)
(* re-reads the row but not the check.                                       *)
UpdateStock(h) ==
    /\ pc[h] = "update"
    /\ stock' = [stock EXCEPT ![product[h]] = @ + quantity[h]]
    /\ newStock' = [newStock EXCEPT ![h] = stock[product[h]] + quantity[h]]
    /\ pc' = [pc EXCEPT ![h] = "gauge"]
    /\ UNCHANGED <<rows, level, product, quantity, contended, unheard>>

(* The UPDATE fails, or never ran: 500, or nobody to answer; nothing written.  *)
UpdateFails(h) ==
    /\ pc[h] \in {"update", "orphan"}
    /\ Return(h)
    /\ UNCHANGED <<rows, stock, level, unheard>>

(* The UPDATE takes effect and its handler is told of an error (500), or is     *)
(* gone.  Nobody sets a gauge.                                               *)
UpdateUnheard(h) ==
    /\ pc[h] \in {"update", "orphan"}
    /\ stock' = [stock EXCEPT ![product[h]] = @ + quantity[h]]
    /\ unheard' = unheard \cup {product[h]}
    /\ Return(h)
    /\ UNCHANGED <<rows, level>>

(* inventoryLevel.WithLabelValues(id).Set(p.Stock), then the answer.          *)
SetGauge(h) ==
    /\ pc[h] = "gauge"
    /\ level' = [level EXCEPT ![product[h]] = newStock[h]]
    /\ Return(h)
    /\ UNCHANGED <<rows, stock, unheard>>

(* initInventoryMetrics: a process that starts sets the gauges of the rows it   *)
(* reads, which are not all of them, or none, when its query fails: it only     *)
(* logs a warning, or not even that.                                         *)
InitInventoryMetrics ==
    \E seen \in SUBSET rows :
        level' = [p \in Products |-> IF p \in seen THEN stock[p] ELSE NoReading]

(* The process dies and is started again; the requests it was serving die     *)
(* with it, the database keeps what it committed, and may still be at some of  *)
(* the UPDATEs that were sent (left).                                        *)
Restart(left) ==
    /\ \A h \in left : pc[h] \in {"update", "orphan"}
    /\ pc' = [h \in Handlers |-> IF h \in left THEN "orphan" ELSE "idle"]
    /\ product' = [h \in Handlers |-> IF h \in left THEN product[h] ELSE AnyProduct]
    /\ quantity' = [h \in Handlers |-> IF h \in left THEN quantity[h] ELSE 0]
    /\ newStock' = [h \in Handlers |-> 0]
    /\ InitInventoryMetrics
    /\ unheard' = {}
    /\ UNCHANGED <<rows, stock, contended>>

Next ==
    \/ \E left \in SUBSET Handlers : Restart(left)
    \/ \E h \in Handlers :
          \/ \E p \in Products, q \in 0 .. MaxStock : InsertProduct(h, p, q) \/ InsertUnheard(h, p, q)
          \/ \E p \in Products, q \in Quantities : ReceiveUpdate(h, p, q)
          \/ SelectStock(h)
          \/ RefuseUpdate(h)
          \/ UpdateStock(h)
          \/ UpdateFails(h)
          \/ UpdateUnheard(h)
          \/ SetGauge(h)

Spec == Init /\ [][Next]_vars

-----------------------------------------------------------------------------
(* The reservations that passed the check on p and have not been written.     *)
Pending(p) == {h \in Handlers : pc[h] \in {"update", "orphan"} /\ product[h] = p
                                /\ quantity[h] < 0}

(* Stock never goes negative: what the check in updateStockHandler is for.    *)
NeverOversold == \A p \in rows : stock[p] >= 0

(* It does hold of a product whose requests have never overlapped, whatever    *)
(* happens to other products, and across restarts.                           *)
SerialNeverOversold == \A p \in rows \ contended : stock[p] >= 0

(* What the check gives when requests overlap: every handler but the last to  *)
(* pass the check can take its whole quantity on top of a stock that is       *)
(* already spoken for, so n concurrent handlers oversell by at most           *)
(* (n - 1) * MaxQty units, however many requests were served before.          *)
OversellBound == MaxQty * (Cardinality(Handlers) - 1)

BoundedOversell == \A p \in rows : stock[p] >= - OversellBound

(* Why BoundedOversell holds, inductively: there is a handler w (the last one *)
(* to pass the check on p) such that even if w and all the other pending      *)
(* reservations are written, at the largest quantity, the bound is kept.      *)
Owed(w, p) ==
    MaxQty * Cardinality(Pending(p) \ {w})
        - (IF w \in Pending(p) THEN quantity[w] ELSE 0)

OversellInv ==
    \A p \in Products : \E w \in Handlers : stock[p] - Owed(w, p) >= - OversellBound

(* Only the stock of an inserted row is ever written, and only its gauge set.   *)
RowsInv ==
    /\ \A p \in Products \ rows : stock[p] = 0 /\ level[p] = NoReading
    /\ \A h \in Handlers : pc[h] \in {"update", "orphan", "gauge"} => product[h] \in rows

(* Between two requests for a product, its gauge shows the stock of its row    *)
(* (or was never set): "Current inventory level for products".                *)
AtRest(p) == \A h \in Handlers : pc[h] = "idle" \/ product[h] # p

GaugeCurrent == \A p \in rows : AtRest(p) => level[p] \in {stock[p], NoReading}

(* This, too, only holds of a product whose requests have never overlapped, and  *)
(* until a write goes unheard; the next start of the process makes up for that. *)
SerialGaugeCurrent ==
    \A p \in rows \ (contended \cup unheard) : AtRest(p) => level[p] \in {stock[p], NoReading}
=============================================================================
