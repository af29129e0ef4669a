-------------------------- MODULE OrderBookProofs --------------------------
(***************************************************************************)
(* Proofs about OrderBook for every set of orders, products and customers, *)
(* every initial quantity and every batch size.  The set of order ids may  *)
(* be infinite: that the orders table is finite is part of TypeOK.         *)
(***************************************************************************)
EXTENDS OrderBook, FiniteSetTheorems, TLAPS

(* Inductive invariant.  Accounting and num_reserved <= quantity carry     *)
(* each other: without the first a release could drive the counter below   *)
(* the number of live orders, without the second a sale could drive        *)
(* quantity below zero.                                                    *)
CheckHolds == \A p \in DOMAIN stock : stock[p].num_reserved <= stock[p].quantity

IInv == TypeOK /\ Accounting /\ CheckHolds

----------------------------------------------------------------------------
(* The orders of one product, live or completed, are finitely many.        *)
LEMMA FiniteOrders ==
    ASSUME TypeOK, NEW p
    PROVE  /\ IsFiniteSet(LiveOf(p)) /\ Cardinality(LiveOf(p)) \in Nat
           /\ IsFiniteSet(CompletedOf(p)) /\ Cardinality(CompletedOf(p)) \in Nat
  <1>1. LiveOf(p) \in SUBSET DOMAIN orders /\ CompletedOf(p) \in SUBSET DOMAIN orders
    BY DEF LiveOf, CompletedOf
  <1>2. IsFiniteSet(LiveOf(p)) /\ IsFiniteSet(CompletedOf(p))
    BY <1>1, FS_Subset DEF TypeOK
  <1> QED
    BY <1>2, FS_CardinalityType

(* Taking a subset out of a finite set takes its size off the cardinality. *)
LEMMA DifferenceCardinality ==
    ASSUME NEW A, IsFiniteSet(A), NEW B \in SUBSET A
    PROVE  /\ Cardinality(A \ B) = Cardinality(A) - Cardinality(B)
           /\ Cardinality(B) <= Cardinality(A)
  <1>1. IsFiniteSet(B) /\ Cardinality(B) <= Cardinality(A) /\ IsFiniteSet(A \ B)
    <2>1. (A \ B) \in SUBSET A
      OBVIOUS
    <2> QED
      BY <2>1, FS_Subset
  <1>2. (A \ B) \cup B = A /\ (A \ B) \cap B = {}
    OBVIOUS
  <1>3. Cardinality(A) = Cardinality(A \ B) + Cardinality(B) - Cardinality({})
    BY <1>1, <1>2, FS_Union
  <1>4. Cardinality(A) \in Nat /\ Cardinality(B) \in Nat /\ Cardinality(A \ B) \in Nat
    BY <1>1, FS_CardinalityType
  <1> QED
    BY <1>1, <1>3, <1>4, FS_EmptySet

(* One order gives up its unit: it leaves the live orders of its product   *)
(* and joins the completed ones exactly when its new status says so.       *)
LEMMA LeaveLive ==
    ASSUME TypeOK, NEW o \in DOMAIN orders, orders[o].status \in LiveStatus,
           NEW st \in Terminal, orders' = [orders EXCEPT ![o] = Marked(@, st)],
           NEW p
    PROVE  /\ p # orders[o].product => LiveOf(p)' = LiveOf(p) /\ CompletedOf(p)' = CompletedOf(p)
           /\ p = orders[o].product =>
                /\ Cardinality(LiveOf(p)') = Cardinality(LiveOf(p)) - 1
                /\ Cardinality(LiveOf(p)) > 0
                /\ Cardinality(CompletedOf(p)') =
                     IF st = "completed" THEN Cardinality(CompletedOf(p)) + 1
                                         ELSE Cardinality(CompletedOf(p))
  <1>1. /\ DOMAIN orders' = DOMAIN orders
        /\ \A x \in DOMAIN orders : /\ orders'[x].product = orders[x].product
                                    /\ orders'[x].status = IF x = o THEN st ELSE orders[x].status
    BY DEF TypeOK, Order, Marked
  <1>2. CASE p # orders[o].product
    BY <1>1, <1>2 DEF LiveOf, CompletedOf
  <1>3. CASE p = orders[o].product
    <2>1. o \in LiveOf(p) /\ o \notin CompletedOf(p)
      BY <1>3 DEF LiveOf, CompletedOf, LiveStatus
    <2>2. LiveOf(p)' = LiveOf(p) \ {o}
      BY <1>1, <1>3 DEF LiveOf, Terminal
    <2>3. CompletedOf(p)' = IF st = "completed" THEN CompletedOf(p) \cup {o} ELSE CompletedOf(p)
      BY <1>1, <1>3, <2>1 DEF CompletedOf
    <2>4. Cardinality(LiveOf(p)) # 0
      BY <2>1, FiniteOrders, FS_EmptySet
    <2>5. Cardinality(LiveOf(p) \ {o}) = Cardinality(LiveOf(p)) - 1
      BY <2>1, FiniteOrders, FS_RemoveElement
    <2>6. Cardinality(CompletedOf(p) \cup {o}) = Cardinality(CompletedOf(p)) + 1
      BY <2>1, FiniteOrders, FS_AddElement
    <2> QED
      BY <1>3, <2>2, <2>3, <2>4, <2>5, <2>6, FiniteOrders
  <1> QED
    BY <1>2, <1>3

(* A step that keeps every order's product and status keeps both sets.     *)
LEMMA SameSets ==
    ASSUME DOMAIN orders' = DOMAIN orders,
           \A x \in DOMAIN orders : /\ orders'[x].product = orders[x].product
                                    /\ orders'[x].status \in LiveStatus <=> orders[x].status \in LiveStatus
                                    /\ orders'[x].status = "completed" <=> orders[x].status = "completed",
           NEW p
    PROVE  LiveOf(p)' = LiveOf(p) /\ CompletedOf(p)' = CompletedOf(p)
  BY DEF LiveOf, CompletedOf

----------------------------------------------------------------------------
(* The empty database satisfies the inductive invariant.                   *)
LEMMA InitInv == Init => IInv
  <1> SUFFICES ASSUME Init PROVE IInv
    OBVIOUS
  <1>1. TypeOK
    BY FS_EmptySet DEF Init, TypeOK
  <1>2. Accounting /\ CheckHolds
    BY DEF Init, Accounting, CheckHolds
  <1> QED
    BY <1>1, <1>2 DEF IInv

(* The three ways an order gives up its unit, CancelOrder, FailPayment and *)
(* FulfillPayment, once for all.                                           *)
LEMMA GiveUpInv ==
    ASSUME IInv, NEW o \in DOMAIN orders, orders[o].status \in LiveStatus, NEW st \in Terminal,
           orders' = [orders EXCEPT ![o] = Marked(@, st)],
           stock' = [stock EXCEPT ![orders[o].product] =
                        IF st = "completed" THEN Committed(@) ELSE Released(@, 1)],
           initial' = initial, overdue' = overdue
    PROVE  IInv'
  <1> DEFINE pr == orders[o].product
  <1> USE DEF IInv
  <1>1. pr \in DOMAIN stock /\ stock[pr] \in Stock /\ stock[pr].num_reserved > 0
    BY LeaveLive DEF TypeOK, Accounting
  <1>2. /\ DOMAIN stock' = DOMAIN stock
        /\ \A p \in DOMAIN stock : p # pr => stock'[p] = stock[p]
        /\ stock'[pr].num_reserved = stock[pr].num_reserved - 1
        /\ stock'[pr].quantity = IF st = "completed" THEN stock[pr].quantity - 1 ELSE stock[pr].quantity
    BY <1>1 DEF TypeOK, Stock, Committed, Released
  <1>3. stock[pr].num_reserved <= stock[pr].quantity
    BY <1>1 DEF CheckHolds
  <1>4. TypeOK'
    <2>1. orders' \in [DOMAIN orders -> Order]
      BY DEF TypeOK, Order, Marked, Terminal
    <2>2. \A x \in DOMAIN orders : orders'[x].product = orders[x].product
      BY DEF TypeOK, Order, Marked
    <2>3. stock' \in [DOMAIN stock -> Stock]
      <3>1. Committed(stock[pr]) \in Stock /\ Released(stock[pr], 1) \in Stock
        <4>1. /\ stock[pr].num_reserved \in Nat /\ stock[pr].quantity \in Nat
              /\ stock[pr].num_reserved - 1 \in Nat /\ stock[pr].quantity - 1 \in Nat
          BY <1>1, <1>3 DEF Stock
        <4> QED
          BY <1>1, <4>1 DEF Stock, Committed, Released
      <3> QED
        BY <3>1, <1>1 DEF TypeOK
    <2> QED
      BY <2>1, <2>2, <2>3 DEF TypeOK
  <1>5. Accounting'
    <2> SUFFICES ASSUME NEW p \in DOMAIN stock
                 PROVE  /\ stock'[p].num_reserved = Cardinality(LiveOf(p)')
                        /\ stock'[p].quantity + Cardinality(CompletedOf(p)') = initial[p]
      BY <1>2 DEF Accounting
    <2>1. CASE p # pr
      <3>1. LiveOf(p)' = LiveOf(p) /\ CompletedOf(p)' = CompletedOf(p)
        BY <2>1, LeaveLive
      <3> QED
        BY <2>1, <3>1, <1>2 DEF Accounting
    <2>2. CASE p = pr
      <3>1. /\ Cardinality(LiveOf(p)') = Cardinality(LiveOf(p)) - 1
            /\ Cardinality(CompletedOf(p)') = IF st = "completed" THEN Cardinality(CompletedOf(p)) + 1
                                                                  ELSE Cardinality(CompletedOf(p))
        BY <2>2, LeaveLive
      <3> QED
        BY <2>2, <3>1, <1>1, <1>2, FiniteOrders DEF Accounting, Stock
    <2> QED
      BY <2>1, <2>2
  <1>6. CheckHolds'
    BY <1>1, <1>2, <1>3 DEF CheckHolds, Stock
  <1> QED
    BY <1>4, <1>5, <1>6

(* A new product has no orders, and its stock row starts at its quantity.  *)
LEMMA CreateProductInv ==
    ASSUME IInv, NEW p \in Product, NEW q \in 0..MaxQuantity, CreateProduct(p, q)
    PROVE  IInv'
  <1> USE DEF IInv
  <1>1. /\ DOMAIN stock' = DOMAIN stock \cup {p} /\ p \notin DOMAIN stock
        /\ stock'[p] = [quantity |-> q, num_reserved |-> 0] /\ initial'[p] = q
        /\ \A x \in DOMAIN stock : stock'[x] = stock[x] /\ initial'[x] = initial[x]
        /\ orders' = orders /\ overdue' = overdue
    BY DEF CreateProduct, Insert, TypeOK
  <1>2. TypeOK'
    <2>1. stock' \in [DOMAIN stock' -> Stock]
      BY <1>1, QuantityAssumption DEF CreateProduct, Insert, TypeOK, Stock
    <2>2. initial' \in [DOMAIN stock' -> 0..MaxQuantity]
      BY <1>1 DEF CreateProduct, Insert, TypeOK
    <2> QED
      BY <1>1, <2>1, <2>2 DEF TypeOK
  <1>3. Accounting'
    <2>1. LiveOf(p) = {} /\ CompletedOf(p) = {}
      BY <1>1 DEF LiveOf, CompletedOf, TypeOK
    <2>2. \A x : LiveOf(x)' = LiveOf(x) /\ CompletedOf(x)' = CompletedOf(x)
      BY <1>1 DEF LiveOf, CompletedOf
    <2> QED
      <3> SUFFICES ASSUME NEW x \in DOMAIN stock'
                   PROVE  /\ stock'[x].num_reserved = Cardinality(LiveOf(x)')
                          /\ stock'[x].quantity + Cardinality(CompletedOf(x)') = initial'[x]
        BY DEF Accounting
      <3>1. CASE x = p
        BY <3>1, <1>1, <2>1, <2>2, FS_EmptySet
      <3>2. CASE x # p
        BY <3>2, <1>1, <2>2 DEF Accounting
      <3> QED
        BY <3>1, <3>2
  <1>4. CheckHolds'
    BY <1>1 DEF CheckHolds
  <1> QED
    BY <1>2, <1>3, <1>4

(* A reservation adds one live order and one to num_reserved; the guard of *)
(* ReserveStock is what keeps num_reserved within quantity.                *)
LEMMA ReserveInv ==
    ASSUME IInv, NEW o \in OrderId, NEW c \in Customer, NEW p \in Product, Reserve(o, c, p)
    PROVE  IInv'
  <1> USE DEF IInv
  <1>1. /\ o \notin DOMAIN orders /\ DOMAIN orders' = DOMAIN orders \cup {o}
        /\ orders'[o] = NewOrder(c, p) /\ \A x \in DOMAIN orders : orders'[x] = orders[x]
        /\ p \in DOMAIN stock /\ stock[p] \in Stock /\ DOMAIN stock' = DOMAIN stock
        /\ \A x \in DOMAIN stock : x # p => stock'[x] = stock[x]
        /\ initial' = initial /\ overdue' = overdue
    BY DEF Reserve, Insert, TypeOK
  <1>2. /\ stock'[p].num_reserved = stock[p].num_reserved + 1
        /\ stock'[p].quantity = stock[p].quantity
        /\ stock[p].quantity > stock[p].num_reserved
    BY <1>1 DEF Reserve, Reserved, Available, TypeOK, Stock
  <1>3. TypeOK'
    <2>1. NewOrder(c, p) \in Order /\ NewOrder(c, p).product = p
      BY DEF NewOrder, Order, Status
    <2>2. orders' \in [DOMAIN orders' -> Order]
      BY <1>1, <2>1 DEF Reserve, Insert, TypeOK
    <2>3. IsFiniteSet(DOMAIN orders')
      BY <1>1, FS_AddElement DEF TypeOK
    <2>4. stock' \in [DOMAIN stock -> Stock]
      <3>1. Reserved(stock[p]) \in Stock
        BY <1>1 DEF Reserved, Stock
      <3> QED
        BY <3>1, <1>1 DEF Reserve, TypeOK
    <2> QED
      BY <1>1, <2>1, <2>2, <2>3, <2>4 DEF TypeOK
  <1>4. Accounting'
    <2>1. \A x : CompletedOf(x)' = CompletedOf(x)
      BY <1>1 DEF CompletedOf, NewOrder
    <2>2. \A x : x # p => LiveOf(x)' = LiveOf(x)
      BY <1>1 DEF LiveOf, NewOrder
    <2>3. LiveOf(p)' = LiveOf(p) \cup {o} /\ o \notin LiveOf(p)
      BY <1>1 DEF LiveOf, NewOrder, LiveStatus
    <2>4. Cardinality(LiveOf(p)') = Cardinality(LiveOf(p)) + 1
      BY <2>3, FiniteOrders, FS_AddElement
    <2> QED
      BY <1>1, <1>2, <2>1, <2>2, <2>4 DEF Accounting
  <1>5. CheckHolds'
    BY <1>1, <1>2 DEF CheckHolds, Stock
  <1> QED
    BY <1>3, <1>4, <1>5

(* Checkout moves an order between two live statuses: no unit moves.       *)
LEMMA MarkInv ==
    ASSUME IInv, NEW o \in OrderId, MarkOrderAwaitingPayment(o)
    PROVE  IInv'
  <1> USE DEF IInv
  <1>1. /\ o \in DOMAIN orders /\ DOMAIN orders' = DOMAIN orders
        /\ orders' \in [DOMAIN orders -> Order]
        /\ \A x \in DOMAIN orders :
              /\ orders'[x].product = orders[x].product
              /\ orders'[x].status = IF x = o THEN "awaiting_payment" ELSE orders[x].status
        /\ orders[o].status = "pending"
        /\ stock' = stock /\ initial' = initial /\ overdue' \subseteq overdue
    BY DEF MarkOrderAwaitingPayment, TypeOK, Order, Status
  <1>2. \A p : LiveOf(p)' = LiveOf(p) /\ CompletedOf(p)' = CompletedOf(p)
    BY <1>1, SameSets DEF LiveStatus
  <1> QED
    BY <1>1, <1>2 DEF TypeOK, Accounting, CheckHolds

(* A sweep takes a batch out of the live orders, and off the counter of    *)
(* each product as many units as the batch has orders of that product.     *)
LEMMA SweepInv ==
    ASSUME IInv, NEW S \in SUBSET DOMAIN orders, SweepExpired(S)
    PROVE  IInv'
  <1> USE DEF IInv
  <1>1. /\ DOMAIN orders' = DOMAIN orders
        /\ orders' \in [DOMAIN orders -> Order]
        /\ \A x \in DOMAIN orders :
              /\ orders'[x].product = orders[x].product
              /\ orders'[x].status = IF x \in S THEN "expired" ELSE orders[x].status
        /\ \A x \in S : orders[x].status \in LiveStatus
        /\ initial' = initial /\ overdue' = overdue
    BY DEF SweepExpired, Due, Live, TypeOK, Order, Status, Marked
  <1>2. \A p : /\ LiveOf(p)' = LiveOf(p) \ OfProduct(S, p) /\ CompletedOf(p)' = CompletedOf(p)
               /\ OfProduct(S, p) \in SUBSET LiveOf(p)
    BY <1>1 DEF LiveOf, CompletedOf, OfProduct, LiveStatus
  <1>3. \A p : /\ Cardinality(LiveOf(p)') = Cardinality(LiveOf(p)) - Cardinality(OfProduct(S, p))
               /\ Cardinality(OfProduct(S, p)) <= Cardinality(LiveOf(p))
               /\ Cardinality(OfProduct(S, p)) \in Nat
    BY <1>2, FiniteOrders, DifferenceCardinality, FS_Subset, FS_CardinalityType
  <1>4. /\ DOMAIN stock' = DOMAIN stock
        /\ stock' \in [DOMAIN stock -> Stock]
        /\ \A p \in DOMAIN stock :
              /\ stock[p] \in Stock
              /\ stock'[p].num_reserved = stock[p].num_reserved - Cardinality(OfProduct(S, p))
              /\ stock'[p].quantity = stock[p].quantity
    <2>1. \A p \in DOMAIN stock :
              /\ stock[p] \in Stock
              /\ Released(stock[p], Cardinality(OfProduct(S, p))) \in Stock
      BY <1>3 DEF SweepExpired, TypeOK, Released, Stock
    <2> QED
      BY <2>1 DEF SweepExpired, TypeOK, Released, Stock
  <1>5. TypeOK'
    BY <1>1, <1>4 DEF TypeOK
  <1>6. Accounting'
    <2> SUFFICES ASSUME NEW p \in DOMAIN stock
                 PROVE  /\ stock'[p].num_reserved = Cardinality(LiveOf(p)')
                        /\ stock'[p].quantity + Cardinality(CompletedOf(p)') = initial[p]
      BY <1>1, <1>4 DEF Accounting
    <2>1. CompletedOf(p)' = CompletedOf(p)
      BY <1>2
    <2> QED
      BY <2>1, <1>3, <1>4 DEF Accounting
  <1>7. CheckHolds'
    BY <1>3, <1>4 DEF CheckHolds, Stock
  <1> QED
    BY <1>5, <1>6, <1>7

(* The clock changes neither table.                                        *)
LEMMA ElapseInv ==
    ASSUME IInv, NEW o \in OrderId, Elapse(o)
    PROVE  IInv'
  <1>1. /\ orders' = orders /\ stock' = stock /\ initial' = initial
        /\ overdue' \subseteq overdue \cup DOMAIN orders
    BY DEF Elapse, Live
  <1> QED
    BY <1>1 DEF IInv, TypeOK, Accounting, CheckHolds, LiveOf, CompletedOf

(* IInv is inductive: one step per action of Next.                         *)
LEMMA NextInv == IInv /\ [Next]_vars => IInv'
  <1> SUFFICES ASSUME IInv, [Next]_vars PROVE IInv'
    OBVIOUS
  <1>1. ASSUME NEW p \in Product, NEW q \in 0..MaxQuantity, CreateProduct(p, q) PROVE IInv'
    BY <1>1, CreateProductInv
  <1>2. ASSUME NEW o \in OrderId, NEW c \in Customer, NEW p \in Product, Reserve(o, c, p) PROVE IInv'
    BY <1>2, ReserveInv
  <1>3. ASSUME NEW o \in OrderId, MarkOrderAwaitingPayment(o) PROVE IInv'
    BY <1>3, MarkInv
  <1>4. ASSUME NEW o \in OrderId, CancelOrder(o) PROVE IInv'
    BY <1>4, GiveUpInv DEF CancelOrder, Release, Terminal, Status, LiveStatus
  <1>5. ASSUME NEW o \in OrderId, FulfillPayment(o) PROVE IInv'
    BY <1>5, GiveUpInv DEF FulfillPayment, Terminal, Status, LiveStatus
  <1>6. ASSUME NEW o \in OrderId, FailPayment(o) PROVE IInv'
    BY <1>6, GiveUpInv DEF FailPayment, Release, Terminal, Status, LiveStatus
  <1>7. ASSUME NEW S \in SUBSET DOMAIN orders, SweepExpired(S) PROVE IInv'
    BY <1>7, SweepInv
  <1>8. ASSUME NEW o \in OrderId, Elapse(o) PROVE IInv'
    BY <1>8, ElapseInv
  <1>9. CASE UNCHANGED vars
    BY <1>9 DEF vars, IInv, TypeOK, Accounting, CheckHolds, LiveOf, CompletedOf
  <1> QED
    BY <1>1, <1>2, <1>3, <1>4, <1>5, <1>6, <1>7, <1>8, <1>9 DEF Next

(* The inductive invariant gives the bound on what is sold: the live and   *)
(* the completed orders of a product fit in the quantity it started with.  *)
LEMMA InvImpliesNoOversell == IInv => NoOversell
  <1> SUFFICES ASSUME IInv, NEW p \in DOMAIN stock
               PROVE  /\ stock[p].num_reserved <= stock[p].quantity
                      /\ Cardinality(LiveOf(p)) + Cardinality(CompletedOf(p)) <= initial[p]
    BY DEF NoOversell
  <1>1. stock[p].num_reserved \in Nat /\ stock[p].quantity \in Nat
    BY DEF IInv, TypeOK, Stock
  <1> QED
    BY <1>1, FiniteOrders DEF IInv, Accounting, CheckHolds

(* What one step can do to one order that was there before it.             *)
OneOrderStep(o) ==
    \/ orders'[o] = orders[o]
    \/ /\ orders[o].status = "pending"
       /\ orders'[o] = [orders[o] EXCEPT !.status = "awaiting_payment", !.intent = TRUE]
    \/ orders[o].status = "pending" /\ orders'[o] = Marked(orders[o], "cancelled")
    \/ orders[o].status = "awaiting_payment" /\ orders'[o] = Marked(orders[o], "completed")
    \/ orders[o].status = "awaiting_payment" /\ orders'[o] = Marked(orders[o], "failed")
    \/ orders[o].status \in LiveStatus /\ orders'[o] = Marked(orders[o], "expired")

(* Every step of the service is, for each order, one of these moves.       *)
LEMMA StepsOfOneOrder ==
    ASSUME TypeOK, [Next]_vars, NEW o \in DOMAIN orders
    PROVE  o \in DOMAIN orders' /\ OneOrderStep(o)
  <1> USE DEF OneOrderStep
  <1>1. ASSUME NEW p \in Product, NEW q \in 0..MaxQuantity, CreateProduct(p, q)
        PROVE  orders' = orders
    BY <1>1 DEF CreateProduct
  <1>2. ASSUME NEW x \in OrderId, NEW c \in Customer, NEW p \in Product, Reserve(x, c, p)
        PROVE  o \in DOMAIN orders' /\ orders'[o] = orders[o]
    BY <1>2 DEF Reserve, Insert
  <1>3. ASSUME NEW x \in OrderId, MarkOrderAwaitingPayment(x)
        PROVE  o \in DOMAIN orders' /\ OneOrderStep(o)
    BY <1>3 DEF MarkOrderAwaitingPayment, TypeOK, Order
  <1>4. ASSUME NEW x \in OrderId, CancelOrder(x)
        PROVE  o \in DOMAIN orders' /\ OneOrderStep(o)
    BY <1>4 DEF CancelOrder, Release
  <1>5. ASSUME NEW x \in OrderId, FulfillPayment(x)
        PROVE  o \in DOMAIN orders' /\ OneOrderStep(o)
    BY <1>5 DEF FulfillPayment
  <1>6. ASSUME NEW x \in OrderId, FailPayment(x)
        PROVE  o \in DOMAIN orders' /\ OneOrderStep(o)
    BY <1>6 DEF FailPayment, Release
  <1>7. ASSUME NEW S \in SUBSET DOMAIN orders, SweepExpired(S)
        PROVE  o \in DOMAIN orders' /\ OneOrderStep(o)
    BY <1>7 DEF SweepExpired, Due, Live
  <1>8. ASSUME NEW x \in OrderId, Elapse(x)
        PROVE  orders' = orders
    BY <1>8 DEF Elapse
  <1>9. CASE UNCHANGED vars
    BY <1>9 DEF vars
  <1> QED
    BY <1>1, <1>2, <1>3, <1>4, <1>5, <1>6, <1>7, <1>8, <1>9 DEF Next

(* A step of the service is a step of the lifecycle.                       *)
LEMMA StepLifecycle == TypeOK /\ [Next]_vars => [LifecycleStep]_vars
  <1> SUFFICES ASSUME TypeOK, [Next]_vars, NEW o \in DOMAIN orders
               PROVE  /\ o \in DOMAIN orders'
                      /\ orders'[o].product = orders[o].product
                      /\ orders'[o].customer = orders[o].customer
                      /\ orders[o].status \in Terminal => orders'[o] = orders[o]
                      /\ orders'[o].status = "completed" => orders[o].status \in {"awaiting_payment", "completed"}
                      /\ orders[o].intent => orders'[o].intent
    BY DEF LifecycleStep
  <1>1. o \in DOMAIN orders' /\ OneOrderStep(o) /\ orders[o] \in Order
    BY StepsOfOneOrder DEF TypeOK
  <1> QED
    BY <1>1 DEF OneOrderStep, Marked, Order, Terminal, LiveStatus

(* A row that appears in a step is a fresh pending order without intent.   *)
LEMMA NewRows ==
    ASSUME TypeOK, [Next]_vars, NEW o \in DOMAIN orders' \ DOMAIN orders
    PROVE  orders'[o].status = "pending" /\ orders'[o].intent = FALSE
  <1>1. \E x \in OrderId, c \in Customer, p \in Product : Reserve(x, c, p)
    BY DEF Next, vars, CreateProduct, MarkOrderAwaitingPayment, CancelOrder, FailPayment, Release,
           FulfillPayment, SweepExpired, Elapse
  <1> QED
    BY <1>1 DEF Reserve, Insert, NewOrder

(* Intents and statuses agree after a step if they agreed before it.       *)
LEMMA StepIntent == TypeOK /\ IntentAgreesWithStatus /\ [Next]_vars => IntentAgreesWithStatus'
  <1> SUFFICES ASSUME TypeOK, IntentAgreesWithStatus, [Next]_vars, NEW o \in DOMAIN orders'
               PROVE  /\ orders'[o].status \in {"pending", "cancelled"} => ~orders'[o].intent
                      /\ orders'[o].status \in {"awaiting_payment", "completed", "failed"} => orders'[o].intent
    BY DEF IntentAgreesWithStatus
  <1>1. CASE o \notin DOMAIN orders
    BY <1>1, NewRows
  <1>2. CASE o \in DOMAIN orders
    <2>1. OneOrderStep(o) /\ orders[o] \in Order
      BY <1>2, StepsOfOneOrder DEF TypeOK
    <2> QED
      BY <1>2, <2>1 DEF OneOrderStep, Marked, Order, LiveStatus, IntentAgreesWithStatus
  <1> QED
    BY <1>1, <1>2

----------------------------------------------------------------------------
(* The tables keep their types under every operation of the service.       *)
THEOREM TypeCorrect == Spec => []TypeOK
  <1>1. IInv => TypeOK
    BY DEF IInv
  <1> QED
    BY <1>1, InitInv, NextInv, PTL DEF Spec

(* num_reserved counts exactly the orders that hold a unit, and quantity   *)
(* exactly the units not yet sold, in every reachable state.               *)
THEOREM AccountingHolds == Spec => []Accounting
  <1>1. IInv => Accounting
    BY DEF IInv
  <1> QED
    BY <1>1, InitInv, NextInv, PTL DEF Spec

(* No product is ever sold or held beyond the quantity it was created      *)
(* with, however many buyers compete for it.                               *)
THEOREM NeverOversold == Spec => []NoOversell
  <1> QED
    BY InvImpliesNoOversell, InitInv, NextInv, PTL DEF Spec

(* An intent is attached to an order exactly when checkout marked it, so a *)
(* payment never leads to a pending or a cancelled order.                  *)
THEOREM IntentsAgree == Spec => []IntentAgreesWithStatus
  <1>1. Init => IntentAgreesWithStatus
    BY DEF Init, IntentAgreesWithStatus
  <1> QED
    BY <1>1, TypeCorrect, StepIntent, PTL DEF Spec

(* Statuses are final once terminal, completion comes only from            *)
(* awaiting_payment, and rows never change hands.                          *)
THEOREM LifecycleHolds == Spec => Lifecycle
  <1> QED
    BY TypeCorrect, StepLifecycle, PTL DEF Spec, Lifecycle
=============================================================================
