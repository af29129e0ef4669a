--------------------------- MODULE OrderTxProofs ---------------------------
(***************************************************************************)
(* Proofs about OrderTx for every set of handlers, workers, sweepers,      *)
(* products and customers, every scope of calls and strategies, and every  *)
(* value of the bounds: the interleaved statements implement OrderBook,    *)
(* the backstops of the stock table never fire, no verdict on a payment is *)
(* wrong, and with one sweeper the row locks never form a cycle.           *)
(***************************************************************************)
EXTENDS OrderTx, FiniteSetTheorems, TLAPS

(* The theorems of OrderBook, about the committed tables.                  *)
P == INSTANCE OrderBookProofs WITH
        OrderId <- OrderId, Product <- Product, Customer <- Customer,
        MaxQuantity <- MaxQuantity, BatchSize <- BatchSize,
        orders <- orders, stock <- stock, initial <- initial, overdue <- overdue

----------------------------------------------------------------------------
(* The inductive invariant.  The committed tables satisfy what OrderBook   *)
(* promises of them.                                                       *)
Book ==
    /\ B!TypeOK
    /\ B!Accounting
    /\ B!NoOversell
    /\ B!IntentAgreesWithStatus

Steps == {"idle", "commit", "reserve_stock", "create_order", "reserve_and_create",
          "create_intent", "mark", "guard", "unit", "classify"}

(* Every process has its control state and its written rows.               *)
Table(f) == f = [k \in DOMAIN f |-> f[k]]

Shape ==
    /\ pc \in [Proc -> Steps]
    /\ DOMAIN job = Proc /\ DOMAIN wo = Proc /\ DOMAIN ws = Proc /\ DOMAIN todo = Proc
    /\ \A q \in Proc : Table(wo[q]) /\ Table(ws[q])

(* Ids are handed out below seq, and there is one left for every           *)
(* reservation under way that has not taken its own yet.                   *)
UnnumberedProcs == {q \in Proc : Unnumbered(q)}

Numbering ==
    /\ seq \in Nat /\ seq >= 1
    /\ IsFiniteSet(UnnumberedProcs)
    /\ seq + Cardinality(UnnumberedProcs) <= MaxOrders + 1
    /\ DOMAIN orders \subseteq 1..(seq - 1)
    /\ \A q \in Proc : DOMAIN wo[q] \subseteq 1..(seq - 1)

(* A written row is locked: no two transactions hold the same one.         *)
Exclusive ==
    \A q, r \in Proc : q # r => /\ DOMAIN wo[q] \cap DOMAIN wo[r] = {}
                                /\ DOMAIN ws[q] \cap DOMAIN ws[r] = {}

----------------------------------------------------------------------------
(* Where a process can be, and what it has written by then.                *)
NoOrders(q) == DOMAIN wo[q] = {}
NoStock(q) == DOMAIN ws[q] = {}
Clean(q) == NoOrders(q) /\ NoStock(q) /\ todo[q] = <<>>

Resting(q) == pc[q] = "idle" /\ Clean(q)

(* CreateProduct: the new stock row is written, the product is not there.  *)
Creating(q) ==
    /\ pc[q] = "commit" /\ job[q].kind = "create"
    /\ NoOrders(q) /\ todo[q] = <<>>
    /\ \E p \in Product \ DOMAIN stock, n \in 0..MaxQuantity :
        /\ DOMAIN ws[q] = {p}
        /\ ws[q][p] = [quantity |-> n, num_reserved |-> 0]

(* ReserveStock is done: one unit of the committed row is taken.           *)
UnitTaken(q) ==
    /\ DOMAIN ws[q] = {job[q].product}
    /\ B!Available(stock[job[q].product])
    /\ ws[q][job[q].product] = B!Reserved(stock[job[q].product])

(* CreateOrder is done: the order has an id nobody else has.               *)
OrderWritten(q) ==
    \E o \in OrderId \ DOMAIN orders :
        /\ DOMAIN wo[q] = {o}
        /\ wo[q][o] = B!NewOrder(job[q].caller, job[q].product)

Reserving(q) ==
    /\ job[q].kind = "reserve" /\ todo[q] = <<>>
    /\ job[q].caller \in Customer /\ job[q].product \in DOMAIN stock
    /\ \/ pc[q] = "reserve_stock" /\ job[q].arm = "baseline" /\ NoOrders(q) /\ NoStock(q)
       \/ pc[q] = "create_order" /\ job[q].arm = "baseline" /\ NoOrders(q) /\ UnitTaken(q)
       \/ pc[q] = "create_order" /\ job[q].arm = "reserve-last" /\ NoOrders(q) /\ NoStock(q)
       \/ pc[q] = "reserve_stock" /\ job[q].arm = "reserve-last" /\ OrderWritten(q) /\ NoStock(q)
       \/ pc[q] = "reserve_and_create" /\ job[q].arm = "cte" /\ NoOrders(q) /\ NoStock(q)
       \/ pc[q] = "commit" /\ job[q].arm \in {"baseline", "reserve-last"} /\ OrderWritten(q) /\ UnitTaken(q)

CheckingOut(q) ==
    /\ pc[q] \in {"create_intent", "mark"} /\ job[q].kind = "checkout"
    /\ job[q].order \in DOMAIN orders
    /\ pc[q] = "mark" => job[q].order \in intents
    /\ Clean(q)

Guarding(q) ==
    /\ pc[q] = "guard" /\ job[q].kind \in {"cancel", "fulfill", "fail"}
    /\ job[q].order \in DOMAIN orders
    /\ job[q].kind = "fulfill" => orders[job[q].order].intent
    /\ Clean(q)

(* CompleteOrder has refused an order that has an intent: its status is    *)
(* terminal and not cancelled, for good.                                   *)
Classifying(q) ==
    /\ pc[q] = "classify" /\ job[q].kind = "fulfill"
    /\ job[q].order \in DOMAIN orders
    /\ orders[job[q].order].status \in {"completed", "failed", "expired"}
    /\ Clean(q)

(* The orders whose unit has been moved, and those whose is still to be.   *)
ToMove(q) == {todo[q][i] : i \in 1..Len(todo[q])}
Moved(q) == DOMAIN wo[q] \ ToMove(q)
MovedOf(q, p) == {o \in Moved(q) : wo[q][o].product = p}

From(kind) == IF kind = "sweep" THEN B!LiveStatus ELSE {GuardStatus(kind)}
To(kind) == IF kind = "sweep" THEN "expired" ELSE NewStatus(kind)

(* A stock row n units of which have been released, or sold.               *)
Less(kind, row, n) ==
    [quantity |-> IF kind = "fulfill" THEN row.quantity - n ELSE row.quantity,
     num_reserved |-> row.num_reserved - n]

(* The rows of orders a transaction past its guard has written.            *)
OrdersMarked(q) ==
    /\ DOMAIN wo[q] \subseteq DOMAIN orders
    /\ \A o \in DOMAIN wo[q] : /\ orders[o].status \in From(job[q].kind)
                               /\ wo[q][o] = B!Marked(orders[o], To(job[q].kind))
    /\ IF job[q].kind = "sweep"
         THEN /\ q \in Sweeper
              /\ DOMAIN wo[q] # {} /\ DOMAIN wo[q] \subseteq overdue
              /\ Cardinality(DOMAIN wo[q]) <= BatchSize
         ELSE DOMAIN wo[q] = {job[q].order}

Listing(q) ==
    /\ todo[q] \in Seq(DOMAIN wo[q])
    /\ \A i, j \in 1..Len(todo[q]) : i # j => todo[q][i] # todo[q][j]

(* The rows of stock it has written: for every order whose unit has moved, *)
(* one unit off the committed row of its product.                          *)
UnitsMoved(q) ==
    /\ DOMAIN ws[q] = {wo[q][o].product : o \in Moved(q)}
    /\ \A p \in DOMAIN ws[q] : ws[q][p] = Less(job[q].kind, stock[p], Cardinality(MovedOf(q, p)))

Moving(q) ==
    /\ job[q].kind \in {"cancel", "fulfill", "fail", "sweep"}
    /\ pc[q] = IF todo[q] = <<>> THEN "commit" ELSE "unit"
    /\ OrdersMarked(q)
    /\ Listing(q)
    /\ UnitsMoved(q)

Local(q) ==
    \/ Resting(q) \/ Creating(q) \/ Reserving(q) \/ CheckingOut(q)
    \/ Guarding(q) \/ Classifying(q) \/ Moving(q)

(* What Stripe and the verdicts on payments say of the orders.             *)
Payments ==
    /\ intents \subseteq OrderId /\ secrets \subseteq intents
    /\ events \subseteq {"succeeded", "failed"} \X OrderId
    /\ faults \in 0..MaxFaults
    /\ \A o \in secrets : o \in DOMAIN orders /\ orders[o].intent
    /\ \A o \in OrderId : <<"succeeded", o>> \in events => o \in secrets
    /\ \A o \in settled : o \in DOMAIN orders /\ orders[o].status = "completed"
    /\ \A o \in refunds : o \in DOMAIN orders /\ orders[o].status \in {"expired", "failed"}

TxInv ==
    /\ Book
    /\ Shape
    /\ Numbering
    /\ Exclusive
    /\ \A q \in Proc : Local(q)
    /\ Payments

----------------------------------------------------------------------------
(* OrderBook seen through its proofs and through OrderTx is one module:    *)
(* the two instances agree on every notion, so what is proved of P holds   *)
(* of B.                                                                   *)
LEMMA SameSizes ==
    /\ \A S : (P!IsFiniteSet(S) <=> IsFiniteSet(S)) /\ (B!IsFiniteSet(S) <=> IsFiniteSet(S))
    /\ \A S : P!Cardinality(S) = Cardinality(S)
    /\ \A S : B!Cardinality(S) = Cardinality(S)
  <1>1. \A S : (P!IsFiniteSet(S) <=> IsFiniteSet(S)) /\ (B!IsFiniteSet(S) <=> IsFiniteSet(S))
    BY DEF P!IsFiniteSet, B!IsFiniteSet, IsFiniteSet
  <1>2. \A S : P!Cardinality(S) = Cardinality(S)
    BY Zenon DEF P!Cardinality, Cardinality
  <1>3. \A S : B!Cardinality(S) = Cardinality(S)
    BY Zenon DEF B!Cardinality, Cardinality
  <1> QED
    BY <1>1, <1>2, <1>3

(* The same notions, one by one.                                           *)
LEMMA SameSetsOfOrders ==
    /\ P!LiveStatus = B!LiveStatus /\ P!Terminal = B!Terminal /\ P!Status = B!Status
    /\ P!Order = B!Order /\ P!Stock = B!Stock
    /\ P!Due = B!Due
    /\ \A p : P!LiveOf(p) = B!LiveOf(p) /\ P!CompletedOf(p) = B!CompletedOf(p)
    /\ \A S, p : P!OfProduct(S, p) = B!OfProduct(S, p)
  <1>1. P!LiveStatus = B!LiveStatus /\ P!Terminal = B!Terminal /\ P!Status = B!Status
    BY DEF P!LiveStatus, B!LiveStatus, P!Terminal, B!Terminal, P!Status, B!Status
  <1>2. P!Order = B!Order /\ P!Stock = B!Stock
    BY <1>1 DEF P!Order, B!Order, P!Stock, B!Stock
  <1>3. P!Due = B!Due
    BY <1>1 DEF P!Due, B!Due, P!Live, B!Live
  <1>4. \A p : P!LiveOf(p) = B!LiveOf(p) /\ P!CompletedOf(p) = B!CompletedOf(p)
    BY <1>1 DEF P!LiveOf, B!LiveOf, P!CompletedOf, B!CompletedOf
  <1>5. \A S, p : P!OfProduct(S, p) = B!OfProduct(S, p)
    BY DEF P!OfProduct, B!OfProduct
  <1> QED
    BY <1>1, <1>2, <1>3, <1>4, <1>5

(* The invariants of OrderBook agree.                                      *)
LEMMA SameBook == Book <=> P!IInv /\ P!NoOversell /\ P!IntentAgreesWithStatus
  <1>1. B!TypeOK <=> P!TypeOK
    BY SameSizes, SameSetsOfOrders DEF B!TypeOK, P!TypeOK
  <1>2. B!Accounting <=> P!Accounting
    BY SameSizes, SameSetsOfOrders DEF B!Accounting, P!Accounting
  <1>3. B!NoOversell <=> P!NoOversell
    BY SameSizes, SameSetsOfOrders DEF B!NoOversell, P!NoOversell
  <1>4. B!IntentAgreesWithStatus <=> P!IntentAgreesWithStatus
    BY DEF B!IntentAgreesWithStatus, P!IntentAgreesWithStatus
  <1>5. P!NoOversell => P!CheckHolds
    BY DEF P!NoOversell, P!CheckHolds
  <1> QED
    BY <1>1, <1>2, <1>3, <1>4, <1>5 DEF Book, P!IInv

(* and after a step.                                                       *)
LEMMA SameBookNext == Book' <=> (P!IInv /\ P!NoOversell /\ P!IntentAgreesWithStatus)'
  <1> QED
    BY SameBook, PTL

(* A step of OrderBook is a step of what was proved about.                 *)
LEMMA SameNext == B!Next => P!Next
  <1> SUFFICES ASSUME B!Next PROVE P!Next
    OBVIOUS
  <1>1. ASSUME NEW p \in Product, NEW q \in 0..MaxQuantity, B!CreateProduct(p, q)
        PROVE  P!CreateProduct(p, q)
    BY <1>1 DEF B!CreateProduct, P!CreateProduct, B!Insert, P!Insert
  <1>2. ASSUME NEW o \in OrderId, NEW c \in Customer, NEW p \in Product, B!Reserve(o, c, p)
        PROVE  P!Reserve(o, c, p)
    BY <1>2 DEF B!Reserve, P!Reserve, B!Insert, P!Insert, B!Available, P!Available, B!Reserved, P!Reserved,
                B!NewOrder, P!NewOrder
  <1>3. ASSUME NEW o \in OrderId, B!MarkOrderAwaitingPayment(o) PROVE P!MarkOrderAwaitingPayment(o)
    BY <1>3 DEF B!MarkOrderAwaitingPayment, P!MarkOrderAwaitingPayment
  <1>4. ASSUME NEW o \in OrderId, B!CancelOrder(o) PROVE P!CancelOrder(o)
    BY <1>4 DEF B!CancelOrder, P!CancelOrder, B!Release, P!Release, B!Marked, P!Marked, B!Released, P!Released
  <1>5. ASSUME NEW o \in OrderId, B!FulfillPayment(o) PROVE P!FulfillPayment(o)
    BY <1>5 DEF B!FulfillPayment, P!FulfillPayment, B!Marked, P!Marked, B!Committed, P!Committed
  <1>6. ASSUME NEW o \in OrderId, B!FailPayment(o) PROVE P!FailPayment(o)
    BY <1>6 DEF B!FailPayment, P!FailPayment, B!Release, P!Release, B!Marked, P!Marked, B!Released, P!Released
  <1>7. ASSUME NEW S \in SUBSET DOMAIN orders, B!SweepExpired(S) PROVE P!SweepExpired(S)
    BY <1>7, SameSizes, SameSetsOfOrders
       DEF B!SweepExpired, P!SweepExpired, B!Marked, P!Marked, B!Released, P!Released
  <1>8. ASSUME NEW o \in OrderId, B!Elapse(o) PROVE P!Elapse(o)
    BY <1>8, SameSetsOfOrders DEF B!Elapse, P!Elapse, B!Live, P!Live
  <1> QED
    BY <1>1, <1>2, <1>3, <1>4, <1>5, <1>6, <1>7, <1>8 DEF B!Next, P!Next

(* What the rest of this module uses of OrderBookProofs: the accounting    *)
(* bounds what is sold,                                                    *)
LEMMA BookNotOversold == P!IInv => P!NoOversell
  <1> QED
    BY TxAssumption, P!InvImpliesNoOversell

(* the empty tables satisfy it,                                            *)
LEMMA BookInit == B!Init => Book
  <1>1. B!Init => P!Init
    BY DEF B!Init, P!Init
  <1>2. P!Init => P!IntentAgreesWithStatus
    BY DEF P!Init, P!IntentAgreesWithStatus
  <1>3. P!Init => P!IInv
    BY TxAssumption, P!InitInv
  <1>4. P!IInv => P!NoOversell
    BY BookNotOversold
  <1> QED
    BY <1>1, <1>2, <1>3, <1>4, SameBook

(* and every step of OrderBook keeps it and follows the lifecycle.         *)
LEMMA BookStep ==
    ASSUME Book, [B!Next]_(B!vars)
    PROVE  Book' /\ B!LifecycleStep
  <1>1. [P!Next]_(P!vars)
    BY SameNext DEF B!vars, P!vars
  <1>2. P!IInv /\ P!IntentAgreesWithStatus /\ P!TypeOK
    BY SameBook DEF P!IInv
  <1>3. P!IInv'
    BY <1>1, <1>2, TxAssumption, P!NextInv
  <1>4. P!IntentAgreesWithStatus'
    BY <1>1, <1>2, TxAssumption, P!StepIntent
  <1>5. P!NoOversell'
    BY <1>3, BookNotOversold, PTL
  <1>6. Book'
    BY <1>3, <1>4, <1>5, SameBookNext
  <1>7. P!LifecycleStep
    <2>1. CASE P!LifecycleStep
      BY <2>1
    <2>2. CASE UNCHANGED P!vars
      BY <2>2 DEF P!vars, P!LifecycleStep
    <2> QED
      BY <1>1, <1>2, <2>1, <2>2, TxAssumption, P!StepLifecycle
  <1>8. B!LifecycleStep
    BY <1>7, SameSetsOfOrders DEF P!LifecycleStep, B!LifecycleStep
  <1> QED
    BY <1>6, <1>8

----------------------------------------------------------------------------
(* Steps of one process seen by another: its own state is not touched, and *)
(* neither are the rows it holds.                                          *)
SameProcess(q) ==
    /\ pc'[q] = pc[q] /\ job'[q] = job[q] /\ todo'[q] = todo[q]
    /\ wo'[q] = wo[q] /\ ws'[q] = ws[q]

RowsKept(q) ==
    /\ \A o \in DOMAIN wo[q] : /\ o \in DOMAIN orders' <=> o \in DOMAIN orders
                               /\ o \in DOMAIN orders => orders'[o] = orders[o]
                               /\ o \in overdue => o \in overdue'
    /\ \A p \in DOMAIN ws[q] : /\ p \in DOMAIN stock' <=> p \in DOMAIN stock
                               /\ p \in DOMAIN stock => stock'[p] = stock[p]

Others(self) == Proc \ {self}

(* A guarded UPDATE changes the status of a row and nothing else.          *)
LEMMA MarkedRow ==
    ASSUME NEW row \in B!Order, NEW st
    PROVE  /\ B!Marked(row, st).product = row.product
           /\ B!Marked(row, st).customer = row.customer
           /\ B!Marked(row, st).intent = row.intent
           /\ B!Marked(row, st).status = st
           /\ st \in B!Status => B!Marked(row, st) \in B!Order
  BY DEF B!Marked, B!Order

(* A step that keeps the rows a process holds and follows the lifecycle    *)
(* keeps the process where it is: this is what the row locks are for.      *)
LEMMA Frame ==
    ASSUME NEW q \in Proc, Book, Local(q), SameProcess(q), RowsKept(q), B!LifecycleStep,
           DOMAIN stock \subseteq DOMAIN stock', intents \subseteq intents'
    PROVE  Local(q)'
  <1> USE DEF SameProcess, RowsKept
  <1>1. /\ NoOrders(q) => NoOrders(q)'
        /\ NoStock(q) => NoStock(q)'
        /\ Clean(q) => Clean(q)'
    BY DEF NoOrders, NoStock, Clean
  <1>2. CASE Resting(q)
    BY <1>1, <1>2 DEF Local, Resting
  <1>3. CASE Creating(q)
    <2>1. PICK p \in Product \ DOMAIN stock, n \in 0..MaxQuantity :
              DOMAIN ws[q] = {p} /\ ws[q][p] = [quantity |-> n, num_reserved |-> 0]
      BY <1>3 DEF Creating
    <2>2. p \in Product \ DOMAIN stock'
      BY <2>1
    <2>3. /\ DOMAIN ws'[q] = {p} /\ ws'[q][p] = [quantity |-> n, num_reserved |-> 0]
          /\ pc'[q] = "commit" /\ job'[q].kind = "create" /\ todo'[q] = <<>>
      BY <1>3, <2>1 DEF Creating
    <2>4. Creating(q)'
      BY <1>1, <1>3, <2>2, <2>3 DEF Creating
    <2> QED
      BY <2>4 DEF Local
  <1>4. CASE Reserving(q)
    <2>1. UnitTaken(q) => UnitTaken(q)'
      BY <1>4 DEF Reserving, UnitTaken
    <2>2. OrderWritten(q) => OrderWritten(q)'
      BY <1>4 DEF Reserving, OrderWritten
    <2>3. Reserving(q)'
      BY <1>1, <1>4, <2>1, <2>2 DEF Reserving
    <2> QED
      BY <2>3 DEF Local
  <1>5. CASE CheckingOut(q)
    <2>1. CheckingOut(q)'
      BY <1>1, <1>5 DEF CheckingOut, B!LifecycleStep
    <2> QED
      BY <2>1 DEF Local
  <1>6. CASE Guarding(q)
    <2>1. Guarding(q)'
      BY <1>1, <1>6 DEF Guarding, B!LifecycleStep
    <2> QED
      BY <2>1 DEF Local
  <1>7. CASE Classifying(q)
    <2>1. job[q].order \in DOMAIN orders' /\ orders'[job[q].order] = orders[job[q].order]
      BY <1>7 DEF Classifying, B!LifecycleStep, B!Terminal, B!Status, B!LiveStatus
    <2>2. Classifying(q)'
      BY <1>1, <1>7, <2>1 DEF Classifying
    <2> QED
      BY <2>2 DEF Local
  <1>8. CASE Moving(q)
    <2>1. OrdersMarked(q)'
      BY <1>8 DEF Moving, OrdersMarked, From, To, B!LifecycleStep
    <2>2. Listing(q)'
      BY <1>8 DEF Moving, Listing
    <2>3. ToMove(q)' = ToMove(q)
      BY DEF ToMove
    <2>4. Moved(q)' = Moved(q)
      BY <2>3 DEF Moved
    <2>5. \A p : MovedOf(q, p)' = MovedOf(q, p)
      BY <2>4 DEF MovedOf
    <2>6. \A p \in DOMAIN ws[q] : p \in DOMAIN stock
      <3>1. \A o \in Moved(q) : o \in DOMAIN orders /\ wo[q][o].product = orders[o].product
        <4>1. \A o \in DOMAIN orders : orders[o] \in B!Order
          BY DEF Book, B!TypeOK
        <4>2. \A o \in Moved(q) : o \in DOMAIN orders /\ wo[q][o] = B!Marked(orders[o], To(job[q].kind))
          BY <1>8 DEF Moving, Moved, OrdersMarked
        <4> QED
          BY <4>1, <4>2, MarkedRow
      <3> QED
        BY <1>8, <3>1 DEF Moving, UnitsMoved, Book, B!TypeOK
    <2>7. UnitsMoved(q)'
      BY <1>8, <2>4, <2>5, <2>6 DEF Moving, UnitsMoved
    <2>8. Moving(q)'
      BY <1>8, <2>1, <2>2, <2>7 DEF Moving
    <2> QED
      BY <2>8 DEF Local
  <1> QED
    BY <1>2, <1>3, <1>4, <1>5, <1>6, <1>7, <1>8 DEF Local

(* A step of one process keeps the invariant if it is a step of OrderBook  *)
(* or leaves the tables alone, keeps clear of the rows of the others, and  *)
(* leaves the process itself in one of its places.                         *)
LEMMA Assemble ==
    ASSUME TxInv, NEW self \in Proc, [B!Next]_(B!vars),
           DOMAIN stock \subseteq DOMAIN stock', intents \subseteq intents',
           \A q \in Others(self) : /\ SameProcess(q)
                                   /\ RowsKept(q)
                                   /\ DOMAIN wo'[self] \cap DOMAIN wo[q] = {}
                                   /\ DOMAIN ws'[self] \cap DOMAIN ws[q] = {},
           Shape', Numbering', Payments', Local(self)'
    PROVE  TxInv'
  <1>1. Book' /\ B!LifecycleStep
    BY BookStep DEF TxInv
  <1>2. Exclusive'
    BY DEF Exclusive, TxInv, Others, SameProcess
  <1>3. ASSUME NEW q \in Proc PROVE Local(q)'
    <2>1. CASE q = self
      BY <2>1
    <2>2. CASE q # self
      BY <2>2, <1>1, Frame DEF TxInv, Others
    <2> QED
      BY <2>1, <2>2
  <1> QED
    BY <1>1, <1>2, <1>3 DEF TxInv

(* Nothing is disturbed while the tables stay as they are.                 *)
LEMMA QuietTables ==
    ASSUME UNCHANGED database
    PROVE  /\ [B!Next]_(B!vars)
           /\ DOMAIN stock \subseteq DOMAIN stock'
           /\ \A q : RowsKept(q)
  BY DEF database, B!vars, RowsKept

(* Reservations without an id: only the process that moves comes or goes.  *)
LEMMA CountUnnumbered ==
    ASSUME Shape, Numbering, NEW self \in Proc, \A q \in Others(self) : SameProcess(q)
    PROVE  /\ Cardinality(UnnumberedProcs) \in Nat
           /\ IsFiniteSet(UnnumberedProcs')
           /\ Cardinality(UnnumberedProcs') \in Nat
           /\ Unnumbered(self) /\ ~Unnumbered(self)' =>
                 Cardinality(UnnumberedProcs') = Cardinality(UnnumberedProcs) - 1
           /\ ~Unnumbered(self) /\ Unnumbered(self)' =>
                 Cardinality(UnnumberedProcs') = Cardinality(UnnumberedProcs) + 1
           /\ (Unnumbered(self) <=> Unnumbered(self)') => UnnumberedProcs' = UnnumberedProcs
  <1>1. \A q \in Others(self) : Unnumbered(q)' <=> Unnumbered(q)
    BY DEF Unnumbered, SameProcess
  <1>2. IsFiniteSet(UnnumberedProcs) /\ Cardinality(UnnumberedProcs) \in Nat
    BY FS_CardinalityType DEF Numbering
  <1>3. CASE Unnumbered(self) /\ ~Unnumbered(self)'
    <2>1. UnnumberedProcs' = UnnumberedProcs \ {self} /\ self \in UnnumberedProcs
      BY <1>1, <1>3 DEF UnnumberedProcs, Others
    <2> QED
      BY <1>2, <1>3, <2>1, FS_RemoveElement, FS_CardinalityType
  <1>4. CASE ~Unnumbered(self) /\ Unnumbered(self)'
    <2>1. UnnumberedProcs' = UnnumberedProcs \cup {self} /\ self \notin UnnumberedProcs
      BY <1>1, <1>4 DEF UnnumberedProcs, Others
    <2> QED
      BY <1>2, <1>4, <2>1, FS_AddElement, FS_CardinalityType
  <1>5. CASE Unnumbered(self) <=> Unnumbered(self)'
    <2>1. UnnumberedProcs' = UnnumberedProcs
      BY <1>1, <1>5 DEF UnnumberedProcs, Others
    <2> QED
      BY <1>2, <1>5, <2>1
  <1> QED
    BY <1>3, <1>4, <1>5

(* Ids stay within bounds when no reservation starts and none is numbered. *)
LEMMA NumberingKept ==
    ASSUME TxInv, NEW self \in Proc, \A q \in Others(self) : SameProcess(q),
           Unnumbered(self)' => Unnumbered(self),
           seq' = seq, DOMAIN orders' \subseteq DOMAIN orders \cup DOMAIN wo[self],
           DOMAIN wo'[self] \subseteq DOMAIN orders \cup DOMAIN wo[self]
    PROVE  Numbering'
  <1>1. /\ IsFiniteSet(UnnumberedProcs') /\ Cardinality(UnnumberedProcs') \in Nat
        /\ Cardinality(UnnumberedProcs) \in Nat
        /\ Cardinality(UnnumberedProcs') <= Cardinality(UnnumberedProcs)
    BY CountUnnumbered DEF TxInv
  <1>2. \A q \in Proc : DOMAIN wo'[q] \subseteq 1..(seq - 1)
    BY DEF TxInv, Numbering, Others, SameProcess
  <1>3. DOMAIN orders' \subseteq 1..(seq - 1)
    BY DEF TxInv, Numbering
  <1>4. seq + Cardinality(UnnumberedProcs') <= MaxOrders + 1
    BY <1>1, TxAssumption DEF TxInv, Numbering
  <1> QED
    BY <1>1, <1>2, <1>3, <1>4 DEF TxInv, Numbering

(* What was said of a payment stays true along the lifecycle.              *)
LEMMA PaymentsKept ==
    ASSUME Book, Payments, B!LifecycleStep, faults' \in 0..MaxFaults,
           UNCHANGED <<intents, secrets, events, settled, refunds>>
    PROVE  Payments'
  BY DEF Payments, B!LifecycleStep, B!Terminal, B!Status, B!LiveStatus

----------------------------------------------------------------------------
(* A call that returns leaves its process at rest, holding nothing.        *)
LEMMA Returned ==
    ASSUME Shape, NEW self \in Proc, Return(self)
    PROVE  /\ Shape' /\ Local(self)' /\ ~Unnumbered(self)'
           /\ \A q \in Others(self) : SameProcess(q)
           /\ DOMAIN wo'[self] = {} /\ DOMAIN ws'[self] = {}
  <1>1. /\ pc'[self] = "idle" /\ DOMAIN wo'[self] = {} /\ DOMAIN ws'[self] = {} /\ todo'[self] = <<>>
    BY DEF Return, Shape, NoRows
  <1>2. Resting(self)'
    BY <1>1 DEF Resting, Clean, NoOrders, NoStock
  <1>3. \A q \in Others(self) : SameProcess(q)
    BY DEF Return, Shape, SameProcess, Others
  <1>4. Shape'
    BY DEF Return, Shape, Steps, Table, NoRows
  <1> QED
    BY <1>1, <1>2, <1>3, <1>4 DEF Local, Unnumbered

(* A transaction that rolls back, whatever it has written, leaves the      *)
(* tables as they are.                                                     *)
LEMMA RolledBack ==
    ASSUME TxInv, NEW self \in Proc, Return(self), UNCHANGED <<database, seq, intents>>, Payments'
    PROVE  TxInv' /\ [B!Next]_(B!vars)
  <1>1. /\ Shape' /\ Local(self)' /\ ~Unnumbered(self)'
        /\ \A q \in Others(self) : SameProcess(q)
        /\ DOMAIN wo'[self] = {} /\ DOMAIN ws'[self] = {}
    BY Returned DEF TxInv
  <1>2. /\ [B!Next]_(B!vars) /\ DOMAIN stock \subseteq DOMAIN stock' /\ \A q : RowsKept(q)
    BY QuietTables
  <1>3. Numbering'
    BY <1>1, NumberingKept DEF database
  <1> QED
    BY <1>1, <1>2, <1>3, Assemble

(* The same with every verdict kept: an error, a crash, a refused guard.   *)
LEMMA RolledBackQuietly ==
    ASSUME TxInv, NEW self \in Proc, Return(self), UNCHANGED <<database, seq, stripe, verdicts>>,
           faults' \in 0..MaxFaults
    PROVE  TxInv' /\ [B!Next]_(B!vars)
  <1>1. B!LifecycleStep
    BY QuietTables, BookStep DEF TxInv
  <1>2. Payments'
    BY <1>1, PaymentsKept DEF TxInv, stripe, verdicts
  <1> QED
    BY <1>2, RolledBack DEF stripe

(* A step inside a transaction: the tables, Stripe and the verdicts stay   *)
(* as they are.                                                            *)
LEMMA Inside ==
    ASSUME TxInv, NEW self \in Proc, UNCHANGED <<database, stripe, verdicts, faults>>,
           \A q \in Others(self) : /\ SameProcess(q)
                                   /\ DOMAIN wo'[self] \cap DOMAIN wo[q] = {}
                                   /\ DOMAIN ws'[self] \cap DOMAIN ws[q] = {},
           Shape', Numbering', Local(self)'
    PROVE  TxInv' /\ [B!Next]_(B!vars)
  <1>1. /\ [B!Next]_(B!vars) /\ DOMAIN stock \subseteq DOMAIN stock' /\ \A q : RowsKept(q)
    BY QuietTables
  <1>2. B!LifecycleStep
    BY <1>1, BookStep DEF TxInv
  <1>3. Payments'
    BY <1>2, PaymentsKept DEF TxInv, stripe, verdicts, Payments
  <1> QED
    BY <1>1, <1>3, Assemble DEF stripe

(* A call starts in a process that holds nothing.                          *)
LEMMA Begun ==
    ASSUME TxInv, NEW self \in Proc, NEW step \in Steps, NEW call, Start(self, step, call)
    PROVE  /\ pc[self] = "idle" /\ Clean(self) /\ ~Unnumbered(self)
           /\ pc'[self] = step /\ job'[self] = call
           /\ pc' \in [Proc -> Steps] /\ DOMAIN job' = Proc
           /\ \A q \in Others(self) : pc'[q] = pc[q] /\ job'[q] = job[q]
  <1>1. pc[self] = "idle" /\ Local(self)
    BY DEF Start, TxInv
  <1>2. Clean(self)
    BY <1>1 DEF Local, Resting, Creating, Reserving, CheckingOut, Guarding, Classifying, Moving
  <1>3. ~Unnumbered(self)
    BY <1>1 DEF Unnumbered
  <1> QED
    BY <1>1, <1>2, <1>3 DEF Start, TxInv, Shape, Others

(* A call that has only read so far.                                       *)
LEMMA BegunReading ==
    ASSUME TxInv, NEW self \in Proc, NEW step \in Steps, NEW call, Start(self, step, call),
           UNCHANGED <<database, seq, wo, ws, todo, stripe, verdicts, faults>>,
           Clean(self)' => Local(self)', step \notin {"reserve_stock", "create_order", "reserve_and_create"}
    PROVE  TxInv' /\ [B!Next]_(B!vars)
  <1>1. /\ Clean(self)
        /\ pc'[self] = step /\ pc' \in [Proc -> Steps] /\ DOMAIN job' = Proc
        /\ \A q \in Others(self) : pc'[q] = pc[q] /\ job'[q] = job[q]
    BY Begun
  <1>2. Shape' /\ Clean(self)' /\ \A q \in Others(self) : SameProcess(q)
    BY <1>1 DEF Shape, TxInv, Clean, NoOrders, NoStock, SameProcess
  <1>3. ~Unnumbered(self)'
    BY <1>1 DEF Unnumbered
  <1>4. Numbering'
    BY <1>2, <1>3, NumberingKept DEF database
  <1> QED
    BY <1>1, <1>2, <1>4, Inside DEF Clean, NoOrders, NoStock

(* Checkout begins with an order of its caller.                            *)
LEMMA BeginCheckoutStep ==
    ASSUME TxInv, NEW self \in Proc, NEW c \in Customer, NEW o \in OrderId, BeginCheckout(self, c, o)
    PROVE  TxInv' /\ [B!Next]_(B!vars)
  <1> DEFINE call == [kind |-> "checkout", caller |-> c, order |-> o]
  <1>1. Start(self, "create_intent", call) /\ o \in DOMAIN orders /\ UNCHANGED orders
    BY DEF BeginCheckout, Owns, database
  <1>2. pc'[self] = "create_intent" /\ job'[self] = call
    BY <1>1, Begun DEF Steps
  <1>3. Clean(self)' => Local(self)'
    BY <1>1, <1>2 DEF Local, CheckingOut
  <1> QED
    BY <1>1, <1>3, BegunReading DEF BeginCheckout, Steps

(* Cancelling begins with an order of its caller.                          *)
LEMMA BeginCancelStep ==
    ASSUME TxInv, NEW self \in Proc, NEW c \in Customer, NEW o \in OrderId, BeginCancel(self, c, o)
    PROVE  TxInv' /\ [B!Next]_(B!vars)
  <1> DEFINE call == [kind |-> "cancel", order |-> o]
  <1>1. Start(self, "guard", call) /\ o \in DOMAIN orders /\ UNCHANGED orders
    BY DEF BeginCancel, Owns, database
  <1>2. pc'[self] = "guard" /\ job'[self] = call
    BY <1>1, Begun DEF Steps
  <1>3. Clean(self)' => Local(self)'
    BY <1>1, <1>2 DEF Local, Guarding
  <1> QED
    BY <1>1, <1>3, BegunReading DEF BeginCancel, Steps

(* The worker begins with an order that has an intent.                     *)
LEMMA BeginEventStep ==
    ASSUME TxInv, NEW self \in Proc, NEW type \in {"succeeded", "failed"}, NEW o \in OrderId,
           BeginEvent(self, type, o)
    PROVE  TxInv' /\ [B!Next]_(B!vars)
  <1> DEFINE call == [kind |-> IF type = "succeeded" THEN "fulfill" ELSE "fail", order |-> o]
  <1>1. Start(self, "guard", call) /\ o \in DOMAIN orders /\ orders[o].intent /\ UNCHANGED orders
    BY DEF BeginEvent, database
  <1>2. pc'[self] = "guard" /\ job'[self] = call
    BY <1>1, Begun DEF Steps
  <1>3. Clean(self)' => Local(self)'
    BY <1>1, <1>2 DEF Local, Guarding
  <1> QED
    BY <1>1, <1>3, BegunReading DEF BeginEvent, Steps

(* A reservation starts only while there is an id left for it.             *)
LEMMA BeginReserveStep ==
    ASSUME TxInv, NEW self \in Proc, NEW c \in Customer, NEW p \in Product, NEW arm \in Arms,
           BeginReserve(self, c, p, arm)
    PROVE  TxInv' /\ [B!Next]_(B!vars)
  <1> DEFINE call == [kind |-> "reserve", caller |-> c, product |-> p, arm |-> arm]
             step == CASE arm = "baseline" -> "reserve_stock"
                       [] arm = "reserve-last" -> "create_order"
                       [] arm = "cte" -> "reserve_and_create"
  <1>1. /\ Start(self, step, call) /\ p \in DOMAIN stock
        /\ seq + Cardinality(UnnumberedProcs) <= MaxOrders
        /\ UNCHANGED <<database, seq, wo, ws, todo, stripe, verdicts, faults>>
    BY DEF BeginReserve, UnnumberedProcs
  <1>2. arm \in {"baseline", "reserve-last", "cte"}
    BY TxAssumption
  <1>3. step \in Steps
    BY <1>2 DEF Steps
  <1>4. /\ Clean(self) /\ ~Unnumbered(self) /\ pc'[self] = step /\ job'[self] = call
        /\ pc' \in [Proc -> Steps] /\ DOMAIN job' = Proc
        /\ \A q \in Others(self) : pc'[q] = pc[q] /\ job'[q] = job[q]
    BY <1>1, <1>3, Begun
  <1>5. Shape' /\ Clean(self)' /\ \A q \in Others(self) : SameProcess(q)
    BY <1>1, <1>4 DEF Shape, TxInv, Clean, NoOrders, NoStock, SameProcess
  <1>6. Local(self)'
    <2>1. Reserving(self)'
      BY <1>1, <1>2, <1>4, <1>5 DEF Reserving, Clean, NoOrders, NoStock, database
    <2> QED
      BY <2>1 DEF Local
  <1>7. Unnumbered(self)'
    BY <1>2, <1>4 DEF Unnumbered
  <1>8. Numbering'
    <2>1. /\ IsFiniteSet(UnnumberedProcs') /\ Cardinality(UnnumberedProcs) \in Nat
          /\ Cardinality(UnnumberedProcs') = Cardinality(UnnumberedProcs) + 1
      BY <1>4, <1>5, <1>7, CountUnnumbered DEF TxInv
    <2> QED
      BY <1>1, <2>1, TxAssumption DEF Numbering, TxInv, database
  <1> QED
    BY <1>1, <1>4, <1>5, <1>6, <1>8, Inside DEF Clean, NoOrders, NoStock

----------------------------------------------------------------------------
(* A transaction writes a row of stock, or of orders, to itself.           *)
LEMMA WroteStock ==
    ASSUME Shape, NEW self \in Proc, NEW p, NEW row, WriteStock(self, p, row)
    PROVE  /\ DOMAIN ws' = Proc /\ \A q \in Others(self) : ws'[q] = ws[q]
           /\ DOMAIN ws'[self] = DOMAIN ws[self] \cup {p} /\ Table(ws'[self])
           /\ ws'[self][p] = row
           /\ \A x \in DOMAIN ws[self] : x # p => ws'[self][x] = ws[self][x]
  BY DEF WriteStock, Overlay, Shape, Others, Table

(* The same for a row of orders.                                           *)
LEMMA WroteOrder ==
    ASSUME Shape, NEW self \in Proc, NEW o, NEW row, WriteOrder(self, o, row)
    PROVE  /\ DOMAIN wo' = Proc /\ \A q \in Others(self) : wo'[q] = wo[q]
           /\ DOMAIN wo'[self] = DOMAIN wo[self] \cup {o} /\ Table(wo'[self])
           /\ wo'[self][o] = row
           /\ \A x \in DOMAIN wo[self] : x # o => wo'[self][x] = wo[self][x]
  BY DEF WriteOrder, Overlay, Shape, Others, Table

(* A new product is written by nobody else and is not there yet.           *)
LEMMA CreateProductStep ==
    ASSUME TxInv, NEW self \in Proc, NEW p \in Product, NEW n \in 0..MaxQuantity, CreateProduct(self, p, n)
    PROVE  TxInv' /\ [B!Next]_(B!vars)
  <1> DEFINE row == [quantity |-> n, num_reserved |-> 0]
  <1>1. /\ Start(self, "commit", [kind |-> "create"]) /\ WriteStock(self, p, row)
        /\ p \notin DOMAIN stock /\ \A x \in Proc : p \notin DOMAIN ws[x]
        /\ UNCHANGED <<database, seq, wo, todo, stripe, verdicts, faults>>
    BY DEF CreateProduct
  <1>2. /\ Clean(self) /\ pc'[self] = "commit" /\ job'[self] = [kind |-> "create"]
        /\ pc' \in [Proc -> Steps] /\ DOMAIN job' = Proc
        /\ \A q \in Others(self) : pc'[q] = pc[q] /\ job'[q] = job[q]
    BY <1>1, Begun DEF Steps
  <1>3. /\ DOMAIN ws' = Proc /\ \A q \in Others(self) : ws'[q] = ws[q]
        /\ DOMAIN ws'[self] = {p} /\ ws'[self][p] = row /\ Table(ws'[self])
    BY <1>1, <1>2, WroteStock DEF TxInv, Clean, NoStock
  <1>4. Shape' /\ \A q \in Others(self) : SameProcess(q)
    BY <1>1, <1>2, <1>3 DEF Shape, TxInv, SameProcess, Others
  <1>5. Local(self)'
    <2>1. NoOrders(self)' /\ todo'[self] = <<>>
      BY <1>1, <1>2 DEF Clean, NoOrders
    <2>2. p \in Product \ DOMAIN stock'
      BY <1>1 DEF database
    <2>3. Creating(self)'
      BY <1>2, <1>3, <2>1, <2>2 DEF Creating
    <2> QED
      BY <2>3 DEF Local
  <1>6. Numbering'
    BY <1>1, <1>2, <1>4, NumberingKept DEF database, Unnumbered
  <1> QED
    BY <1>1, <1>2, <1>3, <1>4, <1>5, <1>6, Inside DEF Clean, NoOrders, Others

(* Where a process is when it is about to run the statements of a          *)
(* reservation.                                                            *)
LEMMA AtReservation ==
    ASSUME TxInv, NEW self \in Proc, pc[self] \in {"reserve_stock", "create_order", "reserve_and_create"}
    PROVE  Reserving(self)
  <1>1. Local(self)
    BY DEF TxInv
  <1> QED
    BY <1>1 DEF Local, Resting, Creating, CheckingOut, Guarding, Classifying, Moving

(* ReserveStock judges and writes the newest version of the row: the       *)
(* committed one, which nobody else has written.                           *)
LEMMA ReserveStockStep ==
    ASSUME TxInv, NEW self \in Proc, ReserveStock(self)
    PROVE  TxInv' /\ [B!Next]_(B!vars)
  <1> DEFINE p == job[self].product
  <1>1. /\ pc[self] = "reserve_stock" /\ Reserving(self) /\ NoStock(self)
        /\ UNCHANGED <<database, seq, stripe, verdicts, faults>>
    BY AtReservation DEF ReserveStock, Reserving
  <1>2. p \in DOMAIN stock /\ StockRow(self, p) = stock[p]
    BY <1>1 DEF Reserving, StockRow, Overlay, NoStock
  <1>3. CASE Return(self)
    BY <1>1, <1>3, RolledBackQuietly DEF TxInv, Payments
  <1>4. CASE /\ B!Available(stock[p]) /\ StockFree(self, p)
             /\ WriteStock(self, p, B!Reserved(stock[p]))
             /\ Goto(self, IF job[self].arm = "baseline" THEN "create_order" ELSE "commit")
             /\ UNCHANGED <<wo, todo>>
    <2>1. /\ DOMAIN ws' = Proc /\ \A q \in Others(self) : ws'[q] = ws[q]
          /\ DOMAIN ws'[self] = {p} /\ ws'[self][p] = B!Reserved(stock[p]) /\ Table(ws'[self])
      BY <1>1, <1>4, WroteStock DEF TxInv, NoStock
    <2>2. /\ pc' \in [Proc -> Steps] /\ job' = job
          /\ pc'[self] = IF job[self].arm = "baseline" THEN "create_order" ELSE "commit"
          /\ \A q \in Others(self) : pc'[q] = pc[q]
      BY <1>4 DEF Goto, TxInv, Shape, Steps, Others
    <2>3. Shape' /\ \A q \in Others(self) : SameProcess(q)
      BY <1>4, <2>1, <2>2 DEF Shape, TxInv, SameProcess, Others
    <2>4. Local(self)'
      <3>1. UnitTaken(self)'
        BY <1>1, <1>4, <2>1, <2>2 DEF UnitTaken, database
      <3>2. (NoOrders(self) => NoOrders(self)') /\ (OrderWritten(self) => OrderWritten(self)')
        BY <1>1, <1>4, <2>2 DEF NoOrders, OrderWritten, database
      <3>3. Reserving(self)'
        BY <1>1, <1>4, <2>2, <3>1, <3>2 DEF Reserving, database
      <3> QED
        BY <3>3 DEF Local
    <2>5. Numbering'
      BY <1>1, <1>4, <2>2, <2>3, NumberingKept DEF database, Unnumbered, Reserving
    <2>6. \A q \in Others(self) : /\ DOMAIN wo'[self] \cap DOMAIN wo[q] = {}
                                  /\ DOMAIN ws'[self] \cap DOMAIN ws[q] = {}
      BY <1>4, <2>1 DEF TxInv, Exclusive, Others, StockFree
    <2> QED
      BY <1>1, <2>3, <2>4, <2>5, <2>6, Inside
  <1> QED
    BY <1>2, <1>3, <1>4 DEF ReserveStock

(* CreateOrder takes the next id, which no row and no transaction has.     *)
LEMMA FreshId ==
    ASSUME TxInv, NEW self \in Proc, Unnumbered(self)
    PROVE  /\ seq \in OrderId /\ seq \notin DOMAIN orders
           /\ \A q \in Proc : seq \notin DOMAIN wo[q]
           /\ Cardinality(UnnumberedProcs) \in Nat /\ Cardinality(UnnumberedProcs) >= 1
  <1>1. IsFiniteSet(UnnumberedProcs) /\ self \in UnnumberedProcs
    BY DEF TxInv, Numbering, UnnumberedProcs
  <1>2. Cardinality(UnnumberedProcs) \in Nat /\ Cardinality(UnnumberedProcs) # 0
    BY <1>1, FS_CardinalityType, FS_EmptySet
  <1>3. seq \in Nat /\ seq >= 1 /\ seq <= MaxOrders
    BY <1>2, TxAssumption DEF TxInv, Numbering
  <1>4. seq \notin 1..(seq - 1)
    BY <1>3
  <1> QED
    BY <1>2, <1>3, <1>4, TxAssumption DEF TxInv, Numbering, OrderId

(* The numbering after an id has been taken.                               *)
LEMMA NumberTaken ==
    ASSUME TxInv, NEW self \in Proc, \A q \in Others(self) : SameProcess(q),
           Unnumbered(self), ~Unnumbered(self)', seq' = seq + 1,
           DOMAIN orders' \subseteq DOMAIN orders \cup {seq}, DOMAIN wo'[self] \subseteq {seq}
    PROVE  Numbering'
  <1>1. /\ IsFiniteSet(UnnumberedProcs') /\ Cardinality(UnnumberedProcs) \in Nat
        /\ Cardinality(UnnumberedProcs') = Cardinality(UnnumberedProcs) - 1
    BY CountUnnumbered DEF TxInv
  <1>2. seq \in Nat /\ seq >= 1 /\ seq' \in Nat /\ seq' >= 1 /\ seq' - 1 = seq
    BY DEF TxInv, Numbering
  <1>3. seq' + Cardinality(UnnumberedProcs') <= MaxOrders + 1
    BY <1>1, <1>2, TxAssumption DEF TxInv, Numbering
  <1>4. 1..(seq - 1) \subseteq 1..(seq' - 1) /\ seq \in 1..(seq' - 1)
    BY <1>2
  <1>5. DOMAIN orders' \subseteq 1..(seq' - 1)
    BY <1>4 DEF TxInv, Numbering
  <1>6. \A q \in Proc : DOMAIN wo'[q] \subseteq 1..(seq' - 1)
    BY <1>4 DEF TxInv, Numbering, Others, SameProcess
  <1> QED
    BY <1>1, <1>2, <1>3, <1>5, <1>6 DEF Numbering

(* CreateOrder: the fresh row stays private until the commit.              *)
LEMMA CreateOrderStep ==
    ASSUME TxInv, NEW self \in Proc, CreateOrder(self)
    PROVE  TxInv' /\ [B!Next]_(B!vars)
  <1> DEFINE row == B!NewOrder(job[self].caller, job[self].product)
             step == IF job[self].arm = "baseline" THEN "commit" ELSE "reserve_stock"
  <1>1. /\ pc[self] = "create_order" /\ Reserving(self) /\ NoOrders(self)
        /\ WriteOrder(self, seq, row) /\ seq' = seq + 1 /\ Goto(self, step)
        /\ UNCHANGED <<database, ws, todo, stripe, verdicts, faults>>
    BY AtReservation DEF CreateOrder, Reserving
  <1>2. Unnumbered(self)
    BY <1>1 DEF Unnumbered
  <1>3. /\ DOMAIN wo' = Proc /\ \A q \in Others(self) : wo'[q] = wo[q]
        /\ DOMAIN wo'[self] = {seq} /\ wo'[self][seq] = row /\ Table(wo'[self])
    BY <1>1, WroteOrder DEF TxInv, NoOrders
  <1>4. /\ pc' \in [Proc -> Steps] /\ job' = job /\ pc'[self] = step
        /\ \A q \in Others(self) : pc'[q] = pc[q]
    BY <1>1 DEF Goto, TxInv, Shape, Steps, Others
  <1>5. Shape' /\ \A q \in Others(self) : SameProcess(q)
    BY <1>1, <1>3, <1>4 DEF Shape, TxInv, SameProcess, Others
  <1>6. Local(self)'
    <2>1. OrderWritten(self)'
      BY <1>1, <1>2, <1>3, <1>4, FreshId DEF OrderWritten, database
    <2>2. (UnitTaken(self) => UnitTaken(self)') /\ (NoStock(self) => NoStock(self)')
      BY <1>1, <1>4 DEF UnitTaken, NoStock, database
    <2>3. Reserving(self)'
      BY <1>1, <1>4, <2>1, <2>2 DEF Reserving, database
    <2> QED
      BY <2>3 DEF Local
  <1>7. ~Unnumbered(self)'
    BY <1>1, <1>4 DEF Unnumbered, Reserving
  <1>8. Numbering'
    BY <1>1, <1>2, <1>3, <1>5, <1>7, NumberTaken DEF database
  <1>9. \A q \in Others(self) : /\ DOMAIN wo'[self] \cap DOMAIN wo[q] = {}
                                /\ DOMAIN ws'[self] \cap DOMAIN ws[q] = {}
    BY <1>1, <1>2, <1>3, FreshId DEF TxInv, Exclusive, Others
  <1> QED
    BY <1>1, <1>5, <1>6, <1>8, <1>9, Inside

(* The cte arm is a reservation of OrderBook in one step.                  *)
LEMMA ReserveAndCreateOrderStep ==
    ASSUME TxInv, NEW self \in Proc, ReserveAndCreateOrder(self)
    PROVE  TxInv' /\ [B!Next]_(B!vars)
  <1> DEFINE p == job[self].product
             c == job[self].caller
  <1>1. /\ pc[self] = "reserve_and_create" /\ Reserving(self) /\ Return(self)
        /\ UNCHANGED <<initial, overdue, stripe, verdicts, faults>>
    BY AtReservation DEF ReserveAndCreateOrder
  <1>2. CASE UNCHANGED <<orders, stock, seq>>
    <2>1. faults' \in 0..MaxFaults
      BY <1>1 DEF TxInv, Payments
    <2> QED
      BY <1>1, <1>2, <2>1, RolledBackQuietly DEF database
  <1>3. CASE /\ B!Available(stock[p]) /\ StockFree(self, p)
             /\ stock' = [stock EXCEPT ![p] = B!Reserved(@)]
             /\ orders' = B!Insert(orders, seq, B!NewOrder(c, p))
             /\ seq' = seq + 1
    <2>1. Unnumbered(self)
      BY <1>1 DEF Unnumbered
    <2>2. /\ seq \in OrderId /\ seq \notin DOMAIN orders /\ \A q \in Proc : seq \notin DOMAIN wo[q]
      BY <2>1, FreshId
    <2>3. p \in DOMAIN stock /\ p \in Product /\ c \in Customer
      BY <1>1 DEF Reserving, TxInv, Book, B!TypeOK
    <2>4. B!Reserve(seq, c, p)
      BY <1>1, <1>3, <2>2, <2>3 DEF B!Reserve
    <2>5. [B!Next]_(B!vars)
      BY <2>2, <2>3, <2>4 DEF B!Next
    <2>6. /\ Shape' /\ Local(self)' /\ ~Unnumbered(self)'
          /\ \A q \in Others(self) : SameProcess(q)
          /\ DOMAIN wo'[self] = {} /\ DOMAIN ws'[self] = {}
      BY <1>1, Returned DEF TxInv
    <2>7. Numbering'
      BY <1>3, <2>1, <2>6, NumberTaken DEF B!Insert
    <2>8. Payments'
      BY <1>1, <2>5, BookStep, PaymentsKept DEF TxInv, Payments, stripe, verdicts
    <2>9. ASSUME NEW q \in Others(self) PROVE RowsKept(q)
      <3>1. p \notin DOMAIN ws[q] /\ seq \notin DOMAIN wo[q]
        BY <1>3, <2>2 DEF StockFree, Others
      <3> QED
        BY <1>1, <1>3, <2>3, <3>1 DEF RowsKept, B!Insert
    <2>10. DOMAIN stock \subseteq DOMAIN stock'
      BY <1>3
    <2> QED
      BY <1>1, <2>5, <2>6, <2>7, <2>8, <2>9, <2>10, Assemble DEF stripe
  <1> QED
    BY <1>2, <1>3 DEF ReserveAndCreateOrder

----------------------------------------------------------------------------
(* A process at one of these statements has written nothing.               *)
LEMMA AtStatement ==
    ASSUME TxInv, NEW self \in Proc
    PROVE  /\ pc[self] \in {"create_intent", "mark"} => CheckingOut(self)
           /\ pc[self] = "guard" => Guarding(self)
           /\ pc[self] = "classify" => Classifying(self)
           /\ pc[self] = "unit" => Moving(self)
  <1>1. Local(self)
    BY DEF TxInv
  <1> QED
    BY <1>1 DEF Local, Resting, Creating, Reserving, CheckingOut, Guarding, Classifying, Moving

(* Stripe creates the intent; no table knows of it yet.                    *)
LEMMA CreatePaymentIntentStep ==
    ASSUME TxInv, NEW self \in Proc, CreatePaymentIntent(self)
    PROVE  TxInv' /\ [B!Next]_(B!vars)
  <1> DEFINE o == job[self].order
  <1>1. /\ CheckingOut(self) /\ pc[self] = "create_intent" /\ Goto(self, "mark")
        /\ intents' = intents \cup {o}
        /\ UNCHANGED <<database, seq, wo, ws, todo, secrets, events, verdicts, faults>>
    BY AtStatement DEF CreatePaymentIntent
  <1>2. /\ pc' \in [Proc -> Steps] /\ job' = job /\ pc'[self] = "mark"
        /\ \A q \in Others(self) : pc'[q] = pc[q]
    BY <1>1 DEF Goto, TxInv, Shape, Steps, Others
  <1>3. Shape' /\ \A q \in Others(self) : SameProcess(q)
    BY <1>1, <1>2 DEF Shape, TxInv, SameProcess, Others
  <1>4. Local(self)'
    <2>1. CheckingOut(self)'
      BY <1>1, <1>2 DEF CheckingOut, Clean, NoOrders, NoStock, database
    <2> QED
      BY <2>1 DEF Local
  <1>5. Numbering'
    BY <1>1, <1>2, <1>3, NumberingKept DEF database, Unnumbered
  <1>6. o \in OrderId
    BY <1>1 DEF CheckingOut, TxInv, Book, B!TypeOK
  <1>7. Payments'
    BY <1>1, <1>6 DEF TxInv, Payments, database, verdicts
  <1>8. /\ [B!Next]_(B!vars) /\ DOMAIN stock \subseteq DOMAIN stock' /\ \A q : RowsKept(q)
    BY <1>1, QuietTables
  <1>9. \A q \in Others(self) : /\ DOMAIN wo'[self] \cap DOMAIN wo[q] = {}
                                /\ DOMAIN ws'[self] \cap DOMAIN ws[q] = {}
    BY <1>1 DEF CheckingOut, Clean, NoOrders, NoStock
  <1> QED
    BY <1>1, <1>3, <1>4, <1>5, <1>7, <1>8, <1>9, Assemble

(* MarkOrderAwaitingPayment: one autocommitted UPDATE of a free row.       *)
LEMMA MarkOrderAwaitingPaymentStep ==
    ASSUME TxInv, NEW self \in Proc, MarkOrderAwaitingPayment(self)
    PROVE  TxInv' /\ [B!Next]_(B!vars)
  <1> DEFINE o == job[self].order
  <1>1. /\ CheckingOut(self) /\ pc[self] = "mark" /\ Return(self)
        /\ UNCHANGED <<stock, initial, seq, intents, events, verdicts>>
    BY AtStatement DEF MarkOrderAwaitingPayment
  <1>2. CASE UNCHANGED <<orders, overdue, secrets, faults>>
    <2>1. faults' \in 0..MaxFaults
      BY <1>2 DEF TxInv, Payments
    <2> QED
      BY <1>1, <1>2, <2>1, RolledBackQuietly DEF database, stripe
  <1>3. CASE /\ orders[o].status = "pending" /\ OrderFree(self, o)
             /\ orders' = [orders EXCEPT ![o].status = "awaiting_payment", ![o].intent = TRUE]
             /\ overdue' = overdue \ {o}
             /\ \/ secrets' = secrets \cup {o} /\ UNCHANGED faults
                \/ Fault /\ UNCHANGED secrets
    <2>1. o \in DOMAIN orders /\ o \in OrderId /\ orders[o] \in B!Order /\ o \in intents
      BY <1>1 DEF CheckingOut, TxInv, Book, B!TypeOK
    <2>2. B!MarkOrderAwaitingPayment(o)
      BY <1>1, <1>3, <2>1 DEF B!MarkOrderAwaitingPayment
    <2>3. [B!Next]_(B!vars)
      BY <2>1, <2>2 DEF B!Next
    <2>4. /\ Shape' /\ Local(self)' /\ ~Unnumbered(self)'
          /\ \A q \in Others(self) : SameProcess(q)
          /\ DOMAIN wo'[self] = {} /\ DOMAIN ws'[self] = {}
      BY <1>1, Returned DEF TxInv
    <2>5. DOMAIN orders' = DOMAIN orders /\ orders'[o].intent = TRUE
      BY <1>3, <2>1 DEF B!Order
    <2>6. Numbering'
      BY <1>1, <2>4, <2>5, NumberingKept
    <2>7. B!LifecycleStep
      BY <2>3, BookStep DEF TxInv
    <2>8. Payments'
      <3>1. faults' \in 0..MaxFaults
        BY <1>3, TxAssumption DEF TxInv, Payments, Fault
      <3>2. secrets' \subseteq intents' /\ \A x \in secrets' : x \in DOMAIN orders' /\ orders'[x].intent
        BY <1>1, <1>3, <2>1, <2>5, <2>7 DEF TxInv, Payments, B!LifecycleStep
      <3>3. secrets \subseteq secrets'
        BY <1>3
      <3> QED
        BY <1>1, <2>7, <3>1, <3>2, <3>3
           DEF TxInv, Payments, verdicts, B!LifecycleStep, B!Terminal, B!Status, B!LiveStatus
    <2>9. ASSUME NEW q \in Others(self) PROVE RowsKept(q)
      <3>1. o \notin DOMAIN wo[q]
        BY <1>3 DEF OrderFree, Others
      <3> QED
        BY <1>1, <1>3, <3>1 DEF RowsKept
    <2> QED
      BY <1>1, <2>3, <2>4, <2>6, <2>8, <2>9, Assemble
  <1> QED
    BY <1>2, <1>3 DEF MarkOrderAwaitingPayment

(* Classify: the status it reads is terminal, so the verdict stays true.   *)
LEMMA ClassifyStep ==
    ASSUME TxInv, NEW self \in Proc, Classify(self)
    PROVE  TxInv' /\ [B!Next]_(B!vars)
  <1> DEFINE o == job[self].order
  <1>1. /\ Classifying(self) /\ Return(self) /\ UNCHANGED <<database, seq, stripe, faults>>
    BY AtStatement DEF Classify
  <1>2. o \in DOMAIN orders /\ orders[o].status \in {"completed", "failed", "expired"}
    BY <1>1 DEF Classifying
  <1>3. Payments'
    BY <1>1, <1>2 DEF Classify, TxInv, Payments, stripe, database
  <1> QED
    BY <1>1, <1>3, RolledBack DEF stripe

(* An error, a crash or the deadlock detector ends a call.                 *)
LEMMA AbortStep ==
    ASSUME TxInv, NEW self \in Proc, Abort(self) \/ DeadlockDetected(self)
    PROVE  TxInv' /\ [B!Next]_(B!vars)
  <1>1. Return(self) /\ UNCHANGED <<database, seq, stripe, verdicts>>
    BY DEF Abort, DeadlockDetected
  <1>2. faults' \in 0..MaxFaults
    BY TxAssumption DEF Abort, DeadlockDetected, Fault, TxInv, Payments
  <1> QED
    BY <1>1, <1>2, RolledBackQuietly

----------------------------------------------------------------------------
(* Past its guard, with every unit still to move, a transaction has not    *)
(* touched stock.                                                          *)
LEMMA NothingMovedYet ==
    ASSUME NEW q, ToMove(q)' = DOMAIN wo'[q], DOMAIN ws'[q] = {}
    PROVE  UnitsMoved(q)'
  <1>1. Moved(q)' = {}
    BY DEF Moved
  <1> QED
    BY <1>1 DEF UnitsMoved

(* The guarded UPDATE locks the row, or finds a status it must not touch.  *)
LEMMA GuardedUpdateStep ==
    ASSUME TxInv, NEW self \in Proc, GuardedUpdate(self)
    PROVE  TxInv' /\ [B!Next]_(B!vars)
  <1> DEFINE o == job[self].order
             kind == job[self].kind
  <1>1. /\ Guarding(self) /\ pc[self] = "guard" /\ UNCHANGED <<database, seq, stripe, verdicts, faults>>
    BY AtStatement DEF GuardedUpdate
  <1>2. /\ o \in DOMAIN orders /\ orders[o] \in B!Order /\ kind \in {"cancel", "fulfill", "fail"}
        /\ Clean(self) /\ (kind = "fulfill" => orders[o].intent)
    BY <1>1 DEF Guarding, TxInv, Book, B!TypeOK
  <1>3. CASE Return(self)
    BY <1>1, <1>3, RolledBackQuietly DEF TxInv, Payments
  <1>4. CASE /\ orders[o].status # GuardStatus(kind) /\ kind = "fulfill"
             /\ Goto(self, "classify") /\ UNCHANGED <<wo, ws, todo>>
    <2>1. /\ pc' \in [Proc -> Steps] /\ job' = job /\ pc'[self] = "classify"
          /\ \A q \in Others(self) : pc'[q] = pc[q]
      BY <1>4 DEF Goto, TxInv, Shape, Steps, Others
    <2>2. Shape' /\ \A q \in Others(self) : SameProcess(q)
      BY <1>4, <2>1 DEF Shape, TxInv, SameProcess, Others
    <2>3. orders[o].status \in {"completed", "failed", "expired"}
      BY <1>2, <1>4 DEF TxInv, Book, B!IntentAgreesWithStatus, B!Order, B!Status, GuardStatus
    <2>4. Local(self)'
      <3>1. Classifying(self)'
        BY <1>1, <1>2, <1>4, <2>1, <2>3 DEF Classifying, Clean, NoOrders, NoStock, database
      <3> QED
        BY <3>1 DEF Local
    <2>5. Numbering'
      BY <1>1, <1>4, <2>1, <2>2, NumberingKept DEF database, Unnumbered
    <2> QED
      BY <1>1, <1>2, <1>4, <2>2, <2>4, <2>5, Inside DEF Clean, NoOrders, NoStock
  <1>5. CASE /\ orders[o].status = GuardStatus(kind) /\ OrderFree(self, o)
             /\ WriteOrder(self, o, B!Marked(orders[o], NewStatus(kind)))
             /\ todo' = [todo EXCEPT ![self] = <<o>>]
             /\ Goto(self, "unit") /\ UNCHANGED ws
    <2>1. /\ pc' \in [Proc -> Steps] /\ job' = job /\ pc'[self] = "unit"
          /\ \A q \in Others(self) : pc'[q] = pc[q]
      BY <1>5 DEF Goto, TxInv, Shape, Steps, Others
    <2>2. /\ DOMAIN wo' = Proc /\ \A q \in Others(self) : wo'[q] = wo[q]
          /\ DOMAIN wo'[self] = {o} /\ wo'[self][o] = B!Marked(orders[o], NewStatus(kind)) /\ Table(wo'[self])
      BY <1>2, <1>5, WroteOrder DEF TxInv, Clean, NoOrders
    <2>3. /\ DOMAIN todo' = Proc /\ \A q \in Others(self) : todo'[q] = todo[q]
          /\ todo'[self] = <<o>>
      BY <1>5 DEF TxInv, Shape, Others
    <2>4. Shape' /\ \A q \in Others(self) : SameProcess(q)
      BY <1>5, <2>1, <2>2, <2>3 DEF Shape, TxInv, SameProcess, Others
    <2>5. OrdersMarked(self)'
      BY <1>1, <1>2, <1>5, <2>1, <2>2 DEF OrdersMarked, From, To, database
    <2>6. Listing(self)' /\ ToMove(self)' = DOMAIN wo'[self]
      BY <2>2, <2>3 DEF Listing, ToMove
    <2>7. UnitsMoved(self)'
      BY <1>2, <1>5, <2>6, NothingMovedYet DEF Clean, NoStock
    <2>8. Local(self)'
      <3>1. pc'[self] = IF todo'[self] = <<>> THEN "commit" ELSE "unit"
        BY <2>1, <2>3
      <3>2. Moving(self)'
        BY <1>2, <2>1, <2>5, <2>6, <2>7, <3>1 DEF Moving
      <3> QED
        BY <3>2 DEF Local
    <2>9. Numbering'
      BY <1>1, <1>2, <2>1, <2>2, <2>4, NumberingKept DEF database, Unnumbered
    <2>10. \A q \in Others(self) : /\ DOMAIN wo'[self] \cap DOMAIN wo[q] = {}
                                   /\ DOMAIN ws'[self] \cap DOMAIN ws[q] = {}
      BY <1>2, <1>5, <2>2 DEF OrderFree, Others, Clean, NoStock
    <2> QED
      BY <1>1, <2>4, <2>8, <2>9, <2>10, Inside
  <1> QED
    BY <1>3, <1>4, <1>5 DEF GuardedUpdate

(* A list of a finite set without repetitions names every member of it.    *)
LEMMA OrderingsCover ==
    ASSUME NEW S, IsFiniteSet(S), S # {}, NEW list \in Orderings(S)
    PROVE  /\ list \in Seq(S) /\ list # <<>>
           /\ \A i, j \in 1..Len(list) : i # j => list[i] # list[j]
           /\ {list[i] : i \in 1..Len(list)} = S
  <1> DEFINE n == Cardinality(S)
  <1>1. n \in Nat /\ n # 0
    BY FS_CardinalityType, FS_EmptySet
  <1>2. list \in [1..n -> S] /\ \A i, j \in 1..n : i # j => list[i] # list[j]
    BY DEF Orderings
  <1>3. list \in Seq(S) /\ Len(list) = n
    BY <1>1, <1>2
  <1>4. IsFiniteSet(1..n) /\ Cardinality(1..n) = n
    BY <1>1, FS_Interval
  <1>5. list \in Injection(1..n, S)
    BY <1>2 DEF Injection, IsInjective
  <1>6. list \in Surjection(1..n, S)
    BY <1>4, <1>5, FS_Injection
  <1>7. {list[i] : i \in 1..n} = S
    BY <1>2, <1>6 DEF Surjection
  <1> QED
    BY <1>1, <1>2, <1>3, <1>7

(* A sweep claims overdue orders that nobody else holds.                   *)
LEMMA ExpireOrdersStep ==
    ASSUME TxInv, NEW self \in Sweeper, ExpireOrders(self)
    PROVE  TxInv' /\ [B!Next]_(B!vars)
  <1>1. PICK S \in SUBSET Claimable(self) : \E list \in Orderings(S) :
            /\ S # {} /\ Cardinality(S) <= BatchSize
            /\ Start(self, "unit", [kind |-> "sweep"])
            /\ wo' = [wo EXCEPT ![self] = [o \in S |-> B!Marked(orders[o], "expired")]]
            /\ todo' = [todo EXCEPT ![self] = list]
            /\ UNCHANGED <<database, seq, ws, stripe, verdicts, faults>>
    BY DEF ExpireOrders
  <1>2. PICK list \in Orderings(S) :
            /\ S # {} /\ Cardinality(S) <= BatchSize
            /\ Start(self, "unit", [kind |-> "sweep"])
            /\ wo' = [wo EXCEPT ![self] = [o \in S |-> B!Marked(orders[o], "expired")]]
            /\ todo' = [todo EXCEPT ![self] = list]
            /\ UNCHANGED <<database, seq, ws, stripe, verdicts, faults>>
    BY <1>1
  <1>3. self \in Proc
    BY DEF Proc
  <1>4. /\ S \in SUBSET DOMAIN orders /\ S \subseteq overdue
        /\ \A o \in S : orders[o].status \in B!LiveStatus /\ OrderFree(self, o)
    BY DEF Claimable, B!Due, B!Live
  <1>5. IsFiniteSet(S)
    BY <1>4, SameSizes, FS_Subset DEF TxInv, Book, B!TypeOK
  <1>6. /\ list \in Seq(S) /\ list # <<>>
        /\ \A i, j \in 1..Len(list) : i # j => list[i] # list[j]
        /\ {list[i] : i \in 1..Len(list)} = S
    BY <1>2, <1>5, OrderingsCover
  <1>7. /\ Clean(self) /\ pc'[self] = "unit" /\ job'[self] = [kind |-> "sweep"]
        /\ pc' \in [Proc -> Steps] /\ DOMAIN job' = Proc
        /\ \A q \in Others(self) : pc'[q] = pc[q] /\ job'[q] = job[q]
    BY <1>2, <1>3, Begun DEF Steps
  <1>8. /\ DOMAIN wo' = Proc /\ \A q \in Others(self) : wo'[q] = wo[q]
        /\ DOMAIN wo'[self] = S /\ \A o \in S : wo'[self][o] = B!Marked(orders[o], "expired") /\ Table(wo'[self])
    BY <1>2, <1>3 DEF TxInv, Shape, Others, Table
  <1>9. /\ DOMAIN todo' = Proc /\ \A q \in Others(self) : todo'[q] = todo[q]
        /\ todo'[self] = list
    BY <1>2, <1>3 DEF TxInv, Shape, Others
  <1>10. Shape' /\ \A q \in Others(self) : SameProcess(q)
    BY <1>2, <1>7, <1>8, <1>9 DEF Shape, TxInv, SameProcess, Others
  <1>11. Local(self)'
    <2>1. OrdersMarked(self)'
      BY <1>2, <1>4, <1>7, <1>8 DEF OrdersMarked, From, To, database
    <2>2. Listing(self)' /\ ToMove(self)' = DOMAIN wo'[self]
      BY <1>6, <1>8, <1>9 DEF Listing, ToMove
    <2>3. UnitsMoved(self)'
      BY <1>2, <1>7, <2>2, NothingMovedYet DEF Clean, NoStock
    <2>4. pc'[self] = IF todo'[self] = <<>> THEN "commit" ELSE "unit"
      BY <1>6, <1>7, <1>9
    <2>5. Moving(self)'
      BY <1>7, <2>1, <2>2, <2>3, <2>4 DEF Moving
    <2> QED
      BY <2>5 DEF Local
  <1>12. Numbering'
    BY <1>2, <1>3, <1>4, <1>7, <1>8, <1>10, NumberingKept DEF database, Unnumbered
  <1>13. \A q \in Others(self) : /\ DOMAIN wo'[self] \cap DOMAIN wo[q] = {}
                                 /\ DOMAIN ws'[self] \cap DOMAIN ws[q] = {}
    BY <1>2, <1>4, <1>7, <1>8 DEF OrderFree, Others, Clean, NoStock
  <1> QED
    BY <1>2, <1>3, <1>10, <1>11, <1>12, <1>13, Inside

----------------------------------------------------------------------------
(* A transaction past its guard: its orders are live and finitely many,    *)
(* and their products have stock rows.                                     *)
LEMMA MovingOrders ==
    ASSUME TxInv, NEW q \in Proc, Moving(q), NEW o \in DOMAIN wo[q]
    PROVE  /\ o \in DOMAIN orders /\ orders[o] \in B!Order
           /\ wo[q][o].product = orders[o].product
           /\ wo[q][o].product \in DOMAIN stock
           /\ o \in B!LiveOf(wo[q][o].product)
  <1>1. /\ o \in DOMAIN orders /\ orders[o] \in B!Order /\ orders[o].product \in DOMAIN stock
        /\ wo[q][o] = B!Marked(orders[o], To(job[q].kind)) /\ orders[o].status \in From(job[q].kind)
    BY DEF Moving, OrdersMarked, TxInv, Book, B!TypeOK
  <1>2. wo[q][o].product = orders[o].product
    BY <1>1, MarkedRow
  <1>3. orders[o].status \in B!LiveStatus
    BY <1>1 DEF From, GuardStatus, B!LiveStatus
  <1> QED
    BY <1>1, <1>2, <1>3 DEF B!LiveOf

(* The orders of a product whose units have moved are among its live       *)
(* orders, so the committed counter covers them.                           *)
LEMMA MovedAreReserved ==
    ASSUME TxInv, NEW q \in Proc, Moving(q), NEW p \in DOMAIN stock, NEW S \in SUBSET DOMAIN wo[q],
           \A o \in S : wo[q][o].product = p
    PROVE  /\ IsFiniteSet(S) /\ Cardinality(S) \in Nat
           /\ stock[p] \in B!Stock
           /\ Cardinality(S) <= stock[p].num_reserved
           /\ stock[p].num_reserved <= stock[p].quantity
  <1>1. S \in SUBSET B!LiveOf(p)
    BY MovingOrders
  <1>2. IsFiniteSet(B!LiveOf(p)) /\ stock[p].num_reserved = Cardinality(B!LiveOf(p))
    <2>1. B!LiveOf(p) \in SUBSET DOMAIN orders /\ IsFiniteSet(DOMAIN orders)
      BY SameSizes DEF B!LiveOf, TxInv, Book, B!TypeOK
    <2>2. stock[p].num_reserved = Cardinality(B!LiveOf(p))
      BY SameSizes DEF TxInv, Book, B!Accounting
    <2> QED
      BY <2>1, <2>2, FS_Subset
  <1>3. IsFiniteSet(S) /\ Cardinality(S) <= Cardinality(B!LiveOf(p)) /\ Cardinality(S) \in Nat
    BY <1>1, <1>2, FS_Subset, FS_CardinalityType
  <1> QED
    BY <1>2, <1>3 DEF TxInv, Book, B!TypeOK, B!NoOversell

(* The stock row a transaction sees when it is about to move the unit of   *)
(* the next order: the committed row less the units it has moved itself,   *)
(* and at least one is left to take, since that order is live too.         *)
LEMMA UnitIsThere ==
    ASSUME TxInv, NEW q \in Proc, pc[q] = "unit"
    PROVE  LET h == Head(todo[q])
               p == UnitProduct(q)
               n == Cardinality(MovedOf(q, p))
           IN  /\ Moving(q)
               /\ h \in DOMAIN wo[q] /\ h \in ToMove(q) /\ wo[q][h].product = p
               /\ p \in DOMAIN stock /\ stock[p] \in B!Stock
               /\ n \in Nat /\ n + 1 <= stock[p].num_reserved
               /\ stock[p].num_reserved <= stock[p].quantity
               /\ StockRow(q, p) = Less(job[q].kind, stock[p], n)
               /\ IsFiniteSet(MovedOf(q, p))
  <1> DEFINE h == Head(todo[q])
             p == UnitProduct(q)
             n == Cardinality(MovedOf(q, p))
  <1>1. Moving(q)
    BY AtStatement
  <1>2. /\ todo[q] \in Seq(DOMAIN wo[q]) /\ Len(todo[q]) >= 1
        /\ h = todo[q][1] /\ h \in DOMAIN wo[q] /\ h \in ToMove(q)
    <2>1. todo[q] \in Seq(DOMAIN wo[q]) /\ todo[q] # <<>>
      BY <1>1 DEF Moving, Listing
    <2>2. Len(todo[q]) \in Nat /\ Len(todo[q]) >= 1 /\ h = todo[q][1] /\ todo[q][1] \in DOMAIN wo[q]
      BY <2>1
    <2> QED
      BY <2>1, <2>2 DEF ToMove
  <1>3. wo[q][h].product = p /\ p \in DOMAIN stock
    BY <1>1, <1>2, MovingOrders DEF UnitProduct
  <1>4. h \notin MovedOf(q, p) /\ MovedOf(q, p) \in SUBSET DOMAIN wo[q]
    BY <1>2 DEF MovedOf, Moved
  <1>5. \A o \in MovedOf(q, p) : wo[q][o].product = p
    BY DEF MovedOf
  <1>6. IsFiniteSet(MovedOf(q, p)) /\ n \in Nat
    BY <1>1, <1>3, <1>4, <1>5, MovedAreReserved
  <1>7. Cardinality(MovedOf(q, p) \cup {h}) = n + 1
    BY <1>4, <1>6, FS_AddElement
  <1>8. /\ stock[p] \in B!Stock /\ n + 1 <= stock[p].num_reserved
        /\ stock[p].num_reserved <= stock[p].quantity
    <2> DEFINE S == MovedOf(q, p) \cup {h}
    <2>1. S \in SUBSET DOMAIN wo[q] /\ \A o \in S : wo[q][o].product = p
      BY <1>2, <1>3, <1>4, <1>5
    <2> HIDE DEF S
    <2>2. /\ stock[p] \in B!Stock /\ Cardinality(S) <= stock[p].num_reserved
          /\ stock[p].num_reserved <= stock[p].quantity
      BY <1>1, <1>3, <2>1, MovedAreReserved
    <2> QED
      BY <1>7, <2>2 DEF S
  <1>9. StockRow(q, p) = Less(job[q].kind, stock[p], n)
    <2>1. CASE p \in DOMAIN ws[q]
      BY <1>1, <2>1 DEF Moving, UnitsMoved, StockRow, Overlay
    <2>2. CASE p \notin DOMAIN ws[q]
      <3>1. MovedOf(q, p) = {}
        BY <1>1, <2>2 DEF Moving, UnitsMoved, MovedOf
      <3>2. n = 0
        BY <3>1, FS_EmptySet
      <3>3. StockRow(q, p) = stock[p]
        BY <1>3, <2>2 DEF StockRow, Overlay
      <3>4. Less(job[q].kind, stock[p], 0) = stock[p]
        BY <1>8 DEF Less, B!Stock
      <3> QED
        BY <3>2, <3>3, <3>4
    <2> QED
      BY <2>1, <2>2
  <1> QED
    BY <1>1, <1>2, <1>3, <1>6, <1>8, <1>9

(* CommitStock takes one unit off both counters.                           *)
LEMMA SoldRow ==
    ASSUME NEW a, NEW b
    PROVE  B!Committed([quantity |-> a, num_reserved |-> b]) = [quantity |-> a - 1, num_reserved |-> b - 1]
  <1> DEFINE s == [quantity |-> a, num_reserved |-> b]
             t == [s EXCEPT !.quantity = @ - 1]
  <1>1. t = [quantity |-> a - 1, num_reserved |-> b]
    OBVIOUS
  <1>2. B!Committed(s) = [t EXCEPT !.num_reserved = @ - 1]
    BY DEF B!Committed
  <1> QED
    BY <1>1, <1>2

(* One more unit off a row.                                                *)
LEMMA LessOne ==
    ASSUME NEW s \in B!Stock, NEW n \in Nat, NEW kind
    PROVE  /\ B!Released(s, n) = Less("release", s, n)
           /\ kind # "fulfill" => B!Released(Less(kind, s, n), 1) = Less(kind, s, n + 1)
           /\ kind = "fulfill" => B!Committed(Less(kind, s, n)) = Less(kind, s, n + 1)
           /\ B!Committed(s) = Less("fulfill", s, 1)
           /\ Less(kind, s, n).num_reserved = s.num_reserved - n
           /\ n <= s.num_reserved /\ s.num_reserved <= s.quantity =>
                 /\ Less(kind, s, n) \in B!Stock
                 /\ Less(kind, s, n).num_reserved <= Less(kind, s, n).quantity
  <1>1. s.quantity \in Nat /\ s.num_reserved \in Nat
    BY DEF B!Stock
  <1>2. /\ s.num_reserved - n - 1 = s.num_reserved - (n + 1)
        /\ s.quantity - n - 1 = s.quantity - (n + 1)
    BY <1>1
  <1>3. B!Released(s, n) = Less("release", s, n)
    BY DEF B!Released, Less, B!Stock
  <1>4. kind # "fulfill" => B!Released(Less(kind, s, n), 1) = Less(kind, s, n + 1)
    BY <1>2 DEF B!Released, Less
  <1>5. kind = "fulfill" => B!Committed(Less(kind, s, n)) = Less(kind, s, n + 1)
    BY <1>2, SoldRow DEF Less
  <1>6. B!Committed(s) = Less("fulfill", s, 1)
    <2>1. s = [quantity |-> s.quantity, num_reserved |-> s.num_reserved]
      BY DEF B!Stock
    <2> QED
      BY <2>1, SoldRow DEF Less
  <1>7. n <= s.num_reserved /\ s.num_reserved <= s.quantity =>
           /\ Less(kind, s, n) \in B!Stock
           /\ Less(kind, s, n).num_reserved <= Less(kind, s, n).quantity
    BY <1>1 DEF Less, B!Stock
  <1> QED
    BY <1>3, <1>4, <1>5, <1>6, <1>7 DEF Less

(* The tail of a list without repetitions is the list without its head.    *)
LEMMA TailOf ==
    ASSUME NEW S, NEW s \in Seq(S), s # <<>>,
           \A i, j \in 1..Len(s) : i # j => s[i] # s[j]
    PROVE  /\ Tail(s) \in Seq(S) /\ Len(Tail(s)) = Len(s) - 1
           /\ Tail(s) = <<>> <=> Len(s) = 1
           /\ \A i, j \in 1..Len(Tail(s)) : i # j => Tail(s)[i] # Tail(s)[j]
           /\ {Tail(s)[i] : i \in 1..Len(Tail(s))} = {s[i] : i \in 1..Len(s)} \ {Head(s)}
           /\ Head(s) \in {s[i] : i \in 1..Len(s)}
  <1>1. Len(s) \in Nat /\ Len(s) >= 1 /\ Head(s) = s[1]
    OBVIOUS
  <1>2. Tail(s) \in Seq(S) /\ Len(Tail(s)) = Len(s) - 1
    OBVIOUS
  <1>3. \A i \in 1..Len(Tail(s)) : Tail(s)[i] = s[i + 1] /\ i + 1 \in 1..Len(s)
    BY <1>1, <1>2
  <1>4. Tail(s) = <<>> <=> Len(s) = 1
    BY <1>1, <1>2
  <1>5. \A i, j \in 1..Len(Tail(s)) : i # j => Tail(s)[i] # Tail(s)[j]
    BY <1>1, <1>2, <1>3
  <1>6. ASSUME NEW i \in 1..Len(Tail(s)) PROVE Tail(s)[i] \in {s[k] : k \in 1..Len(s)} \ {Head(s)}
    BY <1>1, <1>2, <1>3
  <1>7. ASSUME NEW i \in 1..Len(s), s[i] # Head(s) PROVE s[i] \in {Tail(s)[k] : k \in 1..Len(Tail(s))}
    <2>1. i # 1 /\ i - 1 \in 1..Len(Tail(s))
      BY <1>1, <1>2, <1>7
    <2>2. Tail(s)[i - 1] = s[i]
      BY <1>1, <1>3, <2>1
    <2> QED
      BY <2>1, <2>2
  <1>8. {Tail(s)[i] : i \in 1..Len(Tail(s))} = {s[i] : i \in 1..Len(s)} \ {Head(s)}
    BY Zenon, <1>6, <1>7
  <1>9. Head(s) \in {s[i] : i \in 1..Len(s)}
    BY <1>1
  <1> QED
    BY <1>2, <1>4, <1>5, <1>8, <1>9

(* ReleaseStock and CommitStock: one unit of the next order moves.         *)
LEMMA MoveUnitStep ==
    ASSUME TxInv, NEW self \in Proc, MoveUnit(self)
    PROVE  TxInv' /\ [B!Next]_(B!vars)
  <1>1. PICK h, p, n : h = Head(todo[self]) /\ p = UnitProduct(self) /\ n = Cardinality(MovedOf(self, p))
    OBVIOUS
  <1> DEFINE kind == job[self].kind
             row == StockRow(self, p)
             new == IF kind = "fulfill" THEN B!Committed(row) ELSE B!Released(row, 1)
  <1>2. pc[self] = "unit" /\ UNCHANGED <<database, seq, stripe, verdicts, faults>>
    BY DEF MoveUnit
  <1>3. /\ Moving(self)
        /\ h \in DOMAIN wo[self] /\ h \in ToMove(self) /\ wo[self][h].product = p
        /\ p \in DOMAIN stock /\ stock[p] \in B!Stock
        /\ n \in Nat /\ n + 1 <= stock[p].num_reserved
        /\ stock[p].num_reserved <= stock[p].quantity
        /\ row = Less(kind, stock[p], n)
        /\ IsFiniteSet(MovedOf(self, p))
    BY <1>1, <1>2, UnitIsThere
  <1>4. row.num_reserved > 0
    <2>1. row.num_reserved = stock[p].num_reserved - n /\ stock[p].num_reserved \in Nat
      BY <1>3, LessOne DEF B!Stock
    <2> QED
      BY <1>3, <2>1
  <1>5. /\ StockFree(self, p) /\ WriteStock(self, p, new)
        /\ todo' = [todo EXCEPT ![self] = Tail(@)]
        /\ Goto(self, IF Len(todo[self]) = 1 THEN "commit" ELSE "unit")
        /\ UNCHANGED wo
    BY <1>1, <1>4 DEF MoveUnit
  <1>6. new = Less(kind, stock[p], n + 1)
    BY <1>3, LessOne
  <1> HIDE DEF new, row
  <1>7. /\ todo[self] \in Seq(DOMAIN wo[self]) /\ todo[self] # <<>>
        /\ \A i, j \in 1..Len(todo[self]) : i # j => todo[self][i] # todo[self][j]
    BY <1>2, <1>3 DEF Moving, Listing
  <1>8. /\ DOMAIN ws' = Proc /\ \A q \in Others(self) : ws'[q] = ws[q]
        /\ DOMAIN ws'[self] = DOMAIN ws[self] \cup {p} /\ ws'[self][p] = new /\ Table(ws'[self])
        /\ \A x \in DOMAIN ws[self] : x # p => ws'[self][x] = ws[self][x]
    BY <1>5, WroteStock DEF TxInv
  <1>9. /\ DOMAIN todo' = Proc /\ \A q \in Others(self) : todo'[q] = todo[q]
        /\ todo'[self] = Tail(todo[self])
    BY <1>5 DEF TxInv, Shape, Others
  <1>10. /\ pc' \in [Proc -> Steps] /\ job' = job
         /\ pc'[self] = IF Len(todo[self]) = 1 THEN "commit" ELSE "unit"
         /\ \A q \in Others(self) : pc'[q] = pc[q]
    BY <1>5 DEF Goto, TxInv, Shape, Steps, Others
  <1>11. Shape' /\ \A q \in Others(self) : SameProcess(q)
    BY <1>5, <1>8, <1>9, <1>10 DEF Shape, TxInv, SameProcess, Others
  <1>12. OrdersMarked(self)'
    BY <1>2, <1>3, <1>5, <1>10 DEF Moving, OrdersMarked, From, To, database
  <1>13. todo'[self] = <<>> <=> Len(todo[self]) = 1
    BY <1>7, <1>9, TailOf
  <1>14. Listing(self)'
    BY <1>5, <1>7, <1>9, TailOf DEF Listing
  <1>15. ToMove(self)' = ToMove(self) \ {h}
    <2> DEFINE s == todo[self]
    <2>1. {Tail(s)[i] : i \in 1..Len(Tail(s))} = {s[i] : i \in 1..Len(s)} \ {Head(s)}
      BY <1>7, TailOf
    <2>2. ToMove(self)' = {Tail(s)[i] : i \in 1..Len(Tail(s))}
      BY <1>9 DEF ToMove
    <2> QED
      BY <1>1, <2>1, <2>2 DEF ToMove
  <1>16. Moved(self)' = Moved(self) \cup {h}
    BY <1>3, <1>5, <1>15 DEF Moved
  <1>17. /\ MovedOf(self, p)' = MovedOf(self, p) \cup {h} /\ h \notin MovedOf(self, p)
         /\ \A x : x # p => MovedOf(self, x)' = MovedOf(self, x)
    BY <1>3, <1>5, <1>16 DEF MovedOf, Moved
  <1>18. Cardinality(MovedOf(self, p)') = n + 1
    <2>1. h \notin MovedOf(self, p)
      BY <1>17
    <2>2. Cardinality(MovedOf(self, p) \cup {h}) = n + 1
      BY <1>1, <1>3, <2>1, FS_AddElement
    <2> QED
      BY <1>17, <2>2
  <1>19. UnitsMoved(self)'
    <2>1. DOMAIN ws'[self] = {wo'[self][o].product : o \in Moved(self)'}
      BY <1>3, <1>5, <1>8, <1>16 DEF Moving, UnitsMoved
    <2>2. ASSUME NEW x \in DOMAIN ws'[self]
          PROVE  ws'[self][x] = Less(kind, stock[x], Cardinality(MovedOf(self, x)'))
      <3>1. CASE x = p
        BY <1>6, <1>8, <1>18, <3>1
      <3>2. CASE x # p
        BY <1>3, <1>8, <1>17, <3>2 DEF Moving, UnitsMoved
      <3> QED
        BY <3>1, <3>2
    <2> QED
      BY <1>2, <1>10, <2>1, <2>2 DEF UnitsMoved, database
  <1>20. Local(self)'
    <2>1. pc'[self] = IF todo'[self] = <<>> THEN "commit" ELSE "unit"
      BY <1>10, <1>13
    <2>2. Moving(self)'
      BY <1>3, <1>10, <1>12, <1>14, <1>19, <2>1 DEF Moving
    <2> QED
      BY <2>2 DEF Local
  <1>21. Numbering'
    BY <1>2, <1>5, <1>10, <1>11, NumberingKept DEF database, Unnumbered
  <1>22. \A q \in Others(self) : /\ DOMAIN wo'[self] \cap DOMAIN wo[q] = {}
                                 /\ DOMAIN ws'[self] \cap DOMAIN ws[q] = {}
    BY <1>5, <1>8 DEF TxInv, Exclusive, Others, StockFree
  <1> QED
    BY <1>2, <1>11, <1>20, <1>21, <1>22, Inside

----------------------------------------------------------------------------
(* A table is known by its rows.                                           *)
LEMMA SameTable ==
    ASSUME NEW f, NEW g, Table(f), Table(g),
           DOMAIN f = DOMAIN g, \A x \in DOMAIN f : f[x] = g[x]
    PROVE  f = g
  BY DEF Table

(* What a COMMIT makes of the tables, row by row.                          *)
Rows(self) ==
    /\ DOMAIN orders' = DOMAIN orders \cup DOMAIN wo[self]
    /\ \A o \in DOMAIN wo[self] : orders'[o] = wo[self][o]
    /\ \A o \in DOMAIN orders : o \notin DOMAIN wo[self] => orders'[o] = orders[o]
    /\ DOMAIN stock' = DOMAIN stock \cup DOMAIN ws[self]
    /\ \A p \in DOMAIN ws[self] : stock'[p] = ws[self][p]
    /\ \A p \in DOMAIN stock : p \notin DOMAIN ws[self] => stock'[p] = stock[p]
    /\ DOMAIN initial' = DOMAIN stock' /\ DOMAIN initial = DOMAIN stock
    /\ \A p \in DOMAIN stock : initial'[p] = initial[p]
    /\ \A p \in DOMAIN stock' : p \notin DOMAIN stock => initial'[p] = stock'[p].quantity

Tables == Table(orders) /\ Table(stock) /\ Table(initial)

(* Publish writes exactly those rows, and leaves tables.                   *)
LEMMA Published ==
    ASSUME TxInv, NEW self \in Proc, Publish(self)
    PROVE  Rows(self) /\ Tables /\ Tables'
  <1>1. Tables /\ DOMAIN initial = DOMAIN stock
    BY DEF Tables, Table, TxInv, Book, B!TypeOK
  <1>2. DOMAIN stock' = DOMAIN stock \cup DOMAIN ws[self]
    BY DEF Publish, Overlay
  <1>3. Tables'
    BY DEF Publish, Overlay, Tables, Table
  <1>4. Rows(self)
    BY <1>1, <1>2 DEF Publish, Overlay, Rows
  <1> QED
    BY <1>1, <1>3, <1>4

(* A commit of POST /products.                                             *)
LEMMA CommitCreate ==
    ASSUME TxInv, NEW self \in Proc, Creating(self), Publish(self), overdue' = overdue
    PROVE  B!Next
  <1>1. PICK p \in Product \ DOMAIN stock, n \in 0..MaxQuantity :
            DOMAIN ws[self] = {p} /\ ws[self][p] = [quantity |-> n, num_reserved |-> 0]
    BY DEF Creating
  <1>2. DOMAIN wo[self] = {}
    BY DEF Creating, NoOrders
  <1>3. Rows(self) /\ Tables /\ Tables'
    BY Published
  <1>4. orders' = orders
    BY <1>2, <1>3, SameTable DEF Rows, Tables, Table
  <1>5. stock' = B!Insert(stock, p, [quantity |-> n, num_reserved |-> 0])
    BY <1>1, <1>3, SameTable DEF Rows, Tables, Table, B!Insert
  <1>6. initial' = B!Insert(initial, p, n)
    <2>1. stock'[p].quantity = n /\ p \in DOMAIN stock' /\ p \notin DOMAIN stock
      BY <1>1, <1>3 DEF Rows
    <2>2. initial'[p] = n /\ DOMAIN initial' = DOMAIN initial \cup {p}
      BY <1>1, <1>3, <2>1 DEF Rows
    <2> QED
      BY <1>3, <2>1, <2>2, SameTable DEF Rows, Tables, Table, B!Insert
  <1>7. B!CreateProduct(p, n)
    BY <1>1, <1>4, <1>5, <1>6 DEF B!CreateProduct
  <1> QED
    BY <1>7 DEF B!Next

(* A commit of POST /orders, whichever of the two rows was written first.  *)
LEMMA CommitReserve ==
    ASSUME TxInv, NEW self \in Proc, Reserving(self), pc[self] = "commit", Publish(self), overdue' = overdue
    PROVE  B!Next
  <1> DEFINE p == job[self].product
             c == job[self].caller
  <1>1. UnitTaken(self) /\ OrderWritten(self) /\ c \in Customer /\ p \in DOMAIN stock
    BY DEF Reserving
  <1>2. PICK o \in OrderId \ DOMAIN orders : DOMAIN wo[self] = {o} /\ wo[self][o] = B!NewOrder(c, p)
    BY <1>1 DEF OrderWritten
  <1>3. DOMAIN ws[self] = {p} /\ ws[self][p] = B!Reserved(stock[p]) /\ B!Available(stock[p])
    BY <1>1 DEF UnitTaken
  <1>4. Rows(self) /\ Tables /\ Tables'
    BY Published
  <1>5. orders' = B!Insert(orders, o, B!NewOrder(c, p))
    BY <1>2, <1>4, SameTable DEF Rows, Tables, Table, B!Insert
  <1>6. stock' = [stock EXCEPT ![p] = B!Reserved(@)]
    BY <1>1, <1>3, <1>4, SameTable DEF Rows, Tables, Table
  <1>7. initial' = initial
    BY <1>1, <1>3, <1>4, SameTable DEF Rows, Tables, Table
  <1>8. B!Reserve(o, c, p)
    BY <1>1, <1>2, <1>3, <1>5, <1>6, <1>7 DEF B!Reserve
  <1>9. p \in Product
    BY <1>1 DEF TxInv, Book, B!TypeOK
  <1> QED
    BY <1>1, <1>2, <1>8, <1>9 DEF B!Next

(* A transaction past its guard commits when every unit has moved.         *)
LEMMA AllMoved ==
    ASSUME TxInv, NEW self \in Proc, Moving(self), pc[self] = "commit"
    PROVE  /\ DOMAIN ws[self] = {wo[self][o].product : o \in DOMAIN wo[self]}
           /\ DOMAIN ws[self] \subseteq DOMAIN stock
           /\ \A p : MovedOf(self, p) = {o \in DOMAIN wo[self] : wo[self][o].product = p}
           /\ \A p \in DOMAIN ws[self] :
                 ws[self][p] = Less(job[self].kind, stock[p], Cardinality(MovedOf(self, p)))
  <1>1. todo[self] = <<>>
    BY DEF Moving
  <1>2. Moved(self) = DOMAIN wo[self]
    BY <1>1 DEF Moved, ToMove
  <1>3. DOMAIN ws[self] = {wo[self][o].product : o \in DOMAIN wo[self]}
    BY <1>2 DEF Moving, UnitsMoved
  <1>4. DOMAIN ws[self] \subseteq DOMAIN stock
    BY <1>3, MovingOrders
  <1> QED
    BY <1>2, <1>3, <1>4 DEF MovedOf, Moving, UnitsMoved

(* A commit of CancelOrder, FailPayment or FulfillPayment.                 *)
LEMMA CommitOne ==
    ASSUME TxInv, NEW self \in Proc, Moving(self), pc[self] = "commit", job[self].kind # "sweep",
           Publish(self), overdue' = overdue
    PROVE  B!Next /\ job[self].order \in DOMAIN orders'
                  /\ (job[self].kind = "fulfill" => orders'[job[self].order].status = "completed")
  <1> DEFINE o == job[self].order
             kind == job[self].kind
             p == orders[o].product
  <1>1. DOMAIN wo[self] = {o} /\ kind \in {"cancel", "fulfill", "fail"}
    BY DEF Moving, OrdersMarked
  <1>2. /\ o \in DOMAIN orders /\ orders[o] \in B!Order /\ o \in OrderId
        /\ wo[self][o].product = p /\ p \in DOMAIN stock
    BY <1>1, MovingOrders DEF TxInv, Book, B!TypeOK
  <1>3. orders[o].status = GuardStatus(kind) /\ wo[self][o] = B!Marked(orders[o], NewStatus(kind))
    BY <1>1 DEF Moving, OrdersMarked, From, To
  <1>4. MovedOf(self, p) = {o} /\ DOMAIN ws[self] = {p} /\ ws[self][p] = Less(kind, stock[p], Cardinality({o}))
    <2>1. DOMAIN ws[self] = {p} /\ MovedOf(self, p) = {o}
      BY <1>1, <1>2, AllMoved
    <2>2. ws[self][p] = Less(kind, stock[p], Cardinality(MovedOf(self, p)))
      <3>1. \A x \in DOMAIN ws[self] : ws[self][x] = Less(kind, stock[x], Cardinality(MovedOf(self, x)))
        BY AllMoved
      <3> QED
        BY <2>1, <3>1
    <2> QED
      BY <2>1, <2>2
  <1>5. Cardinality({o}) = 1 /\ stock[p] \in B!Stock /\ stock[p].num_reserved > 0
    <2>1. Cardinality({o}) = 1
      BY FS_Singleton
    <2>2. stock[p] \in B!Stock /\ Cardinality({o}) <= stock[p].num_reserved
      BY <1>1, <1>2, MovedAreReserved
    <2> QED
      BY <2>1, <2>2 DEF B!Stock
  <1>6. Rows(self) /\ Tables /\ Tables'
    BY Published
  <1>7. DOMAIN orders' = DOMAIN orders /\ DOMAIN stock' = DOMAIN stock /\ DOMAIN initial' = DOMAIN initial
    BY <1>1, <1>2, <1>4, <1>6 DEF Rows
  <1>8. orders' = [orders EXCEPT ![o] = B!Marked(@, NewStatus(kind))]
    BY <1>1, <1>2, <1>3, <1>6, <1>7 DEF Rows, Tables, Table
  <1>9. stock' = [stock EXCEPT ![p] = Less(kind, @, 1)]
    BY <1>2, <1>4, <1>5, <1>6, <1>7 DEF Rows, Tables, Table
  <1>10. initial' = initial
    BY <1>6, <1>7 DEF Rows, Tables, Table
  <1>11. kind # "fulfill" => Less(kind, stock[p], 1) = B!Released(stock[p], 1)
    <2>1. Less("release", stock[p], 1) = B!Released(stock[p], 1)
      BY <1>5, LessOne
    <2> QED
      BY <2>1 DEF Less
  <1>12. kind = "fulfill" => Less(kind, stock[p], 1) = B!Committed(stock[p])
    BY <1>5, LessOne
  <1>13. CASE kind = "cancel"
    <2>1. B!CancelOrder(o)
      BY <1>2, <1>3, <1>5, <1>8, <1>9, <1>10, <1>11, <1>13
         DEF B!CancelOrder, B!Release, GuardStatus, NewStatus
    <2> QED
      BY <1>2, <1>8, <1>13, <2>1 DEF B!Next
  <1>14. CASE kind = "fail"
    <2>1. B!FailPayment(o)
      BY <1>2, <1>3, <1>5, <1>8, <1>9, <1>10, <1>11, <1>14
         DEF B!FailPayment, B!Release, GuardStatus, NewStatus
    <2> QED
      BY <1>2, <1>8, <1>14, <2>1 DEF B!Next
  <1>15. CASE kind = "fulfill"
    <2>1. B!FulfillPayment(o)
      BY <1>2, <1>3, <1>5, <1>8, <1>9, <1>10, <1>12, <1>15
         DEF B!FulfillPayment, GuardStatus, NewStatus
    <2>2. orders'[o].status = "completed"
      BY <1>2, <1>8, <1>15, MarkedRow DEF NewStatus
    <2> QED
      BY <1>2, <1>8, <2>1, <2>2 DEF B!Next
  <1> QED
    BY <1>1, <1>13, <1>14, <1>15

(* A commit of a sweep: the whole batch expires and every unit is back.    *)
LEMMA CommitSweep ==
    ASSUME TxInv, NEW self \in Proc, Moving(self), pc[self] = "commit", job[self].kind = "sweep",
           Publish(self), overdue' = overdue
    PROVE  B!Next
  <1> DEFINE S == DOMAIN wo[self]
  <1>1. /\ S # {} /\ S \in SUBSET DOMAIN orders /\ S \subseteq overdue /\ Cardinality(S) <= BatchSize
        /\ \A o \in S : /\ orders[o].status \in B!LiveStatus
                        /\ wo[self][o] = B!Marked(orders[o], "expired")
    BY DEF Moving, OrdersMarked, From, To
  <1>2. S \subseteq B!Due
    BY <1>1 DEF B!Due, B!Live
  <1>3. \A p : MovedOf(self, p) = B!OfProduct(S, p)
    BY AllMoved, MovingOrders DEF B!OfProduct
  <1>4. ASSUME NEW p \in DOMAIN stock
        PROVE  /\ Cardinality(B!OfProduct(S, p)) <= stock[p].num_reserved
               /\ stock'[p] = B!Released(stock[p], Cardinality(B!OfProduct(S, p)))
    <2> DEFINE M == MovedOf(self, p)
    <2>1. M \in SUBSET DOMAIN wo[self] /\ \A o \in M : wo[self][o].product = p
      BY AllMoved
    <2>2. /\ stock[p] \in B!Stock /\ Cardinality(M) \in Nat
          /\ Cardinality(M) <= stock[p].num_reserved
      BY <2>1, MovedAreReserved
    <2>3. B!Released(stock[p], Cardinality(M)) = Less("sweep", stock[p], Cardinality(M))
      BY <2>2, LessOne DEF Less
    <2>4. CASE p \in DOMAIN ws[self]
      BY <1>3, <2>2, <2>3, <2>4, AllMoved, Published DEF Rows
    <2>5. CASE p \notin DOMAIN ws[self]
      <3>1. M = {}
        BY <2>1, <2>5, AllMoved
      <3>2. Cardinality(M) = 0
        BY <3>1, FS_EmptySet
      <3>3. Less("sweep", stock[p], 0) = stock[p]
        BY <2>2 DEF Less, B!Stock
      <3>4. stock'[p] = stock[p]
        BY <2>5, Published DEF Rows
      <3> QED
        BY <1>3, <2>2, <2>3, <3>2, <3>3, <3>4
    <2> QED
      BY <2>4, <2>5
  <1>5. stock' = [p \in DOMAIN stock |-> B!Released(stock[p], Cardinality(B!OfProduct(S, p)))]
    <2>1. DOMAIN stock' = DOMAIN stock
      BY AllMoved, Published DEF Rows
    <2> QED
      BY <1>4, <2>1, Published DEF Tables, Table
  <1>6. Rows(self) /\ Tables /\ Tables'
    BY Published
  <1>7. DOMAIN orders' = DOMAIN orders /\ DOMAIN initial' = DOMAIN initial
    BY <1>1, <1>6, AllMoved DEF Rows
  <1>8. orders' = [o \in DOMAIN orders |-> IF o \in S THEN B!Marked(orders[o], "expired") ELSE orders[o]]
    BY <1>1, <1>6, <1>7 DEF Rows, Tables, Table
  <1>9. initial' = initial
    BY <1>6, <1>7 DEF Rows, Tables, Table
  <1>10. B!SweepExpired(S)
    BY <1>1, <1>2, <1>4, <1>5, <1>8, <1>9, SameSizes DEF B!SweepExpired
  <1> QED
    BY <1>1, <1>10 DEF B!Next

(* Every COMMIT is a step of OrderBook and disturbs nobody else's rows.    *)
LEMMA CommitStep ==
    ASSUME TxInv, NEW self \in Proc, Commit(self)
    PROVE  TxInv' /\ [B!Next]_(B!vars)
  <1> DEFINE o == job[self].order
  <1>1. /\ pc[self] = "commit" /\ Publish(self) /\ Return(self)
        /\ UNCHANGED <<overdue, seq, stripe, refunds>>
        /\ \/ settled' = IF job[self].kind = "fulfill" THEN settled \cup {o} ELSE settled
           \/ settled' = settled
        /\ faults' = faults \/ Fault
    BY DEF Commit
  <1>2. Creating(self) \/ Reserving(self) \/ Moving(self)
    <2>1. Local(self)
      BY DEF TxInv
    <2> QED
      BY <1>1, <2>1 DEF Local, Resting, CheckingOut, Guarding, Classifying
  <1>3. /\ B!Next
        /\ job[self].kind = "fulfill" => o \in DOMAIN orders' /\ orders'[o].status = "completed"
    <2>1. CASE Creating(self)
      BY <1>1, <2>1, CommitCreate DEF Creating
    <2>2. CASE Reserving(self)
      BY <1>1, <2>2, CommitReserve DEF Reserving
    <2>3. CASE Moving(self) /\ job[self].kind # "sweep"
      BY <1>1, <2>3, CommitOne
    <2>4. CASE Moving(self) /\ job[self].kind = "sweep"
      BY <1>1, <2>4, CommitSweep
    <2> QED
      BY <1>2, <2>1, <2>2, <2>3, <2>4
  <1>4. [B!Next]_(B!vars) /\ B!LifecycleStep
    BY <1>3, BookStep DEF TxInv
  <1>5. Rows(self)
    BY <1>1, Published
  <1>6. /\ Shape' /\ Local(self)' /\ ~Unnumbered(self)'
        /\ \A q \in Others(self) : SameProcess(q)
        /\ DOMAIN wo'[self] = {} /\ DOMAIN ws'[self] = {}
    BY <1>1, Returned DEF TxInv
  <1>7. Numbering'
    BY <1>1, <1>5, <1>6, NumberingKept DEF Rows
  <1>8. Payments'
    <2>1. faults' \in 0..MaxFaults
      BY <1>1, TxAssumption DEF TxInv, Payments, Fault
    <2>2. \A x \in settled' : x \in DOMAIN orders' /\ orders'[x].status = "completed"
      BY <1>1, <1>3, <1>4 DEF TxInv, Payments, B!LifecycleStep, B!Terminal, B!Status, B!LiveStatus
    <2> QED
      BY <1>1, <1>4, <2>1, <2>2
         DEF TxInv, Payments, stripe, B!LifecycleStep, B!Terminal, B!Status, B!LiveStatus
  <1>9. ASSUME NEW q \in Others(self) PROVE RowsKept(q)
    <2>1. DOMAIN wo[q] \cap DOMAIN wo[self] = {} /\ DOMAIN ws[q] \cap DOMAIN ws[self] = {}
      BY DEF TxInv, Exclusive, Others
    <2> QED
      BY <1>1, <1>5, <2>1 DEF RowsKept, Rows
  <1>10. DOMAIN stock \subseteq DOMAIN stock'
    BY <1>5 DEF Rows
  <1> QED
    BY <1>1, <1>4, <1>6, <1>7, <1>8, <1>9, <1>10, Assemble DEF stripe

----------------------------------------------------------------------------
(* The clock, Stripe and the buyer touch no process and no lock.           *)
LEMMA OutsideStep ==
    ASSUME TxInv, UNCHANGED <<seq, local, intents>>, [B!Next]_(B!vars),
           orders' = orders, stock' = stock, overdue \subseteq overdue', Payments'
    PROVE  TxInv'
  <1>1. Book' /\ B!LifecycleStep
    BY BookStep DEF TxInv
  <1>2. \A q \in Proc : SameProcess(q) /\ RowsKept(q)
    BY DEF local, SameProcess, RowsKept
  <1>3. \A q \in Proc : Local(q)'
    BY <1>1, <1>2, Frame DEF TxInv
  <1>4. Shape' /\ Exclusive'
    BY DEF local, Shape, Exclusive, TxInv
  <1>5. Numbering'
    <2>1. UnnumberedProcs' = UnnumberedProcs
      BY DEF UnnumberedProcs, Unnumbered, local
    <2> QED
      BY <2>1 DEF TxInv, Numbering, local
  <1> QED
    BY <1>1, <1>3, <1>4, <1>5 DEF TxInv

(* A payment, a decline, or a deadline that passes.                        *)
LEMMA WorldStep ==
    ASSUME TxInv, NEW o \in OrderId, Pay(o) \/ Decline(o) \/ Elapse(o)
    PROVE  TxInv' /\ [B!Next]_(B!vars)
  <1>1. CASE Pay(o)
    <2>1. /\ o \in secrets /\ events' = events \cup {<<"succeeded", o>>}
          /\ UNCHANGED <<database, seq, local, intents, secrets, verdicts, faults>>
      BY <1>1 DEF Pay
    <2>2. Payments'
      BY <2>1 DEF TxInv, Payments, database, verdicts
    <2> QED
      BY <2>1, <2>2, QuietTables, OutsideStep DEF database
  <1>2. CASE Decline(o)
    <2>1. /\ events' = events \cup {<<"failed", o>>}
          /\ UNCHANGED <<database, seq, local, intents, secrets, verdicts, faults>>
      BY <1>2 DEF Decline
    <2>2. Payments'
      BY <2>1 DEF TxInv, Payments, database, verdicts
    <2> QED
      BY <2>1, <2>2, QuietTables, OutsideStep DEF database
  <1>3. CASE Elapse(o)
    <2>1. B!Elapse(o) /\ UNCHANGED <<seq, local, stripe, verdicts, faults>>
      BY <1>3 DEF Elapse
    <2>2. [B!Next]_(B!vars) /\ orders' = orders /\ stock' = stock /\ overdue \subseteq overdue'
      BY <2>1 DEF B!Next, B!Elapse
    <2>3. Payments'
      BY <2>1, <2>2 DEF TxInv, Payments, stripe, verdicts
    <2> QED
      BY <2>1, <2>2, <2>3, OutsideStep DEF stripe
  <1> QED
    BY <1>1, <1>2, <1>3

----------------------------------------------------------------------------
(* Nothing is written and nobody is at work at the start.                  *)
LEMMA InitInv == Init => TxInv
  <1> SUFFICES ASSUME Init PROVE TxInv
    OBVIOUS
  <1>1. Book
    BY BookInit DEF Init
  <1>2. \A q \in Proc : /\ pc[q] = "idle" /\ DOMAIN wo[q] = {} /\ DOMAIN ws[q] = {} /\ todo[q] = <<>>
    BY DEF Init, NoRows
  <1>3. Shape
    BY DEF Init, Shape, Steps, Table, NoRows
  <1>4. Numbering
    <2>1. UnnumberedProcs = {}
      BY <1>2 DEF UnnumberedProcs, Unnumbered
    <2>2. IsFiniteSet(UnnumberedProcs) /\ Cardinality(UnnumberedProcs) = 0
      BY <2>1, FS_EmptySet
    <2>3. DOMAIN orders = {}
      BY DEF Init, B!Init
    <2> QED
      BY <1>2, <2>2, <2>3, TxAssumption DEF Init, Numbering
  <1>5. Exclusive
    BY <1>2 DEF Exclusive
  <1>6. \A q \in Proc : Local(q)
    BY <1>2 DEF Local, Resting, Clean, NoOrders, NoStock
  <1>7. Payments
    BY TxAssumption DEF Init, Payments
  <1> QED
    BY <1>1, <1>3, <1>4, <1>5, <1>6, <1>7 DEF TxInv

(* The invariant is inductive, and every step is a step of OrderBook or    *)
(* leaves the tables alone: one case per action.                           *)
LEMMA Step == TxInv /\ [Next]_vars => TxInv' /\ [B!Next]_(B!vars)
  <1> SUFFICES ASSUME TxInv, [Next]_vars PROVE TxInv' /\ [B!Next]_(B!vars)
    OBVIOUS
  <1>1. ASSUME NEW self \in Request, NewRequest(self) PROVE TxInv' /\ [B!Next]_(B!vars)
    <2>1. self \in Proc
      BY DEF Proc
    <2> QED
      BY <1>1, <2>1, CreateProductStep, BeginReserveStep, BeginCheckoutStep, BeginCancelStep DEF NewRequest
  <1>2. ASSUME NEW self \in Worker, NEW type \in {"succeeded", "failed"}, NEW o \in OrderId,
               BeginEvent(self, type, o)
        PROVE  TxInv' /\ [B!Next]_(B!vars)
    <2>1. self \in Proc
      BY DEF Proc
    <2> QED
      BY <1>2, <2>1, BeginEventStep
  <1>3. ASSUME NEW self \in Sweeper, ExpireOrders(self) PROVE TxInv' /\ [B!Next]_(B!vars)
    BY <1>3, ExpireOrdersStep
  <1>4. ASSUME NEW self \in Proc, Continue(self) PROVE TxInv' /\ [B!Next]_(B!vars)
    BY <1>4, ReserveStockStep, CreateOrderStep, ReserveAndCreateOrderStep, CreatePaymentIntentStep,
       MarkOrderAwaitingPaymentStep, GuardedUpdateStep, MoveUnitStep, ClassifyStep, CommitStep, AbortStep
       DEF Continue
  <1>5. ASSUME NEW self \in Proc, Abort(self) PROVE TxInv' /\ [B!Next]_(B!vars)
    BY <1>5, AbortStep
  <1>6. ASSUME NEW o \in OrderId, Pay(o) \/ Decline(o) \/ Elapse(o) PROVE TxInv' /\ [B!Next]_(B!vars)
    BY <1>6, WorldStep
  <1>7. CASE UNCHANGED vars
    <2>1. UNCHANGED <<database, seq, local, intents, secrets, events, settled, refunds, faults>>
      BY <1>7 DEF vars, stripe, verdicts
    <2>2. Payments'
      BY <2>1 DEF TxInv, Payments, database
    <2> QED
      BY <2>1, <2>2, QuietTables, OutsideStep DEF database
  <1> QED
    BY <1>1, <1>2, <1>3, <1>4, <1>5, <1>6, <1>7 DEF Next

----------------------------------------------------------------------------
(* The inductive invariant holds in every reachable state.                 *)
THEOREM Invariance == Spec => []TxInv
  <1> QED
    BY InitInv, Step, PTL DEF Spec

(* The committed tables and every row a transaction has written and not    *)
(* committed have their types.                                             *)
THEOREM TypeCorrect == Spec => []TypeOK
  <1>1. TxInv => TypeOK
    <2> SUFFICES ASSUME TxInv PROVE TypeOK
      OBVIOUS
    <2>1. seq \in 1..(MaxOrders + 1)
      <3>1. Cardinality(UnnumberedProcs) \in Nat
        BY FS_CardinalityType DEF TxInv, Numbering
      <3> QED
        BY <3>1, TxAssumption DEF TxInv, Numbering
    <2>2. ASSUME NEW q \in Proc
          PROVE  /\ DOMAIN wo[q] \subseteq OrderId /\ \A o \in DOMAIN wo[q] : wo[q][o] \in B!Order
                 /\ DOMAIN ws[q] \subseteq Product /\ \A p \in DOMAIN ws[q] : ws[q][p] \in B!Stock
                 /\ todo[q] \in Seq(OrderId)
      <3>1. CASE Clean(q)
        BY <3>1 DEF Clean, NoOrders, NoStock
      <3>2. CASE Creating(q)
        BY <3>2, TxAssumption DEF Creating, NoOrders, B!Stock
      <3>3. CASE Reserving(q)
        <4> DEFINE p == job[q].product
        <4>1. p \in DOMAIN stock /\ p \in Product /\ stock[p] \in B!Stock /\ job[q].caller \in Customer
          BY <3>3 DEF Reserving, TxInv, Book, B!TypeOK
        <4>2. B!NewOrder(job[q].caller, p) \in B!Order
          BY <4>1 DEF B!NewOrder, B!Order, B!Status
        <4>3. B!Reserved(stock[p]) \in B!Stock
          BY <4>1 DEF B!Reserved, B!Stock
        <4>4. DOMAIN wo[q] = {} \/ OrderWritten(q)
          BY <3>3 DEF Reserving, NoOrders
        <4>5. DOMAIN ws[q] = {} \/ UnitTaken(q)
          BY <3>3 DEF Reserving, NoStock
        <4>6. DOMAIN wo[q] \subseteq OrderId /\ \A o \in DOMAIN wo[q] : wo[q][o] \in B!Order
          BY <4>2, <4>4 DEF OrderWritten
        <4>7. DOMAIN ws[q] \subseteq Product /\ \A x \in DOMAIN ws[q] : ws[q][x] \in B!Stock
          BY <4>1, <4>3, <4>5 DEF UnitTaken
        <4> QED
          BY <3>3, <4>6, <4>7 DEF Reserving
      <3>4. CASE Moving(q)
        <4>1. DOMAIN wo[q] \subseteq OrderId
          BY <3>4 DEF Moving, OrdersMarked, TxInv, Book, B!TypeOK
        <4>2. To(job[q].kind) \in B!Status
          BY <3>4 DEF Moving, To, NewStatus, B!Status
        <4>3. \A o \in DOMAIN wo[q] : wo[q][o] \in B!Order
          BY <3>4, <4>2, MovingOrders, MarkedRow DEF Moving, OrdersMarked
        <4>4. DOMAIN ws[q] \subseteq DOMAIN stock /\ DOMAIN stock \subseteq Product
          BY <3>4, MovingOrders DEF Moving, UnitsMoved, Moved, TxInv, Book, B!TypeOK
        <4>5. ASSUME NEW p \in DOMAIN ws[q] PROVE ws[q][p] \in B!Stock
          <5> DEFINE n == Cardinality(MovedOf(q, p))
          <5>1. MovedOf(q, p) \in SUBSET DOMAIN wo[q] /\ \A o \in MovedOf(q, p) : wo[q][o].product = p
            BY DEF MovedOf, Moved
          <5>2. /\ stock[p] \in B!Stock /\ n \in Nat /\ n <= stock[p].num_reserved
                /\ stock[p].num_reserved <= stock[p].quantity
            BY <3>4, <4>4, <5>1, MovedAreReserved
          <5>3. ws[q][p] = Less(job[q].kind, stock[p], n)
            BY <3>4 DEF Moving, UnitsMoved
          <5> QED
            BY <5>2, <5>3, LessOne
        <4>6. todo[q] \in Seq(OrderId)
          BY <3>4, <4>1 DEF Moving, Listing
        <4> QED
          BY <4>1, <4>3, <4>4, <4>5, <4>6
      <3>5. Local(q)
        BY DEF TxInv
      <3> QED
        BY <3>1, <3>2, <3>3, <3>4, <3>5 DEF Local, Resting, CheckingOut, Guarding, Classifying
    <2>3. \A q \in Proc : /\ wo[q] \in [DOMAIN wo[q] -> B!Order]
                          /\ ws[q] \in [DOMAIN ws[q] -> B!Stock]
      BY <2>2 DEF TxInv, Shape, Table
    <2>4. settled \subseteq OrderId /\ refunds \subseteq OrderId
      BY DEF TxInv, Payments, Book, B!TypeOK
    <2> QED
      BY <2>1, <2>2, <2>3, <2>4 DEF TypeOK, TxInv, Book, Shape, Steps, Payments
  <1> QED
    BY <1>1, Invariance, PTL

(* The statements of concurrent handlers, workers and sweepers, with       *)
(* crashes between any two, have the effect of OrderBook's atomic          *)
(* operations on the committed tables.                                     *)
THEOREM OrdersRefineOrderBook == Spec => ImplementsOrderBook
  <1>1. Init => B!Init
    BY DEF Init
  <1> QED
    BY <1>1, InitInv, Step, PTL DEF Spec, ImplementsOrderBook, B!Spec

(* A transaction that holds its order's row always finds the unit it is    *)
(* about to release or sell, and no version of a stock row it writes       *)
(* breaks the CHECK of the table.                                          *)
THEOREM BackstopsHold == Spec => []BackstopsNeverFire
  <1>1. TxInv => BackstopsNeverFire
    <2> SUFFICES ASSUME TxInv, NEW q \in Proc
                 PROVE  /\ pc[q] = "unit" => StockRow(q, UnitProduct(q)).num_reserved > 0
                        /\ \A p \in DOMAIN ws[q] : ws[q][p].num_reserved \in 0..ws[q][p].quantity
      BY DEF BackstopsNeverFire
    <2>1. ASSUME pc[q] = "unit" PROVE StockRow(q, UnitProduct(q)).num_reserved > 0
      <3> DEFINE p == UnitProduct(q)
                 n == Cardinality(MovedOf(q, p))
      <3>1. /\ stock[p] \in B!Stock /\ n \in Nat /\ n + 1 <= stock[p].num_reserved
            /\ StockRow(q, p) = Less(job[q].kind, stock[p], n)
        BY <2>1, UnitIsThere
      <3>2. stock[p].num_reserved \in Nat /\ StockRow(q, p).num_reserved = stock[p].num_reserved - n
        BY <3>1, LessOne DEF B!Stock
      <3> QED
        BY <3>1, <3>2
    <2>2. ASSUME NEW p \in DOMAIN ws[q] PROVE ws[q][p].num_reserved \in 0..ws[q][p].quantity
      <3>1. CASE Creating(q)
        BY <3>1 DEF Creating
      <3>2. CASE Reserving(q)
        <4>1. /\ p = job[q].product /\ p \in DOMAIN stock
              /\ B!Available(stock[p]) /\ ws[q][p] = B!Reserved(stock[p])
          BY <3>2 DEF Reserving, NoStock, UnitTaken
        <4>2. stock[p] \in B!Stock
          BY <4>1 DEF TxInv, Book, B!TypeOK
        <4> QED
          BY <4>1, <4>2 DEF B!Available, B!Reserved, B!Stock
      <3>3. CASE Moving(q)
        <4> DEFINE n == Cardinality(MovedOf(q, p))
        <4>1. p \in DOMAIN stock /\ ws[q][p] = Less(job[q].kind, stock[p], n)
          BY <3>3, MovingOrders DEF Moving, UnitsMoved, Moved
        <4>2. MovedOf(q, p) \in SUBSET DOMAIN wo[q] /\ \A o \in MovedOf(q, p) : wo[q][o].product = p
          BY DEF MovedOf, Moved
        <4>3. /\ stock[p] \in B!Stock /\ n \in Nat /\ n <= stock[p].num_reserved
              /\ stock[p].num_reserved <= stock[p].quantity
          BY <3>3, <4>1, <4>2, MovedAreReserved
        <4>4. ws[q][p] \in B!Stock /\ ws[q][p].num_reserved <= ws[q][p].quantity
          BY <4>1, <4>3, LessOne
        <4> QED
          BY <4>4 DEF B!Stock
      <3>4. Local(q)
        BY DEF TxInv
      <3> QED
        BY <3>1, <3>2, <3>3, <3>4
           DEF Local, Resting, CheckingOut, Guarding, Classifying, Clean, NoStock
    <2> QED
      BY <2>1, <2>2
  <1> QED
    BY <1>1, Invariance, PTL

(* A payment reported for refund belongs to an order that has expired or   *)
(* failed, for good.                                                       *)
THEOREM AlarmsAreTrue == Spec => []NoFalseAlarm
  <1>1. TxInv => NoFalseAlarm
    BY DEF TxInv, Payments, NoFalseAlarm
  <1> QED
    BY <1>1, Invariance, PTL

(* A payment FulfillPayment has settled is a completed order, and a paid   *)
(* intent always leads to its order.                                       *)
THEOREM NoPaymentIsLost == Spec => []NoSilentLoss
  <1>1. TxInv => NoSilentLoss
    BY DEF TxInv, Payments, NoSilentLoss
  <1> QED
    BY <1>1, Invariance, PTL

(* Who holds a stock row and waits for another is a sweeper: every other   *)
(* transaction takes one stock row, last.                                  *)
LEMMA WaitersWithStock ==
    ASSUME TxInv, NEW a \in Proc, NEW b \in Proc, WaitsFor(a, b), DOMAIN ws[a] # {}
    PROVE  a \in Sweeper
  <1>1. Local(a)
    BY DEF TxInv
  <1>2. Moving(a) /\ pc[a] = "unit"
    BY <1>1 DEF WaitsFor, Local, Resting, Creating, Reserving, CheckingOut, Guarding, Classifying, Moving,
                Clean, NoStock
  <1>3. Head(todo[a]) \in ToMove(a) /\ Head(todo[a]) \in DOMAIN wo[a]
    BY <1>2, UnitIsThere
  <1>4. PICK o \in Moved(a) : TRUE
    BY <1>2 DEF Moving, UnitsMoved
  <1>5. o \in DOMAIN wo[a] /\ o # Head(todo[a])
    BY <1>3, <1>4 DEF Moved
  <1> QED
    BY <1>2, <1>3, <1>5 DEF Moving, OrdersMarked

(* Who waits and is waited for holds an order row, and waits for stock:    *)
(* the statements that wait for an order row come first.                   *)
LEMMA WaitersWanted ==
    ASSUME TxInv, NEW a \in Proc, NEW b \in Proc, NEW c \in Proc, WaitsFor(a, b), WaitsFor(c, a)
    PROVE  DOMAIN ws[b] # {}
  <1>1. Local(a)
    BY DEF TxInv
  <1>2. DOMAIN wo[a] # {} \/ DOMAIN ws[a] # {}
    BY DEF WaitsFor
  <1>3. pc[a] \notin {"mark", "guard"}
    BY <1>1, <1>2 DEF Local, Resting, Creating, Reserving, CheckingOut, Guarding, Classifying, Moving,
                      Clean, NoStock, NoOrders
  <1> QED
    BY <1>3 DEF WaitsFor

(* Every member of a cycle is a sweeper: it holds the stock row of whoever *)
(* waits for it, and waits for another one.                                *)
LEMMA CyclesOfSweepers ==
    ASSUME TxInv, NEW S \in SUBSET Proc, NEW a \in S,
           \A x \in S : (\E y \in S : WaitsFor(x, y)) /\ (\E y \in S : WaitsFor(y, x))
    PROVE  a \in Sweeper
  <1>1. PICK b \in S : WaitsFor(a, b)
    OBVIOUS
  <1>2. PICK c \in S : WaitsFor(c, a)
    OBVIOUS
  <1>3. PICK d \in S : WaitsFor(d, c)
    OBVIOUS
  <1>4. DOMAIN ws[a] # {}
    BY <1>2, <1>3, WaitersWanted
  <1> QED
    BY <1>1, <1>4, WaitersWithStock

(* The victim of a deadlock is a sweep, which the next tick repeats: never *)
(* a buyer's request or a payment, however many run at once.               *)
THEOREM OnlySweepersDeadlock == Spec => []OnlySweepersInCycles
  <1>1. TxInv => OnlySweepersInCycles
    BY CyclesOfSweepers DEF InCycle, OnlySweepersInCycles
  <1> QED
    BY <1>1, Invariance, PTL

(* With at most one sweeper no transactions wait for each other: the       *)
(* deadlock detector never has anything to do.                             *)
THEOREM LocksAreOrdered ==
    ASSUME \A s, t \in Sweeper : s = t
    PROVE  Spec => []NoLockCycle
  <1>1. TxInv => NoLockCycle
    <2> SUFFICES ASSUME TxInv, NEW self \in Proc, InCycle(self) PROVE FALSE
      BY DEF NoLockCycle
    <2>1. PICK S \in SUBSET Proc :
              /\ self \in S
              /\ \A a \in S : (\E b \in S : WaitsFor(a, b)) /\ (\E b \in S : WaitsFor(b, a))
      BY DEF InCycle
    <2>2. PICK b \in S : WaitsFor(self, b)
      BY <2>1
    <2>3. self \in Sweeper /\ b \in Sweeper
      BY <2>1, CyclesOfSweepers
    <2>4. b # self
      BY <2>2 DEF WaitsFor
    <2> QED
      BY <2>3, <2>4
  <1> QED
    BY <1>1, Invariance, PTL

(* The interleaved statements, whatever the arms: never more orders than   *)
(* units, in the committed tables.                                         *)
THEOREM NeverOversoldAtReadCommitted == Spec => []B!NoOversell
  <1>1. TxInv => B!NoOversell
    BY DEF TxInv, Book
  <1> QED
    BY <1>1, Invariance, PTL
=============================================================================
