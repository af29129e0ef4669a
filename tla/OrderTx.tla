------------------------------ MODULE OrderTx ------------------------------
(***************************************************************************)
(* The order service statement by statement, as PostgreSQL runs it at READ *)
(* COMMITTED: request handlers, payment workers and sweepers interleave    *)
(* between any two statements, and any of them may fail between any two.   *)
(*                                                                         *)
(* A transaction keeps the rows it has written to itself (wo, ws) until it *)
(* commits.  A written row is locked until then.  An UPDATE looks at the   *)
(* committed row: if its WHERE fails there it returns no rows at once; if  *)
(* it holds, the statement waits until nobody else holds the row, and by   *)
(* then judges the newest version.  So an UPDATE is one step, taken when   *)
(* it gets through.  FOR UPDATE SKIP LOCKED passes held rows over.         *)
(*                                                                         *)
(* An intent is named by its order: the gateway's idempotency key is made  *)
(* of the order id, so Stripe keeps one intent per order.  Stripe and the  *)
(* buyer are external.  Customer resolution is in a module of its own.     *)
(*                                                                         *)
(* An operator named Mutant... is the definition after it with a plausible *)
(* bug: no specification uses it, only the mutation runs put it in place.  *)
(***************************************************************************)
EXTENDS Integers, FiniteSets, Sequences

CONSTANTS
    Request, Worker, Sweeper,  \* goroutines: handlers, inbox workers, sweepers
    Product, Customer,
    Calls,        \* scope: the calls the buyers and the seller make
    Arms,         \* the reserve strategies in use: RESERVE_STRATEGY
    MaxOrders,    \* bound: ids handed out by orders_id_seq
    MaxQuantity,  \* bound: the largest quantity of a new product
    BatchSize,    \* SWEEP_BATCH_SIZE
    MaxFaults     \* bound: failed statements, lost connections, crashes

ASSUME TxAssumption ==
    /\ Calls \subseteq {"create", "reserve", "checkout", "cancel"}
    /\ Arms \subseteq {"baseline", "reserve-last", "cte"}
    /\ MaxOrders \in Nat /\ MaxQuantity \in Nat /\ MaxFaults \in Nat
    /\ BatchSize \in Nat \ {0}

OrderId == 1..MaxOrders
Proc == Request \cup Worker \cup Sweeper

VARIABLES
    orders, stock, initial, overdue,   \* the committed database, as in OrderBook
    seq,          \* orders_id_seq: never rolled back
    pc,           \* the next statement of every process
    job,          \* the call a process serves
    wo, ws,       \* rows of orders and of stock it has written, not committed
    todo,         \* its orders whose unit is still to be released or sold
    intents,      \* Stripe: the intents that exist
    secrets,      \* the buyer holds the client secret of these intents
    events,       \* Stripe: the events there are to deliver
    settled,      \* FulfillPayment has returned nil for these orders
    refunds,      \* FulfillPayment has returned ErrPaidButNotFulfillable
    faults        \* faults so far

database == <<orders, stock, initial, overdue>>
local == <<pc, job, wo, ws, todo>>
stripe == <<intents, secrets, events>>
verdicts == <<settled, refunds>>
vars == <<database, seq, local, stripe, verdicts, faults>>

(* The abstract specification, on the committed database: what a           *)
(* transaction has written is not there until it commits.                  *)
B == INSTANCE OrderBook WITH
        OrderId <- OrderId, Product <- Product, Customer <- Customer,
        MaxQuantity <- MaxQuantity, BatchSize <- BatchSize,
        orders <- orders, stock <- stock, initial <- initial, overdue <- overdue

NoRows == [k \in {} |-> k]
Idle == [kind |-> "idle"]

Overlay(table, written) ==
    [k \in DOMAIN table \cup DOMAIN written |-> IF k \in DOMAIN written THEN written[k] ELSE table[k]]

(* The row a statement of self sees: its own version before the table's.   *)
StockRow(self, p) == Overlay(stock, ws[self])[p]

OrderFree(self, o) == \A q \in Proc \ {self} : o \notin DOMAIN wo[q]
StockFree(self, p) == \A q \in Proc \ {self} : p \notin DOMAIN ws[q]

Orderings(S) ==
    {s \in [1..Cardinality(S) -> S] : \A i, j \in 1..Cardinality(S) : i # j => s[i] # s[j]}

----------------------------------------------------------------------------
(* Control.                                                                *)

Start(self, step, call) ==
    /\ pc[self] = "idle"
    /\ pc' = [pc EXCEPT ![self] = step]
    /\ job' = [job EXCEPT ![self] = call]

Goto(self, step) == pc' = [pc EXCEPT ![self] = step] /\ UNCHANGED job

(* The call returns; what it wrote and did not commit is rolled back.      *)
MutantReturn(self) ==
    /\ pc' = [pc EXCEPT ![self] = "idle"]
    /\ job' = [job EXCEPT ![self] = Idle]
    /\ UNCHANGED <<wo, ws, todo>>
Return(self) ==
    /\ pc' = [pc EXCEPT ![self] = "idle"]
    /\ job' = [job EXCEPT ![self] = Idle]
    /\ wo' = [wo EXCEPT ![self] = NoRows]
    /\ ws' = [ws EXCEPT ![self] = NoRows]
    /\ todo' = [todo EXCEPT ![self] = <<>>]

WriteOrder(self, o, row) == wo' = [wo EXCEPT ![self] = Overlay(@, [k \in {o} |-> row])]
WriteStock(self, p, row) == ws' = [ws EXCEPT ![self] = Overlay(@, [k \in {p} |-> row])]

Fault == faults < MaxFaults /\ faults' = faults + 1

(* pgx reports an error, the context ends, or the process dies: the server *)
(* rolls the transaction back.                                             *)
Abort(self) ==
    /\ pc[self] # "idle"
    /\ Fault
    /\ Return(self)
    /\ UNCHANGED <<database, seq, stripe, verdicts>>

Publish(self) ==
    /\ orders' = Overlay(orders, wo[self])
    /\ stock' = Overlay(stock, ws[self])
    /\ initial' = [p \in DOMAIN stock' |->
                      IF p \in DOMAIN initial THEN initial[p] ELSE stock'[p].quantity]

(* COMMIT.  The answer may be lost after the server has committed: the     *)
(* caller then sees an error and its verdict is not recorded.              *)
Commit(self) ==
    /\ pc[self] = "commit"
    /\ Publish(self)
    /\ Return(self)
    /\ \/ /\ settled' = IF job[self].kind = "fulfill" THEN settled \cup {job[self].order} ELSE settled
          /\ UNCHANGED faults
       \/ Fault /\ UNCHANGED settled
    /\ UNCHANGED <<overdue, seq, stripe, refunds>>

----------------------------------------------------------------------------
(* POST /products.  The product and its stock row are invisible until the  *)
(* commit.                                                                 *)
CreateProduct(self, p, q) ==
    /\ p \notin DOMAIN stock
    /\ \A x \in Proc : p \notin DOMAIN ws[x]
    /\ Start(self, "commit", [kind |-> "create"])
    /\ WriteStock(self, p, [quantity |-> q, num_reserved |-> 0])
    /\ UNCHANGED <<database, seq, wo, todo, stripe, verdicts, faults>>

(* A reservation in flight that has not taken its order id yet.            *)
Unnumbered(self) ==
    \/ pc[self] \in {"create_order", "reserve_and_create"}
    \/ pc[self] = "reserve_stock" /\ job[self].arm = "baseline"

(* POST /orders, up to FindProductByID; the strategy decides what is next. *)
BeginReserve(self, c, p, arm) ==
    /\ p \in DOMAIN stock
    /\ seq + Cardinality({q \in Proc : Unnumbered(q)}) <= MaxOrders
    /\ Start(self,
             CASE arm = "baseline" -> "reserve_stock"
               [] arm = "reserve-last" -> "create_order"
               [] arm = "cte" -> "reserve_and_create",
             [kind |-> "reserve", caller |-> c, product |-> p, arm |-> arm])
    /\ UNCHANGED <<database, seq, wo, ws, todo, stripe, verdicts, faults>>

ReserveStock(self) ==
    LET p == job[self].product
        row == StockRow(self, p)
    IN  /\ pc[self] = "reserve_stock"
        /\ \/ /\ ~B!Available(row)        \* ErrOutOfStock
              /\ Return(self)
           \/ /\ B!Available(row)
              /\ StockFree(self, p)
              /\ WriteStock(self, p, B!Reserved(row))
              /\ Goto(self, IF job[self].arm = "baseline" THEN "create_order" ELSE "commit")
              /\ UNCHANGED <<wo, todo>>
        /\ UNCHANGED <<database, seq, stripe, verdicts, faults>>

CreateOrder(self) ==
    /\ pc[self] = "create_order"
    /\ WriteOrder(self, seq, B!NewOrder(job[self].caller, job[self].product))
    /\ seq' = seq + 1
    /\ Goto(self, IF job[self].arm = "baseline" THEN "commit" ELSE "reserve_stock")
    /\ UNCHANGED <<database, ws, todo, stripe, verdicts, faults>>

(* The cte arm: one statement, committed by itself.                        *)
ReserveAndCreateOrder(self) ==
    LET p == job[self].product
    IN  /\ pc[self] = "reserve_and_create"
        /\ \/ /\ ~B!Available(stock[p])
              /\ UNCHANGED <<orders, stock, seq>>
           \/ /\ B!Available(stock[p])
              /\ StockFree(self, p)
              /\ stock' = [stock EXCEPT ![p] = B!Reserved(@)]
              /\ orders' = B!Insert(orders, seq, B!NewOrder(job[self].caller, p))
              /\ seq' = seq + 1
        /\ Return(self)
        /\ UNCHANGED <<initial, overdue, stripe, verdicts, faults>>

----------------------------------------------------------------------------
(* owns, for customers whose row has its subject: the fallback on the      *)
(* email of a row without one is left out.                                 *)
Owns(o, c) == o \in DOMAIN orders /\ orders[o].customer = c

(* POST /orders/{id}/checkout: read, ask Stripe, then mark.  Nothing is    *)
(* locked across the call to Stripe.                                       *)
BeginCheckout(self, c, o) ==
    /\ Owns(o, c)
    /\ orders[o].status = "pending"
    /\ Start(self, "create_intent", [kind |-> "checkout", caller |-> c, order |-> o])
    /\ UNCHANGED <<database, seq, wo, ws, todo, stripe, verdicts, faults>>

CreatePaymentIntent(self) ==
    /\ pc[self] = "create_intent"
    /\ intents' = intents \cup {job[self].order}
    /\ Goto(self, "mark")
    /\ UNCHANGED <<database, seq, wo, ws, todo, secrets, events, verdicts, faults>>

(* One autocommitted UPDATE.  The buyer gets the client secret unless the  *)
(* answer is lost.                                                         *)
MutantMarkOrderAwaitingPayment(self) ==
    LET o == job[self].order
    IN  /\ pc[self] = "mark"
        /\ OrderFree(self, o)
        /\ orders' = [orders EXCEPT ![o].status = "awaiting_payment", ![o].intent = TRUE]
        /\ overdue' = overdue \ {o}
        /\ secrets' = secrets \cup {o}
        /\ Return(self)
        /\ UNCHANGED <<stock, initial, seq, intents, events, verdicts, faults>>
MarkOrderAwaitingPayment(self) ==
    LET o == job[self].order
    IN  /\ pc[self] = "mark"
        /\ \/ /\ orders[o].status # "pending"      \* ErrOrderNotPending
              /\ UNCHANGED <<orders, overdue, secrets, faults>>
           \/ /\ orders[o].status = "pending"
              /\ OrderFree(self, o)
              /\ orders' = [orders EXCEPT ![o].status = "awaiting_payment", ![o].intent = TRUE]
              /\ overdue' = overdue \ {o}
              /\ \/ secrets' = secrets \cup {o} /\ UNCHANGED faults
                 \/ Fault /\ UNCHANGED secrets
        /\ Return(self)
        /\ UNCHANGED <<stock, initial, seq, intents, events, verdicts>>

(* DELETE /orders/{id}, up to the ownership check.                         *)
BeginCancel(self, c, o) ==
    /\ Owns(o, c)
    /\ Start(self, "guard", [kind |-> "cancel", order |-> o])
    /\ UNCHANGED <<database, seq, wo, ws, todo, stripe, verdicts, faults>>

----------------------------------------------------------------------------
(* The worker applies an event: FulfillPayment or FailPayment, up to       *)
(* FindOrderByPaymentIntentID.                                             *)
BeginEvent(self, type, o) ==
    /\ <<type, o>> \in events
    /\ o \in DOMAIN orders /\ orders[o].intent
    /\ Start(self, "guard", [kind |-> IF type = "succeeded" THEN "fulfill" ELSE "fail", order |-> o])
    /\ UNCHANGED <<database, seq, wo, ws, todo, stripe, verdicts, faults>>

(* CancelPendingOrder, CompleteOrder and FailOrder: the guarded UPDATE     *)
(* that decides whether this transaction may touch the order's unit.       *)
GuardStatus(kind) == IF kind = "cancel" THEN "pending" ELSE "awaiting_payment"
NewStatus(kind) ==
    CASE kind = "cancel" -> "cancelled" [] kind = "fulfill" -> "completed" [] kind = "fail" -> "failed"

MutantGuardedUpdate(self) ==
    LET o == job[self].order
    IN  /\ pc[self] = "guard"
        /\ OrderFree(self, o)
        /\ WriteOrder(self, o, B!Marked(orders[o], NewStatus(job[self].kind)))
        /\ todo' = [todo EXCEPT ![self] = <<o>>]
        /\ Goto(self, "unit")
        /\ UNCHANGED <<database, seq, ws, stripe, verdicts, faults>>
MutantGuardedUpdateStockFirst(self) ==
    LET o == job[self].order
        p == orders[o].product
    IN  /\ pc[self] = "guard"
        /\ orders[o].status = GuardStatus(job[self].kind)
        /\ IF p \in DOMAIN ws[self]
             THEN /\ OrderFree(self, o)
                  /\ WriteOrder(self, o, B!Marked(orders[o], NewStatus(job[self].kind)))
                  /\ Goto(self, "commit")
                  /\ UNCHANGED ws
             ELSE /\ StockFree(self, p)
                  /\ WriteStock(self, p, IF job[self].kind = "fulfill" THEN B!Committed(stock[p])
                                                                      ELSE B!Released(stock[p], 1))
                  /\ UNCHANGED <<pc, job, wo>>
        /\ UNCHANGED <<database, seq, todo, stripe, verdicts, faults>>
GuardedUpdate(self) ==
    LET o == job[self].order
        kind == job[self].kind
    IN  /\ pc[self] = "guard"
        /\ \/ /\ orders[o].status # GuardStatus(kind)
              /\ IF kind = "fulfill" THEN Goto(self, "classify") /\ UNCHANGED <<wo, ws, todo>>
                                     ELSE Return(self)
           \/ /\ orders[o].status = GuardStatus(kind)
              /\ OrderFree(self, o)
              /\ WriteOrder(self, o, B!Marked(orders[o], NewStatus(kind)))
              /\ todo' = [todo EXCEPT ![self] = <<o>>]
              /\ Goto(self, "unit")
              /\ UNCHANGED ws
        /\ UNCHANGED <<database, seq, stripe, verdicts, faults>>

(* ReleaseStock, or CommitStock for a payment: one unit of the product of  *)
(* the next order in todo.  No row (num_reserved = 0) is an error and      *)
(* rolls everything back.                                                  *)
UnitProduct(self) == wo[self][Head(todo[self])].product

MoveUnit(self) ==
    LET p == UnitProduct(self)
        row == StockRow(self, p)
    IN  /\ pc[self] = "unit"
        /\ IF row.num_reserved > 0
             THEN /\ StockFree(self, p)
                  /\ WriteStock(self, p, IF job[self].kind = "fulfill" THEN B!Committed(row)
                                                                      ELSE B!Released(row, 1))
                  /\ todo' = [todo EXCEPT ![self] = Tail(@)]
                  /\ Goto(self, IF Len(todo[self]) = 1 THEN "commit" ELSE "unit")
                  /\ UNCHANGED wo
             ELSE Return(self)
        /\ UNCHANGED <<database, seq, stripe, verdicts, faults>>

(* A payment for an order CompleteOrder refused, judged on a fresh read.   *)
MutantClassify(self) ==
    /\ pc[self] = "classify"
    /\ refunds' = refunds \cup {job[self].order}
    /\ UNCHANGED settled
    /\ Return(self)
    /\ UNCHANGED <<database, seq, stripe, faults>>
MutantClassifyQuietly(self) ==
    /\ pc[self] = "classify"
    /\ settled' = settled \cup {job[self].order}
    /\ UNCHANGED refunds
    /\ Return(self)
    /\ UNCHANGED <<database, seq, stripe, faults>>
Classify(self) ==
    LET o == job[self].order
    IN  /\ pc[self] = "classify"
        /\ IF orders[o].status = "completed"
             THEN settled' = settled \cup {o} /\ UNCHANGED refunds
             ELSE refunds' = refunds \cup {o} /\ UNCHANGED settled
        /\ Return(self)
        /\ UNCHANGED <<database, seq, stripe, faults>>

----------------------------------------------------------------------------
(* The sweeper: ExpireOrders claims a batch of overdue orders nobody holds *)
(* and the units go back one by one, in the order RETURNING lists them.    *)
MutantClaimable(self) == B!Due
Claimable(self) == {o \in B!Due : OrderFree(self, o)}

ExpireOrders(self) ==
    \E S \in SUBSET Claimable(self) : \E list \in Orderings(S) :
        /\ S # {}
        /\ Cardinality(S) <= BatchSize
        /\ Cardinality(S) = BatchSize \/ S = Claimable(self)
        /\ Start(self, "unit", [kind |-> "sweep"])
        /\ wo' = [wo EXCEPT ![self] = [o \in S |-> B!Marked(orders[o], "expired")]]
        /\ todo' = [todo EXCEPT ![self] = list]
        /\ UNCHANGED <<database, seq, ws, stripe, verdicts, faults>>

----------------------------------------------------------------------------
(* Row locks.  A process waits for whoever holds the row its statement     *)
(* needs; PostgreSQL breaks a cycle by failing one of its members.         *)
WaitsFor(self, q) ==
    /\ q # self
    /\ \/ /\ \/ pc[self] = "mark" /\ orders[job[self].order].status = "pending"
             \/ pc[self] = "guard" /\ orders[job[self].order].status = GuardStatus(job[self].kind)
          /\ job[self].order \in DOMAIN wo[q]
       \/ /\ pc[self] \in {"reserve_stock", "reserve_and_create"}
          /\ B!Available(stock[job[self].product])
          /\ job[self].product \in DOMAIN ws[q]
       \/ pc[self] = "unit" /\ UnitProduct(self) \in DOMAIN ws[q]

InCycle(self) ==
    /\ \E q \in Proc : WaitsFor(self, q)
    /\ \E S \in SUBSET Proc :
        /\ self \in S
        /\ \A a \in S : (\E b \in S : WaitsFor(a, b)) /\ (\E b \in S : WaitsFor(b, a))

DeadlockDetected(self) ==
    /\ InCycle(self)
    /\ Return(self)
    /\ UNCHANGED <<database, seq, stripe, verdicts, faults>>

----------------------------------------------------------------------------
(* Stripe and the buyer.                                                   *)
Pay(o) ==
    /\ o \in secrets
    /\ events' = events \cup {<<"succeeded", o>>}
    /\ UNCHANGED <<database, seq, local, intents, secrets, verdicts, faults>>

(* A declined attempt, which may be tried again, or a canceled intent.     *)
Decline(o) ==
    /\ o \in intents
    /\ <<"succeeded", o>> \notin events
    /\ events' = events \cup {<<"failed", o>>}
    /\ UNCHANGED <<database, seq, local, intents, secrets, verdicts, faults>>

Elapse(o) ==
    /\ B!Elapse(o)
    /\ UNCHANGED <<seq, local, stripe, verdicts, faults>>

----------------------------------------------------------------------------
Init ==
    /\ B!Init
    /\ seq = 1
    /\ pc = [self \in Proc |-> "idle"]
    /\ job = [self \in Proc |-> Idle]
    /\ wo = [self \in Proc |-> NoRows]
    /\ ws = [self \in Proc |-> NoRows]
    /\ todo = [self \in Proc |-> <<>>]
    /\ intents = {} /\ secrets = {} /\ events = {}
    /\ settled = {} /\ refunds = {}
    /\ faults = 0

(* A process goes on with the call it has started.                         *)
Continue(self) ==
    \/ ReserveStock(self) \/ CreateOrder(self) \/ ReserveAndCreateOrder(self)
    \/ CreatePaymentIntent(self) \/ MarkOrderAwaitingPayment(self)
    \/ GuardedUpdate(self) \/ MoveUnit(self) \/ Classify(self)
    \/ Commit(self) \/ DeadlockDetected(self)

NewRequest(self) ==
    \/ "create" \in Calls /\ \E p \in Product, q \in 0..MaxQuantity : CreateProduct(self, p, q)
    \/ "reserve" \in Calls /\ \E c \in Customer, p \in Product, arm \in Arms : BeginReserve(self, c, p, arm)
    \/ "checkout" \in Calls /\ \E c \in Customer, o \in OrderId : BeginCheckout(self, c, o)
    \/ "cancel" \in Calls /\ \E c \in Customer, o \in OrderId : BeginCancel(self, c, o)

Next ==
    \/ \E self \in Request : NewRequest(self)
    \/ \E self \in Worker, type \in {"succeeded", "failed"}, o \in OrderId : BeginEvent(self, type, o)
    \/ \E self \in Sweeper : ExpireOrders(self)
    \/ \E self \in Proc : Continue(self) \/ Abort(self)
    \/ \E o \in OrderId : Pay(o) \/ Decline(o) \/ Elapse(o)

Spec == Init /\ [][Next]_vars

(* Goroutines that have started a call get to run it; the sweeper's ticker *)
(* keeps firing; PostgreSQL queues the waiters of a row lock, so a release *)
(* that could be granted again and again is granted.  Nothing is assumed   *)
(* of buyers, of Stripe or of new calls, and faults are finitely many.     *)
FairSpec ==
    /\ Spec
    /\ \A self \in Proc : WF_vars(Continue(self))
    /\ \A self \in Sweeper : WF_vars(ExpireOrders(self))
    /\ \A self \in Sweeper, n \in 1..BatchSize : SF_vars(MoveUnit(self) /\ Len(todo[self]) = n)

----------------------------------------------------------------------------
(* The committed tables have the types of OrderBook, and so do the rows a  *)
(* transaction has written and not committed: no unit count goes negative, *)
(* not even inside a transaction.                                          *)
TypeOK ==
    /\ B!TypeOK
    /\ seq \in 1..(MaxOrders + 1)
    /\ pc \in [Proc -> {"idle", "commit", "reserve_stock", "create_order", "reserve_and_create",
                        "create_intent", "mark", "guard", "unit", "classify"}]
    /\ \A self \in Proc :
        /\ DOMAIN wo[self] \subseteq OrderId /\ wo[self] \in [DOMAIN wo[self] -> B!Order]
        /\ DOMAIN ws[self] \subseteq Product /\ ws[self] \in [DOMAIN ws[self] -> B!Stock]
        /\ todo[self] \in Seq(OrderId)
    /\ intents \subseteq OrderId /\ secrets \subseteq intents
    /\ events \subseteq {"succeeded", "failed"} \X OrderId
    /\ settled \subseteq OrderId /\ refunds \subseteq OrderId
    /\ faults \in 0..MaxFaults

(* The interleaved statements have the effect of the atomic operations:    *)
(* every commit, and nothing else, is a step of OrderBook, so Accounting,  *)
(* NoOversell and Lifecycle hold of the tables.  The orders guard in the   *)
(* same transaction as the stock update is what makes this true.           *)
ImplementsOrderBook == B!Spec

(* Behind its guard no transaction meets the backstops: the WHERE          *)
(* num_reserved > 0 of ReleaseStock and CommitStock holds whenever they    *)
(* run, and no version of a stock row, committed or not, breaks the CHECK  *)
(* of the stock table.  (An ErrNoRows there would make the worker drop a   *)
(* payment as permanent.)                                                  *)
BackstopsNeverFire ==
    \A self \in Proc :
        /\ pc[self] = "unit" => StockRow(self, UnitProduct(self)).num_reserved > 0
        /\ \A p \in DOMAIN ws[self] : ws[self][p].num_reserved \in 0..ws[self][p].quantity

(* classifyUnfulfillable never raises a false refund alarm: an order it    *)
(* reports is expired or failed, now and for ever; never completed by a    *)
(* racing delivery, never live, and never cancelled, since an order that   *)
(* could be cancelled had no intent to pay.                                *)
NoFalseAlarm == \A o \in refunds : orders[o].status \in {"expired", "failed"}

(* and no payment disappears silently: when FulfillPayment has returned    *)
(* nil the order is completed, its unit sold; and the order of a paid      *)
(* intent is always found by FindOrderByPaymentIntentID.                   *)
NoSilentLoss ==
    /\ \A o \in settled : orders[o].status = "completed"
    /\ \A o \in OrderId : <<"succeeded", o>> \in events => o \in DOMAIN orders /\ orders[o].intent

(* Row locks are taken in one order, the order row and then the stock row: *)
(* with one sweeper no set of transactions waits for each other.           *)
NoLockCycle == \A self \in Proc : ~InCycle(self)

(* With more of them, only they do: no buyer's request and no payment is   *)
(* ever in a deadlock over these rows.                                     *)
OnlySweepersInCycles == \A self \in Proc : InCycle(self) => self \in Sweeper

(* The sweeper: a reservation that has run out is given up, whatever the   *)
(* other processes are in the middle of, unless checkout renews it.        *)
StockComesBack == \A o \in OrderId : (o \in B!Due) ~> (o \notin B!Due)
=============================================================================
