----------------------------- MODULE OrderBook -----------------------------
(***************************************************************************)
(* What the order service promises of its two tables, orders and stock:    *)
(* the committed effect of every transaction, each as one atomic step.     *)
(*                                                                         *)
(* A table is a function from the keys of its rows to the rows.  A product *)
(* and its stock row are created together, so stock stands for both.  The  *)
(* price, the names and the time stamps are left out; expires_at is kept   *)
(* as the set of orders whose deadline has passed.  OrderTx gives the same *)
(* operations statement by statement and implements this module.           *)
(*                                                                         *)
(* An operator named Mutant... is the definition after it with a plausible *)
(* bug: no specification uses it, only the mutation runs put it in place.  *)
(***************************************************************************)
EXTENDS Integers, FiniteSets

CONSTANTS
    OrderId,      \* the values of orders_id_seq
    Product,      \* product ids
    Customer,     \* customers.id
    MaxQuantity,  \* bound: the largest quantity a product is created with
    BatchSize     \* SWEEP_BATCH_SIZE, the LIMIT of ExpireOrders

ASSUME QuantityAssumption == MaxQuantity \in Nat
ASSUME BatchAssumption == BatchSize \in Nat \ {0}

VARIABLES
    orders,       \* the orders table
    stock,        \* the stock table
    initial,      \* history: the quantity every product was created with
    overdue       \* the orders with expires_at < now()

vars == <<orders, stock, initial, overdue>>

Status == {"pending", "awaiting_payment", "completed", "failed", "expired", "cancelled"}
LiveStatus == {"pending", "awaiting_payment"}
Terminal == Status \ LiveStatus

Order == [customer : Customer, product : Product, status : Status, intent : BOOLEAN]
Stock == [quantity : Nat, num_reserved : Nat]

Live == {o \in DOMAIN orders : orders[o].status \in LiveStatus}
LiveOf(p) == {o \in DOMAIN orders : orders[o].product = p /\ orders[o].status \in LiveStatus}
CompletedOf(p) == {o \in DOMAIN orders : orders[o].product = p /\ orders[o].status = "completed"}
Due == Live \cap overdue

Insert(table, key, row) ==
    [k \in DOMAIN table \cup {key} |-> IF k = key THEN row ELSE table[k]]

----------------------------------------------------------------------------
(* The statements, as functions of the row they change.                    *)

MutantAvailable(s) == s.quantity >= s.num_reserved
Available(s) == s.quantity - s.num_reserved > 0

Reserved(s) == [s EXCEPT !.num_reserved = @ + 1]

MutantCommitted(s) == [s EXCEPT !.quantity = @ - 1]
Committed(s) == [s EXCEPT !.quantity = @ - 1, !.num_reserved = @ - 1]

MutantReleased(s, n) == [s EXCEPT !.num_reserved = @ - n - 1]
Released(s, n) == [s EXCEPT !.num_reserved = @ - n]

NewOrder(c, p) == [customer |-> c, product |-> p, status |-> "pending", intent |-> FALSE]

Marked(row, status) == [row EXCEPT !.status = status]

OfProduct(S, p) == {o \in S : orders[o].product = p}

----------------------------------------------------------------------------
Init ==
    /\ orders = [o \in {} |-> o]
    /\ stock = [p \in {} |-> p]
    /\ initial = [p \in {} |-> p]
    /\ overdue = {}

(* POST /products: the product and its stock row.                          *)
CreateProduct(p, q) ==
    /\ p \notin DOMAIN stock
    /\ stock' = Insert(stock, p, [quantity |-> q, num_reserved |-> 0])
    /\ initial' = Insert(initial, p, q)
    /\ UNCHANGED <<orders, overdue>>

(* POST /orders: one unit reserved and a pending order for it.             *)
Reserve(o, c, p) ==
    /\ o \notin DOMAIN orders
    /\ p \in DOMAIN stock
    /\ Available(stock[p])
    /\ stock' = [stock EXCEPT ![p] = Reserved(@)]
    /\ orders' = Insert(orders, o, NewOrder(c, p))
    /\ UNCHANGED <<initial, overdue>>

(* POST /orders/{id}/checkout: the intent is attached, the deadline reset. *)
MutantMarkOrderAwaitingPayment(o) ==
    /\ o \in DOMAIN orders
    /\ orders' = [orders EXCEPT ![o].status = "awaiting_payment", ![o].intent = TRUE]
    /\ overdue' = overdue \ {o}
    /\ UNCHANGED <<stock, initial>>
MarkOrderAwaitingPayment(o) ==
    /\ o \in DOMAIN orders
    /\ orders[o].status = "pending"
    /\ orders' = [orders EXCEPT ![o].status = "awaiting_payment", ![o].intent = TRUE]
    /\ overdue' = overdue \ {o}
    /\ UNCHANGED <<stock, initial>>

(* An order leaves the status `from` for `to` and its unit goes back.      *)
Release(o, from, to) ==
    /\ o \in DOMAIN orders
    /\ orders[o].status = from
    /\ stock[orders[o].product].num_reserved > 0
    /\ orders' = [orders EXCEPT ![o] = Marked(@, to)]
    /\ stock' = [stock EXCEPT ![orders[o].product] = Released(@, 1)]
    /\ UNCHANGED <<initial, overdue>>

MutantCancelOrder(o) == Release(o, "awaiting_payment", "cancelled")
CancelOrder(o) == Release(o, "pending", "cancelled")

FailPayment(o) == Release(o, "awaiting_payment", "failed")

(* A confirmed payment: the reservation becomes a sale.                    *)
FulfillPayment(o) ==
    /\ o \in DOMAIN orders
    /\ orders[o].status = "awaiting_payment"
    /\ stock[orders[o].product].num_reserved > 0
    /\ orders' = [orders EXCEPT ![o] = Marked(@, "completed")]
    /\ stock' = [stock EXCEPT ![orders[o].product] = Committed(@)]
    /\ UNCHANGED <<initial, overdue>>

(* One sweep: a batch of overdue orders expires, every unit goes back.     *)
SweepExpired(S) ==
    /\ S # {}
    /\ S \subseteq Due
    /\ Cardinality(S) <= BatchSize
    /\ \A p \in DOMAIN stock : Cardinality(OfProduct(S, p)) <= stock[p].num_reserved
    /\ orders' = [o \in DOMAIN orders |-> IF o \in S THEN Marked(orders[o], "expired") ELSE orders[o]]
    /\ stock' = [p \in DOMAIN stock |-> Released(stock[p], Cardinality(OfProduct(S, p)))]
    /\ UNCHANGED <<initial, overdue>>

(* The clock passes the deadline of an order that still holds its unit.    *)
Elapse(o) ==
    /\ o \in Live \ overdue
    /\ overdue' = overdue \cup {o}
    /\ UNCHANGED <<orders, stock, initial>>

Next ==
    \/ \E p \in Product, q \in 0..MaxQuantity : CreateProduct(p, q)
    \/ \E o \in OrderId, c \in Customer, p \in Product : Reserve(o, c, p)
    \/ \E o \in OrderId : MarkOrderAwaitingPayment(o)
    \/ \E o \in OrderId : CancelOrder(o)
    \/ \E o \in OrderId : FulfillPayment(o)
    \/ \E o \in OrderId : FailPayment(o)
    \/ \E S \in SUBSET DOMAIN orders : SweepExpired(S)
    \/ \E o \in OrderId : Elapse(o)

Spec == Init /\ [][Next]_vars

----------------------------------------------------------------------------
(* The tables hold rows of their types; a product is created once, with    *)
(* its stock row; an order names a product that exists.                    *)
TypeOK ==
    /\ DOMAIN orders \subseteq OrderId
    /\ IsFiniteSet(DOMAIN orders)
    /\ orders \in [DOMAIN orders -> Order]
    /\ DOMAIN stock \subseteq Product
    /\ stock \in [DOMAIN stock -> Stock]
    /\ initial \in [DOMAIN stock -> 0..MaxQuantity]
    /\ overdue \subseteq DOMAIN orders
    /\ \A o \in DOMAIN orders : orders[o].product \in DOMAIN stock

(* reserved_matches_live_orders of bench/internal/verify: the counter that *)
(* ReserveStock, ReleaseStock and CommitStock maintain equals the number   *)
(* of orders that hold a unit, and quantity has lost one unit per sale.    *)
Accounting ==
    \A p \in DOMAIN stock :
        /\ stock[p].num_reserved = Cardinality(LiveOf(p))
        /\ stock[p].quantity + Cardinality(CompletedOf(p)) = initial[p]

(* orders_within_initial_quantity: the guard of ReserveStock keeps the     *)
(* orders that hold or have bought a unit within the units there were, so  *)
(* the CHECK num_reserved <= quantity of the stock table never fires.      *)
NoOversell ==
    \A p \in DOMAIN stock :
        /\ stock[p].num_reserved <= stock[p].quantity
        /\ Cardinality(LiveOf(p)) + Cardinality(CompletedOf(p)) <= initial[p]

(* A PaymentIntent is attached exactly to the orders checkout has marked:  *)
(* a pending order has none, so an intent never leads back to a pending    *)
(* order (status.go calls that case unreachable), and cancelling, limited  *)
(* to pending orders, never strands an intent the buyer may still pay.     *)
IntentAgreesWithStatus ==
    \A o \in DOMAIN orders :
        /\ orders[o].status \in {"pending", "cancelled"} => ~orders[o].intent
        /\ orders[o].status \in {"awaiting_payment", "completed", "failed"} => orders[o].intent

(* The guarded UPDATEs of the lifecycle: an order row is never deleted,    *)
(* never changes its product or owner, never leaves a terminal status,     *)
(* completes only from awaiting_payment, and is never given a second       *)
(* intent: the intent is attached once and for good.                       *)
LifecycleStep ==
    \A o \in DOMAIN orders :
        /\ o \in DOMAIN orders'
        /\ orders'[o].product = orders[o].product
        /\ orders'[o].customer = orders[o].customer
        /\ orders[o].status \in Terminal => orders'[o] = orders[o]
        /\ orders'[o].status = "completed" => orders[o].status \in {"awaiting_payment", "completed"}
        /\ orders[o].intent => orders'[o].intent

Lifecycle == [][LifecycleStep]_vars
=============================================================================
