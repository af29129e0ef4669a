------------------------------- MODULE Inbox -------------------------------
(***************************************************************************)
(* The stripe_events inbox and the workers that drain it into the orders.  *)
(*                                                                         *)
(* Delivery (the webhook or the poller, see EventFeed) inserts an event    *)
(* once.  A worker claims the oldest event that is not processed, not      *)
(* locked and below the attempts cap, applies it through FulfillPayment or *)
(* FailPayment in a transaction of its own while the claim's row lock is   *)
(* held, and then marks it and commits the claim.  The orders are those of *)
(* OrderBook, so buyers, the sweeper and the other worker move underneath. *)
(*                                                                         *)
(* An event is <<type, order>>: "succeeded", "failed" (payment_failed and  *)
(* canceled), or "other", a type the routing table ignores.                *)
(*                                                                         *)
(* An operator named Mutant... is the definition after it with a plausible *)
(* bug: no specification uses it, only the mutation runs put it in place.  *)
(***************************************************************************)
EXTENDS Integers, FiniteSets, Sequences

CONSTANTS
    OrderId, Product, Customer, MaxQuantity, BatchSize,   \* as in OrderBook
    Worker,       \* worker goroutines
    Types,        \* scope: the types of events Stripe emits
    MaxAttempts,  \* STRIPE_MAX_ATTEMPTS
    MaxFaults     \* bound: transient errors, lost connections, crashes

ASSUME InboxAssumption ==
    /\ Types \subseteq {"succeeded", "failed", "other"}
    /\ MaxAttempts \in Nat \ {0} /\ MaxFaults \in Nat

Event == Types \X OrderId

VARIABLES
    orders, stock, initial, overdue,   \* the tables of OrderBook
    sent,         \* Stripe: the events it has emitted
    poisoned,     \* those whose payload paymentIntentID cannot read
    received,     \* stripe_events in the order of received_at
    row,          \* their columns processed_at, attempts and last_error
    pc, event, verdict,                \* of each worker
    faults

book == <<orders, stock, initial, overdue>>
worker == <<pc, event, verdict>>
stripe == <<sent, poisoned>>
vars == <<book, stripe, received, row, worker, faults>>

(* The order book, on the tables this module shares with it.               *)
B == INSTANCE OrderBook WITH
        OrderId <- OrderId, Product <- Product, Customer <- Customer,
        MaxQuantity <- MaxQuantity, BatchSize <- BatchSize,
        orders <- orders, stock <- stock, initial <- initial, overdue <- overdue

None == <<"none">>
NewRow == [processed |-> FALSE, attempts |-> 0, error |-> FALSE]
Recorded == DOMAIN row
Fault == faults < MaxFaults /\ faults' = faults + 1

Init ==
    /\ B!Init
    /\ sent = {} /\ poisoned = {} /\ received = <<>> /\ row = [e \in {} |-> NewRow]
    /\ pc = [w \in Worker |-> "idle"]
    /\ event = [w \in Worker |-> None]
    /\ verdict = [w \in Worker |-> "ok"]
    /\ faults = 0

----------------------------------------------------------------------------
(* The rest of the order service, and the clock.                           *)
OrderService ==
    /\ \/ \E p \in Product, q \in 0..MaxQuantity : B!CreateProduct(p, q)
       \/ \E o \in OrderId, c \in Customer, p \in Product : B!Reserve(o, c, p)
       \/ \E o \in OrderId : B!MarkOrderAwaitingPayment(o) \/ B!CancelOrder(o) \/ B!Elapse(o)
       \/ \E S \in SUBSET DOMAIN orders : B!SweepExpired(S)
    /\ UNCHANGED <<stripe, received, row, worker, faults>>

(* Stripe emits events about intents; buyers pay marked orders only.  One  *)
(* success at most, failures only before it, and at most one event whose   *)
(* payload cannot be read.                                                 *)
Emit(e) ==
    /\ e[2] \in DOMAIN orders
    /\ e[1] = "succeeded" => orders[e[2]].intent
    /\ e[1] = "failed" => <<"succeeded", e[2]>> \notin sent
    /\ sent' = sent \cup {e}
    /\ \/ UNCHANGED poisoned
       \/ e \notin sent /\ poisoned = {} /\ poisoned' = {e}
    /\ UNCHANGED <<book, received, row, worker, faults>>

(* InsertStripeEvent, ON CONFLICT DO NOTHING: a redelivery changes nothing.*)
MutantInsertStripeEvent(e) ==
    /\ e \in sent
    /\ received' = IF e \in Recorded THEN received ELSE Append(received, e)
    /\ row' = B!Insert(row, e, NewRow)
    /\ UNCHANGED <<book, stripe, worker, faults>>
InsertStripeEvent(e) ==
    /\ e \in sent
    /\ e \notin Recorded
    /\ received' = Append(received, e)
    /\ row' = B!Insert(row, e, NewRow)
    /\ UNCHANGED <<book, stripe, worker, faults>>

----------------------------------------------------------------------------
Locked(e) == \E w \in Worker : pc[w] \in {"apply", "mark"} /\ event[w] = e

Claimable == {i \in DOMAIN received :
                 /\ ~row[received[i]].processed
                 /\ row[received[i]].attempts < MaxAttempts
                 /\ ~Locked(received[i])}

(* The ticker fires: a drain begins.                                       *)
Tick(w) ==
    /\ pc[w] = "idle"
    /\ pc' = [pc EXCEPT ![w] = "claim"]
    /\ UNCHANGED <<book, stripe, received, row, event, verdict, faults>>

(* ClaimNextStripeEvent: the oldest claimable event, or the queue is empty *)
(* and the drain is over.                                                  *)
ClaimNextStripeEvent(w) ==
    /\ pc[w] = "claim"
    /\ \/ /\ Claimable = {}
          /\ pc' = [pc EXCEPT ![w] = "idle"]
          /\ UNCHANGED event
       \/ \E i \in Claimable :
            /\ \A j \in Claimable : i <= j
            /\ pc' = [pc EXCEPT ![w] = "apply"]
            /\ event' = [event EXCEPT ![w] = received[i]]
    /\ UNCHANGED <<book, stripe, received, row, verdict, faults>>

(* What FulfillPayment or FailPayment does to the order and returns.       *)
OrderOf(e) == IF e[2] \in DOMAIN orders /\ orders[e[2]].intent THEN orders[e[2]].status ELSE "unknown"

MutantEffect(e) ==
    IF OrderOf(e) # "awaiting_payment" THEN UNCHANGED book ELSE B!FulfillPayment(e[2])
Effect(e) ==
    IF OrderOf(e) # "awaiting_payment" \/ e[1] = "other" THEN UNCHANGED book
    ELSE IF e[1] = "succeeded" THEN B!FulfillPayment(e[2]) ELSE B!FailPayment(e[2])

Result(e) ==
    IF e[1] = "other" THEN "ok"
    ELSE IF OrderOf(e) = "unknown" THEN "permanent"                   \* pgx.ErrNoRows
    ELSE IF e[1] = "failed" \/ OrderOf(e) \in {"awaiting_payment", "completed"} THEN "ok"
    ELSE "permanent"                                                  \* ErrPaidButNotFulfillable

(* apply.  An unreadable payload fails every time; a database error is     *)
(* transient, and may follow a commit whose answer was lost.               *)
Apply(w) ==
    LET e == event[w]
    IN  /\ pc[w] = "apply"
        /\ pc' = [pc EXCEPT ![w] = "mark"]
        /\ \/ /\ e \notin poisoned \/ e[1] = "other"
              /\ Effect(e)
              /\ verdict' = [verdict EXCEPT ![w] = Result(e)]
              /\ UNCHANGED faults
           \/ /\ e \in poisoned /\ e[1] # "other"
              /\ verdict' = [verdict EXCEPT ![w] = "transient"]
              /\ UNCHANGED <<book, faults>>
           \/ /\ e[1] # "other" /\ e \notin poisoned
              /\ Fault
              /\ UNCHANGED book \/ Effect(e)
              /\ verdict' = [verdict EXCEPT ![w] = "transient"]
        /\ UNCHANGED <<stripe, received, row, event>>

(* MarkStripeEventProcessed or MarkStripeEventFailed.                      *)
MutantMarkedProcessed(r, v) ==
    [processed |-> TRUE, attempts |-> r.attempts + 1, error |-> v # "ok"]
MutantMarkedUncounted(r, v) ==
    [processed |-> v # "transient", attempts |-> IF v = "transient" THEN r.attempts ELSE r.attempts + 1,
     error |-> v # "ok"]
Marked(r, v) ==
    [processed |-> v # "transient", attempts |-> r.attempts + 1, error |-> v # "ok"]

(* Mark and commit the claim; the drain goes on, whatever the verdict.     *)
(* If the answer to the commit is lost the drain ends with an error.       *)
Mark(w) ==
    /\ pc[w] = "mark"
    /\ row' = [row EXCEPT ![event[w]] = Marked(@, verdict[w])]
    /\ event' = [event EXCEPT ![w] = None]
    /\ \/ pc' = [pc EXCEPT ![w] = "claim"] /\ UNCHANGED faults
       \/ pc' = [pc EXCEPT ![w] = "idle"] /\ Fault
    /\ verdict' = [verdict EXCEPT ![w] = "ok"]
    /\ UNCHANGED <<book, stripe, received>>

(* The claim's transaction fails or the process dies: the claim is rolled  *)
(* back, the effect of apply is not.                                       *)
Crash(w) ==
    /\ pc[w] # "idle"
    /\ Fault
    /\ pc' = [pc EXCEPT ![w] = "idle"]
    /\ event' = [event EXCEPT ![w] = None]
    /\ verdict' = [verdict EXCEPT ![w] = "ok"]
    /\ UNCHANGED <<book, stripe, received, row>>

Drain(w) == ClaimNextStripeEvent(w) \/ Apply(w) \/ Mark(w)

Next ==
    \/ OrderService
    \/ \E e \in Event : Emit(e) \/ InsertStripeEvent(e)
    \/ \E w \in Worker : Tick(w) \/ Drain(w) \/ Crash(w)

Spec == Init /\ [][Next]_vars

(* The workers' tickers fire and their goroutines run; Stripe's event is   *)
(* delivered sooner or later.  Nothing is assumed of buyers.               *)
FairSpec ==
    /\ Spec
    /\ \A w \in Worker : WF_vars(Tick(w)) /\ WF_vars(Drain(w))
    /\ \A e \in Event : WF_vars(InsertStripeEvent(e))

----------------------------------------------------------------------------
(* Rows and workers have their types; the inbox has a row exactly for the  *)
(* events it received, and no row is tried more than MaxAttempts times.    *)
TypeOK ==
    /\ B!TypeOK
    /\ sent \subseteq Event /\ poisoned \subseteq sent
    /\ received \in Seq(Event) /\ Recorded = {received[i] : i \in DOMAIN received}
    /\ row \in [Recorded -> [processed : BOOLEAN, attempts : 0..MaxAttempts, error : BOOLEAN]]
    /\ pc \in [Worker -> {"idle", "claim", "apply", "mark"}]
    /\ event \in [Worker -> Event \cup {None}]
    /\ verdict \in [Worker -> {"ok", "permanent", "transient"}]
    /\ faults \in 0..MaxFaults

(* The inbox tells the truth about money.  A success stamped processed     *)
(* cleanly has completed its order; one stamped with last_error is for an  *)
(* order whose unit is gone for good, so the refund it asks for is owed.   *)
(* Deliveries repeat, workers crash between the effect and the mark, and   *)
(* failures arrive after successes.                                        *)
StampsAreTrue ==
    \A e \in Recorded : row[e].processed /\ e[1] = "succeeded" =>
        IF row[e].error THEN OrderOf(e) \in {"expired", "failed"} ELSE OrderOf(e) = "completed"

(* An order is completed only by a recorded success and failed only by a   *)
(* recorded failure: workers never sell or release a unit on their own.    *)
EffectsHaveCauses ==
    \A o \in DOMAIN orders :
        /\ orders[o].status = "completed" => <<"succeeded", o>> \in Recorded
        /\ orders[o].status = "failed" => <<"failed", o>> \in Recorded

(* A processed event stays as it is: it is not claimed, counted or marked  *)
(* again by a redelivery or by the other worker.                           *)
ProcessedForGood ==
    [][\A e \in Recorded : row[e].processed => e \in DOMAIN row' /\ row'[e] = row[e]]_vars

(* A payment is decided: a success that Stripe has emitted completes its   *)
(* order, or its row keeps the reason why not: stamped as a refund, or     *)
(* given up after MaxAttempts.  Poisoned events ahead of it in the queue   *)
(* delay it but cannot hold it up.                                         *)
PaymentDecided ==
    \A o \in OrderId :
        LET e == <<"succeeded", o>>
        IN  (e \in sent) ~> \/ OrderOf(e) = "completed"
                            \/ /\ e \in Recorded
                               /\ row[e].error
                               /\ row[e].processed \/ row[e].attempts = MaxAttempts
=============================================================================
