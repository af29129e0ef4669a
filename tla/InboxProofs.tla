---------------------------- MODULE InboxProofs ----------------------------
(***************************************************************************)
(* Proofs about the stripe_events inbox.                                   *)
(*                                                                         *)
(* Its workers (Inbox), for every number of orders, workers and faults,    *)
(* any attempts cap and any scope of event types: the stamps of the inbox  *)
(* tell the truth about the orders, workers complete and fail only what    *)
(* Stripe has reported, and a processed event stays as it is.              *)
(*                                                                         *)
(* Its poller (EventFeed), for any number of events, any interval, any     *)
(* delay and any number of failed polls: how wide the overlap must be for  *)
(* the poller never to step over an event.                                 *)
(***************************************************************************)
EXTENDS Inbox, EventFeed, TLAPS

(* The inductive invariant.  Of the order book it needs the orders alone:  *)
(* an intent and its status agree, so a payment never meets a pending or a *)
(* cancelled order.                                                        *)
OrdersOK ==
    /\ DOMAIN orders \subseteq OrderId
    /\ orders \in [DOMAIN orders -> B!Order]
    /\ B!IntentAgreesWithStatus

(* Stripe reports a success only of an intent the order carries.           *)
SentOK ==
    /\ sent \subseteq Event
    /\ \A e \in sent : e[2] \in DOMAIN orders
    /\ \A e \in sent : e[1] = "succeeded" => orders[e[2]].intent

(* The inbox holds rows for what was sent, in some order of arrival.       *)
InboxOK ==
    /\ Recorded \subseteq sent
    /\ received \in Seq(Event) /\ \A i \in DOMAIN received : received[i] \in Recorded
    /\ row \in [Recorded -> [processed : BOOLEAN, attempts : 0..MaxAttempts, error : BOOLEAN]]

(* A claim is a lock on a row that is not processed and may still be       *)
(* tried; no two workers hold the same one.                                *)
Holding(w) == pc[w] \in {"apply", "mark"}

WorkersOK ==
    /\ pc \in [Worker -> {"idle", "claim", "apply", "mark"}]
    /\ DOMAIN event = Worker
    /\ verdict \in [Worker -> {"ok", "permanent", "transient"}]
    /\ \A w \in Worker : Holding(w) =>
          /\ event[w] \in Recorded
          /\ ~row[event[w]].processed
          /\ row[event[w]].attempts < MaxAttempts
    /\ \A v, w \in Worker : v # w /\ Holding(v) /\ Holding(w) => event[v] # event[w]

(* What a worker is about to stamp on a success is true of the order, and  *)
(* stays true until it does.                                               *)
VerdictsAreTrue ==
    \A w \in Worker : pc[w] = "mark" /\ event[w][1] = "succeeded" =>
        /\ verdict[w] = "ok" => OrderOf(event[w]) = "completed"
        /\ verdict[w] = "permanent" => OrderOf(event[w]) \in {"expired", "failed"}

IInv ==
    /\ OrdersOK
    /\ SentOK
    /\ InboxOK
    /\ WorkersOK
    /\ VerdictsAreTrue
    /\ StampsAreTrue
    /\ EffectsHaveCauses

----------------------------------------------------------------------------
(* What a step does to an order that was there before it: the intent and a *)
(* final status stay.                                                      *)
Final == {"completed", "failed", "expired", "cancelled"}

Keeps ==
    \A o \in DOMAIN orders :
        /\ o \in DOMAIN orders'
        /\ orders[o].intent => orders'[o].intent
        /\ orders[o].status \in Final => orders'[o].status = orders[o].status

(* and the orders it completes or fails.                                   *)
Decides(o, st) ==
    \A x \in DOMAIN orders' :
        orders'[x].status \in {"completed", "failed"} =>
            \/ x \in DOMAIN orders /\ orders'[x].status = orders[x].status
            \/ x = o /\ orders'[x].status = st

(* One row of orders changes its status, and perhaps gets its intent.      *)
LEMMA OneRow ==
    ASSUME OrdersOK, NEW o \in DOMAIN orders, NEW st \in B!Status, NEW i \in BOOLEAN,
           DOMAIN orders' = DOMAIN orders,
           \A x \in DOMAIN orders : x # o => orders'[x] = orders[x],
           orders'[o] \in B!Order, orders'[o].status = st, orders'[o].intent = i,
           orders' = [x \in DOMAIN orders |-> orders'[x]],
           orders[o].status \notin Final,
           orders[o].intent => i,
           st \in {"pending", "cancelled"} => ~i,
           st \in {"awaiting_payment", "completed", "failed"} => i
    PROVE  OrdersOK' /\ Keeps /\ Decides(o, st)
  <1>1. OrdersOK'
    BY DEF OrdersOK, B!IntentAgreesWithStatus
  <1>2. Keeps /\ Decides(o, st)
    BY DEF Keeps, Decides
  <1> QED
    BY <1>1, <1>2

(* Checkout, cancelling, the sweep, the clock and new rows complete and    *)
(* fail nothing.                                                           *)
LEMMA ServiceSteps ==
    ASSUME OrdersOK, OrderService
    PROVE  /\ OrdersOK' /\ Keeps
           /\ \A x \in DOMAIN orders' : orders'[x].status \in {"completed", "failed"} =>
                 x \in DOMAIN orders /\ orders'[x].status = orders[x].status
  <1> DEFINE Goal == /\ OrdersOK' /\ Keeps
                     /\ \A x \in DOMAIN orders' : orders'[x].status \in {"completed", "failed"} =>
                           x \in DOMAIN orders /\ orders'[x].status = orders[x].status
  <1>1. CASE orders' = orders
    BY <1>1 DEF OrdersOK, Keeps, B!IntentAgreesWithStatus
  <1>2. ASSUME NEW o \in OrderId, NEW c \in Customer, NEW p \in Product, B!Reserve(o, c, p)
        PROVE  Goal
    <2>1. /\ o \notin DOMAIN orders /\ DOMAIN orders' = DOMAIN orders \cup {o}
          /\ orders'[o] = B!NewOrder(c, p) /\ \A x \in DOMAIN orders : orders'[x] = orders[x]
          /\ orders' = [x \in DOMAIN orders' |-> orders'[x]]
      BY <1>2 DEF B!Reserve, B!Insert
    <2>2. /\ B!NewOrder(c, p) \in B!Order /\ orders'[o].status = "pending" /\ orders'[o].intent = FALSE
      BY <2>1 DEF B!NewOrder, B!Order, B!Status
    <2>3. OrdersOK'
      BY <2>1, <2>2 DEF OrdersOK, B!IntentAgreesWithStatus
    <2> QED
      BY <2>1, <2>2, <2>3 DEF Keeps
  <1>3. ASSUME NEW o \in OrderId, B!MarkOrderAwaitingPayment(o) PROVE Goal
    <2>1. /\ o \in DOMAIN orders /\ orders[o].status = "pending" /\ orders[o] \in B!Order
          /\ orders' = [orders EXCEPT ![o].status = "awaiting_payment", ![o].intent = TRUE]
      BY <1>3 DEF B!MarkOrderAwaitingPayment, OrdersOK
    <2>2. /\ DOMAIN orders' = DOMAIN orders /\ orders' = [x \in DOMAIN orders |-> orders'[x]]
          /\ \A x \in DOMAIN orders : x # o => orders'[x] = orders[x]
          /\ orders'[o] \in B!Order /\ orders'[o].status = "awaiting_payment" /\ orders'[o].intent = TRUE
      BY <2>1 DEF OrdersOK, B!Order, B!Status
    <2>3. OrdersOK' /\ Keeps /\ Decides(o, "awaiting_payment")
      BY <2>1, <2>2, OneRow DEF Final, B!Status
    <2> QED
      BY <2>3 DEF Decides
  <1>4. ASSUME NEW o \in OrderId, B!CancelOrder(o) PROVE Goal
    <2>1. /\ o \in DOMAIN orders /\ orders[o].status = "pending" /\ orders[o] \in B!Order
          /\ orders' = [orders EXCEPT ![o] = B!Marked(@, "cancelled")]
      BY <1>4 DEF B!CancelOrder, B!Release, OrdersOK
    <2>2. /\ DOMAIN orders' = DOMAIN orders /\ orders' = [x \in DOMAIN orders |-> orders'[x]]
          /\ \A x \in DOMAIN orders : x # o => orders'[x] = orders[x]
          /\ orders'[o] \in B!Order /\ orders'[o].status = "cancelled" /\ orders'[o].intent = orders[o].intent
      BY <2>1 DEF OrdersOK, B!Order, B!Status, B!Marked
    <2>3. orders[o].intent \in BOOLEAN /\ ~orders[o].intent
      BY <2>1 DEF OrdersOK, B!IntentAgreesWithStatus, B!Order
    <2>4. OrdersOK' /\ Keeps /\ Decides(o, "cancelled")
      BY <2>1, <2>2, <2>3, OneRow DEF Final, B!Status
    <2> QED
      BY <2>4 DEF Decides
  <1>5. ASSUME NEW S \in SUBSET DOMAIN orders, B!SweepExpired(S) PROVE Goal
    <2>1. /\ DOMAIN orders' = DOMAIN orders /\ orders' = [x \in DOMAIN orders |-> orders'[x]]
          /\ \A x \in DOMAIN orders : x \notin S => orders'[x] = orders[x]
          /\ \A x \in S : orders'[x] = B!Marked(orders[x], "expired") /\ orders[x].status \in B!LiveStatus
      BY <1>5 DEF B!SweepExpired, B!Due, B!Live
    <2>2. \A x \in S : /\ orders'[x] \in B!Order /\ orders'[x].status = "expired"
                       /\ orders'[x].intent = orders[x].intent
      <3> SUFFICES ASSUME NEW x \in S
                   PROVE  /\ B!Marked(orders[x], "expired") \in B!Order
                          /\ B!Marked(orders[x], "expired").status = "expired"
                          /\ B!Marked(orders[x], "expired").intent = orders[x].intent
        BY <2>1
      <3>1. orders[x] \in B!Order
        BY DEF OrdersOK
      <3> QED
        BY <3>1 DEF B!Order, B!Status, B!Marked
    <2>3. OrdersOK'
      BY <2>1, <2>2 DEF OrdersOK, B!IntentAgreesWithStatus
    <2> QED
      BY <2>1, <2>2, <2>3 DEF Keeps, Final, B!LiveStatus
  <1> QED
    BY <1>1, <1>2, <1>3, <1>4, <1>5 DEF OrderService, B!CreateProduct, B!Elapse

(* FulfillPayment completes and FailPayment fails the order of the event,  *)
(* and only from awaiting_payment.                                         *)
LEMMA EffectSteps ==
    ASSUME OrdersOK, NEW e, Effect(e)
    PROVE  /\ OrdersOK' /\ Keeps
           /\ \/ Decides(e[2], "completed") /\ e[1] = "succeeded"
              \/ Decides(e[2], "failed") /\ e[1] # "succeeded" /\ e[1] # "other"
              \/ orders' = orders
           /\ OrderOf(e) = "awaiting_payment" /\ e[1] = "succeeded" => OrderOf(e)' = "completed"
  <1> DEFINE o == e[2]
  <1>1. CASE UNCHANGED book /\ (OrderOf(e) # "awaiting_payment" \/ e[1] = "other")
    BY <1>1 DEF book, OrdersOK, Keeps, B!IntentAgreesWithStatus
  <1>2. ASSUME OrderOf(e) = "awaiting_payment", e[1] # "other",
               NEW st \in {"completed", "failed"}, st = IF e[1] = "succeeded" THEN "completed" ELSE "failed",
               o \in DOMAIN orders, orders[o].status = "awaiting_payment",
               orders' = [orders EXCEPT ![o] = B!Marked(@, st)]
        PROVE  /\ OrdersOK' /\ Keeps /\ Decides(o, st)
               /\ e[1] = "succeeded" => OrderOf(e)' = "completed"
    <2>1. orders[o] \in B!Order /\ orders[o].intent \in BOOLEAN /\ orders[o].intent
      BY <1>2 DEF OrdersOK, B!IntentAgreesWithStatus, B!Order
    <2>2. /\ DOMAIN orders' = DOMAIN orders /\ orders' = [x \in DOMAIN orders |-> orders'[x]]
          /\ \A x \in DOMAIN orders : x # o => orders'[x] = orders[x]
          /\ orders'[o] \in B!Order /\ orders'[o].status = st /\ orders'[o].intent = orders[o].intent
      BY <1>2, <2>1 DEF OrdersOK, B!Order, B!Status, B!Marked
    <2>3. OrdersOK' /\ Keeps /\ Decides(o, st)
      BY <1>2, <2>1, <2>2, OneRow DEF Final, B!Status
    <2> QED
      BY <1>2, <2>1, <2>2, <2>3 DEF OrderOf
  <1>3. CASE OrderOf(e) = "awaiting_payment" /\ e[1] = "succeeded" /\ B!FulfillPayment(o)
    BY <1>2, <1>3 DEF B!FulfillPayment
  <1>4. CASE OrderOf(e) = "awaiting_payment" /\ e[1] # "succeeded" /\ e[1] # "other" /\ B!FailPayment(o)
    BY <1>2, <1>4 DEF B!FailPayment, B!Release
  <1> QED
    BY <1>1, <1>3, <1>4 DEF Effect

----------------------------------------------------------------------------
(* What is final of the order of an event that was sent stays so.          *)
LEMMA FinalStays ==
    ASSUME SentOK, Keeps, NEW e \in sent, OrderOf(e) \in Final
    PROVE  OrderOf(e)' = OrderOf(e)
  <1>1. e[2] \in DOMAIN orders /\ orders[e[2]].intent
    BY DEF OrderOf, Final
  <1> QED
    BY <1>1 DEF OrderOf, Keeps

(* A step of the orders keeps what the inbox says true, if what it         *)
(* completes or fails has a recorded cause.                                *)
LEMMA OrdersMove ==
    ASSUME IInv, OrdersOK', Keeps, UNCHANGED <<sent, received, row>>,
           \A x \in DOMAIN orders' : orders'[x].status \in {"completed", "failed"} =>
               \/ x \in DOMAIN orders /\ orders'[x].status = orders[x].status
               \/ orders'[x].status = "completed" /\ <<"succeeded", x>> \in Recorded
               \/ orders'[x].status = "failed" /\ <<"failed", x>> \in Recorded
    PROVE  /\ SentOK' /\ InboxOK' /\ StampsAreTrue' /\ EffectsHaveCauses'
           /\ \A e \in sent : OrderOf(e) \in Final => OrderOf(e)' = OrderOf(e)
  <1>1. SentOK'
    BY DEF IInv, SentOK, Keeps
  <1>2. InboxOK'
    BY DEF IInv, InboxOK, Recorded
  <1>3. \A e \in sent : OrderOf(e) \in Final => OrderOf(e)' = OrderOf(e)
    BY FinalStays DEF IInv
  <1>4. StampsAreTrue'
    <2> SUFFICES ASSUME NEW e \in Recorded, row[e].processed, e[1] = "succeeded"
                 PROVE  IF row[e].error THEN OrderOf(e)' \in {"expired", "failed"} ELSE OrderOf(e)' = "completed"
      BY DEF StampsAreTrue, Recorded
    <2>1. IF row[e].error THEN OrderOf(e) \in {"expired", "failed"} ELSE OrderOf(e) = "completed"
      BY DEF IInv, StampsAreTrue
    <2>2. e \in sent
      BY DEF IInv, InboxOK
    <2> QED
      BY <1>3, <2>1, <2>2 DEF Final
  <1>5. EffectsHaveCauses'
    BY DEF IInv, EffectsHaveCauses, Recorded
  <1> QED
    BY <1>1, <1>2, <1>3, <1>4, <1>5

(* The verdicts of workers that do not move stay true.                     *)
LEMMA VerdictStays ==
    ASSUME IInv, NEW w \in Worker, pc'[w] = pc[w], event'[w] = event[w], verdict'[w] = verdict[w],
           \A e \in sent : OrderOf(e) \in Final => OrderOf(e)' = OrderOf(e)
    PROVE  pc'[w] = "mark" /\ event'[w][1] = "succeeded" =>
               /\ verdict'[w] = "ok" => OrderOf(event[w])' = "completed"
               /\ verdict'[w] = "permanent" => OrderOf(event[w])' \in {"expired", "failed"}
  <1> SUFFICES ASSUME pc[w] = "mark", event[w][1] = "succeeded"
               PROVE  /\ verdict[w] = "ok" => OrderOf(event[w])' = "completed"
                      /\ verdict[w] = "permanent" => OrderOf(event[w])' \in {"expired", "failed"}
    OBVIOUS
  <1>1. event[w] \in sent
    BY DEF IInv, WorkersOK, InboxOK, Holding
  <1> QED
    BY <1>1 DEF IInv, VerdictsAreTrue, Final

----------------------------------------------------------------------------
(* Nothing has happened yet.                                               *)
LEMMA InitInv == Init => IInv
  <1> SUFFICES ASSUME Init PROVE IInv
    OBVIOUS
  <1>1. OrdersOK /\ EffectsHaveCauses
    BY DEF Init, B!Init, OrdersOK, B!IntentAgreesWithStatus, EffectsHaveCauses
  <1>2. SentOK /\ InboxOK /\ StampsAreTrue
    BY DEF Init, SentOK, InboxOK, StampsAreTrue, Recorded
  <1>3. WorkersOK /\ VerdictsAreTrue
    BY DEF Init, WorkersOK, VerdictsAreTrue, Holding
  <1> QED
    BY <1>1, <1>2, <1>3 DEF IInv

(* The order service moves underneath the workers.                         *)
LEMMA ServiceInv == ASSUME IInv, OrderService PROVE IInv'
  <1>1. /\ OrdersOK' /\ Keeps
        /\ \A x \in DOMAIN orders' : orders'[x].status \in {"completed", "failed"} =>
              x \in DOMAIN orders /\ orders'[x].status = orders[x].status
    BY ServiceSteps DEF IInv
  <1>2. UNCHANGED <<sent, poisoned, received, row, pc, event, verdict>>
    BY DEF OrderService, stripe, worker
  <1>3. /\ SentOK' /\ InboxOK' /\ StampsAreTrue' /\ EffectsHaveCauses'
        /\ \A e \in sent : OrderOf(e) \in Final => OrderOf(e)' = OrderOf(e)
    BY <1>1, <1>2, OrdersMove
  <1>4. WorkersOK'
    BY <1>2 DEF IInv, WorkersOK, Holding, Recorded
  <1>5. VerdictsAreTrue'
    BY <1>2, <1>3, VerdictStays DEF VerdictsAreTrue
  <1> QED
    BY <1>1, <1>3, <1>4, <1>5 DEF IInv

(* The orders are not touched: what the inbox says of them stays true.     *)
LEMMA OrdersRest ==
    ASSUME IInv, UNCHANGED book
    PROVE  /\ OrdersOK' /\ Keeps
           /\ \A e : OrderOf(e)' = OrderOf(e)
  BY DEF IInv, OrdersOK, book, Keeps, OrderOf, B!IntentAgreesWithStatus

(* Stripe emits an event: a success only of an order with its intent.      *)
LEMMA EmitInv == ASSUME IInv, NEW e \in Event, Emit(e) PROVE IInv'
  <1>1. /\ sent' = sent \cup {e} /\ e[2] \in DOMAIN orders
        /\ e[1] = "succeeded" => orders[e[2]].intent
        /\ UNCHANGED <<received, row, pc, event, verdict>> /\ UNCHANGED book
    BY DEF Emit, worker
  <1>2. OrdersOK' /\ Keeps
    BY <1>1, OrdersRest
  <1>3. orders' = orders
    BY <1>1 DEF book
  <1>4. SentOK' /\ InboxOK'
    BY <1>1, <1>3 DEF IInv, SentOK, InboxOK, Recorded
  <1>5. WorkersOK' /\ VerdictsAreTrue' /\ StampsAreTrue' /\ EffectsHaveCauses'
    BY <1>1, <1>3 DEF IInv, WorkersOK, Holding, Recorded, VerdictsAreTrue, StampsAreTrue, EffectsHaveCauses, OrderOf
  <1> QED
    BY <1>2, <1>4, <1>5 DEF IInv

(* A delivery adds a fresh row at the end, or changes nothing.             *)
LEMMA InsertInv == ASSUME IInv, NEW e \in Event, InsertStripeEvent(e) PROVE IInv'
  <1>1. /\ e \in sent /\ e \notin Recorded
        /\ received' = Append(received, e) /\ row' = B!Insert(row, e, NewRow)
        /\ UNCHANGED <<sent, pc, event, verdict>> /\ UNCHANGED book
    BY DEF InsertStripeEvent, stripe, worker
  <1>2. OrdersOK' /\ Keeps
    BY <1>1, OrdersRest
  <1>3. orders' = orders
    BY <1>1 DEF book
  <1>4. /\ DOMAIN row' = Recorded \cup {e} /\ row'[e] = NewRow
        /\ \A x \in Recorded : row'[x] = row[x]
        /\ row' = [x \in DOMAIN row' |-> row'[x]]
    BY <1>1 DEF B!Insert, Recorded
  <1>5. NewRow \in [processed : BOOLEAN, attempts : 0..MaxAttempts, error : BOOLEAN] /\ ~NewRow.processed
    BY InboxAssumption DEF NewRow
  <1>6. SentOK'
    BY <1>1, <1>3 DEF IInv, SentOK
  <1>7. InboxOK'
    <2>1. row' \in [DOMAIN row' -> [processed : BOOLEAN, attempts : 0..MaxAttempts, error : BOOLEAN]]
      BY <1>4, <1>5 DEF IInv, InboxOK
    <2>2. received' \in Seq(Event) /\ \A i \in DOMAIN received' : received'[i] \in DOMAIN row'
      BY <1>1, <1>4 DEF IInv, InboxOK
    <2>3. DOMAIN row' \subseteq sent'
      BY <1>1, <1>4 DEF IInv, InboxOK
    <2> QED
      BY <2>1, <2>2, <2>3 DEF InboxOK, Recorded
  <1>8. WorkersOK'
    BY <1>1, <1>4 DEF IInv, WorkersOK, Holding, Recorded
  <1>9. VerdictsAreTrue'
    BY <1>1, <1>3 DEF IInv, VerdictsAreTrue, OrderOf
  <1>10. StampsAreTrue'
    BY <1>1, <1>3, <1>4, <1>5 DEF IInv, StampsAreTrue, OrderOf, Recorded
  <1>11. EffectsHaveCauses'
    BY <1>3, <1>4 DEF IInv, EffectsHaveCauses, Recorded
  <1> QED
    BY <1>2, <1>6, <1>7, <1>8, <1>9, <1>10, <1>11 DEF IInv

(* Steps that touch a worker only: the tick, the claim and the crash.  A   *)
(* claim takes an event nobody holds.                                      *)
LEMMA WorkerInv ==
    ASSUME IInv, NEW w \in Worker, Tick(w) \/ ClaimNextStripeEvent(w) \/ Crash(w)
    PROVE  IInv'
  <1>1. UNCHANGED <<sent, received, row>> /\ UNCHANGED book
    BY DEF Tick, ClaimNextStripeEvent, Crash, stripe
  <1>2. /\ OrdersOK' /\ orders' = orders
    BY <1>1, OrdersRest DEF book
  <1>3. SentOK' /\ InboxOK' /\ StampsAreTrue' /\ EffectsHaveCauses'
    BY <1>1, <1>2 DEF IInv, SentOK, InboxOK, StampsAreTrue, EffectsHaveCauses, OrderOf, Recorded
  <1>4. WorkersOK' /\ VerdictsAreTrue'
    <2>1. CASE Tick(w)
      BY <1>1, <1>2, <2>1 DEF Tick, IInv, WorkersOK, VerdictsAreTrue, Holding, OrderOf, Recorded
    <2>2. CASE Crash(w)
      BY <1>1, <1>2, <2>2 DEF Crash, IInv, WorkersOK, VerdictsAreTrue, Holding, OrderOf, Recorded
    <2>3. ASSUME pc' = [pc EXCEPT ![w] = "idle"], event' = event, verdict' = verdict
          PROVE  WorkersOK' /\ VerdictsAreTrue'
      BY <1>1, <1>2, <2>3 DEF IInv, WorkersOK, VerdictsAreTrue, Holding, OrderOf, Recorded
    <2>4. ASSUME NEW i \in Claimable, pc[w] = "claim", pc' = [pc EXCEPT ![w] = "apply"],
                 event' = [event EXCEPT ![w] = received[i]], verdict' = verdict
          PROVE  WorkersOK' /\ VerdictsAreTrue'
      <3>1. /\ received[i] \in Recorded /\ ~row[received[i]].processed
            /\ row[received[i]].attempts < MaxAttempts
            /\ \A v \in Worker : Holding(v) => event[v] # received[i]
        BY DEF Claimable, Locked, Holding, IInv, InboxOK
      <3>2. /\ pc' \in [Worker -> {"idle", "claim", "apply", "mark"}] /\ DOMAIN event' = Worker
            /\ pc'[w] = "apply" /\ event'[w] = received[i]
            /\ \A v \in Worker : v # w => pc'[v] = pc[v] /\ event'[v] = event[v]
        BY <2>4 DEF IInv, WorkersOK
      <3>3. WorkersOK'
        BY <1>1, <2>4, <3>1, <3>2 DEF IInv, WorkersOK, Holding, Recorded
      <3>4. VerdictsAreTrue'
        BY <1>2, <2>4, <3>2 DEF IInv, VerdictsAreTrue, OrderOf
      <3> QED
        BY <3>3, <3>4
    <2> QED
      BY <2>1, <2>2, <2>3, <2>4 DEF ClaimNextStripeEvent
  <1> QED
    BY <1>2, <1>3, <1>4 DEF IInv

(* Apply: the verdict it returns is true of the order it leaves behind,    *)
(* and what it completes or fails is the order of a recorded event.        *)
LEMMA ApplyInv == ASSUME IInv, NEW w \in Worker, Apply(w) PROVE IInv'
  <1>0. PICK e : e = event[w]
    OBVIOUS
  <1>1. /\ pc[w] = "apply" /\ pc' = [pc EXCEPT ![w] = "mark"]
        /\ UNCHANGED <<sent, received, row, event>>
        /\ Effect(e) \/ UNCHANGED book
        /\ \/ Effect(e) /\ verdict' = [verdict EXCEPT ![w] = Result(e)]
           \/ verdict' = [verdict EXCEPT ![w] = "transient"]
    BY <1>0 DEF Apply, stripe
  <1>2. e \in Recorded /\ e \in sent /\ e \in Event
    BY <1>0, <1>1 DEF IInv, WorkersOK, Holding, InboxOK, SentOK
  <1>3. e = <<e[1], e[2]>> /\ e[1] \in {"succeeded", "failed", "other"}
    <2>1. PICK type \in Types, o \in OrderId : e = <<type, o>>
      BY <1>2 DEF Event
    <2> QED
      BY <2>1, InboxAssumption
  <1>4. /\ OrdersOK' /\ Keeps
        /\ \A x \in DOMAIN orders' : orders'[x].status \in {"completed", "failed"} =>
               \/ x \in DOMAIN orders /\ orders'[x].status = orders[x].status
               \/ orders'[x].status = "completed" /\ <<"succeeded", x>> \in Recorded
               \/ orders'[x].status = "failed" /\ <<"failed", x>> \in Recorded
    <2>1. CASE Effect(e)
      <3>1. /\ OrdersOK' /\ Keeps
            /\ \/ Decides(e[2], "completed") /\ e[1] = "succeeded"
               \/ Decides(e[2], "failed") /\ e[1] # "succeeded" /\ e[1] # "other"
               \/ orders' = orders
        BY <2>1, EffectSteps DEF IInv
      <3> QED
        BY <1>2, <1>3, <3>1 DEF Decides
    <2>2. CASE UNCHANGED book
      BY <2>2, OrdersRest DEF book
    <2> QED
      BY <1>1, <2>1, <2>2
  <1>5. /\ SentOK' /\ InboxOK' /\ StampsAreTrue' /\ EffectsHaveCauses'
        /\ \A x \in sent : OrderOf(x) \in Final => OrderOf(x)' = OrderOf(x)
    BY <1>1, <1>4, OrdersMove
  <1>6. /\ pc' \in [Worker -> {"idle", "claim", "apply", "mark"}] /\ pc'[w] = "mark"
        /\ verdict' \in [Worker -> {"ok", "permanent", "transient"}]
        /\ \A v \in Worker : v # w => pc'[v] = pc[v] /\ verdict'[v] = verdict[v]
    BY <1>1 DEF IInv, WorkersOK, Result
  <1>7. WorkersOK'
    BY <1>1, <1>6 DEF IInv, WorkersOK, Holding, Recorded
  <1>8. e[1] = "succeeded" => /\ verdict'[w] = "ok" => OrderOf(e)' = "completed"
                              /\ verdict'[w] = "permanent" => OrderOf(e)' \in {"expired", "failed"}
    <2> SUFFICES ASSUME e[1] = "succeeded", Effect(e), verdict'[w] = Result(e), Result(e) \in {"ok", "permanent"}
                 PROVE  /\ Result(e) = "ok" => OrderOf(e)' = "completed"
                        /\ Result(e) = "permanent" => OrderOf(e)' \in {"expired", "failed"}
      BY <1>1 DEF IInv, WorkersOK
    <2>1. e[2] \in DOMAIN orders /\ orders[e[2]].intent /\ OrderOf(e) = orders[e[2]].status
      BY <1>2 DEF IInv, SentOK, OrderOf
    <2>2. OrderOf(e) \in {"awaiting_payment", "completed", "failed", "expired"}
      BY <2>1 DEF IInv, OrdersOK, B!IntentAgreesWithStatus, B!Order, B!Status
    <2>3. OrderOf(e) = "awaiting_payment" => OrderOf(e)' = "completed"
      BY EffectSteps DEF IInv
    <2> QED
      BY <1>2, <1>5, <2>2, <2>3 DEF Result, Final
  <1>9. VerdictsAreTrue'
    <2> SUFFICES ASSUME NEW v \in Worker, pc'[v] = "mark", event'[v][1] = "succeeded"
                 PROVE  /\ verdict'[v] = "ok" => OrderOf(event[v])' = "completed"
                        /\ verdict'[v] = "permanent" => OrderOf(event[v])' \in {"expired", "failed"}
      BY DEF VerdictsAreTrue
    <2>1. CASE v = w
      BY <1>0, <1>1, <1>8, <2>1 DEF OrderOf
    <2>2. CASE v # w
      BY <1>1, <1>5, <1>6, <2>2, VerdictStays
    <2> QED
      BY <2>1, <2>2
  <1> QED
    BY <1>4, <1>5, <1>7, <1>9 DEF IInv

(* Mark: the row gets the verdict, which is true, and the claim ends.      *)
LEMMA MarkInv == ASSUME IInv, NEW w \in Worker, Mark(w) PROVE IInv'
  <1>0. PICK e : e = event[w]
    OBVIOUS
  <1>1. /\ pc[w] = "mark" /\ row' = [row EXCEPT ![e] = Marked(@, verdict[w])]
        /\ event' = [event EXCEPT ![w] = None] /\ verdict' = [verdict EXCEPT ![w] = "ok"]
        /\ pc' = [pc EXCEPT ![w] = "claim"] \/ pc' = [pc EXCEPT ![w] = "idle"]
        /\ UNCHANGED <<sent, received>> /\ UNCHANGED book
    BY <1>0 DEF Mark, stripe
  <1>2. OrdersOK' /\ orders' = orders
    BY <1>1, OrdersRest DEF book
  <1>3. /\ e \in Recorded /\ ~row[e].processed /\ row[e].attempts < MaxAttempts
        /\ row[e] \in [processed : BOOLEAN, attempts : 0..MaxAttempts, error : BOOLEAN]
        /\ \A v \in Worker : v # w /\ Holding(v) => event[v] # e
    BY <1>0, <1>1 DEF IInv, WorkersOK, Holding, InboxOK
  <1>4. /\ DOMAIN row' = Recorded /\ row'[e] = Marked(row[e], verdict[w])
        /\ \A x \in Recorded : x # e => row'[x] = row[x]
    BY <1>1, <1>3 DEF Recorded
  <1>5. SentOK'
    BY <1>1, <1>2 DEF IInv, SentOK
  <1>6. InboxOK'
    <2>1. Marked(row[e], verdict[w]) \in [processed : BOOLEAN, attempts : 0..MaxAttempts, error : BOOLEAN]
      BY <1>3, InboxAssumption DEF Marked
    <2>2. row' \in [DOMAIN row' -> [processed : BOOLEAN, attempts : 0..MaxAttempts, error : BOOLEAN]]
      BY <1>1, <1>3, <1>4, <2>1 DEF IInv, InboxOK
    <2> QED
      BY <1>1, <1>4, <2>2 DEF IInv, InboxOK, Recorded
  <1>7. /\ pc' \in [Worker -> {"idle", "claim", "apply", "mark"}] /\ ~Holding(w)'
        /\ DOMAIN event' = Worker /\ verdict' \in [Worker -> {"ok", "permanent", "transient"}]
        /\ \A v \in Worker : v # w => pc'[v] = pc[v] /\ event'[v] = event[v] /\ verdict'[v] = verdict[v]
    BY <1>1 DEF IInv, WorkersOK, Holding
  <1>8. WorkersOK'
    BY <1>3, <1>4, <1>7 DEF IInv, WorkersOK, Holding, Recorded
  <1>9. VerdictsAreTrue'
    BY <1>2, <1>7 DEF IInv, VerdictsAreTrue, OrderOf, Holding
  <1>10. StampsAreTrue'
    <2> SUFFICES ASSUME NEW x \in Recorded, row'[x].processed, x[1] = "succeeded"
                 PROVE  IF row'[x].error THEN OrderOf(x)' \in {"expired", "failed"} ELSE OrderOf(x)' = "completed"
      BY <1>4 DEF StampsAreTrue, Recorded
    <2>1. OrderOf(x)' = OrderOf(x)
      BY <1>2 DEF OrderOf
    <2>2. CASE x # e
      BY <1>4, <2>1, <2>2 DEF IInv, StampsAreTrue
    <2>3. CASE x = e
      <3>1. verdict[w] \in {"ok", "permanent"} /\ (row'[x].error <=> verdict[w] # "ok")
        <4>1. verdict[w] \in {"ok", "permanent", "transient"}
          BY DEF IInv, WorkersOK
        <4>2. \A v : /\ Marked(row[e], v).processed <=> v # "transient"
                     /\ Marked(row[e], v).error <=> v # "ok"
          BY DEF Marked
        <4>3. row'[x] = Marked(row[e], verdict[w])
          BY <1>4, <2>3
        <4> QED
          BY <4>1, <4>2, <4>3
      <3>2. /\ verdict[w] = "ok" => OrderOf(e) = "completed"
            /\ verdict[w] = "permanent" => OrderOf(e) \in {"expired", "failed"}
        BY <1>0, <1>1, <2>3 DEF IInv, VerdictsAreTrue
      <3> QED
        BY <2>1, <2>3, <3>1, <3>2
    <2> QED
      BY <2>2, <2>3
  <1>11. EffectsHaveCauses'
    BY <1>2, <1>4 DEF IInv, EffectsHaveCauses, Recorded
  <1> QED
    BY <1>2, <1>5, <1>6, <1>8, <1>9, <1>10, <1>11 DEF IInv

(* The invariant is inductive: one step per action.                        *)
LEMMA StepInv == IInv /\ [Next]_vars => IInv'
  <1> SUFFICES ASSUME IInv, [Next]_vars PROVE IInv'
    OBVIOUS
  <1>1. CASE UNCHANGED vars
    <2>1. UNCHANGED <<orders, sent, received, row, pc, event, verdict>>
      BY <1>1 DEF vars, book, stripe, worker
    <2> QED
      BY <2>1 DEF IInv, OrdersOK, B!IntentAgreesWithStatus, SentOK, InboxOK, WorkersOK, Holding,
                  VerdictsAreTrue, StampsAreTrue, EffectsHaveCauses, OrderOf, Recorded
  <1> QED
    BY <1>1, ServiceInv, EmitInv, InsertInv, WorkerInv, ApplyInv, MarkInv DEF Next, Drain

----------------------------------------------------------------------------
(* The inductive invariant holds in every reachable state.                 *)
THEOREM Invariance == Spec => []IInv
  <1> QED
    BY InitInv, StepInv, PTL DEF Spec

(* A success stamped processed has completed its order, or, stamped with   *)
(* an error, is owed its refund: the order has expired or failed.          *)
THEOREM StampsTellTheTruth == Spec => []StampsAreTrue
  <1>1. IInv => StampsAreTrue
    BY DEF IInv
  <1> QED
    BY <1>1, Invariance, PTL

(* Workers complete and fail only the orders Stripe has reported on.       *)
THEOREM CausesAreRecorded == Spec => []EffectsHaveCauses
  <1>1. IInv => EffectsHaveCauses
    BY DEF IInv
  <1> QED
    BY <1>1, Invariance, PTL

(* A processed row is never claimed, counted or marked again.              *)
THEOREM ProcessedRowsAreFinal == Spec => ProcessedForGood
  <1> DEFINE Same == \A e \in Recorded : row[e].processed => e \in DOMAIN row' /\ row'[e] = row[e]
  <1>1. IInv /\ [Next]_vars => [Same]_vars
    <2> SUFFICES ASSUME IInv, [Next]_vars PROVE Same
      OBVIOUS
    <2>1. CASE row' = row
      BY <2>1 DEF Recorded
    <2>2. ASSUME NEW e \in Event, InsertStripeEvent(e) PROVE Same
      BY <2>2 DEF InsertStripeEvent, B!Insert, Recorded
    <2>3. ASSUME NEW w \in Worker, Mark(w) PROVE Same
      <3>1. pc[w] = "mark" /\ row' = [row EXCEPT ![event[w]] = Marked(@, verdict[w])]
        BY <2>3 DEF Mark
      <3>2. event[w] \in Recorded /\ ~row[event[w]].processed
        BY <3>1 DEF IInv, WorkersOK, Holding
      <3> QED
        BY <3>1, <3>2 DEF Recorded
    <2> HIDE DEF Same
    <2> QED
      BY <2>1, <2>2, <2>3 DEF Next, Drain, OrderService, Emit, Tick, ClaimNextStripeEvent, Apply, Crash, vars
  <1> QED
    BY <1>1, Invariance, PTL DEF Spec, ProcessedForGood

(* The inbox moves the tables of the order service by the service's own    *)
(* operations only: with deliveries that repeat and workers that crash     *)
(* between the effect and its mark, what orders and stock go through is a  *)
(* history of OrderBook, and every theorem about OrderBook holds of it.    *)
THEOREM EventsRefineOrderBook == Spec => B!Spec
  <1>1. Init => B!Init
    BY DEF Init
  <1>2. IInv /\ [Next]_vars => [B!Next]_(B!vars)
    <2> SUFFICES ASSUME IInv, [Next]_vars, ~UNCHANGED book PROVE B!Next
      BY DEF book, B!vars
    <2>1. ASSUME OrderService PROVE B!Next
      BY <2>1 DEF OrderService, B!Next
    <2>2. ASSUME NEW w \in Worker, Apply(w) PROVE B!Next
      <3>1. PICK e : e = event[w]
        OBVIOUS
      <3>2. e \in Event
        BY <2>2, <3>1 DEF Apply, IInv, WorkersOK, Holding, InboxOK, SentOK
      <3>3. Effect(e)
        BY <2>2, <3>1 DEF Apply
      <3>4. e[2] \in OrderId /\ (B!FulfillPayment(e[2]) \/ B!FailPayment(e[2]))
        BY <3>2, <3>3 DEF Effect, Event
      <3> QED
        BY <3>4 DEF B!Next
    <2> QED
      BY <2>1, <2>2 DEF Next, Drain, Emit, InsertStripeEvent, Tick, ClaimNextStripeEvent, Mark, Crash, vars
  <1> QED
    BY <1>1, <1>2, Invariance, PTL DEF Spec, B!Spec

----------------------------------------------------------------------------
(* How the events reach the inbox: EventFeed.                              *)

(* How far behind the clock an event that is not recorded may lie when     *)
(* the process is up: the delay of Stripe's list, the interval to the next *)
(* poll, and another interval for every poll that fails.                   *)
Lag(s) == MaxDelay + Interval * (s.maxFaults + 1)

(* The deployments for which the poller's window is wide enough.  Complete *)
(* polls alone, however far apart, need an overlap that covers the delay   *)
(* of Stripe's list, and a first window that reaches back to the start.    *)
(* Where the webhook moves the cursor as well, or polls fail, the overlap  *)
(* and the first window must cover the lag, and there is no outage.        *)
WideEnough(s) ==
    \/ ~s.webhook /\ s.maxFaults = 0 /\ s.overlap >= MaxDelay /\ InitialLookback >= MaxTime
    \/ ~s.outages /\ s.overlap >= Lag(s) /\ InitialLookback >= Lag(s)

(* Stripe's list: an event is visible MaxDelay after its time at the       *)
(* latest, and its time has come.                                          *)
ListOK == \A e \in DOMAIN log : log[e].created <= now /\ log[e].visible <= log[e].created + MaxDelay

(* The inbox is empty or has a latest event, so the cursor is defined.     *)
HasLatest == inbox = {} \/ \E m \in inbox : \A e \in inbox : log[e].created <= log[m].created

(* Complete polls and no webhook: what is recorded or listed was there     *)
(* when the last poll began; what is not was too young for it.             *)
PollsAlone ==
    ~config.webhook /\ config.maxFaults = 0 =>
        /\ \A e \in inbox \cup page : log[e].created <= polledAt
        /\ \A e \in DOMAIN log \ (inbox \cup page) : polledAt <= log[e].created + MaxDelay

(* A poll in every interval: the last one began at most the delay and an   *)
(* interval per failed poll after the event, or it is listing it.          *)
PollsOnTime ==
    ~config.outages =>
        /\ now <= polledAt + Interval
        /\ \A e \in DOMAIN log \ inbox :
             polledAt <= log[e].created + MaxDelay + Interval * pollFaults + (IF e \in page THEN Interval ELSE 0)

(* The inductive invariant of the feed.                                   *)
FeedInv == FeedTypeOK /\ ListOK /\ HasLatest /\ PollsAlone /\ PollsOnTime

----------------------------------------------------------------------------
(* Products with the interval, once.                                       *)
LEMMA Products ==
    /\ \A f \in Nat : Interval * f \in Nat /\ Interval * (f + 1) = Interval * f + Interval
    /\ \A f, g \in Nat : f <= g => Interval * f <= Interval * g
  <1>1. \A f \in Nat : Interval * f \in Nat /\ Interval * (f + 1) = Interval * f + Interval
    BY FeedAssumption
  <1>2. ASSUME NEW f \in Nat, NEW g \in Nat, f <= g PROVE Interval * f <= Interval * g
    <2>1. g - f \in Nat /\ Interval * (g - f) \in Nat /\ Interval * g = Interval * f + Interval * (g - f)
      BY <1>2, FeedAssumption
    <2>2. Interval * f \in Nat /\ Interval * g \in Nat
      BY FeedAssumption
    <2> QED
      BY <2>1, <2>2
  <1> QED
    BY <1>1, <1>2

(* What Max chooses from a set that has a greatest element.                *)
LEMMA MaxIsGreatest ==
    ASSUME NEW S, NEW m \in S, \A y \in S : m >= y
    PROVE  Max(S) \in S /\ \A y \in S : Max(S) >= y
  BY Zenon DEF Max

(* The cursor is the time of a recorded event, and of the latest one.      *)
LEMMA CursorIsLatest ==
    ASSUME FeedTypeOK, HasLatest, inbox # {}
    PROVE  \E m \in inbox : Cursor = log[m].created /\ \A e \in inbox : log[e].created <= log[m].created
  <1>1. PICK m \in inbox : \A e \in inbox : log[e].created <= log[m].created
    BY DEF HasLatest
  <1>2. \A e \in inbox : log[e].created \in Int
    BY DEF FeedTypeOK
  <1> DEFINE S == {log[e].created : e \in inbox}
  <1>3. log[m].created \in S /\ \A y \in S : log[m].created >= y
    BY <1>1, <1>2
  <1>4. Max(S) \in S /\ \A y \in S : Max(S) >= y
    <2> HIDE DEF S
    <2> QED
      BY <1>3, MaxIsGreatest
  <1>5. PICK x \in inbox : Max(S) = log[x].created
    BY <1>4
  <1>6. \A e \in inbox : log[e].created <= log[x].created
    BY <1>2, <1>4, <1>5
  <1> QED
    BY <1>5, <1>6 DEF Cursor

(* What the invariant says of the window between two polls.                *)
LEMMA WindowCovers ==
    ASSUME FeedInv, \A s \in Settings : WideEnough(s)
    PROVE  NothingSteppedOver
  <1> SUFFICES ASSUME ~polling, NEW e \in DOMAIN log \ inbox PROVE log[e].created >= Since
    BY DEF NothingSteppedOver
  <1>1. /\ page = {} /\ now \in 0..MaxTime /\ polledAt \in 0..now /\ pollFaults \in 0..config.maxFaults
        /\ log[e].created \in 0..MaxTime /\ config \in Setting
        /\ WideEnough(config)
    BY FeedAssumption DEF FeedInv, FeedTypeOK
  <1>2. /\ config.overlap \in Nat /\ config.maxFaults \in Nat
        /\ InitialLookback \in Nat /\ Interval \in Nat /\ MaxDelay \in Nat /\ MaxTime \in Nat
    BY <1>1, FeedAssumption DEF Setting
  <1>3. CASE ~config.webhook /\ config.maxFaults = 0 /\ config.overlap >= MaxDelay /\ InitialLookback >= MaxTime
    <2>1. CASE inbox = {}
      BY <1>1, <1>2, <1>3, <2>1 DEF Since
    <2>2. CASE inbox # {}
      <3>1. PICK m \in inbox : Cursor = log[m].created
        BY <2>2, CursorIsLatest DEF FeedInv
      <3>2. log[m].created <= polledAt /\ polledAt <= log[e].created + MaxDelay /\ log[m].created \in 0..MaxTime
        BY <1>1, <1>3 DEF FeedInv, PollsAlone, FeedTypeOK
      <3> QED
        BY <1>1, <1>2, <1>3, <2>2, <3>1, <3>2 DEF Since
    <2> QED
      BY <2>1, <2>2
  <1>4. CASE ~config.outages /\ config.overlap >= Lag(config) /\ InitialLookback >= Lag(config)
    <2>1. now <= polledAt + Interval /\ polledAt <= log[e].created + MaxDelay + Interval * pollFaults
      BY <1>1, <1>2, <1>4, Products DEF FeedInv, PollsOnTime
    <2>2. /\ Interval * pollFaults \in Nat /\ Interval * config.maxFaults \in Nat
          /\ Interval * pollFaults <= Interval * config.maxFaults
          /\ Lag(config) = MaxDelay + Interval * config.maxFaults + Interval
      BY <1>1, <1>2, Products DEF Lag
    <2>3. now - Lag(config) <= log[e].created /\ Lag(config) \in Nat
      BY <1>1, <1>2, <2>1, <2>2
    <2>4. CASE inbox = {}
      BY <1>1, <1>2, <1>4, <2>3, <2>4 DEF Since
    <2>5. CASE inbox # {}
      <3>1. PICK m \in inbox : Cursor = log[m].created
        BY <2>5, CursorIsLatest DEF FeedInv
      <3>2. log[m].created <= now /\ log[m].created \in 0..MaxTime
        BY DEF FeedInv, ListOK, FeedTypeOK
      <3> QED
        BY <1>1, <1>2, <1>4, <2>3, <2>5, <3>1, <3>2 DEF Since
    <2> QED
      BY <2>4, <2>5
  <1> QED
    BY <1>1, <1>3, <1>4 DEF WideEnough

----------------------------------------------------------------------------
(* At boot nothing has happened.                                           *)
LEMMA FeedInitInv == FeedInit => FeedInv
  <1> SUFFICES ASSUME FeedInit PROVE FeedInv
    OBVIOUS
  <1>1. config \in Setting /\ config.maxFaults \in Nat
    BY FeedAssumption DEF FeedInit, Setting
  <1>2. DOMAIN log = {}
    BY DEF FeedInit
  <1> QED
    BY <1>1, <1>2, FeedAssumption DEF FeedInit, FeedInv, FeedTypeOK, ListOK, HasLatest, PollsAlone, PollsOnTime

(* Time passes: where there are no outages a poll is due first.            *)
LEMMA AdvanceInv == ASSUME FeedInv, Advance PROVE FeedInv'
  <1>1. /\ now \in 0..MaxTime /\ now < MaxTime /\ now' = now + 1 /\ polledAt \in 0..now
        /\ config.outages \/ now < polledAt + Interval
        /\ UNCHANGED <<config, log, inbox, polling, page, polledAt, pollFaults>>
    BY DEF Advance, FeedInv, FeedTypeOK
  <1>2. FeedTypeOK'
    BY <1>1, FeedAssumption DEF FeedInv, FeedTypeOK
  <1>3. ListOK'
    <2> SUFFICES ASSUME NEW e \in DOMAIN log PROVE log[e].created <= now + 1 /\ log[e].visible <= log[e].created + MaxDelay
      BY <1>1 DEF ListOK
    <2>1. log[e].created \in 0..MaxTime
      BY DEF FeedInv, FeedTypeOK
    <2> QED
      BY <1>1, <2>1 DEF FeedInv, ListOK
  <1>4. HasLatest' /\ PollsAlone'
    BY <1>1 DEF FeedInv, HasLatest, PollsAlone
  <1>5. PollsOnTime'
    BY <1>1, FeedAssumption DEF FeedInv, PollsOnTime
  <1> QED
    BY <1>2, <1>3, <1>4, <1>5 DEF FeedInv

(* Stripe creates an event, at the time of now.                            *)
LEMMA CreateEventInv == ASSUME FeedInv, NEW e \in EventId, NEW delay \in 0..MaxDelay, CreateEvent(e, delay) PROVE FeedInv'
  <1>1. /\ e \notin DOMAIN log /\ now + delay <= MaxTime /\ now \in 0..MaxTime /\ polledAt \in 0..now
        /\ UNCHANGED <<config, now, inbox, polling, page, polledAt, pollFaults>>
        /\ inbox \subseteq DOMAIN log /\ page \subseteq DOMAIN log
    BY DEF CreateEvent, FeedInv, FeedTypeOK
  <1>2. /\ DOMAIN log' = DOMAIN log \cup {e}
        /\ log'[e] = [created |-> now, visible |-> now + delay]
        /\ \A x \in DOMAIN log : log'[x] = log[x]
        /\ log' = [x \in DOMAIN log' |-> log'[x]]
    BY DEF CreateEvent
  <1>3. /\ log'[e].created = now /\ log'[e].visible = now + delay
        /\ log'[e] \in [created : 0..MaxTime, visible : 0..MaxTime]
    BY <1>1, <1>2, FeedAssumption
  <1>4. FeedTypeOK'
    BY <1>1, <1>2, <1>3 DEF FeedInv, FeedTypeOK
  <1>5. ListOK'
    BY <1>1, <1>2, <1>3, FeedAssumption DEF FeedInv, ListOK
  <1>6. HasLatest'
    BY <1>1, <1>2 DEF FeedInv, HasLatest
  <1>7. PollsAlone'
    <2>1. polledAt <= now + MaxDelay
      BY <1>1, FeedAssumption
    <2> QED
      BY <1>1, <1>2, <1>3, <2>1 DEF FeedInv, PollsAlone
  <1>8. PollsOnTime'
    <2>1. pollFaults \in Nat /\ Interval \in Nat /\ MaxDelay \in Nat /\ Interval * pollFaults \in Nat
      BY Products, FeedAssumption DEF FeedInv, FeedTypeOK, Setting
    <2>2. e \notin page
      BY <1>1
    <2>3. polledAt <= log'[e].created + MaxDelay + Interval * pollFaults
      BY <1>1, <1>3, <2>1
    <2> QED
      BY <1>1, <1>2, <2>1, <2>2, <2>3 DEF FeedInv, PollsOnTime
  <1> QED
    BY <1>4, <1>5, <1>6, <1>7, <1>8 DEF FeedInv

(* A poll begins: it lists all that is visible in the window, and by the   *)
(* induction hypothesis nothing that is not recorded lies before it.       *)
LEMMA BeginPollInv ==
    ASSUME FeedInv, BeginPoll, \A s \in Settings : WideEnough(s)
    PROVE  FeedInv'
  <1>1. /\ ~polling /\ polling' = TRUE /\ polledAt' = now
        /\ page' = {e \in DOMAIN log : log[e].visible <= now /\ log[e].created >= Since}
        /\ UNCHANGED <<config, now, log, inbox, pollFaults>>
        /\ now \in 0..MaxTime /\ polledAt \in 0..now
    BY DEF BeginPoll, FeedInv, FeedTypeOK
  <1>2. page = {} /\ page' \subseteq DOMAIN log
    BY <1>1 DEF FeedInv, FeedTypeOK
  <1>3. \A e \in DOMAIN log : log[e].created \in 0..MaxTime /\ log[e].visible \in 0..MaxTime
    BY DEF FeedInv, FeedTypeOK
  <1>4. ASSUME NEW e \in DOMAIN log \ (inbox \cup page') PROVE now <= log[e].created + MaxDelay
    <2>1. log[e].created >= Since
      BY <1>1, WindowCovers DEF NothingSteppedOver
    <2>2. ~(log[e].visible <= now)
      BY <1>1, <2>1
    <2> QED
      BY <1>1, <1>3, <2>2, FeedAssumption DEF FeedInv, ListOK
  <1>5. FeedTypeOK'
    BY <1>1, <1>2, FeedAssumption DEF FeedInv, FeedTypeOK
  <1>6. ListOK' /\ HasLatest'
    BY <1>1 DEF FeedInv, ListOK, HasLatest
  <1>7. PollsAlone'
    <2>1. \A e \in inbox \cup page' : e \in DOMAIN log /\ log[e].created <= now
      BY <1>2 DEF FeedInv, FeedTypeOK, ListOK
    <2> QED
      BY <1>1, <1>4, <2>1 DEF PollsAlone
  <1>8. PollsOnTime'
    <2> SUFFICES ASSUME ~config.outages
                 PROVE  /\ now <= now + Interval
                        /\ \A e \in DOMAIN log \ inbox :
                             now <= log[e].created + MaxDelay + Interval * pollFaults + (IF e \in page' THEN Interval ELSE 0)
      BY <1>1 DEF PollsOnTime
    <2>1. pollFaults \in Nat /\ Interval \in Nat /\ MaxDelay \in Nat /\ Interval * pollFaults \in Nat
      BY Products, FeedAssumption DEF FeedInv, FeedTypeOK, Setting
    <2>2. ASSUME NEW e \in DOMAIN log \ inbox, e \in page'
          PROVE  now <= log[e].created + MaxDelay + Interval * pollFaults + Interval
      BY <1>1, <1>2, <1>3, <2>1 DEF FeedInv, PollsOnTime
    <2>3. ASSUME NEW e \in DOMAIN log \ inbox, e \notin page'
          PROVE  now <= log[e].created + MaxDelay + Interval * pollFaults
      BY <1>1, <1>3, <1>4, <2>1, <2>3
    <2> QED
      BY <1>1, <1>3, <2>1, <2>2, <2>3
  <1> QED
    BY <1>5, <1>6, <1>7, <1>8 DEF FeedInv

(* An event that is recorded leaves a latest one in the inbox.             *)
LEMMA LatestStays ==
    ASSUME FeedInv, NEW e \in DOMAIN log, inbox' = inbox \cup {e}, log' = log
    PROVE  HasLatest'
  <1>1. \A x \in inbox \cup {e} : log[x].created \in Int
    BY DEF FeedInv, FeedTypeOK
  <1>2. CASE inbox = {}
    BY <1>1, <1>2 DEF HasLatest
  <1>3. CASE inbox # {}
    <2>1. PICK m \in inbox : \A x \in inbox : log[x].created <= log[m].created
      BY <1>3 DEF FeedInv, HasLatest
    <2>2. CASE log[e].created <= log[m].created
      BY <2>1, <2>2 DEF HasLatest
    <2>3. CASE log[m].created <= log[e].created
      BY <1>1, <2>1, <2>3 DEF HasLatest
    <2> QED
      BY <1>1, <2>2, <2>3
  <1> QED
    BY <1>2, <1>3

(* A listed event is recorded, or a pushed one.                            *)
LEMMA RecordInv == ASSUME FeedInv, Record \/ (\E e \in EventId : HandleWebhook(e)) PROVE FeedInv'
  <1>1. PICK e \in DOMAIN log :
            /\ inbox' = inbox \cup {e}
            /\ \/ e \in page /\ page' = page \ {e}
               \/ config.webhook /\ page' = page
            /\ UNCHANGED <<config, now, log, polling, polledAt, pollFaults>>
    <2>1. CASE Record
      BY <2>1 DEF Record, FeedInv, FeedTypeOK
    <2>2. CASE \E e \in EventId : HandleWebhook(e)
      BY <2>2 DEF HandleWebhook
    <2> QED
      BY <2>1, <2>2
  <1>2. FeedTypeOK'
    BY <1>1 DEF FeedInv, FeedTypeOK
  <1>3. ListOK' /\ HasLatest'
    BY <1>1, LatestStays DEF FeedInv, ListOK
  <1>4. PollsAlone'
    BY <1>1 DEF FeedInv, PollsAlone
  <1>5. PollsOnTime'
    BY <1>1 DEF FeedInv, PollsOnTime
  <1> QED
    BY <1>2, <1>3, <1>4, <1>5 DEF FeedInv

(* The poll is over, finished or failed: a failure costs an interval.      *)
LEMMA EndPollInv == ASSUME FeedInv, EndPoll \/ FailPoll PROVE FeedInv'
  <1>1. /\ config.maxFaults \in Nat /\ pollFaults \in 0..config.maxFaults
        /\ Interval \in Nat /\ MaxDelay \in Nat
        /\ Interval * pollFaults \in Nat /\ Interval * (pollFaults + 1) = Interval * pollFaults + Interval
        /\ polledAt \in Nat /\ \A e \in DOMAIN log : log[e].created \in Nat
    BY Products, FeedAssumption DEF FeedInv, FeedTypeOK, Setting
  <1>2. CASE EndPoll
    BY <1>2 DEF EndPoll, FeedInv, FeedTypeOK, ListOK, HasLatest, PollsAlone, PollsOnTime
  <1>3. CASE FailPoll
    <2>1. /\ pollFaults < config.maxFaults /\ pollFaults' = pollFaults + 1 /\ page' = {} /\ polling' = FALSE
          /\ UNCHANGED <<config, now, log, inbox, polledAt>>
      BY <1>3 DEF FailPoll
    <2>2. FeedTypeOK' /\ ListOK' /\ HasLatest'
      BY <1>1, <2>1 DEF FeedInv, FeedTypeOK, ListOK, HasLatest
    <2>3. PollsAlone'
      BY <1>1, <2>1 DEF PollsAlone
    <2>4. PollsOnTime'
      BY <1>1, <2>1 DEF FeedInv, PollsOnTime
    <2> QED
      BY <2>2, <2>3, <2>4 DEF FeedInv
  <1> QED
    BY <1>2, <1>3

(* The invariant is inductive where the window is wide enough.             *)
LEMMA FeedStepInv ==
    ASSUME \A s \in Settings : WideEnough(s)
    PROVE  FeedInv /\ [FeedNext]_feedVars => FeedInv'
  <1> SUFFICES ASSUME FeedInv, [FeedNext]_feedVars PROVE FeedInv'
    OBVIOUS
  <1>1. CASE UNCHANGED feedVars
    BY <1>1 DEF feedVars, FeedInv, FeedTypeOK, ListOK, HasLatest, PollsAlone, PollsOnTime
  <1>2. CASE FeedNext
    BY <1>2, AdvanceInv, CreateEventInv, BeginPollInv, RecordInv, EndPollInv DEF FeedNext
  <1> QED
    BY <1>1, <1>2

----------------------------------------------------------------------------
(* The inductive invariant holds in every reachable state.                 *)
THEOREM FeedInvariance ==
    ASSUME \A s \in Settings : WideEnough(s)
    PROVE  FeedSpec => []FeedInv
  <1>1. FeedInit /\ [][FeedNext]_feedVars => []FeedInv
    BY FeedInitInv, FeedStepInv, PTL
  <1>2. FeedSpec => FeedInit /\ [][FeedNext]_feedVars
    BY PTL DEF FeedSpec
  <1> QED
    BY <1>1, <1>2, PTL

(* Where the poller's window is wide enough, no event that Stripe emits is *)
(* ever stepped over: sinceFor always reaches back to all that is not      *)
(* recorded yet.                                                           *)
THEOREM NoEventIsSteppedOver ==
    ASSUME \A s \in Settings : WideEnough(s)
    PROVE  FeedSpec => []NothingSteppedOver
  <1>1. FeedInv => NothingSteppedOver
    BY WindowCovers
  <1> QED
    BY <1>1, FeedInvariance, PTL
=============================================================================
