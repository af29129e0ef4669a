# A TLA+ model of doorbust

doorbust is a flash-sale backend: a Go HTTP service over PostgreSQL that reserves
units of a product, takes payment through Stripe and gives back what is not paid
for in time, with a load generator beside it. This directory holds TLA+ modules of
both, TLC configurations that check them on small instances, and TLAPS proofs for instances of every size.
`PROJECT.json` maps every definition to the lines it models and lists the runs,
their mutants, the hazards and the theorems.

    cd tla
    tlc -config OrderBook.cfg MCOrderBook       # any run: its cfg and its MC module
    tlapm OrderBookProofs.tla

## The system

| part | state | operations | hard because |
|---|---|---|---|
| order service (`internal/orders/service.go`, `status.go`) | `orders`, `stock` | CreateOrder, Checkout, CancelOrder, FulfillPayment, FailPayment, SweepExpired | transactions of several statements at READ COMMITTED race over the same rows; Checkout calls Stripe between a read and a write |
| reserve strategies (`strategy_txn.go`, `strategy_cte.go`) | none of their own | baseline, reserve-last, cte | differ in the order of statements and in what they lock, must not differ in effect |
| idempotency keys (`strategy_idempotent.go`) | `order_idempotency` | claim, record, release, replay | three separate statements around a transaction, with no transaction around them |
| sweeper (`sweeper.go`) | none | ticker, batches of ExpireOrders | several sweepers, rows locked by others, must always make progress |
| payment gateway (`payments/gateway.go`) | Stripe's intents | CreatePaymentIntent | retried; the idempotency key makes it one intent per order |
| event worker (`payments/worker.go`) | `stripe_events` | tick, claim, apply, mark | the effect and the mark commit separately; events repeat and come in any order |
| event delivery (`payments/poller.go`, `handler.go`) | cursor = max of the inbox | poll, webhook | late, partial and repeated deliveries; the cursor is derived |
| products (`internal/products`) | `products`, `stock` | CreateProduct | two inserts in one transaction |
| customers (`internal/customers`) | `customers`, a cache | Link, Resolve | retries inside a transaction, a cache filled before the commit |
| rate limiter (`internal/ratelimit`) | a map of buckets per limiter | Allow | idle buckets are evicted when a new key arrives |
| process (`cmd/api.go`, `ready.go`, `pprof.go`, `main.go`), pool (`adapters/postgresql/pool.go`) | errgroup, server, connections, last clean poll | start, serve, tick, shut down, readiness | jobs and requests compete for connections, the worker holds two; shutdown must drain and end |
| load generator (`bench/`) | recorder, child process, a database it empties | run, sweep | concurrent goroutines, an app that hangs or dies, a crash that leaves the app behind; must not empty the wrong database nor report numbers that are not the app's |
| storefront (`web/`) | page state | | stale views |
| authentication, JSON, configuration, static files | none | | |

The request handlers, the worker, the sweeper and the poller are goroutines of one
process (or of several during a deploy). They share nothing but the database: a
worker calls the order service, delivery reaches the worker through the table
`stripe_events`, and the sweeper and the buyers meet the worker in the row locks of
`orders` and `stock`.

What makes each part correct:

- **orders and stock**: never more orders than units; `num_reserved` and `quantity`
  equal to what the orders say; a unit given back or sold once; terminal statuses final.
- **payments**: a payment that FulfillPayment accepted is a completed order; a
  refund is reported exactly when the unit is gone.
- **sweeper**: what runs out comes back, and no deadlock stops it.
- **idempotency keys**: one order per key, one answer per key, no key stuck.
- **inbox**: a stamp is true; every payment is decided.
- **delivery**: no event is stepped over.
- **customers**: an order is under its caller's row; a row keeps its subject; a lost race
  is retried; every call ends.
- **rate limiter**: eviction changes nobody's budget.
- **process**: nobody starves for a connection; shutdown loses no request without saying
  so, waits for the jobs and ends; a failing poller shows.
- **load generator**: empties only a database it may; its checks accuse no correct
  server; a valid result is about the app it started; it ends and leaves no app behind.

## Modules

    OrderBook          the tables, each transaction one atomic step
      OrderTx          the same operations statement by statement; implements OrderBook
      Inbox            stripe_events and its workers, over OrderBook
    Idempotency        keyed POST /orders around an atomic reserve
    EventFeed          Stripe's list, the poller's cursor and the webhook
    Customers          Link and the resolvers, statement by statement, in every arm
    TokenBucket        what a rate limiter promises
      RateLimit        both limiters on the way to a handler; implements TokenBucket twice
    Server             the process: pool, jobs, shutdown, readiness
    Bench              the load generator, and the app seen from outside
    ...Proofs          the theorems about a module; InboxProofs also has those about EventFeed
    MC...              the instances TLC runs

An operator whose name begins with `Mutant` is the definition after it with a
plausible bug. No specification uses it; the mutation runs put it in place of the
definition and expect the property to fail.

### OrderBook

`orders` and `stock` are functions from ids to rows; `initial` remembers the
quantity a product was created with and `overdue` the orders whose `expires_at` has
passed. One action per operation of the service with its committed effect. Failed
calls change nothing and are stuttering steps. Left out: price, names and times, and
the customer as anything but an id.

### OrderTx

Every process has a program counter (`pc`), the call it serves (`job`) and the rows
it has written and not committed (`wo`, `ws`). A written row is locked until the
process commits or rolls back. What PostgreSQL does at READ COMMITTED is modelled
by when a statement may take its step: an UPDATE whose WHERE fails on the committed row
returns no rows at once; one whose WHERE holds waits until nobody else holds the row
and is then judged on the newest version; `FOR UPDATE SKIP LOCKED` passes over held
rows. A cycle of waiting processes is broken by failing a member (`DeadlockDetected`).
Any process may fail between any two statements (`Abort`), and a commit's answer may be
lost after the server has committed (`Commit`).

| actions | code |
|---|---|
| BeginReserve, ReserveStock, CreateOrder, Commit | `txnStrategy.Reserve`, both orders of its statements |
| BeginReserve, ReserveAndCreateOrder | `cteStrategy.Reserve` |
| BeginCheckout, CreatePaymentIntent, MarkOrderAwaitingPayment | `Checkout` |
| BeginCancel / BeginEvent, GuardedUpdate, MoveUnit, Commit | `CancelOrder`, `FulfillPayment`, `FailPayment` |
| Classify | the second read in `FulfillPayment` and `classifyUnfulfillable` |
| ExpireOrders, MoveUnit, Commit | `SweepExpired`, driven by `Sweeper` |

Stripe and the buyer are external: `Pay` needs the client secret that Checkout
returned; `Decline` stands for a declined attempt, which can be followed by a
successful one, and for a canceled intent. An intent is named by its order since the
gateway's idempotency key contains nothing else.

### Idempotency

Claim, inner reserve, record, release and replay are steps of their own. The inner
reserve creates an order, fails, or commits and loses the answer. `Crash` stands for the end of
the process and of the request context, which all statements share. `lost` and
`dropped` are histories the properties use to say which fault is to blame.

### Inbox

Delivery inserts an event once. A worker's drain claims the oldest claimable event,
applies it through OrderBook's FulfillPayment or FailPayment, marks it and goes on. The
effect is committed by `Apply`, the mark by `Mark`: a crash between them repeats the event.
The rest of the order service moves underneath.

### EventFeed

Time is a counter. Stripe stamps an event with its creation time and lists it up to
`MaxDelay` later; the list is newest first, as Stripe's API returns it, and a poll
records it one by one. A deployment (`config`) is chosen at boot: the overlap, whether
the webhook is connected, whether the process can be down for any time, how many polls
fail.

### Customers

A request is a read (`GET /me`, `GET /orders`) whose statements commit by themselves, or
a reservation in one of the three arms. `FindCustomerBySub`, `UpdateCustomerEmail` and
`LinkCustomer` are the statements of `linkOnce`; `UniqueViolation` is `Link`'s retry.
`written` holds the customers row a transaction has written, `stockLock` the only lock of
the stock row that matters here. A statement that clashes with a written row waits
(`Free`); an error aborts the transaction, so a retry inside it cannot succeed and is
modelled as the failure it is. `orders.customer_id` is a foreign key: the insert needs the
row and waits for its writer. `cache` is `CachedResolver.ids`, filled by `Linked`, before
the commit, as in the code. `surfaced` and `job.known` are histories. Cognito is
external: tokens pair a subject with an email, old tokens stay valid, an address may pass to
another user (`Circulations` enumerates the tokens about).

### RateLimit and TokenBucket

A request passes the limiter by address and, on protected routes, authentication, the
limiter by subject and the vendor group. `Allow` holds the mutex and is one step.
`TokenBucket` is the promise: one bucket per key, nothing evicted. The refinement maps a
key without a bucket to a full one, which is sound when a bucket idle for longer than `Idle`
has refilled; `RateLimitAssumption` states that (`rate * (Idle + 1) >= Burst`; the
defaults, a burst of 20 and ten minutes, satisfy it for every rate of 1 and more).
Listings are here for `parsePagination`, whose int32 conversion comes before the clamp:
a huge limit wraps to a small or negative one, never past the page; a huge offset wraps too,
to a negative one PostgreSQL refuses or to a small one, that is to the wrong page.

### Server

`state`, `conns` and `queue` are the pool: processes wait in arrival order, as pgxpool
serves them. A request takes one connection, the worker a second one while it holds its
claim (`Apply`). `ctx` is the group's context, `http` the server from `binding` to `closed`
or `overdue`, `exit` the process's end. Jobs obey the group's context wherever they are,
requests do not. `polled` and `age` are `LastSuccess`, counted in poll intervals.

### Bench

`phase` follows `Execute` and the command around it; `pc`, `outcome` and `sent` are the
dispatcher's goroutines and the recorder; `port` says who listens on the address: nobody,
the app of this run, a stray of an earlier one, or an app that was sent SIGKILL and is not
gone yet (`stop` does not wait for that). A DSN is its form and, of each of its texts, whether
"bench" is in it; `databaseName` is what the guard reads of it. The app is seen from outside: a request
in its handler commits, is cancelled or dies with the process, and a COMMIT on its way
(`orphan`) is carried out or not. `Crash` is the data race of `zipfFor` in its worst
outcome. `excuses` and `tainted` are histories.

## Runs

| run | instance | shows |
|---|---|---|
| order_book | 3 orders, 2 products of 0 to 2 units, batch 2 | Accounting, NoOversell, IntentAgreesWithStatus, Lifecycle |
| tx_orders | 2 requests in all three arms, checkout, cancel, a worker, a sweeper, 2 orders of 1 unit, 1 fault | the race over an order and over the last unit: ImplementsOrderBook, BackstopsNeverFire, NoFalseAlarm, NoSilentLoss, NoLockCycle |
| tx_sweepers | 2 sweepers, 4 orders of 2 products, batch 2 | deadlocks in the stock rows occur and are survived: ImplementsOrderBook, StockComesBack |
| idempotency | 3 requests, 2 keys, 2 products, 2 faults | OneOrderPerAnsweredKey, AnswersAgree, RecordedForGood, ClaimSettled |
| idempotency_lost | 2 requests, 1 key, 1 fault | violated: OneOrderPerKey |
| inbox | 2 workers, 1 order, all event types, 2 attempts, 2 faults, 1 unreadable payload | StampsAreTrue, EffectsHaveCauses, ProcessedForGood, PaymentDecided |
| feed | 3 events, 5 units of time, delay 1 | NothingSteppedOver, EveryEventRecorded |
| feed_partial | the same, an outage and a failed poll | violated: EveryEventRecorded |
| customers | 2 requests, 3 calls, 2 users, 2 addresses, every arm with and without the cache, 1 fault | OrdersAreTheirCallers, SubjectsKeep, LostRaceIsRetried, DeadlocksNeedAnUnsettledCaller, EveryCallEnds |
| rate_limit | 2 addresses, 2 callers, burst 3 | ImplementsTokenBuckets, and pages within their limit (TypeOK) |
| server | 1 client, 3 jobs, 2 connections | NobodyStarves, ExitIsOrderly, ShutdownEnds, FailureShows |
| bench | 2 commands of 5 command lines, 2 requests of which 1 or both are warm-up, 2 faults | ChecksAreFair, ReportsAreReal, NoAppLeft, CommandEnds |

TypeOK is an invariant of the runs order_book, customers, rate_limit and server. In the
other modules it documents the ranges of the variables; it holds when added to the invariants
of their runs.

**Why the bounds are enough.** The conflicts of the order service are between pairs
of transactions on one order and one stock row; order_book has three reservations for up
to two units of two products (sold out, last unit, spare unit), tx_orders two
orders competing for at most one unit, through every arm, and a sweep of several rows. Two products are needed
only for the sweepers' deadlock. It takes four orders: each sweeper holds a batch of two, listed in opposite
orders of their products. Batches of 2 out of up to 4 are full and short. Two faults suffice for a crash after the
effect followed by a failure of the retry. Two attempts give "again" and "given up".
Three events and an overlap shorter than the history give an event inside
the window, one outside it and one that moves the cursor. Keys interact only through
order ids, so two are enough. Two requests of two users on two addresses make every clash
of the two unique columns, and a third call meets what a rollback left in the cache. A
limiter's keys interact only through the sweep a newcomer causes: two keys. Two
connections are the least with which the worker can work, and one client competes with
its two; a tick less than the grace, at it and past it are all there. In Bench the second
command meets what a crash of the first left behind; one request of two is outside the
measured window, and with room for one the other saturates the generator. Counters that grow are capped by
`MaxOrders`, `MaxFaults` and `MaxTime`, each named in its module; `BeginReserve` counts
reservations in flight so that the cap never stops a started one.
`CHECK_DEADLOCK FALSE` is set where a run may end because orders, faults or time are used up.

**Symmetry** is used in runs without liveness, over goroutines, products and (in OrderBook)
order ids, and over the keys of the limiters, which are only compared for equality.

**Fairness.** OrderTx: a started call continues (goroutines run), the sweeper's ticker
fires, and a sweeper waiting for a stock row that is free again and again gets it
(strong fairness of one statement: PostgreSQL queues the waiters of a row lock).
Nothing is assumed of buyers, Stripe or new calls. Idempotency: a started request continues;
clients need not retry. Inbox: tickers fire, drains continue, and an emitted event is
delivered, which EventFeed looks into. EventFeed: the clock and the poller run; nothing is
assumed of the webhook. Customers: a started request goes on; callers need not call.
Server: goroutines run, free connections are handed out, tickers fire, handlers answer
(each statement is bounded by the request's minute); nothing is assumed of arrivals,
signals, Stripe, or the drain's deadline. Bench: the generator's own steps, the client's
timeout, PostgreSQL finishing an orphan, a child that listens or exits; nothing is asked
of the app's handlers. Faults are finite in number: a fault that recurs for ever
prevents any progress.

## What the violated runs show

1. **A second unit for one key** (`idempotency_lost`). `reserveAndRecord` takes any error
   of the inner strategy to mean that there is no order and releases the key. When COMMIT
   succeeded and the connection broke before the answer, the order exists and the retry
   creates another. OneOrderPerAnsweredKey shows that this is the only way.
2. **Events stepped over** (`feed_partial`). After an outage longer than the overlap, a poll
   that fails half way has stored the newest events only; the cursor is past the rest.
   NothingSteppedOver shows that complete polls never do this.

## Exceptions the properties name, and other observations

Modelling found these; the first four are exceptions written into a property of a passing
run, which shows that they are the only ones there.

- **A key in progress for ever.** A crash, or a request context that ends, between claim
  and record leaves the key unfinished. `strategy_idempotent.go:88` counts on pruning, and
  nothing prunes. ClaimSettled excepts a dropped request and shows that no other error
  leaves a key behind.
- **An id cached before the commit** (`resolver.go:71`). If the reservation rolls back, a
  new id names no row, and that buyer's reservations fail on the foreign key until a
  restart; a row whose adoption rolled back takes orders while it belongs to no subject.
  OrdersAreTheirCallers has the second as its exception for `CUSTOMER_CACHE`.
- **An address two users have had.** LinkCustomer's comment calls it the hole; it is
  OrdersAreTheirCallers's other exception.
- **A run without its checks' blessing.** A request answered 500 whose transaction
  committed, an orphan that commits between the reads of a product, and a failed read fail
  the end-of-run checks although the server is right (ChecksAreFair). The first is the
  run's real finding, the others void a good run.
- `Link`'s retry cannot succeed inside the reserve transaction: the unique violation has
  aborted it. The caller gets a 500 once, and LostRaceIsRetried speaks of calls outside.
- A transient failure of an event is meant to wait for the next poll (`worker.go:128`);
  `drain` claims it again at once and spends all attempts in one go.
- With `DB_MAX_CONNS=1` the worker waits for itself; `ServerAssumption` excludes it.
- `shapes.go:104` says the dispatcher picks SKUs on one goroutine; `loadgen/run.go:103`
  picks in the request's goroutine. `zipfFor` writes its map unguarded, and the runtime may
  stop the process. The app stays on the port, and the next run's readiness check is
  answered by it. ReportsAreReal holds because that app refuses the new issuer's tokens.
- Timeouts do not void a run: a run in which every request timed out is valid, with no
  latencies of reserves. `loadgen/run.go:28` says a saturated generator voids the run; in
  the warm-up it does not, and neither do connection errors there.
- `TrustedPercentileFor` trusts p99.9 with exactly 0.1 % late sends, of which the 99.9th
  percentile is then one, where the comment above it says fewer than 0.1 %. The runs are too
  small for this case; `LatenessIsJudgedExactly` shows that it is the only one. The same
  theorem shows that its answer "none" never voids a run by itself: the rule on the p99 of
  the send lag has voided that run already.
- **The guard reads the DSN in its own way.** `guard.go:24` calls the marker "the substring a
  database name must contain before bench will destroy its contents", and line 40 says that
  "the whole point is to fail closed". `databaseName` takes the path of `url.Parse`. A DSN
  of keywords has no scheme and is all path, so "bench" in the user's or the host's name
  satisfies the guard whatever `dbname=` says; in a URL `?dbname=`, which goes before the
  path for pgx, is not looked at. The database so named is migrated and emptied. The URLs
  the repository's tests and defaults use are read the same way by both. The model has the
  guard as it is; which database the driver opens is outside it, and no property claims
  that only a benchmark's database is emptied.
- A warm-up that all requests are due in is an error only when the answers, too, came
  within it; when one came later the window is empty, and a run that measured nothing is
  valid.
- `stop` does not wait after its SIGKILL. In a sweep the next arm may find the killed app
  on the port: its own child exits, and its load is refused or loses its connections.
  ReportsAreReal shows that such an arm counts no answer of the killed app.
- `bench sweep` takes no notice of whether its saturation run was valid, and a wrong
  `-arrivals` is refused only after the database has been emptied.

## Proofs

TLC checks the instances above; the theorems hold for every value of the constants that
satisfies the assumptions of the modules (`...Assumption`, which TLC evaluates in every run).
Each proofs module states an inductive invariant, proves `Init => IInv` and one lemma per
action, and derives the properties from it. Every inductive invariant was first checked by
TLC on the run of its module. Theorems named Invariance are `Spec => []IInv` and left out here.

| module | theorem | states |
|---|---|---|
| OrderBookProofs | TypeCorrect, AccountingHolds, NeverOversold, IntentsAgree | TypeOK, Accounting, NoOversell, IntentAgreesWithStatus |
| | LifecycleHolds | Lifecycle (action property) |
| OrderTxProofs | OrdersRefineOrderBook | ImplementsOrderBook (refinement) |
| | TypeCorrect, BackstopsHold, AlarmsAreTrue, NoPaymentIsLost | TypeOK, BackstopsNeverFire, NoFalseAlarm, NoSilentLoss |
| | NeverOversoldAtReadCommitted, OnlySweepersDeadlock | OrderBook's NoOversell, OnlySweepersInCycles |
| | LocksAreOrdered, with at most one sweeper | NoLockCycle |
| IdempotencyProofs | KeysOrderOnce, AnswersNameOneOrder | OneOrderPerAnsweredKey, AnswersAgree |
| | RecordsAreFinal | RecordedForGood (action property) |
| InboxProofs | StampsTellTheTruth, CausesAreRecorded | StampsAreTrue, EffectsHaveCauses |
| | ProcessedRowsAreFinal | ProcessedForGood (action property) |
| | EventsRefineOrderBook | Inbox implements OrderBook (refinement) |
| | NoEventIsSteppedOver, with a window that is wide enough | NothingSteppedOver, of EventFeed |
| CustomersProofs | TypeCorrect, OrdersUnderTheirCallers, RacesAreRetried, OnlyUnsettledCallersDeadlock | TypeOK, OrdersAreTheirCallers, LostRaceIsRetried, DeadlocksNeedAnUnsettledCaller |
| | SubjectsAreKept | SubjectsKeep (action property) |
| RateLimitProofs | LimitersAreTokenBuckets | ImplementsTokenBuckets (two refinements) |
| | TypeCorrect | TypeOK, with the page bound |
| ServerProofs | TypeCorrect, ExitsInOrder | TypeOK, with the pool and its queue; ExitIsOrderly |
| BenchProofs | NoAppIsLeft | NoAppLeft |
| | ChecksAccuseNobody, ResultsAreReal | ChecksAreFair, ReportsAreReal |
| | LatenessIsJudgedExactly | (the rules on late sends, for every number of sends) |

**OrderBook.** `IInv == TypeOK /\ Accounting /\ CheckHolds`. TypeOK alone is not inductive:
`Committed` and `Released` could take a counter below zero. Accounting gives a live order a
unit of `num_reserved`, and CheckHolds (`num_reserved <= quantity`) then a unit of `quantity`,
so a sale leaves both natural. NoOversell follows: live orders are at most `quantity`, and
`quantity` plus the completed orders is `initial`. The argument is one of cardinalities:
`LeaveLive` says what one order leaving does to its product, `DifferenceCardinality` what a
batch does. Intents and the lifecycle need only types and `StepsOfOneOrder`. The set of order
ids may be infinite.

**OrderTx.** `TxInv` says that the committed tables satisfy what OrderBook promises (`Book`),
that no two transactions have written the same row (`Exclusive`), and at each program counter
what a process has written by then and how it differs from the committed rows it will replace
(`Local`: a taken unit is the committed stock row less one, a marked order was in the status
its guard asked for, a sweeper's stock rows account for the orders it has moved). A commit is then one
step of OrderBook; every other step leaves the committed tables alone. Because rows are
locked once written, what a guard saw stays true until the commit; this is where READ
COMMITTED could go wrong. `P == INSTANCE OrderBookProofs` supplies the invariants
of the book. Whoever holds a stock row and waits for another is a sweeper, so every
member of a lock cycle is one (OnlySweepersDeadlock, with any number of them): a deadlock
over order and stock rows costs a sweep that the next tick repeats, never a request or a payment
(over the customers row see Customers). With one sweeper there is no
cycle at all: LocksAreOrdered has that hypothesis (`\A s, t \in Sweeper : s = t`), without which it
is false, as the deadlocks of tx_sweepers show.

**Idempotency.** The properties need to know who may still touch a key: a claimed key is held by one
request, whose row has no order (`HeldOnce`); what is recorded, or about to be, is an order of
that key (`RecordsAreTrue`); a key with an answered commit keeps its row and is held only by
the request recording that order (`OrdersKeepKeys`); an answered key is never held again
(`AnswersKeepKeys`).

**Inbox.** A stamp is written some steps after the effect it speaks of. `VerdictsAreTrue` says that
what a worker is about to stamp is true of the order and stays so, because completed, failed and
expired are final; `WorkersOK` that a claimed row is unprocessed and claimed once; `SentOK` that
Stripe reports a success only of an order that carries the intent, so a payment never meets
a pending or cancelled order. EventsRefineOrderBook composes the inbox with the order service: an
event applied twice, because a worker died before its mark, is still one step of OrderBook and a
stutter, so AccountingHolds and NeverOversold hold of the tables Inbox works on.

**EventFeed.** How wide must the overlap be? `WideEnough` answers, and is the theorem's
hypothesis on the deployments. (1) Complete polls alone, with outages of any length: an overlap
of the delay of Stripe's list, and a first window that reaches the start of the history.
(2) The webhook beside the poller, and polls that fail, without outages: overlap and first window of
the delay and `Interval * (maxFaults + 1)`. The two deployments of the run feed satisfy one each; the
one of feed_partial satisfies neither, and loses events. With the defaults (`cmd/main.go:66-71`: a poll
every 10 s, an overlap of 2 min) and a delay of up to 10 s, (2) covers ten failed polls.
`PollsAlone` and `PollsOnTime` bound how old an unrecorded event can be when the last poll began.

**Customers.** `Fits` says what a written row must be to be committed later: no clash with any
committed row or with any other open transaction's, and the subject (or, of a row without one, the email)
of the row it replaces. Uniqueness and SubjectsKeep follow from it. `Standing(s, id)`
says that whatever is or will be stored under `id` may stand for the user `s`; it is true of ids
in a reservation's hands, in the cache and in orders, and lasts. `Pending` counts the calls that
may still draw an id, so `seq` is bounded by the calls; it rests on the same fact as LostRaceIsRetried:
after a failed upsert the caller has a row, so an attempt after the first never inserts.

**RateLimit.** `IdleRefills`: a bucket not asked for in `a` ticks is full or has `a * rate` tokens.
With RateLimitAssumption an evicted bucket was full, as the refinement mapping takes it to be.

**Server.** The queue holds exactly those who wait, once (`QueueOK`); only the worker has a second
connection (`HoldingsOK`); a server that closed in time has no request in flight (`DrainOK`).

**Bench.** NoAppLeft needs only that the app of this run is up, and not yet sent a SIGKILL, between
startApp and the stop (`ProcessOK`). The other two rest on one invariant. `BooksOK`: a row of stock counts its orders, a request
has one order at most and none while its transaction is open, wherever that transaction runs,
handler or orphan. `FreshOK` and `SeededOK`: TRUNCATE waits for the orphans of an earlier run, so at
the start of the load the tables are this run's alone. `LoadOK`: from the load to the verdict every
request is accounted for; what was never sent has left no trace, and every answer is the truth, of
which "sold out" is the one another request could make false (`ReserveKeeps`: a product that
has all its orders gets no more, and gives none back). ReportsAreReal follows with `VerdictOK`, that a valid
result was judged and holds no outcome but the three that count. ChecksAreFair is an argument of
cardinalities: the owners of the orders include every request counted as reserved and, unless an error
hides an order, are covered by those and the unknown (`OwnersCounted`, `CoverBound`); the reads of a
product agree because only an orphan can commit between them, and that is an excuse. Any number of requests,
products, arms, commands and faults; of the command lines nothing is assumed. LatenessIsJudgedExactly is
arithmetic on `at`, the index of a percentile; the model computes it exactly, where the code
multiplies a float64, whose rounding is left out.

What the proofs changed in the models:

- The deadlock property of Customers used to say that two known callers never deadlock. The
  invariant it needed was not inductive, and with a fourth call TLC finds why: a user whose
  email changes after the call has begun is known and still writes their row. Three calls are too
  few for that. DeadlocksNeedAnUnsettledCaller is what holds.
- Server's `InUse` is the cardinality of the connections held, and a process that leaves the
  queue is removed from its position. The behaviour is the same; a sum over a set could not
  be reasoned about.

Only model-checked: every liveness property (StockComesBack, ClaimSettled, PaymentDecided,
EveryEventRecorded, EveryCallEnds, NobodyStarves, ShutdownEnds, FailureShows, CommandEnds),
since fairness and ENABLED are outside the prover's reach; and the ranges that the TypeOK of
Bench and Inbox give beyond their inductive invariants. The violated
runs are counterexamples and need no proof.

## Not modelled

- Reads that change nothing (`GetOrder`, product details), response bodies and the mapping
  of errors to statuses outside RateLimit; the verification of a token's signature.
- JSON, environment variables, static files, CORS, logging: no state of the service.
- The email `owns` falls back on for a customer row without a subject, and tokens without
  one (`link.go:62`).
- The storefront: it keeps no state the server relies on.
- Of the load generator: latencies, throughput, the predicted ceiling (`model.go`, which
  writes only to a table of its own), the printed summary, and the outcomes `not_found` and
  `conflict_other`, which a reserve of a seeded product does not have. Bench sees the app from
  outside; the app's inside is the other modules.
- The repository's test support.
- The database ping of readiness, and a disabled poller, which is ready by definition.
- StockComesBack is checked with reservations and two sweepers; the fault of a sweep is the
  deadlock, which rolls it back like any other. With checkouts and
  payments in the same run the liveness graph is beyond a few minutes of TLC; what those do
  to an order under a sweep is the safety run tx_orders.

Two limits of the delivery model follow from the code's own definition and are no properties
of a run: with an empty inbox, events older than `InitialLookback` are not fetched (the runs
keep the lookback as long as the history), and an event the poller cannot encode is skipped.

## State

Every module above is written, and every safety property of a passing run, invariant,
action property or refinement, is proved. What could follow:

1. **Inbox over OrderTx**: EventsRefineOrderBook and OrdersRefineOrderBook compose the inbox and the
   statements of the order service through OrderBook. A worker whose `Apply` is OrderTx's
   statements one by one, beside the claim's own transaction, would be a module of its own.
2. **Liveness**: the leads-to properties rest on TLC; with a prover for fairness, NobodyStarves and
   StockComesBack would come first.
