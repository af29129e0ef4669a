---------------------------- MODULE BenchProofs ----------------------------
(***************************************************************************)
(* Proofs about Bench: the generator leaves no app behind; the end-of-run  *)
(* checks accuse no correct server; and a valid result is about the app of *)
(* its run.  For every number of requests, SKUs and arms, every command    *)
(* line, and any number of commands and faults.                            *)
(***************************************************************************)
EXTENDS Bench, FiniteSetTheorems, TLAPS

(* The phases of an Execute, before its load and from it to its end.       *)
Early == {"preflight", "migrate", "reset", "seed", "start", "ready", "probe"}
Checking == {"count", "stock", "live", "sold"}
Running == {"load", "stop", "judge"} \cup Checking

(* The load has begun, and the run is not given up.                        *)
Loaded == phase \in Running \/ (phase = "returned" /\ ~err)

----------------------------------------------------------------------------
(* The app of this run: who started it has not stopped it yet.             *)
ProcessOK ==
    /\ port = "ours" => child = "up"
    /\ child = "up" => phase \in {"ready", "probe", "load", "stop", "unwind"}

----------------------------------------------------------------------------
(* The tables.  A row of stock counts its orders; a request has one order  *)
(* at most, and none while its transaction is still open.                  *)
Ordered(i) == \E o \in orders : o.req = i

BooksOK ==
    /\ stock = [s \in DOMAIN stock |-> stock[s]]
    /\ \A s \in DOMAIN stock :
         /\ stock[s] \in [quantity : Nat, num_reserved : Nat]
         /\ stock[s].num_reserved <= stock[s].quantity
         /\ stock[s].num_reserved = OrdersOf(s)
    /\ IsFiniteSet(orders) /\ orders \subseteq [req : Request, sku : DOMAIN stock]
    /\ \A o, p \in orders : o.req = p.req => o = p
    /\ \A i \in Request : work[i] # "none" => sku[i] \in DOMAIN stock /\ ~Ordered(i)

(* The variables of the requests.  Requests are on their way during the    *)
(* load only, and the handlers are gone when the app is.                   *)
RequestsOK ==
    /\ pc \in [Request -> {"due", "pick", "wait", "done"}]
    /\ work \in [Request -> {"none", "handler", "orphan"}]
    /\ reply \in [Request -> {"none", "created", "sold_out", "unauthorized", "failed"}]
    /\ DOMAIN sku = Request /\ DOMAIN sent = Request /\ DOMAIN outcome = Request
    /\ check \in [sku : Nat, reserved : Nat, passed : BOOLEAN]
    /\ next \in Nat \ {0}
    /\ \A i \in Request : pc[i] \in {"pick", "wait"} => phase = "load"
    /\ \A i \in Request : work[i] = "handler" => phase \in {"load", "stop", "unwind"}

(* Before the load nothing has been sent, and once the database is emptied *)
(* nothing is left of earlier runs.                                        *)
FreshOK ==
    /\ phase \in Early =>
         /\ pc = [i \in Request |-> "due"] /\ reply = Idle /\ next = 1
         /\ check = NoCheck /\ excuses = {}
    /\ phase \in {"seed", "start", "ready", "probe"} => orders = {} /\ work = Idle

(* The products of the plan are there from their seeding to the verdict.   *)
SeededOK ==
    phase \in {"start", "ready", "probe"} \/ Loaded =>
        /\ DOMAIN stock = Sku
        /\ \A s \in Sku : stock[s].quantity = Plan.quantity

(* Nothing of the request has reached an app.                              *)
Unsent(i) == reply[i] = "none" /\ work[i] = "none" /\ ~Ordered(i)

(* An answer is the truth: what was created is there, what was sold out    *)
(* stays so, and a stray app has made no order.                            *)
Truthful(i) ==
    /\ reply[i] = "created" => Ordered(i)
    /\ reply[i] = "sold_out" => work[i] = "none" /\ ~Ordered(i) /\ OrdersOf(sku[i]) = Plan.quantity
    /\ reply[i] = "unauthorized" => work[i] = "none" /\ ~Ordered(i)

(* What the recorder has of a request that is over.                        *)
Recorded(i) ==
    \/ outcome[i] = "generator_saturated" /\ Unsent(i)
    \/ /\ sent[i] /\ sku[i] \in Sku
       /\ \/ outcome[i] \in {"timeout", "connect_error"}
          \/ reply[i] # "none" /\ outcome[i] = ClassifyResponse(reply[i])

(* A request from its schedule to its record.                              *)
Accounted(i) ==
    /\ pc[i] \in {"due", "pick"} => Unsent(i)
    /\ pc[i] = "wait" => sku[i] \in Sku
    /\ pc[i] = "done" => Recorded(i)
    /\ Truthful(i)

LoadOK ==
    /\ Loaded => \A i \in Request : Accounted(i)
    /\ phase = "load" => \A i \in Request : pc[i] = "due" <=> i >= next
    /\ Loaded /\ phase # "load" => \A i \in Request : pc[i] = "done"

(* The checks so far.                                                      *)
ChecksOK ==
    /\ phase \in {"load", "stop", "count"} => check = NoCheck
    /\ phase \in {"stock", "live", "sold"} => check.sku \in Sku
    /\ phase = "live" /\ excuses = {} => check.reserved = OrdersOf(check.sku)
    /\ ChecksAreFair

(* The verdicts: a result without error has been judged, and a sweep       *)
(* remembers an arm that was not valid.                                    *)
VerdictOK ==
    /\ phase = "unwind" => err
    /\ phase = "returned" /\ ~err /\ valid =>
         \A i \in Measured : outcome[i] \in {"reserved", "out_of_stock", "timeout"}
    /\ tainted => failed
    /\ status = "0" => phase = "exit" /\ (flags.cmd = "sweep" => ~failed)

IInv ==
    /\ BooksOK /\ RequestsOK /\ FreshOK /\ SeededOK /\ LoadOK /\ ChecksOK /\ VerdictOK

----------------------------------------------------------------------------
(* The app's process is an invariant of its own: no step leaves Execute    *)
(* with the app running.                                                   *)
LEMMA ProcessStep == ProcessOK /\ [Next]_vars => ProcessOK'
  <1> SUFFICES ASSUME ProcessOK, [Next]_vars PROVE ProcessOK'
    OBVIOUS
  <1> USE DEF ProcessOK, vars, execute, process
  <1>1. CASE UNCHANGED vars
    BY <1>1
  <1>2. CASE Start \/ Preflight \/ Migrate \/ Reset \/ Seed \/ startApp \/ waitReady \/ ProbeExec \/ NotReady
    BY <1>2 DEF Start, Preflight, Migrate, Reset, Seed, startApp, waitReady, ProbeExec, NotReady
  <1>3. CASE Listen \/ Fail \/ Dispatch \/ Wait \/ Crash \/ AppDies \/ Reaped \/ Drained \/ Kill
    BY <1>3 DEF Listen, Fail, Dispatch, Wait, Crash, AppDies, Reaped, Drained, Kill, Gone
  <1>4. ASSUME NEW i \in Request, Send(i) \/ Receive(i) \/ Timeout(i) \/ ConnectError(i)
                                  \/ Reserve(i) \/ Cancel(i) \/ RollBack(i)
        PROVE  ProcessOK'
    BY <1>4 DEF Send, Receive, Timeout, ConnectError, Reserve, Cancel, RollBack
  <1>5. CASE CountOrders \/ ReadStock \/ CountLive \/ CountSold \/ Judge \/ ReadFails
    BY <1>5 DEF CountOrders, ReadStock, CountLive, CountSold, Judge, ReadFails, NextProduct
  <1>6. CASE cmdRun \/ SweepArm \/ Saturation
    BY <1>6 DEF cmdRun, SweepArm, Saturation, Exit
  <1> QED
    BY <1>1, <1>2, <1>3, <1>4, <1>5, <1>6 DEF Next, Prepare, Load, End, Stop, Verify, Report

----------------------------------------------------------------------------
(* What Max chooses from two numbers.                                      *)
LEMMA MaxOfTwo == ASSUME NEW a \in Int, NEW b \in Int PROVE Max({a, b}) \in {a, b}
  <1> DEFINE P(x) == x \in {a, b} /\ \A y \in {a, b} : x >= y
  <1>1. \E x : P(x)
    <2>1. CASE a >= b
      BY <2>1
    <2>2. CASE b >= a
      BY <2>2
    <2> QED
      BY <2>1, <2>2
  <1>2. Max({a, b}) = CHOOSE x \in {a, b} : \A y \in {a, b} : x >= y
    BY Zenon DEF Max
  <1> QED
    BY <1>1, <1>2

(* A plan has a product at least, and every request picks one of them.     *)
LEMMA PlanType ==
    /\ Plan.skus \in Nat \ {0} /\ Plan.quantity \in Nat
    /\ \A i \in Request : Pick(i) \subseteq Sku
  <1>1. Max({N \div 100, 1}) \in Nat
    BY MaxOfTwo, BenchAssumption
  <1>2. Plan.skus \in Nat \ {0} /\ Plan.quantity \in Nat
    BY <1>1, BenchAssumption DEF Plan, PlanFor
  <1>3. ASSUME NEW i \in Request PROVE ((i - 1) % Plan.skus) + 1 \in Sku
    BY <1>2 DEF Sku, Request
  <1> QED
    BY <1>2, <1>3 DEF Pick, Sku

(* Orders of one product are finitely many.                                *)
LEMMA OrdersFinite ==
    ASSUME IsFiniteSet(orders), NEW s
    PROVE  IsFiniteSet({o \in orders : o.sku = s}) /\ OrdersOf(s) \in Nat
  <1>1. {o \in orders : o.sku = s} \subseteq orders
    OBVIOUS
  <1> QED
    BY <1>1, FS_Subset, FS_CardinalityType DEF OrdersOf

(* One more order counts for its own product and no other.                 *)
LEMMA OneMoreOrder ==
    ASSUME IsFiniteSet(orders), NEW i, NEW t, ~Ordered(i), orders' = orders \cup {[req |-> i, sku |-> t]}
    PROVE  /\ IsFiniteSet(orders')
           /\ OrdersOf(t)' = OrdersOf(t) + 1
           /\ \A s : s # t => OrdersOf(s)' = OrdersOf(s)
  <1>1. PICK new : new = [req |-> i, sku |-> t]
    OBVIOUS
  <1>2. new \notin orders /\ new.sku = t /\ orders' = orders \cup {new}
    BY <1>1 DEF Ordered
  <1>3. IsFiniteSet(orders')
    BY <1>2, FS_AddElement
  <1>4. {o \in orders' : o.sku = t} = {o \in orders : o.sku = t} \cup {new}
    BY <1>2
  <1>5. OrdersOf(t)' = OrdersOf(t) + 1
    <2>1. new \notin {o \in orders : o.sku = t} /\ IsFiniteSet({o \in orders : o.sku = t})
      BY <1>2, OrdersFinite
    <2> QED
      BY <1>4, <2>1, FS_AddElement DEF OrdersOf
  <1>6. ASSUME NEW s, s # t PROVE OrdersOf(s)' = OrdersOf(s)
    <2>1. {o \in orders' : o.sku = s} = {o \in orders : o.sku = s}
      BY <1>2, <1>6
    <2> QED
      BY <2>1 DEF OrdersOf
  <1> QED
    BY <1>3, <1>5, <1>6

----------------------------------------------------------------------------
(* What verify.Check keeps between two queries.                            *)
CheckState == [sku : Nat, reserved : Nat, passed : BOOLEAN]

(* A check goes on to another product with another verdict.                *)
LEMMA CheckMoves ==
    ASSUME NEW c \in CheckState, NEW n \in Nat, NEW b \in BOOLEAN, NEW d,
           d = [c EXCEPT !.passed = b, !.sku = n] \/ d = [c EXCEPT !.sku = n, !.passed = b]
    PROVE  d \in CheckState /\ d.sku = n /\ d.reserved = c.reserved /\ d.passed = b
  <1>1. DOMAIN c = {"sku", "reserved", "passed"} /\ c.reserved \in Nat
    BY DEF CheckState
  <1>2. d = [f \in DOMAIN c |-> IF f = "sku" THEN n ELSE IF f = "passed" THEN b ELSE c[f]]
    OBVIOUS
  <1>3. d.sku = n /\ d.reserved = c.reserved /\ d.passed = b /\ DOMAIN d = {"sku", "reserved", "passed"}
    BY <1>1, <1>2
  <1>4. d = [sku |-> n, reserved |-> c.reserved, passed |-> b]
    BY <1>1, <1>2, <1>3
  <1> QED
    BY <1>1, <1>3, <1>4 DEF CheckState

(* The variables of the requests keep their types, and no handler outlives *)
(* the app.                                                                *)
LEMMA RequestsStep == IInv /\ [Next]_vars => RequestsOK'
  <1> SUFFICES ASSUME IInv, [Next]_vars PROVE RequestsOK'
    OBVIOUS
  <1>0. RequestsOK
    BY DEF IInv
  <1> USE DEF RequestsOK, vars, execute, client, server
  <1>1. CASE UNCHANGED vars
    BY <1>0, <1>1
  <1>2. CASE Start \/ SweepArm
    <2>1. /\ pc' = [i \in Request |-> "due"] /\ reply' = [i \in Request |-> "none"]
          /\ check' = [sku |-> 0, reserved |-> 0, passed |-> TRUE] /\ next' = 1
          /\ DOMAIN sku' = Request /\ DOMAIN sent' = Request /\ DOMAIN outcome' = Request
          /\ work' = work /\ phase \in {"exit", "crashed", "returned"}
      BY <1>0, <1>2 DEF Start, SweepArm, Fresh, Idle, NoCheck
    <2> QED
      BY <1>0, <2>1
  <1>3. CASE Preflight \/ Migrate \/ Reset \/ Seed \/ startApp \/ waitReady \/ ProbeExec \/ NotReady
    BY <1>0, <1>3 DEF Preflight, Migrate, Reset, Seed, startApp, waitReady, ProbeExec, NotReady
  <1>4. CASE Listen \/ Fail \/ Dispatch \/ Wait
    <2>1. CASE Listen \/ Fail
      BY <1>0, <2>1 DEF Listen, Fail
    <2>2. CASE Dispatch
      BY <1>0, <2>2 DEF Dispatch
    <2>3. CASE Wait
      <3>1. \A i \in Request : pc[i] \notin {"pick", "wait"}
        BY <2>3 DEF Wait, InFlight
      <3> QED
        BY <1>0, <2>3, <3>1 DEF Wait
    <2> QED
      BY <1>4, <2>1, <2>2, <2>3
  <1>5. CASE Crash \/ AppDies \/ Reaped \/ Kill
    BY <1>0, <1>5 DEF Crash, AppDies, Reaped, Kill, Gone, Orphaned
  <1>6. CASE Drained
    BY <1>0, <1>6 DEF Drained, Gone
  <1>7. ASSUME NEW i \in Request, Send(i) PROVE RequestsOK'
    <2>1. phase = "load" /\ phase' = phase
      BY <1>0, <1>7 DEF Send
    <2> QED
      BY <1>0, <1>7, <2>1 DEF Send, Record
  <1>8. ASSUME NEW i \in Request, Receive(i) \/ Timeout(i) \/ ConnectError(i) PROVE RequestsOK'
    BY <1>0, <1>8 DEF Receive, Timeout, ConnectError, Record
  <1>9. ASSUME NEW i \in Request, Reserve(i) \/ Cancel(i) \/ RollBack(i) PROVE RequestsOK'
    BY <1>0, <1>9 DEF Reserve, Cancel, RollBack
  <1>10. CASE CountOrders \/ CountLive \/ CountSold \/ Judge \/ ReadFails
    <2>1. check' \in [sku : Nat, reserved : Nat, passed : BOOLEAN]
      <3>1. CASE CountOrders
        BY <1>0, <3>1 DEF CountOrders
      <3>2. CASE CountLive
        <4>1. PICK b \in BOOLEAN : b = (check.passed /\ check.reserved = OrdersOf(check.sku))
          OBVIOUS
        <4>2. check' = [check EXCEPT !.passed = b]
          BY <3>2, <4>1 DEF CountLive
        <4> QED
          BY <1>0, <4>2
      <3>3. CASE CountSold
        <4>1. PICK b \in BOOLEAN : b = (check.passed /\ OrdersOf(check.sku) <= Plan.quantity)
          OBVIOUS
        <4>2. check' = [check EXCEPT !.passed = b, !.sku = check.sku + 1]
          BY <3>3, <4>1 DEF CountSold
        <4>3. check \in CheckState /\ check.sku + 1 \in Nat
          BY <1>0 DEF CheckState
        <4> QED
          BY <4>2, <4>3, CheckMoves DEF CheckState
      <3>4. CASE Judge
        BY <1>0, <3>4 DEF Judge
      <3>5. CASE ReadFails
        <4>1. check \in CheckState /\ check.sku + 1 \in Nat
          BY <1>0 DEF CheckState
        <4>2. check' = [check EXCEPT !.passed = FALSE, !.sku = check.sku + 1]
          BY <3>5 DEF ReadFails
        <4> QED
          BY <4>1, <4>2, CheckMoves DEF CheckState
      <3> QED
        BY <1>10, <3>1, <3>2, <3>3, <3>4, <3>5
    <2>2. UNCHANGED <<client, server>> /\ phase \notin {"load", "stop", "unwind"}
      BY <1>10 DEF CountOrders, CountLive, CountSold, Judge, ReadFails
    <2> QED
      BY <1>0, <2>1, <2>2
  <1>11. CASE ReadStock
    <2>1. stock[check.sku].num_reserved \in Nat
      BY <1>11 DEF ReadStock, IInv, ChecksOK, SeededOK, BooksOK, Loaded, Running, Checking
    <2> QED
      BY <1>0, <1>11, <2>1 DEF ReadStock
  <1>12. CASE cmdRun \/ Saturation
    BY <1>0, <1>12 DEF cmdRun, Saturation, Exit
  <1> QED
    BY <1>1, <1>2, <1>3, <1>4, <1>5, <1>6, <1>7, <1>8, <1>9, <1>10, <1>11, <1>12
       DEF Next, Prepare, Load, End, Stop, Verify, Report

----------------------------------------------------------------------------
(* Nothing is sent before the load: an orphan of an earlier run answers    *)
(* nobody, and it is gone when the tables have been emptied.               *)
LEMMA FreshStep == IInv /\ [Next]_vars => FreshOK'
  <1> SUFFICES ASSUME IInv, [Next]_vars PROVE FreshOK'
    OBVIOUS
  <1>1. FreshOK /\ RequestsOK
    BY DEF IInv
  <1> USE DEF FreshOK, Early, vars, execute, client, server, tables, history
  <1>2. CASE UNCHANGED vars
    BY <1>1, <1>2
  <1>3. CASE Start \/ SweepArm
    BY <1>3 DEF Start, SweepArm, Fresh
  <1>4. CASE Preflight \/ Migrate \/ Reset \/ Seed \/ startApp \/ waitReady \/ ProbeExec \/ NotReady
    BY <1>1, <1>4 DEF Preflight, Migrate, Reset, Seed, startApp, waitReady, ProbeExec, NotReady
  <1>5. CASE Listen \/ Fail
    BY <1>1, <1>5 DEF Listen, Fail
  <1>6. CASE Dispatch \/ Wait \/ Crash \/ AppDies \/ Reaped \/ Drained \/ Kill
    <2>1. CASE Dispatch \/ Wait \/ Crash \/ AppDies \/ Drained \/ Kill
      BY <2>1 DEF Dispatch, Wait, Crash, AppDies, Drained, Kill, Gone
    <2>2. CASE Reaped
      BY <1>1, <2>2 DEF Reaped
    <2> QED
      BY <1>6, <2>1, <2>2
  <1>7. ASSUME NEW i \in Request, Send(i) \/ Receive(i) \/ Timeout(i) \/ ConnectError(i) PROVE FreshOK'
    <2>1. phase = "load" /\ phase' = phase
      BY <1>1, <1>7 DEF RequestsOK, Send, Receive, Timeout, ConnectError
    <2> QED
      BY <2>1
  <1>8. ASSUME NEW i \in Request, Cancel(i) PROVE FreshOK'
    <2>1. phase \in {"load", "stop", "unwind"} /\ phase' = phase
      BY <1>1, <1>8 DEF RequestsOK, Cancel
    <2> QED
      BY <2>1
  <1>9. ASSUME NEW i \in Request, Reserve(i) \/ RollBack(i) PROVE FreshOK'
    <2>1. /\ work[i] # "none" /\ UNCHANGED <<pc, next, check, phase>>
          /\ phase # "live" => excuses' = excuses
      BY <1>9 DEF Reserve, RollBack
    <2>2. pc = [j \in Request |-> "due"] => reply' = reply
      BY <1>1, <1>9 DEF Reserve, RollBack, RequestsOK
    <2>3. work # Idle
      BY <2>1 DEF Idle
    <2> QED
      BY <1>1, <2>1, <2>2, <2>3
  <1>10. CASE CountOrders \/ ReadStock \/ CountLive \/ CountSold \/ Judge \/ ReadFails
    <2>1. phase' \in {"stock", "live", "sold", "judge", "returned"}
      BY <1>10 DEF CountOrders, ReadStock, CountLive, CountSold, Judge, ReadFails, NextProduct
    <2> QED
      BY <2>1
  <1>11. CASE cmdRun \/ Saturation
    BY <1>11 DEF cmdRun, Saturation, Exit
  <1> QED
    BY <1>2, <1>3, <1>4, <1>5, <1>6, <1>7, <1>8, <1>9, <1>10, <1>11
       DEF Next, Prepare, Load, End, Stop, Verify, Report

(* A transaction that ends changes one count of reserved units, and adds   *)
(* at most one order.                                                      *)
LEMMA ReserveMoves ==
    ASSUME BooksOK, RequestsOK, NEW i \in Request, Reserve(i)
    PROVE  /\ sku[i] \in DOMAIN stock /\ ~Ordered(i) /\ DOMAIN stock' = DOMAIN stock
           /\ stock' = [s \in DOMAIN stock' |-> stock'[s]]
           /\ \A s \in DOMAIN stock :
                /\ stock'[s] \in [quantity : Nat, num_reserved : Nat]
                /\ stock'[s].quantity = stock[s].quantity
           /\ \/ /\ stock[sku[i]].num_reserved < stock[sku[i]].quantity
                 /\ orders' = orders \cup {[req |-> i, sku |-> sku[i]]}
                 /\ \A s \in DOMAIN stock : stock'[s].num_reserved =
                        IF s = sku[i] THEN stock[s].num_reserved + 1 ELSE stock[s].num_reserved
              \/ /\ stock[sku[i]].num_reserved = stock[sku[i]].quantity
                 /\ UNCHANGED tables
  <1>1. /\ sku[i] \in DOMAIN stock /\ ~Ordered(i)
        /\ \A s \in DOMAIN stock : /\ stock[s] \in [quantity : Nat, num_reserved : Nat]
                                   /\ stock[s].num_reserved <= stock[s].quantity
        /\ stock = [s \in DOMAIN stock |-> stock[s]]
    BY DEF Reserve, BooksOK
  <1>2. CASE stock[sku[i]].quantity - stock[sku[i]].num_reserved > 0
    <2>1. /\ stock' = [stock EXCEPT ![sku[i]].num_reserved = @ + 1]
          /\ orders' = orders \cup {[req |-> i, sku |-> sku[i]]}
      BY <1>2 DEF Reserve
    <2>2. stock[sku[i]].num_reserved < stock[sku[i]].quantity
      BY <1>1, <1>2
    <2>3. stock' = [s \in DOMAIN stock |->
                      IF s = sku[i] THEN [stock[s] EXCEPT !.num_reserved = @ + 1] ELSE stock[s]]
      BY <1>1, <2>1
    <2>4. ASSUME NEW s \in DOMAIN stock
          PROVE  /\ stock'[s] \in [quantity : Nat, num_reserved : Nat]
                 /\ stock'[s].quantity = stock[s].quantity
                 /\ stock'[s].num_reserved =
                        IF s = sku[i] THEN stock[s].num_reserved + 1 ELSE stock[s].num_reserved
      <3>1. stock[s] \in [quantity : Nat, num_reserved : Nat]
        BY <1>1
      <3>2. CASE s = sku[i]
        BY <2>3, <3>1, <3>2
      <3>3. CASE s # sku[i]
        BY <2>3, <3>1, <3>3
      <3> QED
        BY <3>2, <3>3
    <2>5. DOMAIN stock' = DOMAIN stock /\ stock' = [s \in DOMAIN stock' |-> stock'[s]]
      BY <2>3
    <2> QED
      BY <1>1, <2>1, <2>2, <2>4, <2>5
  <1>3. CASE ~(stock[sku[i]].quantity - stock[sku[i]].num_reserved > 0)
    <2>1. UNCHANGED tables
      BY <1>3 DEF Reserve
    <2>2. stock[sku[i]].num_reserved = stock[sku[i]].quantity
      BY <1>1, <1>3
    <2> QED
      BY <1>1, <2>1, <2>2 DEF tables
  <1> QED
    BY <1>2, <1>3

(* The products of the plan stay what they were seeded as.                 *)
LEMMA SeededStep == IInv /\ [Next]_vars => SeededOK'
  <1> SUFFICES ASSUME IInv, [Next]_vars PROVE SeededOK'
    OBVIOUS
  <1>1. SeededOK /\ VerdictOK
    BY DEF IInv
  <1> USE DEF SeededOK, Loaded, Running, Checking, Sku, Plan, vars, command, execute, tables
  <1>2. CASE UNCHANGED vars
    BY <1>1, <1>2
  <1>3. CASE Start \/ SweepArm
    BY <1>3 DEF Start, SweepArm
  <1>4. CASE Preflight \/ Migrate \/ Reset \/ startApp \/ waitReady \/ ProbeExec \/ NotReady \/ Listen \/ Fail
    BY <1>1, <1>4 DEF Preflight, Migrate, Reset, startApp, waitReady, ProbeExec, NotReady, explainOnce, Listen, Fail
  <1>5. CASE Seed
    BY <1>5 DEF Seed
  <1>6. CASE Dispatch \/ Wait \/ Crash \/ AppDies \/ Reaped
    BY <1>1, <1>6 DEF Dispatch, Wait, Crash, AppDies, Reaped
  <1>7. CASE Drained \/ Kill
    BY <1>1, <1>7 DEF Drained, Kill, Gone, VerdictOK
  <1>8. ASSUME NEW i \in Request, Send(i) \/ Receive(i) \/ Timeout(i) \/ ConnectError(i)
                                  \/ Cancel(i) \/ RollBack(i)
        PROVE  SeededOK'
    BY <1>1, <1>8 DEF Send, Receive, Timeout, ConnectError, Cancel, RollBack
  <1>9. ASSUME NEW i \in Request, Reserve(i) PROVE SeededOK'
    <2>1. UNCHANGED <<flags, phase, err>>
      BY <1>9 DEF Reserve
    <2>2. DOMAIN stock' = DOMAIN stock /\ \A s \in DOMAIN stock : stock'[s].quantity = stock[s].quantity
      BY <1>9, ReserveMoves DEF IInv
    <2> QED
      BY <1>1, <2>1, <2>2
  <1>10. CASE CountOrders \/ ReadStock \/ CountLive \/ CountSold \/ Judge \/ ReadFails
    BY <1>1, <1>10 DEF CountOrders, ReadStock, CountLive, CountSold, Judge, ReadFails, NextProduct
  <1>11. CASE cmdRun \/ Saturation
    BY <1>11 DEF cmdRun, Saturation, Exit
  <1> QED
    BY <1>2, <1>3, <1>4, <1>5, <1>6, <1>7, <1>8, <1>9, <1>10, <1>11
       DEF Next, Prepare, Load, End, Stop, Verify, Report

----------------------------------------------------------------------------
(* The books stay as they are while no transaction begins.                 *)
LEMMA BooksUntouched ==
    ASSUME BooksOK, UNCHANGED <<stock, orders, sku>>,
           \A i \in Request : work'[i] # "none" => work[i] # "none"
    PROVE  BooksOK'
  BY DEF BooksOK, OrdersOf, Ordered

(* A row of stock counts its orders, whoever carries a transaction out.    *)
LEMMA BooksStep == IInv /\ [Next]_vars => BooksOK'
  <1> SUFFICES ASSUME IInv, [Next]_vars PROVE BooksOK'
    OBVIOUS
  <1>1. BooksOK /\ RequestsOK /\ FreshOK /\ SeededOK /\ LoadOK
    BY DEF IInv
  <1> USE DEF vars, client, server, tables
  <1>2. CASE UNCHANGED vars
    BY <1>1, <1>2, BooksUntouched
  <1>3. CASE Start \/ SweepArm
    BY <1>1, <1>3, BooksUntouched DEF Start, SweepArm
  <1>4. CASE Preflight \/ Migrate \/ startApp \/ waitReady \/ ProbeExec \/ NotReady \/ Listen \/ Fail
    BY <1>1, <1>4, BooksUntouched
       DEF Preflight, Migrate, startApp, waitReady, ProbeExec, NotReady, explainOnce, Listen, Fail
  <1>5. CASE Reset
    <2>1. orders' = {} /\ DOMAIN stock' = {} /\ work' = Idle
      BY <1>5 DEF Reset
    <2>2. stock' = [s \in DOMAIN stock' |-> stock'[s]]
      BY <1>5 DEF Reset
    <2> QED
      BY <2>1, <2>2, FS_EmptySet DEF BooksOK, Idle
  <1>6. CASE Seed
    <2>1. /\ stock' = [s \in Sku |-> [quantity |-> Plan.quantity, num_reserved |-> 0]]
          /\ orders' = {} /\ work' = Idle
      BY <1>1, <1>6 DEF Seed, FreshOK
    <2>2. Plan.quantity \in Nat
      BY PlanType
    <2>3. ASSUME NEW s PROVE OrdersOf(s)' = 0
      <3>1. {o \in orders' : o.sku = s} = {}
        BY <2>1
      <3> QED
        BY <3>1, FS_EmptySet DEF OrdersOf
    <2> QED
      BY <2>1, <2>2, <2>3, FS_EmptySet DEF BooksOK, Idle
  <1>7. CASE Dispatch \/ Wait
    BY <1>1, <1>7, BooksUntouched DEF Dispatch, Wait
  <1>8. CASE Crash \/ AppDies \/ Reaped \/ Drained \/ Kill
    BY <1>1, <1>8, BooksUntouched DEF Crash, AppDies, Reaped, Drained, Kill, Orphaned
  <1>9. ASSUME NEW i \in Request, Send(i) PROVE BooksOK'
    <2>1. phase = "load"
      BY <1>1, <1>9 DEF Send, RequestsOK
    <2>2. DOMAIN stock = Sku /\ ~Ordered(i)
      BY <1>1, <1>9, <2>1 DEF Send, SeededOK, LoadOK, Accounted, Unsent, Loaded, Running
    <2>3. PICK s \in DOMAIN stock : sku' = [sku EXCEPT ![i] = s]
      BY <1>9, <2>2, PlanType DEF Send
    <2>4. UNCHANGED tables /\ \A j \in Request : j # i => work'[j] = work[j]
      BY <1>1, <1>9 DEF Send, RequestsOK
    <2>5. \A j \in Request : sku'[j] = IF j = i THEN s ELSE sku[j]
      BY <1>1, <2>3 DEF RequestsOK
    <2> QED
      BY <1>1, <2>2, <2>4, <2>5 DEF BooksOK, OrdersOf, Ordered
  <1>10. ASSUME NEW i \in Request, Receive(i) \/ Timeout(i) \/ ConnectError(i) PROVE BooksOK'
    BY <1>1, <1>10, BooksUntouched DEF Receive, Timeout, ConnectError
  <1>11. ASSUME NEW i \in Request, Cancel(i) \/ RollBack(i) PROVE BooksOK'
    <2>1. UNCHANGED <<stock, orders, sku>> /\ \A j \in Request : work'[j] # "none" => work[j] # "none"
      BY <1>1, <1>11 DEF Cancel, RollBack, RequestsOK
    <2> QED
      BY <1>1, <2>1, BooksUntouched
  <1>12. ASSUME NEW i \in Request, Reserve(i) PROVE BooksOK'
    <2>1. /\ UNCHANGED sku /\ work'[i] = "none"
          /\ \A j \in Request : work'[j] # "none" => work[j] # "none"
      BY <1>1, <1>12 DEF Reserve, RequestsOK
    <2>2. CASE UNCHANGED tables
      BY <1>1, <2>1, <2>2, BooksUntouched
    <2>3. CASE ~UNCHANGED tables
      <3>1. PICK t : t = sku[i]
        OBVIOUS
      <3>2. /\ t \in DOMAIN stock /\ ~Ordered(i) /\ DOMAIN stock' = DOMAIN stock
            /\ stock' = [s \in DOMAIN stock' |-> stock'[s]]
            /\ stock[t].num_reserved < stock[t].quantity
            /\ orders' = orders \cup {[req |-> i, sku |-> t]}
            /\ \A s \in DOMAIN stock :
                 /\ stock'[s] \in [quantity : Nat, num_reserved : Nat]
                 /\ stock'[s].quantity = stock[s].quantity
                 /\ stock'[s].num_reserved =
                        IF s = t THEN stock[s].num_reserved + 1 ELSE stock[s].num_reserved
        BY <1>1, <1>12, <2>3, <3>1, ReserveMoves
      <3>3. /\ IsFiniteSet(orders') /\ OrdersOf(t)' = OrdersOf(t) + 1
            /\ \A s : s # t => OrdersOf(s)' = OrdersOf(s)
        <4>1. IsFiniteSet(orders) /\ ~Ordered(i) /\ orders' = orders \cup {[req |-> i, sku |-> t]}
          BY <1>1, <3>2 DEF BooksOK
        <4> QED
          BY <4>1, OneMoreOrder, Zenon
      <3>4. ASSUME NEW s \in DOMAIN stock
            PROVE  stock'[s].num_reserved <= stock'[s].quantity /\ stock'[s].num_reserved = OrdersOf(s)'
        <4>1. /\ stock[s] \in [quantity : Nat, num_reserved : Nat]
              /\ stock[s].num_reserved <= stock[s].quantity /\ stock[s].num_reserved = OrdersOf(s)
          BY <1>1 DEF BooksOK
        <4>2. stock[t].num_reserved + 1 <= stock[t].quantity
          BY <1>1, <3>2 DEF BooksOK
        <4>3. CASE s = t
          BY <3>2, <3>3, <4>1, <4>2, <4>3
        <4>4. CASE s # t
          BY <3>2, <3>3, <4>1, <4>4
        <4> QED
          BY <4>3, <4>4
      <3>5. \A o \in orders' : o \in orders \/ (o.req = i /\ o = [req |-> i, sku |-> t])
        BY <3>2
      <3>6. orders' \subseteq [req : Request, sku : DOMAIN stock']
        BY <1>1, <3>2 DEF BooksOK
      <3>7. \A o, p \in orders' : o.req = p.req => o = p
        BY <1>1, <3>2, <3>5 DEF BooksOK, Ordered
      <3>8. \A j \in Request : work'[j] # "none" => sku[j] \in DOMAIN stock' /\ ~Ordered(j)'
        BY <1>1, <2>1, <3>2, <3>5 DEF BooksOK, Ordered
      <3> QED
        BY <2>1, <3>2, <3>3, <3>4, <3>6, <3>7, <3>8 DEF BooksOK
    <2> QED
      BY <2>2, <2>3
  <1>13. CASE CountOrders \/ ReadStock \/ CountLive \/ CountSold \/ Judge \/ ReadFails
    BY <1>1, <1>13, BooksUntouched DEF CountOrders, ReadStock, CountLive, CountSold, Judge, ReadFails
  <1>14. CASE cmdRun \/ Saturation
    BY <1>1, <1>14, BooksUntouched DEF cmdRun, Saturation
  <1> QED
    BY <1>2, <1>3, <1>4, <1>5, <1>6, <1>7, <1>8, <1>9, <1>10, <1>11, <1>12, <1>13, <1>14
       DEF Next, Prepare, Load, End, Stop, Verify, Report

----------------------------------------------------------------------------
(* The measured requests are requests.                                     *)
LEMMA MeasuredSent == Measured \subseteq Request
  BY DEF Measured

(* What is not counted among the measured requests has not happened there. *)
LEMMA CountIsZero ==
    ASSUME NEW o, Count(o, Measured) = 0
    PROVE  \A i \in Measured : outcome[i] # o
  <1>1. IsFiniteSet(Measured)
    <2>1. IsFiniteSet(Request)
      BY FS_Interval, BenchAssumption DEF Request
    <2> QED
      BY <2>1, MeasuredSent, FS_Subset
  <1>2. {i \in Measured : outcome[i] = o} \subseteq Measured
    OBVIOUS
  <1>3. IsFiniteSet({i \in Measured : outcome[i] = o})
    BY <1>1, <1>2, FS_Subset
  <1>4. {i \in Measured : outcome[i] = o} = {}
    BY <1>3, FS_EmptySet DEF Count
  <1> QED
    BY <1>4

(* A valid result is about the app of its run: what was recorded of a      *)
(* measured request is the truth of it.                                    *)
LEMMA ValidIsReal ==
    ASSUME IInv, phase = "returned", ~err, valid
    PROVE  \A i \in Measured : Real(i)
  <1> SUFFICES ASSUME NEW i \in Measured PROVE Real(i)
    OBVIOUS
  <1>1. i \in Request /\ outcome[i] \in {"reserved", "out_of_stock", "timeout"}
    BY MeasuredSent DEF IInv, VerdictOK
  <1>2. Recorded(i) /\ Truthful(i)
    BY <1>1 DEF IInv, LoadOK, Accounted, Loaded
  <1>3. reply[i] \in {"none", "created", "sold_out", "unauthorized", "failed"}
    BY <1>1 DEF IInv, RequestsOK
  <1>4. sku[i] \in Sku => sku[i] # 0
    BY PlanType DEF Sku
  <1>5. CASE outcome[i] = "timeout"
    BY <1>5 DEF Real
  <1>6. CASE outcome[i] # "timeout"
    <2>1. sku[i] # 0 /\ reply[i] # "none" /\ outcome[i] = ClassifyResponse(reply[i])
      BY <1>1, <1>2, <1>4, <1>6 DEF Recorded
    <2>2. \/ outcome[i] = "reserved" /\ reply[i] = "created"
          \/ outcome[i] = "out_of_stock" /\ reply[i] = "sold_out"
      BY <1>1, <1>3, <1>6, <2>1 DEF ClassifyResponse
    <2> QED
      BY <1>2, <2>1, <2>2 DEF Real, Truthful, Ordered
  <1> QED
    BY <1>5, <1>6

(* A result is valid after a verdict only, and a sweep does not forget.    *)
LEMMA VerdictStep == IInv /\ [Next]_vars => VerdictOK'
  <1> SUFFICES ASSUME IInv, [Next]_vars PROVE VerdictOK'
    OBVIOUS
  <1>1. VerdictOK /\ RequestsOK /\ LoadOK
    BY DEF IInv
  <1> USE DEF VerdictOK, Measured, vars, command, execute, client, history
  <1>2. CASE UNCHANGED vars
    BY <1>1, <1>2
  <1>3. CASE Start
    BY <1>3 DEF Start
  <1>4. CASE Preflight \/ Migrate \/ Reset \/ Seed \/ startApp \/ waitReady \/ ProbeExec \/ NotReady
    BY <1>1, <1>4 DEF Preflight, Migrate, Reset, Seed, startApp, waitReady, ProbeExec, NotReady
  <1>5. CASE Listen \/ Fail \/ Wait \/ Crash \/ AppDies \/ Reaped
    BY <1>1, <1>5 DEF Listen, Fail, Wait, Crash, AppDies, Reaped
  <1>6. CASE Dispatch
    BY <1>1, <1>6 DEF Dispatch
  <1>7. CASE Drained \/ Kill
    BY <1>1, <1>7 DEF Drained, Kill, Gone
  <1>8. ASSUME NEW i \in Request, Send(i) \/ Receive(i) \/ Timeout(i) \/ ConnectError(i) PROVE VerdictOK'
    <2>1. phase = "load" /\ UNCHANGED <<phase, err, valid, tainted, failed, status, flags>>
      BY <1>1, <1>8 DEF RequestsOK, Send, Receive, Timeout, ConnectError
    <2> QED
      BY <1>1, <2>1
  <1>9. ASSUME NEW i \in Request, Reserve(i) \/ Cancel(i) \/ RollBack(i) PROVE VerdictOK'
    BY <1>1, <1>9 DEF Reserve, Cancel, RollBack
  <1>10. CASE CountOrders \/ ReadStock \/ CountLive \/ CountSold \/ ReadFails
    BY <1>1, <1>10 DEF CountOrders, ReadStock, CountLive, CountSold, ReadFails, NextProduct
  <1>11. CASE Judge
    <2>1. /\ valid' = applyValidity /\ phase = "judge" /\ phase' = "returned"
          /\ UNCHANGED <<err, tainted, failed, status, flags, outcome>>
      BY <1>11 DEF Judge
    <2>2. ASSUME applyValidity, NEW i \in Measured
          PROVE  outcome[i] \in {"reserved", "out_of_stock", "timeout"}
      <3>1. outcome[i] \notin {"generator_saturated", "connect_error", "server_error", "unauthorized"}
        BY <2>2, CountIsZero DEF applyValidity
      <3>2. i \in Request /\ Recorded(i)
        BY <1>1, <2>1, MeasuredSent DEF LoadOK, Accounted, Loaded, Running
      <3>3. reply[i] \in {"none", "created", "sold_out", "unauthorized", "failed"}
        BY <1>1, <3>2 DEF RequestsOK
      <3> QED
        BY <3>1, <3>2, <3>3 DEF Recorded, ClassifyResponse
    <2> QED
      BY <1>1, <2>1, <2>2
  <1>12. CASE SweepArm
    <2>1. /\ phase = "returned" /\ phase' = "preflight" /\ ~err /\ UNCHANGED <<err, status, flags>>
          /\ failed' = (failed \/ ~valid)
          /\ tainted' = (tainted \/ \E i \in Measured : ~Real(i))
      BY <1>12 DEF SweepArm
    <2>2. valid => \A i \in Measured : Real(i)
      BY <2>1, ValidIsReal
    <2>3. tainted' => failed'
      BY <1>1, <2>1, <2>2
    <2> QED
      BY <1>1, <2>1, <2>3
  <1>13. CASE cmdRun
    BY <1>1, <1>13 DEF cmdRun, Exit
  <1>14. CASE Saturation
    <2>1. PICK bad \in BOOLEAN : /\ failed' = bad /\ (failed => bad)
                                /\ status' = IF bad THEN "1" ELSE "0"
      <3>1. PICK plateau \in BOOLEAN :
                /\ failed' = (failed \/ Verdict(plateau) # "server-saturated")
                /\ status' = IF failed \/ Verdict(plateau) # "server-saturated" THEN "1" ELSE "0"
        BY <1>14 DEF Saturation, Exit
      <3> QED
        BY <3>1
    <2>2. phase' = "exit" /\ UNCHANGED <<tainted, flags>>
      BY <1>14 DEF Saturation, Exit
    <2> QED
      BY <1>1, <2>1, <2>2
  <1> QED
    BY <1>2, <1>3, <1>4, <1>5, <1>6, <1>7, <1>8, <1>9, <1>10, <1>11, <1>12, <1>13, <1>14
       DEF Next, Prepare, Load, End, Stop, Verify, Report

----------------------------------------------------------------------------
(* The account of a request stays while nothing of it moves, and none of   *)
(* the orders: at most its handler becomes an orphan.                      *)
LEMMA AccountStays ==
    ASSUME NEW i, Accounted(i), UNCHANGED <<flags, orders>>,
           pc'[i] = pc[i] /\ sku'[i] = sku[i] /\ outcome'[i] = outcome[i] /\ sent'[i] = sent[i],
           reply'[i] = reply[i], work[i] = "none" => work'[i] = "none"
    PROVE  Accounted(i)'
  BY DEF Accounted, Unsent, Recorded, Truthful, Ordered, OrdersOf, Sku, Plan

(* The orders of a product with all its units taken stay where they are,   *)
(* and only the request whose transaction ends gets an order.              *)
LEMMA ReserveKeeps ==
    ASSUME BooksOK, RequestsOK, NEW i \in Request, Reserve(i)
    PROVE  /\ \A j : Ordered(j) => Ordered(j)'
           /\ \A j : j # i => (Ordered(j)' <=> Ordered(j))
           /\ \A s : s \in DOMAIN stock /\ OrdersOf(s) = stock[s].quantity => OrdersOf(s)' = OrdersOf(s)
           /\ \A s : s \notin DOMAIN stock => OrdersOf(s)' = OrdersOf(s)
  <1>1. PICK t : t = sku[i]
    OBVIOUS
  <1>2. /\ t \in DOMAIN stock /\ ~Ordered(i)
        /\ \/ /\ stock[t].num_reserved < stock[t].quantity
              /\ orders' = orders \cup {[req |-> i, sku |-> t]}
           \/ UNCHANGED orders
    BY <1>1, ReserveMoves DEF tables
  <1>3. CASE UNCHANGED orders
    BY <1>3 DEF Ordered, OrdersOf
  <1>4. CASE stock[t].num_reserved < stock[t].quantity /\ orders' = orders \cup {[req |-> i, sku |-> t]}
    <2>1. IsFiniteSet(orders) /\ ~Ordered(i) /\ orders' = orders \cup {[req |-> i, sku |-> t]}
      BY <1>2, <1>4 DEF BooksOK
    <2>2. \A s : s # t => OrdersOf(s)' = OrdersOf(s)
      BY <2>1, OneMoreOrder, Zenon
    <2>3. OrdersOf(t) # stock[t].quantity
      BY <1>2, <1>4 DEF BooksOK
    <2>4. \A o \in orders' : o \in orders \/ o.req = i
      BY <1>4
    <2>5. \A j : Ordered(j) => Ordered(j)'
      BY <1>4 DEF Ordered
    <2>6. \A j : j # i => (Ordered(j)' => Ordered(j))
      BY <2>4 DEF Ordered
    <2> QED
      BY <1>2, <2>2, <2>3, <2>5, <2>6
  <1> QED
    BY <1>2, <1>3, <1>4

(* The end of a transaction keeps the accounts: its own, which tells its   *)
(* client what it did, and the others.                                     *)
LEMMA ReserveAccounts ==
    ASSUME IInv, NEW i \in Request, Reserve(i), Loaded, NEW j \in Request
    PROVE  Accounted(j)'
  <1>1. /\ BooksOK /\ RequestsOK /\ Accounted(j) /\ Accounted(i)
        /\ DOMAIN stock = Sku /\ \A s \in Sku : stock[s].quantity = Plan.quantity
    BY DEF IInv, LoadOK, SeededOK
  <1>2. /\ UNCHANGED <<flags, pc, sku, outcome, sent>> /\ work[i] # "none"
        /\ work' = [work EXCEPT ![i] = "none"] /\ Sku' = Sku /\ Plan' = Plan
    BY DEF Reserve, command, client, Sku, Plan
  <1>3. /\ \A k : Ordered(k) => Ordered(k)'
        /\ \A k : k # i => (Ordered(k)' <=> Ordered(k))
        /\ \A s : OrdersOf(s) = Plan.quantity => OrdersOf(s)' = OrdersOf(s)
    BY <1>1, ReserveKeeps
  <1>4. OrdersOf(sku[j]) = Plan.quantity => OrdersOf(sku[j])' = Plan.quantity
    <2>1. PICK s : s = sku[j]
      OBVIOUS
    <2>2. OrdersOf(sku[j])' = OrdersOf(s)'
      BY <1>2, <2>1
    <2> QED
      BY <1>3, <2>1, <2>2
  <1>5. CASE j # i
    <2>1. reply'[j] = reply[j] /\ work'[j] = work[j]
      BY <1>1, <1>2, <1>5 DEF Reserve, RequestsOK
    <2> QED
      BY <1>1, <1>2, <1>3, <1>4, <1>5, <2>1 DEF Accounted, Unsent, Recorded, Truthful
  <1>6. CASE j = i
    <2>1. pc[i] \notin {"due", "pick"} /\ reply[i] \notin {"sold_out", "unauthorized"} /\ work'[i] = "none"
      BY <1>1, <1>2 DEF Accounted, Unsent, Truthful, RequestsOK
    <2>2. CASE reply'[i] = reply[i]
      <3>1. Truthful(i)'
        BY <1>1, <1>3, <2>1, <2>2 DEF Accounted, Truthful
      <3>2. pc[i] = "done" => Recorded(i)'
        BY <1>1, <1>2, <2>2 DEF Accounted, Recorded, Unsent
      <3> QED
        BY <1>1, <1>2, <1>6, <2>1, <3>1, <3>2 DEF Accounted
    <2>3. CASE reply'[i] # reply[i]
      <3>1. pc[i] = "wait" /\ sku[i] \in Sku
        BY <1>1, <2>3 DEF Reserve, RequestsOK, Accounted
      <3>2. \/ reply'[i] = "created" /\ orders' = orders \cup {[req |-> i, sku |-> sku[i]]}
            \/ reply'[i] = "sold_out" /\ UNCHANGED tables
        BY <1>1, <2>3 DEF Reserve, RequestsOK
      <3>3. CASE reply'[i] = "created" /\ orders' = orders \cup {[req |-> i, sku |-> sku[i]]}
        <4>1. PICK new : new = [req |-> i, sku |-> sku[i]]
          OBVIOUS
        <4>2. new \in orders' /\ new.req = i
          BY <3>3, <4>1
        <4> QED
          BY <1>2, <1>6, <3>1, <3>3, <4>2 DEF Accounted, Truthful, Ordered
      <3>4. CASE reply'[i] = "sold_out" /\ UNCHANGED tables
        <4>1. ~Ordered(i) /\ OrdersOf(sku[i]) = Plan.quantity
          <5>1. ~(stock[sku[i]].quantity - stock[sku[i]].num_reserved > 0)
            BY <1>1, <2>3, <3>4 DEF Reserve, RequestsOK
          <5>2. /\ stock[sku[i]] \in [quantity : Nat, num_reserved : Nat]
                /\ stock[sku[i]].num_reserved <= stock[sku[i]].quantity
                /\ stock[sku[i]].num_reserved = OrdersOf(sku[i])
                /\ stock[sku[i]].quantity = Plan.quantity
            BY <1>1, <3>1 DEF BooksOK
          <5> QED
            BY <1>1, <1>2, <5>1, <5>2 DEF BooksOK
        <4>2. ~Ordered(i)' /\ (OrdersOf(sku[i]) = Plan.quantity)'
          BY <1>2, <3>4, <4>1 DEF tables, Ordered, OrdersOf
        <4> QED
          BY <1>2, <1>6, <2>1, <3>1, <3>4, <4>2 DEF Accounted, Truthful
      <3> QED
        BY <3>2, <3>3, <3>4
    <2> QED
      BY <2>2, <2>3
  <1> QED
    BY <1>5, <1>6

(* Every request is accounted for, from the load to the verdict.           *)
LEMMA LoadStep == IInv /\ [Next]_vars => LoadOK'
  <1> SUFFICES ASSUME IInv, [Next]_vars PROVE LoadOK'
    OBVIOUS
  <1>1. LoadOK /\ RequestsOK /\ FreshOK /\ VerdictOK
    BY DEF IInv
  <1> USE DEF vars, command, execute, client, server, tables
  <1>2. ASSUME UNCHANGED <<flags, orders, client, reply>>,
               \A i \in Request : work[i] = "none" => work'[i] = "none",
               Loaded' => Loaded, phase' = "load" => phase = "load",
               Loaded' /\ phase' # "load" => phase # "load"
        PROVE  LoadOK'
    BY <1>1, <1>2, AccountStays DEF LoadOK
  <1>3. CASE UNCHANGED vars
    BY <1>2, <1>3 DEF Loaded
  <1>4. CASE Start \/ SweepArm \/ Preflight \/ Migrate \/ Reset \/ Seed \/ startApp \/ waitReady \/ NotReady \/ Fail
    <2>1. ~Loaded' /\ phase' # "load"
      BY <1>4 DEF Start, SweepArm, Preflight, Migrate, Reset, Seed, startApp, waitReady, NotReady, Fail,
                  Loaded, Running, Checking
    <2> QED
      BY <2>1 DEF LoadOK
  <1>5. CASE ProbeExec
    <2>1. /\ phase' = "load" /\ pc' = [i \in Request |-> "due"] /\ reply' = Idle /\ next' = 1
          /\ orders' = {} /\ work' = Idle
      BY <1>1, <1>5 DEF ProbeExec, FreshOK, Early
    <2> QED
      BY <2>1 DEF LoadOK, Accounted, Unsent, Truthful, Idle, Ordered, Request
  <1>6. CASE Listen \/ AppDies \/ Reaped
    BY <1>2, <1>6 DEF Listen, AppDies, Reaped, Orphaned, Loaded
  <1>7. CASE Dispatch
    <2>1. /\ phase = "load" /\ next \in Request /\ next' = next + 1
          /\ UNCHANGED <<flags, phase, err, orders, sku, sent, server>>
          /\ \/ pc' = [pc EXCEPT ![next] = "pick"] /\ outcome' = outcome
             \/ /\ pc' = [pc EXCEPT ![next] = "done"]
                /\ outcome' = [outcome EXCEPT ![next] = "generator_saturated"]
      BY <1>1, <1>7, BenchAssumption DEF Dispatch, RequestsOK, Request
    <2>2. pc[next] = "due" /\ \A i \in Request : Accounted(i)
      BY <1>1, <2>1 DEF LoadOK, Loaded, Running, RequestsOK
    <2>3. ASSUME NEW i \in Request, i # next PROVE Accounted(i)'
      BY <1>1, <2>1, <2>2, <2>3, AccountStays DEF RequestsOK
    <2>4. Unsent(next) /\ Truthful(next)
      BY <2>1, <2>2 DEF Accounted
    <2>5. PICK i : i = next
      OBVIOUS
    <2>6. Accounted(i)'
      BY <1>1, <2>1, <2>4, <2>5 DEF Accounted, Unsent, Recorded, Truthful, Ordered, OrdersOf, Plan, RequestsOK
    <2>7. ASSUME NEW j \in Request PROVE pc'[j] = "due" <=> j >= next'
      <3>1. (pc[j] = "due" <=> j >= next) /\ j \in Int /\ next \in Int
        BY <1>1, <2>1 DEF LoadOK, Request
      <3>2. CASE j = next
        BY <1>1, <2>1, <3>1, <3>2 DEF RequestsOK
      <3>3. CASE j # next
        <4>1. pc'[j] = pc[j]
          BY <1>1, <2>1, <3>3 DEF RequestsOK
        <4> QED
          BY <2>1, <3>1, <3>3, <4>1
      <3> QED
        BY <3>2, <3>3
    <2> QED
      BY <2>1, <2>3, <2>5, <2>6, <2>7 DEF LoadOK
  <1>8. CASE Wait
    <2>1. CASE phase' = "unwind"
      BY <2>1 DEF LoadOK, Loaded, Running, Checking
    <2>2. CASE phase' = "stop"
      <3>1. phase = "load" /\ UNCHANGED <<flags, orders, client, server, err>>
        BY <1>8, <2>2 DEF Wait
      <3>2. \A i \in Request : pc[i] = "done"
        <4>1. \A i \in Request : pc[i] \notin {"pick", "wait"}
          BY <1>8 DEF Wait, InFlight
        <4>2. \A i \in Request : pc[i] # "due"
          BY <1>1, <1>8, <3>1, BenchAssumption DEF Wait, LoadOK, RequestsOK, Request
        <4> QED
          BY <1>1, <4>1, <4>2 DEF RequestsOK
      <3>3. \A i \in Request : Accounted(i)'
        BY <1>1, <3>1, AccountStays DEF LoadOK, Loaded, Running
      <3> QED
        BY <2>2, <3>1, <3>2, <3>3 DEF LoadOK
    <2> QED
      BY <1>8, <2>1, <2>2 DEF Wait
  <1>9. CASE Crash
    <2>1. ~Loaded' /\ phase' # "load"
      BY <1>9 DEF Crash, Loaded, Running, Checking
    <2> QED
      BY <2>1 DEF LoadOK
  <1>10. CASE Drained \/ Kill
    BY <1>1, <1>2, <1>10 DEF Drained, Kill, Gone, Orphaned, VerdictOK, Loaded, Running, Checking
  <1>11. ASSUME NEW i \in Request, Send(i) \/ Receive(i) \/ Timeout(i) \/ ConnectError(i) PROVE LoadOK'
    <2>1. phase = "load" /\ UNCHANGED <<phase, err, flags, orders, next>>
      BY <1>1, <1>11 DEF RequestsOK, Send, Receive, Timeout, ConnectError
    <2>2. \A j \in Request : Accounted(j)
      BY <1>1, <2>1 DEF LoadOK, Loaded, Running
    <2>3. ASSUME NEW j \in Request, j # i PROVE Accounted(j)' /\ pc'[j] = pc[j]
      <3>1. /\ pc'[j] = pc[j] /\ sku'[j] = sku[j] /\ outcome'[j] = outcome[j] /\ sent'[j] = sent[j]
            /\ reply'[j] = reply[j] /\ work'[j] = work[j]
        BY <1>1, <1>11, <2>3 DEF RequestsOK, Send, Receive, Timeout, ConnectError, Record
      <3> QED
        BY <2>1, <2>2, <3>1, AccountStays
    <2>4. pc[i] # "due" /\ pc'[i] # "due"
      BY <1>1, <1>11 DEF RequestsOK, Send, Receive, Timeout, ConnectError, Record
    <2>5. Accounted(i)'
      <3>1. CASE Receive(i) \/ Timeout(i) \/ ConnectError(i)
        <4>1. /\ pc[i] = "wait" /\ pc'[i] = "done" /\ sent'[i] /\ UNCHANGED <<sku, server>>
              /\ \/ outcome'[i] \in {"timeout", "connect_error"}
                 \/ reply[i] # "none" /\ outcome'[i] = ClassifyResponse(reply[i])
          BY <1>1, <3>1 DEF RequestsOK, Receive, Timeout, ConnectError, Record
        <4> QED
          BY <2>1, <2>2, <4>1 DEF Accounted, Recorded, Truthful, Ordered, OrdersOf, Sku, Plan
      <3>2. CASE Send(i)
        <4>1. pc[i] = "pick" /\ Unsent(i)
          BY <2>2, <3>2 DEF Send, Accounted
        <4>2. sku'[i] \in Sku
          BY <1>1, <3>2, PlanType DEF Send, RequestsOK
        <4>3. CASE port = "free"
          <5>1. pc'[i] = "done" /\ sent'[i] /\ outcome'[i] = "connect_error" /\ UNCHANGED server
            BY <1>1, <3>2, <4>3 DEF Send, Record, RequestsOK
          <5> QED
            BY <2>1, <4>1, <4>2, <5>1 DEF Accounted, Unsent, Recorded, Truthful, Sku, Plan
        <4>4. CASE port # "free"
          <5>1. /\ pc'[i] = "wait"
                /\ \/ reply'[i] = "none"
                   \/ reply'[i] = "unauthorized" /\ work'[i] = work[i]
            BY <1>1, <3>2, <4>1, <4>4 DEF Send, RequestsOK, Unsent
          <5> QED
            BY <2>1, <4>1, <4>2, <5>1 DEF Accounted, Unsent, Truthful, Ordered, Sku, Plan
        <4> QED
          BY <4>3, <4>4
      <3> QED
        BY <1>11, <3>1, <3>2
    <2> QED
      BY <1>1, <2>1, <2>3, <2>4, <2>5 DEF LoadOK
  <1>12. ASSUME NEW i \in Request, Reserve(i) PROVE LoadOK'
    <2>1. UNCHANGED <<phase, err, pc, next>>
      BY <1>12 DEF Reserve
    <2>2. Loaded' => \A j \in Request : Accounted(j)'
      BY <1>12, <2>1, ReserveAccounts DEF Loaded
    <2> QED
      BY <1>1, <2>1, <2>2 DEF LoadOK, Loaded
  <1>13. ASSUME NEW i \in Request, Cancel(i) \/ RollBack(i) PROVE LoadOK'
    <2>1. UNCHANGED <<flags, phase, err, orders, client>> /\ work[i] # "none"
      BY <1>13 DEF Cancel, RollBack
    <2>2. ASSUME NEW j \in Request, j # i, Accounted(j) PROVE Accounted(j)'
      <3>1. reply'[j] = reply[j] /\ work'[j] = work[j]
        BY <1>1, <1>13, <2>2 DEF Cancel, RollBack, RequestsOK
      <3> QED
        BY <2>1, <2>2, <3>1, AccountStays
    <2>3. ASSUME Accounted(i) PROVE Accounted(i)'
      <3>1. reply'[i] = reply[i] \/ (reply'[i] = "failed" /\ pc[i] = "wait")
        BY <1>1, <1>13 DEF Cancel, RollBack, RequestsOK
      <3> QED
        BY <2>1, <2>3, <3>1 DEF Accounted, Unsent, Recorded, Truthful, Ordered, OrdersOf, Sku, Plan
    <2> QED
      BY <1>1, <2>1, <2>2, <2>3 DEF LoadOK, Loaded
  <1>14. CASE CountOrders \/ ReadStock \/ CountLive \/ CountSold \/ Judge \/ ReadFails
    <2>1. /\ phase \in Checking \cup {"judge"} /\ phase' # "load"
          /\ UNCHANGED <<flags, orders, client, server>>
      BY <1>14 DEF CountOrders, ReadStock, CountLive, CountSold, Judge, ReadFails, NextProduct, Checking
    <2> QED
      BY <1>2, <2>1 DEF Loaded, Running, Checking
  <1>15. CASE cmdRun \/ Saturation
    <2>1. ~Loaded' /\ phase' # "load"
      BY <1>15 DEF cmdRun, Saturation, Exit, Loaded, Running, Checking
    <2> QED
      BY <2>1 DEF LoadOK
  <1> QED
    BY <1>3, <1>4, <1>5, <1>6, <1>7, <1>8, <1>9, <1>10, <1>11, <1>12, <1>13, <1>14, <1>15
       DEF Next, Prepare, Load, End, Stop, Verify, Report

----------------------------------------------------------------------------
(* The requests that have an order.                                        *)
Owners == {o.req : o \in orders}

(* They are as many as the orders.                                         *)
LEMMA OwnersCounted ==
    ASSUME BooksOK
    PROVE  IsFiniteSet(Owners) /\ Cardinality(Owners) = Cardinality(orders)
  <1> DEFINE f == [o \in orders |-> o.req]
  <1>1. IsFiniteSet(orders) /\ \A o, p \in orders : o.req = p.req => o = p
    BY DEF BooksOK
  <1>2. f \in [orders -> Owners] /\ (\A o \in orders : f[o] = o.req)
    BY DEF Owners
  <1>3. \A o, p \in orders : f[o] = f[p] => o = p
    BY <1>1, <1>2
  <1>4. \A i \in Owners : \E o \in orders : f[o] = i
    BY <1>2 DEF Owners
  <1>5. f \in Bijection(orders, Owners)
    <2> HIDE DEF f
    <2> QED
      BY <1>2, <1>3, <1>4 DEF Bijection, Injection, IsInjective, Surjection
  <1>6. ExistsBijection(orders, Owners)
    BY <1>5 DEF ExistsBijection
  <1> QED
    BY <1>1, <1>6, FS_Bijection

(* Three sets that cover a finite one have as many elements together.      *)
LEMMA CoverBound ==
    ASSUME NEW S, NEW A, NEW B, NEW C, IsFiniteSet(A), IsFiniteSet(B), IsFiniteSet(C),
           S \subseteq A \cup B \cup C
    PROVE  Cardinality(S) <= Cardinality(A) + Cardinality(B) + Cardinality(C)
  <1>1. /\ Cardinality(A) \in Nat /\ Cardinality(B) \in Nat /\ Cardinality(C) \in Nat
        /\ IsFiniteSet(A \cap B) /\ IsFiniteSet(A \cup B)
        /\ Cardinality(A \cup B) = Cardinality(A) + Cardinality(B) - Cardinality(A \cap B)
    BY FS_CardinalityType, FS_Union, FS_Intersection
  <1>2. /\ IsFiniteSet((A \cup B) \cap C) /\ IsFiniteSet((A \cup B) \cup C)
        /\ Cardinality((A \cup B) \cup C) = Cardinality(A \cup B) + Cardinality(C) - Cardinality((A \cup B) \cap C)
    BY <1>1, FS_Union, FS_Intersection
  <1>3. /\ Cardinality(A \cap B) \in Nat /\ Cardinality((A \cup B) \cap C) \in Nat
        /\ Cardinality(S) \in Nat /\ Cardinality(S) <= Cardinality((A \cup B) \cup C)
    <2>1. S \in SUBSET ((A \cup B) \cup C)
      OBVIOUS
    <2>2. IsFiniteSet(S) /\ Cardinality(S) <= Cardinality((A \cup B) \cup C)
      BY <1>2, <2>1, FS_Subset
    <2> QED
      BY <1>1, <1>2, <2>2, FS_CardinalityType
  <1> QED
    BY <1>1, <1>2, <1>3

(* Once all requests are over, the orders are as many as the recorder says *)
(* they are, give or take the requests it knows nothing of.                *)
LEMMA OrdersCounted ==
    ASSUME IInv, phase = "count", \A o \in orders : outcome[o.req] # "server_error"
    PROVE  Cardinality(orders) >= totalReserved /\ Cardinality(orders) <= totalReserved + totalUnknown
  <1> DEFINE A == {i \in Request : sent[i] /\ outcome[i] = "reserved"}
             T == {i \in Request : outcome[i] = "timeout"}
             C == {i \in Request : outcome[i] = "connect_error"}
  <1>1. \A i \in Request : Recorded(i) /\ Truthful(i)
    BY DEF IInv, LoadOK, Accounted, Loaded, Running, Checking
  <1>2. \A i \in Request : reply[i] \in {"none", "created", "sold_out", "unauthorized", "failed"}
    BY DEF IInv, RequestsOK
  <1>3. ASSUME NEW i \in A PROVE i \in Owners
    <2>1. i \in Request /\ outcome[i] = "reserved"
      OBVIOUS
    <2>2. reply[i] = "created"
      BY <1>1, <1>2, <2>1 DEF Recorded, ClassifyResponse
    <2> QED
      BY <1>1, <2>1, <2>2 DEF Truthful, Ordered, Owners
  <1>4. ASSUME NEW i \in Owners PROVE i \in A \cup T \cup C
    <2>1. i \in Request /\ Ordered(i) /\ outcome[i] # "server_error"
      BY DEF Owners, Ordered, IInv, BooksOK
    <2>2. sent[i] /\ (outcome[i] \in {"timeout", "connect_error"} \/ outcome[i] = ClassifyResponse(reply[i]))
      BY <1>1, <2>1 DEF Recorded, Unsent
    <2>3. CASE outcome[i] \in {"timeout", "connect_error"}
      BY <2>1, <2>3
    <2>4. CASE outcome[i] \notin {"timeout", "connect_error"}
      <3>1. reply[i] \in {"created", "failed"}
        BY <1>1, <1>2, <2>1, <2>4 DEF Recorded, Unsent, Truthful
      <3>2. outcome[i] = "reserved"
        BY <2>1, <2>2, <2>4, <3>1 DEF ClassifyResponse
      <3> QED
        BY <2>1, <2>2, <3>2
    <2> QED
      BY <2>3, <2>4
  <1>5. IsFiniteSet(Request)
    BY FS_Interval, BenchAssumption DEF Request
  <1>6. IsFiniteSet(A) /\ IsFiniteSet(T) /\ IsFiniteSet(C)
    <2>1. A \in SUBSET Request /\ T \in SUBSET Request /\ C \in SUBSET Request
      OBVIOUS
    <2> QED
      BY <1>5, <2>1, FS_Subset
  <1>7. /\ Cardinality(A) = totalReserved
        /\ Cardinality(T) + Cardinality(C) = totalUnknown
        /\ Cardinality(A) \in Nat /\ Cardinality(T) \in Nat /\ Cardinality(C) \in Nat
    BY <1>6, FS_CardinalityType DEF totalReserved, totalUnknown, Count
  <1>8. /\ A \in SUBSET Owners /\ Owners \subseteq A \cup T \cup C
        /\ IsFiniteSet(Owners) /\ Cardinality(Owners) = Cardinality(orders)
    BY <1>3, <1>4, OwnersCounted DEF IInv
  <1> HIDE DEF A, T, C
  <1>9. Cardinality(A) <= Cardinality(Owners)
    BY <1>8, FS_Subset
  <1>10. Cardinality(Owners) <= Cardinality(A) + Cardinality(T) + Cardinality(C)
    BY <1>6, <1>8, CoverBound
  <1>11. Cardinality(Owners) \in Nat
    BY <1>8, FS_CardinalityType
  <1> QED
    BY <1>7, <1>8, <1>9, <1>10, <1>11

(* The rows of a product of the plan, once the load has begun.             *)
LEMMA ProductRows ==
    ASSUME IInv, Loaded, NEW s \in Sku
    PROVE  /\ stock[s].num_reserved = OrdersOf(s) /\ stock[s].quantity = Plan.quantity
           /\ stock[s].num_reserved \in 0..stock[s].quantity /\ OrdersOf(s) <= Plan.quantity
  <1>1. /\ s \in DOMAIN stock /\ stock[s].quantity = Plan.quantity
        /\ stock[s] \in [quantity : Nat, num_reserved : Nat]
        /\ stock[s].num_reserved <= stock[s].quantity /\ stock[s].num_reserved = OrdersOf(s)
    BY DEF IInv, BooksOK, SeededOK
  <1> QED
    BY <1>1

(* The checks accuse nobody wrongly.                                       *)
LEMMA ChecksStep == IInv /\ [Next]_vars => ChecksOK'
  <1> SUFFICES ASSUME IInv, [Next]_vars PROVE ChecksOK'
    OBVIOUS
  <1>1. ChecksOK /\ RequestsOK /\ FreshOK /\ check \in CheckState
    BY DEF IInv, RequestsOK, CheckState
  <1>2. Plan.skus \in Nat \ {0}
    BY PlanType
  <1> USE DEF vars, command, execute, client, server, tables, history
  <1>3. ASSUME UNCHANGED <<flags, check, orders>>, excuses = {} \/ excuses' # {},
               check # NoCheck => UNCHANGED outcome,
               phase' \in {"load", "stop", "count"} => check = NoCheck,
               phase' \in {"stock", "live", "sold"} => phase' = phase,
               phase' = "live" => UNCHANGED excuses
        PROVE  ChecksOK'
    BY <1>1, <1>3 DEF ChecksOK, ChecksAreFair, OrdersOf, Sku, Plan, NoCheck
  <1>4. CASE UNCHANGED vars
    BY <1>1, <1>3, <1>4 DEF ChecksOK
  <1>5. CASE Start \/ SweepArm
    <2>1. check' = NoCheck /\ phase' = "preflight"
      BY <1>5 DEF Start, SweepArm, Fresh
    <2> QED
      BY <2>1 DEF ChecksOK, ChecksAreFair, NoCheck
  <1>6. CASE Preflight \/ Migrate \/ Seed \/ startApp \/ waitReady \/ ProbeExec \/ NotReady \/ Fail
    BY <1>1, <1>3, <1>6 DEF Preflight, Migrate, Seed, startApp, waitReady, ProbeExec, NotReady, Fail, FreshOK, Early
  <1>7. CASE Reset
    <2>1. check' = NoCheck /\ phase' = "seed"
      BY <1>1, <1>7 DEF Reset, FreshOK, Early
    <2> QED
      BY <2>1 DEF ChecksOK, ChecksAreFair, NoCheck
  <1>8. CASE Listen \/ Dispatch \/ Wait \/ Crash \/ AppDies \/ Reaped \/ Drained \/ Kill
    BY <1>1, <1>3, <1>8 DEF Listen, Dispatch, Wait, Crash, AppDies, Reaped, Drained, Kill, Gone, ChecksOK
  <1>9. ASSUME NEW i \in Request, Send(i) \/ Receive(i) \/ Timeout(i) \/ ConnectError(i) PROVE ChecksOK'
    <2>1. phase = "load" /\ phase' = phase /\ check' = check
      BY <1>1, <1>9 DEF RequestsOK, Send, Receive, Timeout, ConnectError
    <2> QED
      BY <1>1, <2>1 DEF ChecksOK, ChecksAreFair, NoCheck
  <1>10. ASSUME NEW i \in Request, Cancel(i) \/ RollBack(i) PROVE ChecksOK'
    BY <1>1, <1>3, <1>10 DEF Cancel, RollBack, ChecksOK
  <1>11. ASSUME NEW i \in Request, Reserve(i) PROVE ChecksOK'
    <2>1. /\ UNCHANGED <<flags, phase, check, outcome>> /\ orders \subseteq orders' /\ excuses \subseteq excuses'
          /\ work[i] = "orphan" /\ phase = "live" => excuses' # {}
      BY <1>11 DEF Reserve
    <2>2. phase = "live" => excuses' # {}
      BY <1>1, <1>11, <2>1 DEF Reserve, RequestsOK
    <2> QED
      BY <1>1, <2>1, <2>2 DEF ChecksOK, ChecksAreFair, Sku, Plan
  <1>12. CASE CountOrders
    <2>1. PICK b \in BOOLEAN : b = (/\ Cardinality(orders) >= totalReserved
                                    /\ Cardinality(orders) <= totalReserved + totalUnknown)
      OBVIOUS
    <2>2. check' = [check EXCEPT !.sku = 1, !.passed = b] /\ phase = "count" /\ phase' = "stock"
      BY <1>12, <2>1 DEF CountOrders
    <2>3. check'.sku = 1 /\ check'.passed = b
      BY <1>1, <2>2, CheckMoves DEF CheckState
    <2>4. UNCHANGED <<flags, orders, outcome, excuses>>
      BY <1>12 DEF CountOrders
    <2>5. b \/ \E o \in orders : outcome[o.req] = "server_error"
      BY <2>1, <2>2, OrdersCounted
    <2>6. 1 \in Sku
      BY <1>2 DEF Sku
    <2> QED
      BY <2>2, <2>3, <2>4, <2>5, <2>6 DEF ChecksOK, ChecksAreFair, Sku, Plan
  <1>13. CASE ReadStock
    <2>1. /\ phase = "stock" /\ phase' = "live" /\ UNCHANGED <<flags, orders, outcome, excuses>>
          /\ check.sku \in Sku
      BY <1>1, <1>13 DEF ReadStock, ChecksOK
    <2>2. PICK r : r = stock[check.sku].num_reserved
      OBVIOUS
    <2>3. r = OrdersOf(check.sku) /\ r \in 0..stock[check.sku].quantity
      BY <2>1, <2>2, ProductRows DEF Loaded, Running, Checking
    <2>4. PICK b \in BOOLEAN : b = (check.passed /\ r \in 0..stock[check.sku].quantity)
      OBVIOUS
    <2>5. check' = [check EXCEPT !.reserved = r, !.passed = b]
      BY <1>13, <2>2, <2>4 DEF ReadStock
    <2>6. check'.sku = check.sku /\ check'.reserved = r /\ check'.passed = b
      BY <1>1, <2>5 DEF CheckState
    <2> QED
      BY <1>1, <2>1, <2>3, <2>4, <2>6 DEF ChecksOK, ChecksAreFair, OrdersOf, Sku, Plan
  <1>14. CASE CountLive
    <2>1. phase = "live" /\ phase' = "sold" /\ UNCHANGED <<flags, orders, outcome, excuses>>
      BY <1>14 DEF CountLive
    <2>2. PICK b \in BOOLEAN : b = (check.passed /\ check.reserved = OrdersOf(check.sku))
      OBVIOUS
    <2>3. check' = [check EXCEPT !.passed = b]
      BY <1>14, <2>2 DEF CountLive
    <2>4. check'.sku = check.sku /\ check'.passed = b
      BY <1>1, <2>3 DEF CheckState
    <2> QED
      BY <1>1, <2>1, <2>2, <2>4 DEF ChecksOK, ChecksAreFair, Sku, Plan
  <1>15. CASE CountSold
    <2>1. /\ phase = "sold" /\ phase' = NextProduct(check.sku) /\ UNCHANGED <<flags, orders, outcome, excuses>>
          /\ check.sku \in Sku
      BY <1>1, <1>15 DEF CountSold, ChecksOK
    <2>2. PICK b \in BOOLEAN : b = (check.passed /\ OrdersOf(check.sku) <= Plan.quantity)
      OBVIOUS
    <2>3. b = check.passed
      BY <1>1, <2>1, <2>2, ProductRows DEF Loaded, Running, Checking, CheckState
    <2>4. check' = [check EXCEPT !.passed = b, !.sku = check.sku + 1]
      BY <1>15, <2>2 DEF CountSold
    <2>5. check'.sku = check.sku + 1 /\ check'.passed = b
      BY <1>1, <2>4, CheckMoves DEF CheckState
    <2>6. phase' \in {"stock", "judge"} /\ (phase' = "stock" => check.sku + 1 \in Sku)
      BY <1>2, <2>1 DEF NextProduct, Sku
    <2> QED
      BY <1>1, <2>1, <2>3, <2>5, <2>6 DEF ChecksOK, ChecksAreFair, Sku, Plan
  <1>16. CASE ReadFails
    <2>1. /\ phase \in Checking /\ phase' = NextProduct(check.sku) /\ UNCHANGED flags /\ excuses' # {}
          /\ check' = [check EXCEPT !.passed = FALSE, !.sku = check.sku + 1]
      BY <1>16 DEF ReadFails, Checking
    <2>2. check'.sku = check.sku + 1
      BY <1>1, <2>1, CheckMoves DEF CheckState
    <2>3. check.sku \in Nat
      BY <1>1 DEF CheckState
    <2>4. phase' \in {"stock", "judge"} /\ (phase' = "stock" => check.sku + 1 \in Sku)
      BY <1>2, <2>1, <2>3 DEF NextProduct, Sku
    <2> QED
      BY <2>1, <2>2, <2>4 DEF ChecksOK, ChecksAreFair, Sku, Plan
  <1>17. CASE Judge \/ cmdRun \/ Saturation
    BY <1>1, <1>3, <1>17 DEF Judge, cmdRun, Saturation, Exit
  <1> QED
    BY <1>4, <1>5, <1>6, <1>7, <1>8, <1>9, <1>10, <1>11, <1>12, <1>13, <1>14, <1>15, <1>16, <1>17
       DEF Next, Prepare, Load, End, Stop, Verify, Report

----------------------------------------------------------------------------
(* Before the first command nothing has been done.                         *)
LEMMA InitInv == Init => IInv /\ ProcessOK
  <1> SUFFICES ASSUME Init PROVE IInv /\ ProcessOK
    OBVIOUS
  <1>1. DOMAIN stock = {} /\ stock = [s \in DOMAIN stock |-> stock[s]] /\ orders = {}
    BY DEF Init
  <1>2. BooksOK
    BY <1>1, FS_EmptySet DEF Init, BooksOK, Idle
  <1>3. RequestsOK
    BY DEF Init, RequestsOK, Idle, NoCheck
  <1>4. FreshOK /\ SeededOK /\ LoadOK
    BY DEF Init, FreshOK, SeededOK, LoadOK, Early, Loaded, Running, Checking
  <1>5. ChecksOK
    BY DEF Init, ChecksOK, ChecksAreFair, NoCheck
  <1>6. VerdictOK /\ ProcessOK
    BY DEF Init, VerdictOK, ProcessOK
  <1> QED
    BY <1>2, <1>3, <1>4, <1>5, <1>6 DEF IInv

(* The inductive invariant holds in every reachable state.                 *)
THEOREM Invariance == Spec => []IInv
  <1>1. Init => IInv
    BY InitInv
  <1>2. IInv /\ [Next]_vars => IInv'
    BY BooksStep, RequestsStep, FreshStep, SeededStep, LoadStep, ChecksStep, VerdictStep DEF IInv
  <1> QED
    BY <1>1, <1>2, PTL DEF Spec

(* Every way out of Execute but a crash passes the deferred stop: no app   *)
(* that the generator started is left running or listening that has not    *)
(* been sent SIGKILL.                                                      *)
THEOREM NoAppIsLeft == Spec => []NoAppLeft
  <1>1. Init => ProcessOK
    BY InitInv
  <1>2. ProcessOK => NoAppLeft
    BY DEF ProcessOK, NoAppLeft
  <1> QED
    BY <1>1, <1>2, ProcessStep, PTL DEF Spec

(* verify.Check accuses no server that commits whole reserves: a check     *)
(* that fails has a query that failed, a late commit between two reads, or *)
(* an order behind an error.                                               *)
THEOREM ChecksAccuseNobody == Spec => []ChecksAreFair
  <1>1. IInv => ChecksAreFair
    BY DEF IInv, ChecksOK
  <1> QED
    BY <1>1, Invariance, PTL

(* applyValidity and the sweep's exit status: a valid result is about the  *)
(* app of its run, and a sweep that exits with 0 had no other.             *)
THEOREM ResultsAreReal == Spec => []ReportsAreReal
  <1>1. IInv => ReportsAreReal
    <2> SUFFICES ASSUME IInv PROVE ReportsAreReal
      OBVIOUS
    <2>1. phase = "returned" /\ ~err /\ valid => \A i \in Measured : Real(i)
      BY ValidIsReal
    <2>2. status = "0" /\ flags.cmd = "sweep" => ~tainted
      BY DEF IInv, VerdictOK
    <2> QED
      BY <2>1, <2>2 DEF ReportsAreReal
  <1> QED
    BY <1>1, Invariance, PTL

----------------------------------------------------------------------------
(* What Min chooses from two numbers.                                      *)
LEMMA MinOfTwo ==
    ASSUME NEW a \in Int, NEW b \in Int
    PROVE  Min({a, b}) = IF a <= b THEN a ELSE b
  <1> DEFINE P(x) == x \in {a, b} /\ \A y \in {a, b} : x <= y
  <1>1. \E x : P(x)
    <2>1. CASE a <= b
      BY <2>1
    <2>2. CASE b <= a
      BY <2>2
    <2> QED
      BY <2>1, <2>2
  <1>2. Min({a, b}) = CHOOSE x \in {a, b} : \A y \in {a, b} : x <= y
    BY Zenon DEF Min
  <1>3. Min({a, b}) \in {a, b} /\ \A y \in {a, b} : Min({a, b}) <= y
    BY <1>1, <1>2
  <1> QED
    BY <1>3

(* The q-per-mille percentile of the lags of n sends is one of the k late. *)
LateAt(q, k, n) == at(q, n) >= n - k

(* A percentile is a late send exactly when the share of late sends is all *)
(* that it leaves above it, or more.                                       *)
LEMMA LateShare ==
    ASSUME NEW n \in Nat \ {0}, NEW k \in 0..n
    PROVE  /\ LateAt(990, k, n) <=> 100 * k >= n
           /\ LateAt(999, k, n) <=> 1000 * k >= n
  <1>1. at(990, n) = IF (990 * n) \div 1000 <= n - 1 THEN (990 * n) \div 1000 ELSE n - 1
    BY MinOfTwo DEF at
  <1>2. at(999, n) = IF (999 * n) \div 1000 <= n - 1 THEN (999 * n) \div 1000 ELSE n - 1
    BY MinOfTwo DEF at
  <1>3. LateAt(990, k, n) <=> 100 * k >= n
    BY <1>1 DEF LateAt
  <1>4. LateAt(999, k, n) <=> 1000 * k >= n
    BY <1>2 DEF LateAt
  <1> QED
    BY <1>3, <1>4

(* The rules on late sends, for windows of every size.  A run is voided    *)
(* exactly when one send in a hundred or more was late: the 99th           *)
(* percentile decides, and TrustedPercentileFor never voids a run that it  *)
(* lets pass.  A p99.9 that is called trusted is on time but for one case: *)
(* with exactly one late send in a thousand it is that send.               *)
THEOREM LatenessIsJudgedExactly ==
    ASSUME NEW n \in Nat \ {0}, NEW k \in 0..n, NEW total \in Nat, n <= total
    PROVE  /\ LagVoids(k, n, total) <=> 100 * k >= n
           /\ TrustedPercentileFor(k, n) = "p999" => (LateAt(999, k, n) <=> 1000 * k = n)
  <1>1. LagP99Late(k, n) <=> 100 * k >= n
    BY LateShare DEF LagP99Late, LateAt
  <1>2. TrustedPercentileFor(k, total) = "none" => 100 * k > total
    BY DEF TrustedPercentileFor
  <1>3. TrustedPercentileFor(k, n) = "p999" => 1000 * k <= n
    BY DEF TrustedPercentileFor
  <1> QED
    BY <1>1, <1>2, <1>3, LateShare DEF LagVoids
=============================================================================
