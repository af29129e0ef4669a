------------------------------- MODULE Bench -------------------------------
(***************************************************************************)
(* The load generator: `bench run` and `bench sweep`.                      *)
(*                                                                         *)
(* Execute checks its surroundings, empties and seeds a database, starts   *)
(* the app as a child, sends it a schedule of reserves from concurrent     *)
(* goroutines, stops it, compares what the clients saw with what the       *)
(* database holds and says whether the numbers may be used.  The app is    *)
(* seen from outside: a request is in a handler, whose transaction commits *)
(* an order or finds the product sold out.  A handler whose client is gone *)
(* is cancelled, and so is every handler when the process ends; a COMMIT   *)
(* that was already on its way is then an orphan: PostgreSQL carries it    *)
(* out, or not, when it gets to it.                                        *)
(*                                                                         *)
(* A generator that crashes leaves its child behind on the port.  The      *)
(* next child cannot listen there and exits, and what answers waitReady is *)
(* the stray, which knows the old run's issuer only.  The same may happen  *)
(* for a moment with an app that was killed: it is dying until the kernel  *)
(* has ended it.                                                           *)
(*                                                                         *)
(* Left out: latencies, throughput, the model's prediction (ProbeModel     *)
(* writes to a table of its own) and the wording of a result.              *)
(*                                                                         *)
(* An operator named Mutant... is the definition after it with a plausible *)
(* bug: no specification uses it, only the mutation runs put it in place.  *)
(***************************************************************************)
EXTENDS Integers, FiniteSets, FiniteSetsExt

CONSTANTS
    N,              \* scheduled requests
    ManySkus,       \* bound: the SKUs of the shapes with many (64 and more)
    NumArms,        \* arms of a sweep before its saturation run
    Flags,          \* the command lines: [cmd, shape, warmup, maxInFlight, dsn, override, sha,
                    \* allowDirty], warmup in requests, dsn as for databaseName
    MaxCommands,    \* bound: commands given one after the other
    MaxFaults       \* bound: failures of the surroundings, late sends included

ASSUME BenchAssumption ==
    /\ N \in Nat /\ ManySkus \in Nat \ {0} /\ NumArms \in Nat \ {0}
    /\ MaxCommands \in Nat /\ MaxFaults \in Nat

Request == 1..N
Shape == {"hot-deep", "doorbuster", "uncontended", "zipf"}

VARIABLES
    flags, run, failed, status,     \* the command: its Execute calls, its exit status
    phase, dirty, err, valid,       \* Execute: where it is, what it returns
    port, child,                    \* who listens on Addr; the process Execute started
    stock, orders,                  \* SKU -> [quantity, num_reserved]; set of [req, sku]
    next, pc, sku, outcome, sent,   \* the dispatcher, the request goroutines, the recorder
    late, cached,                   \* late sends in the window; zipfCache holds the rng
    work, reply,                    \* per request: its handler in the app, and the answer
    check,                          \* verify.Check: its product, what it read, passed so far
    faults, commands,               \* counts for the bounds
    excuses, tainted                \* history: see ChecksAreFair and ReportsAreReal

command == <<flags, run, failed, status, commands>>
execute == <<phase, dirty, err, valid>>
process == <<port, child>>
tables == <<stock, orders>>
client == <<next, pc, sku, outcome, sent, late, cached>>
server == <<work, reply>>
history == <<excuses, tainted>>
vars == <<command, execute, process, tables, client, server, check, faults, history>>

(* The requests recorder.window keeps: none when all are due before the    *)
(* end of the warm-up.                                                     *)
Measured == {i \in Request : i > flags.warmup}

InFlight == {i \in Request : pc[i] \in {"pick", "wait"}}
Count(o, S) == Cardinality({i \in S : outcome[i] = o})

----------------------------------------------------------------------------
(* What a run is made of.                                                  *)

(* A shape's SKUs and the units of each.                                   *)
PlanFor(shape) ==
    [skus |-> IF shape \in {"hot-deep", "doorbuster"} THEN 1 ELSE ManySkus,
     quantity |-> IF shape = "doorbuster" THEN Max({N \div 100, 1}) ELSE N * 10 + 1000]
Plan == PlanFor(flags.shape)
Sku == 1..Plan.skus

(* The SKUs request i may go for.                                          *)
Pick(i) ==
    CASE flags.shape = "zipf" -> Sku
      [] flags.shape = "uncontended" -> {((i - 1) % Plan.skus) + 1}
      [] OTHER -> {1}

(* What a reserve of a seeded product can be told; the outcomes not_found  *)
(* and conflict_other are for answers it is not given.                     *)
ClassifyResponse(answer) ==
    CASE answer = "created" -> "reserved"
      [] answer = "sold_out" -> "out_of_stock"
      [] answer = "unauthorized" -> "unauthorized"
      [] answer = "failed" -> "server_error"

totalReserved == Cardinality({i \in Request : sent[i] /\ outcome[i] = "reserved"})
totalUnknown == Count("timeout", Request) + Count("connect_error", Request)

(* The nearest-rank index, from 0, of the q-per-mille percentile of n.     *)
at(q, n) == Min({(q * n) \div 1000, n - 1})

(* Of n sends the k latest missed their time by over 1ms: the 99th         *)
(* percentile of the lag is one of them.                                   *)
LagP99Late(k, n) == n > 0 /\ at(990, n) >= n - k

TrustedPercentileFor(k, n) ==
    CASE n > 0 /\ 100 * k > n -> "none"
      [] n > 0 /\ 1000 * k > n /\ 100 * k <= n -> "p99"
      [] OTHER -> "p999"

(* k late sends among n, of total scheduled, void the run.                 *)
LagVoids(k, n, total) == LagP99Late(k, n) \/ TrustedPercentileFor(k, total) = "none"

(* The verdict on a run, from the measured window and the checks.          *)
MutantValidity ==
    /\ Count("generator_saturated", Measured) = 0
    /\ Count("connect_error", Measured) = 0
    /\ ~LagVoids(late, Cardinality({i \in Measured : sent[i]}), Cardinality(Measured))
    /\ Count("server_error", Measured) = 0
    /\ Count("not_found", Measured) = 0
    /\ check.passed /\ ~dirty
applyValidity ==
    /\ Count("generator_saturated", Measured) = 0
    /\ Count("connect_error", Measured) = 0
    /\ ~LagVoids(late, Cardinality({i \in Measured : sent[i]}), Cardinality(Measured))
    /\ Count("server_error", Measured) = 0
    /\ Count("unauthorized", Measured) = 0
    /\ Count("not_found", Measured) = 0
    /\ check.passed
    /\ ~dirty

----------------------------------------------------------------------------
(* The command and the checks before anything is touched.                  *)

NoCheck == [sku |-> 0, reserved |-> 0, passed |-> TRUE]
Idle == [i \in Request |-> "none"]

(* An Execute of its own recorder: the zero outcome is reserved.           *)
Fresh ==
    /\ next' = 1 /\ late' = 0 /\ cached' = FALSE
    /\ pc' = [i \in Request |-> "due"]
    /\ outcome' = [i \in Request |-> "reserved"]
    /\ sent' = [i \in Request |-> FALSE]
    /\ reply' = Idle
    /\ check' = NoCheck
    /\ excuses' = {}

(* A command line is given; orphans of an earlier run may still be about.  *)
Start ==
    /\ phase \in {"exit", "crashed"} /\ commands < MaxCommands
    /\ commands' = commands + 1
    /\ flags' \in Flags
    /\ run' = 1 /\ failed' = FALSE /\ status' = "none" /\ tainted' = FALSE
    /\ phase' = "preflight" /\ dirty' = FALSE /\ err' = FALSE /\ valid' = TRUE
    /\ child' = "none"
    /\ Fresh
    /\ UNCHANGED <<port, tables, sku, work, faults>>

(* The texts of the name databaseName returns.  A DSN is a URL with a path *)
(* or a string of keywords with their values.  url.Parse takes the string  *)
(* for a path, and databaseName the whole of it, all its values, for the   *)
(* name.  Of a text all that counts is whether "bench" is in it.           *)
databaseName(dsn) == IF dsn.form = "url" THEN {dsn.path} ELSE dsn.values

(* That name has "bench" in it, or the operator insists.  (The driver may  *)
(* open another database: see the README.)                                 *)
CheckTarget == flags.override \/ "bench" \in databaseName(flags.dsn)

(* The descriptors and the memory (in requests) the machine offers.        *)
RaiseFileLimit(hard) == hard >= 2 * flags.maxInFlight
CheckMemoryBudget(available) == 2 * flags.maxInFlight <= available

(* A commit is known, and the tree clean, unless the flags say otherwise.  *)
Attributed(known, clean) ==
    \/ flags.sha
    \/ flags.allowDirty
    \/ known /\ clean

Preflight ==
    /\ phase = "preflight"
    /\ \E known, clean \in BOOLEAN, hard, available \in {2 * flags.maxInFlight - 1, 2 * flags.maxInFlight} :
         /\ dirty' = (~flags.sha /\ ~clean)
         /\ IF Attributed(known, clean) /\ RaiseFileLimit(hard) /\ CheckTarget
                                        /\ CheckMemoryBudget(available)
            THEN phase' = "migrate" /\ err' = FALSE
            ELSE phase' = "returned" /\ err' = TRUE
    /\ UNCHANGED <<command, valid, process, tables, client, server, check, faults, history>>

----------------------------------------------------------------------------
(* Preparing the database and the app.                                     *)

Migrate ==
    /\ phase = "migrate"
    /\ phase' = "reset"
    /\ UNCHANGED <<command, dirty, err, valid, process, tables, client, server, check, faults, history>>

(* TRUNCATE waits for the transactions that hold rows of its tables.  (The *)
(* tables are those of the DSN.  A command with another one need not wait, *)
(* and meets no orphan.)                                                   *)
Reset ==
    /\ phase = "reset" /\ work = Idle
    /\ phase' = "seed"
    /\ orders' = {} /\ stock' = << >> /\ sku' = [i \in Request |-> 0]
    /\ UNCHANGED <<command, dirty, err, valid, process, next, pc, outcome, sent, late, cached,
                   server, check, faults, history>>

(* The schedule, the plan's products, the issuer, the buyers' tokens and   *)
(* their customer rows.                                                    *)
Seed ==
    /\ phase = "seed"
    /\ phase' = "start"
    /\ stock' = [s \in Sku |-> [quantity |-> Plan.quantity, num_reserved |-> 0]]
    /\ UNCHANGED <<command, dirty, err, valid, process, orders, client, server, check,
                   faults, history>>

startApp ==
    /\ phase = "start"
    /\ phase' = "ready" /\ child' = "up"
    /\ UNCHANGED <<command, dirty, err, valid, port, tables, client, server, check,
                   faults, history>>

(* The child listens, or finds the port taken and exits.                   *)
Listen ==
    /\ child = "up" /\ port # "ours"
    /\ IF port = "free" THEN port' = "ours" /\ child' = child
                        ELSE port' = port /\ child' = "dead"
    /\ UNCHANGED <<command, execute, tables, client, server, check, faults, history>>

(* Whoever listens answers.                                                *)
waitReady ==
    /\ phase = "ready" /\ port # "free"
    /\ phase' = "probe"
    /\ UNCHANGED <<command, dirty, err, valid, process, tables, client, server, check,
                   faults, history>>

(* What the probe leaves of a reserve it executes: it rolls back.          *)
MutantExplainOnce(rows) == [rows EXCEPT ![1].num_reserved = @ + 1]
explainOnce(rows) == rows

ProbeExec ==
    /\ phase = "probe"
    /\ phase' = "load"
    /\ stock' = explainOnce(stock)
    /\ UNCHANGED <<command, dirty, err, valid, process, orders, client, server, check,
                   faults, history>>

(* A step of the preparation fails, or nothing is ready within 30 seconds. *)
Fail ==
    /\ phase \in {"migrate", "reset", "seed", "start", "ready", "probe"}
    /\ faults < MaxFaults
    /\ faults' = faults + 1 /\ err' = TRUE
    /\ phase' = IF phase \in {"ready", "probe"} THEN "unwind" ELSE "returned"
    /\ UNCHANGED <<command, dirty, valid, process, tables, client, server, check, history>>
NotReady ==
    /\ phase = "ready" /\ port \in {"free", "dying"}
    /\ phase' = "unwind" /\ err' = TRUE
    /\ UNCHANGED <<command, dirty, valid, process, tables, client, server, check, faults,
                   history>>

----------------------------------------------------------------------------
(* The load.                                                               *)

(* The next request is due: it gets a goroutine, or there is no room and   *)
(* it is never sent.                                                       *)
Dispatch ==
    /\ phase = "load" /\ next <= N
    /\ next' = next + 1
    /\ IF Cardinality(InFlight) < flags.maxInFlight
       THEN /\ pc' = [pc EXCEPT ![next] = "pick"]
            /\ \/ UNCHANGED <<late, faults>>
               \/ next \in Measured /\ faults < MaxFaults
                  /\ faults' = faults + 1 /\ late' = late + 1
            /\ outcome' = outcome
       ELSE /\ pc' = [pc EXCEPT ![next] = "done"]
            /\ outcome' = [outcome EXCEPT ![next] = "generator_saturated"]
            /\ UNCHANGED <<late, faults>>
    /\ UNCHANGED <<command, execute, process, tables, sku, sent, cached, server, check,
                   history>>

(* A goroutine's end: its outcome is recorded, its slot released.          *)
Record(i, o) ==
    /\ pc' = [pc EXCEPT ![i] = "done"]
    /\ sent' = [sent EXCEPT ![i] = TRUE]
    /\ outcome' = [outcome EXCEPT ![i] = o]

(* The goroutine picks a SKU and posts the reserve to whoever listens: a   *)
(* stray refuses it, a process that is being killed may still do so.       *)
Send(i) ==
    /\ pc[i] = "pick"
    /\ \E s \in Pick(i) : sku' = [sku EXCEPT ![i] = s]
    /\ cached' = (cached \/ flags.shape = "zipf")
    /\ IF port = "free"
       THEN Record(i, "connect_error") /\ UNCHANGED server
       ELSE /\ pc' = [pc EXCEPT ![i] = "wait"]
            /\ work' = [work EXCEPT ![i] = IF port = "ours" THEN "handler" ELSE @]
            /\ \E refused \in BOOLEAN :
                 /\ port = "ours" => ~refused
                 /\ port = "stray" => refused
                 /\ reply' = [reply EXCEPT ![i] = IF refused THEN "unauthorized" ELSE @]
            /\ UNCHANGED <<outcome, sent>>
    /\ UNCHANGED <<command, execute, process, tables, next, late, check, faults, history>>

Receive(i) ==
    /\ pc[i] = "wait" /\ reply[i] # "none"
    /\ Record(i, ClassifyResponse(reply[i]))
    /\ UNCHANGED <<command, execute, process, tables, next, sku, late, cached, server,
                   check, faults, history>>

Timeout(i) ==
    /\ pc[i] = "wait"
    /\ Record(i, "timeout")
    /\ UNCHANGED <<command, execute, process, tables, next, sku, late, cached, server,
                   check, faults, history>>

(* The connection breaks: whoever had the request died, or a socket is     *)
(* lost.                                                                   *)
ConnectError(i) ==
    /\ pc[i] = "wait" /\ reply[i] = "none"
    /\ \/ port = "free" /\ faults' = faults
       \/ port = "ours" /\ work[i] = "none" /\ faults' = faults
       \/ faults < MaxFaults /\ faults' = faults + 1
    /\ Record(i, "connect_error")
    /\ UNCHANGED <<command, execute, process, tables, next, sku, late, cached, server,
                   check, history>>

(* The end of a process that was serving: its handlers are gone.           *)
Orphaned == [i \in Request |-> IF work[i] = "handler" THEN "orphan" ELSE work[i]]

(* Two goroutines are in zipfFor before its map holds the generator: the   *)
(* Go runtime stops the process, and no deferred call runs.                *)
Crash ==
    /\ phase = "load" /\ flags.shape = "zipf" /\ ~cached
    /\ Cardinality({i \in Request : pc[i] = "pick"}) > 1
    /\ phase' = "crashed" /\ status' = "crash"
    /\ port' = IF port = "ours" THEN "stray" ELSE port
    /\ child' = "none"
    /\ pc' = [i \in Request |-> "done"]
    /\ work' = Orphaned
    /\ UNCHANGED <<flags, run, failed, commands, dirty, err, valid, tables, next, sku,
                   outcome, sent, late, cached, reply, check, faults, history>>

(* wg.Wait, and the end of the load: with all requests due in the warm-up  *)
(* it may have ended before the warm-up has, which is an error.            *)
Wait ==
    /\ phase = "load" /\ next > N /\ InFlight = {}
    /\ \/ phase' = "stop" /\ err' = err
       \/ Measured = {} /\ phase' = "unwind" /\ err' = TRUE
    /\ UNCHANGED <<command, dirty, valid, process, tables, client, server, check,
                   faults, history>>

----------------------------------------------------------------------------
(* The app, from outside.                                                  *)

(* The transaction of a reserve ends: an order, or no unit left.  The      *)
(* order an orphan makes while a product's rows are being compared is      *)
(* noted.                                                                  *)
Reserve(i) ==
    /\ work[i] # "none"
    /\ LET available == stock[sku[i]].quantity - stock[sku[i]].num_reserved > 0
       IN  /\ IF available
              THEN /\ stock' = [stock EXCEPT ![sku[i]].num_reserved = @ + 1]
                   /\ orders' = orders \cup {[req |-> i, sku |-> sku[i]]}
              ELSE UNCHANGED tables
           /\ reply' = [reply EXCEPT ![i] =
                  IF pc[i] = "wait" /\ work[i] = "handler"
                  THEN IF available THEN "created" ELSE "sold_out" ELSE @]
    /\ work' = [work EXCEPT ![i] = "none"]
    /\ excuses' = IF work[i] = "orphan" /\ phase = "live" THEN excuses \cup {"orphan"} ELSE excuses
    /\ UNCHANGED <<command, execute, process, client, check, faults, tainted>>

(* A handler is cancelled because its client is gone, or loses its         *)
(* database connection and answers 500.                                    *)
Cancel(i) ==
    /\ work[i] = "handler"
    /\ \/ pc[i] = "done" /\ UNCHANGED <<reply, faults>>
       \/ /\ faults < MaxFaults /\ faults' = faults + 1
          /\ reply' = [reply EXCEPT ![i] = IF pc[i] = "wait" THEN "failed" ELSE @]
    /\ work' = [work EXCEPT ![i] = "orphan"]
    /\ UNCHANGED <<command, execute, process, tables, client, check, history>>

(* PostgreSQL rolls an orphan back.                                        *)
RollBack(i) ==
    /\ work[i] = "orphan"
    /\ work' = [work EXCEPT ![i] = "none"]
    /\ UNCHANGED <<command, execute, process, tables, client, reply, check, faults, history>>

(* The app dies: nothing listens any more.                                 *)
AppDies ==
    /\ port = "ours" /\ phase = "load" /\ faults < MaxFaults
    /\ faults' = faults + 1
    /\ port' = "free" /\ child' = "dead" /\ work' = Orphaned
    /\ UNCHANGED <<command, execute, tables, client, reply, check, history>>

----------------------------------------------------------------------------
(* Stopping it, before the database is read and on every way out.          *)

(* stop returns; the port, where it was the app's, is left free or dying.  *)
MutantGone(left) ==
    /\ IF phase = "stop" THEN child' = "dead" /\ port' = IF port = "ours" THEN left ELSE port
                         ELSE UNCHANGED process
    /\ phase' = IF phase = "stop" THEN "count" ELSE "returned"
Gone(left) ==
    /\ port' = IF port = "ours" THEN left ELSE port
    /\ child' = "dead"
    /\ phase' = IF phase = "stop" THEN "count" ELSE "returned"

(* SIGTERM, and the app drains its handlers and exits.                     *)
Drained ==
    /\ phase \in {"stop", "unwind"}
    /\ \A i \in Request : work[i] # "handler"
    /\ Gone("free")
    /\ UNCHANGED <<command, dirty, err, valid, tables, client, server, check, faults, history>>

(* It has not: handlers are left when its own deadline passes and it       *)
(* exits, or they or something else keeps it for 20 seconds and it is      *)
(* killed, and stop does not wait for the end of it.                       *)
MutantKill == Drained
Kill ==
    /\ phase \in {"stop", "unwind"}
    /\ \/ /\ \E i \in Request : work[i] = "handler"
          /\ Gone("free") \/ Gone("dying")
          /\ faults' = faults
       \/ faults < MaxFaults /\ faults' = faults + 1 /\ Gone("dying")
    /\ work' = Orphaned
    /\ UNCHANGED <<command, dirty, err, valid, tables, client, reply, check, history>>

(* The killed process ends.                                                *)
Reaped ==
    /\ port = "dying" /\ port' = "free"
    /\ UNCHANGED <<command, execute, child, tables, client, server, check, faults, history>>

----------------------------------------------------------------------------
(* verify.Check, one query a step, and the verdict.                        *)

OrdersOf(s) == Cardinality({o \in orders : o.sku = s})
NextProduct(s) == IF s < Plan.skus THEN "stock" ELSE "judge"

CountOrders ==
    /\ phase = "count"
    /\ LET n == Cardinality(orders)
       IN  check' = [check EXCEPT !.sku = 1,
                       !.passed = n >= totalReserved /\ n <= totalReserved + totalUnknown]
    /\ phase' = "stock"
    /\ UNCHANGED <<command, dirty, err, valid, process, tables, client, server, faults, history>>

ReadStock ==
    /\ phase = "stock"
    /\ LET row == stock[check.sku]
       IN  check' = [check EXCEPT !.reserved = row.num_reserved,
                       !.passed = @ /\ row.num_reserved \in 0..row.quantity]
    /\ phase' = "live"
    /\ UNCHANGED <<command, dirty, err, valid, process, tables, client, server, faults, history>>

CountLive ==
    /\ phase = "live"
    /\ check' = [check EXCEPT !.passed = @ /\ check.reserved = OrdersOf(check.sku)]
    /\ phase' = "sold"
    /\ UNCHANGED <<command, dirty, err, valid, process, tables, client, server, faults, history>>

CountSold ==
    /\ phase = "sold"
    /\ check' = [check EXCEPT !.passed = @ /\ OrdersOf(check.sku) <= Plan.quantity,
                              !.sku = @ + 1]
    /\ phase' = NextProduct(check.sku)
    /\ UNCHANGED <<command, dirty, err, valid, process, tables, client, server, faults, history>>

(* A query fails: the check fails, and with it the rest of its product's.  *)
ReadFails ==
    /\ phase \in {"count", "stock", "live", "sold"} /\ faults < MaxFaults
    /\ faults' = faults + 1
    /\ excuses' = excuses \cup {"unread"}
    /\ check' = [check EXCEPT !.passed = FALSE, !.sku = @ + 1]
    /\ phase' = NextProduct(check.sku)
    /\ UNCHANGED <<command, dirty, err, valid, process, tables, client, server, tainted>>

Judge ==
    /\ phase = "judge"
    /\ valid' = applyValidity
    /\ phase' = "returned"
    /\ UNCHANGED <<command, dirty, err, process, tables, client, server, check, faults, history>>

----------------------------------------------------------------------------
(* What the command makes of the result.                                   *)

(* Request i timed out, or was posted to the app this run started and the  *)
(* database bears out what it was told.                                    *)
Real(i) ==
    /\ outcome[i] # "timeout" => sku[i] # 0 /\ reply[i] # "unauthorized"
    /\ outcome[i] = "reserved" => \E o \in orders : o.req = i
    /\ outcome[i] = "out_of_stock" => OrdersOf(sku[i]) = Plan.quantity

Exit(code) == phase' = "exit" /\ status' = code

(* bench run, and any command whose Execute or whose emit fails.           *)
cmdRun ==
    /\ phase = "returned"
    /\ \/ err /\ Exit("1") /\ faults' = faults
       \/ ~err /\ faults < MaxFaults /\ faults' = faults + 1 /\ Exit("1")
       \/ ~err /\ flags.cmd = "run" /\ faults' = faults /\ Exit(IF valid THEN "0" ELSE "1")
    /\ UNCHANGED <<flags, run, failed, commands, dirty, err, valid, process, tables,
                   client, server, check, history>>

(* bench sweep, after an arm.                                              *)
SweepArm ==
    /\ phase = "returned" /\ flags.cmd = "sweep" /\ ~err /\ run <= NumArms
    /\ failed' = (failed \/ ~valid)
    /\ tainted' = (tainted \/ \E i \in Measured : ~Real(i))
    /\ run' = run + 1
    /\ phase' = "preflight" /\ child' = "none" /\ valid' = TRUE
    /\ Fresh
    /\ UNCHANGED <<flags, status, commands, dirty, err, port, tables, sku, work, faults>>

(* Its last run doubles the rate.  The default verdict stands unless the   *)
(* generator fell short or, plateau, throughput still grew.                *)
Verdict(plateau) ==
    CASE \/ Count("generator_saturated", Measured) > 0
         \/ LagP99Late(late, Cardinality({i \in Measured : sent[i]})) -> "generator-limited"
      [] OTHER -> IF plateau THEN "server-saturated" ELSE "not-yet-saturated"
Saturation ==
    /\ phase = "returned" /\ flags.cmd = "sweep" /\ ~err /\ run > NumArms
    /\ \E plateau \in BOOLEAN :
         LET bad == failed \/ Verdict(plateau) # "server-saturated"
         IN  failed' = bad /\ Exit(IF bad THEN "1" ELSE "0")
    /\ UNCHANGED <<flags, run, commands, dirty, err, valid, process, tables, client,
                   server, check, faults, history>>

----------------------------------------------------------------------------
Init ==
    /\ flags = CHOOSE f \in Flags : TRUE
    /\ run = 1 /\ failed = FALSE /\ status = "none" /\ commands = 0
    /\ phase = "exit" /\ dirty = FALSE /\ err = FALSE /\ valid = TRUE
    /\ port = "free" /\ child = "none"
    /\ stock = << >> /\ orders = {}
    /\ next = 1 /\ late = 0 /\ cached = FALSE
    /\ pc = [i \in Request |-> "due"]
    /\ sku = [i \in Request |-> 0]
    /\ outcome = [i \in Request |-> "reserved"]
    /\ sent = [i \in Request |-> FALSE]
    /\ work = Idle /\ reply = Idle
    /\ check = NoCheck /\ faults = 0
    /\ excuses = {} /\ tainted = FALSE

Prepare == Preflight \/ Migrate \/ Reset \/ Seed \/ startApp \/ waitReady \/ ProbeExec \/ NotReady
Load == Dispatch \/ Wait \/ \E i \in Request : Send(i)
End(i) == Receive(i) \/ Timeout(i)
Settle(i) == work[i] = "orphan" /\ (Reserve(i) \/ RollBack(i))
Stop == Drained \/ Kill
Verify == CountOrders \/ ReadStock \/ CountLive \/ CountSold \/ Judge
Report == cmdRun \/ SweepArm \/ Saturation

Next ==
    \/ Start \/ Prepare \/ Listen \/ Fail
    \/ Load \/ Crash \/ AppDies
    \/ \E i \in Request : End(i) \/ ConnectError(i) \/ Reserve(i) \/ Cancel(i) \/ RollBack(i)
    \/ Stop \/ Reaped \/ Verify \/ ReadFails \/ Report

Spec == Init /\ [][Next]_vars

(* The generator goes on with its own steps, a client's wait ends at its   *)
(* timeout at the latest, PostgreSQL finishes what it was given, a child   *)
(* listens or exits.  Nothing is asked of the app's handlers.              *)
FairSpec ==
    /\ Spec
    /\ WF_vars(Prepare) /\ WF_vars(Listen) /\ WF_vars(Load)
    /\ \A i \in Request : WF_vars(End(i)) /\ WF_vars(Settle(i))
    /\ WF_vars(Stop) /\ WF_vars(Verify) /\ WF_vars(Report)

----------------------------------------------------------------------------
(* The range of every variable, no more than maxInFlight requests on their *)
(* way at once, and no row of stock past its quantity.                     *)
TypeOK ==
    /\ flags \in Flags /\ run \in 1..(NumArms + 1) /\ failed \in BOOLEAN
    /\ status \in {"none", "0", "1", "crash"} /\ commands \in 0..MaxCommands
    /\ phase \in {"preflight", "migrate", "reset", "seed", "start", "ready", "probe", "load",
                  "stop", "unwind", "count", "stock", "live", "sold", "judge", "returned",
                  "exit", "crashed"}
    /\ {dirty, err, valid, cached, tainted} \subseteq BOOLEAN
    /\ port \in {"free", "ours", "stray", "dying"} /\ child \in {"none", "up", "dead"}
    /\ \A s \in DOMAIN stock : stock[s].num_reserved \in 0..stock[s].quantity
    /\ orders \subseteq [req : Request, sku : 1..ManySkus]
    /\ next \in 1..(N + 1) /\ late \in 0..Cardinality(Measured)
    /\ pc \in [Request -> {"due", "pick", "wait", "done"}]
    /\ Cardinality(InFlight) <= flags.maxInFlight
    /\ sku \in [Request -> 0..ManySkus] /\ sent \in [Request -> BOOLEAN]
    /\ outcome \in [Request -> {"reserved", "out_of_stock", "unauthorized", "server_error",
                                "timeout", "connect_error", "generator_saturated"}]
    /\ work \in [Request -> {"none", "handler", "orphan"}]
    /\ reply \in [Request -> {"none", "created", "sold_out", "unauthorized", "failed"}]
    /\ check \in [sku : 0..(ManySkus + 1), reserved : Nat, passed : BOOLEAN]
    /\ faults \in 0..MaxFaults /\ excuses \subseteq {"orphan", "unread"}

(* The checks do not cry wolf at a server that only commits whole          *)
(* reserves: when one fails, a query failed, or a request answered with an *)
(* error has an order after all, or an orphan committed between the reads  *)
(* of one product (verify.Check, after stop).                              *)
ChecksAreFair ==
    check.passed
    \/ excuses # {}
    \/ \E o \in orders : outcome[o.req] = "server_error"

(* A result that is returned as valid is about the app this Execute        *)
(* started: every measured request that did not time out was sent to it    *)
(* and not answered by a process left on the port, each one counted as     *)
(* reserved has its order and each one told sold-out was told the truth.   *)
(* A sweep that exits with 0 had no other arm, although an arm does not    *)
(* end the sweep and the saturation run comes last.                        *)
ReportsAreReal ==
    /\ phase = "returned" /\ ~err /\ valid => \A i \in Measured : Real(i)
    /\ status = "0" /\ flags.cmd = "sweep" => ~tainted

(* Execute leaves no app behind, on any way out but a crash, that it has   *)
(* not at least sent SIGKILL: neither the process nor its hold on the port *)
(* (the deferred stop).                                                    *)
NoAppLeft ==
    phase \in {"returned", "exit"} => child # "up" /\ port # "ours"

(* A command ends, whatever the app under test does: a hung handler costs  *)
(* a client its timeout and the app its life.                              *)
CommandEnds == phase \notin {"exit", "crashed"} ~> phase \in {"exit", "crashed"}
=============================================================================
