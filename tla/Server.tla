------------------------------- MODULE Server -------------------------------
(***************************************************************************)
(* The process: the HTTP server, the background jobs and the profiler      *)
(* under one errgroup, the connection pool they share, shutdown, and what  *)
(* GET /health/ready says of the poller.                                   *)
(*                                                                         *)
(* A request or a sweep or a poll holds one pooled connection at a time;   *)
(* the worker holds one for its claim and takes a second for the order     *)
(* transaction.  pgxpool, which is external, gives a free connection to    *)
(* whoever has waited longest.  Jobs wait and work under the group's       *)
(* context, requests under their own, which ends after a minute.           *)
(*                                                                         *)
(* Time is counted in poll intervals, and age stops at grace + 1.          *)
(*                                                                         *)
(* An operator named Mutant... is the definition after it with a plausible *)
(* bug: no specification uses it, only the mutation runs put it in place.  *)
(***************************************************************************)
EXTENDS Integers, FiniteSets, Sequences, SequencesExt

CONSTANTS
    Client,                 \* connections to the HTTP server, a request at a time each
    MaxConns,               \* DB_MAX_CONNS
    stalePollMultiple,      \* poll intervals without a clean poll
    minPollerGrace,         \* the floor of the grace period, in poll intervals
    Null

(* With a single connection the worker waits for itself.                   *)
ASSUME ServerAssumption ==
    /\ MaxConns \in Nat /\ MaxConns > 1
    /\ stalePollMultiple \in Nat /\ minPollerGrace \in Nat
    /\ Client \cap {"worker", "sweeper", "poller", "pprof"} = {}
    /\ Null \notin {0, 1}

Job == {"worker", "sweeper", "poller"}
Process == Client \cup Job

VARIABLES
    ctx,        \* the group's context: live, or why it is cancelled
    http,       \* the HTTP server
    pprof,      \* the profiler's listener
    exit,       \* exit status, or Null
    state,      \* per process: idle, waiting, working; returned (job), cut (request)
    conns,      \* per process: connections it holds
    queue,      \* who waits for a connection, oldest first
    stripe,     \* whether Stripe answers our key (environment)
    polled,     \* whether a poll has succeeded: lastSuccess # 0
    age         \* since the last clean poll or, before the first, since the start

vars == <<ctx, http, pprof, exit, state, conns, queue, stripe, polled, age>>
lifecycle == <<ctx, http, pprof, exit>>
pool == <<state, conns, queue>>
readiness == <<stripe, polled, age>>

----------------------------------------------------------------------------
(* The pool.                                                               *)
Held == {h \in Process \X {1, 2} : h[2] <= conns[h[1]]}
InUse == Cardinality(Held)

Wait(p) ==
    /\ state' = [state EXCEPT ![p] = "waiting"]
    /\ queue' = Append(queue, p)
    /\ UNCHANGED conns

(* p gives up its place and its connections.                               *)
MutantLeave(p, next) ==
    /\ state' = [state EXCEPT ![p] = next]
    /\ conns' = [conns EXCEPT ![p] = 0]
    /\ UNCHANGED queue
Leave(p, next) ==
    /\ state' = [state EXCEPT ![p] = next]
    /\ conns' = [conns EXCEPT ![p] = 0]
    /\ IF state[p] = "waiting"
         THEN \E i \in DOMAIN queue : queue[i] = p /\ queue' = RemoveAt(queue, i)
         ELSE UNCHANGED queue

Acquire(p) ==
    /\ exit = Null
    /\ queue # <<>> /\ p = Head(queue)
    /\ InUse < MaxConns
    /\ state' = [state EXCEPT ![p] = "working"]
    /\ conns' = [conns EXCEPT ![p] = @ + 1]
    /\ queue' = Tail(queue)
    /\ UNCHANGED <<lifecycle, readiness>>

----------------------------------------------------------------------------
(* Requests.                                                               *)

Arrive(c) ==
    /\ http = "serving" /\ exit = Null
    /\ state[c] = "idle"
    /\ Wait(c)
    /\ UNCHANGED <<lifecycle, readiness>>

MutantAnswer(c) ==
    /\ exit = Null
    /\ state[c] = "working"
    /\ IF conns[c] = 1 THEN Wait(c) ELSE Leave(c, "idle")
    /\ UNCHANGED <<lifecycle, readiness>>
Answer(c) ==
    /\ exit = Null
    /\ state[c] = "working"
    /\ Leave(c, "idle")
    /\ UNCHANGED <<lifecycle, readiness>>

(* The client hangs up, or the minute is over, before there is one.        *)
GiveUp(c) ==
    /\ exit = Null
    /\ state[c] = "waiting"
    /\ Leave(c, "idle")
    /\ UNCHANGED <<lifecycle, readiness>>

----------------------------------------------------------------------------
(* Background jobs.                                                        *)

(* The ticker fires (the poller also polls at once): Begin, or a query.    *)
Tick(j) ==
    /\ exit = Null
    /\ state[j] = "idle" /\ ctx = "live"
    /\ Wait(j)
    /\ UNCHANGED <<lifecycle, readiness>>

(* The worker has claimed an event, and the order service begins.          *)
Apply ==
    /\ exit = Null
    /\ state["worker"] = "working" /\ conns["worker"] = 1
    /\ Wait("worker")
    /\ UNCHANGED <<lifecycle, readiness>>

(* Nothing to claim, or the event decided and stamped; or the sweep done.  *)
Settle(j) ==
    /\ exit = Null
    /\ j # "poller" /\ state[j] = "working"
    /\ Leave(j, "idle")
    /\ UNCHANGED <<lifecycle, readiness>>

(* pollOnce: only a clean poll counts.                                     *)
MutantPollOnce ==
    /\ exit = Null
    /\ state["poller"] = "working"
    /\ Leave("poller", "idle")
    /\ polled' = TRUE
    /\ age' = 0
    /\ UNCHANGED <<lifecycle, stripe>>
pollOnce ==
    /\ exit = Null
    /\ state["poller"] = "working"
    /\ Leave("poller", "idle")
    /\ \/ stripe = "up" /\ polled' = TRUE /\ age' = 0
       \/ UNCHANGED <<polled, age>>
    /\ UNCHANGED <<lifecycle, stripe>>

(* The job sees that its context is done, wherever it is.                  *)
MutantReturn(j) ==
    /\ exit = Null
    /\ ctx # "live" /\ state[j] = "idle" /\ j # "worker"
    /\ Leave(j, "returned")
    /\ UNCHANGED <<lifecycle, readiness>>
Return(j) ==
    /\ exit = Null
    /\ ctx # "live" /\ state[j] # "returned"
    /\ Leave(j, "returned")
    /\ UNCHANGED <<lifecycle, readiness>>

----------------------------------------------------------------------------
(* run.                                                                    *)

Listen ==
    /\ http = "binding" /\ ctx # "failed"
    /\ http' = "serving"
    /\ UNCHANGED <<ctx, pprof, exit, pool, readiness>>

(* The address is taken: the first error cancels the group.                *)
ListenFails ==
    /\ http = "binding" /\ ctx # "failed"
    /\ ctx' = "failed"
    /\ UNCHANGED <<http, pprof, exit, pool, readiness>>

(* SIGTERM, or an interrupt.                                               *)
Signal ==
    /\ ctx = "live"
    /\ ctx' = "signalled"
    /\ UNCHANGED <<http, pprof, exit, pool, readiness>>

(* The profiler stops, or never gets its port: logged and swallowed.       *)
PprofStops ==
    /\ pprof = "up" /\ exit = Null
    /\ pprof' = "down"
    /\ UNCHANGED <<ctx, http, exit, pool, readiness>>

(* srv.Shutdown: no new requests; returns when none is left, or in time.   *)
Shutdown ==
    /\ ctx # "live" /\ http \in {"binding", "serving"}
    /\ http' = "draining"
    /\ UNCHANGED <<ctx, pprof, exit, pool, readiness>>

InFlight == {c \in Client : state[c] \in {"waiting", "working"}}

MutantDrained ==
    /\ http = "draining"
    /\ http' = "closed"
    /\ UNCHANGED <<ctx, pprof, exit, pool, readiness>>
Drained ==
    /\ http = "draining" /\ InFlight = {}
    /\ http' = "closed"
    /\ UNCHANGED <<ctx, pprof, exit, pool, readiness>>

ShutdownTimesOut ==
    /\ http = "draining" /\ InFlight # {}
    /\ http' = "overdue"
    /\ UNCHANGED <<ctx, pprof, exit, pool, readiness>>

(* g.Wait has everyone; main ends.  After an error os.Exit cuts off what   *)
(* is still running; otherwise pool.Close waits for the connections.       *)
Exit ==
    /\ exit = Null
    /\ http \in {"closed", "overdue"}
    /\ pprof = "down"
    /\ \A j \in Job : state[j] = "returned"
    /\ exit' = IF ctx = "failed" \/ http = "overdue" THEN 1 ELSE 0
    /\ state' = [p \in Process |-> IF p \in InFlight THEN "cut" ELSE state[p]]
    /\ conns' = [p \in Process |-> IF p \in InFlight THEN 0 ELSE conns[p]]
    /\ queue' = <<>>
    /\ UNCHANGED <<ctx, http, pprof, readiness>>

----------------------------------------------------------------------------
(* Readiness.                                                              *)
pollerGrace == IF stalePollMultiple > minPollerGrace THEN stalePollMultiple ELSE minPollerGrace

pollerStatus ==
    CASE ~polled /\ age <= pollerGrace -> "starting"
      [] ~polled /\ age > pollerGrace -> "failing"
      [] polled /\ age > pollerGrace -> "stale"
      [] OTHER -> "ok"

Ready == pollerStatus \in {"starting", "ok"}

TimePasses ==
    /\ exit = Null
    /\ age <= pollerGrace
    /\ age' = age + 1
    /\ UNCHANGED <<lifecycle, pool, stripe, polled>>

(* A key is revoked, a network path blocked or restored.                   *)
StripeChanges ==
    /\ exit = Null
    /\ stripe' = IF stripe = "up" THEN "down" ELSE "up"
    /\ UNCHANGED <<lifecycle, pool, polled, age>>

----------------------------------------------------------------------------
Init ==
    /\ ctx = "live" /\ http = "binding" /\ exit = Null
    /\ pprof \in {"up", "down"}
    /\ state = [p \in Process |-> "idle"]
    /\ conns = [p \in Process |-> 0]
    /\ queue = <<>>
    /\ stripe \in {"up", "down"}
    /\ polled = FALSE /\ age = 0

Next ==
    \/ \E p \in Process : Acquire(p)
    \/ \E c \in Client : Arrive(c) \/ Answer(c) \/ GiveUp(c)
    \/ \E j \in Job : Tick(j) \/ Settle(j) \/ Return(j)
    \/ Apply \/ pollOnce
    \/ Listen \/ ListenFails \/ Signal \/ PprofStops \/ Shutdown \/ Drained \/ ShutdownTimesOut \/ Exit
    \/ TimePasses \/ StripeChanges

Spec == Init /\ [][Next]_vars

(* Goroutines run, connections come free, tickers fire, time passes.  No   *)
(* fairness for the environment: arrivals, hang-ups, signals, Stripe; nor  *)
(* for the shutdown's deadline.                                            *)
FairSpec ==
    /\ Spec
    /\ \A p \in Process : WF_vars(Acquire(p))
    /\ \A c \in Client : WF_vars(Answer(c))
    /\ \A j \in Job : WF_vars(Tick(j)) /\ WF_vars(Settle(j)) /\ WF_vars(Return(j))
    /\ WF_vars(pollOnce)
    /\ WF_vars(PprofStops /\ ctx # "live") /\ WF_vars(Shutdown) /\ WF_vars(Drained) /\ WF_vars(Exit)
    /\ WF_vars(TimePasses)

----------------------------------------------------------------------------
(* Types; the pool is never overdrawn, and whoever waits is in the queue,  *)
(* once, and nobody else is.                                               *)
TypeOK ==
    /\ ctx \in {"live", "signalled", "failed"}
    /\ http \in {"binding", "serving", "draining", "closed", "overdue"}
    /\ pprof \in {"up", "down"} /\ exit \in {Null, 0, 1}
    /\ state \in [Process -> {"idle", "waiting", "working", "returned", "cut"}]
    /\ conns \in [Process -> 0..2]
    /\ InUse <= MaxConns
    /\ IsInjective(queue) /\ Range(queue) = {p \in Process : state[p] = "waiting"}
    /\ stripe \in {"up", "down"} /\ polled \in BOOLEAN /\ age \in 0..(pollerGrace + 1)

(* The process ends in order: every job has returned and given its         *)
(* connections back, so that the exit interrupts no transaction of theirs, *)
(* and a request that was accepted is cut off only when the drain has run  *)
(* out of time, which the exit status then says.                           *)
ExitIsOrderly ==
    exit # Null =>
        /\ \A j \in Job : state[j] = "returned" /\ conns[j] = 0
        /\ (\E c \in Client : state[c] \in {"waiting", "working", "cut"}) => http = "overdue" /\ exit = 1

(* The worker's nested transaction cannot exhaust the pool: a request that *)
(* waits for a connection gets one, and so does the worker.                *)
NobodyStarves == \A p \in Process : state[p] = "waiting" ~> state[p] # "waiting"

(* Once the context is cancelled the process exits, whatever the jobs are  *)
(* waiting for.                                                            *)
ShutdownEnds == ctx # "live" ~> exit # Null

(* A revoked key shows: while no poll can succeed, readiness turns to 503  *)
(* and stays there, before the first clean poll as after it.               *)
FailureShows ==
    <>[](stripe = "down" /\ ctx = "live") => <>[]~Ready
=============================================================================
