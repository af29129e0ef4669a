----------------------------- MODULE EventFeed -----------------------------
(***************************************************************************)
(* How Stripe's events reach the inbox: the poller, which lists the events *)
(* created since a cursor and records them one by one, and the webhook.    *)
(*                                                                         *)
(* The cursor is max(stripe_created_at) over the inbox, read at every      *)
(* poll; the poller keeps no position of its own.  Stripe is external: an  *)
(* event enters its list up to MaxDelay after the time it is stamped with, *)
(* and the list is sorted newest first.  A poll sees the list as it was    *)
(* when the poll began, since the pages go back in time.                   *)
(*                                                                         *)
(* FeedInit, FeedNext and the like are not named Init and Next so that     *)
(* InboxProofs can extend both this module and Inbox.                      *)
(*                                                                         *)
(* An operator named Mutant... is the definition after it with a plausible *)
(* bug: no specification uses it, only the mutation runs put it in place.  *)
(***************************************************************************)
EXTENDS Integers, FiniteSets, FiniteSetsExt

CONSTANTS
    EventId,          \* Stripe's event ids
    InitialLookback,  \* STRIPE_EVENT_INITIAL_LOOKBACK
    Interval,         \* STRIPE_EVENT_POLL_INTERVAL
    MaxDelay,         \* how late an event may show up in Stripe's list
    Settings,         \* the deployments considered, see Setting
    MaxTime           \* bound: the clock

(* A deployment: STRIPE_EVENT_POLL_OVERLAP, whether the webhook route is   *)
(* connected, whether the process may be down for any time, and how many   *)
(* polls end with an error or a crash (a bound).                           *)
Setting == [overlap : Nat, webhook : BOOLEAN, outages : BOOLEAN, maxFaults : Nat]

ASSUME FeedAssumption ==
    /\ InitialLookback \in Nat /\ Interval \in Nat \ {0} /\ MaxDelay \in Nat
    /\ MaxTime \in Nat
    /\ Settings \subseteq Setting

VARIABLES
    config,   \* the deployment: chosen at boot, never changed
    now,
    log,      \* Stripe: event -> when it was created, when it can be listed
    inbox,    \* the ids in stripe_events
    polling,  \* whether a poll is under way
    page,     \* the listed events the poll has still to record
    polledAt, \* when the last poll began
    pollFaults

feedVars == <<config, now, log, inbox, polling, page, polledAt, pollFaults>>

FeedInit ==
    /\ config \in Settings
    /\ now = 0
    /\ log = [e \in {} |-> e]
    /\ inbox = {}
    /\ polling = FALSE /\ page = {} /\ polledAt = 0
    /\ pollFaults = 0

(* Time passes.  A process that is up begins a poll in every interval.     *)
Advance ==
    /\ now < MaxTime
    /\ config.outages \/ now < polledAt + Interval
    /\ now' = now + 1
    /\ UNCHANGED <<config, log, inbox, polling, page, polledAt, pollFaults>>

CreateEvent(e, delay) ==
    /\ e \notin DOMAIN log
    /\ now + delay <= MaxTime
    /\ log' = [x \in DOMAIN log \cup {e} |->
                  IF x = e THEN [created |-> now, visible |-> now + delay] ELSE log[x]]
    /\ UNCHANGED <<config, now, inbox, polling, page, polledAt, pollFaults>>

(* sinceFor, of LatestStripeEventCreatedAt.                                *)
Cursor == Max({log[e].created : e \in inbox})
MutantSince == IF inbox = {} THEN now - InitialLookback ELSE Cursor + 1
Since == IF inbox = {} THEN now - InitialLookback ELSE Cursor - config.overlap

(* poll: read the cursor and list.                                         *)
BeginPoll ==
    /\ ~polling
    /\ polling' = TRUE
    /\ page' = {e \in DOMAIN log : log[e].visible <= now /\ log[e].created >= Since}
    /\ polledAt' = now
    /\ UNCHANGED <<config, now, log, inbox, pollFaults>>

(* One iteration of its loop; recording a known event changes nothing.     *)
Record ==
    /\ polling
    /\ \E e \in page :
        /\ \A f \in page : log[f].created <= log[e].created
        /\ inbox' = inbox \cup {e}
        /\ page' = page \ {e}
    /\ UNCHANGED <<config, now, log, polling, polledAt, pollFaults>>

EndPoll ==
    /\ polling
    /\ page = {}
    /\ polling' = FALSE
    /\ UNCHANGED <<config, now, log, inbox, page, polledAt, pollFaults>>

(* The next page cannot be fetched, an insert fails, or the process dies.  *)
FailPoll ==
    /\ polling
    /\ pollFaults < config.maxFaults /\ pollFaults' = pollFaults + 1
    /\ polling' = FALSE
    /\ page' = {}
    /\ UNCHANGED <<config, now, log, inbox, polledAt>>

(* HandleWebhook: Stripe pushes an event, again if it likes, at any time.  *)
HandleWebhook(e) ==
    /\ config.webhook
    /\ e \in DOMAIN log
    /\ inbox' = inbox \cup {e}
    /\ UNCHANGED <<config, now, log, polling, page, polledAt, pollFaults>>

FeedNext ==
    \/ Advance
    \/ \E e \in EventId, delay \in 0..MaxDelay : CreateEvent(e, delay)
    \/ BeginPoll \/ Record \/ EndPoll \/ FailPoll
    \/ \E e \in EventId : HandleWebhook(e)

(* The clock runs and the poller's goroutine with it; nothing is assumed   *)
(* of the webhook.                                                         *)
FeedSpec ==
    /\ FeedInit /\ [][FeedNext]_feedVars
    /\ WF_feedVars(Advance)
    /\ WF_feedVars(BeginPoll) /\ WF_feedVars(Record \/ EndPoll)

----------------------------------------------------------------------------
(* The feed has its types: only events Stripe created are recorded, and a  *)
(* poll that is over, finished or failed, has nothing left to record.      *)
FeedTypeOK ==
    /\ config \in Settings
    /\ now \in 0..MaxTime
    /\ DOMAIN log \subseteq EventId
    /\ log \in [DOMAIN log -> [created : 0..MaxTime, visible : 0..MaxTime]]
    /\ inbox \subseteq DOMAIN log
    /\ page \subseteq DOMAIN log /\ (page # {} => polling)
    /\ polledAt \in 0..now /\ pollFaults \in 0..config.maxFaults

(* "nothing is lost by waiting, because the cursor is derived from what    *)
(* was actually stored" (Poller.Run): every event Stripe emits is recorded *)
(* in the end, although it may enter the list after a younger one.         *)
EveryEventRecorded == \A e \in EventId : (e \in DOMAIN log) ~> (e \in inbox)

(* The cursor never steps over an event: between polls, whatever is not    *)
(* recorded yet lies in the window the next poll will list, once visible.  *)
NothingSteppedOver == ~polling => \A e \in DOMAIN log \ inbox : log[e].created >= Since
=============================================================================
