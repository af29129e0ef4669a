---------------------------- MODULE MCEventFeed ----------------------------
(* Instances of EventFeed for model checking.                              *)
EXTENDS EventFeed

(* Complete polls after outages of any length; the overlap covers MaxDelay.*)
CatchUp == [overlap |-> 1, webhook |-> FALSE, outages |-> TRUE, maxFaults |-> 0]

(* A poll in every interval, one of which may fail, and the webhook; the   *)
(* overlap covers a lost poll and MaxDelay.                                *)
Both == [overlap |-> 3, webhook |-> TRUE, outages |-> FALSE, maxFaults |-> 1]

(* An outage and a poll that fails.                                        *)
Interrupted == [overlap |-> 1, webhook |-> FALSE, outages |-> TRUE, maxFaults |-> 1]

Covered == {CatchUp, Both}
Exposed == {Interrupted}
=============================================================================
