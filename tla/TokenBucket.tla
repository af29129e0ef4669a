---------------------------- MODULE TokenBucket ----------------------------
(***************************************************************************)
(* What a rate limiter promises: one bucket per key, full at first, that   *)
(* refills at Rate tokens a tick up to Burst.  A request passes exactly    *)
(* when the bucket of its key has a token, and nobody else's bucket is     *)
(* touched.  Over any n ticks a key thus passes at most Burst + n * Rate   *)
(* requests.                                                               *)
(***************************************************************************)
EXTENDS Naturals

CONSTANTS Key, Rate, Burst

VARIABLES
    tokens,     \* tokens left, per key
    verdict     \* the last key asked for, and whether it passed

vars == <<tokens, verdict>>

Init ==
    /\ tokens = [k \in Key |-> Burst]
    /\ verdict = <<>>

Pass(k) ==
    /\ tokens[k] > 0
    /\ tokens' = [tokens EXCEPT ![k] = @ - 1]
    /\ verdict' = <<k, TRUE>>

Refuse(k) ==
    /\ tokens[k] = 0
    /\ verdict' = <<k, FALSE>>
    /\ UNCHANGED tokens

Refill ==
    /\ tokens' = [k \in Key |-> IF tokens[k] + Rate < Burst THEN tokens[k] + Rate ELSE Burst]
    /\ UNCHANGED verdict

Next == Refill \/ \E k \in Key : Pass(k) \/ Refuse(k)

Spec == Init /\ [][Next]_vars
=============================================================================
