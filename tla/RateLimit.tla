----------------------------- MODULE RateLimit -----------------------------
(***************************************************************************)
(* The way of a request to its handler: the limiter by address, then, on   *)
(* the routes that need a caller, authentication, the limiter by subject   *)
(* and the vendor group, then the page bounds of a listing.                *)
(*                                                                         *)
(* A Limiter is a map from keys to buckets, under one mutex: Allow is one  *)
(* step.  The map is swept only when a new key arrives.  Time is counted   *)
(* in ticks; a bucket's age stops at Idle + 1, past which only "longer     *)
(* than Idle" matters.  golang.org/x/time/rate refills lazily, which comes *)
(* to the same as refilling at every tick.                                 *)
(*                                                                         *)
(* Verification of a token's signature is external: a token is valid, with *)
(* a subject and its groups, or not.                                       *)
(*                                                                         *)
(* An operator named Mutant... is the definition after it with a plausible *)
(* bug: no specification uses it, only the mutation runs put it in place.  *)
(***************************************************************************)
EXTENDS Integers

CONSTANTS
    Ip, Subject,            \* the keys of the two limiters
    Vendors,                \* the subjects whose tokens carry the vendor group
    PerIp, PerSubject,      \* tokens a tick; 0 turns a limiter off
    Burst, Idle,            \* shared by both limiters
    MaxListLimit,
    Word,                   \* 2^32, or less: where int32 wraps around
    Limits, Offsets         \* bound: the values of ?limit= and of ?offset= in a request

(* Sound eviction needs a bucket idle for longer than Idle to be full.     *)
ASSUME RateLimitAssumption ==
    /\ PerIp \in Nat /\ PerSubject \in Nat /\ Burst \in Nat \ {0} /\ Idle \in Nat
    /\ \A rate \in {PerIp, PerSubject} : rate = 0 \/ rate * (Idle + 1) >= Burst
    /\ Vendors \subseteq Subject
    /\ MaxListLimit \in Nat /\ Word \in Nat /\ 2 * MaxListLimit < Word
    /\ Limits \subseteq Nat /\ Offsets \subseteq Nat

Limiter == {"ip", "subject"}
Keys == [ip |-> Ip, subject |-> Subject]
Rate == [ip |-> PerIp, subject |-> PerSubject]

VARIABLES
    buckets,    \* per limiter: key -> [tokens, age]
    verdict,    \* per limiter: the last key it was asked about, and its answer
    answer      \* the last response: status, and for a listing its LIMIT and OFFSET

vars == <<buckets, verdict, answer>>

Enabled(l) == Rate[l] > 0 /\ Burst > 0

----------------------------------------------------------------------------
(* The limiter.                                                            *)

evictLocked(map) == [k \in {j \in DOMAIN map : ~(map[j].age > Idle)} |-> map[k]]

(* The map with key's bucket in it.                                        *)
MutantWithBucket(map, key) ==
    LET swept == evictLocked(map)
    IN  [k \in DOMAIN swept \cup {key} |-> IF k = key THEN [tokens |-> Burst, age |-> 0] ELSE swept[k]]
WithBucket(map, key) ==
    IF key \in DOMAIN map
      THEN map
      ELSE LET swept == evictLocked(map)
           IN  [k \in DOMAIN swept \cup {key} |->
                    IF k = key THEN [tokens |-> Burst, age |-> 0] ELSE swept[k]]

(* Whether Allow says yes, and the map it leaves.                          *)
Allows(l, key) == Enabled(l) => WithBucket(buckets[l], key)[key].tokens > 0

Charged(l, key) ==
    LET b == WithBucket(buckets[l], key)[key]
    IN  [WithBucket(buckets[l], key) EXCEPT ![key] =
            [tokens |-> IF b.tokens > 0 THEN b.tokens - 1 ELSE b.tokens, age |-> 0]]

(* The request asks the limiters of DOMAIN key, each for its key.          *)
Charge(key) ==
    LET asked == {l \in DOMAIN key : Enabled(l)}
    IN  /\ buckets' = [l \in Limiter |-> IF l \in asked THEN Charged(l, key[l]) ELSE buckets[l]]
        /\ verdict' = [l \in Limiter |->
                IF l \in asked THEN <<key[l], Allows(l, key[l])>> ELSE verdict[l]]

----------------------------------------------------------------------------
(* The handlers.                                                           *)

(* int32(n): two's complement.                                             *)
Int32(n) == LET m == n % Word IN IF 2 * m >= Word THEN m - Word ELSE m

(* ?limit=n&offset=m: the LIMIT and the OFFSET of the query.               *)
MutantPagination(n, m) ==
    [limit |-> IF n < Word /\ n > MaxListLimit THEN MaxListLimit ELSE n, offset |-> Int32(m)]
parsePagination(n, m) ==
    [limit |-> IF Int32(n) > MaxListLimit THEN MaxListLimit ELSE Int32(n), offset |-> Int32(m)]

(* An answer without rows.                                                 *)
Bare(status) == [status |-> status, rows |-> 0, skip |-> 0]

(* A limit of zero is a 400; PostgreSQL refuses a negative LIMIT or        *)
(* OFFSET: 500.                                                            *)
Listing(n, m) ==
    LET page == parsePagination(n, m)
    IN  IF n = 0 THEN Bare(400)
        ELSE IF page.limit < 0 \/ page.offset < 0 THEN Bare(500)
        ELSE [status |-> 200, rows |-> page.limit, skip |-> page.offset]

(* POST /products, behind RequireGroup.                                    *)
CreateProduct(subject) == Bare(IF subject \in Vendors THEN 201 ELSE 403)

----------------------------------------------------------------------------
(* Requests.                                                               *)

TooManyFromIp(ip) ==
    /\ ~Allows("ip", ip)
    /\ Charge([ip |-> ip])
    /\ answer' = Bare(429)

(* GET /products, and every other public route.                            *)
Public(ip, n, m) ==
    /\ Allows("ip", ip)
    /\ Charge([ip |-> ip])
    /\ answer' = Listing(n, m)

(* No bearer token, or one that does not verify.                           *)
Unauthorized(ip) ==
    /\ Allows("ip", ip)
    /\ Charge([ip |-> ip])
    /\ answer' = Bare(401)

TooManyFromSubject(ip, subject) ==
    /\ Allows("ip", ip) /\ ~Allows("subject", subject)
    /\ Charge([ip |-> ip, subject |-> subject])
    /\ answer' = Bare(429)

(* A verified caller reaches the handler: GET /orders, or POST /products.  *)
Protected(ip, subject, n, m) ==
    /\ Allows("ip", ip) /\ Allows("subject", subject)
    /\ Charge([ip |-> ip, subject |-> subject])
    /\ answer' \in {Listing(n, m), CreateProduct(subject)}

Tick ==
    /\ buckets' = [l \in Limiter |-> [k \in DOMAIN buckets[l] |->
            LET b == buckets[l][k]
            IN  [tokens |-> IF b.tokens + Rate[l] < Burst THEN b.tokens + Rate[l] ELSE Burst,
                 age |-> IF b.age > Idle THEN b.age ELSE b.age + 1]]]
    /\ UNCHANGED <<verdict, answer>>

Init ==
    /\ buckets = [l \in Limiter |-> [k \in {} |-> k]]
    /\ verdict = [l \in Limiter |-> <<>>]
    /\ answer = Bare(0)

Next ==
    \/ Tick
    \/ \E ip \in Ip :
        \/ TooManyFromIp(ip)
        \/ Unauthorized(ip)
        \/ \E n \in Limits, m \in Offsets : Public(ip, n, m)
        \/ \E subject \in Subject :
            \/ TooManyFromSubject(ip, subject)
            \/ \E n \in Limits, m \in Offsets : Protected(ip, subject, n, m)

Spec == Init /\ [][Next]_vars

----------------------------------------------------------------------------
(* Types.  Whatever the query says, a listing returns at most a page and   *)
(* skips no negative number of rows, also where int32 wraps around (where  *)
(* it may fail, return less, or be the wrong page).                        *)
TypeOK ==
    /\ \A l \in Limiter :
        /\ DOMAIN buckets[l] \subseteq Keys[l]
        /\ buckets[l] \in [DOMAIN buckets[l] -> [tokens : 0..Burst, age : 0..(Idle + 1)]]
        /\ verdict[l] \in {<<>>} \cup (Keys[l] \X BOOLEAN)
    /\ answer.status \in {0, 200, 201, 400, 401, 403, 429, 500}
    /\ answer.rows \in 0..MaxListLimit
    /\ answer.skip \in Nat /\ 2 * answer.skip < Word

(* A key without a bucket has a full one coming.                           *)
Tokens(l) ==
    [k \in Keys[l] |-> IF k \in DOMAIN buckets[l] THEN buckets[l][k].tokens ELSE Burst]

IpBudget == INSTANCE TokenBucket
    WITH Key <- Ip, Rate <- PerIp, tokens <- Tokens("ip"), verdict <- verdict["ip"]
SubjectBudget == INSTANCE TokenBucket
    WITH Key <- Subject, Rate <- PerSubject, tokens <- Tokens("subject"), verdict <- verdict["subject"]

(* The limiter by address is a token bucket per address, the one by        *)
(* subject a token bucket per caller: evicting idle buckets, at whatever   *)
(* moment a new key arrives, neither gives a key budget it has used nor    *)
(* takes any from it, a caller has one budget however many addresses the   *)
(* requests come from, and requests refused before authentication do not   *)
(* draw on it.                                                             *)
ImplementsTokenBuckets == IpBudget!Spec /\ SubjectBudget!Spec
=============================================================================
