-------------------------- MODULE RateLimitProofs --------------------------
(***************************************************************************)
(* Proofs about RateLimit for every set of addresses and subjects, every   *)
(* rate, burst and idle time that satisfy RateLimitAssumption, every page  *)
(* size and word: the limiters implement TokenBucket, and a listing never  *)
(* returns more than a page.                                               *)
(***************************************************************************)
EXTENDS RateLimit, TLAPS

(* A limiter that is turned off keeps no buckets; in the map of one that   *)
(* is on, a bucket not asked for in a ticks has got a * Rate tokens since, *)
(* or is full.                                                             *)
IdleRefills ==
    \A l \in Limiter : \A k \in DOMAIN buckets[l] :
        /\ Enabled(l)
        /\ LET b == buckets[l][k]
           IN  b.tokens = Burst \/ b.tokens >= b.age * Rate[l]

IInv == TypeOK /\ IdleRefills

----------------------------------------------------------------------------
(* The tables of the two limiters.                                         *)
LEMMA Tables ==
    /\ Keys["ip"] = Ip /\ Keys["subject"] = Subject
    /\ Rate["ip"] = PerIp /\ Rate["subject"] = PerSubject
    /\ \A l \in Limiter : Rate[l] \in Nat /\ (Rate[l] = 0 \/ Rate[l] * (Idle + 1) >= Burst)
  BY RateLimitAssumption DEF Keys, Rate, Limiter

(* One more tick, one more refill.                                         *)
LEMMA Refills == \A a, r \in Nat : a * r \in Nat /\ (a + 1) * r = a * r + r
  OBVIOUS

(* A bucket the sweep removes is full: nothing is given away.              *)
LEMMA EvictedAreFull ==
    ASSUME IInv, NEW l \in Limiter, NEW k \in DOMAIN buckets[l], buckets[l][k].age > Idle
    PROVE  buckets[l][k].tokens = Burst
  <1>1. buckets[l][k] \in [tokens : 0..Burst, age : 0..(Idle + 1)]
    BY DEF IInv, TypeOK
  <1>2. buckets[l][k].age = Idle + 1
    BY <1>1, RateLimitAssumption
  <1>3. (Idle + 1) * Rate[l] >= Burst
    BY Tables, RateLimitAssumption DEF IInv, IdleRefills, Enabled
  <1>4. buckets[l][k].tokens = Burst \/ buckets[l][k].tokens >= (Idle + 1) * Rate[l]
    BY <1>2 DEF IInv, IdleRefills
  <1> DEFINE due == (Idle + 1) * Rate[l]
  <1>5. due \in Nat /\ due >= Burst
    BY <1>3, Tables, Refills, RateLimitAssumption
  <1>6. buckets[l][k].tokens = Burst \/ buckets[l][k].tokens >= due
    BY <1>4
  <1>7. Burst \in Nat
    BY RateLimitAssumption
  <1> HIDE DEF due
  <1> QED
    BY <1>1, <1>5, <1>6, <1>7

(* The map WithBucket leaves stands for the same token counts.             *)
LEMMA WithBucketKeepsTokens ==
    ASSUME IInv, NEW l \in Limiter, Enabled(l), NEW key \in Keys[l]
    PROVE  LET map == WithBucket(buckets[l], key)
           IN  /\ key \in DOMAIN map /\ DOMAIN map \subseteq Keys[l]
               /\ map \in [DOMAIN map -> [tokens : 0..Burst, age : 0..(Idle + 1)]]
               /\ \A k \in DOMAIN map : map[k].tokens = Tokens(l)[k]
               /\ \A k \in Keys[l] \ DOMAIN map : Tokens(l)[k] = Burst
               /\ \A k \in DOMAIN map : map[k].tokens = Burst \/ map[k].tokens >= map[k].age * Rate[l]
  <1> DEFINE map == WithBucket(buckets[l], key)
  <1>1. /\ DOMAIN buckets[l] \subseteq Keys[l]
        /\ \A k \in DOMAIN buckets[l] : buckets[l][k] \in [tokens : 0..Burst, age : 0..(Idle + 1)]
        /\ buckets[l] \in [DOMAIN buckets[l] -> [tokens : 0..Burst, age : 0..(Idle + 1)]]
    BY DEF IInv, TypeOK
  <1>2. \A k \in DOMAIN buckets[l] : /\ Tokens(l)[k] = buckets[l][k].tokens
                                     /\ \/ buckets[l][k].tokens = Burst
                                        \/ buckets[l][k].tokens >= buckets[l][k].age * Rate[l]
    BY <1>1 DEF Tokens, IInv, IdleRefills
  <1>3. \A k \in Keys[l] \ DOMAIN buckets[l] : Tokens(l)[k] = Burst
    BY DEF Tokens
  <1>4. CASE key \in DOMAIN buckets[l]
    BY <1>1, <1>2, <1>3, <1>4 DEF WithBucket
  <1>5. CASE key \notin DOMAIN buckets[l]
    <2> DEFINE kept == {k \in DOMAIN buckets[l] : ~(buckets[l][k].age > Idle)}
    <2>1. /\ DOMAIN map = kept \cup {key}
          /\ map[key] = [tokens |-> Burst, age |-> 0]
          /\ \A k \in kept : map[k] = buckets[l][k]
          /\ map \in [kept \cup {key} -> [tokens : 0..Burst, age : 0..(Idle + 1)]]
      BY <1>1, <1>5, RateLimitAssumption DEF WithBucket, evictLocked
    <2>2. \A k \in DOMAIN buckets[l] \ kept : Tokens(l)[k] = Burst
      BY <1>2, EvictedAreFull
    <2> HIDE DEF map, kept
    <2>3. kept \subseteq DOMAIN buckets[l]
      BY DEF kept
    <2>4. key \in DOMAIN map /\ DOMAIN map \subseteq Keys[l]
      BY <1>1, <2>1, <2>3
    <2>5. \A k \in DOMAIN map : map[k].tokens = Tokens(l)[k]
      BY <1>2, <1>3, <1>5, <2>1, <2>3
    <2>6. \A k \in Keys[l] \ DOMAIN map : Tokens(l)[k] = Burst
      BY <1>3, <2>1, <2>2
    <2>7. \A k \in DOMAIN map : map[k].tokens = Burst \/ map[k].tokens >= map[k].age * Rate[l]
      BY <1>2, <2>1, <2>3
    <2> QED
      BY <2>1, <2>4, <2>5, <2>6, <2>7 DEF map
  <1> QED
    BY <1>4, <1>5

(* Allow, in terms of the token counts: it says yes when there is a token, *)
(* takes it, and touches no other key's count.                             *)
LEMMA ChargedTokens ==
    ASSUME IInv, NEW l \in Limiter, Enabled(l), NEW key \in Keys[l], buckets'[l] = Charged(l, key)
    PROVE  /\ Allows(l, key) <=> Tokens(l)[key] > 0
           /\ Tokens(l)[key] \in 0..Burst
           /\ Tokens(l)' = IF Tokens(l)[key] > 0 THEN [Tokens(l) EXCEPT ![key] = @ - 1] ELSE Tokens(l)
           /\ DOMAIN buckets'[l] \subseteq Keys[l]
           /\ buckets'[l] \in [DOMAIN buckets'[l] -> [tokens : 0..Burst, age : 0..(Idle + 1)]]
           /\ \A k \in DOMAIN buckets'[l] :
                buckets'[l][k].tokens = Burst \/ buckets'[l][k].tokens >= buckets'[l][k].age * Rate[l]
  <1> DEFINE map == WithBucket(buckets[l], key)
             left == IF map[key].tokens > 0 THEN map[key].tokens - 1 ELSE map[key].tokens
  <1>1. /\ key \in DOMAIN map /\ DOMAIN map \subseteq Keys[l]
        /\ map \in [DOMAIN map -> [tokens : 0..Burst, age : 0..(Idle + 1)]]
        /\ \A k \in DOMAIN map : map[k].tokens = Tokens(l)[k]
        /\ \A k \in Keys[l] \ DOMAIN map : Tokens(l)[k] = Burst
        /\ \A k \in DOMAIN map : map[k].tokens = Burst \/ map[k].tokens >= map[k].age * Rate[l]
    BY WithBucketKeepsTokens
  <1>2. buckets'[l] = [map EXCEPT ![key] = [tokens |-> left, age |-> 0]]
    BY DEF Charged
  <1>3. Allows(l, key) <=> map[key].tokens > 0
    BY DEF Allows
  <1> HIDE DEF map
  <1>4. left \in 0..Burst /\ map[key].tokens \in 0..Burst
    BY <1>1, RateLimitAssumption
  <1>5. /\ DOMAIN buckets'[l] = DOMAIN map
        /\ buckets'[l][key] = [tokens |-> left, age |-> 0]
        /\ \A k \in DOMAIN map \ {key} : buckets'[l][k] = map[k]
        /\ buckets'[l] \in [DOMAIN map -> [tokens : 0..Burst, age : 0..(Idle + 1)]]
    BY <1>1, <1>2, <1>4, RateLimitAssumption
  <1>6. \A k \in DOMAIN map :
          buckets'[l][k].tokens = Burst \/ buckets'[l][k].tokens >= buckets'[l][k].age * Rate[l]
    <2>1. left >= 0 * Rate[l]
      BY <1>4, Tables
    <2> QED
      BY <1>1, <1>5, <2>1
  <1>7. Tokens(l)' = [k \in Keys[l] |-> IF k = key THEN left ELSE Tokens(l)[k]]
    <2>1. Tokens(l)' = [k \in Keys[l] |-> IF k \in DOMAIN map THEN buckets'[l][k].tokens ELSE Burst]
      BY <1>5 DEF Tokens
    <2> QED
      BY <2>1, <1>1, <1>5
  <1>8. Tokens(l) = [k \in Keys[l] |-> Tokens(l)[k]]
    BY DEF Tokens
  <1>9. Tokens(l)' = IF Tokens(l)[key] > 0 THEN [Tokens(l) EXCEPT ![key] = @ - 1] ELSE Tokens(l)
    BY <1>1, <1>7, <1>8
  <1> QED
    BY <1>1, <1>3, <1>4, <1>5, <1>6, <1>9

----------------------------------------------------------------------------
(* What a step does to the counts of one limiter: nothing, a refill, or a  *)
(* verdict about one key.                                                  *)
Verdict(l, k) ==
    \/ /\ Tokens(l)[k] > 0
       /\ Tokens(l)' = [Tokens(l) EXCEPT ![k] = @ - 1]
       /\ verdict'[l] = <<k, TRUE>>
    \/ /\ Tokens(l)[k] = 0
       /\ verdict'[l] = <<k, FALSE>>
       /\ Tokens(l)' = Tokens(l)

Refilled(l) ==
    /\ Tokens(l)' = [k \in Keys[l] |->
            IF Tokens(l)[k] + Rate[l] < Burst THEN Tokens(l)[k] + Rate[l] ELSE Burst]
    /\ verdict'[l] = verdict[l]

BucketStep(l) ==
    \/ Tokens(l)' = Tokens(l) /\ verdict'[l] = verdict[l]
    \/ Refilled(l)
    \/ \E k \in Keys[l] : Verdict(l, k)

(* The part of the inductive invariant about one limiter.                  *)
LimiterInv(l) ==
    /\ DOMAIN buckets[l] \subseteq Keys[l]
    /\ buckets[l] \in [DOMAIN buckets[l] -> [tokens : 0..Burst, age : 0..(Idle + 1)]]
    /\ verdict[l] \in {<<>>} \cup (Keys[l] \X BOOLEAN)
    /\ \A k \in DOMAIN buckets[l] :
        /\ Enabled(l)
        /\ buckets[l][k].tokens = Burst \/ buckets[l][k].tokens >= buckets[l][k].age * Rate[l]

AnswerOK ==
    /\ answer.status \in {0, 200, 201, 400, 401, 403, 429, 500}
    /\ answer.rows \in 0..MaxListLimit
    /\ answer.skip \in Nat /\ 2 * answer.skip < Word

(* The inductive invariant, limiter by limiter.                            *)
LEMMA ByLimiter == IInv <=> (\A l \in Limiter : LimiterInv(l)) /\ AnswerOK
  BY DEF IInv, TypeOK, IdleRefills, LimiterInv, AnswerOK

(* The middlewares of a request: each limiter asked gives its verdict, the *)
(* others do nothing.                                                      *)
LEMMA ChargeStep ==
    ASSUME IInv, NEW key, DOMAIN key \subseteq Limiter, \A l \in DOMAIN key : key[l] \in Keys[l],
           Charge(key), NEW l \in Limiter
    PROVE  LimiterInv(l)' /\ BucketStep(l)
  <1>0. LimiterInv(l)
    BY ByLimiter
  <1>1. CASE l \in DOMAIN key /\ Enabled(l)
    <2>1. buckets'[l] = Charged(l, key[l]) /\ verdict'[l] = <<key[l], Allows(l, key[l])>>
      BY <1>1 DEF Charge
    <2>2. key[l] \in Keys[l]
      BY <1>1
    <2>3. Enabled(l)'
      BY <1>1 DEF Enabled
    <2>4. Allows(l, key[l]) \in BOOLEAN
      BY DEF Allows
    <2>5. LimiterInv(l)'
      BY <1>1, <2>1, <2>2, <2>3, <2>4, ChargedTokens DEF LimiterInv
    <2>6. Verdict(l, key[l])
      <3>1. Tokens(l)[key[l]] > 0 \/ Tokens(l)[key[l]] = 0
        BY <1>1, <2>1, <2>2, ChargedTokens, RateLimitAssumption
      <3>2. CASE Tokens(l)[key[l]] > 0
        BY <1>1, <2>1, <2>2, <2>4, <3>2, ChargedTokens DEF Verdict
      <3>3. CASE Tokens(l)[key[l]] = 0
        <4>1. ~(Tokens(l)[key[l]] > 0)
          BY <3>3
        <4> QED
          BY <1>1, <2>1, <2>2, <2>4, <3>3, <4>1, ChargedTokens DEF Verdict
      <3> QED
        BY <3>1, <3>2, <3>3
    <2> QED
      BY <2>2, <2>5, <2>6 DEF BucketStep
  <1>2. CASE ~(l \in DOMAIN key /\ Enabled(l))
    <2>1. buckets'[l] = buckets[l] /\ verdict'[l] = verdict[l]
      BY <1>2 DEF Charge
    <2> QED
      BY <1>0, <2>1 DEF LimiterInv, BucketStep, Tokens, Enabled
  <1> QED
    BY <1>1, <1>2

(* A tick refills every bucket; a key without one stays full.              *)
LEMMA TickStep ==
    ASSUME IInv, Tick, NEW l \in Limiter
    PROVE  LimiterInv(l)' /\ BucketStep(l)
  <1> DEFINE more(n) == IF n + Rate[l] < Burst THEN n + Rate[l] ELSE Burst
             older(n) == IF n > Idle THEN n ELSE n + 1
  <1>1. LimiterInv(l) /\ Rate[l] \in Nat
    BY ByLimiter, Tables
  <1>2. /\ DOMAIN buckets'[l] = DOMAIN buckets[l]
        /\ \A k \in DOMAIN buckets[l] :
             buckets'[l][k] = [tokens |-> more(buckets[l][k].tokens), age |-> older(buckets[l][k].age)]
        /\ buckets'[l] = [k \in DOMAIN buckets[l] |-> buckets'[l][k]]
        /\ verdict'[l] = verdict[l]
    BY DEF Tick
  <1>3. \A k \in DOMAIN buckets[l] : buckets[l][k].tokens \in 0..Burst /\ buckets[l][k].age \in 0..(Idle + 1)
    BY <1>1 DEF LimiterInv
  <1>4. \A n \in 0..Burst : more(n) \in 0..Burst
    BY <1>1, RateLimitAssumption
  <1>5. \A n \in 0..(Idle + 1) : older(n) \in 0..(Idle + 1)
    BY RateLimitAssumption
  <1>6. more(Burst) = Burst
    BY <1>1, RateLimitAssumption
  <1> HIDE DEF more, older
  <1>7. \A k \in DOMAIN buckets[l] :
           /\ buckets'[l][k].tokens = more(buckets[l][k].tokens)
           /\ buckets'[l][k].age = older(buckets[l][k].age)
           /\ buckets'[l][k] \in [tokens : 0..Burst, age : 0..(Idle + 1)]
    <2> TAKE k \in DOMAIN buckets[l]
    <2> DEFINE n == more(buckets[l][k].tokens)
               a == older(buckets[l][k].age)
    <2>1. n \in 0..Burst /\ a \in 0..(Idle + 1)
      BY <1>3, <1>4, <1>5
    <2>2. buckets'[l][k] = [tokens |-> n, age |-> a]
      BY <1>2
    <2> HIDE DEF n, a
    <2>3. /\ buckets'[l][k].tokens = n
          /\ buckets'[l][k].age = a
          /\ buckets'[l][k] \in [tokens : 0..Burst, age : 0..(Idle + 1)]
      BY <2>1, <2>2
    <2> QED
      BY <2>3 DEF n, a
  <1>8. \A k \in DOMAIN buckets[l] :
          buckets'[l][k].tokens = Burst \/ buckets'[l][k].tokens >= buckets'[l][k].age * Rate[l]
    <2> TAKE k \in DOMAIN buckets[l]
    <2> DEFINE n == buckets[l][k].tokens
               a == buckets[l][k].age
    <2>1. n \in 0..Burst /\ a \in 0..(Idle + 1) /\ n \in Nat /\ a \in Nat
      BY <1>3, RateLimitAssumption
    <2>2. n = Burst \/ n >= a * Rate[l]
      BY <1>1 DEF LimiterInv
    <2>3. buckets'[l][k].tokens = more(n) /\ buckets'[l][k].age = older(a)
      BY <1>7
    <2>4. CASE n + Rate[l] < Burst
      <3>1. n >= a * Rate[l] /\ a * Rate[l] \in Nat /\ (a + 1) * Rate[l] = a * Rate[l] + Rate[l]
        BY <1>1, <2>1, <2>2, <2>4, Refills, RateLimitAssumption
      <3>2. n + Rate[l] >= (a + 1) * Rate[l] /\ n + Rate[l] >= a * Rate[l]
        BY <1>1, <2>1, <3>1
      <3> QED
        BY <2>3, <2>4, <3>2 DEF more, older
    <2>5. CASE ~(n + Rate[l] < Burst)
      BY <2>3, <2>5 DEF more
    <2> QED
      BY <2>4, <2>5
  <1>9. LimiterInv(l)'
    <2>1. buckets'[l] \in [DOMAIN buckets'[l] -> [tokens : 0..Burst, age : 0..(Idle + 1)]]
      BY <1>2, <1>7
    <2>2. \A k \in DOMAIN buckets'[l] : Enabled(l)'
      BY <1>1, <1>2 DEF LimiterInv, Enabled
    <2> QED
      BY <1>1, <1>2, <1>8, <2>1, <2>2 DEF LimiterInv
  <1>10. Refilled(l)
    <2>1. Tokens(l)' = [k \in Keys[l] |-> IF k \in DOMAIN buckets[l] THEN more(buckets[l][k].tokens) ELSE Burst]
      <3>1. Tokens(l)' = [k \in Keys[l] |-> IF k \in DOMAIN buckets[l] THEN buckets'[l][k].tokens ELSE Burst]
        BY <1>2 DEF Tokens
      <3> QED
        BY <1>7, <3>1
    <2>2. \A k \in Keys[l] : more(Tokens(l)[k]) =
            IF k \in DOMAIN buckets[l] THEN more(buckets[l][k].tokens) ELSE Burst
      BY <1>6 DEF Tokens
    <2>3. Tokens(l)' = [k \in Keys[l] |-> more(Tokens(l)[k])]
      BY <2>1, <2>2
    <2> QED
      BY <1>2, <2>3 DEF Refilled, more
  <1> QED
    BY <1>9, <1>10 DEF BucketStep

(* A listing, wherever int32 wraps, returns at most a page and skips no    *)
(* negative number of rows.                                                *)
LEMMA ListingOK ==
    ASSUME NEW n \in Limits, NEW m \in Offsets
    PROVE  /\ Listing(n, m).status \in {200, 400, 500}
           /\ Listing(n, m).rows \in 0..MaxListLimit
           /\ Listing(n, m).skip \in Nat /\ 2 * Listing(n, m).skip < Word
  <1>1. n \in Nat /\ m \in Nat /\ Word \in Nat /\ Word > 0 /\ MaxListLimit \in Nat
    BY RateLimitAssumption
  <1>2. n % Word \in 0..(Word - 1) /\ m % Word \in 0..(Word - 1)
    BY <1>1
  <1>3. Int32(n) \in Int /\ Int32(m) \in Int /\ 2 * Int32(m) < Word
    BY <1>1, <1>2 DEF Int32
  <1> DEFINE page == parsePagination(n, m)
  <1>4. /\ page.limit \in Int /\ page.limit <= MaxListLimit
        /\ page.offset \in Int /\ 2 * page.offset < Word
    BY <1>1, <1>3 DEF parsePagination
  <1> HIDE DEF page
  <1> QED
    BY <1>1, <1>4 DEF Listing, Bare, page

(* The initial state: no buckets, no verdicts.                             *)
LEMMA InitInv == Init => IInv
  <1> SUFFICES ASSUME Init PROVE (\A l \in Limiter : LimiterInv(l)) /\ AnswerOK
    BY ByLimiter
  <1> QED
    BY RateLimitAssumption DEF Init, LimiterInv, AnswerOK, Bare

(* Every step keeps the inductive invariant and does to each limiter what  *)
(* a token bucket may do.                                                  *)
LEMMA Step == IInv /\ [Next]_vars => IInv' /\ \A l \in Limiter : BucketStep(l)
  <1> SUFFICES ASSUME IInv, [Next]_vars
               PROVE  AnswerOK' /\ \A l \in Limiter : LimiterInv(l)' /\ BucketStep(l)
    <2>1. IInv' <=> (\A l \in Limiter : LimiterInv(l)') /\ AnswerOK'
      BY DEF IInv, TypeOK, IdleRefills, LimiterInv, AnswerOK
    <2> QED
      BY <2>1
  <1>0. AnswerOK /\ \A l \in Limiter : LimiterInv(l)
    BY ByLimiter
  <1>1. ASSUME NEW ip \in Ip, Charge([ip |-> ip])
        PROVE  \A l \in Limiter : LimiterInv(l)' /\ BucketStep(l)
    <2>1. DOMAIN [ip |-> ip] = {"ip"} /\ [ip |-> ip]["ip"] = ip
      OBVIOUS
    <2> QED
      BY <1>1, <2>1, ChargeStep, Tables DEF Limiter
  <1>2. ASSUME NEW ip \in Ip, NEW subject \in Subject, Charge([ip |-> ip, subject |-> subject])
        PROVE  \A l \in Limiter : LimiterInv(l)' /\ BucketStep(l)
    <2> DEFINE key == [ip |-> ip, subject |-> subject]
    <2>1. DOMAIN key = {"ip", "subject"} /\ key["ip"] = ip /\ key["subject"] = subject
      OBVIOUS
    <2>2. \A l \in DOMAIN key : key[l] \in Keys[l]
      BY <2>1, Tables
    <2> HIDE DEF key
    <2> QED
      BY <1>2, <2>1, <2>2, ChargeStep DEF Limiter, key
  <1>3. CASE Tick
    BY <1>0, <1>3, TickStep DEF Tick, AnswerOK
  <1>4. ASSUME NEW ip \in Ip, TooManyFromIp(ip) \/ Unauthorized(ip)
        PROVE  AnswerOK' /\ \A l \in Limiter : LimiterInv(l)' /\ BucketStep(l)
    BY <1>1, <1>4, RateLimitAssumption DEF TooManyFromIp, Unauthorized, AnswerOK, Bare
  <1>5. ASSUME NEW ip \in Ip, NEW n \in Limits, NEW m \in Offsets, Public(ip, n, m)
        PROVE  AnswerOK' /\ \A l \in Limiter : LimiterInv(l)' /\ BucketStep(l)
    BY <1>1, <1>5, ListingOK DEF Public, AnswerOK
  <1>6. ASSUME NEW ip \in Ip, NEW subject \in Subject, TooManyFromSubject(ip, subject)
        PROVE  AnswerOK' /\ \A l \in Limiter : LimiterInv(l)' /\ BucketStep(l)
    BY <1>2, <1>6, RateLimitAssumption DEF TooManyFromSubject, AnswerOK, Bare
  <1>7. ASSUME NEW ip \in Ip, NEW subject \in Subject, NEW n \in Limits, NEW m \in Offsets,
               Protected(ip, subject, n, m)
        PROVE  AnswerOK' /\ \A l \in Limiter : LimiterInv(l)' /\ BucketStep(l)
    <2>1. \A l \in Limiter : LimiterInv(l)' /\ BucketStep(l)
      BY <1>2, <1>7 DEF Protected
    <2>2. answer' \in {Listing(n, m), CreateProduct(subject)}
      BY <1>7 DEF Protected
    <2>3. AnswerOK'
      BY <2>2, ListingOK, RateLimitAssumption DEF AnswerOK, CreateProduct, Bare
    <2> QED
      BY <2>1, <2>3
  <1>8. CASE UNCHANGED vars
    BY <1>0, <1>8 DEF vars, AnswerOK, LimiterInv, BucketStep, Tokens, Enabled
  <1> QED
    BY <1>3, <1>4, <1>5, <1>6, <1>7, <1>8 DEF Next

(* The inductive invariant holds in every reachable state.                 *)
THEOREM Invariance == Spec => []IInv
  BY InitInv, Step, PTL DEF Spec

(* Whatever ?limit= says, and wherever int32 wraps around, a listing       *)
(* returns at most MaxListLimit rows; the same holds of ?offset= and a     *)
(* negative OFFSET; the buckets have their types.                          *)
THEOREM TypeCorrect == Spec => []TypeOK
  <1>1. IInv => TypeOK
    BY DEF IInv
  <1> QED
    BY <1>1, Invariance, PTL

(* The two limiters of the middleware, which keep buckets in a map and     *)
(* evict idle ones when a new key arrives, implement one token bucket per  *)
(* address and one per subject.                                            *)
THEOREM LimitersAreTokenBuckets == Spec => ImplementsTokenBuckets
  <1>1. Init => IpBudget!Init /\ SubjectBudget!Init
    BY Tables DEF Init, IpBudget!Init, SubjectBudget!Init, Tokens, Limiter
  <1>2. BucketStep("ip") => [IpBudget!Next]_(IpBudget!vars)
    BY Tables DEF BucketStep, Verdict, Refilled, IpBudget!Next, IpBudget!Pass, IpBudget!Refuse,
                  IpBudget!Refill, IpBudget!vars
  <1>3. BucketStep("subject") => [SubjectBudget!Next]_(SubjectBudget!vars)
    BY Tables DEF BucketStep, Verdict, Refilled, SubjectBudget!Next, SubjectBudget!Pass,
                  SubjectBudget!Refuse, SubjectBudget!Refill, SubjectBudget!vars
  <1>4. IInv /\ [Next]_vars => [IpBudget!Next]_(IpBudget!vars) /\ [SubjectBudget!Next]_(SubjectBudget!vars)
    BY <1>2, <1>3, Step DEF Limiter
  <1> QED
    BY <1>1, <1>4, Invariance, PTL DEF Spec, ImplementsTokenBuckets, IpBudget!Spec, SubjectBudget!Spec
=============================================================================
