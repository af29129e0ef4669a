---------------------------- MODULE ServerProofs ----------------------------
(***************************************************************************)
(* Proofs about Server: the pool is never overdrawn, its queue holds those *)
(* who wait and nobody else, and the process ends in order, for any number *)
(* of clients, any pool of two or more connections and any grace period.   *)
(***************************************************************************)
EXTENDS Server, SequenceTheorems, FiniteSetTheorems, TLAPS

(* The ranges of the variables, in the words of TypeOK.                    *)
RangesOK ==
    /\ ctx \in {"live", "signalled", "failed"}
    /\ http \in {"binding", "serving", "draining", "closed", "overdue"}
    /\ pprof \in {"up", "down"} /\ exit \in {Null, 0, 1}
    /\ stripe \in {"up", "down"} /\ polled \in BOOLEAN /\ age \in 0..(pollerGrace + 1)

StatesOK == state \in [Process -> {"idle", "waiting", "working", "returned", "cut"}]

(* The queue holds everyone who waits, once, and nobody else.              *)
QueueOK ==
    /\ queue \in Seq(Process)
    /\ \A i, j \in 1..Len(queue) : queue[i] = queue[j] => i = j
    /\ \A i \in 1..Len(queue) : state[queue[i]] = "waiting"
    /\ \A p \in Process : state[p] = "waiting" => \E i \in 1..Len(queue) : queue[i] = p

(* Who holds how many connections: only the worker asks for a second.      *)
HoldingsOK ==
    /\ conns \in [Process -> 0..2]
    /\ \A p \in Process :
         /\ state[p] \in {"idle", "returned", "cut"} => conns[p] = 0
         /\ state[p] = "waiting" => conns[p] = 0 \/ (p = "worker" /\ conns[p] = 1)
         /\ state[p] = "working" => conns[p] = 1 \/ (p = "worker" /\ conns[p] = 2)

PoolOK == IsFiniteSet(Held) /\ InUse <= MaxConns

(* A server that has shut down in time has no request left.                *)
DrainOK == http = "closed" => InFlight = {}

(* Requests are cut off by the exit only, and after it nobody is left.     *)
ExitOK ==
    /\ exit = Null => \A p \in Process : state[p] # "cut"
    /\ exit # Null =>
         /\ http \in {"closed", "overdue"}
         /\ \A j \in Job : state[j] = "returned"
         /\ InFlight = {}
         /\ (\E c \in Client : state[c] = "cut") => http = "overdue" /\ exit = 1

IInv == RangesOK /\ StatesOK /\ QueueOK /\ HoldingsOK /\ PoolOK /\ DrainOK /\ ExitOK

----------------------------------------------------------------------------
(* A sequence without its i-th element.                                    *)
LEMMA RemoveAtProperties ==
    ASSUME NEW S, NEW s \in Seq(S), NEW i \in 1..Len(s)
    PROVE  /\ RemoveAt(s, i) \in Seq(S)
           /\ Len(RemoveAt(s, i)) = Len(s) - 1
           /\ \A j \in 1..(Len(s) - 1) : RemoveAt(s, i)[j] = IF j < i THEN s[j] ELSE s[j + 1]
  <1> DEFINE a == SubSeq(s, 1, i - 1)  b == SubSeq(s, i + 1, Len(s))
  <1>1. /\ Len(s) \in Nat /\ \A j \in 1..Len(s) : s[j] \in S
    BY LenProperties
  <1>2. /\ a \in Seq(S) /\ Len(a) = i - 1 /\ \A j \in 1..(i - 1) : a[j] = s[j]
    BY <1>1, SubSeqProperties
  <1>3. /\ b \in Seq(S) /\ Len(b) = Len(s) - i /\ \A j \in 1..(Len(s) - i) : b[j] = s[i + j]
    BY <1>1, SubSeqProperties
  <1> HIDE DEF a, b
  <1>4. /\ a \o b \in Seq(S) /\ Len(a \o b) = Len(a) + Len(b)
        /\ \A j \in 1..(Len(a) + Len(b)) : (a \o b)[j] = IF j <= Len(a) THEN a[j] ELSE b[j - Len(a)]
    BY <1>2, <1>3, ConcatProperties
  <1>5. Len(a) + Len(b) = Len(s) - 1
    BY <1>1, <1>2, <1>3
  <1>6. ASSUME NEW j \in 1..(Len(s) - 1) PROVE (a \o b)[j] = IF j < i THEN s[j] ELSE s[j + 1]
    <2>1. (a \o b)[j] = IF j <= i - 1 THEN a[j] ELSE b[j - (i - 1)]
      BY <1>2, <1>4, <1>5
    <2>2. CASE j < i
      BY <1>1, <1>2, <2>1, <2>2
    <2>3. CASE ~(j < i)
      <3>1. j - (i - 1) \in 1..(Len(s) - i) /\ i + (j - (i - 1)) = j + 1
        BY <1>1, <2>3
      <3>2. b[j - (i - 1)] = s[j + 1]
        BY <1>3, <3>1
      <3> QED
        BY <1>1, <2>1, <2>3, <3>2
    <2> QED
      BY <2>2, <2>3
  <1> QED
    BY <1>4, <1>5, <1>6 DEF RemoveAt, a, b

(* Who joins the queue.                                                    *)
LEMMA JoinQueue ==
    ASSUME StatesOK, QueueOK, NEW p \in Process, state[p] # "waiting", Wait(p)
    PROVE  QueueOK'
  <1>1. /\ queue' = Append(queue, p) /\ queue' \in Seq(Process) /\ Len(queue) \in Nat
        /\ Len(queue') = Len(queue) + 1 /\ queue'[Len(queue) + 1] = p
        /\ \A i \in 1..Len(queue) : queue'[i] = queue[i] /\ queue[i] \in Process
    BY AppendProperties, LenProperties, ElementOfSeq DEF Wait, QueueOK
  <1>2. /\ state'[p] = "waiting" /\ \A q \in Process : q # p => state'[q] = state[q]
    BY DEF Wait, StatesOK
  <1>3. \A i \in 1..Len(queue) : queue[i] # p
    BY DEF QueueOK
  <1>4. \A i \in 1..(Len(queue) + 1) : i \in 1..Len(queue) \/ i = Len(queue) + 1
    BY <1>1
  <1>5. \A i, j \in 1..Len(queue') : queue'[i] = queue'[j] => i = j
    BY <1>1, <1>3, <1>4 DEF QueueOK
  <1>6. \A i \in 1..Len(queue') : state'[queue'[i]] = "waiting"
    BY <1>1, <1>2, <1>3, <1>4 DEF QueueOK
  <1>7. ASSUME NEW q \in Process, state'[q] = "waiting" PROVE \E i \in 1..Len(queue') : queue'[i] = q
    <2>1. CASE q = p
      BY <1>1, <2>1
    <2>2. CASE q # p
      <3>1. PICK i \in 1..Len(queue) : queue[i] = q
        BY <1>2, <1>7, <2>2 DEF QueueOK
      <3> QED
        BY <1>1, <3>1
    <2> QED
      BY <2>1, <2>2
  <1> QED
    BY <1>1, <1>5, <1>6, <1>7 DEF QueueOK

(* Who leaves it, from anywhere in the queue.                              *)
LEMMA LeaveQueue ==
    ASSUME StatesOK, QueueOK, NEW p \in Process, NEW next, next # "waiting", Leave(p, next)
    PROVE  QueueOK'
  <1>1. /\ state'[p] = next /\ \A q \in Process : q # p => state'[q] = state[q]
    BY DEF Leave, StatesOK
  <1>2. CASE state[p] # "waiting"
    <2>1. queue' = queue
      BY <1>2 DEF Leave
    <2>2. \A i \in 1..Len(queue) : queue[i] # p /\ queue[i] \in Process
      BY <1>2, ElementOfSeq DEF QueueOK
    <2> QED
      BY <1>1, <1>2, <2>1, <2>2 DEF QueueOK
  <1>3. CASE state[p] = "waiting"
    <2>1. PICK i \in 1..Len(queue) : queue[i] = p /\ queue' = RemoveAt(queue, i)
      BY <1>3, LenProperties DEF Leave, QueueOK
    <2>2. /\ queue' \in Seq(Process) /\ Len(queue) \in Nat /\ Len(queue') = Len(queue) - 1
          /\ \A j \in 1..(Len(queue) - 1) : queue'[j] = IF j < i THEN queue[j] ELSE queue[j + 1]
      <3>1. queue \in Seq(Process)
        BY DEF QueueOK
      <3>2. Len(queue) \in Nat
        BY <3>1, LenProperties
      <3>3. /\ RemoveAt(queue, i) \in Seq(Process) /\ Len(RemoveAt(queue, i)) = Len(queue) - 1
            /\ \A j \in 1..(Len(queue) - 1) :
                 RemoveAt(queue, i)[j] = IF j < i THEN queue[j] ELSE queue[j + 1]
        BY <3>1, RemoveAtProperties
      <3> QED
        BY <2>1, <3>2, <3>3
    <2>3. \A j \in 1..Len(queue) : queue[j] = p => j = i
      BY <2>1 DEF QueueOK
    <2>4. \A j, k \in 1..Len(queue') : queue'[j] = queue'[k] => j = k
      <3> SUFFICES ASSUME NEW j \in 1..Len(queue'), NEW k \in 1..Len(queue'), queue'[j] = queue'[k] PROVE j = k
        OBVIOUS
      <3>1. PICK m \in 1..Len(queue) : queue'[j] = queue[m] /\ m = IF j < i THEN j ELSE j + 1
        BY <2>2
      <3>2. PICK n \in 1..Len(queue) : queue'[k] = queue[n] /\ n = IF k < i THEN k ELSE k + 1
        BY <2>2
      <3>3. m = n
        <4>1. queue[m] = queue[n]
          BY <3>1, <3>2
        <4> QED
          BY <4>1 DEF QueueOK
      <3> QED
        BY <2>2, <3>1, <3>2, <3>3
    <2>5. ASSUME NEW j \in 1..Len(queue') PROVE state'[queue'[j]] = "waiting"
      <3>1. PICK m \in 1..Len(queue) : queue'[j] = queue[m] /\ m = IF j < i THEN j ELSE j + 1
        BY <2>2
      <3>2. m # i
        BY <2>2, <3>1
      <3>3. queue[m] # p /\ queue[m] \in Process
        BY <2>3, <3>2, ElementOfSeq DEF QueueOK
      <3> QED
        BY <1>1, <3>1, <3>3 DEF QueueOK
    <2>6. ASSUME NEW q \in Process, state'[q] = "waiting" PROVE \E j \in 1..Len(queue') : queue'[j] = q
      <3>1. q # p /\ state[q] = "waiting"
        BY <1>1, <2>6
      <3>2. PICK m \in 1..Len(queue) : queue[m] = q
        BY <3>1 DEF QueueOK
      <3>3. m # i
        BY <2>1, <3>1, <3>2
      <3>4. CASE m < i
        BY <2>2, <3>2, <3>4
      <3>5. CASE m > i
        <4>1. m - 1 \in 1..Len(queue') /\ ~(m - 1 < i) /\ (m - 1) + 1 = m
          BY <2>2, <3>5
        <4> QED
          BY <2>2, <3>2, <4>1
      <3> QED
        BY <2>2, <3>3, <3>4, <3>5
    <2> QED
      BY <2>2, <2>4, <2>5, <2>6 DEF QueueOK
  <1> QED
    BY <1>2, <1>3

(* Who is served: the one who has waited longest.                          *)
LEMMA ServeQueue ==
    ASSUME StatesOK, QueueOK, NEW p \in Process, Acquire(p)
    PROVE  QueueOK' /\ state[p] = "waiting"
  <1>1. /\ queue \in Seq(Process) /\ queue # <<>> /\ p = Head(queue) /\ queue' = Tail(queue)
    BY DEF Acquire, QueueOK
  <1>2. /\ Len(queue) \in Nat \ {0} /\ p = queue[1]
        /\ Tail(queue) \in Seq(Process) /\ Len(Tail(queue)) = Len(queue) - 1
        /\ \A i \in 1..(Len(queue) - 1) : Tail(queue)[i] = queue[i + 1]
    BY <1>1, HeadTailProperties, EmptySeq
  <1>3. state[p] = "waiting" /\ \A i \in 1..Len(queue) : queue[i] = p => i = 1
    BY <1>2 DEF QueueOK
  <1>4. /\ state'[p] = "working" /\ \A q \in Process : q # p => state'[q] = state[q]
    BY DEF Acquire, StatesOK
  <1>5. \A i, j \in 1..Len(queue') : queue'[i] = queue'[j] => i = j
    <2> SUFFICES ASSUME NEW i \in 1..Len(queue'), NEW j \in 1..Len(queue'), queue'[i] = queue'[j] PROVE i = j
      OBVIOUS
    <2>1. i + 1 \in 1..Len(queue) /\ j + 1 \in 1..Len(queue) /\ queue[i + 1] = queue[j + 1]
      BY <1>1, <1>2
    <2>2. i + 1 = j + 1
      BY <2>1 DEF QueueOK
    <2> QED
      BY <1>1, <1>2, <2>2
  <1>6. ASSUME NEW i \in 1..Len(queue') PROVE state'[queue'[i]] = "waiting"
    <2>1. i + 1 \in 1..Len(queue) /\ i + 1 # 1 /\ queue'[i] = queue[i + 1]
      BY <1>1, <1>2
    <2>2. queue[i + 1] # p /\ queue[i + 1] \in Process
      BY <1>1, <1>3, <2>1, ElementOfSeq
    <2> QED
      BY <1>4, <2>1, <2>2 DEF QueueOK
  <1>7. ASSUME NEW q \in Process, state'[q] = "waiting" PROVE \E i \in 1..Len(queue') : queue'[i] = q
    <2>1. q # p /\ state[q] = "waiting"
      BY <1>4, <1>7
    <2>2. PICK i \in 1..Len(queue) : queue[i] = q
      BY <2>1 DEF QueueOK
    <2>3. i - 1 \in 1..(Len(queue) - 1) /\ (i - 1) + 1 = i
      BY <1>2, <2>1, <2>2
    <2> QED
      BY <1>1, <1>2, <2>2, <2>3
  <1> QED
    BY <1>1, <1>2, <1>3, <1>5, <1>6, <1>7 DEF QueueOK

(* One more connection is handed out: it is counted once.                  *)
LEMMA HeldGrows ==
    ASSUME PoolOK, conns \in [Process -> 0..2], NEW p \in Process, conns[p] \in {0, 1},
           InUse < MaxConns, conns' = [conns EXCEPT ![p] = @ + 1]
    PROVE  PoolOK' /\ conns' \in [Process -> 0..2]
  <1>1. /\ conns' \in [Process -> 0..2] /\ conns'[p] = conns[p] + 1
        /\ \A q \in Process : q # p => conns'[q] = conns[q]
    OBVIOUS
  <1> DEFINE h == <<p, conns[p] + 1>>
  <1>2. Held' = Held \cup {h}
    <2>1. ASSUME NEW x \in Process \X {1, 2} PROVE x \in Held' <=> x \in Held \cup {h}
      <3>1. PICK q \in Process, i \in {1, 2} : x = <<q, i>>
        OBVIOUS
      <3>2. x \in Held' <=> i <= conns'[q]
        BY <3>1 DEF Held
      <3>3. x \in Held <=> i <= conns[q]
        BY <3>1 DEF Held
      <3>4. x = h <=> q = p /\ i = conns[p] + 1
        BY <3>1
      <3>5. i <= conns'[q] <=> i <= conns[q] \/ (q = p /\ i = conns[p] + 1)
        BY <1>1
      <3> QED
        BY <3>2, <3>3, <3>4, <3>5
    <2>2. h \in Process \X {1, 2}
      OBVIOUS
    <2>3. Held' \subseteq Process \X {1, 2} /\ Held \subseteq Process \X {1, 2}
      BY DEF Held
    <2> QED
      BY <2>1, <2>2, <2>3
  <1>3. IsFiniteSet(Held) /\ Cardinality(Held) \in Nat /\ Cardinality(Held) < MaxConns
    BY FS_CardinalityType DEF PoolOK, InUse
  <1>4. /\ IsFiniteSet(Held \cup {h})
        /\ Cardinality(Held \cup {h}) = IF h \in Held THEN Cardinality(Held) ELSE Cardinality(Held) + 1
    BY <1>3, FS_AddElement
  <1>5. Cardinality(Held \cup {h}) <= MaxConns
    BY <1>3, <1>4, ServerAssumption
  <1> QED
    BY <1>1, <1>2, <1>4, <1>5 DEF PoolOK, InUse

(* Connections given back.                                                 *)
LEMMA HeldShrinks ==
    ASSUME PoolOK, conns \in [Process -> 0..2], conns' \in [Process -> 0..2],
           \A q \in Process : conns'[q] <= conns[q]
    PROVE  PoolOK'
  <1>1. Held' \subseteq Held
    <2> SUFFICES ASSUME NEW x \in Held' PROVE x \in Held
      OBVIOUS
    <2>1. PICK q \in Process, i \in {1, 2} : x = <<q, i>> /\ i <= conns'[q]
      BY DEF Held
    <2>2. i <= conns[q]
      BY <2>1
    <2> QED
      BY <2>1, <2>2 DEF Held
  <1>2. IsFiniteSet(Held) /\ Cardinality(Held) \in Nat /\ Cardinality(Held) <= MaxConns
    BY FS_CardinalityType DEF PoolOK, InUse
  <1>3. IsFiniteSet(Held') /\ Cardinality(Held') <= Cardinality(Held)
    BY <1>1, <1>2, FS_Subset
  <1>4. Cardinality(Held') \in Nat
    BY <1>3, FS_CardinalityType
  <1>5. Cardinality(Held') <= MaxConns
    BY <1>2, <1>3, <1>4, ServerAssumption
  <1> QED
    BY <1>3, <1>5 DEF PoolOK, InUse

----------------------------------------------------------------------------
(* The grace period is a number of poll intervals.                         *)
LEMMA GraceType == pollerGrace \in Nat
  BY ServerAssumption DEF pollerGrace

(* The process starts with an idle pool.                                   *)
LEMMA InitInv == Init => IInv
  <1> SUFFICES ASSUME Init PROVE IInv
    OBVIOUS
  <1>1. RangesOK /\ StatesOK /\ HoldingsOK /\ DrainOK
    <2>1. 0 \in 0..(pollerGrace + 1)
      BY GraceType
    <2>2. RangesOK /\ DrainOK
      BY <2>1 DEF Init, RangesOK, DrainOK
    <2>3. StatesOK /\ HoldingsOK
      BY DEF Init, StatesOK, HoldingsOK
    <2> QED
      BY <2>2, <2>3
  <1>2. QueueOK
    BY EmptySeq DEF Init, QueueOK
  <1>3. PoolOK
    <2>1. Held = {}
      BY DEF Init, Held
    <2> QED
      BY <2>1, FS_EmptySet, ServerAssumption DEF PoolOK, InUse
  <1>4. ExitOK
    BY DEF Init, ExitOK
  <1> QED
    BY <1>1, <1>2, <1>3, <1>4 DEF IInv

(* Someone waits for a connection: a request while the server serves, a    *)
(* job while the context lives, the worker for its second.                 *)
LEMMA WaitInv ==
    ASSUME IInv, NEW p \in Process, exit = Null, Wait(p), UNCHANGED <<lifecycle, readiness>>,
           state[p] = "idle" \/ (p = "worker" /\ state[p] = "working" /\ conns[p] = 1),
           p \in Client => http = "serving"
    PROVE  IInv'
  <1>1. /\ state' = [state EXCEPT ![p] = "waiting"] /\ conns' = conns
        /\ UNCHANGED <<ctx, http, pprof, exit, stripe, polled, age>>
    BY DEF Wait, lifecycle, readiness
  <1>2. /\ StatesOK' /\ state'[p] = "waiting" /\ \A q \in Process : q # p => state'[q] = state[q]
    BY <1>1 DEF IInv, StatesOK
  <1>3. RangesOK' /\ PoolOK'
    BY <1>1 DEF IInv, RangesOK, PoolOK, InUse, Held
  <1>4. QueueOK'
    BY JoinQueue DEF IInv
  <1>5. HoldingsOK'
    BY <1>1, <1>2 DEF IInv, HoldingsOK
  <1>6. DrainOK'
    BY <1>1, <1>2 DEF IInv, DrainOK, InFlight, Process
  <1>7. ExitOK'
    BY <1>1, <1>2 DEF IInv, ExitOK
  <1> QED
    BY <1>2, <1>3, <1>4, <1>5, <1>6, <1>7 DEF IInv

(* Someone gives up place and connections, to idle or for good.            *)
LEMMA LeaveInv ==
    ASSUME IInv, NEW p \in Process, exit = Null, NEW next \in {"idle", "returned"}, Leave(p, next),
           UNCHANGED lifecycle, RangesOK'
    PROVE  IInv'
  <1>1. /\ state' = [state EXCEPT ![p] = next] /\ conns' = [conns EXCEPT ![p] = 0]
        /\ UNCHANGED <<ctx, http, pprof, exit>>
    BY DEF Leave, lifecycle
  <1>2. /\ StatesOK' /\ state'[p] = next /\ \A q \in Process : q # p => state'[q] = state[q]
    BY <1>1 DEF IInv, StatesOK
  <1>3. /\ conns' \in [Process -> 0..2] /\ conns'[p] = 0 /\ \A q \in Process : q # p => conns'[q] = conns[q]
    BY <1>1 DEF IInv, HoldingsOK
  <1>4. QueueOK'
    BY LeaveQueue DEF IInv
  <1>5. HoldingsOK'
    BY <1>2, <1>3 DEF IInv, HoldingsOK
  <1>6. PoolOK'
    <2>1. \A q \in Process : conns'[q] <= conns[q]
      BY <1>3 DEF IInv, HoldingsOK
    <2> QED
      BY <1>3, <2>1, HeldShrinks DEF IInv, HoldingsOK
  <1>7. DrainOK'
    BY <1>1, <1>2 DEF IInv, DrainOK, InFlight, Process
  <1>8. ExitOK'
    BY <1>1, <1>2 DEF IInv, ExitOK
  <1> QED
    BY <1>2, <1>4, <1>5, <1>6, <1>7, <1>8 DEF IInv

(* A free connection goes to the head of the queue.                        *)
LEMMA AcquireInv == ASSUME IInv, NEW p \in Process, Acquire(p) PROVE IInv'
  <1>1. /\ exit = Null /\ InUse < MaxConns
        /\ state' = [state EXCEPT ![p] = "working"] /\ conns' = [conns EXCEPT ![p] = @ + 1]
        /\ UNCHANGED <<ctx, http, pprof, exit, stripe, polled, age>>
    BY DEF Acquire, lifecycle, readiness
  <1>2. QueueOK' /\ state[p] = "waiting"
    BY ServeQueue DEF IInv
  <1>3. /\ StatesOK' /\ state'[p] = "working" /\ \A q \in Process : q # p => state'[q] = state[q]
    BY <1>1 DEF IInv, StatesOK
  <1>4. conns[p] = 0 \/ (p = "worker" /\ conns[p] = 1)
    BY <1>2 DEF IInv, HoldingsOK
  <1>5. PoolOK' /\ conns' \in [Process -> 0..2]
    BY <1>1, <1>4, HeldGrows DEF IInv, HoldingsOK
  <1>6. conns'[p] = conns[p] + 1 /\ \A q \in Process : q # p => conns'[q] = conns[q]
    BY <1>1 DEF IInv, HoldingsOK
  <1>7. HoldingsOK'
    BY <1>3, <1>4, <1>5, <1>6 DEF IInv, HoldingsOK
  <1>8. RangesOK'
    BY <1>1 DEF IInv, RangesOK
  <1>9. DrainOK'
    BY <1>1, <1>2, <1>3 DEF IInv, DrainOK, InFlight, Process
  <1>10. ExitOK'
    BY <1>1, <1>3 DEF IInv, ExitOK
  <1> QED
    BY <1>2, <1>3, <1>5, <1>7, <1>8, <1>9, <1>10 DEF IInv

(* Signals, the listener, the profiler, the clock and Stripe: the pool     *)
(* stays, and the server closes only when no request is left.              *)
LEMMA LifecycleInv ==
    ASSUME IInv,
           \/ Listen \/ ListenFails \/ Signal \/ PprofStops \/ Shutdown \/ Drained \/ ShutdownTimesOut
           \/ TimePasses \/ StripeChanges
    PROVE  IInv'
  <1>1. UNCHANGED <<state, conns, queue>> /\ exit' = exit
    BY DEF Listen, ListenFails, Signal, PprofStops, Shutdown, Drained, ShutdownTimesOut, TimePasses,
           StripeChanges, pool, lifecycle
  <1>2. StatesOK' /\ QueueOK' /\ HoldingsOK' /\ PoolOK'
    BY <1>1 DEF IInv, StatesOK, QueueOK, HoldingsOK, PoolOK, InUse, Held
  <1>3. pollerGrace \in Nat /\ pollerGrace' = pollerGrace
    BY GraceType DEF pollerGrace
  <1>4. RangesOK'
    <2>1. CASE TimePasses
      BY <1>1, <1>3, <2>1 DEF TimePasses, lifecycle, IInv, RangesOK, pollerGrace
    <2>2. CASE ~TimePasses
      BY <1>1, <2>2 DEF Listen, ListenFails, Signal, PprofStops, Shutdown, Drained, ShutdownTimesOut,
           StripeChanges, readiness, lifecycle, IInv, RangesOK, pollerGrace
    <2> QED
      BY <2>1, <2>2
  <1>5. DrainOK'
    BY <1>1 DEF Listen, ListenFails, Signal, PprofStops, Shutdown, Drained, ShutdownTimesOut,
           TimePasses, StripeChanges, lifecycle, IInv, DrainOK, InFlight
  <1>6. http' = http \/ http \notin {"closed", "overdue"}
    BY DEF Listen, ListenFails, Signal, PprofStops, Shutdown, Drained, ShutdownTimesOut, TimePasses,
           StripeChanges, lifecycle
  <1>7. ExitOK'
    BY <1>1, <1>6 DEF IInv, ExitOK, InFlight
  <1> QED
    BY <1>2, <1>4, <1>5, <1>7 DEF IInv

(* The process ends: what is still in flight is cut off, and only when the *)
(* drain has run out of time.                                              *)
LEMMA ExitInv == ASSUME IInv, Exit PROVE IInv'
  <1>1. /\ exit = Null /\ http \in {"closed", "overdue"} /\ \A j \in Job : state[j] = "returned"
        /\ exit' = IF ctx = "failed" \/ http = "overdue" THEN 1 ELSE 0
        /\ state' = [p \in Process |-> IF p \in InFlight THEN "cut" ELSE state[p]]
        /\ conns' = [p \in Process |-> IF p \in InFlight THEN 0 ELSE conns[p]]
        /\ queue' = <<>> /\ UNCHANGED <<ctx, http, pprof, stripe, polled, age>>
    BY DEF Exit, readiness
  <1>2. exit' \in {0, 1} /\ exit' # Null /\ (http = "overdue" => exit' = 1)
    BY <1>1, ServerAssumption
  <1>3. Job \cap Client = {} /\ Client \subseteq Process /\ InFlight \subseteq Client
    BY ServerAssumption DEF Job, Process, InFlight
  <1>4. RangesOK'
    BY <1>1, <1>2 DEF IInv, RangesOK
  <1>5. /\ StatesOK' /\ \A p \in Process : state'[p] = IF p \in InFlight THEN "cut" ELSE state[p]
    BY <1>1 DEF IInv, StatesOK
  <1>6. \A p \in Process : state'[p] # "waiting" /\ state'[p] # "working"
    BY <1>1, <1>3, <1>5 DEF InFlight, Process
  <1>7. QueueOK'
    BY <1>1, <1>6, EmptySeq DEF QueueOK
  <1>8. /\ conns' \in [Process -> 0..2]
        /\ \A p \in Process : conns'[p] = (IF p \in InFlight THEN 0 ELSE conns[p]) /\ conns'[p] <= conns[p]
    BY <1>1 DEF IInv, HoldingsOK
  <1>9. HoldingsOK'
    BY <1>5, <1>6, <1>8 DEF IInv, HoldingsOK
  <1>10. PoolOK'
    BY <1>8, HeldShrinks DEF IInv, HoldingsOK
  <1>11. InFlight' = {}
    BY <1>3, <1>6 DEF InFlight
  <1>12. \A j \in Job : state'[j] = "returned"
    BY <1>1, <1>3, <1>5 DEF Process
  <1>13. \A c \in Client : state'[c] = "cut" => http = "overdue"
    BY <1>1, <1>3, <1>5 DEF IInv, DrainOK, ExitOK
  <1> QED
    BY <1>1, <1>2, <1>4, <1>5, <1>7, <1>9, <1>10, <1>11, <1>12, <1>13 DEF IInv, DrainOK, ExitOK

(* The invariant is inductive: one step per action.                        *)
LEMMA StepInv == IInv /\ [Next]_vars => IInv'
  <1> SUFFICES ASSUME IInv, [Next]_vars PROVE IInv'
    OBVIOUS
  <1> USE DEF Process, Job
  <1>1. CASE UNCHANGED vars
    BY <1>1 DEF vars, IInv, RangesOK, StatesOK, QueueOK, HoldingsOK, PoolOK, InUse, Held, DrainOK, ExitOK,
                InFlight, pollerGrace
  <1>2. ASSUME NEW p \in Process, Acquire(p) PROVE IInv'
    BY <1>2, AcquireInv
  <1>3. ASSUME NEW c \in Client, Arrive(c) PROVE IInv'
    BY <1>3, WaitInv DEF Arrive
  <1>4. ASSUME NEW j \in Job, Tick(j) PROVE IInv'
    <2>1. j \in Process /\ j \notin Client
      BY ServerAssumption
    <2> QED
      BY <1>4, <2>1, WaitInv DEF Tick
  <1>5. CASE Apply
    <2>1. "worker" \in Process /\ "worker" \notin Client
      BY ServerAssumption
    <2> QED
      BY <1>5, <2>1, WaitInv DEF Apply
  <1>6. UNCHANGED readiness => RangesOK' \/ ~UNCHANGED lifecycle
    BY DEF IInv, RangesOK, readiness, lifecycle, pollerGrace
  <1>7. ASSUME NEW c \in Client, Answer(c) \/ GiveUp(c) PROVE IInv'
    BY <1>6, <1>7, LeaveInv DEF Answer, GiveUp
  <1>8. ASSUME NEW j \in Job, Settle(j) \/ Return(j) PROVE IInv'
    BY <1>6, <1>8, LeaveInv DEF Settle, Return
  <1>9. CASE pollOnce
    <2>1. RangesOK'
      <3>1. 0 \in 0..(pollerGrace + 1) /\ pollerGrace' = pollerGrace
        BY GraceType DEF pollerGrace
      <3>2. UNCHANGED <<ctx, http, pprof, exit, stripe>>
        BY <1>9 DEF pollOnce, lifecycle
      <3>3. (polled' = TRUE /\ age' = 0) \/ UNCHANGED <<polled, age>>
        BY <1>9 DEF pollOnce
      <3> QED
        BY <3>1, <3>2, <3>3 DEF IInv, RangesOK
    <2> QED
      BY <1>9, <2>1, LeaveInv DEF pollOnce, lifecycle
  <1> QED
    BY <1>1, <1>2, <1>3, <1>4, <1>5, <1>7, <1>8, <1>9, LifecycleInv, ExitInv DEF Next

----------------------------------------------------------------------------
(* The inductive invariant holds in every reachable state.                 *)
THEOREM Invariance == Spec => []IInv
  <1> QED
    BY InitInv, StepInv, PTL DEF Spec

(* The pool is never overdrawn, and its queue is exactly those who wait.   *)
THEOREM TypeCorrect == Spec => []TypeOK
  <1>1. IInv => TypeOK
    <2> SUFFICES ASSUME IInv PROVE TypeOK
      OBVIOUS
    <2>1. queue \in Seq(Process) /\ DOMAIN queue = 1..Len(queue)
      BY LenProperties DEF IInv, QueueOK
    <2>2. IsInjective(queue)
      BY <2>1 DEF IInv, QueueOK, IsInjective
    <2>3. Range(queue) = {p \in Process : state[p] = "waiting"}
      <3>1. \A i \in 1..Len(queue) : queue[i] \in Process
        BY <2>1, ElementOfSeq
      <3> QED
        BY <2>1, <3>1 DEF IInv, QueueOK, Range
    <2> QED
      BY <2>2, <2>3 DEF IInv, RangesOK, StatesOK, HoldingsOK, PoolOK, TypeOK
  <1> QED
    BY <1>1, Invariance, PTL

(* The process ends in order: no job is interrupted, and a request is cut  *)
(* off only after the drain's deadline, which the exit status tells.       *)
THEOREM ExitsInOrder == Spec => []ExitIsOrderly
  <1>1. IInv => ExitIsOrderly
    BY DEF IInv, ExitOK, HoldingsOK, ExitIsOrderly, InFlight, Process
  <1> QED
    BY <1>1, Invariance, PTL
=============================================================================
