------------------------- MODULE IdempotencyProofs -------------------------
(***************************************************************************)
(* Proofs about Idempotency for every set of requests, keys and products,  *)
(* and every number of orders and faults.                                  *)
(***************************************************************************)
EXTENDS Idempotency, FiniteSetTheorems, TLAPS

(* The request has claimed its key and not given it up.                    *)
Holds(self) == pc[self] \in {"reserve", "record", "release"}

(* Orders are numbered from 1 without gaps, calls have their types.        *)
CallsOK ==
    /\ \E n \in 0..MaxOrders : DOMAIN orders = 1..n
    /\ call \in [Request -> [key : Key \cup {NoOrder}, product : Product \cup {NoOrder},
                             order : OrderId \cup {NoOrder}]]
    /\ \A self \in Request : pc[self] # "idle" => call[self].key \in Key /\ call[self].product \in Product

(* A key is held by one request at most, whose row it is, and the row has  *)
(* no order yet.                                                           *)
HeldOnce ==
    /\ \A self \in Request : Holds(self) =>
        /\ call[self].key \in DOMAIN keys
        /\ keys[call[self].key].hash = call[self].product
        /\ keys[call[self].key].order = NoOrder
    /\ \A r, s \in Request : Holds(r) /\ Holds(s) /\ call[r].key = call[s].key => r = s

(* What a request is about to record, and what a row has recorded, is an   *)
(* order of that key and product.                                          *)
RecordsAreTrue ==
    /\ \A self \in Request : pc[self] = "record" =>
        /\ call[self].order \in DOMAIN orders
        /\ orders[call[self].order] = [key |-> call[self].key, product |-> call[self].product]
    /\ \A k \in DOMAIN keys : keys[k].order # NoOrder =>
        /\ keys[k].order \in DOMAIN orders
        /\ orders[keys[k].order] = [key |-> k, product |-> keys[k].hash]

(* A key with an order whose commit was answered keeps its row, and only   *)
(* the request that records that order may hold it.                        *)
OrdersKeepKeys ==
    \A o \in DOMAIN orders : orders[o].key \notin lost =>
        /\ orders[o].key \in DOMAIN keys
        /\ \A self \in Request : Holds(self) /\ call[self].key = orders[o].key =>
              pc[self] = "record" /\ call[self].order = o

(* A key that was answered keeps its row, holds the answer or nothing, and *)
(* is never held again.                                                    *)
AnswersKeepKeys ==
    \A a \in answers :
        /\ a.key \in DOMAIN keys
        /\ keys[a.key].order \in {NoOrder, a.order}
        /\ \A self \in Request : Holds(self) => call[self].key # a.key

IInv ==
    /\ TypeOK /\ CallsOK /\ HeldOnce /\ RecordsAreTrue /\ OrdersKeepKeys /\ AnswersKeepKeys
    /\ OneOrderPerAnsweredKey /\ AnswersAgree

----------------------------------------------------------------------------
(* The next order id is free.                                              *)
LEMMA NextOrderId ==
    ASSUME TypeOK, CallsOK
    PROVE  /\ Cardinality(DOMAIN orders) + 1 \notin DOMAIN orders
           /\ Cardinality(DOMAIN orders) + 1 \in OrderId =>
                \E n \in 0..MaxOrders : DOMAIN orders \cup {Cardinality(DOMAIN orders) + 1} = 1..n
  <1>1. PICK n \in 0..MaxOrders : DOMAIN orders = 1..n
    BY DEF CallsOK
  <1>2. Cardinality(1..n) = n
    BY FS_Interval, IdempotencyAssumption
  <1> QED
    BY <1>1, <1>2, IdempotencyAssumption DEF OrderId

(* The empty table satisfies the inductive invariant.                      *)
LEMMA InitInv == Init => IInv
  <1> SUFFICES ASSUME Init PROVE IInv
    OBVIOUS
  <1>1. TypeOK /\ CallsOK
    <2>1. 1..0 = {}
      OBVIOUS
    <2> QED
      BY <2>1, IdempotencyAssumption DEF Init, TypeOK, CallsOK, Idle
  <1> QED
    BY <1>1 DEF Init, IInv, HeldOnce, Holds, RecordsAreTrue, OrdersKeepKeys, AnswersKeepKeys,
                OneOrderPerAnsweredKey, AnswersAgree

(* Winning a key, which nobody holds and which no answered order and no    *)
(* answer knows, or finding it taken.                                      *)
LEMMA ClaimInv ==
    ASSUME IInv, NEW self \in Request, NEW k \in Key, NEW p \in Product,
           ClaimIdempotencyKey(self, k, p)
    PROVE  IInv'
  <1> USE DEF IInv, ClaimIdempotencyKey, Goto, Insert, history
  <1>1. TypeOK' /\ CallsOK'
    BY DEF TypeOK, CallsOK
  <1>2. HeldOnce'
    <2>1. /\ \A r \in Request \ {self} : Holds(r)' => Holds(r) /\ call'[r] = call[r]
          /\ call'[self] = [key |-> k, product |-> p, order |-> NoOrder]
          /\ Holds(self)' => k \notin DOMAIN keys /\ keys'[k] = [hash |-> p, order |-> NoOrder]
      BY DEF TypeOK, CallsOK, Holds
    <2>2. DOMAIN keys \subseteq DOMAIN keys' /\ \A x \in DOMAIN keys : keys'[x] = keys[x]
      OBVIOUS
    <2>3. Holds(self)' => k \in DOMAIN keys'
      BY DEF TypeOK, Holds
    <2>4. \A r \in Request \ {self} : Holds(r)' =>
             /\ call'[r].key \in DOMAIN keys /\ call'[r].key \in DOMAIN keys'
             /\ keys'[call'[r].key].hash = call'[r].product
             /\ keys'[call'[r].key].order = NoOrder
      BY <2>1, <2>2 DEF HeldOnce
    <2>5. \A r, s \in Request : Holds(r)' /\ Holds(s)' /\ call'[r].key = call'[s].key => r = s
      <3>1. \A r, s \in Request \ {self} : Holds(r)' /\ Holds(s)' /\ call'[r].key = call'[s].key => r = s
        BY <2>1 DEF HeldOnce
      <3>2. \A r \in Request \ {self} : Holds(r)' /\ Holds(self)' => call'[r].key # k
        BY <2>1, <2>4
      <3> QED
        BY <2>1, <3>1, <3>2
    <2> QED
      BY <2>1, <2>3, <2>4, <2>5 DEF HeldOnce
  <1>3. RecordsAreTrue'
    BY DEF TypeOK, CallsOK, RecordsAreTrue
  <1>4. OrdersKeepKeys' /\ AnswersKeepKeys'
    BY DEF TypeOK, CallsOK, OrdersKeepKeys, AnswersKeepKeys, Holds
  <1>5. OneOrderPerAnsweredKey' /\ AnswersAgree'
    BY DEF OneOrderPerAnsweredKey, AnswersAgree
  <1> QED
    BY <1>1, <1>2, <1>3, <1>4, <1>5

(* Running the wrapped strategy: only the holder of a key reserves for it, *)
(* and it does so once.                                                    *)
LEMMA ReserveInv ==
    ASSUME IInv, NEW self \in Request, Reserve(self)
    PROVE  IInv'
  <1> DEFINE o == Cardinality(DOMAIN orders) + 1
             k == call[self].key
             made == Insert(orders, o, [key |-> k, product |-> call[self].product])
  <1> USE DEF IInv, Goto
  <1>1. k \in Key /\ call[self].product \in Product /\ pc[self] = "reserve" /\ Holds(self)
    BY DEF Reserve, CallsOK, Holds
  <1>2. o \notin DOMAIN orders
    BY NextOrderId
  <1>3. \A x \in DOMAIN orders : orders[x].key = k => k \in lost
    BY <1>1 DEF OrdersKeepKeys, Holds
  <1>4. CASE orders' = orders /\ call' = call /\ lost' = lost /\ pc' = [pc EXCEPT ![self] = "release"]
             /\ faults' = faults
    BY <1>1, <1>3, <1>4 DEF Reserve, TypeOK, CallsOK, HeldOnce, Holds, RecordsAreTrue, OrdersKeepKeys,
                AnswersKeepKeys, OneOrderPerAnsweredKey, AnswersAgree
  <1>5. CASE o \in OrderId /\ orders' = made
             /\ \/ call' = [call EXCEPT ![self].order = o] /\ lost' = lost /\ faults' = faults
                   /\ pc' = [pc EXCEPT ![self] = "record"]
                \/ call' = call /\ lost' = lost \cup {k} /\ Fault
                   /\ pc' = [pc EXCEPT ![self] = "release"]
    <2>1. keys' = keys /\ answers' = answers /\ dropped' = dropped
      BY DEF Reserve
    <2>2. DOMAIN orders' = DOMAIN orders \cup {o}
      BY <1>5 DEF Insert
    <2>3. /\ orders'[o] = [key |-> k, product |-> call[self].product]
          /\ \A x \in DOMAIN orders : orders'[x] = orders[x]
      BY <1>5, <1>2 DEF Insert
    <2>4. /\ call' \in [Request -> [key : Key \cup {NoOrder}, product : Product \cup {NoOrder},
                                    order : OrderId \cup {NoOrder}]]
          /\ \A r \in Request : call'[r].key = call[r].key /\ call'[r].product = call[r].product
          /\ \A r \in Request \ {self} : call'[r] = call[r]
          /\ pc' \in [Request -> {"idle", "reserve", "record", "release", "replay"}]
          /\ \A r \in Request : Holds(r)' <=> Holds(r)
          /\ \A r \in Request \ {self} : pc'[r] = pc[r]
          /\ pc'[self] \in {"record", "release"}
          /\ pc'[self] = "record" => call'[self].order = o /\ lost' = lost
          /\ pc'[self] = "release" => lost' = lost \cup {k}
      BY <1>5, <1>1 DEF TypeOK, CallsOK, Holds
    <2>5. orders' \in [DOMAIN orders' -> [key : Key, product : Product]]
      BY <1>5, <1>1 DEF TypeOK, Insert
    <2>6. TypeOK'
      BY <1>1, <1>5, <2>1, <2>2, <2>4, <2>5, IdempotencyAssumption DEF TypeOK, Fault
    <2>7. CallsOK'
      BY <1>1, <1>5, <2>2, <2>4, NextOrderId DEF CallsOK
    <2>8. HeldOnce'
      BY <2>1, <2>4 DEF HeldOnce
    <2>9. RecordsAreTrue'
      BY <2>1, <2>2, <2>3, <2>4, <1>2 DEF RecordsAreTrue
    <2>10. OrdersKeepKeys'
      <3>1. lost \subseteq lost' /\ pc'[self] = "release" => k \in lost'
        BY <2>4
      <3>2. ASSUME NEW x \in DOMAIN orders, orders'[x].key \notin lost'
            PROVE  /\ orders'[x].key \in DOMAIN keys'
                   /\ \A r \in Request : Holds(r)' /\ call'[r].key = orders'[x].key =>
                         pc'[r] = "record" /\ call'[r].order = x
        <4>1. orders'[x] = orders[x] /\ orders[x].key \notin lost /\ orders[x].key # k
          BY <1>3, <2>3, <2>4, <3>2
        <4> QED
          BY <4>1, <2>1, <2>4 DEF OrdersKeepKeys
      <3>3. ASSUME orders'[o].key \notin lost'
            PROVE  /\ orders'[o].key \in DOMAIN keys'
                   /\ \A r \in Request : Holds(r)' /\ call'[r].key = orders'[o].key =>
                         pc'[r] = "record" /\ call'[r].order = o
        <4>1. orders'[o].key = k /\ k \notin lost'
          BY <2>3, <3>3
        <4>2. pc'[self] = "record" /\ call'[self].order = o
          BY <4>1, <2>4
        <4>3. k \in DOMAIN keys /\ \A r \in Request : Holds(r) /\ call[r].key = k => r = self
          BY <1>1 DEF HeldOnce
        <4> QED
          BY <4>1, <4>2, <4>3, <2>1, <2>4
      <3> QED
        BY <2>2, <3>2, <3>3 DEF OrdersKeepKeys
    <2>11. AnswersKeepKeys'
      BY <2>1, <2>4 DEF AnswersKeepKeys
    <2>12. OneOrderPerAnsweredKey'
      BY <1>2, <1>3, <2>2, <2>3, <2>4 DEF OneOrderPerAnsweredKey
    <2>13. AnswersAgree'
      BY <1>2, <2>1, <2>2, <2>3 DEF AnswersAgree
    <2> QED
      BY <2>6, <2>7, <2>8, <2>9, <2>10, <2>11, <2>12, <2>13
  <1> QED
    BY <1>4, <1>5 DEF Reserve

(* Recording: the holder gives its key up with the order in the row, or    *)
(* without it, and answers.                                                *)
LEMMA CompleteInv ==
    ASSUME IInv, NEW self \in Request, CompleteIdempotencyKey(self)
    PROVE  IInv'
  <1> DEFINE k == call[self].key
             answer == [key |-> k, product |-> call[self].product, order |-> call[self].order]
  <1> USE DEF IInv
  <1>1. /\ pc[self] = "record" /\ Holds(self)
        /\ k \in Key /\ k \in DOMAIN keys /\ keys[k].hash = call[self].product /\ keys[k].order = NoOrder
        /\ call[self].order \in DOMAIN orders
        /\ orders[call[self].order] = [key |-> k, product |-> call[self].product]
        /\ answer \in [key : Key, product : Product, order : OrderId]
    BY DEF CompleteIdempotencyKey, CallsOK, Holds, HeldOnce, RecordsAreTrue, TypeOK
  <1>2. /\ orders' = orders /\ lost' = lost /\ answers' = answers \cup {answer}
        /\ pc' = [pc EXCEPT ![self] = "idle"] /\ call' = [call EXCEPT ![self] = Idle]
        /\ DOMAIN keys' = DOMAIN keys /\ \A x \in DOMAIN keys \ {k} : keys'[x] = keys[x]
        /\ keys'[k].hash = keys[k].hash /\ keys'[k].order \in {NoOrder, call[self].order}
        /\ keys' \in [DOMAIN keys -> [hash : Product, order : OrderId \cup {NoOrder}]]
    BY <1>1 DEF CompleteIdempotencyKey, Return, Goto, TypeOK
  <1>3. /\ \A r \in Request : Holds(r)' <=> Holds(r) /\ r # self
        /\ \A r \in Request \ {self} : call'[r] = call[r] /\ pc'[r] = pc[r] /\ (Holds(r) => call[r].key # k)
    BY <1>1, <1>2 DEF Holds, HeldOnce, TypeOK, CallsOK
  <1>4. TypeOK' /\ CallsOK'
    BY <1>1, <1>2, IdempotencyAssumption
    DEF CompleteIdempotencyKey, TypeOK, CallsOK, Fault, Drop, Idle
  <1>5. HeldOnce'
    BY <1>2, <1>3 DEF HeldOnce
  <1>6. RecordsAreTrue'
    <2>1. \A r \in Request : pc'[r] = "record" => r # self
      BY <1>2 DEF TypeOK
    <2>2. \A x \in DOMAIN keys' : keys'[x].order # NoOrder =>
             /\ keys'[x].order \in DOMAIN orders
             /\ orders[keys'[x].order] = [key |-> x, product |-> keys'[x].hash]
      <3>1. keys'[k].order # NoOrder =>
              /\ keys'[k].order \in DOMAIN orders
              /\ orders[keys'[k].order] = [key |-> k, product |-> keys'[k].hash]
        BY <1>1, <1>2
      <3>2. \A x \in DOMAIN keys \ {k} : keys'[x].order # NoOrder =>
              /\ keys'[x].order \in DOMAIN orders
              /\ orders[keys'[x].order] = [key |-> x, product |-> keys'[x].hash]
        BY <1>2 DEF RecordsAreTrue
      <3> QED
        BY <1>2, <3>1, <3>2
    <2> QED
      BY <1>2, <1>3, <2>1, <2>2 DEF RecordsAreTrue
  <1>7. OrdersKeepKeys'
    BY <1>2, <1>3 DEF OrdersKeepKeys
  <1>8. AnswersKeepKeys' /\ AnswersAgree'
    BY <1>1, <1>2, <1>3 DEF AnswersKeepKeys, AnswersAgree
  <1>9. OneOrderPerAnsweredKey'
    BY <1>2 DEF OneOrderPerAnsweredKey
  <1> QED
    BY <1>4, <1>5, <1>6, <1>7, <1>8, <1>9

(* Releasing: the key has no answered order and no answer.                 *)
LEMMA ReleaseInv ==
    ASSUME IInv, NEW self \in Request, ReleaseIdempotencyKey(self)
    PROVE  IInv'
  <1> DEFINE k == call[self].key
  <1> USE DEF IInv
  <1>1. /\ pc[self] = "release" /\ Holds(self)
        /\ k \in Key /\ k \in DOMAIN keys /\ keys[k].order = NoOrder
        /\ \A o \in DOMAIN orders : orders[o].key = k => k \in lost
        /\ \A a \in answers : a.key # k
    <2>1. pc[self] = "release" /\ Holds(self)
      BY DEF ReleaseIdempotencyKey, Holds
    <2>2. k \in Key /\ k \in DOMAIN keys /\ keys[k].order = NoOrder
      BY <2>1 DEF CallsOK, HeldOnce
    <2> QED
      BY <2>1, <2>2 DEF OrdersKeepKeys, AnswersKeepKeys
  <1>2. /\ orders' = orders /\ lost' = lost /\ answers' = answers
        /\ pc' = [pc EXCEPT ![self] = "idle"] /\ call' = [call EXCEPT ![self] = Idle]
        /\ DOMAIN keys' \in {DOMAIN keys, DOMAIN keys \ {k}}
        /\ \A x \in DOMAIN keys' : keys'[x] = keys[x]
        /\ keys' \in [DOMAIN keys' -> [hash : Product, order : OrderId \cup {NoOrder}]]
    BY <1>1 DEF ReleaseIdempotencyKey, Return, Goto, Delete, TypeOK
  <1>3. /\ \A r \in Request : Holds(r)' <=> Holds(r) /\ r # self
        /\ \A r \in Request \ {self} : call'[r] = call[r] /\ pc'[r] = pc[r] /\ (Holds(r) => call[r].key # k)
    BY <1>1, <1>2 DEF Holds, HeldOnce, TypeOK, CallsOK
  <1>4. TypeOK' /\ CallsOK'
    BY <1>1, <1>2, IdempotencyAssumption
    DEF ReleaseIdempotencyKey, TypeOK, CallsOK, Fault, Drop, Idle
  <1>5. HeldOnce'
    BY <1>2, <1>3 DEF HeldOnce
  <1>6. RecordsAreTrue'
    BY <1>1, <1>2, <1>3 DEF RecordsAreTrue, TypeOK, CallsOK
  <1>7. OrdersKeepKeys' /\ AnswersKeepKeys'
    BY <1>1, <1>2, <1>3 DEF OrdersKeepKeys, AnswersKeepKeys
  <1>8. OneOrderPerAnsweredKey' /\ AnswersAgree'
    BY <1>2 DEF OneOrderPerAnsweredKey, AnswersAgree
  <1> QED
    BY <1>4, <1>5, <1>6, <1>7, <1>8

(* A replay answers with the recorded order; a crash answers nothing.      *)
(* Both keep the tables.                                                   *)
LEMMA ReplayOrCrashInv ==
    ASSUME IInv, NEW self \in Request, Replay(self) \/ Crash(self)
    PROVE  IInv'
  <1> DEFINE k == call[self].key
  <1> USE DEF IInv
  <1>1. /\ pc[self] # "idle" /\ k \in Key
        /\ keys' = keys /\ orders' = orders /\ lost' = lost
        /\ pc' = [pc EXCEPT ![self] = "idle"] /\ call' = [call EXCEPT ![self] = Idle]
    BY DEF Replay, Crash, Return, Goto, CallsOK, history
  <1>2. /\ \A r \in Request : Holds(r)' => Holds(r)
        /\ \A r \in Request : pc'[r] # "idle" => call'[r] = call[r] /\ pc'[r] = pc[r]
        /\ \A r \in Request : Holds(r)' => pc'[r] # "idle"
    BY <1>1 DEF Holds, TypeOK, CallsOK
  <1>3. \/ answers' = answers
        \/ /\ k \in DOMAIN keys /\ keys[k].order # NoOrder
           /\ answers' = answers \cup {[key |-> k, product |-> keys[k].hash, order |-> keys[k].order]}
    BY DEF Replay, Crash
  <1>4. TypeOK' /\ CallsOK'
    <2>1. answers' \subseteq [key : Key, product : Product, order : OrderId]
      BY <1>1, <1>3 DEF TypeOK
    <2> QED
      BY <1>1, <2>1, IdempotencyAssumption
      DEF Replay, Crash, TypeOK, CallsOK, Fault, Drop, Idle, history
  <1>5. HeldOnce' /\ RecordsAreTrue' /\ OrdersKeepKeys'
    BY <1>1, <1>2 DEF HeldOnce, RecordsAreTrue, OrdersKeepKeys
  <1>6. AnswersKeepKeys'
    <2>1. \A r \in Request : Holds(r)' => call'[r] = call[r] /\ Holds(r) /\ keys[call[r].key].order = NoOrder
      BY <1>2 DEF HeldOnce
    <2>2. \A a \in answers : /\ a.key \in DOMAIN keys' /\ keys'[a.key].order \in {NoOrder, a.order}
                             /\ \A r \in Request : Holds(r)' => call'[r].key # a.key
      BY <1>1, <2>1 DEF AnswersKeepKeys
    <2>3. k \in DOMAIN keys /\ keys[k].order # NoOrder => \A r \in Request : Holds(r)' => call'[r].key # k
      BY <2>1
    <2> QED
      BY <1>1, <1>3, <2>2, <2>3 DEF AnswersKeepKeys
  <1>7. OneOrderPerAnsweredKey' /\ AnswersAgree'
    BY <1>1, <1>3 DEF OneOrderPerAnsweredKey, AnswersAgree, AnswersKeepKeys, RecordsAreTrue
  <1> QED
    BY <1>4, <1>5, <1>6, <1>7

(* Every step preserves the inductive invariant.                           *)
LEMMA StepInv == IInv /\ [Next]_vars => IInv'
  <1> SUFFICES ASSUME IInv, [Next]_vars PROVE IInv'
    OBVIOUS
  <1>1. CASE Next
    BY <1>1, ClaimInv, ReserveInv, CompleteInv, ReleaseInv, ReplayOrCrashInv DEF Next, Continue
  <1>2. CASE UNCHANGED vars
    BY <1>2 DEF vars, history, IInv, TypeOK, CallsOK, HeldOnce, Holds, RecordsAreTrue, OrdersKeepKeys,
                AnswersKeepKeys, OneOrderPerAnsweredKey, AnswersAgree
  <1> QED
    BY <1>1, <1>2

(* The inductive invariant holds in every reachable state.                 *)
THEOREM Invariance == Spec => []IInv
  BY InitInv, StepInv, PTL DEF Spec

(* Whatever retries, double submits, crashes and failed statements there   *)
(* are, a key creates one order unless a commit went unanswered: the claim *)
(* of WithIdempotency is exclusive and is released only without an order.  *)
THEOREM KeysOrderOnce == Spec => []OneOrderPerAnsweredKey
  <1>1. IInv => OneOrderPerAnsweredKey
    BY DEF IInv
  <1> QED
    BY <1>1, Invariance, PTL

(* All 201 answers to a key name the one order that key created, of the    *)
(* product each of them asked for.                                         *)
THEOREM AnswersNameOneOrder == Spec => []AnswersAgree
  <1>1. IInv => AnswersAgree
    BY DEF IInv
  <1> QED
    BY <1>1, Invariance, PTL

(* A recorded order is final: neither CompleteIdempotencyKey nor           *)
(* ReleaseIdempotencyKey touches a row that has one.                       *)
THEOREM RecordsAreFinal == Spec => RecordedForGood
  <1> DEFINE Final == \A k \in DOMAIN keys : keys[k].order # NoOrder => k \in DOMAIN keys' /\ keys'[k] = keys[k]
  <1>1. IInv /\ [Next]_vars => [Final]_vars
    <2> SUFFICES ASSUME IInv, Next PROVE Final
      OBVIOUS
    <2>1. ASSUME NEW self \in Request, NEW k \in Key, NEW p \in Product, ClaimIdempotencyKey(self, k, p)
          PROVE  Final
      BY <2>1 DEF ClaimIdempotencyKey, Insert
    <2>2. ASSUME NEW self \in Request, CompleteIdempotencyKey(self) PROVE Final
      BY <2>2 DEF CompleteIdempotencyKey, IInv, TypeOK
    <2>3. ASSUME NEW self \in Request, ReleaseIdempotencyKey(self) PROVE Final
      BY <2>3 DEF ReleaseIdempotencyKey, Delete
    <2>4. ASSUME NEW self \in Request, Reserve(self) \/ Replay(self) \/ Crash(self) PROVE Final
      BY <2>4 DEF Reserve, Replay, Crash
    <2> HIDE DEF Final
    <2> QED
      BY <2>1, <2>2, <2>3, <2>4 DEF Next, Continue
  <1> QED
    BY <1>1, Invariance, PTL DEF Spec, RecordedForGood
=============================================================================
