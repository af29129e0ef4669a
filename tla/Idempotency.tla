---------------------------- MODULE Idempotency ----------------------------
(***************************************************************************)
(* POST /orders with an Idempotency-Key: concurrent requests, retries and  *)
(* double submits claim a key, run the wrapped reserve strategy and record *)
(* the order the key produced, with no transaction around the three.       *)
(*                                                                         *)
(* A key stands for the pair (cognito_sub, idem_key), the request hash for *)
(* the product it is made of.  The wrapped strategy is one atomic step     *)
(* (OrderTx has its statements): it creates an order, or fails without     *)
(* one, or commits and loses the answer.  The claim, the record and the    *)
(* release are single autocommitted statements.                            *)
(*                                                                         *)
(* An operator named Mutant... is the definition after it with a plausible *)
(* bug: no specification uses it, only the mutation runs put it in place.  *)
(***************************************************************************)
EXTENDS Integers, FiniteSets

CONSTANTS
    Request,      \* request goroutines
    Key, Product,
    NoOrder,      \* order_id IS NULL
    MaxOrders,    \* bound: orders created
    MaxFaults     \* bound: crashes, ended contexts, failed statements, lost answers

ASSUME IdempotencyAssumption ==
    /\ MaxOrders \in Nat /\ MaxFaults \in Nat
    /\ NoOrder \notin 1..MaxOrders

OrderId == 1..MaxOrders

VARIABLES
    keys,         \* order_idempotency: key -> request_hash and order_id
    orders,       \* the orders keyed requests created: id -> key and product
    pc,           \* the next statement of a request
    call,         \* its key and product, and the order it has reserved
    answers,      \* the 201 answers given: key, product asked for, order
    lost,         \* history: keys with an order whose commit was not answered
    dropped,      \* history: keys a claim was left on by a failed or missing statement
    faults

history == <<lost, dropped>>
vars == <<keys, orders, pc, call, answers, history, faults>>

Idle == [key |-> NoOrder, product |-> NoOrder, order |-> NoOrder]

Insert(table, k, row) == [x \in DOMAIN table \cup {k} |-> IF x = k THEN row ELSE table[x]]
Delete(table, k) == [x \in DOMAIN table \ {k} |-> table[x]]

Goto(self, step) == pc' = [pc EXCEPT ![self] = step]
Return(self) == Goto(self, "idle") /\ call' = [call EXCEPT ![self] = Idle]
Fault == faults < MaxFaults /\ faults' = faults + 1
Drop(self) == dropped' = dropped \cup {call[self].key}

Init ==
    /\ keys = [k \in {} |-> k]
    /\ orders = [o \in {} |-> o]
    /\ pc = [self \in Request |-> "idle"]
    /\ call = [self \in Request |-> Idle]
    /\ answers = {}
    /\ lost = {} /\ dropped = {}
    /\ faults = 0

(* The guarded INSERT: it wins the key or matches no row.                  *)
MutantClaimIdempotencyKey(self, k, p) ==
    /\ pc[self] = "idle"
    /\ call' = [call EXCEPT ![self] = [key |-> k, product |-> p, order |-> NoOrder]]
    /\ keys' = IF k \in DOMAIN keys THEN keys ELSE Insert(keys, k, [hash |-> p, order |-> NoOrder])
    /\ Goto(self, IF k \in DOMAIN keys /\ keys[k].order # NoOrder THEN "replay" ELSE "reserve")
    /\ UNCHANGED <<orders, answers, history, faults>>
MutantClaimOverwrites(self, k, p) ==
    /\ pc[self] = "idle"
    /\ call' = [call EXCEPT ![self] = [key |-> k, product |-> p, order |-> NoOrder]]
    /\ keys' = Insert(keys, k, [hash |-> p, order |-> NoOrder])
    /\ Goto(self, "reserve")
    /\ UNCHANGED <<orders, answers, history, faults>>
ClaimIdempotencyKey(self, k, p) ==
    /\ pc[self] = "idle"
    /\ call' = [call EXCEPT ![self] = [key |-> k, product |-> p, order |-> NoOrder]]
    /\ \/ /\ k \notin DOMAIN keys
          /\ keys' = Insert(keys, k, [hash |-> p, order |-> NoOrder])
          /\ Goto(self, "reserve")
       \/ /\ k \in DOMAIN keys
          /\ Goto(self, "replay")
          /\ UNCHANGED keys
    /\ UNCHANGED <<orders, answers, history, faults>>

(* inner.Reserve: an order; an error and no order; or an error although    *)
(* the transaction has committed.                                          *)
Reserve(self) ==
    LET o == Cardinality(DOMAIN orders) + 1
        made == Insert(orders, o, [key |-> call[self].key, product |-> call[self].product])
    IN  /\ pc[self] = "reserve"
        /\ \/ /\ o \in OrderId
              /\ orders' = made
              /\ call' = [call EXCEPT ![self].order = o]
              /\ Goto(self, "record")
              /\ UNCHANGED <<lost, faults>>
           \/ /\ Goto(self, "release")
              /\ UNCHANGED <<orders, call, lost, faults>>
           \/ /\ o \in OrderId
              /\ Fault
              /\ orders' = made
              /\ lost' = lost \cup {call[self].key}
              /\ Goto(self, "release")
              /\ UNCHANGED call
        /\ UNCHANGED <<keys, answers, dropped>>

(* The order is answered whether or not recording it succeeds.             *)
CompleteIdempotencyKey(self) ==
    LET k == call[self].key
    IN  /\ pc[self] = "record"
        /\ \/ /\ keys' = IF k \in DOMAIN keys /\ keys[k].order = NoOrder
                           THEN [keys EXCEPT ![k].order = call[self].order] ELSE keys
              /\ UNCHANGED <<dropped, faults>>
           \/ Fault /\ Drop(self) /\ UNCHANGED keys
        /\ answers' = answers \cup {[key |-> k, product |-> call[self].product, order |-> call[self].order]}
        /\ Return(self)
        /\ UNCHANGED <<orders, lost>>

(* Best effort: the result of the release is ignored.                      *)
MutantReleaseIdempotencyKey(self) ==
    /\ pc[self] = "release"
    /\ Return(self)
    /\ UNCHANGED <<keys, orders, answers, history, faults>>
ReleaseIdempotencyKey(self) ==
    LET k == call[self].key
    IN  /\ pc[self] = "release"
        /\ \/ /\ keys' = IF k \in DOMAIN keys /\ keys[k].order = NoOrder THEN Delete(keys, k) ELSE keys
              /\ UNCHANGED <<dropped, faults>>
           \/ Fault /\ Drop(self) /\ UNCHANGED keys
        /\ Return(self)
        /\ UNCHANGED <<orders, answers, lost>>

(* The key was taken: no row or no order yet is ErrReserveInProgress,      *)
(* another hash ErrIdempotencyKeyReused, else the recorded order.          *)
MutantReplay(self) ==
    LET k == call[self].key
    IN  /\ pc[self] = "replay"
        /\ answers' = IF k \in DOMAIN keys /\ keys[k].order # NoOrder
                        THEN answers \cup {[key |-> k, product |-> call[self].product, order |-> keys[k].order]}
                        ELSE answers
        /\ Return(self)
        /\ UNCHANGED <<keys, orders, history, faults>>
Replay(self) ==
    LET k == call[self].key
        p == call[self].product
    IN  /\ pc[self] = "replay"
        /\ answers' = IF k \in DOMAIN keys /\ keys[k].hash = p /\ keys[k].order # NoOrder
                        THEN answers \cup {[key |-> k, product |-> p, order |-> keys[k].order]}
                        ELSE answers
        /\ Return(self)
        /\ UNCHANGED <<keys, orders, history, faults>>

(* The process dies, or the request's context, which every statement uses, *)
(* ends: nothing more of this request is executed.                         *)
Crash(self) ==
    /\ pc[self] # "idle"
    /\ Fault
    /\ IF pc[self] = "replay" THEN UNCHANGED dropped ELSE Drop(self)
    /\ Return(self)
    /\ UNCHANGED <<keys, orders, answers, lost>>

Continue(self) ==
    \/ Reserve(self) \/ CompleteIdempotencyKey(self) \/ ReleaseIdempotencyKey(self) \/ Replay(self)

Next ==
    \E self \in Request :
        \/ \E k \in Key, p \in Product : ClaimIdempotencyKey(self, k, p)
        \/ Continue(self)
        \/ Crash(self)

Spec == Init /\ [][Next]_vars

(* A request that has started is run; clients need not retry.              *)
FairSpec == Spec /\ \A self \in Request : WF_vars(Continue(self))

----------------------------------------------------------------------------
(* Rows, answers and steps have their types; in particular an answer names *)
(* an order: a replay of a key in progress never answers without one.      *)
TypeOK ==
    /\ DOMAIN keys \subseteq Key
    /\ keys \in [DOMAIN keys -> [hash : Product, order : OrderId \cup {NoOrder}]]
    /\ DOMAIN orders \subseteq OrderId
    /\ orders \in [DOMAIN orders -> [key : Key, product : Product]]
    /\ pc \in [Request -> {"idle", "reserve", "record", "release", "replay"}]
    /\ answers \subseteq [key : Key, product : Product, order : OrderId]
    /\ lost \subseteq Key /\ dropped \subseteq Key
    /\ faults \in 0..MaxFaults

(* "repeated requests carrying the same Idempotency-Key reserve at most    *)
(* one unit" (WithIdempotency): whatever retries, double submits, crashes  *)
(* and failed statements there are, a key creates one order.               *)
OneOrderPerKey ==
    \A o1, o2 \in DOMAIN orders : orders[o1].key = orders[o2].key => o1 = o2

(* The same, short of a commit whose answer the process never saw: crashes, *)
(* ended contexts, and a record or a release that fails do not make a key  *)
(* create a second order.                                                  *)
OneOrderPerAnsweredKey ==
    \A o1, o2 \in DOMAIN orders :
        orders[o1].key = orders[o2].key => o1 = o2 \/ orders[o1].key \in lost

(* All 201 answers to one key name the same order, created by that key,    *)
(* and of the product each of them asked for: a replay neither mixes up    *)
(* orders nor hands out a product that was not asked for.                  *)
AnswersAgree ==
    /\ \A a \in answers :
        /\ a.order \in DOMAIN orders
        /\ orders[a.order] = [key |-> a.key, product |-> a.product]
    /\ \A a, b \in answers : a.key = b.key => a.order = b.order

(* A key that has produced an order is never released, and its answer is   *)
(* never overwritten: the order_id IS NULL guards of both statements.      *)
RecordedForGood ==
    [][\A k \in DOMAIN keys : keys[k].order # NoOrder => k \in DOMAIN keys' /\ keys'[k] = keys[k]]_vars

InProgress(k) == k \in DOMAIN keys /\ keys[k].order = NoOrder

(* A key in progress is settled: recorded with its order, or released so   *)
(* that the retry ErrReserveInProgress invites can succeed.  An error of   *)
(* the wrapped strategy, or a lost answer, never leaves the key behind;    *)
(* only a crash, an ended context or a failed statement while the key was  *)
(* claimed can.                                                            *)
ClaimSettled == \A k \in Key : InProgress(k) ~> ~InProgress(k) \/ k \in dropped
=============================================================================
