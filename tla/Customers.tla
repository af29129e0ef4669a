----------------------------- MODULE Customers -----------------------------
(***************************************************************************)
(* Who a caller is: customers.Link and the two resolvers, statement by     *)
(* statement, for GET /me and GET /orders (autocommitted statements) and   *)
(* for the three arms of POST /orders (inside the reserve transaction, or  *)
(* before the single statement of the cte arm).                            *)
(*                                                                         *)
(* customers has two unique columns.  A statement that would clash with a  *)
(* row some open transaction has written waits for it; PostgreSQL then     *)
(* raises 23505 or, for the arbiter column of an upsert, turns to the      *)
(* update.  After an error a transaction is aborted: all that follows in   *)
(* it fails.  orders.customer_id is a foreign key: inserting an order      *)
(* needs the customer's row, and waits for a transaction that has written  *)
(* it.  The stock row of the one product is here for its lock alone.       *)
(*                                                                         *)
(* Cognito is external.  A token carries a subject and the email of the    *)
(* time it was issued, or none; it stays valid after the email changes,    *)
(* and an address may pass from one user to another.                       *)
(*                                                                         *)
(* An operator named Mutant... is the definition after it with a plausible *)
(* bug: no specification uses it, only the mutation runs put it in place.  *)
(***************************************************************************)
EXTENDS Integers, FiniteSets

CONSTANTS
    Request,       \* request goroutines
    Subject,       \* Cognito subjects
    Email,         \* email addresses
    OldEmail,      \* the address of a row from before cognito_sub existed
    Blank,         \* the email of a token without an email claim
    Null,          \* SQL NULL, no process, no id
    Deployments,   \* [arm, cached]: RESERVE_STRATEGY and CUSTOMER_CACHE
    Circulations,  \* bound: the sets of tokens Cognito has issued
    MaxCalls,      \* bound: calls made
    MaxFaults      \* bound: lost connections, restarts

LinkAttempts == 3
Address == Email \cup {Blank}
Token == [sub : Subject, email : Address]

ASSUME CustomersAssumption ==
    /\ Deployments \subseteq [arm : {"baseline", "reserve-last", "cte"}, cached : BOOLEAN]
    /\ OldEmail \in Email /\ Blank \notin Email /\ Null \notin Subject \cup Request
    /\ Circulations \subseteq SUBSET Token
    /\ MaxCalls \in Nat /\ MaxFaults \in Nat

RowId == 1..(MaxCalls + 1)      \* a row left from before, and one per call
Row == [email : Address, sub : Subject \cup {Null}]

VARIABLES
    customers,    \* the committed rows, by id
    seq,          \* customers_id_seq: never rolled back
    orders,       \* the committed orders: who ordered, under which customer id
    written,      \* per request: the customer row its transaction has written
    stockLock,    \* the request whose transaction has written the stock row
    cache,        \* CachedResolver.ids
    pc, job, try, \* per request: next statement; token, customer id, and whether
                  \* the caller was known when it began (history); attempt
    surfaced,     \* why Link has given up so far
    deploy, tokens, calls, faults

vars == <<customers, seq, orders, written, stockLock, cache, pc, job, try, surfaced,
          deploy, tokens, calls, faults>>
rows == <<customers, seq, written>>
environment == <<deploy, tokens, calls, faults>>

NoRow == [k \in {} |-> k]
Idle == [kind |-> "idle"]

InTx(self) == job[self].kind = "reserve" /\ deploy.arm # "cte"

(* The transaction has inserted its order: it holds the row the foreign    *)
(* key names FOR KEY SHARE until it ends.                                  *)
KeyShares(self, id) ==
    /\ InTx(self)
    /\ job[self].id = id
    /\ pc[self] = "commit" \/ (pc[self] = "reserve" /\ deploy.arm = "reserve-last")

Clash(row, other) == row.email = other.email \/ (row.sub # Null /\ row.sub = other.sub)

(* No open transaction holds the row or has written a clashing one.        *)
MutantFree(self, id, row) == \A q \in Request \ {self} : id \notin DOMAIN written[q]
Free(self, id, row) ==
    \A q \in Request \ {self} :
        /\ ~KeyShares(q, id)
        /\ \A k \in DOMAIN written[q] :
            /\ k # id
            /\ ~Clash(row, written[q][k])
            /\ k \in DOMAIN customers => ~Clash(row, customers[k])

Duplicate(id, row) == \E k \in DOMAIN customers \ {id} : Clash(row, customers[k])

Put(table, id, row) == [k \in DOMAIN table \cup {id} |-> IF k = id THEN row ELSE table[k]]

(* A row is written: for good, or until the transaction ends.              *)
Write(self, id, row) ==
    IF InTx(self)
      THEN written' = [written EXCEPT ![self] = Put(NoRow, id, row)] /\ UNCHANGED customers
      ELSE customers' = Put(customers, id, row) /\ UNCHANGED written

----------------------------------------------------------------------------
(* Control.                                                                *)

(* The call is over; defer tx.Rollback drops what was not committed.       *)
MutantRelease(self) == written' = [written EXCEPT ![self] = NoRow] /\ UNCHANGED stockLock
Release(self) ==
    /\ written' = [written EXCEPT ![self] = NoRow]
    /\ stockLock' = IF stockLock = self THEN Null ELSE stockLock

Leave(self) ==
    /\ pc' = [pc EXCEPT ![self] = "idle"]
    /\ job' = [job EXCEPT ![self] = Idle]
    /\ try' = [try EXCEPT ![self] = 1]

Fail(self) == Leave(self) /\ Release(self) /\ UNCHANGED customers

(* Link has the caller's row.  A read answers with it; a reservation goes  *)
(* on with its id, which CachedResolver keeps.                             *)
Linked(self, id) ==
    /\ IF job[self].kind = "reserve"
         THEN /\ pc' = [pc EXCEPT ![self] = IF deploy.arm = "baseline" THEN "reserve" ELSE "create"]
              /\ job' = [job EXCEPT ![self].id = id]
              /\ cache' = IF deploy.cached THEN [cache EXCEPT ![job[self].token.sub] = id] ELSE cache
              /\ UNCHANGED try
         ELSE Leave(self) /\ UNCHANGED cache

(* The caller's email is on a row that is not theirs.                      *)
Taken(token) == \E k \in DOMAIN customers : customers[k].email = token.email /\ customers[k].sub # token.sub

(* 23505.  Outside a transaction Link tries again, LinkAttempts in all;    *)
(* inside, the transaction is aborted and the next lookup fails.           *)
MutantUniqueViolation(self) ==
    /\ surfaced' = surfaced \cup {IF Taken(job[self].token) THEN "taken" ELSE IF InTx(self) THEN "race in tx" ELSE "race"}
    /\ Fail(self)
    /\ UNCHANGED cache
UniqueViolation(self) ==
    LET token == job[self].token
        reason == IF Taken(token) THEN "taken" ELSE IF InTx(self) THEN "race in tx" ELSE "race"
    IN  /\ IF ~InTx(self) /\ try[self] < LinkAttempts
             THEN /\ pc' = [pc EXCEPT ![self] = "find"]
                  /\ try' = [try EXCEPT ![self] = @ + 1]
                  /\ UNCHANGED <<job, customers, written, stockLock, surfaced>>
             ELSE surfaced' = surfaced \cup {reason} /\ Fail(self)
        /\ UNCHANGED cache

----------------------------------------------------------------------------
(* A known caller: the row of the subject carries the token's email.       *)
Known(token) ==
    \E k \in DOMAIN customers :
        customers[k].sub = token.sub /\ token.email \in {customers[k].email, Blank}

(* POST /orders, or a read: GET /orders and GET /me (which turns a token   *)
(* without email away before this), up to the first statement.             *)
Begin(self, kind, token) ==
    LET cached == IF kind = "reserve" /\ deploy.cached THEN cache[token.sub] ELSE Null
        linked == IF deploy.arm = "baseline" THEN "reserve" ELSE "create"
    IN  /\ pc[self] = "idle"
        /\ calls < MaxCalls
        /\ calls' = calls + 1
        /\ job' = [job EXCEPT ![self] = [kind |-> kind, token |-> token, id |-> cached, known |-> Known(token)]]
        /\ pc' = [pc EXCEPT ![self] = IF cached = Null THEN "find" ELSE linked]
        /\ UNCHANGED <<rows, orders, stockLock, cache, try, surfaced, deploy, tokens, faults>>

MutantFindForUpdate(self) ==
    LET mine == {k \in DOMAIN customers : customers[k].sub = job[self].token.sub}
    IN  /\ pc[self] = "find"
        /\ \/ /\ mine = {}
              /\ pc' = [pc EXCEPT ![self] = "upsert"]
              /\ UNCHANGED <<job, try, cache, customers, written>>
           \/ \E id \in mine :
                /\ Free(self, id, customers[id])
                /\ Write(self, id, customers[id])
                /\ Linked(self, id)
        /\ UNCHANGED <<seq, orders, stockLock, surfaced, environment>>
MutantFindByEmail(self) ==
    LET mine == {k \in DOMAIN customers : customers[k].email = job[self].token.email}
    IN  /\ pc[self] = "find"
        /\ IF mine = {}
             THEN pc' = [pc EXCEPT ![self] = "upsert"] /\ UNCHANGED <<job, try, cache>>
             ELSE \E id \in mine : Linked(self, id)
        /\ UNCHANGED <<rows, orders, stockLock, surfaced, environment>>
FindCustomerBySub(self) ==
    LET token == job[self].token
        mine == {k \in DOMAIN customers : customers[k].sub = token.sub}
    IN  /\ pc[self] = "find"
        /\ \/ /\ mine = {}
              /\ pc' = [pc EXCEPT ![self] = "upsert"]
              /\ UNCHANGED <<job, try, cache>>
           \/ \E id \in mine :
                /\ customers[id].email = token.email \/ token.email = Blank
                /\ Linked(self, id)
           \/ \E id \in mine :
                /\ customers[id].email # token.email /\ token.email # Blank
                /\ pc' = [pc EXCEPT ![self] = "update"]
                /\ job' = [job EXCEPT ![self].id = id]
                /\ UNCHANGED <<try, cache>>
        /\ UNCHANGED <<rows, orders, stockLock, surfaced, environment>>

(* The email changed in Cognito: adopt it onto the subject's row.          *)
UpdateCustomerEmail(self) ==
    LET id == job[self].id
        row == [customers[id] EXCEPT !.email = job[self].token.email]
    IN  /\ pc[self] = "update"
        /\ Free(self, id, row)
        /\ \/ Duplicate(id, row) /\ UniqueViolation(self)
           \/ /\ ~Duplicate(id, row)
              /\ Write(self, id, row)
              /\ Linked(self, id)
              /\ UNCHANGED <<stockLock, surfaced>>
        /\ UNCHANGED <<seq, orders, environment>>

(* COALESCE: a row without a subject is adopted, any other kept.           *)
MutantAdopted(row, sub) == [row EXCEPT !.sub = sub]
Adopted(row, sub) == [row EXCEPT !.sub = IF @ = Null THEN sub ELSE @]

(* INSERT ... ON CONFLICT (email) DO UPDATE: an id is drawn in any case,   *)
(* and the row locked even where COALESCE leaves it as it is.              *)
LinkCustomer(self) ==
    LET token == job[self].token
        holder == {k \in DOMAIN customers : customers[k].email = token.email}
        id == IF holder = {} THEN seq ELSE CHOOSE k \in holder : TRUE
        row == IF holder = {} THEN token ELSE Adopted(customers[id], token.sub)
    IN  /\ pc[self] = "upsert"
        /\ Free(self, id, token) /\ Free(self, id, row)
        /\ \/ Duplicate(id, row) /\ UniqueViolation(self)
           \/ /\ ~Duplicate(id, row)
              /\ Write(self, id, row)
              /\ Linked(self, id)
              /\ UNCHANGED <<stockLock, surfaced>>
        /\ seq' = seq + 1
        /\ UNCHANGED <<orders, environment>>

----------------------------------------------------------------------------
(* The rest of a reservation.                                              *)

(* No such product, or no unit free: 404 or 409.                           *)
Refused(self) ==
    /\ pc[self] = "reserve" \/ (pc[self] = "create" /\ deploy.arm # "baseline")
    /\ Fail(self)
    /\ UNCHANGED <<seq, orders, cache, surfaced, environment>>

ReserveStock(self) ==
    /\ pc[self] = "reserve"
    /\ stockLock = Null
    /\ stockLock' = self
    /\ pc' = [pc EXCEPT ![self] = IF deploy.arm = "baseline" THEN "create" ELSE "commit"]
    /\ UNCHANGED <<rows, orders, cache, job, try, surfaced, environment>>

(* The row the foreign key names, and whoever has written it.              *)
Exists(self) == job[self].id \in DOMAIN customers \cup DOMAIN written[self]
Referenced(self, q) == job[self].id \in DOMAIN customers \cap DOMAIN written[q]

CreateOrder(self) ==
    /\ pc[self] = "create"
    /\ deploy.arm # "cte"
    /\ \/ /\ ~Exists(self)          \* 23503
          /\ Fail(self)
       \/ /\ Exists(self)
          /\ \A q \in Request \ {self} : ~Referenced(self, q)
          /\ pc' = [pc EXCEPT ![self] = IF deploy.arm = "baseline" THEN "commit" ELSE "reserve"]
          /\ UNCHANGED <<customers, written, stockLock, job, try>>
    /\ UNCHANGED <<seq, orders, cache, surfaced, environment>>

Order(self) == [sub |-> job[self].token.sub, customer |-> job[self].id]

ReserveAndCreateOrder(self) ==
    /\ pc[self] = "create"
    /\ deploy.arm = "cte"
    /\ orders' = IF Exists(self) THEN orders \cup {Order(self)} ELSE orders
    /\ Fail(self)
    /\ UNCHANGED <<seq, cache, surfaced, environment>>

Commit(self) ==
    /\ pc[self] = "commit"
    /\ customers' = [k \in DOMAIN customers \cup DOMAIN written[self] |->
                        IF k \in DOMAIN written[self] THEN written[self][k] ELSE customers[k]]
    /\ orders' = orders \cup {Order(self)}
    /\ Leave(self) /\ Release(self)
    /\ UNCHANGED <<seq, cache, surfaced, environment>>

----------------------------------------------------------------------------
(* Locks.  Link is the first statement of a transaction: while it waits    *)
(* it holds nothing.                                                       *)
WaitsFor(self, q) ==
    /\ q # self
    /\ \/ pc[self] = "reserve" /\ stockLock = q
       \/ pc[self] = "create" /\ Exists(self) /\ Referenced(self, q)

(* Two transactions wait for each other: PostgreSQL fails one of them.     *)
Deadlocked(self, q) == WaitsFor(self, q) /\ WaitsFor(q, self)

DeadlockDetected(self) ==
    /\ \E q \in Request : Deadlocked(self, q)
    /\ Fail(self)
    /\ UNCHANGED <<seq, orders, cache, surfaced, environment>>

(* The connection is lost or the request's context ends.                   *)
Abort(self) ==
    /\ pc[self] # "idle"
    /\ faults < MaxFaults /\ faults' = faults + 1
    /\ Fail(self)
    /\ UNCHANGED <<seq, orders, cache, surfaced, deploy, tokens, calls>>

Restart ==
    /\ faults < MaxFaults /\ faults' = faults + 1
    /\ cache' = [s \in Subject |-> Null]
    /\ pc' = [self \in Request |-> "idle"]
    /\ job' = [self \in Request |-> Idle]
    /\ try' = [self \in Request |-> 1]
    /\ written' = [self \in Request |-> NoRow]
    /\ stockLock' = Null
    /\ UNCHANGED <<customers, seq, orders, surfaced, deploy, tokens, calls>>

----------------------------------------------------------------------------
(* The table is empty, or holds a row from before cognito_sub existed.     *)
Init ==
    /\ customers \in {NoRow, Put(NoRow, 1, [email |-> OldEmail, sub |-> Null])}
    /\ seq = Cardinality(DOMAIN customers) + 1
    /\ orders = {}
    /\ written = [self \in Request |-> NoRow]
    /\ stockLock = Null
    /\ cache = [s \in Subject |-> Null]
    /\ pc = [self \in Request |-> "idle"]
    /\ job = [self \in Request |-> Idle]
    /\ try = [self \in Request |-> 1]
    /\ surfaced = {}
    /\ deploy \in Deployments
    /\ tokens \in Circulations
    /\ calls = 0 /\ faults = 0

Continue(self) ==
    \/ FindCustomerBySub(self) \/ UpdateCustomerEmail(self) \/ LinkCustomer(self)
    \/ ReserveStock(self) \/ CreateOrder(self) \/ ReserveAndCreateOrder(self)
    \/ Commit(self) \/ DeadlockDetected(self)

Next ==
    \/ \E self \in Request, kind \in {"read", "reserve"}, token \in tokens : Begin(self, kind, token)
    \/ \E self \in Request : Continue(self) \/ Refused(self) \/ Abort(self)
    \/ Restart

Spec == Init /\ [][Next]_vars

(* A started request goes on; nothing is assumed of callers or of Cognito. *)
FairSpec == Spec /\ \A self \in Request : WF_vars(Continue(self))

----------------------------------------------------------------------------
(* Types; and the two unique columns are unique among the committed rows   *)
(* and whatever an open transaction may still commit.                      *)
TypeOK ==
    /\ DOMAIN customers \subseteq RowId /\ customers \in [DOMAIN customers -> Row]
    /\ seq \in 1..(MaxCalls + 2)
    /\ orders \subseteq [sub : Subject, customer : RowId]
    /\ stockLock \in Request \cup {Null}
    /\ cache \in [Subject -> RowId \cup {Null}]
    /\ \A self \in Request :
        /\ DOMAIN written[self] \subseteq RowId /\ written[self] \in [DOMAIN written[self] -> Row]
        /\ try[self] \in 1..LinkAttempts
        /\ \A k \in DOMAIN written[self] : ~Duplicate(k, written[self][k])
    /\ \A k \in DOMAIN customers : ~Duplicate(k, customers[k])
    /\ surfaced \subseteq {"taken", "race", "race in tx"}

(* Two users have carried the email of a token of this subject.            *)
SharesEmail(s) ==
    \E t, u \in tokens : t.sub = s /\ u.sub # s /\ t.email = u.email

(* An order is placed under the customers row of the user who placed it,   *)
(* through lost races, changed emails, adopted rows, the cache, rollbacks  *)
(* and restarts.  Two exceptions: an email two users have had, which the   *)
(* comment of LinkCustomer calls the hole; and, with the cache, a row      *)
(* whose adoption was rolled back, which then belongs to no subject.       *)
OrdersAreTheirCallers ==
    \A o \in orders :
        /\ o.customer \in DOMAIN customers
        /\ \/ customers[o.customer].sub = o.sub
           \/ SharesEmail(o.sub)
           \/ deploy.cached /\ customers[o.customer].sub = Null

(* A row that has a subject keeps it, and no row goes away: what Link has  *)
(* once answered stays true (the resolver's cache counts on it).           *)
SubjectsKeep ==
    [][\A k \in DOMAIN customers :
        /\ k \in DOMAIN customers'
        /\ customers[k].sub # Null => customers'[k].sub = customers[k].sub]_vars

(* Link retries a lost race rather than surfacing it: what it surfaces     *)
(* outside a transaction is an email on a row that is not the caller's,    *)
(* never two first requests of one user.                                   *)
LostRaceIsRetried == "race" \notin surfaced

(* The subject has had two addresses in Cognito, and tokens of both are    *)
(* about.                                                                  *)
EmailChanged(s) ==
    \E t, u \in tokens : t.sub = s /\ u.sub = s /\ t.email # u.email /\ Blank \notin {t.email, u.email}

Settled(self) == job[self].known /\ ~EmailChanged(job[self].token.sub)

(* Only the baseline arm can deadlock on a customers row, and only with a  *)
(* reservation that has to write its own row, as a newcomer or because     *)
(* its email changed: it writes the row and waits for the stock its rival  *)
(* holds while the rival's order waits for the row.  Settled callers never *)
(* wait for each other in a circle.                                        *)
DeadlocksNeedAnUnsettledCaller ==
    \A self, q \in Request : Deadlocked(self, q) =>
        deploy.arm = "baseline" /\ ~(Settled(self) /\ Settled(q))

(* Every request is answered: the retries end, the locks it waits for are  *)
(* released, a deadlock is broken.                                         *)
EveryCallEnds == \A self \in Request : pc[self] # "idle" ~> pc[self] = "idle"
=============================================================================
