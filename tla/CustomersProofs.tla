-------------------------- MODULE CustomersProofs --------------------------
(***************************************************************************)
(* Proofs about Customers: the two unique columns stay unique, orders are  *)
(* placed under the rows of their callers, lost races are retried, and     *)
(* only an unsettled caller can deadlock, for any number of requests,      *)
(* users, addresses, tokens and calls, in every arm.                       *)
(***************************************************************************)
EXTENDS Customers, FiniteSetTheorems, TLAPS

(* The statements that follow Link in a reservation.                       *)
Late == {"reserve", "create", "commit"}

Job == [kind : {"read", "reserve"}, token : tokens, id : RowId \cup {Null}, known : BOOLEAN]

(* A row that has a subject has an email of a token of that subject.       *)
Carried(row) == \E t \in tokens : t.sub = row.sub /\ t.email = row.email

(* What a row must be for self to store it under id: it belongs to a       *)
(* user, clashes with nothing that is committed or may still be, and keeps *)
(* the subject (or, of a row without one, the email) of the row it         *)
(* replaces.                                                               *)
Fits(self, id, row) ==
    /\ row \in Row /\ row.sub # Null /\ Carried(row)
    /\ ~Duplicate(id, row)
    /\ \A q \in Request \ {self} : \A k \in DOMAIN written[q] : k # id /\ ~Clash(row, written[q][k])
    /\ id \in DOMAIN customers =>
         /\ customers[id].sub # Null => row.sub = customers[id].sub
         /\ customers[id].sub = Null => row.email = customers[id].email
         /\ customers[id].email # Blank => row.email # Blank

(* The committed rows.                                                     *)
TableOK ==
    /\ seq \in Nat \ {0}
    /\ DOMAIN customers \subseteq 1..(seq - 1) /\ customers \in [DOMAIN customers -> Row]
    /\ \A k \in DOMAIN customers : ~Duplicate(k, customers[k])
    /\ \A k \in DOMAIN customers : customers[k].sub # Null => Carried(customers[k])

(* The rows of open transactions.                                          *)
WrittenOK ==
    /\ DOMAIN written = Request /\ written = [p \in Request |-> written[p]]
    /\ \A self \in Request :
         /\ written[self] = [k \in DOMAIN written[self] |-> written[self][k]]
         /\ \A k \in DOMAIN written[self] : k \in 1..(seq - 1) /\ Fits(self, k, written[self][k])

(* The row may stand for the user s: it is theirs, or belongs to nobody    *)
(* yet and has an email of theirs; or two users have had that email.       *)
Bound(s, row) ==
    \/ row.sub = s
    \/ SharesEmail(s)
    \/ row.sub = Null /\ \E t \in tokens : t.sub = s /\ t.email = row.email

(* Whatever is or will be stored under id may stand for s.                 *)
Standing(s, id) ==
    /\ id \in 1..(seq - 1)
    /\ id \in DOMAIN customers => Bound(s, customers[id])
    /\ \A q \in Request : id \in DOMAIN written[q] => Bound(s, written[q][id])

(* Without the cache the row a reservation goes on with is its caller's.   *)
Firm(self) ==
    LET s == job[self].token.sub
        id == job[self].id
    IN  \/ deploy.cached
        \/ SharesEmail(s)
        \/ id \in DOMAIN written[self] /\ written[self][id].sub = s
        \/ id \in DOMAIN customers /\ customers[id].sub = s

(* The caller has a committed row.                                         *)
Mine(self) == \E k \in DOMAIN customers : customers[k].sub = job[self].token.sub

(* A caller who was known has a row, whose email is the token's or has     *)
(* changed since.                                                          *)
Remembered(self) ==
    LET token == job[self].token
    IN  /\ Mine(self)
        /\ \/ EmailChanged(token.sub) \/ token.email = Blank
           \/ \E k \in DOMAIN customers : customers[k].sub = token.sub /\ customers[k].email # Blank

(* What a request knows at each of its statements.                         *)
Linking(self) ==
    LET token == job[self].token
        id == job[self].id
    IN  /\ pc[self] = "find" => (try[self] > 1 => Mine(self)) /\ (job[self].known => Remembered(self))
        /\ pc[self] = "upsert" => try[self] = 1 /\ ~job[self].known
        /\ pc[self] = "update" =>
             /\ id \in DOMAIN customers /\ customers[id].sub = token.sub /\ token.email # Blank
             /\ job[self].known => EmailChanged(token.sub)

Reserving(self) ==
    /\ pc[self] \in Late =>
         /\ job[self].kind = "reserve"
         /\ Standing(job[self].token.sub, job[self].id) /\ Firm(self)
         /\ job[self].known /\ DOMAIN written[self] # {} => EmailChanged(job[self].token.sub)
    /\ pc[self] \in {"reserve", "commit"} => deploy.arm # "cte"
    /\ pc[self] = "commit" \/ (pc[self] = "reserve" /\ deploy.arm = "reserve-last") => Exists(self)

Local(self) ==
    /\ pc[self] \in {"idle", "find", "update", "upsert"} \cup Late /\ try[self] \in 1..LinkAttempts
    /\ IF pc[self] = "idle" THEN try[self] = 1 ELSE job[self] \in Job
    /\ \A k \in DOMAIN written[self] : k = job[self].id /\ pc[self] \in Late /\ deploy.arm # "cte"
    /\ Linking(self)
    /\ Reserving(self)

ProcessesOK ==
    /\ DOMAIN pc = Request /\ DOMAIN job = Request /\ DOMAIN try = Request
    /\ \A self \in Request : Local(self)

(* Only a reservation that has written the stock row holds it.             *)
StockOK ==
    /\ stockLock \in Request \cup {Null}
    /\ \A self \in Request : stockLock = self =>
         pc[self] = "commit" \/ (pc[self] = "create" /\ deploy.arm = "baseline")

(* The resolver's cache.                                                   *)
CacheOK ==
    /\ cache \in [Subject -> RowId \cup {Null}]
    /\ \A s \in Subject : cache[s] # Null => Standing(s, cache[s])

OrderOK(o) ==
    /\ o \in [sub : Subject, customer : RowId]
    /\ o.customer \in DOMAIN customers /\ Standing(o.sub, o.customer)
    /\ deploy.cached \/ SharesEmail(o.sub) \/ customers[o.customer].sub = o.sub

OrdersOK == \A o \in orders : OrderOK(o)

(* Who may still draw an id: a call draws one at most, because after a     *)
(* failed upsert its caller has a row.                                     *)
Pending == {self \in Request : pc[self] = "upsert" \/ (pc[self] = "find" /\ ~Mine(self))}

NumbersOK ==
    /\ calls \in 0..MaxCalls
    /\ IsFiniteSet(Pending)
    /\ seq + Cardinality(Pending) <= calls + 2

SettingOK ==
    /\ deploy \in [arm : {"baseline", "reserve-last", "cte"}, cached : BOOLEAN]
    /\ tokens \subseteq Token

SurfacedOK == surfaced \subseteq {"taken", "race in tx"}

IInv ==
    /\ SettingOK /\ TableOK /\ WrittenOK /\ ProcessesOK /\ StockOK
    /\ CacheOK /\ OrdersOK /\ NumbersOK /\ SurfacedOK

(* How the committed rows change: none goes away, a subject is kept, and   *)
(* an email is never dropped.                                              *)
Grown ==
    \A k \in DOMAIN customers :
        /\ k \in DOMAIN customers'
        /\ customers[k].sub # Null => customers'[k].sub = customers[k].sub
        /\ customers[k].email # Blank => customers'[k].email # Blank

Lasting == \A s \in Subject : \A id : Standing(s, id) => Standing(s, id)'

----------------------------------------------------------------------------
(* Two rows clash or not whichever comes first.                            *)
LEMMA ClashSymmetric == ASSUME NEW a, NEW b PROVE Clash(a, b) <=> Clash(b, a)
  BY DEF Clash

(* A row that replaces one that may stand for s may stand for s as well.   *)
LEMMA BoundStays ==
    ASSUME NEW s \in Subject, NEW self, NEW id \in DOMAIN customers, NEW row,
           Bound(s, customers[id]), Fits(self, id, row)
    PROVE  Bound(s, row)
  <1>1. CASE customers[id].sub = s
    BY <1>1, CustomersAssumption DEF Bound, Fits
  <1>2. CASE SharesEmail(s)
    BY <1>2 DEF Bound
  <1>3. CASE customers[id].sub = Null /\ \E t \in tokens : t.sub = s /\ t.email = customers[id].email
    <2>1. row.email = customers[id].email
      BY <1>3 DEF Fits
    <2>2. PICK u \in tokens : u.sub = row.sub /\ u.email = row.email
      BY DEF Fits, Carried
    <2> QED
      BY <1>3, <2>1, <2>2 DEF Bound, SharesEmail
  <1> QED
    BY <1>1, <1>2, <1>3 DEF Bound

(* Steps that store no row: transactions may end, ids may be drawn.        *)
LEMMA TablesRest ==
    ASSUME TableOK, WrittenOK, UNCHANGED <<customers, tokens>>, seq' \in Nat, seq' >= seq,
           DOMAIN written' = Request, written' = [p \in Request |-> written'[p]],
           \A q \in Request : written'[q] = written[q] \/ written'[q] = NoRow
    PROVE  TableOK' /\ WrittenOK' /\ Grown /\ Lasting
  <1>1. DOMAIN NoRow = {} /\ NoRow = [k \in DOMAIN NoRow |-> NoRow[k]]
    BY DEF NoRow
  <1>2. 1..(seq - 1) \subseteq 1..(seq' - 1)
    BY DEF TableOK
  <1>3. TableOK'
    BY <1>2 DEF TableOK, Duplicate, Carried
  <1>4. \A q \in Request : \A k \in DOMAIN written'[q] : k \in DOMAIN written[q] /\ written'[q][k] = written[q][k]
    BY <1>1
  <1>5. ASSUME NEW q \in Request, NEW k \in DOMAIN written'[q] PROVE Fits(q, k, written[q][k])'
    <2>1. PICK row : row = written[q][k]
      OBVIOUS
    <2>2. Fits(q, k, row) /\ written'[q][k] = row
      BY <1>4, <1>5, <2>1 DEF WrittenOK
    <2>3. Fits(q, k, row)'
      BY <1>4, <2>2 DEF Fits, Carried, Duplicate
    <2> QED
      BY <2>2, <2>3
  <1>6. WrittenOK'
    BY <1>1, <1>2, <1>4, <1>5 DEF WrittenOK
  <1>7. Grown
    BY DEF Grown
  <1>8. Lasting
    BY <1>2, <1>4 DEF Lasting, Standing, Bound, SharesEmail
  <1> QED
    BY <1>3, <1>6, <1>7, <1>8

(* A transaction writes its row.                                           *)
LEMMA TablesHold ==
    ASSUME TableOK, WrittenOK, NEW self \in Request, NEW id, NEW row, DOMAIN written[self] = {},
           Fits(self, id, row), UNCHANGED <<customers, tokens>>, seq' \in Nat, seq' >= seq,
           id \in 1..(seq' - 1), id \in DOMAIN customers \/ id = seq,
           written' = [written EXCEPT ![self] = Put(NoRow, id, row)]
    PROVE  TableOK' /\ WrittenOK' /\ Grown /\ Lasting
  <1>1. /\ DOMAIN written' = Request /\ written' = [p \in Request |-> written'[p]]
        /\ \A q \in Request : q # self => written'[q] = written[q]
        /\ written'[self] = Put(NoRow, id, row)
    BY DEF WrittenOK
  <1>2. /\ DOMAIN written'[self] = {id} /\ written'[self][id] = row
        /\ written'[self] = [k \in DOMAIN written'[self] |-> written'[self][k]]
    BY <1>1 DEF Put, NoRow
  <1>3. 1..(seq - 1) \subseteq 1..(seq' - 1) /\ seq \notin 1..(seq - 1)
    BY DEF TableOK
  <1>4. TableOK'
    BY <1>3 DEF TableOK, Duplicate, Carried
  <1>5. Fits(self, id, row)'
    BY <1>1 DEF Fits, Carried, Duplicate
  <1>6. ASSUME NEW q \in Request, q # self, NEW k \in DOMAIN written[q] PROVE Fits(q, k, written[q][k])'
    <2>1. PICK w : w = written[q][k]
      OBVIOUS
    <2>2. Fits(q, k, w) /\ written'[q][k] = w
      BY <1>1, <1>6, <2>1 DEF WrittenOK
    <2>3. k # id /\ ~Clash(w, row)
      BY <1>6, <2>1, ClashSymmetric DEF Fits
    <2>4. \A p \in Request \ {q} : \A m \in DOMAIN written'[p] : m # k /\ ~Clash(w, written'[p][m])
      BY <1>1, <1>2, <2>2, <2>3 DEF Fits
    <2>5. Fits(q, k, w)'
      BY <2>2, <2>4 DEF Fits, Carried, Duplicate
    <2> QED
      BY <2>2, <2>5
  <1>7. WrittenOK'
    <2> SUFFICES ASSUME NEW q \in Request
                 PROVE  /\ written'[q] = [k \in DOMAIN written'[q] |-> written'[q][k]]
                        /\ \A k \in DOMAIN written'[q] : k \in 1..(seq' - 1) /\ Fits(q, k, written[q][k])'
      BY <1>1 DEF WrittenOK
    <2>1. CASE q = self
      BY <1>2, <1>5, <2>1
    <2>2. CASE q # self
      BY <1>1, <1>3, <1>6, <2>2 DEF WrittenOK
    <2> QED
      BY <2>1, <2>2
  <1>8. Grown
    BY DEF Grown
  <1>9. Lasting
    <2> SUFFICES ASSUME NEW s \in Subject, NEW x, Standing(s, x) PROVE Standing(s, x)'
      BY DEF Lasting
    <2>1. x \in 1..(seq' - 1) /\ (x \in DOMAIN customers => Bound(s, customers[x]))
      BY <1>3 DEF Standing
    <2>2. x = id => Bound(s, row)
      BY <1>3, <2>1, BoundStays DEF Standing
    <2>3. \A q \in Request : x \in DOMAIN written'[q] => Bound(s, written'[q][x])
      BY <1>1, <1>2, <2>2 DEF Standing
    <2> QED
      BY <2>1, <2>3 DEF Standing, Bound, SharesEmail
  <1> QED
    BY <1>4, <1>7, <1>8, <1>9

(* A row is stored for good: by a statement of its own, or by the commit   *)
(* of the transaction that has written it.                                 *)
LEMMA TablesStore ==
    ASSUME TableOK, WrittenOK, NEW self \in Request, NEW id, NEW row,
           Fits(self, id, row), tokens' = tokens, seq' \in Nat, seq' >= seq, id \in 1..(seq' - 1),
           \/ id \in DOMAIN customers \/ id = seq
           \/ id \in DOMAIN written[self] /\ written[self][id] = row,
           customers' = Put(customers, id, row),
           DOMAIN written' = Request, written' = [p \in Request |-> written'[p]],
           \A q \in Request : q # self => written'[q] = written[q],
           written'[self] = NoRow
    PROVE  TableOK' /\ WrittenOK' /\ Grown /\ Lasting
  <1>1. /\ DOMAIN customers' = DOMAIN customers \cup {id} /\ customers'[id] = row
        /\ \A k \in DOMAIN customers : k # id => customers'[k] = customers[k]
        /\ customers' = [k \in DOMAIN customers' |-> customers'[k]]
    BY DEF Put
  <1>2. DOMAIN written'[self] = {} /\ written'[self] = [k \in DOMAIN written'[self] |-> written'[self][k]]
    BY DEF NoRow
  <1>3. 1..(seq - 1) \subseteq 1..(seq' - 1) /\ seq \notin 1..(seq - 1)
    BY DEF TableOK
  <1>4. \A k \in DOMAIN customers : k # id => ~Clash(customers[k], row) /\ ~Clash(row, customers[k])
    BY ClashSymmetric DEF Fits, Duplicate
  <1>5. TableOK'
    <2>1. seq' \in Nat \ {0} /\ DOMAIN customers' \subseteq 1..(seq' - 1)
      BY <1>1, <1>3 DEF TableOK
    <2>2. customers' \in [DOMAIN customers' -> Row]
      BY <1>1 DEF TableOK, Fits
    <2>3. ASSUME NEW k \in DOMAIN customers', NEW m \in DOMAIN customers' \ {k}
          PROVE  ~Clash(customers'[k], customers'[m])
      <3>1. CASE k = id
        BY <1>1, <1>4, <2>3, <3>1
      <3>2. CASE m = id
        BY <1>1, <1>4, <2>3, <3>2
      <3>3. CASE k # id /\ m # id
        BY <1>1, <2>3, <3>3 DEF TableOK, Duplicate
      <3> QED
        BY <3>1, <3>2, <3>3
    <2>4. \A k \in DOMAIN customers' : customers'[k].sub # Null => \E t \in tokens : t.sub = customers'[k].sub /\ t.email = customers'[k].email
      BY <1>1 DEF TableOK, Fits, Carried
    <2> QED
      BY <2>1, <2>2, <2>3, <2>4 DEF TableOK, Duplicate, Clash, Carried
  <1>6. ASSUME NEW q \in Request, q # self, NEW k \in DOMAIN written[q] PROVE Fits(q, k, written[q][k])'
    <2>1. PICK w : w = written[q][k]
      OBVIOUS
    <2>2. Fits(q, k, w) /\ written'[q][k] = w
      BY <1>6, <2>1 DEF WrittenOK
    <2>3. k # id /\ ~Clash(w, row)
      BY <1>6, <2>1, ClashSymmetric DEF Fits
    <2>4. \A p \in Request \ {q} : \A m \in DOMAIN written'[p] : m # k /\ ~Clash(w, written'[p][m])
      BY <1>2, <2>2 DEF Fits
    <2>5. \A m \in DOMAIN customers' \ {k} : ~Clash(w, customers'[m])
      BY <1>1, <2>2, <2>3 DEF Fits, Duplicate
    <2>6. k \in DOMAIN customers' => k \in DOMAIN customers /\ customers'[k] = customers[k]
      BY <1>1, <2>3
    <2>7. Fits(q, k, w)'
      BY <2>2, <2>4, <2>5, <2>6 DEF Fits, Carried, Duplicate, Clash
    <2> QED
      BY <2>2, <2>7
  <1>7. WrittenOK'
    <2> SUFFICES ASSUME NEW q \in Request
                 PROVE  /\ written'[q] = [k \in DOMAIN written'[q] |-> written'[q][k]]
                        /\ \A k \in DOMAIN written'[q] : k \in 1..(seq' - 1) /\ Fits(q, k, written[q][k])'
      BY DEF WrittenOK
    <2>1. CASE q = self
      BY <1>2, <2>1
    <2>2. CASE q # self
      BY <1>3, <1>6, <2>2 DEF WrittenOK
    <2> QED
      BY <2>1, <2>2
  <1>8. Grown
    <2> SUFFICES ASSUME NEW k \in DOMAIN customers
                 PROVE  /\ k \in DOMAIN customers'
                        /\ customers[k].sub # Null => customers'[k].sub = customers[k].sub
                        /\ customers[k].email # Blank => customers'[k].email # Blank
      BY DEF Grown
    <2>1. CASE k = id
      BY <1>1, <2>1 DEF Fits
    <2>2. CASE k # id
      BY <1>1, <2>2
    <2> QED
      BY <2>1, <2>2
  <1>9. Lasting
    <2> SUFFICES ASSUME NEW s \in Subject, NEW x, Standing(s, x) PROVE Standing(s, x)'
      BY DEF Lasting
    <2>1. x \in 1..(seq' - 1)
      BY <1>3 DEF Standing
    <2>2. x = id => Bound(s, row)
      BY <1>3, BoundStays DEF Standing
    <2>3. x \in DOMAIN customers' => Bound(s, customers'[x])
      BY <1>1, <2>2 DEF Standing
    <2>4. \A q \in Request : x \in DOMAIN written'[q] => Bound(s, written'[q][x])
      BY <1>2 DEF Standing
    <2> QED
      BY <2>1, <2>3, <2>4 DEF Standing, Bound, SharesEmail
  <1> QED
    BY <1>5, <1>7, <1>8, <1>9

----------------------------------------------------------------------------
(* Only self moves: the rest of the processes stay where they are.         *)
Only(self) ==
    /\ DOMAIN pc' = Request /\ DOMAIN job' = Request /\ DOMAIN try' = Request
    /\ \A q \in Request \ {self} :
         pc'[q] = pc[q] /\ job'[q] = job[q] /\ try'[q] = try[q] /\ written'[q] = written[q]

(* The subject of a job's token is a user.                                 *)
LEMMA TokenType ==
    ASSUME SettingOK, NEW self, job[self] \in Job
    PROVE  /\ job[self].token \in tokens /\ job[self].token \in Token
           /\ job[self].token.sub \in Subject /\ job[self].token.sub # Null
           /\ job[self].token.email \in Address
  BY CustomersAssumption DEF SettingOK, Job, Token

(* What a process knows of the tables lasts while it does not move.        *)
LEMMA LocalStays ==
    ASSUME SettingOK, Grown, Lasting, UNCHANGED <<deploy, tokens>>, NEW q \in Request, Local(q),
           pc'[q] = pc[q], job'[q] = job[q], try'[q] = try[q], written'[q] = written[q]
    PROVE  Local(q)'
  <1>1. CASE pc[q] = "idle"
    BY <1>1 DEF Local, Linking, Reserving, Late
  <1>2. CASE pc[q] # "idle"
    <2>1. job[q] \in Job /\ job'[q] \in Job'
      BY <1>2 DEF Local, Job
    <2>2. job[q].token.sub \in Subject /\ job[q].token.sub # Null
      BY <2>1, TokenType
    <2>3. Mine(q) => Mine(q)'
      BY <2>2 DEF Mine, Grown
    <2>4. Remembered(q) => Remembered(q)'
      <3>1. (\E k \in DOMAIN customers : customers[k].sub = job[q].token.sub /\ customers[k].email # Blank)
             => (\E k \in DOMAIN customers' : customers'[k].sub = job[q].token.sub /\ customers'[k].email # Blank)
        BY <2>2 DEF Grown
      <3>2. EmailChanged(job[q].token.sub) => EmailChanged(job[q].token.sub)'
        BY DEF EmailChanged
      <3> QED
        BY <2>3, <3>1, <3>2 DEF Remembered
    <2>5. Linking(q)'
      BY <2>2, <2>3, <2>4 DEF Local, Linking, Grown, EmailChanged
    <2>6. pc[q] \in Late => Firm(q)'
      BY <2>2 DEF Local, Reserving, Firm, SharesEmail, Grown
    <2>7. pc[q] \in Late => Standing(job[q].token.sub, job[q].id)'
      <3>1. PICK s \in Subject : s = job[q].token.sub
        BY <2>2
      <3>2. PICK id : id = job[q].id
        OBVIOUS
      <3>3. pc[q] \in Late => Standing(s, id)'
        BY <3>1, <3>2 DEF Lasting, Local, Reserving
      <3> QED
        BY <3>1, <3>2, <3>3
    <2>8. Exists(q) => Exists(q)'
      BY DEF Exists, Grown
    <2>9. Reserving(q)'
      BY <2>6, <2>7, <2>8 DEF Local, Reserving, EmailChanged
    <2> QED
      BY <1>2, <2>1, <2>5, <2>9 DEF Local
  <1> QED
    BY <1>1, <1>2

(* So only the process that moves has to be looked at.                     *)
LEMMA OthersStay ==
    ASSUME IInv, NEW self \in Request, Only(self), Grown, Lasting, UNCHANGED <<deploy, tokens>>, Local(self)'
    PROVE  ProcessesOK'
  <1>1. ASSUME NEW q \in Request, q # self PROVE Local(q)'
    BY <1>1, LocalStays DEF IInv, ProcessesOK, Only
  <1> QED
    BY <1>1 DEF ProcessesOK, Only

(* An order stays under its caller's row, and the cache stays right.       *)
LEMMA OrderStays ==
    ASSUME Grown, Lasting, UNCHANGED <<deploy, tokens>>, NEW o, OrderOK(o)
    PROVE  OrderOK(o)'
  <1>1. o.sub \in Subject /\ o.sub # Null /\ Standing(o.sub, o.customer) /\ o.customer \in DOMAIN customers
    BY CustomersAssumption DEF OrderOK
  <1>2. Standing(o.sub, o.customer)'
    BY <1>1 DEF Lasting
  <1> QED
    BY <1>1, <1>2 DEF OrderOK, SharesEmail, Grown

(* What the cache answers stays right while rows only grow.                *)
LEMMA CacheStays == ASSUME CacheOK, Lasting, cache' = cache PROVE CacheOK'
  <1>1. ASSUME NEW s \in Subject, cache[s] # Null PROVE Standing(s, cache[s])'
    <2>1. PICK id : id = cache[s]
      OBVIOUS
    <2>2. Standing(s, id)'
      BY <1>1, <2>1 DEF CacheOK, Lasting
    <2> QED
      BY <2>1, <2>2
  <1> QED
    BY <1>1 DEF CacheOK

(* Ids last: the calls that may still draw one never outnumber what is     *)
(* left of the bound.                                                      *)
LEMMA NumbersStay ==
    ASSUME IInv, NEW self \in Request, Only(self), Grown, calls' = calls,
           \/ seq' = seq /\ (self \in Pending' => self \in Pending)
           \/ seq' = seq + 1 /\ self \in Pending /\ self \notin Pending'
    PROVE  NumbersOK' /\ seq' <= MaxCalls + 2
  <1>1. IsFiniteSet(Pending) /\ Cardinality(Pending) \in Nat /\ seq + Cardinality(Pending) <= calls + 2
        /\ calls \in 0..MaxCalls /\ seq \in Nat
    BY FS_CardinalityType DEF IInv, NumbersOK, TableOK
  <1>2. ASSUME NEW q \in Pending', q # self PROVE q \in Pending
    <2>1. q \in Request /\ pc'[q] = pc[q] /\ job'[q] = job[q]
      BY <1>2 DEF Pending, Only
    <2>2. CASE pc[q] = "upsert"
      BY <2>1, <2>2 DEF Pending
    <2>3. CASE pc[q] = "find" /\ ~Mine(q)'
      <3>1. job[q].token.sub # Null
        BY <2>1, <2>3, TokenType DEF IInv, ProcessesOK, Local
      <3>2. ~Mine(q)
        BY <2>1, <2>3, <3>1 DEF Mine, Grown
      <3> QED
        BY <2>1, <2>3, <3>2 DEF Pending
    <2> QED
      BY <1>2, <2>1, <2>2, <2>3 DEF Pending
  <1>3. CASE seq' = seq /\ (self \in Pending' => self \in Pending)
    <2>1. Pending' \subseteq Pending
      BY <1>2, <1>3
    <2>2. IsFiniteSet(Pending') /\ Cardinality(Pending') <= Cardinality(Pending)
      BY <1>1, <2>1, FS_Subset
    <2>3. Cardinality(Pending') \in Nat
      BY <2>2, FS_CardinalityType
    <2> QED
      BY <1>1, <1>3, <2>2, <2>3, CustomersAssumption DEF NumbersOK
  <1>4. CASE seq' = seq + 1 /\ self \in Pending /\ self \notin Pending'
    <2>1. Pending' \subseteq Pending \ {self}
      BY <1>2, <1>4
    <2>2. /\ IsFiniteSet(Pending \ {self}) /\ Cardinality(Pending \ {self}) = Cardinality(Pending) - 1
      BY <1>1, <1>4, FS_RemoveElement
    <2>3. IsFiniteSet(Pending') /\ Cardinality(Pending') <= Cardinality(Pending \ {self})
      BY <2>1, <2>2, FS_Subset
    <2>4. Cardinality(Pending') \in Nat
      BY <2>3, FS_CardinalityType
    <2> QED
      BY <1>1, <1>4, <2>2, <2>3, <2>4, CustomersAssumption DEF NumbersOK
  <1> QED
    BY <1>3, <1>4

----------------------------------------------------------------------------
(* A call ends: with an error, an answer, or an order of its own.          *)
LEMMA FailInv ==
    ASSUME IInv, NEW self \in Request, Leave(self), Release(self),
           UNCHANGED <<customers, cache, deploy, tokens, calls>>,
           seq' = seq \/ (seq' = seq + 1 /\ self \in Pending),
           \A o \in orders' : o \in orders \/ OrderOK(o)',
           SurfacedOK'
    PROVE  IInv'
  <1>1. /\ pc' = [pc EXCEPT ![self] = "idle"] /\ job' = [job EXCEPT ![self] = Idle]
        /\ try' = [try EXCEPT ![self] = 1] /\ written' = [written EXCEPT ![self] = NoRow]
        /\ stockLock' = IF stockLock = self THEN Null ELSE stockLock
    BY DEF Leave, Release
  <1>2. /\ DOMAIN written' = Request /\ written' = [p \in Request |-> written'[p]]
        /\ \A q \in Request : q # self => written'[q] = written[q]
        /\ written'[self] = NoRow /\ DOMAIN written'[self] = {}
    BY <1>1 DEF IInv, WrittenOK, NoRow
  <1>3. seq \in Nat /\ seq' \in Nat /\ seq' >= seq
    BY DEF IInv, TableOK
  <1>4. TableOK' /\ WrittenOK' /\ Grown /\ Lasting
    BY <1>2, <1>3, TablesRest DEF IInv
  <1>5. Only(self) /\ pc'[self] = "idle" /\ try'[self] = 1
    BY <1>1, <1>2 DEF IInv, ProcessesOK, Only
  <1>6. Local(self)'
    BY <1>2, <1>5 DEF Local, Linking, Reserving, Late, LinkAttempts
  <1>7. ProcessesOK'
    BY <1>4, <1>5, <1>6, OthersStay
  <1>8. self \notin Pending'
    BY <1>5 DEF Pending
  <1>9. NumbersOK'
    BY <1>4, <1>5, <1>8, NumbersStay
  <1>10. StockOK'
    BY <1>1, <1>5, CustomersAssumption DEF IInv, StockOK, Only
  <1>11. CacheOK'
    BY <1>4, CacheStays DEF IInv
  <1>12. OrdersOK'
    BY <1>4, OrderStays DEF IInv, OrdersOK
  <1> QED
    BY <1>4, <1>7, <1>9, <1>10, <1>11, <1>12 DEF IInv, SettingOK

(* Link has a row: a read ends, a reservation goes on with its id.         *)
LEMMA LinkedInv ==
    ASSUME IInv, NEW self \in Request, NEW id, NEW s, pc[self] \in {"find", "update", "upsert"},
           s = job[self].token.sub, Linked(self, id),
           TableOK', WrittenOK', Grown, Lasting, Standing(s, id)',
           UNCHANGED <<orders, stockLock, surfaced, deploy, tokens, calls, faults>>,
           seq' = seq \/ (seq' = seq + 1 /\ self \in Pending),
           \A q \in Request \ {self} : written'[q] = written[q],
           \A k \in DOMAIN written'[self] : k = id /\ deploy.arm # "cte" /\ job[self].kind = "reserve",
           \/ deploy.cached \/ SharesEmail(s)
           \/ id \in DOMAIN written'[self] /\ written'[self][id].sub = s
           \/ id \in DOMAIN customers' /\ customers'[id].sub = s,
           job[self].known /\ DOMAIN written'[self] # {} => EmailChanged(s)
    PROVE  IInv'
  <1>1. job[self] \in Job /\ s \in Subject /\ stockLock # self
    BY TokenType, CustomersAssumption DEF IInv, ProcessesOK, Local, StockOK
  <1>2. CASE job[self].kind = "reserve"
    <2>1. /\ pc' = [pc EXCEPT ![self] = IF deploy.arm = "baseline" THEN "reserve" ELSE "create"]
          /\ job' = [job EXCEPT ![self].id = id] /\ try' = try
          /\ cache' = IF deploy.cached THEN [cache EXCEPT ![s] = id] ELSE cache
      BY <1>2 DEF Linked
    <2>2. Only(self)
      BY <2>1 DEF IInv, ProcessesOK, Only
    <2>3. /\ pc'[self] = (IF deploy.arm = "baseline" THEN "reserve" ELSE "create") /\ try'[self] = try[self]
          /\ job'[self] = [job[self] EXCEPT !.id = id]
      BY <2>1 DEF IInv, ProcessesOK
    <2>4. self \notin Pending'
      BY <2>3 DEF Pending
    <2>5. NumbersOK' /\ seq' <= MaxCalls + 2
      BY <2>2, <2>4, NumbersStay DEF IInv
    <2>6. id \in RowId
      BY <2>5, CustomersAssumption DEF Standing, RowId, TableOK
    <2>7. /\ job'[self] \in Job' /\ job'[self].id = id /\ job'[self].kind = "reserve"
          /\ job'[self].token = job[self].token /\ job'[self].known = job[self].known
      BY <1>1, <1>2, <2>3, <2>6 DEF Job
    <2>8. Linking(self)'
      BY <2>3 DEF Linking
    <2>9. Firm(self)'
      BY <2>7 DEF Firm, SharesEmail
    <2>10. Standing(job[self].token.sub, job[self].id)'
      BY <2>7
    <2>11. job'[self].known /\ DOMAIN written'[self] # {} => EmailChanged(job[self].token.sub)'
      BY <2>7 DEF EmailChanged
    <2>12. Reserving(self)'
      BY <2>3, <2>7, <2>9, <2>10, <2>11 DEF Reserving, Late
    <2>13. Local(self)'
      BY <2>3, <2>7, <2>8, <2>12 DEF IInv, ProcessesOK, Local, Late
    <2>14. ProcessesOK'
      BY <2>2, <2>13, OthersStay
    <2>15. StockOK'
      BY <1>1, <2>2 DEF IInv, StockOK, Only
    <2>16. CacheOK'
      <3>1. cache' \in [Subject -> RowId \cup {Null}]
        BY <2>1, <2>6 DEF IInv, CacheOK
      <3>2. ASSUME NEW x \in Subject, cache'[x] # Null PROVE Standing(x, cache[x])'
        <4>1. CASE cache'[x] = cache[x]
          <5>1. PICK k : k = cache[x]
            OBVIOUS
          <5>2. Standing(x, k)'
            BY <3>2, <4>1, <5>1 DEF IInv, CacheOK, Lasting
          <5> QED
            BY <4>1, <5>1, <5>2
        <4>2. CASE x = s /\ cache'[x] = id
          BY <4>2
        <4> QED
          BY <2>1, <4>1, <4>2 DEF IInv, CacheOK
      <3> QED
        BY <3>1, <3>2 DEF CacheOK
    <2>17. OrdersOK'
      BY OrderStays DEF IInv, OrdersOK
    <2> QED
      BY <2>5, <2>14, <2>15, <2>16, <2>17 DEF IInv, SettingOK, SurfacedOK
  <1>3. CASE job[self].kind # "reserve"
    <2>1. /\ pc' = [pc EXCEPT ![self] = "idle"] /\ job' = [job EXCEPT ![self] = Idle]
          /\ try' = [try EXCEPT ![self] = 1] /\ cache' = cache
      BY <1>3 DEF Linked, Leave
    <2>2. Only(self) /\ pc'[self] = "idle" /\ try'[self] = 1
      BY <2>1 DEF IInv, ProcessesOK, Only
    <2>3. DOMAIN written'[self] = {}
      BY <1>3
    <2>4. Local(self)'
      BY <2>2, <2>3 DEF Local, Linking, Reserving, Late, LinkAttempts
    <2>5. ProcessesOK'
      BY <2>2, <2>4, OthersStay
    <2>6. self \notin Pending'
      BY <2>2 DEF Pending
    <2>7. NumbersOK'
      BY <2>2, <2>6, NumbersStay
    <2>8. StockOK'
      BY <1>1, <2>2 DEF IInv, StockOK, Only
    <2>9. CacheOK' /\ OrdersOK'
      BY <2>1, CacheStays, OrderStays DEF IInv, OrdersOK
    <2> QED
      BY <2>5, <2>7, <2>8, <2>9 DEF IInv, SettingOK, SurfacedOK
  <1> QED
    BY <1>2, <1>3

(* The row that Link writes, for a read or the cte arm at once, for the    *)
(* other arms in the transaction.                                          *)
LEMMA WriteInv ==
    ASSUME IInv, NEW self \in Request, NEW id, NEW row, NEW s, pc[self] \in {"update", "upsert"},
           s = job[self].token.sub, Fits(self, id, row), Write(self, id, row), Linked(self, id),
           UNCHANGED <<orders, stockLock, surfaced, environment>>,
           seq' = seq \/ (seq' = seq + 1 /\ self \in Pending),
           id \in 1..(seq' - 1), id \in DOMAIN customers \/ id = seq,
           row.sub = s \/ SharesEmail(s),
           id \in DOMAIN customers => Bound(s, customers[id]),
           job[self].known => EmailChanged(s)
    PROVE  IInv' /\ Grown
  <1>1. /\ TableOK /\ WrittenOK /\ seq \in Nat /\ seq' \in Nat /\ seq' >= seq
        /\ UNCHANGED <<deploy, tokens, calls, faults>>
    BY DEF IInv, TableOK, environment
  <1>2. DOMAIN written[self] = {} /\ written[self] = NoRow
    <2>1. DOMAIN written[self] = {}
      BY DEF IInv, ProcessesOK, Local, Late
    <2>2. written[self] = [k \in DOMAIN written[self] |-> written[self][k]]
      BY DEF IInv, WrittenOK
    <2> QED
      BY <2>1, <2>2 DEF NoRow
  <1>3. Bound(s, row) /\ \A q \in Request \ {self} : id \notin DOMAIN written[q]
    BY DEF Bound, Fits
  <1>4. CASE InTx(self)
    <2>1. customers' = customers /\ written' = [written EXCEPT ![self] = Put(NoRow, id, row)]
      BY <1>4 DEF Write
    <2>2. TableOK' /\ WrittenOK' /\ Grown /\ Lasting
      BY <1>1, <1>2, <2>1, TablesHold
    <2>3. /\ \A q \in Request : q # self => written'[q] = written[q]
          /\ DOMAIN written'[self] = {id} /\ written'[self][id] = row
      BY <2>1 DEF IInv, WrittenOK, Put, NoRow
    <2>4. Standing(s, id)'
      <3>1. \A q \in Request : id \in DOMAIN written'[q] => Bound(s, written'[q][id])
        BY <1>3, <2>3
      <3> QED
        BY <1>1, <2>1, <3>1 DEF Standing, Bound, SharesEmail
    <2>5. job[self].kind = "reserve" /\ deploy.arm # "cte"
      BY <1>4 DEF InTx
    <2> QED
      BY <1>1, <2>2, <2>3, <2>4, <2>5, LinkedInv
  <1>5. CASE ~InTx(self)
    <2>1. customers' = Put(customers, id, row) /\ written' = written
      BY <1>5 DEF Write
    <2>2. /\ DOMAIN written' = Request /\ written' = [p \in Request |-> written'[p]]
          /\ written'[self] = NoRow
      BY <1>2, <2>1 DEF IInv, WrittenOK
    <2>3. TableOK' /\ WrittenOK' /\ Grown /\ Lasting
      BY <1>1, <2>1, <2>2, TablesStore
    <2>4. id \in DOMAIN customers' /\ customers'[id] = row
      BY <2>1 DEF Put
    <2>5. Standing(s, id)'
      <3>1. \A q \in Request : id \notin DOMAIN written'[q]
        BY <1>2, <1>3, <2>1
      <3> QED
        BY <1>1, <1>3, <2>4, <3>1 DEF Standing, Bound, SharesEmail
    <2> QED
      BY <1>1, <1>2, <2>1, <2>3, <2>4, <2>5, LinkedInv
  <1> QED
    BY <1>4, <1>5

----------------------------------------------------------------------------
(* A call begins: a known caller has its row, a cached id may stand for    *)
(* its user.                                                               *)
LEMMA BeginInv ==
    ASSUME IInv, NEW self \in Request, NEW kind \in {"read", "reserve"}, NEW token \in tokens,
           Begin(self, kind, token)
    PROVE  IInv'
  <1>1. PICK cached : cached = IF kind = "reserve" /\ deploy.cached THEN cache[token.sub] ELSE Null
    OBVIOUS
  <1>2. /\ pc[self] = "idle" /\ calls < MaxCalls /\ calls' = calls + 1
        /\ job' = [job EXCEPT ![self] = [kind |-> kind, token |-> token, id |-> cached, known |-> Known(token)]]
        /\ pc' = [pc EXCEPT ![self] = IF cached = Null THEN "find"
                                      ELSE IF deploy.arm = "baseline" THEN "reserve" ELSE "create"]
        /\ UNCHANGED <<customers, seq, written, orders, stockLock, cache, try, surfaced, deploy, tokens, faults>>
    BY <1>1 DEF Begin, rows
  <1>3. token \in Token /\ token.sub \in Subject /\ token.sub # Null
    BY CustomersAssumption DEF IInv, SettingOK, Token
  <1>4. cached \in RowId \cup {Null} /\ (cached # Null => kind = "reserve" /\ deploy.cached /\ Standing(token.sub, cached))
    BY <1>1, <1>3 DEF IInv, CacheOK
  <1>5. TableOK' /\ WrittenOK' /\ Grown /\ Lasting
    BY <1>2, TablesRest DEF IInv, TableOK, WrittenOK
  <1>6. Only(self) /\ try'[self] = 1 /\ DOMAIN written'[self] = {}
    BY <1>2 DEF IInv, ProcessesOK, Only, Local, Late
  <1>7. /\ pc'[self] = (IF cached = Null THEN "find" ELSE IF deploy.arm = "baseline" THEN "reserve" ELSE "create")
        /\ job'[self] = [kind |-> kind, token |-> token, id |-> cached, known |-> Known(token)]
    BY <1>2 DEF IInv, ProcessesOK
  <1>8. /\ job'[self].kind = kind /\ job'[self].token = token /\ job'[self].id = cached
        /\ job'[self].known <=> Known(token)
    BY <1>7
  <1>9. job'[self] \in Job'
    <2>1. Known(token) \in BOOLEAN
      BY DEF Known
    <2> QED
      BY <1>2, <1>4, <1>7, <2>1 DEF Job
  <1>10. Known(token) => Remembered(self)'
    <2> SUFFICES ASSUME Known(token) PROVE Remembered(self)'
      OBVIOUS
    <2>1. PICK k \in DOMAIN customers : customers[k].sub = token.sub /\ token.email \in {customers[k].email, Blank}
      BY DEF Known
    <2> QED
      BY <1>2, <1>8, <2>1 DEF Remembered, Mine
  <1>11. Linking(self)'
    BY <1>6, <1>7, <1>8, <1>10 DEF Linking
  <1>12. cached # Null => Standing(job[self].token.sub, job[self].id)' /\ Firm(self)'
    <2>1. cached # Null => Standing(token.sub, cached)'
      BY <1>3, <1>4, <1>5 DEF Lasting
    <2> QED
      BY <1>2, <1>4, <1>8, <2>1 DEF Firm
  <1>13. Reserving(self)'
    BY <1>2, <1>4, <1>6, <1>7, <1>8, <1>12 DEF Reserving, Late
  <1>14. Local(self)'
    BY <1>6, <1>7, <1>9, <1>11, <1>13 DEF Local, Late, LinkAttempts
  <1>15. ProcessesOK'
    BY <1>2, <1>5, <1>6, <1>14, OthersStay
  <1>16. NumbersOK'
    <2>1. IsFiniteSet(Pending) /\ Cardinality(Pending) \in Nat /\ seq + Cardinality(Pending) <= calls + 2
          /\ calls \in 0..MaxCalls /\ seq \in Nat
      BY FS_CardinalityType DEF IInv, NumbersOK, TableOK
    <2>2. Pending' \subseteq Pending \cup {self}
      BY <1>2, <1>6 DEF Pending, Mine, Only
    <2>3. IsFiniteSet(Pending \cup {self}) /\ Cardinality(Pending \cup {self}) <= Cardinality(Pending) + 1
      <3>1. /\ IsFiniteSet(Pending \cup {self})
            /\ Cardinality(Pending \cup {self}) = IF self \in Pending THEN Cardinality(Pending) ELSE Cardinality(Pending) + 1
        BY <2>1, FS_AddElement
      <3> QED
        BY <2>1, <3>1
    <2>4. IsFiniteSet(Pending') /\ Cardinality(Pending') <= Cardinality(Pending \cup {self})
      BY <2>2, <2>3, FS_Subset
    <2>5. Cardinality(Pending') \in Nat /\ Cardinality(Pending \cup {self}) \in Nat
      BY <2>3, <2>4, FS_CardinalityType
    <2> QED
      BY <1>2, <2>1, <2>3, <2>4, <2>5, CustomersAssumption DEF NumbersOK
  <1>17. StockOK'
    <2>1. stockLock # self
      BY <1>2 DEF IInv, StockOK
    <2> QED
      BY <1>2, <1>6, <2>1 DEF IInv, StockOK, Only
  <1>18. CacheOK' /\ OrdersOK'
    BY <1>2, <1>5, CacheStays, OrderStays DEF IInv, OrdersOK
  <1> QED
    BY <1>2, <1>5, <1>15, <1>16, <1>17, <1>18 DEF IInv, SettingOK, SurfacedOK

(* Steps within Link that touch no row: the lookup, and the next attempt.  *)
LEMMA LinkStep ==
    ASSUME IInv, NEW self \in Request, NEW next \in {"find", "update", "upsert"},
           pc[self] \in {"find", "update", "upsert"}, pc' = [pc EXCEPT ![self] = next],
           DOMAIN job' = Request, \A q \in Request \ {self} : job'[q] = job[q],
           DOMAIN try' = Request, \A q \in Request \ {self} : try'[q] = try[q],
           job'[self] \in Job, try'[self] \in 1..LinkAttempts,
           UNCHANGED <<customers, written, orders, stockLock, cache, deploy, tokens, calls, faults, surfaced>>,
           \/ seq' = seq /\ (self \in Pending' => self \in Pending)
           \/ seq' = seq + 1 /\ self \in Pending /\ self \notin Pending',
           Linking(self)'
    PROVE  IInv'
  <1>1. seq \in Nat /\ seq' \in Nat /\ seq' >= seq
    BY DEF IInv, TableOK
  <1>2. TableOK' /\ WrittenOK' /\ Grown /\ Lasting
    BY <1>1, TablesRest DEF IInv, WrittenOK
  <1>3. Only(self) /\ pc'[self] = next
    BY DEF IInv, ProcessesOK, Only
  <1>4. DOMAIN written'[self] = {} /\ stockLock # self
    BY DEF IInv, ProcessesOK, Local, Late, StockOK
  <1>5. Local(self)'
    BY <1>3, <1>4 DEF Local, Reserving, Late, Job
  <1>6. ProcessesOK'
    BY <1>2, <1>3, <1>5, OthersStay
  <1>7. NumbersOK'
    BY <1>2, <1>3, NumbersStay
  <1>8. StockOK'
    BY <1>3, <1>4 DEF IInv, StockOK, Only
  <1>9. CacheOK' /\ OrdersOK'
    BY <1>2, CacheStays, OrderStays DEF IInv, OrdersOK
  <1> QED
    BY <1>2, <1>6, <1>7, <1>8, <1>9 DEF IInv, SettingOK, SurfacedOK

(* The lookup by subject.                                                  *)
LEMMA FindInv == ASSUME IInv, NEW self \in Request, FindCustomerBySub(self) PROVE IInv'
  <1>1. PICK token : token = job[self].token
    OBVIOUS
  <1>2. /\ pc[self] = "find" /\ UNCHANGED <<customers, seq, written, orders, stockLock, surfaced>>
        /\ UNCHANGED <<deploy, tokens, calls, faults>>
    BY DEF FindCustomerBySub, rows, environment
  <1>3. /\ job[self] \in Job /\ token \in tokens /\ token.sub \in Subject /\ token.sub # Null
        /\ Linking(self) /\ try[self] \in 1..LinkAttempts
        /\ DOMAIN job = Request /\ DOMAIN try = Request
    BY <1>1, <1>2, TokenType DEF IInv, ProcessesOK, Local
  <1>4. CASE (\A k \in DOMAIN customers : customers[k].sub # token.sub) /\ pc' = [pc EXCEPT ![self] = "upsert"]
             /\ UNCHANGED <<job, try, cache>>
    <2>1. ~Mine(self) /\ self \in Pending
      BY <1>1, <1>2, <1>4 DEF Mine, Pending
    <2>2. try[self] = 1 /\ ~job[self].known
      BY <1>2, <1>3, <2>1 DEF Linking, Remembered, LinkAttempts
    <2>3. pc'[self] = "upsert"
      BY <1>4 DEF IInv, ProcessesOK
    <2>4. Linking(self)'
      BY <1>4, <2>2, <2>3 DEF Linking
    <2>5. job'[self] \in Job /\ try'[self] \in 1..LinkAttempts
      BY <1>3, <1>4
    <2> QED
      BY <1>2, <1>3, <1>4, <2>1, <2>4, <2>5, LinkStep
  <1>5. ASSUME NEW id \in DOMAIN customers, customers[id].sub = token.sub, Linked(self, id) PROVE IInv'
    <2>1. TableOK' /\ WrittenOK' /\ Grown /\ Lasting
      BY <1>2, TablesRest DEF IInv, TableOK, WrittenOK
    <2>2. DOMAIN written'[self] = {}
      BY <1>2 DEF IInv, ProcessesOK, Local, Late
    <2>3. Standing(token.sub, id)
      <3>1. \A q \in Request : id \in DOMAIN written[q] => written[q][id].sub = token.sub
        BY <1>3, <1>5 DEF IInv, WrittenOK, Fits
      <3>2. id \in 1..(seq - 1)
        BY DEF IInv, TableOK
      <3> QED
        BY <1>5, <3>1, <3>2 DEF Standing, Bound
    <2>4. Standing(token.sub, id)'
      BY <1>3, <2>1, <2>3 DEF Lasting
    <2> QED
      BY <1>1, <1>2, <1>5, <2>1, <2>2, <2>4, LinkedInv
  <1>6. ASSUME NEW id \in DOMAIN customers, customers[id].sub = token.sub, customers[id].email # token.email,
               token.email # Blank, pc' = [pc EXCEPT ![self] = "update"], job' = [job EXCEPT ![self].id = id],
               UNCHANGED <<try, cache>>
        PROVE  IInv'
    <2>1. pc'[self] = "update" /\ job'[self] = [job[self] EXCEPT !.id = id] /\ DOMAIN job' = Request
          /\ \A q \in Request \ {self} : job'[q] = job[q]
      BY <1>3, <1>6 DEF IInv, ProcessesOK
    <2>2. id \in RowId
      <3>1. id \in 1..(seq - 1) /\ seq \in Nat
        BY DEF IInv, TableOK
      <3>2. seq <= MaxCalls + 2
        BY <3>1, FS_CardinalityType, CustomersAssumption DEF IInv, NumbersOK
      <3> QED
        BY <3>1, <3>2, CustomersAssumption DEF RowId
    <2>3. /\ job'[self] \in Job /\ job'[self].id = id /\ job'[self].token = token
          /\ job'[self].known = job[self].known
      BY <1>1, <1>3, <2>1, <2>2 DEF Job
    <2>4. job[self].known => EmailChanged(token.sub)
      <3> SUFFICES ASSUME job[self].known, ~EmailChanged(token.sub) PROVE FALSE
        OBVIOUS
      <3>1. PICK k \in DOMAIN customers : customers[k].sub = token.sub /\ customers[k].email # Blank
        BY <1>1, <1>2, <1>3, <1>6 DEF Linking, Remembered
      <3>2. k = id
        BY <1>3, <1>6, <3>1 DEF IInv, TableOK, Duplicate, Clash
      <3>3. PICK u \in tokens : u.sub = customers[id].sub /\ u.email = customers[id].email
        BY <1>3, <1>6 DEF IInv, TableOK, Carried
      <3> QED
        BY <1>3, <1>6, <3>1, <3>2, <3>3 DEF EmailChanged
    <2>5. EmailChanged(token.sub) => EmailChanged(token.sub)'
      BY <1>2 DEF EmailChanged
    <2>6. Linking(self)'
      BY <1>2, <1>6, <2>1, <2>3, <2>4, <2>5 DEF Linking
    <2>7. self \notin Pending'
      BY <2>1 DEF Pending
    <2> QED
      BY <1>2, <1>3, <1>6, <2>1, <2>3, <2>6, <2>7, LinkStep
  <1> QED
    BY <1>1, <1>4, <1>5, <1>6 DEF FindCustomerBySub

(* A unique violation: another attempt by a caller who has a row, or the   *)
(* end of the call.                                                        *)
LEMMA ViolationInv ==
    ASSUME IInv, NEW self \in Request, UniqueViolation(self), UNCHANGED <<orders, environment>>,
           \/ pc[self] = "update" /\ seq' = seq /\ Taken(job[self].token)
           \/ pc[self] = "upsert" /\ seq' = seq + 1 /\ Mine(self)
    PROVE  IInv' /\ Grown
  <1>1. /\ job[self] \in Job /\ Linking(self) /\ try[self] \in 1..LinkAttempts
        /\ DOMAIN pc = Request /\ DOMAIN job = Request /\ DOMAIN try = Request
    BY DEF IInv, ProcessesOK, Local
  <1>2. cache' = cache /\ UNCHANGED <<deploy, tokens, calls, faults>>
    BY DEF UniqueViolation, environment
  <1>3. Mine(self) /\ (job[self].known => EmailChanged(job[self].token.sub))
    BY <1>1 DEF Linking, Mine
  <1>4. pc[self] = "upsert" => self \in Pending
    BY DEF Pending
  <1>5. CASE ~InTx(self) /\ try[self] < LinkAttempts
    <2>1. /\ pc' = [pc EXCEPT ![self] = "find"] /\ try' = [try EXCEPT ![self] = @ + 1]
          /\ UNCHANGED <<job, customers, written, stockLock, surfaced>>
      BY <1>5 DEF UniqueViolation
    <2>2. /\ pc'[self] = "find" /\ try'[self] \in 1..LinkAttempts /\ DOMAIN try' = Request
          /\ \A q \in Request \ {self} : try'[q] = try[q]
      BY <1>1, <1>5, <2>1 DEF LinkAttempts
    <2>3. Mine(self)'
      BY <1>3, <2>1 DEF Mine
    <2>4. EmailChanged(job[self].token.sub) => EmailChanged(job[self].token.sub)'
      BY <1>2, <2>1 DEF EmailChanged
    <2>5. Linking(self)'
      BY <1>3, <2>1, <2>2, <2>3, <2>4 DEF Linking, Remembered
    <2>6. self \notin Pending'
      BY <2>2, <2>3 DEF Pending
    <2>7. job'[self] \in Job /\ DOMAIN job' = Request /\ \A q \in Request \ {self} : job'[q] = job[q]
      BY <1>1, <2>1
    <2> QED
      BY <1>2, <1>4, <2>1, <2>2, <2>5, <2>6, <2>7, LinkStep DEF Grown
  <1>6. CASE ~(~InTx(self) /\ try[self] < LinkAttempts)
    <2>1. /\ surfaced' = surfaced \cup {IF Taken(job[self].token) THEN "taken"
                                        ELSE IF InTx(self) THEN "race in tx" ELSE "race"}
          /\ Leave(self) /\ Release(self) /\ customers' = customers
      BY <1>6 DEF UniqueViolation, Fail
    <2>2. Taken(job[self].token) \/ InTx(self)
      BY <1>1, <1>6 DEF Linking, LinkAttempts
    <2>3. SurfacedOK'
      BY <2>1, <2>2 DEF IInv, SurfacedOK
    <2> QED
      BY <1>2, <1>4, <2>1, <2>3, FailInv DEF Grown
  <1> QED
    BY <1>5, <1>6

(* The email of a row that has the caller's subject is brought up to date. *)
LEMMA UpdateInv == ASSUME IInv, NEW self \in Request, UpdateCustomerEmail(self) PROVE IInv' /\ Grown
  <1>1. PICK token : token = job[self].token
    OBVIOUS
  <1>2. PICK id : id = job[self].id
    OBVIOUS
  <1>3. PICK row : row = [customers[id] EXCEPT !.email = token.email]
    OBVIOUS
  <1>4. /\ pc[self] = "update" /\ Free(self, id, row) /\ UNCHANGED <<seq, orders, environment>>
        /\ \/ Duplicate(id, row) /\ UniqueViolation(self)
           \/ /\ ~Duplicate(id, row) /\ Write(self, id, row) /\ Linked(self, id)
              /\ UNCHANGED <<stockLock, surfaced>>
    BY <1>1, <1>2, <1>3 DEF UpdateCustomerEmail
  <1>5. /\ id \in DOMAIN customers /\ customers[id].sub = token.sub /\ token.email # Blank
        /\ job[self].known => EmailChanged(token.sub)
    BY <1>1, <1>2, <1>4 DEF IInv, ProcessesOK, Local, Linking
  <1>6. token \in tokens /\ token.sub \in Subject /\ token.sub # Null /\ token.email \in Address
    BY <1>1, <1>4, TokenType DEF IInv, ProcessesOK, Local
  <1>7. row \in Row /\ row.sub = token.sub /\ row.email = token.email
    BY <1>3, <1>5, <1>6 DEF IInv, TableOK, Row
  <1>8. CASE Duplicate(id, row) /\ UniqueViolation(self)
    <2>1. PICK k \in DOMAIN customers \ {id} : Clash(row, customers[k])
      BY <1>8 DEF Duplicate
    <2>2. customers[k].sub # token.sub
      BY <1>5, <1>6, <2>1 DEF IInv, TableOK, Duplicate, Clash
    <2>3. Taken(job[self].token)
      BY <1>1, <1>7, <2>1, <2>2 DEF Clash, Taken
    <2> QED
      BY <1>4, <1>8, <2>3, ViolationInv
  <1>9. CASE ~Duplicate(id, row) /\ Write(self, id, row) /\ Linked(self, id) /\ UNCHANGED <<stockLock, surfaced>>
    <2>1. Fits(self, id, row)
      BY <1>4, <1>5, <1>6, <1>7, <1>9 DEF Fits, Carried, Free
    <2>2. Bound(token.sub, customers[id]) /\ id \in 1..(seq - 1)
      BY <1>5 DEF Bound, IInv, TableOK
    <2> QED
      BY <1>1, <1>4, <1>5, <1>7, <1>9, <2>1, <2>2, WriteInv
  <1> QED
    BY <1>4, <1>8, <1>9

(* The upsert: a row of the caller's own, or the one that has the email.   *)
LEMMA UpsertInv == ASSUME IInv, NEW self \in Request, LinkCustomer(self) PROVE IInv' /\ Grown
  <1>1. PICK token : token = job[self].token
    OBVIOUS
  <1> DEFINE holder == {k \in DOMAIN customers : customers[k].email = token.email}
  <1>2. PICK id : id = IF holder = {} THEN seq ELSE CHOOSE k \in holder : TRUE
    OBVIOUS
  <1>3. PICK row : row = IF holder = {} THEN token ELSE Adopted(customers[id], token.sub)
    OBVIOUS
  <1>4. /\ pc[self] = "upsert" /\ Free(self, id, row) /\ seq' = seq + 1 /\ UNCHANGED <<orders, environment>>
        /\ \/ Duplicate(id, row) /\ UniqueViolation(self)
           \/ /\ ~Duplicate(id, row) /\ Write(self, id, row) /\ Linked(self, id)
              /\ UNCHANGED <<stockLock, surfaced>>
    BY <1>1, <1>2, <1>3 DEF LinkCustomer
  <1>5. holder # {} => id \in holder
    BY <1>2
  <1>6. /\ token \in tokens /\ token \in Token /\ token.sub \in Subject /\ token.sub # Null
        /\ token.email \in Address
    BY <1>1, <1>4, TokenType DEF IInv, ProcessesOK, Local
  <1>7. ~job[self].known /\ self \in Pending
    BY <1>4 DEF IInv, ProcessesOK, Local, Linking, Pending
  <1>8. seq \in Nat \ {0} /\ seq \notin DOMAIN customers
    BY DEF IInv, TableOK
  <1>9. CASE holder = {}
    <2>1. id = seq /\ row = token
      BY <1>2, <1>3, <1>9
    <2>2. row \in Row
      BY <1>6, <2>1 DEF Token, Row
    <2>3. CASE Duplicate(id, row) /\ UniqueViolation(self)
      <3>1. PICK k \in DOMAIN customers : Clash(token, customers[k])
        BY <2>1, <2>3 DEF Duplicate
      <3>2. customers[k].sub = token.sub
        BY <1>9, <3>1 DEF Clash
      <3>3. Mine(self)
        BY <1>1, <3>2 DEF Mine
      <3> QED
        BY <1>4, <2>3, <3>3, ViolationInv
    <2>4. CASE ~Duplicate(id, row) /\ Write(self, id, row) /\ Linked(self, id) /\ UNCHANGED <<stockLock, surfaced>>
      <3>1. Fits(self, id, row)
        BY <1>4, <1>6, <1>8, <2>1, <2>2, <2>4 DEF Fits, Carried, Free
      <3>2. id \in 1..(seq' - 1) /\ id \notin DOMAIN customers
        BY <1>4, <1>8, <2>1
      <3> QED
        BY <1>1, <1>4, <1>7, <2>1, <2>4, <3>1, <3>2, WriteInv
    <2> QED
      BY <1>4, <2>3, <2>4
  <1>10. CASE holder # {}
    <2>1. id \in DOMAIN customers /\ customers[id].email = token.email /\ customers[id] \in Row
      BY <1>5, <1>10 DEF IInv, TableOK
    <2>2. /\ row \in Row /\ row.email = token.email
          /\ row.sub = IF customers[id].sub = Null THEN token.sub ELSE customers[id].sub
      BY <1>3, <1>6, <1>10, <2>1 DEF Adopted, Row
    <2>3. customers[id].sub # Null => \E u \in tokens : u.sub = customers[id].sub /\ u.email = token.email
      BY <2>1 DEF IInv, TableOK, Carried
    <2>4. CASE Duplicate(id, row) /\ UniqueViolation(self)
      <3>1. PICK k \in DOMAIN customers \ {id} : Clash(row, customers[k])
        BY <2>4 DEF Duplicate
      <3>2. ~Clash(customers[id], customers[k])
        BY <2>1, <3>1 DEF IInv, TableOK, Duplicate
      <3>3. customers[k].sub = token.sub
        BY <2>1, <2>2, <3>1, <3>2 DEF Clash
      <3>4. Mine(self)
        BY <1>1, <3>3 DEF Mine
      <3> QED
        BY <1>4, <2>4, <3>4, ViolationInv
    <2>5. CASE ~Duplicate(id, row) /\ Write(self, id, row) /\ Linked(self, id) /\ UNCHANGED <<stockLock, surfaced>>
      <3>1. Fits(self, id, row)
        BY <1>4, <1>6, <2>1, <2>2, <2>3, <2>5 DEF Fits, Carried, Free
      <3>2. row.sub = token.sub \/ SharesEmail(token.sub)
        BY <1>6, <2>2, <2>3 DEF SharesEmail
      <3>3. Bound(token.sub, customers[id])
        BY <1>6, <2>1, <2>2, <3>2 DEF Bound
      <3>4. id \in 1..(seq' - 1)
        BY <1>4, <1>8, <2>1 DEF IInv, TableOK
      <3> QED
        BY <1>1, <1>4, <1>7, <2>1, <2>5, <3>1, <3>2, <3>3, <3>4, WriteInv
    <2> QED
      BY <1>4, <2>4, <2>5
  <1> QED
    BY <1>9, <1>10

(* A reservation goes on: the stock row, or the order's foreign key.       *)
LEMMA ReserveInv ==
    ASSUME IInv, NEW self \in Request, NEW next \in Late, pc[self] \in Late, pc' = [pc EXCEPT ![self] = next],
           UNCHANGED <<customers, written, orders, cache, job, try, seq, surfaced, environment>>,
           next \in {"reserve", "commit"} => deploy.arm # "cte",
           next = "commit" \/ (next = "reserve" /\ deploy.arm = "reserve-last") => Exists(self),
           StockOK'
    PROVE  IInv'
  <1>1. UNCHANGED <<deploy, tokens, calls, faults>>
    BY DEF environment
  <1>2. TableOK' /\ WrittenOK' /\ Grown /\ Lasting
    BY <1>1, TablesRest DEF IInv, TableOK, WrittenOK
  <1>3. Only(self) /\ pc'[self] = next
    BY DEF IInv, ProcessesOK, Only
  <1>4. Local(self) /\ job[self] \in Job /\ job'[self] \in Job'
    BY <1>1 DEF IInv, ProcessesOK, Local, Job, Late
  <1>5. Firm(self)'
    BY <1>1, <1>4 DEF Local, Reserving, Firm, SharesEmail
  <1>6. Standing(job[self].token.sub, job[self].id)'
    BY <1>1, <1>4 DEF Local, Reserving, Standing, Bound, SharesEmail
  <1>7. Reserving(self)'
    BY <1>1, <1>3, <1>4, <1>5, <1>6 DEF Local, Reserving, EmailChanged, Exists
  <1>8. Local(self)'
    BY <1>1, <1>3, <1>4, <1>7 DEF Local, Linking, Late
  <1>9. ProcessesOK'
    BY <1>1, <1>2, <1>3, <1>8, OthersStay
  <1>10. self \notin Pending'
    BY <1>3 DEF Pending, Late
  <1>11. NumbersOK'
    BY <1>1, <1>2, <1>3, <1>10, NumbersStay
  <1>12. CacheOK' /\ OrdersOK'
    BY <1>1, <1>2, CacheStays, OrderStays DEF IInv, OrdersOK
  <1> QED
    BY <1>1, <1>2, <1>9, <1>11, <1>12 DEF IInv, SettingOK, SurfacedOK

(* A call that ends with an error, for whatever reason.                    *)
LEMMA ErrorInv ==
    ASSUME IInv, NEW self \in Request, Fail(self),
           UNCHANGED <<seq, orders, cache, surfaced, deploy, tokens, calls>>
    PROVE  IInv'
  BY FailInv DEF Fail, IInv, SurfacedOK

(* The stock row is written and locked.                                    *)
LEMMA StockInv == ASSUME IInv, NEW self \in Request, ReserveStock(self) PROVE IInv'
  <1>1. /\ pc[self] = "reserve" /\ stockLock' = self
        /\ pc' = [pc EXCEPT ![self] = IF deploy.arm = "baseline" THEN "create" ELSE "commit"]
        /\ UNCHANGED <<customers, written, orders, cache, job, try, seq, surfaced, environment>>
        /\ stockLock = Null
    BY DEF ReserveStock, rows
  <1>2. PICK next \in {"create", "commit"} : next = IF deploy.arm = "baseline" THEN "create" ELSE "commit"
    OBVIOUS
  <1>3. deploy.arm # "cte" /\ deploy.arm \in {"baseline", "reserve-last", "cte"}
    BY <1>1 DEF IInv, ProcessesOK, Local, Reserving, SettingOK
  <1>4. next = "commit" => Exists(self)
    BY <1>1, <1>2, <1>3 DEF IInv, ProcessesOK, Local, Reserving
  <1>5. StockOK'
    <2>1. pc'[self] = next /\ deploy' = deploy
      BY <1>1, <1>2 DEF IInv, ProcessesOK, environment
    <2> QED
      BY <1>1, <1>2, <2>1 DEF StockOK
  <1> QED
    BY <1>1, <1>2, <1>3, <1>4, <1>5, ReserveInv DEF Late

(* The order is inserted, or its foreign key fails.                        *)
LEMMA CreateInv == ASSUME IInv, NEW self \in Request, CreateOrder(self) PROVE IInv'
  <1>1. /\ pc[self] = "create" /\ deploy.arm # "cte"
        /\ UNCHANGED <<seq, orders, cache, surfaced, environment>> /\ UNCHANGED <<deploy, tokens, calls>>
    BY DEF CreateOrder, environment
  <1>2. CASE Fail(self)
    BY <1>1, <1>2, ErrorInv
  <1>3. CASE /\ Exists(self) /\ UNCHANGED <<customers, written, stockLock, job, try>>
             /\ pc' = [pc EXCEPT ![self] = IF deploy.arm = "baseline" THEN "commit" ELSE "reserve"]
    <2>1. PICK next \in {"commit", "reserve"} : next = IF deploy.arm = "baseline" THEN "commit" ELSE "reserve"
      OBVIOUS
    <2>2. StockOK'
      <3>1. pc'[self] = next /\ \A q \in Request : q # self => pc'[q] = pc[q]
        BY <1>3, <2>1 DEF IInv, ProcessesOK
      <3>2. stockLock = self => next = "commit"
        BY <1>1, <2>1 DEF IInv, StockOK
      <3> QED
        BY <1>1, <1>3, <3>1, <3>2 DEF IInv, StockOK
    <2> QED
      BY <1>1, <1>3, <2>1, <2>2, ReserveInv DEF Late
  <1> QED
    BY <1>2, <1>3 DEF CreateOrder

(* An order of self is under a row that may stand for its caller.          *)
LEMMA OrderIsRight ==
    ASSUME IInv, NEW self \in Request, pc[self] \in Late, tokens' = tokens, deploy' = deploy,
           job[self].id \in DOMAIN customers', Lasting,
           \/ deploy.cached \/ SharesEmail(job[self].token.sub)
           \/ customers'[job[self].id].sub = job[self].token.sub,
           NEW o, o = Order(self)
    PROVE  OrderOK(o)'
  <1>1. PICK s \in Subject : s = job[self].token.sub
    BY TokenType DEF IInv, ProcessesOK, Local, Late
  <1>2. PICK id : id = job[self].id
    OBVIOUS
  <1>3. Standing(s, id) /\ Standing(s, id)'
    BY <1>1, <1>2 DEF IInv, ProcessesOK, Local, Reserving, Lasting
  <1>4. id \in RowId
    <2>1. seq \in Nat /\ seq <= MaxCalls + 2
      BY FS_CardinalityType, CustomersAssumption DEF IInv, NumbersOK, TableOK
    <2> QED
      BY <1>3, <2>1, CustomersAssumption DEF RowId, Standing
  <1>5. o = [sub |-> s, customer |-> id]
    BY <1>1, <1>2 DEF Order
  <1>6. o \in [sub : Subject, customer : RowId] /\ o.sub = s /\ o.customer = id
    BY <1>4, <1>5
  <1> QED
    BY <1>1, <1>2, <1>3, <1>6 DEF OrderOK, SharesEmail

(* The single statement of the cte arm.                                    *)
LEMMA CteInv == ASSUME IInv, NEW self \in Request, ReserveAndCreateOrder(self) PROVE IInv'
  <1>1. /\ pc[self] = "create" /\ deploy.arm = "cte" /\ Leave(self) /\ Release(self)
        /\ orders' = IF Exists(self) THEN orders \cup {Order(self)} ELSE orders
        /\ UNCHANGED <<customers, seq, cache, surfaced, deploy, tokens, calls>>
    BY DEF ReserveAndCreateOrder, Fail, environment
  <1>2. DOMAIN written[self] = {}
    BY <1>1 DEF IInv, ProcessesOK, Local
  <1>3. Lasting
    <2>1. \A q \in Request : written'[q] = written[q] \/ written'[q] = NoRow
      BY <1>1 DEF Release, IInv, WrittenOK
    <2>2. DOMAIN written' = Request /\ written' = [p \in Request |-> written'[p]]
      BY <1>1 DEF Release, IInv, WrittenOK
    <2> QED
      BY <1>1, <2>1, <2>2, TablesRest DEF IInv, TableOK
  <1>4. ASSUME Exists(self), NEW o, o = Order(self) PROVE OrderOK(o)'
    <2>1. job[self].id \in DOMAIN customers
      BY <1>2, <1>4 DEF Exists
    <2>2. Firm(self)
      BY <1>1 DEF IInv, ProcessesOK, Local, Reserving, Late
    <2> QED
      BY <1>1, <1>2, <1>3, <1>4, <2>1, <2>2, OrderIsRight DEF Firm, Late
  <1>5. \A o \in orders' : o \in orders \/ OrderOK(o)'
    BY <1>1, <1>4
  <1> QED
    BY <1>1, <1>5, FailInv DEF IInv, SurfacedOK

(* The commit: the row the transaction has written, if any, and its order. *)
LEMMA CommitInv == ASSUME IInv, NEW self \in Request, Commit(self) PROVE IInv' /\ Grown
  <1>1. /\ pc[self] = "commit" /\ orders' = orders \cup {Order(self)} /\ Leave(self) /\ Release(self)
        /\ UNCHANGED <<seq, cache, surfaced, deploy, tokens, calls>>
        /\ customers' = [k \in DOMAIN customers \cup DOMAIN written[self] |->
                            IF k \in DOMAIN written[self] THEN written[self][k] ELSE customers[k]]
    BY DEF Commit, environment
  <1>2. /\ DOMAIN written' = Request /\ written' = [p \in Request |-> written'[p]]
        /\ \A q \in Request : q # self => written'[q] = written[q]
        /\ written'[self] = NoRow /\ DOMAIN written'[self] = {}
    BY <1>1 DEF Release, IInv, WrittenOK, NoRow
  <1>3. Local(self) /\ Reserving(self) /\ Exists(self) /\ Firm(self) /\ seq \in Nat
        /\ job[self] \in Job
    BY <1>1 DEF IInv, ProcessesOK, Local, Reserving, Late, TableOK
  <1>4. TableOK' /\ WrittenOK' /\ Grown /\ Lasting
    <2>1. CASE DOMAIN written[self] = {}
      <3>1. customers' = customers
        BY <1>1, <2>1 DEF IInv, TableOK
      <3> QED
        BY <1>1, <1>2, <1>3, <3>1, TablesRest DEF IInv
    <2>2. CASE DOMAIN written[self] # {}
      <3>1. PICK id : id \in DOMAIN written[self]
        BY <2>2
      <3>2. PICK row : row = written[self][id]
        OBVIOUS
      <3>3. DOMAIN written[self] = {id}
        BY <1>3, <3>1 DEF Local
      <3>4. customers' = Put(customers, id, row)
        BY <1>1, <3>2, <3>3 DEF Put
      <3>5. Fits(self, id, row) /\ id \in 1..(seq - 1)
        BY <3>1, <3>2 DEF IInv, WrittenOK
      <3>6. /\ tokens' = tokens /\ seq' \in Nat /\ seq' >= seq /\ id \in 1..(seq' - 1)
            /\ id \in DOMAIN written[self] /\ written[self][id] = row
        BY <1>1, <1>3, <3>1, <3>2, <3>5
      <3>7. TableOK /\ WrittenOK
        BY DEF IInv
      <3> QED
        BY <1>2, <3>4, <3>5, <3>6, <3>7, TablesStore
    <2> QED
      BY <2>1, <2>2
  <1>5. job[self].id \in DOMAIN customers'
    BY <1>1, <1>3 DEF Exists
  <1>6. \/ deploy.cached \/ SharesEmail(job[self].token.sub)
        \/ customers'[job[self].id].sub = job[self].token.sub
    <2>1. CASE job[self].id \in DOMAIN written[self]
      <3>1. customers'[job[self].id] = written[self][job[self].id]
        BY <1>1, <2>1
      <3>2. Fits(self, job[self].id, written[self][job[self].id])
        BY <2>1 DEF IInv, WrittenOK
      <3>3. job[self].token.sub # Null
        BY <1>3, TokenType DEF IInv
      <3> QED
        BY <1>3, <3>1, <3>2, <3>3 DEF Firm, Fits
    <2>2. CASE job[self].id \notin DOMAIN written[self]
      BY <1>1, <1>3, <1>5, <2>2 DEF Firm
    <2> QED
      BY <2>1, <2>2
  <1>7. PICK o : o = Order(self)
    OBVIOUS
  <1>8. OrderOK(o)'
    BY <1>1, <1>4, <1>5, <1>6, <1>7, OrderIsRight DEF Late
  <1>9. OrdersOK'
    BY <1>1, <1>4, <1>7, <1>8, OrderStays DEF IInv, OrdersOK
  <1>10. Only(self) /\ pc'[self] = "idle" /\ try'[self] = 1
    BY <1>1, <1>2 DEF Leave, IInv, ProcessesOK, Only
  <1>11. Local(self)'
    BY <1>2, <1>10 DEF Local, Linking, Reserving, Late, LinkAttempts
  <1>12. ProcessesOK'
    BY <1>1, <1>4, <1>10, <1>11, OthersStay
  <1>13. self \notin Pending'
    BY <1>10 DEF Pending
  <1>14. NumbersOK'
    BY <1>1, <1>4, <1>10, <1>13, NumbersStay
  <1>15. StockOK'
    BY <1>1, <1>10, CustomersAssumption DEF Release, IInv, StockOK, Only
  <1>16. CacheOK'
    BY <1>1, <1>4, CacheStays DEF IInv
  <1> QED
    BY <1>1, <1>4, <1>9, <1>12, <1>14, <1>15, <1>16 DEF IInv, SettingOK, SurfacedOK

(* A restart forgets everything but the tables.                            *)
LEMMA RestartInv == ASSUME IInv, Restart PROVE IInv'
  <1>1. /\ cache' = [s \in Subject |-> Null] /\ pc' = [self \in Request |-> "idle"]
        /\ job' = [self \in Request |-> Idle] /\ try' = [self \in Request |-> 1]
        /\ written' = [self \in Request |-> NoRow] /\ stockLock' = Null
        /\ UNCHANGED <<customers, seq, orders, surfaced, deploy, tokens, calls>>
    BY DEF Restart
  <1>2. TableOK' /\ WrittenOK' /\ Grown /\ Lasting
    <2>1. DOMAIN written' = Request /\ written' = [p \in Request |-> written'[p]]
          /\ \A q \in Request : written'[q] = NoRow
      BY <1>1
    <2> QED
      BY <1>1, <2>1, TablesRest DEF IInv, TableOK
  <1>3. ProcessesOK'
    BY <1>1 DEF ProcessesOK, Local, Linking, Reserving, Late, LinkAttempts, NoRow
  <1>4. NumbersOK'
    <2>1. Pending' = {}
      BY <1>1 DEF Pending
    <2>2. Cardinality(Pending) \in Nat /\ seq \in Nat
      BY FS_CardinalityType DEF IInv, NumbersOK, TableOK
    <2> QED
      BY <1>1, <2>1, <2>2, FS_EmptySet DEF IInv, NumbersOK
  <1>5. StockOK' /\ CacheOK'
    BY <1>1, CustomersAssumption DEF StockOK, CacheOK
  <1>6. OrdersOK'
    BY <1>1, <1>2, OrderStays DEF IInv, OrdersOK
  <1> QED
    BY <1>1, <1>2, <1>3, <1>4, <1>5, <1>6 DEF IInv, SettingOK, SurfacedOK

(* At boot the table is empty, or holds the row from before cognito_sub.   *)
LEMMA InitInv == Init => IInv
  <1> SUFFICES ASSUME Init PROVE IInv
    OBVIOUS
  <1>1. SettingOK /\ SurfacedOK /\ StockOK /\ CacheOK /\ OrdersOK
    BY CustomersAssumption DEF Init, SettingOK, SurfacedOK, StockOK, CacheOK, OrdersOK
  <1>2. \/ DOMAIN customers = {} /\ customers = [k \in DOMAIN customers |-> customers[k]] /\ seq = 1
        \/ /\ DOMAIN customers = {1} /\ customers[1] = [email |-> OldEmail, sub |-> Null] /\ seq = 2
           /\ customers = [k \in DOMAIN customers |-> customers[k]]
    <2>1. CASE customers = NoRow
      BY <2>1, FS_EmptySet DEF Init, NoRow
    <2>2. CASE customers = Put(NoRow, 1, [email |-> OldEmail, sub |-> Null])
      <3>1. /\ DOMAIN customers = {1} /\ customers[1] = [email |-> OldEmail, sub |-> Null]
            /\ customers = [k \in DOMAIN customers |-> customers[k]]
        BY <2>2 DEF Put, NoRow
      <3>2. Cardinality({1}) = 1
        BY FS_Singleton
      <3> QED
        BY <3>1, <3>2 DEF Init
    <2> QED
      BY <2>1, <2>2 DEF Init
  <1>3. TableOK
    <2>1. [email |-> OldEmail, sub |-> Null] \in Row
      BY CustomersAssumption DEF Row, Address
    <2>2. customers \in [DOMAIN customers -> Row]
      BY <1>2, <2>1
    <2>3. \A k \in DOMAIN customers : customers[k].sub = Null
      BY <1>2
    <2>4. seq \in Nat \ {0} /\ DOMAIN customers \subseteq 1..(seq - 1)
      BY <1>2
    <2>5. \A k \in DOMAIN customers : ~Duplicate(k, customers[k])
      BY <1>2 DEF Duplicate
    <2> QED
      BY <2>2, <2>3, <2>4, <2>5 DEF TableOK
  <1>4. WrittenOK
    BY DEF Init, WrittenOK, NoRow
  <1>5. ProcessesOK
    BY DEF Init, ProcessesOK, Local, Linking, Reserving, Late, LinkAttempts, NoRow
  <1>6. NumbersOK
    <2>1. Pending = {}
      BY DEF Init, Pending
    <2> QED
      BY <1>2, <2>1, FS_EmptySet, CustomersAssumption DEF Init, NumbersOK
  <1> QED
    BY <1>1, <1>3, <1>4, <1>5, <1>6 DEF IInv

(* The invariant is inductive, and rows only grow: one step per action.    *)
LEMMA StepInv == IInv /\ [Next]_vars => IInv' /\ Grown
  <1> SUFFICES ASSUME IInv, [Next]_vars PROVE IInv' /\ Grown
    OBVIOUS
  <1>1. CASE UNCHANGED vars
    <2>1. UNCHANGED <<customers, seq, orders, written, stockLock, cache, pc, job, try, surfaced, deploy, tokens, calls>>
      BY <1>1 DEF vars
    <2>2. TableOK' /\ WrittenOK' /\ Grown /\ Lasting
      BY <2>1, TablesRest DEF IInv, TableOK, WrittenOK
    <2>3. ProcessesOK'
      BY <2>1, <2>2, LocalStays DEF IInv, ProcessesOK
    <2>4. CacheOK' /\ OrdersOK'
      BY <2>1, <2>2, CacheStays, OrderStays DEF IInv, OrdersOK
    <2> QED
      BY <2>1, <2>2, <2>3, <2>4 DEF IInv, SettingOK, StockOK, NumbersOK, Pending, Mine, SurfacedOK
  <1>2. customers' = customers => Grown
    BY DEF Grown
  <1>3. ASSUME NEW self \in Request, NEW kind, NEW token \in tokens, kind \in {"read", "reserve"},
               Begin(self, kind, token)
        PROVE  IInv' /\ Grown
    BY <1>2, <1>3, BeginInv DEF Begin, rows
  <1>4. ASSUME NEW self \in Request, FindCustomerBySub(self) PROVE IInv' /\ Grown
    BY <1>2, <1>4, FindInv DEF FindCustomerBySub, rows
  <1>5. ASSUME NEW self \in Request, ReserveStock(self) PROVE IInv' /\ Grown
    BY <1>2, <1>5, StockInv DEF ReserveStock, rows
  <1>6. ASSUME NEW self \in Request, CreateOrder(self) PROVE IInv' /\ Grown
    BY <1>2, <1>6, CreateInv DEF CreateOrder, Fail
  <1>7. ASSUME NEW self \in Request, ReserveAndCreateOrder(self) PROVE IInv' /\ Grown
    BY <1>2, <1>7, CteInv DEF ReserveAndCreateOrder, Fail
  <1>8. ASSUME NEW self \in Request, Refused(self) \/ DeadlockDetected(self) \/ Abort(self)
        PROVE  IInv' /\ Grown
    BY <1>2, <1>8, ErrorInv DEF Refused, DeadlockDetected, Abort, Fail, environment
  <1>9. CASE Restart
    BY <1>2, <1>9, RestartInv DEF Restart
  <1> QED
    BY <1>1, <1>3, <1>4, <1>5, <1>6, <1>7, <1>8, <1>9, UpdateInv, UpsertInv, CommitInv DEF Next, Continue

----------------------------------------------------------------------------
(* The invariant holds in every reachable state.                           *)
THEOREM Invariance == Spec => []IInv
  <1>1. Init => IInv
    BY InitInv
  <1>2. IInv /\ [Next]_vars => IInv'
    BY StepInv
  <1> QED
    BY <1>1, <1>2, PTL DEF Spec

(* The types, and the two unique columns: a call draws one id at most, and *)
(* no row that an open transaction may still commit clashes with another.  *)
THEOREM TypeCorrect == Spec => []TypeOK
  <1>1. IInv => TypeOK
    <2> SUFFICES ASSUME IInv PROVE TypeOK
      OBVIOUS
    <2>1. seq \in 1..(MaxCalls + 2) /\ 1..(seq - 1) \subseteq RowId
      BY FS_CardinalityType, CustomersAssumption DEF IInv, NumbersOK, TableOK, RowId
    <2>2. /\ DOMAIN customers \subseteq RowId /\ customers \in [DOMAIN customers -> Row]
          /\ \A k \in DOMAIN customers : ~Duplicate(k, customers[k])
      BY <2>1 DEF IInv, TableOK
    <2>3. ASSUME NEW self \in Request
          PROVE  /\ DOMAIN written[self] \subseteq RowId /\ written[self] \in [DOMAIN written[self] -> Row]
                 /\ \A k \in DOMAIN written[self] : ~Duplicate(k, written[self][k])
      <3>1. written[self] = [k \in DOMAIN written[self] |-> written[self][k]]
        BY DEF IInv, WrittenOK
      <3>2. \A k \in DOMAIN written[self] :
              k \in 1..(seq - 1) /\ written[self][k] \in Row /\ ~Duplicate(k, written[self][k])
        BY DEF IInv, WrittenOK, Fits
      <3> QED
        BY <2>1, <3>1, <3>2
    <2>4. \A self \in Request : try[self] \in 1..LinkAttempts
      BY DEF IInv, ProcessesOK, Local
    <2> QED
      BY <2>1, <2>2, <2>3, <2>4 DEF IInv, OrdersOK, OrderOK, StockOK, CacheOK, SurfacedOK, TypeOK
  <1> QED
    BY <1>1, Invariance, PTL

(* Orders are placed under the rows of their callers.                      *)
THEOREM OrdersUnderTheirCallers == Spec => []OrdersAreTheirCallers
  <1>1. IInv => OrdersAreTheirCallers
    BY DEF IInv, OrdersOK, OrderOK, Standing, Bound, OrdersAreTheirCallers
  <1> QED
    BY <1>1, Invariance, PTL

(* No row goes away or changes hands.                                      *)
THEOREM SubjectsAreKept == Spec => SubjectsKeep
  <1>1. IInv /\ [Next]_vars => [\A k \in DOMAIN customers :
            /\ k \in DOMAIN customers'
            /\ customers[k].sub # Null => customers'[k].sub = customers[k].sub]_vars
    BY StepInv DEF Grown
  <1> QED
    BY <1>1, Invariance, PTL DEF Spec, SubjectsKeep

(* A lost race is retried: after a failed attempt the caller has a row, so *)
(* the next lookup finds it.                                               *)
THEOREM RacesAreRetried == Spec => []LostRaceIsRetried
  <1>1. IInv => LostRaceIsRetried
    BY DEF IInv, SurfacedOK, LostRaceIsRetried
  <1> QED
    BY <1>1, Invariance, PTL

(* Two settled callers never wait for each other, and outside the baseline *)
(* arm nobody does: whoever holds the stock row has waited for every other *)
(* row it needs, except in that arm.                                       *)
THEOREM OnlyUnsettledCallersDeadlock == Spec => []DeadlocksNeedAnUnsettledCaller
  <1>1. IInv => DeadlocksNeedAnUnsettledCaller
    <2> SUFFICES ASSUME IInv, NEW self \in Request, NEW q \in Request, Deadlocked(self, q)
                 PROVE  deploy.arm = "baseline" /\ ~(Settled(self) /\ Settled(q))
      BY DEF DeadlocksNeedAnUnsettledCaller
    <2>1. q # self /\ WaitsFor(self, q) /\ WaitsFor(q, self)
      BY DEF Deadlocked, WaitsFor
    <2>2. ASSUME NEW p \in Request, NEW r \in Request, p # r, pc[p] = "reserve", stockLock = r,
                 pc[r] = "create", Referenced(r, p)
          PROVE  deploy.arm = "baseline" /\ ~Settled(p)
      <3>1. deploy.arm = "baseline"
        BY <2>2 DEF IInv, StockOK
      <3>2. DOMAIN written[p] # {}
        BY <2>2 DEF Referenced
      <3>3. job[p].known => EmailChanged(job[p].token.sub)
        BY <2>2, <3>2 DEF IInv, ProcessesOK, Local, Reserving, Late
      <3> QED
        BY <3>1, <3>3 DEF Settled
    <2>3. CASE pc[self] = "reserve" /\ pc[q] = "reserve"
      BY <2>1, <2>3 DEF WaitsFor
    <2>4. CASE pc[self] = "create" /\ pc[q] = "create"
      <3>1. job[self].id \in DOMAIN written[q] /\ job[q].id \in DOMAIN written[self]
        BY <2>1, <2>4 DEF WaitsFor, Referenced
      <3>2. job[self].id = job[q].id
        BY <3>1 DEF IInv, ProcessesOK, Local
      <3> QED
        BY <2>1, <3>1, <3>2 DEF IInv, WrittenOK, Fits
    <2>5. CASE pc[self] = "reserve" /\ pc[q] = "create"
      BY <2>1, <2>2, <2>5 DEF WaitsFor
    <2>6. CASE pc[self] = "create" /\ pc[q] = "reserve"
      BY <2>1, <2>2, <2>6 DEF WaitsFor
    <2> QED
      BY <2>1, <2>3, <2>4, <2>5, <2>6 DEF WaitsFor
  <1> QED
    BY <1>1, Invariance, PTL
=============================================================================
