------------------------------ MODULE Payments ------------------------------
(***************************************************************************)
(* POST /payments of the API (apps/api/src/routes/payments.ts) running     *)
(* over PostgreSQL, Redis and the simulated gateway.  Many HTTP requests   *)
(* interleave in one Node process; each runs one database transaction on a *)
(* pooled connection.  A request's control state is pc[r]: it is between   *)
(* two awaits of its handler.  The admin reset of the invoices, process    *)
(* crashes, broken database connections and cache losses are steps too.    *)
(***************************************************************************)
EXTENDS Integers, FiniteSets

CONSTANTS
  Requests,               \* HTTP requests; a retry is a request of its own
  Keys,                   \* Idempotency-Key header values
  NoKey,                  \* the header is absent or blank
  Customers,
  InvoiceIds,             \* invoice ids a body may name
  Invoices,               \* the ids that exist in table invoices
  Owner, Due,             \* customer_id and amount of each invoice
  SeedStatus,             \* invoice status in the seed data
  Amounts,
  Bodies,                 \* request contents clients may send
  PaymentIds,             \* pay_ and eight hexadecimal digits
  PoolMax,                \* PG_POOL_MAX
  FaultInjectionEnabled,  \* FAULT_INJECTION_ENABLED
  MaxFailures,            \* bound: crashes, broken connections, failed statements
  MaxResets,              \* bound: POST /admin/reset-invoices
  Admin, None

Statuses == {"pending", "overdue", "paid"}
Outcomes == {"approved", "declined"}
Content == [auth: Customers, key: Keys \union {NoKey}, customer: Customers,
            invoice: InvoiceIds, amount: Amounts]
Rows == [id: PaymentIds, invoice: InvoiceIds, amount: Amounts, customer: Customers,
         status: Outcomes \union {"pending"}]
Results == [id: PaymentIds, status: Outcomes, invoiceStatus: Statuses \union {"unknown"}]
Codes == {200, 201, 400, 402, 403, 500, 504}
Replies == [code: Codes, result: Results \union {None}]

ASSUME DataAssumption ==
  /\ Invoices \subseteq InvoiceIds
  /\ Owner \in [Invoices -> Customers]
  /\ Due \in [Invoices -> Amounts]
  /\ SeedStatus \in [Invoices -> Statuses]
  /\ Bodies \subseteq Content
ASSUME BoundAssumption ==
  /\ PoolMax \in Nat \ {0}
  /\ MaxFailures \in Nat
  /\ MaxResets \in Nat
  /\ FaultInjectionEnabled \in BOOLEAN
ASSUME SentinelAssumption ==
  /\ NoKey \notin Keys
  /\ None \notin Requests /\ Admin \notin Requests /\ Admin # None
  /\ None \notin Rows \union Results \union Replies \union Content

VARIABLES
  pc,           \* where each request's handler is
  body,         \* what each request sent
  row,          \* the uncommitted payments row of a request's transaction
  result,       \* `outcome.result' of the handler
  reply,        \* the HTTP response sent, None before
  payments,     \* committed payments rows, by their unique idempotency_key
  invoices,     \* committed invoice status
  lockedBy,     \* holder of each invoice's row lock
  cache,        \* Redis idem:payment:<key>
  cacheWrites,  \* fire-and-forget SETs on their way to Redis
  gateway,      \* what the gateway answered to each request (it never forgets)
  resetting,    \* the invoice reset: "no", "running" or "orphan" after a crash
  failures,     \* failures so far
  resets        \* resets committed so far

vars == <<pc, body, row, result, reply, payments, invoices, lockedBy, cache,
          cacheWrites, gateway, resetting, failures, resets>>
tables == <<payments, invoices>>
redisVars == <<cache, cacheWrites>>
adminVars == <<resetting, resets>>

(* Phases in which the request holds a pooled connection. *)
TxPhases == {"inserting", "replaying", "locking", "charging", "settling", "committing"}
(* A COMMIT or a query whose socket died: the server side transaction lives on. *)
OrphanPhases == {"orphan", "orphanCommit"}
Phases == {"idle", "received", "connecting", "answering", "echoing", "done"}
            \union TxPhases \union OrphanPhases

Init ==
  /\ pc = [r \in Requests |-> "idle"]
  /\ body = [r \in Requests |-> None]
  /\ row = [r \in Requests |-> None]
  /\ result = [r \in Requests |-> None]
  /\ reply = [r \in Requests |-> None]
  /\ payments = [k \in Keys |-> None]
  /\ invoices = SeedStatus
  /\ lockedBy = [i \in Invoices |-> None]
  /\ cache = [k \in Keys |-> None]
  /\ cacheWrites = {}
  /\ gateway = [r \in Requests |-> "none"]
  /\ resetting = "no"
  /\ failures = 0
  /\ resets = 0

-----------------------------------------------------------------------------
(* Moving a handler along, answering, and ending a transaction. *)

Goto(r, phase) == pc' = [pc EXCEPT ![r] = phase]

Respond(r, code, res) == reply' = [reply EXCEPT ![r] = [code |-> code, result |-> res]]

(* Mutant: row locks outlive their transaction. *)
KeepsLocks(holder) == lockedBy

(* Every lock a transaction holds is released by its end. *)
Unlocked(holder) == [i \in Invoices |-> IF lockedBy[i] = holder THEN None ELSE lockedBy[i]]

(* Mutant: the index entry of an aborted or finished INSERT stays open. *)
KeepsIndexEntry(r) ==
  /\ lockedBy' = Unlocked(r)
  /\ UNCHANGED row

Rollback(r) ==
  /\ row' = [row EXCEPT ![r] = None]
  /\ lockedBy' = Unlocked(r)

(* An exception thrown inside withTransaction: ROLLBACK, release, error reply. *)
Abort(r, code) ==
  /\ Goto(r, "done")
  /\ Respond(r, code, None)
  /\ Rollback(r)

SlotsInUse == Cardinality({r \in Requests : pc[r] \in TxPhases}) + (IF resetting = "running" THEN 1 ELSE 0)
SlotFree == SlotsInUse < PoolMax

-----------------------------------------------------------------------------
(* Before the transaction: guards, then the Redis fast path. *)

Receive(r, b) ==
  /\ pc[r] = "idle"
  /\ Goto(r, "received")
  /\ body' = [body EXCEPT ![r] = b]
  /\ UNCHANGED <<row, result, reply, tables, lockedBy, redisVars, gateway, adminVars, failures>>

Refuse(r, code) ==
  /\ Goto(r, "done")
  /\ Respond(r, code, None)
  /\ UNCHANGED <<body, row, result, tables, lockedBy, redisVars, gateway, adminVars, failures>>

HasKey(r) == body[r].key # NoKey

RejectMissingKey(r) ==
  /\ pc[r] = "received"
  /\ ~HasKey(r)
  /\ Refuse(r, 400)

Owns(r) == body[r].auth = body[r].customer

RejectForeign(r) ==
  /\ pc[r] = "received"
  /\ HasKey(r)
  /\ ~Owns(r)
  /\ Refuse(r, 403)

MayLookUp(r) ==
  /\ pc[r] = "received"
  /\ HasKey(r)
  /\ Owns(r)

CacheHit(r) ==
  /\ MayLookUp(r)
  /\ cache[body[r].key] # None
  /\ Goto(r, "done")
  /\ Respond(r, 200, cache[body[r].key])
  /\ UNCHANGED <<body, row, result, tables, lockedBy, redisVars, gateway, adminVars, failures>>

CacheMiss(r) ==
  /\ MayLookUp(r)
  /\ cache[body[r].key] = None
  /\ Goto(r, "connecting")
  /\ UNCHANGED <<body, row, result, reply, tables, lockedBy, redisVars, gateway, adminVars, failures>>

(* redis.get is outside any try: its rejection is an internal error. *)
CacheError(r) ==
  /\ MayLookUp(r)
  /\ Refuse(r, 500)

-----------------------------------------------------------------------------
(* The transaction. *)

Begin(r) ==
  /\ pc[r] = "connecting"
  /\ SlotFree
  /\ Goto(r, "inserting")
  /\ UNCHANGED <<body, row, result, reply, tables, lockedBy, redisVars, gateway, adminVars, failures>>

(* No slot within connectionTimeoutMillis, or no database: there is no client
   yet, so nothing to roll back. *)
ConnectFails(r) ==
  /\ pc[r] = "connecting"
  /\ Refuse(r, 500)

(* A unique index makes an INSERT wait for an open transaction that holds the
   same value, and fail or do nothing once the value is committed. *)
KeyCommitted(k) == payments[k] # None
KeyInFlight(k) == \E q \in Requests : row[q] # None /\ body[q].key = k
IdCommitted(id) == \E k \in Keys : payments[k] # None /\ payments[k].id = id
IdInFlight(id) == \E q \in Requests : row[q] # None /\ row[q].id = id

(* Mutants: no unique index; a look before the INSERT instead of the index; an
   index that forgets committed keys. *)
AnyKey(k) == TRUE
LookThenInsert(k) == ~KeyCommitted(k)
OnlyOpenInserts(k) == ~KeyInFlight(k)

KeyAvailable(k) == ~KeyCommitted(k) /\ ~KeyInFlight(k)

PendingRow(r, id) ==
  [id |-> id, invoice |-> body[r].invoice, amount |-> body[r].amount,
   customer |-> body[r].customer, status |-> "pending"]

InsertRow(r, id) ==
  /\ pc[r] = "inserting"
  /\ KeyAvailable(body[r].key)
  /\ ~IdCommitted(id) /\ ~IdInFlight(id)
  /\ row' = [row EXCEPT ![r] = PendingRow(r, id)]
  /\ Goto(r, "locking")
  /\ UNCHANGED <<body, result, reply, tables, lockedBy, redisVars, gateway, adminVars, failures>>

(* ON CONFLICT names idempotency_key only: a taken payment_id is an error. *)
InsertCollides(r, id) ==
  /\ pc[r] = "inserting"
  /\ KeyAvailable(body[r].key)
  /\ IdCommitted(id)
  /\ Abort(r, 500)
  /\ UNCHANGED <<body, result, tables, redisVars, gateway, adminVars, failures>>

InsertConflict(r) ==
  /\ pc[r] = "inserting"
  /\ KeyCommitted(body[r].key)
  /\ Goto(r, "replaying")
  /\ UNCHANGED <<body, row, result, reply, tables, lockedBy, redisVars, gateway, adminVars, failures>>

(* Mutant: the LEFT JOIN without its COALESCE. *)
NullStatus(i) == IF i \in Invoices THEN invoices[i] ELSE None

(* The replay reads the payment together with its invoice as it is now. *)
InvoiceStatusNow(i) == IF i \in Invoices THEN invoices[i] ELSE "unknown"

SelectExisting(r) ==
  LET p == payments[body[r].key] IN
  /\ pc[r] = "replaying"
  /\ result' = [result EXCEPT ![r] =
       [id |-> p.id, status |-> p.status, invoiceStatus |-> InvoiceStatusNow(p.invoice)]]
  /\ Goto(r, "committing")
  /\ UNCHANGED <<body, row, reply, tables, lockedBy, redisVars, gateway, adminVars, failures>>

(* UPDATE payments SET status, and the handler's result. *)
Decide(r, status, invoiceStatus) ==
  /\ row' = [row EXCEPT ![r].status = status]
  /\ result' = [result EXCEPT ![r] =
       [id |-> row[r].id, status |-> status, invoiceStatus |-> invoiceStatus]]
  /\ Goto(r, "committing")

(* Mutants: the WHERE without customer_id; the SELECT without FOR UPDATE; no
   test for a paid invoice. *)
InvoiceExists(r) == body[r].invoice \in Invoices
NoForUpdate(i) == TRUE
NeverPaid(i) == FALSE

Matches(r) == body[r].invoice \in Invoices /\ Owner[body[r].invoice] = body[r].customer
LockFree(i) == lockedBy[i] = None
AlreadyPaid(i) == invoices[i] = "paid"

NoSuchInvoice(r) ==
  /\ pc[r] = "locking"
  /\ ~Matches(r)
  /\ Decide(r, "declined", "unknown")
  /\ UNCHANGED <<body, reply, tables, lockedBy, redisVars, gateway, adminVars, failures>>

(* SELECT ... FOR UPDATE waits for the row lock, then reads the newest version. *)
LockedForUpdate(r) ==
  /\ pc[r] = "locking"
  /\ Matches(r)
  /\ LockFree(body[r].invoice)
  /\ lockedBy' = [lockedBy EXCEPT ![body[r].invoice] = r]

LockPaid(r) ==
  /\ LockedForUpdate(r)
  /\ AlreadyPaid(body[r].invoice)
  /\ Decide(r, "declined", "paid")
  /\ UNCHANGED <<body, reply, tables, redisVars, gateway, adminVars, failures>>

LockPayable(r) ==
  /\ LockedForUpdate(r)
  /\ ~AlreadyPaid(body[r].invoice)
  /\ Goto(r, "charging")
  /\ UNCHANGED <<body, row, result, reply, tables, redisVars, gateway, adminVars, failures>>

Charge(r, answer) ==
  /\ pc[r] = "charging"
  /\ gateway' = [gateway EXCEPT ![r] = answer]
  /\ Goto(r, "settling")
  /\ UNCHANGED <<body, row, result, reply, tables, lockedBy, redisVars, adminVars, failures>>

(* Mutant: a fault at the gateway is retried from the INSERT, the lock held. *)
RetryHoldingLock(r, code) ==
  /\ pc[r] = "charging"
  /\ FaultInjectionEnabled
  /\ Goto(r, "inserting")
  /\ row' = [row EXCEPT ![r] = None]
  /\ UNCHANGED <<body, result, reply, tables, lockedBy, redisVars, gateway, adminVars, failures>>

(* An injected error or timeout fault throws before the gateway is called. *)
GatewayFault(r, code) ==
  /\ pc[r] = "charging"
  /\ FaultInjectionEnabled
  /\ Abort(r, code)
  /\ UNCHANGED <<body, result, tables, redisVars, gateway, adminVars, failures>>

(* Mutant: the gateway's answer is ignored. *)
ExactAmountOnly(r) == Due[body[r].invoice] = body[r].amount

Settles(r) == gateway[r] = "approved" /\ Due[body[r].invoice] = body[r].amount

SettleApproved(r) ==
  /\ pc[r] = "settling"
  /\ Settles(r)
  /\ Decide(r, "approved", "paid")
  /\ UNCHANGED <<body, reply, tables, lockedBy, redisVars, gateway, adminVars, failures>>

SettleDeclined(r) ==
  /\ pc[r] = "settling"
  /\ ~Settles(r)
  /\ Decide(r, "declined", invoices[body[r].invoice])
  /\ UNCHANGED <<body, reply, tables, lockedBy, redisVars, gateway, adminVars, failures>>

(* Mutants: a decline throws and rolls its row back; the invoice is not updated. *)
PersistApproved(r) ==
  /\ payments' = IF row[r].status = "approved"
                   THEN [payments EXCEPT ![body[r].key] = row[r]]
                   ELSE payments
  /\ invoices' = IF row[r].status = "approved"
                   THEN [invoices EXCEPT ![row[r].invoice] = "paid"]
                   ELSE invoices
  /\ Rollback(r)
PersistPaymentOnly(r) ==
  /\ payments' = [payments EXCEPT ![body[r].key] = row[r]]
  /\ UNCHANGED invoices
  /\ Rollback(r)

(* What COMMIT makes visible: the payments row and, if approved, the paid invoice. *)
Persist(r) ==
  /\ payments' = [payments EXCEPT ![body[r].key] = row[r]]
  /\ invoices' = IF row[r].status = "approved"
                   THEN [invoices EXCEPT ![row[r].invoice] = "paid"]
                   ELSE invoices
  /\ Rollback(r)

CommitPayment(r) ==
  /\ pc[r] = "committing"
  /\ row[r] # None
  /\ Persist(r)
  /\ Goto(r, "answering")
  /\ UNCHANGED <<body, result, reply, redisVars, gateway, adminVars, failures>>

CommitReplay(r) ==
  /\ pc[r] = "committing"
  /\ row[r] = None
  /\ Goto(r, "echoing")
  /\ UNCHANGED <<body, row, result, reply, tables, lockedBy, redisVars, gateway, adminVars, failures>>

-----------------------------------------------------------------------------
(* After the transaction: the cache write is started and not awaited. *)

Answer(r) ==
  /\ pc[r] = "answering"
  /\ Goto(r, "done")
  /\ cacheWrites' = cacheWrites \union {[key |-> body[r].key, result |-> result[r]]}
  /\ Respond(r, IF result[r].status = "approved" THEN 201 ELSE 402, result[r])
  /\ UNCHANGED <<body, row, result, tables, lockedBy, cache, gateway, adminVars, failures>>

AnswerReplay(r) ==
  /\ pc[r] = "echoing"
  /\ Goto(r, "done")
  /\ Respond(r, 200, result[r])
  /\ UNCHANGED <<body, row, result, tables, lockedBy, redisVars, gateway, adminVars, failures>>

requestVars == <<pc, body, row, result, reply>>

CacheWriteLands(w) ==
  /\ w \in cacheWrites
  /\ cacheWrites' = cacheWrites \ {w}
  /\ cache' = [cache EXCEPT ![w.key] = w.result]
  /\ UNCHANGED <<requestVars, tables, lockedBy, gateway, adminVars, failures>>

CacheWriteLost(w) ==
  /\ w \in cacheWrites
  /\ cacheWrites' = cacheWrites \ {w}
  /\ UNCHANGED <<requestVars, tables, lockedBy, cache, gateway, adminVars, failures>>

(* The entry's 24 hours are over, or Redis lost it. *)
CacheExpires(k) ==
  /\ cache[k] # None
  /\ cache' = [cache EXCEPT ![k] = None]
  /\ UNCHANGED <<requestVars, tables, lockedBy, cacheWrites, gateway, adminVars, failures>>

-----------------------------------------------------------------------------
(* Failures.  A transaction whose client is gone is rolled back by the server
   when it notices, unless COMMIT was already on its way. *)

Orphaned(r) == IF pc[r] = "committing" THEN "orphanCommit" ELSE "orphan"

(* A statement is rejected -- an amount beyond NUMERIC(12, 2), a cancelled query,
   a failed UPDATE or COMMIT -- and the connection survives: ROLLBACK, 500. *)
StatementFails(r) ==
  /\ pc[r] \in TxPhases \ {"charging"}
  /\ failures < MaxFailures
  /\ failures' = failures + 1
  /\ Abort(r, 500)
  /\ UNCHANGED <<body, result, tables, redisVars, gateway, adminVars>>

(* The connection breaks under a statement, ROLLBACK is rejected too: 500. *)
ConnectionLost(r) ==
  /\ pc[r] \in TxPhases \ {"charging"}
  /\ failures < MaxFailures
  /\ failures' = failures + 1
  /\ Goto(r, Orphaned(r))
  /\ Respond(r, 500, None)
  /\ UNCHANGED <<body, row, result, tables, lockedBy, redisVars, gateway, adminVars>>

(* The process dies: no request in it is ever answered.  It restarts at once. *)
Crash ==
  /\ failures < MaxFailures
  /\ failures' = failures + 1
  /\ pc' = [r \in Requests |->
              IF pc[r] \in TxPhases THEN Orphaned(r)
              ELSE IF pc[r] \in OrphanPhases \union {"idle", "done"} THEN pc[r]
              ELSE "done"]
  /\ resetting' = IF resetting = "running" THEN "orphan" ELSE resetting
  /\ UNCHANGED <<body, row, result, reply, tables, lockedBy, redisVars, gateway, resets>>

OrphanAborts(r) ==
  /\ pc[r] \in OrphanPhases
  /\ Goto(r, "done")
  /\ Rollback(r)
  /\ UNCHANGED <<body, result, reply, tables, redisVars, gateway, adminVars, failures>>

OrphanCommits(r) ==
  /\ pc[r] = "orphanCommit"
  /\ row[r] # None
  /\ Goto(r, "done")
  /\ Persist(r)
  /\ UNCHANGED <<body, result, reply, redisVars, gateway, adminVars, failures>>

-----------------------------------------------------------------------------
(* POST /admin/reset-invoices: one UPDATE over all rows, locking each in turn. *)

ResetStart ==
  /\ FaultInjectionEnabled
  /\ resetting = "no"
  /\ resets < MaxResets
  /\ SlotFree
  /\ resetting' = "running"
  /\ UNCHANGED <<requestVars, tables, lockedBy, redisVars, gateway, resets, failures>>

ResetLock(i) ==
  /\ resetting # "no"
  /\ LockFree(i)
  /\ lockedBy' = [lockedBy EXCEPT ![i] = Admin]
  /\ UNCHANGED <<requestVars, tables, redisVars, gateway, adminVars, failures>>

ResetHoldsAll == \A i \in Invoices : lockedBy[i] = Admin

ResetCommit ==
  /\ resetting # "no"
  /\ ResetHoldsAll
  /\ invoices' = [i \in Invoices |-> "pending"]
  /\ lockedBy' = Unlocked(Admin)
  /\ resetting' = "no"
  /\ resets' = resets + 1
  /\ UNCHANGED <<requestVars, payments, redisVars, gateway, failures>>

(* The UPDATE is rolled back when its connection breaks or its client is gone. *)
ResetAborts ==
  /\ \/ resetting = "orphan" /\ UNCHANGED failures
     \/ resetting = "running" /\ failures < MaxFailures /\ failures' = failures + 1
  /\ lockedBy' = Unlocked(Admin)
  /\ resetting' = "no"
  /\ UNCHANGED <<requestVars, tables, redisVars, gateway, resets>>

-----------------------------------------------------------------------------

HandlerStep(r) ==
  \/ RejectMissingKey(r)
  \/ RejectForeign(r)
  \/ CacheHit(r)
  \/ CacheMiss(r)
  \/ CacheError(r)
  \/ Begin(r)
  \/ ConnectFails(r)
  \/ \E id \in PaymentIds : InsertRow(r, id) \/ InsertCollides(r, id)
  \/ InsertConflict(r)
  \/ SelectExisting(r)
  \/ NoSuchInvoice(r)
  \/ LockPaid(r)
  \/ LockPayable(r)
  \/ \E answer \in Outcomes : Charge(r, answer)
  \/ \E code \in {500, 504} : GatewayFault(r, code)
  \/ SettleApproved(r)
  \/ SettleDeclined(r)
  \/ CommitPayment(r)
  \/ CommitReplay(r)
  \/ Answer(r)
  \/ AnswerReplay(r)

OrphanStep(r) == OrphanAborts(r) \/ OrphanCommits(r)

RedisStep ==
  \/ \E w \in cacheWrites : CacheWriteLands(w) \/ CacheWriteLost(w)
  \/ \E k \in Keys : CacheExpires(k)

ResetStep == (\E i \in Invoices : ResetLock(i)) \/ ResetCommit

(* The system may rest once every request has been dealt with. *)
Quiescent == (\A r \in Requests : pc[r] = "done") /\ UNCHANGED vars

Next ==
  \/ \E r \in Requests :
       \/ \E b \in Bodies : Receive(r, b)
       \/ HandlerStep(r)
       \/ OrphanStep(r)
       \/ StatementFails(r)
       \/ ConnectionLost(r)
  \/ RedisStep
  \/ Crash
  \/ ResetStart
  \/ ResetStep
  \/ ResetAborts
  \/ Quiescent

Spec == Init /\ [][Next]_vars

(* The event loop runs every ready continuation, PostgreSQL wakes lock waiters
   and reaps dead clients, the reset's UPDATE proceeds.  Failures owe nothing. *)
FairSpec ==
  /\ Spec
  /\ \A r \in Requests : WF_vars(HandlerStep(r)) /\ WF_vars(OrphanStep(r))
  /\ WF_vars(ResetStep)
-----------------------------------------------------------------------------
(* Every variable stays in its range; a committed row is never 'pending', so
   the status a replay reads (payments.ts:107-118) is always an outcome. *)
TypeOK ==
  /\ pc \in [Requests -> Phases]
  /\ body \in [Requests -> Bodies \union {None}]
  /\ row \in [Requests -> Rows \union {None}]
  /\ result \in [Requests -> Results \union {None}]
  /\ reply \in [Requests -> Replies \union {None}]
  /\ payments \in [Keys -> {p \in Rows : p.status # "pending"} \union {None}]
  /\ invoices \in [Invoices -> Statuses]
  /\ lockedBy \in [Invoices -> Requests \union {Admin, None}]
  /\ cache \in [Keys -> Results \union {None}]
  /\ cacheWrites \subseteq [key: Keys, result: Results]
  /\ gateway \in [Requests -> Outcomes \union {"none"}]
  /\ resetting \in {"no", "running", "orphan"}
  /\ failures \in 0..MaxFailures
  /\ resets \in 0..MaxResets

Agrees(k, res) ==
  /\ payments[k] # None
  /\ payments[k].id = res.id
  /\ payments[k].status = res.status

Told(r) == reply[r] # None /\ reply[r].result # None

(* Whatever a client was ever told about its key -- by the handler that decided
   it, by a database replay or by a cache replay -- is what the payments table
   says now, through crashes, retries and late cache writes. *)
ReplyMatchesLedger == \A r \in Requests : Told(r) => Agrees(body[r].key, reply[r].result)

(* Redis never holds, nor is about to hold, a result the table does not back:
   "a cache miss is safe" (payments.ts:144-146), and so is a hit. *)
CacheMatchesLedger ==
  /\ \A k \in Keys : cache[k] # None => Agrees(k, cache[k])
  /\ \A w \in cacheWrites : Agrees(w.key, w.result)

FirstAnswer(r) == reply[r] # None /\ reply[r].code \in {201, 402}

(* A decision is announced as such -- 201 or 402 -- to one request of its key at
   most; every other that is told of it is told of a replay, with 200
   (payments.ts:79-83, 149-160), wherever they overtake each other and whether
   Redis, the database or nothing had the answer. *)
AnnouncedOnce ==
  \A r, q \in Requests :
    FirstAnswer(r) /\ FirstAnswer(q) /\ body[r].key = body[q].key => r = q

AtGateway(r) == pc[r] \in {"charging", "settling"}

(* At most one request at a time is charging for a key, and at most one for an
   invoice (payments.ts:90-91 and 179-181). *)
NoConcurrentCharges ==
  \A r, q \in Requests : r # q /\ AtGateway(r) /\ AtGateway(q) =>
    body[r].key # body[q].key /\ body[r].invoice # body[q].invoice

ChargesUnder(k) == {r \in Requests : gateway[r] = "approved" /\ body[r].key = k}

(* A key is charged once, and once more for each failure that hit the window
   between the gateway's approval and COMMIT: the code has no other way to
   charge a key twice. *)
ChargesBounded == \A k \in Keys : Cardinality(ChargesUnder(k)) <= 1 + failures

(* Every approved payment in the table was approved by the gateway under that
   key for the amount the invoice is due. *)
ApprovedRowWasCharged ==
  \A k \in Keys : payments[k] # None /\ payments[k].status = "approved" =>
    /\ \E r \in ChargesUnder(k) : body[r].invoice = payments[k].invoice
    /\ payments[k].amount = Due[payments[k].invoice]

PaidFor(i) == \E k \in Keys :
  payments[k] # None /\ payments[k].invoice = i /\ payments[k].status = "approved"

(* The two tables agree: an invoice is paid only if the seed or an approved
   payment made it so, and until a reset every approved payment's invoice is. *)
TablesAgree ==
  \A i \in Invoices :
    /\ invoices[i] = "paid" => SeedStatus[i] = "paid" \/ PaidFor(i)
    /\ resets = 0 /\ PaidFor(i) => invoices[i] = "paid"

ChargedNow(r) == gateway[r] # "approved" /\ gateway'[r] = "approved"

(* Once a key is decided no request charges it again, not even one that looked
   up the cache before the decision. *)
NoChargeAfterDecision ==
  [][\A r \in Requests : ChargedNow(r) => payments[body[r].key] = None]_vars

(* The gateway is never called for an invoice that is paid at that moment,
   whatever keys, resets and orphaned commits are around. *)
NoChargeOnPaidInvoice ==
  [][\A r \in Requests : ChargedNow(r) => invoices[body[r].invoice] # "paid"]_vars

ApprovalsOf(i) == {k \in Keys :
  payments[k] # None /\ payments[k].invoice = i /\ payments[k].status = "approved"}

(* An invoice is paid once -- the seed counts -- and once more for each reset,
   whatever keys compete for it and whatever orphaned transaction commits late:
   neither a reset nor a failure in mid-payment opens it twice. *)
PaidOncePerReset ==
  \A i \in Invoices :
    Cardinality(ApprovalsOf(i)) + (IF SeedStatus[i] = "paid" THEN 1 ELSE 0) <= 1 + resets

(* Who waits for whom.  A request waits for a pool slot, for an open INSERT (its
   key and its id are unique columns: any open row may be the one), or for the
   lock of its invoice; the reset for every lock it has not. *)
Agents == Requests \union {Admin}
HasSlot(h) == IF h = Admin THEN resetting = "running" ELSE pc[h] \in TxPhases
InTransaction(h) == IF h = Admin THEN resetting # "no" ELSE pc[h] \in TxPhases \union OrphanPhases

WaitsForSlot(w, h) == w # Admin /\ pc[w] = "connecting" /\ ~SlotFree /\ HasSlot(h)
WaitsForInsert(w, h) == Admin \notin {w, h} /\ pc[w] = "inserting" /\ row[h] # None
WaitsForLock(w, h) == \E i \in Invoices :
  /\ lockedBy[i] = h /\ h # w
  /\ IF w = Admin THEN resetting # "no" ELSE pc[w] = "locking" /\ Matches(w) /\ body[w].invoice = i
Waits(w, h) == WaitsForSlot(w, h) \/ WaitsForInsert(w, h) \/ WaitsForLock(w, h)

(* Nobody waits for a transaction that is over, and no requests wait for each
   other in a circle, with or without the reset: the pool, the unique indexes
   and the row locks are always taken in this order. *)
NoDeadlock ==
  /\ \A w, h \in Agents : Waits(w, h) => InTransaction(h)
  /\ \A S \in SUBSET Agents : S # {} => \E w \in S : \A h \in S : ~Waits(w, h)

(* The handlers implement the ledger: each COMMIT is one atomic decision, and
   each 200, 201 or 402 tells one. *)
ToldSoFar == {<<body[r].key, reply[r].result.id, reply[r].result.status>> :
                r \in {q \in Requests : Told(q)}}
Ledger == INSTANCE PaymentLedger WITH ledger <- payments, told <- ToldSoFar
ImplementsLedger == Ledger!Spec

(* No request waits for ever, on the pool, on a key or on a row lock: it is
   answered or its process or connection is gone. *)
EveryRequestEnds == \A r \in Requests : pc[r] = "received" ~> pc[r] = "done"

(* Whoever locks an invoice lets go of it, dead clients included. *)
LocksAreReleased == \A i \in Invoices : lockedBy[i] # None ~> lockedBy[i] = None

-----------------------------------------------------------------------------
(* Claims of the documentation that the code does not keep. *)

(* docs/reliability-testing.md:6-7: the same Idempotency-Key never produces two
   charges, even under concurrent retries. *)
NeverTwoCharges == \A k \in Keys : Cardinality(ChargesUnder(k)) <= 1

(* payments.ts:122 and 167: the amount is validated against the invoice, and
   then the gateway is charged. *)
ChargedExactAmount ==
  \A r \in Requests : gateway[r] = "approved" => Due[body[r].invoice] = body[r].amount

(* docs/error-codes.md:48: a replay's body is identical to the original's. *)
ReplayIsIdentical ==
  \A r, q \in Requests : Told(r) /\ Told(q) /\ body[r].key = body[q].key =>
    reply[r].result = reply[q].result
=============================================================================
