---------------------------- MODULE ApiRequests ----------------------------
(***************************************************************************)
(* The request pipeline of the API (server.ts) and its routes for clients: *)
(* login, invoices, plan changes and health, over the one pg.Pool of the   *)
(* process (db.ts) and Redis.  A payment is here what it is to the others: *)
(* it keeps a connection for as long as the gateway likes.  at[r] names the *)
(* await the handler of request r is in; what it does between two awaits is *)
(* one step.                                                               *)
(***************************************************************************)
EXTENDS Naturals, FiniteSets, SequencesExt

CONSTANTS
  Requests,      \* HTTP requests
  Customers,     \* names a request may use
  Known,         \* those that table customers holds
  Plans,         \* table plans
  CurrentPlan,   \* customers.current_plan_id, None for NULL
  ChangeIds,     \* chg_ and eight hexadecimal digits
  Forms,         \* what clients ask: a route, for whom, and a target plan
  PoolMax,       \* PG_POOL_MAX
  TokenTtl,      \* JWT_TTL_SECONDS, in ticks
  Earlier,       \* customers who logged in before
  MaxTime,       \* bound on the clock
  MaxFailures,   \* bound on broken queries and Redis commands
  None

Protected == {"invoices", "plan_change", "payment"}
Faultable == {"login", "invoices", "plan_change"}
Routes == Protected \union {"login", "health"}
Business == {"login", "plan_change"}  \* the routes with a counter of their own
Codes == {200, 201, 202, 400, 401, 403, 404, 422, 500, 503, 504}
Tokens == [sub: Customers, exp: Nat]

ASSUME TableAssumption ==
  /\ Known \subseteq Customers /\ Earlier \subseteq Customers
  /\ CurrentPlan \in [Known -> Plans \union {None}]
  /\ \A f \in Forms : f.route \in Routes /\ f.who \in Customers
ASSUME BoundAssumption ==
  /\ PoolMax \in Nat \ {0} /\ TokenTtl \in Nat \ {0}
  /\ MaxTime \in Nat /\ MaxFailures \in Nat
  /\ IsFiniteSet(Requests)
ASSUME NoneAssumption ==
  None \notin Tokens \union Plans \union ChangeIds \union Forms \union Codes \union Customers \union BOOLEAN

VARIABLES
  at,         \* the await each handler is in
  form,       \* what each request asks
  sub,        \* request.authCustomerId
  code,       \* the status it was answered with, None before
  redisUp,    \* the answer to a health check's PING, None before
  token,      \* the token a login signed
  change,     \* the changeId a plan change was answered
  pool,       \* pg.Pool: who holds a connection, who waits for one
  changes,    \* table plan_changes, with the writer: request, subject of its token
  session,    \* Redis session:<customer>: when the entry expires
  issued,     \* tokens clients hold
  business,   \* business_logins_total and business_plan_changes_total
  responses,  \* http_requests_total of the Business routes, below 400
  now, failures

handlers == <<at, form, sub, code, redisUp, token, change>>
stores == <<changes, session, issued>>
counters == <<business, responses>>
vars == <<handlers, pool, stores, counters, now, failures>>

Init ==
  /\ at = [r \in Requests |-> "idle"]
  /\ form = [r \in Requests |-> None] /\ sub = form /\ code = form
  /\ redisUp = form /\ token = form /\ change = form
  /\ pool = [busy |-> {}, queue |-> <<>>]
  /\ changes = {}
  /\ issued = [sub: Earlier, exp: {TokenTtl}]
  /\ session = [c \in Customers |-> IF c \in Earlier THEN TokenTtl ELSE 0]
  /\ business = [scheduled |-> 0, rejected |-> 0, success |-> 0, failed |-> 0]
  /\ responses = [route \in Business |-> 0]
  /\ now = 0 /\ failures = 0

-----------------------------------------------------------------------------
(* pg-pool, configured in db.ts:9-16: a connection or a place in the queue. *)

Acquire(p, r) ==
  IF Cardinality(p.busy) < PoolMax THEN [p EXCEPT !.busy = @ \union {r}]
                                   ELSE [p EXCEPT !.queue = Append(@, r)]

(* Mutant: it goes to the one who came last. *)
ReleaseToLast(p, r) ==
  IF p.queue = <<>> THEN [p EXCEPT !.busy = @ \ {r}]
  ELSE [busy |-> (p.busy \ {r}) \union {Last(p.queue)}, queue |-> Front(p.queue)]

(* A released connection goes to the one who has waited longest. *)
Release(p, r) ==
  IF p.queue = <<>> THEN [p EXCEPT !.busy = @ \ {r}]
  ELSE [busy |-> (p.busy \ {r}) \union {Head(p.queue)}, queue |-> Tail(p.queue)]

(* connectionTimeoutMillis may pass for whoever waits, wherever in the queue. *)
Places(p, r) == {i \in DOMAIN p.queue : p.queue[i] = r}

GiveUp(p, i) == [p EXCEPT !.queue = RemoveAt(@, i)]

-----------------------------------------------------------------------------
(* Hooks, validation and authentication, before the handler. *)

Goto(r, await) == at' = [at EXCEPT ![r] = await]
Answer(r, c) == Goto(r, "answered") /\ code' = [code EXCEPT ![r] = c]

(* A handler goes on to an await; all but a fault and Redis need a connection. *)
Enter(r, await, p) == Goto(r, await) /\ pool' = Acquire(p, r) /\ UNCHANGED code
Finish(r, c) == Answer(r, c) /\ pool' = Release(pool, r)

FirstQuery == [login |-> "credentials", invoices |-> "invoices", plan_change |-> "customer",
               health |-> "ping", payment |-> "gateway"]

Authentic(t) == t # None /\ now < t.exp

(* The first refusal on the way: schema, then preHandler. *)
Refusal(f, t) ==
  IF ~f.valid THEN 400
  ELSE IF f.route \in Protected /\ ~Authentic(t) THEN 401 ELSE None

Arrive(r) ==
  /\ at[r] = "idle"
  /\ \E f \in Forms : \E t \in {None} \union (IF f.route \in Protected THEN issued ELSE {}) :
       /\ form' = [form EXCEPT ![r] = f]
       /\ sub' = [sub EXCEPT ![r] = IF Authentic(t) THEN t.sub ELSE None]
       /\ \/ Refusal(f, t) # None /\ Answer(r, Refusal(f, t)) /\ UNCHANGED pool
          \/ /\ Refusal(f, t) = None
             /\ \/ f.route \in Faultable /\ Goto(r, "fault") /\ UNCHANGED <<code, pool>>
                \/ f.route \notin Faultable /\ Enter(r, FirstQuery[f.route], pool)
  /\ UNCHANGED <<redisUp, token, change, stores, counters, now, failures>>

(* Mutant: any token opens every customer. *)
AnyToken(r) == FALSE

Foreign(r) == form[r].route \in Protected /\ sub[r] # form[r].who

(* maybeInjectFault returns or throws; the owner is checked only after it. *)
LeaveFault(r) ==
  /\ at[r] = "fault"
  /\ \/ (Answer(r, 500) \/ Answer(r, 504)) /\ UNCHANGED pool
     \/ Foreign(r) /\ Answer(r, 403) /\ UNCHANGED pool
     \/ ~Foreign(r) /\ Enter(r, FirstQuery[form[r].route], pool)
  /\ UNCHANGED <<form, sub, redisUp, token, change, stores, counters, now, failures>>

-----------------------------------------------------------------------------
(* The handlers.  A query's answer gives the connection back first. *)

Answered(r, await) == at[r] = await /\ r \in pool.busy
Bump(counter) == business' = [business EXCEPT ![counter] = @ + 1]
asked == <<form, sub, redisUp>>
world == <<responses, now>>

CheckCredentials(r) ==
  /\ Answered(r, "credentials")
  /\ \/ /\ form[r].who \in Known
        /\ token' = [token EXCEPT ![r] = [sub |-> form[r].who, exp |-> now + TokenTtl]]
        /\ Goto(r, "session")
        /\ pool' = Release(pool, r)
        /\ UNCHANGED <<code, business>>
     \/ Finish(r, 401) /\ Bump("failed") /\ UNCHANGED token
  /\ UNCHANGED <<asked, change, stores, world, failures>>

(* Mutant: the lifetime is taken for milliseconds. *)
MillisecondExpiry(t) == t

SessionExpiry(t) == t + TokenTtl

StoreSession(r) ==
  /\ at[r] = "session"
  /\ session' = [session EXCEPT ![form[r].who] = SessionExpiry(now)]
  /\ issued' = issued \union {token[r]}
  /\ Bump("success")
  /\ Answer(r, 200)
  /\ UNCHANGED <<asked, token, change, pool, changes, world, failures>>

ListInvoices(r) ==
  /\ Answered(r, "invoices")
  /\ Finish(r, 200)
  /\ UNCHANGED <<asked, token, change, stores, business, world, failures>>

LoadCustomer(r) ==
  /\ Answered(r, "customer")
  /\ \/ /\ form[r].who \in Known
        /\ Enter(r, "catalog", Release(pool, r))
        /\ UNCHANGED business
     \/ form[r].who \notin Known /\ Finish(r, 404) /\ Bump("rejected")
  /\ UNCHANGED <<asked, token, change, stores, world, failures>>

(* Mutant: any target will do but the current plan. *)
AnyTarget(r) == form[r].target # CurrentPlan[form[r].who]

Eligible(r) == form[r].target \in Plans /\ form[r].target # CurrentPlan[form[r].who]

(* Mutant: the change is counted before it is written. *)
CountEarly(eligible) == Bump(IF eligible THEN "scheduled" ELSE "rejected")

CountVerdict(eligible) == IF eligible THEN UNCHANGED business ELSE Bump("rejected")

CheckCatalog(r) ==
  /\ Answered(r, "catalog")
  /\ CountVerdict(Eligible(r))
  /\ \/ Eligible(r) /\ Enter(r, "insert", Release(pool, r))
     \/ ~Eligible(r) /\ Finish(r, 422)
  /\ UNCHANGED <<asked, token, change, stores, world, failures>>

(* Mutant: change_id is no primary key. *)
NeverTaken(id) == FALSE

Taken(id) == \E c \in changes : c.id = id

Row(r, id) ==
  [id |-> id, customer |-> form[r].who, target |-> form[r].target, by |-> r, auth |-> sub[r]]

(* The row is written and acknowledged, refused by its primary key, or written
   without the handler hearing of it. *)
InsertChange(r) ==
  /\ Answered(r, "insert")
  /\ \E id \in ChangeIds :
       \/ /\ ~Taken(id)
          /\ changes' = changes \union {Row(r, id)}
          /\ \/ /\ Bump("scheduled")
                /\ change' = [change EXCEPT ![r] = id]
                /\ Finish(r, 202)
                /\ UNCHANGED failures
             \/ /\ failures < MaxFailures /\ failures' = failures + 1
                /\ Finish(r, 500)
                /\ UNCHANGED <<business, change>>
       \/ Taken(id) /\ Finish(r, 500) /\ UNCHANGED <<business, change, changes, failures>>
  /\ UNCHANGED <<asked, token, session, issued, world>>

(* Mutant: withTransaction forgets its finally. *)
KeepConnection(r) ==
  /\ Answered(r, "gateway")
  /\ Answer(r, 201)
  /\ UNCHANGED <<asked, token, change, pool, stores, business, world, failures>>

(* A slow gateway is all the others see of a payment, whatever its status. *)
EndPayment(r) ==
  /\ Answered(r, "gateway")
  /\ Finish(r, 201)
  /\ UNCHANGED <<asked, token, change, stores, business, world, failures>>

-----------------------------------------------------------------------------
(* GET /health: both pings run at once and neither rejects. *)

PingDatabase(r) ==
  /\ Answered(r, "ping")
  /\ Goto(r, "up")
  /\ pool' = Release(pool, r)
  /\ UNCHANGED <<asked, code, token, change, stores, business, world, failures>>

PingRedis(r) ==
  /\ at[r] \in {"ping", "up", "down"} /\ redisUp[r] = None
  /\ \/ redisUp' = [redisUp EXCEPT ![r] = TRUE] /\ UNCHANGED failures
     \/ /\ failures < MaxFailures /\ failures' = failures + 1
        /\ redisUp' = [redisUp EXCEPT ![r] = FALSE]
  /\ UNCHANGED <<at, form, sub, code, token, change, pool, stores, business, world>>

ReportHealth(r) ==
  /\ at[r] \in {"up", "down"} /\ redisUp[r] # None
  /\ Answer(r, IF at[r] = "up" /\ redisUp[r] THEN 200 ELSE 503)
  /\ UNCHANGED <<asked, token, change, pool, stores, business, world, failures>>

-----------------------------------------------------------------------------
(* What goes wrong, and what happens after the answer. *)

(* A rejected promise ends in the error handler, but /health catches its own. *)
Reject(r) == IF at[r] = "ping" THEN Goto(r, "down") /\ UNCHANGED code ELSE Answer(r, 500)

QueryFails(r) ==
  /\ failures < MaxFailures /\ failures' = failures + 1
  /\ \/ r \in pool.busy /\ at[r] # "gateway" /\ pool' = Release(pool, r)
     \/ at[r] = "session" /\ UNCHANGED pool
  /\ Reject(r)
  /\ UNCHANGED <<asked, token, change, stores, business, world>>

(* Mutant: no connectionTimeoutMillis, so that waiters wait for ever. *)
NoTimeout(r) == FALSE

TimeOut(r) ==
  /\ \E i \in Places(pool, r) : pool' = GiveUp(pool, i)
  /\ Reject(r)
  /\ UNCHANGED <<asked, token, change, stores, business, world, failures>>

(* onResponse counts the response; then the request is gone with all its locals. *)
CountResponse(r) ==
  /\ at[r] = "answered"
  /\ Goto(r, "done")
  /\ form' = [form EXCEPT ![r] = None] /\ sub' = [sub EXCEPT ![r] = None]
  /\ code' = [code EXCEPT ![r] = None] /\ redisUp' = [redisUp EXCEPT ![r] = None]
  /\ token' = [token EXCEPT ![r] = None] /\ change' = [change EXCEPT ![r] = None]
  /\ responses' = IF form[r].route \notin Business \/ code[r] >= 400 THEN responses
                  ELSE [responses EXCEPT ![form[r].route] = @ + 1]
  /\ UNCHANGED <<pool, stores, business, now, failures>>

Tick ==
  /\ now < MaxTime /\ now' = now + 1
  /\ UNCHANGED <<handlers, pool, stores, counters, failures>>

Advance(r) ==
  \/ LeaveFault(r) \/ CheckCredentials(r) \/ StoreSession(r) \/ ListInvoices(r) \/ LoadCustomer(r)
  \/ CheckCatalog(r) \/ InsertChange(r) \/ PingDatabase(r) \/ PingRedis(r)
  \/ ReportHealth(r) \/ CountResponse(r)

Next ==
  \/ \E r \in Requests : Arrive(r) \/ Advance(r) \/ EndPayment(r) \/ QueryFails(r) \/ TimeOut(r)
  \/ Tick

Spec == Init /\ [][Next]_vars

(* The event loop, PostgreSQL and Redis get to everything in the end and timers
   fire; nothing is assumed of the gateway. *)
FairSpec == Spec /\ \A r \in Requests : WF_vars(Advance(r) \/ TimeOut(r))

-----------------------------------------------------------------------------
(* Every variable stays in its range; the handler's locals follow its route. *)
TypeOK ==
  /\ \A r \in Requests :
       /\ code[r] \in Codes \union {None} /\ form[r] \in Forms \union {None}
       /\ sub[r] \in Customers \union {None} /\ token[r] \in Tokens \union {None}
       /\ change[r] \in ChangeIds \union {None} /\ redisUp[r] \in BOOLEAN \union {None}
       /\ code[r] # None <=> at[r] = "answered"
  /\ pool.busy \subseteq Requests /\ pool.queue \in Seq(Requests)
  /\ \A c \in changes : c \in [id: ChangeIds, customer: Known, target: Plans, by: Requests, auth: Customers]
  /\ session \in [Customers -> Nat] /\ issued \subseteq Tokens
  /\ \A p \in DOMAIN responses : responses[p] \in 0..Cardinality(Requests)

(* POST plan-changes (plan-changes.ts:71-92): the id a 202 tells names one row, the one
   this request wrote, for another plan than the customer is on; a request that was
   refused wrote none, though its three queries run on three connections. *)
PlanChangesBacked ==
  \A r \in Requests : form[r] # None /\ form[r].route = "plan_change" /\ code[r] # None =>
    /\ code[r] = 202 => /\ {c \in changes : c.by = r} = {Row(r, change[r])}
                       /\ {c \in changes : c.id = change[r]} = {Row(r, change[r])}
                       /\ form[r].target # CurrentPlan[form[r].who]
    /\ code[r] \in {400, 401, 403, 404, 422, 504} => \A c \in changes : c.by # r

(* plan-changes.ts:51: who writes a plan change showed a token of the very customer whose
   plan it changes, issued by a login; that somebody else holds a token of that customer
   does not help, and the owner check is made before the first of three queries. *)
OnlyTheOwnerSchedules ==
  \A c \in changes : c.auth = c.customer /\ \E t \in issued : t.sub = c.auth

(* The counters trail what they count (plan-changes.ts:82-92, server.ts:58-69): a scrape
   never sees more 202 responses than scheduled changes, nor more of these than rows, and
   every row it misses is a lost answer.  Logins: auth.ts:58-69. *)
CountersTrailTheTable ==
  /\ responses["plan_change"] <= business.scheduled
  /\ business.scheduled <= Cardinality(changes)
  /\ Cardinality(changes) <= business.scheduled + failures
  /\ responses["login"] <= business.success
  /\ Cardinality({t \in issued : t.sub \notin Earlier}) <= business.success

(* auth.ts:58-64: as long as a token a client holds is valid, Redis has a session entry
   for its customer, however the logins of the customer interleave and fail. *)
SessionOutlivesToken == \A t \in issued : now < t.exp => now < session[t.sub]

(* db.ts:15-35: a request waits for a connection only while all of them are taken, each by
   a handler in the middle of a query: no way out of a handler forgets its connection,
   and pg-pool neither loses nor shares one. *)
WaitersMeanFullPool ==
  /\ pool.queue # <<>> => Cardinality(pool.busy) = PoolMax
  /\ Cardinality(pool.busy) <= PoolMax
  /\ \A r \in pool.busy \union ToSet(pool.queue) :
       at[r] \in {"credentials", "invoices", "customer", "catalog", "insert", "ping", "gateway"}

(* Who gets a connection in a step: a waiter, a new query, or a handler's next query. *)
Granted(q) == q \in pool'.busy /\ (q \notin pool.busy \/ at'[q] # at[q])
Ahead(s, q, w) == \E i, j \in DOMAIN s : i < j /\ s[i] = q /\ s[j] = w

(* With pg-pool's queue nobody gets a connection before those who have waited longer.  A plan
   change gives its connection back and asks again twice (plan-changes.ts:56-84): it goes
   to the end of the queue each time, whoever leaves the queue by a timeout. *)
NobodyOvertakes ==
  [][\A q \in Requests : Granted(q) =>
       \A w \in ToSet(pool.queue) \intersect ToSet(pool'.queue) : Ahead(pool.queue, q, w)]_vars

(* db.ts:16: every request that is not itself held up by the gateway is answered and
   counted, even if payments never give their connections back. *)
EveryRequestIsAnswered ==
  \A r \in Requests : at[r] \notin {"idle", "gateway"} ~> at[r] = "done"
=============================================================================
