# Verification of telco-reliability-lab

TLA+ models of the Telco Reliability Lab: the payment service, fault injection,
the request pipeline with its other routes, boot and shutdown, the web UI and
the scripts that judge a load test. Each model is checked with TLC on small
instances, and every safety property of every model is proved with TLAPS for all
instances. Paths are relative to the repository; `payments.ts` is
`apps/api/src/routes/payments.ts`, and so on.

Check a run with `tlc -workers 2 -config <run>.cfg <MC module>`, the proofs of a
module with `tlapm <Module>Proofs.tla`. `PROJECT.json` lists the runs, the lines
each definition models, a mutant that breaks each property, the findings, the
hazards and the theorems.

## 1. The system

One Node.js process (Fastify) serves a small telco self-care API. It keeps its
durable state in PostgreSQL, a cache of payment results and login sessions in
Redis, and a fault-injection registry in memory. A web page and k6 scripts are
its clients; Prometheus, Alertmanager, Loki and Tempo watch it.

| Component | State | Operations | Talks to |
|---|---|---|---|
| Payments (`payments.ts`) | none of its own | `POST /payments` | Redis (fast replay), PostgreSQL (one transaction per request), simulated gateway, fault registry |
| PostgreSQL access (`db.ts`, `01-schema.sql`) | pool of `PG_POOL_MAX` connections; tables `invoices`, `payments` (unique `payment_id`, unique `idempotency_key`), `plan_changes`, `customers`, `plans` | `withTransaction`, `pool.query`, `pingDatabase` | every handler |
| Redis access (`redis.ts`) | `idem:payment:<key>` (24 h), `session:<customer>` | GET, SET EX, PING | payments, auth, health |
| Fault registry (`faults.ts`) | at most one fault per target, with an expiry; gauge `fault_injection_active` | `setFault`, `clearFaults`, `listFaults`, `maybeInjectFault` | every business handler consults it |
| Admin routes (`admin.ts`) | none | set, list and clear faults; reset invoices; receive alerts | registry, PostgreSQL; gated by `FAULT_INJECTION_ENABLED` |
| Auth (`auth.ts`, `auth-plugin.ts`) | session key per customer | login, `authenticate` | PostgreSQL, Redis |
| Plan changes (`plan-changes.ts`) | rows of `plan_changes` | schedule a change | PostgreSQL |
| Invoices (`invoices.ts`) | none | list invoices | PostgreSQL |
| Request pipeline (`server.ts`) | HTTP counters | admin guard, validation, auth, handler, error handler, `onResponse` | everything |
| Health, metrics (`system.ts`, `metrics.ts`) | counters | `/health`, `/metrics` | pool, Redis |
| Lifecycle (`index.ts`, `migrate.ts`, `config.ts`) | listening or not | safety check, migrations, listen, shutdown on signals | all |
| Web UI, k6 journeys | token, last payment; VU and iteration | login, list, pay, replay, change plan | API |
| Scripts (`compare-runs.js`, `generate-report.js`) | none | verdict on two runs, on one run | files |
| Alerting | firing alerts | group, inhibit, deliver | webhook of the API itself |

What is hard here:

* **Interleaving.** Every `await` lets other requests run. A payment awaits
  Redis, the pool, four to five statements, the gateway and COMMIT; the invoice
  reset and other payments run in between.
* **Locks of the database are part of the algorithm.** The unique index on
  `idempotency_key` makes a second INSERT wait for the first transaction to end;
  `FOR UPDATE` serialises payments of one invoice. Both are held across the
  gateway call, and so is the pooled connection.
* **Failure.** A statement, the connection or the process may fail at any step;
  COMMIT may be applied although its acknowledgement is lost; the server keeps a
  dead client's locks until it notices.
* **An external effect inside a transaction.** The gateway cannot be rolled back.
* **Stale reads.** The cache lookup precedes the INSERT, the cache write is not
  awaited, a replay joins the invoice as it is now, and a fault's spec is used
  after a sleep during which the registry may have changed.

What makes each component correct:

* Payments: a key is decided at most once and for good, and announced as decided
  to one request; clients and cache hold nothing but that decision; nobody is
  charged for a decided key or a paid invoice, nor twice at a time; an invoice is
  paid once per reset; both tables change together; nobody waits in a circle;
  every request ends.
* Fault registry: a registered fault is visible, an expired one harms nobody, and
  every call meets what was active at its instant, its own target's fault first.
* Pool and health: no request waits for ever or is overtaken; health tells load from outage.
* Auth: a token is only issued for matching credentials; session and answer agree.
* Plan changes: only eligible changes are recorded, one per request, each under the
  token of its own customer.
* Pipeline: no handler runs past a failed guard; each response is counted once.
* Lifecycle: no unsafe or unready process listens; boots keep what is committed;
  a process that ends after a signal has answered every client still waiting.
* Scripts: a regression beyond its limit is reported, and nothing else is.

The hazards, each at its line and with the properties that cover it, are in
`PROJECT.json`; the three without a property say why.

## 2. Modules

| Module | What it is |
|---|---|
| `Payments` | `POST /payments` over PostgreSQL, Redis and gateway, with the invoice reset and failures; its properties |
| `PaymentLedger` | what the endpoint promises, without transactions, locks, cache or failures |
| `PaymentsInvariant` | the inductive invariant `IInv` of `Payments` |
| `PaymentsProofs` | invariance and refinement proofs for `Payments` |
| `ChargesProofs` | proofs about what the gateway was asked, what invoices were paid and which request was told so, on top of `PaymentsProofs` |
| `LocksProofs` | proofs about who holds a row lock and who waits for whom, on top of `PaymentsProofs` |
| `FaultRegistry` | the registry, its admin handlers, the calls that consult it |
| `FaultWindows` | what the registry promises: faults that end at their instant, without gauge, reaping or random draws |
| `ApiRequests` | hooks, authentication, login, invoices, plan changes, health, the pool and the counters |
| `Lifecycle` | boot, migrations, seed, listen and shutdown of several processes over one database |
| `Bootstrap` | what the boots promise: one schema, one seed, and only then listeners and payments |
| `WebClient` | one tab of the web UI, composed with `PaymentLedger` |
| `RunReports` | verdicts of k6, `compare-runs.js` and `generate-report.js` on load tests |
| `FaultRegistryProofs`, `ApiRequestsProofs`, `LifecycleProofs`, `WebClientProofs`, `RunReportsProofs` | the theorems about these modules and their proofs |
| `MC...` | instances of each module for TLC |

`WebClient` composes with the payment service through `PaymentLedger`, which
`Payments` is shown to implement; `ApiRequests` sees a payment as a holder of a
connection. The other modules share no state in the program either, but for the
tables: what boots may do to them is in `Lifecycle`.

### Payments

A request is a value of `Requests`; a retry is another request with the same
key. `pc[r]` says between which awaits of the handler it is:

| `pc` | In the code | Leaves by |
|---|---|---|
| `idle` | not yet sent | `Receive` |
| `received` | guards and `redis.get` (payments.ts:67-85) | `RejectMissingKey`, `RejectForeign`, `CacheHit`, `CacheMiss`, `CacheError` |
| `connecting` | `pool.connect()` (db.ts:24) | `Begin`, `ConnectFails` |
| `inserting` | INSERT ... ON CONFLICT (92-98) | `InsertRow`, `InsertConflict`, `InsertCollides` |
| `replaying` | SELECT of the existing payment (100-120) | `SelectExisting` |
| `locking` | SELECT ... FOR UPDATE (168-172) | `NoSuchInvoice`, `LockPaid`, `LockPayable` |
| `charging` | `callPaymentGateway` (187, 47-60) | `Charge`, `GatewayFault` |
| `settling` | the answer is known (189-196) | `SettleApproved`, `SettleDeclined` |
| `committing` | COMMIT (db.ts:28) | `CommitPayment`, `CommitReplay` |
| `answering`, `echoing` | after the transaction (137-158) | `Answer`, `AnswerReplay` |
| `orphan`, `orphanCommit` | the client is gone, the server's transaction is not | `OrphanAborts`, `OrphanCommits` |
| `done` | answered, or its process died | |

`row[r]` is the row a transaction has inserted and not committed; `KeyInFlight`
and `IdInFlight` read it as the open index entries that make other INSERTs wait.
`payments` and `invoices` are the committed tables, `lockedBy` the row locks,
`cache` and `cacheWrites` Redis and the SETs on their way to it, `gateway[r]`
what the gateway said to `r`: it survives every rollback. `StatementFails`,
`ConnectionLost` and `Crash` may hit any transaction. `ResetStart`, `ResetLock`,
`ResetCommit` and `ResetAborts` are the one UPDATE of `POST
/admin/reset-invoices`, which locks row by row and waits on payments.

Abstractions. A statement takes effect at one instant, under READ COMMITTED; the
two UPDATEs that settle an approved payment are one step, since nobody else can
see them before COMMIT and a failure of either rolls back both. A latency fault
is a slow gateway and needs no step of its own: the model is untimed. An
`error` or `timeout` fault throws from inside the transaction (`GatewayFault`,
500 or 504). Amounts are compared, never computed with, so a payment has one of
two amounts; NUMERIC overflow is a `StatementFails`. Authentication and schema
validation have happened when `Receive` does; `body[r].auth` is the JWT's
subject. Metrics, logs and spans are left out. The key check trims, so a blank
header is `NoKey`.

Limits. One reset runs at a time; a restart after a crash takes no time; lock
waiters are served in any order, as an over-approximation of PostgreSQL's queue;
a connection that breaks during the gateway call, when no statement is under
way, has no error listener (db.ts) and is a `Crash`. When it breaks under a
statement the driver may bring the process down as well: `ConnectionLost` is the
case where the handler gets to its catch block, `Crash` the other.

### FaultRegistry

Each function of `faults.ts` runs to its first await in one step, so an action is
a function. Time advances by `Tick`; a call that sleeps keeps the spec it read
(`calls[c].by`) and `Wake` uses that, as the closure does. `Reap` is part of
every action whose code calls `reap()`. `Math.random()` is a draw from
`0..RateScale-1`, rates from `0..RateScale`. Every call is idle once and runs
once; targets other than `global` are alike, so one of them is enough to see
shadowing, replacement and expiry. An error fault ignores its latency, hence
`NewSpecs` gives it 0. An invalid target or fault changes nothing and is left
out. `Payments` does not instantiate this module: of the registry it needs only
that the gateway call may throw, which `GatewayFault` allows at any time while
fault injection is enabled.

### FaultWindows and the refinement

In `FaultWindows` a fault is active from `Inject` until it expires, is replaced or
is cleared; time itself ends it (`Pass`). A call meets its target's fault, or else
the one for everything, and is struck or, at less than full rate, spared. A struck
call is never let go before its delay. `FaultRegistry` implements it with
`active <- Unexpired`, the entries of the map whose time is not over: an entry
that is over and still in the map is what nobody may notice. `SetFault`,
`ClearFaults`, `Tick` and the calls map to steps of the same kind; `ListFaults`,
which only reaps, is invisible. That a timeout hangs at least 5 s is the
registry's own business: the abstract call may stay as long as it likes. `Strike` has no
guard on the rate: `Math.random() > spec.rate` does not spare a draw of exactly 0, so a
fault of rate 0 may strike, rarely as it does, though a test says never
(faults.test.ts:53).

### PaymentLedger and the refinement

The ledger decides a key by `Approve` (an existing, unpaid invoice of that
customer, the exact amount, and the invoice becomes paid in the same step) or
`Decline`, never decides it again, never uses a payment id twice, and may `Tell`
a client what it holds; `Reset` is the admin's. `Payments` implements it with
`ledger <- payments` and `told` the set of results that replies contained: a
COMMIT of an open row is one decision, whoever issues it; a 200, 201 or 402 is a
`Tell`; every other step is invisible.

### ApiRequests

`at[r]` names the await in which the handler of request `r` is:

| `at` | In the code | Leaves by |
|---|---|---|
| `idle` | not yet sent | `Arrive`: schema validation, `authenticate`, first await |
| `fault` | `maybeInjectFault` | `LeaveFault`: 500, 504, the owner check (403), or the first query |
| `credentials`, `session` | login's SELECT, then the SET of its session (auth.ts:46-64) | `CheckCredentials`, `StoreSession` |
| `invoices` | the SELECT of invoices.ts | `ListInvoices` |
| `customer`, `catalog`, `insert` | the three queries of plan-changes.ts:53-89 | `LoadCustomer`, `CheckCatalog`, `InsertChange` |
| `ping`, `up`, `down` | `/health`, with both pings under way or the first answered | `PingDatabase`, `PingRedis`, `ReportHealth` |
| `gateway` | a payment that keeps its connection | `EndPayment` |
| `answered` | the status is sent | `CountResponse` (the `onResponse` hook) |
| `done` | gone, with all its locals | |

`pool` is pg.Pool: the requests that hold a connection and those that wait for
one, in order. Every query acquires and releases (`Acquire`, `Release`), so the
three queries of a plan change may run on three connections with anything in
between. The queue is pg-pool's algorithm, modelled as the code uses it (`external` in
the map); `db.ts` gives its size and its timeout. `TimeOut` is `connectionTimeoutMillis`; the model is untimed there, so
it may strike any waiter at any time. `QueryFails` is a rejected query or Redis
command; an INSERT may also be applied although its answer is lost. Tokens carry
their expiry and may expire while their request sleeps in a fault;
`issued` is what clients hold, `session` Redis's entries by when they expire. A row of
`changes` also records which request wrote it and the subject of that request's token,
which the table does not keep: `OnlyTheOwnerSchedules` compares it with the row's
customer.

Abstractions. Only statuses are modelled, not bodies, but for the id a plan
change is answered. Whether a form satisfies its schema is part of the form;
whether a password matches is a choice. A `Known` customer is one the table
holds; a token may outlive a database that was created anew, so there are tokens
of others too. A payment's own steps are in `Payments`.

Limits. Redis keeps its data: an entry that Redis loses would break
`SessionOutlivesToken`, of which no code reads the other side. CORS, the
not-found handler, the admin guard, `/health/live`, `/metrics` and the routes
that `onResponse` does not count are left out.

### Lifecycle

`at[i]` is where `main()` or `shutdown()` of process `i` is: `start` (the safety
check), `schema` and `creating` (the two halves of 01-schema.sql, which looks for
the tables and then creates them, a race of concurrent boots), `seed`, `listen`,
`serving`, `closing` (`app.close`), `ending` (`pool.end`). `Config` is what
`config.ts` makes of the environment; `SeedStatus` and `Invoices` are the seed's
data. A file of SQL is one implicit transaction. `Die` is a failed query, a taken
port or a kill; a schema that PostgreSQL had received may then still be
committed. `Start` is open to every process that is down, but only a host with
`restarts` is held to it: Render restarts, `docker-compose.yml` gives the API no restart
policy. `Flag` lowercases its value, as `config.ts` does.

Signals may come at any time. Before `listen` there is no handler for SIGINT and
for SIGTERM only OpenTelemetry's, so the process dies or boots on. Each signal
after that runs `shutdown()` once: `app.close` waits for the clients, the first
`pool.end` for the connections in use and for nothing else, and a second one
rejects, so that the process exits with 1 at once.

A request is a payment, and `request[q]` says whether its client waits, which process
has it, and where its transaction is: `none` before a connection, `open`, `charged`,
`ended`, or `lost` to a deadlock. A client may hang up, and its handler goes on. An
abandoned handler in `redis.get`, in a fault's sleep, in the queue of the pool or after
its COMMIT is `none` or `ended`: the exit cuts it, which `GracefulExit` allows. Handlers
of other routes are, to a shutdown, one of these two.

A boot over tables that exist still locks them: CREATE INDEX IF NOT EXISTS takes a
share lock on `invoices` (`InvoicesLocked`) and then on `payments`, for which it waits
while a payment has written there (`PaymentsWritten`); the payment's UPDATE of
`invoices` waits for the boot. `Deadlock` is PostgreSQL failing one of the two, after
its `deadlock_timeout`. `Payments` and its `NoDeadlock` do not have these locks.

An empty database is an initial state only where every process migrates,
since otherwise PostgreSQL's own init directory fills it.

`Bootstrap` is the abstract specification of the boots: tables and seed come once,
processes listen and invoices are paid only afterwards. `Lifecycle` implements it with
`listening` the processes that serve; where `main()` and `shutdown()` are, what a boot
saw of the tables, requests, signals and failures are hidden, and so are all boots over
a database that is ready. The admin's invoice reset is not a step of either module.

### WebClient

Each function of `app.js` between two awaits is an action: the clicks (`Login`,
`LoadInvoices`, `PayInvoice`, `ChangePlan`, `Logout`) send a call with the
`state` of the moment, and the handlers of answers (`LoggedIn`, `ShowInvoices`,
`Paid`, `Replayed`, `GiveUp`) read `state` as it is when the answer arrives. A call
records the token it was sent `as`, the customer it names (`who`), its key and,
for a replay, the id it is compared with. The server is `Server == INSTANCE
PaymentLedger`: `DecidePayment` is one of its decisions, for what was sent,
`ReplayPayment` its `Tell`; the other routes answer as ApiRequests' handlers do,
and any answer may be replaced by a refusal or a loss at any time (`Fail`). So
the properties hold of the UI over whatever implements the ledger, which the
handlers of `Payments` do. The table may still show the rows of the customer
before: `Logout` does not clear it. The two fault buttons change nothing the tab
keeps and are left out, and so is the text of the log. There is no invoice reset
here: it belongs to the lab's scripts.

### RunReports

The three programs are pure functions of files, so a behaviour is the two
scripts' runs in either order on one pair of summaries. Latencies are in ms and
rates in thousandths, so that quotients are compared exactly. A difference of rates is
rounded where it matters: `RoundsUp` is the set of pairs whose difference as doubles
exceeds the exact one, so that a pair exactly at a limit is beyond it (`Exceeds`): 1 -
0.99 is above 0.01 and 0.025 - 0.02 above 0.005, but 0.015 - 0.01 is not. The theorems
hold for any such set, the run has the true one for its values. `Grew` is what the JavaScript comparisons make of a change
that is Infinity or NaN when the baseline is zero, and a metric the summary lacks
is `None`. k6 itself judges the thresholds (`thresholds.js`) and exports the
metrics of a journey only when one names it, which the diagnostic profiles do
not. Git metadata and the layout of the reports are left out.

## 3. Runs

| Run | Bounds | Shows |
|---|---|---|
| `payment_contention` (2,498,877 states) | 3 requests, 2 keys, 1 invoice, amounts 7 and 10, pool 2, 2 failures, 1 reset | `ReplyMatchesLedger`, `ChargesBounded`, `NoConcurrentCharges`, `CacheMatchesLedger`, `TablesAgree`, `NoChargeOnPaidInvoice`, `NoChargeAfterDecision`, `PaidOncePerReset`, `AnnouncedOnce`, `NoDeadlock`, `IInv` |
| `payment_mixed` (697,978) | 3 requests, every kind of body, 3 invoices, 1 failure | `TypeOK`, `ApprovedRowWasCharged`, `ImplementsLedger` |
| `payment_liveness` (295,688) | 3 requests, 1 key, pool 2, 1 failure, 1 reset, no symmetry | `EveryRequestEnds`, `LocksAreReleased` |
| `fault_registry` (1,599,696) | 1 target and `global`, 1 call, time 0..3, durations 1, latencies 0 and 2 around a minimum hang of 1 | `TypeOK`, `ActiveFaultShows`, `ImplementsWindows` |
| `api_requests` (591,326) | 3 requests of every route, pool 1, tokens of lifetime 1, time 0..1, 1 failure | `TypeOK`, `PlanChangesBacked`, `OnlyTheOwnerSchedules`, `CountersTrailTheTable`, `SessionOutlivesToken`, `WaitersMeanFullPool`, `NobodyOvertakes`, `EveryRequestIsAnswered` |
| `lifecycle` (957,117) | 2 processes, 3 environments, 2 customers of the seed, 2 requests, 2 signals, 1 failure, no symmetry | `TypeOK`, `ServingIsReady`, `MigratesOnce`, `GracefulExit`, `EventuallyServing` |
| `web_client` (2,570,822) | 2 customers with an invoice each, 2 calls open, 2 payment ids, time 0..1 | `TypeOK`, `CredentialsAgree`, `DecisionsAreClicks`, `ReplayAgrees` |
| `run_reports` (345,600) | every limit of the scripts met, just missed and exceeded, zero and missing metrics, differences that round up and that do not, both kinds of profile, 1 journey | `NoWorseNoHarsher`, `ExitTellsRegression`, `HeadlineFitsTable` |

Why these bounds are enough to be interesting.

* Payments: three requests on one key are the one that charges, one that waits
  for its row and one that comes after the decision; a pool of two makes the
  third wait for a slot; two keys and one invoice are the least that needs
  `FOR UPDATE`; two failures allow a charge to be lost twice; two payment ids
  with three requests make ids collide; a reset is interesting once.
* ApiRequests: a pool of one is held by a payment while a second request waits
  and a third queues behind it or comes between two queries of another; two
  change ids with three requests collide; with a lifetime and a clock of one a
  token is valid, then expired, while its request sleeps, and a second login
  comes after it.
* Lifecycle: two processes are enough to race for the tables; one failure kills
  one of them anywhere; two signals are the least that runs shutdown twice; two
  requests, one waiting and one abandoned, or one before its transaction and one
  charged while a boot locks the tables; seed customers 1 and 2 have two and three
  invoices, so every status occurs.
* WebClient: two calls let any two answers overtake each other, over a logout and
  a login of the other customer; a clock of one tells a key from a later one.

`MaxFailures`, `MaxResets`, `MaxSignals`, `MaxTime`, `Calls` and the finite sets of
ids are bounds of the models and nothing in the code. Requests, calls and payment
ids are interchangeable in the safety runs of `Payments`, and calls and payment ids
in `web_client` (`SYMMETRY Interchangeable`); no run with a liveness property uses symmetry.
Deadlock is checked where a model may go on for ever: in `Payments` a state may
only be without other successors when all requests are done (`Quiescent`), the
registry can always be listed, and a tab can always be clicked. It is not checked
in `api_requests`, the two runs of `Lifecycle` and `run_reports`: the bounded requests, signals and
scripts come to an end; `EveryRequestIsAnswered` and `EventuallyServing` say that
they do not end too early.

Fairness.

* `Payments!FairSpec`: weak fairness of each request's own handler steps: the
  event loop runs every ready continuation, the pool hands out slots, PostgreSQL
  wakes lock waiters, and `connectionTimeoutMillis` (`ConnectFails`) and the
  gateway's sleep always end. Weak fairness of the server's handling of each dead
  client, and of the reset's UPDATE. Nothing is assumed of failures, of Redis or
  of clients, and weak fairness alone does not promise an INSERT or a lock to a
  waiter that others keep overtaking: the property holds because there are
  finitely many.
* `ApiRequests!FairSpec`: weak fairness, per request, of its handler's next step
  or its timeout while it waits for a connection. Nothing is assumed of the
  gateway, so a payment may keep the only connection for ever, and everybody else
  is still answered: by the timeout.
* `Lifecycle!FairSpec`: a host with a restart policy starts again what is down, a boot
  goes on (`Proceed`), a shutdown goes on (`Stop`), handlers go on (`Handle`). A
  payment's last UPDATE is strongly fair: PostgreSQL queues lock waiters, so boots that
  lock `invoices` again and again do not starve it. Its deadlock detector acts in the
  end (`Deadlock`). Signals and failures are bounded, so they cease. After that, what a
  host restarts serves if it is safe; what no host restarts may stay down, and
  `EventuallyServing` says of it only that it hangs in no boot and no shutdown.

Runs that must fail, each a claim of the documentation or of a comment that the
code does not keep; the counterexample is the behaviour told here:

* `two_charges`: approved at the gateway, then a failure before COMMIT; the
  retry charges again. `ChargesBounded` is what does hold: one charge, plus one
  for every failure.
* `wrong_amount_charged`: the amount is compared after the charge.
* `replay_differs`: a database replay shows the invoice as it is now.
* `boot_loses_charge`: a boot on tables in use deadlocks with a payment at the gateway,
  and the payment, charged, is the one PostgreSQL fails.

Disagreements that need no run to be seen:

* An unknown or paid invoice is answered 402, which docs/error-codes.md:37 calls
  "declined by the gateway simulator", though the gateway is never called
  (payments.ts:177-185).
* compare-runs.js:13-14 and the legend it prints (121) call a change of 0.5 or 1 points
  a failure; the comparison is strict (70), so that an error rate that rises from 1 to
  1.5 per cent passes, unless the subtraction rounds up, as it does from 2 to 2.5.
  `ExitTellsRegression` is what does hold: beyond the limit the script fails, below it
  never, and at the limit it says nothing.
* `setFault` does not lower the gauge of the fault it replaces by one of another type
  (faults.ts:54-55), and nothing does later, while metrics.ts:75 says that 1 means
  active. `ActiveFaultShows` is the direction that holds.
* faults.test.ts:53, "never triggers when rate is 0", against a draw of exactly 0.

## 4. Proofs

Every safety property of every passing run is proved, for all values of the
constants, among them the three refinements (`PaymentsImplementLedger`, which the run
checks without the invoice reset, `RegistryImplementsWindows`, `BootsMigrateOnce`). Assumptions are named, stand in the component's module and are
evaluated by TLC in every run of it: constants have the shape of the data they
stand for, bounds are numbers, and sentinels differ from what they stand beside.
`Requests` of `ApiRequests` is finite, since a set of requests that wait must have
a size; no other set need be.

### Payments

| Theorem | Property |
|---|---|
| `PaymentsProofs!Invariance` | `IInv`, the inductive invariant |
| `TypeCorrectness` | `TypeOK` |
| `RepliesAreTrue` | `ReplyMatchesLedger` |
| `CacheIsTrue` | `CacheMatchesLedger` |
| `ChargesAreExclusive` | `NoConcurrentCharges` |
| `DecidedKeysAreSafe` | `NoChargeAfterDecision` |
| `PaidInvoicesAreSafe` | `NoChargeOnPaidInvoice` |
| `PaymentsImplementLedger` | `ImplementsLedger` |
| `ChargesProofs!ChargesAreBounded` | `ChargesBounded` |
| `ApprovalsAreBacked` | `ApprovedRowWasCharged` |
| `TablesTellOneStory` | `TablesAgree` |
| `InvoicesArePaidOnce` | `PaidOncePerReset` |
| `DecisionsAreAnnouncedOnce` | `AnnouncedOnce` |
| `LocksProofs!NobodyDeadlocks` | `NoDeadlock` |

The argument. `ReplyMatchesLedger` is not inductive: a reply repeats a result the
handler computed before COMMIT, or one that Redis held. So `IInv` follows a
result from its origin. `RowExclusive` is the unique index seen between
statements: an open row is alone under its key and that key is undecided; hence
a COMMIT never overwrites a decision (`LedgerGrows`), and what once agreed with
the ledger agrees for ever (`AgreementLasts`). `Progress` and `ResultAgrees` say
what each phase has established: a row before it is charged, a decided row before
COMMIT, a result equal to that row. COMMIT then turns agreement with the row into
agreement with the table (`CommitPublishes`), `CacheMatchesLedger` carries it
through Redis, and `AnswersComeFrom` shows that replies have no other source.
`LocksProtect` is the same for `FOR UPDATE`: from the charge to the end of its
transaction a request holds the lock of its own invoice, which therefore stays
unpaid, even through a crash, because an orphaned transaction keeps its locks.
`IdsExclusive` gives the refinement its fresh payment ids. The refinement
(`StepRefines`) has one case per kind of step; the ledger sees only COMMITs,
replies and the reset.

`ChargesProofs` adds an invariant of its own, `CInv`, proved on top of `IInv`.
`ChargedOnce` says that a request the gateway has not seen has no answer of it and
that an approved row was approved there, so no answer is ever overwritten
(`EveryStepPasses`). `Counted` is the induction behind `ChargesBounded`: the charges
of a key are at most the failures so far, plus one while the key is `Safe`, that is
committed or in the hands of a request that was charged and is still alive. A
charge finds its key unsafe, because the open row is alone under it, and makes it
safe; only a failure makes a safe key unsafe (`OnlyFailuresLoseCharges`); an
orphan's rollback costs nothing more, its failure was counted when it was orphaned.

`PaymentsCounted` is the induction behind `PaidOncePerReset`: the approved payments of
an invoice, and the seed's, are at most the resets so far, plus one while the invoice
is paid. A COMMIT that approves finds the invoice unpaid, which `LocksProtect` says of
a row that has been approved and not yet committed, orphaned or not; the reset opens
all invoices and counts one. `TablesAgree` is not enough for it: it does not
count.

`Announced` is the induction behind `AnnouncedOnce`. Only the request whose COMMIT
persisted the row gets to `answering`, and only from there is 201 or 402 said
(`HowAnnounced`); its key is in the table from then on, so that no open row, hence no
later COMMIT, can have that key (`RowExclusive`, `LedgerGrows`). After a crash nobody
may have been told; twice is impossible.

`LocksProofs` shows that the three things a payment may wait for, a pool slot, an open
INSERT with its key or id, and the row lock of its invoice, are taken in one order, and
that the reset, which waits for locks only, stands between the payments that want a
lock and those that have theirs.
`LockHolders` is what `IInv` lacks: a lock belongs to the reset while it executes, or
to a request that has an open row and is past its locking SELECT, so that no lock is
held by a transaction that is over or that still waits for a lock. `Depth` numbers the
order, every wait goes to somebody deeper (`WaitsGoDeeper`), and the deepest of any set
waits for nobody in it. One reset at a time is part of this: two resets take their
locks in no common order, and the model does not have them.

### FaultRegistry

| Theorem | Property |
|---|---|
| `TypeCorrectness` | `TypeOK` |
| `FaultsShow` | `ActiveFaultShows` |
| `ExpiryIsRespected` | `ExpiredFaultsSpare`, of which `ImplementsWindows` leaves the run nothing to check |
| `RegistryImplementsWindows` | `ImplementsWindows` |

`IInv` adds to the two invariants that a call which sleeps or has failed still has
the spec it captured, and that this spec had not expired when the call looked
(`Captured`): `ExpiredFaultsSpare` is about a registry that may have changed since.
`ReapPreserves` holds since reaping lowers the gauges of what it removes, before
any new fault raises its own.

The refinement has a lemma per kind of step. `LiveIsUnexpired` says that what `reap`
keeps is what has not expired, so that reaping changes nothing in the mapping
(`ReapIsSilent`) and a lookup after it finds what the abstract call meets
(`MetIsResolved`). `IInv` is needed for `Wake`: the sleeper's own spec, and the time it
began, are those of the abstract call whatever the registry says by then.

### ApiRequests

| Theorem | Property |
|---|---|
| `TypeCorrectness` | `TypeOK` |
| `PlanChangesAreBacked` | `PlanChangesBacked` |
| `OwnersSchedule` | `OnlyTheOwnerSchedules` |
| `CountersTrail` | `CountersTrailTheTable` |
| `SessionsOutlive` | `SessionOutlivesToken` |
| `PoolIsSound` | `WaitersMeanFullPool` |
| `NobodyIsOvertaken` | `NobodyOvertakes` |

`IInv` has a part per concern. `Pooled` is that nobody is in the pool twice and who
is in it is in the middle of a query; `AcquireSound`, `ReleaseSound` and
`GiveUpSound` show it of the three operations on any queue. `Local` ties a handler's
locals to the await it is in; `Authenticated` says that whoever a handler
acts for was issued a token; `Local` that past the owner check it is the customer's own,
which an INSERT then writes down. `Written` follows a row from its INSERT to
the answer. `Counted` cannot compare the counters with the table alone: it counts
the requests that are between their `Bump` and `onResponse`, so that a response adds
one on both sides.

`NobodyOvertakes` is an action property: whoever is given a connection in a step was
ahead, in the queue, of everybody who waited before the step and still does.
`WaitersMeanFullPool` makes it hold of a new query (`QueuesWhenFull`: it can only be
given a connection at once when nobody waits), `GrantedOnRequeue` of a plan change that
releases and asks again within one step, `GrantedOnMove` of releases and timeouts.

### Lifecycle

| Theorem | Property |
|---|---|
| `TypeCorrectness` | `TypeOK` |
| `ListenersAreReady` | `ServingIsReady` |
| `BootsMigrateOnce` | `MigratesOnce` |
| `MigrationsAreSafe` | `BootsKeepData`, which `MigratesOnce` implies and no run repeats |
| `ShutdownIsGraceful` | `GracefulExit` |

`Reached(i)` says what each phase of `main()` has established for good: the safety
check, the schema, the seed's rows, and that nobody waits once `app.close` is over.
It is preserved by every step of every other process because no step takes tables,
rows or payments back, which is `BootsKeepData`.

`ShutdownIsGraceful` says what `EndPool` may cut. `EndsByPool` shows that a process which
was stopping and goes down without a failure does so by `EndPool`, not by a deadlock, a
boot or a signal; `Reached` gives that no client waits; `AtWork` that a request in a
transaction is one the process has. What the theorem leaves open it leaves open in the
code: abandoned handlers without a connection are cut, and a second signal cuts all.

The refinement needs two facts more. `Whole`: the rows of the seed are all there or
none is, because a file of SQL is one transaction. `Served`: a handler at work was
accepted by a process that found the seed, so that payments are `Pay` steps even when
the process has begun to stop. A `Seed` is then either the first, which loads all rows,
or changes nothing, payments included (`SeedIsOnce`); the loser of the race for the
tables, and a schema that is committed after its client was killed, are a `CreateSchema`
or nothing.

### WebClient

| Theorem | Property |
|---|---|
| `TypeCorrectness` | `TypeOK` |
| `CredentialsMatch` | `CredentialsAgree` |
| `DecisionsMatchClicks` | `DecisionsAreClicks` |
| `ReplaysMatch` | `ReplayAgrees` |

`Tabbed` says that token and customer are one; `Sent` what a call may have been sent
with, for its kind; `GoodAnswer` that a good answer to a payment is the ledger's
decision, which never changes (`SetCalled` carries that over every step of the
ledger). A replay may be sent by another customer than the payment, so a replay
alone could decide nothing for the right one: that it need not is in `Sent`, since the
key of a replay is decided before it is sent. `Decided` is `DecisionsAreClicks` with the
range of the ledger. That no invoice is paid under two keys is not the page's doing, which
draws a new key per click, but the ledger's, and proved of `Payments`
(`PaidOncePerReset`).

### RunReports

| Theorem | Property |
|---|---|
| `NoHarsher` | `NoWorseNoHarsher` |
| `ExitTells` | `ExitTellsRegression` |
| `HeadlineFits` | `HeadlineFitsTable` |

The induction only says that a verdict is the one its inputs give; the rest is
arithmetic on the badges, for every summary, not only for those near a limit, and for
every `RoundsUp`: `RowTells` has one bound for what must fail and one for what may.

### Only model-checked

The liveness properties `EveryRequestEnds`, `LocksAreReleased`,
`EveryRequestIsAnswered` and `EventuallyServing`: temporal reasoning about fairness
is beyond the provers used here. What of them is safety is proved: that no circle of
waits can form (`NoDeadlock`), that locks never outlive their transaction
(`LockHolders`), that nobody in the pool's queue is overtaken (`NobodyOvertakes`).

## 5. Plan

Modelled, checked and proved: payments, fault registry, request pipeline with
login, invoices, plan changes and health, lifecycle, web UI, run reports. What
could follow:

1. An abstract specification of the request pipeline, of which `ApiRequests` only
   proves invariants and the order of its queue so far.
2. `K6Journeys`: keys built from virtual user, iteration and invoice, which repeat
   from run to run, composed with the ledger and the invoice reset: what a second
   run really pays.
3. The admin guard, which tells admin URLs by their prefix, against the routes
   that are registered.
4. Bodies as the validator leaves them (coercion, removed properties).
5. An `AlertPipeline`: alerts about an API that is also their receiver.

## 6. Not modelled

Logging, tracing, dashboards, collectors and stores: output, or configuration of
third-party programs. The alert webhook, which only logs, and Alertmanager, which
calls it. The stack scripts: sequential probes of a running stack. Deployment and
CI configuration, but for the environments it gives to processes, which are
instances of `Lifecycle`. The k6 journeys and load profiles, but for their
thresholds. The tests, which are read as claims about the code. The web server of
the UI and the UI's fault buttons. What AJV makes of a body, the admin guard's
prefix, CORS, the not-found handler, `/health/live` and the metrics scrape, whose
handlers answer from memory and change nothing. The rounding of an amount to
NUMERIC(12,2) as it is stored: the handler compares the amount it
was sent, never the stored one, and one that equals an invoice's is not rounded. The table locks of a boot are in `Lifecycle` and not in `Payments`.
