------------------------------ MODULE Lifecycle ------------------------------
(***************************************************************************)
(* Boot and shutdown of the API's processes (index.ts, config.ts,          *)
(* migrate.ts) over one database that may still be empty, with the schema  *)
(* and the seed they run.  Some hosts start a process that is down again;  *)
(* signals, kills and failures come at any time, and clients may hang up.  *)
(* A handler is a payment: what shutdown() and the table locks of a boot   *)
(* tell apart is whether it has a connection, and a transaction, open.     *)
(***************************************************************************)
EXTENDS Naturals

CONSTANTS
  Instances,      \* processes of the API
  Environments,   \* what a process may be started with: variables, and a host
  CustomerCount,  \* CUSTOMER_COUNT of the seed generator
  Requests,       \* HTTP requests, each paying an invoice
  MaxSignals,     \* bound on SIGTERM and SIGINT
  MaxFailures,    \* bound on kills, failed queries and taken ports
  None

(* value.toLowerCase() *)
Lower(value) ==
  CASE value \in {"TRUE", "True"} -> "true" [] value \in {"YES", "Yes"} -> "yes"
    [] value \in {"ON", "On"} -> "on" [] OTHER -> value

(* config.ts: a flag is set by a few words only, and unset means its fallback. *)
Flag(value, fallback) ==
  IF value = "unset" THEN fallback ELSE Lower(value) \in {"1", "true", "yes", "on"}

TrustedEnvironments == {"local", "ci", "test", "development"}
InsecureSecrets == {"dev-only-secret-do-not-use-in-prod", "lab-only-secret-change-me"}

(* `restarts' is the host's policy and no variable: Render has one, docker-compose.yml
   gives the API none. *)
Config(env) ==
  [deployment |-> IF env.deployment = "unset" THEN "local" ELSE env.deployment,
   secret |-> IF env.secret = "unset" THEN "dev-only-secret-do-not-use-in-prod" ELSE env.secret,
   migrate |-> Flag(env.migrations, FALSE),
   restarts |-> env.restarts]

(* assertProductionSafety does not throw. *)
Safe(cfg) == cfg.deployment \in TrustedEnvironments \/ cfg.secret \notin InsecureSecrets

(* 02-seed.sql: one to three invoices per customer, one of each status. *)
Invoices == {x \in (1..CustomerCount) \X (1..3) : x[2] <= (x[1] % 3) + 1}

(* Mutant: a status no handler knows. *)
SettledStatus(x) == CASE x[2] = 1 -> "pending" [] x[2] = 2 -> "overdue" [] OTHER -> "settled"

SeedStatus(x) == CASE x[2] = 1 -> "pending" [] x[2] = 2 -> "overdue" [] OTHER -> "paid"

ASSUME BoundAssumption == CustomerCount \in Nat /\ MaxSignals \in Nat /\ MaxFailures \in Nat
ASSUME NoneAssumption == None \notin {"pending", "overdue", "paid"} \union Instances

VARIABLES
  config,     \* the configuration of each process
  at,         \* where main() of each process is
  sawTables,  \* CREATE TABLE IF NOT EXISTS found the tables
  shutdowns,  \* runs of shutdown() in each process
  schema,     \* 01-schema.sql is committed
  invoices,   \* table invoices, None where there is no row
  request,    \* where each request is, the process that has it, its transaction
  signals, failures

processes == <<config, at, sawTables, shutdowns>>
database == <<schema, invoices>>
bounds == <<signals, failures>>
vars == <<processes, database, request, bounds>>

Booting == {"start", "schema", "creating", "seed", "listen"}
Busy == {"open", "charged"}  \* transactions that hold a connection and write payments

(* Nobody handles the request, or a process does, before, in or after its transaction. *)
Gone(phase) == [at |-> phase, on |-> None, tx |-> "none"]
Unsent == Gone("unsent")
RequestStates ==
  {Unsent, Gone("done"), Gone("cut")}
    \union [at: {"waiting", "abandoned"}, on: Instances, tx: Busy \union {"none", "ended", "lost"}]

(* An empty database only where every process migrates; initdb filled it else. *)
Init ==
  /\ config \in [Instances -> {Config(env) : env \in Environments}]
  /\ at = [i \in Instances |-> "down"]
  /\ sawTables = [i \in Instances |-> FALSE]
  /\ shutdowns = [i \in Instances |-> 0]
  /\ schema \in {\E i \in Instances : ~config[i].migrate, TRUE}
  /\ invoices = [x \in Invoices |-> IF schema THEN SeedStatus(x) ELSE None]
  /\ request = [q \in Requests |-> Unsent]
  /\ signals = 0 /\ failures = 0

Goto(i, phase) == at' = [at EXCEPT ![i] = phase]

(* The process is gone, and with it every handler it was running. *)
Handling(i) == {q \in Requests : request[q].on = i}
Exit(i) ==
  /\ Goto(i, "down")
  /\ shutdowns' = [shutdowns EXCEPT ![i] = 0]
  /\ request' = [q \in Requests |-> IF q \in Handling(i) THEN Gone("cut") ELSE request[q]]
  /\ UNCHANGED <<config, sawTables>>
Fail == failures < MaxFailures /\ failures' = failures + 1 /\ UNCHANGED signals

-----------------------------------------------------------------------------
(* main() *)

Start(i) ==
  /\ at[i] = "down" /\ Goto(i, "start")
  /\ UNCHANGED <<config, sawTables, shutdowns, database, request, bounds>>

(* Mutant: the migrations are not awaited. *)
ListenAtOnce(cfg) == "listen"

AfterBuild(cfg) == IF cfg.migrate THEN "schema" ELSE "listen"

Build(i) ==
  /\ at[i] = "start"
  /\ \/ /\ Safe(config[i]) /\ Goto(i, AfterBuild(config[i]))
        /\ UNCHANGED <<config, sawTables, shutdowns, request>>
     \/ ~Safe(config[i]) /\ Exit(i)
  /\ UNCHANGED <<database, bounds>>

(* The file is one implicit transaction: it looks for the tables, and CREATE INDEX
   IF NOT EXISTS locks invoices against writers even when it finds its index ... *)
LookForTables(i) ==
  /\ at[i] = "schema" /\ Goto(i, "creating")
  /\ sawTables' = [sawTables EXCEPT ![i] = schema]
  /\ UNCHANGED <<config, shutdowns, database, request, bounds>>

(* Mutant: plain CREATE TABLE. *)
NothingThere(i) == ~schema

(* ... then payments, and creates those it did not find, unless another session did. *)
Creatable(i) == sawTables[i] \/ ~schema

InvoicesLocked == \E i \in Instances : at[i] = "creating" /\ sawTables[i]
PaymentsWritten == \E q \in Requests : request[q].tx \in Busy

CreateTables(i) ==
  /\ at[i] = "creating"
  /\ \/ /\ Creatable(i) /\ ~(sawTables[i] /\ PaymentsWritten)
        /\ schema' = TRUE /\ Goto(i, "seed")
        /\ UNCHANGED <<config, sawTables, shutdowns, request>>
     \/ ~Creatable(i) /\ Exit(i) /\ UNCHANGED schema
  /\ UNCHANGED <<invoices, bounds>>

(* Mutant: ON CONFLICT DO UPDATE. *)
SeededAnew(x) == SeedStatus(x)

Seeded(x) == IF invoices[x] = None THEN SeedStatus(x) ELSE invoices[x]

Seed(i) ==
  /\ at[i] = "seed" /\ ~InvoicesLocked /\ Goto(i, "listen")
  /\ invoices' = [x \in Invoices |-> Seeded(x)]
  /\ UNCHANGED <<config, sawTables, shutdowns, schema, request, bounds>>

Listen(i) ==
  /\ at[i] = "listen" /\ Goto(i, "serving")
  /\ UNCHANGED <<config, sawTables, shutdowns, database, request, bounds>>

(* A failed query or a taken port ends the process, and so does a kill; what
   PostgreSQL received of the schema it may still commit. *)
Die(i) ==
  /\ at[i] # "down" /\ Fail /\ Exit(i)
  /\ \/ UNCHANGED schema
     \/ at[i] = "creating" /\ Creatable(i) /\ schema' = TRUE
  /\ UNCHANGED invoices

-----------------------------------------------------------------------------
(* Requests, while the process listens. *)

Move(q, phase) == request' = [request EXCEPT ![q].at = phase]
Transact(q, from, to) == request[q].tx \in from /\ request' = [request EXCEPT ![q].tx = to]

Accept(i, q) ==
  /\ at[i] = "serving" /\ request[q] = Unsent
  /\ request' = [request EXCEPT ![q] = [at |-> "waiting", on |-> i, tx |-> "none"]]
  /\ UNCHANGED <<processes, database, bounds>>

HangUp(q) ==
  /\ request[q].at = "waiting" /\ Move(q, "abandoned")
  /\ UNCHANGED <<processes, database, bounds>>

(* pool.connect, which an ended pool rejects, BEGIN and the INSERT. *)
Connect(q) ==
  /\ request[q].on # None /\ at[request[q].on] # "ending"
  /\ Transact(q, {"none"}, "open")
  /\ UNCHANGED <<processes, database, bounds>>

(* Whatever ends the transaction before the gateway has approved, or without it. *)
Decline(q) == Transact(q, {"open"}, "ended") /\ UNCHANGED <<processes, database, bounds>>

Charge(q) == Transact(q, {"open"}, "charged") /\ UNCHANGED <<processes, database, bounds>>

(* The payment's UPDATE of invoices, COMMIT, and the connection goes back. *)
Settle(q) ==
  /\ ~InvoicesLocked /\ Transact(q, {"charged"}, "ended")
  /\ \E x \in Invoices : invoices' = [invoices EXCEPT ![x] = "paid"]
  /\ UNCHANGED <<processes, schema, bounds>>

Respond(q) ==
  /\ request[q].on # None /\ request[q].tx \notin Busy
  /\ request' = [request EXCEPT ![q] = Gone("done")]
  /\ UNCHANGED <<processes, database, bounds>>

(* A boot that has locked invoices waits for this payment, and this payment for the
   boot: PostgreSQL fails one of the two. *)
Deadlock(i, q) ==
  /\ at[i] = "creating" /\ sawTables[i] /\ request[q].tx = "charged"
  /\ \/ Exit(i)
     \/ Transact(q, {"charged"}, "lost") /\ UNCHANGED processes
  /\ UNCHANGED <<database, bounds>>

-----------------------------------------------------------------------------
(* shutdown() *)

(* The handlers are registered after listen: before, SIGINT kills, and SIGTERM is
   heard by OpenTelemetry's own handler only. *)
Signal(i) ==
  /\ at[i] # "down" /\ signals < MaxSignals /\ signals' = signals + 1
  /\ \/ at[i] \in Booting /\ (Exit(i) \/ UNCHANGED <<processes, request>>)
     \/ /\ at[i] \notin Booting
        /\ shutdowns' = [shutdowns EXCEPT ![i] = @ + 1]
        /\ Goto(i, IF at[i] = "serving" THEN "closing" ELSE at[i])
        /\ UNCHANGED <<config, sawTables, request>>
  /\ UNCHANGED <<database, failures>>

(* Mutant: app.close is not awaited. *)
NobodyWaits(i) == TRUE

Drained(i) == \A q \in Handling(i) : request[q].at # "waiting"

(* app.close: no client waits any more; every run of shutdown goes on to pool.end. *)
CloseServer(i) ==
  /\ at[i] = "closing" /\ Drained(i) /\ Goto(i, "ending")
  /\ UNCHANGED <<config, sawTables, shutdowns, database, request, bounds>>

(* The first pool.end waits for the connections in use and serves nobody who waits for
   one; then the process exits with 0, whatever its other handlers are doing.  A second
   pool.end is rejected at once and the process exits with 1. *)
EndPool(i) ==
  /\ at[i] = "ending"
  /\ (\A q \in Handling(i) : request[q].tx \notin Busy) \/ shutdowns[i] > 1
  /\ Exit(i)
  /\ UNCHANGED <<database, bounds>>

Proceed(i) == Build(i) \/ LookForTables(i) \/ CreateTables(i) \/ Seed(i) \/ Listen(i)
Stop(i) == CloseServer(i) \/ EndPool(i)
Handle(q) == Connect(q) \/ Decline(q) \/ Charge(q) \/ Respond(q)

Next ==
  \/ \E i \in Instances : Start(i) \/ Proceed(i) \/ Stop(i) \/ Die(i) \/ Signal(i)
  \/ \E q \in Requests : HangUp(q) \/ Handle(q) \/ Settle(q)
  \/ \E i \in Instances, q \in Requests : Accept(i, q) \/ Deadlock(i, q)

Spec == Init /\ [][Next]_vars

(* A host that restarts does so, no step of a process takes for ever, PostgreSQL finds
   every deadlock and gives a lock that is released to whoever has waited for it. *)
FairSpec ==
  /\ Spec
  /\ \A i \in Instances : /\ WF_vars(config[i].restarts /\ Start(i))
                          /\ WF_vars(Proceed(i)) /\ WF_vars(Stop(i))
  /\ \A q \in Requests : /\ WF_vars(Handle(q)) /\ SF_vars(Settle(q))
                         /\ WF_vars(\E i \in Instances : Deadlock(i, q))

-----------------------------------------------------------------------------
(* Every variable stays in its range. *)
TypeOK ==
  /\ config \in [Instances -> {Config(env) : env \in Environments}]
  /\ at \in [Instances -> Booting \union {"down", "serving", "closing", "ending"}]
  /\ sawTables \in [Instances -> BOOLEAN] /\ shutdowns \in [Instances -> 0..MaxSignals]
  /\ schema \in BOOLEAN
  /\ invoices \in [Invoices -> {"pending", "overdue", "paid", None}]
  /\ request \in [Requests -> RequestStates]

(* index.ts:16-27: whoever listens has a safe configuration, and finds the schema and
   every seeded row committed, whoever else is migrating, dying or half through a boot. *)
ServingIsReady ==
  \A i \in Instances : at[i] \in {"serving", "closing", "ending"} =>
    /\ config[i].deployment \in TrustedEnvironments \/ config[i].secret \notin InsecureSecrets
    /\ schema
    /\ \A x \in Invoices : invoices[x] # None

(* generate-seed.mjs:68 and config.ts:85: "re-running on every boot is safe": no boot,
   concurrent with payments or not, takes a payment or the schema back. *)
BootsKeepData ==
  [][(schema => schema') /\ \A x \in Invoices : invoices[x] = "paid" => invoices'[x] = "paid"]_vars

(* index.ts:33-44, db.ts:23-35: a process that ends after a signal leaves no client
   without the answer it waits for, however many signals come; and a single signal cuts
   no payment between its BEGIN and its COMMIT, where the gateway may have charged it,
   though its client has hung up.  A handler that is abandoned and has no connection,
   before its transaction or after it, may be cut. *)
GracefulExit ==
  [][\A i \in Instances : at[i] \in {"closing", "ending"} /\ at'[i] = "down" /\ failures' = failures =>
       \A q \in Handling(i) : /\ request[q].at = "abandoned"
                              /\ request[q].tx \in Busy => shutdowns[i] > 1]_vars

(* Once signals and failures cease, every safe process on a host that restarts it serves
   for good, the losers of a first migration and of a deadlock with payments included;
   on any host, no boot and no shutdown hangs. *)
EventuallyServing ==
  \A i \in Instances : /\ <>[](Safe(config[i]) /\ config[i].restarts => at[i] = "serving")
                       /\ <>[](Safe(config[i]) => at[i] \in {"serving", "down"})

(* migrate.ts:10, config.ts:85: "running them on every boot is safe".  Refuted: a boot
   that runs 01-schema.sql again beside a payment that is at the gateway has PostgreSQL
   fail the payment, which was charged. *)
BootsSpareCharges == \A q \in Requests : request[q].tx # "lost"

Listening == {i \in Instances : at[i] = "serving"}

Once == INSTANCE Bootstrap WITH Processes <- Instances, Rows <- Invoices,
          SeedRows <- [x \in Invoices |-> SeedStatus(x)], listening <- Listening

(* migrate.ts:6-11, "running them on every boot is safe": boots that race for the
   tables, die half way and run the seed again and again do to the database what one
   migration does, before anybody listens or pays, and never again. *)
MigratesOnce == Once!Spec
=============================================================================
