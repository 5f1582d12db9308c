--------------------------- MODULE LifecycleProofs ---------------------------
(***************************************************************************)
(* Boot and shutdown, for any number of processes, environments, customers *)
(* of the seed, requests, signals and failures.                            *)
(***************************************************************************)
EXTENDS Lifecycle, TLAPS

Phases == Booting \union {"down", "serving", "closing", "ending"}
Settled == {"listen", "serving", "closing", "ending"}

Typed ==
  /\ TypeOK
  /\ signals \in 0..MaxSignals /\ failures \in Nat
  /\ \A i \in Instances : shutdowns[i] <= signals

(* What each phase of main() and shutdown() has established, and what initdb did
   for a process that does not migrate. *)
Reached(i) ==
  /\ at[i] \notin {"down", "start"} => Safe(config[i])
  /\ (at[i] \in Settled \union {"seed"} \/ ~config[i].migrate) => schema
  /\ (at[i] \in Settled \/ ~config[i].migrate) => \A x \in Invoices : invoices[x] # None
  /\ at[i] = "ending" => Drained(i)

IInv == Typed /\ \A i \in Instances : Reached(i)

-----------------------------------------------------------------------------
LEMMA SeedStatusType == ASSUME NEW x PROVE SeedStatus(x) \in {"pending", "overdue", "paid"}
  BY Zenon DEF SeedStatus

LEMMA InitEstablishes == Init => IInv
  <1> SUFFICES ASSUME Init PROVE IInv
    OBVIOUS
  <1>1. config \in [Instances -> {Config(env) : env \in Environments}]
    BY DEF Init
  <1>2. schema \in BOOLEAN /\ \A i \in Instances : ~config[i].migrate => schema
    BY DEF Init
  <1>3. /\ invoices \in [Invoices -> {"pending", "overdue", "paid", None}]
        /\ schema => \A x \in Invoices : invoices[x] # None
    BY SeedStatusType, NoneAssumption DEF Init
  <1>4. request \in [Requests -> RequestStates]
    BY DEF Init, RequestStates
  <1>5. Typed
    BY <1>1, <1>2, <1>3, <1>4, BoundAssumption DEF Init, Typed, TypeOK
  <1>6. \A i \in Instances : Reached(i)
    BY <1>2, <1>3 DEF Init, Reached, Settled
  <1> QED BY <1>5, <1>6 DEF IInv

-----------------------------------------------------------------------------
(* A request a process has is being handled, and so is one with a transaction. *)
Work == [at: {"waiting", "abandoned"}, on: Instances, tx: Busy \union {"none", "ended", "lost"}]

LEMMA AtWork ==
  ASSUME Typed, NEW q \in Requests
  PROVE  /\ request[q] \in RequestStates
         /\ \/ request[q] \in Work
            \/ /\ request[q].on = None /\ request[q].tx \notin Busy
               /\ request[q].at \notin {"waiting", "abandoned"}
  BY DEF Typed, TypeOK, RequestStates, Unsent, Gone, Busy, Work

(* No step but Accept makes a client wait that did not. *)
NobodyNew ==
  \A q \in Requests : request'[q].at = "waiting" =>
                        request[q].at = "waiting" /\ request'[q].on = request[q].on

(* The end of a process takes its handlers and its shutdowns with it. *)
LEMMA ExitTyped ==
  ASSUME Typed, NEW i \in Instances, Exit(i)
  PROVE  /\ at' \in [Instances -> Phases] /\ at'[i] = "down"
         /\ \A j \in Instances \ {i} : at'[j] = at[j]
         /\ shutdowns' \in [Instances -> 0..MaxSignals]
         /\ \A j \in Instances : shutdowns'[j] <= signals
         /\ request' \in [Requests -> RequestStates] /\ NobodyNew
         /\ UNCHANGED <<config, sawTables>>
  <1>1. Gone("cut") \in RequestStates /\ Gone("cut").at # "waiting"
    BY DEF RequestStates, Gone
  <1>2. request' \in [Requests -> RequestStates] /\ NobodyNew
    BY <1>1, Zenon DEF Exit, Typed, TypeOK, NobodyNew
  <1> QED BY <1>2, BoundAssumption DEF Exit, Goto, Phases, Typed, TypeOK

(* What every step keeps, whoever takes it: the schema, the rows, the configuration. *)
Kept ==
  /\ schema => schema'
  /\ \A x \in Invoices : invoices[x] # None => invoices'[x] # None
  /\ config' = config

(* A process that does not move, or goes down, keeps what it has reached, as long as
   it makes no client wait that did not. *)
LEMMA ReachedStays ==
  ASSUME Kept, NEW i \in Instances, Reached(i),
         at'[i] = at[i] \/ at'[i] = "down",
         NobodyNew
  PROVE  Reached(i)'
  <1>1. at'[i] = "ending" => Drained(i)'
    BY DEF Reached, Drained, Handling, NobodyNew
  <1> QED BY <1>1 DEF Kept, Reached, Settled, Safe

(* Every step of Next changes the phase of one process at most. *)
LEMMA OneMoves ==
  ASSUME Typed, NEW i \in Instances, NEW phase \in Phases, Goto(i, phase)
  PROVE  /\ at' \in [Instances -> Phases] /\ at'[i] = phase
         /\ \A j \in Instances \ {i} : at'[j] = at[j]
  BY DEF Goto, Typed, TypeOK, Phases

-----------------------------------------------------------------------------
(* The steps of main(): each establishes what the next phase relies on. *)
LEMMA BootPreserves ==
  ASSUME IInv, NEW i \in Instances, Start(i) \/ Proceed(i)
  PROVE  IInv'
  <1>0. UNCHANGED bounds /\ Typed /\ Reached(i)
    BY DEF Start, Proceed, Build, LookForTables, CreateTables, Seed, Listen, IInv
  <1>1. Kept
    <2>1. CASE Seed(i)
      <3>1. \A x \in Invoices : invoices[x] # None => invoices'[x] # None
        BY <2>1 DEF Seed, Seeded
      <3> QED BY <2>1, <3>1 DEF Seed, Kept
    <2> QED BY <2>1 DEF Start, Proceed, Build, LookForTables, CreateTables, Listen, Exit, Kept, database
  <1>2. CASE Exit(i) /\ (Build(i) \/ CreateTables(i))
    <2>1. Typed'
      BY <1>0, <1>2, ExitTyped DEF Build, CreateTables, Typed, TypeOK, Phases, database, bounds
    <2>2. ASSUME NEW j \in Instances PROVE Reached(j)'
      <3>1. at'[j] = at[j] \/ at'[j] = "down"
        BY <1>0, <1>2, ExitTyped
      <3> QED BY <1>0, <1>1, <1>2, <3>1, ExitTyped, ReachedStays DEF IInv
    <2> QED BY <2>1, <2>2 DEF IInv
  <1>3. CASE ~Exit(i) \/ ~(Build(i) \/ CreateTables(i))
    <2>1. UNCHANGED <<config, shutdowns, request>>
      BY <1>3 DEF Start, Proceed, Build, LookForTables, CreateTables, Seed, Listen
    <2>2. PICK phase \in {"start", "schema", "creating", "seed", "listen", "serving"} : Goto(i, phase)
      BY <1>3 DEF Start, Proceed, Build, LookForTables, CreateTables, Seed, Listen, AfterBuild
    <2>3. /\ at' \in [Instances -> Phases] /\ at'[i] = phase
          /\ \A j \in Instances \ {i} : at'[j] = at[j]
      BY <1>0, <2>2, OneMoves DEF Phases, Booting
    <2>4. invoices' \in [Invoices -> {"pending", "overdue", "paid", None}] /\ schema' \in BOOLEAN
      <3>1. CASE Seed(i)
        <4>1. \A x \in Invoices : Seeded(x) \in {"pending", "overdue", "paid", None}
          BY <1>0, SeedStatusType DEF Seeded, Typed, TypeOK
        <4> QED BY <1>0, <3>1, <4>1 DEF Seed, Typed, TypeOK
      <3> QED BY <1>0, <1>3, <3>1
            DEF Start, Proceed, Build, LookForTables, CreateTables, Listen, database, Typed, TypeOK
    <2>5. sawTables' \in [Instances -> BOOLEAN]
      BY <1>0, <1>3
        DEF Start, Proceed, Build, LookForTables, CreateTables, Seed, Listen, Typed, TypeOK
    <2>6. Typed'
      BY <1>0, <2>1, <2>3, <2>4, <2>5 DEF Typed, TypeOK, Phases, bounds
    <2>7. Reached(i)'
      <3>1. CASE Start(i)
        BY <1>0, <1>1, <2>3, <3>1 DEF Start, Goto, Reached, Settled, Kept, Typed, TypeOK
      <3>2. CASE Build(i)
        BY <1>0, <1>1, <1>3, <2>3, <3>2
          DEF Build, Goto, AfterBuild, Reached, Settled, Kept, Safe, Typed, TypeOK, database
      <3>3. CASE LookForTables(i)
        BY <1>0, <1>1, <2>3, <3>3 DEF LookForTables, Goto, Reached, Settled, Kept, Safe, Typed, TypeOK
      <3>4. CASE CreateTables(i)
        BY <1>0, <1>1, <1>3, <2>3, <3>4
          DEF CreateTables, Goto, Reached, Settled, Kept, Safe, Typed, TypeOK
      <3>5. CASE Seed(i)
        <4>1. \A x \in Invoices : invoices'[x] # None
          BY <3>5, SeedStatusType, NoneAssumption DEF Seed, Seeded
        <4> QED BY <1>0, <1>1, <2>3, <3>5, <4>1
              DEF Seed, Goto, Reached, Settled, Kept, Safe, Typed, TypeOK
      <3>6. CASE Listen(i)
        BY <1>0, <1>1, <2>3, <3>6 DEF Listen, Goto, Reached, Settled, Kept, Safe, Typed, TypeOK
      <3> QED BY <3>1, <3>2, <3>3, <3>4, <3>5, <3>6 DEF Proceed
    <2>8. ASSUME NEW j \in Instances, j # i PROVE Reached(j)'
      BY <1>1, <2>1, <2>3, <2>8, ReachedStays DEF IInv, NobodyNew
    <2> QED BY <2>6, <2>7, <2>8 DEF IInv
  <1> QED BY <1>2, <1>3

(* The end of a process, by whatever cause. *)
LEMMA ExitPreserves ==
  ASSUME IInv, NEW i \in Instances, Exit(i), Kept,
         invoices' \in [Invoices -> {"pending", "overdue", "paid", None}], schema' \in BOOLEAN,
         signals' \in 0..MaxSignals, signals <= signals', failures' \in Nat
  PROVE  IInv'
  <1>1. Typed'
    BY ExitTyped DEF IInv, Typed, TypeOK, Phases
  <1>2. ASSUME NEW j \in Instances PROVE Reached(j)'
    <2>1. at'[j] = at[j] \/ at'[j] = "down"
      BY ExitTyped DEF IInv
    <2> QED BY <2>1, ExitTyped, ReachedStays DEF IInv
  <1> QED BY <1>1, <1>2 DEF IInv

LEMMA StopPreserves ==
  ASSUME IInv, NEW i \in Instances, Stop(i)
  PROVE  IInv'
  <1>1. CASE CloseServer(i)
    <2>1. /\ at' \in [Instances -> Phases] /\ at'[i] = "ending"
          /\ \A j \in Instances \ {i} : at'[j] = at[j]
      BY <1>1, OneMoves DEF CloseServer, IInv, Phases
    <2>2. Typed' /\ Kept /\ UNCHANGED request
      BY <1>1, <2>1 DEF CloseServer, IInv, Typed, TypeOK, Phases, Kept, database, bounds
    <2>3. Reached(i)'
      BY <1>1, <2>1, <2>2 DEF CloseServer, IInv, Reached, Settled, Kept, Drained, Handling, Safe
    <2>4. ASSUME NEW j \in Instances, j # i PROVE Reached(j)'
      BY <2>1, <2>2, <2>4, ReachedStays DEF IInv, NobodyNew
    <2> QED BY <2>2, <2>3, <2>4 DEF IInv
  <1>2. CASE EndPool(i)
    <2>1. Exit(i) /\ UNCHANGED <<database, bounds>>
      BY <1>2 DEF EndPool
    <2>2. Kept
      BY <2>1 DEF Exit, Kept, database
    <2>3. signals \in Nat
      BY BoundAssumption DEF IInv, Typed
    <2> QED BY <2>1, <2>2, <2>3, ExitPreserves DEF IInv, Typed, TypeOK, database, bounds
  <1> QED BY <1>1, <1>2 DEF Stop

LEMMA DiePreserves ==
  ASSUME IInv, NEW i \in Instances, Die(i)
  PROVE  IInv'
  <1>1. Kept
    BY DEF Die, Exit, Kept
  <1>2. failures' \in Nat /\ signals' = signals /\ signals \in Nat
    BY BoundAssumption DEF Die, Fail, IInv, Typed
  <1>3. schema' \in BOOLEAN /\ Exit(i) /\ UNCHANGED invoices
    BY DEF Die, IInv, Typed, TypeOK
  <1>4. invoices' \in [Invoices -> {"pending", "overdue", "paid", None}]
    BY <1>3 DEF IInv, Typed, TypeOK
  <1>5. signals' \in 0..MaxSignals /\ signals <= signals'
    BY <1>2 DEF IInv, Typed
  <1> QED BY <1>1, <1>2, <1>3, <1>4, <1>5, ExitPreserves

(* A signal ends a booting process, or starts one more run of shutdown(). *)
LEMMA SignalPreserves ==
  ASSUME IInv, NEW i \in Instances, Signal(i)
  PROVE  IInv'
  <1>1. /\ Kept /\ UNCHANGED <<database, failures>>
        /\ signals \in Nat /\ signals' = signals + 1 /\ signals' \in 0..MaxSignals
    BY BoundAssumption DEF Signal, Exit, Kept, database, processes, IInv, Typed
  <1>2. CASE Exit(i)
    BY <1>1, <1>2, ExitPreserves DEF IInv, Typed, TypeOK, database
  <1>3. CASE UNCHANGED <<processes, request>>
    <2>1. Typed'
      BY <1>1, <1>3 DEF IInv, Typed, TypeOK, processes, database
    <2>2. ASSUME NEW j \in Instances PROVE Reached(j)'
      BY <1>1, <1>3, ReachedStays DEF IInv, processes, NobodyNew
    <2> QED BY <2>1, <2>2 DEF IInv
  <1>4. CASE /\ at[i] \notin Booting /\ shutdowns' = [shutdowns EXCEPT ![i] = @ + 1]
             /\ Goto(i, IF at[i] = "serving" THEN "closing" ELSE at[i])
             /\ UNCHANGED <<config, sawTables, request>>
    <2>1. PICK phase \in Phases : /\ phase = (IF at[i] = "serving" THEN "closing" ELSE at[i])
                                  /\ Goto(i, phase)
      BY <1>4 DEF IInv, Typed, TypeOK, Phases
    <2>2. /\ at' \in [Instances -> Phases] /\ at'[i] = phase
          /\ \A j \in Instances \ {i} : at'[j] = at[j]
      BY <2>1, OneMoves DEF IInv
    <2>3. /\ shutdowns' \in [Instances -> 0..MaxSignals]
          /\ \A j \in Instances : shutdowns'[j] <= signals'
      <3>1. ASSUME NEW j \in Instances
            PROVE  shutdowns'[j] \in 0..MaxSignals /\ shutdowns'[j] <= signals'
        <4>1. shutdowns[j] \in Nat /\ shutdowns[j] <= signals
          BY BoundAssumption DEF IInv, Typed, TypeOK
        <4>2. shutdowns'[j] \in {shutdowns[j], shutdowns[j] + 1}
          BY <1>4 DEF IInv, Typed, TypeOK
        <4> QED BY <1>1, <4>1, <4>2, BoundAssumption
      <3> QED BY <1>4, <3>1 DEF IInv, Typed, TypeOK
    <2>4. Typed'
      BY <1>1, <1>4, <2>2, <2>3 DEF IInv, Typed, TypeOK, Phases, database
    <2>5. Reached(i)'
      BY <1>1, <1>4, <2>1, <2>2 DEF IInv, Reached, Settled, Kept, Safe, Drained, Handling
    <2>6. ASSUME NEW j \in Instances, j # i PROVE Reached(j)'
      BY <1>1, <1>4, <2>2, <2>6, ReachedStays DEF IInv, NobodyNew
    <2> QED BY <2>4, <2>5, <2>6 DEF IInv
  <1> QED BY <1>2, <1>3, <1>4 DEF Signal

(* The steps of a request that a process has, a payment lost to a deadlock included. *)
Works(q) ==
  \/ HangUp(q) \/ Handle(q) \/ Settle(q)
  \/ \E i \in Instances : Deadlock(i, q) /\ UNCHANGED processes

LEMMA WorkIsTyped ==
  ASSUME Typed, NEW q \in Requests, Works(q)
  PROVE  request' \in [Requests -> RequestStates] /\ NobodyNew
  <1>1. request \in [Requests -> RequestStates]
    BY DEF Typed, TypeOK
  <1>2. CASE HangUp(q)
    <2>1. request[q] \in Work
      BY <1>2, AtWork DEF HangUp
    <2>2. [request[q] EXCEPT !.at = "abandoned"] \in RequestStates
      BY <2>1 DEF Work, RequestStates
    <2>3. request' = [request EXCEPT ![q] = [request[q] EXCEPT !.at = "abandoned"]]
      BY <1>2 DEF HangUp, Move
    <2> QED BY <1>1, <2>1, <2>2, <2>3 DEF NobodyNew, Work
  <1>3. CASE Respond(q)
    <2>1. request' = [request EXCEPT ![q] = Gone("done")]
      BY <1>3 DEF Respond
    <2>2. Gone("done") \in RequestStates /\ Gone("done").at # "waiting"
      BY DEF RequestStates, Gone
    <2> QED BY <1>1, <2>1, <2>2 DEF NobodyNew
  <1>4. ASSUME NEW from, NEW to \in Busy \union {"ended", "lost"}, Transact(q, from, to),
               request[q] \in Work
        PROVE  request' \in [Requests -> RequestStates] /\ NobodyNew
    <2>1. [request[q] EXCEPT !.tx = to] \in RequestStates
      BY <1>4 DEF Work, RequestStates
    <2>2. request' = [request EXCEPT ![q] = [request[q] EXCEPT !.tx = to]]
      BY <1>4 DEF Transact
    <2> QED BY <1>1, <1>4, <2>1, <2>2 DEF NobodyNew, Work
  <1>5. CASE Connect(q)
    BY <1>4, <1>5, AtWork DEF Connect, Busy
  <1>6. CASE Decline(q) \/ Charge(q) \/ Settle(q)
    BY <1>4, <1>6, AtWork DEF Decline, Charge, Settle, Transact, Busy
  <1>7. CASE \E i \in Instances : Deadlock(i, q) /\ UNCHANGED processes
    <2> PICK i \in Instances : Deadlock(i, q) /\ UNCHANGED processes
      BY <1>7
    <2>1. ~Exit(i)
      BY DEF Deadlock, Exit, Goto, processes, Typed, TypeOK
    <2> QED BY <1>4, <2>1, AtWork DEF Deadlock, Transact, Busy
  <1> QED BY <1>2, <1>3, <1>5, <1>6, <1>7 DEF Works, Handle

(* Requests come to processes that serve, and go. *)
LEMMA RequestsPreserve ==
  ASSUME IInv, NEW q \in Requests,
         (\E i \in Instances : Accept(i, q)) \/ Works(q)
  PROVE  IInv'
  <1>1. UNCHANGED <<processes, schema, bounds>>
    BY DEF Accept, Works, HangUp, Handle, Connect, Decline, Charge, Settle, Respond, Deadlock, database
  <1>2. /\ invoices' \in [Invoices -> {"pending", "overdue", "paid", None}]
        /\ \A x \in Invoices : invoices[x] # None => invoices'[x] # None
    BY NoneAssumption DEF Accept, Works, HangUp, Handle, Connect, Decline, Charge, Settle, Respond,
       Deadlock, database, IInv, Typed, TypeOK
  <1>3. CASE \E i \in Instances : Accept(i, q)
    <2>1. PICK i \in Instances : Accept(i, q)
      BY <1>3
    <2>2. request' = [request EXCEPT ![q] = [at |-> "waiting", on |-> i, tx |-> "none"]]
      BY <2>1 DEF Accept
    <2>3. [at |-> "waiting", on |-> i, tx |-> "none"] \in RequestStates
      BY DEF RequestStates
    <2>4. request' \in [Requests -> RequestStates]
      BY <2>2, <2>3 DEF IInv, Typed, TypeOK
    <2>5. Kept /\ Typed'
      BY <1>1, <1>2, <2>4 DEF Kept, IInv, Typed, TypeOK, processes, bounds
    <2>6. ASSUME NEW j \in Instances PROVE Reached(j)'
      <3>1. at[i] = "serving" /\ request'[q].on = i /\ \A p \in Requests \ {q} : request'[p] = request[p]
        BY <2>1, <2>2 DEF Accept, IInv, Typed, TypeOK
      <3>2. at[j] = "ending" => Drained(j)'
        BY <3>1 DEF IInv, Reached, Drained, Handling
      <3> QED BY <1>1, <2>5, <3>2 DEF IInv, Reached, Kept, Settled, Safe, processes
    <2> QED BY <2>5, <2>6 DEF IInv
  <1>4. CASE Works(q)
    <2>1. Kept /\ Typed' /\ NobodyNew
      BY <1>1, <1>2, <1>4, WorkIsTyped DEF Kept, IInv, Typed, TypeOK, processes, bounds
    <2>2. ASSUME NEW j \in Instances PROVE Reached(j)'
      BY <1>1, <2>1, ReachedStays DEF IInv, processes
    <2> QED BY <2>1, <2>2 DEF IInv
  <1> QED BY <1>3, <1>4

(* PostgreSQL ends the boot or fails the payment. *)
LEMMA DeadlockPreserves ==
  ASSUME IInv, NEW i \in Instances, NEW q \in Requests, Deadlock(i, q)
  PROVE  IInv'
  <1>1. CASE UNCHANGED processes
    BY <1>1, RequestsPreserve DEF Works
  <1>2. CASE Exit(i)
    <2>1. UNCHANGED <<database, bounds>> /\ Kept
      BY <1>2 DEF Deadlock, Exit, Kept, database
    <2>2. signals \in Nat
      BY BoundAssumption DEF IInv, Typed
    <2> QED BY <1>2, <2>1, <2>2, ExitPreserves DEF IInv, Typed, TypeOK, database, bounds
  <1> QED BY <1>1, <1>2 DEF Deadlock

LEMMA NextPreserves == IInv /\ [Next]_vars => IInv'
  <1> SUFFICES ASSUME IInv, [Next]_vars PROVE IInv'
    OBVIOUS
  <1>1. CASE UNCHANGED vars
    <2>1. Typed' /\ Kept
      BY <1>1 DEF IInv, Typed, TypeOK, Kept, vars, processes, database, bounds
    <2>2. ASSUME NEW j \in Instances PROVE Reached(j)'
      BY <1>1, <2>1, ReachedStays DEF IInv, vars, processes, NobodyNew
    <2> QED BY <2>1, <2>2 DEF IInv
  <1> QED BY <1>1, BootPreserves, StopPreserves, DiePreserves, SignalPreserves, RequestsPreserve,
             DeadlockPreserves DEF Next, Works

(* The schema stays, and so does every payment: only Seed and Settle write rows. *)
LEMMA DataStays ==
  ASSUME IInv, Next
  PROVE  (schema => schema') /\ \A x \in Invoices : invoices[x] = "paid" => invoices'[x] = "paid"
  <1>1. CASE \E i \in Instances : Start(i) \/ Proceed(i)
    <2> PICK i \in Instances : Start(i) \/ Proceed(i)
      BY <1>1
    <2>1. CASE Seed(i)
      <3>1. \A x \in Invoices : invoices[x] = "paid" => invoices'[x] = "paid"
        BY <2>1, NoneAssumption DEF Seed, Seeded
      <3> QED BY <2>1, <3>1 DEF Seed
    <2> QED BY <2>1 DEF Start, Proceed, Build, LookForTables, CreateTables, Listen, Exit, database
  <1>2. CASE \E i \in Instances : Stop(i) \/ Die(i) \/ Signal(i) \/ \E q \in Requests : Accept(i, q)
    BY <1>2 DEF Stop, CloseServer, EndPool, Die, Signal, Accept, Exit, database
  <1>3. CASE \E q \in Requests : Works(q) \/ \E i \in Instances : Deadlock(i, q)
    BY <1>3 DEF Works, HangUp, Handle, Connect, Decline, Charge, Settle, Respond, Deadlock, database,
       IInv, Typed, TypeOK
  <1> QED BY <1>1, <1>2, <1>3 DEF Next, Works

(* A process that was stopping goes down by EndPool, or by a failure. *)
LEMMA EndsByPool ==
  ASSUME IInv, Next, NEW i \in Instances, at[i] \in {"closing", "ending"},
         at'[i] = "down", failures' = failures
  PROVE  EndPool(i)
  <1>0. /\ at \in [Instances -> Phases] /\ failures \in Nat
        /\ at[i] # "down" /\ at[i] \notin Booting /\ at[i] # "start"
    BY DEF IInv, Typed, TypeOK, Phases, Booting
  <1>1. ASSUME NEW j \in Instances, Exit(j) PROVE j = i
    BY <1>0, <1>1 DEF Exit, Goto
  <1>2. ASSUME NEW j \in Instances, NEW phase \in Phases \ {"down"}, Goto(j, phase) PROVE FALSE
    BY <1>0, <1>2 DEF Goto
  <1>3. CASE \E j \in Instances : Start(j) \/ Proceed(j)
    <2> PICK j \in Instances : Start(j) \/ Proceed(j)
      BY <1>3
    <2>1. CASE Exit(j)
      BY <1>0, <1>1, <2>1
        DEF Start, Proceed, Build, LookForTables, CreateTables, Seed, Listen, Booting
    <2>2. PICK phase \in {"start", "schema", "creating", "seed", "listen", "serving"} :
            Goto(j, phase) \/ Exit(j)
      BY DEF Start, Proceed, Build, LookForTables, CreateTables, Seed, Listen, AfterBuild
    <2> QED BY <1>2, <2>1, <2>2 DEF Phases, Booting
  <1>4. CASE \E j \in Instances : Stop(j)
    <2> PICK j \in Instances : Stop(j)
      BY <1>4
    <2>1. CASE CloseServer(j)
      BY <1>2, <2>1 DEF CloseServer, Phases
    <2>2. CASE EndPool(j)
      BY <1>1, <2>2 DEF EndPool
    <2> QED BY <2>1, <2>2 DEF Stop
  <1>5. CASE \E j \in Instances : Die(j)
    BY <1>0, <1>5 DEF Die, Fail
  <1>6. CASE \E j \in Instances : Signal(j)
    <2> PICK j \in Instances : Signal(j)
      BY <1>6
    <2>1. CASE Exit(j) /\ at[j] \in Booting
      BY <1>0, <1>1, <2>1
    <2>2. CASE UNCHANGED <<processes, request>>
      BY <1>0, <2>2 DEF processes
    <2>3. CASE Goto(j, IF at[j] = "serving" THEN "closing" ELSE at[j])
      <3>1. CASE at[j] = "down"
        BY <3>1 DEF Signal
      <3>2. CASE at[j] # "down"
        <4>1. (IF at[j] = "serving" THEN "closing" ELSE at[j]) \in Phases \ {"down"}
          BY <1>0, <3>2 DEF Phases
        <4> QED BY <1>2, <2>3, <4>1
      <3> QED BY <3>1, <3>2
    <2> QED BY <2>1, <2>2, <2>3 DEF Signal
  <1>7. CASE \E q \in Requests : Works(q) \/ \E j \in Instances : Accept(j, q)
    BY <1>0, <1>7 DEF Accept, Works, HangUp, Handle, Connect, Decline, Charge, Settle, Respond, processes
  <1>8. ASSUME NEW j \in Instances, NEW q \in Requests, Deadlock(j, q), Exit(j) PROVE FALSE
    BY <1>1, <1>8 DEF Deadlock
  <1> QED BY <1>3, <1>4, <1>5, <1>6, <1>7, <1>8 DEF Next, Works, Deadlock

-----------------------------------------------------------------------------
(* index.ts:14-50: the inductive invariant holds in every reachable state. *)
THEOREM Invariance == Spec => []IInv
  BY InitEstablishes, NextPreserves, PTL DEF Spec

(* Every variable of the processes, the tables and the requests keeps its range. *)
THEOREM TypeCorrectness == Spec => []TypeOK
  <1>1. IInv => TypeOK
    BY DEF IInv, Typed
  <1> QED BY <1>1, Invariance, PTL

(* index.ts:16-27: no process listens before its configuration was found safe and
   the schema and the seed are committed, however many migrate, die and restart. *)
THEOREM ListenersAreReady == Spec => []ServingIsReady
  <1>1. IInv => ServingIsReady
    BY DEF IInv, Reached, Settled, Safe, ServingIsReady
  <1> QED BY <1>1, Invariance, PTL

(* migrate.ts:17-24: no boot, concurrent with payments or not, takes anything back. *)
THEOREM MigrationsAreSafe == Spec => BootsKeepData
  <1>1. IInv /\ [Next]_vars =>
          [(schema => schema') /\ \A x \in Invoices : invoices[x] = "paid" => invoices'[x] = "paid"]_vars
    BY DataStays
  <1> QED BY <1>1, Invariance, PTL DEF Spec, BootsKeepData

(* index.ts:33-44, db.ts:23-35: a process that ends after a signal leaves no client
   waiting, and after a single signal cuts no payment between BEGIN and COMMIT. *)
THEOREM ShutdownIsGraceful == Spec => GracefulExit
  <1>1. IInv /\ [Next]_vars =>
          [\A i \in Instances : at[i] \in {"closing", "ending"} /\ at'[i] = "down" /\ failures' = failures =>
             \A q \in Handling(i) : /\ request[q].at = "abandoned"
                                    /\ request[q].tx \in Busy => shutdowns[i] > 1]_vars
    <2> SUFFICES ASSUME IInv, Next, NEW i \in Instances,
                        at[i] \in {"closing", "ending"}, at'[i] = "down", failures' = failures,
                        NEW q \in Handling(i)
                 PROVE  request[q].at = "abandoned" /\ (request[q].tx \in Busy => shutdowns[i] > 1)
      OBVIOUS
    <2>1. EndPool(i)
      BY EndsByPool
    <2>2. Drained(i) /\ (request[q].tx \in Busy => shutdowns[i] > 1)
      BY <2>1 DEF EndPool, IInv, Reached
    <2>3. q \in Requests /\ request[q].on # None
      BY NoneAssumption DEF Handling
    <2>4. request[q] \in Work
      BY <2>3, AtWork DEF IInv
    <2> QED BY <2>2, <2>4 DEF Drained, Work
  <1> QED BY <1>1, Invariance, PTL DEF Spec, GracefulExit

-----------------------------------------------------------------------------
(* What the refinement needs on top of IInv: the seed is loaded as a whole, and a
   handler at work was accepted by a process that found it. *)
Seeds == \A x \in Invoices : invoices[x] # None
Whole == Seeds \/ \A x \in Invoices : invoices[x] = None
Served == \A q \in Requests : request[q].on # None => schema /\ Seeds

MInv == Whole /\ Served

LEMMA InitIsWhole == Init => MInv
  BY SeedStatusType, NoneAssumption DEF Init, Unsent, Gone, MInv, Whole, Seeds, Served

(* What a step may do to the database: it stays, gets its schema, is given the rows it
   lacks, or has an invoice paid. *)
LEMMA DatabaseSteps ==
  ASSUME IInv, Served, Next
  PROVE  \/ UNCHANGED database
         \/ schema' = TRUE /\ UNCHANGED <<invoices, Listening>>
         \/ /\ schema /\ UNCHANGED <<schema, request, Listening>>
            /\ invoices' = [x \in Invoices |-> Seeded(x)]
         \/ /\ schema /\ Seeds /\ UNCHANGED <<schema, Listening>>
            /\ \E x \in Invoices : invoices' = [invoices EXCEPT ![x] = "paid"]
  <1> DEFINE Goal ==
        \/ UNCHANGED database
        \/ schema' = TRUE /\ UNCHANGED <<invoices, Listening>>
        \/ /\ schema /\ UNCHANGED <<schema, request, Listening>>
           /\ invoices' = [x \in Invoices |-> Seeded(x)]
        \/ /\ schema /\ Seeds /\ UNCHANGED <<schema, Listening>>
           /\ \E x \in Invoices : invoices' = [invoices EXCEPT ![x] = "paid"]
  <1>0. ASSUME NEW i \in Instances, NEW phase, phase # "serving", at[i] # "serving", Goto(i, phase)
        PROVE  UNCHANGED Listening
    BY <1>0 DEF Goto, Listening, IInv, Typed, TypeOK
  <1>1. ASSUME NEW i \in Instances, Start(i) \/ Proceed(i) PROVE Goal
    <2>1. CASE Seed(i)
      <3>1. schema
        BY <2>1 DEF Seed, IInv, Reached
      <3> QED BY <1>0, <2>1, <3>1 DEF Seed
    <2>2. CASE CreateTables(i)
      BY <1>0, <2>2 DEF CreateTables, Exit, database
    <2>3. CASE Start(i) \/ Build(i) \/ LookForTables(i) \/ Listen(i)
      BY <2>3 DEF Start, Build, LookForTables, Listen
    <2> QED BY <1>1, <2>1, <2>2, <2>3 DEF Proceed
  <1>2. ASSUME NEW i \in Instances, Die(i) PROVE Goal
    BY <1>0, <1>2 DEF Die, Exit, database
  <1>3. ASSUME NEW q \in Requests, Settle(q) PROVE Goal
    <2>1. request[q].on # None
      BY <1>3, AtWork, NoneAssumption DEF Settle, Transact, Busy, Work, IInv
    <2>2. schema /\ Seeds
      BY <2>1 DEF Served
    <2> QED BY <1>3, <2>2 DEF Settle, Listening, processes
  <1>4. CASE \/ \E i \in Instances : Stop(i) \/ Signal(i)
             \/ \E i \in Instances, q \in Requests : Accept(i, q) \/ Deadlock(i, q)
             \/ \E q \in Requests : HangUp(q) \/ Handle(q)
    BY <1>4 DEF Stop, CloseServer, EndPool, Signal, Accept, Deadlock, HangUp, Handle, Connect,
       Decline, Charge, Respond
  <1> QED BY <1>1, <1>2, <1>3, <1>4 DEF Next

(* Who starts to listen has booted; who stops, stops alone. *)
LEMMA ListeningSteps ==
  ASSUME IInv, Next
  PROVE  \/ UNCHANGED Listening
         \/ \E i \in Instances : i \notin Listening /\ schema /\ Seeds
                                 /\ Listening' = Listening \union {i} /\ UNCHANGED database
         \/ \E i \in Listening : Listening' = Listening \ {i} /\ UNCHANGED database
  <1> DEFINE Goal ==
        \/ UNCHANGED Listening
        \/ \E i \in Instances : i \notin Listening /\ schema /\ Seeds
                                /\ Listening' = Listening \union {i} /\ UNCHANGED database
        \/ \E i \in Listening : Listening' = Listening \ {i} /\ UNCHANGED database
  <1>0. ASSUME NEW i \in Instances, NEW phase, Goto(i, phase)
        PROVE  Listening' = IF phase = "serving" THEN Listening \union {i} ELSE Listening \ {i}
    BY <1>0 DEF Goto, Listening, IInv, Typed, TypeOK
  <1>1. ASSUME NEW i \in Instances, NEW phase, Goto(i, phase), phase # "serving",
               at[i] # "serving" \/ UNCHANGED database
        PROVE  Goal
    <2>1. Listening' = Listening \ {i}
      BY <1>0, <1>1
    <2>2. CASE i \in Listening
      BY <1>1, <2>1, <2>2 DEF Listening
    <2>3. CASE i \notin Listening
      BY <2>1, <2>3
    <2> QED BY <2>2, <2>3
  <1>2. ASSUME NEW i \in Instances, Start(i) \/ Proceed(i) PROVE Goal
    <2>1. CASE Listen(i)
      <3>1. i \notin Listening /\ schema /\ Seeds /\ UNCHANGED database
        BY <2>1 DEF Listen, Listening, IInv, Reached, Settled, Seeds
      <3>2. Listening' = Listening \union {i}
        BY <1>0, <2>1 DEF Listen
      <3> QED BY <3>1, <3>2
    <2>2. CASE Start(i) \/ Build(i) \/ LookForTables(i) \/ CreateTables(i) \/ Seed(i)
      <3>1. PICK phase \in {"start", "schema", "creating", "seed", "listen", "down"} : Goto(i, phase)
        BY <2>2 DEF Start, Build, LookForTables, CreateTables, Seed, Exit, AfterBuild
      <3>2. at[i] # "serving"
        BY <2>2 DEF Start, Build, LookForTables, CreateTables, Seed
      <3> QED BY <1>1, <3>1, <3>2
    <2> QED BY <1>2, <2>1, <2>2 DEF Proceed
  <1>3. ASSUME NEW i \in Instances, Stop(i) \/ Die(i) PROVE Goal
    <2>1. PICK phase \in {"ending", "down"} : Goto(i, phase)
      BY <1>3 DEF Stop, CloseServer, EndPool, Die, Exit
    <2>2. at[i] # "serving" \/ UNCHANGED database
      BY <1>3 DEF Stop, CloseServer, EndPool, Die, database
    <2> QED BY <1>1, <2>1, <2>2
  <1>4. ASSUME NEW i \in Instances, Signal(i) PROVE Goal
    <2>0. UNCHANGED database
      BY <1>4 DEF Signal
    <2>1. CASE UNCHANGED <<processes, request>>
      BY <2>1 DEF processes, Listening
    <2>2. CASE Exit(i)
      BY <1>1, <2>0, <2>2 DEF Exit
    <2>3. CASE Goto(i, IF at[i] = "serving" THEN "closing" ELSE at[i])
      <3>1. PICK phase : phase = (IF at[i] = "serving" THEN "closing" ELSE at[i]) /\ Goto(i, phase)
        BY <2>3
      <3> QED BY <1>1, <2>0, <3>1
    <2> QED BY <1>4, <2>1, <2>2, <2>3 DEF Signal
  <1>5. CASE \E q \in Requests : Works(q) \/ \E i \in Instances : Accept(i, q)
    BY <1>5 DEF Accept, Works, HangUp, Handle, Connect, Decline, Charge, Settle, Respond, processes, Listening
  <1>6. ASSUME NEW i \in Instances, NEW q \in Requests, Deadlock(i, q), Exit(i) PROVE Goal
    BY <1>1, <1>6 DEF Deadlock, Exit
  <1> QED BY <1>2, <1>3, <1>4, <1>5, <1>6 DEF Next, Works, Deadlock

(* Handlers are started by processes that listen, and by nobody else. *)
LEMMA NextKeepsServed ==
  ASSUME IInv, MInv, Next
  PROVE  Served'
  <1>1. (schema => schema') /\ (Seeds => Seeds')
    BY DatabaseSteps, NoneAssumption DEF MInv, Seeds, Seeded, database, IInv, Typed, TypeOK
  <1> SUFFICES ASSUME NEW q \in Requests, request'[q].on # None
               PROVE  schema /\ Seeds
    BY <1>1 DEF Served
  <1>2. CASE request[q].on # None
    BY <1>2 DEF MInv, Served
  <1>3. CASE request[q].on = None
    <2>0. request \in [Requests -> RequestStates]
      BY DEF IInv, Typed, TypeOK
    <2>1. ASSUME NEW i \in Instances PROVE ~Exit(i)
      BY <1>3, <2>0 DEF Exit, Gone
    <2>2. ASSUME NEW p \in Requests PROVE ~Works(p)
      <3>1. request[q].tx \notin Busy /\ request[q].at # "waiting"
        BY <1>3, AtWork, NoneAssumption DEF IInv, Work
      <3>2. p = q => ~Works(p)
        BY <1>3, <2>1, <3>1 DEF Works, HangUp, Handle, Connect, Decline, Charge, Settle, Respond,
           Deadlock, Transact, Busy
      <3>3. p # q /\ Works(p) => request'[q] = request[q]
        BY <2>0, <2>1 DEF Works, HangUp, Handle, Connect, Decline, Charge, Settle, Respond,
           Deadlock, Move, Transact
      <3> QED BY <1>3, <3>2, <3>3
    <2>3. PICK i \in Instances : \E p \in Requests : Accept(i, p)
      BY <1>3, <2>1, <2>2 DEF Next, Proceed, Start, Build, LookForTables, CreateTables, Seed, Listen,
         Stop, CloseServer, EndPool, Die, Signal, Works, Deadlock
    <2> QED BY <2>3 DEF Accept, IInv, Reached, Settled, Seeds
  <1> QED BY <1>2, <1>3

LEMMA NextKeepsWhole ==
  ASSUME IInv, MInv, Next
  PROVE  Whole'
  <1>1. CASE invoices' = [x \in Invoices |-> Seeded(x)]
    <2>1. \A x \in Invoices : invoices'[x] # None
      BY <1>1, SeedStatusType, NoneAssumption DEF Seeded
    <2> QED BY <2>1 DEF Whole, Seeds
  <1>2. CASE UNCHANGED invoices
    BY <1>2 DEF MInv, Whole, Seeds
  <1>3. CASE Seeds /\ \E x \in Invoices : invoices' = [invoices EXCEPT ![x] = "paid"]
    BY <1>3, NoneAssumption DEF Whole, Seeds, IInv, Typed, TypeOK
  <1> QED BY <1>1, <1>2, <1>3, DatabaseSteps DEF MInv, database

LEMMA InitIsOnce == Init => Once!Init
  <1> SUFFICES ASSUME Init PROVE Once!Init
    OBVIOUS
  <1>1. Listening = {}
    BY DEF Init, Listening
  <1>2. invoices = IF schema THEN [x \in Invoices |-> SeedStatus(x)] ELSE [x \in Invoices |-> None]
    BY DEF Init
  <1> QED BY <1>1, <1>2 DEF Init, Once!Init

(* A seed that comes first loads all rows; one that comes later loads none. *)
LEMMA SeedIsOnce ==
  ASSUME IInv, Whole, schema, UNCHANGED <<schema, Listening>>,
         invoices' = [x \in Invoices |-> Seeded(x)]
  PROVE  Once!LoadSeed \/ UNCHANGED Once!vars
  <1>1. CASE Seeds
    <2>1. invoices' = invoices
      BY <1>1 DEF Seeds, Seeded, IInv, Typed, TypeOK
    <2> QED BY <2>1 DEF Once!vars
  <1>2. CASE \A x \in Invoices : invoices[x] = None
    <2>1. invoices' = [x \in Invoices |-> SeedStatus(x)]
      BY <1>2 DEF Seeded
    <2> QED BY <1>2, <2>1 DEF Once!LoadSeed
  <1> QED BY <1>1, <1>2 DEF Whole

LEMMA NextIsOnce == IInv /\ MInv /\ [Next]_vars => [Once!Next]_(Once!vars)
  <1> SUFFICES ASSUME IInv, MInv, [Next]_vars PROVE [Once!Next]_(Once!vars)
    OBVIOUS
  <1>1. CASE UNCHANGED vars
    BY <1>1 DEF vars, processes, database, Once!vars, Listening
  <1>2. CASE Next /\ UNCHANGED database
    <2>1. CASE UNCHANGED Listening
      BY <1>2, <2>1 DEF database, Once!vars
    <2>2. ASSUME NEW i \in Instances, i \notin Listening, schema, Seeds, Listening' = Listening \union {i}
          PROVE  Once!Open(i)
      BY <1>2, <2>2 DEF database, Seeds, Once!Open, Once!Ready
    <2>3. ASSUME NEW i \in Listening, Listening' = Listening \ {i}
          PROVE  Once!Close(i) /\ i \in Instances
      BY <1>2, <2>3 DEF database, Once!Close, Listening
    <2> QED BY <1>2, <2>1, <2>2, <2>3, ListeningSteps DEF Once!Next
  <1>3. CASE schema' = TRUE /\ UNCHANGED <<invoices, Listening>>
    <2>1. Once!CreateSchema \/ UNCHANGED Once!vars
      BY <1>3 DEF Once!CreateSchema, Once!vars, IInv, Typed, TypeOK
    <2> QED BY <2>1 DEF Once!Next
  <1>4. CASE schema /\ UNCHANGED <<schema, Listening>> /\ invoices' = [x \in Invoices |-> Seeded(x)]
    BY <1>4, SeedIsOnce DEF MInv, Once!Next
  <1>5. ASSUME NEW x \in Invoices, schema, Seeds, UNCHANGED <<schema, Listening>>,
               invoices' = [invoices EXCEPT ![x] = "paid"]
        PROVE  Once!Next
    BY <1>5 DEF Seeds, Once!Pay, Once!Ready, Once!Next
  <1> QED BY <1>1, <1>2, <1>3, <1>4, <1>5, DatabaseSteps DEF MInv

(* migrate.ts:6-23, 01-schema.sql, 02-seed.sql: any number of processes that boot over
   an empty database, race, die anywhere and boot again migrate it once. *)
THEOREM BootsMigrateOnce == Spec => MigratesOnce
  <1>1. IInv /\ MInv /\ [Next]_vars => MInv'
    <2>1. UNCHANGED vars => (MInv => MInv')
      BY DEF vars, database, processes, MInv, Whole, Seeds, Served
    <2> QED BY <2>1, NextKeepsWhole, NextKeepsServed DEF MInv
  <1>2. Spec => []MInv
    BY InitIsWhole, <1>1, Invariance, PTL DEF Spec
  <1> QED BY InitIsOnce, NextIsOnce, <1>2, Invariance, PTL DEF Spec, MigratesOnce, Once!Spec
=============================================================================
