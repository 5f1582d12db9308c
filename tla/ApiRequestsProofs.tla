-------------------------- MODULE ApiRequestsProofs --------------------------
(***************************************************************************)
(* The request pipeline, for any requests, customers, plans, forms, size   *)
(* of the pool, lifetime of tokens and number of failures.                 *)
(***************************************************************************)
EXTENDS ApiRequests, FiniteSetTheorems, SequenceTheorems, TLAPS

(* The pool: nobody is in it twice, and waiting means that it is full. *)
Sound(p) ==
  /\ p \in [busy: SUBSET Requests, queue: Seq(Requests)]
  /\ Cardinality(p.busy) <= PoolMax
  /\ p.queue # <<>> => Cardinality(p.busy) = PoolMax
  /\ \A i \in 1..Len(p.queue) : p.queue[i] \notin p.busy
  /\ \A i, j \in 1..Len(p.queue) : p.queue[i] = p.queue[j] => i = j

Waiters(p) == {p.queue[i] : i \in 1..Len(p.queue)}
Members(p) == p.busy \union Waiters(p)

LEMMA ToSetWaiters == ASSUME NEW p, p.queue \in Seq(Requests) PROVE ToSet(p.queue) = Waiters(p)
  BY DEF ToSet, Waiters

LEMMA BusyFinite ==
  ASSUME NEW S \in SUBSET Requests
  PROVE  IsFiniteSet(S) /\ Cardinality(S) \in Nat
  BY BoundAssumption, FS_Subset, FS_CardinalityType

LEMMA AcquireSound ==
  ASSUME NEW p, Sound(p), NEW r \in Requests, r \notin Members(p)
  PROVE  Sound(Acquire(p, r)) /\ Members(Acquire(p, r)) = Members(p) \union {r}
  <1>1. p.busy \in SUBSET Requests /\ p.queue \in Seq(Requests)
    BY DEF Sound
  <1>2. IsFiniteSet(p.busy) /\ Cardinality(p.busy) \in Nat /\ r \notin p.busy
    BY <1>1, BusyFinite DEF Members
  <1>3. Cardinality(p.busy \union {r}) = Cardinality(p.busy) + 1
    BY <1>2, FS_AddElement
  <1>4. CASE Cardinality(p.busy) < PoolMax
    <2>1. Acquire(p, r).busy = p.busy \union {r} /\ Acquire(p, r).queue = p.queue
          /\ Acquire(p, r) \in [busy: SUBSET Requests, queue: Seq(Requests)]
      BY <1>1, <1>4 DEF Acquire, Sound
    <2>2. p.queue = <<>>
      BY <1>2, <1>4, BoundAssumption DEF Sound
    <2> QED BY <1>1, <1>2, <1>3, <1>4, <2>1, <2>2, BoundAssumption DEF Sound, Members, Waiters
  <1>5. CASE ~(Cardinality(p.busy) < PoolMax)
    <2>1. Acquire(p, r).busy = p.busy /\ Acquire(p, r).queue = Append(p.queue, r)
          /\ Acquire(p, r) \in [busy: SUBSET Requests, queue: Seq(Requests)]
      BY <1>1, <1>5 DEF Acquire, Sound
    <2>2. Cardinality(p.busy) = PoolMax
      BY <1>2, <1>5, BoundAssumption DEF Sound
    <2>3. /\ Len(Append(p.queue, r)) = Len(p.queue) + 1 /\ Len(p.queue) \in Nat
          /\ Append(p.queue, r)[Len(p.queue) + 1] = r
          /\ \A i \in 1..Len(p.queue) : Append(p.queue, r)[i] = p.queue[i]
      BY <1>1
    <2>4. \A i \in 1..Len(p.queue) : p.queue[i] # r
      BY DEF Members, Waiters
    <2>5. \A i, j \in 1..Len(Append(p.queue, r)) : Append(p.queue, r)[i] = Append(p.queue, r)[j] => i = j
      BY <2>3, <2>4 DEF Sound
    <2>6. \A i \in 1..Len(Append(p.queue, r)) : Append(p.queue, r)[i] \notin p.busy
      BY <1>2, <2>3 DEF Sound
    <2>7. Sound(Acquire(p, r))
      BY <2>1, <2>2, <2>5, <2>6 DEF Sound
    <2>8. Waiters(Acquire(p, r)) = Waiters(p) \union {r}
      BY <2>1, <2>3 DEF Waiters
    <2> QED BY <2>1, <2>7, <2>8 DEF Members
  <1> QED BY <1>4, <1>5

LEMMA ReleaseSound ==
  ASSUME NEW p, Sound(p), NEW r \in p.busy
  PROVE  Sound(Release(p, r)) /\ Members(Release(p, r)) = Members(p) \ {r}
  <1>1. p.busy \in SUBSET Requests /\ p.queue \in Seq(Requests)
    BY DEF Sound
  <1>2. IsFiniteSet(p.busy) /\ Cardinality(p.busy) \in Nat
    BY <1>1, BusyFinite
  <1>3. IsFiniteSet(p.busy \ {r}) /\ Cardinality(p.busy \ {r}) = Cardinality(p.busy) - 1
    BY <1>2, FS_RemoveElement
  <1>4. CASE p.queue = <<>>
    <2>1. Release(p, r).busy = p.busy \ {r} /\ Release(p, r).queue = p.queue
          /\ Release(p, r) \in [busy: SUBSET Requests, queue: Seq(Requests)]
      BY <1>1, <1>4 DEF Release, Sound
    <2> QED BY <1>1, <1>2, <1>3, <1>4, <2>1, BoundAssumption DEF Sound, Members, Waiters
  <1>5. CASE p.queue # <<>>
    <2>1. Release(p, r).busy = (p.busy \ {r}) \union {Head(p.queue)} /\ Release(p, r).queue = Tail(p.queue)
      BY <1>5 DEF Release
    <2>2. /\ Len(p.queue) \in Nat \ {0} /\ Head(p.queue) = p.queue[1]
          /\ Tail(p.queue) \in Seq(Requests) /\ Len(Tail(p.queue)) = Len(p.queue) - 1
          /\ \A i \in 1..Len(Tail(p.queue)) : Tail(p.queue)[i] = p.queue[i + 1]
      BY <1>1, <1>5
    <2>3. Head(p.queue) \in Requests /\ Head(p.queue) \notin p.busy
      BY <1>1, <2>2 DEF Sound
    <2>4. Cardinality(Release(p, r).busy) = Cardinality(p.busy)
      <3>1. Head(p.queue) \notin p.busy \ {r}
        BY <2>3
      <3>2. Cardinality((p.busy \ {r}) \union {Head(p.queue)}) = Cardinality(p.busy \ {r}) + 1
        BY <1>3, <3>1, FS_AddElement
      <3> QED BY <1>2, <1>3, <2>1, <3>2
    <2>5. Release(p, r) \in [busy: SUBSET Requests, queue: Seq(Requests)]
      BY <1>1, <1>5, <2>2, <2>3 DEF Release
    <2>6. \A i \in 1..Len(Tail(p.queue)) : Tail(p.queue)[i] \notin (p.busy \ {r}) \union {Head(p.queue)}
      BY <2>2 DEF Sound
    <2>7. \A i, j \in 1..Len(Tail(p.queue)) : Tail(p.queue)[i] = Tail(p.queue)[j] => i = j
      BY <2>2 DEF Sound
    <2>8. Cardinality(p.busy) = PoolMax
      BY <1>5 DEF Sound
    <2>9. Sound(Release(p, r))
      BY <2>1, <2>4, <2>5, <2>6, <2>7, <2>8, BoundAssumption DEF Sound
    <2>10. Waiters(p) = Waiters(Release(p, r)) \union {Head(p.queue)}
      <3>1. ASSUME NEW w \in Waiters(p), w # Head(p.queue) PROVE w \in Waiters(Release(p, r))
        <4>1. PICK i \in 1..Len(p.queue) : w = p.queue[i]
          BY <3>1 DEF Waiters
        <4>2. i - 1 \in 1..Len(Tail(p.queue)) /\ Tail(p.queue)[i - 1] = w
          BY <2>2, <3>1, <4>1
        <4> QED BY <2>1, <4>2 DEF Waiters
      <3>2. ASSUME NEW w \in Waiters(Release(p, r)) PROVE w \in Waiters(p)
        <4>1. PICK i \in 1..Len(Tail(p.queue)) : w = Tail(p.queue)[i]
          BY <2>1 DEF Waiters
        <4>2. i + 1 \in 1..Len(p.queue) /\ p.queue[i + 1] = w
          BY <2>2, <4>1
        <4> QED BY <4>2 DEF Waiters
      <3>3. Head(p.queue) \in Waiters(p)
        BY <2>2 DEF Waiters
      <3> QED BY <3>1, <3>2, <3>3
    <2>11. r \notin Waiters(p)
      BY DEF Waiters, Sound
    <2> QED BY <2>1, <2>9, <2>10, <2>11 DEF Members
  <1> QED BY <1>4, <1>5

LEMMA GiveUpSound ==
  ASSUME NEW p, Sound(p), NEW r, NEW i \in Places(p, r)
  PROVE  /\ Sound(GiveUp(p, i)) /\ Members(GiveUp(p, i)) = Members(p) \ {r}
         /\ r \in Members(p)
  <1>1. p.busy \in SUBSET Requests /\ p.queue \in Seq(Requests)
    BY DEF Sound
  <1>2. i \in 1..Len(p.queue) /\ p.queue[i] = r /\ Len(p.queue) \in Nat
    BY <1>1 DEF Places
  <1> DEFINE q == RemoveAt(p.queue, i)
  <1>3. /\ q \in Seq(Requests) /\ Len(q) = Len(p.queue) - 1
        /\ \A k \in 1..Len(q) : q[k] = p.queue[IF k < i THEN k ELSE k + 1]
    <2> DEFINE left == SubSeq(p.queue, 1, i - 1)
               right == SubSeq(p.queue, i + 1, Len(p.queue))
    <2>1. /\ left \in Seq(Requests) /\ Len(left) = i - 1
          /\ \A k \in 1..(i - 1) : left[k] = p.queue[k]
      BY <1>1, <1>2, SubSeqProperties
    <2>2. /\ right \in Seq(Requests) /\ Len(right) = Len(p.queue) - i
          /\ \A k \in 1..(Len(p.queue) - i) : right[k] = p.queue[i + k]
      BY <1>1, <1>2, SubSeqProperties
    <2>3. q = left \o right
      BY DEF RemoveAt
    <2> HIDE DEF left, right
    <2>4. /\ q \in Seq(Requests) /\ Len(q) = Len(left) + Len(right)
          /\ \A k \in 1..Len(q) : q[k] = IF k <= Len(left) THEN left[k] ELSE right[k - Len(left)]
      BY <2>1, <2>2, <2>3, ConcatProperties
    <2>5. ASSUME NEW k \in 1..Len(q) PROVE q[k] = p.queue[IF k < i THEN k ELSE k + 1]
      <3>1. CASE k < i
        BY <1>2, <2>1, <2>2, <2>4, <3>1
      <3>2. CASE ~(k < i)
        <4>1. q[k] = right[k - (i - 1)] /\ k - (i - 1) \in 1..(Len(p.queue) - i)
          BY <1>2, <2>1, <2>2, <2>4, <3>2
        <4>2. i + (k - (i - 1)) = k + 1
          BY <1>2, <2>1, <2>2, <2>4
        <4> QED BY <2>2, <3>2, <4>1, <4>2
      <3> QED BY <3>1, <3>2
    <2> QED BY <1>2, <2>1, <2>2, <2>4, <2>5
  <1>4. GiveUp(p, i).busy = p.busy /\ GiveUp(p, i).queue = q
        /\ GiveUp(p, i) \in [busy: SUBSET Requests, queue: Seq(Requests)]
    BY <1>1, <1>3 DEF GiveUp, Sound
  <1> HIDE DEF q
  <1>5. \A k \in 1..Len(q) : (IF k < i THEN k ELSE k + 1) \in 1..Len(p.queue)
    BY <1>2, <1>3
  <1>6. \A k \in 1..Len(q) : q[k] \notin p.busy
    BY <1>3, <1>5 DEF Sound
  <1>7. \A k, l \in 1..Len(q) : q[k] = q[l] => k = l
    <2> SUFFICES ASSUME NEW k \in 1..Len(q), NEW l \in 1..Len(q), q[k] = q[l] PROVE k = l
      OBVIOUS
    <2>1. (IF k < i THEN k ELSE k + 1) = (IF l < i THEN l ELSE l + 1)
      BY <1>3, <1>5 DEF Sound
    <2> QED BY <1>2, <2>1
  <1>8. p.queue # <<>>
    BY <1>2
  <1>9. Sound(GiveUp(p, i))
    BY <1>4, <1>6, <1>7, <1>8 DEF Sound
  <1>10. Waiters(GiveUp(p, i)) = Waiters(p) \ {r}
    <2>1. ASSUME NEW w \in Waiters(p), w # r PROVE w \in Waiters(GiveUp(p, i))
      <3>1. PICK k \in 1..Len(p.queue) : w = p.queue[k]
        BY DEF Waiters
      <3>2. k # i
        BY <1>2, <2>1, <3>1
      <3>3. (IF k < i THEN k ELSE k - 1) \in 1..Len(q) /\ q[IF k < i THEN k ELSE k - 1] = w
        BY <1>2, <1>3, <3>1, <3>2
      <3> QED BY <1>4, <3>3 DEF Waiters
    <2>2. ASSUME NEW w \in Waiters(GiveUp(p, i)) PROVE w \in Waiters(p) \ {r}
      <3>1. PICK k \in 1..Len(q) : w = q[k]
        BY <1>4 DEF Waiters
      <3>2. PICK l \in 1..Len(p.queue) : w = p.queue[l] /\ l # i
        BY <1>2, <1>3, <1>5, <3>1
      <3>3. w # r
        BY <1>2, <3>2 DEF Sound
      <3> QED BY <3>2, <3>3 DEF Waiters
    <2> QED BY <2>1, <2>2, <1>2 DEF Waiters
  <1>11. r \notin p.busy /\ r \in Waiters(p)
    BY <1>2 DEF Sound, Waiters
  <1> QED BY <1>4, <1>9, <1>10, <1>11 DEF Members

-----------------------------------------------------------------------------
Querying == {"credentials", "invoices", "customer", "catalog", "insert", "ping", "gateway"}
Awaits == Querying \union {"idle", "fault", "session", "up", "down", "answered", "done"}

Typed ==
  /\ at \in [Requests -> Awaits] /\ form \in [Requests -> Forms \union {None}]
  /\ sub \in [Requests -> Customers \union {None}] /\ code \in [Requests -> Codes \union {None}]
  /\ redisUp \in [Requests -> BOOLEAN \union {None}]
  /\ token \in [Requests -> Tokens \union {None}] /\ change \in [Requests -> ChangeIds \union {None}]
  /\ session \in [Customers -> Nat] /\ issued \subseteq Tokens
  /\ business \in [scheduled: Nat, rejected: Nat, success: Nat, failed: Nat]
  /\ responses \in [Business -> Nat]
  /\ now \in Nat /\ failures \in Nat

(* What the await a handler is in says of its locals. *)
Local(r) ==
  /\ at[r] \notin {"idle", "done"} => form[r] \in Forms
  /\ at[r] = "fault" => form[r].route \in Faultable
  /\ at[r] \in {"credentials", "session"} => form[r].route = "login"
  /\ at[r] = "invoices" => form[r].route = "invoices"
  /\ at[r] \in {"customer", "catalog", "insert"} => form[r].route = "plan_change" /\ sub[r] = form[r].who
  /\ at[r] \in {"catalog", "insert"} => form[r].who \in Known
  /\ at[r] = "insert" => Eligible(r)
  /\ at[r] = "gateway" => form[r].route = "payment"
  /\ at[r] \in {"ping", "up", "down"} => form[r].route = "health"
  /\ at[r] = "session" => token[r] # None /\ token[r].sub = form[r].who
  /\ code[r] # None <=> at[r] = "answered"

Pooled == Sound(pool) /\ \A r \in Members(pool) : at[r] \in Querying

Step(r) == Arrive(r) \/ Advance(r) \/ EndPayment(r) \/ QueryFails(r) \/ TimeOut(r)

(* A step of one request leaves the locals of every other alone. *)
LEMMA StepsAlone ==
  ASSUME Typed, NEW r \in Requests, Step(r), NEW q \in Requests, q # r
  PROVE  /\ at'[q] = at[q] /\ form'[q] = form[q] /\ sub'[q] = sub[q] /\ code'[q] = code[q]
         /\ redisUp'[q] = redisUp[q] /\ token'[q] = token[q] /\ change'[q] = change[q]
  <1>1. CASE Arrive(r)
    BY <1>1 DEF Arrive, Answer, Enter, Goto, Typed
  <1>2. CASE LeaveFault(r) \/ CheckCredentials(r) \/ StoreSession(r) \/ ListInvoices(r) \/ LoadCustomer(r)
    BY <1>2 DEF LeaveFault, CheckCredentials, StoreSession, ListInvoices, LoadCustomer, Answer, Enter,
                Finish, Goto, asked, Typed
  <1>3. CASE CheckCatalog(r) \/ InsertChange(r) \/ EndPayment(r)
    BY <1>3 DEF CheckCatalog, InsertChange, EndPayment, Answer, Enter, Finish, Goto, asked, Typed
  <1>4. CASE PingDatabase(r) \/ PingRedis(r) \/ ReportHealth(r)
    BY <1>4 DEF PingDatabase, PingRedis, ReportHealth, Answer, Goto, asked, Typed
  <1>5. CASE QueryFails(r) \/ TimeOut(r) \/ CountResponse(r)
    BY <1>5 DEF QueryFails, TimeOut, CountResponse, Reject, Answer, Goto, asked, Typed
  <1> QED BY <1>1, <1>2, <1>3, <1>4, <1>5 DEF Step, Advance

LEMMA TypedPreserved ==
  ASSUME Typed, \A q \in Requests : Local(q), NEW r \in Requests, Step(r)
  PROVE  Typed'
  <1>0. Codes \subseteq Nat /\ TokenTtl \in Nat
    BY BoundAssumption DEF Codes
  <1>1. CASE Arrive(r)
    <2> PICK f \in Forms, t \in {None} \union issued :
          /\ form' = [form EXCEPT ![r] = f]
          /\ sub' = [sub EXCEPT ![r] = IF Authentic(t) THEN t.sub ELSE None]
          /\ \/ Refusal(f, t) # None /\ Answer(r, Refusal(f, t)) /\ UNCHANGED pool
             \/ /\ Refusal(f, t) = None
                /\ \/ f.route \in Faultable /\ Goto(r, "fault") /\ UNCHANGED <<code, pool>>
                   \/ f.route \notin Faultable /\ Enter(r, FirstQuery[f.route], pool)
      BY <1>1 DEF Arrive
    <2>1. UNCHANGED <<redisUp, token, change, stores, counters, now, failures>>
      BY <1>1 DEF Arrive
    <2>2. (IF Authentic(t) THEN t.sub ELSE None) \in Customers \union {None}
      BY DEF Typed, Authentic, Tokens
    <2>3. Refusal(f, t) # None => Refusal(f, t) \in Codes
      BY DEF Refusal, Codes
    <2>4. f.route \notin Faultable => FirstQuery[f.route] \in Awaits
      BY TableAssumption DEF FirstQuery, Routes, Protected, Faultable, Awaits, Querying
    <2>5. at' \in [Requests -> Awaits] /\ code' \in [Requests -> Codes \union {None}]
      BY <2>3, <2>4 DEF Answer, Enter, Goto, Typed, Awaits
    <2> QED BY <2>1, <2>2, <2>5 DEF Typed, stores, counters
  <1>2. CASE LeaveFault(r)
    <2>1. ~Foreign(r) => FirstQuery[form[r].route] \in Awaits
      BY <1>2, TableAssumption DEF LeaveFault, Local, FirstQuery, Faultable, Awaits, Querying
    <2> QED BY <1>2, <2>1 DEF LeaveFault, Answer, Enter, Goto, Typed, Codes, Awaits, stores, counters
  <1>3. CASE CheckCredentials(r)
    <2>1. [sub |-> form[r].who, exp |-> now + TokenTtl] \in Tokens
      BY <1>0, <1>3, TableAssumption DEF CheckCredentials, Answered, Local, Tokens, Typed
    <2> QED BY <1>3, <2>1 DEF CheckCredentials, Finish, Answer, Goto, Bump, Typed, Codes, Awaits,
                              asked, stores, world
  <1>4. CASE StoreSession(r)
    <2>1. session' \in [Customers -> Nat] /\ issued' \subseteq Tokens
      <3>1. token[r] \in Tokens
        BY <1>4 DEF StoreSession, Local, Typed
      <3>2. now + TokenTtl \in Nat
        BY <1>0 DEF Typed
      <3> QED BY <1>4, <3>1, <3>2 DEF StoreSession, SessionExpiry, Typed
    <2> QED BY <1>4, <2>1 DEF StoreSession, Answer, Goto, Bump, Typed, Codes, Awaits, asked, world
  <1>5. CASE ListInvoices(r) \/ LoadCustomer(r) \/ CheckCatalog(r) \/ EndPayment(r)
    BY <1>5 DEF ListInvoices, LoadCustomer, CheckCatalog, EndPayment, CountVerdict, Finish, Answer, Enter, Goto,
                Bump, Typed, Codes, Awaits, Querying, asked, stores, world
  <1>6. CASE InsertChange(r)
    <2>1. PICK id \in ChangeIds :
            \/ /\ Bump("scheduled") /\ change' = [change EXCEPT ![r] = id]
               /\ Finish(r, 202) /\ UNCHANGED failures
            \/ /\ failures' \in {failures, failures + 1} /\ Finish(r, 500)
               /\ UNCHANGED <<business, change>>
      BY <1>6 DEF InsertChange
    <2>2. UNCHANGED <<asked, token, session, issued, world>>
      BY <1>6 DEF InsertChange
    <2>3. /\ failures' \in Nat /\ change' \in [Requests -> ChangeIds \union {None}]
          /\ business' \in [scheduled: Nat, rejected: Nat, success: Nat, failed: Nat]
      BY <2>1 DEF Bump, Typed
    <2>4. at' \in [Requests -> Awaits] /\ code' \in [Requests -> Codes \union {None}]
      BY <2>1 DEF Finish, Answer, Goto, Typed, Codes, Awaits
    <2> QED BY <2>2, <2>3, <2>4 DEF Typed, asked, world
  <1>7. CASE PingDatabase(r) \/ PingRedis(r) \/ ReportHealth(r)
    <2>1. CASE PingDatabase(r) \/ ReportHealth(r)
      BY <2>1 DEF PingDatabase, ReportHealth, Answer, Goto, Typed, Codes, Awaits, asked, stores, world
    <2>2. CASE PingRedis(r)
      <3>1. PICK answer \in BOOLEAN \union {None} : redisUp' = [redisUp EXCEPT ![r] = answer]
        BY <2>2 DEF PingRedis
      <3>2. redisUp' \in [Requests -> BOOLEAN \union {None}] /\ failures' \in Nat
        BY <2>2, <3>1 DEF PingRedis, Typed
      <3> QED BY <2>2, <3>2 DEF PingRedis, Typed, stores, world
    <2> QED BY <1>7, <2>1, <2>2
  <1>8. CASE QueryFails(r) \/ TimeOut(r)
    BY <1>8 DEF QueryFails, TimeOut, Reject, Answer, Goto, Typed, Codes, Awaits, asked, stores, world
  <1>9. CASE CountResponse(r)
    BY <1>9 DEF CountResponse, Goto, Typed, Awaits, stores
  <1> QED BY <1>1, <1>2, <1>3, <1>4, <1>5, <1>6, <1>7, <1>8, <1>9 DEF Step, Advance

(* The locals of the request that moves; the others keep theirs by StepsAlone. *)
LEMMA LocalPreserved ==
  ASSUME Typed, \A p \in Requests : Local(p), Pooled, NEW r \in Requests, Step(r), NEW q \in Requests
  PROVE  Local(q)'
  <1>0. None \notin Codes /\ None \notin Forms /\ None \notin Customers
    BY NoneAssumption
  <1>1. CASE q # r
    BY <1>1, StepsAlone DEF Local, Eligible
  <1>2. CASE q = r /\ Arrive(r)
    <2> PICK f \in Forms, t \in {None} \union issued :
          /\ form' = [form EXCEPT ![r] = f]
          /\ \/ Refusal(f, t) # None /\ Answer(r, Refusal(f, t)) /\ UNCHANGED pool
             \/ /\ Refusal(f, t) = None
                /\ \/ f.route \in Faultable /\ Goto(r, "fault") /\ UNCHANGED <<code, pool>>
                   \/ f.route \notin Faultable /\ Enter(r, FirstQuery[f.route], pool)
      BY <1>2 DEF Arrive
    <2>1. form'[r] = f /\ at[r] = "idle" /\ code[r] = None
      BY <1>2 DEF Arrive, Typed, Local
    <2>2. CASE Refusal(f, t) # None
      BY <1>2, <2>1, <2>2 DEF Answer, Goto, Typed, Local
    <2>3. CASE Refusal(f, t) = None /\ f.route \in Faultable
      BY <1>2, <2>1, <2>3 DEF Goto, Typed, Local
    <2>4. CASE Refusal(f, t) = None /\ f.route \notin Faultable
      <3>1. \/ f.route = "health" /\ FirstQuery[f.route] = "ping"
            \/ f.route = "payment" /\ FirstQuery[f.route] = "gateway"
        BY <2>4, TableAssumption DEF FirstQuery, Routes, Protected, Faultable
      <3> QED BY <1>2, <2>1, <2>4, <3>1 DEF Enter, Goto, Typed, Local
    <2> QED BY <2>2, <2>3, <2>4
  <1>3. CASE q = r /\ LeaveFault(r)
    <2>1. form'[r] = form[r] /\ sub'[r] = sub[r] /\ form[r] \in Forms /\ form[r].route \in Faultable
          /\ code[r] = None
      BY <1>3 DEF LeaveFault, Local, Typed
    <2>2. CASE at'[r] = "answered"
      BY <1>0, <1>3, <2>1, <2>2
        DEF LeaveFault, Answer, Enter, Goto, Local, Typed, Codes, FirstQuery, Faultable
    <2>3. CASE at'[r] # "answered"
      <3>1. ~Foreign(r) /\ Enter(r, FirstQuery[form[r].route], pool)
        BY <1>3, <2>3 DEF LeaveFault, Answer, Goto, Typed
      <3>2. \/ form[r].route = "login" /\ at'[r] = "credentials"
            \/ form[r].route = "invoices" /\ at'[r] = "invoices"
            \/ form[r].route = "plan_change" /\ at'[r] = "customer" /\ sub[r] = form[r].who
        BY <2>1, <3>1 DEF Enter, Goto, Foreign, Protected, FirstQuery, Faultable, Typed
      <3> QED BY <1>3, <2>1, <3>1, <3>2 DEF Enter, Local, Typed
    <2> QED BY <2>2, <2>3
  <1>4. CASE q = r /\ CheckCredentials(r)
    <2>1. form'[r] = form[r] /\ at[r] = "credentials" /\ form[r] \in Forms /\ form[r].route = "login"
          /\ code[r] = None
      BY <1>4 DEF CheckCredentials, Answered, asked, Local, Typed
    <2>2. CASE at'[r] = "session"
      <3>1. token' = [token EXCEPT ![r] = [sub |-> form[r].who, exp |-> now + TokenTtl]] /\ UNCHANGED code
        BY <1>4, <2>2 DEF CheckCredentials, Finish, Answer, Goto, Typed
      <3>2. token'[r] = [sub |-> form[r].who, exp |-> now + TokenTtl]
        BY <3>1 DEF Typed
      <3>3. token'[r] # None
        BY <2>1, <3>2, NoneAssumption, BoundAssumption, TableAssumption DEF Tokens, Typed
      <3> QED BY <1>4, <2>1, <2>2, <3>1, <3>2, <3>3 DEF Local
    <2>3. CASE at'[r] # "session"
      BY <1>0, <1>4, <2>1, <2>3 DEF CheckCredentials, Finish, Answer, Goto, Local, Typed, Codes
    <2> QED BY <2>2, <2>3
  <1>5. CASE q = r /\ (LoadCustomer(r) \/ CheckCatalog(r))
    BY <1>0, <1>5 DEF LoadCustomer, CheckCatalog, Answered, Finish, Answer, Enter, Goto, Local, Eligible, Typed,
                      Codes, asked
  <1>6. CASE q = r /\ (StoreSession(r) \/ ListInvoices(r) \/ InsertChange(r) \/ EndPayment(r))
    BY <1>0, <1>6 DEF StoreSession, ListInvoices, InsertChange, EndPayment, Answered, Finish, Answer, Goto, Local,
                      Typed, Codes, asked
  <1>7. CASE q = r /\ (PingDatabase(r) \/ PingRedis(r) \/ ReportHealth(r))
    BY <1>0, <1>7 DEF PingDatabase, PingRedis, ReportHealth, Answered, Answer, Goto, Local, Eligible, Typed, Codes,
                      asked
  <1>8. CASE q = r /\ (QueryFails(r) \/ TimeOut(r))
    <2>1. at[r] \in Querying \union {"session"}
      BY <1>8, GiveUpSound DEF QueryFails, TimeOut, Pooled, Members
    <2> QED BY <1>0, <1>8, <2>1 DEF QueryFails, TimeOut, Reject, Answer, Goto, Local, Typed, Codes, asked, Querying
  <1>9. CASE q = r /\ CountResponse(r)
    BY <1>9 DEF CountResponse, Goto, Local, Typed
  <1> QED BY <1>1, <1>2, <1>3, <1>4, <1>5, <1>6, <1>7, <1>8, <1>9 DEF Step, Advance

(* Who comes to the pool was not in it and asks a query; who leaves it was. *)
LEMMA EnterPooled ==
  ASSUME Typed, Pooled, NEW r \in Requests, r \notin Members(pool),
         NEW await \in Querying, Enter(r, await, pool)
  PROVE  Pooled'
  <1>1. Sound(pool') /\ Members(pool') = Members(pool) \union {r}
    BY AcquireSound DEF Enter, Pooled
  <1>2. \A q \in Requests : at'[q] = IF q = r THEN await ELSE at[q]
    BY DEF Enter, Goto, Typed
  <1>3. Members(pool) \subseteq Requests
    BY DEF Pooled, Sound, Members, Waiters
  <1> QED BY <1>1, <1>2, <1>3 DEF Pooled, Sound, Members, Waiters

LEMMA MovePooled ==
  ASSUME Typed, Pooled, NEW r \in Requests,
         \/ r \notin Members(pool) /\ pool' = pool
         \/ r \in pool.busy /\ pool' = Release(pool, r)
         \/ \E i \in Places(pool, r) : pool' = GiveUp(pool, i),
         \A q \in Requests : q # r => at'[q] = at[q]
  PROVE  Pooled'
  <1>1. Sound(pool') /\ Members(pool') = Members(pool) \ {r}
    BY ReleaseSound, GiveUpSound DEF Pooled
  <1>2. Members(pool) \subseteq Requests
    BY DEF Pooled, Sound, Members, Waiters
  <1> QED BY <1>1, <1>2 DEF Pooled, Sound, Members, Waiters

(* A handler that goes on to its next query gives the connection back and queues again. *)
LEMMA RequeuePooled ==
  ASSUME Typed, Pooled, NEW r \in pool.busy,
         NEW await \in Querying, Enter(r, await, Release(pool, r))
  PROVE  Pooled'
  <1>1. Sound(Release(pool, r)) /\ Members(Release(pool, r)) = Members(pool) \ {r}
    BY ReleaseSound DEF Pooled
  <1>2. r \in Requests /\ Members(pool) \subseteq Requests
    BY DEF Pooled, Sound, Members, Waiters
  <1>3. Sound(pool') /\ Members(pool') = Members(pool) \union {r}
    BY <1>1, <1>2, AcquireSound DEF Enter, Members
  <1>4. \A q \in Requests : at'[q] = IF q = r THEN await ELSE at[q]
    BY DEF Enter, Goto, Typed
  <1> QED BY <1>2, <1>3, <1>4 DEF Pooled, Sound, Members, Waiters

LEMMA PooledPreserved ==
  ASSUME Typed, Pooled, \A q \in Requests : Local(q), NEW r \in Requests, Step(r)
  PROVE  Pooled'
  <1>0. /\ \A q \in Requests : q # r => at'[q] = at[q]
        /\ at[r] \notin Querying => r \notin Members(pool)
    BY StepsAlone DEF Pooled
  <1>1. CASE Arrive(r)
    <2> PICK f \in Forms : \/ UNCHANGED pool
                           \/ f.route \notin Faultable /\ Enter(r, FirstQuery[f.route], pool)
      BY <1>1 DEF Arrive
    <2>1. r \notin Members(pool)
      BY <1>0, <1>1 DEF Arrive, Querying
    <2>2. f.route \notin Faultable => FirstQuery[f.route] \in Querying
      BY TableAssumption DEF FirstQuery, Routes, Protected, Faultable, Querying
    <2> QED BY <1>0, <2>1, <2>2, EnterPooled, MovePooled
  <1>2. CASE LeaveFault(r)
    <2>1. r \notin Members(pool)
      BY <1>0, <1>2 DEF LeaveFault, Querying
    <2>2. FirstQuery[form[r].route] \in Querying
      BY <1>2, TableAssumption DEF LeaveFault, Local, FirstQuery, Faultable, Querying
    <2>3. UNCHANGED pool \/ Enter(r, FirstQuery[form[r].route], pool)
      BY <1>2 DEF LeaveFault
    <2> QED BY <1>0, <2>1, <2>2, <2>3, EnterPooled, MovePooled
  <1>3. CASE StoreSession(r) \/ ReportHealth(r) \/ CountResponse(r)
    <2>1. r \notin Members(pool) /\ UNCHANGED pool
      BY <1>0, <1>3 DEF StoreSession, ReportHealth, CountResponse, Querying
    <2> QED BY <1>0, <2>1, MovePooled
  <1>4. CASE LoadCustomer(r) \/ CheckCatalog(r)
    <2>1. /\ r \in pool.busy
          /\ \/ Enter(r, "catalog", Release(pool, r)) \/ Enter(r, "insert", Release(pool, r))
             \/ pool' = Release(pool, r)
      BY <1>4 DEF LoadCustomer, CheckCatalog, Answered, Finish
    <2> QED BY <1>0, <2>1, RequeuePooled, MovePooled DEF Querying
  <1>5. CASE CheckCredentials(r) \/ ListInvoices(r) \/ InsertChange(r) \/ EndPayment(r) \/ PingDatabase(r)
    <2>1. r \in pool.busy /\ pool' = Release(pool, r)
      BY <1>5 DEF CheckCredentials, ListInvoices, InsertChange, EndPayment, PingDatabase, Answered, Finish
    <2> QED BY <1>0, <2>1, MovePooled
  <1>6. CASE PingRedis(r)
    BY <1>6 DEF PingRedis, Pooled
  <1>7. CASE QueryFails(r) \/ TimeOut(r)
    <2>1. \/ r \notin Members(pool) /\ pool' = pool
          \/ r \in pool.busy /\ pool' = Release(pool, r)
          \/ \E i \in Places(pool, r) : pool' = GiveUp(pool, i)
      BY <1>0, <1>7 DEF QueryFails, TimeOut, Querying
    <2> QED BY <1>0, <2>1, MovePooled
  <1> QED BY <1>1, <1>2, <1>3, <1>4, <1>5, <1>6, <1>7 DEF Step, Advance

-----------------------------------------------------------------------------
(* A token is as old as its login, a session as young as the last write: the entry of a
   customer outlives every token of hers.  And whoever acts holds, or held, a token. *)
Authenticated ==
  /\ \A r \in Requests : token[r] # None => token[r].exp <= now + TokenTtl
  /\ \A c \in Customers : session[c] <= now + TokenTtl
  /\ \A t \in issued : t.exp <= session[t.sub]
  /\ \A r \in Requests : sub[r] # None => \E t \in issued : t.sub = sub[r]
  /\ OnlyTheOwnerSchedules

LEMMA AuthenticatedPreserved ==
  ASSUME Typed, \A q \in Requests : Local(q), Authenticated, NEW r \in Requests, Step(r)
  PROVE  Authenticated'
  <1>0. TokenTtl \in Nat /\ now \in Nat /\ now' = now
    BY BoundAssumption
      DEF Typed, Step, Advance, Arrive, LeaveFault, CheckCredentials, StoreSession, ListInvoices, LoadCustomer,
          CheckCatalog, InsertChange, EndPayment, PingDatabase, PingRedis, ReportHealth, CountResponse, QueryFails,
          TimeOut, world
  <1>1. CASE Arrive(r)
    <2>1. UNCHANGED <<token, session, issued, changes>>
      BY <1>1 DEF Arrive, stores
    <2>2. PICK t \in {None} \union issued :
            sub' = [sub EXCEPT ![r] = IF Authentic(t) THEN t.sub ELSE None]
      BY <1>1 DEF Arrive
    <2>3. \A q \in Requests : sub'[q] # None => \E u \in issued : u.sub = sub'[q]
      BY <2>2 DEF Authenticated, Authentic, Typed
    <2> QED BY <1>0, <2>1, <2>3 DEF Authenticated, OnlyTheOwnerSchedules
  <1>2. CASE CheckCredentials(r)
    <2>1. UNCHANGED <<sub, session, issued, changes>>
      BY <1>2 DEF CheckCredentials, asked, stores
    <2>2. \/ token' = token
          \/ token' = [token EXCEPT ![r] = [sub |-> form[r].who, exp |-> now + TokenTtl]]
      BY <1>2 DEF CheckCredentials
    <2>3. \A q \in Requests : token'[q] = token[q] \/ token'[q].exp = now + TokenTtl
      BY <2>2 DEF Typed
    <2>4. \A q \in Requests : token'[q] # None => token'[q].exp <= now + TokenTtl
      BY <1>0, <2>3 DEF Authenticated
    <2> QED BY <1>0, <2>1, <2>4 DEF Authenticated, OnlyTheOwnerSchedules
  <1>3. CASE StoreSession(r)
    <2>1. /\ UNCHANGED <<sub, token, changes>> /\ issued' = issued \union {token[r]}
          /\ session' = [session EXCEPT ![form[r].who] = now + TokenTtl]
          /\ token[r] \in Tokens /\ token[r].sub = form[r].who /\ token[r].exp <= now + TokenTtl
      BY <1>3 DEF StoreSession, SessionExpiry, asked, Local, Typed, Authenticated
    <2>2. ASSUME NEW c \in Customers
          PROVE  session'[c] <= now + TokenTtl /\ session[c] <= session'[c]
      BY <1>0, <2>1 DEF Authenticated, Typed
    <2>3. ASSUME NEW t \in issued' PROVE t.exp <= session'[t.sub]
      <3>1. CASE t \in issued
        <4>1. t \in Tokens /\ t.exp \in Nat /\ t.sub \in Customers
          BY <3>1 DEF Typed, Tokens
        <4>2. session[t.sub] \in Nat /\ session'[t.sub] \in Nat
          BY <1>0, <2>1, <4>1 DEF Typed
        <4> QED BY <2>2, <3>1, <4>1, <4>2 DEF Authenticated
      <3>2. CASE t = token[r]
        <4>1. session'[t.sub] = now + TokenTtl
          BY <2>1, <3>2 DEF Typed, Tokens
        <4> QED BY <2>1, <3>2, <4>1
      <3> QED BY <2>1, <3>1, <3>2
    <2> QED BY <1>0, <2>1, <2>2, <2>3 DEF Authenticated, OnlyTheOwnerSchedules
  <1>4. CASE InsertChange(r)
    <2>1. UNCHANGED <<sub, token, session, issued>>
      BY <1>4 DEF InsertChange, asked
    <2>2. ASSUME NEW c \in changes'
          PROVE  c \in changes \/ (c.customer = sub[r] /\ c.auth = sub[r] /\ sub[r] # None)
      <3>1. form[r].who = sub[r] /\ form[r].who \in Customers
        BY <1>4, TableAssumption DEF InsertChange, Answered, Local, Typed
      <3>2. c \in changes \/ \E id \in ChangeIds : c = Row(r, id)
        BY <1>4 DEF InsertChange
      <3> QED BY <3>1, <3>2, NoneAssumption DEF Row
    <2> QED BY <1>0, <2>1, <2>2 DEF Authenticated, OnlyTheOwnerSchedules
  <1>5. CASE CountResponse(r)
    <2>1. UNCHANGED <<session, issued, changes>>
      BY <1>5 DEF CountResponse, stores
    <2>2. \A q \in Requests : sub'[q] \in {sub[q], None} /\ token'[q] \in {token[q], None}
      BY <1>5 DEF CountResponse, Typed
    <2> QED BY <1>0, <2>1, <2>2 DEF Authenticated, OnlyTheOwnerSchedules
  <1>6. CASE /\ ~Arrive(r) /\ ~CheckCredentials(r) /\ ~StoreSession(r) /\ ~InsertChange(r)
             /\ ~CountResponse(r)
    <2>1. UNCHANGED <<sub, token, session, issued, changes>>
      BY <1>6 DEF Step, Advance, LeaveFault, ListInvoices, LoadCustomer, CheckCatalog, EndPayment, PingDatabase,
                  PingRedis, ReportHealth, QueryFails, TimeOut, asked, stores
    <2> QED BY <1>0, <2>1 DEF Authenticated, OnlyTheOwnerSchedules
  <1> QED BY <1>1, <1>2, <1>3, <1>4, <1>5, <1>6

-----------------------------------------------------------------------------
(* A plan change answered 202 has its row, and no other; one that is under way or
   was refused has none.  The other rows are other requests'. *)
Backed(r) ==
  at[r] = "answered" /\ form[r].route = "plan_change" =>
    /\ code[r] = 202 => /\ Row(r, change[r]) \in changes
                       /\ \A c \in changes : c.by = r => c = Row(r, change[r])
                       /\ form[r].target # CurrentPlan[form[r].who]
    /\ code[r] \in {400, 401, 403, 404, 422, 504} => \A c \in changes : c.by # r

Written ==
  /\ changes \subseteq [id: ChangeIds, customer: Known, target: Plans, by: Requests, auth: Customers]
  /\ \A c, d \in changes : c.id = d.id => c = d
  /\ \A r \in Requests : at[r] \notin {"answered", "done"} => \A c \in changes : c.by # r
  /\ \A r \in Requests : Backed(r)

LEMMA InsertWritten ==
  ASSUME Typed, \A q \in Requests : Local(q), Written, NEW r \in Requests, InsertChange(r)
  PROVE  Written'
  <1>0. /\ at[r] = "insert" /\ at'[r] = "answered" /\ form'[r] = form[r] /\ form[r] \in Forms
        /\ sub'[r] = sub[r] /\ sub[r] \in Customers /\ form[r].who \in Known /\ Eligible(r) /\ \A c \in changes : c.by # r
    BY TableAssumption DEF InsertChange, Answered, Finish, Answer, Goto, asked, Local, Written, Typed
  <1>1. ASSUME NEW q \in Requests, q # r
        PROVE  /\ at'[q] = at[q] /\ form'[q] = form[q] /\ sub'[q] = sub[q] /\ code'[q] = code[q]
               /\ change'[q] = change[q]
    BY <1>1, StepsAlone DEF Step, Advance
  <1>2. CASE changes' = changes /\ code'[r] = 500
    <2>1. Backed(r)'
      BY <1>2 DEF Backed
    <2>2. ASSUME NEW q \in Requests, q # r PROVE Backed(q)'
      BY <1>1, <1>2, <2>2 DEF Written, Backed, Row
    <2> QED BY <1>0, <1>1, <1>2, <2>1, <2>2 DEF Written
  <1>3. CASE \E id \in ChangeIds :
               /\ ~Taken(id) /\ changes' = changes \union {Row(r, id)}
               /\ code'[r] = 500 \/ (code'[r] = 202 /\ change'[r] = id)
    <2> PICK id \in ChangeIds :
          /\ ~Taken(id) /\ changes' = changes \union {Row(r, id)}
          /\ code'[r] = 500 \/ (code'[r] = 202 /\ change'[r] = id)
      BY <1>3
    <2>1. /\ Row(r, id) \in [id: ChangeIds, customer: Known, target: Plans, by: Requests, auth: Customers]
          /\ Row(r, id).id = id /\ Row(r, id).by = r
      BY <1>0 DEF Row, Eligible
    <2>2. changes' \subseteq [id: ChangeIds, customer: Known, target: Plans, by: Requests, auth: Customers]
      BY <2>1 DEF Written
    <2>3. \A c, d \in changes' : c.id = d.id => c = d
      BY <2>1 DEF Written, Taken
    <2>4. ASSUME NEW q \in Requests, at'[q] \notin {"answered", "done"} PROVE \A c \in changes' : c.by # q
      BY <1>0, <1>1, <2>1, <2>4 DEF Written
    <2>5. Backed(r)'
      <3>1. Row(r, id)' = Row(r, id)
        BY <1>0 DEF Row
      <3>2. code'[r] = 202 => Row(r, change[r])' = Row(r, id)
        BY <1>0 DEF Row
      <3>3. \A c \in changes' : c.by = r => c = Row(r, id)
        BY <1>0
      <3> QED BY <1>0, <3>2, <3>3 DEF Backed, Eligible
    <2>6. ASSUME NEW q \in Requests, q # r PROVE Backed(q)'
      <3>1. Row(q, change[q])' = Row(q, change[q])
        BY <1>1, <2>6 DEF Row
      <3>2. \A c \in changes' : c.by = q => c \in changes
        BY <2>1, <2>6
      <3> QED BY <1>1, <2>6, <3>1, <3>2 DEF Written, Backed
    <2> QED BY <2>2, <2>3, <2>4, <2>5, <2>6 DEF Written
  <1>4. \/ changes' = changes /\ code'[r] = 500
        \/ \E id \in ChangeIds :
              /\ ~Taken(id) /\ changes' = changes \union {Row(r, id)}
              /\ code'[r] = 500 \/ (code'[r] = 202 /\ change'[r] = id)
    BY DEF InsertChange, Finish, Answer, Typed
  <1> QED BY <1>2, <1>3, <1>4

LEMMA WrittenPreserved ==
  ASSUME Typed, \A q \in Requests : Local(q), Written, Pooled, NEW r \in Requests, Step(r)
  PROVE  Written'
  <1>1. CASE InsertChange(r)
    BY <1>1, InsertWritten
  <1>2. CASE ~InsertChange(r)
    <2>1. changes' = changes /\ at[r] # "done"
      BY <1>2, GiveUpSound
         DEF Step, Advance, Arrive, LeaveFault, CheckCredentials, StoreSession, ListInvoices, LoadCustomer,
             CheckCatalog, EndPayment, PingDatabase, PingRedis, ReportHealth, CountResponse, QueryFails, TimeOut,
             Answered, stores, Pooled, Members, Querying
    <2>2. ASSUME NEW q \in Requests, q # r
          PROVE  /\ at'[q] = at[q] /\ Backed(q)'
      <3>1. /\ at'[q] = at[q] /\ form'[q] = form[q] /\ sub'[q] = sub[q] /\ code'[q] = code[q]
            /\ change'[q] = change[q]
        BY <2>2, StepsAlone
      <3> QED BY <2>1, <3>1 DEF Written, Backed, Row
    <2>3. at'[r] \notin {"answered", "done"} => at[r] \notin {"answered", "done"}
      BY <1>2, <2>1 DEF Step, Advance, Arrive, LeaveFault, CheckCredentials, StoreSession, ListInvoices, LoadCustomer,
             CheckCatalog, EndPayment, PingDatabase, PingRedis, ReportHealth, CountResponse, QueryFails, TimeOut,
             Answered, Finish, Answer, Enter, Goto, Reject, Typed
    <2>4. at'[r] = "answered" /\ form'[r].route = "plan_change" => code'[r] # 202 /\ at[r] \notin {"answered", "done"}
      <3>1. CASE Arrive(r) \/ LeaveFault(r)
        BY <3>1 DEF Arrive, LeaveFault, Answer, Enter, Goto, Refusal, Typed, Local, FirstQuery, Faultable
      <3>2. CASE CheckCredentials(r) \/ StoreSession(r) \/ ListInvoices(r) \/ EndPayment(r)
        BY <3>2 DEF CheckCredentials, StoreSession, ListInvoices, EndPayment, Answered, Finish, Answer, Goto, Typed,
                    Local, asked
      <3>3. CASE LoadCustomer(r) \/ CheckCatalog(r)
        BY <3>3 DEF LoadCustomer, CheckCatalog, Answered, Finish, Answer, Enter, Goto, Typed, Local, asked
      <3>4. CASE PingDatabase(r) \/ PingRedis(r) \/ ReportHealth(r) \/ CountResponse(r)
        BY <3>4 DEF PingDatabase, PingRedis, ReportHealth, CountResponse, Answered, Answer, Goto, Typed, Local, asked
      <3>5. CASE QueryFails(r) \/ TimeOut(r)
        <4>1. at[r] \in Querying \union {"session"}
          BY <3>5, GiveUpSound DEF QueryFails, TimeOut, Pooled, Members
        <4> QED BY <3>5, <4>1 DEF QueryFails, TimeOut, Reject, Answer, Goto, Typed, Local, asked, Querying
      <3> QED BY <1>2, <3>1, <3>2, <3>3, <3>4, <3>5 DEF Step, Advance
    <2>5. Backed(r)'
      BY <2>1, <2>4 DEF Backed, Written
    <2> QED BY <2>1, <2>2, <2>3, <2>5 DEF Written
  <1> QED BY <1>1, <1>2

-----------------------------------------------------------------------------
(* The counters: a success is counted by its handler when it is answered, and by
   onResponse afterwards; in between it is due. *)
Due(route) == {r \in Requests : at[r] = "answered" /\ form[r].route = route /\ code[r] < 400}
Finished == {r \in Requests : at[r] = "done"}
NewTokens == {t \in issued : t.sub \notin Earlier}

Counted ==
  /\ responses["plan_change"] + Cardinality(Due("plan_change")) = business.scheduled
  /\ responses["login"] + Cardinality(Due("login")) = business.success
  /\ IsFiniteSet(changes)
  /\ business.scheduled <= Cardinality(changes)
  /\ Cardinality(changes) <= business.scheduled + failures
  /\ IsFiniteSet(NewTokens) /\ Cardinality(NewTokens) <= business.success
  /\ \A p \in Business : responses[p] <= Cardinality(Finished)

LEMMA RequestSets ==
  /\ \A p : IsFiniteSet(Due(p)) /\ Cardinality(Due(p)) \in Nat
  /\ IsFiniteSet(Finished) /\ Cardinality(Finished) \in Nat
  /\ Cardinality(Finished) <= Cardinality(Requests) /\ Cardinality(Requests) \in Nat
  <1>1. \A p : Due(p) \in SUBSET Requests
    BY DEF Due
  <1>2. Finished \in SUBSET Requests
    BY DEF Finished
  <1> QED BY <1>1, <1>2, BusyFinite, BoundAssumption, FS_Subset

(* A step that answers no success and counts no response. *)
LEMMA DueStays ==
  ASSUME Typed, NEW r \in Requests, Step(r), at[r] \notin {"answered", "done"}, at'[r] # "done",
         NEW route \in Business,
         at'[r] = "answered" => code'[r] >= 400 \/ form'[r].route # route,
         code'[r] \in Codes \union {None}, at'[r] = "answered" => code'[r] # None
  PROVE  Due(route)' = Due(route) /\ Finished' = Finished
  <1>1. \A q \in Requests : q # r => at'[q] = at[q] /\ form'[q] = form[q] /\ code'[q] = code[q]
    BY StepsAlone
  <1>2. r \notin Due(route) /\ r \notin Due(route)'
    BY DEF Due, Codes
  <1>3. Due(route)' = Due(route)
    BY <1>1, <1>2 DEF Due
  <1>4. Finished' = Finished
    BY <1>1 DEF Finished
  <1> QED BY <1>3, <1>4

(* One that answers a success. *)
LEMMA DueGrows ==
  ASSUME Typed, NEW r \in Requests, Step(r), at[r] \notin {"answered", "done"},
         NEW route \in Business, at'[r] = "answered", code'[r] \in {200, 202}, form'[r].route = route
  PROVE  /\ Cardinality(Due(route)') = Cardinality(Due(route)) + 1
         /\ \A other \in Business \ {route} : Due(other)' = Due(other)
         /\ Finished' = Finished
  <1>1. \A q \in Requests : q # r => at'[q] = at[q] /\ form'[q] = form[q] /\ code'[q] = code[q]
    BY StepsAlone
  <1>2. Due(route)' = Due(route) \union {r} /\ r \notin Due(route)
    BY <1>1 DEF Due
  <1>3. Cardinality(Due(route) \union {r}) = Cardinality(Due(route)) + 1
    BY <1>2, RequestSets, FS_AddElement
  <1>4. ASSUME NEW other \in Business \ {route} PROVE Due(other)' = Due(other)
    BY <1>1 DEF Due
  <1>5. Finished' = Finished
    BY <1>1 DEF Finished
  <1> QED BY <1>2, <1>3, <1>4, <1>5

(* onResponse: what was due is counted, and the request is over. *)
LEMMA CountResponseCounted ==
  ASSUME Typed, \A q \in Requests : Local(q), Counted, NEW r \in Requests, CountResponse(r)
  PROVE  Counted'
  <1>0. /\ at[r] = "answered" /\ at'[r] = "done" /\ form[r] \in Forms /\ code[r] \in Codes
        /\ UNCHANGED <<changes, issued, business, failures>>
    BY DEF CountResponse, Goto, Typed, Local, stores
  <1>1. \A q \in Requests : q # r => at'[q] = at[q] /\ form'[q] = form[q] /\ code'[q] = code[q]
    BY StepsAlone DEF Step, Advance
  <1>2. ASSUME NEW route \in Business
        PROVE  responses'[route] + Cardinality(Due(route)') = responses[route] + Cardinality(Due(route))
    <2>1. Due(route)' = Due(route) \ {r}
      BY <1>0, <1>1 DEF Due
    <2>2. CASE r \in Due(route)
      <3>1. Cardinality(Due(route)') = Cardinality(Due(route)) - 1
        BY <2>1, <2>2, RequestSets, FS_RemoveElement
      <3>2. responses'[route] = responses[route] + 1
        BY <1>0, <2>2 DEF CountResponse, Due, Typed, Codes
      <3> QED BY <3>1, <3>2, RequestSets DEF Typed
    <2>3. CASE r \notin Due(route)
      <3>1. responses'[route] = responses[route]
        BY <1>0, <2>3 DEF CountResponse, Due, Typed, Codes
      <3>2. Due(route)' = Due(route)
        BY <2>1, <2>3
      <3> QED BY <3>1, <3>2
    <2> QED BY <2>2, <2>3
  <1>3. Finished' = Finished \union {r} /\ r \notin Finished
    BY <1>0, <1>1 DEF Finished
  <1>4. Cardinality(Finished') = Cardinality(Finished) + 1
    BY <1>3, RequestSets, FS_AddElement
  <1>5. \A p \in Business : responses'[p] <= responses[p] + 1
    BY DEF CountResponse, Typed
  <1>6. \A p \in Business : responses[p] \in Nat /\ responses'[p] \in Nat
    BY DEF CountResponse, Typed
  <1>7. \A p \in Business : responses'[p] <= Cardinality(Finished')
    BY <1>4, <1>5, <1>6, RequestSets DEF Counted
  <1>8. NewTokens' = NewTokens
    BY <1>0 DEF NewTokens
  <1> QED BY <1>0, <1>2, <1>7, <1>8 DEF Counted, Business

LEMMA StoreSessionCounted ==
  ASSUME Typed, \A q \in Requests : Local(q), Counted, NEW r \in Requests, StoreSession(r)
  PROVE  Counted'
  <1>0. /\ at[r] = "session" /\ at'[r] = "answered" /\ code'[r] = 200
        /\ form'[r] = form[r] /\ form[r].route = "login" /\ token[r] \in Tokens
        /\ business' = [business EXCEPT !["success"] = @ + 1]
        /\ issued' = issued \union {token[r]}
        /\ UNCHANGED <<changes, responses, failures>>
    BY DEF StoreSession, Answer, Goto, Bump, Local, Typed, asked, world
  <1>1. /\ Cardinality(Due("login")') = Cardinality(Due("login")) + 1
        /\ Due("plan_change")' = Due("plan_change")
        /\ Finished' = Finished
    BY <1>0, DueGrows DEF Step, Advance, Business
  <1>2. business'.success = business.success + 1 /\ business'.scheduled = business.scheduled
    BY <1>0 DEF Typed
  <1>3. NewTokens' = NewTokens \/ NewTokens' = NewTokens \union {token[r]}
    BY <1>0 DEF NewTokens
  <1>4. IsFiniteSet(NewTokens') /\ Cardinality(NewTokens') <= Cardinality(NewTokens) + 1
        /\ Cardinality(NewTokens) \in Nat /\ Cardinality(NewTokens') \in Nat
    <2>1. IsFiniteSet(NewTokens) /\ Cardinality(NewTokens) \in Nat
      BY FS_CardinalityType DEF Counted
    <2>2. /\ IsFiniteSet(NewTokens \union {token[r]})
          /\ Cardinality(NewTokens \union {token[r]}) \in {Cardinality(NewTokens), Cardinality(NewTokens) + 1}
      BY <2>1, FS_AddElement
    <2> QED BY <1>3, <2>1, <2>2
  <1>5. responses["login"] \in Nat /\ business.success \in Nat
    BY DEF Typed, Business
  <1> QED BY <1>0, <1>1, <1>2, <1>4, <1>5, RequestSets DEF Counted

LEMMA InsertChangeCounted ==
  ASSUME Typed, \A q \in Requests : Local(q), Counted, Written, NEW r \in Requests, InsertChange(r)
  PROVE  Counted'
  <1>0. /\ at[r] = "insert" /\ at'[r] = "answered" /\ form'[r] = form[r]
        /\ form[r].route = "plan_change" /\ UNCHANGED <<issued, responses>>
    BY DEF InsertChange, Finish, Answer, Goto, Local, Typed, asked, Answered, world
  <1>1. Cardinality(changes) \in Nat
    BY FS_CardinalityType DEF Counted
  <1>2. NewTokens' = NewTokens
    BY <1>0 DEF NewTokens
  <1>3. ASSUME NEW id \in ChangeIds, ~Taken(id), changes' = changes \union {Row(r, id)}
        PROVE  IsFiniteSet(changes') /\ Cardinality(changes') = Cardinality(changes) + 1
    <2>1. Row(r, id) \notin changes
      BY <1>3 DEF Taken, Row
    <2> QED BY <1>3, <2>1, FS_AddElement DEF Counted
  <1>4. /\ \A p \in Business : responses[p] \in Nat
        /\ business.scheduled \in Nat /\ failures \in Nat
    BY DEF Typed
  <1>5. CASE code'[r] = 202
    <2>1. /\ IsFiniteSet(changes') /\ Cardinality(changes') = Cardinality(changes) + 1
          /\ failures' = failures /\ business' = [business EXCEPT !["scheduled"] = @ + 1]
      BY <1>3, <1>5 DEF InsertChange, Finish, Answer, Bump, Typed
    <2>2. /\ Cardinality(Due("plan_change")') = Cardinality(Due("plan_change")) + 1
          /\ Due("login")' = Due("login") /\ Finished' = Finished
      BY <1>0, <1>5, DueGrows DEF Step, Advance, Business
    <2>3. business'.scheduled = business.scheduled + 1 /\ business'.success = business.success
      BY <2>1 DEF Typed
    <2> QED BY <1>0, <1>1, <1>2, <1>4, <2>1, <2>2, <2>3, RequestSets DEF Counted, Business
  <1>6. CASE code'[r] # 202
    <2>1. code'[r] = 500 /\ business' = business
      BY <1>6 DEF InsertChange, Finish, Answer, Typed
    <2>2. \/ changes' = changes /\ failures' = failures
          \/ /\ IsFiniteSet(changes') /\ Cardinality(changes') = Cardinality(changes) + 1
             /\ failures' = failures + 1
      <3>1. CASE changes' = changes
        <4>1. ASSUME NEW id \in ChangeIds, ~Taken(id), changes' = changes \union {Row(r, id)} PROVE FALSE
          <5>1. Row(r, id) \in changes /\ Row(r, id).id = id
            BY <3>1, <4>1 DEF Row
          <5> QED BY <4>1, <5>1 DEF Taken
        <4> QED BY <1>6, <3>1, <4>1 DEF InsertChange, Finish, Answer, Typed
      <3>2. CASE changes' # changes
        <4>1. PICK id \in ChangeIds : ~Taken(id) /\ changes' = changes \union {Row(r, id)} /\ failures' = failures + 1
          BY <1>6, <3>2 DEF InsertChange, Finish, Answer, Typed
        <4> QED BY <1>3, <4>1
      <3> QED BY <3>1, <3>2
    <2>3. \A p \in Business : Due(p)' = Due(p) /\ Finished' = Finished
      BY <1>0, <2>1, DueStays, NoneAssumption DEF Step, Advance, Codes
    <2> QED BY <1>0, <1>1, <1>2, <1>4, <2>1, <2>2, <2>3, RequestSets DEF Counted, Business
  <1> QED BY <1>5, <1>6

LEMMA OthersCounted ==
  ASSUME Typed, \A q \in Requests : Local(q), Pooled, Counted, NEW r \in Requests, Step(r), Typed', Local(r)',
         ~CountResponse(r), ~StoreSession(r), ~InsertChange(r)
  PROVE  Counted'
  <1>1. /\ UNCHANGED <<changes, issued, responses>>
        /\ business'.scheduled = business.scheduled /\ business'.success = business.success
        /\ failures' \in {failures, failures + 1}
    BY DEF Step, Advance, Arrive, LeaveFault, CheckCredentials, ListInvoices, LoadCustomer, CheckCatalog, CountVerdict,
           EndPayment, PingDatabase, PingRedis, ReportHealth, QueryFails, TimeOut, Bump, Typed, stores, counters, world
  <1>2. at[r] \notin {"answered", "done"}
    BY GiveUpSound
       DEF Step, Advance, Arrive, LeaveFault, CheckCredentials, ListInvoices, LoadCustomer, CheckCatalog, EndPayment,
           PingDatabase, PingRedis, ReportHealth, QueryFails, TimeOut, Answered, Pooled, Members, Querying
  <1>3. at'[r] # "done" /\ (at'[r] = "answered" => code'[r] >= 400 \/ form'[r].route \notin Business)
    <2>1. CASE Arrive(r)
      <3> PICK f \in Forms, t \in {None} \union issued :
            /\ form' = [form EXCEPT ![r] = f]
            /\ \/ Refusal(f, t) # None /\ Answer(r, Refusal(f, t))
               \/ f.route \in Faultable /\ Goto(r, "fault")
               \/ f.route \notin Faultable /\ Enter(r, FirstQuery[f.route], pool)
        BY <2>1 DEF Arrive
      <3>1. Refusal(f, t) # None => Refusal(f, t) \in {400, 401}
        BY DEF Refusal
      <3>2. f.route \notin Faultable => FirstQuery[f.route] \in Querying
        BY TableAssumption DEF FirstQuery, Routes, Protected, Faultable, Querying
      <3> QED BY <3>1, <3>2 DEF Answer, Enter, Goto, Typed, Querying
    <2>2. CASE LeaveFault(r)
      <3>1. FirstQuery[form[r].route] \in Querying
        BY <2>2, TableAssumption DEF LeaveFault, Local, FirstQuery, Faultable, Querying
      <3> QED BY <2>2, <3>1 DEF LeaveFault, Answer, Enter, Goto, Typed, Querying
    <2>3. CASE CheckCredentials(r) \/ ListInvoices(r) \/ EndPayment(r)
      BY <2>3 DEF CheckCredentials, ListInvoices, EndPayment, Answered, Finish, Answer, Goto, Typed, Local, asked,
                  Business
    <2>4. CASE LoadCustomer(r) \/ CheckCatalog(r)
      BY <2>4 DEF LoadCustomer, CheckCatalog, Answered, Finish, Answer, Enter, Goto, Typed
    <2>5. CASE PingDatabase(r) \/ PingRedis(r) \/ ReportHealth(r)
      BY <2>5 DEF PingDatabase, PingRedis, ReportHealth, Answered, Answer, Goto, Typed, Local, asked, Business
    <2>6. CASE QueryFails(r) \/ TimeOut(r)
      BY <2>6 DEF QueryFails, TimeOut, Reject, Answer, Goto, Typed
    <2> QED BY <2>1, <2>2, <2>3, <2>4, <2>5, <2>6 DEF Step, Advance
  <1>4. code'[r] \in Codes \union {None} /\ (at'[r] = "answered" => code'[r] # None)
    BY DEF Typed, Local
  <1>5. \A p \in Business : Due(p)' = Due(p) /\ Finished' = Finished
    BY <1>2, <1>3, <1>4, DueStays
  <1>6. NewTokens' = NewTokens
    BY <1>1 DEF NewTokens
  <1>7. Cardinality(changes) \in Nat /\ failures \in Nat /\ business.scheduled \in Nat
    BY FS_CardinalityType DEF Counted, Typed
  <1> QED BY <1>1, <1>5, <1>6, <1>7 DEF Counted, Business

-----------------------------------------------------------------------------
IInv ==
  /\ Typed /\ \A r \in Requests : Local(r)
  /\ Pooled /\ Authenticated /\ Written /\ Counted

LEMMA InitEstablishes == Init => IInv
  <1> SUFFICES ASSUME Init PROVE IInv
    OBVIOUS
  <1>0. TokenTtl \in Nat /\ PoolMax \in Nat \ {0}
    BY BoundAssumption
  <1>1. form = [r \in Requests |-> None] /\ sub = form /\ code = form /\ redisUp = form /\ token = form /\ change = form
    BY DEF Init
  <1>2. issued \subseteq Tokens /\ session \in [Customers -> Nat]
    BY <1>0, TableAssumption DEF Init, Tokens
  <1>3. Typed
    BY <1>1, <1>2 DEF Init, Typed, Awaits, Business
  <1>4. \A r \in Requests : Local(r)
    BY <1>1 DEF Init, Local
  <1>5. Pooled
    <2>1. pool.busy = {} /\ pool.queue = <<>> /\ pool \in [busy: SUBSET Requests, queue: Seq(Requests)]
      BY DEF Init
    <2>2. Cardinality(pool.busy) = 0
      BY <2>1, FS_EmptySet
    <2> QED BY <1>0, <2>1, <2>2 DEF Pooled, Sound, Members, Waiters
  <1>6. Authenticated
    <2>1. \A t \in issued : t.sub \in Earlier /\ t.exp = TokenTtl /\ t.sub \in Customers
      BY TableAssumption DEF Init
    <2> QED BY <1>0, <1>1, <2>1 DEF Init, Authenticated, OnlyTheOwnerSchedules
  <1>7. Written
    BY <1>1 DEF Init, Written, Backed
  <1>8. Counted
    <2>1. NewTokens = {} /\ changes = {} /\ \A p : Due(p) = {}
      BY DEF Init, NewTokens, Due
    <2>2. \A p \in Business : responses[p] = 0
      BY DEF Init
    <2>3. business.scheduled = 0 /\ business.success = 0 /\ failures = 0
      BY DEF Init
    <2> QED BY <2>1, <2>2, <2>3, FS_EmptySet, RequestSets DEF Counted, Business
  <1> QED BY <1>3, <1>4, <1>5, <1>6, <1>7, <1>8 DEF IInv

LEMMA StepPreserves ==
  ASSUME IInv, NEW r \in Requests, Step(r)
  PROVE  IInv'
  <1>1. Typed'
    BY TypedPreserved DEF IInv
  <1>2. \A q \in Requests : Local(q)'
    BY LocalPreserved DEF IInv
  <1>3. Pooled' /\ Authenticated' /\ Written'
    BY PooledPreserved, AuthenticatedPreserved, WrittenPreserved DEF IInv
  <1>4. Counted'
    BY <1>1, <1>2, CountResponseCounted, StoreSessionCounted, InsertChangeCounted, OthersCounted DEF IInv
  <1> QED BY <1>1, <1>2, <1>3, <1>4 DEF IInv

(* Time only brings the tokens nearer to their end. *)
LEMMA TickPreserves == IInv /\ Tick => IInv'
  <1> SUFFICES ASSUME IInv, Tick PROVE IInv'
    OBVIOUS
  <1>1. now' = now + 1 /\ now \in Nat /\ TokenTtl \in Nat
        /\ UNCHANGED <<at, form, sub, code, redisUp, token, change, pool, changes, session, issued, business,
                       responses, failures>>
    BY BoundAssumption DEF Tick, IInv, Typed, handlers, stores, counters
  <1>2. Typed' /\ \A r \in Requests : Local(r)'
    BY <1>1 DEF IInv, Typed, Local, Eligible
  <1>3. Pooled' /\ Written'
    BY <1>1 DEF IInv, Pooled, Sound, Written, Backed, Row
  <1>4. Authenticated'
    <2>1. \A r \in Requests : token[r] # None => token[r].exp \in Nat
      BY DEF IInv, Typed, Tokens
    <2>2. \A c \in Customers : session[c] \in Nat
      BY DEF IInv, Typed
    <2> QED BY <1>1, <2>1, <2>2 DEF IInv, Authenticated, OnlyTheOwnerSchedules
  <1>5. Counted'
    BY <1>1 DEF IInv, Counted, Due, Finished, NewTokens
  <1> QED BY <1>2, <1>3, <1>4, <1>5 DEF IInv

LEMMA NextPreserves == IInv /\ [Next]_vars => IInv'
  <1> SUFFICES ASSUME IInv, [Next]_vars PROVE IInv'
    OBVIOUS
  <1>1. CASE \E r \in Requests : Step(r)
    BY <1>1, StepPreserves
  <1>2. CASE Tick
    BY <1>2, TickPreserves
  <1>3. CASE UNCHANGED vars
    <2>1. UNCHANGED <<at, form, sub, code, redisUp, token, change, pool, changes, session, issued, business,
                      responses, now, failures>>
      BY <1>3 DEF vars, handlers, stores, counters
    <2>2. Typed' /\ \A r \in Requests : Local(r)'
      BY <2>1 DEF IInv, Typed, Local, Eligible
    <2>3. Pooled' /\ Written' /\ Authenticated' /\ Counted'
      BY <2>1 DEF IInv, Pooled, Sound, Written, Backed, Row, Authenticated, OnlyTheOwnerSchedules, Counted, Due,
                  Finished, NewTokens
    <2> QED BY <2>2, <2>3 DEF IInv
  <1> QED BY <1>1, <1>2, <1>3 DEF Next, Step

-----------------------------------------------------------------------------
(* server.ts and its routes: the inductive invariant holds in every reachable state. *)
THEOREM Invariance == Spec => []IInv
  BY InitEstablishes, NextPreserves, PTL DEF Spec

(* Every variable keeps its range, a status is there exactly while its request is answered,
   and no route counts more responses than there were requests. *)
THEOREM TypeCorrectness == Spec => []TypeOK
  <1>1. IInv => TypeOK
    <2> SUFFICES ASSUME IInv PROVE TypeOK
      OBVIOUS
    <2>1. \A r \in Requests :
            /\ code[r] \in Codes \union {None} /\ form[r] \in Forms \union {None}
            /\ sub[r] \in Customers \union {None} /\ token[r] \in Tokens \union {None}
            /\ change[r] \in ChangeIds \union {None} /\ redisUp[r] \in BOOLEAN \union {None}
      BY DEF IInv, Typed
    <2>2. \A r \in Requests : code[r] # None <=> at[r] = "answered"
      BY DEF IInv, Local
    <2>3. pool.busy \subseteq Requests /\ pool.queue \in Seq(Requests)
      BY DEF IInv, Pooled, Sound
    <2>4. \A p \in DOMAIN responses : responses[p] \in 0..Cardinality(Requests)
      <3>1. \A p \in Business : responses[p] \in Nat /\ responses[p] <= Cardinality(Finished)
        BY DEF IInv, Typed, Counted
      <3> QED BY <3>1, RequestSets DEF IInv, Typed
    <2> QED BY <2>1, <2>2, <2>3, <2>4 DEF TypeOK, IInv, Typed, Written
  <1> QED BY <1>1, Invariance, PTL

(* plan-changes.ts:71-92: what a 202 tells is in the table, once; what was refused is not. *)
THEOREM PlanChangesAreBacked == Spec => []PlanChangesBacked
  <1>1. IInv => PlanChangesBacked
    <2> SUFFICES ASSUME IInv, NEW r \in Requests,
                        form[r] # None, form[r].route = "plan_change", code[r] # None
                 PROVE  /\ code[r] = 202 => /\ {c \in changes : c.by = r} = {Row(r, change[r])}
                                           /\ {c \in changes : c.id = change[r]} = {Row(r, change[r])}
                                           /\ form[r].target # CurrentPlan[form[r].who]
                        /\ code[r] \in {400, 401, 403, 404, 422, 504} => \A c \in changes : c.by # r
      BY DEF PlanChangesBacked
    <2>1. at[r] = "answered" /\ Backed(r)
      BY DEF IInv, Local, Written
    <2>2. Row(r, change[r]).by = r /\ Row(r, change[r]).id = change[r]
      BY DEF Row
    <2>3. ASSUME code[r] = 202
          PROVE  /\ {c \in changes : c.by = r} = {Row(r, change[r])}
                 /\ {c \in changes : c.id = change[r]} = {Row(r, change[r])}
      <3>1. Row(r, change[r]) \in changes /\ \A c \in changes : c.by = r => c = Row(r, change[r])
        BY <2>1, <2>3 DEF Backed
      <3>2. \A c \in changes : c.id = change[r] => c = Row(r, change[r])
        BY <2>2, <3>1 DEF IInv, Written
      <3> QED BY <2>2, <3>1, <3>2
    <2> QED BY <2>1, <2>3 DEF Backed
  <1> QED BY <1>1, Invariance, PTL

(* plan-changes.ts:51, route-utils.ts:16: the token of the request that writes a plan change
   is one a login issued to the customer whose plan it changes. *)
THEOREM OwnersSchedule == Spec => []OnlyTheOwnerSchedules
  <1>1. IInv => OnlyTheOwnerSchedules
    BY DEF IInv, Authenticated
  <1> QED BY <1>1, Invariance, PTL

(* plan-changes.ts:82-92, auth.ts:58-69, server.ts:58-69: the counters trail the table. *)
THEOREM CountersTrail == Spec => []CountersTrailTheTable
  <1>1. IInv => CountersTrailTheTable
    <2> SUFFICES ASSUME IInv PROVE CountersTrailTheTable
      OBVIOUS
    <2>1. /\ responses["plan_change"] \in Nat /\ responses["login"] \in Nat
          /\ business.scheduled \in Nat /\ business.success \in Nat
      BY DEF IInv, Typed, Business
    <2> QED BY <2>1, RequestSets DEF IInv, Counted, CountersTrailTheTable, NewTokens
  <1> QED BY <1>1, Invariance, PTL

(* auth.ts:58-64: the session entry of a customer outlives each token she holds. *)
THEOREM SessionsOutlive == Spec => []SessionOutlivesToken
  <1>1. IInv => SessionOutlivesToken
    <2> SUFFICES ASSUME IInv, NEW t \in issued, now < t.exp PROVE now < session[t.sub]
      BY DEF SessionOutlivesToken
    <2>1. t.exp \in Nat /\ session[t.sub] \in Nat /\ now \in Nat
      BY DEF IInv, Typed, Tokens
    <2> QED BY <2>1 DEF IInv, Authenticated
  <1> QED BY <1>1, Invariance, PTL

(* db.ts:9-16: who waits, waits for a full pool; no connection is lost or lent twice. *)
THEOREM PoolIsSound == Spec => []WaitersMeanFullPool
  <1>1. IInv => WaitersMeanFullPool
    <2> SUFFICES ASSUME IInv PROVE WaitersMeanFullPool
      OBVIOUS
    <2>1. pool.busy \union ToSet(pool.queue) = Members(pool)
      BY ToSetWaiters DEF IInv, Pooled, Sound, Members
    <2> QED BY <2>1 DEF IInv, Pooled, Sound, WaitersMeanFullPool, Querying
  <1> QED BY <1>1, Invariance, PTL

-----------------------------------------------------------------------------
(* Who is granted a connection while others wait was the first of them: in each way a
   step may use the pool. *)
First(q) == pool.queue # <<>> => q = Head(pool.queue)

LEMMA QueuesWhenFull ==
  ASSUME NEW p, NEW r, Cardinality(p.busy) = PoolMax
  PROVE  Acquire(p, r).busy = p.busy
  BY BoundAssumption DEF Acquire

LEMMA GrantedOnMove ==
  ASSUME Pooled, NEW r \in Requests, NEW q \in Requests, Granted(q),
         \/ r \notin Members(pool) /\ pool' = pool
         \/ r \in pool.busy /\ pool' = Release(pool, r)
         \/ \E i \in Places(pool, r) : pool' = GiveUp(pool, i),
         \A p \in Requests : p # r => at'[p] = at[p]
  PROVE  First(q)
  <1>1. CASE r \notin Members(pool) /\ pool' = pool
    BY <1>1 DEF Granted, Members
  <1>2. CASE r \in pool.busy /\ pool' = Release(pool, r)
    <2>1. r \notin pool'.busy
      BY <1>2, ReleaseSound DEF Pooled, Members
    <2>2. q # r /\ q \notin pool.busy
      BY <2>1 DEF Granted
    <2> QED BY <1>2, <2>2 DEF Granted, First, Release
  <1>3. CASE \E i \in Places(pool, r) : pool' = GiveUp(pool, i)
    <2>1. pool'.busy = pool.busy
      BY <1>3 DEF GiveUp, Pooled, Sound
    <2>2. r \notin pool'.busy
      BY <1>3, GiveUpSound DEF Pooled, Members
    <2> QED BY <2>1, <2>2 DEF Granted
  <1> QED BY <1>1, <1>2, <1>3

LEMMA GrantedOnEnter ==
  ASSUME Pooled, NEW r \in Requests, NEW await, Enter(r, await, pool),
         NEW q \in Requests, Granted(q), r \notin Members(pool),
         \A p \in Requests : p # r => at'[p] = at[p]
  PROVE  First(q)
  <1> SUFFICES ASSUME pool.queue # <<>> PROVE FALSE
    BY DEF First
  <1>1. pool'.busy = pool.busy
    BY QueuesWhenFull DEF Enter, Pooled, Sound
  <1> QED BY <1>1 DEF Granted, Members

LEMMA GrantedOnRequeue ==
  ASSUME Pooled, NEW r \in pool.busy, NEW await, Enter(r, await, Release(pool, r)),
         NEW q \in Requests, Granted(q),
         \A p \in Requests : p # r => at'[p] = at[p]
  PROVE  First(q)
  <1> SUFFICES ASSUME pool.queue # <<>> PROVE q = Head(pool.queue)
    BY DEF First
  <1> DEFINE p == Release(pool, r)
  <1>1. p.busy = (pool.busy \ {r}) \union {Head(pool.queue)}
    BY DEF Release
  <1>2. /\ Head(pool.queue) = pool.queue[1] /\ 1 \in 1..Len(pool.queue)
        /\ Head(pool.queue) \notin pool.busy /\ Head(pool.queue) \in Requests
    BY DEF Pooled, Sound
  <1>3. IsFiniteSet(pool.busy) /\ Cardinality(pool.busy) = PoolMax /\ pool.busy \subseteq Requests
    BY BusyFinite DEF Pooled, Sound
  <1>4. Cardinality(pool.busy \ {r}) = PoolMax - 1 /\ IsFiniteSet(pool.busy \ {r})
    BY <1>3, FS_RemoveElement
  <1>5. Cardinality(p.busy) = PoolMax
    <2>1. Head(pool.queue) \notin pool.busy \ {r}
      BY <1>2
    <2>2. Cardinality(p.busy) = Cardinality(pool.busy \ {r}) + 1
      BY <1>1, <1>4, <2>1, FS_AddElement
    <2> QED BY <1>4, <2>2, BoundAssumption
  <1>6. pool'.busy = p.busy
    BY <1>5, QueuesWhenFull DEF Enter
  <1>7. q # r
    BY <1>1, <1>2, <1>6 DEF Granted
  <1> QED BY <1>1, <1>6, <1>7 DEF Granted

LEMMA GrantedIsFirst ==
  ASSUME IInv, NEW r \in Requests, Step(r), NEW q \in Requests, Granted(q)
  PROVE  First(q)
  <1>0. /\ \A p \in Requests : p # r => at'[p] = at[p]
        /\ at[r] \notin Querying => r \notin Members(pool)
    BY StepsAlone DEF IInv, Pooled
  <1> USE DEF IInv
  <1>1. CASE Arrive(r)
    <2>1. r \notin Members(pool)
      BY <1>0, <1>1 DEF Arrive, Querying
    <2>2. \/ UNCHANGED pool
          \/ \E f \in Forms : Enter(r, FirstQuery[f.route], pool)
      BY <1>1 DEF Arrive
    <2> QED BY <1>0, <2>1, <2>2, GrantedOnEnter, GrantedOnMove
  <1>2. CASE LeaveFault(r)
    <2>1. r \notin Members(pool)
      BY <1>0, <1>2 DEF LeaveFault, Querying
    <2>2. UNCHANGED pool \/ Enter(r, FirstQuery[form[r].route], pool)
      BY <1>2 DEF LeaveFault
    <2> QED BY <1>0, <2>1, <2>2, GrantedOnEnter, GrantedOnMove
  <1>3. CASE StoreSession(r) \/ ReportHealth(r) \/ CountResponse(r)
    <2>1. r \notin Members(pool) /\ UNCHANGED pool
      BY <1>0, <1>3 DEF StoreSession, ReportHealth, CountResponse, Querying
    <2> QED BY <1>0, <2>1, GrantedOnMove
  <1>4. CASE LoadCustomer(r) \/ CheckCatalog(r)
    <2>1. /\ r \in pool.busy
          /\ \/ Enter(r, "catalog", Release(pool, r)) \/ Enter(r, "insert", Release(pool, r))
             \/ pool' = Release(pool, r)
      BY <1>4 DEF LoadCustomer, CheckCatalog, Answered, Finish
    <2> QED BY <1>0, <2>1, GrantedOnRequeue, GrantedOnMove
  <1>5. CASE CheckCredentials(r) \/ ListInvoices(r) \/ InsertChange(r) \/ EndPayment(r) \/ PingDatabase(r)
    <2>1. r \in pool.busy /\ pool' = Release(pool, r)
      BY <1>5 DEF CheckCredentials, ListInvoices, InsertChange, EndPayment, PingDatabase, Answered, Finish
    <2> QED BY <1>0, <2>1, GrantedOnMove
  <1>6. CASE PingRedis(r)
    BY <1>6 DEF PingRedis, Granted
  <1>7. CASE QueryFails(r) \/ TimeOut(r)
    <2>1. \/ r \notin Members(pool) /\ pool' = pool
          \/ r \in pool.busy /\ pool' = Release(pool, r)
          \/ \E i \in Places(pool, r) : pool' = GiveUp(pool, i)
      BY <1>0, <1>7 DEF QueryFails, TimeOut, Querying
    <2> QED BY <1>0, <2>1, GrantedOnMove
  <1> QED BY <1>1, <1>2, <1>3, <1>4, <1>5, <1>6, <1>7 DEF Step, Advance

(* db.ts:9-16, plan-changes.ts:56-84: the queue for the pool's connections is fair, through
   every release, requeue and timeout: nobody is served before who waits longer. *)
THEOREM NobodyIsOvertaken == Spec => NobodyOvertakes
  <1>1. ASSUME IInv, IInv', [Next]_vars, NEW q \in Requests, Granted(q),
               NEW w \in ToSet(pool.queue) \intersect ToSet(pool'.queue)
        PROVE  Ahead(pool.queue, q, w)
    <2>1. CASE \E r \in Requests : Step(r)
      <3>1. pool.queue \in Seq(Requests) /\ pool'.queue \in Seq(Requests)
        BY <1>1 DEF IInv, Pooled, Sound
      <3>2. w \in Waiters(pool) /\ w \in Waiters(pool')
        <4>1. ToSet(pool'.queue) = Waiters(pool')
          BY <3>1, ToSetWaiters
        <4> QED BY <3>1, <4>1, ToSetWaiters
      <3>3. PICK j \in 1..Len(pool.queue) : pool.queue[j] = w
        BY <3>2 DEF Waiters
      <3>4. Len(pool.queue) \in Nat /\ DOMAIN pool.queue = 1..Len(pool.queue)
            /\ pool.queue # <<>> /\ Head(pool.queue) = pool.queue[1]
        BY <3>1, <3>3
      <3>5. q = pool.queue[1]
        BY <1>1, <2>1, <3>4, GrantedIsFirst DEF First
      <3>6. w # q
        BY <1>1, <3>2 DEF IInv, Pooled, Sound, Waiters, Granted
      <3>7. 1 \in 1..Len(pool.queue) /\ 1 < j
        BY <3>3, <3>4, <3>5, <3>6
      <3> QED BY <3>3, <3>4, <3>5, <3>7 DEF Ahead
    <2>2. CASE Tick \/ UNCHANGED vars
      BY <1>1, <2>2 DEF Tick, vars, handlers, Granted
    <2> QED BY <1>1, <2>1, <2>2 DEF Next, Step
  <1>2. IInv /\ IInv' /\ [Next]_vars =>
          (\A q \in Requests : Granted(q) =>
             \A w \in ToSet(pool.queue) \intersect ToSet(pool'.queue) : Ahead(pool.queue, q, w))
    BY <1>1
  <1> QED BY <1>2, Invariance, PTL DEF Spec, NobodyOvertakes
=============================================================================
