----------------------------- MODULE LocksProofs -----------------------------
(***************************************************************************)
(* Who holds a row lock, and why nobody waits in a circle for the pool, an *)
(* open INSERT or a lock: for any number of requests, invoices, pool slots *)
(* and failures, with the reset locking every invoice one after the other. *)
(***************************************************************************)
EXTENDS PaymentsProofs

(* A lock belongs to the reset while it executes, or to a request that has an
   open row and got past the SELECT ... FOR UPDATE it took the lock with. *)
LockHeld(i) ==
  lockedBy[i] # None =>
    IF lockedBy[i] = Admin THEN resetting # "no"
    ELSE row[lockedBy[i]] # None /\ pc[lockedBy[i]] # "locking"

LockHolders == \A i \in Invoices : LockHeld(i)

-----------------------------------------------------------------------------
LEMMA NothingLocked == Init => LockHolders
  BY DEF Init, LockHolders, LockHeld

(* The end of a transaction takes its locks along with its row. *)
LEMMA RollbackKeepsHolders ==
  ASSUME IInv, LockHolders, NEW r \in Requests, Rollback(r),
         \A q \in Requests \ {r} : pc'[q] = pc[q], UNCHANGED resetting
  PROVE  LockHolders'
  <1> SUFFICES ASSUME NEW i \in Invoices PROVE LockHeld(i)'
    BY DEF LockHolders
  <1>1. lockedBy'[i] = (IF lockedBy[i] = r THEN None ELSE lockedBy[i])
    BY DEF Rollback, Unlocked
  <1>2. \A q \in Requests \ {r} : row'[q] = row[q]
    BY DEF Rollback, IInv, TypeOK
  <1>3. lockedBy[i] \in Requests \union {Admin, None}
    BY DEF IInv, TypeOK
  <1> QED BY <1>1, <1>2, <1>3, SentinelAssumption DEF LockHolders, LockHeld

(* A step that takes no lock, closes no row and sends nobody to the lock. *)
LEMMA QuietStepKeepsHolders ==
  ASSUME IInv, LockHolders, UNCHANGED <<lockedBy, resetting>>,
         \A q \in Requests : row[q] # None =>
           row'[q] # None /\ (pc'[q] = "locking" => pc[q] = "locking")
  PROVE  LockHolders'
  <1> SUFFICES ASSUME NEW i \in Invoices PROVE LockHeld(i)'
    BY DEF LockHolders
  <1>1. lockedBy[i] \in Requests \union {Admin, None}
    BY DEF IInv, TypeOK
  <1> QED BY <1>1 DEF LockHolders, LockHeld

(* The locking SELECT leaves its request with an open row, beyond the lock. *)
LEMMA LockingKeepsHolders ==
  ASSUME IInv, LockHolders, NEW r \in Requests, LockedForUpdate(r), UNCHANGED resetting,
         row'[r] # None, pc'[r] # "locking",
         \A q \in Requests \ {r} : row'[q] = row[q] /\ pc'[q] = pc[q]
  PROVE  LockHolders'
  <1> SUFFICES ASSUME NEW i \in Invoices PROVE LockHeld(i)'
    BY DEF LockHolders
  <1>1. lockedBy[i] \in Requests \union {Admin, None}
    BY DEF IInv, TypeOK
  <1>2. lockedBy' = [lockedBy EXCEPT ![body[r].invoice] = r]
    BY DEF LockedForUpdate
  <1>3. r # Admin
    BY SentinelAssumption
  <1>4. CASE i = body[r].invoice
    <2>1. lockedBy'[i] = r
      BY <1>2, <1>4 DEF IInv, TypeOK
    <2> QED BY <1>3, <2>1 DEF LockHeld
  <1>5. CASE i # body[r].invoice
    <2>1. lockedBy'[i] = lockedBy[i]
      BY <1>2, <1>5 DEF IInv, TypeOK
    <2> QED BY <1>1, <2>1 DEF LockHolders, LockHeld
  <1> QED BY <1>4, <1>5

LEMMA HandlerKeepsHolders ==
  ASSUME IInv, LockHolders, NEW r \in Requests, HandlerStep(r)
  PROVE  LockHolders'
  <1> USE DEF Goto, tables, redisVars, adminVars
  <1>0. pc \in [Requests -> Phases] /\ row \in [Requests -> Rows \union {None}]
    BY DEF IInv, TypeOK
  <1>1. CASE RejectMissingKey(r) \/ RejectForeign(r) \/ CacheHit(r) \/ CacheMiss(r)
               \/ CacheError(r) \/ Begin(r) \/ ConnectFails(r) \/ InsertConflict(r)
    BY <1>0, <1>1, QuietStepKeepsHolders DEF RejectMissingKey, RejectForeign, Refuse, CacheHit,
       CacheMiss, CacheError, Begin, ConnectFails, MayLookUp, InsertConflict
  <1>2. CASE SelectExisting(r) \/ CommitReplay(r) \/ Answer(r) \/ AnswerReplay(r)
               \/ (\E answer \in Outcomes : Charge(r, answer))
    BY <1>0, <1>2, QuietStepKeepsHolders DEF SelectExisting, CommitReplay, Answer, AnswerReplay, Charge
  <1>3. CASE \E id \in PaymentIds : InsertRow(r, id)
    <2>1. PICK id \in PaymentIds : InsertRow(r, id)
      BY <1>3
    <2>2. row[r] = None
      BY <2>1 DEF InsertRow, IInv, RowExclusive, WorkingPhases, OrphanPhases
    <2>3. \A q \in Requests \ {r} : row'[q] = row[q] /\ pc'[q] = pc[q]
      BY <1>0, <2>1 DEF InsertRow
    <2> QED BY <2>1, <2>2, <2>3, QuietStepKeepsHolders DEF InsertRow
  <1>4. ASSUME NEW status \in Outcomes, NEW invoiceStatus \in Statuses \union {"unknown"},
               Decide(r, status, invoiceStatus), pc[r] \in WorkingPhases
        PROVE  /\ row'[r] # None /\ pc'[r] = "committing"
               /\ \A q \in Requests \ {r} : row'[q] = row[q] /\ pc'[q] = pc[q]
    <2>1. row[r] # None
      BY <1>4 DEF IInv, Progress
    <2>2. row'[r] # None /\ \A q \in Requests \ {r} : row'[q] = row[q]
      BY <1>4, <2>1, DecisionTypes DEF IInv
    <2> QED BY <1>0, <1>4, <2>2 DEF Decide
  <1>5. CASE NoSuchInvoice(r) \/ SettleApproved(r) \/ SettleDeclined(r)
    <2>1. PICK status \in Outcomes, invoiceStatus \in Statuses \union {"unknown"} :
            Decide(r, status, invoiceStatus)
      BY <1>5 DEF NoSuchInvoice, SettleApproved, SettleDeclined, Outcomes, Statuses, Matches,
         IInv, TypeOK, Progress
    <2>2. pc[r] \in WorkingPhases /\ UNCHANGED <<lockedBy, resetting>>
      BY <1>5 DEF NoSuchInvoice, SettleApproved, SettleDeclined, WorkingPhases
    <2> QED BY <1>4, <2>1, <2>2, QuietStepKeepsHolders
  <1>6. CASE LockPaid(r)
    <2>1. Decide(r, "declined", "paid") /\ pc[r] \in WorkingPhases
      BY <1>6 DEF LockPaid, LockedForUpdate, WorkingPhases
    <2>2. "declined" \in Outcomes /\ "paid" \in Statuses
      BY DEF Outcomes, Statuses
    <2> QED BY <1>4, <1>6, <2>1, <2>2, LockingKeepsHolders DEF LockPaid
  <1>7. CASE LockPayable(r)
    <2>1. row'[r] # None
      BY <1>7 DEF LockPayable, LockedForUpdate, IInv, Progress, WorkingPhases
    <2>2. pc'[r] = "charging" /\ \A q \in Requests \ {r} : row'[q] = row[q] /\ pc'[q] = pc[q]
      BY <1>0, <1>7 DEF LockPayable
    <2> QED BY <1>7, <2>1, <2>2, LockingKeepsHolders DEF LockPayable
  <1>8. CASE (\E id \in PaymentIds : InsertCollides(r, id))
               \/ (\E code \in {500, 504} : GatewayFault(r, code))
    BY <1>0, <1>8, RollbackKeepsHolders DEF InsertCollides, GatewayFault, Abort
  <1>9. CASE CommitPayment(r)
    BY <1>0, <1>9, RollbackKeepsHolders DEF CommitPayment, Persist
  <1> QED BY <1>1, <1>2, <1>3, <1>5, <1>6, <1>7, <1>8, <1>9 DEF HandlerStep

LEMMA FailureKeepsHolders ==
  ASSUME IInv, LockHolders,
         Crash \/ \E r \in Requests : OrphanStep(r) \/ StatementFails(r) \/ ConnectionLost(r)
  PROVE  LockHolders'
  <1> USE DEF Goto, tables, redisVars, adminVars
  <1>0. pc \in [Requests -> Phases] /\ row \in [Requests -> Rows \union {None}]
    BY DEF IInv, TypeOK
  <1>1. ASSUME NEW r \in Requests, OrphanStep(r) \/ StatementFails(r) PROVE LockHolders'
    BY <1>0, <1>1, RollbackKeepsHolders DEF OrphanStep, OrphanAborts, OrphanCommits, StatementFails,
       Abort, Persist
  <1>2. ASSUME NEW r \in Requests, ConnectionLost(r) PROVE LockHolders'
    BY <1>0, <1>2, QuietStepKeepsHolders DEF ConnectionLost, Orphaned
  <1>3. CASE Crash
    <2>1. \A q \in Requests : row'[q] = row[q] /\ (pc'[q] = "locking" => pc[q] = "locking")
      BY <1>0, <1>3 DEF Crash, Orphaned
    <2>2. ASSUME NEW i \in Invoices PROVE LockHeld(i)'
      <3>1. lockedBy[i] \in Requests \union {Admin, None}
        BY DEF IInv, TypeOK
      <3>2. lockedBy' = lockedBy /\ (resetting # "no" => resetting' # "no")
        BY <1>3 DEF Crash
      <3> QED BY <2>1, <3>1, <3>2 DEF LockHolders, LockHeld
    <2> QED BY <2>2 DEF LockHolders
  <1> QED BY <1>1, <1>2, <1>3

LEMMA ResetKeepsHolders ==
  ASSUME IInv, LockHolders, ResetStart \/ ResetStep \/ ResetAborts
  PROVE  LockHolders'
  <1> SUFFICES ASSUME NEW i \in Invoices PROVE LockHeld(i)'
    BY DEF LockHolders
  <1>1. lockedBy[i] \in Requests \union {Admin, None} /\ lockedBy \in [Invoices -> Requests \union {Admin, None}]
    BY DEF IInv, TypeOK
  <1>2. UNCHANGED <<pc, row>>
    BY DEF ResetStart, ResetStep, ResetLock, ResetCommit, ResetAborts, requestVars
  <1>3. CASE ResetStart
    BY <1>2, <1>3 DEF ResetStart, LockHolders, LockHeld
  <1>4. CASE \E j \in Invoices : ResetLock(j)
    BY <1>1, <1>2, <1>4 DEF ResetLock, LockHolders, LockHeld, adminVars
  <1>5. CASE ResetCommit \/ ResetAborts
    <2>1. lockedBy'[i] = (IF lockedBy[i] = Admin THEN None ELSE lockedBy[i])
      BY <1>5 DEF ResetCommit, ResetAborts, Unlocked
    <2> QED BY <1>1, <1>2, <2>1 DEF LockHolders, LockHeld
  <1> QED BY <1>3, <1>4, <1>5 DEF ResetStep

LEMMA StepKeepsHolders == IInv /\ LockHolders /\ [Next]_vars => LockHolders'
  <1> SUFFICES ASSUME IInv, LockHolders, [Next]_vars PROVE LockHolders'
    OBVIOUS
  <1>1. ASSUME NEW r \in Requests, NEW b \in Bodies, Receive(r, b) PROVE LockHolders'
    <2>1. \A q \in Requests : row'[q] = row[q] /\ (pc'[q] = "locking" => pc[q] = "locking")
      BY <1>1 DEF Receive, Goto, IInv, TypeOK
    <2> QED BY <1>1, <2>1, QuietStepKeepsHolders DEF Receive, adminVars
  <1>2. CASE RedisStep \/ UNCHANGED vars
    <2>1. UNCHANGED <<pc, row, lockedBy, resetting>>
      BY <1>2 DEF RedisStep, CacheWriteLands, CacheWriteLost, CacheExpires, requestVars, adminVars, vars
    <2> QED BY <2>1, QuietStepKeepsHolders
  <1> QED BY <1>1, <1>2, HandlerKeepsHolders, FailureKeepsHolders, ResetKeepsHolders DEF Next, Quiescent

(* db.ts:29-45, payments.ts:122-129, admin.ts:67-71: in every reachable state
   each lock has a transaction that is executing and will let go of it. *)
THEOREM HoldersInvariance == Spec => [](IInv /\ LockHolders)
  <1>1. Spec => []LockHolders
    BY NothingLocked, StepKeepsHolders, Invariance, PTL DEF Spec
  <1> QED BY <1>1, Invariance, PTL

-----------------------------------------------------------------------------
(* The order in which everybody takes what there is to wait for. *)
Depth(h) ==
  IF h = Admin THEN 3
  ELSE IF pc[h] = "connecting" THEN 0
  ELSE IF pc[h] = "inserting" THEN 1
  ELSE IF pc[h] = "locking" THEN 2
  ELSE 4

(* Whoever is waited for is in a transaction, and further on. *)
LEMMA WaitsGoDeeper ==
  ASSUME IInv, LockHolders, NEW w \in Agents, NEW h \in Agents, Waits(w, h)
  PROVE  InTransaction(h) /\ Depth(w) < Depth(h)
  <1> USE SentinelAssumption DEF Agents, Depth
  <1>1. CASE WaitsForSlot(w, h)
    BY <1>1 DEF WaitsForSlot, HasSlot, InTransaction, TxPhases
  <1>2. CASE WaitsForInsert(w, h)
    <2>1. h \in Requests /\ row[h] # None /\ w \in Requests /\ pc[w] = "inserting"
      BY <1>2 DEF WaitsForInsert
    <2>2. pc[h] \in WorkingPhases \union OrphanPhases \union {"committing"}
      BY <2>1 DEF IInv, RowExclusive
    <2> QED BY <2>1, <2>2 DEF InTransaction, WorkingPhases, OrphanPhases, TxPhases
  <1>3. CASE WaitsForLock(w, h)
    <2>1. PICK i \in Invoices :
            /\ lockedBy[i] = h /\ h # w
            /\ IF w = Admin THEN resetting # "no"
               ELSE pc[w] = "locking" /\ Matches(w) /\ body[w].invoice = i
      BY <1>3 DEF WaitsForLock
    <2>2. LockHeld(i) /\ h # None
      BY DEF LockHolders
    <2>3. CASE h = Admin
      BY <2>1, <2>2, <2>3 DEF LockHeld, InTransaction
    <2>4. CASE h # Admin
      <3>1. h \in Requests /\ row[h] # None /\ pc[h] # "locking"
        BY <2>1, <2>2, <2>4 DEF LockHeld
      <3>2. pc[h] \in WorkingPhases \union OrphanPhases \union {"committing"}
        BY <3>1 DEF IInv, RowExclusive
      <3> QED BY <2>1, <2>4, <3>1, <3>2 DEF InTransaction, WorkingPhases, OrphanPhases, TxPhases
    <2> QED BY <2>3, <2>4
  <1> QED BY <1>1, <1>2, <1>3 DEF Waits

(* The deepest of any set of agents waits for none of the set. *)
LEMMA SomebodyIsDeepest ==
  ASSUME NEW S \in SUBSET Agents, S # {}
  PROVE  \E w \in S : \A h \in S : ~(Depth(w) < Depth(h))
  <1>1. \A h \in S : Depth(h) \in 0..4
    BY DEF Depth
  <1>2. CASE \E w \in S : Depth(w) = 4
    BY <1>1, <1>2
  <1>3. CASE (\A h \in S : Depth(h) <= 3) /\ \E w \in S : Depth(w) = 3
    BY <1>1, <1>3
  <1>4. CASE (\A h \in S : Depth(h) <= 2) /\ \E w \in S : Depth(w) = 2
    BY <1>1, <1>4
  <1>5. CASE (\A h \in S : Depth(h) <= 1) /\ \E w \in S : Depth(w) = 1
    BY <1>1, <1>5
  <1>6. CASE \A h \in S : Depth(h) <= 0
    BY <1>1, <1>6
  <1> QED BY <1>1, <1>2, <1>3, <1>4, <1>5, <1>6

(* db.ts:15-49, payments.ts:87-129, admin.ts:67-71: however many requests compete
   for however few slots, keys and invoices, and whatever reset runs over them,
   they never wait for each other in a circle, nor for a transaction that is over. *)
THEOREM NobodyDeadlocks == Spec => []NoDeadlock
  <1>1. IInv /\ LockHolders => NoDeadlock
    <2> SUFFICES ASSUME IInv, LockHolders PROVE NoDeadlock
      OBVIOUS
    <2>1. \A w, h \in Agents : Waits(w, h) => InTransaction(h)
      BY WaitsGoDeeper
    <2>2. ASSUME NEW S \in SUBSET Agents, S # {}
          PROVE  \E w \in S : \A h \in S : ~Waits(w, h)
      <3>1. PICK w \in S : \A h \in S : ~(Depth(w) < Depth(h))
        BY <2>2, SomebodyIsDeepest
      <3>2. \A h \in S : ~Waits(w, h)
        BY <3>1, WaitsGoDeeper
      <3> QED BY <3>2
    <2> QED BY <2>1, <2>2 DEF NoDeadlock
  <1> QED BY <1>1, HoldersInvariance, PTL
=============================================================================
