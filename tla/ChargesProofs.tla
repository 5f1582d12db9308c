--------------------------- MODULE ChargesProofs ---------------------------
(***************************************************************************)
(* What the gateway was asked against what the tables say: how often a key *)
(* can be charged, and what stands behind an approved row and a paid       *)
(* invoice, for any number of requests, failures and resets.               *)
(***************************************************************************)
EXTENDS PaymentsProofs, FiniteSetTheorems

(* The phases up to the gateway. *)
Beforehand == {"idle", "received", "connecting", "inserting", "replaying", "locking", "charging"}

(* The gateway answers a request once, and approves before its row is approved. *)
ChargedOnce ==
  \A r \in Requests :
    /\ pc[r] \in Beforehand => gateway[r] = "none"
    /\ row[r] # None /\ row[r].status = "approved" => gateway[r] = "approved"

(* The last charge of a key is still going to be committed, or it was. *)
InHand(r) == gateway[r] = "approved" /\ row[r] # None /\ pc[r] \notin OrphanPhases
Safe(k) == payments[k] # None \/ \E r \in ChargesUnder(k) : InHand(r)

Counted ==
  \A k \in Keys :
    /\ IsFiniteSet(ChargesUnder(k))
    /\ Cardinality(ChargesUnder(k)) <= failures + (IF Safe(k) THEN 1 ELSE 0)

CInv == ChargedOnce /\ ApprovedRowWasCharged /\ TablesAgree /\ Counted

-----------------------------------------------------------------------------
(* Before any request nothing is charged, committed or paid but by the seed. *)
LEMMA NothingCharged == Init => CInv
  <1> SUFFICES ASSUME Init PROVE CInv
    OBVIOUS
  <1>1. ChargedOnce /\ ApprovedRowWasCharged /\ TablesAgree
    BY DEF Init, ChargedOnce, ApprovedRowWasCharged, TablesAgree, PaidFor
  <1>2. ASSUME NEW k \in Keys PROVE ChargesUnder(k) = {}
    BY DEF Init, ChargesUnder
  <1>3. failures = 0
    BY DEF Init
  <1>4. Counted
    BY <1>2, <1>3, FS_EmptySet DEF Counted
  <1> QED BY <1>1, <1>4 DEF CInv

(* A charge is the step Charge of the request itself. *)
LEMMA ChargeIsCharge ==
  ASSUME IInv, [Next]_vars, NEW r \in Requests, ChargedNow(r)
  PROVE  Charge(r, "approved")
  <1> USE DEF ChargedNow, IInv, TypeOK
  <1>1. ASSUME NEW q \in Requests, HandlerStep(q), gateway' # gateway
        PROVE  \E answer \in Outcomes : Charge(q, answer)
    BY <1>1 DEF HandlerStep, RejectMissingKey, RejectForeign, Refuse, CacheHit, CacheMiss,
       CacheError, Begin, ConnectFails, InsertRow, InsertCollides, InsertConflict,
       SelectExisting, NoSuchInvoice, LockPaid, LockPayable, GatewayFault,
       SettleApproved, SettleDeclined, CommitPayment, CommitReplay, Answer, AnswerReplay
  <1>2. ASSUME NEW q \in Requests, HandlerStep(q) PROVE Charge(r, "approved")
    <2>1. PICK answer \in Outcomes : Charge(q, answer)
      BY <1>1, <1>2
    <2>2. gateway' = [gateway EXCEPT ![q] = answer]
      BY <2>1 DEF Charge
    <2>3. q = r /\ answer = "approved"
      BY <2>2
    <2> QED BY <2>1, <2>3
  <1>3. ASSUME NEW q \in Requests,
               (\E b \in Bodies : Receive(q, b)) \/ OrphanStep(q)
                 \/ StatementFails(q) \/ ConnectionLost(q)
        PROVE  gateway' = gateway
    BY <1>3 DEF Receive, OrphanStep, OrphanAborts, OrphanCommits, StatementFails, Abort,
       ConnectionLost
  <1>4. RedisStep \/ Crash \/ ResetStart \/ ResetStep \/ ResetAborts \/ UNCHANGED vars
          => gateway' = gateway
    BY DEF RedisStep, CacheWriteLands, CacheWriteLost, CacheExpires, Crash, ResetStart,
       ResetStep, ResetLock, ResetCommit, ResetAborts, vars
  <1> QED
    BY <1>2, <1>3, <1>4 DEF Next, Quiescent

(* What one step may do to a request that is or was at the gateway. *)
Passage(q) ==
  /\ pc'[q] \in Beforehand => pc[q] \in Beforehand /\ gateway'[q] = gateway[q]
  /\ pc[q] \notin Beforehand => gateway'[q] = gateway[q] /\ body'[q] = body[q]
  /\ row'[q] # None /\ row'[q].status = "approved" =>
       gateway'[q] = gateway[q] /\ (gateway[q] = "approved" \/ (row[q] # None /\ row[q].status = "approved"))

LEMMA EveryStepPasses ==
  ASSUME IInv, [Next]_vars, NEW q \in Requests
  PROVE  Passage(q)
  <1> USE SentinelAssumption DEF IInv, TypeOK, Goto, requestVars, tables, TxPhases, OrphanPhases,
        Passage, Beforehand, WorkingPhases, Progress
  <1>1. ASSUME NEW r \in Requests, NEW b \in Bodies, Receive(r, b) PROVE Passage(q)
    BY <1>1 DEF Receive, RowExclusive
  <1>2. ASSUME NEW r \in Requests, HandlerStep(r) PROVE Passage(q)
    <2>1. CASE RejectMissingKey(r) \/ RejectForeign(r) \/ CacheHit(r) \/ CacheMiss(r)
                 \/ CacheError(r) \/ Begin(r) \/ ConnectFails(r)
      BY <2>1 DEF RejectMissingKey, RejectForeign, Refuse, CacheHit, CacheMiss,
         CacheError, Begin, ConnectFails, MayLookUp
    <2>2. CASE InsertConflict(r) \/ SelectExisting(r) \/ CommitReplay(r) \/ Answer(r) \/ AnswerReplay(r)
      BY <2>2 DEF InsertConflict, SelectExisting, CommitReplay, Answer, AnswerReplay
    <2>3. CASE \E id \in PaymentIds : InsertRow(r, id)
      BY <2>3 DEF InsertRow, PendingRow
    <2>4. CASE NoSuchInvoice(r) \/ LockPaid(r) \/ SettleDeclined(r)
      <3>1. PICK invoiceStatus \in Statuses \union {"unknown"} : Decide(r, "declined", invoiceStatus)
        BY <2>4 DEF NoSuchInvoice, LockPaid, SettleDeclined, Statuses, Matches
      <3>2. row[r] # None /\ pc[r] \in WorkingPhases /\ UNCHANGED <<body, gateway>>
        BY <2>4 DEF NoSuchInvoice, LockPaid, LockedForUpdate, SettleDeclined
      <3>3. row'[r].status = "declined" /\ \A p \in Requests \ {r} : row'[p] = row[p]
        BY <3>1, <3>2, DecisionTypes DEF Outcomes
      <3> QED BY <3>1, <3>2, <3>3 DEF Decide
    <2>5. CASE SettleApproved(r)
      <3>1. Decide(r, "approved", "paid") /\ UNCHANGED <<body, gateway>> /\ pc[r] = "settling"
        BY <2>5 DEF SettleApproved
      <3>2. gateway[r] = "approved" /\ row[r] # None
        BY <2>5, <3>1 DEF SettleApproved, Settles
      <3>3. \A p \in Requests \ {r} : row'[p] = row[p]
        BY <3>1, <3>2, DecisionTypes DEF Outcomes, Statuses
      <3> QED BY <3>1, <3>2, <3>3 DEF Decide
    <2>6. CASE LockPayable(r)
      BY <2>6 DEF LockPayable, LockedForUpdate
    <2>7. CASE \E answer \in Outcomes : Charge(r, answer)
      BY <2>7 DEF Charge, LocksProtect, HoldsItsLock
    <2>8. CASE (\E id \in PaymentIds : InsertCollides(r, id))
                 \/ (\E code \in {500, 504} : GatewayFault(r, code))
      BY <2>8 DEF InsertCollides, GatewayFault, Abort, Rollback
    <2>9. CASE CommitPayment(r)
      BY <2>9 DEF CommitPayment, Persist, Rollback
    <2> QED
      BY <1>2, <2>1, <2>2, <2>3, <2>4, <2>5, <2>6, <2>7, <2>8, <2>9 DEF HandlerStep
  <1>3. ASSUME NEW r \in Requests, OrphanStep(r) \/ StatementFails(r) PROVE Passage(q)
    BY <1>3 DEF OrphanStep, OrphanAborts, OrphanCommits, StatementFails, Abort, Persist, Rollback
  <1>4. ASSUME NEW r \in Requests, ConnectionLost(r) PROVE Passage(q)
    BY <1>4 DEF ConnectionLost, Orphaned
  <1>5. CASE Crash
    BY <1>5 DEF Crash, Orphaned
  <1>6. CASE RedisStep \/ ResetStart \/ ResetStep \/ ResetAborts \/ UNCHANGED vars
    <2>1. UNCHANGED <<pc, body, row, gateway>>
      BY <1>6 DEF RedisStep, CacheWriteLands, CacheWriteLost, CacheExpires, ResetStart,
         ResetStep, ResetLock, ResetCommit, ResetAborts, vars
    <2> QED BY <2>1
  <1> QED
    BY <1>1, <1>2, <1>3, <1>4, <1>5, <1>6 DEF Next, Quiescent

(* A failure is counted, once; without one a request in hand stays in hand until
   its COMMIT. *)
KeptInHand(q) ==
  \/ row'[q] # None /\ pc'[q] \notin OrphanPhases
  \/ failures' = failures + 1
  \/ payments'[body[q].key] # None

LEMMA OnlyFailuresLoseCharges ==
  ASSUME IInv, ChargedOnce, [Next]_vars
  PROVE  /\ failures' = failures \/ failures' = failures + 1
         /\ \A q \in Requests : InHand(q) => KeptInHand(q)
  <1>1. failures' = failures \/ failures' = failures + 1
    <2> USE DEF requestVars, tables, redisVars, adminVars
    <2>1. ASSUME NEW r \in Requests, HandlerStep(r) PROVE failures' = failures
      BY <2>1 DEF HandlerStep, RejectMissingKey, RejectForeign, Refuse, CacheHit, CacheMiss,
         CacheError, Begin, ConnectFails, InsertRow, InsertCollides, InsertConflict,
         SelectExisting, NoSuchInvoice, LockPaid, LockPayable, Charge, GatewayFault,
         SettleApproved, SettleDeclined, CommitPayment, CommitReplay, Answer, AnswerReplay
    <2>2. ASSUME NEW r \in Requests,
                 (\E b \in Bodies : Receive(r, b)) \/ OrphanStep(r)
                   \/ StatementFails(r) \/ ConnectionLost(r)
          PROVE  failures' = failures \/ failures' = failures + 1
      BY <2>2 DEF Receive, OrphanStep, OrphanAborts, OrphanCommits, StatementFails, ConnectionLost
    <2>3. CASE RedisStep \/ Crash \/ ResetStart \/ ResetStep \/ ResetAborts \/ UNCHANGED vars
      BY <2>3 DEF RedisStep, CacheWriteLands, CacheWriteLost, CacheExpires, Crash, ResetStart,
         ResetStep, ResetLock, ResetCommit, ResetAborts, vars
    <2> QED BY <2>1, <2>2, <2>3 DEF Next, Quiescent
  <1>2. ASSUME NEW q \in Requests, InHand(q) PROVE KeptInHand(q)
    <2> USE SentinelAssumption DEF IInv, TypeOK, Goto, requestVars, tables, TxPhases, OrphanPhases,
          Beforehand, WorkingPhases, Progress, InHand, KeptInHand
    <2>1. /\ row[q] # None /\ pc[q] \in {"settling", "committing"}
          /\ body[q] \in Content /\ body[q].key \in Keys
      BY <1>2 DEF RowExclusive, ChargedOnce
    <2>2. ASSUME NEW r \in Requests, HandlerStep(r) PROVE KeptInHand(q)
      <3>1. CASE r # q
        <4>1. pc'[q] = pc[q] /\ row'[q] = row[q]
          BY <2>2, <3>1 DEF HandlerStep, RejectMissingKey, RejectForeign, Refuse, CacheHit, CacheMiss,
             CacheError, Begin, ConnectFails, InsertRow, InsertCollides, InsertConflict,
             SelectExisting, NoSuchInvoice, LockPaid, LockPayable, Charge, GatewayFault,
             SettleApproved, SettleDeclined, CommitPayment, CommitReplay, Answer, AnswerReplay,
             Decide, Abort, Persist, Rollback, LockedForUpdate
        <4> QED BY <4>1, <2>1
      <3>2. CASE r = q /\ (SettleApproved(r) \/ SettleDeclined(r))
        <4>1. PICK status \in Outcomes, invoiceStatus \in Statuses \union {"unknown"} :
                Decide(q, status, invoiceStatus)
          BY <3>2 DEF SettleApproved, SettleDeclined, Outcomes, Statuses, Matches
        <4> QED BY <2>1, <4>1, DecisionTypes DEF Decide
      <3>3. CASE r = q /\ CommitPayment(r)
        <4>1. payments'[body[q].key] = row[q]
          BY <2>1, <3>3 DEF CommitPayment, Persist
        <4> QED BY <2>1, <4>1
      <3>4. r = q => SettleApproved(r) \/ SettleDeclined(r) \/ CommitPayment(r)
        BY <2>1, <2>2 DEF HandlerStep, RejectMissingKey, RejectForeign, CacheHit, CacheMiss, CacheError,
           Begin, ConnectFails, InsertRow, InsertCollides, InsertConflict, SelectExisting,
           NoSuchInvoice, LockPaid, LockPayable, LockedForUpdate, Charge, GatewayFault,
           CommitReplay, Answer, AnswerReplay, MayLookUp
      <3> QED BY <3>1, <3>2, <3>3, <3>4
    <2>3. ASSUME NEW r \in Requests, NEW b \in Bodies, Receive(r, b) PROVE KeptInHand(q)
      BY <2>1, <2>3 DEF Receive
    <2>4. ASSUME NEW r \in Requests, OrphanStep(r) PROVE KeptInHand(q)
      BY <2>1, <2>4 DEF OrphanStep, OrphanAborts, OrphanCommits, Persist, Rollback
    <2>5. CASE Crash \/ \E r \in Requests : StatementFails(r) \/ ConnectionLost(r)
      BY <2>5 DEF Crash, StatementFails, ConnectionLost
    <2>6. CASE RedisStep \/ ResetStart \/ ResetStep \/ ResetAborts \/ UNCHANGED vars
      BY <2>1, <2>6, Bystanders
    <2> QED BY <2>2, <2>3, <2>4, <2>5, <2>6 DEF Next, Quiescent
  <1> QED BY <1>1, <1>2

-----------------------------------------------------------------------------
LEMMA StepKeepsChargedOnce == IInv /\ ChargedOnce /\ [Next]_vars => ChargedOnce'
  BY EveryStepPasses DEF ChargedOnce, Passage

(* A charge stays under its key. *)
LEMMA ChargesLast ==
  ASSUME IInv, ChargedOnce, [Next]_vars, NEW k \in Keys
  PROVE  ChargesUnder(k) \subseteq ChargesUnder(k)'
  <1>1. ASSUME NEW r \in Requests, gateway[r] = "approved"
        PROVE  gateway'[r] = "approved" /\ body'[r] = body[r]
    <2>1. pc[r] \notin Beforehand
      BY <1>1 DEF ChargedOnce
    <2> QED BY <1>1, <2>1, EveryStepPasses DEF Passage
  <1> QED BY <1>1 DEF ChargesUnder

LEMMA StepKeepsRowsCharged ==
  IInv /\ ChargedOnce /\ ApprovedRowWasCharged /\ [Next]_vars => ApprovedRowWasCharged'
  <1> SUFFICES ASSUME IInv, ChargedOnce, ApprovedRowWasCharged, [Next]_vars,
                      NEW k \in Keys, payments'[k] # None, payments'[k].status = "approved"
               PROVE  /\ \E r \in ChargesUnder(k)' : body'[r].invoice = payments'[k].invoice
                      /\ payments'[k].amount = Due[payments'[k].invoice]
    BY DEF ApprovedRowWasCharged
  <1>1. \A r \in ChargesUnder(k) : r \in ChargesUnder(k)' /\ body'[r] = body[r]
    <2>1. \A r \in ChargesUnder(k) : r \in Requests /\ pc[r] \notin Beforehand
      BY DEF ChargesUnder, ChargedOnce
    <2> QED BY <2>1, ChargesLast, EveryStepPasses DEF Passage
  <1>2. CASE payments'[k] = payments[k]
    BY <1>1, <1>2 DEF ApprovedRowWasCharged
  <1>3. CASE payments'[k] # payments[k]
    <2>1. PICK r \in Requests : row[r] # None /\ Persist(r)
      BY <1>3, LedgerWriters
    <2>2. body[r].key = k /\ payments'[k] = row[r]
      BY <1>3, <2>1 DEF Persist, IInv, TypeOK
    <2>3. r \in ChargesUnder(k) /\ row[r].status = "approved"
      BY <2>1, <2>2 DEF ChargedOnce, ChargesUnder
    <2>4. row[r].invoice = body[r].invoice /\ row[r].amount = body[r].amount
          /\ Due[body[r].invoice] = body[r].amount
      BY <2>1, <2>3 DEF IInv, LocksProtect, HoldsItsLock
    <2> QED BY <1>1, <2>2, <2>3, <2>4
  <1> QED BY <1>2, <1>3

(* Who writes the invoices: a COMMIT, for its own, and the reset. *)
LEMMA InvoiceWriters ==
  [Next]_vars =>
    \/ UNCHANGED <<payments, invoices>> /\ (resets' = resets \/ resets' = resets + 1)
    \/ \E r \in Requests : row[r] # None /\ Persist(r) /\ resets' = resets
    \/ invoices' = [i \in Invoices |-> "pending"] /\ resets' = resets + 1 /\ payments' = payments
  <1> USE DEF tables, requestVars, vars, adminVars
  <1>1. ASSUME NEW r \in Requests, HandlerStep(r), ~CommitPayment(r)
        PROVE  UNCHANGED <<payments, invoices, resets>>
    BY <1>1 DEF HandlerStep, RejectMissingKey, RejectForeign, Refuse, CacheHit, CacheMiss,
       CacheError, Begin, ConnectFails, InsertRow, InsertCollides, InsertConflict,
       SelectExisting, NoSuchInvoice, LockPaid, LockPayable, Charge, GatewayFault,
       SettleApproved, SettleDeclined, CommitReplay, Answer, AnswerReplay
  <1>2. ASSUME NEW r \in Requests, CommitPayment(r) \/ OrphanStep(r)
        PROVE  \/ UNCHANGED <<payments, invoices, resets>>
               \/ row[r] # None /\ Persist(r) /\ resets' = resets
    BY <1>2 DEF CommitPayment, OrphanStep, OrphanAborts, OrphanCommits
  <1>3. ASSUME NEW r \in Requests, (\E b \in Bodies : Receive(r, b)) \/ StatementFails(r) \/ ConnectionLost(r)
        PROVE  UNCHANGED <<payments, invoices, resets>>
    BY <1>3 DEF Receive, StatementFails, ConnectionLost
  <1>4. CASE RedisStep \/ Crash \/ ResetStart \/ ResetStep \/ ResetAborts \/ UNCHANGED vars
    BY <1>4 DEF RedisStep, CacheWriteLands, CacheWriteLost, CacheExpires, Crash, ResetStart,
       ResetStep, ResetLock, ResetCommit, ResetAborts
  <1> QED BY <1>1, <1>2, <1>3, <1>4 DEF Next, Quiescent

LEMMA StepKeepsTables == IInv /\ TablesAgree /\ [Next]_vars => TablesAgree'
  <1> SUFFICES ASSUME IInv, TablesAgree, [Next]_vars, NEW i \in Invoices
               PROVE  /\ invoices'[i] = "paid" => SeedStatus[i] = "paid" \/ PaidFor(i)'
                      /\ resets' = 0 /\ PaidFor(i)' => invoices'[i] = "paid"
    BY DEF TablesAgree
  <1>1. PaidFor(i) => PaidFor(i)'
    BY LedgerGrows DEF PaidFor
  <1>2. resets \in Nat /\ invoices \in [Invoices -> Statuses]
    BY BoundAssumption DEF IInv, TypeOK
  <1>3. CASE UNCHANGED <<payments, invoices>> /\ (resets' = resets \/ resets' = resets + 1)
    BY <1>2, <1>3 DEF TablesAgree, PaidFor
  <1>4. ASSUME NEW r \in Requests, row[r] # None, Persist(r), resets' = resets
        PROVE  /\ invoices'[i] = "paid" => SeedStatus[i] = "paid" \/ PaidFor(i)'
               /\ resets' = 0 /\ PaidFor(i)' => invoices'[i] = "paid"
    <2>1. /\ body[r].key \in Keys /\ payments'[body[r].key] = row[r]
          /\ \A k \in Keys : k # body[r].key => payments'[k] = payments[k]
      BY <1>4 DEF Persist, IInv, TypeOK, RowExclusive
    <2>2. CASE row[r].status = "approved"
      <3>1. row[r].invoice \in Invoices /\ invoices' = [invoices EXCEPT ![row[r].invoice] = "paid"]
        BY <1>4, <2>2 DEF Persist, IInv, LocksProtect, HoldsItsLock, Matches
      <3>2. CASE row[r].invoice = i
        BY <1>2, <1>4, <2>1, <2>2, <3>1, <3>2 DEF PaidFor
      <3>3. CASE row[r].invoice # i
        <4>1. invoices'[i] = invoices[i] /\ (PaidFor(i)' => PaidFor(i))
          BY <1>2, <2>1, <3>1, <3>3 DEF PaidFor
        <4> QED BY <1>1, <1>4, <4>1 DEF TablesAgree
      <3> QED BY <3>2, <3>3
    <2>3. CASE row[r].status # "approved"
      <3>1. invoices' = invoices /\ (PaidFor(i)' => PaidFor(i))
        BY <1>4, <2>1, <2>3 DEF Persist, PaidFor
      <3> QED BY <1>1, <1>4, <3>1 DEF TablesAgree
    <2> QED BY <2>2, <2>3
  <1>5. CASE invoices' = [j \in Invoices |-> "pending"] /\ resets' = resets + 1
    BY <1>2, <1>5
  <1> QED BY <1>3, <1>4, <1>5, InvoiceWriters

(* The count: a charge more means a failure more, or the first charge. *)
LEMMA StepKeepsCount == IInv /\ ChargedOnce /\ Counted /\ [Next]_vars => Counted'
  <1> SUFFICES ASSUME IInv, ChargedOnce, Counted, [Next]_vars, NEW k \in Keys
               PROVE  /\ IsFiniteSet(ChargesUnder(k)')
                      /\ Cardinality(ChargesUnder(k)') <= failures' + (IF Safe(k)' THEN 1 ELSE 0)
    BY DEF Counted
  <1> DEFINE S == ChargesUnder(k)
             T == ChargesUnder(k)'
  <1>1. S \subseteq T /\ IsFiniteSet(S) /\ Cardinality(S) \in Nat
    BY ChargesLast, FS_CardinalityType DEF Counted
  <1>2. failures \in Nat /\ (failures' = failures \/ failures' = failures + 1)
    BY BoundAssumption, OnlyFailuresLoseCharges DEF IInv, TypeOK
  <1>3. Cardinality(S) <= failures + (IF Safe(k) THEN 1 ELSE 0)
    BY DEF Counted
  <1>4. CASE T = S
    <2>1. CASE Safe(k) /\ ~Safe(k)'
      <3>1. payments[k] = None
        BY <2>1, LedgerGrows DEF Safe
      <3>2. PICK r \in S : InHand(r)
        BY <2>1, <3>1 DEF Safe
      <3>3. r \in Requests /\ body[r].key = k /\ r \in T
        BY <1>1, <3>2 DEF ChargesUnder
      <3>4. gateway'[r] = "approved"
        BY <3>3 DEF ChargesUnder
      <3>5. failures' = failures + 1
        BY <2>1, <3>2, <3>3, <3>4, OnlyFailuresLoseCharges DEF KeptInHand, Safe, InHand
      <3> QED BY <1>1, <1>2, <1>3, <1>4, <2>1, <3>5
    <2>2. CASE Safe(k) => Safe(k)'
      BY <1>1, <1>2, <1>3, <1>4, <2>2
    <2> QED BY <2>1, <2>2
  <1>5. CASE T # S
    <2>1. PICK r \in T : r \notin S
      BY <1>1, <1>5
    <2>2. r \in Requests /\ gateway'[r] = "approved" /\ body'[r].key = k
      BY <2>1 DEF ChargesUnder
    <2>3. ChargedNow(r)
      <3>1. gateway[r] = "approved" => body'[r] = body[r]
        BY <2>2, EveryStepPasses DEF ChargedOnce, Passage
      <3> QED BY <2>1, <2>2, <3>1 DEF ChargedNow, ChargesUnder
    <2>4. Charge(r, "approved")
      BY <2>2, <2>3, ChargeIsCharge
    <2>5. /\ pc[r] = "charging" /\ pc'[r] = "settling" /\ gateway' = [gateway EXCEPT ![r] = "approved"]
          /\ UNCHANGED <<body, row, payments>>
      BY <2>2, <2>4 DEF Charge, Goto, tables, IInv, TypeOK
    <2>6. row[r] # None /\ payments[k] = None
      BY <2>2, <2>5 DEF IInv, Progress, WorkingPhases, RowExclusive
    <2>7. ~Safe(k)
      <3>1. \A q \in S : q # r => row[q] = None
        BY <2>2, <2>5, <2>6 DEF IInv, RowExclusive, ChargesUnder
      <3> QED BY <2>1, <2>6, <3>1 DEF Safe, InHand
    <2>8. Safe(k)'
      BY <2>1, <2>2, <2>5, <2>6 DEF Safe, InHand, OrphanPhases
    <2>9. T = S \union {r}
      BY <2>1, <2>2, <2>5, <1>1 DEF ChargesUnder, IInv, TypeOK
    <2>10. IsFiniteSet(T) /\ Cardinality(T) = Cardinality(S) + 1
      <3> HIDE DEF S, T
      <3> QED BY <1>1, <2>1, <2>9, FS_AddElement
    <2> QED BY <1>1, <1>2, <1>3, <2>7, <2>8, <2>10
  <1> QED BY <1>4, <1>5

-----------------------------------------------------------------------------
(* The invariant of this module holds in every reachable state. *)
THEOREM ChargesInvariance == Spec => []CInv
  <1>1. IInv /\ CInv /\ [Next]_vars => CInv'
    BY StepKeepsChargedOnce, StepKeepsRowsCharged, StepKeepsTables, StepKeepsCount DEF CInv
  <1> QED BY NothingCharged, <1>1, Invariance, PTL DEF Spec

(* A key is charged at most once more than failures have struck: there is no other
   way to charge it again (payments.ts:187, db.ts:28). *)
THEOREM ChargesAreBounded == Spec => []ChargesBounded
  <1>1. IInv /\ CInv => ChargesBounded
    <2> SUFFICES ASSUME IInv, CInv, NEW k \in Keys PROVE Cardinality(ChargesUnder(k)) <= 1 + failures
      BY DEF ChargesBounded
    <2>1. Cardinality(ChargesUnder(k)) \in Nat /\ failures \in Nat
      BY BoundAssumption, FS_CardinalityType DEF CInv, Counted, IInv, TypeOK
    <2>2. Cardinality(ChargesUnder(k)) <= failures + (IF Safe(k) THEN 1 ELSE 0)
      BY DEF CInv, Counted
    <2> QED BY <2>1, <2>2
  <1> QED BY <1>1, Invariance, ChargesInvariance, PTL

(* What the table calls approved was approved by the gateway, under that key and for
   what the invoice is due (payments.ts:187-193). *)
THEOREM ApprovalsAreBacked == Spec => []ApprovedRowWasCharged
  <1>1. CInv => ApprovedRowWasCharged
    BY DEF CInv
  <1> QED BY <1>1, ChargesInvariance, PTL

(* Payments and invoices tell one story: paid by the seed or by an approved payment
   (payments.ts:190-193). *)
THEOREM TablesTellOneStory == Spec => []TablesAgree
  <1>1. CInv => TablesAgree
    BY DEF CInv
  <1> QED BY <1>1, ChargesInvariance, PTL

-----------------------------------------------------------------------------
(* PaidOncePerReset counts; the count is inductive with what the invoice says
   now: an invoice that is open again was opened by a reset. *)
SeedPays(i) == IF SeedStatus[i] = "paid" THEN 1 ELSE 0
PaysNow(i) == IF invoices[i] = "paid" THEN 1 ELSE 0

PaymentsCounted ==
  \A i \in Invoices :
    /\ IsFiniteSet(ApprovalsOf(i))
    /\ Cardinality(ApprovalsOf(i)) + SeedPays(i) <= resets + PaysNow(i)

LEMMA NothingApproved == Init => PaymentsCounted
  <1> SUFFICES ASSUME Init, NEW i \in Invoices
               PROVE  /\ IsFiniteSet(ApprovalsOf(i))
                      /\ Cardinality(ApprovalsOf(i)) + SeedPays(i) <= resets + PaysNow(i)
    BY DEF PaymentsCounted
  <1>1. ApprovalsOf(i) = {}
    BY DEF Init, ApprovalsOf
  <1>2. IsFiniteSet(ApprovalsOf(i)) /\ Cardinality(ApprovalsOf(i)) = 0
    BY <1>1, FS_EmptySet
  <1>3. resets = 0 /\ invoices = SeedStatus
    BY DEF Init
  <1> QED BY <1>2, <1>3 DEF SeedPays, PaysNow

(* A COMMIT adds one approval, to an invoice that was not paid and now is. *)
LEMMA CommitKeepsPaymentsCounted ==
  ASSUME IInv, PaymentsCounted, NEW r \in Requests, row[r] # None, Persist(r), resets' = resets
  PROVE  PaymentsCounted'
  <1> SUFFICES ASSUME NEW i \in Invoices
               PROVE  /\ IsFiniteSet(ApprovalsOf(i)')
                      /\ Cardinality(ApprovalsOf(i)') + SeedPays(i) <= resets + PaysNow(i)'
    BY DEF PaymentsCounted, SeedPays
  <1> DEFINE k == body[r].key
             S == ApprovalsOf(i)
             T == ApprovalsOf(i)'
  <1>1. /\ k \in Keys /\ payments[k] = None /\ payments'[k] = row[r]
        /\ \A j \in Keys : j # k => payments'[j] = payments[j]
    BY DEF Persist, IInv, TypeOK, RowExclusive
  <1>2. k \notin S
    BY <1>1 DEF ApprovalsOf
  <1>3. /\ IsFiniteSet(S) /\ Cardinality(S) \in Nat /\ resets \in Nat
        /\ Cardinality(S) + SeedPays(i) <= resets + PaysNow(i)
    BY BoundAssumption, FS_CardinalityType DEF PaymentsCounted, IInv, TypeOK
  <1>4. CASE row[r].status = "approved" /\ row[r].invoice = i
    <2>1. invoices[i] # "paid" /\ invoices'[i] = "paid"
      BY <1>4 DEF Persist, IInv, TypeOK, LocksProtect, HoldsItsLock
    <2>2. T = S \union {k}
      BY <1>1, <1>4 DEF ApprovalsOf
    <2>3. IsFiniteSet(T) /\ Cardinality(T) = Cardinality(S) + 1
      BY <1>2, <1>3, <2>2, FS_AddElement
    <2> QED BY <1>3, <2>1, <2>3 DEF PaysNow, SeedPays
  <1>5. CASE ~(row[r].status = "approved" /\ row[r].invoice = i)
    <2>1. T = S
      BY <1>1, <1>5 DEF ApprovalsOf
    <2>2. invoices'[i] = invoices[i]
      BY <1>5 DEF Persist, IInv, TypeOK
    <2> QED BY <1>3, <2>1, <2>2 DEF PaysNow
  <1> QED BY <1>4, <1>5

LEMMA StepKeepsPaymentsCounted == IInv /\ PaymentsCounted /\ [Next]_vars => PaymentsCounted'
  <1> SUFFICES ASSUME IInv, PaymentsCounted, [Next]_vars PROVE PaymentsCounted'
    OBVIOUS
  <1>1. ASSUME NEW i \in Invoices
        PROVE  /\ IsFiniteSet(ApprovalsOf(i)) /\ Cardinality(ApprovalsOf(i)) \in Nat
               /\ resets \in Nat
               /\ Cardinality(ApprovalsOf(i)) + SeedPays(i) <= resets + PaysNow(i)
    BY BoundAssumption, FS_CardinalityType DEF PaymentsCounted, IInv, TypeOK
  <1>2. ASSUME payments' = payments, NEW i \in Invoices PROVE ApprovalsOf(i)' = ApprovalsOf(i)
    BY <1>2 DEF ApprovalsOf
  <1>3. CASE UNCHANGED <<payments, invoices>> /\ (resets' = resets \/ resets' = resets + 1)
    <2>1. ASSUME NEW i \in Invoices
          PROVE  /\ IsFiniteSet(ApprovalsOf(i)')
                 /\ Cardinality(ApprovalsOf(i)') + SeedPays(i)' <= resets' + PaysNow(i)'
      BY <1>1, <1>2, <1>3 DEF PaysNow, SeedPays
    <2> QED BY <2>1 DEF PaymentsCounted
  <1>4. CASE invoices' = [i \in Invoices |-> "pending"] /\ resets' = resets + 1 /\ payments' = payments
    <2>1. ASSUME NEW i \in Invoices
          PROVE  /\ IsFiniteSet(ApprovalsOf(i)')
                 /\ Cardinality(ApprovalsOf(i)') + SeedPays(i)' <= resets' + PaysNow(i)'
      BY <1>1, <1>2, <1>4 DEF PaysNow, SeedPays
    <2> QED BY <2>1 DEF PaymentsCounted
  <1> QED BY <1>3, <1>4, CommitKeepsPaymentsCounted, InvoiceWriters

(* payments.ts:122-133 and 190-193, admin.ts:67-71: an invoice is paid once, the
   seed included, and once more per reset: no competing key, retry, orphaned
   COMMIT or aborted reset ever pays it twice. *)
THEOREM InvoicesArePaidOnce == Spec => []PaidOncePerReset
  <1>1. Spec => []PaymentsCounted
    BY NothingApproved, StepKeepsPaymentsCounted, Invariance, PTL DEF Spec
  <1>2. IInv /\ PaymentsCounted => PaidOncePerReset
    <2> SUFFICES ASSUME IInv, PaymentsCounted, NEW i \in Invoices
                 PROVE  Cardinality(ApprovalsOf(i)) + SeedPays(i) <= 1 + resets
      BY DEF PaidOncePerReset, SeedPays
    <2>1. Cardinality(ApprovalsOf(i)) \in Nat /\ resets \in Nat
      BY BoundAssumption, FS_CardinalityType DEF PaymentsCounted, IInv, TypeOK
    <2>2. Cardinality(ApprovalsOf(i)) + SeedPays(i) <= resets + PaysNow(i)
      BY DEF PaymentsCounted
    <2> QED BY <2>1, <2>2 DEF SeedPays, PaysNow
  <1> QED BY <1>1, <1>2, Invariance, PTL

-----------------------------------------------------------------------------
(* Who may announce a decision: the request whose COMMIT persisted it, from then
   until it answers and ever after.  Its key is in the ledger, so that no later
   INSERT of the key can lead to another announcement. *)
Announces(r) == pc[r] = "answering" \/ FirstAnswer(r)

Announced ==
  \A r \in Requests :
    /\ FirstAnswer(r) => pc[r] = "done"
    /\ Announces(r) => /\ body[r] \in Content /\ body[r].key \in Keys
                       /\ payments[body[r].key] # None
                       /\ \A q \in Requests :
                            Announces(q) /\ body[q].key = body[r].key => q = r

(* "answering" is reached by a COMMIT, and 201 or 402 is said from there only. *)
LEMMA HowAnnounced ==
  ASSUME IInv, [Next]_vars, NEW r \in Requests
  PROVE  /\ pc'[r] = "answering" => pc[r] = "answering" \/ CommitPayment(r)
         /\ \/ reply'[r] = reply[r]
            \/ reply'[r].code \notin {201, 402}
            \/ pc[r] = "answering" /\ pc'[r] = "done"
  <1> USE DEF IInv, TypeOK, Goto, Respond, Refuse, Abort, requestVars, TxPhases, OrphanPhases
  <1> DEFINE Goal(q) ==
        /\ pc'[q] = "answering" => pc[q] = "answering" \/ CommitPayment(q)
        /\ \/ reply'[q] = reply[q]
           \/ reply'[q].code \notin {201, 402}
           \/ pc[q] = "answering" /\ pc'[q] = "done"
  <1>1. ASSUME NEW q \in Requests, NEW b \in Bodies, Receive(q, b) PROVE Goal(r)
    BY <1>1 DEF Receive
  <1>2. ASSUME NEW q \in Requests, HandlerStep(q) PROVE Goal(r)
    <2>1. CASE RejectMissingKey(q) \/ RejectForeign(q) \/ CacheError(q) \/ ConnectFails(q)
                 \/ CacheHit(q)
      BY <2>1 DEF RejectMissingKey, RejectForeign, CacheError, ConnectFails, CacheHit
    <2>2. CASE CacheMiss(q) \/ Begin(q) \/ (\E id \in PaymentIds : InsertRow(q, id))
                 \/ InsertConflict(q) \/ LockPayable(q) \/ SelectExisting(q)
                 \/ (\E answer \in Outcomes : Charge(q, answer)) \/ CommitReplay(q)
      BY <2>2 DEF CacheMiss, Begin, InsertRow, InsertConflict, LockPayable, LockedForUpdate,
         SelectExisting, Charge, CommitReplay
    <2>3. CASE NoSuchInvoice(q) \/ LockPaid(q) \/ SettleApproved(q) \/ SettleDeclined(q)
      BY <2>3 DEF NoSuchInvoice, LockPaid, LockedForUpdate, SettleApproved, SettleDeclined,
         Decide
    <2>4. CASE (\E id \in PaymentIds : InsertCollides(q, id))
                 \/ (\E code \in {500, 504} : GatewayFault(q, code))
      BY <2>4 DEF InsertCollides, GatewayFault
    <2>5. CASE CommitPayment(q)
      <3>1. pc' = [pc EXCEPT ![q] = "answering"] /\ reply' = reply
        BY <2>5 DEF CommitPayment
      <3> QED BY <2>5, <3>1
    <2>6. CASE Answer(q) \/ AnswerReplay(q)
      BY <2>6 DEF Answer, AnswerReplay
    <2> QED
      BY <1>2, <2>1, <2>2, <2>3, <2>4, <2>5, <2>6 DEF HandlerStep
  <1>3. ASSUME NEW q \in Requests, OrphanStep(q) \/ StatementFails(q) \/ ConnectionLost(q)
        PROVE  Goal(r)
    BY <1>3 DEF OrphanStep, OrphanAborts, OrphanCommits, StatementFails, ConnectionLost, Orphaned
  <1>4. CASE Crash
    BY <1>4 DEF Crash, Orphaned
  <1>5. CASE RedisStep \/ ResetStart \/ ResetStep \/ ResetAborts \/ UNCHANGED vars
    BY <1>5, Bystanders
  <1>6. Goal(r)
    BY <1>1, <1>2, <1>3, <1>4, <1>5 DEF Next, Quiescent
  <1> QED
    BY <1>6

LEMMA StepKeepsAnnounced == IInv /\ Announced /\ [Next]_vars => Announced'
  <1> SUFFICES ASSUME IInv, Announced, [Next]_vars PROVE Announced'
    OBVIOUS
  <1>1. ASSUME NEW r \in Requests, FirstAnswer(r)' PROVE pc'[r] = "done"
    BY <1>1, HowAnnounced, AnswersComeFrom DEF Announced, FirstAnswer
  <1>2. ASSUME NEW r \in Requests, Announces(r)'
        PROVE  (Announces(r) \/ CommitPayment(r)) /\ body'[r] = body[r]
    <2>1. CASE pc'[r] = "answering"
      <3>1. Announces(r) \/ CommitPayment(r)
        BY <2>1, HowAnnounced DEF Announces
      <3>2. pc[r] # "idle"
        BY <2>1, HowAnnounced DEF CommitPayment
      <3> QED BY <3>1, <3>2, AnswersComeFrom
    <2>2. CASE FirstAnswer(r)'
      <3>1. Announces(r)
        BY <2>2, HowAnnounced DEF Announces, FirstAnswer
      <3>2. pc[r] # "idle"
        BY <3>1 DEF Announces, Announced
      <3> QED BY <3>1, <3>2, AnswersComeFrom
    <2> QED BY <1>2, <2>1, <2>2 DEF Announces
  <1>3. ASSUME NEW r \in Requests, CommitPayment(r)
        PROVE  /\ body[r] \in Content /\ body[r].key \in Keys
               /\ payments[body[r].key] = None /\ payments'[body[r].key] # None
    BY <1>3 DEF CommitPayment, Persist, IInv, TypeOK, RowExclusive
  <1>4. ASSUME NEW r \in Requests, CommitPayment(r),
               NEW q \in Requests \ {r}, CommitPayment(q)
        PROVE  FALSE
    BY <1>4 DEF CommitPayment, Goto, IInv, TypeOK
  <1>5. ASSUME NEW r \in Requests, Announces(r)'
        PROVE  /\ body'[r] \in Content /\ body'[r].key \in Keys
               /\ payments'[body'[r].key] # None
    BY <1>2, <1>3, <1>5, LedgerGrows DEF Announced
  <1>6. ASSUME NEW r \in Requests, NEW q \in Requests, Announces(r)', Announces(q)',
               body'[q].key = body'[r].key
        PROVE  q = r
    <2>1. body[q].key = body[r].key
      BY <1>2, <1>6
    <2>2. CASE Announces(r) /\ Announces(q)
      BY <2>1, <2>2 DEF Announced
    <2>3. CASE ~Announces(r) \/ ~Announces(q)
      BY <1>2, <1>3, <1>4, <1>6, <2>1, <2>3 DEF Announced
    <2> QED BY <2>2, <2>3
  <1> QED BY <1>1, <1>5, <1>6 DEF Announced

(* payments.ts:149-160: of all the requests of a key, one is told 201 or 402;
   every other is told of a replay or of a failure. *)
THEOREM DecisionsAreAnnouncedOnce == Spec => []AnnouncedOnce
  <1>1. Init => Announced
    BY DEF Init, Announced, Announces, FirstAnswer
  <1>2. IInv /\ Announced => AnnouncedOnce
    BY DEF Announced, AnnouncedOnce, Announces
  <1> QED BY <1>1, <1>2, StepKeepsAnnounced, Invariance, PTL DEF Spec
=============================================================================
