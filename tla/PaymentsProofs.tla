--------------------------- MODULE PaymentsProofs ---------------------------
(***************************************************************************)
(* Invariance proofs for module Payments, for any number of requests,      *)
(* keys, invoices, failures and resets.                                    *)
(***************************************************************************)
EXTENDS PaymentsInvariant, TLAPS

(* The seed data with no request in sight satisfies the invariant. *)
LEMMA InitEstablishes == Init => IInv
  <1> SUFFICES ASSUME Init PROVE IInv
    OBVIOUS
  <1>1. TypeOK /\ ResetBudget
    BY DataAssumption, BoundAssumption DEF Init, TypeOK, ResetBudget, Phases
  <1>2. BodyKnown
    BY DEF Init, BodyKnown, KeyedPhases, TxPhases
  <1>3. RowExclusive /\ Progress /\ ResultAgrees
    BY DEF Init, RowExclusive, Progress, ResultAgrees, WorkingPhases
  <1>4. ToldIsDone /\ ReplyMatchesLedger /\ CacheMatchesLedger
    BY DEF Init, ToldIsDone, Told, ReplyMatchesLedger, CacheMatchesLedger
  <1>5. LocksProtect /\ IdsExclusive
    BY DEF Init, LocksProtect, HoldsItsLock, AtGateway, IdsExclusive
  <1> QED
    BY <1>1, <1>2, <1>3, <1>4, <1>5 DEF IInv

(* The UPDATE of a payment's status and the handler's result are well formed. *)
LEMMA DecisionTypes ==
  ASSUME TypeOK, NEW r \in Requests, NEW status \in Outcomes,
         NEW invoiceStatus \in Statuses \union {"unknown"},
         row[r] # None, Decide(r, status, invoiceStatus)
  PROVE  /\ row' \in [Requests -> Rows \union {None}]
         /\ result' \in [Requests -> Results \union {None}]
         /\ pc' \in [Requests -> Phases]
         /\ result'[r] # None /\ row'[r] # None
         /\ result'[r].id = row'[r].id /\ result'[r].status = row'[r].status
         /\ row'[r].status = status /\ row'[r].invoice = row[r].invoice
         /\ row'[r].customer = row[r].customer /\ row'[r].amount = row[r].amount
         /\ \A q \in Requests \ {r} : row'[q] = row[q] /\ result'[q] = result[q]
  <1> DEFINE newRow == [row[r] EXCEPT !.status = status]
             newResult == [id |-> row[r].id, status |-> status, invoiceStatus |-> invoiceStatus]
  <1>1. row[r] \in Rows
    BY DEF TypeOK
  <1>2. newRow \in Rows /\ newRow.id = row[r].id /\ newRow.status = status
          /\ newRow.invoice = row[r].invoice /\ newRow.customer = row[r].customer
          /\ newRow.amount = row[r].amount
    BY <1>1 DEF Rows
  <1>3. newResult \in Results
    BY <1>1 DEF Rows, Results
  <1>4. row' = [row EXCEPT ![r] = newRow] /\ result' = [result EXCEPT ![r] = newResult]
    BY DEF Decide
  <1>5. newRow # None /\ newResult # None
    BY <1>2, <1>3, SentinelAssumption
  <1> QED
    BY <1>2, <1>3, <1>4, <1>5 DEF TypeOK, Decide, Goto, Phases, TxPhases

(* A replay reads a decided payment. *)
LEMMA ReplayTypes ==
  ASSUME IInv, NEW r \in Requests, SelectExisting(r)
  PROVE  /\ result' \in [Requests -> Results \union {None}]
         /\ result'[r] # None
         /\ row[r] = None
         /\ Agrees(body[r].key, result'[r])
  <1> DEFINE p == payments[body[r].key]
             newResult == [id |-> p.id, status |-> p.status,
                           invoiceStatus |-> InvoiceStatusNow(p.invoice)]
  <1>1. p \in Rows /\ p.status # "pending" /\ p # None
    BY DEF IInv, TypeOK, SelectExisting, Progress, BodyKnown, KeyedPhases, TxPhases
  <1>2. InvoiceStatusNow(p.invoice) \in Statuses \union {"unknown"}
    BY DEF IInv, TypeOK, InvoiceStatusNow
  <1>3. newResult \in Results
    BY <1>1, <1>2 DEF Rows, Results, Outcomes
  <1>4. result' = [result EXCEPT ![r] = newResult]
    BY DEF SelectExisting
  <1>5. newResult # None
    BY <1>3, SentinelAssumption
  <1>6. row[r] = None
    BY DEF IInv, SelectExisting, RowExclusive, WorkingPhases, OrphanPhases
  <1> QED
    BY <1>1, <1>3, <1>4, <1>5, <1>6 DEF IInv, TypeOK, Agrees

(* Every step keeps every variable in its range. *)
LEMMA StepKeepsTypes == IInv /\ [Next]_vars => TypeOK'
  <1> SUFFICES ASSUME IInv, [Next]_vars PROVE TypeOK'
    OBVIOUS
  <1> USE DataAssumption, BoundAssumption
  <1> USE DEF IInv, TypeOK, Goto, Respond, Phases, Replies, Codes, tables, redisVars,
        adminVars, requestVars
  <1>1. ASSUME NEW r \in Requests, NEW b \in Bodies, Receive(r, b) PROVE TypeOK'
    BY <1>1 DEF Receive
  <1>2. ASSUME NEW r \in Requests, NEW code \in Codes, Refuse(r, code) PROVE TypeOK'
    BY <1>2 DEF Refuse
  <1>3. ASSUME NEW r \in Requests, CacheHit(r) PROVE TypeOK'
    BY <1>3 DEF CacheHit, MayLookUp, HasKey, BodyKnown, Content, OrphanPhases
  <1>4. ASSUME NEW r \in Requests, CacheMiss(r) PROVE TypeOK'
    BY <1>4 DEF CacheMiss
  <1>5. ASSUME NEW r \in Requests, Begin(r) PROVE TypeOK'
    BY <1>5 DEF Begin, TxPhases
  <1>6. ASSUME NEW r \in Requests, NEW id \in PaymentIds, InsertRow(r, id) PROVE TypeOK'
    <2>1. body[r] \in Content
      BY <1>6 DEF InsertRow, BodyKnown, OrphanPhases
    <2>2. PendingRow(r, id) \in Rows
      BY <2>1 DEF PendingRow, Content, Rows
    <2> QED
      BY <1>6, <2>2 DEF InsertRow, TxPhases
  <1>7. ASSUME NEW r \in Requests, NEW code \in Codes, Abort(r, code),
               UNCHANGED <<body, result, tables, redisVars, gateway, adminVars, failures>>
        PROVE TypeOK'
    BY <1>7 DEF Abort, Rollback, Unlocked
  <1>8. ASSUME NEW r \in Requests, InsertConflict(r) PROVE TypeOK'
    BY <1>8 DEF InsertConflict, TxPhases
  <1>9. ASSUME NEW r \in Requests, SelectExisting(r) PROVE TypeOK'
    BY <1>9, ReplayTypes DEF SelectExisting, TxPhases
  <1>11. ASSUME NEW r \in Requests, NoSuchInvoice(r) PROVE TypeOK'
    BY DecisionTypes, <1>11 DEF NoSuchInvoice, Progress, WorkingPhases, Outcomes
  <1>12. ASSUME NEW r \in Requests, LockPaid(r) PROVE TypeOK'
    BY DecisionTypes, <1>12 DEF LockPaid, LockedForUpdate, Progress, WorkingPhases, Outcomes, Statuses
  <1>13. ASSUME NEW r \in Requests, LockPayable(r) PROVE TypeOK'
    BY <1>13 DEF LockPayable, LockedForUpdate, TxPhases
  <1>14. ASSUME NEW r \in Requests, NEW answer \in Outcomes, Charge(r, answer) PROVE TypeOK'
    BY <1>14 DEF Charge, TxPhases
  <1>15. ASSUME NEW r \in Requests, SettleApproved(r) PROVE TypeOK'
    BY DecisionTypes, <1>15 DEF SettleApproved, Progress, WorkingPhases, Outcomes, Statuses
  <1>16. ASSUME NEW r \in Requests, SettleDeclined(r) PROVE TypeOK'
    BY DecisionTypes, <1>16 DEF SettleDeclined, Progress, WorkingPhases, Outcomes, Matches
  <1>17. ASSUME NEW r \in Requests, row[r] # None, row[r].status # "pending", Persist(r)
         PROVE  /\ payments' \in [Keys -> {p \in Rows : p.status # "pending"} \union {None}]
                /\ invoices' \in [Invoices -> Statuses]
                /\ row' \in [Requests -> Rows \union {None}]
                /\ lockedBy' \in [Invoices -> Requests \union {Admin, None}]
    BY <1>17 DEF Persist, Rollback, Unlocked, Statuses
  <1>18. ASSUME NEW r \in Requests, CommitPayment(r) PROVE TypeOK'
    BY <1>17, <1>18 DEF CommitPayment, Progress
  <1>19. ASSUME NEW r \in Requests, CommitReplay(r) PROVE TypeOK'
    BY <1>19 DEF CommitReplay
  <1>20. ASSUME NEW r \in Requests, Answer(r) PROVE TypeOK'
    <2>1. result[r] \in Results /\ body[r].key \in Keys
      BY <1>20 DEF Answer, ResultAgrees, BodyKnown, KeyedPhases
    <2> QED
      BY <1>20, <2>1 DEF Answer
  <1>21. ASSUME NEW r \in Requests, AnswerReplay(r) PROVE TypeOK'
    BY <1>21 DEF AnswerReplay
  <1>22. ASSUME RedisStep PROVE TypeOK'
    BY <1>22 DEF RedisStep, CacheWriteLands, CacheWriteLost, CacheExpires
  <1>23. ASSUME NEW r \in Requests, ConnectionLost(r) PROVE TypeOK'
    BY <1>23 DEF ConnectionLost, Orphaned, OrphanPhases
  <1>32. ASSUME NEW r \in Requests, StatementFails(r) PROVE TypeOK'
    BY <1>32 DEF StatementFails, Abort, Rollback, Unlocked
  <1>24. ASSUME Crash PROVE TypeOK'
    BY <1>24 DEF Crash, Orphaned, OrphanPhases
  <1>25. ASSUME NEW r \in Requests, OrphanAborts(r) PROVE TypeOK'
    BY <1>25 DEF OrphanAborts, Rollback, Unlocked
  <1>26. ASSUME NEW r \in Requests, OrphanCommits(r) PROVE TypeOK'
    BY <1>17, <1>26 DEF OrphanCommits, Progress
  <1>27. ASSUME ResetStart PROVE TypeOK'
    BY <1>27 DEF ResetStart
  <1>28. ASSUME ResetStep PROVE TypeOK'
    BY <1>28 DEF ResetStep, ResetLock, ResetCommit, ResetBudget, Unlocked, Statuses
  <1>29. ASSUME ResetAborts PROVE TypeOK'
    BY <1>29 DEF ResetAborts, Unlocked
  <1>30. CASE UNCHANGED vars
    BY <1>30 DEF vars
  <1>31. ASSUME NEW r \in Requests, HandlerStep(r) PROVE TypeOK'
    BY <1>2, <1>3, <1>4, <1>5, <1>6, <1>7, <1>8, <1>9, <1>11, <1>12, <1>13, <1>14,
       <1>15, <1>16, <1>18, <1>19, <1>20, <1>21, <1>31
       DEF HandlerStep, RejectMissingKey, RejectForeign, CacheError, ConnectFails,
           InsertCollides, GatewayFault
  <1> QED
    BY <1>1, <1>22, <1>23, <1>24, <1>25, <1>26, <1>27, <1>28, <1>29, <1>30, <1>31,
       <1>32 DEF Next, OrphanStep, Quiescent

(* The steps that write the payments table are the COMMITs of an open row. *)
LEMMA LedgerWriters ==
  [Next]_vars =>
    payments' = payments \/ (\E r \in Requests : row[r] # None /\ Persist(r))
  <1> USE DEF tables, requestVars, vars
  <1>1. ASSUME NEW r \in Requests, HandlerStep(r), ~CommitPayment(r)
        PROVE  payments' = payments
    BY <1>1 DEF HandlerStep, RejectMissingKey, RejectForeign, Refuse, CacheHit, CacheMiss,
       CacheError, Begin, ConnectFails, InsertRow, InsertCollides, InsertConflict,
       SelectExisting, NoSuchInvoice, LockPaid, LockPayable, Charge, GatewayFault,
       SettleApproved, SettleDeclined, CommitReplay, Answer, AnswerReplay
  <1>2. ASSUME NEW r \in Requests, CommitPayment(r) \/ OrphanStep(r)
        PROVE  payments' = payments \/ (row[r] # None /\ Persist(r))
    BY <1>2 DEF CommitPayment, OrphanStep, OrphanAborts, OrphanCommits
  <1>3. RedisStep \/ Crash \/ ResetStart \/ ResetStep \/ ResetAborts => payments' = payments
    BY DEF RedisStep, CacheWriteLands, CacheWriteLost, CacheExpires, Crash, ResetStart,
       ResetStep, ResetLock, ResetCommit, ResetAborts
  <1> QED
    BY <1>1, <1>2, <1>3 DEF Next, Receive, StatementFails, ConnectionLost, Quiescent

(* A decision is final: a committed row is never overwritten or removed. *)
LEMMA LedgerGrows ==
  IInv /\ [Next]_vars =>
    \A k \in Keys : payments[k] # None => payments'[k] = payments[k]
  BY LedgerWriters DEF IInv, TypeOK, RowExclusive, Persist

(* What agreed with the ledger goes on agreeing with it. *)
LEMMA AgreementLasts ==
  IInv /\ [Next]_vars =>
    \A k \in Keys : \A res : Agrees(k, res) => Agrees(k, res)'
  BY LedgerGrows DEF Agrees

(* The steps outside any handler leave every request where it is. *)
LEMMA Bystanders ==
  RedisStep \/ ResetStart \/ ResetStep \/ ResetAborts \/ UNCHANGED vars =>
    UNCHANGED requestVars /\ payments' = payments
  BY DEF RedisStep, CacheWriteLands, CacheWriteLost, CacheExpires, ResetStart, ResetStep,
     ResetLock, ResetCommit, ResetAborts, vars, requestVars, tables

(* A request keeps its body once it has one, and every guard is passed once. *)
LEMMA StepKeepsBodies == IInv /\ [Next]_vars => BodyKnown'
  <1> SUFFICES ASSUME IInv, [Next]_vars PROVE BodyKnown'
    OBVIOUS
  <1> USE DataAssumption DEF IInv, TypeOK, BodyKnown, KeyedPhases, TxPhases, OrphanPhases,
        Goto, requestVars, tables
  <1>1. ASSUME NEW r \in Requests, NEW b \in Bodies, Receive(r, b) PROVE BodyKnown'
    BY <1>1 DEF Receive
  <1>2. ASSUME NEW r \in Requests, HandlerStep(r) PROVE BodyKnown'
    BY <1>2 DEF HandlerStep, RejectMissingKey, RejectForeign, Refuse, CacheHit, CacheMiss,
       CacheError, Begin, ConnectFails, InsertRow, InsertCollides, InsertConflict,
       SelectExisting, NoSuchInvoice, LockPaid, LockPayable, Charge, GatewayFault, Abort,
       SettleApproved, SettleDeclined, CommitPayment, CommitReplay, Answer, AnswerReplay,
       Decide, MayLookUp, HasKey, Content, LockedForUpdate
  <1>3. ASSUME NEW r \in Requests, OrphanStep(r) \/ StatementFails(r) \/ ConnectionLost(r)
        PROVE  BodyKnown'
    BY <1>3 DEF OrphanStep, OrphanAborts, OrphanCommits, StatementFails, Abort,
       ConnectionLost, Orphaned
  <1>4. CASE Crash
    BY <1>4 DEF Crash, Orphaned
  <1>5. CASE RedisStep \/ ResetStart \/ ResetStep \/ ResetAborts \/ UNCHANGED vars
    BY <1>5, Bystanders
  <1> QED
    BY <1>1, <1>2, <1>3, <1>4, <1>5 DEF Next, Quiescent

(* The unique index: an open row is alone under an undecided key. *)
LEMMA StepKeepsRowsExclusive == IInv /\ [Next]_vars => RowExclusive'
  <1> SUFFICES ASSUME IInv, [Next]_vars PROVE RowExclusive'
    OBVIOUS
  <1> USE SentinelAssumption DEF IInv, TypeOK, RowExclusive, BodyKnown, KeyedPhases, TxPhases,
        OrphanPhases, WorkingPhases, Goto, requestVars, tables
  <1>1. ASSUME NEW r \in Requests, NEW b \in Bodies, Receive(r, b) PROVE RowExclusive'
    BY <1>1 DEF Receive
  <1>2. ASSUME NEW r \in Requests, NEW id \in PaymentIds, InsertRow(r, id) PROVE RowExclusive'
    BY <1>2 DEF InsertRow, KeyAvailable, KeyCommitted, KeyInFlight
  <1>3. ASSUME NEW r \in Requests, NEW status \in Outcomes, pc[r] \in WorkingPhases,
               UNCHANGED <<body, payments>>,
               NEW invoiceStatus, Decide(r, status, invoiceStatus)
        PROVE  RowExclusive'
    BY <1>3 DEF Decide, Progress
  <1>4. ASSUME NEW r \in Requests, row[r] # None, Persist(r),
               pc' = [pc EXCEPT ![r] = "answering"] \/ pc' = [pc EXCEPT ![r] = "done"],
               UNCHANGED body
        PROVE  RowExclusive'
    BY <1>4 DEF Persist, Rollback
  <1>5. ASSUME NEW r \in Requests, Rollback(r), Goto(r, "done"), UNCHANGED <<body, payments>>
        PROVE  RowExclusive'
    BY <1>5 DEF Rollback
  <1>6. ASSUME NEW r \in Requests, HandlerStep(r) PROVE RowExclusive'
    <2>1. CASE NoSuchInvoice(r) \/ LockPaid(r) \/ SettleApproved(r) \/ SettleDeclined(r)
      BY <2>1, <1>3 DEF NoSuchInvoice, LockPaid, LockedForUpdate, SettleApproved,
         SettleDeclined, Outcomes
    <2>2. CASE CommitPayment(r)
      BY <2>2, <1>4 DEF CommitPayment
    <2>3. CASE (\E id \in PaymentIds : InsertCollides(r, id))
                 \/ (\E code \in {500, 504} : GatewayFault(r, code))
      BY <2>3, <1>5 DEF InsertCollides, GatewayFault, Abort
    <2>4. CASE RejectMissingKey(r) \/ RejectForeign(r) \/ CacheHit(r) \/ CacheMiss(r)
                 \/ CacheError(r) \/ Begin(r) \/ ConnectFails(r)
      BY <2>4 DEF RejectMissingKey, RejectForeign, Refuse, CacheHit, CacheMiss, CacheError,
         Begin, ConnectFails, MayLookUp
    <2>5. CASE InsertConflict(r) \/ SelectExisting(r) \/ LockPayable(r)
                 \/ (\E answer \in Outcomes : Charge(r, answer))
      BY <2>5 DEF InsertConflict, SelectExisting, LockPayable, LockedForUpdate, Charge
    <2>6. CASE CommitReplay(r) \/ Answer(r) \/ AnswerReplay(r)
      BY <2>6 DEF CommitReplay, Answer, AnswerReplay
    <2> QED
      BY <1>6, <1>2, <2>1, <2>2, <2>3, <2>4, <2>5, <2>6 DEF HandlerStep
  <1>7. ASSUME NEW r \in Requests, OrphanStep(r) PROVE RowExclusive'
    BY <1>7, <1>4, <1>5 DEF OrphanStep, OrphanAborts, OrphanCommits
  <1>8. ASSUME NEW r \in Requests, ConnectionLost(r) PROVE RowExclusive'
    BY <1>8 DEF ConnectionLost, Orphaned
  <1>11. ASSUME NEW r \in Requests, StatementFails(r) PROVE RowExclusive'
    BY <1>11, <1>5 DEF StatementFails, Abort
  <1>9. CASE Crash
    BY <1>9 DEF Crash, Orphaned
  <1>10. CASE RedisStep \/ ResetStart \/ ResetStep \/ ResetAborts \/ UNCHANGED vars
    BY <1>10, Bystanders
  <1> QED
    BY <1>1, <1>6, <1>7, <1>8, <1>9, <1>10, <1>11 DEF Next, Quiescent

(* Each phase has done what the next one relies on. *)
LEMMA StepKeepsProgress == IInv /\ [Next]_vars => Progress'
  <1> SUFFICES ASSUME IInv, [Next]_vars PROVE Progress'
    OBVIOUS
  <1>0. \A k \in Keys : payments[k] # None => payments'[k] # None
    BY LedgerGrows
  <1> USE SentinelAssumption, <1>0 DEF IInv, TypeOK, RowExclusive, BodyKnown, KeyedPhases,
        TxPhases, OrphanPhases, WorkingPhases, Progress, Matches, Goto, requestVars, tables
  <1>1. ASSUME NEW r \in Requests, NEW b \in Bodies, Receive(r, b) PROVE Progress'
    BY <1>1 DEF Receive
  <1>2. ASSUME NEW r \in Requests, NEW id \in PaymentIds, InsertRow(r, id) PROVE Progress'
    BY <1>2 DEF InsertRow, PendingRow, Rows, Content
  <1>3. ASSUME NEW r \in Requests, NEW status \in Outcomes, pc[r] \in WorkingPhases,
               UNCHANGED body, NEW invoiceStatus, Decide(r, status, invoiceStatus)
        PROVE  Progress'
    <2>1. row'[r].status = status /\ \A q \in Requests \ {r} : row'[q] = row[q]
      BY <1>3 DEF Decide, Rows
    <2> QED
      BY <1>3, <2>1 DEF Decide, Outcomes
  <1>4. ASSUME NEW r \in Requests, Rollback(r), UNCHANGED body,
               pc' = [pc EXCEPT ![r] = "answering"] \/ pc' = [pc EXCEPT ![r] = "done"]
        PROVE  Progress'
    BY <1>4 DEF Rollback
  <1>5. ASSUME NEW r \in Requests, HandlerStep(r) PROVE Progress'
    <2>1. CASE NoSuchInvoice(r) \/ LockPaid(r) \/ SettleApproved(r) \/ SettleDeclined(r)
      BY <2>1, <1>3 DEF NoSuchInvoice, LockPaid, LockedForUpdate, SettleApproved,
         SettleDeclined, Outcomes
    <2>2. CASE CommitPayment(r)
      BY <2>2, <1>4 DEF CommitPayment, Persist
    <2>3. CASE (\E id \in PaymentIds : InsertCollides(r, id))
                 \/ (\E code \in {500, 504} : GatewayFault(r, code))
      BY <2>3, <1>4 DEF InsertCollides, GatewayFault, Abort
    <2>4. CASE RejectMissingKey(r) \/ RejectForeign(r) \/ CacheHit(r) \/ CacheMiss(r)
                 \/ CacheError(r) \/ Begin(r) \/ ConnectFails(r)
      BY <2>4 DEF RejectMissingKey, RejectForeign, Refuse, CacheHit, CacheMiss, CacheError,
         Begin, ConnectFails, MayLookUp
    <2>5. CASE InsertConflict(r) \/ SelectExisting(r) \/ LockPayable(r)
                 \/ (\E answer \in Outcomes : Charge(r, answer))
      BY <2>5 DEF InsertConflict, KeyCommitted, SelectExisting, LockPayable, LockedForUpdate,
         Charge
    <2>6. CASE CommitReplay(r) \/ Answer(r) \/ AnswerReplay(r)
      BY <2>6 DEF CommitReplay, Answer, AnswerReplay
    <2> QED
      BY <1>5, <1>2, <2>1, <2>2, <2>3, <2>4, <2>5, <2>6 DEF HandlerStep
  <1>6. ASSUME NEW r \in Requests, OrphanStep(r) PROVE Progress'
    BY <1>6, <1>4 DEF OrphanStep, OrphanAborts, OrphanCommits, Persist
  <1>7. ASSUME NEW r \in Requests, ConnectionLost(r) PROVE Progress'
    BY <1>7 DEF ConnectionLost, Orphaned
  <1>10. ASSUME NEW r \in Requests, StatementFails(r) PROVE Progress'
    BY <1>10, <1>4 DEF StatementFails, Abort
  <1>8. CASE Crash
    BY <1>8 DEF Crash, Orphaned
  <1>9. CASE RedisStep \/ ResetStart \/ ResetStep \/ ResetAborts \/ UNCHANGED vars
    BY <1>9, Bystanders
  <1> QED
    BY <1>1, <1>5, <1>6, <1>7, <1>8, <1>9, <1>10 DEF Next, Quiescent

(* A COMMIT publishes exactly the result its handler will send. *)
LEMMA CommitPublishes ==
  ASSUME IInv, NEW r \in Requests, pc[r] = "committing", row[r] # None, Persist(r)
  PROVE  UNCHANGED <<body, result>> => Agrees(body[r].key, result[r])'
  BY DEF IInv, TypeOK, RowExclusive, ResultAgrees, Persist, Agrees

(* A handler's result agrees with the ledger from COMMIT on. *)
LEMMA StepKeepsResults == IInv /\ [Next]_vars => ResultAgrees'
  <1> SUFFICES ASSUME IInv, [Next]_vars PROVE ResultAgrees'
    OBVIOUS
  <1>0. \A k \in Keys : \A res : Agrees(k, res) => Agrees(k, res)'
    BY AgreementLasts
  <1> USE SentinelAssumption, <1>0 DEF IInv, TypeOK, RowExclusive, BodyKnown, KeyedPhases,
        TxPhases, OrphanPhases, WorkingPhases, ResultAgrees, Goto, requestVars, tables
  <1>1. ASSUME NEW r \in Requests, NEW b \in Bodies, Receive(r, b) PROVE ResultAgrees'
    BY <1>1 DEF Receive
  <1>2. ASSUME NEW r \in Requests, pc' = [pc EXCEPT ![r] = "done"],
               \A q \in Requests \ {r} : row'[q] = row[q], UNCHANGED <<body, result>>
        PROVE  ResultAgrees'
    BY <1>2
  <1>3. ASSUME NEW r \in Requests, NEW status \in Outcomes, row[r] # None,
               NEW invoiceStatus \in Statuses \union {"unknown"}, UNCHANGED body,
               Decide(r, status, invoiceStatus)
        PROVE  ResultAgrees'
    <2>1. pc' = [pc EXCEPT ![r] = "committing"]
      BY <1>3 DEF Decide
    <2>2. /\ result'[r] # None /\ row'[r] # None
          /\ result'[r].id = row'[r].id /\ result'[r].status = row'[r].status
          /\ \A q \in Requests \ {r} : row'[q] = row[q] /\ result'[q] = result[q]
      BY <1>3, DecisionTypes
    <2> QED
      BY <1>3, <2>1, <2>2
  <1>4. ASSUME NEW r \in Requests, SelectExisting(r) PROVE ResultAgrees'
    <2>1. result'[r] # None /\ row[r] = None /\ Agrees(body[r].key, result'[r])
      BY <1>4, ReplayTypes
    <2>2. Agrees(body[r].key, result[r])'
      BY <1>4, <2>1 DEF SelectExisting, Agrees
    <2>3. /\ pc' = [pc EXCEPT ![r] = "committing"]
          /\ UNCHANGED <<row, body>>
          /\ \A q \in Requests \ {r} : result'[q] = result[q]
      BY <1>4 DEF SelectExisting
    <2> QED
      BY <2>1, <2>2, <2>3
  <1>5. ASSUME NEW r \in Requests, CommitPayment(r) PROVE ResultAgrees'
    <2>1. Agrees(body[r].key, result[r])'
      BY <1>5, CommitPublishes DEF CommitPayment
    <2> QED
      BY <1>5, <2>1 DEF CommitPayment, Persist, Rollback
  <1>6. ASSUME NEW r \in Requests, HandlerStep(r) PROVE ResultAgrees'
    <2>1. CASE NoSuchInvoice(r) \/ LockPaid(r) \/ SettleApproved(r) \/ SettleDeclined(r)
      BY <2>1, <1>3 DEF NoSuchInvoice, LockPaid, LockedForUpdate, SettleApproved,
         SettleDeclined, Outcomes, Statuses, Progress, Matches
    <2>2. CASE (\E id \in PaymentIds : InsertCollides(r, id))
                 \/ (\E code \in {500, 504} : GatewayFault(r, code))
      BY <2>2, <1>2 DEF InsertCollides, GatewayFault, Abort, Rollback
    <2>3. CASE RejectMissingKey(r) \/ RejectForeign(r) \/ CacheHit(r) \/ CacheError(r)
                 \/ ConnectFails(r) \/ Answer(r) \/ AnswerReplay(r)
      BY <2>3, <1>2 DEF RejectMissingKey, RejectForeign, Refuse, CacheHit, CacheError,
         ConnectFails, Answer, AnswerReplay
    <2>4. CASE CacheMiss(r) \/ Begin(r) \/ (\E id \in PaymentIds : InsertRow(r, id))
      BY <2>4 DEF CacheMiss, Begin, InsertRow
    <2>5. CASE InsertConflict(r) \/ LockPayable(r) \/ (\E answer \in Outcomes : Charge(r, answer))
      BY <2>5 DEF InsertConflict, LockPayable, LockedForUpdate, Charge
    <2>6. CASE CommitReplay(r)
      BY <2>6 DEF CommitReplay
    <2> QED
      BY <1>6, <1>4, <1>5, <2>1, <2>2, <2>3, <2>4, <2>5, <2>6 DEF HandlerStep
  <1>7. ASSUME NEW r \in Requests, OrphanStep(r) PROVE ResultAgrees'
    BY <1>7, <1>2 DEF OrphanStep, OrphanAborts, OrphanCommits, Persist, Rollback
  <1>8. ASSUME NEW r \in Requests, ConnectionLost(r) PROVE ResultAgrees'
    BY <1>8 DEF ConnectionLost, Orphaned
  <1>11. ASSUME NEW r \in Requests, StatementFails(r) PROVE ResultAgrees'
    BY <1>11, <1>2 DEF StatementFails, Abort, Rollback
  <1>9. CASE Crash
    BY <1>9 DEF Crash, Orphaned
  <1>10. CASE RedisStep \/ ResetStart \/ ResetStep \/ ResetAborts \/ UNCHANGED vars
    BY <1>10, Bystanders
  <1> QED
    BY <1>1, <1>6, <1>7, <1>8, <1>9, <1>10, <1>11 DEF Next, Quiescent

(* How a step may answer: with no result, with one Redis holds, or with the one
   its handler computed. *)
LEMMA AnswersComeFrom ==
  ASSUME IInv, [Next]_vars, NEW r \in Requests
  PROVE  /\ pc[r] # "idle" => body'[r] = body[r]
         /\ pc[r] = "done" => pc'[r] = "done"
         /\ \/ reply'[r] = reply[r]
            \/ reply'[r].result = None
            \/ MayLookUp(r) /\ reply'[r].result = cache[body[r].key]
                 /\ cache[body[r].key] # None /\ pc'[r] = "done"
            \/ pc[r] \in {"answering", "echoing"} /\ reply'[r].result = result[r]
                 /\ pc'[r] = "done"
  <1> USE DEF IInv, TypeOK, Goto, Respond, Refuse, Abort, requestVars, TxPhases, OrphanPhases
  <1> DEFINE Goal(q) ==
        /\ pc[q] # "idle" => body'[q] = body[q]
        /\ pc[q] = "done" => pc'[q] = "done"
        /\ \/ reply'[q] = reply[q]
           \/ reply'[q].result = None
           \/ MayLookUp(q) /\ reply'[q].result = cache[body[q].key]
                /\ cache[body[q].key] # None /\ pc'[q] = "done"
           \/ pc[q] \in {"answering", "echoing"} /\ reply'[q].result = result[q]
                /\ pc'[q] = "done"
  <1>1. ASSUME NEW q \in Requests, NEW b \in Bodies, Receive(q, b) PROVE Goal(r)
    BY <1>1 DEF Receive
  <1>2. ASSUME NEW q \in Requests, HandlerStep(q) PROVE Goal(r)
    <2>1. CASE RejectMissingKey(q) \/ RejectForeign(q) \/ CacheError(q) \/ ConnectFails(q)
      BY <2>1 DEF RejectMissingKey, RejectForeign, CacheError, ConnectFails, MayLookUp
    <2>2. CASE CacheHit(q)
      BY <2>2 DEF CacheHit, MayLookUp
    <2>3. CASE CacheMiss(q) \/ Begin(q) \/ (\E id \in PaymentIds : InsertRow(q, id))
                 \/ InsertConflict(q) \/ LockPayable(q) \/ SelectExisting(q)
                 \/ (\E answer \in Outcomes : Charge(q, answer))
      BY <2>3 DEF CacheMiss, Begin, InsertRow, InsertConflict, LockPayable, LockedForUpdate,
         SelectExisting, Charge, MayLookUp
    <2>4. CASE NoSuchInvoice(q) \/ LockPaid(q) \/ SettleApproved(q) \/ SettleDeclined(q)
      BY <2>4 DEF NoSuchInvoice, LockPaid, LockedForUpdate, SettleApproved, SettleDeclined,
         Decide
    <2>5. CASE (\E id \in PaymentIds : InsertCollides(q, id))
                 \/ (\E code \in {500, 504} : GatewayFault(q, code))
      BY <2>5 DEF InsertCollides, GatewayFault
    <2>6. CASE CommitPayment(q) \/ CommitReplay(q)
      BY <2>6 DEF CommitPayment, CommitReplay
    <2>7. CASE Answer(q) \/ AnswerReplay(q)
      BY <2>7 DEF Answer, AnswerReplay
    <2> QED
      BY <1>2, <2>1, <2>2, <2>3, <2>4, <2>5, <2>6, <2>7 DEF HandlerStep
  <1>3. ASSUME NEW q \in Requests, OrphanStep(q) \/ StatementFails(q) \/ ConnectionLost(q)
        PROVE  Goal(r)
    BY <1>3 DEF OrphanStep, OrphanAborts, OrphanCommits, StatementFails, ConnectionLost
  <1>4. CASE Crash
    BY <1>4 DEF Crash
  <1>5. CASE RedisStep \/ ResetStart \/ ResetStep \/ ResetAborts \/ UNCHANGED vars
    BY <1>5, Bystanders
  <1>6. Goal(r)
    BY <1>1, <1>2, <1>3, <1>4, <1>5 DEF Next, Quiescent
  <1> QED
    BY <1>6

(* No step makes Redis hold, or carry, what the ledger does not say. *)
LEMMA StepKeepsCache == IInv /\ [Next]_vars => CacheMatchesLedger'
  <1> SUFFICES ASSUME IInv, [Next]_vars PROVE CacheMatchesLedger'
    OBVIOUS
  <1>0. \A k \in Keys : \A res : Agrees(k, res) => Agrees(k, res)'
    BY AgreementLasts
  <1> USE DEF IInv, TypeOK, redisVars
  <1>1. CASE UNCHANGED redisVars
    BY <1>0, <1>1 DEF CacheMatchesLedger
  <1>2. ASSUME NEW r \in Requests, Answer(r) PROVE CacheMatchesLedger'
    <2>1. body[r].key \in Keys /\ Agrees(body[r].key, result[r])
      BY <1>2 DEF Answer, BodyKnown, KeyedPhases, ResultAgrees
    <2>2. Agrees(body[r].key, result[r])' /\ UNCHANGED <<body, result>>
      BY <1>0, <1>2, <2>1 DEF Answer, Agrees
    <2>3. Agrees(body[r].key, result[r]) =>
            \A w \in cacheWrites' : w \in cacheWrites \/ Agrees(w.key, w.result)
      BY <1>2 DEF Answer
    <2> QED
      BY <1>0, <1>2, <2>1, <2>3 DEF Answer, CacheMatchesLedger
  <1>3. CASE RedisStep
    BY <1>0, <1>3 DEF RedisStep, CacheWriteLands, CacheWriteLost, CacheExpires,
       CacheMatchesLedger
  <1>4. ASSUME NEW r \in Requests, HandlerStep(r), ~Answer(r) PROVE UNCHANGED redisVars
    BY <1>4 DEF HandlerStep, RejectMissingKey, RejectForeign, Refuse, CacheHit, CacheMiss,
       CacheError, Begin, ConnectFails, InsertRow, InsertCollides, InsertConflict,
       SelectExisting, NoSuchInvoice, LockPaid, LockPayable, Charge, GatewayFault,
       SettleApproved, SettleDeclined, CommitPayment, CommitReplay, AnswerReplay
  <1>5. ASSUME NEW r \in Requests,
               (\E b \in Bodies : Receive(r, b)) \/ OrphanStep(r)
                 \/ StatementFails(r) \/ ConnectionLost(r)
        PROVE  UNCHANGED redisVars
    BY <1>5 DEF Receive, OrphanStep, OrphanAborts, OrphanCommits, StatementFails, Abort,
       ConnectionLost
  <1>6. Crash \/ ResetStart \/ ResetStep \/ ResetAborts \/ UNCHANGED vars => UNCHANGED redisVars
    BY DEF Crash, ResetStart, ResetStep, ResetLock, ResetCommit, ResetAborts, vars
  <1> QED
    BY <1>1, <1>2, <1>3, <1>4, <1>5, <1>6 DEF Next, Quiescent

(* Only finished requests have told a result. *)
LEMMA StepKeepsTold == IInv /\ [Next]_vars => ToldIsDone'
  <1> SUFFICES ASSUME IInv, [Next]_vars, NEW r \in Requests, Told(r)'
               PROVE  (pc[r] = "done" /\ body[r] \in Content /\ body[r].key \in Keys)'
    BY DEF ToldIsDone
  <1>1. CASE Told(r)
    BY <1>1, AnswersComeFrom DEF IInv, ToldIsDone
  <1>2. CASE ~Told(r)
    BY <1>2, AnswersComeFrom
       DEF IInv, Told, MayLookUp, HasKey, BodyKnown, KeyedPhases, TxPhases, OrphanPhases, Content
  <1> QED
    BY <1>1, <1>2

(* No step tells a client anything but what the ledger says. *)
LEMMA StepKeepsReplies == IInv /\ [Next]_vars => ReplyMatchesLedger'
  <1> SUFFICES ASSUME IInv, [Next]_vars, NEW r \in Requests, Told(r)'
               PROVE  Agrees(body[r].key, reply[r].result)'
    BY DEF ReplyMatchesLedger
  <1>0. \A k \in Keys : \A res : Agrees(k, res) => Agrees(k, res)'
    BY AgreementLasts
  <1>1. CASE Told(r) /\ reply'[r] = reply[r]
    BY <1>0, <1>1, AnswersComeFrom DEF IInv, ToldIsDone, ReplyMatchesLedger
  <1>2. CASE reply'[r] # reply[r]
    BY <1>0, <1>2, AnswersComeFrom
       DEF IInv, Told, MayLookUp, HasKey, BodyKnown, KeyedPhases, TxPhases, OrphanPhases,
           Content, CacheMatchesLedger, ResultAgrees
  <1> QED
    BY <1>1, <1>2 DEF Told

(* A row lock, once taken, protects its invoice until the transaction ends. *)
LEMMA StepKeepsLocks == IInv /\ [Next]_vars => LocksProtect'
  <1> SUFFICES ASSUME IInv, [Next]_vars, NEW q \in Requests PROVE HoldsItsLock(q)'
    BY DEF LocksProtect
  <1> USE SentinelAssumption, DataAssumption DEF IInv, TypeOK, LocksProtect, HoldsItsLock,
        AtGateway, Goto, requestVars, tables, TxPhases, OrphanPhases, WorkingPhases, Matches
  <1>1. ASSUME NEW r \in Requests, NEW b \in Bodies, Receive(r, b) PROVE HoldsItsLock(q)'
    BY <1>1 DEF Receive, RowExclusive
  <1>2. ASSUME NEW r \in Requests, UNCHANGED <<body, row, lockedBy, invoices>>,
               NEW phase \in {"done", "connecting", "inserting", "replaying", "answering", "echoing"},
               pc[r] \in {"received", "connecting", "inserting", "replaying", "answering", "echoing"}
                 \/ row[r] = None,
               pc' = [pc EXCEPT ![r] = phase]
        PROVE  HoldsItsLock(q)'
    BY <1>2
  <1>3. ASSUME NEW r \in Requests, NEW id \in PaymentIds, InsertRow(r, id)
        PROVE HoldsItsLock(q)'
    BY <1>3 DEF InsertRow, PendingRow
  <1>4. ASSUME NEW r \in Requests, LockPayable(r) PROVE HoldsItsLock(q)'
    BY <1>4 DEF LockPayable, LockedForUpdate, LockFree, AlreadyPaid
  <1>5. ASSUME NEW r \in Requests, NEW answer \in Outcomes, Charge(r, answer)
        PROVE HoldsItsLock(q)'
    BY <1>5 DEF Charge
  <1>6. ASSUME NEW r \in Requests, row[r] # None, NEW status \in Outcomes,
               NEW invoiceStatus \in Statuses \union {"unknown"},
               Decide(r, status, invoiceStatus), UNCHANGED <<body, invoices>>,
               \A i \in Invoices : lockedBy[i] # None => lockedBy'[i] = lockedBy[i],
               status = "approved" => AtGateway(r) /\ Settles(r)
        PROVE  HoldsItsLock(q)'
    <2>1. pc' = [pc EXCEPT ![r] = "committing"]
      BY <1>6 DEF Decide
    <2>2. row'[r].status = status /\ row'[r].invoice = row[r].invoice
            /\ row'[r].customer = row[r].customer /\ row'[r].amount = row[r].amount
            /\ \A p \in Requests \ {r} : row'[p] = row[p]
      BY <1>6, DecisionTypes
    <2>3. CASE q = r
      BY <1>6, <2>1, <2>2, <2>3 DEF Progress, Settles
    <2>4. CASE q # r
      <3>1. row'[q] = row[q] /\ pc'[q] = pc[q]
        BY <2>1, <2>2, <2>4
      <3>2. Matches(q) /\ lockedBy[body[q].invoice] = q
              => lockedBy'[body[q].invoice] = q
        BY <1>6
      <3> QED
        BY <1>6, <3>1, <3>2 DEF Progress
    <2> QED
      BY <2>3, <2>4
  <1>7. ASSUME NEW r \in Requests, row[r] # None, Persist(r), UNCHANGED body,
               pc' = [pc EXCEPT ![r] = "answering"] \/ pc' = [pc EXCEPT ![r] = "done"]
        PROVE  HoldsItsLock(q)'
    BY <1>7 DEF Persist, Rollback, Unlocked, Progress
  <1>8. ASSUME NEW r \in Requests, Rollback(r), Goto(r, "done"), UNCHANGED <<body, invoices>>
        PROVE  HoldsItsLock(q)'
    BY <1>8 DEF Rollback, Unlocked, Progress
  <1>9. ASSUME NEW r \in Requests, HandlerStep(r) PROVE HoldsItsLock(q)'
    <2>1. CASE RejectMissingKey(r) \/ RejectForeign(r) \/ CacheHit(r) \/ CacheMiss(r)
                 \/ CacheError(r) \/ Begin(r) \/ ConnectFails(r)
      BY <2>1, <1>2 DEF RejectMissingKey, RejectForeign, Refuse, CacheHit, CacheMiss,
         CacheError, Begin, ConnectFails, MayLookUp
    <2>2. CASE InsertConflict(r) \/ CommitReplay(r) \/ Answer(r) \/ AnswerReplay(r)
      BY <2>2, <1>2 DEF InsertConflict, CommitReplay, Answer, AnswerReplay
    <2>3. CASE SelectExisting(r)
      BY <2>3, ReplayTypes DEF SelectExisting
    <2>4. CASE NoSuchInvoice(r)
      BY <2>4, <1>6 DEF NoSuchInvoice, Outcomes, Progress
    <2>5. CASE LockPaid(r)
      BY <2>5, <1>6 DEF LockPaid, LockedForUpdate, LockFree, Outcomes, Statuses, Progress
    <2>6. CASE SettleApproved(r)
      BY <2>6, <1>6 DEF SettleApproved, Outcomes, Statuses, Progress
    <2>7. CASE SettleDeclined(r)
      BY <2>7, <1>6 DEF SettleDeclined, Outcomes, Statuses, Progress
    <2>8. CASE (\E id \in PaymentIds : InsertCollides(r, id))
                 \/ (\E code \in {500, 504} : GatewayFault(r, code))
      BY <2>8, <1>8 DEF InsertCollides, GatewayFault, Abort
    <2>9. CASE CommitPayment(r)
      BY <2>9, <1>7 DEF CommitPayment
    <2> QED
      BY <1>9, <1>3, <1>4, <1>5, <2>1, <2>2, <2>3, <2>4, <2>5, <2>6, <2>7, <2>8, <2>9
         DEF HandlerStep
  <1>10. ASSUME NEW r \in Requests, OrphanStep(r) PROVE HoldsItsLock(q)'
    BY <1>10, <1>7, <1>8 DEF OrphanStep, OrphanAborts, OrphanCommits
  <1>11. ASSUME NEW r \in Requests, ConnectionLost(r) PROVE HoldsItsLock(q)'
    BY <1>11 DEF ConnectionLost, Orphaned
  <1>15. ASSUME NEW r \in Requests, StatementFails(r) PROVE HoldsItsLock(q)'
    BY <1>15, <1>8 DEF StatementFails, Abort
  <1>12. CASE Crash
    BY <1>12 DEF Crash, Orphaned
  <1>13. CASE ResetStep \/ ResetAborts
    BY <1>13 DEF ResetStep, ResetLock, ResetCommit, ResetHoldsAll, ResetAborts, Unlocked,
       LockFree, Progress
  <1>14. CASE RedisStep \/ ResetStart \/ UNCHANGED vars
    BY <1>14 DEF RedisStep, CacheWriteLands, CacheWriteLost, CacheExpires, ResetStart, vars
  <1> QED
    BY <1>1, <1>9, <1>10, <1>11, <1>12, <1>13, <1>14, <1>15 DEF Next, Quiescent

(* A payment_id is taken once: its row is open, then committed, or gone. *)
LEMMA StepKeepsIds == IInv /\ [Next]_vars => IdsExclusive'
  <1> SUFFICES ASSUME IInv, [Next]_vars PROVE IdsExclusive'
    OBVIOUS
  <1> USE SentinelAssumption DEF IInv, TypeOK, IdsExclusive, IdCommitted, Goto, requestVars,
        tables
  <1>1. ASSUME UNCHANGED <<row, payments>> PROVE IdsExclusive'
    BY <1>1
  <1>2. ASSUME NEW r \in Requests, NEW id \in PaymentIds, InsertRow(r, id) PROVE IdsExclusive'
    <2>1. PendingRow(r, id).id = id
      BY DEF PendingRow
    <2> QED
      BY <1>2, <2>1 DEF InsertRow, IdInFlight
  <1>3. ASSUME NEW r \in Requests, row[r] # None, NEW status \in Outcomes,
               NEW invoiceStatus \in Statuses \union {"unknown"},
               Decide(r, status, invoiceStatus), UNCHANGED payments
        PROVE  IdsExclusive'
    <2>1. row'[r].id = row[r].id /\ \A q \in Requests \ {r} : row'[q] = row[q]
      <3>1. /\ row' \in [Requests -> Rows \union {None}] /\ row'[r] # None
            /\ \A q \in Requests \ {r} : row'[q] = row[q]
        BY <1>3, DecisionTypes
      <3>2. row'[r] = [row[r] EXCEPT !.status = status]
        BY <1>3 DEF Decide
      <3>3. row[r] \in Rows
        BY <1>3
      <3>4. [row[r] EXCEPT !.status = status].id = row[r].id
        BY <3>3 DEF Rows
      <3> QED
        BY <3>1, <3>2, <3>4
    <2> QED
      BY <1>3, <2>1
  <1>4. ASSUME NEW r \in Requests, row[r] # None, Persist(r) PROVE IdsExclusive'
    BY <1>4 DEF Persist, Rollback, RowExclusive
  <1>5. ASSUME NEW r \in Requests, Rollback(r), UNCHANGED payments PROVE IdsExclusive'
    BY <1>5 DEF Rollback
  <1>6. ASSUME NEW r \in Requests, HandlerStep(r) PROVE IdsExclusive'
    <2>1. CASE NoSuchInvoice(r) \/ LockPaid(r) \/ SettleApproved(r) \/ SettleDeclined(r)
      BY <2>1, <1>3 DEF NoSuchInvoice, LockPaid, LockedForUpdate, SettleApproved,
         SettleDeclined, Outcomes, Statuses, Progress, WorkingPhases, Matches
    <2>2. CASE CommitPayment(r)
      BY <2>2, <1>4 DEF CommitPayment
    <2>3. CASE (\E id \in PaymentIds : InsertCollides(r, id))
                 \/ (\E code \in {500, 504} : GatewayFault(r, code))
      BY <2>3, <1>5 DEF InsertCollides, GatewayFault, Abort
    <2>4. CASE RejectMissingKey(r) \/ RejectForeign(r) \/ CacheHit(r) \/ CacheMiss(r)
                 \/ CacheError(r) \/ Begin(r) \/ ConnectFails(r) \/ InsertConflict(r)
                 \/ SelectExisting(r) \/ LockPayable(r)
                 \/ (\E answer \in Outcomes : Charge(r, answer))
                 \/ CommitReplay(r) \/ Answer(r) \/ AnswerReplay(r)
      BY <2>4, <1>1 DEF RejectMissingKey, RejectForeign, Refuse, CacheHit, CacheMiss,
         CacheError, Begin, ConnectFails, InsertConflict, SelectExisting, LockPayable, Charge,
         CommitReplay, Answer, AnswerReplay
    <2> QED
      BY <1>6, <1>2, <2>1, <2>2, <2>3, <2>4 DEF HandlerStep
  <1>7. ASSUME NEW r \in Requests, OrphanStep(r) PROVE IdsExclusive'
    BY <1>7, <1>4, <1>5 DEF OrphanStep, OrphanAborts, OrphanCommits
  <1>8. ASSUME NEW r \in Requests, (\E b \in Bodies : Receive(r, b)) \/ ConnectionLost(r)
        PROVE IdsExclusive'
    BY <1>8, <1>1 DEF Receive, ConnectionLost
  <1>11. ASSUME NEW r \in Requests, StatementFails(r) PROVE IdsExclusive'
    BY <1>11, <1>5 DEF StatementFails, Abort
  <1>9. CASE Crash
    BY <1>9, <1>1 DEF Crash
  <1>10. CASE RedisStep \/ ResetStart \/ ResetStep \/ ResetAborts \/ UNCHANGED vars
    BY <1>10, <1>1, Bystanders
  <1> QED
    BY <1>6, <1>7, <1>8, <1>9, <1>10, <1>11 DEF Next, Quiescent

(* The bound on resets is never exceeded. *)
LEMMA StepKeepsBudget == IInv /\ [Next]_vars => ResetBudget'
  <1> SUFFICES ASSUME IInv, [Next]_vars PROVE ResetBudget'
    OBVIOUS
  <1> USE DEF IInv, ResetBudget, adminVars
  <1>1. ASSUME NEW r \in Requests, HandlerStep(r) PROVE ResetBudget'
    BY <1>1 DEF HandlerStep, RejectMissingKey, RejectForeign, Refuse, CacheHit, CacheMiss,
       CacheError, Begin, ConnectFails, InsertRow, InsertCollides, InsertConflict,
       SelectExisting, NoSuchInvoice, LockPaid, LockPayable, Charge, GatewayFault,
       SettleApproved, SettleDeclined, CommitPayment, CommitReplay, Answer, AnswerReplay
  <1>2. ASSUME NEW r \in Requests,
               (\E b \in Bodies : Receive(r, b)) \/ OrphanStep(r)
                 \/ StatementFails(r) \/ ConnectionLost(r)
        PROVE  ResetBudget'
    BY <1>2 DEF Receive, OrphanStep, OrphanAborts, OrphanCommits, StatementFails, Abort,
       ConnectionLost
  <1>3. CASE ResetStart \/ ResetStep \/ ResetAborts
    BY <1>3 DEF ResetStart, ResetStep, ResetLock, ResetCommit, ResetAborts
  <1>4. CASE RedisStep \/ Crash \/ UNCHANGED vars
    BY <1>4 DEF RedisStep, CacheWriteLands, CacheWriteLost, CacheExpires, Crash, vars
  <1> QED
    BY <1>1, <1>2, <1>3, <1>4 DEF Next, Quiescent

-----------------------------------------------------------------------------
(* The invariant holds in every reachable state. *)
THEOREM Invariance == Spec => []IInv
  <1>1. IInv /\ [Next]_vars => IInv'
    BY StepKeepsTypes, StepKeepsBodies, StepKeepsRowsExclusive, StepKeepsProgress,
       StepKeepsResults, StepKeepsTold, StepKeepsReplies, StepKeepsCache, StepKeepsLocks,
       StepKeepsIds, StepKeepsBudget
       DEF IInv
  <1> QED
    BY InitEstablishes, <1>1, PTL DEF Spec

(* Every variable of the payment service stays in its range. *)
THEOREM TypeCorrectness == Spec => []TypeOK
  <1>1. IInv => TypeOK
    BY DEF IInv
  <1> QED
    BY Invariance, <1>1, PTL

(* Whatever a client was told about its key is what the payments table says,
   through retries, crashes, lost COMMIT acknowledgements and cache replays. *)
THEOREM RepliesAreTrue == Spec => []ReplyMatchesLedger
  <1>1. IInv => ReplyMatchesLedger
    BY DEF IInv
  <1> QED
    BY Invariance, <1>1, PTL

(* Redis never holds, and is never about to receive, a result that the payments
   table does not back. *)
THEOREM CacheIsTrue == Spec => []CacheMatchesLedger
  <1>1. IInv => CacheMatchesLedger
    BY DEF IInv
  <1> QED
    BY Invariance, <1>1, PTL

(* Two requests are never at the gateway together for one key or one invoice:
   the unique index serializes the keys, FOR UPDATE the invoices. *)
THEOREM ChargesAreExclusive == Spec => []NoConcurrentCharges
  <1>1. IInv => NoConcurrentCharges
    BY DEF IInv, NoConcurrentCharges, AtGateway, Progress, WorkingPhases, RowExclusive,
       LocksProtect, HoldsItsLock
  <1> QED
    BY Invariance, <1>1, PTL

(* Who is charged by a step was at the gateway before it. *)
LEMMA OnlyCharge ==
  ASSUME IInv, [Next]_vars, NEW r \in Requests, ChargedNow(r)
  PROVE  pc[r] = "charging"
  <1> USE DEF ChargedNow, IInv, TypeOK
  <1>1. ASSUME NEW q \in Requests, HandlerStep(q) PROVE pc[r] = "charging" \/ gateway' = gateway
    BY <1>1 DEF HandlerStep, RejectMissingKey, RejectForeign, Refuse, CacheHit, CacheMiss,
       CacheError, Begin, ConnectFails, InsertRow, InsertCollides, InsertConflict,
       SelectExisting, NoSuchInvoice, LockPaid, LockPayable, Charge, GatewayFault,
       SettleApproved, SettleDeclined, CommitPayment, CommitReplay, Answer, AnswerReplay
  <1>2. ASSUME NEW q \in Requests,
               (\E b \in Bodies : Receive(q, b)) \/ OrphanStep(q)
                 \/ StatementFails(q) \/ ConnectionLost(q)
        PROVE  gateway' = gateway
    BY <1>2 DEF Receive, OrphanStep, OrphanAborts, OrphanCommits, StatementFails, Abort,
       ConnectionLost
  <1>3. RedisStep \/ Crash \/ ResetStart \/ ResetStep \/ ResetAborts \/ UNCHANGED vars
          => gateway' = gateway
    BY DEF RedisStep, CacheWriteLands, CacheWriteLost, CacheExpires, Crash, ResetStart,
       ResetStep, ResetLock, ResetCommit, ResetAborts, vars
  <1> QED
    BY <1>1, <1>2, <1>3 DEF Next, Quiescent

(* A key that is decided is never charged again. *)
THEOREM DecidedKeysAreSafe == Spec => NoChargeAfterDecision
  <1>1. IInv /\ [Next]_vars =>
          [\A r \in Requests : ChargedNow(r) => payments[body[r].key] = None]_vars
    BY OnlyCharge DEF IInv, Progress, WorkingPhases, RowExclusive
  <1> QED
    BY Invariance, <1>1, PTL DEF Spec, NoChargeAfterDecision

(* The gateway is never called for an invoice that is paid at that moment. *)
THEOREM PaidInvoicesAreSafe == Spec => NoChargeOnPaidInvoice
  <1>1. IInv /\ [Next]_vars =>
          [\A r \in Requests : ChargedNow(r) => invoices[body[r].invoice] # "paid"]_vars
    BY OnlyCharge DEF IInv, LocksProtect, HoldsItsLock, AtGateway
  <1> QED
    BY Invariance, <1>1, PTL DEF Spec, NoChargeOnPaidInvoice

-----------------------------------------------------------------------------
(* The refinement: which abstract step each handler step is. *)

(* Neither the tables nor the replies move: the ledger sees nothing. *)
LEMMA Unseen ==
  ASSUME IInv, UNCHANGED <<reply, tables>>, \A r \in Requests : Told(r) => body'[r] = body[r]
  PROVE  UNCHANGED Ledger!vars
  <1>1. \A r \in Requests : Told(r)' <=> Told(r)
    BY DEF Told
  <1>2. ToldSoFar' = ToldSoFar
    BY <1>1 DEF ToldSoFar
  <1> QED
    BY <1>2 DEF Ledger!vars, tables

(* A response without a payment in it tells nothing. *)
LEMMA RefusalUnseen ==
  ASSUME IInv, NEW r \in Requests, NEW code, Respond(r, code, None), ~Told(r),
         UNCHANGED <<body, tables>>
  PROVE  UNCHANGED Ledger!vars
  <1>1. ~Told(r)'
    BY DEF Respond, Told, IInv, TypeOK
  <1>2. \A q \in Requests : Told(q) => reply'[q] = reply[q]
    BY DEF Respond, IInv, TypeOK
  <1>3. \A q \in Requests : Told(q)' <=> Told(q)
    BY <1>1 DEF Respond, Told, IInv, TypeOK
  <1>4. ToldSoFar' = ToldSoFar
    BY <1>2, <1>3 DEF ToldSoFar
  <1> QED
    BY <1>4 DEF Ledger!vars, tables

(* A response with a payment in it tells one decision of the ledger. *)
LEMMA ReplyTells ==
  ASSUME IInv, NEW r \in Requests, NEW code \in Codes, NEW res \in Results,
         Respond(r, code, res), ~Told(r), body[r].key \in Keys, Agrees(body[r].key, res),
         UNCHANGED <<body, tables>>
  PROVE  Ledger!Tell(body[r].key)
  <1> DEFINE answer == [code |-> code, result |-> res]
  <1>1. reply'[r] = answer /\ answer.result = res
    BY DEF Respond, IInv, TypeOK
  <1>2. answer # None /\ res # None
    BY SentinelAssumption DEF Replies
  <1>3. Told(r)'
    BY <1>1, <1>2 DEF Told
  <1>4. \A q \in Requests \ {r} : reply'[q] = reply[q] /\ (Told(q)' <=> Told(q))
    BY DEF Respond, Told, IInv, TypeOK
  <1>5. {q \in Requests : Told(q)}' = {q \in Requests : Told(q)} \union {r}
    BY <1>3, <1>4
  <1>6. \A q \in Requests : Told(q) => reply'[q] = reply[q]
    BY <1>4
  <1>7. ToldSoFar' = ToldSoFar \union {<<body[r].key, res.id, res.status>>}
    BY <1>1, <1>5, <1>6 DEF ToldSoFar
  <1> QED
    BY <1>7 DEF Ledger!Tell, Agrees, tables

(* Every COMMIT of an open row is one decision of the ledger. *)
LEMMA CommitDecides ==
  ASSUME IInv, NEW r \in Requests, row[r] # None, row[r].status # "pending", Persist(r),
         UNCHANGED <<body, reply>>
  PROVE  Ledger!Approve(body[r].key) \/ Ledger!Decline(body[r].key)
  <1> DEFINE k == body[r].key
             p == row[r]
  <1>1. p \in Rows /\ k \in Keys /\ p.status \in Outcomes
    BY DEF IInv, TypeOK, RowExclusive, Rows
  <1>2. Ledger!Fresh(p.id)
    BY DEF IInv, IdsExclusive, IdCommitted, Ledger!Fresh
  <1>3. ToldSoFar' = ToldSoFar
    BY DEF ToldSoFar, Told
  <1>4. Ledger!Record(k, p)
    BY <1>1, <1>2, <1>3 DEF Ledger!Record, Persist, IInv, RowExclusive
  <1>5. CASE p.status = "approved"
    <2>1. p \in Ledger!Decision("approved")
      BY <1>1, <1>5 DEF Ledger!Decision, Rows
    <2>2. /\ p.invoice \in Invoices
          /\ p.customer = Owner[p.invoice]
          /\ p.amount = Due[p.invoice]
          /\ invoices[p.invoice] # "paid"
      BY <1>5 DEF IInv, LocksProtect, HoldsItsLock, Matches
    <2>3. invoices' = [invoices EXCEPT ![p.invoice] = "paid"]
      BY <1>5 DEF Persist
    <2> QED
      BY <1>4, <2>1, <2>2, <2>3 DEF Ledger!Approve
  <1>6. CASE p.status = "declined"
    <2>1. p \in Ledger!Decision("declined")
      BY <1>1, <1>6 DEF Ledger!Decision, Rows
    <2>2. invoices' = invoices
      BY <1>6 DEF Persist
    <2> QED
      BY <1>4, <2>1, <2>2 DEF Ledger!Decline
  <1> QED
    BY <1>1, <1>5, <1>6 DEF Outcomes

(* Every step of the handlers is a step of the ledger or invisible to it. *)
LEMMA StepRefines == IInv /\ [Next]_vars => [Ledger!Next]_Ledger!vars
  <1> SUFFICES ASSUME IInv, [Next]_vars PROVE Ledger!Next \/ UNCHANGED Ledger!vars
    OBVIOUS
  <1> DEFINE Goal == Ledger!Next \/ UNCHANGED Ledger!vars
  <1>1. \A r \in Requests : Told(r) => pc[r] = "done" /\ body[r] \in Content
    BY DEF IInv, ToldIsDone
  <1>2. ASSUME NEW r \in Requests, NEW b \in Bodies, Receive(r, b) PROVE Goal
    <2>1. \A q \in Requests : Told(q) => body'[q] = body[q]
      BY <1>1, <1>2 DEF Receive, IInv, TypeOK
    <2>2. UNCHANGED <<reply, tables>>
      BY <1>2 DEF Receive
    <2> QED
      BY <2>1, <2>2, Unseen
  <1>3. ASSUME NEW r \in Requests, pc[r] # "done", NEW code, Respond(r, code, None),
               UNCHANGED <<body, tables>>
        PROVE  Goal
    BY <1>1, <1>3, RefusalUnseen
  <1>4. ASSUME NEW r \in Requests, pc[r] # "done", NEW code \in Codes, NEW res \in Results,
               Respond(r, code, res), body[r].key \in Keys, Agrees(body[r].key, res),
               UNCHANGED <<body, tables>>
        PROVE  Goal
    BY <1>1, <1>4, ReplyTells DEF Ledger!Next
  <1>5. ASSUME NEW r \in Requests, row[r] # None, row[r].status # "pending", Persist(r),
               UNCHANGED <<body, reply>>
        PROVE  Goal
    BY <1>5, CommitDecides DEF IInv, RowExclusive, Ledger!Next
  <1>6. ASSUME UNCHANGED <<body, reply, tables>> PROVE Goal
    BY <1>6, Unseen
  <1>7. ASSUME NEW r \in Requests, HandlerStep(r) PROVE Goal
    <2>1. CASE RejectMissingKey(r) \/ RejectForeign(r) \/ CacheError(r) \/ ConnectFails(r)
      BY <2>1, <1>3 DEF RejectMissingKey, RejectForeign, CacheError, ConnectFails, Refuse,
         MayLookUp
    <2>2. CASE (\E id \in PaymentIds : InsertCollides(r, id))
                 \/ (\E code \in {500, 504} : GatewayFault(r, code))
      BY <2>2, <1>3 DEF InsertCollides, GatewayFault, Abort
    <2>3. CASE CacheHit(r)
      <3> DEFINE k == body[r].key
      <3>1. k \in Keys
        BY <2>3 DEF CacheHit, MayLookUp, HasKey, IInv, BodyKnown, Content, OrphanPhases
      <3>2. cache[k] \in Results /\ Agrees(k, cache[k])
        BY <2>3, <3>1 DEF CacheHit, IInv, TypeOK, CacheMatchesLedger
      <3> QED
        BY <2>3, <3>1, <3>2, <1>4 DEF CacheHit, MayLookUp, Codes
    <2>4. CASE Answer(r) \/ AnswerReplay(r)
      <3>1. pc[r] \in {"answering", "echoing"}
        BY <2>4 DEF Answer, AnswerReplay
      <3>2. body[r].key \in Keys /\ result[r] \in Results /\ Agrees(body[r].key, result[r])
        BY <3>1 DEF IInv, TypeOK, BodyKnown, KeyedPhases, ResultAgrees
      <3>3. \E code \in Codes : Respond(r, code, result[r])
        BY <2>4 DEF Answer, AnswerReplay, Codes
      <3>4. UNCHANGED <<body, tables>>
        BY <2>4 DEF Answer, AnswerReplay
      <3> QED
        BY <3>1, <3>2, <3>3, <3>4, <1>4
    <2>5. CASE CommitPayment(r)
      BY <2>5, <1>5 DEF CommitPayment, IInv, Progress
    <2>6. CASE CacheMiss(r) \/ Begin(r) \/ (\E id \in PaymentIds : InsertRow(r, id))
                 \/ InsertConflict(r) \/ SelectExisting(r) \/ NoSuchInvoice(r) \/ LockPaid(r)
                 \/ LockPayable(r) \/ (\E answer \in Outcomes : Charge(r, answer))
                 \/ SettleApproved(r) \/ SettleDeclined(r) \/ CommitReplay(r)
      BY <2>6, <1>6 DEF CacheMiss, Begin, InsertRow, InsertConflict, SelectExisting,
         NoSuchInvoice, LockPaid, LockPayable, Charge, SettleApproved, SettleDeclined,
         CommitReplay
    <2> QED
      BY <1>7, <2>1, <2>2, <2>3, <2>4, <2>5, <2>6 DEF HandlerStep
  <1>8. ASSUME NEW r \in Requests, OrphanStep(r) PROVE Goal
    <2>1. CASE OrphanAborts(r)
      BY <2>1, <1>6 DEF OrphanAborts
    <2>2. CASE OrphanCommits(r)
      BY <2>2, <1>5 DEF OrphanCommits, IInv, Progress
    <2> QED
      BY <1>8, <2>1, <2>2 DEF OrphanStep
  <1>9. ASSUME NEW r \in Requests, ConnectionLost(r) PROVE Goal
    BY <1>9, <1>3 DEF ConnectionLost, TxPhases
  <1>12. ASSUME NEW r \in Requests, StatementFails(r) PROVE Goal
    BY <1>12, <1>3 DEF StatementFails, Abort, TxPhases
  <1>10. CASE ResetStep
    <2>1. CASE ResetCommit
      <3>1. ToldSoFar' = ToldSoFar
        BY <2>1 DEF ResetCommit, requestVars, ToldSoFar, Told
      <3> QED
        BY <2>1, <3>1 DEF ResetCommit, Ledger!Reset, Ledger!Next
    <2>2. CASE \E i \in Invoices : ResetLock(i)
      BY <2>2, <1>6 DEF ResetLock, requestVars
    <2> QED
      BY <1>10, <2>1, <2>2 DEF ResetStep
  <1>11. CASE RedisStep \/ Crash \/ ResetStart \/ ResetAborts \/ UNCHANGED vars
    BY <1>11, <1>6 DEF RedisStep, CacheWriteLands, CacheWriteLost, CacheExpires, Crash,
       ResetStart, ResetAborts, requestVars, vars, tables
  <1> QED
    BY <1>2, <1>7, <1>8, <1>9, <1>10, <1>11, <1>12 DEF Next, Quiescent

(* The handlers implement the ledger: whatever interleaves, crashes or is
   retried, each key is decided at most once, by one atomic step that approves
   only an unpaid invoice's exact payment by its owner, and clients are told
   nothing else. *)
THEOREM PaymentsImplementLedger == Spec => ImplementsLedger
  <1>1. Init => Ledger!Init
    BY DEF Init, Ledger!Init, ToldSoFar, Told
  <1> QED
    BY <1>1, Invariance, StepRefines, PTL DEF Spec, ImplementsLedger, Ledger!Spec
=============================================================================
