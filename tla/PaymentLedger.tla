---------------------------- MODULE PaymentLedger ----------------------------
(***************************************************************************)
(* What POST /payments promises its clients, free of transactions, locks,  *)
(* caches and failures: a ledger that decides every idempotency key at     *)
(* most once and for good, approves only the owner's exact payment of an   *)
(* invoice that is not yet paid, pays that invoice in the same instant,    *)
(* and tells nothing but what the ledger says.                             *)
(***************************************************************************)
CONSTANTS Keys, Customers, InvoiceIds, Invoices, Owner, Due, SeedStatus,
          Amounts, PaymentIds, None

VARIABLES
  ledger,    \* the decision on each idempotency key, None before
  invoices,  \* status of each invoice
  told       \* what some client was told about a key

vars == <<ledger, invoices, told>>

Init ==
  /\ ledger = [k \in Keys |-> None]
  /\ invoices = SeedStatus
  /\ told = {}

Fresh(id) == \A k \in Keys : ledger[k] # None => ledger[k].id # id

Record(k, p) ==
  /\ ledger[k] = None
  /\ Fresh(p.id)
  /\ ledger' = [ledger EXCEPT ![k] = p]
  /\ UNCHANGED told

Decision(status) == [id: PaymentIds, invoice: InvoiceIds, amount: Amounts,
                     customer: Customers, status: {status}]

Approve(k) ==
  \E p \in Decision("approved") :
    /\ p.invoice \in Invoices
    /\ p.customer = Owner[p.invoice]
    /\ p.amount = Due[p.invoice]
    /\ invoices[p.invoice] # "paid"
    /\ Record(k, p)
    /\ invoices' = [invoices EXCEPT ![p.invoice] = "paid"]

Decline(k) ==
  \E p \in Decision("declined") : Record(k, p) /\ UNCHANGED invoices

Tell(k) ==
  /\ ledger[k] # None
  /\ told' = told \union {<<k, ledger[k].id, ledger[k].status>>}
  /\ UNCHANGED <<ledger, invoices>>

Reset ==
  /\ invoices' = [i \in Invoices |-> "pending"]
  /\ UNCHANGED <<ledger, told>>

Next ==
  \/ \E k \in Keys : Approve(k) \/ Decline(k) \/ Tell(k)
  \/ Reset

Spec == Init /\ [][Next]_vars
=============================================================================
