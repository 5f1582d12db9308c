----------------------------- MODULE MCPayments -----------------------------
(***************************************************************************)
(* Instances of Payments for TLC.  Customer c pays; d is somebody else;    *)
(* "ghost" is an id no invoice has; 10 is due and 7 is a wrong amount.     *)
(***************************************************************************)
EXTENDS PaymentsInvariant, TLC

CONSTANTS c, d, k1, k2

MCInvoiceIds == {"inv1", "inv2", "inv3", "ghost"}
MCAmounts == {7, 10}

OneInvoice == {"inv1"}
OneOwner == [i \in OneInvoice |-> c]
OneDue == [i \in OneInvoice |-> 10]
OneOverdue == [i \in OneInvoice |-> "overdue"]

(* A pending and a paid invoice of c, and an overdue one of d. *)
SeedInvoices == {"inv1", "inv2", "inv3"}
SeedOwner == "inv1" :> c @@ "inv2" :> d @@ "inv3" :> c
SeedDue == [i \in SeedInvoices |-> 10]
SeedStatuses == "inv1" :> "pending" @@ "inv2" :> "overdue" @@ "inv3" :> "paid"

Pay(auth, k, i, amount) ==
  [auth |-> auth, key |-> k, customer |-> c, invoice |-> i, amount |-> amount]

(* Retries of one payment. *)
RetryBodies == {Pay(c, k1, "inv1", 10)}
(* A retry may disagree with the original about the amount, and another key
   competes for the invoice. *)
ContendingBodies == {Pay(c, k1, "inv1", a) : a \in MCAmounts} \union {Pay(c, k2, "inv1", 10)}
(* A payment declined for its amount, its retries, and a later exact payment. *)
CorrectedBodies == {Pay(c, k1, "inv1", 7), Pay(c, k2, "inv1", 10)}
(* Everything the handler tells apart. *)
MixedBodies == {Pay(c, NoKey, "inv1", 10), Pay(d, k1, "inv1", 10)}
  \union {Pay(c, k1, i, 10) : i \in MCInvoiceIds}
  \union {Pay(c, k2, "inv1", a) : a \in MCAmounts}

Interchangeable == Permutations(Requests) \union Permutations(PaymentIds)
=============================================================================
