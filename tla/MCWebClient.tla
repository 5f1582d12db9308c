----------------------------- MODULE MCWebClient -----------------------------
(***************************************************************************)
(* Instances of WebClient for TLC: two customers with an invoice each use  *)
(* the same tab.                                                           *)
(***************************************************************************)
EXTENDS WebClient, TLC

CONSTANTS c, d

MCInvoices == {"of_c", "of_d"}
MCOwner == "of_c" :> c @@ "of_d" :> d

Interchangeable == Permutations(Calls) \union Permutations(PaymentIds)
=============================================================================
