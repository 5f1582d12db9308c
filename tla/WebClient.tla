------------------------------ MODULE WebClient ------------------------------
(***************************************************************************)
(* One tab of the web UI (apps/web/src/app.js) against the API, where the  *)
(* payments are what PaymentLedger promises.  The user clicks while calls  *)
(* are on their way; a handler reads `state' when it starts and again when *)
(* an answer arrives, and by then the tab may be signed out or be somebody *)
(* else's.  Answers come in any order, late, as refusals or not at all.    *)
(***************************************************************************)
EXTENDS Naturals

CONSTANTS
  Customers, Invoices, Owner,
  Calls,       \* calls the tab may have open at a time
  PaymentIds,  \* bound on the payments decided
  MaxTime,     \* bound on Date.now()
  None

(* web-<customer>-<invoice>-<Date.now()> *)
Keys == [customer: Customers, invoice: Invoices, ms: 0..MaxTime]

ASSUME OwnerAssumption == Owner \in [Invoices -> Customers] /\ MaxTime \in Nat
ASSUME NoneAssumption == None \notin Customers \union PaymentIds \union Keys

VARIABLES
  token, customer,  \* state.token, by its subject, and state.customerId
  lastPayment,      \* state.lastPayment
  view,             \* the card on display: "login" or "app"
  shown,            \* the rows of the table, as the API listed them
  call,             \* the calls: what was sent, with what, and the answer
  clock,            \* Date.now()
  ledger, invoices, told

tab == <<token, customer, lastPayment, view, shown>>
payments == <<ledger, invoices, told>>
vars == <<tab, call, clock, payments>>

Server == INSTANCE PaymentLedger WITH
  InvoiceIds <- Invoices, Due <- [i \in Invoices |-> 0], Amounts <- {0},
  SeedStatus <- [i \in Invoices |-> "pending"]

Decisions == Server!Decision("approved") \union Server!Decision("declined")
ASSUME DecisionAssumption == None \notin Decisions

NoAnswer == [ok |-> FALSE, body |-> None]
Fetch(kind, as, who, key, id) ==
  [kind |-> kind, as |-> as, who |-> who, key |-> key, paid |-> id, answer |-> None]
Free == Fetch("none", None, None, None, None)

Init ==
  /\ token = None /\ customer = None /\ lastPayment = None
  /\ view = "login" /\ shown = [i \in {} |-> None]
  /\ call = [c \in Calls |-> Free]
  /\ clock = 0
  /\ Server!Init

(* api(path, ...) sends the token of this very moment. *)
Send(c, kind, as, who) == call' = [call EXCEPT ![c] = Fetch(kind, as, who, None, None)]
SendPayment(c, kind, key, id) == call' = [call EXCEPT ![c] = Fetch(kind, token, customer, key, id)]
Close(c) == call' = [call EXCEPT ![c] = Free]

-----------------------------------------------------------------------------
(* Clicks *)

Login(c) ==
  /\ view = "login" /\ call[c] = Free
  /\ \E u \in Customers : Send(c, "login", token, u)
  /\ UNCHANGED <<tab, clock, payments>>

LoadInvoices(c) ==
  /\ view = "app" /\ call[c] = Free
  /\ Send(c, "list", token, customer)
  /\ UNCHANGED <<tab, clock, payments>>

ChangePlan(c) ==
  /\ view = "app" /\ call[c] = Free
  /\ Send(c, "plan", token, customer)
  /\ UNCHANGED <<tab, clock, payments>>

(* Mutant: the key is named after the owner of the row. *)
KeyOfRow(invoice) == [customer |-> Owner[invoice], invoice |-> invoice, ms |-> clock]

NewKey(invoice) == [customer |-> customer, invoice |-> invoice, ms |-> clock]

PayInvoice(c) ==
  /\ view = "app" /\ call[c] = Free
  /\ \E i \in DOMAIN shown : shown[i] # "paid" /\ SendPayment(c, "pay", NewKey(i), None)
  /\ UNCHANGED <<tab, clock, payments>>

Logout ==
  /\ view = "app" /\ view' = "login"
  /\ token' = None /\ customer' = None /\ lastPayment' = None
  /\ UNCHANGED <<shown, call, clock, payments>>

-----------------------------------------------------------------------------
(* The API.  A payment's replay carries the key of the first request with the
   customer of the moment. *)

Open(c, kinds) == call[c].kind \in kinds /\ call[c].answer = None
Reply(c, body) == call' = [call EXCEPT ![c].answer = [ok |-> TRUE, body |-> body]]
Authorised(c) == call[c].as # None /\ call[c].as = call[c].who

AcceptLogin(c) ==
  /\ Open(c, {"login"}) /\ Reply(c, call[c].who)
  /\ UNCHANGED <<tab, clock, payments>>

AcceptPlan(c) ==
  /\ Open(c, {"plan"}) /\ Authorised(c) /\ Reply(c, None)
  /\ UNCHANGED <<tab, clock, payments>>

ListInvoices(c) ==
  /\ Open(c, {"list"}) /\ Authorised(c)
  /\ Reply(c, [i \in {j \in Invoices : Owner[j] = call[c].who} |-> invoices[i]])
  /\ UNCHANGED <<tab, clock, payments>>

ReplayPayment(c) ==
  /\ Open(c, {"pay", "replay"}) /\ Authorised(c)
  /\ Server!Tell(call[c].key)
  /\ Reply(c, ledger[call[c].key])
  /\ UNCHANGED <<tab, clock>>

Decide(k) == Server!Approve(k) \/ Server!Decline(k)

(* The decision concerns what was sent; 402 is no `res.ok', and any answer may be
   lost on the way, after the decision too. *)
DecidePayment(c) ==
  LET k == call[c].key  p == ledger'[k]
  IN /\ Open(c, {"pay", "replay"}) /\ Authorised(c)
     /\ Decide(k)
     /\ p.customer = call[c].who /\ p.invoice = k.invoice
     /\ call' = [call EXCEPT ![c].answer = [ok |-> p.status = "approved", body |-> p]]
     /\ UNCHANGED <<tab, clock>>

Fail(c) ==
  /\ call[c].kind # "none" /\ call[c].answer # NoAnswer
  /\ call' = [call EXCEPT ![c].answer = NoAnswer]
  /\ UNCHANGED <<tab, clock, payments>>

-----------------------------------------------------------------------------
(* What the handlers do with an answer. *)

(* Mutant: a handler does not ask for `res.ok'. *)
ReceivedAny(c, kind, ok) == call[c].kind = kind /\ call[c].answer # None

Received(c, kind, ok) == call[c].kind = kind /\ call[c].answer # None /\ call[c].answer.ok = ok

(* Mutant: the list is asked for before the new state is set. *)
StaleToken(u) == token

SessionToken(u) == u

LoggedIn(c) ==
  /\ Received(c, "login", TRUE)
  /\ LET u == call[c].answer.body
     IN token' = u /\ customer' = u /\ Send(c, "list", SessionToken(u), u)
  /\ view' = "app"
  /\ UNCHANGED <<lastPayment, shown, clock, payments>>

ShowInvoices(c) ==
  /\ Received(c, "list", TRUE)
  /\ shown' = call[c].answer.body
  /\ Close(c)
  /\ UNCHANGED <<token, customer, lastPayment, view, clock, payments>>

(* Mutant: the replay draws a key of its own. *)
RedrawnKey(c) == [call[c].key EXCEPT !.ms = clock]

ReplayKey(c) == call[c].key

Paid(c) ==
  /\ Received(c, "pay", TRUE)
  /\ lastPayment' = [key |-> call[c].key, id |-> call[c].answer.body.id]
  /\ SendPayment(c, "replay", ReplayKey(c), call[c].answer.body.id)
  /\ UNCHANGED <<token, customer, view, shown, clock, payments>>

(* Whatever the API answers the replay, the verdict is logged and the list loaded anew. *)
Replayed(c) ==
  /\ call[c].kind = "replay" /\ call[c].answer # None
  /\ Send(c, "list", token, customer)
  /\ UNCHANGED <<tab, clock, payments>>

(* Other answers are logged at most; a fetch that rejects leaves no trace. *)
GiveUp(c) ==
  /\ \/ \E kind \in {"login", "list", "pay", "replay", "plan"} : Received(c, kind, FALSE)
     \/ Received(c, "plan", TRUE)
  /\ Close(c)
  /\ UNCHANGED <<tab, clock, payments>>

Tick == clock < MaxTime /\ clock' = clock + 1 /\ UNCHANGED <<tab, call, payments>>

Click(c) == Login(c) \/ LoadInvoices(c) \/ ChangePlan(c) \/ PayInvoice(c)
Serve(c) == AcceptLogin(c) \/ AcceptPlan(c) \/ ListInvoices(c) \/ ReplayPayment(c) \/ DecidePayment(c) \/ Fail(c)
Handle(c) == LoggedIn(c) \/ ShowInvoices(c) \/ Paid(c) \/ Replayed(c) \/ GiveUp(c)

Next == (\E c \in Calls : Click(c) \/ Serve(c) \/ Handle(c)) \/ Logout \/ Tick

Spec == Init /\ [][Next]_vars

-----------------------------------------------------------------------------
(* app.js:45-48, 55-60: every variable stays in its range, and the tab shows the app
   exactly while it holds a token. *)
TypeOK ==
  /\ token \in Customers \union {None} /\ customer \in Customers \union {None}
  /\ view = (IF token = None THEN "login" ELSE "app") /\ DOMAIN shown \subseteq Invoices
  /\ lastPayment # None => lastPayment.key \in Keys /\ lastPayment.id \in PaymentIds
  /\ \A c \in Calls : /\ call[c].kind \in {"none", "login", "list", "plan", "pay", "replay"}
                      /\ call[c].key \in Keys \union {None} /\ call[c].paid \in PaymentIds \union {None}

(* app.js:19-21, 45-46, 66, 85-98: whatever is clicked while answers are due, every call
   goes out with the token of the customer its path or body names, so the UI is never
   refused as a stranger: token and customerId change together and are read together. *)
CredentialsAgree == \A c \in Calls : call[c].kind \notin {"none", "login"} => call[c].as = call[c].who

(* app.js:84-90: a decision under a key of the UI is one on the invoice that was clicked,
   for the customer who clicked it, though rows of somebody else may still be on display
   and the replay is sent by whoever is signed in by then. *)
DecisionsAreClicks ==
  \A k \in Keys : ledger[k] # None =>
    /\ ledger[k].customer = k.customer /\ ledger[k].invoice = k.invoice
    /\ ledger[k].status = "approved" => Owner[k.invoice] = k.customer

(* app.js:94-101: `MISMATCH' is logged only when the replay was refused or lost: an answer
   that tells of a payment tells of the one the first answer told of. *)
ReplayAgrees ==
  \A c \in Calls : call[c].kind = "replay" /\ call[c].answer # None =>
    call[c].answer = NoAnswer \/ call[c].answer.body.id = call[c].paid
=============================================================================
