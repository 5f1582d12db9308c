--------------------------- MODULE WebClientProofs ---------------------------
(***************************************************************************)
(* One tab of the web UI, for any customers, invoices and calls, over any  *)
(* implementation of the ledger.                                           *)
(***************************************************************************)
EXTENDS WebClient, TLAPS

Kinds == {"none", "login", "list", "plan", "pay", "replay"}

(* The tab: who is signed in is whose token is sent. *)
Tabbed ==
  /\ token = customer /\ token \in Customers \union {None}
  /\ view = (IF token = None THEN "login" ELSE "app")
  /\ DOMAIN shown \subseteq Invoices
  /\ lastPayment # None => lastPayment.key \in Keys /\ lastPayment.id \in PaymentIds
  /\ clock \in 0..MaxTime

(* The ledger under the keys of the UI: a decision concerns what the key was drawn for. *)
Approved(k) == ledger[k] # None /\ ledger[k].status = "approved"
Decided ==
  /\ ledger \in [Keys -> Decisions \union {None}]
  /\ \A k \in Keys : ledger[k] # None => ledger[k].customer = k.customer /\ ledger[k].invoice = k.invoice
  /\ \A k \in Keys : Approved(k) => Owner[k.invoice] = k.customer

(* A call: what was sent under which name, and what a good answer can be. *)
Shaped(x) ==
  x = [kind |-> x.kind, as |-> x.as, who |-> x.who, key |-> x.key, paid |-> x.paid, answer |-> x.answer]

Sent(x) ==
  /\ Shaped(x) /\ x.kind \in Kinds /\ x.key \in Keys \union {None} /\ x.paid \in PaymentIds \union {None}
  /\ x.kind = "login" => x.who \in Customers
  /\ x.kind \notin {"none", "login"} => x.as = x.who
  /\ x.kind \in {"pay", "replay"} => x.key \in Keys
  /\ x.kind = "pay" => x.who = x.key.customer
  /\ x.kind = "replay" => ledger[x.key] # None /\ ledger[x.key].id = x.paid

GoodAnswer(x) ==
  /\ x.kind = "login" => x.answer.body = x.who
  /\ x.kind = "list" => DOMAIN x.answer.body \subseteq Invoices
  /\ x.kind \in {"pay", "replay"} => ledger[x.key] # None /\ x.answer.body = ledger[x.key]

Honest(x) ==
  /\ Sent(x)
  /\ x.answer # None /\ x.answer.ok = TRUE => GoodAnswer(x)
  /\ x.kind = "replay" /\ x.answer # None => x.answer = NoAnswer \/ x.answer.ok = TRUE

Called == call = [c \in Calls |-> call[c]] /\ \A c \in Calls : Honest(call[c])

IInv == Tabbed /\ Decided /\ Called

-----------------------------------------------------------------------------
LEMMA FreeIsHonest == Honest(Free) /\ Free.answer = None
  BY DEF Honest, Sent, Shaped, Free, Fetch, GoodAnswer, Kinds

(* One call is set, the others stay; the ledger only grows. *)
LEMMA SetCalled ==
  ASSUME Called, NEW c \in Calls, NEW x, call' = [call EXCEPT ![c] = x],
         \A k \in Keys : ledger[k] # None => ledger'[k] = ledger[k],
         Honest(x)'
  PROVE  Called'
  <1>1. \A d \in Calls : d # c => call'[d] = call[d]
    BY DEF Called
  <1>2. call'[c] = x /\ call' = [d \in Calls |-> call'[d]]
    BY DEF Called
  <1>3. ASSUME NEW d \in Calls, d # c PROVE Honest(call[d])'
    <2>1. call'[d] = call[d] /\ Honest(call[d])
      BY <1>1, <1>3 DEF Called
    <2> QED BY <2>1, <1>3 DEF Honest, Sent, GoodAnswer, Shaped
  <1>4. Honest(call[c])'
    BY <1>2
  <1> QED BY <1>2, <1>3, <1>4 DEF Called

(* Calls change alone: the ledger stays. *)
LEMMA SetCalledQuiet ==
  ASSUME Called, NEW c \in Calls, NEW x, call' = [call EXCEPT ![c] = x], UNCHANGED ledger, Honest(x)
  PROVE  Called'
  <1>1. Honest(x)'
    BY DEF Honest, Sent, GoodAnswer, Shaped
  <1> QED BY <1>1, SetCalled

LEMMA FetchHonest ==
  ASSUME NEW kind \in Kinds, NEW as, NEW who, NEW key \in Keys \union {None},
         NEW id \in PaymentIds \union {None},
         kind = "login" => who \in Customers,
         kind \notin {"none", "login"} => as = who,
         kind \in {"pay", "replay"} => key \in Keys,
         kind = "pay" => who = key.customer,
         kind = "replay" => ledger[key] # None /\ ledger[key].id = id
  PROVE  Honest(Fetch(kind, as, who, key, id))
  <1> DEFINE y == Fetch(kind, as, who, key, id)
  <1>1. /\ y.kind = kind /\ y.as = as /\ y.who = who /\ y.key = key /\ y.paid = id /\ y.answer = None
        /\ Shaped(y)
    BY DEF Fetch, Shaped
  <1> HIDE DEF y
  <1>2. Sent(y)
    BY <1>1 DEF Sent
  <1>3. Honest(y)
    BY <1>1, <1>2 DEF Honest
  <1> QED BY <1>3 DEF y

LEMMA AnswerShape ==
  ASSUME NEW x, Sent(x), NEW a
  PROVE  /\ Sent([x EXCEPT !.answer = a]) /\ [x EXCEPT !.answer = a].answer = a
         /\ [x EXCEPT !.answer = a].kind = x.kind /\ [x EXCEPT !.answer = a].key = x.key
         /\ [x EXCEPT !.answer = a].who = x.who
  <1> DEFINE y == [x EXCEPT !.answer = a]
  <1>1. y = [kind |-> x.kind, as |-> x.as, who |-> x.who, key |-> x.key, paid |-> x.paid, answer |-> a]
    BY DEF Sent, Shaped
  <1> HIDE DEF y
  <1>2. /\ y.kind = x.kind /\ y.as = x.as /\ y.who = x.who /\ y.key = x.key /\ y.paid = x.paid
        /\ y.answer = a
    BY <1>1
  <1>3. Shaped(y)
    BY <1>1, <1>2 DEF Shaped
  <1>4. Sent(y)
    BY <1>2, <1>3 DEF Sent
  <1> QED BY <1>2, <1>4 DEF y

LEMMA ReplyHonest ==
  ASSUME NEW x, Sent(x), NEW body, GoodAnswer([x EXCEPT !.answer = [ok |-> TRUE, body |-> body]])
  PROVE  Honest([x EXCEPT !.answer = [ok |-> TRUE, body |-> body]])
  <1> DEFINE a == [ok |-> TRUE, body |-> body]
             y == [x EXCEPT !.answer = a]
  <1>1. a.ok = TRUE
    OBVIOUS
  <1>2. Sent(y) /\ y.answer = a
    BY AnswerShape
  <1>3. GoodAnswer(y)
    OBVIOUS
  <1> HIDE DEF y, a
  <1>4. Honest(y)
    BY <1>1, <1>2, <1>3 DEF Honest
  <1> QED BY <1>4 DEF y, a

LEMMA RefusalHonest ==
  ASSUME NEW x, Sent(x) PROVE Honest([x EXCEPT !.answer = NoAnswer])
  <1> DEFINE y == [x EXCEPT !.answer = NoAnswer]
  <1>1. NoAnswer.ok = FALSE
    BY DEF NoAnswer
  <1>2. Sent(y) /\ y.answer = NoAnswer
    BY AnswerShape
  <1> HIDE DEF y
  <1>3. Honest(y)
    BY <1>1, <1>2 DEF Honest
  <1> QED BY <1>3 DEF y

-----------------------------------------------------------------------------
LEMMA InitEstablishes == Init => IInv
  <1> SUFFICES ASSUME Init PROVE IInv
    OBVIOUS
  <1>1. Tabbed
    BY OwnerAssumption DEF Init, Tabbed
  <1>2. Decided
    BY DEF Init, Server!Init, Decided, Approved
  <1>3. Called
    BY FreeIsHonest DEF Init, Called
  <1> QED BY <1>1, <1>2, <1>3 DEF IInv

LEMMA ClickPreserves ==
  ASSUME IInv, NEW c \in Calls, Click(c)
  PROVE  IInv'
  <1>1. UNCHANGED <<token, customer, lastPayment, view, shown, clock, ledger, invoices, told>>
    BY DEF Click, Login, LoadInvoices, ChangePlan, PayInvoice, tab, payments
  <1>2. Tabbed' /\ Decided'
    BY <1>1 DEF IInv, Tabbed, Decided, Approved
  <1>3. CASE Login(c) \/ LoadInvoices(c) \/ ChangePlan(c)
    <2>1. PICK kind \in {"login", "list", "plan"}, who \in Customers \union {None} :
            /\ Send(c, kind, token, who)
            /\ kind = "login" => who \in Customers
            /\ kind # "login" => token = who
      BY <1>3 DEF Login, LoadInvoices, ChangePlan, IInv, Tabbed
    <2>2. Honest(Fetch(kind, token, who, None, None))
      BY <2>1, FetchHonest DEF Kinds
    <2> QED BY <1>1, <1>2, <2>1, <2>2, SetCalledQuiet DEF Send, IInv
  <1>4. CASE PayInvoice(c)
    <2>1. PICK i \in DOMAIN shown : SendPayment(c, "pay", NewKey(i), None)
      BY <1>4 DEF PayInvoice
    <2>2. NewKey(i) \in Keys /\ NewKey(i).customer = customer
      BY <1>4 DEF PayInvoice, NewKey, Keys, IInv, Tabbed
    <2>3. Honest(Fetch("pay", token, customer, NewKey(i), None))
      BY <2>2, FetchHonest DEF IInv, Tabbed, Kinds
    <2> QED BY <1>1, <1>2, <2>1, <2>3, SetCalledQuiet DEF SendPayment, IInv
  <1> QED BY <1>3, <1>4 DEF Click

(* Answers that leave the ledger as it is. *)
LEMMA AnswerPreserves ==
  ASSUME IInv, NEW c \in Calls,
         AcceptLogin(c) \/ AcceptPlan(c) \/ ListInvoices(c) \/ ReplayPayment(c) \/ Fail(c)
  PROVE  IInv'
  <1>1. UNCHANGED <<token, customer, lastPayment, view, shown, clock, ledger, invoices>>
    BY DEF AcceptLogin, AcceptPlan, ListInvoices, ReplayPayment, Fail, Server!Tell, tab, payments
  <1>2. Tabbed' /\ Decided'
    BY <1>1 DEF IInv, Tabbed, Decided, Approved
  <1>3. Sent(call[c])
    BY DEF IInv, Called, Honest
  <1>4. CASE Fail(c)
    <2>1. call' = [call EXCEPT ![c] = [call[c] EXCEPT !.answer = NoAnswer]]
      BY <1>4 DEF Fail
    <2> QED BY <1>1, <1>2, <1>3, <2>1, RefusalHonest, SetCalledQuiet DEF IInv
  <1>5. CASE AcceptLogin(c) \/ AcceptPlan(c) \/ ListInvoices(c) \/ ReplayPayment(c)
    <2>1. PICK body : /\ Reply(c, body)
                      /\ \/ call[c].kind = "login" /\ body = call[c].who
                         \/ call[c].kind = "plan"
                         \/ call[c].kind = "list" /\ DOMAIN body \subseteq Invoices
                         \/ /\ call[c].kind \in {"pay", "replay"} /\ body = ledger[call[c].key]
                            /\ ledger[call[c].key] # None
      <3>1. CASE AcceptLogin(c)
        BY <3>1 DEF AcceptLogin, Open
      <3>2. CASE AcceptPlan(c)
        BY <3>2 DEF AcceptPlan, Open
      <3>3. CASE ListInvoices(c)
        BY <3>3 DEF ListInvoices, Open
      <3>4. CASE ReplayPayment(c)
        BY <3>4 DEF ReplayPayment, Open, Server!Tell
      <3> QED BY <1>5, <3>1, <3>2, <3>3, <3>4
    <2>2. call' = [call EXCEPT ![c] = [call[c] EXCEPT !.answer = [ok |-> TRUE, body |-> body]]]
      BY <2>1 DEF Reply
    <2>3. GoodAnswer([call[c] EXCEPT !.answer = [ok |-> TRUE, body |-> body]])
      BY <1>3, <2>1 DEF GoodAnswer, Sent, Shaped
    <2> QED BY <1>1, <1>2, <1>3, <2>2, <2>3, ReplyHonest, SetCalledQuiet DEF IInv
  <1> QED BY <1>4, <1>5

(* A decision of the ledger is a new one, and an approval the owner's. *)
LEMMA DecideRecords ==
  ASSUME Decided, NEW k \in Keys, Decide(k)
  PROVE  /\ ledger[k] = None
         /\ \E p \in Decisions :
              /\ ledger' = [ledger EXCEPT ![k] = p] /\ p # None
              /\ p.status = "approved" => p.customer = Owner[p.invoice]
  <1>1. CASE Server!Approve(k)
    <2>1. PICK p \in Server!Decision("approved") :
            p.customer = Owner[p.invoice] /\ Server!Record(k, p)
      BY <1>1 DEF Server!Approve
    <2>2. p \in Decisions /\ p # None /\ p.status = "approved"
      BY <2>1, DecisionAssumption DEF Decisions, Server!Decision
    <2> QED BY <2>1, <2>2 DEF Server!Record
  <1>2. CASE Server!Decline(k)
    <2>1. PICK p \in Server!Decision("declined") : Server!Record(k, p)
      BY <1>2 DEF Server!Decline
    <2>2. p \in Decisions /\ p # None /\ p.status = "declined"
      BY <2>1, DecisionAssumption DEF Decisions, Server!Decision
    <2> QED BY <2>1, <2>2 DEF Server!Record
  <1> QED BY <1>1, <1>2 DEF Decide

LEMMA DecidePreserves ==
  ASSUME IInv, NEW c \in Calls, DecidePayment(c)
  PROVE  IInv'
  <1> DEFINE k == call[c].key
             x == call[c]
  <1>0. UNCHANGED <<token, customer, lastPayment, view, shown, clock>>
    BY DEF DecidePayment, tab
  <1>1. Sent(x) /\ x.kind \in {"pay", "replay"} /\ k \in Keys
    BY DEF DecidePayment, Open, IInv, Called, Honest, Sent
  <1>2. Decide(k)
    BY DEF DecidePayment
  <1>3. ledger[k] = None
    BY <1>1, <1>2, DecideRecords DEF IInv
  <1>4. PICK p \in Decisions :
          /\ ledger' = [ledger EXCEPT ![k] = p] /\ p # None
          /\ p.status = "approved" => p.customer = Owner[p.invoice]
    BY <1>1, <1>2, DecideRecords DEF IInv
  <1>5. x.kind = "pay" /\ x.who = k.customer
    BY <1>1, <1>3 DEF Sent
  <1>6. /\ ledger'[k] = p /\ \A l \in Keys : l # k => ledger'[l] = ledger[l]
        /\ ledger' \in [Keys -> Decisions \union {None}]
    BY <1>1, <1>4 DEF IInv, Decided
  <1>7. /\ p.customer = x.who /\ p.invoice = k.invoice
        /\ call' = [call EXCEPT ![c].answer = [ok |-> p.status = "approved", body |-> p]]
    BY <1>6 DEF DecidePayment
  <1>8. Decided'
    <2>1. \A l \in Keys : ledger'[l] # None => ledger'[l].customer = l.customer /\ ledger'[l].invoice = l.invoice
      BY <1>5, <1>6, <1>7 DEF IInv, Decided
    <2>2. ASSUME NEW l \in Keys, Approved(l)' PROVE Owner[l.invoice] = l.customer
      <3>1. CASE l = k
        BY <1>4, <1>5, <1>6, <1>7, <2>2, <3>1 DEF Approved
      <3>2. CASE l # k
        BY <1>6, <2>2, <3>2 DEF Approved, IInv, Decided
      <3> QED BY <3>1, <3>2
    <2> QED BY <1>6, <2>1, <2>2 DEF Decided
  <1>9. Called'
    <2> DEFINE a == [ok |-> p.status = "approved", body |-> p]
    <2>1. PICK y : y = [x EXCEPT !.answer = a]
      OBVIOUS
    <2>2. Sent(y) /\ y.answer = a /\ y.kind = "pay" /\ y.key = k /\ y.who = k.customer
      BY <1>1, <1>5, <2>1, AnswerShape
    <2>3. y.answer.body = p /\ y.key \in Keys /\ call' = [call EXCEPT ![c] = y]
      BY <1>1, <1>7, <2>1, <2>2
    <2> HIDE DEF a
    <2>4. ledger'[y.key] = p /\ p # None
      BY <1>4, <1>6, <2>2
    <2>5. Sent(y)'
      BY <2>2 DEF Sent, Shaped
    <2>6. GoodAnswer(y)'
      BY <2>2, <2>3, <2>4 DEF GoodAnswer
    <2>7. Honest(y)'
      BY <2>2, <2>5, <2>6 DEF Honest
    <2>8. \A l \in Keys : ledger[l] # None => ledger'[l] = ledger[l]
      BY <1>3, <1>6
    <2> QED BY <2>3, <2>7, <2>8, SetCalled DEF IInv
  <1>10. Tabbed'
    BY <1>0 DEF IInv, Tabbed
  <1> QED BY <1>8, <1>9, <1>10 DEF IInv

-----------------------------------------------------------------------------
(* What the handlers do with an answer. *)
LEMMA HandlePreserves ==
  ASSUME IInv, NEW c \in Calls, Handle(c)
  PROVE  IInv'
  <1>0. UNCHANGED <<clock, ledger, invoices, told>>
    BY DEF Handle, LoggedIn, ShowInvoices, Paid, Replayed, GiveUp, payments
  <1>1. Decided'
    BY <1>0 DEF IInv, Decided, Approved
  <1>2. Honest(call[c])
    BY DEF IInv, Called
  <1>3. CASE LoggedIn(c)
    <2> DEFINE u == call[c].answer.body
    <2>1. u \in Customers
      BY <1>2, <1>3 DEF LoggedIn, Received, Honest, Sent, GoodAnswer
    <2>2. /\ token' = u /\ customer' = u /\ call' = [call EXCEPT ![c] = Fetch("list", u, u, None, None)]
          /\ view' = "app" /\ UNCHANGED <<lastPayment, shown>>
      BY <1>3 DEF LoggedIn, Send, SessionToken
    <2>3. Honest(Fetch("list", u, u, None, None))
      BY FetchHonest DEF Kinds
    <2>4. Called'
      BY <1>0, <2>2, <2>3, SetCalledQuiet DEF IInv
    <2>5. Tabbed'
      BY <1>0, <2>1, <2>2, NoneAssumption DEF IInv, Tabbed
    <2> QED BY <1>1, <2>4, <2>5 DEF IInv
  <1>4. CASE ShowInvoices(c)
    <2>1. /\ DOMAIN shown' \subseteq Invoices /\ call' = [call EXCEPT ![c] = Free]
          /\ UNCHANGED <<token, customer, lastPayment, view>>
      BY <1>2, <1>4 DEF ShowInvoices, Received, Close, Honest, GoodAnswer
    <2>2. Called'
      BY <1>0, <2>1, FreeIsHonest, SetCalledQuiet DEF IInv
    <2> QED BY <1>0, <1>1, <2>1, <2>2 DEF IInv, Tabbed
  <1>5. CASE Paid(c)
    <2> DEFINE k == call[c].key
               p == call[c].answer.body
    <2>1. k \in Keys /\ ledger[k] # None /\ p = ledger[k]
      BY <1>2, <1>5 DEF Paid, Received, Honest, Sent, GoodAnswer
    <2>2. p.id \in PaymentIds
      BY <2>1 DEF IInv, Decided, Decisions, Server!Decision
    <2>3. /\ lastPayment' = [key |-> k, id |-> p.id]
          /\ call' = [call EXCEPT ![c] = Fetch("replay", token, customer, k, p.id)]
          /\ UNCHANGED <<token, customer, view, shown>>
      BY <1>5 DEF Paid, SendPayment, ReplayKey
    <2>4. Honest(Fetch("replay", token, customer, k, p.id))
      BY <2>1, <2>2, FetchHonest DEF IInv, Tabbed, Kinds
    <2>5. Called'
      BY <1>0, <2>3, <2>4, SetCalledQuiet DEF IInv
    <2>6. Tabbed'
      BY <1>0, <2>1, <2>2, <2>3 DEF IInv, Tabbed
    <2> QED BY <1>1, <2>5, <2>6 DEF IInv
  <1>6. CASE Replayed(c)
    <2>1. call' = [call EXCEPT ![c] = Fetch("list", token, customer, None, None)] /\ UNCHANGED tab
      BY <1>6 DEF Replayed, Send
    <2>2. Honest(Fetch("list", token, customer, None, None))
      BY FetchHonest DEF IInv, Tabbed, Kinds
    <2>3. Called'
      BY <1>0, <2>1, <2>2, SetCalledQuiet DEF IInv
    <2> QED BY <1>0, <1>1, <2>1, <2>3 DEF IInv, Tabbed, tab
  <1>7. CASE GiveUp(c)
    <2>1. call' = [call EXCEPT ![c] = Free] /\ UNCHANGED tab
      BY <1>7 DEF GiveUp, Close
    <2>2. Called'
      BY <1>0, <2>1, FreeIsHonest, SetCalledQuiet DEF IInv
    <2> QED BY <1>0, <1>1, <2>1, <2>2 DEF IInv, Tabbed, tab
  <1> QED BY <1>3, <1>4, <1>5, <1>6, <1>7 DEF Handle

LEMMA NextPreserves == IInv /\ [Next]_vars => IInv'
  <1> SUFFICES ASSUME IInv, [Next]_vars PROVE IInv'
    OBVIOUS
  <1>1. CASE \E c \in Calls : Click(c) \/ Serve(c) \/ Handle(c)
    BY <1>1, ClickPreserves, AnswerPreserves, DecidePreserves, HandlePreserves DEF Serve
  <1>2. CASE Logout
    <2>1. Tabbed'
      BY <1>2 DEF Logout, IInv, Tabbed
    <2>2. UNCHANGED <<call, ledger, invoices>>
      BY <1>2 DEF Logout, payments
    <2> QED BY <2>1, <2>2 DEF IInv, Decided, Approved, Called, Honest, Sent, GoodAnswer, Shaped
  <1>3. CASE Tick
    <2>1. Tabbed'
      BY <1>3, OwnerAssumption DEF Tick, tab, IInv, Tabbed
    <2>2. UNCHANGED <<call, ledger, invoices>>
      BY <1>3 DEF Tick, payments
    <2> QED BY <2>1, <2>2 DEF IInv, Decided, Approved, Called, Honest, Sent, GoodAnswer, Shaped
  <1>4. CASE UNCHANGED vars
    BY <1>4 DEF vars, tab, payments, IInv, Tabbed, Decided, Approved, Called, Honest, Sent, GoodAnswer, Shaped
  <1> QED BY <1>1, <1>2, <1>3, <1>4 DEF Next

-----------------------------------------------------------------------------
(* app.js: the inductive invariant holds in every reachable state. *)
THEOREM Invariance == Spec => []IInv
  BY InitEstablishes, NextPreserves, PTL DEF Spec

(* Every variable keeps its range; the tab shows the app exactly while it holds a token. *)
THEOREM TypeCorrectness == Spec => []TypeOK
  <1>1. IInv => TypeOK
    <2> SUFFICES ASSUME IInv PROVE TypeOK
      OBVIOUS
    <2>1. \A c \in Calls : Sent(call[c])
      BY DEF IInv, Called, Honest
    <2> QED BY <2>1 DEF TypeOK, IInv, Tabbed, Sent, Kinds
  <1> QED BY <1>1, Invariance, PTL

(* app.js:19-21, 45-46: no call goes out with a token of anybody but the one it names. *)
THEOREM CredentialsMatch == Spec => []CredentialsAgree
  <1>1. IInv => CredentialsAgree
    BY DEF IInv, Called, Honest, Sent, CredentialsAgree
  <1> QED BY <1>1, Invariance, PTL

(* app.js:84-90: what is decided under a key of the UI is what its customer clicked. *)
THEOREM DecisionsMatchClicks == Spec => []DecisionsAreClicks
  <1>1. IInv => DecisionsAreClicks
    BY DEF IInv, Decided, Approved, DecisionsAreClicks
  <1> QED BY <1>1, Invariance, PTL

(* app.js:94-101: a replay that is told of a payment is told of the same one. *)
THEOREM ReplaysMatch == Spec => []ReplayAgrees
  <1>1. IInv => ReplayAgrees
    <2> SUFFICES ASSUME IInv, NEW c \in Calls, call[c].kind = "replay", call[c].answer # None,
                        call[c].answer # NoAnswer
                 PROVE  call[c].answer.body.id = call[c].paid
      BY DEF ReplayAgrees
    <2>1. Honest(call[c])
      BY DEF IInv, Called
    <2>2. Sent(call[c]) /\ GoodAnswer(call[c])
      BY <2>1 DEF Honest
    <2> QED BY <2>2 DEF Sent, GoodAnswer
  <1> QED BY <1>1, Invariance, PTL
=============================================================================
