------------------------- MODULE PaymentsInvariant -------------------------
(***************************************************************************)
(* The inductive invariant of Payments: what must be true between any two  *)
(* steps for the ledger properties to be preserved by the next one.        *)
(***************************************************************************)
EXTENDS Payments

(* Phases after the ownership guard: the body has a key and is the owner's. *)
KeyedPhases == {"connecting", "answering", "echoing"} \union TxPhases
WorkingPhases == {"locking", "charging", "settling"}

(* A request past its guards knows its body, and its key. *)
BodyKnown ==
  \A r \in Requests :
    /\ pc[r] # "idle" /\ pc[r] # "done" /\ pc[r] \notin OrphanPhases => body[r] \in Content
    /\ pc[r] \in KeyedPhases => body[r].key \in Keys

(* An open row belongs to a transaction, under a key that is not committed and
   that no other open row has: the unique index, between statements. *)
RowExclusive ==
  \A r \in Requests : row[r] # None =>
    /\ pc[r] \in WorkingPhases \union OrphanPhases \union {"committing"}
    /\ body[r] \in Content /\ body[r].key \in Keys
    /\ payments[body[r].key] = None
    /\ \A q \in Requests \ {r} : row[q] # None => body[q].key # body[r].key

(* What each phase has achieved. *)
Progress ==
  \A r \in Requests :
    /\ pc[r] \in WorkingPhases => row[r] # None
    /\ pc[r] \in {"charging", "settling"} => Matches(r)
    /\ pc[r] \in {"committing", "orphanCommit"} /\ row[r] # None => row[r].status # "pending"
    /\ pc[r] = "replaying" => payments[body[r].key] # None

(* The result the handler is going to send is, or becomes at COMMIT, what the
   payments table says. *)
ResultAgrees ==
  \A r \in Requests :
    /\ pc[r] \in {"committing", "answering", "echoing"} => result[r] # None
    /\ pc[r] = "committing" /\ row[r] # None =>
         row[r].id = result[r].id /\ row[r].status = result[r].status
    /\ pc[r] = "committing" /\ row[r] = None => Agrees(body[r].key, result[r])
    /\ pc[r] \in {"answering", "echoing"} => Agrees(body[r].key, result[r])

(* A result is only told by a finished request, under a real key. *)
ToldIsDone ==
  \A r \in Requests : Told(r) =>
    pc[r] = "done" /\ body[r] \in Content /\ body[r].key \in Keys

(* An open row says what its request asked for.  While a request is charging,
   and once it has approved its row, it holds the lock of its own, unpaid
   invoice. *)
HoldsItsLock(r) ==
  /\ row[r] # None => /\ row[r].invoice = body[r].invoice
                      /\ row[r].customer = body[r].customer
                      /\ row[r].amount = body[r].amount
  /\ AtGateway(r) => /\ lockedBy[body[r].invoice] = r
                     /\ invoices[body[r].invoice] # "paid"
  /\ row[r] # None /\ row[r].status = "approved" =>
       /\ pc[r] \in {"committing", "orphanCommit"}
       /\ Matches(r) /\ Due[body[r].invoice] = body[r].amount
       /\ lockedBy[body[r].invoice] = r
       /\ invoices[body[r].invoice] # "paid"

LocksProtect == \A r \in Requests : HoldsItsLock(r)

(* No two payments, committed or open, have one payment_id. *)
IdsExclusive ==
  \A r \in Requests : row[r] # None =>
    /\ ~IdCommitted(row[r].id)
    /\ \A q \in Requests \ {r} : row[q] # None => row[q].id # row[r].id

(* The reset that is executing is one of the MaxResets allowed. *)
ResetBudget == resetting # "no" => resets < MaxResets

IInv ==
  /\ TypeOK
  /\ ResetBudget
  /\ LocksProtect
  /\ IdsExclusive
  /\ BodyKnown
  /\ RowExclusive
  /\ Progress
  /\ ResultAgrees
  /\ ToldIsDone
  /\ ReplyMatchesLedger
  /\ CacheMatchesLedger
=============================================================================
