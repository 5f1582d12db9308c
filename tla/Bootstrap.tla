------------------------------ MODULE Bootstrap ------------------------------
(***************************************************************************)
(* What the boots of the API promise ("Both are idempotent, so running     *)
(* them on every boot is safe", migrate.ts): however many processes boot,  *)
(* race, die and boot again, their database is created once and seeded     *)
(* once, and whoever listens or pays does so after that.                   *)
(***************************************************************************)
CONSTANTS Processes, Rows, SeedRows, None

VARIABLES
  schema,     \* the tables exist
  invoices,   \* the rows of table invoices, None where there is none
  listening   \* the processes that accept requests

vars == <<schema, invoices, listening>>

Ready == schema /\ \A x \in Rows : invoices[x] # None

(* An empty database, or one that initdb filled. *)
Init ==
  /\ schema \in BOOLEAN
  /\ invoices = IF schema THEN SeedRows ELSE [x \in Rows |-> None]
  /\ listening = {}

CreateSchema ==
  /\ ~schema /\ schema' = TRUE
  /\ UNCHANGED <<invoices, listening>>

(* All rows or none, and never a second time. *)
LoadSeed ==
  /\ schema /\ \A x \in Rows : invoices[x] = None
  /\ invoices' = SeedRows
  /\ UNCHANGED <<schema, listening>>

Open(i) ==
  /\ Ready /\ i \notin listening
  /\ listening' = listening \union {i}
  /\ UNCHANGED <<schema, invoices>>

Close(i) ==
  /\ i \in listening
  /\ listening' = listening \ {i}
  /\ UNCHANGED <<schema, invoices>>

(* Only rows of the seed are paid, and no boot changes one that is there. *)
Pay(x) ==
  /\ Ready
  /\ invoices' = [invoices EXCEPT ![x] = "paid"]
  /\ UNCHANGED <<schema, listening>>

Next ==
  \/ CreateSchema
  \/ LoadSeed
  \/ \E i \in Processes : Open(i) \/ Close(i)
  \/ \E x \in Rows : Pay(x)

Spec == Init /\ [][Next]_vars
=============================================================================
