--------------------------- MODULE MCApiRequests ---------------------------
(***************************************************************************)
(* Instances of ApiRequests for TLC.  c is a customer; d once was one: a   *)
(* token of hers may outlive a database that was created anew.             *)
(***************************************************************************)
EXTENDS ApiRequests, TLC

CONSTANTS c, d

MCPlans == {"basic", "fiber"}
MCCurrentPlan == [u \in {c} |-> "basic"]

Ask(route, who, target) == [route |-> route, who |-> who, target |-> target, valid |-> TRUE]

MCForms ==
  {Ask(route, c, "fiber") : route \in Routes}
    \union {Ask("plan_change", c, "basic"), Ask("plan_change", c, "gone"), Ask("plan_change", d, "fiber"),
            [Ask("login", c, "fiber") EXCEPT !.valid = FALSE]}
=============================================================================
