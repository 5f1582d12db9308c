---------------------------- MODULE MCRunReports ----------------------------
(***************************************************************************)
(* Instances of RunReports for TLC: every limit of the scripts is met      *)
(* exactly, just missed and exceeded by some pair of values.               *)
(***************************************************************************)
EXTENDS RunReports

MCJourneys == {"login"}

MCSummaries ==
  {s \in [Metrics -> {None, 0, 9, 10, 15, 16, 25, 989, 990, 991, 599, 600, 1199, 1200, 5000}] :
     /\ s["p95_global"] \in {None, 0, 1199, 1200, 5000}
     /\ s["error_rate"] \in {None, 9, 10, 15, 16, 25}
     /\ s["checks_rate"] \in {None, 989, 990, 991}
     /\ s["login"] \in {None, 0, 599, 600}}

MCBaselines ==
  {s \in [Metrics -> {None, 0, 10, 20, 480, 545, 960, 1090, 1000}] :
     /\ s["p95_global"] \in {0, 960, 1090}
     /\ s["error_rate"] \in {0, 10, 20}
     /\ s["checks_rate"] \in {None, 1000}
     /\ s["login"] \in {None, 0, 480, 545}}

(* Of the pairs above at a limit: 0.025 - 0.02 and 1 - 0.99, but not 0.015 - 0.01. *)
MCRoundsUp == {<<20, 25>>, <<990, 1000>>}
=============================================================================
