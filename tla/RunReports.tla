----------------------------- MODULE RunReports -----------------------------
(***************************************************************************)
(* What is said of a load test: k6 judges the thresholds of its profile,   *)
(* scripts/compare-runs.js compares the run with a baseline run, and       *)
(* scripts/generate-report.js puts k6's judgement above a table of its own *)
(* limits.  Latencies are in ms, of which the scripts compare quotients,   *)
(* and rates in thousandths, of which they subtract fractions: a           *)
(* difference that is a limit exactly is rounded to either side of it.     *)
(* None is a metric the summary does not have.                             *)
(***************************************************************************)
EXTENDS Integers

CONSTANTS
  Journeys, Summaries, Baselines,
  RoundsUp,  \* pairs of rates whose difference in floating point is above the exact one
  None

Global == {"p95_global", "error_rate", "checks_rate"}
Metrics == Global \union Journeys

ASSUME NoneAssumption == None \notin Int
ASSUME SummariesAssumption ==
  /\ Summaries \subseteq [Metrics -> Nat \union {None}]
  /\ Baselines \subseteq [Metrics -> Nat \union {None}]

VARIABLES
  profile,            \* "slo": smoke and load; "diagnostic": the others
  failOnRegression,   \* --fail-on-regression
  baseline, current,  \* the two summaries
  comparison,         \* what compare-runs said, None before
  report              \* what generate-report said, None before

inputs == <<profile, failOnRegression, baseline, current>>
vars == <<inputs, comparison, report>>

-----------------------------------------------------------------------------
(* compare-runs.js *)

WarnPct == 10
FailPct == 25

(* d = (cur - base) / base in per cent is at least pct; a base of 0 makes d
   Infinity, or NaN when nothing grew, which is not `> 0' either. *)
Grew(base, cur, pct) == cur > base /\ 100 * (cur - base) >= pct * base

(* Mutant: the size of the change is looked at, not its direction. *)
BadgeOfChange(base, cur) ==
  IF None \in {base, cur} THEN "unknown"
  ELSE IF Grew(base, cur, FailPct) \/ Grew(cur, base, FailPct) THEN "fail"
  ELSE IF Grew(base, cur, WarnPct) \/ Grew(cur, base, WarnPct) THEN "warn" ELSE "ok"

Badge(base, cur) ==
  IF None \in {base, cur} THEN "unknown"
  ELSE IF Grew(base, cur, FailPct) THEN "fail"
  ELSE IF Grew(base, cur, WarnPct) THEN "warn" ELSE "ok"

(* high - low > limit in floating point, whose result at the limit depends on the pair:
   0.025 - 0.02 is above 0.005, 0.015 - 0.01 is not. *)
Exceeds(low, high, limit) ==
  \/ high - low > limit
  \/ high - low = limit /\ <<low, high>> \in RoundsUp

BadgeAbs(base, cur, failAbs, invert) ==
  IF None \in {base, cur} THEN "unknown"
  ELSE IF (IF invert THEN Exceeds(cur, base, failAbs) ELSE Exceeds(base, cur, failAbs)) THEN "fail" ELSE "ok"

(* Mutant: the checks are compared like the errors. *)
ChecksAsErrors(m, base, cur) ==
  CASE m = "error_rate" -> BadgeAbs(base, cur, 5, FALSE)
    [] m = "checks_rate" -> BadgeAbs(base, cur, 10, FALSE)
    [] OTHER -> Badge(base, cur)

Row(m, base, cur) ==
  CASE m = "error_rate" -> BadgeAbs(base, cur, 5, FALSE)
    [] m = "checks_rate" -> BadgeAbs(base, cur, 10, TRUE)
    [] OTHER -> Badge(base, cur)

(* The rows, `status' above them, and the exit code. *)
Compare ==
  /\ comparison = None
  /\ LET rows == [m \in Metrics |-> Row(m, baseline[m], current[m])]
         hasFailure == \E m \in Metrics : rows[m] = "fail"
         hasWarn == \E m \in Metrics : rows[m] = "warn"
     IN comparison' = [rows |-> rows,
                       status |-> IF hasFailure THEN "fail" ELSE IF hasWarn THEN "warn" ELSE "ok",
                       exit |-> IF failOnRegression /\ hasFailure THEN 1 ELSE 0]
  /\ UNCHANGED <<inputs, report>>

-----------------------------------------------------------------------------
(* generate-report.js *)

JourneySlo == [login |-> 600, invoice_lookup |-> 800, plan_change |-> 1200, payment |-> 1500]

Passing(m, value) ==
  CASE m = "p95_global" -> value < 1200
    [] m = "error_rate" -> value < 10
    [] m = "checks_rate" -> value > 990
    [] OTHER -> value < JourneySlo[m]

(* thresholds.js: what k6 judges a run of the profile by. *)
JourneyThreshold == [login |-> 600, invoice_lookup |-> 800, plan_change |-> 1200, payment |-> 1500]

(* Mutant: k6 lets a journey use its budget up, the table does not. *)
LooseThreshold(m, value) ==
  CASE m = "error_rate" -> value < 10
    [] m = "checks_rate" -> value > 990
    [] m = "p95_global" -> value < 1200
    [] OTHER -> value <= JourneyThreshold[m]

SloThreshold(m, value) ==
  CASE m = "error_rate" -> value < 10
    [] m = "checks_rate" -> value > 990
    [] m = "p95_global" -> value < 1200
    [] OTHER -> value < JourneyThreshold[m]

DiagnosticThreshold(m, value) ==
  CASE m = "error_rate" -> value < 500
    [] m = "checks_rate" -> value > 500
    [] OTHER -> value < 5000

(* k6 exports the metrics of a journey only for the thresholds that name it. *)
Judged == IF profile = "slo" THEN Metrics ELSE Global

ThresholdFailed(m) ==
  /\ m \in Judged /\ current[m] # None
  /\ ~(IF profile = "slo" THEN SloThreshold(m, current[m]) ELSE DiagnosticThreshold(m, current[m]))

Report ==
  /\ report = None
  /\ report' = [rows |-> [m \in Metrics |-> IF current[m] = None THEN "unknown"
                                            ELSE IF Passing(m, current[m]) THEN "ok" ELSE "fail"],
                overall |-> IF \E m \in Metrics : ThresholdFailed(m) THEN "FAILED" ELSE "PASSED"]
  /\ UNCHANGED <<inputs, comparison>>

-----------------------------------------------------------------------------
Init ==
  /\ profile \in {"slo", "diagnostic"} /\ failOnRegression \in BOOLEAN
  /\ baseline \in Baselines /\ current \in Summaries
  /\ \A j \in Journeys : j \notin Judged => current[j] = None
  /\ comparison = None /\ report = None

Next == Compare \/ Report

Spec == Init /\ [][Next]_vars

-----------------------------------------------------------------------------
Rank(badge) == CASE badge = "ok" -> 0 [] badge = "warn" -> 1 [] badge = "fail" -> 2

(* v is no worse a value of metric m than w. *)
NoWorse(m, v, w) == v # None /\ w # None /\ IF m = "checks_rate" THEN v >= w ELSE v <= w

Values == [m \in Metrics |-> {s[m] : s \in Summaries}]

(* compare-runs.js:44-72: against the same baseline, zeros included, a run that did no
   worse on a metric is never given the worse badge for it. *)
NoWorseNoHarsher ==
  comparison # None =>
    \A m \in Metrics : \A v \in Values[m] :
      NoWorse(m, v, current[m]) /\ baseline[m] # None =>
        Rank(Row(m, baseline[m], v)) <= Rank(comparison.rows[m])

(* compare-runs.js:11-14: what the comments call a regression, and what is one beyond doubt. *)
Regressed(m, atLimit) ==
  /\ baseline[m] # None /\ current[m] # None
  /\ CASE m = "error_rate" -> current[m] - baseline[m] > 5 \/ (atLimit /\ current[m] - baseline[m] = 5)
       [] m = "checks_rate" -> baseline[m] - current[m] > 10 \/ (atLimit /\ baseline[m] - current[m] = 10)
       [] OTHER -> current[m] > baseline[m] /\ 4 * current[m] >= 5 * baseline[m]

(* compare-runs.js:5-7, 111, 123-126: with --fail-on-regression the script exits 1 when some
   metric is beyond its limit, and never without it or without one that has reached it; and
   a green status means that no latency has grown by a tenth, zero baselines included.
   Nothing is said of a rate exactly at its limit: there 13-14 and 121 say that it fails,
   and the comparison, strict and of floats, only sometimes does (69-70). *)
ExitTellsRegression ==
  comparison # None =>
    /\ failOnRegression /\ (\E m \in Metrics : Regressed(m, FALSE)) => comparison.exit = 1
    /\ comparison.exit = 1 => failOnRegression /\ \E m \in Metrics : Regressed(m, TRUE)
    /\ comparison.status = "ok" =>
         \A m \in Metrics \ {"error_rate", "checks_rate"} :
           None \notin {baseline[m], current[m]} =>
             current[m] <= baseline[m] \/ 10 * current[m] < 11 * baseline[m]

(* generate-report.js:67-95, 107-123 and thresholds.js: the headline and the table come
   from two sets of limits in two files.  A run k6 failed shows a red row, and a gating run
   k6 passed shows none. *)
HeadlineFitsTable ==
  report # None =>
    /\ report.overall = "FAILED" => \E m \in Metrics : report.rows[m] = "fail"
    /\ profile = "slo" /\ report.overall = "PASSED" => \A m \in Metrics : report.rows[m] # "fail"
=============================================================================
