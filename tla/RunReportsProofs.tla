-------------------------- MODULE RunReportsProofs --------------------------
(***************************************************************************)
(* The verdicts on a load test, for any two summaries and any journeys.    *)
(* Every invariant reads one computed verdict, so the induction only needs *)
(* to say that a verdict is the one its inputs give: the inputs never      *)
(* change.  The rest is arithmetic on the badges.                          *)
(***************************************************************************)
EXTENDS RunReports, TLAPS

Badges == {"ok", "warn", "fail", "unknown"}

Compared == [m \in Metrics |-> Row(m, baseline[m], current[m])]
Tabled == [m \in Metrics |-> IF current[m] = None THEN "unknown"
                             ELSE IF Passing(m, current[m]) THEN "ok" ELSE "fail"]

(* The inputs have their ranges, and what was said follows from them. *)
IInv ==
  /\ profile \in {"slo", "diagnostic"} /\ failOnRegression \in BOOLEAN
  /\ baseline \in Baselines /\ current \in Summaries
  /\ comparison # None =>
       /\ comparison.rows = Compared
       /\ comparison.exit = 1 <=> failOnRegression /\ \E m \in Metrics : Compared[m] = "fail"
       /\ comparison.status = "ok" => \A m \in Metrics : Compared[m] \notin {"warn", "fail"}
  /\ report # None =>
       /\ report.rows = Tabled
       /\ report.overall = (IF \E m \in Metrics : ThresholdFailed(m) THEN "FAILED" ELSE "PASSED")

-----------------------------------------------------------------------------
(* A latency that grew less is not called worse, a baseline of zero included. *)
LEMMA GrewMonotone ==
  ASSUME NEW base \in Nat, NEW v \in Nat, NEW w \in Nat, v <= w,
         NEW pct \in Nat, Grew(base, v, pct)
  PROVE  Grew(base, w, pct)
  <1>1. w > base /\ w - base >= v - base
    BY DEF Grew
  <1>2. 100 * (w - base) >= 100 * (v - base)
    BY <1>1
  <1>3. pct * base \in Nat /\ 100 * (v - base) >= pct * base
    BY DEF Grew
  <1> QED BY <1>1, <1>2, <1>3 DEF Grew

LEMMA BadgeMonotone ==
  ASSUME NEW base \in Nat, NEW v \in Nat, NEW w \in Nat, v <= w
  PROVE  Rank(Badge(base, v)) <= Rank(Badge(base, w))
  <1>1. None \notin {base, v} /\ None \notin {base, w}
    BY NoneAssumption
  <1>2. Grew(base, v, FailPct) => Grew(base, w, FailPct)
    BY GrewMonotone DEF FailPct
  <1>3. Grew(base, v, WarnPct) => Grew(base, w, WarnPct)
    BY GrewMonotone DEF WarnPct
  <1> QED BY <1>1, <1>2, <1>3 DEF Badge, Rank

(* The same for the two rates: errors that grew less, checks that fell less. *)
LEMMA BadgeAbsMonotone ==
  ASSUME NEW base \in Nat, NEW v \in Nat, NEW w \in Nat, NEW failAbs \in Nat
  PROVE  /\ v <= w => Rank(BadgeAbs(base, v, failAbs, FALSE)) <= Rank(BadgeAbs(base, w, failAbs, FALSE))
         /\ v >= w => Rank(BadgeAbs(base, v, failAbs, TRUE)) <= Rank(BadgeAbs(base, w, failAbs, TRUE))
  BY NoneAssumption DEF BadgeAbs, Exceeds, Rank

-----------------------------------------------------------------------------
LEMMA InitEstablishes == Init => IInv
  BY DEF Init, IInv

LEMMA NextPreserves == IInv /\ [Next]_vars => IInv'
  <1> SUFFICES ASSUME IInv, [Next]_vars PROVE IInv'
    OBVIOUS
  <1>1. CASE Compare
    <2>1. UNCHANGED <<inputs, report>>
      BY <1>1 DEF Compare
    <2>2. /\ comparison'.rows = Compared
          /\ comparison'.exit = 1 <=> failOnRegression /\ \E m \in Metrics : Compared[m] = "fail"
          /\ comparison'.status = "ok" => \A m \in Metrics : Compared[m] \notin {"warn", "fail"}
      BY <1>1 DEF Compare, Compared
    <2>3. Compared' = Compared /\ Tabled' = Tabled
      BY <2>1 DEF inputs, Compared, Tabled
    <2>4. \A m \in Metrics : ThresholdFailed(m)' <=> ThresholdFailed(m)
      BY <2>1 DEF inputs, ThresholdFailed, Judged
    <2> QED BY <2>1, <2>2, <2>3, <2>4 DEF IInv, inputs
  <1>2. CASE Report
    <2>1. UNCHANGED <<inputs, comparison>>
      BY <1>2 DEF Report
    <2>2. /\ report'.rows = Tabled
          /\ report'.overall = (IF \E m \in Metrics : ThresholdFailed(m) THEN "FAILED" ELSE "PASSED")
      BY <1>2 DEF Report, Tabled
    <2>3. Compared' = Compared /\ Tabled' = Tabled
      BY <2>1 DEF inputs, Compared, Tabled
    <2>4. \A m \in Metrics : ThresholdFailed(m)' <=> ThresholdFailed(m)
      BY <2>1 DEF inputs, ThresholdFailed, Judged
    <2> QED BY <2>1, <2>2, <2>3, <2>4 DEF IInv, inputs
  <1>3. CASE UNCHANGED vars
    <2>1. \A m \in Metrics : ThresholdFailed(m)' <=> ThresholdFailed(m)
      BY <1>3 DEF vars, inputs, ThresholdFailed, Judged
    <2> QED BY <1>3, <2>1 DEF IInv, vars, inputs, Compared, Tabled
  <1> QED BY <1>1, <1>2, <1>3 DEF Next

(* In every reachable state the verdicts are the ones the summaries give. *)
THEOREM Verdicts == Spec => []IInv
  BY InitEstablishes, NextPreserves, PTL DEF Spec

-----------------------------------------------------------------------------
LEMMA ImpliesNoWorseNoHarsher == IInv => NoWorseNoHarsher
  <1> SUFFICES ASSUME IInv, comparison # None,
                      NEW m \in Metrics, NEW v \in Values[m],
                      NoWorse(m, v, current[m]), baseline[m] # None
               PROVE  Rank(Row(m, baseline[m], v)) <= Rank(comparison.rows[m])
    BY DEF NoWorseNoHarsher
  <1>1. PICK s \in Summaries : v = s[m]
    BY DEF Values
  <1>2. v \in Nat /\ current[m] \in Nat /\ baseline[m] \in Nat
    BY <1>1, SummariesAssumption DEF IInv, NoWorse
  <1>3. comparison.rows[m] = Row(m, baseline[m], current[m])
    BY DEF IInv, Compared
  <1>4. CASE m = "error_rate"
    <2>1. v <= current[m]
      BY <1>4 DEF NoWorse
    <2>2. Rank(BadgeAbs(baseline[m], v, 5, FALSE)) <= Rank(BadgeAbs(baseline[m], current[m], 5, FALSE))
      BY <1>2, <2>1, BadgeAbsMonotone
    <2> QED BY <1>3, <1>4, <2>2 DEF Row
  <1>5. CASE m = "checks_rate"
    <2>1. v >= current[m]
      BY <1>5 DEF NoWorse
    <2>2. Rank(BadgeAbs(baseline[m], v, 10, TRUE)) <= Rank(BadgeAbs(baseline[m], current[m], 10, TRUE))
      BY <1>2, <2>1, BadgeAbsMonotone
    <2> QED BY <1>3, <1>5, <2>2 DEF Row
  <1>6. CASE m \notin {"error_rate", "checks_rate"}
    <2>1. v <= current[m]
      BY <1>6 DEF NoWorse
    <2>2. Rank(Badge(baseline[m], v)) <= Rank(Badge(baseline[m], current[m]))
      BY <1>2, <2>1, BadgeMonotone
    <2> QED BY <1>3, <1>6, <2>2 DEF Row
  <1> QED BY <1>4, <1>5, <1>6

(* compare-runs.js:44-72: for every baseline, no run gets a harsher badge than a worse one. *)
THEOREM NoHarsher == Spec => []NoWorseNoHarsher
  BY Verdicts, ImpliesNoWorseNoHarsher, PTL

(* A row is red beyond the limit of its metric, and at the limit at most. *)
LEMMA RowTells ==
  ASSUME IInv, NEW m \in Metrics
  PROVE  /\ Regressed(m, FALSE) => Compared[m] = "fail"
         /\ Compared[m] = "fail" => Regressed(m, TRUE)
         /\ m \notin {"error_rate", "checks_rate"} /\ None \notin {baseline[m], current[m]}
            /\ Compared[m] \notin {"warn", "fail"}
            => current[m] <= baseline[m] \/ 10 * current[m] < 11 * baseline[m]
  <1> DEFINE base == baseline[m]
             cur == current[m]
  <1>1. /\ base \in Nat \union {None} /\ cur \in Nat \union {None}
        /\ Compared[m] = Row(m, base, cur)
    BY SummariesAssumption DEF IInv, Compared
  <1>2. CASE None \in {base, cur}
    BY <1>1, <1>2 DEF Row, Badge, BadgeAbs, Regressed
  <1>3. CASE None \notin {base, cur}
    <2>1. base \in Nat /\ cur \in Nat
      BY <1>1, <1>3
    <2>2. CASE m = "error_rate"
      BY <1>1, <1>3, <2>1, <2>2 DEF Row, BadgeAbs, Exceeds, Regressed
    <2>3. CASE m = "checks_rate"
      BY <1>1, <1>3, <2>1, <2>3 DEF Row, BadgeAbs, Exceeds, Regressed
    <2>4. CASE m \notin {"error_rate", "checks_rate"}
      <3>1. Compared[m] = Badge(base, cur)
        BY <1>1, <2>4 DEF Row
      <3>2. Grew(base, cur, FailPct) <=> cur > base /\ 4 * cur >= 5 * base
        BY <2>1 DEF Grew, FailPct
      <3>3. ~Grew(base, cur, WarnPct) => cur <= base \/ 10 * cur < 11 * base
        BY <2>1 DEF Grew, WarnPct
      <3>4. \A b \in BOOLEAN : Regressed(m, b) <=> cur > base /\ 4 * cur >= 5 * base
        BY <1>3, <2>4 DEF Regressed
      <3> QED BY <1>3, <2>4, <3>1, <3>2, <3>3, <3>4 DEF Badge
    <2> QED BY <2>2, <2>3, <2>4
  <1> QED BY <1>2, <1>3

LEMMA ImpliesExitTellsRegression == IInv => ExitTellsRegression
  <1> SUFFICES ASSUME IInv, comparison # None PROVE ExitTellsRegression
    BY DEF ExitTellsRegression
  <1>1. failOnRegression /\ (\E m \in Metrics : Regressed(m, FALSE)) => comparison.exit = 1
    BY RowTells DEF IInv
  <1>2. comparison.exit = 1 => failOnRegression /\ \E m \in Metrics : Regressed(m, TRUE)
    BY RowTells DEF IInv
  <1>3. ASSUME comparison.status = "ok", NEW m \in Metrics \ {"error_rate", "checks_rate"},
               None \notin {baseline[m], current[m]}
        PROVE  current[m] <= baseline[m] \/ 10 * current[m] < 11 * baseline[m]
    BY <1>3, RowTells DEF IInv
  <1> QED BY <1>1, <1>2, <1>3 DEF ExitTellsRegression

(* compare-runs.js:57-72, 123-126: for every pair of summaries and whatever the rounding, the
   exit code tells a regression, with either outcome at the exact limit of a rate, and the
   green verdict keeps every latency's growth below a tenth. *)
THEOREM ExitTells == Spec => []ExitTellsRegression
  BY Verdicts, ImpliesExitTellsRegression, PTL

LEMMA ImpliesHeadlineFitsTable == IInv => HeadlineFitsTable
  <1> SUFFICES ASSUME IInv, report # None
               PROVE  /\ report.overall = "FAILED" => \E m \in Metrics : report.rows[m] = "fail"
                      /\ profile = "slo" /\ report.overall = "PASSED" =>
                           \A m \in Metrics : report.rows[m] # "fail"
    BY DEF HeadlineFitsTable
  <1>1. \A m \in Metrics : current[m] \in Nat \union {None}
    BY SummariesAssumption DEF IInv
  <1>2. \A m \in Metrics : report.rows[m] = "fail" <=> current[m] # None /\ ~Passing(m, current[m])
    BY DEF IInv, Tabled
  <1>3. \A m \in Metrics : SloThreshold(m, current[m]) <=> Passing(m, current[m])
    BY DEF SloThreshold, Passing, JourneySlo, JourneyThreshold
  <1>4. ASSUME NEW m \in Global, current[m] # None, ~DiagnosticThreshold(m, current[m])
        PROVE  ~Passing(m, current[m])
    BY <1>1, <1>4 DEF Global, Metrics, DiagnosticThreshold, Passing
  <1>5. ASSUME NEW m \in Metrics, ThresholdFailed(m)
        PROVE  report.rows[m] = "fail"
    BY <1>2, <1>3, <1>4, <1>5 DEF ThresholdFailed, Judged
  <1>6. ASSUME profile = "slo", NEW m \in Metrics, report.rows[m] = "fail"
        PROVE  ThresholdFailed(m)
    BY <1>2, <1>3, <1>6 DEF ThresholdFailed, Judged
  <1>7. report.overall = "FAILED" <=> \E m \in Metrics : ThresholdFailed(m)
    BY DEF IInv
  <1>8. report.overall = "PASSED" <=> ~\E m \in Metrics : ThresholdFailed(m)
    BY DEF IInv
  <1> QED BY <1>5, <1>6, <1>7, <1>8

(* generate-report.js and thresholds.js: for every summary and every journey, the headline
   k6 gives and the table of the script fit together. *)
THEOREM HeadlineFits == Spec => []HeadlineFitsTable
  BY Verdicts, ImpliesHeadlineFitsTable, PTL
=============================================================================
