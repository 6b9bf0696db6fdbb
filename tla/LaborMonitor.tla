---------------------------- MODULE LaborMonitor ----------------------------
(***************************************************************************)
(* labor_v1.0: what the labor monitor says of payrolls (PAYEMS) and of the  *)
(* unemployment rate (UNRATE).  A three-month average is kept as the sum of *)
(* its three terms, and every deadband as three times itself, so that all   *)
(* comparisons are between integers.                                        *)
(***************************************************************************)
EXTENDS InflationMonitor

CONSTANTS
    ConditionDeadband,     \* 3 * CONDITION_DEADBAND_JOBS
    MomentumDeadband,      \* 3 * MOMENTUM_DEADBAND_JOBS
    UnemploymentDeadband   \* 3 * UNEMPLOYMENT_DEADBAND_PP

ASSUME DeadbandAssumption ==
    {ConditionDeadband, MomentumDeadband, UnemploymentDeadband} \subseteq Nat

\* build_jobs_index and build_rate_index: any level but a missing one.
BuildLevelIndex(obs) == [p \in {q \in DOMAIN obs : obs[q] # Null} |-> obs[p]]

---------------------------------------------------------------------------
(* Employment *)

MonthlyChange(index, m) ==
    LET current == At(index, m)
        past == At(index, MonthBefore(m, 1))
    IN  IF current = Null \/ past = Null THEN Null ELSE current - past

AverageMonthlyChange(index, t) ==
    LET change == [k \in 0..2 |-> MonthlyChange(index, MonthBefore(t, k))]
    IN  IF \E k \in 0..2 : change[k] = Null THEN Null
        ELSE change[0] + change[1] + change[2]

\* Which side of a deadband a value is on; the band itself is inclusive.
Side(value, deadband, above, inside, below) ==
    CASE value = Null -> "INSUFFICIENT_DATA"
      [] value # Null /\ value > deadband -> above
      [] value # Null /\ value < -deadband -> below
      [] OTHER -> inside

EmploymentCondition(value) ==
    Side(value, ConditionDeadband, "EXPANDING", "FLAT", "CONTRACTING")

Difference(recent, older) == IF recent = Null \/ older = Null THEN Null ELSE recent - older

EmploymentMomentum(recent, older) ==
    Side(Difference(recent, older), MomentumDeadband, "IMPROVING", "STEADY", "WORSENING")

EmploymentState(condition, momentum) ==
    CASE "INSUFFICIENT_DATA" \in {condition, momentum} -> "INSUFFICIENT_DATA"
      [] condition = "EXPANDING" /\ momentum \in {"IMPROVING", "STEADY"} -> "EXPANDING"
      [] condition = "EXPANDING" /\ momentum = "WORSENING" -> "COOLING"
      [] condition = "FLAT" /\ momentum # "INSUFFICIENT_DATA" -> "STABLE"
      [] condition = "CONTRACTING" /\ momentum = "IMPROVING" -> "RECOVERING"
      [] condition = "CONTRACTING" /\ momentum \in {"STEADY", "WORSENING"} -> "CONTRACTING"

\* Observations t back to t-6; the evidence lists all seven.
EmploymentResult(index, t) ==
    LET current == AverageMonthlyChange(index, t)
        prior == AverageMonthlyChange(index, MonthBefore(t, 3))
        condition == EmploymentCondition(current)
        momentum == EmploymentMomentum(current, prior)
    IN  [current_3m_avg_jobs |-> current, prior_3m_avg_jobs |-> prior,
         momentum_delta_jobs |-> Difference(current, prior),
         condition |-> condition, momentum |-> momentum,
         state |-> EmploymentState(condition, momentum),
         observations |-> [k \in 0..6 |-> At(index, MonthBefore(t, k))]]

---------------------------------------------------------------------------
(* Unemployment *)

AverageRate(index, start) ==
    LET value == [k \in 0..2 |-> At(index, MonthBefore(start, k))]
    IN  IF \E k \in 0..2 : value[k] = Null THEN Null ELSE value[0] + value[1] + value[2]

UnemploymentTrend(delta) ==
    Side(delta, UnemploymentDeadband, "DETERIORATING", "STABLE", "IMPROVING")

\* Mutant: the year before is not cited as evidence.
UnemploymentMonthsThisYear == {0, 1, 2}

UnemploymentMonths == {0, 1, 2, 12, 13, 14}

UnemploymentResult(index, t) ==
    LET current == AverageRate(index, t)
        prior == AverageRate(index, MonthBefore(t, 12))
    IN  [current_3m_avg |-> current, prior_year_3m_avg |-> prior,
         delta_pp |-> Difference(current, prior),
         state |-> UnemploymentTrend(Difference(current, prior)),
         observations |-> [k \in UnemploymentMonths |-> At(index, MonthBefore(t, k))]]

---------------------------------------------------------------------------
(* The labor state, and the one month both series are evaluated at *)

LaborState(employment, unemployment) ==
    CASE "INSUFFICIENT_DATA" \in {employment, unemployment} -> "INSUFFICIENT_DATA"
      [] employment = "EXPANDING" /\ unemployment = "IMPROVING" -> "STRENGTHENING"
      [] employment \in {"COOLING", "CONTRACTING"} /\ unemployment = "DETERIORATING" -> "COOLING"
      [] employment = "STABLE" /\ unemployment = "STABLE" -> "STABLE"
      [] OTHER -> "MIXED"

EvaluationPeriod(payems, unrate) ==
    LET payemsLatest == LatestObservationDate(payems)
        unrateLatest == LatestObservationDate(unrate)
    IN  CASE payemsLatest = Null \/ unrateLatest = Null -> Null
          [] OTHER -> IF payemsLatest =< unrateLatest THEN payemsLatest ELSE unrateLatest

LaborResultAt(payems, unrate, period) ==
    LET employment == EmploymentResult(BuildLevelIndex(payems), period)
        unemployment == UnemploymentResult(BuildLevelIndex(unrate), period)
    IN  [state |-> LaborState(employment.state, unemployment.state),
         evaluation_period |-> period, employment |-> employment, unemployment |-> unemployment]

\* No month to evaluate: nothing is known and no observation is cited.
InsufficientLaborResult ==
    [state |-> "INSUFFICIENT_DATA", evaluation_period |-> Null,
     employment |-> [current_3m_avg_jobs |-> Null, prior_3m_avg_jobs |-> Null,
                     momentum_delta_jobs |-> Null, condition |-> "INSUFFICIENT_DATA",
                     momentum |-> "INSUFFICIENT_DATA", state |-> "INSUFFICIENT_DATA",
                     observations |-> <<>>],
     unemployment |-> [current_3m_avg |-> Null, prior_year_3m_avg |-> Null, delta_pp |-> Null,
                       state |-> "INSUFFICIENT_DATA", observations |-> <<>>]]

LaborResult(payems, unrate) ==
    LET period == EvaluationPeriod(payems, unrate)
    IN  IF period = Null THEN InsufficientLaborResult ELSE LaborResultAt(payems, unrate, period)

\* The two sides of the labor comparison: one result serves both when there
\* is no month at all.
MonthOverMonthLabor(payems, unrate) ==
    LET current == EvaluationPeriod(payems, unrate)
        at(period) == IF period = Null THEN InsufficientLaborResult
                      ELSE LaborResultAt(payems, unrate, period)
    IN  [previous_period |-> PreviousPeriod(current), current_period |-> current,
         previous |-> at(PreviousPeriod(current)), current |-> at(current)]
=============================================================================
