-------------------------- MODULE InflationMonitor --------------------------
(***************************************************************************)
(* inflation_v1.0: what the inflation monitor says of a set of price        *)
(* indexes.  A period is a month number (year * 12 + month), a series is a  *)
(* partial function from periods to levels, and Null is Python's None: a    *)
(* row whose level is missing, or a result that cannot be calculated.       *)
(*                                                                          *)
(* A compounded rate ((P_t / P_(t-n)) ^ (12/n) - 1) * 100 is kept exact: the *)
(* reduced ratio P_t / P_(t-n) and its power.  Two rates of one horizon are *)
(* equal iff their ratios are; rates of different horizons are compared by  *)
(* cross-multiplication.                                                    *)
(***************************************************************************)
EXTENDS Integers, FiniteSets

CONSTANTS
    Null,
    BandNum, BandDen   \* NEUTRAL_BAND_PP as a fraction of one

ASSUME BandAssumption == BandNum \in Nat /\ BandDen \in Nat \ {0}
ASSUME NullAssumption == Null \notin Int

---------------------------------------------------------------------------
(* Calendar and index *)

MonthBefore(period, monthsBack) == period - monthsBack

At(index, period) == IF period \in DOMAIN index THEN index[period] ELSE Null

Latest(periods) ==
    IF periods = {} THEN Null
    ELSE CHOOSE p \in periods : \A q \in periods : q =< p

IsValidIndexValue(v) == v # Null /\ v > 0

BuildIndex(obs) == [p \in {q \in DOMAIN obs : IsValidIndexValue(obs[q])} |-> obs[p]]

\* A row without a usable level still counts as an observation.
LatestObservationDate(obs) == Latest(DOMAIN obs)

---------------------------------------------------------------------------
(* Rates *)

Reduced(a, b) ==
    LET d == CHOOSE k \in 1..a : /\ a % k = 0 /\ b % k = 0
                                 /\ \A j \in (k + 1)..a : a % j # 0 \/ b % j # 0
    IN  <<a \div d, b \div d>>

Rate(index, period, n) ==
    LET current == At(index, period)
        past == At(index, MonthBefore(period, n))
    IN  IF current = Null \/ past = Null THEN Null
        ELSE [ratio |-> Reduced(current, past), power |-> 12 \div n]

UnderlyingHorizons == {3, 6, 12}

LatestPeriodWithHorizons(index, horizons) ==
    Latest({p \in DOMAIN index : \A n \in horizons : Rate(index, p, n) # Null})

LatestValidStatePeriod(index) == LatestPeriodWithHorizons(index, UnderlyingHorizons)
LatestPeriodWith12m(index) == LatestPeriodWithHorizons(index, {12})

\* Mutant: the confirmation series is not consulted.
LatestPrimaryPeriod(primaryIndex, confirmationIndex) ==
    Latest({p \in DOMAIN primaryIndex : \A n \in UnderlyingHorizons : Rate(primaryIndex, p, n) # Null})

LatestCommonPeriod(primaryIndex, confirmationIndex) ==
    Latest({p \in DOMAIN primaryIndex \cap DOMAIN confirmationIndex :
              \A n \in UnderlyingHorizons : /\ Rate(primaryIndex, p, n) # Null
                                            /\ Rate(confirmationIndex, p, n) # Null})

LatestSharedObservationPeriod(primaryObs, confirmationObs) ==
    Latest(DOMAIN primaryObs \cap DOMAIN confirmationObs)

---------------------------------------------------------------------------
(* Classification *)

InflationState == {"COOLING", "HEATING", "STABLE", "MIXED", "INSUFFICIENT_DATA"}

Num(rate) == rate.ratio[1] ^ rate.power
Den(rate) == rate.ratio[2] ^ rate.power

\* rate < r12 - band and rate > r12 + band, without division.
BelowBand(rate, r12) ==
    Num(rate) * Den(r12) * BandDen < Den(rate) * (Num(r12) * BandDen - BandNum * Den(r12))
AboveBand(rate, r12) ==
    Num(rate) * Den(r12) * BandDen > Den(rate) * (Num(r12) * BandDen + BandNum * Den(r12))

ClassifyState(r3, r6, r12) ==
    CASE BelowBand(r3, r12) /\ BelowBand(r6, r12) -> "COOLING"
      [] AboveBand(r3, r12) /\ AboveBand(r6, r12) -> "HEATING"
      [] \A r \in {r3, r6} : ~BelowBand(r, r12) /\ ~AboveBand(r, r12) -> "STABLE"
      [] OTHER -> "MIXED"

MetricEvidence(index, period, n) ==
    [period |-> period, horizon |-> n,
     current |-> At(index, period), past |-> At(index, MonthBefore(period, n)),
     value |-> Rate(index, period, n)]

Horizons == {1, 3, 6, 12}

ClassifyPeriod(index, period, latestObservation, latestValidState) ==
    LET rates == [n \in Horizons |-> IF period = Null THEN Null ELSE Rate(index, period, n)]
        missing == {n \in UnderlyingHorizons : rates[n] = Null}
    IN  [calculation_period |-> period,
         latest_observation_period |-> latestObservation,
         latest_valid_state_period |-> latestValidState,
         rates |-> rates,
         missing_required_metrics |-> missing,
         evidence |-> [n \in Horizons |-> IF period = Null THEN Null
                                          ELSE MetricEvidence(index, period, n)],
         state |-> IF missing # {} THEN "INSUFFICIENT_DATA"
                   ELSE ClassifyState(rates[3], rates[6], rates[12])]

SeriesMomentumAt(obs, period) ==
    ClassifyPeriod(BuildIndex(obs), period, LatestObservationDate(obs),
                   LatestValidStatePeriod(BuildIndex(obs)))

SeriesMomentum(obs) ==
    LET valid == LatestValidStatePeriod(BuildIndex(obs))
    IN  SeriesMomentumAt(obs, IF valid # Null THEN valid ELSE LatestObservationDate(obs))

---------------------------------------------------------------------------
(* Confirmation of core PCE by core CPI *)

ConfirmationRelationship == {"CONFIRMS", "DIVERGES", "INCONCLUSIVE", "UNAVAILABLE"}

ClassifyRelationship(primaryState, confirmationState) ==
    CASE {primaryState, confirmationState} \cap {Null, "INSUFFICIENT_DATA"} # {} -> "UNAVAILABLE"
      [] primaryState = confirmationState /\ primaryState \in {"COOLING", "HEATING", "STABLE"} -> "CONFIRMS"
      [] {primaryState, confirmationState} = {"COOLING", "HEATING"} -> "DIVERGES"
      [] OTHER -> "INCONCLUSIVE"

ConfirmationAt(primaryObs, confirmationObs, period) ==
    LET primary == SeriesMomentumAt(primaryObs, period)
        confirmation == SeriesMomentumAt(confirmationObs, period)
    IN  [primary |-> primary, confirmation |-> confirmation,
         relationship |-> ClassifyRelationship(primary.state, confirmation.state)]

Confirmation(primaryObs, confirmationObs) ==
    LET common == LatestCommonPeriod(BuildIndex(primaryObs), BuildIndex(confirmationObs))
        at == ConfirmationAt(primaryObs, confirmationObs, common)
    IN  [confirmation_latest |-> SeriesMomentum(confirmationObs),
         primary_at |-> IF common = Null THEN Null ELSE at.primary,
         confirmation_at |-> IF common = Null THEN Null ELSE at.confirmation,
         latest_common_period |-> common,
         relationship |-> IF common = Null THEN "UNAVAILABLE" ELSE at.relationship]

---------------------------------------------------------------------------
(* Target: headline PCE year over year against the objective.  The gap is  *)
(* the rate less a constant, so it is kept as the rate it is derived from.  *)

TargetResult(index, period) ==
    LET yoy == IF period = Null THEN Null ELSE Rate(index, period, 12)
    IN  [calculation_period |-> period, headline_pce_yoy |-> yoy,
         target_gap_pp |-> IF yoy = Null THEN Null ELSE [less |-> "objective", yoy |-> yoy],
         available |-> yoy # Null,
         evidence |-> IF period = Null THEN Null ELSE MetricEvidence(index, period, 12)]

TargetAt(obs, period) == TargetResult(BuildIndex(obs), period)
Target(obs) == TargetAt(obs, LatestPeriodWith12m(BuildIndex(obs)))

HeadlineContext(pceObs, cpiObs) ==
    [headline_pce |-> SeriesMomentum(pceObs), headline_cpi |-> SeriesMomentum(cpiObs)]

---------------------------------------------------------------------------
(* The whole monitor, and the two months What Changed compares *)

InflationResult(primaryObs, confirmationObs, targetObs, headlineCpiObs) ==
    LET underlying == SeriesMomentum(primaryObs)
        confirmation == Confirmation(primaryObs, confirmationObs)
        target == Target(targetObs)
        headline == HeadlineContext(targetObs, headlineCpiObs)
        through == {r.latest_observation_period :
                      r \in {underlying, confirmation.confirmation_latest,
                             headline.headline_pce, headline.headline_cpi}} \ {Null}
    IN  [target |-> target, underlying_momentum |-> underlying,
         confirmation |-> confirmation, headline_context |-> headline,
         periods |-> [latest_common_period |-> confirmation.latest_common_period,
                      data_through |-> Latest(through)],
         coverage |-> [primary_available |-> underlying.state # "INSUFFICIENT_DATA",
                       confirmation_available |-> confirmation.relationship # "UNAVAILABLE",
                       target_available |-> target.available,
                       headline_cpi_available |-> headline.headline_cpi.state # "INSUFFICIENT_DATA"]]

PreviousPeriod(current) == IF current = Null THEN Null ELSE MonthBefore(current, 1)

MonthOverMonthMomentum(obs) ==
    LET current == LatestObservationDate(obs)
    IN  [previous_period |-> PreviousPeriod(current), current_period |-> current,
         previous |-> SeriesMomentumAt(obs, PreviousPeriod(current)),
         current |-> SeriesMomentumAt(obs, current)]

MonthOverMonthTarget(obs) ==
    LET current == LatestObservationDate(obs)
    IN  [previous_period |-> PreviousPeriod(current), current_period |-> current,
         previous |-> TargetAt(obs, PreviousPeriod(current)), current |-> TargetAt(obs, current)]

MonthOverMonthConfirmation(primaryObs, confirmationObs) ==
    LET current == LatestSharedObservationPeriod(primaryObs, confirmationObs)
    IN  [previous_period |-> PreviousPeriod(current), current_period |-> current,
         previous |-> ConfirmationAt(primaryObs, confirmationObs, PreviousPeriod(current)),
         current |-> ConfirmationAt(primaryObs, confirmationObs, current)]
=============================================================================
