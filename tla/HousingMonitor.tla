--------------------------- MODULE HousingMonitor ---------------------------
(***************************************************************************)
(* The housing read model: the figures of each measure and how they compare  *)
(* with the observation published before and with the same month a year      *)
(* earlier.  A series is a function from months to values (Null when none).  *)
(***************************************************************************)
EXTENDS Integers, FiniteSets

CONSTANTS
    Null,
    NaN,           \* a value that is not a number
    YearMonths,    \* 12
    TrendMonths    \* observations of the trend

Published(obs) == {m \in DOMAIN obs : obs[m] # Null}

LatestOf(months) == CHOOSE m \in months : \A n \in months : n =< m

NoComparison == [period |-> Null, value |-> Null, change |-> Null]

Compare(obs, current, earlier) ==
    [period |-> earlier, value |-> obs[earlier],
     change |-> IF NaN \in {obs[current], obs[earlier]} THEN NaN ELSE obs[current] - obs[earlier]]

PrecedingComparison(obs) ==
    LET newest == LatestOf(Published(obs))
    IN  IF Cardinality(Published(obs)) < 2 THEN NoComparison
        ELSE Compare(obs, newest, LatestOf(Published(obs) \ {newest}))

YearAgoComparison(obs) ==
    LET newest == LatestOf(Published(obs))
    IN  IF Published(obs) = {} \/ newest - YearMonths \notin Published(obs) THEN NoComparison
        ELSE Compare(obs, newest, newest - YearMonths)

RecentWindow(obs, months) ==
    {m \in Published(obs) : Cardinality({n \in Published(obs) : n > m}) < months}

\* Whether an incoming observation is history rather than something watched.
IsBaselineImport(stored, incoming) ==
    stored = {} \/ incoming < LatestOf(stored)

HousingMeasure(obs) ==
    CASE DOMAIN obs = {} -> [available |-> FALSE, unavailable_reason |-> "NEVER_INGESTED"]
      [] DOMAIN obs # {} /\ Published(obs) = {} ->
           [available |-> FALSE, unavailable_reason |-> "NO_USABLE_VALUE"]
      [] OTHER ->
           [available |-> TRUE, period |-> LatestOf(Published(obs)),
            value |-> obs[LatestOf(Published(obs))],
            previous |-> PrecedingComparison(obs), year_ago |-> YearAgoComparison(obs),
            trend |-> RecentWindow(obs, TrendMonths)]

\* The newest month any measure has a value for.
HousingAsOf(observations) ==
    LET periods == UNION {Published(observations[s]) : s \in DOMAIN observations}
    IN  IF periods = {} THEN Null ELSE LatestOf(periods)
=============================================================================
