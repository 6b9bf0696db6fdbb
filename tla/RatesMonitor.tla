---------------------------- MODULE RatesMonitor ----------------------------
(***************************************************************************)
(* rates_v1.0 over the stored Treasury series.  A series is a function from  *)
(* dates to values (percentage points in the code's basis-point unit, Null   *)
(* when none was published); a window counts published sessions, never days. *)
(***************************************************************************)
EXTENDS Integers, Sequences, FiniteSets

CONSTANTS
    Null,
    Windows,          \* numbers of sessions of the change windows
    ContextWindow,    \* the window whose change is ranked against history
    ChartSessions,    \* sessions of the visual evidence
    Spreads,          \* [long, short] pairs of series
    Compensations     \* [nominal, real] pairs of series

Usable(obs) == {d \in DOMAIN obs : obs[d] # Null}

\* The i-th published session.
Session(obs, i) == CHOOSE d \in Usable(obs) : Cardinality({e \in Usable(obs) : e =< d}) = i

LatestSession(obs) == IF Usable(obs) = {} THEN Null ELSE Session(obs, Cardinality(Usable(obs)))

NoChange(sessions) == [available |-> FALSE, sessions |-> sessions, change |-> Null,
                       from_date |-> Null, to_date |-> Null]

\* Mutant: the past observation is looked up that many days back.
ChangeOverDays(obs, sessions) ==
    LET to == LatestSession(obs)
    IN  IF to = Null \/ to - sessions \notin Usable(obs) THEN NoChange(sessions)
        ELSE [available |-> TRUE, sessions |-> sessions, change |-> obs[to] - obs[to - sessions],
              from_date |-> to - sessions, to_date |-> to]

ChangeOverSessions(obs, sessions) ==
    LET count == Cardinality(Usable(obs))
        from == Session(obs, count - sessions)
        to == Session(obs, count)
    IN  IF count < sessions + 1 THEN NoChange(sessions)
        ELSE [available |-> TRUE, sessions |-> sessions, change |-> obs[to] - obs[from],
              from_date |-> from, to_date |-> to]

\* The latest sessions at or before a date, oldest first.
RecentSessionObservations(obs, sessions, asOf) ==
    LET upTo == [d \in {e \in Usable(obs) : e =< asOf} |-> obs[d]]
        count == Cardinality(Usable(upTo))
        shown == IF count < sessions THEN count ELSE sessions
    IN  [i \in 1..shown |-> Session(upTo, count - shown + i)]

\* Every change of a window in the history, oldest first.
HistoricalSessionChanges(obs, sessions) ==
    LET count == Cardinality(Usable(obs))
    IN  [i \in 1..(IF count > sessions THEN count - sessions ELSE 0) |->
           [end_date |-> Session(obs, i + sessions),
            change |-> obs[Session(obs, i + sessions)] - obs[Session(obs, i)]]]

Magnitude(x) == IF x < 0 THEN -x ELSE x

\* The share of the population strictly below a value, as a fraction.
RankAgainst(population, value) ==
    [available |-> population # <<>>, observation_count |-> Len(population),
     below |-> Cardinality({i \in DOMAIN population : population[i] < value}),
     below_magnitude |->
        Cardinality({i \in DOMAIN population : Magnitude(population[i]) < Magnitude(value)})]

\* The latest change against those before it.
HistoricalContext(obs) ==
    LET history == HistoricalSessionChanges(obs, ContextWindow)
        population == [i \in 1..(Len(history) - 1) |-> history[i].change]
    IN  IF history = <<>> THEN RankAgainst(<<>>, 0)
        ELSE RankAgainst(population, history[Len(history)].change)

\* The difference of two series, on the dates both have.
AlignedDifference(first, second) ==
    [d \in Usable(first) \cap Usable(second) |-> first[d] - second[d]]

Changes(obs) == [window \in Windows |-> ChangeOverSessions(obs, window)]

AlignmentReason(first, second) ==
    CASE Usable(first) = {} /\ Usable(second) = {} -> "NO_OBSERVATIONS_FOR_EITHER_SERIES"
      [] Usable(first) # {} /\ Usable(second) # {} -> "NO_EXACTLY_SHARED_OBSERVATION_DATE"
      [] OTHER                                     -> "NO_OBSERVATIONS_FOR_ONE_SERIES"

\* provenance: when each stored date was first retrieved.
BuildLevel(series, obs, provenance) ==
    LET latest == LatestSession(obs)
    IN  [series |-> series, available |-> latest # Null, latest_date |-> latest,
         latest_value |-> IF latest = Null THEN Null ELSE obs[latest],
         changes |-> Changes(obs), historical_context |-> HistoricalContext(obs),
         provenance |-> IF latest = Null \/ latest \notin DOMAIN provenance THEN Null
                        ELSE provenance[latest],
         chart |-> IF latest = Null THEN <<>>
                   ELSE RecentSessionObservations(obs, ChartSessions, latest)]

BuildSpread(long, short) ==
    LET series == AlignedDifference(long, short)
        latest == LatestSession(series)
    IN  [available |-> latest # Null, observation_date |-> latest,
         spread |-> IF latest = Null THEN Null ELSE series[latest],
         long_value |-> IF latest = Null THEN Null ELSE long[latest],
         short_value |-> IF latest = Null THEN Null ELSE short[latest],
         unavailable_reason |-> IF latest = Null THEN AlignmentReason(long, short) ELSE Null,
         changes |-> Changes(series), historical_context |-> HistoricalContext(series)]

BuildCompensation(nominal, real) ==
    LET series == AlignedDifference(nominal, real)
        latest == LatestSession(series)
    IN  [available |-> latest # Null, observation_date |-> latest,
         compensation |-> IF latest = Null THEN Null ELSE series[latest],
         unavailable_reason |-> IF latest = Null THEN AlignmentReason(nominal, real) ELSE Null,
         changes |-> Changes(series), historical_context |-> HistoricalContext(series)]

RatesAsOf(observations) ==
    LET latest == {LatestSession(observations[s]) : s \in DOMAIN observations} \ {Null}
    IN  IF latest = {} THEN Null ELSE CHOOSE d \in latest : \A e \in latest : e =< d

RatesResult(observations, provenance) ==
    [as_of_date |-> RatesAsOf(observations),
     levels |-> {BuildLevel(s, observations[s], provenance[s]) : s \in DOMAIN observations},
     spreads |-> {BuildSpread(observations[p.long], observations[p.short]) : p \in Spreads},
     compensation |->
        {BuildCompensation(observations[p.nominal], observations[p.real]) : p \in Compensations}]
=============================================================================
