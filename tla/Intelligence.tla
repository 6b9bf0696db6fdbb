---------------------------- MODULE Intelligence ----------------------------
(***************************************************************************)
(* Structured intelligence objects.  Nothing stores them: each read builds   *)
(* them from canonical rows, and an object's identity is the tuple of the    *)
(* facts that name it.  A concept is named by the series bound to it.        *)
(*                                                                          *)
(* A version is [series, period, value, type, backfilled, at].              *)
(***************************************************************************)
EXTENDS Integers, Sequences, FiniteSets

CONSTANTS
    Null,
    NaN     \* a value that is not a number

ReleaseProcessedId(release, scheduled) == <<"release", release, scheduled>>

ObservationChangeId(series, period, detectedAt) == <<"observation", series, period, detectedAt>>

AnalysisChangeId(methodology, component, field, period, eventType) ==
    <<"analysis", methodology, component, field, period, eventType>>

RatesMovementId(series, asOf) == <<"rates", series, asOf>>

ChangeClass(eventType) ==
    IF eventType \in {"AVAILABILITY_LOST", "AVAILABILITY_RESTORED"} THEN "COVERAGE" ELSE "ECONOMIC"

\* The timeline of one observation.
ListVersions(versions, series, period) ==
    {v \in versions : v.series = series /\ v.period = period}

\* A revision was watched only if the first version ever held was observed.
RevisionKnowledge(changeType, timeline) ==
    CASE changeType # "REVISED" -> "FIRST_OBSERVATION"
      [] changeType = "REVISED" /\ timeline = {} -> "BACKFILLED_BASELINE"
      [] OTHER -> IF (CHOOSE v \in timeline : \A u \in timeline : v.at =< u.at).backfilled
                  THEN "BACKFILLED_BASELINE" ELSE "PROSPECTIVE_REVISION"

\* Mutant: the earliest version instead of the one just before.
FirstVersionValue(timeline, version) ==
    LET earlier == {v \in timeline : v.at < version.at}
    IN  IF earlier = {} THEN Null
        ELSE (CHOOSE v \in earlier : \A u \in earlier : v.at =< u.at).value

\* What was held immediately before a version.
PreviousVersionValue(timeline, version) ==
    LET earlier == {v \in timeline : v.at < version.at}
    IN  IF earlier = {} THEN Null
        ELSE (CHOOSE v \in earlier : \A u \in earlier : u.at =< v.at).value

Delta(new, previous) ==
    CASE Null \in {new, previous}                              -> Null
      [] Null \notin {new, previous} /\ NaN \in {new, previous} -> NaN
      [] OTHER                                                -> new - previous

ObservationChange(series, period, detectedAt, world, type, knowledge, previous, new) ==
    [type |-> "OBSERVATION_CHANGE", id |-> ObservationChangeId(series, period, detectedAt),
     world |-> world, effective_period |-> period, recorded_at |-> detectedAt,
     change_type |-> IF type = "REVISED" THEN "REVISED" ELSE "NEW",
     revision_knowledge |-> knowledge,
     original_value_known |-> knowledge = "PROSPECTIVE_REVISION" /\ previous # Null,
     previous_value |-> previous, new_value |-> new, delta |-> Delta(new, previous)]

---------------------------------------------------------------------------
(* Housing: projected from the observed versions, newest first, at most     *)
(* limit of them.                                                           *)

ObservedVersions(versions, series) ==
    {v \in versions : v.series \in series /\ ~v.backfilled}

\* Ties of two series are broken by the id in the code; here neither is newer.
NewerVersion(v, u) ==
    \/ v.at > u.at
    \/ v.at = u.at /\ v.period > u.period

ListObservedVersions(versions, series, limit) ==
    {v \in ObservedVersions(versions, series) :
        Cardinality({u \in ObservedVersions(versions, series) : NewerVersion(u, v)}) < limit}

HousingObservationChange(versions, v) ==
    LET timeline == ListVersions(versions, v.series, v.period)
        previous == IF v.type = "REVISED" THEN PreviousVersionValue(timeline, v) ELSE Null
    IN  ObservationChange(v.series, v.period, v.at, "housing", v.type,
                          RevisionKnowledge(v.type, timeline), previous, v.value)

HousingIntelligence(versions, series, limit) ==
    {HousingObservationChange(versions, v) : v \in ListObservedVersions(versions, series, limit)}

---------------------------------------------------------------------------
(* Rates: one movement for each level with a usable observation.            *)

RatesMovement(level, asOf) ==
    [type |-> "RATES_MOVEMENT", id |-> RatesMovementId(level.series, level.latest_date),
     world |-> "rates", effective_period |-> level.latest_date,
     recorded_at |-> IF level.provenance = Null THEN level.latest_date ELSE level.provenance,
     knowledge_basis |-> IF level.provenance = Null THEN "BACKFILLED" ELSE "OBSERVED",
     latest_value |-> level.latest_value, changes |-> level.changes,
     visual_evidence |-> IF level.chart = <<>> THEN Null ELSE level.chart]

RatesIntelligence(page) ==
    IF page.as_of_date = Null THEN {}
    ELSE {RatesMovement(level, page.as_of_date) : level \in {l \in page.levels : l.available}}
=============================================================================
