------------------------- MODULE ReleaseIntelligence -------------------------
(***************************************************************************)
(* The structured intelligence of the release checks, built on every read    *)
(* from the check runs and the observation versions.                         *)
(***************************************************************************)
EXTENDS MonitorHistory

CONSTANT NaN    \* a value that is not a number; no agency's parser lets one in

\* No world is not a world.
ASSUME WorldAssumption == Null \notin {"inflation", "jobs"}

INSTANCE Intelligence

MethodologyForSeries(series) == IF series \in InflationSeries THEN "inflation_v1.0" ELSE "labor_v1.0"

WorldByMethodology(methodology) == IF methodology = "inflation_v1.0" THEN "inflation" ELSE "jobs"

MethodologyOf(component) ==
    IF component \in InflationComponents THEN "inflation_v1.0" ELSE "labor_v1.0"

ConceptsForSeries(updates) == {u.series : u \in updates}

\* The world of a run: that of an analysis of its, else that of what it changed.
ReleaseWorld(run) ==
    CASE run.analysis_updates # {} ->
           WorldByMethodology(MethodologyOf((CHOOSE e \in run.analysis_updates : TRUE).component))
      [] run.analysis_updates = {} /\ run.observation_updates # {} ->
           WorldByMethodology(MethodologyForSeries((CHOOSE u \in run.observation_updates : TRUE).series))
      [] OTHER -> Null

TimelineOf(series, month) ==
    {[at |-> v.from, backfilled |-> v.backfilled] :
       v \in {u \in versions : u.series = series /\ u.month = month}}

ReleaseProcessed(release, run) ==
    [type |-> "RELEASE_PROCESSED", id |-> ReleaseProcessedId(release, Null),
     world |-> ReleaseWorld(run), recorded_at |-> run.completed_at,
     concepts |-> ConceptsForSeries(run.observation_updates), status |-> run.status,
     new |-> Cardinality({u \in run.observation_updates : u.change = "NEW"}),
     revised |-> Cardinality({u \in run.observation_updates : u.change = "REVISED"})]

ReleaseObservationChange(run, u) ==
    ObservationChange(u.series, u.month, run.detected_at,
                      WorldByMethodology(MethodologyForSeries(u.series)), u.change,
                      RevisionKnowledge(u.change, TimelineOf(u.series, u.month)), u.previous, u.new)

ConclusionId(e) ==
    AnalysisChangeId(MethodologyOf(e.component), e.component, e.field, e.current_period, e.event_type)

AnalysisChange(run, e) ==
    [type |-> "ANALYSIS_CHANGE", id |-> ConclusionId(e),
     world |-> WorldByMethodology(MethodologyOf(e.component)), effective_period |-> e.current_period,
     recorded_at |-> run.completed_at, change_class |-> ChangeClass(e.event_type)]

\* The analyses of every run of an occurrence.
AnalysesOf(release) ==
    UNION {{AnalysisChange(runs[i], e) : e \in runs[i].analysis_updates} : i \in RunsOf(release)}

\* An occurrence whose latest run touched no world says nothing at all.
OccurrenceIntelligence(release) ==
    LET latest == runs[LatestRun(release)]
    IN  IF RunsOf(release) = {} \/ ReleaseWorld(latest) = Null THEN {}
        ELSE {ReleaseProcessed(release, latest)}
             \cup {ReleaseObservationChange(latest, u) : u \in latest.observation_updates}
             \cup AnalysesOf(release)

---------------------------------------------------------------------------
(* Properties *)

\* repositories/release_processing_repository.py:131: what a check tells of an
\* observation is what the versions tell.  The run records a version of each value
\* it names, calls it new exactly when no version was older, names as previous the
\* value of the last older one, and a read calls an original value known only if
\* no version of the observation came with an import of history.
NewsIsOfTheVersions ==
    Quiet => \A i \in DOMAIN runs : \A u \in runs[i].observation_updates :
        LET timeline == {v \in versions : v.series = u.series /\ v.month = u.month}
            older == {v \in timeline : v.from < runs[i].detected_at}
        IN  /\ \E v \in timeline : v.from = runs[i].detected_at /\ v.value = u.new
            /\ u.change = "NEW" <=> older = {}
            /\ u.previous = IF older = {} THEN Null ELSE LatestOf(older).value
            /\ ReleaseObservationChange(runs[i], u).original_value_known
                 => \A v \in timeline : ~v.backfilled

\* docs/architecture/structured-intelligence.md:166 "Nothing is lost": every
\* conclusion a check of an occurrence ever recorded is among what is told of it.
EveryConclusionIsTold ==
    \A release \in Releases :
        {ConclusionId(e) : e \in DetectedEvidence(release).analyses}
            \subseteq {o.id : o \in OccurrenceIntelligence(release)}
=============================================================================
