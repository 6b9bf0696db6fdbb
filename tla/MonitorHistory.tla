--------------------------- MODULE MonitorHistory ---------------------------
(***************************************************************************)
(* What is read back of the checks: the replay of a recorded result from    *)
(* the observation versions, the monitor's history pages and the comparison *)
(* with today's data, the processing status of an occurrence, and the items *)
(* of the since-last-visit recap.  A reader sees one committed state.       *)
(*                                                                          *)
(* One version of each methodology exists, so the answers about another     *)
(* version are left out.                                                    *)
(***************************************************************************)
EXTENDS ReleaseAnalysis

---------------------------------------------------------------------------
(* Replay *)

MonitorInputSeries(monitor) == IF monitor = "inflation" THEN {"PCEPILFE"} ELSE LaborSeries

\* Mutant: today's values, later revisions included.
GetObservationsAsOfToday(series, at) == rows[series]

LatestOf(recorded) == CHOOSE v \in recorded : \A u \in recorded : u.from =< v.from

\* The value of each month's latest version.
ValuesOf(recorded) ==
    [m \in {v.month : v \in recorded} |-> LatestOf({v \in recorded : v.month = m}).value]

\* What had been recorded by an instant.
GetObservationsAsOf(series, at) ==
    ValuesOf({v \in versions : v.series = series /\ v.from =< at})

HistoryCoverage(r) ==
    LET recorded(s) == {v.from : v \in {u \in versions : u.series = s}}
        starts(s) == \E at \in recorded(s) : at =< r.calculated_at
    IN  CASE \A s \in MonitorInputSeries(r.monitor) : recorded(s) = {} ->
               "NO_VERSION_HISTORY_FOR_INPUTS"
          [] \A s \in MonitorInputSeries(r.monitor) : starts(s) -> "COVERED"
          [] OTHER -> "VERSION_HISTORY_STARTS_AFTER_CALCULATION"

Recompute(r, obs) ==
    IF r.monitor = "inflation" THEN SeriesMomentumAt(obs["PCEPILFE"], r.evaluation_period)
    ELSE EvaluateLaborAt(obs, r.evaluation_period)

RecomputeThen(r) ==
    Recompute(r, [s \in MonitorInputSeries(r.monitor) |-> GetObservationsAsOf(s, r.calculated_at)])

ReplayRecordedResult(r) ==
    LET coverage == HistoryCoverage(r)
        replayed == RecomputeThen(r).state
    IN  IF coverage # "COVERED"
        THEN [outcome |-> "NOT_REPLAYABLE", reason |-> coverage, replayed_state |-> Null]
        ELSE [outcome |-> IF replayed = r.state THEN "MATCH" ELSE "MISMATCH",
              reason |-> Null, replayed_state |-> replayed]

---------------------------------------------------------------------------
(* The comparison with today *)

\* Which observations a result read, and what it saw there.
UsedObservations(r, result) ==
    LET months(at) == {<<s, MonthBefore(r.evaluation_period, k)>> : s \in at[1], k \in at[2]}
        back(key) == r.evaluation_period - key[2]
    IN  IF r.monitor = "inflation"
        THEN [key \in months(<<{"PCEPILFE"}, {0} \cup Horizons>>) |->
                IF back(key) = 0 THEN result.evidence[1].current
                ELSE result.evidence[back(key)].past]
        ELSE [key \in months(<<{"PAYEMS"}, 0..6>>) \cup months(<<{"UNRATE"}, UnemploymentMonths>>) |->
                IF key[1] = "PAYEMS" THEN result.employment.observations[back(key)]
                ELSE result.unemployment.observations[back(key)]]

ClassifyInput(valueThen, valueToday, existsToday) ==
    CASE valueThen = Null /\ existsToday /\ valueToday # Null -> "ONLY_AVAILABLE_TODAY"
      [] valueThen = Null /\ (~existsToday \/ valueToday = Null) -> "UNCHANGED"
      [] valueThen # Null /\ (~existsToday \/ valueToday = Null) -> "ONLY_AVAILABLE_THEN"
      [] OTHER -> IF valueToday = valueThen THEN "UNCHANGED" ELSE "REVISED"

\* then and today are the result recomputed as of then and on today's rows.
CompareInputs(r, then, today) ==
    LET seen == UsedObservations(r, then)
        sees == UsedObservations(r, today)
    IN  [key \in DOMAIN seen \cup DOMAIN sees |->
            ClassifyInput(At(seen, key), At(sees, key), key \in DOMAIN sees)]

BuildComparison(r, then, today) ==
    LET inputs == CompareInputs(r, then, today)
    IN  [status |-> CASE HistoryCoverage(r) # "COVERED" -> "NOT_COMPARABLE"
                      [] OTHER -> IF \A key \in DOMAIN inputs : inputs[key] = "UNCHANGED"
                                  THEN "IDENTICAL_INPUTS" ELSE "INPUTS_CHANGED",
         current_state |-> today.state, state_differs |-> today.state # r.state]

---------------------------------------------------------------------------
(* Pages.  A result's id is its position in results.                        *)

Recorded(monitor) == {i \in DOMAIN results : results[i].monitor = monitor}

\* i comes after j in calculated_at DESC, id DESC.
Older(i, j) ==
    \/ results[i].calculated_at < results[j].calculated_at
    \/ results[i].calculated_at = results[j].calculated_at /\ i < j

ListRecordedResults(monitor, limit, offset) ==
    LET rank(i) == Cardinality({j \in Recorded(monitor) : Older(i, j)})
        total == Cardinality(Recorded(monitor))
        size == IF total =< offset THEN 0
                ELSE IF total - offset < limit THEN total - offset ELSE limit
    IN  [k \in 1..size |-> CHOOSE i \in Recorded(monitor) : rank(i) = offset + k - 1]

GetPreviousRecordedResult(monitor, i) ==
    LET before == {j \in Recorded(monitor) : Older(j, i)}
    IN  IF before = {} THEN Null ELSE CHOOSE j \in before : \A k \in before \ {j} : Older(k, j)

\* Mutant: the last row of a page has no predecessor.
GetPreviousWithinPage(monitor, page) ==
    [k \in DOMAIN page |-> IF k < Len(page) THEN page[k + 1] ELSE Null]

\* One query for a whole page: the next row of the page, or of the table.
GetPreviousRecordedResults(monitor, page) ==
    [k \in DOMAIN page |-> IF k < Len(page) THEN page[k + 1]
                           ELSE GetPreviousRecordedResult(monitor, page[k])]

---------------------------------------------------------------------------
(* The processing status of a release's occurrence *)

RunsOf(release) == {i \in DOMAIN runs : runs[i].release = release}

LatestRun(release) ==
    CHOOSE i \in RunsOf(release) : \A j \in RunsOf(release) :
        \/ runs[j].completed_at < runs[i].completed_at
        \/ runs[j].completed_at = runs[i].completed_at /\ j =< i

StatusMap ==
    [NO_CHANGE |-> "NO_CHANGE", CHANGED |-> "CHANGES_DETECTED",
     PARTIAL_FAILURE |-> "PARTIAL_CHECK", FAILED_PROVIDER |-> "CHECK_FAILED"]

PublicStatus(release) ==
    IF RunsOf(release) = {} THEN "NOT_CHECKED" ELSE StatusMap[runs[LatestRun(release)].status]

ObservationUpdatesOf(ids) == UNION {runs[i].observation_updates : i \in ids}

AnalysisUpdatesOf(ids) == UNION {runs[i].analysis_updates : i \in ids}

\* Mutant: the evidence of the latest run only.
DetectedEvidenceOfLatest(release) ==
    LET latest == IF RunsOf(release) = {} THEN {} ELSE {LatestRun(release)}
    IN  [observations |-> ObservationUpdatesOf(latest), analyses |-> AnalysisUpdatesOf(latest)]

\* The evidence of every run the occurrence ever had.
DetectedEvidence(release) ==
    [observations |-> ObservationUpdatesOf(RunsOf(release)), analyses |-> AnalysisUpdatesOf(RunsOf(release))]

---------------------------------------------------------------------------
(* The recap of a window of runs *)

MonitorForComponent(component) ==
    CASE component \in InflationComponents -> "inflation"
      [] component \in LaborComponents -> "labor"

MonitorForSeries(series) == IF series \in InflationSeries THEN "inflation" ELSE "labor"

Tier1EventTypes == {"STATE_CHANGED", "AVAILABILITY_LOST", "AVAILABILITY_RESTORED"}

\* Mutant: only the inflation state is of the first tier.
IsTier1InflationOnly(e) ==
    e.event_type \in Tier1EventTypes /\ e.component = "PRIMARY_MOMENTUM" /\ e.field = "state"

IsTier1(e) ==
    /\ e.event_type \in Tier1EventTypes
    /\ \/ e.component = "PRIMARY_MOMENTUM" /\ e.field = "state"
       \/ e.component = "LABOR"

Tier1Changes(run, monitor) ==
    {e \in runs[run].analysis_updates : IsTier1(e) /\ MonitorForComponent(e.component) = monitor}

\* One change of each run and monitor: that of the latest period.
SelectStructuralChanges(window) ==
    {[run |-> pair[1], monitor |-> pair[2],
      change |-> CHOOSE e \in Tier1Changes(pair[1], pair[2]) :
                   \A f \in Tier1Changes(pair[1], pair[2]) : f.current_period =< e.current_period] :
       pair \in {q \in window \X Monitors : Tier1Changes(q[1], q[2]) # {}}}

RecordedBy(run, monitor) == {i \in Recorded(monitor) : results[i].run = run}

\* The row of a run that stands for it: the latest period it recorded.
CurrentRow(run, monitor) ==
    CHOOSE i \in RecordedBy(run, monitor) : \A j \in RecordedBy(run, monitor) :
        \/ results[j].evaluation_period < results[i].evaluation_period
        \/ results[j].evaluation_period = results[i].evaluation_period /\ j =< i

EarliestRecordedResult(monitor) ==
    CHOOSE i \in Recorded(monitor) : \A j \in Recorded(monitor) : i =< j

\* Before unchanged confirmations are counted together, one per monitor.
SelectRecalculations(window) ==
    LET changed == {<<item.run, item.monitor>> : item \in SelectStructuralChanges(window)}
        kind(pair) == IF CurrentRow(pair[1], pair[2]) = EarliestRecordedResult(pair[2])
                      THEN "FIRST_CALCULATION" ELSE "UNCHANGED_CONFIRMATION"
    IN  {[run |-> pair[1], monitor |-> pair[2], kind |-> kind(pair),
          row |-> CurrentRow(pair[1], pair[2])] :
           pair \in {q \in window \X Monitors : RecordedBy(q[1], q[2]) # {}} \ changed}

\* What a run received for a monitor it recorded nothing of.
SelectSourceUpdates(window) ==
    {[run |-> q[1], series |-> q[2].series, change |-> q[2].change,
      monitor |-> MonitorForSeries(q[2].series)] :
       q \in {x \in UNION {{run} \X runs[run].observation_updates : run \in window} :
                RecordedBy(x[1], MonitorForSeries(x[2].series)) = {}}}
---------------------------------------------------------------------------
(* Properties of what is read.  Those that only depend on what is committed *)
(* are stated of the moments when nothing is under way: each committed      *)
(* state is also reached at such a moment, when what is under way aborts.   *)

Quiet == import.phase # "open" /\ \A w \in Workers : ~Live(w)

\* services/replay.py:7 "data known THEN + methodology used THEN = the result
\* recorded THEN": a replay disagrees with its result only if an input version
\* stamped before the calculation became visible after the check had read.
ReplayMismatchOnlyIfOverlapped ==
    Quiet => \A i \in DOMAIN results :
        ReplayRecordedResult(results[i]).outcome = "MISMATCH" =>
            \E v \in versions : /\ v.series \in MonitorInputSeries(results[i].monitor)
                                /\ v.from =< results[i].calculated_at
                                /\ v.commit > results[i].read_at
                                /\ v.commit # results[i].commit

\* services/monitor_history.py:300 and the status IDENTICAL_INPUTS: when every
\* observation the methodology read then still holds the value it had, today's
\* state is the replayed one.
IdenticalInputsSameState ==
    Quiet => \A i \in DOMAIN results :
        \A then \in {RecomputeThen(results[i])}, today \in {Recompute(results[i], rows)} :
            BuildComparison(results[i], then, today).status = "IDENTICAL_INPUTS"
                => today.state = then.state

\* monitor_history_repository.py:54 the id tiebreak: pages of any size follow
\* one another without a repeated or a skipped row, and the predecessors a page
\* names are those the detail view finds.
PagesFollowOneAnother ==
    Quiet => \A monitor \in Monitors : \A limit \in 1..2 : \A offset \in 0..Len(results) :
        LET page == ListRecordedResults(monitor, limit, offset)
            rest == ListRecordedResults(monitor, limit, offset + limit)
        IN  \A k \in DOMAIN page :
              LET previous == GetPreviousRecordedResults(monitor, page)[k]
              IN  /\ previous = GetPreviousRecordedResult(monitor, page[k])
                  /\ (k = Len(page) /\ rest # <<>>) => previous = rest[1]

\* release_processing_read_repository.py:99: the latest run by completed_at is
\* the one that committed last, so the status shown is that of the last check.
StatusIsOfTheLastCheck ==
    \A release \in Releases : \A i \in RunsOf(release) :
        (\A j \in RunsOf(release) : j =< i)
            => PublicStatus(release) = StatusMap[runs[i].status]

\* The same module, line 110: a later check's silence never hides what an
\* earlier one detected.
EvidenceIsNeverHidden ==
    [][\A release \in Releases :
         /\ DetectedEvidence(release).observations \subseteq DetectedEvidence(release).observations'
         /\ DetectedEvidence(release).analyses \subseteq DetectedEvidence(release).analyses']_vars

\* domain/since_last_visit.py:276 "no double-reporting", 283 UNCHANGED: a run
\* reported as a confirmation left the monitor's state as it was at every
\* period it recorded, and no update a run received goes unmentioned.
RecapIsComplete ==
    Quiet => \A i \in DOMAIN runs : \A monitor \in Monitors :
        /\ \A item \in SelectRecalculations({i}) :
             item.monitor = monitor /\ item.kind = "UNCHANGED_CONFIRMATION"
               => \A j \in RecordedBy(i, monitor) : results[j].state = results[j].was
        /\ (\E u \in runs[i].observation_updates : MonitorForSeries(u.series) = monitor) =>
             \E item \in SelectStructuralChanges({i}) \cup SelectRecalculations({i})
                           \cup SelectSourceUpdates({i}) : item.monitor = monitor

\* docs/product/since-last-visit-v1.md:146 "Never 'remains X' when no prior
\* recorded row exists": the first run that records a monitor confirms nothing.
FirstRunIsNeverAConfirmation ==
    \A item \in SelectRecalculations(DOMAIN runs) :
        (\A j \in Recorded(item.monitor) : results[j].run >= item.run)
            => item.kind = "FIRST_CALCULATION"

---------------------------------------------------------------------------
(* Properties of the monitors over every state of the data *)

\* domain/inflation.py:184: confirmation is judged at a month no later than the
\* one What Changed compares and than the monitor's own, and none is later than
\* the data_through the page names.
PeriodsInOrder ==
    Quiet => \A page \in {InflationResult(rows["PCEPILFE"], rows["CPILFESL"],
                                         rows["PCEPI"], rows["CPIAUCSL"])} :
        LET common == page.periods.latest_common_period
            shared == LatestSharedObservationPeriod(rows["PCEPILFE"], rows["CPILFESL"])
        IN  common # Null => /\ shared # Null /\ common =< shared
                             /\ common =< page.underlying_momentum.calculation_period
                             /\ shared =< page.periods.data_through

\* domain/state_duration.py and the two What Changed modules tell one story: a
\* state is one month old, with a known predecessor, iff What Changed says that
\* it changed, and with an unknown one iff it says it was restored.  (Inflation's
\* duration is anchored at the last month with a state, which What Changed
\* compares only when that is the last month observed.)
DurationAgreesWithWhatChanged ==
    LET young(duration, boundary) == /\ duration.evaluation.duration_months = 1
                                     /\ duration.evaluation.boundary_type = boundary
        says(changes, component, type) ==
            \E i \in DOMAIN changes : /\ changes[i].component = component
                                      /\ changes[i].field = "state"
                                      /\ changes[i].event_type = type
        agree(duration, changes, component) ==
            /\ young(duration, "EXACT") <=> says(changes, component, "STATE_CHANGED")
            /\ young(duration, "DATA_BOUNDED") <=> says(changes, component, "AVAILABILITY_RESTORED")
        pce == MonthOverMonthMomentum(rows["PCEPI"])
        cpi == MonthOverMonthMomentum(rows["CPIAUCSL"])
    IN  Quiet =>
        /\ \A duration \in {LaborStateDuration(rows["PAYEMS"], rows["UNRATE"])} \ {Null},
              sides \in {MonthOverMonthLabor(rows["PAYEMS"], rows["UNRATE"])} :
              \A told \in {LaborWhatChanged(sides)} : agree(duration, told.changes, "LABOR")
        /\ \A duration \in {InflationStateDuration(rows["PCEPILFE"])} \ {Null},
              p \in {MonthOverMonthMomentum(rows["PCEPILFE"])},
              c \in {MonthOverMonthConfirmation(rows["PCEPILFE"], rows["CPILFESL"])},
              t \in {MonthOverMonthTarget(rows["PCEPI"])} :
              \A told \in {InflationWhatChanged(p, c, t, pce, cpi)} :
                 duration.evaluation_period = p.current_period
                   => agree(duration, told.changes, "PRIMARY_MOMENTUM")
=============================================================================
