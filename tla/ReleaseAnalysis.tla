-------------------------- MODULE ReleaseAnalysis --------------------------
(***************************************************************************)
(* What a release check concludes.  A check reads the provider, classifies  *)
(* what changed, evaluates the monitors it can affect before and after      *)
(* writing, and leaves behind a check run with its observation updates, its *)
(* analysis updates and the results it recorded.  The storage protocol is   *)
(* ObservationStore's; here a transaction's writes appear when it commits,  *)
(* so that two checks of different occurrences, and an import of history    *)
(* older than the five-year window, may overlap.                            *)
(*                                                                          *)
(* An occurrence is named by its release.                                   *)
(***************************************************************************)
EXTENDS StateDuration, WhatChanged

CONSTANTS
    Workers,      \* sessions that may be processing an occurrence
    Eligible,     \* releases whose occurrence's scheduled date has come
    BaseRows,     \* what the series may hold at first
    Answers(_),   \* what the provider may answer for a release's series
    ImportRow,    \* [series, month, value]: what the importer may write
    Failed,       \* an answer that raises
    MaxChecks     \* bound: checks begun

VARIABLES
    clock,        \* the database clock, one tick per stamp or commit
    rows,         \* economic_observations: committed current values
    versions,     \* committed observation versions
    import,       \* the importer's transaction
    check,        \* what each worker is processing
    runs,         \* release_check_runs with their updates, in id order
    results       \* recorded_monitor_results, in id order

vars == <<clock, rows, versions, import, check, runs, results>>

Releases == {"CPI", "PIO", "ES"}
Series == InflationSeries \cup LaborSeries
InflationComponents ==
    {"PRIMARY_MOMENTUM", "CONFIRMATION", "TARGET", "HEADLINE_PCE", "HEADLINE_CPI"}
LaborComponents == {"LABOR", "EMPLOYMENT", "UNEMPLOYMENT"}
Monitors == {"inflation", "labor"}

\* Finitely many months, each with its level.
Observations(obs) ==
    /\ IsFiniteSet(DOMAIN obs) /\ DOMAIN obs \subseteq Int
    /\ obs = [m \in DOMAIN obs |-> obs[m]]

MappedSeries(release) ==
    CASE release = "CPI" -> {"CPILFESL", "CPIAUCSL"}
      [] release = "PIO" -> {"PCEPI", "PCEPILFE"}
      [] release = "ES"  -> {"PAYEMS", "UNRATE"}

CheckRunStatus == {"FAILED_PROVIDER", "PARTIAL_FAILURE", "CHANGED", "NO_CHANGE"}

\* Only a calendar release is checked, and only its active mappings are asked for.
ASSUME AnswersAssumption ==
    /\ Eligible \subseteq Releases
    /\ \A release \in Eligible : \A answers \in Answers(release) :
         /\ DOMAIN answers \subseteq MappedSeries(release)
         /\ \A s \in DOMAIN answers : answers[s] # Failed => Observations(answers[s])

ASSUME RowsAssumption ==
    \A base \in BaseRows : base = [s \in Series |-> base[s]] /\ \A s \in Series : Observations(base[s])

\* What the importer writes is older than any answer's five years.
ASSUME ImportAssumption ==
    /\ ImportRow.series \in Series /\ ImportRow.month \in Int
    /\ \A release \in Eligible : \A answers \in Answers(release) :
         ImportRow.series \in DOMAIN answers /\ answers[ImportRow.series] # Failed
            => \A m \in DOMAIN answers[ImportRow.series] : ImportRow.month < m

Idle == [phase |-> "idle"]
Dead == [phase |-> "dead"]
Live(w) == check[w] \notin {Idle, Dead}

Overlay(old, new) ==
    [m \in DOMAIN old \cup DOMAIN new |-> IF m \in DOMAIN new THEN new[m] ELSE old[m]]

---------------------------------------------------------------------------
(* Detection *)

\* Every provider value that is not already the row's.
SeriesChanges(series, old, answer) ==
    {c \in {[series |-> series, month |-> m, previous |-> At(old, m), new |-> answer[m],
             change |-> ClassifyObservationChange(m \in DOMAIN old, At(old, m), answer[m])] :
              m \in DOMAIN answer} : c.change # "UNCHANGED"}

DetectedChanges(answers, old) ==
    UNION {SeriesChanges(s, old[s], answers[s]) : s \in {t \in DOMAIN answers : answers[t] # Failed}}

CheckStatus(answers, changes) ==
    LET failed == {s \in DOMAIN answers : answers[s] = Failed}
    IN  CASE failed # {} /\ failed = DOMAIN answers -> "FAILED_PROVIDER"
          [] failed # {} /\ failed # DOMAIN answers -> "PARTIAL_FAILURE"
          [] failed = {} /\ changes # {}            -> "CHANGED"
          [] OTHER                                  -> "NO_CHANGE"

ChangedMonths(changes, series) == {c.month : c \in {d \in changes : d.series = series}}

WriteChanges(changes, old) ==
    [s \in DOMAIN old |->
        Overlay(old[s], [m \in ChangedMonths(changes, s) |->
                           (CHOOSE c \in changes : c.series = s /\ c.month = m).new])]

---------------------------------------------------------------------------
(* Evaluation before and after *)

AffectedPairs(changes, old) ==
    UNION {ComponentsForSeries(s) \X
             AffectedEvaluationPeriods(ChangedMonths(changes, s),
                                       ChangedMonths(changes, s) \cup DOMAIN old[s]) :
             s \in {c.series : c \in changes}}

AffectedLaborPeriods(changes) ==
    LaborAffectedPeriods(ChangedMonths(changes, "PAYEMS"), ChangedMonths(changes, "UNRATE"))

EvaluateComponentAt(obs, component, period) ==
    CASE component = "PRIMARY_MOMENTUM" -> SeriesMomentumAt(obs["PCEPILFE"], period)
      [] component = "HEADLINE_PCE"     -> SeriesMomentumAt(obs["PCEPI"], period)
      [] component = "HEADLINE_CPI"     -> SeriesMomentumAt(obs["CPIAUCSL"], period)
      [] component = "TARGET"           -> TargetAt(obs["PCEPI"], period)
      [] component = "CONFIRMATION"     -> ConfirmationAt(obs["PCEPILFE"], obs["CPILFESL"], period)

EvaluateLaborAt(obs, period) == LaborResultAt(obs["PAYEMS"], obs["UNRATE"], period)

\* Both sides of a release diff are the same period.
DiffComponentAt(component, period, before, after) ==
    LET b == EvaluateComponentAt(before, component, period)
        a == EvaluateComponentAt(after, component, period)
        periods == <<period, period>>
    IN  CASE component = "CONFIRMATION" -> ConfirmationEvents(b, a, periods)
          [] component = "TARGET"       -> TargetEvents(b, a, periods)
          [] OTHER                      -> MomentumEvents(component, b, a, periods)

DiffLaborAt(period, before, after) ==
    LaborEvents(EvaluateLaborAt(before, period), EvaluateLaborAt(after, period), <<period, period>>)

AnalysisUpdates(changes, before, after) ==
    (UNION {DiffComponentAt(pair[1], pair[2], before, after) : pair \in AffectedPairs(changes, before)})
    \cup (UNION {DiffLaborAt(p, before, after) : p \in AffectedLaborPeriods(changes)})

InflationRecorded(changes, before) ==
    {pair[2] : pair \in {q \in AffectedPairs(changes, before) : q[1] = "PRIMARY_MOMENTUM"}}

Ascending(periods) ==
    [i \in 1..Cardinality(periods) |->
        CHOOSE p \in periods : Cardinality({q \in periods : q < p}) = i - 1]

\* The state a monitor has in obs at a period.
MonitorStateAt(monitor, obs, period) ==
    IF monitor = "inflation" THEN EvaluateComponentAt(obs, "PRIMARY_MOMENTUM", period).state
    ELSE EvaluateLaborAt(obs, period).state

\* was, read_at and commit are bookkeeping of the model: the state before the
\* check, when its inputs were read, and when it became visible.
RecordedResult(monitor, period, c) ==
    [run |-> Len(runs) + 1, monitor |-> monitor, evaluation_period |-> period,
     state |-> MonitorStateAt(monitor, c.after, period), calculated_at |-> c.completedAt,
     was |-> MonitorStateAt(monitor, c.before, period),
     read_at |-> c.completedAt, commit |-> clock + 1]

\* Mutant: the results carry the time of detection.
RecordableResultsAtDetection(c) ==
    LET periods == Ascending(AffectedLaborPeriods(c.changes))
    IN  [i \in 1..Len(periods) |->
           [RecordedResult("labor", periods[i], c) EXCEPT !.calculated_at = c.detectedAt]]

RecordableResults(c) ==
    LET inflation == Ascending(InflationRecorded(c.changes, c.before))
        labor == Ascending(AffectedLaborPeriods(c.changes))
    IN  [i \in 1..Len(inflation) |-> RecordedResult("inflation", inflation[i], c)]
        \o [i \in 1..Len(labor) |-> RecordedResult("labor", labor[i], c)]

---------------------------------------------------------------------------
(* The state machine *)

MonitorTypeOK ==
    /\ clock \in Nat
    /\ DOMAIN rows = Series
    /\ \A v \in versions : v.series \in Series /\ v.from =< clock /\ v.commit =< clock
    /\ import.phase \in {"none", "open", "done"}
    /\ \A w \in Workers : check[w].phase \in {"idle", "dead", "classified", "captured", "analysed"}
    /\ \A i \in DOMAIN runs : /\ runs[i].release \in Releases /\ runs[i].completed_at =< clock
                           /\ runs[i].status \in CheckRunStatus
    /\ \A i \in DOMAIN results :
         /\ results[i].run \in DOMAIN runs
         /\ results[i].monitor \in Monitors
         /\ results[i].calculated_at = runs[results[i].run].completed_at

Init ==
    /\ clock = 0
    /\ rows \in BaseRows
    /\ versions = UNION {{[series |-> s, month |-> m, value |-> rows[s][m], from |-> 0,
                        commit |-> 0, backfilled |-> TRUE] : m \in DOMAIN rows[s]} : s \in Series}
    /\ import = [phase |-> "none"]
    /\ check = [w \in Workers |-> Idle]
    /\ runs = <<>>
    /\ results = <<>>

\* Mutant: nothing keeps a second check of the occurrence out.
ClassifyWithoutLock(w) ==
    /\ check[w] = Idle
    /\ Len(runs) + Cardinality({v \in Workers : check[v] # Idle}) < MaxChecks
    /\ \E release \in Eligible : \E answers \in Answers(release) :
         check' = [check EXCEPT ![w] =
              [phase |-> "classified", release |-> release,
               changes |-> DetectedChanges(answers, rows),
               status |-> CheckStatus(answers, DetectedChanges(answers, rows)),
               detectedAt |-> clock + 1]]
    /\ clock' = clock + 1
    /\ UNCHANGED <<rows, versions, import, runs, results>>

\* process_occurrence under the occurrence's lock: the answers, judged against
\* what the series hold.
Classify(w) ==
    /\ check[w] = Idle
    /\ Len(runs) + Cardinality({v \in Workers : check[v] # Idle}) < MaxChecks
    /\ \E release \in Eligible : \E answers \in Answers(release) :
         /\ \A v \in Workers : Live(v) => check[v].release # release
         /\ check' = [check EXCEPT ![w] =
              [phase |-> "classified", release |-> release,
               changes |-> DetectedChanges(answers, rows),
               status |-> CheckStatus(answers, DetectedChanges(answers, rows)),
               detectedAt |-> clock + 1]]
    /\ clock' = clock + 1
    /\ UNCHANGED <<rows, versions, import, runs, results>>

\* The dates the affected periods come from and the evidence before, which are
\* later reads: what they see may hold more than what was judged.
CaptureBefore(w) ==
    /\ check[w].phase = "classified"
    /\ check' = [check EXCEPT ![w] =
         [phase |-> "captured", release |-> check[w].release, changes |-> check[w].changes,
          status |-> check[w].status, detectedAt |-> check[w].detectedAt, before |-> rows]]
    /\ UNCHANGED <<clock, rows, versions, import, runs, results>>

\* The writes, the after evidence and completed_at; nothing is visible yet.
Analyse(w) ==
    /\ check[w].phase = "captured"
    /\ clock' = clock + 1
    /\ check' = [check EXCEPT ![w] =
         [phase |-> "analysed", release |-> check[w].release, changes |-> check[w].changes,
          status |-> check[w].status, detectedAt |-> check[w].detectedAt, before |-> check[w].before,
          after |-> WriteChanges(check[w].changes, rows), completedAt |-> clock + 1]]
    /\ UNCHANGED <<rows, versions, import, runs, results>>

\* The run with its updates, as one row.
CheckRun(c) ==
    [release |-> c.release, status |-> c.status, completed_at |-> c.completedAt,
     detected_at |-> c.detectedAt, observation_updates |-> c.changes,
     analysis_updates |-> AnalysisUpdates(c.changes, c.before, c.after)]

Commit(w) ==
    /\ check[w].phase = "analysed"
    /\ LET c == check[w]
       IN  /\ rows' = WriteChanges(c.changes, rows)
           /\ versions' = versions \cup
                {[series |-> d.series, month |-> d.month, value |-> d.new,
                  from |-> c.detectedAt, commit |-> clock + 1, backfilled |-> FALSE] : d \in c.changes}
           /\ runs' = Append(runs, CheckRun(c))
           /\ results' = results \o RecordableResults(c)
    /\ clock' = clock + 1
    /\ check' = [check EXCEPT ![w] = Idle]
    /\ UNCHANGED import

\* The process dies, or its transaction rolls back and it exits.
Abort(w) ==
    /\ Live(w)
    /\ check' = [check EXCEPT ![w] = Dead]
    /\ UNCHANGED <<clock, rows, versions, import, runs, results>>

\* The first-party importer stamps the version of a value that is not yet the
\* row's, then commits.
ImportWrite ==
    /\ import.phase = "none"
    /\ At(rows[ImportRow.series], ImportRow.month) # ImportRow.value
    /\ import' = [phase |-> "open", from |-> clock + 1]
    /\ clock' = clock + 1
    /\ UNCHANGED <<rows, versions, check, runs, results>>

ImportCommit ==
    /\ import.phase = "open"
    /\ rows' = [rows EXCEPT ![ImportRow.series] =
                  Overlay(rows[ImportRow.series], [m \in {ImportRow.month} |-> ImportRow.value])]
    /\ versions' = versions \cup
         {[series |-> ImportRow.series, month |-> ImportRow.month, value |-> ImportRow.value,
           from |-> import.from, commit |-> clock + 1,
           backfilled |-> /\ ImportRow.month \notin DOMAIN rows[ImportRow.series]
                          /\ \E m \in DOMAIN rows[ImportRow.series] : m > ImportRow.month]}
    /\ import' = [phase |-> "done"]
    /\ clock' = clock + 1
    /\ UNCHANGED <<check, runs, results>>

Next ==
    \/ \E w \in Workers : Classify(w) \/ CaptureBefore(w) \/ Analyse(w) \/ Commit(w) \/ Abort(w)
    \/ ImportWrite
    \/ ImportCommit

Spec == Init /\ [][Next]_vars

---------------------------------------------------------------------------
(* What a check must not miss *)

\* What a reader is told of a component at a period.
Outcome(component, obs, period) ==
    LET e == EvaluateComponentAt(obs, component, period)
    IN  CASE component = "CONFIRMATION" -> e.relationship
          [] component = "TARGET"       -> e.headline_pce_yoy
          [] OTHER                      -> <<e.state, e.rates>>

Evaluable(before, after) ==
    UNION {DOMAIN before[s] \cup DOMAIN after[s] : s \in DOMAIN before}

Reported(run, components, period) ==
    \E e \in run.analysis_updates : e.component \in components /\ e.current_period = period

LastRun == runs[Len(runs)]

InputSeries(component) ==
    CASE component = "PRIMARY_MOMENTUM"              -> {"PCEPILFE"}
      [] component \in {"HEADLINE_PCE", "TARGET"}    -> {"PCEPI"}
      [] component = "HEADLINE_CPI"                  -> {"CPIAUCSL"}
      [] component = "CONFIRMATION"                  -> {"PCEPILFE", "CPILFESL"}
      [] component = "EMPLOYMENT"                    -> {"PAYEMS"}
      [] component = "UNEMPLOYMENT"                  -> {"UNRATE"}

\* The step wrote what the component reads.
ReadsWritten(component) == \E s \in InputSeries(component) : rows'[s] # rows[s]

\* From w's evidence before to its commit nobody else wrote what the component
\* reads.  Between the judgement of the answers and that evidence, they may have.
Undisturbed(w, component) ==
    \A s \in InputSeries(component) :
        /\ check[w].before[s] = rows[s]
        /\ check[w].after[s] = WriteChanges(check[w].changes, rows)[s]

\* The unrate periods reach fourteen months past the last observation.
LaborPeriods(before, after) ==
    {AddMonths(p, k) : p \in Evaluable(before, after), k \in 0..14}

\* domain/release_processing.py:154 "every Inflation calculation period whose
\* evidence could differ": a check reports each inflation component, and
\* unemployment, at every period where its writes changed what a reader is told,
\* whatever was committed between its judgement and its evidence; a component
\* whose series another transaction wrote after that is excepted.
AnalysisMissesNothing ==
    [][\A w \in Workers : Len(runs') > Len(runs) /\ check'[w] # check[w] =>
         /\ \A c \in InflationComponents : ReadsWritten(c) /\ Undisturbed(w, c) =>
              \A p \in Evaluable(rows, rows') :
                 Outcome(c, rows, p) # Outcome(c, rows', p) => Reported(LastRun', {c}, p)
         /\ ReadsWritten("UNEMPLOYMENT") /\ Undisturbed(w, "UNEMPLOYMENT") =>
              \A p \in LaborPeriods(rows, rows') :
                 EvaluateLaborAt(rows, p).unemployment.delta_pp # EvaluateLaborAt(rows', p).unemployment.delta_pp
                   => Reported(LastRun', {"UNEMPLOYMENT"}, p)]_vars

\* domain/labor_release_processing.py:85 "every ... evaluation period whose
\* evidence could differ because of the given changed PAYEMS dates": the same of
\* employment.
EmploymentAnalysisMissesNothing ==
    [][\A w \in Workers :
         Len(runs') > Len(runs) /\ check'[w] # check[w] /\ Undisturbed(w, "EMPLOYMENT")
           => \A p \in LaborPeriods(rows, rows') :
                EvaluateLaborAt(rows, p).employment.state # EvaluateLaborAt(rows', p).employment.state
                  => Reported(LastRun', {"EMPLOYMENT"}, p)]_vars
=============================================================================
