# Verification of the MacroChipz backend

TLA+ models of the parts of this repository that keep state and meet
concurrency, failure or time, with TLC runs on small instances and TLAPS proofs
for every instance. `PROJECT.json` maps each definition to the lines it models.

## The system

MacroChipz is a FastAPI service over PostgreSQL. It stores economic time
series fetched from BLS, BEA, Treasury, Census and FRED, watches the release
calendar, and shows what changed. The processes are the API (threads), a
maintenance worker started by an external scheduler, operator commands, and
the reader's browser. They share the database and nothing else.

| Part | State | Operations | What is hard | What makes it correct |
|---|---|---|---|---|
| Observation versions (`app/repositories/observation_versions.py`) | `economic_observations` (the current-state cache), `observation_versions` (append-only, half-open system-time intervals) | `apply`, `get_observations_as_of` | two SELECTs and a flush in a READ COMMITTED transaction, raced by others; clocks read before the commit | intervals tile time, cache and open version agree, nothing recorded is lost |
| Writers: API series sync, first-party, rates and housing imports, release processing | series, provenance and run rows | one `session_scope()` each, many observations | a baseline decision taken before the first write; rollback of the whole batch | an imported version is only ever a first one |
| Release processing (`app/services/release_processing.py`) | check runs, observation updates, analysis updates, recorded results | `process_occurrence` under an advisory lock | classification from a snapshot, partial provider failure | the audit trail agrees with the versions |
| Maintenance (`app/services/maintenance.py`, `app/operations/`) | `maintenance_sweeps`; the due list is derived from check runs | sweep, manual run | overlap, midnight, kills, lost acknowledgements, uncaught errors | one check at a time, honest records, retry until settled |
| Maintenance health | none: reads the sweep rows | `classify_maintenance_health` | thresholds, a crashed sweep against a running one | exit 0 is a promise: a recent clean sweep, and nothing hung |
| Since last visit (`app/services/since_last_visit.py`, `useSinceLastVisit.ts`) | the checkpoint in `localStorage` | recap, acknowledge | completed_at precedes the commit; tabs race | no run is skipped |
| Release calendar | occurrences | `sync_schedule` | two first inserts at once | one row per date |
| Replay and monitor history | reads versions and recorded results | as-of reconstruction, durations | an instant whose transactions have not all committed | the same question, the same answer |
| Inflation, labor, rates, housing, analysis domains | none | arithmetic over series | which periods a change affects | affected periods cover all that differ |
| Provider clients | none | bounded request with a retry | attempts and byte caps | a failure surfaces as one |
| Rate limiter and access gate | in-process counters | allow, is_limited | threads, window edges, idle keys | never more than the limit in a window |
| Schema compatibility | none | check before any work | an old binary on a new schema | no write on a mismatch |
| Ingestion commands (`app/services/*_ingestion.py`) | `ingestion_runs`, provenance rows, baseline flags | import, rates sync, housing sync, series sync | one agency failing, repeated or malformed periods, what is history and what is news | all that was answered is stored, runs and provenance count it |
| Structured intelligence (`app/services/intelligence/`) | none: built on each read | the objects of a release, of rates, of housing | ids made of facts, silent re-checks | nothing concluded is lost |
| Series reads and analysis | none | pages by offset, transformations of a range | rows arriving between pages, context before a range | no row skipped, no answer that depends on the range |
| Analyst, AI, concepts, discovery, frontend pages | none of their own | presentation | | |

Interaction: the worker and the operator commands call release processing;
release processing and all importers call the version writer inside their own
transaction; the recap, the history and replay only read. The shared state is
the database: its row locks, unique indexes and one advisory lock per
occurrence are all the synchronisation there is.

## Modules

Four groups, which the runs check separately. Within a group an arrow is EXTENDS.

**Storage** (`MCObservationStore` -> `ObservationStore`)

| Module | Models |
|---|---|
| `SystemTimeHistory` | What the version table promises, without rows or transactions: per observation an append-only set of dated entries, and the entry in force at an instant. |
| `ObservationStore` | Sessions that write observations. Each SELECT, flush and COMMIT of `apply()` is a step. It INSTANCEs `SystemTimeHistory` as `Account`, which it implements. |
| `ObservationStoreProofs` | Its theorems. |

**Scheduling and the reader's checkpoint** (`MCMaintenance` -> `Maintenance`; `MCServices` -> `Deployment` -> `SinceLastVisit`)

| Module | Models |
|---|---|
| `Maintenance` | Sweeps and manual runs: launch, start record, due list, try-lock, check, commit, finish, exit code, and every way of failing. |
| `SinceLastVisit` | Check runs becoming visible, the watermark, the window, two tabs and the stored checkpoint. |
| `MaintenanceProofs`, `SinceLastVisitProofs` | Their theorems. |

**Release checks and what is said of them** (`MCMonitors` -> `ReleaseIntelligence` -> `MonitorHistory` -> `ReleaseAnalysis` -> `StateDuration`, `WhatChanged` -> `LaborMonitor` -> `InflationMonitor`)

| Module | Models |
|---|---|
| `InflationMonitor`, `LaborMonitor` | The two methodologies as operators on series: rates, states, confirmation, target, employment, unemployment. |
| `AffectedPeriods` | The components and periods a change of a series touches. |
| `StateDuration`, `WhatChanged` | How long a state has lasted; two results compared field by field. |
| `ReleaseAnalysis` | A check from the provider's answers to the commit of its run, updates and recorded results, with other checks and an import under way. |
| `MonitorHistory` | Replay, history pages, processing status, evidence and the items of the recap, all read from the tables. |
| `Intelligence`, `ReleaseIntelligence` | The objects and ids of structured intelligence, and those of the release checks. |
| `MonitorProofs` | The invariant of check runs and recorded results; what it says of replays, recaps, pages, analyses, news and durations. |

**Parts that share no state** (`MCServices` -> `Deployment` -> `Services` -> the modules below)

| Module | Models |
|---|---|
| `Deployment` | The visits and the services side by side, one of them moving. |
| `Values` | The missing value; a selection from a list, and a list in order of its periods. |
| `ProviderPayloads` | What each agency's parser accepts of an answer. |
| `Ingestion` | The import, sync and housing commands with rows, versions, provenance, runs and exit code. It INSTANCEs `RatesMonitor` and `HousingMonitor` (the pages) and `Intelligence` (housing news). |
| `SeriesReads` | Pages of a stored range while rows arrive; transformations; comparison of two series. |
| `ProviderCall` | One call with its attempts, its body and its errors. |
| `RequestProtection` | The limiter's deque under threads, and the sign-in gate. |
| `MaintenanceHealth` | The heartbeat command while sweeps start, finish and hang. |
| `SchemaGate` | The release command, concurrent migrators, a newer release, an unreachable database. |
| `ReleaseCalendar` | Overlapping synchronisations of the calendar. |
| `Services` | All of them side by side; `part` says which one a behaviour is about. |
| `OperationsProofs` | Theorems about the five parts from `ProviderCall` to `ReleaseCalendar`. |
| `StoredDataProofs` | Theorems about `SeriesReads`. |
| `IngestionProofs` | Theorems about `Ingestion`. |
| `Folding` | What each element keeps a fold keeps; instantiated for each of the loops of `Ingestion`. |

`MC...` modules hold model values, what providers may answer, symmetry sets and
one state constraint. Definitions under a comment that begins "Mutant:" belong
to no specification: each is a plausible bug that breaks a property, kept beside
the definition it would replace.

### ObservationStore and the code

A writer moves from `idle` to `detecting` (release processing only, which reads
the clock for every mapped series) or straight to `applying` (imports and
syncs, one clock read). Per value, `ConfirmUnchanged`, `FindNoRow` and
`FindOtherValue` are the three outcomes of the row SELECT; `FindOpenVersion`
or `RefuseBackdated` that of `_close_open_version`; `Flush` or `FlushConflict`
that of the flush, which waits (`RowFree`) for a row that another open
transaction has written. The session factory sets `autoflush=False`, so nothing
is written before the flush. `Commit` publishes the writes; `Rollback` stands
for any error, death or deadlock abort.

Abstractions. An observation is a (series, date) pair and a value is a model
value, None among them. Release processing applies only what an earlier read
of its own found changed; that read is not kept, so its answer ranges over
all subsets. A writer brings each observation at most once. Series and
provenance rows, origins and audit rows are left out. `Tick` moves one clock
for all hosts: hosts whose clocks differ are covered to the extent that a
session's reading may be arbitrarily older than its commit. `Init` has any
rows, each with or without the migration's backfilled version.

### Maintenance and the code

An occurrence's past is the set of days on which a settled check completed,
which is all that `list_due_occurrence_ids` asks of it. `asOf` is the date an
invocation read at launch, `result.day` the day of `completed_at`; `Midnight`
may fall anywhere between. The provider's behaviour is the three booleans of
`_determine_status`. `DatabaseFailure` covers both a rolled-back transaction
and a commit whose acknowledgement was lost. `AbortCheck` is an exception the
loop does not catch, `ScheduleConflict` one that escapes from the schedule
synchronisation, `Kill` a dead process. Only dates read off the clock are
modelled, not `--as-of-date`.

### SinceLastVisit and the code

`StampRun` and `CommitRun` are apart because `completed_at` is read inside the
transaction. A page's request is `Ask` (read storage), `TakeWatermark` (the
`through` of `get_recap`), `Query`, `Render` and `Acknowledge`; `Leave` ends it
anywhere. `shown`, `beyond`, `watermarks` and `committedAt` are history
variables: they only record what happened and no action reads them.

### ReleaseAnalysis, MonitorHistory, ReleaseIntelligence and the code

A check is `Classify` (the try-lock, the provider's answers, their classification),
`CaptureBefore` (the dates the affected periods come from, the evidence before),
`Analyse` (the writes, the evidence after, `completed_at`) and `Commit`, with other
transactions' commits between any two; `Abort` stands for a death or a rollback and
releases the lock. `RecordableResults` lists what is recorded in id order, inflation
first. Everything `MonitorHistory` and `ReleaseIntelligence` define is read from
`rows`, `versions`, `runs` and `results`, as the repositories do; the fields `was`,
`read_at` and `commit` are history that no read looks at.

Abstractions. A transaction's writes appear at its commit, in id order;
`ObservationStore` has their interleaving. The series of one check are classified in
one step: releases map disjoint series and an import writes older months, so nothing
that a check classifies can change between the code's reads of one series and the
next. The evidence of its pairs is read in one step too, so that a commit falls
before or after all of them, never between two. The window between classification
and evidence is in the model. An occurrence is named by its release, so a release is
processed for one date, again and again. One version of each methodology exists.
Compounded rates are exact fractions and averages are sums; nothing is rounded.
Reads are judged when nothing is under way: each committed state is also such a
moment.

### Services and the code

`Ingestion`: a command is one step, because it is one transaction; two that race
are `ObservationStore`'s subject. `Finish` keeps all or nothing, according to
whether the writer raised. `last` holds the last command with its answers,
so that it can be run again. `SeriesReads`: `reader` is a client that asks for
page after page; `first` and `grew` are history. `RequestProtection`: `ReadClock`
and `Decide` are apart because the code reads the clock outside the lock; the
limiter follows one key; `allowed` is history. `MaintenanceHealth`: the two
reads of the command are two steps. `SchemaGate`: the checks before and after
the upgrade, alembic's own read and its single transaction are steps; the
newer release and the outage are external. `ReleaseCalendar`: an upsert's SELECT
and the commit are two steps, and the unique index is judged at the commit.
`ProviderCall`: timeouts, refusals and server errors are what a step may meet.

## Runs

| Run | Instance | Shows |
|---|---|---|
| `ObservationStore` | 2 observations, 2 values, an import and a release-processing session, instants 1 and 2 | types; `VersionsTileTime`, `CacheMatchesHistory`, `OnlyFirstVersionIsImported`, `AsOfIsInForce`, `HistoryIsAppendOnly`; refinement of `SystemTimeHistory` |
| `ObservationStoreConfirmation` | the same | finding 1 |
| `Maintenance` | 2 sweeps, 1 operator, 2 occurrences scheduled on days 0 and 1, window 1, one midnight, one death | types, `LockFollowsCheck`, `FinishedSweepAccounts` |
| `MaintenanceOneWorker` | 1 sweep host, no operator, days 0 to 2, window 2, two deaths, fairness | `AtMostOncePerDay`, `RetriedUntilSettled` |
| `MaintenanceOverlap` | 2 sweeps, no deaths | finding 2 |
| `MaintenanceExit` | 1 sweep | finding 3 |
| `SinceLastVisitLost` | 1 run, 2 tabs, lookback 1, instants 0 to 3 | finding 4 |
| `Monitors` | 2 workers, 2 checks of any of 3 releases, 1 import; about fifteen months of 6 series, complete or with gaps | that a check reports every period it changed (`AnalysisMissesNothing`); that replay, comparison, pages, status, evidence, recap, durations and intelligence agree with what the checks did (the nine others) |
| `PayemsGap` | 1 check | finding 5 |
| `FirstCalculation` | 1 check | finding 6 |
| `SilentRecheck` | 1 worker, 2 checks of one occurrence | finding 7 |
| `Services` | the part each behaviour is about, see below; the visits as in `SinceLastVisitLost` | the fifteen properties of the table below; types and `LostOnlyIfStraddled` of the visits |

The two `Monitors` bases differ: in one all months are there, in the other a
month of `PCEPI` is missing, `UNRATE` is empty, a level of `CPILFESL` is null and
the importer has nothing to add. The answers bring revisions, first values and failures
of one or of all series of a release.

What the properties of `Monitors` and `Services` say:

| Property | Code | In words |
|---|---|---|
| `AnalysisMissesNothing` | `release_processing.py`, `AffectedPeriods` | a check reports each inflation component and unemployment at every period it changed, whatever was committed between its classification and its evidence, unless another transaction wrote what that component reads after the evidence |
| `ReplayMismatchOnlyIfOverlapped` | `replay.py` | a replay differs from its result only if another transaction stamped before and committed after the check's read |
| `IdenticalInputsSameState` | `monitor_history.py` | same inputs, same state |
| `PagesFollowOneAnother` | `monitor_history_repository.py` | pages of any size, no row twice or never, predecessors agree |
| `StatusIsOfTheLastCheck`, `EvidenceIsNeverHidden` | `release_processing_read*.py` | the last check's status, every check's evidence |
| `RecapIsComplete` | `since_last_visit.py` | a confirmation changed no state, no update goes unmentioned |
| `PeriodsInOrder`, `DurationAgreesWithWhatChanged` | inflation, labor, `state_duration.py` | the figures of one page are of compatible months |
| `NewsIsOfTheVersions` | `release_processing_repository.py`, `builder.py` | what a run tells of an observation (whether it is new, its previous value, whether the original is known) is what its versions have |
| `RunsAccountForVersions`, `ProvenanceCountsRevisions` | ingestion services and repositories | runs and provenance count what the version history shows; a revision that creates its provenance row is not counted |
| `BaselineIsHistory`, `HousingNewsIsWatched` | `domain/housing.py`, `builder.py` | imported history is never news |
| `AnswersAreStored`, `RerunIsIdle` | ingestion services | one agency's failure costs nothing of the other's; a command run again writes nothing |
| `PagesAgree` | `domain/rates.py`, `domain/housing.py` | the parts of a page do not contradict each other |
| `PagesSkipNothing`, `TransformsDoNotDependOnTheRange` | `series_repository.py`, `economic_data.py` | ranges and pages are windows on one history |
| `OneBodyAtMost` | `bounded_http.py`, `census.py` | retries never mix two bodies; errors are final; the client is closed |
| `LimitIsKept` | `rate_limit.py`, `access_gate.py` | never more than the limit in a window, and the wait told is long enough |
| `HealthyIsRecentAndClean` | `maintenance_health.py` | what exit 0 promises |
| `ExitTellsTheSchema` | `operations/release.py` | exit 0 means the schema is there; migrations move forward only |
| `CalendarKeepsItsWord` | `release_repository.py`, `release_schedule.py` | dates are kept once and for good; exit 0 means a complete calendar |

`Services` bounds: commands begin while fewer than 5 clock stamps are used, with
three to seven different answers of each agency, repeated periods and malformed
rows among them; 2 threads, 2 events in a window of 1 second of 2 ticks, 4 ticks;
3 sweeps and 3 hours with a stale threshold of 2 and no grace; 2 migrators,
revisions up to 2 for this release and 4 for the newer; 2 syncers on 2 days;
3 attempts and 2 bytes.

Bounds, and why they are enough:

- `MaxTime`. Version intervals are compared only with each other, so two
  instants after the migration's (0) give equal, earlier and later readings and
  a history of three versions. In `SinceLastVisit` four instants let a
  checkpoint age past the lookback of 1.
- `SmallBatches` (a state constraint of `ObservationStore`'s passing run): an
  import takes all it writes in one session for published history or none of
  it (sessions after one another still differ), and release processing carries
  both observations only while no import is under way. Batches matter for
  atomicity, which needs one session with two writes and one that interferes;
  two sessions with two writes each add deadlocks, whose outcome is a rollback
  that is there anyway. The proofs need no such bound.
- `MaxDay`, `RetryWindow`: a window of 1 lets an occurrence be due on two days,
  settle on the first and come back on the second; the two scheduled dates
  make the windows open and close at different times.
  The liveness run has a window of 2, so that both occurrences are due on the
  last day and the failing one comes first.
- `MaxDeaths` caps kills and aborts, without which no liveness could hold; one
  or two are enough to kill a sweep in each of its phases.
- Symmetry is used between interchangeable observations, values, hosts and
  tabs, only in runs without liveness properties.
- `MaxChecks` 2 in `Monitors`: two checks of one occurrence (a re-check) or of two
  releases (whose confirmations read one another's series) are what the read
  side relates;
  an import supplies the third writer.
- `Lookback` 4 months: durations of 1, 2 and 3, and the bounded one.
- The `Services` values are each the least at which a case and its neighbour
  exist: one event more than the limit, a window that empties while a thread
  waits, a sweep newer than the newest finished one, a range with and without
  enough context, a revision between 0 and the head.

Deadlock is checked in the storage and scheduling runs. `Services` and the four runs
of `MCMonitors` say `CHECK_DEADLOCK FALSE`, because there a behaviour really ends:
all checks are done, or a part has reached its bound.

### Fairness

Only `MaintenanceOneWorker` assumes any (`FairSpec`). Weak fairness of
`SweepStep`: the external scheduler keeps launching sweeps (the runbook's cron
schedule) and a live process keeps running. Strong fairness of `StartSweep` and
`ListDue`: the database is up now and then. Weak fairness of a check ending in
one way or another: every provider call has a timeout. Strong fairness of
successful checks and commits only for the occurrences in `Recovering`; the
other one may fail for ever, and the property says that it does not starve
its neighbour. Nothing is assumed of operators, of `Midnight` or of deaths.

## Findings

1. `ConfirmationRecordsNoVersion`: two sessions bring the same revised value;
   the second reads the old row, the first commits, and the second then reads
   the first's open version, closes it and opens an identical one, if its
   clock reading is later. `apply()` says that confirming a stored value
   records nothing.
2. `AtMostOncePerDay` fails for overlapping sweeps: the due list is not
   re-checked under the lock.
3. `ExitOneMeansFinished`: an uncaught ValueError ends the sweep with status 1
   and an unfinished record; with two sweeps an uncaught IntegrityError of the
   schedule synchronisation does so too.
4. `NothingIsLost`: a recap between a run's `completed_at` and its commit
   stores a watermark that later requests start from, and skips the run.
5. `EmploymentAnalysisMissesNothing`: when a missing month of payrolls arrives
   after later ones, employment becomes available also 1, 2, 4 and 5 months
   after it; a check evaluates 0, 3 and 6 only
   (`labor_release_processing.py:106`).
6. `FirstRunIsNeverAConfirmation`: the first run that ever records the labor
   monitor records several periods; the recap compares the latest of them with
   the earliest row and calls it a confirmation (`since_last_visit.py:301`).
7. `EveryConclusionIsTold`: a re-check that finds nothing touches no world, and the
   builder skips an occurrence whose latest run touched none (`builder.py:220`), so
   the conclusions of the earlier runs leave the feed until a later check finds
   something. `structured-intelligence.md:166` says that nothing is lost.

Observations. The models also show the following, which the properties state as
exceptions or leave out instead of refuting a sentence of the code:

- The id of an analysis change has no run in it (`identity.py:123`): a revision that
  moved a component, was undone and came again gives two objects, recorded at
  different times, one id, though `structured-intelligence.md:169` calls duplicates
  impossible.
- A value that reads as not-a-number equals nothing, so each later sync records
  a revision of it (`census.py:520`).
- A provenance row that the revising write creates starts with no revision.
- A payload that gives one period two values may make the writer refuse its own
  second write, which loses the whole import.
- Release processing reads the clock once per series, not once per occurrence.
- The limiter drops an idle key only when that key calls again.

## Proofs

`tlapm` checks every theorem; nothing is assumed but the ASSUMEs of the
modules, each of which TLC evaluates in the passing runs.

- `ObservationStoreProofs`. The inductive invariant joins three things. The
  history part: per observation at most one open version, closed intervals
  end where another begins, only the first is not a REVISED one, and the row
  holds the open version's value. The session part: what a session has flushed
  is locked against other sessions, so the version it closes is still the open
  one when it commits, and its instant is later than every recorded one. The
  type part. None of the properties is inductive alone: that a commit keeps
  the tiling depends on what the flush found and on the row locks since. From
  it follow `VersionsTile`, `CacheCorrect`, `ImportsAreFirst`, `AppendOnly`
  and `AsOfCorrect`; `Implements` maps a commit to `Account!Record` and any
  other step to a stutter.
- `MaintenanceProofs`. The invariant says that an occurrence moves through
  due, target and exactly one of skipped, processed and failed, and that
  whatever left the lists is settled since the sweep's date. It gives
  `LocksFollowChecks` and `FinishedSweepsAccount` for any number of sweeps
  and operators. `OneWorkerOncePerDay` adds that with one worker the due list
  cannot go stale; finding 2 shows that the assumption is needed.
- `SinceLastVisitProofs`. The invariant follows a committed run through the
  request that could have listed it; `LossIsStraddling` is its consequence for
  any number of runs and tabs and any lookback. `SideBySide`: `Deployment` does what
  `SinceLastVisit` and `Services` each say, so the theorems about either hold of it.

- `OperationsProofs`. `ExitIsHonest`: a migration under way began behind the
  expected head, whatever the other migrators and the newer release did; so a
  migration moves forward to exactly that head, and exit code 0 was preceded by
  a look at it. `CalendarKept`: dates are held once and never go, so what a
  session found held when it wrote is still held when it commits; what it
  inserts is then new, or the index refuses all of it. `HealthyIsHonest`: sweeps
  are stored by start, what was read of the newest one keeps holding as long as
  it can matter, and whatever starts after the command asked for the time
  starts no earlier than that time.
  `LimitIsKeptAlways`: the deque is the stamps of the last
  events let through, those dropped have left the window (although stamps may be
  out of order, a stamp is never of the future), and the wait a refused caller
  was told outlasts the oldest event. For any number of threads, any limit,
  window and tick. `OneBodyOnly`: each attempt but the last met something that
  may be repeated and delivered nothing.
- `StoredDataProofs`. `PagesAreComplete`: an observation has one rank in its range;
  what a client was given is, at each page, at least the ranks below its offset, and
  rows that arrive push ranks up, never down, so that the next page begins no later
  than what was already given. Without arrivals the pages are consecutive stretches
  of one list; with arrivals something may be given twice, and what was given has as
  many entries as the range then holds. `AnswersDoNotDependOnTheRange`: the list of
  a range is a consecutive stretch of that of the whole history; each transformation
  looks back a fixed number of observations, which the widened fetch provides, so
  that cutting after computing gives what computing over the whole history and then
  cutting gives. For any data, ranges, windows and page sizes that the routers let
  through (`ReadsAssumption`).
- `MonitorProofs`. A live check is alone with its occurrence and stamps its run
  after every run of it, so ids and `completed_at` agree: `StatusIsCurrent`. Runs
  are only appended: `EvidenceStays`. `HistoryInvariant` is the inductive invariant
  of the tables. Versions: of two versions of one observation one was committed
  before the other was stamped. Rows: what `rows` says of a series is what its
  latest versions say. A live check: it has at most one change for an observation,
  of a series its release maps, and nothing of what it changes was committed since
  it detected the change; once it has analysed, `after` is what had been committed
  by then with its own changes laid over. A recorded result: its state is that of
  the versions committed when its check read and of those its own commit brought;
  and it differs from the state before the run only if a first-tier update of that
  run speaks of its monitor. The replay, the recap and the classification of inputs
  each compare a result with versions that others may have committed since, which is
  why the invariant must say of each result when it read and what was committed by
  then; none of the properties is inductive. From it (the second half of the
  module): `ReplayIsFaithful`: a version that was stamped by the calculation, but
  was not committed when the check had read, is the overlap that the property
  excuses; without one, the as-of query returns what the check read.
  `RecapTellsEverything`: a run whose analyses say nothing left each state it
  recorded as it was. `PagesAreOneList`: the order of a page is total, so each
  recorded result has one rank, and a page of any size at any offset holds the ranks
  from that offset on. `SameInputsSameState`: by cases over the methodologies, a
  state is a function of the levels that the result cites as its inputs.
  `NothingIsMissed`, component by component: the affected horizons contain each
  month that a component looks back to, so a period outside them is told the same
  before and after, unless somebody else wrote in between what the component reads;
  the case that fails for employment is finding 5, and stays model-checked.
  `PeriodsAreInOrder` follows the definitions. `NewsAgrees` has an invariant of its
  own (`NewsInv`): only the first version of an observation comes with an import of
  history; what a live check is about to tell, and what each run told, is what the
  versions older than its stamp have; and each version of that observation that is
  committed later bears a later stamp, so that it cannot become one of them.
  `DurationsAgree`: both accounts look at the two last evaluated months; the proof
  follows the frozen order of the events through its sort, which needs that no two
  events have one sort key.

- `IngestionProofs`. The commands are loops over loops, so most of the work is
  one statement per loop: `TxOK`, what a transaction under way has kept of the
  invariant since it began. `Folding` is the induction they share: an operator
  kept by one element is kept by the fold of a finite set. (The proof is over
  the sizes of the subsets, by the least size for which it would fail: the
  library's induction cannot be used.) `IngestInv`, which holds between two
  commands, says: the versions of an observation follow one another without a
  gap, the first alone is new, and each row has an open version with its value;
  each provenance row counts the revisions since it was first seen; each row
  comes from what some command was answered; and the recorded runs of an origin
  add up to its versions. None of the properties is inductive alone: that a
  revision is counted once needs that stamps never repeat, that a run's count
  is the number of versions needs that a rolled-back dataset leaves neither,
  and that all that was answered is stored needs that a later element of the
  same answer does not overwrite an earlier one, unless the answer contradicts
  itself. From it: `IngestionTypesHold`, `AnswersStay`, `HistoryIsTold`,
  `RunsAreAccountedFor`, `RevisionsAreCounted` and `NewsIsWatched` (what a
  revision replaced is the version before it, because versions leave no gap;
  and an imported version can only be the first), for any answers, series and
  number of commands.
  `FiguresAgree` is about what the two pages make of those rows. `IngestInv` gives
  that the usable dates of a series are finitely many, so each has one rank and
  the latest is the greatest, and that each stored Treasury row has its provenance.
  The change over n sessions, the last points of the chart and the ranked window
  all index those ranks, so they cannot speak of different sessions; the figures
  of a housing page are of the latest month and of the published one next to it.

What the theorems assume of the data: an answer holds finitely many months
(`AnswersAssumption`, `RowsAssumption`: a result set), the import writes a month
older than the five years an answer covers (`ImportAssumption`; two writers of one
observation are `ObservationStore`'s subject), `Null` is no number and no world, and
a lookback of more than one month (the code's is 60). `SeriesAssumption`: the series
of the providers are different ones, and the marks of an absent, an unreadable or a
rejected value are no numbers. `BodiesAssumption`: an answer is no body at all or a
list of rows with periods and values, in the answers of BLS and Census possibly
malformed ones among them; it may repeat periods, contradict itself and be of any
length. `PagesAssumption`: windows, chart and trend lengths are at least one, the
ranked window is one of the windows, and a spread is of two Treasury series (the
constants of `models/rates.py`, `services/rates.py` and `domain/housing.py`).

The theorems are about the specification that a run checks or, for the
services, about `Services!Spec`, which `SideBySide` says that run's specification
implies; never about a part taken alone.

Model-checked only: `RetriedUntilSettled` (liveness under fairness is out of
the prover's reach); `RerunIsIdle` of `Ingestion`, which has no proof yet:
`IngestInv` says that what is stored was answered, and that property needs more,
namely that after a command each row holds the last answer for its month and that
a command was undone exactly when it would be undone again; and the seven
refutations.

## Not modelled

- The language-model services, the analyst's context and its evaluation: text
  around calls, no state of their own.
- Concept and binding tables: static, and checked at import.
- Discovery: one search of the store merged with one of FRED.
- Floating-point statistics (trend, correlation, rounding of displayed
  figures): unit tests serve better. States and comparisons are modelled with
  exact fractions.
- Wording, titles, sorting for display and the filters of the intelligence
  service; request ids, headers and the derivation of a limiter's key.
- FRED's search and release-date pages; the choice of years a sync looks back.
- Research scripts, and the frontend beyond the checkpoint.

What a next step could be: each write of a check as a step of `ReleaseAnalysis`
(its refinement to `ObservationStore`), and several keys in the limiter.
