----------------------------- MODULE Ingestion -----------------------------
(***************************************************************************)
(* The ingestion commands: the first-party import of BLS and BEA history,    *)
(* the Treasury and the Census sync, and the sync of one FRED series.  Each   *)
(* runs in one transaction, so a command either leaves all it wrote or, when  *)
(* the version writer or the series guard raises, nothing.  The interleaving  *)
(* of two transactions is ObservationStore's; here commands follow one        *)
(* another, in any order, with any answers.                                   *)
(***************************************************************************)
EXTENDS ProviderPayloads, FiniteSetsExt

CONSTANTS
    BlsSeries, BeaSeries,      \* first-party series of each agency
    NominalSeries, RealSeries, \* Treasury series of each dataset
    HousingSeries,             \* Census series that are wanted
    FredSeries,                \* series synced from FRED one at a time
    MaxYears,                  \* years the BLS client may ask for
    ImportYears,               \* years an operator may ask for
    WindowStart(_), Today,     \* the import window: first month for so many years, last month
    BlsBodies, BeaBodies,      \* what the agencies may answer
    NominalBodies, RealBodies, \* what the Treasury feed may answer for a dataset
    CensusBodies, FredBodies,
    ReleaseRows,               \* what a release check may write
    Windows, ContextWindow, ChartSessions, Spreads, Compensations, \* RatesMonitor
    YearMonths, TrendMonths,   \* HousingMonitor
    HousingLimit,              \* housing objects of one read
    MaxCommands                \* bound: no command begins after so many stamps

FirstPartySeries == BlsSeries \cup BeaSeries
TreasurySeries == NominalSeries \cup RealSeries
StoredSeries == FirstPartySeries \cup TreasurySeries \cup HousingSeries \cup FredSeries

\* A list as long as it says, of items with a date where they have one.
IsList(list) == Len(list) \in Nat /\ DOMAIN list = 1..Len(list)

DatedItems(list, none) ==
    IsList(list) /\ \A i \in DOMAIN list : list[i] # Malformed => list[i].period \in Int \cup none

ASSUME SeriesAssumption ==
    /\ IsFiniteSet(StoredSeries)
    /\ BlsSeries \cap BeaSeries = {}
    /\ TreasurySeries \cap (FirstPartySeries \cup HousingSeries \cup FredSeries) = {}
    /\ \A row \in ReleaseRows : row.series \in StoredSeries \ TreasurySeries /\ row.period \in Int
    /\ Null \notin Int \cup {Blank, NotNumeric, NaN}
    /\ Null \notin {"ProviderResponseError", "ProviderRateLimitedError", "TreasuryUpstreamError",
                    "CensusUpstreamError", "FREDUpstreamError", "MALFORMED_ROW", "MISSING_IDENTITY",
                    "UNRECOGNISED_FLAG", "UNPARSEABLE_PERIOD"}

\* A body that is no body at all is Malformed; else its lists are lists.
ASSUME BodiesAssumption ==
    /\ \A body \in BlsBodies \ {Malformed} :
         IsList(body.series) /\ \A i \in DOMAIN body.series : DatedItems(body.series[i].items, {Malformed})
    /\ \A body \in BeaBodies \ {Malformed} :
         DatedItems(body.rows, {Malformed}) /\ \A i \in DOMAIN body.rows : body.rows[i] # Malformed
    /\ \A body \in (NominalBodies \cup RealBodies) \ {Malformed} :
         /\ DatedItems(body.entries, {Blank, Malformed})
         /\ \A i \in DOMAIN body.entries :
              body.entries[i] # Malformed /\ DOMAIN body.entries[i].values \subseteq TreasurySeries
    /\ \A body \in CensusBodies \ {Malformed} : DatedItems(body.rows, {Malformed})
    /\ \A body \in FredBodies \ {Malformed} :
         DatedItems(body.observations, {}) /\ \A i \in DOMAIN body.observations : body.observations[i] # Malformed

\* models/rates.py:90 the windows count sessions, and the one that is ranked
\* (services/rates.py:61) is one of them; domain/housing.py counts months.
ASSUME PagesAssumption ==
    /\ Windows \subseteq Nat \ {0} /\ ContextWindow \in Windows /\ ChartSessions \in Nat \ {0}
    /\ \A pair \in Spreads : {pair.long, pair.short} \subseteq TreasurySeries
    /\ {YearMonths, TrendMonths} \subseteq Nat \ {0}

INSTANCE RatesMonitor
INSTANCE HousingMonitor
INSTANCE Intelligence

VARIABLES
    stamp,       \* the clock: one tick for each stamp
    store,       \* [rows, versions, provenance]: committed
    runsDone,    \* the ingestion runs recorded, in order
    last         \* the last command, its input and how it ended

ingestionVars == <<stamp, store, runsDone, last>>

---------------------------------------------------------------------------
(* The writer and the provenance of one observation.  st is the store as the *)
(* transaction sees it, with raised set once something has raised.           *)

HasRow(st, series, period) == period \in DOMAIN st.rows[series]

HasObservations(st, series) == DOMAIN st.rows[series] # {}

\* A value that is not a number equals nothing, itself included.
SameValue(a, b) == a = b /\ a # NaN

\* Mutant: only a first version is closed.
OpenFirstVersion(st, series, period) ==
    {v \in st.versions : v.series = series /\ v.period = period /\ v.to = Null /\ v.type = "NEW"}

OpenVersionsOf(st, series, period) ==
    {v \in st.versions : v.series = series /\ v.period = period /\ v.to = Null}

\* Mutant: what is stored is written again.
AlwaysRevised(st, series, o) ==
    IF HasRow(st, series, o.period) THEN "REVISED" ELSE "INSERTED"

WriteOutcome(st, series, o) ==
    CASE ~HasRow(st, series, o.period) -> "INSERTED"
      [] HasRow(st, series, o.period) -> IF SameValue(st.rows[series][o.period], o.value)
                                         THEN "UNCHANGED" ELSE "REVISED"

OpenedVersion(series, o, type, baseline, at, origin) ==
    [series |-> series, period |-> o.period, value |-> o.value, type |-> type,
     backfilled |-> baseline /\ type = "NEW", at |-> at, to |-> Null, origin |-> origin]

\* Rows and versions after one observation; what is under way is abandoned when
\* the open version is not older than this write.
WriteObservation(st, series, o, baseline, at, origin) ==
    LET outcome == WriteOutcome(st, series, o)
        open == OpenVersionsOf(st, series, o.period)
        row == [st.rows EXCEPT ![series] = [m \in DOMAIN @ \cup {o.period} |->
                                              IF m = o.period THEN o.value ELSE @[m]]]
    IN  CASE outcome = "UNCHANGED" -> st
          [] outcome = "INSERTED" ->
               [st EXCEPT !.rows = row,
                          !.versions = @ \cup {OpenedVersion(series, o, "NEW", baseline, at, origin)}]
          [] OTHER ->
               [st EXCEPT !.rows = row,
                          !.versions = (@ \ open)
                             \cup {[v EXCEPT !.to = at] : v \in open}
                             \cup {OpenedVersion(series, o, "REVISED", baseline, at, origin)},
                          !.raised = @ \/ \E v \in open : v.at >= at]

\* The provenance of an observation that is seen for the first time.
FreshProvenance(at) == [first_seen |-> at, retrieved |-> at, revisions |-> 0, revised_at |-> Null]

\* Mutant: a confirmation counts as a revision.
CountedProvenance(st, series, period, at, revised) ==
    LET key == <<series, period>>
    IN  [st EXCEPT !.provenance = [k \in DOMAIN @ \cup {key} |->
            CASE k # key -> @[k]
              [] k = key /\ key \notin DOMAIN @ -> FreshProvenance(at)
              [] OTHER -> [@[k] EXCEPT !.retrieved = at, !.revisions = @ + 1, !.revised_at = at]]]

ProvenanceAfter(provenance, key, at, revised) ==
    [k \in DOMAIN provenance \cup {key} |->
        CASE k # key -> provenance[k]
          [] k = key /\ key \notin DOMAIN provenance -> FreshProvenance(at)
          [] OTHER -> IF revised
                      THEN [provenance[k] EXCEPT !.retrieved = at, !.revisions = @ + 1, !.revised_at = at]
                      ELSE [provenance[k] EXCEPT !.retrieved = at]]

UpsertProvenance(st, series, period, at, revised) ==
    [st EXCEPT !.provenance = ProvenanceAfter(@, <<series, period>>, at, revised)]

\* A write with its provenance, counted.
Upsert(st, series, o, baseline, at, origin) ==
    LET outcome == WriteOutcome(st, series, o)
        written == WriteObservation(st, series, o, baseline, at, origin)
    IN  [UpsertProvenance(written, series, o.period, at, outcome = "REVISED")
           EXCEPT !.inserted = @ + (IF outcome = "INSERTED" THEN 1 ELSE 0),
                  !.revised = @ + (IF outcome = "REVISED" THEN 1 ELSE 0)]

\* Mutant: the newest stored month is read again before each write.
BaselineAsWritten(stored, st, series, period) == IsBaselineImport(DOMAIN st.rows[series], period)

\* Whether a write is history is judged by what was stored before the first.
BaselineAsStored(stored, st, series, period) == IsBaselineImport(stored, period)

PersistHistory(st, series, observations, at, origin) ==
    FoldLeft(LAMBDA acc, o : Upsert(acc, series, o,
                                    BaselineAsStored(DOMAIN st.rows[series], acc, series, o.period),
                                    at, origin),
             st, observations)

Begun == [rows |-> store.rows, versions |-> store.versions, provenance |-> store.provenance,
          raised |-> FALSE, inserted |-> 0, revised |-> 0]

Kept(st) == [rows |-> st.rows, versions |-> st.versions, provenance |-> st.provenance]

---------------------------------------------------------------------------
(* The first-party import: one run for each agency asked, in one transaction. *)

\* Mutant: a run counts what the whole transaction wrote so far.
RunningTotals(origin, status, mode, st, before) ==
    [origin |-> origin, status |-> status, mode |-> mode,
     inserted |-> st.inserted, revised |-> st.revised]

Run(origin, status, mode, st, before) ==
    [origin |-> origin, status |-> status, mode |-> mode,
     inserted |-> st.inserted - before.inserted, revised |-> st.revised - before.revised]

InWindow(observations, years) ==
    Selected(observations, {i \in DOMAIN observations : observations[i].period \in WindowStart(years)..Today})

\* Both results of an agency's run: the store and the run recorded.
FirstPartyRun(st, series, parsed, years, at) ==
    LET received == [s \in series |-> InWindow(parsed.data[s], years)]
        after == FoldSet(LAMBDA s, acc : PersistHistory(acc, s, received[s], at, "FIRST_PARTY"),
                         st, series)
        empty == {s \in series : ~HasObservations(st, s)}
    IN  IF parsed.error # Null
        THEN [st |-> st, run |-> Run("FIRST_PARTY", "FAILED", "NONE", st, st)]
        ELSE [st |-> after,
              run |-> Run("FIRST_PARTY",
                          IF \E s \in series : received[s] = <<>> THEN "PARTIAL_FAILURE" ELSE "SUCCEEDED",
                          IF empty # {} THEN "BASELINE_BACKFILL" ELSE "INCREMENTAL", after, st)]

\* import_first_party.main: 2 when refused or rolled back, 1 when an agency's
\* run did not succeed.
ImportExit(runs) == IF \A i \in DOMAIN runs : runs[i].status = "SUCCEEDED" THEN 0 ELSE 1

Finish(command, st, runs, exit, ticks) ==
    /\ stamp' = stamp + ticks
    /\ IF st.raised
       THEN /\ UNCHANGED <<store, runsDone>>
            /\ last' = [command |-> command, raised |-> TRUE, exit |-> 2, runs |-> <<>>]
       ELSE /\ store' = Kept(st)
            /\ runsDone' = runsDone \o runs
            /\ last' = [command |-> command, raised |-> FALSE, exit |-> exit, runs |-> runs]

\* Mutant: the second agency is not asked when the first fails.
ImportUntilFailure(years, bls, bea) ==
    LET asked(s, p, st, at) == FirstPartyRun(st, s, p, years, at)
        first == asked(BlsSeries, ParseBls(bls, BlsSeries), Begun, stamp + 1)
        second == IF first.run.status = "FAILED" THEN first
                  ELSE asked(BeaSeries, ParseBea(bea, BeaSeries, WindowStart(years)), first.st, stamp + 2)
    IN  Finish(<<"import", years, bls, bea>>, second.st, <<first.run, second.run>>,
               ImportExit(<<first.run, second.run>>), 2)

ImportHistory(years, bls, bea) ==
    LET first == FirstPartyRun(Begun, BlsSeries, ParseBls(bls, BlsSeries), years, stamp + 1)
        second == FirstPartyRun(first.st, BeaSeries, ParseBea(bea, BeaSeries, WindowStart(years)),
                                years, stamp + 2)
    IN  Finish(<<"import", years, bls, bea>>, second.st, <<first.run, second.run>>,
               ImportExit(<<first.run, second.run>>), 2)

\* More years than BLS serves are refused before anything is asked.
RefuseImport(years) ==
    /\ years > MaxYears
    /\ last' = [command |-> <<"import", years>>, raised |-> TRUE, exit |-> 2, runs |-> <<>>]
    /\ UNCHANGED <<stamp, store, runsDone>>

---------------------------------------------------------------------------
(* The Treasury sync: each dataset on its own, one run for both.             *)

\* None of what the feed publishes is a baseline.
UpsertRate(st, series, o, at) == Upsert(st, series, o, FALSE, at, "RATES")

\* Every session's published fields.
PersistDataset(st, rows, at) ==
    FoldLeft(LAMBDA acc, row :
                FoldSet(LAMBDA s, a : UpsertRate(a, s, [period |-> row.period, value |-> row.values[s]], at),
                        acc, DOMAIN row.values),
             st, rows)

DatasetAfter(st, parsed, at) ==
    IF parsed.error # Null THEN st ELSE PersistDataset(st, parsed.data, at)

\* The run of a whole sync, which began with nothing written.
RatesRun(status, st) == Run("RATES", status, "NONE", st, Begun)

SyncRates(nominal, real) ==
    LET answers == <<ParseTreasury(nominal), ParseTreasury(real)>>
        first == DatasetAfter(Begun, answers[1], stamp + 1)
        second == DatasetAfter(first, answers[2], stamp + 2)
        failed == {i \in 1..2 : answers[i].error # Null}
        status == CASE failed = {} -> "SUCCEEDED"
                    [] failed = 1..2 -> "FAILED"
                    [] OTHER -> "PARTIAL_FAILURE"
    IN  Finish(<<"rates", nominal, real>>, second, <<RatesRun(status, second)>>, 0, 2)

---------------------------------------------------------------------------
(* The Census sync: one response for every series.                           *)

HousingPublished(parsed, series) ==
    LET rows == parsed.data.accepted
    IN  Selected(rows, {i \in DOMAIN rows : /\ rows[i].series = series /\ ~rows[i].is_error_measure
                                            /\ rows[i].value # Null})

HousingStatus(parsed) ==
    CASE parsed.error # Null -> "FAILED"
      [] parsed.error = Null /\ parsed.data.accepted = <<>> -> "PARTIAL_FAILURE"
      [] OTHER -> IF parsed.data.rejected > 0 THEN "PARTIAL_FAILURE" ELSE "SUCCEEDED"

HousingRun(status, mode, st) == Run("HOUSING", status, mode, st, Begun)

SyncHousing(body) ==
    LET parsed == ParseCensus(body)
        nothing == parsed.error # Null \/ parsed.data.accepted = <<>>
        published == [s \in HousingSeries |-> HousingPublished(parsed, s)]
        after == IF nothing THEN Begun
                 ELSE FoldSet(LAMBDA s, acc : PersistHistory(acc, s, published[s], stamp + 1, "HOUSING"),
                              Begun, HousingSeries)
        mode == IF ~nothing /\ \E s \in HousingSeries : ~HasObservations(store, s)
                THEN "BASELINE_BACKFILL" ELSE "INCREMENTAL"
    IN  Finish(<<"housing", body>>, after, <<HousingRun(HousingStatus(parsed), mode, after)>>, 0, 1)

---------------------------------------------------------------------------
(* The sync of a FRED series, and what a release check writes: no provenance, *)
(* no run, no baseline.                                                       *)

WriteWithoutProvenance(st, series, observations, at, origin) ==
    FoldLeft(LAMBDA acc, o : WriteObservation(acc, series, o, FALSE, at, origin), st, observations)

SyncSeries(series, body) ==
    LET parsed == ParseFred(body)
        after == WriteWithoutProvenance(Begun, series, parsed.data, stamp + 1, "SERIES_SYNC")
    IN  IF parsed.error # Null
        THEN /\ last' = [command |-> <<"series", series, body>>, raised |-> FALSE, exit |-> 1, runs |-> <<>>]
             /\ UNCHANGED <<stamp, store, runsDone>>
        ELSE Finish(<<"series", series, body>>, after, <<>>, 0, 1)

ReleaseCheck(row) ==
    Finish(<<"release", row>>,
           WriteWithoutProvenance(Begun, row.series, <<[period |-> row.period, value |-> row.value]>>,
                                  stamp + 1, "RELEASE"),
           <<>>, 0, 1)

---------------------------------------------------------------------------
IngestionInit ==
    /\ stamp = 0
    /\ store = [rows |-> [s \in StoredSeries |-> [m \in {} |-> m]], versions |-> {},
                provenance |-> [k \in {} |-> k]]
    /\ runsDone = <<>>
    /\ last = [command |-> <<>>, raised |-> FALSE, exit |-> 0, runs |-> <<>>]

FirstPartyNext ==
    /\ stamp < MaxCommands
    /\ \/ \E years \in ImportYears : RefuseImport(years)
       \/ \E years \in ImportYears, bls \in BlsBodies, bea \in BeaBodies :
            years =< MaxYears /\ ImportHistory(years, bls, bea)
       \/ \E series \in FredSeries, body \in FredBodies : SyncSeries(series, body)
       \/ \E row \in ReleaseRows : ReleaseCheck(row)

RatesNext ==
    /\ stamp < MaxCommands
    /\ \E nominal \in NominalBodies, real \in RealBodies : SyncRates(nominal, real)

HousingNext ==
    /\ stamp < MaxCommands
    /\ \E body \in CensusBodies : SyncHousing(body)

---------------------------------------------------------------------------
(* What is read back *)

RatesPage ==
    RatesResult([s \in TreasurySeries |-> store.rows[s]],
                [s \in TreasurySeries |->
                    [d \in {k[2] : k \in {j \in DOMAIN store.provenance : j[1] = s}} |->
                        store.provenance[<<s, d>>].retrieved]])

HousingNews == HousingIntelligence(store.versions, HousingSeries, HousingLimit)

IngestionOrigins == {"FIRST_PARTY", "RATES", "HOUSING"}

VersionsBy(origin, type) == {v \in store.versions : v.origin = origin /\ v.type = type}

\* What a command's answers say of a series, as the services read them.
Received(command) ==
    LET observations(s, seq) == {[series |-> s, period |-> seq[i].period, value |-> seq[i].value] :
                                   i \in DOMAIN seq}
        agency(series, parsed, years) ==
            IF parsed.error # Null THEN {}
            ELSE UNION {observations(s, InWindow(parsed.data[s], years)) : s \in series}
        dataset(parsed) ==
            IF parsed.error # Null THEN {}
            ELSE UNION {{[series |-> s, period |-> parsed.data[i].period, value |-> parsed.data[i].values[s]] :
                           s \in DOMAIN parsed.data[i].values} : i \in DOMAIN parsed.data}
    IN  CASE Len(command) = 4 ->
               agency(BlsSeries, ParseBls(command[3], BlsSeries), command[2]) \cup
               agency(BeaSeries, ParseBea(command[4], BeaSeries, WindowStart(command[2])), command[2])
          [] Len(command) = 3 /\ command[1] = "rates" ->
               dataset(ParseTreasury(command[2])) \cup dataset(ParseTreasury(command[3]))
          [] Len(command) = 3 /\ command[1] = "series" ->
               IF ParseFred(command[3]).error # Null THEN {}
               ELSE observations(command[2], ParseFred(command[3]).data)
          [] Len(command) = 2 /\ command[1] = "housing" ->
               IF ParseCensus(command[2]).error # Null THEN {}
               ELSE UNION {observations(s, HousingPublished(ParseCensus(command[2]), s)) : s \in HousingSeries}
          [] Len(command) = 2 /\ command[1] = "release" -> {command[2]}
          [] OTHER -> {}

---------------------------------------------------------------------------
(* Properties *)

\* Types of the ingestion state; every row has exactly one open version, which
\* holds its value.
IngestionTypeOK ==
    /\ stamp \in Nat
    /\ DOMAIN store.rows = StoredSeries
    /\ \A key \in DOMAIN store.provenance : HasRow(store, key[1], key[2])
    /\ \A s \in StoredSeries : \A m \in DOMAIN store.rows[s] :
         \E v \in store.versions :
           /\ {u \in store.versions : u.series = s /\ u.period = m /\ u.to = Null} = {v}
           /\ v.value = store.rows[s][m]
    /\ \A i \in DOMAIN runsDone :
         runsDone[i].status \in {"SUCCEEDED", "PARTIAL_FAILURE", "FAILED"}

\* services/rates_ingestion.py:118, census_ingestion.py:178 and
\* first_party_ingestion.py:192: what the recorded runs say they inserted and
\* revised is what the version history says their origin wrote.
RunsAccountForVersions ==
    \A origin \in IngestionOrigins :
        LET mine == {i \in DOMAIN runsDone : runsDone[i].origin = origin}
        IN  /\ MapThenSumSet(LAMBDA i : runsDone[i].inserted, mine) = Cardinality(VersionsBy(origin, "NEW"))
            /\ MapThenSumSet(LAMBDA i : runsDone[i].revised, mine) = Cardinality(VersionsBy(origin, "REVISED"))

\* first_party_repository.py:129 and its two siblings: a provenance row counts
\* the revisions ingestion wrote since it first saw the observation, and dates
\* the last of them.  One that came with the row itself counts only if the same
\* answer had confirmed the value before: a revision that creates the row, because
\* a release check wrote the observation first, does not.
ProvenanceCountsRevisions ==
    \A key \in DOMAIN store.provenance :
        LET p == store.provenance[key]
            revisions == {v \in store.versions : /\ v.series = key[1] /\ v.period = key[2]
                                                /\ v.type = "REVISED" /\ v.at >= p.first_seen
                                                /\ v.origin \in IngestionOrigins}
        IN  \E counted \in {revisions, {v \in revisions : v.at > p.first_seen}} :
              /\ p.revisions = Cardinality(counted)
              /\ p.revised_at = IF counted = {} THEN Null ELSE Max({v.at : v \in counted})

\* domain/housing.py:159 the boundary between history and news: a first value
\* is a baseline iff an import brought it into an empty series or behind a month
\* already stored when the import began; a revision never is.
BaselineIsHistory ==
    [][\A v \in store'.versions : v.at > stamp =>
         (v.backfilled <=>
            /\ v.type = "NEW"
            /\ v.origin \in {"FIRST_PARTY", "HOUSING"}
            /\ \/ DOMAIN store.rows[v.series] = {}
               \/ \E m \in DOMAIN store.rows[v.series] : m > v.period)]_ingestionVars

\* services/rates_ingestion.py:84 "Idempotent": the command that was just run,
\* run again over the same answers, writes nothing, except that a value that is
\* not a number is taken for a revision of itself.
RerunIsIdle ==
    [][last'.command = last.command
         => \A v \in store'.versions : v.at > stamp => v.value = NaN]_ingestionVars

\* first_party_ingestion.py:149 and rates_ingestion.py:107: a command stores all
\* that the providers which answered sent, whatever the others did; it loses
\* them only when one period is given two values (a value that is not a number is
\* two), and even then not always.
AnswersAreStored ==
    \A received \in {Received(last.command)} :
        LET ofOnePeriod(q, r) == q.series = r.series /\ q.period = r.period
        IN  IF last.raised
            THEN \/ last.command[1] = "import" /\ Len(last.command) = 2
                 \/ \E q, r \in received : ofOnePeriod(q, r) /\ ~SameValue(q.value, r.value)
            ELSE \A r \in received :
                   /\ HasRow(store, r.series, r.period)
                   /\ \E q \in received : /\ ofOnePeriod(q, r)
                                          /\ store.rows[r.series][r.period] = q.value

\* services/intelligence/builder.py:563: housing news is never an imported
\* baseline, a revision names the value it replaced, and the original value is
\* called known only if the first one ever held was watched.
HousingNewsIsWatched ==
    \A news \in HousingNews :
        \E v \in store.versions :
            LET timeline == ListVersions(store.versions, v.series, v.period)
                replaced == {u \in timeline : u.to = v.at}
            IN  /\ news.id = ObservationChangeId(v.series, v.period, v.at)
                /\ ~v.backfilled
                /\ v.type = "REVISED" => {u.value : u \in replaced} = {news.previous_value}
                /\ news.original_value_known => \A u \in timeline : ~u.backfilled

\* services/rates.py:62: the numbers of a level, its chart, its ranking and the
\* spreads drawn from it all speak of the same sessions.
RatesPageAgrees(page) ==
    /\ \A l \in {x \in page.levels : x.available} :
         LET obs == store.rows[l.series]
             history == HistoricalSessionChanges(obs, ContextWindow)
         IN  /\ l.provenance # Null /\ l.chart[Len(l.chart)] = l.latest_date
             /\ l.latest_date =< page.as_of_date
             /\ \A w \in Windows : l.changes[w].available =>
                  /\ w < ChartSessions => l.chart[Len(l.chart) - w] = l.changes[w].from_date
                  /\ l.changes[w].change = l.latest_value - obs[l.changes[w].from_date]
             /\ l.changes[ContextWindow].available <=> history # <<>>
             /\ history # <<>> =>
                  /\ history[Len(history)].change = l.changes[ContextWindow].change
                  /\ l.historical_context.observation_count + 1 = Len(history)
                  /\ l.historical_context.below + 1 =< Len(history)
    /\ \A s \in page.spreads : s.available => s.spread = s.long_value - s.short_value
    /\ \A x \in RatesIntelligence(page) : x.visual_evidence[Len(x.visual_evidence)] = x.effective_period

\* domain/housing.py:94: the preceding figure is that of the published month
\* next to the latest, the year-ago one that of exactly twelve months before.
HousingFiguresAreNeighbours(obs, measure) ==
    measure.available =>
        /\ \A m \in Published(obs) : m =< measure.period
        /\ measure.previous.period = Null <=> Cardinality(Published(obs)) = 1
        /\ measure.previous.period # Null =>
             \A m \in Published(obs) : m > measure.previous.period <=> m = measure.period
        /\ measure.year_ago.period \in {Null, measure.period - YearMonths}
        /\ TrendMonths > 1 => {measure.previous.period} \ {Null} \subseteq measure.trend

\* The figures of the rates page and of the housing page are each drawn from
\* one set of stored observations: their parts cannot contradict each other.
PagesAgree ==
    /\ \A page \in {RatesPage} : RatesPageAgrees(page)
    /\ \A s \in HousingSeries : \A measure \in {HousingMeasure(store.rows[s])} :
         HousingFiguresAreNeighbours(store.rows[s], measure)
=============================================================================
