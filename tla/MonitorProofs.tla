---------------------------- MODULE MonitorProofs ----------------------------
(***************************************************************************)
(* Theorems about the check runs of the monitors, for any data, any answers   *)
(* and any number of sessions; and what their invariant says of what the      *)
(* monitors show: pages, replays, recaps, conclusions and durations.         *)
(***************************************************************************)
EXTENDS ReleaseIntelligence, SequenceTheorems, FiniteSetTheorems,
        WellFoundedInduction, TLAPS

\* The runs of an occurrence completed in the order of their ids, and a check that
\* is under way is alone with its occurrence and will complete it last.
MonitorInv ==
    /\ clock \in Nat
    /\ \E S : runs \in Seq(S)
    /\ \A i \in DOMAIN runs : runs[i].completed_at \in Nat /\ runs[i].completed_at =< clock
    /\ \A i, j \in DOMAIN runs :
         (i =< j /\ runs[i].release = runs[j].release) => runs[i].completed_at =< runs[j].completed_at
    /\ DOMAIN check = Workers
    /\ \A v, w \in Workers : (v # w /\ Live(v) /\ Live(w)) => check[v].release # check[w].release
    /\ \A w \in Workers : check[w].phase = "analysed" =>
         /\ check[w].completedAt \in Nat /\ check[w].completedAt =< clock
         /\ \A i \in DOMAIN runs :
              runs[i].release = check[w].release => runs[i].completed_at =< check[w].completedAt

LEMMA AppendedRun ==
    ASSUME NEW S, runs \in Seq(S), NEW run, runs' = Append(runs, run)
    PROVE  /\ \E T : runs' \in Seq(T)
           /\ Len(runs) \in Nat /\ DOMAIN runs = 1..Len(runs)
           /\ DOMAIN runs' = DOMAIN runs \cup {Len(runs) + 1}
           /\ \A i \in DOMAIN runs : runs'[i] = runs[i]
           /\ runs'[Len(runs) + 1] = run
<1> DEFINE T == S \cup {run}
<1>1. runs \in Seq(T) /\ run \in T
  OBVIOUS
<1> HIDE DEF T
<1>2. /\ runs' \in Seq(T) /\ Len(runs') = Len(runs) + 1
      /\ \A i \in 1..Len(runs) : runs'[i] = runs[i]
      /\ runs'[Len(runs) + 1] = run
  BY <1>1, AppendProperties
<1>3. DOMAIN runs' = 1..Len(runs') /\ DOMAIN runs = 1..Len(runs) /\ Len(runs) \in Nat
  BY <1>1, <1>2
<1> QED  BY <1>2, <1>3

\* A session keeps its occurrence, or takes one nobody is processing.
MayBecome(w, new) ==
    \/ new \in {Idle, Dead}
    \/ Live(w) /\ new.release = check[w].release
    \/ \A v \in Workers : Live(v) => check[v].release # new.release

\* A step of one session that leaves the runs alone.
LEMMA SessionStep ==
    ASSUME MonitorInv, NEW w \in Workers, NEW new, check' = [check EXCEPT ![w] = new],
           UNCHANGED runs, clock' \in Nat, clock' >= clock,
           MayBecome(w, new),
           new.phase = "analysed" => new.completedAt = clock'
    PROVE  MonitorInv'
<1>1. /\ DOMAIN check' = Workers /\ check'[w] = new
      /\ \A v \in Workers \ {w} : check'[v] = check[v]
  BY DEF MonitorInv
<1>2. \A v \in Workers \ {w} : Live(v)' <=> Live(v)
  BY <1>1 DEF Live
<1>3. ASSUME NEW u \in Workers, NEW v \in Workers, u # v, Live(u)', Live(v)'
      PROVE  check'[u].release # check'[v].release
  <2>1. CASE u # w /\ v # w
    BY <1>1, <1>2, <1>3, <2>1 DEF MonitorInv
  <2>2. CASE u = w
    BY <1>1, <1>2, <1>3, <2>2 DEF MonitorInv, Live, MayBecome
  <2>3. CASE v = w
    BY <1>1, <1>2, <1>3, <2>3 DEF MonitorInv, Live, MayBecome
  <2> QED  BY <2>1, <2>2, <2>3
<1>4. clock \in Nat /\ \A i \in DOMAIN runs : runs[i].completed_at \in Nat /\ runs[i].completed_at =< clock
  BY DEF MonitorInv
<1>5. ASSUME NEW v \in Workers, check'[v].phase = "analysed"
      PROVE  /\ check'[v].completedAt \in Nat /\ check'[v].completedAt =< clock'
             /\ \A i \in DOMAIN runs :
                  runs[i].release = check'[v].release => runs[i].completed_at =< check'[v].completedAt
  <2>1. CASE v = w
    BY <1>1, <1>4, <1>5, <2>1
  <2>2. CASE v # w
    BY <1>1, <1>4, <1>5, <2>2 DEF MonitorInv
  <2> QED  BY <2>1, <2>2
<1> QED  BY <1>1, <1>3, <1>4, <1>5 DEF MonitorInv

LEMMA CommitStep ==
    ASSUME MonitorInv, NEW w \in Workers, Commit(w) PROVE MonitorInv'
<1> DEFINE c == check[w]
<1>1. PICK run : /\ run.release = c.release /\ run.completed_at = c.completedAt
                 /\ runs' = Append(runs, run)
  BY DEF Commit, CheckRun
<1>2. PICK S : runs \in Seq(S)
  BY DEF MonitorInv
<1> DEFINE last == Len(runs) + 1
<1>3. /\ \E T : runs' \in Seq(T)
      /\ Len(runs) \in Nat /\ DOMAIN runs = 1..Len(runs)
      /\ DOMAIN runs' = DOMAIN runs \cup {last}
      /\ \A i \in DOMAIN runs : runs'[i] = runs[i]
      /\ runs'[last] = run
  BY <1>1, <1>2, AppendedRun
<1>4. /\ clock \in Nat /\ clock' = clock + 1
      /\ c.phase = "analysed" /\ check' = [check EXCEPT ![w] = Idle] /\ DOMAIN check = Workers
      /\ c.completedAt \in Nat /\ c.completedAt =< clock
      /\ \A i \in DOMAIN runs : runs[i].release = c.release => runs[i].completed_at =< c.completedAt
      /\ \A i \in DOMAIN runs : runs[i].completed_at \in Nat /\ runs[i].completed_at =< clock
  BY DEF Commit, MonitorInv
<1>5. /\ check'[w] = Idle /\ DOMAIN check' = Workers
      /\ \A v \in Workers \ {w} : check'[v] = check[v]
      /\ Live(w) /\ ~Live(w)' /\ \A v \in Workers \ {w} : Live(v)' <=> Live(v)
  BY <1>4 DEF Live, Idle, Dead
<1>6. \A i \in DOMAIN runs' : runs'[i].completed_at \in Nat /\ runs'[i].completed_at =< clock'
  BY <1>1, <1>3, <1>4
<1>7. ASSUME NEW i \in DOMAIN runs', NEW j \in DOMAIN runs', i =< j, runs'[i].release = runs'[j].release
      PROVE  runs'[i].completed_at =< runs'[j].completed_at
  <2>1. CASE i \in DOMAIN runs /\ j \in DOMAIN runs
    BY <1>3, <1>7, <2>1 DEF MonitorInv
  <2>2. CASE i \in DOMAIN runs /\ j = last
    BY <1>1, <1>3, <1>4, <1>7, <2>2
  <2>3. CASE i = last
    <3>1. j = last
      BY <1>3, <1>7, <2>3
    <3> QED  BY <1>6, <1>7, <2>3, <3>1
  <2> QED  BY <1>3, <1>7, <2>1, <2>2, <2>3
<1>8. ASSUME NEW u \in Workers, NEW v \in Workers, u # v, Live(u)', Live(v)'
      PROVE  check'[u].release # check'[v].release
  BY <1>5, <1>8 DEF MonitorInv
<1>9. ASSUME NEW v \in Workers, check'[v].phase = "analysed"
      PROVE  /\ check'[v].completedAt \in Nat /\ check'[v].completedAt =< clock'
             /\ \A i \in DOMAIN runs' :
                  runs'[i].release = check'[v].release => runs'[i].completed_at =< check'[v].completedAt
  <2>1. v # w /\ check'[v] = check[v] /\ Live(v)
    BY <1>5, <1>9 DEF Live, Idle, Dead
  <2>2. check[v].release # c.release
    BY <1>5, <2>1 DEF MonitorInv
  <2>3. /\ check[v].completedAt \in Nat /\ check[v].completedAt =< clock
        /\ \A i \in DOMAIN runs :
             runs[i].release = check[v].release => runs[i].completed_at =< check[v].completedAt
    BY <1>9, <2>1 DEF MonitorInv
  <2> QED  BY <1>1, <1>3, <1>4, <2>1, <2>2, <2>3
<1> QED  BY <1>3, <1>4, <1>5, <1>6, <1>7, <1>8, <1>9 DEF MonitorInv

LEMMA MonitorInvInductive ==
    /\ Init => MonitorInv
    /\ MonitorInv /\ [Next]_vars => MonitorInv'
<1>1. Init => MonitorInv
  <2> SUFFICES ASSUME Init PROVE MonitorInv
    OBVIOUS
  <2>1. runs = <<>> /\ clock = 0 /\ check = [w \in Workers |-> Idle]
    BY DEF Init
  <2>2. runs \in Seq({}) /\ DOMAIN runs = {}
    BY <2>1
  <2>3. \A w \in Workers : ~Live(w) /\ check[w].phase # "analysed"
    BY <2>1 DEF Live, Idle
  <2> QED  BY <2>1, <2>2, <2>3 DEF MonitorInv
<1>2. ASSUME MonitorInv, [Next]_vars PROVE MonitorInv'
  <2>1. clock \in Nat
    BY <1>2 DEF MonitorInv
  <2>2. ASSUME NEW w \in Workers, Classify(w) PROVE MonitorInv'
    <3>1. PICK new : /\ check' = [check EXCEPT ![w] = new] /\ new.phase = "classified"
                     /\ \A v \in Workers : Live(v) => check[v].release # new.release
      BY <2>2 DEF Classify
    <3>2. /\ clock' \in Nat /\ clock' >= clock /\ UNCHANGED runs
          /\ MayBecome(w, new) /\ new.phase # "analysed"
      BY <2>1, <2>2, <3>1 DEF Classify, MayBecome
    <3> QED  BY <1>2, <3>1, <3>2, SessionStep
  <2>7. ASSUME NEW w \in Workers, CaptureBefore(w) PROVE MonitorInv'
    <3> DEFINE new ==
          [phase |-> "captured", release |-> check[w].release, changes |-> check[w].changes,
           status |-> check[w].status, detectedAt |-> check[w].detectedAt, before |-> rows]
    <3>1. /\ check' = [check EXCEPT ![w] = new] /\ new.phase = "captured"
          /\ new.release = check[w].release
      BY <2>7 DEF CaptureBefore
    <3> HIDE DEF new
    <3>2. clock' = clock /\ runs' = runs /\ check[w].phase = "classified"
      BY <2>7 DEF CaptureBefore
    <3>3. Live(w)
      BY <3>2 DEF Live, Idle, Dead
    <3>4. /\ clock' \in Nat /\ clock' >= clock
          /\ MayBecome(w, new) /\ new.phase # "analysed"
      BY <2>1, <3>1, <3>2, <3>3 DEF MayBecome
    <3> QED  BY <1>2, <3>1, <3>2, <3>4, SessionStep
  <2>3. ASSUME NEW w \in Workers, Analyse(w) PROVE MonitorInv'
    <3> DEFINE new ==
          [phase |-> "analysed", release |-> check[w].release, changes |-> check[w].changes,
           status |-> check[w].status, detectedAt |-> check[w].detectedAt, before |-> check[w].before,
           after |-> WriteChanges(check[w].changes, rows), completedAt |-> clock + 1]
    <3>1. /\ check' = [check EXCEPT ![w] = new] /\ new.release = check[w].release
          /\ new.completedAt = clock + 1
      BY <2>3 DEF Analyse
    <3> HIDE DEF new
    <3>2. clock' = clock + 1 /\ UNCHANGED runs /\ Live(w)
      BY <2>3 DEF Analyse, Live, Idle, Dead
    <3>3. clock' \in Nat /\ clock' >= clock /\ MayBecome(w, new) /\ new.completedAt = clock'
      BY <2>1, <3>1, <3>2 DEF MayBecome
    <3> QED  BY <1>2, <3>1, <3>2, <3>3, SessionStep
  <2>4. ASSUME NEW w \in Workers, Commit(w) PROVE MonitorInv'
    BY <1>2, <2>4, CommitStep
  <2>5. ASSUME NEW w \in Workers, Abort(w) PROVE MonitorInv'
    <3>1. check' = [check EXCEPT ![w] = Dead] /\ UNCHANGED <<clock, runs>> /\ Dead.phase # "analysed"
      BY <2>5 DEF Abort, Dead
    <3>2. clock' \in Nat /\ clock' >= clock /\ MayBecome(w, Dead)
      BY <2>1, <3>1 DEF MayBecome
    <3> QED  BY <1>2, <3>1, <3>2, SessionStep
  <2>6. CASE ImportWrite \/ ImportCommit \/ UNCHANGED vars
    <3>1. UNCHANGED <<runs, check>> /\ clock' \in {clock, clock + 1}
      BY <2>6 DEF ImportWrite, ImportCommit, vars
    <3> QED  BY <1>2, <2>1, <3>1 DEF MonitorInv, Live
  <2> QED  BY <1>2, <2>2, <2>3, <2>4, <2>5, <2>6, <2>7 DEF Next
<1> QED  BY <1>1, <1>2

\* StatusIsOfTheLastCheck: whatever checks overlap, the status shown of an
\* occurrence is that of its last committed check.
THEOREM StatusIsCurrent == Spec => []StatusIsOfTheLastCheck
<1>1. MonitorInv => StatusIsOfTheLastCheck
  <2> SUFFICES ASSUME MonitorInv, NEW release \in Releases, NEW i \in RunsOf(release),
                      \A j \in RunsOf(release) : j =< i
               PROVE  PublicStatus(release) = StatusMap[runs[i].status]
    BY DEF StatusIsOfTheLastCheck
  <2> DEFINE Newest(k) == \A j \in RunsOf(release) :
                             \/ runs[j].completed_at < runs[k].completed_at
                             \/ runs[j].completed_at = runs[k].completed_at /\ j =< k
  <2>1. PICK S : runs \in Seq(S)
    BY DEF MonitorInv
  <2>2. DOMAIN runs = 1..Len(runs) /\ Len(runs) \in Nat
    BY <2>1
  <2>3. \A j \in RunsOf(release) : /\ j \in DOMAIN runs /\ j \in Nat /\ runs[j].completed_at \in Nat
                                   /\ runs[j].completed_at =< runs[i].completed_at
    BY <2>2 DEF MonitorInv, RunsOf
  <2>4. Newest(i)
    BY <2>3
  <2>5. \A k \in RunsOf(release) : Newest(k) => k = i
    BY <2>3
  <2>6. LatestRun(release) = (CHOOSE k \in RunsOf(release) : Newest(k))
    BY DEF LatestRun
  <2> HIDE DEF Newest
  <2>7. LatestRun(release) = i
    BY <2>4, <2>5, <2>6
  <2> QED  BY <2>7 DEF PublicStatus
<1> QED
  BY MonitorInvInductive, <1>1, PTL DEF Spec

\* EvidenceIsNeverHidden: no later check hides what an earlier one detected.
THEOREM EvidenceStays == Spec => EvidenceIsNeverHidden
<1> DEFINE Kept == \A release \in Releases :
      /\ DetectedEvidence(release).observations \subseteq DetectedEvidence(release).observations'
      /\ DetectedEvidence(release).analyses \subseteq DetectedEvidence(release).analyses'
<1>1. ASSUME MonitorInv, Next PROVE Kept
  <2>1. PICK S : runs \in Seq(S)
    BY <1>1 DEF MonitorInv
  <2>2. DOMAIN runs \subseteq DOMAIN runs' /\ \A i \in DOMAIN runs : runs'[i] = runs[i]
    <3>1. ASSUME NEW w \in Workers, Commit(w)
          PROVE  DOMAIN runs \subseteq DOMAIN runs' /\ \A i \in DOMAIN runs : runs'[i] = runs[i]
      <4>1. PICK run : runs' = Append(runs, run)
        BY <3>1 DEF Commit
      <4> QED  BY <2>1, <4>1, AppendedRun
    <3>2. ASSUME NEW w \in Workers, Classify(w) \/ CaptureBefore(w) \/ Analyse(w) \/ Abort(w)
          PROVE  UNCHANGED runs
      BY <3>2 DEF Classify, CaptureBefore, Analyse, Abort
    <3>3. CASE ImportWrite \/ ImportCommit
      BY <3>3 DEF ImportWrite, ImportCommit
    <3> QED  BY <1>1, <3>1, <3>2, <3>3 DEF Next
  <2>3. ASSUME NEW release PROVE RunsOf(release) \subseteq RunsOf(release)'
    BY <2>2 DEF RunsOf
  <2> SUFFICES ASSUME NEW release \in Releases
               PROVE  /\ DetectedEvidence(release).observations \subseteq DetectedEvidence(release).observations'
                      /\ DetectedEvidence(release).analyses \subseteq DetectedEvidence(release).analyses'
    OBVIOUS
  <2>4. \A i \in RunsOf(release) : i \in DOMAIN runs /\ runs'[i] = runs[i]
    BY <2>2 DEF RunsOf
  <2> QED  BY <2>3, <2>4 DEF DetectedEvidence, ObservationUpdatesOf, AnalysisUpdatesOf
<1>2. MonitorInv /\ [Next]_vars => [Kept]_vars
  BY <1>1
<1> QED
  BY MonitorInvInductive, <1>2, PTL DEF Spec, EvidenceIsNeverHidden

\* ------- versions
IsVersion(v) ==
    /\ v.series \in Series
    /\ v.from \in Nat /\ v.commit \in Nat
    /\ v.from =< v.commit /\ v.commit =< clock

SameObservation(u, v) == u.series = v.series /\ u.month = v.month

VersionsInv ==
    /\ \A v \in versions : IsVersion(v)
    /\ \A u, v \in versions :
         (SameObservation(u, v) /\ u # v) => u.commit < v.from \/ v.commit < u.from

OfSeries(s) == {v \in versions : v.series = s}

CommittedBy(vs, s, t) == {v \in vs : v.series = s /\ v.commit =< t}

RowsInv ==
    /\ rows = [s \in Series |-> rows[s]]
    /\ \A s \in Series : Observations(rows[s]) /\ rows[s] = ValuesOf(OfSeries(s))

ImportInv ==
    /\ import.phase \in {"none", "open", "done"}
    /\ import.phase = "open" =>
         /\ import.from \in Nat /\ import.from =< clock
         /\ \A v \in versions :
              (v.series = ImportRow.series /\ v.month = ImportRow.month) => v.commit < import.from

\* What a check found: one change for each observation, none of the importer's.
ChangesOf(release, changes) ==
    /\ release \in Eligible
    /\ \A d \in changes : d.series \in MappedSeries(release) /\ d.month \in Int
    /\ \A d \in changes : ~SameObservation(d, ImportRow)
    /\ \A d, e \in changes : SameObservation(d, e) => d = e
    /\ \A s \in Series : IsFiniteSet(ChangedMonths(changes, s))

\* A check under way: nothing of what it changed was committed since it classified
\* it, and it evaluates what it wrote over what had been committed by then.
SessionOK(c, vs, now) ==
    /\ c.phase \in {"classified", "captured", "analysed"}
    /\ ChangesOf(c.release, c.changes) /\ c.status \in CheckRunStatus
    /\ c.detectedAt \in Nat /\ c.detectedAt =< now
    /\ c.phase # "classified" =>
         DOMAIN c.before = Series /\ \A s \in Series : Observations(c.before[s])
    /\ \A d \in c.changes : \A v \in vs : SameObservation(v, d) => v.commit < c.detectedAt
    /\ c.phase = "analysed" =>
         /\ c.completedAt \in Nat /\ c.detectedAt =< c.completedAt /\ c.completedAt =< now
         /\ c.after = WriteChanges(c.changes, [s \in Series |-> ValuesOf(CommittedBy(vs, s, c.completedAt))])

CheckInv == \A w \in Workers : Live(w) => SessionOK(check[w], versions, clock)

\* What a result's check had: what was committed when it read, and what it wrote.
InputsOf(r, vs, s) ==
    {v \in vs : v.series = s /\ (v.commit =< r.read_at \/ v.commit = r.commit)}

ResultOK(r, vs, rs, now) ==
    /\ r.run \in DOMAIN rs /\ r.monitor \in Monitors /\ r.evaluation_period \in Int
    /\ r.calculated_at = rs[r.run].completed_at /\ r.read_at = r.calculated_at
    /\ r.calculated_at \in Nat /\ r.commit \in Nat
    /\ r.calculated_at < r.commit /\ r.commit =< now
    /\ \A v \in vs : v.commit = r.commit => v.from =< r.calculated_at
    /\ r.state = MonitorStateAt(r.monitor, [s \in Series |-> ValuesOf(InputsOf(r, vs, s))],
                                r.evaluation_period)
    /\ r.state # r.was =>
         \E e \in rs[r.run].analysis_updates : IsTier1(e) /\ MonitorForComponent(e.component) = r.monitor

ResultsInv ==
    /\ \E S : results \in Seq(S)
    /\ \A i \in DOMAIN results : ResultOK(results[i], versions, runs, clock)

RunsInv == \A i \in DOMAIN runs : runs[i].release \in Releases /\ runs[i].status \in CheckRunStatus

HistoryInv ==
    /\ VersionsInv /\ RowsInv /\ ImportInv
    /\ CheckInv /\ RunsInv /\ ResultsInv

\* N has one version, stamped at, of each month f gives a level for; K is older.
Levels(N, at, f) ==
    /\ \A v \in N : v.from = at /\ f[v.month] = v.value
    /\ \A u, v \in N : u.month = v.month => u = v
    /\ DOMAIN f = {v.month : v \in N}

Precede(K, N, at) ==
    /\ \A u \in K : u.from \in Nat
    /\ \A u \in K, v \in N : u.month = v.month => u.from < at

LEMMA NewestWins ==
    ASSUME NEW K, NEW N, NEW f, NEW at \in Nat, Levels(N, at, f), Precede(K, N, at)
    PROVE  ValuesOf(K \cup N) = Overlay(ValuesOf(K), f)
<1> DEFINE in(X, m) == {v \in X : v.month = m}
           months(X) == {v.month : v \in X}
<1>1. months(K \cup N) = months(K) \cup months(N)
  OBVIOUS
<1>2. DOMAIN ValuesOf(K) = months(K)
  BY DEF ValuesOf
<1>3. ASSUME NEW m \in months(N) PROVE LatestOf(in(K \cup N, m)).value = f[m]
  <2>1. PICK n \in N : n.month = m
    BY <1>3
  <2>2. \A u \in in(K \cup N, m) : u.from =< n.from
    BY <2>1 DEF Levels, Precede
  <2>3. \A u \in in(K \cup N, m) : (\A x \in in(K \cup N, m) : x.from =< u.from) => u = n
    BY <2>1 DEF Levels, Precede
  <2>4. n \in in(K \cup N, m)
    BY <2>1
  <2> HIDE DEF in
  <2>5. LatestOf(in(K \cup N, m)) = n
    BY <2>2, <2>3, <2>4 DEF LatestOf
  <2> QED  BY <2>1, <2>5 DEF Levels
<1>4. ASSUME NEW m \in months(K), m \notin months(N) PROVE in(K \cup N, m) = in(K, m)
  BY <1>4
<1> QED
  BY <1>1, <1>2, <1>3, <1>4 DEF ValuesOf, Overlay, Levels

\* The versions a check writes.
NewVersions(c) ==
    {[series |-> d.series, month |-> d.month, value |-> d.new,
      from |-> c.detectedAt, commit |-> clock + 1, backfilled |-> FALSE] : d \in c.changes}

Written(changes, s) ==
    [m \in ChangedMonths(changes, s) |-> (CHOOSE c \in changes : c.series = s /\ c.month = m).new]

LEMMA WrittenOnce ==
    ASSUME NEW release, NEW changes, ChangesOf(release, changes), NEW d \in changes
    PROVE  /\ d.month \in ChangedMonths(changes, d.series)
           /\ Written(changes, d.series)[d.month] = d.new
<1>1. d.month \in ChangedMonths(changes, d.series)
  BY DEF ChangedMonths
<1>2. \A e \in changes : (e.series = d.series /\ e.month = d.month) => e = d
  BY DEF ChangesOf, SameObservation
<1>3. (CHOOSE c \in changes : c.series = d.series /\ c.month = d.month) = d
  BY <1>2
<1> QED  BY <1>1, <1>3 DEF Written

\* N has a version, stamped at, of each change of s.
WritesOf(changes, s, N, at) ==
    /\ \A d \in changes : d.series = s => \E v \in N : v.month = d.month
    /\ \A v \in N : v.from = at /\ \E d \in changes : d.series = s /\ v.month = d.month /\ v.value = d.new
    /\ \A u, v \in N : u.month = v.month => u = v

LEMMA WrittenRows ==
    ASSUME NEW release, NEW changes, ChangesOf(release, changes), NEW s \in Series,
           NEW N, NEW at \in Nat, NEW K, NEW base, DOMAIN base = Series, base[s] = ValuesOf(K),
           WritesOf(changes, s, N, at), Precede(K, N, at)
    PROVE  WriteChanges(changes, base)[s] = ValuesOf(K \cup N)
<1> DEFINE f == Written(changes, s)
<1>1. DOMAIN f = {v.month : v \in N}
  BY DEF Written, ChangedMonths, WritesOf
<1>2. \A v \in N : f[v.month] = v.value
  BY WrittenOnce DEF WritesOf
<1>3. WriteChanges(changes, base)[s] = Overlay(base[s], f)
  BY DEF WriteChanges, Written
<1> HIDE DEF f
<1>4. Levels(N, at, f)
  BY <1>1, <1>2 DEF WritesOf, Levels
<1> QED  BY <1>3, <1>4, NewestWins

LEMMA OverlaidObservations ==
    ASSUME NEW f, NEW g, Observations(f), IsFiniteSet(DOMAIN g), DOMAIN g \subseteq Int
    PROVE  Observations(Overlay(f, g))
<1>1. DOMAIN Overlay(f, g) = DOMAIN f \cup DOMAIN g
  BY DEF Overlay
<1>2. IsFiniteSet(DOMAIN f \cup DOMAIN g)
  BY FS_Union DEF Observations
<1>3. Overlay(f, g) = [m \in DOMAIN Overlay(f, g) |-> Overlay(f, g)[m]]
  BY DEF Overlay
<1> QED  BY <1>1, <1>2, <1>3 DEF Observations

LEMMA WrittenObservations ==
    ASSUME NEW release, NEW changes, ChangesOf(release, changes), NEW base, DOMAIN base = Series,
           \A s \in Series : Observations(base[s])
    PROVE  /\ DOMAIN WriteChanges(changes, base) = Series
           /\ \A s \in Series : Observations(WriteChanges(changes, base)[s])
<1>1. DOMAIN WriteChanges(changes, base) = Series
  BY DEF WriteChanges
<1>2. ASSUME NEW s \in Series PROVE Observations(WriteChanges(changes, base)[s])
  <2>1. WriteChanges(changes, base)[s] = Overlay(base[s], Written(changes, s))
    BY DEF WriteChanges, Written
  <2>2. DOMAIN Written(changes, s) = ChangedMonths(changes, s)
    BY DEF Written
  <2>3. ChangedMonths(changes, s) \subseteq Int
    BY DEF ChangesOf, ChangedMonths
  <2> QED  BY <2>1, <2>2, <2>3, OverlaidObservations DEF ChangesOf
<1> QED  BY <1>1, <1>2

\* A strict total order.
Orders(R, S) ==
    /\ \A x \in S : <<x, x>> \notin R
    /\ \A x, y, z \in S : <<x, y>> \in R /\ <<y, z>> \in R => <<x, z>> \in R
    /\ \A x, y \in S : x # y => <<x, y>> \in R \/ <<y, x>> \in R

Before(R, S, x) == {y \in S : <<y, x>> \in R}

\* In a finite ordered set there is one element of each rank.
LEMMA Ranked ==
    ASSUME NEW S, IsFiniteSet(S), NEW R, Orders(R, S)
    PROVE  /\ Cardinality(S) \in Nat
           /\ \A x \in S : Cardinality(Before(R, S, x)) \in 0..(Cardinality(S) - 1)
           /\ \A x, y \in S : <<x, y>> \in R <=> Cardinality(Before(R, S, x)) < Cardinality(Before(R, S, y))
           /\ \A k \in 0..(Cardinality(S) - 1) : \E x \in S : Cardinality(Before(R, S, x)) = k
<1> DEFINE n == Cardinality(S)
           rank == [x \in S |-> Cardinality(Before(R, S, x))]
<1>1. n \in Nat
  BY FS_CardinalityType
<1>2. ASSUME NEW x \in S
      PROVE  /\ IsFiniteSet(Before(R, S, x)) /\ Cardinality(Before(R, S, x)) \in Nat
             /\ Cardinality(Before(R, S, x)) =< n - 1
  <2>1. IsFiniteSet(S \ {x}) /\ Cardinality(S \ {x}) = n - 1
    BY FS_RemoveElement
  <2>2. Before(R, S, x) \in SUBSET (S \ {x})
    BY DEF Before, Orders
  <2>3. IsFiniteSet(Before(R, S, x)) /\ Cardinality(Before(R, S, x)) =< n - 1
    BY <2>1, <2>2, FS_Subset
  <2> QED  BY <2>3, FS_CardinalityType
<1>3. ASSUME NEW x \in S, NEW y \in S, <<x, y>> \in R
      PROVE  Cardinality(Before(R, S, x)) < Cardinality(Before(R, S, y))
  <2>1. Before(R, S, x) \in SUBSET Before(R, S, y)
    BY <1>3 DEF Before, Orders
  <2>2. x \in Before(R, S, y) /\ x \notin Before(R, S, x)
    BY <1>3 DEF Before, Orders
  <2>3. /\ Cardinality(Before(R, S, x)) =< Cardinality(Before(R, S, y))
        /\ Cardinality(Before(R, S, x)) # Cardinality(Before(R, S, y))
    BY <1>2, <2>1, <2>2, FS_Subset
  <2> QED  BY <1>2, <2>3
<1>4. \A x, y \in S : <<x, y>> \in R <=> Cardinality(Before(R, S, x)) < Cardinality(Before(R, S, y))
  <2> SUFFICES ASSUME NEW x \in S, NEW y \in S, <<x, y>> \notin R
               PROVE  ~(Cardinality(Before(R, S, x)) < Cardinality(Before(R, S, y)))
    BY <1>3
  <2>1. x = y \/ <<y, x>> \in R
    BY DEF Orders
  <2> QED  BY <1>2, <1>3, <2>1
<1>5. rank \in Injection(S, 0..(n - 1))
  <2>1. rank \in [S -> 0..(n - 1)]
    BY <1>1, <1>2
  <2>2. \A x, y \in S : rank[x] = rank[y] => x = y
    <3> SUFFICES ASSUME NEW x \in S, NEW y \in S, x # y PROVE rank[x] # rank[y]
      OBVIOUS
    <3>1. <<x, y>> \in R \/ <<y, x>> \in R
      BY DEF Orders
    <3> QED  BY <1>2, <1>3, <3>1
  <2> QED  BY <2>1, <2>2 DEF Injection, IsInjective
<1>6. IsFiniteSet(0..(n - 1)) /\ Cardinality(0..(n - 1)) = n
  <2>1. 0 \in Int /\ n - 1 \in Int
    BY <1>1
  <2>2. IsFiniteSet(0..(n - 1)) /\ Cardinality(0..(n - 1)) = IF 0 > n - 1 THEN 0 ELSE (n - 1) - 0 + 1
    BY <2>1, FS_Interval
  <2> QED  BY <1>1, <2>2
<1>7. rank \in Surjection(S, 0..(n - 1))
  BY <1>5, <1>6, FS_Injection
<1>8. \A k \in 0..(n - 1) : \E x \in S : rank[x] = k
  BY <1>7 DEF Surjection
<1> QED  BY <1>1, <1>2, <1>4, <1>8

FillsRanks(R, S) == \A k \in 0..(Cardinality(S) - 1) : \E x \in S : Cardinality(Before(R, S, x)) = k

LEMMA RanksAreFilled ==
    ASSUME NEW S, IsFiniteSet(S), NEW R, Orders(R, S)
    PROVE  FillsRanks(R, S)
BY Ranked DEF FillsRanks

LEMMA ComponentsOf ==
    /\ ComponentsForSeries("PCEPILFE") = {"PRIMARY_MOMENTUM", "CONFIRMATION"}
    /\ ComponentsForSeries("CPILFESL") = {"CONFIRMATION"}
    /\ ComponentsForSeries("PCEPI") = {"TARGET", "HEADLINE_PCE"}
    /\ ComponentsForSeries("CPIAUCSL") = {"HEADLINE_CPI"}
    /\ \A s \in LaborSeries : ComponentsForSeries(s) = {}
BY DEF ComponentsForSeries, LaborSeries

LEMMA MappedReleases ==
    /\ Eligible \subseteq Releases
    /\ \A release \in Releases : MappedSeries(release) \subseteq Series
    /\ \A q, release \in Releases : q # release => MappedSeries(q) \cap MappedSeries(release) = {}
<1>1. Eligible \subseteq Releases
  BY AnswersAssumption
<1>2. /\ MappedSeries("CPI") = {"CPILFESL", "CPIAUCSL"}
      /\ MappedSeries("PIO") = {"PCEPI", "PCEPILFE"}
      /\ MappedSeries("ES") = {"PAYEMS", "UNRATE"}
  BY DEF MappedSeries
<1> QED  BY <1>1, <1>2 DEF Releases, Series, InflationSeries, LaborSeries

\* The months that lie k after some of M.
MonthsAfter(M, K) == {AddMonths(m, k) : m \in M, k \in K}

LEMMA Shifted ==
    ASSUME NEW M, IsFiniteSet(M), M \subseteq Int, NEW K, K \subseteq 0..14
    PROVE  IsFiniteSet(MonthsAfter(M, K)) /\ MonthsAfter(M, K) \subseteq Int
<1> DEFINE T == MonthsAfter(M, K)
           f == [pair \in M \X K |-> AddMonths(pair[1], pair[2])]
<1>1. IsFiniteSet(0..14)
  <2>1. 0 \in Int /\ 14 \in Int
    OBVIOUS
  <2> QED  BY <2>1, FS_Interval
<1>2. IsFiniteSet(K)
  BY <1>1, FS_Subset
<1>3. IsFiniteSet(M \X K)
  BY <1>2, FS_Product
<1>4. f \in Surjection(M \X K, T)
  <2>1. f \in [M \X K -> T]
    BY DEF MonthsAfter
  <2>2. ASSUME NEW t \in T PROVE \E pair \in M \X K : f[pair] = t
    <3>1. PICK m \in M, k \in K : t = AddMonths(m, k)
      BY DEF MonthsAfter
    <3>2. <<m, k>> \in M \X K /\ f[<<m, k>>] = t
      BY <3>1
    <3> QED  BY <3>2
  <2> QED  BY <2>1, <2>2 DEF Surjection
<1>5. T \subseteq Int
  BY DEF AddMonths, MonthsAfter
<1> QED  BY <1>3, <1>4, <1>5, FS_Surjection

\* The periods of which a check records a result.
LEMMA RecordedPeriods ==
    ASSUME NEW release, NEW changes, ChangesOf(release, changes), NEW before
    PROVE  /\ IsFiniteSet(InflationRecorded(changes, before)) /\ InflationRecorded(changes, before) \subseteq Int
           /\ IsFiniteSet(AffectedLaborPeriods(changes)) /\ AffectedLaborPeriods(changes) \subseteq Int
<1>1. \A s \in Series : IsFiniteSet(ChangedMonths(changes, s)) /\ ChangedMonths(changes, s) \subseteq Int
  BY DEF ChangesOf, ChangedMonths
<1>2. {"PCEPILFE", "PAYEMS", "UNRATE"} \subseteq Series
  BY DEF Series, InflationSeries, LaborSeries
<1> DEFINE reach(s, K) == MonthsAfter(ChangedMonths(changes, s), K)
<1>3. \A s \in Series, K \in SUBSET (0..14) : IsFiniteSet(reach(s, K)) /\ reach(s, K) \subseteq Int
  <2> SUFFICES ASSUME NEW s \in Series, NEW K \in SUBSET (0..14)
               PROVE  IsFiniteSet(reach(s, K)) /\ reach(s, K) \subseteq Int
    OBVIOUS
  <2> QED  BY <1>1, Shifted
<1>4. InflationRecorded(changes, before) \subseteq reach("PCEPILFE", AffectedHorizons)
  <2> SUFFICES ASSUME NEW p \in InflationRecorded(changes, before)
               PROVE  p \in reach("PCEPILFE", AffectedHorizons)
    OBVIOUS
  <2>1. PICK pair \in AffectedPairs(changes, before) : pair[1] = "PRIMARY_MOMENTUM" /\ pair[2] = p
    BY DEF InflationRecorded
  <2>2. PICK d \in changes :
           pair \in ComponentsForSeries(d.series) \X
             AffectedEvaluationPeriods(ChangedMonths(changes, d.series),
                                       ChangedMonths(changes, d.series) \cup DOMAIN before[d.series])
    BY <2>1 DEF AffectedPairs
  <2> DEFINE s == d.series
  <2>3. s = "PCEPILFE"
    <3>1. "PRIMARY_MOMENTUM" \in ComponentsForSeries(s) /\ s \in Series
      BY <2>1, <2>2, MappedReleases DEF ChangesOf
    <3> QED  BY <3>1, ComponentsOf DEF Series, InflationSeries
  <2>4. \A m \in ChangedMonths(changes, s) : AddMonths(m, 0) = m
    BY <1>1, <1>2, <2>3 DEF AddMonths
  <2>5. PICK m \in ChangedMonths(changes, s), k \in AffectedHorizons : p = AddMonths(m, k)
    <3>1. p \in AffectedEvaluationPeriods(ChangedMonths(changes, s), ChangedMonths(changes, s) \cup DOMAIN before[s])
      BY <2>1, <2>2
    <3> QED  BY <2>4, <3>1 DEF AffectedEvaluationPeriods, AffectedHorizons
  <2> QED  BY <2>3, <2>5 DEF MonthsAfter
<1>5. AffectedLaborPeriods(changes) = reach("PAYEMS", PayemsAffectedHorizons) \cup reach("UNRATE", UnrateAffectedHorizons)
  BY DEF AffectedLaborPeriods, LaborAffectedPeriods, PayemsAffectedPeriods, UnrateAffectedPeriods, MonthsAfter
<1>6. AffectedHorizons \in SUBSET (0..14) /\ PayemsAffectedHorizons \in SUBSET (0..14) /\ UnrateAffectedHorizons \in SUBSET (0..14)
  BY DEF AffectedHorizons, PayemsAffectedHorizons, UnrateAffectedHorizons
<1> HIDE DEF reach
<1>7. /\ IsFiniteSet(InflationRecorded(changes, before)) /\ InflationRecorded(changes, before) \subseteq Int
  BY <1>2, <1>3, <1>4, <1>6, FS_Subset
<1>8. IsFiniteSet(AffectedLaborPeriods(changes)) /\ AffectedLaborPeriods(changes) \subseteq Int
  BY <1>2, <1>3, <1>5, <1>6, FS_Union
<1> QED  BY <1>7, <1>8

LEMMA Ascends ==
    ASSUME NEW periods, IsFiniteSet(periods), periods \subseteq Int
    PROVE  /\ Cardinality(periods) \in Nat
           /\ Ascending(periods) \in [1..Cardinality(periods) -> periods]
<1> DEFINE R == {pair \in periods \X periods : pair[1] < pair[2]}
           n == Cardinality(periods)
<1>1. Orders(R, periods)
  BY DEF Orders
<1>2. \A p \in periods : Before(R, periods, p) = {q \in periods : q < p}
  BY DEF Before
<1> HIDE DEF R
<1>3. n \in Nat /\ \A k \in 0..(n - 1) : \E p \in periods : Cardinality({q \in periods : q < p}) = k
  <2>1. \A p \in periods : Cardinality(Before(R, periods, p)) = Cardinality({q \in periods : q < p})
    BY <1>2
  <2>2. /\ Cardinality(periods) \in Nat
        /\ \A k \in 0..(Cardinality(periods) - 1) :
             \E p \in periods : Cardinality(Before(R, periods, p)) = k
    <3> HIDE DEF n
    <3> QED  BY <1>1, Ranked, SMTT(30)
  <2>3. ASSUME NEW k \in 0..(n - 1) PROVE \E p \in periods : Cardinality({q \in periods : q < p}) = k
    <3>1. PICK p \in periods : Cardinality(Before(R, periods, p)) = k
      BY <2>2
    <3> QED  BY <2>1, <3>1
  <2> QED  BY <2>2, <2>3
<1>4. ASSUME NEW i \in 1..n
      PROVE  (CHOOSE p \in periods : Cardinality({q \in periods : q < p}) = i - 1) \in periods
  <2>1. i - 1 \in 0..(n - 1)
    BY <1>3
  <2>2. \E p \in periods : Cardinality({q \in periods : q < p}) = i - 1
    BY <1>3, <2>1
  <2> QED  BY <2>2
<1> QED  BY <1>3, <1>4 DEF Ascending

\* What a check records.
LEMMA Recordable ==
    ASSUME NEW c, ChangesOf(c.release, c.changes)
    PROVE  /\ \E T : RecordableResults(c) \in Seq(T)
           /\ \A i \in DOMAIN RecordableResults(c) :
                \/ \E p \in InflationRecorded(c.changes, c.before) :
                     p \in Int /\ RecordableResults(c)[i] = RecordedResult("inflation", p, c)
                \/ \E p \in AffectedLaborPeriods(c.changes) :
                     p \in Int /\ RecordableResults(c)[i] = RecordedResult("labor", p, c)
<1> DEFINE I == InflationRecorded(c.changes, c.before)
           L == AffectedLaborPeriods(c.changes)
           a == Ascending(I)
           b == Ascending(L)
           T == {RecordedResult("inflation", p, c) : p \in I} \cup {RecordedResult("labor", p, c) : p \in L}
           s == [i \in 1..Len(a) |-> RecordedResult("inflation", a[i], c)]
           t == [i \in 1..Len(b) |-> RecordedResult("labor", b[i], c)]
<1>1. I \subseteq Int /\ L \subseteq Int /\ IsFiniteSet(I) /\ IsFiniteSet(L)
  BY RecordedPeriods
<1>2. /\ Cardinality(I) \in Nat /\ a \in [1..Cardinality(I) -> I]
      /\ Cardinality(L) \in Nat /\ b \in [1..Cardinality(L) -> L]
  BY <1>1, Ascends
<1>3. a \in Seq(I) /\ b \in Seq(L)
  BY <1>2
<1> HIDE DEF I, L, a, b
<1>4. s \in Seq(T) /\ t \in Seq(T)
  BY <1>3
<1>5. RecordableResults(c) = s \o t
  BY DEF RecordableResults, I, L, a, b
<1> HIDE DEF s, t
<1>6. RecordableResults(c) \in Seq(T)
  BY <1>4, <1>5
<1>7. \A i \in DOMAIN RecordableResults(c) : RecordableResults(c)[i] \in T
  BY <1>6
<1> QED  BY <1>1, <1>6, <1>7 DEF I, L

\* What others commit later leaves a check and a result as they are.
LEMMA SessionStays ==
    ASSUME NEW c, NEW vs, NEW vs2, NEW now \in Nat, NEW now2 \in Nat, now =< now2,
           SessionOK(c, vs, now), vs \subseteq vs2,
           \A v \in vs2 \ vs : v.commit \in Nat /\ v.commit > now /\ \A d \in c.changes : ~SameObservation(v, d)
    PROVE  SessionOK(c, vs2, now2)
<1>1. \A d \in c.changes : \A v \in vs2 : SameObservation(v, d) => v.commit < c.detectedAt
  BY DEF SessionOK
<1>2. ASSUME c.phase = "analysed"
      PROVE  c.after = WriteChanges(c.changes, [s \in Series |-> ValuesOf(CommittedBy(vs2, s, c.completedAt))])
  <2>1. c.completedAt \in Nat /\ c.completedAt =< now
    BY <1>2 DEF SessionOK
  <2>2. \A s \in Series : CommittedBy(vs2, s, c.completedAt) = CommittedBy(vs, s, c.completedAt)
    BY <2>1 DEF CommittedBy
  <2>3. [s \in Series |-> ValuesOf(CommittedBy(vs2, s, c.completedAt))]
          = [s \in Series |-> ValuesOf(CommittedBy(vs, s, c.completedAt))]
    BY <2>2
  <2> QED  BY <1>2, <2>3 DEF SessionOK
<1> QED  BY <1>1, <1>2 DEF SessionOK

LEMMA ResultStays ==
    ASSUME NEW r, NEW vs, NEW vs2, NEW rs, NEW rs2, NEW now \in Nat, NEW now2 \in Nat, now =< now2,
           ResultOK(r, vs, rs, now), vs \subseteq vs2,
           \A v \in vs2 \ vs : v.commit \in Nat /\ v.commit > now,
           DOMAIN rs \subseteq DOMAIN rs2, \A i \in DOMAIN rs : rs2[i] = rs[i]
    PROVE  ResultOK(r, vs2, rs2, now2)
<1>1. \A s \in Series : InputsOf(r, vs2, s) = InputsOf(r, vs, s)
  BY DEF InputsOf, ResultOK
<1>2. [s \in Series |-> ValuesOf(InputsOf(r, vs2, s))] = [s \in Series |-> ValuesOf(InputsOf(r, vs, s))]
  BY <1>1
<1>3. \A v \in vs2 : v.commit = r.commit => v.from =< r.calculated_at
  BY DEF ResultOK
<1> QED  BY <1>2, <1>3 DEF ResultOK

\* A step of one session that commits nothing.
LEMMA NothingCommitted ==
    ASSUME HistoryInv, clock \in Nat, DOMAIN check = Workers,
           NEW w \in Workers, NEW new, check' = [check EXCEPT ![w] = new],
           UNCHANGED <<rows, versions, import, runs, results>>, clock' \in Nat, clock' >= clock,
           new \in {Idle, Dead} \/ SessionOK(new, versions, clock')
    PROVE  HistoryInv'
<1>1. VersionsInv' /\ RowsInv' /\ ImportInv' /\ RunsInv'
  <2>1. VersionsInv'
    BY DEF HistoryInv, VersionsInv, IsVersion
  <2>2. RowsInv'
    BY DEF HistoryInv, RowsInv, OfSeries
  <2>3. ImportInv'
    BY DEF HistoryInv, ImportInv
  <2>4. RunsInv'
    BY DEF HistoryInv, RunsInv
  <2> QED  BY <2>1, <2>2, <2>3, <2>4
<1>2. ASSUME NEW v \in Workers, Live(v)' PROVE SessionOK(check'[v], versions', clock')
  <2>1. CASE v = w
    BY <1>2, <2>1 DEF Live
  <2>2. CASE v # w
    <3>1. check'[v] = check[v] /\ Live(v)
      BY <1>2, <2>2 DEF Live
    <3>2. SessionOK(check[v], versions, clock)
      BY <3>1 DEF HistoryInv, CheckInv
    <3> QED  BY <3>1, <3>2, SessionStays
  <2> QED  BY <2>1, <2>2
<1>3. ASSUME NEW i \in DOMAIN results PROVE ResultOK(results[i], versions, runs, clock')
  <2>1. ResultOK(results[i], versions, runs, clock)
    BY DEF HistoryInv, ResultsInv
  <2> QED  BY <2>1, ResultStays
<1> QED  BY <1>1, <1>2, <1>3 DEF HistoryInv, CheckInv, ResultsInv

LEMMA ClassifyStep ==
    ASSUME MonitorInv, HistoryInv, NEW w \in Workers, Classify(w) PROVE HistoryInv'
<1>0. PICK release \in Eligible, answers \in UNION {Answers(r) : r \in Eligible} :
        /\ answers \in Answers(release)
        /\ check' = [check EXCEPT ![w] =
             [phase |-> "classified", release |-> release,
              changes |-> DetectedChanges(answers, rows),
              status |-> CheckStatus(answers, DetectedChanges(answers, rows)),
              detectedAt |-> clock + 1]]
  BY DEF Classify
<1>1. PICK new :
        /\ check' = [check EXCEPT ![w] = new]
        /\ new = [phase |-> "classified", release |-> release,
                  changes |-> DetectedChanges(answers, rows),
                  status |-> CheckStatus(answers, DetectedChanges(answers, rows)),
                  detectedAt |-> clock + 1]
  BY <1>0
<1>2. /\ clock \in Nat /\ clock' = clock + 1 /\ DOMAIN check = Workers
      /\ UNCHANGED <<rows, versions, import, runs, results>>
  BY DEF Classify, MonitorInv
<1> DEFINE read == {s \in DOMAIN answers : answers[s] # Failed}
           changes == DetectedChanges(answers, rows)
<1>3. /\ DOMAIN answers \subseteq MappedSeries(release)
      /\ \A s \in read : Observations(answers[s])
      /\ ImportRow.series \in read => ImportRow.month \notin DOMAIN answers[ImportRow.series]
  <2>1. /\ DOMAIN answers \subseteq MappedSeries(release)
        /\ \A s \in read : Observations(answers[s])
    BY <1>0, AnswersAssumption
  <2>2. ImportRow.series \in read =>
          ImportRow.month \in Int /\ \A m \in DOMAIN answers[ImportRow.series] : ImportRow.month < m
    BY <1>0, ImportAssumption
  <2> QED  BY <2>1, <2>2
<1>4. \A d \in changes : /\ d.series \in read /\ d.month \in DOMAIN answers[d.series]
                         /\ d = [series |-> d.series, month |-> d.month,
                                 previous |-> At(rows[d.series], d.month), new |-> answers[d.series][d.month],
                                 change |-> ClassifyObservationChange(d.month \in DOMAIN rows[d.series],
                                              At(rows[d.series], d.month), answers[d.series][d.month])]
  <2> SUFFICES ASSUME NEW d \in changes
               PROVE  /\ d.series \in read /\ d.month \in DOMAIN answers[d.series]
                      /\ d = [series |-> d.series, month |-> d.month,
                              previous |-> At(rows[d.series], d.month), new |-> answers[d.series][d.month],
                              change |-> ClassifyObservationChange(d.month \in DOMAIN rows[d.series],
                                           At(rows[d.series], d.month), answers[d.series][d.month])]
    OBVIOUS
  <2>1. PICK s \in read : d \in SeriesChanges(s, rows[s], answers[s])
    BY DEF DetectedChanges
  <2>2. PICK m \in DOMAIN answers[s] :
           d = [series |-> s, month |-> m, previous |-> At(rows[s], m), new |-> answers[s][m],
                change |-> ClassifyObservationChange(m \in DOMAIN rows[s], At(rows[s], m), answers[s][m])]
    BY <2>1 DEF SeriesChanges
  <2>3. d.series = s /\ d.month = m
    BY <2>2
  <2> QED  BY <2>2, <2>3
<1> HIDE DEF changes
<1>5. ChangesOf(release, changes)
  <2>1. \A d \in changes : d.series \in MappedSeries(release) /\ d.month \in Int
    BY <1>3, <1>4 DEF Observations
  <2>2. \A d \in changes : ~SameObservation(d, ImportRow)
    BY <1>3, <1>4 DEF SameObservation
  <2>3. \A d, e \in changes : SameObservation(d, e) => d = e
    BY <1>4 DEF SameObservation
  <2>4. ASSUME NEW s \in Series PROVE IsFiniteSet(ChangedMonths(changes, s))
    <3>1. CASE s \in read
      <4>1. ChangedMonths(changes, s) \in SUBSET DOMAIN answers[s]
        BY <1>4 DEF ChangedMonths
      <4> QED  BY <1>3, <3>1, <4>1, FS_Subset DEF Observations
    <3>2. CASE s \notin read
      <4>1. ChangedMonths(changes, s) = {}
        BY <1>4, <3>2 DEF ChangedMonths
      <4> QED  BY <4>1, FS_EmptySet
    <3> QED  BY <3>1, <3>2
  <2> QED  BY <2>1, <2>2, <2>3, <2>4 DEF ChangesOf
<1>6. CheckStatus(answers, changes) \in CheckRunStatus
  BY DEF CheckStatus, CheckRunStatus
<1>7. \A v \in versions : v.commit < clock + 1
  BY <1>2 DEF HistoryInv, VersionsInv, IsVersion
<1>8. SessionOK(new, versions, clock')
  <2>1. /\ new.phase = "classified" /\ new.release = release /\ new.changes = changes
        /\ new.status = CheckStatus(answers, changes) /\ new.detectedAt = clock + 1
    BY <1>1 DEF changes
  <2> QED  BY <1>2, <1>5, <1>6, <1>7, <2>1 DEF SessionOK
<1>9. clock' \in Nat /\ clock' >= clock
  BY <1>2
<1> QED  BY <1>1, <1>2, <1>8, <1>9, NothingCommitted

LEMMA CaptureStep ==
    ASSUME MonitorInv, HistoryInv, NEW w \in Workers, CaptureBefore(w) PROVE HistoryInv'
<1>1. PICK new : /\ check' = [check EXCEPT ![w] = new]
                 /\ new = [phase |-> "captured", release |-> check[w].release, changes |-> check[w].changes,
                           status |-> check[w].status, detectedAt |-> check[w].detectedAt, before |-> rows]
  BY DEF CaptureBefore
<1>2. /\ clock \in Nat /\ clock' = clock /\ DOMAIN check = Workers
      /\ UNCHANGED <<rows, versions, import, runs, results>> /\ check[w].phase = "classified"
  BY DEF CaptureBefore, MonitorInv
<1>3. Live(w)
  BY <1>2 DEF Live, Idle, Dead
<1>4. SessionOK(check[w], versions, clock)
  BY <1>3 DEF HistoryInv, CheckInv
<1>5. DOMAIN rows = Series /\ \A s \in Series : Observations(rows[s])
  BY DEF HistoryInv, RowsInv
<1>6. SessionOK(new, versions, clock')
  <2>1. /\ new.phase = "captured" /\ new.release = check[w].release /\ new.changes = check[w].changes
        /\ new.status = check[w].status /\ new.detectedAt = check[w].detectedAt /\ new.before = rows
    BY <1>1
  <2> QED  BY <1>2, <1>4, <1>5, <2>1 DEF SessionOK
<1>7. clock' \in Nat /\ clock' >= clock
  BY <1>2
<1> QED  BY <1>1, <1>2, <1>6, <1>7, NothingCommitted

LEMMA AnalyseStep ==
    ASSUME MonitorInv, HistoryInv, NEW w \in Workers, Analyse(w) PROVE HistoryInv'
<1>1. PICK new : /\ check' = [check EXCEPT ![w] = new]
                 /\ new = [phase |-> "analysed", release |-> check[w].release, changes |-> check[w].changes,
                           status |-> check[w].status, detectedAt |-> check[w].detectedAt,
                           before |-> check[w].before,
                           after |-> WriteChanges(check[w].changes, rows), completedAt |-> clock + 1]
  BY DEF Analyse
<1>2. /\ clock \in Nat /\ clock' = clock + 1 /\ DOMAIN check = Workers
      /\ UNCHANGED <<rows, versions, import, runs, results>> /\ check[w].phase = "captured"
  BY DEF Analyse, MonitorInv
<1>3. Live(w)
  BY <1>2 DEF Live, Idle, Dead
<1>4. SessionOK(check[w], versions, clock)
  BY <1>3 DEF HistoryInv, CheckInv
<1>5. rows = [s \in Series |-> ValuesOf(CommittedBy(versions, s, clock + 1))]
  <2>1. \A v \in versions : v.commit \in Nat /\ v.commit =< clock
    BY DEF HistoryInv, VersionsInv, IsVersion
  <2>2. \A s \in Series : CommittedBy(versions, s, clock + 1) = OfSeries(s)
    BY <1>2, <2>1 DEF CommittedBy, OfSeries
  <2>3. rows = [s \in Series |-> rows[s]] /\ \A s \in Series : rows[s] = ValuesOf(CommittedBy(versions, s, clock + 1))
    BY <2>2 DEF HistoryInv, RowsInv
  <2> QED  BY <2>3
<1>6. SessionOK(new, versions, clock')
  <2>1. /\ new.phase = "analysed" /\ new.release = check[w].release /\ new.changes = check[w].changes
        /\ new.status = check[w].status /\ new.detectedAt = check[w].detectedAt
        /\ new.before = check[w].before
        /\ new.after = WriteChanges(check[w].changes, rows) /\ new.completedAt = clock + 1
    BY <1>1
  <2>2. check[w].detectedAt \in Nat /\ check[w].detectedAt =< clock
    BY <1>4 DEF SessionOK
  <2> QED  BY <1>2, <1>4, <1>5, <2>1, <2>2 DEF SessionOK
<1>7. clock' \in Nat /\ clock' >= clock
  BY <1>2
<1> QED  BY <1>1, <1>2, <1>6, <1>7, NothingCommitted

\* A field that differs is told, whichever side is missing.
LEMMA FieldTold ==
    ASSUME NEW component, NEW field, NEW type, NEW missing, NEW previous, NEW current, NEW periods,
           previous # current
    PROVE  \E e \in FieldEvents(component, field, type, missing, previous, current, periods) :
             /\ e.component = component /\ e.field = field /\ e.current_period = periods[2]
             /\ e.event_type \in {type, "AVAILABILITY_LOST", "AVAILABILITY_RESTORED"}
<1> DEFINE told(t) == Event(component, t, field, previous, current, periods)
           events == FieldEvents(component, field, type, missing, previous, current, periods)
<1>1. \A t : /\ told(t).component = component /\ told(t).field = field
             /\ told(t).current_period = periods[2] /\ told(t).event_type = t
  BY DEF Event
<1>2. events \in {{told(type)}, {told("AVAILABILITY_LOST")}, {told("AVAILABILITY_RESTORED")}}
  BY DEF FieldEvents
<1> HIDE DEF told
<1> QED  BY <1>1, <1>2

LEMMA AnalysesTold ==
    ASSUME NEW changes, NEW before, NEW after
    PROVE  /\ \A pair \in AffectedPairs(changes, before) :
                DiffComponentAt(pair[1], pair[2], before, after) \subseteq AnalysisUpdates(changes, before, after)
           /\ \A p \in AffectedLaborPeriods(changes) :
                DiffLaborAt(p, before, after) \subseteq AnalysisUpdates(changes, before, after)
BY DEF AnalysisUpdates

LEMMA StateTold ==
    ASSUME NEW changes, NEW before, NEW after, NEW p \in Int
    PROVE  /\ (/\ p \in InflationRecorded(changes, before)
               /\ MonitorStateAt("inflation", before, p) # MonitorStateAt("inflation", after, p))
              => \E e \in AnalysisUpdates(changes, before, after) :
                   IsTier1(e) /\ MonitorForComponent(e.component) = "inflation"
           /\ (/\ p \in AffectedLaborPeriods(changes)
               /\ MonitorStateAt("labor", before, p) # MonitorStateAt("labor", after, p))
              => \E e \in AnalysisUpdates(changes, before, after) :
                   IsTier1(e) /\ MonitorForComponent(e.component) = "labor"
<1>1. MonitorForComponent("PRIMARY_MOMENTUM") = "inflation" /\ MonitorForComponent("LABOR") = "labor"
  BY DEF MonitorForComponent, InflationComponents, LaborComponents
<1>2. ASSUME p \in InflationRecorded(changes, before),
             MonitorStateAt("inflation", before, p) # MonitorStateAt("inflation", after, p)
      PROVE  \E e \in AnalysisUpdates(changes, before, after) :
               IsTier1(e) /\ MonitorForComponent(e.component) = "inflation"
  <2> DEFINE b == EvaluateComponentAt(before, "PRIMARY_MOMENTUM", p)
             a == EvaluateComponentAt(after, "PRIMARY_MOMENTUM", p)
  <2>1. b.state # a.state
    BY <1>2 DEF MonitorStateAt
  <2>2. PICK e \in FieldEvents("PRIMARY_MOMENTUM", "state", "STATE_CHANGED", "INSUFFICIENT_DATA",
                               b.state, a.state, <<p, p>>) :
          /\ e.component = "PRIMARY_MOMENTUM" /\ e.field = "state"
          /\ e.event_type \in {"STATE_CHANGED", "AVAILABILITY_LOST", "AVAILABILITY_RESTORED"}
    BY <2>1, FieldTold
  <2>3. e \in DiffComponentAt("PRIMARY_MOMENTUM", p, before, after)
    <3>1. DiffComponentAt("PRIMARY_MOMENTUM", p, before, after)
            = MomentumEvents("PRIMARY_MOMENTUM", b, a, <<p, p>>)
      BY DEF DiffComponentAt
    <3>2. p # Null
      BY NullAssumption
    <3> HIDE DEF b, a
    <3> QED  BY <2>2, <3>1, <3>2 DEF MomentumEvents, StateEvents
  <2>4. PICK pair \in AffectedPairs(changes, before) : pair[1] = "PRIMARY_MOMENTUM" /\ pair[2] = p
    BY <1>2 DEF InflationRecorded
  <2>5. e \in AnalysisUpdates(changes, before, after)
    BY <2>3, <2>4, AnalysesTold
  <2> QED  BY <1>1, <2>2, <2>5 DEF IsTier1, Tier1EventTypes
<1>3. ASSUME p \in AffectedLaborPeriods(changes),
             MonitorStateAt("labor", before, p) # MonitorStateAt("labor", after, p)
      PROVE  \E e \in AnalysisUpdates(changes, before, after) :
               IsTier1(e) /\ MonitorForComponent(e.component) = "labor"
  <2> DEFINE b == EvaluateLaborAt(before, p)
             a == EvaluateLaborAt(after, p)
  <2>1. b.state # a.state
    BY <1>3 DEF MonitorStateAt
  <2>2. PICK e \in FieldEvents("LABOR", "state", "STATE_CHANGED", "INSUFFICIENT_DATA",
                               b.state, a.state, <<p, p>>) :
          /\ e.component = "LABOR" /\ e.field = "state"
          /\ e.event_type \in {"STATE_CHANGED", "AVAILABILITY_LOST", "AVAILABILITY_RESTORED"}
    BY <2>1, FieldTold
  <2>3. e \in DiffLaborAt(p, before, after)
    BY <2>2 DEF DiffLaborAt, LaborEvents, LaborStateEvents, StateEvents
  <2>4. e \in AnalysisUpdates(changes, before, after)
    BY <1>3, <2>3, AnalysesTold
  <2> QED  BY <1>1, <2>2, <2>4 DEF IsTier1, Tier1EventTypes
<1> QED  BY <1>2, <1>3

\* The versions of one check's changes, and those of another observation.
LEMMA NewVersionsOf ==
    ASSUME NEW c, ChangesOf(c.release, c.changes), clock \in Nat,
           c.detectedAt \in Nat, c.detectedAt =< clock
    PROVE  /\ \A v \in NewVersions(c) :
                /\ \E d \in c.changes : v.series = d.series /\ v.month = d.month /\ v.value = d.new
                /\ v.series \in Series /\ v.from = c.detectedAt /\ v.commit = clock + 1
           /\ \A d \in c.changes : \E v \in NewVersions(c) : v.series = d.series /\ v.month = d.month
           /\ \A u, v \in NewVersions(c) : SameObservation(u, v) => u = v
<1>1. \A d \in c.changes : d.series \in Series
  BY MappedReleases DEF ChangesOf
<1>2. \A u, v \in NewVersions(c) : SameObservation(u, v) => u = v
  <2> SUFFICES ASSUME NEW u \in NewVersions(c), NEW v \in NewVersions(c), SameObservation(u, v)
               PROVE  u = v
    OBVIOUS
  <2>1. PICK d \in c.changes :
          u = [series |-> d.series, month |-> d.month, value |-> d.new,
               from |-> c.detectedAt, commit |-> clock + 1, backfilled |-> FALSE]
    BY DEF NewVersions
  <2>2. PICK e \in c.changes :
          v = [series |-> e.series, month |-> e.month, value |-> e.new,
               from |-> c.detectedAt, commit |-> clock + 1, backfilled |-> FALSE]
    BY DEF NewVersions
  <2>3. d = e
    BY <2>1, <2>2 DEF SameObservation, ChangesOf
  <2> QED  BY <2>1, <2>2, <2>3
<1>3. ASSUME NEW d \in c.changes PROVE \E v \in NewVersions(c) : v.series = d.series /\ v.month = d.month
  <2> DEFINE v == [series |-> d.series, month |-> d.month, value |-> d.new,
                   from |-> c.detectedAt, commit |-> clock + 1, backfilled |-> FALSE]
  <2>1. v \in NewVersions(c) /\ v.series = d.series /\ v.month = d.month
    BY DEF NewVersions
  <2> QED  BY <2>1
<1>4. ASSUME NEW v \in NewVersions(c)
      PROVE  /\ \E d \in c.changes : v.series = d.series /\ v.month = d.month /\ v.value = d.new
             /\ v.series \in Series /\ v.from = c.detectedAt /\ v.commit = clock + 1
  BY <1>1 DEF NewVersions
<1> QED  BY <1>2, <1>3, <1>4

LEMMA CommitHistory ==
    ASSUME MonitorInv, HistoryInv, NEW w \in Workers, Commit(w) PROVE HistoryInv'
<1> DEFINE c == check[w]
           N == NewVersions(c)
<1>1. /\ clock \in Nat /\ clock' = clock + 1 /\ DOMAIN check = Workers
      /\ c.phase = "analysed" /\ check' = [check EXCEPT ![w] = Idle]
      /\ rows' = WriteChanges(c.changes, rows) /\ versions' = versions \cup N
      /\ runs' = Append(runs, CheckRun(c)) /\ results' = results \o RecordableResults(c)
      /\ UNCHANGED import
  BY DEF Commit, MonitorInv, NewVersions
<1>2. Live(w)
  BY <1>1 DEF Live, Idle, Dead
<1>3. SessionOK(c, versions, clock)
  BY <1>2 DEF HistoryInv, CheckInv
<1>4. /\ ChangesOf(c.release, c.changes) /\ c.status \in CheckRunStatus
      /\ c.detectedAt \in Nat /\ c.detectedAt =< c.completedAt
      /\ c.completedAt \in Nat /\ c.completedAt =< clock
      /\ \A d \in c.changes : \A v \in versions : SameObservation(v, d) => v.commit < c.detectedAt
      /\ c.after = WriteChanges(c.changes, [s \in Series |-> ValuesOf(CommittedBy(versions, s, c.completedAt))])
  BY <1>1, <1>3 DEF SessionOK
<1>5. /\ \A v \in N : /\ \E d \in c.changes : v.series = d.series /\ v.month = d.month /\ v.value = d.new
                      /\ v.series \in Series /\ v.from = c.detectedAt /\ v.commit = clock + 1
      /\ \A d \in c.changes : \E v \in N : v.series = d.series /\ v.month = d.month
      /\ \A u, v \in N : SameObservation(u, v) => u = v
  BY <1>1, <1>4, NewVersionsOf
<1> HIDE DEF N
<1>6. \A v \in versions : IsVersion(v) /\ v.commit \in Nat /\ v.from \in Nat /\ v.from =< v.commit /\ v.commit =< clock
  BY DEF HistoryInv, VersionsInv, IsVersion
<1>7. \A v \in versions' \ versions : v \in N /\ v.commit \in Nat /\ v.commit > clock
  BY <1>1, <1>5
<1>8. \A u \in versions, v \in N : SameObservation(u, v) => u.commit < v.from
  <2> SUFFICES ASSUME NEW u \in versions, NEW v \in N, SameObservation(u, v) PROVE u.commit < v.from
    OBVIOUS
  <2>1. PICK d \in c.changes : v.series = d.series /\ v.month = d.month
    BY <1>5
  <2> QED  BY <1>4, <1>5, <2>1 DEF SameObservation
<1>9. VersionsInv'
  <2>1. \A v \in versions' : IsVersion(v)'
    BY <1>1, <1>4, <1>5, <1>6 DEF IsVersion
  <2>2. ASSUME NEW u \in versions', NEW v \in versions', SameObservation(u, v), u # v
        PROVE  u.commit < v.from \/ v.commit < u.from
    <3>1. CASE u \in versions /\ v \in versions
      BY <2>2, <3>1 DEF HistoryInv, VersionsInv
    <3>2. CASE u \in N /\ v \in N
      BY <1>5, <2>2, <3>2
    <3>3. CASE u \in versions /\ v \in N
      BY <1>8, <2>2, <3>3
    <3>4. CASE u \in N /\ v \in versions
      BY <1>8, <2>2, <3>4 DEF SameObservation
    <3> QED  BY <1>1, <3>1, <3>2, <3>3, <3>4
  <2> QED  BY <2>1, <2>2 DEF VersionsInv
\* What the check's own versions do to a series written so far.
<1>10. ASSUME NEW s \in Series, NEW K \in SUBSET versions, \A v \in K : v.series = s,
              NEW base, DOMAIN base = Series, base[s] = ValuesOf(K)
       PROVE  WriteChanges(c.changes, base)[s] = ValuesOf(K \cup {v \in N : v.series = s})
  <2> DEFINE Ns == {v \in N : v.series = s}
  <2>1. \A d \in c.changes : d.series = s => \E v \in Ns : v.month = d.month
    BY <1>5
  <2>2. \A v \in Ns : v.from = c.detectedAt
          /\ \E d \in c.changes : d.series = s /\ v.month = d.month /\ v.value = d.new
    BY <1>5
  <2>3. \A u, v \in Ns : u.month = v.month => u = v
    BY <1>5 DEF SameObservation
  <2>4. \A u \in K : u.from \in Nat
    BY <1>6
  <2>5. \A u \in K, v \in Ns : u.month = v.month => u.from < c.detectedAt
    <3> SUFFICES ASSUME NEW u \in K, NEW v \in Ns, u.month = v.month PROVE u.from < c.detectedAt
      OBVIOUS
    <3>1. u.commit < v.from /\ v.from = c.detectedAt
      BY <1>5, <1>8, <1>10 DEF SameObservation
    <3> QED  BY <1>4, <1>6, <3>1
  <2> HIDE DEF Ns
  <2>6. WriteChanges(c.changes, base)[s] = ValuesOf(K \cup Ns)
    <3>1. WritesOf(c.changes, s, Ns, c.detectedAt)
      BY <2>1, <2>2, <2>3 DEF WritesOf
    <3>2. Precede(K, Ns, c.detectedAt)
      BY <2>4, <2>5 DEF Precede
    <3> QED  BY <1>4, <1>10, <3>1, <3>2, WrittenRows
  <2> QED  BY <2>6 DEF Ns
<1>11. RowsInv'
  <2>1. rows = [s \in Series |-> rows[s]] /\ \A s \in Series : Observations(rows[s]) /\ rows[s] = ValuesOf(OfSeries(s))
    BY DEF HistoryInv, RowsInv
  <2>2. DOMAIN rows = Series
    BY <2>1
  <2>3. DOMAIN rows' = Series /\ \A s \in Series : Observations(rows'[s])
    BY <1>1, <1>4, <2>1, <2>2, WrittenObservations
  <2>4. rows' = [s \in Series |-> rows'[s]]
    BY <1>1, <2>2 DEF WriteChanges
  <2>5. ASSUME NEW s \in Series PROVE rows'[s] = ValuesOf(OfSeries(s)')
    <3>1. OfSeries(s)' = OfSeries(s) \cup {v \in N : v.series = s}
      BY <1>1 DEF OfSeries
    <3>2. OfSeries(s) \in SUBSET versions /\ \A v \in OfSeries(s) : v.series = s
      BY DEF OfSeries
    <3>3. rows'[s] = ValuesOf(OfSeries(s) \cup {v \in N : v.series = s})
      BY <1>1, <1>10, <2>1, <2>2, <3>2
    <3> QED  BY <3>1, <3>3
  <2> QED  BY <2>3, <2>4, <2>5 DEF RowsInv
<1>12. ImportInv'
  <2> SUFFICES ASSUME import.phase = "open"
               PROVE  /\ import.from \in Nat /\ import.from =< clock'
                      /\ \A v \in versions' :
                           (v.series = ImportRow.series /\ v.month = ImportRow.month) => v.commit < import.from
    BY <1>1 DEF ImportInv, HistoryInv
  <2>1. \A v \in N : ~(v.series = ImportRow.series /\ v.month = ImportRow.month)
    BY <1>4, <1>5 DEF ChangesOf, SameObservation
  <2> QED  BY <1>1, <2>1 DEF ImportInv, HistoryInv
<1>13. CheckInv'
  <2> SUFFICES ASSUME NEW v \in Workers, Live(v)' PROVE SessionOK(check'[v], versions', clock')
    BY DEF CheckInv
  <2>1. v # w /\ check'[v] = check[v] /\ Live(v)
    BY <1>1 DEF Live
  <2>2. SessionOK(check[v], versions, clock)
    BY <2>1 DEF HistoryInv, CheckInv
  <2>3. check[v].release # c.release
    BY <1>2, <2>1 DEF MonitorInv
  <2>4. ChangesOf(check[v].release, check[v].changes)
    BY <2>2 DEF SessionOK
  <2>5. \A d \in check[v].changes, e \in c.changes : d.series # e.series
    BY <1>4, <2>3, <2>4, MappedReleases DEF ChangesOf
  <2>6. \A u \in versions' \ versions : \A d \in check[v].changes : ~SameObservation(u, d)
    BY <1>5, <1>7, <2>5 DEF SameObservation
  <2>7. versions \subseteq versions' /\ clock' \in Nat /\ clock =< clock'
    BY <1>1
  <2> QED  BY <1>1, <1>7, <2>1, <2>2, <2>6, <2>7, SessionStays
<1>14. PICK S : runs \in Seq(S)
  BY DEF MonitorInv
<1> DEFINE last == Len(runs) + 1
<1>15. /\ Len(runs) \in Nat /\ DOMAIN runs = 1..Len(runs)
       /\ DOMAIN runs' = DOMAIN runs \cup {last}
       /\ \A i \in DOMAIN runs : runs'[i] = runs[i]
       /\ runs'[last] = CheckRun(c)
  BY <1>1, <1>14, AppendedRun
<1>16. RunsInv'
  <2>1. CheckRun(c).release \in Releases /\ CheckRun(c).status \in CheckRunStatus
    BY <1>4, MappedReleases DEF CheckRun, ChangesOf
  <2> QED  BY <1>15, <2>1 DEF RunsInv, HistoryInv
<1>17. ASSUME NEW monitor \in Monitors, NEW p \in Int,
              \/ monitor = "inflation" /\ p \in InflationRecorded(c.changes, c.before)
              \/ monitor = "labor" /\ p \in AffectedLaborPeriods(c.changes)
       PROVE  ResultOK(RecordedResult(monitor, p, c), versions', runs', clock')
  <2> DEFINE r == RecordedResult(monitor, p, c)
  <2>1. /\ r.run = last /\ r.monitor = monitor /\ r.evaluation_period = p
        /\ r.state = MonitorStateAt(monitor, c.after, p) /\ r.calculated_at = c.completedAt
        /\ r.was = MonitorStateAt(monitor, c.before, p)
        /\ r.read_at = c.completedAt /\ r.commit = clock + 1
    BY DEF RecordedResult
  <2> HIDE DEF r
  <2>2. /\ runs'[last].completed_at = c.completedAt
        /\ runs'[last].analysis_updates = AnalysisUpdates(c.changes, c.before, c.after)
    BY <1>15 DEF CheckRun
  <2>3. \A v \in versions' : v.commit = r.commit => v.from =< r.calculated_at
    BY <1>1, <1>4, <1>5, <1>6, <2>1
  <2>4. c.after = [s \in Series |-> ValuesOf(InputsOf(r, versions', s))]
    <3> DEFINE base == [s \in Series |-> ValuesOf(CommittedBy(versions, s, c.completedAt))]
    <3>1. ASSUME NEW s \in Series PROVE c.after[s] = ValuesOf(InputsOf(r, versions', s))
      <4>1. InputsOf(r, versions', s) = CommittedBy(versions, s, c.completedAt) \cup {v \in N : v.series = s}
        BY <1>1, <1>4, <1>5, <1>6, <2>1 DEF InputsOf, CommittedBy
      <4>2. /\ CommittedBy(versions, s, c.completedAt) \in SUBSET versions
            /\ \A v \in CommittedBy(versions, s, c.completedAt) : v.series = s
        BY DEF CommittedBy
      <4>3. DOMAIN base = Series /\ base[s] = ValuesOf(CommittedBy(versions, s, c.completedAt))
        OBVIOUS
      <4> QED  BY <1>4, <1>10, <4>1, <4>2, <4>3
    <3>2. c.after = [s \in Series |-> c.after[s]]
      BY <1>4 DEF WriteChanges
    <3> QED  BY <3>1, <3>2
  <2>5. r.state # r.was => \E e \in runs'[last].analysis_updates :
          IsTier1(e) /\ MonitorForComponent(e.component) = r.monitor
    BY <1>17, <2>1, <2>2, StateTold
  <2>6. last \in DOMAIN runs' /\ r.calculated_at < r.commit /\ r.commit \in Nat /\ r.commit =< clock'
    BY <1>1, <1>4, <1>15, <2>1
  <2>7. ResultOK(r, versions', runs', clock')
    BY <1>4, <2>1, <2>2, <2>3, <2>4, <2>5, <2>6 DEF ResultOK
  <2> QED  BY <2>7 DEF r
<1>18. ResultsInv'
  <2> DEFINE more == RecordableResults(c)
  <2>1. PICK T : results \in Seq(T)
    BY DEF HistoryInv, ResultsInv
  <2>2. PICK U : more \in Seq(U)
    BY <1>4, Recordable
  <2>3. \A i \in DOMAIN more : ResultOK(more[i], versions', runs', clock')
    <3> SUFFICES ASSUME NEW i \in DOMAIN more PROVE ResultOK(more[i], versions', runs', clock')
      OBVIOUS
    <3>1. \/ \E p \in InflationRecorded(c.changes, c.before) :
               p \in Int /\ more[i] = RecordedResult("inflation", p, c)
          \/ \E p \in AffectedLaborPeriods(c.changes) :
               p \in Int /\ more[i] = RecordedResult("labor", p, c)
      BY <1>4, Recordable
    <3>2. "inflation" \in Monitors /\ "labor" \in Monitors
      BY DEF Monitors
    <3> QED  BY <1>17, <3>1, <3>2
  <2>4. \A i \in DOMAIN results : ResultOK(results[i], versions', runs', clock')
    <3> SUFFICES ASSUME NEW i \in DOMAIN results PROVE ResultOK(results[i], versions', runs', clock')
      OBVIOUS
    <3>1. ResultOK(results[i], versions, runs, clock)
      BY DEF HistoryInv, ResultsInv
    <3>2. versions \subseteq versions' /\ clock' \in Nat /\ clock =< clock' /\ DOMAIN runs \subseteq DOMAIN runs'
      BY <1>1, <1>15
    <3> QED  BY <1>1, <1>7, <1>15, <3>1, <3>2, ResultStays
  <2>5. results \in Seq(T \cup U) /\ more \in Seq(T \cup U)
    BY <2>1, <2>2
  <2> HIDE DEF more
  <2>6. /\ results' \in Seq(T \cup U) /\ Len(results') = Len(results) + Len(more)
        /\ \A i \in 1..Len(results') :
             results'[i] = IF i =< Len(results) THEN results[i] ELSE more[i - Len(results)]
    BY <1>1, <2>5, ConcatProperties DEF more
  <2>7. ASSUME NEW i \in DOMAIN results' PROVE ResultOK(results'[i], versions', runs', clock')
    <3>1. Len(results) \in Nat /\ Len(more) \in Nat /\ i \in 1..(Len(results) + Len(more))
          /\ DOMAIN results = 1..Len(results) /\ DOMAIN more = 1..Len(more)
      BY <2>5, <2>6
    <3>2. CASE i =< Len(results)
      BY <2>4, <2>6, <3>1, <3>2
    <3>3. CASE ~(i =< Len(results))
      <4>1. i - Len(results) \in DOMAIN more
        BY <3>1, <3>3
      <4> QED  BY <2>3, <2>6, <3>1, <3>3, <4>1
    <3> QED  BY <3>2, <3>3
  <2> QED  BY <2>6, <2>7 DEF ResultsInv
<1> QED  BY <1>9, <1>11, <1>12, <1>13, <1>16, <1>18 DEF HistoryInv

LEMMA ImportHistory ==
    ASSUME MonitorInv, HistoryInv, ImportWrite \/ ImportCommit PROVE HistoryInv'
<1>1. clock \in Nat /\ clock' = clock + 1 /\ UNCHANGED <<check, runs, results>>
  BY DEF ImportWrite, ImportCommit, MonitorInv
<1>2. \A v \in versions : IsVersion(v) /\ v.commit \in Nat /\ v.from \in Nat /\ v.from =< v.commit /\ v.commit =< clock
  BY DEF HistoryInv, VersionsInv, IsVersion
\* Sessions and results do not see it.
<1>3. ASSUME versions \subseteq versions',
             \A v \in versions' \ versions : v.commit = clock + 1 /\ SameObservation(v, ImportRow)
      PROVE  CheckInv' /\ RunsInv' /\ ResultsInv'
  <2>1. clock' \in Nat /\ clock =< clock' /\ \A v \in versions' \ versions : v.commit \in Nat /\ v.commit > clock
    BY <1>1, <1>3
  <2>2. ASSUME NEW w \in Workers, Live(w)' PROVE SessionOK(check'[w], versions', clock')
    <3>1. Live(w) /\ SessionOK(check[w], versions, clock)
      BY <1>1, <2>2 DEF Live, HistoryInv, CheckInv
    <3>2. \A v \in versions' \ versions : \A d \in check[w].changes : ~SameObservation(v, d)
      BY <1>3, <3>1 DEF SessionOK, ChangesOf, SameObservation
    <3> QED  BY <1>1, <1>3, <2>1, <3>1, <3>2, SessionStays
  <2>3. ASSUME NEW i \in DOMAIN results PROVE ResultOK(results[i], versions', runs, clock')
    <3>1. ResultOK(results[i], versions, runs, clock)
      BY DEF HistoryInv, ResultsInv
    <3> QED  BY <1>1, <1>3, <2>1, <3>1, ResultStays
  <2> QED  BY <1>1, <2>2, <2>3 DEF HistoryInv, CheckInv, RunsInv, ResultsInv
<1>4. CASE ImportWrite
  <2>1. UNCHANGED <<rows, versions>> /\ import' = [phase |-> "open", from |-> clock + 1]
    BY <1>4 DEF ImportWrite
  <2>2. VersionsInv' /\ RowsInv'
    BY <1>1, <2>1 DEF HistoryInv, VersionsInv, IsVersion, RowsInv, OfSeries
  <2>3. ImportInv'
    <3>1. import'.phase = "open" /\ import'.from = clock + 1
      BY <2>1
    <3>2. \A v \in versions' : v.commit < clock + 1
      BY <1>1, <1>2, <2>1
    <3> QED  BY <1>1, <3>1, <3>2 DEF ImportInv
  <2> QED  BY <1>3, <2>1, <2>2, <2>3 DEF HistoryInv
<1>5. CASE ImportCommit
  <2> DEFINE s == ImportRow.series
             f == [m \in {ImportRow.month} |-> ImportRow.value]
             new == [series |-> ImportRow.series, month |-> ImportRow.month, value |-> ImportRow.value,
                     from |-> import.from, commit |-> clock + 1,
                     backfilled |-> /\ ImportRow.month \notin DOMAIN rows[ImportRow.series]
                                    /\ \E m \in DOMAIN rows[ImportRow.series] : m > ImportRow.month]
  <2>1. /\ import.phase = "open" /\ import' = [phase |-> "done"] /\ versions' = versions \cup {new}
        /\ rows' = [rows EXCEPT ![s] = Overlay(rows[s], f)]
    BY <1>5 DEF ImportCommit
  <2>2. /\ new.series = s /\ new.month = ImportRow.month /\ new.value = ImportRow.value
        /\ new.from = import.from /\ new.commit = clock + 1
    OBVIOUS
  <2> HIDE DEF new
  <2>3. /\ import.from \in Nat /\ import.from =< clock /\ s \in Series /\ ImportRow.month \in Int
        /\ \A v \in versions : SameObservation(v, new) => v.commit < new.from
    BY <2>1, <2>2, ImportAssumption DEF HistoryInv, ImportInv, SameObservation
  <2>4. VersionsInv'
    <3>1. \A v \in versions' : IsVersion(v)'
      BY <1>1, <1>2, <2>1, <2>2, <2>3 DEF IsVersion
    <3>2. ASSUME NEW u \in versions', NEW v \in versions', SameObservation(u, v), u # v
          PROVE  u.commit < v.from \/ v.commit < u.from
      <4>1. CASE u \in versions /\ v \in versions
        BY <3>2, <4>1 DEF HistoryInv, VersionsInv
      <4>2. CASE u = new \/ v = new
        BY <2>1, <2>3, <3>2, <4>2 DEF SameObservation
      <4> QED  BY <2>1, <4>1, <4>2
    <3> QED  BY <3>1, <3>2 DEF VersionsInv
  <2>5. RowsInv'
    <3>1. rows = [t \in Series |-> rows[t]] /\ \A t \in Series : Observations(rows[t]) /\ rows[t] = ValuesOf(OfSeries(t))
      BY DEF HistoryInv, RowsInv
    <3>2. rows' = [t \in Series |-> rows'[t]] /\ rows'[s] = Overlay(rows[s], f)
          /\ \A t \in Series \ {s} : rows'[t] = rows[t]
      <4>1. DOMAIN rows = Series
        BY <3>1
      <4> QED  BY <2>1, <2>3, <4>1
    <3>3. Observations(rows'[s])
      <4>1. DOMAIN f = {ImportRow.month}
        OBVIOUS
      <4>2. IsFiniteSet(DOMAIN f) /\ DOMAIN f \subseteq Int
        BY <2>3, <4>1, FS_Singleton
      <4> QED  BY <2>3, <3>1, <3>2, <4>2, OverlaidObservations
    <3>4. rows'[s] = ValuesOf(OfSeries(s)')
      <4>1. OfSeries(s)' = OfSeries(s) \cup {new}
        BY <2>1, <2>2 DEF OfSeries
      <4>2. \A u \in OfSeries(s) : u.from \in Nat /\ (u.month = new.month => u.from < new.from)
        BY <1>2, <2>2, <2>3 DEF OfSeries, SameObservation
      <4>3. DOMAIN f = {v.month : v \in {new}} /\ \A v \in {new} : f[v.month] = v.value
        BY <2>2
      <4> HIDE DEF f
      <4>4. ValuesOf(OfSeries(s) \cup {new}) = Overlay(ValuesOf(OfSeries(s)), f)
        <5>1. Levels({new}, new.from, f)
          BY <4>3 DEF Levels
        <5>2. Precede(OfSeries(s), {new}, new.from)
          BY <4>2 DEF Precede
        <5> QED  BY <2>2, <2>3, <5>1, <5>2, NewestWins
      <4> QED  BY <2>3, <3>1, <3>2, <4>1, <4>4
    <3>5. ASSUME NEW t \in Series \ {s} PROVE OfSeries(t)' = OfSeries(t)
      BY <2>1, <2>2 DEF OfSeries
    <3> QED  BY <3>1, <3>2, <3>3, <3>4, <3>5 DEF RowsInv
  <2>6. ImportInv'
    BY <2>1 DEF ImportInv
  <2>7. versions \subseteq versions' /\ \A v \in versions' \ versions : v.commit = clock + 1 /\ SameObservation(v, ImportRow)
    BY <2>1, <2>2 DEF SameObservation
  <2> QED  BY <1>3, <2>4, <2>5, <2>6, <2>7 DEF HistoryInv
<1> QED  BY <1>4, <1>5

LEMMA HistoryInit ==
    ASSUME Init PROVE HistoryInv
<1>1. /\ clock = 0 /\ rows \in BaseRows /\ import = [phase |-> "none"]
      /\ check = [w \in Workers |-> Idle] /\ runs = <<>> /\ results = <<>>
      /\ versions = UNION {{[series |-> s, month |-> m, value |-> rows[s][m], from |-> 0,
                        commit |-> 0, backfilled |-> TRUE] : m \in DOMAIN rows[s]} : s \in Series}
  BY DEF Init
<1> DEFINE base(s, m) == [series |-> s, month |-> m, value |-> rows[s][m], from |-> 0,
                          commit |-> 0, backfilled |-> TRUE]
<1>2. rows = [s \in Series |-> rows[s]] /\ \A s \in Series : Observations(rows[s])
  BY <1>1, RowsAssumption
<1>3. /\ \A v \in versions : /\ v.series \in Series /\ v.month \in DOMAIN rows[v.series]
                             /\ v.value = rows[v.series][v.month] /\ v.from = 0 /\ v.commit = 0
      /\ \A u, v \in versions : SameObservation(u, v) => u = v
  <2>1. ASSUME NEW v \in versions
        PROVE  \E s \in Series : \E m \in DOMAIN rows[s] : v = base(s, m)
    <3>1. PICK s \in Series : v \in {base(s, m) : m \in DOMAIN rows[s]}
      BY <1>1
    <3> QED  BY <3>1
  <2>2. \A s, m : /\ base(s, m).series = s /\ base(s, m).month = m /\ base(s, m).value = rows[s][m]
                  /\ base(s, m).from = 0 /\ base(s, m).commit = 0
    OBVIOUS
  <2> HIDE DEF base
  <2>3. \A v \in versions : /\ v.series \in Series /\ v.month \in DOMAIN rows[v.series]
                            /\ v = base(v.series, v.month)
    BY <2>1, <2>2
  <2> QED  BY <2>2, <2>3 DEF SameObservation
<1>4. \A s \in Series : \A m \in DOMAIN rows[s] : \E v \in versions : v.series = s /\ v.month = m
  <2> SUFFICES ASSUME NEW s \in Series, NEW m \in DOMAIN rows[s]
               PROVE  \E v \in versions : v.series = s /\ v.month = m
    OBVIOUS
  <2>1. base(s, m) \in {base(s, k) : k \in DOMAIN rows[s]}
    OBVIOUS
  <2>2. base(s, m).series = s /\ base(s, m).month = m
    OBVIOUS
  <2>3. base(s, m) \in versions
    BY <1>1, <2>1
  <2> QED  BY <2>2, <2>3
<1>5. ASSUME NEW s \in Series PROVE rows[s] = ValuesOf(OfSeries(s))
  <2>1. DOMAIN rows[s] = {v.month : v \in OfSeries(s)}
    BY <1>3, <1>4 DEF OfSeries
  <2>2. ASSUME NEW m \in DOMAIN rows[s]
        PROVE  LatestOf({v \in OfSeries(s) : v.month = m}).value = rows[s][m]
    <3> DEFINE at == {v \in OfSeries(s) : v.month = m}
    <3>1. PICK n \in at : TRUE
      BY <2>1, <2>2
    <3>2. \A u \in at : u = n
      BY <1>3 DEF OfSeries, SameObservation
    <3>3. n.from =< n.from /\ n.value = rows[s][m]
      BY <1>3 DEF OfSeries
    <3>4. LatestOf(at) = n
      BY <3>1, <3>2, <3>3 DEF LatestOf
    <3> QED  BY <3>3, <3>4
  <2>3. rows[s] = [m \in DOMAIN rows[s] |-> rows[s][m]]
    BY <1>2 DEF Observations
  <2> QED  BY <2>1, <2>2, <2>3 DEF ValuesOf
<1>6. VersionsInv /\ RowsInv
  BY <1>1, <1>2, <1>3, <1>5 DEF VersionsInv, IsVersion, RowsInv
<1>7. ImportInv /\ CheckInv /\ RunsInv
  BY <1>1 DEF ImportInv, CheckInv, RunsInv, Live
<1>8. ResultsInv
  <2>1. results \in Seq({}) /\ DOMAIN results = {}
    BY <1>1
  <2> QED  BY <2>1 DEF ResultsInv
<1> QED  BY <1>6, <1>7, <1>8 DEF HistoryInv

\* The invariant of the history, with that of the runs.
THEOREM HistoryInvariant == Spec => [](MonitorInv /\ HistoryInv)
<1>1. Init => MonitorInv /\ HistoryInv
  BY MonitorInvInductive, HistoryInit
<1>2. MonitorInv /\ HistoryInv /\ [Next]_vars => MonitorInv' /\ HistoryInv'
  <2> SUFFICES ASSUME MonitorInv, HistoryInv, [Next]_vars PROVE HistoryInv'
    BY MonitorInvInductive
  <2>1. ASSUME NEW w \in Workers, Abort(w) PROVE HistoryInv'
    <3>1. /\ check' = [check EXCEPT ![w] = Dead] /\ clock \in Nat /\ DOMAIN check = Workers
          /\ UNCHANGED <<clock, rows, versions, import, runs, results>>
      BY <2>1 DEF Abort, MonitorInv
    <3>2. clock' \in Nat /\ clock' >= clock
      BY <3>1
    <3> QED  BY <3>1, <3>2, NothingCommitted
  <2>2. CASE UNCHANGED vars
    <3>1. VersionsInv' /\ RowsInv' /\ ImportInv'
      BY <2>2 DEF vars, HistoryInv, VersionsInv, IsVersion, RowsInv, OfSeries, ImportInv
    <3>2. CheckInv' /\ RunsInv' /\ ResultsInv'
      BY <2>2 DEF vars, HistoryInv, CheckInv, Live, RunsInv, ResultsInv
    <3> QED  BY <3>1, <3>2 DEF HistoryInv
  <2> QED
    BY <2>1, <2>2, ClassifyStep, CaptureStep, AnalyseStep, CommitHistory, ImportHistory DEF Next
<1> QED  BY <1>1, <1>2, PTL DEF Spec

---------------------------------------------------------------------------
(* What is shown of the recorded results *)

\* MonitorTypeOK: in particular every version and every run is stamped in the past, and
\* every recorded result carries the completion of a run there is.
THEOREM MonitorTypes == Spec => []MonitorTypeOK
<1>1. MonitorInv /\ HistoryInv => MonitorTypeOK
  <2> SUFFICES ASSUME MonitorInv, HistoryInv PROVE MonitorTypeOK
    OBVIOUS
  <2>1. clock \in Nat /\ \A i \in DOMAIN runs : runs[i].completed_at =< clock
    BY DEF MonitorInv
  <2>2. DOMAIN rows = Series
    BY DEF HistoryInv, RowsInv
  <2>3. \A v \in versions : v.series \in Series /\ v.from =< clock /\ v.commit =< clock
    BY <2>1 DEF HistoryInv, VersionsInv, IsVersion
  <2>4. ASSUME NEW w \in Workers PROVE check[w].phase \in {"idle", "dead", "classified", "captured", "analysed"}
    <3>1. CASE Live(w)
      BY <3>1 DEF HistoryInv, CheckInv, SessionOK
    <3>2. CASE ~Live(w)
      BY <3>2 DEF Live, Idle, Dead
    <3> QED  BY <3>1, <3>2
  <2>5. \A i \in DOMAIN results : /\ results[i].run \in DOMAIN runs /\ results[i].monitor \in Monitors
                                  /\ results[i].calculated_at = runs[results[i].run].completed_at
    BY DEF HistoryInv, ResultsInv, ResultOK
  <2> QED  BY <2>1, <2>2, <2>3, <2>4, <2>5 DEF MonitorTypeOK, HistoryInv, ImportInv, RunsInv
<1> QED  BY HistoryInvariant, <1>1, PTL

\* ReplayMismatchOnlyIfOverlapped: a replay is the recorded result unless a version of its
\* inputs, stamped before the calculation, became visible after the check had read.
THEOREM ReplayIsFaithful == Spec => []ReplayMismatchOnlyIfOverlapped
<1>1. HistoryInv => ReplayMismatchOnlyIfOverlapped
  <2> SUFFICES ASSUME HistoryInv, NEW i \in DOMAIN results,
                      ~\E v \in versions : /\ v.series \in MonitorInputSeries(results[i].monitor)
                                           /\ v.from =< results[i].calculated_at
                                           /\ v.commit > results[i].read_at
                                           /\ v.commit # results[i].commit
               PROVE  ReplayRecordedResult(results[i]).outcome # "MISMATCH"
    BY DEF ReplayMismatchOnlyIfOverlapped
  <2> DEFINE r == results[i]
             then == [s \in MonitorInputSeries(r.monitor) |-> GetObservationsAsOf(s, r.calculated_at)]
             read == [s \in Series |-> ValuesOf(InputsOf(r, versions, s))]
  <2>1. ResultOK(r, versions, runs, clock)
    BY DEF HistoryInv, ResultsInv
  <2>2. MonitorInputSeries(r.monitor) \subseteq Series /\ r.monitor \in Monitors
    BY <2>1 DEF ResultOK, MonitorInputSeries, Series, InflationSeries
  <2>3. ASSUME NEW s \in MonitorInputSeries(r.monitor) PROVE then[s] = read[s]
    <3>1. {v \in versions : v.series = s /\ v.from =< r.calculated_at} = InputsOf(r, versions, s)
      <4>1. ASSUME NEW v \in versions, v.series = s
            PROVE  v.from =< r.calculated_at <=> v.commit =< r.read_at \/ v.commit = r.commit
        <5>1. /\ v.from \in Nat /\ v.commit \in Nat /\ v.from =< v.commit
              /\ r.calculated_at \in Nat /\ r.read_at = r.calculated_at /\ r.commit \in Nat
              /\ v.commit = r.commit => v.from =< r.calculated_at
          BY <2>1 DEF HistoryInv, VersionsInv, IsVersion, ResultOK
        <5>2. v.from =< r.calculated_at => ~(v.commit > r.read_at /\ v.commit # r.commit)
          BY <4>1
        <5> QED  BY <5>1, <5>2
      <4> QED  BY <4>1 DEF InputsOf
    <3> QED  BY <2>2, <3>1 DEF GetObservationsAsOf
  <2>4. RecomputeThen(r).state = MonitorStateAt(r.monitor, read, r.evaluation_period)
    <3>1. RecomputeThen(r) = Recompute(r, then)
      BY DEF RecomputeThen
    <3> HIDE DEF then, read
    <3>2. CASE r.monitor = "inflation"
      <4>1. then["PCEPILFE"] = read["PCEPILFE"]
        BY <2>3, <3>2 DEF MonitorInputSeries
      <4>2. Recompute(r, then) = SeriesMomentumAt(then["PCEPILFE"], r.evaluation_period)
        BY <3>2 DEF Recompute
      <4>3. MonitorStateAt(r.monitor, read, r.evaluation_period)
              = SeriesMomentumAt(read["PCEPILFE"], r.evaluation_period).state
        BY <3>2 DEF MonitorStateAt, EvaluateComponentAt
      <4> QED  BY <3>1, <4>1, <4>2, <4>3
    <3>3. CASE r.monitor = "labor"
      <4>1. then["PAYEMS"] = read["PAYEMS"] /\ then["UNRATE"] = read["UNRATE"]
        BY <2>3, <3>3 DEF MonitorInputSeries, LaborSeries
      <4>2. Recompute(r, then) = EvaluateLaborAt(then, r.evaluation_period)
        BY <3>3 DEF Recompute
      <4>3. MonitorStateAt(r.monitor, read, r.evaluation_period) = EvaluateLaborAt(read, r.evaluation_period).state
        BY <3>3 DEF MonitorStateAt
      <4>4. EvaluateLaborAt(then, r.evaluation_period) = EvaluateLaborAt(read, r.evaluation_period)
        BY <4>1 DEF EvaluateLaborAt
      <4> QED  BY <3>1, <4>2, <4>3, <4>4
    <3> QED  BY <2>2, <3>2, <3>3 DEF Monitors
  <2>5. RecomputeThen(r).state = r.state
    BY <2>1, <2>4 DEF ResultOK
  <2> QED  BY <2>5 DEF ReplayRecordedResult
<1> QED  BY HistoryInvariant, <1>1, PTL

\* RecapIsComplete: a confirmation in a recap left the monitor's state as it was at every
\* period the run recorded, and no update a run received goes unmentioned.
THEOREM RecapTellsEverything == Spec => []RecapIsComplete
<1>1. HistoryInv => RecapIsComplete
  <2> SUFFICES ASSUME HistoryInv, NEW i \in DOMAIN runs, NEW monitor \in Monitors
               PROVE  /\ \A item \in SelectRecalculations({i}) :
                           item.monitor = monitor /\ item.kind = "UNCHANGED_CONFIRMATION"
                             => \A j \in RecordedBy(i, monitor) : results[j].state = results[j].was
                      /\ (\E u \in runs[i].observation_updates : MonitorForSeries(u.series) = monitor) =>
                           \E item \in SelectStructuralChanges({i}) \cup SelectRecalculations({i})
                                         \cup SelectSourceUpdates({i}) : item.monitor = monitor
    BY DEF RecapIsComplete
  <2>1. (Tier1Changes(i, monitor) # {}) <=> \E item \in SelectStructuralChanges({i}) : item.run = i /\ item.monitor = monitor
    <3>1. \A item \in SelectStructuralChanges({i}) :
             item.run = i /\ item.monitor = monitor => Tier1Changes(i, monitor) # {}
      BY DEF SelectStructuralChanges
    <3>2. ASSUME Tier1Changes(i, monitor) # {}
          PROVE  \E item \in SelectStructuralChanges({i}) : item.run = i /\ item.monitor = monitor
      <4>1. <<i, monitor>> \in {q \in {i} \X Monitors : Tier1Changes(q[1], q[2]) # {}}
        BY <3>2
      <4> DEFINE told(pair) ==
            [run |-> pair[1], monitor |-> pair[2],
             change |-> CHOOSE e \in Tier1Changes(pair[1], pair[2]) :
                          \A f \in Tier1Changes(pair[1], pair[2]) : f.current_period =< e.current_period]
      <4>2. told(<<i, monitor>>).run = i /\ told(<<i, monitor>>).monitor = monitor
        OBVIOUS
      <4>3. SelectStructuralChanges({i}) = {told(pair) : pair \in {q \in {i} \X Monitors : Tier1Changes(q[1], q[2]) # {}}}
        BY Zenon DEF SelectStructuralChanges
      <4> HIDE DEF told
      <4> QED  BY <4>1, <4>2, <4>3
    <3> QED  BY <3>1, <3>2
  <2> DEFINE changed == {<<item.run, item.monitor>> : item \in SelectStructuralChanges({i})}
             pairs == {q \in {i} \X Monitors : RecordedBy(q[1], q[2]) # {}} \ changed
  <2>2. <<i, monitor>> \in changed <=> Tier1Changes(i, monitor) # {}
    BY <2>1
  <2> DEFINE kind(pair) == IF CurrentRow(pair[1], pair[2]) = EarliestRecordedResult(pair[2])
                           THEN "FIRST_CALCULATION" ELSE "UNCHANGED_CONFIRMATION"
             told(pair) == [run |-> pair[1], monitor |-> pair[2], kind |-> kind(pair),
                            row |-> CurrentRow(pair[1], pair[2])]
  <2>3. SelectRecalculations({i}) = {told(pair) : pair \in pairs}
    BY Zenon DEF SelectRecalculations
  <2>4. \A pair : told(pair).run = pair[1] /\ told(pair).monitor = pair[2]
    OBVIOUS
  <2> HIDE DEF told
  <2>5. ASSUME NEW item \in SelectRecalculations({i}), item.monitor = monitor, NEW j \in RecordedBy(i, monitor)
        PROVE  results[j].state = results[j].was
    <3>1. <<i, monitor>> \in pairs
      <4>1. PICK pair \in pairs : item.run = pair[1] /\ item.monitor = pair[2]
        BY <2>3, <2>4
      <4>2. pair = <<i, monitor>>
        BY <2>5, <4>1
      <4> QED  BY <4>1, <4>2
    <3>2. Tier1Changes(i, monitor) = {}
      BY <2>2, <3>1
    <3>3. j \in DOMAIN results /\ results[j].monitor = monitor /\ results[j].run = i
      BY DEF RecordedBy, Recorded
    <3>4. ResultOK(results[j], versions, runs, clock)
      BY <3>3 DEF HistoryInv, ResultsInv
    <3> QED  BY <3>2, <3>3, <3>4 DEF ResultOK, Tier1Changes
  <2>6. ASSUME NEW u \in runs[i].observation_updates, MonitorForSeries(u.series) = monitor
        PROVE  \E item \in SelectStructuralChanges({i}) \cup SelectRecalculations({i})
                             \cup SelectSourceUpdates({i}) : item.monitor = monitor
    <3>1. CASE Tier1Changes(i, monitor) # {}
      BY <2>1, <3>1
    <3>2. CASE Tier1Changes(i, monitor) = {} /\ RecordedBy(i, monitor) # {}
      <4>1. <<i, monitor>> \in pairs
        BY <2>2, <3>2
      <4> HIDE DEF pairs
      <4>2. told(<<i, monitor>>) \in SelectRecalculations({i})
        BY <2>3, <4>1
      <4>3. told(<<i, monitor>>).monitor = monitor
        BY <2>4
      <4> QED  BY <4>2, <4>3
    <3>3. CASE RecordedBy(i, monitor) = {}
      <4> DEFINE q == <<i, u>>
                 item == [run |-> q[1], series |-> q[2].series, change |-> q[2].change,
                          monitor |-> MonitorForSeries(q[2].series)]
      <4>1. q \in UNION {{run} \X runs[run].observation_updates : run \in {i}}
        OBVIOUS
      <4>2. RecordedBy(q[1], MonitorForSeries(q[2].series)) = {}
        BY <2>6, <3>3
      <4>3. item \in SelectSourceUpdates({i})
        BY <4>1, <4>2 DEF SelectSourceUpdates
      <4>4. item.monitor = monitor
        BY <2>6
      <4> QED  BY <4>3, <4>4
    <3> QED  BY <3>1, <3>2, <3>3
  <2> QED  BY <2>5, <2>6
<1> QED  BY HistoryInvariant, <1>1, PTL

\* The recorded results of a monitor in the order of its pages.
Newer(monitor) == {pair \in Recorded(monitor) \X Recorded(monitor) : Older(pair[2], pair[1])}

Rank(monitor, i) == Cardinality({j \in Recorded(monitor) : Older(i, j)})

LEMMA PageOrder ==
    ASSUME HistoryInv, NEW monitor
    PROVE  LET total == Cardinality(Recorded(monitor))
           IN  /\ total \in Nat
               /\ \A i \in Recorded(monitor) : Rank(monitor, i) \in 0..(total - 1)
               /\ \A i, j \in Recorded(monitor) : Older(j, i) <=> Rank(monitor, i) < Rank(monitor, j)
               /\ \A i, j \in Recorded(monitor) : Rank(monitor, i) = Rank(monitor, j) => i = j
               /\ \A k \in 0..(total - 1) : \E i \in Recorded(monitor) : Rank(monitor, i) = k
<1> DEFINE S == Recorded(monitor)
           R == Newer(monitor)
<1>1. PICK T : results \in Seq(T)
  BY DEF HistoryInv, ResultsInv
<1>2. S \in SUBSET (1..Len(results)) /\ Len(results) \in Nat
  BY <1>1 DEF Recorded
<1>3. IsFiniteSet(S)
  <2>1. 1 \in Int /\ Len(results) \in Int
    BY <1>2
  <2>2. IsFiniteSet(1..Len(results))
    BY <2>1, FS_Interval
  <2> QED  BY <1>2, <2>2, FS_Subset
<1>4. \A i \in S : i \in Int /\ results[i].calculated_at \in Int
  <2>1. \A i \in S : i \in Int /\ ResultOK(results[i], versions, runs, clock)
    BY <1>2 DEF Recorded, HistoryInv, ResultsInv
  <2>2. \A r : ResultOK(r, versions, runs, clock) => r.calculated_at \in Nat
    BY DEF ResultOK
  <2> QED  BY <2>1, <2>2
<1>5. /\ \A i \in S : ~Older(i, i)
      /\ \A i, j, k \in S : Older(j, i) /\ Older(k, j) => Older(k, i)
      /\ \A i, j \in S : i # j => Older(j, i) \/ Older(i, j)
  BY <1>4 DEF Older
<1>6. \A i, j \in S : <<i, j>> \in R <=> Older(j, i)
  BY DEF Newer
<1>7. Orders(R, S)
  BY <1>5, <1>6 DEF Orders
<1>8. \A i \in S : Cardinality(Before(R, S, i)) = Rank(monitor, i)
  <2>1. \A i \in S : Before(R, S, i) = {j \in Recorded(monitor) : Older(i, j)}
    BY <1>6 DEF Before
  <2> QED  BY <2>1 DEF Rank
<1> HIDE DEF S, R
<1>9. /\ Cardinality(S) \in Nat
      /\ \A i \in S : Rank(monitor, i) \in 0..(Cardinality(S) - 1)
      /\ \A i, j \in S : <<i, j>> \in R <=> Rank(monitor, i) < Rank(monitor, j)
      /\ \A k \in 0..(Cardinality(S) - 1) : \E i \in S : Rank(monitor, i) = k
  BY <1>3, <1>7, <1>8, Ranked
<1>10. \A i, j \in S : Rank(monitor, i) = Rank(monitor, j) => i = j
  BY <1>5, <1>6, <1>9
<1> QED  BY <1>6, <1>9, <1>10 DEF S

\* A page lists the rows of consecutive ranks.
LEMMA PageRows ==
    ASSUME HistoryInv, NEW monitor, NEW limit \in Nat, NEW offset \in Nat
    PROVE  LET page == ListRecordedResults(monitor, limit, offset)
               total == Cardinality(Recorded(monitor))
           IN  /\ Len(page) \in Nat /\ DOMAIN page = 1..Len(page)
               /\ Len(page) = IF total =< offset THEN 0
                              ELSE IF total - offset < limit THEN total - offset ELSE limit
               /\ \A k \in DOMAIN page : page[k] \in Recorded(monitor) /\ Rank(monitor, page[k]) = offset + k - 1
<1> DEFINE page == ListRecordedResults(monitor, limit, offset)
           total == Cardinality(Recorded(monitor))
           size == IF total =< offset THEN 0
                   ELSE IF total - offset < limit THEN total - offset ELSE limit
<1>1. total \in Nat /\ \A k \in 0..(total - 1) : \E i \in Recorded(monitor) : Rank(monitor, i) = k
  BY PageOrder
<1>2. size \in Nat /\ \A k \in 1..size : offset + k - 1 \in 0..(total - 1)
  BY <1>1
<1>3. page = [k \in 1..size |-> CHOOSE i \in Recorded(monitor) : Rank(monitor, i) = offset + k - 1]
  BY DEF ListRecordedResults, Rank
<1>4. ASSUME NEW k \in 1..size
      PROVE  page[k] \in Recorded(monitor) /\ Rank(monitor, page[k]) = offset + k - 1
  <2>1. \E i \in Recorded(monitor) : Rank(monitor, i) = offset + k - 1
    BY <1>1, <1>2
  <2> QED  BY <1>3, <2>1
<1> HIDE DEF size
<1>5. Len(page) = size /\ DOMAIN page = 1..size
  BY <1>2, <1>3
<1> QED  BY <1>2, <1>4, <1>5 DEF size

\* The predecessor of a row is the row of the next rank, if there is one.
LEMMA PreviousRow ==
    ASSUME HistoryInv, NEW monitor, NEW i \in Recorded(monitor), NEW j \in Recorded(monitor),
           Rank(monitor, j) = Rank(monitor, i) + 1
    PROVE  GetPreviousRecordedResult(monitor, i) = j
<1> DEFINE before == {k \in Recorded(monitor) : Older(k, i)}
<1>1. /\ \A k, l \in Recorded(monitor) : Older(l, k) <=> Rank(monitor, k) < Rank(monitor, l)
      /\ \A k, l \in Recorded(monitor) : Rank(monitor, k) = Rank(monitor, l) => k = l
      /\ \A k \in Recorded(monitor) : Rank(monitor, k) \in Int
  BY PageOrder
<1>2. j \in before
  BY <1>1
<1>3. \A k \in before \ {j} : Older(k, j)
  BY <1>1
<1>4. \A l \in before : (\A k \in before \ {l} : Older(k, l)) => l = j
  <2> SUFFICES ASSUME NEW l \in before, l # j, \A k \in before \ {l} : Older(k, l) PROVE FALSE
    OBVIOUS
  <2>1. Older(j, l) /\ Older(l, j)
    BY <1>2, <1>3
  <2> QED  BY <1>1, <2>1
<1>5. GetPreviousRecordedResult(monitor, i)
        = IF before = {} THEN Null ELSE CHOOSE l \in before : \A k \in before \ {l} : Older(k, l)
  BY Zenon DEF GetPreviousRecordedResult
<1> HIDE DEF before
<1> QED  BY <1>2, <1>3, <1>4, <1>5

\* PagesFollowOneAnother: pages of any size list every result once, newest first, and
\* name the predecessor of a row that the next page begins with.
THEOREM PagesAreOneList == Spec => []PagesFollowOneAnother
<1>1. HistoryInv => PagesFollowOneAnother
  <2> SUFFICES ASSUME HistoryInv, NEW monitor \in Monitors, NEW limit \in 1..2, NEW offset \in 0..Len(results),
                      NEW k \in DOMAIN ListRecordedResults(monitor, limit, offset)
               PROVE  LET page == ListRecordedResults(monitor, limit, offset)
                          rest == ListRecordedResults(monitor, limit, offset + limit)
                          previous == GetPreviousRecordedResults(monitor, page)[k]
                      IN  /\ previous = GetPreviousRecordedResult(monitor, page[k])
                          /\ (k = Len(page) /\ rest # <<>>) => previous = rest[1]
    BY DEF PagesFollowOneAnother
  <2> DEFINE page == ListRecordedResults(monitor, limit, offset)
             rest == ListRecordedResults(monitor, limit, offset + limit)
             total == Cardinality(Recorded(monitor))
  <2>1. PICK T : results \in Seq(T)
    BY DEF HistoryInv, ResultsInv
  <2>2. limit \in Nat /\ limit > 0 /\ offset \in Nat /\ offset + limit \in Nat /\ total \in Nat
    BY <2>1, PageOrder
  <2>3. /\ Len(page) \in Nat /\ DOMAIN page = 1..Len(page)
        /\ Len(page) = IF total =< offset THEN 0
                       ELSE IF total - offset < limit THEN total - offset ELSE limit
        /\ \A n \in DOMAIN page : page[n] \in Recorded(monitor) /\ Rank(monitor, page[n]) = offset + n - 1
    BY <2>2, PageRows
  <2>4. /\ Len(rest) \in Nat /\ DOMAIN rest = 1..Len(rest)
        /\ Len(rest) = IF total =< offset + limit THEN 0
                       ELSE IF total - (offset + limit) < limit THEN total - (offset + limit) ELSE limit
        /\ \A n \in DOMAIN rest : rest[n] \in Recorded(monitor) /\ Rank(monitor, rest[n]) = offset + limit + n - 1
    BY <2>2, PageRows
  <2>5. GetPreviousRecordedResults(monitor, page)[k]
          = IF k < Len(page) THEN page[k + 1] ELSE GetPreviousRecordedResult(monitor, page[k])
    BY DEF GetPreviousRecordedResults
  <2>6. rest # <<>> => Len(rest) > 0
    <3>1. rest = [n \in 1..Len(rest) |-> rest[n]]
      <4> DEFINE rank(i) == Cardinality({j \in Recorded(monitor) : Older(i, j)})
                 size == IF total =< offset + limit THEN 0
                         ELSE IF total - (offset + limit) < limit THEN total - (offset + limit) ELSE limit
                 row(n) == CHOOSE i \in Recorded(monitor) : rank(i) = offset + limit + n - 1
      <4>0. rest = [n \in 1..size |-> row(n)]
        BY DEF ListRecordedResults
      <4> HIDE DEF size, row
      <4>1. rest = [n \in DOMAIN rest |-> rest[n]]
        BY <4>0
      <4> HIDE DEF rest
      <4> QED  BY <2>4, <4>1
    <3> QED  BY <2>4, <3>1
  <2> HIDE DEF page, rest, total
  <2>7. k \in 1..Len(page)
    BY <2>3 DEF page
  <2>8. CASE k < Len(page)
    <3>1. k + 1 \in DOMAIN page /\ k \in DOMAIN page
      BY <2>3, <2>7, <2>8
    <3>2. /\ page[k] \in Recorded(monitor) /\ Rank(monitor, page[k]) = offset + k - 1
          /\ page[k + 1] \in Recorded(monitor) /\ Rank(monitor, page[k + 1]) = offset + (k + 1) - 1
      BY <2>3, <3>1
    <3>3. Rank(monitor, page[k + 1]) = Rank(monitor, page[k]) + 1
      BY <2>2, <2>3, <2>7, <3>2
    <3>4. GetPreviousRecordedResult(monitor, page[k]) = page[k + 1]
      BY <3>2, <3>3, PreviousRow
    <3> QED  BY <2>3, <2>5, <2>7, <2>8, <3>4 DEF page, rest
  <2>9. CASE k = Len(page)
    <3>1. GetPreviousRecordedResults(monitor, page)[k] = GetPreviousRecordedResult(monitor, page[k])
      BY <2>3, <2>5, <2>9
    <3>2. ASSUME rest # <<>> PROVE GetPreviousRecordedResult(monitor, page[k]) = rest[1]
      <4>1. Len(rest) > 0
        BY <2>6, <3>2
      <4>2. k = limit
        BY <2>2, <2>3, <2>4, <2>7, <2>9, <4>1
      <4>3. 1 \in DOMAIN rest /\ k \in DOMAIN page
        BY <2>3, <2>4, <2>7, <4>1
      <4>4. /\ page[k] \in Recorded(monitor) /\ Rank(monitor, page[k]) = offset + k - 1
            /\ rest[1] \in Recorded(monitor) /\ Rank(monitor, rest[1]) = offset + limit + 1 - 1
        BY <2>3, <2>4, <4>3
      <4>5. Rank(monitor, rest[1]) = Rank(monitor, page[k]) + 1
        BY <2>2, <4>2, <4>4
      <4> QED  BY <4>4, <4>5, PreviousRow
    <3> QED  BY <3>1, <3>2 DEF page, rest
  <2> QED  BY <2>3, <2>7, <2>8, <2>9
<1> QED  BY HistoryInvariant, <1>1, PTL

\* What the levels a result cites say of the result.
StateOf(rates) ==
    IF {n \in UnderlyingHorizons : rates[n] = Null} # {} THEN "INSUFFICIENT_DATA"
    ELSE ClassifyState(rates[3], rates[6], rates[12])

LEMMA MomentumAt ==
    ASSUME NEW obs, NEW period \in Int
    PROVE  /\ SeriesMomentumAt(obs, period).rates = [n \in Horizons |-> Rate(BuildIndex(obs), period, n)]
           /\ SeriesMomentumAt(obs, period).state = StateOf(SeriesMomentumAt(obs, period).rates)
           /\ SeriesMomentumAt(obs, period).evidence
                = [n \in Horizons |-> MetricEvidence(BuildIndex(obs), period, n)]
           /\ SeriesMomentumAt(obs, period).calculation_period = period
<1>1. period # Null
  BY NullAssumption
<1> QED  BY <1>1 DEF SeriesMomentumAt, ClassifyPeriod, StateOf

LEMMA SameMomentum ==
    ASSUME NEW a, NEW b, NEW period \in Int,
           \A k \in {0} \cup Horizons :
             At(BuildIndex(a), MonthBefore(period, k)) = At(BuildIndex(b), MonthBefore(period, k))
    PROVE  /\ SeriesMomentumAt(a, period).rates = SeriesMomentumAt(b, period).rates
           /\ SeriesMomentumAt(a, period).state = SeriesMomentumAt(b, period).state
<1>1. At(BuildIndex(a), period) = At(BuildIndex(b), period)
  <2>1. MonthBefore(period, 0) = period
    BY DEF MonthBefore
  <2> QED  BY <2>1
<1>2. \A n \in Horizons : Rate(BuildIndex(a), period, n) = Rate(BuildIndex(b), period, n)
  BY <1>1 DEF Rate
<1>3. [n \in Horizons |-> Rate(BuildIndex(a), period, n)] = [n \in Horizons |-> Rate(BuildIndex(b), period, n)]
  BY <1>2
<1>4. ASSUME NEW obs
      PROVE  /\ SeriesMomentumAt(obs, period).rates = [n \in Horizons |-> Rate(BuildIndex(obs), period, n)]
             /\ SeriesMomentumAt(obs, period).state = StateOf(SeriesMomentumAt(obs, period).rates)
  BY MomentumAt
<1>5. SeriesMomentumAt(a, period).rates = SeriesMomentumAt(b, period).rates
  <2>1. SeriesMomentumAt(a, period).rates = [n \in Horizons |-> Rate(BuildIndex(a), period, n)]
    BY <1>4
  <2>2. SeriesMomentumAt(b, period).rates = [n \in Horizons |-> Rate(BuildIndex(b), period, n)]
    BY <1>4
  <2> QED  BY <1>3, <2>1, <2>2
<1>6. SeriesMomentumAt(a, period).state = SeriesMomentumAt(b, period).state
  <2>1. SeriesMomentumAt(a, period).state = StateOf(SeriesMomentumAt(a, period).rates)
    BY <1>4
  <2>2. SeriesMomentumAt(b, period).state = StateOf(SeriesMomentumAt(b, period).rates)
    BY <1>4
  <2> QED  BY <1>5, <2>1, <2>2
<1> QED  BY <1>5, <1>6

LEMMA SameEmployment ==
    ASSUME NEW i, NEW j, NEW t \in Int,
           \A k \in 0..6 : At(i, MonthBefore(t, k)) = At(j, MonthBefore(t, k))
    PROVE  EmploymentResult(i, t) = EmploymentResult(j, t)
<1>1. ASSUME NEW k \in 0..5 PROVE MonthlyChange(i, t - k) = MonthlyChange(j, t - k)
  <2>1. At(i, t - k) = At(j, t - k)
    BY DEF MonthBefore
  <2>2. k + 1 \in 0..6 /\ (t - k) - 1 = t - (k + 1)
    OBVIOUS
  <2>3. At(i, (t - k) - 1) = At(j, (t - k) - 1)
    BY <2>2 DEF MonthBefore
  <2> QED  BY <2>1, <2>3 DEF MonthlyChange, MonthBefore
<1>2. ASSUME NEW b \in {0, 3} PROVE AverageMonthlyChange(i, t - b) = AverageMonthlyChange(j, t - b)
  <2>1. \A k \in 0..2 : (t - b) - k = t - (b + k) /\ b + k \in 0..5
    OBVIOUS
  <2>2. \A k \in 0..2 : MonthlyChange(i, MonthBefore(t - b, k)) = MonthlyChange(j, MonthBefore(t - b, k))
    BY <1>1, <2>1 DEF MonthBefore
  <2>3. [k \in 0..2 |-> MonthlyChange(i, MonthBefore(t - b, k))] = [k \in 0..2 |-> MonthlyChange(j, MonthBefore(t - b, k))]
    BY <2>2
  <2> QED  BY <2>3 DEF AverageMonthlyChange
<1>3. AverageMonthlyChange(i, t) = AverageMonthlyChange(j, t)
  <2>1. t - 0 = t
    OBVIOUS
  <2> QED  BY <1>2, <2>1
<1>4. AverageMonthlyChange(i, MonthBefore(t, 3)) = AverageMonthlyChange(j, MonthBefore(t, 3))
  BY <1>2 DEF MonthBefore
<1>5. [k \in 0..6 |-> At(i, MonthBefore(t, k))] = [k \in 0..6 |-> At(j, MonthBefore(t, k))]
  OBVIOUS
<1> QED  BY <1>3, <1>4, <1>5 DEF EmploymentResult

LEMMA SameUnemployment ==
    ASSUME NEW i, NEW j, NEW t \in Int,
           \A k \in UnemploymentMonths : At(i, MonthBefore(t, k)) = At(j, MonthBefore(t, k))
    PROVE  UnemploymentResult(i, t) = UnemploymentResult(j, t)
<1>1. ASSUME NEW b \in {0, 12} PROVE AverageRate(i, t - b) = AverageRate(j, t - b)
  <2>1. \A k \in 0..2 : (t - b) - k = t - (b + k) /\ b + k \in UnemploymentMonths
    BY DEF UnemploymentMonths
  <2>2. \A k \in 0..2 : At(i, MonthBefore(t - b, k)) = At(j, MonthBefore(t - b, k))
    BY <2>1 DEF MonthBefore
  <2>3. [k \in 0..2 |-> At(i, MonthBefore(t - b, k))] = [k \in 0..2 |-> At(j, MonthBefore(t - b, k))]
    BY <2>2
  <2> QED  BY <2>3 DEF AverageRate
<1>2. AverageRate(i, t) = AverageRate(j, t)
  <2>1. t - 0 = t
    OBVIOUS
  <2> QED  BY <1>1, <2>1
<1>3. AverageRate(i, MonthBefore(t, 12)) = AverageRate(j, MonthBefore(t, 12))
  BY <1>1 DEF MonthBefore
<1>4. [k \in UnemploymentMonths |-> At(i, MonthBefore(t, k))] = [k \in UnemploymentMonths |-> At(j, MonthBefore(t, k))]
  OBVIOUS
<1> QED  BY <1>2, <1>3, <1>4 DEF UnemploymentResult

LEMMA UnchangedInput ==
    ASSUME NEW then, NEW today, ClassifyInput(then, today, TRUE) = "UNCHANGED"
    PROVE  then = today
BY DEF ClassifyInput

\* The observations of which the comparison says nothing changed.
LEMMA SameSeen ==
    ASSUME NEW r, NEW then, NEW today, NEW keys,
           DOMAIN UsedObservations(r, then) = keys, DOMAIN UsedObservations(r, today) = keys,
           BuildComparison(r, then, today).status = "IDENTICAL_INPUTS"
    PROVE  \A key \in keys : UsedObservations(r, then)[key] = UsedObservations(r, today)[key]
<1> DEFINE inputs == CompareInputs(r, then, today)
<1>1. \A key \in DOMAIN inputs : inputs[key] = "UNCHANGED"
  BY DEF BuildComparison
<1>2. /\ DOMAIN inputs = keys
      /\ \A key \in keys : inputs[key] = ClassifyInput(At(UsedObservations(r, then), key),
                                                      At(UsedObservations(r, today), key), TRUE)
  BY DEF CompareInputs
<1> HIDE DEF inputs
<1>3. \A key \in keys : At(UsedObservations(r, then), key) = At(UsedObservations(r, today), key)
  BY <1>1, <1>2, UnchangedInput
<1> QED  BY <1>3 DEF At

LEMMA SameInflationState ==
    ASSUME NEW r, r.monitor = "inflation", r.evaluation_period \in Int, NEW a, NEW b,
           BuildComparison(r, SeriesMomentumAt(a, r.evaluation_period),
                              SeriesMomentumAt(b, r.evaluation_period)).status = "IDENTICAL_INPUTS"
    PROVE  SeriesMomentumAt(a, r.evaluation_period).state = SeriesMomentumAt(b, r.evaluation_period).state
<1> DEFINE p == r.evaluation_period
           keys == {<<s, MonthBefore(p, k)>> : s \in {"PCEPILFE"}, k \in {0} \cup Horizons}
           key(k) == <<"PCEPILFE", MonthBefore(p, k)>>
           level(obs, k) == At(BuildIndex(obs), MonthBefore(p, k))
<1>1. ASSUME NEW obs
      PROVE  /\ DOMAIN UsedObservations(r, SeriesMomentumAt(obs, p)) = keys
             /\ \A k \in {0} \cup Horizons : UsedObservations(r, SeriesMomentumAt(obs, p))[key(k)] = level(obs, k)
  <2> DEFINE result == SeriesMomentumAt(obs, p)
             used == UsedObservations(r, result)
             back(q) == p - q[2]
  <2>1. used = [q \in keys |-> IF back(q) = 0 THEN result.evidence[1].current ELSE result.evidence[back(q)].past]
    BY DEF UsedObservations
  <2>2. /\ result.evidence[1].current = level(obs, 0)
        /\ \A n \in Horizons : result.evidence[n].past = level(obs, n)
    <3>1. result.evidence = [n \in Horizons |-> MetricEvidence(BuildIndex(obs), p, n)]
      BY MomentumAt
    <3>2. MonthBefore(p, 0) = p
      BY DEF MonthBefore
    <3> QED  BY <3>1, <3>2 DEF MetricEvidence, Horizons
  <2>3. \A k \in {0} \cup Horizons : key(k) \in keys /\ back(key(k)) = k
    BY DEF MonthBefore, Horizons
  <2> HIDE DEF keys, key, level, result, back
  <2>4. ASSUME NEW k \in {0} \cup Horizons PROVE used[key(k)] = level(obs, k)
    <3>1. CASE k = 0
      BY <2>1, <2>2, <2>3, <3>1
    <3>2. CASE k \in Horizons
      <4>1. k # 0
        BY <3>2 DEF Horizons
      <4> QED  BY <2>1, <2>2, <2>3, <3>2, <4>1
    <3> QED  BY <3>1, <3>2
  <2> QED  BY <2>1, <2>4 DEF result
<1>2. \A k \in {0} \cup Horizons : key(k) \in keys
  OBVIOUS
<1> HIDE DEF keys, key, level
<1>3. \A q \in keys : UsedObservations(r, SeriesMomentumAt(a, p))[q] = UsedObservations(r, SeriesMomentumAt(b, p))[q]
  BY <1>1, SameSeen
<1>4. \A k \in {0} \cup Horizons : level(a, k) = level(b, k)
  BY <1>1, <1>2, <1>3
<1> QED  BY <1>4, SameMomentum DEF level

LEMMA SameLaborState ==
    ASSUME NEW r, r.monitor = "labor", r.evaluation_period \in Int, NEW a, NEW b,
           BuildComparison(r, EvaluateLaborAt(a, r.evaluation_period),
                              EvaluateLaborAt(b, r.evaluation_period)).status = "IDENTICAL_INPUTS"
    PROVE  EvaluateLaborAt(a, r.evaluation_period).state = EvaluateLaborAt(b, r.evaluation_period).state
<1> DEFINE p == r.evaluation_period
           keys == {<<s, MonthBefore(p, k)>> : s \in {"PAYEMS"}, k \in 0..6}
                     \cup {<<s, MonthBefore(p, k)>> : s \in {"UNRATE"}, k \in UnemploymentMonths}
           payroll(obs, k) == At(BuildLevelIndex(obs["PAYEMS"]), MonthBefore(p, k))
           rate(obs, k) == At(BuildLevelIndex(obs["UNRATE"]), MonthBefore(p, k))
           used(obs) == UsedObservations(r, EvaluateLaborAt(obs, p))
<1>1. ASSUME NEW obs
      PROVE  /\ DOMAIN used(obs) = keys
             /\ \A k \in 0..6 : used(obs)[<<"PAYEMS", MonthBefore(p, k)>>] = payroll(obs, k)
             /\ \A k \in UnemploymentMonths : used(obs)[<<"UNRATE", MonthBefore(p, k)>>] = rate(obs, k)
  <2> DEFINE result == EvaluateLaborAt(obs, p)
             back(q) == p - q[2]
  <2>1. used(obs) = [q \in keys |-> IF q[1] = "PAYEMS" THEN result.employment.observations[back(q)]
                                    ELSE result.unemployment.observations[back(q)]]
    BY DEF UsedObservations
  <2>2. /\ \A k \in 0..6 : result.employment.observations[k] = payroll(obs, k)
        /\ \A k \in UnemploymentMonths : result.unemployment.observations[k] = rate(obs, k)
    <3>1. /\ result.employment = EmploymentResult(BuildLevelIndex(obs["PAYEMS"]), p)
          /\ result.unemployment = UnemploymentResult(BuildLevelIndex(obs["UNRATE"]), p)
      BY DEF EvaluateLaborAt, LaborResultAt
    <3>2. /\ result.employment.observations = [k \in 0..6 |-> payroll(obs, k)]
          /\ result.unemployment.observations = [k \in UnemploymentMonths |-> rate(obs, k)]
      BY <3>1 DEF EmploymentResult, UnemploymentResult
    <3> QED  BY <3>2
  <2>3. /\ \A k \in 0..6 : <<"PAYEMS", MonthBefore(p, k)>> \in keys
        /\ \A k \in UnemploymentMonths : <<"UNRATE", MonthBefore(p, k)>> \in keys
    OBVIOUS
  <2>4. \A k \in 0..6 \cup UnemploymentMonths : p - MonthBefore(p, k) = k
    BY DEF MonthBefore, UnemploymentMonths
  <2> HIDE DEF keys, payroll, rate, result, used
  <2>5. \A k \in 0..6 : used(obs)[<<"PAYEMS", MonthBefore(p, k)>>] = payroll(obs, k)
    BY <2>1, <2>2, <2>3, <2>4
  <2>6. \A k \in UnemploymentMonths : used(obs)[<<"UNRATE", MonthBefore(p, k)>>] = rate(obs, k)
    BY <2>1, <2>2, <2>3, <2>4
  <2> QED  BY <2>1, <2>5, <2>6
<1>2. /\ \A k \in 0..6 : <<"PAYEMS", MonthBefore(p, k)>> \in keys
      /\ \A k \in UnemploymentMonths : <<"UNRATE", MonthBefore(p, k)>> \in keys
  OBVIOUS
<1> HIDE DEF keys, payroll, rate
<1>3. \A q \in keys : used(a)[q] = used(b)[q]
  BY <1>1, SameSeen
<1> HIDE DEF used
<1>4. /\ \A k \in 0..6 : payroll(a, k) = payroll(b, k)
      /\ \A k \in UnemploymentMonths : rate(a, k) = rate(b, k)
  BY <1>1, <1>2, <1>3
<1>5. /\ EmploymentResult(BuildLevelIndex(a["PAYEMS"]), p) = EmploymentResult(BuildLevelIndex(b["PAYEMS"]), p)
      /\ UnemploymentResult(BuildLevelIndex(a["UNRATE"]), p) = UnemploymentResult(BuildLevelIndex(b["UNRATE"]), p)
  BY <1>4, SameEmployment, SameUnemployment DEF payroll, rate
<1> QED  BY <1>5 DEF EvaluateLaborAt, LaborResultAt

\* IdenticalInputsSameState: a recorded result whose inputs are all as they were has the
\* state it had, whatever else of the data changed.
THEOREM SameInputsSameState == Spec => []IdenticalInputsSameState
<1>1. HistoryInv => IdenticalInputsSameState
  <2> SUFFICES ASSUME HistoryInv, NEW i \in DOMAIN results,
                      BuildComparison(results[i], RecomputeThen(results[i]),
                                      Recompute(results[i], rows)).status = "IDENTICAL_INPUTS"
               PROVE  Recompute(results[i], rows).state = RecomputeThen(results[i]).state
    BY DEF IdenticalInputsSameState
  <2> DEFINE r == results[i]
  <2>1. ResultOK(r, versions, runs, clock)
    BY DEF HistoryInv, ResultsInv
  <2>2. r.monitor \in Monitors /\ r.evaluation_period \in Int
    BY <2>1 DEF ResultOK
  <2>3. CASE r.monitor = "inflation"
    BY <2>2, <2>3, SameInflationState DEF RecomputeThen, Recompute
  <2>4. CASE r.monitor = "labor"
    BY <2>2, <2>4, SameLaborState DEF RecomputeThen, Recompute
  <2> QED  BY <2>2, <2>3, <2>4 DEF Monitors
<1> QED  BY HistoryInvariant, <1>1, PTL

\* Latest is the greatest of the periods, or Null if there are none.
LEMMA LatestPeriod ==
    ASSUME NEW periods, IsFiniteSet(periods), periods \subseteq Int
    PROVE  /\ periods = {} => Latest(periods) = Null
           /\ periods # {} => /\ Latest(periods) \in periods /\ Latest(periods) # Null
                              /\ \A q \in periods : q =< Latest(periods)
<1>1. ASSUME periods # {}
      PROVE  \E p \in periods : \A q \in periods : q =< p
  <2> DEFINE R == {pair \in periods \X periods : pair[1] < pair[2]}
             n == Cardinality(periods)
             rank(p) == Cardinality(Before(R, periods, p))
  <2>1. Orders(R, periods)
    BY DEF Orders
  <2>2. \A p, q \in periods : <<p, q>> \in R <=> p < q
    OBVIOUS
  <2> HIDE DEF R
  <2>3. /\ n \in Nat /\ \A p \in periods : rank(p) \in 0..(n - 1)
        /\ \A p, q \in periods : <<p, q>> \in R <=> rank(p) < rank(q)
        /\ \A k \in 0..(n - 1) : \E p \in periods : rank(p) = k
    <3>1. IsFiniteSet(periods)
      OBVIOUS
    <3>2. n \in Nat
      BY <3>1, FS_CardinalityType
    <3>3. \A p \in periods : rank(p) \in 0..(n - 1)
      BY <2>1, Ranked
    <3>4. \A p, q \in periods : <<p, q>> \in R <=> rank(p) < rank(q)
      BY <2>1, Ranked
    <3>5. \A k \in 0..(n - 1) : \E p \in periods : rank(p) = k
      <4>1. FillsRanks(R, periods)
        BY <2>1, RanksAreFilled
      <4> QED  BY <4>1 DEF FillsRanks
    <3> QED  BY <3>2, <3>3, <3>4, <3>5
  <2>4. n # 0
    BY <1>1, FS_EmptySet
  <2> HIDE DEF n, rank
  <2>5. n - 1 \in 0..(n - 1)
    BY <2>3, <2>4
  <2>6. PICK p \in periods : rank(p) = n - 1
    BY <2>3, <2>5
  <2>7. \A q \in periods : ~(p < q)
    <3> SUFFICES ASSUME NEW q \in periods, p < q PROVE FALSE
      OBVIOUS
    <3>1. rank(p) < rank(q)
      BY <2>2, <2>3
    <3>2. rank(q) \in 0..(n - 1)
      BY <2>3
    <3> QED  BY <2>3, <2>6, <3>1, <3>2
  <2> QED  BY <2>7
<1> QED  BY <1>1, NullAssumption DEF Latest

LEMMA LatestObservation ==
    ASSUME NEW obs, Observations(obs)
    PROVE  /\ LatestObservationDate(obs) \in Int \cup {Null}
           /\ DOMAIN obs # {} => LatestObservationDate(obs) \in Int
           /\ \A m \in DOMAIN obs : m =< LatestObservationDate(obs)
BY LatestPeriod DEF LatestObservationDate, Observations

\* PeriodsInOrder: confirmation is judged no later than What Changed compares and than
\* the monitor's own month, and no later than the page's data_through.
THEOREM PeriodsAreInOrder == Spec => []PeriodsInOrder
<1>1. HistoryInv => PeriodsInOrder
  <2> DEFINE P == rows["PCEPILFE"]
             C == rows["CPILFESL"]
             T == rows["PCEPI"]
             H == rows["CPIAUCSL"]
             page == InflationResult(P, C, T, H)
             common == LatestCommonPeriod(BuildIndex(P), BuildIndex(C))
             shared == LatestSharedObservationPeriod(P, C)
             commons == {p \in DOMAIN BuildIndex(P) \cap DOMAIN BuildIndex(C) :
                           \A n \in UnderlyingHorizons : /\ Rate(BuildIndex(P), p, n) # Null
                                                         /\ Rate(BuildIndex(C), p, n) # Null}
             valids == {p \in DOMAIN BuildIndex(P) : \A n \in UnderlyingHorizons : Rate(BuildIndex(P), p, n) # Null}
             through == {LatestObservationDate(P), LatestObservationDate(C),
                         LatestObservationDate(T), LatestObservationDate(H)} \ {Null}
  <2>1. page.periods.latest_common_period = common
    BY DEF InflationResult, Confirmation
  <2>2. page.underlying_momentum.calculation_period
          = IF LatestValidStatePeriod(BuildIndex(P)) # Null THEN LatestValidStatePeriod(BuildIndex(P))
            ELSE LatestObservationDate(P)
    BY DEF InflationResult, SeriesMomentum, SeriesMomentumAt, ClassifyPeriod
  <2>3. page.periods.data_through = Latest(through)
    <3>1. \A obs : SeriesMomentum(obs).latest_observation_period = LatestObservationDate(obs)
      BY DEF SeriesMomentum, SeriesMomentumAt, ClassifyPeriod
    <3> DEFINE u == SeriesMomentum(P)
               c == Confirmation(P, C)
               h == HeadlineContext(T, H)
    <3>2. page.periods.data_through
            = Latest({r.latest_observation_period :
                        r \in {u, c.confirmation_latest, h.headline_pce, h.headline_cpi}} \ {Null})
      BY DEF InflationResult
    <3>3. c.confirmation_latest = SeriesMomentum(C) /\ h.headline_pce = SeriesMomentum(T)
          /\ h.headline_cpi = SeriesMomentum(H)
      BY DEF Confirmation, HeadlineContext
    <3>4. {r.latest_observation_period : r \in {u, c.confirmation_latest, h.headline_pce, h.headline_cpi}}
            = {LatestObservationDate(P), LatestObservationDate(C),
               LatestObservationDate(T), LatestObservationDate(H)}
      <4> HIDE DEF u, c, h
      <4>1. /\ u.latest_observation_period = LatestObservationDate(P)
            /\ c.confirmation_latest.latest_observation_period = LatestObservationDate(C)
            /\ h.headline_pce.latest_observation_period = LatestObservationDate(T)
            /\ h.headline_cpi.latest_observation_period = LatestObservationDate(H)
        BY <3>1, <3>3 DEF u
      <4> QED  BY <4>1
    <3> QED  BY <3>2, <3>4
  <2>4. LatestValidStatePeriod(BuildIndex(P)) = Latest(valids)
    BY DEF LatestValidStatePeriod, LatestPeriodWithHorizons
  <2>5. common = Latest(commons) /\ shared = Latest(DOMAIN P \cap DOMAIN C)
    BY DEF LatestCommonPeriod, LatestSharedObservationPeriod
  <2> SUFFICES ASSUME HistoryInv, common # Null
               PROVE  /\ shared # Null /\ common =< shared
                      /\ common =< page.underlying_momentum.calculation_period
                      /\ shared =< page.periods.data_through
    BY <2>1 DEF PeriodsInOrder
  <2>6. Observations(P) /\ Observations(C) /\ Observations(T) /\ Observations(H)
    BY DEF HistoryInv, RowsInv, Series, InflationSeries
  <2>7. /\ DOMAIN BuildIndex(P) \subseteq DOMAIN P /\ DOMAIN BuildIndex(C) \subseteq DOMAIN C
        /\ commons \subseteq valids /\ commons \subseteq DOMAIN P \cap DOMAIN C
        /\ valids \subseteq DOMAIN P
    BY DEF BuildIndex
  <2>8. DOMAIN P \subseteq Int /\ IsFiniteSet(DOMAIN P)
    BY <2>6 DEF Observations
  <2> HIDE DEF P, C, T, H, page, common, shared, commons, valids
  <2>9. /\ IsFiniteSet(commons) /\ commons \subseteq Int
        /\ IsFiniteSet(valids) /\ valids \subseteq Int
        /\ IsFiniteSet(DOMAIN P \cap DOMAIN C) /\ DOMAIN P \cap DOMAIN C \subseteq Int
    <3>1. commons \in SUBSET DOMAIN P /\ valids \in SUBSET DOMAIN P /\ DOMAIN P \cap DOMAIN C \in SUBSET DOMAIN P
      BY <2>7
    <3> QED  BY <2>8, <3>1, FS_Subset
  <2>10. common \in commons
    BY <2>5, <2>9, LatestPeriod
  <2>11. shared \in DOMAIN P \cap DOMAIN C /\ shared # Null /\ common =< shared
    BY <2>5, <2>7, <2>9, <2>10, LatestPeriod
  <2>12. common =< page.underlying_momentum.calculation_period
    <3>1. valids # {}
      BY <2>7, <2>10
    <3>2. Latest(valids) # Null /\ common =< Latest(valids)
      BY <2>7, <2>9, <2>10, <3>1, LatestPeriod
    <3> QED  BY <2>2, <2>4, <3>2
  <2>13. shared =< page.periods.data_through
    <3>1. shared =< LatestObservationDate(P) /\ LatestObservationDate(P) \in Int
      BY <2>6, <2>11, LatestObservation
    <3>2. through \subseteq Int
      BY <2>6, LatestObservation
    <3>3. IsFiniteSet(through)
      <4>1. IsFiniteSet({LatestObservationDate(P)})
        BY FS_Singleton
      <4>2. IsFiniteSet({LatestObservationDate(P), LatestObservationDate(C)})
        <5>1. {LatestObservationDate(P), LatestObservationDate(C)} = {LatestObservationDate(P)} \cup {LatestObservationDate(C)}
          OBVIOUS
        <5> QED  BY <4>1, <5>1, FS_AddElement
      <4>3. IsFiniteSet({LatestObservationDate(P), LatestObservationDate(C), LatestObservationDate(T)})
        <5>1. {LatestObservationDate(P), LatestObservationDate(C), LatestObservationDate(T)}
                = {LatestObservationDate(P), LatestObservationDate(C)} \cup {LatestObservationDate(T)}
          OBVIOUS
        <5> QED  BY <4>2, <5>1, FS_AddElement
      <4>4. IsFiniteSet({LatestObservationDate(P), LatestObservationDate(C),
                         LatestObservationDate(T), LatestObservationDate(H)})
        <5>1. {LatestObservationDate(P), LatestObservationDate(C), LatestObservationDate(T), LatestObservationDate(H)}
                = {LatestObservationDate(P), LatestObservationDate(C), LatestObservationDate(T)} \cup {LatestObservationDate(H)}
          OBVIOUS
        <5> QED  BY <4>3, <5>1, FS_AddElement
      <4> QED  BY <4>4, FS_RemoveElement
    <3>4. LatestObservationDate(P) \in through
      BY <3>1, NullAssumption
    <3>5. Latest(through) \in through /\ LatestObservationDate(P) =< Latest(through)
      <4> HIDE DEF through
      <4> QED  BY <3>2, <3>3, <3>4, LatestPeriod
    <3>6. shared \in Int /\ Latest(through) \in Int
      BY <2>9, <2>11, <3>2, <3>5
    <3> HIDE DEF through
    <3> QED  BY <2>3, <3>1, <3>5, <3>6
  <2> QED  BY <2>11, <2>12, <2>13
<1> QED  BY HistoryInvariant, <1>1, PTL

\* What a check leaves alone.
LEMMA Untouched ==
    ASSUME NEW changes, NEW before, DOMAIN before = Series, NEW s \in Series,
           NEW m, m \notin ChangedMonths(changes, s)
    PROVE  LET after == WriteChanges(changes, before)
           IN  /\ m \in DOMAIN after[s] <=> m \in DOMAIN before[s]
               /\ At(BuildIndex(after[s]), m) = At(BuildIndex(before[s]), m)
               /\ At(BuildLevelIndex(after[s]), m) = At(BuildLevelIndex(before[s]), m)
<1> DEFINE a == WriteChanges(changes, before)[s]
           b == before[s]
<1>1. a = Overlay(b, Written(changes, s)) /\ DOMAIN Written(changes, s) = ChangedMonths(changes, s)
  BY DEF WriteChanges, Written
<1>2. (m \in DOMAIN a <=> m \in DOMAIN b) /\ (m \in DOMAIN b => a[m] = b[m])
  BY <1>1 DEF Overlay
<1> HIDE DEF a, b
<1>3. \A f : /\ m \in DOMAIN BuildIndex(f) <=> m \in DOMAIN f /\ IsValidIndexValue(f[m])
             /\ m \in DOMAIN BuildIndex(f) => BuildIndex(f)[m] = f[m]
             /\ m \in DOMAIN BuildLevelIndex(f) <=> m \in DOMAIN f /\ f[m] # Null
             /\ m \in DOMAIN BuildLevelIndex(f) => BuildLevelIndex(f)[m] = f[m]
  BY DEF BuildIndex, BuildLevelIndex
<1>4. /\ m \in DOMAIN BuildIndex(a) <=> m \in DOMAIN BuildIndex(b)
      /\ m \in DOMAIN BuildLevelIndex(a) <=> m \in DOMAIN BuildLevelIndex(b)
  BY <1>2, <1>3
<1>5. At(BuildIndex(a), m) = At(BuildIndex(b), m) /\ At(BuildLevelIndex(a), m) = At(BuildLevelIndex(b), m)
  BY <1>2, <1>3, <1>4 DEF At
<1> QED  BY <1>2, <1>5 DEF a, b

\* The periods at which a check looks at a component of s again.
Touched(changes, before, s) ==
    AffectedEvaluationPeriods(ChangedMonths(changes, s), ChangedMonths(changes, s) \cup DOMAIN before[s])

LEMMA TouchedPair ==
    ASSUME NEW changes, NEW before, NEW s, NEW p \in Touched(changes, before, s),
           ChangedMonths(changes, s) # {}, NEW component \in ComponentsForSeries(s)
    PROVE  <<component, p>> \in AffectedPairs(changes, before)
<1>1. s \in {c.series : c \in changes}
  BY DEF ChangedMonths
<1>2. <<component, p>> \in ComponentsForSeries(s) \X Touched(changes, before, s)
  OBVIOUS
<1> QED  BY <1>1, <1>2 DEF AffectedPairs, Touched

LEMMA RateTouched ==
    ASSUME NEW changes, NEW before, DOMAIN before = Series, NEW s \in Series,
           ChangedMonths(changes, s) \subseteq Int, NEW p \in Int, NEW n \in Horizons,
           Rate(BuildIndex(WriteChanges(changes, before)[s]), p, n) # Rate(BuildIndex(before[s]), p, n)
    PROVE  p \in Touched(changes, before, s) /\ ChangedMonths(changes, s) # {}
<1> DEFINE a == BuildIndex(WriteChanges(changes, before)[s])
           b == BuildIndex(before[s])
           changed == ChangedMonths(changes, s)
<1>1. ASSUME p \notin changed
      PROVE  /\ At(a, p) = At(b, p)
             /\ p \in DOMAIN before[s]
             /\ p - n \in changed
  <2>1. At(a, p) = At(b, p)
    BY <1>1, Untouched
  <2>2. At(a, p) # Null
    BY <2>1 DEF Rate
  <2>3. p \in DOMAIN before[s]
    BY <1>1, <2>1, <2>2 DEF At, BuildIndex
  <2>4. p - n \in changed
    <3> SUFFICES ASSUME p - n \notin changed PROVE FALSE
      OBVIOUS
    <3>1. At(a, p - n) = At(b, p - n)
      BY Untouched
    <3> QED  BY <2>1, <3>1 DEF Rate, MonthBefore
  <2> QED  BY <2>1, <2>3, <2>4
<1>2. CASE p \in changed
  BY <1>2 DEF Touched, AffectedEvaluationPeriods
<1>3. CASE p \notin changed
  <2>1. p = AddMonths(p - n, n) /\ n \in AffectedHorizons \ {0}
    BY DEF AddMonths, AffectedHorizons, Horizons
  <2> QED  BY <1>1, <1>3, <2>1 DEF Touched, AffectedEvaluationPeriods
<1> QED  BY <1>2, <1>3

\* A component that reads the momentum of a series, and what it says.
LEMMA MomentumTouched ==
    ASSUME NEW changes, NEW before, DOMAIN before = Series, NEW s \in Series,
           ChangedMonths(changes, s) \subseteq Int, NEW p \in Int,
           LET b == SeriesMomentumAt(before[s], p)
               a == SeriesMomentumAt(WriteChanges(changes, before)[s], p)
           IN  b.state # a.state \/ b.rates # a.rates
    PROVE  /\ p \in Touched(changes, before, s) /\ ChangedMonths(changes, s) # {}
           /\ \E n \in Horizons : SeriesMomentumAt(before[s], p).rates[n]
                                    # SeriesMomentumAt(WriteChanges(changes, before)[s], p).rates[n]
<1> DEFINE b == SeriesMomentumAt(before[s], p)
           a == SeriesMomentumAt(WriteChanges(changes, before)[s], p)
<1>1. /\ b.rates = [n \in Horizons |-> Rate(BuildIndex(before[s]), p, n)]
      /\ b.state = StateOf(b.rates)
  BY MomentumAt
<1>2. /\ a.rates = [n \in Horizons |-> Rate(BuildIndex(WriteChanges(changes, before)[s]), p, n)]
      /\ a.state = StateOf(a.rates)
  BY MomentumAt
<1>3. b.rates # a.rates
  BY <1>1, <1>2
<1> HIDE DEF a, b
<1>4. PICK n \in Horizons : b.rates[n] # a.rates[n]
  BY <1>1, <1>2, <1>3
<1>5. p \in Touched(changes, before, s) /\ ChangedMonths(changes, s) # {}
  BY <1>1, <1>2, <1>4, RateTouched
<1> QED  BY <1>4, <1>5 DEF a, b

LEMMA MomentumReported ==
    ASSUME NEW changes, NEW before, DOMAIN before = Series, NEW s \in Series,
           ChangedMonths(changes, s) \subseteq Int, NEW p \in Int,
           NEW component \in ComponentsForSeries(s),
           component \in {"PRIMARY_MOMENTUM", "HEADLINE_PCE", "HEADLINE_CPI"},
           \A obs : EvaluateComponentAt(obs, component, p) = SeriesMomentumAt(obs[s], p),
           NEW after, after[s] = WriteChanges(changes, before)[s],
           Outcome(component, before, p) # Outcome(component, after, p)
    PROVE  \E e \in AnalysisUpdates(changes, before, after) :
             e.component = component /\ e.current_period = p
<1> DEFINE b == SeriesMomentumAt(before[s], p)
           a == SeriesMomentumAt(after[s], p)
<1>1. EvaluateComponentAt(before, component, p) = b /\ EvaluateComponentAt(after, component, p) = a
  OBVIOUS
<1>2. b.state # a.state \/ b.rates # a.rates
  BY <1>1 DEF Outcome
<1>3. /\ p \in Touched(changes, before, s) /\ ChangedMonths(changes, s) # {}
      /\ \E n \in Horizons : b.rates[n] # a.rates[n]
  BY <1>2, MomentumTouched
<1>4. <<component, p>> \in AffectedPairs(changes, before)
  BY <1>3, TouchedPair
<1> HIDE DEF a, b
<1>5. PICK f \in DOMAIN MomentumFields : b.rates[MomentumFields[f]] # a.rates[MomentumFields[f]]
  BY <1>3 DEF MomentumFields, Horizons
<1>6. PICK e \in MetricEvents(component, f, b.rates[MomentumFields[f]], a.rates[MomentumFields[f]], <<p, p>>) :
         e.component = component /\ e.current_period = p
  BY <1>5, FieldTold DEF MetricEvents
<1>7. e \in MomentumEvents(component, b, a, <<p, p>>)
  BY <1>6, NullAssumption DEF MomentumEvents
<1>8. DiffComponentAt(component, p, before, after) = MomentumEvents(component, b, a, <<p, p>>)
  BY <1>1 DEF DiffComponentAt
<1>9. DiffComponentAt(component, p, before, after) \subseteq AnalysisUpdates(changes, before, after)
  BY <1>4, AnalysesTold
<1> QED  BY <1>6, <1>7, <1>8, <1>9

\* What a component says of what was written over what it read before.
LEMMA NothingMissed ==
    ASSUME NEW changes, NEW before, NEW after, DOMAIN before = Series,
           \A s \in Series : ChangedMonths(changes, s) \subseteq Int, NEW p \in Int
    PROVE  /\ \A c \in InflationComponents :
                (/\ \A s \in InputSeries(c) : after[s] = WriteChanges(changes, before)[s]
                 /\ Outcome(c, before, p) # Outcome(c, after, p))
                 => \E e \in AnalysisUpdates(changes, before, after) : e.component = c /\ e.current_period = p
           /\ (/\ after["UNRATE"] = WriteChanges(changes, before)["UNRATE"]
               /\ EvaluateLaborAt(before, p).unemployment.delta_pp
                    # EvaluateLaborAt(after, p).unemployment.delta_pp)
               => \E e \in AnalysisUpdates(changes, before, after) :
                    e.component = "UNEMPLOYMENT" /\ e.current_period = p
<1> DEFINE written(s) == after[s] = WriteChanges(changes, before)[s]
           told(c) == \E e \in AnalysisUpdates(changes, before, after) : e.component = c /\ e.current_period = p
<1>0. {"PCEPILFE", "CPILFESL", "PCEPI", "CPIAUCSL", "UNRATE"} \subseteq Series
  BY DEF Series, InflationSeries, LaborSeries
<1>1. /\ \A obs : EvaluateComponentAt(obs, "PRIMARY_MOMENTUM", p) = SeriesMomentumAt(obs["PCEPILFE"], p)
      /\ \A obs : EvaluateComponentAt(obs, "HEADLINE_PCE", p) = SeriesMomentumAt(obs["PCEPI"], p)
      /\ \A obs : EvaluateComponentAt(obs, "HEADLINE_CPI", p) = SeriesMomentumAt(obs["CPIAUCSL"], p)
      /\ \A obs : EvaluateComponentAt(obs, "TARGET", p) = TargetAt(obs["PCEPI"], p)
      /\ \A obs : EvaluateComponentAt(obs, "CONFIRMATION", p) = ConfirmationAt(obs["PCEPILFE"], obs["CPILFESL"], p)
  BY DEF EvaluateComponentAt
<1>2. ASSUME written("PCEPILFE"), Outcome("PRIMARY_MOMENTUM", before, p) # Outcome("PRIMARY_MOMENTUM", after, p)
      PROVE  told("PRIMARY_MOMENTUM")
  BY <1>0, <1>1, <1>2, ComponentsOf, MomentumReported
<1>3. ASSUME written("PCEPI"), Outcome("HEADLINE_PCE", before, p) # Outcome("HEADLINE_PCE", after, p)
      PROVE  told("HEADLINE_PCE")
  BY <1>0, <1>1, <1>3, ComponentsOf, MomentumReported
<1>4. ASSUME written("CPIAUCSL"), Outcome("HEADLINE_CPI", before, p) # Outcome("HEADLINE_CPI", after, p)
      PROVE  told("HEADLINE_CPI")
  BY <1>0, <1>1, <1>4, ComponentsOf, MomentumReported
<1>5. ASSUME written("PCEPI"), Outcome("TARGET", before, p) # Outcome("TARGET", after, p)
      PROVE  told("TARGET")
  <2> DEFINE b == TargetAt(before["PCEPI"], p)
             a == TargetAt(after["PCEPI"], p)
  <2>1. b.headline_pce_yoy # a.headline_pce_yoy
    BY <1>1, <1>5 DEF Outcome
  <2>2. \A obs : TargetAt(obs, p).headline_pce_yoy = Rate(BuildIndex(obs), p, 12)
    BY NullAssumption DEF TargetAt, TargetResult
  <2>3. 12 \in Horizons /\ Rate(BuildIndex(before["PCEPI"]), p, 12) # Rate(BuildIndex(after["PCEPI"]), p, 12)
    BY <2>1, <2>2 DEF Horizons
  <2>4. <<"TARGET", p>> \in AffectedPairs(changes, before)
    BY <1>0, <1>5, <2>3, ComponentsOf, RateTouched, TouchedPair
  <2>5. DiffComponentAt("TARGET", p, before, after) = TargetEvents(b, a, <<p, p>>)
    BY <1>1 DEF DiffComponentAt
  <2>6. DiffComponentAt("TARGET", p, before, after) \subseteq AnalysisUpdates(changes, before, after)
    BY <2>4, AnalysesTold
  <2> HIDE DEF a, b
  <2>7. PICK e \in MetricEvents("TARGET", "headline_pce_yoy", b["headline_pce_yoy"], a["headline_pce_yoy"], <<p, p>>) :
           e.component = "TARGET" /\ e.current_period = p
    BY <2>1, FieldTold DEF MetricEvents
  <2>8. e \in TargetEvents(b, a, <<p, p>>)
    BY <2>7, NullAssumption DEF TargetEvents
  <2> QED  BY <2>5, <2>6, <2>7, <2>8
<1>6. ASSUME written("PCEPILFE"), written("CPILFESL"),
             Outcome("CONFIRMATION", before, p) # Outcome("CONFIRMATION", after, p)
      PROVE  told("CONFIRMATION")
  <2> DEFINE b == ConfirmationAt(before["PCEPILFE"], before["CPILFESL"], p)
             a == ConfirmationAt(after["PCEPILFE"], after["CPILFESL"], p)
  <2>1. b.relationship # a.relationship
    BY <1>1, <1>6 DEF Outcome
  <2>2. PICK s \in {"PCEPILFE", "CPILFESL"} :
           SeriesMomentumAt(before[s], p).state # SeriesMomentumAt(after[s], p).state
    BY <2>1 DEF ConfirmationAt
  <2>3. p \in Touched(changes, before, s) /\ ChangedMonths(changes, s) # {}
    BY <1>0, <1>6, <2>2, MomentumTouched
  <2>4. <<"CONFIRMATION", p>> \in AffectedPairs(changes, before)
    BY <2>3, ComponentsOf, TouchedPair
  <2>5. DiffComponentAt("CONFIRMATION", p, before, after) = ConfirmationEvents(b, a, <<p, p>>)
    BY <1>1 DEF DiffComponentAt
  <2>6. DiffComponentAt("CONFIRMATION", p, before, after) \subseteq AnalysisUpdates(changes, before, after)
    BY <2>4, AnalysesTold
  <2> HIDE DEF a, b
  <2> DEFINE e == Event("CONFIRMATION", "CONFIRMATION_CHANGED", "relationship", b.relationship, a.relationship, <<p, p>>)
  <2>7. e \in ConfirmationEvents(b, a, <<p, p>>)
    BY <2>1, NullAssumption DEF ConfirmationEvents, RelationshipEvents
  <2>8. e.component = "CONFIRMATION" /\ e.current_period = p
    BY DEF Event
  <2> QED  BY <2>5, <2>6, <2>7, <2>8
<1>7. ASSUME written("UNRATE"), EvaluateLaborAt(before, p).unemployment.delta_pp # EvaluateLaborAt(after, p).unemployment.delta_pp
      PROVE  told("UNEMPLOYMENT")
  <2> DEFINE b == EvaluateLaborAt(before, p)
             a == EvaluateLaborAt(after, p)
  <2>1. PICK k \in UnemploymentMonths : At(BuildLevelIndex(before["UNRATE"]), MonthBefore(p, k))
                                          # At(BuildLevelIndex(after["UNRATE"]), MonthBefore(p, k))
    BY <1>7, SameUnemployment DEF EvaluateLaborAt, LaborResultAt
  <2>2. p - k \in ChangedMonths(changes, "UNRATE")
    BY <1>0, <1>7, <2>1, Untouched DEF MonthBefore
  <2>3. p = AddMonths(p - k, k) /\ k \in UnrateAffectedHorizons
    BY DEF AddMonths, UnemploymentMonths, UnrateAffectedHorizons
  <2>4. p \in AffectedLaborPeriods(changes)
    BY <2>2, <2>3 DEF AffectedLaborPeriods, LaborAffectedPeriods, UnrateAffectedPeriods
  <2>5. DiffLaborAt(p, before, after) \subseteq AnalysisUpdates(changes, before, after)
    BY <2>4, AnalysesTold
  <2>6. DiffLaborAt(p, before, after) = LaborEvents(b, a, <<p, p>>)
    BY DEF DiffLaborAt
  <2> HIDE DEF a, b
  <2>7. PICK e \in MetricEvents("UNEMPLOYMENT", "delta_pp", b.unemployment["delta_pp"],
                               a.unemployment["delta_pp"], <<p, p>>) :
           e.component = "UNEMPLOYMENT" /\ e.current_period = p
    BY <1>7, FieldTold DEF MetricEvents, a, b
  <2>8. e \in LaborEvents(b, a, <<p, p>>)
    BY <2>7 DEF LaborEvents, UnemploymentEvents
  <2> QED  BY <2>5, <2>6, <2>7, <2>8
<1> QED  BY <1>2, <1>3, <1>4, <1>5, <1>6, <1>7 DEF InflationComponents, InputSeries

Alike(component, u, v) == \A s \in InputSeries(component) : u[s] = v[s]

\* What is told of a component depends on the series it reads alone.
LEMMA SameOutcome ==
    ASSUME NEW component \in InflationComponents, NEW u, NEW v, NEW p, Alike(component, u, v)
    PROVE  Outcome(component, u, p) = Outcome(component, v, p)
<1>1. EvaluateComponentAt(u, component, p) = EvaluateComponentAt(v, component, p)
  BY DEF Alike, InflationComponents, InputSeries, EvaluateComponentAt
<1> QED  BY <1>1 DEF Outcome

LEMMA SameUnemploymentOf ==
    ASSUME NEW u, NEW v, NEW p, u["UNRATE"] = v["UNRATE"]
    PROVE  EvaluateLaborAt(u, p).unemployment = EvaluateLaborAt(v, p).unemployment
BY DEF EvaluateLaborAt, LaborResultAt

LEMMA OnlyCommitsRecord ==
    ASSUME MonitorInv, Next, Len(runs') > Len(runs)
    PROVE  \E w \in Workers : Commit(w) /\ \A v \in Workers \ {w} : check'[v] = check[v]
<1>1. PICK S : runs \in Seq(S)
  BY DEF MonitorInv
<1>2. Len(runs) \in Nat
  BY <1>1
<1>3. runs' # runs
  <2> SUFFICES ASSUME runs' = runs PROVE FALSE
    OBVIOUS
  <2> QED  BY <1>2
<1>4. \E w \in Workers : Commit(w)
  BY <1>3 DEF Next, Classify, CaptureBefore, Analyse, Abort, ImportWrite, ImportCommit
<1> QED  BY <1>4 DEF Commit, MonitorInv

LEMMA CalendarPeriods ==
    ASSUME NEW before, DOMAIN before = Series, \A s \in Series : Observations(before[s]),
           NEW after, \A s \in Series : Observations(after[s])
    PROVE  Evaluable(before, after) \subseteq Int /\ LaborPeriods(before, after) \subseteq Int
<1>1. ASSUME NEW p \in Evaluable(before, after) PROVE p \in Int
  <2>1. PICK s \in Series : p \in DOMAIN before[s] \cup DOMAIN after[s]
    BY DEF Evaluable
  <2>2. Observations(before[s]) /\ Observations(after[s])
    BY <2>1
  <2> QED  BY <2>1, <2>2 DEF Observations
<1> QED  BY <1>1 DEF LaborPeriods, AddMonths

\* AnalysisMissesNothing: whatever was committed between a check's judgement of the answers
\* and its evidence, it reports each inflation component, and unemployment, at every period at
\* which its writes changed what a reader is told, unless another transaction wrote what the
\* component reads between that evidence and the commit.
THEOREM NothingIsMissed == Spec => AnalysisMissesNothing
<1> DEFINE Told ==
      \A w \in Workers : Len(runs') > Len(runs) /\ check'[w] # check[w] =>
         /\ \A c \in InflationComponents : ReadsWritten(c) /\ Undisturbed(w, c) =>
              \A p \in Evaluable(rows, rows') :
                 Outcome(c, rows, p) # Outcome(c, rows', p) => Reported(LastRun', {c}, p)
         /\ ReadsWritten("UNEMPLOYMENT") /\ Undisturbed(w, "UNEMPLOYMENT") =>
              \A p \in LaborPeriods(rows, rows') :
                 EvaluateLaborAt(rows, p).unemployment.delta_pp # EvaluateLaborAt(rows', p).unemployment.delta_pp
                   => Reported(LastRun', {"UNEMPLOYMENT"}, p)
<1>1. ASSUME MonitorInv, HistoryInv, HistoryInv', Next PROVE Told
  <2> SUFFICES ASSUME NEW w \in Workers, Len(runs') > Len(runs), check'[w] # check[w]
               PROVE  /\ \A k \in InflationComponents : Undisturbed(w, k) =>
                           \A p \in Evaluable(rows, rows') :
                             Outcome(k, rows, p) # Outcome(k, rows', p) => Reported(LastRun', {k}, p)
                      /\ Undisturbed(w, "UNEMPLOYMENT") =>
                           \A p \in LaborPeriods(rows, rows') :
                             EvaluateLaborAt(rows, p).unemployment.delta_pp
                               # EvaluateLaborAt(rows', p).unemployment.delta_pp
                             => Reported(LastRun', {"UNEMPLOYMENT"}, p)
    OBVIOUS
  <2>1. Commit(w)
    BY <1>1, OnlyCommitsRecord
  <2> DEFINE c == check[w]
             updates == AnalysisUpdates(c.changes, c.before, c.after)
  <2>2. rows' = WriteChanges(c.changes, rows)
    BY <2>1 DEF Commit
  <2>3. LastRun'.analysis_updates = updates
    <3>1. PICK S : runs \in Seq(S)
      BY <1>1 DEF MonitorInv
    <3>2. runs' = Append(runs, CheckRun(c))
      BY <2>1 DEF Commit
    <3>3. Len(runs') = Len(runs) + 1 /\ runs'[Len(runs) + 1] = CheckRun(c)
      <4>1. \E T : runs \in Seq(T) /\ CheckRun(c) \in T
        <5>1. runs \in Seq(S \cup {CheckRun(c)})
          BY <3>1
        <5> QED  BY <5>1
      <4> QED  BY <3>2, <4>1, AppendProperties
    <3>4. LastRun' = CheckRun(c)
      BY <3>3 DEF LastRun
    <3> QED  BY <3>4 DEF CheckRun
  <2>4. SessionOK(c, versions, clock) /\ c.phase = "analysed"
    BY <1>1, <2>1 DEF HistoryInv, CheckInv, Live, Commit, Idle, Dead
  <2>5. (\A s \in Series : ChangedMonths(c.changes, s) \subseteq Int) /\ DOMAIN c.before = Series
    BY <2>4 DEF SessionOK, ChangesOf, ChangedMonths
  <2>6. DOMAIN rows = Series /\ \A s \in Series : Observations(rows[s]) /\ Observations(rows'[s])
    BY <1>1 DEF HistoryInv, RowsInv
  <2>7. Evaluable(rows, rows') \subseteq Int /\ LaborPeriods(rows, rows') \subseteq Int
    BY <2>6, CalendarPeriods
  <2>8. ASSUME NEW k, InputSeries(k) \subseteq Series, Undisturbed(w, k), NEW s \in InputSeries(k)
        PROVE  /\ c.before[s] = rows[s] /\ c.after[s] = rows'[s]
               /\ c.after[s] = WriteChanges(c.changes, c.before)[s]
    <3>1. c.before[s] = rows[s] /\ c.after[s] = WriteChanges(c.changes, rows)[s]
      BY <2>8 DEF Undisturbed
    <3>2. WriteChanges(c.changes, c.before)[s] = WriteChanges(c.changes, rows)[s]
      BY <2>5, <2>6, <2>8, <3>1 DEF WriteChanges
    <3> QED  BY <2>2, <3>1, <3>2
  <2>9. /\ \A k \in InflationComponents : InputSeries(k) \subseteq Series
        /\ InputSeries("UNEMPLOYMENT") = {"UNRATE"} /\ InputSeries("UNEMPLOYMENT") \subseteq Series
    BY DEF InflationComponents, InputSeries, Series, InflationSeries, LaborSeries
  <2>10. \A k, p : (\E e \in updates : e.component = k /\ e.current_period = p) => Reported(LastRun', {k}, p)
    BY <2>3 DEF Reported
  <2>11. ASSUME NEW k \in InflationComponents, Undisturbed(w, k), NEW p \in Evaluable(rows, rows'),
                Outcome(k, rows, p) # Outcome(k, rows', p)
         PROVE  Reported(LastRun', {k}, p)
    <3>1. \A s \in InputSeries(k) : /\ c.before[s] = rows[s] /\ c.after[s] = rows'[s]
                                   /\ c.after[s] = WriteChanges(c.changes, c.before)[s]
      BY <2>8, <2>9, <2>11
    <3> HIDE DEF c
    <3>2. Outcome(k, c.before, p) = Outcome(k, rows, p) /\ Outcome(k, c.after, p) = Outcome(k, rows', p)
      <4>1. Alike(k, c.before, rows) /\ Alike(k, c.after, rows')
        BY <3>1 DEF Alike
      <4> QED  BY <4>1, SameOutcome
    <3>3. \E e \in updates : e.component = k /\ e.current_period = p
      BY <2>5, <2>7, <2>11, <3>1, <3>2, NothingMissed
    <3> QED  BY <2>10, <3>3
  <2>12. ASSUME Undisturbed(w, "UNEMPLOYMENT"), NEW p \in LaborPeriods(rows, rows'),
                EvaluateLaborAt(rows, p).unemployment.delta_pp # EvaluateLaborAt(rows', p).unemployment.delta_pp
         PROVE  Reported(LastRun', {"UNEMPLOYMENT"}, p)
    <3>1. /\ c.before["UNRATE"] = rows["UNRATE"] /\ c.after["UNRATE"] = rows'["UNRATE"]
          /\ c.after["UNRATE"] = WriteChanges(c.changes, c.before)["UNRATE"]
      BY <2>8, <2>9, <2>12
    <3> HIDE DEF c
    <3>2. EvaluateLaborAt(c.before, p).unemployment.delta_pp # EvaluateLaborAt(c.after, p).unemployment.delta_pp
      <4>1. /\ EvaluateLaborAt(c.before, p).unemployment = EvaluateLaborAt(rows, p).unemployment
            /\ EvaluateLaborAt(c.after, p).unemployment = EvaluateLaborAt(rows', p).unemployment
        <5>1. \A u, v : u["UNRATE"] = v["UNRATE"] =>
                          EvaluateLaborAt(u, p).unemployment = EvaluateLaborAt(v, p).unemployment
          BY SameUnemploymentOf
        <5> QED  BY <3>1, <5>1
      <4> QED  BY <2>12, <4>1
    <3>3. \E e \in updates : e.component = "UNEMPLOYMENT" /\ e.current_period = p
      BY <2>5, <2>7, <3>1, <3>2, NothingMissed
    <3> QED  BY <2>10, <3>3
  <2> QED  BY <2>11, <2>12
<1>2. MonitorInv /\ HistoryInv /\ HistoryInv' /\ [Next]_vars => [Told]_vars
  BY <1>1
<1> QED
  BY HistoryInvariant, <1>2, PTL DEF Spec, AnalysisMissesNothing

LEMMA LeastOf ==
    ASSUME NEW set, set \subseteq Nat, set # {}
    PROVE  \E i \in set : \A j \in set : i =< j
<1> DEFINE R == OpToRel(<, Nat)
<1>1. IsWellFoundedOn(R, Nat)
  BY NatLessThanWellFounded
<1>2. R = {pair \in Nat \X Nat : pair[1] < pair[2]}
  BY DEF OpToRel
<1> HIDE DEF R
<1>3. PICK i \in set : \A j \in set : ~(<<j, i>> \in R)
  BY <1>1, WFMin
<1>4. \A j \in set : ~(j < i)
  BY <1>2, <1>3
<1> QED  BY <1>4

\* A state is one month old iff the month before had another.
LEMMA OneMonthOld ==
    ASSUME NEW state, NEW anchor \in Int
    PROVE  LET d == EvaluateStateDuration(state, anchor)
           IN  /\ d.duration_months = 1 /\ d.boundary_type = "EXACT"
                    <=> state[1] # state[0] /\ state[1] # Insufficient
               /\ d.duration_months = 1 /\ d.boundary_type = "DATA_BOUNDED"
                    <=> state[1] # state[0] /\ state[1] = Insufficient
<1> DEFINE differing == {k \in 1..(Lookback - 1) : state[k] # state[0]}
           d == EvaluateStateDuration(state, anchor)
<1>1. Lookback \in Nat /\ Lookback > 1
  BY LookbackAssumption
<1>2. CASE differing = {}
  <2>1. FirstDifference(state) = Lookback
    BY <1>2 DEF FirstDifference
  <2>2. d.duration_months = Lookback
    BY <2>1 DEF EvaluateStateDuration
  <2>3. 1 \notin differing /\ 1 \in 1..(Lookback - 1)
    BY <1>1, <1>2
  <2>4. state[1] = state[0]
    BY <2>3
  <2> QED  BY <1>1, <2>2, <2>4
<1>3. CASE differing # {}
  <2>1. FirstDifference(state) = CHOOSE k \in differing : \A j \in differing : k =< j
    BY <1>3 DEF FirstDifference
  <2>2. differing \subseteq Nat
    BY <1>1
  <2>3. \A k \in differing : k >= 1 /\ k < Lookback /\ state[k] # state[0]
    BY <1>1
  <2>4. 1 \in differing <=> state[1] # state[0]
    BY <1>1
  <2> HIDE DEF differing
  <2>5. \E k \in differing : \A j \in differing : k =< j
    BY <1>3, <2>2, LeastOf
  <2> DEFINE k == FirstDifference(state)
  <2>6. k \in differing /\ \A j \in differing : k =< j
    BY <2>1, <2>5
  <2> HIDE DEF k
  <2>7. k = 1 <=> state[1] # state[0]
    <3>1. k \in Nat /\ k >= 1
      BY <2>2, <2>3, <2>6
    <3>2. 1 \in differing => k =< 1
      BY <2>6
    <3>3. k = 1 <=> 1 \in differing
      BY <2>6, <3>1, <3>2
    <3> QED  BY <2>4, <3>3
  <2>8. k \in Nat /\ k < Lookback
    BY <2>2, <2>3, <2>6
  <2>9. /\ d.duration_months = k
        /\ d.boundary_type = IF state[k] = Insufficient THEN "DATA_BOUNDED" ELSE "EXACT"
    BY <1>1, <2>8 DEF EvaluateStateDuration, k
  <2> QED  BY <2>7, <2>9
<1> QED  BY <1>2, <1>3

Named(seq, x) == \E i \in 1..Len(seq) : seq[i] = x

LEMMA IndexNamed ==
    ASSUME NEW seq, NEW x, Named(seq, x)
    PROVE  Index(seq, x) \in 1..Len(seq) /\ seq[Index(seq, x)] = x
BY DEF Named, Index

\* The frozen orders of a monitor, and an event they place.
FrozenOrders(components, fields) ==
    \/ components = ComponentOrder /\ fields = FieldOrder
    \/ components = LaborComponentOrder /\ fields = LaborFieldOrder

Placed(events, components, fields) ==
    /\ FrozenOrders(components, fields)
    /\ \A e \in events : /\ Named(components, e.component) /\ Named(EventTypeOrder, e.event_type)
                         /\ Named(fields, e.field)

OneOfEachKind(events) ==
    \A e, f \in events : (e.component = f.component /\ e.event_type = f.event_type /\ e.field = f.field) => e = f

LEMMA SortKeys ==
    ASSUME NEW events, NEW components, NEW fields, Placed(events, components, fields), OneOfEachKind(events)
    PROVE  /\ \A e \in events : SortKey(e) \in 0..1000
           /\ \A e, f \in events : SortKey(e) = SortKey(f) => e = f
<1>1. Len(components) \in 1..5 /\ Len(EventTypeOrder) = 5 /\ Len(fields) \in 1..9
  BY DEF Placed, FrozenOrders, ComponentOrder, LaborComponentOrder, EventTypeOrder, FieldOrder, LaborFieldOrder
<1>2. ASSUME NEW e \in events
      PROVE  SortKey(e) = 100 * Index(components, e.component) + 10 * Index(EventTypeOrder, e.event_type)
                            + Index(fields, e.field)
  <2> DEFINE labor == e.component \in {LaborComponentOrder[i] : i \in 1..3}
  <2>1. labor <=> components = LaborComponentOrder
    <3>1. PICK i \in 1..Len(components) : components[i] = e.component
      BY DEF Placed, Named
    <3>2. CASE components = LaborComponentOrder
      <4>1. i \in 1..3
        BY <3>1, <3>2 DEF LaborComponentOrder
      <4> QED  BY <3>1, <3>2, <4>1
    <3>3. CASE components = ComponentOrder
      <4>1. components # LaborComponentOrder
        BY <3>3 DEF ComponentOrder, LaborComponentOrder
      <4>2. e.component \in {"PRIMARY_MOMENTUM", "CONFIRMATION", "TARGET", "HEADLINE_PCE", "HEADLINE_CPI"}
        BY <3>1, <3>3 DEF ComponentOrder
      <4>3. \A k \in 1..3 : LaborComponentOrder[k] \in {"LABOR", "EMPLOYMENT", "UNEMPLOYMENT"}
        BY DEF LaborComponentOrder
      <4> QED  BY <4>1, <4>2, <4>3
    <3> QED  BY <3>2, <3>3 DEF Placed, FrozenOrders
  <2>2. fields = (IF labor THEN LaborFieldOrder ELSE FieldOrder)
        /\ components = (IF labor THEN LaborComponentOrder ELSE ComponentOrder)
    <3>1. components = ComponentOrder => components # LaborComponentOrder
      BY DEF ComponentOrder, LaborComponentOrder
    <3> HIDE DEF labor
    <3> QED  BY <2>1, <3>1 DEF Placed, FrozenOrders
  <2> QED  BY <2>2 DEF SortKey
<1>3. ASSUME NEW e \in events
      PROVE  /\ Index(components, e.component) \in 1..5 /\ components[Index(components, e.component)] = e.component
             /\ Index(EventTypeOrder, e.event_type) \in 1..5
             /\ EventTypeOrder[Index(EventTypeOrder, e.event_type)] = e.event_type
             /\ Index(fields, e.field) \in 1..9 /\ fields[Index(fields, e.field)] = e.field
  <2>1. /\ Index(components, e.component) \in 1..Len(components)
        /\ components[Index(components, e.component)] = e.component
    BY IndexNamed DEF Placed
  <2>2. /\ Index(EventTypeOrder, e.event_type) \in 1..Len(EventTypeOrder)
        /\ EventTypeOrder[Index(EventTypeOrder, e.event_type)] = e.event_type
    BY IndexNamed DEF Placed
  <2>3. Index(fields, e.field) \in 1..Len(fields) /\ fields[Index(fields, e.field)] = e.field
    BY IndexNamed DEF Placed
  <2> QED  BY <1>1, <2>1, <2>2, <2>3
<1>4. ASSUME NEW e \in events PROVE SortKey(e) \in 0..1000
  BY <1>2, <1>3
<1>5. ASSUME NEW e \in events, NEW f \in events, SortKey(e) = SortKey(f) PROVE e = f
  <2>1. /\ Index(components, e.component) = Index(components, f.component)
        /\ Index(EventTypeOrder, e.event_type) = Index(EventTypeOrder, f.event_type)
        /\ Index(fields, e.field) = Index(fields, f.field)
    <3>1. \A a, b, c, x, y, z \in 1..9 :
            100 * a + 10 * b + c = 100 * x + 10 * y + z => a = x /\ b = y /\ c = z
      OBVIOUS
    <3> QED  BY <1>2, <1>3, <1>5, <3>1
  <2>2. e.component = f.component /\ e.event_type = f.event_type /\ e.field = f.field
    BY <1>3, <2>1
  <2> QED  BY <2>2 DEF OneOfEachKind
<1> QED  BY <1>4, <1>5

LEMMA SortedEvents ==
    ASSUME NEW events, NEW components, NEW fields, Placed(events, components, fields), OneOfEachKind(events)
    PROVE  /\ \A i \in DOMAIN SortEvents(events) : SortEvents(events)[i] \in events
           /\ \A e \in events : \E i \in DOMAIN SortEvents(events) : SortEvents(events)[i] = e
<1> DEFINE R == {pair \in events \X events : SortKey(pair[1]) < SortKey(pair[2])}
           rank(e) == Cardinality({f \in events : SortKey(f) < SortKey(e)})
           n == Cardinality(events)
           key == [e \in events |-> SortKey(e)]
<1>1. /\ \A e \in events : SortKey(e) \in Int
      /\ \A e, f \in events : SortKey(e) = SortKey(f) => e = f
  BY SortKeys
<1>2. IsFiniteSet(events)
  <2>1. key \in Injection(events, 0..1000)
    BY SortKeys DEF Injection, IsInjective
  <2>2. IsFiniteSet(0..1000)
    <3>1. PICK top \in Int : top = 1000
      OBVIOUS
    <3>2. 0 \in Int
      OBVIOUS
    <3>3. IsFiniteSet(0..top)
      BY <3>2, FS_Interval
    <3> QED  BY <3>1, <3>3
  <2> QED  BY <2>1, <2>2, FS_Injection
<1>3. Orders(R, events)
  BY <1>1 DEF Orders
<1>4. \A e, f \in events : <<e, f>> \in R <=> SortKey(e) < SortKey(f)
  OBVIOUS
<1>5. \A e \in events : Before(R, events, e) = {f \in events : SortKey(f) < SortKey(e)}
  BY <1>4 DEF Before
<1> HIDE DEF R
<1>6. /\ n \in Nat /\ \A e \in events : rank(e) \in 0..(n - 1)
      /\ \A e, f \in events : SortKey(e) < SortKey(f) <=> rank(e) < rank(f)
      /\ \A k \in 0..(n - 1) : \E e \in events : rank(e) = k
  <2>1. /\ n \in Nat /\ \A e \in events : Cardinality(Before(R, events, e)) \in 0..(n - 1)
        /\ \A e, f \in events : <<e, f>> \in R
             <=> Cardinality(Before(R, events, e)) < Cardinality(Before(R, events, f))
        /\ \A k \in 0..(n - 1) : \E e \in events : Cardinality(Before(R, events, e)) = k
    BY <1>2, <1>3, Ranked
  <2>2. \A e \in events : Cardinality(Before(R, events, e)) = rank(e)
    BY <1>5
  <2> HIDE DEF rank, n
  <2> QED  BY <1>4, <2>1, <2>2
<1>7. SortEvents(events) = [i \in 1..n |-> CHOOSE e \in events : rank(e) = i - 1]
  BY DEF SortEvents
<1> HIDE DEF n, rank
<1>8. \A e, f \in events : rank(e) = rank(f) => e = f
  <2> SUFFICES ASSUME NEW e \in events, NEW f \in events, e # f PROVE rank(e) # rank(f)
    OBVIOUS
  <2>1. SortKey(e) < SortKey(f) \/ SortKey(f) < SortKey(e)
    BY <1>1
  <2>2. rank(e) \in Int /\ rank(f) \in Int
    BY <1>6
  <2> QED  BY <1>6, <2>1, <2>2
<1>9. ASSUME NEW i \in 1..n PROVE SortEvents(events)[i] \in events
  <2>1. i - 1 \in 0..(n - 1)
    BY <1>6
  <2> QED  BY <1>6, <1>7, <2>1
<1>10. ASSUME NEW e \in events PROVE \E i \in 1..n : SortEvents(events)[i] = e
  <2>1. rank(e) + 1 \in 1..n /\ (rank(e) + 1) - 1 = rank(e)
    BY <1>6
  <2>2. (CHOOSE f \in events : rank(f) = rank(e)) = e
    BY <1>8
  <2> QED  BY <1>7, <2>1, <2>2
<1> QED  BY <1>7, <1>9, <1>10

EventTypes == {"STATE_CHANGED", "CONFIRMATION_CHANGED", "AVAILABILITY_LOST", "AVAILABILITY_RESTORED", "METRIC_CHANGED"}

\* What a comparison of one field may have left.
FieldEvent(e, component, field, previous, current, periods) ==
    /\ e.component = component /\ e.field = field /\ e.event_type \in EventTypes
    /\ e = Event(component, e.event_type, field, previous, current, periods)

LEMMA FieldEventsOnly ==
    ASSUME NEW component, NEW field, NEW type \in EventTypes, NEW missing, NEW previous, NEW current, NEW periods,
           NEW e \in FieldEvents(component, field, type, missing, previous, current, periods)
    PROVE  FieldEvent(e, component, field, previous, current, periods)
<1> DEFINE told(t) == Event(component, t, field, previous, current, periods)
<1>1. \A t : told(t).component = component /\ told(t).field = field /\ told(t).event_type = t
  BY DEF Event
<1>2. FieldEvents(component, field, type, missing, previous, current, periods)
        \in {{}, {told(type)}, {told("AVAILABILITY_LOST")}, {told("AVAILABILITY_RESTORED")}}
  BY DEF FieldEvents
<1> HIDE DEF told
<1>3. PICK t \in EventTypes : e = told(t)
  BY <1>2 DEF EventTypes
<1>4. FieldEvent(told(t), component, field, previous, current, periods)
  BY <1>1 DEF FieldEvent, told
<1> QED  BY <1>3, <1>4

LEMMA StateEventsTold ==
    ASSUME NEW component, NEW previous, NEW current, NEW periods, current # Insufficient
    PROVE  LET events == StateEvents(component, "state", previous, current, periods)
           IN  /\ \A e \in events : e.component = component /\ e.field = "state"
               /\ (\E e \in events : e.event_type = "STATE_CHANGED")
                    <=> previous # current /\ previous # Insufficient
               /\ (\E e \in events : e.event_type = "AVAILABILITY_RESTORED")
                    <=> previous # current /\ previous = Insufficient
<1> DEFINE told(t) == Event(component, t, "state", previous, current, periods)
           events == StateEvents(component, "state", previous, current, periods)
<1>1. \A t : told(t).component = component /\ told(t).field = "state" /\ told(t).event_type = t
  BY DEF Event
<1>2. events = IF previous = Insufficient THEN {told("AVAILABILITY_RESTORED")}
               ELSE IF previous # current THEN {told("STATE_CHANGED")} ELSE {}
  BY DEF StateEvents, FieldEvents, Insufficient
<1> HIDE DEF told, events
<1> QED  BY <1>1, <1>2 DEF events

EmploymentFields ==
    {"state", "condition", "momentum", "current_3m_avg_jobs", "prior_3m_avg_jobs", "momentum_delta_jobs"}
UnemploymentFields == {"state", "current_3m_avg", "prior_year_3m_avg", "delta_pp"}

\* The event that the comparison of a and b may have left of a component's field.
LaborEvent(e, a, b, periods) ==
    \/ FieldEvent(e, "LABOR", "state", a.state, b.state, periods)
    \/ \E f \in EmploymentFields : FieldEvent(e, "EMPLOYMENT", f, a.employment[f], b.employment[f], periods)
    \/ \E f \in UnemploymentFields :
         FieldEvent(e, "UNEMPLOYMENT", f, a.unemployment[f], b.unemployment[f], periods)

LEMMA LaborEventsOnly ==
    ASSUME NEW a, NEW b, NEW periods, NEW e \in LaborEvents(a, b, periods)
    PROVE  LaborEvent(e, a, b, periods)
<1>0. "STATE_CHANGED" \in EventTypes /\ "METRIC_CHANGED" \in EventTypes
  BY DEF EventTypes
<1>1. ASSUME NEW component, NEW field, NEW p, NEW q, e \in StateEvents(component, field, p, q, periods)
      PROVE  FieldEvent(e, component, field, p, q, periods)
  BY <1>0, <1>1, FieldEventsOnly DEF StateEvents
<1>2. ASSUME NEW component, NEW field, NEW p, NEW q, e \in MetricEvents(component, field, p, q, periods)
      PROVE  FieldEvent(e, component, field, p, q, periods)
  BY <1>0, <1>2, FieldEventsOnly DEF MetricEvents
<1>3. CASE e \in LaborStateEvents(a.state, b.state, periods)
  BY <1>1, <1>3 DEF LaborStateEvents, LaborEvent
<1>4. CASE e \in EmploymentEvents(a.employment, b.employment, periods)
  <2>1. PICK f \in EmploymentFields : \/ e \in StateEvents("EMPLOYMENT", f, a.employment[f], b.employment[f], periods)
                                      \/ e \in MetricEvents("EMPLOYMENT", f, a.employment[f], b.employment[f], periods)
    BY <1>4 DEF EmploymentEvents, EmploymentFields
  <2>2. FieldEvent(e, "EMPLOYMENT", f, a.employment[f], b.employment[f], periods)
    BY <1>1, <1>2, <2>1
  <2> QED  BY <2>2 DEF LaborEvent
<1>5. CASE e \in UnemploymentEvents(a.unemployment, b.unemployment, periods)
  <2> DEFINE p == a.unemployment
             q == b.unemployment
  <2>1. \/ e \in StateEvents("UNEMPLOYMENT", "state", p["state"], q["state"], periods)
        \/ \E f \in {"current_3m_avg", "prior_year_3m_avg", "delta_pp"} :
             e \in MetricEvents("UNEMPLOYMENT", f, p[f], q[f], periods)
    BY <1>5 DEF UnemploymentEvents
  <2> HIDE DEF p, q
  <2>2. \E f \in UnemploymentFields : FieldEvent(e, "UNEMPLOYMENT", f, p[f], q[f], periods)
    BY <1>1, <1>2, <2>1 DEF UnemploymentFields
  <2> QED  BY <2>2 DEF LaborEvent, p, q
<1> QED  BY <1>3, <1>4, <1>5 DEF LaborEvents

LEMMA NamedOrders ==
    /\ \A t \in EventTypes : Named(EventTypeOrder, t)
    /\ \A c \in InflationComponents : Named(ComponentOrder, c)
    /\ \A c \in LaborComponents : Named(LaborComponentOrder, c)
    /\ \A f \in EmploymentFields \cup UnemploymentFields : Named(LaborFieldOrder, f)
    /\ \A f \in DOMAIN MomentumFields \cup {"state", "relationship", "headline_pce_yoy", "target_gap_pp"} :
         Named(FieldOrder, f)
<1>1. \A t \in EventTypes : Named(EventTypeOrder, t)
  <2>1. /\ EventTypeOrder[1] = "STATE_CHANGED" /\ EventTypeOrder[2] = "CONFIRMATION_CHANGED"
        /\ EventTypeOrder[3] = "AVAILABILITY_LOST" /\ EventTypeOrder[4] = "AVAILABILITY_RESTORED"
        /\ EventTypeOrder[5] = "METRIC_CHANGED" /\ {1, 2, 3, 4, 5} \subseteq 1..Len(EventTypeOrder)
    BY DEF EventTypeOrder
  <2> QED  BY <2>1 DEF EventTypes, Named
<1>2. \A c \in InflationComponents : Named(ComponentOrder, c)
  <2>1. /\ ComponentOrder[1] = "PRIMARY_MOMENTUM" /\ ComponentOrder[2] = "CONFIRMATION"
        /\ ComponentOrder[3] = "TARGET" /\ ComponentOrder[4] = "HEADLINE_PCE"
        /\ ComponentOrder[5] = "HEADLINE_CPI" /\ {1, 2, 3, 4, 5} \subseteq 1..Len(ComponentOrder)
    BY DEF ComponentOrder
  <2> QED  BY <2>1 DEF InflationComponents, Named
<1>3. \A c \in LaborComponents : Named(LaborComponentOrder, c)
  <2>1. /\ LaborComponentOrder[1] = "LABOR" /\ LaborComponentOrder[2] = "EMPLOYMENT"
        /\ LaborComponentOrder[3] = "UNEMPLOYMENT" /\ {1, 2, 3} \subseteq 1..Len(LaborComponentOrder)
    BY DEF LaborComponentOrder
  <2> QED  BY <2>1 DEF LaborComponents, Named
<1>4. \A f \in EmploymentFields \cup UnemploymentFields : Named(LaborFieldOrder, f)
  <2>1. /\ LaborFieldOrder[1] = "state" /\ LaborFieldOrder[2] = "condition" /\ LaborFieldOrder[3] = "momentum"
        /\ LaborFieldOrder[4] = "current_3m_avg_jobs" /\ LaborFieldOrder[5] = "prior_3m_avg_jobs"
        /\ LaborFieldOrder[6] = "momentum_delta_jobs" /\ LaborFieldOrder[7] = "current_3m_avg"
        /\ LaborFieldOrder[8] = "prior_year_3m_avg" /\ LaborFieldOrder[9] = "delta_pp"
        /\ {1, 2, 3, 4, 5, 6, 7, 8, 9} \subseteq 1..Len(LaborFieldOrder)
    BY DEF LaborFieldOrder
  <2> QED  BY <2>1 DEF EmploymentFields, UnemploymentFields, Named
<1>5. \A f \in DOMAIN MomentumFields \cup {"state", "relationship", "headline_pce_yoy", "target_gap_pp"} :
        Named(FieldOrder, f)
  <2>1. /\ FieldOrder[1] = "state" /\ FieldOrder[2] = "relationship" /\ FieldOrder[3] = "r_1m_annualized"
        /\ FieldOrder[4] = "r_3m_annualized" /\ FieldOrder[5] = "r_6m_annualized" /\ FieldOrder[6] = "r_12m"
        /\ FieldOrder[7] = "headline_pce_yoy" /\ FieldOrder[8] = "target_gap_pp"
        /\ {1, 2, 3, 4, 5, 6, 7, 8} \subseteq 1..Len(FieldOrder)
    BY DEF FieldOrder
  <2>2. DOMAIN MomentumFields = {"r_1m_annualized", "r_3m_annualized", "r_6m_annualized", "r_12m"}
    BY DEF MomentumFields
  <2> QED  BY <2>1, <2>2 DEF Named
<1> QED  BY <1>1, <1>2, <1>3, <1>4, <1>5

LEMMA LaborEventsInOrder ==
    ASSUME NEW a, NEW b, NEW periods
    PROVE  /\ Placed(LaborEvents(a, b, periods), LaborComponentOrder, LaborFieldOrder)
           /\ OneOfEachKind(LaborEvents(a, b, periods))
<1> DEFINE events == LaborEvents(a, b, periods)
<1>1. \A e \in events : LaborEvent(e, a, b, periods)
  BY LaborEventsOnly
<1> HIDE DEF events
<1>2. ASSUME NEW e \in events
      PROVE  /\ Named(LaborComponentOrder, e.component) /\ Named(EventTypeOrder, e.event_type)
             /\ Named(LaborFieldOrder, e.field)
  <2>1. /\ e.component \in LaborComponents /\ e.event_type \in EventTypes
        /\ e.field \in EmploymentFields \cup UnemploymentFields
    BY <1>1 DEF LaborEvent, FieldEvent, LaborComponents, EmploymentFields
  <2> QED  BY <2>1, NamedOrders
<1>3. ASSUME NEW e \in events, NEW f \in events,
             e.component = f.component, e.event_type = f.event_type, e.field = f.field
      PROVE  e = f
  <2>1. LaborEvent(e, a, b, periods) /\ LaborEvent(f, a, b, periods)
    BY <1>1
  <2>2. CASE e.component = "LABOR"
    <3>1. /\ e = Event("LABOR", e.event_type, "state", a.state, b.state, periods)
          /\ f = Event("LABOR", f.event_type, "state", a.state, b.state, periods)
      BY <1>3, <2>1, <2>2 DEF LaborEvent, FieldEvent
    <3> QED  BY <1>3, <3>1
  <2>3. CASE e.component = "EMPLOYMENT"
    <3>1. /\ e = Event("EMPLOYMENT", e.event_type, e.field, a.employment[e.field], b.employment[e.field], periods)
          /\ f = Event("EMPLOYMENT", f.event_type, f.field, a.employment[f.field], b.employment[f.field], periods)
      BY <1>3, <2>1, <2>3 DEF LaborEvent, FieldEvent
    <3> QED  BY <1>3, <3>1
  <2>4. CASE e.component = "UNEMPLOYMENT"
    <3>1. /\ e = Event("UNEMPLOYMENT", e.event_type, e.field, a.unemployment[e.field], b.unemployment[e.field], periods)
          /\ f = Event("UNEMPLOYMENT", f.event_type, f.field, a.unemployment[f.field], b.unemployment[f.field], periods)
      BY <1>3, <2>1, <2>4 DEF LaborEvent, FieldEvent
    <3> QED  BY <1>3, <3>1
  <2> QED  BY <2>1, <2>2, <2>3, <2>4 DEF LaborEvent, FieldEvent
<1>4. Placed(events, LaborComponentOrder, LaborFieldOrder)
  BY <1>2 DEF Placed, FrozenOrders
<1>5. OneOfEachKind(events)
  BY <1>3 DEF OneOfEachKind
<1> QED  BY <1>4, <1>5 DEF events

\* What the pages say of a component's state.
Says(changes, component, type) ==
    \E i \in DOMAIN changes : /\ changes[i].component = component
                              /\ changes[i].field = "state"
                              /\ changes[i].event_type = type

LEMMA SaidByAnEvent ==
    ASSUME NEW events, NEW components, NEW fields, Placed(events, components, fields), OneOfEachKind(events),
           NEW component, NEW type
    PROVE  Says(SortEvents(events), component, type)
             <=> \E e \in events : e.component = component /\ e.field = "state" /\ e.event_type = type
<1> DEFINE changes == SortEvents(events)
<1>1. /\ \A i \in DOMAIN changes : changes[i] \in events
      /\ \A e \in events : \E i \in DOMAIN changes : changes[i] = e
  BY SortedEvents
<1> HIDE DEF changes
<1>2. Says(changes, component, type)
        <=> \E e \in events : e.component = component /\ e.field = "state" /\ e.event_type = type
  BY <1>1 DEF Says
<1> QED  BY <1>2 DEF changes

\* A duration and what changed agree when both compare the same two months.
Young(evaluation, boundary) == evaluation.duration_months = 1 /\ evaluation.boundary_type = boundary

LEMMA Agree ==
    ASSUME NEW state, NEW anchor \in Int, state[0] # Insufficient,
           NEW component, NEW periods, NEW events, NEW components, NEW fields,
           Placed(events, components, fields), OneOfEachKind(events),
           \A e : (e \in events /\ e.component = component /\ e.field = "state")
                    <=> e \in StateEvents(component, "state", state[1], state[0], periods)
    PROVE  /\ Young(EvaluateStateDuration(state, anchor), "EXACT")
                <=> Says(SortEvents(events), component, "STATE_CHANGED")
           /\ Young(EvaluateStateDuration(state, anchor), "DATA_BOUNDED")
                <=> Says(SortEvents(events), component, "AVAILABILITY_RESTORED")
<1> DEFINE told == StateEvents(component, "state", state[1], state[0], periods)
<1>1. /\ Young(EvaluateStateDuration(state, anchor), "EXACT") <=> state[1] # state[0] /\ state[1] # Insufficient
      /\ Young(EvaluateStateDuration(state, anchor), "DATA_BOUNDED")
           <=> state[1] # state[0] /\ state[1] = Insufficient
  BY OneMonthOld DEF Young
<1>2. /\ (\E e \in told : e.event_type = "STATE_CHANGED") <=> state[1] # state[0] /\ state[1] # Insufficient
      /\ (\E e \in told : e.event_type = "AVAILABILITY_RESTORED")
           <=> state[1] # state[0] /\ state[1] = Insufficient
  BY StateEventsTold
<1>3. \A type : Says(SortEvents(events), component, type)
                  <=> \E e \in events : e.component = component /\ e.field = "state" /\ e.event_type = type
  BY SaidByAnEvent
<1> HIDE DEF told
<1>4. \A type : Says(SortEvents(events), component, type) <=> \E e \in told : e.event_type = type
  BY <1>3 DEF told
<1> QED  BY <1>1, <1>2, <1>4

LEMMA OthersComponents ==
    ASSUME NEW a, NEW b, NEW periods
    PROVE  /\ \A e \in EmploymentEvents(a, b, periods) : e.component = "EMPLOYMENT"
           /\ \A e \in UnemploymentEvents(a, b, periods) : e.component = "UNEMPLOYMENT"
<1>0. "STATE_CHANGED" \in EventTypes /\ "METRIC_CHANGED" \in EventTypes
  BY DEF EventTypes
<1>1. \A component, field, p, q : /\ \A e \in StateEvents(component, field, p, q, periods) : e.component = component
                                 /\ \A e \in MetricEvents(component, field, p, q, periods) : e.component = component
  BY <1>0, FieldEventsOnly DEF StateEvents, MetricEvents, FieldEvent
<1> QED  BY <1>1 DEF EmploymentEvents, UnemploymentEvents

LEMMA LaborAgrees ==
    ASSUME NEW payems, NEW unrate, Observations(payems), Observations(unrate),
           LaborStateDuration(payems, unrate) # Null
    PROVE  LET duration == LaborStateDuration(payems, unrate)
               told == LaborWhatChanged(MonthOverMonthLabor(payems, unrate))
           IN  /\ Young(duration.evaluation, "EXACT") <=> Says(told.changes, "LABOR", "STATE_CHANGED")
               /\ Young(duration.evaluation, "DATA_BOUNDED")
                    <=> Says(told.changes, "LABOR", "AVAILABILITY_RESTORED")
<1> DEFINE anchor == EvaluationPeriod(payems, unrate)
           sides == MonthOverMonthLabor(payems, unrate)
           state == LaborStateBack(payems, unrate, anchor)
           events == LaborEvents(sides.previous, sides.current, Pair(sides))
           result == LaborResult(payems, unrate)
           told == LaborWhatChanged(sides)
<1>1. result.state # Insufficient /\ result.evaluation_period # Null
  BY DEF LaborStateDuration
<1>2. anchor # Null
  BY <1>1 DEF LaborResult, InsufficientLaborResult
<1>3. anchor \in Int
  <2>1. /\ LatestObservationDate(payems) \in Int \cup {Null}
        /\ LatestObservationDate(unrate) \in Int \cup {Null}
    BY LatestObservation
  <2> QED  BY <1>2, <2>1 DEF EvaluationPeriod
<1>4. result = LaborResultAt(payems, unrate, anchor) /\ result.evaluation_period = anchor
  BY <1>2 DEF LaborResult, LaborResultAt
<1>5. LaborStateDuration(payems, unrate).evaluation = EvaluateStateDuration(state, anchor)
  BY <1>1, <1>4 DEF LaborStateDuration
<1>6. /\ state[0] = LaborResultAt(payems, unrate, anchor).state
      /\ state[1] = LaborResultAt(payems, unrate, anchor - 1).state
  <2>1. 0 \in 0..(Lookback - 1) /\ 1 \in 0..(Lookback - 1) /\ anchor - 0 = anchor
    BY <1>3, LookbackAssumption
  <2> QED  BY <2>1 DEF LaborStateBack, MonthBefore
<1>7. anchor - 1 # Null
  BY <1>3, NullAssumption
<1>8. /\ sides.current = LaborResultAt(payems, unrate, anchor)
      /\ sides.previous = LaborResultAt(payems, unrate, anchor - 1)
  BY <1>2, <1>7 DEF MonthOverMonthLabor, PreviousPeriod, MonthBefore
<1>9. told.changes = SortEvents(events)
  BY DEF LaborWhatChanged, AssembleLabor, LaborEvents
<1>10. Placed(events, LaborComponentOrder, LaborFieldOrder) /\ OneOfEachKind(events)
  BY LaborEventsInOrder
<1>11. \A e : (e \in events /\ e.component = "LABOR" /\ e.field = "state")
                <=> e \in StateEvents("LABOR", "state", state[1], state[0], Pair(sides))
  <2> DEFINE told2 == StateEvents("LABOR", "state", state[1], state[0], Pair(sides))
  <2>1. told2 = LaborStateEvents(sides.previous.state, sides.current.state, Pair(sides))
    BY <1>6, <1>8 DEF LaborStateEvents
  <2>2. told2 \subseteq events
    BY <2>1 DEF LaborEvents
  <2>3. \A e \in told2 : e.component = "LABOR" /\ e.field = "state"
    BY <1>1, <1>4, <1>6, StateEventsTold
  <2>4. ASSUME NEW e \in events, e.component = "LABOR" PROVE e \in told2
    <3>1. CASE e \in EmploymentEvents(sides.previous.employment, sides.current.employment, Pair(sides))
      <4>1. e.component = "EMPLOYMENT"
        BY <3>1, OthersComponents
      <4> QED  BY <2>4, <4>1
    <3>2. CASE e \in UnemploymentEvents(sides.previous.unemployment, sides.current.unemployment, Pair(sides))
      <4>1. e.component = "UNEMPLOYMENT"
        BY <3>2, OthersComponents
      <4> QED  BY <2>4, <4>1
    <3> HIDE DEF sides, told2
    <3> QED  BY <2>1, <2>4, <3>1, <3>2 DEF LaborEvents
  <2> HIDE DEF told2, events
  <2> QED  BY <2>2, <2>3, <2>4 DEF told2
<1>12. state[0] # Insufficient
  BY <1>1, <1>4, <1>6
<1> HIDE DEF anchor, sides, state, events, result, told
<1>13. /\ Young(EvaluateStateDuration(state, anchor), "EXACT")
            <=> Says(SortEvents(events), "LABOR", "STATE_CHANGED")
       /\ Young(EvaluateStateDuration(state, anchor), "DATA_BOUNDED")
            <=> Says(SortEvents(events), "LABOR", "AVAILABILITY_RESTORED")
  BY <1>3, <1>10, <1>11, <1>12, Agree
<1> QED  BY <1>5, <1>9, <1>13 DEF sides, told

MomentumEvent(e, component, side) ==
    \/ FieldEvent(e, component, "state", side.previous.state, side.current.state, Pair(side))
    \/ \E f \in DOMAIN MomentumFields :
         FieldEvent(e, component, f, side.previous.rates[MomentumFields[f]],
                    side.current.rates[MomentumFields[f]], Pair(side))

InflationEvent(e, p, c, t, hp, hc) ==
    \/ MomentumEvent(e, "PRIMARY_MOMENTUM", p)
    \/ MomentumEvent(e, "HEADLINE_PCE", hp)
    \/ MomentumEvent(e, "HEADLINE_CPI", hc)
    \/ \E f \in {"headline_pce_yoy", "target_gap_pp"} :
         FieldEvent(e, "TARGET", f, t.previous[f], t.current[f], Pair(t))
    \/ FieldEvent(e, "CONFIRMATION", "relationship", c.previous.relationship, c.current.relationship, Pair(c))

InflationEvents(p, c, t, hp, hc) ==
    MomentumEvents("PRIMARY_MOMENTUM", p.previous, p.current, Pair(p))
    \cup MomentumEvents("HEADLINE_PCE", hp.previous, hp.current, Pair(hp))
    \cup MomentumEvents("HEADLINE_CPI", hc.previous, hc.current, Pair(hc))
    \cup TargetEvents(t.previous, t.current, Pair(t))
    \cup ConfirmationEvents(c.previous, c.current, Pair(c))

LEMMA MomentumEventsOnly ==
    ASSUME NEW component, NEW side,
           NEW e \in MomentumEvents(component, side.previous, side.current, Pair(side))
    PROVE  MomentumEvent(e, component, side)
<1>0. "STATE_CHANGED" \in EventTypes /\ "METRIC_CHANGED" \in EventTypes
  BY DEF EventTypes
<1>1. \/ e \in StateEvents(component, "state", side.previous.state, side.current.state, Pair(side))
      \/ \E f \in DOMAIN MomentumFields :
           e \in MetricEvents(component, f, side.previous.rates[MomentumFields[f]],
                              side.current.rates[MomentumFields[f]], Pair(side))
  BY DEF MomentumEvents
<1>2. CASE e \in StateEvents(component, "state", side.previous.state, side.current.state, Pair(side))
  <2>1. FieldEvent(e, component, "state", side.previous.state, side.current.state, Pair(side))
    BY <1>0, <1>2, FieldEventsOnly DEF StateEvents
  <2> QED  BY <2>1 DEF MomentumEvent
<1>3. ASSUME NEW f \in DOMAIN MomentumFields,
             e \in MetricEvents(component, f, side.previous.rates[MomentumFields[f]],
                                side.current.rates[MomentumFields[f]], Pair(side))
      PROVE  MomentumEvent(e, component, side)
  <2>1. FieldEvent(e, component, f, side.previous.rates[MomentumFields[f]],
                   side.current.rates[MomentumFields[f]], Pair(side))
    BY <1>0, <1>3, FieldEventsOnly DEF MetricEvents
  <2> QED  BY <2>1 DEF MomentumEvent
<1> QED  BY <1>1, <1>2, <1>3

LEMMA InflationEventsOnly ==
    ASSUME NEW p, NEW c, NEW t, NEW hp, NEW hc, NEW e \in InflationEvents(p, c, t, hp, hc)
    PROVE  InflationEvent(e, p, c, t, hp, hc)
<1>1. CASE e \in MomentumEvents("PRIMARY_MOMENTUM", p.previous, p.current, Pair(p))
  BY <1>1, MomentumEventsOnly DEF InflationEvent
<1>2. CASE e \in MomentumEvents("HEADLINE_PCE", hp.previous, hp.current, Pair(hp))
  BY <1>2, MomentumEventsOnly DEF InflationEvent
<1>3. CASE e \in MomentumEvents("HEADLINE_CPI", hc.previous, hc.current, Pair(hc))
  BY <1>3, MomentumEventsOnly DEF InflationEvent
<1>4. CASE e \in TargetEvents(t.previous, t.current, Pair(t))
  <2>1. PICK f \in {"headline_pce_yoy", "target_gap_pp"} :
           e \in MetricEvents("TARGET", f, t.previous[f], t.current[f], Pair(t))
    BY <1>4 DEF TargetEvents
  <2>2. "METRIC_CHANGED" \in EventTypes
    BY DEF EventTypes
  <2>3. FieldEvent(e, "TARGET", f, t.previous[f], t.current[f], Pair(t))
    BY <2>1, <2>2, FieldEventsOnly DEF MetricEvents
  <2> QED  BY <2>3 DEF InflationEvent
<1>5. CASE e \in ConfirmationEvents(c.previous, c.current, Pair(c))
  <2> DEFINE told(type) == Event("CONFIRMATION", type, "relationship", c.previous.relationship,
                                 c.current.relationship, Pair(c))
  <2>1. e \in RelationshipEvents(c.previous.relationship, c.current.relationship, Pair(c))
    BY <1>5 DEF ConfirmationEvents
  <2>2. PICK type \in EventTypes : e = told(type)
    BY <2>1 DEF RelationshipEvents, EventTypes
  <2>3. told(type).component = "CONFIRMATION" /\ told(type).field = "relationship" /\ told(type).event_type = type
    BY DEF Event
  <2> HIDE DEF told
  <2>4. FieldEvent(e, "CONFIRMATION", "relationship", c.previous.relationship, c.current.relationship, Pair(c))
    BY <2>2, <2>3 DEF FieldEvent, told
  <2> QED  BY <2>4 DEF InflationEvent
<1> QED  BY <1>1, <1>2, <1>3, <1>4, <1>5 DEF InflationEvents

LEMMA OneMomentumEvent ==
    ASSUME NEW component, NEW side, NEW e, NEW f, MomentumEvent(e, component, side), MomentumEvent(f, component, side),
           e.event_type = f.event_type, e.field = f.field
    PROVE  e = f
<1>1. "state" \notin DOMAIN MomentumFields
  BY DEF MomentumFields
<1>2. CASE e.field = "state"
  BY <1>1, <1>2 DEF MomentumEvent, FieldEvent
<1>3. CASE e.field # "state"
  <2> DEFINE rate(g) == <<side.previous.rates[MomentumFields[g]], side.current.rates[MomentumFields[g]]>>
  <2>1. e = Event(component, e.event_type, e.field, rate(e.field)[1], rate(e.field)[2], Pair(side))
    BY <1>3 DEF MomentumEvent, FieldEvent
  <2>2. f = Event(component, f.event_type, f.field, rate(f.field)[1], rate(f.field)[2], Pair(side))
    BY <1>3 DEF MomentumEvent, FieldEvent
  <2> QED  BY <2>1, <2>2
<1> QED  BY <1>2, <1>3

LEMMA InflationEventsInOrder ==
    ASSUME NEW p, NEW c, NEW t, NEW hp, NEW hc
    PROVE  /\ Placed(InflationEvents(p, c, t, hp, hc), ComponentOrder, FieldOrder)
           /\ OneOfEachKind(InflationEvents(p, c, t, hp, hc))
<1> DEFINE events == InflationEvents(p, c, t, hp, hc)
<1>1. \A e \in events : InflationEvent(e, p, c, t, hp, hc)
  BY InflationEventsOnly
<1> HIDE DEF events
<1>2. ASSUME NEW e \in events
      PROVE  /\ Named(ComponentOrder, e.component) /\ Named(EventTypeOrder, e.event_type)
             /\ Named(FieldOrder, e.field)
  <2>1. /\ e.component \in InflationComponents /\ e.event_type \in EventTypes
        /\ e.field \in DOMAIN MomentumFields \cup {"state", "relationship", "headline_pce_yoy", "target_gap_pp"}
    BY <1>1 DEF InflationEvent, MomentumEvent, FieldEvent, InflationComponents
  <2> QED  BY <2>1, NamedOrders
<1>3. ASSUME NEW e \in events, NEW f \in events,
             e.component = f.component, e.event_type = f.event_type, e.field = f.field
      PROVE  e = f
  <2>1. InflationEvent(e, p, c, t, hp, hc) /\ InflationEvent(f, p, c, t, hp, hc)
    BY <1>1
  <2>2. \A g, component, side : MomentumEvent(g, component, side) => g.component = component
    BY DEF MomentumEvent, FieldEvent
  <2>3. \A g, component, field, x, y, periods :
          FieldEvent(g, component, field, x, y, periods) => g.component = component
    BY DEF FieldEvent
  <2>4. CASE e.component = "PRIMARY_MOMENTUM"
    <3>1. MomentumEvent(e, "PRIMARY_MOMENTUM", p) /\ MomentumEvent(f, "PRIMARY_MOMENTUM", p)
      BY <1>3, <2>1, <2>2, <2>3, <2>4 DEF InflationEvent
    <3> QED  BY <1>3, <3>1, OneMomentumEvent
  <2>5. CASE e.component = "HEADLINE_PCE"
    <3>1. MomentumEvent(e, "HEADLINE_PCE", hp) /\ MomentumEvent(f, "HEADLINE_PCE", hp)
      BY <1>3, <2>1, <2>2, <2>3, <2>5 DEF InflationEvent
    <3> QED  BY <1>3, <3>1, OneMomentumEvent
  <2>6. CASE e.component = "HEADLINE_CPI"
    <3>1. MomentumEvent(e, "HEADLINE_CPI", hc) /\ MomentumEvent(f, "HEADLINE_CPI", hc)
      BY <1>3, <2>1, <2>2, <2>3, <2>6 DEF InflationEvent
    <3> QED  BY <1>3, <3>1, OneMomentumEvent
  <2>7. CASE e.component = "TARGET"
    <3>1. /\ e = Event("TARGET", e.event_type, e.field, t.previous[e.field], t.current[e.field], Pair(t))
          /\ f = Event("TARGET", f.event_type, f.field, t.previous[f.field], t.current[f.field], Pair(t))
      BY <1>3, <2>1, <2>2, <2>7 DEF InflationEvent, FieldEvent
    <3> QED  BY <1>3, <3>1
  <2>8. CASE e.component = "CONFIRMATION"
    <3>1. /\ FieldEvent(e, "CONFIRMATION", "relationship", c.previous.relationship, c.current.relationship, Pair(c))
          /\ FieldEvent(f, "CONFIRMATION", "relationship", c.previous.relationship, c.current.relationship, Pair(c))
      BY <1>3, <2>1, <2>2, <2>3, <2>8 DEF InflationEvent
    <3> QED  BY <1>3, <3>1 DEF FieldEvent
  <2> QED  BY <2>1, <2>2, <2>3, <2>4, <2>5, <2>6, <2>7, <2>8 DEF InflationEvent
<1>4. Placed(events, ComponentOrder, FieldOrder)
  BY <1>2 DEF Placed, FrozenOrders
<1>5. OneOfEachKind(events)
  BY <1>3 DEF OneOfEachKind
<1> QED  BY <1>4, <1>5 DEF events

\* The primary state's events are the comparison's, and no other's.
LEMMA PrimaryStateEvents ==
    ASSUME NEW p, NEW c, NEW t, NEW hp, NEW hc, p.current_period # Null, p.current.state # Insufficient
    PROVE  \A e : (/\ e \in InflationEvents(p, c, t, hp, hc)
                   /\ e.component = "PRIMARY_MOMENTUM" /\ e.field = "state")
                     <=> e \in StateEvents("PRIMARY_MOMENTUM", "state", p.previous.state, p.current.state, Pair(p))
<1> DEFINE told == StateEvents("PRIMARY_MOMENTUM", "state", p.previous.state, p.current.state, Pair(p))
           primary == MomentumEvents("PRIMARY_MOMENTUM", p.previous, p.current, Pair(p))
           events == InflationEvents(p, c, t, hp, hc)
<1>1. primary = told \cup UNION {MetricEvents("PRIMARY_MOMENTUM", f, p.previous.rates[MomentumFields[f]],
                                             p.current.rates[MomentumFields[f]], Pair(p)) :
                                   f \in DOMAIN MomentumFields}
  BY DEF MomentumEvents, Pair
<1>2. told \subseteq primary /\ primary \subseteq events
  BY <1>1 DEF InflationEvents
<1>3. \A e \in told : e.component = "PRIMARY_MOMENTUM" /\ e.field = "state"
  BY StateEventsTold
<1>4. ASSUME NEW e \in events, e.component = "PRIMARY_MOMENTUM", e.field = "state"
      PROVE  e \in told
  <2>1. \A component, side : \A g \in MomentumEvents(component, side.previous, side.current, Pair(side)) :
          g.component = component
    BY MomentumEventsOnly DEF MomentumEvent, FieldEvent
  <2>2. \A g \in TargetEvents(t.previous, t.current, Pair(t)) : g.component = "TARGET"
    <3>1. "METRIC_CHANGED" \in EventTypes
      BY DEF EventTypes
    <3> QED  BY <3>1, FieldEventsOnly DEF TargetEvents, MetricEvents, FieldEvent
  <2>3. \A g \in ConfirmationEvents(c.previous, c.current, Pair(c)) : g.component = "CONFIRMATION"
    BY DEF ConfirmationEvents, RelationshipEvents, Event
  <2>4. e \in primary
    <3> HIDE DEF primary, told
    <3>1. e \notin MomentumEvents("HEADLINE_PCE", hp.previous, hp.current, Pair(hp))
      BY <1>4, <2>1
    <3>2. e \notin MomentumEvents("HEADLINE_CPI", hc.previous, hc.current, Pair(hc))
      BY <1>4, <2>1
    <3> QED  BY <1>4, <2>2, <2>3, <3>1, <3>2 DEF InflationEvents, primary
  <2>5. ASSUME NEW f \in DOMAIN MomentumFields, NEW x, NEW y,
               e \in MetricEvents("PRIMARY_MOMENTUM", f, x, y, Pair(p))
        PROVE  FALSE
    <3>1. "METRIC_CHANGED" \in EventTypes
      BY DEF EventTypes
    <3>2. e.field = f
      BY <2>5, <3>1, FieldEventsOnly DEF MetricEvents, FieldEvent
    <3> QED  BY <1>4, <3>2 DEF MomentumFields
  <2> HIDE DEF told, primary, events
  <2> QED  BY <1>1, <2>4, <2>5
<1> HIDE DEF told, primary, events
<1> QED  BY <1>2, <1>3, <1>4 DEF told, events

LEMMA InflationAgrees ==
    ASSUME NEW obs, Observations(obs), NEW c, NEW t, NEW hp, NEW hc,
           InflationStateDuration(obs) # Null,
           InflationStateDuration(obs).evaluation_period = MonthOverMonthMomentum(obs).current_period
    PROVE  LET duration == InflationStateDuration(obs)
               told == InflationWhatChanged(MonthOverMonthMomentum(obs), c, t, hp, hc)
           IN  /\ Young(duration.evaluation, "EXACT") <=> Says(told.changes, "PRIMARY_MOMENTUM", "STATE_CHANGED")
               /\ Young(duration.evaluation, "DATA_BOUNDED")
                    <=> Says(told.changes, "PRIMARY_MOMENTUM", "AVAILABILITY_RESTORED")
<1> DEFINE p == MonthOverMonthMomentum(obs)
           result == SeriesMomentum(obs)
           anchor == result.calculation_period
           state == InflationStateBack(obs, anchor)
           events == InflationEvents(p, c, t, hp, hc)
           told == InflationWhatChanged(p, c, t, hp, hc)
<1>1. /\ result.state # Insufficient /\ anchor # Null
      /\ InflationStateDuration(obs).evaluation = EvaluateStateDuration(state, anchor)
      /\ InflationStateDuration(obs).evaluation_period = anchor
  BY DEF InflationStateDuration
<1>2. result = SeriesMomentumAt(obs, anchor)
  <2>1. PICK period : result = SeriesMomentumAt(obs, period)
    BY DEF SeriesMomentum
  <2>2. SeriesMomentumAt(obs, period).calculation_period = period
    BY DEF SeriesMomentumAt, ClassifyPeriod
  <2> HIDE DEF result
  <2> QED  BY <2>1, <2>2
<1>3. p.current_period = anchor /\ anchor = LatestObservationDate(obs)
  BY <1>1 DEF MonthOverMonthMomentum
<1>4. anchor \in Int
  BY <1>1, <1>3, LatestObservation
<1>5. /\ state[0] = SeriesMomentumAt(obs, anchor).state
      /\ state[1] = SeriesMomentumAt(obs, anchor - 1).state
  <2>1. 0 \in 0..(Lookback - 1) /\ 1 \in 0..(Lookback - 1) /\ anchor - 0 = anchor
    BY <1>4, LookbackAssumption
  <2> HIDE DEF anchor
  <2> QED  BY <2>1 DEF InflationStateBack, MonthBefore
<1>6. /\ p.current = SeriesMomentumAt(obs, anchor)
      /\ p.previous = SeriesMomentumAt(obs, anchor - 1)
  <2>1. /\ p.current = SeriesMomentumAt(obs, LatestObservationDate(obs))
        /\ p.previous = SeriesMomentumAt(obs, PreviousPeriod(LatestObservationDate(obs)))
    BY DEF MonthOverMonthMomentum
  <2> HIDE DEF anchor, p
  <2> QED  BY <1>1, <1>3, <2>1 DEF PreviousPeriod, MonthBefore
<1>7. told.changes = SortEvents(events)
  <2>1. events = (MomentumEvents("PRIMARY_MOMENTUM", p.previous, p.current, Pair(p))
                   \cup MomentumEvents("HEADLINE_PCE", hp.previous, hp.current, Pair(hp))
                   \cup MomentumEvents("HEADLINE_CPI", hc.previous, hc.current, Pair(hc)))
                  \cup TargetEvents(t.previous, t.current, Pair(t))
                  \cup ConfirmationEvents(c.previous, c.current, Pair(c))
    BY DEF InflationEvents
  <2> QED  BY <2>1 DEF InflationWhatChanged, AssembleInflation
<1>8. Placed(events, ComponentOrder, FieldOrder) /\ OneOfEachKind(events)
  BY InflationEventsInOrder
<1>9. p.current.state # Insufficient /\ state[0] # Insufficient
  <2> HIDE DEF anchor, result, p
  <2> QED  BY <1>1, <1>2, <1>5, <1>6
<1> HIDE DEF p, result, anchor, state, events, told
<1>10. \A e : (e \in events /\ e.component = "PRIMARY_MOMENTUM" /\ e.field = "state")
                <=> e \in StateEvents("PRIMARY_MOMENTUM", "state", state[1], state[0], Pair(p))
  <2>1. p.previous.state = state[1] /\ p.current.state = state[0]
    BY <1>5, <1>6
  <2> QED  BY <1>1, <1>3, <1>9, <2>1, PrimaryStateEvents DEF events
<1>11. /\ Young(EvaluateStateDuration(state, anchor), "EXACT")
            <=> Says(SortEvents(events), "PRIMARY_MOMENTUM", "STATE_CHANGED")
       /\ Young(EvaluateStateDuration(state, anchor), "DATA_BOUNDED")
            <=> Says(SortEvents(events), "PRIMARY_MOMENTUM", "AVAILABILITY_RESTORED")
  BY <1>4, <1>8, <1>9, <1>10, Agree
<1> QED  BY <1>1, <1>7, <1>11 DEF told, p

\* DurationAgreesWithWhatChanged: a state is one month old iff the page of changes says
\* that it changed, or was restored, this month.
THEOREM DurationsAgree == Spec => []DurationAgreesWithWhatChanged
<1>1. HistoryInv => DurationAgreesWithWhatChanged
  <2> SUFFICES ASSUME HistoryInv PROVE DurationAgreesWithWhatChanged
    OBVIOUS
  <2>1. Observations(rows["PAYEMS"]) /\ Observations(rows["UNRATE"]) /\ Observations(rows["PCEPILFE"])
    BY DEF HistoryInv, RowsInv, Series, InflationSeries, LaborSeries
  <2>2. ASSUME LaborStateDuration(rows["PAYEMS"], rows["UNRATE"]) # Null
        PROVE  LET duration == LaborStateDuration(rows["PAYEMS"], rows["UNRATE"])
                   told == LaborWhatChanged(MonthOverMonthLabor(rows["PAYEMS"], rows["UNRATE"]))
               IN  /\ Young(duration.evaluation, "EXACT") <=> Says(told.changes, "LABOR", "STATE_CHANGED")
                   /\ Young(duration.evaluation, "DATA_BOUNDED")
                        <=> Says(told.changes, "LABOR", "AVAILABILITY_RESTORED")
    BY <2>1, <2>2, LaborAgrees
  <2>3. ASSUME NEW c, NEW t, NEW hp, NEW hc, InflationStateDuration(rows["PCEPILFE"]) # Null,
               InflationStateDuration(rows["PCEPILFE"]).evaluation_period
                 = MonthOverMonthMomentum(rows["PCEPILFE"]).current_period
        PROVE  LET duration == InflationStateDuration(rows["PCEPILFE"])
                   told == InflationWhatChanged(MonthOverMonthMomentum(rows["PCEPILFE"]), c, t, hp, hc)
               IN  /\ Young(duration.evaluation, "EXACT")
                        <=> Says(told.changes, "PRIMARY_MOMENTUM", "STATE_CHANGED")
                   /\ Young(duration.evaluation, "DATA_BOUNDED")
                        <=> Says(told.changes, "PRIMARY_MOMENTUM", "AVAILABILITY_RESTORED")
    BY <2>1, <2>3, InflationAgrees
  <2> QED  BY <2>2, <2>3 DEF DurationAgreesWithWhatChanged, Young, Says
<1> QED  BY HistoryInvariant, <1>1, PTL

---------------------------------------------------------------------------
(* What the checks tell of the observations *)

VersionsBefore(u, at, vs) == {v \in vs : SameObservation(v, u) /\ v.from < at}

\* A change as the versions older than the instant have it.
Judged(u, at, vs) ==
    /\ u.change = "NEW" <=> VersionsBefore(u, at, vs) = {}
    /\ u.previous = IF VersionsBefore(u, at, vs) = {} THEN Null ELSE LatestOf(VersionsBefore(u, at, vs)).value

VersionRecorded(u, at, vs) == \E v \in vs : SameObservation(v, u) /\ v.from = at /\ v.value = u.new

FirstOnly(vs) == \A u, v \in vs : SameObservation(u, v) /\ v.backfilled => v.from =< u.from

\* Only an observation's first version came with an import of history; what a check is
\* about to tell, and what each run told, is what the versions older than it have.
NewsInv ==
    /\ FirstOnly(versions)
    /\ \A w \in Workers : Live(w) =>
         \A d \in check[w].changes : Judged(d, check[w].detectedAt, versions)
    /\ \A i \in DOMAIN runs : \A u \in runs[i].observation_updates :
         Judged(u, runs[i].detected_at, versions) /\ VersionRecorded(u, runs[i].detected_at, versions)

\* Later versions leave what was judged as it was.
LEMMA JudgedStays ==
    ASSUME NEW u, NEW at, NEW vs, NEW vs2, Judged(u, at, vs), vs \subseteq vs2,
           \A v \in vs2 \ vs : SameObservation(v, u) => ~(v.from < at)
    PROVE  Judged(u, at, vs2)
<1>1. VersionsBefore(u, at, vs2) = VersionsBefore(u, at, vs)
  BY DEF VersionsBefore
<1> QED  BY <1>1 DEF Judged

\* A version newer than one stamped at the instant is no older than that instant.
LEMMA ToldStays ==
    ASSUME NEW u, NEW at, NEW vs, NEW vs2, Judged(u, at, vs), VersionRecorded(u, at, vs), vs \subseteq vs2,
           \A v \in vs : v.from \in Nat /\ v.commit \in Nat /\ v.from =< v.commit,
           \A v \in vs2 \ vs : v.from \in Nat /\ \A x \in vs : SameObservation(x, v) => x.commit < v.from
    PROVE  Judged(u, at, vs2) /\ VersionRecorded(u, at, vs2)
<1>1. PICK x \in vs : SameObservation(x, u) /\ x.from = at /\ x.value = u.new
  BY DEF VersionRecorded
<1>2. ASSUME NEW v \in vs2 \ vs, SameObservation(v, u) PROVE ~(v.from < at)
  <2>1. x.commit < v.from
    BY <1>1, <1>2 DEF SameObservation
  <2> QED  BY <1>1, <1>2, <2>1
<1>3. Judged(u, at, vs2)
  BY <1>2, JudgedStays
<1> QED  BY <1>1, <1>3 DEF VersionRecorded

\* A step that adds no version and no run, and leaves a session with the changes it had.
LEMMA NewsKept ==
    ASSUME NewsInv, DOMAIN check = Workers, NEW w \in Workers, NEW new,
           check' = [check EXCEPT ![w] = new], UNCHANGED <<versions, runs>>,
           \/ new \in {Idle, Dead}
           \/ \A d \in new.changes : Judged(d, new.detectedAt, versions)
    PROVE  NewsInv'
<1>1. FirstOnly(versions')
  BY DEF NewsInv
<1>2. ASSUME NEW v \in Workers, Live(v)', NEW d \in check'[v].changes
      PROVE  Judged(d, check'[v].detectedAt, versions')
  <2>1. CASE v = w
    BY <1>2, <2>1 DEF Live
  <2>2. CASE v # w
    <3>1. check'[v] = check[v] /\ Live(v)
      BY <1>2, <2>2 DEF Live
    <3> QED  BY <1>2, <3>1 DEF NewsInv
  <2> QED  BY <2>1, <2>2
<1>3. \A i \in DOMAIN runs' : \A u \in runs'[i].observation_updates :
         Judged(u, runs'[i].detected_at, versions') /\ VersionRecorded(u, runs'[i].detected_at, versions')
  BY DEF NewsInv
<1> QED  BY <1>1, <1>2, <1>3 DEF NewsInv

\* What is judged against the rows is judged against every version there is.
LEMMA NewsClassified ==
    ASSUME MonitorInv, HistoryInv, NEW release \in Eligible, NEW answers \in Answers(release),
           NEW d \in DetectedChanges(answers, rows)
    PROVE  Judged(d, clock + 1, versions)
<1>1. PICK s \in DOMAIN answers : answers[s] # Failed /\ d \in SeriesChanges(s, rows[s], answers[s])
  BY DEF DetectedChanges
<1>2. PICK m \in DOMAIN answers[s] :
         d = [series |-> s, month |-> m, previous |-> At(rows[s], m), new |-> answers[s][m],
              change |-> ClassifyObservationChange(m \in DOMAIN rows[s], At(rows[s], m), answers[s][m])]
  BY <1>1 DEF SeriesChanges
<1>3. /\ d.series = s /\ d.month = m /\ d.previous = At(rows[s], m)
      /\ d.change = ClassifyObservationChange(m \in DOMAIN rows[s], At(rows[s], m), answers[s][m])
  BY <1>2
<1>4. s \in Series
  BY AnswersAssumption, MappedReleases
<1>5. rows[s] = ValuesOf(OfSeries(s))
  BY <1>4 DEF HistoryInv, RowsInv
<1> DEFINE of == {v \in OfSeries(s) : v.month = m}
<1>6. VersionsBefore(d, clock + 1, versions) = of
  <2>1. \A v \in versions : v.from < clock + 1
    BY DEF MonitorInv, HistoryInv, VersionsInv, IsVersion
  <2> QED  BY <1>3, <2>1 DEF VersionsBefore, OfSeries, SameObservation
<1>7. m \in DOMAIN rows[s] <=> of # {}
  BY <1>5 DEF ValuesOf
<1>8. m \in DOMAIN rows[s] => rows[s][m] = LatestOf(of).value
  BY <1>5 DEF ValuesOf
<1>9. d.change = "NEW" <=> m \notin DOMAIN rows[s]
  BY <1>3 DEF ClassifyObservationChange
<1>10. d.previous = IF m \in DOMAIN rows[s] THEN rows[s][m] ELSE Null
  BY <1>3 DEF At
<1> HIDE DEF of
<1> QED  BY <1>6, <1>7, <1>8, <1>9, <1>10 DEF Judged

LEMMA NewsCommitted ==
    ASSUME MonitorInv, HistoryInv, NewsInv, NEW w \in Workers, Commit(w) PROVE NewsInv'
<1> DEFINE c == check[w]
           N == NewVersions(c)
<1>1. /\ clock \in Nat /\ clock' = clock + 1 /\ DOMAIN check = Workers
      /\ c.phase = "analysed" /\ check' = [check EXCEPT ![w] = Idle] /\ versions' = versions \cup N
      /\ runs' = Append(runs, CheckRun(c))
  BY DEF Commit, MonitorInv, NewVersions
<1>2. Live(w)
  BY <1>1 DEF Live, Idle, Dead
<1>3. SessionOK(c, versions, clock)
  BY <1>2 DEF HistoryInv, CheckInv
<1>4. /\ ChangesOf(c.release, c.changes) /\ c.detectedAt \in Nat /\ c.detectedAt =< clock
      /\ \A d \in c.changes : \A v \in versions : SameObservation(v, d) => v.commit < c.detectedAt
  BY <1>1, <1>3 DEF SessionOK
<1>5. /\ \A v \in N : /\ v.from = c.detectedAt
                      /\ \E d \in c.changes : v.series = d.series /\ v.month = d.month /\ v.value = d.new
      /\ \A d \in c.changes : \E v \in N : v.series = d.series /\ v.month = d.month
      /\ \A u, v \in N : SameObservation(u, v) => u = v
  BY <1>1, <1>4, NewVersionsOf
<1>6. \A v \in N : v.backfilled = FALSE
  BY DEF NewVersions
<1> HIDE DEF N
<1>7. \A v \in versions : v.commit \in Nat /\ v.from \in Nat /\ v.from =< v.commit
  BY DEF HistoryInv, VersionsInv, IsVersion
<1>8. \A v \in N : \A x \in versions : SameObservation(x, v) => x.commit < v.from
  <2> SUFFICES ASSUME NEW v \in N, NEW x \in versions, SameObservation(x, v) PROVE x.commit < v.from
    OBVIOUS
  <2>1. PICK d \in c.changes : v.series = d.series /\ v.month = d.month
    BY <1>5
  <2>2. SameObservation(x, d)
    BY <2>1 DEF SameObservation
  <2> QED  BY <1>4, <1>5, <2>2
<1>9. FirstOnly(versions')
  <2> SUFFICES ASSUME NEW u \in versions', NEW v \in versions', SameObservation(u, v), v.backfilled
               PROVE  v.from =< u.from
    BY DEF FirstOnly
  <2>1. v \in versions
    BY <1>1, <1>6
  <2>2. CASE u \in versions
    BY <2>1, <2>2 DEF NewsInv, FirstOnly
  <2>3. CASE u \in N
    <3>1. v.commit < u.from
      BY <1>8, <2>1, <2>3 DEF SameObservation
    <3>2. v.commit \in Nat /\ v.from \in Nat /\ v.from =< v.commit /\ u.from \in Nat
      BY <1>4, <1>5, <1>7, <2>1, <2>3
    <3> QED  BY <3>1, <3>2
  <2> QED  BY <1>1, <2>2, <2>3
<1>10. ASSUME NEW v \in Workers, Live(v)', NEW d \in check'[v].changes
       PROVE  Judged(d, check'[v].detectedAt, versions')
  <2>1. v # w /\ check'[v] = check[v] /\ Live(v)
    BY <1>1, <1>10 DEF Live
  <2>2. check[v].release # c.release /\ ChangesOf(check[v].release, check[v].changes)
    BY <1>2, <2>1 DEF MonitorInv, HistoryInv, CheckInv, SessionOK
  <2>3. \A e \in c.changes : d.series # e.series
    BY <1>4, <1>10, <2>1, <2>2, MappedReleases DEF ChangesOf
  <2>4. \A x \in versions' \ versions : ~SameObservation(x, d)
    BY <1>1, <1>5, <2>3 DEF SameObservation
  <2>5. Judged(d, check[v].detectedAt, versions)
    BY <1>10, <2>1 DEF NewsInv
  <2> QED  BY <1>1, <2>1, <2>4, <2>5, JudgedStays
<1>11. ASSUME NEW d \in c.changes
       PROVE  Judged(d, c.detectedAt, versions') /\ VersionRecorded(d, c.detectedAt, versions')
  <2>1. Judged(d, c.detectedAt, versions)
    BY <1>2, <1>11 DEF NewsInv
  <2>2. \A v \in versions' \ versions : SameObservation(v, d) => ~(v.from < c.detectedAt)
    BY <1>1, <1>4, <1>5
  <2>3. Judged(d, c.detectedAt, versions')
    BY <1>1, <2>1, <2>2, JudgedStays
  <2>4. PICK v \in N : v.series = d.series /\ v.month = d.month
    BY <1>5, <1>11
  <2>5. PICK e \in c.changes : v.series = e.series /\ v.month = e.month /\ v.value = e.new
    BY <1>5
  <2>6. e = d
    BY <1>4, <1>11, <2>4, <2>5 DEF ChangesOf, SameObservation
  <2>7. v \in versions' /\ SameObservation(v, d) /\ v.from = c.detectedAt /\ v.value = d.new
    BY <1>1, <1>5, <2>4, <2>5, <2>6 DEF SameObservation
  <2> QED  BY <2>3, <2>7 DEF VersionRecorded
<1>12. PICK S : runs \in Seq(S)
  BY DEF MonitorInv
<1> DEFINE last == Len(runs) + 1
<1>13. /\ DOMAIN runs' = DOMAIN runs \cup {last}
       /\ \A i \in DOMAIN runs : runs'[i] = runs[i]
       /\ runs'[last] = CheckRun(c)
  BY <1>1, <1>12, AppendedRun
<1>14. ASSUME NEW i \in DOMAIN runs', NEW u \in runs'[i].observation_updates
       PROVE  Judged(u, runs'[i].detected_at, versions') /\ VersionRecorded(u, runs'[i].detected_at, versions')
  <2>1. CASE i \in DOMAIN runs
    <3>1. runs'[i] = runs[i] /\ Judged(u, runs[i].detected_at, versions) /\ VersionRecorded(u, runs[i].detected_at, versions)
      BY <1>13, <1>14, <2>1 DEF NewsInv
    <3>2. \A v \in versions' \ versions :
             v.from \in Nat /\ \A x \in versions : SameObservation(x, v) => x.commit < v.from
      BY <1>1, <1>4, <1>5, <1>8
    <3> QED  BY <1>1, <1>7, <3>1, <3>2, ToldStays
  <2>2. CASE i = last
    <3>1. runs'[i].observation_updates = c.changes /\ runs'[i].detected_at = c.detectedAt
      BY <1>13, <2>2 DEF CheckRun
    <3> QED  BY <1>11, <1>14, <3>1
  <2> QED  BY <1>13, <1>14, <2>1, <2>2
<1> QED  BY <1>9, <1>10, <1>14 DEF NewsInv

LEMMA NewsImported ==
    ASSUME MonitorInv, HistoryInv, NewsInv, ImportCommit PROVE NewsInv'
<1> DEFINE s == ImportRow.series
           new == [series |-> ImportRow.series, month |-> ImportRow.month, value |-> ImportRow.value,
                   from |-> import.from, commit |-> clock + 1,
                   backfilled |-> /\ ImportRow.month \notin DOMAIN rows[ImportRow.series]
                                  /\ \E m \in DOMAIN rows[ImportRow.series] : m > ImportRow.month]
<1>1. import.phase = "open" /\ versions' = versions \cup {new} /\ UNCHANGED <<check, runs>>
  BY DEF ImportCommit
<1>2. /\ new.series = s /\ new.month = ImportRow.month /\ new.from = import.from
      /\ new.backfilled => ImportRow.month \notin DOMAIN rows[s]
  OBVIOUS
<1> HIDE DEF new
<1>3. /\ new.from \in Nat /\ s \in Series
      /\ \A v \in versions : SameObservation(v, new) => v.commit < new.from
  BY <1>1, <1>2, ImportAssumption DEF HistoryInv, ImportInv, SameObservation
<1>4. \A v \in versions : v.commit \in Nat /\ v.from \in Nat /\ v.from =< v.commit
  BY DEF HistoryInv, VersionsInv, IsVersion
<1>5. new.backfilled => \A v \in versions : ~SameObservation(v, new)
  <2> SUFFICES ASSUME new.backfilled, NEW v \in versions, SameObservation(v, new) PROVE FALSE
    OBVIOUS
  <2>1. v \in OfSeries(s) /\ v.month = ImportRow.month
    BY <1>2 DEF OfSeries, SameObservation
  <2>2. rows[s] = ValuesOf(OfSeries(s))
    BY <1>3 DEF HistoryInv, RowsInv
  <2> QED  BY <1>2, <2>1, <2>2 DEF ValuesOf
<1>6. FirstOnly(versions')
  <2> SUFFICES ASSUME NEW u \in versions', NEW v \in versions', SameObservation(u, v), v.backfilled
               PROVE  v.from =< u.from
    BY DEF FirstOnly
  <2>1. CASE v \in versions /\ u \in versions
    BY <2>1 DEF NewsInv, FirstOnly
  <2>2. CASE v \in versions /\ u = new
    <3>1. v.commit < new.from
      BY <1>3, <2>2 DEF SameObservation
    <3> QED  BY <1>3, <1>4, <2>2, <3>1
  <2>3. CASE v = new
    <3>1. u = new
      BY <1>1, <1>5, <2>3
    <3> QED  BY <1>3, <2>3, <3>1
  <2> QED  BY <1>1, <2>1, <2>2, <2>3
<1>7. ASSUME NEW w \in Workers, Live(w)', NEW d \in check'[w].changes
      PROVE  Judged(d, check'[w].detectedAt, versions')
  <2>1. check'[w] = check[w] /\ Live(w)
    BY <1>1, <1>7 DEF Live
  <2>2. ~SameObservation(d, ImportRow)
    BY <1>7, <2>1 DEF HistoryInv, CheckInv, SessionOK, ChangesOf
  <2>3. ~SameObservation(new, d)
    BY <1>2, <2>2 DEF SameObservation
  <2>4. Judged(d, check[w].detectedAt, versions)
    BY <1>7, <2>1 DEF NewsInv
  <2> QED  BY <1>1, <2>1, <2>3, <2>4, JudgedStays
<1>8. ASSUME NEW i \in DOMAIN runs', NEW u \in runs'[i].observation_updates
      PROVE  Judged(u, runs'[i].detected_at, versions') /\ VersionRecorded(u, runs'[i].detected_at, versions')
  <2>1. Judged(u, runs[i].detected_at, versions) /\ VersionRecorded(u, runs[i].detected_at, versions)
    BY <1>1, <1>8 DEF NewsInv
  <2>2. \A v \in versions' \ versions :
           v.from \in Nat /\ \A x \in versions : SameObservation(x, v) => x.commit < v.from
    BY <1>1, <1>3
  <2> QED  BY <1>1, <1>4, <2>1, <2>2, ToldStays
<1> QED  BY <1>6, <1>7, <1>8 DEF NewsInv

LEMMA NewsInductive ==
    /\ Init => NewsInv
    /\ MonitorInv /\ HistoryInv /\ NewsInv /\ [Next]_vars => NewsInv'
<1>1. ASSUME Init PROVE NewsInv
  <2>1. runs = <<>> /\ \A w \in Workers : ~Live(w)
    BY <1>1 DEF Init, Live
  <2>2. \A v \in versions : v.from = 0
    <3> SUFFICES ASSUME NEW v \in versions PROVE v.from = 0
      OBVIOUS
    <3>1. PICK s \in Series : v \in {[series |-> s, month |-> m, value |-> rows[s][m], from |-> 0,
                                      commit |-> 0, backfilled |-> TRUE] : m \in DOMAIN rows[s]}
      BY <1>1 DEF Init
    <3> QED  BY <3>1
  <2>3. FirstOnly(versions)
    BY <2>2 DEF FirstOnly
  <2> QED  BY <2>1, <2>3 DEF NewsInv
<1>2. ASSUME MonitorInv, HistoryInv, NewsInv, [Next]_vars PROVE NewsInv'
  <2>1. DOMAIN check = Workers
    BY <1>2 DEF MonitorInv
  <2>2. ASSUME NEW w \in Workers, Classify(w) PROVE NewsInv'
    <3>0. PICK release \in Eligible : \E answers \in Answers(release) :
            check' = [check EXCEPT ![w] =
              [phase |-> "classified", release |-> release,
               changes |-> DetectedChanges(answers, rows),
               status |-> CheckStatus(answers, DetectedChanges(answers, rows)),
               detectedAt |-> clock + 1]]
      BY <2>2 DEF Classify
    <3>1. PICK answers \in Answers(release) :
            check' = [check EXCEPT ![w] =
              [phase |-> "classified", release |-> release,
               changes |-> DetectedChanges(answers, rows),
               status |-> CheckStatus(answers, DetectedChanges(answers, rows)),
               detectedAt |-> clock + 1]]
      BY <3>0
    <3> DEFINE new == [phase |-> "classified", release |-> release,
                       changes |-> DetectedChanges(answers, rows),
                       status |-> CheckStatus(answers, DetectedChanges(answers, rows)),
                       detectedAt |-> clock + 1]
    <3>2. check' = [check EXCEPT ![w] = new] /\ UNCHANGED <<versions, runs>>
      BY <2>2, <3>1 DEF Classify
    <3>3. \A d \in new.changes : Judged(d, new.detectedAt, versions)
      BY <1>2, NewsClassified
    <3> HIDE DEF new
    <3> QED  BY <1>2, <2>1, <3>2, <3>3, NewsKept
  <2>3. ASSUME NEW w \in Workers, CaptureBefore(w) PROVE NewsInv'
    <3> DEFINE new ==
          [phase |-> "captured", release |-> check[w].release, changes |-> check[w].changes,
           status |-> check[w].status, detectedAt |-> check[w].detectedAt, before |-> rows]
    <3>1. /\ check' = [check EXCEPT ![w] = new] /\ UNCHANGED <<versions, runs>>
          /\ new.changes = check[w].changes /\ new.detectedAt = check[w].detectedAt
      BY <2>3 DEF CaptureBefore
    <3> HIDE DEF new
    <3>2. Live(w)
      BY <2>3 DEF CaptureBefore, Live, Idle, Dead
    <3>3. \A d \in new.changes : Judged(d, new.detectedAt, versions)
      BY <1>2, <3>1, <3>2 DEF NewsInv
    <3> QED  BY <1>2, <2>1, <3>1, <3>3, NewsKept
  <2>4. ASSUME NEW w \in Workers, Analyse(w) PROVE NewsInv'
    <3> DEFINE new ==
          [phase |-> "analysed", release |-> check[w].release, changes |-> check[w].changes,
           status |-> check[w].status, detectedAt |-> check[w].detectedAt, before |-> check[w].before,
           after |-> WriteChanges(check[w].changes, rows), completedAt |-> clock + 1]
    <3>1. /\ check' = [check EXCEPT ![w] = new] /\ UNCHANGED <<versions, runs>>
          /\ new.changes = check[w].changes /\ new.detectedAt = check[w].detectedAt
      BY <2>4 DEF Analyse
    <3> HIDE DEF new
    <3>2. Live(w)
      BY <2>4 DEF Analyse, Live, Idle, Dead
    <3>3. \A d \in new.changes : Judged(d, new.detectedAt, versions)
      BY <1>2, <3>1, <3>2 DEF NewsInv
    <3> QED  BY <1>2, <2>1, <3>1, <3>3, NewsKept
  <2>5. ASSUME NEW w \in Workers, Abort(w) PROVE NewsInv'
    <3>1. check' = [check EXCEPT ![w] = Dead] /\ UNCHANGED <<versions, runs>>
      BY <2>5 DEF Abort
    <3> QED  BY <1>2, <2>1, <3>1, NewsKept
  <2>6. CASE ImportWrite \/ UNCHANGED vars
    <3>1. UNCHANGED <<versions, check, runs>>
      BY <2>6 DEF ImportWrite, vars
    <3> QED  BY <1>2, <3>1 DEF NewsInv, Live
  <2> QED
    BY <1>2, <2>2, <2>3, <2>4, <2>5, <2>6, NewsCommitted, NewsImported DEF Next
<1> QED  BY <1>1, <1>2

\* NewsIsOfTheVersions: what a run tells of an observation, that it is new, what it was
\* before and whether that was its original value, is what the observation's versions have.
THEOREM NewsAgrees == Spec => []NewsIsOfTheVersions
<1>1. HistoryInv /\ NewsInv => NewsIsOfTheVersions
  <2> SUFFICES ASSUME HistoryInv, NewsInv, NEW i \in DOMAIN runs, NEW u \in runs[i].observation_updates
               PROVE  LET timeline == {v \in versions : v.series = u.series /\ v.month = u.month}
                          older == {v \in timeline : v.from < runs[i].detected_at}
                      IN  /\ \E v \in timeline : v.from = runs[i].detected_at /\ v.value = u.new
                          /\ u.change = "NEW" <=> older = {}
                          /\ u.previous = IF older = {} THEN Null ELSE LatestOf(older).value
                          /\ ReleaseObservationChange(runs[i], u).original_value_known
                               => \A v \in timeline : ~v.backfilled
    BY DEF NewsIsOfTheVersions
  <2> DEFINE at == runs[i].detected_at
             timeline == {v \in versions : v.series = u.series /\ v.month = u.month}
             older == {v \in timeline : v.from < at}
             known == RevisionKnowledge(u.change, TimelineOf(u.series, u.month))
  <2>1. Judged(u, at, versions) /\ VersionRecorded(u, at, versions)
    BY DEF NewsInv
  <2>2. older = VersionsBefore(u, at, versions)
    BY DEF VersionsBefore, SameObservation
  <2>3. \E v \in timeline : v.from = at /\ v.value = u.new
    BY <2>1 DEF VersionRecorded, SameObservation
  <2>4. ReleaseObservationChange(runs[i], u).original_value_known => known = "PROSPECTIVE_REVISION"
    BY DEF ReleaseObservationChange, ObservationChange
  <2>5. ASSUME known = "PROSPECTIVE_REVISION", NEW v \in timeline, v.backfilled PROVE FALSE
    <3> DEFINE line == TimelineOf(u.series, u.month)
               stamp(x) == [at |-> x.from, backfilled |-> x.backfilled]
               first == CHOOSE x \in line : \A y \in line : x.at =< y.at
    <3>1. line = {stamp(x) : x \in timeline}
      BY DEF TimelineOf
    <3>2. stamp(v) \in line /\ stamp(v).at = v.from /\ stamp(v).backfilled
      BY <2>5, <3>1
    <3>3. \A x \in timeline : x \in versions /\ x.from \in Nat /\ x.commit \in Nat /\ x.from =< x.commit
      BY DEF HistoryInv, VersionsInv, IsVersion
    <3>4. \A x, y \in timeline : SameObservation(x, y)
      BY DEF SameObservation
    <3>5. \A y \in line : stamp(v).at =< y.at
      <4> SUFFICES ASSUME NEW y \in line PROVE v.from =< y.at
        BY <3>2
      <4>1. PICK x \in timeline : y = stamp(x)
        BY <3>1
      <4>2. v.from =< x.from
        BY <2>5, <3>3, <3>4 DEF NewsInv, FirstOnly
      <4> QED  BY <4>1, <4>2
    <3> HIDE DEF line
    <3>6. first \in line /\ \A y \in line : first.at =< y.at
      BY <3>2, <3>5
    <3> HIDE DEF first
    <3>7. PICK x \in timeline : first = stamp(x)
      BY <3>1, <3>6
    <3>8. first.at = x.from /\ first.backfilled = x.backfilled
      BY <3>7
    <3>9. x = v
      <4>1. x.from =< v.from /\ v.from =< x.from
        BY <3>2, <3>3, <3>5, <3>6, <3>8
      <4>2. x # v => x.commit < v.from \/ v.commit < x.from
        BY <2>5, <3>3, <3>4 DEF HistoryInv, VersionsInv
      <4> QED  BY <2>5, <3>3, <4>1, <4>2
    <3>10. first.backfilled
      BY <2>5, <3>8, <3>9
    <3>11. ~first.backfilled
      <4>1. u.change = "REVISED" /\ line # {}
        BY <2>5, <3>2 DEF RevisionKnowledge, line
      <4> QED  BY <2>5, <4>1 DEF RevisionKnowledge, first, line
    <3> QED  BY <3>10, <3>11
  <2> HIDE DEF at, known
  <2>6. ReleaseObservationChange(runs[i], u).original_value_known => \A v \in timeline : ~v.backfilled
    BY <2>4, <2>5
  <2>7. /\ u.change = "NEW" <=> older = {}
        /\ u.previous = IF older = {} THEN Null ELSE LatestOf(older).value
    BY <2>1, <2>2 DEF Judged
  <2> QED  BY <2>3, <2>6, <2>7 DEF at
<1>2. Init => MonitorInv /\ HistoryInv /\ NewsInv
  BY NewsInductive, MonitorInvInductive, HistoryInit
<1> QED
  BY HistoryInvariant, NewsInductive, <1>1, PTL DEF Spec
==============================================================================
