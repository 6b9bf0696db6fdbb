-------------------------- MODULE OperationsProofs --------------------------
(***************************************************************************)
(* Theorems about the operator commands: the release command, the heartbeat  *)
(* check and the synchronisation of the calendar; and about requests, taken   *)
(* and made: the limiter of a costly route, the gate of the sign-ins, and one  *)
(* call of a provider.                                                       *)
(***************************************************************************)
EXTENDS Services, FiniteSetTheorems, SequenceTheorems, WellFoundedInduction, TLAPS

\* Some indices have a greatest one.
LEMMA GreatestIndex ==
    ASSUME NEW n \in Nat, NEW set, set \subseteq 1..n, set # {}
    PROVE  \E i \in set : \A j \in set : j =< i
<1> DEFINE R == OpToRel(<, Nat)
           T == {n - i : i \in set}
<1>1. IsWellFoundedOn(R, Nat)
  BY NatLessThanWellFounded
<1>2. T \subseteq Nat /\ T # {}
  <2>1. \A i \in 1..n : n - i \in Nat
    OBVIOUS
  <2> QED  BY <2>1
<1>3. R = {pair \in Nat \X Nat : pair[1] < pair[2]}
  BY DEF OpToRel
<1> HIDE DEF R
<1>4. PICK t \in T : \A u \in T : ~(<<u, t>> \in R)
  BY <1>1, <1>2, WFMin
<1>5. \A u \in T : ~(u < t)
  BY <1>2, <1>3, <1>4
<1>6. PICK i \in set : t = n - i
  BY <1>4
<1>7. \A j \in set : ~(n - j < n - i)
  BY <1>5, <1>6
<1> QED
  BY <1>7

\* The size of a set of indices that are all after the m-th.
LEMMA IndicesAfter ==
    ASSUME NEW m \in Nat, NEW n \in Nat, m =< n, NEW set, set \subseteq (m + 1)..n
    PROVE  Cardinality(set) \in Nat /\ Cardinality(set) =< n - m
<1>1. IsFiniteSet((m + 1)..n) /\ Cardinality((m + 1)..n) = n - m
  <2>1. m + 1 \in Int /\ n \in Int
    OBVIOUS
  <2>2. /\ IsFiniteSet((m + 1)..n)
        /\ Cardinality((m + 1)..n) = IF m + 1 > n THEN 0 ELSE n - (m + 1) + 1
    BY <2>1, FS_Interval
  <2> QED  BY <2>2
<1>2. IsFiniteSet(set) /\ Cardinality(set) =< Cardinality((m + 1)..n)
  BY <1>1, FS_Subset
<1> QED  BY <1>1, <1>2, FS_CardinalityType

---------------------------------------------------------------------------
(* Each part on its own: a step of the whole is one of the part or none.     *)

LEMMA SchemaSteps == Spec => SchemaInit /\ [][SchemaNext]_schemaVars
<1>1. Init => SchemaInit  BY DEF Init
<1>2. [Next]_vars => [SchemaNext]_schemaVars  BY DEF Next, vars, schemaVars
<1> QED  BY <1>1, <1>2, PTL DEF Spec

LEMMA HealthSteps == Spec => HealthInit /\ [][HealthNext]_healthVars
<1>1. Init => HealthInit  BY DEF Init
<1>2. [Next]_vars => [HealthNext]_healthVars  BY DEF Next, vars, healthVars
<1> QED  BY <1>1, <1>2, PTL DEF Spec

LEMMA CalendarSteps == Spec => CalendarInit /\ [][CalendarNext]_calendarVars
<1>1. Init => CalendarInit  BY DEF Init
<1>2. [Next]_vars => [CalendarNext]_calendarVars  BY DEF Next, vars, calendarVars
<1> QED  BY <1>1, <1>2, PTL DEF Spec

---------------------------------------------------------------------------
(* The release command *)

MigratorState ==
    [phase : {"start", "safe", "upgrading", "upgraded"}]
    \cup [phase : {"migrating"}, from : 0..(Expected - 1)]
    \cup [phase : {"ended"}, exit : {0, 2}]

\* A migration under way began behind the expected head.
SchemaInv == migrator \in [Migrators -> MigratorState]

LEMMA SchemaInvInductive ==
    /\ SchemaInit => SchemaInv
    /\ SchemaInv /\ [SchemaNext]_schemaVars => SchemaInv'
<1>1. SchemaInit => SchemaInv
  BY DEF SchemaInit, SchemaInv, MigratorState
<1>2. ASSUME SchemaInv, [SchemaNext]_schemaVars PROVE SchemaInv'
  <2>1. ASSUME NEW p \in Migrators, NEW to \in MigratorState, migrator' = [migrator EXCEPT ![p] = to]
        PROVE  SchemaInv'
    BY <1>2, <2>1 DEF SchemaInv
  <2>2. /\ End(0) \in MigratorState /\ End(2) \in MigratorState
        /\ \A phase \in {"start", "safe", "upgrading", "upgraded"} : [phase |-> phase] \in MigratorState
    BY DEF End, MigratorState
  <2>3. ASSUME NEW p \in Migrators, Preflight(p) PROVE SchemaInv'
    BY <2>1, <2>2, <2>3 DEF Preflight, Step
  <2>4. ASSUME NEW p \in Migrators, CheckBefore(p) PROVE SchemaInv'
    BY <2>1, <2>2, <2>4 DEF CheckBefore, Step
  <2>5. ASSUME NEW p \in Migrators, BeginUpgrade(p) PROVE SchemaInv'
    <3>1. CASE ~reachable \/ revision \notin 0..Expected
      BY <2>1, <2>2, <2>5, <3>1 DEF BeginUpgrade, Step
    <3>2. CASE reachable /\ revision = Expected
      BY <2>1, <2>2, <2>5, <3>2, SchemaAssumption DEF BeginUpgrade, Step
    <3>3. CASE reachable /\ revision \in 0..Expected /\ revision # Expected
      <4>1. [phase |-> "migrating", from |-> revision] \in MigratorState
        BY <3>3, SchemaAssumption DEF MigratorState
      <4>2. migrator' = [migrator EXCEPT ![p] = [phase |-> "migrating", from |-> revision]]
        BY <2>5, <3>3 DEF BeginUpgrade, Step
      <4> QED  BY <2>1, <4>1, <4>2
    <3> QED  BY <3>1, <3>2, <3>3
  <2>6. ASSUME NEW p \in Migrators, CommitUpgrade(p) PROVE SchemaInv'
    BY <2>1, <2>2, <2>6 DEF CommitUpgrade
  <2>7. ASSUME NEW p \in Migrators, FailUpgrade(p) PROVE SchemaInv'
    BY <2>1, <2>2, <2>7 DEF FailUpgrade, Step
  <2>8. ASSUME NEW p \in Migrators, CheckAfter(p) PROVE SchemaInv'
    BY <2>1, <2>2, <2>8 DEF CheckAfter, Step
  <2>9. CASE UNCHANGED migrator
    BY <1>2, <2>9 DEF SchemaInv
  <2> QED
    BY <1>2, <2>3, <2>4, <2>5, <2>6, <2>7, <2>8, <2>9 DEF SchemaNext, schemaVars, NewerRelease, Reach
<1> QED  BY <1>1, <1>2

\* What a release command promises with exit code 0, and that its migrations only
\* move forward, for any number of them: ExitTellsTheSchema.
THEOREM ExitIsHonest == Spec => ExitTellsTheSchema
<1> DEFINE Promise ==
      /\ \A p \in Migrators : (migrator'[p] = End(0) /\ migrator[p] # End(0)) =>
            revision' \in Expected..Newest
      /\ (revision' # revision /\ migrator' # migrator) =>
            revision \in 0..(Expected - 1) /\ revision' = Expected
<1>1. ASSUME SchemaInv, [SchemaNext]_schemaVars PROVE [Promise]_schemaVars
  <2>1. Expected \in Expected..Newest  BY SchemaAssumption
  <2>2. ASSUME NEW p \in Migrators, NEW to, migrator' = [migrator EXCEPT ![p] = to], to # End(0),
               UNCHANGED revision
        PROVE  Promise
    BY <1>1, <2>2 DEF SchemaInv
  <2>3. ASSUME NEW p \in Migrators, NEW to, migrator' = [migrator EXCEPT ![p] = to],
               UNCHANGED revision, revision = Expected
        PROVE  Promise
    BY <2>1, <2>3
  <2>4. /\ End(2) # End(0)
        /\ \A phase : [phase |-> phase] # End(0)
        /\ \A from : [phase |-> "migrating", from |-> from] # End(0)
    BY DEF End
  <2>5. CheckSchemaCompatibility = "COMPATIBLE" => revision = Expected
    BY DEF CheckSchemaCompatibility
  <2>6. ASSUME NEW p \in Migrators, Preflight(p) PROVE Promise
    BY <2>2, <2>4, <2>6 DEF Preflight, Step
  <2>7. ASSUME NEW p \in Migrators, CheckBefore(p) PROVE Promise
    <3>1. CASE NothingToDo(CheckSchemaCompatibility)
      BY <2>3, <2>5, <2>7, <3>1 DEF CheckBefore, Step, NothingToDo
    <3>2. CASE ~NothingToDo(CheckSchemaCompatibility)
      BY <2>2, <2>4, <2>7, <3>2 DEF CheckBefore, Step
    <3> QED  BY <3>1, <3>2
  <2>8. ASSUME NEW p \in Migrators, BeginUpgrade(p) PROVE Promise
    <3> DEFINE to == CASE ~reachable \/ revision \notin 0..Expected -> End(2)
                       [] reachable /\ revision = Expected -> [phase |-> "upgraded"]
                       [] OTHER -> [phase |-> "migrating", from |-> revision]
    <3>1. to # End(0)  BY <2>4
    <3>2. migrator' = [migrator EXCEPT ![p] = to] /\ UNCHANGED revision
      BY <2>8 DEF BeginUpgrade, Step
    <3> HIDE DEF to
    <3> QED  BY <2>2, <3>1, <3>2
  <2>9. ASSUME NEW p \in Migrators, CommitUpgrade(p) PROVE Promise
    <3>1. CASE reachable /\ revision = migrator[p].from
      <4>1. migrator[p].from \in 0..(Expected - 1)
        BY <1>1, <2>9 DEF SchemaInv, MigratorState, CommitUpgrade
      <4>2. revision' = Expected /\ migrator' = [migrator EXCEPT ![p] = [phase |-> "upgraded"]]
        BY <2>9, <3>1 DEF CommitUpgrade
      <4> QED  BY <2>1, <3>1, <4>1, <4>2
    <3>2. CASE ~(reachable /\ revision = migrator[p].from)
      BY <2>2, <2>4, <2>9, <3>2 DEF CommitUpgrade
    <3> QED  BY <3>1, <3>2
  <2>10. ASSUME NEW p \in Migrators, FailUpgrade(p) PROVE Promise
    BY <2>2, <2>4, <2>10 DEF FailUpgrade, Step
  <2>11. ASSUME NEW p \in Migrators, CheckAfter(p) PROVE Promise
    <3>1. CASE Ready
      BY <2>3, <2>5, <2>11, <3>1 DEF CheckAfter, Step, Ready
    <3>2. CASE ~Ready
      BY <2>2, <2>4, <2>11, <3>2 DEF CheckAfter, Step
    <3> QED  BY <3>1, <3>2
  <2>12. CASE NewerRelease \/ Reach
    BY <2>12 DEF NewerRelease, Reach
  <2> QED
    BY <1>1, <2>6, <2>7, <2>8, <2>9, <2>10, <2>11, <2>12 DEF SchemaNext
<1>2. SchemaInit /\ [][SchemaNext]_schemaVars => []SchemaInv
  BY SchemaInvInductive, PTL
<1> QED
  BY SchemaSteps, <1>1, <1>2, PTL DEF ExitTellsTheSchema
---------------------------------------------------------------------------
(* The calendar *)

IsOccurrence(o) ==
    o = [release |-> o.release, date |-> o.date, first_seen |-> o.first_seen, last_seen |-> o.last_seen]

HeldOnce(set) == \A o, p \in set : (p.release = o.release /\ p.date = o.date) => p = o

IsWritten(state) ==
    /\ state = [phase |-> "written", kind |-> state.kind, dates |-> state.dates,
                missing |-> state.missing, now |-> state.now, seen |-> state.seen,
                inserted |-> state.inserted]
    /\ Keys(state.dates) \subseteq state.seen \cup state.inserted
    /\ state.seen \subseteq Held
    /\ \A k \in state.inserted : k = <<k[1], k[2]>>
    /\ state.kind = "schedule" =>
         /\ state.missing = ScheduledReleases \ active
         /\ state.dates = [r \in ScheduledReleases \cap active |-> Schedule[r]]

\* What a session found held when it wrote is still held when it commits.
CalendarInv ==
    /\ \A o \in occurrences : IsOccurrence(o)
    /\ HeldOnce(occurrences)
    /\ DOMAIN syncer = Syncers
    /\ \A s \in Syncers : syncer[s].phase = "written" => IsWritten(syncer[s])

\* A session that commits adds exactly the dates it inserted, and changes of the
\* others at most when they were last seen.
LEMMA CommittedOccurrences ==
    ASSUME CalendarInv, NEW s \in Syncers, Commit(s), syncer[s].inserted \cap Held = {}
    PROVE  /\ Held' = Held \cup syncer[s].inserted
           /\ \A o \in occurrences : \E p \in occurrences' :
                p.release = o.release /\ p.date = o.date /\ p.first_seen = o.first_seen
           /\ \A o \in occurrences' : IsOccurrence(o)
           /\ HeldOnce(occurrences')
<1> DEFINE Again(o) == IF <<o.release, o.date>> \in syncer[s].seen
                       THEN [o EXCEPT !.last_seen = syncer[s].now] ELSE o
           Fresh(k) == [release |-> k[1], date |-> k[2], first_seen |-> syncer[s].now,
                        last_seen |-> syncer[s].now]
<1>1. occurrences' = {Again(o) : o \in occurrences} \cup {Fresh(k) : k \in syncer[s].inserted}
  BY DEF Commit
<1>2. ASSUME NEW o \in occurrences
      PROVE  /\ Again(o).release = o.release /\ Again(o).date = o.date
             /\ Again(o).first_seen = o.first_seen
             /\ IsOccurrence(Again(o))
  BY <1>2 DEF CalendarInv, IsOccurrence
<1>3. ASSUME NEW k \in syncer[s].inserted
      PROVE  /\ <<Fresh(k).release, Fresh(k).date>> = k
             /\ IsOccurrence(Fresh(k))
  BY <1>3 DEF CalendarInv, IsWritten, Commit, IsOccurrence
<1> HIDE DEF Again, Fresh
<1>4. Held' = Held \cup syncer[s].inserted
  <2>1. \A o \in occurrences : <<Again(o).release, Again(o).date>> = <<o.release, o.date>>
    BY <1>2
  <2>2. Held' \subseteq Held \cup syncer[s].inserted
    BY <1>1, <1>3, <2>1 DEF Held
  <2>3. Held \subseteq Held'
    BY <1>1, <2>1 DEF Held
  <2>4. syncer[s].inserted \subseteq Held'
    BY <1>1, <1>3 DEF Held
  <2> QED  BY <2>2, <2>3, <2>4
<1>5. \A o \in occurrences : \E p \in occurrences' :
        p.release = o.release /\ p.date = o.date /\ p.first_seen = o.first_seen
  BY <1>1, <1>2
<1>6. \A o \in occurrences' : IsOccurrence(o)
  BY <1>1, <1>2, <1>3
<1>7. ASSUME NEW o \in occurrences', NEW p \in occurrences', p.release = o.release, p.date = o.date
      PROVE  p = o
  <2>1. CASE \E a, b \in occurrences : o = Again(a) /\ p = Again(b)
    <3>1. PICK a \in occurrences, b \in occurrences : o = Again(a) /\ p = Again(b)
      BY <2>1
    <3>2. a = b
      BY <1>2, <1>7, <3>1 DEF CalendarInv, HeldOnce
    <3> QED  BY <3>1, <3>2
  <2>2. CASE \E k, l \in syncer[s].inserted : o = Fresh(k) /\ p = Fresh(l)
    <3>1. PICK k \in syncer[s].inserted, l \in syncer[s].inserted : o = Fresh(k) /\ p = Fresh(l)
      BY <2>2
    <3>2. k = l
      BY <1>3, <1>7, <3>1
    <3> QED  BY <3>1, <3>2
  <2>3. ASSUME NEW a \in occurrences, NEW k \in syncer[s].inserted,
               Again(a).release = Fresh(k).release, Again(a).date = Fresh(k).date
        PROVE  FALSE
    <3>1. <<a.release, a.date>> = k
      BY <1>2, <1>3, <2>3
    <3> QED  BY <3>1, <2>3 DEF Held
  <2> QED  BY <1>1, <1>7, <2>1, <2>2, <2>3
<1> QED  BY <1>4, <1>5, <1>6, <1>7 DEF HeldOnce

LEMMA CalendarInvInductive ==
    /\ CalendarInit => CalendarInv
    /\ CalendarInv /\ [CalendarNext]_calendarVars => CalendarInv'
<1>1. CalendarInit => CalendarInv
  BY DEF CalendarInit, CalendarInv, HeldOnce
<1>2. ASSUME CalendarInv, [CalendarNext]_calendarVars PROVE CalendarInv'
  <2>1. ASSUME UNCHANGED <<active, occurrences>>, DOMAIN syncer' = Syncers,
               \A s \in Syncers : syncer'[s].phase = "written" =>
                 syncer'[s] = syncer[s] \/ IsWritten(syncer'[s])
        PROVE  CalendarInv'
    <3>1. Held' = Held  BY <2>1 DEF Held
    <3>2. ASSUME NEW s \in Syncers, syncer'[s].phase = "written" PROVE IsWritten(syncer[s])'
      BY <1>2, <2>1, <3>1, <3>2 DEF CalendarInv, IsWritten
    <3> QED  BY <1>2, <2>1, <3>2 DEF CalendarInv
  <2>2. ASSUME NEW s \in Syncers, NEW kind, NEW dates, NEW missing, UpsertDates(s, kind, dates, missing),
               kind = "schedule" =>
                 /\ missing = ScheduledReleases \ active
                 /\ dates = [r \in ScheduledReleases \cap active |-> Schedule[r]]
        PROVE  CalendarInv'
    <3> DEFINE new == [phase |-> "written", kind |-> kind, dates |-> dates, missing |-> missing,
                       now |-> today, seen |-> Keys(dates) \cap Held, inserted |-> Keys(dates) \ Held]
    <3>1. \A k \in Keys(dates) : k = <<k[1], k[2]>>
      BY DEF Keys
    <3>2. IsWritten(new)
      BY <2>2, <3>1 DEF IsWritten
    <3>3. syncer' = [syncer EXCEPT ![s] = new] /\ UNCHANGED <<active, occurrences>>
      BY <2>2 DEF UpsertDates
    <3> HIDE DEF new
    <3> QED  BY <1>2, <2>1, <3>2, <3>3 DEF CalendarInv
  <2>3. ASSUME NEW s \in Syncers, SyncSchedule(s) PROVE CalendarInv'
    BY <2>2, <2>3 DEF SyncSchedule
  <2>4. ASSUME NEW s \in Syncers, SyncAll(s) PROVE CalendarInv'
    <3>1. PICK answers \in [FredReleases \cap active -> ReleaseDates] :
            UpsertDates(s, "fred", [r \in {x \in DOMAIN answers : answers[x] # Failed} |-> answers[r]], {})
      BY <2>4 DEF SyncAll
    <3> QED  BY <2>2, <3>1
  <2>5. ASSUME NEW s \in Syncers, Commit(s) PROVE CalendarInv'
    <3>1. CASE syncer[s].inserted \cap Held # {}
      BY <1>2, <2>1, <2>5, <3>1 DEF Commit, CalendarInv
    <3>2. CASE syncer[s].inserted \cap Held = {}
      <4>1. Held \subseteq Held' /\ (\A o \in occurrences' : IsOccurrence(o)) /\ HeldOnce(occurrences')
        BY <1>2, <2>5, <3>2, CommittedOccurrences
      <4>2. UNCHANGED active /\ DOMAIN syncer' = Syncers
        BY <1>2, <2>5 DEF Commit, CalendarInv
      <4>3. ASSUME NEW q \in Syncers, syncer'[q].phase = "written" PROVE IsWritten(syncer[q])'
        <5>1. syncer'[q] = syncer[q]
          BY <1>2, <2>5, <3>2, <4>3 DEF Commit, CalendarInv
        <5>2. IsWritten(syncer[q])
          BY <1>2, <4>3, <5>1 DEF CalendarInv
        <5> QED  BY <4>1, <4>2, <5>1, <5>2 DEF IsWritten
      <4> QED  BY <4>1, <4>2, <4>3 DEF CalendarInv
    <3> QED  BY <3>1, <3>2
  <2>6. ASSUME NEW s \in Syncers, Abandon(s) PROVE CalendarInv'
    BY <1>2, <2>1, <2>6 DEF Abandon, CalendarInv
  <2>7. ASSUME NEW s \in Syncers, Return(s) PROVE CalendarInv'
    BY <1>2, <2>1, <2>7 DEF Return, CalendarInv
  <2>8. CASE NextDay \/ UNCHANGED calendarVars
    BY <1>2, <2>1, <2>8 DEF NextDay, calendarVars, CalendarInv
  <2> QED  BY <1>2, <2>3, <2>4, <2>5, <2>6, <2>7, <2>8 DEF CalendarNext
<1> QED  BY <1>1, <1>2

\* A schedule that reads OK has a date to come.
LEMMA OkHasADate ==
    ASSUME NEW dates, NEW day, ScheduleState(dates, day) = "OK"
    PROVE  \E d \in dates : d >= day
BY DEF ScheduleState

\* Exit code 0 of the schedule command.
LEMMA ScheduleExitZero ==
    ASSUME NEW missing, NEW day, ScheduleExit(missing, day) = 0
    PROVE  missing = {} /\ \A r \in ScheduledReleases : ScheduleState(Schedule[r], day) = "OK"
BY DEF ScheduleExit

\* CalendarKeepsItsWord, for any number of sessions, any schedule and any answers.
THEOREM CalendarKept == Spec => CalendarKeepsItsWord
<1> DEFINE Stays == \A o \in occurrences : \E p \in occurrences' :
                       p.release = o.release /\ p.date = o.date /\ p.first_seen = o.first_seen
           Once == \A o, p \in occurrences' : (p.release = o.release /\ p.date = o.date) => p = o
           Told == \A s \in Syncers :
                     (syncer'[s].phase = "done" /\ syncer[s].phase = "written" /\ syncer'[s].exit # 2) =>
                        /\ Keys(syncer[s].dates) \subseteq Held'
                        /\ (syncer'[s].kind = "schedule" /\ syncer'[s].exit = 0) =>
                             \A r \in ScheduledReleases :
                                r \in active /\ \E o \in occurrences' : o.release = r /\ o.date >= syncer[s].now
<1>1. ASSUME CalendarInv, CalendarNext PROVE Stays /\ Once /\ Told
  <2>1. CASE UNCHANGED occurrences /\ \A s \in Syncers :
               syncer'[s].phase = "done" /\ syncer[s].phase = "written" => syncer'[s].exit = 2
    BY <1>1, <2>1 DEF CalendarInv, HeldOnce
  <2>2. ASSUME NEW s \in Syncers, SyncSchedule(s) \/ SyncAll(s) PROVE Stays /\ Once /\ Told
    <3>1. PICK new : /\ new.phase = "written" /\ syncer' = [syncer EXCEPT ![s] = new]
                     /\ UNCHANGED occurrences
      BY <2>2 DEF SyncSchedule, SyncAll, UpsertDates
    <3> QED  BY <1>1, <2>1, <3>1 DEF CalendarInv
  <2>3. ASSUME NEW s \in Syncers, Abandon(s) \/ Return(s) PROVE Stays /\ Once /\ Told
    BY <1>1, <2>1, <2>3 DEF CalendarInv, Abandon, Return
  <2>4. CASE NextDay
    BY <1>1, <2>1, <2>4 DEF CalendarInv, NextDay
  <2>5. ASSUME NEW s \in Syncers, Commit(s) PROVE Stays /\ Once /\ Told
    <3>1. CASE syncer[s].inserted \cap Held # {}
      BY <1>1, <2>1, <2>5, <3>1 DEF CalendarInv, Commit
    <3>2. CASE syncer[s].inserted \cap Held = {}
      <4>1. /\ Held' = Held \cup syncer[s].inserted
            /\ Stays
            /\ HeldOnce(occurrences')
        BY <1>1, <2>5, <3>2, CommittedOccurrences
      <4>2. IsWritten(syncer[s])
        BY <1>1, <2>5 DEF CalendarInv, Commit
      <4>3. Keys(syncer[s].dates) \subseteq Held'
        BY <4>1, <4>2 DEF IsWritten
      <4>4. /\ \A q \in Syncers \ {s} : syncer'[q] = syncer[q]
            /\ syncer'[s] = [phase |-> "done", kind |-> syncer[s].kind,
                             exit |-> IF syncer[s].kind = "schedule"
                                      THEN ScheduleExit(syncer[s].missing, syncer[s].now) ELSE 0]
        BY <1>1, <2>5, <3>2 DEF CalendarInv, Commit
      <4>5. ASSUME syncer'[s].kind = "schedule", syncer'[s].exit = 0, NEW r \in ScheduledReleases
            PROVE  r \in active /\ \E o \in occurrences' : o.release = r /\ o.date >= syncer[s].now
        <5>1. syncer[s].kind = "schedule" /\ ScheduleExit(syncer[s].missing, syncer[s].now) = 0
          BY <4>4, <4>5
        <5>2. syncer[s].missing = {} /\ ScheduleState(Schedule[r], syncer[s].now) = "OK"
          BY <5>1, ScheduleExitZero
        <5>3. r \in active /\ r \in DOMAIN syncer[s].dates /\ syncer[s].dates[r] = Schedule[r]
          BY <4>2, <5>1, <5>2 DEF IsWritten
        <5>4. PICK d \in Schedule[r] : d >= syncer[s].now
          BY <5>2, OkHasADate
        <5>5. <<r, d>> \in Keys(syncer[s].dates)
          BY <5>3 DEF Keys
        <5>6. <<r, d>> \in Held'
          BY <4>3, <5>5
        <5>7. PICK o \in occurrences' : <<o.release, o.date>> = <<r, d>>
          BY <5>6 DEF Held
        <5> QED  BY <5>3, <5>4, <5>7
      <4>6. Told
        BY <4>3, <4>4, <4>5
      <4> QED  BY <4>1, <4>6 DEF HeldOnce
    <3> QED  BY <3>1, <3>2
  <2> QED  BY <1>1, <2>2, <2>3, <2>4, <2>5 DEF CalendarNext
<1>2. CalendarInv /\ [CalendarNext]_calendarVars => [Stays /\ Once /\ Told]_calendarVars
  BY <1>1
<1>3. CalendarInit /\ [][CalendarNext]_calendarVars => []CalendarInv
  BY CalendarInvInductive, PTL
<1> QED
  BY CalendarSteps, <1>2, <1>3, PTL DEF CalendarKeepsItsWord
---------------------------------------------------------------------------
(* The heartbeat check *)

SweepRow == [started_at : Nat, finished_at : Nat \cup {Null}, failed_count : {0, 1, Null}]

\* Rows are in order of their start, and none starts or ends in the future.
SweepsInv ==
    /\ hour \in Nat
    /\ sweeps \in Seq(SweepRow)
    /\ \A i \in DOMAIN sweeps :
         /\ sweeps[i].started_at =< hour
         /\ sweeps[i].finished_at # Null =>
              sweeps[i].finished_at >= sweeps[i].started_at /\ sweeps[i].failed_count # Null
         /\ \A j \in DOMAIN sweeps : i =< j => sweeps[i].started_at =< sweeps[j].started_at

LEMMA RowTypes ==
    ASSUME SweepsInv, NEW i \in DOMAIN sweeps
    PROVE  /\ sweeps[i] \in SweepRow
           /\ sweeps[i].started_at \in Nat /\ sweeps[i].finished_at \in Nat \cup {Null}
           /\ sweeps[i].failed_count \in {0, 1, Null}
<1>1. sweeps[i] \in SweepRow
  BY DEF SweepsInv
<1> QED  BY <1>1 DEF SweepRow

\* The row that was the newest: unchanged if it had finished, and whatever started
\* after it did so when the check had been asked.
WasLatest(latest, now) ==
    latest # Null =>
      /\ latest \in SweepRow
      /\ latest.finished_at # Null => latest.failed_count # Null
      /\ \E l \in DOMAIN sweeps :
           /\ sweeps[l].started_at = latest.started_at
           /\ latest.finished_at # Null => sweeps[l] = latest
      /\ \A j \in DOMAIN sweeps :
           sweeps[j].started_at > latest.started_at => sweeps[j].started_at >= now

CheckupInv ==
    \/ checkup = [phase |-> "none"]
    \/ /\ checkup.phase \in {"asked", "read", "done"}
       /\ checkup.now \in Nat /\ checkup.now =< hour
       /\ checkup.phase = "read" => WasLatest(checkup.latest, checkup.now)
       /\ HealthyIsRecentAndClean

HealthInv == SweepsInv /\ CheckupInv

\* The newest of some rows is one of them, and none of them started later.
LEMMA NewestOfRows ==
    ASSUME SweepsInv, NEW ids, ids \subseteq DOMAIN sweeps, NewestOf(ids) # Null
    PROVE  \E i \in ids : NewestOf(ids) = sweeps[i]
                          /\ \A j \in ids : sweeps[j].started_at =< sweeps[i].started_at
<1>1. ids # {}  BY DEF NewestOf
<1>2. DOMAIN sweeps = 1..Len(sweeps) /\ Len(sweeps) \in Nat
  BY DEF SweepsInv
<1>3. PICK m \in ids : \A j \in ids : j =< m
  BY <1>1, <1>2, GreatestIndex
<1> DEFINE Newest1(i) == \A j \in ids : \/ sweeps[j].started_at < sweeps[i].started_at
                                        \/ sweeps[j].started_at = sweeps[i].started_at /\ j =< i
<1>4. \A i \in DOMAIN sweeps : sweeps[i].started_at \in Nat
  BY RowTypes
<1>5. Newest1(m)
  BY <1>3, <1>4 DEF SweepsInv
<1>6. PICK i \in ids : i = (CHOOSE c \in ids : Newest1(c)) /\ Newest1(i)
  BY <1>5
<1>7. NewestOf(ids) = sweeps[i]
  BY <1>1, <1>6 DEF NewestOf
<1>8. \A j \in ids : sweeps[j].started_at =< sweeps[i].started_at
  BY <1>4, <1>6
<1> QED  BY <1>7, <1>8

\* What exit code 0 means of the rows that were read.
LEMMA HealthyRows ==
    ASSUME NEW latest, NEW finished, NEW now,
           ExitCode(ClassifyMaintenanceHealth(latest, finished, now)) = 0
    PROVE  LET reference == IF latest.finished_at # Null THEN latest ELSE finished
           IN  /\ latest # Null /\ reference # Null
               /\ latest.finished_at = Null => ~(now - latest.started_at > UnfinishedGracePeriod)
               /\ ~(now - reference.started_at > StaleThreshold)
               /\ ~(reference.failed_count > 0)
BY DEF ExitCode, ClassifyMaintenanceHealth

LEMMA ClassifiedHealthy ==
    ASSUME HealthInv, ReadFinishedAndClassify PROVE HealthyIsRecentAndClean'
<1> DEFINE now == checkup.now
           latest == checkup.latest
           finished == GetLatestFinishedSweep
<1>1. /\ now \in Nat /\ now =< hour
      /\ WasLatest(latest, now)
  BY DEF HealthInv, CheckupInv, ReadFinishedAndClassify
<1>2. /\ checkup'.now = now /\ UNCHANGED sweeps
      /\ checkup'.exit = ExitCode(ClassifyMaintenanceHealth(latest, finished, now))
  BY DEF ReadFinishedAndClassify
<1>3. \A i \in DOMAIN sweeps :
        /\ sweeps[i].started_at \in Nat /\ sweeps[i].finished_at \in Nat \cup {Null}
        /\ sweeps[i].failed_count \in {0, 1, Null}
        /\ sweeps[i].finished_at # Null =>
             sweeps[i].finished_at >= sweeps[i].started_at /\ sweeps[i].failed_count # Null
  BY RowTypes DEF HealthInv, SweepsInv
<1> DEFINE Before(j) == sweeps[j].finished_at # Null /\ sweeps[j].finished_at < now
           Vouches(i) ==
             /\ sweeps[i].finished_at # Null /\ sweeps[i].failed_count = 0
             /\ now - sweeps[i].started_at =< StaleThreshold
             /\ \A j \in DOMAIN sweeps : sweeps[j].started_at > sweeps[i].started_at => ~Before(j)
             /\ \A j \in DOMAIN sweeps :
                  (/\ sweeps[j].started_at > sweeps[i].started_at
                   /\ now - sweeps[j].started_at > UnfinishedGracePeriod)
                    => \E k \in DOMAIN sweeps : sweeps[k].started_at > sweeps[j].started_at
<1>4. ASSUME checkup'.exit = 0 PROVE \E i \in DOMAIN sweeps : Vouches(i)
  <2>1. /\ latest # Null
        /\ latest.finished_at = Null =>
             /\ finished # Null
             /\ ~(now - latest.started_at > UnfinishedGracePeriod)
             /\ ~(now - finished.started_at > StaleThreshold)
             /\ ~(finished.failed_count > 0)
        /\ latest.finished_at # Null =>
             /\ ~(now - latest.started_at > StaleThreshold)
             /\ ~(latest.failed_count > 0)
    BY <1>2, <1>4, HealthyRows
  <2>2. PICK l \in DOMAIN sweeps :
          /\ sweeps[l].started_at = latest.started_at
          /\ latest.finished_at # Null => sweeps[l] = latest
    BY <1>1, <2>1 DEF WasLatest
  <2>3. \A j \in DOMAIN sweeps :
          sweeps[j].started_at > latest.started_at => sweeps[j].started_at >= now
    BY <1>1, <2>1 DEF WasLatest
  <2> HIDE DEF now, latest, finished
  <2>4. CASE latest.finished_at # Null
    <3>1. sweeps[l].finished_at # Null /\ sweeps[l].failed_count = 0
      BY <1>3, <2>1, <2>2, <2>4, HealthAssumption
    <3>2. now - sweeps[l].started_at =< StaleThreshold
      BY <1>1, <1>3, <2>1, <2>2, <2>4, HealthAssumption
    <3>3. \A j \in DOMAIN sweeps : sweeps[j].started_at > sweeps[l].started_at => ~Before(j)
      BY <1>1, <1>3, <2>2, <2>3, <2>4
    <3>4. \A j \in DOMAIN sweeps : sweeps[j].started_at > sweeps[l].started_at =>
            ~(now - sweeps[j].started_at > UnfinishedGracePeriod)
      BY <1>1, <1>3, <2>2, <2>3, <2>4, HealthAssumption
    <3> QED  BY <3>1, <3>2, <3>3, <3>4
  <2>5. CASE latest.finished_at = Null
    <3> DEFINE ids == {i \in DOMAIN sweeps : sweeps[i].finished_at # Null}
    <3>1. PICK i \in ids : finished = sweeps[i]
                           /\ \A j \in ids : sweeps[j].started_at =< sweeps[i].started_at
      BY <2>1, <2>5, NewestOfRows DEF finished, GetLatestFinishedSweep, HealthInv
    <3>2. sweeps[i].finished_at # Null /\ sweeps[i].failed_count = 0
      BY <1>3, <2>1, <2>5, <3>1, HealthAssumption
    <3>3. now - sweeps[i].started_at =< StaleThreshold
      BY <1>1, <1>3, <2>1, <2>5, <3>1, HealthAssumption
    <3>4. \A j \in DOMAIN sweeps : sweeps[j].started_at > sweeps[i].started_at =>
            sweeps[j].finished_at = Null
      BY <1>3, <3>1
    <3>5. \A j \in DOMAIN sweeps : now - sweeps[j].started_at > UnfinishedGracePeriod =>
            sweeps[l].started_at > sweeps[j].started_at
      BY <1>1, <1>3, <2>1, <2>2, <2>5, HealthAssumption
    <3> QED  BY <3>1, <3>2, <3>3, <3>4, <3>5
  <2> QED  BY <2>4, <2>5
<1> QED  BY <1>2, <1>4 DEF HealthyIsRecentAndClean

LEMMA HealthInvInductive ==
    /\ HealthInit => HealthInv
    /\ HealthInv /\ [HealthNext]_healthVars => HealthInv'
<1>1. HealthInit => HealthInv
  BY DEF HealthInit, HealthInv, SweepsInv, CheckupInv
<1>2. ASSUME HealthInv, [HealthNext]_healthVars PROVE HealthInv'
  <2>1. CASE UNCHANGED healthVars
    BY <1>2, <2>1 DEF healthVars, HealthInv, SweepsInv, CheckupInv, WasLatest, HealthyIsRecentAndClean
  <2>2. ASSUME checkup.phase # "done", StartSweep PROVE HealthInv'
    <3> DEFINE row == [started_at |-> hour, finished_at |-> Null, failed_count |-> Null]
    <3>1. sweeps' = Append(sweeps, row) /\ UNCHANGED <<hour, checkup>>
      BY <2>2 DEF StartSweep
    <3>2. hour \in Nat /\ sweeps \in Seq(SweepRow)
      BY <1>2 DEF HealthInv, SweepsInv
    <3>3. row \in SweepRow
      BY <3>2 DEF SweepRow
    <3>4. /\ sweeps' \in Seq(SweepRow)
          /\ DOMAIN sweeps' = DOMAIN sweeps \cup {Len(sweeps) + 1}
          /\ DOMAIN sweeps = 1..Len(sweeps) /\ Len(sweeps) \in Nat
          /\ \A i \in DOMAIN sweeps : sweeps'[i] = sweeps[i]
          /\ sweeps'[Len(sweeps) + 1] = row
      BY <3>1, <3>2, <3>3
    <3>5. \A i \in DOMAIN sweeps : sweeps[i].started_at =< hour
      BY <1>2 DEF HealthInv, SweepsInv
    <3>6. row.started_at = hour /\ row.finished_at = Null
      OBVIOUS
    <3> HIDE DEF row
    <3>7. SweepsInv'
      BY <1>2, <3>1, <3>2, <3>4, <3>5, <3>6 DEF HealthInv, SweepsInv
    <3>8. CheckupInv'
      <4>1. ASSUME checkup.phase = "read" PROVE WasLatest(checkup.latest, checkup.now)'
        <5>1. WasLatest(checkup.latest, checkup.now) /\ checkup.now \in Nat /\ checkup.now =< hour
          BY <1>2, <4>1 DEF HealthInv, CheckupInv
        <5> QED  BY <3>1, <3>2, <3>4, <3>6, <5>1 DEF WasLatest
      <4> QED  BY <1>2, <2>2, <3>1, <4>1 DEF HealthInv, CheckupInv, HealthyIsRecentAndClean
    <3> QED  BY <3>7, <3>8 DEF HealthInv
  <2>3. ASSUME checkup.phase # "done", NEW i \in DOMAIN sweeps, NEW failed \in {0, 1}, FinishSweep(i, failed)
        PROVE  HealthInv'
    <3> DEFINE row == [sweeps[i] EXCEPT !.finished_at = hour, !.failed_count = failed]
    <3>1. sweeps' = [sweeps EXCEPT ![i] = row] /\ sweeps[i].finished_at = Null /\ UNCHANGED <<hour, checkup>>
      BY <2>3 DEF FinishSweep
    <3>2. hour \in Nat /\ sweeps \in Seq(SweepRow) /\ sweeps[i] \in SweepRow
      BY <1>2, <2>3 DEF HealthInv, SweepsInv
    <3>3. /\ row \in SweepRow /\ row.started_at = sweeps[i].started_at
          /\ row.finished_at = hour /\ row.failed_count = failed
      BY <3>2 DEF SweepRow
    <3> HIDE DEF row
    <3>4. /\ sweeps' \in Seq(SweepRow) /\ DOMAIN sweeps' = DOMAIN sweeps
          /\ \A j \in DOMAIN sweeps : sweeps'[j].started_at = sweeps[j].started_at
          /\ \A j \in DOMAIN sweeps \ {i} : sweeps'[j] = sweeps[j]
          /\ sweeps'[i] = row
      BY <3>1, <3>2, <3>3
    <3>5. SweepsInv'
      BY <1>2, <2>3, <3>1, <3>3, <3>4, HealthAssumption DEF HealthInv, SweepsInv
    <3>6. ASSUME checkup.phase = "read" PROVE WasLatest(checkup.latest, checkup.now)'
      <4>1. WasLatest(checkup.latest, checkup.now)
        BY <1>2, <3>6 DEF HealthInv, CheckupInv
      <4>2. ASSUME checkup.latest # Null
            PROVE  \E l \in DOMAIN sweeps' :
                     /\ sweeps'[l].started_at = checkup.latest.started_at
                     /\ checkup.latest.finished_at # Null => sweeps'[l] = checkup.latest
        <5>1. PICK l \in DOMAIN sweeps :
                /\ sweeps[l].started_at = checkup.latest.started_at
                /\ checkup.latest.finished_at # Null => sweeps[l] = checkup.latest
          BY <4>1, <4>2 DEF WasLatest
        <5>2. checkup.latest.finished_at # Null => l # i
          BY <3>1, <5>1
        <5> QED  BY <3>4, <5>1, <5>2
      <4> QED  BY <3>1, <3>4, <4>1, <4>2 DEF WasLatest
    <3>7. CheckupInv'
      BY <1>2, <2>3, <3>1, <3>6 DEF HealthInv, CheckupInv, HealthyIsRecentAndClean
    <3> QED  BY <3>5, <3>7 DEF HealthInv
  <2>4. CASE BeginCheckup
    BY <1>2, <2>4 DEF BeginCheckup, HealthInv, SweepsInv, CheckupInv, HealthyIsRecentAndClean
  <2>5. CASE RefuseSchema
    BY <1>2, <2>5 DEF RefuseSchema, HealthInv, SweepsInv, CheckupInv, HealthyIsRecentAndClean
  <2>6. CASE ReadLatest
    <3>1. SweepsInv /\ SweepsInv'
      BY <1>2, <2>6 DEF ReadLatest, HealthInv, SweepsInv
    <3>2. ASSUME GetLatestSweep # Null PROVE WasLatest(GetLatestSweep, checkup.now)
      <4>1. PICK l \in DOMAIN sweeps : GetLatestSweep = sweeps[l]
                  /\ \A j \in DOMAIN sweeps : sweeps[j].started_at =< sweeps[l].started_at
        BY <3>1, <3>2, NewestOfRows DEF GetLatestSweep
      <4>2. \A j \in DOMAIN sweeps : sweeps[j] \in SweepRow /\ sweeps[j].started_at \in Nat
        BY <3>1, RowTypes
      <4>3. sweeps[l].finished_at # Null => sweeps[l].failed_count # Null
        BY <3>1 DEF SweepsInv
      <4> QED  BY <4>1, <4>2, <4>3 DEF WasLatest
    <3>3. WasLatest(GetLatestSweep, checkup.now)
      BY <3>2 DEF WasLatest
    <3>4. /\ checkup' = [phase |-> "read", now |-> checkup.now, latest |-> GetLatestSweep]
          /\ UNCHANGED <<hour, sweeps>>
      BY <2>6 DEF ReadLatest
    <3>5. checkup.now \in Nat /\ checkup.now =< hour
      BY <1>2, <2>6 DEF ReadLatest, HealthInv, CheckupInv
    <3>6. WasLatest(checkup.latest, checkup.now)'
      BY <3>3, <3>4 DEF WasLatest
    <3> QED  BY <3>1, <3>4, <3>5, <3>6 DEF HealthInv, CheckupInv, HealthyIsRecentAndClean
  <2>7. CASE ReadFinishedAndClassify
    <3>1. HealthyIsRecentAndClean'
      BY <1>2, <2>7, ClassifiedHealthy
    <3>2. /\ checkup'.phase = "done" /\ checkup'.now = checkup.now /\ UNCHANGED <<hour, sweeps>>
          /\ checkup.now \in Nat /\ checkup.now =< hour
      BY <1>2, <2>7 DEF ReadFinishedAndClassify, HealthInv, CheckupInv
    <3> QED  BY <1>2, <3>1, <3>2 DEF HealthInv, SweepsInv, CheckupInv
  <2>8. ASSUME checkup.phase # "done", PassHour PROVE HealthInv'
    <3>1. SweepsInv'
      <4>1. SweepsInv /\ hour' = hour + 1 /\ UNCHANGED sweeps
        BY <1>2, <2>8 DEF PassHour, HealthInv
      <4>2. \A i \in DOMAIN sweeps : sweeps[i].started_at \in Nat
        BY <4>1, RowTypes
      <4> QED  BY <4>1, <4>2 DEF SweepsInv
    <3>2. CheckupInv'
      BY <1>2, <2>8 DEF PassHour, HealthInv, SweepsInv, CheckupInv, WasLatest, HealthyIsRecentAndClean
    <3> QED  BY <3>1, <3>2 DEF HealthInv
  <2> QED  BY <1>2, <2>1, <2>2, <2>3, <2>4, <2>5, <2>6, <2>7, <2>8 DEF HealthNext
<1> QED  BY <1>1, <1>2

\* HealthyIsRecentAndClean, for any number of sweeps and any thresholds.
THEOREM HealthyIsHonest == Spec => []HealthyIsRecentAndClean
<1>1. HealthInv => HealthyIsRecentAndClean
  BY DEF HealthInv, CheckupInv, HealthyIsRecentAndClean
<1> QED
  BY HealthSteps, HealthInvInductive, <1>1, PTL

---------------------------------------------------------------------------
(* Requests *)

LimiterSystem == LimiterNext \/ GateNext

LEMMA LimiterSteps == Spec => LimiterInit /\ [][LimiterSystem]_limiterVars
<1>1. Init => LimiterInit  BY DEF Init
<1>2. [Next]_vars => [LimiterSystem]_limiterVars
  BY DEF Next, vars, limiterVars, LimiterSystem
<1> QED  BY <1>1, <1>2, PTL DEF Spec

---------------------------------------------------------------------------
(* What the limiter keeps and drops *)

LEMMA WindowIsPositive == Window \in Nat /\ Window > 0
BY LimiterAssumption DEF Window

\* The expired events are the first ones, as many as they are.
LEMMA ExpiredAreFirst ==
    ASSUME NEW seq \in Seq(Int), NEW cutoff \in Int
    PROVE  /\ Cardinality(Expired(seq, cutoff)) \in 0..Len(seq)
           /\ Expired(seq, cutoff) = 1..Cardinality(Expired(seq, cutoff))
<1> DEFINE E == Expired(seq, cutoff)
<1>1. Len(seq) \in Nat /\ E \subseteq 1..Len(seq)
  BY DEF Expired
<1>2. CASE E = {}
  BY <1>1, <1>2, FS_EmptySet
<1>3. CASE E # {}
  <2>1. PICK m \in E : \A j \in E : j =< m
    BY <1>1, <1>3, GreatestIndex
  <2>2. m \in 1..Len(seq)
    BY <1>1
  <2>3. \A i \in 1..m : i \in E
    BY <2>1, <2>2 DEF Expired
  <2>4. E = 1..m
    <3>1. ASSUME NEW j \in E PROVE j \in 1..m
      <4>1. j \in 1..Len(seq) /\ j =< m
        BY <1>1, <2>1
      <4> QED  BY <2>2, <4>1
    <3> HIDE DEF E
    <3> QED  BY <2>3, <3>1
  <2>5. Cardinality(E) = m
    <3>1. m \in Int /\ ~(1 > m) /\ m - 1 + 1 = m
      BY <1>1, <2>2
    <3>2. Cardinality(1..m) = IF 1 > m THEN 0 ELSE m - 1 + 1
      BY <3>1, FS_Interval
    <3> QED  BY <2>4, <3>1, <3>2
  <2> QED  BY <2>2, <2>4, <2>5
<1> QED  BY <1>2, <1>3

\* What is kept is the events after the expired ones.
LEMMA KeptAreLast ==
    ASSUME NEW seq \in Seq(Int), NEW cutoff \in Int
    PROVE  LET gone == Cardinality(Expired(seq, cutoff))
               kept == NotExpired(seq, cutoff)
           IN  /\ gone \in 0..Len(seq)
               /\ kept \in Seq(Int) /\ Len(kept) = Len(seq) - gone
               /\ \A i \in 1..Len(kept) : kept[i] = seq[gone + i]
               /\ \A i \in 1..gone : seq[i] =< cutoff
<1> DEFINE gone == Cardinality(Expired(seq, cutoff))
           kept == NotExpired(seq, cutoff)
<1>1. gone \in 0..Len(seq) /\ Expired(seq, cutoff) = 1..gone
  BY ExpiredAreFirst
<1>2. kept = SubSeq(seq, gone + 1, Len(seq))
  BY DEF NotExpired
<1> HIDE DEF gone, kept
<1>3. Len(seq) \in Nat /\ gone + 1 \in Int /\ Len(seq) \in Int
  BY <1>1
<1>4. \A i \in (gone + 1)..Len(seq) : seq[i] \in Int
  BY <1>1, <1>3
<1>5. /\ kept \in Seq(Int)
      /\ Len(kept) = IF gone + 1 =< Len(seq) THEN Len(seq) - (gone + 1) + 1 ELSE 0
      /\ \A i \in 1..(Len(seq) - (gone + 1) + 1) : kept[i] = seq[(gone + 1) + i - 1]
  BY <1>2, <1>3, <1>4, SubSeqProperties
<1>6. Len(kept) = Len(seq) - gone
  BY <1>1, <1>3, <1>5
<1>7. \A i \in 1..Len(kept) : kept[i] = seq[gone + i]
  <2> TAKE i \in 1..Len(kept)
  <2>1. i \in 1..(Len(seq) - (gone + 1) + 1) /\ (gone + 1) + i - 1 = gone + i
    BY <1>1, <1>3, <1>6
  <2> QED  BY <1>5, <2>1
<1>8. \A i \in 1..gone : seq[i] =< cutoff
  BY <1>1 DEF Expired
<1> QED  BY <1>1, <1>5, <1>6, <1>7, <1>8 DEF gone, kept

---------------------------------------------------------------------------
(* The invariant *)

Grant == [stamp : Nat, at : Nat]

\* The deque holds the stamps of the last events let through, and those it has
\* dropped had left the window.
DequeInv ==
    /\ moment \in Nat
    /\ events \in Seq(Int)
    /\ allowed \in Seq(Grant)
    /\ Len(events) =< Limit
    /\ Len(events) =< Len(allowed)
    /\ \A i \in 1..Len(events) : events[i] = allowed[Len(allowed) - Len(events) + i].stamp
    /\ \A i \in 1..(Len(allowed) - Len(events)) : allowed[i].stamp =< moment - Window

\* A refused caller's wait outlasts the oldest event, while nobody is let through.
WaitIsEnough(r) ==
    (\A i \in DOMAIN allowed : allowed[i].at < r.at) =>
        events = <<>> \/ events[1] + Window < r.at + r.retry_after * TicksPerSecond

RequestInv ==
    /\ DOMAIN request = Threads
    /\ \A t \in Threads :
         /\ request[t].phase = "reading" =>
              /\ request[t] = [phase |-> "reading", stamp |-> request[t].stamp]
              /\ request[t].stamp \in Nat /\ request[t].stamp =< moment
         /\ request[t].phase = "refused" =>
              /\ request[t].at \in Nat /\ request[t].at =< moment
              /\ request[t].retry_after \in Nat
              /\ WaitIsEnough(request[t])

LimiterInv == DequeInv /\ RequestInv

LEMMA EventTypes ==
    ASSUME DequeInv
    PROVE  /\ Len(events) \in Nat /\ Len(allowed) \in Nat
           /\ \A i \in 1..Len(allowed) : allowed[i].stamp \in Nat /\ allowed[i].at \in Nat
           /\ \A i \in 1..Len(events) : events[i] \in Int
<1>1. \A i \in 1..Len(allowed) : allowed[i] \in Grant
  BY DEF DequeInv
<1>2. Len(events) \in Nat /\ Len(allowed) \in Nat /\ \A i \in 1..Len(events) : events[i] \in Int
  BY DEF DequeInv
<1> QED  BY <1>1, <1>2 DEF Grant

\* Allow keeps the deque in step with what was let through, at any stamp that is
\* not of the future; where it lets nobody through, it changes nothing.
LEMMA AllowKeepsTheDeque ==
    ASSUME DequeInv, NEW at \in Nat, at =< moment, Allow(at), UNCHANGED moment
    PROVE  /\ DequeInv'
           /\ \/ UNCHANGED <<events, allowed>>
              \/ allowed' = Append(allowed, [stamp |-> at, at |-> moment])
<1> DEFINE cutoff == at - Window
           kept == NotExpired(events, cutoff)
           gone == Cardinality(Expired(events, cutoff))
           n == Len(events)
           L == Len(allowed)
<1>1. /\ moment \in Nat /\ events \in Seq(Int) /\ allowed \in Seq(Grant)
      /\ n \in Nat /\ L \in Nat /\ n =< Limit /\ n =< L
      /\ \A i \in 1..n : events[i] = allowed[L - n + i].stamp
      /\ \A i \in 1..(L - n) : allowed[i].stamp =< moment - Window
  BY EventTypes DEF DequeInv
<1>2. cutoff \in Int /\ cutoff =< moment - Window
  BY <1>1, WindowIsPositive
<1>3. /\ gone \in 0..n
      /\ kept \in Seq(Int) /\ Len(kept) = n - gone
      /\ \A i \in 1..Len(kept) : kept[i] = events[gone + i]
      /\ \A i \in 1..gone : events[i] =< cutoff
  BY <1>1, <1>2, KeptAreLast
<1>4. /\ events' = IF HasRoom(kept) THEN Append(kept, at) ELSE kept
      /\ allowed' = IF HasRoom(kept) THEN Append(allowed, [stamp |-> at, at |-> moment]) ELSE allowed
  BY DEF Allow
<1> HIDE DEF cutoff, kept, gone
<1>5. CASE ~HasRoom(kept)
  <2>1. gone = 0
    BY <1>1, <1>3, <1>5, LimiterAssumption DEF HasRoom
  <2>2. Len(kept) = n /\ \A i \in 1..n : kept[i] = events[i]
    BY <1>1, <1>3, <2>1
  <2>3. kept = events
    BY <1>1, <1>3, <2>2, SeqEqual
  <2>4. UNCHANGED <<events, allowed>>
    BY <1>4, <1>5, <2>3
  <2> QED  BY <2>4 DEF DequeInv
<1>6. CASE HasRoom(kept)
  <2> DEFINE grant == [stamp |-> at, at |-> moment]
  <2>1. events' = Append(kept, at) /\ allowed' = Append(allowed, grant)
    BY <1>4, <1>6
  <2>2. grant \in Grant /\ grant.stamp = at
    BY <1>1 DEF Grant
  <2> HIDE DEF grant
  <2>3. /\ events' \in Seq(Int) /\ Len(events') = n - gone + 1
        /\ \A i \in 1..(n - gone) : events'[i] = kept[i]
        /\ events'[n - gone + 1] = at
    BY <1>1, <1>3, <2>1
  <2>4. /\ allowed' \in Seq(Grant) /\ Len(allowed') = L + 1
        /\ \A i \in 1..L : allowed'[i] = allowed[i]
        /\ allowed'[L + 1] = grant
    BY <1>1, <2>1, <2>2
  <2>5. Len(events') =< Limit
    BY <1>1, <1>3, <1>6, <2>3, LimiterAssumption DEF HasRoom
  <2>6. ASSUME NEW i \in 1..Len(events')
        PROVE  events'[i] = allowed'[Len(allowed') - Len(events') + i].stamp
    <3>1. Len(allowed') - Len(events') + i = L - n + gone + i
      BY <1>1, <1>3, <2>3, <2>4
    <3>2. CASE i = n - gone + 1
      <4>1. L - n + gone + i = L + 1
        BY <1>1, <1>3, <3>2
      <4> QED  BY <2>2, <2>3, <2>4, <3>1, <3>2, <4>1
    <3>3. CASE i # n - gone + 1
      <4>1. i \in 1..(n - gone) /\ gone + i \in 1..n /\ L - n + (gone + i) \in 1..L
        <5>1. i \in Nat /\ 1 =< i /\ i =< n - gone + 1 /\ gone \in Nat /\ gone =< n
          BY <1>1, <1>3, <2>3
        <5> HIDE DEF n, L
        <5>2. n \in Nat /\ L \in Nat /\ n =< L
          BY <1>1 DEF n, L
        <5> QED  BY <3>3, <5>1, <5>2
      <4>2. events'[i] = events[gone + i]
        BY <1>3, <2>3, <4>1
      <4>3. events[gone + i] = allowed[L - n + (gone + i)].stamp
        BY <1>1, <4>1
      <4>4. L - n + (gone + i) = L - n + gone + i
        BY <1>1, <1>3, <4>1
      <4> QED  BY <2>4, <3>1, <4>1, <4>2, <4>3, <4>4
    <3> QED  BY <3>2, <3>3
  <2>7. ASSUME NEW i \in 1..(Len(allowed') - Len(events'))
        PROVE  allowed'[i].stamp =< moment - Window
    <3>1. i \in 1..(L - n + gone) /\ i \in 1..L
      BY <1>1, <1>3, <2>3, <2>4
    <3>2. CASE i \in 1..(L - n)
      BY <1>1, <2>4, <3>1, <3>2
    <3>3. CASE i \notin 1..(L - n)
      <4>1. i - (L - n) \in 1..gone /\ i - (L - n) \in 1..n /\ L - n + (i - (L - n)) = i
        BY <1>1, <1>3, <3>1, <3>3
      <4>2. events[i - (L - n)] = allowed[i].stamp
        BY <1>1, <4>1
      <4> DEFINE j == i - (L - n)
      <4> HIDE DEF j
      <4>3. events[j] =< cutoff /\ events[j] \in Int
        <5>1. j \in 1..gone /\ j \in 1..n
          BY <4>1 DEF j
        <5>2. events[j] =< cutoff
          BY <1>3, <5>1
        <5>3. events[j] \in Int
          BY <5>1, EventTypes
        <5> QED  BY <5>2, <5>3
      <4>4. allowed[i].stamp =< moment - Window
        <5>1. events[j] = allowed[i].stamp
          BY <4>2 DEF j
        <5> QED  BY <1>1, <1>2, <4>3, <5>1, WindowIsPositive
      <4> QED  BY <2>4, <3>1, <4>4
    <3> QED  BY <3>2, <3>3
  <2>8. Len(events') =< Len(allowed')
    BY <1>1, <1>3, <2>3, <2>4
  <2>9. DequeInv'
    BY <1>1, <2>3, <2>4, <2>5, <2>6, <2>7, <2>8 DEF DequeInv
  <2> QED  BY <2>1, <2>9 DEF grant
<1> QED  BY <1>5, <1>6

\* Once somebody has been let through, a wait that was told promises nothing.
LEMMA WaitSurvives ==
    ASSUME LimiterInv, NEW t \in Threads, request[t].phase = "refused",
           UNCHANGED moment,
           \/ UNCHANGED <<events, allowed>>
           \/ \E at : allowed' = Append(allowed, [stamp |-> at, at |-> moment])
    PROVE  request'[t] = request[t] => WaitIsEnough(request[t])'
<1> DEFINE r == request[t]
<1>1. r.at \in Nat /\ r.at =< moment /\ WaitIsEnough(r)
  BY DEF LimiterInv, RequestInv
<1>2. CASE UNCHANGED <<events, allowed>>
  BY <1>1, <1>2 DEF WaitIsEnough
<1>3. CASE \E at : allowed' = Append(allowed, [stamp |-> at, at |-> moment])
  <2>1. PICK at : allowed' = Append(allowed, [stamp |-> at, at |-> moment])
    BY <1>3
  <2>2. allowed \in Seq(Grant) /\ Len(allowed) \in Nat /\ moment \in Nat
    BY DEF LimiterInv, DequeInv
  <2>3. /\ Len(allowed) + 1 \in DOMAIN allowed'
        /\ allowed'[Len(allowed) + 1] = [stamp |-> at, at |-> moment]
    BY <2>1, <2>2, AppendProperties
  <2>4. ~(allowed'[Len(allowed) + 1].at < r.at)
    BY <1>1, <2>2, <2>3
  <2> QED  BY <2>3, <2>4 DEF WaitIsEnough
<1> QED  BY <1>2, <1>3
LEMMA LimiterInvInductive ==
    /\ LimiterInit => LimiterInv
    /\ LimiterInv /\ [LimiterSystem]_limiterVars => LimiterInv'
<1>1. LimiterInit => LimiterInv
  BY LimiterAssumption, WindowIsPositive DEF LimiterInit, LimiterInv, DequeInv, RequestInv
<1>2. ASSUME LimiterInv, [LimiterSystem]_limiterVars PROVE LimiterInv'
  <2>1. ASSUME NEW t \in Threads, NEW new, request' = [request EXCEPT ![t] = new],
               DequeInv', moment' = moment,
               \/ UNCHANGED <<events, allowed>>
               \/ \E at : allowed' = Append(allowed, [stamp |-> at, at |-> moment]),
               new.phase = "reading" => new = [phase |-> "reading", stamp |-> moment],
               new.phase = "refused" => UNCHANGED <<events, allowed>> /\ new = Refusal
        PROVE  LimiterInv'
    <3>1. DOMAIN request' = Threads /\ request'[t] = new
          /\ \A q \in Threads \ {t} : request'[q] = request[q]
      BY <1>2, <2>1 DEF LimiterInv, RequestInv
    <3>2. ASSUME NEW q \in Threads
          PROVE  /\ request'[q].phase = "reading" =>
                      /\ request'[q] = [phase |-> "reading", stamp |-> request'[q].stamp]
                      /\ request'[q].stamp \in Nat /\ request'[q].stamp =< moment'
                 /\ request'[q].phase = "refused" =>
                      /\ request'[q].at \in Nat /\ request'[q].at =< moment'
                      /\ request'[q].retry_after \in Nat
                      /\ WaitIsEnough(request[q])'
      <4>1. CASE q # t
        BY <1>2, <2>1, <3>1, <4>1, WaitSurvives DEF LimiterInv, RequestInv
      <4>2. CASE q = t /\ new.phase = "reading"
        BY <1>2, <2>1, <3>1, <4>2 DEF LimiterInv, DequeInv
      <4>3. CASE q = t /\ new.phase = "refused"
        <5> DEFINE wait == (Window - (moment - Head(events))) \div TicksPerSecond + 1
        <5>1. /\ moment \in Nat /\ events \in Seq(Int)
              /\ TicksPerSecond \in Nat /\ TicksPerSecond > 0 /\ Window \in Nat
          BY <1>2, LimiterAssumption, WindowIsPositive DEF LimiterInv, DequeInv
        <5>2. /\ new.at = moment
              /\ new.retry_after = IF events = <<>> THEN 0 ELSE IF wait < 1 THEN 1 ELSE wait
          BY <2>1, <4>3 DEF Refusal, RetryAfterSeconds
        <5>3. events # <<>> => wait \in Int /\ events[1] \in Int
                               /\ events[1] + Window < moment + wait * TicksPerSecond
          <6>1. SUFFICES ASSUME events # <<>>
                PROVE  wait \in Int /\ events[1] \in Int
                       /\ events[1] + Window < moment + wait * TicksPerSecond
            OBVIOUS
          <6>2. Head(events) = events[1] /\ events[1] \in Int
            BY <5>1, <6>1, HeadTailProperties
          <6> DEFINE left == Window - (moment - events[1])
          <6>3. left \in Int
            BY <5>1, <6>2
          <6> HIDE DEF left
          <6>4. /\ left \div TicksPerSecond \in Int
                /\ left < (left \div TicksPerSecond + 1) * TicksPerSecond
            BY <5>1, <6>3
          <6>5. wait = left \div TicksPerSecond + 1
            BY <6>2 DEF left
          <6> HIDE DEF wait
          <6>6. wait * TicksPerSecond \in Int /\ left < wait * TicksPerSecond
            BY <5>1, <6>4, <6>5
          <6> DEFINE told == wait * TicksPerSecond
          <6>7. wait \in Int /\ told \in Int /\ left < told
            BY <6>4, <6>5, <6>6
          <6> HIDE DEF told
          <6>8. events[1] + Window < moment + told
            BY <5>1, <6>2, <6>7 DEF left
          <6> QED  BY <6>2, <6>7, <6>8 DEF told
        <5> HIDE DEF wait
        <5>4. new.retry_after \in Nat
          BY <5>2, <5>3
        <5>5. events # <<>> => events[1] + Window < new.at + new.retry_after * TicksPerSecond
          <6>1. CASE wait < 1
            <7>1. events # <<>> => wait * TicksPerSecond =< 0
              BY <5>1, <5>3, <6>1
            <7> QED  BY <5>1, <5>2, <5>3, <6>1, <7>1
          <6>2. CASE ~(wait < 1)
            BY <5>2, <5>3, <6>2
          <6> QED  BY <6>1, <6>2
        <5> QED  BY <2>1, <3>1, <4>3, <5>1, <5>2, <5>4, <5>5 DEF WaitIsEnough
      <4>4. CASE q = t /\ new.phase \notin {"reading", "refused"}
        BY <3>1, <4>4
      <4> QED  BY <4>1, <4>2, <4>3, <4>4
    <3> QED  BY <2>1, <3>1, <3>2 DEF LimiterInv, RequestInv
  <2>2. ASSUME NEW t \in Threads, ReadClock(t) PROVE LimiterInv'
    <3>1. request' = [request EXCEPT ![t] = [phase |-> "reading", stamp |-> moment]]
          /\ UNCHANGED <<moment, events, allowed>>
      BY <2>2 DEF ReadClock
    <3>2. DequeInv'
      BY <1>2, <3>1 DEF LimiterInv, DequeInv
    <3> QED  BY <2>1, <3>1, <3>2
  <2>3. ASSUME NEW t \in Threads, Decide(t) PROVE LimiterInv'
    <3> DEFINE at == request[t].stamp
               phase == IF allowed' # allowed THEN "allowed" ELSE "limited"
               new == [phase |-> phase, stamp |-> at]
    <3>1. /\ request[t] = [phase |-> "reading", stamp |-> at]
          /\ at \in Nat /\ at =< moment
      BY <1>2, <2>3 DEF Decide, LimiterInv, RequestInv
    <3>2. Allow(at) /\ UNCHANGED moment /\ request' = [request EXCEPT ![t].phase = phase]
      BY <2>3 DEF Decide
    <3>3. /\ DequeInv'
          /\ \/ UNCHANGED <<events, allowed>>
             \/ allowed' = Append(allowed, [stamp |-> at, at |-> moment])
      BY <1>2, <3>1, <3>2, AllowKeepsTheDeque DEF LimiterInv
    <3>4. phase \in {"allowed", "limited"}
      OBVIOUS
    <3> HIDE DEF phase
    <3>5. request' = [request EXCEPT ![t] = new]
      <4>1. [request[t] EXCEPT !.phase = phase] = new
        BY <3>1
      <4>2. request' = [request EXCEPT ![t] = [request[t] EXCEPT !.phase = phase]]
        BY <3>2
      <4> QED  BY <4>1, <4>2
    <3>6. new.phase \in {"allowed", "limited"}
      BY <3>4
    <3> HIDE DEF new, at
    <3> QED  BY <2>1, <3>2, <3>3, <3>5, <3>6
  <2>4. ASSUME NEW t \in Threads, Refuse429(t) PROVE LimiterInv'
    <3>1. request' = [request EXCEPT ![t] = Refusal] /\ UNCHANGED <<moment, events, allowed>>
      BY <2>4 DEF Refuse429
    <3>2. DequeInv'
      BY <1>2, <3>1 DEF LimiterInv, DequeInv
    <3>3. Refusal.phase = "refused"
      BY DEF Refusal
    <3> QED  BY <2>1, <3>1, <3>2, <3>3
  <2>5. ASSUME NEW t \in Threads, NEW credentials, SignIn(t, credentials) PROVE LimiterInv'
    <3> DEFINE new == IF IsLimited(events, moment) THEN Refusal
                      ELSE [phase |-> IF credentials = "right" THEN "allowed" ELSE "denied"]
    <3>1. UNCHANGED moment /\ request' = [request EXCEPT ![t] = new]
      BY <2>5 DEF SignIn
    <3>2. /\ DequeInv'
          /\ \/ UNCHANGED <<events, allowed>>
             \/ \E at : allowed' = Append(allowed, [stamp |-> at, at |-> moment])
      <4>1. CASE credentials = "wrong" /\ ~IsLimited(events, moment)
        <5>1. Allow(moment) /\ moment \in Nat /\ moment =< moment
          BY <1>2, <2>5, <4>1 DEF SignIn, LimiterInv, DequeInv
        <5> QED  BY <1>2, <3>1, <5>1, AllowKeepsTheDeque DEF LimiterInv
      <4>2. CASE ~(credentials = "wrong" /\ ~IsLimited(events, moment))
        BY <1>2, <2>5, <3>1, <4>2 DEF SignIn, LimiterInv, DequeInv
      <4> QED  BY <4>1, <4>2
    <3>3. CASE IsLimited(events, moment)
      <4>1. UNCHANGED <<events, allowed>> /\ new = Refusal
        BY <2>5, <3>3 DEF SignIn
      <4>2. Refusal.phase = "refused"
        BY DEF Refusal
      <4> HIDE DEF new
      <4> QED  BY <2>1, <3>1, <3>2, <4>1, <4>2
    <3>4. CASE ~IsLimited(events, moment)
      <4>1. new.phase \in {"allowed", "denied"}
        BY <3>4
      <4> HIDE DEF new
      <4> QED  BY <2>1, <3>1, <3>2, <4>1
    <3> QED  BY <3>3, <3>4
  <2>6. CASE Pass
    <3>1. moment \in Nat /\ moment' = moment + 1 /\ UNCHANGED <<events, request, allowed>>
      BY <1>2, <2>6 DEF Pass, LimiterInv, DequeInv
    <3>2. DequeInv'
      <4>1. \A i \in 1..(Len(allowed) - Len(events)) : allowed[i].stamp \in Nat
        BY <1>2, EventTypes DEF LimiterInv
      <4> QED  BY <1>2, <3>1, <4>1, WindowIsPositive DEF LimiterInv, DequeInv
    <3>3. RequestInv'
      BY <1>2, <3>1 DEF LimiterInv, RequestInv, WaitIsEnough
    <3> QED  BY <3>2, <3>3 DEF LimiterInv
  <2>7. CASE UNCHANGED limiterVars
    BY <1>2, <2>7 DEF limiterVars, LimiterInv, DequeInv, RequestInv, WaitIsEnough
  <2> QED
    BY <1>2, <2>2, <2>3, <2>4, <2>5, <2>6, <2>7 DEF LimiterSystem, LimiterNext, GateNext
<1> QED  BY <1>1, <1>2

---------------------------------------------------------------------------
(* The property *)

\* No more than the limit was stamped within the last window.
LEMMA WindowIsKept ==
    ASSUME DequeInv
    PROVE  Cardinality({i \in DOMAIN allowed : allowed[i].stamp > moment - Window}) =< Limit
<1> DEFINE n == Len(events)
           L == Len(allowed)
           recent == {i \in DOMAIN allowed : allowed[i].stamp > moment - Window}
<1>1. n \in Nat /\ L \in Nat /\ n =< L /\ n =< Limit /\ DOMAIN allowed = 1..L
  BY EventTypes DEF DequeInv
<1>2. ASSUME NEW i \in recent PROVE i \in (L - n + 1)..L
  <2>1. i \in 1..L /\ allowed[i].stamp > moment - Window
    BY <1>1
  <2>2. allowed[i].stamp \in Nat /\ moment - Window \in Int
    BY <2>1, EventTypes, WindowIsPositive DEF DequeInv
  <2>3. i \notin 1..(L - n)
    BY <2>1, <2>2 DEF DequeInv
  <2> HIDE DEF n, L
  <2> QED  BY <1>1, <2>1, <2>3
<1> HIDE DEF recent, n, L
<1>3. L - n \in Nat /\ L - n =< L /\ recent \subseteq (L - n + 1)..L
  BY <1>1, <1>2
<1>4. Cardinality(recent) \in Nat /\ Cardinality(recent) =< L - (L - n)
  BY <1>1, <1>3, IndicesAfter
<1>5. Limit \in Nat
  BY LimiterAssumption
<1> QED  BY <1>1, <1>4, <1>5 DEF recent

\* A limiter whose oldest event has left the window has room.
LEMMA RoomAfterWait ==
    ASSUME DequeInv, NEW then \in Int, events = <<>> \/ events[1] + Window < then
    PROVE  HasRoom(NotExpired(events, then - Window)) /\ ~IsLimited(events, then)
<1> DEFINE cutoff == then - Window
           n == Len(events)
<1>1. n \in Nat /\ n =< Limit /\ events \in Seq(Int) /\ cutoff \in Int
      /\ Limit \in Nat /\ Limit > 0 /\ Window \in Nat
  BY LimiterAssumption, WindowIsPositive DEF DequeInv
<1> DEFINE live == {i \in DOMAIN events : events[i] > cutoff}
<1>2. CASE n = 0
  <2>1. live = {}
    BY <1>1, <1>2
  <2>2. Cardinality(live) = 0
    BY <2>1, FS_EmptySet
  <2> DEFINE gone == Cardinality(Expired(events, cutoff))
  <2>3. Len(NotExpired(events, cutoff)) = n - gone /\ gone \in 0..n
    BY <1>1, KeptAreLast
  <2> HIDE DEF gone, n
  <2>4. Len(NotExpired(events, cutoff)) = 0
    BY <1>2, <2>3
  <2> QED  BY <1>1, <2>2, <2>4 DEF HasRoom, IsLimited
<1>3. CASE n # 0
  <2>1. events[1] \in Int /\ 1 \in 1..n /\ events # <<>>
    BY <1>1, <1>3
  <2>2. events[1] < cutoff
    BY <1>1, <2>1
  <2>3. 1 \in Expired(events, cutoff)
    BY <1>1, <2>1, <2>2 DEF Expired
  <2> DEFINE gone == Cardinality(Expired(events, cutoff))
  <2>4. gone \in 0..n /\ Expired(events, cutoff) = 1..gone
    BY <1>1, ExpiredAreFirst
  <2>5. Len(NotExpired(events, cutoff)) = n - gone
    BY <1>1, KeptAreLast
  <2> HIDE DEF gone
  <2>6. gone >= 1
    BY <2>3, <2>4
  <2>7. HasRoom(NotExpired(events, cutoff))
    BY <1>1, <2>4, <2>5, <2>6 DEF HasRoom
  <2>8. live \subseteq (1 + 1)..n
    <3>1. ASSUME NEW i \in live PROVE i \in (1 + 1)..n
      <4>1. i \in 1..n /\ events[i] > cutoff
        BY <1>1
      <4>2. i # 1
        BY <1>1, <2>1, <2>2, <4>1
      <4> HIDE DEF n
      <4> QED  BY <1>1, <4>1, <4>2
    <3> HIDE DEF live
    <3> QED  BY <3>1
  <2> HIDE DEF live, n
  <2>9. Cardinality(live) \in Nat /\ Cardinality(live) =< n - 1
    <3>1. 1 \in Nat /\ 1 =< n
      BY <1>1, <1>3
    <3> QED  BY <1>1, <2>8, <3>1, IndicesAfter
  <2>10. ~(Cardinality(live) >= Limit)
    BY <1>1, <2>9
  <2> QED  BY <2>7, <2>10 DEF IsLimited, live
<1> QED  BY <1>2, <1>3

\* LimitIsKept, for any number of threads, any limit and any window.
THEOREM LimitIsKeptAlways == Spec => []LimitIsKept
<1>1. LimiterInv => LimitIsKept
  <2> SUFFICES ASSUME LimiterInv PROVE LimitIsKept
    OBVIOUS
  <2>1. Cardinality({i \in DOMAIN allowed : allowed[i].stamp > moment - Window}) =< Limit
    BY WindowIsKept DEF LimiterInv
  <2>2. ASSUME NEW t \in Threads, request[t].phase = "refused",
               \A i \in DOMAIN allowed : allowed[i].at < request[t].at
        PROVE  LET then == request[t].at + request[t].retry_after * TicksPerSecond
               IN  HasRoom(NotExpired(events, then - Window)) /\ ~IsLimited(events, then)
    <3> DEFINE then == request[t].at + request[t].retry_after * TicksPerSecond
    <3>1. /\ request[t].at \in Nat /\ request[t].retry_after \in Nat
          /\ events = <<>> \/ events[1] + Window < then
      BY <2>2 DEF LimiterInv, RequestInv, WaitIsEnough
    <3>2. then \in Int
      BY <3>1, LimiterAssumption
    <3> HIDE DEF then
    <3>3. HasRoom(NotExpired(events, then - Window)) /\ ~IsLimited(events, then)
      BY <3>1, <3>2, RoomAfterWait DEF LimiterInv
    <3> QED  BY <3>3 DEF then
  <2> QED  BY <2>1, <2>2 DEF LimitIsKept
<1> QED
  BY LimiterSteps, LimiterInvInductive, <1>1, PTL
---------------------------------------------------------------------------
(* The call of a provider *)

LEMMA CallSteps == Spec => CallInit /\ [][CallNext]_call
<1>1. Init => CallInit  BY DEF Init
<1>2. [Next]_vars => [CallNext]_call
  BY DEF Next, vars
<1> QED  BY <1>1, <1>2, PTL DEF Spec

Met == Failures \cup Responses \cup {"too-large"}

Retryable(client) == Failures \cup (IF client = "bounded" THEN {"500"} ELSE {})

CallRecord ==
    /\ call = [client |-> call.client, phase |-> call.phase, met |-> call.met,
               received |-> call.received, delivered |-> call.delivered, open |-> call.open,
               outcome |-> call.outcome]
    /\ call.client \in Clients
    /\ call.phase \in {"ready", "asked", "body", "ended"}
    /\ call.met \in Seq(Met)
    /\ call.delivered \in Seq(Nat)
    /\ call.received \in Nat

\* Only the last attempt may have delivered anything or met something final.
CallProgress ==
    LET n == Len(call.delivered)
    IN  /\ Len(call.met) = IF call.phase = "asked" THEN n - 1 ELSE n
        /\ n =< Attempts(call.client)
        /\ call.phase = "ready" => n < Attempts(call.client)
        /\ call.phase # "ready" => n >= 1
        /\ \A i \in 1..n : i < n \/ call.phase = "ready" => call.met[i] \in Retryable(call.client)
        /\ \A i \in 1..n : i < n \/ call.phase \in {"ready", "asked"} => call.delivered[i] = 0
        /\ \A i \in 1..n : call.client # "fred" => call.delivered[i] =< MaxBytes
        /\ call.phase \in {"asked", "body"} => call.delivered[n] = call.received
        /\ call.phase = "body" => call.client = "bounded" /\ call.met[n] = "200"
        /\ call.open <=> call.phase \in {"asked", "body"}
        /\ call.outcome = "OK" => call.phase = "ended" /\ call.met[n] = "200"

CallInv == CallRecord /\ CallProgress

LEMMA AttemptsArePositive ==
    ASSUME NEW client \in Clients PROVE Attempts(client) \in Nat /\ Attempts(client) >= 1
BY CallAssumption DEF Attempts

\* An error is never taken for success.
LEMMA ErrorsAreErrors ==
    /\ \A client, kind : kind \in Failures => FailureError(client, kind) # "OK"
    /\ \A client, response : response \in Responses => ResponseError(client, response) # "OK"
<1>1. \A client, kind : kind \in Failures => FailureError(client, kind) # "OK"
  BY DEF FailureError, Failures
<1>2. ASSUME NEW client, NEW response \in Responses PROVE ResponseError(client, response) # "OK"
  BY CallAssumption DEF ResponseError, Responses
<1> QED  BY <1>1, <1>2

\* What one attempt meets when no body follows.
LEMMA AgainOrKeeps ==
    ASSUME CallInv, call.phase = "asked", NEW error, NEW again \in BOOLEAN, NEW met \in Met,
           AgainOr(error, again, met), error # "OK",
           again => met \in Retryable(call.client) /\ Attempt < Attempts(call.client)
    PROVE  CallInv'
<1> DEFINE n == Len(call.delivered)
<1>1. /\ n \in Nat /\ Len(call.met) \in Nat /\ Len(call.met) = n - 1 /\ n >= 1
      /\ call.met \in Seq(Met)
  BY DEF CallInv, CallRecord, CallProgress
<1>2. call' = [client |-> call.client, phase |-> IF again THEN "ready" ELSE "ended",
               met |-> Append(call.met, met), received |-> call.received,
               delivered |-> call.delivered, open |-> FALSE,
               outcome |-> IF again THEN Null ELSE error]
  BY DEF AgainOr, CallInv, CallRecord
<1>3. /\ Append(call.met, met) \in Seq(Met) /\ Len(Append(call.met, met)) = n
      /\ \A i \in 1..(n - 1) : Append(call.met, met)[i] = call.met[i]
      /\ Append(call.met, met)[n] = met
  BY <1>1, AppendProperties
<1>4. CallRecord'
  BY <1>2, <1>3 DEF CallInv, CallRecord
<1>5. \A i \in 1..n : i < n \/ call'.phase = "ready" => call'.met[i] \in Retryable(call'.client)
  <2> SUFFICES ASSUME NEW i \in 1..n, i < n \/ again PROVE call'.met[i] \in Retryable(call.client)
    BY <1>2
  <2>1. CASE i < n
    BY <1>1, <1>2, <1>3, <2>1 DEF CallInv, CallProgress
  <2>2. CASE ~(i < n)
    BY <1>1, <1>2, <1>3, <2>2
  <2> QED  BY <2>1, <2>2
<1>6. CallProgress'
  BY <1>1, <1>2, <1>3, <1>5, CallAssumption DEF CallInv, CallProgress, Attempt
<1> QED  BY <1>4, <1>6 DEF CallInv

LEMMA CallInvInductive ==
    /\ CallInit => CallInv
    /\ CallInv /\ [CallNext]_call => CallInv'
<1>1. CallInit => CallInv
  <2> SUFFICES ASSUME CallInit PROVE CallInv
    OBVIOUS
  <2>1. PICK client \in Clients :
          call = [client |-> client, phase |-> "ready", met |-> <<>>, received |-> 0,
                  delivered |-> <<>>, open |-> FALSE, outcome |-> Null]
    BY DEF CallInit
  <2> QED  BY <2>1, AttemptsArePositive, CallAssumption DEF CallInv, CallRecord, CallProgress
<1>2. ASSUME CallInv, [CallNext]_call PROVE CallInv'
  <2> DEFINE n == Len(call.delivered)
  <2>1. /\ n \in Nat /\ call.met \in Seq(Met) /\ Len(call.met) \in Nat
        /\ call.delivered \in Seq(Nat) /\ call.received \in Nat
        /\ call.client \in Clients /\ MaxBytes \in Nat
        /\ Attempts(call.client) \in Nat
    BY <1>2, AttemptsArePositive, CallAssumption DEF CallInv, CallRecord
  <2>2. Failures \subseteq Met /\ Responses \subseteq Met /\ {"200", "too-large"} \subseteq Met
    BY DEF Met, Responses
  <2>3. CASE Send
    <3>1. n < Attempts(call.client) /\ Len(call.met) = n
      BY <1>2, <2>3 DEF Send, CallInv, CallProgress
    <3>2. call' = [client |-> call.client, phase |-> "asked", met |-> call.met, received |-> 0,
                   delivered |-> Append(call.delivered, 0), open |-> TRUE, outcome |-> call.outcome]
      BY <1>2, <2>3 DEF Send, CallInv, CallRecord
    <3>3. /\ Append(call.delivered, 0) \in Seq(Nat) /\ Len(Append(call.delivered, 0)) = n + 1
          /\ \A i \in 1..n : Append(call.delivered, 0)[i] = call.delivered[i]
          /\ Append(call.delivered, 0)[n + 1] = 0
      BY <2>1, AppendProperties
    <3>4. \A i \in 1..n : call.delivered[i] = 0 /\ call.met[i] \in Retryable(call.client)
      BY <1>2, <2>3 DEF Send, CallInv, CallProgress
    <3>5. call.outcome # "OK"
      BY <1>2, <2>3 DEF Send, CallInv, CallProgress
    <3>6. CallRecord'
      BY <1>2, <3>2, <3>3 DEF CallInv, CallRecord
    <3>7. \A i \in 1..(n + 1) : call'.delivered[i] = 0
      BY <2>1, <3>2, <3>3, <3>4
    <3>8. \A i \in 1..(n + 1) : i < n + 1 => call'.met[i] \in Retryable(call.client)
      BY <2>1, <3>2, <3>4
    <3>9. CallProgress'
      BY <2>1, <3>1, <3>2, <3>3, <3>5, <3>7, <3>8 DEF CallProgress
    <3> QED  BY <3>6, <3>9 DEF CallInv
  <2>4. ASSUME NEW kind \in Failures, Fail(kind) PROVE CallInv'
    <3>1. kind \in Met /\ kind \in Retryable(call.client)
      BY <2>2 DEF Retryable
    <3>2. FailureError(call.client, kind) # "OK"
      BY ErrorsAreErrors
    <3> DEFINE again == Attempt < Attempts(call.client)
    <3>3. AgainOr(FailureError(call.client, kind), again, kind) /\ call.phase = "asked"
      BY <2>4 DEF Fail
    <3>4. again \in BOOLEAN
      OBVIOUS
    <3> QED  BY <1>2, <3>1, <3>2, <3>3, <3>4, AgainOrKeeps
  <2>5. ASSUME NEW response \in Responses, Refuse(response) PROVE CallInv'
    <3> DEFINE again == RetriesResponse(call.client, response) /\ Attempt < Attempts(call.client)
    <3>1. AgainOr(ResponseError(call.client, response), again, response) /\ call.phase = "asked"
      BY <2>5 DEF Refuse
    <3>2. again => response \in Retryable(call.client) /\ Attempt < Attempts(call.client)
      BY DEF RetriesResponse, Retryable
    <3>3. again \in BOOLEAN /\ response \in Met
      BY <2>2 DEF RetriesResponse
    <3>4. ResponseError(call.client, response) # "OK"
      BY ErrorsAreErrors
    <3> HIDE DEF again
    <3> QED  BY <1>2, <3>1, <3>2, <3>3, <3>4, AgainOrKeeps
  <2>6. ASSUME NEW declared, AcceptStream(declared) PROVE CallInv'
    <3>1. CASE declared # Null /\ declared > MaxBytes
      <4>1. AgainOr("ResponseError", FALSE, "too-large") /\ call.phase = "asked"
        BY <2>6, <3>1 DEF AcceptStream
      <4>2. "too-large" \in Met /\ "ResponseError" # "OK" /\ FALSE \in BOOLEAN
        BY <2>2
      <4> QED  BY <1>2, <4>1, <4>2, AgainOrKeeps
    <3>2. CASE ~(declared # Null /\ declared > MaxBytes)
      <4>1. call.phase = "asked" /\ call.client = "bounded" /\ Len(call.met) = n - 1 /\ n >= 1
            /\ call.outcome # "OK" /\ call.received = call.delivered[n]
        BY <1>2, <2>1, <2>6, <3>2 DEF AcceptStream, CallInv, CallProgress
      <4>2. call' = [client |-> call.client, phase |-> "body", met |-> Append(call.met, "200"),
                     received |-> call.received, delivered |-> call.delivered, open |-> call.open,
                     outcome |-> call.outcome]
        BY <1>2, <2>6, <3>2 DEF AcceptStream, CallInv, CallRecord
      <4>3. /\ Append(call.met, "200") \in Seq(Met) /\ Len(Append(call.met, "200")) = n
            /\ \A i \in 1..(n - 1) : Append(call.met, "200")[i] = call.met[i]
            /\ Append(call.met, "200")[n] = "200"
        BY <2>1, <2>2, <4>1, AppendProperties
      <4>4. CallRecord'
        BY <1>2, <4>2, <4>3 DEF CallInv, CallRecord
      <4>5. CallProgress'
        BY <1>2, <2>1, <4>1, <4>2, <4>3 DEF CallInv, CallProgress
      <4> QED  BY <4>4, <4>5 DEF CallInv
    <3> QED  BY <3>1, <3>2
  <2>7. ASSUME call.phase = "body", NEW outcome,
               call' = [call EXCEPT !.phase = "ended", !.open = FALSE, !.outcome = outcome]
        PROVE  CallInv'
    <3>1. call' = [client |-> call.client, phase |-> "ended", met |-> call.met,
                   received |-> call.received, delivered |-> call.delivered, open |-> FALSE,
                   outcome |-> outcome]
      BY <1>2, <2>7 DEF CallInv, CallRecord
    <3>2. CallRecord'
      BY <1>2, <3>1 DEF CallInv, CallRecord
    <3>3. CallProgress'
      BY <1>2, <2>1, <2>7, <3>1 DEF CallInv, CallProgress
    <3> QED  BY <3>2, <3>3 DEF CallInv
  <2>8. ASSUME NEW size \in ChunkSizes, Chunk(size) PROVE CallInv'
    <3>1. CASE call.received + size > MaxBytes
      BY <2>7, <2>8, <3>1 DEF Chunk
    <3>2. CASE ~(call.received + size > MaxBytes)
      <4>1. call.phase = "body" /\ n >= 1 /\ Len(call.met) = n /\ call.delivered[n] = call.received
            /\ call.met[n] = "200"
        BY <1>2, <2>8 DEF Chunk, CallInv, CallProgress
      <4> DEFINE total == call.received + size
      <4>2. size \in Nat /\ total \in Nat /\ total =< MaxBytes
        BY <2>1, <3>2, CallAssumption
      <4>3. call' = [client |-> call.client, phase |-> "body", met |-> call.met,
                     received |-> total, delivered |-> [call.delivered EXCEPT ![n] = total],
                     open |-> call.open, outcome |-> call.outcome]
        BY <1>2, <2>8, <3>2, <4>1 DEF Chunk, Attempt, CallInv, CallRecord
      <4> HIDE DEF total
      <4>4. /\ [call.delivered EXCEPT ![n] = total] \in Seq(Nat)
            /\ Len([call.delivered EXCEPT ![n] = total]) = n
            /\ \A i \in 1..n : [call.delivered EXCEPT ![n] = total][i] =
                                 IF i = n THEN total ELSE call.delivered[i]
        BY <2>1, <4>1, <4>2, ExceptSeq
      <4>5. CallRecord'
        BY <1>2, <4>2, <4>3, <4>4 DEF CallInv, CallRecord
      <4>6. CallProgress'
        BY <1>2, <2>1, <4>1, <4>2, <4>3, <4>4 DEF CallInv, CallProgress
      <4> QED  BY <4>5, <4>6 DEF CallInv
    <3> QED  BY <3>1, <3>2
  <2>9. ASSUME NEW kind \in Failures, BodyFails(kind) PROVE CallInv'
    BY <2>7, <2>9 DEF BodyFails
  <2>10. ASSUME NEW outcome, EndOfBody(outcome) PROVE CallInv'
    BY <2>7, <2>10 DEF EndOfBody
  <2>11. ASSUME NEW size \in {MaxBytes, MaxBytes + 1}, NEW readable \in BOOLEAN,
                AcceptWhole(size, readable)
         PROVE  CallInv'
    <3> DEFINE good == readable /\ (call.client = "fred" \/ size =< MaxBytes)
               piece == IF good THEN size ELSE 0
    <3>1. call.phase = "asked" /\ Len(call.met) = n - 1 /\ n >= 1
      BY <1>2, <2>11 DEF AcceptWhole, CallInv, CallProgress
    <3>2. piece \in Nat /\ (call.client # "fred" => piece =< MaxBytes)
      BY <2>1, <2>11
    <3>3. call' = [client |-> call.client, phase |-> "ended", met |-> Append(call.met, "200"),
                   received |-> call.received, delivered |-> [call.delivered EXCEPT ![n] = piece],
                   open |-> FALSE, outcome |-> IF good THEN "OK" ELSE "UpstreamError"]
      BY <1>2, <2>11 DEF AcceptWhole, Attempt, CallInv, CallRecord
    <3> HIDE DEF good, piece
    <3>4. /\ [call.delivered EXCEPT ![n] = piece] \in Seq(Nat)
          /\ Len([call.delivered EXCEPT ![n] = piece]) = n
          /\ \A i \in 1..n : [call.delivered EXCEPT ![n] = piece][i] =
                               IF i = n THEN piece ELSE call.delivered[i]
      BY <2>1, <3>1, <3>2, ExceptSeq
    <3>5. /\ Append(call.met, "200") \in Seq(Met) /\ Len(Append(call.met, "200")) = n
          /\ \A i \in 1..(n - 1) : Append(call.met, "200")[i] = call.met[i]
          /\ Append(call.met, "200")[n] = "200"
      BY <2>1, <2>2, <3>1, AppendProperties
    <3>6. CallRecord'
      BY <1>2, <3>3, <3>4, <3>5 DEF CallInv, CallRecord
    <3>7. CallProgress'
      BY <1>2, <2>1, <3>1, <3>2, <3>3, <3>4, <3>5 DEF CallInv, CallProgress
    <3> QED  BY <3>6, <3>7 DEF CallInv
  <2>12. CASE UNCHANGED call
    BY <1>2, <2>12 DEF CallInv, CallRecord, CallProgress
  <2> QED
    BY <1>2, <2>3, <2>4, <2>5, <2>6, <2>8, <2>9, <2>10, <2>11, <2>12 DEF CallNext
<1> QED  BY <1>1, <1>2

\* OneBodyAtMost, for any number of attempts, any bound and any pieces.
THEOREM OneBodyOnly == Spec => []OneBodyAtMost
<1>1. CallInv => OneBodyAtMost
  <2> SUFFICES ASSUME CallInv PROVE OneBodyAtMost
    OBVIOUS
  <2> DEFINE n == Len(call.delivered)
             begun == {i \in DOMAIN call.delivered : call.delivered[i] > 0}
  <2>1. DOMAIN call.delivered = 1..n /\ n \in Nat
    BY DEF CallInv, CallRecord
  <2>2. begun \subseteq {n}
    BY <2>1 DEF CallInv, CallProgress
  <2>3. Cardinality(begun) =< 1
    <3>1. Cardinality({n}) = 1 /\ IsFiniteSet({n})
      BY FS_Singleton
    <3> HIDE DEF n, begun
    <3> QED  BY <2>2, <3>1, FS_Subset
  <2>4. \A i \in DOMAIN call.met : i < n => call.met[i] \in Retryable(call.client)
    <3>1. DOMAIN call.met = 1..Len(call.met)
      BY DEF CallInv, CallRecord
    <3> QED  BY <2>1, <3>1 DEF CallInv, CallProgress
  <2>5. call.outcome = "OK" => call.met[Len(call.met)] = "200"
    BY DEF CallInv, CallProgress
  <2>6. call.client # "fred" => \A i \in begun : call.delivered[i] =< MaxBytes
    BY <2>1 DEF CallInv, CallProgress
  <2>7. n =< Attempts(call.client) /\ (call.open <=> call.phase \in {"asked", "body"})
    BY DEF CallInv, CallProgress
  <2> QED
    BY <2>2, <2>3, <2>4, <2>5, <2>6, <2>7 DEF OneBodyAtMost, Retryable
<1> QED
  BY CallSteps, CallInvInductive, <1>1, PTL
=============================================================================
