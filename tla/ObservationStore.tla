-------------------------- MODULE ObservationStore --------------------------
(***************************************************************************)
(* The one algorithm that writes a canonical observation                   *)
(* (app/repositories/observation_versions.py) as the sessions of several   *)
(* processes run it against PostgreSQL at READ COMMITTED.                   *)
(*                                                                         *)
(* A writer is one session_scope(): an API series sync, a first-party,     *)
(* rates or housing import, or one release-processing occurrence.  Each    *)
(* SELECT, each flush and the COMMIT is a step of its own, so the steps of *)
(* two sessions interleave.  A SELECT sees what is committed when it runs. *)
(* A flush waits for a row that another open transaction has written, then *)
(* meets the table's unique indexes; COMMIT publishes everything at once.  *)
(***************************************************************************)
EXTENDS Naturals, FiniteSets

CONSTANTS
    Obs,          \* observations: a (series, observation date) each
    Values,       \* what a row may hold; the missing value None is one of them
    Writers,      \* sessions that write observations
    Processors,   \* the writers that are release processing
    Null,         \* SQL NULL: no row, an open interval, no version to close
    MaxTime       \* bound: the last instant the clock reaches

ASSUME BoundAssumption == MaxTime \in Nat
ASSUME ProcessorsAssumption == Processors \subseteq Writers

VARIABLES
    clock,         \* the hosts' UTC clock
    observations,  \* committed economic_observations: value, or Null for no row
    versions,      \* committed observation_versions
    pc,            \* where each writer is
    todo,          \* the values each writer has still to apply
    item,          \* the value being applied
    existing,      \* what the row SELECT returned for it
    openVersion,   \* what the open-version SELECT returned: a recorded_from
    pending        \* flushed and not yet committed

store == <<observations, versions>>
locals == <<todo, item, existing, openVersion, pending>>
vars == <<clock, observations, versions, pc, todo, item, existing,
          openVersion, pending>>

---------------------------------------------------------------------------
(* Types *)

Version ==
    [obs : Obs, value : Values, recorded_from : Nat,
     recorded_to : Nat \cup {Null}, change_type : {"BACKFILL", "NEW", "REVISED"},
     is_backfilled : BOOLEAN]

\* A value a writer is to apply, the instant it will be recorded from, and
\* whether an import takes it for history published before it looked.
Write == [obs : Obs, value : Values, at : Nat, baseline : BOOLEAN]

\* A flushed write: the rows it inserts and the version row it closes.
Flushed ==
    [obs : Obs, value : Values, at : Nat, closes : Nat \cup {Null},
     change_type : {"NEW", "REVISED"}, is_backfilled : BOOLEAN]

ASSUME NullAssumption == Null \notin Nat \cup Values \cup Write

Phases == {"idle", "detecting", "applying", "revising", "flushing"}

TypeOK ==
    /\ clock \in Nat
    /\ observations \in [Obs -> Values \cup {Null}]
    /\ versions \in SUBSET Version
    /\ pc \in [Writers -> Phases]
    /\ todo \in [Writers -> SUBSET Write]
    /\ item \in [Writers -> Write \cup {Null}]
    /\ existing \in [Writers -> Values \cup {Null}]
    /\ openVersion \in [Writers -> Nat \cup {Null}]
    /\ pending \in [Writers -> SUBSET Flushed]
    /\ \A w \in Writers : pc[w] \in {"revising", "flushing"} => item[w] # Null

---------------------------------------------------------------------------
(* Reading the version table *)

OpenVersions(o) == {v \in versions : v.obs = o /\ v.recorded_to = Null}

\* Mutant: the interval is closed at both ends.
AsOfClosedInterval(o, t) ==
    {v \in versions :
        /\ v.obs = o
        /\ v.recorded_from <= t
        /\ v.recorded_to = Null \/ v.recorded_to >= t}

\* get_observations_as_of: recorded_from <= at < recorded_to, half-open.
AsOf(o, t) ==
    {v \in versions :
        /\ v.obs = o
        /\ v.recorded_from <= t
        /\ v.recorded_to = Null \/ v.recorded_to > t}

---------------------------------------------------------------------------
(* Sessions *)

\* The version the migration made of a row that was already there.  A row
\* may have none: the writer tolerates one whose history is absent.
Backfill(o, x) ==
    [obs |-> o, value |-> x, recorded_from |-> 0, recorded_to |-> Null,
     change_type |-> "BACKFILL", is_backfilled |-> TRUE]

Init ==
    /\ clock = 1
    /\ observations \in [Obs -> Values \cup {Null}]
    /\ \E S \in SUBSET {o \in Obs : observations[o] # Null} :
          versions = {Backfill(o, observations[o]) : o \in S}
    /\ pc = [w \in Writers |-> "idle"]
    /\ todo = [w \in Writers |-> {}]
    /\ item = [w \in Writers |-> Null]
    /\ existing = [w \in Writers |-> Null]
    /\ openVersion = [w \in Writers |-> Null]
    /\ pending = [w \in Writers |-> {}]

Tick ==
    /\ clock < MaxTime
    /\ clock' = clock + 1
    /\ UNCHANGED <<observations, versions, pc, locals>>

\* The provider's answer for some observations, stamped with one clock read.
Stamped(answer, imported) ==
    {[obs |-> o, value |-> answer[o], at |-> clock, baseline |-> o \in imported] :
        o \in DOMAIN answer}

\* A writer fetches and reads the clock.  An import, a sync or a rates run
\* reads it once for everything it will write.  An import also decides, from
\* what is stored before it writes, which dates are published history and
\* which it watched arrive.  Release processing imports nothing, and the
\* answer it goes on with is what an earlier read of its own found changed.
Detect(w, answer, imported) ==
    /\ pc[w] = "idle"
    /\ imported # {} => w \notin Processors
    /\ todo' = [todo EXCEPT ![w] = Stamped(answer, imported)]
    /\ pc' = [pc EXCEPT ![w] = IF w \in Processors THEN "detecting" ELSE "applying"]
    /\ UNCHANGED <<clock, store, item, existing, openVersion, pending>>

\* Release processing reads it again for every mapped series.
DetectAnotherSeries(w, answer) ==
    /\ pc[w] = "detecting"
    /\ \A i \in todo[w] : i.obs \notin DOMAIN answer
    /\ todo' = [todo EXCEPT ![w] = @ \cup Stamped(answer, {})]
    /\ UNCHANGED <<clock, store, pc, item, existing, openVersion, pending>>

StartApplying(w) ==
    /\ pc[w] = "detecting"
    /\ pc' = [pc EXCEPT ![w] = "applying"]
    /\ UNCHANGED <<clock, store, locals>>

\* apply(): the row is there with the same value, so nothing is written.
ConfirmUnchanged(w, i) ==
    /\ pc[w] = "applying"
    /\ i \in todo[w]
    /\ observations[i.obs] = i.value
    /\ todo' = [todo EXCEPT ![w] = @ \ {i}]
    /\ UNCHANGED <<clock, store, pc, item, existing, openVersion, pending>>

\* apply(): no row.  The insert needs no second SELECT.
FindNoRow(w, i) ==
    /\ pc[w] = "applying"
    /\ i \in todo[w]
    /\ observations[i.obs] = Null
    /\ item' = [item EXCEPT ![w] = i]
    /\ existing' = [existing EXCEPT ![w] = Null]
    /\ openVersion' = [openVersion EXCEPT ![w] = Null]
    /\ pc' = [pc EXCEPT ![w] = "flushing"]
    /\ UNCHANGED <<clock, store, todo, pending>>

\* apply(): a row with another value.
FindOtherValue(w, i) ==
    /\ pc[w] = "applying"
    /\ i \in todo[w]
    /\ observations[i.obs] \notin {Null, i.value}
    /\ item' = [item EXCEPT ![w] = i]
    /\ existing' = [existing EXCEPT ![w] = observations[i.obs]]
    /\ pc' = [pc EXCEPT ![w] = "revising"]
    /\ UNCHANGED <<clock, store, todo, openVersion, pending>>

\* Mutant: a backdated revision is let through.
ClosableAlways(w, v) == TRUE

\* _close_open_version(): the interval to close must be a forward one.
Closable(w, v) == v.recorded_from < item[w].at

\* _close_open_version(): one SELECT, later than the row's.  A row that
\* never got a version is tolerated.
FindOpenVersion(w) ==
    /\ pc[w] = "revising"
    /\ \A v \in OpenVersions(item[w].obs) : Closable(w, v)
    /\ \/ /\ OpenVersions(item[w].obs) = {}
          /\ openVersion' = [openVersion EXCEPT ![w] = Null]
       \/ \E v \in OpenVersions(item[w].obs) :
             openVersion' = [openVersion EXCEPT ![w] = v.recorded_from]
    /\ pc' = [pc EXCEPT ![w] = "flushing"]
    /\ UNCHANGED <<clock, store, todo, item, existing, pending>>

\* An aborted transaction leaves nothing behind.
Abandon(w) ==
    /\ pc' = [pc EXCEPT ![w] = "idle"]
    /\ todo' = [todo EXCEPT ![w] = {}]
    /\ item' = [item EXCEPT ![w] = Null]
    /\ existing' = [existing EXCEPT ![w] = Null]
    /\ openVersion' = [openVersion EXCEPT ![w] = Null]
    /\ pending' = [pending EXCEPT ![w] = {}]
    /\ UNCHANGED <<clock, store>>

\* _close_open_version() raises ValueError: another session has recorded a
\* version at or after the instant this one read off the clock.
RefuseBackdated(w) ==
    /\ pc[w] = "revising"
    /\ \E v \in OpenVersions(item[w].obs) : ~Closable(w, v)
    /\ Abandon(w)

\* A flush waits while another open transaction has written the same row.
RowFree(w) == \A u \in Writers \ {w} : \A p \in pending[u] : p.obs # item[w].obs

\* The unique index on (series, date) of economic_observations.
RowIndexAdmits(w) == existing[w] = Null => observations[item[w].obs] = Null

\* Mutant: the partial unique index on open versions is not there.
VersionIndexAdmitsSecondOpen(w) ==
    \A v \in versions : v.obs = item[w].obs => v.recorded_from # item[w].at

\* The two unique indexes of observation_versions: one open version per
\* observation, and no two versions from one instant.
VersionIndexAdmits(w) ==
    /\ \A v \in OpenVersions(item[w].obs) : v.recorded_from = openVersion[w]
    /\ \A v \in versions : v.obs = item[w].obs => v.recorded_from # item[w].at

\* Mutant: every version a baseline import writes is marked imported.
FlushBaselineRevision(w) ==
    /\ pc[w] = "flushing"
    /\ RowFree(w)
    /\ RowIndexAdmits(w)
    /\ VersionIndexAdmits(w)
    /\ pending' = [pending EXCEPT ![w] = @ \cup
         {[obs |-> item[w].obs, value |-> item[w].value, at |-> item[w].at,
           closes |-> openVersion[w],
           change_type |-> IF existing[w] = Null THEN "NEW" ELSE "REVISED",
           is_backfilled |-> item[w].baseline]}]
    /\ todo' = [todo EXCEPT ![w] = @ \ {item[w]}]
    /\ item' = [item EXCEPT ![w] = Null]
    /\ existing' = [existing EXCEPT ![w] = Null]
    /\ openVersion' = [openVersion EXCEPT ![w] = Null]
    /\ pc' = [pc EXCEPT ![w] = "applying"]
    /\ UNCHANGED <<clock, store>>

\* flush(): the row is inserted or updated, the open version closed, and a
\* version opened from the writer's instant; none of it visible yet.
Flush(w) ==
    /\ pc[w] = "flushing"
    /\ RowFree(w)
    /\ RowIndexAdmits(w)
    /\ VersionIndexAdmits(w)
    /\ pending' = [pending EXCEPT ![w] = @ \cup
         {[obs |-> item[w].obs, value |-> item[w].value, at |-> item[w].at,
           closes |-> openVersion[w],
           change_type |-> IF existing[w] = Null THEN "NEW" ELSE "REVISED",
           is_backfilled |-> item[w].baseline /\ existing[w] = Null]}]
    /\ todo' = [todo EXCEPT ![w] = @ \ {item[w]}]
    /\ item' = [item EXCEPT ![w] = Null]
    /\ existing' = [existing EXCEPT ![w] = Null]
    /\ openVersion' = [openVersion EXCEPT ![w] = Null]
    /\ pc' = [pc EXCEPT ![w] = "applying"]
    /\ UNCHANGED <<clock, store>>

\* flush() raises IntegrityError: another session got there first.
FlushConflict(w) ==
    /\ pc[w] = "flushing"
    /\ RowFree(w)
    /\ ~(RowIndexAdmits(w) /\ VersionIndexAdmits(w))
    /\ Abandon(w)

\* Mutant: the closed version also takes the new value.
ClosedInPlace(w, v) ==
    IF \E p \in pending[w] : p.obs = v.obs /\ p.closes = v.recorded_from
    THEN LET p == CHOOSE p \in pending[w] : p.obs = v.obs /\ p.closes = v.recorded_from
         IN [v EXCEPT !.recorded_to = p.at, !.value = p.value]
    ELSE v

\* The writes a transaction makes visible.
Closed(w, v) ==
    IF \E p \in pending[w] : p.obs = v.obs /\ p.closes = v.recorded_from
    THEN [v EXCEPT !.recorded_to =
            (CHOOSE p \in pending[w] : p.obs = v.obs /\ p.closes = v.recorded_from).at]
    ELSE v

\* Mutant: the new version is written without its change type.
OpenedUntyped(p) ==
    [obs |-> p.obs, value |-> p.value, recorded_from |-> p.at, recorded_to |-> Null,
     change_type |-> Null, is_backfilled |-> p.is_backfilled]

Opened(p) ==
    [obs |-> p.obs, value |-> p.value, recorded_from |-> p.at, recorded_to |-> Null,
     change_type |-> p.change_type, is_backfilled |-> p.is_backfilled]

\* Mutant: the current-state row is left as it was when it exists.
RowAfterInsertOnly(w, o) ==
    IF observations[o] = Null /\ \E p \in pending[w] : p.obs = o
    THEN (CHOOSE p \in pending[w] : p.obs = o).value
    ELSE observations[o]

RowAfter(w, o) ==
    IF \E p \in pending[w] : p.obs = o
    THEN (CHOOSE p \in pending[w] : p.obs = o).value
    ELSE observations[o]

\* session_scope() commits.
Commit(w) ==
    /\ pc[w] = "applying"
    /\ todo[w] = {}
    /\ observations' = [o \in Obs |-> RowAfter(w, o)]
    /\ versions' = {Closed(w, v) : v \in versions} \cup {Opened(p) : p \in pending[w]}
    /\ pc' = [pc EXCEPT ![w] = "idle"]
    /\ pending' = [pending EXCEPT ![w] = {}]
    /\ UNCHANGED <<clock, todo, item, existing, openVersion>>

\* session_scope() rolls back: a later error in the same transaction, a
\* killed process, a dropped connection, or being chosen as deadlock victim.
Rollback(w) ==
    /\ pc[w] # "idle"
    /\ Abandon(w)

\* What a provider may answer: nothing at all, or values for some dates.
Answers == UNION {[S -> Values] : S \in SUBSET Obs}

WriterNext(w) ==
    \/ \E answer \in Answers : \E imported \in SUBSET DOMAIN answer : Detect(w, answer, imported)
    \/ \E answer \in Answers : DetectAnotherSeries(w, answer)
    \/ StartApplying(w)
    \/ \E i \in todo[w] : \/ ConfirmUnchanged(w, i)
                          \/ FindNoRow(w, i)
                          \/ FindOtherValue(w, i)
    \/ FindOpenVersion(w)
    \/ RefuseBackdated(w)
    \/ Flush(w)
    \/ FlushConflict(w)
    \/ Commit(w)
    \/ Rollback(w)

Next == Tick \/ \E w \in Writers : WriterNext(w)

Spec == Init /\ [][Next]_vars

---------------------------------------------------------------------------
(* Properties *)

\* The versions of an observation tile system time: at every instant from
\* its first version on exactly one version is live, so an as-of query can
\* neither fall into a gap nor return two values, and the boundary instant
\* of a revision sees the new value, whatever sessions raced to write it.
VersionsTileTime ==
    \A o \in Obs : \A t \in 0..MaxTime :
        (\E v \in versions : v.obs = o /\ v.recorded_from <= t)
            => LET live == AsOf(o, t) IN \E v \in live : live = {v}

\* The current-state cache and the history never disagree: an observation
\* that has a history has exactly one open version, and the row holds that
\* version's value.
CacheMatchesHistory ==
    \A v \in versions :
        LET open == OpenVersions(v.obs)
        IN  \E u \in open : open = {u} /\ observations[v.obs] = u.value

\* A revision is always genuinely observed: only the first version of an
\* observation is an import or a backfill, and only it is not a REVISED one.
OnlyFirstVersionIsImported ==
    \A v \in versions :
        (v.is_backfilled \/ v.change_type # "REVISED") =>
            \A u \in versions : u.obs = v.obs => v.recorded_from <= u.recorded_from

\* Whoever commits, a version already recorded is never lost, re-valued,
\* re-dated or re-opened: all that may happen to it is to be closed once.
Survives(v, later) ==
    \/ v \in later
    \/ /\ v.recorded_to = Null
       /\ \E u \in later : /\ u.recorded_to \in Nat
                           /\ u = [v EXCEPT !.recorded_to = u.recorded_to]

HistoryIsAppendOnly == [][\A v \in versions : Survives(v, versions')]_vars

\* The store implements the account of SystemTimeHistory: an entry is a
\* version's value and the start of its interval.
entries == [o \in Obs |-> {[at |-> v.recorded_from, value |-> v.value] :
                             v \in {u \in versions : u.obs = o}}]

Account == INSTANCE SystemTimeHistory WITH history <- entries

ImplementsHistory == Account!Spec

\* A half-open interval query answers with the last value recorded by then.
AsOfIsInForce ==
    \A o \in Obs : \A t \in 0..MaxTime :
        {[at |-> v.recorded_from, value |-> v.value] : v \in AsOf(o, t)}
            = Account!InForce(o, t)

\* The comment of apply(): "a re-sync that confirms what is already stored
\* is not a new fact about the world", so it records no version, and two
\* successive versions of an observation differ.
ConfirmationRecordsNoVersion ==
    \A u, v \in versions :
        (u.obs = v.obs /\ u.recorded_to = v.recorded_from) => u.value # v.value
=============================================================================
