--------------------------- MODULE ReleaseCalendar ---------------------------
(***************************************************************************)
(* The release calendar: occurrences of releases, written from the committed  *)
(* schedule by the command and by every maintenance sweep, and from FRED by   *)
(* the API.  Each synchronisation is one transaction; two may overlap, and    *)
(* the unique index on (release, date) decides which of them keeps a date.    *)
(***************************************************************************)
EXTENDS Integers

CONSTANTS
    Failed,               \* an answer that raises
    Syncers,              \* sessions that synchronise
    Schedule,             \* the committed dates of each scheduled release
    FredReleases,         \* catalog releases FRED is asked about
    ReleaseDates,         \* what FRED may answer for a release: sets of dates, or Failed
    Catalogs,             \* which releases the catalog may hold active
    FirstDay, LastDay     \* bounds of today

VARIABLES
    today,
    active,         \* releases of the catalog that are active
    occurrences,    \* release_occurrences: [release, date, first_seen, last_seen]
    syncer

calendarVars == <<today, active, occurrences, syncer>>

ScheduledReleases == DOMAIN Schedule

Held == {<<o.release, o.date>> : o \in occurrences}

---------------------------------------------------------------------------
(* schedule_status *)

ScheduleState(dates, day) ==
    LET upcoming == {d \in dates : d >= day}
    IN  CASE dates = {}                    -> "MISSING"
          [] dates # {} /\ upcoming = {}   -> "EXPIRED"
          [] OTHER                         -> "OK"

\* Mutant: a release that is not in the active catalog is no problem.
CatalogIgnored(missing, day) ==
    IF \E r \in ScheduledReleases : ScheduleState(Schedule[r], day) # "OK" THEN 1 ELSE 0

\* EXPIRING only warns.
ScheduleExit(missing, day) ==
    IF missing # {} \/ \E r \in ScheduledReleases : ScheduleState(Schedule[r], day) # "OK" THEN 1 ELSE 0

---------------------------------------------------------------------------
CalendarInit ==
    /\ today = FirstDay
    /\ active \in Catalogs
    /\ occurrences = {}
    /\ syncer = [s \in Syncers |-> [phase |-> "idle"]]

Keys(dates) == UNION {{<<r, d>> : d \in dates[r]} : r \in DOMAIN dates}

\* upsert_occurrence of every date, in a transaction that is still open: those it
\* finds are seen again, the others inserted.
UpsertDates(s, kind, dates, missing) ==
    /\ syncer' = [syncer EXCEPT ![s] =
         [phase |-> "written", kind |-> kind, dates |-> dates, missing |-> missing, now |-> today,
          seen |-> Keys(dates) \cap Held, inserted |-> Keys(dates) \ Held]]
    /\ UNCHANGED <<today, active, occurrences>>

\* sync_schedule: a release that is not in the active catalog is left out.
SyncSchedule(s) ==
    /\ syncer[s].phase = "idle"
    /\ UpsertDates(s, "schedule", [r \in ScheduledReleases \cap active |-> Schedule[r]],
                   ScheduledReleases \ active)

\* sync_all: a release whose fetch fails is reported, the others go on.
SyncAll(s) ==
    /\ syncer[s].phase = "idle"
    /\ \E answers \in [FredReleases \cap active -> ReleaseDates] :
         UpsertDates(s, "fred", [r \in {x \in DOMAIN answers : answers[x] # Failed} |-> answers[r]], {})

\* The writes appear, unless another session has meanwhile inserted one of the
\* dates: then nothing of this one is kept.
Commit(s) ==
    /\ syncer[s].phase = "written"
    /\ IF syncer[s].inserted \cap Held # {}
       THEN /\ syncer' = [syncer EXCEPT ![s] = [phase |-> "done", exit |-> 2, kind |-> @.kind]]
            /\ UNCHANGED occurrences
       ELSE /\ syncer' = [syncer EXCEPT ![s] =
                 [phase |-> "done", kind |-> @.kind,
                  exit |-> IF @.kind = "schedule" THEN ScheduleExit(@.missing, @.now) ELSE 0]]
            /\ occurrences' =
                 {IF <<o.release, o.date>> \in syncer[s].seen THEN [o EXCEPT !.last_seen = syncer[s].now] ELSE o :
                    o \in occurrences}
                 \cup {[release |-> k[1], date |-> k[2], first_seen |-> syncer[s].now,
                        last_seen |-> syncer[s].now] : k \in syncer[s].inserted}
    /\ UNCHANGED <<today, active>>

\* The process dies, or the database fails: the transaction is rolled back.
Abandon(s) ==
    /\ syncer[s].phase = "written"
    /\ syncer' = [syncer EXCEPT ![s] = [phase |-> "done", exit |-> 2, kind |-> @.kind]]
    /\ UNCHANGED <<today, active, occurrences>>

Return(s) ==
    /\ syncer[s].phase = "done"
    /\ syncer' = [syncer EXCEPT ![s] = [phase |-> "idle"]]
    /\ UNCHANGED <<today, active, occurrences>>

NextDay ==
    /\ today < LastDay
    /\ today' = today + 1
    /\ UNCHANGED <<active, occurrences, syncer>>

CalendarNext ==
    \/ \E s \in Syncers : SyncSchedule(s) \/ SyncAll(s) \/ Commit(s) \/ Abandon(s) \/ Return(s)
    \/ NextDay

---------------------------------------------------------------------------
\* services/releases.py:108 and operations/release_schedule.py:52: an occurrence
\* never goes, never changes when it was first seen and is held once, whatever
\* syncs overlap or fail; a sync that reports success has written every date it was
\* given; and when the command exits with 0, each scheduled release is active and
\* has an occurrence still to come on the day it ran.
CalendarKeepsItsWord ==
    [][/\ \A o \in occurrences : \E p \in occurrences' :
            p.release = o.release /\ p.date = o.date /\ p.first_seen = o.first_seen
       /\ \A o, p \in occurrences' : (p.release = o.release /\ p.date = o.date) => p = o
       /\ \A s \in Syncers :
            (syncer'[s].phase = "done" /\ syncer[s].phase = "written" /\ syncer'[s].exit # 2) =>
               /\ Keys(syncer[s].dates) \subseteq Held'
               /\ (syncer'[s].kind = "schedule" /\ syncer'[s].exit = 0) =>
                    \A r \in ScheduledReleases :
                       r \in active /\ \E o \in occurrences' : o.release = r /\ o.date >= syncer[s].now
      ]_calendarVars
=============================================================================
