----------------------------- MODULE Maintenance -----------------------------
(***************************************************************************)
(* Automated maintenance: an external scheduler keeps launching             *)
(* app.operations.run_maintenance, one bounded sweep per invocation, and an *)
(* operator may run app.operations.process_release by hand.  A sweep        *)
(* records that it started, lists the release occurrences that are due, and *)
(* checks each in a transaction of its own under a PostgreSQL advisory      *)
(* lock that it tries for and never waits for.                              *)
(*                                                                          *)
(* Invocations overlap, cross midnight, meet provider and database          *)
(* failures, and die; a check that settles an occurrence is known to later  *)
(* sweeps only by the UTC day of its completed_at.                          *)
(***************************************************************************)
EXTENDS Naturals, FiniteSets

CONSTANTS
    Occurrences,    \* ids of occurrences whose release has an active mapping
    ScheduledDate,  \* the day each is scheduled for
    Sweeps,         \* hosts or jobs the scheduler launches sweeps on
    Manuals,        \* consoles that process one occurrence by hand
    RetryWindow,    \* retry_window_days
    Recovering,     \* occurrences whose providers and database do recover
    Null,           \* SQL NULL or Python None
    MaxDay,         \* bound: the last day the calendar reaches
    MaxDeaths       \* bound: how many invocations are killed or abort

Processes == Sweeps \cup Manuals

ASSUME OccurrencesAssumption == /\ Occurrences \subseteq Nat
                                /\ IsFiniteSet(Occurrences)
                                /\ ScheduledDate \in [Occurrences -> Nat]
                                /\ Recovering \subseteq Occurrences
ASSUME ProcessesAssumption == Sweeps \cap Manuals = {}
ASSUME WindowAssumption == RetryWindow \in Nat /\ MaxDay \in Nat /\ MaxDeaths \in Nat
ASSUME NullAssumption == Null \notin Nat /\ Null \notin Processes

VARIABLES
    day,        \* today, in UTC
    deaths,     \* invocations killed or aborted so far
    settled,    \* days on which each occurrence completed a settled check
    lock,       \* the transaction that holds an occurrence's advisory lock
    pc,         \* where each invocation is
    asOf,       \* its as_of_date
    target,     \* the occurrence it is checking
    result,     \* what that check found: status and day of completed_at
    due,        \* listed as due and not yet tried
    skipped,    \* tried while somebody else held the lock
    processed,  \* checked, and the check committed
    failed,     \* ended in a failure status or a database failure
    row,        \* the sweep record of the invocation
    exit        \* its exit code

database == <<settled, lock>>
tally == <<due, skipped, processed, failed>>
vars == <<day, deaths, settled, lock, pc, asOf, target, result, due, skipped,
          processed, failed, row, exit>>

---------------------------------------------------------------------------
(* Types *)

CheckRunStatus == {"NO_CHANGE", "CHANGED", "PARTIAL_FAILURE", "FAILED_PROVIDER"}

\* _SETTLED_CHECK_RUN_STATUSES of the repository and _FAILURE_STATUSES of
\* the orchestrator: two constants in two modules.
SettledStatuses == {"NO_CHANGE", "CHANGED"}
FailureStatuses == {"PARTIAL_FAILURE", "FAILED_PROVIDER"}

\* Mutant: the failure statuses are told apart by another name.
DetermineStatusRenamed(anyFailure, anySuccess, anyChange) ==
    IF anyFailure
    THEN IF anySuccess THEN "PARTIAL" ELSE "FAILED_PROVIDER"
    ELSE IF anyChange THEN "CHANGED" ELSE "NO_CHANGE"

\* _determine_status(), from how the mapped series' fetches went.
DetermineStatus(anyFailure, anySuccess, anyChange) ==
    IF anyFailure
    THEN IF anySuccess THEN "PARTIAL_FAILURE" ELSE "FAILED_PROVIDER"
    ELSE IF anyChange THEN "CHANGED" ELSE "NO_CHANGE"

Phases == {"off", "launched", "started", "looping", "checking", "committing"}

TypeOK ==
    /\ day \in Nat
    /\ deaths \in Nat
    /\ settled \in [Occurrences -> SUBSET Nat]
    /\ lock \in [Occurrences -> Processes \cup {Null}]
    /\ pc \in [Processes -> Phases]
    /\ asOf \in [Processes -> Nat]
    /\ target \in [Processes -> Occurrences \cup {Null}]
    /\ result \in [Processes -> [status : CheckRunStatus, day : Nat] \cup {Null}]
    /\ due \in [Sweeps -> SUBSET Occurrences]
    /\ skipped \in [Sweeps -> SUBSET Occurrences]
    /\ processed \in [Sweeps -> SUBSET Occurrences]
    /\ failed \in [Sweeps -> SUBSET Occurrences]
    /\ row \in [Sweeps -> {"none", "started", "finished"}]
    /\ exit \in [Processes -> {0, 1, 2, Null}]

---------------------------------------------------------------------------
(* Due work *)

\* scheduled_date within [as_of_date - retry_window_days, as_of_date].
InWindow(o, d) == ScheduledDate[o] <= d /\ d <= ScheduledDate[o] + RetryWindow

\* Mutant: the query forgets what is settled today.
DueUnlessPast(d) == {o \in Occurrences : InWindow(o, d)}

\* list_due_occurrence_ids: in the window and not settled on as_of_date.
Due(d) == {o \in Occurrences : InWindow(o, d) /\ d \notin settled[o]}

\* ORDER BY scheduled_date, id.
Before(o, p) ==
    \/ ScheduledDate[o] < ScheduledDate[p]
    \/ ScheduledDate[o] = ScheduledDate[p] /\ o <= p

IsFirst(o, S) == o \in S /\ \A p \in S : Before(o, p)

---------------------------------------------------------------------------
(* Invocations *)

Init ==
    /\ day = 0
    /\ deaths = 0
    /\ settled = [o \in Occurrences |-> {}]
    /\ lock = [o \in Occurrences |-> Null]
    /\ pc = [p \in Processes |-> "off"]
    /\ asOf = [p \in Processes |-> 0]
    /\ target = [p \in Processes |-> Null]
    /\ result = [p \in Processes |-> Null]
    /\ due = [s \in Sweeps |-> {}]
    /\ skipped = [s \in Sweeps |-> {}]
    /\ processed = [s \in Sweeps |-> {}]
    /\ failed = [s \in Sweeps |-> {}]
    /\ row = [s \in Sweeps |-> "none"]
    /\ exit = [p \in Processes |-> Null]

Midnight ==
    /\ day < MaxDay
    /\ day' = day + 1
    /\ UNCHANGED <<deaths, database, pc, asOf, target, result, tally, row, exit>>

\* main() of run_maintenance reads the date; the invocation is a new
\* process, so everything of the previous one on that host is gone.
LaunchSweep(s) ==
    /\ pc[s] = "off"
    /\ pc' = [pc EXCEPT ![s] = "launched"]
    /\ asOf' = [asOf EXCEPT ![s] = day]
    /\ due' = [due EXCEPT ![s] = {}]
    /\ skipped' = [skipped EXCEPT ![s] = {}]
    /\ processed' = [processed EXCEPT ![s] = {}]
    /\ failed' = [failed EXCEPT ![s] = {}]
    /\ row' = [row EXCEPT ![s] = "none"]
    /\ exit' = [exit EXCEPT ![s] = Null]
    /\ UNCHANGED <<day, deaths, database, target, result>>

\* start_sweep() commits before any due work is looked for.
StartSweep(s) ==
    /\ pc[s] = "launched"
    /\ pc' = [pc EXCEPT ![s] = "started"]
    /\ row' = [row EXCEPT ![s] = "started"]
    /\ UNCHANGED <<day, deaths, database, asOf, target, result, tally, exit>>

ListDue(s) ==
    /\ pc[s] = "started"
    /\ pc' = [pc EXCEPT ![s] = "looping"]
    /\ due' = [due EXCEPT ![s] = Due(asOf[s])]
    /\ UNCHANGED <<day, deaths, database, asOf, target, result, skipped,
                   processed, failed, row, exit>>

\* Mutant: the outcome of the try-lock is ignored.
AcquireAnyway(p, o) ==
    /\ lock' = [lock EXCEPT ![o] = p]
    /\ target' = [target EXCEPT ![p] = o]
    /\ pc' = [pc EXCEPT ![p] = "checking"]

\* pg_try_advisory_xact_lock succeeds: the check of o begins.
Acquire(p, o) ==
    /\ lock[o] = Null
    /\ lock' = [lock EXCEPT ![o] = p]
    /\ target' = [target EXCEPT ![p] = o]
    /\ pc' = [pc EXCEPT ![p] = "checking"]

AcquireNext(s, o) ==
    /\ pc[s] = "looping"
    /\ IsFirst(o, due[s])
    /\ Acquire(s, o)
    /\ due' = [due EXCEPT ![s] = @ \ {o}]
    /\ UNCHANGED <<day, deaths, settled, asOf, result, skipped, processed,
                   failed, row, exit>>

\* It fails: somebody else is on this occurrence, and this sweep moves on.
SkipLocked(s, o) ==
    /\ pc[s] = "looping"
    /\ IsFirst(o, due[s])
    /\ lock[o] # Null
    /\ due' = [due EXCEPT ![s] = @ \ {o}]
    /\ skipped' = [skipped EXCEPT ![s] = @ \cup {o}]
    /\ UNCHANGED <<day, deaths, database, pc, asOf, target, result, processed,
                   failed, row, exit>>

\* process_release: one occurrence, not before its scheduled date.
LaunchManual(m, o) ==
    /\ pc[m] = "off"
    /\ ScheduledDate[o] <= day
    /\ Acquire(m, o)
    /\ asOf' = [asOf EXCEPT ![m] = day]
    /\ exit' = [exit EXCEPT ![m] = Null]
    /\ UNCHANGED <<day, deaths, settled, result, tally, row>>

\* process_release refuses: the occurrence is locked or not yet eligible,
\* or the preflight checks fail.
RefuseManual(m) ==
    /\ pc[m] = "off"
    /\ exit' = [exit EXCEPT ![m] = 1]
    /\ UNCHANGED <<day, deaths, database, pc, asOf, target, result, tally, row>>

\* process_occurrence(): fetches every mapped series, writes what changed
\* and stamps completed_at.  Nothing is visible before the commit.
Check(p, anyFailure, anySuccess, anyChange) ==
    /\ pc[p] = "checking"
    /\ anyChange => anySuccess
    /\ result' = [result EXCEPT ![p] =
         [status |-> DetermineStatus(anyFailure, anySuccess, anyChange), day |-> day]]
    /\ pc' = [pc EXCEPT ![p] = "committing"]
    /\ UNCHANGED <<day, deaths, database, asOf, target, tally, row, exit>>

\* The end of the transaction, either way, frees the lock.
Release(p) ==
    /\ lock' = [o \in Occurrences |-> IF lock[o] = p THEN Null ELSE lock[o]]
    /\ target' = [target EXCEPT ![p] = Null]
    /\ result' = [result EXCEPT ![p] = Null]

Recorded(p) ==
    IF result[p].status \in SettledStatuses
    THEN [settled EXCEPT ![target[p]] = @ \cup {result[p].day}]
    ELSE settled

CommitSweepCheck(s) ==
    /\ pc[s] = "committing"
    /\ settled' = Recorded(s)
    /\ processed' = [processed EXCEPT ![s] = @ \cup {target[s]}]
    /\ failed' = IF result[s].status \in FailureStatuses
                 THEN [failed EXCEPT ![s] = @ \cup {target[s]}]
                 ELSE failed
    /\ Release(s)
    /\ pc' = [pc EXCEPT ![s] = "looping"]
    /\ UNCHANGED <<day, deaths, asOf, due, skipped, row, exit>>

CommitManualCheck(m) ==
    /\ pc[m] = "committing"
    /\ settled' = Recorded(m)
    /\ exit' = [exit EXCEPT ![m] = IF result[m].status \in FailureStatuses THEN 1 ELSE 0]
    /\ Release(m)
    /\ pc' = [pc EXCEPT ![m] = "off"]
    /\ UNCHANGED <<day, deaths, asOf, tally, row>>

\* OperationalError or SQLAlchemyError inside one occurrence's transaction.
\* It rolled back, unless the server had committed and only its answer was
\* lost; the caller cannot tell.
DatabaseFailure(p) ==
    /\ \/ pc[p] = "checking" /\ settled' = settled
       \/ pc[p] = "committing" /\ settled' \in {settled, Recorded(p)}
    /\ Release(p)

\* Mutant: the except clause continues without counting the failure.
SweepDatabaseFailureUncounted(s) ==
    /\ DatabaseFailure(s)
    /\ pc' = [pc EXCEPT ![s] = "looping"]
    /\ UNCHANGED <<day, deaths, asOf, due, skipped, processed, failed, row, exit>>

\* Mutant: one occurrence's failure ends the whole sweep.
SweepDatabaseFailureEnds(s) ==
    /\ DatabaseFailure(s)
    /\ failed' = [failed EXCEPT ![s] = @ \cup {target[s]}]
    /\ pc' = [pc EXCEPT ![s] = "off"]
    /\ UNCHANGED <<day, deaths, asOf, due, skipped, processed, row, exit>>

\* A sweep goes on to the next occurrence.
SweepDatabaseFailure(s) ==
    /\ DatabaseFailure(s)
    /\ failed' = [failed EXCEPT ![s] = @ \cup {target[s]}]
    /\ pc' = [pc EXCEPT ![s] = "looping"]
    /\ UNCHANGED <<day, deaths, asOf, due, skipped, processed, row, exit>>

ManualDatabaseFailure(m) ==
    /\ DatabaseFailure(m)
    /\ exit' = [exit EXCEPT ![m] = 1]
    /\ pc' = [pc EXCEPT ![m] = "off"]
    /\ UNCHANGED <<day, deaths, asOf, tally, row>>

\* finish_sweep(), then the exit code.
FinishSweep(s, scheduleProblem) ==
    /\ pc[s] = "looping"
    /\ due[s] = {}
    /\ row' = [row EXCEPT ![s] = "finished"]
    /\ exit' = [exit EXCEPT ![s] = IF failed[s] # {} \/ scheduleProblem THEN 1 ELSE 0]
    /\ pc' = [pc EXCEPT ![s] = "off"]
    /\ UNCHANGED <<day, deaths, database, asOf, target, result, tally>>

\* A database failure outside every occurrence's own transaction (the
\* schedule sync, start, list or finish), or a failed preflight check.
SweepFatalFailure(s) ==
    /\ \/ pc[s] \in {"launched", "started"}
       \/ pc[s] = "looping" /\ due[s] = {}
    /\ exit' = [exit EXCEPT ![s] = 2]
    /\ pc' = [pc EXCEPT ![s] = "off"]
    /\ UNCHANGED <<day, deaths, database, asOf, target, result, tally, row>>

\* Two sweeps insert the same new dates of the committed schedule.  Around
\* the synchronisation main() catches only OperationalError, so the loser's
\* IntegrityError ends it with a traceback and status 1.
ScheduleConflict(s) ==
    /\ pc[s] = "launched"
    /\ Sweeps # {s}
    /\ exit' = [exit EXCEPT ![s] = 1]
    /\ pc' = [pc EXCEPT ![s] = "off"]
    /\ UNCHANGED <<day, deaths, database, asOf, target, result, tally, row>>

\* The version writer refuses a backdated revision with a ValueError, which
\* neither the sweep's loop nor main() catches: the transaction rolls back
\* and the interpreter exits with a traceback and status 1.
AbortCheck(p) ==
    /\ pc[p] = "checking"
    /\ deaths < MaxDeaths
    /\ deaths' = deaths + 1
    /\ exit' = [exit EXCEPT ![p] = 1]
    /\ Release(p)
    /\ pc' = [pc EXCEPT ![p] = "off"]
    /\ UNCHANGED <<day, settled, asOf, tally, row>>

\* The process is killed, at any point; its transaction rolls back.
Kill(p) ==
    /\ pc[p] # "off"
    /\ deaths < MaxDeaths
    /\ deaths' = deaths + 1
    /\ Release(p)
    /\ pc' = [pc EXCEPT ![p] = "off"]
    /\ UNCHANGED <<day, settled, asOf, tally, row, exit>>

SweepStep(s) ==
    \/ LaunchSweep(s)
    \/ StartSweep(s)
    \/ ListDue(s)
    \/ \E o \in Occurrences : AcquireNext(s, o) \/ SkipLocked(s, o)
    \/ CommitSweepCheck(s)
    \/ \E problem \in BOOLEAN : FinishSweep(s, problem)

ManualStep(m) ==
    \/ \E o \in Occurrences : LaunchManual(m, o)
    \/ RefuseManual(m)
    \/ CommitManualCheck(m)

CheckStep(p) == \E f, s, c \in BOOLEAN : Check(p, f, s, c)

Next ==
    \/ Midnight
    \/ \E s \in Sweeps : \/ SweepStep(s) \/ SweepDatabaseFailure(s)
                         \/ SweepFatalFailure(s) \/ ScheduleConflict(s)
    \/ \E m \in Manuals : ManualStep(m) \/ ManualDatabaseFailure(m)
    \/ \E p \in Processes : CheckStep(p) \/ AbortCheck(p) \/ Kill(p)

Spec == Init /\ [][Next]_vars

---------------------------------------------------------------------------
(* Fairness *)

\* What must go right for an occurrence to be settled by a process: every
\* fetch succeeds, and the transaction commits.
CheckSucceeds(p, o) ==
    target[p] = o /\ \E changed \in BOOLEAN : Check(p, FALSE, TRUE, changed)

CommitSucceeds(s, o) ==
    /\ pc[s] = "committing"
    /\ target[s] = o
    /\ result[s].status \in SettledStatuses
    /\ CommitSweepCheck(s)

\* The scheduler keeps launching sweeps and a live sweep keeps running.  The
\* database lets a sweep start and list its work now and then, and a
\* recovering occurrence's providers and transactions do not fail for ever.
\* Nothing is assumed of the other occurrences, nor of the operator.
FairSpec ==
    /\ Spec
    /\ \A s \in Sweeps :
          /\ WF_vars(SweepStep(s))
          /\ SF_vars(StartSweep(s))
          /\ SF_vars(ListDue(s))
          /\ WF_vars(CheckStep(s) \/ SweepDatabaseFailure(s))
          /\ \A o \in Recovering : SF_vars(CheckSucceeds(s, o)) /\ SF_vars(CommitSucceeds(s, o))

---------------------------------------------------------------------------
(* Properties *)

\* An occurrence is locked exactly while one live transaction checks it: no
\* two invocations are ever on the same occurrence, and neither a failure
\* nor a death leaves it locked for the sweeps to skip for ever.
LockFollowsCheck ==
    \A p \in Processes, o \in Occurrences :
        lock[o] = p <=> target[p] = o /\ pc[p] \in {"checking", "committing"}

\* A finished sweep record hides nothing.  Every occurrence inside the retry
\* window on the sweep's date is settled since that date, unless the sweep
\* counted it as failed or left it to whoever held its lock; what it skipped
\* it did not check; and exit code 0 means that nothing failed.
FinishedSweepAccounts ==
    \A s \in Sweeps : row[s] = "finished" =>
        /\ \A o \in Occurrences : InWindow(o, asOf[s]) =>
              \/ \E d \in settled[o] : asOf[s] <= d
              \/ o \in failed[s] \cup skipped[s]
        /\ skipped[s] \cap (processed[s] \cup failed[s]) = {}
        /\ exit[s] = 0 => failed[s] = {}

\* The comment of list_due_occurrence_ids: an occurrence is re-checked "at
\* most once per day" once it settles, so a sweep never commits a settled
\* check on a day that already has one.
SettlesAgain(s) ==
    /\ pc[s] = "committing"
    /\ result[s].status \in SettledStatuses
    /\ result[s].day \in settled[target[s]]
    /\ CommitSweepCheck(s)

AtMostOncePerDay == [][\A s \in Sweeps : ~SettlesAgain(s)]_vars

\* Retry: once the calendar rests on a day inside an occurrence's retry
\* window, the occurrence is settled that day, whatever failed before and
\* whatever goes on failing for other occurrences of the same sweeps.
RetriedUntilSettled ==
    \A o \in Recovering :
        (day = MaxDay /\ InWindow(o, MaxDay)) ~> (MaxDay \in settled[o])

\* The exit codes run_maintenance.py documents: 1 means "the sweep record
\* itself still exists and is finished".
ExitOneMeansFinished == \A s \in Sweeps : exit[s] = 1 => row[s] = "finished"
=============================================================================
