------------------------- MODULE MaintenanceProofs -------------------------
(***************************************************************************)
(* Proofs about Maintenance for any number of sweeps, operators and         *)
(* occurrences, any retry window and any number of days and deaths.         *)
(*                                                                          *)
(* What a finished sweep record says is not inductive: it needs to be known *)
(* of a running sweep that every occurrence of its window is settled since  *)
(* its date, or has been counted, or is still to be tried, or is being      *)
(* checked right now (SweepInv), and that what a check found is dated no    *)
(* earlier than the sweep (PhaseInv).                                       *)
(***************************************************************************)
EXTENDS Maintenance, TLAPS

---------------------------------------------------------------------------
(* The inductive invariant *)

InTransaction(p) == pc[p] \in {"checking", "committing"}

\* Of every invocation: it has a target exactly inside a transaction, and
\* the dates it holds are in order.
PhaseInv ==
    \A p \in Processes :
        /\ InTransaction(p) <=> target[p] # Null
        /\ pc[p] = "committing" =>
              /\ result[p] \in [status : CheckRunStatus, day : Nat]
              /\ asOf[p] <= result[p].day
        /\ asOf[p] <= day
        /\ p \in Manuals => pc[p] \in {"off", "checking", "committing"}

SettledSince(o, d) == \E e \in settled[o] : d <= e

\* Of a sweep's lists: an occurrence moves from due through target to
\* exactly one way of having been dealt with.
ListsApart(s) ==
    /\ due[s] \cap (skipped[s] \cup processed[s] \cup failed[s]) = {}
    /\ target[s] \notin due[s] \cup skipped[s] \cup processed[s] \cup failed[s]
    /\ skipped[s] \cap (processed[s] \cup failed[s]) = {}

Dealt(s) ==
    \A o \in Occurrences : InWindow(o, asOf[s]) =>
        \/ SettledSince(o, asOf[s])
        \/ o \in due[s] \cup failed[s] \cup skipped[s]
        \/ o = target[s]

SweepInv ==
    \A s \in Sweeps :
        /\ row[s] = "finished" =>
              pc[s] = "off" /\ due[s] = {} /\ (exit[s] = 0 => failed[s] = {})
        /\ pc[s] \in {"launched", "started"} =>
              due[s] = {} /\ skipped[s] = {} /\ processed[s] = {} /\ failed[s] = {}
        /\ ListsApart(s)
        /\ (pc[s] \in {"looping", "checking", "committing"} \/ row[s] = "finished") => Dealt(s)

IInv == TypeOK /\ LockFollowsCheck /\ PhaseInv /\ SweepInv

---------------------------------------------------------------------------
(* Every step preserves it *)

\* The occurrences, processes and null values are what the ASSUMEs say.
LEMMA Constants ==
    /\ Null \notin Occurrences
    /\ Null \notin Processes
    /\ Null \notin Nat
    /\ \A o \in Occurrences : ScheduledDate[o] \in Nat
    /\ Sweeps \cap Manuals = {}
    /\ Sweeps \subseteq Processes /\ Manuals \subseteq Processes
  BY NullAssumption, OccurrencesAssumption, ProcessesAssumption DEF Processes

\* The initial state has no invocation and no lock.
LEMMA InitIInv == Init => IInv
  BY Constants DEF Init, IInv, TypeOK, Phases, LockFollowsCheck, PhaseInv, InTransaction,
     SweepInv, ListsApart, Dealt

\* Committing a check only ever adds days to an occurrence's settled days,
\* and a settled status adds the day of the check.
LEMMA RecordedGrows ==
    ASSUME IInv, NEW p \in Processes, pc[p] = "committing"
    PROVE  /\ target[p] \in Occurrences
           /\ result[p] \in [status : CheckRunStatus, day : Nat]
           /\ Recorded(p) \in [Occurrences -> SUBSET Nat]
           /\ \A o \in Occurrences : settled[o] \subseteq Recorded(p)[o]
           /\ result[p].status \in SettledStatuses =>
                 result[p].day \in Recorded(p)[target[p]]
  <1>1. target[p] \in Occurrences /\ result[p] \in [status : CheckRunStatus, day : Nat]
    BY DEF IInv, TypeOK, PhaseInv, InTransaction
  <1>2. settled \in [Occurrences -> SUBSET Nat] /\ result[p].day \in Nat
    BY <1>1 DEF IInv, TypeOK
  <1> QED BY <1>1, <1>2 DEF Recorded

\* Midnight keeps the invariant.
LEMMA KeepMidnight ==
    ASSUME IInv, Midnight
    PROVE  IInv'
  <1> USE Constants DEF IInv
  <1>1. TypeOK'
    BY DEF TypeOK, Phases, CheckRunStatus, Midnight, database, tally
  <1>2. LockFollowsCheck'
    BY DEF TypeOK, Phases, LockFollowsCheck, PhaseInv, InTransaction, Midnight, database, tally
  <1>3. PhaseInv'
    BY DEF TypeOK, Phases, PhaseInv, InTransaction, Midnight, database, tally
  <1>4. SweepInv'
    BY DEF TypeOK, Phases, PhaseInv, InTransaction, SweepInv, ListsApart, Dealt,
           SettledSince, InWindow, Midnight, database, tally
  <1> QED BY <1>1, <1>2, <1>3, <1>4

\* LaunchSweep keeps the invariant.
LEMMA KeepLaunchSweep ==
    ASSUME IInv, NEW s \in Sweeps, LaunchSweep(s)
    PROVE  IInv'
  <1> USE Constants DEF IInv
  <1>1. TypeOK'
    BY DEF TypeOK, Phases, CheckRunStatus, LaunchSweep, database, tally
  <1>2. LockFollowsCheck'
    BY DEF TypeOK, Phases, LockFollowsCheck, PhaseInv, InTransaction, LaunchSweep, database, tally
  <1>3. PhaseInv'
    BY DEF TypeOK, Phases, PhaseInv, InTransaction, LaunchSweep, database, tally
  <1>4. SweepInv'
    BY DEF TypeOK, Phases, PhaseInv, InTransaction, SweepInv, ListsApart, Dealt,
           SettledSince, InWindow, LaunchSweep, database, tally
  <1> QED BY <1>1, <1>2, <1>3, <1>4

\* StartSweep keeps the invariant.
LEMMA KeepStartSweep ==
    ASSUME IInv, NEW s \in Sweeps, StartSweep(s)
    PROVE  IInv'
  <1> USE Constants DEF IInv
  <1>1. TypeOK'
    BY DEF TypeOK, Phases, CheckRunStatus, StartSweep, database, tally
  <1>2. LockFollowsCheck'
    BY DEF TypeOK, Phases, LockFollowsCheck, PhaseInv, InTransaction, StartSweep, database, tally
  <1>3. PhaseInv'
    BY DEF TypeOK, Phases, PhaseInv, InTransaction, StartSweep, database, tally
  <1>4. SweepInv'
    BY DEF TypeOK, Phases, PhaseInv, InTransaction, SweepInv, ListsApart, Dealt,
           SettledSince, InWindow, StartSweep, database, tally
  <1> QED BY <1>1, <1>2, <1>3, <1>4

\* ListDue keeps the invariant.
LEMMA KeepListDue ==
    ASSUME IInv, NEW s \in Sweeps, ListDue(s)
    PROVE  IInv'
  <1> USE Constants DEF IInv
  <1>1. TypeOK'
    BY DEF TypeOK, Phases, CheckRunStatus, ListDue, Due, database, tally
  <1>2. LockFollowsCheck'
    BY DEF TypeOK, Phases, LockFollowsCheck, PhaseInv, InTransaction, ListDue, Due, database, tally
  <1>3. PhaseInv'
    BY DEF TypeOK, Phases, PhaseInv, InTransaction, ListDue, Due, database, tally
  <1>4. SweepInv'
    BY DEF TypeOK, Phases, PhaseInv, InTransaction, SweepInv, ListsApart, Dealt,
           SettledSince, InWindow, ListDue, Due, database, tally
  <1> QED BY <1>1, <1>2, <1>3, <1>4

\* AcquireNext keeps the invariant.
LEMMA KeepAcquireNext ==
    ASSUME IInv, NEW s \in Sweeps, NEW o \in Occurrences, AcquireNext(s, o)
    PROVE  IInv'
  <1> USE Constants DEF IInv
  <1>1. TypeOK'
    BY DEF TypeOK, Phases, CheckRunStatus, AcquireNext, Acquire, IsFirst, database, tally
  <1>2. LockFollowsCheck'
    BY DEF TypeOK, Phases, LockFollowsCheck, PhaseInv, InTransaction, AcquireNext, Acquire, IsFirst, database, tally
  <1>3. PhaseInv'
    BY DEF TypeOK, Phases, PhaseInv, InTransaction, AcquireNext, Acquire, IsFirst, database, tally
  <1>4. SweepInv'
    BY DEF TypeOK, Phases, PhaseInv, InTransaction, SweepInv, ListsApart, Dealt,
           SettledSince, InWindow, AcquireNext, Acquire, IsFirst, database, tally
  <1> QED BY <1>1, <1>2, <1>3, <1>4

\* SkipLocked keeps the invariant.
LEMMA KeepSkipLocked ==
    ASSUME IInv, NEW s \in Sweeps, NEW o \in Occurrences, SkipLocked(s, o)
    PROVE  IInv'
  <1> USE Constants DEF IInv
  <1>1. TypeOK'
    BY DEF TypeOK, Phases, CheckRunStatus, SkipLocked, IsFirst, database, tally
  <1>2. LockFollowsCheck'
    BY DEF TypeOK, Phases, LockFollowsCheck, PhaseInv, InTransaction, SkipLocked, IsFirst, database, tally
  <1>3. PhaseInv'
    BY DEF TypeOK, Phases, PhaseInv, InTransaction, SkipLocked, IsFirst, database, tally
  <1>4. SweepInv'
    BY DEF TypeOK, Phases, PhaseInv, InTransaction, SweepInv, ListsApart, Dealt,
           SettledSince, InWindow, SkipLocked, IsFirst, database, tally
  <1> QED BY <1>1, <1>2, <1>3, <1>4

\* LaunchManual keeps the invariant.
LEMMA KeepLaunchManual ==
    ASSUME IInv, NEW m \in Manuals, NEW o \in Occurrences, LaunchManual(m, o)
    PROVE  IInv'
  <1> USE Constants DEF IInv
  <1>1. TypeOK'
    BY DEF TypeOK, Phases, CheckRunStatus, LaunchManual, Acquire, database, tally
  <1>2. LockFollowsCheck'
    BY DEF TypeOK, Phases, LockFollowsCheck, PhaseInv, InTransaction, LaunchManual, Acquire, database, tally
  <1>3. PhaseInv'
    BY DEF TypeOK, Phases, PhaseInv, InTransaction, LaunchManual, Acquire, database, tally
  <1>4. SweepInv'
    BY DEF TypeOK, Phases, PhaseInv, InTransaction, SweepInv, ListsApart, Dealt,
           SettledSince, InWindow, LaunchManual, Acquire, database, tally
  <1> QED BY <1>1, <1>2, <1>3, <1>4

\* RefuseManual keeps the invariant.
LEMMA KeepRefuseManual ==
    ASSUME IInv, NEW m \in Manuals, RefuseManual(m)
    PROVE  IInv'
  <1> USE Constants DEF IInv
  <1>1. TypeOK'
    BY DEF TypeOK, Phases, CheckRunStatus, RefuseManual, database, tally
  <1>2. LockFollowsCheck'
    BY DEF TypeOK, Phases, LockFollowsCheck, PhaseInv, InTransaction, RefuseManual, database, tally
  <1>3. PhaseInv'
    BY DEF TypeOK, Phases, PhaseInv, InTransaction, RefuseManual, database, tally
  <1>4. SweepInv'
    BY DEF TypeOK, Phases, PhaseInv, InTransaction, SweepInv, ListsApart, Dealt,
           SettledSince, InWindow, RefuseManual, database, tally
  <1> QED BY <1>1, <1>2, <1>3, <1>4

\* Check keeps the invariant.
LEMMA KeepCheck ==
    ASSUME IInv, NEW p \in Processes, NEW f \in BOOLEAN, NEW a \in BOOLEAN, NEW c \in BOOLEAN, Check(p, f, a, c)
    PROVE  IInv'
  <1> USE Constants DEF IInv
  <1>1. TypeOK'
    BY DEF TypeOK, Phases, CheckRunStatus, Check, DetermineStatus, database, tally
  <1>2. LockFollowsCheck'
    BY DEF TypeOK, Phases, LockFollowsCheck, PhaseInv, InTransaction, Check, database, tally
  <1>0. /\ result'[p] \in [status : CheckRunStatus, day : Nat]
        /\ result'[p].day = day
        /\ \A q \in Processes : q # p => result'[q] = result[q]
    BY DEF TypeOK, Check, DetermineStatus, CheckRunStatus
  <1>3. PhaseInv'
    BY <1>0 DEF TypeOK, Phases, PhaseInv, InTransaction, Check, database, tally
  <1>4. SweepInv'
    BY DEF TypeOK, Phases, PhaseInv, InTransaction, SweepInv, ListsApart, Dealt,
           SettledSince, InWindow, Check, DetermineStatus, database, tally
  <1> QED BY <1>1, <1>2, <1>3, <1>4

\* CommitSweepCheck keeps the invariant.
LEMMA KeepCommitSweepCheck ==
    ASSUME IInv, NEW s \in Sweeps, CommitSweepCheck(s)
    PROVE  IInv'
  <1> USE Constants DEF IInv
  <1>0. settled' \in [Occurrences -> SUBSET Nat]
        /\ target[s] \in Occurrences
        /\ \A o \in Occurrences : settled[o] \subseteq settled'[o]
    BY RecordedGrows DEF CommitSweepCheck
  <1>1. TypeOK'
    BY <1>0 DEF TypeOK, Phases, CheckRunStatus, CommitSweepCheck, Release, database, tally
  <1>2. LockFollowsCheck'
    BY DEF TypeOK, Phases, LockFollowsCheck, PhaseInv, InTransaction, CommitSweepCheck, Release, database, tally
  <1>3. PhaseInv'
    BY DEF TypeOK, Phases, PhaseInv, InTransaction, CommitSweepCheck, Release, database, tally
  <1>a. target[s] \in failed'[s] \/ \E e \in settled'[target[s]] : asOf[s] <= e
    <2>1. pc[s] = "committing" /\ asOf[s] <= result[s].day /\ settled' = Recorded(s)
          /\ s \in Processes
      BY DEF PhaseInv, CommitSweepCheck
    <2>2. CASE result[s].status \in SettledStatuses
      BY <2>1, <2>2, RecordedGrows
    <2>3. CASE result[s].status \in FailureStatuses
      BY <2>3 DEF TypeOK, CommitSweepCheck
    <2> QED
      BY <2>1, <2>2, <2>3, RecordedGrows DEF CheckRunStatus, SettledStatuses, FailureStatuses
  <1>b. failed[s] \subseteq failed'[s] /\ failed'[s] \subseteq failed[s] \cup {target[s]}
        /\ \A q \in Sweeps : q # s => failed'[q] = failed[q]
    BY DEF TypeOK, CommitSweepCheck
  <1>4. SweepInv'
    <2> SUFFICES ASSUME NEW q \in Sweeps
                 PROVE  SweepInv!(q)'
      BY DEF SweepInv
    <2>1. \A o \in Occurrences : SettledSince(o, asOf[q]) => SettledSince(o, asOf[q])'
      BY <1>0 DEF SettledSince, CommitSweepCheck
    <2>2. CASE q = s
      <3>1. pc'[s] = "looping" /\ row[s] # "finished" /\ row'[s] = row[s] /\ target'[s] = Null
            /\ due'[s] = due[s] /\ skipped'[s] = skipped[s] /\ asOf'[s] = asOf[s]
            /\ processed'[s] = processed[s] \cup {target[s]}
        BY DEF TypeOK, CommitSweepCheck, Release, SweepInv
      <3>2. ListsApart(s)'
        BY <1>0, <1>1, <1>b, <3>1 DEF TypeOK, SweepInv, ListsApart
      <3>3. Dealt(s)'
        <4>1. Dealt(s)
          BY DEF SweepInv, CommitSweepCheck
        <4> QED BY <4>1, <1>0, <1>a, <1>b, <2>1, <2>2, <3>1 DEF Dealt, SettledSince, InWindow
      <3> QED BY <2>2, <3>1, <3>2, <3>3
    <2>3. CASE q # s
      <3>1. pc'[q] = pc[q] /\ row'[q] = row[q] /\ target'[q] = target[q]
            /\ due'[q] = due[q] /\ skipped'[q] = skipped[q] /\ asOf'[q] = asOf[q]
            /\ processed'[q] = processed[q] /\ failed'[q] = failed[q] /\ exit'[q] = exit[q]
        BY <2>3, <1>b DEF TypeOK, CommitSweepCheck, Release
      <3>2. Dealt(q) => Dealt(q)'
        BY <2>1, <3>1 DEF Dealt, SettledSince, InWindow
      <3> QED BY <3>1, <3>2 DEF SweepInv, ListsApart
    <2> QED BY <2>2, <2>3
  <1> QED BY <1>1, <1>2, <1>3, <1>4

\* CommitManualCheck keeps the invariant.
LEMMA KeepCommitManualCheck ==
    ASSUME IInv, NEW m \in Manuals, CommitManualCheck(m)
    PROVE  IInv'
  <1> USE Constants DEF IInv
  <1>0. settled' \in [Occurrences -> SUBSET Nat]
        /\ target[m] \in Occurrences
        /\ \A o \in Occurrences : settled[o] \subseteq settled'[o]
    BY RecordedGrows DEF CommitManualCheck
  <1>1. TypeOK'
    BY <1>0 DEF TypeOK, Phases, CheckRunStatus, CommitManualCheck, Release, database, tally
  <1>2. LockFollowsCheck'
    BY DEF TypeOK, Phases, LockFollowsCheck, PhaseInv, InTransaction, CommitManualCheck, Release, database, tally
  <1>3. PhaseInv'
    BY DEF TypeOK, Phases, PhaseInv, InTransaction, CommitManualCheck, Release, database, tally
  <1>4. SweepInv'
    BY <1>0 DEF TypeOK, Phases, PhaseInv, InTransaction, SweepInv, ListsApart, Dealt,
           SettledSince, InWindow, CommitManualCheck, Release, database, tally
  <1> QED BY <1>1, <1>2, <1>3, <1>4

\* SweepDatabaseFailure keeps the invariant.
LEMMA KeepSweepDatabaseFailure ==
    ASSUME IInv, NEW s \in Sweeps, SweepDatabaseFailure(s)
    PROVE  IInv'
  <1> USE Constants DEF IInv
  <1>0. settled' \in [Occurrences -> SUBSET Nat]
        /\ target[s] \in Occurrences
        /\ \A o \in Occurrences : settled[o] \subseteq settled'[o]
    BY RecordedGrows DEF SweepDatabaseFailure, DatabaseFailure, TypeOK, PhaseInv, InTransaction
  <1>1. TypeOK'
    BY <1>0 DEF TypeOK, Phases, CheckRunStatus, SweepDatabaseFailure, DatabaseFailure, Release, database, tally
  <1>2. LockFollowsCheck'
    BY DEF TypeOK, Phases, LockFollowsCheck, PhaseInv, InTransaction, SweepDatabaseFailure, DatabaseFailure, Release, database, tally
  <1>3. PhaseInv'
    BY DEF TypeOK, Phases, PhaseInv, InTransaction, SweepDatabaseFailure, DatabaseFailure, Release, database, tally
  <1>4. SweepInv'
    BY <1>0 DEF TypeOK, Phases, PhaseInv, InTransaction, SweepInv, ListsApart, Dealt,
           SettledSince, InWindow, SweepDatabaseFailure, DatabaseFailure, Release, database, tally
  <1> QED BY <1>1, <1>2, <1>3, <1>4

\* ManualDatabaseFailure keeps the invariant.
LEMMA KeepManualDatabaseFailure ==
    ASSUME IInv, NEW m \in Manuals, ManualDatabaseFailure(m)
    PROVE  IInv'
  <1> USE Constants DEF IInv
  <1>0. settled' \in [Occurrences -> SUBSET Nat]
        /\ target[m] \in Occurrences
        /\ \A o \in Occurrences : settled[o] \subseteq settled'[o]
    BY RecordedGrows DEF ManualDatabaseFailure, DatabaseFailure, TypeOK, PhaseInv, InTransaction
  <1>1. TypeOK'
    BY <1>0 DEF TypeOK, Phases, CheckRunStatus, ManualDatabaseFailure, DatabaseFailure, Release, database, tally
  <1>2. LockFollowsCheck'
    BY DEF TypeOK, Phases, LockFollowsCheck, PhaseInv, InTransaction, ManualDatabaseFailure, DatabaseFailure, Release, database, tally
  <1>3. PhaseInv'
    BY DEF TypeOK, Phases, PhaseInv, InTransaction, ManualDatabaseFailure, DatabaseFailure, Release, database, tally
  <1>4. SweepInv'
    BY <1>0 DEF TypeOK, Phases, PhaseInv, InTransaction, SweepInv, ListsApart, Dealt,
           SettledSince, InWindow, ManualDatabaseFailure, DatabaseFailure, Release, database, tally
  <1> QED BY <1>1, <1>2, <1>3, <1>4

\* FinishSweep keeps the invariant.
LEMMA KeepFinishSweep ==
    ASSUME IInv, NEW s \in Sweeps, NEW problem \in BOOLEAN, FinishSweep(s, problem)
    PROVE  IInv'
  <1> USE Constants DEF IInv
  <1>1. TypeOK'
    BY DEF TypeOK, Phases, CheckRunStatus, FinishSweep, database, tally
  <1>2. LockFollowsCheck'
    BY DEF TypeOK, Phases, LockFollowsCheck, PhaseInv, InTransaction, FinishSweep, database, tally
  <1>3. PhaseInv'
    BY DEF TypeOK, Phases, PhaseInv, InTransaction, FinishSweep, database, tally
  <1>4. SweepInv'
    BY DEF TypeOK, Phases, PhaseInv, InTransaction, SweepInv, ListsApart, Dealt,
           SettledSince, InWindow, FinishSweep, database, tally
  <1> QED BY <1>1, <1>2, <1>3, <1>4

\* SweepFatalFailure keeps the invariant.
LEMMA KeepSweepFatalFailure ==
    ASSUME IInv, NEW s \in Sweeps, SweepFatalFailure(s)
    PROVE  IInv'
  <1> USE Constants DEF IInv
  <1>1. TypeOK'
    BY DEF TypeOK, Phases, CheckRunStatus, SweepFatalFailure, database, tally
  <1>2. LockFollowsCheck'
    BY DEF TypeOK, Phases, LockFollowsCheck, PhaseInv, InTransaction, SweepFatalFailure, database, tally
  <1>3. PhaseInv'
    BY DEF TypeOK, Phases, PhaseInv, InTransaction, SweepFatalFailure, database, tally
  <1>4. SweepInv'
    BY DEF TypeOK, Phases, PhaseInv, InTransaction, SweepInv, ListsApart, Dealt,
           SettledSince, InWindow, SweepFatalFailure, database, tally
  <1> QED BY <1>1, <1>2, <1>3, <1>4

\* ScheduleConflict keeps the invariant.
LEMMA KeepScheduleConflict ==
    ASSUME IInv, NEW s \in Sweeps, ScheduleConflict(s)
    PROVE  IInv'
  <1> USE Constants DEF IInv
  <1>1. TypeOK'
    BY DEF TypeOK, Phases, CheckRunStatus, ScheduleConflict, database, tally
  <1>2. LockFollowsCheck'
    BY DEF TypeOK, Phases, LockFollowsCheck, PhaseInv, InTransaction, ScheduleConflict, database, tally
  <1>3. PhaseInv'
    BY DEF TypeOK, Phases, PhaseInv, InTransaction, ScheduleConflict, database, tally
  <1>4. SweepInv'
    BY DEF TypeOK, Phases, PhaseInv, InTransaction, SweepInv, ListsApart, Dealt,
           SettledSince, InWindow, ScheduleConflict, database, tally
  <1> QED BY <1>1, <1>2, <1>3, <1>4

\* AbortCheck keeps the invariant.
LEMMA KeepAbortCheck ==
    ASSUME IInv, NEW p \in Processes, AbortCheck(p)
    PROVE  IInv'
  <1> USE Constants DEF IInv
  <1>1. TypeOK'
    BY DEF TypeOK, Phases, CheckRunStatus, AbortCheck, Release, database, tally
  <1>2. LockFollowsCheck'
    BY DEF TypeOK, Phases, LockFollowsCheck, PhaseInv, InTransaction, AbortCheck, Release, database, tally
  <1>3. PhaseInv'
    BY DEF TypeOK, Phases, PhaseInv, InTransaction, AbortCheck, Release, database, tally
  <1>4. SweepInv'
    BY DEF TypeOK, Phases, PhaseInv, InTransaction, SweepInv, ListsApart, Dealt,
           SettledSince, InWindow, AbortCheck, Release, database, tally
  <1> QED BY <1>1, <1>2, <1>3, <1>4

\* Kill keeps the invariant.
LEMMA KeepKill ==
    ASSUME IInv, NEW p \in Processes, Kill(p)
    PROVE  IInv'
  <1> USE Constants DEF IInv
  <1>1. TypeOK'
    BY DEF TypeOK, Phases, CheckRunStatus, Kill, Release, database, tally
  <1>2. LockFollowsCheck'
    BY DEF TypeOK, Phases, LockFollowsCheck, PhaseInv, InTransaction, Kill, Release, database, tally
  <1>3. PhaseInv'
    BY DEF TypeOK, Phases, PhaseInv, InTransaction, Kill, Release, database, tally
  <1>4. SweepInv'
    BY DEF TypeOK, Phases, PhaseInv, InTransaction, SweepInv, ListsApart, Dealt,
           SettledSince, InWindow, Kill, Release, database, tally
  <1> QED BY <1>1, <1>2, <1>3, <1>4

---------------------------------------------------------------------------
(* The theorems *)

\* Every step of the program keeps the invariant.
LEMMA NextIInv == IInv /\ [Next]_vars => IInv'
  <1> SUFFICES ASSUME IInv, [Next]_vars PROVE IInv'
    OBVIOUS
  <1>1. CASE Midnight
    BY <1>1, KeepMidnight
  <1>2. ASSUME NEW s \in Sweeps,
               \/ SweepStep(s) \/ SweepDatabaseFailure(s)
               \/ SweepFatalFailure(s) \/ ScheduleConflict(s)
        PROVE  IInv'
    BY <1>2, KeepLaunchSweep, KeepStartSweep, KeepListDue, KeepAcquireNext, KeepSkipLocked,
       KeepCommitSweepCheck, KeepFinishSweep, KeepSweepDatabaseFailure, KeepSweepFatalFailure,
       KeepScheduleConflict
       DEF SweepStep
  <1>3. ASSUME NEW m \in Manuals, ManualStep(m) \/ ManualDatabaseFailure(m)
        PROVE  IInv'
    BY <1>3, KeepLaunchManual, KeepRefuseManual, KeepCommitManualCheck,
       KeepManualDatabaseFailure DEF ManualStep
  <1>4. ASSUME NEW p \in Processes, CheckStep(p) \/ AbortCheck(p) \/ Kill(p)
        PROVE  IInv'
    BY <1>4, KeepCheck, KeepAbortCheck, KeepKill DEF CheckStep
  <1>5. CASE UNCHANGED vars
    BY <1>5 DEF vars, IInv, TypeOK, LockFollowsCheck, PhaseInv, InTransaction, SweepInv,
       ListsApart, Dealt, SettledSince, InWindow
  <1> QED BY <1>1, <1>2, <1>3, <1>4, <1>5 DEF Next

\* The inductive invariant always holds.
THEOREM Inductive == Spec => []IInv
  BY InitIInv, NextIInv, PTL DEF Spec

\* Every variable keeps its type, for any set of invocations.
THEOREM TypeCorrect == Spec => []TypeOK
  BY Inductive, PTL DEF IInv

\* An occurrence is locked exactly while one live transaction checks it,
\* however many sweeps and operators race, fail and die.
THEOREM LocksFollowChecks == Spec => []LockFollowsCheck
  BY Inductive, PTL DEF IInv

\* A finished sweep record hides nothing: every occurrence of its window is
\* settled, or counted as failed, or left to the holder of its lock.
THEOREM FinishedSweepsAccount == Spec => []FinishedSweepAccounts
  <1>1. IInv => FinishedSweepAccounts
    BY Constants DEF IInv, TypeOK, PhaseInv, InTransaction, SweepInv, Dealt, ListsApart,
       SettledSince, FinishedSweepAccounts
  <1> QED BY <1>1, Inductive, PTL
---------------------------------------------------------------------------
(* One worker *)

\* With a single worker nobody settles an occurrence behind the sweep's
\* back: whatever it has still to check was last settled before its date.
Fresh(w) ==
    /\ \A o \in Occurrences : \A d \in settled[o] : d <= day
    /\ pc[w] = "committing" => result[w].day <= day
    /\ pc[w] \in {"launched", "started"} =>
          \A o \in Occurrences : \A d \in settled[o] : d <= asOf[w]
    /\ pc[w] \in {"looping", "checking", "committing"} =>
          \A o \in due[w] : \A d \in settled[o] : d < asOf[w]
    /\ InTransaction(w) => \A d \in settled[target[w]] : d < asOf[w]

\* The only process there is keeps its knowledge fresh.
LEMMA NextFresh ==
    ASSUME NEW w, Sweeps = {w}, Manuals = {}, IInv, Fresh(w), [Next]_vars
    PROVE  Fresh(w)'
  <1> Processes = {w}
    BY DEF Processes
  <1> USE Constants DEF IInv, TypeOK, Fresh, InTransaction
  <1>1. CASE Midnight
    <2>1. day \in Nat /\ day' = day + 1 /\ settled' = settled
          /\ settled \in [Occurrences -> SUBSET Nat]
          /\ UNCHANGED <<pc, due, asOf, result, target>>
      BY <1>1 DEF Midnight, database, tally
    <2>2. \A o \in Occurrences : \A d \in settled'[o] : d <= day'
      BY <2>1
    <2>3. pc[w] = "committing" => result[w].day \in Nat /\ result[w].day <= day'
      BY <2>1 DEF PhaseInv
    <2> HIDE DEF IInv, TypeOK
    <2> QED BY <2>1, <2>2, <2>3
  <1>2. CASE LaunchSweep(w)
    BY <1>2 DEF LaunchSweep, database
  <1>3. CASE StartSweep(w)
    BY <1>3 DEF StartSweep, database, tally
  <1>4. CASE ListDue(w)
    BY <1>4 DEF ListDue, Due, database
  <1>5. ASSUME NEW o \in Occurrences, AcquireNext(w, o) \/ SkipLocked(w, o)
        PROVE  Fresh(w)'
    BY <1>5 DEF AcquireNext, SkipLocked, Acquire, IsFirst, database
  <1>6. CASE CheckStep(w)
    BY <1>6 DEF CheckStep, Check, database, tally
  <1>7. ASSUME pc[w] = "committing", pc'[w] = "looping", settled' \in {settled, Recorded(w)},
               UNCHANGED <<day, asOf, due>>
        PROVE  Fresh(w)'
    <2>1. target[w] \in Occurrences /\ target[w] \notin due[w] /\ result[w].day \in Nat
      BY <1>7, RecordedGrows DEF SweepInv, ListsApart
    <2> QED BY <1>7, <2>1 DEF Recorded
  <1>8. CASE CommitSweepCheck(w)
    BY <1>7, <1>8 DEF CommitSweepCheck
  <1>9. CASE SweepDatabaseFailure(w)
    <2>1. CASE pc[w] = "committing"
      BY <1>7, <1>9, <2>1 DEF SweepDatabaseFailure, DatabaseFailure
    <2>2. CASE pc[w] = "checking"
      BY <1>9, <2>2 DEF SweepDatabaseFailure, DatabaseFailure
    <2> QED BY <1>9, <2>1, <2>2 DEF SweepDatabaseFailure, DatabaseFailure
  <1>10. ASSUME NEW problem \in BOOLEAN, FinishSweep(w, problem)
         PROVE  Fresh(w)'
    BY <1>10 DEF FinishSweep, database, tally
  <1>11. CASE SweepFatalFailure(w) \/ ScheduleConflict(w) \/ AbortCheck(w) \/ Kill(w)
    BY <1>11 DEF SweepFatalFailure, ScheduleConflict, AbortCheck, Kill, database, tally
  <1>12. CASE UNCHANGED vars
    BY <1>12 DEF vars
  <1> QED
    BY <1>1, <1>2, <1>3, <1>4, <1>5, <1>6, <1>8, <1>9, <1>10, <1>11, <1>12 DEF Next, SweepStep

\* A worker whose sweeps never overlap, and with no operator about, settles
\* an occurrence at most once per day, across every midnight and failure.
THEOREM OneWorkerOncePerDay ==
    ASSUME NEW w, Sweeps = {w}, Manuals = {}
    PROVE  Spec => AtMostOncePerDay
  <1>1. Init => Fresh(w)
    BY DEF Init, Fresh, InTransaction, Processes
  <1>2. IInv /\ Fresh(w) /\ [Next]_vars => Fresh(w)'
    BY NextFresh
  <1>3. IInv /\ Fresh(w) => [\A s \in Sweeps : ~SettlesAgain(s)]_vars
    <2> SUFFICES ASSUME IInv, Fresh(w), SettlesAgain(w) PROVE FALSE
      OBVIOUS
    <2>1. asOf[w] <= result[w].day /\ asOf[w] \in Nat /\ result[w].day \in Nat
      BY DEF SettlesAgain, IInv, PhaseInv, TypeOK, Processes
    <2>2. result[w].day < asOf[w]
      BY DEF SettlesAgain, Fresh, InTransaction
    <2> QED BY <2>1, <2>2
  <1> QED BY <1>1, <1>2, <1>3, Inductive, PTL DEF Spec, AtMostOncePerDay
=============================================================================
