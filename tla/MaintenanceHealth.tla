-------------------------- MODULE MaintenanceHealth --------------------------
(***************************************************************************)
(* The heartbeat check of the maintenance worker: the verdict is drawn from   *)
(* the newest sweep and the newest finished sweep, read one after the other   *)
(* while sweeps start, finish and crash.                                      *)
(***************************************************************************)
EXTENDS Values, Integers, Sequences

CONSTANTS
    StaleThreshold,         \* ticks
    UnfinishedGracePeriod,  \* ticks
    MaxSweeps,              \* bound: sweeps
    MaxHour                 \* bound: ticks of the clock

ASSUME HealthAssumption ==
    Null \notin Nat /\ StaleThreshold \in Nat /\ UnfinishedGracePeriod \in Nat

VARIABLES
    hour,      \* the clock
    sweeps,    \* maintenance_sweeps, in id order
    checkup    \* one run of the heartbeat command

healthVars == <<hour, sweeps, checkup>>

---------------------------------------------------------------------------
(* maintenance_repository *)

\* The newest by (started_at, id) of some sweeps, or Null.
NewestOf(ids) ==
    IF ids = {} THEN Null
    ELSE sweeps[CHOOSE i \in ids : \A j \in ids :
                  \/ sweeps[j].started_at < sweeps[i].started_at
                  \/ sweeps[j].started_at = sweeps[i].started_at /\ j =< i]

GetLatestSweep == NewestOf(DOMAIN sweeps)

GetLatestFinishedSweep == NewestOf({i \in DOMAIN sweeps : sweeps[i].finished_at # Null})

---------------------------------------------------------------------------
(* classify_maintenance_health *)

\* Mutant: a newest sweep that hangs is passed over.
ClassifyFinished(latest, finished, now) ==
    CASE finished = Null -> "NEVER_RUN"
      [] finished # Null /\ now - finished.started_at > StaleThreshold -> "STALE"
      [] OTHER -> IF finished.failed_count > 0 THEN "DEGRADED" ELSE "HEALTHY"

ClassifyMaintenanceHealth(latest, finished, now) ==
    LET reference == IF latest # Null /\ latest.finished_at # Null THEN latest ELSE finished
        hung == /\ latest.finished_at = Null
                /\ now - latest.started_at > UnfinishedGracePeriod
    IN  CASE latest = Null           -> "NEVER_RUN"
          [] latest # Null /\ hung   -> "UNFINISHED"
          [] OTHER ->
               CASE reference = Null -> "NEVER_RUN"
                 [] reference # Null /\ now - reference.started_at > StaleThreshold -> "STALE"
                 [] OTHER -> IF reference.failed_count > 0 THEN "DEGRADED" ELSE "HEALTHY"

ExitCode(status) == IF status = "HEALTHY" THEN 0 ELSE 1

---------------------------------------------------------------------------
HealthInit ==
    /\ hour = 0
    /\ sweeps = <<>>
    /\ checkup = [phase |-> "none"]

StartSweep ==
    /\ Len(sweeps) < MaxSweeps
    /\ sweeps' = Append(sweeps, [started_at |-> hour, finished_at |-> Null, failed_count |-> Null])
    /\ UNCHANGED <<hour, checkup>>

\* A sweep that crashes is one that never finishes.
FinishSweep(i, failed) ==
    /\ sweeps[i].finished_at = Null
    /\ sweeps' = [sweeps EXCEPT ![i].finished_at = hour, ![i].failed_count = failed]
    /\ UNCHANGED <<hour, checkup>>

\* The clock is read once, before the schema check and the reads.
BeginCheckup ==
    /\ checkup.phase = "none"
    /\ checkup' = [phase |-> "asked", now |-> hour, schema |-> TRUE]
    /\ UNCHANGED <<hour, sweeps>>

\* An incompatible schema ends the check before any sweep is read.
RefuseSchema ==
    /\ checkup.phase = "asked"
    /\ checkup' = [phase |-> "done", now |-> checkup.now, status |-> Null, exit |-> 2]
    /\ UNCHANGED <<hour, sweeps>>

ReadLatest ==
    /\ checkup.phase = "asked"
    /\ checkup' = [phase |-> "read", now |-> checkup.now, latest |-> GetLatestSweep]
    /\ UNCHANGED <<hour, sweeps>>

ReadFinishedAndClassify ==
    /\ checkup.phase = "read"
    /\ LET status == ClassifyMaintenanceHealth(checkup.latest, GetLatestFinishedSweep, checkup.now)
       IN  checkup' = [phase |-> "done", now |-> checkup.now, status |-> status, exit |-> ExitCode(status)]
    /\ UNCHANGED <<hour, sweeps>>

PassHour ==
    /\ hour < MaxHour
    /\ hour' = hour + 1
    /\ UNCHANGED <<sweeps, checkup>>

\* Bound: one checkup, with which a behaviour ends.
HealthNext ==
    /\ checkup.phase # "done"
    /\ \/ StartSweep
       \/ \E i \in DOMAIN sweeps, failed \in {0, 1} : FinishSweep(i, failed)
       \/ BeginCheckup
       \/ RefuseSchema
       \/ ReadLatest
       \/ ReadFinishedAndClassify
       \/ PassHour

---------------------------------------------------------------------------
\* domain/maintenance_health.py:91: exit code 0 is a promise about the worker: a
\* sweep started within the stale threshold finished with no failure, every sweep
\* that started after it had not finished when the check was asked, and the newest
\* of those is within its grace period (or did finish while the check was reading).
HealthyIsRecentAndClean ==
    (checkup.phase = "done" /\ checkup.exit = 0) =>
        \E i \in DOMAIN sweeps :
            LET before(j) == sweeps[j].finished_at # Null /\ sweeps[j].finished_at < checkup.now
            IN  /\ sweeps[i].finished_at # Null /\ sweeps[i].failed_count = 0
                /\ checkup.now - sweeps[i].started_at =< StaleThreshold
                /\ \A j \in DOMAIN sweeps : sweeps[j].started_at > sweeps[i].started_at => ~before(j)
                /\ \A j \in DOMAIN sweeps :
                     (/\ sweeps[j].started_at > sweeps[i].started_at
                      /\ checkup.now - sweeps[j].started_at > UnfinishedGracePeriod)
                       => \E k \in DOMAIN sweeps : sweeps[k].started_at > sweeps[j].started_at
=============================================================================
