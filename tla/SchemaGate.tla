----------------------------- MODULE SchemaGate -----------------------------
(***************************************************************************)
(* The schema check and the release command that migrates.  Revisions form   *)
(* one chain, numbered from 1; 0 is a database without any, Many one with     *)
(* more than one version row.  Two migrators of this release and one of a     *)
(* newer release, whose migrations this code does not know, may overlap.      *)
(***************************************************************************)
EXTENDS Integers, FiniteSets

CONSTANTS
    Many,
    Expected,     \* the head of this release's migrations
    Newest,       \* the head of the newer release's
    Migrators     \* processes of this release

ASSUME SchemaAssumption == Expected \in Nat \ {0} /\ Newest \in Nat /\ Newest > Expected

VARIABLES
    revision,     \* what alembic_version holds
    reachable,    \* whether the database answers
    migrator

schemaVars == <<revision, reachable, migrator>>

\* The revisions this release knows, oldest first, lead to Expected.
IsAncestor(candidate) == candidate \in 1..Expected

CheckSchemaCompatibility ==
    CASE ~reachable -> "DATABASE_UNAVAILABLE"
      [] reachable /\ revision = 0 -> "SCHEMA_UNINITIALIZED"
      [] reachable /\ revision = Many -> "SCHEMA_AMBIGUOUS"
      [] OTHER -> CASE revision = Expected -> "COMPATIBLE"
                    [] revision # Expected /\ IsAncestor(revision) -> "SCHEMA_BEHIND"
                    [] OTHER -> "SCHEMA_AHEAD"

SafeToMigrateFrom == {"COMPATIBLE", "SCHEMA_BEHIND", "SCHEMA_UNINITIALIZED"}

\* /readiness
Ready == CheckSchemaCompatibility = "COMPATIBLE"

\* Mutant: whatever can be migrated from needs no migration.
NothingToDoWhenSafe(status) == status \in SafeToMigrateFrom

NothingToDo(status) == status = "COMPATIBLE"

---------------------------------------------------------------------------
SchemaInit ==
    /\ revision \in (0..Newest) \cup {Many}
    /\ reachable = TRUE
    /\ migrator = [p \in Migrators |-> [phase |-> "start"]]

Step(p, phase, to) ==
    /\ migrator[p].phase = phase
    /\ migrator' = [migrator EXCEPT ![p] = to]

End(exit) == [phase |-> "ended", exit |-> exit]

Preflight(p) ==
    /\ Step(p, "start", IF CheckSchemaCompatibility \in SafeToMigrateFrom
                        THEN [phase |-> "safe"] ELSE End(2))
    /\ UNCHANGED <<revision, reachable>>

CheckBefore(p) ==
    /\ Step(p, "safe", IF NothingToDo(CheckSchemaCompatibility) THEN End(0) ELSE [phase |-> "upgrading"])
    /\ UNCHANGED <<revision, reachable>>

\* alembic reads the revision for itself; one it does not know raises.
BeginUpgrade(p) ==
    /\ Step(p, "upgrading",
            CASE ~reachable \/ revision \notin 0..Expected -> End(2)
              [] reachable /\ revision = Expected -> [phase |-> "upgraded"]
              [] OTHER -> [phase |-> "migrating", from |-> revision])
    /\ UNCHANGED <<revision, reachable>>

\* One transaction for all migrations; it fails if another has migrated since, or
\* if a migration raises.
CommitUpgrade(p) ==
    /\ migrator[p].phase = "migrating"
    /\ IF reachable /\ revision = migrator[p].from
       THEN /\ migrator' = [migrator EXCEPT ![p] = [phase |-> "upgraded"]]
            /\ revision' = Expected
       ELSE /\ migrator' = [migrator EXCEPT ![p] = End(2)]
            /\ UNCHANGED revision
    /\ UNCHANGED reachable

FailUpgrade(p) ==
    /\ Step(p, "migrating", End(2))
    /\ UNCHANGED <<revision, reachable>>

CheckAfter(p) ==
    /\ Step(p, "upgraded", End(IF Ready THEN 0 ELSE 2))
    /\ UNCHANGED <<revision, reachable>>

\* External: the newer release migrates.
NewerRelease ==
    /\ reachable /\ revision \in 0..(Newest - 1)
    /\ revision' = Newest
    /\ UNCHANGED <<reachable, migrator>>

\* External: the database goes away and comes back.
Reach ==
    /\ reachable' = ~reachable
    /\ UNCHANGED <<revision, migrator>>

SchemaNext ==
    \/ \E p \in Migrators : \/ Preflight(p) \/ CheckBefore(p) \/ BeginUpgrade(p)
                            \/ CommitUpgrade(p) \/ FailUpgrade(p) \/ CheckAfter(p)
    \/ NewerRelease
    \/ Reach

---------------------------------------------------------------------------
\* operations/release.py:109: exit code 0 means that this release's schema has been
\* reached, whoever migrated; a migration only ever moves forward, to exactly the
\* expected head, never from a schema that is ahead or ambiguous.
ExitTellsTheSchema ==
    [][/\ \A p \in Migrators : (migrator'[p] = End(0) /\ migrator[p] # End(0)) =>
            revision' \in Expected..Newest
       /\ (revision' # revision /\ migrator' # migrator) =>
            revision \in 0..(Expected - 1) /\ revision' = Expected]_schemaVars
=============================================================================
