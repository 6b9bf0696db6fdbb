------------------------- MODULE SystemTimeHistory -------------------------
(***************************************************************************)
(* What observation_versions promises its readers, without rows, locks or  *)
(* transactions: for every observation an append-only account of the       *)
(* values MacroChipz held and the instant from which it held each one.     *)
(* ObservationStore implements this module.                                *)
(***************************************************************************)
EXTENDS Naturals

CONSTANTS Obs,      \* observations: a (series, observation date) each
          Values    \* stored values; the missing value is one of them

VARIABLE history    \* [Obs -> set of entries]: when a value began to be held

Entry == [at : Nat, value : Values]

TypeOK == history \in [Obs -> SUBSET Entry]

\* A database starts empty of an observation, or with the one value that
\* the migration found in the current-state cache.
Init ==
    history \in [Obs -> {{}} \cup {{[at |-> 0, value |-> v]} : v \in Values}]

\* A transaction commits: of each observation it has at most one piece of
\* news, later than everything recorded of that observation; nothing that
\* was recorded is dropped or altered.
Record ==
    /\ history' \in [Obs -> SUBSET Entry]
    /\ \A o \in Obs :
          /\ history[o] \subseteq history'[o]
          /\ \A n \in history'[o] \ history[o] :
                \A e \in history'[o] \ {n} : e.at < n.at

Spec == Init /\ [][Record]_history

---------------------------------------------------------------------------
\* The entry in force at an instant: the last one recorded by then.
InForce(o, t) ==
    LET recorded == {e \in history[o] : e.at <= t}
    IN  {e \in recorded : \A f \in recorded : f.at <= e.at}
=============================================================================
