-------------------------- MODULE AffectedPeriods --------------------------
(***************************************************************************)
(* Which evaluation periods a check has to look at again, given the dates   *)
(* at which a series got a new or a revised observation.                    *)
(***************************************************************************)
EXTENDS Integers

AddMonths(period, months) == period + months

\* Mutant: the one-month rate is forgotten.
AffectedUnderlyingHorizons == {0, 3, 6, 12}

AffectedHorizons == {0, 1, 3, 6, 12}
PayemsAffectedHorizons == {0, 3, 6}
UnrateAffectedHorizons == {0, 1, 2, 12, 13, 14}

LaborSeries == {"PAYEMS", "UNRATE"}
InflationSeries == {"PCEPILFE", "CPILFESL", "PCEPI", "CPIAUCSL"}

ComponentsForSeries(series) ==
    CASE series = "PCEPILFE" -> {"PRIMARY_MOMENTUM", "CONFIRMATION"}
      [] series = "CPILFESL" -> {"CONFIRMATION"}
      [] series = "PCEPI"    -> {"TARGET", "HEADLINE_PCE"}
      [] series = "CPIAUCSL" -> {"HEADLINE_CPI"}
      [] OTHER               -> {}

\* Mutant: an observation held without a value counts as not yet held.
ClassifyMissingAsNew(existedBefore, previous, new) ==
    CASE ~existedBefore \/ (previous \notin Int /\ previous # new) -> "NEW"
      [] existedBefore /\ previous = new                            -> "UNCHANGED"
      [] existedBefore /\ previous \in Int /\ previous # new        -> "REVISED"

\* A value moving to or from a missing one is a revision.
ClassifyObservationChange(existedBefore, previous, new) ==
    CASE ~existedBefore                      -> "NEW"
      [] existedBefore /\ previous = new     -> "UNCHANGED"
      [] existedBefore /\ previous # new     -> "REVISED"

\* A changed date is always affected; a later one only if it is observed.
AffectedEvaluationPeriods(changed, datesAfter) ==
    changed \cup {p \in {AddMonths(d, k) : d \in changed, k \in AffectedHorizons \ {0}} :
                    p \in datesAfter}

\* Labor's periods are not filtered by what has been observed.
PayemsAffectedPeriods(changed) ==
    {AddMonths(d, k) : d \in changed, k \in PayemsAffectedHorizons}
UnrateAffectedPeriods(changed) ==
    {AddMonths(d, k) : d \in changed, k \in UnrateAffectedHorizons}

LaborAffectedPeriods(payemsChanged, unrateChanged) ==
    PayemsAffectedPeriods(payemsChanged) \cup UnrateAffectedPeriods(unrateChanged)
=============================================================================
