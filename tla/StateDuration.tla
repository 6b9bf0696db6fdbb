---------------------------- MODULE StateDuration ----------------------------
(***************************************************************************)
(* How long a monitor has been in its present state: the walk back from the *)
(* anchor month over the states reconstructed from today's revised data.    *)
(* state[k] is the state k months before the anchor.                        *)
(***************************************************************************)
EXTENDS LaborMonitor

CONSTANT Lookback   \* _STATE_DURATION_LOOKBACK_BOUND_MONTHS

ASSUME LookbackAssumption == Lookback \in Nat \ {0, 1}

Insufficient == "INSUFFICIENT_DATA"

\* Mutant: the walk stops at the oldest point that differs.
LastDifference(state) ==
    LET differing == {k \in 1..(Lookback - 1) : state[k] # state[0]}
    IN  IF differing = {} THEN Lookback
        ELSE CHOOSE k \in differing : \A j \in differing : j =< k

\* The first point the walk stops at: one that differs from the current
\* state, or Lookback when every point it may look at agrees.
FirstDifference(state) ==
    LET differing == {k \in 1..(Lookback - 1) : state[k] # state[0]}
    IN  IF differing = {} THEN Lookback
        ELSE CHOOSE k \in differing : \A j \in differing : k =< j

EvaluateStateDuration(state, anchor) ==
    LET k == FirstDifference(state)
        boundary == CASE k = Lookback -> "LOOKBACK_BOUNDED"
                      [] k < Lookback /\ state[k] = Insufficient -> "DATA_BOUNDED"
                      [] OTHER -> "EXACT"
    IN  [duration_months |-> k,
         earliest_confirmed_period |-> MonthBefore(anchor, k - 1),
         boundary_type |-> boundary,
         previous_state |-> IF boundary = "EXACT" THEN state[k] ELSE Null,
         previous_period |-> IF boundary = "EXACT" THEN MonthBefore(anchor, k) ELSE Null]

InflationStateBack(obs, anchor) ==
    [k \in 0..(Lookback - 1) |-> SeriesMomentumAt(obs, MonthBefore(anchor, k)).state]

LaborStateBack(payems, unrate, anchor) ==
    [k \in 0..(Lookback - 1) |-> LaborResultAt(payems, unrate, MonthBefore(anchor, k)).state]

\* Null stands for the CURRENT_INSUFFICIENT answer.
InflationStateDuration(obs) ==
    LET current == SeriesMomentum(obs)
        anchor == current.calculation_period
    IN  IF current.state = Insufficient \/ anchor = Null THEN Null
        ELSE [state |-> current.state, evaluation_period |-> anchor,
              evaluation |-> EvaluateStateDuration(InflationStateBack(obs, anchor), anchor)]

LaborStateDuration(payems, unrate) ==
    LET current == LaborResult(payems, unrate)
        anchor == current.evaluation_period
    IN  IF current.state = Insufficient \/ anchor = Null THEN Null
        ELSE [state |-> current.state, evaluation_period |-> anchor,
              evaluation |-> EvaluateStateDuration(LaborStateBack(payems, unrate, anchor), anchor)]
=============================================================================
