---------------------------- MODULE WhatChanged ----------------------------
(***************************************************************************)
(* inflation_what_changed_v1.0 and labor_what_changed_v1.0: two results of  *)
(* one monitor compared field by field into change events, with no formula  *)
(* of its own.  The same comparators serve the month-over-month pages and   *)
(* the before/after diff of a release check.                                *)
(***************************************************************************)
EXTENDS LaborMonitor, AffectedPeriods, Sequences

\* Frozen orders: components, event types, fields.
ComponentOrder ==
    <<"PRIMARY_MOMENTUM", "CONFIRMATION", "TARGET", "HEADLINE_PCE", "HEADLINE_CPI">>
LaborComponentOrder == <<"LABOR", "EMPLOYMENT", "UNEMPLOYMENT">>
EventTypeOrder ==
    <<"STATE_CHANGED", "CONFIRMATION_CHANGED", "AVAILABILITY_LOST",
      "AVAILABILITY_RESTORED", "METRIC_CHANGED">>
FieldOrder ==
    <<"state", "relationship", "r_1m_annualized", "r_3m_annualized", "r_6m_annualized",
      "r_12m", "headline_pce_yoy", "target_gap_pp">>
LaborFieldOrder ==
    <<"state", "condition", "momentum", "current_3m_avg_jobs", "prior_3m_avg_jobs",
      "momentum_delta_jobs", "current_3m_avg", "prior_year_3m_avg", "delta_pp">>

AvailabilityTypes == {"AVAILABILITY_LOST", "AVAILABILITY_RESTORED"}

Index(seq, x) == CHOOSE i \in 1..Len(seq) : seq[i] = x

\* The position of an event in the frozen order, as one number.
SortKey(event) ==
    LET labor == event.component \in {LaborComponentOrder[i] : i \in 1..3}
    IN  100 * Index(IF labor THEN LaborComponentOrder ELSE ComponentOrder, event.component)
        + 10 * Index(EventTypeOrder, event.event_type)
        + Index(IF labor THEN LaborFieldOrder ELSE FieldOrder, event.field)

SortEvents(events) ==
    [i \in 1..Cardinality(events) |->
        CHOOSE e \in events : Cardinality({f \in events : SortKey(f) < SortKey(e)}) = i - 1]

\* A value is tagged with its field: a state and a metric are never compared.
Event(component, type, field, previous, current, periods) ==
    [component |-> component, event_type |-> type, field |-> field,
     previous_value |-> <<field, previous>>, current_value |-> <<field, current>>,
     previous_period |-> periods[1], current_period |-> periods[2]]

---------------------------------------------------------------------------
(* One field.  missing is the value that stands for "not available": Null   *)
(* of a metric, INSUFFICIENT_DATA of a state.                               *)

FieldEvents(component, field, type, missing, previous, current, periods) ==
    LET at(t) == {Event(component, t, field, previous, current, periods)}
    IN  CASE previous # missing /\ current # missing ->
               IF previous # current THEN at(type) ELSE {}
          [] previous # missing /\ current = missing -> at("AVAILABILITY_LOST")
          [] previous = missing /\ current # missing -> at("AVAILABILITY_RESTORED")
          [] OTHER -> {}

MetricEvents(component, field, previous, current, periods) ==
    FieldEvents(component, field, "METRIC_CHANGED", Null, previous, current, periods)

StateEvents(component, field, previous, current, periods) ==
    FieldEvents(component, field, "STATE_CHANGED", "INSUFFICIENT_DATA", previous, current, periods)

\* A relationship that becomes unavailable has both changed and been lost.
RelationshipEvents(previous, current, periods) ==
    LET at(t) == Event("CONFIRMATION", t, "relationship", previous, current, periods)
    IN  {at(t) : t \in
           {u \in {"CONFIRMATION_CHANGED"} : previous # current}
           \cup {u \in {"AVAILABILITY_LOST"} : previous # "UNAVAILABLE" /\ current = "UNAVAILABLE"}
           \cup {u \in {"AVAILABILITY_RESTORED"} : previous = "UNAVAILABLE" /\ current # "UNAVAILABLE"}}

---------------------------------------------------------------------------
(* Sections.  periods is <<previous, current>>; no current period means     *)
(* there is nothing to compare.                                             *)

MomentumFields ==
    [r_1m_annualized |-> 1, r_3m_annualized |-> 3, r_6m_annualized |-> 6, r_12m |-> 12]

MomentumEvents(component, previous, current, periods) ==
    IF periods[2] = Null THEN {}
    ELSE StateEvents(component, "state", previous.state, current.state, periods)
         \cup UNION {MetricEvents(component, f, previous.rates[MomentumFields[f]],
                                  current.rates[MomentumFields[f]], periods) :
                       f \in DOMAIN MomentumFields}

TargetEvents(previous, current, periods) ==
    IF periods[2] = Null THEN {}
    ELSE UNION {MetricEvents("TARGET", f, previous[f], current[f], periods) :
                  f \in {"headline_pce_yoy", "target_gap_pp"}}

ConfirmationEvents(previous, current, periods) ==
    IF periods[2] = Null THEN {}
    ELSE RelationshipEvents(previous.relationship, current.relationship, periods)

EmploymentEvents(previous, current, periods) ==
    (UNION {StateEvents("EMPLOYMENT", f, previous[f], current[f], periods) :
              f \in {"state", "condition", "momentum"}})
    \cup (UNION {MetricEvents("EMPLOYMENT", f, previous[f], current[f], periods) :
                   f \in {"current_3m_avg_jobs", "prior_3m_avg_jobs", "momentum_delta_jobs"}})

UnemploymentEvents(previous, current, periods) ==
    StateEvents("UNEMPLOYMENT", "state", previous.state, current.state, periods)
    \cup UNION {MetricEvents("UNEMPLOYMENT", f, previous[f], current[f], periods) :
                  f \in {"current_3m_avg", "prior_year_3m_avg", "delta_pp"}}

LaborStateEvents(previous, current, periods) ==
    StateEvents("LABOR", "state", previous, current, periods)

LaborEvents(previous, current, periods) ==
    LaborStateEvents(previous.state, current.state, periods)
    \cup EmploymentEvents(previous.employment, current.employment, periods)
    \cup UnemploymentEvents(previous.unemployment, current.unemployment, periods)

---------------------------------------------------------------------------
(* The two What Changed results *)

Has(events, types) == \E e \in events : e.event_type \in types

Pair(side) == <<side.previous_period, side.current_period>>

\* The sections flattened into one ordered list, and the summary flags.
AssembleInflation(momentum, target, confirmation) ==
    LET events == momentum \cup target \cup confirmation
    IN  [changes |-> SortEvents(events),
         any_metric_changed |-> Has(momentum \cup target, {"METRIC_CHANGED"}),
         any_state_changed |-> Has(momentum, {"STATE_CHANGED"}),
         any_availability_changed |-> Has(events, AvailabilityTypes),
         confirmation_changed |-> Has(confirmation, {"CONFIRMATION_CHANGED"})]

\* The sides are those of InflationMonitor's MonthOverMonth operators: of the
\* primary series, the confirmation, the target and the two headline series.
InflationWhatChanged(p, c, t, hp, hc) ==
    AssembleInflation(MomentumEvents("PRIMARY_MOMENTUM", p.previous, p.current, Pair(p))
                        \cup MomentumEvents("HEADLINE_PCE", hp.previous, hp.current, Pair(hp))
                        \cup MomentumEvents("HEADLINE_CPI", hc.previous, hc.current, Pair(hc)),
                      TargetEvents(t.previous, t.current, Pair(t)),
                      ConfirmationEvents(c.previous, c.current, Pair(c)))

\* any_state_changed counts every event of the labor state, a lost or
\* restored one included, and of employment only the field "state".
AssembleLabor(comparisonAvailable, state, employment, unemployment) ==
    LET events == state \cup employment \cup unemployment
    IN  [comparison_available |-> comparisonAvailable,
         changes |-> SortEvents(events),
         any_state_changed |-> \/ state # {}
                               \/ Has({e \in employment : e.field = "state"}, {"STATE_CHANGED"})
                               \/ Has(unemployment, {"STATE_CHANGED"}),
         any_metric_changed |-> Has(employment \cup unemployment, {"METRIC_CHANGED"}),
         any_availability_changed |-> Has(events, AvailabilityTypes)]

\* m is MonthOverMonthLabor's two sides.
LaborWhatChanged(m) ==
    AssembleLabor(m.current_period # Null,
                  LaborStateEvents(m.previous.state, m.current.state, Pair(m)),
                  EmploymentEvents(m.previous.employment, m.current.employment, Pair(m)),
                  UnemploymentEvents(m.previous.unemployment, m.current.unemployment, Pair(m)))
=============================================================================
