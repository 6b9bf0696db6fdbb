------------------------------ MODULE Services ------------------------------
(***************************************************************************)
(* The parts of the system that share no state while they run, side by side: *)
(* `part` says which of them a behaviour is about; the others rest in a       *)
(* state they may start in.                                                  *)
(***************************************************************************)
EXTENDS Ingestion, SeriesReads, ProviderCall, RequestProtection, MaintenanceHealth,
        SchemaGate, ReleaseCalendar

VARIABLE part

vars == <<part, ingestionVars, readVars, call, limiterVars, healthVars, schemaVars, calendarVars>>

\* A part that may start in several states starts in one of them when it rests; the
\* series store is empty and unread then.
Init ==
    /\ part \in {"first-party", "rates", "housing", "reads", "provider", "limiter", "gate", "health",
                 "schema", "calendar"}
    /\ IngestionInit /\ CallInit /\ LimiterInit /\ HealthInit /\ SchemaInit /\ CalendarInit
    /\ IF part = "reads" THEN ReadInit
       ELSE stored = [s \in ReadSeries |-> <<>>] /\ reader = [phase |-> "none"]
    /\ part # "provider" => call.client = "fred"
    /\ part # "schema" => revision = Expected
    /\ part # "calendar" => active = {}

Next ==
    /\ UNCHANGED part
    /\ \/ /\ \/ part = "first-party" /\ FirstPartyNext
             \/ part = "rates" /\ RatesNext
             \/ part = "housing" /\ HousingNext
          /\ UNCHANGED <<readVars, call, limiterVars, healthVars, schemaVars, calendarVars>>
       \/ /\ part = "reads" /\ ReadNext
          /\ UNCHANGED <<ingestionVars, call, limiterVars, healthVars, schemaVars, calendarVars>>
       \/ /\ part = "provider" /\ CallNext
          /\ UNCHANGED <<ingestionVars, readVars, limiterVars, healthVars, schemaVars, calendarVars>>
       \/ /\ \/ part = "limiter" /\ LimiterNext
             \/ part = "gate" /\ GateNext
          /\ UNCHANGED <<ingestionVars, readVars, call, healthVars, schemaVars, calendarVars>>
       \/ /\ part = "health" /\ HealthNext
          /\ UNCHANGED <<ingestionVars, readVars, call, limiterVars, schemaVars, calendarVars>>
       \/ /\ part = "schema" /\ SchemaNext
          /\ UNCHANGED <<ingestionVars, readVars, call, limiterVars, healthVars, calendarVars>>
       \/ /\ part = "calendar" /\ CalendarNext
          /\ UNCHANGED <<ingestionVars, readVars, call, limiterVars, healthVars, schemaVars>>

Spec == Init /\ [][Next]_vars
=============================================================================
