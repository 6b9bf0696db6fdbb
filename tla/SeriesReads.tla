---------------------------- MODULE SeriesReads ----------------------------
(***************************************************************************)
(* What is read of stored series: one page after another of a range, while   *)
(* observations keep arriving; transformations of a range, which look back    *)
(* before its start; and the comparison of two series.                        *)
(***************************************************************************)
EXTENDS Values, Integers, Sequences, FiniteSets, SequencesExt

CONSTANTS
    ReadSeries,    \* two persisted series
    Stored,        \* what they may hold at first: functions of dates
    Arrivals,      \* [series, date, value]: what may be written meanwhile
    Starts, Ends,  \* bounds of the ranges asked for; Null is none
    Limits,        \* page sizes
    MovingWindows  \* windows of the moving average

\* Finitely many dates of a series, each with its value.
History(obs) ==
    /\ IsFiniteSet(DOMAIN obs) /\ DOMAIN obs \subseteq Int
    /\ obs = [d \in DOMAIN obs |-> obs[d]]

\* The routers take no limit below 1 and no window below 2.
ASSUME ReadsAssumption ==
    /\ \A base \in Stored : /\ base = [s \in ReadSeries |-> base[s]]
                            /\ \A s \in ReadSeries : History(base[s])
    /\ \A a \in Arrivals : a.series \in ReadSeries /\ a.date \in Int
    /\ Limits \subseteq Nat \ {0}
    /\ Starts \cup Ends \subseteq Int \cup {Null}
    /\ MovingWindows \subseteq Nat \ {0}

VARIABLES
    stored,    \* economic_observations, by series
    reader     \* a client that asks for page after page of a range

readVars == <<stored, reader>>

---------------------------------------------------------------------------
(* The repository *)

InRange(d, start, end) == (start = Null \/ start =< d) /\ (end = Null \/ d =< end)

Dated(obs, dates) ==
    [i \in 1..Cardinality(dates) |->
       LET d == CHOOSE x \in dates : Cardinality({y \in dates : y =< x}) = i
       IN  [date |-> d, value |-> obs[d]]]

ObservationsInRange(obs, start, end) ==
    Dated(obs, {d \in DOMAIN obs : InRange(d, start, end)})

\* The last count observations before a date, oldest first.
PrecedingObservations(obs, before, count) ==
    LET earlier == {d \in DOMAIN obs : d < before}
    IN  Dated(obs, {d \in earlier : Cardinality({e \in earlier : e > d}) < count})

Slice(seq, limit, offset) ==
    SubSeq(seq, offset + 1, IF offset + limit < Len(seq) THEN offset + limit ELSE Len(seq))

\* Mutant: a page is cut before it is ordered.
PageCutFirst(obs, ask, offset) ==
    LET all == ObservationsInRange(obs, ask.start, ask.end)
        page == Slice(all, ask.limit, offset)
    IN  [observations |-> IF ask.order = "asc" THEN page ELSE Reverse(page), total |-> Len(all)]

GetObservations(obs, ask, offset) ==
    LET all == ObservationsInRange(obs, ask.start, ask.end)
    IN  [observations |-> Slice(IF ask.order = "asc" THEN all ELSE Reverse(all), ask.limit, offset),
         total |-> Len(all)]

---------------------------------------------------------------------------
(* Transformations.  A change in percent is the pair of the change and what   *)
(* it is relative to, an average the pair of the sum and the number of terms. *)

\* The first of a sequence, and one next to no value, has no change.
AbsoluteChange(obs) ==
    [i \in DOMAIN obs |->
       [date |-> obs[i].date,
        value |-> IF i = 1 \/ Null \in {obs[i].value, obs[i - 1].value} THEN Null
                  ELSE obs[i].value - obs[i - 1].value]]

PercentChange(obs) ==
    [i \in DOMAIN obs |->
       [date |-> obs[i].date,
        value |-> IF i = 1 \/ Null \in {obs[i].value, obs[i - 1].value} \/ obs[i - 1].value = 0 THEN Null
                  ELSE <<obs[i].value - obs[i - 1].value, obs[i - 1].value>>]]

MovingAverage(obs, window) ==
    [i \in DOMAIN obs |->
       [date |-> obs[i].date,
        value |-> IF i < window \/ \E j \in (i - window + 1)..i : obs[j].value = Null THEN Null
                  ELSE <<FoldLeft(LAMBDA sum, o : sum + o.value, 0, SubSeq(obs, i - window + 1, i)),
                         window>>]]

Transformations ==
    {[type |-> "absolute_change", window |-> Null], [type |-> "percent_change", window |-> Null]}
    \cup {[type |-> "moving_average", window |-> w] : w \in MovingWindows}

Transform(obs, t) ==
    CASE t.type = "absolute_change" -> AbsoluteChange(obs)
      [] t.type = "percent_change"  -> PercentChange(obs)
      [] OTHER                      -> MovingAverage(obs, t.window)

\* Mutant: no more than the observation before the range is looked at.
OneBefore(t) == 1

ContextSize(t) == IF t.type = "moving_average" THEN t.window - 1 ELSE 1

\* The range with what its first values need before it, transformed, and the
\* context dropped.
GetTransformedObservations(obs, t, start, end) ==
    LET context == IF start = Null THEN <<>> ELSE PrecedingObservations(obs, start, ContextSize(t))
        combined == context \o ObservationsInRange(obs, start, end)
    IN  SubSeq(Transform(combined, t), Len(context) + 1, Len(combined))

---------------------------------------------------------------------------
(* Two series *)

AlignSeries(a, b) ==
    LET dates(s) == {s[i].date : i \in DOMAIN s}
        value(s, d) == (CHOOSE i \in DOMAIN s : s[i].date = d)
        common == dates(a) \cap dates(b)
        at(d) == [date |-> d, value_a |-> a[value(a, d)].value, value_b |-> b[value(b, d)].value]
    IN  [i \in 1..Cardinality(common) |->
           at(CHOOSE d \in common : Cardinality({e \in common : e =< d}) = i)]

CalculateSpread(aligned) ==
    [i \in DOMAIN aligned |->
       [date |-> aligned[i].date,
        spread |-> IF Null \in {aligned[i].value_a, aligned[i].value_b} THEN Null
                   ELSE aligned[i].value_a - aligned[i].value_b]]

UsablePairs(aligned) == SelectSeq(aligned, LAMBDA p : Null \notin {p.value_a, p.value_b})

\* Whether a correlation is given: two pairs, and neither side constant.
Correlated(aligned) ==
    LET usable == UsablePairs(aligned)
    IN  /\ \E i, j \in DOMAIN usable : usable[i].value_a # usable[j].value_a
        /\ \E i, j \in DOMAIN usable : usable[i].value_b # usable[j].value_b

Compared(aligned, analysis) ==
    [matching |-> Len(aligned), usable |-> Len(UsablePairs(aligned)),
     correlated |-> analysis = "correlation" /\ Correlated(aligned),
     observations |-> CASE analysis = "spread"      -> CalculateSpread(aligned)
                        [] analysis = "correlation" -> <<>>
                        [] OTHER                    -> aligned]

CompareSeries(a, b, analysis, start, end) ==
    Compared(AlignSeries(ObservationsInRange(a, start, end), ObservationsInRange(b, start, end)), analysis)

ResolveObservations(obs, t, start, end) ==
    IF t = Null THEN ObservationsInRange(obs, start, end)
    ELSE GetTransformedObservations(obs, t, start, end)

Pipeline(a, ta, b, tb, analysis, start, end) ==
    Compared(AlignSeries(ResolveObservations(a, ta, start, end), ResolveObservations(b, tb, start, end)),
             analysis)

---------------------------------------------------------------------------
(* A client that pages through a range, and a sync that keeps writing *)

ReadInit ==
    /\ stored \in Stored
    /\ reader = [phase |-> "idle"]

\* The client starts with what is stored now.
AskFirst(series) ==
    /\ reader.phase = "idle"
    /\ \E start \in Starts, end \in Ends, limit \in Limits, order \in {"asc", "desc"} :
         /\ (start # Null /\ end # Null) => start =< end
         /\ reader' = [phase |-> "reading", series |-> series,
                       ask |-> [start |-> start, end |-> end, limit |-> limit, order |-> order],
                       given |-> <<>>, offset |-> 0, first |-> stored[series], grew |-> FALSE]
    /\ UNCHANGED stored

\* One request; the client stops at the total it was told.
AskPage ==
    /\ reader.phase = "reading"
    /\ LET page == GetObservations(stored[reader.series], reader.ask, reader.offset)
           next == reader.offset + Len(page.observations)
       IN  reader' = [reader EXCEPT !.given = @ \o page.observations, !.offset = next,
                                    !.phase = IF next >= page.total THEN "done" ELSE @]
    /\ UNCHANGED stored

Arrive(a) ==
    /\ reader.phase = "reading"
    /\ a.date \notin DOMAIN stored[a.series]
    /\ stored' = [stored EXCEPT ![a.series] =
                    [d \in DOMAIN @ \cup {a.date} |-> IF d = a.date THEN a.value ELSE @[d]]]
    /\ reader' = [reader EXCEPT !.grew = @ \/ a.series = reader.series]

ReadNext ==
    \/ \E series \in ReadSeries : AskFirst(series)
    \/ AskPage
    \/ \E a \in Arrivals : Arrive(a)

---------------------------------------------------------------------------
(* Properties *)

\* series_repository.py:155: rows are only ever added, so paging by offset, in
\* either order, skips no observation that was there at the start, even if others
\* arrive between two pages.  Each arrival may have one given twice, but no more
\* are given than the range holds in the end, and nothing it does not hold; if
\* none arrives, the pages are the range, once, in the order asked for.
PagesSkipNothing ==
    reader.phase = "done" =>
        LET asked == ObservationsInRange(reader.first, reader.ask.start, reader.ask.end)
            held == ObservationsInRange(stored[reader.series], reader.ask.start, reader.ask.end)
        IN  /\ \A i \in DOMAIN asked : \E k \in DOMAIN reader.given : reader.given[k] = asked[i]
            /\ Len(reader.given) = Len(held)
            /\ \A k \in DOMAIN reader.given : \E i \in DOMAIN held : reader.given[k] = held[i]
            /\ ~reader.grew =>
                 reader.given = IF reader.ask.order = "asc" THEN asked ELSE Reverse(asked)

\* economic_data.py:168 and analysis.py:223: the answer for a range is the answer
\* for the whole history, restricted to it: what a date is told does not depend on
\* the range it was asked in.  A pipeline without transformations is a comparison.
TransformsDoNotDependOnTheRange ==
    reader.phase = "idle" =>
        \A start \in Starts, end \in Ends :
            /\ \A series \in ReadSeries, t \in Transformations :
                 LET whole == GetTransformedObservations(stored[series], t, Null, Null)
                 IN  GetTransformedObservations(stored[series], t, start, end)
                       = Selected(whole, {i \in DOMAIN whole : InRange(whole[i].date, start, end)})
            /\ \A a, b \in ReadSeries, analysis \in {"aligned", "spread", "correlation"} :
                 Pipeline(stored[a], Null, stored[b], Null, analysis, start, end)
                   = CompareSeries(stored[a], stored[b], analysis, start, end)
=============================================================================
