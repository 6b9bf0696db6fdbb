----------------------------- MODULE MCServices -----------------------------
EXTENDS Deployment

\* Two tabs of one browser are interchangeable.
Symmetry == Permutations(Tabs)

MCWindowStart(years) == IF years = 1 THEN 2 ELSE 0

Item(period, value) == [period |-> period, value |-> value]
Bls(status, cpi, jobs) ==
    [status |-> status, series |-> <<[id |-> "cpi", items |-> cpi], [id |-> "jobs", items |-> jobs]>>]

MCBlsBodies ==
    {Bls("REQUEST_SUCCEEDED", <<Item(2, 5), Item(Malformed, 9), Item(1, 4)>>, <<Item(2, Blank)>>),
     Bls("REQUEST_SUCCEEDED", <<Item(3, 6), Item(0, 2), Item(2, 7)>>, <<Item(2, 3)>>),
     Bls("REQUEST_SUCCEEDED", <<Item(2, 5), Item(2, 6)>>, <<>>),
     Bls("REQUEST_SUCCEEDED", <<Item(2, NotNumeric)>>, <<Item(1, 1)>>),
     Bls("REQUEST_NOT_PROCESSED", <<>>, <<>>)}

Row(id, period, value) == [id |-> id, period |-> period, value |-> value]
MCBeaBodies ==
    {[rows |-> <<Row("pce", 1, 4), Row("gdp", Malformed, 0), Row("pce", 2, 5)>>],
     [rows |-> <<Row("pce", 2, 6), Row("pce", 1, Blank)>>],
     [rows |-> <<Row("gdp", 1, 4)>>],
     Malformed}

Entry(period, values) == [period |-> period, values |-> values]
MCNominalBodies ==
    {[entries |-> <<Entry(3, [n2 |-> 4, n10 |-> 9]), Entry(1, [n2 |-> 5, n10 |-> NotNumeric]),
                    Entry(2, [n2 |-> 3, n10 |-> 8])>>],
     [entries |-> <<Entry(4, [n2 |-> 1, n10 |-> 5]), Entry(Blank, [n2 |-> 1]), Entry(3, [n2 |-> 4, n10 |-> 6]),
                    Entry(6, [n10 |-> 7])>>],
     Malformed}
MCRealBodies ==
    {[entries |-> <<Entry(2, [r10 |-> 3]), Entry(5, [r10 |-> 2]), Entry(6, [r10 |-> 2])>>],
     [entries |-> <<Entry(2, [r10 |-> 1]), Entry(2, [r10 |-> 2])>>],
     [entries |-> <<Entry(Blank, [r10 |-> 3])>>]}

Census(period, value) == [series |-> "starts", period |-> period, flag |-> "no", value |-> value]
MCCensusBodies ==
    {[rows |-> <<Census(1, 5), Census(3, 6), [Census(2, 5) EXCEPT !.flag = "yes"]>>],
     [rows |-> <<Census(4, 7), Census(3, 4), Malformed, Census(2, 8)>>],
     [rows |-> <<Census(5, NaN), Census(4, Blank), [Census(4, 3) EXCEPT !.flag = Blank]>>],
     [rows |-> <<Census(6, 1), Census(3, 6), [Census(1, 2) EXCEPT !.series = Blank]>>],
     [rows |-> <<Census(Malformed, 5)>>],
     [rows |-> <<Census(6, 1), Census(6, 2)>>],
     Malformed}

MCFredBodies ==
    {[observations |-> <<Item(2, 4), Item(1, Blank)>>], [observations |-> <<Item(2, 3)>>],
     [observations |-> <<Item(1, NotNumeric)>>]}

MCReleaseRows == {[series |-> "cpi", period |-> 2, value |-> 5], [series |-> "pce", period |-> 2, value |-> 9]}
MCSpreads == {[long |-> "n10", short |-> "n2"]}
MCCompensations == {[nominal |-> "n10", real |-> "r10"]}

MCStored ==
    {[a |-> 1 :> 4 @@ 3 :> 0 @@ 4 :> 5, b |-> 1 :> 2 @@ 2 :> Null @@ 3 :> 3],
     [a |-> 2 :> Null @@ 4 :> 6, b |-> 2 :> 7 @@ 3 :> 7 @@ 4 :> 8],
     [a |-> 1 :> 3 @@ 2 :> 5 @@ 3 :> 6 @@ 4 :> 2, b |-> 4 :> 1]}
MCArrivals == {[series |-> "a", date |-> 2, value |-> 9], [series |-> "a", date |-> 5, value |-> 1],
               [series |-> "b", date |-> 1, value |-> 6]}

MCReleaseDates == {{1, 3}, Failed}
MCCatalogs == {{}, {"gdp", "jobs"}, {"cpi", "gdp", "jobs"}}
MCSchedule == [cpi |-> {1, 2}, gdp |-> {1}]
=============================================================================
