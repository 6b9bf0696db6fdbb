-------------------------- MODULE StoredDataProofs --------------------------
(***************************************************************************)
(* Theorems about what is stored and read: pages of a range that grows, and   *)
(* transformations of a range.                                               *)
(***************************************************************************)
EXTENDS Services, FiniteSetTheorems, SequenceTheorems, TLAPS

---------------------------------------------------------------------------
(* Ranks and dates *)

LEMMA ReadSteps ==
    Spec => ((ReadInit \/ (stored = [s \in ReadSeries |-> <<>>] /\ reader = [phase |-> "none"]))
             /\ [][ReadNext]_readVars)
<1>1. Init => ReadInit \/ (stored = [s \in ReadSeries |-> <<>>] /\ reader = [phase |-> "none"])
  BY DEF Init
<1>2. [Next]_vars => [ReadNext]_readVars
  BY DEF Next, vars, readVars
<1> QED  BY <1>1, <1>2, PTL DEF Spec

\* The rank of an element in an order.
RankBy(S, R, d) == Cardinality({y \in S : <<y, d>> \in R})

Orders(S, R) ==
    /\ \A d \in S : <<d, d>> \in R
    /\ \A d, e \in S : d # e => (<<d, e>> \in R <=> <<e, d>> \notin R)
    /\ \A c, d, e \in S : <<c, d>> \in R /\ <<d, e>> \in R => <<c, e>> \in R

LEMMA Ranked ==
    ASSUME NEW S, IsFiniteSet(S), NEW R, Orders(S, R)
    PROVE  /\ Cardinality(S) \in Nat
           /\ \A d \in S : RankBy(S, R, d) \in 1..Cardinality(S)
           /\ \A d, e \in S : d # e /\ <<d, e>> \in R => RankBy(S, R, d) < RankBy(S, R, e)
           /\ \A i \in 1..Cardinality(S) : \E d \in S : RankBy(S, R, d) = i
<1> DEFINE n == Cardinality(S)
           below(d) == {y \in S : <<y, d>> \in R}
           rank == [d \in S |-> RankBy(S, R, d)]
<1>1. n \in Nat
  BY FS_CardinalityType
<1>2. \A d \in S : IsFiniteSet(below(d)) /\ RankBy(S, R, d) \in Nat /\ RankBy(S, R, d) =< n
  <2> SUFFICES ASSUME NEW d \in S
               PROVE  IsFiniteSet(below(d)) /\ RankBy(S, R, d) \in Nat /\ RankBy(S, R, d) =< n
    OBVIOUS
  <2>1. below(d) \in SUBSET S
    OBVIOUS
  <2>2. IsFiniteSet(below(d)) /\ Cardinality(below(d)) =< n
    BY <2>1, FS_Subset
  <2> QED  BY <2>2, FS_CardinalityType DEF RankBy
<1>3. \A d, e \in S : d # e /\ <<d, e>> \in R => RankBy(S, R, d) < RankBy(S, R, e)
  <2> SUFFICES ASSUME NEW d \in S, NEW e \in S, d # e, <<d, e>> \in R
               PROVE  RankBy(S, R, d) < RankBy(S, R, e)
    OBVIOUS
  <2>1. below(d) \in SUBSET below(e) /\ e \in below(e) /\ e \notin below(d)
    BY DEF Orders
  <2>2. IsFiniteSet(below(e)) /\ RankBy(S, R, d) \in Nat /\ RankBy(S, R, e) \in Nat
    BY <1>2
  <2>3. /\ Cardinality(below(d)) =< Cardinality(below(e))
        /\ Cardinality(below(e)) = Cardinality(below(d)) => below(e) = below(d)
    <3> HIDE DEF below
    <3> QED  BY <2>1, <2>2, FS_Subset
  <2>4. Cardinality(below(e)) # Cardinality(below(d))
    <3> HIDE DEF below
    <3> QED  BY <2>1, <2>3
  <2> QED  BY <2>2, <2>3, <2>4 DEF RankBy
<1>4. ASSUME NEW d \in S PROVE RankBy(S, R, d) \in 1..n
  <2>1. d \in below(d) /\ IsFiniteSet(below(d))
    BY <1>2 DEF Orders
  <2>2. Cardinality(below(d)) # 0
    <3> HIDE DEF below
    <3> QED  BY <2>1, FS_EmptySet
  <2>3. RankBy(S, R, d) \in Nat /\ RankBy(S, R, d) =< n /\ RankBy(S, R, d) # 0
    BY <1>2, <2>2 DEF RankBy
  <2> HIDE DEF n
  <2> QED  BY <1>1, <2>3
<1>5. IsFiniteSet(1..n) /\ Cardinality(1..n) = n
  <2>1. 1 \in Int /\ n \in Int
    BY <1>1
  <2>2. IsFiniteSet(1..n) /\ Cardinality(1..n) = IF 1 > n THEN 0 ELSE n - 1 + 1
    BY <2>1, FS_Interval
  <2> HIDE DEF n
  <2> QED  BY <1>1, <2>2
<1>6. rank \in Injection(S, 1..n)
  <2>1. rank \in [S -> 1..n]
    BY <1>4
  <2>2. \A d, e \in S : rank[d] = rank[e] => d = e
    <3> SUFFICES ASSUME NEW d \in S, NEW e \in S, rank[d] = rank[e], d # e PROVE FALSE
      OBVIOUS
    <3>1. <<d, e>> \in R \/ <<e, d>> \in R
      BY DEF Orders
    <3>2. RankBy(S, R, d) = RankBy(S, R, e)
      OBVIOUS
    <3>3. RankBy(S, R, d) \in Nat /\ RankBy(S, R, e) \in Nat
      BY <1>2
    <3> QED  BY <1>3, <3>1, <3>2, <3>3
  <2> HIDE DEF rank
  <2> QED  BY <2>1, <2>2 DEF Injection, IsInjective
<1>7. rank \in Surjection(S, 1..n)
  <2> HIDE DEF rank, n
  <2> QED  BY <1>5, <1>6, FS_Injection DEF n
<1>8. \A i \in 1..n : \E d \in S : rank[d] = i
  <2> HIDE DEF rank
  <2> QED  BY <1>7 DEF Surjection
<1> QED  BY <1>1, <1>3, <1>4, <1>8

\* The rank of a date among others.
RankIn(S, d) == Cardinality({y \in S : y =< d})

LEMMA RankedDates ==
    ASSUME NEW S, IsFiniteSet(S), S \subseteq Int
    PROVE  /\ Cardinality(S) \in Nat
           /\ \A d \in S : RankIn(S, d) \in 1..Cardinality(S)
           /\ \A d, e \in S : d < e => RankIn(S, d) < RankIn(S, e)
           /\ \A i \in 1..Cardinality(S) : \E d \in S : RankIn(S, d) = i
<1> DEFINE R == {pair \in S \X S : pair[1] =< pair[2]}
<1>1. \A d, e \in S : /\ <<d, e>> \in R <=> d =< e
                      /\ d < e => d # e /\ d =< e
  OBVIOUS
<1>2. Orders(S, R)
  BY DEF Orders
<1>3. \A d \in S : RankBy(S, R, d) = RankIn(S, d)
  <2> SUFFICES ASSUME NEW d \in S PROVE {y \in S : <<y, d>> \in R} = {y \in S : y =< d}
    BY DEF RankBy, RankIn
  <2> QED  BY <1>1
<1> HIDE DEF R
<1>4. /\ Cardinality(S) \in Nat
      /\ \A d \in S : RankBy(S, R, d) \in 1..Cardinality(S)
      /\ \A d, e \in S : d # e /\ <<d, e>> \in R => RankBy(S, R, d) < RankBy(S, R, e)
      /\ \A i \in 1..Cardinality(S) : \E d \in S : RankBy(S, R, d) = i
  BY <1>2, Ranked
<1>5. \A d \in S : RankIn(S, d) \in 1..Cardinality(S)
  BY <1>3, <1>4
<1>6. \A d, e \in S : d < e => RankIn(S, d) < RankIn(S, e)
  <2> SUFFICES ASSUME NEW d \in S, NEW e \in S, d < e PROVE RankIn(S, d) < RankIn(S, e)
    OBVIOUS
  <2>1. d # e /\ <<d, e>> \in R
    BY <1>1
  <2>2. RankBy(S, R, d) < RankBy(S, R, e)
    BY <1>4, <2>1
  <2> QED  BY <1>3, <2>2
<1>7. \A i \in 1..Cardinality(S) : \E d \in S : RankIn(S, d) = i
  BY <1>3, <1>4
<1> QED  BY <1>4, <1>5, <1>6, <1>7

Entry(obs, d) == [date |-> d, value |-> obs[d]]

LEMMA DatedInOrder ==
    ASSUME NEW obs, NEW S, IsFiniteSet(S), S \subseteq Int
    PROVE  /\ Dated(obs, S) \in Seq({Entry(obs, d) : d \in S})
           /\ Len(Dated(obs, S)) = Cardinality(S)
           /\ \A d \in S : Dated(obs, S)[RankIn(S, d)] = Entry(obs, d)
<1> DEFINE n == Cardinality(S)
           T == {Entry(obs, d) : d \in S}
           dateAt(i) == CHOOSE x \in S : Cardinality({y \in S : y =< x}) = i
<1>1. /\ n \in Nat
      /\ \A d \in S : RankIn(S, d) \in 1..n
      /\ \A d, e \in S : d < e => RankIn(S, d) < RankIn(S, e)
      /\ \A i \in 1..n : \E d \in S : RankIn(S, d) = i
  BY RankedDates
<1>2. \A i \in 1..n : dateAt(i) \in S /\ RankIn(S, dateAt(i)) = i
  BY <1>1 DEF RankIn
<1>3. Dated(obs, S) = [i \in 1..n |-> Entry(obs, dateAt(i))]
  BY DEF Dated, Entry
<1> HIDE DEF dateAt
<1>4. \A d \in S : dateAt(RankIn(S, d)) = d
  <2> SUFFICES ASSUME NEW d \in S, dateAt(RankIn(S, d)) # d PROVE FALSE
    OBVIOUS
  <2> DEFINE e == dateAt(RankIn(S, d))
  <2>1. e \in S /\ RankIn(S, e) = RankIn(S, d) /\ RankIn(S, d) \in Nat
    <3> HIDE DEF n
    <3> QED  BY <1>1, <1>2
  <2>2. e \in Int /\ d \in Int /\ e # d
    BY <2>1
  <2>3. e < d \/ d < e
    <3> HIDE DEF e
    <3> QED  BY <2>2
  <2> HIDE DEF e
  <2> QED  BY <1>1, <2>1, <2>3
<1> HIDE DEF n
<1>5. Dated(obs, S) \in [1..n -> T]
  BY <1>2, <1>3
<1>6. Dated(obs, S) \in Seq(T) /\ Len(Dated(obs, S)) = n
  BY <1>1, <1>5
<1>7. \A d \in S : Dated(obs, S)[RankIn(S, d)] = Entry(obs, d)
  BY <1>1, <1>3, <1>4
<1> QED  BY <1>6, <1>7 DEF n

---------------------------------------------------------------------------
AskedDates(obs, ask) == {d \in DOMAIN obs : InRange(d, ask.start, ask.end)}

\* The range in the order asked for, and where a date is in it.
Ordered(obs, ask) ==
    IF ask.order = "asc" THEN ObservationsInRange(obs, ask.start, ask.end)
    ELSE Reverse(ObservationsInRange(obs, ask.start, ask.end))

Place(obs, ask, d) ==
    IF ask.order = "asc" THEN RankIn(AskedDates(obs, ask), d)
    ELSE Cardinality(AskedDates(obs, ask)) - RankIn(AskedDates(obs, ask), d) + 1

LEMMA RangeInOrder ==
    ASSUME NEW obs, History(obs), NEW ask
    PROVE  /\ Ordered(obs, ask) \in Seq({Entry(obs, d) : d \in AskedDates(obs, ask)})
           /\ Len(Ordered(obs, ask)) = Len(ObservationsInRange(obs, ask.start, ask.end))
           /\ \A d \in AskedDates(obs, ask) :
                /\ Place(obs, ask, d) \in 1..Len(Ordered(obs, ask))
                /\ Ordered(obs, ask)[Place(obs, ask, d)] = Entry(obs, d)
<1> DEFINE S == AskedDates(obs, ask)
           n == Cardinality(S)
           T == {Entry(obs, d) : d \in S}
           range == ObservationsInRange(obs, ask.start, ask.end)
<1>1. IsFiniteSet(S) /\ S \subseteq Int
  <2>1. S \in SUBSET DOMAIN obs /\ IsFiniteSet(DOMAIN obs) /\ DOMAIN obs \subseteq Int
    BY DEF AskedDates, History
  <2> QED  BY <2>1, FS_Subset
<1>2. /\ n \in Nat
      /\ \A d \in S : RankIn(S, d) \in 1..n
  BY <1>1, RankedDates
<1>3. range = Dated(obs, S)
  BY DEF ObservationsInRange, AskedDates
<1>4. range \in Seq(T) /\ Len(range) = n /\ \A d \in S : range[RankIn(S, d)] = Entry(obs, d)
  BY <1>1, <1>3, DatedInOrder
<1> HIDE DEF range, n, S
<1>5. CASE ask.order = "asc"
  <2>1. Ordered(obs, ask) = range /\ \A d : Place(obs, ask, d) = RankIn(S, d)
    BY <1>5 DEF Ordered, Place, range, S
  <2> QED  BY <1>2, <1>4, <2>1 DEF range, S
<1>6. CASE ask.order # "asc"
  <2>1. Ordered(obs, ask) = Reverse(range) /\ \A d : Place(obs, ask, d) = n - RankIn(S, d) + 1
    BY <1>6 DEF Ordered, Place, range, S, n
  <2>2. Reverse(range) = [i \in 1..n |-> range[(n - i) + 1]]
    BY <1>4 DEF Reverse
  <2>3. \A i \in 1..n : (n - i) + 1 \in 1..n /\ range[(n - i) + 1] \in T
    BY <1>2, <1>4
  <2>4. Reverse(range) \in [1..n -> T]
    BY <2>2, <2>3
  <2>5. Reverse(range) \in Seq(T) /\ Len(Reverse(range)) = n
    BY <1>2, <2>4
  <2>6. ASSUME NEW d \in S
        PROVE  /\ n - RankIn(S, d) + 1 \in 1..n
               /\ Reverse(range)[n - RankIn(S, d) + 1] = Entry(obs, d)
    <3>1. n - RankIn(S, d) + 1 \in 1..n /\ (n - (n - RankIn(S, d) + 1)) + 1 = RankIn(S, d)
      BY <1>2
    <3> QED  BY <1>4, <2>2, <3>1
  <2> QED  BY <1>4, <2>1, <2>5, <2>6 DEF range, S
<1> QED  BY <1>5, <1>6

\* A date moves back when others come, never forward.
LEMMA PlacesMoveBack ==
    ASSUME NEW old, NEW obs, History(old), History(obs), DOMAIN old \subseteq DOMAIN obs, NEW ask
    PROVE  \A d \in AskedDates(old, ask) :
             d \in AskedDates(obs, ask) /\ Place(old, ask, d) =< Place(obs, ask, d)
<1> SUFFICES ASSUME NEW d \in AskedDates(old, ask)
             PROVE  d \in AskedDates(obs, ask) /\ Place(old, ask, d) =< Place(obs, ask, d)
  OBVIOUS
<1> DEFINE S == AskedDates(old, ask)
           T == AskedDates(obs, ask)
<1>1. S \in SUBSET T /\ d \in S /\ d \in T
  BY DEF AskedDates
<1>2. IsFiniteSet(S) /\ IsFiniteSet(T) /\ T \subseteq Int
  <2>1. T \in SUBSET DOMAIN obs /\ IsFiniteSet(DOMAIN obs) /\ DOMAIN obs \subseteq Int
    BY DEF AskedDates, History
  <2> QED  BY <1>1, <2>1, FS_Subset
<1> HIDE DEF S, T
<1>3. {y \in S : y =< d} \in SUBSET {y \in T : y =< d} /\ IsFiniteSet({y \in T : y =< d})
  <2>1. {y \in T : y =< d} \in SUBSET T
    OBVIOUS
  <2>2. IsFiniteSet({y \in T : y =< d})
    BY <1>2, <2>1, FS_Subset
  <2> QED  BY <1>1, <2>2
<1>4. RankIn(S, d) =< RankIn(T, d)
  BY <1>3, FS_Subset DEF RankIn
<1>5. ASSUME NEW U, IsFiniteSet(U), U \subseteq Int
      PROVE  /\ Cardinality(U) - RankIn(U, d) = Cardinality({y \in U : ~(y =< d)})
             /\ IsFiniteSet({y \in U : ~(y =< d)})
  <2>1. {y \in U : ~(y =< d)} = U \ {y \in U : y =< d} /\ {y \in U : y =< d} = U \cap {y \in U : y =< d}
    OBVIOUS
  <2>2. /\ IsFiniteSet(U \ {y \in U : y =< d})
        /\ Cardinality(U \ {y \in U : y =< d}) = Cardinality(U) - Cardinality(U \cap {y \in U : y =< d})
    BY <1>5, FS_Difference
  <2> QED  BY <2>1, <2>2 DEF RankIn
<1>6. Cardinality({y \in S : ~(y =< d)}) =< Cardinality({y \in T : ~(y =< d)})
  <2>1. {y \in S : ~(y =< d)} \in SUBSET {y \in T : ~(y =< d)}
    BY <1>1
  <2>2. IsFiniteSet({y \in T : ~(y =< d)})
    BY <1>2, <1>5
  <2> QED  BY <2>1, <2>2, FS_Subset
<1>7. Cardinality(S) - RankIn(S, d) =< Cardinality(T) - RankIn(T, d)
  <2>1. S \subseteq Int
    BY <1>1, <1>2
  <2>2. /\ Cardinality(S) - RankIn(S, d) = Cardinality({y \in S : ~(y =< d)})
        /\ Cardinality(T) - RankIn(T, d) = Cardinality({y \in T : ~(y =< d)})
    BY <1>2, <1>5, <2>1
  <2> QED  BY <1>6, <2>2
<1>8. /\ Cardinality(S) \in Nat /\ Cardinality(T) \in Nat
      /\ RankIn(S, d) \in Nat /\ RankIn(T, d) \in Nat
  <2>1. S \subseteq Int
    BY <1>1, <1>2
  <2>2. /\ Cardinality(S) \in Nat /\ RankIn(S, d) \in 1..Cardinality(S)
        /\ Cardinality(T) \in Nat /\ RankIn(T, d) \in 1..Cardinality(T)
    BY <1>1, <1>2, <2>1, RankedDates
  <2> QED  BY <2>2
<1> QED  BY <1>1, <1>4, <1>7, <1>8 DEF Place, S, T

---------------------------------------------------------------------------
(* Pages *)

Extends(obs, old) == DOMAIN old \subseteq DOMAIN obs /\ \A d \in DOMAIN old : obs[d] = old[d]

\* One of what was given.
Given(given, entry) == \E k \in 1..Len(given) : given[k] = entry

\* What a client holds: the places it has passed, as many entries of the range as
\* its offset says, and, if nothing arrived, just what the pages so far should hold.
ReaderOK(r, obs) ==
    /\ DOMAIN r = {"phase", "series", "ask", "given", "offset", "first", "grew"}
    /\ History(r.first) /\ Extends(obs, r.first)
    /\ r.ask.limit \in Nat \ {0}
    /\ r.offset \in Nat
    /\ \E T : r.given \in Seq(T)
    /\ r.phase = "reading" =>
         \A d \in AskedDates(r.first, r.ask) :
            Place(obs, r.ask, d) =< r.offset => Given(r.given, Entry(r.first, d))
    /\ Len(r.given) = r.offset /\ r.offset =< Len(Ordered(obs, r.ask))
    /\ \A k \in 1..r.offset : \E d \in AskedDates(obs, r.ask) : r.given[k] = Entry(obs, d)
    /\ r.phase = "done" =>
         /\ r.offset = Len(Ordered(obs, r.ask))
         /\ \A d \in AskedDates(r.first, r.ask) : Given(r.given, Entry(r.first, d))
    /\ ~r.grew =>
         /\ obs = r.first
         /\ \A k \in 1..r.offset : r.given[k] = Ordered(r.first, r.ask)[k]

ReadsInv ==
    /\ stored = [s \in ReadSeries |-> stored[s]]
    /\ \A s \in ReadSeries : History(stored[s])
    /\ reader.phase \in {"none", "idle", "reading", "done"}
    /\ reader.phase \in {"reading", "done"} =>
         reader.series \in ReadSeries /\ ReaderOK(reader, stored[reader.series])

\* A page of a list of n, from an offset on.
IsPage(page, all, n, limit, offset) ==
    /\ n \in Nat /\ page.total = n
    /\ \E T : page.observations \in Seq(T)
    /\ offset =< n => /\ Len(page.observations) =< n - offset
                      /\ Len(page.observations) = limit \/ Len(page.observations) = n - offset
    /\ offset > n => Len(page.observations) = 0
    /\ \A k \in 1..Len(page.observations) : page.observations[k] = all[offset + k]

LEMMA NextPage ==
    ASSUME NEW obs, History(obs), NEW ask, ask.limit \in Nat \ {0}, NEW offset \in Nat
    PROVE  IsPage(GetObservations(obs, ask, offset), Ordered(obs, ask), Len(Ordered(obs, ask)),
                  ask.limit, offset)
<1> DEFINE seq == Ordered(obs, ask)
           n == Len(seq)
           T == {Entry(obs, d) : d \in AskedDates(obs, ask)}
           upto == IF offset + ask.limit < n THEN offset + ask.limit ELSE n
           page == GetObservations(obs, ask, offset)
<1>1. /\ seq \in Seq(T) /\ n \in Nat
      /\ n = Len(ObservationsInRange(obs, ask.start, ask.end))
  BY RangeInOrder
<1>2. page.total = n /\ page.observations = SubSeq(seq, offset + 1, upto)
  BY <1>1 DEF GetObservations, Slice, Ordered
<1> HIDE DEF seq, page, IsPage
<1>3. upto \in Nat /\ upto =< n /\ offset + 1 \in Nat
  BY <1>1
<1>4. \A i \in (offset + 1)..upto : seq[i] \in T
  BY <1>1, <1>3
<1>5. /\ page.observations \in Seq(T)
      /\ Len(page.observations) = IF offset + 1 =< upto THEN upto - (offset + 1) + 1 ELSE 0
      /\ \A i \in 1..(upto - (offset + 1) + 1) : page.observations[i] = seq[(offset + 1) + i - 1]
  <2> HIDE DEF upto, T
  <2>1. upto \in Int /\ offset + 1 \in Int
    BY <1>3
  <2> QED  BY <1>2, <1>4, <2>1, SubSeqProperties
<1>6. Len(page.observations) \in Nat
  BY <1>3, <1>5
<1>7. \A k \in 1..Len(page.observations) : page.observations[k] = seq[offset + k]
  <2> SUFFICES ASSUME NEW k \in 1..Len(page.observations) PROVE page.observations[k] = seq[offset + k]
    OBVIOUS
  <2>1. k \in 1..(upto - (offset + 1) + 1) /\ (offset + 1) + k - 1 = offset + k
    BY <1>3, <1>5
  <2> QED  BY <1>5, <2>1
<1>8. offset =< n => /\ Len(page.observations) =< n - offset
                     /\ Len(page.observations) = ask.limit \/ Len(page.observations) = n - offset
  BY <1>1, <1>3, <1>5
<1>9. offset > n => Len(page.observations) = 0
  BY <1>1, <1>3, <1>5
<1>10. \E U : page.observations \in Seq(U)
  BY <1>5
<1> HIDE DEF n
<1>11. IsPage(page, seq, n, ask.limit, offset)
  BY <1>1, <1>2, <1>7, <1>8, <1>9, <1>10 DEF IsPage
<1> QED  BY <1>11 DEF seq, n, page

LEMMA OrderedIsASequence ==
    ASSUME NEW obs, History(obs), NEW ask
    PROVE  Len(Ordered(obs, ask)) \in Nat
<1> DEFINE T == {Entry(obs, d) : d \in AskedDates(obs, ask)}
<1>1. Ordered(obs, ask) \in Seq(T)
  BY RangeInOrder
<1> HIDE DEF T
<1> QED  BY <1>1

\* The range does not get shorter when others come.
LEMMA OrderedGrows ==
    ASSUME NEW old, NEW obs, History(old), History(obs), DOMAIN old \subseteq DOMAIN obs, NEW ask
    PROVE  Len(Ordered(old, ask)) =< Len(Ordered(obs, ask))
<1>1. ASSUME NEW h, History(h)
      PROVE  /\ IsFiniteSet(AskedDates(h, ask))
             /\ Len(Ordered(h, ask)) = Cardinality(AskedDates(h, ask))
  <2> DEFINE S == AskedDates(h, ask)
  <2>1. IsFiniteSet(S) /\ S \subseteq Int
    <3>1. S \in SUBSET DOMAIN h /\ IsFiniteSet(DOMAIN h) /\ DOMAIN h \subseteq Int
      BY <1>1 DEF AskedDates, History
    <3> QED  BY <3>1, FS_Subset
  <2>2. ObservationsInRange(h, ask.start, ask.end) = Dated(h, S)
    BY DEF ObservationsInRange, AskedDates
  <2> HIDE DEF S
  <2>3. Len(Dated(h, S)) = Cardinality(S)
    BY <2>1, DatedInOrder
  <2>4. Len(Ordered(h, ask)) = Len(ObservationsInRange(h, ask.start, ask.end))
    BY <1>1, RangeInOrder
  <2> QED  BY <2>1, <2>2, <2>3, <2>4 DEF S
<1>2. AskedDates(old, ask) \in SUBSET AskedDates(obs, ask)
  BY DEF AskedDates
<1>3. Cardinality(AskedDates(old, ask)) =< Cardinality(AskedDates(obs, ask))
  BY <1>1, <1>2, FS_Subset
<1> QED  BY <1>1, <1>3

LEMMA FirstAsked ==
    ASSUME ReadsInv, NEW series \in ReadSeries, AskFirst(series) PROVE ReadsInv'
<1>1. PICK start \in Starts, end \in Ends, limit \in Limits, order \in {"asc", "desc"} :
        reader' = [phase |-> "reading", series |-> series,
                   ask |-> [start |-> start, end |-> end, limit |-> limit, order |-> order],
                   given |-> <<>>, offset |-> 0, first |-> stored[series], grew |-> FALSE]
  BY DEF AskFirst
<1>2. UNCHANGED stored /\ History(stored[series]) /\ limit \in Nat \ {0}
  BY ReadsAssumption DEF AskFirst, ReadsInv
<1> DEFINE r == reader'
           obs == stored[series]
<1>3. /\ DOMAIN r = {"phase", "series", "ask", "given", "offset", "first", "grew"}
      /\ r.first = obs /\ r.offset = 0 /\ r.given = <<>> /\ r.ask.limit = limit
      /\ r.phase = "reading" /\ r.series = series
  BY <1>1
<1>4. \A d \in AskedDates(obs, r.ask) : ~(Place(obs, r.ask, d) =< 0)
  <2> SUFFICES ASSUME NEW d \in AskedDates(obs, r.ask) PROVE ~(Place(obs, r.ask, d) =< 0)
    OBVIOUS
  <2>1. Place(obs, r.ask, d) \in 1..Len(Ordered(obs, r.ask)) /\ Len(Ordered(obs, r.ask)) \in Nat
    BY <1>2, RangeInOrder, OrderedIsASequence
  <2> QED  BY <2>1
<1>5. Len(Ordered(obs, r.ask)) \in Nat
  BY <1>2, OrderedIsASequence
<1>6. (\E T : r.given \in Seq(T)) /\ Len(r.given) = 0
  BY <1>3
<1> HIDE DEF r
<1>7. ReaderOK(r, obs)
  BY <1>2, <1>3, <1>4, <1>5, <1>6 DEF ReaderOK, Extends
<1> QED  BY <1>2, <1>3, <1>7 DEF ReadsInv, r

LEMMA PageAsked ==
    ASSUME ReadsInv, AskPage PROVE ReadsInv'
<1> DEFINE r == reader
           obs == stored[r.series]
           page == GetObservations(obs, r.ask, r.offset)
           next == r.offset + Len(page.observations)
           n == Len(Ordered(obs, r.ask))
<1>1. /\ r.phase = "reading" /\ r.series \in ReadSeries /\ ReaderOK(r, obs) /\ History(obs)
      /\ UNCHANGED stored
      /\ reader' = [reader EXCEPT !.given = @ \o page.observations, !.offset = next,
                                  !.phase = IF next >= page.total THEN "done" ELSE @]
  BY DEF AskPage, ReadsInv
<1>2. /\ r.ask.limit \in Nat \ {0} /\ r.offset \in Nat /\ n \in Nat /\ page.total = n
      /\ \E T : page.observations \in Seq(T)
      /\ r.offset =< n => /\ Len(page.observations) =< n - r.offset
                          /\ Len(page.observations) = r.ask.limit \/ Len(page.observations) = n - r.offset
      /\ \A k \in 1..Len(page.observations) : page.observations[k] = Ordered(obs, r.ask)[r.offset + k]
  <2>1. r.ask.limit \in Nat \ {0} /\ r.offset \in Nat
    BY <1>1 DEF ReaderOK
  <2>2. IsPage(page, Ordered(obs, r.ask), n, r.ask.limit, r.offset)
    <3> HIDE DEF r, obs
    <3> QED  BY <1>1, <2>1, NextPage
  <2> HIDE DEF r, obs, page, n
  <2> QED  BY <2>1, <2>2 DEF IsPage
<1> HIDE DEF page
<1>0. DOMAIN reader = {"phase", "series", "ask", "given", "offset", "first", "grew"}
  BY <1>1 DEF ReaderOK
<1>3. /\ DOMAIN reader' = DOMAIN reader
      /\ reader'.series = r.series /\ reader'.ask = r.ask /\ reader'.first = r.first /\ reader'.grew = r.grew
      /\ reader'.given = r.given \o page.observations /\ reader'.offset = next
      /\ reader'.phase = IF next >= page.total THEN "done" ELSE "reading"
  BY <1>1, <1>0 DEF ReadsInv
<1>4. \E T : r.given \in Seq(T)
  BY <1>1 DEF ReaderOK
<1>5. PICK T : r.given \in Seq(T) /\ page.observations \in Seq(T)
  <2>1. PICK A : r.given \in Seq(A)
    BY <1>4
  <2>2. PICK B : page.observations \in Seq(B)
    BY <1>2
  <2>3. r.given \in Seq(A \cup B) /\ page.observations \in Seq(A \cup B)
    BY <2>1, <2>2
  <2> QED  BY <2>3
<1>6. /\ reader'.given \in Seq(T)
      /\ Len(r.given) \in Nat /\ Len(page.observations) \in Nat
      /\ Len(reader'.given) = Len(r.given) + Len(page.observations)
      /\ \A k \in 1..Len(r.given) : reader'.given[k] = r.given[k]
      /\ \A k \in 1..Len(page.observations) : reader'.given[Len(r.given) + k] = page.observations[k]
  <2> DEFINE s == r.given
             t == page.observations
  <2>1. reader'.given = s \o t /\ s \in Seq(T) /\ t \in Seq(T)
    BY <1>3, <1>5
  <2> HIDE DEF s, t
  <2>2. Len(s) \in Nat /\ Len(t) \in Nat
    BY <2>1
  <2>3. /\ s \o t \in Seq(T) /\ Len(s \o t) = Len(s) + Len(t)
        /\ \A i \in 1..(Len(s) + Len(t)) : (s \o t)[i] = IF i =< Len(s) THEN s[i] ELSE t[i - Len(s)]
    BY <2>1, ConcatProperties
  <2>4. \A k \in 1..Len(s) : k \in 1..(Len(s) + Len(t)) /\ k =< Len(s)
    BY <2>2
  <2>5. \A k \in 1..Len(t) :
          /\ Len(s) + k \in 1..(Len(s) + Len(t)) /\ ~(Len(s) + k =< Len(s))
          /\ (Len(s) + k) - Len(s) = k
    BY <2>2
  <2> QED  BY <2>1, <2>2, <2>3, <2>4, <2>5 DEF s, t
<1> DEFINE u == Len(r.given)
           v == Len(page.observations)
<1>b. /\ \A k \in 1..u : k \in 1..Len(reader'.given)
      /\ \A k \in 1..v : u + k \in 1..Len(reader'.given)
  <2>1. u \in Nat /\ v \in Nat /\ Len(reader'.given) = u + v
    BY <1>6
  <2> HIDE DEF u, v
  <2> QED  BY <2>1
<1>7. \A d \in AskedDates(r.first, r.ask) : Place(obs, r.ask, d) =< next => Given(reader'.given, Entry(r.first, d))
  <2> SUFFICES ASSUME NEW d \in AskedDates(r.first, r.ask), Place(obs, r.ask, d) =< next
               PROVE  Given(reader'.given, Entry(r.first, d))
    OBVIOUS
  <2> DEFINE p == Place(obs, r.ask, d)
  <2>1. /\ Extends(obs, r.first) /\ d \in DOMAIN r.first /\ d \in AskedDates(obs, r.ask)
        /\ Entry(obs, d) = Entry(r.first, d)
    BY <1>1 DEF ReaderOK, Extends, AskedDates, Entry
  <2>2. p \in 1..n /\ Ordered(obs, r.ask)[p] = Entry(r.first, d)
    BY <1>1, <2>1, RangeInOrder
  <2> HIDE DEF p, n
  <2>3. CASE p =< r.offset
    <3>1. PICK k \in 1..Len(r.given) : r.given[k] = Entry(r.first, d)
      BY <1>1, <2>3 DEF ReaderOK, Given, p
    <3>2. k \in 1..Len(reader'.given)
      BY <1>b
    <3>3. reader'.given[k] = r.given[k]
      BY <1>6
    <3> QED  BY <3>1, <3>2, <3>3 DEF Given
  <2>4. CASE ~(p =< r.offset)
    <3>1. p - r.offset \in 1..Len(page.observations) /\ r.offset + (p - r.offset) = p
      BY <1>2, <1>6, <2>2, <2>4 DEF p
    <3>2. page.observations[p - r.offset] = Entry(r.first, d)
      BY <1>2, <2>2, <3>1
    <3>3. Len(r.given) + (p - r.offset) \in 1..Len(reader'.given)
      BY <1>b, <3>1
    <3>4. reader'.given[Len(r.given) + (p - r.offset)] = page.observations[p - r.offset]
      BY <1>6, <3>1
    <3> QED  BY <3>2, <3>3, <3>4 DEF Given
  <2> QED  BY <2>3, <2>4
<1>8. next >= page.total => \A d \in AskedDates(r.first, r.ask) : Given(reader'.given, Entry(r.first, d))
  <2> SUFFICES ASSUME next >= page.total, NEW d \in AskedDates(r.first, r.ask)
               PROVE  Place(obs, r.ask, d) =< next
    BY <1>7
  <2>1. d \in AskedDates(obs, r.ask)
    BY <1>1 DEF ReaderOK, Extends, AskedDates
  <2>2. Place(obs, r.ask, d) \in 1..n
    BY <1>1, <2>1, RangeInOrder
  <2> HIDE DEF n
  <2> QED  BY <1>2, <1>6, <2>2
<1>9. next \in Nat
  BY <1>2, <1>6
<1>d. Len(reader'.given) = next /\ next =< n /\ (next >= page.total => next = n)
  <2>1. Len(r.given) = r.offset /\ r.offset =< n
    BY <1>1 DEF ReaderOK
  <2> HIDE DEF n
  <2> QED  BY <1>2, <1>6, <1>9, <2>1
<1>e. \A k \in 1..next : \E d \in AskedDates(obs, r.ask) : reader'.given[k] = Entry(obs, d)
  <2> DEFINE E == {Entry(obs, d) : d \in AskedDates(obs, r.ask)}
  <2>1. Ordered(obs, r.ask) \in Seq(E)
    BY <1>1, RangeInOrder
  <2>2. /\ Len(r.given) = r.offset /\ r.offset =< n
        /\ \A k \in 1..r.offset : r.given[k] \in E
    BY <1>1 DEF ReaderOK
  <2>3. SUFFICES ASSUME NEW k \in 1..next PROVE reader'.given[k] \in E
    OBVIOUS
  <2> HIDE DEF E, obs
  <2>4. CASE k =< r.offset
    <3>1. k \in 1..r.offset
      BY <1>2, <2>4, <1>9
    <3> QED  BY <1>6, <2>2, <3>1
  <2>5. CASE ~(k =< r.offset)
    <3>1. k - r.offset \in 1..Len(page.observations) /\ r.offset + (k - r.offset) = k
      BY <1>2, <1>6, <2>5
    <3>2. reader'.given[Len(r.given) + (k - r.offset)] = page.observations[k - r.offset]
      BY <1>6, <3>1
    <3>3. reader'.given[k] = Ordered(obs, r.ask)[k]
      BY <1>2, <2>2, <3>1, <3>2
    <3>4. k \in 1..Len(Ordered(obs, r.ask))
      <4>1. next \in Nat /\ next =< n /\ n \in Nat
        BY <1>2, <1>9, <1>d
      <4> HIDE DEF next
      <4> QED  BY <4>1
    <3> QED  BY <2>1, <3>3, <3>4
  <2> QED  BY <2>4, <2>5
<1>10. ASSUME ~r.grew
       PROVE  obs = r.first /\ \A k \in 1..next : reader'.given[k] = Ordered(r.first, r.ask)[k]
  <2>1. /\ obs = r.first /\ Len(r.given) = r.offset /\ r.offset =< n
        /\ \A k \in 1..r.offset : r.given[k] = Ordered(r.first, r.ask)[k]
    BY <1>1, <1>10 DEF ReaderOK
  <2> HIDE DEF n, obs
  <2>3. ASSUME NEW k \in 1..next PROVE reader'.given[k] = Ordered(r.first, r.ask)[k]
    <3>1. CASE k =< r.offset
      BY <1>2, <1>6, <2>1, <3>1
    <3>2. CASE ~(k =< r.offset)
      <4>1. k - r.offset \in 1..Len(page.observations) /\ r.offset + (k - r.offset) = k
        BY <1>2, <1>6, <3>2
      <4>2. reader'.given[Len(r.given) + (k - r.offset)] = page.observations[k - r.offset]
        BY <1>6, <4>1
      <4> QED  BY <1>2, <2>1, <4>1, <4>2
    <3> QED  BY <3>1, <3>2
  <2> QED  BY <2>1, <2>3
<1> HIDE DEF next
<1>11. ReaderOK(reader', obs)
  BY <1>0, <1>1, <1>2, <1>3, <1>6, <1>7, <1>8, <1>9, <1>d, <1>e, <1>10 DEF ReaderOK
<1> QED  BY <1>1, <1>3, <1>11 DEF ReadsInv

LEMMA Arrived ==
    ASSUME ReadsInv, NEW a \in Arrivals, Arrive(a) PROVE ReadsInv'
<1> DEFINE grown == [d \in DOMAIN stored[a.series] \cup {a.date} |->
                       IF d = a.date THEN a.value ELSE stored[a.series][d]]
           obs == stored[reader.series]
<1>1. /\ reader.phase = "reading" /\ a.date \notin DOMAIN stored[a.series]
      /\ a.series \in ReadSeries /\ a.date \in Int
      /\ stored' = [stored EXCEPT ![a.series] = grown]
      /\ reader' = [reader EXCEPT !.grew = @ \/ a.series = reader.series]
      /\ reader.series \in ReadSeries /\ ReaderOK(reader, obs)
  BY ReadsAssumption DEF Arrive, ReadsInv
<1>2. /\ stored' = [s \in ReadSeries |-> IF s = a.series THEN grown ELSE stored[s]]
      /\ \A s \in ReadSeries : History(stored[s])
  BY <1>1 DEF ReadsInv
<1>3. History(grown) /\ Extends(grown, stored[a.series])
  <2>1. IsFiniteSet(DOMAIN stored[a.series]) /\ DOMAIN stored[a.series] \subseteq Int
    BY <1>1, <1>2 DEF History
  <2>2. IsFiniteSet(DOMAIN stored[a.series] \cup {a.date})
    BY <2>1, FS_AddElement
  <2> QED  BY <1>1, <2>1, <2>2 DEF History, Extends
<1>4. /\ \A s \in ReadSeries : History(stored'[s]) /\ Extends(stored'[s], stored[s])
      /\ \A s \in ReadSeries : s # a.series => stored'[s] = stored[s]
  BY <1>2, <1>3 DEF Extends
<1> DEFINE later == stored'[reader.series]
<1>5. /\ DOMAIN reader' = DOMAIN reader
      /\ reader'.series = reader.series /\ reader'.ask = reader.ask /\ reader'.first = reader.first
      /\ reader'.given = reader.given /\ reader'.offset = reader.offset /\ reader'.phase = reader.phase
      /\ reader'.grew = (reader.grew \/ a.series = reader.series)
  BY <1>1 DEF ReadsInv, ReaderOK
<1>6. History(later) /\ History(obs) /\ Extends(later, obs) /\ Extends(obs, reader.first)
  BY <1>1, <1>2, <1>4 DEF ReaderOK
<1>7. Extends(later, reader.first)
  BY <1>6 DEF Extends
<1>8. ASSUME NEW d \in AskedDates(reader.first, reader.ask), Place(later, reader.ask, d) =< reader.offset
      PROVE  Given(reader.given, Entry(reader.first, d))
  <2>1. d \in AskedDates(obs, reader.ask)
    BY <1>6 DEF Extends, AskedDates
  <2>2. /\ Place(obs, reader.ask, d) =< Place(later, reader.ask, d)
        /\ d \in AskedDates(later, reader.ask)
    BY <1>6, <2>1, PlacesMoveBack DEF Extends
  <2>3. /\ Place(obs, reader.ask, d) \in 1..Len(Ordered(obs, reader.ask))
        /\ Place(later, reader.ask, d) \in 1..Len(Ordered(later, reader.ask))
    BY <1>6, <2>1, <2>2, RangeInOrder
  <2>4. Place(obs, reader.ask, d) =< reader.offset
    <3>1. Place(obs, reader.ask, d) \in Int /\ Place(later, reader.ask, d) \in Int /\ reader.offset \in Int
      BY <1>1, <2>3 DEF ReaderOK
    <3> QED  BY <1>8, <2>2, <3>1
  <2> QED  BY <1>1, <2>4 DEF ReaderOK
<1>9. ~(reader.grew \/ a.series = reader.series) => later = obs
  BY <1>1, <1>4
<1>d. reader.offset =< Len(Ordered(later, reader.ask))
  <2>1. Len(Ordered(obs, reader.ask)) =< Len(Ordered(later, reader.ask))
    BY <1>6, OrderedGrows DEF Extends
  <2>2. Len(Ordered(obs, reader.ask)) \in Nat /\ Len(Ordered(later, reader.ask)) \in Nat
    BY <1>6, OrderedIsASequence
  <2>3. reader.offset \in Nat /\ reader.offset =< Len(Ordered(obs, reader.ask))
    BY <1>1 DEF ReaderOK
  <2> HIDE DEF obs, later
  <2> QED  BY <2>1, <2>2, <2>3
<1>e. \A d \in AskedDates(obs, reader.ask) :
        d \in AskedDates(later, reader.ask) /\ Entry(later, d) = Entry(obs, d)
  BY <1>6 DEF Extends, AskedDates, Entry
<1>f. \A k \in 1..reader.offset : \E d \in AskedDates(later, reader.ask) :
        reader.given[k] = Entry(later, d)
  <2>1. \A k \in 1..reader.offset : \E d \in AskedDates(obs, reader.ask) :
          reader.given[k] = Entry(obs, d)
    BY <1>1 DEF ReaderOK
  <2> QED  BY <1>e, <2>1
<1> HIDE DEF later
<1>10. ReaderOK(reader', later)
  BY <1>1, <1>5, <1>7, <1>8, <1>9, <1>d, <1>f DEF ReaderOK
<1> QED  BY <1>1, <1>2, <1>4, <1>5, <1>10 DEF ReadsInv, later

LEMMA ReadsInvInductive == Spec => []ReadsInv
<1>1. ReadInit \/ (stored = [s \in ReadSeries |-> <<>>] /\ reader = [phase |-> "none"]) => ReadsInv
  <2>1. History(<<>>)
    <3>1. DOMAIN <<>> = {} /\ IsFiniteSet({})
      BY FS_EmptySet
    <3> QED  BY <3>1 DEF History
  <2> QED  BY <2>1, ReadsAssumption DEF ReadInit, ReadsInv
<1>2. ReadsInv /\ [ReadNext]_readVars => ReadsInv'
  <2> SUFFICES ASSUME ReadsInv, [ReadNext]_readVars PROVE ReadsInv'
    OBVIOUS
  <2>1. CASE UNCHANGED readVars
    BY <2>1 DEF ReadsInv, readVars
  <2> QED  BY <2>1, FirstAsked, PageAsked, Arrived DEF ReadNext
<1> QED  BY <1>1, <1>2, ReadSteps, PTL

\* PagesSkipNothing: paging by offset gives every observation that was there at the
\* start, whatever arrives meanwhile, and gives as many entries as the range holds in
\* the end, all of them held, for any page size, order and history.
THEOREM PagesAreComplete == Spec => []PagesSkipNothing
<1>1. ReadsInv => PagesSkipNothing
  <2> SUFFICES ASSUME ReadsInv, reader.phase = "done" PROVE PagesSkipNothing
    BY DEF PagesSkipNothing
  <2> DEFINE first == reader.first
             ask == reader.ask
             S == AskedDates(first, ask)
             asked == ObservationsInRange(first, ask.start, ask.end)
             T == {Entry(first, d) : d \in S}
  <2>1. ReaderOK(reader, stored[reader.series]) /\ History(first)
    BY DEF ReadsInv, ReaderOK
  <2> DEFINE obs == stored[reader.series]
             held == ObservationsInRange(obs, ask.start, ask.end)
  <2>0. ASSUME NEW h, History(h)
        PROVE  LET range == ObservationsInRange(h, ask.start, ask.end)
                   dates == AskedDates(h, ask)
               IN  /\ \A i \in DOMAIN range : \E d \in dates : range[i] = Entry(h, d)
                   /\ \A d \in dates : \E i \in DOMAIN range : range[i] = Entry(h, d)
    <3> DEFINE D == AskedDates(h, ask)
               E == {Entry(h, d) : d \in D}
               range == ObservationsInRange(h, ask.start, ask.end)
    <3>1. IsFiniteSet(D) /\ D \subseteq Int
      <4>1. D \in SUBSET DOMAIN h /\ IsFiniteSet(DOMAIN h) /\ DOMAIN h \subseteq Int
        BY <2>0 DEF AskedDates, History
      <4> QED  BY <4>1, FS_Subset
    <3>2. range = Dated(h, D)
      BY DEF ObservationsInRange, AskedDates
    <3>3. /\ range \in Seq(E) /\ Len(range) = Cardinality(D)
          /\ \A d \in D : range[RankIn(D, d)] = Entry(h, d)
      BY <3>1, <3>2, DatedInOrder
    <3>4. \A d \in D : RankIn(D, d) \in 1..Cardinality(D)
      BY <3>1, RankedDates
    <3>5. \A i \in DOMAIN range : range[i] \in E
      <4> HIDE DEF range, E
      <4> QED  BY <3>3
    <3>6. DOMAIN range = 1..Cardinality(D)
      <4> HIDE DEF range, E, D
      <4> QED  BY <3>3
    <3> QED  BY <3>3, <3>4, <3>5, <3>6
  <2>2. ASSUME NEW i \in DOMAIN asked PROVE \E k \in DOMAIN reader.given : reader.given[k] = asked[i]
    <3>1. PICK d \in S : asked[i] = Entry(first, d)
      BY <2>0, <2>1
    <3>2. Given(reader.given, Entry(first, d))
      BY <2>1 DEF ReaderOK
    <3>3. \E U : reader.given \in Seq(U)
      BY <2>1 DEF ReaderOK
    <3> QED  BY <3>1, <3>2, <3>3 DEF Given
  <2>4. Len(reader.given) = Len(held)
    <3>1. Len(reader.given) = Len(Ordered(obs, ask))
      BY <2>1 DEF ReaderOK
    <3>2. History(obs)
      BY <2>1 DEF ReadsInv
    <3> QED  BY <3>1, <3>2, RangeInOrder
  <2>5. ASSUME NEW k \in DOMAIN reader.given
        PROVE  \E i \in DOMAIN held : reader.given[k] = held[i]
    <3>1. k \in 1..reader.offset
      <4>1. (\E U : reader.given \in Seq(U)) /\ Len(reader.given) = reader.offset
        BY <2>1 DEF ReaderOK
      <4> QED  BY <4>1
    <3>2. PICK d \in AskedDates(obs, ask) : reader.given[k] = Entry(obs, d)
      BY <2>1, <3>1 DEF ReaderOK
    <3>3. History(obs)
      BY <2>1 DEF ReadsInv
    <3> QED  BY <2>0, <3>2, <3>3
  <2>3. ASSUME ~reader.grew PROVE reader.given = Ordered(first, ask)
    <3>1. /\ Len(reader.given) = Len(Ordered(first, ask))
          /\ \A k \in 1..Len(reader.given) : reader.given[k] = Ordered(first, ask)[k]
      BY <2>1, <2>3 DEF ReaderOK
    <3>2. PICK U : reader.given \in Seq(U)
      BY <2>1 DEF ReaderOK
    <3>3. Ordered(first, ask) \in Seq(T)
      BY <2>1, RangeInOrder
    <3> HIDE DEF T, first, ask
    <3>4. reader.given \in Seq(U \cup T) /\ Ordered(first, ask) \in Seq(U \cup T)
      BY <3>2, <3>3
    <3> QED  BY <3>1, <3>4, SeqEqual
  <2> QED  BY <2>2, <2>3, <2>4, <2>5 DEF PagesSkipNothing, Ordered
<1> QED  BY ReadsInvInductive, <1>1, PTL

---------------------------------------------------------------------------
(* Transformations *)

\* What a list holds after its a-th item, up to its b-th.
Stretch(list, a, b) == [k \in 1..(b - a) |-> list[a + k]]

\* A list of so many items.
Listed(list, n) == list = [i \in 1..n |-> list[i]]

\* The positions a to b of a list, one after another.
LEMMA SelectedRun ==
    ASSUME NEW list, NEW a \in Nat, NEW b \in Nat, a =< b
    PROVE  Selected(list, (a + 1)..b) = Stretch(list, a, b)
<1> DEFINE P == (a + 1)..b
           upTo(i) == {j \in P : j =< i}
<1>1. Cardinality(P) = b - a /\ IsFiniteSet(P)
  <2>1. a + 1 \in Int /\ b \in Int
    OBVIOUS
  <2>2. IsFiniteSet(P) /\ Cardinality(P) = IF a + 1 > b THEN 0 ELSE b - (a + 1) + 1
    BY <2>1, FS_Interval
  <2> HIDE DEF P
  <2>3. (IF a + 1 > b THEN 0 ELSE b - (a + 1) + 1) = b - a
    OBVIOUS
  <2> QED  BY <2>2, <2>3
<1>2. ASSUME NEW i \in P PROVE Cardinality(upTo(i)) = i - a
  <2>1. upTo(i) = (a + 1)..i /\ a + 1 \in Int /\ i \in Int
    OBVIOUS
  <2>2. Cardinality((a + 1)..i) = IF a + 1 > i THEN 0 ELSE i - (a + 1) + 1
    BY <2>1, FS_Interval
  <2>3. (IF a + 1 > i THEN 0 ELSE i - (a + 1) + 1) = i - a
    OBVIOUS
  <2> HIDE DEF upTo
  <2> QED  BY <2>1, <2>2, <2>3
<1> HIDE DEF upTo
<1>3. ASSUME NEW k \in 1..(b - a) PROVE (CHOOSE i \in P : Cardinality(upTo(i)) = k) = a + k
  <2>1. a + k \in P /\ (a + k) - a = k
    OBVIOUS
  <2>2. Cardinality(upTo(a + k)) = k
    BY <1>2, <2>1
  <2>3. \A i \in P : Cardinality(upTo(i)) = k => i = a + k
    <3> SUFFICES ASSUME NEW i \in P, Cardinality(upTo(i)) = k PROVE i = a + k
      OBVIOUS
    <3>1. i - a = k /\ i \in Int
      BY <1>2
    <3> QED  BY <3>1
  <2> QED  BY <2>1, <2>2, <2>3
<1>4. Selected(list, P) = [k \in 1..(b - a) |-> list[CHOOSE i \in P : Cardinality(upTo(i)) = k]]
  BY <1>1 DEF Selected, upTo
<1> QED  BY <1>3, <1>4 DEF Stretch

\* The first dates of a history are the first ranks.
LEMMA FirstRanks ==
    ASSUME NEW D, IsFiniteSet(D), D \subseteq Int, NEW E \in SUBSET D,
           \A d \in E : \A e \in D : e =< d => e \in E
    PROVE  /\ Cardinality(E) \in 0..Cardinality(D)
           /\ \A d \in D : d \in E <=> RankIn(D, d) =< Cardinality(E)
           /\ \A d \in E : RankIn(E, d) = RankIn(D, d)
<1>1. IsFiniteSet(E) /\ E \subseteq Int
  BY FS_Subset
<1>2. Cardinality(E) \in Nat /\ Cardinality(D) \in Nat /\ Cardinality(E) =< Cardinality(D)
  BY <1>1, FS_Subset, FS_CardinalityType
<1>3. ASSUME NEW d \in E PROVE RankIn(E, d) = RankIn(D, d)
  <2>1. {y \in E : y =< d} = {y \in D : y =< d}
    OBVIOUS
  <2> QED  BY <2>1 DEF RankIn
<1>4. ASSUME NEW d \in E PROVE RankIn(D, d) =< Cardinality(E)
  <2>1. RankIn(E, d) \in 1..Cardinality(E)
    BY <1>1, RankedDates
  <2> QED  BY <1>2, <1>3, <2>1
<1>5. ASSUME NEW d \in D, d \notin E PROVE ~(RankIn(D, d) =< Cardinality(E))
  <2> DEFINE below == {y \in D : y =< d}
  <2>1. /\ E \in SUBSET (below \ {d}) /\ d \in below
    <3>1. \A e \in E : e =< d /\ e # d
      <4> SUFFICES ASSUME NEW e \in E PROVE e =< d /\ e # d
        OBVIOUS
      <4>1. e \in Int /\ d \in Int /\ ~(d =< e)
        BY <1>5
      <4> QED  BY <4>1
    <3>2. d =< d
      OBVIOUS
    <3> QED  BY <3>1, <3>2
  <2>2. below \in SUBSET D
    OBVIOUS
  <2>3. IsFiniteSet(below)
    BY <2>2, FS_Subset
  <2> HIDE DEF below
  <2>4. IsFiniteSet(below \ {d}) /\ Cardinality(below \ {d}) = Cardinality(below) - 1 /\ Cardinality(below) \in Nat
    BY <2>1, <2>3, FS_RemoveElement, FS_CardinalityType
  <2>5. Cardinality(E) =< Cardinality(below \ {d})
    BY <2>1, <2>4, FS_Subset
  <2>6. RankIn(D, d) = Cardinality(below)
    BY DEF RankIn, below
  <2> QED  BY <1>2, <2>4, <2>5, <2>6
<1> QED  BY <1>2, <1>3, <1>4, <1>5

\* The dates of some ranks, one after another, are listed as in the whole.
LEMMA DatedRun ==
    ASSUME NEW obs, NEW D, IsFiniteSet(D), D \subseteq Int,
           NEW a \in Nat, NEW b \in Nat, a =< b, b =< Cardinality(D)
    PROVE  Dated(obs, {d \in D : RankIn(D, d) \in (a + 1)..b}) = Stretch(Dated(obs, D), a, b)
<1> DEFINE n == Cardinality(D)
           S == {d \in D : RankIn(D, d) \in (a + 1)..b}
           A == {d \in D : RankIn(D, d) =< a}
           B == {d \in D : RankIn(D, d) =< b}
<1>1. /\ n \in Nat
      /\ \A d \in D : RankIn(D, d) \in 1..n
      /\ \A d, e \in D : d < e => RankIn(D, d) < RankIn(D, e)
      /\ \A i \in 1..n : \E d \in D : RankIn(D, d) = i
  BY RankedDates
<1>2. /\ Dated(obs, D) \in Seq({Entry(obs, d) : d \in D}) /\ Len(Dated(obs, D)) = n
      /\ \A d \in D : Dated(obs, D)[RankIn(D, d)] = Entry(obs, d)
  BY DatedInOrder
<1> HIDE DEF n
<1>3. ASSUME NEW c \in 0..n
      PROVE  Cardinality({d \in D : RankIn(D, d) =< c}) = c /\ IsFiniteSet({d \in D : RankIn(D, d) =< c})
  <2> DEFINE E == {d \in D : RankIn(D, d) =< c}
  <2>1. E \in SUBSET D /\ IsFiniteSet(E)
    BY FS_Subset
  <2>2. \A d \in E : \A e \in D : e =< d => e \in E
    <3> SUFFICES ASSUME NEW d \in E, NEW e \in D, e =< d PROVE RankIn(D, e) =< c
      OBVIOUS
    <3>1. d \in Int /\ e \in Int /\ RankIn(D, d) \in Int /\ RankIn(D, e) \in Int /\ c \in Int
      BY <1>1
    <3>2. e = d \/ e < d
      BY <3>1
    <3>3. e < d => RankIn(D, e) < RankIn(D, d)
      BY <1>1
    <3> QED  BY <3>1, <3>2, <3>3
  <2>3. /\ Cardinality(E) \in 0..n
        /\ \A d \in D : d \in E <=> RankIn(D, d) =< Cardinality(E)
    BY <2>1, <2>2, FirstRanks DEF n
  <2>4. ~(c < Cardinality(E))
    <3> SUFFICES ASSUME c < Cardinality(E) PROVE FALSE
      OBVIOUS
    <3>1. Cardinality(E) \in 1..n
      BY <2>3
    <3>2. PICK d \in D : RankIn(D, d) = Cardinality(E)
      BY <1>1, <3>1
    <3>3. d \in E
      BY <2>3, <3>1, <3>2
    <3>4. RankIn(D, d) =< c
      BY <3>3
    <3> QED  BY <3>1, <3>2, <3>4
  <2>5. ~(Cardinality(E) < c)
    <3> SUFFICES ASSUME Cardinality(E) < c PROVE FALSE
      OBVIOUS
    <3>1. c \in 1..n
      BY <2>3
    <3>2. PICK d \in D : RankIn(D, d) = c
      BY <1>1, <3>1
    <3>3. d \in E
      BY <3>1, <3>2
    <3>4. c =< Cardinality(E)
      BY <2>3, <3>2, <3>3
    <3> QED  BY <2>3, <3>1, <3>4
  <2> HIDE DEF E
  <2> QED  BY <2>1, <2>3, <2>4, <2>5 DEF E
<1>4. Cardinality(A) = a /\ Cardinality(B) = b /\ IsFiniteSet(A) /\ IsFiniteSet(B)
  <2>1. a \in 0..n /\ b \in 0..n
    BY <1>1 DEF n
  <2> QED  BY <1>3, <2>1
<1>5. S = B \ A /\ A \in SUBSET B
  <2>1. ASSUME NEW d \in D
        PROVE  /\ RankIn(D, d) \in (a + 1)..b <=> RankIn(D, d) =< b /\ ~(RankIn(D, d) =< a)
               /\ RankIn(D, d) =< a => RankIn(D, d) =< b
    <3>1. RankIn(D, d) \in Int
      BY <1>1
    <3> QED  BY <3>1
  <2> QED  BY <2>1
<1>6. /\ IsFiniteSet(S) /\ S \subseteq Int /\ Cardinality(S) = b - a
  <2>1. B \cap A = A
    BY <1>5
  <2> HIDE DEF A, B, S
  <2>2. IsFiniteSet(B \ A) /\ Cardinality(B \ A) = Cardinality(B) - Cardinality(B \cap A)
    BY <1>4, FS_Difference
  <2>3. S \subseteq Int
    BY DEF S
  <2> QED  BY <1>4, <1>5, <2>1, <2>2, <2>3
<1>7. ASSUME NEW d \in S PROVE RankIn(S, d) = RankIn(D, d) - a
  <2> DEFINE C == {y \in D : RankIn(D, y) =< RankIn(D, d)}
  <2>1. RankIn(D, d) \in 0..n /\ d \in D /\ RankIn(D, d) \in (a + 1)..b
    BY <1>1
  <2>2. Cardinality(C) = RankIn(D, d) /\ IsFiniteSet(C)
    BY <1>3, <2>1
  <2>3. ASSUME NEW y \in D PROVE y =< d <=> RankIn(D, y) =< RankIn(D, d)
    <3>1. y \in Int /\ d \in Int /\ RankIn(D, y) \in Int /\ RankIn(D, d) \in Int
      BY <1>1, <2>1
    <3>2. y < d => RankIn(D, y) < RankIn(D, d)
      BY <1>1, <2>1
    <3>3. d < y => RankIn(D, d) < RankIn(D, y)
      BY <1>1, <2>1
    <3> QED  BY <3>1, <3>2, <3>3
  <2>4. {y \in S : y =< d} = C \ A /\ C \cap A = A
    <3>1. ASSUME NEW y \in D
          PROVE /\ y \in {z \in S : z =< d} <=> y \in C \ A
                /\ y \in A => y \in C
      <4>1. RankIn(D, y) \in 1..n
        BY <1>1
      <4> QED  BY <1>1, <2>1, <2>3, <4>1
    <3> QED  BY <3>1
  <2> HIDE DEF A, C, S
  <2>5. Cardinality(C \ A) = Cardinality(C) - Cardinality(C \cap A)
    BY <2>2, FS_Difference
  <2> QED  BY <1>4, <2>2, <2>4, <2>5 DEF RankIn
<1>8. /\ Dated(obs, S) \in Seq({Entry(obs, d) : d \in S}) /\ Len(Dated(obs, S)) = b - a
      /\ \A d \in S : Dated(obs, S)[RankIn(S, d)] = Entry(obs, d)
  BY <1>6, DatedInOrder
<1>9. ASSUME NEW k \in 1..(b - a) PROVE Dated(obs, S)[k] = Dated(obs, D)[a + k]
  <2>1. a + k \in 1..n /\ a + k \in (a + 1)..b /\ (a + k) - a = k
    BY <1>1 DEF n
  <2>2. PICK d \in D : RankIn(D, d) = a + k
    BY <1>1, <2>1
  <2>3. d \in S /\ RankIn(S, d) = k
    BY <1>7, <2>1, <2>2
  <2> QED  BY <1>2, <1>8, <2>2, <2>3
<1> HIDE DEF S
<1>10. DOMAIN Dated(obs, S) = 1..(b - a) /\ Dated(obs, S) = [k \in DOMAIN Dated(obs, S) |-> Dated(obs, S)[k]]
  BY <1>8
<1>11. Dated(obs, S) = [k \in 1..(b - a) |-> Dated(obs, D)[a + k]]
  BY <1>9, <1>10
<1> QED  BY <1>11 DEF S, Stretch

\* A transformation keeps the dates, and looks no further back than its context.
LEMMA TransformsLookBack ==
    ASSUME NEW t \in Transformations, NEW W, NEW n \in Nat, DOMAIN W = 1..n,
           NEW U, NEW k \in Nat, NEW m \in Nat, k + m =< n,
           U = Stretch(W, k, k + m)
    PROVE  /\ ContextSize(t) \in Nat
           /\ DOMAIN Transform(U, t) = 1..m
           /\ \A i \in 1..m : Transform(U, t)[i].date = U[i].date
           /\ \A i \in 1..m : k = 0 \/ i > ContextSize(t) => Transform(U, t)[i] = Transform(W, t)[k + i]
<1>1. DOMAIN U = 1..m /\ \A i \in 1..m : k + i \in 1..n /\ k + i \in DOMAIN W /\ U[i] = W[k + i]
  <2>1. (k + m) - k = m
    OBVIOUS
  <2>2. U = [i \in 1..m |-> W[k + i]]
    BY <2>1 DEF Stretch
  <2> QED  BY <2>2
<1>2. CASE t.type = "absolute_change"
  <2>1. Transform(U, t) = AbsoluteChange(U) /\ Transform(W, t) = AbsoluteChange(W) /\ ContextSize(t) = 1
    BY <1>2 DEF Transform, ContextSize
  <2>2. ASSUME NEW i \in 1..m, k = 0 \/ i > 1 PROVE AbsoluteChange(U)[i] = AbsoluteChange(W)[k + i]
    <3>1. i = 1 <=> k + i = 1
      BY <2>2
    <3>2. i # 1 => i - 1 \in 1..m /\ k + (i - 1) = (k + i) - 1
      OBVIOUS
    <3>3. i # 1 => U[i - 1] = W[(k + i) - 1]
      BY <1>1, <3>2
    <3> QED  BY <1>1, <3>1, <3>3 DEF AbsoluteChange
  <2>3. /\ DOMAIN AbsoluteChange(U) = 1..m
        /\ \A i \in 1..m : AbsoluteChange(U)[i].date = U[i].date
    BY <1>1 DEF AbsoluteChange
  <2> QED  BY <2>1, <2>2, <2>3
<1>3. CASE t.type = "percent_change"
  <2>1. Transform(U, t) = PercentChange(U) /\ Transform(W, t) = PercentChange(W) /\ ContextSize(t) = 1
    BY <1>3 DEF Transform, ContextSize
  <2>2. ASSUME NEW i \in 1..m, k = 0 \/ i > 1 PROVE PercentChange(U)[i] = PercentChange(W)[k + i]
    <3>1. i = 1 <=> k + i = 1
      BY <2>2
    <3>2. i # 1 => i - 1 \in 1..m /\ k + (i - 1) = (k + i) - 1
      OBVIOUS
    <3>3. i # 1 => U[i - 1] = W[(k + i) - 1]
      BY <1>1, <3>2
    <3> QED  BY <1>1, <3>1, <3>3 DEF PercentChange
  <2>3. /\ DOMAIN PercentChange(U) = 1..m
        /\ \A i \in 1..m : PercentChange(U)[i].date = U[i].date
    BY <1>1 DEF PercentChange
  <2> QED  BY <2>1, <2>2, <2>3
<1>4. CASE t.type \notin {"absolute_change", "percent_change"}
  <2> DEFINE w == t.window
  <2>0. t.type = "moving_average" /\ w \in Nat /\ w # 0
    BY <1>4, ReadsAssumption DEF Transformations
  <2>1. /\ Transform(U, t) = MovingAverage(U, w) /\ Transform(W, t) = MovingAverage(W, w)
        /\ ContextSize(t) = w - 1
    BY <1>4, <2>0 DEF Transform, ContextSize
  <2> HIDE DEF w
  <2>2. ASSUME NEW i \in 1..m, k = 0 \/ i > w - 1 PROVE MovingAverage(U, w)[i] = MovingAverage(W, w)[k + i]
    <3>1. i < w <=> k + i < w
      BY <2>0, <2>2
    <3>2. ASSUME ~(i < w)
          PROVE  /\ \A j \in (i - w + 1)..i : j \in 1..m /\ k + j \in ((k + i) - w + 1)..(k + i)
                 /\ \A j \in ((k + i) - w + 1)..(k + i) : j - k \in (i - w + 1)..i /\ k + (j - k) = j
                 /\ \A j \in 1..w : (i - w + 1) + j - 1 \in 1..m
                                    /\ k + ((i - w + 1) + j - 1) = ((k + i) - w + 1) + j - 1
                 /\ i - (i - w + 1) + 1 = w /\ (k + i) - ((k + i) - w + 1) + 1 = w
      BY <2>0, <3>2
    <3>3. ASSUME ~(i < w)
          PROVE  (\E j \in (i - w + 1)..i : U[j].value = Null)
                   <=> (\E j \in ((k + i) - w + 1)..(k + i) : W[j].value = Null)
      BY <1>1, <3>2, <3>3
    <3>4. ASSUME ~(i < w)
          PROVE  SubSeq(U, i - w + 1, i) = SubSeq(W, (k + i) - w + 1, k + i)
      <4>1. SubSeq(U, i - w + 1, i) = [j \in 1..(i - (i - w + 1) + 1) |-> U[(i - w + 1) + j - 1]]
        BY <2>0
      <4>2. SubSeq(W, (k + i) - w + 1, k + i)
              = [j \in 1..((k + i) - ((k + i) - w + 1) + 1) |-> W[((k + i) - w + 1) + j - 1]]
        BY <2>0
      <4>3. SubSeq(U, i - w + 1, i) = [j \in 1..w |-> U[(i - w + 1) + j - 1]]
        BY <3>2, <3>4, <4>1
      <4>4. SubSeq(W, (k + i) - w + 1, k + i) = [j \in 1..w |-> W[((k + i) - w + 1) + j - 1]]
        BY <3>2, <3>4, <4>2
      <4>5. \A j \in 1..w : U[(i - w + 1) + j - 1] = W[((k + i) - w + 1) + j - 1]
        BY <1>1, <3>2, <3>4
      <4> QED  BY <4>3, <4>4, <4>5
    <3>5. MovingAverage(U, w)[i] =
            [date |-> U[i].date,
             value |-> IF i < w \/ \E j \in (i - w + 1)..i : U[j].value = Null THEN Null
                       ELSE <<FoldLeft(LAMBDA sum, o : sum + o.value, 0, SubSeq(U, i - w + 1, i)), w>>]
      BY <1>1 DEF MovingAverage
    <3>6. MovingAverage(W, w)[k + i] =
            [date |-> W[k + i].date,
             value |-> IF k + i < w \/ \E j \in ((k + i) - w + 1)..(k + i) : W[j].value = Null THEN Null
                       ELSE <<FoldLeft(LAMBDA sum, o : sum + o.value, 0, SubSeq(W, (k + i) - w + 1, k + i)), w>>]
      BY <1>1 DEF MovingAverage
    <3>7. CASE i < w
      BY <1>1, <3>1, <3>5, <3>6, <3>7
    <3>8. CASE ~(i < w)
      BY <1>1, <3>1, <3>3, <3>4, <3>5, <3>6, <3>8
    <3> QED  BY <3>7, <3>8
  <2>3. /\ DOMAIN MovingAverage(U, w) = 1..m
        /\ \A i \in 1..m : MovingAverage(U, w)[i].date = U[i].date
    BY <1>1 DEF MovingAverage
  <2> QED  BY <2>0, <2>1, <2>2, <2>3
<1> QED  BY <1>2, <1>3, <1>4

LEMMA TransformsKeepDates ==
    ASSUME NEW t \in Transformations, NEW list, NEW size, DOMAIN list = 1..size
    PROVE  /\ DOMAIN Transform(list, t) = 1..size
           /\ Listed(Transform(list, t), size)
           /\ \A i \in 1..size : Transform(list, t)[i].date = list[i].date
<1>1. /\ DOMAIN AbsoluteChange(list) = 1..size
      /\ Listed(AbsoluteChange(list), size)
      /\ \A i \in 1..size : AbsoluteChange(list)[i].date = list[i].date
  BY DEF AbsoluteChange, Listed
<1>2. /\ DOMAIN PercentChange(list) = 1..size
      /\ Listed(PercentChange(list), size)
      /\ \A i \in 1..size : PercentChange(list)[i].date = list[i].date
  BY DEF PercentChange, Listed
<1>3. /\ DOMAIN MovingAverage(list, t.window) = 1..size
      /\ Listed(MovingAverage(list, t.window), size)
      /\ \A i \in 1..size : MovingAverage(list, t.window)[i].date = list[i].date
  BY DEF MovingAverage, Listed
<1> QED  BY <1>1, <1>2, <1>3 DEF Transform

\* An answer for a range is a stretch of the answer for everything.
LEMMA RangeOfAnswers ==
    ASSUME NEW obs, History(obs), NEW t \in Transformations,
           NEW start \in Int \cup {Null}, NEW end \in Int \cup {Null}
    PROVE  LET whole == GetTransformedObservations(obs, t, Null, Null)
           IN  GetTransformedObservations(obs, t, start, end)
                 = Selected(whole, {i \in DOMAIN whole : InRange(whole[i].date, start, end)})
<1> DEFINE D == DOMAIN obs
           n == Cardinality(D)
           W == Dated(obs, D)
           T == {Entry(obs, d) : d \in D}
           rank(d) == RankIn(D, d)
           E == {d \in D : start # Null /\ d < start}
           F == {d \in D : end = Null \/ d =< end}
           a == Cardinality(E)
           f == Cardinality(F)
           b == IF f < a THEN a ELSE f
           c == ContextSize(t)
           l == IF a < c THEN 0 ELSE a - c
           C == {d \in E : Cardinality({e \in E : e > d}) < c}
           R == {d \in D : InRange(d, start, end)}
           whole == GetTransformedObservations(obs, t, Null, Null)
<1>1. IsFiniteSet(D) /\ D \subseteq Int
  BY DEF History
<1>2. /\ n \in Nat
      /\ \A d \in D : rank(d) \in 1..n
      /\ \A i \in 1..n : \E d \in D : rank(d) = i
  BY <1>1, RankedDates
<1>3. /\ W \in Seq(T) /\ Len(W) = n
      /\ \A d \in D : W[rank(d)] = Entry(obs, d)
  BY <1>1, DatedInOrder
<1>4. DOMAIN W = 1..n
  <2> HIDE DEF W, T, n
  <2> QED  BY <1>3
<1>5. /\ a \in 0..n /\ \A d \in D : d \in E <=> rank(d) =< a
      /\ \A d \in E : RankIn(E, d) = rank(d)
  <2>1. E \in SUBSET D
    OBVIOUS
  <2>2. ASSUME NEW d \in E, NEW e \in D, e =< d PROVE e \in E
    <3>1. start \in Int /\ d \in Int /\ e \in Int /\ d < start
      BY <1>1
    <3>2. e < start
      BY <2>2, <3>1
    <3> QED  BY <3>2
  <2> HIDE DEF E
  <2> QED  BY <1>1, <2>1, <2>2, FirstRanks
<1>6. f \in 0..n /\ \A d \in D : d \in F <=> rank(d) =< f
  <2>1. F \in SUBSET D
    OBVIOUS
  <2>2. ASSUME NEW d \in F, NEW e \in D, e =< d PROVE e \in F
    <3>1. CASE end = Null
      BY <3>1
    <3>2. CASE end # Null
      <4>1. end \in Int /\ d \in Int /\ e \in Int /\ d =< end
        BY <1>1, <3>2
      <4>2. e =< end
        BY <2>2, <4>1
      <4> QED  BY <4>2
    <3> QED  BY <3>1, <3>2
  <2> HIDE DEF F
  <2> QED  BY <1>1, <2>1, <2>2, FirstRanks
<1>7. c \in Nat
  <2>1. 0 \in Nat /\ 0 + 0 =< 0
    OBVIOUS
  <2>2. <<>> = Stretch(<<>>, 0, 0 + 0) /\ DOMAIN <<>> = 1..0
    BY DEF Stretch
  <2> QED  BY <2>1, <2>2, TransformsLookBack
<1>8. /\ l \in Nat /\ l =< a /\ b \in Nat /\ a =< b /\ b =< n
      /\ a - l = c \/ l = 0
  <2> HIDE DEF a, c, f, n
  <2> QED  BY <1>2, <1>5, <1>6, <1>7
<1>9. C = {d \in D : rank(d) \in (l + 1)..a}
  <2>1. E \in SUBSET D /\ IsFiniteSet(E) /\ E \subseteq Int
    BY <1>1, FS_Subset
  <2>2. ASSUME NEW d \in E PROVE Cardinality({e \in E : e > d}) = a - rank(d)
    <3>1. {e \in E : e > d} = E \ {e \in E : e =< d} /\ E \cap {e \in E : e =< d} = {e \in E : e =< d}
      <4>1. d \in Int /\ \A e \in E : e \in Int
        BY <2>1
      <4>2. \A e \in E : e > d <=> ~(e =< d)
        BY <4>1
      <4> HIDE DEF E
      <4> QED  BY <4>2
    <3> HIDE DEF E
    <3>2. Cardinality(E \ {e \in E : e =< d}) = Cardinality(E) - Cardinality(E \cap {e \in E : e =< d})
      BY <2>1, FS_Difference
    <3> QED  BY <1>5, <3>1, <3>2 DEF RankIn
  <2> HIDE DEF E
  <2>3. ASSUME NEW d \in D PROVE d \in C <=> rank(d) \in (l + 1)..a
    <3>1. rank(d) \in 1..n /\ (d \in E <=> rank(d) =< a) /\ l \in Nat /\ a \in Nat /\ c \in Nat
      BY <1>2, <1>5, <1>7, <1>8
    <3>2. d \in E => (d \in C <=> a - rank(d) < c)
      BY <2>2
    <3>3. d \notin E => d \notin C
      OBVIOUS
    <3> HIDE DEF C, a, c, n, rank
    <3>4. CASE d \in E
      <4>1. a - rank(d) < c <=> rank(d) > l
        BY <3>1
      <4> QED  BY <3>1, <3>2, <3>4, <4>1
    <3>5. CASE d \notin E
      BY <3>1, <3>3, <3>5
    <3> QED  BY <3>4, <3>5
  <2>4. C \subseteq D
    BY <2>1
  <2> HIDE DEF C, rank
  <2> QED  BY <2>3, <2>4
<1>10. R = {d \in D : rank(d) \in (a + 1)..b}
  <2>1. ASSUME NEW d \in D PROVE InRange(d, start, end) <=> rank(d) \in (a + 1)..b
    <3>1. InRange(d, start, end) <=> d \notin E /\ d \in F
      <4>1. d \in Int
        BY <1>1
      <4>2. start # Null => (start =< d <=> ~(d < start))
        BY <4>1
      <4> QED  BY <4>2 DEF InRange
    <3>2. rank(d) \in 1..n /\ (d \in E <=> rank(d) =< a) /\ (d \in F <=> rank(d) =< f)
      BY <1>2, <1>5, <1>6
    <3> HIDE DEF E, F, a, f, n, rank
    <3> QED  BY <1>5, <1>6, <3>1, <3>2
  <2> QED  BY <2>1
<1> DEFINE context == IF start = Null THEN <<>> ELSE PrecedingObservations(obs, start, c)
           range == ObservationsInRange(obs, start, end)
           U == Stretch(W, l, b)
<1>11. context = Stretch(W, l, a)
  <2>1. Dated(obs, {d \in D : rank(d) \in (l + 1)..a}) = Stretch(W, l, a)
    <3>1. a =< n
      BY <1>5
    <3> HIDE DEF l, a
    <3> QED  BY <1>1, <1>5, <1>8, <3>1, DatedRun
  <2>2. CASE start = Null
    <3>1. E = {} /\ a = 0
      BY <2>2, FS_EmptySet
    <3>2. a - l = 0
      <4> HIDE DEF a, l
      <4> QED  BY <1>8, <3>1
    <3>3. context = <<>>
      BY <2>2
    <3> HIDE DEF context, a, l
    <3> QED  BY <3>2, <3>3 DEF Stretch
  <2>3. CASE start # Null
    <3>1. E = {d \in D : d < start}
      BY <2>3
    <3>2. PrecedingObservations(obs, start, c) = Dated(obs, C)
      BY <3>1 DEF PrecedingObservations
    <3> QED  BY <1>9, <2>1, <2>3, <3>2
  <2> QED  BY <2>2, <2>3
<1>12. range = Stretch(W, a, b)
  <2>1. Dated(obs, {d \in D : rank(d) \in (a + 1)..b}) = Stretch(W, a, b)
    <3>1. a \in Nat /\ b \in Nat /\ a =< b /\ b =< n
      BY <1>5, <1>8
    <3> HIDE DEF a, b
    <3>2. b =< Cardinality(D)
      BY <3>1
    <3>3. Dated(obs, {d \in D : RankIn(D, d) \in (a + 1)..b}) = Stretch(Dated(obs, D), a, b)
      BY <1>1, <3>1, <3>2, DatedRun
    <3> QED  BY <3>3
  <2> QED  BY <1>10, <2>1 DEF ObservationsInRange
<1> HIDE DEF context, range, W, T, n, a, b, c, f, l, whole
<1>13. /\ Len(context) = a - l /\ Len(range) = b - a
       /\ context \o range = U /\ Len(U) = b - l /\ DOMAIN U = 1..(b - l)
  <2>0. a - l \in Nat /\ b - a \in Nat /\ b - l \in Nat /\ (a - l) + (b - a) = b - l
    BY <1>5, <1>8
  <2>1. /\ \A i \in 1..(a - l) : l + i \in 1..n /\ W[l + i] \in T
        /\ \A i \in 1..(b - a) : a + i \in 1..n /\ W[a + i] \in T
    BY <1>2, <1>3, <1>5, <1>8
  <2>2. context \in [1..(a - l) -> T] /\ range \in [1..(b - a) -> T]
    BY <1>11, <1>12, <2>1 DEF Stretch
  <2>3. context \in Seq(T) /\ range \in Seq(T) /\ Len(context) = a - l /\ Len(range) = b - a
    BY <2>0, <2>2
  <2>4. /\ context \o range \in Seq(T) /\ Len(context \o range) = b - l
        /\ \A i \in 1..(b - l) :
             (context \o range)[i] = IF i =< a - l THEN context[i] ELSE range[i - (a - l)]
    <3>1. /\ Len(context \o range) = Len(context) + Len(range)
          /\ context \o range \in Seq(T)
          /\ \A i \in 1..(Len(context) + Len(range)) :
               (context \o range)[i] = IF i =< Len(context) THEN context[i] ELSE range[i - Len(context)]
      BY <2>3, ConcatProperties
    <3> QED  BY <2>0, <2>3, <3>1
  <2>5. ASSUME NEW i \in 1..(b - l) PROVE (context \o range)[i] = W[l + i]
    <3>1. CASE i =< a - l
      <4>1. i \in 1..(a - l)
        BY <2>0, <3>1
      <4> QED  BY <1>11, <2>4, <3>1, <4>1 DEF Stretch
    <3>2. CASE ~(i =< a - l)
      <4>1. i - (a - l) \in 1..(b - a) /\ a + (i - (a - l)) = l + i
        BY <1>5, <1>8, <2>0, <3>2
      <4>2. range[i - (a - l)] = W[a + (i - (a - l))]
        BY <1>12, <4>1 DEF Stretch
      <4> QED  BY <2>4, <3>2, <4>1, <4>2
    <3> QED  BY <3>1, <3>2
  <2>6. context \o range = [i \in 1..(b - l) |-> (context \o range)[i]]
    <3> DEFINE both == context \o range
    <3>1. both \in Seq(T) /\ Len(both) = b - l
      BY <2>4
    <3> HIDE DEF both
    <3>2. DOMAIN both = 1..(b - l) /\ both = [k \in DOMAIN both |-> both[k]]
      BY <3>1
    <3>3. both = [i \in 1..(b - l) |-> both[i]]
      BY <3>2
    <3> QED  BY <3>3 DEF both
  <2>7. context \o range = U
    BY <2>5, <2>6 DEF Stretch
  <2>8. DOMAIN U = 1..(b - l)
    BY DEF Stretch
  <2> HIDE DEF U
  <2> QED  BY <2>0, <2>3, <2>4, <2>7, <2>8
<1> DEFINE V == Transform(U, t)
           whole2 == Transform(W, t)
<1>14. /\ DOMAIN V = 1..(b - l)
       /\ \A i \in 1..(b - l) : l = 0 \/ i > c => V[i] = whole2[l + i]
  <2> DEFINE m == b - l
  <2>1. m \in Nat /\ l + m =< n /\ n \in Nat /\ l \in Nat /\ l + m = b
    BY <1>2, <1>5, <1>8
  <2>2. U = Stretch(W, l, l + m)
    BY <2>1
  <2> HIDE DEF U, m
  <2>3. /\ DOMAIN Transform(U, t) = 1..m
        /\ \A i \in 1..m : l = 0 \/ i > ContextSize(t) => Transform(U, t)[i] = Transform(W, t)[l + i]
    BY <1>4, <2>1, <2>2, TransformsLookBack
  <2> QED  BY <2>3 DEF c, m
<1>15. /\ DOMAIN whole2 = 1..n /\ Listed(whole2, n)
       /\ \A i \in 1..n : whole2[i].date = W[i].date
  BY <1>4, TransformsKeepDates
<1> HIDE DEF V, whole2, U
<1>16. GetTransformedObservations(obs, t, start, end) = Stretch(whole2, a, b)
  <2>1. GetTransformedObservations(obs, t, start, end) = SubSeq(V, (a - l) + 1, b - l)
    <3>1. GetTransformedObservations(obs, t, start, end)
            = SubSeq(Transform(context \o range, t), Len(context) + 1, Len(context \o range))
      BY DEF GetTransformedObservations, context, range, c
    <3> QED  BY <1>13, <3>1 DEF V
  <2>2. (a - l) + 1 \in Int /\ b - l \in Int /\ (b - l) - ((a - l) + 1) + 1 = b - a
    BY <1>5, <1>8
  <2>3. SubSeq(V, (a - l) + 1, b - l) = [k \in 1..(b - a) |-> V[((a - l) + 1) + k - 1]]
    <3>1. SubSeq(V, (a - l) + 1, b - l)
            = [k \in 1..((b - l) - ((a - l) + 1) + 1) |-> V[((a - l) + 1) + k - 1]]
      BY <2>2
    <3> QED  BY <2>2, <3>1
  <2>4. ASSUME NEW k \in 1..(b - a) PROVE V[((a - l) + 1) + k - 1] = whole2[a + k]
    <3>1. /\ ((a - l) + 1) + k - 1 \in 1..(b - l)
          /\ l = 0 \/ ((a - l) + 1) + k - 1 > c
          /\ l + (((a - l) + 1) + k - 1) = a + k
      BY <1>5, <1>7, <1>8
    <3> QED  BY <1>14, <3>1
  <2> QED  BY <2>1, <2>3, <2>4 DEF Stretch
<1>17. whole = whole2
  <2>1. ObservationsInRange(obs, Null, Null) = W
    <3>1. {d \in D : InRange(d, Null, Null)} = D
      BY DEF InRange
    <3> QED  BY <3>1 DEF ObservationsInRange, W
  <2>2. whole = SubSeq(Transform(<<>> \o W, t), Len(<<>>) + 1, Len(<<>> \o W))
    BY <2>1 DEF whole, GetTransformedObservations
  <2>3. <<>> \o W = W /\ Len(<<>>) = 0
    BY <1>3
  <2>4. whole = SubSeq(whole2, 1, n)
    BY <1>3, <2>2, <2>3 DEF whole2
  <2>5. SubSeq(whole2, 1, n) = [k \in 1..(n - 1 + 1) |-> whole2[1 + k - 1]]
    BY <1>2
  <2>6. n - 1 + 1 = n /\ \A k \in 1..n : 1 + k - 1 = k
    BY <1>2
  <2> QED  BY <1>15, <2>4, <2>5, <2>6 DEF Listed
<1>18. {i \in DOMAIN whole : InRange(whole[i].date, start, end)} = (a + 1)..b
  <2>1. ASSUME NEW i \in 1..n PROVE InRange(whole2[i].date, start, end) <=> i \in (a + 1)..b
    <3>1. PICK d \in D : rank(d) = i
      BY <1>2
    <3>2. W[i].date = d
      <4>1. W[i] = Entry(obs, d)
        BY <1>3, <3>1
      <4> QED  BY <4>1 DEF Entry
    <3>4. whole2[i].date = d
      BY <1>15, <3>2
    <3>3. d \in R <=> rank(d) \in (a + 1)..b
      BY <1>10
    <3> QED  BY <3>1, <3>4, <3>3
  <2>2. (a + 1)..b \subseteq 1..n
    BY <1>2, <1>5, <1>8
  <2> HIDE DEF rank, R
  <2> QED  BY <1>15, <1>17, <2>1, <2>2
<1>19. Selected(whole, (a + 1)..b) = Stretch(whole, a, b)
  BY <1>5, <1>8, SelectedRun
<1> QED  BY <1>16, <1>17, <1>18, <1>19 DEF whole

\* TransformsDoNotDependOnTheRange: what a date is told is the same in every range
\* that holds it, for every history, transformation and window.
THEOREM AnswersDoNotDependOnTheRange == Spec => []TransformsDoNotDependOnTheRange
<1>1. ReadsInv => TransformsDoNotDependOnTheRange
  <2> SUFFICES ASSUME ReadsInv, NEW start \in Starts, NEW end \in Ends
               PROVE  /\ \A series \in ReadSeries, t \in Transformations :
                           LET whole == GetTransformedObservations(stored[series], t, Null, Null)
                           IN  GetTransformedObservations(stored[series], t, start, end)
                                 = Selected(whole, {i \in DOMAIN whole : InRange(whole[i].date, start, end)})
                      /\ \A a, b \in ReadSeries, analysis \in {"aligned", "spread", "correlation"} :
                           Pipeline(stored[a], Null, stored[b], Null, analysis, start, end)
                             = CompareSeries(stored[a], stored[b], analysis, start, end)
    BY DEF TransformsDoNotDependOnTheRange
  <2>1. start \in Int \cup {Null} /\ end \in Int \cup {Null}
    BY ReadsAssumption
  <2>2. \A series \in ReadSeries : History(stored[series])
    BY DEF ReadsInv
  <2>3. \A a, b \in ReadSeries, analysis \in {"aligned", "spread", "correlation"} :
          Pipeline(stored[a], Null, stored[b], Null, analysis, start, end)
            = CompareSeries(stored[a], stored[b], analysis, start, end)
    BY DEF Pipeline, ResolveObservations, CompareSeries
  <2> QED  BY <2>1, <2>2, <2>3, RangeOfAnswers
<1> QED  BY ReadsInvInductive, <1>1, PTL
=============================================================================
