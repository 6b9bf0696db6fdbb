------------------------------ MODULE Folding ------------------------------
(***************************************************************************)
(* Induction over the folds of the community modules: what holds before the  *)
(* first element and is kept by each holds after the last.  ctx stands for   *)
(* whatever else the folded operator depends on.                             *)
(***************************************************************************)
EXTENDS Integers, FiniteSets, Folds, FiniteSetTheorems, WellFoundedInduction, TLAPS

CONSTANTS
    Step(_, _, _),   \* an element, what was accumulated before it, ctx
    Choose(_),       \* the last element of a set
    Holds(_, _, _)   \* what was accumulated, from which elements, ctx

Fold(base, S, ctx) ==
    MapThenFoldSet(LAMBDA x, acc : Step(x, acc, ctx), base, LAMBDA x : x, Choose, S)

\* it is the fold of each set of a family.
Folded(it, family, base, ctx) ==
    it = [s \in family |-> IF s = {} THEN base ELSE Step(Choose(s), it[s \ {Choose(s)}], ctx)]

\* A least natural number with a property.
LEMMA LeastNatural ==
    ASSUME NEW N \in SUBSET Nat, N # {}
    PROVE  \E n \in N : \A m \in N : n =< m
<1> DEFINE R == OpToRel(<, Nat)
<1>1. IsWellFoundedOn(R, Nat)
  BY NatLessThanWellFounded
<1>2. R = {pair \in Nat \X Nat : pair[1] < pair[2]}
  BY DEF OpToRel
<1> HIDE DEF R
<1>3. PICK n \in N : \A m \in N : ~(<<m, n>> \in R)
  BY <1>1, WFMin
<1>4. \A m \in N : ~(m < n)
  BY <1>2, <1>3
<1> QED  BY <1>4

Small(S, n) == {s \in SUBSET S : Cardinality(s) =< n}

\* One element less.
LEMMA Smaller ==
    ASSUME NEW S, IsFiniteSet(S), \A s \in SUBSET S : s # {} => Choose(s) \in s,
           NEW s \in SUBSET S, s # {}
    PROVE  /\ s \ {Choose(s)} \in SUBSET S
           /\ Cardinality(s) \in Nat /\ Cardinality(s) # 0
           /\ Cardinality(s \ {Choose(s)}) = Cardinality(s) - 1
<1>1. IsFiniteSet(s) /\ Choose(s) \in s
  BY FS_Subset
<1> QED  BY <1>1, FS_RemoveElement, FS_EmptySet, FS_CardinalityType

LEMMA FoldExists ==
    ASSUME NEW S, IsFiniteSet(S), \A s \in SUBSET S : s # {} => Choose(s) \in s, NEW base, NEW ctx
    PROVE  \E it : Folded(it, SUBSET S, base, ctx)
<1> DEFINE Without == {n \in Nat : ~\E it : Folded(it, Small(S, n), base, ctx)}
<1>1. \A s \in SUBSET S : IsFiniteSet(s) /\ Cardinality(s) \in Nat
  BY FS_Subset, FS_CardinalityType
<1>2. \A s \in SUBSET S : Cardinality(s) = 0 <=> s = {}
  BY <1>1, FS_EmptySet
<1>3. Without = {}
  <2> SUFFICES ASSUME Without # {} PROVE FALSE
    OBVIOUS
  <2>1. PICK n \in Without : \A m \in Without : n =< m
    BY LeastNatural
  <2>2. CASE n = 0
    <3> DEFINE it == [s \in Small(S, 0) |-> base]
    <3>1. \A s \in Small(S, 0) : s = {}
      BY <1>1, <1>2 DEF Small
    <3>2. Folded(it, Small(S, 0), base, ctx)
      BY <3>1 DEF Folded
    <3> QED  BY <2>1, <2>2, <3>2
  <2>3. CASE n # 0
    <3>1. n - 1 \in Nat /\ n - 1 \notin Without
      BY <2>1, <2>3
    <3>2. PICK less : Folded(less, Small(S, n - 1), base, ctx)
      BY <3>1
    <3> DEFINE it == [s \in Small(S, n) |->
                        IF s = {} THEN base ELSE Step(Choose(s), less[s \ {Choose(s)}], ctx)]
    <3>3. ASSUME NEW s \in Small(S, n), s # {}
          PROVE  s \ {Choose(s)} \in Small(S, n - 1) /\ s \ {Choose(s)} \in Small(S, n)
      <4>1. /\ s \in SUBSET S /\ Cardinality(s) =< n
        BY DEF Small
      <4>2. /\ s \ {Choose(s)} \in SUBSET S /\ Cardinality(s) \in Nat
            /\ Cardinality(s \ {Choose(s)}) = Cardinality(s) - 1
        BY <3>3, <4>1, Smaller
      <4>3. n \in Nat
        BY <2>1
      <4> QED  BY <4>1, <4>2, <4>3 DEF Small
    <3>4. ASSUME NEW s \in Small(S, n - 1) PROVE s \in Small(S, n) /\ it[s] = less[s]
      <4>1. s \in Small(S, n)
        BY <1>1, <2>1 DEF Small
      <4>2. less[s] = IF s = {} THEN base ELSE Step(Choose(s), less[s \ {Choose(s)}], ctx)
        BY <3>2 DEF Folded
      <4> QED  BY <4>1, <4>2
    <3>5. \A s \in Small(S, n) : s # {} => it[s \ {Choose(s)}] = less[s \ {Choose(s)}]
      BY <3>3, <3>4
    <3>6. Folded(it, Small(S, n), base, ctx)
      BY <3>5 DEF Folded
    <3> QED  BY <2>1, <3>6
  <2> QED  BY <2>2, <2>3
<1>4. Cardinality(S) \in Nat /\ Small(S, Cardinality(S)) = SUBSET S
  BY FS_Subset, FS_CardinalityType DEF Small
<1>5. \E it : Folded(it, Small(S, Cardinality(S)), base, ctx)
  <2> DEFINE n == Cardinality(S)
  <2>1. n \in Nat /\ n \notin Without
    BY <1>3, <1>4
  <2> HIDE DEF n
  <2>2. \E it : Folded(it, Small(S, n), base, ctx)
    BY <2>1
  <2> QED  BY <2>2 DEF n
<1> QED  BY <1>4, <1>5

\* Choose picks an element of each set there is.
Chooses(S) == \A s \in SUBSET S : s # {} => Choose(s) \in s

\* No element breaks what held before it.
Keeps(S, ctx) ==
    \A s \in SUBSET S : \A acc :
      s # {} /\ Holds(acc, s \ {Choose(s)}, ctx) => Holds(Step(Choose(s), acc, ctx), s, ctx)

\* What holds of nothing, and is kept by each element, holds of the fold.
THEOREM FoldKeeps ==
    ASSUME NEW S, IsFiniteSet(S), Chooses(S), NEW base, NEW ctx, Holds(base, {}, ctx), Keeps(S, ctx)
    PROVE  Holds(Fold(base, S, ctx), S, ctx)
<1>0. /\ \A s \in SUBSET S : s # {} => Choose(s) \in s
      /\ \A s \in SUBSET S : \A acc :
           s # {} /\ Holds(acc, s \ {Choose(s)}, ctx) => Holds(Step(Choose(s), acc, ctx), s, ctx)
  BY DEF Chooses, Keeps
<1> DEFINE it == CHOOSE jt : Folded(jt, SUBSET S, base, ctx)
<1>1. Folded(it, SUBSET S, base, ctx)
  BY <1>0, FoldExists
<1>2. Fold(base, S, ctx) = it[S]
  BY DEF Fold, MapThenFoldSet, Folded
<1> HIDE DEF it
<1>3. \A s \in SUBSET S : it[s] = IF s = {} THEN base ELSE Step(Choose(s), it[s \ {Choose(s)}], ctx)
  BY <1>1 DEF Folded
<1> DEFINE Wrong == {s \in SUBSET S : ~Holds(it[s], s, ctx)}
<1>4. Wrong = {}
  <2> SUFFICES ASSUME Wrong # {} PROVE FALSE
    OBVIOUS
  <2> DEFINE sizes == {Cardinality(s) : s \in Wrong}
  <2>1. sizes \in SUBSET Nat /\ sizes # {}
    BY FS_Subset, FS_CardinalityType
  <2>2. PICK n \in sizes : \A m \in sizes : n =< m
    BY <2>1, LeastNatural
  <2>3. PICK s \in Wrong : Cardinality(s) = n
    BY <2>2
  <2>4. s # {}
    BY <1>3, <2>3
  <2> DEFINE t == s \ {Choose(s)}
  <2>5. /\ t \in SUBSET S /\ Cardinality(s) \in Nat /\ Cardinality(t) = Cardinality(s) - 1
    BY <1>0, <2>3, <2>4, Smaller
  <2>6. t \notin Wrong
    <3>1. ~(Cardinality(s) =< Cardinality(t))
      BY <2>5
    <3> QED  BY <2>2, <2>3, <3>1
  <2>7. Holds(it[t], t, ctx)
    BY <2>5, <2>6
  <2> QED  BY <1>0, <1>3, <2>3, <2>4, <2>7
<1> QED  BY <1>2, <1>4
=============================================================================
