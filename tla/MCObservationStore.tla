------------------------- MODULE MCObservationStore -------------------------
(* Two sessions racing on two observations: an import or sync and one      *)
(* release-processing occurrence.                                          *)
EXTENDS ObservationStore, TLC

CONSTANTS o1, o2, x, y

\* Observations are interchangeable, and so are values.
Symmetry == Permutations({o1, o2}) \cup Permutations({x, y})

\* Bound: an import takes all of what it writes for published history, or
\* none of it, and release processing carries both observations only while no
\* import is under way.
Batch(w) == {i.obs : i \in todo[w] \cup pending[w]}
SmallBatches ==
    /\ \A w \in Writers : \A i, j \in todo[w] : i.baseline = j.baseline
    /\ \A w \in Processors :
          Cardinality(Batch(w)) <= 1 \/ \A u \in Writers \ Processors : pc[u] = "idle"
=============================================================================
