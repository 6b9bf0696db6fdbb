--------------------------- MODULE MCMaintenance ---------------------------
(* Occurrence 1 is scheduled for day 0 and occurrence 2 for day 1, so that *)
(* the two windows open and close on different days.                       *)
EXTENDS Maintenance, TLC

CONSTANTS s1, s2, m

MCScheduledDate == [o \in Occurrences |-> o - 1]

\* The hosts that sweeps run on are interchangeable.
Symmetry == Permutations({s1, s2})
=============================================================================
