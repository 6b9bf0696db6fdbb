------------------------------- MODULE Values -------------------------------
(***************************************************************************)
(* The value that is not there: None of the code, NULL of the database; and   *)
(* two ways to pick from a list.                                             *)
(***************************************************************************)
EXTENDS Integers, FiniteSets

CONSTANT Null

\* The items at some positions of a list, in their order.
Selected(list, positions) ==
    [k \in 1..Cardinality(positions) |->
       list[CHOOSE i \in positions : Cardinality({j \in positions : j =< i}) = k]]

\* A list sorted by period; the items of one period stay in their order.
SortedByPeriod(list) ==
    LET notAfter(j, i) == \/ list[j].period < list[i].period
                          \/ list[j].period = list[i].period /\ j =< i
    IN  [k \in DOMAIN list |->
           list[CHOOSE i \in DOMAIN list : Cardinality({j \in DOMAIN list : notAfter(j, i)}) = k]]
=============================================================================
