------------------------------- MODULE Ordering -------------------------------
(* What ORDER BY and sorted make of a set: a list of its elements, each    *)
(* once, in the order of the pairs R.                                      *)
EXTENDS Integers, FiniteSets

InOrder(S, R) ==
  CHOOSE o \in [1..Cardinality(S) -> S] :
    \A i, j \in DOMAIN o : i < j => <<o[i], o[j]>> \in R
=============================================================================
