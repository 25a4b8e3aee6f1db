------------------------------ MODULE SortedSets ------------------------------
(* sorted() of a set of different values, as a function of the position.    *)
(* The order is a set of pairs and not an operator, so that facts about it  *)
(* can be stated once for every order.                                      *)
EXTENDS Integers, FiniteSets

(* The i-th element is the one that i - 1 elements precede.                 *)
InOrder(S, precedes) ==
  [i \in 1 .. Cardinality(S) |->
     CHOOSE x \in S : Cardinality({y \in S : <<y, x>> \in precedes}) = i - 1]

Ascending(S) == InOrder(S, {p \in S \X S : p[1] < p[2]})
===============================================================================
