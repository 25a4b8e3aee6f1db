----------------------------- MODULE MCDoseLadder -----------------------------
(* The route counts of the planner's runs, for the dose ladder. *)
EXTENDS DoseLadder, MCPlanner

(* In both sources the first request goes to the first destination and the *)
(* others to the second: FIFO costs 6, a plan that keeps the two first     *)
(* requests apart 4, and no plan costs 5.                                  *)
AlikeSources ==
  {[s \in Source |-> [r \in Request |-> [l \in Layer |-> [d \in Source |->
      IF (r = 1) = (d = 1) THEN 1 ELSE 0]]]]}
===============================================================================
