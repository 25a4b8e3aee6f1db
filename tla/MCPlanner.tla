------------------------------ MODULE MCPlanner ------------------------------
(* Route counts for the model-checking runs of the coordinated planner. *)
EXTENDS CoordinatedPlanner

(* Every request sends the given number of assignments in each layer,      *)
(* split between two destinations in every possible way.  Exchanging the   *)
(* destinations of a layer changes no cost, so the first request may be    *)
(* taken to send more to the first one.                                    *)
SplitTables(assignments) ==
  {[s \in Source |-> [r \in Request |-> [l \in Layer |-> [d \in Source |->
      IF d = 1 THEN first[s, r, l] ELSE assignments - first[s, r, l]]]]] :
   first \in {f \in [Source \X Request \X Layer -> 0 .. assignments] :
               \A l \in Layer : 2 * f[1, 1, l] >= assignments}}

OneAssignment  == SplitTables(1)
TwoAssignments == SplitTables(2)

(* Two tables whose FIFO plan no single source can improve, although       *)
(* cheaper plans exist, and two on which it matters which half of a source *)
(* runs first.                                                             *)
HardTables ==
  {[s \in Source |-> [r \in Request |-> [l \in Layer |-> [d \in Source |->
      IF d = 1 THEN first[s][r] ELSE 2 - first[s][r]]]]] :
   first \in {<< <<1, 0, 1, 2>>, <<0, 0, 2, 2>> >>, << <<1, 0, 2, 1>>, <<2, 2, 0, 0>> >>,
             << <<1, 0, 0, 1>>, <<2, 2, 0, 2>> >>, << <<1, 0, 1, 1>>, <<1, 0, 2, 2>> >>}}

SomeHard == OneAssignment \union HardTables

(* Two permutations whose batches of two are not those of FIFO, and one    *)
(* that only exchanges them.                                               *)
FourShuffled == {<<3, 2, 4, 1>>, <<3, 4, 1, 2>>}
SixShuffled  == {<<3, 2, 6, 1, 5, 4>>, <<5, 6, 1, 2, 4, 3>>}
ThreeShuffled == {<<2, 3, 1>>, <<3, 1, 2>>}
===============================================================================
