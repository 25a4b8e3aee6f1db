------------------------------ MODULE DoseLadder ------------------------------
(***************************************************************************)
(* coordinated_dose_ladder (hardware/coordinated_scheduling.py): once the  *)
(* planner has returned its best plan, intermediate plans are looked for   *)
(* that realize a quarter, a half and three quarters of the reduction,     *)
(* among mixtures of FIFO and the best plan and random plans.  The         *)
(* benchmark (hardware/benchmark_contract_ep4.py) measures the rungs below *)
(* one next to the best plan itself.                                       *)
(***************************************************************************)
EXTENDS CoordinatedPlanner, SortedSets

CONSTANT RandomSamples  \* random_samples

ASSUME SamplesAssumption == RandomSamples \in Nat

VARIABLES
  phase,    \* "sample", "choose" or "done" once the best plan is known
  pool,     \* the candidates, in the order they were first found
  samples,  \* random plans tried
  target,   \* the next target, in quarters
  used,     \* positions in the pool already on the ladder
  rungs     \* the ladder: targets, plans and their costs

ladderVars == <<phase, pool, samples, target, used, rungs>>
vars == <<plannerVars, ladderVars>>

Quarters == 1 .. 4

Opportunity == Fifo.cost - PlanCost(counts, best.plan)

(* A mask is the set of the sources that get their best plan.  Masks are   *)
(* counted upwards: of two of them the one with the highest source that is *)
(* not in both comes later.                                                *)
Masks == SUBSET Source
CountedBefore(mask, other) == \E s \in other \ mask : \A t \in mask \ other : t < s
MasksInOrder == InOrder(Masks, {pair \in Masks \X Masks : CountedBefore(pair[1], pair[2])})

Mixture(mask) == [s \in Source |-> IF s \in mask THEN best.plan[s] ELSE FifoPlan[s]]

(* A plan enters the dictionary once, and only between the best and FIFO.  *)
Admitted(found, p) ==
  LET c == PlanCost(counts, p)
  IN  IF c \in best.cost .. Fifo.cost /\ \A i \in DOMAIN found : found[i].plan # p
      THEN Append(found, [plan |-> p, cost |-> c])
      ELSE found

(* The first candidates, one mask after the other. *)
Mixtures ==
  LET last == Cardinality(Masks)
      found[n \in 0 .. last] ==
        IF n = 0 THEN <<>> ELSE Admitted(found[n - 1], Mixture(MasksInOrder[n]))
  IN  found[last]

-----------------------------------------------------------------------------
LadderInit ==
  /\ Init
  /\ phase = "sample"
  /\ pool = <<>>
  /\ samples = 0
  /\ target = 1
  /\ used = {}
  /\ rungs = <<>>

(* Nothing to gain: the ladder is FIFO alone. *)
FlatLadder ==
  /\ stage = "planned" /\ phase = "sample" /\ pool = <<>>
  /\ Opportunity <= 0
  /\ rungs' = <<[target |-> 0, plan |-> FifoPlan, cost |-> Fifo.cost]>>
  /\ phase' = "done"
  /\ UNCHANGED <<plannerVars, pool, samples, target, used>>

MixPlans ==
  /\ stage = "planned" /\ phase = "sample" /\ pool = <<>>
  /\ Opportunity > 0
  /\ pool' = Mixtures
  /\ UNCHANGED <<plannerVars, phase, samples, target, used, rungs>>

SamplePlan ==
  /\ phase = "sample" /\ pool # <<>>
  /\ samples < RandomSamples
  /\ \E order \in [Source -> RandomOrders] : pool' = Admitted(pool, RandomPlan(order))
  /\ samples' = samples + 1
  /\ UNCHANGED <<plannerVars, phase, target, used, rungs>>

EndSampling ==
  /\ phase = "sample" /\ pool # <<>>
  /\ samples = RandomSamples
  /\ phase' = "choose"
  /\ UNCHANGED <<plannerVars, pool, samples, target, used, rungs>>

Intermediate == {i \in DOMAIN pool : pool[i].cost > best.cost} \ used

Eligible == IF target < 4 /\ Intermediate # {} THEN Intermediate ELSE DOMAIN pool

(* Distance of a candidate's achieved dose from the target, as a multiple  *)
(* of 1 / (4 * Opportunity).                                               *)
Distance(i) ==
  LET difference == 4 * (Fifo.cost - pool[i].cost) - target * Opportunity
  IN  Max({difference, -difference})

(* min() takes the first candidate among equals; when a costlier and a     *)
(* cheaper one are equally far from the target, rounding of the quotients  *)
(* decides between them.                                                   *)
Nearest ==
  {i \in Eligible : /\ \A j \in Eligible : Distance(i) <= Distance(j)
                    /\ \A j \in Eligible : pool[j].cost = pool[i].cost => i <= j}

(* MUTANT of ChooseRung: a candidate may be put on the ladder again.       *)
ChooseRungAgain ==
  /\ phase = "choose"
  /\ target \in Quarters
  /\ \E i \in Nearest :
       /\ used' = used \union {i}
       /\ rungs' = Append(rungs, [target |-> target, plan |-> pool[i].plan, cost |-> pool[i].cost])
  /\ target' = target + 1
  /\ UNCHANGED <<plannerVars, phase, pool, samples>>

ChooseRung ==
  /\ phase = "choose"
  /\ target \in Quarters
  /\ \E i \in Nearest :
       /\ used' = used \union {i}
       /\ rungs' = IF i \in used
                   THEN rungs
                   ELSE Append(rungs, [target |-> target, plan |-> pool[i].plan, cost |-> pool[i].cost])
  /\ target' = target + 1
  /\ UNCHANGED <<plannerVars, phase, pool, samples>>

EndLadder ==
  /\ phase = "choose"
  /\ target \notin Quarters
  /\ phase' = "done"
  /\ UNCHANGED <<plannerVars, pool, samples, target, used, rungs>>

Climb == FlatLadder \/ MixPlans \/ SamplePlan \/ EndSampling \/ ChooseRung \/ EndLadder

LadderNext ==
  \/ Plan /\ UNCHANGED ladderVars
  \/ Climb
  \/ phase = "done" /\ UNCHANGED vars

LadderSpec == LadderInit /\ [][LadderNext]_vars

-----------------------------------------------------------------------------
Climbed == phase = "done" /\ Opportunity > 0

(* The achieved dose of every rung lies between nothing and the whole      *)
(* reduction, no two rungs replay the same plan, and one of them realizes  *)
(* the whole reduction.                                                    *)
LadderSound ==
  Climbed =>
    /\ \A i \in DOMAIN rungs : rungs[i].cost \in best.cost .. Fifo.cost
    /\ \A i, j \in DOMAIN rungs : rungs[i].plan = rungs[j].plan => i = j
    /\ \E i \in DOMAIN rungs : rungs[i].cost = best.cost

(* The arms the benchmark replays in a cell (benchmark_contract_ep4.py:    *)
(* 385-404): FIFO, the rungs below one and the best plan.                  *)
Arms ==
  {[target |-> 0, plan |-> FifoPlan], [target |-> 4, plan |-> best.plan]}
    \union {[target |-> rungs[i].target, plan |-> rungs[i].plan] :
              i \in {n \in DOMAIN rungs : rungs[n].target < 4}}

(* "Duplicate plans are not allowed" (docs/external_review_response_v3.md: *)
(* 126): no two arms replay the same plan.                                 *)
ArmsDistinct ==
  Climbed => \A arm, other \in Arms : arm.plan = other.plan => arm = other
===============================================================================
