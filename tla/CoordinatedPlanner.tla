-------------------------- MODULE CoordinatedPlanner --------------------------
(***************************************************************************)
(* The offline planner of hardware/coordinated_scheduling.py and the       *)
(* adaptive loop around it (coordinated_plan_adaptive): local searches     *)
(* from FIFO and from random plans, one source at a time, repeated with    *)
(* twice the restarts while the last two of them still paid off.           *)
(*                                                                         *)
(* A local search keeps the loads of its plan in a table that it patches   *)
(* when it changes the plan of a source.                                   *)
(***************************************************************************)
EXTENDS BatchPlans, Sequences

CONSTANTS
  MaxSweeps,        \* max_sweeps
  InitialRestarts,  \* initial_restarts
  MaxRestarts,      \* max_restarts
  RandomOrders,     \* the permutations the generator draws from
  CountTables       \* the route counts considered

ASSUME SearchAssumption ==
  /\ MaxSweeps \in Nat \ {0}
  /\ InitialRestarts \in Nat \ {0}
  /\ MaxRestarts \in Nat
  /\ MaxRestarts >= InitialRestarts
  /\ RandomOrders \subseteq Orders
  /\ CountTables \subseteq Counts

VARIABLES
  counts,        \* the route counts planned for
  stage,         \* "draw", "descend" or "planned"
  restarts,      \* restarts of the current search
  initialPlans,  \* where its local searches start
  candidates,    \* the plans they ended with, and their costs
  plan, loads, cost, source, sweep, changed,  \* the running local search
  best           \* plan and cost returned by the last search

descentVars == <<plan, loads, cost, source, sweep, changed>>
searchVars == <<restarts, initialPlans, candidates, best>>
plannerVars == <<counts, stage, searchVars, descentVars>>

Exhaustive == BatchCount = 2 /\ NumRequests <= 8

Fifo == [plan |-> FifoPlan, cost |-> PlanCost(counts, FifoPlan)]

-----------------------------------------------------------------------------
(* The moves of one source. *)

(* MUTANT of TwoBatchChoices: each split in two is tried once, as if it did *)
(* not matter which half runs first.                                       *)
TwoBatchChoicesHalved ==
  {batches \in Arrangement :
     /\ \A b \in Batch : \A i, j \in Slot : i < j => batches[b][i] < batches[b][j]
     /\ batches[1][1] = 1}

(* _two_batch_choices: both batches in increasing order of the requests. *)
TwoBatchChoices ==
  {batches \in Arrangement :
     \A b \in Batch : \A i, j \in Slot : i < j => batches[b][i] < batches[b][j]}

(* itertools.combinations yields the first batches in lexicographic order. *)
ComesBefore(batches, others) ==
  \E i \in Slot : /\ batches[1][i] < others[1][i]
                  /\ \A j \in 1 .. i - 1 : batches[1][j] = others[1][j]

Replaced(s, batches) ==
  LET old == SourceLoads(counts, s, plan[s])
      new == SourceLoads(counts, s, batches)
  IN  [b \in Batch |-> [l \in Layer |-> [d \in Source |->
         loads[b][l][d] - old[b][l][d] + new[b][l][d]]]]

Swaps == {w \in Batch \X Batch \X Slot \X Slot : w[1] < w[2]}

SwappedEarlier(swap, other) ==
  \E n \in 1 .. 4 : swap[n] < other[n] /\ \A m \in 1 .. n - 1 : swap[m] = other[m]

(* MUTANT of Exchanged: the second assignment reads the first one's result. *)
ExchangedInTurn(batches, swap) ==
  [batches EXCEPT ![swap[1]][swap[3]] = batches[swap[2]][swap[4]]]

Exchanged(batches, swap) ==
  LET left == swap[1]
      right == swap[2]
      i == swap[3]
      j == swap[4]
  IN  [batches EXCEPT ![left][i] = batches[right][j], ![right][j] = batches[left][i]]

(* MUTANT of SwapLoads: only the left batch is patched.                    *)
SwapLoadsLeft(s, swap) ==
  [b \in Batch |-> [l \in Layer |-> [d \in Source |->
     IF b = swap[1]
     THEN loads[b][l][d] + counts[s][plan[s][swap[2]][swap[4]]][l][d]
                         - counts[s][plan[s][swap[1]][swap[3]]][l][d]
     ELSE loads[b][l][d]]]]

SwapLoads(s, swap) ==
  LET leftRequest == plan[s][swap[1]][swap[3]]
      rightRequest == plan[s][swap[2]][swap[4]]
      delta(l, d) == counts[s][rightRequest][l][d] - counts[s][leftRequest][l][d]
  IN  [b \in Batch |-> [l \in Layer |-> [d \in Source |->
         CASE b = swap[1] -> loads[b][l][d] + delta(l, d)
           [] b = swap[2] -> loads[b][l][d] - delta(l, d)
           [] OTHER -> loads[b][l][d]]]]

(* Only the two batches of a swap are costed again. *)
PairCost(table, swap) == BatchCost(table, swap[1]) + BatchCost(table, swap[2])

SwapCost(s, swap) ==
  cost - PairCost(loads, swap) + PairCost(SwapLoads(s, swap), swap)

(* Strict comparisons keep the first of the cheapest trials. *)
FirstCheapestChoice(t, trials) ==
  \A u \in trials \ {t} : t.cost < u.cost \/ (t.cost = u.cost /\ ComesBefore(t.move, u.move))

FirstCheapestSwap(t, trials) ==
  \A u \in trials \ {t} : t.cost < u.cost \/ (t.cost = u.cost /\ SwappedEarlier(t.move, u.move))

-----------------------------------------------------------------------------
Init ==
  /\ counts \in CountTables
  /\ stage = "draw"
  /\ restarts = InitialRestarts
  /\ initialPlans = <<FifoPlan>>
  /\ candidates = <<>>
  /\ plan = FifoPlan
  /\ loads = CombinedLoads(counts, FifoPlan)
  /\ cost = CostOf(loads)
  /\ source = 1
  /\ sweep = 1
  /\ changed = FALSE
  /\ best = Fifo

(* The generator has the same seed in every search, so a larger search     *)
(* first repeats the plans of the smaller one.                             *)
DrawPlan ==
  /\ stage = "draw"
  /\ Len(initialPlans) < restarts
  /\ \E order \in [Source -> RandomOrders] :
        initialPlans' = Append(initialPlans, RandomPlan(order))
  /\ UNCHANGED <<counts, stage, restarts, candidates, best, descentVars>>

BeginDescent ==
  /\ stage = "draw"
  /\ Len(initialPlans) >= restarts
  /\ Len(candidates) < restarts
  /\ stage' = "descend"
  /\ plan' = initialPlans[Len(candidates) + 1]
  /\ loads' = CombinedLoads(counts, plan')
  /\ cost' = CostOf(loads')
  /\ source' = 1
  /\ sweep' = 1
  /\ changed' = FALSE
  /\ UNCHANGED <<counts, searchVars>>

(* The rest of the loop over the sources: adopt the move or keep the plan. *)
Adopt(batches, newLoads, newCost) ==
  /\ newCost < cost
  /\ plan' = [plan EXCEPT ![source] = batches]
  /\ loads' = newLoads
  /\ cost' = newCost
  /\ changed' = TRUE

Keep(newCost) ==
  /\ newCost >= cost
  /\ UNCHANGED <<plan, loads, cost, changed>>

(* _coordinate_descent: every split of the source's requests is tried. *)
DescendByChoice ==
  /\ Exhaustive
  /\ LET trials == {[move |-> c, cost |-> CostOf(Replaced(source, c))] : c \in TwoBatchChoices}
     IN  \E t \in trials :
           /\ FirstCheapestChoice(t, trials)
           /\ Adopt(t.move, Replaced(source, t.move), t.cost) \/ Keep(t.cost)

(* _coordinate_descent_swaps: every exchange of two requests is tried. *)
DescendBySwap ==
  /\ ~Exhaustive
  /\ LET trials == {[move |-> w, cost |-> SwapCost(source, w)] : w \in Swaps}
     IN  \/ \E t \in trials :
              /\ FirstCheapestSwap(t, trials)
              /\ \/ Adopt(Exchanged(plan[source], t.move), SwapLoads(source, t.move), t.cost)
                 \/ Keep(t.cost)
         \/ trials = {} /\ Keep(cost)

(* One source of one sweep. *)
Descend ==
  /\ stage = "descend"
  /\ source \in Source
  /\ DescendByChoice \/ DescendBySwap
  /\ source' = source + 1
  /\ UNCHANGED <<counts, stage, searchVars, sweep>>

NextSweep ==
  /\ stage = "descend"
  /\ source > NumSources
  /\ changed
  /\ sweep < MaxSweeps
  /\ sweep' = sweep + 1
  /\ source' = 1
  /\ changed' = FALSE
  /\ UNCHANGED <<counts, stage, searchVars, plan, loads, cost>>

EndDescent ==
  /\ stage = "descend"
  /\ source > NumSources
  /\ ~changed \/ sweep >= MaxSweeps
  /\ candidates' = Append(candidates, [plan |-> plan, cost |-> cost])
  /\ stage' = "draw"
  /\ UNCHANGED <<counts, restarts, initialPlans, best, descentVars>>

CostsUpTo(n) == {candidates[i].cost : i \in 1 .. n}

(* MUTANT of ReturnBest: the last local search is returned.                *)
ReturnLast == best' = candidates[Len(candidates)]

(* min() over the candidates returns the first of the cheapest. *)
ReturnBest ==
  \E i \in DOMAIN candidates :
    /\ \A j \in DOMAIN candidates : candidates[i].cost <= candidates[j].cost
    /\ \A j \in 1 .. i - 1 : candidates[i].cost < candidates[j].cost
    /\ best' = candidates[i]

(* improved_in_last_two_restarts *)
TailImproved ==
  /\ Len(candidates) >= 3
  /\ Min(CostsUpTo(Len(candidates))) < Min(CostsUpTo(Len(candidates) - 2))

(* MUTANT of SearchMore: the limit is not tested.                          *)
SearchMoreForever ==
  /\ stage = "draw"
  /\ Len(candidates) = restarts
  /\ TailImproved
  /\ ReturnBest
  /\ restarts' = Min({MaxRestarts, restarts * 2})
  /\ candidates' = <<>>
  /\ UNCHANGED <<counts, stage, initialPlans, descentVars>>

SearchMore ==
  /\ stage = "draw"
  /\ Len(candidates) = restarts
  /\ TailImproved
  /\ restarts < MaxRestarts
  /\ ReturnBest
  /\ restarts' = Min({MaxRestarts, restarts * 2})
  /\ candidates' = <<>>
  /\ UNCHANGED <<counts, stage, initialPlans, descentVars>>

EndSearch ==
  /\ stage = "draw"
  /\ Len(candidates) = restarts
  /\ ~TailImproved \/ restarts >= MaxRestarts
  /\ ReturnBest
  /\ stage' = "planned"
  /\ UNCHANGED <<counts, restarts, initialPlans, candidates, descentVars>>

Plan == \/ DrawPlan \/ BeginDescent
        \/ Descend \/ NextSweep \/ EndDescent
        \/ SearchMore \/ EndSearch

Planned == stage = "planned" /\ UNCHANGED plannerVars

Next == Plan \/ Planned

Spec == Init /\ [][Next]_plannerVars /\ WF_plannerVars(Plan)

-----------------------------------------------------------------------------
IsPlan(p) == p \in [Source -> Arrangement]

(* The types of the planner's control state. *)
TypeOK ==
  /\ counts \in Counts
  /\ stage \in {"draw", "descend", "planned"}
  /\ restarts \in InitialRestarts .. MaxRestarts
  /\ Len(initialPlans) \in 1 .. restarts
  /\ Len(candidates) \in 0 .. restarts
  /\ source \in 1 .. NumSources + 1
  /\ sweep \in 1 .. MaxSweeps
  /\ changed \in BOOLEAN

(* Whatever the moves, every plan runs each request of each source exactly *)
(* once and in full batches: combined_rank_loads would reject any other    *)
(* plan, but the descents never call it again.                             *)
PlansPartition ==
  /\ IsPlan(plan)
  /\ IsPlan(best.plan)
  /\ \A i \in DOMAIN initialPlans : IsPlan(initialPlans[i])
  /\ \A i \in DOMAIN candidates : IsPlan(candidates[i].plan)

(* The patched table and the patched cost are those of the plan, after any *)
(* number of moves: coordinated_scheduling.py:219 and :301-306 never       *)
(* recompute them.                                                         *)
LoadsPatched ==
  stage = "descend" => loads = CombinedLoads(counts, plan) /\ cost = CostOf(loads)

(* The plans of a source after two of its requests have traded places.     *)
Traded(batches, q, r) ==
  [b \in Batch |-> [i \in Slot |-> CASE batches[b][i] = q -> r
                                   [] batches[b][i] = r -> q
                                   [] OTHER -> batches[b][i]]]

Neighbours(s) ==
  IF Exhaustive THEN Arrangement ELSE {Traded(plan[s], q, r) : q, r \in Request}

(* A sweep that changed nothing ends in a local optimum: no plan that      *)
(* differs in one source (by one exchange, when there are more than two    *)
(* batches) is cheaper.                                                    *)
LocalOptimum ==
  stage = "descend" /\ source > NumSources /\ ~changed =>
    \A s \in Source : \A batches \in Neighbours(s) :
       cost <= PlanCost(counts, [plan EXCEPT ![s] = batches])

(* The diagnostics are honest: the reported best cost is that of the       *)
(* reported plan, lies between the lower bound and FIFO, and a plan that   *)
(* is not cheaper than FIFO is FIFO, with no request reassigned.           *)
BestBracketed ==
  stage = "planned" =>
    /\ best.cost = PlanCost(counts, best.plan)
    /\ best.cost \in LowerBound(counts) .. Fifo.cost
    /\ best.cost = Fifo.cost => Reassigned(FifoPlan, best.plan) = 0

(* The adaptive loop ends, whatever keeps improving.                       *)
SearchEnds == <>(stage = "planned")
===============================================================================
