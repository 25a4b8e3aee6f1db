------------------------------ MODULE BatchPlans ------------------------------
(***************************************************************************)
(* Batch plans of a fixed pool of requests on several source ranks         *)
(* (hardware/coordinated_scheduling.py): every source splits its own       *)
(* requests into batches of one size, and batch b of all sources runs at   *)
(* the same time.  A batch costs, in every layer, the load of its most     *)
(* loaded destination rank.                                                *)
(*                                                                         *)
(* Ranks, requests, batches, slots and layers are numbered from 1.  Route  *)
(* counts are given per destination rank: the code first adds up the       *)
(* experts of a rank.                                                      *)
(***************************************************************************)
EXTENDS Integers, FiniteSetsExt, Functions

CONSTANTS
  NumSources,   \* counts.shape[0], and the number of destination ranks
  NumRequests,  \* requests of one source
  BatchSize,
  NumLayers

(* validate_counts: the batches of a source are all full. *)
ASSUME PlanAssumption ==
  /\ NumSources \in Nat \ {0}
  /\ NumRequests \in Nat \ {0}
  /\ BatchSize \in Nat \ {0}
  /\ NumLayers \in Nat \ {0}
  /\ NumRequests % BatchSize = 0

Source  == 1 .. NumSources
Request == 1 .. NumRequests
Layer   == 1 .. NumLayers
BatchCount == NumRequests \div BatchSize
Batch == 1 .. BatchCount
Slot  == 1 .. BatchSize

(* What the requests of one source become: a list of batches.  The slots   *)
(* of a batch are ordered, as the lists of the code are.                   *)
Arrangement ==
  {batches \in [Batch -> [Slot -> Request]] :
     \A b, c \in Batch : \A i, j \in Slot :
        batches[b][i] = batches[c][j] => b = c /\ i = j}

(* Cutting a sequence of all requests into batches. *)
Sliced(order) == [b \in Batch |-> [i \in Slot |-> order[(b - 1) * BatchSize + i]]]

FifoPlan == [s \in Source |-> Sliced([r \in Request |-> r])]

(* _random_plan: one permutation per source. *)
Orders == {order \in [Request -> Request] : IsInjective(order)}
RandomPlan(order) == [s \in Source |-> Sliced(order[s])]

(* counts[s][r][l][d]: the assignments that layer l of request r of source *)
(* s sends to destination d.                                               *)
Counts == [Source -> [Request -> [Layer -> [Source -> Nat]]]]

(* What one source sends.                                                  *)
SourceLoads(counts, s, batches) ==
  [b \in Batch |-> [l \in Layer |-> [d \in Source |->
     SumFunction([i \in Slot |-> counts[s][batches[b][i]][l][d]])]]]

(* loads[b][l][d]: what all of them send.                                  *)
CombinedLoads(counts, plan) ==
  LET sent == [s \in Source |-> SourceLoads(counts, s, plan[s])]
  IN  [b \in Batch |-> [l \in Layer |-> [d \in Source |->
         SumFunction([s \in Source |-> sent[s][b][l][d]])]]]

CriticalLoad(loads, b, l) == Max(Range(loads[b][l]))

BatchCost(loads, b) == SumFunction([l \in Layer |-> CriticalLoad(loads, b, l)])

CostOf(loads) == SumFunction([b \in Batch |-> BatchCost(loads, b)])

PlanCost(counts, plan) == CostOf(CombinedLoads(counts, plan))

(* No plan changes what a destination receives in total in a layer. *)
Received(counts, l) ==
  [d \in Source |->
     SumFunction([s \in Source |-> SumFunction([r \in Request |-> counts[s][r][l][d]])])]

LowerBound(counts) == SumFunction([l \in Layer |-> Max(Range(Received(counts, l)))])

(* Requests that a plan runs in another batch than the reference does. *)
Reassigned(reference, plan) ==
  Cardinality({x \in Source \X Batch \X Slot :
                 \A j \in Slot : plan[x[1]][x[2]][j] # reference[x[1]][x[2]][x[3]]})
===============================================================================
