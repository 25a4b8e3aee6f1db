----------------------------- MODULE PlannerProofs -----------------------------
(***************************************************************************)
(* Proofs about the planner, for any number of ranks, requests and layers  *)
(* and any routes: every plan runs every request of every source exactly   *)
(* once in full batches; the patched loads and costs are those of the      *)
(* plan; the reported plan is no worse than FIFO and no better than the    *)
(* lower bound; a sweep without an improvement ends in a local optimum;    *)
(* and the rungs of a dose ladder are different plans between FIFO and the *)
(* best one.                                                               *)
(***************************************************************************)
EXTENDS DoseLadder, ProofBasics, SequenceTheorems

(* Batches of one size tile the requests. *)
LEMMA Tiling ==
  /\ BatchCount \in Nat
  /\ BatchCount * BatchSize = NumRequests
BY PlanAssumption DEF BatchCount

(* The position of a slot in the sequence that is cut into batches.        *)
LEMMA Position ==
  ASSUME NEW b \in Batch, NEW i \in Slot
  PROVE  (b - 1) * BatchSize + i \in Request
<1>1. b * BatchSize <= BatchCount * BatchSize
  BY Tiling, PlanAssumption DEF Batch
<1>2. (b - 1) * BatchSize \in Nat /\ (b - 1) * BatchSize + BatchSize = b * BatchSize
  BY Tiling, PlanAssumption DEF Batch
<1>3. (b - 1) * BatchSize + i \in 1 .. b * BatchSize
  BY <1>2, PlanAssumption DEF Slot
<1> QED
  BY <1>1, <1>2, <1>3, Tiling, PlanAssumption DEF Request

(* Different slots are cut from different positions.                       *)
LEMMA PositionsDiffer ==
  ASSUME NEW b \in Batch, NEW c \in Batch, NEW i \in Slot, NEW j \in Slot,
         (b - 1) * BatchSize + i = (c - 1) * BatchSize + j
  PROVE  b = c /\ i = j
<1> DEFINE before(x) == (x - 1) * BatchSize
<1>1. ASSUME NEW x \in Batch, NEW y \in Batch, x < y
      PROVE  before(x) + BatchSize <= before(y)
  <2>1. x * BatchSize <= (y - 1) * BatchSize
    BY <1>1, Tiling, PlanAssumption DEF Batch
  <2>2. before(x) + BatchSize = x * BatchSize
    BY Tiling, PlanAssumption DEF Batch
  <2> QED
    BY <2>1, <2>2
<1>2. before(b) \in Int /\ before(c) \in Int
  BY Tiling, PlanAssumption DEF Batch
<1>3. i \in 1 .. BatchSize /\ j \in 1 .. BatchSize /\ BatchSize \in Nat
  BY PlanAssumption DEF Slot
<1>4. ~(b < c) /\ ~(c < b)
  BY <1>1, <1>2, <1>3
<1>5. b = c
  BY <1>4, Tiling DEF Batch
<1> QED
  BY <1>2, <1>3, <1>5

(* Cutting any order of the requests gives full batches of all of them.    *)
LEMMA SlicedArranged ==
  ASSUME NEW order \in Orders
  PROVE  Sliced(order) \in Arrangement
<1>1. Sliced(order) \in [Batch -> [Slot -> Request]]
  BY Position DEF Sliced, Orders
<1>2. ASSUME NEW b \in Batch, NEW c \in Batch, NEW i \in Slot, NEW j \in Slot,
             Sliced(order)[b][i] = Sliced(order)[c][j]
      PROVE  b = c /\ i = j
  <2>1. order[(b - 1) * BatchSize + i] = order[(c - 1) * BatchSize + j]
    BY <1>2 DEF Sliced
  <2>2. (b - 1) * BatchSize + i = (c - 1) * BatchSize + j
    BY <2>1, Position DEF Orders, IsInjective
  <2> QED
    BY <2>2, PositionsDiffer
<1> QED
  BY <1>1, <1>2 DEF Arrangement

LEMMA FifoIsPlan == IsPlan(FifoPlan)
<1>1. [r \in Request |-> r] \in Orders
  BY DEF Orders, IsInjective
<1> QED
  BY <1>1, SlicedArranged DEF IsPlan, FifoPlan

LEMMA RandomIsPlan ==
  ASSUME NEW order \in [Source -> RandomOrders]
  PROVE  IsPlan(RandomPlan(order))
BY SlicedArranged, SearchAssumption DEF IsPlan, RandomPlan

(* Exchanging two requests of different batches keeps the others in place. *)
LEMMA ExchangeArranged ==
  ASSUME NEW batches \in Arrangement, NEW swap \in Swaps
  PROVE  Exchanged(batches, swap) \in Arrangement
<1> DEFINE left == swap[1]
           right == swap[2]
           i == swap[3]
           j == swap[4]
           result == Exchanged(batches, swap)
<1>1. /\ left \in Batch /\ right \in Batch /\ left # right
      /\ i \in Slot /\ j \in Slot
      /\ batches \in [Batch -> [Slot -> Request]]
  <2>1. left \in Int /\ right \in Int /\ left < right
    BY DEF Swaps, Batch
  <2> QED
    BY <2>1 DEF Swaps, Arrangement
<1>2. /\ result \in [Batch -> [Slot -> Request]]
      /\ result[left] = [batches[left] EXCEPT ![i] = batches[right][j]]
      /\ result[right] = [batches[right] EXCEPT ![j] = batches[left][i]]
      /\ \A b \in Batch \ {left, right} : result[b] = batches[b]
  BY <1>1 DEF Exchanged
<1> DEFINE Origin(b, n) ==
             IF b = left /\ n = i THEN <<right, j>>
             ELSE IF b = right /\ n = j THEN <<left, i>>
             ELSE <<b, n>>
<1>3. ASSUME NEW b \in Batch, NEW n \in Slot
      PROVE  /\ Origin(b, n)[1] \in Batch /\ Origin(b, n)[2] \in Slot
             /\ result[b][n] = batches[Origin(b, n)[1]][Origin(b, n)[2]]
  <2>1. CASE b = left /\ n = i
    BY <2>1, <1>1, <1>2
  <2>2. CASE b = right /\ n = j
    BY <2>2, <1>1, <1>2
  <2>3. CASE ~(b = left /\ n = i) /\ ~(b = right /\ n = j)
    BY <2>3, <1>1, <1>2
  <2> QED
    BY <2>1, <2>2, <2>3
<1>4. ASSUME NEW b \in Batch, NEW c \in Batch, NEW n \in Slot, NEW m \in Slot,
             Origin(b, n)[1] = Origin(c, m)[1], Origin(b, n)[2] = Origin(c, m)[2]
      PROVE  b = c /\ n = m
  BY <1>1, <1>4
<1>5. ASSUME NEW b \in Batch, NEW c \in Batch, NEW n \in Slot, NEW m \in Slot,
             result[b][n] = result[c][m]
      PROVE  b = c /\ n = m
  <2> HIDE DEF Origin, result
  <2>1. Origin(b, n)[1] = Origin(c, m)[1] /\ Origin(b, n)[2] = Origin(c, m)[2]
    BY <1>3, <1>5 DEF Arrangement
  <2> QED
    BY <2>1, <1>4
<1> QED
  BY <1>2, <1>5 DEF Arrangement

-----------------------------------------------------------------------------
(* What the steps rely on: the lists of initial plans and of candidates    *)
(* hold plans, whatever they cost, and a running local search still has to *)
(* deliver its candidate.                                                  *)
Results(costs) == [plan : [Source -> Arrangement], cost : costs]

PlannerInv ==
  /\ TypeOK
  /\ PlansPartition
  /\ initialPlans \in Seq([Source -> Arrangement])
  /\ \E costs : candidates \in Seq(Results(costs))
  /\ stage = "descend" => Len(candidates) < restarts

LEMMA Clipped ==
  ASSUME NEW m \in Int, NEW n \in Int
  PROVE  Min({m, n}) = IF m <= n THEN m ELSE n
<1> DEFINE least == IF m <= n THEN m ELSE n
<1>1. least \in {m, n} /\ \A y \in {m, n} : least <= y
  OBVIOUS
<1>2. \A x \in {m, n} : (\A y \in {m, n} : x <= y) => x = least
  OBVIOUS
<1> QED
  BY <1>1, <1>2 DEF Min

LEMMA InitEstablishes == Init => PlannerInv
<1> SUFFICES ASSUME Init PROVE PlannerInv
  OBVIOUS
<1>1. IsPlan(FifoPlan)
  BY FifoIsPlan
<1>2. TypeOK
  <2>1. Len(initialPlans) = 1 /\ Len(candidates) = 0
    BY DEF Init
  <2>2. source \in 1 .. NumSources + 1 /\ sweep \in 1 .. MaxSweeps
    BY PlanAssumption, SearchAssumption DEF Init
  <2>3. changed \in BOOLEAN
    BY DEF Init
  <2> QED
    BY <2>1, <2>2, <2>3, SearchAssumption DEF Init, TypeOK
<1>3. initialPlans \in Seq([Source -> Arrangement])
  BY <1>1 DEF Init, IsPlan
<1>4. candidates \in Seq(Results({}))
  BY DEF Init
<1>5. PlansPartition
  BY <1>1 DEF Init, PlansPartition, Fifo
<1> QED
  BY <1>2, <1>3, <1>4, <1>5 DEF PlannerInv, Init

(* Adopting a plan of the current source, or keeping the old one.          *)
LEMMA DescentKeeps ==
  ASSUME PlannerInv, stage = "descend", source \in Source,
         NEW batches \in Arrangement, NEW newLoads, NEW newCost,
         \/ Adopt(batches, newLoads, newCost)
         \/ UNCHANGED <<plan, loads, cost, changed>>,
         source' = source + 1,
         UNCHANGED <<counts, stage, searchVars, sweep>>
  PROVE  PlannerInv'
<1>1. IsPlan(plan')
  BY DEF Adopt, PlannerInv, PlansPartition, IsPlan
<1>2. TypeOK'
  <2>1. changed' \in BOOLEAN
    BY DEF Adopt, PlannerInv, TypeOK
  <2>2. source' \in 1 .. NumSources + 1
    BY PlanAssumption DEF Source
  <2> QED
    BY <2>1, <2>2 DEF PlannerInv, TypeOK, searchVars
<1>3. PlansPartition'
  BY <1>1 DEF PlannerInv, PlansPartition, searchVars
<1> QED
  BY <1>2, <1>3 DEF PlannerInv, searchVars

(* One planner step.                                                       *)
LEMMA StepKeeps == PlannerInv /\ [Next]_plannerVars => PlannerInv'
<1> SUFFICES ASSUME PlannerInv, [Next]_plannerVars
             PROVE  PlannerInv'
  OBVIOUS
<1> USE DEF PlannerInv
<1>1. CASE DrawPlan
  <2>1. PICK order \in [Source -> RandomOrders] :
          initialPlans' = Append(initialPlans, RandomPlan(order))
    BY <1>1 DEF DrawPlan
  <2>2. RandomPlan(order) \in [Source -> Arrangement]
    BY RandomIsPlan DEF IsPlan
  <2>3. initialPlans' \in Seq([Source -> Arrangement]) /\ Len(initialPlans') = Len(initialPlans) + 1
    BY <2>1, <2>2
  <2>4. TypeOK'
    BY <1>1, <2>3, SearchAssumption DEF DrawPlan, TypeOK, descentVars
  <2>5. PlansPartition'
    BY <1>1, <2>3 DEF DrawPlan, PlansPartition, IsPlan, descentVars
  <2> QED
    BY <1>1, <2>3, <2>4, <2>5 DEF DrawPlan
<1>2. CASE BeginDescent
  <2>1. IsPlan(plan')
    BY <1>2 DEF BeginDescent, TypeOK, IsPlan
  <2>2. TypeOK'
    <3>1. source' \in 1 .. NumSources + 1 /\ sweep' \in 1 .. MaxSweeps
      BY <1>2, PlanAssumption, SearchAssumption DEF BeginDescent
    <3>2. changed' \in BOOLEAN
      BY <1>2 DEF BeginDescent
    <3> QED
      BY <1>2, <3>1, <3>2 DEF BeginDescent, TypeOK, searchVars
  <2>3. PlansPartition'
    BY <1>2, <2>1 DEF BeginDescent, PlansPartition, searchVars
  <2> QED
    BY <1>2, <2>2, <2>3 DEF BeginDescent, searchVars
<1>3. CASE Descend /\ DescendByChoice
  <2> DEFINE trials == {[move |-> c, cost |-> CostOf(Replaced(source, c))] : c \in TwoBatchChoices}
  <2>1. PICK t \in trials : Adopt(t.move, Replaced(source, t.move), t.cost) \/ Keep(t.cost)
    BY <1>3 DEF DescendByChoice
  <2>2. t.move \in Arrangement
    BY DEF TwoBatchChoices
  <2> QED
    BY <1>3, <2>1, <2>2, DescentKeeps DEF Descend, Keep
<1>4. CASE Descend /\ DescendBySwap
  <2> DEFINE trials == {[move |-> w, cost |-> SwapCost(source, w)] : w \in Swaps}
  <2>1. CASE \E t \in trials :
               \/ Adopt(Exchanged(plan[source], t.move), SwapLoads(source, t.move), t.cost)
               \/ Keep(t.cost)
    <3>1. PICK t \in trials :
               \/ Adopt(Exchanged(plan[source], t.move), SwapLoads(source, t.move), t.cost)
               \/ Keep(t.cost)
      BY <2>1
    <3>2. plan[source] \in Arrangement
      BY <1>4 DEF Descend, PlansPartition, IsPlan
    <3>3. Exchanged(plan[source], t.move) \in Arrangement
      BY <3>2, ExchangeArranged
    <3> QED
      BY <1>4, <3>1, <3>3, DescentKeeps DEF Descend, Keep
  <2>2. CASE Keep(cost)
    BY <1>4, <2>2, DescentKeeps, FifoIsPlan, PlanAssumption
    DEF Descend, Keep, PlansPartition, IsPlan
  <2> QED
    BY <1>4, <2>1, <2>2 DEF DescendBySwap
<1>5. CASE NextSweep
  <2>1. TypeOK'
    <3>1. source' \in 1 .. NumSources + 1 /\ sweep' \in 1 .. MaxSweeps
      BY <1>5, PlanAssumption, SearchAssumption DEF NextSweep, TypeOK
    <3>2. changed' \in BOOLEAN
      BY <1>5 DEF NextSweep
    <3> QED
      BY <1>5, <3>1, <3>2 DEF NextSweep, TypeOK, searchVars
  <2>2. PlansPartition'
    BY <1>5 DEF NextSweep, PlansPartition, searchVars
  <2> QED
    BY <1>5, <2>1, <2>2 DEF NextSweep, searchVars
<1>6. CASE EndDescent
  <2> DEFINE result == [plan |-> plan, cost |-> cost]
  <2>1. PICK costs : candidates \in Seq(Results(costs))
    OBVIOUS
  <2>2. /\ candidates \in Seq(Results(costs \union {cost}))
        /\ result \in Results(costs \union {cost})
    <3>1. Results(costs) \subseteq Results(costs \union {cost})
      BY DEF Results
    <3>2. result \in Results(costs \union {cost})
      BY DEF Results, PlansPartition, IsPlan
    <3>3. candidates \in Seq(Results(costs \union {cost}))
      BY <2>1, <3>1, SeqMonotonic
    <3> QED
      BY <3>2, <3>3
  <2>3. /\ candidates' \in Seq(Results(costs \union {cost}))
        /\ Len(candidates') = Len(candidates) + 1
    BY <1>6, <2>2 DEF EndDescent
  <2>4. TypeOK'
    BY <1>6, <2>2, <2>3 DEF EndDescent, TypeOK, descentVars
  <2>5. PlansPartition'
    BY <1>6, <2>3 DEF EndDescent, PlansPartition, Results, IsPlan, descentVars
  <2> QED
    BY <1>6, <2>3, <2>4, <2>5 DEF EndDescent, descentVars
<1>7. ASSUME ReturnBest PROVE IsPlan(best'.plan)
  BY <1>7 DEF ReturnBest, PlansPartition
<1>8. CASE SearchMore
  <2>1. restarts' \in restarts .. MaxRestarts
    BY <1>8, Clipped, SearchAssumption DEF SearchMore, TypeOK
  <2>2. TypeOK'
    BY <1>8, <2>1, SearchAssumption DEF SearchMore, TypeOK, descentVars
  <2>3. PlansPartition'
    BY <1>7, <1>8 DEF SearchMore, PlansPartition, descentVars
  <2>4. candidates' \in Seq(Results({}))
    BY <1>8 DEF SearchMore
  <2> QED
    BY <1>8, <2>2, <2>3, <2>4 DEF SearchMore
<1>9. CASE EndSearch
  <2>1. TypeOK'
    BY <1>9 DEF EndSearch, TypeOK, descentVars
  <2>2. PlansPartition'
    BY <1>7, <1>9 DEF EndSearch, PlansPartition, descentVars
  <2> QED
    BY <1>9, <2>1, <2>2 DEF EndSearch
<1>10. CASE UNCHANGED plannerVars
  BY <1>10 DEF plannerVars, searchVars, descentVars, TypeOK, PlansPartition
<1> QED
  BY <1>1, <1>2, <1>3, <1>4, <1>5, <1>6, <1>8, <1>9, <1>10
  DEF Next, Plan, Planned, Descend

(* Whatever the routes, the order of the moves and the random plans, the   *)
(* planner never loses, duplicates or misplaces a request: every plan it   *)
(* holds or returns is a partition of every source's requests into full    *)
(* batches.                                                                *)
THEOREM PlansStayValid == Spec => []PlansPartition
<1>1. PlannerInv => PlansPartition
  BY DEF PlannerInv
<1> QED
  BY InitEstablishes, StepKeeps, <1>1, PTL DEF Spec

(* The counters of the descents and of the adaptive loop stay in range.    *)
THEOREM PlannerTypes == Spec => []TypeOK
<1>1. PlannerInv => TypeOK
  BY DEF PlannerInv
<1> QED
  BY InitEstablishes, StepKeeps, <1>1, PTL DEF Spec

-----------------------------------------------------------------------------
(* The loads of a plan, cell by cell.                                      *)

LoadTables == [Batch -> [Layer -> [Source -> Nat]]]

LEMMA Finite ==
  /\ IsFiniteSet(Source) /\ IsFiniteSet(Slot) /\ IsFiniteSet(Batch)
  /\ IsFiniteSet(Layer) /\ IsFiniteSet(Request)
BY FS_Interval, Tiling, PlanAssumption DEF Source, Slot, Batch, Layer, Request

LEMMA SourceCell ==
  ASSUME NEW table \in Counts, NEW s \in Source, NEW batches \in [Batch -> [Slot -> Request]],
         NEW b \in Batch, NEW l \in Layer, NEW d \in Source
  PROVE  /\ SourceLoads(table, s, batches)[b][l][d]
              = SumFunctionOnSet([i \in Slot |-> table[s][batches[b][i]][l][d]], Slot)
         /\ SourceLoads(table, s, batches)[b][l][d] \in Nat
<1> DEFINE sends == [i \in Slot |-> table[s][batches[b][i]][l][d]]
<1>1. SourceLoads(table, s, batches)[b][l][d] = SumFunctionOnSet(sends, Slot)
  BY DEF SourceLoads, SumFunction
<1>2. \A i \in Slot : sends[i] \in Nat
  BY DEF Counts
<1> HIDE DEF sends
<1>3. SumFunctionOnSet(sends, Slot) \in Nat
  BY <1>2, Finite, SumNatural
<1> QED
  BY <1>1, <1>3 DEF sends

LEMMA CombinedCell ==
  ASSUME NEW table \in Counts, NEW p, IsPlan(p),
         NEW b \in Batch, NEW l \in Layer, NEW d \in Source
  PROVE  /\ CombinedLoads(table, p)[b][l][d]
              = SumFunctionOnSet([s \in Source |-> SourceLoads(table, s, p[s])[b][l][d]], Source)
         /\ CombinedLoads(table, p)[b][l][d] \in Nat
<1> DEFINE sent == [s \in Source |-> SourceLoads(table, s, p[s])]
           cells == [s \in Source |-> SourceLoads(table, s, p[s])[b][l][d]]
<1>1. [s \in Source |-> sent[s][b][l][d]] = cells
  OBVIOUS
<1>2. CombinedLoads(table, p)[b][l][d] = SumFunctionOnSet([s \in Source |-> sent[s][b][l][d]], Source)
  BY DEF CombinedLoads, SumFunction
<1>3. \A s \in Source : cells[s] \in Nat
  BY SourceCell DEF IsPlan, Arrangement
<1> HIDE DEF sent, cells
<1>4. SumFunctionOnSet(cells, Source) \in Nat
  BY <1>3, Finite, SumNatural
<1> QED
  BY <1>1, <1>2, <1>4 DEF cells

LEMMA CombinedAreTables ==
  ASSUME NEW table \in Counts, NEW p, IsPlan(p)
  PROVE  CombinedLoads(table, p) \in LoadTables
<1>1. \A b \in Batch : \A l \in Layer : \A d \in Source : CombinedLoads(table, p)[b][l][d] \in Nat
  BY CombinedCell
<1> QED
  BY <1>1 DEF CombinedLoads, LoadTables

(* Tables with the same cells are the same. *)
LEMMA SameCells ==
  ASSUME NEW X, X = [b \in Batch |-> [l \in Layer |-> [d \in Source |-> X[b][l][d]]]],
         NEW Y, Y = [b \in Batch |-> [l \in Layer |-> [d \in Source |-> Y[b][l][d]]]],
         \A b \in Batch : \A l \in Layer : \A d \in Source : X[b][l][d] = Y[b][l][d]
  PROVE  X = Y
<1>1. [b \in Batch |-> [l \in Layer |-> [d \in Source |-> X[b][l][d]]]]
        = [b \in Batch |-> [l \in Layer |-> [d \in Source |-> Y[b][l][d]]]]
  OBVIOUS
<1> QED
  BY <1>1

(* Giving one source other batches changes each cell by what that source sends. *)
LEMMA OneSourceChanged ==
  ASSUME NEW table \in Counts, NEW p, IsPlan(p), NEW s \in Source, NEW batches \in Arrangement,
         NEW b \in Batch, NEW l \in Layer, NEW d \in Source
  PROVE  CombinedLoads(table, [p EXCEPT ![s] = batches])[b][l][d]
           = CombinedLoads(table, p)[b][l][d] - SourceLoads(table, s, p[s])[b][l][d]
                                              + SourceLoads(table, s, batches)[b][l][d]
<1> DEFINE q == [p EXCEPT ![s] = batches]
           before == [r \in Source |-> SourceLoads(table, r, p[r])[b][l][d]]
           after == [r \in Source |-> SourceLoads(table, r, q[r])[b][l][d]]
<1>1. IsPlan(q) /\ q[s] = batches /\ \A r \in Source \ {s} : q[r] = p[r]
  BY DEF IsPlan
<1> HIDE DEF q
<1>2. \A r \in Source : before[r] \in Int /\ after[r] \in Int
  <2>1. \A r \in Source : /\ p[r] \in [Batch -> [Slot -> Request]]
                         /\ q[r] \in [Batch -> [Slot -> Request]]
    BY <1>1 DEF IsPlan, Arrangement
  <2>2. \A r \in Source : /\ SourceLoads(table, r, p[r])[b][l][d] \in Nat
                         /\ SourceLoads(table, r, q[r])[b][l][d] \in Nat
    BY <2>1, SourceCell
  <2> QED
    BY <2>2
<1>3. \A r \in Source \ {s} : before[r] = after[r]
  BY <1>1
<1>4. before[s] = SourceLoads(table, s, p[s])[b][l][d] /\ after[s] = SourceLoads(table, s, batches)[b][l][d]
  BY <1>1
<1>5. /\ CombinedLoads(table, p)[b][l][d] = SumFunctionOnSet(before, Source)
      /\ CombinedLoads(table, q)[b][l][d] = SumFunctionOnSet(after, Source)
  BY <1>1, CombinedCell
<1> HIDE DEF before, after
<1>6. SumFunctionOnSet(after, Source) = SumFunctionOnSet(before, Source) - before[s] + after[s]
  BY <1>2, <1>3, Finite, SumChanged
<1> QED
  BY <1>4, <1>5, <1>6 DEF q

LEMMA ReplacedIsCombined ==
  ASSUME counts \in Counts, IsPlan(plan), loads = CombinedLoads(counts, plan),
         NEW s \in Source, NEW batches \in Arrangement
  PROVE  Replaced(s, batches) = CombinedLoads(counts, [plan EXCEPT ![s] = batches])
<1> DEFINE X == Replaced(s, batches)
           Y == CombinedLoads(counts, [plan EXCEPT ![s] = batches])
<1>1. \A b \in Batch : \A l \in Layer : \A d \in Source : X[b][l][d] = Y[b][l][d]
  <2> SUFFICES ASSUME NEW b \in Batch, NEW l \in Layer, NEW d \in Source
               PROVE  X[b][l][d] = Y[b][l][d]
    OBVIOUS
  <2>1. X[b][l][d] = loads[b][l][d] - SourceLoads(counts, s, plan[s])[b][l][d]
                                    + SourceLoads(counts, s, batches)[b][l][d]
    BY DEF Replaced
  <2> QED
    BY <2>1, OneSourceChanged
<1>2. X = [b \in Batch |-> [l \in Layer |-> [d \in Source |-> X[b][l][d]]]]
  BY DEF Replaced
<1>3. Y = [b \in Batch |-> [l \in Layer |-> [d \in Source |-> Y[b][l][d]]]]
  BY DEF CombinedLoads
<1> HIDE DEF X, Y
<1>4. X = Y
  BY <1>1, <1>2, <1>3, SameCells
<1> QED
  BY <1>4 DEF X, Y

(* A swap moves the assignments of two requests between two batches. *)
LEMMA SwapCell ==
  ASSUME NEW table \in Counts, NEW s \in Source, NEW batches \in Arrangement, NEW swap \in Swaps,
         NEW b \in Batch, NEW l \in Layer, NEW d \in Source
  PROVE  LET left == table[s][batches[swap[1]][swap[3]]][l][d]
             right == table[s][batches[swap[2]][swap[4]]][l][d]
             old == SourceLoads(table, s, batches)[b][l][d]
         IN  SourceLoads(table, s, Exchanged(batches, swap))[b][l][d]
               = CASE b = swap[1] -> old - left + right
                   [] b = swap[2] -> old - right + left
                   [] OTHER -> old
<1> DEFINE new == Exchanged(batches, swap)
           before == [i \in Slot |-> table[s][batches[b][i]][l][d]]
           after == [i \in Slot |-> table[s][new[b][i]][l][d]]
           old == SourceLoads(table, s, batches)[b][l][d]
           left == table[s][batches[swap[1]][swap[3]]][l][d]
           right == table[s][batches[swap[2]][swap[4]]][l][d]
<1>1. /\ swap[1] \in Batch /\ swap[2] \in Batch /\ swap[1] # swap[2]
      /\ swap[3] \in Slot /\ swap[4] \in Slot
      /\ batches \in [Batch -> [Slot -> Request]]
  <2>1. swap[1] \in Int /\ swap[2] \in Int /\ swap[1] < swap[2]
    BY DEF Swaps, Batch
  <2> QED
    BY <2>1 DEF Swaps, Arrangement
<1>2. /\ new \in [Batch -> [Slot -> Request]]
      /\ new[swap[1]] = [batches[swap[1]] EXCEPT ![swap[3]] = batches[swap[2]][swap[4]]]
      /\ new[swap[2]] = [batches[swap[2]] EXCEPT ![swap[4]] = batches[swap[1]][swap[3]]]
      /\ \A c \in Batch \ {swap[1], swap[2]} : new[c] = batches[c]
  BY <1>1 DEF Exchanged
<1> HIDE DEF new
<1>3. \A i \in Slot : before[i] \in Int /\ after[i] \in Int
  BY <1>1, <1>2 DEF Counts
<1>4. /\ old = SumFunctionOnSet(before, Slot)
      /\ SourceLoads(table, s, new)[b][l][d] = SumFunctionOnSet(after, Slot)
  <2>1. \A x \in [Batch -> [Slot -> Request]] : SourceLoads(table, s, x)[b][l][d]
          = SumFunctionOnSet([i \in Slot |-> table[s][x[b][i]][l][d]], Slot)
    BY SourceCell
  <2> QED
    BY <1>1, <1>2, <2>1
<1>5. ASSUME NEW a \in Slot, \A i \in Slot \ {a} : before[i] = after[i]
      PROVE  SumFunctionOnSet(after, Slot) = SumFunctionOnSet(before, Slot) - before[a] + after[a]
  <2> HIDE DEF before, after
  <2> QED
    BY <1>3, <1>5, Finite, SumChanged
<1>6. CASE b = swap[1]
  <2>1. \A i \in Slot \ {swap[3]} : before[i] = after[i]
    BY <1>1, <1>2, <1>6
  <2>2. before[swap[3]] = left /\ after[swap[3]] = right
    BY <1>1, <1>2, <1>6
  <2> HIDE DEF before, after, left, right, old
  <2>3. SumFunctionOnSet(after, Slot)
          = SumFunctionOnSet(before, Slot) - before[swap[3]] + after[swap[3]]
    BY <1>1, <1>5, <2>1
  <2>4. SourceLoads(table, s, new)[b][l][d] = old - left + right
    BY <1>4, <2>2, <2>3
  <2>5. b # swap[2]
    BY <1>1, <1>6
  <2> QED
    BY <1>6, <2>4, <2>5 DEF left, right, old, new
<1>7. CASE b = swap[2]
  <2>1. \A i \in Slot \ {swap[4]} : before[i] = after[i]
    BY <1>1, <1>2, <1>7
  <2>2. before[swap[4]] = right /\ after[swap[4]] = left
    BY <1>1, <1>2, <1>7
  <2> HIDE DEF before, after, left, right, old
  <2>3. SumFunctionOnSet(after, Slot)
          = SumFunctionOnSet(before, Slot) - before[swap[4]] + after[swap[4]]
    BY <1>1, <1>5, <2>1
  <2>4. SourceLoads(table, s, new)[b][l][d] = old - right + left
    BY <1>4, <2>2, <2>3
  <2>5. b # swap[1]
    BY <1>1, <1>7
  <2> QED
    BY <1>7, <2>4, <2>5 DEF left, right, old, new
<1>8. CASE b # swap[1] /\ b # swap[2]
  <2>1. after = before
    BY <1>2, <1>8
  <2> QED
    BY <1>4, <1>8, <2>1 DEF new
<1> QED
  BY <1>6, <1>7, <1>8

LEMMA SwapIsCombined ==
  ASSUME counts \in Counts, IsPlan(plan), loads = CombinedLoads(counts, plan),
         NEW s \in Source, NEW swap \in Swaps
  PROVE  SwapLoads(s, swap)
           = CombinedLoads(counts, [plan EXCEPT ![s] = Exchanged(plan[s], swap)])
<1> DEFINE new == Exchanged(plan[s], swap)
           X == SwapLoads(s, swap)
           Y == CombinedLoads(counts, [plan EXCEPT ![s] = new])
<1>1. plan[s] \in Arrangement /\ new \in Arrangement
  BY ExchangeArranged DEF IsPlan
<1>2. \A b \in Batch : \A l \in Layer : \A d \in Source : X[b][l][d] = Y[b][l][d]
  <2> SUFFICES ASSUME NEW b \in Batch, NEW l \in Layer, NEW d \in Source
               PROVE  X[b][l][d] = Y[b][l][d]
    OBVIOUS
  <2> DEFINE old == SourceLoads(counts, s, plan[s])[b][l][d]
             left == counts[s][plan[s][swap[1]][swap[3]]][l][d]
             right == counts[s][plan[s][swap[2]][swap[4]]][l][d]
             total == CombinedLoads(counts, plan)[b][l][d]
  <2>1. X[b][l][d] = CASE b = swap[1] -> total + (right - left)
                       [] b = swap[2] -> total - (right - left)
                       [] OTHER -> total
    BY DEF SwapLoads
  <2>2. SourceLoads(counts, s, new)[b][l][d]
          = CASE b = swap[1] -> old - left + right
              [] b = swap[2] -> old - right + left
              [] OTHER -> old
    BY <1>1, SwapCell
  <2>3. Y[b][l][d] = total - old + SourceLoads(counts, s, new)[b][l][d]
    BY <1>1, OneSourceChanged
  <2>4. old \in Nat /\ total \in Nat /\ left \in Int /\ right \in Int
    <3>1. plan[s] \in [Batch -> [Slot -> Request]]
      BY <1>1 DEF Arrangement
    <3>2. old \in Nat
      BY <3>1, SourceCell
    <3>3. total \in Nat
      BY CombinedCell
    <3>4. left \in Int /\ right \in Int
      BY <3>1 DEF Counts, Swaps
    <3> QED
      BY <3>2, <3>3, <3>4
  <2> HIDE DEF new, X, Y, old, left, right, total
  <2> QED
    BY <2>1, <2>2, <2>3, <2>4
<1>3. X = [b \in Batch |-> [l \in Layer |-> [d \in Source |-> X[b][l][d]]]]
  <2> DEFINE delta(l, d) == counts[s][plan[s][swap[2]][swap[4]]][l][d]
                              - counts[s][plan[s][swap[1]][swap[3]]][l][d]
             E(b, l, d) == CASE b = swap[1] -> loads[b][l][d] + delta(l, d)
                             [] b = swap[2] -> loads[b][l][d] - delta(l, d)
                             [] OTHER -> loads[b][l][d]
  <2>1. X = [b \in Batch |-> [l \in Layer |-> [d \in Source |-> E(b, l, d)]]]
    BY DEF SwapLoads
  <2> HIDE DEF X, E
  <2> QED
    BY <2>1
<1>4. Y = [b \in Batch |-> [l \in Layer |-> [d \in Source |-> Y[b][l][d]]]]
  BY DEF CombinedLoads
<1> HIDE DEF X, Y
<1>5. X = Y
  BY <1>2, <1>3, <1>4, SameCells
<1> QED
  BY <1>5 DEF X, Y

-----------------------------------------------------------------------------
(* Costs of tables. *)

LEMMA Critical ==
  ASSUME NEW table \in LoadTables, NEW b \in Batch, NEW l \in Layer
  PROVE  /\ CriticalLoad(table, b, l) \in Nat
         /\ \A d \in Source : table[b][l][d] <= CriticalLoad(table, b, l)
<1> DEFINE row == table[b][l]
<1>1. row \in [Source -> Nat]
  BY DEF LoadTables
<1> HIDE DEF row
<1>2. Range(row) = {row[d] : d \in Source}
  BY <1>1 DEF Range
<1>3. IsFiniteSet(Range(row))
  <2>1. row \in Surjection(Source, Range(row))
    BY <1>1 DEF Surjection, Range
  <2> QED
    BY <2>1, Finite, FS_Surjection
<1>4. Range(row) \in SUBSET Nat /\ Range(row) # {}
  BY <1>1, <1>2, PlanAssumption DEF Source
<1>5. Max(Range(row)) \in Range(row) /\ \A n \in Range(row) : n <= Max(Range(row))
  BY <1>3, <1>4, MaxIsGreatest
<1>6. Max(Range(row)) \in Nat /\ \A d \in Source : row[d] <= Max(Range(row))
  BY <1>2, <1>4, <1>5
<1> QED
  BY <1>6 DEF CriticalLoad, row

LEMMA BatchCostIs ==
  ASSUME NEW table \in LoadTables, NEW b \in Batch
  PROVE  /\ BatchCost(table, b)
              = SumFunctionOnSet([l \in Layer |-> CriticalLoad(table, b, l)], Layer)
         /\ BatchCost(table, b) \in Nat
<1> DEFINE critical == [l \in Layer |-> CriticalLoad(table, b, l)]
<1>1. BatchCost(table, b) = SumFunctionOnSet(critical, Layer)
  BY DEF BatchCost, SumFunction
<1>2. \A l \in Layer : critical[l] \in Nat
  BY Critical
<1> HIDE DEF critical
<1>3. SumFunctionOnSet(critical, Layer) \in Nat
  BY <1>2, Finite, SumNatural
<1> QED
  BY <1>1, <1>3 DEF critical

LEMMA CostIs ==
  ASSUME NEW table \in LoadTables
  PROVE  /\ CostOf(table) = SumFunctionOnSet([b \in Batch |-> BatchCost(table, b)], Batch)
         /\ CostOf(table) \in Nat
<1> DEFINE costs == [b \in Batch |-> BatchCost(table, b)]
<1>1. CostOf(table) = SumFunctionOnSet(costs, Batch)
  BY DEF CostOf, SumFunction
<1>2. \A b \in Batch : costs[b] \in Nat
  BY BatchCostIs
<1> HIDE DEF costs
<1>3. SumFunctionOnSet(costs, Batch) \in Nat
  BY <1>2, Finite, SumNatural
<1> QED
  BY <1>1, <1>3 DEF costs

(* Only the rows of two batches changed, so only they are costed again. *)
LEMMA PairChanged ==
  ASSUME NEW old \in LoadTables, NEW new \in LoadTables, NEW swap \in Swaps,
         \A b \in Batch \ {swap[1], swap[2]} : new[b] = old[b]
  PROVE  CostOf(new) = CostOf(old) - PairCost(old, swap) + PairCost(new, swap)
<1> DEFINE f == [b \in Batch |-> BatchCost(old, b)]
           g == [b \in Batch |-> IF b = swap[1] THEN BatchCost(new, b) ELSE BatchCost(old, b)]
           h == [b \in Batch |-> BatchCost(new, b)]
<1>1. swap[1] \in Batch /\ swap[2] \in Batch /\ swap[1] # swap[2]
  <2>1. swap[1] \in Int /\ swap[2] \in Int /\ swap[1] < swap[2]
    BY DEF Swaps, Batch
  <2> QED
    BY <2>1 DEF Swaps
<1>2. \A b \in Batch : f[b] \in Int /\ g[b] \in Int /\ h[b] \in Int
  <2>1. \A b \in Batch : BatchCost(old, b) \in Nat /\ BatchCost(new, b) \in Nat
    BY BatchCostIs
  <2> QED
    BY <2>1
<1>3. \A b \in Batch \ {swap[1]} : f[b] = g[b]
  OBVIOUS
<1>4. \A b \in Batch \ {swap[2]} : g[b] = h[b]
  <2>1. \A b \in Batch \ {swap[1], swap[2]} : BatchCost(new, b) = BatchCost(old, b)
    BY DEF BatchCost, CriticalLoad
  <2> QED
    BY <2>1
<1>5. /\ f[swap[1]] = BatchCost(old, swap[1]) /\ g[swap[1]] = BatchCost(new, swap[1])
      /\ g[swap[2]] = BatchCost(old, swap[2]) /\ h[swap[2]] = BatchCost(new, swap[2])
  BY <1>1
<1>6. CostOf(old) = SumFunctionOnSet(f, Batch) /\ CostOf(new) = SumFunctionOnSet(h, Batch)
  BY CostIs
<1> HIDE DEF f, g, h
<1>7. SumFunctionOnSet(g, Batch) = SumFunctionOnSet(f, Batch) - f[swap[1]] + g[swap[1]]
  BY <1>1, <1>2, <1>3, Finite, SumChanged
<1>8. SumFunctionOnSet(h, Batch) = SumFunctionOnSet(g, Batch) - g[swap[2]] + h[swap[2]]
  BY <1>1, <1>2, <1>4, Finite, SumChanged
<1>9. SumFunctionOnSet(f, Batch) \in Int
  BY <1>2, Finite, SumTakesOut
<1> QED
  BY <1>1, <1>2, <1>5, <1>6, <1>7, <1>8, <1>9 DEF PairCost

LEMMA SwapCostIs ==
  ASSUME counts \in Counts, IsPlan(plan), loads = CombinedLoads(counts, plan), cost = CostOf(loads),
         NEW s \in Source, NEW swap \in Swaps
  PROVE  SwapCost(s, swap) = CostOf(SwapLoads(s, swap))
<1> DEFINE new == SwapLoads(s, swap)
<1>1. loads \in LoadTables
  BY CombinedAreTables
<1>2. new \in LoadTables
  <2>1. IsPlan([plan EXCEPT ![s] = Exchanged(plan[s], swap)])
    BY ExchangeArranged DEF IsPlan
  <2> QED
    BY <2>1, SwapIsCombined, CombinedAreTables
<1>3. \A b \in Batch \ {swap[1], swap[2]} : new[b] = loads[b]
  <2> SUFFICES ASSUME NEW b \in Batch \ {swap[1], swap[2]} PROVE new[b] = loads[b]
    OBVIOUS
  <2>1. new[b] = [l \in Layer |-> [d \in Source |-> loads[b][l][d]]]
    BY DEF SwapLoads
  <2>2. loads[b] = [l \in Layer |-> [d \in Source |-> loads[b][l][d]]]
    BY <1>1 DEF LoadTables
  <2> QED
    BY <2>1, <2>2
<1> HIDE DEF new
<1>4. CostOf(new) = CostOf(loads) - PairCost(loads, swap) + PairCost(new, swap)
  BY <1>1, <1>2, <1>3, PairChanged
<1> QED
  BY <1>4 DEF new, SwapCost

-----------------------------------------------------------------------------
(* The table and the cost of the running local search.                     *)

LEMMA DescentPatches ==
  ASSUME PlannerInv, LoadsPatched, Descend
  PROVE  LoadsPatched'
<1>1. /\ stage = "descend" /\ source \in Source /\ stage' = stage /\ counts' = counts
      /\ counts \in Counts /\ IsPlan(plan)
      /\ loads = CombinedLoads(counts, plan) /\ cost = CostOf(loads)
  BY DEF Descend, PlannerInv, TypeOK, PlansPartition, LoadsPatched
<1>2. CASE UNCHANGED <<plan, loads, cost>>
  BY <1>1, <1>2 DEF LoadsPatched
<1>3. CASE \E batches \in Arrangement :
             Adopt(batches, Replaced(source, batches), CostOf(Replaced(source, batches)))
  <2>1. PICK batches \in Arrangement :
             Adopt(batches, Replaced(source, batches), CostOf(Replaced(source, batches)))
    BY <1>3
  <2>2. loads' = CombinedLoads(counts, plan') /\ cost' = CostOf(loads')
    BY <1>1, <2>1, ReplacedIsCombined DEF Adopt
  <2> QED
    BY <1>1, <2>2 DEF LoadsPatched
<1>4. CASE \E swap \in Swaps :
             Adopt(Exchanged(plan[source], swap), SwapLoads(source, swap), SwapCost(source, swap))
  <2>1. PICK swap \in Swaps :
             Adopt(Exchanged(plan[source], swap), SwapLoads(source, swap), SwapCost(source, swap))
    BY <1>4
  <2>2. loads' = CombinedLoads(counts, plan') /\ cost' = CostOf(loads')
    BY <1>1, <2>1, SwapIsCombined, SwapCostIs DEF Adopt
  <2> QED
    BY <1>1, <2>2 DEF LoadsPatched
<1>5. CASE DescendByChoice
  <2> DEFINE trials == {[move |-> c, cost |-> CostOf(Replaced(source, c))] : c \in TwoBatchChoices}
  <2>1. PICK t \in trials : Adopt(t.move, Replaced(source, t.move), t.cost) \/ Keep(t.cost)
    BY <1>5 DEF DescendByChoice
  <2>2. PICK c \in TwoBatchChoices : t = [move |-> c, cost |-> CostOf(Replaced(source, c))]
    OBVIOUS
  <2>3. c \in Arrangement /\ t.move = c /\ t.cost = CostOf(Replaced(source, c))
    BY <2>2 DEF TwoBatchChoices
  <2>4. Adopt(c, Replaced(source, c), CostOf(Replaced(source, c))) \/ UNCHANGED <<plan, loads, cost>>
    BY <2>1, <2>3 DEF Keep
  <2> QED
    BY <1>2, <1>3, <2>3, <2>4
<1>6. CASE DescendBySwap
  <2> DEFINE trials == {[move |-> w, cost |-> SwapCost(source, w)] : w \in Swaps}
             Tried(t) == \/ Adopt(Exchanged(plan[source], t.move), SwapLoads(source, t.move), t.cost)
                         \/ Keep(t.cost)
  <2>1. (\E t \in trials : Tried(t)) \/ Keep(cost)
    BY <1>6 DEF DescendBySwap
  <2>2. CASE \E t \in trials : Tried(t)
    <3>1. PICK t \in trials : Tried(t)
      BY <2>2
    <3>2. PICK w \in Swaps : t = [move |-> w, cost |-> SwapCost(source, w)]
      OBVIOUS
    <3>3. t.move = w /\ t.cost = SwapCost(source, w)
      BY <3>2
    <3>4. \/ Adopt(Exchanged(plan[source], w), SwapLoads(source, w), SwapCost(source, w))
          \/ UNCHANGED <<plan, loads, cost>>
      BY <3>1, <3>3 DEF Keep
    <3> QED
      BY <1>2, <1>4, <3>4
  <2>3. CASE Keep(cost)
    BY <1>2, <2>3 DEF Keep
  <2> QED
    BY <2>1, <2>2, <2>3
<1> QED
  BY <1>5, <1>6 DEF Descend

LEMMA StepPatches ==
  ASSUME PlannerInv, LoadsPatched, [Next]_plannerVars
  PROVE  LoadsPatched'
<1>1. CASE BeginDescent
  BY <1>1 DEF BeginDescent, LoadsPatched
<1>2. CASE Descend
  BY <1>2, DescentPatches
<1>3. CASE NextSweep
  BY <1>3 DEF NextSweep, LoadsPatched
<1>4. CASE DrawPlan \/ EndDescent \/ SearchMore \/ EndSearch
  BY <1>4 DEF DrawPlan, EndDescent, SearchMore, EndSearch, LoadsPatched
<1>5. CASE UNCHANGED plannerVars
  BY <1>5 DEF plannerVars, descentVars, LoadsPatched
<1> QED
  BY <1>1, <1>2, <1>3, <1>4, <1>5 DEF Next, Plan, Planned

(* Through any number of adopted moves, the load table and the cost that a *)
(* local search patches are those of the plan it holds: no drift.          *)
THEOREM LoadsStayPatched == Spec => []LoadsPatched
<1>1. Init => LoadsPatched
  BY DEF Init, LoadsPatched
<1>2. PlannerInv /\ LoadsPatched /\ [Next]_plannerVars => LoadsPatched'
  BY StepPatches
<1> QED
  BY InitEstablishes, StepKeeps, <1>1, <1>2, PTL DEF Spec

-----------------------------------------------------------------------------
(* The lower bound. *)

(* Each request of a source is in exactly one slot. *)
Places == Batch \X Slot
InPlace(batches) == [x \in Places |-> batches[x[1]][x[2]]]

LEMMA AllRequestsPlaced ==
  ASSUME NEW batches \in Arrangement
  PROVE  /\ \A x, y \in Places : InPlace(batches)[x] = InPlace(batches)[y] => x = y
         /\ {InPlace(batches)[x] : x \in Places} = Request
<1> DEFINE place == InPlace(batches)
<1>1. /\ \A x \in Places : x[1] \in Batch /\ x[2] \in Slot /\ x = <<x[1], x[2]>>
      /\ batches \in [Batch -> [Slot -> Request]]
      /\ \A b, c \in Batch : \A i, j \in Slot : batches[b][i] = batches[c][j] => b = c /\ i = j
  BY DEF Arrangement, Places
<1>2. \A x, y \in Places : place[x] = place[y] => x = y
  BY <1>1 DEF InPlace
<1>3. place \in [Places -> Request]
  BY <1>1 DEF InPlace
<1> HIDE DEF place
<1>4. place \in Injection(Places, Request)
  BY <1>2, <1>3 DEF Injection, IsInjective
<1>5. Cardinality(Places) = Cardinality(Request)
  <2>1. Cardinality(Batch) = BatchCount /\ Cardinality(Slot) = BatchSize
        /\ Cardinality(Request) = NumRequests
    <3>1. /\ Cardinality(1 .. BatchCount) = IF 1 > BatchCount THEN 0 ELSE BatchCount - 1 + 1
          /\ Cardinality(1 .. BatchSize) = IF 1 > BatchSize THEN 0 ELSE BatchSize - 1 + 1
          /\ Cardinality(1 .. NumRequests) = IF 1 > NumRequests THEN 0 ELSE NumRequests - 1 + 1
      BY Tiling, PlanAssumption, FS_Interval
    <3> QED
      BY <3>1, Tiling, PlanAssumption DEF Batch, Slot, Request
  <2>2. Cardinality(Places) = Cardinality(Batch) * Cardinality(Slot)
    BY Finite, FS_Product DEF Places
  <2> QED
    BY <2>1, <2>2, Tiling
<1>6. IsFiniteSet(Places)
  BY Finite, FS_Product DEF Places
<1>7. place \in Surjection(Places, Request)
  BY <1>4, <1>5, Finite, FS_Injection
<1>8. {place[x] : x \in Places} = Request
  BY <1>3, <1>7 DEF Surjection
<1> QED
  BY <1>2, <1>8 DEF place

(* Whatever its batches, a source sends the same in total. *)
LEMMA SourceTotal ==
  ASSUME NEW table \in Counts, NEW s \in Source, NEW batches \in Arrangement,
         NEW l \in Layer, NEW d \in Source
  PROVE  SumFunctionOnSet([r \in Request |-> table[s][r][l][d]], Request)
           = SumFunctionOnSet([b \in Batch |-> SourceLoads(table, s, batches)[b][l][d]], Batch)
<1> DEFINE sends == [r \in Request |-> table[s][r][l][d]]
           rows == [b \in Batch |-> SourceLoads(table, s, batches)[b][l][d]]
           cells == [b \in Batch |-> [i \in Slot |-> table[s][batches[b][i]][l][d]]]
           flat == [x \in Places |-> table[s][batches[x[1]][x[2]]][l][d]]
           place == InPlace(batches)
<1>1. batches \in [Batch -> [Slot -> Request]]
  BY DEF Arrangement
<1>2. \A b \in Batch : \A i \in Slot : cells[b][i] \in Int /\ flat[<<b, i>>] = cells[b][i]
  BY <1>1 DEF Counts, Places
<1>3. \A b \in Batch : rows[b] = SumFunctionOnSet(cells[b], Slot)
  BY <1>1, SourceCell
<1>4. \A x \in Places : flat[x] \in Int /\ flat[x] = sends[place[x]]
  <2>1. \A x \in Places : place[x] \in Request /\ flat[x] = table[s][place[x]][l][d]
    BY <1>1 DEF InPlace, Places
  <2>2. \A r \in Request : sends[r] \in Int /\ sends[r] = table[s][r][l][d]
    BY DEF Counts
  <2> HIDE DEF place, sends, flat
  <2> QED
    BY <2>1, <2>2
<1> HIDE DEF sends, rows, cells, flat, place
<1>5. /\ \A x, y \in Places : place[x] = place[y] => x = y
      /\ {place[x] : x \in Places} = Request
  BY AllRequestsPlaced DEF place
<1>6. IsRenumbering(flat, Places, sends, Request, place)
  BY <1>4, <1>5 DEF IsRenumbering
<1>7. IsRows(flat, cells, rows, Batch, Slot)
  BY <1>2, <1>3 DEF IsRows
<1>8. IsFiniteSet(Places)
  BY Finite, FS_Product DEF Places
<1>9. SumFunctionOnSet(flat, Places) = SumFunctionOnSet(sends, Request)
  BY <1>6, <1>8, SumReindexed
<1>10. SumFunctionOnSet(flat, Places) = SumFunctionOnSet(rows, Batch)
  BY <1>7, Finite, SumRows DEF Places
<1> QED
  BY <1>9, <1>10 DEF sends, rows

(* What a destination receives is spread over the batches. *)
LEMMA ReceivedOverBatches ==
  ASSUME NEW table \in Counts, NEW p, IsPlan(p), NEW l \in Layer, NEW d \in Source
  PROVE  /\ Received(table, l)[d]
              = SumFunctionOnSet([b \in Batch |-> CombinedLoads(table, p)[b][l][d]], Batch)
         /\ Received(table, l)[d] \in Nat
<1> DEFINE rows == [s \in Source |-> SumFunctionOnSet([r \in Request |-> table[s][r][l][d]], Request)]
           f == [s \in Source |-> [b \in Batch |-> SourceLoads(table, s, p[s])[b][l][d]]]
           t == [b \in Batch |-> [s \in Source |-> SourceLoads(table, s, p[s])[b][l][d]]]
           columns == [b \in Batch |-> CombinedLoads(table, p)[b][l][d]]
<1>1. \A s \in Source : p[s] \in Arrangement /\ p[s] \in [Batch -> [Slot -> Request]]
  BY DEF IsPlan, Arrangement
<1>2. Received(table, l)[d] = SumFunctionOnSet(rows, Source)
  BY DEF Received, SumFunction
<1>3. \A s \in Source : \A b \in Batch : f[s][b] \in Int /\ t[b][s] = f[s][b]
  <2>1. \A s \in Source : \A b \in Batch : SourceLoads(table, s, p[s])[b][l][d] \in Nat
    BY <1>1, SourceCell
  <2> QED
    BY <2>1
<1>4. \A s \in Source : rows[s] = SumFunctionOnSet(f[s], Batch)
  BY <1>1, SourceTotal
<1>5. \A b \in Batch : columns[b] = SumFunctionOnSet(t[b], Source)
  BY CombinedCell
<1>6. \A b \in Batch : columns[b] \in Nat
  BY CombinedCell
<1> HIDE DEF rows, f, t, columns
<1>7. IsTable(f, t, rows, columns, Source, Batch)
  BY <1>3, <1>4, <1>5 DEF IsTable
<1>8. SumFunctionOnSet(rows, Source) = SumFunctionOnSet(columns, Batch)
  BY <1>7, Finite, SumExchanged
<1>9. SumFunctionOnSet(columns, Batch) \in Nat
  BY <1>6, Finite, SumNatural
<1> QED
  BY <1>2, <1>8, <1>9 DEF columns

(* In a layer, the batches cannot cost less than the most loaded           *)
(* destination receives.                                                   *)
LEMMA LayerBounded ==
  ASSUME NEW table \in Counts, NEW p, IsPlan(p), NEW l \in Layer
  PROVE  /\ Max(Range(Received(table, l))) \in Nat
         /\ Max(Range(Received(table, l)))
              <= SumFunctionOnSet([b \in Batch |-> CriticalLoad(CombinedLoads(table, p), b, l)], Batch)
<1> DEFINE all == Received(table, l)
           X == CombinedLoads(table, p)
           critical == [b \in Batch |-> CriticalLoad(X, b, l)]
<1>1. all \in [Source -> Nat]
  <2>1. \A d \in Source : Received(table, l)[d] \in Nat
    BY ReceivedOverBatches
  <2> QED
    BY <2>1 DEF Received
<1>2. X \in LoadTables
  BY CombinedAreTables
<1>3. \A d \in Source : all[d] <= SumFunctionOnSet(critical, Batch)
  <2> SUFFICES ASSUME NEW d \in Source PROVE all[d] <= SumFunctionOnSet(critical, Batch)
    OBVIOUS
  <2> DEFINE column == [b \in Batch |-> CombinedLoads(table, p)[b][l][d]]
  <2>1. all[d] = SumFunctionOnSet(column, Batch)
    BY ReceivedOverBatches
  <2>2. \A b \in Batch : column[b] \in Int /\ critical[b] \in Int /\ column[b] <= critical[b]
    <3>1. \A b \in Batch : X[b][l][d] \in Nat
      BY <1>2 DEF LoadTables
    <3>2. \A b \in Batch : CriticalLoad(X, b, l) \in Nat /\ X[b][l][d] <= CriticalLoad(X, b, l)
      <4> HIDE DEF X
      <4> QED
        BY <1>2, Critical
    <3> QED
      BY <3>1, <3>2
  <2> HIDE DEF all, critical, column
  <2>3. SumFunctionOnSet(column, Batch) <= SumFunctionOnSet(critical, Batch)
    BY <2>2, Finite, SumMonotone
  <2> QED
    BY <2>1, <2>3
<1>4. /\ Max(Range(all)) \in Nat /\ Max(Range(all)) \in Range(all)
  <2> HIDE DEF all
  <2>1. all \in Surjection(Source, Range(all)) /\ Range(all) = {all[d] : d \in Source}
    BY <1>1 DEF Surjection, Range
  <2>2. IsFiniteSet(Range(all))
    BY <2>1, Finite, FS_Surjection
  <2>3. Range(all) \in SUBSET Nat /\ Range(all) # {}
    BY <1>1, <2>1, PlanAssumption DEF Source
  <2> QED
    BY <2>2, <2>3, MaxIsGreatest
<1>5. PICK d \in Source : Max(Range(all)) = all[d]
  BY <1>1, <1>4 DEF Range
<1> QED
  BY <1>3, <1>4, <1>5

LEMMA CostAboveBound ==
  ASSUME NEW table \in Counts, NEW p, IsPlan(p)
  PROVE  LowerBound(table) \in Nat /\ LowerBound(table) <= PlanCost(table, p)
<1> DEFINE X == CombinedLoads(table, p)
           bounds == [l \in Layer |-> Max(Range(Received(table, l)))]
           f == [b \in Batch |-> [l \in Layer |-> CriticalLoad(X, b, l)]]
           t == [l \in Layer |-> [b \in Batch |-> CriticalLoad(X, b, l)]]
           rows == [b \in Batch |-> BatchCost(X, b)]
           columns == [l \in Layer |-> SumFunctionOnSet(t[l], Batch)]
<1>1. X \in LoadTables
  BY CombinedAreTables
<1>2. LowerBound(table) = SumFunctionOnSet(bounds, Layer)
  BY DEF LowerBound, SumFunction
<1>3. \A l \in Layer : bounds[l] \in Nat /\ bounds[l] <= columns[l]
  BY LayerBounded
<1> HIDE DEF X
<1>4. PlanCost(table, p) = SumFunctionOnSet(rows, Batch)
  BY <1>1, CostIs DEF PlanCost, X
<1>5. \A b \in Batch : rows[b] = SumFunctionOnSet(f[b], Layer)
  BY <1>1, BatchCostIs
<1>6. \A b \in Batch : \A l \in Layer : f[b][l] \in Nat /\ t[l][b] = f[b][l]
  BY <1>1, Critical
<1>7. \A l \in Layer : columns[l] = SumFunctionOnSet(t[l], Batch)
  OBVIOUS
<1>8. \A l \in Layer : columns[l] \in Nat
  <2> SUFFICES ASSUME NEW l \in Layer PROVE columns[l] \in Nat
    OBVIOUS
  <2>1. \A b \in Batch : t[l][b] \in Nat
    BY <1>6
  <2> HIDE DEF t
  <2>2. SumFunctionOnSet(t[l], Batch) \in Nat
    BY <2>1, Finite, SumNatural
  <2> QED
    BY <2>2
<1> HIDE DEF bounds, f, t, rows, columns
<1>9. IsTable(f, t, rows, columns, Batch, Layer)
  BY <1>5, <1>6, <1>7 DEF IsTable
<1>10. SumFunctionOnSet(rows, Batch) = SumFunctionOnSet(columns, Layer)
  BY <1>9, Finite, SumExchanged
<1>11. \A l \in Layer : bounds[l] \in Int /\ columns[l] \in Int /\ bounds[l] <= columns[l]
  BY <1>3, <1>8
<1>12. SumFunctionOnSet(bounds, Layer) <= SumFunctionOnSet(columns, Layer)
  BY <1>11, Finite, SumMonotone
<1>13. SumFunctionOnSet(bounds, Layer) \in Nat
  BY <1>3, Finite, SumNatural
<1> QED
  BY <1>2, <1>4, <1>10, <1>12, <1>13

-----------------------------------------------------------------------------
(* The result of the adaptive loop.  The first local search starts from    *)
(* FIFO and adopts only cheaper plans, so its candidate is cheaper than    *)
(* FIFO or FIFO itself; min() over the candidates does no worse, and in a  *)
(* tie returns that first candidate.                                       *)
NoWorse(p, c) == c <= Fifo.cost /\ (c = Fifo.cost => p = FifoPlan)

CandidatesHonest ==
  \A i \in DOMAIN candidates : candidates[i].cost = PlanCost(counts, candidates[i].plan)

BestHonest ==
  /\ initialPlans[1] = FifoPlan
  /\ CandidatesHonest
  /\ stage = "descend" /\ Len(candidates) = 0 => NoWorse(plan, cost)
  /\ Len(candidates) > 0 => NoWorse(candidates[1].plan, candidates[1].cost)
  /\ stage = "planned" => /\ best.cost = PlanCost(counts, best.plan)
                          /\ NoWorse(best.plan, best.cost)

SearchInv == PlannerInv /\ LoadsPatched /\ BestHonest

LEMMA PlanCosts ==
  ASSUME counts \in Counts, NEW p, IsPlan(p)
  PROVE  PlanCost(counts, p) \in Nat
BY CombinedAreTables, CostIs DEF PlanCost

LEMMA FifoCost ==
  ASSUME counts \in Counts
  PROVE  Fifo.cost = PlanCost(counts, FifoPlan) /\ Fifo.cost \in Nat
BY FifoIsPlan, PlanCosts DEF Fifo

(* What Descend may do to the plan and its cost.                           *)
LEMMA DescentCheaper ==
  ASSUME Descend
  PROVE  cost' < cost \/ UNCHANGED <<plan, cost>>
<1>1. CASE DescendByChoice
  <2> DEFINE trials == {[move |-> c, cost |-> CostOf(Replaced(source, c))] : c \in TwoBatchChoices}
  <2>1. PICK t \in trials : Adopt(t.move, Replaced(source, t.move), t.cost) \/ Keep(t.cost)
    BY <1>1 DEF DescendByChoice
  <2> QED
    BY <2>1 DEF Adopt, Keep
<1>2. CASE DescendBySwap
  <2> DEFINE trials == {[move |-> w, cost |-> SwapCost(source, w)] : w \in Swaps}
             Tried(t) == \/ Adopt(Exchanged(plan[source], t.move), SwapLoads(source, t.move), t.cost)
                         \/ Keep(t.cost)
  <2>1. (\E t \in trials : Tried(t)) \/ Keep(cost)
    BY <1>2 DEF DescendBySwap
  <2> QED
    BY <2>1 DEF Adopt, Keep
<1> QED
  BY <1>1, <1>2 DEF Descend

(* The candidate that min() returns.                                       *)
LEMMA CheapestReturned ==
  ASSUME SearchInv, ReturnBest, Len(candidates) > 0, UNCHANGED counts
  PROVE  /\ best'.cost = PlanCost(counts, best'.plan)
         /\ NoWorse(best'.plan, best'.cost)
<1>1. PICK i \in DOMAIN candidates :
        /\ \A j \in DOMAIN candidates : candidates[i].cost <= candidates[j].cost
        /\ \A j \in 1 .. i - 1 : candidates[i].cost < candidates[j].cost
        /\ best' = candidates[i]
  BY DEF ReturnBest
<1>2. PICK costs : candidates \in Seq(Results(costs))
  BY DEF SearchInv, PlannerInv
<1>3. 1 \in DOMAIN candidates /\ DOMAIN candidates = 1 .. Len(candidates)
  BY <1>2
<1>4. /\ candidates[i].cost = PlanCost(counts, candidates[i].plan)
      /\ candidates[1].cost = PlanCost(counts, candidates[1].plan)
      /\ IsPlan(candidates[i].plan) /\ IsPlan(candidates[1].plan)
  BY <1>3 DEF SearchInv, BestHonest, CandidatesHonest, PlannerInv, PlansPartition
<1>5. candidates[i].cost \in Nat /\ candidates[1].cost \in Nat /\ Fifo.cost \in Nat
  BY <1>4, PlanCosts, FifoCost DEF SearchInv, PlannerInv, TypeOK
<1>6. NoWorse(candidates[1].plan, candidates[1].cost)
  BY DEF SearchInv, BestHonest
<1>7. candidates[i].cost <= candidates[1].cost
  BY <1>1, <1>3
<1>8. CASE i = 1
  BY <1>1, <1>4, <1>6, <1>8
<1>9. CASE i # 1
  <2>1. 1 \in 1 .. i - 1
    BY <1>3, <1>9
  <2>2. candidates[i].cost < candidates[1].cost
    BY <1>1, <2>1
  <2>3. candidates[i].cost < Fifo.cost
    BY <1>5, <1>6, <2>2 DEF NoWorse
  <2>4. NoWorse(candidates[i].plan, candidates[i].cost)
    BY <1>5, <2>3 DEF NoWorse
  <2> QED
    BY <1>1, <1>4, <2>4
<1> QED
  BY <1>8, <1>9

LEMMA InitHonest == Init => BestHonest
BY DEF Init, BestHonest, CandidatesHonest

LEMMA StepHonest ==
  ASSUME SearchInv, [Next]_plannerVars
  PROVE  BestHonest'
<1> USE DEF SearchInv
<1>1. PICK costs : candidates \in Seq(Results(costs))
  BY DEF PlannerInv
<1>2. counts \in Counts
  BY DEF PlannerInv, TypeOK
<1>4. CASE DrawPlan
  <2>1. initialPlans'[1] = initialPlans[1]
    <3>1. PICK order \in [Source -> RandomOrders] :
            initialPlans' = Append(initialPlans, RandomPlan(order))
      BY <1>4 DEF DrawPlan
    <3>2. initialPlans \in Seq([Source -> Arrangement]) /\ Len(initialPlans) >= 1
      BY DEF PlannerInv, TypeOK
    <3> QED
      BY <3>1, <3>2
  <2>2. UNCHANGED <<counts, candidates, stage, best, plan, cost>>
    BY <1>4 DEF DrawPlan, descentVars
  <2> QED
    BY <2>1, <2>2 DEF BestHonest, CandidatesHonest, NoWorse, Fifo
<1>5. CASE BeginDescent
  <2>1. UNCHANGED <<counts, candidates, initialPlans, best>> /\ stage' = "descend"
    BY <1>5 DEF BeginDescent, searchVars
  <2>2. Len(candidates) = 0 => NoWorse(plan', cost')
    <3>1. SUFFICES ASSUME Len(candidates) = 0 PROVE NoWorse(plan', cost')
      OBVIOUS
    <3>2. plan' = FifoPlan /\ cost' = PlanCost(counts, FifoPlan)
      BY <1>5, <2>1, <3>1 DEF BeginDescent, BestHonest, PlanCost
    <3> QED
      BY <1>2, <3>2, FifoCost DEF NoWorse
  <2> QED
    BY <2>1, <2>2 DEF BestHonest, CandidatesHonest, NoWorse, Fifo
<1>6. CASE Descend
  <2>1. UNCHANGED <<counts, candidates, initialPlans, best, stage>> /\ stage = "descend"
    BY <1>6 DEF Descend, searchVars
  <2>2. Len(candidates) = 0 => NoWorse(plan', cost')
    <3>1. LoadsPatched'
      BY <1>6, DescentPatches
    <3>2. cost' \in Nat /\ cost \in Nat
      <4>1. IsPlan(plan) /\ IsPlan(plan')
        BY StepKeeps DEF PlannerInv, PlansPartition
      <4>2. cost = PlanCost(counts, plan) /\ cost' = PlanCost(counts, plan')
        BY <2>1, <3>1 DEF LoadsPatched, PlanCost
      <4> QED
        BY <1>2, <4>1, <4>2, PlanCosts
    <3>3. cost' < cost \/ UNCHANGED <<plan, cost>>
      BY <1>6, DescentCheaper
    <3> QED
      BY <1>2, <2>1, <3>2, <3>3, FifoCost DEF BestHonest, NoWorse
  <2> QED
    BY <2>1, <2>2 DEF BestHonest, CandidatesHonest, NoWorse, Fifo
<1>7. CASE NextSweep
  BY <1>7 DEF NextSweep, searchVars, BestHonest, CandidatesHonest, NoWorse, Fifo
<1>8. CASE EndDescent
  <2> DEFINE result == [plan |-> plan, cost |-> cost]
  <2>1. /\ candidates' = Append(candidates, result) /\ stage' = "draw" /\ stage = "descend"
        /\ UNCHANGED <<counts, initialPlans, best>>
    BY <1>8 DEF EndDescent, descentVars
  <2>2. result.plan = plan /\ result.cost = PlanCost(counts, plan) /\ result.cost = cost
    BY <2>1 DEF LoadsPatched, PlanCost
  <2>3. /\ DOMAIN candidates = 1 .. Len(candidates) /\ Len(candidates) \in Nat
        /\ DOMAIN candidates' = 1 .. Len(candidates) + 1
        /\ Len(candidates') = Len(candidates) + 1
        /\ candidates'[Len(candidates) + 1] = result
        /\ \A i \in 1 .. Len(candidates) : candidates'[i] = candidates[i]
    BY <1>1, <2>1
  <2>4. CandidatesHonest'
    BY <2>1, <2>2, <2>3 DEF BestHonest, CandidatesHonest
  <2>5. NoWorse(candidates'[1].plan, candidates'[1].cost)
    BY <2>1, <2>2, <2>3 DEF BestHonest
  <2> QED
    BY <2>1, <2>4, <2>5 DEF BestHonest, NoWorse, Fifo
<1>9. CASE SearchMore
  <2>1. candidates' = <<>> /\ stage' = "draw" /\ UNCHANGED <<counts, initialPlans>>
    BY <1>9 DEF SearchMore
  <2> QED
    BY <2>1 DEF BestHonest, CandidatesHonest
<1>10. CASE EndSearch
  <2>1. /\ UNCHANGED <<counts, candidates, initialPlans>> /\ stage' = "planned"
        /\ Len(candidates) > 0 /\ ReturnBest
    BY <1>10, SearchAssumption DEF EndSearch, PlannerInv, TypeOK
  <2>2. best'.cost = PlanCost(counts, best'.plan) /\ NoWorse(best'.plan, best'.cost)
    BY <2>1, CheapestReturned
  <2> QED
    BY <2>1, <2>2 DEF BestHonest, CandidatesHonest, NoWorse, Fifo
<1>11. CASE UNCHANGED plannerVars
  BY <1>11 DEF plannerVars, searchVars, descentVars, BestHonest, CandidatesHonest, NoWorse, Fifo
<1> QED
  BY <1>4, <1>5, <1>6, <1>7, <1>8, <1>9, <1>10, <1>11 DEF Next, Plan, Planned

LEMMA NothingReassigned == Reassigned(FifoPlan, FifoPlan) = 0
<1>1. {x \in Source \X Batch \X Slot :
         \A j \in Slot : FifoPlan[x[1]][x[2]][j] # FifoPlan[x[1]][x[2]][x[3]]} = {}
  OBVIOUS
<1> QED
  BY <1>1, FS_EmptySet DEF Reassigned

(* The planner's report is honest for any routes, number of ranks and      *)
(* random plans: the best cost is the cost of the best plan, between the   *)
(* lower bound of the routes and FIFO, and without a saving the plan is    *)
(* FIFO, with nothing reassigned.                                          *)
THEOREM ReportsAreHonest == Spec => []BestBracketed
<1>1. SearchInv => BestBracketed
  <2> SUFFICES ASSUME SearchInv, stage = "planned"
               PROVE  /\ best.cost = PlanCost(counts, best.plan)
                      /\ best.cost \in LowerBound(counts) .. Fifo.cost
                      /\ best.cost = Fifo.cost => Reassigned(FifoPlan, best.plan) = 0
    BY DEF BestBracketed
  <2>1. best.cost = PlanCost(counts, best.plan) /\ NoWorse(best.plan, best.cost)
    BY DEF SearchInv, BestHonest
  <2>2. counts \in Counts /\ IsPlan(best.plan)
    BY DEF SearchInv, PlannerInv, TypeOK, PlansPartition
  <2>3. LowerBound(counts) \in Nat /\ LowerBound(counts) <= best.cost
    BY <2>1, <2>2, CostAboveBound
  <2>4. best.cost \in Nat /\ Fifo.cost \in Nat
    BY <2>1, <2>2, PlanCosts, FifoCost
  <2> QED
    BY <2>1, <2>3, <2>4, NothingReassigned DEF NoWorse
<1>2. Init => SearchInv
  BY InitEstablishes, InitHonest DEF Init, LoadsPatched, SearchInv
<1>3. SearchInv /\ [Next]_plannerVars => SearchInv'
  BY StepKeeps, StepPatches, StepHonest DEF SearchInv
<1> QED
  BY <1>1, <1>2, <1>3, PTL DEF Spec

-----------------------------------------------------------------------------
(* Local optima.  What a plan costs depends only on which requests of each *)
(* source share a batch, so sorted batches stand for all of them.          *)

InBatch(batches, b) == {batches[b][i] : i \in Slot}

SameBatches(batches, others) == \A b \in Batch : InBatch(batches, b) = InBatch(others, b)

LEMMA SameBatchesSameCells ==
  ASSUME NEW table \in Counts, NEW s \in Source, NEW batches \in Arrangement,
         NEW others \in Arrangement, SameBatches(batches, others),
         NEW b \in Batch, NEW l \in Layer, NEW d \in Source
  PROVE  SourceLoads(table, s, batches)[b][l][d] = SourceLoads(table, s, others)[b][l][d]
<1> DEFINE sends == [r \in Request |-> table[s][r][l][d]]
<1>1. \A r \in Request : sends[r] \in Int /\ sends[r] = table[s][r][l][d]
  BY DEF Counts
<1> HIDE DEF sends
<1>2. ASSUME NEW x \in Arrangement
      PROVE  SourceLoads(table, s, x)[b][l][d] = SumFunctionOnSet(sends, InBatch(x, b))
  <2> DEFINE f == [i \in Slot |-> table[s][x[b][i]][l][d]]
             h == [i \in Slot |-> x[b][i]]
  <2>1. x \in [Batch -> [Slot -> Request]]
        /\ \A i, j \in Slot : x[b][i] = x[b][j] => i = j
    BY DEF Arrangement
  <2>2. \A i \in Slot : f[i] \in Int /\ f[i] = sends[h[i]]
    BY <1>1, <2>1
  <2>3. \A i, j \in Slot : h[i] = h[j] => i = j
    BY <2>1
  <2>4. InBatch(x, b) = {h[i] : i \in Slot}
    BY DEF InBatch
  <2>5. SourceLoads(table, s, x)[b][l][d] = SumFunctionOnSet(f, Slot)
    <3>1. \A y \in [Batch -> [Slot -> Request]] : SourceLoads(table, s, y)[b][l][d]
            = SumFunctionOnSet([i \in Slot |-> table[s][y[b][i]][l][d]], Slot)
      BY SourceCell
    <3> QED
      BY <2>1, <3>1
  <2> HIDE DEF f, h
  <2>6. IsRenumbering(f, Slot, sends, InBatch(x, b), h)
    BY <2>2, <2>3, <2>4 DEF IsRenumbering
  <2> QED
    BY <2>5, <2>6, Finite, SumReindexed
<1> QED
  BY <1>2 DEF SameBatches

(* The plan with other batches of one source. *)
With(p, s, batches) == [p EXCEPT ![s] = batches]

LEMMA SameBatchesSameCost ==
  ASSUME NEW table \in Counts, NEW p, IsPlan(p), NEW s \in Source, NEW batches \in Arrangement,
         NEW others \in Arrangement, SameBatches(batches, others)
  PROVE  PlanCost(table, With(p, s, batches)) = PlanCost(table, With(p, s, others))
<1> USE DEF With
<1> DEFINE X == CombinedLoads(table, [p EXCEPT ![s] = batches])
           Y == CombinedLoads(table, [p EXCEPT ![s] = others])
<1>1. \A b \in Batch : \A l \in Layer : \A d \in Source : X[b][l][d] = Y[b][l][d]
  <2> SUFFICES ASSUME NEW b \in Batch, NEW l \in Layer, NEW d \in Source
               PROVE  X[b][l][d] = Y[b][l][d]
    OBVIOUS
  <2>1. SourceLoads(table, s, batches)[b][l][d] = SourceLoads(table, s, others)[b][l][d]
    BY SameBatchesSameCells
  <2>2. \A x \in Arrangement : CombinedLoads(table, [p EXCEPT ![s] = x])[b][l][d]
          = CombinedLoads(table, p)[b][l][d] - SourceLoads(table, s, p[s])[b][l][d]
                                             + SourceLoads(table, s, x)[b][l][d]
    BY OneSourceChanged
  <2> QED
    BY <2>1, <2>2
<1>2. X = [b \in Batch |-> [l \in Layer |-> [d \in Source |-> X[b][l][d]]]]
  BY DEF CombinedLoads
<1>3. Y = [b \in Batch |-> [l \in Layer |-> [d \in Source |-> Y[b][l][d]]]]
  BY DEF CombinedLoads
<1> HIDE DEF X, Y
<1>4. X = Y
  BY <1>1, <1>2, <1>3, SameCells
<1> QED
  BY <1>4 DEF X, Y, PlanCost

(* The batches of a source with the requests of each in increasing order. *)
LEMMA SortedChoice ==
  ASSUME NEW batches \in Arrangement
  PROVE  \E c \in TwoBatchChoices : SameBatches(c, batches)
<1> DEFINE c == [b \in Batch |-> Ascending(InBatch(batches, b))]
<1>1. /\ batches \in [Batch -> [Slot -> Request]]
      /\ \A b, e \in Batch : \A i, j \in Slot : batches[b][i] = batches[e][j] => b = e /\ i = j
  BY DEF Arrangement
<1>2. ASSUME NEW b \in Batch
      PROVE  /\ InBatch(batches, b) \in SUBSET Request /\ InBatch(batches, b) \in SUBSET Int
             /\ IsFiniteSet(InBatch(batches, b)) /\ 1 .. Cardinality(InBatch(batches, b)) = Slot
  <2>1. batches[b] \in Bijection(Slot, InBatch(batches, b))
    BY <1>1 DEF InBatch, Bijection, Injection, Surjection, IsInjective
  <2>2. IsFiniteSet(InBatch(batches, b)) /\ Cardinality(InBatch(batches, b)) = Cardinality(Slot)
    BY <2>1, Finite, FS_Bijection DEF ExistsBijection
  <2>3. Cardinality(Slot) = BatchSize
    BY FS_Interval, PlanAssumption DEF Slot
  <2>4. InBatch(batches, b) \in SUBSET Request
    BY <1>1 DEF InBatch
  <2> QED
    BY <2>2, <2>3, <2>4 DEF Slot, Request
<1>3. ASSUME NEW b \in Batch
      PROVE  /\ c[b] \in [Slot -> Request]
             /\ InBatch(c, b) = InBatch(batches, b)
             /\ \A i, j \in Slot : i < j => c[b][i] < c[b][j]
  <2> DEFINE S == InBatch(batches, b)
  <2>1. c[b] = Ascending(S)
    OBVIOUS
  <2>2. S \in SUBSET Request /\ S \in SUBSET Int /\ IsFiniteSet(S) /\ 1 .. Cardinality(S) = Slot
    BY <1>2
  <2> HIDE DEF S, c
  <2>3. /\ DOMAIN Ascending(S) = Slot
        /\ \A i \in Slot : Ascending(S)[i] \in S
        /\ \A x \in S : \E i \in Slot : Ascending(S)[i] = x
    BY <2>2, AscendingLists
  <2>4. Ascending(S) \in [Slot -> Request]
    <3>1. Ascending(S) \in [1 .. Cardinality(S) -> S]
      BY <2>2, AscendingLists
    <3> QED
      BY <2>2, <3>1
  <2>5. \A i, j \in Slot : i < j => Ascending(S)[i] < Ascending(S)[j]
    BY <2>2, AscendingStrictly
  <2>6. InBatch(c, b) = S
    BY <2>1, <2>3 DEF InBatch
  <2> QED
    BY <2>1, <2>4, <2>5, <2>6 DEF S
<1>4. c \in [Batch -> [Slot -> Request]]
  BY <1>3
<1> HIDE DEF c
<1>5. ASSUME NEW b \in Batch, NEW e \in Batch, NEW i \in Slot, NEW j \in Slot, c[b][i] = c[e][j]
      PROVE  b = e /\ i = j
  <2>1. c[b][i] \in InBatch(batches, b) /\ c[e][j] \in InBatch(batches, e)
    BY <1>3 DEF InBatch
  <2>2. b = e
    BY <1>1, <1>5, <2>1 DEF InBatch
  <2>3. ~(i < j) /\ ~(j < i)
    <3>1. c[b][i] \in Int
      BY <1>4 DEF Request
    <3> QED
      BY <1>3, <1>5, <2>2, <3>1
  <2> QED
    BY <2>2, <2>3 DEF Slot
<1>6. c \in TwoBatchChoices
  BY <1>3, <1>4, <1>5 DEF TwoBatchChoices, Arrangement
<1> QED
  BY <1>3, <1>6 DEF SameBatches

(* Two requests of one batch trade places without changing it; two of      *)
(* different batches are a swap.                                           *)
Turned(q, r, x) == CASE x = q -> r [] x = r -> q [] OTHER -> x

LEMMA TradedArranged ==
  ASSUME NEW batches \in Arrangement, NEW q \in Request, NEW r \in Request
  PROVE  /\ Traded(batches, q, r) \in Arrangement
         /\ \A b \in Batch : \A i \in Slot :
              Traded(batches, q, r)[b][i] = Turned(q, r, batches[b][i])
<1> DEFINE new == Traded(batches, q, r)
<1>1. \A x, y \in Request : /\ Turned(q, r, x) \in Request
                            /\ Turned(q, r, x) = Turned(q, r, y) => x = y
  BY DEF Turned
<1>2. \A b \in Batch : \A i \in Slot : new[b][i] = Turned(q, r, batches[b][i])
  BY DEF Traded, Turned
<1>3. batches \in [Batch -> [Slot -> Request]]
  BY DEF Arrangement
<1>4. new \in [Batch -> [Slot -> Request]]
  <2>1. new = [b \in Batch |-> [i \in Slot |-> Turned(q, r, batches[b][i])]]
    BY DEF Traded, Turned
  <2> HIDE DEF new
  <2> QED
    BY <1>1, <1>3, <2>1
<1> HIDE DEF new
<1>5. ASSUME NEW b \in Batch, NEW c \in Batch, NEW i \in Slot, NEW j \in Slot, new[b][i] = new[c][j]
      PROVE  b = c /\ i = j
  <2>1. batches[b][i] = batches[c][j]
    BY <1>1, <1>2, <1>3, <1>5
  <2> QED
    BY <2>1 DEF Arrangement
<1>6. new \in Arrangement
  BY <1>4, <1>5 DEF Arrangement
<1> QED
  BY <1>2, <1>6 DEF new

LEMMA TradeInBatch ==
  ASSUME NEW batches \in Arrangement, NEW e \in Batch, NEW m \in Slot, NEW n \in Slot
  PROVE  SameBatches(Traded(batches, batches[e][m], batches[e][n]), batches)
<1> DEFINE q == batches[e][m]
           r == batches[e][n]
           new == Traded(batches, q, r)
<1>1. /\ batches \in [Batch -> [Slot -> Request]]
      /\ \A b, c \in Batch : \A i, j \in Slot : batches[b][i] = batches[c][j] => b = c /\ i = j
  BY DEF Arrangement
<1>2. \A b \in Batch : \A i \in Slot : new[b][i] = Turned(q, r, batches[b][i])
  BY <1>1, TradedArranged
<1> HIDE DEF new
<1>3. \A b \in Batch \ {e} : InBatch(new, b) = InBatch(batches, b)
  <2> SUFFICES ASSUME NEW b \in Batch \ {e} PROVE InBatch(new, b) = InBatch(batches, b)
    OBVIOUS
  <2>1. \A i \in Slot : batches[b][i] # q /\ batches[b][i] # r
    BY <1>1
  <2>2. \A i \in Slot : new[b][i] = batches[b][i]
    BY <1>2, <2>1 DEF Turned
  <2> QED
    BY <2>2 DEF InBatch
<1>4. InBatch(new, e) = InBatch(batches, e)
  <2> DEFINE h == [i \in Slot |-> IF i = m THEN n ELSE IF i = n THEN m ELSE i]
  <2>1. \A i \in Slot : h[i] \in Slot /\ h[h[i]] = i
    OBVIOUS
  <2>2. \A i \in Slot : new[e][i] = batches[e][h[i]]
    BY <1>1, <1>2 DEF Turned
  <2> HIDE DEF h
  <2>3. \A i \in Slot : batches[e][i] = new[e][h[i]]
    BY <2>1, <2>2
  <2> QED
    BY <2>1, <2>2, <2>3 DEF InBatch
<1> QED
  BY <1>3, <1>4 DEF new, SameBatches

LEMMA TradeAcross ==
  ASSUME NEW batches \in Arrangement, NEW b \in Batch, NEW c \in Batch, NEW i \in Slot, NEW j \in Slot,
         b < c
  PROVE  /\ <<b, c, i, j>> \in Swaps
         /\ Traded(batches, batches[b][i], batches[c][j]) = Exchanged(batches, <<b, c, i, j>>)
         /\ Traded(batches, batches[c][j], batches[b][i]) = Exchanged(batches, <<b, c, i, j>>)
<1> DEFINE q == batches[b][i]
           r == batches[c][j]
           swapped == Exchanged(batches, <<b, c, i, j>>)
<1>1. /\ batches \in [Batch -> [Slot -> Request]]
      /\ \A e, f \in Batch : \A m, n \in Slot : batches[e][m] = batches[f][n] => e = f /\ m = n
  BY DEF Arrangement
<1>2. <<b, c, i, j>> \in Swaps
  BY DEF Swaps
<1>3. b # c
  BY DEF Batch
<1>4. /\ swapped \in [Batch -> [Slot -> Request]]
      /\ swapped[b] = [batches[b] EXCEPT ![i] = r]
      /\ swapped[c] = [batches[c] EXCEPT ![j] = q]
      /\ \A e \in Batch \ {b, c} : swapped[e] = batches[e]
  <2>1. swapped = [batches EXCEPT ![b][i] = r, ![c][j] = q]
    BY DEF Exchanged
  <2>2. q \in Request /\ r \in Request
    BY <1>1
  <2> HIDE DEF swapped, q, r
  <2> QED
    BY <1>1, <1>3, <2>1, <2>2
<1> HIDE DEF swapped
<1>5. \A e \in Batch : \A m \in Slot :
         /\ swapped[e][m] = Turned(q, r, batches[e][m])
         /\ swapped[e][m] = Turned(r, q, batches[e][m])
  <2> SUFFICES ASSUME NEW e \in Batch, NEW m \in Slot
               PROVE  /\ swapped[e][m] = Turned(q, r, batches[e][m])
                      /\ swapped[e][m] = Turned(r, q, batches[e][m])
    OBVIOUS
  <2>1. CASE e = b /\ m = i
    BY <1>1, <1>3, <1>4, <2>1 DEF Turned
  <2>2. CASE e = c /\ m = j
    BY <1>1, <1>3, <1>4, <2>2 DEF Turned
  <2>3. CASE ~(e = b /\ m = i) /\ ~(e = c /\ m = j)
    <3>1. batches[e][m] # q /\ batches[e][m] # r
      BY <1>1, <2>3
    <3>2. swapped[e][m] = batches[e][m]
      BY <1>1, <1>4, <2>3
    <3> QED
      BY <3>1, <3>2 DEF Turned
  <2> QED
    BY <2>1, <2>2, <2>3
<1>6. ASSUME NEW x \in Arrangement, \A e \in Batch : \A m \in Slot : swapped[e][m] = x[e][m]
      PROVE  x = swapped
  BY <1>4, <1>6 DEF Arrangement
<1>7. /\ Traded(batches, q, r) \in Arrangement /\ Traded(batches, r, q) \in Arrangement
      /\ \A e \in Batch : \A m \in Slot :
           /\ Traded(batches, q, r)[e][m] = Turned(q, r, batches[e][m])
           /\ Traded(batches, r, q)[e][m] = Turned(r, q, batches[e][m])
  <2>1. q \in Request /\ r \in Request
    BY <1>1
  <2> HIDE DEF q, r
  <2> QED
    BY <2>1, TradedArranged
<1> QED
  BY <1>2, <1>5, <1>6, <1>7 DEF swapped

(* The neighbours that the code never tries cost as much as one it tries.  *)
Optimal(s) ==
  \A batches \in Neighbours(s) : cost <= PlanCost(counts, [plan EXCEPT ![s] = batches])

LEMMA PlanItself ==
  ASSUME IsPlan(plan), LoadsPatched, stage = "descend", NEW s \in Source
  PROVE  cost = PlanCost(counts, [plan EXCEPT ![s] = plan[s]])
<1>1. [plan EXCEPT ![s] = plan[s]] = plan
  BY DEF IsPlan
<1> QED
  BY <1>1 DEF LoadsPatched, PlanCost

LEMMA ChoicesCover ==
  ASSUME IsPlan(plan), LoadsPatched, stage = "descend", counts \in Counts, Exhaustive,
         NEW s \in Source, \A c \in TwoBatchChoices : cost <= CostOf(Replaced(s, c))
  PROVE  Optimal(s)
<1> SUFFICES ASSUME NEW batches \in Arrangement
             PROVE  cost <= PlanCost(counts, [plan EXCEPT ![s] = batches])
  BY DEF Optimal, Neighbours
<1>1. PICK c \in TwoBatchChoices : SameBatches(c, batches)
  BY SortedChoice
<1>2. c \in Arrangement
  BY DEF TwoBatchChoices
<1>3. PlanCost(counts, With(plan, s, c)) = PlanCost(counts, With(plan, s, batches))
  BY <1>1, <1>2, SameBatchesSameCost
<1>4. CostOf(Replaced(s, c)) = PlanCost(counts, [plan EXCEPT ![s] = c])
  BY <1>2, ReplacedIsCombined DEF LoadsPatched, PlanCost
<1> QED
  BY <1>3, <1>4 DEF With

LEMMA SwapsCover ==
  ASSUME IsPlan(plan), LoadsPatched, stage = "descend", counts \in Counts, ~Exhaustive, cost \in Nat,
         NEW s \in Source, \A w \in Swaps : cost <= SwapCost(s, w)
  PROVE  Optimal(s)
<1> DEFINE own == plan[s]
           Cheap(batches) == cost <= PlanCost(counts, [plan EXCEPT ![s] = batches])
<1>1. own \in Arrangement
  BY DEF IsPlan
<1>2. ASSUME NEW w \in Swaps PROVE Cheap(Exchanged(own, w))
  <2>1. SwapCost(s, w) = PlanCost(counts, [plan EXCEPT ![s] = Exchanged(own, w)])
    BY SwapIsCombined, SwapCostIs DEF LoadsPatched, PlanCost
  <2> QED
    BY <2>1
<1>3. ASSUME NEW b \in Batch, NEW c \in Batch, NEW i \in Slot, NEW j \in Slot
      PROVE  Cheap(Traded(own, own[b][i], own[c][j]))
  <2>1. CASE b < c
    <3>1. /\ <<b, c, i, j>> \in Swaps
          /\ Traded(own, own[b][i], own[c][j]) = Exchanged(own, <<b, c, i, j>>)
      BY <1>1, <2>1, TradeAcross
    <3> HIDE DEF Cheap, own
    <3> QED
      BY <1>2, <3>1
  <2>2. CASE c < b
    <3>1. /\ <<c, b, j, i>> \in Swaps
          /\ Traded(own, own[b][i], own[c][j]) = Exchanged(own, <<c, b, j, i>>)
      BY <1>1, <2>2, TradeAcross
    <3> HIDE DEF Cheap, own
    <3> QED
      BY <1>2, <3>1
  <2>3. CASE b = c
    <3> DEFINE new == Traded(own, own[b][i], own[b][j])
    <3>1. SameBatches(new, own)
      BY <1>1, TradeInBatch
    <3>2. own[b][i] \in Request /\ own[b][j] \in Request
      BY <1>1 DEF Arrangement
    <3>3. new \in Arrangement
      <4> DEFINE q == own[b][i]
                 r == own[b][j]
      <4>1. q \in Request /\ r \in Request
        BY <3>2
      <4> HIDE DEF q, r, own
      <4>2. Traded(own, q, r) \in Arrangement
        BY <1>1, <4>1, TradedArranged
      <4> QED
        BY <4>2 DEF q, r
    <3> HIDE DEF new
    <3>4. PlanCost(counts, With(plan, s, new)) = PlanCost(counts, With(plan, s, own))
      <4> HIDE DEF own
      <4> QED
        BY <1>1, <3>1, <3>3, SameBatchesSameCost
    <3>5. cost = PlanCost(counts, [plan EXCEPT ![s] = own])
      BY PlanItself
    <3>6. Cheap(new)
      BY <3>4, <3>5 DEF With
    <3> QED
      BY <2>3, <3>6 DEF new
  <2> QED
    BY <2>1, <2>2, <2>3 DEF Batch
<1>4. ASSUME NEW q \in Request, NEW r \in Request PROVE Cheap(Traded(own, q, r))
  <2>1. PICK x \in Places : InPlace(own)[x] = q
    BY <1>1, AllRequestsPlaced
  <2>2. PICK y \in Places : InPlace(own)[y] = r
    BY <1>1, AllRequestsPlaced
  <2>3. /\ x[1] \in Batch /\ x[2] \in Slot /\ own[x[1]][x[2]] = q
        /\ y[1] \in Batch /\ y[2] \in Slot /\ own[y[1]][y[2]] = r
    BY <2>1, <2>2 DEF Places, InPlace
  <2> HIDE DEF Cheap, own
  <2> QED
    BY <1>3, <2>3
<1>5. Neighbours(s) = {Traded(own, q, r) : q, r \in Request}
  BY DEF Neighbours
<1> HIDE DEF own
<1> QED
  BY <1>4, <1>5 DEF Optimal

(* A source that keeps its plan has no cheaper neighbour.                  *)
LEMMA KeptIsOptimal ==
  ASSUME PlannerInv, LoadsPatched, Descend, changed' = FALSE
  PROVE  Optimal(source) /\ UNCHANGED <<plan, cost>>
<1>1. /\ stage = "descend" /\ source \in Source /\ counts \in Counts /\ IsPlan(plan)
  BY DEF Descend, PlannerInv, TypeOK, PlansPartition
<1>2. cost \in Nat
  BY <1>1, PlanCosts DEF LoadsPatched, PlanCost
<1>3. \A x, y, z : ~Adopt(x, y, z)
  BY DEF Adopt
<1>4. CASE DescendByChoice
  <2> DEFINE trials == {[move |-> c, cost |-> CostOf(Replaced(source, c))] : c \in TwoBatchChoices}
  <2>1. PICK t \in trials : /\ FirstCheapestChoice(t, trials)
                            /\ Adopt(t.move, Replaced(source, t.move), t.cost) \/ Keep(t.cost)
    BY <1>4 DEF DescendByChoice
  <2>2. Keep(t.cost)
    BY <1>3, <2>1
  <2>3. \A c \in TwoBatchChoices : CostOf(Replaced(source, c)) \in Nat
    <3>1. \A c \in Arrangement : IsPlan([plan EXCEPT ![source] = c])
      BY <1>1 DEF IsPlan
    <3>2. \A c \in Arrangement : PlanCost(counts, [plan EXCEPT ![source] = c]) \in Nat
      BY <1>1, <3>1, PlanCosts
    <3>3. \A c \in Arrangement : CostOf(Replaced(source, c)) = PlanCost(counts, [plan EXCEPT ![source] = c])
      BY <1>1, ReplacedIsCombined DEF LoadsPatched, PlanCost
    <3> QED
      BY <3>2, <3>3 DEF TwoBatchChoices
  <2>4. \A c \in TwoBatchChoices : cost <= CostOf(Replaced(source, c))
    <3> SUFFICES ASSUME NEW c \in TwoBatchChoices PROVE cost <= CostOf(Replaced(source, c))
      OBVIOUS
    <3> DEFINE u == [move |-> c, cost |-> CostOf(Replaced(source, c))]
    <3>1. u \in trials /\ u.cost = CostOf(Replaced(source, c)) /\ u.cost \in Nat
      BY <2>3
    <3>2. t.cost >= cost /\ t.cost \in Nat
      BY <2>2, <2>3 DEF Keep
    <3> HIDE DEF u, trials
    <3>3. t.cost <= u.cost
      BY <2>1, <3>1, <3>2 DEF FirstCheapestChoice
    <3> QED
      BY <1>2, <3>1, <3>2, <3>3
  <2>5. Exhaustive
    BY <1>4 DEF DescendByChoice
  <2> QED
    BY <1>1, <2>2, <2>4, <2>5, ChoicesCover DEF Keep
<1>5. CASE DescendBySwap
  <2> DEFINE trials == {[move |-> w, cost |-> SwapCost(source, w)] : w \in Swaps}
             Tried(t) == \/ Adopt(Exchanged(plan[source], t.move), SwapLoads(source, t.move), t.cost)
                         \/ Keep(t.cost)
  <2>1. /\ ~Exhaustive
        /\ \/ \E t \in trials : FirstCheapestSwap(t, trials) /\ Tried(t)
           \/ trials = {} /\ Keep(cost)
    BY <1>5 DEF DescendBySwap
  <2>2. \A w \in Swaps : SwapCost(source, w) \in Nat
    <3>1. \A w \in Swaps : IsPlan([plan EXCEPT ![source] = Exchanged(plan[source], w)])
      BY <1>1, ExchangeArranged DEF IsPlan
    <3>2. \A w \in Swaps : PlanCost(counts, [plan EXCEPT ![source] = Exchanged(plan[source], w)]) \in Nat
      BY <1>1, <3>1, PlanCosts
    <3>3. \A w \in Swaps : SwapCost(source, w)
                             = PlanCost(counts, [plan EXCEPT ![source] = Exchanged(plan[source], w)])
      BY <1>1, SwapIsCombined, SwapCostIs DEF LoadsPatched, PlanCost
    <3> QED
      BY <3>2, <3>3
  <2>3. CASE \E t \in trials : FirstCheapestSwap(t, trials) /\ Tried(t)
    <3>1. PICK t \in trials : FirstCheapestSwap(t, trials) /\ Tried(t)
      BY <2>3
    <3>2. Keep(t.cost)
      BY <1>3, <3>1
    <3>3. \A w \in Swaps : cost <= SwapCost(source, w)
      <4> SUFFICES ASSUME NEW w \in Swaps PROVE cost <= SwapCost(source, w)
        OBVIOUS
      <4> DEFINE u == [move |-> w, cost |-> SwapCost(source, w)]
      <4>1. u \in trials /\ u.cost = SwapCost(source, w) /\ u.cost \in Nat
        BY <2>2
      <4>2. t.cost >= cost /\ t.cost \in Nat
        BY <2>2, <3>2 DEF Keep
      <4> HIDE DEF u, trials
      <4>3. t.cost <= u.cost
        BY <3>1, <4>1, <4>2 DEF FirstCheapestSwap
      <4> QED
        BY <1>2, <4>1, <4>2, <4>3
    <3> QED
      BY <1>1, <1>2, <2>1, <3>2, <3>3, SwapsCover DEF Keep
  <2>4. CASE trials = {} /\ Keep(cost)
    <3>1. Swaps = {}
      BY <2>4
    <3> QED
      BY <1>1, <1>2, <2>1, <2>4, <3>1, SwapsCover DEF Keep
  <2> QED
    BY <2>1, <2>3, <2>4
<1> QED
  BY <1>4, <1>5 DEF Descend

(* The sources that the running sweep has kept are optimal: the plan has   *)
(* not changed since.                                                      *)
SweepKept ==
  stage = "descend" /\ ~changed => \A s \in Source : s < source => Optimal(s)

LEMMA StepSweeps ==
  ASSUME PlannerInv, LoadsPatched, SweepKept, [Next]_plannerVars
  PROVE  SweepKept'
<1>1. ASSUME source' = 1 PROVE SweepKept'
  BY <1>1 DEF SweepKept, Source
<1>2. CASE BeginDescent \/ NextSweep
  BY <1>1, <1>2 DEF BeginDescent, NextSweep
<1>3. CASE Descend
  <2>1. /\ stage = "descend" /\ source \in Source /\ source' = source + 1
        /\ UNCHANGED <<counts, stage>> /\ changed' \in BOOLEAN
    BY <1>3, StepKeeps DEF Descend, PlannerInv, TypeOK
  <2>2. CASE changed' = FALSE
    <3>1. Optimal(source) /\ UNCHANGED <<plan, cost>>
      BY <1>3, <2>2, KeptIsOptimal
    <3>2. ~changed
      BY <1>3, <2>2 DEF Descend, DescendByChoice, DescendBySwap, Adopt, Keep
    <3>3. \A s \in Source : s < source + 1 => Optimal(s)
      BY <2>1, <3>1, <3>2 DEF SweepKept, Source
    <3> QED
      BY <2>1, <3>1, <3>3 DEF SweepKept, Optimal, Neighbours
  <2> QED
    BY <2>1, <2>2 DEF SweepKept
<1>4. CASE DrawPlan \/ EndDescent \/ SearchMore \/ EndSearch
  BY <1>4 DEF DrawPlan, EndDescent, SearchMore, EndSearch, SweepKept
<1>5. CASE UNCHANGED plannerVars
  BY <1>5 DEF plannerVars, descentVars, SweepKept, Optimal, Neighbours
<1> QED
  BY <1>2, <1>3, <1>4, <1>5 DEF Next, Plan, Planned

(* A sweep without an improvement proves the plan locally optimal: no plan *)
(* that differs in one source, by any arrangement with two batches of a    *)
(* small pool and by one exchange otherwise, is cheaper, whether or not    *)
(* the code tried it.                                                      *)
THEOREM DescentsEndOptimal == Spec => []LocalOptimum
<1>1. PlannerInv /\ SweepKept => LocalOptimum
  <2> SUFFICES ASSUME PlannerInv, SweepKept, stage = "descend", source > NumSources, ~changed,
                      NEW s \in Source
               PROVE  Optimal(s)
    BY DEF LocalOptimum, Optimal
  <2>1. s < source
    BY PlanAssumption DEF PlannerInv, TypeOK, Source
  <2> QED
    BY <2>1 DEF SweepKept
<1>2. Init => LoadsPatched /\ SweepKept
  BY DEF Init, LoadsPatched, SweepKept
<1>3. PlannerInv /\ LoadsPatched /\ SweepKept /\ [Next]_plannerVars => LoadsPatched' /\ SweepKept'
  BY StepPatches, StepSweeps
<1> QED
  BY InitEstablishes, StepKeeps, <1>1, <1>2, <1>3, PTL DEF Spec
-----------------------------------------------------------------------------
(* The dose ladder.                                                        *)

CountedUp == {pair \in Masks \X Masks : CountedBefore(pair[1], pair[2])}

LEMMA MasksAreFinite ==
  /\ IsFiniteSet(Source) /\ IsFiniteSet(Masks)
  /\ \A mask \in Masks : IsFiniteSet(mask) /\ mask \subseteq Nat
<1>1. IsFiniteSet(Source)
  BY FS_Interval, PlanAssumption DEF Source
<1>2. IsFiniteSet(Masks)
  BY <1>1, FS_SUBSET DEF Masks
<1>3. Source \subseteq Nat
  BY PlanAssumption DEF Source
<1> QED  BY <1>1, <1>2, <1>3, FS_Subset DEF Masks

(* Masks are counted in a total order.                                     *)
LEMMA MasksOrdered == StrictOrder(Masks, CountedUp)
<1>1. \A mask, other \in Masks : <<mask, other>> \in CountedUp <=> CountedBefore(mask, other)
  BY DEF CountedUp
<1>2. \A mask \in Masks : ~CountedBefore(mask, mask)
  BY DEF CountedBefore
<1>3. ASSUME NEW m \in Masks, NEW n \in Masks, NEW k \in Masks,
             CountedBefore(m, n), CountedBefore(n, k)
      PROVE  CountedBefore(m, k)
  <2>1. PICK s \in n \ m : \A u \in m \ n : u < s
    BY <1>3 DEF CountedBefore
  <2>2. PICK t \in k \ n : \A u \in n \ k : u < t
    BY <1>3 DEF CountedBefore
  <2>3. s \in Nat /\ t \in Nat /\ s # t /\ m \subseteq Nat
    BY <2>1, <2>2, MasksAreFinite
  <2>4. CASE s < t
    <3>1. t \notin m
      BY <2>1, <2>2, <2>3, <2>4
    <3>2. \A u \in m \ k : u < t
      BY <2>1, <2>2, <2>3, <2>4
    <3> QED  BY <2>2, <3>1, <3>2 DEF CountedBefore
  <2>5. CASE t < s
    <3>1. s \in k
      BY <2>1, <2>2, <2>3, <2>5
    <3>2. \A u \in m \ k : u < s
      BY <2>1, <2>2, <2>3, <2>5
    <3> QED  BY <2>1, <3>1, <3>2 DEF CountedBefore
  <2> QED  BY <2>3, <2>4, <2>5
<1>4. ASSUME NEW m \in Masks, NEW n \in Masks, m # n
      PROVE  CountedBefore(m, n) \/ CountedBefore(n, m)
  <2> DEFINE Differ == (m \ n) \union (n \ m)
  <2>1. Differ \in SUBSET Nat /\ Differ # {} /\ IsFiniteSet(Differ)
    <3>1. Differ \subseteq Source
      BY DEF Masks
    <3> QED  BY <1>4, <3>1, MasksAreFinite, FS_Subset
  <2>2. PICK s \in Differ : \A u \in Differ : u <= s
    <3> HIDE DEF Differ
    <3> QED  BY <2>1, GreatestExists
  <2>3. \A u \in Differ : u # s => u < s
    BY <2>1, <2>2
  <2>4. CASE s \in n \ m
    BY <2>3, <2>4 DEF CountedBefore
  <2>5. CASE s \in m \ n
    BY <2>3, <2>5 DEF CountedBefore
  <2> QED  BY <2>2, <2>4, <2>5
<1>5. \A m, n, k \in Masks : CountedBefore(m, n) /\ CountedBefore(n, k) => CountedBefore(m, k)
  BY <1>3
<1>6. \A m, n \in Masks : m # n => CountedBefore(m, n) \/ CountedBefore(n, m)
  BY <1>4
<1> HIDE DEF CountedUp
<1> QED  BY <1>1, <1>2, <1>5, <1>6 DEF StrictOrder

(* Every mask is counted.                                                  *)
LEMMA MasksCounted ==
  /\ Cardinality(Masks) \in Nat
  /\ \A n \in 1 .. Cardinality(Masks) : MasksInOrder[n] \in Masks
  /\ \A mask \in Masks : \E n \in 1 .. Cardinality(Masks) : MasksInOrder[n] = mask
<1>1. MasksInOrder = InOrder(Masks, CountedUp)
  BY DEF MasksInOrder, CountedUp
<1>2. /\ Cardinality(Masks) \in Nat
      /\ InOrder(Masks, CountedUp) \in [1 .. Cardinality(Masks) -> Masks]
      /\ \A mask \in Masks : \E n \in 1 .. Cardinality(Masks) : InOrder(Masks, CountedUp)[n] = mask
  BY MasksAreFinite, MasksOrdered, InOrderLists
<1> QED  BY <1>1, <1>2

(* What a pool holds: plans between the best and FIFO, none of them twice. *)
Entry == [plan : [Source -> Arrangement], cost : Int]

IsPool(found) ==
  /\ found \in Seq(Entry)
  /\ \A i \in DOMAIN found : /\ found[i].cost = PlanCost(counts, found[i].plan)
                             /\ found[i].cost \in best.cost .. Fifo.cost
  /\ \A i, j \in DOMAIN found : found[i].plan = found[j].plan => i = j

Holds(found, p) == \E i \in DOMAIN found : found[i].plan = p

(* Candidates are admitted one at a time: nothing already found is lost,   *)
(* and a plan no worse than FIFO is found.                                 *)
LEMMA AdmittedKeeps ==
  ASSUME counts \in Counts, NEW found, IsPool(found), NEW p, IsPlan(p)
  PROVE  /\ IsPool(Admitted(found, p))
         /\ \A q : Holds(found, q) => Holds(Admitted(found, p), q)
         /\ PlanCost(counts, p) \in best.cost .. Fifo.cost => Holds(Admitted(found, p), p)
<1> DEFINE c == PlanCost(counts, p)
           entry == [plan |-> p, cost |-> c]
<1>1. c \in Nat
  BY PlanCosts
<1>2. Admitted(found, p) =
        IF c \in best.cost .. Fifo.cost /\ \A i \in DOMAIN found : found[i].plan # p
        THEN Append(found, entry) ELSE found
  BY DEF Admitted
<1>3. CASE c \in best.cost .. Fifo.cost /\ \A i \in DOMAIN found : found[i].plan # p
  <2> DEFINE longer == Append(found, entry)
  <2>1. Admitted(found, p) = longer
    BY <1>2, <1>3
  <2>2. entry \in Entry /\ entry.plan = p /\ entry.cost = c
    BY <1>1 DEF Entry, IsPlan
  <2>3. found \in Seq(Entry) /\ DOMAIN found = 1 .. Len(found) /\ Len(found) \in Nat
    BY DEF IsPool
  <2> HIDE DEF entry, c
  <2>4. /\ longer \in Seq(Entry) /\ DOMAIN longer = 1 .. Len(found) + 1
        /\ longer[Len(found) + 1] = entry
        /\ \A i \in DOMAIN found : longer[i] = found[i] /\ i \in DOMAIN longer
        /\ \A i \in DOMAIN longer : i \in DOMAIN found \/ i = Len(found) + 1
    BY <2>2, <2>3
  <2> HIDE DEF longer
  <2>5. \A i \in DOMAIN longer : /\ longer[i].cost = PlanCost(counts, longer[i].plan)
                                 /\ longer[i].cost \in best.cost .. Fifo.cost
    BY <1>3, <2>2, <2>4 DEF IsPool, c
  <2>6. \A i, j \in DOMAIN longer : longer[i].plan = longer[j].plan => i = j
    BY <1>3, <2>2, <2>4 DEF IsPool
  <2>7. IsPool(longer)
    BY <2>4, <2>5, <2>6 DEF IsPool
  <2>8. Holds(longer, p)
    BY <2>2, <2>3, <2>4 DEF Holds
  <2>9. \A q : Holds(found, q) => Holds(longer, q)
    BY <2>4 DEF Holds
  <2> QED  BY <2>1, <2>7, <2>8, <2>9
<1>4. CASE ~(c \in best.cost .. Fifo.cost /\ \A i \in DOMAIN found : found[i].plan # p)
  <2>1. Admitted(found, p) = found
    BY <1>2, <1>4
  <2>2. c \in best.cost .. Fifo.cost => Holds(found, p)
    BY <1>4 DEF Holds
  <2> QED  BY <2>1, <2>2
<1> QED  BY <1>3, <1>4

LEMMA MixtureIsPlan ==
  ASSUME IsPlan(best.plan), NEW mask
  PROVE  IsPlan(Mixture(mask))
BY FifoIsPlan DEF IsPlan, Mixture

(* The mixtures hold the best plan.                                        *)
LEMMA MixturesFound ==
  ASSUME counts \in Counts, IsPlan(best.plan),
         best.cost = PlanCost(counts, best.plan), best.cost <= Fifo.cost
  PROVE  IsPool(Mixtures) /\ Holds(Mixtures, best.plan)
<1> DEFINE last == Cardinality(Masks)
           Pools == {found \in Seq(Entry) : IsPool(found)}
           mixed(n) == Mixture(MasksInOrder[n])
           step == [n \in 1 .. last |-> [found \in Pools |-> Admitted(found, mixed(n))]]
           Recursion(f) == f = [n \in 0 .. last |-> IF n = 0 THEN <<>> ELSE Admitted(f[n - 1], mixed(n))]
           f == CHOOSE f : Recursion(f)
<1>1. last \in Nat
  BY MasksCounted
<1>2. \A n \in 1 .. last : IsPlan(mixed(n))
  BY MixtureIsPlan
<1>3. <<>> \in Pools
  BY DEF IsPool
<1> HIDE DEF mixed
<1>4. step \in [1 .. last -> [Pools -> Pools]]
  <2>1. \A n \in 1 .. last, found \in Pools : Admitted(found, mixed(n)) \in Pools
    BY <1>2, AdmittedKeeps DEF IsPool
  <2> HIDE DEF Pools
  <2> QED  BY <2>1
<1> HIDE DEF last, step
<1>5. PICK g \in [0 .. last -> Pools] : Recursive(g, last, <<>>, step)
  <2> HIDE DEF Pools
  <2> QED  BY <1>1, <1>3, <1>4, RecursionExists
<1>6. Recursion(g)
  <2>1. \A n \in 0 .. last : n # 0 => step[n][g[n - 1]] = Admitted(g[n - 1], mixed(n))
    <3> SUFFICES ASSUME NEW n \in 0 .. last, n # 0
                 PROVE  step[n][g[n - 1]] = Admitted(g[n - 1], mixed(n))
      OBVIOUS
    <3>1. n \in 1 .. last /\ n - 1 \in 0 .. last
      BY <1>1
    <3> HIDE DEF Pools
    <3> QED  BY <1>5, <3>1 DEF step
  <2> HIDE DEF Pools
  <2> QED  BY <1>5, <2>1 DEF Recursive
<1>7. Recursion(f)
  <2> HIDE DEF Recursion
  <2> QED  BY <1>6
<1>8. Mixtures = f[last]
  BY DEF Mixtures, last, mixed
<1> HIDE DEF f
<1>9. f[0] = <<>> /\ \A n \in 0 .. last : n # 0 => f[n] = Admitted(f[n - 1], mixed(n))
  BY <1>1, <1>7
<1> DEFINE Good(n) == IsPool(f[n]) /\ \A m \in 1 .. n :
                        PlanCost(counts, mixed(m)) \in best.cost .. Fifo.cost => Holds(f[n], mixed(m))
           Have == {n \in Nat : n <= last => Good(n)}
<1> HIDE DEF Recursion
<1>10. 0 \in Have
  <2>1. IsPool(f[0])
    BY <1>3, <1>9
  <2> QED  BY <2>1
<1>11. ASSUME NEW n \in Have
       PROVE  n + 1 \in Have
  <2>1. n \in Nat
    OBVIOUS
  <2>2. SUFFICES ASSUME n + 1 <= last PROVE Good(n + 1)
    BY <2>1
  <2>3. Good(n)
    BY <1>1, <2>1, <2>2
  <2> DEFINE k == n + 1
  <2>4. k \in 0 .. last /\ k # 0 /\ k \in 1 .. last /\ k - 1 = n
    BY <1>1, <2>1, <2>2
  <2>5. f[k] = Admitted(f[n], mixed(k))
    BY <1>9, <2>4
  <2>6. /\ IsPool(f[k])
        /\ \A q : Holds(f[n], q) => Holds(f[k], q)
        /\ PlanCost(counts, mixed(k)) \in best.cost .. Fifo.cost => Holds(f[k], mixed(k))
    <3> HIDE DEF k
    <3> QED  BY <1>2, <2>3, <2>4, <2>5, AdmittedKeeps
  <2>7. \A m \in 1 .. k : m \in 1 .. n \/ m = k
    BY <2>1
  <2> HIDE DEF k
  <2>8. Good(k)
    BY <2>3, <2>6, <2>7
  <2> QED  BY <2>8 DEF k
<1>12. Have \in SUBSET Nat
  OBVIOUS
<1>13. last \in Have
  <2> HIDE DEF Have
  <2> QED  BY <1>1, <1>10, <1>11, <1>12, SetInduction
<1>14. Good(last)
  BY <1>1, <1>13
<1>15. PICK n \in 1 .. last : MasksInOrder[n] = Source
  BY MasksCounted DEF last, Masks
<1>16. mixed(n) = best.plan
  BY <1>15 DEF mixed, Mixture, IsPlan
<1>17. PlanCost(counts, best.plan) \in best.cost .. Fifo.cost
  BY PlanCosts, FifoCost
<1> QED  BY <1>8, <1>14, <1>15, <1>16, <1>17

(* The ladder while it is built: the pool holds the best plan, every used  *)
(* candidate has its rung and every rung its used candidate, no plan has   *)
(* two, and once the last target is met one rung costs as little as the    *)
(* best plan.                                                              *)
RungOf(rung, i) == rung.plan = pool[i].plan /\ rung.cost = pool[i].cost

Built ==
  /\ IsPool(pool) /\ Holds(pool, best.plan)
  /\ target \in 1 .. 5
  /\ used \subseteq DOMAIN pool
  /\ rungs \in Seq([target : Quarters, plan : [Source -> Arrangement], cost : Int])
  /\ \A n \in DOMAIN rungs : \E i \in used : RungOf(rungs[n], i)
  /\ \A i \in used : \E n \in DOMAIN rungs : RungOf(rungs[n], i)
  /\ \A m, n \in DOMAIN rungs : rungs[m].plan = rungs[n].plan => m = n
  /\ target = 5 => \E i \in used : pool[i].cost = best.cost

LadderInv ==
  /\ SearchInv
  /\ phase \in {"sample", "choose", "done"}
  /\ phase # "sample" => stage = "planned"
  /\ phase = "sample" => target = 1 /\ used = {} /\ rungs = <<>>
  /\ phase = "choose" => pool # <<>>
  /\ pool # <<>> => stage = "planned" /\ Opportunity > 0 /\ Built
  /\ Climbed => pool # <<>> /\ target = 5

(* What the planner reports, once it has planned.                          *)
LEMMA BestPlanned ==
  ASSUME SearchInv, stage = "planned"
  PROVE  /\ counts \in Counts /\ IsPlan(best.plan)
         /\ best.cost = PlanCost(counts, best.plan)
         /\ best.cost \in Nat /\ Fifo.cost \in Nat /\ best.cost <= Fifo.cost
         /\ Opportunity = Fifo.cost - best.cost
<1>1. counts \in Counts /\ IsPlan(best.plan)
  BY DEF SearchInv, PlannerInv, TypeOK, PlansPartition
<1>2. best.cost = PlanCost(counts, best.plan) /\ best.cost <= Fifo.cost
  BY DEF SearchInv, BestHonest, NoWorse
<1>3. best.cost \in Nat /\ Fifo.cost \in Nat
  BY <1>1, <1>2, PlanCosts, FifoCost
<1> QED  BY <1>1, <1>2, <1>3 DEF Opportunity

LEMMA LadderStarts == LadderInit => LadderInv
<1> SUFFICES ASSUME LadderInit PROVE LadderInv
  OBVIOUS
<1>1. SearchInv
  BY InitEstablishes, InitHonest DEF LadderInit, Init, LoadsPatched, SearchInv
<1> QED  BY <1>1 DEF LadderInit, LadderInv, Climbed

(* The planner is done before the ladder begins.                           *)
LEMMA PlanningEnds ==
  ASSUME Plan, SearchInv
  PROVE  stage # "planned"
BY DEF Plan, DrawPlan, BeginDescent, Descend, NextSweep, EndDescent, SearchMore, EndSearch

(* Nothing a ladder is judged by changes with the planner at rest.         *)
LEMMA PlannerRests ==
  ASSUME SearchInv, UNCHANGED plannerVars
  PROVE  /\ SearchInv' /\ UNCHANGED <<stage, best, counts>>
         /\ Fifo' = Fifo /\ Opportunity' = Opportunity
<1>1. UNCHANGED <<stage, best, counts>>
  BY DEF plannerVars, searchVars
<1>2. SearchInv'
  BY StepKeeps, StepPatches, StepHonest DEF SearchInv
<1> QED  BY <1>1, <1>2 DEF Fifo, Opportunity

LEMMA PoolUnchanged ==
  ASSUME UNCHANGED <<counts, best>>, Fifo' = Fifo
  PROVE  /\ \A found : IsPool(found)' <=> IsPool(found)
BY DEF IsPool

(* The distance to the full reduction is zero for a cheapest plan only.    *)
Magnitude(d) == Max({d, -d})
Missed(d, f, b, c) == d = 4 * (f - c) - 4 * (f - b)

LEMMA FullDose ==
  ASSUME NEW f \in Int, NEW b \in Int, NEW c \in Int, b <= c, c <= f,
         NEW difference, Missed(difference, f, b, c),
         NEW distance, distance = Magnitude(difference)
  PROVE  distance \in Int /\ (distance <= 0 => c = b) /\ (c = b => distance = 0)
<1>1. difference \in Int /\ difference <= 0 /\ difference = 4 * (b - c)
  BY DEF Missed
<1>2. -difference \in Nat /\ difference <= -difference
  BY <1>1
<1>3. \E x \in {difference, -difference} : \A y \in {difference, -difference} : x >= y
  BY <1>1, <1>2
<1>4. distance \in {difference, -difference} /\ \A y \in {difference, -difference} : distance >= y
  BY <1>3 DEF Max, Magnitude
<1>5. distance = -difference
  BY <1>1, <1>2, <1>4
<1> QED  BY <1>1, <1>5

(* An empty ladder is built on every pool that holds the best plan.        *)
LEMMA NothingBuilt ==
  ASSUME IsPool(pool), Holds(pool, best.plan), target = 1, used = {}, rungs = <<>>
  PROVE  Built
BY DEF Built

LEMMA MixKeeps ==
  ASSUME LadderInv, MixPlans
  PROVE  LadderInv'
<1>1. /\ stage = "planned" /\ phase = "sample" /\ Opportunity > 0
      /\ pool' = Mixtures /\ UNCHANGED <<plannerVars, phase, samples, target, used, rungs>>
  BY DEF MixPlans
<1>2. /\ SearchInv' /\ UNCHANGED <<stage, best, counts>>
      /\ Fifo' = Fifo /\ Opportunity' = Opportunity
  BY <1>1, PlannerRests DEF LadderInv
<1>3. IsPool(pool') /\ Holds(pool', best.plan)
  BY <1>1, BestPlanned, MixturesFound DEF LadderInv
<1>4. IsPool(pool)' /\ Holds(pool, best.plan)'
  BY <1>2, <1>3 DEF IsPool
<1>5. target' = 1 /\ used' = {} /\ rungs' = <<>> /\ phase' = "sample"
  BY <1>1 DEF LadderInv
<1>6. Built'
  BY <1>4, <1>5 DEF Built
<1> QED  BY <1>1, <1>2, <1>5, <1>6 DEF LadderInv, Climbed

LEMMA SampleKeeps ==
  ASSUME LadderInv, SamplePlan
  PROVE  LadderInv'
<1>1. PICK order \in [Source -> RandomOrders] : pool' = Admitted(pool, RandomPlan(order))
  BY DEF SamplePlan
<1>2. /\ phase = "sample" /\ pool # <<>>
      /\ UNCHANGED <<plannerVars, phase, target, used, rungs>>
  BY DEF SamplePlan
<1>3. /\ SearchInv' /\ UNCHANGED <<stage, best, counts>>
      /\ Fifo' = Fifo /\ Opportunity' = Opportunity
  BY <1>2, PlannerRests DEF LadderInv
<1>4. stage = "planned" /\ Opportunity > 0 /\ Built
  BY <1>2 DEF LadderInv
<1>5. IsPlan(RandomPlan(order))
  BY RandomIsPlan
<1>6. IsPool(pool') /\ Holds(pool', best.plan)
  <2>1. counts \in Counts
    BY <1>4, BestPlanned DEF LadderInv
  <2> QED  BY <1>1, <1>4, <1>5, <2>1, AdmittedKeeps DEF Built
<1>7. IsPool(pool)' /\ Holds(pool, best.plan)'
  BY <1>3, <1>6 DEF IsPool
<1>8. target' = 1 /\ used' = {} /\ rungs' = <<>> /\ phase' = "sample"
  BY <1>2 DEF LadderInv
<1>9. Built'
  BY <1>7, <1>8 DEF Built
<1> QED  BY <1>3, <1>4, <1>8, <1>9 DEF LadderInv, Climbed

(* A candidate of the full reduction costs as little as the best plan.     *)
LEMMA NearestToFull ==
  ASSUME LadderInv, pool # <<>>, target = 4, NEW i \in Nearest
  PROVE  pool[i].cost = best.cost
<1>1. /\ best.cost \in Nat /\ Fifo.cost \in Nat /\ Opportunity = Fifo.cost - best.cost
      /\ best.cost = PlanCost(counts, best.plan)
  BY BestPlanned DEF LadderInv
<1>2. IsPool(pool) /\ Holds(pool, best.plan)
  BY DEF LadderInv, Built
<1>3. PICK j \in DOMAIN pool : pool[j].plan = best.plan
  BY <1>2 DEF Holds
<1>4. pool[j].cost = best.cost
  BY <1>1, <1>2, <1>3 DEF IsPool
<1>5. i \in DOMAIN pool /\ Distance(i) <= Distance(j)
  BY <1>3 DEF Nearest, Eligible
<1>6. pool[i].cost \in best.cost .. Fifo.cost
  BY <1>2, <1>5 DEF IsPool
<1>7. ASSUME NEW k \in DOMAIN pool, pool[k].cost \in best.cost .. Fifo.cost
      PROVE  /\ Distance(k) \in Int
             /\ Distance(k) <= 0 => pool[k].cost = best.cost
             /\ pool[k].cost = best.cost => Distance(k) = 0
  <2> DEFINE c == pool[k].cost
             d == 4 * (Fifo.cost - c) - 4 * (Fifo.cost - best.cost)
             f == Fifo.cost
             b == best.cost
             x == Distance(k)
  <2>1. x = Magnitude(d)
    BY <1>1 DEF Distance, Magnitude
  <2>2. c \in Int /\ b \in Int /\ f \in Int /\ b <= c /\ c <= f
    BY <1>1, <1>7
  <2>3. Missed(d, f, b, c)
    BY DEF Missed
  <2> HIDE DEF c, d, f, b, x
  <2>4. x \in Int /\ (x <= 0 => c = b) /\ (c = b => x = 0)
    BY <2>1, <2>2, <2>3, FullDose
  <2> QED  BY <2>4 DEF c, b, x
<1>8. best.cost \in best.cost .. Fifo.cost
  BY <1>1, <1>2, <1>4, <1>3 DEF IsPool
<1> QED  BY <1>4, <1>5, <1>6, <1>7, <1>8

LEMMA ChooseKeeps ==
  ASSUME LadderInv, ChooseRung
  PROVE  LadderInv'
<1> DEFINE rung(i) == [target |-> target, plan |-> pool[i].plan, cost |-> pool[i].cost]
<1>1. PICK i \in Nearest :
        /\ used' = used \union {i}
        /\ rungs' = IF i \in used THEN rungs ELSE Append(rungs, rung(i))
  BY DEF ChooseRung
<1>2. /\ phase = "choose" /\ target \in Quarters /\ target' = target + 1
      /\ UNCHANGED <<plannerVars, phase, pool, samples>>
  BY DEF ChooseRung
<1>3. /\ SearchInv' /\ UNCHANGED <<stage, best, counts>>
      /\ Fifo' = Fifo /\ Opportunity' = Opportunity
  BY <1>2, PlannerRests DEF LadderInv
<1>4. pool # <<>> /\ stage = "planned" /\ Opportunity > 0 /\ Built
  BY <1>2 DEF LadderInv
<1>5. IsPool(pool)' /\ Holds(pool, best.plan)'
  BY <1>2, <1>3, <1>4 DEF IsPool, Built
<1>6. i \in DOMAIN pool
  BY DEF Nearest, Eligible, Intermediate
<1>7. target' \in 1 .. 5
  BY <1>2 DEF Quarters
<1>8. used' \subseteq DOMAIN pool
  BY <1>1, <1>4, <1>6 DEF Built
<1>9. target' = 5 => \E k \in used' : pool[k].cost = best.cost
  <2> SUFFICES ASSUME target' = 5 PROVE pool[i].cost = best.cost
    BY <1>1
  <2>1. target = 4
    BY <1>2 DEF Quarters
  <2> QED  BY <1>4, <2>1, NearestToFull
<1>10. /\ rungs' \in Seq([target : Quarters, plan : [Source -> Arrangement], cost : Int])
       /\ \A n \in DOMAIN rungs' : \E k \in used' : RungOf(rungs'[n], k)
       /\ \A k \in used' : \E n \in DOMAIN rungs' : RungOf(rungs'[n], k)
       /\ \A m, n \in DOMAIN rungs' : rungs'[m].plan = rungs'[n].plan => m = n
  <2>1. CASE i \in used
    <3>1. used' = used /\ rungs' = rungs
      BY <1>1, <2>1
    <3> QED  BY <1>4, <3>1 DEF Built
  <2>2. CASE i \notin used
    <3>1. used' = used \union {i} /\ rungs' = Append(rungs, rung(i))
      BY <1>1, <2>2
    <3>2. rung(i) \in [target : Quarters, plan : [Source -> Arrangement], cost : Int]
      <4>1. pool \in Seq(Entry)
        BY <1>4 DEF Built, IsPool
      <4>2. pool[i] \in Entry
        BY <1>6, <4>1
      <4> QED  BY <1>2, <4>2 DEF Entry
    <3>3. RungOf(rung(i), i) /\ rung(i).plan = pool[i].plan
      BY DEF RungOf
    <3> DEFINE size == Len(rungs)
    <3>4. rungs \in Seq([target : Quarters, plan : [Source -> Arrangement], cost : Int])
          /\ size \in Nat /\ DOMAIN rungs = 1 .. size
      BY <1>4 DEF Built
    <3> HIDE DEF rung
    <3>5. /\ rungs' \in Seq([target : Quarters, plan : [Source -> Arrangement], cost : Int])
          /\ DOMAIN rungs' = 1 .. size + 1
          /\ rungs'[size + 1] = rung(i)
          /\ \A n \in DOMAIN rungs : n \in DOMAIN rungs' /\ rungs'[n] = rungs[n]
          /\ \A n \in DOMAIN rungs' : n \in DOMAIN rungs \/ n = size + 1
      BY <3>1, <3>2, <3>4
    <3>6. size + 1 \in DOMAIN rungs'
      BY <3>4, <3>5
    <3>7. \A n \in DOMAIN rungs' : \E k \in used' : RungOf(rungs'[n], k)
      BY <1>4, <3>1, <3>3, <3>5 DEF Built
    <3>8. \A k \in used' : \E n \in DOMAIN rungs' : RungOf(rungs'[n], k)
      BY <1>4, <3>1, <3>3, <3>5, <3>6 DEF Built
    <3>9. \A n \in DOMAIN rungs : rungs[n].plan # pool[i].plan
      <4> SUFFICES ASSUME NEW n \in DOMAIN rungs, rungs[n].plan = pool[i].plan PROVE FALSE
        OBVIOUS
      <4>1. PICK k \in used : RungOf(rungs[n], k)
        BY <1>4 DEF Built
      <4>2. k \in DOMAIN pool /\ pool[k].plan = pool[i].plan
        BY <1>4, <4>1 DEF Built, RungOf
      <4>3. k = i
        BY <1>4, <1>6, <4>2 DEF Built, IsPool
      <4> QED  BY <2>2, <4>3
    <3>10. \A m, n \in DOMAIN rungs' : rungs'[m].plan = rungs'[n].plan => m = n
      BY <1>4, <3>3, <3>5, <3>9 DEF Built
    <3> QED  BY <3>5, <3>7, <3>8, <3>10
  <2> QED  BY <2>1, <2>2
<1>11. Built'
  <2>1. pool' = pool /\ best' = best
    BY <1>2, <1>3
  <2>2. \A r, k : RungOf(r, k)' <=> RungOf(r, k)
    BY <2>1 DEF RungOf
  <2> QED  BY <1>5, <1>7, <1>8, <1>9, <1>10, <2>1 DEF Built, RungOf
<1> QED  BY <1>2, <1>3, <1>4, <1>11 DEF LadderInv, Climbed

LEMMA BuiltUnchanged ==
  ASSUME Built, UNCHANGED <<counts, best, pool, target, used, rungs>>, Fifo' = Fifo
  PROVE  Built'
<1>1. IsPool(pool)' /\ Holds(pool, best.plan)'
  BY DEF IsPool, Built
<1> QED  BY <1>1 DEF Built, RungOf

LEMMA LadderStep == LadderInv /\ [LadderNext]_vars => LadderInv'
<1> SUFFICES ASSUME LadderInv, [LadderNext]_vars PROVE LadderInv'
  OBVIOUS
<1>1. CASE Plan /\ UNCHANGED ladderVars
  <2>1. SearchInv'
    BY <1>1, StepKeeps, StepPatches, StepHonest DEF LadderInv, SearchInv, Next
  <2>2. stage # "planned"
    BY <1>1, PlanningEnds DEF LadderInv
  <2>3. UNCHANGED <<phase, pool, samples, target, used, rungs>>
    BY <1>1 DEF ladderVars
  <2> QED  BY <2>1, <2>2, <2>3 DEF LadderInv, Climbed
<1>2. CASE FlatLadder
  <2>1. /\ stage = "planned" /\ pool = <<>> /\ Opportunity <= 0 /\ phase' = "done"
        /\ UNCHANGED <<plannerVars, pool, samples, target, used>>
    BY <1>2 DEF FlatLadder
  <2>2. SearchInv' /\ UNCHANGED <<stage, best, counts>> /\ Opportunity' = Opportunity
    BY <2>1, PlannerRests DEF LadderInv
  <2>3. Opportunity \in Int
    BY <2>1, BestPlanned DEF LadderInv
  <2> QED  BY <2>1, <2>2, <2>3 DEF LadderInv, Climbed
<1>3. CASE MixPlans
  BY <1>3, MixKeeps
<1>4. CASE SamplePlan
  BY <1>4, SampleKeeps
<1>5. CASE EndSampling \/ EndLadder \/ UNCHANGED vars
  <2>1. UNCHANGED <<plannerVars, pool, samples, target, used, rungs>>
    BY <1>5 DEF EndSampling, EndLadder, vars, ladderVars
  <2>2. /\ SearchInv' /\ UNCHANGED <<stage, best, counts>>
        /\ Fifo' = Fifo /\ Opportunity' = Opportunity
    BY <2>1, PlannerRests DEF LadderInv
  <2>3. pool # <<>> => Built'
    BY <2>1, <2>2, BuiltUnchanged DEF LadderInv
  <2>4. CASE EndSampling
    BY <2>1, <2>2, <2>3, <2>4 DEF EndSampling, LadderInv, Climbed
  <2>5. CASE EndLadder
    <3>1. phase = "choose" /\ target \notin Quarters /\ phase' = "done"
      BY <2>5 DEF EndLadder
    <3>2. pool # <<>> /\ target = 5
      BY <3>1 DEF LadderInv, Built, Quarters
    <3> QED  BY <2>1, <2>2, <2>3, <3>1, <3>2 DEF LadderInv, Climbed
  <2>6. CASE UNCHANGED vars
    <3>1. phase' = phase
      BY <2>6 DEF vars, ladderVars
    <3> QED  BY <2>1, <2>2, <2>3, <3>1 DEF LadderInv, Climbed
  <2> QED  BY <1>5, <2>4, <2>5, <2>6
<1>6. CASE ChooseRung
  BY <1>6, ChooseKeeps
<1> QED  BY <1>1, <1>2, <1>3, <1>4, <1>5, <1>6 DEF LadderNext, Climb

(* The dose ladder is sound for any routes, any number of ranks and any    *)
(* random plans: its rungs lie between the best plan and FIFO, no two of   *)
(* them replay the same plan, and one realizes the whole reduction.        *)
THEOREM LaddersAreSound == LadderSpec => []LadderSound
<1>1. LadderInv => LadderSound
  <2> SUFFICES ASSUME LadderInv, Climbed PROVE LadderSound
    BY DEF LadderSound
  <2>1. Built /\ target = 5
    BY DEF LadderInv
  <2>2. \A n \in DOMAIN rungs : rungs[n].cost \in best.cost .. Fifo.cost
    <3> SUFFICES ASSUME NEW n \in DOMAIN rungs PROVE rungs[n].cost \in best.cost .. Fifo.cost
      OBVIOUS
    <3>1. PICK i \in used : RungOf(rungs[n], i)
      BY <2>1 DEF Built
    <3> QED  BY <2>1, <3>1 DEF Built, RungOf, IsPool
  <2>3. \E n \in DOMAIN rungs : rungs[n].cost = best.cost
    <3>1. PICK i \in used : pool[i].cost = best.cost
      BY <2>1 DEF Built
    <3>2. PICK n \in DOMAIN rungs : RungOf(rungs[n], i)
      BY <2>1 DEF Built
    <3> QED  BY <3>1, <3>2 DEF RungOf
  <2> QED  BY <2>1, <2>2, <2>3 DEF LadderSound, Built
<1>2. LadderInit => LadderInv
  BY LadderStarts
<1>3. LadderInv /\ [LadderNext]_vars => LadderInv'
  BY LadderStep
<1> QED  BY <1>1, <1>2, <1>3, PTL DEF LadderSpec

===============================================================================
