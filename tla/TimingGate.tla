------------------------------ MODULE TimingGate ------------------------------
(***************************************************************************)
(* What one launch of the timing gate does                                 *)
(* (hardware/benchmark_timing_gate_ep4.py): for every number of active     *)
(* positions K it runs the same balanced batches under three transports,   *)
(* and the differences between the three are the cost of communication.    *)
(* Every definition is a function of the arguments `a' of the command      *)
(* line: [positions, warmup, repetitions].                                 *)
(***************************************************************************)
EXTENDS TokenExchange, SortedSets

Rank == Source

(* "requires exactly four ranks", "requires top-k=2" and "requires         *)
(* assignments divisible by world size".                                   *)
ASSUME GateAssumption ==
  NumSources = 4 => TopK = 2 /\ (BatchSize * TopK) % NumSources = 0

(* A stage of the program: the collective or local step a rank has reached *)
(* in a run, and the batch and layer it is for.                            *)
Place(n, stage, b, l) == [run |-> n, stage |-> stage, batch |-> b, layer |-> l]

TransportModes == <<"local_copy", "nccl_minimal", "nccl_real">>

(* MUTANT of Rotated: the last mode is repeated instead of the first ones. *)
RotatedClipped(order, offset) ==
  [i \in DOMAIN order |-> order[IF i + offset > Len(order) THEN Len(order) ELSE i + offset]]

(* order[offset:] + order[:offset] *)
Rotated(order, offset) == [i \in DOMAIN order |-> order[((i - 1 + offset) % Len(order)) + 1]]

GateRefuses(a) == a.warmup < 0 \/ a.repetitions <= 0

(* The runs of a launch, numbered through all K and repetitions. *)
GateRuns(a) ==
  LET repetitions == a.warmup + a.repetitions
      run(before) ==   \* the run that follows `before' others
        LET n == ((before \div 3) % repetitions) + 1
        IN  [k |-> Ascending(a.positions)[(before \div (3 * repetitions)) + 1],
             mode |-> Rotated(TransportModes, n - 1)[(before % 3) + 1],
             repetition |-> n, measured |-> n > a.warmup]
  IN  [i \in 1 .. 3 * repetitions * Cardinality(a.positions) |-> run(i - 1)]

(* balanced_routes, flattened: the experts in turn.  All ranks and batches *)
(* have the same routes.                                                   *)
BalancedIds(run) ==
  [a \in 1 .. BatchSize * run.k * TopK |-> (a - 1) % (NumSources * ExpertsPerRank)]

(* send_counts and recv_counts: the assignments in equal parts. *)
GateSplits(run) == [d \in Rank |-> (BatchSize * run.k * TopK) \div NumSources]

(* MUTANT of GateLocalIds: the controls compute on the first expert only.  *)
GateLocalIdsFirst(run) == [a \in DOMAIN BalancedIds(run) |-> 0]

(* local_ids: what a rank computes on when nothing is communicated. *)
GateLocalIds(run) ==
  LET packed == Packed(BalancedIds(run), BalancedIds(run))
  IN  [a \in DOMAIN packed |-> LocalId(packed[a])]

(* MUTANT of GateAfter: the barrier before a run is left out.              *)
GateAfterNoBarrier(p, mode, last) ==
  CASE p.stage = "barrier" ->
         Place(p.run, IF mode = "local_copy" THEN "end" ELSE "hidden", 1, 1)
    [] p.stage = "hidden" -> [p EXCEPT !.stage = "ids"]
    [] p.stage = "ids" -> [p EXCEPT !.stage = "combine"]
    [] p.stage = "combine" /\ p.layer < NumLayers -> Place(p.run, "hidden", p.batch, p.layer + 1)
    [] p.stage = "combine" /\ p.layer = NumLayers /\ p.batch < BatchCount ->
         Place(p.run, "hidden", p.batch + 1, 1)
    [] p.stage = "combine" /\ p.layer = NumLayers /\ p.batch = BatchCount ->
         Place(p.run, "end", 1, 1)
    [] p.stage = "end" -> IF p.run < last THEN Place(p.run + 1, "hidden", 1, 1)
                                          ELSE Place(p.run, "write", 1, 1)

(* Where the loops over runs, batches and layers lead from a stage of one  *)
(* of `last' runs; local copies meet nobody between the barriers.          *)
GateAfter(p, mode, last) ==
  CASE p.stage = "barrier" ->
         Place(p.run, IF mode = "local_copy" THEN "end" ELSE "hidden", 1, 1)
    [] p.stage = "hidden" -> [p EXCEPT !.stage = "ids"]
    [] p.stage = "ids" -> [p EXCEPT !.stage = "combine"]
    [] p.stage = "combine" /\ p.layer < NumLayers -> Place(p.run, "hidden", p.batch, p.layer + 1)
    [] p.stage = "combine" /\ p.layer = NumLayers /\ p.batch < BatchCount ->
         Place(p.run, "hidden", p.batch + 1, 1)
    [] p.stage = "combine" /\ p.layer = NumLayers /\ p.batch = BatchCount ->
         Place(p.run, "end", 1, 1)
    [] p.stage = "end" -> IF p.run < last THEN Place(p.run + 1, "barrier", 1, 1)
                                          ELSE Place(p.run, "write", 1, 1)
===============================================================================
