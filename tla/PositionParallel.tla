--------------------------- MODULE PositionParallel ---------------------------
(***************************************************************************)
(* What one launch of the position-parallel prototype does                 *)
(* (hardware/benchmark_position_parallel_ep.py): for each kind of routes   *)
(* and each K the ranks exchange their counts once and then repeat one     *)
(* dispatch, expert and combine step.  Every definition is a function of   *)
(* the arguments `a' of the command line: [positions, topK, warmup,        *)
(* repetitions].                                                           *)
(***************************************************************************)
EXTENDS TimingGate

RoutingModes == <<"uniform", "request_correlated", "hot_rank">>

(* The first expert of every rank, then more of the first rank's. *)
HotRankExperts == [d \in Source |-> (d - 1) * ExpertsPerRank] \o <<1, 2, 3, 4>>

(* routes: the expert in one slot of a token. *)
SelectedExpert(kind, request, token, topK, slot) ==
  CASE kind = "uniform" -> (token * topK + slot) % (NumSources * ExpertsPerRank)
    [] kind = "request_correlated" ->
         ((slot % NumSources) * ExpertsPerRank)
           + ((request + (slot \div NumSources)) % ExpertsPerRank)
    [] kind = "hot_rank" -> HotRankExperts[slot + 1]

(* flat_ids of a rank in a run: requests are numbered through all ranks,   *)
(* and a token is a position of a request.                                 *)
ParallelIds(run, r) ==
  [a \in 1 .. BatchSize * run.k * run.topK |->
     LET request == (r - 1) * BatchSize + ((a - 1) \div (run.k * run.topK))
         position == ((a - 1) \div run.topK) % run.k
     IN  SelectedExpert(run.kind, request, request * run.k + position, run.topK, (a - 1) % run.topK)]

ParallelRefuses(a) == a.topK > 8

ParallelRuns(a) ==
  LET repetitions == a.warmup + a.repetitions
      widths == Cardinality(a.positions)
      run(cell, n) ==
        [k |-> Ascending(a.positions)[(cell % widths) + 1],
         kind |-> RoutingModes[(cell \div widths) + 1],
         topK |-> a.topK, mode |-> "nccl_real", repetition |-> n, measured |-> n > a.warmup]
  IN  [i \in 1 .. repetitions * (Len(RoutingModes) * widths) |->
         run((i - 1) \div repetitions, ((i - 1) % repetitions) + 1)]

(* A rank that has received nothing takes the maximum of an empty tensor.  *)
ReceivesNothing(run, r) ==
  \A s \in Source : \A e \in Range(ParallelIds(run, s)) : HomeOf(e) # r

(* "route generator produced duplicate experts" *)
RoutesRepeat(run, r) ==
  \E t \in 1 .. BatchSize * run.k :
    ~IsInjective(SubSeq(ParallelIds(run, r), (t - 1) * run.topK + 1, t * run.topK))

(* Counts are exchanged once for the repetitions of a cell; one batch, one *)
(* layer.                                                                   *)
ParallelStart(n) == Place(n, "gather", 1, 1)

ParallelAfter(p, runs) ==
  CASE p.stage = "gather" -> [p EXCEPT !.stage = "barrier"]
    [] p.stage = "barrier" -> [p EXCEPT !.stage = "hidden"]
    [] p.stage = "hidden" -> [p EXCEPT !.stage = "ids"]
    [] p.stage = "ids" -> [p EXCEPT !.stage = "combine"]
    [] p.stage = "combine" -> [p EXCEPT !.stage = "end"]
    [] p.stage = "end" ->
         IF p.run = Len(runs) THEN [p EXCEPT !.stage = "collect"]
         ELSE IF runs[p.run + 1].repetition > 1 THEN Place(p.run + 1, "barrier", 1, 1)
         ELSE ParallelStart(p.run + 1)
===============================================================================
