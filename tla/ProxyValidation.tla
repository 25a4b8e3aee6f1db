---------------------------- MODULE ProxyValidation ----------------------------
(***************************************************************************)
(* What one launch of the proxy validation does                            *)
(* (hardware/benchmark_proxy_validation_ep4.py with its static contract,   *)
(* hardware/proxy_validation_contract.py): constructed plans of known cost *)
(* under full transport, and the FIFO plan under two reduced transports.   *)
(* The ranks never exchange counts: every split is derived beforehand.     *)
(* Every definition is a function of the arguments `a' of the command      *)
(* line: [k, warmup, repetitions].                                         *)
(***************************************************************************)
EXTENDS TimingGate

ControlArms == <<"fifo_local_copy_control", "fifo_nccl_minimal_control">>
ConstructedArms == <<"fifo_constructed", "dose_083_constructed", "balanced_constructed">>
RunArms == ControlArms \o ConstructedArms

(* PREFERENCES and BALANCED_PLAN, with ranks and requests counted from 1. *)
Preferences == <<1, 1, 2, 3, 2, 3, 4, 4>>
BalancedPlan == <<<<1, 3, 4, 7>>, <<2, 5, 6, 8>>>>

ASSUME ConstructedAssumption ==
  NumSources = 4 => /\ NumRequests = 8 /\ BatchSize = 4 /\ TopK = 2 /\ ExpertsPerRank > 1

GlobalPlans(arm) ==
  CASE arm = "fifo_constructed" -> FifoPlan
    [] arm = "dose_083_constructed" -> [FifoPlan EXCEPT ![1] = BalancedPlan]
    [] arm = "balanced_constructed" -> [s \in Source |-> BalancedPlan]

NextRank(d) == (d % NumSources) + 1

(* request_routes: the preferred rank's first expert, the next rank's second. *)
RequestExperts(q) ==
  <<(Preferences[q] - 1) * ExpertsPerRank, (NextRank(Preferences[q]) - 1) * ExpertsPerRank + 1>>

(* selected_routes of a batch, flattened: every position of a request has  *)
(* the routes of the request.                                              *)
PlanIds(batch, k) ==
  [a \in 1 .. BatchSize * k * TopK |->
     RequestExperts(batch[((a - 1) \div (k * TopK)) + 1])[((a - 1) % TopK) + 1]]

(* constructed_split_contract: [arm][source][batch][destination] *)
SplitContract(arm, k) ==
  [s \in Source |-> [b \in Batch |-> [d \in Source |->
     k * (Cardinality({i \in Slot : Preferences[GlobalPlans(arm)[s][b][i]] = d})
          + Cardinality({i \in Slot : NextRank(Preferences[GlobalPlans(arm)[s][b][i]]) = d}))]]]

DestinationTotal(arm, k, d) ==
  SumFunction([x \in Source \X Batch |-> SplitContract(arm, k)[x[1]][x[2]][d]])

(* validate_split_contract *)
ContractValid(k) ==
  /\ \A i \in DOMAIN ConstructedArms, s \in Source, b \in Batch :
       LET counts == SplitContract(ConstructedArms[i], k)[s][b]
       IN  /\ SumFunction(counts) = BatchSize * k * TopK
           /\ \A d \in Source : counts[d] > 0
  /\ \A i \in DOMAIN ConstructedArms, d \in Source :
       DestinationTotal(ConstructedArms[i], k, d) = DestinationTotal("fifo_constructed", k, d)

(* objective_values *)
Objective(arm, k) ==
  PlanCost([s \in Source |-> [q \in Request |-> [l \in Layer |-> [d \in Source |->
              IF d \in {Preferences[q], NextRank(Preferences[q])} THEN k ELSE 0]]]],
           GlobalPlans(arm))

(* The doses are reductions by one twelfth and by one third. *)
DosesExact(k) ==
  LET fifo == Objective("fifo_constructed", k)
  IN  /\ 12 * (fifo - Objective("dose_083_constructed", k)) = fifo
      /\ 3 * (fifo - Objective("balanced_constructed", k)) = fifo

(* "static send split mismatch": the contract is what the routes give. *)
StaticSplitsAgree(k) ==
  \A i \in DOMAIN ConstructedArms, s \in Source, b \in Batch :
    LET arm == ConstructedArms[i]
    IN  SplitVector(PlanIds(GlobalPlans(arm)[s][b], k)) = SplitContract(arm, k)[s][b]

ProxyRefuses(a) ==
  \/ a.k <= 0
  \/ ~DosesExact(a.k) \/ ~ContractValid(a.k) \/ ~StaticSplitsAgree(a.k)

Composition(arm) == IF arm \in Range(ControlArms) THEN "fifo_constructed" ELSE arm

Transport(arm) ==
  CASE arm = "fifo_local_copy_control" -> "local_copy"
    [] arm = "fifo_nccl_minimal_control" -> "nccl_minimal"
    [] OTHER -> "nccl_real"

ProxyRuns(a) ==
  LET run(before) ==
        LET n == (before \div Len(RunArms)) + 1
            arm == Rotated(RunArms, n - 1)[(before % Len(RunArms)) + 1]
        IN  [k |-> a.k, arm |-> arm, mode |-> Transport(arm),
             repetition |-> n, measured |-> n > a.warmup]
  IN  [i \in 1 .. Len(RunArms) * (a.warmup + a.repetitions) |-> run(i - 1)]

(* selected_routes of a rank's batch, and the splits that the contract      *)
(* gives for it.                                                            *)
ProxyIds(run, r, b) == PlanIds(GlobalPlans(Composition(run.arm))[r][b], run.k)
ProxySend(run, r, b) == SplitContract(Composition(run.arm), run.k)[r][b]

(* MUTANT of ProxyRecv: every source is taken to have this rank's plan.     *)
ProxyRecvOwnPlan(run, r, b) ==
  [s \in Source |-> SplitContract(Composition(run.arm), run.k)[r][b][r]]

ProxyRecv(run, r, b) ==
  [s \in Source |-> SplitContract(Composition(run.arm), run.k)[s][b][r]]

(* expected_recv_ids: what every source would send to this rank. *)
ProxyLocalIds(run, r, b) ==
  FlattenSeq([s \in Source |->
    LET ids  == ProxyIds(run, s, b)
        mine == SentTo(ids, r)
    IN  [n \in DOMAIN mine |-> LocalId(ids[mine[n]])]])

(* The loops over runs, batches and layers are those of the timing gate. *)
ProxyAfter(p, mode, last) == GateAfter(p, mode, last)
================================================================================
