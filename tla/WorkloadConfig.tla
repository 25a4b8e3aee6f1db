--------------------------- MODULE WorkloadConfig ---------------------------
(***************************************************************************)
(* The configured workload: when each request arrives, how many tokens it  *)
(* decodes and what an iteration of it processes (config.py and the parts   *)
(* of workloads/*.py that depend on the configuration alone).              *)
(*                                                                         *)
(* A request decodes `OutputTokens' tokens.  An autoregressive request     *)
(* finalizes one token per iteration.  A block-refinement ("diffusion")    *)
(* request walks through `Schedule' (the number of positions still active  *)
(* in each refinement round) and finalizes one whole block in the last     *)
(* round of the walk.  Times are milliseconds counted in whole units.      *)
(***************************************************************************)
EXTENDS Integers, Sequences, FiniteSets

CONSTANTS
  NumRequests,      \* workload.num_requests
  ArrivalInterval,  \* workload.arrival_interval_ms
  Mode,             \* "autoregressive" or "diffusion"
  OutputTokens,     \* workload.output_tokens
  Staggered,        \* workload.output_length_pattern = "staggered"
  MinOutputTokens,  \* workload.minimum_output_tokens (read when Staggered)
  BlockSize,        \* workload.diffusion_block_size
  Schedule,         \* workload.active_position_schedule
  Never             \* completion_time_ms of an unfinished request (None)

(* What SimulationConfig.validate accepts.  The sign of the interval is not
   checked by the code; a negative interval is outside this model. *)
ASSUME WorkloadAssumption ==
  /\ NumRequests \in Nat \ {0}
  /\ ArrivalInterval \in Nat
  /\ Mode \in {"autoregressive", "diffusion"}
  /\ OutputTokens \in Nat \ {0}
  /\ BlockSize \in Nat \ {0}
  /\ OutputTokens % BlockSize = 0
  /\ Staggered \in BOOLEAN
  /\ MinOutputTokens \in 1 .. OutputTokens
  /\ Staggered => MinOutputTokens % BlockSize = 0
  /\ Schedule \in Seq(1 .. BlockSize)
  /\ Len(Schedule) > 0
  /\ Schedule[Len(Schedule)] = 1
  /\ \A i \in 1 .. Len(Schedule) - 1 : Schedule[i] >= Schedule[i + 1]
  /\ Never \notin Nat

Request == 0 .. NumRequests - 1

Smaller(a, b) == IF a < b THEN a ELSE b

(* round() of half of `twice': Python rounds a half to the even neighbour. *)
RoundedHalf(twice) ==
  LET down == twice \div 2
  IN  IF twice % 2 = 0 \/ down % 2 = 0 THEN down ELSE down + 1

OutputOf(r) ==
  LET fewest == MinOutputTokens \div BlockSize
      most   == OutputTokens \div BlockSize
  IN  IF Staggered
      THEN BlockSize * RoundedHalf(2 * fewest + (most - fewest) * (r % 3))
      ELSE OutputTokens

Arrival(r) == r * ArrivalInterval

Rounds == IF Mode = "diffusion" THEN Len(Schedule) ELSE 1

(* Tokens finalized together: a block, or one token at a time. *)
Stride == IF Mode = "diffusion" THEN BlockSize ELSE 1

(* Positions processed by the i-th iteration of any request. *)
WidthAt(i) == IF Mode = "diffusion" THEN Schedule[(i % Len(Schedule)) + 1] ELSE 1

(* The iterations a request needs in total, and the tokens it has finalized
   after i of them, as the offline oracle computes them. *)
TotalSteps(r) == (OutputOf(r) \div Stride) * Rounds

FinalizedAfter(r, i) == Smaller((i \div Rounds) * Stride, OutputOf(r))
=============================================================================
