--------------------------- MODULE DecodeWorkload ---------------------------
(***************************************************************************)
(* The requests of a simulation and the two decode workloads that advance  *)
(* them (src/refineserve/models.py, workloads/*.py).                       *)
(***************************************************************************)
EXTENDS WorkloadConfig

VARIABLES
  iteration,    \* native decode iterations each request has executed
  finalized,    \* tokens each request has finalized
  readySince,   \* when each request last became ready for its next iteration
  completedAt   \* completion time, Never while the request is unfinished

workloadVars == <<iteration, finalized, readySince, completedAt>>

(* MUTANT: the schedule is read one round ahead. *)
ActivePositionsAhead(r) == WidthAt(iteration[r] + 1)

ActivePositions(r) == WidthAt(iteration[r])

(* MUTANT: a block is finalized at the start of its walk. *)
FinalRoundEarly(r) == iteration[r] % Rounds = 0

FinalRound(r) == iteration[r] % Rounds = Rounds - 1

(* Tokens the current iteration of r finalizes when it is committed. *)
FinalizedByStep(r) ==
  IF Mode = "diffusion"
  THEN IF FinalRound(r) THEN Smaller(BlockSize, OutputOf(r) - finalized[r]) ELSE 0
  ELSE Smaller(1, OutputOf(r) - finalized[r])

Done(r) == finalized[r] >= OutputOf(r)

Unfinished == {r \in Request : ~Done(r)}

ReadyStrict(t) == {r \in Unfinished : Arrival(r) < t}

(* Unfinished requests that have arrived by time t. *)
Ready(t) == {r \in Unfinished : Arrival(r) <= t}

(* The time the idle simulator jumps to; Unfinished is not empty. *)
NextArrival == CHOOSE t \in {Arrival(r) : r \in Unfinished} :
                 \A r \in Unfinished : t <= Arrival(r)

InitWorkload ==
  /\ iteration   = [r \in Request |-> 0]
  /\ finalized   = [r \in Request |-> 0]
  /\ readySince  = [r \in Request |-> Arrival(r)]
  /\ completedAt = [r \in Request |-> Never]

(* Commit one iteration of every request of the batch at time t. *)
Finalize(batch, t) ==
  /\ iteration'  = [r \in Request |->
                      IF r \in batch THEN iteration[r] + 1 ELSE iteration[r]]
  /\ finalized'  = [r \in Request |->
                      IF r \in batch THEN finalized[r] + FinalizedByStep(r)
                                     ELSE finalized[r]]
  /\ readySince' = [r \in Request |-> IF r \in batch THEN t ELSE readySince[r]]
  /\ completedAt' = [r \in Request |->
                      IF r \in batch /\ Done(r)' THEN t ELSE completedAt[r]]

TypeOKWorkload ==
  /\ iteration \in [Request -> Nat]
  /\ finalized \in [Request -> Nat]
  /\ readySince \in [Request -> Nat]
  /\ completedAt \in [Request -> Nat \cup {Never}]
=============================================================================
