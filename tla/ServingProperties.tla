-------------------------- MODULE ServingProperties -------------------------
(***************************************************************************)
(* What must hold of the serving loop, whatever the policy.                *)
(***************************************************************************)
EXTENDS Serving

TypeOKServing ==
  /\ phase \in {"loop", "selecting", "selected", "running", "finished", "failed"}
  /\ now \in Nat
  /\ loopCount \in Nat
  /\ queueDelay \in [Request -> Nat]
  /\ processed \in [Request -> Nat]
  /\ lastBatch \in [id : Int, start : Nat, end : Nat]
  /\ decidedAt \in Nat
  /\ readyAt \in SUBSET Request
  /\ bypassed \in [Request -> Nat]
  /\ served \in [Request -> Nat]

(* Every variable of the loop, the workload and the scheduler has its type. *)
TypeOK == TypeOKWorkload /\ TypeOKSelection /\ TypeOKServing

-----------------------------------------------------------------------------
(* Fairness of selection.                                                  *)

(* Unfinished requests that every policy prefers to r. *)
Ahead(r) == {s \in Unfinished \ {r} : Older(s, r)}

(* The oldest ready request anchors every batch, so a batch that leaves r out
   takes somebody from ahead of r to behind it: a request is passed over by at
   most NumRequests - 1 batches in a row, under every policy and every score. *)
BoundedBypass ==
  \A r \in Unfinished : bypassed[r] + Cardinality(Ahead(r)) < NumRequests

(* Under FIFO a batch that leaves r out holds only requests ahead of r, so a
   place in the line is worth a fraction of a batch. *)
FifoBypass ==
  PlainFIFO =>
    \A r \in Unfinished :
      bypassed[r] * MaxBatchSize + Cardinality(Ahead(r)) < NumRequests

BatchFormed == phase \in {"selected", "running"}

(* An overdue request is only passed over by a full batch of requests that have
   waited longer (max_wait_ms, "admit expired requests first"). *)
OverdueFirst ==
  BatchFormed =>
    \A r \in remaining :
      Overdue(r, decidedAt) => /\ Cardinality(selected) = MaxBatchSize
                               /\ \A s \in selected : Older(s, r)

(* A batch is as full as the ready requests allow.  The one-shot policy looks
   at its candidate pool once, so a pool smaller than the batch leaves the rest
   of the batch empty. *)
BatchFill ==
  LET most == Smaller(MaxBatchSize, Cardinality(readyAt))
  IN  BatchFormed =>
        /\ Cardinality(selected) <= most
        /\ Cardinality(selected) >=
             IF OneShot /\ CandidatePoolSize # None
             THEN Smaller(most, 1 + CandidatePoolSize) ELSE most

-----------------------------------------------------------------------------
(* Waiting time.                                                           *)

LongestBatch == CHOOSE t \in BatchTimes : \A u \in BatchTimes : u <= t

(* The candidates one round looks at, and those it evaluates in full; the
   locality policy has no shortlist. *)
PoolLimit == IF CandidatePoolSize = None THEN NumRequests
             ELSE Smaller(CandidatePoolSize, NumRequests)
ExactLimit == IF ShortlistSize = None \/ Policy = "locality" THEN PoolLimit
              ELSE Smaller(ShortlistSize, PoolLimit)

(* A batch is filled in at most MaxBatchSize - 1 rounds; each scores a pool by
   proxy and a shortlist in full, and the locality policy scores its anchor. *)
LargestOverhead ==
  StepOverhead((IF Policy = "locality" THEN 1 ELSE 0) + (MaxBatchSize - 1) * ExactLimit,
               (MaxBatchSize - 1) * PoolLimit)

(* When a batch starts, no member has waited longer than max_wait_ms, the batch
   during which it became overdue, which moves one older request behind it, and
   the full batches of older overdue requests that may still precede its own. *)
WaitBound ==
  phase = "running" =>
    \A r \in selected :
      now - readySince[r] <
        MaxWait + LargestOverhead
          + (LongestBatch + LargestOverhead) * (1 + (NumRequests - 2) \div MaxBatchSize)

(* total_queue_delay_ms plus the time a request spent executing is exactly the
   time since it arrived: no wait, overhead or execution is lost or counted
   twice, over any number of batches. *)
DelayAccounted ==
  phase = "loop" =>
    \A r \in Request : queueDelay[r] + served[r] = readySince[r] - Arrival(r)

-----------------------------------------------------------------------------
(* Progress.                                                               *)

(* The progress the loop commits step by step is the progress the offline oracle
   derives from the iteration number, and a request is done exactly when it has
   run the number of iterations the oracle plans for it. *)
ProgressAsPlanned ==
  \A r \in Request :
    /\ finalized[r] = FinalizedAfter(r, iteration[r])
    /\ iteration[r] <= TotalSteps(r)
    /\ Done(r) <=> iteration[r] = TotalSteps(r)

(* The positions the first i iterations of any request process.            *)
WorkUpTo[i \in Nat] == IF i = 0 THEN 0 ELSE WorkUpTo[i - 1] + WidthAt(i - 1)

(* The positions processed for a request depend on its progress alone, not on
   how it was batched: scheduling changes no decode semantics. *)
WorkIndependentOfBatching ==
  phase \in {"loop", "finished"} =>
    \A r \in Request :
      processed[r] = WorkUpTo[iteration[r]]

-----------------------------------------------------------------------------
(* Route profiles.                                                         *)

(* The previous-route policy never pays for a prediction while it selects: after
   its first iteration, a request's profile is the one observed and prewarmed at
   the end of the batch that ran the iteration before. *)
ProfilesPrewarmed ==
  Policy = "cost_aware" /\ RouteKnowledge = "previous" =>
    \A r \in Unfinished :
      /\ profile[r] # "predicted"
      /\ iteration[r] > 0 /\ ~PlainFIFO => profile[r] = "observed"

-----------------------------------------------------------------------------
(* Completion.                                                             *)

(* The run ends: every request completes. *)
Termination == <>(phase = "finished")

(* The promise the loop keeps, seen without its clock. *)
Line == INSTANCE WaitingLine WITH
  Steps     <- [r \in Request |-> TotalSteps(r)],
  stepsLeft <- [r \in Request |-> TotalSteps(r) - iteration[r]],
  admitted  <- {r \in Request : Arrival(r) <= decidedAt},
  place     <- [r \in Request |-> IF Done(r) THEN 0 ELSE Cardinality(Ahead(r))]

KeepsTheLine == Line!FairSpec
=============================================================================
