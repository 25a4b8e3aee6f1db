------------------------------- MODULE Serving ------------------------------
(***************************************************************************)
(* Simulator.run (src/refineserve/simulator.py): the serving loop.  While a *)
(* request is unfinished the loop jumps to the next arrival if nobody is   *)
(* ready; otherwise it asks the scheduler for a batch, charges the         *)
(* scheduler's overhead to the clock, executes one native iteration of     *)
(* every member, commits the progress and lets the scheduler observe it.   *)
(*                                                                         *)
(* How long a batch executes is the sum of its layers' modelled times,     *)
(* which depends on routes; here it is any member of BatchTimes.           *)
(***************************************************************************)
EXTENDS BatchSelection

CONSTANTS
  BatchTimes,  \* what one batch execution may take
  LoopLimit    \* the loop safety limit, 10_000_000 in the code

(* Every layer launches an expert, so no batch executes in no time. *)
ASSUME BatchTimesAssumption == BatchTimes \subseteq Nat \ {0} /\ BatchTimes # {}

ASSUME LoopLimitAssumption == LoopLimit \in Nat

VARIABLES
  phase,       \* "loop", "selecting", "selected", "running", "finished", "failed"
  now,         \* now_ms
  loopCount,   \* loop_count; a batch's id is loop_count - 1
  queueDelay,  \* total_queue_delay_ms of each request
  processed,   \* processed_positions, split by the request worked on
  lastBatch    \* id and interval of the last BatchExecution

(* History variables: they record what happened and no action reads them. *)
VARIABLES
  decidedAt,   \* the clock when the last batch was decided
  readyAt,     \* the requests that were ready then
  bypassed,    \* batches each request was ready for but left out of, in a row
  served       \* execution time each request has received

simulatorVars == <<phase, now, loopCount, queueDelay, processed, lastBatch>>
historyVars == <<decidedAt, readyAt, bypassed, served>>
vars == <<workloadVars, selectionVars, simulatorVars, historyVars>>

NoBatch == [id |-> -1, start |-> 0, end |-> 0]

Init ==
  /\ InitWorkload
  /\ InitSelection
  /\ phase = "loop"
  /\ now = 0
  /\ loopCount = 0
  /\ queueDelay = [r \in Request |-> 0]
  /\ processed = [r \in Request |-> 0]
  /\ lastBatch = NoBatch
  /\ decidedAt = 0
  /\ readyAt = {}
  /\ bypassed = [r \in Request |-> 0]
  /\ served = [r \in Request |-> 0]

(* The loop turns once more, unless it has turned too often. *)
EnterLoop ==
  /\ phase = "loop"
  /\ Unfinished # {}
  /\ loopCount < LoopLimit
  /\ loopCount' = loopCount + 1

(* "simulation exceeded loop safety limit" *)
ExceedLimit ==
  /\ phase = "loop"
  /\ Unfinished # {}
  /\ loopCount >= LoopLimit
  /\ loopCount' = loopCount + 1
  /\ phase' = "failed"
  /\ UNCHANGED <<workloadVars, selectionVars, historyVars,
                 now, queueDelay, processed, lastBatch>>

(* Nobody is ready: the clock jumps to the next arrival. *)
AwaitArrival ==
  /\ EnterLoop
  /\ Ready(now) = {}
  /\ now' = NextArrival
  /\ UNCHANGED <<workloadVars, selectionVars, historyVars,
                 phase, queueDelay, processed, lastBatch>>

(* The scheduler is called with the ready requests.  FIFO and the one-shot
   policy answer at once, the greedy policies work in steps. *)
CallScheduler ==
  /\ EnterLoop
  /\ Ready(now) # {}
  /\ \/ SelectFIFO(Ready(now)) /\ phase' = "selected"
     \/ SelectOneShot(Ready(now), now) /\ phase' = "selected"
     \/ BeginGreedy(Ready(now)) /\ phase' = "selecting"
  /\ decidedAt' = now
  /\ readyAt' = Ready(now)
  /\ UNCHANGED <<workloadVars, now, queueDelay, processed, lastBatch, bypassed, served>>

(* One round of the greedy loop. *)
ExtendBatch ==
  /\ phase = "selecting"
  /\ \/ PickOverdue(now)
     \/ PickMostSimilar(now)
     \/ PickOnly(now)
     \/ PickCheapest(now)
  /\ UNCHANGED <<workloadVars, simulatorVars, historyVars>>

CloseBatch ==
  /\ phase = "selecting"
  /\ EndGreedy
  /\ phase' = "selected"
  /\ UNCHANGED <<workloadVars, historyVars, now, loopCount, queueDelay, processed, lastBatch>>

(* MUTANT: the wait is taken before the overhead is charged. *)
StartBatchEarlyWait ==
  /\ phase = "selected"
  /\ phase' = "running"
  /\ now' = now + lastOverhead
  /\ lastOverhead' = 0
  /\ queueDelay' = [r \in Request |->
                      IF r \in selected THEN queueDelay[r] + now - readySince[r]
                                        ELSE queueDelay[r]]
  /\ processed' = [r \in Request |->
                     IF r \in selected THEN processed[r] + ActivePositions(r)
                                       ELSE processed[r]]
  /\ lastBatch' = [id |-> loopCount - 1, start |-> now', end |-> now']
  /\ UNCHANGED <<workloadVars, historyVars, loopCount, selected, remaining,
                 histogramBuilt, candidateEvals, proxyEvals, profile>>

(* The simulator consumes the scheduler's overhead, accounts the waits up to
   the start of the batch and counts its work items, one for each active
   position of each member. *)
StartBatch ==
  /\ phase = "selected"
  /\ phase' = "running"
  /\ now' = now + lastOverhead
  /\ lastOverhead' = 0
  /\ queueDelay' = [r \in Request |->
                      IF r \in selected THEN queueDelay[r] + now' - readySince[r]
                                        ELSE queueDelay[r]]
  /\ processed' = [r \in Request |->
                     IF r \in selected THEN processed[r] + ActivePositions(r)
                                       ELSE processed[r]]
  /\ lastBatch' = [id |-> loopCount - 1, start |-> now', end |-> now']
  /\ UNCHANGED <<workloadVars, historyVars, loopCount, selected, remaining,
                 histogramBuilt, candidateEvals, proxyEvals, profile>>

(* The layers execute, the workload commits the iteration, the scheduler
   observes it, and the loop starts over. *)
ExecuteBatch ==
  /\ phase = "running"
  /\ \E elapsed \in BatchTimes :
       /\ now' = now + elapsed
       /\ served' = [r \in Request |-> IF r \in selected THEN served[r] + elapsed
                                                         ELSE served[r]]
  /\ Finalize(selected, now')
  /\ PrepareRequests(selected)
  /\ lastBatch' = [lastBatch EXCEPT !.end = now']
  /\ bypassed' = [r \in Request |-> IF r \in selected THEN 0
                                    ELSE IF r \in readyAt THEN bypassed[r] + 1
                                    ELSE bypassed[r]]
  /\ phase' = "loop"
  /\ selected' = {} /\ remaining' = {}
  /\ histogramBuilt' = FALSE /\ candidateEvals' = 0 /\ proxyEvals' = 0
  /\ UNCHANGED <<loopCount, queueDelay, processed, lastOverhead, decidedAt, readyAt>>

(* Every request is done: the summary is built and the run returns. *)
Finish ==
  /\ phase = "loop"
  /\ Unfinished = {}
  /\ phase' = "finished"
  /\ UNCHANGED <<workloadVars, selectionVars, historyVars,
                 now, loopCount, queueDelay, processed, lastBatch>>

Finished == phase \in {"finished", "failed"} /\ UNCHANGED vars

Next ==
  \/ ExceedLimit
  \/ AwaitArrival
  \/ CallScheduler
  \/ ExtendBatch
  \/ CloseBatch
  \/ StartBatch
  \/ ExecuteBatch
  \/ Finish
  \/ Finished

Spec == Init /\ [][Next]_vars

(* run() is one sequential loop: it takes its next step as long as it has one. *)
FairSpec == Spec /\ WF_vars(Next)
=============================================================================
