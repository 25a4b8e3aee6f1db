------------------------------ MODULE MCFabrics -----------------------------
(* The selected online policy on two fabrics: on the slow one it ranks its  *)
(* candidates once by the proxy, on the fast one it falls back to FIFO      *)
(* (policies.py:60, cost_aware.py:693-699).  Nothing else differs.          *)
EXTENDS DecodeWorkload

CONSTANTS
  RouteKnowledge, MaxBatchSize, MaxWait, CandidatePoolSize, ShortlistSize, None,
  BaseOverhead, CandidateOverhead, ProxyOverhead, BatchTimes, LoopLimit

VARIABLES
  fast,   \* the fabric meets no activation threshold
  selected, remaining, histogramBuilt, candidateEvals, proxyEvals, lastOverhead, profile,
  phase, now, loopCount, queueDelay, processed, lastBatch,
  decidedAt, readyAt, bypassed, served

Slow == INSTANCE ServingProperties WITH
  Policy <- "cost_aware", OneShotProxyBatch <- TRUE, ProxyAlwaysActive <- FALSE,
  CommunicationBound <- TRUE

Fast == INSTANCE ServingProperties WITH
  Policy <- "cost_aware", OneShotProxyBatch <- TRUE, ProxyAlwaysActive <- FALSE,
  CommunicationBound <- FALSE

fabricVars == <<fast, Slow!vars>>

Init == fast \in BOOLEAN /\ Slow!Init

Next ==
  /\ UNCHANGED fast
  /\ \/ ~fast /\ Slow!Next
     \/ fast /\ Fast!Next

FairSpec == Init /\ [][Next]_fabricVars /\ WF_fabricVars(Next)

OneRound == <<1>>

(* A batch is as full as one ranking of the pool allows, after the fallback *)
(* as full as the ready requests do (cost_aware.py:693-706).                *)
BatchFill == IF fast THEN Fast!BatchFill ELSE Slow!BatchFill

(* After the fallback a place in the line is worth a fraction of a batch    *)
(* (cost_aware.py:695-699).                                                 *)
FifoBypass == fast => Fast!FifoBypass

(* On either fabric the run ends and keeps the promise of the waiting line  *)
(* (simulator.py:162).                                                      *)
Termination == Slow!Termination
KeepsTheLine == Slow!KeepsTheLine
=============================================================================
