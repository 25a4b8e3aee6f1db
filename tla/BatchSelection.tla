--------------------------- MODULE BatchSelection ---------------------------
(***************************************************************************)
(* One call of Scheduler.select (src/refineserve/schedulers/*.py): how a    *)
(* policy forms a batch from the ready requests.                           *)
(*                                                                         *)
(* What a candidate scores (cosine similarity, estimated critical path,    *)
(* proxy score) is route data: every candidate a policy scores may win.    *)
(* The control around the scores is kept: the oldest request anchors the   *)
(* batch, overdue requests go first, the candidate pool and the shortlist  *)
(* bound what is scored, and every score evaluated is charged.             *)
(***************************************************************************)
EXTENDS DecodeWorkload

CONSTANTS
  Policy,             \* "fifo", "locality" or "cost_aware"
  RouteKnowledge,     \* "previous", "routing_oracle" or "runtime_oracle"
  MaxBatchSize,       \* workload.max_batch_size
  MaxWait,            \* scheduler.max_wait_ms
  CandidatePoolSize,  \* scheduler.candidate_pool_size, or None
  ShortlistSize,      \* scheduler.full_evaluation_shortlist_size, or None
  None,               \* the absent limit
  OneShotProxyBatch,  \* scheduler.one_shot_proxy_batch
  ProxyAlwaysActive,  \* scheduler.proxy_activation_mode = "always"
  CommunicationBound, \* the fabric meets one of the activation thresholds
  BaseOverhead,       \* scheduler.base_overhead_ms
  CandidateOverhead,  \* scheduler.candidate_evaluation_overhead_ms
  ProxyOverhead       \* scheduler.proxy_evaluation_overhead_ms

ASSUME SelectionAssumption ==
  /\ Policy \in {"fifo", "locality", "cost_aware"}
  /\ RouteKnowledge \in {"previous", "routing_oracle", "runtime_oracle"}
  /\ MaxBatchSize \in Nat \ {0}
  /\ MaxWait \in Nat \ {0}
  /\ None \notin Nat
  /\ CandidatePoolSize \in (Nat \ {0}) \cup {None}
  /\ ShortlistSize \in (Nat \ {0}) \cup {None}
  /\ OneShotProxyBatch \in BOOLEAN
  /\ OneShotProxyBatch => ShortlistSize = 1
  /\ ProxyAlwaysActive \in BOOLEAN
  /\ CommunicationBound \in BOOLEAN
  /\ BaseOverhead \in Nat
  /\ CandidateOverhead \in Nat
  /\ ProxyOverhead \in Nat

VARIABLES
  selected,        \* the batch formed so far
  remaining,       \* ready requests not in the batch
  histogramBuilt,  \* the greedy loop has built its batch histogram
  candidateEvals,  \* full evaluations charged to this call
  proxyEvals,      \* proxy evaluations charged to this call
  lastOverhead,    \* Scheduler.last_overhead_ms
  profile          \* how the cached route profile of the request's current
                   \* iteration was obtained, "absent" if it is not cached

selectionVars == <<selected, remaining, histogramBuilt, candidateEvals,
                   proxyEvals, lastOverhead, profile>>

ProfileSource == {"absent", "prior", "predicted", "observed", "exact"}

(* The order of every policy: longest waiting first, then request_id. *)
Older(r, s) ==
  \/ readySince[r] < readySince[s]
  \/ readySince[r] = readySince[s] /\ r < s

(* MUTANTS: the requests are not sorted, or sorted by request_id alone. *)
OldestUnsorted(S, k) ==
  {B \in SUBSET S : Cardinality(B) = Smaller(k, Cardinality(S))}

OldestById(S, k) ==
  {B \in OldestUnsorted(S, k) : \A r \in B, s \in S \ B : r < s}

(* The first k requests of S in that order, as the one element of a set. *)
Oldest(S, k) ==
  {B \in SUBSET S : /\ Cardinality(B) = Smaller(k, Cardinality(S))
                    /\ \A r \in B, s \in S \ B : Older(r, s)}

Overdue(r, t) == t - readySince[r] >= MaxWait

(* MUTANT: the pool is one candidate short. *)
PoolShort(S) == IF CandidatePoolSize = None THEN {S} ELSE Oldest(S, CandidatePoolSize - 1)

(* The candidates a policy looks at. *)
Pool(S) == IF CandidatePoolSize = None THEN {S} ELSE Oldest(S, CandidatePoolSize)

ProxyIsActive == ProxyAlwaysActive \/ CommunicationBound

(* fifo.py, and the fallback of the one-shot policy on a fast fabric. *)
PlainFIFO == \/ Policy = "fifo"
             \/ Policy = "cost_aware" /\ OneShotProxyBatch /\ ~ProxyIsActive

OneShot == Policy = "cost_aware" /\ OneShotProxyBatch /\ ProxyIsActive

Greedy == ~PlainFIFO /\ ~OneShot

(* The cost estimator looks up the profiles of the requests in S, and computes
   and caches those it does not have. *)
Profiled(S) ==
  [r \in Request |->
     IF r \in S /\ profile[r] = "absent"
     THEN IF RouteKnowledge # "previous" THEN "exact"
          ELSE IF iteration[r] = 0 THEN "prior" ELSE "predicted"
     ELSE profile[r]]

StepOverhead(candidates, proxies) ==
  BaseOverhead + candidates * CandidateOverhead + proxies * ProxyOverhead

InitSelection ==
  /\ selected = {} /\ remaining = {}
  /\ histogramBuilt = FALSE
  /\ candidateEvals = 0 /\ proxyEvals = 0
  /\ lastOverhead = 0
  /\ profile = [r \in Request |-> "absent"]

(* FIFOScheduler.select: the oldest requests, nothing evaluated. *)
SelectFIFO(ready) ==
  /\ PlainFIFO
  /\ selected' \in Oldest(ready, MaxBatchSize)
  /\ remaining' = ready \ selected'
  /\ lastOverhead' = StepOverhead(0, 0)
  /\ candidateEvals' = 0 /\ proxyEvals' = 0
  /\ histogramBuilt' = FALSE
  /\ UNCHANGED profile

(* MUTANT: the last request of the order anchors the batch. *)
BeginGreedyLast(ready) ==
  /\ Greedy
  /\ \E r \in ready : (\A s \in ready \ {r} : Older(s, r)) /\ selected' = {r}
  /\ remaining' = ready \ selected'
  /\ candidateEvals' = IF Policy = "locality" THEN 1 ELSE 0
  /\ proxyEvals' = 0
  /\ histogramBuilt' = FALSE
  /\ UNCHANGED <<lastOverhead, profile>>

(* The greedy policies start from the oldest request. *)
BeginGreedy(ready) ==
  /\ Greedy
  /\ selected' \in Oldest(ready, 1)
  /\ remaining' = ready \ selected'
  /\ candidateEvals' = IF Policy = "locality" THEN 1 ELSE 0
  /\ proxyEvals' = 0
  /\ histogramBuilt' = FALSE
  /\ UNCHANGED <<lastOverhead, profile>>

BatchOpen == remaining # {} /\ Cardinality(selected) < MaxBatchSize

Choose(r) ==
  /\ selected' = selected \cup {r}
  /\ remaining' = remaining \ {r}
  /\ UNCHANGED lastOverhead

(* The oldest candidate has waited too long: it is taken unscored. *)
PickOverdue(t) ==
  /\ BatchOpen
  /\ \E first \in Oldest(remaining, 1) : \E r \in first :
       /\ Overdue(r, t)
       /\ Choose(r)
       /\ profile' = IF histogramBuilt THEN Profiled({r}) ELSE profile
  /\ UNCHANGED <<histogramBuilt, candidateEvals, proxyEvals>>

(* MUTANT: candidates are scored whether or not one is overdue. *)
NoneOverdueUnchecked(t) == TRUE

NoneOverdue(t) == \A first \in Oldest(remaining, 1) : \A r \in first : ~Overdue(r, t)

(* The locality policy compares every candidate with the batch. *)
PickMostSimilar(t) ==
  /\ BatchOpen /\ NoneOverdue(t)
  /\ Policy = "locality"
  /\ \E pool \in Pool(remaining) : \E r \in pool :
       /\ Choose(r)
       /\ candidateEvals' = candidateEvals + Cardinality(pool)
  /\ UNCHANGED <<histogramBuilt, proxyEvals, profile>>

(* A single candidate is taken without an estimate. *)
PickOnly(t) ==
  /\ BatchOpen /\ NoneOverdue(t)
  /\ Policy = "cost_aware"
  /\ \E pool \in Pool(remaining) : \E r \in pool :
       /\ pool = {r}
       /\ Choose(r)
       /\ profile' = IF histogramBuilt THEN Profiled({r}) ELSE profile
  /\ UNCHANGED <<histogramBuilt, candidateEvals, proxyEvals>>

(* Several candidates are scored: a proxy pass cuts them to the shortlist, and
   a shortlist of more than one is evaluated in full. *)
PickCheapest(t) ==
  /\ BatchOpen /\ NoneOverdue(t)
  /\ Policy = "cost_aware"
  /\ \E pool \in Pool(remaining) :
       /\ Cardinality(pool) > 1
       /\ LET shortened == ShortlistSize # None /\ ShortlistSize < Cardinality(pool)
              exact == IF shortened THEN ShortlistSize ELSE Cardinality(pool)
          IN  /\ proxyEvals' = proxyEvals + (IF shortened THEN Cardinality(pool) ELSE 0)
              /\ candidateEvals' = candidateEvals + (IF exact = 1 THEN 0 ELSE exact)
       /\ \E r \in pool : Choose(r)
       /\ profile' = Profiled(selected \cup pool)
  /\ histogramBuilt' = TRUE

EndGreedy ==
  /\ ~BatchOpen
  /\ lastOverhead' = StepOverhead(candidateEvals, proxyEvals)
  /\ UNCHANGED <<selected, remaining, histogramBuilt, candidateEvals, proxyEvals, profile>>

(* The one-shot policy: the anchor, then overdue requests, then the pool, which
   is ranked by one proxy pass only when it does not fit. *)
SelectOneShot(ready, t) ==
  /\ OneShot
  /\ \E anchor \in Oldest(ready, 1) :
     \E late \in Oldest({r \in ready \ anchor : Overdue(r, t)}, MaxBatchSize - 1) :
       LET slots == MaxBatchSize - 1 - Cardinality(late)
           rest  == ready \ (anchor \cup late)
       IN  \E pool \in Pool(rest) :
           \E fill \in SUBSET pool :
             /\ Cardinality(fill) = Smaller(slots, Cardinality(pool))
             /\ selected' = anchor \cup late \cup fill
             /\ remaining' = ready \ selected'
             /\ IF slots > 0 /\ Cardinality(pool) > slots
                THEN /\ proxyEvals' = Cardinality(pool)
                     /\ profile' = Profiled(anchor \cup late \cup pool)
                ELSE proxyEvals' = 0 /\ UNCHANGED profile
  /\ lastOverhead' = StepOverhead(0, proxyEvals')
  /\ candidateEvals' = 0
  /\ histogramBuilt' = FALSE

(* MUTANT: the observed routes are stored under the iteration that ran. *)
PrepareRequestsStale(batch) ==
  profile' = [r \in Request |-> IF r \in batch THEN "absent" ELSE profile[r]]

(* prepare_requests, called after the batch is committed: the previous-route
   policy stores the routes it observed under the request's new iteration.
   A new iteration has no cached profile otherwise. *)
PrepareRequests(batch) ==
  LET observes == /\ Policy = "cost_aware" /\ RouteKnowledge = "previous"
                  /\ OneShotProxyBatch => ProxyIsActive
  IN  profile' = [r \in Request |->
                    IF r \notin batch THEN profile[r]
                    ELSE IF observes /\ iteration'[r] > 0 /\ ~Done(r)' THEN "observed"
                    ELSE "absent"]

TypeOKSelection ==
  /\ selected \in SUBSET Request
  /\ remaining \in SUBSET Request
  /\ histogramBuilt \in BOOLEAN
  /\ candidateEvals \in Nat
  /\ proxyEvals \in Nat
  /\ lastOverhead \in Nat
  /\ profile \in [Request -> ProfileSource]
=============================================================================
