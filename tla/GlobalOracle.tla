----------------------------- MODULE GlobalOracle ---------------------------
(***************************************************************************)
(* ExactGlobalMakespanOracle (src/refineserve/global_oracle.py): a Dijkstra *)
(* search over the progress of all requests that keeps, for each progress, *)
(* the earliest time it can be reached, and a replay that executes any     *)
(* sequence of batches.                                                    *)
(*                                                                         *)
(* A batch costs what LayerCost charges for one layer.  The routes are the *)
(* input: which experts each position of each iteration of each request    *)
(* activates.                                                              *)
(***************************************************************************)
EXTENDS LayerCost

CONSTANTS
  MaxBatchSize,   \* workload.max_batch_size
  BaseOverhead,   \* scheduler.base_overhead_ms
  MaxStates,      \* the search budget
  RouteTables     \* the routes considered

ASSUME OracleAssumption ==
  /\ MaxBatchSize \in Nat \ {0}
  /\ BaseOverhead \in Nat
  /\ MaxStates \in Nat
  /\ \A table \in RouteTables :
       /\ table \in [Request -> Seq(Seq(SUBSET Expert))]
       /\ \A r \in Request :
            /\ TotalSteps(r) <= Len(table[r])
            /\ \A i \in 1 .. TotalSteps(r) : Len(table[r][i]) = WidthAt(i - 1)

VARIABLES
  routes,        \* the router's routes: routes[r][i][p] at iteration i - 1 of r
  status,        \* "searching", "solved" or the RuntimeError raised
  distances,     \* earliest known time of each progress reached
  predecessors,  \* the progress and batch that gave it that time
  frontier,      \* the heap: times and progresses still to expand
  explored,      \* explored_states
  makespan,      \* GlobalOracleResult.optimal_makespan_ms
  actions,       \* GlobalOracleResult.actions
  at,            \* a replay of arbitrary legal batches: its progress,
  clock          \* and its time

searchVars == <<status, distances, predecessors, frontier, explored, makespan, actions>>
replayVars == <<at, clock>>
vars == <<routes, searchVars, replayVars>>

Start == [r \in Request |-> 0]
Goal  == [r \in Request |-> TotalSteps(r)]

Open(progress) == {r \in Request : progress[r] < TotalSteps(r)}

ReadyAt(progress, t) == {r \in Open(progress) : Arrival(r) <= t}

(* _actions: every batch of ready requests. *)
LegalActions(progress, t) ==
  {batch \in SUBSET ReadyAt(progress, t) : Cardinality(batch) \in 1 .. MaxBatchSize}

(* _next_decision_time: the search may not idle while somebody is ready. *)
NextDecisionTime(progress, t) ==
  IF ReadyAt(progress, t) # {} THEN t
  ELSE CHOOSE arrival \in {Arrival(r) : r \in Open(progress)} :
         \A r \in Open(progress) : arrival <= Arrival(r)

After(progress, batch) ==
  [r \in Request |-> IF r \in batch THEN progress[r] + 1 ELSE progress[r]]

(* _batch_cost *)
BatchCost(progress, batch) ==
  BaseOverhead + ExecuteLayer([r \in batch |-> routes[r][progress[r] + 1]]).elapsed

(* heapq order: time, then the progress tuple. *)
Before(e, f) ==
  \/ e.time < f.time
  \/ /\ e.time = f.time
     /\ \E r \in Request : /\ e.progress[r] < f.progress[r]
                           /\ \A s \in 0 .. r - 1 : e.progress[s] = f.progress[s]

(* MUTANT: the frontier is not ordered. *)
AnyEntry(e) == e \in frontier

HeapMinimum(e) == e \in frontier /\ \A f \in frontier \ {e} : Before(e, f)

(* _reconstruct: the batches on the way to a progress. *)
Reconstructed(progress) ==
  LET path[p \in DOMAIN distances] ==
        IF p \notin DOMAIN predecessors THEN << >>
        ELSE Append(path[predecessors[p].progress], predecessors[p].batch)
  IN  path[progress]

(* replay: where a sequence of batches ends, and whether each was legal. *)
Replayed(batches) ==
  LET run[i \in 0 .. Len(batches)] ==
        IF i = 0 THEN [progress |-> Start, time |-> 0, legal |-> TRUE]
        ELSE LET before == run[i - 1]
                 t == NextDecisionTime(before.progress, before.time)
             IN  IF batches[i] \in LegalActions(before.progress, t) /\ before.legal
                 THEN [progress |-> After(before.progress, batches[i]),
                       time |-> t + BatchCost(before.progress, batches[i]),
                       legal |-> TRUE]
                 ELSE [before EXCEPT !.legal = FALSE]
  IN  run[Len(batches)]

Init ==
  /\ routes \in RouteTables
  /\ status = "searching"
  /\ distances = [p \in {Start} |-> 0]
  /\ predecessors = << >>
  /\ frontier = {[time |-> 0, progress |-> Start]}
  /\ explored = 0
  /\ makespan = 0
  /\ actions = << >>
  /\ at = Start
  /\ clock = 0

(* A frontier entry that a shorter one has overtaken is dropped. *)
PopStale ==
  /\ status = "searching"
  /\ \E e \in frontier :
       /\ HeapMinimum(e)
       /\ e.time > distances[e.progress]
       /\ frontier' = frontier \ {e}
  /\ UNCHANGED <<routes, status, distances, predecessors, explored, makespan, actions, replayVars>>

Fresh(e) == HeapMinimum(e) /\ e.time <= distances[e.progress]

PopOverBudget ==
  /\ status = "searching"
  /\ explored + 1 > MaxStates
  /\ \E e \in frontier : Fresh(e) /\ frontier' = frontier \ {e}
  /\ explored' = explored + 1
  /\ status' = "exceeded max_states"
  /\ UNCHANGED <<routes, distances, predecessors, makespan, actions, replayVars>>

(* The goal is the minimum: its batches are reconstructed and replayed. *)
PopGoal ==
  /\ status = "searching"
  /\ explored + 1 <= MaxStates
  /\ \E e \in frontier :
       /\ Fresh(e) /\ e.progress = Goal
       /\ frontier' = frontier \ {e}
       /\ LET batches == Reconstructed(Goal)
              end == Replayed(batches)
          IN  IF end.legal /\ end.progress = Goal /\ end.time = e.time
              THEN /\ status' = "solved"
                   /\ makespan' = e.time
                   /\ actions' = batches
              ELSE /\ status' = "replay mismatch"
                   /\ UNCHANGED <<makespan, actions>>
  /\ explored' = explored + 1
  /\ UNCHANGED <<routes, distances, predecessors, replayVars>>

(* MUTANT: the first result stays. *)
ImprovesOnce(next, t) == next \notin DOMAIN distances

(* Every legal batch of the expanded progress that improves its result. *)
Improves(next, t) == next \notin DOMAIN distances \/ t < distances[next]

Expand ==
  /\ status = "searching"
  /\ explored + 1 <= MaxStates
  /\ \E e \in frontier :
       /\ Fresh(e) /\ e.progress # Goal
       /\ LET t == NextDecisionTime(e.progress, e.time)
              reach(batch) == t + BatchCost(e.progress, batch)
              better == {batch \in LegalActions(e.progress, t) :
                           Improves(After(e.progress, batch), reach(batch))}
              found == {After(e.progress, batch) : batch \in better}
              by(p) == CHOOSE batch \in better : After(e.progress, batch) = p
          IN  /\ distances' = [p \in DOMAIN distances \cup found |->
                                 IF p \in found THEN reach(by(p)) ELSE distances[p]]
              /\ predecessors' = [p \in DOMAIN predecessors \cup found |->
                                    IF p \in found
                                    THEN [progress |-> e.progress, batch |-> by(p)]
                                    ELSE predecessors[p]]
              /\ frontier' = (frontier \ {e}) \cup
                   {[time |-> reach(by(p)), progress |-> p] : p \in found}
  /\ explored' = explored + 1
  /\ UNCHANGED <<routes, status, makespan, actions, replayVars>>

(* After the answer, somebody replays batches of their own choice. *)
ReplayBatch ==
  /\ status = "solved"
  /\ at # Goal
  /\ LET t == NextDecisionTime(at, clock)
     IN  \E batch \in LegalActions(at, t) :
           /\ clock' = t + BatchCost(at, batch)
           /\ at' = After(at, batch)
  /\ UNCHANGED <<routes, searchVars>>

(* The search returned or raised, and the replay is complete.  There is no
   action for the "could not reach the completed state" error: a search that
   ran out of frontier would deadlock. *)
Finished ==
  /\ status # "searching"
  /\ status = "solved" => at = Goal
  /\ UNCHANGED vars

Next ==
  \/ PopStale \/ PopOverBudget \/ PopGoal \/ Expand
  \/ ReplayBatch
  \/ Finished

Spec == Init /\ [][Next]_vars

-----------------------------------------------------------------------------
(* "Histogram-based estimator equivalent to full modeled-layer replay"
   (schedulers/cost_aware.py): wherever batching has taken the requests, for every
   batch a scheduler may build there and whatever it knows of the routes, the sum
   of the members' profiles, and any smaller batch's histogram extended by the last
   member, give the quantities a replay of the layer gives; and the profile stored
   from the routes just executed is the one that would be predicted from them. *)
EstimateExact ==
  status = "solved" =>
    /\ \A known \in RouteKnowledge, batch \in LegalActions(at, NextDecisionTime(at, clock)) :
         LET profiles == [r \in batch |-> Profile(known, routes[r], r, at[r])]
             without(r) == [s \in batch \ {r} |-> profiles[s]]
             whole == Histogram(profiles)
         IN  /\ EstimateHistogram(whole) =
                  ReferenceEstimate([r \in batch |-> KnownRoute(known, routes[r], r, at[r])])
             /\ \A r \in batch : Extend(Histogram(without(r)), r, profiles[r]) = whole
    /\ \A r \in {s \in Open(at) : at[s] > 0} :
         ObservedProfile(routes[r][at[r]], r, at[r]) = Profile("previous", routes[r], r, at[r])

(* "Exact offline makespan optimum": no sequence of legal batches completes the
   workload before the oracle's answer. *)
ExactOptimum == status = "solved" /\ at = Goal => makespan <= clock

(* Whatever the arrivals, each recorded time is real: the batches reconstructed
   for a progress are legal and replay to that progress at exactly that time,
   even while labels are being improved, so the answer never fails its replay. *)
DistancesWitnessed ==
  /\ \A p \in DOMAIN distances :
       Replayed(Reconstructed(p)) = [progress |-> p, time |-> distances[p], legal |-> TRUE]
  /\ status # "replay mismatch"
=============================================================================
