# RefineServe in TLA+

RefineServe asks how requests of a mixture-of-experts model should be batched
when they decode one token at a time or refine a block of tokens over several
rounds.  Its core is a discrete-time serving loop: a scheduler forms a batch from
the ready requests, a cost model says how long the batch takes, the workload
commits one iteration of every member, and the loop starts over.  Around it are an
offline oracle that searches for the best schedule, and a hardware part that collects
routes from a model, plans batches for them, measures those batches on four GPUs and judges
what was measured.

This directory holds a TLA+ model of that core, TLC runs on small instances and
TLAPS proofs for every instance.  Paths are relative to the repository.

## Inventory

| Component | Source | State | Operations | Hard behaviour |
|---|---|---|---|---|
| Workload configuration | `src/refineserve/config.py` | none | `validate` | block multiples, non-increasing schedules, rounding of staggered lengths |
| Decode workloads | `models.py`, `workloads/` | per request: iteration, finalized tokens, ready-since, completion time | `ready_requests`, `next_arrival_time`, `work_items`, `finalize` | a block is committed only in the last round of its walk; progress must not depend on batching |
| Schedulers | `schedulers/` | last step overhead, route profiles | `select`, `prepare_requests`, `consume_step_overhead` | starvation, overdue requests, bounded pools, one-shot slots, stale profiles |
| Serving loop | `simulator.py` | clock, loop count, queue delays, batch records | `run` | requests arrive and become overdue while overhead is charged and batches run; idle jumps; safety limit |
| Exact makespan oracle | `global_oracle.py` | labels, predecessors, heap, budget | `solve`, `replay` | label correction, superseded heap entries, arrivals |
| Layer cost model, placement | `cost.py`, `placement.py` | none | `execute_layer` | per-rank loads, messages and the critical path |
| Batch cost estimator | `schedulers/cost_aware.py:330-640` | profile cache, batch histogram | `profile`, `observe_previous_route`, `extend`, `estimate` | incremental histograms equal to replay |
| Synthetic router | `router.py` | memo tables | `route`, `signature` | none: deterministic data |
| Trace bundle, calibration | `trace_bundle.py`, `calibration.py` | none | `load`, `validate`, `fit` | consistency of rows and checksums |
| Metrics, scenarios, policies, CLI, experiments | `metrics.py`, `scenarios.py`, `policies.py`, `cli.py`, `experiments/` | none | summaries and parameter grids | none |
| Coordinated planner | `hardware/coordinated_scheduling.py` | one batch plan per source rank, load table | coordinate descent, swap search, dose ladder | incremental loads, monotone cost, plans stay partitions |
| Expert-parallel benchmarks | `hardware/benchmark_*.py` | four processes, split vectors, buffers | barriers, all-to-all dispatch and combine, count exchange | matching collectives, a failing rank, empty ranks |
| Router trace collectors | `hardware/collect_*.py` | block tokens, masks, observations, artifacts | denoising steps, writing the trace | every mask gone after the last step; requests that leave a microbatch; crashes between artifacts |
| Analysis and preflight | `hardware/analyze_*.py`, `screen_*.py`, `audit_*.py`, `gpu_*.py` | none | which input is accepted, cells, verdicts; statistics, GPU queries | incomplete or mixed directories, regrouped rows, previous plans |

How they interact: the loop *calls* the scheduler with the ready requests and the
clock; the scheduler *reads* the workload (iterations, ready-since) and the router
through its estimator and leaves an overhead that the loop *consumes*; the loop
*calls* the cost model layer by layer, then `finalize` on the workload, then
`prepare_requests` on the scheduler with the routes it observed.  Everything runs in
one thread; what makes it hard is that decisions, arrivals, overhead and completions
happen at different times of one clock, over long sequences of batches, under
policies that may prefer any candidate.  The oracle shares the workload's arithmetic
and the cost model but keeps its own copy of the progress rules
(`_total_steps`, `_request_at`).

What makes each component correct:

- *Workloads*: progress equals the plan (`ProgressAsPlanned`), the work done for a
  request does not depend on its batches (`WorkIndependentOfBatching`).
- *Schedulers*: nobody starves (`BoundedBypass`, `FifoBypass`), expired requests go
  first (`OverdueFirst`), batches are as full as they can be (`BatchFill`), routes
  are observed before they are needed (`ProfilesPrewarmed`).
- *Loop*: waits are bounded (`WaitBound`) and accounted exactly (`DelayAccounted`), it ends
  (`Termination`); seen from outside it is a waiting line (`KeepsTheLine`).
- *Cost model and estimator*: the incremental histograms give what a replay of the layer
  gives (`EstimateExact`).
- *Oracle*: its answer is a minimum (`ExactOptimum`), every label is real
  (`DistancesWitnessed`).
- *Planner*: plans stay partitions (`PlansPartition`), the table is that of the plan
  (`LoadsPatched`), a search ends in a local optimum (`LocalOptimum`), reported costs are
  those of reported plans (`BestBracketed`), the adaptive loop ends (`SearchEnds`), and the rungs of the
  dose ladder are different intermediate plans (`LadderSound`).
- *Expert-parallel benchmark*: ranks that plan on their own agree on every collective
  (`CallsMatch`), reported counts are those received (`CountsMeasured`), tokens come back to
  their slots (`RestoredToOrigin`), timed intervals hold nothing else (`IntervalsClean`), PASS means
  complete and valid rows (`PassedMeansComplete`), and no rank is left waiting (`RaisesTogether`,
  `EveryRankEnds`).
- *Timing controls*: blocks agree although no counts are exchanged (`BlocksAgree`), compared modes
  never overlap (`OneRunAtATime`) and should compute the same (`WorkSymmetric`; `SameWork` says where they do), tokens
  return, from the expert they were sent to (`ReturnedFromExpert`), PASS means complete rows and is accepted by the
  analysis (`PassedMeansComplete`, `PassedIsAccepted`), a verdict rests on complete rows
  (`VerdictOnCompleteRows`), every launch ends (`EveryLaunchEnds`).
- *Trace*: a block ends without masks unless the model sampled the mask token
  (`OnlyMaskTokensStick`), every forward in the manifest follows from the one before it (`ManifestChains`).
- *Readers of the trace*: screened cells hold every request once with its own routes (`CellsExact`),
  a previous plan is that of the preceding step (`PreviousIsPreceding`), a report rests on one
  collection (`ReportSound`).

## Modules

    WorkloadConfig          constants, and what they determine
      DecodeWorkload        requests and their iterations
        BatchSelection      one select call, in steps
          Serving           the loop; Init, Next, Spec, FairSpec
            ServingProperties   invariants, action and liveness properties
              MCServing         values for TLC
              MCFabrics         two instances of the loop, one for each kind of fabric
              ServingProofs     starvation, waits, profiles, batch sizes, progress, the waiting line
      LayerCost             a layer replayed, and estimated from histograms
        GlobalOracle        the search, with a replay of arbitrary batches
          MCGlobalOracle    values for TLC
          OracleProofs      labels are real, optimal for bursts, exact estimates
    WaitingLine             what the loop promises its requests
    BatchPlans              plans, loads and costs of the offline planner
      CoordinatedPlanner    local searches, restarts, the adaptive loop
        DoseLadder          intermediate plans between FIFO and the best one
          MCDoseLadder      the same for the ladder, with
          PlannerProofs     partitions, loads, reported costs, local optima, the ladder
        MCPlanner           route counts for TLC
      TokenExchange         packing, splits and the way back of one batch and layer
        TokenProofs         what packing, cutting and joining do; used with the next two
        EPReplay            the ranks of the contract benchmark and their collectives
          MCEPReplay        routes and arms for TLC
          EPReplayProofs    lockstep of the ranks and what follows; the way of the tokens
        TimingGate          runs, routes and stages of the timing gate
          ProxyValidation   the same for the proxy validation
          PositionParallel  the same for the position-parallel prototype
            ControlLaunches launches of the three, their failures and files
              ReviewedLaunches      with the analyses that judge the files
                LaunchProperties    invariants and liveness
                  MCControls        command lines for TLC
                  LaunchProofs      lockstep, complete files, verdicts, tokens and work
    SortedSets              sorted() of a set, as a function
      DenoisingTrace        the denoising collector and its artifacts
        RouteAnalysis       both, and the two readers of a trace
          MCRouteAnalysis   widths for TLC
          TraceProofs       the collector, the manifest and its readers
    ExpertPlacement         experts on ranks, and their renumbering
    ProofBasics             lemmas the proofs share: numbers, recursion, finite sums, sorted sets

**WorkloadConfig, DecodeWorkload.**  A request is its id.  `iteration`, `finalized`,
`readySince` and `completedAt` are the fields of `Request` that change; `Arrival`,
`OutputOf` and `WidthAt` are those that do not.  Work items are counted, not listed:
a member contributes `ActivePositions` positions.  Times are whole units.

**BatchSelection.**  `selected` and `remaining` are the locals of `select`.  FIFO and
the one-shot policy answer in one step; the greedy policies take one step per round
(`PickOverdue`, `PickMostSimilar`, `PickOnly`, `PickCheapest`), because the rounds read
what earlier rounds wrote.  A score is route data: the model lets any candidate that
the policy scores win, so what holds here holds for every router, cost model and
history.  Which candidates are scored, which are taken unscored, and how many
evaluations are charged is kept exactly.  `profile` records for each request how the
cached profile of its current iteration came about; entries of earlier iterations can
never be read again and are dropped.

**Serving.**  One action per stretch of `run()` between two points where something
else decides: `AwaitArrival`, `CallScheduler`, `ExtendBatch`, `CloseBatch`, `StartBatch`,
`ExecuteBatch`, `Finish`, and `ExceedLimit` for the loop safety limit (`LoopLimit` stands
for the 10,000,000 of the code).  The execution time of a batch is any member of
`BatchTimes`; it is positive because every layer launches at least one expert.
`decidedAt`, `readyAt`, `bypassed` and `served` are history variables.

**WaitingLine.**  The abstract service: requests need a number of rounds, stand in one
line, and everybody admitted who is not served moves up.  The mapping takes a request's
place to be the number of unfinished requests preferred to it.

**LayerCost.**  `ExecuteLayer` is the replay of one layer by `cost.py`: every assignment of a
token to an expert, the tokens of each expert, what crosses between ranks and in how many messages,
the time of each rank and the critical one.  `Profile`, `Histogram`, `Extend` and
`EstimateHistogram` are the estimator of `cost_aware.py`, which computes the same from counts
and adds one member at a time; `ObservedProfile` is what it caches after a batch.  Times are
integers, so a division by a bandwidth is a product with its inverse.

**GlobalOracle.**  `distances`, `predecessors` and `frontier` are the dictionaries and
the heap of `solve`; a pop that is stale, over budget, the goal or to be expanded is
an action each.  The router's routes are the input `routes`, chosen once from
`RouteTables`.  A batch costs what `ExecuteLayer` charges.  After the answer,
`ReplayBatch` replays legal batches of anybody's choice: the oracle's claim is that no
such replay ends earlier, and wherever such a replay stands the estimator is compared with
the layer.  Two heap entries for the same progress and time cannot exist
(a push needs a strictly smaller time), so a set models the heap.

**BatchPlans, CoordinatedPlanner.**  `plan` is the list of batches of every source rank;
`counts` says how many assignments each request sends to each destination in each layer,
already added up over the experts of a rank.  The code keeps `loads` and `cost` in step
with `plan` by patching them: `Replaced` takes the old contribution of a source out and
puts the new one in, `SwapLoads` and `SwapCost` touch two batches only.  The model
patches them the same way, and `LoadsPatched` compares with a recomputation.  One action
is one source of one sweep (`Descend`, by `DescendByChoice` or `DescendBySwap`, as the number of batches
and requests decides), with all its trials; ties fall to the first trial in the order of
the code's loops.  `DrawPlan` draws a random start.  `SearchMore` is the benchmark's
`coordinated_plan_adaptive`: a search whose last two restarts improved is run again with
twice as many.  Every search uses the same seed, so the plans drawn so far are kept.
The planner is the part of the benchmark that runs on every rank before anything is
measured.

**DoseLadder.**  `pool` is the dictionary of candidates in insertion order.  A mask is the set of
sources that get the best plan, the others keep FIFO, and `MasksInOrder` lists these sets in the order in which
the code counts through its bit masks; `SamplePlan` adds a random plan.  Doses are compared as integers,
in quarters of the reduction.  When a costlier and a cheaper candidate are equally far
from the target, floating-point quotients decide, so either may win.

**TokenExchange, EPReplay.**  The contract benchmark (`hardware/benchmark_contract_ep4.py`)
is one program run by every rank; rank 1 here is rank 0 there.  A rank is in a collective
(`call[r]`) or computes; `at[r]` names the collective it is in or came out of last, and one
action is everything from the end of one collective to the call of the next.  A collective
ends when every rank is in one of the same kind (`CompleteBarrier`, `CompleteAllGather`,
`CompleteAllToAll`), the last one only if every block is as long as its receiver expects:
`torch.distributed` pairs calls by their order and neither side can check the other.
Host and stream of a rank are taken in step, because a rank that has enqueued a collective
can do nothing that another rank sees before the collective ends.  Every rank answers for
itself with its scheduler and recomputes the answers of the others (`GlobalBatches`), derives
splits and expert counts from them (`ReplayMetadata`), and confirms them in the count exchange.
What a scheduler may answer is exact in its shape (`Proposals`) and free in its scores.  A
hidden state is a term: the rank and request it started from and, layer by layer, the experts it
went through (`Through`, `MeanOver`), so a token that is lost, doubled or swapped shows.
`Fail` is a device or I/O error of one rank; `Terminate` is `torchrun`, which ends
the other workers.  One launch and one cell of the matrix (seed, mode, positions) are modelled;
cells only repeat the loop with other routes.

**TimingGate, ProxyValidation, PositionParallel.**  What one launch of each program does, as
functions of its command line: the runs in the order of its loops, the routes and splits of a
batch, what a rank computes on, and the stage that follows each stage.

**ControlLaunches.**  The ranks of a launch.  An action is what a rank does up to its next
collective or its next change of a file; `Complete` ends a collective that every rank has joined, if every
block is as long as its receiver expects.  `inbox` holds what the last data collective delivered,
so a token carries the rank, slot and expert it was meant for.  `RaiseAfterRun` is the finiteness
check, and the maximum over no tokens of the prototype; `RaiseUnroutable` its duplicate-route
check.  A rank writes its rows in two steps (`OpenFile` truncates, `CloseFile` completes), rank 1
(rank 0 of the code) then the metadata.  `Terminate` is `torchrun`; `Relaunch` starts the program again in
the same directory, which the programs allow and never clean.

**ReviewedLaunches.**  `Accepts` is the conjunction of the checks of the two analyses
(`Measured` are the positions in a list of rows that belong to the measured repetitions), `Statuses`
the verdicts they may reach for any sign of the measured intervals.

**DenoisingTrace.**  A row of a microbatch is the number of its masks.  A forward takes the rows
that still have some (`Denoise`), and each row loses all its confident positions or else the
scheduled number (`Transferred`); how many are confident is free.  For requests in `Erratic` the
model may sample the mask token, which leaves a position masked.  The program raises when a block
ends with masks (`RaiseLeftMasks`).  `files` says whose each of the seven artifacts is; `Crash` may
cut the one that is being written.

**RouteAnalysis, ExpertPlacement.**  The screen goes through the manifest by requests: `Gathered` are the
manifest rows and offsets that its dictionary collects for a segment, a block and a step, `Sorted` puts them in the order of their
requests, and `CompleteCells` and `CellCounts` are what becomes of them in the fixed pool;
`PreviousRoutes` the plans the native analysis evaluates, `NativeAccepts` its checks of the
checksums, `PlannerIds` the renumbering by which the planner sees arbitrary ownership as contiguous.

## Runs

| Run | Instance | Shows |
|---|---|---|
| `serving_greedy` | 5 requests, pool 3, shortlist 2, batches of 2, evaluations charged, a deadline of 7 that passes while batches run | `BoundedBypass`, `WaitBound`, `OverdueFirst`, `ProfilesPrewarmed` for the greedy cost-aware policy |
| `serving_oneshot` | 5 requests, pool 1, batches of 3, short deadline, a slow and a fast fabric | the selected online policy, which ranks by its proxy on the slow fabric and falls back to FIFO on the fast one: `BatchFill` with a pool smaller than the batch, the sharper bound of FIFO (`FifoBypass`), the waiting line (`KeepsTheLine`) and `Termination` |
| `serving_accounting` | block refinement, lengths 2, 4, 6, arrivals 7 apart, limit 12 | `DelayAccounted`, `ProgressAsPlanned`, `WorkIndependentOfBatching` under the locality policy, with idle jumps and runs that hit the limit |
| `oracle_search` | 3 requests of one or two blocks of 2, arrivals 3 apart, 2 GPUs, 4 experts, 64 route tables, budget 48 | `DistancesWitnessed`; `ExactOptimum` for these tables; `EstimateExact` along every sequence of batches |
| `oracle_optimum` | 3 requests, arrivals 4 apart, one GPU, one route table | **violated**: with arrivals the answer is not the minimum |
| `planner_restarts` | 2 ranks, 4 requests in two batches, 3 restarts that may grow to 4, 132 route tables | the exhaustive descent and the adaptive loop: `LocalOptimum`, `BestBracketed`, `SearchEnds` |
| `ladder_rungs` | 2 ranks, 6 requests in three batches, 2048 route tables, one random sample | the descent by exchanges: `PlansPartition`, `LoadsPatched`; the ladder: `LadderSound` |
| `ladder_arms` | 2 ranks, 3 requests in batches of one, one route table | **violated**: two arms of the benchmark can replay one plan |
| `ep_runs` | 3 ranks of 2 experts, top-3, 2 requests in batches of one, 2 layers, a batch that leaves a rank empty in the second, 2 arms in two counterbalanced repetitions, the dose arm with and without a plan, rank 2 may fail anywhere | `CallsMatch`, `CountsMeasured`, `RestoredToOrigin`, `IntervalsClean`, `RaisesTogether`, `PassedMeansComplete`, `EveryRankEnds` |
| `controls_launches` | 4 ranks, 8 requests, batches of 4; the gate with one and with two positions, one and two repetitions and up to two launches, the proxy validation and the prototype with one position; rank 2 may raise | `BlocksAgree`, `OneRunAtATime`, `SameWork`, `ReturnedFromExpert`, `PassedMeansComplete`, `PassedIsAccepted`, `VerdictOnCompleteRows`, `EveryLaunchEnds` |
| `controls_symmetry` | the gate alone, with one position, one repetition and one launch | **violated** (`WorkSymmetric`): the communicating mode computes other work than the controls |
| `route_trace` | 4 requests in microbatches of 2, 2 blocks of 3 positions in 2 steps, 2 ablation widths, one request whose model may sample the mask token, artifacts of an earlier collection | `OnlyMaskTokensStick`, `ManifestChains`, `CellsExact`, `PreviousIsPreceding`, `ReportSound` |

*Bounds.*  Five requests and batches of two give a queue of three behind a batch, as
long as the pool and longer than the shortlist, so that a request can be passed over in several
batches in a row.  `MaxWait` is chosen so that requests become overdue during a batch,
while overhead is charged, and several at once.  `serving_oneshot` instantiates the loop twice, once for each answer of the activation thresholds, and
decides in the initial state which one runs; FIFO is what the policy does behind a threshold that is not met, as well as a policy
of its own, with the same action.  Staggered lengths over three requests
take all three levels of the pattern.  Three requests are the smallest instance where
an oracle label can be reached in two ways with different sets of arrivals.  All times
are small enough for TLC to exhaust every interleaving of arrivals and completions;
nothing else is bounded, because the workload itself is finite.

In `oracle_search` a request has one or two blocks, so widths shrink within a block and grow at the next;
two GPUs and four experts give tokens that stay and tokens that cross.  The budget stops the search
for half of the tables, so both ends of `solve` are reached.

The planner's runs take every route table of their size, up to one symmetry: exchanging two
destinations of a layer everywhere changes no cost, so the first request of the first
source may be taken to send most of its assignments to the first destination.  Over all
tables a start other than FIFO shows nothing new to a single descent: renumbering the
requests of a source turns any plan into FIFO and one table into another.  So `ladder_rungs`
starts one descent, and `planner_restarts`, which needs starts that end differently, adds to
the tables with one assignment per request four with two (`HardTables`): two of those
on which FIFO is a local optimum but not the best plan, and two on which the order of the halves
matters.  `RandomOrders` limits what the random generator may return to two permutations of
a source; the proofs hold for any set of them.  The limit of 4 restarts is not 3 times a power of two, so the
doubling is clipped.

In `ep_runs` a token's three experts lie on three ranks, or on two with the two assignments of one
of them next to each other or apart, depending on source, request and layer, so that blocks are empty, single and
double and the order of packing shows.  In the second layer the first requests of all sources go the same way, to the
first two ranks; a batch of them leaves the third one nothing to compute, and whether there is such a batch
depends on what the schedulers answer.  Four runs of two arms let a raise happen first, between
others, and not at all.  Several positions to a token occur in `controls_launches`.

In `controls_launches` the gate has two positions and one repetition, so that its batches visit each expert equally
and its analysis cannot take a spread; one position and two repetitions, so that its parts do not fit its routes and the
modes rotate; or no repetition, which it refuses.  `controls_symmetry` takes the sizes for which the code's metadata
claim symmetric work although the parts do not fit.  The prototype runs with two experts a token, where hot ranks leave a rank empty, with
four, and with eight, where routes repeat.  The files of all programs are written alike, so only the
gate is launched twice.  An unfinished file lacks its last row; nobody launches again after an
analysis.

In `route_trace` two microbatches finish their blocks at different steps, three positions in two steps
take an uneven schedule, and two blocks let a step number occur twice.  An earlier collection left
nothing, the arrays and the first table (five artifacts), or all seven.

*Deadlock* is checked in every run but three; a finished or failed program stutters there.
A `GlobalOracle` search that emptied its frontier before the goal would deadlock.  In `ep_runs` the ranks, and in
`controls_launches` and `controls_symmetry` the launches, end and nothing follows; there a rank that hangs violates
`EveryRankEnds` or `EveryLaunchEnds`.

*Fairness* is `WF_vars(Next)` on the loop: `run()` is one sequential loop without
waiting on anybody, so it takes its next step as long as it has one.  It is assumed
only for `Termination` and `KeepsTheLine`.  The planner's `WF_plannerVars(Plan)` is assumed
for `SearchEnds` for the same reason: it is a loop that computes.  `EveryRankEnds` assumes that each
rank computes on (`Step(r)`), that a collective all ranks have joined ends (`Complete`), and
that the launcher ends the workers of a failed one (`Terminate`): the runbook starts the
benchmark with `torchrun` (`docs/m2_ep4_rental_runbook.md:143`).  `EveryLaunchEnds` assumes the same
of the timing controls, which are started the same way, and nothing of `Relaunch`.  Nothing is assumed about a
collective that somebody has not joined; a rank that waits for a dead one is ended by the
launcher only.

*Mutants.*  Definitions preceded by a comment starting with "MUTANT" are wrong variants of
the definition that follows them.  They are used by nothing in the model; substituting
one for its definition makes a named property fail, which shows that the property reads
that part of the code.  PROJECT.json lists the pairs.

### Findings

**The oracle is not exact with arrivals** (`oracle_optimum`).

`ExactGlobalMakespanOracle` documents itself as an "Exact offline makespan optimum"
(`src/refineserve/global_oracle.py:21`) and a "Dijkstra search over all legal batch
sequences" (`:31`).  It keeps the earliest time for each progress.  When all requests are
present no request can arrive later and the earliest label is the best.  With staggered arrivals a label reached later
may find more requests ready, share their experts and finish earlier, and no action lets the
search wait, so the earlier label must not dominate.  The counterexample has three requests
that arrive 0, 4 and 8: the oracle answers 16, the batches
`((0),(0),(0),(1),(2),(1,2),(1,2))` replay to 15.  The Python classes give these two numbers
on the same routes and costs.  `tests/test_global_oracle.py:43` asserts dominance over
FIFO on an instance whose arrivals are 0.01 ms apart, where it happens to hold.

**Two arms of the benchmark can be one plan** (`ladder_arms`).  The design lists FIFO, three
partial doses and the best plan as arms and rules duplicates out
(`docs/external_review_response_v3.md:117-126`).  `coordinated_dose_ladder` only keeps a plan
from appearing twice *inside* the ladder: FIFO is itself a candidate (mask 0), and a target
below one falls back to the best plan when no intermediate candidate is left
(`hardware/coordinated_scheduling.py:504-511`).  The benchmark keeps every rung below one
next to both, and its check (`hardware/benchmark_contract_ep4.py:449`) only notices a rung
that is missing.  The run has two ranks whose first request goes to the first rank and whose other two go to the
second.  In batches of one, FIFO costs 6, the best plan 4 and no plan 5: the rung for a quarter is the FIFO plan,
a later one below one is the best plan.

**The modes of the timing gate do not do the same work** (`controls_symmetry`).  The gate cuts the packed
assignments into equal parts (`hardware/benchmark_timing_gate_ep4.py:108`), while its routes take the experts in turn.
With the default 16 experts and batches of four requests, an even number of positions visits every expert equally.  For
one position, which the default `--active-positions 1 16 64` includes, the eight assignments visit the eight
experts of the first two ranks only: a controlled run computes four experts with two tokens each, a
communicating one two experts with four tokens each, on tokens meant for experts of another rank.  The metadata state
`non_collective_work_symmetric_across_modes` (`:372`, `docs/external_review_response_v3.md:34`) for all positions, and
the document lists expert compute among the work that all modes do alike (`:14-22`).  `SameWork` in
`controls_launches` says what holds instead: the work is the same exactly where a batch visits all experts a
whole number of times, and always in the proxy validation.

### Observations

Facts met while modelling that no run states as a finding; the runs avoid or allow them as said.

- *One repetition.*  The gate accepts `--repetitions 1` (`hardware/benchmark_timing_gate_ep4.py:72`), measures and passes.  Its
  analysis takes the standard deviation over the repetitions, which for one value is not a number, and
  raises when it converts that to an integer (`hardware/analyze_timing_gate_ep4.py:177-186`).
  `PassedIsAccepted` makes this the only exception.
- *Stale metadata.*  A launch does not remove what an earlier one left, and the timing analysis checks
  neither that a cell has a row of every rank nor the number of repetitions.  A second launch
  that fails while it writes leaves rows that the metadata of the first vouches for, and the analysis may
  accept them.  `VerdictOnCompleteRows` therefore speaks of first launches.
- *Widths outside the screening profile.*  The inner join of the timing analysis drops widths the profile
  lacks; without a common width the status is `PASS-UNPOWERED`.
- The screen never reads the roles of a trace and does not notice that they are another collection's.
- The check of `denoising_results` for remaining masks cannot fail after that of each block, and the
  sort of a cell's requests in the screen finds them sorted: neither is observable in the model.

## Proofs

`ServingProofs` proves for every configuration that satisfies the assumptions of
`WorkloadConfig`, `BatchSelection` and `Serving` - any number of requests, any policy, any
pool, any execution times:

- `TypeCorrect`: `Spec => []TypeOK`,
- `NobodyStarves`: `Spec => []BoundedBypass`,
- `ExpiredFirst`: `Spec => []OverdueFirst`.

They follow from `InductiveInvariant`, `Spec => []Inductive`, where `Inductive` adds three
parts to the properties.  `ClockInv`: nobody who has arrived became ready in the future.
It is needed because a served request must land *behind* everybody who was ready when it
was chosen: its new ready-since is the end of the batch.  `SelectionInv`: batch and rest
partition the requests that were ready, and some member is preferred to everybody left
out.  `OverdueInv`: while the batch grows, its members are preferred to every overdue
request left out.  The argument for `BoundedBypass`: when a batch leaves `r` out, the
member preferred to `r` moves behind it, nobody moves ahead of it (later arrivals have a
later ready-since), so the unfinished requests ahead of `r` become fewer while the count of
bypasses grows by one; their sum never exceeds `NumRequests - 1`.  The first lemmas of the module prove
what the choice of the oldest requests returns (existence and uniqueness by minimality in
a finite set, and that a batch with room holds everything).

Its second part adds, from the same invariant:

- `WaitsAddUp`: `Spec => []DelayAccounted`.  The inductive form (`DelayInv`) says up to when a
  request is accounted for: to the clock once its batch has started, else to the moment it became ready.
- `WaitsAreBounded`: `Spec => []WaitBound`, if no batch takes longer than some longest one
  (`TimesBounded`, which a finite workload gives).  `Paid` keeps a receipt: whatever a request has waited beyond
  `MaxWait` is covered by full batches, and for each of them `MaxBatchSize` of the requests ahead of it have gone.
  `ChargeInv` bounds what a selection charges for its evaluations.
- `SelectionPredictsNothing`: `Spec => []ProfilesPrewarmed`.  `PolicyInv` is needed because the rounds of
  a selection look profiles up and belong to greedy policies only.
- `FifoPaysInBatches`: `Spec => []FifoBypass`.  When a batch leaves `r` out, `FifoInv` says that the
  whole batch was ahead of it; all of them move behind (`FifoBatchMovesAll`).
- `BatchesFill`: `Spec => []BatchFill`, from the least size a policy guarantees (`FewestOf`).
- `ProgressFollowsPlan`: `Spec => []ProgressAsPlanned`.  The oracle computes the tokens after `i`
  iterations by a quotient; the loop commits a block in the last round of each walk through the schedule.  The lemmas
  on quotients show that both count the same walks (`NextQuotient`, `WholeBlocks`, `Plan`).
- `WorkFollowsProgress`: `Spec => []WorkIndependentOfBatching`.  The work of a request is a recursive sum over its
  iterations; `RunningSum` says that it is what the batches added one at a time.
- `LoopKeepsTheLine`: `Spec => Line!Spec`, under the mapping of `ServingProperties`: a request's
  place is the number of unfinished requests preferred to it.  `CallScheduler` and the steps that decide
  map to `Admit` or a stutter (`DecisionAdmits`), `ExecuteBatch` to `Serve` (`ExecutionServes`), where the
  member preferred to everybody left out moves those up.  Progress as planned is needed, because the line counts
  the rounds left.  The fairness of the line is checked by TLC (`KeepsTheLine`).

`OracleProofs` proves, for any workload, routes and costs:

- `LabelsAreReal`: `Spec => []DistancesWitnessed`, with any arrivals: replaying the batches that the
  predecessors record from the start gives the label.  The inductive form (`Traced`) needs that predecessors
  are settled.  An expansion only lowers labels of progress that is not settled, so the ways that other labels
  were reached by do not change under them.
- `OptimalForBursts`: `Spec => []ExactOptimum` if `ArrivalInterval = 0`.  With later arrivals the property
  fails (see Findings), so the assumption is needed: without arrivals what may be batched depends on the
  progress alone, and an earlier label is never worse.  The invariant is that of a label-setting search
  (`Searched`): a label without its entry in the frontier is no larger than any entry there, and every batch that
  leads on from it has been tried.  A batch takes positive time (`LayerTakesTime`),
  which makes the smallest entry final.  `ReplayBehind` then compares a replay with the labels step by step.
- `ObservationIsHistory`: for any widths, the profile cached from the routes a batch
  just executed is the one the predictor would compute from the history, whether the next
  iteration is narrower or wider.
- `EstimatesAreExact`: `Spec => []EstimateExact`.  The invariant is only that a replay stays within the workload; the
  work is in `HistogramReplays`.  The layer counts assignments by expert and by pair of GPUs, the histogram adds up the
  counts of the members; both count the same set by classes (`CountByClasses`, `ExpertTotals`, `PairTotals`).
  The layer only has entries for what occurs and the histogram has zeros for the rest (`SumSkipsZeros`);
  messages and tokens of the pairs of a GPU may be added before their time is computed because the time
  is linear in both and nothing goes from a GPU to itself (`CommunicationAdds`, `TouchingAdds`).

`PlannerProofs` proves, for any number of ranks, requests, batches, layers, sweeps and
restarts and for any route counts:

- `PlansStayValid`: `Spec => []PlansPartition`, which is inductive together with the types (`PlannerTypes`).
  Its core is that cutting an injective order into batches puts different slots at different positions
  (`PositionsDiffer`), and that exchanging two slots of an arrangement is an arrangement again (`ExchangeArranged`).
- `LoadsStayPatched`: `Spec => []LoadsPatched`.  Every cell of the table is a sum over the sources
  (`CombinedCell`); replacing one source changes one summand, exchanging two requests the summands of two cells,
  and the cost is a sum over batches of which one or two change (`SumChanged`, `PairChanged`).
- `ReportsAreHonest`: `Spec => []BestBracketed`.  Above: FIFO is the first candidate and a descent never
  makes a plan dearer (`NoWorse`).  Below: in a layer every plan receives the same at each destination in total
  (`SourceTotal`, because slots and requests are in bijection), so the sum of its maxima over the batches
  is at least the largest total and at least the average (`LayerBounded`).
- `DescentsEndOptimal`: `Spec => []LocalOptimum`.  The property speaks of every arrangement of a source; the code
  tries sorted halves and exchanges of pairs only.  A cost does not depend on the order inside a batch
  (`SameBatchesSameCost`), so the trials stand for all neighbours (`ChoicesCover`, `SwapsCover`); a sweep
  that kept every source ends where it began (`SweepKept`), so each source is optimal against the
  final plan (`KeptIsOptimal`).

- `LaddersAreSound`: `LadderSpec => []LadderSound`, for any number of random plans and any that the generator draws.
  `LadderInv` (`Built`) says of the pool that it holds the best plan and no plan twice, at costs between those of the best
  plan and FIFO; of the ladder that its rungs are the used candidates, and that once the last target is met one of them
  costs as little as the best plan.  That the pool holds the best plan is the long part: `MasksInOrder` lists every set of
  sources (`MasksCounted`), so the full mask is among them, and no later candidate replaces an earlier one
  (`AdmittedKeeps`).  The last target may take any candidate, also one that is on the ladder already, in which case it adds no
  rung.  `RecursionExists` gives the fold over the masks as a function that can be reasoned about.

`EPReplayProofs` proves, for any number of ranks, requests, layers, arms and repetitions, any
routes, any answers of the schedulers, and whichever ranks fail:

- `PassIsComplete`: `Spec => []PassedMeansComplete`,
- `AllRaiseTogether`: `Spec => []RaisesTogether`,
- `IntervalsStayClean`: `Spec => []IntervalsClean`,
- `CollectivesFit`: `Spec => []CallsMatch`,
- `CountsAreMeasured`: `Spec => []CountsMeasured`,
- `TokensComeBack`: `Spec => []RestoredToOrigin`.

All rest on `Lockstep`: no rank is more than one collective ahead of another.
`Following` is the order of the collectives that the nested loops produce and `Came` the last
one a computing rank was in; ranks that wait are in the same collective, ranks that compute came out of
the same one, and a rank that waits is in the one that follows those.  None of the properties is
inductive alone, because each speaks of ranks at different places.  `Exchanged` and `Recorded`
are needed for the `valid` flag of a row: what a rank expects from another is derived from the same
batches as what that one announces (`PlansAgree`), so the comparison never fails.  A raise
is common because the ranks in the run must have found the plan that is missing, and every rank reads
the same plans.  For the lengths in `CollectivesFit` every pending call is tied to the place of its
rank (`Posted`): a block is as long as its sender's split (`Blocks` cuts where the running sum says), and
sender and receiver count the same routes.  The proof has one lemma per action; `JoinKeeps` and `MoveKeeps`
hold what the actions that enter a collective and those that do not have in common.

For the tokens, lockstep is not enough: the contents of every buffer must be tied to the place of its rank.  `Carried`
says for each place what a pending call sends, what a finished one has delivered, what a rank keeps in between and
which outputs it has collected, all in terms of the routes and the batches alone (`Journey`, the layers a token has
gone through).  It holds for waiting and for computing ranks, so an exchange completes with what all senders posted.
The arithmetic under it, in `TokenProofs`, is about sequences cut and joined: where the parts of a flattened sequence begin
(`FlattenedAt`, `BeginsCover`, `BeginsApart`), that cutting undoes joining (`CutFlat`), that the stable sort lists
every assignment once (`SentToLists`, `PackOrderLists`), hence that unpacking what comes back in the same order is
the inverse of packing (`RestoredParcels`), and that assignments number the slots and their experts
(`AssignmentSlots`).  The expert ids travel in the same parcels as the tokens (`ArrivalsAt`), so the experts answer the right token
(`ExpertsAnswer`); the measured counts follow from a bijection between arrived positions and assignments (`ArrivalsCount`).

`LaunchProofs` proves, for every command line of the three timing controls, any number of launches and
whichever ranks raise:

- `RunsNeverOverlap`: `ReviewedSpec => []OneRunAtATime`,
- `BlocksFit`: `ReviewedSpec => []BlocksAgree`,
- `PassIsComplete`: `ReviewedSpec => []PassedMeansComplete`,
- `VerdictsRestOnAllRows`: `ReviewedSpec => []VerdictOnCompleteRows`,
- `PassIsAccepted`: `ReviewedSpec => []PassedIsAccepted`,
- `TokensReturn`: `ReviewedSpec => []ReturnedFromExpert`,
- `WorkIsSymmetric`: `ReviewedSpec => []SameWork`.

The last two cover every width of the gate.  `Fits(r)` says whether the parts of rank `r`'s run fit its routes; where they do
not, a token still comes back to the rank and slot it left, but through another expert, and the
work is proved to differ.

Here ranks take different ways between two collectives (only some write files, or metadata), so
lockstep is stated through the next meeting: `Heading` is the collective a rank is in or, while it computes or
writes, the one it meets the others in next, and all ranks have the same (`Lockstep`).  `Recorded`, `Exchanged`, `Kept`
and `Signed` tie the number of kept rows, the buffers, the files and the metadata to that place.  Rank 1
writes the metadata after it has met the others behind their files, or has collected their rows, so the rows are
complete by then (`SignedIsComplete`).  Metadata of an earlier launch vouch for nothing, which is why
`VerdictsRestOnAllRows` speaks of first launches.

`PassIsAccepted` goes from what the producer writes to what the consumer asks.  The analyses look for duplicate, missing and
unpaired rows; the launch only promises that the file of each rank holds its runs in order.  The lemmas give the number and
place of each run of the nested loops - positions, repetitions, and modes or arms rotated by the repetition (`GateRunsAre`,
`ProxyRunsAre`, `RotatedModes`, `RotatedArms`) - and show that what is measured has every key once and every partner
(`GateRowsAccepted`, `ProxyRowsAccepted`), and that the gate's rows have a spread exactly when it has more than one
repetition.  The files behind readable metadata of this launch are all its own (`Signed`), so what
earlier launches left does not matter.

For the tokens, `SplitsAgree` shows that where the parts fit, the splits that the programs use are those of the routes: for the
gate, which divides by the number of ranks whatever the routes are, because whole rounds through the experts reach each as
often (`TurnsCount`, `GateSplitsAre`); for the proxy validation, because both sides read one table; for the prototype, because
the announced counts are in `Exchanged`.  `Carried` then says what a rank has received before the second all-to-all of a
layer (`inbox`: the tokens for its experts, in the order of the ranks) and before the third (`tokens`, and in
`inbox` the numbers of their experts in the same order).  A collective that completes finds all ranks in the same run, batch
and layer (`AllMeet`), and each rank is delivered the parts for it (`FourDelivered`); after the third every token is
back where its rank packed it, with the expert it was meant for (`LastDelivery`).  The work of a communicating rank is
counted in what it received (`NumbersCount`); that of a controlled rank of the gate in its own routes, by the same rounds
(`GateWork`), and of the proxy validation in a list made beforehand, which is the same sequence (`ProxyLocalsArrive`).

Where the parts do not fit, `Dealt` says the same of the gate by places instead of experts: rank `d` holds the `d`-th part of each
rank's packed list, in the order of the ranks (`HasTokens`, `HasNumbers`).  Four equal blocks are joined and cut at the same
places (`EqualBlocks`, `JoinedAt`), so the third all-to-all undoes the first.  All ranks pack the same list of expert
numbers, so a communicating rank gives an expert a multiple of four tokens, four times what its own part holds
(`FourTimes`).  A controlled rank takes turns; if the two
agreed, the first and the last expert would have multiples of four there too, so no turn of a round would be left
and the rounds would be whole (`FourTurns`, `UnevenWork`).

`TraceProofs` proves, for any number of segments, requests, blocks and steps:

- `CollectorTypeOK`: `Spec => []TypeOK`,
- `BlocksFinish`: `Spec => []OnlyMaskTokensStick`,
- `NoRaise`: if no model samples the mask token, a collection never raises on left masks,
- `ManifestIsChained`: `AnalysisSpec => []ManifestChains`,
- `PreviousIsImmediate`: `AnalysisSpec => []PreviousIsPreceding`,
- `ReportsAreSound`: `AnalysisSpec => []ReportSound`,
- `CellsAreExact`: `AnalysisSpec => []CellsExact`, if `ExpectedRequests = NumRequests`,
- `PlannerIdsRenumber`: renumbering balanced ownership for the planner is injective and keeps ranks,
- `MappingsBalanced`: contiguous and round-robin ownership are balanced whenever the ranks divide the experts.

`CollectorInv` adds to the types that microbatches are whole (`WholeMicrobatches`: the last one must not
reach beyond the segment) and that a row never has more masks than the rest of the schedule will transfer
(`OnSchedule`), which is what makes the block end without masks: `Scheduled` starts at the block width,
loses in each step at most what is transferred, and ends at zero.  `MasksObserved` (part of `ManifestInv`): a row that still has masks took part in the
preceding step, and the manifest holds what that left; the next entry starts from it, whichever other rows have
dropped out.  `CellsAreExact` rests on `RowsInv`: every manifest row names its own requests, each once, with the routes of its segment, block and
step; the loops have left every row behind (`RowsBehind`), so no request makes two forwards in one step (`OneForward`).
A cell the screen keeps then has as many different requests as the segment, which are all of them, and sorting puts
request `s * requests_per_rank + l` where the screen looks for it.  The screen is told the number of requests on its
command line (`--world-size`, `--requests-per-rank`); with another number it may raise, so the hypothesis is needed.
`FilesInOrder` follows the order in which the artifacts are written: whatever precedes a file of the
running collection belongs to it too, and nothing unfinished precedes one of the earlier collection, so the files whose
checksums the report compares decide about all.

`ProofBasics` holds what these proofs share: quotients and products, finite sums (a sum over a union, a bijection, classes,
a table by rows or columns, with one summand changed), running sums given by a recursive function, and what
sorting a finite set returns.  The library's induction theorems take an operator, which the provers cannot
instantiate; `SetInduction` and `SubsetInduction` state induction about a set instead (of numbers, of finite subsets), and
every fact about data of unbounded size rests on them.

*Assumptions on the constants.*  Besides types: a gate or a prototype measures numbers of positions greater than zero, the proxy
validation a natural number of them, and the prototype a natural number of experts per token (`LaunchAssumption`; tensors
of a negative size cannot be made); no list of rows equals the mark of a missing file (`AbsentAssumption`).  TLC evaluates
all of them for the values of each run.

Only model-checked:

- liveness (`Termination`, `SearchEnds`, `EveryRankEnds`, `EveryLaunchEnds`, and the fairness that `KeepsTheLine` adds to
  `LoopKeepsTheLine`), which the provers do not handle;
- `ExactOptimum` with arrivals, `ArmsDistinct` and `WorkSymmetric`, which do not hold, and whose runs are counterexamples.

Every safety property of a passing run is stated by a theorem.  `BatchFill` and `FifoBypass` are proved as
`ServingProperties` defines them, for every value of the constants; `serving_oneshot` checks them in its two instances of that
module.

## Not modelled

- Scores, similarities and estimates: free choices among the scored candidates.
- Floating point: times are integers.  The epsilons of the oracle (`1e-12`, `1e-9`) only
  absorb rounding.
- Wall-clock measurements of the scheduler and all statistics of the summary.
- The entries of the profile cache other than the one of a request's current iteration.
- Negative arrival intervals, which `validate` does not reject.
- The checks of `run()` that only fire on a broken scheduler or cost model
  (`simulator.py:189`, `:193`, `:260`): the first two hold by `SelectionInv`.
- The cost model beyond one layer, its calibration curves, and a congestion factor other than zero.
- Of the contract benchmark: more than one active position (further positions are further tokens of the
  same batch), a second launch, non-finite values; of all benchmarks: timings and profiles.
- Of the timing controls: rows missing from an unfinished file other than the last one.
- Of the collector: the values of tokens, confidences and routes; resuming, which it does not support.
- Statistics of the analyses: a measured interval has either sign.
- The components whose status in PROJECT.json is `not_modelled`, for the reasons given there.

## Plan

1. *Done*: workloads, schedulers, loop, properties, abstract line; all safety properties proved; the loop
   implements the line, proved.
2. *Done*: layer cost, histogram estimates, the oracle on top of them; labels, the optimum of
   bursts and the estimates proved.
3. *Done*: the coordinated planner and the dose ladder; the properties of both proved.
4. *Done*: ranks and collectives of the contract benchmark; lockstep and what follows from it, proved.
5. *Done*: the timing gate, the proxy validation and the prototype, their launches, files and analyses;
   lockstep, complete and accepted files, tokens and work proved.
6. *Done*: the denoising collector and the readers of its trace; the manifest, cells, previous plans and reports proved.
7. *Done*: the way of a token through the contract benchmark (`RestoredToOrigin`, `CountsMeasured`), proved.
8. Next, models: several layers of cost and the calibrated curves; relaunches of the contract benchmark.
