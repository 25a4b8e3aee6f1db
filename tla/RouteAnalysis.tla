----------------------------- MODULE RouteAnalysis -----------------------------
(***************************************************************************)
(* The two readers of a trace: the screen of request composition           *)
(* (hardware/screen_measured_router_trace.py, dense traces) and the        *)
(* analysis of native routes                                               *)
(* (hardware/analyze_native_route_opportunity.py).  Both put the           *)
(* observations of the microbatches of one step together and keep those    *)
(* steps that still have every request.  Their plans and gains are data.   *)
(***************************************************************************)
EXTENDS DenoisingTrace, ExpertPlacement

CONSTANTS
  WorldSize, RequestsPerRank, NumExperts,
  NoReport

ASSUME AnalysisAssumption ==
  WorldSize \in Nat \ {0} /\ RequestsPerRank \in Nat \ {0} /\ NumExperts \in Nat \ {0}

VARIABLE report   \* native_opportunity_summary.json

analysisVars == <<vars, report>>

ExpectedRequests == WorldSize * RequestsPerRank

ManifestRows == ToSet(observations)

(* The request rows of the observations with the given key: the number of  *)
(* the observation, and the place in it.                                   *)
Gathered(phase, Key(_), key) ==
  UNION {{<<n, i>> : i \in DOMAIN observations[n].requests} :
           n \in {m \in DOMAIN observations : observations[m].phase = phase /\ Key(observations[m]) = key}}
Keys(phase, Key(_)) == {Key(r) : r \in {row \in ManifestRows : row.phase = phase}}

RequestIn(e) == observations[e[1]].requests[e[2]]
RoutesIn(e) == observations[e[1]].routes[e[2]]

Concatenated(d, e) == d[1] < e[1] \/ (d[1] = e[1] /\ d[2] < e[2])

(* np.argsort of the request IDs *)
Sorted(entries) ==
  InOrder(entries, {p \in entries \X entries :
                      \/ RequestIn(p[1]) < RequestIn(p[2])
                      \/ RequestIn(p[1]) = RequestIn(p[2]) /\ Concatenated(p[1], p[2])})

(* Checksums: the recorded ones are those of the collection that wrote the *)
(* metadata.                                                               *)
FileIndex(name) == CHOOSE i \in DOMAIN Artifacts : Artifacts[i] = name
FileOf(name) == files[FileIndex(name)]
Matches(name) == FileOf(name) = FileOf("route_metadata")

(* The metadata is there and can be read. *)
Readable == FileOf("route_metadata") \in {1, 2}

(* The screen needs neither the roles nor the weights. *)
ScreenAccepts ==
  /\ Readable
  /\ Matches("route_observations") /\ Matches("routes_dense")

(* MUTANT of NativeAccepts: of the arrays only the roles are checked.      *)
NativeAcceptsAnyRoutes ==
  /\ Readable
  /\ Matches("route_observations")
  /\ FileOf("position_roles_dense") = 0 \/ Matches("position_roles_dense")

(* _load_observations; a trace without roles is read with default ones.    *)
NativeAccepts ==
  /\ Readable
  /\ Matches("route_observations") /\ Matches("routes_dense")
  /\ FileOf("position_roles_dense") = 0 \/ Matches("position_roles_dense")
-----------------------------------------------------------------------------
(* The screen. *)

(* MUTANT of CellKey: steps of different blocks with one number together.  *)
CellKeyOfStep(row) == <<row.segment, row.width, row.step>>

CellKey(row) == <<row.segment, row.width, row.positions, row.iteration>>

Cell(phase, key) == Gathered(phase, CellKey, key)

(* The routes of a cell by request. *)
CellRoutes(phase, key) ==
  LET order == Sorted(Cell(phase, key)) IN [i \in DOMAIN order |-> RoutesIn(order[i])]

(* Cells of the fixed pool; the others only appear in the coverage.        *)
CompleteCells(phase) == {key \in Keys(phase, CellKey) : Cardinality(Cell(phase, key)) = ExpectedRequests}

(* "dense cell contains duplicate request IDs" *)
ScreenRaises(phase) ==
  \E key \in CompleteCells(phase) :
    Cardinality({RequestIn(e) : e \in Cell(phase, key)}) # ExpectedRequests

(* counts: whose routes a source's local request is taken to have. *)
CellCounts(phase, key) ==
  [x \in (0 .. WorldSize - 1) \X (0 .. RequestsPerRank - 1) |->
     CellRoutes(phase, key)[x[1] * RequestsPerRank + x[2] + 1]]
-----------------------------------------------------------------------------
(* The native analysis. *)

StepKey(row) == <<row.segment, row.block, row.step>>

Before(j, k) ==
  \/ j[1] < k[1]
  \/ j[1] = k[1] /\ j[2] < k[2]
  \/ j[1] = k[1] /\ j[2] = k[2] /\ j[3] < k[3]

(* observations, sorted by segment, block and step *)
StepKeys ==
  LET keys == Keys("native_denoising", StepKey)
  IN  InOrder(keys, {p \in keys \X keys : Before(p[1], p[2])})

RequestsAt(key) == {RequestIn(e) : e \in Gathered("native_denoising", StepKey, key)}
CompleteSteps == {i \in DOMAIN StepKeys : Cardinality(RequestsAt(StepKeys[i])) = ExpectedRequests}

(* MUTANT of PreviousOf: incomplete observations are passed over.          *)
PreviousOfComplete(i) ==
  {j \in CompleteSteps : /\ j < i /\ StepKeys[j][1] = StepKeys[i][1]
                         /\ \A k \in CompleteSteps : ~(j < k /\ k < i)}

(* previous_by_segment: every observation replaces the one before.         *)
PreviousOf(i) == {j \in DOMAIN StepKeys : j = i - 1 /\ StepKeys[j][1] = StepKeys[i][1]}

(* The steps whose plan is evaluated on the step i. *)
PreviousRoutes(i) == {j \in PreviousOf(i) : RequestsAt(StepKeys[j]) = RequestsAt(StepKeys[i])}

(* The complete steps with a gain to capture and a previous plan. *)
Captures(headroom) == {i \in headroom : PreviousRoutes(i) # {}}

(* The status of one placement: `headroom' are the steps with positive     *)
(* headroom, `captured' whether the previous plans capture enough.         *)
MappingStatus(headroom, captured) ==
  IF headroom = {} THEN "NO_COMPOSITION_HEADROOM"
  ELSE IF Captures(headroom) # {} /\ captured THEN "PREVIOUS_ROUTE_PASS"
  ELSE "PREDICTION_GAP"

(* Both placements pass, both have nothing to gain, or it depends.          *)
OverallStatus(statuses) ==
  IF statuses = {"PREVIOUS_ROUTE_PASS"} THEN "ROUTE_SPACE_PASS"
  ELSE IF statuses = {"NO_COMPOSITION_HEADROOM"} THEN "ROUTE_SPACE_NO_HEADROOM"
  ELSE "ROUTE_SPACE_MAPPING_OR_PREDICTION_DEPENDENT"

(* The headrooms considered: none, one step, or all of them. *)
Headrooms == {{}, CompleteSteps} \union {{i} : i \in CompleteSteps}
MappingStatuses == {MappingStatus(headroom, captured) : headroom \in Headrooms, captured \in BOOLEAN}

(* The placements the previous plans are judged under. *)
Mappings == {Contiguous(NumExperts, WorldSize), RoundRobin(NumExperts, WorldSize)}

(* An earlier trace is judged as well, on observations that are not here;  *)
(* _mapping raises unless every rank holds as many experts.                *)
AnalyzeRoutes ==
  /\ Stopped /\ report = NoReport
  /\ NativeAccepts
  /\ FileOf("route_observations") = 2 => CompleteSteps # {}
  /\ \A mapping \in Mappings : Balanced(mapping, NumExperts, WorldSize)
  /\ \E contiguous, roundRobin \in
        IF FileOf("route_observations") = 2 THEN MappingStatuses
        ELSE {"NO_COMPOSITION_HEADROOM", "PREVIOUS_ROUTE_PASS", "PREDICTION_GAP"} :
       report' = [statuses |-> <<contiguous, roundRobin>>,
                  status |-> OverallStatus({contiguous, roundRobin}),
                  files |-> files]
  /\ UNCHANGED vars

Finished == Stopped /\ UNCHANGED analysisVars

AnalysisInit == Init /\ report = NoReport
AnalysisNext == (CollectorNext /\ UNCHANGED report) \/ AnalyzeRoutes \/ Finished
AnalysisSpec == AnalysisInit /\ [][AnalysisNext]_analysisVars
-----------------------------------------------------------------------------
(* The forward `last' left request i of `row' the masks it finds. *)
Precedes(last, row, i) ==
  \E j \in DOMAIN last.requests :
    /\ last.phase = row.phase /\ last.requests[j] = row.requests[i]
    /\ StepKey(last) = <<row.segment, row.block, row.step - 1>>
    /\ last.after[j] = row.before[i]

Chained(row, rows) ==
  \A i \in DOMAIN row.requests :
    /\ row.routes[i].request = row.requests[i]
    /\ row.before[i] > 0
    /\ row.phase = "native_denoising" =>
         IF row.step = 0 THEN row.before[i] = BlockWidth
         ELSE \E last \in rows : Precedes(last, row, i)

(* The manifest can be read backwards for every request: a forward had     *)
(* some masks to fill, it found as many as the forward before it left, and *)
(* the first one of a block found the whole block masked, whichever other  *)
(* rows have dropped out of the microbatch in between                      *)
(* (collect_llada2_router_trace.py:463-586).                               *)
ManifestChains == \A row \in ManifestRows : Chained(row, ManifestRows)

(* A cell that enters the fixed-pool screen has every request of its       *)
(* segment exactly once, and the routes of local request l of source s are *)
(* those of request s * requests_per_rank + l, all in one and the same     *)
(* step ("contiguous_groups_of_sorted_request_ids").                       *)
CellsExact ==
  status = "done" =>
    \A phase \in {"native_denoising", "initial_width_ablation"} :
      /\ ~ScreenRaises(phase)
      /\ \A key \in CompleteCells(phase) : \E row \in ManifestRows :
           /\ row.phase = phase /\ CellKey(row) = key
           /\ \A s \in 0 .. WorldSize - 1, l \in 0 .. RequestsPerRank - 1 :
                CellCounts(phase, key)[<<s, l>>] =
                  [segment |-> row.segment, request |-> s * RequestsPerRank + l,
                   block |-> row.block, step |-> row.step]

(* "The previous-step plan uses only the immediately preceding observed    *)
(* route" (docs/m2_1_20260813_results.md:56): where a previous plan is     *)
(* evaluated, no request of the pool has made another forward between the  *)
(* two steps, also across blocks.                                          *)
PreviousIsPreceding ==
  status = "done" =>
    \A i \in CompleteSteps : \A j \in PreviousRoutes(i) :
      \A row \in ManifestRows :
        row.phase = "native_denoising" => ~(Before(StepKeys[j], StepKey(row)) /\ Before(StepKey(row), StepKeys[i]))

(* A report rests on the manifest, the routes and the roles of one         *)
(* collection, whatever an earlier one left in the directory and wherever  *)
(* this one was cut off (analyze_native_route_opportunity.py:89-104).      *)
ReportSound ==
  report # NoReport =>
    \E c \in {1, 2} : \A name \in {"routes_dense", "position_roles_dense", "route_observations"} :
      report.files[FileIndex(name)] = c
===============================================================================
