------------------------------ MODULE EPReplay ------------------------------
(***************************************************************************)
(* The expert-parallel benchmark (hardware/benchmark_contract_ep4.py): one *)
(* process per rank runs the same program, and the ranks meet only in      *)
(* collectives.  In every run a rank plans the batches of all ranks on its *)
(* own, the ranks exchange their counts to confirm the plan, and then      *)
(* replay it: batch by batch and layer by layer tokens travel to their     *)
(* experts and back.                                                       *)
(*                                                                         *)
(* torch.distributed matches the collectives of the ranks by the order in  *)
(* which each rank calls them.  An action of a rank is what it does from   *)
(* the end of one collective to the call of the next.                      *)
(***************************************************************************)
EXTENDS TokenExchange

CONSTANTS
  Arms,             \* schedulers, in the order of the command line
  Repetitions,      \* warmup and measured ones
  Counterbalanced,  \* counterbalance_schedulers
  Faulty            \* ranks that may fail for reasons of their own

DoseArms == {"coordinated_dose_25", "coordinated_dose_50", "coordinated_dose_75"}
CoordinatedArms == DoseArms \union {"coordinated_route_replay"}

Schedulers ==
  {"fifo", "fifo_selection_control", "random_permutation", "locality_only",
   "load_balance_only", "critical_path", "joint", "local_route_replay"} \union CoordinatedArms

ASSUME RunAssumption ==
  /\ Arms \in Seq(Schedulers)
  /\ Len(Arms) > 0
  /\ Repetitions \in Nat \ {0}
  /\ Counterbalanced \in BOOLEAN
  /\ Faulty \subseteq Source

VARIABLES
  routes,    \* the routes of every rank: all ranks generate the same ones
  schedule,  \* what the scheduler of a run answers for a source
  doses,     \* the dose arms for which the planner found a plan
  at,        \* the collective a rank is in or came out of last
  call,      \* the pending call of a rank
  inbox,     \* what its last collective delivered
  tokens,    \* received hidden states that wait for their expert ids
  hidden,    \* the tokens of the running batch
  outputs,   \* final_hidden
  confirmed, \* count_exchange_valid
  rows,      \* run_rows
  files,     \* ranks whose rows are on disk
  passed,    \* rank 1 has written the metadata and printed PASS
  missing,   \* ranks that raised because a dose arm has no plan
  failed,    \* ranks that failed otherwise
  killed     \* ranks the launcher terminated

inputs == <<routes, schedule, doses>>
buffers == <<inbox, tokens, hidden, outputs>>
results == <<confirmed, rows, files, passed>>
deaths == <<missing, failed, killed>>
vars == <<inputs, at, call, buffers, results, deaths>>

Rank == Source
NumRuns == Repetitions * Len(Arms)
Run == 1 .. NumRuns

(* Runs are numbered through the repetitions; with counterbalancing every  *)
(* repetition starts one arm later.                                        *)
ArmOf(n) ==
  LET repetition == (n - 1) \div Len(Arms)
      index == (n - 1) % Len(Arms)
        first == IF Counterbalanced THEN repetition ELSE 0
  IN  Arms[((index + first) % Len(Arms)) + 1]

(* schedule_batches: the batches a scheduler may answer for one source.    *)
(* The scores of the greedy ones are data.                                 *)
Increasing(batch) == \A i, j \in Slot : i < j => batch[i] < batch[j]

Anchored(batches) ==
  \A b, c \in Batch : \A i \in Slot : b <= c => batches[b][1] <= batches[c][i]

Proposals(arm) ==
  CASE arm \in {"fifo", "fifo_selection_control"} -> {FifoPlan[1]}
    [] arm = "random_permutation" -> {Sliced(order) : order \in Orders}
    [] arm = "local_route_replay" /\ NumRequests <= 12 ->
         {p \in Arrangement : \A b \in Batch : Increasing(p[b])}
    [] arm \in CoordinatedArms -> Arrangement
    [] OTHER -> {p \in Arrangement : Anchored(p)}

(* Only the random arm depends on the repetition. *)
Schedules ==
  {plan \in [Run -> [Source -> Arrangement]] :
     /\ \A n \in Run, s \in Source : plan[n][s] \in Proposals(ArmOf(n))
     /\ \A n, m \in Run :
          ArmOf(n) = ArmOf(m) /\ ArmOf(n) # "random_permutation" => plan[n] = plan[m]}

(* MUTANT of Recomputed: other sources are planned from one's own routes.   *)
RecomputedOwnSeed(r, n, s) == schedule[n][r]

(* What rank r computes as the batches of another source.                  *)
Recomputed(r, n, s) == schedule[n][s]

Batches(r, n) == schedule[n][r]
GlobalBatches(r, n) ==
  IF ArmOf(n) \in CoordinatedArms THEN schedule[n]
  ELSE [s \in Source |-> IF s = r THEN Batches(r, n) ELSE Recomputed(r, n, s)]

Planned(r, n, b, l) == ReplayMetadata(routes, GlobalBatches(r, n), r, b, l)
Ids(r, n, b, l) == FlatIds(routes, r, Batches(r, n)[b], l)

-----------------------------------------------------------------------------
(* Collectives of torch.distributed. *)

NoCall == [op |-> "none"]
Barrier == [op |-> "barrier"]
AllGather(value) == [op |-> "all_gather", value |-> value]
AllToAll(blocks, expect) == [op |-> "all_to_all", blocks |-> blocks, expect |-> expect]

Waiting(r) == call[r].op # "none"

AllIn(op) == \A r \in Rank : call[r].op = op

(* Every block is as long as its receiver expects. *)
SplitsMatch ==
  \A s, d \in Rank : Len(call[s].blocks[d]) = call[d].expect[s]

LeaveAll == call' = [r \in Rank |-> NoCall]

CompleteBarrier ==
  /\ AllIn("barrier")
  /\ LeaveAll
  /\ UNCHANGED <<inputs, at, buffers, results, deaths>>

CompleteAllGather ==
  /\ AllIn("all_gather")
  /\ LeaveAll
  /\ inbox' = [r \in Rank |-> [s \in Rank |-> call[s].value]]
  /\ UNCHANGED <<inputs, at, tokens, hidden, outputs, results, deaths>>

(* Ranks whose splits do not match never leave the collective.             *)
CompleteAllToAll ==
  /\ AllIn("all_to_all")
  /\ SplitsMatch
  /\ LeaveAll
  /\ inbox' = [d \in Rank |-> FlattenSeq([s \in Rank |-> call[s].blocks[d]])]
  /\ UNCHANGED <<inputs, at, tokens, hidden, outputs, results, deaths>>

-----------------------------------------------------------------------------
(* The program of a rank. *)

Place(n, stage, b, l) == [run |-> n, stage |-> stage, batch |-> b, layer |-> l]

Init ==
  /\ routes \in RouteTables
  /\ schedule \in Schedules
  /\ doses \in SUBSET {arm \in DoseArms : \E i \in DOMAIN Arms : Arms[i] = arm}
  /\ at = [r \in Rank |-> Place(1, "select", 1, 1)]
  /\ call = [r \in Rank |-> NoCall]
  /\ inbox = [r \in Rank |-> <<>>]
  /\ tokens = [r \in Rank |-> <<>>]
  /\ hidden = [r \in Rank |-> <<>>]
  /\ outputs = [r \in Rank |-> <<>>]
  /\ confirmed = [r \in Rank |-> TRUE]
  /\ rows = [r \in Rank |-> <<>>]
  /\ files = {}
  /\ passed = FALSE
  /\ missing = {}
  /\ failed = {}
  /\ killed = {}

Dead == missing \union failed \union killed

(* Rank r runs at the given stage, outside of any collective. *)
Computes(r, stage) == r \notin Dead /\ ~Waiting(r) /\ at[r].stage = stage

Enter(r, place, request) ==
  /\ at' = [at EXCEPT ![r] = place]
  /\ call' = [call EXCEPT ![r] = request]

HasPlan(arm) == arm \in DoseArms => arm \in doses

RaiseMissingDose(r) ==
  /\ Computes(r, "select")
  /\ ~HasPlan(ArmOf(at[r].run))
  /\ missing' = missing \union {r}
  /\ UNCHANGED <<inputs, at, call, buffers, results, failed, killed>>

(* MUTANT of SelectBatches: a dose arm without a plan is run all the same. *)
SelectBatchesUnplanned(r) ==
  /\ Computes(r, "select")
  /\ Enter(r, Place(at[r].run, "enter", 1, 1), Barrier)
  /\ UNCHANGED <<inputs, buffers, results, deaths>>

(* Select the batches of this rank and of all others, derive the metadata. *)
SelectBatches(r) ==
  /\ Computes(r, "select")
  /\ HasPlan(ArmOf(at[r].run))
  /\ Enter(r, Place(at[r].run, "enter", 1, 1), Barrier)
  /\ UNCHANGED <<inputs, buffers, results, deaths>>

GatherAt(r, b, l) ==
  Enter(r, Place(at[r].run, "gather", b, l),
        AllGather([splits |-> Planned(r, at[r].run, b, l).send]))

BeginExchange(r) ==
  /\ Computes(r, "enter")
  /\ GatherAt(r, 1, 1)
  /\ confirmed' = [confirmed EXCEPT ![r] = TRUE]
  /\ UNCHANGED <<inputs, buffers, rows, files, passed, deaths>>

(* What every peer announced for this rank is what the rank expects.       *)
CountsAgree(r) ==
  [s \in Rank |-> inbox[r][s].splits[r]] = Planned(r, at[r].run, at[r].batch, at[r].layer).recv

(* The order of the loops over batches and layers. *)
LastLayer(r) == at[r].layer = NumLayers
LastBatch(r) == at[r].batch = BatchCount

(* The code compares after the last exchange; the counts are the same then. *)
ContinueExchange(r) ==
  /\ Computes(r, "gather")
  /\ ~(LastBatch(r) /\ LastLayer(r))
  /\ IF LastLayer(r) THEN GatherAt(r, at[r].batch + 1, 1)
                     ELSE GatherAt(r, at[r].batch, at[r].layer + 1)
  /\ confirmed' = [confirmed EXCEPT ![r] = @ /\ CountsAgree(r)]
  /\ UNCHANGED <<inputs, buffers, rows, files, passed, deaths>>

(* MUTANT of EndExchange: no barrier before the data plane.                *)
EndExchangeAtOnce(r) ==
  /\ Computes(r, "gather")
  /\ LastBatch(r) /\ LastLayer(r)
  /\ Enter(r, Place(at[r].run, "ready", 1, 1), NoCall)
  /\ confirmed' = [confirmed EXCEPT ![r] = @ /\ CountsAgree(r)]
  /\ UNCHANGED <<inputs, buffers, rows, files, passed, deaths>>

EndExchange(r) ==
  /\ Computes(r, "gather")
  /\ LastBatch(r) /\ LastLayer(r)
  /\ Enter(r, Place(at[r].run, "ready", 1, 1), Barrier)
  /\ confirmed' = [confirmed EXCEPT ![r] = @ /\ CountsAgree(r)]
  /\ UNCHANGED <<inputs, buffers, rows, files, passed, deaths>>

(* Pack the tokens of a batch for one layer and send them to their experts. *)
DispatchAt(r, b, l, values) ==
  LET n == at[r].run
      ids == Ids(r, n, b, l)
      plan == Planned(r, n, b, l)
      expanded == [a \in Assignments |-> values[SlotOf(a)]]
  IN  /\ hidden' = [hidden EXCEPT ![r] = values]
      /\ Enter(r, Place(n, "hidden", b, l),
               AllToAll(Blocks(Packed(expanded, ids), plan.send), plan.recv))

(* initial_hidden of the requests of a batch *)
InitialHidden(r, b) ==
  [i \in Slot |-> [rank |-> r, request |-> Batches(r, at[r].run)[b][i]]]

BeginBatches(r) ==
  /\ Computes(r, "ready")
  /\ DispatchAt(r, 1, 1, InitialHidden(r, 1))
  /\ outputs' = [outputs EXCEPT ![r] = <<>>]
  /\ UNCHANGED <<inputs, inbox, tokens, results, deaths>>

DispatchIds(r) ==
  /\ Computes(r, "hidden")
  /\ tokens' = [tokens EXCEPT ![r] = inbox[r]]
  /\ LET p == at[r]
         ids == Ids(r, p.run, p.batch, p.layer)
         local == [a \in Assignments |-> [local |-> LocalId(ids[a])]]
         plan == Planned(r, p.run, p.batch, p.layer)
     IN  Enter(r, [p EXCEPT !.stage = "ids"],
               AllToAll(Blocks(Packed(local, ids), plan.send), plan.recv))
  /\ UNCHANGED <<inputs, inbox, hidden, outputs, results, deaths>>

(* MUTANT of RunExperts: a rank without work hands empty buffers to the    *)
(* combine, though tokens of its own come back in it.                      *)
RunExpertsIfAny(r) ==
  /\ Computes(r, "ids")
  /\ LET p == at[r]
         plan == Planned(r, p.run, p.batch, p.layer)
         output == ExpertOutput(r, tokens[r], inbox[r])
     IN  Enter(r, [p EXCEPT !.stage = "combine"],
               IF output = <<>> THEN AllToAll([d \in Rank |-> <<>>], [s \in Rank |-> 0])
                                ELSE AllToAll(Blocks(output, plan.recv), plan.send))
  /\ UNCHANGED <<inputs, buffers, results, deaths>>

(* A rank without work still takes part in the combine.                    *)
RunExperts(r) ==
  /\ Computes(r, "ids")
  /\ LET p == at[r]
         plan == Planned(r, p.run, p.batch, p.layer)
         output == ExpertOutput(r, tokens[r], inbox[r])
     IN  Enter(r, [p EXCEPT !.stage = "combine"],
               AllToAll(Blocks(output, plan.recv), plan.send))
  /\ UNCHANGED <<inputs, buffers, results, deaths>>

(* The tokens of the batch after this layer. *)
Combined(r) ==
  LET p == at[r]
      restored == Restored(inbox[r], Ids(r, p.run, p.batch, p.layer))
  IN  [i \in Slot |-> MeanOver(restored, i)]

NextLayer(r) ==
  /\ Computes(r, "combine")
  /\ ~LastLayer(r)
  /\ DispatchAt(r, at[r].batch, at[r].layer + 1, Combined(r))
  /\ UNCHANGED <<inputs, inbox, tokens, outputs, results, deaths>>

NextBatch(r) ==
  /\ Computes(r, "combine")
  /\ LastLayer(r) /\ ~LastBatch(r)
  /\ outputs' = [outputs EXCEPT ![r] = Append(@, Combined(r))]
  /\ DispatchAt(r, at[r].batch + 1, 1, InitialHidden(r, at[r].batch + 1))
  /\ UNCHANGED <<inputs, inbox, tokens, results, deaths>>

(* Append the row of the run and go on with the next one. *)
RecordRun(r) ==
  /\ Computes(r, "combine")
  /\ LastLayer(r) /\ LastBatch(r)
  /\ outputs' = [outputs EXCEPT ![r] = Append(@, Combined(r))]
  /\ rows' = [rows EXCEPT ![r] = Append(@, [arm |-> ArmOf(at[r].run), valid |-> confirmed[r]])]
  /\ at' = [at EXCEPT ![r] = IF @.run < NumRuns THEN Place(@.run + 1, "select", 1, 1)
                                                ELSE Place(@.run, "write", 1, 1)]
  /\ UNCHANGED <<inputs, call, inbox, tokens, hidden, confirmed, files, passed, deaths>>

(* MUTANT of WriteRows: the first rank does not wait for the others.       *)
WriteRowsAtOnce(r) ==
  /\ Computes(r, "write")
  /\ files' = files \union {r}
  /\ Enter(r, [at[r] EXCEPT !.stage = "written"], NoCall)
  /\ UNCHANGED <<inputs, buffers, confirmed, rows, passed, deaths>>

WriteRows(r) ==
  /\ Computes(r, "write")
  /\ files' = files \union {r}
  /\ Enter(r, [at[r] EXCEPT !.stage = "written"], Barrier)
  /\ UNCHANGED <<inputs, buffers, confirmed, rows, passed, deaths>>

(* Rank 1 writes metadata.json; then the process group is destroyed. *)
Finish(r) ==
  /\ Computes(r, "written")
  /\ passed' = (passed \/ r = 1)
  /\ at' = [at EXCEPT ![r].stage = "done"]
  /\ UNCHANGED <<inputs, call, buffers, confirmed, rows, files, deaths>>

Step(r) ==
  \/ RaiseMissingDose(r) \/ SelectBatches(r)
  \/ BeginExchange(r) \/ ContinueExchange(r) \/ EndExchange(r)
  \/ BeginBatches(r) \/ DispatchIds(r) \/ RunExperts(r)
  \/ NextLayer(r) \/ NextBatch(r) \/ RecordRun(r)
  \/ WriteRows(r) \/ Finish(r)

(* A device or I/O error: the process of the rank ends with an exception.  *)
Fail(r) ==
  /\ r \in Faulty
  /\ r \notin Dead /\ ~Waiting(r) /\ at[r].stage # "done"
  /\ failed' = failed \union {r}
  /\ UNCHANGED <<inputs, at, call, buffers, results, missing, killed>>

(* torchrun terminates the other workers of a failed one, wherever they    *)
(* are; nobody else would wake a rank that waits for a dead one.           *)
Terminate ==
  /\ missing \union failed # {}
  /\ \E r \in Rank :
       /\ r \notin Dead /\ at[r].stage # "done"
       /\ killed' = killed \union {r}
  /\ UNCHANGED <<inputs, at, call, buffers, results, missing, failed>>

Complete == CompleteBarrier \/ CompleteAllGather \/ CompleteAllToAll

Ended(r) == r \in Dead \/ at[r].stage = "done"

Next == (\E r \in Rank : Step(r) \/ Fail(r)) \/ Complete \/ Terminate

(* As long as a rank can compute on, a collective in which all ranks are   *)
(* can end or the launcher has noticed a failed worker, one of these       *)
(* happens: no rank takes infinitely many steps, so none is starved.       *)
Progress == (\E r \in Rank : Step(r)) \/ Complete \/ Terminate

Fairness == WF_vars(Progress)

Spec == Init /\ [][Next]_vars /\ Fairness
-----------------------------------------------------------------------------
Stages == {"select", "enter", "gather", "ready", "hidden", "ids", "combine",
           "write", "written", "done"}

(* The control state of the ranks has its type. *)
TypeOK ==
  /\ schedule \in [Run -> [Source -> Arrangement]]
  /\ at \in [Rank -> [run : Run, stage : Stages, batch : Batch, layer : Layer]]
  /\ \A r \in Rank :
       Waiting(r) => call[r].op \in {"barrier", "all_gather", "all_to_all"}
  /\ confirmed \in [Rank -> BOOLEAN]
  /\ files \subseteq Rank
  /\ passed \in BOOLEAN
  /\ missing \subseteq Rank /\ failed \subseteq Faulty /\ killed \subseteq Rank

(* Ranks that plan on their own never disagree about a collective: when    *)
(* all of them are in one it is the same one, and every block is as long   *)
(* as its receiver expects (benchmark_contract_ep4.py:474-500).            *)
CallsMatch ==
  (\A r \in Rank : Waiting(r)) =>
    /\ \A r, s \in Rank : call[r].op = call[s].op
    /\ AllIn("all_to_all") => SplitsMatch

(* The expert counts a rank reports are derived from its plan, before      *)
(* anything is sent (split_vectors_and_local_expert_counts); they are the  *)
(* counts of the expert ids that arrive.                                   *)
CountsMeasured ==
  \A r \in Rank :
    at[r].stage = "ids" /\ ~Waiting(r) =>
      LET plan == Planned(r, at[r].run, at[r].batch, at[r].layer)
      IN  /\ Len(tokens[r]) = Len(inbox[r])
          /\ plan.experts =
               [e \in LocalExpert |-> Cardinality({n \in DOMAIN inbox[r] : inbox[r][n].local = e})]

(* What a request's token has gone through after the given layer.          *)
Journey(s, q, layer) ==
  LET after[l \in 0 .. NumLayers] ==
        IF l = 0 THEN [rank |-> s, request |-> q]
        ELSE [mean |-> [k \in 1 .. TopK |-> Through(after[l - 1], routes[s, q, l][k])]]
  IN  after[layer]

(* The run whose final hidden states a rank holds.                         *)
OutputRun(r) ==
  IF at[r].stage \in {"select", "enter", "gather", "ready"} THEN at[r].run - 1 ELSE at[r].run

(* "origin_restoration: implicit_stable_assignment_order_plus_local_       *)
(* inverse": although no origin travels with a token, in every layer every *)
(* token comes back to its own slot, from its own experts, and no token is *)
(* dropped or duplicated.                                                  *)
RestoredToOrigin ==
  \A r \in Rank :
    /\ at[r].stage \in {"hidden", "ids", "combine"} =>
         \A i \in Slot :
           hidden[r][i] =
             Journey(r, Batches(r, at[r].run)[at[r].batch][i], at[r].layer - 1)
    /\ \A b \in DOMAIN outputs[r], i \in Slot :
         outputs[r][b][i] = Journey(r, Batches(r, OutputRun(r))[b][i], NumLayers)

(* Between run_start and run_end, and between the two barriers of a run.   *)
Timed(r) ==
  \/ at[r].stage = "ready" /\ ~Waiting(r)
  \/ at[r].stage \in {"hidden", "ids", "combine"}
Exchanging(r) ==
  \/ at[r].stage = "enter" /\ ~Waiting(r)
  \/ at[r].stage = "gather"

(* "dynamic_count_exchange_in_cuda_interval": False.  While one rank times *)
(* its data plane no rank exchanges or checks counts, of this run or of    *)
(* any other, and all that time theirs are at most one run apart.          *)
IntervalsClean ==
  \A r, s \in Rank : Timed(r) => ~Exchanging(s) /\ at[s].run \in at[r].run .. at[r].run + 1

(* A missing dose plan stops every rank before the same run: no rank is    *)
(* left in a collective that the others will never join.                   *)
RaisesTogether ==
  \A r \in missing, s \in Rank :
    at[s].run <= at[r].run /\ (at[s].run = at[r].run => at[s].stage = "select")

(* PASS and the metadata appear only when every rank has written one valid *)
(* row for every run, in the same order, whoever fails before or after.    *)
PassedMeansComplete ==
  passed =>
    \A r \in Rank :
      r \in files /\ rows[r] = [n \in Run |-> [arm |-> ArmOf(n), valid |-> TRUE]]

(* Every rank finishes or ends with an exception or by the launcher: no    *)
(* rank waits for ever, also when a rank receives no tokens at all.        *)
EveryRankEnds == <>(\A r \in Rank : Ended(r))
=============================================================================
