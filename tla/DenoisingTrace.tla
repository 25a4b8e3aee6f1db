---------------------------- MODULE DenoisingTrace ----------------------------
(***************************************************************************)
(* The collector of native router traces                                   *)
(* (hardware/collect_llada2_router_trace.py).  For every segment (workload *)
(* and seed) the requests are denoised in microbatches, block by block: a  *)
(* forward pass over the rows that still have masks, after which some of   *)
(* the masked positions get their sampled token.  Every forward leaves one *)
(* observation; all of them are written at the end.                        *)
(*                                                                         *)
(* A row is the number of its masked positions.  The routes of a request   *)
(* in a forward are named by where they were observed.                     *)
(***************************************************************************)
EXTENDS Integers, FiniteSetsExt, SequencesExt, SortedSets

CONSTANTS
  NumSegments,
  NumRequests,     \* requests of a segment
  MicrobatchSize,
  PrefixLength,
  BlockWidth,      \* denoising_block_width
  Steps,           \* denoising_steps
  NumBlocks,       \* generation_length // block_width
  InitialWidths,   \* the widths of the initial ablation, <<>> without the flag
  Erratic,         \* requests for which the model may sample the mask token
  Leftovers        \* how many files an earlier collection may have left

(* The divisibility checks of main(). *)
ASSUME TraceAssumption ==
  /\ NumSegments \in Nat \ {0}
  /\ NumRequests \in Nat \ {0} /\ MicrobatchSize \in Nat \ {0}
  /\ NumRequests % MicrobatchSize = 0
  /\ PrefixLength \in Nat /\ BlockWidth \in Nat \ {0} /\ Steps \in Nat \ {0}
  /\ PrefixLength % BlockWidth = 0
  /\ NumBlocks \in Nat \ {0}
  /\ InitialWidths \in Seq(Nat \ {0})
  /\ Leftovers \subseteq 0 .. 7

Request == 0 .. NumRequests - 1
Row == 0 .. MicrobatchSize - 1

VARIABLES
  segment,       \* segment_id
  start,         \* request_start
  block,         \* block_id
  step,          \* denoising step within the block
  masks,         \* block_tokens: the masked positions left in each row
  observations,  \* observation_rows, with their arrays
  status,        \* "running", "writing", "raised", "crashed", "done"
  files          \* whose each artifact is: 0 nobody's, 1 an earlier collection's,
                 \* 2 this one's, 3 cut off in the middle

loops == <<segment, start, block, step>>
vars == <<loops, masks, observations, status, files>>

(* The artifacts in the order in which they are written. *)
Artifacts ==
  <<"routes_dense", "route_weights_dense", "position_roles_dense", "route_observations",
    "prompt_manifest", "denoising_results", "route_metadata">>

FullMasks == [r \in Row |-> BlockWidth]

(* _get_num_transfer_tokens: the width in nearly equal parts, the larger   *)
(* ones first.                                                             *)
TransferSchedule ==
  [s \in 0 .. Steps - 1 |->
     BlockWidth \div Steps + (IF s < BlockWidth % Steps THEN 1 ELSE 0)]

Least(x, y) == IF x < y THEN x ELSE y

(* MUTANT of Transferred: once some are confident only those are taken.    *)
TransferredConfident(masked, confident, num) ==
  IF confident > 0 THEN confident ELSE Least(num, masked)

(* How many of the masked positions of a row get their token.              *)
Transferred(masked, confident, num) ==
  IF confident >= num THEN confident ELSE Least(num, masked)

(* What may be left of a row's masks after a step; a token that is sampled *)
(* may be the mask token itself.                                           *)
MasksAfter(masked, request) ==
  UNION {LET taken == Transferred(masked, confident, TransferSchedule[step])
         IN  {masked - taken + kept : kept \in IF request \in Erratic THEN 0 .. taken ELSE {0}} :
         confident \in 0 .. masked}

(* unfinished *)
Active == {r \in Row : masks[r] > 0}
RequestOf(r) == start + r

(* The observation of a forward that leaves `after'. *)
Observed(rows, after) ==
  [phase     |-> "native_denoising",
   segment   |-> segment, block |-> block, step |-> step,
   iteration |-> block * Steps + step,
   width     |-> BlockWidth,
   positions |-> PrefixLength + block * BlockWidth + BlockWidth,
   requests  |-> [i \in DOMAIN rows |-> RequestOf(rows[i])],
   routes    |-> [i \in DOMAIN rows |->
                    [segment |-> segment, request |-> RequestOf(rows[i]), block |-> block, step |-> step]],
   before    |-> [i \in DOMAIN rows |-> masks[rows[i]]],
   after     |-> [i \in DOMAIN rows |-> after[rows[i]]]]

(* MUTANT of Observation: the requests are numbered through the active rows. *)
ObservationByIndex(after) ==
  LET rows == Ascending(Active)
  IN  [Observed(rows, after) EXCEPT !.requests = [i \in DOMAIN rows |-> start + i - 1]]

Observation(after) == Observed(Ascending(Active), after)

(* The controlled sweep over all requests: one observation per width.      *)
InitialObservation(s, width) ==
  [phase     |-> "initial_width_ablation",
   segment   |-> s, block |-> 0, step |-> 0, iteration |-> 0,
   width     |-> width, positions |-> PrefixLength + width,
   requests  |-> [i \in 1 .. NumRequests |-> i - 1],
   routes    |-> [i \in 1 .. NumRequests |-> [segment |-> s, request |-> i - 1, block |-> 0, step |-> 0]],
   before    |-> [i \in 1 .. NumRequests |-> width],
   after     |-> <<>>]

InitialSweep(s) == [i \in DOMAIN InitialWidths |-> InitialObservation(s, InitialWidths[i])]
-----------------------------------------------------------------------------
Init ==
  /\ segment = 1 /\ start = 0 /\ block = 0 /\ step = 0
  /\ masks = FullMasks
  /\ observations = InitialSweep(1)
  /\ status = "running"
  /\ \E n \in Leftovers : files = [i \in DOMAIN Artifacts |-> IF i <= n THEN 1 ELSE 0]

(* One forward of the rows that are unfinished, and their updates. *)
Denoise ==
  /\ status = "running"
  /\ step < Steps /\ Active # {}
  /\ \E after \in [Row -> 0 .. BlockWidth] :
       /\ \A r \in Row : IF r \in Active THEN after[r] \in MasksAfter(masks[r], RequestOf(r))
                                         ELSE after[r] = masks[r]
       /\ masks' = after
       /\ observations' = Append(observations, Observation(after))
  /\ step' = step + 1
  /\ UNCHANGED <<segment, start, block, status, files>>

BlockEnded == status = "running" /\ (step = Steps \/ Active = {})

(* "native denoising left masks in block" *)
RaiseLeftMasks ==
  /\ BlockEnded /\ Active # {}
  /\ status' = "raised"
  /\ UNCHANGED <<loops, masks, observations, files>>

(* A block starts with all its positions masked. *)
Restart(b) == block' = b /\ step' = 0 /\ masks' = FullMasks

NextBlock ==
  /\ BlockEnded /\ Active = {}
  /\ block + 1 < NumBlocks
  /\ Restart(block + 1)
  /\ UNCHANGED <<segment, start, observations, status, files>>

LastBlock == BlockEnded /\ Active = {} /\ block + 1 = NumBlocks

NextMicrobatch ==
  /\ LastBlock
  /\ start + MicrobatchSize < NumRequests
  /\ start' = start + MicrobatchSize
  /\ Restart(0)
  /\ UNCHANGED <<segment, observations, status, files>>

LastMicrobatch == LastBlock /\ start + MicrobatchSize >= NumRequests

(* The check of remaining_masks after a segment finds what the check of    *)
(* every block has left: nothing.                                          *)
NextSegment ==
  /\ LastMicrobatch
  /\ segment < NumSegments
  /\ segment' = segment + 1 /\ start' = 0
  /\ Restart(0)
  /\ observations' = observations \o InitialSweep(segment + 1)
  /\ UNCHANGED <<status, files>>

BeginWriting ==
  /\ LastMicrobatch
  /\ segment = NumSegments
  /\ status' = "writing"
  /\ UNCHANGED <<loops, masks, observations, files>>

(* The artifact that is written next. *)
Due(i) == files[i] # 2 /\ \A j \in 1 .. i - 1 : files[j] = 2

(* The next artifact; the metadata, written last, has the checksums of the *)
(* others.                                                                 *)
WriteArtifact ==
  /\ status = "writing"
  /\ \E i \in DOMAIN Artifacts :
       /\ Due(i)
       /\ files' = [files EXCEPT ![i] = 2]
       /\ status' = IF i = Len(Artifacts) THEN "done" ELSE status
  /\ UNCHANGED <<loops, masks, observations>>

(* The process dies before or while it writes an artifact; before the      *)
(* first of them there is nothing to lose.                                 *)
Crash ==
  /\ status = "writing"
  /\ \E i \in DOMAIN Artifacts :
       Due(i) /\ \E left \in {files[i], 3} : files' = [files EXCEPT ![i] = left]
  /\ status' = "crashed"
  /\ UNCHANGED <<loops, masks, observations>>

Stopped == status \in {"raised", "crashed", "done"}

CollectorNext ==
  \/ Denoise \/ RaiseLeftMasks \/ NextBlock \/ NextMicrobatch \/ NextSegment
  \/ BeginWriting \/ WriteArtifact \/ Crash

Spec == Init /\ [][CollectorNext]_vars
-----------------------------------------------------------------------------
(* What the schedule has in store for the rest of a block. *)
Scheduled(s) == (Steps - s) * (BlockWidth \div Steps) +
                (IF s < BlockWidth % Steps THEN (BlockWidth % Steps) - s ELSE 0)

(* The control state of the collector has its type. *)
TypeOK ==
  /\ segment \in 1 .. NumSegments
  /\ start \in Request /\ start + MicrobatchSize <= NumRequests
  /\ block \in 0 .. NumBlocks - 1
  /\ step \in 0 .. Steps
  /\ masks \in [Row -> 0 .. BlockWidth]
  /\ status \in {"running", "writing", "raised", "crashed", "done"}
  /\ files \in [1 .. Len(Artifacts) -> 0 .. 3]

(* A row whose model never samples the mask token has no masks left after  *)
(* the last step of a block: the transfer schedule and the rule that takes *)
(* all confident positions, or else the scheduled number, finish every     *)
(* block (collect_llada2_router_trace.py:484-510, 587).                    *)
OnlyMaskTokensStick ==
  BlockEnded => \A r \in Active : RequestOf(r) \in Erratic
===============================================================================
