------------------------------ MODULE TraceProofs ------------------------------
(***************************************************************************)
(* Proofs about the traces of native routes, for any number of segments,   *)
(* requests, blocks and steps: the collector's control state has its type, *)
(* a block is finished after its last step unless the model samples the    *)
(* mask token, the masks of a request chain through the manifest, steps    *)
(* that are compared follow each other, a report rests on one collection,  *)
(* the screen's cells hold every request once with its own routes, and the *)
(* planner's numbering of the experts keeps every expert on its rank.      *)
(***************************************************************************)
EXTENDS RouteAnalysis, ProofBasics, SequenceTheorems

(* The rows of well-behaved requests never have more masks than the rest   *)
(* of the schedule will transfer.                                          *)
OnSchedule ==
  status = "running" =>
    \A r \in Row : RequestOf(r) \notin Erratic => masks[r] <= Scheduled(step)

(* The microbatches are whole. *)
WholeMicrobatches == \E k \in Nat : start = k * MicrobatchSize

CollectorInv == TypeOK /\ WholeMicrobatches /\ OnSchedule

(* Parts of the block width.                                               *)
LEMMA WidthParts ==
  /\ BlockWidth \div Steps \in Nat
  /\ BlockWidth % Steps \in 0 .. Steps - 1
  /\ BlockWidth = Steps * (BlockWidth \div Steps) + (BlockWidth % Steps)
BY TraceAssumption

(* The schedule is in natural numbers and ends with nothing left to do.    *)
LEMMA ScheduledType ==
  ASSUME NEW s \in 0 .. Steps
  PROVE  Scheduled(s) \in Nat
<1> DEFINE q == BlockWidth \div Steps
<1>1. q \in Nat /\ Steps - s \in Nat
  BY WidthParts, TraceAssumption
<1>2. (Steps - s) * q \in Nat
  <2> HIDE DEF q
  <2> QED  BY <1>1
<1> QED  BY <1>2, WidthParts, TraceAssumption DEF Scheduled

(* At the start of a block it has the whole block in store.                *)
LEMMA ScheduledStart == Scheduled(0) = BlockWidth
<1>1. Steps \in Nat /\ Steps > 0
  BY TraceAssumption
<1>2. BlockWidth % Steps > 0 \/ BlockWidth % Steps = 0
  BY WidthParts
<1> QED  BY <1>1, <1>2, WidthParts DEF Scheduled

LEMMA ScheduledEnd == Scheduled(Steps) = 0
<1> DEFINE q == BlockWidth \div Steps
<1>1. q \in Nat
  BY WidthParts
<1>2. (Steps - Steps) * q = 0
  <2> HIDE DEF q
  <2> QED  BY <1>1, TraceAssumption
<1> QED  BY <1>2, WidthParts, TraceAssumption DEF Scheduled

(* A step takes its own share of what is in store.                         *)
LEMMA ScheduledStep ==
  ASSUME NEW s \in 0 .. Steps - 1
  PROVE  /\ TransferSchedule[s] \in Nat
         /\ Scheduled(s + 1) = Scheduled(s) - TransferSchedule[s]
<1> DEFINE q == BlockWidth \div Steps
<1>1. q \in Nat /\ Steps \in Nat /\ s \in Nat
  BY WidthParts, TraceAssumption
<1>2. (Steps - (s + 1)) * q = (Steps - s) * q - q
  <2> HIDE DEF q
  <2> QED  BY <1>1
<1>3. (Steps - s) * q \in Int
  <2> HIDE DEF q
  <2> QED  BY <1>1
<1> DEFINE rem == BlockWidth % Steps
<1>4. TransferSchedule[s] = q + (IF s < rem THEN 1 ELSE 0)
  BY DEF TransferSchedule
<1>6. rem \in Nat /\ (s < rem => s + 1 <= rem)
  BY <1>1, WidthParts
<1>7. /\ Scheduled(s) = (Steps - s) * q + (IF s < rem THEN rem - s ELSE 0)
      /\ Scheduled(s + 1) = (Steps - (s + 1)) * q + (IF s + 1 < rem THEN rem - (s + 1) ELSE 0)
  BY DEF Scheduled
<1>8. (IF s + 1 < rem THEN rem - (s + 1) ELSE 0)
        = (IF s < rem THEN rem - s ELSE 0) - (IF s < rem THEN 1 ELSE 0)
  BY <1>1, <1>6
<1> HIDE DEF q, rem
<1>9. QED  BY <1>1, <1>2, <1>3, <1>4, <1>6, <1>7, <1>8

(* No row gains masks, and one whose sampled tokens are no masks loses the *)
(* scheduled number or all it has.                                         *)
LEMMA TransferBounds ==
  ASSUME NEW masked \in Nat, NEW request, step \in 0 .. Steps - 1,
         NEW after \in MasksAfter(masked, request)
  PROVE  /\ after \in 0 .. masked
         /\ request \notin Erratic => after = 0 \/ after <= masked - TransferSchedule[step]
<1>1. PICK confident \in 0 .. masked :
        after \in LET taken == Transferred(masked, confident, TransferSchedule[step])
                  IN  {masked - taken + kept : kept \in IF request \in Erratic THEN 0 .. taken ELSE {0}}
  BY DEF MasksAfter
<1> DEFINE num == TransferSchedule[step]
           taken == Transferred(masked, confident, num)
<1>2. num \in Nat
  BY ScheduledStep
<1>3. taken \in 0 .. masked /\ (taken >= num \/ taken = masked)
  BY <1>2 DEF Transferred, Least
<1>4. PICK kept \in IF request \in Erratic THEN 0 .. taken ELSE {0} : after = masked - taken + kept
  BY <1>1
<1> QED  BY <1>2, <1>3, <1>4

(* A segment has at least one microbatch. *)
LEMMA OneMicrobatch == MicrobatchSize <= NumRequests
<1> DEFINE m == MicrobatchSize  n == NumRequests \div m
<1>1. m \in Nat \ {0} /\ n \in Nat /\ NumRequests = m * n /\ NumRequests \in Nat \ {0}
  BY TraceAssumption
<1>2. n >= 1
  <2>1. n # 0
    <3>1. m * 0 = 0
      BY <1>1
    <3> HIDE DEF n
    <3> QED  BY <1>1, <3>1
  <2> HIDE DEF n
  <2> QED  BY <1>1, <2>1
<1>3. m * n >= m
  <2> HIDE DEF m, n
  <2> QED  BY <1>1, <1>2
<1> QED  BY <1>1, <1>3

LEMMA FullMasksType == FullMasks \in [Row -> 0 .. BlockWidth] /\ \A r \in Row : FullMasks[r] = BlockWidth
BY TraceAssumption DEF FullMasks

(* A new block is on schedule. *)
LEMMA InvInit == Init => CollectorInv
<1> SUFFICES ASSUME Init  PROVE CollectorInv
  OBVIOUS
<1>1. TypeOK
  <2>1. files \in [1 .. Len(Artifacts) -> 0 .. 3]
    BY DEF Init, Artifacts
  <2>2. start \in Request /\ start + MicrobatchSize <= NumRequests
    BY OneMicrobatch, TraceAssumption DEF Init, Request
  <2> QED  BY <2>1, <2>2, FullMasksType, TraceAssumption DEF Init, TypeOK
<1>2. WholeMicrobatches
  <2>1. start = 0 * MicrobatchSize
    BY TraceAssumption DEF Init
  <2> QED  BY <2>1 DEF WholeMicrobatches
<1>3. OnSchedule
  BY FullMasksType, ScheduledStart, TraceAssumption DEF Init, OnSchedule
<1> QED  BY <1>1, <1>2, <1>3 DEF CollectorInv

LEMMA StepDenoise ==
  ASSUME CollectorInv, Denoise
  PROVE  CollectorInv'
<1>1. PICK after \in [Row -> 0 .. BlockWidth] :
        /\ \A r \in Row : IF r \in Active THEN after[r] \in MasksAfter(masks[r], RequestOf(r))
                                          ELSE after[r] = masks[r]
        /\ masks' = after
  BY DEF Denoise
<1>2. step \in 0 .. Steps - 1 /\ step' = step + 1 /\ status = "running"
  BY TraceAssumption DEF Denoise, CollectorInv, TypeOK
<1>3. UNCHANGED <<segment, start, block, status, files>>
  BY DEF Denoise
<1>4. TypeOK'
  BY <1>1, <1>2, <1>3, TraceAssumption DEF CollectorInv, TypeOK
<1>5. WholeMicrobatches'
  BY <1>3 DEF CollectorInv, WholeMicrobatches
<1>6. ASSUME NEW r \in Row, RequestOf(r) \notin Erratic
      PROVE  masks'[r] <= Scheduled(step + 1)
  <2>1. masks[r] \in Nat /\ masks[r] <= Scheduled(step)
    BY <1>2, <1>6 DEF CollectorInv, TypeOK, OnSchedule
  <2>2. /\ Scheduled(step + 1) \in Nat
        /\ Scheduled(step + 1) = Scheduled(step) - TransferSchedule[step]
        /\ TransferSchedule[step] \in Nat /\ Scheduled(step) \in Nat
    BY <1>2, ScheduledStep, ScheduledType, TraceAssumption
  <2>3. CASE r \in Active
    <3>1. after[r] \in MasksAfter(masks[r], RequestOf(r))
      BY <1>1, <2>3
    <3>2. after[r] \in 0 .. masks[r] /\ (after[r] = 0 \/ after[r] <= masks[r] - TransferSchedule[step])
      BY <1>2, <1>6, <2>1, <3>1, TransferBounds
    <3> QED  BY <1>1, <2>1, <2>2, <3>2
  <2>4. CASE r \notin Active
    BY <1>1, <2>1, <2>2, <2>4 DEF Active
  <2> QED  BY <2>3, <2>4
<1>7. OnSchedule'
  BY <1>2, <1>3, <1>6 DEF OnSchedule, RequestOf
<1> QED  BY <1>4, <1>5, <1>7 DEF CollectorInv

(* What every start of a block has in common. *)
LEMMA RestartOnSchedule ==
  ASSUME NEW b, Restart(b)
  PROVE  step' \in 0 .. Steps /\ masks' \in [Row -> 0 .. BlockWidth] /\ OnSchedule'
<1>1. step' = 0 /\ masks' = FullMasks
  BY DEF Restart
<1> QED  BY <1>1, FullMasksType, ScheduledStart, TraceAssumption DEF OnSchedule

(* The microbatch after this one is whole and within the requests.         *)
LEMMA NextStart ==
  ASSUME CollectorInv, start + MicrobatchSize < NumRequests
  PROVE  /\ start + MicrobatchSize \in Request
         /\ start + MicrobatchSize + MicrobatchSize <= NumRequests
         /\ \E k \in Nat : start + MicrobatchSize = k * MicrobatchSize
<1>1. PICK k \in Nat : start = k * MicrobatchSize
  BY DEF CollectorInv, WholeMicrobatches
<1> DEFINE m == MicrobatchSize  n == NumRequests \div m
<1>2. m \in Nat \ {0} /\ n \in Nat /\ NumRequests = m * n
  BY TraceAssumption
<1>3. (k + 1) * m = start + m /\ (k + 2) * m = start + m + m
  <2> HIDE DEF m
  <2> QED  BY <1>1, <1>2 DEF m
<1>4. k + 1 < n
  <2>1. (k + 1) * m < n * m
    BY <1>2, <1>3
  <2> HIDE DEF m, n
  <2> QED  BY <1>2, <2>1
<1>5. (k + 2) * m <= n * m
  <2> HIDE DEF m, n
  <2> QED  BY <1>2, <1>4
<1> QED  BY <1>1, <1>2, <1>3, <1>5, TraceAssumption DEF Request

LEMMA StepRestart ==
  ASSUME CollectorInv, NextBlock \/ NextMicrobatch \/ NextSegment
  PROVE  CollectorInv'
<1>1. CASE NextBlock
  <2>1. Restart(block + 1) /\ UNCHANGED <<segment, start, status, files>> /\ block + 1 < NumBlocks
    BY <1>1 DEF NextBlock
  <2>2. block' = block + 1
    BY <2>1 DEF Restart
  <2>3. OnSchedule' /\ step' \in 0 .. Steps /\ masks' \in [Row -> 0 .. BlockWidth]
    BY <2>1, RestartOnSchedule
  <2>4. block' \in 0 .. NumBlocks - 1
    BY <2>1, <2>2, TraceAssumption DEF CollectorInv, TypeOK
  <2>5. TypeOK' /\ WholeMicrobatches'
    BY <2>1, <2>3, <2>4 DEF CollectorInv, TypeOK, WholeMicrobatches
  <2> QED  BY <2>3, <2>5 DEF CollectorInv
<1>2. CASE NextMicrobatch
  <2>1. /\ Restart(0) /\ UNCHANGED <<segment, status, files>>
        /\ start' = start + MicrobatchSize /\ start + MicrobatchSize < NumRequests
    BY <1>2 DEF NextMicrobatch
  <2>2. block' = 0
    BY <2>1 DEF Restart
  <2>3. WholeMicrobatches'
    BY <2>1, NextStart DEF WholeMicrobatches
  <2>4. start' \in Request /\ start' + MicrobatchSize <= NumRequests
    BY <2>1, NextStart
  <2>5. OnSchedule' /\ step' \in 0 .. Steps /\ masks' \in [Row -> 0 .. BlockWidth]
    BY <2>1, RestartOnSchedule
  <2>6. TypeOK'
    BY <2>1, <2>2, <2>4, <2>5, TraceAssumption DEF CollectorInv, TypeOK
  <2> QED  BY <2>3, <2>5, <2>6 DEF CollectorInv
<1>3. CASE NextSegment
  <2>1. /\ Restart(0) /\ UNCHANGED <<status, files>>
        /\ start' = 0 /\ segment' = segment + 1 /\ segment < NumSegments
    BY <1>3 DEF NextSegment
  <2>2. block' = 0
    BY <2>1 DEF Restart
  <2>3. WholeMicrobatches'
    <3>1. 0 = 0 * MicrobatchSize
      BY TraceAssumption
    <3> QED  BY <2>1, <3>1 DEF WholeMicrobatches
  <2>4. start' \in Request /\ start' + MicrobatchSize <= NumRequests
    BY <2>1, OneMicrobatch, TraceAssumption DEF Request
  <2> QED  BY <2>1, <2>2, <2>3, <2>4, RestartOnSchedule, TraceAssumption DEF CollectorInv, TypeOK
<1> QED  BY <1>1, <1>2, <1>3

LEMMA StepWrite ==
  ASSUME CollectorInv, RaiseLeftMasks \/ BeginWriting \/ WriteArtifact \/ Crash
  PROVE  CollectorInv'
<1>1. UNCHANGED <<loops, masks>>
  BY DEF RaiseLeftMasks, BeginWriting, WriteArtifact, Crash
<1>2. status' \in {"raised", "writing", "crashed", "done"}
  BY DEF RaiseLeftMasks, BeginWriting, WriteArtifact, Crash
<1>3. files' \in [1 .. Len(Artifacts) -> 0 .. 3]
  <2>1. files \in [1 .. Len(Artifacts) -> 0 .. 3]
    BY DEF CollectorInv, TypeOK
  <2>2. files' = files \/ \E i \in DOMAIN Artifacts : \E left \in 0 .. 3 : files' = [files EXCEPT ![i] = left]
    <3>1. CASE RaiseLeftMasks \/ BeginWriting
      BY <3>1 DEF RaiseLeftMasks, BeginWriting
    <3>2. CASE WriteArtifact
      <4>1. PICK i \in DOMAIN Artifacts : files' = [files EXCEPT ![i] = 2]
        BY <3>2 DEF WriteArtifact
      <4>2. 2 \in 0 .. 3
        OBVIOUS
      <4> QED  BY <4>1, <4>2, Zenon
    <3>3. CASE Crash
      <4>1. PICK i \in DOMAIN Artifacts :
               \E left \in {files[i], 3} : files' = [files EXCEPT ![i] = left]
        BY <3>3 DEF Crash
      <4>2. files[i] \in 0 .. 3 /\ 3 \in 0 .. 3
        BY <2>1 DEF Artifacts
      <4>3. PICK left \in {files[i], 3} : files' = [files EXCEPT ![i] = left]
        BY <4>1
      <4>4. left \in 0 .. 3
        BY <4>2
      <4> QED  BY <4>3, <4>4, Zenon
    <3> QED  BY <3>1, <3>2, <3>3
  <2> QED  BY <2>1, <2>2
<1>4. TypeOK'
  BY <1>1, <1>2, <1>3 DEF CollectorInv, TypeOK, loops
<1>5. WholeMicrobatches' /\ OnSchedule'
  BY <1>1, <1>2 DEF CollectorInv, WholeMicrobatches, OnSchedule, loops
<1> QED  BY <1>4, <1>5 DEF CollectorInv

LEMMA StepStutter == CollectorInv /\ UNCHANGED vars => CollectorInv'
BY DEF CollectorInv, TypeOK, WholeMicrobatches, OnSchedule, RequestOf, vars, loops

LEMMA Invariance == Spec => []CollectorInv
<1>1. CollectorInv /\ [CollectorNext]_vars => CollectorInv'
  BY StepDenoise, StepRestart, StepWrite, StepStutter DEF CollectorNext
<1> QED  BY InvInit, <1>1, PTL DEF Spec

(* The collector never leaves its blocks, microbatches and segments, and   *)
(* its microbatches are whole (collect_llada2_router_trace.py:427-448).    *)
THEOREM CollectorTypeOK == Spec => []TypeOK
<1>1. CollectorInv => TypeOK
  BY DEF CollectorInv
<1> QED  BY <1>1, Invariance, PTL

(* Whatever the confidences, a block is finished after its last step: the  *)
(* program raises only for a request whose model sampled the mask token    *)
(* (collect_llada2_router_trace.py:484-510, 587-590).                      *)
THEOREM BlocksFinish == Spec => []OnlyMaskTokensStick
<1>1. CollectorInv => OnlyMaskTokensStick
  <2> SUFFICES ASSUME CollectorInv, BlockEnded, NEW r \in Active, RequestOf(r) \notin Erratic
               PROVE FALSE
    BY DEF OnlyMaskTokensStick
  <2>1. r \in Row /\ masks[r] > 0 /\ Active # {}
    BY DEF Active
  <2>2. status = "running" /\ step = Steps
    BY <2>1 DEF BlockEnded
  <2>3. masks[r] <= 0
    BY <2>1, <2>2, ScheduledEnd DEF CollectorInv, OnSchedule
  <2> QED  BY <2>1, <2>3 DEF CollectorInv, TypeOK
<1> QED  BY <1>1, Invariance, PTL

(* With a model that never samples the mask token the collector never      *)
(* raises.                                                                 *)
THEOREM NoRaise == ASSUME Erratic = {} PROVE Spec => [](status # "raised")
<1> DEFINE Inv == CollectorInv /\ status # "raised"
<1>1. Init => Inv
  BY InvInit DEF Init
<1>2. Inv /\ [CollectorNext]_vars => Inv'
  <2> SUFFICES ASSUME Inv, [CollectorNext]_vars
               PROVE Inv'
    OBVIOUS
  <2>1. CollectorInv'
    BY StepDenoise, StepRestart, StepWrite, StepStutter DEF CollectorNext
  <2>2. ~RaiseLeftMasks
    <3> SUFFICES ASSUME RaiseLeftMasks  PROVE FALSE
      OBVIOUS
    <3>1. PICK r \in Active : BlockEnded
      BY DEF RaiseLeftMasks
    <3>2. r \in Row /\ masks[r] > 0 /\ status = "running" /\ step = Steps
      BY <3>1 DEF Active, BlockEnded
    <3> QED  BY <3>2, ScheduledEnd DEF CollectorInv, OnSchedule, TypeOK
  <2>3. status' # "raised"
    BY <2>2 DEF CollectorNext, Denoise, NextBlock, NextMicrobatch, NextSegment, BeginWriting,
                WriteArtifact, Crash, vars
  <2> QED  BY <2>1, <2>3
<1>3. Inv => status # "raised"
  OBVIOUS
<1> HIDE DEF Inv
<1> QED  BY <1>1, <1>2, <1>3, PTL DEF Spec
-----------------------------------------------------------------------------
(* Local slots of a balanced mapping are below the experts of a rank, and  *)
(* grow with the expert.                                                   *)
LEMMA LocalSlotBounds ==
  ASSUME NEW numExperts \in Nat, NEW worldSize \in Nat \ {0}, NEW mapping,
         Balanced(mapping, numExperts, worldSize),
         NEW e \in DOMAIN mapping
  PROVE  LocalSlot(mapping, e) \in 0 .. (numExperts \div worldSize) - 1
<1> DEFINE own == {f \in 0 .. numExperts - 1 : mapping[f] = mapping[e]}
           below == {f \in DOMAIN mapping : f < e /\ mapping[f] = mapping[e]}
<1>1. DOMAIN mapping = 0 .. numExperts - 1 /\ mapping[e] \in 0 .. worldSize - 1
  BY DEF Balanced
<1>2. IsFiniteSet(own)
  <2>1. IsFiniteSet(0 .. numExperts - 1)
    BY FS_Interval
  <2>2. own \subseteq 0 .. numExperts - 1
    OBVIOUS
  <2> QED  BY <2>1, <2>2, FS_Subset
<1>3. Cardinality(own) = numExperts \div worldSize
  BY <1>1 DEF Balanced
<1>4. below \subseteq own /\ e \in own /\ e \notin below
  BY <1>1
<1>5. IsFiniteSet(below) /\ Cardinality(below) <= Cardinality(own) /\ below # own
  BY <1>2, <1>4, FS_Subset
<1>6. Cardinality(below) \in Nat /\ Cardinality(own) \in Nat /\ Cardinality(below) # Cardinality(own)
  BY <1>2, <1>4, <1>5, FS_Subset, FS_CardinalityType
<1> QED  BY <1>3, <1>5, <1>6 DEF LocalSlot

LEMMA LocalSlotGrows ==
  ASSUME NEW numExperts \in Nat, NEW worldSize \in Nat \ {0}, NEW mapping,
         Balanced(mapping, numExperts, worldSize),
         NEW e \in DOMAIN mapping, NEW f \in DOMAIN mapping,
         mapping[e] = mapping[f], e < f
  PROVE  LocalSlot(mapping, e) < LocalSlot(mapping, f)
<1> DEFINE below(x) == {g \in DOMAIN mapping : g < x /\ mapping[g] = mapping[x]}
<1>1. DOMAIN mapping = 0 .. numExperts - 1
  BY DEF Balanced
<1>2. IsFiniteSet(below(f))
  <2>1. IsFiniteSet(0 .. numExperts - 1)
    BY FS_Interval
  <2>2. below(f) \subseteq 0 .. numExperts - 1
    BY <1>1
  <2> QED  BY <2>1, <2>2, FS_Subset
<1>3. below(e) \subseteq below(f) /\ e \in below(f) /\ e \notin below(e)
  BY <1>1
<1>4. Cardinality(below(e)) \in Nat /\ Cardinality(below(f)) \in Nat
      /\ Cardinality(below(e)) < Cardinality(below(f))
  BY <1>2, <1>3, FS_Subset, FS_CardinalityType
<1> QED  BY <1>4 DEF LocalSlot

LEMMA AddCancels ==
  ASSUME NEW a \in Int, NEW c \in Int, NEW d \in Int, a + c = a + d
  PROVE  c = d
OBVIOUS

(* Renumbering the experts for the planner keeps every expert on its rank  *)
(* and apart from the others, for every mapping that the screen accepts    *)
(* (screen_measured_router_trace.py:100-132).                              *)
THEOREM PlannerIdsRenumber ==
  ASSUME NEW numExperts \in Nat, NEW worldSize \in Nat \ {0}, NEW mapping,
         Balanced(mapping, numExperts, worldSize)
  PROVE  Renumbered(mapping, numExperts \div worldSize)
<1> DEFINE q == numExperts \div worldSize
           ids == PlannerIds(mapping, q)
<1>1. ASSUME NEW e \in DOMAIN mapping
      PROVE  /\ mapping[e] \in Nat /\ q \in Nat \ {0} /\ LocalSlot(mapping, e) \in 0 .. q - 1
             /\ ids[e] = mapping[e] * q + LocalSlot(mapping, e)
             /\ ids[e] \div q = mapping[e]
  <2>1. mapping[e] \in Nat /\ q \in Nat
    BY DEF Balanced
  <2>2. LocalSlot(mapping, e) \in 0 .. q - 1
    BY LocalSlotBounds
  <2>3. ids[e] = mapping[e] * q + LocalSlot(mapping, e)
    BY DEF PlannerIds
  <2>4. ASSUME NEW a \in Nat, NEW b \in Nat \ {0}, NEW c \in 0 .. b - 1
        PROVE  (a * b + c) \div b = a
    OBVIOUS
  <2> HIDE DEF q, ids
  <2> QED  BY <2>1, <2>2, <2>3, <2>4
<1>2. ASSUME NEW e \in DOMAIN mapping, NEW f \in DOMAIN mapping, ids[e] = ids[f]
      PROVE  e = f
  <2>1. mapping[e] = mapping[f]
    BY <1>1, <1>2
  <2>2. LocalSlot(mapping, e) = LocalSlot(mapping, f)
    <3>2. mapping[e] * q \in Nat
      <4> HIDE DEF q
      <4> QED  BY <1>1
    <3>3. mapping[e] * q + LocalSlot(mapping, e) = mapping[e] * q + LocalSlot(mapping, f)
      BY <1>1, <1>2, <2>1, Zenon
    <3>4. LocalSlot(mapping, e) \in Int /\ LocalSlot(mapping, f) \in Int
      BY <1>1
    <3> HIDE DEF q, ids
    <3> QED  BY <3>2, <3>3, <3>4, AddCancels
  <2>3. e \in Int /\ f \in Int
    BY DEF Balanced
  <2>4. LocalSlot(mapping, e) \in Int
    BY <1>1
  <2> QED  BY <2>1, <2>2, <2>3, <2>4, LocalSlotGrows
<1> QED  BY <1>1, <1>2 DEF Renumbered, PlannerRank
(* The multiples of a rank's share delimit its contiguous experts.          *)
LEMMA DivisionBlock ==
  ASSUME NEW e \in Nat, NEW k \in Nat \ {0}, NEW r \in Nat
  PROVE  (e \div k = r) <=> e \in r * k .. r * k + (k - 1)
<1> DEFINE q == e \div k
           m == e % k
<1>1. q \in Nat /\ m \in 0 .. k - 1 /\ e = q * k + m
  OBVIOUS
<1>2. ASSUME NEW c \in 0 .. k - 1, e = r * k + c
      PROVE  e \div k = r
  BY <1>2
<1>3. ASSUME e \in r * k .. r * k + (k - 1)
      PROVE  q = r
  <2>1. r * k \in Nat
    OBVIOUS
  <2>2. (e - r * k) \in 0 .. k - 1 /\ e = r * k + (e - r * k)
    BY <1>3, <2>1
  <2> QED  BY <1>2, <2>2
<1>4. ASSUME q = r
      PROVE  e \in r * k .. r * k + (k - 1)
  <2>1. q * k \in Nat
    BY <1>1
  <2>2. e \in q * k .. q * k + (k - 1)
    <3> HIDE DEF q, m
    <3> QED  BY <1>1, <2>1
  <2> QED  BY <1>4, <2>2
<1> QED  BY <1>3, <1>4

(* A rank that is not the last one ends before the last expert.             *)
LEMMA BlockInside ==
  ASSUME NEW k \in Nat \ {0}, NEW w \in Nat \ {0}, NEW r \in 0 .. w - 1
  PROVE  r * k \in Nat /\ r * k + k <= w * k /\ w * k \in Nat
<1>1. PICK d \in Nat : w = r + 1 + d
  <2>1. w - 1 - r \in Nat /\ w = r + 1 + (w - 1 - r)
    OBVIOUS
  <2> QED  BY <2>1
<1>2. r * k \in Nat /\ d * k \in Nat
  BY <1>1
<1>3. w * k = r * k + k + d * k
  BY <1>1
<1> QED  BY <1>2, <1>3

LEMMA ShareOfRank ==
  ASSUME NEW n \in Nat \ {0}, NEW w \in Nat \ {0}, n % w = 0
  PROVE  n \div w \in Nat \ {0} /\ n = w * (n \div w)
<1>1. n = (n \div w) * w + (n % w) /\ n \div w \in Nat
  OBVIOUS
<1>2. n = (n \div w) * w
  BY <1>1
<1>3. n \div w # 0
  BY <1>2
<1> QED  BY <1>1, <1>2, <1>3

(* The two placements of the native analysis, _mapping(), are balanced      *)
(* whenever it does not raise (analyze_native_route_opportunity.py:322), so *)
(* that the renumbering is exact for them as well.                          *)
THEOREM MappingsBalanced ==
  ASSUME NEW numExperts \in Nat \ {0}, NEW worldSize \in Nat \ {0}, numExperts % worldSize = 0
  PROVE  /\ Balanced(Contiguous(numExperts, worldSize), numExperts, worldSize)
         /\ Balanced(RoundRobin(numExperts, worldSize), numExperts, worldSize)
<1> DEFINE k == numExperts \div worldSize
           all == 0 .. numExperts - 1
           blocks == [e \in all |-> e \div k]
           turns == [e \in all |-> e % worldSize]
<1>1. k \in Nat \ {0} /\ numExperts = worldSize * k
  BY ShareOfRank
<1> HIDE DEF k
<1>2. ASSUME NEW rank \in 0 .. worldSize - 1
      PROVE  /\ rank * k \in Nat /\ rank * k + k <= numExperts
             /\ IsFiniteSet(rank * k .. rank * k + (k - 1))
             /\ Cardinality(rank * k .. rank * k + (k - 1)) = k
  <2>1. rank * k \in Nat /\ rank * k + k <= numExperts
    BY <1>1, BlockInside
  <2> DEFINE first == rank * k
  <2> HIDE DEF first
  <2>2. first \in Int /\ first + (k - 1) \in Int /\ ~(first > first + (k - 1))
    BY <1>1, <2>1 DEF first
  <2>3. (first + (k - 1)) - first + 1 = k
    BY <1>1, <2>2
  <2>4. IsFiniteSet(first .. first + (k - 1)) /\ Cardinality(first .. first + (k - 1)) = k
    BY <2>2, <2>3, FS_Interval
  <2> QED  BY <2>1, <2>4 DEF first
<1>3. blocks \in [all -> 0 .. worldSize - 1]
  <2>1. ASSUME NEW e \in all
        PROVE  e \div k \in 0 .. worldSize - 1
    <3>1. e \div k \in Nat
      BY <1>1
    <3>2. e \in (e \div k) * k .. (e \div k) * k + (k - 1)
      BY <1>1, <3>1, DivisionBlock
    <3>3. ASSUME ~(e \div k < worldSize)
          PROVE  FALSE
      <4> DEFINE q == e \div k
      <4> HIDE DEF q
      <4>1. worldSize \in 0 .. (q + 1) - 1
        BY <3>1, <3>3 DEF q
      <4>2. worldSize * k + k <= (q + 1) * k /\ (q + 1) * k = q * k + k /\ q * k \in Nat /\ worldSize * k \in Nat
        BY <1>1, <3>1, <4>1, BlockInside DEF q
      <4> QED  BY <1>1, <3>2, <4>2 DEF q
    <3> QED  BY <3>1, <3>3
  <2> QED  BY <2>1
<1>4. ASSUME NEW rank \in 0 .. worldSize - 1
      PROVE  Cardinality({e \in all : blocks[e] = rank}) = k
  <2>1. {e \in all : blocks[e] = rank} = rank * k .. rank * k + (k - 1)
    <3>1. ASSUME NEW e \in all
          PROVE  blocks[e] = rank <=> e \in rank * k .. rank * k + (k - 1)
      BY <1>1, DivisionBlock
    <3>2. rank * k .. rank * k + (k - 1) \subseteq all
      <4> DEFINE first == rank * k
      <4> HIDE DEF first
      <4>1. first \in Nat /\ first + k <= numExperts
        BY <1>2 DEF first
      <4>2. first .. first + (k - 1) \subseteq all
        BY <4>1, <1>1
      <4> QED  BY <4>2 DEF first
    <3> HIDE DEF blocks, all
    <3> QED  BY <3>1, <3>2
  <2> QED  BY <1>2, <2>1
<1>5. turns \in [all -> 0 .. worldSize - 1]
  OBVIOUS
<1>6. ASSUME NEW rank \in 0 .. worldSize - 1
      PROVE  Cardinality({e \in all : turns[e] = rank}) = k
  <2> DEFINE mine == {e \in all : turns[e] = rank}
             nth == [i \in 0 .. k - 1 |-> i * worldSize + rank]
  <2>1. nth \in [0 .. k - 1 -> mine]
    <3>1. ASSUME NEW i \in 0 .. k - 1
          PROVE  i * worldSize + rank \in all /\ (i * worldSize + rank) % worldSize = rank
      <4>1. i * worldSize \in Nat /\ i * worldSize + worldSize <= k * worldSize /\ k * worldSize = worldSize * k
        BY <1>1, BlockInside
      <4>2. i * worldSize + rank \in all
        BY <1>1, <4>1
      <4>3. (i * worldSize + rank) % worldSize = rank
        BY <1>1
      <4> QED  BY <4>2, <4>3
    <3> QED  BY <3>1
  <2>2. \A i, j \in 0 .. k - 1 : nth[i] = nth[j] => i = j
    <3> SUFFICES ASSUME NEW i \in 0 .. k - 1, NEW j \in 0 .. k - 1, nth[i] = nth[j]
                 PROVE  i = j
      OBVIOUS
    <3>1. ASSUME NEW x \in 0 .. k - 1
          PROVE  (x * worldSize + rank) \div worldSize = x
      BY <1>1
    <3> QED  BY <3>1
  <2>3. \A e \in mine : \E i \in 0 .. k - 1 : nth[i] = e
    <3> SUFFICES ASSUME NEW e \in mine
                 PROVE  \E i \in 0 .. k - 1 : nth[i] = e
      OBVIOUS
    <3> DEFINE i == e \div worldSize
    <3>1. i \in Nat /\ e = i * worldSize + rank
      <4>1. e \in Nat /\ e % worldSize = rank
        OBVIOUS
      <4>2. e = (e \div worldSize) * worldSize + (e % worldSize) /\ e \div worldSize \in Nat
        BY <4>1
      <4> QED  BY <4>1, <4>2
    <3> HIDE DEF i
    <3>2. i < k
      <4>1. SUFFICES ASSUME ~(i < k) PROVE FALSE
        OBVIOUS
      <4>2. k \in 0 .. (i + 1) - 1
        BY <1>1, <3>1, <4>1
      <4>3. k * worldSize + worldSize <= (i + 1) * worldSize /\ (i + 1) * worldSize = i * worldSize + worldSize
            /\ k * worldSize = worldSize * k /\ i * worldSize \in Nat
        BY <1>1, <3>1, <4>2, BlockInside
      <4> QED  BY <1>1, <3>1, <4>3
    <3>3. i \in 0 .. k - 1 /\ nth[i] = e
      BY <1>1, <3>1, <3>2
    <3> QED  BY <3>3
  <2>4. nth \in Bijection(0 .. k - 1, mine)
    <3> HIDE DEF nth, mine
    <3> QED  BY <2>1, <2>2, <2>3 DEF Bijection, Injection, Surjection, IsInjective
  <2>5. IsFiniteSet(0 .. k - 1) /\ Cardinality(0 .. k - 1) = k
    BY <1>1, FS_Interval
  <2> HIDE DEF nth, mine
  <2>6. Cardinality(mine) = k
    BY <2>4, <2>5, FS_Bijection DEF ExistsBijection
  <2> QED  BY <2>6 DEF mine
<1> QED  BY <1>3, <1>4, <1>5, <1>6 DEF Balanced, Contiguous, RoundRobin, k

-----------------------------------------------------------------------------
(* The observations of a collection.  The files it writes take the place   *)
(* of earlier ones from the first to the last.                             *)

FilesInOrder ==
  \A i, j \in DOMAIN Artifacts : i < j =>
    /\ files[j] = 2 => files[i] = 2
    /\ files[j] = 1 => files[i] # 0

(* What the forward `row' left of the block that is being denoised.        *)
Left(row, r) ==
  \E j \in DOMAIN row.requests :
    /\ row.phase = "native_denoising" /\ row.requests[j] = RequestOf(r)
    /\ StepKey(row) = <<segment, block, step - 1>>
    /\ row.after[j] = masks[r]

(* The masks at hand are those of a fresh block or those that the last     *)
(* forward of this block has left, which is in the manifest.               *)
MasksObserved ==
  status = "running" =>
    \A r \in Row :
      IF step = 0 THEN masks[r] = BlockWidth
      ELSE masks[r] > 0 => \E last \in ManifestRows : Left(last, r)

(* The steps of the observations are numbers. *)
KeysAreNumbers ==
  \A row \in ManifestRows : row.segment \in Int /\ row.block \in Int /\ row.step \in Int

ManifestInv ==
  /\ observations \in Seq(ManifestRows)
  /\ KeysAreNumbers /\ MasksObserved /\ ManifestChains


(* Reading the trace does not touch it. *)
LEMMA CollectorStep == AnalysisNext => [CollectorNext]_vars
BY DEF AnalysisNext, AnalyzeRoutes, Finished, analysisVars

LEMMA AnalysisCollects == AnalysisSpec => Spec
<1>1. AnalysisInit => Init
  BY DEF AnalysisInit
<1>2. [AnalysisNext]_analysisVars => [CollectorNext]_vars
  BY CollectorStep DEF analysisVars
<1> QED  BY <1>1, <1>2, PTL DEF AnalysisSpec, Spec

(* The first file that is not of this collection is written or cut off. *)
LEMMA FilesAdvance ==
  ASSUME TypeOK, FilesInOrder, NEW i \in DOMAIN Artifacts, Due(i),
         NEW content \in {files[i], 2, 3}, files' = [files EXCEPT ![i] = content]
  PROVE  FilesInOrder'
<1>1. DOMAIN Artifacts = 1 .. 7 /\ DOMAIN files = 1 .. 7
  BY DEF TypeOK, Artifacts
<1>2. \A j \in 1 .. i - 1 : files[j] = 2
  BY DEF Due
<1>3. ASSUME NEW j \in 1 .. 7, NEW k \in 1 .. 7, j < k
      PROVE  (files'[k] = 2 => files'[j] = 2) /\ (files'[k] = 1 => files'[j] # 0)
  <2>1. CASE k = i
    BY <1>1, <1>2, <1>3, <2>1
  <2>2. CASE j = i
    BY <1>1, <1>3, <2>2 DEF FilesInOrder, Due
  <2>3. CASE k # i /\ j # i
    BY <1>1, <1>3, <2>3 DEF FilesInOrder
  <2> QED  BY <2>1, <2>2, <2>3
<1> QED  BY <1>1, <1>3 DEF FilesInOrder

LEMMA StepFiles ==
  ASSUME TypeOK, FilesInOrder, [CollectorNext]_vars
  PROVE  FilesInOrder'
<1>1. CASE UNCHANGED files
  BY <1>1 DEF FilesInOrder
<1>2. CASE WriteArtifact
  <2>1. PICK i \in DOMAIN Artifacts : Due(i) /\ files' = [files EXCEPT ![i] = 2]
    BY <1>2 DEF WriteArtifact
  <2> QED  BY <2>1, FilesAdvance
<1>3. CASE Crash
  <2>1. PICK i \in DOMAIN Artifacts :
          Due(i) /\ \E left \in {files[i], 3} : files' = [files EXCEPT ![i] = left]
    BY <1>3 DEF Crash
  <2>2. PICK left \in {files[i], 3} : files' = [files EXCEPT ![i] = left]
    BY <2>1
  <2> QED  BY <2>1, <2>2, FilesAdvance
<1>4. UNCHANGED files \/ WriteArtifact \/ Crash
  BY DEF CollectorNext, Denoise, RaiseLeftMasks, NextBlock, NextMicrobatch, NextSegment, BeginWriting, vars
<1> QED  BY <1>1, <1>2, <1>3, <1>4

LEMMA FileNames ==
  /\ FileIndex("routes_dense") = 1 /\ FileIndex("position_roles_dense") = 3
  /\ FileIndex("route_observations") = 4 /\ FileIndex("route_metadata") = 7
<1>1. DOMAIN Artifacts = 1 .. 7
  BY DEF Artifacts
<1>2. ASSUME NEW i \in 1 .. 7
      PROVE  /\ Artifacts[i] = "routes_dense" <=> i = 1
             /\ Artifacts[i] = "position_roles_dense" <=> i = 3
             /\ Artifacts[i] = "route_observations" <=> i = 4
             /\ Artifacts[i] = "route_metadata" <=> i = 7
  <2>1. i = 1 \/ i = 2 \/ i = 3 \/ i = 4 \/ i = 5 \/ i = 6 \/ i = 7
    OBVIOUS
  <2> QED  BY <2>1 DEF Artifacts
<1> QED  BY <1>1, <1>2 DEF FileIndex

(* The analysis accepts only what one collection has written.              *)
LEMMA AcceptedFiles ==
  ASSUME TypeOK, FilesInOrder, NativeAccepts
  PROVE  \E c \in {1, 2} : files[1] = c /\ files[3] = c /\ files[4] = c
<1>1. /\ FileOf("routes_dense") = files[1] /\ FileOf("position_roles_dense") = files[3]
      /\ FileOf("route_observations") = files[4] /\ FileOf("route_metadata") = files[7]
  BY FileNames DEF FileOf
<1>2. /\ files[7] \in {1, 2} /\ files[4] = files[7] /\ files[1] = files[7]
      /\ files[3] = 0 \/ files[3] = files[7]
  BY <1>1 DEF NativeAccepts, Readable, Matches
<1>3. files[7] = 2 => files[3] = 2
  BY DEF FilesInOrder, Artifacts
<1>4. files[7] = 1 => files[3] # 0
  BY DEF FilesInOrder, Artifacts
<1> QED  BY <1>2, <1>3, <1>4

(* A report rests on the manifest, the routes and the roles of one         *)
(* collection, wherever this one was cut off and whatever an earlier one   *)
(* had left in the directory (analyze_native_route_opportunity.py:89-104). *)
THEOREM ReportsAreSound == AnalysisSpec => []ReportSound
<1>1. AnalysisInit => FilesInOrder /\ ReportSound
  <2> SUFFICES ASSUME AnalysisInit  PROVE FilesInOrder /\ ReportSound
    OBVIOUS
  <2>1. PICK n \in Leftovers : files = [i \in DOMAIN Artifacts |-> IF i <= n THEN 1 ELSE 0]
    BY DEF AnalysisInit, Init
  <2>2. DOMAIN Artifacts = 1 .. 7 /\ n \in Int
    BY TraceAssumption DEF Artifacts
  <2>3. FilesInOrder
    BY <2>1, <2>2 DEF FilesInOrder
  <2> QED  BY <2>3 DEF AnalysisInit, ReportSound
<1>2. ASSUME TypeOK, FilesInOrder, ReportSound, [AnalysisNext]_analysisVars
      PROVE  FilesInOrder' /\ ReportSound'
  <2>1. FilesInOrder'
    BY <1>2, StepFiles, CollectorStep DEF analysisVars
  <2>2. CASE UNCHANGED report
    BY <1>2, <2>1, <2>2 DEF ReportSound
  <2>3. CASE AnalyzeRoutes
    <3>1. NativeAccepts /\ report'.files = files
      BY <2>3 DEF AnalyzeRoutes
    <3>2. \E c \in {1, 2} : files[1] = c /\ files[3] = c /\ files[4] = c
      BY <1>2, <3>1, AcceptedFiles
    <3> QED  BY <2>1, <3>1, <3>2, FileNames DEF ReportSound
  <2>4. UNCHANGED report \/ AnalyzeRoutes
    BY <1>2 DEF AnalysisNext, Finished, analysisVars
  <2> QED  BY <2>2, <2>3, <2>4
<1> QED  BY <1>1, <1>2, AnalysisCollects, CollectorTypeOK, PTL DEF AnalysisSpec

(* The rows of a manifest with one more, and with more. *)
LEMMA AppendRange ==
  ASSUME NEW S, NEW seq \in Seq(S), NEW elt
  PROVE  /\ Append(seq, elt) \in Seq(S \union {elt})
         /\ ToSet(Append(seq, elt)) = ToSet(seq) \union {elt}
<1>1. seq \in Seq(S \union {elt}) /\ elt \in S \union {elt}
  BY SeqMonotonic
<1>2. /\ Append(seq, elt) \in Seq(S \union {elt})
      /\ Len(Append(seq, elt)) = Len(seq) + 1
      /\ \A i \in 1 .. Len(seq) : Append(seq, elt)[i] = seq[i]
      /\ Append(seq, elt)[Len(seq) + 1] = elt
  BY <1>1, AppendProperties
<1>3. /\ Len(seq) \in Nat /\ DOMAIN seq = 1 .. Len(seq)
      /\ DOMAIN Append(seq, elt) = 1 .. Len(Append(seq, elt))
  BY <1>1, <1>2, LenProperties
<1> DEFINE longer == Append(seq, elt)
<1> HIDE DEF longer
<1>4. ToSet(longer) = ToSet(seq) \union {elt}
  <2>1. ASSUME NEW i \in DOMAIN longer
        PROVE  longer[i] \in {seq[k] : k \in DOMAIN seq} \union {elt}
    BY <1>2, <1>3 DEF longer
  <2>2. ASSUME NEW i \in DOMAIN seq
        PROVE  i \in DOMAIN longer /\ longer[i] = seq[i]
    BY <1>2, <1>3 DEF longer
  <2>3. Len(seq) + 1 \in DOMAIN longer /\ longer[Len(seq) + 1] = elt
    BY <1>2, <1>3 DEF longer
  <2> QED  BY <2>1, <2>2, <2>3 DEF ToSet
<1> QED  BY <1>2, <1>4 DEF longer

LEMMA ConcatRange ==
  ASSUME NEW S, NEW T, NEW s \in Seq(S), NEW t \in Seq(T)
  PROVE  /\ s \o t \in Seq(S \union T)
         /\ ToSet(s \o t) = ToSet(s) \union ToSet(t)
<1>1. s \in Seq(S \union T) /\ t \in Seq(S \union T)
  BY SeqMonotonic
<1>2. /\ s \o t \in Seq(S \union T)
      /\ Len(s \o t) = Len(s) + Len(t)
      /\ \A i \in 1 .. Len(s) + Len(t) : (s \o t)[i] = IF i <= Len(s) THEN s[i] ELSE t[i - Len(s)]
  BY <1>1, ConcatProperties
<1>3. /\ Len(s) \in Nat /\ DOMAIN s = 1 .. Len(s)
      /\ Len(t) \in Nat /\ DOMAIN t = 1 .. Len(t)
      /\ DOMAIN (s \o t) = 1 .. Len(s \o t)
  BY <1>1, <1>2, LenProperties
<1> DEFINE st == s \o t
<1> HIDE DEF st
<1>4. ToSet(st) = ToSet(s) \union ToSet(t)
  <2>1. ASSUME NEW i \in DOMAIN st
        PROVE  st[i] \in {s[k] : k \in DOMAIN s} \union {t[k] : k \in DOMAIN t}
    <3>1. CASE i <= Len(s)
      BY <1>2, <1>3, <3>1 DEF st
    <3>2. CASE ~(i <= Len(s))
      <4>1. i - Len(s) \in DOMAIN t /\ st[i] = t[i - Len(s)]
        BY <1>2, <1>3, <3>2 DEF st
      <4> QED  BY <4>1
    <3> QED  BY <3>1, <3>2
  <2>2. ASSUME NEW i \in DOMAIN s
        PROVE  i \in DOMAIN st /\ st[i] = s[i]
    BY <1>2, <1>3 DEF st
  <2>3. ASSUME NEW i \in DOMAIN t
        PROVE  Len(s) + i \in DOMAIN st /\ st[Len(s) + i] = t[i]
    <3>1. Len(s) + i \in 1 .. Len(s) + Len(t) /\ ~(Len(s) + i <= Len(s)) /\ (Len(s) + i) - Len(s) = i
      BY <1>3
    <3> QED  BY <1>2, <1>3, <3>1 DEF st
  <2> QED  BY <2>1, <2>2, <2>3 DEF ToSet
<1> QED  BY <1>2, <1>4 DEF st

(* The manifest grows by rows with numbers for keys that continue it.      *)
LEMMA ManifestGrows ==
  ASSUME KeysAreNumbers, ManifestChains, NEW new, ManifestRows' = ManifestRows \union new,
         \A row \in new : row.segment \in Int /\ row.block \in Int /\ row.step \in Int,
         \A row \in new : Chained(row, ManifestRows)
  PROVE  KeysAreNumbers' /\ ManifestChains'
<1>1. ASSUME NEW row, Chained(row, ManifestRows)
      PROVE  Chained(row, ManifestRows')
  BY <1>1 DEF Chained
<1>2. KeysAreNumbers'
  BY DEF KeysAreNumbers
<1>3. ManifestChains'
  BY <1>1 DEF ManifestChains
<1> QED  BY <1>2, <1>3

(* The controlled sweep has masks everywhere and chains of its own. *)
LEMMA SweepRows ==
  ASSUME NEW s \in Int
  PROVE  /\ InitialSweep(s) \in Seq(ToSet(InitialSweep(s)))
         /\ \A i \in DOMAIN InitialSweep(s) :
              LET row == InitialSweep(s)[i]
              IN  /\ row.segment \in Int /\ row.block \in Int /\ row.step \in Int
                  /\ \A rows : Chained(row, rows)
<1>1. InitialWidths \in Seq(Nat \ {0})
  BY TraceAssumption
<1>2. /\ DOMAIN InitialWidths = 1 .. Len(InitialWidths) /\ Len(InitialWidths) \in Nat
      /\ \A i \in DOMAIN InitialWidths : InitialWidths[i] \in Nat \ {0}
  BY <1>1, LenProperties
<1>3. /\ DOMAIN InitialSweep(s) = DOMAIN InitialWidths
      /\ \A i \in DOMAIN InitialWidths : InitialSweep(s)[i] = InitialObservation(s, InitialWidths[i])
  BY DEF InitialSweep
<1> DEFINE range == ToSet(InitialSweep(s))
<1>4. InitialSweep(s) \in [1 .. Len(InitialWidths) -> range]
  BY <1>2 DEF InitialSweep, ToSet
<1>5. InitialSweep(s) \in Seq(range)
  <2> HIDE DEF range
  <2> QED  BY <1>2, <1>4, SeqDef
<1>6. ASSUME NEW width \in Nat \ {0}
      PROVE  LET row == InitialObservation(s, width)
             IN  /\ row.segment \in Int /\ row.block \in Int /\ row.step \in Int
                 /\ \A rows : Chained(row, rows)
  <2> DEFINE row == InitialObservation(s, width)
  <2>1. /\ row.phase = "initial_width_ablation" /\ row.segment = s /\ row.block = 0 /\ row.step = 0
        /\ row.requests = [i \in 1 .. NumRequests |-> i - 1]
        /\ row.routes = [i \in 1 .. NumRequests |-> [segment |-> s, request |-> i - 1, block |-> 0, step |-> 0]]
        /\ row.before = [i \in 1 .. NumRequests |-> width]
    BY DEF InitialObservation
  <2> HIDE DEF row
  <2>2. row.phase # "native_denoising"
    BY <2>1
  <2>3. \A i \in DOMAIN row.requests : row.routes[i].request = row.requests[i] /\ row.before[i] > 0
    BY <2>1
  <2>4. \A rows : Chained(row, rows)
    BY <2>2, <2>3 DEF Chained
  <2> QED  BY <2>1, <2>4 DEF row
<1> QED  BY <1>2, <1>3, <1>5, <1>6

LEMMA ManifestInit == Init => ManifestInv
<1> SUFFICES ASSUME Init  PROVE ManifestInv
  OBVIOUS
<1>1. observations = InitialSweep(1) /\ masks = FullMasks /\ step = 0
  BY DEF Init
<1>2. ManifestRows = ToSet(InitialSweep(1))
  BY <1>1 DEF ManifestRows
<1>3. observations \in Seq(ManifestRows) /\ KeysAreNumbers /\ ManifestChains
  BY <1>1, <1>2, SweepRows DEF KeysAreNumbers, ManifestChains, ToSet
<1> QED  BY <1>1, <1>3, FullMasksType DEF ManifestInv, MasksObserved

(* The observation of a forward continues the manifest and records what    *)
(* the forward leaves.                                                     *)
LEMMA ObservationChains ==
  ASSUME TypeOK, MasksObserved, status = "running", NEW after
  PROVE  /\ Observation(after).segment \in Int /\ Observation(after).block \in Int
         /\ Observation(after).step \in Int
         /\ Chained(Observation(after), ManifestRows)
         /\ \A r \in Active : \E j \in DOMAIN Observation(after).requests :
              /\ Observation(after).requests[j] = RequestOf(r)
              /\ Observation(after).after[j] = after[r]
<1> DEFINE rows == Ascending(Active)
           row == Observation(after)
<1>1. Active \in SUBSET Int /\ IsFiniteSet(Active)
  <2>1. Active \subseteq Row /\ Row \subseteq Int
    BY DEF Active, Row
  <2>2. IsFiniteSet(Row)
    BY TraceAssumption, FS_Interval DEF Row
  <2> QED  BY <2>1, <2>2, FS_Subset
<1>2. /\ \A i \in DOMAIN rows : rows[i] \in Active
      /\ \A r \in Active : \E i \in DOMAIN rows : rows[i] = r
  BY <1>1, AscendingLists
<1> HIDE DEF rows
<1>3. /\ row.phase = "native_denoising"
      /\ row.segment = segment /\ row.block = block /\ row.step = step
      /\ row.requests = [i \in DOMAIN rows |-> RequestOf(rows[i])]
      /\ row.routes = [i \in DOMAIN rows |->
                         [segment |-> segment, request |-> RequestOf(rows[i]), block |-> block, step |-> step]]
      /\ row.before = [i \in DOMAIN rows |-> masks[rows[i]]]
      /\ row.after = [i \in DOMAIN rows |-> after[rows[i]]]
  BY DEF Observation, Observed, rows
<1> HIDE DEF row
<1>4. segment \in Int /\ block \in Int /\ step \in Int
  BY TraceAssumption DEF TypeOK
<1>5. ASSUME NEW i \in DOMAIN row.requests
      PROVE  /\ row.routes[i].request = row.requests[i]
             /\ row.before[i] > 0
             /\ row.phase = "native_denoising" =>
                  IF row.step = 0 THEN row.before[i] = BlockWidth
                  ELSE \E last \in ManifestRows : Precedes(last, row, i)
  <2>1. i \in DOMAIN rows /\ rows[i] \in Active
    BY <1>2, <1>3, <1>5
  <2>2. /\ rows[i] \in Row /\ masks[rows[i]] > 0
        /\ row.before[i] = masks[rows[i]] /\ row.requests[i] = RequestOf(rows[i])
        /\ row.routes[i].request = RequestOf(rows[i])
    BY <1>3, <2>1 DEF Active
  <2>3. CASE step = 0
    BY <1>3, <2>2, <2>3 DEF MasksObserved
  <2>4. CASE step # 0
    <3>1. PICK last \in ManifestRows : Left(last, rows[i])
      BY <2>2, <2>4 DEF MasksObserved
    <3>2. Precedes(last, row, i)
      BY <1>3, <2>2, <3>1 DEF Left, Precedes
    <3> QED  BY <1>3, <2>2, <2>4, <3>2
  <2> QED  BY <2>3, <2>4
<1>6. Chained(row, ManifestRows)
  BY <1>5 DEF Chained
<1>7. ASSUME NEW r \in Active
      PROVE  \E j \in DOMAIN row.requests : row.requests[j] = RequestOf(r) /\ row.after[j] = after[r]
  <2>1. PICK j \in DOMAIN rows : rows[j] = r
    BY <1>2
  <2>2. j \in DOMAIN row.requests /\ row.requests[j] = RequestOf(r) /\ row.after[j] = after[r]
    BY <1>3, <2>1
  <2> QED  BY <2>2
<1> QED  BY <1>3, <1>4, <1>6, <1>7 DEF row

LEMMA ManifestDenoise ==
  ASSUME TypeOK, ManifestInv, Denoise
  PROVE  ManifestInv'
<1>1. PICK after \in [Row -> 0 .. BlockWidth] :
        /\ \A r \in Row : r \notin Active => after[r] = masks[r]
        /\ masks' = after
        /\ observations' = Append(observations, Observation(after))
  BY DEF Denoise
<1>2. /\ status = "running" /\ step' = step + 1 /\ step \in Nat
      /\ UNCHANGED <<segment, start, block>>
  BY TraceAssumption DEF Denoise, TypeOK
<1>0. PICK row : row = Observation(after)
  OBVIOUS
<1>3. /\ row.segment \in Int /\ row.block \in Int /\ row.step \in Int
      /\ Chained(row, ManifestRows)
      /\ \A r \in Active : \E j \in DOMAIN row.requests :
           row.requests[j] = RequestOf(r) /\ row.after[j] = after[r]
  BY <1>0, <1>2, ObservationChains DEF ManifestInv
<1>4. row.phase = "native_denoising" /\ StepKey(row) = <<segment, block, step>>
  BY <1>0 DEF Observation, Observed, StepKey
<1>5. ManifestRows' = ManifestRows \union {row} /\ observations' \in Seq(ManifestRows \union {row})
  BY <1>0, <1>1, AppendRange DEF ManifestInv, ManifestRows
<1>6. KeysAreNumbers' /\ ManifestChains'
  <2>1. PICK new : new = {row}
    OBVIOUS
  <2>2. /\ ManifestRows' = ManifestRows \union new
        /\ \A x \in new : x.segment \in Int /\ x.block \in Int /\ x.step \in Int
        /\ \A x \in new : Chained(x, ManifestRows)
    BY <1>3, <1>5, <2>1
  <2> QED  BY <2>2, ManifestGrows DEF ManifestInv
<1>7. ASSUME NEW r \in Row, masks'[r] > 0
      PROVE  Left(row, r)'
  <2>1. r \in Active
    <3> SUFFICES ASSUME r \notin Active  PROVE FALSE
      OBVIOUS
    <3>1. masks[r] > 0
      BY <1>1, <1>7
    <3> QED  BY <3>1 DEF Active
  <2>2. PICK j \in DOMAIN row.requests : row.requests[j] = RequestOf(r) /\ row.after[j] = after[r]
    BY <1>3, <2>1
  <2>3. StepKey(row) = <<segment', block', step' - 1>> /\ RequestOf(r)' = RequestOf(r)
    BY <1>2, <1>4 DEF RequestOf
  <2> QED  BY <1>1, <1>4, <2>2, <2>3 DEF Left
<1>8. MasksObserved'
  <2>1. step' # 0 /\ row \in ManifestRows'
    BY <1>2, <1>5
  <2> QED  BY <1>7, <2>1 DEF MasksObserved
<1> QED  BY <1>5, <1>6, <1>8 DEF ManifestInv

LEMMA ManifestRestart ==
  ASSUME TypeOK, ManifestInv, NextBlock \/ NextMicrobatch \/ NextSegment
  PROVE  ManifestInv'
<1>1. step' = 0 /\ masks' = FullMasks
  BY DEF NextBlock, NextMicrobatch, NextSegment, Restart
<1>2. MasksObserved'
  BY <1>1, FullMasksType DEF MasksObserved
<1>3. CASE NextBlock \/ NextMicrobatch
  <2>1. UNCHANGED observations
    BY <1>3 DEF NextBlock, NextMicrobatch
  <2> QED  BY <1>2, <2>1 DEF ManifestInv, KeysAreNumbers, ManifestChains, ManifestRows
<1>4. CASE NextSegment
  <2>0. PICK sweep, new : sweep = InitialSweep(segment + 1) /\ new = ToSet(sweep)
    OBVIOUS
  <2>1. observations' = observations \o sweep /\ segment + 1 \in Int
    BY <1>4, <2>0, TraceAssumption DEF NextSegment, TypeOK
  <2>2. /\ sweep \in Seq(new)
        /\ \A row \in new : row.segment \in Int /\ row.block \in Int /\ row.step \in Int
        /\ \A row \in new : Chained(row, ManifestRows)
    BY <2>0, <2>1, SweepRows DEF ToSet
  <2>3. ManifestRows' = ManifestRows \union new /\ observations' \in Seq(ManifestRows \union new)
    <3>1. observations \in Seq(ManifestRows)
      BY DEF ManifestInv
    <3> QED  BY <2>0, <2>1, <2>2, <3>1, ConcatRange DEF ManifestRows
  <2>4. KeysAreNumbers' /\ ManifestChains'
    BY <2>2, <2>3, ManifestGrows DEF ManifestInv
  <2> QED  BY <1>2, <2>3, <2>4 DEF ManifestInv
<1> QED  BY <1>3, <1>4

LEMMA ManifestStep ==
  ASSUME TypeOK, ManifestInv, [CollectorNext]_vars
  PROVE  ManifestInv'
<1>1. CASE RaiseLeftMasks \/ BeginWriting \/ WriteArtifact \/ Crash
  <2>1. UNCHANGED observations /\ status' # "running"
    BY <1>1 DEF RaiseLeftMasks, BeginWriting, WriteArtifact, Crash
  <2> QED  BY <2>1 DEF ManifestInv, KeysAreNumbers, ManifestChains, ManifestRows, MasksObserved
<1>2. CASE UNCHANGED vars
  BY <1>2 DEF ManifestInv, KeysAreNumbers, ManifestChains, ManifestRows, MasksObserved, Left, RequestOf, vars, loops
<1> QED  BY <1>1, <1>2, ManifestDenoise, ManifestRestart DEF CollectorNext

LEMMA ManifestInvariance == Spec => []ManifestInv
BY ManifestInit, ManifestStep, CollectorTypeOK, PTL DEF Spec

(* Every forward in the manifest had masks to fill and has its predecessor *)
(* there: it finds what that one has left, the first one of a block all of *)
(* it, whichever other rows have dropped out of the microbatch in between  *)
(* (collect_llada2_router_trace.py:463-586).                               *)
THEOREM ManifestIsChained == AnalysisSpec => []ManifestChains
<1>1. ManifestInv => ManifestChains
  BY DEF ManifestInv
<1> QED  BY <1>1, AnalysisCollects, ManifestInvariance, PTL

(* The members of a list are finitely many. *)
LEMMA FiniteRange ==
  ASSUME NEW S, NEW seq \in Seq(S)
  PROVE  IsFiniteSet(ToSet(seq))
<1>1. seq \in [1 .. Len(seq) -> S] /\ Len(seq) \in Nat
  BY LenProperties
<1>2. seq \in Surjection(1 .. Len(seq), ToSet(seq))
  BY <1>1 DEF Surjection, ToSet
<1>3. IsFiniteSet(1 .. Len(seq))
  BY <1>1, FS_Interval
<1> QED  BY <1>2, <1>3, FS_Surjection

(* The keys of the native observations. *)
NativeKeys == Keys("native_denoising", StepKey)
Ordered == {p \in NativeKeys \X NativeKeys : Before(p[1], p[2])}

LEMMA KeysAreOrdered ==
  ASSUME ManifestInv
  PROVE  IsFiniteSet(NativeKeys) /\ StrictOrder(NativeKeys, Ordered)
<1> DEFINE native == {row \in ManifestRows : row.phase = "native_denoising"}
           key == [row \in native |-> StepKey(row)]
<1>1. NativeKeys = {StepKey(row) : row \in native}
  BY DEF NativeKeys, Keys
<1>2. IsFiniteSet(native)
  BY FiniteRange, FS_Subset DEF ManifestInv, ManifestRows
<1>3. key \in Surjection(native, NativeKeys)
  BY <1>1 DEF Surjection
<1>4. IsFiniteSet(NativeKeys)
  BY <1>2, <1>3, FS_Surjection
<1>5. \A k \in NativeKeys : k[1] \in Int /\ k[2] \in Int /\ k[3] \in Int /\ k = <<k[1], k[2], k[3]>>
  BY <1>1 DEF ManifestInv, KeysAreNumbers, StepKey
<1>6. \A k, l \in NativeKeys : <<k, l>> \in Ordered <=> Before(k, l)
  BY DEF Ordered
<1>7. \A k \in NativeKeys : ~Before(k, k)
  BY <1>5 DEF Before
<1>8. \A k, l, m \in NativeKeys : Before(k, l) /\ Before(l, m) => Before(k, m)
  BY <1>5 DEF Before
<1>9. \A k, l \in NativeKeys : k # l => Before(k, l) \/ Before(l, k)
  <2> SUFFICES ASSUME NEW k \in NativeKeys, NEW l \in NativeKeys, ~Before(k, l), ~Before(l, k)
               PROVE  k = l
    OBVIOUS
  <2>1. k[1] = l[1] /\ k[2] = l[2] /\ k[3] = l[3]
    BY <1>5 DEF Before
  <2> QED  BY <1>5, <2>1
<1> QED  BY <1>4, <1>6, <1>7, <1>8, <1>9 DEF StrictOrder

(* "The previous-step plan uses only the immediately preceding observed    *)
(* route": between two steps that are compared no request of the pool has  *)
(* been observed in another (analyze_native_route_opportunity.py:232-259). *)
THEOREM PreviousIsImmediate == AnalysisSpec => []PreviousIsPreceding
<1>1. ManifestInv => PreviousIsPreceding
  <2> SUFFICES ASSUME ManifestInv,
                      NEW i \in CompleteSteps, NEW j \in PreviousRoutes(i), NEW row \in ManifestRows,
                      row.phase = "native_denoising",
                      Before(StepKeys[j], StepKey(row)), Before(StepKey(row), StepKeys[i])
               PROVE  FALSE
    BY DEF PreviousIsPreceding
  <2> DEFINE n == Cardinality(NativeKeys)
  <2>1. IsFiniteSet(NativeKeys) /\ StrictOrder(NativeKeys, Ordered)
    BY KeysAreOrdered
  <2>2. StepKeys = InOrder(NativeKeys, Ordered)
    BY DEF StepKeys, NativeKeys, Ordered
  <2>3. /\ n \in Nat /\ DOMAIN StepKeys = 1 .. n
        /\ \A k \in 1 .. n : StepKeys[k] \in NativeKeys
        /\ \A x \in NativeKeys : \E k \in 1 .. n : StepKeys[k] = x
    <3>1. /\ n \in Nat /\ StepKeys \in [1 .. n -> NativeKeys]
          /\ \A x \in NativeKeys : \E k \in 1 .. n : StepKeys[k] = x
      BY <2>1, <2>2, InOrderLists
    <3> QED  BY <3>1
  <2>4. i \in 1 .. n /\ j \in 1 .. n /\ j = i - 1
    BY <2>3 DEF CompleteSteps, PreviousRoutes, PreviousOf
  <2>5. PICK k \in 1 .. n : StepKeys[k] = StepKey(row)
    <3>1. StepKey(row) \in NativeKeys
      BY DEF NativeKeys, Keys
    <3> QED  BY <2>3, <3>1
  <2>6. <<StepKeys[j], StepKeys[k]>> \in Ordered /\ <<StepKeys[k], StepKeys[i]>> \in Ordered
    BY <2>3, <2>4, <2>5 DEF Ordered
  <2>7. j < k /\ k < i
    BY <2>1, <2>2, <2>4, <2>6, InOrderAscends
  <2> QED  BY <2>3, <2>4, <2>7
<1> QED  BY <1>1, AnalysisCollects, ManifestInvariance, PTL
-----------------------------------------------------------------------------
(* The cells of the screen. *)

(* What one row says of its requests. *)
Names(row, block_, step_) ==
  /\ row.block = block_ /\ row.step = step_
  /\ DOMAIN row.requests \subseteq 1 .. NumRequests
  /\ \A i \in DOMAIN row.requests :
       /\ row.requests[i] \in Request
       /\ row.routes[i] = [segment |-> row.segment, request |-> row.requests[i],
                           block |-> row.block, step |-> row.step]

NativeRow(row) ==
  /\ row.phase = "native_denoising"
  /\ row.segment \in Nat /\ row.block \in Nat /\ row.step \in 0 .. Steps - 1
  /\ row.iteration = row.block * Steps + row.step
  /\ Names(row, row.block, row.step)
  /\ \A i, j \in DOMAIN row.requests : row.requests[i] = row.requests[j] => i = j

SweepRow(row) ==
  /\ row.phase = "initial_width_ablation"
  /\ row.segment \in Nat
  /\ Names(row, 0, 0)
  /\ row.requests = [i \in 1 .. NumRequests |-> i - 1]

(* The loops have left behind every request of a row, or are in a later    *)
(* step of its microbatch.                                                 *)
Behind(row, seg, st, bl, sp) ==
  \/ row.segment < seg
  \/ row.segment = seg /\ \A i \in DOMAIN row.requests :
       row.requests[i] < st \/ row.block < bl \/ (row.block = bl /\ row.step < sp)

RowsBehind ==
  \A row \in ManifestRows : row.phase = "native_denoising" => Behind(row, segment, start, block, step)

SegmentKnown == \A row \in ManifestRows : row.segment \in Nat /\ row.segment <= segment

BeforeNext ==
  \A row \in ManifestRows :
    row.phase = "native_denoising" /\ row.segment = segment =>
      \A i \in DOMAIN row.requests : row.requests[i] < start + MicrobatchSize

(* A request makes one forward in a step. *)
Together(x, y) ==
  /\ x.segment = y.segment /\ x.block = y.block /\ x.step = y.step
  /\ \E i \in DOMAIN x.requests : \E j \in DOMAIN y.requests : x.requests[i] = y.requests[j]

OneForward ==
  \A m, n \in DOMAIN observations :
    /\ m # n
    /\ observations[m].phase = "native_denoising" /\ observations[n].phase = "native_denoising"
    => ~Together(observations[m], observations[n])

RowsInv ==
  /\ observations \in Seq(ManifestRows)
  /\ \A row \in ManifestRows : NativeRow(row) \/ SweepRow(row)
  /\ RowsBehind /\ SegmentKnown /\ BeforeNext /\ OneForward

(* The loop variables of the collector, in numbers. *)
LEMMA LoopNumbers ==
  ASSUME TypeOK
  PROVE  /\ segment \in Nat /\ start \in Nat /\ block \in Nat /\ step \in Nat
         /\ start + MicrobatchSize <= NumRequests
         /\ MicrobatchSize \in Nat \ {0} /\ NumRequests \in Nat \ {0} /\ Steps \in Nat \ {0}
BY TraceAssumption DEF TypeOK, Request

LEMMA SweepNames ==
  ASSUME NEW s \in Nat, NEW row \in ToSet(InitialSweep(s))
  PROVE  SweepRow(row) /\ row.segment = s
<1>1. PICK i \in DOMAIN InitialSweep(s) : row = InitialSweep(s)[i]
  BY DEF ToSet
<1>2. PICK width : row = InitialObservation(s, width)
  BY <1>1 DEF InitialSweep
<1>3. /\ row.phase = "initial_width_ablation" /\ row.segment = s /\ row.block = 0 /\ row.step = 0
      /\ row.requests = [k \in 1 .. NumRequests |-> k - 1]
      /\ row.routes = [k \in 1 .. NumRequests |-> [segment |-> s, request |-> k - 1, block |-> 0, step |-> 0]]
  BY <1>2 DEF InitialObservation
<1>4. NumRequests \in Nat
  BY TraceAssumption
<1>5. ASSUME NEW k \in 1 .. NumRequests
      PROVE  k - 1 \in Request
  BY <1>4 DEF Request
<1> QED  BY <1>3, <1>5 DEF SweepRow, Names

(* The observation of a forward names each of its requests once. *)
LEMMA ForwardNames ==
  ASSUME TypeOK, NEW after, step < Steps
  PROVE  LET row == Observation(after)
         IN  /\ NativeRow(row)
             /\ row.segment = segment /\ row.block = block /\ row.step = step
             /\ \A i \in DOMAIN row.requests :
                  start <= row.requests[i] /\ row.requests[i] < start + MicrobatchSize
<1> DEFINE rows == Ascending(Active)
           row == Observation(after)
<1>1. Active \in SUBSET Int /\ IsFiniteSet(Active) /\ Cardinality(Active) \in 0 .. NumRequests
  <2>1. Active \subseteq Row /\ Row \subseteq Int
    BY DEF Active, Row
  <2>2. IsFiniteSet(Row) /\ Cardinality(Row) = MicrobatchSize
    BY TraceAssumption, FS_Interval DEF Row
  <2>3. IsFiniteSet(Active) /\ Cardinality(Active) <= MicrobatchSize /\ Cardinality(Active) \in Nat
    BY <2>1, <2>2, FS_Subset, FS_CardinalityType
  <2> QED  BY <2>1, <2>3, OneMicrobatch, TraceAssumption
<1>2. /\ DOMAIN rows = 1 .. Cardinality(Active)
      /\ \A i \in DOMAIN rows : rows[i] \in Active
  BY <1>1, AscendingLists
<1>3. \A i, j \in DOMAIN rows : rows[i] = rows[j] => i = j
  <2> SUFFICES ASSUME NEW i \in DOMAIN rows, NEW j \in DOMAIN rows, rows[i] = rows[j]  PROVE i = j
    OBVIOUS
  <2>1. i < j => rows[i] < rows[j]
    BY <1>1, <1>2, AscendingStrictly
  <2>2. j < i => rows[j] < rows[i]
    BY <1>1, <1>2, AscendingStrictly
  <2> HIDE DEF rows
  <2>3. rows[i] \in Int /\ rows[j] \in Int /\ i \in Int /\ j \in Int
    <3>1. rows[i] \in Active /\ rows[j] \in Active
      BY <1>2
    <3>2. i \in 1 .. Cardinality(Active) /\ j \in 1 .. Cardinality(Active)
      BY <1>2
    <3>3. Active \subseteq Int /\ Cardinality(Active) \in Nat
      BY <1>1, TraceAssumption
    <3>4. i \in Int /\ j \in Int
      BY <3>2, <3>3
    <3>5. rows[i] \in Int /\ rows[j] \in Int
      BY <3>1, <3>3
    <3> QED  BY <3>4, <3>5
  <2> QED  BY <2>1, <2>2, <2>3
<1> HIDE DEF rows
<1>4. /\ row.phase = "native_denoising"
      /\ row.segment = segment /\ row.block = block /\ row.step = step
      /\ row.iteration = block * Steps + step
      /\ row.requests = [i \in DOMAIN rows |-> RequestOf(rows[i])]
      /\ row.routes = [i \in DOMAIN rows |->
                         [segment |-> segment, request |-> RequestOf(rows[i]), block |-> block, step |-> step]]
  BY DEF Observation, Observed, rows
<1> HIDE DEF row
<1>5. ASSUME NEW i \in DOMAIN rows
      PROVE  /\ row.requests[i] = start + rows[i] /\ rows[i] \in Row /\ row.requests[i] \in Request
             /\ start <= row.requests[i] /\ row.requests[i] < start + MicrobatchSize
  <2>1. rows[i] \in Row /\ row.requests[i] = start + rows[i]
    BY <1>2, <1>4, <1>5 DEF Active, RequestOf
  <2> QED  BY <2>1, LoopNumbers DEF Row, Request
<1>6. Names(row, row.block, row.step)
  <2>1. DOMAIN row.requests \subseteq 1 .. NumRequests
    BY <1>1, <1>2, <1>4, LoopNumbers
  <2>2. ASSUME NEW i \in DOMAIN row.requests
        PROVE  /\ row.requests[i] \in Request
               /\ row.routes[i] = [segment |-> row.segment, request |-> row.requests[i],
                                   block |-> row.block, step |-> row.step]
    <3>1. i \in DOMAIN rows
      BY <1>4
    <3>2. row.requests[i] = RequestOf(rows[i])
      BY <1>4, <3>1
    <3> QED  BY <1>4, <1>5, <3>1, <3>2
  <2> QED  BY <2>1, <2>2 DEF Names
<1>7. \A i, j \in DOMAIN row.requests : row.requests[i] = row.requests[j] => i = j
  <2> SUFFICES ASSUME NEW i \in DOMAIN rows, NEW j \in DOMAIN rows, row.requests[i] = row.requests[j]
               PROVE  i = j
    BY <1>4
  <2>1. rows[i] \in Int /\ rows[j] \in Int /\ start + rows[i] = start + rows[j]
    BY <1>5 DEF Row
  <2>2. rows[i] = rows[j]
    <3>1. start \in Nat
      BY LoopNumbers
    <3> QED  BY <2>1, <3>1
  <2> QED  BY <1>3, <2>2
<1>8. NativeRow(row)
  BY <1>4, <1>6, <1>7, LoopNumbers DEF NativeRow
<1> QED  BY <1>4, <1>5, <1>8 DEF row

(* What the rows of the loops are compared by. *)
LEMMA RowNumbers ==
  ASSUME RowsInv, NEW row \in ManifestRows
  PROVE  /\ row.segment \in Nat /\ row.block \in Nat /\ row.step \in Nat
         /\ \A i \in DOMAIN row.requests : row.requests[i] \in Nat
         /\ row.phase = "native_denoising" => NativeRow(row)
         /\ row.phase = "initial_width_ablation" => SweepRow(row)
<1>1. NativeRow(row) \/ SweepRow(row)
  BY DEF RowsInv
<1>2. \A r \in Request : r \in Nat
  BY DEF Request
<1>3. CASE NativeRow(row)
  <2>1. Names(row, row.block, row.step) /\ row.phase = "native_denoising"
    BY <1>3 DEF NativeRow
  <2>2. row.segment \in Nat /\ row.block \in Nat /\ row.step \in Nat
    BY <1>3, TraceAssumption DEF NativeRow
  <2>3. \A i \in DOMAIN row.requests : row.requests[i] \in Nat
    BY <1>2, <2>1 DEF Names
  <2> QED  BY <1>3, <2>1, <2>2, <2>3
<1>4. CASE SweepRow(row)
  <2>1. Names(row, 0, 0) /\ row.phase = "initial_width_ablation" /\ row.segment \in Nat
    BY <1>4 DEF SweepRow
  <2>2. row.block = 0 /\ row.step = 0 /\ \A i \in DOMAIN row.requests : row.requests[i] \in Nat
    BY <1>2, <2>1 DEF Names
  <2> QED  BY <1>4, <2>1, <2>2
<1> QED  BY <1>1, <1>3, <1>4

LEMMA RowsInit == Init => RowsInv
<1> SUFFICES ASSUME Init  PROVE RowsInv
  OBVIOUS
<1>1. observations = InitialSweep(1) /\ segment = 1
  BY DEF Init
<1>2. ManifestRows = ToSet(InitialSweep(1))
  BY <1>1 DEF ManifestRows
<1>3. observations \in Seq(ManifestRows)
  BY <1>1, <1>2, SweepRows
<1>4. \A row \in ManifestRows : SweepRow(row) /\ row.segment = 1
  BY <1>2, SweepNames
<1>5. \A row \in ManifestRows : row.phase # "native_denoising"
  BY <1>4 DEF SweepRow
<1>6. \A n \in DOMAIN observations : observations[n] \in ManifestRows
  BY DEF ManifestRows, ToSet
<1> QED  BY <1>1, <1>3, <1>4, <1>5, <1>6 DEF RowsInv, RowsBehind, SegmentKnown, BeforeNext, OneForward

LEMMA RowsDenoise ==
  ASSUME TypeOK, RowsInv, Denoise
  PROVE  RowsInv'
<1>1. PICK after : observations' = Append(observations, Observation(after))
  BY DEF Denoise
<1>2. /\ step < Steps /\ step' = step + 1
      /\ UNCHANGED <<segment, start, block>>
  BY DEF Denoise
<1>3. PICK row : row = Observation(after)
  OBVIOUS
<1>4. /\ NativeRow(row)
      /\ row.segment = segment /\ row.block = block /\ row.step = step
      /\ \A i \in DOMAIN row.requests : start <= row.requests[i] /\ row.requests[i] < start + MicrobatchSize
  BY <1>2, <1>3, ForwardNames
<1>5. /\ segment \in Nat /\ start \in Nat /\ block \in Nat /\ step \in Nat /\ MicrobatchSize \in Nat
  BY LoopNumbers
<1>6. ManifestRows' = ManifestRows \union {row} /\ observations' \in Seq(ManifestRows')
  <2>1. observations \in Seq(ManifestRows)
    BY DEF RowsInv
  <2>2. /\ observations' \in Seq(ManifestRows \union {row})
        /\ ToSet(observations') = ToSet(observations) \union {row}
    BY <1>1, <1>3, <2>1, AppendRange
  <2>3. ManifestRows' = ManifestRows \union {row}
    BY <2>2 DEF ManifestRows
  <2> QED  BY <2>2, <2>3
<1>7. /\ Len(observations) \in Nat /\ DOMAIN observations = 1 .. Len(observations)
      /\ DOMAIN observations' = 1 .. Len(observations) + 1
      /\ \A n \in DOMAIN observations : observations'[n] = observations[n] /\ observations[n] \in ManifestRows
      /\ observations'[Len(observations) + 1] = row
  <2>1. observations \in Seq(ManifestRows \union {row}) /\ row \in ManifestRows \union {row}
    BY SeqMonotonic DEF RowsInv
  <2>2. /\ Len(observations') = Len(observations) + 1
        /\ \A i \in 1 .. Len(observations) : observations'[i] = observations[i]
        /\ observations'[Len(observations) + 1] = row
    BY <1>1, <1>3, <2>1, AppendProperties
  <2>3. /\ Len(observations) \in Nat /\ DOMAIN observations = 1 .. Len(observations)
        /\ DOMAIN observations' = 1 .. Len(observations')
    BY <1>6, <2>1, LenProperties
  <2>4. \A n \in DOMAIN observations : observations[n] \in ManifestRows
    BY DEF ManifestRows, ToSet
  <2> QED  BY <2>2, <2>3, <2>4
<1>8. \A x \in ManifestRows' : NativeRow(x) \/ SweepRow(x)
  BY <1>4, <1>6 DEF RowsInv
<1>9. RowsBehind'
  <2> SUFFICES ASSUME NEW x \in ManifestRows', x.phase = "native_denoising"
               PROVE  Behind(x, segment, start, block, step + 1)
    BY <1>2 DEF RowsBehind
  <2>1. CASE x \in ManifestRows
    <3>1. Behind(x, segment, start, block, step)
      BY <2>1 DEF RowsInv, RowsBehind
    <3>2. x.step \in Nat
      BY <2>1, RowNumbers
    <3> QED  BY <1>5, <3>1, <3>2 DEF Behind
  <2>2. CASE x = row
    BY <1>4, <1>5, <2>2 DEF Behind
  <2> QED  BY <1>6, <2>1, <2>2
<1>10. SegmentKnown'
  BY <1>2, <1>4, <1>5, <1>6 DEF RowsInv, SegmentKnown
<1>11. BeforeNext'
  BY <1>2, <1>4, <1>5, <1>6 DEF RowsInv, BeforeNext
<1>12. ASSUME NEW x \in ManifestRows, x.phase = "native_denoising"
       PROVE  ~Together(x, row) /\ ~Together(row, x)
  <2> SUFFICES ASSUME Together(x, row) \/ Together(row, x)  PROVE FALSE
    OBVIOUS
  <2>1. /\ x.segment = segment /\ x.block = block /\ x.step = step
        /\ \E i \in DOMAIN x.requests : \E j \in DOMAIN row.requests : x.requests[i] = row.requests[j]
    <3>1. CASE Together(x, row)
      BY <1>4, <3>1 DEF Together
    <3>2. CASE Together(row, x)
      BY <1>4, <3>2 DEF Together
    <3> QED  BY <3>1, <3>2
  <2>2. PICK i \in DOMAIN x.requests : \E j \in DOMAIN row.requests : x.requests[i] = row.requests[j]
    BY <2>1
  <2>3. start <= x.requests[i] /\ x.requests[i] \in Nat
    BY <1>4, <2>2, RowNumbers
  <2>4. Behind(x, segment, start, block, step)
    BY <1>12 DEF RowsInv, RowsBehind
  <2> QED  BY <1>5, <2>1, <2>3, <2>4 DEF Behind
<1>13. OneForward'
  <2> SUFFICES ASSUME NEW m \in DOMAIN observations', NEW n \in DOMAIN observations', m # n,
                      observations'[m].phase = "native_denoising", observations'[n].phase = "native_denoising"
               PROVE  ~Together(observations'[m], observations'[n])
    BY DEF OneForward
  <2>1. CASE m \in DOMAIN observations /\ n \in DOMAIN observations
    BY <1>7, <2>1 DEF RowsInv, OneForward
  <2>2. CASE m \in DOMAIN observations /\ n \notin DOMAIN observations
    <3>1. n = Len(observations) + 1
      BY <1>7, <2>2
    <3>2. observations'[n] = row /\ observations'[m] \in ManifestRows
      BY <1>7, <2>2, <3>1
    <3> QED  BY <1>12, <3>2
  <2>3. CASE m \notin DOMAIN observations /\ n \in DOMAIN observations
    <3>1. m = Len(observations) + 1
      BY <1>7, <2>3
    <3>2. observations'[m] = row /\ observations'[n] \in ManifestRows
      BY <1>7, <2>3, <3>1
    <3> QED  BY <1>12, <3>2
  <2>4. CASE m \notin DOMAIN observations /\ n \notin DOMAIN observations
    BY <1>7, <2>4
  <2> QED  BY <2>1, <2>2, <2>3, <2>4
<1> QED  BY <1>6, <1>8, <1>9, <1>10, <1>11, <1>13 DEF RowsInv

LEMMA RowsRestart ==
  ASSUME CollectorInv, RowsInv, NextBlock \/ NextMicrobatch
  PROVE  RowsInv'
<1>1. UNCHANGED <<segment, observations>> /\ ManifestRows' = ManifestRows
  BY DEF NextBlock, NextMicrobatch, ManifestRows
<1>2. /\ segment \in Nat /\ start \in Nat /\ block \in Nat /\ step \in Nat /\ MicrobatchSize \in Nat
  BY LoopNumbers DEF CollectorInv
<1>3. \/ start' = start /\ block' = block + 1
      \/ start' = start + MicrobatchSize
  BY DEF NextBlock, NextMicrobatch, Restart
<1>4. ASSUME NEW x \in ManifestRows, x.phase = "native_denoising"
      PROVE  Behind(x, segment, start', block', step')
  <2>1. /\ x.block \in Nat /\ x.step \in Nat
        /\ \A i \in DOMAIN x.requests : x.requests[i] \in Nat
    BY RowNumbers
  <2>2. Behind(x, segment, start, block, step)
    BY <1>4 DEF RowsInv, RowsBehind
  <2>3. x.segment = segment => \A i \in DOMAIN x.requests : x.requests[i] < start + MicrobatchSize
    BY <1>4 DEF RowsInv, BeforeNext
  <2>4. CASE start' = start /\ block' = block + 1
    BY <1>2, <2>1, <2>2, <2>4 DEF Behind
  <2>5. CASE start' = start + MicrobatchSize
    BY <2>2, <2>3, <2>5 DEF Behind
  <2> QED  BY <1>3, <2>4, <2>5
<1>5. RowsBehind'
  BY <1>1, <1>4 DEF RowsBehind
<1>6. BeforeNext'
  <2> SUFFICES ASSUME NEW x \in ManifestRows, x.phase = "native_denoising", x.segment = segment,
                      NEW i \in DOMAIN x.requests
               PROVE  x.requests[i] < start' + MicrobatchSize
    BY <1>1 DEF BeforeNext
  <2>1. x.requests[i] \in Nat /\ x.requests[i] < start + MicrobatchSize
    BY RowNumbers DEF RowsInv, BeforeNext
  <2> QED  BY <1>2, <1>3, <2>1
<1> QED  BY <1>1, <1>5, <1>6 DEF RowsInv, SegmentKnown, OneForward

LEMMA RowsNextSegment ==
  ASSUME TypeOK, RowsInv, NextSegment
  PROVE  RowsInv'
<1>0. PICK sweep, new : sweep = InitialSweep(segment + 1) /\ new = ToSet(sweep)
  OBVIOUS
<1>1. observations' = observations \o sweep /\ segment' = segment + 1 /\ segment \in Nat
  BY <1>0, LoopNumbers DEF NextSegment
<1>2. sweep \in Seq(new) /\ \A row \in new : SweepRow(row) /\ row.segment = segment'
  <2>1. segment + 1 \in Nat /\ segment + 1 \in Int
    BY <1>1
  <2>2. sweep \in Seq(new)
    BY <1>0, <2>1, SweepRows
  <2>3. \A row \in new : SweepRow(row) /\ row.segment = segment + 1
    BY <1>0, <2>1, SweepNames
  <2> QED  BY <1>1, <2>2, <2>3
<1>3. observations \in Seq(ManifestRows)
  BY DEF RowsInv
<1>4. ManifestRows' = ManifestRows \union new /\ observations' \in Seq(ManifestRows')
  <2>1. /\ observations' \in Seq(ManifestRows \union new)
        /\ ToSet(observations') = ToSet(observations) \union new
    BY <1>0, <1>1, <1>2, <1>3, ConcatRange
  <2>2. ManifestRows' = ManifestRows \union new
    BY <2>1 DEF ManifestRows
  <2> QED  BY <2>1, <2>2
<1>5. \A row \in new : row.phase # "native_denoising"
  BY <1>2 DEF SweepRow
<1>6. /\ DOMAIN observations = 1 .. Len(observations)
      /\ \A n \in DOMAIN observations' :
           IF n \in DOMAIN observations THEN observations'[n] = observations[n] ELSE observations'[n] \in new
  <2>1. observations \in Seq(ManifestRows \union new) /\ sweep \in Seq(ManifestRows \union new)
    BY <1>2, <1>3, SeqMonotonic
  <2>2. /\ Len(observations') = Len(observations) + Len(sweep)
        /\ \A i \in 1 .. Len(observations) + Len(sweep) :
             observations'[i] = IF i <= Len(observations) THEN observations[i] ELSE sweep[i - Len(observations)]
    BY <1>1, <2>1, ConcatProperties
  <2>3. /\ Len(observations) \in Nat /\ DOMAIN observations = 1 .. Len(observations)
        /\ Len(sweep) \in Nat /\ DOMAIN sweep = 1 .. Len(sweep)
        /\ DOMAIN observations' = 1 .. Len(observations')
    BY <1>4, <2>1, LenProperties
  <2>4. \A i \in DOMAIN sweep : sweep[i] \in new
    BY <1>0 DEF ToSet
  <2>5. ASSUME NEW n \in DOMAIN observations', n \notin DOMAIN observations
        PROVE  observations'[n] \in new
    <3>1. n - Len(observations) \in DOMAIN sweep /\ ~(n <= Len(observations)) /\ n \in 1 .. Len(observations) + Len(sweep)
      BY <2>2, <2>3, <2>5
    <3> QED  BY <2>2, <2>4, <3>1
  <2>6. ASSUME NEW n \in DOMAIN observations', n \in DOMAIN observations
        PROVE  observations'[n] = observations[n]
    BY <2>2, <2>3, <2>6
  <2> QED  BY <2>3, <2>5, <2>6
<1>7. ASSUME NEW x \in ManifestRows
      PROVE  x.segment \in Nat /\ x.segment < segment'
  BY <1>1 DEF RowsInv, SegmentKnown
<1>8. RowsBehind'
  BY <1>4, <1>5, <1>7 DEF RowsBehind, Behind
<1>9. SegmentKnown'
  BY <1>1, <1>2, <1>4, <1>7 DEF SegmentKnown
<1>10. BeforeNext'
  <2>1. \A x \in ManifestRows : x.segment # segment'
    BY <1>1, <1>7
  <2> QED  BY <1>4, <1>5, <2>1 DEF BeforeNext
<1>11. OneForward'
  BY <1>5, <1>6 DEF RowsInv, OneForward
<1>12. \A x \in ManifestRows' : NativeRow(x) \/ SweepRow(x)
  BY <1>2, <1>4 DEF RowsInv
<1> QED  BY <1>4, <1>8, <1>9, <1>10, <1>11, <1>12 DEF RowsInv

LEMMA RowsStep ==
  ASSUME CollectorInv, RowsInv, [CollectorNext]_vars
  PROVE  RowsInv'
<1>1. CASE RaiseLeftMasks \/ BeginWriting \/ WriteArtifact \/ Crash \/ UNCHANGED vars
  <2>1. UNCHANGED <<loops, observations>>
    BY <1>1 DEF RaiseLeftMasks, BeginWriting, WriteArtifact, Crash, vars
  <2>2. UNCHANGED <<segment, start, block, step, observations>> /\ ManifestRows' = ManifestRows
    BY <2>1 DEF loops, ManifestRows
  <2> QED  BY <2>2 DEF RowsInv, RowsBehind, SegmentKnown, BeforeNext, OneForward
<1> QED  BY <1>1, RowsDenoise, RowsRestart, RowsNextSegment DEF CollectorNext, CollectorInv

LEMMA RowsInvariance == Spec => []RowsInv
BY RowsInit, RowsStep, Invariance, PTL DEF Spec

(* A list sorted by numbers that run through 0 .. n - 1 has every number   *)
(* at its place.                                                           *)
LEMMA SortedByRank ==
  ASSUME NEW n \in Nat, NEW C, IsFiniteSet(C), Cardinality(C) = n,
         NEW f \in [C -> 0 .. n - 1], \A x, y \in C : f[x] = f[y] => x = y,
         NEW precedes, \A x, y \in C : <<x, y>> \in precedes <=> f[x] < f[y]
  PROVE  /\ Cardinality({f[x] : x \in C}) = n
         /\ DOMAIN InOrder(C, precedes) = 1 .. n
         /\ \A i \in 1 .. n : InOrder(C, precedes)[i] \in C /\ f[InOrder(C, precedes)[i]] = i - 1
<1> DEFINE numbers == {f[x] : x \in C}
           places == 0 .. n - 1
<1>1. f \in Surjection(C, numbers) /\ f \in Injection(C, numbers)
  BY DEF Injection, Surjection, IsInjective
<1>2. IsFiniteSet(numbers) /\ Cardinality(numbers) = n
  <2> HIDE DEF numbers
  <2> QED  BY <1>1, FS_Surjection
<1>3. IsFiniteSet(places) /\ Cardinality(places) = n
  BY FS_Interval
<1>4. numbers = places
  <2>1. numbers \subseteq places
    OBVIOUS
  <2> HIDE DEF numbers, places
  <2> QED  BY <1>2, <1>3, <2>1, FS_Subset
<1>5. \A x \in C : f[x] \in Int
  OBVIOUS
<1>6. StrictOrder(C, precedes)
  <2>1. \A x, y \in C : f[x] = f[y] \/ f[x] < f[y] \/ f[y] < f[x]
    BY <1>5
  <2>2. \A x \in C : ~(f[x] < f[x])
    BY <1>5
  <2>3. \A x, y, z \in C : f[x] < f[y] /\ f[y] < f[z] => f[x] < f[z]
    BY <1>5
  <2> QED  BY <2>1, <2>2, <2>3 DEF StrictOrder
<1> DEFINE order == InOrder(C, precedes)
<1>7. /\ order \in [1 .. n -> C]
      /\ \A i \in 1 .. n : Cardinality(Below(C, precedes, order[i])) = i - 1
  BY <1>6, InOrderLists
<1>8. ASSUME NEW x \in C
      PROVE  Cardinality(Below(C, precedes, x)) = f[x]
  <2> DEFINE below == Below(C, precedes, x)
             least == 0 .. f[x] - 1
             g == [y \in below |-> f[y]]
  <2>1. \A y : y \in below <=> y \in C /\ f[y] < f[x]
    BY DEF Below
  <2> HIDE DEF below
  <2>2. g \in [below -> least]
    BY <2>1
  <2>3. \A y, z \in below : g[y] = g[z] => y = z
    BY <2>1
  <2>4. ASSUME NEW k \in least
        PROVE  \E y \in below : g[y] = k
    <3>1. k \in places /\ k < f[x]
      OBVIOUS
    <3>2. PICK y \in C : f[y] = k
      BY <1>4, <3>1
    <3> QED  BY <2>1, <3>1, <3>2
  <2> HIDE DEF g, least
  <2>5. g \in Surjection(below, least) /\ g \in Injection(below, least)
    BY <2>2, <2>3, <2>4 DEF Injection, Surjection, IsInjective
  <2>6. IsFiniteSet(below)
    <3>1. below \in SUBSET C
      BY <2>1
    <3> QED  BY <3>1, FS_Subset
  <2>7. Cardinality(least) = Cardinality(below)
    BY <2>5, <2>6, FS_Surjection
  <2>8. Cardinality(least) = f[x]
    <3>1. f[x] \in Nat
      OBVIOUS
    <3> QED  BY <3>1, FS_Interval DEF least
  <2> QED  BY <2>7, <2>8 DEF below
<1> HIDE DEF order
<1>9. \A i \in 1 .. n : order[i] \in C /\ f[order[i]] = i - 1
  BY <1>7, <1>8
<1> QED  BY <1>2, <1>7, <1>9 DEF order

(* What the entries of a cell are. *)
EntryOf(e, phase, key) ==
  /\ e = <<e[1], e[2]>>
  /\ e[1] \in DOMAIN observations /\ e[2] \in DOMAIN observations[e[1]].requests
  /\ observations[e[1]].phase = phase /\ CellKey(observations[e[1]]) = key

LEMMA CellEntries ==
  ASSUME NEW phase, NEW key
  PROVE  /\ \A e \in Cell(phase, key) : EntryOf(e, phase, key)
         /\ \A n \in DOMAIN observations :
              observations[n].phase = phase /\ CellKey(observations[n]) = key =>
                \A i \in DOMAIN observations[n].requests : <<n, i>> \in Cell(phase, key)
<1> DEFINE at == {m \in DOMAIN observations : observations[m].phase = phase /\ CellKey(observations[m]) = key}
<1>1. Cell(phase, key) = UNION {{<<n, i>> : i \in DOMAIN observations[n].requests} : n \in at}
  BY DEF Cell, Gathered
<1>2. ASSUME NEW e \in Cell(phase, key)
      PROVE  EntryOf(e, phase, key)
  <2>1. PICK n \in at : e \in {<<n, i>> : i \in DOMAIN observations[n].requests}
    BY <1>1
  <2>2. PICK i \in DOMAIN observations[n].requests : e = <<n, i>>
    BY <2>1
  <2>3. e[1] = n /\ e[2] = i
    BY <2>2
  <2> QED  BY <2>2, <2>3 DEF EntryOf
<1>3. ASSUME NEW n \in at, NEW i \in DOMAIN observations[n].requests
      PROVE  <<n, i>> \in Cell(phase, key)
  BY <1>1
<1> QED  BY <1>2, <1>3

LEMMA CellIsFinite ==
  ASSUME RowsInv, NEW phase, NEW key
  PROVE  IsFiniteSet(Cell(phase, key))
<1> DEFINE places == 1 .. NumRequests
           all == (DOMAIN observations) \X places
<1>1. /\ observations \in Seq(ManifestRows) /\ NumRequests \in Nat
      /\ \A n \in DOMAIN observations : observations[n] \in ManifestRows
  BY TraceAssumption DEF RowsInv, ManifestRows, ToSet
<1>2. IsFiniteSet(DOMAIN observations) /\ IsFiniteSet(places)
  <2>1. DOMAIN observations = 1 .. Len(observations) /\ Len(observations) \in Nat
    BY <1>1, LenProperties
  <2> QED  BY <1>1, <2>1, FS_Interval
<1>3. IsFiniteSet(all)
  <2> HIDE DEF places
  <2> QED  BY <1>2, FS_Product
<1>4. ASSUME NEW e \in Cell(phase, key)
      PROVE  e \in all
  <2>1. EntryOf(e, phase, key)
    BY CellEntries
  <2>2. observations[e[1]] \in ManifestRows
    BY <1>1, <2>1 DEF EntryOf
  <2>3. DOMAIN observations[e[1]].requests \subseteq places
    BY <2>2 DEF RowsInv, NativeRow, SweepRow, Names
  <2>4. e[2] \in places
    BY <2>1, <2>3 DEF EntryOf
  <2> QED  BY <2>1, <2>4 DEF EntryOf
<1> QED  BY <1>3, <1>4, FS_Subset

(* A cell holds observations of one step only: the iteration counts the    *)
(* steps of all blocks.                                                    *)
LEMMA OneStep ==
  ASSUME NEW x, NEW y, CellKey(x) = CellKey(y),
         (NativeRow(x) /\ NativeRow(y)) \/ (SweepRow(x) /\ SweepRow(y))
  PROVE  x.segment = y.segment /\ x.block = y.block /\ x.step = y.step
<1>1. x.segment = y.segment /\ x.iteration = y.iteration
  BY DEF CellKey
<1>2. CASE NativeRow(x) /\ NativeRow(y)
  <2> DEFINE a == x.block  b == y.block  s == x.step  t == y.step  i == x.iteration
  <2>1. /\ a \in Nat /\ b \in Nat /\ s \in 0 .. Steps - 1 /\ t \in 0 .. Steps - 1
        /\ Steps \in Nat \ {0}
        /\ i = a * Steps + s /\ i = b * Steps + t
    BY <1>1, <1>2, TraceAssumption DEF NativeRow
  <2> HIDE DEF a, b, s, t, i
  <2>2. a * Steps \in Nat
    BY <2>1
  <2>3. i \in Nat
    BY <2>1, <2>2
  <2>4. i \div Steps = a /\ i \div Steps = b
    BY <2>1, <2>3, QuotientIs
  <2>5. a = b
    BY <2>4
  <2>6. s = t
    BY <2>1, <2>2, <2>5
  <2> QED  BY <1>1, <2>5, <2>6 DEF a, b, s, t
<1>3. CASE SweepRow(x) /\ SweepRow(y)
  BY <1>1, <1>3 DEF SweepRow, Names
<1> QED  BY <1>2, <1>3

(* The row of an entry. *)
LEMMA EntryRow ==
  ASSUME RowsInv, NEW phase \in {"native_denoising", "initial_width_ablation"}, NEW key,
         NEW e, EntryOf(e, phase, key)
  PROVE  LET row == observations[e[1]]
         IN  /\ row \in ManifestRows /\ row.phase = phase /\ CellKey(row) = key
             /\ IF phase = "native_denoising" THEN NativeRow(row) ELSE SweepRow(row)
             /\ RequestIn(e) \in 0 .. NumRequests - 1
             /\ RoutesIn(e) = [segment |-> row.segment, request |-> RequestIn(e),
                               block |-> row.block, step |-> row.step]
<1> DEFINE row == observations[e[1]]
<1>1. /\ row \in ManifestRows /\ row.phase = phase /\ CellKey(row) = key
      /\ e[2] \in DOMAIN row.requests
  BY DEF EntryOf, ManifestRows, ToSet
<1>2. RequestIn(e) = row.requests[e[2]] /\ RoutesIn(e) = row.routes[e[2]]
  BY DEF RequestIn, RoutesIn
<1> HIDE DEF row
<1>3. IF phase = "native_denoising" THEN NativeRow(row) ELSE SweepRow(row)
  BY <1>1, RowNumbers
<1>4. \E b, s : Names(row, b, s)
  BY <1>3 DEF NativeRow, SweepRow
<1>5. /\ RequestIn(e) \in 0 .. NumRequests - 1
      /\ RoutesIn(e) = [segment |-> row.segment, request |-> RequestIn(e),
                        block |-> row.block, step |-> row.step]
  BY <1>1, <1>2, <1>4 DEF Names, Request
<1> QED  BY <1>1, <1>3, <1>5 DEF row

(* No request is twice in a cell of native observations ...                *)
LEMMA NativeDistinct ==
  ASSUME RowsInv, NEW key,
         NEW d \in Cell("native_denoising", key), NEW e \in Cell("native_denoising", key),
         RequestIn(d) = RequestIn(e)
  PROVE  d = e
<1> DEFINE phase == "native_denoising"
           x == observations[d[1]]
           y == observations[e[1]]
<1>1. EntryOf(d, phase, key) /\ EntryOf(e, phase, key)
  BY CellEntries
<1>2. /\ x.phase = phase /\ CellKey(x) = key /\ NativeRow(x)
      /\ y.phase = phase /\ CellKey(y) = key /\ NativeRow(y)
  BY <1>1, EntryRow
<1>3. /\ d = <<d[1], d[2]>> /\ d[1] \in DOMAIN observations /\ d[2] \in DOMAIN x.requests
      /\ e = <<e[1], e[2]>> /\ e[1] \in DOMAIN observations /\ e[2] \in DOMAIN y.requests
  BY <1>1 DEF EntryOf
<1>4. x.requests[d[2]] = y.requests[e[2]]
  BY DEF RequestIn
<1>5. d[1] = e[1]
  <2> SUFFICES ASSUME d[1] # e[1]  PROVE FALSE
    OBVIOUS
  <2>1. ~Together(x, y)
    BY <1>2, <1>3 DEF RowsInv, OneForward
  <2>2. x.segment = y.segment /\ x.block = y.block /\ x.step = y.step
    BY <1>2, OneStep
  <2> HIDE DEF x, y
  <2> QED  BY <1>3, <1>4, <2>1, <2>2 DEF Together
<1>6. d[2] = e[2]
  <2>1. x = y
    BY <1>5
  <2> HIDE DEF x, y
  <2> QED  BY <1>2, <1>3, <1>4, <2>1 DEF NativeRow
<1> QED  BY <1>3, <1>5, <1>6

(* ... and of the sweep none in one with as many entries as requests.      *)
LEMMA SweepDistinct ==
  ASSUME RowsInv, NEW key, Cardinality(Cell("initial_width_ablation", key)) = NumRequests,
         NEW d \in Cell("initial_width_ablation", key), NEW e \in Cell("initial_width_ablation", key),
         RequestIn(d) = RequestIn(e)
  PROVE  d = e
<1> DEFINE phase == "initial_width_ablation"
           cell == Cell(phase, key)
           x == observations[d[1]]
           y == observations[e[1]]
           places == 1 .. NumRequests
<1>1. EntryOf(d, phase, key) /\ EntryOf(e, phase, key)
  BY CellEntries
<1>2. SweepRow(x) /\ SweepRow(y)
  BY <1>1, EntryRow
<1>3. /\ d = <<d[1], d[2]>> /\ d[1] \in DOMAIN observations /\ d[2] \in DOMAIN x.requests
      /\ x.phase = phase /\ CellKey(x) = key
      /\ e = <<e[1], e[2]>> /\ e[2] \in DOMAIN y.requests
  BY <1>1 DEF EntryOf
<1>4. /\ x.requests = [i \in places |-> i - 1] /\ y.requests = [i \in places |-> i - 1]
      /\ NumRequests \in Nat
  BY <1>2, TraceAssumption DEF SweepRow
<1>5. d[2] = e[2]
  <2>1. x.requests[d[2]] = y.requests[e[2]]
    BY DEF RequestIn
  <2>2. d[2] \in places /\ e[2] \in places
    BY <1>3, <1>4
  <2>3. d[2] - 1 = e[2] - 1 /\ d[2] \in Int /\ e[2] \in Int
    BY <1>4, <2>1, <2>2
  <2> QED  BY <2>3
<1>6. d[1] = e[1]
  <2> SUFFICES ASSUME d[1] # e[1]  PROVE FALSE
    OBVIOUS
  <2> DEFINE f == [i \in places |-> <<d[1], i>>]
             others == cell \ {e}
  <2>1. \A i \in places : <<d[1], i>> \in cell
    BY <1>3, <1>4, CellEntries
  <2>2. \A i \in places : <<d[1], i>> # e
    BY <1>3
  <2>3. f \in Injection(places, others)
    BY <2>1, <2>2 DEF Injection, IsInjective
  <2>4. IsFiniteSet(cell)
    BY CellIsFinite
  <2> HIDE DEF f, cell, places
  <2>5. IsFiniteSet(others) /\ Cardinality(others) = NumRequests - 1
    BY <2>4, FS_RemoveElement DEF cell
  <2>6. Cardinality(places) <= Cardinality(others) /\ Cardinality(places) = NumRequests
    <3>1. Cardinality(places) = NumRequests
      BY <1>4, FS_Interval DEF places
    <3> HIDE DEF others
    <3> QED  BY <2>3, <2>5, <3>1, FS_Injection
  <2> QED  BY <1>4, <2>5, <2>6
<1> QED  BY <1>3, <1>5, <1>6

(* A cell with as many entries as a segment has requests has every request *)
(* once, sorted to its number.                                             *)
LEMMA CellSorted ==
  ASSUME RowsInv, NEW phase \in {"native_denoising", "initial_width_ablation"}, NEW key,
         Cardinality(Cell(phase, key)) = NumRequests
  PROVE  LET cell == Cell(phase, key)
             order == Sorted(cell)
         IN  /\ Cardinality({RequestIn(e) : e \in cell}) = NumRequests
             /\ DOMAIN order = 1 .. NumRequests
             /\ \A i \in 1 .. NumRequests : order[i] \in cell /\ RequestIn(order[i]) = i - 1
<1> DEFINE cell == Cell(phase, key)
           f == [e \in cell |-> RequestIn(e)]
           precedes == {p \in cell \X cell :
                          \/ RequestIn(p[1]) < RequestIn(p[2])
                          \/ RequestIn(p[1]) = RequestIn(p[2]) /\ Concatenated(p[1], p[2])}
<1>1. \A e \in cell : EntryOf(e, phase, key)
  BY CellEntries
<1>2. NumRequests \in Nat /\ IsFiniteSet(cell)
  BY CellIsFinite, TraceAssumption
<1>3. \A e \in cell : RequestIn(e) \in 0 .. NumRequests - 1
  BY <1>1, EntryRow
<1>4. \A d, e \in cell : RequestIn(d) = RequestIn(e) => d = e
  BY NativeDistinct, SweepDistinct
<1>5. ASSUME NEW d \in cell, NEW e \in cell
      PROVE  <<d, e>> \in precedes <=> RequestIn(d) < RequestIn(e)
  <2>1. <<d, e>> \in precedes <=>
          RequestIn(d) < RequestIn(e) \/ (RequestIn(d) = RequestIn(e) /\ Concatenated(d, e))
    OBVIOUS
  <2>2. ~Concatenated(d, d)
    <3>1. /\ d = <<d[1], d[2]>> /\ d[1] \in DOMAIN observations
          /\ d[2] \in DOMAIN observations[d[1]].requests
      BY <1>1 DEF EntryOf
    <3>2. observations[d[1]] \in ManifestRows
      BY <3>1 DEF ManifestRows, ToSet
    <3>3. d[1] \in Int /\ d[2] \in Int
      <4>1. observations \in Seq(ManifestRows)
        BY DEF RowsInv
      <4>2. DOMAIN observations = 1 .. Len(observations) /\ Len(observations) \in Nat
        BY <4>1, LenProperties
      <4>3. DOMAIN observations[d[1]].requests \subseteq 1 .. NumRequests
        BY <3>2 DEF RowsInv, NativeRow, SweepRow, Names
      <4> QED  BY <1>2, <3>1, <4>2, <4>3
    <3> QED  BY <3>3 DEF Concatenated
  <2> QED  BY <1>4, <2>1, <2>2
<1>6. Sorted(cell) = InOrder(cell, precedes)
  BY DEF Sorted
<1>7. {f[e] : e \in cell} = {RequestIn(e) : e \in cell}
  OBVIOUS
<1>8. /\ f \in [cell -> 0 .. NumRequests - 1]
      /\ \A e \in cell : f[e] = RequestIn(e)
  BY <1>3
<1> HIDE DEF f, precedes
<1>9. /\ \A d, e \in cell : f[d] = f[e] => d = e
      /\ \A d, e \in cell : <<d, e>> \in precedes <=> f[d] < f[e]
  BY <1>4, <1>5, <1>8
<1>10. Cardinality(cell) = NumRequests
  OBVIOUS
<1> HIDE DEF cell
<1>11. /\ Cardinality({f[e] : e \in cell}) = NumRequests
       /\ DOMAIN InOrder(cell, precedes) = 1 .. NumRequests
       /\ \A i \in 1 .. NumRequests :
            InOrder(cell, precedes)[i] \in cell /\ f[InOrder(cell, precedes)[i]] = i - 1
  BY <1>2, <1>8, <1>9, <1>10, SortedByRank
<1>12. \A i \in 1 .. NumRequests : Sorted(cell)[i] \in cell /\ RequestIn(Sorted(cell)[i]) = i - 1
  BY <1>6, <1>8, <1>11
<1> QED  BY <1>6, <1>7, <1>11, <1>12 DEF cell

(* When the screen is told how many requests a segment has - its world     *)
(* size times the requests of a rank - no cell makes it raise, and every   *)
(* cell it scores gives source s and local request l the routes of request *)
(* s * requests_per_rank + l, all from one step of one segment             *)
(* (screen_measured_router_trace.py:384-470).                              *)
THEOREM CellsAreExact ==
  ASSUME ExpectedRequests = NumRequests
  PROVE  AnalysisSpec => []CellsExact
<1>1. RowsInv => CellsExact
  <2> SUFFICES ASSUME RowsInv, NEW phase \in {"native_denoising", "initial_width_ablation"}
               PROVE  /\ ~ScreenRaises(phase)
                      /\ \A key \in CompleteCells(phase) : \E row \in ManifestRows :
                           /\ row.phase = phase /\ CellKey(row) = key
                           /\ \A s \in 0 .. WorldSize - 1, l \in 0 .. RequestsPerRank - 1 :
                                CellCounts(phase, key)[<<s, l>>] =
                                  [segment |-> row.segment, request |-> s * RequestsPerRank + l,
                                   block |-> row.block, step |-> row.step]
    BY DEF CellsExact
  <2>1. \A key \in CompleteCells(phase) : Cardinality(Cell(phase, key)) = NumRequests
    BY DEF CompleteCells
  <2>2. ~ScreenRaises(phase)
    BY <2>1, CellSorted DEF ScreenRaises
  <2>3. ASSUME NEW key \in CompleteCells(phase)
        PROVE  \E row \in ManifestRows :
                 /\ row.phase = phase /\ CellKey(row) = key
                 /\ \A s \in 0 .. WorldSize - 1, l \in 0 .. RequestsPerRank - 1 :
                      CellCounts(phase, key)[<<s, l>>] =
                        [segment |-> row.segment, request |-> s * RequestsPerRank + l,
                         block |-> row.block, step |-> row.step]
    <3> DEFINE cell == Cell(phase, key)
               order == Sorted(cell)
    <3>1. /\ DOMAIN order = 1 .. NumRequests
          /\ \A i \in 1 .. NumRequests : order[i] \in cell /\ RequestIn(order[i]) = i - 1
      BY <2>1, CellSorted
    <3>2. CellRoutes(phase, key) = [i \in DOMAIN order |-> RoutesIn(order[i])]
      BY DEF CellRoutes
    <3>3. \A e \in cell : EntryOf(e, phase, key)
      BY CellEntries
    <3> HIDE DEF order, cell
    <3>4. 1 \in 1 .. NumRequests
      BY TraceAssumption
    <3>5. PICK row \in ManifestRows : row = observations[order[1][1]] /\ row.phase = phase /\ CellKey(row) = key
      BY <3>1, <3>3, <3>4, EntryRow
    <3>6. ASSUME NEW s \in 0 .. WorldSize - 1, NEW l \in 0 .. RequestsPerRank - 1
          PROVE  CellCounts(phase, key)[<<s, l>>] =
                   [segment |-> row.segment, request |-> s * RequestsPerRank + l,
                    block |-> row.block, step |-> row.step]
      <4> DEFINE r == s * RequestsPerRank + l
                 y == observations[order[r + 1][1]]
      <4>1. r \in Nat /\ r + 1 \in 1 .. NumRequests
        <5>1. /\ s \in Nat /\ s + 1 \in Nat /\ WorldSize \in Nat /\ RequestsPerRank \in Nat
              /\ s + 1 <= WorldSize /\ l \in Nat /\ l < RequestsPerRank
          BY AnalysisAssumption
        <5>2. /\ s * RequestsPerRank \in Nat
              /\ (s + 1) * RequestsPerRank = s * RequestsPerRank + RequestsPerRank
          BY <5>1, ProductMonotone
        <5>3. (s + 1) * RequestsPerRank <= WorldSize * RequestsPerRank
          BY <5>1, ProductMonotone
        <5>4. WorldSize * RequestsPerRank = NumRequests
          BY DEF ExpectedRequests
        <5> QED  BY <5>1, <5>2, <5>3, <5>4, TraceAssumption
      <4>2. CellCounts(phase, key)[<<s, l>>] = CellRoutes(phase, key)[r + 1]
        BY DEF CellCounts
      <4> HIDE DEF r
      <4>3. order[r + 1] \in cell /\ RequestIn(order[r + 1]) = r
        BY <3>1, <4>1
      <4>4. CellRoutes(phase, key)[r + 1] = RoutesIn(order[r + 1])
        BY <3>1, <3>2, <4>1
      <4>5. EntryOf(order[r + 1], phase, key) /\ EntryOf(order[1], phase, key)
        BY <3>1, <3>3, <3>4, <4>3
      <4>6. RoutesIn(order[r + 1]) = [segment |-> y.segment, request |-> r, block |-> y.block, step |-> y.step]
        BY <4>3, <4>5, EntryRow
      <4>7. (NativeRow(y) /\ NativeRow(row)) \/ (SweepRow(y) /\ SweepRow(row))
        BY <3>5, <4>5, EntryRow
      <4>8. CellKey(y) = CellKey(row)
        BY <3>5, <4>5, EntryRow
      <4> HIDE DEF y
      <4>9. y.segment = row.segment /\ y.block = row.block /\ y.step = row.step
        BY <4>7, <4>8, OneStep
      <4> QED  BY <4>2, <4>4, <4>6, <4>9 DEF r
    <3> QED  BY <3>5, <3>6
  <2> QED  BY <2>2, <2>3
<1> QED  BY <1>1, AnalysisCollects, RowsInvariance, PTL
===============================================================================
