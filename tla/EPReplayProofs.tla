---------------------------- MODULE EPReplayProofs ----------------------------
(***************************************************************************)
(* Proof that the ranks of the benchmark stay within one collective of     *)
(* each other, for any number of ranks, requests, arms and failures, and   *)
(* what follows: collectives that fit together, clean timed intervals, a   *)
(* raise that stops every rank in time, and PASS for complete rows only.   *)
(* The second half follows the tokens: what is exchanged is as many        *)
(* expert ids as were planned, and every token comes back to its slot.     *)
(***************************************************************************)
EXTENDS EPReplay, TokenProofs

(* The collective that the program calls after the one at p.  No rank is   *)
(* ever in a collective at "done".                                         *)
Following(p) ==
  IF p.stage = "select" THEN Place(p.run, "enter", 1, 1)
  ELSE IF p.stage = "enter" THEN Place(p.run, "gather", 1, 1)
  ELSE IF p.stage = "gather" THEN
    IF p.layer # NumLayers THEN Place(p.run, "gather", p.batch, p.layer + 1)
    ELSE IF p.batch # BatchCount THEN Place(p.run, "gather", p.batch + 1, 1)
    ELSE Place(p.run, "ready", 1, 1)
  ELSE IF p.stage = "ready" THEN Place(p.run, "hidden", 1, 1)
  ELSE IF p.stage = "hidden" THEN Place(p.run, "ids", p.batch, p.layer)
  ELSE IF p.stage = "ids" THEN Place(p.run, "combine", p.batch, p.layer)
  ELSE IF p.stage = "combine" THEN
    IF p.layer # NumLayers THEN Place(p.run, "hidden", p.batch, p.layer + 1)
    ELSE IF p.batch # BatchCount THEN Place(p.run, "hidden", p.batch + 1, 1)
    ELSE IF p.run < NumRuns THEN Place(p.run + 1, "enter", 1, 1)
    ELSE Place(p.run, "written", 1, 1)
  ELSE Place(p.run, "done", 1, 1)

(* The last collective of a run. *)
LastCombine(n) == Place(n, "combine", BatchCount, NumLayers)

(* The last collective that a computing rank at p came out of; the first   *)
(* place stands for none.                                                  *)
Came(p) ==
  IF p.stage = "select" THEN IF p.run = 1 THEN p ELSE LastCombine(p.run - 1)
  ELSE IF p.stage = "write" THEN LastCombine(p.run)
  ELSE IF p.stage = "done" THEN Place(p.run, "written", 1, 1)
  ELSE p

(* No rank is more than one collective ahead of another.                   *)
Lockstep ==
  \A r, s \in Rank :
    /\ Waiting(r) /\ Waiting(s) => at[r] = at[s]
    /\ ~Waiting(r) /\ ~Waiting(s) => Came(at[r]) = Came(at[s])
    /\ Waiting(r) /\ ~Waiting(s) => at[r] = Following(Came(at[s]))

(* All places of the program. *)
Places == [run : Run, stage : Stages, batch : Batch, layer : Layer]

(* Where a rank can be, and what it is waiting for.                        *)
Control ==
  /\ at \in [Rank -> Places]
  /\ call = [r \in Rank |-> call[r]]
  /\ \A r \in Rank :
       /\ at[r].stage \notin {"gather", "hidden", "ids", "combine"} =>
            at[r].batch = 1 /\ at[r].layer = 1
       /\ at[r].stage \in {"write", "written", "done"} => at[r].run = NumRuns
       /\ at[r].stage \in {"select", "write", "done"} => ~Waiting(r)
       /\ at[r].stage \notin {"select", "write", "written", "done"} => HasPlan(ArmOf(at[r].run))

(* What a rank announces in the count exchange and what it hears.          *)
Announced(s, p) == Planned(s, p.run, p.batch, p.layer).send

(* What a rank sends and has received is what was announced. *)
Exchanged ==
  \A r \in Rank :
    /\ Waiting(r) => (call[r].op = "all_gather" <=> at[r].stage = "gather")
    /\ Waiting(r) /\ at[r].stage = "gather" => call[r].value.splits = Announced(r, at[r])
    /\ ~Waiting(r) /\ at[r].stage = "gather" =>
         \A s \in Rank : inbox[r][s].splits = Announced(s, at[r])

(* The rows of the runs a rank has finished.                               *)
Row(n) == [arm |-> ArmOf(n), valid |-> TRUE]
(* How many runs a rank at p has a row for. *)
RunsDone(p) == IF p.stage \in {"write", "written", "done"} THEN NumRuns ELSE p.run - 1

(* Rows, files and PASS follow the place of a rank. *)
Recorded ==
  /\ confirmed = [r \in Rank |-> TRUE]
  /\ rows = [r \in Rank |-> [n \in 1 .. RunsDone(at[r]) |-> Row(n)]]
  /\ \A r \in Rank : at[r].stage \in {"written", "done"} => r \in files
  /\ passed => \A r \in Rank : at[r].stage \in {"written", "done"}

(* A rank that raised stays where it was.                                  *)
Raised ==
  \A r \in missing :
    r \in Rank /\ at[r].stage = "select" /\ ~HasPlan(ArmOf(at[r].run))

(* The inductive invariant. *)
Inductive == Control /\ Lockstep /\ Exchanged /\ Recorded /\ Raised

-----------------------------------------------------------------------------
(* There is a first batch and a first run. *)
LEMMA Sizes ==
  /\ BatchCount \in Nat \ {0}
  /\ NumRuns \in Nat \ {0}
  /\ NumLayers \in Nat \ {0}
  /\ NumSources \in Nat \ {0}
<1>1. NumRequests \in Nat \ {0} /\ BatchSize \in Nat \ {0} /\ NumRequests % BatchSize = 0
  BY PlanAssumption
<1>2. BatchCount \in Nat \ {0}
  BY <1>1 DEF BatchCount
<1>3. Repetitions \in Nat \ {0} /\ Len(Arms) \in Nat \ {0}
  BY RunAssumption
<1>4. NumRuns \in Nat \ {0}
  BY <1>3 DEF NumRuns
<1> QED
  BY <1>2, <1>4, PlanAssumption

(* A rank that comes to the next collective keeps the ranks in step.       *)
LEMMA JoinKeepsStep ==
  ASSUME Lockstep, NEW r \in Rank, ~Waiting(r),
         Waiting(r)',
         at'[r] = Following(Came(at[r])),
         \A s \in Rank \ {r} : at'[s] = at[s] /\ call'[s] = call[s]
  PROVE  Lockstep'
BY DEF Lockstep, Waiting, Rank, Source

(* So does one that goes on without having left another collective.        *)
LEMMA MoveKeepsStep ==
  ASSUME Lockstep, NEW r \in Rank, ~Waiting(r),
         ~Waiting(r)',
         Came(at[r])' = Came(at[r]),
         \A s \in Rank \ {r} : at'[s] = at[s] /\ call'[s] = call[s]
  PROVE  Lockstep'
BY DEF Lockstep, Waiting, Rank, Source

(* And so does the end of a collective.                                    *)
LEMMA LeaveKeepsStep ==
  ASSUME Lockstep, \A r \in Rank : Waiting(r), LeaveAll, at' = at
  PROVE  Lockstep'
BY DEF Lockstep, LeaveAll, Waiting, Rank, Source, NoCall

(* Every rank derives the same batches for every source, so what a rank    *)
(* expects from another is what that one announces.                        *)
LEMMA PlansAgree ==
  ASSUME NEW r \in Rank, NEW s \in Rank, NEW n, NEW b, NEW l
  PROVE  Planned(r, n, b, l).recv[s] = Planned(s, n, b, l).send[r]
<1>1. \A x \in Rank, y \in Rank : GlobalBatches(x, n)[y] = schedule[n][y]
  BY DEF GlobalBatches, Batches, Recomputed, Rank
<1>2. Planned(r, n, b, l).recv[s] = SplitVector(FlatIds(routes, s, schedule[n][s][b], l))[r]
  BY <1>1 DEF Planned, ReplayMetadata, Rank
<1>3. Planned(s, n, b, l).send = SplitVector(FlatIds(routes, s, schedule[n][s][b], l))
  BY <1>1 DEF Planned, ReplayMetadata
<1> QED
  BY <1>2, <1>3

(* What a rank announces depends on the inputs only. *)
LEMMA SameAnnouncements ==
  ASSUME UNCHANGED inputs, NEW s \in Rank, NEW p
  PROVE  /\ Announced(s, p)' = Announced(s, p)
         /\ \A arm : HasPlan(arm)' = HasPlan(arm)
BY DEF inputs, Announced, Planned, GlobalBatches, Batches, Recomputed, HasPlan

(* The places that hold a collective of the loops over batches and layers. *)
InLoop == {"gather", "hidden", "ids", "combine"}

-----------------------------------------------------------------------------
(* Before the first run all ranks select. *)
LEMMA InitEstablishes == Init => Inductive
<1> SUFFICES ASSUME Init PROVE Inductive
  OBVIOUS
<1> USE DEF Init
<1>1. \A r \in Rank : at[r] = Place(1, "select", 1, 1) /\ ~Waiting(r)
  BY DEF Waiting, NoCall
<1>2. Place(1, "select", 1, 1) \in Places
  BY Sizes DEF Place, Places, Run, Stages, Batch, Layer
<1>3. Control
  BY <1>1, <1>2 DEF Control, Place
<1>4. Lockstep
  BY <1>1 DEF Lockstep
<1>5. Exchanged
  BY <1>1 DEF Exchanged, Place
<1>6. Recorded
  <2>1. \A r \in Rank : RunsDone(at[r]) = 0
    BY <1>1 DEF RunsDone, Place
  <2>2. [n \in 1 .. 0 |-> Row(n)] = <<>>
    OBVIOUS
  <2>3. rows = [r \in Rank |-> [n \in 1 .. RunsDone(at[r]) |-> Row(n)]]
    BY <2>1, <2>2
  <2> QED
    BY <1>1, <2>3 DEF Recorded, Place
<1> QED
  BY <1>3, <1>4, <1>5, <1>6 DEF Inductive, Raised

(* A rank that comes to its next collective.                               *)
LEMMA JoinKeeps ==
  ASSUME Inductive, NEW r \in Rank, ~Waiting(r), r \notin missing,
         at[r].stage \notin {"written", "done"},
         NEW place \in Places, NEW request, Enter(r, place, request),
         place = Following(Came(at[r])),
         place.stage \notin {"select", "write", "done"},
         place.stage # "written" => HasPlan(ArmOf(place.run)),
         place.stage = "written" => place.run = NumRuns,
         place.stage \notin InLoop => place.batch = 1 /\ place.layer = 1,
         request.op # "none",
         request.op = "all_gather" <=> place.stage = "gather",
         place.stage = "gather" => request.value.splits = Announced(r, place),
         RunsDone(place) = RunsDone(at[r]),
         files \subseteq files',
         place.stage = "written" => r \in files',
         UNCHANGED <<inputs, inbox, confirmed, rows, passed, missing>>
  PROVE  Inductive'
<1> USE DEF Inductive
<1>1. /\ at' \in [Rank -> Places] /\ at'[r] = place
      /\ call' = [s \in Rank |-> call'[s]] /\ call'[r] = request
      /\ \A s \in Rank \ {r} : at'[s] = at[s] /\ call'[s] = call[s]
  BY DEF Enter, Control
<1>2. Waiting(r)' /\ \A s \in Rank \ {r} : Waiting(s)' = Waiting(s)
  BY <1>1 DEF Waiting
<1>3. \A s \in Rank : \A p : Announced(s, p)' = Announced(s, p)
  BY SameAnnouncements
<1>4. \A arm : HasPlan(arm)' = HasPlan(arm)
  BY SameAnnouncements
<1>5. Control'
  BY <1>1, <1>2, <1>4 DEF Control, InLoop
<1>6. Lockstep'
  BY <1>1, <1>2, JoinKeepsStep
<1>7. Exchanged'
  BY <1>1, <1>2, <1>3 DEF Exchanged
<1>8. Recorded'
  <2>1. \A s \in Rank : RunsDone(at'[s]) = RunsDone(at[s])
    BY <1>1
  <2>2. ~passed
    BY DEF Recorded
  <2> QED
    BY <1>1, <2>1, <2>2 DEF Recorded
<1>9. Raised'
  BY <1>1, <1>4 DEF Raised
<1> QED
  BY <1>5, <1>6, <1>7, <1>8, <1>9

(* The ranges of a place. *)
LEMMA PlaceParts ==
  ASSUME Control, NEW r \in Rank
  PROVE  /\ at[r] = Place(at[r].run, at[r].stage, at[r].batch, at[r].layer)
         /\ at[r].run \in Run /\ at[r].stage \in Stages
         /\ at[r].batch \in Batch /\ at[r].layer \in Layer
BY DEF Control, Places, Place

(* The loops over batches and layers end where the code says. *)
LEMMA LoopOrder ==
  ASSUME NEW b \in Batch, NEW l \in Layer
  PROVE  /\ l # NumLayers => l + 1 \in Layer
         /\ b # BatchCount => b + 1 \in Batch
         /\ 1 \in Batch /\ 1 \in Layer
BY Sizes DEF Batch, Layer

(* What a rank heard in the exchange is what it expects, so a confirmed    *)
(* rank stays confirmed.                                                   *)
LEMMA StaysConfirmed ==
  ASSUME Inductive, NEW r \in Rank, ~Waiting(r), at[r].stage = "gather"
  PROVE  [confirmed EXCEPT ![r] = @ /\ CountsAgree(r)] = confirmed
<1> DEFINE plan(s) == Planned(s, at[r].run, at[r].batch, at[r].layer)
<1>1. \A s \in Rank : inbox[r][s].splits = plan(s).send
  BY DEF Inductive, Exchanged, Announced
<1>2. \A s \in Rank : plan(s).send[r] = plan(r).recv[s]
  BY PlansAgree
<1>3. plan(r).recv = [s \in Rank |-> plan(r).recv[s]]
  BY DEF Planned, ReplayMetadata, Rank
<1> HIDE DEF plan
<1>4. [s \in Rank |-> inbox[r][s].splits[r]] = plan(r).recv
  BY <1>1, <1>2, <1>3
<1>5. CountsAgree(r) = TRUE
  BY <1>4 DEF CountsAgree, plan
<1> QED
  BY <1>5 DEF Inductive, Recorded

(* From the selection to the first barrier: the only step that needs a plan. *)
LEMMA SelectKeeps ==
  ASSUME Inductive, NEW r \in Rank, SelectBatches(r)
  PROVE  Inductive'
<1> DEFINE place == Place(at[r].run, "enter", 1, 1)
<1>1. /\ ~Waiting(r) /\ at[r].stage = "select" /\ r \notin missing
      /\ HasPlan(ArmOf(at[r].run)) /\ Enter(r, place, Barrier)
      /\ UNCHANGED <<inputs, inbox, confirmed, rows, files, passed, missing>>
  BY DEF SelectBatches, Computes, Dead, buffers, results, deaths
<1>2. at[r].run \in Run
  BY PlaceParts DEF Inductive
<1>3. place \in Places
  BY <1>2, Sizes DEF Place, Places, Stages, Batch, Layer
<1>4. place = Following(Came(at[r]))
  <2>1. CASE at[r].run = 1
    BY <1>1, <2>1 DEF Came, Following
  <2>2. CASE at[r].run # 1
    <3>1. Came(at[r]) = LastCombine(at[r].run - 1)
      BY <1>1, <2>2 DEF Came
    <3>2. at[r].run - 1 < NumRuns /\ at[r].run - 1 + 1 = at[r].run
      BY <1>2, Sizes DEF Run
    <3> QED
      BY <3>1, <3>2 DEF LastCombine, Following, Place
  <2> QED
    BY <2>1, <2>2
<1>5. RunsDone(place) = RunsDone(at[r])
  BY <1>1 DEF RunsDone, Place
<1> QED
  BY <1>1, <1>3, <1>4, <1>5, JoinKeeps DEF Place, Barrier

(* From the first barrier into the first exchange. *)
LEMMA BeginExchangeKeeps ==
  ASSUME Inductive, NEW r \in Rank, BeginExchange(r)
  PROVE  Inductive'
<1> DEFINE place == Place(at[r].run, "gather", 1, 1)
           request == AllGather([splits |-> Planned(r, at[r].run, 1, 1).send])
<1>1. /\ ~Waiting(r) /\ at[r].stage = "enter" /\ r \notin missing
      /\ Enter(r, place, request)
      /\ UNCHANGED <<inputs, inbox, rows, files, passed, missing>>
  BY DEF BeginExchange, GatherAt, Computes, Dead, buffers, deaths
<1>2. UNCHANGED confirmed
  BY DEF BeginExchange, Inductive, Recorded
<1>3. at[r].run \in Run /\ HasPlan(ArmOf(at[r].run))
  BY <1>1, PlaceParts DEF Inductive, Control
<1>4. place \in Places
  BY <1>3, Sizes DEF Place, Places, Stages, Batch, Layer
<1>5. place = Following(Came(at[r])) /\ RunsDone(place) = RunsDone(at[r])
  BY <1>1 DEF Came, Following, RunsDone, Place
<1>6. request.op = "all_gather" /\ request.value.splits = Announced(r, place)
  BY DEF AllGather, Announced, Place
<1> QED
  BY <1>1, <1>2, <1>3, <1>4, <1>5, <1>6, JoinKeeps DEF Place, InLoop

(* From one exchange to that of the next layer or batch. *)
LEMMA ContinueExchangeKeeps ==
  ASSUME Inductive, NEW r \in Rank, ContinueExchange(r)
  PROVE  Inductive'
<1> DEFINE place == IF LastLayer(r) THEN Place(at[r].run, "gather", at[r].batch + 1, 1)
                    ELSE Place(at[r].run, "gather", at[r].batch, at[r].layer + 1)
           request == AllGather([splits |-> Planned(r, at[r].run, place.batch, place.layer).send])
<1>1. /\ ~Waiting(r) /\ at[r].stage = "gather" /\ r \notin missing
      /\ ~(LastBatch(r) /\ LastLayer(r))
      /\ UNCHANGED <<inputs, inbox, rows, files, passed, missing>>
  BY DEF ContinueExchange, Computes, Dead, buffers, deaths
<1>2. Enter(r, place, request)
  BY DEF ContinueExchange, GatherAt, Place
<1>3. UNCHANGED confirmed
  BY <1>1, StaysConfirmed DEF ContinueExchange
<1>4. at[r].run \in Run /\ HasPlan(ArmOf(at[r].run)) /\ at[r].batch \in Batch /\ at[r].layer \in Layer
  BY <1>1, PlaceParts DEF Inductive, Control
<1>5. place \in Places
  BY <1>1, <1>4, LoopOrder DEF Place, Places, Stages, LastBatch, LastLayer
<1>6. place = Following(Came(at[r])) /\ RunsDone(place) = RunsDone(at[r])
  BY <1>1 DEF Came, Following, RunsDone, Place, LastLayer, LastBatch
<1>7. /\ place.run = at[r].run /\ place.stage = "gather"
      /\ request.op = "all_gather" /\ request.value.splits = Announced(r, place)
  BY DEF AllGather, Announced, Place
<1> HIDE DEF place, request
<1> QED
  BY <1>1, <1>2, <1>3, <1>4, <1>5, <1>6, <1>7, JoinKeeps DEF InLoop

(* From the last exchange to the second barrier. *)
LEMMA EndExchangeKeeps ==
  ASSUME Inductive, NEW r \in Rank, EndExchange(r)
  PROVE  Inductive'
<1> DEFINE place == Place(at[r].run, "ready", 1, 1)
<1>1. /\ ~Waiting(r) /\ at[r].stage = "gather" /\ r \notin missing
      /\ LastBatch(r) /\ LastLayer(r) /\ Enter(r, place, Barrier)
      /\ UNCHANGED <<inputs, inbox, rows, files, passed, missing>>
  BY DEF EndExchange, Computes, Dead, buffers, deaths
<1>2. UNCHANGED confirmed
  BY <1>1, StaysConfirmed DEF EndExchange
<1>3. at[r].run \in Run /\ HasPlan(ArmOf(at[r].run))
  BY <1>1, PlaceParts DEF Inductive, Control
<1>4. place \in Places
  BY <1>3, Sizes DEF Place, Places, Stages, Batch, Layer
<1>5. place = Following(Came(at[r])) /\ RunsDone(place) = RunsDone(at[r])
  BY <1>1 DEF Came, Following, RunsDone, Place, LastLayer, LastBatch
<1> QED
  BY <1>1, <1>2, <1>3, <1>4, <1>5, JoinKeeps DEF Place, Barrier

(* A dispatch sends hidden states and counts nothing. *)
LEMMA DispatchKeeps ==
  ASSUME Inductive, NEW r \in Rank, ~Waiting(r), r \notin missing,
         at[r].stage \in {"ready", "combine"},
         NEW b \in Batch, NEW l \in Layer, NEW values, DispatchAt(r, b, l, values),
         Place(at[r].run, "hidden", b, l) = Following(at[r]),
         UNCHANGED <<inputs, inbox, results, missing>>
  PROVE  Inductive'
<1> DEFINE place == Place(at[r].run, "hidden", b, l)
<1>1. PICK request : Enter(r, place, request) /\ request.op = "all_to_all"
  BY DEF DispatchAt, AllToAll
<1>2. at[r].run \in Run /\ HasPlan(ArmOf(at[r].run))
  BY PlaceParts DEF Inductive, Control
<1>3. place \in Places
  BY <1>2 DEF Place, Places, Stages
<1>4. place = Following(Came(at[r])) /\ RunsDone(place) = RunsDone(at[r])
  BY DEF Came, RunsDone, Place
<1>5. UNCHANGED <<confirmed, rows, files, passed>>
  BY DEF results
<1> QED
  BY <1>1, <1>2, <1>3, <1>4, <1>5, JoinKeeps DEF Place, InLoop

(* From the second barrier into the first dispatch. *)
LEMMA BeginBatchesKeeps ==
  ASSUME Inductive, NEW r \in Rank, BeginBatches(r)
  PROVE  Inductive'
<1>1. /\ ~Waiting(r) /\ at[r].stage = "ready" /\ r \notin missing
      /\ DispatchAt(r, 1, 1, InitialHidden(r, 1))
      /\ UNCHANGED <<inputs, inbox, results, missing>>
  BY DEF BeginBatches, Computes, Dead, deaths
<1>2. 1 \in Batch /\ 1 \in Layer
  BY Sizes DEF Batch, Layer
<1>3. Place(at[r].run, "hidden", 1, 1) = Following(at[r])
  BY <1>1 DEF Following
<1> QED
  BY <1>1, <1>2, <1>3, DispatchKeeps

(* From a combine to the dispatch of the next layer. *)
LEMMA NextLayerKeeps ==
  ASSUME Inductive, NEW r \in Rank, NextLayer(r)
  PROVE  Inductive'
<1>1. /\ ~Waiting(r) /\ at[r].stage = "combine" /\ r \notin missing
      /\ DispatchAt(r, at[r].batch, at[r].layer + 1, Combined(r))
      /\ at[r].layer # NumLayers
      /\ UNCHANGED <<inputs, inbox, results, missing>>
  BY DEF NextLayer, Computes, Dead, deaths, LastLayer
<1>2. at[r].batch \in Batch /\ at[r].layer + 1 \in Layer
  BY <1>1, PlaceParts, LoopOrder DEF Inductive
<1>3. Place(at[r].run, "hidden", at[r].batch, at[r].layer + 1) = Following(at[r])
  BY <1>1 DEF Following
<1> QED
  BY <1>1, <1>2, <1>3, DispatchKeeps

(* From the last combine of a batch to the first dispatch of the next. *)
LEMMA NextBatchKeeps ==
  ASSUME Inductive, NEW r \in Rank, NextBatch(r)
  PROVE  Inductive'
<1>1. /\ ~Waiting(r) /\ at[r].stage = "combine" /\ r \notin missing
      /\ DispatchAt(r, at[r].batch + 1, 1, InitialHidden(r, at[r].batch + 1))
      /\ at[r].layer = NumLayers /\ at[r].batch # BatchCount
      /\ UNCHANGED <<inputs, inbox, results, missing>>
  BY DEF NextBatch, Computes, Dead, deaths, LastLayer, LastBatch
<1>2. at[r].batch + 1 \in Batch /\ 1 \in Layer
  BY <1>1, PlaceParts, LoopOrder DEF Inductive
<1>3. Place(at[r].run, "hidden", at[r].batch + 1, 1) = Following(at[r])
  BY <1>1 DEF Following
<1> QED
  BY <1>1, <1>2, <1>3, DispatchKeeps

(* The second half of a dispatch, and the combine. *)
LEMMA ExpertsKeep ==
  ASSUME Inductive, NEW r \in Rank, DispatchIds(r) \/ RunExperts(r)
  PROVE  Inductive'
<1> DEFINE stage == IF at[r].stage = "hidden" THEN "ids" ELSE "combine"
           place == Place(at[r].run, stage, at[r].batch, at[r].layer)
<1>1. /\ ~Waiting(r) /\ at[r].stage \in {"hidden", "ids"} /\ r \notin missing
      /\ UNCHANGED <<inputs, inbox, confirmed, rows, files, passed, missing>>
  BY DEF DispatchIds, RunExperts, Computes, Dead, results, deaths, buffers
<1>2. at[r] = Place(at[r].run, at[r].stage, at[r].batch, at[r].layer)
  BY PlaceParts DEF Inductive
<1>3. \A x : [at[r] EXCEPT !.stage = x] = Place(at[r].run, x, at[r].batch, at[r].layer)
  BY <1>2 DEF Place
<1>4. PICK request : Enter(r, place, request) /\ request.op = "all_to_all"
  <2>1. CASE DispatchIds(r)
    <3>1. at[r].stage = "hidden"
      BY <2>1 DEF DispatchIds, Computes
    <3> QED
      BY <2>1, <3>1, <1>3 DEF DispatchIds, AllToAll
  <2>2. CASE RunExperts(r)
    <3>1. at[r].stage = "ids"
      BY <2>2 DEF RunExperts, Computes
    <3> QED
      BY <2>2, <3>1, <1>3 DEF RunExperts, AllToAll
  <2> QED
    BY <2>1, <2>2
<1>5. /\ at[r].run \in Run /\ HasPlan(ArmOf(at[r].run))
      /\ at[r].batch \in Batch /\ at[r].layer \in Layer
  BY <1>1, PlaceParts DEF Inductive, Control
<1>6. place \in Places /\ place.stage \in {"ids", "combine"} /\ place.run = at[r].run
  BY <1>5 DEF Place, Places, Stages
<1>7. place = Following(Came(at[r])) /\ RunsDone(place) = RunsDone(at[r])
  BY <1>1 DEF Came, Following, RunsDone, Place
<1> HIDE DEF place
<1> QED
  BY <1>1, <1>4, <1>5, <1>6, <1>7, JoinKeeps DEF InLoop

(* From the files of a rank to the last barrier. *)
LEMMA WriteRowsKeeps ==
  ASSUME Inductive, NEW r \in Rank, WriteRows(r)
  PROVE  Inductive'
<1> DEFINE place == Place(at[r].run, "written", 1, 1)
<1>1. /\ ~Waiting(r) /\ at[r].stage = "write" /\ r \notin missing
      /\ Enter(r, [at[r] EXCEPT !.stage = "written"], Barrier) /\ files' = files \union {r}
      /\ UNCHANGED <<inputs, inbox, confirmed, rows, passed, missing>>
  BY DEF WriteRows, Computes, Dead, buffers, deaths
<1>2. at[r] = Place(NumRuns, "write", 1, 1) /\ at[r].run \in Run
  BY <1>1, PlaceParts DEF Inductive, Control
<1>3. [at[r] EXCEPT !.stage = "written"] = place
  BY <1>2 DEF Place
<1>4. place \in Places /\ place.run = NumRuns
  BY <1>2, Sizes DEF Place, Places, Stages, Batch, Layer
<1>5. place = Following(Came(at[r])) /\ RunsDone(place) = RunsDone(at[r])
  BY <1>2, Sizes DEF Came, LastCombine, Following, RunsDone, Place
<1> QED
  BY <1>1, <1>3, <1>4, <1>5, JoinKeeps DEF Place, Barrier

(* A rank that goes on to another place without a collective. *)
LEMMA MoveKeeps ==
  ASSUME Inductive, NEW r \in Rank, ~Waiting(r), r \notin missing,
         NEW place \in Places, at' = [at EXCEPT ![r] = place],
         Came(place) = Came(at[r]),
         place.stage \in {"select", "write", "done"},
         place.batch = 1 /\ place.layer = 1,
         place.stage # "select" => place.run = NumRuns,
         place.stage = "done" => r \in files,
         rows' = [rows EXCEPT ![r] = [n \in 1 .. RunsDone(place) |-> Row(n)]],
         passed' => \A s \in Rank : at'[s].stage \in {"written", "done"},
         UNCHANGED <<inputs, call, inbox, confirmed, files, missing>>
  PROVE  Inductive'
<1> USE DEF Inductive
<1>1. /\ at' \in [Rank -> Places] /\ at'[r] = place
      /\ \A s \in Rank \ {r} : at'[s] = at[s]
  BY DEF Control
<1>2. \A s \in Rank : Waiting(s)' = Waiting(s)
  BY DEF Waiting
<1>3. \A s \in Rank : \A p : Announced(s, p)' = Announced(s, p)
  BY SameAnnouncements
<1>4. \A arm : HasPlan(arm)' = HasPlan(arm)
  BY SameAnnouncements
<1>5. Control'
  BY <1>1, <1>2, <1>4 DEF Control
<1>6. Lockstep'
  BY <1>1, <1>2, MoveKeepsStep
<1>7. Exchanged'
  BY <1>1, <1>2, <1>3 DEF Exchanged
<1>8. Recorded'
  <2>1. rows' = [s \in Rank |-> [n \in 1 .. RunsDone(at'[s]) |-> Row(n)]]
    BY <1>1 DEF Recorded
  <2> QED
    BY <1>1, <2>1 DEF Recorded
<1>9. Raised'
  BY <1>1, <1>4 DEF Raised
<1> QED
  BY <1>5, <1>6, <1>7, <1>8, <1>9

(* One more row is the rows of one more run. *)
LEMMA AppendRow ==
  ASSUME NEW k \in Nat
  PROVE  Append([n \in 1 .. k |-> Row(n)], Row(k + 1)) = [n \in 1 .. k + 1 |-> Row(n)]
<1> DEFINE before == [n \in 1 .. k |-> Row(n)]
           after == [n \in 1 .. k + 1 |-> Row(n)]
<1> HIDE DEF Row
<1>1. before \in Seq({Row(n) : n \in Nat}) /\ Len(before) = k
  OBVIOUS
<1>2. after \in Seq({Row(n) : n \in Nat}) /\ Len(after) = k + 1
  OBVIOUS
<1>3. \A n \in 1 .. k + 1 : Append(before, Row(k + 1))[n] = after[n]
  BY <1>1
<1> QED
  BY <1>1, <1>2, <1>3

(* The end of a run, whose row is valid. *)
LEMMA RecordRunKeeps ==
  ASSUME Inductive, NEW r \in Rank, RecordRun(r)
  PROVE  Inductive'
<1> DEFINE place == IF at[r].run < NumRuns THEN Place(at[r].run + 1, "select", 1, 1)
                    ELSE Place(at[r].run, "write", 1, 1)
<1>1. /\ ~Waiting(r) /\ at[r].stage = "combine" /\ r \notin missing
      /\ at[r].batch = BatchCount /\ at[r].layer = NumLayers
      /\ UNCHANGED <<inputs, call, inbox, confirmed, files, passed, missing>>
  BY DEF RecordRun, Computes, Dead, deaths, LastLayer, LastBatch
<1>2. at' = [at EXCEPT ![r] = place]
  BY DEF RecordRun
<1>3. at[r].run \in 1 .. NumRuns /\ at[r] = LastCombine(at[r].run)
  BY <1>1, PlaceParts DEF Inductive, LastCombine, Run
<1>4. /\ place \in Places /\ place.batch = 1 /\ place.layer = 1
      /\ place.stage \in {"select", "write"} /\ (place.stage = "write" => place.run = NumRuns)
  BY <1>3, Sizes DEF Place, Places, Stages, Batch, Layer, Run
<1>5. RunsDone(place) = at[r].run
  BY <1>3, Sizes DEF RunsDone, Place
<1>6. Came(place) = Came(at[r])
  <2>1. Came(at[r]) = LastCombine(at[r].run)
    BY <1>1, <1>3 DEF Came
  <2>2. CASE at[r].run < NumRuns
    <3>1. place.run # 1 /\ place.run - 1 = at[r].run /\ place.stage = "select"
      BY <1>3, <2>2, Sizes DEF Place
    <3> QED
      BY <2>1, <3>1 DEF Came
  <2>3. CASE ~(at[r].run < NumRuns)
    BY <2>1, <2>3 DEF Came, Place
  <2> QED
    BY <2>2, <2>3
<1>7. rows' = [rows EXCEPT ![r] = [n \in 1 .. RunsDone(place) |-> Row(n)]]
  <2>1. rows[r] = [n \in 1 .. at[r].run - 1 |-> Row(n)] /\ confirmed[r] = TRUE
    BY <1>1 DEF Inductive, Recorded, RunsDone
  <2>2. at[r].run - 1 \in Nat /\ at[r].run - 1 + 1 = at[r].run
    BY <1>3, Sizes
  <2>3. Append(rows[r], Row(at[r].run)) = [n \in 1 .. at[r].run |-> Row(n)]
    BY <2>1, <2>2, AppendRow
  <2>4. rows' = [rows EXCEPT ![r] = Append(rows[r], Row(at[r].run))]
    BY <2>1 DEF RecordRun, Row
  <2> QED
    BY <1>5, <2>3, <2>4
<1>8. ~passed
  BY <1>1 DEF Inductive, Recorded
<1> HIDE DEF place
<1> QED
  BY <1>1, <1>2, <1>4, <1>6, <1>7, <1>8, MoveKeeps

(* The end of the program: by then every rank has written its rows. *)
LEMMA FinishKeeps ==
  ASSUME Inductive, NEW r \in Rank, Finish(r)
  PROVE  Inductive'
<1> DEFINE place == Place(NumRuns, "done", 1, 1)
<1>1. /\ ~Waiting(r) /\ at[r].stage = "written" /\ r \notin missing
      /\ at' = [at EXCEPT ![r].stage = "done"]
      /\ UNCHANGED <<inputs, call, inbox, confirmed, rows, files, missing>>
  BY DEF Finish, Computes, Dead, deaths, buffers
<1>2. at[r] = Place(NumRuns, "written", 1, 1)
  BY <1>1, PlaceParts DEF Inductive, Control
<1>3. at' = [at EXCEPT ![r] = place]
  <2>1. [at[r] EXCEPT !.stage = "done"] = place
    BY <1>2 DEF Place
  <2>2. at' = [at EXCEPT ![r] = [at[r] EXCEPT !.stage = "done"]]
    BY <1>1 DEF Inductive, Control
  <2> QED
    BY <2>1, <2>2
<1>4. place \in Places
  BY Sizes DEF Place, Places, Stages, Batch, Layer, Run
<1>5. Came(place) = at[r] /\ Came(at[r]) = at[r]
  BY <1>1, <1>2 DEF Came, Place
<1>6. RunsDone(place) = RunsDone(at[r]) /\ r \in files
  BY <1>1 DEF RunsDone, Place, Inductive, Recorded
<1>7. rows' = [rows EXCEPT ![r] = [n \in 1 .. RunsDone(place) |-> Row(n)]]
  BY <1>1, <1>6 DEF Inductive, Recorded
<1>8. \A s \in Rank : at[s].stage \in {"written", "done"}
  <2> SUFFICES ASSUME NEW s \in Rank PROVE at[s].stage \in {"written", "done"}
    OBVIOUS
  <2>1. CASE Waiting(s)
    <3>1. at[s] = Following(at[r])
      BY <1>1, <1>5, <2>1 DEF Inductive, Lockstep
    <3>2. at[s].stage = "done"
      BY <1>1, <3>1 DEF Following, Place
    <3> QED
      BY <3>2
  <2>2. CASE ~Waiting(s)
    <3>1. Came(at[s]) = at[r]
      BY <1>1, <1>5, <2>2 DEF Inductive, Lockstep
    <3> QED
      BY <1>1, <3>1 DEF Came, LastCombine, Place
  <2> QED
    BY <2>1, <2>2
<1>9. \A s \in Rank : at'[s].stage \in {"written", "done"}
  BY <1>3, <1>8 DEF Inductive, Control, Place
<1> QED
  BY <1>1, <1>3, <1>4, <1>5, <1>6, <1>7, <1>9, MoveKeeps DEF Place

(* A rank that ends otherwise leaves everything in place. *)
LEMMA DeathKeeps ==
  ASSUME Inductive, UNCHANGED <<inputs, at, call, inbox, results>>,
         \A r \in missing' \ missing :
           r \in Rank /\ at[r].stage = "select" /\ ~HasPlan(ArmOf(at[r].run))
  PROVE  Inductive'
<1> USE DEF Inductive
<1>1. \A s \in Rank : \A p : Announced(s, p)' = Announced(s, p)
  BY SameAnnouncements
<1>2. \A arm : HasPlan(arm)' = HasPlan(arm)
  BY DEF HasPlan, inputs
<1>3. \A r \in Rank : Waiting(r)' = Waiting(r)
  BY DEF Waiting
<1>4. Control' /\ Lockstep' /\ Exchanged' /\ Recorded'
  BY <1>1, <1>2, <1>3 DEF Control, Lockstep, Exchanged, Recorded, results
<1>5. Raised'
  BY <1>2 DEF Raised
<1> QED
  BY <1>4, <1>5

(* The end of a collective: what was announced has been heard. *)
LEMMA CompleteKeeps ==
  ASSUME Inductive, Complete
  PROVE  Inductive'
<1> USE DEF Inductive
<1>1. /\ LeaveAll /\ \A r \in Rank : Waiting(r)
      /\ UNCHANGED <<inputs, at, results, missing>>
  BY DEF Complete, CompleteBarrier, CompleteAllGather, CompleteAllToAll, AllIn, Waiting, deaths
<1>2. \A r \in Rank : ~Waiting(r)'
  BY <1>1 DEF LeaveAll, Waiting, NoCall
<1>3. \A s \in Rank : \A p : Announced(s, p)' = Announced(s, p)
  BY <1>1, SameAnnouncements
<1>4. \A arm : HasPlan(arm)' = HasPlan(arm)
  BY <1>1 DEF HasPlan, inputs
<1>5. Control'
  BY <1>1, <1>2, <1>4 DEF Control, LeaveAll
<1>6. Lockstep'
  BY <1>1, LeaveKeepsStep
<1>7. Exchanged'
  <2>1. CASE CompleteAllGather
    <3>1. \A r, s \in Rank : at[r].stage = "gather" => inbox'[r][s].splits = Announced(s, at[r])
      <4> SUFFICES ASSUME NEW r \in Rank, NEW s \in Rank, at[r].stage = "gather"
                   PROVE  inbox'[r][s].splits = Announced(s, at[r])
        OBVIOUS
      <4>1. at[s] = at[r]
        BY <1>1 DEF Lockstep
      <4>2. call[s].value.splits = Announced(s, at[s])
        BY <1>1, <4>1 DEF Exchanged
      <4>3. inbox'[r][s] = call[s].value
        BY <2>1 DEF CompleteAllGather
      <4> QED
        BY <4>1, <4>2, <4>3
    <3> QED
      BY <1>1, <1>2, <1>3, <3>1 DEF Exchanged
  <2>2. CASE CompleteBarrier \/ CompleteAllToAll
    <3>1. \A r \in Rank : at[r].stage # "gather"
      BY <1>1, <2>2 DEF Exchanged, CompleteBarrier, CompleteAllToAll, AllIn
    <3> QED
      BY <1>1, <1>2, <3>1 DEF Exchanged
  <2> QED
    BY <2>1, <2>2 DEF Complete
<1>8. Recorded' /\ Raised'
  BY <1>1, <1>4 DEF Recorded, Raised, results
<1> QED
  BY <1>5, <1>6, <1>7, <1>8

(* One step of the ranks, of the network or of the launcher. *)
LEMMA StepKeeps == Inductive /\ [Next]_vars => Inductive'
<1> SUFFICES ASSUME Inductive, [Next]_vars
             PROVE  Inductive'
  OBVIOUS
<1>1. ASSUME NEW r \in Rank, RaiseMissingDose(r)
      PROVE  Inductive'
  <2>1. /\ UNCHANGED <<inputs, at, call, inbox, results>>
        /\ missing' = missing \union {r}
        /\ at[r].stage = "select" /\ ~HasPlan(ArmOf(at[r].run))
    BY <1>1 DEF RaiseMissingDose, Computes, buffers
  <2> QED
    BY <2>1, DeathKeeps
<1>2. ASSUME NEW r \in Rank, Step(r)
      PROVE  Inductive'
  BY <1>1, <1>2, SelectKeeps, BeginExchangeKeeps, ContinueExchangeKeeps, EndExchangeKeeps,
     BeginBatchesKeeps, ExpertsKeep, NextLayerKeeps, NextBatchKeeps, RecordRunKeeps,
     WriteRowsKeeps, FinishKeeps
  DEF Step
<1>3. ASSUME NEW r \in Rank, Fail(r)
      PROVE  Inductive'
  BY <1>3, DeathKeeps DEF Fail, buffers
<1>4. CASE Complete
  BY <1>4, CompleteKeeps
<1>5. CASE Terminate
  BY <1>5, DeathKeeps DEF Terminate, buffers
<1>6. CASE UNCHANGED vars
  <2>1. UNCHANGED <<inputs, at, call, inbox, results, missing>>
    BY <1>6 DEF vars, buffers, deaths
  <2> QED
    BY <2>1, DeathKeeps
<1> QED
  BY <1>2, <1>3, <1>4, <1>5, <1>6 DEF Next

(* The ranks stay in step in every reachable state. *)
THEOREM InductiveInvariant == Spec => []Inductive
BY InitEstablishes, StepKeeps, PTL DEF Spec

-----------------------------------------------------------------------------
(* PASS and the metadata stand for complete and valid rows of every rank   *)
(* (benchmark_contract_ep4.py:891-948), for any number of ranks and        *)
(* whoever fails.                                                          *)
THEOREM PassIsComplete == Spec => []PassedMeansComplete
<1>1. Inductive => PassedMeansComplete
  BY DEF Inductive, Recorded, RunsDone, Row, PassedMeansComplete, Run
<1> QED
  BY <1>1, InductiveInvariant, PTL

(* A missing dose plan stops every rank before the same run                *)
(* (benchmark_contract_ep4.py:449): no other rank can be in the run, for   *)
(* then it would have found the plan.                                      *)
THEOREM AllRaiseTogether == Spec => []RaisesTogether
<1>1. Inductive => RaisesTogether
  <2> SUFFICES ASSUME Inductive, NEW r \in missing, NEW s \in Rank
               PROVE  /\ at[s].run <= at[r].run
                      /\ at[s].run = at[r].run => at[s].stage = "select"
    BY DEF RaisesTogether
  <2>1. /\ r \in Rank /\ ~Waiting(r) /\ at[r].stage = "select" /\ ~HasPlan(ArmOf(at[r].run))
        /\ at[r].run \in 1 .. NumRuns /\ at[s].run \in 1 .. NumRuns
    BY PlaceParts DEF Inductive, Raised, Control, Run
  <2>2. CASE Waiting(s)
    <3>1. at[s] = Following(Came(at[r]))
      BY <2>1, <2>2 DEF Inductive, Lockstep
    <3>2. at[s].stage = "enter" /\ at[s].run = at[r].run
      <4>1. CASE at[r].run = 1
        BY <2>1, <3>1, <4>1 DEF Came, Following, Place
      <4>2. CASE at[r].run # 1
        BY <2>1, <3>1, <4>2, Sizes DEF Came, LastCombine, Following, Place
      <4> QED
        BY <4>1, <4>2
    <3>3. HasPlan(ArmOf(at[s].run))
      BY <3>2 DEF Inductive, Control
    <3> QED
      BY <2>1, <3>2, <3>3
  <2>3. CASE ~Waiting(s)
    <3>1. Came(at[s]) = Came(at[r])
      BY <2>1, <2>3 DEF Inductive, Lockstep
    <3>2. CASE at[r].run = 1
      <4>1. Came(at[s]).stage = "select"
        BY <2>1, <3>1, <3>2 DEF Came
      <4>2. at[s] = at[r]
        BY <2>1, <3>1, <3>2, <4>1 DEF Came, LastCombine, Place
      <4> QED
        BY <2>1, <4>2
    <3>3. CASE at[r].run # 1
      <4>1. Came(at[s]) = LastCombine(at[r].run - 1)
        BY <2>1, <3>1, <3>3 DEF Came
      <4>2. CASE at[s].stage = "select"
        <5>1. at[s].run # 1 /\ at[s].run - 1 = at[r].run - 1
          BY <4>1, <4>2 DEF Came, LastCombine, Place
        <5> QED
          BY <2>1, <4>2, <5>1, Sizes
      <4>3. CASE at[s].stage # "select"
        <5>1. at[s].run = at[r].run - 1
          BY <4>1, <4>3 DEF Came, LastCombine, Place
        <5> QED
          BY <2>1, <5>1, Sizes
      <4> QED
        BY <4>2, <4>3
    <3> QED
      BY <3>2, <3>3
  <2> QED
    BY <2>2, <2>3
<1> QED
  BY <1>1, InductiveInvariant, PTL

(* No rank exchanges counts while another times its data plane             *)
(* ("dynamic_count_exchange_in_cuda_interval": False): a timing rank is    *)
(* past a collective that comes after the exchange of the run, and the     *)
(* next exchange lies behind a barrier that waits for it.                  *)
THEOREM IntervalsStayClean == Spec => []IntervalsClean
<1>1. Inductive => IntervalsClean
  <2> SUFFICES ASSUME Inductive, NEW r \in Rank, NEW s \in Rank, Timed(r)
               PROVE  ~Exchanging(s) /\ at[s].run \in at[r].run .. at[r].run + 1
    BY DEF IntervalsClean
  <2> DEFINE cameS == Came(at[s])
  <2>1. /\ at[r].run \in 1 .. NumRuns /\ at[s].run \in 1 .. NumRuns
        /\ at[r].run \in Int /\ at[s].run \in Int
        /\ at[r].stage \in {"ready", "hidden", "ids", "combine"}
    BY PlaceParts, Sizes DEF Inductive, Run, Timed
  <2>2. CASE ~Waiting(r) /\ ~Waiting(s)
    <3>1. cameS = at[r]
      BY <2>1, <2>2 DEF Inductive, Lockstep, Came
    <3>2. CASE at[s].stage = "select"
      <4>1. at[s].run - 1 = at[r].run
        BY <2>1, <3>1, <3>2 DEF Came, LastCombine, Place
      <4> QED
        BY <2>1, <3>2, <4>1 DEF Exchanging
    <3>3. CASE at[s].stage = "write"
      <4>1. at[s].run = at[r].run
        BY <3>1, <3>3 DEF Came, LastCombine, Place
      <4> QED
        BY <2>1, <3>3, <4>1 DEF Exchanging
    <3>4. CASE at[s].stage \notin {"select", "write"}
      <4>1. at[s].stage # "done"
        BY <2>1, <3>1 DEF Came, Place
      <4>2. at[s] = at[r]
        BY <3>1, <3>4, <4>1 DEF Came
      <4> QED
        BY <2>1, <4>2 DEF Exchanging
    <3> QED
      BY <3>2, <3>3, <3>4
  <2>3. CASE ~Waiting(r) /\ Waiting(s)
    <3>1. at[s] = Following(at[r])
      BY <2>1, <2>3 DEF Inductive, Lockstep, Came
    <3>2. /\ at[s].stage \in {"hidden", "ids", "combine", "enter", "written"}
          /\ at[s].run = at[r].run \/ at[s].run = at[r].run + 1
      <4>1. CASE at[r].stage # "combine"
        BY <2>1, <3>1, <4>1 DEF Following, Place
      <4>2. CASE at[r].stage = "combine"
        BY <3>1, <4>2 DEF Following, Place
      <4> QED
        BY <4>1, <4>2
    <3> QED
      BY <2>1, <2>3, <3>2 DEF Exchanging
  <2>4. CASE Waiting(r) /\ Waiting(s)
    <3>1. at[s] = at[r]
      BY <2>4 DEF Inductive, Lockstep
    <3> QED
      BY <2>1, <3>1 DEF Exchanging
  <2>5. CASE Waiting(r) /\ ~Waiting(s)
    <3>1. at[r] = Following(cameS) /\ at[r].stage \in {"hidden", "ids", "combine"}
      BY <2>5 DEF Inductive, Lockstep, Timed
    <3>2. /\ cameS.stage \in {"ready", "hidden", "ids", "combine"}
          /\ at[r].run = cameS.run
          /\ cameS.stage = "combine" => cameS.layer # NumLayers \/ cameS.batch # BatchCount
      BY <3>1 DEF Following, Place
    <3>3. at[s].stage \notin {"select", "write", "done"}
      BY <3>2 DEF Came, LastCombine, Place
    <3>4. at[s] = cameS
      BY <3>3 DEF Came
    <3> QED
      BY <2>1, <3>2, <3>4 DEF Exchanging
  <2> QED
    BY <2>2, <2>3, <2>4, <2>5
<1> QED
  BY <1>1, InductiveInvariant, PTL

-----------------------------------------------------------------------------
(* The collectives fit together.                                           *)

(* What a rank is to receive. *)
Expected(r, p) == Planned(r, p.run, p.batch, p.layer).recv

(* On the way back the two vectors change their places. *)
Sent(r, p) == IF p.stage = "combine" THEN Expected(r, p) ELSE Announced(r, p)
Awaited(r, p) == IF p.stage = "combine" THEN Announced(r, p) ELSE Expected(r, p)

(* The call that rank r makes at p. *)
PostedAt(r, p, request) ==
  /\ p.stage \in {"enter", "ready", "written"} => request.op = "barrier"
  /\ p.stage = "gather" => request.op = "all_gather"
  /\ p.stage \in {"hidden", "ids", "combine"} =>
       /\ request.op = "all_to_all"
       /\ request.expect = Awaited(r, p)
       /\ \A d \in Source : Len(request.blocks[d]) = Sent(r, p)[d]

(* Every pending call is the one of its place. *)
Posted == \A r \in Rank : Waiting(r) => PostedAt(r, at[r], call[r])

(* What a rank announces and expects are counts of assignments, and what   *)
(* one sends is what the other awaits.                                     *)
LEMMA PlansFit ==
  ASSUME NEW r \in Rank, NEW p
  PROVE  /\ Announced(r, p) \in [Source -> Nat] /\ Expected(r, p) \in [Source -> Nat]
         /\ \A s \in Rank : Sent(s, p)[r] = Awaited(r, p)[s]
<1>1. Announced(r, p) \in [Source -> Nat]
  BY SplitsCount DEF Announced, Planned, ReplayMetadata
<1>2. Expected(r, p) \in [Source -> Nat]
  <2>1. Expected(r, p) =
          [s \in Source |->
             SplitVector(FlatIds(routes, s, GlobalBatches(r, p.run)[s][p.batch], p.layer))[r]]
    BY DEF Expected, Planned, ReplayMetadata
  <2>2. \A s \in Source :
          SplitVector(FlatIds(routes, s, GlobalBatches(r, p.run)[s][p.batch], p.layer))[r] \in Nat
    BY SplitsCount DEF Rank
  <2> QED  BY <2>1, <2>2
<1>3. \A s \in Rank : /\ Expected(r, p)[s] = Announced(s, p)[r]
                      /\ Expected(s, p)[r] = Announced(r, p)[s]
  BY PlansAgree DEF Expected, Announced
<1> QED  BY <1>1, <1>2, <1>3 DEF Sent, Awaited

(* What a call has to be depends on the inputs only. *)
LEMMA SamePosts ==
  ASSUME UNCHANGED inputs, NEW r, NEW p, NEW request
  PROVE  PostedAt(r, p, request)' = PostedAt(r, p, request)
BY DEF inputs, PostedAt, Sent, Awaited, Expected, Announced, Planned, GlobalBatches, Batches,
       Recomputed

(* A rank that makes the call of its new place. *)
LEMMA PostKeeps ==
  ASSUME Inductive, Posted, NEW r \in Rank, NEW place, NEW request,
         Enter(r, place, request), PostedAt(r, place, request), UNCHANGED inputs
  PROVE  Posted'
<1>1. /\ at'[r] = place /\ call'[r] = request
      /\ \A s \in Rank \ {r} : at'[s] = at[s] /\ call'[s] = call[s]
  BY DEF Enter, Inductive, Control
<1>2. \A s, p, c : PostedAt(s, p, c)' = PostedAt(s, p, c)
  BY SamePosts
<1>3. ASSUME NEW s \in Rank, Waiting(s)'
      PROVE  PostedAt(s, at'[s], call'[s])
  BY <1>1, <1>3 DEF Posted, Waiting
<1>4. \A s \in Rank : Waiting(s)' => PostedAt(s, at[s], call[s])'
  BY <1>2, <1>3
<1> QED  BY <1>4 DEF Posted

(* A dispatch or a combine cuts its buffer by the vector of its place.     *)
LEMMA BlocksPosted ==
  ASSUME NEW r \in Rank, NEW p, p.stage \in {"hidden", "ids", "combine"}, NEW buffer
  PROVE  PostedAt(r, p, AllToAll(Blocks(buffer, Sent(r, p)), Awaited(r, p)))
<1>1. Sent(r, p) \in [Source -> Nat]
  BY PlansFit DEF Sent
<1>2. \A d \in Source : Len(Blocks(buffer, Sent(r, p))[d]) = Sent(r, p)[d]
  BY <1>1, BlockLength
<1> QED  BY <1>2 DEF PostedAt, AllToAll

(* A dispatch of hidden states. *)
LEMMA DispatchPosts ==
  ASSUME Inductive, Posted, NEW r \in Rank, NEW b, NEW l, NEW values,
         DispatchAt(r, b, l, values), UNCHANGED inputs
  PROVE  Posted'
<1> DEFINE place == Place(at[r].run, "hidden", b, l)
<1>1. PICK buffer : Enter(r, place, AllToAll(Blocks(buffer, Planned(r, at[r].run, b, l).send),
                                             Planned(r, at[r].run, b, l).recv))
  BY DEF DispatchAt
<1>2. /\ place.stage = "hidden" /\ Sent(r, place) = Planned(r, at[r].run, b, l).send
      /\ Awaited(r, place) = Planned(r, at[r].run, b, l).recv
  BY DEF Sent, Awaited, Announced, Expected, Place
<1> HIDE DEF place
<1>3. PostedAt(r, place, AllToAll(Blocks(buffer, Sent(r, place)), Awaited(r, place)))
  BY <1>2, BlocksPosted
<1> QED  BY <1>1, <1>2, <1>3, PostKeeps

(* The expert ids follow the hidden states, the outputs go back. *)
LEMMA ExpertsPost ==
  ASSUME Inductive, Posted, NEW r \in Rank, DispatchIds(r) \/ RunExperts(r)
  PROVE  Posted'
<1> DEFINE stage == IF DispatchIds(r) THEN "ids" ELSE "combine"
<1>1. UNCHANGED inputs
  BY DEF DispatchIds, RunExperts
<1>2. at[r] = Place(at[r].run, at[r].stage, at[r].batch, at[r].layer)
  BY PlaceParts DEF Inductive
<1>3. ASSUME NEW x, NEW p, p = [at[r] EXCEPT !.stage = x]
      PROVE  /\ p.stage = x
             /\ Announced(r, p) = Planned(r, at[r].run, at[r].batch, at[r].layer).send
             /\ Expected(r, p) = Planned(r, at[r].run, at[r].batch, at[r].layer).recv
  <2>1. p.stage = x /\ p.run = at[r].run /\ p.batch = at[r].batch /\ p.layer = at[r].layer
    BY <1>2, <1>3 DEF Place
  <2> QED  BY <2>1 DEF Announced, Expected
<1>4. CASE DispatchIds(r)
  <2> DEFINE place == [at[r] EXCEPT !.stage = "ids"]
  <2>1. PICK buffer :
          Enter(r, place, AllToAll(Blocks(buffer, Planned(r, at[r].run, at[r].batch, at[r].layer).send),
                                   Planned(r, at[r].run, at[r].batch, at[r].layer).recv))
    BY <1>4 DEF DispatchIds
  <2>2. /\ place.stage = "ids"
        /\ Sent(r, place) = Planned(r, at[r].run, at[r].batch, at[r].layer).send
        /\ Awaited(r, place) = Planned(r, at[r].run, at[r].batch, at[r].layer).recv
    BY <1>3 DEF Sent, Awaited
  <2> HIDE DEF place
  <2>3. PostedAt(r, place, AllToAll(Blocks(buffer, Sent(r, place)), Awaited(r, place)))
    BY <2>2, BlocksPosted
  <2> QED  BY <1>1, <2>1, <2>2, <2>3, PostKeeps
<1>5. CASE RunExperts(r)
  <2> DEFINE place == [at[r] EXCEPT !.stage = "combine"]
  <2>1. PICK buffer :
          Enter(r, place, AllToAll(Blocks(buffer, Planned(r, at[r].run, at[r].batch, at[r].layer).recv),
                                   Planned(r, at[r].run, at[r].batch, at[r].layer).send))
    BY <1>5 DEF RunExperts
  <2>2. /\ place.stage = "combine"
        /\ Sent(r, place) = Planned(r, at[r].run, at[r].batch, at[r].layer).recv
        /\ Awaited(r, place) = Planned(r, at[r].run, at[r].batch, at[r].layer).send
    BY <1>3 DEF Sent, Awaited
  <2> HIDE DEF place
  <2>3. PostedAt(r, place, AllToAll(Blocks(buffer, Sent(r, place)), Awaited(r, place)))
    BY <2>2, BlocksPosted
  <2> QED  BY <1>1, <2>1, <2>2, <2>3, PostKeeps
<1> QED  BY <1>4, <1>5

(* The barriers and the exchange of the counts carry no blocks. *)
LEMMA ControlPosts ==
  ASSUME Inductive, Posted, NEW r \in Rank,
         \/ SelectBatches(r) \/ BeginExchange(r) \/ ContinueExchange(r) \/ EndExchange(r)
         \/ WriteRows(r)
  PROVE  Posted'
<1>1. UNCHANGED inputs
  BY DEF SelectBatches, BeginExchange, ContinueExchange, EndExchange, WriteRows
<1>2. ASSUME NEW b, NEW l, GatherAt(r, b, l)
      PROVE  Posted'
  <2> DEFINE place == Place(at[r].run, "gather", b, l)
             request == AllGather([splits |-> Planned(r, at[r].run, b, l).send])
  <2>1. Enter(r, place, request)
    BY <1>2 DEF GatherAt
  <2>2. PostedAt(r, place, request)
    BY DEF PostedAt, Place, AllGather
  <2> HIDE DEF place, request
  <2> QED  BY <1>1, <2>1, <2>2, PostKeeps
<1>3. ASSUME NEW place, Enter(r, place, Barrier), place.stage \in {"enter", "ready", "written"}
      PROVE  Posted'
  <2>1. PostedAt(r, place, Barrier)
    BY <1>3 DEF PostedAt, Barrier
  <2> QED  BY <1>1, <1>3, <2>1, PostKeeps
<1>4. CASE SelectBatches(r) \/ EndExchange(r)
  <2>1. PICK stage \in {"enter", "ready"} : Enter(r, Place(at[r].run, stage, 1, 1), Barrier)
    BY <1>4 DEF SelectBatches, EndExchange
  <2>2. Place(at[r].run, stage, 1, 1).stage \in {"enter", "ready", "written"}
    BY <2>1 DEF Place
  <2> QED  BY <1>3, <2>1, <2>2
<1>5. CASE BeginExchange(r) \/ ContinueExchange(r)
  BY <1>2, <1>5 DEF BeginExchange, ContinueExchange
<1>6. CASE WriteRows(r)
  <2>1. Enter(r, [at[r] EXCEPT !.stage = "written"], Barrier)
    BY <1>6 DEF WriteRows
  <2>2. at[r] = Place(at[r].run, at[r].stage, at[r].batch, at[r].layer)
    BY PlaceParts DEF Inductive
  <2>3. [at[r] EXCEPT !.stage = "written"].stage = "written"
    BY <2>2 DEF Place
  <2> QED  BY <1>3, <2>1, <2>3
<1> QED  BY <1>4, <1>5, <1>6

(* A step that makes no call. *)
LEMMA NoPostKeeps ==
  ASSUME Posted, UNCHANGED <<inputs, call>>,
         \A r \in Rank : Waiting(r) => at'[r] = at[r]
  PROVE  Posted'
<1>1. \A s, p, c : PostedAt(s, p, c)' = PostedAt(s, p, c)
  BY SamePosts
<1>2. \A s \in Rank : Waiting(s)' => PostedAt(s, at'[s], call'[s])
  BY DEF Posted, Waiting
<1>3. \A s \in Rank : Waiting(s)' => PostedAt(s, at[s], call[s])'
  BY <1>1, <1>2
<1> QED  BY <1>3 DEF Posted

(* Every step keeps the calls where they belong. *)
LEMMA StepPosts == Inductive /\ Posted /\ [Next]_vars => Posted'
<1> SUFFICES ASSUME Inductive, Posted, [Next]_vars
             PROVE  Posted'
  OBVIOUS
<1>1. ASSUME NEW r \in Rank, BeginBatches(r) \/ NextLayer(r) \/ NextBatch(r)
      PROVE  Posted'
  <2>1. UNCHANGED inputs /\ \E b, l, values : DispatchAt(r, b, l, values)
    BY <1>1 DEF BeginBatches, NextLayer, NextBatch
  <2> QED  BY <2>1, DispatchPosts
<1>2. ASSUME NEW r \in Rank, RecordRun(r) \/ Finish(r)
      PROVE  Posted'
  <2>1. UNCHANGED <<inputs, call>> /\ ~Waiting(r)
    BY <1>2 DEF RecordRun, Finish, Computes
  <2>2. \A s \in Rank \ {r} : at'[s] = at[s]
    BY <1>2 DEF RecordRun, Finish, Inductive, Control
  <2> QED  BY <2>1, <2>2, NoPostKeeps
<1>3. ASSUME NEW r \in Rank, RaiseMissingDose(r) \/ Fail(r)
      PROVE  Posted'
  <2>1. UNCHANGED <<inputs, call, at>>
    BY <1>3 DEF RaiseMissingDose, Fail
  <2> QED  BY <2>1, NoPostKeeps
<1>4. ASSUME NEW r \in Rank, Step(r)
      PROVE  Posted'
  BY <1>1, <1>2, <1>3, <1>4, ControlPosts, ExpertsPost DEF Step
<1>5. CASE Complete
  <2>1. LeaveAll
    BY <1>5 DEF Complete, CompleteBarrier, CompleteAllGather, CompleteAllToAll
  <2>2. \A r \in Rank : ~Waiting(r)'
    BY <2>1 DEF LeaveAll, Waiting, NoCall
  <2> QED  BY <2>2 DEF Posted
<1>6. CASE Terminate \/ UNCHANGED vars
  <2>1. UNCHANGED <<inputs, call, at>>
    BY <1>6 DEF Terminate, vars
  <2> QED  BY <2>1, NoPostKeeps
<1> QED  BY <1>3, <1>4, <1>5, <1>6 DEF Next

(* Ranks that plan on their own never disagree about a collective          *)
(* (benchmark_contract_ep4.py:474-500): they call the same one, for they   *)
(* are in step, and every block is as long as its receiver expects, for    *)
(* both lengths are counted from the same routes and batches.              *)
THEOREM CollectivesFit == Spec => []CallsMatch
<1>1. Init => Posted
  BY DEF Init, Posted, Waiting, NoCall
<1>2. Spec => []Posted
  BY <1>1, StepPosts, InductiveInvariant, PTL DEF Spec
<1>3. Inductive /\ Posted => CallsMatch
  <2> SUFFICES ASSUME Inductive, Posted, \A r \in Rank : Waiting(r)
               PROVE  /\ \A r, s \in Rank : call[r].op = call[s].op
                      /\ AllIn("all_to_all") => SplitsMatch
    BY DEF CallsMatch
  <2>1. \A r, s \in Rank : at[r] = at[s]
    BY DEF Inductive, Lockstep
  <2>2. \A r \in Rank : at[r].stage \in Stages \ {"select", "write", "done"}
    BY PlaceParts DEF Inductive, Control
  <2>3. \A r \in Rank : PostedAt(r, at[r], call[r])
    BY DEF Posted
  <2>4. \A r \in Rank :
          /\ at[r].stage \in {"enter", "ready", "written"} => call[r].op = "barrier"
          /\ at[r].stage = "gather" => call[r].op = "all_gather"
          /\ at[r].stage \in {"hidden", "ids", "combine"} => call[r].op = "all_to_all"
    BY <2>3 DEF PostedAt
  <2>5. \A r, s \in Rank : call[r].op = call[s].op
    BY <2>1, <2>2, <2>4 DEF Stages
  <2>6. ASSUME AllIn("all_to_all"), NEW s \in Rank, NEW d \in Rank
        PROVE  Len(call[s].blocks[d]) = call[d].expect[s]
    <3>1. \A r \in Rank : at[r].stage \in {"hidden", "ids", "combine"}
      BY <2>2, <2>4, <2>6 DEF AllIn, Stages
    <3>2. Len(call[s].blocks[d]) = Sent(s, at[s])[d] /\ call[d].expect = Awaited(d, at[d])
      BY <2>3, <3>1 DEF PostedAt, Rank
    <3>3. Sent(s, at[d])[d] = Awaited(d, at[d])[s] /\ at[s] = at[d]
      BY <2>1, PlansFit
    <3> QED  BY <3>2, <3>3
  <2> QED  BY <2>5, <2>6 DEF SplitsMatch
<1> QED  BY <1>2, <1>3, InductiveInvariant, PTL

-----------------------------------------------------------------------------
(* The way of a token.                                                     *)

(* The inputs of a run have their types. *)
InputsTyped == routes \in Routes /\ schedule \in Schedules

(* Every slot of every batch holds a request of the rank.                  *)
LEMMA RequestsTyped ==
  ASSUME InputsTyped, NEW r \in Rank, NEW n \in Run, NEW b \in Batch, NEW i \in Slot
  PROVE  Batches(r, n)[b][i] \in Request
<1>1. schedule[n][r] \in Arrangement
  BY DEF InputsTyped, Schedules, Rank
<1> QED  BY <1>1 DEF Arrangement, Batches

(* The experts and the tokens of a batch of all ranks, when the ranks are at p. *)
IdsAt(p) == [s \in Source |-> Ids(s, p.run, p.batch, p.layer)]
TokensAt(s, p) == [i \in Slot |-> Journey(s, Batches(s, p.run)[p.batch][i], p.layer - 1)]

(* They are experts of the routes, each at home with a rank.               *)
LEMMA IdsAtAre ==
  ASSUME InputsTyped, NEW p \in Places
  PROVE  /\ AllHomed(IdsAt(p), BatchSize * TopK)
         /\ \A s \in Source : \A i \in Slot : \A k \in 1 .. TopK :
              IdsAt(p)[s][Nth(i, k)] = routes[s, Batches(s, p.run)[p.batch][i], p.layer][k]
<1> DEFINE request(s, i) == Batches(s, p.run)[p.batch][i]
<1>1. p.run \in Run /\ p.batch \in Batch /\ p.layer \in Layer
  BY DEF Places
<1>2. \A s \in Source : \A i \in Slot : request(s, i) \in Request
  BY <1>1, RequestsTyped DEF Rank
<1>3. \A s \in Source : IdsAt(p)[s] =
        [a \in Assignments |-> routes[s, request(s, SlotOf(a)), p.layer][Turn(a)]]
  BY DEF IdsAt, Ids, FlatIds, Turn
<1>4. ASSUME NEW s \in Source, NEW i \in Slot, NEW k \in 1 .. TopK
      PROVE  routes[s, request(s, i), p.layer][k] \in Expert
  <2>1. <<s, request(s, i), p.layer>> \in Source \X Request \X Layer
    BY <1>1, <1>2
  <2>2. routes \in [Source \X Request \X Layer -> [1 .. TopK -> Expert]]
    BY DEF InputsTyped, Routes
  <2> HIDE DEF request
  <2>3. routes[s, request(s, i), p.layer] \in [1 .. TopK -> Expert]
    BY <2>1, <2>2
  <2> QED  BY <2>3
<1> HIDE DEF request
<1>5. AllHomed(IdsAt(p), BatchSize * TopK)
  <2>1. ASSUME NEW s \in Source
        PROVE  DOMAIN IdsAt(p)[s] = Assignments /\ \A a \in Assignments : IdsAt(p)[s][a] \in Expert
    <3>1. IdsAt(p)[s] = [a \in Assignments |-> routes[s, request(s, SlotOf(a)), p.layer][Turn(a)]]
      BY <1>3
    <3>2. \A a \in Assignments : routes[s, request(s, SlotOf(a)), p.layer][Turn(a)] \in Expert
      BY <1>4, AssignmentSlots
    <3> QED  BY <3>1, <3>2
  <2>2. Assignments = 1 .. BatchSize * TopK
    BY DEF Assignments
  <2> QED  BY <2>1, <2>2, Zenon DEF AllHomed
<1>6. ASSUME NEW s \in Source, NEW i \in Slot, NEW k \in 1 .. TopK
      PROVE  IdsAt(p)[s][Nth(i, k)] = routes[s, request(s, i), p.layer][k]
  <2> DEFINE a == Nth(i, k)
  <2>1. a \in Assignments /\ SlotOf(a) = i /\ Turn(a) = k
    BY AssignmentSlots
  <2> HIDE DEF a
  <2>2. IdsAt(p)[s][a] = routes[s, request(s, i), p.layer][k]
    BY <1>3, <2>1
  <2> QED  BY <2>2 DEF a
<1> QED  BY <1>5, <1>6 DEF request

(* A token after one layer more. *)
Meaned(s, q, l, token) == [mean |-> [k \in 1 .. TopK |-> Through(token, routes[s, q, l][k])]]

(* The recursion of a journey has a solution.                              *)
LEMMA JourneyExists ==
  ASSUME NEW s, NEW q
  PROVE  \E after : after = [l \in 0 .. NumLayers |-> IF l = 0 THEN [rank |-> s, request |-> q]
                                                      ELSE Meaned(s, q, l, after[l - 1])]
<1> DEFINE Origin == [rank |-> s, request |-> q]
           IsTrip(g, m) == g = [l \in 0 .. m |-> IF l = 0 THEN Origin ELSE Meaned(s, q, l, g[l - 1])]
           Have == {m \in Nat : \E g : IsTrip(g, m)}
<1> HIDE DEF Origin
<1>1. 0 \in Have
  <2>1. IsTrip([l \in 0 .. 0 |-> Origin], 0)
    OBVIOUS
  <2> HIDE DEF IsTrip
  <2> QED  BY <2>1
<1>2. ASSUME NEW m \in Have
      PROVE  m + 1 \in Have
  <2>1. PICK g : IsTrip(g, m)
    OBVIOUS
  <2>2. m \in Nat /\ m + 1 \in Nat
    OBVIOUS
  <2> DEFINE last == Meaned(s, q, m + 1, g[m])
             h == [l \in 0 .. m + 1 |-> IF l = m + 1 THEN last ELSE g[l]]
  <2>3. \A l \in 0 .. m : g[l] = IF l = 0 THEN Origin ELSE Meaned(s, q, l, g[l - 1])
    BY <2>1
  <2>4. ASSUME NEW l \in 0 .. m + 1
        PROVE  h[l] = IF l = 0 THEN Origin ELSE Meaned(s, q, l, h[l - 1])
    <3>1. CASE l = m + 1
      <4>1. l # 0 /\ l - 1 \in 0 .. m + 1 /\ l - 1 # m + 1 /\ l - 1 = m
        BY <2>2, <3>1
      <4>2. h[l] = last
        BY <3>1
      <4> HIDE DEF last
      <4>3. h[l - 1] = g[m]
        BY <4>1
      <4> HIDE DEF h
      <4> QED  BY <3>1, <4>1, <4>2, <4>3 DEF last
    <3>2. CASE l # m + 1
      <4>1. l \in 0 .. m /\ (l # 0 => l - 1 \in 0 .. m + 1 /\ l - 1 # m + 1)
        BY <2>2, <3>2
      <4> HIDE DEF last
      <4>2. h[l] = g[l] /\ (l # 0 => h[l - 1] = g[l - 1])
        BY <3>2, <4>1
      <4> HIDE DEF h
      <4> QED  BY <2>3, <4>1, <4>2
    <3> QED  BY <3>1, <3>2
  <2>5. h = [l \in 0 .. m + 1 |-> h[l]]
    OBVIOUS
  <2> HIDE DEF h
  <2>6. IsTrip(h, m + 1)
    BY <2>4, <2>5
  <2> HIDE DEF IsTrip
  <2> QED  BY <2>2, <2>6
<1>3. Have \in SUBSET Nat
  OBVIOUS
<1> HIDE DEF Have
<1>4. NumLayers \in Have
  BY <1>1, <1>2, <1>3, SetInduction, Sizes
<1> QED  BY <1>4 DEF Have, Origin

(* A journey layer by layer. *)
LEMMA JourneyIs ==
  ASSUME NEW s, NEW q
  PROVE  /\ Journey(s, q, 0) = [rank |-> s, request |-> q]
         /\ \A l \in Layer : Journey(s, q, l) = Meaned(s, q, l, Journey(s, q, l - 1))
<1> DEFINE Origin == [rank |-> s, request |-> q]
           Trip(g) == [l \in 0 .. NumLayers |-> IF l = 0 THEN Origin
                         ELSE [mean |-> [k \in 1 .. TopK |-> Through(g[l - 1], routes[s, q, l][k])]]]
           after == CHOOSE g : g = Trip(g)
<1> HIDE DEF Origin
<1>1. \E g : g = Trip(g)
  <2>1. PICK g : g = [l \in 0 .. NumLayers |-> IF l = 0 THEN Origin ELSE Meaned(s, q, l, g[l - 1])]
    BY JourneyExists DEF Origin
  <2>2. \A l \in 0 .. NumLayers : Meaned(s, q, l, g[l - 1]) =
          [mean |-> [k \in 1 .. TopK |-> Through(g[l - 1], routes[s, q, l][k])]]
    BY DEF Meaned
  <2>3. g = Trip(g)
    BY <2>1, <2>2
  <2> QED  BY <2>3
<1>2. after = Trip(after)
  <2> HIDE DEF Trip
  <2> QED  BY <1>1
<1>3. \A l : Journey(s, q, l) = after[l]
  BY DEF Journey, Origin
<1> HIDE DEF after
<1>4. \A l \in 0 .. NumLayers : after[l] = IF l = 0 THEN Origin ELSE Meaned(s, q, l, after[l - 1])
  BY <1>2 DEF Meaned
<1>5. 0 \in 0 .. NumLayers /\ \A l \in Layer : l \in 0 .. NumLayers /\ l # 0
  BY Sizes DEF Layer
<1> QED  BY <1>3, <1>4, <1>5 DEF Origin

-----------------------------------------------------------------------------
(* What the ranks pass on when they are at p: one value for every          *)
(* assignment of every rank.                                               *)
AllAssignments == BatchSize * TopK
ValuesAt(p) == [s \in Source |-> [a \in Assignments |-> TokensAt(s, p)[SlotOf(a)]]]
LocalsAt(p) == Locals(IdsAt(p), AllAssignments)
AnswersAt(p) == Answers(ValuesAt(p), IdsAt(p), AllAssignments)

(* The answers to the tokens of a batch make the tokens after the layer.   *)
LEMMA AnswersMakeTokens ==
  ASSUME InputsTyped, NEW p \in Places, NEW r \in Rank, NEW received,
         received = FlattenSeq(Parcels(AnswersAt(p)[r], IdsAt(p)[r]))
  PROVE  [i \in Slot |-> MeanOver(Restored(received, IdsAt(p)[r]), i)]
           = [i \in Slot |-> Journey(r, Batches(r, p.run)[p.batch][i], p.layer)]
<1> DEFINE ids == IdsAt(p)[r]
           answers == AnswersAt(p)[r]
           restored == Restored(received, ids)
           request(i) == Batches(r, p.run)[p.batch][i]
<1>1. /\ BatchSize * TopK \in Nat /\ Homed(ids, BatchSize * TopK) /\ r \in Source
      /\ \A i \in Slot : \A k \in 1 .. TopK : ids[Nth(i, k)] = routes[r, request(i), p.layer][k]
  <2>1. AllHomed(IdsAt(p), BatchSize * TopK)
    BY IdsAtAre
  <2>2. r \in Source
    BY DEF Rank
  <2>3. Homed(ids, BatchSize * TopK)
    BY <2>1, <2>2, AllHomedAre
  <2> QED  BY <2>2, <2>3, IdsAtAre, AssignmentSlots
<1>2. restored = [a \in Assignments |-> answers[a]]
  <2> HIDE DEF ids, answers
  <2>1. Restored(FlattenSeq(Parcels(answers, ids)), ids) = [a \in Assignments |-> answers[a]]
    BY <1>1, RestoredParcels
  <2>2. received = FlattenSeq(Parcels(answers, ids))
    BY DEF ids, answers
  <2> QED  BY <2>1, <2>2
<1>3. ASSUME NEW i \in Slot, NEW k \in 1 .. TopK
      PROVE  restored[Nth(i, k)] =
               Through(Journey(r, request(i), p.layer - 1), routes[r, request(i), p.layer][k])
  <2> DEFINE a == Nth(i, k)
  <2>1. a \in Assignments /\ SlotOf(a) = i /\ Assignments = 1 .. AllAssignments
    BY AssignmentSlots DEF AllAssignments
  <2>2. answers = [x \in 1 .. AllAssignments |-> Through(ValuesAt(p)[r][x], ids[x])]
    BY <1>1 DEF AnswersAt, Answers
  <2>3. ValuesAt(p)[r] = [x \in Assignments |-> TokensAt(r, p)[SlotOf(x)]]
    BY <1>1 DEF ValuesAt
  <2>4. TokensAt(r, p)[i] = Journey(r, request(i), p.layer - 1)
    BY DEF TokensAt
  <2> HIDE DEF a, answers, ids
  <2>5. restored[a] = answers[a]
    <3> HIDE DEF restored
    <3> QED  BY <1>2, <2>1
  <2>6. answers[a] = Through(TokensAt(r, p)[i], ids[a])
    BY <2>1, <2>2, <2>3
  <2>7. ids[a] = routes[r, request(i), p.layer][k]
    BY <1>1 DEF a
  <2> QED  BY <2>4, <2>5, <2>6, <2>7 DEF a
<1>4. p.layer \in Layer
  BY DEF Places
<1> HIDE DEF restored, request
<1>5. ASSUME NEW i \in Slot
      PROVE  MeanOver(restored, i) = Journey(r, request(i), p.layer)
  <2>1. Journey(r, request(i), p.layer) =
          Meaned(r, request(i), p.layer, Journey(r, request(i), p.layer - 1))
    BY <1>4, JourneyIs
  <2>2. \A k \in 1 .. TopK : restored[(i - 1) * TopK + k] =
          Through(Journey(r, request(i), p.layer - 1), routes[r, request(i), p.layer][k])
    BY <1>3 DEF Nth
  <2>3. MeanOver(restored, i) = Meaned(r, request(i), p.layer, Journey(r, request(i), p.layer - 1))
    <3> DEFINE j == Journey(r, request(i), p.layer - 1)
               q == request(i)
               l == p.layer
    <3>1. MeanOver(restored, i) = [mean |-> [k \in 1 .. TopK |-> restored[(i - 1) * TopK + k]]]
      BY DEF MeanOver
    <3>2. \A k \in 1 .. TopK : restored[(i - 1) * TopK + k] = Through(j, routes[r, q, l][k])
      BY <2>2
    <3> HIDE DEF j, q, l
    <3>3. [k \in 1 .. TopK |-> restored[(i - 1) * TopK + k]]
            = [k \in 1 .. TopK |-> Through(j, routes[r, q, l][k])]
      BY <3>2
    <3>4. Meaned(r, q, l, j) = [mean |-> [k \in 1 .. TopK |-> Through(j, routes[r, q, l][k])]]
      BY DEF Meaned
    <3>5. MeanOver(restored, i) = Meaned(r, q, l, j)
      BY <3>1, <3>3, <3>4
    <3> QED  BY <3>5 DEF j, q, l
  <2> QED  BY <2>1, <2>3
<1> QED  BY <1>5 DEF restored, request

(* The blocks that rank r sends at p, what it receives there, what it      *)
(* keeps meanwhile, and the outputs it has collected.                      *)
SentIs(r, p, blocks) ==
  /\ p.stage = "hidden" => blocks = Parcels(ValuesAt(p)[r], IdsAt(p)[r])
  /\ p.stage = "ids" => blocks = Parcels(LocalsAt(p)[r], IdsAt(p)[r])
  /\ p.stage = "combine" => blocks = Arrivals(AnswersAt(p), IdsAt(p), r)

HeardIs(r, p, received) ==
  /\ p.stage = "hidden" => received = FlattenSeq(Arrivals(ValuesAt(p), IdsAt(p), r))
  /\ p.stage = "ids" => received = FlattenSeq(Arrivals(LocalsAt(p), IdsAt(p), r))
  /\ p.stage = "combine" => received = FlattenSeq(Parcels(AnswersAt(p)[r], IdsAt(p)[r]))

InLayers(p) == p.stage \in {"hidden", "ids", "combine"}

KeptIs(r, p, arrived, states) ==
  /\ InLayers(p) => states = TokensAt(r, p)
  /\ p.stage = "ids" => arrived = FlattenSeq(Arrivals(ValuesAt(p), IdsAt(p), r))

BeforeBatches(p) == p.stage \in {"select", "enter", "gather", "ready"}
Producing(p) == IF BeforeBatches(p) THEN p.run - 1 ELSE p.run
Completed(p) ==
  IF InLayers(p) THEN p.batch - 1
  ELSE IF BeforeBatches(p) /\ p.run = 1 THEN 0
  ELSE BatchCount

Final(r, n, b) == [i \in Slot |-> Journey(r, Batches(r, n)[b][i], NumLayers)]
OutputsAt(r, p) == [b \in 1 .. Completed(p) |-> Final(r, Producing(p), b)]

CarriedBy(r, p, request, received, arrived, states, collected) ==
  /\ request.op # "none" => SentIs(r, p, request.blocks)
  /\ request.op = "none" => HeardIs(r, p, received)
  /\ KeptIs(r, p, arrived, states)
  /\ collected = OutputsAt(r, p)

(* Every token is where the program says. *)
Carried ==
  /\ InputsTyped
  /\ DOMAIN tokens = Rank /\ DOMAIN hidden = Rank /\ DOMAIN outputs = Rank
  /\ \A r \in Rank : CarriedBy(r, at[r], call[r], inbox[r], tokens[r], hidden[r], outputs[r])

(* All of this depends on the inputs only. *)
LEMMA SameTokens ==
  ASSUME UNCHANGED inputs
  PROVE  /\ InputsTyped' = InputsTyped
         /\ \A r, p, c, i, t, h, o : CarriedBy(r, p, c, i, t, h, o)' = CarriedBy(r, p, c, i, t, h, o)
<1>1. routes' = routes /\ schedule' = schedule
  BY DEF inputs
<1>2. \A r, n : Batches(r, n)' = Batches(r, n)
  BY <1>1 DEF Batches
<1>3. \A s, q, l : Journey(s, q, l)' = Journey(s, q, l)
  BY <1>1 DEF Journey
<1>4. \A p : IdsAt(p)' = IdsAt(p)
  BY <1>1, <1>2 DEF IdsAt, Ids, FlatIds
<1>5. \A s, p : TokensAt(s, p)' = TokensAt(s, p)
  BY <1>2, <1>3 DEF TokensAt
<1>6. \A p : ValuesAt(p)' = ValuesAt(p)
  BY <1>5 DEF ValuesAt
<1>7. \A p : LocalsAt(p)' = LocalsAt(p) /\ AnswersAt(p)' = AnswersAt(p)
  BY <1>4, <1>6 DEF LocalsAt, AnswersAt
<1>8. \A r, p : OutputsAt(r, p)' = OutputsAt(r, p)
  BY <1>2, <1>3 DEF OutputsAt, Final
<1>9. InputsTyped' = InputsTyped
  BY <1>1 DEF InputsTyped
<1>10. ASSUME NEW r, NEW p, NEW c, NEW i, NEW t, NEW h, NEW o
       PROVE  CarriedBy(r, p, c, i, t, h, o)' = CarriedBy(r, p, c, i, t, h, o)
  <2>1. SentIs(r, p, c.blocks)' = SentIs(r, p, c.blocks)
    BY <1>4, <1>6, <1>7 DEF SentIs
  <2>2. HeardIs(r, p, i)' = HeardIs(r, p, i)
    BY <1>4, <1>6, <1>7 DEF HeardIs
  <2>3. KeptIs(r, p, t, h)' = KeptIs(r, p, t, h)
    BY <1>4, <1>5, <1>6 DEF KeptIs
  <2> QED  BY <1>8, <2>1, <2>2, <2>3 DEF CarriedBy
<1> QED  BY <1>9, <1>10

(* What one rank does leaves the others' tokens alone. *)
LEMMA CarryKeeps ==
  ASSUME Carried, NEW r \in Rank, UNCHANGED inputs,
         DOMAIN tokens' = Rank, DOMAIN hidden' = Rank, DOMAIN outputs' = Rank,
         \A s \in Rank \ {r} :
           /\ at'[s] = at[s] /\ call'[s] = call[s] /\ inbox'[s] = inbox[s]
           /\ tokens'[s] = tokens[s] /\ hidden'[s] = hidden[s] /\ outputs'[s] = outputs[s],
         CarriedBy(r, at'[r], call'[r], inbox'[r], tokens'[r], hidden'[r], outputs'[r])
  PROVE  Carried'
<1>1. \A s \in Rank : CarriedBy(s, at'[s], call'[s], inbox'[s], tokens'[s], hidden'[s], outputs'[s])
  BY DEF Carried
<1>2. \A s \in Rank : CarriedBy(s, at[s], call[s], inbox[s], tokens[s], hidden[s], outputs[s])'
  BY <1>1, SameTokens
<1>3. InputsTyped'
  BY SameTokens DEF Carried
<1> QED  BY <1>2, <1>3 DEF Carried

(* The plan of a rank counts the experts of its own and of the others' batches. *)
LEMMA PlanCounts ==
  ASSUME NEW r \in Rank, NEW p
  PROVE  /\ Planned(r, p.run, p.batch, p.layer).send = SplitVector(IdsAt(p)[r])
         /\ Planned(r, p.run, p.batch, p.layer).recv = [s \in Source |-> SplitVector(IdsAt(p)[s])[r]]
<1>1. \A s \in Source : GlobalBatches(r, p.run)[s] = schedule[p.run][s]
  BY DEF GlobalBatches, Batches, Recomputed
<1>2. \A s \in Source : IdsAt(p)[s] = FlatIds(routes, s, schedule[p.run][s][p.batch], p.layer)
  BY DEF IdsAt, Ids, Batches
<1>3. r \in Source
  BY DEF Rank
<1> QED  BY <1>1, <1>2, <1>3 DEF Planned, ReplayMetadata

(* What a rank packs and cuts are its parcels. *)
LEMMA ParcelsSent ==
  ASSUME InputsTyped, NEW p \in Places, NEW r \in Rank, NEW values
  PROVE  Blocks(Packed(values, IdsAt(p)[r]), Planned(r, p.run, p.batch, p.layer).send)
           = Parcels(values, IdsAt(p)[r])
<1>1. r \in Source /\ AllHomed(IdsAt(p), BatchSize * TopK) /\ BatchSize * TopK \in Nat
  BY IdsAtAre, AssignmentSlots DEF Rank
<1>2. Homed(IdsAt(p)[r], BatchSize * TopK)
  BY <1>1, AllHomedAre
<1> DEFINE n == BatchSize * TopK
           ids == IdsAt(p)[r]
<1>3. n \in Nat /\ Homed(ids, n)
  BY <1>1, <1>2
<1>4. Planned(r, p.run, p.batch, p.layer).send = SplitVector(ids)
  BY PlanCounts
<1> HIDE DEF n, ids
<1>5. Blocks(Packed(values, ids), SplitVector(ids)) = Parcels(values, ids)
  BY <1>3, PackedParcels
<1> QED  BY <1>4, <1>5 DEF ids

(* A dispatch of the tokens of its place. *)
LEMMA DispatchSends ==
  ASSUME Inductive, Carried, NEW r \in Rank, NEW b \in Batch, NEW l \in Layer,
         DispatchAt(r, b, l, TokensAt(r, Place(at[r].run, "hidden", b, l)))
  PROVE  LET p == Place(at[r].run, "hidden", b, l)
         IN  /\ at'[r] = p /\ call'[r].op # "none" /\ SentIs(r, p, call'[r].blocks)
             /\ KeptIs(r, p, tokens'[r], hidden'[r])
             /\ \A s \in Rank \ {r} : at'[s] = at[s] /\ call'[s] = call[s] /\ hidden'[s] = hidden[s]
             /\ DOMAIN hidden' = Rank
<1> DEFINE p == Place(at[r].run, "hidden", b, l)
           values == TokensAt(r, p)
           expanded == [a \in Assignments |-> values[SlotOf(a)]]
           ids == Ids(r, at[r].run, b, l)
           plan == Planned(r, at[r].run, b, l)
           request == AllToAll(Blocks(Packed(expanded, ids), plan.send), plan.recv)
<1>1. hidden' = [hidden EXCEPT ![r] = values] /\ Enter(r, p, request)
  BY DEF DispatchAt
<1>2. p \in Places /\ p.run = at[r].run /\ p.batch = b /\ p.layer = l /\ p.stage = "hidden"
  BY PlaceParts DEF Inductive, Places, Place, Stages
<1>3. ids = IdsAt(p)[r] /\ expanded = ValuesAt(p)[r]
  BY <1>2 DEF IdsAt, ValuesAt, Rank
<1>4. /\ at'[r] = p /\ call'[r] = request
      /\ \A s \in Rank \ {r} : at'[s] = at[s] /\ call'[s] = call[s]
  BY <1>1 DEF Enter, Inductive, Control
<1>5. /\ hidden'[r] = values /\ DOMAIN hidden' = Rank
      /\ \A s \in Rank \ {r} : hidden'[s] = hidden[s]
  BY <1>1 DEF Carried
<1>6. plan = Planned(r, p.run, p.batch, p.layer)
  BY <1>2
<1> HIDE DEF expanded, ids, plan
<1>7. call'[r].op # "none" /\ call'[r].blocks = Parcels(ValuesAt(p)[r], IdsAt(p)[r])
  <2> HIDE DEF p
  <2>1. Blocks(Packed(expanded, ids), plan.send) = Parcels(expanded, ids)
    BY <1>2, <1>3, <1>6, ParcelsSent DEF Carried
  <2> QED  BY <1>3, <1>4, <2>1 DEF AllToAll
<1> HIDE DEF p, request
<1>8. SentIs(r, p, call'[r].blocks) /\ KeptIs(r, p, tokens'[r], hidden'[r])
  BY <1>2, <1>5, <1>7 DEF SentIs, KeptIs
<1> QED  BY <1>4, <1>5, <1>7, <1>8 DEF p

(* Before the batches and after them nothing is under way. *)
LEMMA QuietCarries ==
  ASSUME NEW r, NEW p, NEW q, NEW c, NEW i, NEW t, NEW h, NEW o,
         ~InLayers(p), o = OutputsAt(r, q), OutputsAt(r, p) = OutputsAt(r, q)
  PROVE  CarriedBy(r, p, c, i, t, h, o)
BY DEF CarriedBy, SentIs, HeardIs, KeptIs, InLayers

(* Selection, exchange and the writing of the rows. *)
LEMMA ControlCarries ==
  ASSUME Inductive, Carried, NEW r \in Rank,
         \/ SelectBatches(r) \/ BeginExchange(r) \/ ContinueExchange(r) \/ EndExchange(r)
         \/ WriteRows(r) \/ Finish(r)
  PROVE  Carried'
<1>1. UNCHANGED inputs /\ UNCHANGED <<inbox, tokens, hidden, outputs>>
  BY DEF SelectBatches, BeginExchange, ContinueExchange, EndExchange, WriteRows, Finish, buffers
<1>2. at[r] = Place(at[r].run, at[r].stage, at[r].batch, at[r].layer)
  BY PlaceParts DEF Inductive
<1>3. PICK p, request :
        /\ ~InLayers(p) /\ p.run = at[r].run /\ at'[r] = p /\ call'[r] = request
        /\ ~InLayers(at[r]) /\ (BeforeBatches(p) <=> BeforeBatches(at[r]))
        /\ \A s \in Rank \ {r} : at'[s] = at[s] /\ call'[s] = call[s]
  <2>1. ASSUME NEW p, NEW request, Enter(r, p, request)
        PROVE  /\ at'[r] = p /\ call'[r] = request
               /\ \A s \in Rank \ {r} : at'[s] = at[s] /\ call'[s] = call[s]
    BY <2>1 DEF Enter, Inductive, Control
  <2>2. CASE SelectBatches(r) \/ EndExchange(r)
    <3>1. PICK stage \in {"enter", "ready"} : Enter(r, Place(at[r].run, stage, 1, 1), Barrier)
      BY <2>2 DEF SelectBatches, EndExchange
    <3>2. at[r].stage \in {"select", "gather"}
      BY <2>2 DEF SelectBatches, EndExchange, Computes
    <3> QED  BY <2>1, <3>1, <3>2 DEF InLayers, BeforeBatches, Place
  <2>3. CASE BeginExchange(r) \/ ContinueExchange(r)
    <3>1. PICK b, l : GatherAt(r, b, l)
      BY <2>3 DEF BeginExchange, ContinueExchange
    <3>2. at[r].stage \in {"enter", "gather"}
      BY <2>3 DEF BeginExchange, ContinueExchange, Computes
    <3> QED  BY <2>1, <3>1, <3>2 DEF GatherAt, InLayers, BeforeBatches, Place
  <2>4. CASE WriteRows(r)
    <3>1. Enter(r, [at[r] EXCEPT !.stage = "written"], Barrier) /\ at[r].stage = "write"
      BY <2>4 DEF WriteRows, Computes
    <3> DEFINE p == [at[r] EXCEPT !.stage = "written"]
    <3>2. p.run = at[r].run /\ p.stage = "written"
      BY <1>2 DEF Place
    <3> HIDE DEF p
    <3>3. ~InLayers(p) /\ ~InLayers(at[r]) /\ ~BeforeBatches(p) /\ ~BeforeBatches(at[r])
      BY <3>1, <3>2 DEF InLayers, BeforeBatches
    <3>4. Enter(r, p, Barrier)
      BY <3>1 DEF p
    <3> QED  BY <2>1, <3>2, <3>3, <3>4
  <2>5. CASE Finish(r)
    <3>1. at' = [at EXCEPT ![r].stage = "done"] /\ call' = call /\ at[r].stage = "written"
      BY <2>5 DEF Finish, Computes
    <3>2. /\ at'[r].run = at[r].run /\ at'[r].stage = "done"
          /\ \A s \in Rank \ {r} : at'[s] = at[s]
      BY <1>2, <3>1 DEF Inductive, Control, Place
    <3> QED  BY <3>1, <3>2 DEF InLayers, BeforeBatches
  <2> QED  BY <2>2, <2>3, <2>4, <2>5
<1>4. OutputsAt(r, p) = OutputsAt(r, at[r])
  <2>1. Completed(p) = Completed(at[r]) /\ Producing(p) = Producing(at[r])
    BY <1>3 DEF Completed, Producing
  <2> QED  BY <2>1 DEF OutputsAt
<1>5. outputs[r] = OutputsAt(r, at[r])
  BY DEF Carried, CarriedBy
<1>6. CarriedBy(r, p, request, inbox'[r], tokens'[r], hidden'[r], outputs'[r])
  BY <1>1, <1>3, <1>4, <1>5, QuietCarries
<1>7. CarriedBy(r, at'[r], call'[r], inbox'[r], tokens'[r], hidden'[r], outputs'[r])
  BY <1>3, <1>6
<1> QED  BY <1>1, <1>3, <1>7, CarryKeeps DEF Carried

(* The first batch starts with the tokens of its requests. *)
LEMMA FirstTokens ==
  ASSUME NEW r \in Rank, NEW b
  PROVE  InitialHidden(r, b) = TokensAt(r, Place(at[r].run, "hidden", b, 1))
<1>1. \A q : Journey(r, q, 0) = [rank |-> r, request |-> q]
  BY JourneyIs
<1> QED  BY <1>1 DEF InitialHidden, TokensAt, Place

(* The data plane of a run starts with its first batch.                    *)
LEMMA BeginCarries ==
  ASSUME Inductive, Carried, NEW r \in Rank, BeginBatches(r)
  PROVE  Carried'
<1> DEFINE p == Place(at[r].run, "hidden", 1, 1)
<1>1. /\ DispatchAt(r, 1, 1, InitialHidden(r, 1)) /\ outputs' = [outputs EXCEPT ![r] = <<>>]
      /\ UNCHANGED <<inputs, inbox, tokens>>
  BY DEF BeginBatches
<1>2. 1 \in Batch /\ 1 \in Layer
  BY Sizes DEF Batch, Layer
<1>3. DispatchAt(r, 1, 1, TokensAt(r, p))
  BY <1>1, FirstTokens
<1>4. /\ at'[r] = p /\ call'[r].op # "none" /\ SentIs(r, p, call'[r].blocks)
      /\ KeptIs(r, p, tokens'[r], hidden'[r])
      /\ \A s \in Rank \ {r} : at'[s] = at[s] /\ call'[s] = call[s] /\ hidden'[s] = hidden[s]
      /\ DOMAIN hidden' = Rank
  BY <1>2, <1>3, DispatchSends
<1>5. /\ outputs'[r] = <<>> /\ DOMAIN outputs' = Rank
      /\ \A s \in Rank \ {r} : outputs'[s] = outputs[s]
  BY <1>1 DEF Carried
<1>6. OutputsAt(r, p) = <<>>
  <2>1. Completed(p) = 0
    BY DEF Completed, InLayers, Place
  <2>2. [b \in 1 .. 0 |-> Final(r, Producing(p), b)] = <<>>
    OBVIOUS
  <2> QED  BY <2>1, <2>2 DEF OutputsAt
<1> HIDE DEF p
<1>7. CarriedBy(r, p, call'[r], inbox'[r], tokens'[r], hidden'[r], outputs'[r])
  BY <1>4, <1>5, <1>6 DEF CarriedBy
<1> QED  BY <1>1, <1>4, <1>5, <1>7, CarryKeeps DEF Carried

(* What came back is the tokens after the layer. *)
LEMMA CombinedIs ==
  ASSUME Inductive, Carried, NEW r \in Rank, Computes(r, "combine")
  PROVE  Combined(r) = [i \in Slot |-> Journey(r, Batches(r, at[r].run)[at[r].batch][i], at[r].layer)]
<1> DEFINE p == at[r]
<1>1. p \in Places /\ p.stage = "combine" /\ call[r].op = "none" /\ InputsTyped
  BY DEF Inductive, Control, Computes, Waiting, Carried
<1>2. inbox[r] = FlattenSeq(Parcels(AnswersAt(p)[r], IdsAt(p)[r]))
  BY <1>1 DEF Carried, CarriedBy, HeardIs
<1>3. IdsAt(p)[r] = Ids(r, p.run, p.batch, p.layer)
  BY DEF IdsAt, Rank
<1>4. [i \in Slot |-> MeanOver(Restored(inbox[r], IdsAt(p)[r]), i)]
        = [i \in Slot |-> Journey(r, Batches(r, p.run)[p.batch][i], p.layer)]
  <2> HIDE DEF p
  <2> QED  BY <1>1, <1>2, AnswersMakeTokens
<1> QED  BY <1>3, <1>4 DEF Combined

(* What came back from one layer is what the next one starts from.         *)
LEMMA NextLayerCarries ==
  ASSUME Inductive, Carried, NEW r \in Rank, NextLayer(r)
  PROVE  Carried'
<1> DEFINE b == at[r].batch
           l == at[r].layer + 1
           p == Place(at[r].run, "hidden", b, l)
<1>1. /\ Computes(r, "combine") /\ at[r].layer # NumLayers /\ DispatchAt(r, b, l, Combined(r))
      /\ UNCHANGED <<inputs, inbox, tokens, outputs>>
  BY DEF NextLayer, LastLayer
<1>2. b \in Batch /\ l \in Layer /\ at[r].layer \in Nat /\ l - 1 = at[r].layer
  <2>1. at[r].batch \in Batch /\ at[r].layer \in Layer
    BY PlaceParts DEF Inductive
  <2> QED  BY <1>1, <2>1, LoopOrder, Sizes DEF Layer
<1>3. Combined(r) = TokensAt(r, p)
  <2>1. p.run = at[r].run /\ p.batch = b /\ p.layer - 1 = at[r].layer
    BY <1>2 DEF Place
  <2> HIDE DEF p, b, l
  <2>2. TokensAt(r, p) = [i \in Slot |-> Journey(r, Batches(r, at[r].run)[b][i], at[r].layer)]
    BY <2>1 DEF TokensAt
  <2> QED  BY <1>1, <2>2, CombinedIs DEF b
<1>4. DispatchAt(r, b, l, TokensAt(r, p))
  BY <1>1, <1>3
<1> HIDE DEF b, l
<1>5. /\ at'[r] = p /\ call'[r].op # "none" /\ SentIs(r, p, call'[r].blocks)
      /\ KeptIs(r, p, tokens'[r], hidden'[r])
      /\ \A s \in Rank \ {r} : at'[s] = at[s] /\ call'[s] = call[s] /\ hidden'[s] = hidden[s]
      /\ DOMAIN hidden' = Rank
  BY <1>2, <1>4, DispatchSends
<1>6. outputs[r] = OutputsAt(r, p)
  <2>1. outputs[r] = OutputsAt(r, at[r])
    BY DEF Carried, CarriedBy
  <2>2. Completed(p) = Completed(at[r]) /\ Producing(p) = Producing(at[r])
    BY <1>1 DEF Completed, Producing, InLayers, BeforeBatches, Place, Computes, b
  <2> QED  BY <2>1, <2>2 DEF OutputsAt
<1> HIDE DEF p
<1>7. CarriedBy(r, p, call'[r], inbox'[r], tokens'[r], hidden'[r], outputs'[r])
  BY <1>1, <1>5, <1>6 DEF CarriedBy
<1> QED  BY <1>1, <1>5, <1>7, CarryKeeps DEF Carried

(* After the last layer the tokens are the next output. *)
LEMMA OutputsGrow ==
  ASSUME Inductive, Carried, NEW r \in Rank, Computes(r, "combine"), LastLayer(r),
         outputs' = [outputs EXCEPT ![r] = Append(@, Combined(r))]
  PROVE  /\ outputs'[r] = [b \in 1 .. at[r].batch |-> Final(r, at[r].run, b)]
         /\ DOMAIN outputs' = Rank /\ \A s \in Rank \ {r} : outputs'[s] = outputs[s]
<1> DEFINE m == at[r].batch
           n == at[r].run
           old == outputs[r]
           new == Combined(r)
<1>1. at[r].batch \in Batch
  BY PlaceParts DEF Inductive
<1>2. m \in Nat /\ m - 1 \in Nat /\ m - 1 + 1 = m
  BY <1>1, Sizes DEF Batch
<1>3. old = [b \in 1 .. m - 1 |-> Final(r, n, b)]
  <2>1. old = OutputsAt(r, at[r])
    BY DEF Carried, CarriedBy
  <2>2. Completed(at[r]) = m - 1 /\ Producing(at[r]) = n
    BY DEF Computes, Completed, Producing, InLayers, BeforeBatches
  <2> QED  BY <2>1, <2>2 DEF OutputsAt
<1>4. new = Final(r, n, m)
  BY CombinedIs DEF Final, LastLayer
<1>5. outputs'[r] = Append(old, new) /\ DOMAIN outputs' = Rank /\ \A s \in Rank \ {r} : outputs'[s] = outputs[s]
  BY DEF Carried
<1> DEFINE k == m - 1
           all == [b \in 1 .. m |-> Final(r, n, b)]
<1>6. all = Append(old, new)
  <2>1. k \in Nat /\ k + 1 = m
    BY <1>2
  <2> HIDE DEF m, n, old, new
  <2>2. old = [b \in 1 .. k |-> Final(r, n, b)]
    BY <1>3
  <2> HIDE DEF k
  <2> DEFINE X == {Final(r, n, b) : b \in 1 .. k + 1}
  <2>3. \A b \in 1 .. k : Final(r, n, b) \in X
    BY <2>1
  <2>4. Final(r, n, k + 1) \in X
    BY <2>1
  <2> HIDE DEF X
  <2>5. old \in Seq(X) /\ Len(old) = k
    BY <2>1, <2>2, <2>3
  <2>6. new \in X /\ new = Final(r, n, k + 1)
    BY <1>4, <2>1, <2>4
  <2>7. /\ Append(old, new) \in Seq(X) /\ Len(Append(old, new)) = k + 1
        /\ \A b \in 1 .. k : Append(old, new)[b] = old[b]
        /\ Append(old, new)[k + 1] = new
    BY <2>5, <2>6, AppendAt
  <2>8. \A b \in 1 .. k + 1 : Append(old, new)[b] = Final(r, n, b)
    <3>1. \A b \in 1 .. k + 1 : b \in 1 .. k \/ b = k + 1
      BY <2>1
    <3> QED  BY <2>2, <2>6, <2>7, <3>1
  <2>9. Append(old, new) = [b \in 1 .. k + 1 |-> Append(old, new)[b]]
    <3> DEFINE s == Append(old, new)
    <3>1. s \in Seq(X) /\ Len(s) = k + 1
      BY <2>7
    <3> HIDE DEF s
    <3>2. s = [b \in 1 .. k + 1 |-> s[b]]
      BY <3>1
    <3> QED  BY <3>2 DEF s
  <2>10. Append(old, new) = [b \in 1 .. k + 1 |-> Final(r, n, b)]
    BY <2>8, <2>9
  <2> QED  BY <2>1, <2>10
<1> QED  BY <1>5, <1>6

(* After the last layer a batch is an output, and the next one starts.     *)
LEMMA NextBatchCarries ==
  ASSUME Inductive, Carried, NEW r \in Rank, NextBatch(r)
  PROVE  Carried'
<1> DEFINE b == at[r].batch + 1
           p == Place(at[r].run, "hidden", b, 1)
<1>1. /\ Computes(r, "combine") /\ LastLayer(r) /\ at[r].batch # BatchCount
      /\ DispatchAt(r, b, 1, InitialHidden(r, b))
      /\ outputs' = [outputs EXCEPT ![r] = Append(@, Combined(r))]
      /\ UNCHANGED <<inputs, inbox, tokens>>
  BY DEF NextBatch, LastBatch
<1>2. b \in Batch /\ 1 \in Layer /\ b - 1 = at[r].batch
  <2>1. at[r].batch \in Batch /\ at[r].layer \in Layer /\ at[r].batch # BatchCount
    BY <1>1, PlaceParts DEF Inductive
  <2>2. at[r].batch + 1 \in Batch /\ 1 \in Layer
    BY <2>1, LoopOrder
  <2>3. at[r].batch \in Nat
    BY <2>1, Sizes DEF Batch
  <2> QED  BY <2>2, <2>3
<1>3. DispatchAt(r, b, 1, TokensAt(r, p))
  BY <1>1, FirstTokens
<1> HIDE DEF b
<1>4. /\ at'[r] = p /\ call'[r].op # "none" /\ SentIs(r, p, call'[r].blocks)
      /\ KeptIs(r, p, tokens'[r], hidden'[r])
      /\ \A s \in Rank \ {r} : at'[s] = at[s] /\ call'[s] = call[s] /\ hidden'[s] = hidden[s]
      /\ DOMAIN hidden' = Rank
  BY <1>2, <1>3, DispatchSends
<1>5. /\ outputs'[r] = [c \in 1 .. at[r].batch |-> Final(r, at[r].run, c)]
      /\ DOMAIN outputs' = Rank /\ \A s \in Rank \ {r} : outputs'[s] = outputs[s]
  BY <1>1, OutputsGrow
<1>6. outputs'[r] = OutputsAt(r, p)
  <2>1. Completed(p) = at[r].batch /\ Producing(p) = at[r].run
    BY <1>2 DEF Completed, Producing, InLayers, BeforeBatches, Place
  <2> QED  BY <1>5, <2>1 DEF OutputsAt
<1> HIDE DEF p
<1>7. CarriedBy(r, p, call'[r], inbox'[r], tokens'[r], hidden'[r], outputs'[r])
  BY <1>4, <1>6 DEF CarriedBy
<1> QED  BY <1>1, <1>4, <1>5, <1>7, CarryKeeps DEF Carried

(* After the last batch all outputs of the run are there.                  *)
LEMMA RecordCarries ==
  ASSUME Inductive, Carried, NEW r \in Rank, RecordRun(r)
  PROVE  Carried'
<1> DEFINE p == IF at[r].run < NumRuns THEN Place(at[r].run + 1, "select", 1, 1)
                ELSE Place(at[r].run, "write", 1, 1)
<1>1. /\ Computes(r, "combine") /\ LastLayer(r) /\ at[r].batch = BatchCount
      /\ outputs' = [outputs EXCEPT ![r] = Append(@, Combined(r))]
      /\ at' = [at EXCEPT ![r] = p]
      /\ UNCHANGED <<inputs, call, inbox, tokens, hidden>>
  BY DEF RecordRun, LastBatch
<1>2. at'[r] = p /\ \A s \in Rank \ {r} : at'[s] = at[s]
  BY <1>1 DEF Inductive, Control
<1>3. /\ outputs'[r] = [c \in 1 .. at[r].batch |-> Final(r, at[r].run, c)]
      /\ DOMAIN outputs' = Rank /\ \A s \in Rank \ {r} : outputs'[s] = outputs[s]
  BY <1>1, OutputsGrow
<1>4. at[r].run \in Nat \ {0}
  BY PlaceParts DEF Inductive, Run
<1>5. ~InLayers(p) /\ Completed(p) = BatchCount /\ Producing(p) = at[r].run
  BY <1>4 DEF Completed, Producing, InLayers, BeforeBatches, Place
<1> HIDE DEF p
<1>6. outputs'[r] = OutputsAt(r, p)
  BY <1>1, <1>3, <1>5 DEF OutputsAt
<1>7. CarriedBy(r, p, call'[r], inbox'[r], tokens'[r], hidden'[r], outputs'[r])
  BY <1>5, <1>6, QuietCarries
<1> QED  BY <1>1, <1>2, <1>3, <1>7, CarryKeeps DEF Carried

(* The stage of a place changes, the batch and the layer stay. *)
LEMMA SamePlace ==
  ASSUME Inductive, NEW r \in Rank, NEW x \in {"ids", "combine"}, InLayers(at[r]),
         NEW p, p = [at[r] EXCEPT !.stage = x]
  PROVE  /\ p \in Places /\ p.stage = x /\ InLayers(p)
         /\ p.run = at[r].run /\ p.batch = at[r].batch /\ p.layer = at[r].layer
         /\ IdsAt(p) = IdsAt(at[r]) /\ ValuesAt(p) = ValuesAt(at[r])
         /\ LocalsAt(p) = LocalsAt(at[r]) /\ AnswersAt(p) = AnswersAt(at[r])
         /\ TokensAt(r, p) = TokensAt(r, at[r]) /\ OutputsAt(r, p) = OutputsAt(r, at[r])
<1>1. at[r] \in Places /\ at[r] = Place(at[r].run, at[r].stage, at[r].batch, at[r].layer)
  BY PlaceParts DEF Inductive, Control
<1>2. /\ p \in Places /\ p.stage = x /\ InLayers(p)
      /\ p.run = at[r].run /\ p.batch = at[r].batch /\ p.layer = at[r].layer
  <2>1. p.stage = x /\ p.run = at[r].run /\ p.batch = at[r].batch /\ p.layer = at[r].layer
    BY <1>1 DEF Place
  <2>2. p \in Places
    BY <1>1 DEF Places, Stages
  <2> QED  BY <2>1, <2>2 DEF InLayers
<1>3. IdsAt(p) = IdsAt(at[r])
  BY <1>2 DEF IdsAt
<1>4. \A s : TokensAt(s, p) = TokensAt(s, at[r])
  BY <1>2 DEF TokensAt
<1>5. ValuesAt(p) = ValuesAt(at[r])
  BY <1>4 DEF ValuesAt
<1>6. LocalsAt(p) = LocalsAt(at[r]) /\ AnswersAt(p) = AnswersAt(at[r])
  BY <1>3, <1>5 DEF LocalsAt, AnswersAt
<1>7. OutputsAt(r, p) = OutputsAt(r, at[r])
  <2>1. Completed(p) = Completed(at[r]) /\ Producing(p) = Producing(at[r])
    BY <1>2 DEF Completed, Producing, InLayers, BeforeBatches
  <2> QED  BY <2>1 DEF OutputsAt
<1> QED  BY <1>2, <1>3, <1>4, <1>5, <1>6, <1>7

(* The ids follow the tokens, in the same order. *)
LEMMA IdsCarry ==
  ASSUME Inductive, Carried, NEW r \in Rank, DispatchIds(r)
  PROVE  Carried'
<1> DEFINE p == [at[r] EXCEPT !.stage = "ids"]
           ids == Ids(r, at[r].run, at[r].batch, at[r].layer)
           local == [a \in Assignments |-> [local |-> LocalId(ids[a])]]
           plan == Planned(r, at[r].run, at[r].batch, at[r].layer)
           request == AllToAll(Blocks(Packed(local, ids), plan.send), plan.recv)
<1>1. /\ Computes(r, "hidden") /\ tokens' = [tokens EXCEPT ![r] = inbox[r]]
      /\ Enter(r, p, request) /\ UNCHANGED <<inputs, inbox, hidden, outputs>>
  BY DEF DispatchIds
<1>2. InLayers(at[r]) /\ at[r].stage = "hidden" /\ call[r].op = "none"
  BY <1>1 DEF Computes, InLayers, Waiting
<1>3. /\ p \in Places /\ p.stage = "ids" /\ InLayers(p)
      /\ p.run = at[r].run /\ p.batch = at[r].batch /\ p.layer = at[r].layer
      /\ IdsAt(p) = IdsAt(at[r]) /\ ValuesAt(p) = ValuesAt(at[r])
      /\ TokensAt(r, p) = TokensAt(r, at[r]) /\ OutputsAt(r, p) = OutputsAt(r, at[r])
  BY <1>2, SamePlace
<1>4. /\ at'[r] = p /\ call'[r] = request
      /\ \A s \in Rank \ {r} : at'[s] = at[s] /\ call'[s] = call[s]
  BY <1>1 DEF Enter, Inductive, Control
<1>5. ids = IdsAt(p)[r] /\ local = LocalsAt(p)[r]
  <2>1. ids = IdsAt(p)[r]
    BY <1>3 DEF IdsAt, Rank
  <2>2. LocalsAt(p)[r] = [a \in 1 .. AllAssignments |-> [local |-> LocalId(IdsAt(p)[r][a])]]
    BY DEF LocalsAt, Locals, Rank
  <2>3. Assignments = 1 .. AllAssignments
    BY DEF Assignments, AllAssignments
  <2> HIDE DEF p, ids
  <2> QED  BY <2>1, <2>2, <2>3
<1>6. plan = Planned(r, p.run, p.batch, p.layer)
  BY <1>3
<1> HIDE DEF ids, local, plan
<1>7. request.blocks = Parcels(LocalsAt(p)[r], IdsAt(p)[r]) /\ request.op # "none"
  <2> HIDE DEF p
  <2>1. Blocks(Packed(local, ids), plan.send) = Parcels(local, ids)
    BY <1>3, <1>5, <1>6, ParcelsSent DEF Carried
  <2> QED  BY <1>5, <2>1 DEF AllToAll
<1>8. /\ inbox[r] = FlattenSeq(Arrivals(ValuesAt(at[r]), IdsAt(at[r]), r))
      /\ hidden[r] = TokensAt(r, at[r]) /\ outputs[r] = OutputsAt(r, at[r])
  BY <1>2 DEF Carried, CarriedBy, HeardIs, KeptIs
<1>9. tokens'[r] = inbox[r] /\ DOMAIN tokens' = Rank /\ \A s \in Rank \ {r} : tokens'[s] = tokens[s]
  BY <1>1 DEF Carried
<1> HIDE DEF p, request
<1>10. CarriedBy(r, at'[r], call'[r], inbox'[r], tokens'[r], hidden'[r], outputs'[r])
  BY <1>1, <1>3, <1>4, <1>7, <1>8, <1>9 DEF CarriedBy, SentIs, KeptIs
<1> QED  BY <1>1, <1>4, <1>9, <1>10, CarryKeeps DEF Carried

(* Every token that waits goes through the expert that came for it, and    *)
(* the answers are cut for the ranks they came from.                       *)
LEMMA ExpertsCarry ==
  ASSUME Inductive, Carried, NEW r \in Rank, RunExperts(r)
  PROVE  Carried'
<1> DEFINE p == [at[r] EXCEPT !.stage = "combine"]
           plan == Planned(r, at[r].run, at[r].batch, at[r].layer)
           output == ExpertOutput(r, tokens[r], inbox[r])
           request == AllToAll(Blocks(output, plan.recv), plan.send)
<1>1. /\ Computes(r, "ids") /\ Enter(r, p, request)
      /\ UNCHANGED <<inputs, inbox, tokens, hidden, outputs>>
  BY DEF RunExperts, buffers
<1>2. InLayers(at[r]) /\ at[r].stage = "ids" /\ call[r].op = "none"
  BY <1>1 DEF Computes, InLayers, Waiting
<1>3. /\ p \in Places /\ p.stage = "combine" /\ InLayers(p)
      /\ p.run = at[r].run /\ p.batch = at[r].batch /\ p.layer = at[r].layer
      /\ IdsAt(p) = IdsAt(at[r]) /\ ValuesAt(p) = ValuesAt(at[r])
      /\ LocalsAt(p) = LocalsAt(at[r]) /\ AnswersAt(p) = AnswersAt(at[r])
      /\ TokensAt(r, p) = TokensAt(r, at[r]) /\ OutputsAt(r, p) = OutputsAt(r, at[r])
  BY <1>2, SamePlace
<1>4. /\ at'[r] = p /\ call'[r] = request
      /\ \A s \in Rank \ {r} : at'[s] = at[s] /\ call'[s] = call[s]
  BY <1>1 DEF Enter, Inductive, Control
<1>5. /\ tokens[r] = FlattenSeq(Arrivals(ValuesAt(p), IdsAt(p), r))
      /\ inbox[r] = FlattenSeq(Arrivals(LocalsAt(p), IdsAt(p), r))
      /\ hidden[r] = TokensAt(r, p) /\ outputs[r] = OutputsAt(r, p)
  BY <1>2, <1>3 DEF Carried, CarriedBy, HeardIs, KeptIs
<1>6. plan.recv = [s \in Source |-> SplitVector(IdsAt(p)[s])[r]]
  <2>1. plan = Planned(r, p.run, p.batch, p.layer)
    BY <1>3
  <2> HIDE DEF plan, p
  <2> QED  BY <2>1, PlanCounts
<1> HIDE DEF p, plan
<1>7. request.blocks = Arrivals(AnswersAt(p), IdsAt(p), r) /\ request.op # "none"
  <2> DEFINE n == AllAssignments
             ids == IdsAt(p)
             size == plan.recv
  <2>1. AllHomed(ids, n) /\ n \in Nat /\ r \in Source
    BY <1>3, IdsAtAre, AssignmentSlots DEF Carried, AllAssignments, Rank
  <2>2. size \in [Source -> Nat] /\ \A s \in Source : size[s] = PartSizes(ids[s])[r]
    <3>1. ASSUME NEW s \in Source
          PROVE  SplitVector(ids[s])[r] \in Nat /\ SplitVector(ids[s])[r] = PartSizes(ids[s])[r]
      <4>1. Homed(ids[s], n)
        BY <2>1, AllHomedAre
      <4>2. PartSizes(ids[s]) \in [Source -> Nat] /\ SplitVector(ids[s]) = PartSizes(ids[s])
        BY <2>1, <4>1, PartSizesAre
      <4> QED  BY <2>1, <4>2
    <3> HIDE DEF ids
    <3> QED  BY <1>6, <3>1 DEF ids
  <2>3. LocalsAt(p) = Locals(ids, n) /\ AnswersAt(p) = Answers(ValuesAt(p), ids, n)
    BY DEF LocalsAt, AnswersAt
  <2> HIDE DEF ids, size, n
  <2>4. Blocks(ExpertOutput(r, FlattenSeq(Arrivals(ValuesAt(p), ids, r)),
                               FlattenSeq(Arrivals(Locals(ids, n), ids, r))), size)
          = Arrivals(Answers(ValuesAt(p), ids, n), ids, r)
    BY <2>1, <2>2, ExpertsAnswer
  <2> QED  BY <1>5, <2>3, <2>4 DEF AllToAll, ids, size
<1> HIDE DEF request
<1>8. CarriedBy(r, at'[r], call'[r], inbox'[r], tokens'[r], hidden'[r], outputs'[r])
  BY <1>1, <1>3, <1>4, <1>5, <1>7 DEF CarriedBy, SentIs, KeptIs
<1> QED  BY <1>1, <1>4, <1>8, CarryKeeps DEF Carried

(* The end of a collective delivers what was sent. *)
LEMMA CompleteCarries ==
  ASSUME Inductive, Posted, Carried, Complete
  PROVE  Carried'
<1>1. /\ \A r \in Rank : Waiting(r) /\ call'[r] = NoCall
      /\ UNCHANGED <<inputs, at, tokens, hidden, outputs>>
  <2>1. PICK op \in {"barrier", "all_gather", "all_to_all"} : AllIn(op) /\ LeaveAll
    BY DEF Complete, CompleteBarrier, CompleteAllGather, CompleteAllToAll
  <2>2. UNCHANGED <<inputs, at, tokens, hidden, outputs>>
    BY DEF Complete, CompleteBarrier, CompleteAllGather, CompleteAllToAll, buffers
  <2> QED  BY <2>1, <2>2 DEF AllIn, Waiting, LeaveAll
<1>2. ASSUME NEW r \in Rank, InLayers(at[r])
      PROVE  inbox'[r] = FlattenSeq([s \in Rank |-> call[s].blocks[r]])
  <2>1. call[r].op = "all_to_all"
    BY <1>1, <1>2 DEF Posted, PostedAt, InLayers
  <2>2. CompleteAllToAll
    BY <2>1 DEF Complete, CompleteBarrier, CompleteAllGather, AllIn
  <2> QED  BY <2>2 DEF CompleteAllToAll
<1>3. ASSUME NEW r \in Rank
      PROVE  CarriedBy(r, at'[r], call'[r], inbox'[r], tokens'[r], hidden'[r], outputs'[r])
  <2> DEFINE p == at[r]
  <2>1. CarriedBy(r, p, call[r], inbox[r], tokens[r], hidden[r], outputs[r])
    BY DEF Carried
  <2>2. call'[r].op = "none"
    BY <1>1 DEF NoCall
  <2>3. \A s \in Source : at[s] = p /\ SentIs(s, p, call[s].blocks)
    <3>1. \A s \in Source : at[s] = p
      BY <1>1 DEF Inductive, Lockstep, Rank
    <3>2. \A s \in Source : SentIs(s, at[s], call[s].blocks)
      BY <1>1 DEF Carried, CarriedBy, Waiting, Rank
    <3> QED  BY <3>1, <3>2
  <2>4. r \in Source /\ Rank = Source
    BY DEF Rank
  <2>5. InLayers(p) => inbox'[r] = FlattenSeq([s \in Source |-> call[s].blocks[r]])
    BY <1>2 DEF Rank
  <2> HIDE DEF p
  <2>6. HeardIs(r, p, inbox'[r])
    <3>1. CASE p.stage = "hidden"
      <4>1. [s \in Source |-> call[s].blocks[r]] = Arrivals(ValuesAt(p), IdsAt(p), r)
        BY <2>3, <3>1 DEF SentIs, Arrivals
      <4> QED  BY <2>5, <3>1, <4>1 DEF HeardIs, InLayers
    <3>2. CASE p.stage = "ids"
      <4>1. [s \in Source |-> call[s].blocks[r]] = Arrivals(LocalsAt(p), IdsAt(p), r)
        BY <2>3, <3>2 DEF SentIs, Arrivals
      <4> QED  BY <2>5, <3>2, <4>1 DEF HeardIs, InLayers
    <3>3. CASE p.stage = "combine"
      <4>1. \A s \in Source : call[s].blocks[r] = Parcels(AnswersAt(p)[r], IdsAt(p)[r])[s]
        BY <2>3, <2>4, <3>3 DEF SentIs, Arrivals
      <4>2. [s \in Source |-> call[s].blocks[r]] = Parcels(AnswersAt(p)[r], IdsAt(p)[r])
        <5>1. Parcels(AnswersAt(p)[r], IdsAt(p)[r])
                = [s \in Source |-> Parcels(AnswersAt(p)[r], IdsAt(p)[r])[s]]
          BY DEF Parcels
        <5> QED  BY <4>1, <5>1
      <4> QED  BY <2>5, <3>3, <4>2 DEF HeardIs, InLayers
    <3> QED  BY <3>1, <3>2, <3>3 DEF HeardIs
  <2>7. KeptIs(r, p, tokens[r], hidden[r]) /\ outputs[r] = OutputsAt(r, p)
    BY <2>1 DEF CarriedBy
  <2>8. at'[r] = p /\ tokens'[r] = tokens[r] /\ hidden'[r] = hidden[r] /\ outputs'[r] = outputs[r]
    BY <1>1 DEF p
  <2> QED  BY <2>2, <2>6, <2>7, <2>8 DEF CarriedBy
<1>4. \A s \in Rank : CarriedBy(s, at[s], call[s], inbox[s], tokens[s], hidden[s], outputs[s])'
  BY <1>1, <1>3, SameTokens
<1>5. InputsTyped'
  BY <1>1, SameTokens DEF Carried
<1> QED  BY <1>1, <1>4, <1>5 DEF Carried

(* A step that touches no token. *)
LEMMA IdleCarries ==
  ASSUME Carried, UNCHANGED <<inputs, at, call, inbox, tokens, hidden, outputs>>
  PROVE  Carried'
<1>1. \A s \in Rank : CarriedBy(s, at'[s], call'[s], inbox'[s], tokens'[s], hidden'[s], outputs'[s])
  BY DEF Carried
<1>2. \A s \in Rank : CarriedBy(s, at[s], call[s], inbox[s], tokens[s], hidden[s], outputs[s])'
  BY <1>1, SameTokens
<1>3. InputsTyped'
  BY SameTokens DEF Carried
<1> QED  BY <1>2, <1>3 DEF Carried

(* No step lets a token stray.                                             *)
LEMMA StepCarries == Inductive /\ Posted /\ Carried /\ [Next]_vars => Carried'
<1> SUFFICES ASSUME Inductive, Posted, Carried, [Next]_vars
             PROVE  Carried'
  OBVIOUS
<1>1. ASSUME NEW r \in Rank, Step(r)
      PROVE  Carried'
  <2>1. CASE RaiseMissingDose(r)
    BY <2>1, IdleCarries DEF RaiseMissingDose, buffers
  <2> QED  BY <1>1, <2>1, ControlCarries, BeginCarries, IdsCarry, ExpertsCarry, NextLayerCarries,
              NextBatchCarries, RecordCarries DEF Step
<1>2. CASE (\E r \in Rank : Fail(r)) \/ Terminate \/ UNCHANGED vars
  BY <1>2, IdleCarries DEF Fail, Terminate, vars, buffers
<1> QED  BY <1>1, <1>2, CompleteCarries DEF Next

(* At the start there are no tokens.                                       *)
LEMMA InitCarries == Init => Carried
<1> SUFFICES ASSUME Init PROVE Carried
  OBVIOUS
<1>1. InputsTyped
  BY ExchangeAssumption DEF Init, InputsTyped
<1>2. /\ DOMAIN tokens = Rank /\ DOMAIN hidden = Rank /\ DOMAIN outputs = Rank
      /\ \A r \in Rank : outputs[r] = <<>> /\ at[r] = Place(1, "select", 1, 1)
  BY DEF Init
<1> DEFINE p == Place(1, "select", 1, 1)
<1>3. ~InLayers(p) /\ Completed(p) = 0
  BY DEF Place, InLayers, Completed, BeforeBatches
<1> HIDE DEF p
<1>4. \A r \in Rank : OutputsAt(r, p) = <<>>
  <2>1. \A r \in Rank : [b \in 1 .. 0 |-> Final(r, Producing(p), b)] = <<>>
    OBVIOUS
  <2> QED  BY <1>3, <2>1 DEF OutputsAt
<1>5. ASSUME NEW r \in Rank
      PROVE  CarriedBy(r, at[r], call[r], inbox[r], tokens[r], hidden[r], outputs[r])
  <2>1. at[r] = p /\ outputs[r] = OutputsAt(r, p)
    BY <1>2, <1>4 DEF p
  <2> QED  BY <1>3, <2>1, QuietCarries
<1> QED  BY <1>1, <1>2, <1>5 DEF Carried

(* In every reachable state every token is where the program says.         *)
LEMMA TokensCarried == Spec => [](Inductive /\ Posted /\ Carried)
<1>1. Init => Posted
  BY DEF Init, Posted, Waiting, NoCall
<1> QED  BY <1>1, InitCarries, StepPosts, StepCarries, InductiveInvariant, PTL DEF Spec

(* "origin_restoration: implicit_stable_assignment_order_plus_local_       *)
(* inverse" (benchmark_contract_ep4.py:902): no origin travels with a      *)
(* token, and still every token of every layer comes back to its own slot, *)
(* from its own experts, whatever the routes, the plans, the interleaving  *)
(* of the ranks and the failures; none is dropped or duplicated.           *)
THEOREM TokensComeBack == Spec => []RestoredToOrigin
<1>1. Inductive /\ Posted /\ Carried => RestoredToOrigin
  <2> SUFFICES ASSUME Inductive, Carried, NEW r \in Rank
               PROVE  /\ at[r].stage \in {"hidden", "ids", "combine"} =>
                           \A i \in Slot :
                             hidden[r][i] =
                               Journey(r, Batches(r, at[r].run)[at[r].batch][i], at[r].layer - 1)
                      /\ \A b \in DOMAIN outputs[r], i \in Slot :
                           outputs[r][b][i] = Journey(r, Batches(r, OutputRun(r))[b][i], NumLayers)
    BY DEF RestoredToOrigin
  <2>1. KeptIs(r, at[r], tokens[r], hidden[r]) /\ outputs[r] = OutputsAt(r, at[r])
    BY DEF Carried, CarriedBy
  <2>2. OutputRun(r) = Producing(at[r])
    BY DEF OutputRun, Producing, BeforeBatches
  <2> QED  BY <2>1, <2>2 DEF KeptIs, InLayers, TokensAt, OutputsAt, Final
<1> QED  BY <1>1, TokensCarried, PTL

(* The expert counts that a rank derives from its plan before anything is  *)
(* sent (split_vectors_and_local_expert_counts,                            *)
(* coordinated_scheduling.py:117-147) are the counts of the expert ids     *)
(* that arrive, which it never looks at.                                   *)
THEOREM CountsAreMeasured == Spec => []CountsMeasured
<1>1. Inductive /\ Posted /\ Carried => CountsMeasured
  <2> SUFFICES ASSUME Inductive, Carried, NEW r \in Rank, at[r].stage = "ids", ~Waiting(r)
               PROVE  /\ Len(tokens[r]) = Len(inbox[r])
                      /\ Planned(r, at[r].run, at[r].batch, at[r].layer).experts =
                           [e \in LocalExpert |->
                              Cardinality({x \in DOMAIN inbox[r] : inbox[r][x].local = e})]
    BY DEF CountsMeasured
  <2> DEFINE p == at[r]
             ids == IdsAt(p)
             n == AllAssignments
             size == [s \in Source |-> PartSizes(ids[s])[r]]
  <2>1. p \in Places /\ InputsTyped /\ r \in Source
    BY DEF Inductive, Control, Carried, Rank
  <2>2. AllHomed(ids, n) /\ n \in Nat
    BY <2>1, IdsAtAre, AssignmentSlots DEF AllAssignments
  <2>3. /\ inbox[r] = FlattenSeq(Arrivals(Locals(ids, n), ids, r))
        /\ tokens[r] = FlattenSeq(Arrivals(ValuesAt(p), ids, r))
    BY DEF Carried, CarriedBy, HeardIs, KeptIs, Waiting, LocalsAt
  <2>4. /\ Planned(r, p.run, p.batch, p.layer).experts =
             [e \in LocalExpert |-> Cardinality(Wanted(ids, r, n, e))]
    <3>1. \A s \in Source : FlatIds(routes, s, GlobalBatches(r, p.run)[s][p.batch], p.layer) = ids[s]
      BY DEF GlobalBatches, Batches, Recomputed, IdsAt, Ids
    <3> DEFINE sent(s) == FlatIds(routes, s, GlobalBatches(r, p.run)[s][p.batch], p.layer)
               here(e) == {x \in Source \X Assignments :
                             /\ x[2] \in {a \in Assignments : HomeOf(sent(x[1])[a]) = r}
                             /\ LocalId(sent(x[1])[x[2]]) = e}
    <3>2. Planned(r, p.run, p.batch, p.layer).experts = [e \in LocalExpert |-> Cardinality(here(e))]
      BY DEF Planned, ReplayMetadata
    <3>3. Assignments = 1 .. n
      BY DEF Assignments, AllAssignments
    <3>4. \A s \in Source : sent(s) = ids[s]
      BY <3>1
    <3> HIDE DEF sent, ids, n, p
    <3>5. ASSUME NEW e
          PROVE  here(e) = Wanted(ids, r, n, e)
      <4>1. \A x \in Source \X Assignments : x[1] \in Source /\ x[2] \in Assignments
        OBVIOUS
      <4> QED  BY <3>3, <3>4, <4>1 DEF Wanted
    <3> HIDE DEF here
    <3> QED  BY <3>2, <3>5
  <2>5. size \in [Source -> Nat]
    <3>1. ASSUME NEW s \in Source
          PROVE  PartSizes(ids[s])[r] \in Nat
      <4>1. Homed(ids[s], n)
        BY <2>2, AllHomedAre
      <4>2. PartSizes(ids[s]) \in [Source -> Nat]
        BY <2>2, <4>1, PartSizesAre
      <4> QED  BY <2>1, <4>2
    <3> HIDE DEF ids
    <3> QED  BY <3>1
  <2>6. \A s \in Source : size[s] = PartSizes(ids[s])[r]
    OBVIOUS
  <2> HIDE DEF size, ids, n, p
  <2>7. PICK f : Begins(f, size) /\ \A i, j \in Nat : i <= j => f[i] <= f[j]
    BY <2>5, BeginsExist
  <2>8. Made(inbox[r], Locals(ids, n), ids, r, n, f) /\ Made(tokens[r], ValuesAt(p), ids, r, n, f)
    BY <2>1, <2>2, <2>3, <2>5, <2>6, <2>7, ArrivalsAt
  <2>9. Len(tokens[r]) = Len(inbox[r])
    BY <2>8 DEF Made
  <2>10. \A e : Cardinality(Positions(inbox[r], e)) = Cardinality(Wanted(ids, r, n, e))
    BY <2>1, <2>2, <2>5, <2>6, <2>7, <2>8, ArrivalsCount
  <2>11. \A e : {x \in DOMAIN inbox[r] : inbox[r][x].local = e} = Positions(inbox[r], e)
    BY DEF Positions
  <2>12. [e \in LocalExpert |-> Cardinality({x \in DOMAIN inbox[r] : inbox[r][x].local = e})]
           = [e \in LocalExpert |-> Cardinality(Wanted(ids, r, n, e))]
    BY <2>10, <2>11
  <2> QED  BY <2>4, <2>9, <2>12 DEF p
<1> QED  BY <1>1, TokensCarried, PTL
===============================================================================
