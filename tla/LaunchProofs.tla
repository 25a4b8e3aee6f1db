------------------------------ MODULE LaunchProofs ------------------------------
(***************************************************************************)
(* Proofs about the launches of the three timing controls, for all command *)
(* lines, any number of layers, batches and launches and any set of faulty *)
(* ranks: the ranks never disagree about the collective they are in, what  *)
(* is left in the directory of a launch that passed is complete and is     *)
(* accepted by the analysis, every token comes back to where it was sent   *)
(* from, and the modes that are compared do the same work exactly where    *)
(* the gate's equal parts fit its routes.                                  *)
(***************************************************************************)
EXTENDS LaunchProperties, TokenProofs, FiniteSetTheorems, TLAPS

(* The collective that a rank at place p meets the others in next, of the  *)
(* runs rs of program prg; ranks that meet nobody any more share a place   *)
(* of their own.                                                           *)
Following(p, prg, rs) ==
  IF prg = "parallel" THEN ParallelAfter(p, rs) ELSE GateAfter(p, rs[p.run].mode, Len(rs))

LastPlaces == {"metadata", "pass", "done"}

Heading(p, prg, rs) ==
  CASE p.stage = "end" ->
         LET q == Following(p, prg, rs)
         IN  IF q.stage = "write" THEN [q EXCEPT !.stage = "written"] ELSE q
    [] p.stage \in {"write", "close"} /\ prg # "parallel" -> [p EXCEPT !.stage = "written"]
    [] p.stage \in {"write", "close"} /\ prg = "parallel" -> Place(0, "over", 0, 0)
    [] p.stage \in LastPlaces -> Place(0, "over", 0, 0)
    [] OTHER -> p

(* The runs a rank at place p has been through. *)
InRun == DataStages \union {"gather", "barrier", "end"}

RunsDone(p, rs) ==
  CASE p.stage = "setup" -> 0
    [] p.stage \in InRun -> p.run - 1
    [] OTHER -> Len(rs)

Stages == InRun \union LastPlaces \union {"setup", "write", "close", "written", "collect"}

(* The stages that rank r of program prg gets to. *)
Reaches(r, stage, prg) ==
  /\ stage \in {"gather", "collect"} => prg = "parallel"
  /\ stage = "written" => prg # "parallel"
  /\ stage \in {"metadata", "pass"} => r = 1
  /\ stage \in {"write", "close"} /\ prg = "parallel" => r = 1

Places == [run : Nat, stage : Stages, batch : Batch, layer : Layer]

Placed ==
  /\ at \in [Rank -> Places]
  /\ \A r \in Rank : at[r].stage # "setup" => at[r].run \in 1 .. Len(runs)
  /\ \A r \in Rank : Reaches(r, at[r].stage, program)

Lockstep == \A r, s \in Rank : Heading(at[r], program, runs) = Heading(at[s], program, runs)

Waits == waiting \subseteq Rank /\ \A r \in waiting : at[r].stage \in CollectiveStages

(* Every rank has the rows of the runs it has been through, and none of    *)
(* them came out empty.                                                    *)
Recorded ==
  /\ rows \in [Rank -> Seq({runs[n] : n \in DOMAIN runs})]
  /\ \A r \in Rank :
       /\ rows[r] = [n \in 1 .. RunsDone(at[r], runs) |-> runs[n]]
       /\ program = "parallel" =>
            \A n \in 1 .. RunsDone(at[r], runs) : ~ReceivesNothing(runs[n], r)

(* The counts that were exchanged are those of the run. *)
Exchanged ==
  program = "parallel" =>
    \A r \in Rank : at[r].stage \in DataStages \union {"barrier", "end"} =>
      announced[r] = [s \in Rank |-> SplitVector(ParallelIds(runs[at[r].run], s))]

(* A rank is past its own file only with all rows in it. *)
Kept ==
  /\ files = [r \in Rank |-> files[r]]
  /\ \A r \in Rank : /\ at[r].stage \in LastPlaces \union {"written"}
                     /\ program # "parallel" \/ r = 1
                     => WrittenInFull(r)

(* The metadata of this launch is the last thing rank 1 writes, and has    *)
(* the arguments of this launch.                                           *)
Signed ==
  /\ launch \in Nat \ {0}
  /\ metadata # Absent =>
       /\ metadata.launch \in 1 .. launch
       /\ metadata.launch = launch => at[1].stage \in {"pass", "done"} /\ metadata.args = args
  /\ at[1].stage = "pass" => metadata = [launch |-> launch, readable |-> FALSE, args |-> args]

(* The command line is one that was considered. *)
Launched ==
  /\ program \in Programs
  /\ args \in Arguments(program)
  /\ runs = RunsOf(program, args)

LaunchInv ==
  Launched /\ Placed /\ Lockstep /\ Waits /\ Recorded /\ Exchanged /\ Kept /\ Signed

(* A verdict is about the launch whose metadata it was given. *)
Judged == verdict # Absent => verdict.launch = launch /\ metadata # Absent /\ program # "parallel"

ReviewedInv == LaunchInv /\ Judged
-----------------------------------------------------------------------------
LEMMA Ranks == Rank = 1 .. 4 /\ 1 \in Rank /\ 2 \in Rank /\ 3 \in Rank /\ 4 \in Rank
BY LaunchAssumption DEF Rank, Source

(* There is a first batch and a first layer. *)
LEMMA FirstOnes == 1 \in Batch /\ 1 \in Layer /\ BatchCount \in Nat
<1>1. BatchCount \in Nat \ {0}
  <2>1. NumRequests = (NumRequests \div BatchSize) * BatchSize + (NumRequests % BatchSize)
        /\ NumRequests \div BatchSize \in Nat
    BY PlanAssumption
  <2> QED  BY <2>1, PlanAssumption DEF BatchCount
<1> QED  BY <1>1, PlanAssumption DEF Batch, Layer

LEMMA ProductPositive ==
  ASSUME NEW a \in Nat \ {0}, NEW b \in Nat \ {0}
  PROVE  a * b \in Nat \ {0}
OBVIOUS

(* What the loops of the programs run through is a sequence, and not empty *)
(* unless the command line is refused.                                     *)
LEMMA RunsShape ==
  ASSUME NEW p \in Programs, NEW a \in Arguments(p)
  PROVE  /\ Len(RunsOf(p, a)) \in Nat
         /\ DOMAIN RunsOf(p, a) = 1 .. Len(RunsOf(p, a))
         /\ RunsOf(p, a) = [n \in 1 .. Len(RunsOf(p, a)) |-> RunsOf(p, a)[n]]
         /\ ~Refuses(p, a) => Len(RunsOf(p, a)) # 0
<1>1. CASE Refuses(p, a)
  <2>1. RunsOf(p, a) = <<>>
    BY <1>1 DEF RunsOf
  <2> QED  BY <1>1, <2>1
<1>2. CASE ~Refuses(p, a)
  <2> DEFINE R == a.warmup + a.repetitions
             W == Cardinality(a.positions)
  <2>1. p \in {"gate", "proxy", "parallel"} /\ R \in Nat \ {0} /\ (p # "proxy" => W \in Nat \ {0})
    <3>1. /\ a.warmup \in Nat /\ a.repetitions \in Nat \ {0}
          /\ p # "proxy" => IsFiniteSet(a.positions) /\ a.positions # {}
          /\ p \in {"gate", "proxy", "parallel"}
      BY <1>2, LaunchAssumption
    <3>2. p # "proxy" => W \in Nat \ {0}
      BY <3>1, FS_CardinalityType, FS_EmptySet
    <3> QED  BY <3>1, <3>2
  <2>2. ASSUME NEW K \in Nat \ {0}, NEW f, DOMAIN f = 1 .. K, f = [n \in 1 .. K |-> f[n]]
        PROVE  Len(f) = K
    BY <2>2
  <2>3. CASE p = "gate"
    <3>1. 3 * R * W \in Nat \ {0}
      <4> HIDE DEF R, W
      <4>1. 3 * R \in Nat \ {0}
        BY <2>1
      <4> QED  BY <4>1, <2>1, <2>3, ProductPositive
    <3>2. DOMAIN RunsOf(p, a) = 1 .. 3 * R * W
          /\ RunsOf(p, a) = [n \in 1 .. 3 * R * W |-> RunsOf(p, a)[n]]
      BY <1>2, <2>3 DEF RunsOf, GateRuns
    <3> HIDE DEF R, W
    <3> QED  BY <2>2, <3>1, <3>2
  <2>4. CASE p = "proxy"
    <3>1. Len(RunArms) * R \in Nat \ {0}
      <4>1. Len(RunArms) = 5
        BY DEF RunArms, ControlArms, ConstructedArms
      <4> QED  BY <4>1, <2>1
    <3>2. DOMAIN RunsOf(p, a) = 1 .. Len(RunArms) * R
          /\ RunsOf(p, a) = [n \in 1 .. Len(RunArms) * R |-> RunsOf(p, a)[n]]
      BY <1>2, <2>4 DEF RunsOf, ProxyRuns
    <3> HIDE DEF R, W
    <3> QED  BY <2>2, <3>1, <3>2
  <2>5. CASE p = "parallel"
    <3>1. R * (Len(RoutingModes) * W) \in Nat \ {0}
      <4>1. Len(RoutingModes) = 3
        BY DEF RoutingModes
      <4> HIDE DEF R, W
      <4>2. Len(RoutingModes) * W \in Nat \ {0}
        BY <4>1, <2>1, <2>5
      <4> QED  BY <4>2, <2>1, ProductPositive
    <3>2. DOMAIN RunsOf(p, a) = 1 .. R * (Len(RoutingModes) * W)
          /\ RunsOf(p, a) = [n \in 1 .. R * (Len(RoutingModes) * W) |-> RunsOf(p, a)[n]]
      BY <1>2, <2>5 DEF RunsOf, ParallelRuns
    <3> HIDE DEF R, W
    <3> QED  BY <2>2, <3>1, <3>2
  <2> QED  BY <2>1, <2>3, <2>4, <2>5
<1> QED  BY <1>1, <1>2

(* Within the repetitions of a cell the routes stay the same. *)
LEMMA SameCell ==
  ASSUME NEW n \in Nat \ {0}, NEW R \in Nat \ {0}, ((n % R) + 1) > 1
  PROVE  n \div R = (n - 1) \div R
<1> DEFINE q == n \div R  m == n % R
<1>1. q \in Nat /\ m \in 1 .. R - 1 /\ n = q * R + m
  OBVIOUS
<1> HIDE DEF q, m
<1>2. m - 1 \in 0 .. R - 1 /\ n - 1 = q * R + (m - 1)
  BY <1>1
<1>3. ASSUME NEW a \in Nat, NEW b \in Nat \ {0}, NEW c \in 0 .. b - 1
      PROVE  (a * b + c) \div b = a
  OBVIOUS
<1>4. (q * R + (m - 1)) \div R = q
  BY <1>1, <1>2, <1>3
<1> QED  BY <1>2, <1>4 DEF q

LEMMA SameRoutes ==
  ASSUME NEW x, NEW y, NEW r, x.k = y.k, x.kind = y.kind, x.topK = y.topK
  PROVE  ParallelIds(x, r) = ParallelIds(y, r)
BY Zenon DEF ParallelIds

LEMMA RepetitionRoutes ==
  ASSUME NEW a \in Arguments("parallel"), "parallel" \in Programs, ~Refuses("parallel", a),
         NEW n \in Nat \ {0}, n + 1 \in DOMAIN RunsOf("parallel", a),
         RunsOf("parallel", a)[n + 1].repetition > 1,
         NEW r \in Rank
  PROVE  ParallelIds(RunsOf("parallel", a)[n + 1], r) = ParallelIds(RunsOf("parallel", a)[n], r)
<1> DEFINE R == a.warmup + a.repetitions
           W == Cardinality(a.positions)
           K == R * (Len(RoutingModes) * W)
           run(cell, m) ==
             [k |-> Ascending(a.positions)[(cell % W) + 1],
              kind |-> RoutingModes[(cell \div W) + 1],
              topK |-> a.topK, mode |-> "nccl_real", repetition |-> m, measured |-> m > a.warmup]
           rs == RunsOf("parallel", a)
<1>1. rs = [i \in 1 .. K |-> run((i - 1) \div R, ((i - 1) % R) + 1)]
  BY DEF RunsOf, ParallelRuns
<1>2. R \in Nat \ {0}
  BY LaunchAssumption
<1>3. n + 1 \in 1 .. K
  BY <1>1
<1>4. n \in 1 .. K /\ (n + 1) - 1 = n
  <2>1. K \in Nat
    <3>1. W \in Nat /\ Len(RoutingModes) = 3
      BY LaunchAssumption, FS_CardinalityType DEF RoutingModes
    <3>2. Len(RoutingModes) * W \in Nat
      BY <3>1
    <3> HIDE DEF W, R
    <3> QED  BY <1>2, <3>2
  <2> HIDE DEF K
  <2> QED  BY <1>3, <2>1
<1>5. rs[n + 1] = run(n \div R, (n % R) + 1) /\ rs[n] = run((n - 1) \div R, ((n - 1) % R) + 1)
  <2> HIDE DEF K, R, run
  <2> QED  BY <1>1, <1>3, <1>4
<1>6. n \div R = (n - 1) \div R
  <2>1. ((n % R) + 1) > 1
    BY <1>5
  <2> HIDE DEF R
  <2> QED  BY <1>2, <2>1, SameCell
<1>7. rs[n + 1].k = rs[n].k /\ rs[n + 1].kind = rs[n].kind /\ rs[n + 1].topK = rs[n].topK
  BY <1>5, <1>6
<1> HIDE DEF rs
<1> QED  BY <1>7, SameRoutes DEF rs
-----------------------------------------------------------------------------
(* Where a rank goes from the end of a run: one run further, to the same   *)
(* meeting.                                                                *)
LEMMA AfterEnd ==
  ASSUME NEW prg \in {"gate", "proxy", "parallel"}, NEW rs, Len(rs) \in Nat,
         NEW p \in Places, p.stage = "end", p.run \in 1 .. Len(rs),
         NEW q, q = Following(p, prg, rs)
  PROVE  /\ q \in Places /\ q.run \in 1 .. Len(rs)
         /\ q.stage \in IF prg = "parallel" THEN {"gather", "barrier", "collect"} ELSE {"barrier", "write"}
         /\ Heading(q, prg, rs) = Heading(p, prg, rs)
         /\ RunsDone(p, rs) = p.run - 1 /\ RunsDone(q, rs) = p.run
         /\ prg = "parallel" /\ q.stage = "barrier" =>
              q.run = p.run + 1 /\ rs[q.run].repetition > 1
<1>1. CASE prg = "parallel"
  <2>1. q = IF p.run = Len(rs) THEN [p EXCEPT !.stage = "collect"]
            ELSE IF rs[p.run + 1].repetition > 1 THEN Place(p.run + 1, "barrier", 1, 1)
            ELSE ParallelStart(p.run + 1)
    BY <1>1 DEF Following, ParallelAfter
  <2>2. /\ q \in Places /\ q.run \in 1 .. Len(rs) /\ q.stage \in {"gather", "barrier", "collect"}
        /\ q.stage = "collect" => p.run = Len(rs)
        /\ q.stage # "collect" => q.run = p.run + 1
        /\ q.stage = "barrier" => rs[q.run].repetition > 1
    BY <2>1, FirstOnes DEF Places, Place, ParallelStart, Stages, InRun, DataStages
  <2>3. Heading(q, prg, rs) = q
    BY <2>2, <1>1 DEF Heading, LastPlaces
  <2>4. Heading(p, prg, rs) = q
    BY <2>2, <1>1 DEF Heading, LastPlaces
  <2>5. RunsDone(p, rs) = p.run - 1 /\ RunsDone(q, rs) = p.run
    BY <2>2 DEF RunsDone, InRun, DataStages, Places
  <2> QED  BY <1>1, <2>2, <2>3, <2>4, <2>5
<1>2. CASE prg # "parallel"
  <2>1. q = IF p.run < Len(rs) THEN Place(p.run + 1, "barrier", 1, 1) ELSE Place(p.run, "write", 1, 1)
    BY <1>2 DEF Following, GateAfter
  <2>2. /\ q \in Places /\ q.run \in 1 .. Len(rs) /\ q.stage \in {"barrier", "write"}
        /\ q.stage = "write" => p.run = Len(rs)
        /\ q.stage # "write" => q.run = p.run + 1
    BY <2>1, FirstOnes DEF Places, Place, Stages, InRun, DataStages
  <2>3. Heading(q, prg, rs) = IF q.stage = "write" THEN [q EXCEPT !.stage = "written"] ELSE q
    BY <2>2, <1>2 DEF Heading, LastPlaces
  <2>4. Heading(p, prg, rs) = IF q.stage = "write" THEN [q EXCEPT !.stage = "written"] ELSE q
    BY <1>2 DEF Heading, LastPlaces
  <2>5. RunsDone(p, rs) = p.run - 1 /\ RunsDone(q, rs) = p.run
    BY <2>2 DEF RunsDone, InRun, DataStages, Places
  <2> QED  BY <1>2, <2>2, <2>3, <2>4, <2>5
<1> QED  BY <1>1, <1>2

(* Within a run a rank goes from one collective to the next. *)
LEMMA AfterMeeting ==
  ASSUME NEW prg \in {"gate", "proxy", "parallel"}, NEW rs, Len(rs) \in Nat,
         NEW p \in Places, p.run \in 1 .. Len(rs),
         p.stage \in DataStages \union {"gather", "barrier"}, p.stage = "gather" => prg = "parallel",
         NEW q, q = Following(p, prg, rs)
  PROVE  /\ q \in Places /\ q.run = p.run
         /\ q.stage \in DataStages \union {"barrier", "end"}
         /\ q.stage = "barrier" <=> p.stage = "gather"
         /\ RunsDone(q, rs) = RunsDone(p, rs)
<1>1. CASE prg = "parallel"
  <2>1. \E stage \in DataStages \union {"barrier", "end"} :
          q = [p EXCEPT !.stage = stage] /\ (stage = "barrier" <=> p.stage = "gather")
    BY <1>1 DEF Following, ParallelAfter, DataStages
  <2> QED  BY <2>1 DEF Places, Stages, InRun, DataStages, RunsDone
<1>2. CASE prg # "parallel"
  <2> DEFINE mode == rs[p.run].mode
  <2>1. q = GateAfter(p, mode, Len(rs))
    BY <1>2 DEF Following
  <2>2. p.stage \in {"barrier", "hidden", "ids", "combine"} /\ p.layer \in Layer /\ p.batch \in Batch
    BY <1>2 DEF Places, DataStages
  <2> HIDE DEF mode
  <2>3. CASE p.stage = "barrier"
    BY <2>1, <2>3, FirstOnes DEF GateAfter, Place, Places, Stages, InRun, DataStages, RunsDone
  <2>4. CASE p.stage \in {"hidden", "ids"}
    BY <2>1, <2>4 DEF GateAfter, Places, Stages, InRun, DataStages, RunsDone
  <2>5. CASE p.stage = "combine"
    <3>1. CASE p.layer < NumLayers
      <4>1. q = Place(p.run, "hidden", p.batch, p.layer + 1) /\ p.layer + 1 \in Layer
        BY <2>1, <2>2, <2>5, <3>1, PlanAssumption DEF GateAfter, Layer
      <4> QED  BY <2>5, <4>1 DEF Place, Places, Stages, InRun, DataStages, RunsDone
    <3>2. CASE p.layer = NumLayers /\ p.batch < BatchCount
      <4>1. q = Place(p.run, "hidden", p.batch + 1, 1)
        BY <2>1, <2>5, <3>2, FirstOnes, PlanAssumption DEF GateAfter
      <4>2. p.batch + 1 \in Batch
        BY <2>2, <3>2, FirstOnes DEF Batch
      <4> QED  BY <2>5, <4>1, <4>2, FirstOnes DEF Place, Places, Stages, InRun, DataStages, RunsDone
    <3>3. CASE p.layer = NumLayers /\ p.batch = BatchCount
      <4>1. q = Place(p.run, "end", 1, 1)
        BY <2>1, <2>2, <2>5, <3>3, PlanAssumption DEF GateAfter
      <4> QED  BY <2>5, <4>1, FirstOnes DEF Place, Places, Stages, InRun, DataStages, RunsDone
    <3> QED  BY <2>2, <3>1, <3>2, <3>3, FirstOnes, PlanAssumption DEF Layer, Batch
  <2> QED  BY <2>2, <2>3, <2>4, <2>5
<1> QED  BY <1>1, <1>2

LEMMA ProgramKinds == Launched => program \in {"gate", "proxy", "parallel"}
BY LaunchAssumption DEF Launched

LEMMA AfterIs ==
  ASSUME Launched, NEW r \in Rank
  PROVE  After(r) = Following(at[r], program, runs)
BY ProgramKinds DEF After, Following, ProxyAfter, Mode, RunOf

LEMMA RunsLength ==
  ASSUME Launched
  PROVE  /\ Len(runs) \in Nat /\ DOMAIN runs = 1 .. Len(runs)
         /\ runs = [n \in 1 .. Len(runs) |-> runs[n]]
         /\ ~Refuses(program, args) => Len(runs) # 0
BY RunsShape DEF Launched
-----------------------------------------------------------------------------
(* A rank that goes on alone towards the same meeting leaves the others    *)
(* where they are.                                                         *)
LEMMA MoveKeeps ==
  ASSUME Launched, Placed, Lockstep, Waits,
         NEW r \in Rank, r \notin waiting,
         NEW q \in Places, q.stage # "setup" => q.run \in 1 .. Len(runs),
         Reaches(r, q.stage, program),
         Heading(q, program, runs) = Heading(at[r], program, runs),
         at' = [at EXCEPT ![r] = q],
         UNCHANGED <<program, args, runs, waiting>>
  PROVE  Launched' /\ Placed' /\ Lockstep' /\ Waits'
<1>1. \A s \in Rank : at'[s] = IF s = r THEN q ELSE at[s]
  BY DEF Placed
<1>2. Launched'
  BY DEF Launched
<1>3. Placed'
  BY <1>1 DEF Placed
<1>4. Lockstep'
  <2>1. \A s \in Rank : Heading(at'[s], program, runs) = Heading(at[s], program, runs)
    BY <1>1
  <2> QED  BY <2>1 DEF Lockstep
<1>5. Waits'
  BY <1>1 DEF Waits
<1> QED  BY <1>2, <1>3, <1>4, <1>5

(* Only rank r has been through another run, or none has. *)
LEMMA RecordedKept ==
  ASSUME Recorded, NEW r \in Rank, Placed,
         NEW q, at' = [at EXCEPT ![r] = q],
         RunsDone(q, runs) = RunsDone(at[r], runs),
         UNCHANGED <<program, runs, rows>>
  PROVE  Recorded'
<1>1. \A s \in Rank : RunsDone(at'[s], runs) = RunsDone(at[s], runs)
  BY DEF Placed
<1> QED  BY <1>1 DEF Recorded

LEMMA ExchangedKept ==
  ASSUME Exchanged, NEW r \in Rank, Placed,
         NEW q, at' = [at EXCEPT ![r] = q],
         program = "parallel" => q.stage \notin DataStages \union {"barrier", "end"},
         UNCHANGED <<program, runs, announced>>
  PROVE  Exchanged'
<1>1. \A s \in Rank : at'[s] = IF s = r THEN q ELSE at[s]
  BY DEF Placed
<1> QED  BY <1>1 DEF Exchanged

LEMMA KeptKept ==
  ASSUME Kept, NEW r \in Rank, Placed,
         NEW q, at' = [at EXCEPT ![r] = q],
         q.stage \in LastPlaces \union {"written"} => at[r].stage \in LastPlaces \union {"written"},
         UNCHANGED <<program, runs, launch, files>>
  PROVE  Kept'
<1>1. \A s \in Rank : at'[s] = IF s = r THEN q ELSE at[s]
  BY DEF Placed
<1>2. \A s \in Rank : WrittenInFull(s)' <=> WrittenInFull(s)
  BY DEF WrittenInFull
<1> QED  BY <1>1, <1>2 DEF Kept

LEMMA SignedKept ==
  ASSUME Signed, NEW r \in Rank, Placed,
         NEW q, at' = [at EXCEPT ![r] = q],
         q.stage # "pass", at[r].stage \notin {"pass", "done"},
         UNCHANGED <<launch, args, metadata>>
  PROVE  Signed'
<1>1. at'[1] = IF 1 = r THEN q ELSE at[1]
  BY Ranks DEF Placed
<1> QED  BY <1>1 DEF Signed

(* What an action that moves nobody keeps. *)
LEMMA StandingKeeps ==
  ASSUME LaunchInv, waiting' \subseteq Rank, \A r \in waiting' : at[r].stage \in CollectiveStages,
         UNCHANGED <<program, args, runs, launch, at, announced, rows, files, metadata>>
  PROVE  LaunchInv'
<1>1. Launched' /\ Placed'
  BY DEF LaunchInv, Launched, Placed
<1>2. Lockstep' /\ Waits'
  BY DEF LaunchInv, Lockstep, Waits
<1>3. Recorded' /\ Exchanged'
  BY DEF LaunchInv, Recorded, Exchanged
<1>4. Kept' /\ Signed'
  BY DEF LaunchInv, Kept, WrittenInFull, Signed
<1> QED  BY <1>1, <1>2, <1>3, <1>4 DEF LaunchInv

LEMMA StandingActions ==
  ASSUME LaunchInv, NEW r \in Rank,
         \/ Join(r) \/ RaiseUnroutable(r) \/ RaiseAfterRun(r) \/ Exit(r) \/ Refuse(r) \/ FailWriting(r)
         \/ Terminate
  PROVE  LaunchInv'
<1>1. UNCHANGED <<program, args, runs, launch, at, announced, rows, files, metadata>>
  BY DEF Join, RaiseUnroutable, RaiseAfterRun, Exit, Refuse, FailWriting, Terminate, directory
<1>2. waiting' \subseteq Rank /\ \A s \in waiting' : at[s].stage \in CollectiveStages
  BY DEF Join, RaiseUnroutable, RaiseAfterRun, Exit, Refuse, FailWriting, Terminate, LaunchInv, Waits
<1> QED  BY <1>1, <1>2, StandingKeeps

LEMMA RecordKeeps ==
  ASSUME LaunchInv, NEW r \in Rank, RecordRun(r)
  PROVE  LaunchInv'
<1> DEFINE p == at[r]
           q == Following(p, program, runs)
<1>1. /\ p.stage = "end" /\ r \notin waiting /\ ~EmptyRank(r)
      /\ rows' = [rows EXCEPT ![r] = Append(@, RunOf(r))]
      /\ UNCHANGED <<program, args, runs, launch, waiting, announced, files, metadata>>
  BY DEF RecordRun, Computes, directory
<1>2. Launched /\ Placed /\ Lockstep /\ Waits /\ Recorded /\ Exchanged /\ Kept /\ Signed
  BY DEF LaunchInv
<1>3. at' = [at EXCEPT ![r] = q]
  BY <1>2, AfterIs DEF RecordRun
<1>4. p \in Places /\ p.run \in 1 .. Len(runs)
  BY <1>1, <1>2 DEF Placed
<1>5. /\ q \in Places /\ q.run \in 1 .. Len(runs)
      /\ q.stage \in IF program = "parallel" THEN {"gather", "barrier", "collect"} ELSE {"barrier", "write"}
      /\ Heading(q, program, runs) = Heading(p, program, runs)
      /\ RunsDone(p, runs) = p.run - 1 /\ RunsDone(q, runs) = p.run
      /\ program = "parallel" /\ q.stage = "barrier" =>
           q.run = p.run + 1 /\ runs[q.run].repetition > 1
  BY <1>1, <1>2, <1>4, AfterEnd, ProgramKinds, RunsLength
<1> HIDE DEF q
<1>6. Launched' /\ Placed' /\ Lockstep' /\ Waits'
  <2>1. Reaches(r, q.stage, program)
    BY <1>5 DEF Reaches
  <2> QED  BY <1>1, <1>2, <1>3, <1>5, <2>1, MoveKeeps
<1>7. Recorded'
  <2>1. \A s \in Rank : RunsDone(at'[s], runs) = IF s = r THEN p.run ELSE RunsDone(at[s], runs)
    BY <1>2, <1>3, <1>5 DEF Placed
  <2>2. RunOf(r) = runs[p.run] /\ runs[p.run] \in {runs[n] : n \in DOMAIN runs}
    BY <1>2, <1>4, RunsLength DEF RunOf
  <2>3. rows[r] = [n \in 1 .. p.run - 1 |-> runs[n]] /\ rows[r] \in Seq({runs[n] : n \in DOMAIN runs})
    BY <1>2, <1>5 DEF Recorded
  <2>4. Append(rows[r], runs[p.run]) = [n \in 1 .. p.run |-> runs[n]]
    <3>1. p.run \in Nat \ {0}
      BY <1>4
    <3>2. Len(rows[r]) = p.run - 1
      BY <2>3, <3>1
    <3> QED  BY <2>2, <2>3, <3>1, <3>2
  <2>5. rows' = [rows EXCEPT ![r] = [n \in 1 .. p.run |-> runs[n]]]
    BY <1>1, <2>2, <2>4
  <2>6. [n \in 1 .. p.run |-> runs[n]] \in Seq({runs[n] : n \in DOMAIN runs})
    <3>1. ASSUME NEW S, NEW old \in Seq(S), NEW run \in S
          PROVE  Append(old, run) \in Seq(S)
      OBVIOUS
    <3>2. Append(rows[r], runs[p.run]) \in Seq({runs[n] : n \in DOMAIN runs})
      BY <2>2, <2>3, <3>1, Zenon
    <3> QED  BY <2>4, <3>2, Zenon
  <2>7. rows' \in [Rank -> Seq({runs[n] : n \in DOMAIN runs})]
    BY <1>2, <2>5, <2>6 DEF Recorded
  <2>8. ASSUME NEW s \in Rank
        PROVE  rows'[s] = [n \in 1 .. RunsDone(at'[s], runs) |-> runs[n]]
    BY <1>2, <2>1, <2>5 DEF Recorded
  <2>9. ASSUME NEW s \in Rank, program = "parallel", NEW n \in 1 .. RunsDone(at'[s], runs)
        PROVE  ~ReceivesNothing(runs[n], s)
    <3>1. CASE s = r /\ n = p.run
      BY <1>1, <2>2, <2>9, <3>1 DEF EmptyRank
    <3>2. CASE ~(s = r /\ n = p.run)
      <4>1. n \in 1 .. RunsDone(at[s], runs)
        BY <1>4, <1>5, <2>1, <3>2
      <4> QED  BY <1>2, <2>9, <4>1 DEF Recorded
    <3> QED  BY <3>1, <3>2
  <2> QED  BY <1>1, <2>7, <2>8, <2>9 DEF Recorded
<1>8. Exchanged'
  <2> SUFFICES ASSUME program = "parallel", NEW s \in Rank,
                      at'[s].stage \in DataStages \union {"barrier", "end"}
               PROVE  announced[s] = [d \in Rank |-> SplitVector(ParallelIds(runs[at'[s].run], d))]
    BY <1>1 DEF Exchanged
  <2>1. CASE s # r
    BY <1>2, <1>3, <2>1 DEF Exchanged, Placed
  <2>2. CASE s = r
    <3>1. at'[s] = q
      BY <1>2, <1>3, <2>2 DEF Placed
    <3>2. q.run = p.run + 1 /\ runs[q.run].repetition > 1
      BY <1>5, <3>1 DEF DataStages
    <3>3. announced[s] = [d \in Rank |-> SplitVector(ParallelIds(runs[p.run], d))]
      BY <1>1, <1>2, <2>2 DEF Exchanged
    <3>4. ~Refuses(program, args)
      <4>1. Len(runs) # 0
        BY <1>2, <1>4, RunsLength
      <4>2. Refuses(program, args) => Len(runs) = 0
        BY <1>2 DEF Launched, RunsOf
      <4> QED  BY <4>1, <4>2
    <3>5. ASSUME NEW d \in Rank
          PROVE  ParallelIds(runs[q.run], d) = ParallelIds(runs[p.run], d)
      <4>1. p.run \in Nat \ {0} /\ p.run + 1 \in DOMAIN runs
        BY <1>2, <1>4, <1>5, <3>2, RunsLength
      <4> QED  BY <1>2, <3>2, <3>4, <4>1, RepetitionRoutes DEF Launched
    <3> QED  BY <3>1, <3>3, <3>5
  <2> QED  BY <2>1, <2>2
<1>9. Kept'
  <2>1. q.stage \notin LastPlaces \union {"written"}
    BY <1>5 DEF LastPlaces
  <2> QED  BY <1>1, <1>2, <1>3, <2>1, KeptKept
<1>10. Signed'
  <2>1. q.stage # "pass" /\ p.stage \notin {"pass", "done"}
    BY <1>1, <1>5
  <2> QED  BY <1>1, <1>2, <1>3, <2>1, SignedKept
<1> QED  BY <1>6, <1>7, <1>8, <1>9, <1>10 DEF LaunchInv
LEMMA WriteKeeps ==
  ASSUME LaunchInv, NEW r \in Rank, OpenFile(r) \/ CloseFile(r)
  PROVE  LaunchInv'
<1> DEFINE p == at[r]
<1>1. Launched /\ Placed /\ Lockstep /\ Waits /\ Recorded /\ Exchanged /\ Kept /\ Signed
  BY DEF LaunchInv
<1>2. /\ r \notin waiting
      /\ UNCHANGED <<program, args, runs, launch, waiting, announced, rows, metadata>>
  BY DEF OpenFile, CloseFile, Computes
<1>3. p \in Places /\ p.stage \in {"write", "close"} /\ Reaches(r, p.stage, program) /\ p.run \in 1 .. Len(runs)
  BY <1>1 DEF OpenFile, CloseFile, Computes, Placed
<1>4. PICK stage \in {"close", "metadata", "written"} :
        /\ at' = [at EXCEPT ![r].stage = stage]
        /\ stage = "metadata" => program = "parallel"
        /\ stage = "written" => program # "parallel"
        /\ stage # "close" => CloseFile(r) /\ p.stage = "close"
  BY DEF OpenFile, CloseFile, Computes
<1> DEFINE q == [p EXCEPT !.stage = stage]
<1>5. /\ at' = [at EXCEPT ![r] = q] /\ q \in Places /\ q.run \in 1 .. Len(runs) /\ q.stage = stage
  BY <1>1, <1>3, <1>4 DEF Placed, Places, Stages, InRun, LastPlaces
<1>6. /\ Heading(q, program, runs) = Heading(p, program, runs)
      /\ RunsDone(q, runs) = RunsDone(p, runs) /\ RunsDone(p, runs) = Len(runs)
  BY <1>3, <1>4 DEF Heading, LastPlaces, RunsDone, InRun, DataStages, Places
<1>7. Reaches(r, q.stage, program)
  BY <1>3, <1>4, <1>5 DEF Reaches
<1> HIDE DEF q
<1>8. Launched' /\ Placed' /\ Lockstep' /\ Waits'
  BY <1>1, <1>2, <1>5, <1>6, <1>7, MoveKeeps
<1>9. Recorded'
  BY <1>1, <1>2, <1>5, <1>6, RecordedKept
<1>10. Exchanged'
  <2>1. q.stage \notin DataStages \union {"barrier", "end"}
    BY <1>5 DEF DataStages
  <2> QED  BY <1>1, <1>2, <1>5, <2>1, ExchangedKept
<1>11. Kept'
  <2>1. files' = [s \in Rank |-> files'[s]] /\ \A s \in Rank \ {r} : files'[s] = files[s]
    BY <1>1 DEF OpenFile, CloseFile, Kept
  <2>2. ASSUME NEW s \in Rank, s # r,
               at'[s].stage \in LastPlaces \union {"written"}, (program # "parallel" \/ s = 1)'
        PROVE  WrittenInFull(s)'
    <3>1. at'[s] = at[s] /\ WrittenInFull(s)
      BY <1>1, <1>2, <1>5, <2>2 DEF Placed, Kept
    <3> QED  BY <1>2, <2>1, <2>2, <3>1 DEF WrittenInFull
  <2>3. ASSUME at'[r].stage \in LastPlaces \union {"written"}
        PROVE  WrittenInFull(r)'
    <3>1. stage # "close" /\ CloseFile(r)
      BY <1>1, <1>4, <1>5, <2>3 DEF Placed, LastPlaces
    <3>2. files'[r] = [launch |-> launch, rows |-> RowsOf(r)]
      BY <1>1, <3>1 DEF CloseFile, Kept
    <3>3. RowsOf(r) = IF program = "parallel" THEN runs \o runs \o runs \o runs ELSE runs
      <4>1. ASSUME NEW s \in Rank, RunsDone(at[s], runs) = Len(runs)
            PROVE  rows[s] = runs
        BY <1>1, <4>1, RunsLength DEF Recorded
      <4>2. CASE program # "parallel"
        BY <1>6, <4>1, <4>2 DEF RowsOf
      <4>3. CASE program = "parallel"
        <5>1. ASSUME NEW s \in Rank
              PROVE  RunsDone(at[s], runs) = Len(runs)
          <6>1. Heading(at[s], program, runs) = Place(0, "over", 0, 0)
            BY <1>1, <1>3, <4>3 DEF Lockstep, Heading, LastPlaces
          <6>2. at[s] \in Places /\ (at[s].stage # "setup" => at[s].run \in 1 .. Len(runs))
            BY <1>1 DEF Placed
          <6>3. at[s].stage # "end"
            <7> SUFFICES ASSUME at[s].stage = "end"  PROVE FALSE
              OBVIOUS
            <7>1. /\ Following(at[s], program, runs).stage \in {"gather", "barrier", "collect"}
                  /\ Heading(at[s], program, runs) = Following(at[s], program, runs)
              <8>1. Following(at[s], program, runs).stage \in {"gather", "barrier", "collect"}
                BY <1>1, <4>3, <6>2, AfterEnd, RunsLength
              <8> QED  BY <8>1 DEF Heading, LastPlaces
            <7> QED  BY <6>1, <7>1 DEF Place
          <6>4. at[s].stage \notin (InRun \ {"end"}) \union {"setup"}
            <7> SUFFICES ASSUME at[s].stage \in (InRun \ {"end"}) \union {"setup"}  PROVE FALSE
              OBVIOUS
            <7>1. Heading(at[s], program, runs) = at[s]
              BY DEF Heading, LastPlaces, InRun, DataStages
            <7> QED  BY <6>1, <7>1 DEF Place, InRun, DataStages
          <6> QED  BY <6>3, <6>4 DEF RunsDone, InRun
        <5> QED  BY <4>1, <4>3, <5>1, Ranks DEF RowsOf
      <4> QED  BY <4>2, <4>3
    <3> QED  BY <1>2, <3>2, <3>3 DEF WrittenInFull
  <2> QED  BY <1>2, <2>1, <2>2, <2>3 DEF Kept
<1>12. Signed'
  <2>1. q.stage # "pass" /\ p.stage \notin {"pass", "done"}
    BY <1>3, <1>4, <1>5
  <2> QED  BY <1>1, <1>2, <1>5, <2>1, SignedKept
<1> QED  BY <1>8, <1>9, <1>10, <1>11, <1>12 DEF LaunchInv

LEMMA SignKeeps ==
  ASSUME LaunchInv, NEW r \in Rank, OpenMetadata(r) \/ PrintPass(r)
  PROVE  LaunchInv'
<1> DEFINE p == at[r]
<1>1. Launched /\ Placed /\ Lockstep /\ Waits /\ Recorded /\ Exchanged /\ Kept /\ Signed
  BY DEF LaunchInv
<1>2. /\ r \notin waiting
      /\ UNCHANGED <<program, args, runs, launch, waiting, announced, rows, files>>
  BY DEF OpenMetadata, PrintPass, Computes
<1>3. p \in Places /\ p.stage \in {"metadata", "pass"} /\ Reaches(r, p.stage, program) /\ p.run \in 1 .. Len(runs)
  BY <1>1 DEF OpenMetadata, PrintPass, Computes, Placed
<1>4. PICK stage \in {"pass", "done"} :
        /\ at' = [at EXCEPT ![r].stage = stage]
        /\ stage = "pass" => OpenMetadata(r)
        /\ stage = "done" => PrintPass(r) /\ p.stage = "pass"
  BY DEF OpenMetadata, PrintPass, Computes
<1> DEFINE q == [p EXCEPT !.stage = stage]
<1>5. /\ at' = [at EXCEPT ![r] = q] /\ q \in Places /\ q.run \in 1 .. Len(runs) /\ q.stage = stage
  BY <1>1, <1>3, <1>4 DEF Placed, Places, Stages, InRun, LastPlaces
<1>6. /\ Heading(q, program, runs) = Heading(p, program, runs)
      /\ RunsDone(q, runs) = RunsDone(p, runs)
  BY <1>3, <1>4 DEF Heading, LastPlaces, RunsDone, InRun, DataStages, Places
<1>7. r = 1 /\ Reaches(r, q.stage, program)
  BY <1>3, <1>4, <1>5 DEF Reaches
<1> HIDE DEF q
<1>8. Launched' /\ Placed' /\ Lockstep' /\ Waits'
  BY <1>1, <1>2, <1>5, <1>6, <1>7, MoveKeeps
<1>9. Recorded'
  BY <1>1, <1>2, <1>5, <1>6, RecordedKept
<1>10. Exchanged'
  <2>1. q.stage \notin DataStages \union {"barrier", "end"}
    BY <1>5 DEF DataStages
  <2> QED  BY <1>1, <1>2, <1>5, <2>1, ExchangedKept
<1>11. Kept'
  <2>1. p.stage \in LastPlaces
    BY <1>3 DEF LastPlaces
  <2> QED  BY <1>1, <1>2, <1>5, <2>1, KeptKept
<1>12. Signed'
  <2>1. at'[1].stage = stage /\ launch' = launch /\ args' = args /\ launch \in Nat
    BY <1>1, <1>2, <1>5, <1>7 DEF Placed, Signed
  <2>2. CASE stage = "pass"
    <3>1. metadata' = [launch |-> launch, readable |-> FALSE, args |-> args]
      BY <1>4, <2>2 DEF OpenMetadata
    <3>2. launch \in 1 .. launch
      BY <1>1 DEF Signed
    <3> QED  BY <2>1, <2>2, <3>1, <3>2 DEF Signed
  <2>3. CASE stage = "done"
    <3>1. metadata = [launch |-> launch, readable |-> FALSE, args |-> args]
      BY <1>1, <1>4, <1>7, <2>3 DEF Signed
    <3>2. metadata' = [launch |-> launch, readable |-> TRUE, args |-> args]
      BY <1>4, <2>3, <3>1 DEF PrintPass
    <3>3. launch \in 1 .. launch
      BY <1>1 DEF Signed
    <3> QED  BY <2>1, <2>3, <3>2, <3>3 DEF Signed
  <2> QED  BY <2>2, <2>3
<1> QED  BY <1>8, <1>9, <1>10, <1>11, <1>12 DEF LaunchInv
(* The ranks leave a collective together, each for the same next one.      *)
LEMMA CompleteKeeps ==
  ASSUME LaunchInv, Complete
  PROVE  LaunchInv'
<1> DEFINE p == at[1]
<1>1. Launched /\ Placed /\ Lockstep /\ Waits /\ Recorded /\ Exchanged /\ Kept /\ Signed
  BY DEF LaunchInv
<1>2. /\ waiting = Rank /\ waiting' = {} /\ at' = [r \in Rank |-> Leaving(r)]
      /\ announced' = IF p.stage = "gather" THEN [r \in Rank |-> [s \in Rank |-> Send(s)]] ELSE announced
      /\ UNCHANGED <<program, args, runs, launch, rows, files, metadata>>
  BY DEF Complete, directory
<1>3. p \in Places /\ p.stage \in CollectiveStages /\ p.stage # "setup" /\ p.run \in 1 .. Len(runs)
  BY <1>1, <1>2, Ranks DEF Waits, Placed, CollectiveStages, DataStages
<1>4. ASSUME NEW r \in Rank
      PROVE  at[r] = p
  <2>1. \A s \in Rank : at[s].stage \in CollectiveStages
    BY <1>1, <1>2 DEF Waits
  <2>2. \A s \in Rank : Heading(at[s], program, runs) = at[s]
    BY <2>1 DEF Heading, CollectiveStages, DataStages, LastPlaces
  <2> QED  BY <1>1, <2>2, Ranks DEF Lockstep
<1>5. Launched'
  BY <1>1, <1>2 DEF Launched
<1>6. Waits'
  BY <1>2 DEF Waits
<1>7. CASE p.stage \in {"written", "collect"}
  <2>1. ASSUME NEW r \in Rank
        PROVE  /\ at'[r] \in Places /\ at'[r].run = p.run
               /\ at'[r].stage \in {"metadata", "done", "write"}
               /\ Reaches(r, at'[r].stage, program)
               /\ at'[r].stage = "write" => program = "parallel"
               /\ p.stage = "collect" => program = "parallel"
               /\ Heading(at'[r], program, runs) = Place(0, "over", 0, 0)
               /\ RunsDone(at'[r], runs) = RunsDone(p, runs)
               /\ at'[r].stage \in LastPlaces => p.stage = "written" \/ r # 1
               /\ at'[r].stage # "pass" /\ at[r].stage \notin {"pass", "done"}
    <3>1. Reaches(1, p.stage, program)
      BY <1>1, Ranks DEF Placed
    <3>2. at'[r] = Leaving(r) /\ at[r] = p
      BY <1>2, <1>4
    <3>3. \/ at'[r] = [p EXCEPT !.stage = "metadata"] /\ r = 1 /\ p.stage = "written"
          \/ at'[r] = [p EXCEPT !.stage = "done"] /\ r # 1
          \/ at'[r] = [p EXCEPT !.stage = "write"] /\ r = 1 /\ p.stage = "collect"
      BY <1>7, <3>2 DEF Leaving
    <3> QED  BY <1>3, <1>7, <3>1, <3>2, <3>3
             DEF Places, Stages, InRun, LastPlaces, Reaches, Heading, RunsDone, DataStages
  <2>2. Placed' /\ Lockstep'
    BY <1>2, <1>3, <2>1 DEF Placed, Lockstep
  <2>3. Recorded'
    BY <1>1, <1>2, <1>4, <2>1 DEF Recorded
  <2>4. Exchanged'
    BY <1>2, <2>1 DEF Exchanged, DataStages
  <2>5. Kept'
    <3>1. \A s \in Rank : WrittenInFull(s)' <=> WrittenInFull(s)
      BY <1>2 DEF WrittenInFull
    <3>2. files' = [s \in Rank |-> files'[s]]
      BY <1>1, <1>2 DEF Kept
    <3>3. ASSUME NEW s \in Rank, at'[s].stage \in LastPlaces \union {"written"}, program # "parallel" \/ s = 1
          PROVE  WrittenInFull(s)
      <4>1. p.stage = "written"
        BY <1>7, <2>1, <3>3
      <4> QED  BY <1>1, <1>4, <3>3, <4>1 DEF Kept
    <3> QED  BY <1>2, <3>1, <3>2, <3>3 DEF Kept
  <2>6. Signed'
    BY <1>1, <1>2, <2>1, Ranks DEF Signed
  <2> QED  BY <1>5, <1>6, <2>2, <2>3, <2>4, <2>5, <2>6 DEF LaunchInv
<1>8. CASE p.stage \notin {"written", "collect"}
  <2> DEFINE q == Following(p, program, runs)
  <2>1. p.stage \in DataStages \union {"gather", "barrier"} /\ (p.stage = "gather" => program = "parallel")
    BY <1>1, <1>3, <1>8, Ranks DEF CollectiveStages, Placed, Reaches
  <2>2. /\ q \in Places /\ q.run = p.run
        /\ q.stage \in DataStages \union {"barrier", "end"}
        /\ q.stage = "barrier" <=> p.stage = "gather"
        /\ RunsDone(q, runs) = RunsDone(p, runs)
    BY <1>1, <1>3, <2>1, AfterMeeting, ProgramKinds, RunsLength
  <2>3. \A r \in Rank : at'[r] = q
    BY <1>1, <1>2, <1>4, <1>8, AfterIs DEF Leaving
  <2> HIDE DEF q
  <2>4. Placed' /\ Lockstep'
    <3>1. \A r \in Rank : Reaches(r, q.stage, program)
      BY <2>2 DEF Reaches, DataStages
    <3> QED  BY <1>2, <1>3, <2>2, <2>3, <3>1 DEF Placed, Lockstep
  <2>5. Recorded'
    BY <1>1, <1>2, <1>4, <2>2, <2>3 DEF Recorded
  <2>6. Exchanged'
    <3> SUFFICES ASSUME program = "parallel", NEW r \in Rank
                 PROVE  announced'[r] = [s \in Rank |-> SplitVector(ParallelIds(runs[p.run], s))]
      BY <1>2, <2>2, <2>3 DEF Exchanged
    <3>1. CASE p.stage = "gather"
      <4>1. ASSUME NEW s \in Rank
            PROVE  Send(s) = SplitVector(ParallelIds(runs[p.run], s))
        BY <1>4 DEF Send, Ids, RunOf
      <4> QED  BY <1>2, <3>1, <4>1
    <3>2. CASE p.stage # "gather"
      <4>1. p.stage \in DataStages \union {"barrier", "end"} /\ announced' = announced
        BY <1>2, <2>1, <3>2
      <4> QED  BY <1>1, <1>4, <4>1 DEF Exchanged
    <3> QED  BY <3>1, <3>2
  <2>7. Kept'
    BY <1>1, <1>2, <2>2, <2>3 DEF Kept, LastPlaces, DataStages
  <2>8. Signed'
    <3>1. at'[1].stage \notin {"pass", "done"} /\ p.stage \notin {"pass", "done"}
      BY <2>1, <2>2, <2>3, Ranks DEF DataStages
    <3> QED  BY <1>1, <1>2, <3>1 DEF Signed
  <2> QED  BY <1>5, <1>6, <2>4, <2>5, <2>6, <2>7, <2>8 DEF LaunchInv
<1> QED  BY <1>7, <1>8

(* All processes start at one place. *)
LEMMA StartsPlaced ==
  ASSUME NEW p \in Programs, NEW a \in Arguments(p), NEW q, q = FirstStage(p, a),
         NEW rs, rs = RunsOf(p, a)
  PROVE  /\ q \in Places /\ (q.stage # "setup" => q.run \in 1 .. Len(rs))
         /\ \A r \in Rank : Reaches(r, q.stage, p)
         /\ q.stage \in {"setup", "gather", "barrier"} /\ (q.stage = "barrier" => p # "parallel")
         /\ RunsDone(q, rs) = 0
<1>1. Len(rs) \in Nat /\ (~Refuses(p, a) => Len(rs) # 0)
  BY RunsShape
<1>2. \/ q = Place(1, "setup", 1, 1)
      \/ q = Place(1, "gather", 1, 1) /\ p = "parallel" /\ Len(rs) # 0
      \/ q = Place(1, "barrier", 1, 1) /\ p # "parallel" /\ Len(rs) # 0
  BY <1>1 DEF FirstStage, ParallelStart
<1> QED  BY <1>1, <1>2, FirstOnes DEF Place, Places, Stages, InRun, RunsDone, Reaches

LEMMA InitLaunch == Init => LaunchInv
<1> SUFFICES ASSUME Init  PROVE LaunchInv
  OBVIOUS
<1> DEFINE q == FirstStage(program, args)
<1>1. Launched
  BY DEF Init, Launched
<1>2. /\ q \in Places /\ (q.stage # "setup" => q.run \in 1 .. Len(runs))
      /\ \A r \in Rank : Reaches(r, q.stage, program)
      /\ q.stage \in {"setup", "gather", "barrier"} /\ (q.stage = "barrier" => program # "parallel")
      /\ RunsDone(q, runs) = 0
  BY <1>1, StartsPlaced DEF Launched
<1>3. /\ at = [r \in Rank |-> q] /\ waiting = {} /\ rows = [r \in Rank |-> <<>>] /\ launch = 1
      /\ files = [r \in Rank |-> Absent] /\ metadata = Absent
  BY DEF Init, ForAll
<1> HIDE DEF q
<1>4. Placed /\ Lockstep /\ Waits
  BY <1>2, <1>3 DEF Placed, Lockstep, Waits
<1>5. Recorded
  BY <1>2, <1>3 DEF Recorded
<1>6. Exchanged
  BY <1>2, <1>3 DEF Exchanged, DataStages
<1>7. Kept
  BY <1>2, <1>3 DEF Kept, LastPlaces
<1>8. Signed
  BY <1>2, <1>3, Ranks DEF Signed
<1> QED  BY <1>1, <1>4, <1>5, <1>6, <1>7, <1>8 DEF LaunchInv

LEMMA RelaunchKeeps ==
  ASSUME LaunchInv, Relaunch
  PROVE  LaunchInv'
<1> DEFINE q == FirstStage(program, args')
<1>1. Launched /\ Kept /\ Signed
  BY DEF LaunchInv
<1>2. Launched'
  BY <1>1 DEF Launched, Relaunch
<1>3. /\ q \in Places /\ (q.stage # "setup" => q.run \in 1 .. Len(runs'))
      /\ \A r \in Rank : Reaches(r, q.stage, program)
      /\ q.stage \in {"setup", "gather", "barrier"} /\ (q.stage = "barrier" => program # "parallel")
      /\ RunsDone(q, runs') = 0
  BY <1>1, StartsPlaced DEF Launched, Relaunch
<1>4. /\ at' = [r \in Rank |-> q] /\ waiting' = {} /\ rows' = [r \in Rank |-> <<>>]
      /\ launch' = launch + 1
      /\ UNCHANGED <<program, files, metadata>>
  BY DEF Relaunch, ForAll, directory
<1> HIDE DEF q
<1>5. Placed' /\ Lockstep' /\ Waits'
  BY <1>3, <1>4 DEF Placed, Lockstep, Waits
<1>6. Recorded'
  BY <1>3, <1>4 DEF Recorded
<1>7. Exchanged'
  BY <1>3, <1>4 DEF Exchanged, DataStages
<1>8. Kept'
  BY <1>1, <1>3, <1>4 DEF Kept, LastPlaces
<1>9. Signed'
  BY <1>1, <1>3, <1>4, Ranks DEF Signed
<1> QED  BY <1>2, <1>5, <1>6, <1>7, <1>8, <1>9 DEF LaunchInv

LEMMA LaunchStep == LaunchInv /\ [Next]_vars => LaunchInv'
<1> SUFFICES ASSUME LaunchInv, [Next]_vars  PROVE LaunchInv'
  OBVIOUS
<1>1. CASE UNCHANGED vars
  BY <1>1, StandingKeeps DEF vars, process, directory, LaunchInv, Waits
<1>2. ASSUME NEW r \in Rank, Step(r) \/ FailWriting(r)
      PROVE  LaunchInv'
  BY <1>2, StandingActions, RecordKeeps, WriteKeeps, SignKeeps DEF Step
<1>3. CASE Terminate
  BY <1>3, StandingActions, Ranks
<1> QED  BY <1>1, <1>2, <1>3, CompleteKeeps, RelaunchKeeps DEF Next
LEMMA ReviewedInvariance == ReviewedSpec => []ReviewedInv
<1>1. ReviewedInit => ReviewedInv
  BY InitLaunch DEF ReviewedInit, ReviewedInv, Judged
<1>2. ReviewedInv /\ [ReviewedNext]_reviewedVars => ReviewedInv'
  <2> SUFFICES ASSUME ReviewedInv, [ReviewedNext]_reviewedVars  PROVE ReviewedInv'
    OBVIOUS
  <2>1. CASE UNCHANGED reviewedVars
    <3>1. LaunchInv'
      BY <2>1, LaunchStep DEF ReviewedInv, reviewedVars
    <3> QED  BY <2>1, <3>1 DEF ReviewedInv, Judged, reviewedVars, vars, directory
  <2>2. CASE verdict = Absent /\ Next /\ UNCHANGED verdict
    BY <2>2, LaunchStep DEF ReviewedInv, Judged
  <2>3. CASE Analyze
    <3>1. UNCHANGED vars
      BY <2>3 DEF Analyze
    <3>2. LaunchInv'
      BY <3>1, LaunchStep DEF ReviewedInv
    <3>3. verdict'.launch = launch /\ metadata # Absent /\ program # "parallel"
      <4>1. FilesPresent /\ program \in {"gate", "proxy"}
        BY <2>3 DEF Analyze, Accepts, GateAccepts, ProxyAccepts
      <4>2. PICK status \in Statuses : verdict' = [status |-> status, launch |-> launch]
        BY <2>3 DEF Analyze
      <4> QED  BY <4>1, <4>2 DEF FilesPresent
    <3> QED  BY <3>1, <3>2, <3>3 DEF ReviewedInv, Judged, vars, directory
  <2> QED  BY <2>1, <2>2, <2>3 DEF ReviewedNext
<1> QED  BY <1>1, <1>2, PTL DEF ReviewedSpec

(* All ranks of a launch of a control are in the timed part of the same    *)
(* run, whoever is fast and whoever is slow: the modes that are compared   *)
(* never overlap (benchmark_timing_gate_ep4.py:148).                       *)
THEOREM RunsNeverOverlap == ReviewedSpec => []OneRunAtATime
<1>1. ReviewedInv => OneRunAtATime
  <2> SUFFICES ASSUME Launched, Placed, Lockstep, NEW r \in Rank, NEW s \in Rank, Timed(r), Timed(s)
               PROVE  at[r].run = at[s].run
    BY DEF OneRunAtATime, ReviewedInv, LaunchInv
  <2> DEFINE head(p) == Heading(p, program, runs)
  <2>1. head(at[r]) = head(at[s])
    BY DEF Lockstep
  <2>2. ASSUME NEW d \in Rank, Timed(d)
        PROVE  /\ at[d].run \in Int /\ head(at[d]).run \in Int
               /\ \/ at[d].stage \in DataStages /\ head(at[d]).stage \in DataStages /\ head(at[d]).run = at[d].run
                  \/ head(at[d]).stage \in {"barrier", "gather"} /\ head(at[d]).run = at[d].run + 1
                  \/ head(at[d]).stage \in {"written", "collect"} /\ head(at[d]).run = at[d].run
    <3>1. at[d] \in Places /\ at[d].stage \in DataStages \union {"end"} /\ at[d].run \in 1 .. Len(runs)
      BY <2>2 DEF Placed, Timed, DataStages
    <3>2. CASE at[d].stage \in DataStages
      <4>1. head(at[d]) = at[d]
        BY <3>2 DEF Heading, DataStages, LastPlaces
      <4> QED  BY <3>1, <3>2, <4>1 DEF Places
    <3>3. CASE at[d].stage = "end"
      <4> DEFINE q == Following(at[d], program, runs)
      <4>1. /\ q \in Places
            /\ q.stage \in {"gather", "barrier", "collect", "write"}
            /\ head(at[d]) = IF q.stage = "write" THEN [q EXCEPT !.stage = "written"] ELSE q
        <5>1. q \in Places /\ q.stage \in {"gather", "barrier", "collect", "write"}
          BY <3>1, <3>3, AfterEnd, ProgramKinds, RunsLength
        <5>2. head(at[d]) = IF q.stage = "write" THEN [q EXCEPT !.stage = "written"] ELSE q
          BY <3>3 DEF Heading, LastPlaces
        <5> QED  BY <5>1, <5>2
      <4>2. IF q.stage \in {"gather", "barrier"} THEN q.run = at[d].run + 1 ELSE q.run = at[d].run
        BY <3>1, <3>3, ProgramKinds DEF Following, ParallelAfter, GateAfter, ParallelStart, Place, Places
      <4> HIDE DEF q
      <4> QED  BY <3>1, <4>1, <4>2 DEF Places
    <3> QED  BY <3>1, <3>2, <3>3
  <2> HIDE DEF head
  <2> QED  BY <2>1, <2>2 DEF DataStages
<1> QED  BY <1>1, ReviewedInvariance, PTL

(* When all ranks are in a collective it is the same one, and every block  *)
(* is as long as its receiver expects, though the counts of a run are      *)
(* exchanged once for all repetitions in one program, and never in the     *)
(* other two (benchmark_proxy_validation_ep4.py:198-222,                   *)
(* benchmark_position_parallel_ep.py:139-146).                             *)
THEOREM BlocksFit == ReviewedSpec => []BlocksAgree
<1>1. ReviewedInv => BlocksAgree
  <2> SUFFICES ASSUME LaunchInv, waiting = Rank  PROVE CallsAgree
    BY DEF BlocksAgree, ReviewedInv
  <2>1. Launched /\ Placed /\ Lockstep /\ Waits /\ Exchanged
    BY DEF LaunchInv
  <2>2. ASSUME NEW r \in Rank
        PROVE  at[r] = at[1]
    <3>1. \A s \in Rank : at[s].stage \in CollectiveStages
      BY <2>1 DEF Waits
    <3>2. \A s \in Rank : Heading(at[s], program, runs) = at[s]
      BY <3>1 DEF Heading, CollectiveStages, DataStages, LastPlaces
    <3> QED  BY <2>1, <3>2, Ranks DEF Lockstep
  <2>3. ASSUME at[1].stage \in DataStages, NEW s \in Rank, NEW d \in Rank
        PROVE  Outgoing(s)[d] = Incoming(d)[s]
    <3>1. ASSUME NEW x \in Rank, NEW y \in Rank
          PROVE  Send(x)[y] = Recv(y)[x]
      <4>1. at[x] = at[1] /\ at[y] = at[1]
        BY <2>2
      <4>2. CASE program = "gate"
        <5>1. Send(x) = GateSplits(RunOf(x)) /\ Recv(y) = GateSplits(RunOf(x))
          BY <4>1, <4>2 DEF Send, Recv, RunOf
        <5> DEFINE share == (BatchSize * RunOf(x).k * TopK) \div NumSources
        <5>2. GateSplits(RunOf(x)) = [d2 \in Rank |-> share]
          BY DEF GateSplits
        <5> HIDE DEF share
        <5> QED  BY <5>1, <5>2
      <4>3. CASE program = "proxy"
        <5>1. Send(x) = ProxySend(RunOf(x), x, at[x].batch) /\ Recv(y) = ProxyRecv(RunOf(y), y, at[y].batch)
          BY <4>3 DEF Send, Recv
        <5>2. RunOf(x) = RunOf(y) /\ at[x].batch = at[y].batch
          BY <4>1 DEF RunOf
        <5> QED  BY <5>1, <5>2 DEF ProxySend, ProxyRecv, Rank
      <4>4. CASE program = "parallel"
        <5>1. announced[y] = [r \in Rank |-> SplitVector(ParallelIds(runs[at[1].run], r))]
          BY <2>1, <2>3, <4>1, <4>4 DEF Exchanged
        <5>2. Send(x) = SplitVector(ParallelIds(runs[at[1].run], x))
          BY <4>1, <4>4 DEF Send, Ids, RunOf
        <5> QED  BY <4>4, <5>1, <5>2 DEF Recv
      <4> QED  BY <2>1, <4>2, <4>3, <4>4, ProgramKinds
    <3>2. Mode(s) = Mode(d) /\ at[s].stage = at[d].stage
      <4>1. at[s] = at[d]
        BY <2>2
      <4> QED  BY <4>1 DEF Mode, RunOf
    <3> QED  BY <3>1, <3>2 DEF Outgoing, Incoming, MinimalSplits
  <2>4. \A r, s \in Rank : at[r].stage = at[s].stage
    BY <2>2
  <2> QED  BY <2>3, <2>4 DEF CallsAgree
<1> QED  BY <1>1, ReviewedInvariance, PTL

(* Metadata of this launch is only there when the rows of all runs are in  *)
(* the files.                                                              *)
LEMMA SignedIsComplete ==
  ASSUME LaunchInv, metadata # Absent, metadata.launch = launch
  PROVE  /\ \A r \in Rank : (program = "parallel" /\ r # 1) \/ WrittenInFull(r)
         /\ program = "parallel" => \A n \in DOMAIN runs, r \in Rank : ~ReceivesNothing(runs[n], r)
<1>1. Launched /\ Placed /\ Lockstep /\ Recorded /\ Kept /\ Signed
  BY DEF LaunchInv
<1>2. at[1].stage \in {"pass", "done"}
  BY <1>1 DEF Signed
<1>3. ASSUME NEW r \in Rank
      PROVE  /\ at[r].stage \in LastPlaces \union {"write", "close"}
             /\ at[r].stage \in {"write", "close"} => program = "parallel"
  <2>1. Heading(at[r], program, runs) = Place(0, "over", 0, 0)
    <3>1. Heading(at[1], program, runs) = Place(0, "over", 0, 0)
      BY <1>2 DEF Heading, LastPlaces
    <3> QED  BY <1>1, <3>1, Ranks DEF Lockstep
  <2>2. at[r] \in Places
    BY <1>1 DEF Placed
  <2>3. at[r].stage # "end"
    <3> SUFFICES ASSUME at[r].stage = "end"  PROVE FALSE
      OBVIOUS
    <3> DEFINE q == Following(at[r], program, runs)
    <3>1. at[r].run \in 1 .. Len(runs)
      BY <1>1 DEF Placed
    <3>2. q \in Places /\ q.stage \in {"gather", "barrier", "collect", "write"}
      BY <1>1, <2>2, <3>1, AfterEnd, ProgramKinds, RunsLength
    <3>3. Heading(at[r], program, runs) = IF q.stage = "write" THEN [q EXCEPT !.stage = "written"] ELSE q
      BY DEF Heading, LastPlaces
    <3> HIDE DEF q
    <3>4. Heading(at[r], program, runs).stage # "over"
      BY <3>2, <3>3 DEF Places
    <3> QED  BY <2>1, <3>4 DEF Place
  <2>4. ASSUME at[r].stage \in (Stages \ {"end"}) \ (LastPlaces \union {"write", "close"})
        PROVE  FALSE
    <3>1. Heading(at[r], program, runs) = at[r]
      BY <2>4 DEF Heading, Stages, InRun, DataStages, LastPlaces
    <3> QED  BY <2>1, <2>4, <3>1 DEF Place, Stages, InRun, DataStages, LastPlaces
  <2>5. ASSUME at[r].stage \in {"write", "close"}, program # "parallel"
        PROVE  FALSE
    <3>1. Heading(at[r], program, runs) = [at[r] EXCEPT !.stage = "written"]
      BY <2>5 DEF Heading, LastPlaces
    <3> QED  BY <2>1, <2>2, <3>1 DEF Place, Places
  <2> QED  BY <2>2, <2>3, <2>4, <2>5 DEF Places
<1>4. ASSUME NEW r \in Rank, ~(program = "parallel" /\ r # 1)
      PROVE  WrittenInFull(r)
  <2>1. at[r].stage \in LastPlaces \union {"written"}
    BY <1>2, <1>3, <1>4 DEF LastPlaces
  <2> QED  BY <1>1, <1>4, <2>1 DEF Kept
<1>5. ASSUME program = "parallel", NEW n \in DOMAIN runs, NEW r \in Rank
      PROVE  ~ReceivesNothing(runs[n], r)
  <2>1. RunsDone(at[r], runs) = Len(runs)
    BY <1>3 DEF RunsDone, LastPlaces, InRun, DataStages
  <2> QED  BY <1>1, <1>5, <2>1, RunsLength DEF Recorded
<1> QED  BY <1>4, <1>5

(* PASS means complete: whichever ranks raise, and whenever, metadata of a *)
(* launch appears only with every row of every rank on disk, and never     *)
(* when a rank received nothing in a run                                   *)
(* (benchmark_position_parallel_ep.py:209,                                 *)
(* benchmark_proxy_validation_ep4.py:441-448).                             *)
THEOREM PassIsComplete == ReviewedSpec => []PassedMeansComplete
<1>1. ReviewedInv => PassedMeansComplete
  BY SignedIsComplete DEF PassedMeansComplete, ReviewedInv
<1> QED  BY <1>1, ReviewedInvariance, PTL

(* A verdict on an empty directory's first launch rests on every row of    *)
(* every rank, though the scripts only look at maxima over ranks           *)
(* (analyze_timing_gate_ep4.py:70-109).                                    *)
THEOREM VerdictsRestOnAllRows == ReviewedSpec => []VerdictOnCompleteRows
<1>1. ReviewedInv => VerdictOnCompleteRows
  <2> SUFFICES ASSUME ReviewedInv, verdict # Absent, verdict.launch = 1, NEW r \in Rank
               PROVE  WrittenInFull(r)
    BY DEF VerdictOnCompleteRows
  <2>1. launch = 1 /\ metadata # Absent /\ program # "parallel" /\ Signed
    BY DEF ReviewedInv, Judged, LaunchInv
  <2>2. metadata.launch = launch
    BY <2>1 DEF Signed
  <2> QED  BY <2>1, <2>2, SignedIsComplete DEF ReviewedInv
<1> QED  BY <1>1, ReviewedInvariance, PTL
-----------------------------------------------------------------------------
(* What the scripts find in the directory of a launch that passed. *)

(* Taking digits off a number one by one or two at a time. *)
LEMMA QuotientTwice ==
  ASSUME NEW i \in Nat, NEW b \in Nat \ {0}, NEW R \in Nat \ {0}
  PROVE  i \div (b * R) = (i \div b) \div R
<1> DEFINE j == i \div b
           m == i % b
           q == j \div R
           t == j % R
<1>1. j \in Nat /\ m \in 0 .. b - 1 /\ i = j * b + m
  BY Quotient
<1>2. q \in Nat /\ t \in 0 .. R - 1 /\ j = q * R + t
  <2> HIDE DEF j
  <2> QED  BY <1>1, Quotient
<1> HIDE DEF j, m, q, t
<1>3. b * R \in Nat \ {0}
  BY ProductPositive
<1>4. i = q * (b * R) + (t * b + m)
  BY <1>1, <1>2
<1>5. t * b + m \in 0 .. b * R - 1
  <2>1. t * b \in Nat /\ (R - 1) * b \in Nat /\ t * b <= (R - 1) * b
    BY <1>2, ProductMonotone
  <2>2. (R - 1) * b = b * R - b
    OBVIOUS
  <2> QED  BY <1>1, <1>3, <2>1, <2>2
<1>6. i \div (b * R) = q
  BY <1>2, <1>3, <1>4, <1>5, QuotientIs
<1> QED  BY <1>6 DEF q, j

LEMMA RemainderIs ==
  ASSUME NEW d \in Nat \ {0}, NEW q \in Nat, NEW m \in 0 .. d - 1
  PROVE  (q * d + m) \div d = q /\ (q * d + m) % d = m
<1> DEFINE i == q * d + m
<1>1. i \in Nat
  OBVIOUS
<1>2. i \div d = q
  BY <1>1, QuotientIs
<1>3. i = (i \div d) * d + (i % d) /\ i % d \in 0 .. d - 1
  <2> HIDE DEF i
  <2> QED  BY <1>1, Quotient
<1>4. i % d = m
  <2> DEFINE e == i % d
  <2>1. q * d + m = q * d + e /\ e \in Int
    <3>1. i = q * d + e /\ e \in Int
      <4> HIDE DEF i
      <4> QED  BY <1>2, <1>3
    <3> QED  BY <3>1
  <2> HIDE DEF e
  <2>2. e = m
    BY <2>1
  <2> QED  BY <2>2 DEF e
<1> QED  BY <1>2, <1>4

(* Every mode, and every arm, has one place in a rotated order. *)
LEMMA RotatedModes ==
  ASSUME NEW o \in Nat
  PROVE  /\ \A m \in 1 .. 3 : Rotated(TransportModes, o)[m] \in Range(TransportModes)
         /\ \A m, n \in 1 .. 3 : Rotated(TransportModes, o)[m] = Rotated(TransportModes, o)[n] => m = n
         /\ \A mode \in Range(TransportModes) : \E m \in 1 .. 3 : Rotated(TransportModes, o)[m] = mode
<1>1. DOMAIN TransportModes = 1 .. 3 /\ Len(TransportModes) = 3
  BY DEF TransportModes
<1>2. \A m \in 1 .. 3 : Rotated(TransportModes, o)[m] = TransportModes[((m - 1 + o) % 3) + 1]
  BY <1>1 DEF Rotated
<1>3. \A m \in 1 .. 3 : ((m - 1 + o) % 3) + 1 \in 1 .. 3
  OBVIOUS
<1>4. \A m, n \in 1 .. 3 : TransportModes[m] = TransportModes[n] => m = n
  BY DEF TransportModes
<1>5. \A m, n \in 1 .. 3 : ((m - 1 + o) % 3) + 1 = ((n - 1 + o) % 3) + 1 => m = n
  OBVIOUS
<1>6. ASSUME NEW mode \in Range(TransportModes)
      PROVE  \E m \in 1 .. 3 : Rotated(TransportModes, o)[m] = mode
  <2>1. PICK y \in 1 .. 3 : TransportModes[y] = mode
    BY <1>1 DEF Range
  <2>2. PICK m \in 1 .. 3 : ((m - 1 + o) % 3) + 1 = y
    OBVIOUS
  <2> QED  BY <1>2, <2>1, <2>2
<1>7. \A m \in 1 .. 3 : Rotated(TransportModes, o)[m] \in Range(TransportModes)
  BY <1>1, <1>2, <1>3 DEF Range
<1>8. \A m, n \in 1 .. 3 : Rotated(TransportModes, o)[m] = Rotated(TransportModes, o)[n] => m = n
  BY <1>2, <1>3, <1>4, <1>5
<1> QED  BY <1>6, <1>7, <1>8

LEMMA RotatedArms ==
  ASSUME NEW o \in Nat
  PROVE  /\ \A m \in 1 .. 5 : Rotated(RunArms, o)[m] \in Range(RunArms)
         /\ \A m, n \in 1 .. 5 : Rotated(RunArms, o)[m] = Rotated(RunArms, o)[n] => m = n
         /\ \A arm \in Range(RunArms) : \E m \in 1 .. 5 : Rotated(RunArms, o)[m] = arm
<1>1. DOMAIN RunArms = 1 .. 5 /\ Len(RunArms) = 5
  BY DEF RunArms, ControlArms, ConstructedArms
<1>2. \A m \in 1 .. 5 : Rotated(RunArms, o)[m] = RunArms[((m - 1 + o) % 5) + 1]
  BY <1>1 DEF Rotated
<1>3. \A m \in 1 .. 5 : ((m - 1 + o) % 5) + 1 \in 1 .. 5
  OBVIOUS
<1>4. \A m, n \in 1 .. 5 : RunArms[m] = RunArms[n] => m = n
  <2>1. /\ RunArms[1] = "fifo_local_copy_control" /\ RunArms[2] = "fifo_nccl_minimal_control"
        /\ RunArms[3] = "fifo_constructed" /\ RunArms[4] = "dose_083_constructed"
        /\ RunArms[5] = "balanced_constructed"
    BY DEF RunArms, ControlArms, ConstructedArms
  <2>2. 1 .. 5 = {1, 2, 3, 4, 5}
    OBVIOUS
  <2> QED  BY <2>1, <2>2
<1>5. \A m, n \in 1 .. 5 : ((m - 1 + o) % 5) + 1 = ((n - 1 + o) % 5) + 1 => m = n
  OBVIOUS
<1>6. ASSUME NEW arm \in Range(RunArms)
      PROVE  \E m \in 1 .. 5 : Rotated(RunArms, o)[m] = arm
  <2>1. PICK y \in 1 .. 5 : RunArms[y] = arm
    BY <1>1 DEF Range
  <2>2. PICK m \in 1 .. 5 : ((m - 1 + o) % 5) + 1 = y
    OBVIOUS
  <2> QED  BY <1>2, <2>1, <2>2
<1>7. \A m \in 1 .. 5 : Rotated(RunArms, o)[m] \in Range(RunArms)
  BY <1>1, <1>2, <1>3 DEF Range
<1>8. \A m, n \in 1 .. 5 : Rotated(RunArms, o)[m] = Rotated(RunArms, o)[n] => m = n
  BY <1>2, <1>3, <1>4, <1>5
<1> QED  BY <1>6, <1>7, <1>8

(* The run of the c-th number of positions, the n-th repetition and the    *)
(* m-th mode of its order, and its number in the launch.                   *)
GateRun(a, c, n, m) ==
  [k |-> Ascending(a.positions)[c], mode |-> Rotated(TransportModes, n - 1)[m],
   repetition |-> n, measured |-> n > a.warmup]

GateNumber(a, c, n, m) == ((c - 1) * (a.warmup + a.repetitions) + (n - 1)) * 3 + m

Measures(a) == a.warmup \in Nat /\ a.repetitions \in Nat \ {0}

Widths(a) == IsFiniteSet(a.positions) /\ a.positions # {} /\ a.positions \subseteq Nat \ {0}

Repetitions(a) == 1 .. a.warmup + a.repetitions

LEMMA GateRunsAre ==
  ASSUME NEW a, Measures(a), Widths(a)
  PROVE  LET W == Cardinality(a.positions)
         IN  /\ W \in Nat /\ DOMAIN Ascending(a.positions) = 1 .. W
             /\ \A i \in DOMAIN GateRuns(a) :
                  \E c \in 1 .. W : \E n \in Repetitions(a) : \E m \in 1 .. 3 :
                    i = GateNumber(a, c, n, m) /\ GateRuns(a)[i] = GateRun(a, c, n, m)
             /\ \A c \in 1 .. W : \A n \in Repetitions(a) : \A m \in 1 .. 3 :
                  /\ GateNumber(a, c, n, m) \in DOMAIN GateRuns(a)
                  /\ GateRuns(a)[GateNumber(a, c, n, m)] = GateRun(a, c, n, m)
<1> DEFINE R == a.warmup + a.repetitions
           W == Cardinality(a.positions)
           digits(i, c, n, m) == i = (c * R + n) * 3 + m
           run(before) ==
             LET n == ((before \div 3) % R) + 1
             IN  [k |-> Ascending(a.positions)[(before \div (3 * R)) + 1],
                  mode |-> Rotated(TransportModes, n - 1)[(before % 3) + 1],
                  repetition |-> n, measured |-> n > a.warmup]
<1>1. R \in Nat \ {0} /\ W \in Nat \ {0} /\ DOMAIN Ascending(a.positions) = 1 .. W
  <2>1. W \in Nat \ {0}
    BY FS_CardinalityType, FS_EmptySet DEF Widths
  <2>2. DOMAIN Ascending(a.positions) = 1 .. W
    BY AscendingLists DEF Widths
  <2> QED  BY <2>1, <2>2 DEF Measures
<1>2. GateRuns(a) = [i \in 1 .. 3 * R * W |-> run(i - 1)]
  BY DEF GateRuns
<1>3. 3 * R * W \in Nat /\ 3 * R * W = W * (R * 3) /\ 3 * R \in Nat \ {0} /\ R * W \in Nat
  <2> HIDE DEF R, W
  <2>1. R * W \in Nat
    BY <1>1
  <2> QED  BY <1>1, <2>1
<1> HIDE DEF W, run
(* What a number says about its run. *)
<1>4. ASSUME NEW c \in 0 .. W - 1, NEW n \in 0 .. R - 1, NEW m \in 0 .. 2,
             NEW x \in Nat, digits(x, c, n, m)
      PROVE  /\ x \div (3 * R) = c /\ (x \div 3) % R = n /\ x % 3 = m
             /\ run(x) = GateRun(a, c + 1, n + 1, m + 1)
  <2> HIDE DEF R
  <2>1. c * R + n \in Nat
    <3>1. c * R \in Nat
      BY <1>1
    <3> QED  BY <1>1, <3>1
  <2>2. x \div 3 = c * R + n /\ x % 3 = m
    <3> DEFINE q == c * R + n
    <3>1. q \in Nat /\ x = q * 3 + m /\ 3 \in Nat \ {0} /\ m \in 0 .. 3 - 1
      BY <1>4, <2>1
    <3> HIDE DEF q
    <3>2. (q * 3 + m) \div 3 = q /\ (q * 3 + m) % 3 = m
      BY <3>1, RemainderIs
    <3>3. x \div 3 = q /\ x % 3 = m
      BY <3>1, <3>2
    <3> QED  BY <3>3 DEF q
  <2>3. (c * R + n) \div R = c /\ (c * R + n) % R = n
    BY <1>1, RemainderIs
  <2>4. x \div (3 * R) = c
    BY <1>1, <2>2, <2>3, QuotientTwice
  <2>5. (x \div 3) % R = n
    BY <2>2, <2>3
  <2>6. /\ run(x).k = Ascending(a.positions)[c + 1]
        /\ run(x) = GateRun(a, c + 1, n + 1, m + 1)
    <3>1. run(x) = [k |-> Ascending(a.positions)[c + 1],
                    mode |-> Rotated(TransportModes, n + 1 - 1)[m + 1],
                    repetition |-> n + 1, measured |-> n + 1 > a.warmup]
      BY <2>2, <2>4, <2>5 DEF run
    <3> QED  BY <3>1 DEF GateRun
  <2> QED  BY <2>2, <2>4, <2>5, <2>6
<1>5. ASSUME NEW i \in DOMAIN GateRuns(a)
      PROVE  \E c \in 1 .. W : \E n \in Repetitions(a) : \E m \in 1 .. 3 :
                i = GateNumber(a, c, n, m) /\ GateRuns(a)[i] = GateRun(a, c, n, m)
  <2> DEFINE x == i - 1
             y == x \div 3
             c == y \div R
             n == y % R
             m == x % 3
  <2>1. x \in Nat /\ i \in 1 .. 3 * R * W
    BY <1>2
  <2>2. y \in Nat /\ m \in 0 .. 2 /\ x = y * 3 + m
    <3> HIDE DEF x
    <3> QED  BY <2>1, Quotient
  <2>3. c \in Nat /\ n \in 0 .. R - 1 /\ y = c * R + n
    <3> HIDE DEF y, R
    <3> QED  BY <1>1, <2>2, Quotient
  <2> HIDE DEF y, c, n, m, R
  <2>4. c <= W - 1
    <3> SUFFICES ASSUME W <= c  PROVE FALSE
      BY <1>1, <2>3
    <3>1. W * (R * 3) <= c * (R * 3)
      BY <1>1, <1>3, <2>3, ProductMonotone
    <3>2. c * (R * 3) <= x
      <4>1. c * R \in Nat /\ c * (R * 3) = (c * R) * 3
        BY <1>1, <2>3
      <4> QED  BY <1>1, <2>2, <2>3, <4>1
    <3>3. x < 3 * R * W
      BY <1>3, <2>1
    <3>4. c * (R * 3) \in Nat
      BY <1>1, <1>3, <2>3
    <3> QED  BY <1>3, <2>1, <3>1, <3>2, <3>3, <3>4
  <2>5. digits(x, c, n, m) /\ c \in 0 .. W - 1
    BY <1>1, <2>2, <2>3, <2>4
  <2>6. run(x) = GateRun(a, c + 1, n + 1, m + 1)
    BY <1>4, <2>1, <2>2, <2>3, <2>5
  <2>7. i = GateNumber(a, c + 1, n + 1, m + 1)
    <3>1. i = (c * R + n) * 3 + (m + 1)
      BY <2>1, <2>2, <2>3
    <3>2. (c + 1) - 1 = c /\ (n + 1) - 1 = n
      BY <1>1, <2>3
    <3> QED  BY <3>1, <3>2 DEF GateNumber, R
  <2>8. c + 1 \in 1 .. W /\ n + 1 \in Repetitions(a) /\ m + 1 \in 1 .. 3
    BY <1>1, <2>2, <2>3, <2>4 DEF Repetitions, R
  <2>9. GateRuns(a)[i] = run(x)
    BY <1>2, <2>1
  <2> QED  BY <2>6, <2>7, <2>8, <2>9
<1>6. ASSUME NEW c \in 1 .. W, NEW n \in Repetitions(a), NEW m \in 1 .. 3
      PROVE  /\ GateNumber(a, c, n, m) \in DOMAIN GateRuns(a)
             /\ GateRuns(a)[GateNumber(a, c, n, m)] = GateRun(a, c, n, m)
  <2> DEFINE d == c - 1
             e == n - 1
             f == m - 1
             x == (d * R + e) * 3 + f
  <2>1. d \in 0 .. W - 1 /\ e \in 0 .. R - 1 /\ f \in 0 .. 2 /\ d + 1 = c /\ e + 1 = n /\ f + 1 = m
    BY <1>1 DEF Repetitions
  <2> HIDE DEF d, e, f
  <2>2. d * R \in Nat /\ x \in Nat /\ digits(x, d, e, f)
    <3> HIDE DEF R
    <3>1. d * R \in Nat
      BY <1>1, <2>1
    <3> QED  BY <1>1, <2>1, <3>1
  <2>3. x + 1 = GateNumber(a, c, n, m)
    BY <2>1, <2>2 DEF GateNumber, d, e, f
  <2>4. x + 1 \in 1 .. 3 * R * W
    <3> HIDE DEF R
    <3>1. d * R <= (W - 1) * R /\ (W - 1) * R \in Nat
      BY <1>1, <2>1, ProductMonotone
    <3>2. (W - 1) * R = W * R - R /\ W * (R * 3) = (W * R) * 3 /\ W * R \in Nat
      BY <1>1
    <3> QED  BY <1>1, <1>3, <2>1, <2>2, <3>1, <3>2
  <2> HIDE DEF x
  <2>5. run(x) = GateRun(a, c, n, m)
    BY <1>4, <2>1, <2>2
  <2>6. GateRuns(a)[x + 1] = run(x) /\ x + 1 \in DOMAIN GateRuns(a)
    <3>1. (x + 1) - 1 = x
      BY <2>2
    <3> QED  BY <1>2, <2>4, <3>1
  <2> QED  BY <2>3, <2>5, <2>6
<1> QED  BY <1>1, <1>5, <1>6 DEF W

LEMMA ObservedRows ==
  ASSUME program # "parallel", \A r \in Rank : WrittenInFull(r)
  PROVE  /\ \A r \in Rank : files[r].rows = runs /\ Measured(r) = {n \in DOMAIN runs : runs[n].measured}
         /\ \A r \in Rank : \A n \in DOMAIN runs :
              runs[n].measured => [rank |-> r, row |-> runs[n]] \in Observed
         /\ \A x \in Observed : \E r \in Rank : \E n \in DOMAIN runs :
              runs[n].measured /\ x = [rank |-> r, row |-> runs[n]]
<1>1. \A r \in Rank : files[r].rows = runs
  BY DEF WrittenInFull
<1>2. \A r \in Rank : Measured(r) = {n \in DOMAIN runs : runs[n].measured}
  BY <1>1 DEF Measured
<1>3. ASSUME NEW r \in Rank, NEW n \in DOMAIN runs, runs[n].measured
      PROVE  [rank |-> r, row |-> runs[n]] \in Observed
  <2>1. n \in Measured(r)
    BY <1>2, <1>3
  <2>2. [rank |-> r, row |-> files[r].rows[n]] \in Observed
    BY <2>1 DEF Observed
  <2> QED  BY <1>1, <2>2
<1>4. ASSUME NEW x \in Observed
      PROVE  \E r \in Rank : \E n \in DOMAIN runs : runs[n].measured /\ x = [rank |-> r, row |-> runs[n]]
  <2>1. PICK r \in Rank : x \in {[rank |-> r, row |-> files[r].rows[n]] : n \in Measured(r)}
    BY DEF Observed
  <2>2. PICK n \in Measured(r) : x = [rank |-> r, row |-> files[r].rows[n]]
    BY <2>1
  <2>3. n \in DOMAIN runs /\ runs[n].measured /\ x = [rank |-> r, row |-> runs[n]]
    BY <1>1, <1>2, <2>2
  <2> QED  BY <2>3
<1> QED  BY <1>1, <1>2, <1>3, <1>4

(* The rows of a complete launch of the timing gate are all that its       *)
(* analysis asks for, unless every width has one measured repetition: then *)
(* there is no standard deviation.                                         *)
LEMMA GateRowsAccepted ==
  ASSUME NEW a, Measures(a), Widths(a), program = "gate", runs = GateRuns(a),
         metadata # Absent, metadata.readable, metadata.args = a,
         \A r \in Rank : WrittenInFull(r), \A r \in Rank : files[r] # Absent
  PROVE  GateAccepts <=> a.repetitions # 1
<1> DEFINE W == Cardinality(a.positions)
           L == Ascending(a.positions)
           num(c, n, m) == GateNumber(a, c, n, m)
           row(c, n, m) == GateRun(a, c, n, m)
<1>1. /\ W \in Nat /\ DOMAIN L = 1 .. W
      /\ \A i \in DOMAIN runs :
           \E c \in 1 .. W : \E n \in Repetitions(a) : \E m \in 1 .. 3 :
             i = num(c, n, m) /\ runs[i] = row(c, n, m)
      /\ \A c \in 1 .. W : \A n \in Repetitions(a) : \A m \in 1 .. 3 :
           num(c, n, m) \in DOMAIN runs /\ runs[num(c, n, m)] = row(c, n, m)
  BY GateRunsAre
<1>2. /\ \A i \in 1 .. W : L[i] \in a.positions
      /\ \A x \in a.positions : \E i \in 1 .. W : L[i] = x
      /\ \A i, j \in 1 .. W : L[i] = L[j] => i = j
  <2>1. a.positions \in SUBSET Int /\ IsFiniteSet(a.positions)
    BY DEF Widths
  <2>2. /\ \A i \in 1 .. W : L[i] \in a.positions
        /\ \A x \in a.positions : \E i \in 1 .. W : L[i] = x
    BY <1>1, <2>1, AscendingLists
  <2>3. ASSUME NEW i \in 1 .. W, NEW j \in 1 .. W, L[i] = L[j]
        PROVE  i = j
    <3>1. i < j => L[i] < L[j]
      BY <2>1, AscendingStrictly
    <3>2. j < i => L[j] < L[i]
      BY <2>1, AscendingStrictly
    <3>3. L[i] \in Int /\ L[j] \in Int
      BY <2>1, <2>2
    <3> HIDE DEF L, W
    <3> QED  BY <1>1, <2>3, <3>1, <3>2, <3>3
  <2> QED  BY <2>2, <2>3
<1>3. PICK p : p \in a.positions
  BY DEF Widths
<1>4. \A n \in Repetitions(a) : n \in Nat \ {0} /\ n - 1 \in Nat
  BY DEF Repetitions
<1>5. a.warmup + a.repetitions \in Repetitions(a) /\ a.warmup + a.repetitions > a.warmup
  BY DEF Repetitions, Measures
<1>6. \A c, n, m : /\ row(c, n, m).k = L[c] /\ row(c, n, m).repetition = n
                   /\ row(c, n, m).mode = Rotated(TransportModes, n - 1)[m]
                   /\ (row(c, n, m).measured <=> n > a.warmup)
  BY DEF GateRun
<1>7. \A n \in Repetitions(a) :
        /\ \A m \in 1 .. 3 : Rotated(TransportModes, n - 1)[m] \in Range(TransportModes)
        /\ \A m, k \in 1 .. 3 : Rotated(TransportModes, n - 1)[m] = Rotated(TransportModes, n - 1)[k] => m = k
        /\ \A mode \in Range(TransportModes) : \E m \in 1 .. 3 : Rotated(TransportModes, n - 1)[m] = mode
  BY <1>4, RotatedModes
<1> HIDE DEF num, row, W, L
<1>8. /\ \A r \in Rank : files[r].rows = runs /\ Measured(r) = {n \in DOMAIN runs : runs[n].measured}
      /\ \A r \in Rank : \A n \in DOMAIN runs :
           runs[n].measured => [rank |-> r, row |-> runs[n]] \in Observed
      /\ \A x \in Observed : \E r \in Rank : \E n \in DOMAIN runs :
           runs[n].measured /\ x = [rank |-> r, row |-> runs[n]]
  BY ObservedRows
(* Every rank has every measured run, and nothing else.                    *)
<1>9. ASSUME NEW r \in Rank, NEW c \in 1 .. W, NEW n \in Repetitions(a), NEW m \in 1 .. 3, n > a.warmup
      PROVE  [rank |-> r, row |-> row(c, n, m)] \in Observed
  <2>1. num(c, n, m) \in DOMAIN runs /\ runs[num(c, n, m)] = row(c, n, m)
    BY <1>1
  <2>2. runs[num(c, n, m)].measured
    BY <1>6, <1>9, <2>1
  <2> QED  BY <1>8, <2>1, <2>2
<1>10. ASSUME NEW x \in Observed
       PROVE  \E c \in 1 .. W : \E n \in Repetitions(a) : \E m \in 1 .. 3 :
                /\ x.row = row(c, n, m) /\ n > a.warmup /\ x.rank \in Rank
  <2>1. PICK r \in Rank : \E i \in DOMAIN runs : runs[i].measured /\ x = [rank |-> r, row |-> runs[i]]
    BY <1>8
  <2>2. PICK i \in DOMAIN runs : runs[i].measured /\ x = [rank |-> r, row |-> runs[i]]
    BY <2>1
  <2>3. PICK c \in 1 .. W : \E n \in Repetitions(a) : \E m \in 1 .. 3 :
               i = num(c, n, m) /\ runs[i] = row(c, n, m)
    BY <1>1
  <2>4. PICK n \in Repetitions(a) : \E m \in 1 .. 3 : i = num(c, n, m) /\ runs[i] = row(c, n, m)
    BY <2>3
  <2>5. PICK m \in 1 .. 3 : i = num(c, n, m) /\ runs[i] = row(c, n, m)
    BY <2>4
  <2>6. n > a.warmup
    BY <1>6, <2>2, <2>5
  <2> QED  BY <2>2, <2>5, <2>6
<1>11. \A c, d \in 1 .. W : L[c] = L[d] => c = d
  BY <1>2 DEF W
<1>12. \A x \in a.positions : \E c \in 1 .. W : L[c] = x
  BY <1>2
<1>13. \A c \in 1 .. W : L[c] \in a.positions
  BY <1>2
<1>14. RanksSeen(LAMBDA x : <<x.k, x.mode, x.repetition>>)
  <2>1. ASSUME NEW r \in Rank, NEW i \in Measured(r), NEW j \in Measured(r),
               runs[i].k = runs[j].k, runs[i].mode = runs[j].mode, runs[i].repetition = runs[j].repetition
        PROVE  i = j
    <3>1. i \in DOMAIN runs /\ j \in DOMAIN runs
      BY <1>8
    <3>2. PICK c \in 1 .. W : \E n \in Repetitions(a) : \E m \in 1 .. 3 :
                 i = num(c, n, m) /\ runs[i] = row(c, n, m)
      BY <1>1, <3>1
    <3>3. PICK n \in Repetitions(a) : \E m \in 1 .. 3 : i = num(c, n, m) /\ runs[i] = row(c, n, m)
      BY <3>2
    <3>4. PICK m \in 1 .. 3 : i = num(c, n, m) /\ runs[i] = row(c, n, m)
      BY <3>3
    <3>5. PICK d \in 1 .. W : \E o \in Repetitions(a) : \E k \in 1 .. 3 :
                 j = num(d, o, k) /\ runs[j] = row(d, o, k)
      BY <1>1, <3>1
    <3>6. PICK o \in Repetitions(a) : \E k \in 1 .. 3 : j = num(d, o, k) /\ runs[j] = row(d, o, k)
      BY <3>5
    <3>7. PICK k \in 1 .. 3 : j = num(d, o, k) /\ runs[j] = row(d, o, k)
      BY <3>6
    <3>8. n = o
      BY <1>6, <2>1, <3>4, <3>7
    <3>9. L[c] = L[d] /\ Rotated(TransportModes, n - 1)[m] = Rotated(TransportModes, n - 1)[k]
      BY <1>6, <2>1, <3>4, <3>7, <3>8
    <3>10. c = d /\ m = k
      BY <1>7, <1>11, <3>9
    <3> QED  BY <3>4, <3>7, <3>8, <3>10
  <2>2. \A r \in Rank : \A i, j \in Measured(r) :
          <<files[r].rows[i].k, files[r].rows[i].mode, files[r].rows[i].repetition>>
            = <<files[r].rows[j].k, files[r].rows[j].mode, files[r].rows[j].repetition>> => i = j
    BY <1>8, <2>1
  <2>3. {x.rank : x \in Observed} = Rank
    <3>1. ASSUME NEW x \in Observed
          PROVE  x.rank \in Rank
      BY <1>10
    <3>2. ASSUME NEW r \in Rank
          PROVE  \E x \in Observed : x.rank = r
      <4>1. PICK c \in 1 .. W : L[c] = p
        BY <1>3, <1>12
      <4> DEFINE n == a.warmup + a.repetitions
      <4>2. n \in Repetitions(a) /\ n > a.warmup
        BY <1>5
      <4> HIDE DEF n
      <4>4. PICK m \in 1 .. 3 : TRUE
        OBVIOUS
      <4>3. [rank |-> r, row |-> row(c, n, m)] \in Observed /\ [rank |-> r, row |-> row(c, n, m)].rank = r
        BY <1>9, <4>2
      <4> QED  BY <4>3
    <3> QED  BY <3>1, <3>2
  <2> QED  BY <2>2, <2>3 DEF RanksSeen
<1>15. Seen("k") = a.positions
  <2>1. ASSUME NEW x \in Observed
        PROVE  x.row["k"] \in a.positions
    <3>1. PICK c \in 1 .. W : \E n \in Repetitions(a) : \E m \in 1 .. 3 : x.row = row(c, n, m)
      BY <1>10
    <3>2. x.row.k = L[c]
      BY <1>6, <3>1
    <3> QED  BY <1>13, <3>2
  <2>2. ASSUME NEW k \in a.positions
        PROVE  \E x \in Observed : x.row["k"] = k
    <3>1. PICK c \in 1 .. W : L[c] = k
      BY <1>12
    <3>5. PICK m \in 1 .. 3 : TRUE
      OBVIOUS
    <3> DEFINE n == a.warmup + a.repetitions
               x == [rank |-> 1, row |-> row(c, n, m)]
    <3>4. n \in Repetitions(a) /\ n > a.warmup
      BY <1>5
    <3> HIDE DEF n
    <3>2. x \in Observed
      BY <1>9, <3>4, Ranks
    <3>3. x.row = row(c, n, m)
      OBVIOUS
    <3> HIDE DEF x
    <3> QED  BY <1>6, <3>1, <3>2, <3>3
  <2> QED  BY <2>1, <2>2 DEF Seen
<1>16. Seen("mode") = Range(TransportModes)
  <2>1. ASSUME NEW x \in Observed
        PROVE  x.row["mode"] \in Range(TransportModes)
    <3>1. PICK c \in 1 .. W : \E n \in Repetitions(a) : \E m \in 1 .. 3 : x.row = row(c, n, m)
      BY <1>10
    <3>2. PICK n \in Repetitions(a) : \E m \in 1 .. 3 : x.row = row(c, n, m)
      BY <3>1
    <3>3. PICK m \in 1 .. 3 : x.row = row(c, n, m)
      BY <3>2
    <3>4. x.row.mode = Rotated(TransportModes, n - 1)[m]
      BY <1>6, <3>3
    <3> QED  BY <1>7, <3>4
  <2>2. ASSUME NEW mode \in Range(TransportModes)
        PROVE  \E x \in Observed : x.row["mode"] = mode
    <3>1. PICK c \in 1 .. W : L[c] = p
      BY <1>3, <1>12
    <3> DEFINE n == a.warmup + a.repetitions
    <3>2. PICK m \in 1 .. 3 : Rotated(TransportModes, n - 1)[m] = mode
      BY <1>5, <1>7
    <3> DEFINE x == [rank |-> 1, row |-> row(c, n, m)]
    <3>6. n \in Repetitions(a) /\ n > a.warmup
      BY <1>5
    <3> HIDE DEF n
    <3>3. x \in Observed
      BY <1>9, <3>6, Ranks
    <3>4. x.row = row(c, n, m)
      OBVIOUS
    <3> HIDE DEF x
    <3>5. x.row.mode = mode
      BY <1>6, <3>2, <3>4
    <3> QED  BY <3>3, <3>5
  <2> QED  BY <2>1, <2>2 DEF Seen
<1>17. Paired("mode", Range(TransportModes), LAMBDA x : <<x.k, x.repetition>>)
  <2>1. ASSUME NEW x \in Observed
        PROVE  {y.row["mode"] : y \in {z \in Observed : <<z.row.k, z.row.repetition>> = <<x.row.k, x.row.repetition>>}}
                 = Range(TransportModes)
    <3>1. PICK c \in 1 .. W : \E n \in Repetitions(a) : \E m \in 1 .. 3 : x.row = row(c, n, m) /\ n > a.warmup
      BY <1>10
    <3>2. PICK n \in Repetitions(a) : \E m \in 1 .. 3 : x.row = row(c, n, m) /\ n > a.warmup
      BY <3>1
    <3>3. x.row.k = L[c] /\ x.row.repetition = n /\ n > a.warmup
      BY <1>6, <3>2
    <3>4. ASSUME NEW mode \in Range(TransportModes)
          PROVE  \E y \in Observed : /\ y.row["mode"] = mode
                                     /\ <<y.row.k, y.row.repetition>> = <<x.row.k, x.row.repetition>>
      <4>1. PICK m \in 1 .. 3 : Rotated(TransportModes, n - 1)[m] = mode
        BY <1>7
      <4> DEFINE y == [rank |-> 1, row |-> row(c, n, m)]
      <4>2. y \in Observed
        BY <1>9, <3>3, Ranks
      <4>3. y.row = row(c, n, m)
        OBVIOUS
      <4> HIDE DEF y
      <4>4. y.row.mode = mode /\ y.row.k = L[c] /\ y.row.repetition = n
        BY <1>6, <4>1, <4>3
      <4> QED  BY <3>3, <4>2, <4>4
    <3>5. \A y \in Observed : y.row["mode"] \in Range(TransportModes)
      BY <1>16 DEF Seen
    <3> QED  BY <3>4, <3>5
  <2> QED  BY <2>1 DEF Paired
<1>18. FilesPresent
  BY DEF FilesPresent
<1>19. a.warmup \in Nat /\ a.repetitions \in Nat \ {0}
  BY DEF Measures
(* With two repetitions there is always the other one ...                  *)
<1>20. ASSUME a.repetitions # 1, NEW x \in Observed
       PROVE  {y \in Observed : y.row.k = x.row.k /\ y.row.repetition # x.row.repetition} # {}
  <2>1. PICK c \in 1 .. W : \E n \in Repetitions(a) : \E m \in 1 .. 3 : x.row = row(c, n, m)
    BY <1>10
  <2> DEFINE first == a.warmup + 1
             second == a.warmup + 2
             o == IF x.row.repetition = first THEN second ELSE first
             y == [rank |-> 1, row |-> row(c, o, 1)]
  <2>2. o \in Repetitions(a) /\ o > a.warmup /\ o # x.row.repetition
    BY <1>19, <1>20 DEF Repetitions
  <2> HIDE DEF o
  <2>3. y \in Observed
    BY <1>9, <2>2, Ranks, 1 \in 1 .. 3
  <2>4. y.row.k = L[c] /\ y.row.repetition = o
    BY <1>6
  <2>5. x.row.k = L[c]
    BY <1>6, <2>1
  <2> HIDE DEF y
  <2> QED  BY <2>2, <2>3, <2>4, <2>5
(* ... and with one there never is.                                        *)
<1>21. ASSUME a.repetitions = 1, NEW x \in Observed
       PROVE  x.row.repetition = a.warmup + 1
  <2>1. PICK c \in 1 .. W : \E n \in Repetitions(a) : \E m \in 1 .. 3 : x.row = row(c, n, m) /\ n > a.warmup
    BY <1>10
  <2>2. PICK n \in Repetitions(a) : \E m \in 1 .. 3 : x.row = row(c, n, m) /\ n > a.warmup
    BY <2>1
  <2>3. n = a.warmup + 1
    BY <1>19, <1>21, <2>2 DEF Repetitions
  <2>4. x.row.repetition = n
    BY <1>6, <2>2
  <2> QED  BY <2>3, <2>4
<1>22. Spread <=> a.repetitions # 1
  <2>1. a.repetitions # 1 => Spread
    BY <1>20 DEF Spread
  <2>2. ASSUME a.repetitions = 1, Spread
        PROVE  FALSE
    <3>1. PICK x : x \in Observed
      BY <1>14, Ranks DEF RanksSeen
    <3>2. PICK y : y \in Observed /\ y.row.repetition # x.row.repetition
      BY <2>2, <3>1 DEF Spread
    <3> QED  BY <1>21, <2>2, <3>1, <3>2
  <2> QED  BY <2>1, <2>2
<1> QED  BY <1>14, <1>15, <1>16, <1>17, <1>18, <1>22 DEF GateAccepts

ProxyRun(a, n, m) ==
  LET arm == Rotated(RunArms, n - 1)[m]
  IN  [k |-> a.k, arm |-> arm, mode |-> Transport(arm), repetition |-> n, measured |-> n > a.warmup]

ProxyNumber(n, m) == (n - 1) * 5 + m

LEMMA ProxyRunsAre ==
  ASSUME NEW a, Measures(a)
  PROVE  /\ \A i \in DOMAIN ProxyRuns(a) :
              \E n \in Repetitions(a) : \E m \in 1 .. 5 :
                i = ProxyNumber(n, m) /\ ProxyRuns(a)[i] = ProxyRun(a, n, m)
         /\ \A n \in Repetitions(a) : \A m \in 1 .. 5 :
              ProxyNumber(n, m) \in DOMAIN ProxyRuns(a) /\ ProxyRuns(a)[ProxyNumber(n, m)] = ProxyRun(a, n, m)
<1> DEFINE R == a.warmup + a.repetitions
           run(before) ==
             LET n == (before \div Len(RunArms)) + 1
                 arm == Rotated(RunArms, n - 1)[(before % Len(RunArms)) + 1]
             IN  [k |-> a.k, arm |-> arm, mode |-> Transport(arm),
                  repetition |-> n, measured |-> n > a.warmup]
<1>1. R \in Nat \ {0} /\ Len(RunArms) = 5
  BY DEF Measures, RunArms, ControlArms, ConstructedArms
<1>2. ProxyRuns(a) = [i \in 1 .. 5 * R |-> run(i - 1)]
  <2>1. ProxyRuns(a) = [i \in 1 .. Len(RunArms) * R |-> run(i - 1)]
    BY DEF ProxyRuns
  <2> HIDE DEF run
  <2> QED  BY <1>1, <2>1
<1>3. ASSUME NEW n \in 0 .. R - 1, NEW m \in 0 .. 4, NEW x \in Nat, x = n * 5 + m
      PROVE  run(x) = ProxyRun(a, n + 1, m + 1)
  <2>1. x \div 5 = n /\ x % 5 = m
    BY <1>3
  <2>2. x \div Len(RunArms) = n /\ x % Len(RunArms) = m
    BY <1>1, <2>1
  <2> QED  BY <2>2 DEF ProxyRun
<1> HIDE DEF run
<1>4. ASSUME NEW i \in DOMAIN ProxyRuns(a)
      PROVE  \E n \in Repetitions(a) : \E m \in 1 .. 5 :
               i = ProxyNumber(n, m) /\ ProxyRuns(a)[i] = ProxyRun(a, n, m)
  <2> DEFINE x == i - 1
             n == x \div 5
             m == x % 5
  <2>1. x \in Nat /\ i \in 1 .. 5 * R /\ x + 1 = i
    BY <1>2
  <2>2. n \in Nat /\ m \in 0 .. 4 /\ x = n * 5 + m
    <3> HIDE DEF x
    <3> QED  BY <2>1, Quotient
  <2> HIDE DEF n, m, R
  <2>3. n \in 0 .. R - 1
    BY <1>1, <2>1, <2>2
  <2>4. run(x) = ProxyRun(a, n + 1, m + 1)
    BY <1>3, <2>1, <2>2, <2>3
  <2>5. i = ProxyNumber(n + 1, m + 1) /\ n + 1 \in Repetitions(a) /\ m + 1 \in 1 .. 5
    BY <1>1, <2>1, <2>2, <2>3 DEF ProxyNumber, Repetitions, R
  <2>6. ProxyRuns(a)[i] = run(x)
    BY <1>2, <2>1
  <2> QED  BY <2>4, <2>5, <2>6
<1>5. ASSUME NEW n \in Repetitions(a), NEW m \in 1 .. 5
      PROVE  ProxyNumber(n, m) \in DOMAIN ProxyRuns(a) /\ ProxyRuns(a)[ProxyNumber(n, m)] = ProxyRun(a, n, m)
  <2> DEFINE e == n - 1
             f == m - 1
             x == e * 5 + f
  <2>1. e \in 0 .. R - 1 /\ f \in 0 .. 4 /\ e + 1 = n /\ f + 1 = m
    BY <1>1 DEF Repetitions
  <2>2. x \in Nat /\ x + 1 = ProxyNumber(n, m) /\ x + 1 \in 1 .. 5 * R /\ (x + 1) - 1 = x
    BY <1>1, <2>1 DEF ProxyNumber
  <2> HIDE DEF R
  <2>3. run(x) = ProxyRun(a, e + 1, f + 1)
    <3> HIDE DEF e, f
    <3> QED  BY <1>3, <2>1, <2>2
  <2> HIDE DEF x
  <2>4. ProxyRuns(a)[x + 1] = run(x) /\ x + 1 \in DOMAIN ProxyRuns(a)
    BY <1>2, <2>2
  <2> HIDE DEF e, f
  <2> QED  BY <2>1, <2>2, <2>3, <2>4
<1> QED  BY <1>4, <1>5

(* The same for the proxy validation. *)
LEMMA ProxyRowsAccepted ==
  ASSUME NEW a, Measures(a), program = "proxy", runs = ProxyRuns(a),
         metadata # Absent, metadata.readable, metadata.args = a,
         \A r \in Rank : WrittenInFull(r), \A r \in Rank : files[r] # Absent
  PROVE  ProxyAccepts
<1> DEFINE num(n, m) == ProxyNumber(n, m)
           row(n, m) == ProxyRun(a, n, m)
<1>1. /\ \A i \in DOMAIN runs :
           \E n \in Repetitions(a) : \E m \in 1 .. 5 : i = num(n, m) /\ runs[i] = row(n, m)
      /\ \A n \in Repetitions(a) : \A m \in 1 .. 5 :
           num(n, m) \in DOMAIN runs /\ runs[num(n, m)] = row(n, m)
  BY ProxyRunsAre
<1>2. \A n \in Repetitions(a) : n \in Nat \ {0} /\ n - 1 \in Nat
  BY DEF Repetitions
<1>3. PICK last \in Repetitions(a) : last > a.warmup
  BY DEF Repetitions, Measures
<1>4. \A n, m : /\ row(n, m).repetition = n /\ row(n, m).k = a.k
                /\ row(n, m).arm = Rotated(RunArms, n - 1)[m]
                /\ (row(n, m).measured <=> n > a.warmup)
  BY DEF ProxyRun
<1>5. \A n \in Repetitions(a) :
        /\ \A m \in 1 .. 5 : Rotated(RunArms, n - 1)[m] \in Range(RunArms)
        /\ \A m, k \in 1 .. 5 : Rotated(RunArms, n - 1)[m] = Rotated(RunArms, n - 1)[k] => m = k
        /\ \A arm \in Range(RunArms) : \E m \in 1 .. 5 : Rotated(RunArms, n - 1)[m] = arm
  BY <1>2, RotatedArms
<1> HIDE DEF num, row
<1>6. /\ \A r \in Rank : files[r].rows = runs /\ Measured(r) = {n \in DOMAIN runs : runs[n].measured}
      /\ \A r \in Rank : \A n \in DOMAIN runs :
           runs[n].measured => [rank |-> r, row |-> runs[n]] \in Observed
      /\ \A x \in Observed : \E r \in Rank : \E n \in DOMAIN runs :
           runs[n].measured /\ x = [rank |-> r, row |-> runs[n]]
  BY ObservedRows
<1>7. ASSUME NEW r \in Rank, NEW n \in Repetitions(a), NEW m \in 1 .. 5, n > a.warmup
      PROVE  [rank |-> r, row |-> row(n, m)] \in Observed
  <2>1. num(n, m) \in DOMAIN runs /\ runs[num(n, m)] = row(n, m)
    BY <1>1
  <2>2. runs[num(n, m)].measured
    BY <1>4, <1>7, <2>1
  <2> QED  BY <1>6, <2>1, <2>2
<1>8. ASSUME NEW x \in Observed
      PROVE  \E n \in Repetitions(a) : \E m \in 1 .. 5 :
               x.row = row(n, m) /\ n > a.warmup /\ x.rank \in Rank
  <2>1. PICK r \in Rank : \E i \in DOMAIN runs : runs[i].measured /\ x = [rank |-> r, row |-> runs[i]]
    BY <1>6
  <2>2. PICK i \in DOMAIN runs : runs[i].measured /\ x = [rank |-> r, row |-> runs[i]]
    BY <2>1
  <2>3. PICK n \in Repetitions(a) : \E m \in 1 .. 5 : i = num(n, m) /\ runs[i] = row(n, m)
    BY <1>1
  <2>4. PICK m \in 1 .. 5 : i = num(n, m) /\ runs[i] = row(n, m)
    BY <2>3
  <2>5. n > a.warmup
    BY <1>4, <2>2, <2>4
  <2> QED  BY <2>2, <2>4, <2>5
(* Each measured run of each rank, for a chosen arm.                       *)
<1>9. ASSUME NEW r \in Rank, NEW n \in Repetitions(a), n > a.warmup, NEW arm \in Range(RunArms)
      PROVE  \E x \in Observed : /\ x.rank = r /\ x.row.arm = arm
                                 /\ x.row.repetition = n /\ x.row.k = a.k
  <2>1. PICK m \in 1 .. 5 : Rotated(RunArms, n - 1)[m] = arm
    BY <1>5
  <2> DEFINE x == [rank |-> r, row |-> row(n, m)]
  <2>2. x \in Observed
    BY <1>7, <1>9
  <2>3. x.row = row(n, m) /\ x.rank = r
    OBVIOUS
  <2> HIDE DEF x
  <2>4. x.row.arm = arm /\ x.row.repetition = n /\ x.row.k = a.k
    BY <1>4, <2>1, <2>3
  <2> QED  BY <2>2, <2>3, <2>4
<1>10. PICK some \in Range(RunArms) : TRUE
  <2>1. RunArms[1] \in Range(RunArms)
    BY DEF RunArms, ControlArms, ConstructedArms, Range
  <2> QED  BY <2>1
<1>11. \A x \in Observed : x.row.arm \in Range(RunArms) /\ x.row.k = a.k
  <2> TAKE x \in Observed
  <2>1. PICK n \in Repetitions(a) : \E m \in 1 .. 5 : x.row = row(n, m)
    BY <1>8
  <2>2. PICK m \in 1 .. 5 : x.row = row(n, m)
    BY <2>1
  <2>3. x.row.arm = Rotated(RunArms, n - 1)[m] /\ x.row.k = a.k
    BY <1>4, <2>2
  <2> QED  BY <1>5, <2>3
<1>12. RanksSeen(LAMBDA x : <<x.arm, x.repetition>>)
  <2>1. ASSUME NEW r \in Rank, NEW i \in Measured(r), NEW j \in Measured(r),
               runs[i].arm = runs[j].arm, runs[i].repetition = runs[j].repetition
        PROVE  i = j
    <3>1. i \in DOMAIN runs /\ j \in DOMAIN runs
      BY <1>6
    <3>2. PICK n \in Repetitions(a) : \E m \in 1 .. 5 : i = num(n, m) /\ runs[i] = row(n, m)
      BY <1>1, <3>1
    <3>3. PICK m \in 1 .. 5 : i = num(n, m) /\ runs[i] = row(n, m)
      BY <3>2
    <3>4. PICK o \in Repetitions(a) : \E k \in 1 .. 5 : j = num(o, k) /\ runs[j] = row(o, k)
      BY <1>1, <3>1
    <3>5. PICK k \in 1 .. 5 : j = num(o, k) /\ runs[j] = row(o, k)
      BY <3>4
    <3>6. n = o
      BY <1>4, <2>1, <3>3, <3>5
    <3>7. Rotated(RunArms, n - 1)[m] = Rotated(RunArms, n - 1)[k]
      BY <1>4, <2>1, <3>3, <3>5, <3>6
    <3>8. m = k
      BY <1>5, <3>7
    <3> QED  BY <3>3, <3>5, <3>6, <3>8
  <2>2. \A r \in Rank : \A i, j \in Measured(r) :
          <<files[r].rows[i].arm, files[r].rows[i].repetition>>
            = <<files[r].rows[j].arm, files[r].rows[j].repetition>> => i = j
    BY <1>6, <2>1
  <2>3. {x.rank : x \in Observed} = Rank
    <3>1. \A x \in Observed : x.rank \in Rank
      BY <1>8
    <3>2. \A r \in Rank : \E x \in Observed : x.rank = r
      BY <1>3, <1>9, <1>10
    <3> QED  BY <3>1, <3>2
  <2> QED  BY <2>2, <2>3 DEF RanksSeen
<1>13. Seen("arm") = Range(RunArms)
  <2>1. \A arm \in Range(RunArms) : \E x \in Observed : x.row["arm"] = arm
    BY <1>3, <1>9, Ranks
  <2> QED  BY <1>11, <2>1 DEF Seen
<1>14. Seen("k") = {metadata.args.k}
  <2>1. \E x \in Observed : x.row["k"] = a.k
    BY <1>3, <1>9, <1>10, Ranks
  <2> QED  BY <1>11, <2>1 DEF Seen
<1>15. Paired("arm", Range(RunArms), LAMBDA x : x.repetition)
  <2>1. ASSUME NEW x \in Observed
        PROVE  {y.row["arm"] : y \in {z \in Observed : z.row.repetition = x.row.repetition}} = Range(RunArms)
    <3>1. PICK n \in Repetitions(a) : \E m \in 1 .. 5 : x.row = row(n, m) /\ n > a.warmup
      BY <1>8
    <3>2. x.row.repetition = n /\ n > a.warmup
      BY <1>4, <3>1
    <3>3. \A arm \in Range(RunArms) : \E y \in Observed : y.row["arm"] = arm /\ y.row.repetition = x.row.repetition
      BY <1>9, <3>2, Ranks
    <3> QED  BY <1>11, <3>3
  <2> QED  BY <2>1 DEF Paired
<1>16. FilesPresent
  BY DEF FilesPresent
<1> QED  BY <1>12, <1>13, <1>14, <1>15, <1>16 DEF ProxyAccepts

(* What the producer of the rows promises suffices for their consumer:     *)
(* with the metadata of a launch that passed, the analysis never raises    *)
(* for duplicate, missing or unpaired rows, whatever earlier launches left *)
(* in the directory (analyze_timing_gate_ep4.py:61-109,                    *)
(* analyze_proxy_validation_ep4.py:84-122).  The one exception are the     *)
(* gate's launches with one repetition, which it never analyzes            *)
(* (benchmark_timing_gate_ep4.py:72, analyze_timing_gate_ep4.py:177-186).  *)
THEOREM PassIsAccepted == ReviewedSpec => []PassedIsAccepted
<1>1. ReviewedInv => PassedIsAccepted
  <2> SUFFICES ASSUME LaunchInv, program \in {"gate", "proxy"},
                      metadata # Absent, metadata.launch = launch, metadata.readable
               PROVE  Accepts <=> ~(program = "gate" /\ metadata.args.repetitions = 1)
    BY DEF PassedIsAccepted, ReviewedInv
  <2>1. Launched /\ Placed /\ Kept /\ Signed
    BY DEF LaunchInv
  <2>2. \A r \in Rank : WrittenInFull(r)
    BY SignedIsComplete
  <2>3. metadata.args = args
    BY <2>1 DEF Signed
  <2>4. ~Refuses(program, args)
    <3>1. at[1].run \in 1 .. Len(runs)
      BY <2>1, Ranks DEF Signed, Placed
    <3>2. Refuses(program, args) => runs = <<>>
      BY <2>1 DEF Launched, RunsOf
    <3> QED  BY <3>1, <3>2
  <2>5. Measures(args) /\ (program = "gate" => Widths(args))
    BY <2>1, <2>4, LaunchAssumption DEF Launched, Measures, Widths
  <2>6. ASSUME NEW r \in Rank
        PROVE  files[r] # Absent
    <3>1. files[r] = [launch |-> launch, rows |-> RunsOf(program, args)] /\ launch \in Nat
      BY <2>1, <2>2 DEF WrittenInFull, Launched, Signed
    <3>2. files[r] \in [launch : Nat, rows : {RunsOf(program, args)}]
      BY <3>1
    <3> QED  BY <2>1, <3>2, AbsentAssumption DEF Launched
  <2>7. CASE program = "gate"
    <3>1. runs = GateRuns(args)
      BY <2>1, <2>4, <2>7 DEF Launched, RunsOf
    <3> QED  BY <2>2, <2>3, <2>5, <2>6, <2>7, <3>1, GateRowsAccepted DEF Accepts
  <2>8. CASE program = "proxy"
    <3>1. runs = ProxyRuns(args)
      BY <2>1, <2>4, <2>8 DEF Launched, RunsOf
    <3> QED  BY <2>2, <2>3, <2>5, <2>6, <2>8, <3>1, ProxyRowsAccepted DEF Accepts
  <2> QED  BY <2>7, <2>8
<1> QED  BY <1>1, ReviewedInvariance, PTL
(* Counting to m * M by turns reaches every number below M m times.        *)
Turned(m, M, K) == {a \in 1 .. m * M : (a - 1) % M \in K}

LEMMA TurnsCount ==
  ASSUME NEW m \in Nat, NEW M \in Nat \ {0}, NEW K, K \subseteq 0 .. M - 1
  PROVE  IsFiniteSet(Turned(m, M, K)) /\ Cardinality(Turned(m, M, K)) = m * Cardinality(K)
<1> DEFINE S == (1 .. m) \X K
           T == Turned(m, M, K)
           f == [y \in S |-> (y[1] - 1) * M + y[2] + 1]
<1>1. /\ IsFiniteSet(K) /\ IsFiniteSet(1 .. m) /\ Cardinality(1 .. m) = m
      /\ Cardinality(K) \in Nat
  <2>1. IsFiniteSet(0 .. M - 1) /\ IsFiniteSet(1 .. m) /\ Cardinality(1 .. m) = m
    BY FS_Interval
  <2> QED  BY <2>1, FS_Subset, FS_CardinalityType
<1>2. IsFiniteSet(S) /\ Cardinality(S) = m * Cardinality(K)
  BY <1>1, FS_Product
<1>3. ASSUME NEW y \in S
      PROVE  /\ y[1] \in 1 .. m /\ y[2] \in K /\ y = <<y[1], y[2]>> /\ y[1] - 1 \in Nat
             /\ y[2] \in 0 .. M - 1 /\ (y[1] - 1) * M \in Nat /\ f[y] \in T
             /\ (f[y] - 1) \div M = y[1] - 1 /\ (f[y] - 1) % M = y[2]
  <2> DEFINE q == y[1] - 1
             r == y[2]
             b == q * M + r
  <2>1. y[1] \in 1 .. m /\ y[2] \in K /\ y = <<y[1], y[2]>> /\ q \in Nat /\ q + 1 <= m
    OBVIOUS
  <2>2. r \in 0 .. M - 1
    BY <2>1
  <2>3. f[y] = b + 1
    BY DEF f
  <2> HIDE DEF q, r, f
  <2>4. b \div M = q /\ b % M = r
    BY <2>1, <2>2, RemainderIs
  <2>5. (q + 1) * M <= m * M
    BY <2>1, ProductMonotone
  <2>6. q * M \in Nat /\ (q + 1) * M = q * M + M /\ m * M \in Nat
    BY <2>1
  <2> DEFINE c == q * M
             k == m * M
  <2>7. c \in Nat /\ k \in Nat /\ c + M <= k /\ b = c + r
    BY <2>5, <2>6
  <2> HIDE DEF c, k, b
  <2> DEFINE a == b + 1
  <2>8. a \in 1 .. k /\ a - 1 = b
    BY <2>2, <2>7
  <2> HIDE DEF a
  <2>9. a \in 1 .. m * M /\ (a - 1) % M \in K
    <3>1. (a - 1) % M = r
      BY <2>4, <2>8
    <3>2. a \in 1 .. m * M
      BY <2>8 DEF k
    <3>3. r \in K
      BY <2>1 DEF r
    <3> QED  BY <3>1, <3>2, <3>3
  <2>10. a \in T
    BY <2>9 DEF Turned
  <2> HIDE DEF T
  <2>11. f[y] = a
    BY <2>3 DEF a
  <2>12. f[y] \in T /\ (f[y] - 1) \div M = q /\ (f[y] - 1) % M = r
    BY <2>4, <2>8, <2>10, <2>11
  <2> QED  BY <2>1, <2>2, <2>6, <2>12 DEF q, r
<1>4. ASSUME NEW a \in T
      PROVE  \E y \in S : f[y] = a
  <2> DEFINE b == a - 1
             q == b \div M
             r == b % M
             y == <<q + 1, r>>
             k == m * M
  <2>1. k \in Nat /\ a \in 1 .. k /\ r \in K
    BY DEF Turned
  <2>2. b \in Nat /\ b < k
    BY <2>1
  <2> HIDE DEF b
  <2>3. q \in Nat /\ r \in 0 .. M - 1 /\ b = q * M + r
    BY <2>2, Quotient
  <2> HIDE DEF q, r
  <2>4. q < m
    <3>1. CASE m <= q
      <4>1. m * M <= q * M
        BY <2>3, <3>1, ProductMonotone
      <4> DEFINE c == q * M
      <4>2. c \in Nat /\ k <= c /\ b = c + r
        BY <2>3, <4>1
      <4> HIDE DEF c, k
      <4> QED  BY <2>1, <2>2, <2>3, <4>2
    <3> QED  BY <2>3, <3>1
  <2>5. q + 1 \in 1 .. m
    BY <2>3, <2>4
  <2>6. y \in S /\ y[1] = q + 1 /\ y[2] = r
    BY <2>1, <2>5
  <2> HIDE DEF y
  <2>7. f[y] = (y[1] - 1) * M + y[2] + 1
    <3> HIDE DEF S
    <3> QED  BY <2>6
  <2>8. q + 1 - 1 = q
    BY <2>3
  <2>9. f[y] = b + 1
    BY <2>3, <2>6, <2>7, <2>8
  <2> QED  BY <2>1, <2>6, <2>9 DEF b
<1> HIDE DEF S, T, f
<1>5. f \in [S -> T]
  <2>1. f = [y \in S |-> f[y]]
    BY DEF f
  <2> QED  BY <1>3, <2>1
<1>6. f \in Surjection(S, T)
  BY <1>4, <1>5 DEF Surjection
<1>7. f \in Injection(S, T)
  <2>1. ASSUME NEW x \in S, NEW y \in S, f[x] = f[y]
        PROVE  x = y
    <3>1. x[1] - 1 = y[1] - 1 /\ x[2] = y[2]
      BY <1>3, <2>1
    <3>2. x[1] \in 1 .. m /\ y[1] \in 1 .. m
      BY <1>3
    <3>3. x[1] = y[1]
      BY <3>1, <3>2
    <3>4. x = <<x[1], x[2]>> /\ y = <<y[1], y[2]>>
      BY <1>3
    <3> QED  BY <3>1, <3>3, <3>4
  <2> QED  BY <1>5, <2>1 DEF Injection, IsInjective
<1>8. IsFiniteSet(T) /\ Cardinality(T) = Cardinality(S)
  BY <1>2, <1>6, <1>7, FS_Surjection
<1> QED  BY <1>2, <1>8 DEF T

(* Packing moves the assignments about, and keeps all of them.             *)
LEMMA PackedCount ==
  ASSUME NEW n \in Nat, NEW ids, Homed(ids, n), NEW T \in SUBSET (1 .. n)
  PROVE  Cardinality({x \in 1 .. n : PackOrder(ids)[x] \in T}) = Cardinality(T)
<1> DEFINE N == 1 .. n
           g == [x \in N |-> PackOrder(ids)[x]]
           P == {x \in N : PackOrder(ids)[x] \in T}
           h == [x \in P |-> g[x]]
<1>1. PartSizes(ids) \in [Source -> Nat]
  BY PartSizesAre
<1>2. PICK f : Begins(f, PartSizes(ids)) /\ \A i, j \in Nat : i <= j => f[i] <= f[j]
  BY <1>1, BeginsExist
<1>3. \A a \in N : \E x \in N : PackOrder(ids)[x] = a
  BY <1>2, PackOrderLists
<1>4. \A x \in N : PackOrder(ids)[x] \in N
  BY PackOrderWithin
<1>5. g \in [N -> N] /\ \A x \in N : g[x] = PackOrder(ids)[x]
  BY <1>4
<1>6. P = {x \in N : g[x] \in T}
  BY <1>5
<1>7. IsFiniteSet(N)
  BY FS_Interval
<1> HIDE DEF N, g, P
<1>8. g \in Surjection(N, N)
  BY <1>3, <1>5 DEF Surjection
<1>9. g \in Injection(N, N)
  BY <1>7, <1>8, FS_Surjection
<1>10. \A x, y \in N : g[x] = g[y] => x = y
  BY <1>9 DEF Injection, IsInjective
<1>11. h \in [P -> T] /\ \A x \in P : h[x] = g[x]
  BY <1>6
<1>12. h \in Surjection(P, T)
  <2>1. ASSUME NEW a \in T
        PROVE  \E x \in P : h[x] = a
    <3>1. a \in N
      BY DEF N
    <3>2. PICK x \in N : g[x] = a
      BY <3>1, <1>3, <1>5
    <3>3. x \in P
      BY <1>6, <3>2
    <3> QED  BY <3>2, <3>3, <1>11
  <2> HIDE DEF h
  <2> QED  BY <1>11, <2>1 DEF Surjection
<1>13. h \in Injection(P, T)
  <2>1. P \subseteq N
    BY <1>6
  <2> HIDE DEF h
  <2> QED  BY <1>10, <1>11, <2>1 DEF Injection, IsInjective
<1>14. IsFiniteSet(P)
  BY <1>6, <1>7, FS_Subset
<1>15. Cardinality(T) = Cardinality(P)
  BY <1>12, <1>13, <1>14, FS_Surjection
<1> QED  BY <1>15 DEF P, N

-----------------------------------------------------------------------------
(* The experts of the three programs' routes. *)

(* The experts of a rank are numbered together.                            *)
LEMMA ExpertOf ==
  ASSUME NEW d \in Source, NEW x \in LocalExpert
  PROVE  LET e == (d - 1) * ExpertsPerRank + x
         IN  e \in Expert /\ HomeOf(e) = d /\ LocalId(e) = x
<1> DEFINE E == ExpertsPerRank
           q == d - 1
           e == q * E + x
<1>1. E \in Nat \ {0} /\ x \in 0 .. E - 1 /\ q \in Nat /\ q + 1 = d /\ d <= NumSources
      /\ NumSources \in Nat
  BY ExchangeAssumption, SourceNumbers DEF LocalExpert
<1> HIDE DEF E, q
<1>2. e \div E = q /\ e % E = x
  BY <1>1, RemainderIs
<1>3. (q + 1) * E <= NumSources * E
  BY <1>1, ProductMonotone
<1> DEFINE c == q * E
           k == NumSources * E
<1>4. c \in Nat /\ k \in Nat /\ (q + 1) * E = c + E /\ e = c + x
  BY <1>1
<1>5. c + E <= k
  BY <1>3, <1>4
<1> HIDE DEF c, k
<1>6. e \in 0 .. k - 1
  <2> HIDE DEF e
  <2> QED  BY <1>1, <1>4, <1>5
<1> HIDE DEF e
<1>7. e \in Expert
  BY <1>6 DEF Expert, k, E
<1>8. HomeOf(e) = d /\ LocalId(e) = x
  BY <1>1, <1>2 DEF HomeOf, LocalId, E
<1> QED  BY <1>7, <1>8 DEF e, q, E

(* Going round all experts. *)
LEMMA RoundExperts ==
  ASSUME NEW i \in Nat
  PROVE  i % (NumSources * ExpertsPerRank) \in Expert
<1> DEFINE k == NumSources * ExpertsPerRank
<1>1. k \in Nat \ {0}
  BY ExchangeAssumption, SourceNumbers, ProductPositive
<1>2. i % k \in 0 .. k - 1
  <2> HIDE DEF k
  <2> QED  BY <1>1, Quotient
<1> QED  BY <1>2 DEF Expert

(* The assignment a of K times T: which slot of which of the K it is.      *)
LEMMA SlotsOfTurns ==
  ASSUME NEW K \in Nat, NEW T \in Nat, NEW a \in 1 .. K * T
  PROVE  T # 0 /\ (a - 1) \div T \in 0 .. K - 1 /\ (a - 1) % T \in 0 .. T - 1 /\ a - 1 \in Nat
<1> DEFINE b == a - 1
           n == K * T
<1>1. n \in Nat /\ a \in 1 .. n
  OBVIOUS
<1>2. b \in Nat /\ b < n
  <2> HIDE DEF n
  <2> QED  BY <1>1
<1>3. T # 0
  BY <1>1, <1>2
<1> HIDE DEF b
<1> DEFINE q == b \div T
           r == b % T
<1>4. q \in Nat /\ r \in 0 .. T - 1 /\ b = q * T + r
  BY <1>2, <1>3, Quotient
<1> HIDE DEF q, r
<1>5. ASSUME K <= q
      PROVE  FALSE
  <2>1. K * T <= q * T
    BY <1>4, <1>5, ProductMonotone
  <2> DEFINE c == q * T
  <2>2. c \in Nat /\ n <= c /\ b = c + r
    BY <1>4, <2>1
  <2> HIDE DEF c, n
  <2> QED  BY <1>1, <1>2, <1>4, <2>2
<1>6. q < K
  BY <1>4, <1>5
<1>7. q \in 0 .. K - 1
  BY <1>4, <1>6
<1> QED  BY <1>2, <1>3, <1>4, <1>7 DEF q, r, b

(* The timing gate goes round the experts. *)
LEMMA GateHomed ==
  ASSUME NEW run, run.k \in Nat
  PROVE  /\ BatchSize * run.k * TopK \in Nat
         /\ AllHomed([s \in Source |-> BalancedIds(run)], BatchSize * run.k * TopK)
<1> DEFINE n == BatchSize * run.k * TopK
<1>1. n \in Nat
  <2>1. BatchSize * run.k \in Nat
    BY PlanAssumption
  <2> QED  BY <2>1, ExchangeAssumption
<1> HIDE DEF n
<1>2. BalancedIds(run) = [a \in 1 .. n |-> (a - 1) % (NumSources * ExpertsPerRank)]
  BY DEF BalancedIds, n
<1>3. \A a \in 1 .. n : (a - 1) % (NumSources * ExpertsPerRank) \in Expert
  <2>1. \A a \in 1 .. n : a - 1 \in Nat
    BY <1>1
  <2> QED  BY <2>1, RoundExperts
<1>4. DOMAIN BalancedIds(run) = 1 .. n /\ \A a \in 1 .. n : BalancedIds(run)[a] \in Expert
  BY <1>2, <1>3
<1>5. AllHomed([s \in Source |-> BalancedIds(run)], n)
  BY <1>4 DEF AllHomed
<1> QED  BY <1>1, <1>5 DEF n

(* Every request of a constructed plan is one of the eight.                *)
LEMMA PlannedRequests ==
  ASSUME NumSources = 4, NEW arm, NEW s \in Source, NEW b \in Batch, NEW i \in Slot,
         arm \in Range(ConstructedArms)
  PROVE  GlobalPlans(arm)[s][b][i] \in 1 .. 8
<1>1. BatchSize = 4 /\ NumRequests = 8 /\ Batch = 1 .. 2 /\ Slot = 1 .. 4 /\ Source = 1 .. 4
  <2>1. BatchSize = 4 /\ NumRequests = 8
    BY ConstructedAssumption
  <2>2. BatchCount = 2
    BY <2>1 DEF BatchCount
  <2> QED  BY <2>1, <2>2 DEF Batch, Slot, Source
<1>2. FifoPlan[s][b][i] \in 1 .. 8
  <2>1. FifoPlan[s][b][i] = [r \in Request |-> r][(b - 1) * 4 + i]
    BY <1>1 DEF FifoPlan, Sliced
  <2>2. (b - 1) * 4 + i \in 1 .. 8
    BY <1>1
  <2> QED  BY <1>1, <2>1, <2>2 DEF Request
<1>3. BalancedPlan[b][i] \in 1 .. 8
  BY <1>1 DEF BalancedPlan
<1>4. CASE arm = "fifo_constructed"
  BY <1>2, <1>4 DEF GlobalPlans
<1>5. CASE arm = "dose_083_constructed"
  <2>1. GlobalPlans(arm)[s] = IF s = 1 THEN BalancedPlan ELSE FifoPlan[s]
    BY <1>5 DEF GlobalPlans, FifoPlan
  <2> QED  BY <1>2, <1>3, <2>1
<1>6. CASE arm = "balanced_constructed"
  BY <1>3, <1>6 DEF GlobalPlans
<1>7. arm \in {"fifo_constructed", "dose_083_constructed", "balanced_constructed"}
  BY DEF Range, ConstructedArms
<1> QED  BY <1>4, <1>5, <1>6, <1>7

(* A control has the requests of a constructed arm.                        *)
LEMMA ComposedArms ==
  ASSUME NEW arm \in Range(RunArms)
  PROVE  Composition(arm) \in Range(ConstructedArms)
<1>1. /\ RunArms[1] = "fifo_local_copy_control" /\ RunArms[2] = "fifo_nccl_minimal_control"
      /\ RunArms[3] = "fifo_constructed" /\ RunArms[4] = "dose_083_constructed"
      /\ RunArms[5] = "balanced_constructed" /\ DOMAIN RunArms = {1, 2, 3, 4, 5}
  BY DEF RunArms, ControlArms, ConstructedArms
<1>2. Range(ConstructedArms) = {"fifo_constructed", "dose_083_constructed", "balanced_constructed"}
  <2>1. /\ ConstructedArms[1] = "fifo_constructed" /\ ConstructedArms[2] = "dose_083_constructed"
        /\ ConstructedArms[3] = "balanced_constructed" /\ DOMAIN ConstructedArms = {1, 2, 3}
    BY DEF ConstructedArms
  <2> QED  BY <2>1 DEF Range
<1>3. arm \in {"fifo_local_copy_control", "fifo_nccl_minimal_control"} \union Range(ConstructedArms)
  BY <1>1, <1>2 DEF Range
<1>4. Range(ControlArms) = {"fifo_local_copy_control", "fifo_nccl_minimal_control"}
  <2>1. /\ ControlArms[1] = "fifo_local_copy_control" /\ ControlArms[2] = "fifo_nccl_minimal_control"
        /\ DOMAIN ControlArms = {1, 2}
    BY DEF ControlArms
  <2> QED  BY <2>1 DEF Range
<1> QED  BY <1>2, <1>3, <1>4 DEF Composition

(* The routes of the proxy validation.                                     *)
LEMMA ProxyHomed ==
  ASSUME NumSources = 4, NEW run, run.k \in Nat, run.arm \in Range(RunArms), NEW b \in Batch
  PROVE  /\ BatchSize * run.k * TopK \in Nat
         /\ AllHomed([s \in Source |-> ProxyIds(run, s, b)], BatchSize * run.k * TopK)
<1> DEFINE n == BatchSize * run.k * TopK
           T == run.k * TopK
           arm == Composition(run.arm)
<1>1. BatchSize = 4 /\ TopK = 2 /\ ExpertsPerRank \in Nat /\ ExpertsPerRank > 1 /\ Source = 1 .. 4
  BY ConstructedAssumption, ExchangeAssumption DEF Source
<1>2. n \in Nat /\ T \in Nat /\ n = BatchSize * T
  BY <1>1
<1>3. arm \in Range(ConstructedArms)
  BY ComposedArms
<1> HIDE DEF arm
<1>4. ASSUME NEW q \in 1 .. 8, NEW m \in 1 .. 2
      PROVE  RequestExperts(q)[m] \in Expert
  <2>1. Preferences[q] \in 1 .. 4
    BY DEF Preferences
  <2>2. NextRank(Preferences[q]) \in 1 .. 4
    BY <2>1 DEF NextRank
  <2>3. 0 \in LocalExpert /\ 1 \in LocalExpert
    BY <1>1 DEF LocalExpert
  <2> DEFINE c == Preferences[q]
             d == NextRank(c)
  <2>4. c \in Source /\ d \in Source
    BY <1>1, <2>1, <2>2
  <2>5. RequestExperts(q) = <<(c - 1) * ExpertsPerRank, (d - 1) * ExpertsPerRank + 1>>
    BY DEF RequestExperts
  <2> HIDE DEF c, d
  <2>6. (c - 1) * ExpertsPerRank + 0 \in Expert
    BY <2>3, <2>4, ExpertOf
  <2>7. (d - 1) * ExpertsPerRank + 1 \in Expert
    BY <2>3, <2>4, ExpertOf
  <2>8. (c - 1) * ExpertsPerRank + 0 = (c - 1) * ExpertsPerRank
    <3>1. c - 1 \in Int
      BY <1>1, <2>4
    <3>2. (c - 1) * ExpertsPerRank \in Int
      BY <1>1, <3>1
    <3> QED  BY <3>2
  <2>9. m = 1 \/ m = 2
    OBVIOUS
  <2> QED  BY <2>5, <2>6, <2>7, <2>8, <2>9
<1>5. ASSUME NEW s \in Source
      PROVE  /\ DOMAIN ProxyIds(run, s, b) = 1 .. n
             /\ \A a \in 1 .. n : ProxyIds(run, s, b)[a] \in Expert
  <2> DEFINE batch == GlobalPlans(arm)[s][b]
             ids == ProxyIds(run, s, b)
  <2>1. ids = [a \in 1 .. n |-> RequestExperts(batch[((a - 1) \div T) + 1])[((a - 1) % TopK) + 1]]
    BY DEF ProxyIds, PlanIds, arm
  <2>2. \A i \in Slot : batch[i] \in 1 .. 8
    BY <1>3, PlannedRequests
  <2> HIDE DEF batch, ids, n, T
  <2>3. ASSUME NEW a \in 1 .. n
        PROVE  ids[a] \in Expert
    <3> DEFINE i == ((a - 1) \div T) + 1
               m == ((a - 1) % TopK) + 1
    <3>1. a \in 1 .. BatchSize * T /\ BatchSize \in Nat
      BY <1>1, <1>2
    <3>2. (a - 1) \div T \in 0 .. BatchSize - 1 /\ a - 1 \in Nat
      BY <1>2, <3>1, SlotsOfTurns
    <3>3. i \in Slot
      BY <1>1, <3>2 DEF Slot
    <3>4. m \in 1 .. 2
      BY <1>1, <3>2
    <3>5. ids[a] = RequestExperts(batch[i])[m]
      BY <2>1
    <3> HIDE DEF i, m
    <3> QED  BY <1>4, <2>2, <3>3, <3>4, <3>5
  <2>4. DOMAIN ids = 1 .. n
    BY <2>1
  <2> QED  BY <2>3, <2>4 DEF ids
<1> HIDE DEF n
<1>6. AllHomed([s \in Source |-> ProxyIds(run, s, b)], n)
  BY <1>5 DEF AllHomed
<1> QED  BY <1>2, <1>6 DEF n

(* The routes of the prototype. *)
LEMMA ParallelHomed ==
  ASSUME NumSources = 4, NEW run, run.k \in Nat, run.topK \in 0 .. 8, run.kind \in Range(RoutingModes)
  PROVE  /\ BatchSize * run.k * run.topK \in Nat
         /\ AllHomed([s \in Source |-> ParallelIds(run, s)], BatchSize * run.k * run.topK)
<1> DEFINE n == BatchSize * run.k * run.topK
           K == BatchSize * run.k
           T == run.topK
           E == ExpertsPerRank
<1>1. E \in Nat /\ E > 1 /\ Source = 1 .. 4 /\ BatchSize = 4
  BY ConstructedAssumption, ExchangeAssumption DEF Source
<1>2. K \in Nat /\ T \in Nat /\ n = K * T /\ n \in Nat
  BY <1>1
<1>3. ASSUME NEW request \in Nat, NEW token \in Nat, NEW slot \in 0 .. T - 1
      PROVE  SelectedExpert(run.kind, request, token, T, slot) \in Expert
  <2> DEFINE selected == SelectedExpert(run.kind, request, token, T, slot)
  <2>1. slot \in Nat /\ slot \in 0 .. 7
    OBVIOUS
  <2>2. CASE run.kind = "uniform"
    <3>1. selected = (token * T + slot) % (NumSources * ExpertsPerRank)
      BY <2>2 DEF SelectedExpert
    <3>2. token * T \in Nat
      BY <1>2
    <3>3. token * T + slot \in Nat
      BY <2>1, <3>2
    <3> HIDE DEF selected, T
    <3> QED  BY <3>1, <3>3, RoundExperts DEF selected
  <2>3. CASE run.kind = "request_correlated"
    <3> DEFINE q == slot % 4
               i == request + (slot \div 4)
               x == i % E
               d == q + 1
    <3>1. selected = (slot % 4) * ExpertsPerRank + ((request + (slot \div 4)) % ExpertsPerRank)
      BY <2>3 DEF SelectedExpert
    <3>2. q \in 0 .. 3 /\ slot \div 4 \in Nat
      BY <2>1
    <3>3. i \in Nat /\ d \in Source /\ d - 1 = q
      BY <1>1, <3>2
    <3> HIDE DEF q, i
    <3>4. x \in LocalExpert
      <4>1. x \in 0 .. E - 1
        BY <1>1, <3>3, Quotient
      <4> QED  BY <4>1 DEF LocalExpert
    <3> HIDE DEF x, d, selected
    <3>5. (d - 1) * ExpertsPerRank + x \in Expert
      BY <3>3, <3>4, ExpertOf
    <3> QED  BY <3>1, <3>3, <3>5 DEF x, i, q, selected
  <2>4. CASE run.kind = "hot_rank"
    <3> DEFINE firsts == [d \in Source |-> (d - 1) * E]
               more == <<1, 2, 3, 4>>
               i == slot + 1
    <3>1. selected = HotRankExperts[i]
      BY <2>4 DEF SelectedExpert
    <3>2. \A d \in Source : firsts[d] \in Expert
      <4>1. 0 \in LocalExpert
        BY <1>1 DEF LocalExpert
      <4>2. ASSUME NEW d \in Source
            PROVE  (d - 1) * E \in Expert
        <5>1. (d - 1) * ExpertsPerRank + 0 \in Expert
          BY <4>1, ExpertOf
        <5>2. d - 1 \in Int
          BY <1>1
        <5>3. (d - 1) * E \in Int
          BY <1>1, <5>2
        <5> QED  BY <5>1, <5>3
      <4> QED  BY <4>2
    <3>3. \A j \in 1 .. 4 : more[j] \in Expert
      <4>1. \A j \in 1 .. 4 : more[j] \in 1 .. 4
        OBVIOUS
      <4>2. NumSources * ExpertsPerRank \in Int /\ NumSources * ExpertsPerRank >= 8
        BY <1>1
      <4> QED  BY <4>1, <4>2 DEF Expert
    <3>4. firsts \in Seq(Expert) /\ Len(firsts) = 4 /\ more \in Seq(Expert) /\ Len(more) = 4
      <4>1. Len(firsts) = 4 /\ Len(more) = 4 /\ firsts = [d \in 1 .. 4 |-> firsts[d]]
        BY <1>1
      <4>2. 1 \in Expert /\ 2 \in Expert /\ 3 \in Expert /\ 4 \in Expert
        BY <3>3
      <4>3. more \in Seq(Expert)
        BY <4>2
      <4>4. \A d \in 1 .. 4 : firsts[d] \in Expert
        BY <1>1, <3>2
      <4> HIDE DEF firsts, more
      <4>5. firsts \in Seq(Expert)
        BY <4>1, <4>4
      <4> QED  BY <4>1, <4>3, <4>5
    <3>5. HotRankExperts = firsts \o more
      BY DEF HotRankExperts
    <3> HIDE DEF firsts, more
    <3>6. /\ \A j \in 1 .. 4 : (firsts \o more)[j] = firsts[j]
          /\ \A j \in 1 .. 4 : (firsts \o more)[4 + j] = more[j]
      <4> DEFINE X == Expert
      <4>1. firsts \in Seq(X) /\ more \in Seq(X)
        BY <3>4
      <4> HIDE DEF X
      <4>2. \A s, t \in Seq(X) :
              /\ \A j \in 1 .. Len(s) : (s \o t)[j] = s[j]
              /\ \A j \in 1 .. Len(t) : (s \o t)[Len(s) + j] = t[j]
        BY ConcatAt
      <4>3. /\ \A j \in 1 .. Len(firsts) : (firsts \o more)[j] = firsts[j]
            /\ \A j \in 1 .. Len(more) : (firsts \o more)[Len(firsts) + j] = more[j]
        BY <4>1, <4>2
      <4> QED  BY <3>4, <4>3
    <3>7. i \in 1 .. 4 \/ (i - 4 \in 1 .. 4 /\ i = 4 + (i - 4))
      BY <2>1
    <3> HIDE DEF i, selected
    <3>8. CASE i \in 1 .. 4
      <4>1. i \in Source
        BY <1>1, <3>8
      <4> QED  BY <3>1, <3>2, <3>5, <3>6, <3>8, <4>1 DEF selected
    <3>9. CASE i - 4 \in 1 .. 4 /\ i = 4 + (i - 4)
      <4>1. HotRankExperts[i] = more[i - 4]
        BY <3>5, <3>6, <3>9
      <4> QED  BY <3>1, <3>3, <3>9, <4>1 DEF selected
    <3> QED  BY <3>7, <3>8, <3>9
  <2>5. run.kind \in {"uniform", "request_correlated", "hot_rank"}
    BY DEF RoutingModes, Range
  <2> QED  BY <2>2, <2>3, <2>4, <2>5
<1>4. ASSUME NEW s \in Source
      PROVE  /\ DOMAIN ParallelIds(run, s) = 1 .. n
             /\ \A a \in 1 .. n : ParallelIds(run, s)[a] \in Expert
  <2> DEFINE request(a) == (s - 1) * BatchSize + ((a - 1) \div (run.k * run.topK))
             position(a) == ((a - 1) \div run.topK) % run.k
             token(a) == request(a) * run.k + position(a)
             ids == ParallelIds(run, s)
  <2>1. ids = [a \in 1 .. n |->
                 SelectedExpert(run.kind, request(a), token(a), run.topK, (a - 1) % run.topK)]
    BY DEF ParallelIds
  <2>2. ASSUME NEW a \in 1 .. n
        PROVE  request(a) \in Nat /\ token(a) \in Nat /\ (a - 1) % T \in 0 .. T - 1
    <3>1. a \in 1 .. K * T
      BY <1>2
    <3>2. T # 0 /\ (a - 1) \div T \in 0 .. K - 1 /\ (a - 1) % T \in 0 .. T - 1 /\ a - 1 \in Nat
      <4> HIDE DEF K, T
      <4> QED  BY <1>2, <3>1, SlotsOfTurns
    <3>3. run.k # 0
      <4>1. K # 0
        BY <1>2, <3>2
      <4> QED  BY <1>1, <4>1
    <3>4. run.k * run.topK \in Nat \ {0}
      BY <3>2, <3>3, ProductPositive
    <3>5. (a - 1) \div (run.k * run.topK) \in Nat
      BY <3>2, <3>4, Quotient
    <3>6. (s - 1) * BatchSize \in Nat
      BY <1>1
    <3>7. request(a) \in Nat
      BY <3>5, <3>6
    <3>8. position(a) \in Nat
      <4>1. (a - 1) \div run.topK \in Nat
        BY <3>2
      <4>2. position(a) \in 0 .. run.k - 1
        BY <3>3, <4>1, Quotient
      <4> QED  BY <4>2
    <3> HIDE DEF request, position
    <3>9. request(a) * run.k \in Nat
      BY <3>7
    <3> QED  BY <3>2, <3>7, <3>8, <3>9
  <2> HIDE DEF request, token, n, ids
  <2>3. DOMAIN ids = 1 .. n
    BY <2>1
  <2>4. ASSUME NEW a \in 1 .. n
        PROVE  ids[a] \in Expert
    <3>1. ids[a] = SelectedExpert(run.kind, request(a), token(a), T, (a - 1) % T)
      BY <2>1
    <3> HIDE DEF T
    <3> QED  BY <1>3, <2>2, <3>1
  <2> QED  BY <2>3, <2>4 DEF ids
<1> HIDE DEF n
<1>5. AllHomed([s \in Source |-> ParallelIds(run, s)], n)
  BY <1>4 DEF AllHomed
<1> QED  BY <1>2, <1>5 DEF n

(* The flat expert ids of all ranks in a run and batch of a program, and   *)
(* how many every rank has.                                                *)
RunIds(prg, run, b) ==
  [s \in Source |-> CASE prg = "gate" -> BalancedIds(run)
                      [] prg = "proxy" -> ProxyIds(run, s, b)
                      [] prg = "parallel" -> ParallelIds(run, s)]

RunLength(prg, run) == BatchSize * run.k * (IF prg = "parallel" THEN run.topK ELSE TopK)

(* What the runs of a launch have to do with its command line.             *)
LEMMA RunsMeant ==
  ASSUME Launched, NEW n \in 1 .. Len(runs)
  PROVE  /\ ~Refuses(program, args) /\ runs[n].k \in Nat
         /\ program = "gate" => runs[n].k \in args.positions
         /\ program = "proxy" => runs[n].k = args.k /\ runs[n].arm \in Range(RunArms)
         /\ program = "parallel" => runs[n].topK \in 0 .. 8 /\ runs[n].kind \in Range(RoutingModes)
<1>1. /\ program \in Programs /\ args \in Arguments(program) /\ runs = RunsOf(program, args)
      /\ program \in {"gate", "proxy", "parallel"}
  BY ProgramKinds DEF Launched
<1>2. n \in DOMAIN runs
  BY RunsLength
<1>3. ~Refuses(program, args)
  <2>1. Refuses(program, args) => runs = <<>>
    BY <1>1 DEF RunsOf
  <2> QED  BY <2>1
<1>4. CASE program = "gate"
  <2>1. Measures(args) /\ Widths(args) /\ runs = GateRuns(args)
    BY <1>1, <1>3, <1>4, LaunchAssumption DEF Measures, Widths, RunsOf
  <2> DEFINE W == Cardinality(args.positions)
  <2>2. /\ DOMAIN Ascending(args.positions) = 1 .. W
        /\ \E c \in 1 .. W : \E m \in Repetitions(args) : \E k \in 1 .. 3 : runs[n] = GateRun(args, c, m, k)
    BY <1>2, <2>1, GateRunsAre
  <2>3. PICK c \in 1 .. W : \E m \in Repetitions(args) : \E k \in 1 .. 3 : runs[n] = GateRun(args, c, m, k)
    BY <2>2
  <2>4. runs[n].k = Ascending(args.positions)[c]
    BY <2>3 DEF GateRun
  <2>5. args.positions \in SUBSET Int /\ IsFiniteSet(args.positions) /\ args.positions \subseteq Nat
    BY <2>1 DEF Widths
  <2>6. Ascending(args.positions)[c] \in args.positions
    BY <2>2, <2>5, AscendingLists
  <2> QED  BY <1>3, <1>4, <2>4, <2>5, <2>6
<1>5. CASE program = "proxy"
  <2>1. Measures(args) /\ runs = ProxyRuns(args) /\ args.k \in Nat
    BY <1>1, <1>3, <1>5, LaunchAssumption DEF Measures, RunsOf
  <2>2. PICK m \in Repetitions(args) : \E k \in 1 .. 5 : runs[n] = ProxyRun(args, m, k)
    BY <1>2, <2>1, ProxyRunsAre
  <2>3. PICK k \in 1 .. 5 : runs[n] = ProxyRun(args, m, k)
    BY <2>2
  <2>4. runs[n].k = args.k /\ runs[n].arm = Rotated(RunArms, m - 1)[k]
    BY <2>3 DEF ProxyRun
  <2>5. m - 1 \in Nat
    BY <2>1 DEF Repetitions, Measures
  <2>6. Rotated(RunArms, m - 1)[k] \in Range(RunArms)
    BY <2>5, RotatedArms
  <2> QED  BY <1>3, <1>5, <2>1, <2>4, <2>6
<1>6. CASE program = "parallel"
  <2> DEFINE R == args.warmup + args.repetitions
             W == Cardinality(args.positions)
             C == Len(RoutingModes) * W
             cell == (n - 1) \div R
             run(x, m) ==
               [k |-> Ascending(args.positions)[(x % W) + 1],
                kind |-> RoutingModes[(x \div W) + 1],
                topK |-> args.topK, mode |-> "nccl_real", repetition |-> m, measured |-> m > args.warmup]
  <2>1. /\ Measures(args) /\ Widths(args) /\ runs = ParallelRuns(args)
        /\ args.topK \in Nat /\ ~(args.topK > 8)
    BY <1>1, <1>3, <1>6, LaunchAssumption DEF Measures, Widths, RunsOf, Refuses, ParallelRefuses
  <2>2. runs = [i \in 1 .. R * C |-> run((i - 1) \div R, ((i - 1) % R) + 1)]
    BY <2>1 DEF ParallelRuns
  <2>3. R \in Nat \ {0} /\ W \in Nat \ {0} /\ Len(RoutingModes) = 3
    BY <2>1, FS_CardinalityType, FS_EmptySet DEF Widths, Measures, RoutingModes
  <2>4. C \in Nat /\ C = 3 * W /\ R * C = C * R
    <3> HIDE DEF W, R
    <3>1. C \in Nat /\ C = 3 * W
      BY <2>3
    <3> HIDE DEF C
    <3> QED  BY <2>3, <3>1
  <2>5. n \in 1 .. C * R
    <3> HIDE DEF C, R, run
    <3> QED  BY <1>2, <2>2, <2>4
  <2>6. cell \in 0 .. C - 1
    <3> HIDE DEF C, R
    <3> QED  BY <2>3, <2>4, <2>5, SlotsOfTurns
  <2>7. runs[n] = run(cell, ((n - 1) % R) + 1)
    <3> HIDE DEF C, R, run
    <3> QED  BY <1>2, <2>2
  <2>8. /\ runs[n].k = Ascending(args.positions)[(cell % W) + 1]
        /\ runs[n].kind = RoutingModes[(cell \div W) + 1] /\ runs[n].topK = args.topK
    <3> HIDE DEF C, R, W, cell
    <3> QED  BY <2>7
  <2>9. cell \div W \in 0 .. 2 /\ cell % W \in 0 .. W - 1
    <3> HIDE DEF R, W, cell
    <3> DEFINE j == cell + 1
    <3>1. cell \in Nat /\ j \in 1 .. 3 * W /\ j - 1 = cell
      BY <2>3, <2>4, <2>6
    <3> HIDE DEF j
    <3>2. (j - 1) \div W \in 0 .. 3 - 1 /\ (j - 1) % W \in 0 .. W - 1
      BY <2>3, <3>1, SlotsOfTurns
    <3> QED  BY <3>1, <3>2
  <2>10. runs[n].kind \in Range(RoutingModes)
    <3>1. (cell \div W) + 1 \in 1 .. 3 /\ DOMAIN RoutingModes = 1 .. 3
      <4>1. DOMAIN RoutingModes = 1 .. 3
        BY DEF RoutingModes
      <4> HIDE DEF cell, W
      <4> QED  BY <2>9, <4>1
    <3> HIDE DEF cell, W
    <3> QED  BY <2>8, <3>1 DEF Range
  <2>11. args.positions \in SUBSET Int /\ IsFiniteSet(args.positions) /\ args.positions \subseteq Nat
    BY <2>1 DEF Widths
  <2>12. runs[n].k \in Nat
    <3>1. (cell % W) + 1 \in 1 .. W
      <4> HIDE DEF cell, W
      <4> QED  BY <2>3, <2>9
    <3>2. \A c \in 1 .. W : Ascending(args.positions)[c] \in args.positions
      BY <2>11, AscendingLists
    <3> HIDE DEF cell, W
    <3> QED  BY <2>8, <2>11, <3>1, <3>2
  <2>13. runs[n].topK \in 0 .. 8
    BY <2>1, <2>8
  <2> QED  BY <1>3, <1>6, <2>10, <2>12, <2>13
<1> QED  BY <1>1, <1>4, <1>5, <1>6

(* The routes of every run of a launch have experts of the ranks.          *)
LEMMA RunHomed ==
  ASSUME Launched, NEW n \in 1 .. Len(runs), NEW b \in Batch
  PROVE  /\ RunLength(program, runs[n]) \in Nat
         /\ AllHomed(RunIds(program, runs[n], b), RunLength(program, runs[n]))
<1>1. /\ runs[n].k \in Nat /\ NumSources = 4 /\ program \in {"gate", "proxy", "parallel"}
      /\ program = "proxy" => runs[n].arm \in Range(RunArms)
      /\ program = "parallel" => runs[n].topK \in 0 .. 8 /\ runs[n].kind \in Range(RoutingModes)
  BY RunsMeant, ProgramKinds, LaunchAssumption
<1>2. CASE program = "gate"
  <2>1. /\ RunLength(program, runs[n]) = BatchSize * runs[n].k * TopK
        /\ RunIds(program, runs[n], b) = [s \in Source |-> BalancedIds(runs[n])]
    BY <1>2 DEF RunLength, RunIds
  <2> QED  BY <1>1, <2>1, GateHomed
<1>3. CASE program = "proxy"
  <2>1. /\ RunLength(program, runs[n]) = BatchSize * runs[n].k * TopK
        /\ RunIds(program, runs[n], b) = [s \in Source |-> ProxyIds(runs[n], s, b)]
    BY <1>3 DEF RunLength, RunIds
  <2> QED  BY <1>1, <1>3, <2>1, ProxyHomed
<1>4. CASE program = "parallel"
  <2>1. /\ RunLength(program, runs[n]) = BatchSize * runs[n].k * runs[n].topK
        /\ RunIds(program, runs[n], b) = [s \in Source |-> ParallelIds(runs[n], s)]
    BY <1>4 DEF RunLength, RunIds
  <2> QED  BY <1>1, <1>4, <2>1, ParallelHomed
<1> QED  BY <1>1, <1>2, <1>3, <1>4

-----------------------------------------------------------------------------
(* The splits that the ranks use are those of their routes.                *)

(* A rank has its experts; an expert number is one of every rank.          *)
LEMMA HomeCount ==
  ASSUME NEW d \in Source
  PROVE  Cardinality({e \in Expert : HomeOf(e) = d}) = ExpertsPerRank
<1> DEFINE T == {e \in Expert : HomeOf(e) = d}
           f == [x \in LocalExpert |-> (d - 1) * ExpertsPerRank + x]
<1>1. ASSUME NEW x \in LocalExpert
      PROVE  f[x] \in T /\ LocalId(f[x]) = x
  <2>1. f[x] = (d - 1) * ExpertsPerRank + x
    OBVIOUS
  <2> HIDE DEF f
  <2> QED  BY <2>1, ExpertOf
<1>2. ASSUME NEW e \in T
      PROVE  \E x \in LocalExpert : f[x] = e
  <2>1. LocalId(e) \in LocalExpert /\ (d - 1) * ExpertsPerRank + LocalId(e) = e
    BY ExpertsAtHome
  <2> QED  BY <2>1
<1>3. f = [x \in LocalExpert |-> f[x]]
  OBVIOUS
<1> HIDE DEF f, T
<1>4. f \in [LocalExpert -> T]
  BY <1>1, <1>3
<1>5. f \in Surjection(LocalExpert, T) /\ f \in Injection(LocalExpert, T)
  <2>1. f \in Surjection(LocalExpert, T)
    BY <1>2, <1>4 DEF Surjection
  <2>2. \A x, y \in LocalExpert : f[x] = f[y] => x = y
    BY <1>1
  <2> QED  BY <1>4, <2>1, <2>2 DEF Injection, IsInjective
<1>6. IsFiniteSet(LocalExpert) /\ Cardinality(LocalExpert) = ExpertsPerRank
  BY ExchangeAssumption, FS_Interval DEF LocalExpert
<1>7. Cardinality(T) = Cardinality(LocalExpert)
  BY <1>5, <1>6, FS_Surjection
<1> QED  BY <1>6, <1>7 DEF T

LEMMA LocalCount ==
  ASSUME NEW x \in LocalExpert
  PROVE  Cardinality({e \in Expert : LocalId(e) = x}) = NumSources
<1> DEFINE T == {e \in Expert : LocalId(e) = x}
           f == [d \in Source |-> (d - 1) * ExpertsPerRank + x]
<1>1. ASSUME NEW d \in Source
      PROVE  f[d] \in T /\ HomeOf(f[d]) = d
  <2>1. f[d] = (d - 1) * ExpertsPerRank + x
    OBVIOUS
  <2> HIDE DEF f
  <2> QED  BY <2>1, ExpertOf
<1>2. ASSUME NEW e \in T
      PROVE  \E d \in Source : f[d] = e
  <2> DEFINE d == HomeOf(e)
  <2>1. d \in Source /\ (d - 1) * ExpertsPerRank + x = e
    BY ExpertsAtHome
  <2> HIDE DEF d
  <2> QED  BY <2>1
<1>3. f = [d \in Source |-> f[d]]
  OBVIOUS
<1> HIDE DEF f, T
<1>4. f \in [Source -> T]
  BY <1>1, <1>3
<1>5. f \in Surjection(Source, T) /\ f \in Injection(Source, T)
  <2>1. f \in Surjection(Source, T)
    BY <1>2, <1>4 DEF Surjection
  <2>2. \A c, d \in Source : f[c] = f[d] => c = d
    BY <1>1
  <2> QED  BY <1>4, <2>1, <2>2 DEF Injection, IsInjective
<1>6. IsFiniteSet(Source) /\ Cardinality(Source) = NumSources
  BY SourceNumbers, FS_Interval
<1>7. Cardinality(T) = Cardinality(Source)
  BY <1>5, <1>6, FS_Surjection
<1> QED  BY <1>6, <1>7 DEF T

(* If the gate goes round all experts a whole number of times, every       *)
(* expert has its turn as often as every other.                            *)
Rounds(k) == (BatchSize * k * TopK) \div (NumSources * ExpertsPerRank)

LEMMA GateCounts ==
  ASSUME NEW run, run.k \in Nat, WholeRounds(run.k)
  PROVE  /\ Rounds(run.k) \in Nat
         /\ BatchSize * run.k * TopK = (Rounds(run.k) * ExpertsPerRank) * NumSources
         /\ DOMAIN BalancedIds(run) = 1 .. BatchSize * run.k * TopK
         /\ \A K \in SUBSET Expert :
              LET A == {a \in 1 .. BatchSize * run.k * TopK : BalancedIds(run)[a] \in K}
              IN  IsFiniteSet(A) /\ Cardinality(A) = Rounds(run.k) * Cardinality(K)
<1> DEFINE n == BatchSize * run.k * TopK
           M == NumSources * ExpertsPerRank
           m == n \div M
<1>1. n \in Nat /\ M \in Nat \ {0}
  BY GateHomed, ExchangeAssumption, SourceNumbers, ProductPositive
<1>2. n % M = 0
  BY DEF WholeRounds
<1>3. m \in Nat /\ n = m * M
  <2> HIDE DEF n, M
  <2>1. m \in Nat /\ n = m * M + (n % M)
    BY <1>1, Quotient
  <2>2. m * M \in Nat
    BY <1>1, <2>1
  <2> QED  BY <1>2, <2>1, <2>2
<1>4. DOMAIN BalancedIds(run) = 1 .. n /\ \A a \in 1 .. n : BalancedIds(run)[a] = (a - 1) % M
  BY DEF BalancedIds
<1>5. n = (m * ExpertsPerRank) * NumSources
  <2> HIDE DEF m, n
  <2>1. ExpertsPerRank \in Nat /\ NumSources \in Nat
    BY ExchangeAssumption, SourceNumbers
  <2> QED  BY <1>3, <2>1
<1>6. Rounds(run.k) = m
  BY DEF Rounds
<1>7. ASSUME NEW K \in SUBSET Expert,
             NEW A, A = {a \in 1 .. n : BalancedIds(run)[a] \in K}
      PROVE  IsFiniteSet(A) /\ Cardinality(A) = m * Cardinality(K)
  <2>1. K \subseteq 0 .. M - 1
    BY DEF Expert
  <2> HIDE DEF n, M, m
  <2>2. A = Turned(m, M, K)
    BY <1>3, <1>4, <1>7 DEF Turned
  <2> QED  BY <1>1, <1>3, <2>1, <2>2, TurnsCount
<1> HIDE DEF m
<1> QED  BY <1>3, <1>4, <1>5, <1>6, <1>7

(* The equal parts are the assignments to each rank.                       *)
LEMMA GateSplitsAre ==
  ASSUME NEW run, run.k \in Nat, WholeRounds(run.k), NumSources = 4
  PROVE  SplitVector(BalancedIds(run)) = GateSplits(run)
<1> DEFINE n == BatchSize * run.k * TopK
           m == Rounds(run.k)
           ids == BalancedIds(run)
<1>1. /\ m \in Nat /\ n = (m * ExpertsPerRank) * NumSources /\ DOMAIN ids = 1 .. n
      /\ \A K \in SUBSET Expert : Cardinality({a \in 1 .. n : ids[a] \in K}) = m * Cardinality(K)
  BY GateCounts
<1>2. AllHomed([s \in Source |-> ids], n)
  BY GateHomed
<1> HIDE DEF m, ids
<1>3. \A a \in 1 .. n : ids[a] \in Expert
  <2>1. 1 \in Source
    BY SourceNumbers
  <2> QED  BY <1>2, <2>1 DEF AllHomed
<1>4. m * ExpertsPerRank \in Nat /\ NumSources \in Nat \ {0}
  BY <1>1, ExchangeAssumption, SourceNumbers
<1> HIDE DEF n
<1>5. n \div NumSources = m * ExpertsPerRank
  <2> DEFINE q == m * ExpertsPerRank
  <2>1. n \in Nat /\ n = q * NumSources + 0 /\ 0 \in 0 .. NumSources - 1 /\ q \in Nat
    <3> HIDE DEF q
    <3>1. q * NumSources \in Nat
      BY <1>4 DEF q
    <3>2. n = q * NumSources
      BY <1>1 DEF q
    <3>3. q \in Nat
      BY <1>4 DEF q
    <3> QED  BY <1>4, <3>1, <3>2, <3>3
  <2> HIDE DEF q
  <2>2. n \div NumSources = q
    BY <1>4, <2>1, QuotientIs
  <2> QED  BY <2>2 DEF q
<1>6. ASSUME NEW d \in Source
      PROVE  Cardinality({a \in DOMAIN ids : HomeOf(ids[a]) = d}) = n \div NumSources
  <2> DEFINE K == {e \in Expert : HomeOf(e) = d}
  <2>1. {a \in DOMAIN ids : HomeOf(ids[a]) = d} = {a \in 1 .. n : ids[a] \in K}
    BY <1>1, <1>3
  <2>2. K \in SUBSET Expert /\ Cardinality(K) = ExpertsPerRank
    BY HomeCount
  <2> HIDE DEF K
  <2> QED  BY <1>1, <1>5, <2>1, <2>2
<1>7. SplitVector(ids) = [d \in Source |-> n \div NumSources]
  BY <1>6 DEF SplitVector
<1> QED  BY <1>7 DEF GateSplits, n, ids, Rank

-----------------------------------------------------------------------------
(* Equal parts. *)

(* Place i of part d of a buffer that is cut into parts of length q. *)
PlaceIn(d, i, q) == (d - 1) * q + i
Part(buffer, d, q) == [i \in 1 .. q |-> buffer[PlaceIn(d, i, q)]]

(* Equal parts begin at the multiples of their length.                     *)
LEMMA EqualBegins ==
  ASSUME NumSources = 4, NEW q \in Nat, NEW size, size = [d \in Source |-> q],
         NEW f, Begins(f, size)
  PROVE  f[4] = 4 * q /\ \A d \in Source : f[d - 1] = (d - 1) * q /\ f[d] = (d - 1) * q + q
<1>1. Source = 1 .. 4
  BY DEF Source
<1>2. f[0] = 0 /\ \A d \in 1 .. 4 : f[d] = f[d - 1] + q
  BY <1>1 DEF Begins
<1>3. f[1] = q /\ f[2] = 2 * q /\ f[3] = 3 * q /\ f[4] = 4 * q
  <2>1. f[1] = f[0] + q /\ f[2] = f[1] + q /\ f[3] = f[2] + q /\ f[4] = f[3] + q
    <3>1. 1 - 1 = 0 /\ 2 - 1 = 1 /\ 3 - 1 = 2 /\ 4 - 1 = 3
      OBVIOUS
    <3>2. f[1] = f[1 - 1] + q /\ f[2] = f[2 - 1] + q /\ f[3] = f[3 - 1] + q /\ f[4] = f[4 - 1] + q
      BY <1>2, 1 \in 1 .. 4, 2 \in 1 .. 4, 3 \in 1 .. 4, 4 \in 1 .. 4
    <3> QED  BY <3>1, <3>2
  <2> QED  BY <1>2, <2>1
<1>4. ASSUME NEW d \in 1 .. 4
      PROVE  f[d - 1] = (d - 1) * q /\ f[d] = (d - 1) * q + q
  <2>1. CASE d = 1
    BY <1>2, <1>3, <2>1
  <2>2. CASE d = 2
    BY <1>3, <2>2
  <2>3. CASE d = 3
    BY <1>3, <2>3
  <2>4. CASE d = 4
    BY <1>3, <2>4
  <2> QED  BY <2>1, <2>2, <2>3, <2>4
<1> QED  BY <1>1, <1>3, <1>4

(* A buffer is cut into its equal parts ...                                *)
LEMMA EqualBlocks ==
  ASSUME NumSources = 4, NEW q \in Nat, NEW buffer, NEW d \in Source
  PROVE  Blocks(buffer, [c \in Source |-> q])[d] = Part(buffer, d, q)
<1> DEFINE size == [c \in Source |-> q]
           a == (d - 1) * q
<1>1. size \in [Source -> Nat]
  OBVIOUS
<1> HIDE DEF size
<1>2. PICK f : /\ Begins(f, size)
               /\ Blocks(buffer, size) = [c \in Source |-> SubSeq(buffer, f[c - 1] + 1, f[c])]
  BY <1>1, BeginsExist
<1>3. f[d - 1] = a /\ f[d] = a + q
  BY <1>2, EqualBegins DEF size
<1>4. a \in Nat
  <2>1. d - 1 \in Nat
    BY SourceNumbers
  <2> QED  BY <2>1
<1>5. Blocks(buffer, size)[d] = SubSeq(buffer, a + 1, a + q)
  BY <1>2, <1>3
<1> HIDE DEF a
<1>6. SubSeq(buffer, a + 1, a + q) = [i \in 1 .. q |-> buffer[a + i]]
  BY <1>4
<1> QED  BY <1>5, <1>6 DEF Part, PlaceIn, a, size

(* ... and parts that are joined are found in their places.                *)
Joined(g, q) == FlattenSeq([s \in Source |-> [i \in 1 .. q |-> g[s][i]]])

LEMMA JoinedAt ==
  ASSUME NumSources = 4, NEW q \in Nat, NEW g
  PROVE  /\ DOMAIN Joined(g, q) = 1 .. 4 * q
         /\ \A s \in Source : \A i \in 1 .. q : Joined(g, q)[PlaceIn(s, i, q)] = g[s][i]
<1> DEFINE seqs == [s \in Source |-> [i \in 1 .. q |-> g[s][i]]]
           X == UNION {{g[s][i] : i \in 1 .. q} : s \in Source}
           size == [s \in Source |-> q]
           flat == FlattenSeq(seqs)
<1>1. ASSUME NEW s \in Source
      PROVE  seqs[s] \in Seq(X) /\ Len(seqs[s]) = q
  <2>1. seqs[s] = [i \in 1 .. q |-> g[s][i]]
    OBVIOUS
  <2>2. \A i \in 1 .. q : g[s][i] \in X
    OBVIOUS
  <2> HIDE DEF X
  <2> QED  BY <2>1, <2>2
<1>2. size \in [Source -> Nat] /\ Sized(seqs, size)
  BY <1>1 DEF Sized
<1>3. seqs \in [Source -> Seq(X)]
  <2> HIDE DEF X
  <2> QED  BY <1>1
<1> HIDE DEF size, X
<1>4. PICK f : Begins(f, size)
  BY <1>2, BeginsExist
<1>5. flat \in Seq(X) /\ MadeOf(flat, seqs, f)
  BY <1>2, <1>3, <1>4, FlattenedAt
<1>6. f[4] = 4 * q /\ \A d \in Source : f[d - 1] = (d - 1) * q
  BY <1>4, EqualBegins DEF size
<1> HIDE DEF flat
<1>7. DOMAIN flat = 1 .. 4 * q
  <2>1. Len(flat) = 4 * q
    BY <1>5, <1>6 DEF MadeOf
  <2> QED  BY <1>5, <2>1
<1>8. ASSUME NEW s \in Source, NEW i \in 1 .. q
      PROVE  flat[PlaceIn(s, i, q)] = g[s][i]
  <2>1. flat[f[s - 1] + i] = seqs[s][i]
    BY <1>1, <1>5 DEF MadeOf
  <2>2. seqs[s][i] = g[s][i]
    OBVIOUS
  <2> QED  BY <1>6, <2>1, <2>2 DEF PlaceIn
<1> QED  BY <1>7, <1>8 DEF flat, Joined

(* Every place of four equal parts is in one of them.                      *)
LEMMA EqualPlaces ==
  ASSUME NumSources = 4, NEW q \in Nat, NEW x \in 1 .. 4 * q
  PROVE  \E s \in Source : \E i \in 1 .. q :
           x = PlaceIn(s, i, q) /\ i = ((x - 1) % q) + 1 /\ s = ((x - 1) \div q) + 1
<1> DEFINE b == x - 1
           s == b \div q
           m == b % q
<1>1. q \in Nat \ {0} /\ b \in Nat /\ b < 4 * q /\ x = b + 1
  OBVIOUS
<1> HIDE DEF b
<1>2. s \in Nat /\ m \in 0 .. q - 1 /\ b = s * q + m
  BY <1>1, Quotient
<1>3. s < 4
  <2>1. CASE 4 <= s
    <3>1. 4 * q <= s * q /\ s * q \in Nat
      BY <1>1, <1>2, <2>1, ProductMonotone
    <3> DEFINE c == s * q
    <3>2. 4 * q <= c /\ c \in Nat /\ b = c + m
      BY <1>2, <3>1
    <3> HIDE DEF c, s, m
    <3> QED  BY <1>1, <1>2, <3>2
  <2> HIDE DEF s
  <2> QED  BY <1>2, <2>1
<1> HIDE DEF s, m
<1>4. s + 1 \in Source /\ m + 1 \in 1 .. q
  BY <1>1, <1>2, <1>3 DEF Source
<1> DEFINE c == s + 1
           i == m + 1
<1>5. c \in Source /\ i \in 1 .. q /\ c - 1 = s
  BY <1>2, <1>4
<1>6. x = s * q + i
  <2> DEFINE p == s * q
  <2>1. p \in Nat /\ b = p + m /\ i = m + 1
    BY <1>1, <1>2
  <2> HIDE DEF p, i
  <2>2. x = p + i
    BY <1>1, <1>2, <2>1
  <2> QED  BY <2>2 DEF p
<1>7. x = PlaceIn(c, i, q)
  BY <1>5, <1>6 DEF PlaceIn
<1>8. i = ((x - 1) % q) + 1 /\ c = ((x - 1) \div q) + 1
  BY DEF b, s, m
<1> HIDE DEF c, i
<1> QED  BY <1>5, <1>7, <1>8

-----------------------------------------------------------------------------
(* The routes of all ranks where rank r is.                                *)
IdsAt(r) == RunIds(program, RunOf(r), at[r].batch)
CountAt(r) == RunLength(program, RunOf(r))

LEMMA HomedAt ==
  ASSUME Launched, Placed, NEW r \in Rank, at[r].stage # "setup"
  PROVE  CountAt(r) \in Nat /\ AllHomed(IdsAt(r), CountAt(r))
<1>1. at[r].run \in 1 .. Len(runs) /\ at[r].batch \in Batch
  BY DEF Placed, Places
<1> QED  BY <1>1, RunHomed DEF IdsAt, CountAt, RunOf

(* The routes a rank uses are those of its run.                            *)
LEMMA IdsAre ==
  ASSUME Launched, Placed, NEW r \in Rank, at[r].stage \in DataStages
  PROVE  Ids(r) = IdsAt(r)[r]
<1>1. program \in {"gate", "proxy", "parallel"} /\ r \in Source
  BY ProgramKinds DEF Rank
<1> QED  BY <1>1 DEF Ids, IdsAt, RunIds

(* Every program cuts what it sends, and expects what it receives, as the  *)
(* routes of the ranks say; the gate does if its equal parts fit them.     *)
LEMMA SplitsAgree ==
  ASSUME Launched, Placed, Exchanged, NEW r \in Rank, at[r].stage \in DataStages, Fits(r)
  PROVE  /\ Send(r) = SplitVector(IdsAt(r)[r])
         /\ Recv(r) = [s \in Source |-> SplitVector(IdsAt(r)[s])[r]]
<1> DEFINE n == at[r].run
           b == at[r].batch
           run == runs[n]
<1>1. n \in 1 .. Len(runs) /\ b \in Batch /\ RunOf(r) = run /\ Rank = Source /\ NumSources = 4
  BY LaunchAssumption DEF Placed, Places, DataStages, RunOf, Rank
<1>2. /\ ~Refuses(program, args) /\ run.k \in Nat /\ program \in {"gate", "proxy", "parallel"}
      /\ program = "gate" => run.k \in args.positions
      /\ program = "proxy" => run.k = args.k /\ run.arm \in Range(RunArms)
  BY <1>1, RunsMeant, ProgramKinds
<1>3. CASE program = "gate"
  <2>1. \A s \in Source : IdsAt(r)[s] = BalancedIds(run)
    BY <1>1, <1>3 DEF IdsAt, RunIds
  <2>2. Ids(r) = BalancedIds(run) /\ Send(r) = GateSplits(run) /\ Recv(r) = GateSplits(run)
    BY <1>1, <1>3 DEF Ids, Send, Recv
  <2>3. WholeRounds(run.k)
    BY <1>1, <1>3 DEF Fits
  <2>4. SplitVector(BalancedIds(run)) = GateSplits(run)
    BY <1>1, <1>2, <2>3, GateSplitsAre
  <2>5. GateSplits(run) = [s \in Source |-> GateSplits(run)[r]]
    BY <1>1 DEF GateSplits
  <2>6. \A s \in Source : SplitVector(IdsAt(r)[s])[r] = GateSplits(run)[r]
    BY <2>1, <2>4
  <2>7. Recv(r) = [s \in Source |-> SplitVector(IdsAt(r)[s])[r]]
    BY <2>2, <2>5, <2>6
  <2> QED  BY <1>1, <2>1, <2>2, <2>4, <2>7
<1>4. CASE program = "proxy"
  <2> DEFINE arm == Composition(run.arm)
  <2>1. \A s \in Source : IdsAt(r)[s] = ProxyIds(run, s, b)
    BY <1>1, <1>4 DEF IdsAt, RunIds
  <2>2. /\ Ids(r) = ProxyIds(run, r, b) /\ Send(r) = SplitContract(arm, run.k)[r][b]
        /\ Recv(r) = [s \in Source |-> SplitContract(arm, run.k)[s][b][r]]
    BY <1>1, <1>4 DEF Ids, Send, Recv, ProxySend, ProxyRecv
  <2>3. StaticSplitsAgree(run.k)
    BY <1>2, <1>4 DEF Refuses, ProxyRefuses
  <2>4. PICK i \in DOMAIN ConstructedArms : arm = ConstructedArms[i]
    BY <1>2, <1>4, ComposedArms DEF Range
  <2>5. ASSUME NEW s \in Source
        PROVE  SplitVector(ProxyIds(run, s, b)) = SplitContract(arm, run.k)[s][b]
    <3>1. SplitVector(PlanIds(GlobalPlans(ConstructedArms[i])[s][b], run.k))
            = SplitContract(ConstructedArms[i], run.k)[s][b]
      BY <1>1, <2>3 DEF StaticSplitsAgree
    <3> QED  BY <2>4, <3>1 DEF ProxyIds
  <2> HIDE DEF arm
  <2>6. \A s \in Source : SplitVector(IdsAt(r)[s]) = SplitContract(arm, run.k)[s][b]
    BY <2>1, <2>5
  <2> QED  BY <1>1, <2>1, <2>2, <2>6
<1>5. CASE program = "parallel"
  <2>1. \A s \in Source : IdsAt(r)[s] = ParallelIds(run, s)
    BY <1>1, <1>5 DEF IdsAt, RunIds
  <2>2. /\ Ids(r) = ParallelIds(run, r) /\ Send(r) = SplitVector(ParallelIds(run, r))
        /\ Recv(r) = [s \in Source |-> announced[r][s][r]]
    BY <1>1, <1>5 DEF Ids, Send, Recv
  <2>3. announced[r] = [s \in Source |-> SplitVector(ParallelIds(run, s))]
    BY <1>1, <1>5 DEF Exchanged
  <2>4. \A s \in Source : announced[r][s][r] = SplitVector(IdsAt(r)[s])[r]
    BY <2>1, <2>3
  <2> QED  BY <1>1, <2>1, <2>2, <2>4
<1> QED  BY <1>2, <1>3, <1>4, <1>5

(* The blocks that are delivered, in the order of the ranks.               *)
LEMMA FourDelivered ==
  ASSUME NumSources = 4, NEW d \in Source, NEW seqs, DOMAIN seqs = Source,
         \A s \in Source : Blocks(Buffer(s), Outgoing(s))[d] = seqs[s]
  PROVE  Delivered(d) = FlattenSeq(seqs)
<1>1. 1 \in Source /\ 2 \in Source /\ 3 \in Source /\ 4 \in Source
  BY DEF Source
<1>2. Delivered(d) = seqs[1] \o seqs[2] \o seqs[3] \o seqs[4]
  BY <1>1 DEF Delivered
<1> QED  BY <1>2, FourFlat

(* What comes to rank d: the tokens, and the numbers of their experts.     *)
TokensFor(ids, n, d) == FlattenSeq(Arrivals(Tagged(ids, n), ids, d))
NumbersFor(ids, n, d) == FlattenSeq(Arrivals(Numbered(ids, n), ids, d))

(* The tokens as rank r packs them.                                        *)
LEMMA AssignedAre ==
  ASSUME Launched, Placed, NEW r \in Rank, at[r].stage \in DataStages
  PROVE  /\ Assigned(r) = Packed(Tagged(IdsAt(r), CountAt(r))[r], IdsAt(r)[r])
         /\ PackedIds(r) = Packed(Numbered(IdsAt(r), CountAt(r))[r], IdsAt(r)[r])
         /\ [x \in DOMAIN Assigned(r) |-> Through(Assigned(r)[x], Assigned(r)[x].expert)]
              = Packed(Answers(Tagged(IdsAt(r), CountAt(r)), IdsAt(r), CountAt(r))[r], IdsAt(r)[r])
<1> DEFINE ids == IdsAt(r)
           n == CountAt(r)
<1>1. /\ Ids(r) = ids[r] /\ n \in Nat /\ AllHomed(ids, n) /\ r \in Source
  <2>1. at[r].stage # "setup"
    BY DEF DataStages
  <2> QED  BY <2>1, IdsAre, HomedAt DEF Rank
<1> HIDE DEF ids, n
<1>2. [a \in DOMAIN ids[r] |-> [rank |-> r, slot |-> a, expert |-> ids[r][a]]] = Tagged(ids, n)[r]
  BY <1>1 DEF AllHomed, Tagged
<1>3. Assigned(r) = Packed(Tagged(ids, n)[r], ids[r])
  <2>1. Assigned(r) = Packed([a \in DOMAIN ids[r] |-> [rank |-> r, slot |-> a, expert |-> ids[r][a]]], ids[r])
    BY <1>1 DEF Assigned
  <2> QED  BY <1>2, <2>1
<1>4. /\ [x \in DOMAIN Assigned(r) |-> LocalId(Assigned(r)[x].expert)] = Packed(Numbered(ids, n)[r], ids[r])
      /\ [x \in DOMAIN Assigned(r) |-> Through(Assigned(r)[x], Assigned(r)[x].expert)]
           = Packed(Answers(Tagged(ids, n), ids, n)[r], ids[r])
  BY <1>1, <1>3, TagsPacked
<1>5. PackedIds(r) = Packed(Numbered(ids, n)[r], ids[r])
  BY <1>4 DEF PackedIds
<1> QED  BY <1>3, <1>4, <1>5 DEF ids, n

-----------------------------------------------------------------------------
(* The gate cuts both into equal parts, whether they fit or not.           *)
Dealt(values, ids, d, q) == FlattenSeq([s \in Source |-> Part(Packed(values[s], ids[s]), d, q)])
TokensDealt(ids, n, d) == Dealt(Tagged(ids, n), ids, d, n \div NumSources)
NumbersDealt(ids, n, d) == Dealt(Numbered(ids, n), ids, d, n \div NumSources)

(* What a rank has received before its last collective of a layer: the     *)
(* tokens for its experts, and the numbers of the experts they are for.    *)
HasTokens(buffer, r) ==
  /\ Fits(r) => buffer = TokensFor(IdsAt(r), CountAt(r), r)
  /\ program = "gate" => buffer = TokensDealt(IdsAt(r), CountAt(r), r)

HasNumbers(buffer, r) ==
  /\ Fits(r) => buffer = NumbersFor(IdsAt(r), CountAt(r), r)
  /\ program = "gate" => buffer = NumbersDealt(IdsAt(r), CountAt(r), r)

Carried ==
  \A r \in Rank :
    at[r].stage \in {"ids", "combine"} /\ Mode(r) = "nccl_real" =>
      /\ at[r].stage = "ids" => HasTokens(inbox[r], r)
      /\ at[r].stage = "combine" => HasTokens(tokens[r], r) /\ HasNumbers(inbox[r], r)

(* All ranks are in one collective of a run that communicates.             *)
Meeting ==
  /\ \A r, s \in Rank : at[r] = at[s]
  /\ \A r \in Rank : at[r].stage \in DataStages /\ Mode(r) = "nccl_real"

(* They have the same routes there. *)
LEMMA MeetingRoutes ==
  ASSUME Launched, Placed, Exchanged, Meeting,
         NEW ids, ids = IdsAt(1), NEW n, n = CountAt(1)
  PROVE  /\ n \in Nat /\ AllHomed(ids, n) /\ NumSources = 4 /\ Rank = Source
         /\ \A r \in Source : IdsAt(r) = ids /\ CountAt(r) = n /\ (Fits(r) <=> Fits(1))
         /\ \A r, s \in Source : at[r].stage = at[s].stage
         /\ Fits(1) => \A s \in Source : /\ Send(s) = SplitVector(ids[s])
                                         /\ Recv(s) \in [Source -> Nat]
                                         /\ \A c \in Source : Recv(s)[c] = PartSizes(ids[c])[s]
<1>1. Rank = Source /\ NumSources = 4 /\ 1 \in Rank
  BY Ranks, LaunchAssumption DEF Rank
<1>2. at[1].stage # "setup"
  BY <1>1 DEF Meeting, DataStages
<1>3. n \in Nat /\ AllHomed(ids, n)
  BY <1>1, <1>2, HomedAt
<1>4. \A r \in Source : IdsAt(r) = ids /\ CountAt(r) = n /\ (Fits(r) <=> Fits(1))
  BY <1>1 DEF Meeting, IdsAt, CountAt, RunOf, Fits
<1>5. ASSUME NEW s \in Source, Fits(1)
      PROVE  /\ Send(s) = SplitVector(ids[s]) /\ Recv(s) \in [Source -> Nat]
             /\ \A c \in Source : Recv(s)[c] = PartSizes(ids[c])[s]
  <2>1. Send(s) = SplitVector(ids[s]) /\ Recv(s) = [c \in Source |-> SplitVector(ids[c])[s]]
    <3>1. /\ Send(s) = SplitVector(IdsAt(s)[s])
          /\ Recv(s) = [c \in Source |-> SplitVector(IdsAt(s)[c])[s]]
      BY <1>1, <1>4, <1>5, SplitsAgree DEF Meeting
    <3> QED  BY <1>4, <3>1
  <2>2. \A c \in Source : SplitVector(ids[c]) = PartSizes(ids[c]) /\ PartSizes(ids[c]) \in [Source -> Nat]
    BY <1>3, AllHomedAre, PartSizesAre
  <2>3. \A c \in Source : SplitVector(ids[c])[s] = PartSizes(ids[c])[s] /\ SplitVector(ids[c])[s] \in Nat
    BY <2>2
  <2> QED  BY <2>1, <2>3
<1>6. \A r, s \in Source : at[r].stage = at[s].stage
  BY <1>1 DEF Meeting
<1> QED  BY <1>1, <1>3, <1>4, <1>5, <1>6

(* The first two collectives bring the tokens and the numbers.             *)
LEMMA FirstDeliveries ==
  ASSUME Launched, Placed, Exchanged, Meeting, Fits(1), NEW d \in Rank
  PROVE  /\ at[1].stage = "hidden" => Delivered(d) = TokensFor(IdsAt(1), CountAt(1), d)
         /\ at[1].stage = "ids" => Delivered(d) = NumbersFor(IdsAt(1), CountAt(1), d)
<1> DEFINE ids == IdsAt(1)
           n == CountAt(1)
<1>1. /\ n \in Nat /\ AllHomed(ids, n) /\ NumSources = 4 /\ Rank = Source
      /\ \A r \in Source : IdsAt(r) = ids /\ CountAt(r) = n
      /\ \A r, s \in Source : at[r].stage = at[s].stage
      /\ \A s \in Source : Send(s) = SplitVector(ids[s])
  BY MeetingRoutes
<1>2. \A s \in Source : at[s].stage \in DataStages /\ Mode(s) = "nccl_real" /\ 1 \in Source
  BY <1>1, Ranks DEF Meeting
<1> HIDE DEF ids, n
<1>3. ASSUME NEW s \in Source
      PROVE  Assigned(s) = Packed(Tagged(ids, n)[s], ids[s]) /\ PackedIds(s) = Packed(Numbered(ids, n)[s], ids[s])
  <2>1. /\ Assigned(s) = Packed(Tagged(IdsAt(s), CountAt(s))[s], IdsAt(s)[s])
        /\ PackedIds(s) = Packed(Numbered(IdsAt(s), CountAt(s))[s], IdsAt(s)[s])
    BY <1>1, <1>2, AssignedAre
  <2> QED  BY <1>1, <2>1
<1>4. \A values : \A s \in Source :
        Blocks(Packed(values[s], ids[s]), SplitVector(ids[s]))[d] = Arrivals(values, ids, d)[s]
  BY <1>1, HandedIn
<1>5. \A values : DOMAIN Arrivals(values, ids, d) = Source
  BY DEF Arrivals
<1>6. CASE at[1].stage = "hidden"
  <2>1. \A s \in Source : Buffer(s) = Packed(Tagged(ids, n)[s], ids[s]) /\ Outgoing(s) = SplitVector(ids[s])
    <3>1. \A s \in Source : at[s].stage = "hidden"
      BY <1>1, <1>2, <1>6
    <3> QED  BY <1>1, <1>2, <1>3, <3>1 DEF Buffer, Outgoing
  <2>2. \A s \in Source : Blocks(Buffer(s), Outgoing(s))[d] = Arrivals(Tagged(ids, n), ids, d)[s]
    BY <1>4, <2>1
  <2>3. Delivered(d) = FlattenSeq(Arrivals(Tagged(ids, n), ids, d))
    BY <1>1, <1>5, <2>2, FourDelivered
  <2> QED  BY <1>6, <2>3 DEF TokensFor, ids, n
<1>7. CASE at[1].stage = "ids"
  <2>1. \A s \in Source : Buffer(s) = Packed(Numbered(ids, n)[s], ids[s]) /\ Outgoing(s) = SplitVector(ids[s])
    <3>1. \A s \in Source : at[s].stage = "ids"
      BY <1>1, <1>2, <1>7
    <3> QED  BY <1>1, <1>2, <1>3, <3>1 DEF Buffer, Outgoing
  <2>2. \A s \in Source : Blocks(Buffer(s), Outgoing(s))[d] = Arrivals(Numbered(ids, n), ids, d)[s]
    BY <1>4, <2>1
  <2>3. Delivered(d) = FlattenSeq(Arrivals(Numbered(ids, n), ids, d))
    BY <1>1, <1>5, <2>2, FourDelivered
  <2> QED  BY <1>7, <2>3 DEF NumbersFor, ids, n
<1> QED  BY <1>6, <1>7

(* The last one brings the answers to what a rank has packed.              *)
LEMMA LastDelivery ==
  ASSUME Launched, Placed, Exchanged, Carried, Meeting, Fits(1), NEW d \in Rank, at[1].stage = "combine"
  PROVE  Delivered(d) = Packed(Answers(Tagged(IdsAt(1), CountAt(1)), IdsAt(1), CountAt(1))[d], IdsAt(1)[d])
<1> DEFINE ids == IdsAt(1)
           n == CountAt(1)
           tagged == Tagged(ids, n)
           answers == Answers(tagged, ids, n)
<1>1. /\ n \in Nat /\ AllHomed(ids, n) /\ NumSources = 4 /\ Rank = Source
      /\ \A r \in Source : IdsAt(r) = ids /\ CountAt(r) = n /\ Fits(r)
      /\ \A r, s \in Source : at[r].stage = at[s].stage
      /\ \A s \in Source : Recv(s) \in [Source -> Nat] /\ \A c \in Source : Recv(s)[c] = PartSizes(ids[c])[s]
  BY MeetingRoutes
<1>2. \A s \in Source : at[s].stage = "combine" /\ Mode(s) = "nccl_real"
  BY <1>1, Ranks DEF Meeting
<1> HIDE DEF ids, n
<1>3. ASSUME NEW s \in Source
      PROVE  Blocks(Buffer(s), Outgoing(s)) = Arrivals(answers, ids, s)
  <2>1. tokens[s] = FlattenSeq(Arrivals(tagged, ids, s)) /\ inbox[s] = FlattenSeq(Arrivals(Numbered(ids, n), ids, s))
    BY <1>1, <1>2 DEF Carried, HasTokens, HasNumbers, TokensFor, NumbersFor
  <2>2. /\ Buffer(s) = ExpertOutput(s, tokens[s], [x \in DOMAIN inbox[s] |-> [local |-> inbox[s][x]]])
        /\ Outgoing(s) = Recv(s)
    BY <1>2 DEF Buffer, Outgoing
  <2>3. [x \in DOMAIN inbox[s] |-> [local |-> inbox[s][x]]] = FlattenSeq(Arrivals(Locals(ids, n), ids, s))
    BY <1>1, <2>1, NumbersLabelled
  <2> HIDE DEF tagged
  <2>4. Blocks(ExpertOutput(s, FlattenSeq(Arrivals(tagged, ids, s)),
                               FlattenSeq(Arrivals(Locals(ids, n), ids, s))), Recv(s))
          = Arrivals(answers, ids, s)
    BY <1>1, ExpertsAnswer
  <2> QED  BY <2>1, <2>2, <2>3, <2>4
<1> HIDE DEF answers
<1> DEFINE parcels == Parcels(answers[d], ids[d])
<1>4. DOMAIN parcels = Source
  BY DEF Parcels
<1>5. \A s \in Source : Blocks(Buffer(s), Outgoing(s))[d] = parcels[s]
  BY <1>1, <1>3 DEF Arrivals
<1> HIDE DEF parcels
<1>6. Delivered(d) = FlattenSeq(parcels)
  BY <1>1, <1>4, <1>5, FourDelivered
<1>7. Packed(answers[d], ids[d]) = FlattenSeq(parcels)
  <2>1. Homed(ids[d], n)
    BY <1>1, AllHomedAre
  <2> QED  BY <1>1, <2>1, PackedParcels DEF parcels
<1> QED  BY <1>6, <1>7 DEF answers, ids, n

(* The gate's parts are equal whatever its routes are.                     *)
LEMMA GateMeeting ==
  ASSUME Launched, Placed, Exchanged, Meeting, program = "gate",
         NEW ids, ids = IdsAt(1), NEW n, n = CountAt(1), NEW q, q = n \div NumSources
  PROVE  /\ q \in Nat /\ n = 4 * q
         /\ \A s \in Source : Send(s) = [d \in Source |-> q] /\ Recv(s) = [d \in Source |-> q]
<1> DEFINE run == RunOf(1)
<1>1. Rank = Source /\ NumSources = 4 /\ \A s \in Source : RunOf(s) = run
  BY Ranks, LaunchAssumption DEF Rank, Meeting, RunOf
<1>2. run.k \in Nat
  <2>1. at[1].run \in 1 .. Len(runs)
    BY Ranks DEF Meeting, Placed, DataStages
  <2> QED  BY <2>1, RunsMeant DEF RunOf
<1>3. n = BatchSize * run.k * TopK
  BY DEF CountAt, RunLength
<1> HIDE DEF run
<1>4. BatchSize \in Nat /\ TopK \in Nat
  BY PlanAssumption, ExchangeAssumption
<1> DEFINE m == BatchSize * TopK
           z == m \div 4
<1>5. m \in Nat /\ m % 4 = 0
  BY <1>1, <1>4, GateAssumption
<1>6. n = m * run.k
  <2> DEFINE k == run.k
  <2>1. k \in Nat
    BY <1>2
  <2> HIDE DEF k
  <2>2. BatchSize * k * TopK = (BatchSize * TopK) * k
    BY <1>4, <2>1
  <2> QED  BY <1>3, <2>2 DEF k
<1> HIDE DEF m
<1>7. z \in Nat /\ m = 4 * z
  BY <1>5
<1> HIDE DEF z
<1>8. n = 4 * (z * run.k) /\ z * run.k \in Nat
  <2> DEFINE k == run.k
  <2>1. k \in Nat
    BY <1>2
  <2> HIDE DEF k
  <2>2. (4 * z) * k = 4 * (z * k) /\ z * k \in Nat
    BY <1>7, <2>1
  <2> QED  BY <1>6, <1>7, <2>2 DEF k
<1>9. q = z * run.k
  <2> DEFINE y == z * run.k
  <2>1. y \in Nat /\ n = 4 * y
    BY <1>8
  <2> HIDE DEF y
  <2>2. n \div 4 = y
    BY <2>1
  <2> QED  BY <1>1, <2>2 DEF y
<1>10. \A s \in Source : Send(s) = [d \in Source |-> q] /\ Recv(s) = [d \in Source |-> q]
  <2>1. GateSplits(run) = [d \in Source |-> q]
    BY <1>1, <1>3 DEF GateSplits
  <2> QED  BY <1>1, <2>1 DEF Send, Recv
<1> QED  BY <1>8, <1>9, <1>10

(* The parts that are dealt in the first two collectives.                  *)
LEMMA FirstDealt ==
  ASSUME Launched, Placed, Exchanged, Meeting, program = "gate", NEW d \in Rank
  PROVE  /\ at[1].stage = "hidden" => Delivered(d) = TokensDealt(IdsAt(1), CountAt(1), d)
         /\ at[1].stage = "ids" => Delivered(d) = NumbersDealt(IdsAt(1), CountAt(1), d)
<1> DEFINE ids == IdsAt(1)
           n == CountAt(1)
           q == n \div NumSources
<1>1. /\ n \in Nat /\ NumSources = 4 /\ Rank = Source
      /\ \A r \in Source : IdsAt(r) = ids /\ CountAt(r) = n
      /\ \A r, s \in Source : at[r].stage = at[s].stage
  BY MeetingRoutes
<1>2. \A s \in Source : at[s].stage \in DataStages /\ Mode(s) = "nccl_real" /\ 1 \in Source
  BY <1>1, Ranks DEF Meeting
<1>3. q \in Nat /\ \A s \in Source : Send(s) = [c \in Source |-> q]
  BY GateMeeting
<1> HIDE DEF ids, n, q
<1>4. ASSUME NEW s \in Source
      PROVE  Assigned(s) = Packed(Tagged(ids, n)[s], ids[s]) /\ PackedIds(s) = Packed(Numbered(ids, n)[s], ids[s])
  <2>1. /\ Assigned(s) = Packed(Tagged(IdsAt(s), CountAt(s))[s], IdsAt(s)[s])
        /\ PackedIds(s) = Packed(Numbered(IdsAt(s), CountAt(s))[s], IdsAt(s)[s])
    BY <1>1, <1>2, AssignedAre
  <2> QED  BY <1>1, <2>1
<1>5. ASSUME NEW values,
             \A s \in Source : Buffer(s) = Packed(values[s], ids[s]) /\ Outgoing(s) = [c \in Source |-> q]
      PROVE  Delivered(d) = Dealt(values, ids, d, q)
  <2> DEFINE seqs == [s \in Source |-> Part(Packed(values[s], ids[s]), d, q)]
  <2>1. ASSUME NEW s \in Source
        PROVE  Blocks(Buffer(s), Outgoing(s))[d] = seqs[s]
    <3>1. \A buffer : Blocks(buffer, [c \in Source |-> q])[d] = Part(buffer, d, q)
      BY <1>1, <1>3, EqualBlocks
    <3> QED  BY <1>5, <3>1
  <2>2. DOMAIN seqs = Source
    OBVIOUS
  <2> HIDE DEF seqs
  <2>3. Delivered(d) = FlattenSeq(seqs)
    BY <1>1, <2>1, <2>2, FourDelivered
  <2> QED  BY <2>3 DEF seqs, Dealt
<1>6. CASE at[1].stage = "hidden"
  <2>1. \A s \in Source : Buffer(s) = Packed(Tagged(ids, n)[s], ids[s]) /\ Outgoing(s) = [c \in Source |-> q]
    <3>1. \A s \in Source : at[s].stage = "hidden"
      BY <1>1, <1>2, <1>6
    <3> QED  BY <1>1, <1>2, <1>3, <1>4, <3>1 DEF Buffer, Outgoing
  <2> DEFINE values == Tagged(ids, n)
  <2>2. \A s \in Source : Buffer(s) = Packed(values[s], ids[s]) /\ Outgoing(s) = [c \in Source |-> q]
    BY <2>1
  <2> HIDE DEF values
  <2>3. Delivered(d) = Dealt(values, ids, d, q)
    BY <1>5, <2>2
  <2> QED  BY <1>6, <2>3 DEF TokensDealt, ids, n, q, values
<1>7. CASE at[1].stage = "ids"
  <2>1. \A s \in Source : Buffer(s) = Packed(Numbered(ids, n)[s], ids[s]) /\ Outgoing(s) = [c \in Source |-> q]
    <3>1. \A s \in Source : at[s].stage = "ids"
      BY <1>1, <1>2, <1>7
    <3> QED  BY <1>1, <1>2, <1>3, <1>4, <3>1 DEF Buffer, Outgoing
  <2> DEFINE values == Numbered(ids, n)
  <2>2. \A s \in Source : Buffer(s) = Packed(values[s], ids[s]) /\ Outgoing(s) = [c \in Source |-> q]
    BY <2>1
  <2> HIDE DEF values
  <2>3. Delivered(d) = Dealt(values, ids, d, q)
    BY <1>5, <2>2
  <2> QED  BY <1>7, <2>3 DEF NumbersDealt, ids, n, q, values
<1> QED  BY <1>6, <1>7

(* What has been dealt, place by place.                                    *)
LEMMA DealtAt ==
  ASSUME NumSources = 4, NEW q \in Nat, NEW values, NEW ids, NEW d
  PROVE  /\ DOMAIN Dealt(values, ids, d, q) = 1 .. 4 * q
         /\ \A s \in Source : \A i \in 1 .. q :
              Dealt(values, ids, d, q)[PlaceIn(s, i, q)] = Packed(values[s], ids[s])[PlaceIn(d, i, q)]
<1> DEFINE g == [s \in Source |-> Part(Packed(values[s], ids[s]), d, q)]
           seqs == [s \in Source |-> [i \in 1 .. q |-> g[s][i]]]
<1>1. \A s \in Source : \A i \in 1 .. q : g[s][i] = Packed(values[s], ids[s])[PlaceIn(d, i, q)]
  BY DEF Part
<1>2. seqs = g
  <2>1. \A s \in Source : [i \in 1 .. q |-> g[s][i]] = g[s]
    BY DEF Part
  <2> QED  BY <2>1
<1>3. Dealt(values, ids, d, q) = Joined(g, q)
  BY <1>2 DEF Dealt, Joined
<1> HIDE DEF g, seqs
<1>4. /\ DOMAIN Joined(g, q) = 1 .. 4 * q
      /\ \A s \in Source : \A i \in 1 .. q : Joined(g, q)[PlaceIn(s, i, q)] = g[s][i]
  BY JoinedAt
<1> QED  BY <1>1, <1>3, <1>4

(* What comes back in equal parts are the tokens a rank has packed.        *)
LEMMA LastDealt ==
  ASSUME Launched, Placed, Exchanged, Carried, Meeting, program = "gate", NEW d \in Rank, at[1].stage = "combine"
  PROVE  [x \in DOMAIN Delivered(d) |-> Delivered(d)[x].token] = Assigned(d)
<1> DEFINE ids == IdsAt(1)
           n == CountAt(1)
           q == n \div NumSources
           tagged == Tagged(ids, n)
           mine == Packed(tagged[d], ids[d])
<1>1. /\ n \in Nat /\ NumSources = 4 /\ Rank = Source /\ AllHomed(ids, n) /\ d \in Source
      /\ \A r \in Source : IdsAt(r) = ids /\ CountAt(r) = n
      /\ \A r, s \in Source : at[r].stage = at[s].stage
  BY MeetingRoutes
<1>2. \A s \in Source : at[s].stage = "combine" /\ Mode(s) = "nccl_real"
  BY <1>1, Ranks DEF Meeting
<1>3. q \in Nat /\ n = 4 * q /\ \A s \in Source : Recv(s) = [c \in Source |-> q]
  BY GateMeeting
<1> HIDE DEF ids, n, q
<1>4. Assigned(d) = mine
  <2>1. Assigned(d) = Packed(Tagged(IdsAt(d), CountAt(d))[d], IdsAt(d)[d])
    BY <1>1, <1>2, AssignedAre DEF DataStages
  <2> QED  BY <1>1, <2>1
<1>5. DOMAIN mine = 1 .. n /\ mine = [x \in 1 .. n |-> mine[x]]
  BY <1>1 DEF Packed, AllHomed
<1> HIDE DEF tagged, mine
(* The experts keep the tokens where they are.                             *)
<1>6. ASSUME NEW s \in Source
      PROVE  /\ DOMAIN Buffer(s) = 1 .. 4 * q /\ Outgoing(s) = [c \in Source |-> q]
             /\ \A i \in 1 .. q : Buffer(s)[PlaceIn(d, i, q)].token = mine[PlaceIn(s, i, q)]
  <2>1. tokens[s] = Dealt(tagged, ids, s, q)
    BY <1>1, <1>2 DEF Carried, HasTokens, TokensDealt, tagged, q
  <2>2. /\ Buffer(s) = ExpertOutput(s, tokens[s], [x \in DOMAIN inbox[s] |-> [local |-> inbox[s][x]]])
        /\ Outgoing(s) = Recv(s)
    BY <1>2 DEF Buffer, Outgoing
  <2>3. DOMAIN Buffer(s) = DOMAIN tokens[s] /\ \A x \in DOMAIN tokens[s] : Buffer(s)[x].token = tokens[s][x]
    BY <2>2 DEF ExpertOutput, Through
  <2>4. /\ DOMAIN tokens[s] = 1 .. 4 * q
        /\ \A c \in Source : \A i \in 1 .. q :
             tokens[s][PlaceIn(c, i, q)] = Packed(tagged[c], ids[c])[PlaceIn(s, i, q)]
    BY <1>1, <1>3, <2>1, DealtAt
  <2>5. ASSUME NEW i \in 1 .. q
        PROVE  Buffer(s)[PlaceIn(d, i, q)].token = mine[PlaceIn(s, i, q)]
    <3> DEFINE x == PlaceIn(d, i, q)
    <3>1. tokens[s][x] = mine[PlaceIn(s, i, q)]
      BY <1>1, <2>4 DEF mine
    <3>2. x \in 1 .. 4 * q
      <4>1. d \in 1 .. 4
        BY <1>1 DEF Source
      <4> QED  BY <1>3, <2>5, <4>1 DEF PlaceIn
    <3> HIDE DEF x
    <3>3. Buffer(s)[x].token = tokens[s][x]
      BY <2>3, <2>4, <3>2
    <3> QED  BY <3>1, <3>3 DEF x
  <2> QED  BY <1>3, <2>2, <2>3, <2>4, <2>5
<1> DEFINE seqs == [s \in Source |-> Part(Buffer(s), d, q)]
<1>7. \A s \in Source : Blocks(Buffer(s), Outgoing(s))[d] = seqs[s]
  <2>1. \A buffer : Blocks(buffer, [c \in Source |-> q])[d] = Part(buffer, d, q)
    BY <1>1, <1>3, EqualBlocks
  <2> QED  BY <1>6, <2>1
<1>8. DOMAIN seqs = Source
  OBVIOUS
<1>9. \A s \in Source : \A i \in 1 .. q : seqs[s][i].token = mine[PlaceIn(s, i, q)]
  BY <1>6 DEF Part
<1> DEFINE back == Delivered(d)
<1>10. back = FlattenSeq(seqs)
  BY <1>1, <1>7, <1>8, FourDelivered
<1>11. back = Joined(seqs, q)
  <2>1. \A s \in Source : [i \in 1 .. q |-> seqs[s][i]] = seqs[s]
    BY DEF Part
  <2>2. [s \in Source |-> [i \in 1 .. q |-> seqs[s][i]]] = seqs
    BY <2>1
  <2> QED  BY <1>10, <2>2 DEF Joined
<1> HIDE DEF seqs, back
<1>12. /\ DOMAIN back = 1 .. 4 * q
       /\ \A s \in Source : \A i \in 1 .. q : back[PlaceIn(s, i, q)] = seqs[s][i]
  BY <1>1, <1>3, <1>11, JoinedAt
<1>13. ASSUME NEW x \in 1 .. 4 * q
       PROVE  back[x].token = mine[x]
  <2>1. PICK s \in Source : \E i \in 1 .. q : x = PlaceIn(s, i, q)
    BY <1>1, <1>3, EqualPlaces
  <2>2. PICK i \in 1 .. q : x = PlaceIn(s, i, q)
    BY <2>1
  <2> QED  BY <1>9, <1>12, <2>2
<1>14. [x \in DOMAIN back |-> back[x].token] = mine
  BY <1>3, <1>5, <1>12, <1>13
<1> QED  BY <1>4, <1>14 DEF back

(* Ranks that are all in a collective are in the same one.                 *)
LEMMA AllMeet ==
  ASSUME Lockstep, Waits, waiting = Rank
  PROVE  \A r \in Rank : at[r] = at[1] /\ at[r].stage \in CollectiveStages
<1>1. \A s \in Rank : at[s].stage \in CollectiveStages
  BY DEF Waits
<1>2. \A s \in Rank : Heading(at[s], program, runs) = at[s]
  BY <1>1 DEF Heading, CollectiveStages, DataStages, LastPlaces
<1> QED  BY <1>1, <1>2, Ranks DEF Lockstep

(* Ranks that go elsewhere, or nowhere, keep what they have received.      *)
LEMMA CarriedKept ==
  ASSUME Carried, UNCHANGED <<program, runs, inbox, tokens>>,
         \A r \in Rank : at'[r] = at[r] \/ at'[r].stage \notin {"ids", "combine"}
  PROVE  Carried'
<1>1. ASSUME NEW r \in Rank, at'[r].stage \in {"ids", "combine"}, Mode(r)' = "nccl_real"
      PROVE  /\ at'[r].stage = "ids" => HasTokens(inbox[r], r)'
             /\ at'[r].stage = "combine" => HasTokens(tokens[r], r)' /\ HasNumbers(inbox[r], r)'
  <2>1. at'[r] = at[r]
    BY <1>1
  <2>2. IdsAt(r)' = IdsAt(r) /\ CountAt(r)' = CountAt(r) /\ Mode(r)' = Mode(r) /\ Fits(r)' = Fits(r)
    BY <2>1 DEF IdsAt, CountAt, RunOf, Mode, Fits
  <2> QED  BY <1>1, <2>1, <2>2 DEF Carried, HasTokens, HasNumbers
<1> QED  BY <1>1 DEF Carried

(* The collective that follows the first two of a layer.                   *)
LEMMA NextCollective ==
  ASSUME NEW prg \in {"gate", "proxy", "parallel"}, NEW rs, Len(rs) \in Nat,
         NEW p \in Places, p.run \in 1 .. Len(rs),
         p.stage \in DataStages \union {"gather", "barrier"}, p.stage = "gather" => prg = "parallel",
         NEW q, q = Following(p, prg, rs)
  PROVE  /\ p.stage = "hidden" => q = [p EXCEPT !.stage = "ids"]
         /\ p.stage = "ids" => q = [p EXCEPT !.stage = "combine"]
         /\ p.stage \notin {"hidden", "ids"} => q.stage \notin {"ids", "combine"}
<1>1. CASE prg = "parallel"
  <2>1. q = ParallelAfter(p, rs)
    BY <1>1 DEF Following
  <2>2. CASE p.stage \in {"hidden", "ids"}
    BY <2>1, <2>2 DEF ParallelAfter
  <2>3. CASE p.stage \in {"gather", "barrier", "combine"}
    <3>1. \E stage \in {"barrier", "hidden", "end"} : q = [p EXCEPT !.stage = stage]
      BY <2>1, <2>3 DEF ParallelAfter
    <3> QED  BY <2>3, <3>1 DEF Places
  <2> QED  BY <2>2, <2>3 DEF DataStages
<1>2. CASE prg # "parallel"
  <2> DEFINE mode == rs[p.run].mode
  <2>1. q = GateAfter(p, mode, Len(rs))
    BY <1>2 DEF Following
  <2>2. p.stage \in {"barrier", "hidden", "ids", "combine"} /\ p.layer \in Layer /\ p.batch \in Batch
    BY <1>2 DEF Places, DataStages
  <2> HIDE DEF mode
  <2>3. CASE p.stage = "barrier"
    BY <2>1, <2>3 DEF GateAfter, Place
  <2>4. CASE p.stage \in {"hidden", "ids"}
    BY <2>1, <2>4 DEF GateAfter
  <2>5. CASE p.stage = "combine"
    <3>1. CASE p.layer < NumLayers
      BY <2>1, <2>2, <2>5, <3>1, PlanAssumption DEF GateAfter, Place, Layer
    <3>2. CASE p.layer = NumLayers /\ p.batch < BatchCount
      BY <2>1, <2>5, <3>2, FirstOnes, PlanAssumption DEF GateAfter, Place
    <3>3. CASE p.layer = NumLayers /\ p.batch = BatchCount
      BY <2>1, <2>2, <2>5, <3>3, PlanAssumption DEF GateAfter, Place
    <3> QED  BY <2>2, <3>1, <3>2, <3>3, FirstOnes, PlanAssumption DEF Layer, Batch
  <2> QED  BY <2>2, <2>3, <2>4, <2>5
<1> QED  BY <1>1, <1>2

(* A collective brings the ranks what they carry to the next one.          *)
LEMMA CompleteCarries ==
  ASSUME LaunchInv, Carried, Complete
  PROVE  Carried'
<1> DEFINE p == at[1]
           q == Following(p, program, runs)
<1>1. Launched /\ Placed /\ Lockstep /\ Waits /\ Exchanged
  BY DEF LaunchInv
<1>2. /\ waiting = Rank /\ at' = [r \in Rank |-> Leaving(r)]
      /\ inbox' = IF p.stage \in DataStages THEN [r \in Rank |-> Delivered(r)] ELSE inbox
      /\ tokens' = IF p.stage = "ids" THEN inbox ELSE tokens
      /\ UNCHANGED <<program, runs>>
  BY DEF Complete
<1>3. \A r \in Rank : at[r] = p /\ p.stage \in CollectiveStages
  BY <1>1, <1>2, AllMeet
<1>4. p \in Places /\ p.stage \in CollectiveStages /\ p.run \in 1 .. Len(runs) /\ 1 \in Rank
      /\ Reaches(1, p.stage, program)
  BY <1>1, <1>3, Ranks DEF Placed, CollectiveStages, DataStages
<1>5. CASE p.stage \in {"written", "collect"}
  <2>1. ASSUME NEW r \in Rank
        PROVE  at'[r].stage \notin {"ids", "combine"}
    <3>1. at'[r] = Leaving(r) /\ at[r] = p
      BY <1>2, <1>3
    <3>2. \E stage \in {"metadata", "done", "write"} : at'[r] = [p EXCEPT !.stage = stage]
      BY <1>5, <3>1 DEF Leaving
    <3> QED  BY <1>4, <3>2 DEF Places
  <2>2. UNCHANGED <<program, runs, inbox, tokens>>
    BY <1>2, <1>5 DEF DataStages
  <2> QED  BY <2>1, <2>2, CarriedKept
<1>6. CASE p.stage \notin {"written", "collect"}
  <2>1. ASSUME NEW r \in Rank
        PROVE  at'[r] = q
    <3>1. at'[r] = Leaving(r) /\ at[r] = p
      BY <1>2, <1>3
    <3>2. Leaving(r) = After(r)
      BY <1>6, <3>1 DEF Leaving
    <3> QED  BY <1>1, <3>1, <3>2, AfterIs
  <2>2. p.stage \in DataStages \union {"gather", "barrier"} /\ (p.stage = "gather" => program = "parallel")
    BY <1>4, <1>6 DEF CollectiveStages, Reaches
  <2>3. /\ p.stage = "hidden" => q = [p EXCEPT !.stage = "ids"]
        /\ p.stage = "ids" => q = [p EXCEPT !.stage = "combine"]
        /\ p.stage \notin {"hidden", "ids"} => q.stage \notin {"ids", "combine"}
    BY <1>1, <1>4, <2>2, NextCollective, ProgramKinds, RunsLength
  <2> HIDE DEF q
  <2>4. ASSUME NEW r \in Rank, at'[r].stage \in {"ids", "combine"}, Mode(r)' = "nccl_real"
        PROVE  /\ at'[r].stage = "ids" => HasTokens(inbox[r], r)'
               /\ at'[r].stage = "combine" => HasTokens(tokens[r], r)' /\ HasNumbers(inbox[r], r)'
    <3>1. /\ p.stage \in {"hidden", "ids"} /\ at'[r].run = p.run /\ at'[r].batch = p.batch
          /\ at'[r].stage = "ids" => p.stage = "hidden"
          /\ at'[r].stage = "combine" => p.stage = "ids"
      BY <1>4, <2>1, <2>3, <2>4 DEF Places
    <3>2. IdsAt(r)' = IdsAt(1) /\ CountAt(r)' = CountAt(1) /\ (Fits(r)' <=> Fits(1)) /\ program' = program
      BY <1>2, <3>1 DEF IdsAt, CountAt, RunOf, Fits
    <3>3. IdsAt(r) = IdsAt(1) /\ CountAt(r) = CountAt(1) /\ at[r].stage = p.stage /\ (Fits(r) <=> Fits(1))
      BY <1>3 DEF IdsAt, CountAt, RunOf, Fits
    <3>4. Meeting
      <4>1. \A s \in Rank : Mode(s) = Mode(r)'
        BY <1>2, <1>3, <3>1 DEF Mode, RunOf
      <4> QED  BY <1>3, <2>4, <3>1, <4>1 DEF Meeting, DataStages
    <3>5. inbox'[r] = Delivered(r)
      BY <1>2, <3>1 DEF DataStages
    <3>6. /\ p.stage = "hidden" =>
               /\ Fits(1) => Delivered(r) = TokensFor(IdsAt(1), CountAt(1), r)
               /\ program = "gate" => Delivered(r) = TokensDealt(IdsAt(1), CountAt(1), r)
          /\ p.stage = "ids" =>
               /\ Fits(1) => Delivered(r) = NumbersFor(IdsAt(1), CountAt(1), r)
               /\ program = "gate" => Delivered(r) = NumbersDealt(IdsAt(1), CountAt(1), r)
      BY <1>1, <3>4, FirstDeliveries, FirstDealt
    <3>7. p.stage = "ids" =>
            /\ Fits(1) => tokens'[r] = TokensFor(IdsAt(1), CountAt(1), r)
            /\ program = "gate" => tokens'[r] = TokensDealt(IdsAt(1), CountAt(1), r)
      <4>1. Mode(r) = "nccl_real"
        BY <3>4 DEF Meeting
      <4> QED  BY <1>2, <3>3, <4>1 DEF Carried, HasTokens
    <3>8. p.stage = "hidden" => HasTokens(inbox[r], r)'
      BY <3>2, <3>5, <3>6 DEF HasTokens
    <3>9. p.stage = "ids" => HasTokens(tokens[r], r)' /\ HasNumbers(inbox[r], r)'
      BY <3>2, <3>5, <3>6, <3>7 DEF HasTokens, HasNumbers
    <3> QED  BY <3>1, <3>8, <3>9
  <2> QED  BY <2>4 DEF Carried
<1> QED  BY <1>5, <1>6

(* Nothing else changes what a rank has received.                          *)
LEMMA CarriedStep ==
  ASSUME LaunchInv, Carried, [Next]_vars
  PROVE  Carried'
<1>1. Launched /\ Placed
  BY DEF LaunchInv
<1>2. ASSUME NEW r \in Rank, Step(r) \/ FailWriting(r)
      PROVE  Carried'
  <2>1. UNCHANGED <<program, runs, inbox, tokens>>
    BY <1>2 DEF Step, Join, RaiseUnroutable, RaiseAfterRun, RecordRun, OpenFile, CloseFile,
                OpenMetadata, PrintPass, Exit, Refuse, FailWriting
  <2>2. CASE at' = at
    BY <2>1, <2>2, CarriedKept
  <2>3. CASE RecordRun(r)
    <3> DEFINE q == After(r)
    <3>1. at' = [at EXCEPT ![r] = q] /\ at[r].stage = "end"
      BY <2>3 DEF RecordRun, Computes
    <3>2. at[r] \in Places /\ at[r].run \in 1 .. Len(runs) /\ q = Following(at[r], program, runs)
      BY <1>1, <3>1, AfterIs DEF Placed
    <3>3. q.stage \in IF program = "parallel" THEN {"gather", "barrier", "collect"} ELSE {"barrier", "write"}
      BY <1>1, <3>1, <3>2, AfterEnd, ProgramKinds, RunsLength
    <3> HIDE DEF q
    <3>4. \A s \in Rank : at'[s] = at[s] \/ at'[s].stage \notin {"ids", "combine"}
      BY <1>1, <3>1, <3>3 DEF Placed
    <3> QED  BY <2>1, <3>4, CarriedKept
  <2>4. CASE \E stage \in {"close", "metadata", "written", "pass", "done"} :
               at' = [at EXCEPT ![r].stage = stage]
    <3>1. \A s \in Rank : at'[s] = at[s] \/ at'[s].stage \notin {"ids", "combine"}
      BY <1>1, <2>4 DEF Placed, Places
    <3> QED  BY <2>1, <3>1, CarriedKept
  <2> QED  BY <1>2, <2>2, <2>3, <2>4
           DEF Step, Join, RaiseUnroutable, RaiseAfterRun, OpenFile, CloseFile, OpenMetadata, PrintPass,
               Exit, Refuse, FailWriting
<1>3. CASE Terminate
  BY <1>3, CarriedKept DEF Terminate
<1>4. CASE Relaunch
  <2> DEFINE q == FirstStage(program, args')
  <2>1. at' = [r \in Rank |-> q] /\ program \in Programs /\ args' \in Arguments(program)
    BY <1>1, <1>4 DEF Relaunch, ForAll, Launched
  <2>2. q.stage \in {"setup", "gather", "barrier"}
    BY <2>1, StartsPlaced
  <2> HIDE DEF q
  <2>3. \A r \in Rank : at'[r].stage \notin {"ids", "combine"}
    BY <2>1, <2>2
  <2> QED  BY <2>3 DEF Carried
<1>5. CASE UNCHANGED vars
  BY <1>5, CarriedKept DEF vars, process
<1> QED  BY <1>2, <1>3, <1>4, <1>5, CompleteCarries DEF Next

LEMMA CarriedInvariance == ReviewedSpec => [](ReviewedInv /\ Carried)
<1>1. ReviewedInit => Carried
  <2> SUFFICES ASSUME Init  PROVE Carried
    BY DEF ReviewedInit
  <2> DEFINE q == FirstStage(program, args)
  <2>1. at = [r \in Rank |-> q] /\ program \in Programs /\ args \in Arguments(program)
    BY DEF Init, ForAll
  <2>2. q.stage \in {"setup", "gather", "barrier"}
    BY <2>1, StartsPlaced
  <2> HIDE DEF q
  <2> QED  BY <2>1, <2>2 DEF Carried
<1>2. ReviewedInv /\ Carried /\ [ReviewedNext]_reviewedVars => Carried'
  <2>1. [ReviewedNext]_reviewedVars => [Next]_vars
    BY DEF ReviewedNext, reviewedVars, Analyze
  <2> QED  BY <2>1, CarriedStep DEF ReviewedInv
<1> QED  BY <1>1, <1>2, ReviewedInvariance, PTL DEF ReviewedSpec

(* No origin is sent with a token, and yet the last all-to-all of a layer  *)
(* brings every rank its own tokens in the order in which it packed them,  *)
(* in all three programs (benchmark_timing_gate_ep4.py:239-260,            *)
(* benchmark_proxy_validation_ep4.py:371-390,                              *)
(* benchmark_position_parallel_ep.py:182-187).  Each comes from the expert *)
(* it was meant for, except where the gate's equal parts do not fit its    *)
(* routes.                                                                 *)
THEOREM TokensReturn == ReviewedSpec => []ReturnedFromExpert
<1>1. ReviewedInv /\ Carried => ReturnedFromExpert
  <2> SUFFICES ASSUME LaunchInv, Carried, waiting = Rank, at[1].stage = "combine", Mode(1) = "nccl_real",
                      NEW r \in Rank, NEW assigned, assigned = Assigned(r), NEW returned, returned = Delivered(r)
               PROVE  /\ [x \in DOMAIN returned |-> returned[x].token] = assigned
                      /\ Fits(r) => returned = [x \in DOMAIN assigned |-> Through(assigned[x], assigned[x].expert)]
    BY DEF ReturnedFromExpert, ReviewedInv
  <2>1. Launched /\ Placed /\ Lockstep /\ Waits /\ Exchanged
    BY DEF LaunchInv
  <2>2. \A s \in Rank : at[s] = at[1]
    BY <2>1, AllMeet
  <2>3. Meeting
    <3>1. \A s \in Rank : Mode(s) = Mode(1)
      BY <2>2 DEF Mode, RunOf
    <3> QED  BY <2>2, <3>1 DEF Meeting, DataStages
  <2>4. ASSUME Fits(r)
        PROVE  returned = [x \in DOMAIN assigned |-> Through(assigned[x], assigned[x].expert)]
    <3>1. Fits(1)
      BY <2>2, <2>4 DEF Fits, RunOf
    <3>2. Delivered(r) = Packed(Answers(Tagged(IdsAt(1), CountAt(1)), IdsAt(1), CountAt(1))[r], IdsAt(1)[r])
      BY <2>1, <2>3, <3>1, LastDelivery
    <3>3. IdsAt(r) = IdsAt(1) /\ CountAt(r) = CountAt(1) /\ at[r].stage \in DataStages
      BY <2>2, <2>3 DEF IdsAt, CountAt, RunOf, Meeting
    <3>4. [x \in DOMAIN Assigned(r) |-> Through(Assigned(r)[x], Assigned(r)[x].expert)]
            = Packed(Answers(Tagged(IdsAt(r), CountAt(r)), IdsAt(r), CountAt(r))[r], IdsAt(r)[r])
      BY <2>1, <3>3, AssignedAre
    <3> QED  BY <3>2, <3>3, <3>4
  <2>5. CASE Fits(r)
    <3> DEFINE answers == [x \in DOMAIN assigned |-> Through(assigned[x], assigned[x].expert)]
    <3>1. returned = answers
      BY <2>4, <2>5
    <3>2. DOMAIN answers = DOMAIN assigned /\ \A x \in DOMAIN assigned : answers[x].token = assigned[x]
      BY DEF Through
    <3>3. assigned = [x \in DOMAIN assigned |-> assigned[x]]
      BY DEF Assigned, Packed
    <3> HIDE DEF answers
    <3>4. [x \in DOMAIN returned |-> returned[x].token] = assigned
      BY <3>1, <3>2, <3>3
    <3> QED  BY <2>4, <3>4
  <2>6. CASE ~Fits(r)
    <3>1. program = "gate"
      BY <2>6 DEF Fits
    <3> QED  BY <2>1, <2>3, <2>6, <3>1, LastDealt
  <2> QED  BY <2>5, <2>6
<1> QED  BY <1>1, CarriedInvariance, PTL

-----------------------------------------------------------------------------
(* The work of the experts. *)

(* What the numbers say, one by one, about the assignments of all ranks.   *)
LEMMA NumbersCount ==
  ASSUME NEW n \in Nat, NEW ids, AllHomed(ids, n), NEW d \in Source, NEW e
  PROVE  LET flat == FlattenSeq(Arrivals(Numbered(ids, n), ids, d))
         IN  Cardinality({x \in DOMAIN flat : flat[x] = e}) = Cardinality(Wanted(ids, d, n, e))
<1> DEFINE flat == FlattenSeq(Arrivals(Numbered(ids, n), ids, d))
           size == [s \in Source |-> PartSizes(ids[s])[d]]
           locals == Locals(ids, n)
           L == FlattenSeq(Arrivals(locals, ids, d))
<1>1. size \in [Source -> Nat] /\ \A s \in Source : size[s] = PartSizes(ids[s])[d]
  <2>1. \A s \in Source : PartSizes(ids[s]) \in [Source -> Nat]
    BY AllHomedAre, PartSizesAre
  <2> QED  BY <2>1
<1> HIDE DEF size
<1>2. PICK f : Begins(f, size) /\ \A i, j \in Nat : i <= j => f[i] <= f[j]
  BY <1>1, BeginsExist
<1>3. [x \in DOMAIN flat |-> [local |-> flat[x]]] = L
  BY <1>1, NumbersLabelled
<1>4. Made(L, locals, ids, d, n, f)
  <2> HIDE DEF locals
  <2> QED  BY <1>1, <1>2, ArrivalsAt
<1> HIDE DEF L, flat
<1>5. Cardinality(Positions(L, e)) = Cardinality(Wanted(ids, d, n, e))
  BY <1>1, <1>2, <1>4, ArrivalsCount
<1>6. DOMAIN L = DOMAIN flat /\ \A x \in DOMAIN flat : L[x].local = flat[x]
  BY <1>3
<1>7. Positions(L, e) = {x \in DOMAIN flat : flat[x] = e}
  BY <1>6 DEF Positions
<1> QED  BY <1>5, <1>7 DEF flat

(* The contract's local ids are those that arrive.                         *)
LEMMA ProxyLocalsArrive ==
  ASSUME NEW run, NEW b, NEW d \in Source, NEW n \in Nat,
         NEW ids, ids = [s \in Source |-> ProxyIds(run, s, b)], AllHomed(ids, n)
  PROVE  ProxyLocalIds(run, d, b) = FlattenSeq(Arrivals(Numbered(ids, n), ids, d))
<1> DEFINE mine(s) == SentTo(ids[s], d)
<1>1. \A s \in Source : ids[s] = ProxyIds(run, s, b)
  OBVIOUS
<1>2. ProxyLocalIds(run, d, b)
        = FlattenSeq([s \in Source |-> [x \in DOMAIN mine(s) |-> LocalId(ids[s][mine(s)[x]])]])
  BY <1>1 DEF ProxyLocalIds
<1>3. ASSUME NEW s \in Source
      PROVE  [x \in DOMAIN mine(s) |-> LocalId(ids[s][mine(s)[x]])] = Parcels(Numbered(ids, n)[s], ids[s])[d]
  <2> DEFINE m == Cardinality(Bound(ids[s], d))
             t == mine(s)
  <2>1. Homed(ids[s], n)
    BY AllHomedAre
  <2>2. t \in Seq(1 .. n) /\ Len(t) = m
    BY <2>1, PartSizesAre
  <2>3. Parcels(Numbered(ids, n)[s], ids[s])[d] = [k \in 1 .. m |-> Numbered(ids, n)[s][t[k]]]
    BY DEF Parcels
  <2> HIDE DEF m, t
  <2>4. DOMAIN t = 1 .. m /\ \A k \in 1 .. m : t[k] \in 1 .. n
    BY <2>2
  <2>5. \A a \in 1 .. n : Numbered(ids, n)[s][a] = LocalId(ids[s][a])
    BY DEF Numbered
  <2>6. [x \in DOMAIN t |-> LocalId(ids[s][t[x]])] = [k \in 1 .. m |-> Numbered(ids, n)[s][t[k]]]
    BY <2>4, <2>5
  <2> QED  BY <2>3, <2>6 DEF t
<1> HIDE DEF mine
<1>4. [s \in Source |-> [x \in DOMAIN mine(s) |-> LocalId(ids[s][mine(s)[x]])]]
        = Arrivals(Numbered(ids, n), ids, d)
  BY <1>3 DEF Arrivals
<1> QED  BY <1>2, <1>4

(* A number that is had once in every turn of P is had n \div P times, and *)
(* once more if the turn that is left comes as far.                        *)
Takes(n, P, e) == {a \in 1 .. n : (a - 1) % P = e}

LEMMA TakesCount ==
  ASSUME NEW n \in Nat, NEW P \in Nat \ {0}, NEW e \in 0 .. P - 1
  PROVE  LET q == n \div P
         IN  /\ q \in Nat
             /\ IsFiniteSet(Takes(n, P, e))
             /\ Cardinality(Takes(n, P, e)) = IF e < n % P THEN q + 1 ELSE q
<1> DEFINE q == n \div P
           t == n % P
           whole == Turned(q, P, {e})
           c == q * P
           last == c + e + 1
<1>1. q \in Nat /\ t \in 0 .. P - 1 /\ n = c + t /\ c \in Nat
  <2>1. q \in Nat /\ t \in 0 .. P - 1 /\ n = q * P + t
    BY Quotient
  <2> HIDE DEF q
  <2> QED  BY <2>1
<1>2. e \in Nat /\ e < P
  OBVIOUS
<1>3. IsFiniteSet(whole) /\ Cardinality(whole) = q
  <2>1. Cardinality({e}) = 1 /\ {e} \subseteq 0 .. P - 1
    BY FS_Singleton
  <2> DEFINE K == {e}
  <2> HIDE DEF q
  <2>2. IsFiniteSet(Turned(q, P, K)) /\ Cardinality(Turned(q, P, K)) = q * Cardinality(K)
    <3> HIDE DEF K
    <3>1. K \subseteq 0 .. P - 1
      BY <2>1 DEF K
    <3> QED  BY <1>1, <3>1, TurnsCount
  <2> QED  BY <1>1, <2>1, <2>2
<1> HIDE DEF q, t
<1>4. last - 1 = q * P + e /\ last \in Nat /\ (last - 1) % P = e
  <2>1. (q * P + e) % P = e
    BY <1>1, RemainderIs
  <2>2. last - 1 = q * P + e /\ last \in Nat
    <3>1. c \in Nat
      BY <1>1
    <3> HIDE DEF c
    <3>2. (c + e + 1) - 1 = c + e /\ c + e + 1 \in Nat
      BY <1>2, <3>1
    <3> QED  BY <3>2 DEF c
  <2> QED  BY <2>1, <2>2
(* Past the whole turns there is at most one.                              *)
<1>5. ASSUME NEW a \in 1 .. n, (a - 1) % P = e, ~(a <= c)
      PROVE  a = last
  <2> DEFINE m == a - 1 - c
  <2>1. m \in 0 .. t - 1 /\ m \in 0 .. P - 1 /\ a - 1 = c + m
    <3> HIDE DEF c
    <3> QED  BY <1>1, <1>5
  <2> HIDE DEF m
  <2>2. (q * P + m) % P = m
    BY <1>1, <2>1, RemainderIs
  <2>3. m = e
    BY <1>5, <2>1, <2>2
  <2>4. a = c + e + 1
    <3> HIDE DEF c
    <3> QED  BY <1>1, <2>1, <2>3
  <2> QED  BY <2>4
<1>6. whole = {a \in 1 .. c : (a - 1) % P = e}
  BY DEF Turned
<1>7. \A a \in 1 .. c : a <= c
  <2> HIDE DEF c
  <2> QED  BY <1>1
<1> HIDE DEF whole
<1>8. CASE e < t
  <2>1. last \in 1 .. n /\ ~(last <= c)
    <3> HIDE DEF c
    <3> QED  BY <1>1, <1>2, <1>8
  <2>2. Takes(n, P, e) = whole \union {last}
    <3>1. \A a \in 1 .. c : a \in 1 .. n
      <4> HIDE DEF c
      <4> QED  BY <1>1
    <3>2. \A a \in 1 .. n : a <= c => a \in 1 .. c
      <4> HIDE DEF c
      <4> QED  BY <1>1
    <3> HIDE DEF last, c
    <3> QED  BY <1>4, <1>5, <1>6, <2>1, <3>1, <3>2 DEF Takes
  <2>3. last \notin whole
    <3> HIDE DEF last, c
    <3> QED  BY <1>6, <1>7, <2>1
  <2> HIDE DEF last
  <2>4. IsFiniteSet(whole \union {last}) /\ Cardinality(whole \union {last}) = q + 1
    BY <1>3, <2>3, FS_AddElement
  <2> QED  BY <1>1, <1>8, <2>2, <2>4 DEF q, t
<1>9. CASE ~(e < t)
  <2>1. Takes(n, P, e) = whole
    <3>1. ~(last \in 1 .. n)
      <4> HIDE DEF c
      <4> QED  BY <1>1, <1>2, <1>9
    <3>2. \A a \in 1 .. c : a \in 1 .. n
      <4> HIDE DEF c
      <4> QED  BY <1>1
    <3>3. \A a \in 1 .. n : a <= c => a \in 1 .. c
      <4> HIDE DEF c
      <4> QED  BY <1>1
    <3> HIDE DEF last, c
    <3> QED  BY <1>5, <1>6, <3>1, <3>2, <3>3 DEF Takes
  <2> QED  BY <1>1, <1>3, <1>9, <2>1 DEF q, t
<1> QED  BY <1>8, <1>9

(* What four equal parts contain.                                          *)
FourTimes(c) == \E x \in Nat : c = 4 * x

(* If the first and the last number are had a multiple of four times, all  *)
(* of them are, and no turn is left.                                       *)
LEMMA FourTurns ==
  ASSUME NEW n \in Nat, NEW P \in Nat \ {0},
         FourTimes(Cardinality(Takes(n, P, 0))), FourTimes(Cardinality(Takes(n, P, P - 1)))
  PROVE  n % (4 * P) = 0
<1> DEFINE q == n \div P
           t == n % P
<1>1. q \in Nat /\ t \in 0 .. P - 1 /\ n = q * P + t
  BY Quotient
<1>2. Cardinality(Takes(n, P, 0)) = IF 0 < t THEN q + 1 ELSE q
  <2>1. 0 \in 0 .. P - 1
    OBVIOUS
  <2> QED  BY <2>1, TakesCount
<1>3. Cardinality(Takes(n, P, P - 1)) = IF P - 1 < t THEN q + 1 ELSE q
  <2> DEFINE e == P - 1
  <2>1. e \in 0 .. P - 1
    OBVIOUS
  <2> HIDE DEF e
  <2>2. Cardinality(Takes(n, P, e)) = IF e < t THEN q + 1 ELSE q
    BY <2>1, TakesCount
  <2> QED  BY <2>2 DEF e
<1> HIDE DEF q, t
<1>4. PICK y \in Nat : q = 4 * y
  BY <1>1, <1>3 DEF FourTimes
<1>5. t = 0
  <2>1. PICK x \in Nat : Cardinality(Takes(n, P, 0)) = 4 * x
    BY DEF FourTimes
  <2> QED  BY <1>1, <1>2, <1>4, <2>1
<1>6. n = y * (4 * P) + 0
  <2>1. q * P \in Nat /\ n = q * P
    BY <1>1, <1>5
  <2>2. (4 * y) * P = y * (4 * P) /\ y * (4 * P) \in Nat
    OBVIOUS
  <2> QED  BY <1>4, <2>1, <2>2
<1>7. 4 * P \in Nat \ {0}
  OBVIOUS
<1> DEFINE M == 4 * P
<1>8. M \in Nat \ {0} /\ 0 \in 0 .. M - 1 /\ n = y * M + 0
  BY <1>6, <1>7
<1> HIDE DEF M
<1>9. n % M = 0
  BY <1>8, RemainderIs
<1> QED  BY <1>9 DEF M

(* Where a buffer has a number. *)
Given(buffer, e) == {i \in DOMAIN buffer : buffer[i] = e}

(* What is dealt from four equal buffers is had four times as often as in  *)
(* one part.                                                               *)
LEMMA DealtCount ==
  ASSUME NumSources = 4, NEW n \in Nat, n \div NumSources \in Nat, NEW d \in Source,
         NEW flat, NEW ids, \A s \in Source : ids[s] = flat, NEW e,
         NEW dealt, dealt = NumbersDealt(ids, n, d)
  PROVE  FourTimes(Cardinality(Given(dealt, e)))
<1> DEFINE q == n \div NumSources
           block == [i \in 1 .. q |-> Packed(Numbered(ids, n)[1], flat)[PlaceIn(d, i, q)]]
           K == {m \in 0 .. q - 1 : block[m + 1] = e}
<1>0. q \in Nat /\ NumSources = 4
  OBVIOUS
<1>1. 1 \in Source
  BY DEF Source
<1>2. \A s \in Source : ids[s] = flat /\ Numbered(ids, n)[s] = Numbered(ids, n)[1]
  BY <1>1 DEF Numbered
<1>3. /\ DOMAIN dealt = 1 .. 4 * q
      /\ \A s \in Source : \A i \in 1 .. q : dealt[PlaceIn(s, i, q)] = block[i]
  <2> DEFINE values == Numbered(ids, n)
  <2>1. dealt = Dealt(values, ids, d, q)
    BY DEF NumbersDealt
  <2> HIDE DEF values, q
  <2>2. /\ DOMAIN dealt = 1 .. 4 * q
        /\ \A s \in Source : \A i \in 1 .. q : dealt[PlaceIn(s, i, q)] = Packed(values[s], ids[s])[PlaceIn(d, i, q)]
    BY ONLY <1>0, <2>1, DealtAt
  <2>3. \A s \in Source : Packed(values[s], ids[s]) = Packed(Numbered(ids, n)[1], flat)
    BY <1>2 DEF values
  <2> QED  BY <2>2, <2>3 DEF block
<1> HIDE DEF block, q
<1>4. ASSUME NEW i \in 1 .. 4 * q
      PROVE  dealt[i] = e <=> (i - 1) % q \in K
  <2>1. PICK s \in Source : \E j \in 1 .. q : i = PlaceIn(s, j, q) /\ j = ((i - 1) % q) + 1
    BY <1>0, EqualPlaces
  <2>2. PICK j \in 1 .. q : i = PlaceIn(s, j, q) /\ j = ((i - 1) % q) + 1
    BY <2>1
  <2>3. dealt[i] = block[j]
    BY <1>3, <2>2
  <2> DEFINE m == (i - 1) % q
  <2>4. j = m + 1
    BY <2>2
  <2>5. m \in 0 .. q - 1
    <3>1. i - 1 \in Nat /\ q \in Nat \ {0}
      BY <1>0
    <3> DEFINE b == i - 1
    <3> HIDE DEF b
    <3>2. b % q \in 0 .. q - 1
      BY <3>1, Quotient DEF b
    <3> QED  BY <3>2 DEF b
  <2> HIDE DEF m
  <2>6. block[j] = e <=> m \in K
    BY <2>4, <2>5
  <2> QED  BY <2>3, <2>6 DEF m
<1>5. Given(dealt, e) = Turned(4, q, K)
  <2> HIDE DEF K
  <2> QED  BY <1>3, <1>4 DEF Turned, Given
<1>6. IsFiniteSet(K) /\ Cardinality(K) \in Nat
  <2>1. IsFiniteSet(0 .. q - 1) /\ K \subseteq 0 .. q - 1
    BY <1>0, FS_Interval
  <2> QED  BY <2>1, FS_Subset, FS_CardinalityType
<1>7. CASE q = 0
  <2>1. Given(dealt, e) = {}
    BY <1>3, <1>7 DEF Given
  <2>2. Cardinality(Given(dealt, e)) = 4 * 0
    BY <2>1, FS_EmptySet
  <2> QED  BY <2>2 DEF FourTimes
<1>8. CASE q # 0
  <2>1. K \subseteq 0 .. q - 1
    OBVIOUS
  <2> HIDE DEF K
  <2>2. Cardinality(Turned(4, q, K)) = 4 * Cardinality(K)
    BY <1>0, <1>8, <2>1, TurnsCount
  <2> QED  BY <1>5, <1>6, <2>2 DEF FourTimes
<1> QED  BY <1>7, <1>8

(* Altogether the experts of a number have their turns in the routes of a  *)
(* rank, and the controls compute on those.                                *)
LEMMA ControlledCount ==
  ASSUME NEW run, run.k \in Nat, NEW e \in LocalExpert, NEW n, n = BatchSize * run.k * TopK
  PROVE  LET ids == GateLocalIds(run)
             K == {x \in Expert : LocalId(x) = e}
             T == {a \in 1 .. n : BalancedIds(run)[a] \in K}
         IN  /\ Cardinality(Given(ids, e)) = Cardinality(T)
             /\ T = Takes(n, ExpertsPerRank, e)
<1> DEFINE flat == BalancedIds(run)
           order == PackOrder(flat)
           ids == GateLocalIds(run)
           K == {x \in Expert : LocalId(x) = e}
           T == {a \in 1 .. n : flat[a] \in K}
           P == {x \in 1 .. n : order[x] \in T}
<1>1. n \in Nat /\ AllHomed([s \in Source |-> flat], n)
  BY GateHomed
<1>2. \A a \in 1 .. n : flat[a] = (a - 1) % (NumSources * ExpertsPerRank)
  BY DEF BalancedIds
<1> HIDE DEF flat
<1>3. DOMAIN flat = 1 .. n /\ Homed(flat, n) /\ \A a \in 1 .. n : flat[a] \in Expert
  <2> DEFINE all == [s \in Source |-> flat]
  <2>1. 1 \in Source /\ all[1] = flat /\ AllHomed(all, n)
    BY <1>1, SourceNumbers
  <2> HIDE DEF all
  <2>2. Homed(all[1], n)
    BY <2>1, AllHomedAre
  <2> QED  BY <2>1, <2>2 DEF AllHomed
<1>4. Cardinality(P) = Cardinality(T)
  <2>1. T \in SUBSET (1 .. n)
    OBVIOUS
  <2> HIDE DEF T
  <2> QED  BY <1>1, <1>3, <2>1, PackedCount
<1>5. Packed(flat, flat) = [x \in 1 .. n |-> flat[order[x]]]
  BY <1>3 DEF Packed
<1>6. \A x \in 1 .. n : order[x] \in 1 .. n
  BY <1>1, <1>3, PackOrderWithin
<1> HIDE DEF order
<1>7. DOMAIN ids = 1 .. n /\ \A x \in 1 .. n : ids[x] = LocalId(flat[order[x]])
  BY <1>5 DEF GateLocalIds, flat
<1> HIDE DEF ids
<1>8. Given(ids, e) = P
  BY <1>3, <1>6, <1>7 DEF Given
<1>9. T = Takes(n, ExpertsPerRank, e)
  <2>1. ASSUME NEW a \in 1 .. n
        PROVE  flat[a] \in K <=> (a - 1) % ExpertsPerRank = e
    <3> DEFINE b == a - 1
               p == ExpertsPerRank
               M == NumSources * p
               c == b \div M
               m == b % M
               u == m \div p
               v == m % p
    <3>1. b \in Nat /\ p \in Nat \ {0} /\ NumSources \in Nat \ {0}
      BY <1>1, ExchangeAssumption, SourceNumbers
    <3>2. flat[a] = m /\ m \in Expert
      BY <1>2, <1>3
    <3> HIDE DEF b, p
    <3>3. M \in Nat \ {0}
      BY <3>1, ProductPositive
    <3>4. c \in Nat /\ m \in 0 .. M - 1 /\ b = c * M + m
      <4> HIDE DEF M
      <4> QED  BY <3>1, <3>3, Quotient
    <3> HIDE DEF c, m
    <3>5. m \in Nat
      <4> HIDE DEF M
      <4> QED  BY <3>3, <3>4
    <3>6. u \in Nat /\ v \in 0 .. p - 1 /\ m = u * p + v
      BY <3>1, <3>5, Quotient
    <3> HIDE DEF u, v
    <3> DEFINE w == c * NumSources + u
    <3>7. w \in Nat /\ b = w * p + v
      <4>1. c * M = (c * NumSources) * p
        BY <3>1, <3>4
      <4>2. c * NumSources \in Nat
        BY <3>1, <3>4
      <4> DEFINE z == c * NumSources
      <4> HIDE DEF z
      <4>3. b = z * p + (u * p + v) /\ z \in Nat
        BY <3>4, <3>6, <4>1, <4>2 DEF z
      <4>4. (z + u) * p = z * p + u * p /\ z * p \in Nat /\ u * p \in Nat
        BY <3>1, <3>6, <4>3
      <4>5. b = (z + u) * p + v /\ z + u \in Nat
        BY <3>1, <3>6, <4>3, <4>4
      <4> QED  BY <4>5 DEF z
    <3> HIDE DEF w
    <3>8. b % p = v
      BY <3>1, <3>6, <3>7, RemainderIs
    <3>9. m % p = v
      BY DEF v
    <3>10. LocalId(m) = v
      BY <3>9 DEF LocalId, p
    <3> QED  BY <3>2, <3>8, <3>10 DEF b, p
  <2> QED  BY <2>1 DEF Takes
<1> QED  BY <1>4, <1>8, <1>9 DEF flat, ids

(* An expert of the gate is given the same by all ranks, and as much       *)
(* altogether as the experts of its number in the routes of one rank.      *)
LEMMA GateWork ==
  ASSUME NEW run, run.k \in Nat, WholeRounds(run.k), NEW d \in Source, NEW e \in LocalExpert,
         NEW n, n = BatchSize * run.k * TopK, NEW ids, ids = [s \in Source |-> BalancedIds(run)]
  PROVE  /\ Cardinality(Wanted(ids, d, n, e)) = NumSources * Rounds(run.k)
         /\ Cardinality({x \in DOMAIN GateLocalIds(run) : GateLocalIds(run)[x] = e})
              = NumSources * Rounds(run.k)
<1> DEFINE m == Rounds(run.k)
           flat == BalancedIds(run)
<1>1. /\ n \in Nat /\ m \in Nat /\ DOMAIN flat = 1 .. n
      /\ \A K \in SUBSET Expert :
           LET A == {a \in 1 .. n : flat[a] \in K}
           IN  IsFiniteSet(A) /\ Cardinality(A) = m * Cardinality(K)
  BY GateCounts, GateHomed
<1>2. AllHomed(ids, n) /\ \A s \in Source : ids[s] = flat
  BY GateHomed
<1>3. Homed(flat, n) /\ \A a \in 1 .. n : flat[a] \in Expert
  BY <1>2, AllHomedAre DEF AllHomed
<1>4. NumSources \in Nat /\ IsFiniteSet(Source) /\ Cardinality(Source) = NumSources
  BY SourceNumbers, FS_Interval
<1> HIDE DEF m, flat
<1>5. Cardinality(Wanted(ids, d, n, e)) = NumSources * m
  <2> DEFINE expert == (d - 1) * ExpertsPerRank + e
             A == {a \in 1 .. n : flat[a] \in {expert}}
  <2>1. expert \in Expert /\ HomeOf(expert) = d /\ LocalId(expert) = e
    BY ExpertOf
  <2>2. \A x \in Expert : HomeOf(x) = d /\ LocalId(x) = e => x = expert
    BY ExpertsAtHome
  <2> HIDE DEF expert
  <2>3. IsFiniteSet(A) /\ Cardinality(A) = m
    <3>1. {expert} \in SUBSET Expert /\ Cardinality({expert}) = 1
      BY <2>1, FS_Singleton
    <3>2. IsFiniteSet(A) /\ Cardinality(A) = m * Cardinality({expert})
      BY <1>1, <3>1
    <3> QED  BY <1>1, <3>1, <3>2
  <2>4. ASSUME NEW y \in Source \X (1 .. n)
        PROVE  HomeOf(ids[y[1]][y[2]]) = d /\ LocalId(ids[y[1]][y[2]]) = e <=> y[2] \in A
    <3>1. y[1] \in Source /\ y[2] \in 1 .. n
      OBVIOUS
    <3>2. ids[y[1]][y[2]] = flat[y[2]] /\ flat[y[2]] \in Expert
      BY <1>2, <1>3, <3>1
    <3> QED  BY <2>1, <2>2, <3>1, <3>2
  <2>5. Wanted(ids, d, n, e) = Source \X A
    <3>1. Wanted(ids, d, n, e) = {y \in Source \X (1 .. n) : y[2] \in A}
      BY <2>4 DEF Wanted
    <3>2. A \subseteq 1 .. n
      OBVIOUS
    <3> HIDE DEF A
    <3> QED  BY <3>1, <3>2
  <2> HIDE DEF A
  <2> QED  BY <1>4, <2>3, <2>5, FS_Product
<1>6. Cardinality({x \in DOMAIN GateLocalIds(run) : GateLocalIds(run)[x] = e}) = NumSources * m
  <2> DEFINE K == {x \in Expert : LocalId(x) = e}
             T == {a \in 1 .. n : flat[a] \in K}
  <2>1. Cardinality(T) = m * NumSources
    <3>1. K \in SUBSET Expert /\ Cardinality(K) = NumSources
      BY LocalCount
    <3> HIDE DEF K
    <3> QED  BY <1>1, <3>1
  <2>2. Cardinality({x \in DOMAIN GateLocalIds(run) : GateLocalIds(run)[x] = e}) = Cardinality(T)
    BY ControlledCount DEF flat, Given
  <2>3. m * NumSources = NumSources * m
    BY <1>1, <1>4
  <2> HIDE DEF T, K
  <2> QED  BY <2>1, <2>2, <2>3
<1> QED  BY <1>5, <1>6 DEF m

(* Where the equal parts do not fit, some expert's number of tokens is not *)
(* a multiple of four in the controls, and four equal blocks arrive at the *)
(* ranks that communicate.                                                 *)
LEMMA UnevenWork ==
  ASSUME LaunchInv, Carried, NEW r \in Rank, program = "gate", Working(r), WorksAlike(r)
  PROVE  Fits(r)
<1> DEFINE run == RunOf(r)
           ids == IdsAt(r)
           n == CountAt(r)
           q == n \div NumSources
           P == ExpertsPerRank
<1>1. /\ Launched /\ Placed /\ r \in Source /\ NumSources = 4
      /\ at[r].run \in 1 .. Len(runs) /\ run = runs[at[r].run]
  BY LaunchAssumption DEF LaunchInv, Placed, RunOf, Rank, Working
<1>2. run.k \in Nat
  BY <1>1, RunsMeant
<1>3. ids = [s \in Source |-> BalancedIds(run)] /\ n = BatchSize * run.k * TopK /\ LocalIds(r) = GateLocalIds(run)
  BY DEF IdsAt, CountAt, RunIds, RunLength, LocalIds
<1>4. n \in Nat /\ P \in Nat \ {0}
  BY <1>2, <1>3, GateHomed, ExchangeAssumption
<1>5. inbox[r] = NumbersDealt(ids, n, r)
  BY DEF Carried, HasNumbers, Working
<1> HIDE DEF run, ids, n
<1>6. n \div NumSources \in Nat
  BY <1>1, <1>4
<1>7. ASSUME NEW e \in LocalExpert
      PROVE  FourTimes(Cardinality(Takes(n, P, e)))
  <2>0. e \in LocalExpert
    OBVIOUS
  <2>1. FourTimes(Cardinality(Given(inbox[r], e)))
    <3> DEFINE dealt == inbox[r]
               flat == BalancedIds(run)
    <3>1. dealt = NumbersDealt(ids, n, r) /\ \A s \in Source : ids[s] = flat
      BY <1>3, <1>5
    <3> HIDE DEF dealt, flat
    <3>2. FourTimes(Cardinality(Given(dealt, e)))
      BY ONLY <1>1, <1>4, <1>6, <3>1, DealtCount
    <3> QED  BY <3>2 DEF dealt
  <2>2. Cardinality(Given(inbox[r], e))
          = Cardinality(Given(GateLocalIds(run), e))
    <3>1. Work(inbox[r])[e] = Work(LocalIds(r))[e]
      BY DEF WorksAlike
    <3>2. Given(inbox[r], e) = {x \in DOMAIN inbox[r] : inbox[r][x] = e}
      BY DEF Given
    <3>3. Given(GateLocalIds(run), e) = {x \in DOMAIN LocalIds(r) : LocalIds(r)[x] = e}
      BY <1>3 DEF Given
    <3> QED  BY <3>1, <3>2, <3>3 DEF Work
  <2>3. Cardinality(Given(GateLocalIds(run), e)) = Cardinality(Takes(n, P, e))
    BY ONLY <1>2, <1>3, <2>0, ControlledCount DEF P
  <2> QED  BY <2>1, <2>2, <2>3
<1> DEFINE last == P - 1
<1>8. 0 \in LocalExpert /\ last \in LocalExpert
  BY <1>4 DEF LocalExpert
<1>9. FourTimes(Cardinality(Takes(n, P, 0))) /\ FourTimes(Cardinality(Takes(n, P, last)))
  <2> HIDE DEF last
  <2> QED  BY <1>7, <1>8
<1>10. n % (4 * P) = 0
  BY <1>4, <1>9, FourTurns
<1> QED  BY <1>1, <1>3, <1>10 DEF Fits, WholeRounds, run

(* "non_collective_work_symmetric_across_modes" is what the code does      *)
(* exactly where the gate's equal parts fit its routes, and always in the  *)
(* proxy validation (benchmark_timing_gate_ep4.py:100-108, 194-228, 372,   *)
(* benchmark_proxy_validation_ep4.py:209-222, 326-360).  At the gate's     *)
(* default sizes and one position the parts do not fit.                    *)
THEOREM WorkIsSymmetric == ReviewedSpec => []SameWork
<1>1. ReviewedInv /\ Carried => SameWork
  <2> SUFFICES ASSUME LaunchInv, Carried, NEW r \in Rank, Working(r)
               PROVE  WorksAlike(r) <=> Fits(r)
    BY DEF SameWork, ReviewedInv
  <2> DEFINE ids == IdsAt(r)
             n == CountAt(r)
             run == RunOf(r)
             b == at[r].batch
  <2>1. /\ Launched /\ Placed /\ r \in Source /\ at[r].run \in 1 .. Len(runs) /\ run = runs[at[r].run]
        /\ at[r].stage = "combine" /\ Mode(r) = "nccl_real"
    BY DEF LaunchInv, Placed, RunOf, Rank, Working
  <2>2. n \in Nat /\ AllHomed(ids, n)
    BY <2>1, HomedAt
  <2>3. Fits(r) => inbox[r] = FlattenSeq(Arrivals(Numbered(ids, n), ids, r))
    BY <2>1 DEF Carried, HasNumbers, NumbersFor
  <2>4. CASE program = "proxy"
    <3>1. ids = [s \in Source |-> ProxyIds(run, s, b)] /\ LocalIds(r) = ProxyLocalIds(run, r, b)
      BY <2>4 DEF IdsAt, RunIds, LocalIds
    <3>2. Fits(r)
      BY <2>4 DEF Fits
    <3> HIDE DEF ids, n, run, b
    <3>3. ProxyLocalIds(run, r, b) = FlattenSeq(Arrivals(Numbered(ids, n), ids, r))
      BY <2>1, <2>2, <3>1, ProxyLocalsArrive
    <3>4. inbox[r] = LocalIds(r)
      BY <2>3, <3>1, <3>2, <3>3
    <3> QED  BY <3>2, <3>4 DEF WorksAlike
  <2>5. CASE program = "gate"
    <3>1. /\ ids = [s \in Source |-> BalancedIds(run)] /\ n = BatchSize * run.k * TopK
          /\ LocalIds(r) = GateLocalIds(run)
      BY <2>5 DEF IdsAt, CountAt, RunIds, RunLength, LocalIds
    <3>2. ASSUME Fits(r), NEW e \in LocalExpert
          PROVE  Cardinality({x \in DOMAIN inbox[r] : inbox[r][x] = e})
                   = Cardinality({x \in DOMAIN LocalIds(r) : LocalIds(r)[x] = e})
      <4>1. run.k \in Nat /\ WholeRounds(run.k)
        BY <2>1, <2>5, <3>2, RunsMeant DEF Fits
      <4> HIDE DEF ids, n, run
      <4>2. Cardinality({x \in DOMAIN inbox[r] : inbox[r][x] = e}) = Cardinality(Wanted(ids, r, n, e))
        BY <2>1, <2>2, <2>3, <3>2, NumbersCount
      <4> QED  BY <2>1, <3>1, <4>1, <4>2, GateWork
    <3>3. Fits(r) => WorksAlike(r)
      BY <3>2 DEF WorksAlike, Work
    <3> QED  BY <2>5, <3>3, UnevenWork
  <2> QED  BY <2>4, <2>5 DEF Working
<1> QED  BY <1>1, CarriedInvariance, PTL
===============================================================================
