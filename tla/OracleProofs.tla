---------------------------- MODULE OracleProofs ----------------------------
(***************************************************************************)
(* For every configuration and all routes: the profile the scheduler stores *)
(* from the routes a batch executed is the one its router would derive from *)
(* the history; every label of the oracle is the end of actual batches;    *)
(* when all requests arrive at once its answer is the shortest makespan    *)
(* that legal batches can reach; and estimating a batch from histograms    *)
(* gives what replaying the layer gives.                                   *)
(***************************************************************************)
EXTENDS GlobalOracle, ProofBasics

-----------------------------------------------------------------------------
(* Profiles. *)

LEMMA WidthPositive == \A i \in Nat : WidthAt(i) \in Nat \ {0}
<1> SUFFICES ASSUME NEW i \in Nat PROVE WidthAt(i) \in Nat \ {0}
  OBVIOUS
<1>1. CASE Mode = "diffusion"
  <2>1. (i % Len(Schedule)) + 1 \in 1 .. Len(Schedule)
    BY WorkloadAssumption
  <2>2. Schedule[(i % Len(Schedule)) + 1] \in 1 .. BlockSize
    BY <2>1, WorkloadAssumption
  <2> QED BY <1>1, <2>2, WorkloadAssumption DEF WidthAt
<1>2. CASE Mode # "diffusion"
  BY <1>2 DEF WidthAt
<1> QED BY <1>1, <1>2

(* Cutting the observed routes to the next width, or wrapping around them to fill
   it, takes the route the router looks up for every position. *)
LEMMA ObservedRoute ==
  ASSUME NEW r \in Request, NEW i \in Nat \ {0}, NEW table,
         table[i] \in Seq(SUBSET Expert), Len(table[i]) = WidthAt(i - 1)
  PROVE  (IF WidthAt(i) <= Len(table[i])
          THEN SubSeq(table[i], 1, WidthAt(i))
          ELSE [p \in 1 .. WidthAt(i) |-> table[i][((p - 1) % Len(table[i])) + 1]])
           = KnownRoute("previous", table, r, i)
<1> DEFINE observed == table[i]
           width == WidthAt(i)
           before == WidthAt(i - 1)
<1>1. width \in Nat \ {0} /\ before \in Nat \ {0}
  BY WidthPositive
<1>2. KnownRoute("previous", table, r, i)
        = [p \in 1 .. width |-> observed[((p - 1) % before) + 1]]
  BY DEF KnownRoute, PreviousWidth
<1>3. CASE width <= before
  <2>1. \A p \in 1 .. width : ((p - 1) % before) + 1 = p
    <3> HIDE DEF width, before
    <3> QED BY <1>1, <1>3
  <2>2. SubSeq(observed, 1, width) = [p \in 1 .. width |-> observed[p]]
    <3> HIDE DEF width, before, observed
    <3>1. observed \in Seq(SUBSET Expert) /\ Len(observed) = before
      BY DEF observed, before
    <3> QED BY <1>1, <1>3, <3>1
  <2>3. [p \in 1 .. width |-> observed[p]]
          = [p \in 1 .. width |-> observed[((p - 1) % before) + 1]]
    <3> HIDE DEF width, before, observed
    <3> QED BY <2>1
  <2> QED BY <1>2, <1>3, <2>2, <2>3
<1>4. CASE ~(width <= before)
  BY <1>2, <1>4
<1> QED BY <1>3, <1>4

(* So a profile observed and prewarmed after a batch is exactly the profile the
   scheduler would predict from the previous iteration, whatever the two widths. *)
THEOREM ObservationIsHistory ==
  ASSUME NEW r \in Request, NEW i \in Nat \ {0}, NEW table,
         table[i] \in Seq(SUBSET Expert), Len(table[i]) = WidthAt(i - 1)
  PROVE  ObservedProfile(table[i], r, i) = Profile("previous", table, r, i)
BY ObservedRoute DEF ObservedProfile, Profile

-----------------------------------------------------------------------------
(* What a batch costs is a natural number. *)

LEMMA CostsAreNatural ==
  ASSUME NEW n \in Nat, NEW m \in Nat
  PROVE  AttentionFor(n) \in Nat /\ ExpertElapsed(n) \in Nat /\ Communication(m, n) \in Nat
<1> USE CostAssumption
<1>1. /\ AttentionTime \in Nat /\ PositionTime \in Nat /\ ExpertLaunch \in Nat
      /\ TokenTime \in Nat /\ WeightReadTime \in Nat /\ MessageLatency \in Nat
      /\ TransferTime \in Nat /\ SaturationTokens \in Nat
  OBVIOUS
<1>2. ASSUME NEW a \in Nat, NEW b \in Nat
      PROVE  Max({a, b}) \in Nat /\ Min({a, b}) \in Nat
  <2>1. \E x \in {a, b} : \A y \in {a, b} : x >= y
    OBVIOUS
  <2>2. \E x \in {a, b} : \A y \in {a, b} : x <= y
    OBVIOUS
  <2> QED  BY <2>1, <2>2 DEF Max, Min
<1>3. AttentionFor(n) \in Nat /\ Communication(m, n) \in Nat
  BY <1>1 DEF AttentionFor, Communication
<1>4. ExpertElapsed(n) \in Nat
  <2>1. Max({n, Min({SaturationTokens, 20 * n})}) \in Nat
    <3>1. 20 * n \in Nat
      OBVIOUS
    <3>2. Min({SaturationTokens, 20 * n}) \in Nat
      BY <1>1, <1>2, <3>1
    <3> QED  BY <1>2, <3>2
  <2> DEFINE used == Max({n, Min({SaturationTokens, 20 * n})})
  <2>2. TokenTime * used \in Nat
    <3> HIDE DEF used
    <3>1. used \in Nat
      BY <2>1 DEF used
    <3> QED  BY <1>1, <3>1
  <2>3. Max({TokenTime * used, WeightReadTime}) \in Nat
    BY <1>1, <1>2, <2>2
  <2> QED  BY <1>1, <2>3 DEF ExpertElapsed
<1> QED  BY <1>3, <1>4

(* The routes of a batch: for every member the experts of each position.   *)
Routed(work) ==
  /\ DOMAIN work \in SUBSET Request
  /\ \A r \in DOMAIN work : work[r] \in Seq(SUBSET Expert) /\ Len(work[r]) <= BlockSize

LEMMA RequestsAndRanks ==
  /\ IsFiniteSet(Request) /\ IsFiniteSet(Gpu) /\ Gpu # {} /\ IsFiniteSet(Expert)
  /\ \A r \in Request : KvLocation(r) \in Gpu
  /\ \A e \in Expert : RankOf(e) \in Gpu
<1>1. NumRequests - 1 \in Int /\ NumGpus - 1 \in Int /\ NumExperts - 1 \in Int
      /\ NumGpus \in Nat \ {0}
  BY WorkloadAssumption, CostAssumption
<1>2. ASSUME NEW r \in Nat
      PROVE  r % NumGpus \in Gpu
  BY <1>1 DEF Gpu
<1>3. IsFiniteSet(Request) /\ IsFiniteSet(Gpu) /\ IsFiniteSet(Expert)
  BY <1>1, FS_Interval DEF Request, Gpu, Expert
<1>4. Gpu # {}
  BY <1>1 DEF Gpu
<1>5. Request \subseteq Nat /\ Expert \subseteq Nat
  BY DEF Request, Expert
<1> QED  BY <1>2, <1>3, <1>4, <1>5 DEF KvLocation, RankOf

(* The experts of a batch are activated finitely often. *)
LEMMA AssignmentsFinite ==
  ASSUME NEW work, Routed(work)
  PROVE  /\ IsFiniteSet(Assignments(work))
         /\ \A a \in Assignments(work) : a.request \in Request /\ a.expert \in Expert
<1> DEFINE Cells == (Request \X (1 .. BlockSize)) \X Expert
           Records == [request : Request, position : 1 .. BlockSize, expert : Expert]
           f == [x \in Cells |-> [request |-> x[1][1], position |-> x[1][2], expert |-> x[2]]]
<1>1. Assignments(work) \subseteq Records
  <2> SUFFICES ASSUME NEW r \in DOMAIN work, NEW p \in DOMAIN work[r], NEW e \in work[r][p]
               PROVE  r \in Request /\ p \in 1 .. BlockSize /\ e \in Expert
    BY DEF Assignments
  <2>1. work[r] \in Seq(SUBSET Expert) /\ Len(work[r]) <= BlockSize /\ r \in Request
    BY DEF Routed
  <2> QED  BY <2>1, WorkloadAssumption
<1>2. IsFiniteSet(Cells)
  <2>1. IsFiniteSet(1 .. BlockSize)
    BY WorkloadAssumption, FS_Interval
  <2> QED  BY <2>1, RequestsAndRanks, FS_Product
<1>3. f \in Surjection(Cells, Records)
  <2>1. f \in [Cells -> Records]
    OBVIOUS
  <2>2. ASSUME NEW a \in Records
        PROVE  \E x \in Cells : f[x] = a
    <3>1. <<<<a.request, a.position>>, a.expert>> \in Cells
      OBVIOUS
    <3>2. f[<<<<a.request, a.position>>, a.expert>>] = a
      BY <3>1
    <3> QED  BY <3>1, <3>2
  <2> QED  BY <2>1, <2>2 DEF Surjection
<1>4. IsFiniteSet(Records)
  BY <1>2, <1>3, FS_Surjection
<1> QED  BY <1>1, <1>4, FS_Subset

(* The time of a layer. *)
LEMMA LayerTakesTime ==
  ASSUME NEW work, Routed(work)
  PROVE  ExecuteLayer(work).elapsed \in Nat
<1> DEFINE assignments == Assignments(work)
           attention == AttentionFor(Max(Range(SourceTokens(work))))
           tokens == [e \in {a.expert : a \in assignments} |->
                        Cardinality({a \in assignments : a.expert = e})]
           hosted(g) == {e \in DOMAIN tokens : RankOf(e) = g}
           computing == [g \in Gpu |-> SumFunction([e \in hosted(g) |-> ExpertElapsed(tokens[e])])]
           pairOf(a) == <<KvLocation(a.request), RankOf(a.expert)>>
           cross == {a \in assignments : pairOf(a)[1] # pairOf(a)[2]}
           load == [pair \in {pairOf(a) : a \in cross} |->
                      Cardinality({a \in cross : pairOf(a) = pair})]
           messages == 2 * (IF AggregateMessages THEN Cardinality(DOMAIN load) ELSE Cardinality(cross))
           talking == [g \in Gpu |->
             SumFunction([pair \in {p \in DOMAIN load : g \in Range(p)} |->
               Communication(IF AggregateMessages THEN 2 ELSE 2 * load[pair], 2 * load[pair])])]
           critical == Max({attention + computing[g] + talking[g] : g \in Gpu})
<1>1. ExecuteLayer(work).elapsed =
        IF UseRankCriticalPath THEN critical
        ELSE attention + Communication(messages, 2 * Cardinality(cross)) + Max(Range(computing))
  BY DEF ExecuteLayer
<1>2. /\ IsFiniteSet(assignments)
      /\ \A a \in assignments : a.request \in Request /\ a.expert \in Expert
  BY AssignmentsFinite
<1> HIDE DEF assignments
<1>3. ASSUME NEW S \in SUBSET assignments
      PROVE  Cardinality(S) \in Nat
  BY <1>2, <1>3, FS_Subset, FS_CardinalityType
(* The greatest value over the ranks. *)
<1>4. ASSUME NEW f \in [Gpu -> Nat]
      PROVE  Max(Range(f)) \in Nat
  <2>1. IsFiniteSet(Range(f)) /\ Range(f) # {} /\ Range(f) \in SUBSET Nat
    <3>1. f \in Surjection(Gpu, Range(f))
      BY DEF Surjection, Range
    <3> QED  BY <3>1, RequestsAndRanks, FS_Surjection DEF Range
  <2> QED  BY <2>1, MaxIsGreatest
<1>5. attention \in Nat
  <2>1. SourceTokens(work) \in [Gpu -> Nat]
    <3>1. ASSUME NEW g \in Gpu
          PROVE  SumFunction([r \in {m \in DOMAIN work : KvLocation(m) = g} |-> Len(work[r])]) \in Nat
      <4> DEFINE S == {m \in DOMAIN work : KvLocation(m) = g}
                 h == [r \in S |-> Len(work[r])]
      <4>1. IsFiniteSet(S)
        BY RequestsAndRanks, FS_Subset DEF Routed
      <4>2. \A r \in S : h[r] \in Nat
        BY DEF Routed
      <4> QED  BY <4>1, <4>2, SumNatural DEF SumFunction
    <3> QED  BY <3>1 DEF SourceTokens
  <2> QED  BY <1>4, <2>1, CostsAreNatural
<1>6. computing \in [Gpu -> Nat]
  <2>1. ASSUME NEW g \in Gpu
        PROVE  SumFunction([e \in hosted(g) |-> ExpertElapsed(tokens[e])]) \in Nat
    <3> DEFINE h == [e \in hosted(g) |-> ExpertElapsed(tokens[e])]
    <3>1. IsFiniteSet(hosted(g))
      <4>1. hosted(g) \in SUBSET Expert
        BY <1>2
      <4> QED  BY <4>1, RequestsAndRanks, FS_Subset
    <3>2. \A e \in hosted(g) : h[e] \in Nat
      <4>1. \A e \in DOMAIN tokens : tokens[e] \in Nat
        BY <1>3
      <4> HIDE DEF tokens
      <4> QED  BY <4>1, CostsAreNatural
    <3> QED  BY <3>1, <3>2, SumNatural DEF SumFunction
  <2> QED  BY <2>1
<1>7. talking \in [Gpu -> Nat]
  <2>1. \A pair \in DOMAIN load : load[pair] \in Nat
    BY <1>3
  <2>2. IsFiniteSet(DOMAIN load)
    <3>1. DOMAIN load \in SUBSET (Gpu \X Gpu)
      BY <1>2, RequestsAndRanks
    <3> QED  BY <3>1, RequestsAndRanks, FS_Product, FS_Subset
  <2> HIDE DEF load
  <2>3. ASSUME NEW g \in Gpu
        PROVE  SumFunction([pair \in {p \in DOMAIN load : g \in Range(p)} |->
                 Communication(IF AggregateMessages THEN 2 ELSE 2 * load[pair], 2 * load[pair])]) \in Nat
    <3> DEFINE S == {p \in DOMAIN load : g \in Range(p)}
               h == [pair \in S |-> Communication(IF AggregateMessages THEN 2 ELSE 2 * load[pair],
                                                  2 * load[pair])]
    <3>1. IsFiniteSet(S)
      BY <2>2, FS_Subset
    <3>2. ASSUME NEW pair \in S
          PROVE  h[pair] \in Nat
      <4>1. 2 * load[pair] \in Nat /\ (IF AggregateMessages THEN 2 ELSE 2 * load[pair]) \in Nat
        BY <2>1
      <4> QED  BY <4>1, CostsAreNatural
    <3> QED  BY <3>1, <3>2, SumNatural DEF SumFunction
  <2> QED  BY <2>3
<1>8. messages \in Nat /\ 2 * Cardinality(cross) \in Nat
  <2>1. Cardinality(cross) \in Nat
    BY <1>3
  <2>2. Cardinality(DOMAIN load) \in Nat
    <3>1. DOMAIN load \in SUBSET (Gpu \X Gpu)
      BY <1>2, RequestsAndRanks
    <3> QED  BY <3>1, RequestsAndRanks, FS_Product, FS_Subset, FS_CardinalityType
  <2> HIDE DEF cross, load
  <2> QED  BY <2>1, <2>2
<1> HIDE DEF computing, talking, attention, messages, cross
<1>9. critical \in Nat
  <2> DEFINE total == [g \in Gpu |-> attention + computing[g] + talking[g]]
  <2>1. total \in [Gpu -> Nat]
    BY <1>5, <1>6, <1>7
  <2>2. {attention + computing[g] + talking[g] : g \in Gpu} = Range(total)
    BY DEF Range
  <2> QED  BY <1>4, <2>1, <2>2
<1>10. attention + Communication(messages, 2 * Cardinality(cross)) + Max(Range(computing)) \in Nat
  <2>1. Communication(messages, 2 * Cardinality(cross)) \in Nat
    BY <1>8, CostsAreNatural
  <2> QED  BY <1>4, <1>5, <1>6, <2>1
<1> QED  BY <1>1, <1>9, <1>10

-----------------------------------------------------------------------------
(* Progress and batches. *)

(* Every progress of the workload. *)
Progresses == {p \in [Request -> Nat] : \A r \in Request : p[r] <= TotalSteps(r)}

LEMMA StepsAreNatural == \A r \in Request : TotalSteps(r) \in Nat
<1> SUFFICES ASSUME NEW r \in Request PROVE TotalSteps(r) \in Nat
  OBVIOUS
<1> DEFINE fewest == MinOutputTokens \div BlockSize
           most   == OutputTokens \div BlockSize
           late   == r % 3
<1>1. fewest \in Nat /\ most \in Nat /\ fewest <= most /\ late \in Nat
  <2>1. /\ MinOutputTokens \in Nat /\ OutputTokens \in Nat /\ BlockSize \in Nat \ {0}
        /\ MinOutputTokens <= OutputTokens
    BY WorkloadAssumption
  <2> QED  BY <2>1, DivisionMonotone DEF Request
<1> HIDE DEF fewest, most, late
<1>2. \A twice \in Nat : RoundedHalf(twice) \in Nat
  BY DEF RoundedHalf
<1>3. 2 * fewest + (most - fewest) * late \in Nat
  BY <1>1
<1>4. BlockSize * RoundedHalf(2 * fewest + (most - fewest) * late) \in Nat
  <2>1. RoundedHalf(2 * fewest + (most - fewest) * late) \in Nat
    BY <1>2, <1>3
  <2> QED  BY <2>1, WorkloadAssumption
<1>5. OutputOf(r) \in Nat
  BY <1>4, WorkloadAssumption DEF OutputOf, fewest, most, late
<1>6. Stride \in Nat \ {0} /\ Rounds \in Nat
  BY WorkloadAssumption DEF Stride, Rounds
<1>7. OutputOf(r) \div Stride \in Nat
  BY <1>5, <1>6
<1> QED  BY <1>6, <1>7 DEF TotalSteps

LEMMA StartAndGoal == Start \in Progresses /\ Goal \in Progresses
BY StepsAreNatural DEF Start, Goal, Progresses

LEMMA ArrivalsAreNatural == \A r \in Request : Arrival(r) \in Nat
BY WorkloadAssumption DEF Request, Arrival

(* Before the goal there is a request to wait for, and the search waits no
   longer than until one is ready. *)
LEMMA DecisionTime ==
  ASSUME NEW p \in Progresses, p # Goal, NEW t \in Nat
  PROVE  NextDecisionTime(p, t) \in Nat /\ t <= NextDecisionTime(p, t)
<1>1. Open(p) # {} /\ Open(p) \subseteq Request
  <2>1. \A r \in Request : p[r] \in Nat /\ p[r] <= TotalSteps(r) /\ TotalSteps(r) \in Nat
    BY StepsAreNatural DEF Progresses
  <2>2. ASSUME Open(p) = {} PROVE FALSE
    <3>1. \A r \in Request : p[r] = TotalSteps(r)
      BY <2>1, <2>2 DEF Open
    <3> QED  BY <3>1 DEF Goal, Progresses
  <2> QED  BY <2>2 DEF Open
<1>2. CASE ReadyAt(p, t) # {}
  BY <1>2 DEF NextDecisionTime
<1>3. CASE ReadyAt(p, t) = {}
  <2> DEFINE arrivals == {Arrival(r) : r \in Open(p)}
             first(a) == \A r \in Open(p) : a <= Arrival(r)
  <2>1. arrivals \in SUBSET Nat /\ arrivals # {}
    BY <1>1, ArrivalsAreNatural
  <2>2. \E a \in arrivals : first(a)
    <3>1. PICK a \in arrivals : \A n \in arrivals : a <= n
      BY <2>1, LeastNatural
    <3> QED  BY <3>1
  <2>3. NextDecisionTime(p, t) \in arrivals
    BY <1>3, <2>2 DEF NextDecisionTime
  <2>4. \A r \in Open(p) : Arrival(r) \in Nat /\ ~(Arrival(r) <= t)
    BY <1>1, <1>3, ArrivalsAreNatural DEF ReadyAt
  <2> QED  BY <2>3, <2>4
<1> QED  BY <1>2, <1>3

(* A batch moves its members on, and no other batch moves the same ones. *)
LEMMA BatchesAdvance ==
  ASSUME NEW p \in Progresses, NEW t, NEW batch \in LegalActions(p, t)
  PROVE  /\ After(p, batch) \in Progresses
         /\ batch \in SUBSET Request /\ \A r \in batch : p[r] < TotalSteps(r)
         /\ \A other \in LegalActions(p, t) : After(p, other) = After(p, batch) => other = batch
<1>1. \A b \in LegalActions(p, t) : b \in SUBSET Request /\ \A r \in b : p[r] < TotalSteps(r)
  BY DEF LegalActions, ReadyAt, Open
<1>2. \A r \in Request : p[r] \in Nat /\ p[r] <= TotalSteps(r) /\ TotalSteps(r) \in Nat
  BY StepsAreNatural DEF Progresses
<1>3. After(p, batch) \in Progresses
  <2>1. \A r \in Request : After(p, batch)[r] \in Nat /\ After(p, batch)[r] <= TotalSteps(r)
    BY <1>1, <1>2 DEF After
  <2>2. After(p, batch) = [r \in Request |-> After(p, batch)[r]]
    BY DEF After
  <2> HIDE DEF After
  <2>3. After(p, batch) \in [Request -> Nat]
    BY <2>1, <2>2
  <2> QED  BY <2>1, <2>3 DEF Progresses
<1>4. ASSUME NEW other \in LegalActions(p, t), After(p, other) = After(p, batch)
      PROVE  other = batch
  <2>1. ASSUME NEW r \in Request
        PROVE  r \in other <=> r \in batch
    <3>1. After(p, other)[r] = After(p, batch)[r]
      BY <1>4
    <3>2. p[r] # p[r] + 1
      BY <1>2
    <3> QED  BY <3>1, <3>2 DEF After
  <2> QED  BY <1>1, <2>1
<1> QED  BY <1>1, <1>3, <1>4

(* A legal batch takes a natural number of time units. *)
LEMMA BatchTakesTime ==
  ASSUME routes \in RouteTables, NEW p \in Progresses, NEW t, NEW batch \in LegalActions(p, t)
  PROVE  BatchCost(p, batch) \in Nat
<1> DEFINE work == [r \in batch |-> routes[r][p[r] + 1]]
<1>1. batch \in SUBSET Request /\ \A r \in batch : p[r] < TotalSteps(r) /\ p[r] \in Nat
  BY BatchesAdvance DEF Progresses
<1>2. ASSUME NEW r \in batch
      PROVE  work[r] \in Seq(SUBSET Expert) /\ Len(work[r]) <= BlockSize
  <2>1. /\ routes[r] \in Seq(Seq(SUBSET Expert)) /\ TotalSteps(r) <= Len(routes[r])
        /\ \A i \in 1 .. TotalSteps(r) : Len(routes[r][i]) = WidthAt(i - 1)
    BY <1>1, OracleAssumption
  <2>2. p[r] + 1 \in 1 .. TotalSteps(r) /\ p[r] + 1 \in 1 .. Len(routes[r]) /\ p[r] + 1 - 1 = p[r]
    BY <1>1, <2>1, StepsAreNatural
  <2>3. WidthAt(p[r]) <= BlockSize
    <3>1. (p[r] % Len(Schedule)) + 1 \in 1 .. Len(Schedule)
      BY <1>1, WorkloadAssumption
    <3>2. Schedule[(p[r] % Len(Schedule)) + 1] \in 1 .. BlockSize
      BY <3>1, WorkloadAssumption
    <3> QED  BY <3>2, WorkloadAssumption DEF WidthAt
  <2>4. routes[r][p[r] + 1] \in Seq(SUBSET Expert) /\ Len(routes[r][p[r] + 1]) = WidthAt(p[r])
    <3> DEFINE table == routes[r]
               i == p[r] + 1
    <3>1. table \in Seq(Seq(SUBSET Expert)) /\ i \in 1 .. Len(table)
      BY <2>1, <2>2
    <3>2. table[i] \in Seq(SUBSET Expert)
      <4> HIDE DEF table, i
      <4> QED  BY <3>1
    <3>3. Len(table[i]) = WidthAt(i - 1)
      BY <2>1, <2>2
    <3>4. i - 1 = p[r]
      BY <1>1
    <3> QED  BY <3>2, <3>3, <3>4
  <2> QED  BY <2>3, <2>4
<1>3. Routed(work)
  <2>1. DOMAIN work = batch
    OBVIOUS
  <2> HIDE DEF work
  <2> QED  BY <1>1, <1>2, <2>1 DEF Routed
<1>4. ExecuteLayer(work).elapsed \in Nat
  <2> HIDE DEF work
  <2> QED  BY <1>3, LayerTakesTime
<1> QED  BY <1>4, OracleAssumption DEF BatchCost

-----------------------------------------------------------------------------
(* The search. *)

(* The entry of a progress at its present time. *)
Entry(p) == [time |-> distances[p], progress |-> p]

(* When the search acts on a progress. *)
Decision(p) == NextDecisionTime(p, distances[p])

(* Every batch from p has left its label. *)
Expanded(p) ==
  \A batch \in LegalActions(p, Decision(p)) :
    /\ After(p, batch) \in DOMAIN distances
    /\ distances[After(p, batch)] <= Decision(p) + BatchCost(p, batch)

(* Labels and entries are times of progresses, and no entry is below its   *)
(* label.                                                                  *)
Labels ==
  /\ routes \in RouteTables
  /\ DOMAIN distances \in SUBSET Progresses
  /\ distances \in [DOMAIN distances -> Nat]
  /\ Start \in DOMAIN distances /\ distances[Start] = 0
  /\ frontier \in SUBSET [time : Nat, progress : DOMAIN distances]
  /\ \A e \in frontier : distances[e.progress] <= e.time

(* A label without its entry is final: it has been expanded, at a time     *)
(* before all that is still to come.                                       *)
Settled ==
  status = "searching" =>
    \A p \in DOMAIN distances :
      Entry(p) \notin frontier =>
        p # Goal /\ Expanded(p) /\ \A e \in frontier : distances[p] <= e.time

(* The answer is a label, and all below it have been expanded. *)
Answered ==
  status = "solved" =>
    /\ makespan \in Nat /\ Goal \in DOMAIN distances /\ distances[Goal] = makespan
    /\ \A p \in DOMAIN distances : makespan <= distances[p] \/ Expanded(p)

Searched == Labels /\ Settled /\ Answered

(* No replay is ahead of the labels. *)
ReplayBehind ==
  /\ at \in Progresses /\ clock \in Nat
  /\ status # "solved" => at = Start /\ clock = 0
  /\ status = "solved" =>
       makespan <= clock \/ (at \in DOMAIN distances /\ distances[at] <= clock)

(* The entry with the least time comes first. *)
LEMMA MinimumIsFirst ==
  ASSUME Labels, NEW e, HeapMinimum(e)
  PROVE  /\ e \in frontier /\ e \in [time : Nat, progress : DOMAIN distances]
         /\ \A f \in frontier : e.time <= f.time
<1>1. \A f \in frontier : f \in [time : Nat, progress : DOMAIN distances]
  BY DEF Labels
<1>2. e \in frontier /\ \A f \in frontier \ {e} : Before(e, f)
  BY DEF HeapMinimum
<1>3. \A f \in frontier \ {e} : e.time <= f.time
  BY <1>1, <1>2 DEF Before
<1> QED  BY <1>1, <1>2, <1>3

(* A fresh minimum is the entry of its progress. *)
LEMMA FreshIsEntry ==
  ASSUME Labels, NEW e, Fresh(e)
  PROVE  e = Entry(e.progress) /\ e.progress \in DOMAIN distances /\ e.time = distances[e.progress]
<1>1. e \in frontier /\ e \in [time : Nat, progress : DOMAIN distances]
  BY MinimumIsFirst DEF Fresh
<1>2. distances[e.progress] <= e.time /\ e.time <= distances[e.progress]
      /\ distances[e.progress] \in Nat
  BY <1>1 DEF Labels, Fresh
<1>3. e.time = distances[e.progress]
  BY <1>1, <1>2
<1> QED  BY <1>1, <1>3 DEF Entry

(* Expanding e finds the progresses in F, each by one batch that reaches    *)
(* it, or reaches it sooner.                                               *)
Finds(e, F, by) ==
  LET p == e.progress
      t == NextDecisionTime(p, e.time)
      legal == LegalActions(p, t)
      reach(batch) == t + BatchCost(p, batch)
  IN  /\ F \in SUBSET Progresses /\ by \in [F -> SUBSET Request]
      /\ Fresh(e) /\ p # Goal
      /\ \A q \in F : by[q] \in legal /\ After(p, by[q]) = q
      /\ \A q \in F : q \in DOMAIN distances => reach(by[q]) < distances[q]
      /\ \A batch \in legal :
           IF After(p, batch) \in F THEN by[After(p, batch)] = batch
           ELSE /\ After(p, batch) \in DOMAIN distances
                /\ ~(reach(batch) < distances[After(p, batch)])
      /\ distances' = [q \in DOMAIN distances \cup F |->
                         IF q \in F THEN reach(by[q]) ELSE distances[q]]
      /\ predecessors' = [q \in DOMAIN predecessors \cup F |->
                            IF q \in F THEN [progress |-> p, batch |-> by[q]]
                                       ELSE predecessors[q]]
      /\ frontier' = (frontier \ {e}) \cup
                       {[time |-> reach(by[q]), progress |-> q] : q \in F}

LEMMA ExpandFinds ==
  ASSUME Labels, Expand
  PROVE  \E e \in frontier : \E F, by : Finds(e, F, by)
<1>1. PICK e \in frontier :
        LET t == NextDecisionTime(e.progress, e.time)
            reach(batch) == t + BatchCost(e.progress, batch)
            better == {batch \in LegalActions(e.progress, t) :
                         Improves(After(e.progress, batch), reach(batch))}
            found == {After(e.progress, batch) : batch \in better}
            by(p) == CHOOSE batch \in better : After(e.progress, batch) = p
        IN  /\ Fresh(e) /\ e.progress # Goal
            /\ distances' = [p \in DOMAIN distances \cup found |->
                               IF p \in found THEN reach(by(p)) ELSE distances[p]]
            /\ predecessors' = [p \in DOMAIN predecessors \cup found |->
                                  IF p \in found
                                  THEN [progress |-> e.progress, batch |-> by(p)]
                                  ELSE predecessors[p]]
            /\ frontier' = (frontier \ {e}) \cup
                 {[time |-> reach(by(p)), progress |-> p] : p \in found}
  BY DEF Expand
<1> DEFINE p == e.progress
           t == NextDecisionTime(p, e.time)
           legal == LegalActions(p, t)
           reach(batch) == t + BatchCost(p, batch)
           better == {batch \in legal : Improves(After(p, batch), reach(batch))}
           F == {After(p, batch) : batch \in better}
           leads(q) == CHOOSE batch \in better : After(p, batch) = q
           by == [q \in F |-> leads(q)]
<1>2. p \in Progresses
  BY <1>1, FreshIsEntry DEF Labels
<1>3. ASSUME NEW q \in F
      PROVE  leads(q) \in better /\ After(p, leads(q)) = q
  <2>1. \E batch \in better : After(p, batch) = q
    OBVIOUS
  <2> HIDE DEF better
  <2> QED  BY <2>1
<1>4. \A batch \in legal : After(p, batch) \in Progresses /\ batch \in SUBSET Request
  <2> HIDE DEF p, t
  <2> QED  BY <1>2, BatchesAdvance
<1>5. F \in SUBSET Progresses /\ by \in [F -> SUBSET Request]
  <2>1. F \in SUBSET Progresses
    BY <1>4
  <2>2. \A q \in F : leads(q) \in SUBSET Request
    BY <1>3, <1>4
  <2> HIDE DEF F, leads
  <2> QED  BY <2>1, <2>2
<1>6. \A q \in F : by[q] \in legal /\ After(p, by[q]) = q
  BY <1>3
<1>7. \A q \in F : q \in DOMAIN distances => reach(by[q]) < distances[q]
  <2> SUFFICES ASSUME NEW q \in F, q \in DOMAIN distances
               PROVE  reach(by[q]) < distances[q]
    OBVIOUS
  <2>1. leads(q) \in better /\ After(p, leads(q)) = q /\ by[q] = leads(q)
    BY <1>3
  <2>2. Improves(q, reach(leads(q)))
    BY <2>1
  <2> HIDE DEF by, leads, reach
  <2> QED  BY <2>1, <2>2 DEF Improves
<1>8. ASSUME NEW batch \in legal
      PROVE  IF After(p, batch) \in F THEN by[After(p, batch)] = batch
             ELSE /\ After(p, batch) \in DOMAIN distances
                  /\ ~(reach(batch) < distances[After(p, batch)])
  <2>1. CASE After(p, batch) \in F
    <3>1. by[After(p, batch)] \in legal /\ After(p, by[After(p, batch)]) = After(p, batch)
      BY <1>6, <2>1
    <3>2. \A b \in legal, c \in legal : After(p, b) = After(p, c) => b = c
      <4> HIDE DEF p, t
      <4> QED  BY <1>2, BatchesAdvance
    <3> HIDE DEF by, legal, F
    <3> QED  BY <2>1, <3>1, <3>2
  <2>2. CASE After(p, batch) \notin F
    <3>1. ~Improves(After(p, batch), reach(batch))
      BY <2>2
    <3> HIDE DEF F, reach
    <3> QED  BY <2>2, <3>1 DEF Improves
  <2> QED  BY <2>1, <2>2
<1>9. /\ Fresh(e) /\ p # Goal
      /\ distances' = [q \in DOMAIN distances \cup F |->
                         IF q \in F THEN reach(leads(q)) ELSE distances[q]]
      /\ predecessors' = [q \in DOMAIN predecessors \cup F |->
                            IF q \in F THEN [progress |-> p, batch |-> leads(q)]
                                       ELSE predecessors[q]]
      /\ frontier' = (frontier \ {e}) \cup
                       {[time |-> reach(leads(q)), progress |-> q] : q \in F}
  BY <1>1
<1>10. \A q \in F : by[q] = leads(q)
  OBVIOUS
<1> HIDE DEF leads, F, by, reach, better
<1>11. /\ distances' = [q \in DOMAIN distances \cup F |->
                          IF q \in F THEN reach(by[q]) ELSE distances[q]]
       /\ predecessors' = [q \in DOMAIN predecessors \cup F |->
                             IF q \in F THEN [progress |-> p, batch |-> by[q]]
                                        ELSE predecessors[q]]
       /\ frontier' = (frontier \ {e}) \cup
                        {[time |-> reach(by[q]), progress |-> q] : q \in F}
  BY <1>9, <1>10
<1>12. Finds(e, F, by)
  BY <1>5, <1>6, <1>7, <1>8, <1>9, <1>11 DEF reach, Finds
<1> QED  BY <1>12

(* What follows for the labels: new ones are no earlier than the entry, old *)
(* ones only get earlier, and a final one does not change.                 *)
Relabels(e, F, by) ==
  LET p == e.progress
      t == Decision(p)
      reach(batch) == t + BatchCost(p, batch)
  IN  /\ e = Entry(p) /\ p \in DOMAIN distances /\ p # Goal
      /\ t \in Nat /\ e.time = distances[p] /\ e.time <= t
      /\ \A f \in frontier : e.time <= f.time
      /\ F \in SUBSET Progresses
      /\ DOMAIN distances' = DOMAIN distances \cup F
      /\ distances' \in [DOMAIN distances' -> Nat]
      /\ \A q \in F : /\ by[q] \in LegalActions(p, t) /\ After(p, by[q]) = q
                      /\ reach(by[q]) \in Nat
                      /\ distances'[q] = reach(by[q]) /\ e.time <= distances'[q]
                      /\ q \in DOMAIN distances => /\ distances'[q] < distances[q]
                                                   /\ Entry(q) \in frontier /\ q # p
      /\ \A q \in DOMAIN distances \ F : distances'[q] = distances[q]
      /\ \A batch \in LegalActions(p, t) :
           /\ After(p, batch) \in DOMAIN distances'
           /\ distances'[After(p, batch)] <= reach(batch)
      /\ predecessors' = [q \in DOMAIN predecessors \cup F |->
                            IF q \in F THEN [progress |-> p, batch |-> by[q]]
                                       ELSE predecessors[q]]
      /\ frontier' = (frontier \ {e}) \cup {[time |-> distances'[q], progress |-> q] : q \in F}
      /\ UNCHANGED <<routes, status, makespan, actions, replayVars>>

LEMMA ExpandRelabels ==
  ASSUME Labels, Settled, Expand
  PROVE  \E e \in frontier : \E F, by : Relabels(e, F, by)
<1>0. UNCHANGED <<routes, status, makespan, actions, replayVars>> /\ status = "searching"
  BY DEF Expand
<1>1. PICK e \in frontier : \E F, by : Finds(e, F, by)
  BY ExpandFinds
<1> DEFINE p == e.progress
           t == NextDecisionTime(p, e.time)
           legal == LegalActions(p, t)
           reach(batch) == t + BatchCost(p, batch)
<1>15. PICK F, by : Finds(e, F, by)
  BY <1>1
<1>2. /\ F \in SUBSET Progresses /\ by \in [F -> SUBSET Request]
      /\ Fresh(e) /\ p # Goal
      /\ \A q \in F : by[q] \in legal /\ After(p, by[q]) = q
      /\ \A q \in F : q \in DOMAIN distances => reach(by[q]) < distances[q]
      /\ \A batch \in legal :
           IF After(p, batch) \in F THEN by[After(p, batch)] = batch
           ELSE /\ After(p, batch) \in DOMAIN distances
                /\ ~(reach(batch) < distances[After(p, batch)])
      /\ distances' = [q \in DOMAIN distances \cup F |->
                         IF q \in F THEN reach(by[q]) ELSE distances[q]]
      /\ predecessors' = [q \in DOMAIN predecessors \cup F |->
                            IF q \in F THEN [progress |-> p, batch |-> by[q]]
                                       ELSE predecessors[q]]
      /\ frontier' = (frontier \ {e}) \cup
                       {[time |-> reach(by[q]), progress |-> q] : q \in F}
  BY <1>15 DEF Finds
<1>3. e = Entry(p) /\ p \in DOMAIN distances /\ e.time = distances[p]
  BY <1>2, FreshIsEntry
<1>4. \A f \in frontier : e.time <= f.time
  BY <1>2, MinimumIsFirst DEF Fresh
<1>5. /\ p \in Progresses /\ e.time \in Nat /\ routes \in RouteTables
      /\ distances \in [DOMAIN distances -> Nat] /\ DOMAIN distances \in SUBSET Progresses
  BY <1>3 DEF Labels
<1>6. t \in Nat /\ e.time <= t /\ t = Decision(p)
  BY <1>2, <1>3, <1>5, DecisionTime DEF Decision
<1>7. \A batch \in legal : reach(batch) \in Nat /\ e.time <= reach(batch)
  <2>1. \A batch \in legal : BatchCost(p, batch) \in Nat
    <3> HIDE DEF p, t
    <3> QED  BY <1>5, BatchTakesTime
  <2> QED  BY <1>5, <1>6, <2>1
<1> HIDE DEF p, t, legal
<1>8. ASSUME NEW q \in F
      PROVE  /\ by[q] \in legal /\ After(p, by[q]) = q
             /\ reach(by[q]) \in Nat
             /\ distances'[q] = reach(by[q]) /\ e.time <= distances'[q]
             /\ q \in DOMAIN distances => /\ distances'[q] < distances[q]
                                          /\ Entry(q) \in frontier /\ q # p
  <2>1. by[q] \in legal /\ After(p, by[q]) = q /\ distances'[q] = reach(by[q])
    BY <1>2
  <2>2. reach(by[q]) \in Nat /\ e.time <= reach(by[q])
    BY <1>7, <2>1
  <2>3. ASSUME q \in DOMAIN distances
        PROVE  distances'[q] < distances[q] /\ Entry(q) \in frontier /\ q # p
    <3>1. reach(by[q]) < distances[q]
      BY <1>2, <2>3
    <3>2. e.time < distances[q] /\ distances[q] \in Nat
      BY <1>5, <2>2, <2>3, <3>1
    <3>3. q # p
      BY <1>3, <1>5, <3>2
    <3>4. Entry(q) \in frontier
      <4> SUFFICES ASSUME Entry(q) \notin frontier PROVE FALSE
        OBVIOUS
      <4>1. distances[q] <= e.time
        BY <1>0, <2>3 DEF Settled
      <4> QED  BY <1>5, <3>2, <4>1
    <3> QED  BY <2>1, <3>1, <3>3, <3>4
  <2> QED  BY <2>1, <2>2, <2>3
<1>9. \A q \in DOMAIN distances \ F : distances'[q] = distances[q]
  BY <1>2
<1>10. DOMAIN distances' = DOMAIN distances \cup F /\ distances' \in [DOMAIN distances' -> Nat]
  <2>1. DOMAIN distances' = DOMAIN distances \cup F
    BY <1>2
  <2>2. \A q \in DOMAIN distances' : distances'[q] \in Nat
    BY <1>5, <1>8, <1>9, <2>1
  <2>3. distances' = [q \in DOMAIN distances' |-> distances'[q]]
    <3> DEFINE d(q) == IF q \in F THEN reach(by[q]) ELSE distances[q]
    <3>1. distances' = [q \in DOMAIN distances \cup F |-> d(q)]
      BY <1>2
    <3> HIDE DEF d
    <3> QED  BY <3>1
  <2> QED  BY <2>1, <2>2, <2>3
<1>11. ASSUME NEW batch \in legal
       PROVE  /\ After(p, batch) \in DOMAIN distances'
              /\ distances'[After(p, batch)] <= reach(batch)
  <2>1. CASE After(p, batch) \in F
    <3>1. by[After(p, batch)] = batch
      BY <1>2, <2>1
    <3>2. distances'[After(p, batch)] = reach(batch)
      BY <1>8, <2>1, <3>1
    <3> QED  BY <1>7, <1>10, <2>1, <3>2
  <2>2. CASE After(p, batch) \notin F
    <3>1. /\ After(p, batch) \in DOMAIN distances
          /\ ~(reach(batch) < distances[After(p, batch)])
      BY <1>2, <2>2
    <3>2. distances'[After(p, batch)] = distances[After(p, batch)]
      BY <1>9, <2>2, <3>1
    <3>3. distances[After(p, batch)] \in Nat /\ reach(batch) \in Nat
      BY <1>5, <1>7, <3>1
    <3> HIDE DEF reach
    <3> QED  BY <1>10, <3>1, <3>2, <3>3
  <2> QED  BY <2>1, <2>2
<1>12. frontier' = (frontier \ {e}) \cup
                     {[time |-> distances'[q], progress |-> q] : q \in F}
  <2>1. \A q \in F : distances'[q] = reach(by[q])
    BY <1>8
  <2>2. frontier' = (frontier \ {e}) \cup {[time |-> reach(by[q]), progress |-> q] : q \in F}
    BY <1>2
  <2> HIDE DEF reach
  <2> QED  BY <2>1, <2>2
<1>13. predecessors' = [q \in DOMAIN predecessors \cup F |->
                          IF q \in F THEN [progress |-> p, batch |-> by[q]] ELSE predecessors[q]]
  BY <1>2
<1> DEFINE u == Decision(p)
<1>14. p = e.progress /\ t = u /\ legal = LegalActions(p, u)
  BY <1>6 DEF p, legal
<1> QED
  <2> HIDE DEF u
  <2>1. /\ e = Entry(p) /\ p \in DOMAIN distances /\ p # Goal
        /\ u \in Nat /\ e.time = distances[p] /\ e.time <= u
        /\ \A f \in frontier : e.time <= f.time
    BY <1>2, <1>3, <1>4, <1>6, <1>14
  <2>2. \A q \in F : /\ by[q] \in LegalActions(p, u) /\ After(p, by[q]) = q
                     /\ u + BatchCost(p, by[q]) \in Nat
                     /\ distances'[q] = u + BatchCost(p, by[q]) /\ e.time <= distances'[q]
                     /\ q \in DOMAIN distances => /\ distances'[q] < distances[q]
                                                  /\ Entry(q) \in frontier /\ q # p
    BY <1>8, <1>14
  <2>3. \A batch \in LegalActions(p, u) :
          /\ After(p, batch) \in DOMAIN distances'
          /\ distances'[After(p, batch)] <= u + BatchCost(p, batch)
    BY <1>11, <1>14
  <2>4. Relabels(e, F, by)
    BY <1>0, <1>2, <1>9, <1>10, <1>12, <1>13, <2>1, <2>2, <2>3 DEF p, u, Relabels
  <2> QED  BY <2>4

(* Before anything is expanded only the start has a label. *)
LEMMA InitSearched == Init => Searched /\ ReplayBehind
<1> SUFFICES ASSUME Init PROVE Searched /\ ReplayBehind
  OBVIOUS
<1> USE DEF Init
<1>1. DOMAIN distances = {Start} /\ distances[Start] = 0 /\ Start \in Progresses
  BY StartAndGoal
<1>2. \A e \in frontier : e = [time |-> 0, progress |-> Start]
  OBVIOUS
<1>3. distances \in [DOMAIN distances -> Nat]
  BY <1>1
<1>4. Labels
  <2>1. frontier \in SUBSET [time : Nat, progress : DOMAIN distances]
    BY <1>1, <1>2
  <2>2. \A e \in frontier : distances[e.progress] <= e.time
    BY <1>1, <1>2
  <2> QED  BY <1>1, <1>3, <2>1, <2>2 DEF Labels
<1>5. Settled
  <2>1. \A p \in DOMAIN distances : Entry(p) \in frontier
    BY <1>1 DEF Entry
  <2> QED  BY <2>1 DEF Settled
<1>6. Answered
  BY DEF Answered
<1>7. ReplayBehind
  BY <1>1 DEF ReplayBehind
<1> QED  BY <1>4, <1>5, <1>6, <1>7 DEF Searched

(* An expanded progress stays expanded: later labels are earlier. *)
LEMMA ExpandKeepsSearched == Searched /\ Expand => Searched'
<1> SUFFICES ASSUME Labels, Settled, Expand PROVE Searched'
  BY DEF Searched
<1>0. status = "searching" /\ status' = "searching"
  BY DEF Expand
<1>1. PICK e \in frontier : \E F, by : Relabels(e, F, by)
  BY ExpandRelabels
<1>2. PICK F, by : Relabels(e, F, by)
  BY <1>1
<1> DEFINE p == e.progress
           t == Decision(p)
           reach(batch) == t + BatchCost(p, batch)
<1>3. /\ e = Entry(p) /\ p \in DOMAIN distances /\ p # Goal
      /\ t \in Nat /\ e.time = distances[p] /\ e.time <= t
      /\ \A f \in frontier : e.time <= f.time
      /\ F \in SUBSET Progresses
      /\ DOMAIN distances' = DOMAIN distances \cup F
      /\ distances' \in [DOMAIN distances' -> Nat]
      /\ \A q \in DOMAIN distances \ F : distances'[q] = distances[q]
      /\ frontier' = (frontier \ {e}) \cup {[time |-> distances'[q], progress |-> q] : q \in F}
      /\ UNCHANGED <<routes, status, makespan, actions, replayVars>>
  BY <1>2 DEF Relabels
<1>4. \A q \in F : /\ e.time <= distances'[q]
                   /\ q \in DOMAIN distances => distances'[q] < distances[q] /\ q # p
  BY <1>2 DEF Relabels
<1>5. \A batch \in LegalActions(p, t) :
        /\ After(p, batch) \in DOMAIN distances'
        /\ distances'[After(p, batch)] <= reach(batch)
  BY <1>2 DEF Relabels
<1> HIDE DEF t
<1>6. /\ DOMAIN distances \in SUBSET Progresses /\ routes \in RouteTables
      /\ distances \in [DOMAIN distances -> Nat]
      /\ Start \in DOMAIN distances /\ distances[Start] = 0
      /\ frontier \in SUBSET [time : Nat, progress : DOMAIN distances]
      /\ \A f \in frontier : distances[f.progress] <= f.time
  BY DEF Labels
<1>7. \A q \in DOMAIN distances : /\ q \in DOMAIN distances'
                                  /\ distances'[q] \in Nat /\ distances[q] \in Nat
                                  /\ distances'[q] <= distances[q]
  BY <1>3, <1>4, <1>6
<1>8. Labels'
  <2>1. frontier' \in SUBSET [time : Nat, progress : DOMAIN distances']
    <3>1. \A f \in frontier : f \in [time : Nat, progress : DOMAIN distances']
      BY <1>3, <1>6
    <3>2. \A q \in F : [time |-> distances'[q], progress |-> q]
                         \in [time : Nat, progress : DOMAIN distances']
      BY <1>3
    <3> QED  BY <1>3, <3>1, <3>2
  <2>2. ASSUME NEW f \in frontier'
        PROVE  distances'[f.progress] <= f.time
    <3>1. CASE f \in frontier
      <4>1. f.progress \in DOMAIN distances /\ f.time \in Nat /\ distances[f.progress] <= f.time
        BY <1>6, <3>1
      <4>2. distances'[f.progress] <= distances[f.progress]
            /\ distances'[f.progress] \in Nat /\ distances[f.progress] \in Nat
        BY <1>7, <4>1
      <4> QED  BY <4>1, <4>2
    <3>2. CASE f \notin frontier
      <4>1. PICK q \in F : f = [time |-> distances'[q], progress |-> q]
        BY <1>3, <2>2, <3>2
      <4>2. distances'[q] \in Nat
        BY <1>3
      <4> QED  BY <4>1, <4>2
    <3> QED  BY <3>1, <3>2
  <2>3. Start \in DOMAIN distances' /\ distances'[Start] = 0
    BY <1>6, <1>7
  <2>4. DOMAIN distances' \in SUBSET Progresses
    BY <1>3, <1>6
  <2> QED  BY <1>3, <1>6, <2>1, <2>2, <2>3, <2>4 DEF Labels
<1>9. ASSUME NEW q \in DOMAIN distances', Entry(q)' \notin frontier'
      PROVE  q # Goal /\ Expanded(q)' /\ \A f \in frontier' : distances'[q] <= f.time
  <2>1. q \notin F
    <3>1. Entry(q)' = [time |-> distances'[q], progress |-> q]
      BY DEF Entry
    <3> QED  BY <1>3, <1>9, <3>1
  <2>2. q \in DOMAIN distances /\ distances'[q] = distances[q] /\ distances[q] \in Nat
    BY <1>3, <1>6, <1>9, <2>1
  <2>3. Entry(q)' = Entry(q)
    BY <2>2 DEF Entry
  <2>4. Decision(q)' = Decision(q)
    BY <2>2 DEF Decision
  <2>5. CASE q = p
    <3>1. Expanded(q)'
      <4>1. \A batch : BatchCost(q, batch)' = BatchCost(q, batch)
        BY <1>3 DEF BatchCost
      <4>2. ASSUME NEW batch \in LegalActions(q, Decision(q))
            PROVE  /\ After(q, batch) \in DOMAIN distances'
                   /\ distances'[After(q, batch)] <= Decision(q) + BatchCost(q, batch)
        BY <1>5, <2>5, <4>2 DEF t
      <4>3. \A batch \in LegalActions(q, Decision(q)') :
              /\ After(q, batch) \in DOMAIN distances'
              /\ distances'[After(q, batch)] <= Decision(q)' + BatchCost(q, batch)'
        BY <2>4, <4>1, <4>2
      <4> QED  BY <4>3 DEF Expanded
    <3>2. \A f \in frontier' : distances'[q] <= f.time
      <4>1. \A f \in frontier : distances'[q] <= f.time
        BY <1>3, <2>2, <2>5
      <4>2. \A r \in F : distances'[q] <= distances'[r]
        BY <1>3, <1>4, <2>2, <2>5
      <4> QED  BY <1>3, <4>1, <4>2
    <3> QED  BY <1>3, <2>5, <3>1, <3>2
  <2>6. CASE q # p
    <3>1. Entry(q) \notin frontier
      <4>1. Entry(q) # e
        BY <2>6 DEF Entry
      <4> QED  BY <1>3, <1>9, <2>3, <4>1
    <3>2. q # Goal /\ Expanded(q) /\ \A f \in frontier : distances[q] <= f.time
      BY <1>0, <2>2, <3>1 DEF Settled
    <3>3. Expanded(q)'
      <4>1. \A batch : BatchCost(q, batch)' = BatchCost(q, batch)
        BY <1>3 DEF BatchCost
      <4>2. q \in Progresses /\ q # Goal /\ Decision(q) \in Nat
        BY <1>6, <2>2, <3>2, DecisionTime DEF Decision
      <4>3. ASSUME NEW batch \in LegalActions(q, Decision(q))
            PROVE  /\ After(q, batch) \in DOMAIN distances'
                   /\ distances'[After(q, batch)] <= Decision(q) + BatchCost(q, batch)
        <5>1. /\ After(q, batch) \in DOMAIN distances
              /\ distances[After(q, batch)] <= Decision(q) + BatchCost(q, batch)
          BY <3>2 DEF Expanded
        <5>2. BatchCost(q, batch) \in Nat
          BY <1>6, <4>2, BatchTakesTime
        <5>3. /\ distances'[After(q, batch)] <= distances[After(q, batch)]
              /\ distances'[After(q, batch)] \in Nat /\ distances[After(q, batch)] \in Nat
              /\ After(q, batch) \in DOMAIN distances'
          BY <1>7, <5>1
        <5> QED  BY <4>2, <5>1, <5>2, <5>3
      <4>4. \A batch \in LegalActions(q, Decision(q)') :
              /\ After(q, batch) \in DOMAIN distances'
              /\ distances'[After(q, batch)] <= Decision(q)' + BatchCost(q, batch)'
        BY <2>4, <4>1, <4>3
      <4> QED  BY <4>4 DEF Expanded
    <3>4. \A f \in frontier' : distances'[q] <= f.time
      <4>1. \A f \in frontier : distances'[q] <= f.time
        BY <2>2, <3>2
      <4>2. distances[q] <= e.time
        BY <3>2
      <4>3. ASSUME NEW r \in F
            PROVE  distances'[q] <= distances'[r]
        <5>1. e.time <= distances'[r] /\ distances'[r] \in Nat /\ e.time \in Nat
          BY <1>3, <1>4, <1>6
        <5> QED  BY <2>2, <4>2, <5>1
      <4> QED  BY <1>3, <4>1, <4>3
    <3> QED  BY <3>2, <3>3, <3>4
  <2> QED  BY <2>5, <2>6
<1>10. Settled'
  BY <1>9 DEF Settled
<1>11. Answered'
  BY <1>0 DEF Answered
<1> QED  BY <1>8, <1>10, <1>11 DEF Searched

(* What is expanded depends on the labels and the routes only. *)
LEMMA SameLabels ==
  ASSUME UNCHANGED <<routes, distances>>
  PROVE  /\ \A p : Expanded(p)' = Expanded(p)
         /\ \A p : Entry(p)' = Entry(p)
BY DEF Expanded, Entry, Decision, BatchCost

(* The goal is popped when everything below its time has been expanded. *)
LEMMA PopKeepsSearched ==
  Searched /\ (PopStale \/ PopOverBudget \/ PopGoal) => Searched'
<1> SUFFICES ASSUME Labels, Settled, Answered, PopStale \/ PopOverBudget \/ PopGoal
             PROVE  Searched'
  BY DEF Searched
<1>1. /\ UNCHANGED <<routes, distances, replayVars>> /\ status = "searching"
      /\ frontier' \in SUBSET frontier
  BY DEF PopStale, PopOverBudget, PopGoal
<1>2. \A p : Expanded(p)' = Expanded(p) /\ Entry(p)' = Entry(p)
  BY <1>1, SameLabels
<1>3. Labels'
  BY <1>1 DEF Labels
<1>4. CASE PopStale
  <2>1. PICK e \in frontier : e.time > distances[e.progress] /\ frontier' = frontier \ {e}
    BY <1>4 DEF PopStale
  <2>2. status' = "searching"
    BY <1>4 DEF PopStale
  <2>3. \A p \in DOMAIN distances : Entry(p) # e
    <3> SUFFICES ASSUME NEW p \in DOMAIN distances, Entry(p) = e PROVE FALSE
      OBVIOUS
    <3>1. e.time = distances[p] /\ e.progress = p /\ distances[p] \in Nat
      BY DEF Entry, Labels
    <3> QED  BY <2>1, <3>1
  <2>4. ASSUME NEW p \in DOMAIN distances', Entry(p)' \notin frontier'
        PROVE  p # Goal /\ Expanded(p)' /\ \A f \in frontier' : distances'[p] <= f.time
    <3>1. p \in DOMAIN distances /\ Entry(p) \notin frontier
      BY <1>1, <1>2, <2>1, <2>3, <2>4
    <3>2. p # Goal /\ Expanded(p) /\ \A f \in frontier : distances[p] <= f.time
      BY <1>1, <3>1 DEF Settled
    <3> QED  BY <1>1, <1>2, <3>2
  <2>5. Settled'
    BY <2>4 DEF Settled
  <2> QED  BY <1>3, <2>2, <2>5 DEF Searched, Answered
<1>5. CASE PopOverBudget
  <2>1. status' = "exceeded max_states"
    BY <1>5 DEF PopOverBudget
  <2> QED  BY <1>3, <2>1 DEF Searched, Settled, Answered
<1>6. CASE PopGoal
  <2>1. PICK e \in frontier : Fresh(e) /\ e.progress = Goal /\ status' # "searching"
                              /\ (status' = "solved" => makespan' = e.time)
    BY <1>6 DEF PopGoal
  <2>2. e \in [time : Nat, progress : DOMAIN distances] /\ \A f \in frontier : e.time <= f.time
    BY <2>1, MinimumIsFirst DEF Fresh
  <2>3. e.time = distances[Goal] /\ Goal \in DOMAIN distances /\ e.time \in Nat
    BY <2>1, <2>2, FreshIsEntry
  <2>4. ASSUME NEW p \in DOMAIN distances
        PROVE  e.time <= distances[p] \/ Expanded(p)
    <3>1. CASE Entry(p) \in frontier
      BY <2>2, <3>1 DEF Entry
    <3>2. CASE Entry(p) \notin frontier
      BY <1>1, <3>2 DEF Settled
    <3> QED  BY <3>1, <3>2
  <2>5. Answered'
    BY <1>1, <1>2, <2>1, <2>3, <2>4 DEF Answered
  <2>6. Settled'
    BY <2>1 DEF Settled
  <2> QED  BY <1>3, <2>5, <2>6 DEF Searched
<1> QED  BY <1>4, <1>5, <1>6

(* The search invariant, whatever the arrivals. *)
LEMMA SearchInvariant == Spec => []Searched
<1>1. Searched /\ [Next]_vars => Searched'
  <2> SUFFICES ASSUME Searched, [Next]_vars PROVE Searched'
    OBVIOUS
  <2>1. CASE ReplayBatch \/ Finished \/ UNCHANGED vars
    <3>1. UNCHANGED <<routes, distances, status, frontier, makespan>>
      BY <2>1 DEF ReplayBatch, Finished, vars, searchVars
    <3>2. \A p : Expanded(p)' = Expanded(p) /\ Entry(p)' = Entry(p)
      BY <3>1, SameLabels
    <3>3. Labels' /\ Settled' /\ Answered'
      BY <3>1, <3>2 DEF Searched, Labels, Settled, Answered
    <3> QED  BY <3>3 DEF Searched
  <2> QED  BY <2>1, ExpandKeepsSearched, PopKeepsSearched DEF Next
<1> QED  BY <1>1, InitSearched, PTL DEF Spec

-----------------------------------------------------------------------------
(* The answer. *)

(* When all requests are there from the start, waiting never helps: the    *)
(* batches that are legal at one time are legal at every time.             *)
LEMMA ReadyFromTheStart ==
  ASSUME ArrivalInterval = 0, NEW p \in Progresses, NEW t \in Nat
  PROVE  /\ \A u \in Nat : LegalActions(p, u) = LegalActions(p, t)
         /\ \A batch \in LegalActions(p, NextDecisionTime(p, t)) :
              NextDecisionTime(p, t) = t /\ batch \in LegalActions(p, t)
<1>1. \A r \in Request : Arrival(r) = 0
  BY DEF Arrival, Request
<1>2. Open(p) \in SUBSET Request
  BY DEF Open
<1>3. \A u \in Nat : ReadyAt(p, u) = Open(p)
  BY <1>1, <1>2 DEF ReadyAt
<1>4. ASSUME NEW batch \in LegalActions(p, NextDecisionTime(p, t))
      PROVE  NextDecisionTime(p, t) = t
  <2> SUFFICES ASSUME ReadyAt(p, t) = {} PROVE FALSE
    BY DEF NextDecisionTime
  <2>1. ReadyAt(p, NextDecisionTime(p, t)) = {}
    BY <1>3 DEF ReadyAt
  <2>2. batch = {}
    BY <2>1 DEF LegalActions
  <2>3. Cardinality(batch) = 0
    BY <2>2, FS_EmptySet
  <2> QED  BY <2>3 DEF LegalActions
<1>5. \A u \in Nat : LegalActions(p, u) = LegalActions(p, t)
  BY <1>3 DEF LegalActions
<1> QED  BY <1>4, <1>5

(* A replay that sets out from a label goes on to one that is no later, or *)
(* the answer is already behind it.                                        *)
LEMMA ReplayStaysBehind ==
  ASSUME ArrivalInterval = 0, Searched, ReplayBehind, ReplayBatch
  PROVE  ReplayBehind'
<1>1. /\ status = "solved" /\ status' = "solved" /\ at # Goal
      /\ UNCHANGED <<routes, distances, makespan>>
  BY DEF ReplayBatch, searchVars
<1>2. PICK batch \in LegalActions(at, NextDecisionTime(at, clock)) :
        /\ clock' = NextDecisionTime(at, clock) + BatchCost(at, batch)
        /\ at' = After(at, batch)
  BY DEF ReplayBatch
<1>3. at \in Progresses /\ clock \in Nat /\ makespan \in Nat
  BY <1>1 DEF ReplayBehind, Searched, Answered
<1>4. NextDecisionTime(at, clock) = clock /\ batch \in LegalActions(at, clock)
  BY <1>3, ReadyFromTheStart
<1>5. BatchCost(at, batch) \in Nat /\ at' \in Progresses
  BY <1>2, <1>3, BatchTakesTime, BatchesAdvance DEF Searched, Labels
<1>6. clock' = clock + BatchCost(at, batch) /\ clock' \in Nat /\ clock <= clock'
  BY <1>2, <1>3, <1>4, <1>5
<1>7. makespan <= clock' \/ (at' \in DOMAIN distances /\ distances[at'] <= clock')
  <2>1. CASE makespan <= clock
    BY <1>3, <1>6, <2>1
  <2>2. CASE ~(makespan <= clock)
    <3>1. /\ at \in DOMAIN distances /\ distances[at] <= clock
          /\ distances \in [DOMAIN distances -> Nat]
      BY <1>1, <2>2 DEF ReplayBehind, Searched, Labels
    <3>2. ~(makespan <= distances[at]) /\ distances[at] \in Nat
      BY <1>3, <2>2, <3>1
    <3>3. Expanded(at)
      BY <1>1, <3>1, <3>2 DEF Searched, Answered
    <3>4. LegalActions(at, clock) = LegalActions(at, distances[at])
      BY <1>3, <3>2, ReadyFromTheStart
    <3>5. Decision(at) = distances[at]
      <4>1. ReadyAt(at, distances[at]) # {}
        <5> SUFFICES ASSUME ReadyAt(at, distances[at]) = {} PROVE FALSE
          OBVIOUS
        <5>1. batch = {}
          BY <1>4, <3>4 DEF LegalActions
        <5>2. Cardinality(batch) = 0
          BY <5>1, FS_EmptySet
        <5> QED  BY <1>4, <5>2 DEF LegalActions
      <4> QED  BY <4>1 DEF Decision, NextDecisionTime
    <3>6. /\ After(at, batch) \in DOMAIN distances
          /\ distances[After(at, batch)] <= distances[at] + BatchCost(at, batch)
      BY <1>4, <3>3, <3>4, <3>5 DEF Expanded
    <3>7. distances[After(at, batch)] \in Nat
      BY <3>1, <3>6
    <3>8. distances[After(at, batch)] <= clock'
      BY <1>3, <1>5, <1>6, <3>1, <3>2, <3>6, <3>7
    <3> QED  BY <1>2, <3>6, <3>8
  <2> QED  BY <2>1, <2>2
<1> QED  BY <1>1, <1>5, <1>6, <1>7 DEF ReplayBehind

(* The search itself is over or has not answered while a replay stands.    *)
LEMMA SearchKeepsReplay ==
  ASSUME Searched, ReplayBehind, PopStale \/ PopOverBudget \/ PopGoal \/ Expand
  PROVE  ReplayBehind'
<1>1. status = "searching" /\ UNCHANGED <<at, clock>>
  BY DEF PopStale, PopOverBudget, PopGoal, Expand, replayVars
<1>2. at = Start /\ clock = 0 /\ at \in Progresses
  BY <1>1 DEF ReplayBehind
<1>3. CASE PopGoal
  <2>1. distances' = distances
    BY <1>3 DEF PopGoal
  <2>2. Start \in DOMAIN distances /\ distances[Start] = 0
    BY DEF Searched, Labels
  <2> QED  BY <1>1, <1>2, <2>1, <2>2 DEF ReplayBehind
<1>4. CASE PopStale \/ PopOverBudget \/ Expand
  <2>1. status' # "solved"
    BY <1>1, <1>4 DEF PopStale, PopOverBudget, Expand
  <2> QED  BY <1>1, <1>2, <2>1 DEF ReplayBehind
<1> QED  BY <1>3, <1>4

(* "Exact offline makespan optimum" (src/refineserve/global_oracle.py:21)  *)
(* when all requests arrive at once: no sequence of legal batches, for any *)
(* workload, routes and costs, completes before the answer.  (When         *)
(* requests arrive one after the other this fails, see the run             *)
(* oracle_optimum: an earlier time can then be the worse one.)             *)
THEOREM OptimalForBursts ==
  ASSUME ArrivalInterval = 0
  PROVE  Spec => []ExactOptimum
<1>1. Searched /\ ReplayBehind /\ [Next]_vars => ReplayBehind'
  <2> SUFFICES ASSUME Searched, ReplayBehind, [Next]_vars PROVE ReplayBehind'
    OBVIOUS
  <2>1. CASE Finished \/ UNCHANGED vars
    BY <2>1 DEF Finished, vars, searchVars, replayVars, ReplayBehind
  <2>2. CASE ReplayBatch
    BY <2>2, ReplayStaysBehind
  <2>3. CASE PopStale \/ PopOverBudget \/ PopGoal \/ Expand
    BY <2>3, SearchKeepsReplay
  <2> QED  BY <2>1, <2>2, <2>3 DEF Next
<1>2. Searched /\ ReplayBehind => ExactOptimum
  <2> SUFFICES ASSUME Searched, ReplayBehind, status = "solved", at = Goal
               PROVE  makespan <= clock
    BY DEF ExactOptimum
  <2>1. distances[Goal] = makespan
    BY DEF Searched, Answered
  <2> QED  BY <2>1 DEF ReplayBehind
<1> QED  BY <1>1, <1>2, InitSearched, SearchInvariant, PTL DEF Spec

-----------------------------------------------------------------------------
(* Every label can be replayed, whatever the arrivals.                     *)

(* What replay does with one batch, and what it computes for a sequence of *)
(* them; a run and a path are defined by recursion, and an extension of    *)
(* one is one again.                                                       *)
ReplayStep(before, batch) ==
  LET t == NextDecisionTime(before.progress, before.time)
  IN  IF batch \in LegalActions(before.progress, t) /\ before.legal
      THEN [progress |-> After(before.progress, batch),
            time |-> t + BatchCost(before.progress, batch),
            legal |-> TRUE]
      ELSE [before EXCEPT !.legal = FALSE]

IsRun(run, batches) ==
  run = [i \in 0 .. Len(batches) |->
           IF i = 0 THEN [progress |-> Start, time |-> 0, legal |-> TRUE]
           ELSE ReplayStep(run[i - 1], batches[i])]

Replays(batches, end) ==
  /\ \E run : IsRun(run, batches)
  /\ \A run : IsRun(run, batches) => run[Len(batches)] = end

IsPath(path) ==
  path = [p \in DOMAIN distances |->
            IF p \notin DOMAIN predecessors THEN << >>
            ELSE Append(path[predecessors[p].progress], predecessors[p].batch)]

Reached(p) == [progress |-> p, time |-> distances[p], legal |-> TRUE]

(* Predecessors are final, so a better label leaves the way to all others  *)
(* as it was.                                                              *)
Predecessors ==
  /\ DOMAIN predecessors = DOMAIN distances \ {Start}
  /\ \A q \in DOMAIN predecessors :
       /\ predecessors[q].progress \in DOMAIN distances
       /\ Entry(predecessors[q].progress) \notin frontier

Traced ==
  /\ Predecessors
  /\ \E path : IsPath(path)
  /\ \A path : IsPath(path) =>
       \A p \in DOMAIN distances :
         path[p] \in Seq(SUBSET Request) /\ Replays(path[p], Reached(p))
  /\ status # "replay mismatch"

LEMMA ReplayedIsEnd ==
  ASSUME NEW batches, NEW end, Replays(batches, end)
  PROVE  Replayed(batches) = end
<1> DEFINE run == CHOOSE f : IsRun(f, batches)
<1>1. IsRun(run, batches)
  BY DEF Replays
<1>2. Replayed(batches) = run[Len(batches)]
  BY DEF Replayed, IsRun, ReplayStep
<1> QED  BY <1>1, <1>2 DEF Replays

(* Nothing has been replayed for no batches. *)
LEMMA ReplaysNothing == Replays(<< >>, [progress |-> Start, time |-> 0, legal |-> TRUE])
<1> DEFINE start == [progress |-> Start, time |-> 0, legal |-> TRUE]
           run == [i \in 0 .. 0 |-> start]
<1>1. Len(<< >>) = 0 /\ \A i \in 0 .. 0 : i = 0
  OBVIOUS
<1>2. IsRun(run, << >>)
  BY <1>1 DEF IsRun
<1>3. ASSUME NEW f, IsRun(f, << >>)
      PROVE  f[0] = start
  BY <1>1, <1>3 DEF IsRun
<1> QED  BY <1>1, <1>2, <1>3 DEF Replays

(* One more batch is one more step. *)
LEMMA ReplaysOneMore ==
  ASSUME NEW batches \in Seq(SUBSET Request), NEW batch \in SUBSET Request, NEW end,
         Replays(batches, end)
  PROVE  Replays(Append(batches, batch), ReplayStep(end, batch))
<1> DEFINE n == Len(batches)
           longer == Append(batches, batch)
           start == [progress |-> Start, time |-> 0, legal |-> TRUE]
<1>1. n \in Nat /\ Len(longer) = n + 1 /\ longer[n + 1] = batch
      /\ \A i \in 1 .. n : longer[i] = batches[i]
  OBVIOUS
<1>2. PICK f : IsRun(f, batches)
  BY DEF Replays
<1> HIDE DEF n, longer
<1>3. n = Len(batches)
  BY DEF n
<1>4. ASSUME NEW g
      PROVE  IsRun(g, longer) <=> g = [i \in 0 .. n + 1 |-> IF i = 0 THEN start
                                        ELSE ReplayStep(g[i - 1], longer[i])]
  BY <1>1 DEF IsRun
<1>5. ASSUME NEW g
      PROVE  IsRun(g, batches) <=> g = [i \in 0 .. n |-> IF i = 0 THEN start
                                        ELSE ReplayStep(g[i - 1], batches[i])]
  BY <1>3 DEF IsRun
<1>6. \E g : IsRun(g, longer)
  <2> DEFINE g == [i \in 0 .. n + 1 |-> IF i = n + 1 THEN ReplayStep(f[n], batch) ELSE f[i]]
  <2>1. f = [i \in 0 .. n |-> IF i = 0 THEN start ELSE ReplayStep(f[i - 1], batches[i])]
    BY <1>2, <1>5
  <2>2. ASSUME NEW i \in 0 .. n + 1
        PROVE  g[i] = IF i = 0 THEN start ELSE ReplayStep(g[i - 1], longer[i])
    <3>1. CASE i = n + 1
      <4>1. i # 0 /\ i - 1 = n /\ i - 1 \in 0 .. n + 1 /\ i - 1 # n + 1
        BY <1>1, <3>1
      <4>2. g[i - 1] = f[n] /\ g[i] = ReplayStep(f[n], batch)
        BY <3>1, <4>1
      <4> QED  BY <1>1, <3>1, <4>1, <4>2
    <3>2. CASE i = 0
      <4>1. i \in 0 .. n /\ i # n + 1
        BY <1>1, <3>2
      <4>2. g[i] = f[i]
        BY <4>1
      <4>3. f[i] = start
        BY <2>1, <3>2, <4>1
      <4> QED  BY <3>2, <4>2, <4>3
    <3>3. CASE i # n + 1 /\ i # 0
      <4>1. i \in 1 .. n /\ i \in 0 .. n /\ i - 1 \in 0 .. n + 1 /\ i - 1 # n + 1
        BY <1>1, <3>3
      <4>2. g[i] = f[i] /\ g[i - 1] = f[i - 1] /\ longer[i] = batches[i]
        BY <1>1, <3>3, <4>1
      <4>3. f[i] = ReplayStep(f[i - 1], batches[i])
        BY <2>1, <3>3, <4>1
      <4> QED  BY <3>3, <4>2, <4>3
    <3> QED  BY <3>1, <3>2, <3>3
  <2>3. DOMAIN g = 0 .. n + 1 /\ g = [i \in 0 .. n + 1 |-> g[i]]
    OBVIOUS
  <2> HIDE DEF g
  <2>4. g = [i \in 0 .. n + 1 |-> IF i = 0 THEN start ELSE ReplayStep(g[i - 1], longer[i])]
    BY <2>2, <2>3
  <2> QED  BY <1>4, <2>4
<1>7. ASSUME NEW g, IsRun(g, longer)
      PROVE  g[n + 1] = ReplayStep(end, batch)
  <2>1. g = [i \in 0 .. n + 1 |-> IF i = 0 THEN start ELSE ReplayStep(g[i - 1], longer[i])]
    BY <1>4, <1>7
  <2> DEFINE h == [i \in 0 .. n |-> g[i]]
  <2>2. ASSUME NEW i \in 0 .. n
        PROVE  h[i] = IF i = 0 THEN start ELSE ReplayStep(h[i - 1], batches[i])
    <3>1. i \in 0 .. n + 1
      BY <1>1
    <3>2. g[i] = IF i = 0 THEN start ELSE ReplayStep(g[i - 1], longer[i])
      BY <2>1, <3>1
    <3>3. CASE i = 0
      BY <3>2, <3>3
    <3>4. CASE i # 0
      <4>1. i \in 1 .. n /\ i - 1 \in 0 .. n
        BY <1>1, <3>4
      <4>2. longer[i] = batches[i] /\ h[i - 1] = g[i - 1]
        BY <1>1, <4>1
      <4> QED  BY <3>2, <3>4, <4>2
    <3> QED  BY <3>3, <3>4
  <2>3. h = [i \in 0 .. n |-> h[i]] /\ h[n] = g[n]
    BY <1>1
  <2> HIDE DEF h
  <2>4. h = [i \in 0 .. n |-> IF i = 0 THEN start ELSE ReplayStep(h[i - 1], batches[i])]
    BY <2>2, <2>3
  <2>5. IsRun(h, batches)
    BY <1>5, <2>4
  <2>6. g[n] = end
    BY <1>3, <2>3, <2>5 DEF Replays
  <2>7. \A i \in 0 .. n + 1 : g[i] = IF i = 0 THEN start ELSE ReplayStep(g[i - 1], longer[i])
    BY <2>1
  <2>8. g[n + 1] = ReplayStep(g[n], longer[n + 1])
    <3> DEFINE i == n + 1
    <3>1. i \in 0 .. n + 1 /\ i # 0 /\ i - 1 = n
      BY <1>1
    <3> HIDE DEF i
    <3>2. g[i] = ReplayStep(g[i - 1], longer[i])
      BY <2>7, <3>1
    <3> QED  BY <3>1, <3>2 DEF i
  <2> QED  BY <1>1, <2>6, <2>8
<1> QED  BY <1>1, <1>6, <1>7 DEF Replays, longer

LEMMA InitTraced == Init => Traced
<1> SUFFICES ASSUME Init PROVE Traced
  OBVIOUS
<1>1. /\ DOMAIN distances = {Start} /\ distances[Start] = 0
      /\ DOMAIN predecessors = {} /\ status = "searching"
  BY DEF Init
<1>2. Predecessors
  BY <1>1 DEF Predecessors
<1>3. ASSUME NEW path
      PROVE  IsPath(path) <=> path = [p \in {Start} |-> << >>]
  BY <1>1 DEF IsPath
<1>4. Reached(Start) = [progress |-> Start, time |-> 0, legal |-> TRUE]
  BY <1>1 DEF Reached
<1>5. \E path : IsPath(path)
  <2>1. IsPath([p \in {Start} |-> << >>])
    BY <1>3
  <2> QED  BY <2>1
<1>6. ASSUME NEW path, IsPath(path)
      PROVE  path[Start] \in Seq(SUBSET Request) /\ Replays(path[Start], Reached(Start))
  <2>1. path[Start] = << >>
    BY <1>3, <1>6
  <2>2. << >> \in Seq(SUBSET Request)
    OBVIOUS
  <2> QED  BY <1>4, <2>1, <2>2, ReplaysNothing
<1> QED  BY <1>1, <1>2, <1>5, <1>6 DEF Traced

(* A label found from p is that of the replay of the way to p and of the   *)
(* batch that found it.                                                    *)
LEMMA StepReaches ==
  ASSUME NEW p, NEW batch \in LegalActions(p, Decision(p))
  PROVE  ReplayStep(Reached(p), batch)
           = [progress |-> After(p, batch), time |-> Decision(p) + BatchCost(p, batch),
              legal |-> TRUE]
BY DEF ReplayStep, Reached, Decision

(* The routes are all that a replay reads. *)
LEMMA SameRoutes ==
  ASSUME UNCHANGED routes
  PROVE  \A batches, end : Replays(batches, end)' = Replays(batches, end)
BY DEF Replays, IsRun, ReplayStep, BatchCost

LEMMA ExpandKeepsTraced ==
  ASSUME Labels, Settled, Traced, Expand
  PROVE  Traced'
<1>0. UNCHANGED <<routes, status>>
  BY DEF Expand
<1>1. PICK e \in frontier : \E F, by : Relabels(e, F, by)
  BY ExpandRelabels
<1>2. PICK F, by : Relabels(e, F, by)
  BY <1>1
<1> DEFINE p == e.progress
           D == DOMAIN distances
           P == DOMAIN predecessors
<1>3. /\ e = Entry(p) /\ p \in D /\ e \in frontier
      /\ DOMAIN distances' = D \cup F
      /\ \A q \in D \ F : distances'[q] = distances[q]
      /\ predecessors' = [q \in P \cup F |->
                            IF q \in F THEN [progress |-> p, batch |-> by[q]]
                                       ELSE predecessors[q]]
      /\ frontier' = (frontier \ {e}) \cup {[time |-> distances'[q], progress |-> q] : q \in F}
  BY <1>2 DEF Relabels
<1>4. \A q \in F : /\ by[q] \in LegalActions(p, Decision(p)) /\ After(p, by[q]) = q
                   /\ distances'[q] = Decision(p) + BatchCost(p, by[q])
                   /\ distances'[q] \in Nat
                   /\ q \in D => distances'[q] < distances[q] /\ Entry(q) \in frontier /\ q # p
  BY <1>2 DEF Relabels
<1>5. p \in Progresses /\ Start \in D /\ distances[Start] = 0
  BY <1>3 DEF Labels
<1>6. p \notin F /\ Start \notin F
  <2>1. ASSUME Start \in F PROVE FALSE
    <3>1. distances'[Start] \in Nat /\ distances'[Start] < 0
      BY <1>4, <1>5, <2>1
    <3> QED  BY <3>1
  <2> QED  BY <1>3, <1>4, <2>1
(* No predecessor is found again. *)
<1>7. ASSUME NEW q \in P
      PROVE  predecessors[q].progress \in D \ F
  BY <1>4 DEF Traced, Predecessors
<1>8. Predecessors'
  <2>1. DOMAIN predecessors' = DOMAIN distances' \ {Start}
    BY <1>3, <1>6 DEF Traced, Predecessors
  <2>2. ASSUME NEW q \in D \ F, Entry(q) \notin frontier \/ q = p
        PROVE  Entry(q)' \notin frontier'
    <3>1. Entry(q)' = Entry(q) /\ Entry(q).progress = q
      BY <1>3 DEF Entry
    <3>2. Entry(q) \notin frontier \ {e}
      BY <1>3, <2>2
    <3>3. Entry(q) \notin {[time |-> distances'[s], progress |-> s] : s \in F}
      BY <3>1
    <3> QED  BY <1>3, <3>1, <3>2, <3>3
  <2>3. ASSUME NEW q \in DOMAIN predecessors', NEW s, s = predecessors'[q].progress
        PROVE  s \in DOMAIN distances' /\ Entry(s)' \notin frontier'
    <3>1. CASE q \in F
      <4>1. s = p
        BY <1>3, <2>3, <3>1
      <4>2. p \in D \ F
        BY <1>3, <1>6
      <4> QED  BY <1>3, <2>2, <4>1, <4>2
    <3>2. CASE q \notin F
      <4>1. q \in P /\ s = predecessors[q].progress
        BY <1>3, <2>3, <3>2
      <4>2. Entry(s) \notin frontier
        BY <4>1 DEF Traced, Predecessors
      <4>3. s \in D \ F
        BY <1>7, <4>1
      <4> QED  BY <1>3, <2>2, <4>2, <4>3
    <3> QED  BY <3>1, <3>2
  <2>4. \A q \in DOMAIN predecessors' :
          /\ predecessors'[q].progress \in DOMAIN distances'
          /\ (Entry(predecessors[q].progress) \notin frontier)'
    <3> SUFFICES ASSUME NEW q \in DOMAIN predecessors'
                 PROVE  /\ predecessors'[q].progress \in DOMAIN distances'
                        /\ (Entry(predecessors[q].progress) \notin frontier)'
      OBVIOUS
    <3>1. PICK s : s = predecessors'[q].progress
      OBVIOUS
    <3>2. s \in DOMAIN distances' /\ Entry(s)' \notin frontier'
      BY <2>3, <3>1
    <3> QED  BY <3>1, <3>2 DEF Entry
  <2> QED  BY <2>1, <2>4 DEF Predecessors
<1> DEFINE old(path, q) == IF q \notin P THEN << >>
                           ELSE Append(path[predecessors[q].progress], predecessors[q].batch)
           new(path, q) == IF q \notin P \cup F THEN << >>
                           ELSE IF q \in F THEN Append(path[p], by[q])
                           ELSE Append(path[predecessors[q].progress], predecessors[q].batch)
<1>9. ASSUME NEW path
      PROVE  IsPath(path) <=> path = [q \in D |-> old(path, q)]
  BY DEF IsPath
<1>10. ASSUME NEW path
       PROVE  IsPath(path)' <=> path = [q \in D \cup F |-> new(path, q)]
  <2>1. \A q \in D \cup F :
          (IF q \notin DOMAIN predecessors' THEN << >>
           ELSE Append(path[predecessors'[q].progress], predecessors'[q].batch)) = new(path, q)
    BY <1>3
  <2>2. IsPath(path)' <=>
          path = [q \in D \cup F |->
                    IF q \notin DOMAIN predecessors' THEN << >>
                    ELSE Append(path[predecessors'[q].progress], predecessors'[q].batch)]
    BY <1>3 DEF IsPath
  <2> HIDE DEF new
  <2> QED  BY <2>1, <2>2
<1>11. \E path : IsPath(path)'
  <2>1. PICK path : IsPath(path)
    BY DEF Traced
  <2> DEFINE longer == [q \in D \cup F |-> IF q \in F THEN Append(path[p], by[q]) ELSE path[q]]
  <2>2. path = [q \in D |-> old(path, q)]
    BY <1>9, <2>1
  <2>3. ASSUME NEW q \in D \cup F
        PROVE  longer[q] = new(longer, q)
    <3>1. longer[p] = path[p]
      BY <1>3, <1>6
    <3>2. CASE q \in F
      BY <3>1, <3>2
    <3>3. CASE q \notin F /\ q \in P
      <4>1. longer[predecessors[q].progress] = path[predecessors[q].progress]
        BY <1>7, <3>3
      <4> QED  BY <2>2, <3>3, <4>1
    <3>4. CASE q \notin F /\ q \notin P
      BY <2>2, <3>4
    <3> QED  BY <3>2, <3>3, <3>4
  <2>4. longer = [q \in D \cup F |-> longer[q]]
    OBVIOUS
  <2> HIDE DEF longer, new
  <2>5. longer = [q \in D \cup F |-> new(longer, q)]
    BY <2>3, <2>4
  <2> QED  BY <1>10, <2>5
<1>12. ASSUME NEW path, IsPath(path)', NEW q \in D \cup F
       PROVE  path[q] \in Seq(SUBSET Request)
              /\ Replays(path[q], [progress |-> q, time |-> distances'[q], legal |-> TRUE])
  <2>1. path = [s \in D \cup F |-> new(path, s)]
    BY <1>10, <1>12
  <2> DEFINE before == [s \in D |-> IF s \in F THEN old(path, s) ELSE path[s]]
  <2>2. IsPath(before)
    <3>1. ASSUME NEW s \in D
          PROVE  before[s] = old(before, s)
      <4>1. CASE s \in P
        <5>1. before[predecessors[s].progress] = path[predecessors[s].progress]
          BY <1>7, <4>1
        <5> QED  BY <2>1, <4>1, <5>1
      <4>2. CASE s \notin P
        BY <2>1, <4>2
      <4> QED  BY <4>1, <4>2
    <3>2. before = [s \in D |-> before[s]]
      OBVIOUS
    <3> HIDE DEF before, old
    <3>3. before = [s \in D |-> old(before, s)]
      BY <3>1, <3>2
    <3> QED  BY <1>9, <3>3
  <2>3. \A s \in D \ F : path[s] \in Seq(SUBSET Request) /\ Replays(path[s], Reached(s))
    <3>1. \A s \in D \ F : before[s] = path[s]
      OBVIOUS
    <3>2. \A s \in D : before[s] \in Seq(SUBSET Request) /\ Replays(before[s], Reached(s))
      BY <2>2 DEF Traced
    <3> HIDE DEF before
    <3> QED  BY <3>1, <3>2
  <2>4. CASE q \notin F
    <3>1. Reached(q) = [progress |-> q, time |-> distances'[q], legal |-> TRUE]
      BY <1>3, <2>4 DEF Reached
    <3> QED  BY <2>3, <2>4, <3>1
  <2>5. CASE q \in F
    <3>1. path[q] = Append(path[p], by[q])
      BY <2>1, <2>5
    <3>2. path[p] \in Seq(SUBSET Request) /\ Replays(path[p], Reached(p))
      BY <1>3, <1>6, <2>3
    <3>3. by[q] \in SUBSET Request /\ by[q] \in LegalActions(p, Decision(p))
      BY <1>4, <1>5, <2>5, BatchesAdvance
    <3>4. ReplayStep(Reached(p), by[q]) = [progress |-> q, time |-> distances'[q], legal |-> TRUE]
      <4>1. ReplayStep(Reached(p), by[q])
              = [progress |-> After(p, by[q]), time |-> Decision(p) + BatchCost(p, by[q]),
                 legal |-> TRUE]
        BY <3>3, StepReaches
      <4>2. After(p, by[q]) = q /\ distances'[q] = Decision(p) + BatchCost(p, by[q])
        BY <1>4, <2>5
      <4> QED  BY <4>1, <4>2
    <3>5. Replays(Append(path[p], by[q]), ReplayStep(Reached(p), by[q]))
      BY <3>2, <3>3, ReplaysOneMore
    <3>6. Append(path[p], by[q]) \in Seq(SUBSET Request)
      BY <3>2, <3>3
    <3> QED  BY <3>1, <3>4, <3>5, <3>6
  <2> QED  BY <2>4, <2>5
<1>13. ASSUME NEW path, IsPath(path)', NEW q \in D \cup F
       PROVE  path[q] \in Seq(SUBSET Request) /\ Replays(path[q], Reached(q))'
  <2>1. PICK end : end = [progress |-> q, time |-> distances'[q], legal |-> TRUE]
    OBVIOUS
  <2>2. Reached(q)' = end
    BY <2>1 DEF Reached
  <2>3. Replays(path[q], Reached(q))' <=> Replays(path[q], end)'
    BY <2>2 DEF Replays
  <2>4. path[q] \in Seq(SUBSET Request) /\ Replays(path[q], end)
    BY <1>12, <1>13, <2>1
  <2> QED  BY <1>0, <2>3, <2>4, SameRoutes
<1> QED
  BY <1>0, <1>3, <1>8, <1>11, <1>13 DEF Traced

(* What is kept of a way depends on the labels and their predecessors. *)
LEMMA SameWays ==
  ASSUME UNCHANGED <<routes, distances, predecessors>>
  PROVE  /\ \A path : IsPath(path)' = IsPath(path)
         /\ \A batches, p : Replays(batches, Reached(p))' = Replays(batches, Reached(p))
         /\ \A p : Entry(p)' = Entry(p)
BY DEF IsPath, Reached, Entry, Replays, IsRun, ReplayStep, BatchCost

LEMMA SameWaysKeepTraced ==
  ASSUME Traced, UNCHANGED <<routes, distances, predecessors>>,
         frontier' \in SUBSET frontier, status' # "replay mismatch"
  PROVE  Traced'
<1>1. Predecessors'
  BY SameWays DEF Traced, Predecessors
<1>2. \E path : IsPath(path)'
  BY SameWays DEF Traced
<1>3. ASSUME NEW path, IsPath(path)', NEW p \in DOMAIN distances
      PROVE  path[p] \in Seq(SUBSET Request) /\ Replays(path[p], Reached(p))'
  BY <1>3, SameWays DEF Traced
<1> QED  BY <1>1, <1>2, <1>3 DEF Traced

(* The way the search reconstructs is the way its labels were found on. *)
LEMMA TracedWitnesses ==
  ASSUME Traced, NEW p \in DOMAIN distances
  PROVE  Replayed(Reconstructed(p)) = Reached(p)
<1> DEFINE path == CHOOSE f : IsPath(f)
<1>1. IsPath(path)
  BY DEF Traced
<1>2. Reconstructed(p) = path[p]
  BY DEF Reconstructed, IsPath
<1>3. Replays(path[p], Reached(p))
  BY <1>1 DEF Traced
<1> QED  BY <1>2, <1>3, ReplayedIsEnd

LEMMA PopKeepsTraced ==
  ASSUME Labels, Traced, PopStale \/ PopOverBudget \/ PopGoal
  PROVE  Traced'
<1>1. UNCHANGED <<routes, distances, predecessors>> /\ frontier' \in SUBSET frontier
  BY DEF PopStale, PopOverBudget, PopGoal
<1>2. CASE PopStale \/ PopOverBudget
  <2>1. status' # "replay mismatch"
    BY <1>2 DEF PopStale, PopOverBudget, Traced
  <2> QED  BY <1>1, <2>1, SameWaysKeepTraced
<1>3. CASE PopGoal
  <2>1. PICK e \in frontier :
          /\ Fresh(e) /\ e.progress = Goal
          /\ LET end == Replayed(Reconstructed(Goal))
             IN  end.legal /\ end.progress = Goal /\ end.time = e.time => status' = "solved"
    BY <1>3 DEF PopGoal
  <2>2. Goal \in DOMAIN distances /\ e.time = distances[Goal]
    BY <2>1, FreshIsEntry
  <2>3. Replayed(Reconstructed(Goal)) = [progress |-> Goal, time |-> e.time, legal |-> TRUE]
    BY <2>2, TracedWitnesses DEF Reached
  <2>4. status' = "solved"
    BY <2>1, <2>3
  <2> QED  BY <1>1, <2>4, SameWaysKeepTraced
<1> QED  BY <1>2, <1>3

(* Whatever the arrivals, each recorded time is real: the batches that are *)
(* reconstructed for a progress are legal and replay to that progress at   *)
(* exactly that time, even while labels are being improved, so the         *)
(* error "oracle replay mismatch" (src/refineserve/global_oracle.py:117)   *)
(* is never raised.                                                        *)
THEOREM LabelsAreReal == Spec => []DistancesWitnessed
<1>1. Searched /\ Traced /\ [Next]_vars => Traced'
  <2> SUFFICES ASSUME Searched, Traced, [Next]_vars PROVE Traced'
    OBVIOUS
  <2>1. CASE ReplayBatch \/ Finished \/ UNCHANGED vars
    <3>1. UNCHANGED <<routes, distances, predecessors, frontier, status>>
      BY <2>1 DEF ReplayBatch, Finished, vars, searchVars
    <3>2. status' # "replay mismatch"
      BY <3>1 DEF Traced
    <3> QED  BY <3>1, <3>2, SameWaysKeepTraced
  <2>2. CASE Expand
    BY <2>2, ExpandKeepsTraced DEF Searched
  <2>3. CASE PopStale \/ PopOverBudget \/ PopGoal
    BY <2>3, PopKeepsTraced DEF Searched
  <2> QED  BY <2>1, <2>2, <2>3 DEF Next
<1>2. Traced => DistancesWitnessed
  BY TracedWitnesses DEF DistancesWitnessed, Reached, Traced
<1> QED  BY <1>1, <1>2, InitTraced, SearchInvariant, PTL DEF Spec

-----------------------------------------------------------------------------
(* Histograms. *)

(* The profiles of a batch with these routes, and the assignments that     *)
(* leave their GPU.                                                        *)
Profiles(work) == [r \in DOMAIN work |-> MakeProfile(r, ExpertCounts(work[r]), Len(work[r]))]
PairOf(a) == <<KvLocation(a.request), RankOf(a.expert)>>
Cross(work) == {a \in Assignments(work) : PairOf(a)[1] # PairOf(a)[2]}

(* What a request activates of some experts. *)
Activated(work, r, E) == {a \in Assignments(work) : a.request = r /\ a.expert \in E}

(* A member activates an expert once for each of its positions that is     *)
(* routed there.                                                           *)
LEMMA ActivatedOnce ==
  ASSUME NEW work, Routed(work), NEW r \in DOMAIN work, NEW e
  PROVE  Cardinality(Activated(work, r, {e})) = Cardinality({p \in DOMAIN work[r] : e \in work[r][p]})
<1> DEFINE P == {p \in DOMAIN work[r] : e \in work[r][p]}
           Q == Activated(work, r, {e})
           f == [p \in P |-> [request |-> r, position |-> p, expert |-> e]]
<1>1. Q = {f[p] : p \in P}
  <2>1. Assignments(work) = UNION {{[request |-> x[1], position |-> x[2], expert |-> y] : y \in work[x[1]][x[2]]} :
           x \in UNION {{s} \X DOMAIN work[s] : s \in DOMAIN work}}
    BY DEF Assignments
  <2>2. ASSUME NEW a \in Q
        PROVE  \E p \in P : a = f[p]
    <3>1. a \in Assignments(work) /\ a.request = r /\ a.expert = e
      BY DEF Activated
    <3>2. PICK s \in DOMAIN work : \E p \in DOMAIN work[s] : \E x \in work[s][p] :
            a = [request |-> s, position |-> p, expert |-> x]
      BY <2>1, <3>1
    <3> QED  BY <3>1, <3>2
  <2>3. ASSUME NEW p \in P
        PROVE  f[p] \in Q
    <3>1. [request |-> r, position |-> p, expert |-> e] \in Assignments(work)
      <4>1. <<r, p>> \in UNION {{s} \X DOMAIN work[s] : s \in DOMAIN work}
        OBVIOUS
      <4> QED  BY <4>1 DEF Assignments
    <3> QED  BY <3>1 DEF Activated
  <2> HIDE DEF f, P, Q
  <2> QED  BY <2>2, <2>3
<1>2. f \in Bijection(P, Q)
  <2>1. f \in [P -> Q]
    BY <1>1
  <2>2. \A p, q \in P : f[p] = f[q] => p = q
    OBVIOUS
  <2>3. \A y \in Q : \E p \in P : f[p] = y
    BY <1>1
  <2> HIDE DEF f, P, Q
  <2> QED  BY <2>1, <2>2, <2>3 DEF Bijection, Injection, Surjection, IsInjective
<1>3. IsFiniteSet(P)
  <2>1. Len(work[r]) \in Nat /\ DOMAIN work[r] = 1 .. Len(work[r])
    BY DEF Routed
  <2>2. IsFiniteSet(1 .. Len(work[r]))
    BY <2>1, FS_Interval
  <2> QED  BY <2>1, <2>2, FS_Subset
<1>4. Cardinality(Q) = Cardinality(P)
  <2> HIDE DEF f, P, Q
  <2> QED  BY <1>2, <1>3, FS_Bijection DEF ExistsBijection
<1> QED  BY <1>4

(* What a member activates of some experts is what its profile counts.     *)
LEMMA ActivatedCount ==
  ASSUME NEW work, Routed(work), NEW r \in DOMAIN work, NEW E \in SUBSET Expert
  PROVE  Cardinality(Activated(work, r, E)) = SumFunctionOnSet(ExpertCounts(work[r]), E)
<1> DEFINE A == Activated(work, r, E)
           k == [a \in A |-> a.expert]
           sizes == ExpertCounts(work[r])
<1>1. IsFiniteSet(A)
  BY AssignmentsFinite, FS_Subset DEF Activated
<1>2. IsFiniteSet(E)
  BY RequestsAndRanks, FS_Subset
<1>3. ASSUME NEW e \in E
      PROVE  sizes[e] = Cardinality({a \in A : k[a] = e})
  <2>1. {a \in A : k[a] = e} = Activated(work, r, {e})
    BY DEF Activated
  <2>2. sizes[e] = Cardinality({p \in DOMAIN work[r] : e \in work[r][p]})
    BY DEF ExpertCounts
  <2>3. Cardinality(Activated(work, r, {e})) = Cardinality({p \in DOMAIN work[r] : e \in work[r][p]})
    BY ActivatedOnce
  <2> HIDE DEF sizes, k, A
  <2> QED  BY <2>1, <2>2, <2>3, Zenon
<1>4. \A a \in A : k[a] \in E
  BY DEF Activated
<1>5. IsClassified(A, k, E, sizes)
  <2> HIDE DEF sizes, k, A
  <2> QED  BY <1>3, <1>4 DEF IsClassified
<1> HIDE DEF k, A
<1>6. Cardinality(A) = SumFunctionOnSet(sizes, E)
  <2> HIDE DEF sizes
  <2> QED  BY <1>1, <1>2, <1>5, CountByClasses
<1> QED  BY <1>6 DEF A

(* A batch of finitely many members. *)
LEMMA MembersFinite ==
  ASSUME NEW work, Routed(work)
  PROVE  /\ IsFiniteSet(DOMAIN work)
         /\ \A r \in DOMAIN work : r \in Request /\ KvLocation(r) \in Gpu
         /\ \A a \in Assignments(work) : a.request \in DOMAIN work /\ PairOf(a) \in Gpu \X Gpu
<1>1. IsFiniteSet(DOMAIN work) /\ \A r \in DOMAIN work : r \in Request /\ KvLocation(r) \in Gpu
  BY RequestsAndRanks, FS_Subset DEF Routed
<1>2. \A a \in Assignments(work) : a.request \in DOMAIN work
  BY DEF Assignments
<1>3. \A a \in Assignments(work) : PairOf(a) \in Gpu \X Gpu
  BY RequestsAndRanks, AssignmentsFinite DEF PairOf
<1> QED  BY <1>1, <1>2, <1>3

(* The histogram counts the tokens of each expert. *)
LEMMA ExpertTotals ==
  ASSUME NEW work, Routed(work), NEW e \in Expert
  PROVE  Cardinality({a \in Assignments(work) : a.expert = e}) = Histogram(Profiles(work)).experts[e]
<1> DEFINE A == {a \in Assignments(work) : a.expert = e}
           S == DOMAIN work
           k == [a \in A |-> a.request]
           sizes == [r \in S |-> Profiles(work)[r].experts[e]]
<1>1. Histogram(Profiles(work)).experts[e] = SumFunctionOnSet(sizes, S)
  <2>1. DOMAIN Profiles(work) = S
    BY DEF Profiles
  <2> QED  BY <2>1 DEF Histogram, SumFunction
<1>2. IsFiniteSet(A) /\ IsFiniteSet(S)
  BY AssignmentsFinite, MembersFinite, FS_Subset
<1>3. ASSUME NEW r \in S
      PROVE  sizes[r] = Cardinality({a \in A : k[a] = r})
  <2>1. {a \in A : k[a] = r} = Activated(work, r, {e})
    BY DEF Activated
  <2>2. sizes[r] = Cardinality({p \in DOMAIN work[r] : e \in work[r][p]})
    BY DEF Profiles, MakeProfile, ExpertCounts
  <2>3. Cardinality(Activated(work, r, {e})) = Cardinality({p \in DOMAIN work[r] : e \in work[r][p]})
    BY ActivatedOnce
  <2> HIDE DEF sizes, k, A
  <2> QED  BY <2>1, <2>2, <2>3, Zenon
<1>4. \A a \in A : k[a] \in S
  BY MembersFinite
<1>5. IsClassified(A, k, S, sizes)
  <2> HIDE DEF sizes, k, A
  <2> QED  BY <1>3, <1>4 DEF IsClassified
<1> HIDE DEF k, A, S, sizes
<1>6. Cardinality(A) = SumFunctionOnSet(sizes, S)
  BY <1>2, <1>5, CountByClasses
<1> QED  BY <1>1, <1>6 DEF A

(* What a member sends from one GPU to another. *)
LEMMA PairsOfMember ==
  ASSUME NEW work, Routed(work), NEW r \in DOMAIN work, NEW pair \in Gpu \X Gpu
  PROVE  Profiles(work)[r].pairs[pair]
           = Cardinality({a \in Cross(work) : PairOf(a) = pair /\ a.request = r})
<1> DEFINE E == {e \in Expert : RankOf(e) = pair[2]}
           C == {a \in Cross(work) : PairOf(a) = pair /\ a.request = r}
<1>1. Profiles(work)[r].pairs[pair] =
        IF pair[1] = KvLocation(r) /\ pair[2] # pair[1]
        THEN SumFunctionOnSet(ExpertCounts(work[r]), E) ELSE 0
  BY DEF Profiles, MakeProfile
<1>2. pair = <<pair[1], pair[2]>>
  OBVIOUS
<1>3. CASE pair[1] = KvLocation(r) /\ pair[2] # pair[1]
  <2>1. C = Activated(work, r, E)
    <3>1. \A a \in Assignments(work) : a.expert \in Expert
      BY AssignmentsFinite
    <3> QED  BY <1>2, <1>3, <3>1 DEF Activated, Cross, PairOf
  <2>2. E \in SUBSET Expert
    OBVIOUS
  <2> HIDE DEF E, C
  <2> QED  BY <1>1, <1>3, <2>1, <2>2, ActivatedCount DEF C
<1>4. CASE ~(pair[1] = KvLocation(r) /\ pair[2] # pair[1])
  <2>1. C = {}
    BY <1>4 DEF Cross, PairOf
  <2> HIDE DEF E
  <2> QED  BY <1>1, <1>4, <2>1, FS_EmptySet
<1> QED  BY <1>3, <1>4

(* The histogram counts the tokens that go from each GPU to each other.    *)
LEMMA PairTotals ==
  ASSUME NEW work, Routed(work), NEW pair \in Gpu \X Gpu
  PROVE  Cardinality({a \in Cross(work) : PairOf(a) = pair}) = Histogram(Profiles(work)).pairs[pair]
<1> DEFINE A == {a \in Cross(work) : PairOf(a) = pair}
           S == DOMAIN work
           k == [a \in A |-> a.request]
           sizes == [r \in S |-> Profiles(work)[r].pairs[pair]]
<1>1. Histogram(Profiles(work)).pairs[pair] = SumFunctionOnSet(sizes, S)
  <2>1. DOMAIN Profiles(work) = S
    BY DEF Profiles
  <2> QED  BY <2>1 DEF Histogram, SumFunction
<1>2. IsFiniteSet(A) /\ IsFiniteSet(S)
  BY AssignmentsFinite, MembersFinite, FS_Subset DEF Cross
<1>3. ASSUME NEW r \in S
      PROVE  sizes[r] = Cardinality({a \in A : k[a] = r})
  <2>1. {a \in A : k[a] = r} = {a \in Cross(work) : PairOf(a) = pair /\ a.request = r}
    OBVIOUS
  <2>2. sizes[r] = Profiles(work)[r].pairs[pair]
    OBVIOUS
  <2> HIDE DEF sizes, k, A
  <2> QED  BY <2>1, <2>2, PairsOfMember
<1>4. \A a \in A : k[a] \in S
  BY MembersFinite DEF Cross
<1>5. IsClassified(A, k, S, sizes)
  <2> HIDE DEF sizes, k, A
  <2> QED  BY <1>3, <1>4 DEF IsClassified
<1> HIDE DEF k, A, S, sizes
<1>6. Cardinality(A) = SumFunctionOnSet(sizes, S)
  BY <1>2, <1>5, CountByClasses
<1> QED  BY <1>1, <1>6 DEF A

(* The tokens of each expert and the loads of each pair, as execute_layer  *)
(* keeps them: only what there is any of has an entry.                     *)
TokensOf(work) ==
  [e \in {a.expert : a \in Assignments(work)} |->
     Cardinality({a \in Assignments(work) : a.expert = e})]
LoadOf(work) ==
  [pair \in {PairOf(a) : a \in Cross(work)} |->
     Cardinality({a \in Cross(work) : PairOf(a) = pair})]

(* They agree with the histogram: an entry is a positive count. *)
LEMMA TokensAre ==
  ASSUME NEW work, Routed(work)
  PROVE  /\ \A e \in Expert : Histogram(Profiles(work)).experts[e] \in Nat
         /\ DOMAIN TokensOf(work) = {e \in Expert : Histogram(Profiles(work)).experts[e] > 0}
         /\ \A e \in DOMAIN TokensOf(work) :
              TokensOf(work)[e] = Histogram(Profiles(work)).experts[e]
<1> DEFINE count == Histogram(Profiles(work)).experts
           Of(e) == {a \in Assignments(work) : a.expert = e}
<1> HIDE DEF count
<1>1. \A e \in Expert : count[e] = Cardinality(Of(e))
  BY ExpertTotals DEF count
<1>2. ASSUME NEW e
      PROVE  IsFiniteSet(Of(e)) /\ Cardinality(Of(e)) \in Nat /\ (Cardinality(Of(e)) = 0 <=> Of(e) = {})
  <2>1. IsFiniteSet(Of(e))
    BY AssignmentsFinite, FS_Subset
  <2> QED  BY <2>1, FS_CardinalityType, FS_EmptySet
<1>3. DOMAIN TokensOf(work) = {e \in Expert : Of(e) # {}}
  <2>1. \A a \in Assignments(work) : a.expert \in Expert
    BY AssignmentsFinite
  <2> QED  BY <2>1 DEF TokensOf
<1>4. \A e \in DOMAIN TokensOf(work) : TokensOf(work)[e] = Cardinality(Of(e))
  BY DEF TokensOf
<1> HIDE DEF Of
<1>5. \A e \in Expert : count[e] \in Nat /\ (count[e] > 0 <=> Of(e) # {})
  BY <1>1, <1>2
<1>6. DOMAIN TokensOf(work) = {e \in Expert : count[e] > 0}
  BY <1>3, <1>5
<1> QED  BY <1>1, <1>4, <1>5, <1>6 DEF count

(* So do the loads; nothing goes from a GPU to itself. *)
LEMMA LoadIs ==
  ASSUME NEW work, Routed(work)
  PROVE  /\ \A pair \in Gpu \X Gpu : Histogram(Profiles(work)).pairs[pair] \in Nat
         /\ DOMAIN LoadOf(work) = {pair \in Gpu \X Gpu : Histogram(Profiles(work)).pairs[pair] > 0}
         /\ \A pair \in DOMAIN LoadOf(work) : LoadOf(work)[pair] = Histogram(Profiles(work)).pairs[pair]
         /\ \A g \in Gpu : Histogram(Profiles(work)).pairs[<<g, g>>] = 0
         /\ IsFiniteSet(Cross(work))
         /\ Cardinality(Cross(work)) = SumFunctionOnSet(Histogram(Profiles(work)).pairs, Gpu \X Gpu)
<1> DEFINE count == Histogram(Profiles(work)).pairs
           Of(pair) == {a \in Cross(work) : PairOf(a) = pair}
           k == [a \in Cross(work) |-> PairOf(a)]
<1> HIDE DEF count
<1>1. \A pair \in Gpu \X Gpu : count[pair] = Cardinality(Of(pair))
  BY PairTotals DEF count
<1>2. IsFiniteSet(Cross(work)) /\ \A a \in Cross(work) : PairOf(a) \in Gpu \X Gpu
  BY AssignmentsFinite, MembersFinite, FS_Subset DEF Cross
<1>3. ASSUME NEW pair
      PROVE  IsFiniteSet(Of(pair)) /\ Cardinality(Of(pair)) \in Nat /\ (Cardinality(Of(pair)) = 0 <=> Of(pair) = {})
  <2>1. IsFiniteSet(Of(pair))
    BY <1>2, FS_Subset
  <2> QED  BY <2>1, FS_CardinalityType, FS_EmptySet
<1>4. DOMAIN LoadOf(work) = {pair \in Gpu \X Gpu : Of(pair) # {}}
  BY <1>2 DEF LoadOf
<1>5. \A pair \in DOMAIN LoadOf(work) : LoadOf(work)[pair] = Cardinality(Of(pair))
  BY DEF LoadOf
<1>6. \A g \in Gpu : Of(<<g, g>>) = {}
  BY DEF Cross
<1>7. IsClassified(Cross(work), k, Gpu \X Gpu, count)
  <2>1. \A pair : {a \in Cross(work) : k[a] = pair} = Of(pair)
    OBVIOUS
  <2>2. \A a \in Cross(work) : k[a] \in Gpu \X Gpu
    BY <1>2
  <2> HIDE DEF k, Of
  <2> QED  BY <1>1, <2>1, <2>2 DEF IsClassified
<1>8. Cardinality(Cross(work)) = SumFunctionOnSet(count, Gpu \X Gpu)
  <2>1. IsFiniteSet(Gpu \X Gpu)
    BY RequestsAndRanks, FS_Product
  <2> HIDE DEF k
  <2> QED  BY <1>2, <1>7, <2>1, CountByClasses
<1> HIDE DEF Of
<1>9. \A pair \in Gpu \X Gpu : count[pair] \in Nat /\ (count[pair] > 0 <=> Of(pair) # {})
  BY <1>1, <1>3
<1>10. DOMAIN LoadOf(work) = {pair \in Gpu \X Gpu : count[pair] > 0}
  BY <1>4, <1>9
<1>11. \A g \in Gpu : count[<<g, g>>] = 0
  <2>1. \A g \in Gpu : <<g, g>> \in Gpu \X Gpu
    OBVIOUS
  <2> QED  BY <1>1, <1>3, <1>6, <2>1
<1> QED  BY <1>1, <1>2, <1>4, <1>5, <1>8, <1>9, <1>10, <1>11 DEF count

(* The experts of a GPU compute equally long by either count. *)
LEMMA ComputingSame ==
  ASSUME NEW work, Routed(work), NEW g \in Gpu,
         NEW H, H = Histogram(Profiles(work))
  PROVE  /\ SumFunction([e \in {x \in DOMAIN TokensOf(work) : RankOf(x) = g} |->
                           ExpertElapsed(TokensOf(work)[e])])
              = SumFunction([e \in {x \in Expert : RankOf(x) = g} |->
                               IF H.experts[e] > 0 THEN ExpertElapsed(H.experts[e]) ELSE 0])
         /\ SumFunctionOnSet(TokensOf(work), {x \in DOMAIN TokensOf(work) : RankOf(x) = g})
              = SumFunctionOnSet(H.experts, {x \in Expert : RankOf(x) = g})
<1> DEFINE tokens == TokensOf(work)
           S == {x \in DOMAIN tokens : RankOf(x) = g}
           T == {x \in Expert : RankOf(x) = g}
           f == [e \in S |-> ExpertElapsed(tokens[e])]
           h == [e \in T |-> IF H.experts[e] > 0 THEN ExpertElapsed(H.experts[e]) ELSE 0]
<1>1. /\ \A e \in Expert : H.experts[e] \in Nat
      /\ DOMAIN tokens = {e \in Expert : H.experts[e] > 0}
      /\ \A e \in DOMAIN tokens : tokens[e] = H.experts[e]
  BY TokensAre
<1> HIDE DEF tokens
<1>2. IsFiniteSet(T) /\ S \in SUBSET T
  BY <1>1, RequestsAndRanks, FS_Subset
<1>3. \A e \in S : tokens[e] \in Int /\ tokens[e] = H.experts[e] /\ H.experts[e] > 0 /\ H.experts[e] \in Nat
  BY <1>1
<1>4. \A e \in T \ S : H.experts[e] = 0
  BY <1>1
<1>5. \A e \in S : f[e] \in Int /\ f[e] = h[e]
  <2> SUFFICES ASSUME NEW e \in S PROVE f[e] \in Int /\ f[e] = h[e]
    OBVIOUS
  <2>1. e \in T /\ tokens[e] \in Nat /\ tokens[e] = H.experts[e] /\ H.experts[e] > 0
    BY <1>2, <1>3
  <2>2. ExpertElapsed(tokens[e]) \in Nat
    <3>1. 0 \in Nat
      OBVIOUS
    <3> QED  BY <2>1, <3>1, CostsAreNatural
  <2>3. f[e] = ExpertElapsed(tokens[e])
    OBVIOUS
  <2>4. h[e] = ExpertElapsed(H.experts[e])
    BY <2>1
  <2> HIDE DEF f, h
  <2> QED  BY <2>1, <2>2, <2>3, <2>4
<1>6. \A e \in T \ S : h[e] = 0
  BY <1>4
<1>7. DOMAIN f = S /\ DOMAIN h = T
  OBVIOUS
<1> HIDE DEF S, T, f, h
<1>8. SumFunctionOnSet(f, S) = SumFunctionOnSet(h, T)
  BY <1>2, <1>5, <1>6, SumSkipsZeros
<1>9. SumFunctionOnSet(tokens, S) = SumFunctionOnSet(H.experts, T)
  BY <1>2, <1>3, <1>4, SumSkipsZeros
<1>10. SumFunction(f) = SumFunction(h)
  BY <1>7, <1>8 DEF SumFunction
<1> QED  BY <1>9, <1>10 DEF tokens, S, T, f, h

(* The messages that a number of tokens from GPU to GPU takes one way.     *)
Messages(H) ==
  [pair \in Gpu \X Gpu |->
     IF AggregateMessages THEN IF H.pairs[pair] > 0 THEN 1 ELSE 0 ELSE H.pairs[pair]]

(* All pairs of GPUs in which one takes part, by the first or the second.  *)
Sent(g) == {pair \in Gpu \X Gpu : pair[1] = g}
Received(g) == {pair \in Gpu \X Gpu : pair[2] = g}
Touching(g) == Sent(g) \cup Received(g)

(* However messages are counted, they add up over pairs. *)
LEMMA MessagesAdd ==
  ASSUME NEW H, \A pair \in Gpu \X Gpu : H.pairs[pair] \in Nat, NEW S \in SUBSET (Gpu \X Gpu)
  PROVE  /\ \A pair \in Gpu \X Gpu : Messages(H)[pair] \in Nat
         /\ (IF AggregateMessages THEN Cardinality({pair \in S : H.pairs[pair] > 0})
             ELSE SumFunctionOnSet(H.pairs, S))
              = SumFunctionOnSet(Messages(H), S)
<1>1. IsFiniteSet(S)
  <2>1. IsFiniteSet(Gpu \X Gpu)
    BY RequestsAndRanks, FS_Product
  <2> QED  BY <2>1, FS_Subset
<1>2. \A pair \in Gpu \X Gpu : Messages(H)[pair] =
        IF AggregateMessages THEN IF H.pairs[pair] > 0 THEN 1 ELSE 0 ELSE H.pairs[pair]
  BY DEF Messages
<1>3. CASE AggregateMessages
  <2> DEFINE T == {pair \in S : H.pairs[pair] > 0}
             ones == Messages(H)
  <2>1. T \in SUBSET S /\ \A x \in S : ones[x] = IF x \in T THEN 1 ELSE 0
    BY <1>2, <1>3
  <2> HIDE DEF T, ones
  <2>2. Cardinality(T) = SumFunctionOnSet(ones, S)
    BY <1>1, <2>1, CountIsSum
  <2> QED  BY <1>2, <1>3, <2>2 DEF T, ones
<1>4. CASE ~AggregateMessages
  <2>1. \A x \in S : H.pairs[x] \in Int /\ H.pairs[x] = Messages(H)[x]
    BY <1>2, <1>4
  <2>2. SumFunctionOnSet(H.pairs, S) = SumFunctionOnSet(Messages(H), S)
    BY <1>1, <2>1, SumSame
  <2> QED  BY <1>2, <1>4, <2>2
<1> QED  BY <1>3, <1>4

(* Nothing goes from a GPU to itself, so the two parts do not overlap.     *)
LEMMA TouchingAdds ==
  ASSUME NEW g \in Gpu, NEW f, \A pair \in Gpu \X Gpu : f[pair] \in Nat, f[<<g, g>>] = 0
  PROVE  SumFunctionOnSet(f, Touching(g)) = SumFunctionOnSet(f, Sent(g)) + SumFunctionOnSet(f, Received(g))
<1> DEFINE A == Sent(g)
           B == Received(g) \ {<<g, g>>}
           C == Received(g)
<1>1. Touching(g) = A \cup B /\ A \cap B = {} /\ B \in SUBSET C
  BY DEF Touching, Sent, Received
<1>2. IsFiniteSet(A) /\ IsFiniteSet(B) /\ IsFiniteSet(C)
  <2>1. IsFiniteSet(Gpu \X Gpu)
    BY RequestsAndRanks, FS_Product
  <2> QED  BY <2>1, FS_Subset DEF Sent, Received
<1>3. A \in SUBSET (Gpu \X Gpu) /\ B \in SUBSET (Gpu \X Gpu) /\ C \in SUBSET (Gpu \X Gpu)
      /\ \A x \in C \ B : x = <<g, g>>
  BY DEF Sent, Received
<1> HIDE DEF A, B, C
<1>4. SumFunctionOnSet(f, A \cup B) = SumFunctionOnSet(f, A) + SumFunctionOnSet(f, B)
  <2>1. \A x \in A \cup B : f[x] \in Int
    BY <1>3
  <2> QED  BY <1>1, <1>2, <2>1, SumUnion
<1>5. SumFunctionOnSet(f, B) = SumFunctionOnSet(f, C)
  <2>1. /\ \A x \in B : f[x] \in Int /\ f[x] = f[x]
        /\ \A x \in C \ B : f[x] = 0
    BY <1>3
  <2> QED  BY <1>1, <1>2, <2>1, SumSkipsZeros
<1> QED  BY <1>1, <1>4, <1>5 DEF A, C

(* The communication of several pairs is that of their messages and tokens *)
(* together.                                                               *)
LEMMA CommunicationAdds ==
  ASSUME NEW S, IsFiniteSet(S), NEW m, NEW t, NEW c,
         \A x \in S : m[x] \in Nat /\ t[x] \in Nat /\ c[x] = Communication(2 * m[x], 2 * t[x])
  PROVE  SumFunctionOnSet(c, S) = Communication(2 * SumFunctionOnSet(m, S), 2 * SumFunctionOnSet(t, S))
<1>1. MessageLatency \in Nat /\ TransferTime \in Nat
  BY CostAssumption
<1> DEFINE m2 == [x \in S |-> 2 * m[x]]
           t2 == [x \in S |-> 2 * t[x]]
           ml == [x \in S |-> MessageLatency * m2[x]]
           tl == [x \in S |-> TransferTime * t2[x]]
<1>2. \A x \in S : m[x] \in Nat /\ t[x] \in Nat /\ m2[x] = 2 * m[x] /\ t2[x] = 2 * t[x]
                   /\ m2[x] \in Nat /\ t2[x] \in Nat
  OBVIOUS
<1>3. \A x \in S : ml[x] = MessageLatency * m2[x] /\ tl[x] = TransferTime * t2[x]
  OBVIOUS
<1>4. \A x \in S : c[x] = m2[x] * MessageLatency + t2[x] * TransferTime
  BY DEF Communication
<1> HIDE DEF m2, t2, ml, tl
<1>5. SumFunctionOnSet(m2, S) = 2 * SumFunctionOnSet(m, S) /\ SumFunctionOnSet(t2, S) = 2 * SumFunctionOnSet(t, S)
  BY <1>2, SumScaled
<1>6. /\ SumFunctionOnSet(ml, S) = MessageLatency * SumFunctionOnSet(m2, S)
      /\ SumFunctionOnSet(tl, S) = TransferTime * SumFunctionOnSet(t2, S)
  BY <1>1, <1>2, <1>3, SumScaled
<1>7. \A a, b \in Nat : MessageLatency * a \in Int /\ TransferTime * b \in Int
        /\ a * MessageLatency + b * TransferTime = MessageLatency * a + TransferTime * b
  BY <1>1
<1>8. \A x \in S : ml[x] \in Int /\ tl[x] \in Int /\ c[x] = ml[x] + tl[x]
  BY <1>2, <1>3, <1>4, <1>7
<1>9. SumFunctionOnSet(c, S) = SumFunctionOnSet(ml, S) + SumFunctionOnSet(tl, S)
  BY <1>8, SumPlus
<1>10. SumFunctionOnSet(m2, S) \in Nat /\ SumFunctionOnSet(t2, S) \in Nat
  BY <1>2, SumNatural
<1>11. Communication(SumFunctionOnSet(m2, S), SumFunctionOnSet(t2, S))
         = SumFunctionOnSet(ml, S) + SumFunctionOnSet(tl, S)
  BY <1>6, <1>7, <1>10 DEF Communication
<1> QED  BY <1>5, <1>9, <1>11

(* A GPU communicates equally long by either count. *)
LEMMA TalkingSame ==
  ASSUME NEW work, Routed(work), NEW g \in Gpu,
         NEW H, H = Histogram(Profiles(work))
  PROVE  SumFunction([pair \in {p \in DOMAIN LoadOf(work) : g \in Range(p)} |->
           Communication(IF AggregateMessages THEN 2 ELSE 2 * LoadOf(work)[pair], 2 * LoadOf(work)[pair])])
         = Communication(
             2 * (SumFunctionOnSet(Messages(H), Sent(g)) + SumFunctionOnSet(Messages(H), Received(g))),
             2 * (SumFunctionOnSet(H.pairs, Sent(g)) + SumFunctionOnSet(H.pairs, Received(g))))
<1> DEFINE load == LoadOf(work)
           S == {p \in DOMAIN load : g \in Range(p)}
           T == Touching(g)
           f == [pair \in S |-> Communication(IF AggregateMessages THEN 2 ELSE 2 * load[pair], 2 * load[pair])]
           h == [pair \in T |-> Communication(2 * Messages(H)[pair], 2 * H.pairs[pair])]
<1>1. /\ \A pair \in Gpu \X Gpu : H.pairs[pair] \in Nat
      /\ DOMAIN load = {pair \in Gpu \X Gpu : H.pairs[pair] > 0}
      /\ \A pair \in DOMAIN load : load[pair] = H.pairs[pair]
      /\ H.pairs[<<g, g>>] = 0
  BY LoadIs
<1> HIDE DEF load
<1>2. \A pair \in Gpu \X Gpu : Messages(H)[pair] \in Nat
  <2>1. {} \in SUBSET (Gpu \X Gpu)
    OBVIOUS
  <2> QED  BY <1>1, <2>1, MessagesAdd
<1>3. IsFiniteSet(T) /\ T \in SUBSET (Gpu \X Gpu)
  <2>1. IsFiniteSet(Gpu \X Gpu)
    BY RequestsAndRanks, FS_Product
  <2> QED  BY <2>1, FS_Subset DEF Touching, Sent, Received
<1>4. \A p \in Gpu \X Gpu : Range(p) = {p[1], p[2]}
  BY DEF Range
<1>5. S = {p \in T : H.pairs[p] > 0}
  BY <1>1, <1>4 DEF Touching, Sent, Received
<1>6. ASSUME NEW p \in S
      PROVE  f[p] \in Int /\ f[p] = h[p]
  <2>1. p \in T /\ p \in Gpu \X Gpu /\ H.pairs[p] > 0 /\ load[p] = H.pairs[p] /\ H.pairs[p] \in Nat
    BY <1>1, <1>3, <1>5
  <2>2. 2 * Messages(H)[p] = IF AggregateMessages THEN 2 ELSE 2 * load[p]
    BY <2>1 DEF Messages
  <2>3. f[p] = Communication(2 * Messages(H)[p], 2 * H.pairs[p])
    BY <2>1, <2>2
  <2>4. h[p] = Communication(2 * Messages(H)[p], 2 * H.pairs[p])
    BY <2>1
  <2>5. Communication(2 * Messages(H)[p], 2 * H.pairs[p]) \in Nat
    <3>1. 2 * Messages(H)[p] \in Nat /\ 2 * H.pairs[p] \in Nat
      BY <1>2, <2>1
    <3> QED  BY <3>1, CostsAreNatural
  <2> HIDE DEF f, h
  <2> QED  BY <2>3, <2>4, <2>5
<1>7. ASSUME NEW p \in T \ S
      PROVE  h[p] = 0
  <2>1. p \in T /\ p \in Gpu \X Gpu /\ H.pairs[p] = 0
    BY <1>1, <1>3, <1>5
  <2>2. Messages(H)[p] = 0
    BY <2>1 DEF Messages
  <2>3. Communication(2 * 0, 2 * 0) = 0
    BY CostAssumption DEF Communication
  <2> QED  BY <2>1, <2>2, <2>3
<1>8. DOMAIN f = S
  OBVIOUS
<1>9. \A p \in T : Messages(H)[p] \in Nat /\ H.pairs[p] \in Nat
                   /\ h[p] = Communication(2 * Messages(H)[p], 2 * H.pairs[p])
  BY <1>1, <1>2, <1>3
<1> HIDE DEF f, h, S, T
<1>10. SumFunctionOnSet(f, S) = SumFunctionOnSet(h, T)
  BY <1>3, <1>5, <1>6, <1>7, SumSkipsZeros
<1> DEFINE m == Messages(H)
           t == H.pairs
<1>11. SumFunctionOnSet(h, T) = Communication(2 * SumFunctionOnSet(m, T), 2 * SumFunctionOnSet(t, T))
  <2>1. \A p \in T : m[p] \in Nat /\ t[p] \in Nat /\ h[p] = Communication(2 * m[p], 2 * t[p])
    BY <1>9
  <2> HIDE DEF m, t
  <2> QED  BY <1>3, <2>1, CommunicationAdds
<1>12. SumFunctionOnSet(m, T) = SumFunctionOnSet(m, Sent(g)) + SumFunctionOnSet(m, Received(g))
  <2>1. m[<<g, g>>] = 0
    <3>1. <<g, g>> \in Gpu \X Gpu
      OBVIOUS
    <3> QED  BY <1>1, <3>1 DEF Messages
  <2>2. \A pair \in Gpu \X Gpu : m[pair] \in Nat
    BY <1>2
  <2> HIDE DEF m
  <2> QED  BY <2>1, <2>2, TouchingAdds DEF T
<1>13. SumFunctionOnSet(t, T) = SumFunctionOnSet(t, Sent(g)) + SumFunctionOnSet(t, Received(g))
  <2>1. t[<<g, g>>] = 0 /\ \A pair \in Gpu \X Gpu : t[pair] \in Nat
    BY <1>1
  <2> HIDE DEF t
  <2> QED  BY <2>1, TouchingAdds DEF T
<1>14. SumFunction(f) = SumFunctionOnSet(f, S)
  BY <1>8 DEF SumFunction
<1> QED  BY <1>10, <1>11, <1>12, <1>13, <1>14 DEF f, S, load

(* The schedulers' estimate from a histogram is that of a replay of the    *)
(* layer, in every field, for any batch, routes and costs.                 *)
LEMMA HistogramReplays ==
  ASSUME NEW work, Routed(work)
  PROVE  EstimateHistogram(Histogram(Profiles(work))) = ReferenceEstimate(work)
<1> DEFINE H == Histogram(Profiles(work))
           GG == Gpu \X Gpu
           tokens == TokensOf(work)
           load == LoadOf(work)
           attention == AttentionFor(Max(Range(SourceTokens(work))))
           computing(g) == SumFunction([e \in {x \in DOMAIN tokens : RankOf(x) = g} |-> ExpertElapsed(tokens[e])])
           talking(g) == SumFunction([pair \in {p \in DOMAIN load : g \in Range(p)} |->
             Communication(IF AggregateMessages THEN 2 ELSE 2 * load[pair], 2 * load[pair])])
           messages == 2 * (IF AggregateMessages THEN Cardinality(DOMAIN load) ELSE Cardinality(Cross(work)))
           hosted(g) == {e \in Expert : RankOf(e) = g}
           oneWay(S) == IF AggregateMessages THEN Cardinality({pair \in S : H.pairs[pair] > 0})
                        ELSE SumFunctionOnSet(H.pairs, S)
           layerTime(g) ==
             AttentionFor(Max(Range(H.source)))
               + SumFunction([e \in hosted(g) |-> IF H.experts[e] > 0 THEN ExpertElapsed(H.experts[e]) ELSE 0])
               + Communication(2 * (oneWay(Sent(g)) + oneWay(Received(g))),
                               2 * (SumFunctionOnSet(H.pairs, Sent(g)) + SumFunctionOnSet(H.pairs, Received(g))))
<1>1. ReferenceEstimate(work) =
        [critical    |-> Max({attention + computing(g) + talking(g) : g \in Gpu}),
         rankTokens  |-> [g \in Gpu |-> SumFunctionOnSet(tokens, {x \in DOMAIN tokens : RankOf(x) = g})],
         kvTokens    |-> SourceTokens(work),
         invocations |-> Cardinality(DOMAIN tokens),
         messages    |-> messages,
         signatures  |-> [r \in DOMAIN work |-> ExpertCounts(work[r])]]
  <2> DEFINE layer == ExecuteLayer(work)
             computings == [g \in Gpu |-> computing(g)]
             talkings == [g \in Gpu |-> talking(g)]
  <2>1. /\ layer.critical = Max({attention + computings[g] + talkings[g] : g \in Gpu})
        /\ layer.rankTokens = [g \in Gpu |-> SumFunctionOnSet(tokens, {x \in DOMAIN tokens : RankOf(x) = g})]
        /\ layer.invocations = Cardinality(DOMAIN tokens)
        /\ layer.messages = messages
    BY DEF ExecuteLayer, TokensOf, LoadOf, Cross, PairOf
  <2>2. {attention + computings[g] + talkings[g] : g \in Gpu} = {attention + computing(g) + talking(g) : g \in Gpu}
    <3> HIDE DEF attention, computing, talking
    <3> QED  OBVIOUS
  <2> HIDE DEF layer, attention, computing, talking, computings, talkings, messages, tokens
  <2> QED  BY <2>1, <2>2 DEF ReferenceEstimate, ExpertCounts, layer
<1>2. EstimateHistogram(H) =
        [critical    |-> Max({layerTime(g) : g \in Gpu}),
         rankTokens  |-> [g \in Gpu |-> SumFunctionOnSet(H.experts, hosted(g))],
         kvTokens    |-> H.source,
         invocations |-> Cardinality({e \in Expert : H.experts[e] > 0}),
         messages    |-> 2 * oneWay(GG),
         signatures  |-> H.signatures]
  <2> HIDE DEF H
  <2> QED  BY DEF EstimateHistogram, Sent, Received
<1>3. H.source = SourceTokens(work)
  <2>1. DOMAIN Profiles(work) = DOMAIN work
        /\ \A r \in DOMAIN work : Profiles(work)[r].source = KvLocation(r)
                                  /\ Profiles(work)[r].positions = Len(work[r])
    BY DEF Profiles, MakeProfile
  <2>2. ASSUME NEW g \in Gpu
        PROVE  [r \in {m \in DOMAIN Profiles(work) : Profiles(work)[m].source = g} |-> Profiles(work)[r].positions]
                 = [r \in {m \in DOMAIN work : KvLocation(m) = g} |-> Len(work[r])]
    BY <2>1
  <2>3. H.source = [g \in Gpu |-> SumFunction(
          [r \in {m \in DOMAIN Profiles(work) : Profiles(work)[m].source = g} |-> Profiles(work)[r].positions])]
    BY DEF Histogram
  <2> HIDE DEF H
  <2> QED  BY <2>2, <2>3 DEF SourceTokens
<1>4. H.signatures = [r \in DOMAIN work |-> ExpertCounts(work[r])]
  BY DEF Histogram, Profiles, MakeProfile
<1>5. /\ \A pair \in GG : H.pairs[pair] \in Nat
      /\ DOMAIN load = {pair \in GG : H.pairs[pair] > 0}
      /\ Cardinality(Cross(work)) = SumFunctionOnSet(H.pairs, GG)
  BY LoadIs
<1>6. DOMAIN tokens = {e \in Expert : H.experts[e] > 0}
  BY TokensAre
<1>7. ASSUME NEW g \in Gpu
      PROVE  attention + computing(g) + talking(g) = layerTime(g)
  <2>1. H = Histogram(Profiles(work))
    OBVIOUS
  <2> HIDE DEF H
  <2>2. computing(g) = SumFunction([e \in hosted(g) |-> IF H.experts[e] > 0 THEN ExpertElapsed(H.experts[e]) ELSE 0])
    BY <2>1, ComputingSame
  <2>3. talking(g) = Communication(
          2 * (SumFunctionOnSet(Messages(H), Sent(g)) + SumFunctionOnSet(Messages(H), Received(g))),
          2 * (SumFunctionOnSet(H.pairs, Sent(g)) + SumFunctionOnSet(H.pairs, Received(g))))
    BY <2>1, TalkingSame
  <2>4. Sent(g) \in SUBSET GG /\ Received(g) \in SUBSET GG
    BY DEF Sent, Received
  <2>5. oneWay(Sent(g)) = SumFunctionOnSet(Messages(H), Sent(g))
        /\ oneWay(Received(g)) = SumFunctionOnSet(Messages(H), Received(g))
    BY <1>5, <2>4, MessagesAdd
  <2>6. attention = AttentionFor(Max(Range(H.source)))
    BY <1>3
  <2> HIDE DEF computing, talking, oneWay, attention, hosted
  <2> QED  BY <2>2, <2>3, <2>5, <2>6
<1>8. ASSUME NEW g \in Gpu
      PROVE  SumFunctionOnSet(tokens, {x \in DOMAIN tokens : RankOf(x) = g}) = SumFunctionOnSet(H.experts, hosted(g))
  BY ComputingSame
<1>9. messages = 2 * oneWay(GG)
  <2> HIDE DEF H, load
  <2> QED  BY <1>5
<1> HIDE DEF H, GG, tokens, attention, computing, talking, messages, hosted, oneWay, layerTime
<1>10. {attention + computing(g) + talking(g) : g \in Gpu} = {layerTime(g) : g \in Gpu}
  BY <1>7
<1>11. [g \in Gpu |-> SumFunctionOnSet(tokens, {x \in DOMAIN tokens : RankOf(x) = g})]
         = [g \in Gpu |-> SumFunctionOnSet(H.experts, hosted(g))]
  BY <1>8
<1>12. EstimateHistogram(H) = ReferenceEstimate(work)
  BY <1>1, <1>2, <1>3, <1>4, <1>6, <1>9, <1>10, <1>11
<1> QED  BY <1>12 DEF H

-----------------------------------------------------------------------------
(* One more member. *)

(* A sum without one summand, and that summand. *)
LEMMA SumWithout ==
  ASSUME NEW S, IsFiniteSet(S), NEW r \in S, NEW f, NEW g, DOMAIN g = S, DOMAIN f = S \ {r},
         \A s \in S : g[s] \in Nat, \A s \in S \ {r} : f[s] = g[s]
  PROVE  SumFunction(f) + g[r] = SumFunction(g)
<1>1. IsFiniteSet(S \ {r}) /\ \A s \in S : g[s] \in Int
  BY FS_Subset
<1>2. SumFunctionOnSet(g, S) = g[r] + SumFunctionOnSet(g, S \ {r})
  BY <1>1, SumTakesOut
<1>3. \A s \in S \ {r} : f[s] \in Int /\ f[s] = g[s]
  BY <1>1
<1>4. SumFunctionOnSet(f, S \ {r}) = SumFunctionOnSet(g, S \ {r})
  BY <1>1, <1>3, SumSame
<1>5. SumFunctionOnSet(f, S \ {r}) \in Int
  BY <1>1, <1>3, SumTakesOut
<1> QED  BY <1>1, <1>2, <1>4, <1>5 DEF SumFunction

(* The profile of one more member makes the histogram of the larger batch. *)
LEMMA ExtendAdds ==
  ASSUME NEW work, Routed(work), NEW r \in DOMAIN work, NEW others,
         others = [s \in DOMAIN work \ {r} |-> Profiles(work)[s]]
  PROVE  Extend(Histogram(others), r, Profiles(work)[r]) = Histogram(Profiles(work))
<1> DEFINE S == DOMAIN work
           P == Profiles(work)
           H == Histogram(others)
           E == Extend(H, r, P[r])
<1>1. /\ DOMAIN P = S /\ DOMAIN others = S \ {r}
      /\ \A s \in S \ {r} : others[s] = P[s]
  BY DEF Profiles
<1>2. \A s \in S : P[s] = MakeProfile(s, ExpertCounts(work[s]), Len(work[s]))
  BY DEF Profiles
<1>3. IsFiniteSet(S) /\ \A s \in S : KvLocation(s) \in Gpu
  BY MembersFinite
<1>4. ASSUME NEW s \in S
      PROVE  /\ P[s].source \in Gpu /\ P[s].positions \in Nat
             /\ \A e \in Expert : P[s].experts[e] \in Nat
             /\ \A pair \in Gpu \X Gpu : P[s].pairs[pair] \in Nat
  <2>1. P[s].source = KvLocation(s) /\ P[s].positions = Len(work[s]) /\ P[s].experts = ExpertCounts(work[s])
    <3>1. P[s] = MakeProfile(s, ExpertCounts(work[s]), Len(work[s]))
      BY <1>2
    <3> HIDE DEF P
    <3> QED  BY <3>1 DEF MakeProfile
  <2>2. Len(work[s]) \in Nat
    BY DEF Routed
  <2>3. ASSUME NEW e \in Expert
        PROVE  ExpertCounts(work[s])[e] \in Nat
    <3>1. DOMAIN work[s] = 1 .. Len(work[s])
      BY DEF Routed
    <3>2. IsFiniteSet({p \in DOMAIN work[s] : e \in work[s][p]})
      <4>1. IsFiniteSet(1 .. Len(work[s]))
        BY <2>2, FS_Interval
      <4> QED  BY <3>1, <4>1, FS_Subset
    <3> QED  BY <3>2, FS_CardinalityType DEF ExpertCounts
  <2>4. ASSUME NEW pair \in Gpu \X Gpu
        PROVE  P[s].pairs[pair] \in Nat
    <3>1. P[s].pairs[pair] = Cardinality({a \in Cross(work) : PairOf(a) = pair /\ a.request = s})
      BY PairsOfMember
    <3>2. IsFiniteSet({a \in Cross(work) : PairOf(a) = pair /\ a.request = s})
      BY LoadIs, FS_Subset
    <3> QED  BY <3>1, <3>2, FS_CardinalityType
  <2> QED  BY <1>3, <2>1, <2>2, <2>3, <2>4
<1> HIDE DEF P
<1>5. ASSUME NEW e \in Expert
      PROVE  E.experts[e] = Histogram(P).experts[e]
  <2> DEFINE f == [s \in S \ {r} |-> others[s].experts[e]]
             g == [s \in S |-> P[s].experts[e]]
  <2>1. DOMAIN f = S \ {r} /\ DOMAIN g = S /\ (\A s \in S : g[s] \in Nat) /\ (\A s \in S \ {r} : f[s] = g[s])
    BY <1>1, <1>4
  <2>2. E.experts[e] = SumFunction(f) + g[r]
    BY <1>1 DEF Extend, Histogram
  <2>3. Histogram(P).experts[e] = SumFunction(g)
    BY <1>1 DEF Histogram
  <2> HIDE DEF f, g, E, S
  <2>4. SumFunction(f) + g[r] = SumFunction(g)
    BY <1>3, <2>1, SumWithout DEF S
  <2> QED  BY <2>2, <2>3, <2>4
<1>6. ASSUME NEW pair \in Gpu \X Gpu
      PROVE  E.pairs[pair] = Histogram(P).pairs[pair]
  <2> DEFINE f == [s \in S \ {r} |-> others[s].pairs[pair]]
             g == [s \in S |-> P[s].pairs[pair]]
  <2>1. DOMAIN f = S \ {r} /\ DOMAIN g = S /\ (\A s \in S : g[s] \in Nat) /\ (\A s \in S \ {r} : f[s] = g[s])
    BY <1>1, <1>4
  <2>2. E.pairs[pair] = SumFunction(f) + g[r]
    BY <1>1 DEF Extend, Histogram
  <2>3. Histogram(P).pairs[pair] = SumFunction(g)
    BY <1>1 DEF Histogram
  <2> HIDE DEF f, g, E, S
  <2>4. SumFunction(f) + g[r] = SumFunction(g)
    BY <1>3, <2>1, SumWithout DEF S
  <2> QED  BY <2>2, <2>3, <2>4
<1>7. ASSUME NEW g \in Gpu
      PROVE  E.source[g] = Histogram(P).source[g]
  <2> DEFINE A == {s \in S : P[s].source = g}
             B == {s \in S \ {r} : others[s].source = g}
             f == [s \in B |-> others[s].positions]
             h == [s \in A |-> P[s].positions]
  <2>1. Histogram(P).source[g] = SumFunction(h)
    BY <1>1 DEF Histogram
  <2>2. H.source[g] = SumFunction(f)
    BY <1>1 DEF Histogram
  <2>3. E.source[g] = IF P[r].source = g THEN H.source[g] + P[r].positions ELSE H.source[g]
    <3>1. DOMAIN H.source = Gpu
      BY DEF Histogram
    <3> HIDE DEF H
    <3>2. E.source = [H.source EXCEPT ![P[r].source] = @ + P[r].positions]
      BY DEF Extend
    <3> HIDE DEF E
    <3> QED  BY <3>1, <3>2
  <2>4. B = A \ {r} /\ IsFiniteSet(A)
    BY <1>1, <1>3, FS_Subset
  <2>5. DOMAIN f = B /\ DOMAIN h = A /\ (\A s \in A : h[s] \in Nat) /\ \A s \in B : f[s] = h[s]
    BY <1>1, <1>4, <2>4
  <2>6. CASE P[r].source = g
    <3>1. r \in A /\ h[r] = P[r].positions
      BY <2>6
    <3> HIDE DEF A, B, f, h, E, H
    <3>2. SumFunction(f) + h[r] = SumFunction(h)
      <4>1. DOMAIN f = A \ {r} /\ \A s \in A \ {r} : f[s] = h[s]
        BY <2>4, <2>5
      <4>2. IsFiniteSet(A) /\ r \in A /\ DOMAIN h = A /\ \A s \in A : h[s] \in Nat
        BY <2>4, <2>5, <3>1
      <4> QED  BY <4>1, <4>2, SumWithout
    <3> QED  BY <2>1, <2>2, <2>3, <2>6, <3>1, <3>2
  <2>7. CASE P[r].source # g
    <3>1. A = B
      BY <2>4, <2>7
    <3>2. f = h
      BY <1>1, <3>1
    <3> HIDE DEF A, B, f, h, E, H
    <3> QED  BY <2>1, <2>2, <2>3, <2>7, <3>2
  <2> QED  BY <2>6, <2>7
<1>8. E.signatures = Histogram(P).signatures
  <2>1. H.signatures = [s \in S \ {r} |-> others[s].experts] /\ Histogram(P).signatures = [s \in S |-> P[s].experts]
    BY <1>1 DEF Histogram
  <2>2. E.signatures = [s \in (S \ {r}) \cup {r} |-> IF s = r THEN P[r].experts ELSE H.signatures[s]]
    BY <2>1 DEF Extend
  <2>3. (S \ {r}) \cup {r} = S
    OBVIOUS
  <2>4. \A s \in S : s # r => s \in S \ {r} /\ others[s] = P[s]
    BY <1>1
  <2> HIDE DEF H, E, S
  <2>5. \A s \in S : (IF s = r THEN P[r].experts ELSE H.signatures[s]) = P[s].experts
    BY <2>1, <2>4
  <2> QED  BY <2>1, <2>2, <2>3, <2>5
<1>9. DOMAIN E.source = Gpu /\ DOMAIN Histogram(P).source = Gpu
  BY DEF Extend, Histogram
<1>10. E.experts = Histogram(P).experts /\ E.pairs = Histogram(P).pairs /\ E.source = Histogram(P).source
  <2>1. /\ E.experts = [e \in Expert |-> E.experts[e]]
        /\ Histogram(P).experts = [e \in Expert |-> Histogram(P).experts[e]]
    BY DEF Extend, Histogram
  <2>2. /\ E.pairs = [pair \in Gpu \X Gpu |-> E.pairs[pair]]
        /\ Histogram(P).pairs = [pair \in Gpu \X Gpu |-> Histogram(P).pairs[pair]]
    BY DEF Extend, Histogram
  <2>3. /\ E.source = [g \in Gpu |-> E.source[g]]
        /\ Histogram(P).source = [g \in Gpu |-> Histogram(P).source[g]]
    BY DEF Extend, Histogram
  <2> HIDE DEF E
  <2> QED  BY <1>5, <1>6, <1>7, <2>1, <2>2, <2>3
<1>11. /\ E = [experts |-> E.experts, pairs |-> E.pairs, source |-> E.source, signatures |-> E.signatures]
       /\ Histogram(P) = [experts |-> Histogram(P).experts, pairs |-> Histogram(P).pairs,
                          source |-> Histogram(P).source, signatures |-> Histogram(P).signatures]
  BY DEF Extend, Histogram
<1>12. E = Histogram(P)
  <2> HIDE DEF E
  <2> QED  BY <1>8, <1>10, <1>11
<1> QED  BY <1>12 DEF P

(* The profile of a request counts the routes its router knows, also where *)
(* the prior stands for every position.                                    *)
LEMMA ProfileCounts ==
  ASSUME NEW known, NEW table, NEW r, NEW i \in Nat
  PROVE  Profile(known, table, r, i) = MakeProfile(r, ExpertCounts(KnownRoute(known, table, r, i)), WidthAt(i))
<1> DEFINE route == KnownRoute(known, table, r, i)
<1>1. CASE known = "previous" /\ i = 0
  <2>1. route = [p \in 1 .. WidthAt(i) |-> PriorRoute[r]]
    BY <1>1 DEF KnownRoute
  <2>2. WidthAt(i) \in Nat
    BY WidthPositive
  <2>3. IsFiniteSet(1 .. WidthAt(i)) /\ Cardinality(1 .. WidthAt(i)) = WidthAt(i)
    BY <2>2, FS_Interval
  <2>4. ASSUME NEW e \in Expert
        PROVE  Cardinality({p \in DOMAIN route : e \in route[p]}) = IF e \in PriorRoute[r] THEN WidthAt(i) ELSE 0
    <3>1. {p \in DOMAIN route : e \in route[p]} = IF e \in PriorRoute[r] THEN 1 .. WidthAt(i) ELSE {}
      BY <2>1
    <3> QED  BY <2>3, <3>1, FS_EmptySet
  <2>5. ExpertCounts(route) = [e \in Expert |-> IF e \in PriorRoute[r] THEN WidthAt(i) ELSE 0]
    BY <2>4 DEF ExpertCounts
  <2> HIDE DEF route
  <2> QED  BY <1>1, <2>5 DEF Profile, route
<1>2. CASE ~(known = "previous" /\ i = 0)
  BY <1>2 DEF Profile
<1> QED  BY <1>1, <1>2

(* The known routes of a batch are routes, as wide as the iteration.       *)
LEMMA KnownRoutes ==
  ASSUME routes \in RouteTables, NEW p \in Progresses, NEW r \in Request, p[r] < TotalSteps(r),
         NEW known \in RouteKnowledge
  PROVE  /\ KnownRoute(known, routes[r], r, p[r]) \in Seq(SUBSET Expert)
         /\ Len(KnownRoute(known, routes[r], r, p[r])) = WidthAt(p[r])
         /\ WidthAt(p[r]) <= BlockSize
<1> DEFINE i == p[r]
           table == routes[r]
           route == KnownRoute(known, table, r, i)
<1>1. /\ table \in Seq(Seq(SUBSET Expert)) /\ TotalSteps(r) <= Len(table)
      /\ \A j \in 1 .. TotalSteps(r) : Len(table[j]) = WidthAt(j - 1)
  BY OracleAssumption
<1>2. i \in Nat /\ i < TotalSteps(r) /\ TotalSteps(r) \in Nat
  BY StepsAreNatural DEF Progresses
<1>3. WidthAt(i) <= BlockSize
  <2>1. (i % Len(Schedule)) + 1 \in 1 .. Len(Schedule)
    BY <1>2, WorkloadAssumption
  <2>2. Schedule[(i % Len(Schedule)) + 1] \in 1 .. BlockSize
    BY <2>1, WorkloadAssumption
  <2> QED  BY <2>2, WorkloadAssumption DEF WidthAt
<1> HIDE DEF table, i
<1>4. ASSUME NEW j \in 1 .. TotalSteps(r)
      PROVE  table[j] \in Seq(SUBSET Expert) /\ Len(table[j]) = WidthAt(j - 1)
  <2>1. j \in 1 .. Len(table)
    BY <1>1, <1>2
  <2> QED  BY <1>1, <2>1
<1>5. WidthAt(i) \in Nat \ {0}
  BY <1>2, WidthPositive
<1>6. ASSUME NEW q \in 1 .. WidthAt(i)
      PROVE  route[q] \in SUBSET Expert
  <2>1. CASE known # "previous"
    <3>1. i + 1 \in 1 .. TotalSteps(r) /\ (i + 1) - 1 = i
      BY <1>2
    <3>2. table[i + 1] \in Seq(SUBSET Expert) /\ Len(table[i + 1]) = WidthAt(i)
      BY <1>4, <3>1
    <3>3. route[q] = table[i + 1][q]
      BY <2>1 DEF KnownRoute
    <3> QED  BY <1>5, <3>2, <3>3
  <2>2. CASE known = "previous" /\ i = 0
    <3>1. route[q] = PriorRoute[r]
      BY <2>2 DEF KnownRoute
    <3> QED  BY <3>1, CostAssumption DEF Expert
  <2>3. CASE known = "previous" /\ i # 0
    <3> DEFINE before == WidthAt(i - 1)
               n == ((q - 1) % before) + 1
    <3>1. route[q] = table[i][n]
      BY <2>3 DEF KnownRoute, PreviousWidth
    <3>2. i \in 1 .. TotalSteps(r) /\ i - 1 \in Nat
      BY <1>2, <2>3
    <3>3. table[i] \in Seq(SUBSET Expert) /\ Len(table[i]) = before
      BY <1>4, <3>2
    <3>4. before \in Nat \ {0}
      BY <3>2, WidthPositive
    <3>5. n \in 1 .. before
      <4> HIDE DEF before
      <4> QED  BY <1>5, <3>4
    <3> HIDE DEF n, before
    <3> QED  BY <3>1, <3>3, <3>4, <3>5
  <2> QED  BY <2>1, <2>2, <2>3
<1>7. route = [q \in 1 .. WidthAt(i) |-> route[q]]
  BY DEF KnownRoute
<1> HIDE DEF route
<1>8. route \in Seq(SUBSET Expert) /\ Len(route) = WidthAt(i)
  <2> DEFINE w == WidthAt(i)
  <2>1. route \in [1 .. w -> SUBSET Expert] /\ w \in Nat
    BY <1>5, <1>6, <1>7
  <2> HIDE DEF w
  <2>2. route \in Seq(SUBSET Expert) /\ Len(route) = w
    BY <2>1
  <2> QED  BY <2>2 DEF w
<1> QED  BY <1>3, <1>8 DEF route, table, i

(* "Histogram-based estimator equivalent to full modeled-layer replay"     *)
(* (src/refineserve/schedulers/cost_aware.py:196): for every workload, all *)
(* routes and costs, wherever batching has taken the requests, every batch *)
(* is estimated from its members' profiles as a replay would cost it,      *)
(* adding members one by one makes the same histogram, and the profile     *)
(* kept from executed routes is the one predicted from them.               *)
THEOREM EstimatesAreExact == Spec => []EstimateExact
<1> DEFINE Placed == routes \in RouteTables /\ at \in Progresses
<1>1. Init => Placed
  BY StartAndGoal DEF Init
<1>2. Placed /\ [Next]_vars => Placed'
  <2> SUFFICES ASSUME Placed, [Next]_vars PROVE Placed'
    OBVIOUS
  <2>1. CASE PopStale \/ PopOverBudget \/ PopGoal \/ Expand \/ Finished \/ UNCHANGED vars
    <3>1. UNCHANGED <<routes, at>>
      BY <2>1 DEF PopStale, PopOverBudget, PopGoal, Expand, Finished, vars, replayVars
    <3> QED  BY <3>1
  <2>2. CASE ReplayBatch
    <3>1. PICK batch \in LegalActions(at, NextDecisionTime(at, clock)) : at' = After(at, batch)
      BY <2>2 DEF ReplayBatch
    <3>2. routes' = routes
      BY <2>2 DEF ReplayBatch
    <3>3. at' \in Progresses
      BY <3>1, BatchesAdvance
    <3> QED  BY <3>2, <3>3
  <2> QED  BY <2>1, <2>2 DEF Next
<1>3. Placed => EstimateExact
  <2> SUFFICES ASSUME Placed PROVE EstimateExact
    OBVIOUS
  <2>1. ASSUME NEW known \in RouteKnowledge,
               NEW batch \in LegalActions(at, NextDecisionTime(at, clock)),
               NEW profiles, profiles = [r \in batch |-> Profile(known, routes[r], r, at[r])],
               NEW work, work = [r \in batch |-> KnownRoute(known, routes[r], r, at[r])]
        PROVE  /\ EstimateHistogram(Histogram(profiles)) = ReferenceEstimate(work)
               /\ \A r \in batch :
                    Extend(Histogram([s \in batch \ {r} |-> profiles[s]]), r, profiles[r]) = Histogram(profiles)
    <3>1. batch \in SUBSET Request /\ \A r \in batch : at[r] < TotalSteps(r) /\ at[r] \in Nat
      BY BatchesAdvance DEF Progresses
    <3>2. ASSUME NEW r \in batch
          PROVE  work[r] \in Seq(SUBSET Expert) /\ Len(work[r]) = WidthAt(at[r]) /\ WidthAt(at[r]) <= BlockSize
      <4>1. work[r] = KnownRoute(known, routes[r], r, at[r])
        BY <2>1
      <4> QED  BY <3>1, <4>1, KnownRoutes
    <3>3. DOMAIN work = batch /\ Routed(work)
      BY <2>1, <3>1, <3>2 DEF Routed
    <3>4. ASSUME NEW r \in batch
          PROVE  profiles[r] = MakeProfile(r, ExpertCounts(work[r]), Len(work[r]))
      <4>1. profiles[r] = Profile(known, routes[r], r, at[r]) /\ work[r] = KnownRoute(known, routes[r], r, at[r])
        BY <2>1
      <4> QED  BY <3>1, <3>2, <4>1, ProfileCounts
    <3>5. profiles = Profiles(work)
      <4>1. profiles = [r \in batch |-> profiles[r]]
        BY <2>1
      <4> QED  BY <3>3, <3>4, <4>1 DEF Profiles
    <3>6. EstimateHistogram(Histogram(profiles)) = ReferenceEstimate(work)
      BY <3>3, <3>5, HistogramReplays
    <3>7. ASSUME NEW r \in batch
          PROVE  Extend(Histogram([s \in batch \ {r} |-> profiles[s]]), r, profiles[r]) = Histogram(profiles)
      <4>1. [s \in batch \ {r} |-> profiles[s]] = [s \in DOMAIN work \ {r} |-> Profiles(work)[s]]
        BY <3>3, <3>5
      <4> QED  BY <3>3, <3>5, <4>1, ExtendAdds
    <3> QED  BY <3>6, <3>7
  <2>2. ASSUME NEW r \in Request, at[r] < TotalSteps(r), at[r] > 0
        PROVE  ObservedProfile(routes[r][at[r]], r, at[r]) = Profile("previous", routes[r], r, at[r])
    <3> DEFINE i == at[r]
               table == routes[r]
    <3>1. /\ table \in Seq(Seq(SUBSET Expert)) /\ TotalSteps(r) <= Len(table)
          /\ \A j \in 1 .. TotalSteps(r) : Len(table[j]) = WidthAt(j - 1)
      BY OracleAssumption
    <3>2. i \in Nat \ {0} /\ i \in 1 .. TotalSteps(r) /\ i \in 1 .. Len(table)
      <4>1. i \in Nat /\ TotalSteps(r) \in Nat
        BY StepsAreNatural DEF Progresses
      <4> HIDE DEF i, table
      <4> QED  BY <2>2, <3>1, <4>1 DEF i
    <3> HIDE DEF i, table
    <3>3. table[i] \in Seq(SUBSET Expert) /\ Len(table[i]) = WidthAt(i - 1)
      BY <3>1, <3>2
    <3>4. ObservedProfile(table[i], r, i) = Profile("previous", table, r, i)
      BY <3>2, <3>3, ObservationIsHistory
    <3> QED  BY <3>4 DEF i, table
  <2>3. \A r \in Open(at) : r \in Request /\ at[r] < TotalSteps(r)
    BY DEF Open
  <2> QED  BY <2>1, <2>2, <2>3 DEF EstimateExact
<1> QED  BY <1>1, <1>2, <1>3, PTL DEF Spec
=============================================================================
