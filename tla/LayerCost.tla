------------------------------ MODULE LayerCost -----------------------------
(***************************************************************************)
(* What a batch costs: the replay of one layer by LayerCostModel           *)
(* (src/refineserve/cost.py, placement.py), and the histograms from which  *)
(* the schedulers compute the same quantities without replaying            *)
(* (BatchCostEstimator, src/refineserve/schedulers/cost_aware.py).         *)
(*                                                                         *)
(* `work' gives, for each member of the batch, the experts each of its     *)
(* positions activates.  One layer, no calibration curves and a congestion *)
(* factor of zero; times are whole units.                                  *)
(***************************************************************************)
EXTENDS WorkloadConfig, Functions, FiniteSetsExt

CONSTANTS
  NumGpus,             \* model.num_gpus
  NumExperts,          \* model.num_experts
  AttentionTime,       \* compute.attention_base_ms
  PositionTime,        \* compute.attention_token_ms
  ExpertLaunch,        \* compute.expert_launch_ms
  TokenTime,           \* 1 / compute.expert_peak_tokens_per_ms
  SaturationTokens,    \* compute.expert_saturation_tokens
  WeightReadTime,      \* expert_weight_bytes over the memory bandwidth
  MessageLatency,      \* network.fixed_message_latency_ms
  TransferTime,        \* bytes of an activation over the network bandwidth
  AggregateMessages,   \* network.aggregate_messages
  UseRankCriticalPath, \* network.use_rank_critical_path
  PriorRoute           \* router.prior_route: the experts assumed without history

ASSUME CostAssumption ==
  /\ NumGpus \in Nat \ {0}
  /\ NumExperts \in Nat \ {0}
  /\ NumExperts % NumGpus = 0
  /\ {AttentionTime, PositionTime, ExpertLaunch, TokenTime,
      WeightReadTime, MessageLatency, TransferTime} \subseteq Nat
  /\ SaturationTokens \in Nat \ {0}
  /\ AggregateMessages \in BOOLEAN
  /\ UseRankCriticalPath \in BOOLEAN
  /\ PriorRoute \in [Request -> SUBSET (0 .. NumExperts - 1)]

Gpu    == 0 .. NumGpus - 1
Expert == 0 .. NumExperts - 1

(* ExpertPlacement.round_robin, and where a request's cache lives. *)
RankOf(e)     == e % NumGpus
KvLocation(r) == r % NumGpus

AttentionFor(tokens) == AttentionTime + PositionTime * tokens

(* n tokens at the utilization n / SaturationTokens, kept in [1/20, 1]. *)
ExpertElapsed(n) ==
  ExpertLaunch + Max({TokenTime * Max({n, Min({SaturationTokens, 20 * n})}), WeightReadTime})

Communication(messages, activations) ==
  messages * MessageLatency + activations * TransferTime

SourceTokens(work) ==
  [g \in Gpu |->
     SumFunction([r \in {m \in DOMAIN work : KvLocation(m) = g} |-> Len(work[r])])]

Assignments(work) ==
  UNION {{[request |-> at[1], position |-> at[2], expert |-> e] : e \in work[at[1]][at[2]]} :
           at \in UNION {{r} \X DOMAIN work[r] : r \in DOMAIN work}}

(* execute_layer *)
ExecuteLayer(work) ==
  LET assignments == Assignments(work)
      attention == AttentionFor(Max(Range(SourceTokens(work))))
      tokens == [e \in {a.expert : a \in assignments} |->
                   Cardinality({a \in assignments : a.expert = e})]
      hosted(g) == {e \in DOMAIN tokens : RankOf(e) = g}
      computing == [g \in Gpu |-> SumFunction([e \in hosted(g) |-> ExpertElapsed(tokens[e])])]
      pairOf(a) == <<KvLocation(a.request), RankOf(a.expert)>>
      cross == {a \in assignments : pairOf(a)[1] # pairOf(a)[2]}
      load == [pair \in {pairOf(a) : a \in cross} |->
                 Cardinality({a \in cross : pairOf(a) = pair})]
      messages == 2 * (IF AggregateMessages THEN Cardinality(DOMAIN load) ELSE Cardinality(cross))
      talking == [g \in Gpu |->
        SumFunction([pair \in {p \in DOMAIN load : g \in Range(p)} |->
          Communication(IF AggregateMessages THEN 2 ELSE 2 * load[pair], 2 * load[pair])])]
      critical == Max({attention + computing[g] + talking[g] : g \in Gpu})
  IN  [elapsed     |-> IF UseRankCriticalPath THEN critical
                       ELSE attention + Communication(messages, 2 * Cardinality(cross))
                              + Max(Range(computing)),
       critical    |-> critical,
       rankTokens  |-> [g \in Gpu |-> SumFunctionOnSet(tokens, hosted(g))],
       invocations |-> Cardinality(DOMAIN tokens),
       messages    |-> messages]

-----------------------------------------------------------------------------
(* The routes a scheduler may know: those of the iteration it is about to
   schedule, or the ones the request took before (_PredictedRouter).  `table'
   holds the request's routes, table[i + 1] those of iteration i. *)
RouteKnowledge == {"previous", "routing_oracle"}

PreviousWidth(i) == IF i = 0 THEN WidthAt(0) ELSE WidthAt(i - 1)

KnownRoute(known, table, r, i) ==
  [p \in 1 .. WidthAt(i) |->
     CASE known # "previous"              -> table[i + 1][p]
       [] known = "previous" /\ i = 0     -> PriorRoute[r]
       [] known = "previous" /\ i # 0     -> table[i][((p - 1) % PreviousWidth(i)) + 1]]

(* ReferenceBatchCostEstimator.estimate: replay the layer on those routes.
   Every score of a batch is a function of these fields. *)
ReferenceEstimate(work) ==
  LET layer == ExecuteLayer(work)
  IN  [critical    |-> layer.critical,
       rankTokens  |-> layer.rankTokens,
       kvTokens    |-> SourceTokens(work),
       invocations |-> layer.invocations,
       messages    |-> layer.messages,
       signatures  |-> [r \in DOMAIN work |-> [e \in Expert |->
                          Cardinality({p \in DOMAIN work[r] : e \in work[r][p]})]]]

(* MUTANT of MakeProfile: tokens for the request's own GPU stay in the pairs. *)
MakeProfileOwnRank(r, experts, positions) ==
  [experts   |-> experts,
   pairs     |-> [pair \in Gpu \X Gpu |->
                    IF pair[1] = KvLocation(r)
                    THEN SumFunctionOnSet(experts, {e \in Expert : RankOf(e) = pair[2]}) ELSE 0],
   positions |-> positions,
   source    |-> KvLocation(r)]

(* _make_profile: what leaves the request's GPU, by destination. *)
MakeProfile(r, experts, positions) ==
  [experts   |-> experts,
   pairs     |-> [pair \in Gpu \X Gpu |->
                    IF pair[1] = KvLocation(r) /\ pair[2] # pair[1]
                    THEN SumFunctionOnSet(experts, {e \in Expert : RankOf(e) = pair[2]}) ELSE 0],
   positions |-> positions,
   source    |-> KvLocation(r)]

ExpertCounts(route) ==
  [e \in Expert |-> Cardinality({p \in DOMAIN route : e \in route[p]})]

(* _profile: the prior stands for every position of the first iteration. *)
Profile(known, table, r, i) ==
  MakeProfile(r,
    IF known = "previous" /\ i = 0
    THEN [e \in Expert |-> IF e \in PriorRoute[r] THEN WidthAt(i) ELSE 0]
    ELSE ExpertCounts(KnownRoute(known, table, r, i)),
    WidthAt(i))

(* observe_previous_route: the profile of iteration i from the routes the batch
   just executed, cut to the next width or wrapped around to fill it. *)
ObservedProfile(observed, r, i) ==
  MakeProfile(r,
    ExpertCounts(IF WidthAt(i) <= Len(observed)
                 THEN SubSeq(observed, 1, WidthAt(i))
                 ELSE [p \in 1 .. WidthAt(i) |-> observed[((p - 1) % Len(observed)) + 1]]),
    WidthAt(i))

(* _histogram: the sum of the members' profiles. *)
Histogram(profiles) ==
  LET S == DOMAIN profiles
  IN  [experts    |-> [e \in Expert |-> SumFunction([r \in S |-> profiles[r].experts[e]])],
       pairs      |-> [pair \in Gpu \X Gpu |-> SumFunction([r \in S |-> profiles[r].pairs[pair]])],
       source     |-> [g \in Gpu |-> SumFunction([r \in {m \in S : profiles[m].source = g} |->
                                                  profiles[r].positions])],
       signatures |-> [r \in S |-> profiles[r].experts]]

(* extend: one more member. *)
Extend(histogram, r, profile) ==
  [experts    |-> [e \in Expert |-> histogram.experts[e] + profile.experts[e]],
   pairs      |-> [pair \in Gpu \X Gpu |-> histogram.pairs[pair] + profile.pairs[pair]],
   source     |-> [histogram.source EXCEPT ![profile.source] = @ + profile.positions],
   signatures |-> [s \in DOMAIN histogram.signatures \cup {r} |->
                     IF s = r THEN profile.experts ELSE histogram.signatures[s]]]

(* _estimate_histogram: all GPUs at once, from counts alone. *)
EstimateHistogram(histogram) ==
  LET elapsed(e) == IF histogram.experts[e] > 0 THEN ExpertElapsed(histogram.experts[e]) ELSE 0
      hosted(g) == {e \in Expert : RankOf(e) = g}
      pairs == histogram.pairs
      sent(g) == {pair \in Gpu \X Gpu : pair[1] = g}
      received(g) == {pair \in Gpu \X Gpu : pair[2] = g}
      oneWay(S) == IF AggregateMessages THEN Cardinality({pair \in S : pairs[pair] > 0})
                   ELSE SumFunctionOnSet(pairs, S)
      endpointTokens(g) == SumFunctionOnSet(pairs, sent(g)) + SumFunctionOnSet(pairs, received(g))
      layerTime(g) ==
        AttentionFor(Max(Range(histogram.source))) + SumFunction([e \in hosted(g) |-> elapsed(e)])
          + Communication(2 * (oneWay(sent(g)) + oneWay(received(g))), 2 * endpointTokens(g))
  IN  [critical    |-> Max({layerTime(g) : g \in Gpu}),
       rankTokens  |-> [g \in Gpu |-> SumFunctionOnSet(histogram.experts, hosted(g))],
       kvTokens    |-> histogram.source,
       invocations |-> Cardinality({e \in Expert : histogram.experts[e] > 0}),
       messages    |-> 2 * oneWay(Gpu \X Gpu),
       signatures  |-> histogram.signatures]
=============================================================================
