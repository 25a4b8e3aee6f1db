---------------------------- MODULE TokenExchange ----------------------------
(***************************************************************************)
(* How one batch and layer of the expert-parallel benchmark moves tokens   *)
(* between ranks (hardware/benchmark_contract_ep4.py and                   *)
(* split_vectors_and_local_expert_counts): every token is sent once for    *)
(* each of its top_k experts to the rank that holds the expert, and what   *)
(* comes back is put where it started.  No origin is transmitted: the way  *)
(* back rests on the order in which assignments are packed.                *)
(*                                                                         *)
(* A request has one active position; further ones are further tokens.     *)
(***************************************************************************)
EXTENDS BatchPlans, SequencesExt

CONSTANTS
  ExpertsPerRank,
  TopK,
  RouteTables   \* the routes considered

Expert == 0 .. NumSources * ExpertsPerRank - 1
LocalExpert == 0 .. ExpertsPerRank - 1

(* The experts of every request of every source in every layer. *)
Routes == [Source \X Request \X Layer -> [1 .. TopK -> Expert]]

ASSUME ExchangeAssumption ==
  /\ ExpertsPerRank \in Nat \ {0}
  /\ TopK \in Nat \ {0}
  /\ RouteTables \subseteq Routes

(* Rank 1 is rank 0 of the code. *)
HomeOf(expert) == expert \div ExpertsPerRank + 1
LocalId(expert) == expert % ExpertsPerRank

(* The assignments of a batch: top_k for each of its slots. *)
Assignments == 1 .. BatchSize * TopK
SlotOf(a) == (a - 1) \div TopK + 1

FlatIds(routes, s, batch, l) ==
  [a \in Assignments |-> routes[s, batch[SlotOf(a)], l][((a - 1) % TopK) + 1]]

SplitVector(ids) == [d \in Source |-> Cardinality({a \in DOMAIN ids : HomeOf(ids[a]) = d})]

(* MUTANT of ReplayMetadata: the experts of every rank are counted.        *)
ReplayMetadataAllRanks(routes, batches, rank, b, l) ==
  LET ids(s) == FlatIds(routes, s, batches[s][b], l)
  IN  [send    |-> SplitVector(ids(rank)),
       recv    |-> [s \in Source |-> SplitVector(ids(s))[rank]],
       experts |-> [e \in LocalExpert |->
                      Cardinality({x \in Source \X Assignments : LocalId(ids(x[1])[x[2]]) = e})]]

(* split_vectors_and_local_expert_counts: what a rank derives about batch  *)
(* b and layer l from the batches it believes every source to run.         *)
ReplayMetadata(routes, batches, rank, b, l) ==
  LET ids(s)   == FlatIds(routes, s, batches[s][b], l)
      atRank(s) == {a \in Assignments : HomeOf(ids(s)[a]) = rank}
  IN  [send    |-> SplitVector(ids(rank)),
       recv    |-> [s \in Source |-> SplitVector(ids(s))[rank]],
       experts |-> [e \in LocalExpert |->
                      Cardinality({x \in Source \X Assignments :
                                     x[2] \in atRank(x[1]) /\ LocalId(ids(x[1])[x[2]]) = e})]]

(* The assignments that go to rank d, in order. *)
SentTo(ids, d) ==
  LET last == Cardinality(DOMAIN ids)
      upTo[a \in 0 .. last] ==
        IF a = 0 THEN <<>>
        ELSE IF HomeOf(ids[a]) = d THEN Append(upTo[a - 1], a)
        ELSE upTo[a - 1]
  IN  upTo[last]

(* torch.argsort(destinations, stable=True) *)
PackOrder(ids) == FlattenSeq([d \in Source |-> SentTo(ids, d)])

(* A buffer cut into one block per peer by a split vector. *)
Blocks(buffer, splits) ==
  LET before[d \in 1 .. NumSources + 1] ==
        IF d = 1 THEN 0 ELSE before[d - 1] + splits[d - 1]
  IN  [d \in Source |-> SubSeq(buffer, before[d] + 1, before[d + 1])]

Packed(values, ids) ==
  LET order == PackOrder(ids) IN [n \in DOMAIN ids |-> values[order[n]]]

(* MUTANT of Restored: the permutation is applied instead of undone.       *)
RestoredAgain(combined, ids) == [n \in Assignments |-> combined[PackOrder(ids)[n]]]

(* restored[order] = combined *)
Restored(combined, ids) ==
  LET order == PackOrder(ids)
  IN  [a \in Assignments |-> combined[CHOOSE n \in Assignments : order[n] = a]]

(* A token after one expert, and after the mean over its experts. *)
Through(token, expert) == [token |-> token, expert |-> expert]
MeanOver(values, i) == [mean |-> [k \in 1 .. TopK |-> values[(i - 1) * TopK + k]]]

(* fused_experts of a rank: every received token goes through the expert   *)
(* that came with it.                                                      *)
ExpertOutput(rank, tokens, ids) ==
  [n \in DOMAIN tokens |-> Through(tokens[n], (rank - 1) * ExpertsPerRank + ids[n].local)]
===============================================================================
