--------------------------- MODULE MCGlobalOracle ---------------------------
(* Values for the model-checking runs of the makespan oracle. *)
EXTENDS GlobalOracle

OneRound == <<1>>
TwoRounds == <<2, 1>>

(* Without history, request r is assumed to use expert r. *)
OwnExpert == [r \in Request |-> {r}]

(* Each position activates one of three experts: the first block starts on one
   expert or on two and its second round continues on one of them, the second
   block is the same for everybody. *)
BlockRoutes ==
  [Request -> {<<first, <<second>>, <<{1}, {2}>>, <<{2}>>>> :
     first \in {<<{0}, {0}>>, <<{0}, {1}>>}, second \in {{0}, {1}}}]

(* Three requests whose routes cluster best after the third one arrives. *)
LateCluster ==
  {[r \in Request |-> CASE r = 0 -> <<<<{1}>>, <<{0}>>, <<{3}>>>>
                        [] r = 1 -> <<<<{0}>>, <<{4}>>, <<{0}>>>>
                        [] r = 2 -> <<<<{1}>>, <<{4}>>, <<{4}>>>>]}
=============================================================================
