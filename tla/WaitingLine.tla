----------------------------- MODULE WaitingLine ----------------------------
(***************************************************************************)
(* What the serving loop promises its requests, without clocks, scores or  *)
(* policies: unfinished requests stand in one line, each service round     *)
(* serves some admitted requests, and every admitted request that is not   *)
(* served moves up.  So nobody is left out more than NumRequests - 1 times  *)
(* in a row, and everybody admitted finishes after exactly its steps.      *)
(***************************************************************************)
EXTENDS Naturals, FiniteSets

CONSTANTS
  NumRequests,   \* how many requests there are
  MaxBatchSize,  \* how many a round serves at most
  Steps          \* rounds of service each request needs

LineRequest == 0 .. NumRequests - 1

VARIABLES
  stepsLeft,  \* rounds of service each request still needs
  admitted,   \* requests that have arrived
  place       \* position in the line

lineVars == <<stepsLeft, admitted, place>>

Waiting == {r \in LineRequest : stepsLeft[r] > 0}

Active == admitted \cap Waiting

(* No two unfinished requests share a position. *)
InLine(S, position) == \A r, s \in S : position[r] = position[s] => r = s

Init ==
  /\ stepsLeft = [r \in LineRequest |-> Steps[r]]
  /\ admitted \in SUBSET LineRequest
  /\ place \in [LineRequest -> 0 .. NumRequests - 1]
  /\ InLine(LineRequest, place)

Admit ==
  /\ \E arrivals \in SUBSET (LineRequest \ admitted) :
       arrivals # {} /\ admitted' = admitted \cup arrivals
  /\ UNCHANGED <<stepsLeft, place>>

Serve ==
  \E batch \in SUBSET Active :
    /\ batch # {}
    /\ Cardinality(batch) <= MaxBatchSize
    /\ stepsLeft' = [r \in LineRequest |->
                       IF r \in batch THEN stepsLeft[r] - 1 ELSE stepsLeft[r]]
    /\ place' \in [LineRequest -> 0 .. NumRequests - 1]
    /\ InLine(Waiting', place')
    /\ \A r \in Active \ batch : place'[r] < place[r]
    /\ UNCHANGED admitted

Next == Admit \/ Serve

Spec == Init /\ [][Next]_lineVars

FairSpec == Spec /\ WF_lineVars(Admit) /\ WF_lineVars(Serve)
=============================================================================
