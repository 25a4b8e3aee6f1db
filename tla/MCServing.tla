------------------------------ MODULE MCServing -----------------------------
(* Values for the model-checking runs of the serving loop. *)
EXTENDS ServingProperties

OneRound == <<1>>
TwoRounds == <<2, 1>>
=============================================================================
