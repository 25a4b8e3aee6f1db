----------------------------- MODULE MCEPReplay -----------------------------
(* Values for the model-checking run of the expert-parallel benchmark. *)
EXTENDS EPReplay

(* Six experts on three ranks, top-3: a token goes to three ranks, or to   *)
(* two with both assignments of one of them apart or next to each other.   *)
(* Which way a request goes depends on its source and on the layer; but in *)
(* the second layer the first requests of all sources go the same way, and *)
(* a batch of them leaves the third rank without any token.                *)
Ways == <<<<2, 3, 0>>, <<4, 0, 2>>, <<1, 5, 4>>>>

MixedWays ==
  {[x \in Source \X Request \X Layer |->
      IF x[2] = 1 /\ x[3] = 2 THEN Ways[1] ELSE Ways[((x[1] + 2 * x[2] + x[3]) % 3) + 1]]}

TwoArms == <<"local_route_replay", "coordinated_dose_25">>
=============================================================================
