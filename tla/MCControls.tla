------------------------------ MODULE MCControls ------------------------------
(* Command lines for the model-checking runs of the timing controls. *)
EXTENDS LaunchProperties

(* One position for the gate, so that a batch visits half of the experts,  *)
(* and two, so that it visits all; one repetition, and two, so that the    *)
(* modes rotate; a command line that is refused.  The prototype with two   *)
(* experts a token, where hot ranks leave others empty, with four, and     *)
(* with eight, where they repeat.                                          *)
CommandLines(p) ==
  CASE p = "gate" -> {[positions |-> {2}, warmup |-> 0, repetitions |-> 1],
                      [positions |-> {1}, warmup |-> 0, repetitions |-> 2],
                      [positions |-> {2}, warmup |-> 0, repetitions |-> 0]}
    [] p = "proxy" -> {[k |-> 1, warmup |-> 0, repetitions |-> 1]}
    [] p = "parallel" -> {[positions |-> {1}, topK |-> n, warmup |-> 0, repetitions |-> 1] : n \in {2, 4, 8}}

(* The files of all three programs are written alike: a used directory is  *)
(* checked with the gate only.                                             *)
OnceOrTwice(p) == IF p = "gate" THEN 2 ELSE 1

(* The gate at its default width.                                          *)
DefaultWidth(p) == {[positions |-> {1}, warmup |-> 0, repetitions |-> 1]}
Once(p) == 1
===============================================================================
