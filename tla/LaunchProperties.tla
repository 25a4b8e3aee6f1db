---------------------------- MODULE LaunchProperties ----------------------------
(* What the timing controls promise, over all launches into a directory. *)
EXTENDS ReviewedLaunches

(* When all ranks are in a collective it is the same one, and every block   *)
(* is as long as its receiver expects.  The proxy validation never          *)
(* exchanges counts: what a rank expects comes from its own copy of the     *)
(* split contract (benchmark_proxy_validation_ep4.py:198-222).              *)
BlocksAgree == waiting = Rank => CallsAgree

Timed(r) == at[r].stage \in DataStages \union {"end"}

(* No rank is inside the timed part of a run while another is inside that   *)
(* of another run: the modes that are compared never overlap               *)
(* (benchmark_timing_gate_ep4.py:148).                                      *)
OneRunAtATime == \A r, s \in Rank : Timed(r) /\ Timed(s) => at[r].run = at[s].run

Work(ids) == [e \in LocalExpert |-> Cardinality({n \in DOMAIN ids : ids[n] = e})]

(* Rank r has received what its experts work on, or works on its own.       *)
Working(r) == program \in {"gate", "proxy"} /\ at[r].stage = "combine" /\ Mode(r) = "nccl_real"

WorksAlike(r) == Work(inbox[r]) = Work(LocalIds(r))

(* "non_collective_work_symmetric_across_modes": true                       *)
(* (benchmark_timing_gate_ep4.py:372).  A rank that communicates gives each *)
(* of its experts as many tokens as it does in the controls that            *)
(* communicate nothing.                                                     *)
WorkSymmetric == \A r \in Rank : Working(r) => WorksAlike(r)

(* The gate goes round all experts a whole number of times in a batch; only *)
(* then do its equal parts fit its routes.                                  *)
WholeRounds(k) == (BatchSize * k * TopK) % (NumSources * ExpertsPerRank) = 0
Fits(r) == program = "gate" => WholeRounds(RunOf(r).k)

(* What the code does instead: the work is the same where the parts fit the *)
(* routes, as they always do in the proxy validation, and nowhere else      *)
(* (benchmark_timing_gate_ep4.py:100-108).                                  *)
SameWork == \A r \in Rank : Working(r) => (WorksAlike(r) <=> Fits(r))

(* "origin_restoration": the last all-to-all of a layer brings every rank   *)
(* its own tokens, in the order in which it packed them; no origin was sent *)
(* with a token.  Each comes from the expert it was meant for if the parts  *)
(* fit the routes.                                                          *)
ReturnedFromExpert ==
  waiting = Rank /\ at[1].stage = "combine" /\ Mode(1) = "nccl_real" =>
    \A r \in Rank :
      LET assigned == Assigned(r)
          returned == Delivered(r)
      IN  /\ [n \in DOMAIN returned |-> returned[n].token] = assigned
          /\ Fits(r) => returned = [n \in DOMAIN assigned |-> Through(assigned[n], assigned[n].expert)]

WrittenInFull(r) ==
  LET all == IF program = "parallel" THEN runs \o runs \o runs \o runs ELSE runs
  IN  files[r] = [launch |-> launch, rows |-> all]

(* PASS and a readable metadata.json of a launch appear only when all its   *)
(* rows are on disk, whichever rank fails, and never when a rank received   *)
(* nothing in a run (benchmark_position_parallel_ep.py:209).                *)
PassedMeansComplete ==
  metadata # Absent /\ metadata.launch = launch =>
    /\ \A r \in Rank : (program = "parallel" /\ r # 1) \/ WrittenInFull(r)
    /\ program = "parallel" => \A n \in DOMAIN runs, r \in Rank : ~ReceivesNothing(runs[n], r)

(* What the producer of the rows promises suffices for their consumer: a    *)
(* launch that passed is accepted by the analysis, except that the gate     *)
(* passes with one repetition and its analysis needs two                    *)
(* (benchmark_timing_gate_ep4.py:72, analyze_timing_gate_ep4.py:177-186).   *)
PassedIsAccepted ==
  program \in {"gate", "proxy"} /\ metadata # Absent /\ metadata.launch = launch /\ metadata.readable =>
    (Accepts <=> ~(program = "gate" /\ metadata.args.repetitions = 1))

(* A verdict on an empty directory's first launch rests on every row of     *)
(* every rank, though the scripts only look at maxima over ranks.           *)
VerdictOnCompleteRows ==
  verdict # Absent /\ verdict.launch = 1 => \A r \in Rank : WrittenInFull(r)

(* Every launch ends: no rank stays for ever in a collective that another   *)
(* one does not join, whichever rank raises.                                *)
EveryLaunchEnds == []<>AllEnded
=============================================================================
