---------------------------- MODULE ReviewedLaunches ----------------------------
(***************************************************************************)
(* The launches of the timing gate and the proxy validation together with  *)
(* the scripts that judge what they left in the directory                  *)
(* (hardware/analyze_timing_gate_ep4.py,                                   *)
(* hardware/analyze_proxy_validation_ep4.py).  The measured times are      *)
(* free: each interval that a script derives from them has either sign.    *)
(***************************************************************************)
EXTENDS ControlLaunches

VARIABLE verdict   \* report.json: the status, and the launch it was written after

reviewedVars == <<vars, verdict>>

(* Where the measured rows are in each of the four files. *)
Measured(r) == {n \in DOMAIN files[r].rows : files[r].rows[n].measured}

Observed == UNION {{[rank |-> r, row |-> files[r].rows[n]] : n \in Measured(r)} : r \in Rank}
Seen(column) == {x.row[column] : x \in Observed}

FilesPresent ==
  /\ metadata # Absent /\ metadata.readable
  /\ \A r \in Rank : files[r] # Absent

(* "duplicate rows", "must contain ranks 0..3" *)
RanksSeen(Key(_)) ==
  /\ \A r \in Rank : \A m, n \in Measured(r) : Key(files[r].rows[m]) = Key(files[r].rows[n]) => m = n
  /\ {x.rank : x \in Observed} = Rank

(* "incomplete paired mode set", "incomplete paired arm set": in every cell *)
(* of the pivoted table some rank has a row, after the maximum over ranks. *)
Paired(column, values, Cell(_)) ==
  \A x \in Observed :
    {y.row[column] : y \in {z \in Observed : Cell(z.row) = Cell(x.row)}} = values

(* The standard deviation over the repetitions of each K; of one value it  *)
(* is not a number, and int(np.ceil(...)) raises.                          *)
Spread ==
  \A x \in Observed :
    {y \in Observed : y.row.k = x.row.k /\ y.row.repetition # x.row.repetition} # {}

GateAccepts ==
  /\ FilesPresent
  /\ RanksSeen(LAMBDA row : <<row.k, row.mode, row.repetition>>)
  /\ Seen("k") = metadata.args.positions
  /\ Seen("mode") = Range(TransportModes)
  /\ Paired("mode", Range(TransportModes), LAMBDA row : <<row.k, row.repetition>>)
  /\ Spread

ProxyAccepts ==
  /\ FilesPresent
  /\ RanksSeen(LAMBDA row : <<row.arm, row.repetition>>)
  /\ Seen("arm") = Range(RunArms)
  /\ Seen("k") = {metadata.args.k}
  /\ Paired("arm", Range(RunArms), LAMBDA row : row.repetition)

Accepts == IF program = "gate" THEN GateAccepts ELSE ProxyAccepts

(* The status of the timing gate for the widths the screening profile also *)
(* has: `identified' are those with positive launch floor and premium,     *)
(* `powered' those with enough accessible time.                            *)
GateStatus(screened, identified, clean, powered) ==
  IF ~(clean /\ screened \subseteq identified) THEN "FAIL"
  ELSE IF powered # {} THEN "PASS-POWERED" ELSE "PASS-UNPOWERED"

(* The status of the proxy validation: whether the accessible time is      *)
(* identified, and the sign of the interval of the highest dose.           *)
ProxyStatus(identified, dose) ==
  CASE identified /\ dose = "positive" -> "PROXY_TIME_ALIGNED"
    [] identified /\ dose = "negative" -> "PROXY_TIME_DISCONFIRMED"
    [] OTHER -> "PROXY_TIME_UNRESOLVED"

Statuses ==
  IF program = "gate"
  THEN LET widths == metadata.args.positions
       IN  UNION {{GateStatus(screened, identified, clean, powered) :
                     identified \in SUBSET widths, clean \in BOOLEAN,
                     powered \in SUBSET screened} : screened \in SUBSET widths}
  ELSE {ProxyStatus(identified, dose) :
          identified \in BOOLEAN, dose \in {"positive", "negative", "both"}}

(* The scripts raise without a report on a directory they do not accept.   *)
(* Nobody launches again after an analysis.                                *)
Analyze ==
  /\ program \in {"gate", "proxy"}
  /\ AllEnded /\ verdict = Absent
  /\ Accepts
  /\ \E status \in Statuses : verdict' = [status |-> status, launch |-> launch]
  /\ UNCHANGED vars

ReviewedInit == Init /\ verdict = Absent

ReviewedNext ==
  \/ verdict = Absent /\ Next /\ UNCHANGED verdict
  \/ Analyze

ReviewedSpec == ReviewedInit /\ [][ReviewedNext]_reviewedVars /\ Fairness
=================================================================================
