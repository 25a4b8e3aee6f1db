---------------------------- MODULE ControlLaunches ----------------------------
(***************************************************************************)
(* Launches of the three timing controls on four ranks: the timing gate,   *)
(* the proxy validation and the position-parallel prototype.  torchrun     *)
(* starts one process per rank; the ranks meet in collectives, write their *)
(* rows at the end, and rank 1 (rank 0 of the code) writes the metadata.   *)
(* A rank may raise, the launcher then ends the others wherever they are,  *)
(* and somebody may launch the program again into the same directory.      *)
(*                                                                         *)
(* An action of a rank is what it does up to its next collective or its    *)
(* next change of a file.                                                  *)
(***************************************************************************)
EXTENDS ProxyValidation, PositionParallel

CONSTANTS
  Programs,     \* the programs launched, of "gate", "proxy", "parallel"
  Arguments(_), \* the command lines of a program
  MaxLaunches(_), \* bound on a program's launches into one directory
  Faulty,       \* ranks that may raise on their own
  Absent        \* a file that does not exist

Refuses(p, a) ==
  CASE p = "gate" -> GateRefuses(a)
    [] p = "proxy" -> ProxyRefuses(a)
    [] p = "parallel" -> ParallelRefuses(a)

RunsOf(p, a) ==
  IF Refuses(p, a) THEN <<>>
  ELSE CASE p = "gate" -> GateRuns(a)
         [] p = "proxy" -> ProxyRuns(a)
         [] p = "parallel" -> ParallelRuns(a)

(* All three programs raise on any other number of ranks.  A command line  *)
(* names at least one number of positions (nargs="+"), no batch is empty,  *)
(* and what is launched is measured at least once.                         *)
ASSUME LaunchAssumption ==
  /\ NumSources = 4
  /\ Programs \subseteq {"gate", "proxy", "parallel"}
  /\ \A p \in Programs : MaxLaunches(p) \in Nat \ {0}
  /\ Faulty \subseteq Rank
  /\ \A p \in Programs : \A a \in Arguments(p) :
       \/ Refuses(p, a)
       \/ /\ a.warmup \in Nat /\ a.repetitions \in Nat \ {0}
          /\ p # "proxy" => /\ IsFiniteSet(a.positions) /\ a.positions # {}
                            /\ a.positions \subseteq Nat \ {0}
          /\ p = "proxy" => a.k \in Nat
          /\ p = "parallel" => a.topK \in Nat

(* No file of rows is mistaken for one that does not exist. *)
ASSUME AbsentAssumption ==
  \A p \in Programs : \A a \in Arguments(p) : Absent \notin [launch : Nat, rows : {RunsOf(p, a)}]

VARIABLES
  program,   \* the program that uses the directory
  args,      \* the command line of the current launch
  runs,      \* the runs of the current launch, in the order of its loops
  launch,    \* the number of launches so far
  at,        \* the stage each rank has reached
  waiting,   \* the ranks inside the collective of their stage
  inbox,     \* what the last collective delivered
  tokens,    \* recv_hidden_buffer
  announced, \* gathered_counts
  rows,      \* the runs a rank has recorded
  ended,     \* how the process of a rank ended
  files,     \* the row files of the directory
  metadata   \* its metadata.json

process == <<at, waiting, inbox, tokens, announced, rows, ended>>
directory == <<files, metadata>>
vars == <<program, args, runs, launch, process, directory>>

RunOf(r) == runs[at[r].run]
Mode(r) == RunOf(r).mode

(* The flat expert ids of a rank's batch, what it computes on when nothing *)
(* is communicated, and its splits.                                        *)
Ids(r) ==
  CASE program = "gate" -> BalancedIds(RunOf(r))
    [] program = "proxy" -> ProxyIds(RunOf(r), r, at[r].batch)
    [] program = "parallel" -> ParallelIds(RunOf(r), r)

LocalIds(r) ==
  CASE program = "gate" -> GateLocalIds(RunOf(r))
    [] program = "proxy" -> ProxyLocalIds(RunOf(r), r, at[r].batch)

Send(r) ==
  CASE program = "gate" -> GateSplits(RunOf(r))
    [] program = "proxy" -> ProxySend(RunOf(r), r, at[r].batch)
    [] program = "parallel" -> SplitVector(Ids(r))

Recv(r) ==
  CASE program = "gate" -> GateSplits(RunOf(r))
    [] program = "proxy" -> ProxyRecv(RunOf(r), r, at[r].batch)
    [] program = "parallel" -> [s \in Rank |-> announced[r][s][r]]

After(r) ==
  CASE program = "gate" -> GateAfter(at[r], Mode(r), Len(runs))
    [] program = "proxy" -> ProxyAfter(at[r], Mode(r), Len(runs))
    [] program = "parallel" -> ParallelAfter(at[r], runs)

-----------------------------------------------------------------------------
(* Collectives. *)

DataStages == {"hidden", "ids", "combine"}
CollectiveStages == DataStages \union {"gather", "barrier", "written", "collect"}

Ended(r) == ended[r] # "running"
Alive(r) == ~Ended(r)
Computes(r, stage) == Alive(r) /\ r \notin waiting /\ at[r].stage = stage

(* One element for every pair of ranks. *)
MinimalSplits == [d \in Rank |-> 1]
Dummies == [d \in Rank |-> "dummy"]

(* The assignments of a rank, in the order in which they are packed: the   *)
(* rank, the slot and the expert the token is meant for.                   *)
Assigned(r) ==
  LET ids == Ids(r)
  IN  Packed([a \in DOMAIN ids |-> [rank |-> r, slot |-> a, expert |-> ids[a]]], ids)

(* MUTANT of PackedIds: the ids in the order of the tokens.                *)
PackedIdsUnpacked(r) == [n \in DOMAIN Ids(r) |-> LocalId(Ids(r)[n])]

PackedIds(r) ==
  LET assigned == Assigned(r) IN [n \in DOMAIN assigned |-> LocalId(assigned[n].expert)]

(* What a rank hands to a data collective, how it cuts it, and how long    *)
(* the blocks of the others must be.                                       *)
Buffer(r) ==
  IF Mode(r) = "nccl_minimal" THEN Dummies
  ELSE CASE at[r].stage = "hidden" -> Assigned(r)
         [] at[r].stage = "ids" -> PackedIds(r)
         [] at[r].stage = "combine" -> ExpertOutput(r, tokens[r], [n \in DOMAIN inbox[r] |-> [local |-> inbox[r][n]]])

Outgoing(r) ==
  IF Mode(r) = "nccl_minimal" THEN MinimalSplits
  ELSE IF at[r].stage = "combine" THEN Recv(r) ELSE Send(r)

Incoming(r) ==
  IF Mode(r) = "nccl_minimal" THEN MinimalSplits
  ELSE IF at[r].stage = "combine" THEN Send(r) ELSE Recv(r)

(* All ranks are in the same kind of collective, and every block is as     *)
(* long as its receiver expects.                                           *)
CallsAgree ==
  /\ \A r, s \in Rank : at[r].stage = at[s].stage
  /\ at[1].stage \in DataStages =>
       \A s, d \in Rank : Outgoing(s)[d] = Incoming(d)[s]

Delivered(d) ==
  LET from(s) == Blocks(Buffer(s), Outgoing(s))[d] IN from(1) \o from(2) \o from(3) \o from(4)

(* Routes are generated at the head of a cell, before the counts. *)
Unroutable(r) == at[r].stage = "gather" /\ RoutesRepeat(RunOf(r), r)

Join(r) ==
  /\ Alive(r) /\ r \notin waiting
  /\ at[r].stage \in CollectiveStages /\ ~Unroutable(r)
  /\ waiting' = waiting \union {r}
  /\ UNCHANGED <<program, args, runs, launch, at, inbox, tokens, announced, rows, ended, directory>>

(* What follows a collective that is not a step of a run. *)
Leaving(r) ==
  CASE at[r].stage = "written" -> IF r = 1 THEN [at[r] EXCEPT !.stage = "metadata"]
                                            ELSE [at[r] EXCEPT !.stage = "done"]
    [] at[r].stage = "collect" -> IF r = 1 THEN [at[r] EXCEPT !.stage = "write"]
                                            ELSE [at[r] EXCEPT !.stage = "done"]
    [] OTHER -> After(r)

Complete ==
  /\ waiting = Rank /\ CallsAgree
  /\ waiting' = {}
  /\ at' = [r \in Rank |-> Leaving(r)]
  /\ inbox' = IF at[1].stage \in DataStages THEN [r \in Rank |-> Delivered(r)] ELSE inbox
  /\ tokens' = IF at[1].stage = "ids" THEN inbox ELSE tokens
  /\ announced' = IF at[1].stage = "gather" THEN [r \in Rank |-> [s \in Rank |-> Send(s)]]
                                            ELSE announced
  /\ UNCHANGED <<program, args, runs, launch, rows, ended, directory>>

-----------------------------------------------------------------------------
(* Local steps. *)

(* The maximum over the active experts of a rank that received nothing.    *)
EmptyRank(r) == program = "parallel" /\ ReceivesNothing(RunOf(r), r)

(* "produced non-finite output" and the empty rank: after the last         *)
(* collective of a run the rank raises on its own, before its row.         *)
RaiseAfterRun(r) ==
  /\ Computes(r, "end")
  /\ r \in Faulty \/ EmptyRank(r)
  /\ ended' = [ended EXCEPT ![r] = "raised"]
  /\ UNCHANGED <<program, args, runs, launch, at, waiting, inbox, tokens, announced, rows, directory>>

RaiseUnroutable(r) ==
  /\ Computes(r, "gather")
  /\ Unroutable(r)
  /\ ended' = [ended EXCEPT ![r] = "raised"]
  /\ UNCHANGED <<program, args, runs, launch, at, waiting, inbox, tokens, announced, rows, directory>>

(* Append the row of the run. *)
RecordRun(r) ==
  /\ Computes(r, "end")
  /\ ~EmptyRank(r)
  /\ rows' = [rows EXCEPT ![r] = Append(@, RunOf(r))]
  /\ at' = [at EXCEPT ![r] = After(r)]
  /\ UNCHANGED <<program, args, runs, launch, waiting, inbox, tokens, announced, ended, directory>>

(* The rows rank r writes: its own, or those gather_object brought.        *)
RowsOf(r) ==
  IF program = "parallel" THEN rows[1] \o rows[2] \o rows[3] \o rows[4]
  ELSE rows[r]

(* write_rows truncates the file; until it is closed some rows may not be  *)
(* on disk yet.  Here it is the last row.                                  *)
OpenFile(r) ==
  /\ Computes(r, "write")
  /\ files' = [files EXCEPT ![r] = [launch |-> launch, rows |-> Front(RowsOf(r))]]
  /\ at' = [at EXCEPT ![r].stage = "close"]
  /\ UNCHANGED <<program, args, runs, launch, waiting, inbox, tokens, announced, rows, ended, metadata>>

(* MUTANT of CloseFile: rank 1 does not wait until the others have written. *)
CloseFileAtOnce(r) ==
  /\ Computes(r, "close")
  /\ files' = [files EXCEPT ![r] = [launch |-> launch, rows |-> RowsOf(r)]]
  /\ at' = [at EXCEPT ![r].stage = IF r = 1 THEN "metadata" ELSE "done"]
  /\ UNCHANGED <<program, args, runs, launch, waiting, inbox, tokens, announced, rows, ended, metadata>>

(* MUTANT of CloseFile: only rank 1 joins the last barrier.                *)
CloseFileRootWaits(r) ==
  /\ Computes(r, "close")
  /\ files' = [files EXCEPT ![r] = [launch |-> launch, rows |-> RowsOf(r)]]
  /\ at' = [at EXCEPT ![r].stage = IF r = 1 THEN "written" ELSE "done"]
  /\ UNCHANGED <<program, args, runs, launch, waiting, inbox, tokens, announced, rows, ended, metadata>>

(* Then the ranks meet once more; only rank 1 writes in the prototype.     *)
CloseFile(r) ==
  /\ Computes(r, "close")
  /\ files' = [files EXCEPT ![r] = [launch |-> launch, rows |-> RowsOf(r)]]
  /\ at' = [at EXCEPT ![r].stage = IF program = "parallel" THEN "metadata" ELSE "written"]
  /\ UNCHANGED <<program, args, runs, launch, waiting, inbox, tokens, announced, rows, ended, metadata>>

OpenMetadata(r) ==
  /\ Computes(r, "metadata")
  /\ metadata' = [launch |-> launch, readable |-> FALSE, args |-> args]
  /\ at' = [at EXCEPT ![r].stage = "pass"]
  /\ UNCHANGED <<program, args, runs, launch, waiting, inbox, tokens, announced, rows, ended, files>>

PrintPass(r) ==
  /\ Computes(r, "pass")
  /\ metadata' = [metadata EXCEPT !.readable = TRUE]
  /\ at' = [at EXCEPT ![r].stage = "done"]
  /\ UNCHANGED <<program, args, runs, launch, waiting, inbox, tokens, announced, rows, ended, files>>

(* destroy_process_group and exit. *)
Exit(r) ==
  /\ Computes(r, "done")
  /\ ended' = [ended EXCEPT ![r] = "exited"]
  /\ UNCHANGED <<program, args, runs, launch, at, waiting, inbox, tokens, announced, rows, directory>>

(* A command line the program refuses: every rank raises before it meets   *)
(* the others.                                                             *)
Refuse(r) ==
  /\ Computes(r, "setup")
  /\ ended' = [ended EXCEPT ![r] = "raised"]
  /\ UNCHANGED <<program, args, runs, launch, at, waiting, inbox, tokens, announced, rows, directory>>

Step(r) ==
  \/ Join(r)
  \/ RaiseUnroutable(r) \/ RaiseAfterRun(r) \/ RecordRun(r)
  \/ OpenFile(r) \/ CloseFile(r) \/ OpenMetadata(r) \/ PrintPass(r) \/ Exit(r)
  \/ Refuse(r)

(* An I/O error of a rank that writes. *)
FailWriting(r) ==
  /\ r \in Faulty /\ Computes(r, "close")
  /\ ended' = [ended EXCEPT ![r] = "raised"]
  /\ UNCHANGED <<program, args, runs, launch, at, waiting, inbox, tokens, announced, rows, directory>>

(* torchrun ends the other workers of one that raised. *)
Terminate ==
  /\ \E s \in Rank : ended[s] = "raised"
  /\ \E r \in Rank : Alive(r) /\ ended' = [ended EXCEPT ![r] = "terminated"]
  /\ UNCHANGED <<program, args, runs, launch, at, waiting, inbox, tokens, announced, rows, directory>>

FirstStage(p, a) ==
  IF Refuses(p, a) THEN Place(1, "setup", 1, 1)
  ELSE IF p = "parallel" THEN ParallelStart(1)
  ELSE Place(1, "barrier", 1, 1)

(* One of these for every rank when its process starts. *)
ForAll(value) == [r \in Rank |-> value]

Init ==
  /\ program \in Programs
  /\ args \in Arguments(program)
  /\ runs = RunsOf(program, args)
  /\ launch = 1
  /\ at = ForAll(FirstStage(program, args))
  /\ waiting = {}
  /\ inbox = ForAll(<<>>) /\ tokens = ForAll(<<>>) /\ announced = ForAll(<<>>)
  /\ rows = ForAll(<<>>)
  /\ ended = ForAll("running")
  /\ files = ForAll(Absent)
  /\ metadata = Absent

AllEnded == \A r \in Rank : Ended(r)

(* Somebody launches the program again; the directory stays as it is:      *)
(* args.output.mkdir(parents=True, exist_ok=True).                         *)
Relaunch ==
  /\ AllEnded
  /\ launch < MaxLaunches(program)
  /\ launch' = launch + 1
  /\ args' \in Arguments(program)
  /\ runs' = RunsOf(program, args')
  /\ at' = ForAll(FirstStage(program, args'))
  /\ waiting' = {}
  /\ inbox' = ForAll(<<>>) /\ tokens' = ForAll(<<>>) /\ announced' = ForAll(<<>>)
  /\ rows' = ForAll(<<>>)
  /\ ended' = ForAll("running")
  /\ UNCHANGED <<program, directory>>

Next ==
  \/ \E r \in Rank : Step(r) \/ FailWriting(r)
  \/ Complete \/ Terminate \/ Relaunch

(* Every rank computes on, a collective that all ranks have joined ends,   *)
(* and the launcher notices a worker that raised.  Nobody has to launch    *)
(* again.                                                                  *)
Fairness ==
  /\ \A r \in Rank : WF_vars(Step(r))
  /\ WF_vars(Complete)
  /\ WF_vars(Terminate)

Spec == Init /\ [][Next]_vars /\ Fairness
===============================================================================
