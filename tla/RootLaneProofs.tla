--------------------------- MODULE RootLaneProofs ---------------------------
(***************************************************************************)
(* Proofs about the root lane.                                             *)
(***************************************************************************)
EXTENDS RootLane, NaturalsInduction, WellFoundedInduction, TLAPS

-----------------------------------------------------------------------------
(* The inductive invariant.                                                *)

(* Operations start in order, each after the previous one has finished,    *)
(* and a checkpoint is one of a completed operation.                       *)
OpsInv ==
  /\ \A j, k \in Ops : j < k /\ op[k].st # "none" => op[j].st \in Outcomes
  /\ \A k \in Ops : op[k].ckpt => op[k].st = "completed"

(* What the place d of a drive says about its operation and the lane: it   *)
(* drives an open operation, or looks at an idle lane, without controls    *)
(* once it went past them; what a fork saw as accepted was settled; and    *)
(* the idle claim of an operation comes before its callbacks.              *)
PastControls(d) ==
  d.pc \in {"decide", "offer", "commit", "fork"} \/ (d.pc = "hooks" /\ d.kind # "command")

Place(d) ==
  /\ d.pc \in {"resume", "started", "install", "installed", "running", "finish"} =>
       d.op \in Ops /\ op[d.op].st = "open"
  /\ d.pc = "publish" => d.op \in Ops /\ op[d.op].st \in Outcomes
  /\ d.pc = "finish" => d.out \in Outcomes
  /\ d.pc \in {"controls", "decide", "hooks", "offer", "commit", "fork"} => Idle
  /\ PastControls(d) => PendingControls = {}
  /\ d.pc = "fork" => \A i \in d.obs.queue : inp[i].st \notin {"none", "pending"}
  /\ d.pc = "hooks" /\ d.kind # "command" =>
       LastOp \in Started /\ op[LastOp].idle /\ idled[LastOp] = 0

DriveInv == Place(drv) /\ (closer = "joined" => drv.pc = "free")

(* A pending control belongs to the latest operation.                      *)
ControlInv ==
  /\ \A c \in PendingControls : ctl[c].op \in Started /\ \A k \in Started : k <= ctl[c].op
  /\ CompletedIsForkable

(* The disposition of an input and the state of its operation.             *)
InputInv ==
  \A i \in Inputs :
    /\ inp[i].st \in {"none", "pending", "withdrawn"} => inp[i].op = 0
    /\ inp[i].st = "dispatched" => inp[i].op \in Ops /\ op[inp[i].op].st = "open"
    /\ inp[i].st = "settled" =>
         inp[i].op \in Ops /\ inp[i].out \in Outcomes /\ op[inp[i].op].st = inp[i].out

(* Cells tell the truth, and none that could be filled is forgotten.       *)
CellInv ==
  /\ CompletionTruthful /\ NoLostCompletion
  /\ \A i \in owed : inp[i].st = "withdrawn"

(* An agent is in the slot from its installation to the end of its run,    *)
(* and a raised bit has reached it or a canceller is on its way.           *)
AbortInv ==
  drv.pc \in {"installed", "running"} =>
    agent # "none" /\ (abort /\ aborting = {} => agent = "aborted")

(* The idle callbacks of an operation run at most once, after its claim.   *)
HookInv ==
  \A k \in Ops : idled[k] <= 1 /\ (idled[k] # 0 => op[k].idle /\ op[k].st # "none")

IInv ==
  /\ TypeOK /\ OpsInv /\ DriveInv /\ ControlInv
  /\ InputInv /\ CellInv /\ AbortInv /\ HookInv

-----------------------------------------------------------------------------
(* The latest operation.                                                   *)

Less == {p \in Nat \X Nat : p[1] < p[2]}

LEMMA LaneBounds ==
  /\ MaxInputs \in Nat /\ MaxOps \in Nat /\ MaxControls \in Nat /\ MaxRevisions \in Nat \ {0}
  /\ MaxForks \in Nat /\ MaxCrashes \in Nat
  BY LaneAssumption

(* A started lane has a latest operation, and LastOp is that one.          *)
LEMMA LastOpStarted ==
  ASSUME Started # {}
  PROVE  LastOp \in Started /\ \A k \in Started : k <= LastOp
<1> DEFINE S == {MaxOps - k : k \in Started}
<1>1. \A k \in Started : k \in Nat /\ MaxOps - k \in Nat
  BY LaneBounds DEF Started, Ops
<1>2. S \in SUBSET Nat /\ S # {}
  BY <1>1
<1>3. IsWellFoundedOn(Less, Nat)
  BY NatLessThanWellFounded, Zenon DEF OpToRel, Less
<1>4. PICK x \in S : \A y \in S : ~(<<y, x>> \in Less)
  BY <1>2, <1>3, WFMin
<1>5. PICK m \in Started : x = MaxOps - m
  BY <1>4
<1>6. ASSUME NEW k \in Started PROVE k <= m
  <2>1. ~(MaxOps - k < MaxOps - m)
    BY <1>1, <1>2, <1>4, <1>5 DEF Less
  <2> QED BY <2>1, <1>1, LaneBounds
<1>7. \E k \in Started : \A j \in Started : j <= k
  BY <1>6
<1> QED BY <1>7 DEF LastOp

LEMMA LastOpType == LastOp \in 0..MaxOps
<1>1. CASE Started = {}
  BY <1>1, LaneBounds DEF LastOp
<1>2. CASE Started # {}
  BY <1>2, LastOpStarted, LaneBounds DEF Started, Ops
<1> QED BY <1>1, <1>2

LEMMA LastOpIs ==
  ASSUME NEW m \in Started, \A k \in Started : k <= m
  PROVE  LastOp = m
<1>1. LastOp \in Started /\ m <= LastOp
  BY LastOpStarted
<1>2. LastOp <= m /\ LastOp \in Nat /\ m \in Nat
  BY <1>1, LaneBounds DEF Started, Ops
<1> QED BY <1>1, <1>2

(* The open operation is the latest one.                                   *)
LEMMA OpenIsLast ==
  ASSUME OpsInv, NEW k \in OpenOps
  PROVE  LastOp = k /\ k \in Started /\ \A j \in Started : j <= k
<1>1. k \in Started /\ k \in Ops
  BY DEF OpenOps, Started
<1>2. ASSUME NEW j \in Started PROVE j <= k
  <2>1. ~(k < j)
    BY <1>1 DEF OpsInv, OpenOps, Started, Outcomes
  <2> QED BY <2>1, <1>1, LaneBounds DEF Started, Ops
<1> QED BY <1>1, <1>2, LastOpIs

-----------------------------------------------------------------------------
(* The records of a drive.                                                 *)

LEMMA FreeRecord ==
  /\ Free \in DriveType /\ Free.pc = "free" /\ Free.op = 0
  /\ Leave \in DriveType /\ Leave.pc = "release" /\ Leave.op = 0
<1>1. NoObs \in ObsType
  BY DEF NoObs, ObsType
<1>2. Free \in DriveType /\ Free.pc = "free" /\ Free.op = 0
  BY <1>1, LaneBounds DEF Free, DriveType, Pcs, Kinds
<1>3. Leave \in DriveType /\ Leave.pc = "release" /\ Leave.op = 0
  BY <1>2 DEF Leave, DriveType, Pcs
<1> QED BY <1>2, <1>3

LEMMA AtRecord ==
  ASSUME TypeOK, NEW pc \in Pcs
  PROVE  /\ At(pc) \in DriveType /\ At(pc).pc = pc /\ At(pc).op = drv.op
         /\ At(pc).kind = drv.kind /\ At(pc).out = drv.out /\ At(pc).obs = drv.obs
  BY DEF TypeOK, At, DriveType

LEMMA AtFinish ==
  ASSUME TypeOK, NEW o \in Outcomes
  PROVE  LET d == [At("finish") EXCEPT !.out = o]
         IN  d \in DriveType /\ d.pc = "finish" /\ d.op = drv.op /\ d.out = o
<1>1. "finish" \in Pcs
  BY DEF Pcs
<1> QED BY <1>1, AtRecord DEF DriveType

LEMMA AtWith ==
  ASSUME TypeOK, NEW pc \in Pcs, NEW x \in ObsType
  PROVE  LET d == [At(pc) EXCEPT !.obs = x]
         IN  d \in DriveType /\ d.pc = pc /\ d.op = drv.op /\ d.kind = drv.kind /\ d.obs = x
  BY AtRecord DEF DriveType

LEMMA FreeWith ==
  ASSUME NEW pc \in Pcs, NEW k \in 0..MaxOps, NEW kind \in Kinds
  PROVE  /\ [Free EXCEPT !.pc = pc, !.op = k] \in DriveType
         /\ [Free EXCEPT !.pc = pc, !.op = k].pc = pc
         /\ [Free EXCEPT !.pc = pc, !.op = k].op = k
         /\ [Free EXCEPT !.pc = pc, !.kind = kind] \in DriveType
         /\ [Free EXCEPT !.pc = pc, !.kind = kind].pc = pc
  BY FreeRecord DEF DriveType

LEMMA ObserveType == ASSUME TypeOK, NEW q \in SUBSET Inputs PROVE Observe(q) \in ObsType
  BY LaneBounds DEF TypeOK, Observe, ObsType

-----------------------------------------------------------------------------
(* Frames: what a step that leaves some of the state alone cannot break.   *)

(* The latest operation depends on the operations only.                    *)
LEMMA LastOpKept ==
  ASSUME op' = op
  PROVE  /\ LastOp' = LastOp /\ Started' = Started /\ OpenOps' = OpenOps /\ Idle' = Idle
  BY DEF LastOp, Started, OpenOps, Idle

(* A drive that moves while the lane stays as it is.                       *)
LEMMA PlaceMoves ==
  ASSUME UNCHANGED <<inp, op, ctl, idled>>, NEW d, drv' = d, Place(d)
  PROVE  Place(drv)'
<1>1. PendingControls' = PendingControls
  BY DEF PendingControls
<1> QED BY <1>1, LastOpKept DEF Place, PastControls

(* What of the lane does not depend on the drive.                          *)
LEMMA LaneKept ==
  ASSUME IInv, UNCHANGED <<inp, op, ctl, idled>>
  PROVE  OpsInv' /\ ControlInv' /\ InputInv' /\ HookInv'
<1>1. PendingControls' = PendingControls
  BY DEF PendingControls
<1>2. OpsInv' /\ HookInv'
  BY DEF IInv, OpsInv, HookInv
<1>3. InputInv'
  BY DEF IInv, InputInv
<1>4. ControlInv'
  BY <1>1, LastOpKept DEF IInv, ControlInv, CompletedIsForkable
<1> QED BY <1>2, <1>3, <1>4

LEMMA CellsKept ==
  ASSUME IInv, UNCHANGED <<inp, cell, owed, look>>, drv.pc = "publish" => UNCHANGED drv
  PROVE  CellInv'
  BY DEF IInv, CellInv, CompletionTruthful, NoLostCompletion, Terminal

(* A drive step that commits nothing.                                      *)
LEMMA DriveMoves ==
  ASSUME IInv, UNCHANGED <<durable, calls, idled, closer, crashes, aborting>>,
         NEW d \in DriveType, drv' = d, Place(d), drv.pc # "publish",
         closer = "joined" => d.pc = "free",
         agent' \in {"none", "live", "aborted"}, cont' \in BOOLEAN, inherited' \in BOOLEAN,
         abort' \in BOOLEAN,
         d.pc \in {"installed", "running"} => agent' # "none" /\ (abort' => agent' = "aborted")
  PROVE  IInv'
<1>u. UNCHANGED <<inp, op, ctl, rev, leaf, ready, forks, cell, owed, look, cmd, think,
                  idled, closer, crashes, aborting>>
  BY DEF durable, calls
<1>1. TypeOK'
  BY <1>u DEF IInv, TypeOK
<1>2. Place(drv)'
  BY <1>u, PlaceMoves
<1>3. DriveInv'
  BY <1>2, <1>u DEF IInv, DriveInv
<1>4. CellInv'
  BY <1>u, CellsKept
<1>5. AbortInv'
  BY <1>u DEF AbortInv
<1> QED BY <1>1, <1>3, <1>4, <1>5, <1>u, LaneKept DEF IInv

-----------------------------------------------------------------------------
(* The steps of a drive that commit nothing.                               *)

(* Places that say nothing about the lane.                                 *)
LEMMA PlainPlace ==
  ASSUME NEW d, d.pc \in {"free", "claimed", "submit", "clear", "release"}
  PROVE  Place(d)
  BY DEF Place, PastControls

LEMMA TypeOfDrive ==
  ASSUME IInv
  PROVE  /\ TypeOK /\ drv \in DriveType /\ Place(drv) /\ drv.op \in 0..MaxOps /\ drv.kind \in Kinds
         /\ abort \in BOOLEAN /\ cont \in BOOLEAN /\ inherited \in BOOLEAN
         /\ agent \in {"none", "live", "aborted"}
         /\ drv.pc # "free" => closer # "joined"
  BY DEF IInv, TypeOK, DriveInv, DriveType

LEMMA ClaimInv == ASSUME IInv, Claim PROVE IInv'
<1>1. PICK kind \in Kinds, pc \in {"claimed", "submit"} : TryClaim(kind, pc)
  BY DEF Claim, Kinds
<1> DEFINE d == [Free EXCEPT !.pc = pc, !.kind = kind]
<1>2. pc \in Pcs /\ 0 \in 0..MaxOps
  BY LaneBounds DEF Pcs
<1>3. d \in DriveType /\ d.pc = pc
  BY <1>2, FreeWith
<1>4. drv' = d /\ closer # "joined" /\ drv.pc = "free" /\ inherited' \in BOOLEAN
  <2>1. drv' = d /\ closer # "joined" /\ drv.pc = "free"
    BY <1>1 DEF TryClaim, EnsureOpen
  <2>2. inherited' \in BOOLEAN
    BY <1>1, Zenon DEF TryClaim
  <2> QED BY <2>1, <2>2
<1>5. UNCHANGED <<durable, abort, agent, cont, calls, aborting, closer, crashes, idled>>
  BY DEF Claim
<1> HIDE DEF d
<1>6. Place(d)
  BY <1>3, PlainPlace
<1> QED BY <1>3, <1>4, <1>5, <1>6, TypeOfDrive, DriveMoves

LEMMA LeaveInv ==
  ASSUME IInv, drv' = Leave, UNCHANGED <<durable, calls, idled, closer, crashes, aborting>>,
         drv.pc \notin {"free", "publish"}, agent' \in {"none", "live", "aborted"},
         cont' \in BOOLEAN, abort' \in BOOLEAN, inherited' \in BOOLEAN
  PROVE  IInv'
<1>1. Place(Leave)
  BY FreeRecord, PlainPlace
<1> QED BY <1>1, FreeRecord, TypeOfDrive, DriveMoves

LEMMA ReleaseInv == ASSUME IInv, Release PROVE IInv'
<1>1. Place(Free)
  BY FreeRecord, PlainPlace
<1> QED BY <1>1, FreeRecord, TypeOfDrive, DriveMoves DEF Release

LEMMA DriveErrorInv == ASSUME IInv, DriveError PROVE IInv'
  BY LeaveInv, TypeOfDrive DEF DriveError

LEMMA ClearAbortInv == ASSUME IInv, ClearAbort PROVE IInv'
  BY LeaveInv, TypeOfDrive DEF ClearAbort

LEMMA RunCommandInv == ASSUME IInv, RunCommand PROVE IInv'
  BY LeaveInv, TypeOfDrive DEF RunCommand

LEMMA ForkSnapshotInv == ASSUME IInv, ForkSnapshot PROVE IInv'
<1> DEFINE d == [At("fork") EXCEPT !.obs = Digest]
<1>u. /\ UNCHANGED <<durable, abort, agent, cont, calls, aborting, closer, crashes, idled, inherited>>
      /\ drv.pc = "claimed"
  BY DEF ForkSnapshot
<1>1. CASE drv' = Leave
  BY <1>u, <1>1, LeaveInv, TypeOfDrive
<1>2. CASE drv' = d /\ Idle /\ PendingInputs = {} /\ PendingControls = {}
  <2>1. Digest \in ObsType
    BY TypeOfDrive, ObserveType DEF Digest, Accepted
  <2>2. "fork" \in Pcs
    BY DEF Pcs
  <2>3. d \in DriveType /\ d.pc = "fork" /\ d.obs = Digest
    BY <2>1, <2>2, AtWith, TypeOfDrive
  <2>4. \A i \in Digest.queue : inp[i].st \notin {"none", "pending"}
    BY <1>2 DEF Digest, Observe, Accepted, PendingInputs
  <2> HIDE DEF d
  <2>5. Place(d)
    BY <1>2, <2>3, <2>4 DEF Place
  <2> QED BY <1>u, <1>2, <2>3, <2>5, TypeOfDrive, DriveMoves
<1> QED BY <1>1, <1>2 DEF ForkSnapshot

LEMMA CheckLaneInv == ASSUME IInv, CheckLane PROVE IInv'
<1> DEFINE d == [Free EXCEPT !.pc = "resume", !.op = LastOp]
<1>u. /\ UNCHANGED <<durable, abort, agent, cont, calls, aborting, closer, crashes, idled, inherited>>
      /\ drv.pc = "claimed"
  BY DEF CheckLane
<1>1. CASE drv' = Leave
  BY <1>u, <1>1, LeaveInv, TypeOfDrive
<1>2. CASE drv' = d /\ ~Idle
  <2>1. d \in DriveType /\ d.pc = "resume" /\ d.op = LastOp
    <3>1. "resume" \in Pcs /\ "none" \in Kinds
      BY DEF Pcs, Kinds
    <3> QED BY <3>1, LastOpType, FreeWith
  <2>2. PICK k \in Ops : op[k].st = "open"
    BY <1>2 DEF Idle, OpenOps
  <2>3. LastOp = k
    BY <2>2, OpenIsLast DEF IInv, OpenOps
  <2> HIDE DEF d
  <2>4. Place(d)
    BY <2>1, <2>2, <2>3 DEF Place, PastControls
  <2> QED BY <1>u, <1>2, <2>1, <2>4, TypeOfDrive, DriveMoves
<1>3. ASSUME NEW pc \in Pcs, drv' = At(pc), Idle,
             pc = "controls" \/ (pc = "hooks" /\ drv.kind = "command")
      PROVE  IInv'
  <2> DEFINE a == At(pc)
  <2>1. a \in DriveType /\ a.pc = pc /\ a.kind = drv.kind
    BY AtRecord, TypeOfDrive
  <2> HIDE DEF a
  <2>2. Place(a)
    BY <1>3, <2>1 DEF Place, PastControls
  <2>3. drv' = a
    BY <1>3 DEF a
  <2> QED BY <1>u, <1>3, <2>1, <2>2, <2>3, TypeOfDrive, DriveMoves
<1>4. "controls" \in Pcs /\ "hooks" \in Pcs
  BY DEF Pcs
<1>5. \/ drv' = Leave \/ (drv' = d /\ ~Idle)
      \/ drv' = At("controls") /\ Idle
      \/ drv' = At("hooks") /\ Idle /\ drv.kind = "command"
  BY DEF CheckLane
<1> QED BY <1>1, <1>2, <1>3, <1>4, <1>5

(* Drive steps to a place that asks for nothing more than the last one.    *)
LEMMA AtInv ==
  ASSUME IInv, NEW pc \in Pcs, drv' = At(pc), Place(At(pc)),
         drv.pc \notin {"free", "publish"}, abort' = abort,
         UNCHANGED <<durable, calls, idled, closer, crashes, aborting, inherited>>,
         agent' \in {"none", "live", "aborted"}, cont' \in BOOLEAN,
         pc \in {"installed", "running"} => agent' # "none" /\ (abort => agent' = "aborted")
  PROVE  IInv'
<1> DEFINE a == At(pc)
<1>1. a \in DriveType /\ a.pc = pc
  BY AtRecord, TypeOfDrive
<1>2. Place(a) /\ drv' = a
  OBVIOUS
<1> HIDE DEF a
<1> QED BY <1>1, <1>2, TypeOfDrive, DriveMoves

LEMMA ControlsDoneInv == ASSUME IInv, ControlsDone PROVE IInv'
<1>1. "decide" \in Pcs /\ drv.pc = "controls" /\ PendingControls = {} /\ drv' = At("decide")
  BY DEF ControlsDone, Pcs
<1>2. Place(At("decide"))
  BY <1>1, AtRecord, TypeOfDrive DEF Place, PastControls
<1> QED BY <1>1, <1>2, AtInv, TypeOfDrive DEF ControlsDone

LEMMA StartEpochInv == ASSUME IInv, StartEpoch PROVE IInv'
<1>1. "install" \in Pcs /\ drv.pc = "started" /\ drv' = At("install") /\ cont' \in BOOLEAN
  BY DEF StartEpoch, Pcs
<1>2. Place(At("install"))
  BY <1>1, AtRecord, TypeOfDrive DEF Place, PastControls
<1> QED BY <1>1, <1>2, AtInv, TypeOfDrive DEF StartEpoch

LEMMA InstallInv == ASSUME IInv, Install PROVE IInv'
<1>1. "installed" \in Pcs /\ drv.pc = "install" /\ drv' = At("installed")
  BY DEF Install, Pcs
<1>2. Place(At("installed"))
  BY <1>1, AtRecord, TypeOfDrive DEF Place, PastControls
<1>3. agent' \in {"live", "aborted"} /\ (abort => agent' = "aborted")
  BY TypeOfDrive DEF Install
<1> QED BY <1>1, <1>2, <1>3, AtInv, TypeOfDrive DEF Install

(* A drive that has an outcome for its operation.                          *)
LEMMA FinishPlace ==
  ASSUME IInv, NEW o \in Outcomes, drv' = [At("finish") EXCEPT !.out = o],
         drv.pc \in {"resume", "installed", "running"},
         UNCHANGED <<durable, calls, idled, closer, crashes, aborting, abort, cont, inherited>>,
         agent' \in {"none", "live", "aborted"}
  PROVE  IInv'
<1> DEFINE d == [At("finish") EXCEPT !.out = o]
<1>1. d \in DriveType /\ d.pc = "finish" /\ d.op = drv.op /\ d.out = o /\ drv' = d
  BY AtFinish, TypeOfDrive
<1> HIDE DEF d
<1>2. Place(d)
  BY <1>1, TypeOfDrive DEF Place, PastControls
<1> QED BY <1>1, <1>2, TypeOfDrive, DriveMoves

LEMMA ResumeOperationInv == ASSUME IInv, ResumeOperation PROVE IInv'
<1>1. CASE drv' = At("install")
  <2>1. "install" \in Pcs /\ drv.pc = "resume"
    BY DEF ResumeOperation, Pcs
  <2>2. Place(At("install"))
    BY <2>1, AtRecord, TypeOfDrive DEF Place, PastControls
  <2> QED BY <1>1, <2>1, <2>2, AtInv, TypeOfDrive DEF ResumeOperation
<1>2. ASSUME NEW o \in Outcomes, drv' = [At("finish") EXCEPT !.out = o] PROVE IInv'
  BY <1>2, FinishPlace, TypeOfDrive DEF ResumeOperation
<1> QED BY <1>1, <1>2 DEF ResumeOperation

LEMMA EnterRunInv == ASSUME IInv, EnterRun PROVE IInv'
<1>1. CASE abort
  <2>1. "aborted" \in Outcomes
    BY DEF Outcomes
  <2> QED BY <1>1, <2>1, FinishPlace, TypeOfDrive DEF EnterRun
<1>2. CASE ~abort
  <2>1. "running" \in Pcs /\ drv.pc = "installed" /\ drv' = At("running") /\ agent' = agent
    BY <1>2 DEF EnterRun, Pcs
  <2>2. Place(At("running"))
    BY <2>1, AtRecord, TypeOfDrive DEF Place, PastControls
  <2>3. agent # "none"
    BY <2>1 DEF IInv, AbortInv
  <2> QED BY <1>2, <2>1, <2>2, <2>3, AtInv, TypeOfDrive DEF EnterRun
<1> QED BY <1>1, <1>2

LEMMA RunEndsInv == ASSUME IInv, RunEnds PROVE IInv'
  BY FinishPlace, TypeOfDrive DEF RunEnds

LEMMA OfferContinuationInv == ASSUME IInv, OfferContinuation PROVE IInv'
<1> DEFINE d == [At("commit") EXCEPT !.obs = Observe({})]
<1>1. Observe({}) \in ObsType /\ "commit" \in Pcs /\ drv.pc = "offer" /\ drv' = d
  BY ObserveType, TypeOfDrive DEF OfferContinuation, Pcs
<1>2. d \in DriveType /\ d.pc = "commit"
  BY <1>1, AtWith, TypeOfDrive
<1> HIDE DEF d
<1>3. Place(d)
  BY <1>1, <1>2, TypeOfDrive DEF Place, PastControls
<1> QED BY <1>1, <1>2, <1>3, TypeOfDrive, DriveMoves DEF OfferContinuation

LEMMA RunIdleHooksInv == ASSUME IInv, RunIdleHooks PROVE IInv'
<1>u. /\ UNCHANGED <<durable, abort, agent, calls, aborting, closer, crashes, inherited>>
      /\ UNCHANGED <<inp, op, ctl, rev, leaf, ready, forks, cell, owed, look, cmd, think>>
      /\ drv.pc = "hooks" /\ drv.kind # "command"
      /\ idled' = [idled EXCEPT ![LastOp] = idled[LastOp] + 1]
  BY DEF RunIdleHooks, durable, calls
<1>1. LastOp \in Ops /\ op[LastOp].idle /\ op[LastOp].st # "none" /\ idled[LastOp] = 0
  BY <1>u, TypeOfDrive DEF Place, Started
<1>2. idled \in [Ops -> Nat]
  BY DEF IInv, TypeOK
<1>3. idled' \in [Ops -> Nat] /\ idled'[LastOp] = 1 /\ \A k \in Ops \ {LastOp} : idled'[k] = idled[k]
  BY <1>u, <1>1, <1>2
<1>4. HookInv'
  BY <1>u, <1>1, <1>3 DEF IInv, HookInv
<1>5. PICK d \in {At("offer"), Leave} : drv' = d
  BY DEF RunIdleHooks
<1>6. d \in DriveType /\ d.pc \in {"offer", "release"}
  <2>1. "offer" \in Pcs
    BY DEF Pcs
  <2> QED BY <1>5, <2>1, AtRecord, FreeRecord, TypeOfDrive
<1>7. cont' \in BOOLEAN
  BY TypeOfDrive DEF RunIdleHooks
<1>8. Idle /\ PendingControls = {}
  BY <1>u, TypeOfDrive DEF Place, PastControls
<1>9. Place(drv)'
  <2>1. PendingControls' = {} /\ Idle'
    BY <1>u, <1>8, LastOpKept DEF PendingControls
  <2> QED BY <1>5, <1>6, <2>1 DEF Place
<1>10. DriveInv'
  BY <1>9, <1>u, TypeOfDrive DEF DriveInv
<1>11. TypeOK'
  BY <1>u, <1>3, <1>5, <1>6, <1>7 DEF IInv, TypeOK
<1>12. CellInv'
  BY <1>u, CellsKept
<1>13. AbortInv'
  BY <1>5, <1>6 DEF AbortInv
<1>14. OpsInv' /\ InputInv' /\ ControlInv'
  <2>1. PendingControls' = PendingControls
    BY <1>u DEF PendingControls
  <2>2. OpsInv' /\ InputInv'
    BY <1>u DEF IInv, OpsInv, InputInv
  <2>3. ControlInv'
    BY <1>u, <2>1, LastOpKept DEF IInv, ControlInv, CompletedIsForkable
  <2> QED BY <2>2, <2>3
<1> QED BY <1>4, <1>10, <1>11, <1>12, <1>13, <1>14 DEF IInv

-----------------------------------------------------------------------------
(* Commits that change an operation without starting or ending it.         *)

LEMMA StatesKept ==
  ASSUME \A k \in Ops : op'[k].st = op[k].st
  PROVE  LastOp' = LastOp /\ Started' = Started /\ OpenOps' = OpenOps /\ Idle' = Idle
<1>1. Started' = Started /\ OpenOps' = OpenOps
  BY DEF Started, OpenOps
<1> QED BY <1>1 DEF LastOp, Idle

LEMMA DecideInv == ASSUME IInv, Decide PROVE IInv'
<1>u. /\ UNCHANGED <<forks, inp, ctl, rev, abort, agent, cont, calls, aborting, closer, crashes,
                     idled, inherited>>
      /\ drv.pc = "decide"
  BY DEF Decide
<1>i. Idle /\ PendingControls = {}
  BY <1>u, TypeOfDrive DEF Place, PastControls
<1>p. "hooks" \in Pcs /\ "offer" \in Pcs /\ "commit" \in Pcs
  BY DEF Pcs
<1>1. CASE PendingInputs = {} /\ HooksDue
  <2>1. /\ drv' = At("hooks") /\ op' = [op EXCEPT ![LastOp].idle = TRUE]
        /\ leaf' = leaf + 1 /\ ready' = 0
    <3>1. ~(drv.kind = "continue" /\ cont)
      BY <1>1 DEF HooksDue
    <3>2. drv' = At("hooks")
      BY <1>1, <3>1 DEF Decide
    <3> QED BY <1>1, <3>2 DEF Decide
  <2>2. drv.kind # "command" /\ LastOp \in Ops /\ op[LastOp].st = "completed" /\ ~op[LastOp].idle
    BY <1>1, LastOpType, LaneBounds DEF HooksDue, Ops
  <2>3. At("hooks") \in DriveType /\ At("hooks").pc = "hooks" /\ At("hooks").kind = drv.kind
    BY <1>p, AtRecord, TypeOfDrive
  <2>4. op \in [Ops -> OpType] /\ idled \in [Ops -> Nat] /\ leaf \in Nat
    BY DEF IInv, TypeOK
  <2>5. op' \in [Ops -> OpType]
    <3>1. [op[LastOp] EXCEPT !.idle = TRUE] \in OpType
      BY <2>2, <2>4 DEF OpType
    <3>2. op' = [op EXCEPT ![LastOp] = [op[LastOp] EXCEPT !.idle = TRUE]]
      BY <2>1, <2>2, <2>4
    <3> QED BY <3>1, <3>2, <2>4
  <2>6. \A k \in Ops : op'[k].st = op[k].st /\ op'[k].ckpt = op[k].ckpt /\ (op[k].idle => op'[k].idle)
    BY <2>1, <2>2, <2>4 DEF OpType
  <2>7. op'[LastOp].idle
    BY <2>1, <2>2, <2>4 DEF OpType
  <2>8. LastOp' = LastOp /\ Started' = Started /\ OpenOps' = OpenOps /\ Idle' = Idle
    BY <2>6, StatesKept
  <2>9. PendingControls' = PendingControls
    BY <1>u DEF PendingControls
  <2>10. TypeOK'
    <3>1. leaf' \in Nat /\ ready' \in 0..MaxOps
      BY <2>1, <2>4, LaneBounds
    <3> QED BY <1>u, <2>1, <2>3, <2>5, <3>1 DEF IInv, TypeOK, calls
  <2>11. OpsInv' /\ HookInv' /\ InputInv'
    <3>1. OpsInv'
      BY <2>6 DEF IInv, OpsInv
    <3>2. HookInv'
      BY <1>u, <2>6 DEF IInv, HookInv
    <3>3. InputInv'
      BY <1>u, <2>6 DEF IInv, InputInv
    <3> QED BY <3>1, <3>2, <3>3
  <2>12. ControlInv'
    BY <1>u, <1>i, <2>6, <2>8, <2>9 DEF IInv, ControlInv, CompletedIsForkable
  <2>13. idled[LastOp] = 0 /\ LastOp \in Started
    BY <2>2 DEF IInv, HookInv, Started
  <2>14. DriveInv'
    <3>1. Place(drv)'
      BY <1>u, <1>i, <2>1, <2>3, <2>7, <2>8, <2>9, <2>13 DEF Place, PastControls
    <3> QED BY <3>1, <1>u, TypeOfDrive DEF DriveInv
  <2>15. CellInv'
    BY <1>u, CellsKept DEF calls
  <2>16. AbortInv'
    BY <2>1, <2>3 DEF AbortInv
  <2> QED BY <2>10, <2>11, <2>12, <2>14, <2>15, <2>16 DEF IInv
<1>2. CASE ~(PendingInputs = {} /\ HooksDue)
  <2>1. UNCHANGED <<op, leaf, ready>>
    BY <1>2 DEF Decide
  <2>2. UNCHANGED durable
    BY <1>u, <2>1 DEF durable
  <2>3. CASE drv' = Leave
    BY <1>u, <2>2, <2>3, LeaveInv, TypeOfDrive
  <2>4. CASE drv' = At("offer")
    <3>1. Place(At("offer"))
      BY <1>p, <1>i, AtRecord, TypeOfDrive DEF Place, PastControls
    <3> QED BY <1>u, <1>p, <2>2, <2>4, <3>1, AtInv, TypeOfDrive
  <2>5. CASE drv' = [At("commit") EXCEPT !.obs = Observe(PendingInputs)]
    <3> DEFINE d == [At("commit") EXCEPT !.obs = Observe(PendingInputs)]
    <3>1. Observe(PendingInputs) \in ObsType
      BY ObserveType, TypeOfDrive DEF PendingInputs
    <3>2. d \in DriveType /\ d.pc = "commit" /\ drv' = d
      BY <1>p, <2>5, <3>1, AtWith, TypeOfDrive
    <3> HIDE DEF d
    <3>3. Place(d)
      BY <1>i, <3>2 DEF Place, PastControls
    <3> QED BY <1>u, <2>2, <3>2, <3>3, TypeOfDrive, DriveMoves
  <2>6. drv' = Leave \/ drv' = At("offer") \/ drv' = [At("commit") EXCEPT !.obs = Observe(PendingInputs)]
    BY <1>2 DEF Decide
  <2> QED BY <2>3, <2>4, <2>5, <2>6
<1> QED BY <1>1, <1>2

LEMMA ApplyControlInv == ASSUME IInv, ApplyControl PROVE IInv'
<1>u. /\ UNCHANGED <<forks, inp, rev, leaf, abort, agent, calls, aborting, closer, crashes,
                     idled, inherited>>
      /\ UNCHANGED <<cell, owed, look, cmd, think>>
      /\ drv.pc = "controls"
  BY DEF ApplyControl, calls
<1>t. /\ op \in [Ops -> OpType] /\ ctl \in [Controls -> ControlType] /\ ready \in 0..MaxOps
      /\ drv \in DriveType
  BY DEF IInv, TypeOK
<1>i. Idle
  BY <1>u, TypeOfDrive DEF Place
<1>1. PICK c \in PendingControls :
        \/ /\ Applicable(c)
           /\ ctl' = [ctl EXCEPT ![c].st = "applied"]
           /\ IF ClosesTurn(c)
                THEN op' = [op EXCEPT ![LastOp].ckpt = TRUE] /\ ready' = 0
                ELSE op' = op /\ ready' = (IF ready = ctl[c].op THEN ready ELSE 0)
           /\ cont' \in BOOLEAN
           /\ drv' = drv
        \/ /\ ~Applicable(c)
           /\ drv' = Leave
           /\ UNCHANGED <<op, ctl, ready, cont>>
  BY DEF ApplyControl
<1>2. CASE drv' = Leave /\ UNCHANGED <<op, ctl, ready, cont>>
  <2>1. UNCHANGED <<durable, calls>>
    BY <1>u, <1>2 DEF durable, calls
  <2> QED BY <1>u, <1>2, <2>1, LeaveInv, TypeOfDrive
<1>3. CASE /\ ctl' = [ctl EXCEPT ![c].st = "applied"]
           /\ IF ClosesTurn(c)
                THEN op' = [op EXCEPT ![LastOp].ckpt = TRUE] /\ ready' = 0
                ELSE op' = op /\ ready' = (IF ready = ctl[c].op THEN ready ELSE 0)
           /\ cont' \in BOOLEAN
           /\ drv' = drv
  <2>1. c \in Controls /\ ctl[c].op \in Started /\ \A k \in Started : k <= ctl[c].op
    BY DEF IInv, ControlInv, PendingControls
  <2>2. LastOp = ctl[c].op /\ LastOp \in Ops
    BY <2>1, LastOpIs DEF Started
  <2>3. /\ ctl' \in [Controls -> ControlType] /\ ctl'[c].st = "applied"
        /\ \A d \in Controls : ctl'[d].op = ctl[d].op /\ (d # c => ctl'[d] = ctl[d])
    <3>1. [ctl[c] EXCEPT !.st = "applied"] \in ControlType
      BY <1>t, <2>1 DEF ControlType
    <3>2. ctl' = [ctl EXCEPT ![c] = [ctl[c] EXCEPT !.st = "applied"]]
      BY <1>3, <1>t, <2>1
    <3>3. ctl' \in [Controls -> ControlType]
      BY <1>t, <3>1, <3>2
    <3>4. ctl'[c].st = "applied" /\ ctl'[c].op = ctl[c].op
      BY <1>t, <2>1, <3>2 DEF ControlType
    <3>5. \A d \in Controls : d # c => ctl'[d] = ctl[d]
      BY <1>t, <3>2
    <3> QED BY <3>3, <3>4, <3>5
  <2>4. PendingControls' = PendingControls \ {c}
    BY <2>1, <2>3 DEF PendingControls
  <2>5. /\ op' \in [Ops -> OpType]
        /\ \A k \in Ops : op'[k].st = op[k].st /\ op'[k].idle = op[k].idle
        /\ \A k \in Ops \ {LastOp} : op'[k] = op[k]
        /\ IF ClosesTurn(c) THEN op'[LastOp].ckpt = TRUE ELSE op'[LastOp] = op[LastOp]
    <3>1. CASE ClosesTurn(c)
      <4>1. [op[LastOp] EXCEPT !.ckpt = TRUE] \in OpType
        BY <1>t, <2>2 DEF OpType
      <4>2. op' = [op EXCEPT ![LastOp] = [op[LastOp] EXCEPT !.ckpt = TRUE]]
        BY <1>3, <1>t, <2>2, <3>1
      <4>3. op' \in [Ops -> OpType] /\ \A k \in Ops \ {LastOp} : op'[k] = op[k]
        BY <1>t, <4>1, <4>2
      <4>4. /\ op'[LastOp].st = op[LastOp].st /\ op'[LastOp].idle = op[LastOp].idle
            /\ op'[LastOp].ckpt = TRUE
        BY <1>t, <2>2, <4>2 DEF OpType
      <4> QED BY <3>1, <4>3, <4>4
    <3>2. CASE ~ClosesTurn(c)
      BY <1>3, <1>t, <3>2
    <3> QED BY <3>1, <3>2
  <2>6. LastOp' = LastOp /\ Started' = Started /\ OpenOps' = OpenOps /\ Idle' = Idle
    BY <2>5, StatesKept
  <2>7. ready' \in 0..MaxOps
    BY <1>3, <1>t, LaneBounds
  <2>8. TypeOK'
    BY <1>u, <1>3, <2>3, <2>5, <2>7 DEF IInv, TypeOK
  <2>9. OpsInv'
    <3>1. \A k \in Ops : op'[k].ckpt => op'[k].st = "completed"
      <4>1. ASSUME ClosesTurn(c) PROVE op'[LastOp].st = "completed"
        BY <4>1, <2>2, <2>5 DEF ClosesTurn
      <4> QED BY <4>1, <2>5 DEF IInv, OpsInv
    <3> QED BY <3>1, <2>5 DEF IInv, OpsInv
  <2>10. HookInv' /\ InputInv'
    <3>1. HookInv'
      BY <1>u, <2>5 DEF IInv, HookInv
    <3>2. InputInv'
      BY <1>u, <2>5 DEF IInv, InputInv
    <3> QED BY <3>1, <3>2
  <2>11. ControlInv'
    <3>1. \A d \in PendingControls' : ctl'[d].op \in Started' /\ \A k \in Started' : k <= ctl'[d].op
      BY <2>3, <2>4, <2>6 DEF IInv, ControlInv, PendingControls
    <3>2. CompletedIsForkable'
      <4> SUFFICES ASSUME NEW k \in Ops, op'[k].st = "completed"
                   PROVE  op'[k].ckpt <=> \A d \in PendingControls' : ctl'[d].op # k
        BY DEF CompletedIsForkable
      <4>1. op[k].st = "completed" /\ (op[k].ckpt <=> \A d \in PendingControls : ctl[d].op # k)
        BY <2>5 DEF IInv, ControlInv, CompletedIsForkable
      <4>2. \A d \in PendingControls : d \in Controls /\ ctl'[d].op = ctl[d].op
        BY <2>3 DEF PendingControls
      <4>3. CASE k # LastOp
        BY <4>1, <4>2, <4>3, <2>2, <2>4, <2>5
      <4>4. CASE k = LastOp
        <5>1. ~op[k].ckpt
          BY <4>1, <4>4, <2>2
        <5>2. ClosesTurn(c) <=> \A d \in PendingControls : ctl[d].op = ctl[c].op => d = c
          BY <4>1, <4>4, <5>1, <2>2 DEF ClosesTurn
        <5>3. CASE ClosesTurn(c)
          BY <4>2, <4>4, <5>2, <5>3, <2>2, <2>4, <2>5
        <5>4. CASE ~ClosesTurn(c)
          BY <4>2, <4>4, <5>1, <5>2, <5>4, <2>2, <2>4, <2>5
        <5> QED BY <5>3, <5>4
      <4> QED BY <4>3, <4>4
    <3> QED BY <3>1, <3>2 DEF ControlInv
  <2>12. DriveInv'
    <3>1. Place(drv)'
      BY <1>u, <1>3, <1>i, <2>6 DEF Place, PastControls
    <3> QED BY <3>1, <1>u, <1>3 DEF IInv, DriveInv
  <2>13. CellInv'
    BY <1>u, <1>3, CellsKept
  <2>14. AbortInv'
    BY <1>u, <1>3 DEF AbortInv
  <2> QED BY <2>8, <2>9, <2>10, <2>11, <2>12, <2>13, <2>14 DEF IInv
<1> QED BY <1>1, <1>2, <1>3

-----------------------------------------------------------------------------
(* The start and the end of an operation.                                  *)

LEMMA AcceptInv == ASSUME IInv, Accept PROVE IInv'
<1>u. /\ UNCHANGED <<forks, ctl, rev, leaf, abort, agent, cont, calls, aborting, closer,
                     crashes, idled, inherited>>
      /\ UNCHANGED <<cell, owed, look, cmd, think>>
      /\ drv.pc = "commit"
  BY DEF Accept, calls
<1>t. op \in [Ops -> OpType] /\ inp \in [Inputs -> InputType] /\ drv \in DriveType
  BY DEF IInv, TypeOK
<1>i. Idle /\ PendingControls = {}
  BY <1>u, TypeOfDrive DEF Place, PastControls
<1> DEFINE k == LastOp + 1
           r == [st |-> "open", ckpt |-> FALSE, idle |-> FALSE,
                 kind |-> IF drv.obs.queue = {} THEN "continuation" ELSE "run"]
           d == [Free EXCEPT !.pc = "started", !.op = k]
<1>1. CASE drv' = Leave /\ UNCHANGED <<inp, op, ready>>
  <2>1. UNCHANGED <<durable, calls>>
    BY <1>u, <1>1 DEF durable
  <2> QED BY <1>u, <1>1, <2>1, LeaveInv, TypeOfDrive
<1>2. CASE /\ StillCurrent /\ LastOp < MaxOps
           /\ op' = [op EXCEPT ![k] = r]
           /\ inp' = [i \in Inputs |->
                        IF i \in drv.obs.queue THEN [st |-> "dispatched", op |-> k, out |-> "none"]
                                               ELSE inp[i]]
           /\ drv' = d
           /\ ready' = 0
  <2>1. k \in Ops /\ k \in 0..MaxOps /\ LastOp \in Nat
    BY <1>2, LastOpType, LaneBounds DEF Ops
  <2>2. \A j \in Started : j < k
    <3>1. \A j \in Started : j <= LastOp /\ j \in Nat
      BY LastOpStarted, LaneBounds DEF Started, Ops
    <3> QED BY <3>1, <2>1
  <2>3. r \in OpType /\ r.st = "open" /\ r.ckpt = FALSE
    BY DEF OpType
  <2>4. /\ d \in DriveType /\ d.pc = "started" /\ d.op = k
    <3>1. "started" \in Pcs /\ "none" \in Kinds
      BY DEF Pcs, Kinds
    <3> QED BY <2>1, <3>1, FreeWith
  <2>5. op[k].st = "none"
    BY <2>1, <2>2 DEF Started
  <2> HIDE DEF k, r, d
  <2>6. op' \in [Ops -> OpType] /\ op'[k] = r /\ \A j \in Ops \ {k} : op'[j] = op[j]
    BY <1>2, <1>t, <2>1, <2>3
  <2>7. /\ inp' \in [Inputs -> InputType]
        /\ \A i \in Inputs : IF i \in drv.obs.queue
                             THEN inp'[i] = [st |-> "dispatched", op |-> k, out |-> "none"]
                             ELSE inp'[i] = inp[i]
    <3>1. [st |-> "dispatched", op |-> k, out |-> "none"] \in InputType
      BY <2>1 DEF InputType
    <3> QED BY <1>2, <1>t, <3>1
  <2>8. \A i \in drv.obs.queue : i \in Inputs /\ inp[i].st = "pending"
    BY <1>2 DEF StillCurrent, PendingInputs
  <2>9. Started' = Started \cup {k}
    BY <2>1, <2>3, <2>6 DEF Started
  <2>10. TypeOK'
    <3>1. ready' \in 0..MaxOps
      BY <1>2, LaneBounds
    <3> QED BY <1>u, <1>2, <2>4, <2>6, <2>7, <3>1 DEF IInv, TypeOK
  <2>11. OpsInv'
    <3>1. ASSUME NEW i \in Ops, NEW j \in Ops, i < j, op'[j].st # "none" PROVE op'[i].st \in Outcomes
      <4>1. CASE j = k
        <5>1. i # k /\ op'[i] = op[i]
          BY <3>1, <4>1, <2>6, LaneBounds DEF Ops
        <5>2. i <= LastOp
          BY <3>1, <4>1, <2>1, LaneBounds DEF Ops, k
        <5>3. Started # {}
          <6>1. CASE Started = {}
            <7>1. LastOp = 0
              BY <6>1 DEF LastOp
            <7> QED BY <5>2, <7>1, LaneBounds DEF Ops
          <6> QED BY <6>1
        <5>4. LastOp \in Started
          BY <5>3, LastOpStarted
        <5>5. op[LastOp].st \in Outcomes
          <6>1. op[LastOp].st # "open" /\ op[LastOp].st # "none" /\ LastOp \in Ops
            BY <1>i, <5>4 DEF Idle, OpenOps, Started
          <6> QED BY <6>1, <1>t DEF OpType
        <5>6. CASE i = LastOp
          BY <5>1, <5>5, <5>6
        <5>7. CASE i < LastOp
          BY <5>1, <5>4, <5>7 DEF IInv, OpsInv, Started
        <5> QED BY <5>2, <5>6, <5>7, <2>1, LaneBounds DEF Ops
      <4>2. CASE j # k
        <5>1. op'[j] = op[j] /\ j \in Started
          BY <3>1, <4>2, <2>6 DEF Started
        <5>2. i # k
          BY <3>1, <5>1, <2>1, <2>2, LaneBounds DEF Ops
        <5> QED BY <3>1, <5>1, <5>2, <2>6 DEF IInv, OpsInv
      <4> QED BY <4>1, <4>2
    <3>2. \A j \in Ops : op'[j].ckpt => op'[j].st = "completed"
      BY <2>3, <2>6 DEF IInv, OpsInv
    <3> QED BY <3>1, <3>2 DEF OpsInv
  <2>12. HookInv'
    <3>1. idled[k] = 0
      BY <2>1, <2>5 DEF IInv, HookInv
    <3> QED BY <1>u, <3>1, <2>6 DEF IInv, HookInv
  <2>13. ControlInv'
    <3>1. PendingControls' = {}
      BY <1>u, <1>i DEF PendingControls
    <3>2. \A j \in Ops : op'[j].st = "completed" => op'[j].ckpt
      BY <1>i, <2>3, <2>6 DEF IInv, ControlInv, CompletedIsForkable
    <3> QED BY <3>1, <3>2 DEF ControlInv, CompletedIsForkable
  <2>14. InputInv'
    <3> SUFFICES ASSUME NEW i \in Inputs
                 PROVE  /\ inp'[i].st \in {"none", "pending", "withdrawn"} => inp'[i].op = 0
                        /\ inp'[i].st = "dispatched" => inp'[i].op \in Ops /\ op'[inp'[i].op].st = "open"
                        /\ inp'[i].st = "settled" =>
                             /\ inp'[i].op \in Ops /\ inp'[i].out \in Outcomes
                             /\ op'[inp'[i].op].st = inp'[i].out
      BY DEF InputInv
    <3>1. CASE i \in drv.obs.queue
      BY <3>1, <2>1, <2>3, <2>6, <2>7
    <3>2. CASE i \notin drv.obs.queue
      <4>1. inp'[i] = inp[i]
        BY <3>2, <2>7
      <4>2. inp[i].st \in {"dispatched", "settled"} => inp[i].op # k
        BY <2>5 DEF IInv, InputInv, Outcomes
      <4> QED BY <4>1, <4>2, <2>6 DEF IInv, InputInv
    <3> QED BY <3>1, <3>2
  <2>15. CellInv'
    <3>1. \A i \in Inputs : Terminal(i) => i \notin drv.obs.queue
      BY <2>8 DEF Terminal
    <3>2. \A i \in Inputs : i \in drv.obs.queue => inp'[i].st = "dispatched"
      BY <2>7
    <3>3. CompletionTruthful'
      <4>1. \A i \in Inputs : cell[i].st \in {"withdrawn", "settled"} => cell[i] = inp[i] /\ Terminal(i)
        BY DEF IInv, CellInv, CompletionTruthful, Terminal
      <4> QED BY <1>u, <3>1, <4>1, <2>7 DEF CompletionTruthful
    <3>4. NoLostCompletion'
      <4> SUFFICES ASSUME NEW i \in Inputs, cell'[i].st = "waiting", Terminal(i)'
                   PROVE  i \in owed' \/ i \in look'
        BY DEF NoLostCompletion
      <4>1. i \notin drv.obs.queue /\ inp'[i] = inp[i] /\ Terminal(i)
        BY <3>2, <2>7 DEF Terminal
      <4> QED BY <4>1, <1>u DEF IInv, CellInv, NoLostCompletion
    <3>5. \A i \in owed' : inp'[i].st = "withdrawn"
      <4>1. \A i \in owed : i \in Inputs /\ inp[i].st = "withdrawn"
        BY DEF IInv, CellInv, TypeOK
      <4> QED BY <4>1, <1>u, <2>7, <2>8
    <3> QED BY <3>3, <3>4, <3>5 DEF CellInv
  <2>16. DriveInv'
    <3>1. Place(drv)'
      BY <1>2, <2>1, <2>3, <2>4, <2>6 DEF Place, PastControls
    <3> QED BY <3>1, <1>u, TypeOfDrive DEF DriveInv
  <2>17. AbortInv'
    BY <1>2, <2>4 DEF AbortInv
  <2> QED BY <2>10, <2>11, <2>12, <2>13, <2>14, <2>15, <2>16, <2>17 DEF IInv
<1> QED BY <1>1, <1>2 DEF Accept

LEMMA FinishCommitInv == ASSUME IInv, FinishCommit PROVE IInv'
<1>u. /\ UNCHANGED <<forks, ctl, rev, leaf, abort, agent, cont, calls, aborting, closer,
                     crashes, idled, inherited>>
      /\ UNCHANGED <<cell, owed, look, cmd, think>>
      /\ drv.pc = "finish" /\ drv' = At("publish")
  BY DEF FinishCommit, calls
<1>t. /\ op \in [Ops -> OpType] /\ inp \in [Inputs -> InputType] /\ drv \in DriveType
      /\ drv.op \in 0..MaxOps /\ drv.out \in Outcomes /\ drv.op \in Ops /\ op[drv.op].st = "open"
  BY <1>u, TypeOfDrive DEF Place, IInv, TypeOK
<1> DEFINE k == drv.op
           settled == drv.out = "completed" /\ \A c \in PendingControls : ctl[c].op # drv.op
           r == [op[k] EXCEPT !.st = drv.out, !.ckpt = settled]
           new == [st |-> "settled", op |-> k, out |-> drv.out]
<1>1. /\ op' = [op EXCEPT ![k] = r]
      /\ ready' = IF settled THEN 0 ELSE k
      /\ inp' = [i \in Inputs |-> IF inp[i].st = "dispatched" /\ inp[i].op = k THEN new ELSE inp[i]]
  BY DEF FinishCommit
<1>2. settled \in BOOLEAN
  BY Zenon
<1>3. settled <=> drv.out = "completed" /\ \A c \in PendingControls : ctl[c].op # k
  OBVIOUS
<1> HIDE DEF settled
<1>4. r \in OpType
  <2>1. op[k] \in OpType /\ drv.out \in {"none", "open"} \cup Outcomes
    BY <1>t
  <2>2. [op[k] EXCEPT !.st = drv.out] \in OpType
    BY <2>1 DEF OpType
  <2>3. r = [[op[k] EXCEPT !.st = drv.out] EXCEPT !.ckpt = settled]
    BY <2>1 DEF OpType
  <2> QED BY <1>2, <2>2, <2>3 DEF OpType
<1>5. r.st = drv.out /\ r.ckpt = settled /\ r.idle = op[k].idle
  BY <1>t DEF OpType
<1>6. new \in InputType /\ new.st = "settled" /\ new.op = k /\ new.out = drv.out
  BY <1>t DEF InputType
<1> HIDE DEF r, new
<1>7. op' \in [Ops -> OpType] /\ op'[k] = r /\ \A j \in Ops \ {k} : op'[j] = op[j]
  BY <1>1, <1>4, <1>t
<1>8. /\ inp' \in [Inputs -> InputType]
      /\ \A i \in Inputs : inp'[i] = IF inp[i].st = "dispatched" /\ inp[i].op = k THEN new ELSE inp[i]
  BY <1>1, <1>6, <1>t
<1>9. At("publish") \in DriveType /\ At("publish").pc = "publish" /\ At("publish").op = k
  <2>1. "publish" \in Pcs
    BY DEF Pcs
  <2> QED BY <2>1, AtRecord, TypeOfDrive
<1>10. TypeOK'
  <2>1. ready' \in 0..MaxOps
    BY <1>1, <1>t, LaneBounds
  <2> QED BY <1>u, <1>7, <1>8, <1>9, <2>1 DEF IInv, TypeOK
<1>11. Started' = Started
  <2>1. \A j \in Ops : op'[j].st # "none" <=> op[j].st # "none"
    BY <1>5, <1>7, <1>t DEF Outcomes
  <2> QED BY <2>1 DEF Started
<1>12. OpsInv'
  <2>1. \A j \in Ops : /\ op'[j].st # "none" => op[j].st # "none"
                       /\ op[j].st \in Outcomes => op'[j].st \in Outcomes
    BY <1>5, <1>7, <1>t DEF Outcomes
  <2>2. \A j \in Ops : op'[j].ckpt => op'[j].st = "completed"
    BY <1>3, <1>5, <1>7 DEF IInv, OpsInv
  <2> QED BY <2>1, <2>2 DEF IInv, OpsInv
<1>13. HookInv'
  BY <1>u, <1>5, <1>7, <1>t DEF IInv, HookInv, Outcomes
<1>14. ControlInv'
  <2>1. PendingControls' = PendingControls
    BY <1>u DEF PendingControls
  <2>2. CompletedIsForkable'
    BY <1>u, <1>3, <1>5, <1>7, <2>1 DEF IInv, ControlInv, CompletedIsForkable
  <2> QED BY <1>u, <1>11, <2>1, <2>2 DEF IInv, ControlInv
<1>15. InputInv'
  <2> SUFFICES ASSUME NEW i \in Inputs
               PROVE  /\ inp'[i].st \in {"none", "pending", "withdrawn"} => inp'[i].op = 0
                      /\ inp'[i].st = "dispatched" => inp'[i].op \in Ops /\ op'[inp'[i].op].st = "open"
                      /\ inp'[i].st = "settled" =>
                           /\ inp'[i].op \in Ops /\ inp'[i].out \in Outcomes
                           /\ op'[inp'[i].op].st = inp'[i].out
    BY DEF InputInv
  <2>1. CASE inp[i].st = "dispatched" /\ inp[i].op = k
    BY <2>1, <1>5, <1>6, <1>7, <1>8, <1>t
  <2>2. CASE ~(inp[i].st = "dispatched" /\ inp[i].op = k)
    <3>1. inp'[i] = inp[i]
      BY <2>2, <1>8
    <3>2. inp[i].st = "settled" => inp[i].op # k
      BY <1>t DEF IInv, InputInv, Outcomes
    <3> QED BY <2>2, <3>1, <3>2, <1>7 DEF IInv, InputInv
  <2> QED BY <2>1, <2>2
<1>16. CellInv'
  <2>1. CompletionTruthful'
    <3>1. \A i \in Inputs : cell[i].st \in {"withdrawn", "settled"} => cell[i] = inp[i] /\ inp[i].st # "dispatched"
      BY DEF IInv, CellInv, CompletionTruthful
    <3> QED BY <1>u, <1>8, <3>1 DEF CompletionTruthful
  <2>2. NoLostCompletion'
    <3> SUFFICES ASSUME NEW i \in Inputs, cell'[i].st = "waiting", Terminal(i)'
                 PROVE  i \in owed' \/ i \in look' \/ (drv'.pc = "publish" /\ inp'[i].op = drv'.op)
      BY DEF NoLostCompletion
    <3>1. CASE inp[i].st = "dispatched" /\ inp[i].op = k
      BY <3>1, <1>u, <1>6, <1>8, <1>9
    <3>2. CASE ~(inp[i].st = "dispatched" /\ inp[i].op = k)
      <4>1. inp'[i] = inp[i] /\ Terminal(i)
        BY <3>2, <1>8 DEF Terminal
      <4> QED BY <4>1, <1>u DEF IInv, CellInv, NoLostCompletion
    <3> QED BY <3>1, <3>2
  <2>3. \A i \in owed' : inp'[i].st = "withdrawn"
    <3>1. \A i \in owed : i \in Inputs /\ inp[i].st = "withdrawn"
      BY DEF IInv, CellInv, TypeOK
    <3> QED BY <3>1, <1>u, <1>8
  <2> QED BY <2>1, <2>2, <2>3 DEF CellInv
<1>17. DriveInv'
  <2>1. Place(drv)'
    BY <1>u, <1>t, <1>5, <1>7, <1>9 DEF Place, PastControls
  <2> QED BY <2>1, <1>u, TypeOfDrive DEF DriveInv
<1>18. AbortInv'
  BY <1>u, <1>9 DEF AbortInv
<1> QED BY <1>10, <1>12, <1>13, <1>14, <1>15, <1>16, <1>17, <1>18 DEF IInv

(* What a settlement of cells does.                                        *)
LEMMA SettleIs ==
  ASSUME TypeOK, NEW is \in SUBSET Inputs, \A i \in is : Terminal(i), cell' = Settle(is, inp)
  PROVE  /\ cell' \in [Inputs -> CellType]
         /\ \A i \in Inputs : cell'[i] = IF i \in is /\ cell[i].st = "waiting" THEN inp[i] ELSE cell[i]
<1>1. \A i \in is : inp[i] \in CellType
  BY DEF TypeOK, InputType, CellType, Terminal
<1>2. \A i \in Inputs : cell'[i] = IF i \in is /\ cell[i].st = "waiting" THEN inp[i] ELSE cell[i]
  BY DEF Settle
<1>3. \A i \in Inputs : cell'[i] \in CellType
  BY <1>1, <1>2 DEF TypeOK
<1> QED BY <1>2, <1>3 DEF Settle

LEMMA PublishInv == ASSUME IInv, Publish PROVE IInv'
<1> DEFINE is == {i \in Inputs : inp[i].op = drv.op}
<1>u. /\ UNCHANGED <<durable, abort, agent, cont, owed, look, cmd, think, aborting,
                     closer, crashes, idled, inherited>>
      /\ UNCHANGED <<inp, op, ctl, rev, leaf, ready, forks>>
      /\ drv.pc = "publish" /\ drv' = At("clear") /\ cell' = Settle(is, inp)
  BY DEF Publish, durable
<1>1. drv.op \in Ops /\ op[drv.op].st \in Outcomes
  BY <1>u, TypeOfDrive DEF Place
<1>2. \A i \in is : Terminal(i)
  <2> SUFFICES ASSUME NEW i \in Inputs, inp[i].op = drv.op PROVE Terminal(i)
    OBVIOUS
  <2>1. inp[i].op # 0
    BY <1>1, LaneBounds DEF Ops
  <2>2. inp[i].st # "dispatched"
    BY <1>1 DEF IInv, InputInv, Outcomes
  <2>3. inp[i].st \in {"none", "pending", "withdrawn", "dispatched", "settled"}
    BY DEF IInv, TypeOK, InputType
  <2> QED BY <2>1, <2>2, <2>3 DEF IInv, InputInv, Terminal
<1>3. /\ cell' \in [Inputs -> CellType]
      /\ \A i \in Inputs : cell'[i] = IF i \in is /\ cell[i].st = "waiting" THEN inp[i] ELSE cell[i]
  BY <1>u, <1>2, TypeOfDrive, SettleIs
<1>4. At("clear") \in DriveType /\ At("clear").pc = "clear"
  <2>1. "clear" \in Pcs
    BY DEF Pcs
  <2> QED BY <2>1, AtRecord, TypeOfDrive
<1>5. TypeOK'
  BY <1>u, <1>3, <1>4 DEF IInv, TypeOK
<1>6. CellInv'
  <2>1. CompletionTruthful'
    BY <1>u, <1>3 DEF IInv, CellInv, CompletionTruthful
  <2>2. NoLostCompletion'
    <3> SUFFICES ASSUME NEW i \in Inputs, cell'[i].st = "waiting", Terminal(i)'
                 PROVE  i \in owed' \/ i \in look'
      BY DEF NoLostCompletion
    <3>1. Terminal(i) /\ inp[i].st # "waiting"
      BY <1>u DEF Terminal
    <3>2. i \notin is /\ cell[i].st = "waiting"
      BY <1>3, <3>1
    <3> QED BY <1>u, <3>1, <3>2 DEF IInv, CellInv, NoLostCompletion
  <2> QED BY <1>u, <2>1, <2>2 DEF IInv, CellInv
<1>7. DriveInv'
  <2>1. Place(drv)'
    BY <1>u, <1>4 DEF Place, PastControls
  <2> QED BY <2>1, <1>u, TypeOfDrive DEF DriveInv
<1>8. AbortInv'
  BY <1>u, <1>4 DEF AbortInv
<1> QED BY <1>u, <1>5, <1>6, <1>7, <1>8, LaneKept DEF IInv

LEMMA RolloverInv == ASSUME IInv, Rollover PROVE IInv'
<1>u. /\ UNCHANGED <<forks, inp, op, ctl, leaf, abort, cont, aborting, closer, crashes, idled, inherited>>
      /\ UNCHANGED <<cell, owed, look, cmd, think>>
      /\ drv.pc = "running" /\ drv' = At("install") /\ agent' = "none" /\ ready' = 0
      /\ rev < MaxRevisions /\ rev' = rev + 1
  BY DEF Rollover, calls
<1>1. At("install") \in DriveType /\ At("install").pc = "install" /\ At("install").op = drv.op
  <2>1. "install" \in Pcs
    BY DEF Pcs
  <2> QED BY <2>1, AtRecord, TypeOfDrive
<1>2. TypeOK'
  <2>1. rev' \in 1..MaxRevisions /\ ready' \in 0..MaxOps
    BY <1>u, LaneBounds DEF IInv, TypeOK
  <2> QED BY <1>u, <1>1, <2>1 DEF IInv, TypeOK
<1>3. Place(At("install"))
  BY <1>u, <1>1, TypeOfDrive DEF Place, PastControls
<1>4. DriveInv'
  <2>1. Place(drv)'
    BY <1>u, <1>3, PlaceMoves
  <2> QED BY <2>1, <1>u, TypeOfDrive DEF DriveInv
<1>5. AbortInv' /\ CellInv'
  BY <1>u, <1>1, CellsKept DEF AbortInv
<1> QED BY <1>u, <1>2, <1>4, <1>5, LaneKept DEF IInv

LEMMA ForkCommitInv == ASSUME IInv, ForkCommit PROVE IInv'
<1>u. /\ UNCHANGED <<inp, op, ctl, rev, leaf, abort, agent, cont, aborting, closer, crashes,
                     idled, inherited>>
      /\ UNCHANGED <<cell, owed, look, cmd, think>>
      /\ drv.pc = "fork" /\ drv' = Leave
  BY DEF ForkCommit, calls
<1>1. forks' \in [ForkLanes -> 0..MaxOps] /\ ready' \in 0..MaxOps
  BY LaneBounds DEF ForkCommit, IInv, TypeOK, Ops
<1>2. TypeOK'
  BY <1>u, <1>1, FreeRecord DEF IInv, TypeOK
<1>3. DriveInv'
  <2>1. Place(drv)'
    BY <1>u, FreeRecord DEF Place, PastControls
  <2> QED BY <2>1, <1>u, TypeOfDrive DEF DriveInv
<1>4. AbortInv' /\ CellInv'
  BY <1>u, FreeRecord, CellsKept DEF AbortInv
<1> QED BY <1>u, <1>2, <1>3, <1>4, LaneKept DEF IInv

-----------------------------------------------------------------------------
(* The calls beside a drive.                                               *)

(* A drive stays where it is while inputs move, if none returns to the     *)
(* queue.                                                                  *)
LEMMA PlaceStays ==
  ASSUME IInv, UNCHANGED <<op, ctl, idled, drv>>,
         \A i \in Inputs : inp[i].st \notin {"none", "pending"} => inp'[i].st \notin {"none", "pending"}
  PROVE  Place(drv)'
<1>1. PendingControls' = PendingControls
  BY DEF PendingControls
<1>2. drv.obs.queue \subseteq Inputs
  BY TypeOfDrive DEF DriveType, ObsType
<1>3. Place(drv)
  BY TypeOfDrive
<1> QED BY <1>1, <1>2, <1>3, LastOpKept DEF Place, PastControls

(* A call that leaves the drive, the lane and its claim alone.             *)
LEMMA CallKeeps ==
  ASSUME IInv, TypeOK', UNCHANGED <<inp, op, ctl, idled, drv, closer, abort, agent, aborting>>, CellInv'
  PROVE  IInv'
<1>1. DriveInv'
  <2>1. Place(drv)'
    BY PlaceStays
  <2> QED BY <2>1, TypeOfDrive DEF DriveInv
<1>2. AbortInv'
  BY DEF IInv, AbortInv
<1> QED BY <1>1, <1>2, LaneKept DEF IInv

(* The admission of an input.                                              *)
LEMMA AcceptInputKeeps ==
  ASSUME IInv, AcceptInput, UNCHANGED <<op, ctl, owed, look, idled>>,
         drv.pc = "publish" => UNCHANGED drv
  PROVE  /\ inp' \in [Inputs -> InputType] /\ cell' \in [Inputs -> CellType] /\ ready' \in 0..MaxOps
         /\ OpsInv' /\ ControlInv' /\ InputInv' /\ CellInv' /\ HookInv'
         /\ \A i \in Inputs : inp[i].st # "none" => inp'[i] = inp[i]
<1> DEFINE new == [st |-> "pending", op |-> 0, out |-> "none"]
           wait == [st |-> "waiting", op |-> 0, out |-> "none"]
<1>1. PICK n \in Inputs : /\ inp[n].st = "none"
                          /\ inp' = [inp EXCEPT ![n] = new] /\ cell' = [cell EXCEPT ![n] = wait]
                          /\ ready' = 0
  BY DEF AcceptInput
<1>2. inp \in [Inputs -> InputType] /\ cell \in [Inputs -> CellType] /\ owed \subseteq Inputs
  BY DEF IInv, TypeOK
<1>3. new \in InputType /\ wait \in CellType /\ new.st = "pending" /\ new.op = 0 /\ wait.st = "waiting"
  BY LaneBounds DEF InputType, CellType
<1> HIDE DEF new, wait
<1>4. /\ inp' \in [Inputs -> InputType] /\ cell' \in [Inputs -> CellType]
      /\ inp'[n] = new /\ cell'[n] = wait
      /\ \A i \in Inputs \ {n} : inp'[i] = inp[i] /\ cell'[i] = cell[i]
  BY <1>1, <1>2, <1>3
<1>5. PendingControls' = PendingControls
  BY DEF PendingControls
<1>6. OpsInv' /\ HookInv'
  BY DEF IInv, OpsInv, HookInv
<1>7. ControlInv'
  BY <1>5, LastOpKept DEF IInv, ControlInv, CompletedIsForkable
<1>8. InputInv'
  BY <1>3, <1>4 DEF IInv, InputInv
<1>9. CellInv'
  <2>1. CompletionTruthful'
    BY <1>3, <1>4 DEF IInv, CellInv, CompletionTruthful
  <2>2. NoLostCompletion'
    <3> SUFFICES ASSUME NEW i \in Inputs, cell'[i].st = "waiting", Terminal(i)'
                 PROVE  i \in owed' \/ i \in look' \/ (drv'.pc = "publish" /\ inp'[i].op = drv'.op)
      BY DEF NoLostCompletion
    <3>1. i # n
      BY <1>3, <1>4 DEF Terminal
    <3>2. inp'[i] = inp[i] /\ cell[i].st = "waiting" /\ Terminal(i)
      BY <3>1, <1>4 DEF Terminal
    <3> QED BY <3>2 DEF IInv, CellInv, NoLostCompletion
  <2>3. \A i \in owed' : inp'[i].st = "withdrawn"
    BY <1>1, <1>2, <1>4 DEF IInv, CellInv
  <2> QED BY <2>1, <2>2, <2>3 DEF CellInv
<1>10. ready' \in 0..MaxOps
  BY <1>1, LaneBounds
<1> QED BY <1>1, <1>4, <1>6, <1>7, <1>8, <1>9, <1>10

LEMMA SubmitInputInv == ASSUME IInv, SubmitInput PROVE IInv'
<1>u. /\ UNCHANGED <<forks, op, ctl, rev, leaf, drv, abort, agent, cont, owed, look, cmd,
                     think, aborting, closer, crashes, idled, inherited>>
      /\ AcceptInput
  BY DEF SubmitInput
<1>1. /\ inp' \in [Inputs -> InputType] /\ cell' \in [Inputs -> CellType] /\ ready' \in 0..MaxOps
      /\ OpsInv' /\ ControlInv' /\ InputInv' /\ CellInv' /\ HookInv'
      /\ \A i \in Inputs : inp[i].st # "none" => inp'[i] = inp[i]
  BY <1>u, AcceptInputKeeps
<1>2. TypeOK'
  BY <1>u, <1>1 DEF IInv, TypeOK
<1>3. DriveInv'
  <2>1. Place(drv)'
    BY <1>u, <1>1, PlaceStays
  <2> QED BY <1>u, <2>1, TypeOfDrive DEF DriveInv
<1>4. AbortInv'
  BY <1>u DEF IInv, AbortInv
<1> QED BY <1>1, <1>2, <1>3, <1>4 DEF IInv

LEMMA PromptSubmitInv == ASSUME IInv, PromptSubmit PROVE IInv'
<1>u. /\ UNCHANGED <<forks, op, ctl, rev, leaf, abort, agent, cont, owed, look, cmd, think,
                     aborting, closer, crashes, idled, inherited>>
      /\ drv.pc = "submit"
  BY DEF PromptSubmit
<1>1. CASE drv' = Leave /\ UNCHANGED <<inp, cell, ready>>
  <2>1. UNCHANGED <<durable, calls>>
    BY <1>u, <1>1 DEF durable, calls
  <2> QED BY <1>u, <1>1, <2>1, LeaveInv, TypeOfDrive
<1>2. CASE AcceptInput /\ drv' = At("claimed")
  <2>1. /\ inp' \in [Inputs -> InputType] /\ cell' \in [Inputs -> CellType] /\ ready' \in 0..MaxOps
        /\ OpsInv' /\ ControlInv' /\ InputInv' /\ CellInv' /\ HookInv'
    BY <1>u, <1>2, AcceptInputKeeps
  <2>2. At("claimed") \in DriveType /\ At("claimed").pc = "claimed"
    <3>1. "claimed" \in Pcs
      BY DEF Pcs
    <3> QED BY <3>1, AtRecord, TypeOfDrive
  <2>3. TypeOK'
    BY <1>u, <1>2, <2>1, <2>2 DEF IInv, TypeOK
  <2>4. DriveInv'
    <3>1. Place(drv)'
      BY <1>2, <2>2 DEF Place, PastControls
    <3> QED BY <1>u, <3>1, TypeOfDrive DEF DriveInv
  <2>5. AbortInv'
    BY <1>2, <2>2 DEF AbortInv
  <2> QED BY <2>1, <2>3, <2>4, <2>5 DEF IInv
<1> QED BY <1>1, <1>2 DEF PromptSubmit

LEMMA WithdrawInputsInv == ASSUME IInv, WithdrawInputs PROVE IInv'
<1> DEFINE gone == [st |-> "withdrawn", op |-> 0, out |-> "none"]
<1>1. PICK is \in SUBSET PendingInputs :
        /\ inp' = [i \in Inputs |-> IF i \in is THEN gone ELSE inp[i]]
        /\ owed' = owed \cup is /\ ready' = 0
        /\ UNCHANGED <<forks, op, ctl, rev, leaf, drv, abort, agent, cont, cell, look, cmd,
                       think, aborting, closer, crashes, idled, inherited>>
  BY DEF WithdrawInputs
<1>2. inp \in [Inputs -> InputType] /\ owed \subseteq Inputs
  BY DEF IInv, TypeOK
<1>3. gone \in InputType /\ gone.st = "withdrawn" /\ gone.op = 0
  BY LaneBounds DEF InputType
<1> HIDE DEF gone
<1>4. /\ inp' \in [Inputs -> InputType]
      /\ \A i \in Inputs : inp'[i] = IF i \in is THEN gone ELSE inp[i]
  BY <1>1, <1>2, <1>3
<1>5. \A i \in is : i \in Inputs /\ inp[i].st = "pending"
  BY DEF PendingInputs
<1>6. TypeOK'
  <2>1. ready' \in 0..MaxOps /\ owed' \subseteq Inputs
    BY <1>1, <1>2, <1>5, LaneBounds
  <2> QED BY <1>1, <1>4, <2>1 DEF IInv, TypeOK
<1>7. OpsInv' /\ HookInv'
  BY <1>1 DEF IInv, OpsInv, HookInv
<1>8. ControlInv'
  <2>1. PendingControls' = PendingControls
    BY <1>1 DEF PendingControls
  <2> QED BY <1>1, <2>1, LastOpKept DEF IInv, ControlInv, CompletedIsForkable
<1>9. InputInv'
  BY <1>1, <1>3, <1>4 DEF IInv, InputInv
<1>10. CellInv'
  <2>1. CompletionTruthful'
    <3>1. \A i \in Inputs : cell[i].st \in {"withdrawn", "settled"} => cell[i] = inp[i] /\ i \notin is
      BY <1>5 DEF IInv, CellInv, CompletionTruthful
    <3> QED BY <1>1, <1>4, <3>1 DEF CompletionTruthful
  <2>2. NoLostCompletion'
    <3> SUFFICES ASSUME NEW i \in Inputs, cell'[i].st = "waiting", Terminal(i)', i \notin owed'
                 PROVE  i \in look' \/ (drv'.pc = "publish" /\ inp'[i].op = drv'.op)
      BY DEF NoLostCompletion
    <3>1. i \notin is /\ i \notin owed /\ inp'[i] = inp[i]
      BY <1>1, <1>4
    <3>2. Terminal(i) /\ cell[i].st = "waiting"
      BY <3>1, <1>1 DEF Terminal
    <3> QED BY <3>1, <3>2, <1>1 DEF IInv, CellInv, NoLostCompletion
  <2>3. \A i \in owed' : inp'[i].st = "withdrawn"
    BY <1>1, <1>2, <1>3, <1>4, <1>5 DEF IInv, CellInv
  <2> QED BY <2>1, <2>2, <2>3 DEF CellInv
<1>11. DriveInv'
  <2>1. Place(drv)'
    BY <1>1, <1>3, <1>4, PlaceStays
  <2> QED BY <1>1, <2>1, TypeOfDrive DEF DriveInv
<1>12. AbortInv'
  BY <1>1 DEF IInv, AbortInv
<1> QED BY <1>6, <1>7, <1>8, <1>9, <1>10, <1>11, <1>12 DEF IInv

LEMMA PublishWithdrawnInv == ASSUME IInv, PublishWithdrawn PROVE IInv'
<1>u. /\ UNCHANGED <<inp, op, ctl, rev, leaf, ready, forks, drv, abort, agent, cont, look, cmd,
                     think, aborting, closer, crashes, idled, inherited>>
      /\ cell' = Settle(owed, inp) /\ owed' = {}
  BY DEF PublishWithdrawn, durable
<1>1. owed \in SUBSET Inputs /\ \A i \in owed : Terminal(i)
  BY DEF IInv, CellInv, TypeOK, Terminal
<1>2. /\ cell' \in [Inputs -> CellType]
      /\ \A i \in Inputs : cell'[i] = IF i \in owed /\ cell[i].st = "waiting" THEN inp[i] ELSE cell[i]
  BY <1>u, <1>1, TypeOfDrive, SettleIs
<1>3. TypeOK'
  BY <1>u, <1>2 DEF IInv, TypeOK
<1>4. CellInv'
  <2>1. CompletionTruthful'
    BY <1>u, <1>2 DEF IInv, CellInv, CompletionTruthful
  <2>2. NoLostCompletion'
    <3> SUFFICES ASSUME NEW i \in Inputs, cell'[i].st = "waiting", Terminal(i)'
                 PROVE  i \in look' \/ (drv'.pc = "publish" /\ inp'[i].op = drv'.op)
      BY DEF NoLostCompletion
    <3>1. Terminal(i) /\ inp[i].st # "waiting"
      BY <1>u DEF Terminal
    <3>2. i \notin owed /\ cell[i].st = "waiting"
      BY <1>2, <3>1
    <3> QED BY <1>u, <3>1, <3>2 DEF IInv, CellInv, NoLostCompletion
  <2> QED BY <1>u, <2>1, <2>2 DEF CellInv
<1> QED BY <1>u, <1>3, <1>4, CallKeeps

LEMMA HandleRegisterInv == ASSUME IInv, HandleRegister PROVE IInv'
<1> DEFINE wait == [st |-> "waiting", op |-> 0, out |-> "none"]
<1>u. /\ UNCHANGED <<inp, op, ctl, rev, leaf, ready, forks, drv, abort, agent, cont, owed, cmd,
                     think, aborting, closer, crashes, idled, inherited>>
  BY DEF HandleRegister, durable
<1>1. PICK n \in Inputs : cell' = [cell EXCEPT ![n] = wait] /\ look' = look \cup {n}
  BY DEF HandleRegister
<1>2. wait \in CellType /\ wait.st = "waiting"
  BY LaneBounds DEF CellType
<1> HIDE DEF wait
<1>3. /\ cell' \in [Inputs -> CellType] /\ cell'[n] = wait
      /\ \A i \in Inputs \ {n} : cell'[i] = cell[i]
  BY <1>1, <1>2 DEF IInv, TypeOK
<1>4. TypeOK'
  BY <1>u, <1>1, <1>3 DEF IInv, TypeOK
<1>5. CellInv'
  <2>1. CompletionTruthful'
    BY <1>u, <1>2, <1>3 DEF IInv, CellInv, CompletionTruthful
  <2>2. NoLostCompletion'
    BY <1>u, <1>1, <1>3 DEF IInv, CellInv, NoLostCompletion, Terminal
  <2> QED BY <1>u, <2>1, <2>2 DEF IInv, CellInv
<1> QED BY <1>u, <1>4, <1>5, CallKeeps

LEMMA HandleStatusInv == ASSUME IInv, HandleStatus PROVE IInv'
<1>u. /\ UNCHANGED <<inp, op, ctl, rev, leaf, ready, forks, drv, abort, agent, cont, owed, cmd,
                     think, aborting, closer, crashes, idled, inherited>>
  BY DEF HandleStatus, durable
<1>1. PICK n \in look : /\ cell' = IF Terminal(n) THEN Settle({n}, inp) ELSE cell
                        /\ look' = look \ {n}
  BY DEF HandleStatus
<1>2. n \in Inputs
  BY DEF IInv, TypeOK
<1>3. CASE ~Terminal(n)
  <2>1. cell' = cell
    BY <1>1, <1>3
  <2>2. TypeOK'
    BY <1>u, <1>1, <2>1 DEF IInv, TypeOK
  <2>3. CellInv'
    BY <1>u, <1>1, <1>3, <2>1 DEF IInv, CellInv, CompletionTruthful, NoLostCompletion, Terminal
  <2> QED BY <1>u, <2>2, <2>3, CallKeeps
<1>4. CASE Terminal(n)
  <2>1. /\ cell' \in [Inputs -> CellType]
        /\ \A i \in Inputs : cell'[i] = IF i \in {n} /\ cell[i].st = "waiting" THEN inp[i] ELSE cell[i]
    <3>1. {n} \in SUBSET Inputs /\ (\A i \in {n} : Terminal(i)) /\ cell' = Settle({n}, inp)
      BY <1>1, <1>2, <1>4
    <3> QED BY <3>1, TypeOfDrive, SettleIs
  <2>2. TypeOK'
    BY <1>u, <1>1, <2>1 DEF IInv, TypeOK
  <2>3. CompletionTruthful'
    BY <1>u, <2>1 DEF IInv, CellInv, CompletionTruthful
  <2>4. NoLostCompletion'
    <3> SUFFICES ASSUME NEW i \in Inputs, cell'[i].st = "waiting", Terminal(i)'
                 PROVE  i \in owed' \/ i \in look' \/ (drv'.pc = "publish" /\ inp'[i].op = drv'.op)
      BY DEF NoLostCompletion
    <3>1. Terminal(i) /\ inp[i].st # "waiting"
      BY <1>u DEF Terminal
    <3>2. i # n /\ cell[i].st = "waiting"
      BY <2>1, <3>1
    <3> QED BY <1>u, <1>1, <3>1, <3>2 DEF IInv, CellInv, NoLostCompletion
  <2>5. CellInv'
    BY <1>u, <2>3, <2>4 DEF IInv, CellInv
  <2> QED BY <1>u, <2>2, <2>5, CallKeeps
<1> QED BY <1>3, <1>4

LEMMA CommandObserveInv == ASSUME IInv, CommandObserve PROVE IInv'
<1>u. /\ UNCHANGED <<inp, op, ctl, rev, leaf, ready, forks, drv, abort, agent, cont, cell, owed,
                     look, think, aborting, closer, crashes, idled, inherited>>
  BY DEF CommandObserve, durable
<1>1. cmd' \in CommandType
  <2>1. PICK k \in OpenOps : cmd' = [st |-> "pending", op |-> k, rev |-> rev]
    BY DEF CommandObserve
  <2>2. k \in 0..MaxOps /\ rev \in Nat
    BY LaneBounds DEF IInv, TypeOK, OpenOps, Ops
  <2> QED BY <2>1, <2>2 DEF CommandType
<1>2. TypeOK'
  BY <1>u, <1>1 DEF IInv, TypeOK
<1> QED BY <1>u, <1>2, CellsKept, CallKeeps

LEMMA ThinkingCheckInv == ASSUME IInv, ThinkingCheck PROVE IInv'
<1>u. /\ UNCHANGED <<inp, op, ctl, rev, leaf, ready, forks, drv, abort, agent, cont, cell, owed,
                     look, cmd, aborting, closer, crashes, idled, inherited>>
      /\ think' = TRUE
  BY DEF ThinkingCheck, durable
<1>1. TypeOK'
  BY <1>u DEF IInv, TypeOK
<1> QED BY <1>u, <1>1, CellsKept, CallKeeps

LEMMA ThinkingCommitInv == ASSUME IInv, ThinkingCommit PROVE IInv'
<1>u. /\ UNCHANGED <<forks, inp, op, ctl, rev, drv, abort, agent, cont, cell, owed, look,
                     cmd, aborting, closer, crashes, idled, inherited>>
      /\ think' = FALSE
  BY DEF ThinkingCommit
<1>1. leaf' \in Nat /\ ready' \in 0..MaxOps
  BY LaneBounds DEF ThinkingCommit, IInv, TypeOK
<1>2. TypeOK'
  BY <1>u, <1>1 DEF IInv, TypeOK
<1> QED BY <1>u, <1>2, CellsKept, CallKeeps

LEMMA CommandEnqueueInv == ASSUME IInv, CommandEnqueue PROVE IInv'
<1>u. /\ UNCHANGED <<forks, inp, op, rev, leaf, drv, abort, agent, cont, cell, owed, look,
                     think, aborting, closer, crashes, idled, inherited>>
      /\ cmd' = NoControl
  BY DEF CommandEnqueue
<1>n. NoControl \in CommandType
  BY LaneBounds DEF NoControl, CommandType
<1>c. CellInv'
  BY <1>u, CellsKept
<1>1. CASE UNCHANGED <<ctl, ready>>
  <2>1. TypeOK'
    BY <1>u, <1>n, <1>1 DEF IInv, TypeOK
  <2> QED BY <1>u, <1>c, <1>1, <2>1, CallKeeps
<1>2. CASE /\ EnsureOpen /\ cmd.op \in OpenOps /\ ready' = 0
           /\ \E c \in Controls : ctl[c].st = "none" /\ ctl' = [ctl EXCEPT ![c] = cmd]
  <2>1. PICK c \in Controls : ctl[c].st = "none" /\ ctl' = [ctl EXCEPT ![c] = cmd]
    BY <1>2
  <2>2. ctl \in [Controls -> ControlType] /\ cmd \in ControlType
    BY DEF IInv, TypeOK, CommandType, ControlType
  <2>3. /\ ctl' \in [Controls -> ControlType] /\ ctl'[c] = cmd
        /\ \A d \in Controls \ {c} : ctl'[d] = ctl[d]
    BY <2>1, <2>2
  <2>4. \A d \in PendingControls' : d = c \/ (d \in PendingControls /\ d # c)
    BY <2>3 DEF PendingControls
  <2>5. \A d \in PendingControls : d \in PendingControls' /\ d \in Controls /\ ctl'[d] = ctl[d]
    BY <2>1, <2>3 DEF PendingControls
  <2>6. cmd.op \in Started /\ \A k \in Started : k <= cmd.op
    BY <1>2, OpenIsLast DEF IInv
  <2>7. ~Idle /\ op[cmd.op].st = "open"
    BY <1>2 DEF Idle, OpenOps
  <2>8. LastOp' = LastOp /\ Started' = Started /\ OpenOps' = OpenOps /\ Idle' = Idle
    BY <1>u, LastOpKept
  <2>9. TypeOK'
    <3>1. ready' \in 0..MaxOps
      BY <1>2, LaneBounds
    <3> QED BY <1>u, <1>n, <2>3, <3>1 DEF IInv, TypeOK
  <2>10. OpsInv' /\ HookInv' /\ InputInv'
    <3>1. OpsInv' /\ HookInv'
      BY <1>u DEF IInv, OpsInv, HookInv
    <3>2. InputInv'
      BY <1>u DEF IInv, InputInv
    <3> QED BY <3>1, <3>2
  <2>11. ControlInv'
    <3>1. \A d \in PendingControls' : ctl'[d].op \in Started' /\ \A k \in Started' : k <= ctl'[d].op
      BY <2>3, <2>4, <2>5, <2>6, <2>8 DEF IInv, ControlInv
    <3>2. CompletedIsForkable'
      <4> SUFFICES ASSUME NEW k \in Ops, op'[k].st = "completed"
                   PROVE  op'[k].ckpt <=> \A d \in PendingControls' : ctl'[d].op # k
        BY DEF CompletedIsForkable
      <4>1. op[k].st = "completed" /\ op'[k].ckpt = op[k].ckpt
        BY <1>u
      <4>2. op[k].ckpt <=> \A d \in PendingControls : ctl[d].op # k
        BY <4>1 DEF IInv, ControlInv, CompletedIsForkable
      <4>3. k # cmd.op
        BY <4>1, <2>7
      <4> QED BY <4>1, <4>2, <4>3, <2>3, <2>4, <2>5
    <3> QED BY <3>1, <3>2 DEF ControlInv
  <2>12. DriveInv'
    <3>1. Place(drv)'
      BY <1>u, <2>7, <2>8, TypeOfDrive DEF Place, PastControls
    <3> QED BY <1>u, <3>1, TypeOfDrive DEF DriveInv
  <2>13. AbortInv'
    BY <1>u DEF IInv, AbortInv
  <2> QED BY <1>c, <2>9, <2>10, <2>11, <2>12, <2>13 DEF IInv
<1> QED BY <1>1, <1>2 DEF CommandEnqueue

-----------------------------------------------------------------------------
(* Cancellation, close and crash.                                          *)

(* A canceller changes nothing of the lane.                                *)
LEMMA CancelKeeps ==
  ASSUME IInv, UNCHANGED <<durable, drv, cont, calls, crashes, idled>>,
         abort' \in BOOLEAN, inherited' \in BOOLEAN, agent' \in {"none", "live", "aborted"},
         aborting' \subseteq {"abort", "close"},
         closer' \in {"open", "closed", "cancel", "joining", "joined"},
         closer' = "joined" => drv.pc = "free", AbortInv'
  PROVE  IInv'
<1>u. UNCHANGED <<inp, op, ctl, rev, leaf, ready, forks, cell, owed, look, cmd, think, drv, idled>>
  BY DEF durable, calls
<1>1. TypeOK'
  BY <1>u DEF IInv, TypeOK
<1>2. Place(drv)'
  BY <1>u, PlaceStays
<1>3. DriveInv'
  BY <1>u, <1>2 DEF DriveInv
<1>4. CellInv'
  BY <1>u, CellsKept
<1> QED BY <1>u, <1>1, <1>3, <1>4, LaneKept DEF IInv

LEMMA RaiseAbortType ==
  ASSUME IInv, NEW wanted \in BOOLEAN, RaiseAbort(wanted)
  PROVE  abort' \in BOOLEAN /\ inherited' \in BOOLEAN
  BY Zenon DEF RaiseAbort

LEMMA CancelInv == ASSUME IInv, Cancel PROVE IInv'
<1>t. /\ aborting \subseteq {"abort", "close"}
      /\ closer \in {"open", "closed", "cancel", "joining", "joined"}
      /\ AbortInv
  BY DEF IInv, TypeOK
<1>1. CASE AbortRequest
  <2>1. abort' \in BOOLEAN /\ inherited' \in BOOLEAN
    BY <1>1, RaiseAbortType DEF AbortRequest
  <2>2. /\ UNCHANGED <<durable, drv, agent, cont, calls, closer, crashes, idled>>
        /\ aborting' = aborting \cup {"abort"}
    BY <1>1 DEF AbortRequest
  <2>3. AbortInv'
    BY <2>2, <1>t DEF AbortInv
  <2> QED BY <1>t, <2>1, <2>2, <2>3, TypeOfDrive, CancelKeeps
<1>2. ASSUME NEW caller \in {"abort", "close"}, AbortDeliver(caller) PROVE IInv'
  <2>1. /\ UNCHANGED <<durable, drv, abort, cont, calls, closer, crashes, idled, inherited>>
        /\ aborting' = aborting \ {caller} /\ AbortAgent
    BY <1>2 DEF AbortDeliver
  <2>2. agent' \in {"none", "aborted"} /\ (agent # "none" => agent' = "aborted")
    BY <2>1, TypeOfDrive DEF AbortAgent
  <2>3. AbortInv'
    BY <2>1, <2>2, <1>t DEF AbortInv
  <2> QED BY <1>t, <2>1, <2>2, <2>3, TypeOfDrive, CancelKeeps
<1>3. CASE CloseBegin
  <2>1. /\ UNCHANGED <<durable, drv, abort, agent, cont, calls, aborting, crashes, idled, inherited>>
        /\ closer' = "closed"
    BY <1>3 DEF CloseBegin
  <2>2. AbortInv'
    BY <2>1, <1>t DEF AbortInv
  <2> QED BY <1>t, <2>1, <2>2, TypeOfDrive, CancelKeeps
<1>4. CASE CloseAbort
  <2>1. abort' \in BOOLEAN /\ inherited' \in BOOLEAN
    <3>1. (drv.pc # "free") \in BOOLEAN
      OBVIOUS
    <3> QED BY <1>4, <3>1, RaiseAbortType DEF CloseAbort
  <2>2. /\ UNCHANGED <<durable, drv, agent, cont, calls, crashes, idled>>
        /\ aborting' = aborting \cup {"close"} /\ closer' = "cancel"
    BY <1>4 DEF CloseAbort
  <2>3. AbortInv'
    BY <2>2, <1>t DEF AbortInv
  <2> QED BY <1>t, <2>1, <2>2, <2>3, TypeOfDrive, CancelKeeps
<1>5. CASE CloseCancel
  <2>1. abort' \in BOOLEAN /\ inherited' \in BOOLEAN
    <3>1. (~Idle \/ drv.pc # "free") \in BOOLEAN
      OBVIOUS
    <3> QED BY <1>5, <3>1, RaiseAbortType DEF CloseCancel
  <2>2. /\ UNCHANGED <<durable, drv, agent, cont, calls, crashes, idled>>
        /\ aborting' = aborting \cup {"close"} /\ closer' = "joining"
    BY <1>5 DEF CloseCancel
  <2>3. AbortInv'
    BY <2>2, <1>t DEF AbortInv
  <2> QED BY <1>t, <2>1, <2>2, <2>3, TypeOfDrive, CancelKeeps
<1>6. CASE CloseJoin
  <2>1. /\ UNCHANGED <<durable, drv, abort, agent, cont, calls, aborting, crashes, idled, inherited>>
        /\ closer' = "joined" /\ drv.pc = "free"
    BY <1>6 DEF CloseJoin
  <2>2. AbortInv'
    BY <2>1, <1>t DEF AbortInv
  <2> QED BY <1>t, <2>1, <2>2, TypeOfDrive, CancelKeeps
<1> QED BY <1>1, <1>2, <1>3, <1>4, <1>5, <1>6 DEF Cancel

LEMMA CrashInv == ASSUME IInv, Crash PROVE IInv'
<1>u. /\ UNCHANGED <<inp, op, ctl, rev, leaf, ready, forks, idled>>
      /\ drv' = Free /\ abort' = FALSE /\ agent' = "none" /\ cont' = FALSE
      /\ cell' = [i \in Inputs |-> NoInput]
      /\ owed' = {} /\ look' = {} /\ cmd' = NoControl /\ think' = FALSE
      /\ aborting' = {} /\ closer' = "open" /\ inherited' = FALSE
      /\ crashes < MaxCrashes /\ crashes' = crashes + 1
  BY DEF Crash, durable
<1>1. NoInput \in CellType /\ NoInput.st = "none" /\ NoControl \in CommandType
  BY LaneBounds DEF NoInput, NoControl, CellType, CommandType
<1>2. cell' \in [Inputs -> CellType] /\ \A i \in Inputs : cell'[i] = NoInput
  BY <1>u, <1>1
<1>3. crashes' \in 0..MaxCrashes
  BY <1>u, LaneBounds DEF IInv, TypeOK
<1>4. TypeOK'
  BY <1>u, <1>1, <1>2, <1>3, FreeRecord DEF IInv, TypeOK
<1>5. CellInv'
  BY <1>u, <1>1, <1>2 DEF CellInv, CompletionTruthful, NoLostCompletion
<1>6. DriveInv'
  <2>1. Place(drv)'
    BY <1>u, FreeRecord DEF Place, PastControls
  <2> QED BY <1>u, <2>1 DEF DriveInv
<1>7. AbortInv'
  BY <1>u, FreeRecord DEF AbortInv
<1> QED BY <1>u, <1>4, <1>5, <1>6, <1>7, LaneKept DEF IInv

-----------------------------------------------------------------------------
(* The theorems.                                                           *)

LEMMA LaneInit == ASSUME Init PROVE IInv
<1>1. /\ NoInput \in InputType /\ NoInput \in CellType /\ NoInput.st = "none" /\ NoInput.op = 0
      /\ NoControl \in ControlType /\ NoControl \in CommandType /\ NoControl.st = "none"
  BY LaneBounds DEF NoInput, NoControl, InputType, CellType, ControlType, CommandType
<1>2. NoOp \in OpType /\ NoOp.st = "none" /\ ~NoOp.ckpt
  BY DEF NoOp, OpType
<1>3. /\ \A i \in Inputs : inp[i] = NoInput /\ cell[i] = NoInput
      /\ \A k \in Ops : op[k] = NoOp /\ idled[k] = 0
      /\ \A c \in Controls : ctl[c] = NoControl
  BY DEF Init
<1>4. TypeOK
  <2>1. /\ inp \in [Inputs -> InputType] /\ cell \in [Inputs -> CellType]
        /\ op \in [Ops -> OpType] /\ ctl \in [Controls -> ControlType]
    BY <1>1, <1>2 DEF Init
  <2>2. rev \in 1..MaxRevisions /\ leaf \in Nat /\ ready \in 0..MaxOps /\ crashes \in 0..MaxCrashes
    BY LaneBounds DEF Init
  <2>3. forks \in [ForkLanes -> 0..MaxOps] /\ idled \in [Ops -> Nat]
    BY LaneBounds DEF Init
  <2> QED BY <1>1, <2>1, <2>2, <2>3, FreeRecord DEF Init, TypeOK
<1>5. PendingControls = {}
  BY <1>1, <1>3 DEF PendingControls
<1>6. OpsInv /\ HookInv
  BY <1>2, <1>3 DEF OpsInv, HookInv
<1>7. ControlInv
  BY <1>2, <1>3, <1>5 DEF ControlInv, CompletedIsForkable
<1>8. InputInv
  BY <1>1, <1>3 DEF InputInv
<1>9. CellInv
  BY <1>1, <1>3 DEF Init, CellInv, CompletionTruthful, NoLostCompletion
<1>10. DriveInv
  <2>1. Place(drv)
    BY FreeRecord, PlainPlace DEF Init
  <2> QED BY <2>1 DEF Init, DriveInv
<1>11. AbortInv
  BY FreeRecord DEF Init, AbortInv
<1> QED BY <1>4, <1>6, <1>7, <1>8, <1>9, <1>10, <1>11 DEF IInv

LEMMA LaneStep == ASSUME IInv, [Next]_vars PROVE IInv'
<1>1. CASE Call
  BY <1>1, SubmitInputInv, WithdrawInputsInv, PublishWithdrawnInv, HandleRegisterInv,
     HandleStatusInv, CommandObserveInv, CommandEnqueueInv, ThinkingCheckInv, ThinkingCommitInv DEF Call
<1>2. CASE Cancel
  BY <1>2, CancelInv
<1>3. CASE DriveStep
  BY <1>3, ReleaseInv, ForkSnapshotInv, ForkCommitInv, PromptSubmitInv, CheckLaneInv, RunCommandInv,
     ApplyControlInv, ControlsDoneInv, DecideInv, RunIdleHooksInv, OfferContinuationInv, AcceptInv,
     StartEpochInv, ResumeOperationInv, InstallInv, EnterRunInv, FinishCommitInv, PublishInv,
     ClearAbortInv DEF DriveStep
<1>4. CASE UNCHANGED vars
  <2>1. UNCHANGED <<inp, op, ctl, rev, leaf, ready, forks, drv, abort, agent, cont, cell, owed, look,
                    cmd, think, aborting, closer, crashes, idled, inherited>>
    BY <1>4 DEF vars, durable, calls
  <2>2. TypeOK'
    BY <2>1 DEF IInv, TypeOK
  <2> QED BY <2>1, <2>2, CellsKept, CallKeeps
<1> QED BY <1>1, <1>2, <1>3, <1>4, ClaimInv, RunEndsInv, RolloverInv, DriveErrorInv, CrashInv DEF Next

(* LaneInvariant: the inductive invariant of the root lane holds whatever  *)
(* calls, cancellations, closes, crashes and failed steps interleave with  *)
(* a drive.                                                                *)
THEOREM LaneInvariant == Spec => []IInv
<1>1. Init => IInv
  BY LaneInit
<1>2. IInv /\ [Next]_vars => IInv'
  BY LaneStep
<1> QED BY <1>1, <1>2, PTL DEF Spec

(* LaneTypeCorrect: every component of the lane keeps its type.            *)
THEOREM LaneTypeCorrect == Spec => []TypeOK
<1>1. IInv => TypeOK
  BY DEF IInv
<1> QED BY <1>1, LaneInvariant, PTL

(* CompletionsTrue: a completion handle reports the durable disposition of *)
(* its input, for any number of handles, withdrawals, drives and crashes.  *)
THEOREM CompletionsTrue == Spec => []CompletionTruthful
<1>1. IInv => CompletionTruthful
  BY DEF IInv, CellInv
<1> QED BY <1>1, LaneInvariant, PTL

(* CompletionsOnTheirWay: a handle that waits on a terminal input has a    *)
(* publication on its way; withdraw_inputs, finish_operation and           *)
(* input_completion_handle leave none behind.                              *)
THEOREM CompletionsOnTheirWay == Spec => []NoLostCompletion
<1>1. IInv => NoLostCompletion
  BY DEF IInv, CellInv
<1> QED BY <1>1, LaneInvariant, PTL

(* BatchesAtomic: the inputs of one operation share its fate.              *)
THEOREM BatchesAtomic == Spec => []BatchAtomic
<1>1. IInv => BatchAtomic
  <2> SUFFICES ASSUME IInv, NEW i \in Inputs, inp[i].op # 0
               PROVE  IF inp[i].st = "dispatched" THEN op[inp[i].op].st = "open"
                      ELSE inp[i].st = "settled" /\ op[inp[i].op].st = inp[i].out
    BY DEF BatchAtomic
  <2>1. inp[i].st \in {"none", "pending", "withdrawn", "dispatched", "settled"}
    BY DEF IInv, TypeOK, InputType
  <2> QED BY <2>1 DEF IInv, InputInv
<1> QED BY <1>1, LaneInvariant, PTL

(* TurnsForkable: a completed operation has its turn checkpoint exactly    *)
(* when no control is pending for it, whichever of finish_operation and    *)
(* apply_pending_extension_control wrote it.                               *)
THEOREM TurnsForkable == Spec => []CompletedIsForkable
<1>1. IInv => CompletedIsForkable
  BY DEF IInv, ControlInv
<1> QED BY <1>1, LaneInvariant, PTL

(* AbortsReachTheRun: abort_root and close reach a running agent, however  *)
(* they meet its installation.                                             *)
THEOREM AbortsReachTheRun == Spec => []NoLostAbort
<1>1. IInv => NoLostAbort
  BY DEF IInv, AbortInv, NoLostAbort
<1> QED BY <1>1, LaneInvariant, PTL

(* SingleOperation: at most one operation is open, the latest, and it is   *)
(* the one the claim holder drives.                                        *)
THEOREM SingleOperation == Spec => []OneOpenOperation
<1>1. IInv => OneOpenOperation
  <2> SUFFICES ASSUME IInv PROVE OneOpenOperation
    OBVIOUS
  <2>1. \A k \in OpenOps : k = LastOp
    BY OpenIsLast DEF IInv
  <2>2. ASSUME drv.pc \in {"started", "install", "installed", "running", "finish"}
        PROVE  OpenOps = {drv.op}
    <3>1. drv.op \in OpenOps
      BY <2>2, TypeOfDrive DEF Place, OpenOps
    <3> QED BY <3>1, <2>1
  <2> QED BY <2>1, <2>2 DEF OneOpenOperation
<1> QED BY <1>1, LaneInvariant, PTL

(* IdleHooksOnce: the idle callbacks of an operation run at most once,     *)
(* across drives, evaluations, crashes and reopens.                        *)
THEOREM IdleHooksOnce == Spec => []HooksRunOnce
<1>1. IInv => HooksRunOnce
  BY DEF IInv, HookInv, HooksRunOnce
<1> QED BY <1>1, LaneInvariant, PTL

-----------------------------------------------------------------------------
(* What a step may never do.                                               *)

(* The steps that change an input, and how.                                *)
LEMMA InputsMove ==
  ASSUME IInv, [Next]_vars
  PROVE  \A i \in Inputs :
           /\ Terminal(i) => inp'[i] = inp[i]
           /\ inp[i].st = "dispatched" => inp'[i] = inp[i] \/ (inp'[i].st = "settled" /\ inp'[i].op = inp[i].op)
<1> DEFINE Goal == \A i \in Inputs :
             /\ Terminal(i) => inp'[i] = inp[i]
             /\ inp[i].st = "dispatched" =>
                  inp'[i] = inp[i] \/ (inp'[i].st = "settled" /\ inp'[i].op = inp[i].op)
<1>1. CASE UNCHANGED inp
  BY <1>1
<1>2. CASE AcceptInput
  <2>1. PICK n \in Inputs : inp[n].st = "none" /\ \A i \in Inputs \ {n} : inp'[i] = inp[i]
    BY <1>2 DEF AcceptInput, IInv, TypeOK
  <2> QED BY <2>1 DEF Terminal
<1>3. CASE WithdrawInputs
  <2>1. PICK is \in SUBSET PendingInputs : \A i \in Inputs : i \notin is => inp'[i] = inp[i]
    BY <1>3 DEF WithdrawInputs
  <2>2. \A i \in is : inp[i].st = "pending"
    BY DEF PendingInputs
  <2> QED BY <2>1, <2>2 DEF Terminal
<1>4. CASE Accept
  <2>1. CASE UNCHANGED inp
    BY <2>1
  <2>2. CASE StillCurrent /\ \A i \in Inputs : i \notin drv.obs.queue => inp'[i] = inp[i]
    <3>1. \A i \in drv.obs.queue : inp[i].st = "pending"
      BY <2>2 DEF StillCurrent, PendingInputs
    <3> QED BY <2>2, <3>1 DEF Terminal
  <2> QED BY <1>4, <2>1, <2>2 DEF Accept
<1>5. CASE FinishCommit
  <2>1. \A i \in Inputs : inp'[i] = IF inp[i].st = "dispatched" /\ inp[i].op = drv.op
                                    THEN [st |-> "settled", op |-> drv.op, out |-> drv.out] ELSE inp[i]
    BY <1>5 DEF FinishCommit
  <2> QED BY <2>1 DEF Terminal
<1> HIDE DEF Goal
<1>6. CASE Call
  <2>1. UNCHANGED inp \/ AcceptInput \/ WithdrawInputs
    BY <1>6 DEF Call, SubmitInput, PublishWithdrawn, HandleRegister, HandleStatus, CommandObserve,
       CommandEnqueue, ThinkingCheck, ThinkingCommit, durable
  <2> QED BY <2>1, <1>1, <1>2, <1>3
<1>7. CASE Cancel
  <2>1. UNCHANGED inp
    BY <1>7 DEF Cancel, AbortRequest, AbortDeliver, CloseBegin, CloseAbort, CloseCancel, CloseJoin, durable
  <2> QED BY <2>1, <1>1
<1>8. CASE DriveStep
  <2>1. UNCHANGED inp \/ AcceptInput \/ Accept \/ FinishCommit
    BY <1>8 DEF DriveStep, Release, ForkSnapshot, ForkCommit, PromptSubmit, CheckLane, RunCommand,
       ApplyControl, ControlsDone, Decide, RunIdleHooks, OfferContinuation, StartEpoch,
       ResumeOperation, Install, EnterRun, Publish, ClearAbort, durable
  <2> QED BY <2>1, <1>1, <1>2, <1>4, <1>5
<1>9. CASE Claim \/ RunEnds \/ Rollover \/ DriveError \/ Crash \/ UNCHANGED vars
  <2>1. UNCHANGED inp
    BY <1>9 DEF Claim, RunEnds, Rollover, DriveError, Crash, vars, durable
  <2> QED BY <2>1, <1>1
<1> QED BY <1>6, <1>7, <1>8, <1>9 DEF Next, Goal

(* DispositionsFinal: a withdrawn or settled input never changes again,    *)
(* and a dispatched one is only ever settled, by its own operation,        *)
(* whatever withdrawals, drives and crashes race with it.                  *)
THEOREM DispositionsFinal == Spec => DispositionFinal
<1>1. IInv /\ [Next]_vars =>
        [\A i \in Inputs :
           /\ Terminal(i) => inp'[i] = inp[i]
           /\ inp[i].st = "dispatched" => inp'[i] = inp[i] \/ (inp'[i].st = "settled" /\ inp'[i].op = inp[i].op)
        ]_vars
  BY InputsMove
<1> QED BY <1>1, LaneInvariant, PTL DEF Spec, DispositionFinal

(* The step that forks a lane finds the root settled.                      *)
LEMMA ForkStep ==
  ASSUME IInv, [Next]_vars
  PROVE  \A l \in ForkLanes : forks'[l] # forks[l] =>
           /\ forks[l] = 0 /\ op[forks'[l]].st = "completed" /\ op[forks'[l]].ckpt
           /\ Idle /\ PendingInputs = {} /\ PendingControls = {}
<1> SUFFICES ASSUME NEW l \in ForkLanes, forks'[l] # forks[l]
             PROVE  /\ forks[l] = 0 /\ op[forks'[l]].st = "completed" /\ op[forks'[l]].ckpt
                    /\ Idle /\ PendingInputs = {} /\ PendingControls = {}
  OBVIOUS
<1>1. ForkCommit
  <2>1. ~Call
    BY DEF Call, SubmitInput, WithdrawInputs, PublishWithdrawn, HandleRegister, HandleStatus,
       CommandObserve, CommandEnqueue, ThinkingCheck, ThinkingCommit, durable
  <2>2. ~Cancel
    BY DEF Cancel, AbortRequest, AbortDeliver, CloseBegin, CloseAbort, CloseCancel, CloseJoin, durable
  <2>3. ~(Claim \/ RunEnds \/ Rollover \/ DriveError \/ Crash \/ UNCHANGED vars)
    BY DEF Claim, RunEnds, Rollover, DriveError, Crash, vars, durable
  <2>4. DriveStep => ForkCommit
    BY DEF DriveStep, Release, ForkSnapshot, PromptSubmit, CheckLane, RunCommand,
       ApplyControl, ControlsDone, Decide, RunIdleHooks, OfferContinuation, Accept, StartEpoch,
       ResumeOperation, Install, EnterRun, FinishCommit, Publish, ClearAbort, durable
  <2> QED BY <2>1, <2>2, <2>3, <2>4 DEF Next
<1>2. PICK k \in Ops, m \in ForkLanes :
        SnapshotCurrent /\ op[k].ckpt /\ forks[m] = 0 /\ forks' = [forks EXCEPT ![m] = k]
  BY <1>1 DEF ForkCommit
<1>3. l = m /\ forks'[l] = k
  BY <1>2 DEF IInv, TypeOK
<1>4. drv.pc = "fork"
  BY <1>1 DEF ForkCommit
<1>5. /\ Idle /\ PendingControls = {}
      /\ \A i \in drv.obs.queue : inp[i].st \notin {"none", "pending"}
  BY <1>4, TypeOfDrive DEF Place, PastControls
<1>6. drv.obs.queue = Accepted
  BY <1>2 DEF SnapshotCurrent, Digest, Observe
<1>7. PendingInputs = {}
  BY <1>5, <1>6 DEF Accepted, PendingInputs
<1>8. op[k].st = "completed"
  BY <1>2 DEF IInv, OpsInv
<1> QED BY <1>2, <1>3, <1>5, <1>7, <1>8

(* ForksFromSettled: fork_settled_turn starts a lane only at the           *)
(* checkpoint of a completed operation of a settled root lane, although it *)
(* validates its snapshot without the writer lock.                         *)
THEOREM ForksFromSettled == Spec => ForkFromSettled
<1>1. IInv /\ [Next]_vars =>
        [\A l \in ForkLanes : forks'[l] # forks[l] =>
           /\ forks[l] = 0 /\ op[forks'[l]].st = "completed" /\ op[forks'[l]].ckpt
           /\ Idle /\ PendingInputs = {} /\ PendingControls = {}]_vars
  BY ForkStep
<1> QED BY <1>1, LaneInvariant, PTL DEF Spec, ForkFromSettled

(* After close has returned no drive step is possible.                     *)
LEMMA QuietStep ==
  ASSUME IInv, [Next]_vars, closer = "joined", closer' = "joined"
  PROVE  /\ op' = op /\ ctl' = ctl /\ drv' = drv
         /\ \A i \in Inputs : inp[i].st = "none" => inp'[i].st = "none"
<1>1. drv.pc = "free" /\ ~EnsureOpen
  BY DEF IInv, DriveInv, EnsureOpen
<1>2. ~DriveStep
  BY <1>1 DEF DriveStep, Release, ForkSnapshot, ForkCommit, PromptSubmit, CheckLane, RunCommand,
     ApplyControl, ControlsDone, Decide, RunIdleHooks, OfferContinuation, Accept, StartEpoch,
     ResumeOperation, Install, EnterRun, FinishCommit, Publish, ClearAbort
<1>3. ~(Claim \/ RunEnds \/ Rollover \/ DriveError \/ Crash)
  BY <1>1 DEF Claim, TryClaim, RunEnds, Rollover, DriveError, Crash
<1>4. CASE Call
  <2>1. CASE WithdrawInputs
    <3>1. PICK is \in SUBSET PendingInputs : \A i \in Inputs : i \notin is => inp'[i] = inp[i]
      BY <2>1 DEF WithdrawInputs
    <3>2. \A i \in is : inp[i].st = "pending"
      BY DEF PendingInputs
    <3> QED BY <2>1, <3>1, <3>2 DEF WithdrawInputs
  <2>2. CASE ~WithdrawInputs
    BY <1>1, <1>4, <2>2 DEF Call, SubmitInput, PublishWithdrawn, HandleRegister, HandleStatus,
       CommandObserve, CommandEnqueue, ThinkingCheck, ThinkingCommit, durable
  <2> QED BY <2>1, <2>2
<1>5. CASE Cancel
  BY <1>5 DEF Cancel, AbortRequest, AbortDeliver, CloseBegin, CloseAbort, CloseCancel, CloseJoin, durable
<1>6. CASE UNCHANGED vars
  BY <1>6 DEF vars, durable
<1> QED BY <1>2, <1>3, <1>4, <1>5, <1>6 DEF Next

(* CloseIsQuiet: once close has returned, this supervisor changes no       *)
(* operation, admits no input or control and claims the lane no more.      *)
THEOREM CloseIsQuiet == Spec => ClosedIsQuiet
<1>1. IInv /\ [Next]_vars =>
        [closer = "joined" /\ closer' = "joined" =>
           /\ op' = op /\ ctl' = ctl /\ drv' = drv
           /\ \A i \in Inputs : inp[i].st = "none" => inp'[i].st = "none"]_vars
  BY QuietStep
<1> QED BY <1>1, LaneInvariant, PTL DEF Spec, ClosedIsQuiet
=============================================================================
