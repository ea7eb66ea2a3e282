------------------------ MODULE OperationDriveProofs ------------------------
(***************************************************************************)
(* Proofs about OperationDrive for every number of operations, turns,      *)
(* calls and failures, and every set of tools and terminal reasons.        *)
(***************************************************************************)
EXTENDS OperationDrive, SequenceTheorems, WellFoundedInduction, TLAPS

-----------------------------------------------------------------------------
(* The inductive invariant.                                                *)

(* An execution has its intent, a non-replayable one is not repeated, and  *)
(* what a drive has admitted is an unanswered call of the turn.            *)
EffectInv ==
  \A i \in Slots :
    /\ exec[i] > 0 => started[i] # "none"
    /\ started[i] = "Never" => exec[i] <= 1
    /\ started[i] = "Never" /\ exec[i] > 0 => i \notin drv.live \ drv.ran
    /\ i \in CallsOf /\ turn.calls[i] = "never" => started[i] # "Safe"
    /\ i \in drv.live => started[i] # "none"

(* A batch is a partition of the unanswered calls of the turn, and no call *)
(* of it that is still to be prepared has a non-replayable intent.         *)
BatchInv ==
  /\ drv.left \cup drv.live \cup drv.imm \subseteq Unanswered
  /\ drv.left \cap drv.live = {} /\ drv.imm \cap (drv.left \cup drv.live) = {}
  /\ drv.pc = "batch" \/ drv.left # {} =>
       Unanswered \subseteq drv.left \cup drv.live \cup drv.imm
  /\ drv.pc # "batch" => drv.live = {} /\ drv.imm = {}
  /\ drv.pc \notin {"begin", "batch"} => drv.left = {}
  /\ \A i \in drv.left \cup drv.imm : started[i] # "Never"
  /\ drv.mode = "seq" => drv.imm = {} /\ \A i, j \in drv.live : i = j
  /\ drv.mode \in {"reject", "truncated", "skip"} => drv.live = {} /\ drv.imm = {}

(* Where a drive is tells what the log has settled.                        *)
StageInv ==
  /\ turn.fresh => turn.stop # "none"
  /\ \A j, k \in OpenOps : j = k
  /\ drv.pc # "free" => OpenOps # {}
  /\ prov => OpenOps # {} /\ Unanswered = {} /\ drv.pc \in {"free", "plan", "stream"}
  /\ drv.pc \in {"turn", "stream", "advance", "settled", "activate"} => Unanswered = {}
  /\ drv.pc \in {"plan", "start", "begin"} => \A i \in Unresolved : started[i] = "Safe"
  /\ drv.pc = "finish" /\ drv.out = "completed" => (OwnTurn => Unanswered = {})

IInv == TypeOK /\ EffectInv /\ BatchInv /\ StageInv /\ CompletedIsSettled
-----------------------------------------------------------------------------
(* The least element of a set of numbers is one of them.                   *)
Less == {p \in Nat \X Nat : p[1] < p[2]}

LEMMA FirstIn == ASSUME NEW S \in SUBSET Nat, S # {} PROVE First(S) \in S
<1>1. IsWellFoundedOn(Less, Nat)
  BY NatLessThanWellFounded, Zenon DEF OpToRel, Less
<1>2. PICK x \in S : \A y \in S : ~(<<y, x>> \in Less)
  BY <1>1, WFMin
<1>3. ASSUME NEW y \in S PROVE x <= y
  <2>1. ~(y < x)
    BY <1>2 DEF Less
  <2> QED BY <2>1
<1> QED BY <1>3 DEF First

LEMMA Bounds == MaxOps \in Nat /\ MaxTurns \in Nat /\ MaxCalls \in Nat /\ MaxFailures \in Nat
  BY DriveAssumption

(* A call of the turn is a slot, and what its sets of calls contain.       *)
LEMMA Calls ==
  ASSUME TypeOK
  PROVE  /\ CallsOf \subseteq Slots /\ Slots \subseteq Nat /\ Ops \subseteq Nat
         /\ Unanswered \subseteq CallsOf /\ Unresolved \subseteq Unanswered
         /\ OpenOps \subseteq Ops
  BY Bounds DEF TypeOK, CallsOf, Slots, Ops, Unanswered, Unresolved, OpenOps

(* The records a drive becomes are drives, and what their fields are.      *)
LEMMA Drives ==
  /\ Free \in DriveType
  /\ Free.pc = "free" /\ Free.out = "none" /\ Free.mode = "none"
  /\ Free.left = {} /\ Free.live = {} /\ Free.ran = {} /\ Free.imm = {}
  /\ \A o \in Outcomes :
       /\ Finishing(o) \in DriveType
       /\ Finishing(o).pc = "finish" /\ Finishing(o).out = o /\ Finishing(o).mode = "none"
       /\ Finishing(o).left = {} /\ Finishing(o).live = {}
       /\ Finishing(o).ran = {} /\ Finishing(o).imm = {}
  BY DEF Free, Finishing, DriveType, Outcomes

LEMMA Moved ==
  ASSUME TypeOK,
         NEW p \in {"free", "plan", "start", "begin", "turn", "stream", "batch",
                    "advance", "settled", "activate", "finish"}
  PROVE  /\ At(p) \in DriveType
         /\ At(p).pc = p /\ At(p).out = drv.out /\ At(p).mode = drv.mode
         /\ At(p).left = drv.left /\ At(p).live = drv.live
         /\ At(p).ran = drv.ran /\ At(p).imm = drv.imm
  BY DEF TypeOK, At, DriveType

(* A drive with no call in hand keeps the parts about calls.               *)
EmptyHanded == drv.left = {} /\ drv.live = {} /\ drv.ran = {} /\ drv.imm = {}

LEMMA EmptyHand ==
  ASSUME TypeOK, EffectInv, EmptyHanded', drv'.pc # "batch",
         turn'.calls = turn.calls, started' = started, exec' = exec
  PROVE  EffectInv' /\ BatchInv'
<1>1. CallsOf' = CallsOf
  BY DEF CallsOf
<1>2. EffectInv'
  BY <1>1 DEF EffectInv, EmptyHanded
<1>3. BatchInv'
  BY DEF BatchInv, EmptyHanded
<1> QED BY <1>2, <1>3

(* The sets of calls and operations depend only on the log.                *)
LEMMA SameLog ==
  ASSUME turn'.calls = turn.calls, result' = result, started' = started
  PROVE  CallsOf' = CallsOf /\ Unanswered' = Unanswered /\ Unresolved' = Unresolved
  BY DEF CallsOf, Unanswered, Unresolved

LEMMA SameOps ==
  ASSUME turn'.op = turn.op, ops' = ops
  PROVE  OpenOps' = OpenOps /\ OwnTurn' = OwnTurn
  BY DEF OpenOps, OwnTurn

LEMMA InitInv == Init => IInv
<1> SUFFICES ASSUME Init PROVE IInv
  OBVIOUS
<1>1. /\ turn.calls = <<>> /\ CallsOf = {} /\ Unanswered = {} /\ OpenOps = {}
      /\ drv.left = {} /\ drv.live = {} /\ drv.imm = {} /\ drv.ran = {} /\ drv.pc = "free"
      /\ drv.mode = "none" /\ drv.out = "none" /\ turn.fresh = FALSE
  BY DEF Init, NoTurn, NoCalls, Free, Ops, CallsOf, Unanswered, OpenOps
<1>2. TypeOK
  <2>1. turn \in TurnType
    BY Bounds DEF Init, NoTurn, TurnType
  <2>2. Len(turn.calls) <= MaxCalls
    BY <1>1, Bounds
  <2>3. /\ ops \in [Ops -> {"none", "open"} \cup Outcomes] /\ exec \in [Slots -> Nat]
        /\ started \in [Slots -> {"none", "Safe", "Never"}]
        /\ result \in [Slots -> {"none", "ok", "err", "term"}]
    BY DEF Init, NoCalls
  <2>4. turns \in 0..MaxTurns /\ failures \in 0..MaxFailures
    BY Bounds DEF Init
  <2> QED BY <1>1, <2>1, <2>2, <2>3, <2>4, Drives DEF Init, TypeOK
<1>3. EffectInv
  BY <1>1 DEF Init, EffectInv, NoCalls, Slots
<1>4. BatchInv
  BY <1>1 DEF BatchInv
<1>5. StageInv
  BY <1>1 DEF StageInv, Init
<1>6. CompletedIsSettled
  BY <1>1 DEF CompletedIsSettled, Init
<1> QED BY <1>2, <1>3, <1>4, <1>5, <1>6 DEF IInv

-----------------------------------------------------------------------------
(* Steps that commit nothing about the calls of the turn.                  *)

(* What such a step has to show: the type of what it changes, and that the *)
(* log has settled what its new stage claims.                              *)
LEMMA QuietStep ==
  ASSUME IInv, TypeOK', EmptyHanded', drv'.pc # "batch",
         turn'.calls = turn.calls, turn'.op = turn.op, ops' = ops,
         turn'.fresh => turn.fresh /\ turn'.stop = turn.stop,
         UNCHANGED <<started, result, exec>>,
         prov' => prov \/ (drv.pc = "turn" /\ drv'.pc = "stream"),
         drv'.pc # "free" => OpenOps # {},
         prov' => drv'.pc \in {"free", "plan", "stream"},
         drv'.pc \in {"turn", "stream", "advance", "settled", "activate"} => Unanswered = {},
         drv'.pc \in {"plan", "start", "begin"} => \A i \in Unresolved : started[i] = "Safe",
         drv'.pc = "finish" /\ drv'.out = "completed" => (OwnTurn => Unanswered = {})
  PROVE  IInv'
<1>1. /\ CallsOf' = CallsOf /\ Unanswered' = Unanswered /\ Unresolved' = Unresolved
      /\ OpenOps' = OpenOps /\ OwnTurn' = OwnTurn
  BY SameLog, SameOps
<1>2. EffectInv' /\ BatchInv'
  BY EmptyHand DEF IInv
<1>3. StageInv'
  BY <1>1 DEF IInv, StageInv
<1>4. CompletedIsSettled'
  BY <1>1 DEF IInv, CompletedIsSettled, StageInv
<1> QED BY <1>2, <1>3, <1>4 DEF IInv

LEMMA StartEpochInv == IInv /\ StartEpoch => IInv'
<1> SUFFICES ASSUME IInv, StartEpoch PROVE IInv'
  OBVIOUS
<1>1. /\ turn'.calls = turn.calls /\ turn'.op = turn.op /\ turn' \in TurnType
      /\ drv' = At("begin") /\ drv.pc = "start" /\ turn'.fresh = FALSE
  BY DEF StartEpoch, IInv, TypeOK, TurnType
<1>2. TypeOK' /\ EmptyHanded' /\ drv'.pc = "begin"
  BY <1>1, Moved DEF StartEpoch, IInv, TypeOK, BatchInv, EmptyHanded
<1> QED
  BY <1>1, <1>2, QuietStep DEF StartEpoch, IInv, StageInv

LEMMA ResumeInv == IInv /\ Resume => IInv'
<1> SUFFICES ASSUME IInv, Resume PROVE IInv'
  OBVIOUS
<1>1. TypeOK' /\ EmptyHanded' /\ drv'.pc = "plan"
  BY Moved DEF Resume, durable, IInv, TypeOK, BatchInv, EmptyHanded
<1> QED
  BY <1>1, QuietStep DEF Resume, durable, IInv, StageInv, Permitted

LEMMA ProviderStartInv == IInv /\ ProviderStart => IInv'
<1> SUFFICES ASSUME IInv, ProviderStart PROVE IInv'
  OBVIOUS
<1>1. TypeOK' /\ EmptyHanded' /\ drv'.pc = "stream"
  BY Moved DEF ProviderStart, IInv, TypeOK, BatchInv, EmptyHanded
<1> QED
  BY <1>1, QuietStep DEF ProviderStart, IInv, StageInv

LEMMA ProviderDiscardInv == IInv /\ ProviderDiscard => IInv'
<1> SUFFICES ASSUME IInv, ProviderDiscard PROVE IInv'
  OBVIOUS
<1>0. turns' \in 0..MaxTurns
  BY Bounds DEF ProviderDiscard, IInv, TypeOK
<1>1. CASE drv' = At("turn")
  <2>1. TypeOK' /\ EmptyHanded' /\ drv'.pc = "turn"
    BY <1>0, <1>1, Moved DEF ProviderDiscard, IInv, TypeOK, BatchInv, EmptyHanded
  <2> QED
    BY <2>1, QuietStep DEF ProviderDiscard, IInv, StageInv
<1>2. CASE drv' = Finishing("failed")
  <2>1. TypeOK' /\ EmptyHanded' /\ drv'.pc = "finish" /\ drv'.out = "failed"
    BY <1>0, <1>2, Drives DEF ProviderDiscard, IInv, TypeOK, Outcomes, EmptyHanded
  <2> QED
    BY <2>1, QuietStep DEF ProviderDiscard, IInv, StageInv
<1> QED BY <1>1, <1>2 DEF ProviderDiscard

LEMMA AdvanceInv == IInv /\ Advance => IInv'
<1> SUFFICES ASSUME IInv, Advance PROVE IInv'
  OBVIOUS
<1>1. PICK p \in {"turn", "settled"} : drv' = At(p)
  BY DEF Advance
<1>2. TypeOK' /\ EmptyHanded' /\ drv'.pc = p
  BY <1>1, Moved DEF Advance, durable, IInv, TypeOK, BatchInv, EmptyHanded
<1> QED
  BY <1>2, QuietStep DEF Advance, durable, IInv, StageInv

LEMMA RunSettledInv == IInv /\ RunSettled => IInv'
<1> SUFFICES ASSUME IInv, RunSettled PROVE IInv'
  OBVIOUS
<1>1. CASE drv' = At("activate")
  <2>1. TypeOK' /\ EmptyHanded' /\ drv'.pc = "activate"
    BY <1>1, Moved DEF RunSettled, IInv, TypeOK, BatchInv, EmptyHanded
  <2> QED
    BY <2>1, QuietStep DEF RunSettled, IInv, StageInv
<1>2. CASE drv' = Finishing("completed")
  <2>1. TypeOK' /\ EmptyHanded' /\ drv'.pc = "finish"
    BY <1>2, Drives DEF RunSettled, IInv, TypeOK, Outcomes, EmptyHanded
  <2> QED
    BY <2>1, QuietStep DEF RunSettled, IInv, StageInv
<1> QED BY <1>1, <1>2 DEF RunSettled

LEMMA ActivateInv == IInv /\ Activate => IInv'
<1> SUFFICES ASSUME IInv, Activate PROVE IInv'
  OBVIOUS
<1>1. TypeOK' /\ EmptyHanded' /\ drv'.pc = "start"
  BY Moved DEF Activate, IInv, TypeOK, BatchInv, EmptyHanded
<1> QED
  BY <1>1, QuietStep DEF Activate, IInv, StageInv, Unresolved

LEMMA AbortInv == IInv /\ Abort => IInv'
  BY DEF Abort, durable, IInv, TypeOK, EffectInv, BatchInv, StageInv, CompletedIsSettled,
         CallsOf, Unanswered, Unresolved, OpenOps, OwnTurn

(* The drive is gone: an error, a failed commit or the death of the        *)
(* process leaves the log as it was.                                       *)
LEMMA InterruptedInv == IInv /\ (DriveError \/ Crash) => IInv'
<1> SUFFICES ASSUME IInv, DriveError \/ Crash PROVE IInv'
  OBVIOUS
<1>0. failures' \in 0..MaxFailures
  BY Bounds DEF DriveError, Crash, IInv, TypeOK
<1>1. TypeOK' /\ EmptyHanded' /\ drv'.pc = "free"
  BY <1>0, Drives DEF DriveError, Crash, durable, IInv, TypeOK, EmptyHanded
<1> QED
  BY <1>1, QuietStep DEF DriveError, Crash, durable, IInv, StageInv

-----------------------------------------------------------------------------
(* Steps of a tool batch.                                                  *)

(* A call of the batch is answered in the log and leaves the batch.        *)
LEMMA AnswerStep ==
  ASSUME IInv, drv.pc = "batch", drv'.pc = "batch", drv' \in DriveType, drv'.out = drv.out,
         NEW i \in Unanswered, NEW r \in {"ok", "err", "term"},
         result' = [result EXCEPT ![i] = r],
         UNCHANGED <<ops, epoch, prov, turn, started, request, broken, abort, declared,
                     turns, failures, exec>>,
         drv'.left = drv.left \ {i}, drv'.live = drv.live \ {i},
         drv'.ran = drv.ran \ {i}, drv'.imm = drv.imm \ {i},
         \/ drv'.mode = drv.mode
         \/ drv.mode = "seq" /\ drv'.mode = "skip" /\ i \in drv.live
  PROVE  IInv'
<1>1. i \in CallsOf /\ i \in Slots
  BY Calls DEF IInv
<1>2. TypeOK'
  BY <1>1 DEF IInv, TypeOK
<1>3. /\ CallsOf' = CallsOf /\ Unanswered' = Unanswered \ {i} /\ Unresolved' = Unresolved \ {i}
      /\ OpenOps' = OpenOps /\ OwnTurn' = OwnTurn
  BY <1>1, Calls DEF CallsOf, Unanswered, Unresolved, OpenOps, OwnTurn, IInv, TypeOK
<1>4. EffectInv'
  BY <1>3 DEF IInv, EffectInv
<1>5. BatchInv'
  <2>1. CASE drv'.mode = drv.mode
    BY <1>3, <2>1 DEF IInv, BatchInv
  <2>2. CASE drv.mode = "seq" /\ drv'.mode = "skip" /\ i \in drv.live
    <3>1. drv'.live = {} /\ drv'.imm = {}
      BY <2>2 DEF IInv, BatchInv
    <3> QED BY <1>3, <2>2, <3>1 DEF IInv, BatchInv
  <2> QED BY <2>1, <2>2
<1>6. StageInv'
  BY <1>3 DEF IInv, StageInv
<1>7. CompletedIsSettled'
  BY <1>3 DEF IInv, CompletedIsSettled
<1> QED BY <1>2, <1>4, <1>5, <1>6, <1>7 DEF IInv

(* The batch is over: every call of the turn has its answer.               *)
LEMMA BatchOver ==
  ASSUME IInv, drv.pc = "batch", drv.left = {}, drv.live = {}, drv.imm = {},
         drv' = At("advance") \/ drv' = Finishing("failed"),
         UNCHANGED <<ops, epoch, prov, turn, started, result, request, broken, abort,
                     declared, turns, failures, exec>>
  PROVE  IInv'
<1>1. Unanswered = {}
  BY DEF IInv, BatchInv
<1>2. /\ drv' \in DriveType /\ EmptyHanded' /\ drv'.pc \in {"advance", "finish"}
      /\ drv'.out # "completed" /\ (drv'.pc = "finish" <=> drv'.out # "none")
  BY Moved, Drives DEF IInv, TypeOK, EmptyHanded, Outcomes
<1>3. TypeOK'
  BY <1>2 DEF IInv, TypeOK, EmptyHanded
<1> QED
  BY <1>1, <1>2, <1>3, QuietStep DEF IInv, StageInv

LEMMA AnswerIs ==
  ASSUME TypeOK, NEW i \in Unanswered, NEW r, Answer(i, r)
  PROVE  result' = [result EXCEPT ![i] = r]
  BY DEF Answer, Unanswered

LEMMA RefuseInv == IInv /\ Refuse => IInv'
<1> SUFFICES ASSUME IInv, Refuse PROVE IInv'
  OBVIOUS
<1>0. TypeOK /\ drv \in DriveType
  BY DEF IInv, TypeOK
<1>1. CASE drv.left # {}
  <2> DEFINE i == First(drv.left)
  <2>1. i \in drv.left /\ i \in Unanswered
    BY <1>0, <1>1, Calls, FirstIn DEF BatchInv, IInv
  <2>2. result' = [result EXCEPT ![i] = "err"]
    BY <1>0, <1>1, <2>1, AnswerIs DEF Refuse
  <2>3. /\ drv' \in DriveType /\ drv'.pc = drv.pc /\ drv'.mode = drv.mode /\ drv'.out = drv.out
        /\ drv'.left = drv.left \ {i} /\ drv'.live = drv.live /\ drv'.ran = drv.ran
        /\ drv'.imm = drv.imm
    BY <1>0, <1>1 DEF Refuse, DriveType
  <2> HIDE DEF i
  <2>4. /\ drv.live = drv.live \ {i} /\ drv.ran = drv.ran \ {i} /\ drv.imm = drv.imm \ {i}
    BY <2>1 DEF IInv, BatchInv, TypeOK
  <2> QED
    BY <1>1, <2>1, <2>2, <2>3, <2>4, AnswerStep DEF Refuse
<1>2. CASE drv.left = {}
  BY <1>2, BatchOver DEF Refuse, IInv, BatchInv
<1> QED BY <1>1, <1>2

LEMMA PrepareImmediateInv == IInv /\ PrepareImmediate => IInv'
<1> SUFFICES ASSUME IInv, PrepareImmediate PROVE IInv'
  OBVIOUS
<1> DEFINE i == First(drv.left)
<1>0. TypeOK /\ drv \in DriveType /\ drv.pc = "batch"
  BY DEF IInv, TypeOK, PrepareImmediate, Preparing
<1>1. i \in drv.left /\ i \in Unanswered /\ i \in Slots
  BY <1>0, Calls, FirstIn DEF PrepareImmediate, Preparing, BatchInv, IInv
<1>2. PICK more \in BOOLEAN :
        IF drv.mode = "seq"
        THEN Answer(i, "err") /\ drv' = [drv EXCEPT !.left = @ \ {i}, !.going = @ \/ more]
        ELSE /\ UNCHANGED result
             /\ drv' = [drv EXCEPT !.left = @ \ {i}, !.imm = @ \cup {i}, !.going = @ \/ more]
  BY DEF PrepareImmediate
<1> HIDE DEF i
<1>3. CASE drv.mode = "seq"
  <2>0. drv' = [drv EXCEPT !.left = @ \ {i}, !.going = @ \/ more]
    BY <1>2, <1>3
  <2>a. drv' \in DriveType
    BY <1>0, <2>0 DEF DriveType
  <2>b. /\ drv'.pc = drv.pc /\ drv'.mode = drv.mode /\ drv'.out = drv.out
        /\ drv'.left = drv.left \ {i} /\ drv'.live = drv.live /\ drv'.ran = drv.ran
        /\ drv'.imm = drv.imm
    BY <1>0, <2>0 DEF DriveType
  <2>2. /\ drv.live = drv.live \ {i} /\ drv.ran = drv.ran \ {i} /\ drv.imm = drv.imm \ {i}
    BY <1>1 DEF IInv, BatchInv, TypeOK
  <2> QED
    BY <1>0, <1>1, <1>2, <1>3, <2>a, <2>b, <2>2, AnswerIs, AnswerStep DEF PrepareImmediate
<1>4. CASE drv.mode # "seq"
  <2>0. /\ drv.mode = "par"
        /\ drv' = [drv EXCEPT !.left = @ \ {i}, !.imm = @ \cup {i}, !.going = @ \/ more]
    BY <1>2, <1>4 DEF PrepareImmediate, Preparing
  <2>1. /\ drv' \in DriveType /\ drv'.pc = "batch" /\ drv'.mode = "par" /\ drv'.out = drv.out
        /\ drv'.left = drv.left \ {i} /\ drv'.live = drv.live /\ drv'.ran = drv.ran
        /\ drv'.imm = drv.imm \cup {i}
    BY <1>0, <1>1, <2>0 DEF DriveType
  <2>2. UNCHANGED <<ops, epoch, prov, turn, started, result, request, broken, abort,
                    declared, turns, failures, exec>>
    BY <1>2, <1>4 DEF PrepareImmediate
  <2>3. TypeOK'
    BY <1>0, <2>1, <2>2 DEF TypeOK
  <2>4. /\ CallsOf' = CallsOf /\ Unanswered' = Unanswered /\ Unresolved' = Unresolved
        /\ OpenOps' = OpenOps /\ OwnTurn' = OwnTurn
    BY <2>2, SameLog, SameOps
  <2>5. EffectInv'
    BY <2>1, <2>2, <2>4 DEF IInv, EffectInv
  <2>6. BatchInv'
    BY <1>0, <1>1, <2>1, <2>2, <2>4 DEF IInv, BatchInv
  <2>7. StageInv' /\ CompletedIsSettled'
    BY <1>0, <2>1, <2>2, <2>4 DEF IInv, StageInv, CompletedIsSettled
  <2> QED BY <2>3, <2>5, <2>6, <2>7 DEF IInv
<1> QED BY <1>3, <1>4

LEMMA AdmitInv == IInv /\ Admit => IInv'
<1> SUFFICES ASSUME IInv, Admit PROVE IInv'
  OBVIOUS
<1> DEFINE i == First(drv.left)
<1>0. TypeOK /\ drv \in DriveType /\ drv.pc = "batch" /\ drv.mode \in {"seq", "par"}
      /\ (drv.mode = "seq" => drv.live = {})
  BY DEF IInv, TypeOK, Admit, Preparing
<1>1. i \in drv.left /\ i \in Unanswered /\ i \in Slots /\ i \in CallsOf
  BY <1>0, Calls, FirstIn DEF Admit, Preparing, BatchInv, IInv
<1>2. /\ UNCHANGED <<ops, epoch, prov, turn, result, request, broken, abort, declared,
                     turns, failures, exec>>
      /\ IF i \in drv.replay THEN started[i] = "Safe" /\ Policy(i) = "Safe"
                             ELSE started[i] = "none"
      /\ started' = [started EXCEPT ![i] = IF i \in drv.replay THEN @ ELSE Policy(i)]
      /\ drv' = [drv EXCEPT !.left = @ \ {i}, !.live = @ \cup {i}]
  BY DEF Admit
<1> HIDE DEF i
<1>3. /\ drv' \in DriveType /\ drv'.pc = "batch" /\ drv'.mode = drv.mode /\ drv'.out = drv.out
      /\ drv'.left = drv.left \ {i} /\ drv'.live = drv.live \cup {i} /\ drv'.ran = drv.ran
      /\ drv'.imm = drv.imm
  BY <1>0, <1>1, <1>2 DEF DriveType
<1>4. /\ \A j \in Slots : j # i => started'[j] = started[j]
      /\ started'[i] \in {"Safe", "Never"}
      /\ started'[i] = "Never" => started[i] = "none"
      /\ turn.calls[i] = "never" => started'[i] # "Safe"
      /\ started' \in [Slots -> {"none", "Safe", "Never"}]
  BY <1>0, <1>1, <1>2 DEF TypeOK, Policy
<1>5. TypeOK'
  BY <1>0, <1>2, <1>3, <1>4 DEF TypeOK
<1>6. /\ CallsOf' = CallsOf /\ Unanswered' = Unanswered
      /\ OpenOps' = OpenOps /\ OwnTurn' = OwnTurn
  BY <1>2, SameOps DEF CallsOf, Unanswered
<1>7. EffectInv'
  <2>1. exec[i] > 0 => started[i] # "none"
    BY <1>1 DEF IInv, EffectInv
  <2>2. started'[i] = "Never" => exec'[i] = 0
    BY <1>0, <1>1, <1>2, <1>4, <2>1 DEF TypeOK
  <2> SUFFICES ASSUME NEW j \in Slots
               PROVE  /\ exec[j] > 0 => started'[j] # "none"
                      /\ started'[j] = "Never" => exec[j] <= 1
                      /\ started'[j] = "Never" /\ exec[j] > 0 => j \notin drv'.live \ drv'.ran
                      /\ j \in CallsOf /\ turn.calls[j] = "never" => started'[j] # "Safe"
                      /\ j \in drv'.live => started'[j] # "none"
    BY <1>2, <1>6 DEF EffectInv
  <2>3. CASE j = i
    BY <1>2, <1>4, <2>2, <2>3
  <2>4. CASE j # i
    BY <1>3, <1>4, <2>4 DEF IInv, EffectInv
  <2> QED BY <2>3, <2>4
<1>8. BatchInv'
  <2>1. drv.left \cup drv.imm \subseteq Slots
    BY <1>0 DEF DriveType
  <2>2. \A j \in drv'.left \cup drv'.imm : started'[j] # "Never"
    BY <1>1, <1>3, <1>4, <2>1 DEF IInv, BatchInv
  <2>3. drv.mode = "seq" => \A j, k \in drv'.live : j = k
    BY <1>0, <1>3
  <2> QED BY <1>0, <1>1, <1>3, <1>6, <2>2, <2>3 DEF IInv, BatchInv
<1>9. StageInv' /\ CompletedIsSettled'
  BY <1>0, <1>2, <1>3, <1>6 DEF IInv, StageInv, CompletedIsSettled
<1> QED BY <1>5, <1>7, <1>8, <1>9 DEF IInv

LEMMA ExecuteInv == IInv /\ Execute => IInv'
<1> SUFFICES ASSUME IInv, Execute PROVE IInv'
  OBVIOUS
<1>0. TypeOK /\ drv \in DriveType /\ drv.pc = "batch"
  BY DEF IInv, TypeOK, Execute
<1>1. PICK i \in drv.live \ drv.ran :
        /\ exec' = [exec EXCEPT ![i] = @ + 1]
        /\ drv' = [drv EXCEPT !.ran = @ \cup {i}]
  BY DEF Execute
<1>2. /\ UNCHANGED <<ops, epoch, prov, turn, started, result, broken, abort, declared,
                     turns, failures>>
      /\ request' \in {"none", "pending", "done"}
  BY DEF Execute, IInv, TypeOK
<1>3. i \in Slots
  BY <1>0 DEF DriveType
<1>4. /\ drv' \in DriveType /\ drv'.pc = "batch" /\ drv'.mode = drv.mode /\ drv'.out = drv.out
      /\ drv'.left = drv.left /\ drv'.live = drv.live /\ drv'.ran = drv.ran \cup {i}
      /\ drv'.imm = drv.imm
  BY <1>0, <1>1, <1>3 DEF DriveType
<1>5. exec' \in [Slots -> Nat] /\ exec'[i] = exec[i] + 1
  BY <1>0, <1>1, <1>3 DEF TypeOK
<1>6. TypeOK'
  BY <1>0, <1>2, <1>4, <1>5 DEF TypeOK
<1>7. /\ CallsOf' = CallsOf /\ Unanswered' = Unanswered /\ Unresolved' = Unresolved
      /\ OpenOps' = OpenOps /\ OwnTurn' = OwnTurn
  BY <1>2, SameLog, SameOps
<1>8. EffectInv'
  <2> SUFFICES ASSUME NEW j \in Slots
               PROVE  /\ exec'[j] > 0 => started[j] # "none"
                      /\ started[j] = "Never" => exec'[j] <= 1
                      /\ started[j] = "Never" /\ exec'[j] > 0 => j \notin drv'.live \ drv'.ran
                      /\ j \in CallsOf /\ turn.calls[j] = "never" => started[j] # "Safe"
                      /\ j \in drv'.live => started[j] # "none"
    BY <1>2, <1>7 DEF EffectInv
  <2>1. CASE j = i
    <3>1. started[i] # "none" /\ (started[i] = "Never" => ~(exec[i] > 0)) /\ exec[i] \in Nat
      BY <1>0, <1>1, <1>3 DEF IInv, EffectInv, TypeOK
    <3> QED BY <1>3, <1>4, <1>5, <2>1, <3>1 DEF IInv, EffectInv
  <2>2. CASE j # i
    BY <1>1, <1>4, <2>2 DEF IInv, EffectInv, TypeOK
  <2> QED BY <2>1, <2>2
<1>9. BatchInv' /\ StageInv' /\ CompletedIsSettled'
  BY <1>0, <1>2, <1>4, <1>7 DEF IInv, BatchInv, StageInv, CompletedIsSettled
<1> QED BY <1>6, <1>8, <1>9 DEF IInv

LEMMA CompleteInv == IInv /\ Complete => IInv'
<1> SUFFICES ASSUME IInv, Complete PROVE IInv'
  OBVIOUS
<1>0. TypeOK /\ drv \in DriveType /\ drv.pc = "batch" /\ drv.ran \subseteq drv.live
  BY DEF IInv, TypeOK, Complete
<1>1. PICK i \in drv.ran, r \in {"ok", "err", "term"} :
        /\ Answer(i, r)
        /\ \E mode \in {drv.mode} \cup
                       (IF drv.mode = "seq" /\ r = "err" /\ ~abort THEN {"skip"} ELSE {}) :
             drv' = [drv EXCEPT !.live = @ \ {i}, !.ran = @ \ {i}, !.mode = mode,
                       !.going = @ \/ r # "term"]
  BY DEF Complete
<1>2. PICK mode :
        /\ mode = drv.mode \/ (drv.mode = "seq" /\ mode = "skip")
        /\ drv' = [drv EXCEPT !.live = @ \ {i}, !.ran = @ \ {i}, !.mode = mode,
                     !.going = @ \/ r # "term"]
  BY <1>1
<1>3. i \in Unanswered /\ i \in drv.live
  BY <1>0 DEF IInv, BatchInv
<1>4. mode \in {"none", "seq", "par", "reject", "truncated", "skip"}
  BY <1>0, <1>2 DEF DriveType
<1>5. /\ drv' \in DriveType /\ drv'.pc = "batch" /\ drv'.mode = mode /\ drv'.out = drv.out
      /\ drv'.left = drv.left /\ drv'.live = drv.live \ {i} /\ drv'.ran = drv.ran \ {i}
      /\ drv'.imm = drv.imm
  BY <1>0, <1>2, <1>4 DEF DriveType
<1>6. drv.left = drv.left \ {i} /\ drv.imm = drv.imm \ {i}
  BY <1>3 DEF IInv, BatchInv
<1> QED
  BY <1>0, <1>1, <1>2, <1>3, <1>5, <1>6, AnswerIs, AnswerStep DEF Complete

LEMMA CancelCallInv == IInv /\ CancelCall => IInv'
<1> SUFFICES ASSUME IInv, CancelCall PROVE IInv'
  OBVIOUS
<1>0. TypeOK /\ drv \in DriveType /\ drv.pc = "batch" /\ drv.ran \subseteq drv.live
  BY DEF IInv, TypeOK, CancelCall
<1>1. PICK i \in drv.live :
       IF started[i] = "Never"
         THEN UNCHANGED result /\ drv' = Finishing("aborted")
         ELSE Answer(i, "err")
              /\ drv' = [drv EXCEPT !.live = @ \ {i}, !.ran = @ \ {i}, !.going = TRUE]
  BY DEF CancelCall
<1>2. CASE started[i] = "Never"
  <2>1. /\ UNCHANGED <<ops, epoch, prov, turn, started, result, request, broken, abort,
                       declared, turns, failures, exec>>
        /\ drv' = Finishing("aborted")
    BY <1>1, <1>2 DEF CancelCall
  <2>2. drv'.pc = "finish" /\ drv'.out = "aborted" /\ EmptyHanded' /\ drv' \in DriveType
    BY <2>1, Drives DEF Outcomes, EmptyHanded
  <2>3. TypeOK'
    BY <1>0, <2>1, <2>2 DEF TypeOK, EmptyHanded
  <2> QED BY <1>0, <2>1, <2>2, <2>3, QuietStep DEF IInv, StageInv
<1>3. CASE started[i] # "Never"
  <2>0. drv' = [drv EXCEPT !.live = @ \ {i}, !.ran = @ \ {i}, !.going = TRUE]
    BY <1>1, <1>3
  <2>1. i \in Unanswered
    BY <1>0 DEF IInv, BatchInv
  <2>2. /\ drv' \in DriveType /\ drv'.pc = "batch" /\ drv'.mode = drv.mode /\ drv'.out = drv.out
        /\ drv'.left = drv.left /\ drv'.live = drv.live \ {i} /\ drv'.ran = drv.ran \ {i}
        /\ drv'.imm = drv.imm
    BY <1>0, <2>0 DEF DriveType
  <2>3. drv.left = drv.left \ {i} /\ drv.imm = drv.imm \ {i}
    BY <1>1 DEF IInv, BatchInv
  <2> QED
    BY <1>0, <1>1, <1>3, <2>1, <2>2, <2>3, AnswerIs, AnswerStep DEF CancelCall
<1> QED BY <1>2, <1>3

LEMMA BatchDoneInv == IInv /\ BatchDone => IInv'
<1> SUFFICES ASSUME IInv, BatchDone PROVE IInv'
  OBVIOUS
<1>0. TypeOK /\ drv \in DriveType /\ drv.pc = "batch" /\ drv.live = {} /\ drv.left = {}
  BY DEF IInv, TypeOK, BatchDone
<1>1. CASE drv.imm # {}
  <2> DEFINE i == First(drv.imm)
  <2>1. i \in drv.imm /\ i \in Unanswered
    BY <1>0, <1>1, Calls, FirstIn DEF BatchInv, IInv
  <2>2. result' = [result EXCEPT ![i] = "err"]
    BY <1>0, <1>1, <2>1, AnswerIs DEF BatchDone
  <2>3. /\ drv' \in DriveType /\ drv'.pc = drv.pc /\ drv'.mode = drv.mode /\ drv'.out = drv.out
        /\ drv'.left = drv.left /\ drv'.live = drv.live /\ drv'.ran = drv.ran
        /\ drv'.imm = drv.imm \ {i}
    BY <1>0, <1>1 DEF BatchDone, DriveType
  <2> HIDE DEF i
  <2>4. /\ drv.left = drv.left \ {i} /\ drv.live = drv.live \ {i} /\ drv.ran = drv.ran \ {i}
    BY <1>0, <2>1 DEF TypeOK
  <2> QED
    BY <1>0, <1>1, <2>1, <2>2, <2>3, <2>4, AnswerStep DEF BatchDone
<1>2. CASE drv.imm = {}
  BY <1>0, <1>2, BatchOver DEF BatchDone
<1> QED BY <1>1, <1>2

-----------------------------------------------------------------------------
(* Steps that begin a batch, a turn or an operation, and that end one.     *)

LEMMA BatchIs ==
  ASSUME NEW calls, NEW todo \in SUBSET Slots, NEW replay \in SUBSET Slots,
         NEW prior \in BOOLEAN, NEW d \in Batch(calls, todo, replay, prior)
  PROVE  /\ d \in DriveType /\ d.pc = "batch" /\ d.out = "none" /\ d.left = todo
         /\ d.mode \in {"seq", "par", "reject"}
         /\ d.live = {} /\ d.ran = {} /\ d.imm = {}
<1>1. PICK m \in {"seq", "par", "reject"} :
        d = [Free EXCEPT !.pc = "batch", !.mode = m, !.left = todo, !.replay = replay,
               !.going = m = "reject" \/ ~prior]
  BY DEF Batch
<1> QED BY <1>1 DEF Free, DriveType

LEMMA BeginDriveInv == IInv /\ BeginDrive => IInv'
<1> SUFFICES ASSUME IInv, BeginDrive PROVE IInv'
  OBVIOUS
<1>0. /\ TypeOK /\ drv \in DriveType /\ drv.pc = "begin" /\ drv.live = {} /\ drv.imm = {}
      /\ drv.ran = {} /\ drv.out = "none"
      /\ UNCHANGED <<ops, epoch, prov, turn, started, result, request, broken, abort,
                     declared, turns, failures, exec>>
  BY DEF IInv, TypeOK, BatchInv, BeginDrive, durable
<1>1. CASE drv' = Free
  <2>1. TypeOK' /\ EmptyHanded' /\ drv'.pc = "free"
    BY <1>0, <1>1, Drives DEF TypeOK, EmptyHanded
  <2> QED BY <1>0, <2>1, QuietStep DEF IInv, StageInv
<1>2. CASE drv' = Finishing("aborted")
  <2>1. TypeOK' /\ EmptyHanded' /\ drv'.pc = "finish" /\ drv'.out = "aborted"
    BY <1>0, <1>2, Drives DEF TypeOK, EmptyHanded, Outcomes
  <2> QED BY <1>0, <2>1, QuietStep DEF IInv, StageInv
<1>3. CASE ContextDerivable /\ drv.left = {} /\ drv' = At("turn")
  <2>1. TypeOK' /\ EmptyHanded' /\ drv'.pc = "turn"
    BY <1>0, <1>3, Moved DEF TypeOK, EmptyHanded
  <2>2. Unanswered = {}
    BY <1>3 DEF ContextDerivable
  <2> QED BY <1>0, <2>1, <2>2, QuietStep DEF IInv, StageInv
<1>4. CASE /\ drv.left # {}
           /\ drv' \in Batch(turn.calls, drv.left, drv.replay,
                             \A i \in CallsOf \ drv.left : result[i] = "term")
  <2>1. drv.left \in SUBSET Slots /\ drv.replay \in SUBSET Slots
    BY <1>0 DEF DriveType
  <2>2. (\A i \in CallsOf \ drv.left : result[i] = "term") \in BOOLEAN
    OBVIOUS
  <2>3. /\ drv' \in DriveType /\ drv'.pc = "batch" /\ drv'.out = "none" /\ drv'.left = drv.left
        /\ drv'.mode \in {"seq", "par", "reject"}
        /\ drv'.live = {} /\ drv'.ran = {} /\ drv'.imm = {}
    BY <1>4, <2>1, <2>2, BatchIs
  <2>4. TypeOK'
    BY <1>0, <2>3 DEF TypeOK
  <2>5. /\ CallsOf' = CallsOf /\ Unanswered' = Unanswered /\ Unresolved' = Unresolved
        /\ OpenOps' = OpenOps /\ OwnTurn' = OwnTurn
    BY <1>0, SameLog, SameOps
  <2>6. EffectInv'
    BY <1>0, <2>3, <2>5 DEF IInv, EffectInv
  <2>7. BatchInv'
    BY <1>0, <1>4, <2>3, <2>5 DEF IInv, BatchInv
  <2>8. StageInv' /\ CompletedIsSettled'
    BY <1>0, <2>3, <2>5 DEF IInv, StageInv, CompletedIsSettled
  <2> QED BY <2>4, <2>6, <2>7, <2>8 DEF IInv
<1> QED BY <1>1, <1>2, <1>3, <1>4 DEF BeginDrive

LEMMA FollowPlanInv == IInv /\ FollowPlan => IInv'
<1> SUFFICES ASSUME IInv, FollowPlan PROVE IInv'
  OBVIOUS
<1>0. /\ TypeOK /\ drv \in DriveType /\ drv.pc = "plan" /\ EmptyHanded /\ drv.out = "none"
      /\ UNCHANGED <<ops, epoch, turn, started, result, broken, abort, declared,
                     turns, failures, exec>>
      /\ OpenOps # {} /\ \A i \in Unresolved : started[i] = "Safe"
  BY DEF IInv, TypeOK, BatchInv, StageInv, FollowPlan, EmptyHanded
<1>1. CASE /\ RecoveryPlan \in {"replay", "tools"}
           /\ drv' = [Free EXCEPT !.pc = "begin", !.left = RecoveryCalls, !.replay = Unresolved]
           /\ UNCHANGED <<prov, request>>
  <2>1. Unanswered \subseteq Slots /\ Unresolved \subseteq Slots
    BY <1>0, Calls
  <2>2. /\ drv' \in DriveType /\ drv'.pc = "begin" /\ drv'.out = "none" /\ drv'.mode = "none"
        /\ drv'.left = Unanswered /\ drv'.live = {} /\ drv'.ran = {} /\ drv'.imm = {}
    BY <1>1, <2>1 DEF Free, DriveType, RecoveryCalls
  <2>3. TypeOK'
    BY <1>0, <1>1, <2>2 DEF TypeOK
  <2>4. /\ CallsOf' = CallsOf /\ Unanswered' = Unanswered /\ Unresolved' = Unresolved
        /\ OpenOps' = OpenOps /\ OwnTurn' = OwnTurn
    BY <1>0, SameLog, SameOps
  <2>5. EffectInv'
    BY <1>0, <2>2, <2>4 DEF IInv, EffectInv
  <2>6. \A i \in Unanswered : started[i] # "Never"
    BY <1>0 DEF Unresolved
  <2>7. BatchInv'
    BY <1>0, <2>2, <2>4, <2>6 DEF BatchInv
  <2>8. ~prov
    <3>1. Unanswered # {}
      BY <1>1 DEF RecoveryPlan, Unresolved
    <3> QED BY <3>1 DEF IInv, StageInv
  <2>9. StageInv' /\ CompletedIsSettled'
    BY <1>0, <1>1, <2>2, <2>4, <2>8 DEF IInv, StageInv, CompletedIsSettled
  <2> QED BY <2>3, <2>5, <2>7, <2>9 DEF IInv
<1>2. CASE RecoveryPlan = "provider" /\ prov' = FALSE /\ UNCHANGED <<request, drv>>
  <2>1. TypeOK' /\ EmptyHanded' /\ drv'.pc = "plan"
    BY <1>0, <1>2 DEF TypeOK, EmptyHanded
  <2> QED BY <1>0, <1>2, <2>1, QuietStep
<1>3. CASE RecoveryPlan = "activate" /\ request' = "done" /\ drv' = At("start") /\ UNCHANGED prov
  <2>1. TypeOK' /\ EmptyHanded' /\ drv'.pc = "start"
    BY <1>0, <1>3, Moved DEF TypeOK, EmptyHanded
  <2>2. ~prov
    BY <1>3 DEF RecoveryPlan
  <2> QED BY <1>0, <1>3, <2>1, <2>2, QuietStep
<1>4. CASE RecoveryPlan = "start" /\ drv' = At("start") /\ UNCHANGED <<prov, request>>
  <2>1. TypeOK' /\ EmptyHanded' /\ drv'.pc = "start"
    BY <1>0, <1>4, Moved DEF TypeOK, EmptyHanded
  <2>2. ~prov
    BY <1>4 DEF RecoveryPlan
  <2> QED BY <1>0, <1>4, <2>1, <2>2, QuietStep
<1>5. CASE RecoveryPlan = "run" /\ drv' = At("begin") /\ UNCHANGED <<prov, request>>
  <2>1. TypeOK' /\ EmptyHanded' /\ drv'.pc = "begin"
    BY <1>0, <1>5, Moved DEF TypeOK, EmptyHanded
  <2>2. ~prov
    BY <1>5 DEF RecoveryPlan
  <2> QED BY <1>0, <1>5, <2>1, <2>2, QuietStep
<1>6. CASE /\ RecoveryPlan = "run" /\ UNCHANGED <<prov, request>>
           /\ drv' \in {Finishing(o) : o \in CommittedOutcome}
  <2>0. turn.fresh => turn.stop \in {"tooluse", "stop", "length", "error", "cancelled"}
    BY <1>0, DriveAssumption DEF TypeOK, TurnType, IInv, StageInv
  <2>1. CommittedOutcome \subseteq Outcomes
    BY <2>0 DEF CommittedOutcome, Outcomes
  <2>2. TypeOK' /\ EmptyHanded' /\ drv'.pc = "finish"
    BY <1>0, <1>6, <2>1, Drives DEF TypeOK, EmptyHanded, Outcomes
  <2>3. ~prov /\ (OwnTurn => Unanswered = {})
    BY <1>6 DEF RecoveryPlan
  <2> QED BY <1>0, <1>6, <2>2, <2>3, QuietStep
<1> QED BY <1>1, <1>2, <1>3, <1>4, <1>5, <1>6 DEF FollowPlan

LEMMA AcceptPromptInv == IInv /\ AcceptPrompt => IInv'
<1> SUFFICES ASSUME IInv, AcceptPrompt PROVE IInv'
  OBVIOUS
<1>0. TypeOK /\ OpenOps = {} /\ drv.pc = "free" /\ Permitted /\ ~prov
  BY DEF IInv, AcceptPrompt, StageInv
<1>1. PICK k \in Ops : ops[k] = "none" /\ ops' = [ops EXCEPT ![k] = "open"]
  BY DEF AcceptPrompt
<1>2. /\ OpenOps' = {k} /\ ops' \in [Ops -> {"none", "open"} \cup Outcomes]
      /\ \A j \in Ops : ops'[j] = "completed" => ops[j] = "completed"
  BY <1>0, <1>1 DEF OpenOps, TypeOK
<1>3. EmptyHanded' /\ drv'.pc = "start" /\ drv' \in DriveType /\ drv'.out = "none"
  BY <1>0, Moved DEF AcceptPrompt, IInv, BatchInv, EmptyHanded, TypeOK
<1>4. UNCHANGED <<prov, turn, started, result, abort, declared, turns, failures, exec>>
      /\ epoch' = "none" /\ request' = "none" /\ broken' \in BOOLEAN
  BY <1>0 DEF AcceptPrompt, TypeOK
<1>5. TypeOK'
  BY <1>0, <1>2, <1>3, <1>4 DEF TypeOK, EmptyHanded
<1>6. CallsOf' = CallsOf /\ Unanswered' = Unanswered /\ Unresolved' = Unresolved
  BY <1>4, SameLog
<1>7. EffectInv' /\ BatchInv'
  BY <1>0, <1>3, <1>4, EmptyHand DEF IInv
<1>8. StageInv' /\ CompletedIsSettled'
  BY <1>0, <1>2, <1>3, <1>4, <1>6 DEF IInv, StageInv, CompletedIsSettled, Permitted
<1> QED BY <1>5, <1>7, <1>8 DEF IInv

LEMMA FinishOperationInv == IInv /\ FinishOperation => IInv'
<1> SUFFICES ASSUME IInv, FinishOperation PROVE IInv'
  OBVIOUS
<1> DEFINE k == First(OpenOps)
<1>0. TypeOK /\ drv.pc = "finish" /\ OpenOps # {} /\ ~prov /\ drv.out \in Outcomes
  BY DEF IInv, FinishOperation, StageInv, TypeOK, DriveType
<1>1. k \in Ops /\ OpenOps = {k} /\ ops[k] = "open"
  BY <1>0, Calls, FirstIn DEF IInv, StageInv, OpenOps
<1>2. /\ ops' = [ops EXCEPT ![k] = drv.out] /\ epoch' = "none" /\ abort' = FALSE /\ drv' = Free
      /\ UNCHANGED <<prov, turn, started, result, request, broken, declared, turns,
                     failures, exec>>
  BY DEF FinishOperation
<1> HIDE DEF k
<1>3. OpenOps' = {} /\ ops' \in [Ops -> {"none", "open"} \cup Outcomes]
  BY <1>0, <1>1, <1>2 DEF OpenOps, TypeOK, Outcomes
<1>4. TypeOK' /\ EmptyHanded' /\ drv'.pc = "free"
  BY <1>0, <1>2, <1>3, Drives DEF TypeOK, EmptyHanded
<1>5. CallsOf' = CallsOf /\ Unanswered' = Unanswered /\ Unresolved' = Unresolved
  BY <1>2, SameLog
<1>6. EffectInv' /\ BatchInv'
  BY <1>0, <1>2, <1>4, EmptyHand DEF IInv
<1>7. StageInv'
  BY <1>0, <1>2, <1>3, <1>4 DEF IInv, StageInv
<1>8. CompletedIsSettled'
  <2>1. ASSUME NEW j \in Ops, ops'[j] = "completed", turn.op = j PROVE Unanswered = {}
    <3>1. CASE j = k
      BY <1>0, <1>1, <1>2, <2>1, <3>1 DEF IInv, StageInv, OwnTurn, TypeOK
    <3>2. CASE j # k
      BY <1>0, <1>2, <2>1, <3>2 DEF IInv, CompletedIsSettled, TypeOK
    <3> QED BY <3>1, <3>2
  <2> QED BY <1>0, <1>2, <1>5, <2>1 DEF CompletedIsSettled
<1> QED BY <1>4, <1>6, <1>7, <1>8 DEF IInv

LEMMA ReconcileInv == IInv /\ Reconcile => IInv'
<1> SUFFICES ASSUME IInv, Reconcile PROVE IInv'
  OBVIOUS
<1>0. /\ TypeOK /\ drv.pc = "free" /\ EmptyHanded
      /\ UNCHANGED <<ops, epoch, prov, turn, started, request, broken, drv, abort,
                     declared, turns, failures, exec>>
  BY DEF IInv, Reconcile, BatchInv, TypeOK, EmptyHanded
<1>1. PICK i \in Unresolved, r \in {"ok", "err", "term"} :
        result' = [j \in Slots |->
                     IF j = i THEN r
                     ELSE IF ~OwnTurn /\ j \in Unanswered \ Unresolved THEN "err"
                     ELSE result[j]]
  BY DEF Reconcile
<1>2. /\ result' \in [Slots -> {"none", "ok", "err", "term"}]
      /\ \A j \in Slots : result'[j] = "none" => result[j] = "none"
  BY <1>0, <1>1 DEF TypeOK
<1>3. TypeOK' /\ EmptyHanded'
  BY <1>0, <1>2 DEF TypeOK, EmptyHanded
<1>4. /\ CallsOf' = CallsOf /\ OpenOps' = OpenOps /\ OwnTurn' = OwnTurn
      /\ Unanswered' \subseteq Unanswered
  BY <1>0, <1>2, Calls, SameOps DEF CallsOf, Unanswered
<1>5. EffectInv' /\ BatchInv'
  BY <1>0, <1>3, EmptyHand DEF IInv
<1>6. StageInv' /\ CompletedIsSettled'
  BY <1>0, <1>4 DEF IInv, StageInv, CompletedIsSettled
<1> QED BY <1>3, <1>5, <1>6 DEF IInv

(* Where a settled response leads: to its calls as one batch, on to the    *)
(* next turn without calls, or to a failed or aborted run.                 *)
LEMMA ResponseIs ==
  ASSUME NEW n \in 0..MaxCalls, NEW calls \in [1..n -> Tools],
         NEW stop \in Stops \cup CallStops, NEW d \in AfterResponse(calls, stop)
  PROVE  /\ d \in DriveType /\ d.live = {} /\ d.ran = {} /\ d.imm = {}
         /\ \/ d.pc = "finish" /\ d.out \in {"failed", "aborted"} /\ d.left = {}
            \/ d.pc = "advance" /\ d.out = "none" /\ d.left = {} /\ n = 0
            \/ d.pc = "batch" /\ d.out = "none" /\ d.left = 1..n
<1>0. stop \in {"tooluse", "stop", "length", "error", "cancelled"}
  BY DriveAssumption
<1>1. calls \in Seq(Tools) /\ Len(calls) = n /\ 1..n \in SUBSET Slots
  BY Bounds DEF Slots
<1>2. CASE d \in {Finishing("failed"), Finishing("aborted")}
  BY <1>2, Drives DEF Outcomes
<1>3. CASE calls = <<>> /\ d = [Free EXCEPT !.pc = "advance", !.going = stop = "length"]
  <2>1. n = 0
    BY <1>1, <1>3
  <2> QED BY <1>3, <2>1 DEF Free, DriveType
<1>4. CASE d \in Batch(calls, 1..Len(calls), {}, TRUE)
  <2>1. PICK m \in {"seq", "par", "reject"} :
          d = [Free EXCEPT !.pc = "batch", !.mode = m, !.left = 1..n, !.replay = {},
                 !.going = m = "reject" \/ ~TRUE]
    BY <1>1, <1>4 DEF Batch
  <2> QED BY <1>1, <2>1 DEF Free, DriveType
<1>5. CASE d = [Free EXCEPT !.pc = "batch", !.mode = "truncated",
                  !.left = 1..Len(calls), !.going = TRUE]
  BY <1>1, <1>5 DEF Free, DriveType
<1>6. CASE stop = "error" \/ (stop = "cancelled" /\ abort)
  BY <1>2, <1>6 DEF AfterResponse
<1>7. CASE ~(stop = "error" \/ (stop = "cancelled" /\ abort))
  BY <1>0, <1>2, <1>3, <1>4, <1>5, <1>7 DEF AfterResponse
<1> QED BY <1>6, <1>7

LEMMA ProviderSettleInv == IInv /\ ProviderSettle => IInv'
<1> SUFFICES ASSUME IInv, ProviderSettle PROVE IInv'
  OBVIOUS
<1>0. /\ TypeOK /\ OpenOps # {} /\ prov' = FALSE /\ started' = NoCalls /\ result' = NoCalls
      /\ exec' = [i \in Slots |-> 0]
      /\ UNCHANGED <<ops, epoch, request, broken, abort, declared, failures>>
  BY DEF IInv, ProviderSettle, StageInv
<1>1. PICK n \in 0..MaxCalls : \E calls \in [1..n -> Tools], stop \in Stops \cup CallStops :
        /\ turn' = [op |-> First(OpenOps), calls |-> calls, stop |-> stop, fresh |-> TRUE]
        /\ drv' \in AfterResponse(calls, stop)
  BY DEF ProviderSettle
<1>2. PICK calls \in [1..n -> Tools], stop \in Stops \cup CallStops :
        /\ turn' = [op |-> First(OpenOps), calls |-> calls, stop |-> stop, fresh |-> TRUE]
        /\ drv' \in AfterResponse(calls, stop)
  BY <1>1
<1>3. /\ drv' \in DriveType /\ drv'.live = {} /\ drv'.ran = {} /\ drv'.imm = {}
      /\ \/ drv'.pc = "finish" /\ drv'.out \in {"failed", "aborted"} /\ drv'.left = {}
         \/ drv'.pc = "advance" /\ drv'.out = "none" /\ drv'.left = {} /\ n = 0
         \/ drv'.pc = "batch" /\ drv'.out = "none" /\ drv'.left = 1..n
  BY <1>2, ResponseIs
<1>4. First(OpenOps) \in OpenOps /\ First(OpenOps) \in 0..MaxOps
  BY <1>0, Calls, FirstIn, Bounds DEF Ops
<1>5. calls \in Seq(Tools) /\ Len(calls) = n
  BY Bounds
<1>6. /\ turn' \in TurnType /\ Len(turn'.calls) = n /\ turn'.op = First(OpenOps)
      /\ turn'.stop # "none"
  BY <1>2, <1>4, <1>5, DriveAssumption DEF TurnType
<1>7. turns' \in 0..MaxTurns /\ n <= MaxCalls
  BY <1>0, Bounds DEF ProviderSettle, TypeOK
<1>8. /\ started' \in [Slots -> {"none", "Safe", "Never"}]
      /\ result' \in [Slots -> {"none", "ok", "err", "term"}] /\ exec' \in [Slots -> Nat]
  BY <1>0 DEF NoCalls
<1>9. TypeOK'
  BY <1>0, <1>3, <1>6, <1>7, <1>8 DEF TypeOK
<1>10. /\ CallsOf' = 1..n /\ Unanswered' = 1..n /\ Unresolved' = {} /\ OpenOps' = OpenOps
       /\ \A i \in 1..n : i \in Slots
  BY <1>0, <1>6, <1>7, Bounds DEF CallsOf, Unanswered, Unresolved, NoCalls, Slots, OpenOps
<1>11. EffectInv'
  BY <1>0, <1>3 DEF EffectInv, NoCalls
<1>12. BatchInv'
  BY <1>0, <1>3, <1>10 DEF BatchInv, NoCalls
<1>13. StageInv'
  BY <1>0, <1>3, <1>6, <1>10 DEF IInv, StageInv
<1>14. CompletedIsSettled'
  <2>1. ops[First(OpenOps)] = "open"
    BY <1>4 DEF OpenOps
  <2> QED BY <1>0, <1>6, <2>1 DEF CompletedIsSettled
<1> QED BY <1>9, <1>11, <1>12, <1>13, <1>14 DEF IInv

-----------------------------------------------------------------------------
(* What the drive, its recovery and every interruption of them preserve.   *)
LEMMA StepInv == IInv /\ [Next]_vars => IInv'
<1> SUFFICES ASSUME IInv, [Next]_vars PROVE IInv'
  OBVIOUS
<1>1. CASE Step
  BY <1>1, StartEpochInv, FollowPlanInv, BeginDriveInv, ProviderStartInv, ProviderSettleInv,
     ProviderDiscardInv, RefuseInv, PrepareImmediateInv, AdmitInv, ExecuteInv, CompleteInv,
     CancelCallInv, BatchDoneInv, AdvanceInv, RunSettledInv, ActivateInv, FinishOperationInv
     DEF Step
<1>2. CASE UNCHANGED vars
  BY <1>2 DEF vars, durable, IInv, TypeOK, EffectInv, BatchInv, StageInv, CompletedIsSettled,
              CallsOf, Unanswered, Unresolved, OpenOps, OwnTurn
<1> QED
  BY <1>1, <1>2, AcceptPromptInv, ResumeInv, ReconcileInv, AbortInv, InterruptedInv DEF Next

(* The inductive invariant of a drive holds in every state, for any tools, *)
(* stop reasons, calls, turns and failures.                                *)
THEOREM DriveInvariant == Spec => []IInv
  BY InitInv, StepInv, PTL DEF Spec

(* The state of a drive is well typed.                                     *)
THEOREM DriveTypeCorrect == Spec => []TypeOK
<1>1. IInv => TypeOK
  BY DEF IInv
<1> QED BY <1>1, DriveInvariant, PTL

(* No tool runs before before_tool committed its intent, and a call whose  *)
(* effect is under way is unanswered in the log.                           *)
THEOREM IntentFirst == Spec => []EffectHasIntent
<1>1. IInv => EffectHasIntent
  BY DEF IInv, TypeOK, DriveType, EffectInv, BatchInv, EffectHasIntent, Unanswered
<1> QED BY <1>1, DriveInvariant, PTL

(* A non-replayable effect happens at most once, however often the process *)
(* dies, the gate faults, the host cancels and the operation is resumed.   *)
THEOREM NeverRepeated == Spec => []NeverAtMostOnce
<1>1. IInv => NeverAtMostOnce
  <2> SUFFICES ASSUME IInv, NEW i \in CallsOf,
                      turn.calls[i] = "never" \/ started[i] = "Never"
               PROVE  exec[i] <= 1
    BY DEF NeverAtMostOnce
  <2>1. i \in Slots /\ started[i] \in {"none", "Safe", "Never"} /\ exec[i] \in Nat
    BY Calls DEF IInv, TypeOK
  <2>2. started[i] = "none" => ~(exec[i] > 0)
    BY <2>1 DEF IInv, EffectInv
  <2>3. started[i] \in {"none", "Never"}
    BY <2>1 DEF IInv, EffectInv
  <2> QED BY <2>1, <2>2, <2>3 DEF IInv, EffectInv
<1> QED BY <1>1, DriveInvariant, PTL

(* An operation is completed only when its requests are settled and the    *)
(* calls of its last turn are answered.                                    *)
THEOREM CompletesSettled == Spec => []CompletedIsSettled
<1>1. IInv => CompletedIsSettled
  BY DEF IInv
<1> QED BY <1>1, DriveInvariant, PTL

-----------------------------------------------------------------------------
(* An effect whose outcome nobody knows and no drive owns.                 *)
Indeterminate == \E i \in Unresolved : started[i] = "Never" /\ i \notin drv.live

(* Only a lane at rest, or one on its way there, has such an effect.       *)
LEMMA IndeterminateAtRest == IInv /\ Indeterminate => drv.pc \in {"free", "finish"}
<1> SUFFICES ASSUME IInv, NEW i \in Unresolved, started[i] = "Never", i \notin drv.live
             PROVE  drv.pc \in {"free", "finish"}
  BY DEF Indeterminate
<1>1. i \in Unanswered
  BY DEF Unresolved
<1>2. drv.pc # "batch"
  BY <1>1 DEF IInv, BatchInv
<1>3. drv.pc \notin {"turn", "stream", "advance", "settled", "activate"}
  BY <1>1 DEF IInv, StageInv
<1>4. drv.pc \notin {"plan", "start", "begin"}
  BY DEF IInv, StageInv
<1> QED BY <1>2, <1>3, <1>4 DEF IInv, TypeOK, DriveType

(* What a step may not do in that state.                                   *)
LEMMA IndeterminateStep ==
  ASSUME IInv, [Next]_vars, Indeterminate
  PROVE  /\ exec' = exec /\ prov' = prov
         /\ \A k \in Ops : ops[k] = "none" => ops'[k] = "none"
<1>1. drv.pc \in {"free", "finish"}
  BY IndeterminateAtRest
<1>2. ~AcceptPrompt
  BY DEF AcceptPrompt, Permitted, Indeterminate
<1>3. CASE FinishOperation
  <2>1. First(OpenOps) \in OpenOps
    BY <1>3, Calls, FirstIn DEF FinishOperation, IInv, StageInv
  <2>2. \A k \in Ops : ops[k] = "none" => k # First(OpenOps)
    BY <2>1 DEF OpenOps
  <2> QED BY <1>3, <2>2 DEF FinishOperation, IInv, TypeOK
<1>4. CASE Resume \/ Reconcile \/ Abort \/ DriveError \/ Crash \/ UNCHANGED vars
  BY <1>4 DEF Resume, Reconcile, Abort, DriveError, Crash, vars, durable
<1>5. Step => FinishOperation
  BY <1>1 DEF Step, StartEpoch, FollowPlan, BeginDrive, ProviderStart, ProviderSettle,
     ProviderDiscard, Refuse, PrepareImmediate, Preparing, Admit, Execute, Complete,
     CancelCall, BatchDone, Advance, RunSettled, Activate
<1> QED BY <1>2, <1>3, <1>4, <1>5 DEF Next

(* While a non-replayable effect has no outcome and no drive owns it, no   *)
(* operation starts, no request is sent and no effect happens, until the   *)
(* host reconciles it.                                                     *)
THEOREM IndeterminateHeld == Spec => IndeterminateBlocks
<1>1. IInv /\ [Next]_vars =>
        [Indeterminate => /\ exec' = exec /\ prov' = prov
                          /\ \A k \in Ops : ops[k] = "none" => ops'[k] = "none"]_vars
  BY IndeterminateStep
<1> QED
  BY <1>1, DriveInvariant, PTL DEF Spec, IndeterminateBlocks, Indeterminate
=============================================================================
