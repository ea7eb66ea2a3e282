---------------------------- MODULE OperationDrive ----------------------------
(***************************************************************************)
(* What one lane does inside its durable operations: provider requests and *)
(* tool batches behind the effect gate (`EpochRuntime`), harness rollover, *)
(* cancellation, and the recovery that `resume` derives from the log.      *)
(*                                                                         *)
(* Each commit of the session log is one step.  A crash, a failed commit   *)
(* or a faulted gate can fall between any two; the drive then ends and     *)
(* only the durable variables remain.  The log keeps every assistant turn; *)
(* the model keeps the latest, because a turn is answered in full before   *)
(* the next one is requested, and records in `broken` when that failed.    *)
(* RootLane is the queue and the claim around these operations.            *)
(***************************************************************************)
EXTENDS Naturals, Sequences, FiniteSets

CONSTANTS
  Tools,       \* tools a model may call: "safe", "never" and "harness"
  Stops,       \* terminal reasons of a response without tool calls
  CallStops,   \* terminal reasons of a response with tool calls
  MayAbort,    \* whether the host cancels drives
  MaxOps,      \* bound on the operations ever started
  MaxTurns,    \* bound on the provider responses ever settled
  MaxCalls,    \* bound on the tool calls of one response
  MaxFailures  \* bound on crashes, failed commits and gate faults

ASSUME DriveAssumption ==
  /\ Tools \subseteq {"safe", "never", "harness"}
  /\ Stops \cup CallStops \subseteq {"tooluse", "stop", "length", "error", "cancelled"}
  /\ MayAbort \in BOOLEAN
  /\ MaxOps \in Nat /\ MaxTurns \in Nat /\ MaxCalls \in Nat /\ MaxFailures \in Nat

VARIABLES
  \* durable
  ops,       \* outcome of each operation: "none" | "open" | outcome
  epoch,     \* epoch of the open operation: "none" | "open" | "closed"
  prov,      \* the open operation has an unsettled provider request
  turn,      \* latest assistant entry
  started,   \* ToolStarted of its calls: "none" or the policy at start
  result,    \* ToolResult of its calls: "none" | "ok" | "err" | "term"
  request,   \* harness activation of the open operation
  broken,    \* a user message follows an assistant turn with unanswered calls
  \* process-local
  drv,       \* the drive, and the tool batch it is in
  abort,     \* LaneRuntime::abort_requested
  declared,  \* the reopened host still declares the "safe" tools replay-safe
  \* bookkeeping
  turns, failures,
  exec       \* history: external executions of each call of the turn

durable == <<ops, epoch, prov, turn, started, result, request, broken>>
vars == <<durable, drv, abort, declared, turns, failures, exec>>

-----------------------------------------------------------------------------
Ops == 1..MaxOps
Slots == 1..MaxCalls
Outcomes == {"completed", "aborted", "failed"}
NoTurn == [op |-> 0, calls |-> <<>>, stop |-> "none", fresh |-> FALSE]
NoCalls == [i \in Slots |-> "none"]

(* left: calls not prepared yet; live: admitted and unsettled; ran: live   *)
(* and executed; imm: settled in memory only; replay: intents to reuse;    *)
(* going: a call of the batch gave no terminate hint.                      *)
Free == [pc |-> "free", out |-> "none", mode |-> "none", left |-> {}, live |-> {},
         ran |-> {}, imm |-> {}, replay |-> {}, going |-> FALSE]

First(S) == CHOOSE i \in S : \A j \in S : i <= j
At(pc) == [drv EXCEPT !.pc = pc]
Finishing(out) == [Free EXCEPT !.pc = "finish", !.out = out]

OpenOps == {k \in Ops : ops[k] = "open"}
Started == {k \in Ops : ops[k] # "none"}
CallsOf == 1..Len(turn.calls)
Unanswered == {i \in CallsOf : result[i] = "none"}
Unresolved == {i \in Unanswered : started[i] # "none"}
OwnTurn == turn.op \in OpenOps

(* Mutant: every tool counts as replay safe.                               *)
PolicyLax(i) == "Safe"

(* The policy before_tool records: an extension tool is replay safe only   *)
(* while its current declaration says so; the idempotent harness control   *)
(* tool always is.                                                         *)
Policy(i) ==
  IF turn.calls[i] = "never" \/ (turn.calls[i] = "safe" /\ ~declared) THEN "Never" ELSE "Safe"

-----------------------------------------------------------------------------
Init ==
  /\ ops = [k \in Ops |-> "none"] /\ epoch = "none" /\ prov = FALSE
  /\ turn = NoTurn /\ started = NoCalls /\ result = NoCalls
  /\ request = "none" /\ broken = FALSE
  /\ drv = Free /\ abort = FALSE /\ declared = TRUE
  /\ turns = 0 /\ failures = 0 /\ exec = [i \in Slots |-> 0]

-----------------------------------------------------------------------------
(* Admission and recovery.                                                 *)

(* Mutant: recovery never asks for reconciliation.                         *)
PermittedAlways == TRUE

(* ensure_recovery_permitted: no unresolved effect of the lane, in an open *)
(* or a closed operation, is non-replayable or no longer declared safe.    *)
Permitted == \A i \in Unresolved : started[i] = "Safe" /\ Policy(i) = "Safe"

(* A prompt, an input batch or a continuation is accepted: the operation   *)
(* and its user message commit together.                                   *)
AcceptPrompt ==
  /\ drv.pc = "free" /\ OpenOps = {} /\ Permitted
  /\ turns < MaxTurns
  /\ \E k \in Ops :
       /\ ops[k] = "none" /\ \A j \in Ops : j < k => ops[j] # "none"
       /\ ops' = [ops EXCEPT ![k] = "open"]
  /\ epoch' = "none" /\ request' = "none"
  /\ broken' = (broken \/ Unanswered # {})
  /\ drv' = At("start")
  /\ UNCHANGED <<prov, turn, started, result, abort, declared, turns, failures, exec>>

(* start_epoch.                                                            *)
StartEpoch ==
  /\ drv.pc = "start"
  /\ epoch' = "open"
  /\ turn' = [turn EXCEPT !.fresh = FALSE]
  /\ drv' = At("begin")
  /\ UNCHANGED <<ops, prov, started, result, request, broken, abort, declared,
                 turns, failures, exec>>

(* resume: claim the lane and pass the recovery gate.                      *)
Resume ==
  /\ drv.pc = "free" /\ OpenOps # {} /\ Permitted
  /\ drv' = At("plan")
  /\ UNCHANGED <<durable, abort, declared, turns, failures, exec>>

(* derive_recovery_plan, in the order of its checks.  Accepted input and   *)
(* its entries commit together, so none can be missing.                    *)
RecoveryPlan ==
  CASE OwnTurn /\ Unresolved # {} ->
         IF started[First(Unresolved)] = "Safe" THEN "replay" ELSE "reconcile"
    [] ~(OwnTurn /\ Unresolved # {}) /\ prov -> "provider"
    [] ~(OwnTurn /\ Unresolved # {}) /\ ~prov ->
         IF request = "pending" /\ epoch # "open" THEN "activate"
         ELSE IF OwnTurn /\ Unanswered # {} THEN "tools"
         ELSE IF epoch # "open" THEN "start" ELSE "run"

(* committed_run_outcome: the outcome that the messages of the open epoch  *)
(* already prove, if any.                                                  *)
CommittedOutcome ==
  IF ~turn.fresh \/ ~OwnTurn THEN {}
  ELSE IF turn.calls # <<>>
    THEN IF \A i \in CallsOf : result[i] = "term" THEN {"completed"} ELSE {}
    ELSE CASE turn.stop = "stop" -> {"completed"}
           [] turn.stop = "cancelled" -> {"aborted"}
           [] turn.stop = "error" -> {"failed"}
           [] turn.stop \in {"length", "tooluse"} -> {}

(* recovery_tool_calls: the calls without a committed result.              *)
RecoveryCalls == Unanswered

(* resume_claimed_lane_runtime: one turn of its loop.                      *)
FollowPlan ==
  /\ drv.pc = "plan"
  /\ \/ /\ RecoveryPlan \in {"replay", "tools"}
        /\ drv' = [Free EXCEPT !.pc = "begin", !.left = RecoveryCalls,
                     !.replay = Unresolved]
        /\ UNCHANGED <<prov, request>>
     \/ /\ RecoveryPlan = "provider"
        /\ prov' = FALSE
        /\ UNCHANGED <<request, drv>>
     \/ /\ RecoveryPlan = "activate"
        /\ request' = "done"
        /\ drv' = At("start")
        /\ UNCHANGED prov
     \/ /\ RecoveryPlan = "start"
        /\ drv' = At("start")
        /\ UNCHANGED <<prov, request>>
     \/ /\ RecoveryPlan = "run"
        /\ drv' \in IF CommittedOutcome = {} THEN {At("begin")}
                    ELSE {Finishing(o) : o \in CommittedOutcome}
        /\ UNCHANGED <<prov, request>>
  /\ UNCHANGED <<ops, epoch, turn, started, result, broken, abort, declared,
                 turns, failures, exec>>

(* reconcile_tool_result: the host, holding the claim, records the outcome *)
(* of an unresolved effect; in a closed operation the calls that were      *)
(* never admitted are answered in the same commit.                         *)
Reconcile ==
  /\ drv.pc = "free"
  /\ \E i \in Unresolved, r \in {"ok", "err", "term"} :
       result' = [j \in Slots |->
                    IF j = i THEN r
                    ELSE IF ~OwnTurn /\ j \in Unanswered \ Unresolved THEN "err"
                    ELSE result[j]]
  /\ UNCHANGED <<ops, epoch, prov, turn, started, request, broken, drv, abort,
                 declared, turns, failures, exec>>

-----------------------------------------------------------------------------
(* One epoch of the run.                                                   *)

(* execute_tool_calls: an exclusive tool in a batch of several rejects the *)
(* whole batch; alone it runs sequentially; other tools may overlap.       *)
Batch(calls, todo, replay, prior) ==
  LET harness == \E i \in todo : calls[i] = "harness"
      modes == IF harness /\ Cardinality(todo) > 1 THEN {"reject"}
               ELSE IF harness THEN {"seq"} ELSE {"seq", "par"}
  IN  {[Free EXCEPT !.pc = "batch", !.mode = m, !.left = todo, !.replay = replay,
          !.going = m = "reject" \/ ~prior] : m \in modes}

(* Mutant: also the calls a recovery is about to run count as unpaired.    *)
ContextDerivableStrict == ~broken /\ Unanswered = {}

(* validate_protected_context and restore_messages refuse a transcript     *)
(* with unanswered calls, other than the ones a recovery is about to run.  *)
ContextDerivable ==
  /\ ~broken
  /\ drv.left # {} => turn.stop = "tooluse"
  /\ drv.left = {} => Unanswered = {}

(* drive_epoch: derive the context, install the agent, and enter the run   *)
(* unless a cancellation is already pending.                               *)
BeginDrive ==
  /\ drv.pc = "begin"
  /\ IF ~ContextDerivable THEN drv' = Free
     ELSE IF abort THEN drv' = Finishing("aborted")
     ELSE IF drv.left = {} THEN drv' = At("turn")
     ELSE drv' \in Batch(turn.calls, drv.left, drv.replay,
                         \A i \in CallsOf \ drv.left : result[i] = "term")
  /\ UNCHANGED <<durable, abort, declared, turns, failures, exec>>

(* before_provider: step, request and request material in one commit.      *)
ProviderStart ==
  /\ drv.pc = "turn"
  /\ prov' = TRUE
  /\ drv' = At("stream")
  /\ UNCHANGED <<ops, epoch, turn, started, result, request, broken, abort,
                 declared, turns, failures, exec>>

(* Mutant: calls beside a final answer are ignored.                        *)
AfterResponseLenient(calls, stop) ==
  IF stop = "tooluse" /\ calls # <<>> THEN Batch(calls, 1..Len(calls), {}, TRUE)
  ELSE {[Free EXCEPT !.pc = "advance", !.going = stop = "length"]}

(* Where drive_inner goes with a settled response.                         *)
AfterResponse(calls, stop) ==
  CASE stop = "error" ->
         {Finishing("failed")} \cup (IF abort THEN {Finishing("aborted")} ELSE {})
    [] stop = "cancelled" /\ abort -> {Finishing("aborted")}
    [] stop # "error" /\ ~(stop = "cancelled" /\ abort) /\ calls = <<>> ->
         {[Free EXCEPT !.pc = "advance", !.going = stop = "length"]}
    [] stop # "error" /\ ~(stop = "cancelled" /\ abort) /\ calls # <<>> ->
         CASE stop = "tooluse" -> Batch(calls, 1..Len(calls), {}, TRUE)
           [] stop = "length" -> {[Free EXCEPT !.pc = "batch", !.mode = "truncated",
                                     !.left = 1..Len(calls), !.going = TRUE]}
           [] stop \in {"stop", "cancelled"} -> {Finishing("failed")}

(* after_provider: the settlement and the assistant entry in one commit.   *)
(* The last response the bound allows is a plain answer.                   *)
ProviderSettle ==
  /\ drv.pc = "stream"
  /\ \E n \in 0..MaxCalls : \E calls \in [1..n -> Tools],
                               stop \in IF n = 0 THEN Stops ELSE CallStops :
       /\ turns + 1 < MaxTurns \/ (n = 0 /\ stop = "stop")
       /\ turn' = [op |-> First(OpenOps), calls |-> calls, stop |-> stop, fresh |-> TRUE]
       /\ drv' \in AfterResponse(calls, stop)
  /\ prov' = FALSE /\ turns' = IF turns < MaxTurns THEN turns + 1 ELSE turns
  /\ started' = NoCalls /\ result' = NoCalls /\ exec' = [i \in Slots |-> 0]
  /\ UNCHANGED <<ops, epoch, request, broken, abort, declared, failures>>

(* A failed stream settles as interrupted, a context overflow as           *)
(* discarded: neither leaves an entry; an overflow may be retried after    *)
(* compaction.                                                             *)
ProviderDiscard ==
  /\ drv.pc = "stream" /\ turns + 1 < MaxTurns
  /\ prov' = FALSE /\ turns' = turns + 1
  /\ drv' \in {At("turn"), Finishing("failed")}
  /\ UNCHANGED <<ops, epoch, turn, started, result, request, broken, abort,
                 declared, failures, exec>>

Answer(i, r) == result' = [result EXCEPT ![i] = IF @ = "none" THEN r ELSE @]

(* reject_exclusive_tool_batch, fail_truncated_tool_calls and              *)
(* append_skipped_sequential_calls: one refusal per commit, in order.      *)
Refuse ==
  /\ drv.pc = "batch" /\ drv.mode \in {"reject", "truncated", "skip"}
  /\ IF drv.left # {}
       THEN Answer(First(drv.left), "err")
            /\ drv' = [drv EXCEPT !.left = @ \ {First(drv.left)}]
       ELSE UNCHANGED result
            /\ drv' = IF drv.mode = "skip" THEN Finishing("failed") ELSE At("advance")
  /\ UNCHANGED <<ops, epoch, prov, turn, started, request, broken, abort,
                 declared, turns, failures, exec>>

Preparing == drv.pc = "batch" /\ drv.left # {} /\
             (drv.mode = "par" \/ (drv.mode = "seq" /\ drv.live = {}))

(* prepare_tool_call without an intent: an unknown, blocked or invalid     *)
(* call, or any call once the run is cancelled.  A sequential call is      *)
(* answered at once, a parallel one with its batch.  Policy may stop here. *)
PrepareImmediate ==
  /\ Preparing
  /\ LET i == First(drv.left)
     IN  \E more \in BOOLEAN :
           /\ abort => more
           /\ IF drv.mode = "seq"
                THEN Answer(i, "err")
                     /\ drv' = [drv EXCEPT !.left = @ \ {i}, !.going = @ \/ more]
                ELSE UNCHANGED result
                     /\ drv' = [drv EXCEPT !.left = @ \ {i}, !.imm = @ \cup {i},
                                  !.going = @ \/ more]
  /\ UNCHANGED <<ops, epoch, prov, turn, started, request, broken, abort,
                 declared, turns, failures, exec>>

(* Mutant: the call is started without its durable intent.                 *)
AdmitSilently ==
  /\ Preparing /\ ~abort
  /\ drv' = [drv EXCEPT !.left = @ \ {First(drv.left)}, !.live = @ \cup {First(drv.left)}]
  /\ UNCHANGED <<durable, abort, declared, turns, failures, exec>>

(* before_tool: commit the intent, or reuse the one that is replayed.      *)
Admit ==
  /\ Preparing /\ ~abort
  /\ LET i == First(drv.left)
     IN  /\ IF i \in drv.replay THEN started[i] = "Safe" /\ Policy(i) = "Safe"
                                ELSE started[i] = "none"
         /\ started' = [started EXCEPT ![i] = IF i \in drv.replay THEN @ ELSE Policy(i)]
         /\ drv' = [drv EXCEPT !.left = @ \ {i}, !.live = @ \cup {i}]
  /\ UNCHANGED <<ops, epoch, prov, turn, result, request, broken, abort,
                 declared, turns, failures, exec>>

(* The external effect.  The harness control tool may record one           *)
(* activation request per operation (schedule_candidate); a replay of it   *)
(* finds its own request.                                                  *)
Execute ==
  /\ drv.pc = "batch" /\ (drv.mode = "par" => drv.left = {})
  /\ \E i \in drv.live \ drv.ran :
       /\ exec' = [exec EXCEPT ![i] = @ + 1]
       /\ drv' = [drv EXCEPT !.ran = @ \cup {i}]
       /\ IF turn.calls[i] = "harness" /\ request = "none"
            THEN request' \in {"none", "pending"} ELSE UNCHANGED request
  /\ UNCHANGED <<ops, epoch, prov, turn, started, result, broken, abort,
                 declared, turns, failures>>

(* finalize_executed_tool and after_tool: the result commits, with the     *)
(* terminate hint the tool gave and its hook kept or changed.  A           *)
(* sequential failure may trip the circuit breaker.                        *)
Complete ==
  /\ drv.pc = "batch"
  /\ \E i \in drv.ran, r \in {"ok", "err", "term"} :
       /\ Answer(i, r)
       /\ \E mode \in {drv.mode} \cup
                      (IF drv.mode = "seq" /\ r = "err" /\ ~abort THEN {"skip"} ELSE {}) :
            drv' = [drv EXCEPT !.live = @ \ {i}, !.ran = @ \ {i}, !.mode = mode,
                      !.going = @ \/ r # "term"]
  /\ UNCHANGED <<ops, epoch, prov, turn, started, request, broken, abort,
                 declared, turns, failures, exec>>

(* A cancelled run drops its pending tool futures and settles them one by  *)
(* one; calls whose progress update raised the cancellation, and tools     *)
(* that ask to be awaited, may still complete before or after the others.  *)
(* A replay-safe effect is settled with an error result; a non-replayable  *)
(* one faults the gate and leaves its outcome open (interrupted_mutation). *)
CancelCall ==
  /\ drv.pc = "batch" /\ abort /\ (drv.mode = "par" => drv.left = {})
  /\ \E i \in drv.live :
       IF started[i] = "Never"
         THEN UNCHANGED result /\ drv' = Finishing("aborted")
         ELSE Answer(i, "err")
              /\ drv' = [drv EXCEPT !.live = @ \ {i}, !.ran = @ \ {i}, !.going = TRUE]
  /\ UNCHANGED <<ops, epoch, prov, turn, started, request, broken, abort,
                 declared, turns, failures, exec>>

(* The batch is settled: immediate results of a parallel batch are         *)
(* appended in order; then the run goes on, or a failure is terminal.      *)
BatchDone ==
  /\ drv.pc = "batch" /\ drv.mode \in {"seq", "par"} /\ drv.left = {} /\ drv.live = {}
  /\ IF drv.imm # {}
       THEN Answer(First(drv.imm), "err")
            /\ drv' = [drv EXCEPT !.imm = @ \ {First(drv.imm)}]
       ELSE /\ UNCHANGED result
            /\ \/ drv' = At("advance")
               \/ /\ drv.mode = "par" /\ ~abort
                  /\ \E i \in CallsOf : started[i] # "none" /\ result[i] = "err"
                  /\ drv' = Finishing("failed")
  /\ UNCHANGED <<ops, epoch, prov, turn, started, request, broken, abort,
                 declared, turns, failures, exec>>

(* advance_after_assistant_turn: another turn, unless a hook stops it or   *)
(* nothing asks for one.                                                   *)
Advance ==
  /\ drv.pc = "advance"
  /\ \/ drv.going /\ drv' = At("turn")
     \/ drv' = At("settled")
  /\ UNCHANGED <<durable, abort, declared, turns, failures, exec>>

(* The run returned Ok: an activation closes the epoch and continues in a  *)
(* new one, otherwise the operation is complete.                           *)
RunSettled ==
  /\ drv.pc = "settled"
  /\ IF request = "pending" THEN epoch' = "closed" /\ drv' = At("activate")
                            ELSE epoch' = epoch /\ drv' = Finishing("completed")
  /\ UNCHANGED <<ops, prov, turn, started, result, request, broken, abort,
                 declared, turns, failures, exec>>

(* activate_pending_harness: the new revision entry commits.               *)
Activate ==
  /\ drv.pc = "activate"
  /\ request' = "done"
  /\ drv' = At("start")
  /\ UNCHANGED <<ops, epoch, prov, turn, started, result, broken, abort,
                 declared, turns, failures, exec>>

(* finish_operation.                                                       *)
FinishOperation ==
  /\ drv.pc = "finish"
  /\ ops' = [ops EXCEPT ![First(OpenOps)] = drv.out]
  /\ epoch' = "none"
  /\ abort' = FALSE
  /\ drv' = Free
  /\ UNCHANGED <<prov, turn, started, result, request, broken, declared, turns,
                 failures, exec>>

-----------------------------------------------------------------------------
(* abort_root while a drive holds the claim.                               *)
Abort ==
  /\ MayAbort /\ drv.pc # "free" /\ ~abort
  /\ abort' = TRUE
  /\ UNCHANGED <<durable, drv, declared, turns, failures, exec>>

(* A commit, a hook or the gate fails: the drive returns an error and the  *)
(* operation stays open.                                                   *)
DriveError ==
  /\ drv.pc # "free" /\ failures < MaxFailures
  /\ failures' = failures + 1
  /\ drv' = Free
  /\ UNCHANGED <<durable, abort, declared, turns, exec>>

(* The process dies and is reopened, perhaps with other declarations.      *)
Crash ==
  /\ failures < MaxFailures
  /\ failures' = failures + 1
  /\ drv' = Free /\ abort' = FALSE
  /\ declared' \in BOOLEAN
  /\ UNCHANGED <<durable, turns, exec>>

Step == \/ StartEpoch \/ FollowPlan \/ BeginDrive \/ ProviderStart \/ ProviderSettle
        \/ ProviderDiscard \/ Refuse \/ PrepareImmediate \/ Admit \/ Execute
        \/ Complete \/ CancelCall \/ BatchDone \/ Advance
        \/ RunSettled \/ Activate \/ FinishOperation

Next == AcceptPrompt \/ Resume \/ Reconcile \/ Step \/ Abort \/ DriveError \/ Crash

Spec == Init /\ [][Next]_vars

(* The host polls its drive, resumes an open operation and reconciles what *)
(* blocks it; providers and tools return.                                  *)
FairSpec == Spec /\ WF_vars(Step) /\ WF_vars(Resume) /\ WF_vars(Reconcile)

-----------------------------------------------------------------------------
TurnType == [op : 0..MaxOps, calls : Seq(Tools), fresh : BOOLEAN,
             stop : Stops \cup CallStops \cup {"none"}]
DriveType == [pc : {"free", "plan", "start", "begin", "turn", "stream", "batch",
                    "advance", "settled", "activate", "finish"},
              out : Outcomes \cup {"none"},
              mode : {"none", "seq", "par", "reject", "truncated", "skip"},
              left : SUBSET Slots, live : SUBSET Slots, ran : SUBSET Slots,
              imm : SUBSET Slots, replay : SUBSET Slots, going : BOOLEAN]

(* TypeOK: durable and process-local state of the drive has its type.      *)
TypeOK ==
  /\ ops \in [Ops -> {"none", "open"} \cup Outcomes]
  /\ epoch \in {"none", "open", "closed"} /\ prov \in BOOLEAN
  /\ turn \in TurnType /\ Len(turn.calls) <= MaxCalls
  /\ started \in [Slots -> {"none", "Safe", "Never"}]
  /\ result \in [Slots -> {"none", "ok", "err", "term"}]
  /\ request \in {"none", "pending", "done"} /\ broken \in BOOLEAN
  /\ drv \in DriveType
  /\ drv.ran \subseteq drv.live /\ (drv.pc = "finish" <=> drv.out # "none")
  /\ abort \in BOOLEAN /\ declared \in BOOLEAN
  /\ turns \in 0..MaxTurns /\ failures \in 0..MaxFailures /\ exec \in [Slots -> Nat]

(* EffectHasIntent: no external effect without its durable intent, and the *)
(* call of every running effect is still unanswered in the log.            *)
EffectHasIntent ==
  /\ \A i \in Slots : exec[i] > 0 => started[i] # "none"
  /\ \A i \in drv.live : result[i] = "none" /\ started[i] # "none"

(* NeverAtMostOnce: the effect of a non-replayable call happens at most    *)
(* once, across crashes, faults, cancellations, replays of its siblings    *)
(* and reconciliation.                                                     *)
NeverAtMostOnce ==
  \A i \in CallsOf : turn.calls[i] = "never" \/ started[i] = "Never" => exec[i] <= 1

(* IndeterminateBlocks: while a non-replayable effect has no outcome and   *)
(* no drive owns it, no operation starts, no request is sent and no effect *)
(* happens.                                                                *)
IndeterminateBlocks ==
  [][(\E i \in Unresolved : started[i] = "Never" /\ i \notin drv.live) =>
       /\ exec' = exec /\ prov' = prov
       /\ \A k \in Ops : ops[k] = "none" => ops'[k] = "none"]_vars

(* CompletedIsSettled: an operation completes only with every request      *)
(* settled and every call of its last turn answered, whether its drive or  *)
(* a recovery from the log completed it.                                   *)
CompletedIsSettled ==
  \A k \in Ops : ops[k] = "completed" =>
    /\ turn.op = k => Unanswered = {}
    /\ OpenOps = {} => ~prov

(* Recovers: an open operation is eventually finished.                     *)
Recovers == OpenOps # {} ~> OpenOps = {}

(* ActivationHonored: an operation with a scheduled harness activation is  *)
(* not completed before that activation.                                   *)
ActivationHonored == drv.pc = "finish" /\ drv.out = "completed" => request # "pending"

(* MixedBatchRejected: no call of a batch that mixes the exclusive harness *)
(* tool with other calls is executed.                                      *)
MixedBatchRejected ==
  Cardinality(CallsOf) > 1 /\ (\E i \in CallsOf : turn.calls[i] = "harness") =>
    \A i \in CallsOf : exec[i] = 0

(* ContextStaysPaired: no operation is accepted behind unanswered calls,   *)
(* so that every operation can derive a provider context.                  *)
ContextStaysPaired == ~broken
=============================================================================
