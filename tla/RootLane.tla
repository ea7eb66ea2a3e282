------------------------------- MODULE RootLane -------------------------------
(***************************************************************************)
(* The root lane of a `SessionSupervisor`: its durable input queue, its    *)
(* operations, and the process-local authority that drives them.           *)
(*                                                                         *)
(* Durable state changes only in session commits, each one step.  Process- *)
(* local state is the drive claim (`LaneRuntime::active`), the sticky      *)
(* cancellation bit, the installed agent, the completion cells and the     *)
(* pending continuation; a crash forgets it and a reopened supervisor      *)
(* starts with none.  One host thread at a time holds the claim; its       *)
(* control state is `drv`.  Submission, withdrawal, completion handles,    *)
(* commands, thinking changes, cancellation and close run beside it.       *)
(*                                                                         *)
(* What an operation does between its epoch start and its terminal commit  *)
(* is OperationDrive's subject; here it ends, rolls over to a new harness  *)
(* revision, or is left open by an error.                                  *)
(***************************************************************************)
EXTENDS Naturals

CONSTANTS
  HostCalls,    \* the calls the host makes beside its drives
  MaxInputs,    \* bound on the inputs ever submitted
  MaxOps,       \* bound on the operations ever started
  MaxControls,  \* bound on the extension controls ever queued
  MaxRevisions, \* bound on the harness revisions ever activated
  MaxChanges,   \* bound on the configuration entries appended while idle
  MaxForks,     \* bound on the lanes ever forked from the root
  MaxCrashes    \* bound on the crashes

ASSUME LaneAssumption ==
  /\ HostCalls \subseteq {"submit", "withdraw", "command", "thinking", "fork", "abort", "close"}
  /\ MaxInputs \in Nat /\ MaxOps \in Nat /\ MaxControls \in Nat
  /\ MaxRevisions \in Nat \ {0} /\ MaxChanges \in Nat /\ MaxForks \in Nat
  /\ MaxCrashes \in Nat

Inputs == 1..MaxInputs
Ops == 1..MaxOps
Controls == 1..MaxControls
ForkLanes == 1..MaxForks
Outcomes == {"completed", "aborted", "failed"}

VARIABLES
  \* durable, the reduction of the session log for the root lane
  inp,      \* InputState of each accepted input; inputs queue in id order
  op,       \* OperationState of each operation
  ctl,      \* extension controls: pinned operation, revision, status
  rev,      \* active harness revision
  leaf,     \* configuration and marker entries appended outside operations
  ready,    \* checkpoint_ready_for: operation that may still be checkpointed
  forks,    \* ForkedLane facts: the operation whose checkpoint each lane starts at
  \* process-local
  drv,      \* the holder of the drive claim
  abort,    \* LaneRuntime::abort_requested
  agent,    \* LaneRuntime::active_agent: "none" | "live" | "aborted"
  cont,     \* LaneRuntime::pending_extension_continuation is set
  cell,     \* completion cells retained by the host
  owed,     \* committed withdrawals whose completion is not yet published
  look,     \* inputs whose completion handle is being reconstructed
  cmd,      \* a command that observed an active operation, not yet queued
  think,    \* a thinking change that saw the lane unclaimed
  aborting, \* cancellers that raised the bit and have not reached the agent yet
  closer,   \* close(): "open", then "closed", "cancel", "joining", "joined"
  \* bookkeeping
  crashes,
  idled,    \* history: idle callbacks run for each operation
  inherited \* history: the current claim found the cancellation bit raised

durable == <<inp, op, ctl, rev, leaf, ready, forks>>
calls == <<cell, owed, look, cmd, think>>
vars == <<durable, drv, abort, agent, cont, calls, aborting, closer, crashes,
          idled, inherited>>

-----------------------------------------------------------------------------
NoInput == [st |-> "none", op |-> 0, out |-> "none"]
NoOp == [st |-> "none", kind |-> "none", ckpt |-> FALSE, idle |-> FALSE]
NoControl == [st |-> "none", op |-> 0, rev |-> 0]
NoObs == [queue |-> {}, leaf |-> 0, rev |-> 0]
Free == [pc |-> "free", kind |-> "none", op |-> 0, out |-> "none", obs |-> NoObs]

Kinds == {"none", "inputs", "continue", "prompt", "resume", "command", "idle", "fork"}
Pcs == {"free", "claimed", "submit", "controls", "decide", "hooks", "offer", "commit",
        "resume", "started", "install", "installed", "running", "finish",
        "publish", "clear", "release", "fork"}

PendingInputs == {i \in Inputs : inp[i].st = "pending"}
PendingControls == {c \in Controls : ctl[c].st = "pending"}
OpenOps == {k \in Ops : op[k].st = "open"}
Started == {k \in Ops : op[k].st # "none"}
Idle == OpenOps = {}

(* terminal_operation: the latest operation, once it has finished.         *)
LastOp == IF Started = {} THEN 0 ELSE CHOOSE k \in Started : \A j \in Started : j <= k

(* ensure_open under the operation gate.                                   *)
EnsureOpen == closer = "open"

(* The observed lane an acceptance must still find when it commits.        *)
Observe(queue) == [queue |-> queue, leaf |-> leaf, rev |-> rev]

At(pc) == [drv EXCEPT !.pc = pc]

(* Leaving a drive: only the drop of the claim is left to do.              *)
Leave == [Free EXCEPT !.pc = "release"]

(* completion_from_disposition: what a terminal disposition tells a waiter. *)
Terminal(i) == inp[i].st \in {"withdrawn", "settled"}

(* InputCompletionRegistry::settle: only a retained, empty cell is filled; *)
(* the first completion wins.                                              *)
Settle(is, d) ==
  [i \in Inputs |-> IF i \in is /\ cell[i].st = "waiting" THEN d[i] ELSE cell[i]]

-----------------------------------------------------------------------------
Init ==
  /\ inp = [i \in Inputs |-> NoInput]
  /\ op = [k \in Ops |-> NoOp]
  /\ ctl = [c \in Controls |-> NoControl]
  /\ rev = 1 /\ leaf = 0 /\ ready = 0 /\ forks = [l \in ForkLanes |-> 0]
  /\ drv = Free /\ abort = FALSE /\ agent = "none" /\ cont = FALSE
  /\ cell = [i \in Inputs |-> NoInput]
  /\ owed = {} /\ look = {} /\ cmd = NoControl /\ think = FALSE
  /\ aborting = {} /\ closer = "open"
  /\ crashes = 0 /\ idled = [k \in Ops |-> 0] /\ inherited = FALSE

-----------------------------------------------------------------------------
(* Calls that need no claim.                                               *)

(* The admission commit shared by submit_input and run_root_prompt: under  *)
(* the gate and the writer lock, the cell is registered, then the record   *)
(* committed.  Any such record ends checkpoint readiness in the reducer.   *)
AcceptInput ==
  \E i \in Inputs :
    /\ inp[i].st = "none" /\ \A j \in Inputs : j < i => inp[j].st # "none"
    /\ inp' = [inp EXCEPT ![i] = [st |-> "pending", op |-> 0, out |-> "none"]]
    /\ cell' = [cell EXCEPT ![i] = [st |-> "waiting", op |-> 0, out |-> "none"]]
    /\ ready' = 0

SubmitInput ==
  /\ "submit" \in HostCalls /\ EnsureOpen
  /\ AcceptInput
  /\ UNCHANGED <<forks, op, ctl, rev, leaf, drv, abort, agent, cont, owed, look, cmd,
                 think, aborting, closer, crashes, idled, inherited>>

(* withdraw_inputs: every named input must be pending; one commit.  It     *)
(* takes the writer lock only, so close does not stop it.                  *)
WithdrawInputs ==
  /\ "withdraw" \in HostCalls
  /\ \E is \in SUBSET PendingInputs \ {{}} :
      /\ inp' = [i \in Inputs |-> IF i \in is THEN [st |-> "withdrawn", op |-> 0, out |-> "none"]
                                  ELSE inp[i]]
      /\ owed' = owed \cup is
      /\ ready' = 0
      /\ UNCHANGED <<forks, op, ctl, rev, leaf, drv, abort, agent, cont, cell, look, cmd,
                     think, aborting, closer, crashes, idled, inherited>>

(* ... and then, outside the lock, settles the local cells.                *)
PublishWithdrawn ==
  /\ owed # {}
  /\ cell' = Settle(owed, inp)
  /\ owed' = {}
  /\ UNCHANGED <<durable, drv, abort, agent, cont, look, cmd, think, aborting,
                 closer, crashes, idled, inherited>>

(* input_completion_handle after a reopen, which leaves no handle: the      *)
(* cell is installed first ...                                             *)
HandleRegister ==
  \E i \in Inputs :
    /\ inp[i].st # "none" /\ cell[i].st = "none"
    /\ cell' = [cell EXCEPT ![i] = [st |-> "waiting", op |-> 0, out |-> "none"]]
    /\ look' = look \cup {i}
    /\ UNCHANGED <<durable, drv, abort, agent, cont, owed, cmd, think, aborting,
                   closer, crashes, idled, inherited>>

(* Mutant of HandleStatus: it does not settle the cell.                   *)
HandleStatusForgets ==
  \E i \in look :
    /\ look' = look \ {i}
    /\ UNCHANGED <<durable, drv, abort, agent, cont, cell, owed, cmd, think,
                   aborting, closer, crashes, idled, inherited>>

(* ... and the durable status is read afterwards.                          *)
HandleStatus ==
  \E i \in look :
    /\ cell' = IF Terminal(i) THEN Settle({i}, inp) ELSE cell
    /\ look' = look \ {i}
    /\ UNCHANGED <<durable, drv, abort, agent, cont, owed, cmd, think, aborting,
                   closer, crashes, idled, inherited>>

(* dispatch_extension_command while an operation is active: the command is *)
(* resolved against a snapshot ...                                         *)
CommandObserve ==
  /\ "command" \in HostCalls
  /\ cmd = NoControl /\ \E c \in Controls : ctl[c].st = "none"
  /\ \E k \in OpenOps : cmd' = [st |-> "pending", op |-> k, rev |-> rev]
  /\ UNCHANGED <<durable, drv, abort, agent, cont, cell, owed, look, think,
                 aborting, closer, crashes, idled, inherited>>

(* ... and queued if the gate is open and operation and revision are still *)
(* the observed ones.                                                      *)
CommandEnqueue ==
  /\ cmd # NoControl
  /\ \/ /\ EnsureOpen /\ cmd.op \in OpenOps /\ cmd.rev = rev
        /\ \E c \in Controls :
             /\ ctl[c].st = "none" /\ \A d \in Controls : d < c => ctl[d].st # "none"
             /\ ctl' = [ctl EXCEPT ![c] = cmd]
        /\ ready' = 0
     \/ /\ ~(EnsureOpen /\ cmd.op \in OpenOps /\ cmd.rev = rev)
        /\ UNCHANGED <<ctl, ready>>
  /\ cmd' = NoControl
  /\ UNCHANGED <<forks, inp, op, rev, leaf, drv, abort, agent, cont, cell, owed, look,
                 think, aborting, closer, crashes, idled, inherited>>

(* replace_thinking_level checks the claim first and commits under the     *)
(* writer lock later, so a drive can be claimed in between.                *)
ThinkingCheck ==
  /\ "thinking" \in HostCalls
  /\ ~think /\ drv.pc = "free" /\ leaf < MaxChanges
  /\ think' = TRUE
  /\ UNCHANGED <<durable, drv, abort, agent, cont, cell, owed, look, cmd,
                 aborting, closer, crashes, idled, inherited>>

ThinkingCommit ==
  /\ think
  /\ think' = FALSE
  /\ IF Idle THEN leaf' = leaf + 1 /\ ready' = 0 ELSE UNCHANGED <<leaf, ready>>
  /\ UNCHANGED <<forks, inp, op, ctl, rev, drv, abort, agent, cont, cell, owed, look,
                 cmd, aborting, closer, crashes, idled, inherited>>

-----------------------------------------------------------------------------
(* Cancellation and close.                                                 *)

(* Mutant of RaiseAbort: the request is not sticky.                        *)
RaiseAbortLiveOnly(wanted) ==
  /\ abort' = (abort \/ (wanted /\ agent # "none"))
  /\ inherited' = (inherited /\ ~wanted)

(* Storing the sticky bit; a request made under the current claim is not   *)
(* an inherited one.                                                       *)
RaiseAbort(wanted) ==
  /\ abort' = (abort \/ wanted)
  /\ inherited' = (inherited /\ ~wanted)

(* Mutant of AbortAgent: the installed agent is not told.                  *)
AbortAgentSilent == UNCHANGED agent

(* abort_lane_runtime: abort the agent in the slot, if any.                *)
AbortAgent == agent' = IF agent = "live" THEN "aborted" ELSE agent

(* abort_root: under the writer lock, raise the bit if an operation is     *)
(* open or the lane is claimed.                                            *)
AbortRequest ==
  /\ "abort" \in HostCalls /\ "abort" \notin aborting
  /\ ~Idle \/ drv.pc # "free"
  /\ RaiseAbort(TRUE)
  /\ aborting' = aborting \cup {"abort"}
  /\ UNCHANGED <<durable, drv, agent, cont, calls, closer, crashes, idled>>

(* ... then, without the lock, abort whatever agent is installed.          *)
AbortDeliver(caller) ==
  /\ caller \in aborting
  /\ AbortAgent
  /\ aborting' = aborting \ {caller}
  /\ UNCHANGED <<durable, drv, abort, cont, calls, closer, crashes, idled,
                 inherited>>

(* close: the flag is set under the operation gate, which serialises it    *)
(* with admissions and claims.                                             *)
CloseBegin ==
  /\ "close" \in HostCalls /\ closer = "open"
  /\ closer' = "closed"
  /\ UNCHANGED <<durable, drv, abort, agent, cont, calls, aborting, crashes,
                 idled, inherited>>

(* Every active lane is cancelled, bit first and agent second ...          *)
CloseAbort ==
  /\ closer = "closed"
  /\ RaiseAbort(drv.pc # "free")
  /\ aborting' = aborting \cup {"close"}
  /\ closer' = "cancel"
  /\ UNCHANGED <<durable, drv, agent, cont, calls, crashes, idled>>

(* ... and cancel_and_join runs abort_root once more before it waits.      *)
CloseCancel ==
  /\ closer = "cancel" /\ "close" \notin aborting
  /\ RaiseAbort(~Idle \/ drv.pc # "free")
  /\ aborting' = aborting \cup {"close"}
  /\ closer' = "joining"
  /\ UNCHANGED <<durable, drv, agent, cont, calls, crashes, idled>>

(* wait_for_lane_drive_release: close returns once the claim is free.      *)
CloseJoin ==
  /\ closer = "joining" /\ "close" \notin aborting /\ drv.pc = "free"
  /\ closer' = "joined"
  /\ UNCHANGED <<durable, drv, abort, agent, cont, calls, aborting, crashes,
                 idled, inherited>>

-----------------------------------------------------------------------------
(* The claim and the drive.                                                *)

(* claim_lane_operation: gate, ensure_open, compare-and-swap of `active`.  *)
TryClaim(kind, pc) ==
  /\ EnsureOpen
  /\ drv.pc = "free"
  /\ drv' = [Free EXCEPT !.pc = pc, !.kind = kind]
  /\ inherited' = (abort /\ Idle)

(* drive_next_input (user input only, or with continuation authorised),    *)
(* run_root_prompt, resume, an idle command, evaluate_idle_extensions and  *)
(* fork_settled_turn all start by claiming the lane.                       *)
Claim ==
  /\ \/ \E kind \in {"inputs", "continue", "resume", "command", "idle"} : TryClaim(kind, "claimed")
     \/ TryClaim("prompt", "submit")
     \/ "fork" \in HostCalls /\ TryClaim("fork", "claimed")
  /\ UNCHANGED <<durable, abort, agent, cont, calls, aborting, closer, crashes,
                 idled>>

(* What the session digest can reveal while a fork holds the claim of an   *)
(* idle lane: the inputs ever accepted, the leaf and the revision.         *)
Accepted == {i \in Inputs : inp[i].st # "none"}
Digest == Observe(Accepted)

(* fork_settled_turn reads a snapshot under the claim and needs it settled: *)
(* no open operation, queued input or pending control.                     *)
ForkSnapshot ==
  /\ drv.pc = "claimed" /\ drv.kind = "fork"
  /\ drv' = IF Idle /\ PendingInputs = {} /\ PendingControls = {}
              THEN [At("fork") EXCEPT !.obs = Digest] ELSE Leave
  /\ UNCHANGED <<durable, abort, agent, cont, calls, aborting, closer, crashes,
                 idled, inherited>>

(* Mutant of SnapshotCurrent: the digest is not compared again.            *)
SnapshotCurrentAssumed == TRUE

(* The digest of the session is still the snapshot's.                      *)
SnapshotCurrent == drv.obs = Digest

(* It validates without the writer lock and commits the lane at the chosen *)
(* checkpoint only if the snapshot is still current.  An unknown           *)
(* checkpoint, a lane that exists, services that do not fit, or a commit   *)
(* of another lane refuse it.                                              *)
ForkCommit ==
  /\ drv.pc = "fork"
  /\ drv' = Leave
  /\ \/ /\ SnapshotCurrent
        /\ \E k \in Ops, l \in ForkLanes :
             /\ op[k].ckpt /\ forks[l] = 0
             /\ forks' = [forks EXCEPT ![l] = k]
        /\ ready' = 0
     \/ UNCHANGED <<forks, ready>>
  /\ UNCHANGED <<inp, op, ctl, rev, leaf, abort, agent, cont, calls, aborting,
                 closer, crashes, idled, inherited>>

(* Dropping the OperationClaim, on every path out of a drive.              *)
Release ==
  /\ drv.pc = "release"
  /\ drv' = Free
  /\ inherited' = FALSE
  /\ UNCHANGED <<durable, abort, agent, cont, calls, aborting, closer, crashes,
                 idled>>

(* run_root_prompt admits its own input under the claim; a supervisor      *)
(* closed in between refuses it.                                           *)
PromptSubmit ==
  /\ drv.pc = "submit"
  /\ \/ /\ EnsureOpen /\ AcceptInput /\ drv' = At("claimed")
     \/ /\ ~EnsureOpen /\ drv' = Leave /\ UNCHANGED <<inp, cell, ready>>
     \/ /\ \A i \in Inputs : inp[i].st # "none"  \* bound reached
        /\ drv' = Leave /\ UNCHANGED <<inp, cell, ready>>
  /\ UNCHANGED <<forks, op, ctl, rev, leaf, abort, agent, cont, owed, look, cmd, think,
                 aborting, closer, crashes, idled, inherited>>

(* The first look at the reduction under the claim: a drive, command or    *)
(* idle evaluation needs no open operation, a resume needs one.            *)
CheckLane ==
  /\ drv.pc = "claimed" /\ drv.kind # "fork"
  /\ drv' = CASE drv.kind = "resume" -> IF Idle THEN Leave
                                        ELSE [Free EXCEPT !.pc = "resume", !.op = LastOp]
              [] drv.kind # "resume" /\ ~Idle -> Leave
              [] drv.kind = "command" /\ Idle -> At("hooks")
              [] OTHER -> At("controls")
  /\ UNCHANGED <<durable, abort, agent, cont, calls, aborting, closer, crashes,
                 idled, inherited>>

(* dispatch_extension_command while idle: the callback runs, its state is  *)
(* committed against the state it saw (which readiness survives) and its   *)
(* continuation replaces the pending one.  A failed callback changes       *)
(* nothing.                                                                *)
RunCommand ==
  /\ drv.pc = "hooks" /\ drv.kind = "command"
  /\ drv' = Leave
  /\ cont' \in BOOLEAN
  /\ UNCHANGED <<durable, abort, agent, calls, aborting, closer, crashes, idled,
                 inherited>>

(* Mutant of ClosesTurn: the turn's checkpoint is forgotten.               *)
ClosesTurnNever(c) == FALSE

(* checkpoint_after_final_extension_control: control c is the last one     *)
(* pending for the latest operation, which completed and has no checkpoint. *)
ClosesTurn(c) ==
  /\ ctl[c].op = LastOp
  /\ op[LastOp].st = "completed" /\ ~op[LastOp].ckpt
  /\ \A d \in PendingControls : ctl[d].op = ctl[c].op => d = c

(* The control can be applied: its pinned revision is still active, and    *)
(* the reducer accepts the checkpoint grouped with its application.        *)
Applicable(c) ==
  /\ ctl[c].rev = rev
  /\ ClosesTurn(c) => ready = ctl[c].op

(* apply_pending_extension_control on the oldest pending control: state    *)
(* replacement, applied record and checkpoint in one commit, or an error   *)
(* that ends the drive.                                                    *)
ApplyControl ==
  /\ drv.pc = "controls"
  /\ \E c \in PendingControls :
       /\ \A d \in PendingControls : c <= d
       /\ \/ /\ Applicable(c)
             /\ ctl' = [ctl EXCEPT ![c].st = "applied"]
             /\ IF ClosesTurn(c)
                  THEN op' = [op EXCEPT ![LastOp].ckpt = TRUE] /\ ready' = 0
                  ELSE op' = op /\ ready' = (IF ready = ctl[c].op THEN ready ELSE 0)
             /\ cont' \in BOOLEAN
             /\ drv' = drv
          \/ /\ ~Applicable(c)
             /\ drv' = Leave
             /\ UNCHANGED <<op, ctl, ready, cont>>
  /\ UNCHANGED <<forks, inp, rev, leaf, abort, agent, calls, aborting, closer, crashes,
                 idled, inherited>>

(* With no control left, the drive decides: queued user input first, then  *)
(* an authorised continuation, pending or produced by the idle hooks.  The *)
(* hooks run once for each completed operation: the durable idle claim is  *)
(* committed before any callback.                                          *)
HooksDue ==
  /\ drv.kind \in {"continue", "idle"}
  /\ drv.kind = "continue" => ~cont
  /\ LastOp # 0 /\ op[LastOp].st = "completed" /\ ~op[LastOp].idle

Decide ==
  /\ drv.pc = "decide"
  /\ drv' = CASE PendingInputs # {} -> IF drv.kind = "idle" THEN Leave
                                       ELSE [At("commit") EXCEPT !.obs = Observe(PendingInputs)]
              [] PendingInputs = {} /\ HooksDue -> At("hooks")
              [] PendingInputs = {} /\ ~HooksDue /\ drv.kind = "continue" /\ cont -> At("offer")
              [] OTHER -> Leave
  /\ IF PendingInputs = {} /\ HooksDue
       THEN /\ op' = [op EXCEPT ![LastOp].idle = TRUE]
            /\ leaf' = leaf + 1 /\ ready' = 0
       ELSE UNCHANGED <<op, leaf, ready>>
  /\ UNCHANGED <<forks, inp, ctl, rev, abort, agent, cont, calls, aborting, closer,
                 crashes, idled, inherited>>

ControlsDone ==
  /\ drv.pc = "controls" /\ PendingControls = {}
  /\ drv' = At("decide")
  /\ UNCHANGED <<durable, abort, agent, cont, calls, aborting, closer, crashes,
                 idled, inherited>>

(* The idle callbacks: drive_next_input keeps the continuation they ask    *)
(* for, evaluate_idle_extensions only returns it.                          *)
RunIdleHooks ==
  /\ drv.pc = "hooks" /\ drv.kind \in {"continue", "idle"}
  /\ idled' = [idled EXCEPT ![LastOp] = @ + 1]
  /\ IF drv.kind = "continue"
       THEN cont' \in BOOLEAN /\ drv' = (IF cont' THEN At("offer") ELSE Leave)
       ELSE cont' = cont /\ drv' = Leave
  /\ UNCHANGED <<durable, abort, agent, calls, aborting, closer, crashes,
                 inherited>>

(* accept_extension_continuation takes its snapshot; the lifecycle         *)
(* callback and the recovery gate come before the commit.                  *)
OfferContinuation ==
  /\ drv.pc = "offer"
  /\ drv' = [At("commit") EXCEPT !.obs = Observe({})]
  /\ UNCHANGED <<durable, abort, agent, cont, calls, aborting, closer, crashes,
                 idled, inherited>>

(* Mutant of StillCurrent: the queue is not compared again.                *)
StillCurrentLeaf == Idle /\ drv.obs.leaf = leaf /\ drv.obs.rev = rev

(* The observed lane is still current under the writer lock.  The queue is *)
(* compared for an input batch only.                                       *)
StillCurrent ==
  /\ Idle
  /\ drv.obs.leaf = leaf /\ drv.obs.rev = rev
  /\ drv.obs.queue # {} => drv.obs.queue = PendingInputs

(* accept_pending_inputs and accept_extension_continuation: commit         *)
(* OperationStarted with its entries, or fail because the lane moved.      *)
Accept ==
  /\ drv.pc = "commit"
  /\ \/ /\ StillCurrent /\ LastOp < MaxOps
        /\ LET k == LastOp + 1
           IN  /\ op' = [op EXCEPT ![k] =
                           [st |-> "open", ckpt |-> FALSE, idle |-> FALSE,
                            kind |-> IF drv.obs.queue = {} THEN "continuation" ELSE "run"]]
               /\ inp' = [i \in Inputs |->
                            IF i \in drv.obs.queue
                              THEN [st |-> "dispatched", op |-> k, out |-> "none"]
                              ELSE inp[i]]
               /\ drv' = [Free EXCEPT !.pc = "started", !.op = k]
        /\ ready' = 0
     \/ /\ ~StillCurrent \/ LastOp = MaxOps  \* bound reached
        /\ drv' = Leave
        /\ UNCHANGED <<inp, op, ready>>
  /\ UNCHANGED <<forks, ctl, rev, leaf, abort, agent, cont, calls, aborting, closer,
                 crashes, idled, inherited>>

(* The accepted operation supersedes any pending continuation, and its     *)
(* first epoch starts.                                                     *)
StartEpoch ==
  /\ drv.pc = "started"
  /\ cont' = FALSE
  /\ drv' = At("install")
  /\ UNCHANGED <<durable, abort, agent, calls, aborting, closer, crashes, idled,
                 inherited>>

(* resume_claimed_lane_runtime: continue the open operation in an epoch,   *)
(* or finish it with the outcome its committed messages already prove.     *)
ResumeOperation ==
  /\ drv.pc = "resume"
  /\ \/ drv' = At("install")
     \/ \E o \in Outcomes : drv' = [At("finish") EXCEPT !.out = o]
  /\ UNCHANGED <<durable, abort, agent, cont, calls, aborting, closer, crashes,
                 idled, inherited>>

(* install_lane_active_agent: publish the agent in the slot, then read the *)
(* sticky bit.                                                             *)
Install ==
  /\ drv.pc = "install"
  /\ agent' = IF abort THEN "aborted" ELSE "live"
  /\ drv' = At("installed")
  /\ UNCHANGED <<durable, abort, cont, calls, aborting, closer, crashes, idled,
                 inherited>>

(* drive_epoch reads the bit again before it enters the run: a cancelled   *)
(* operation is closed without one.                                        *)
EnterRun ==
  /\ drv.pc = "installed"
  /\ IF abort THEN agent' = "none" /\ drv' = [At("finish") EXCEPT !.out = "aborted"]
              ELSE agent' = agent /\ drv' = At("running")
  /\ UNCHANGED <<durable, abort, cont, calls, aborting, closer, crashes, idled,
                 inherited>>

(* The run returns.  Only an aborted agent reports cancellation; an abort  *)
(* that arrives too late may still find a completed or failed run.         *)
RunEnds ==
  /\ drv.pc = "running"
  /\ \E o \in Outcomes :
       /\ o = "aborted" => agent = "aborted"
       /\ drv' = [At("finish") EXCEPT !.out = o]
  /\ agent' = "none"
  /\ UNCHANGED <<durable, abort, cont, calls, aborting, closer, crashes, idled,
                 inherited>>

(* The run returned with a harness activation pending: the new revision is *)
(* committed and a new epoch of the same operation starts.                 *)
Rollover ==
  /\ drv.pc = "running" /\ rev < MaxRevisions
  /\ rev' = rev + 1
  /\ agent' = "none"
  /\ drv' = At("install")
  /\ ready' = 0
  /\ UNCHANGED <<forks, inp, op, ctl, leaf, abort, cont, calls, aborting, closer,
                 crashes, idled, inherited>>

(* Mutant of FinishCommit: every outcome settles the inputs as completed.  *)
FinishCommitOptimistic ==
  /\ drv.pc = "finish"
  /\ op' = [op EXCEPT ![drv.op].st = drv.out, ![drv.op].ckpt = drv.out = "completed"]
  /\ inp' = [i \in Inputs |-> IF inp[i].st = "dispatched" /\ inp[i].op = drv.op
                                THEN [st |-> "settled", op |-> drv.op, out |-> "completed"]
                                ELSE inp[i]]
  /\ ready' = IF drv.out = "completed" THEN 0 ELSE drv.op
  /\ drv' = At("publish")
  /\ UNCHANGED <<forks, ctl, rev, leaf, abort, agent, cont, calls, aborting, closer,
                 crashes, idled, inherited>>

(* finish_operation's commit: epoch and operation finished, every member   *)
(* input settled, and for a completed operation with no pending control    *)
(* its turn checkpoint.                                                    *)
FinishCommit ==
  /\ drv.pc = "finish"
  /\ LET settled == drv.out = "completed" /\ \A c \in PendingControls : ctl[c].op # drv.op
     IN  /\ op' = [op EXCEPT ![drv.op] = [@ EXCEPT !.st = drv.out, !.ckpt = settled]]
         /\ ready' = IF settled THEN 0 ELSE drv.op
  /\ inp' = [i \in Inputs |-> IF inp[i].st = "dispatched" /\ inp[i].op = drv.op
                                THEN [st |-> "settled", op |-> drv.op, out |-> drv.out]
                                ELSE inp[i]]
  /\ drv' = At("publish")
  /\ UNCHANGED <<forks, ctl, rev, leaf, abort, agent, cont, calls, aborting, closer,
                 crashes, idled, inherited>>

(* publish_input_completions_after_commit.                                 *)
Publish ==
  /\ drv.pc = "publish"
  /\ cell' = Settle({i \in Inputs : inp[i].op = drv.op}, inp)
  /\ drv' = At("clear")
  /\ UNCHANGED <<durable, abort, agent, cont, owed, look, cmd, think, aborting,
                 closer, crashes, idled, inherited>>

(* The terminal record clears the sticky request.                          *)
ClearAbort ==
  /\ drv.pc = "clear"
  /\ abort' = FALSE
  /\ drv' = Leave
  /\ UNCHANGED <<durable, agent, cont, calls, aborting, closer, crashes, idled,
                 inherited>>

(* Mutant of DriveError: a failed terminal commit is published anyway.     *)
DriveErrorPublishes ==
  /\ drv.pc \in {"submit", "controls", "decide", "hooks", "offer", "commit", "resume",
                 "started", "install", "running", "finish"}
  /\ agent' = "none"
  /\ drv' = Leave
  /\ cell' = IF drv.pc = "finish"
               THEN Settle({i \in Inputs : inp[i].op = drv.op},
                           [i \in Inputs |-> [st |-> "settled", op |-> drv.op, out |-> drv.out]])
               ELSE cell
  /\ UNCHANGED <<durable, abort, cont, owed, look, cmd, think, aborting, closer,
                 crashes, idled, inherited>>

(* Any fallible step of a drive can fail: a callback, the recovery gate, a *)
(* commit, a gated effect.  The claim is dropped, an open operation stays  *)
(* open, and the sticky bit is kept.                                       *)
DriveError ==
  /\ drv.pc \in {"submit", "controls", "decide", "hooks", "offer", "commit", "resume",
                 "started", "install", "running", "finish"}
  /\ agent' = "none"
  /\ drv' = Leave
  /\ UNCHANGED <<durable, abort, cont, calls, aborting, closer, crashes, idled,
                 inherited>>

(* The process dies; a reopened supervisor reads the same durable state    *)
(* and inherits no authority.                                              *)
Crash ==
  /\ crashes < MaxCrashes
  /\ crashes' = crashes + 1
  /\ drv' = Free /\ abort' = FALSE /\ agent' = "none" /\ cont' = FALSE
  /\ cell' = [i \in Inputs |-> NoInput]
  /\ owed' = {} /\ look' = {} /\ cmd' = NoControl /\ think' = FALSE
  /\ aborting' = {} /\ closer' = "open" /\ inherited' = FALSE
  /\ UNCHANGED <<durable, idled>>

-----------------------------------------------------------------------------
Call == \/ SubmitInput \/ WithdrawInputs \/ PublishWithdrawn
        \/ HandleRegister \/ HandleStatus
        \/ CommandObserve \/ CommandEnqueue \/ ThinkingCheck \/ ThinkingCommit

Cancel == \/ AbortRequest \/ \E caller \in {"abort", "close"} : AbortDeliver(caller)
          \/ CloseBegin \/ CloseAbort \/ CloseCancel \/ CloseJoin

(* The steps a polled drive takes on its own; what the run inside it does  *)
(* and errors are not among them.                                          *)
DriveStep == \/ Release \/ ForkSnapshot \/ ForkCommit \/ PromptSubmit \/ CheckLane \/ RunCommand \/ ApplyControl
             \/ ControlsDone \/ Decide \/ RunIdleHooks \/ OfferContinuation \/ Accept
             \/ StartEpoch \/ ResumeOperation \/ Install \/ EnterRun
             \/ FinishCommit \/ Publish \/ ClearAbort

Next == Call \/ Cancel \/ Claim \/ DriveStep \/ RunEnds \/ Rollover \/ DriveError \/ Crash

Spec == Init /\ [][Next]_vars

(* The host keeps polling its drive and its close future, each of which is *)
(* a thread of its own; an agent that was aborted returns.  An agent that  *)
(* was not may run forever.                                                *)
Fairness ==
  /\ WF_vars(DriveStep)
  /\ WF_vars(agent = "aborted" /\ RunEnds)
  /\ WF_vars(AbortDeliver("abort")) /\ WF_vars(AbortDeliver("close"))
  /\ WF_vars(CloseAbort) /\ WF_vars(CloseCancel)
  /\ WF_vars(CloseJoin)
  /\ WF_vars(PublishWithdrawn) /\ WF_vars(HandleStatus)

FairSpec == Spec /\ Fairness

-----------------------------------------------------------------------------
(* TypeOK: every component of the lane and of its supervisor has its type. *)
InputType == [st : {"none", "pending", "withdrawn", "dispatched", "settled"},
              op : 0..MaxOps, out : Outcomes \cup {"none"}]
CellType == [st : {"none", "waiting", "withdrawn", "settled"},
             op : 0..MaxOps, out : Outcomes \cup {"none"}]
OpType == [st : {"none", "open"} \cup Outcomes, kind : {"none", "run", "continuation"},
           ckpt : BOOLEAN, idle : BOOLEAN]
ControlType == [st : {"none", "pending", "applied"}, op : 0..MaxOps, rev : Nat]
CommandType == [st : {"none", "pending"}, op : 0..MaxOps, rev : Nat]
ObsType == [queue : SUBSET Inputs, leaf : Nat, rev : Nat]
DriveType == [pc : Pcs, kind : Kinds, op : 0..MaxOps, out : Outcomes \cup {"none"}, obs : ObsType]

TypeOK ==
  /\ inp \in [Inputs -> InputType] /\ op \in [Ops -> OpType] /\ ctl \in [Controls -> ControlType]
  /\ rev \in 1..MaxRevisions /\ leaf \in Nat /\ ready \in 0..MaxOps
  /\ forks \in [ForkLanes -> 0..MaxOps]
  /\ drv \in DriveType
  /\ abort \in BOOLEAN /\ agent \in {"none", "live", "aborted"} /\ cont \in BOOLEAN
  /\ cell \in [Inputs -> CellType]
  /\ owed \subseteq Inputs /\ look \subseteq Inputs
  /\ cmd \in CommandType /\ think \in BOOLEAN
  /\ aborting \subseteq {"abort", "close"} /\ closer \in {"open", "closed", "cancel", "joining", "joined"}
  /\ crashes \in 0..MaxCrashes /\ idled \in [Ops -> Nat] /\ inherited \in BOOLEAN

(* CompletionTruthful: what a completion handle reports is the durable     *)
(* disposition of its input, whoever published it (withdraw_inputs,        *)
(* finish_operation or input_completion_handle) and however late.          *)
CompletionTruthful ==
  \A i \in Inputs : cell[i].st \in {"withdrawn", "settled"} => cell[i] = inp[i]

(* NoLostCompletion: a handle still waiting on a terminal input has a      *)
(* publication on its way: the drive's, the withdrawal's, or the status    *)
(* read of the handle's own reconstruction.                                *)
NoLostCompletion ==
  \A i \in Inputs : cell[i].st = "waiting" /\ Terminal(i) =>
    \/ i \in owed \/ i \in look
    \/ drv.pc = "publish" /\ inp[i].op = drv.op

(* BatchAtomic: the members of one operation share its fate: dispatched    *)
(* while it is open, settled with its outcome once it is finished, and no  *)
(* input belongs to an operation that was never started.                   *)
BatchAtomic ==
  \A i \in Inputs : inp[i].op # 0 =>
    IF inp[i].st = "dispatched" THEN op[inp[i].op].st = "open"
                                ELSE inp[i].st = "settled" /\ op[inp[i].op].st = inp[i].out

(* DispositionFinal: an accepted input leaves the queue once, by           *)
(* withdrawal or by one operation that also settles it; nothing revives    *)
(* it, not even a withdrawal racing a dispatch.                            *)
DispositionFinal ==
  [][\A i \in Inputs :
       /\ Terminal(i) => inp'[i] = inp[i]
       /\ inp[i].st = "dispatched" => inp'[i] = inp[i] \/ (inp'[i].st = "settled" /\ inp'[i].op = inp[i].op)
    ]_vars

(* OneOpenOperation: at most one operation of the lane is open, it is the  *)
(* latest, and the claim holder past acceptance drives exactly that one.   *)
OneOpenOperation ==
  /\ \A k \in OpenOps : k = LastOp
  /\ drv.pc \in {"started", "install", "installed", "running", "finish"} => OpenOps = {drv.op}

(* NoLostAbort: a run that was entered with no cancellation in flight has  *)
(* no raised bit beside a live agent; abort_root before, during or after   *)
(* the agent's installation always reaches it.                             *)
NoLostAbort ==
  drv.pc = "running" /\ abort /\ aborting = {} => agent = "aborted"

(* CompletedIsForkable: a completed operation without a pending control    *)
(* has its turn checkpoint, whether the terminal commit or the last        *)
(* control wrote it; and none has one while a control is pending.          *)
CompletedIsForkable ==
  \A k \in Ops :
    op[k].st = "completed" => (op[k].ckpt <=> \A c \in PendingControls : ctl[c].op # k)

(* ForkFromSettled: a lane is forked only at the checkpoint of a completed  *)
(* operation, while nothing on the root lane is open, queued or pending,   *)
(* whatever was submitted or changed while the fork was validated.         *)
ForkFromSettled ==
  [][\A l \in ForkLanes : forks'[l] # forks[l] =>
       /\ forks[l] = 0 /\ op[forks'[l]].st = "completed" /\ op[forks'[l]].ckpt
       /\ Idle /\ PendingInputs = {} /\ PendingControls = {}]_vars

(* HooksRunOnce: the idle hooks run at most once for a completed           *)
(* operation, across drives, evaluations, crashes and reopens.             *)
HooksRunOnce == \A k \in Ops : idled[k] <= 1

(* ClosedIsQuiet: after close returned, this supervisor changes no         *)
(* operation, admits no input or control and never claims the lane again.  *)
ClosedIsQuiet ==
  [][closer = "joined" /\ closer' = "joined" =>
       /\ op' = op /\ ctl' = ctl /\ drv' = drv
       /\ \A i \in Inputs : inp[i].st = "none" => inp'[i].st = "none"]_vars

(* CloseJoins: a close that began returns, however the drive it found      *)
(* interleaves with it, unless the process dies first.                     *)
CloseJoins == closer = "closed" ~> closer \in {"joined", "open"}

(* AbortEndsDrive: a cancellation accepted while an operation is driven    *)
(* ends that drive.                                                        *)
AbortEndsDrive == (abort /\ drv.op # 0) ~> drv.op = 0

(* FreshOperationUncancelled: no operation is closed as cancelled because  *)
(* of a request that predates its claim.                                   *)
FreshOperationUncancelled ==
  ~(inherited /\ drv.pc = "finish" /\ drv.out = "aborted")

(* ControlRevisionActive: a queued control whose operation has finished    *)
(* can still be applied under the revision it was accepted for.            *)
ControlRevisionActive ==
  \A c \in PendingControls : op[ctl[c].op].st # "open" => ctl[c].rev = rev

(* ControlCheckpointable: the control that closes a turn finds the turn    *)
(* ready for its checkpoint, so that it can be applied.                    *)
ControlCheckpointable ==
  \A c \in PendingControls : Idle /\ ClosesTurn(c) => ready = ctl[c].op

(* ContinuationYields: an automatic continuation starts only with no user  *)
(* input queued.                                                           *)
ContinuationYields ==
  [][\A k \in Ops : op[k].st = "none" /\ op'[k].kind = "continuation" => PendingInputs = {}]_vars
=============================================================================
