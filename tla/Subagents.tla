------------------------------ MODULE Subagents ------------------------------
(***************************************************************************)
(* Child assignments of one root operation: the durable spawn, the child   *)
(* task, its settlement (`settle_subagent_task`), the five root tools, the *)
(* settlement of every child before the root operation finishes, and what  *)
(* `resume` and `close` do with children.                                  *)
(*                                                                         *)
(* Settlement is one pipeline with two runners: the child's own task, and  *)
(* the root (`Root`), which runs it after cancelling and joining the task. *)
(* `st` is where each runner is.  A task is dropped only where it awaits;  *)
(* the blocking Git work it had submitted then runs on as `ghost`, and the *)
(* tool call it was executing on a blocking thread as `late`.  Such a call *)
(* may write to the worktree after the result ref is fixed, and even after *)
(* a crash (a shell it started): those edits are in nobody's result.       *)
(* A failed commit ends the session handle (SessionLog), so it is a Crash  *)
(* here; host errors are faults.                                           *)
(***************************************************************************)
EXTENDS Naturals, FiniteSets

CONSTANTS
  Agents,         \* child identities, one for each spawn_agent call
  MaxConcurrent,  \* SubagentPolicy::max_concurrent
  MaxTotal,       \* SubagentPolicy::max_total_per_operation
  MaxFaults,      \* bound on host errors
  MaxCrashes      \* bound on crashes

ASSUME SubagentsAssumption ==
  /\ IsFiniteSet(Agents) /\ "root" \notin Agents /\ "nobody" \notin Agents
  /\ MaxConcurrent \in Nat /\ MaxTotal \in Nat
  /\ MaxFaults \in Nat /\ MaxCrashes \in Nat

Root == "root"
NoAgent == "nobody"

VARIABLES
  \* durable: the session log
  root,     \* the root operation: "open" | "finished"
  op,       \* child operation: "none" | "open" | "closed"
  term,     \* AgentTaskFinished: "none" | "plain" | "delta"
  applied,  \* children with a WorkspaceDeltaApplied fact
  eff,      \* children with a ToolStarted that has no result
  intent,   \* the root's ToolStarted without a result
  \* durable: the Git repository
  wt,       \* child worktree: "none" | "saved", or it holds edits that are in
            \* no ref: "unsaved" ones of a driven call, or only "late" ones
  ref,      \* result ref against the base: "none" | "same" | "changed"
  parent,   \* root worktree against the delta: "base" | "patched" | "mixed" | "twice"
  \* process-local
  drive,    \* root drive: "live" | "idle", or the process is "down"
  st,       \* stage of each child task and of the root's current call
  call,     \* the root's current call
  co,       \* SubagentCoordinator: sets of children
  ghost,    \* blocking Git work of a dropped task
  late,     \* children whose abandoned tool call may still write
  stale,    \* the activity generation moved since the waiter read it
  \* bookkeeping
  spent,    \* identities already used
  faults, crashes

log == <<root, op, term, applied, eff, intent>>
git == <<wt, ref, parent>>
local == <<drive, st, call, co, ghost, late, stale>>
count == <<spent, faults, crashes>>
vars == <<log, git, local, count>>

-----------------------------------------------------------------------------
Idle == [kind |-> "none", cur |-> NoAgent, todo |-> {}, snap |-> {}, all |-> FALSE]
NoCo == [reserved |-> {}, handles |-> {}, workspaces |-> {}, early |-> {},
         exposable |-> {}, cancelled |-> {}]
NoIntent == [tool |-> "none", agent |-> NoAgent]
Runners == Agents \cup {Root}
NotRunning == {"none", "ended"}

Spawned == {a \in Agents : op[a] # "none"}
Terminal == {a \in Agents : term[a] # "none"}
Active == Spawned \ Terminal
Target(s) == IF s = Root THEN call.cur ELSE s
Go(s, stage) == st' = [st EXCEPT ![s] = stage]
Fault == faults < MaxFaults /\ faults' = faults + 1
Free == drive = "live" /\ call.kind = "none"

Init ==
  /\ root = "open" /\ op = [a \in Agents |-> "none"]
  /\ term = [a \in Agents |-> "none"] /\ applied = {} /\ eff = {}
  /\ intent = NoIntent
  /\ wt = [a \in Agents |-> "none"] /\ ref = [a \in Agents |-> "none"]
  /\ parent = [a \in Agents |-> "base"]
  /\ drive = "live" /\ st = [s \in Runners |-> "none"] /\ call = Idle
  /\ co = NoCo /\ ghost = [a \in Agents |-> "none"] /\ late = {} /\ stale = FALSE
  /\ spent = {} /\ faults = 0 /\ crashes = 0

-----------------------------------------------------------------------------
(* spawn_agent.                                                            *)

(* A root tool starts behind its durable intent.                           *)
Begin(tool, a, stage) ==
  /\ Free
  /\ intent' = [tool |-> tool, agent |-> a]
  /\ Go(Root, stage)

(* reserve: the durable counts plus the reservations stay under the limits.*)
Capacity == /\ Cardinality(Active) + Cardinality(co.reserved) < MaxConcurrent
            /\ Cardinality(Spawned) + Cardinality(co.reserved) < MaxTotal

(* accept_subagent_spawn up to the reservation.                            *)
SpawnStart(a) ==
  /\ a \notin spent /\ spent' = spent \cup {a}
  /\ Begin("spawn", a, IF Capacity THEN "prepare" ELSE "answer")
  /\ call' = [Idle EXCEPT !.kind = "spawn", !.cur = a]
  /\ co' = IF Capacity THEN [co EXCEPT !.reserved = @ \cup {a}] ELSE co
  /\ UNCHANGED <<root, op, term, applied, eff, git, drive, ghost, late, stale,
                 faults, crashes>>

(* host.prepare: the base commit and a detached worktree on it.            *)
SpawnPrepare ==
  /\ st[Root] = "prepare"
  /\ \/ /\ wt' = [wt EXCEPT ![call.cur] = "saved"]
        /\ Go(Root, "commit")
        /\ UNCHANGED <<co, faults>>
     \/ /\ Fault
        /\ co' = [co EXCEPT !.reserved = @ \ {call.cur}]
        /\ Go(Root, "answer")
        /\ UNCHANGED wt
  /\ UNCHANGED <<log, ref, parent, drive, call, ghost, late, stale, spent, crashes>>

(* commit_subagent_spawn: lane, graph fact and operation in one commit,    *)
(* behind a second admission check; the reservation is released.           *)
SpawnCommit ==
  /\ st[Root] = "commit"
  /\ IF Cardinality(Active) < MaxConcurrent /\ Cardinality(Spawned) < MaxTotal
       THEN op' = [op EXCEPT ![call.cur] = "open"] /\ Go(Root, "handoff")
       ELSE Go(Root, "answer") /\ UNCHANGED op
  /\ co' = [co EXCEPT !.reserved = @ \ {call.cur}]
  /\ UNCHANGED <<root, term, applied, eff, intent, git, drive, call, ghost, late, stale, count>>

(* start_subagent_task hands the future to the task runtime, which may     *)
(* refuse: the operation is then open and owned by no task.                *)
SpawnHandoff ==
  /\ st[Root] = "handoff"
  /\ \/ /\ st' = [st EXCEPT ![call.cur] = "drive", ![Root] = "install"]
        /\ UNCHANGED faults
     \/ Fault /\ Go(Root, "answer")
  /\ UNCHANGED <<log, git, drive, call, co, ghost, late, stale, spent, crashes>>

(* install_handle: a task that ended first leaves nothing to install.      *)
SpawnInstall ==
  /\ st[Root] = "install"
  /\ co' = IF call.cur \in co.early
             THEN [co EXCEPT !.early = @ \ {call.cur}]
             ELSE [co EXCEPT !.handles = @ \cup {call.cur},
                             !.workspaces = @ \cup {call.cur}]
  /\ Go(Root, "answer")
  /\ UNCHANGED <<log, git, drive, call, ghost, late, stale, count>>

(* The tool's result entry commits and the root's turn goes on.            *)
Answer ==
  /\ st[Root] = "answer"
  /\ intent' = NoIntent /\ call' = Idle /\ Go(Root, "none")
  /\ UNCHANGED <<root, op, term, applied, eff, git, drive, co, ghost, late, stale, count>>

-----------------------------------------------------------------------------
(* The child task.                                                         *)

(* before_tool of the child lane.                                          *)
ChildEffect(a) ==
  /\ st[a] = "drive" /\ op[a] = "open" /\ a \notin eff
  /\ eff' = eff \cup {a}
  /\ UNCHANGED <<root, op, term, applied, intent, git, local, count>>

(* The child's tool changes its worktree.                                  *)
ChildEdit(a) ==
  /\ st[a] = "drive" /\ a \in eff /\ wt[a] = "saved"
  /\ wt' = [wt EXCEPT ![a] = "unsaved"]
  /\ UNCHANGED <<log, ref, parent, local, count>>

(* after_tool.                                                             *)
ChildResult(a) ==
  /\ st[a] = "drive" /\ a \in eff
  /\ eff' = eff \ {a}
  /\ UNCHANGED <<root, op, term, applied, intent, git, local, count>>

(* The drive of a is dropped or gives up: a tool call that has begun on a  *)
(* blocking thread is neither stopped nor joined.                          *)
Abandon(a) == late' \in {late, late \cup ({a} \cap eff)}

(* What such a call still writes.                                          *)
LateEdit(a) ==
  /\ a \in late /\ wt[a] = "saved"
  /\ wt' = [wt EXCEPT ![a] = "late"]
  /\ UNCHANGED <<log, ref, parent, local, count>>

(* drive_accepted_subagent_with_timeout returns: the operation finished;   *)
(* the deadline closed it, whatever its tool was doing; or the drive ended *)
(* with the operation still open.                                          *)
DriveEnds(a) ==
  /\ st[a] = "drive"
  /\ \/ a \notin eff /\ op' = [op EXCEPT ![a] = "closed"] /\ UNCHANGED faults
     \/ a \in eff /\ Fault /\ op' = [op EXCEPT ![a] = "closed"]
     \/ Fault /\ UNCHANGED op
  /\ Abandon(a) /\ Go(a, "begin")
  /\ UNCHANGED <<root, term, applied, eff, intent, git, drive, call, co, ghost,
                 stale, spent, crashes>>

(* A cancelled task is dropped where it awaits; blocking work it submitted *)
(* has begun and runs on, or never begins.                                 *)
TaskDrop(a) ==
  /\ a \in co.cancelled /\ st[a] \in {"drive", "finalize", "cleanup"}
  /\ IF st[a] = "drive" THEN Abandon(a) /\ UNCHANGED ghost
     ELSE (\E g \in {"none", st[a]} : ghost' = [ghost EXCEPT ![a] = g]) /\ UNCHANGED late
  /\ Go(a, "ended")
  /\ UNCHANGED <<log, git, drive, call, co, stale, count>>

(* task_completed and task_stopped_before_cleanup.                         *)
TaskEnd(a) ==
  /\ st[a] \in {"settled", "failed"}
  /\ co' = IF a \in co.handles THEN co ELSE [co EXCEPT !.early = @ \cup {a}]
  /\ Go(a, "ended")
  /\ UNCHANGED <<log, git, drive, call, ghost, late, stale, count>>

-----------------------------------------------------------------------------
(* The settlement pipeline, run by a child task or by the root.            *)

(* The task owns its lease, the root may find one in the coordinator, and  *)
(* recovery always reopens.                                                *)
HasLease(s) == s # Root \/ (call.kind # "resume" /\ call.cur \in co.workspaces)

(* host.reopen: an unfinished worktree, or the result ref it left.         *)
Reopens(a) == wt[a] # "none" \/ ref[a] # "none"

(* settle_subagent_task, and reconcile_interrupted_subagent for a resume,  *)
(* up to the finalization: a terminal child only needs its cleanup or its  *)
(* visibility; an open operation is closed as aborted.                     *)
SettleBegin(s) ==
  LET a == Target(s) IN
  /\ st[s] = "begin"
  /\ IF a \in Terminal
       THEN /\ Go(s, IF s = Root /\ call.kind = "resume" THEN "settled"
                     ELSE IF HasLease(s) THEN "cleanup"
                     ELSE IF a \in co.exposable THEN "settled" ELSE "failed")
            /\ co' = IF s = Root /\ call.kind = "resume"
                       THEN [co EXCEPT !.exposable = @ \cup {a}] ELSE co
            /\ UNCHANGED op
       ELSE /\ Go(s, IF HasLease(s) \/ Reopens(a) THEN "finalize" ELSE "failed")
            /\ op' = IF HasLease(s) \/ Reopens(a) THEN [op EXCEPT ![a] = "closed"] ELSE op
            /\ UNCHANGED co
  /\ UNCHANGED <<root, term, applied, eff, intent, git, drive, call, ghost, late, stale, count>>

(* GitWorkspaceEngine::finalize: the first one fixes the result ref, every *)
(* later one returns what the ref says.                                    *)
FinalizeGit(a) ==
  /\ ref[a] # "none" \/ wt[a] # "none"
  /\ ref' = IF ref[a] # "none" THEN ref
            ELSE [ref EXCEPT ![a] = IF wt[a] = "saved" THEN "same" ELSE "changed"]
  /\ wt' = IF ref[a] = "none" THEN [wt EXCEPT ![a] = "saved"] ELSE wt
  /\ UNCHANGED parent

(* GitWorkspaceEngine::cleanup_durable_lease.                              *)
CleanupGit(a) == wt' = [wt EXCEPT ![a] = "none"] /\ UNCHANGED <<ref, parent>>

(* host.finalize.                                                          *)
SettleFinalize(s) ==
  /\ st[s] = "finalize"
  /\ \/ FinalizeGit(Target(s)) /\ Go(s, "terminal") /\ UNCHANGED faults
     \/ Fault /\ Go(s, "failed") /\ UNCHANGED git
  /\ UNCHANGED <<log, drive, call, co, ghost, late, stale, spent, crashes>>

(* Mutant: the terminal fact never carries the delta.                      *)
SettleTerminalPlain(s) ==
  /\ st[s] = "terminal"
  /\ term' = [term EXCEPT ![Target(s)] = "plain"]
  /\ Go(s, "cleanup")
  /\ UNCHANGED <<root, op, applied, eff, intent, git, drive, call, co, ghost, late, stale, count>>

(* append_subagent_terminal: the delta and the report in one commit, by    *)
(* whichever runner comes first.                                           *)
SettleTerminal(s) ==
  LET a == Target(s) IN
  /\ st[s] = "terminal"
  /\ term' = IF a \in Terminal THEN term
             ELSE [term EXCEPT ![a] = IF ref[a] = "changed" THEN "delta" ELSE "plain"]
  /\ Go(s, "cleanup")
  /\ UNCHANGED <<root, op, applied, eff, intent, git, drive, call, co, ghost, late, stale, count>>

(* host.cleanup.                                                           *)
SettleCleanup(s) ==
  /\ st[s] = "cleanup"
  /\ \/ CleanupGit(Target(s)) /\ Go(s, "expose") /\ UNCHANGED faults
     \/ Fault /\ Go(s, "failed") /\ UNCHANGED git
  /\ UNCHANGED <<log, drive, call, co, ghost, late, stale, spent, crashes>>

(* mark_exposable_and_notify inserts the child under one lock ...          *)
SettleExpose(s) ==
  /\ st[s] = "expose"
  /\ co' = [co EXCEPT !.exposable = @ \cup {Target(s)}]
  /\ Go(s, "notify")
  /\ UNCHANGED <<log, git, drive, call, ghost, late, stale, count>>

(* ... and advances the activity generation under another.                 *)
SettleNotify(s) ==
  /\ st[s] = "notify"
  /\ stale' = TRUE
  /\ Go(s, "settled")
  /\ UNCHANGED <<log, git, drive, call, co, ghost, late, count>>

(* The Git work of a dropped task, serialized by the lease gate.           *)
GhostWork(a) ==
  /\ \/ ghost[a] = "finalize" /\ FinalizeGit(a)
     \/ ghost[a] = "cleanup" /\ CleanupGit(a)
  /\ ghost' = [ghost EXCEPT ![a] = "none"]
  /\ UNCHANGED <<log, drive, st, call, co, late, stale, count>>

-----------------------------------------------------------------------------
(* wait_agent.                                                             *)

WaitStart(T, all) ==
  /\ T # {} /\ T \subseteq Spawned
  /\ Begin("wait", NoAgent, "read")
  /\ call' = [Idle EXCEPT !.kind = "wait", !.todo = T, !.all = all]
  /\ UNCHANGED <<root, op, term, applied, eff, git, drive, co, ghost, late, stale, count>>

(* activity_generation, before the snapshot.                               *)
WaitRead ==
  /\ st[Root] = "read"
  /\ stale' = FALSE /\ Go(Root, "snapshot")
  /\ UNCHANGED <<log, git, drive, call, co, ghost, late, count>>

WaitSnapshot ==
  /\ st[Root] = "snapshot"
  /\ call' = [call EXCEPT !.snap = call.todo \cap Terminal]
  /\ Go(Root, "check")
  /\ UNCHANGED <<log, git, drive, co, ghost, late, stale, count>>

(* Whether the children seen complete answer the request.                  *)
Complete(seen) == IF call.all THEN call.todo \subseteq seen ELSE seen # {}

(* Mutant: the waiter registers against the generation of this moment.     *)
WaitCheckLate ==
  /\ st[Root] = "check"
  /\ Go(Root, IF Complete(call.snap \cap co.exposable) THEN "answer" ELSE "parked")
  /\ stale' = FALSE
  /\ UNCHANGED <<log, git, drive, call, co, ghost, late, count>>

(* wait_result over that snapshot and the current visibility.              *)
WaitCheck ==
  /\ st[Root] = "check"
  /\ Go(Root, IF Complete(call.snap \cap co.exposable) THEN "answer" ELSE "parked")
  /\ UNCHANGED <<log, git, drive, call, co, ghost, late, stale, count>>

(* wait_for_activity: a new generation, or the timeout or a cancellation.  *)
WaitWake ==
  /\ st[Root] = "parked"
  /\ Go(Root, IF stale THEN "read" ELSE "answer")
  /\ UNCHANGED <<log, git, drive, call, co, ghost, late, stale, count>>

-----------------------------------------------------------------------------
(* Calls that settle children: interrupt_agent, the end of the root        *)
(* operation, close and resume.                                            *)

Joined(S) == \A a \in S \cap co.handles : st[a] \in NotRunning

(* interrupt_subagent.                                                     *)
InterruptStart(a) ==
  /\ a \in Spawned
  /\ LET done == a \in Terminal /\ a \in co.exposable IN
     /\ Begin("interrupt", a, IF done THEN "answer" ELSE "join")
     /\ call' = [Idle EXCEPT !.kind = "interrupt", !.cur = a, !.todo = {a}]
     /\ co' = IF done THEN co ELSE [co EXCEPT !.cancelled = @ \cup ({a} \cap co.handles)]
  /\ UNCHANGED <<root, op, term, applied, eff, git, drive, ghost, late, stale, count>>

(* Mutant: only children that still have a task are settled.               *)
SettleAllHandled(kind) ==
  /\ call' = [Idle EXCEPT !.kind = kind, !.todo = co.handles \ co.exposable]
  /\ co' = [co EXCEPT !.cancelled = @ \cup (co.handles \ co.exposable)]
  /\ Go(Root, "join")

(* settle_root_children_before_finish: cancel every child that is not      *)
(* exposable.                                                              *)
SettleAll(kind) ==
  /\ call' = [Idle EXCEPT !.kind = kind, !.todo = Spawned \ co.exposable]
  /\ co' = [co EXCEPT !.cancelled = @ \cup ((Spawned \ co.exposable) \cap co.handles)]
  /\ Go(Root, "join")

(* The root's run ended and drive_epoch is about to finish the operation.  *)
FinishStart ==
  /\ Free /\ SettleAll("finish")
  /\ UNCHANGED <<log, git, drive, ghost, late, stale, count>>

(* close, once no drive is left: the children of the owner of a retained   *)
(* handle are settled, and the process may exit.                           *)
CloseStart ==
  /\ drive = "idle" /\ call.kind = "none"
  /\ IF co.handles # {}
       THEN SettleAll("close")
       ELSE call' = [Idle EXCEPT !.kind = "close"] /\ Go(Root, "reap") /\ UNCHANGED co
  /\ UNCHANGED <<log, git, drive, ghost, late, stale, count>>

(* Every cancelled task is joined before the first settlement.             *)
JoinAll ==
  /\ st[Root] = "join" /\ Joined(call.todo)
  /\ Go(Root, "next")
  /\ UNCHANGED <<log, git, drive, call, co, ghost, late, stale, count>>

(* Mutant: a settled child is taken up again.                              *)
NextChildAgain ==
  /\ st[Root] = "next"
  /\ IF call.todo = {}
       THEN Go(Root, "reap") /\ UNCHANGED call
       ELSE \E a \in call.todo : call' = [call EXCEPT !.cur = a] /\ Go(Root, "begin")
  /\ UNCHANGED <<log, git, drive, co, ghost, late, stale, count>>

(* The next child to settle.                                               *)
NextChild ==
  /\ st[Root] = "next"
  /\ IF call.todo = {}
       THEN Go(Root, "reap") /\ UNCHANGED call
       ELSE \E a \in call.todo :
              /\ call' = [call EXCEPT !.cur = a, !.todo = @ \ {a}]
              /\ Go(Root, "begin")
  /\ UNCHANGED <<log, git, drive, co, ghost, late, stale, count>>

ChildSettled ==
  /\ st[Root] = "settled"
  /\ Go(Root, "next")
  /\ UNCHANGED <<log, git, drive, call, co, ghost, late, stale, count>>

(* An error of the pipeline ends the call: a tool answers it, a finish or  *)
(* a resume leaves the operation open without a drive.                     *)
SettleFailed ==
  /\ st[Root] = "failed"
  /\ IF call.kind = "interrupt"
       THEN Go(Root, "answer") /\ UNCHANGED <<drive, call>>
       ELSE Go(Root, "none") /\ call' = Idle /\ drive' = "idle"
  /\ UNCHANGED <<log, git, co, ghost, late, stale, count>>

(* The tail of each call.  The root record commits only behind the join    *)
(* and the reaping of every handle; a resumed root is driven again.        *)
Reap ==
  /\ st[Root] = "reap"
  /\ CASE call.kind = "interrupt" ->
            /\ co' = [co EXCEPT !.handles = @ \ {call.cur}, !.workspaces = @ \ {call.cur}]
            /\ Go(Root, "answer") /\ UNCHANGED <<root, drive, call>>
       [] call.kind = "resume" ->
            /\ drive' = "live" /\ Go(Root, "none") /\ call' = Idle /\ UNCHANGED <<root, co>>
       [] call.kind \in {"finish", "close"} ->
            /\ Joined(Spawned)
            /\ co' = [co EXCEPT !.handles = {}, !.workspaces = {}]
            /\ Go(Root, "none") /\ call' = Idle
            /\ IF call.kind = "finish"
                 THEN root' = "finished" /\ drive' = "idle"
                 ELSE drive' = "down" /\ UNCHANGED root
  /\ UNCHANGED <<op, term, applied, eff, intent, git, ghost, late, stale, count>>

-----------------------------------------------------------------------------
(* apply_agent_changes.                                                    *)

ApplyStart(a) ==
  /\ term[a] = "delta"
  /\ Begin("apply", a, IF a \in applied THEN "answer" ELSE "patch")
  /\ call' = [Idle EXCEPT !.kind = "apply", !.cur = a]
  /\ UNCHANGED <<root, op, term, applied, eff, git, drive, co, ghost, late, stale, count>>

(* Mutant: the parent worktree is patched whatever it holds.               *)
ApplyPatchBlind ==
  /\ st[Root] = "patch"
  /\ parent' = [parent EXCEPT ![call.cur] = IF @ = "base" THEN "patched" ELSE "twice"]
  /\ Go(Root, "fact")
  /\ UNCHANGED <<log, wt, ref, drive, call, co, ghost, late, stale, count>>

(* GitWorkspaceEngine::apply: result bytes that are already there make the *)
(* outcome indeterminate; otherwise the patch is applied in full, refused, *)
(* rolled back, or left half done.                                         *)
ApplyPatch ==
  /\ st[Root] = "patch"
  /\ \E result \in IF parent[call.cur] = "base" THEN {"base", "patched", "mixed"}
                   ELSE {parent[call.cur]} :
       /\ parent' = [parent EXCEPT ![call.cur] = result]
       /\ Go(Root, IF parent[call.cur] = "base" /\ result = "patched"
                     THEN "fact" ELSE "answer")
  /\ UNCHANGED <<log, wt, ref, drive, call, co, ghost, late, stale, count>>

ApplyFact ==
  /\ st[Root] = "fact"
  /\ applied' = applied \cup {call.cur}
  /\ Go(Root, "answer")
  /\ UNCHANGED <<root, op, term, eff, intent, git, drive, call, co, ghost, late, stale, count>>

-----------------------------------------------------------------------------
(* Crash, reopen and recovery.                                             *)

(* The process stops.  A patch under way stops anywhere; the shell of a    *)
(* child's tool call may outlive it.                                       *)
Crash ==
  /\ drive # "down" /\ crashes < MaxCrashes /\ crashes' = crashes + 1
  /\ \E now \in [Agents -> {"base", "patched", "mixed"}] :
       /\ \A a \in Agents :
            now[a] # parent[a] => st[Root] = "patch" /\ call.cur = a /\ parent[a] = "base"
       /\ parent' = now
  /\ drive' = "down" /\ st' = [s \in Runners |-> "none"] /\ call' = Idle
  /\ co' = NoCo /\ ghost' = [a \in Agents |-> "none"] /\ stale' = FALSE
  /\ late' \in SUBSET (late \cup {a \in eff : st[a] = "drive"})
  /\ UNCHANGED <<log, wt, ref, spent, faults>>

(* SessionSupervisor::reopen restores the visibility of terminal children. *)
Reopen ==
  /\ drive = "down"
  /\ drive' = "idle" /\ st' = [s \in Runners |-> "none"]
  /\ ghost' = [a \in Agents |-> "none"] /\ stale' = FALSE
  /\ co' = [NoCo EXCEPT !.exposable = Terminal]
  /\ UNCHANGED <<log, git, call, late, count>>

(* committed_child_tool_outcomes: a committed spawn or apply fact answers  *)
(* the intent it belongs to.                                               *)
Answered == \/ intent.tool = "spawn" /\ intent.agent \in Spawned
            \/ intent.tool = "apply" /\ intent.agent \in applied

(* resume: committed outcomes are answered, nothing indeterminate is left  *)
(* in the root or in any child, and every child is reconciled.             *)
ResumeStart ==
  /\ drive = "idle" /\ call.kind = "none" /\ root = "open"
  /\ intent = NoIntent \/ Answered
  /\ eff \cap Spawned = {}
  /\ intent' = NoIntent
  /\ call' = [Idle EXCEPT !.kind = "resume", !.todo = Spawned]
  /\ Go(Root, "next")
  /\ UNCHANGED <<root, op, term, applied, eff, git, drive, co, ghost, late, stale, count>>

(* External: the host reconciles an indeterminate effect explicitly.       *)
Reconcile ==
  /\ drive = "idle" /\ call.kind = "none" /\ root = "open"
  /\ \/ intent # NoIntent /\ ~Answered /\ intent' = NoIntent /\ UNCHANGED eff
     \/ \E a \in eff : st[a] \in NotRunning /\ eff' = eff \ {a} /\ UNCHANGED intent
  /\ UNCHANGED <<root, op, term, applied, git, local, count>>

-----------------------------------------------------------------------------
Settle(s) == \/ SettleBegin(s) \/ SettleFinalize(s) \/ SettleTerminal(s)
             \/ SettleCleanup(s) \/ SettleExpose(s) \/ SettleNotify(s)
Child(a) == \/ ChildEffect(a) \/ ChildEdit(a) \/ ChildResult(a) \/ LateEdit(a)
            \/ DriveEnds(a) \/ TaskDrop(a) \/ TaskEnd(a) \/ Settle(a) \/ GhostWork(a)
Spawn == SpawnPrepare \/ SpawnCommit \/ SpawnHandoff \/ SpawnInstall \/ Answer
Wait == WaitRead \/ WaitSnapshot \/ WaitCheck \/ WaitWake
Settlement == JoinAll \/ NextChild \/ Settle(Root) \/ ChildSettled \/ SettleFailed \/ Reap
Apply == ApplyPatch \/ ApplyFact
Start == \/ \E a \in Agents : SpawnStart(a) \/ InterruptStart(a) \/ ApplyStart(a)
         \/ \E T \in SUBSET Agents, all \in BOOLEAN : WaitStart(T, all)
         \/ FinishStart \/ CloseStart \/ ResumeStart

Next == \/ Start \/ Spawn \/ Wait \/ Settlement \/ Apply
        \/ \E a \in Agents : Child(a)
        \/ Crash \/ Reopen \/ Reconcile

(* The executor polls every future that can proceed, blocking work ends,   *)
(* and the drive of a child ends: its deadline is armed.                   *)
Fairness == /\ WF_vars(Spawn \/ Wait \/ Settlement \/ Apply)
            /\ \A a \in Agents :
                 /\ WF_vars(Settle(a) \/ TaskEnd(a) \/ TaskDrop(a))
                 /\ WF_vars(DriveEnds(a))
                 /\ WF_vars(GhostWork(a))

Spec == Init /\ [][Next]_vars /\ Fairness

(* drive_epoch returns an effect-gate error without settling any child;    *)
(* the process stays up and may resume.                                    *)
GateFault ==
  /\ Free
  /\ drive' = "idle"
  /\ UNCHANGED <<log, git, st, call, co, ghost, late, stale, count>>

(* The system with such errors.                                            *)
SpecGate == Init /\ [][Next \/ GateFault]_vars /\ Fairness

-----------------------------------------------------------------------------
(* Type invariant: every variable keeps its shape.                         *)
Settling == {"begin", "finalize", "terminal", "cleanup", "expose", "notify", "settled", "failed"}
Stages == NotRunning \cup Settling \cup
          {"drive", "prepare", "commit", "handoff", "install", "answer", "read", "snapshot",
           "check", "parked", "join", "next", "reap", "patch", "fact"}
CallType == [kind : {"none", "spawn", "wait", "interrupt", "apply", "finish", "close", "resume"},
             cur : Agents \cup {NoAgent}, todo : SUBSET Agents, snap : SUBSET Agents, all : BOOLEAN]
CoType == [reserved : SUBSET Agents, handles : SUBSET Agents, workspaces : SUBSET Agents,
           early : SUBSET Agents, exposable : SUBSET Agents, cancelled : SUBSET Agents]

TypeOK ==
  /\ root \in {"open", "finished"} /\ op \in [Agents -> {"none", "open", "closed"}]
  /\ term \in [Agents -> {"none", "plain", "delta"}]
  /\ applied \subseteq Agents /\ eff \subseteq Agents
  /\ intent \in [tool : {"none", "spawn", "wait", "interrupt", "apply"},
                 agent : Agents \cup {NoAgent}]
  /\ wt \in [Agents -> {"none", "saved", "unsaved", "late"}]
  /\ ref \in [Agents -> {"none", "same", "changed"}]
  /\ parent \in [Agents -> {"base", "patched", "mixed", "twice"}]
  /\ drive \in {"live", "idle", "down"} /\ st \in [Runners -> Stages]
  /\ call \in CallType /\ co \in CoType
  /\ ghost \in [Agents -> {"none", "finalize", "cleanup"}]
  /\ late \subseteq Agents /\ stale \in BOOLEAN /\ spent \subseteq Agents
  /\ faults \in 0..MaxFaults /\ crashes \in 0..MaxCrashes

(* What a child did while it was driven is never lost, whoever finalizes   *)
(* it and whatever its abandoned calls write in between: a worktree of an  *)
(* accepted child is removed only when its terminal fact is durable, that  *)
(* fact carries a delta exactly when the result ref differs from the base, *)
(* and every edit made before the drive ended is in the ref                *)
(* (settle_subagent_task, GitWorkspaceEngine::finalize).                   *)
EditsKept ==
  \A a \in Spawned :
    /\ wt[a] = "none" => a \in Terminal
    /\ a \in Terminal => /\ wt[a] # "unsaved" /\ ref[a] # "none"
                         /\ term[a] = "delta" <=> ref[a] = "changed"

(* A finished root operation leaves no child behind: every child operation *)
(* is closed and terminal, no task runs and no handle is retained; and     *)
(* whatever a parent may see of a child is durable.                        *)
RootSettles ==
  /\ co.exposable \subseteq Terminal
  /\ Terminal \subseteq {a \in Agents : op[a] = "closed"}
  /\ root = "finished" => /\ Spawned = Terminal /\ co.handles = {}
                          /\ \A a \in Agents : st[a] \in NotRunning

(* No lost wakeup: a parked wait_agent whose children are complete has a   *)
(* newer generation to observe, or the notification is still to come.      *)
NoLostWakeup ==
  st[Root] = "parked" /\ Complete(call.todo \cap Terminal \cap co.exposable) =>
    stale \/ \E a \in Agents : st[a] = "notify"

(* An applied fact is true of the root worktree, and no delta is ever      *)
(* applied to it a second time, whatever crashed in between.               *)
ApplyTruthful ==
  \A a \in Agents : /\ a \in applied => parent[a] = "patched"
                    /\ parent[a] # "twice"

(* Every call that settles children comes to an end: the joins and the     *)
(* pipeline never wait for each other.                                     *)
SettlementEnds ==
  (call.kind \in {"interrupt", "finish", "close", "resume"}) ~> (call.kind = "none")

(* docs/subagents.md:227, "Finalization uses another private index to      *)
(* commit the child's complete result": a settled child leaves no edit     *)
(* outside its result ref.  A tool call that outlives its dropped drive    *)
(* breaks it.                                                              *)
CompleteResult == \A a \in Terminal : wt[a] \notin {"unsaved", "late"}

(* docs/subagents.md: the worktrees are cleaned before the root record     *)
(* commits.                                                                *)
CleanedBeforeFinish == root = "finished" => \A a \in Spawned : wt[a] = "none"
=============================================================================
