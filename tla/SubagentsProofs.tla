--------------------------- MODULE SubagentsProofs ---------------------------
(***************************************************************************)
(* Proofs about child assignments and their settlement.                    *)
(***************************************************************************)
EXTENDS Subagents, TLAPS

-----------------------------------------------------------------------------
(* The inductive invariant.                                                *)

(* What the log and the repository say about a child: one that was never   *)
(* accepted has left nothing, the edits of its driven calls are in its     *)
(* result ref once there is one (a late edit of an abandoned call need not *)
(* be), and a terminal fact repeats what the ref says.                     *)
LogInv ==
  \A a \in Agents :
    /\ op[a] = "none" => term[a] = "none" /\ ref[a] = "none"
    /\ op[a] # "none" => a \in spent
    /\ ref[a] # "none" => wt[a] # "unsaved"
    /\ term[a] # "none" => /\ op[a] = "closed" /\ ref[a] # "none"
                           /\ term[a] = "delta" <=> ref[a] = "changed"
    /\ op[a] # "none" /\ wt[a] = "none" => term[a] # "none"

(* What holds of the child a at stage x of the settlement pipeline,        *)
(* whoever runs it.                                                        *)
Stage(a, x) ==
  /\ x \in {"finalize", "terminal"} => op[a] = "closed"
  /\ x = "terminal" => ref[a] # "none"
  /\ x \in {"cleanup", "expose", "notify", "settled"} => term[a] # "none"
  /\ x \in {"notify", "settled"} => a \in co.exposable

(* A child task: it runs for an accepted child only, alone until it has    *)
(* written the terminal fact, and somebody can join it; the work it left   *)
(* behind is of a task that ended.                                         *)
TaskInv ==
  \A a \in Agents :
    /\ op[a] = "none" => st[a] = "none"
    /\ st[a] = "drive" => ref[a] = "none"
    /\ st[a] \in {"drive", "begin", "finalize", "terminal"} => term[a] = "none"
    /\ Stage(a, st[a])
    /\ st[a] \notin NotRunning => a \in co.handles \/ (st[Root] = "install" /\ call.cur = a)
    /\ ghost[a] # "none" => st[a] = "ended"
    /\ ghost[a] = "cleanup" => term[a] # "none"
    /\ a \in co.exposable => term[a] # "none" /\ st[a] \in {"none", "ended", "notify", "settled"}
    /\ a \in co.early => st[a] = "ended"

(* A child that the root may settle without meeting its task.              *)
Rests(a) == st[a] \in NotRunning \/ a \in co.exposable

(* The root's call: its kind, its stage and the drive it runs under.       *)
Settles == {"interrupt", "finish", "close", "resume"}

CallInv ==
  /\ st[Root] = "none" <=> call.kind = "none"
  /\ st[Root] \in {"prepare", "commit", "handoff", "install"} => call.kind = "spawn"
  /\ st[Root] \in {"read", "snapshot", "check", "parked"} => call.kind = "wait"
  /\ st[Root] \in {"patch", "fact"} => call.kind = "apply"
  /\ st[Root] \in {"join", "next", "reap"} \cup Settling => call.kind \in Settles
  /\ st[Root] = "join" => call.kind # "resume"
  /\ st[Root] = "answer" => call.kind \in {"spawn", "wait", "interrupt", "apply"}
  /\ st[Root] \notin {"drive", "ended"}
  /\ call.kind \in {"spawn", "wait", "interrupt", "apply", "finish"} => drive = "live"
  /\ call.kind \in {"close", "resume"} => drive = "idle"
  /\ drive = "live" \/ call.kind = "resume" => root = "open"
  /\ drive # "live" => \A a \in Agents : Rests(a)

(* A child on its way from its reservation to its task.                    *)
SpawnInv ==
  /\ st[Root] \in {"prepare", "commit"} => call.cur \in spent /\ op[call.cur] = "none"
  /\ st[Root] = "commit" => wt[call.cur] # "none"
  /\ st[Root] = "handoff" => /\ call.cur \in Agents /\ op[call.cur] # "none"
                             /\ st[call.cur] = "none" /\ ref[call.cur] = "none"
                             /\ term[call.cur] = "none"
  /\ st[Root] = "install" => call.cur \in Agents

(* The calls that settle children: past the join no task is met, and what  *)
(* is left of a finishing root is still to do.                             *)
Past == {"next", "reap"} \cup Settling

SettleInv ==
  /\ \A a \in call.todo : op[a] # "none"
  /\ call.kind = "interrupt" => /\ call.cur \in Agents /\ call.todo \subseteq {call.cur}
                                /\ op[call.cur] # "none"
                                /\ st[Root] = "join" => call.cur \in call.todo
                                /\ st[Root] \in Past => st[call.cur] \in NotRunning
  /\ call.kind \in {"finish", "close"} /\ st[Root] \in Past => \A a \in Agents : Rests(a)
  /\ call.kind = "finish" /\ st[Root] \in Past \cup {"join"} =>
       \A a \in Agents : op[a] # "none" =>
         \/ a \in co.exposable \/ a \in call.todo \/ (st[Root] \in Settling /\ a = call.cur)
  /\ call.kind = "close" /\ st[Root] = "join" =>
       \A a \in Agents : op[a] # "none" => a \in co.exposable \/ a \in call.todo
  /\ call.kind = "finish" /\ st[Root] = "reap" => call.todo = {}
  /\ st[Root] \in Settling => /\ call.cur \in Agents /\ op[call.cur] # "none"
                              /\ Stage(call.cur, st[Root])
  /\ st[Root] \in {"finalize", "terminal"} => st[call.cur] \in NotRunning

(* A waiter has seen every visible child, or a notification is due.        *)
WaitInv ==
  /\ st[Root] = "check" => \A a \in call.todo \cap co.exposable :
       a \in call.snap \/ stale \/ \E b \in Agents : st[b] = "notify"
  /\ NoLostWakeup

(* An application that is about to be recorded has happened.               *)
ApplyInv ==
  /\ ApplyTruthful
  /\ st[Root] \in {"patch", "fact"} => call.cur \in Agents
  /\ st[Root] = "fact" => parent[call.cur] = "patched"

(* What a finished root leaves.                                            *)
FinishedInv ==
  root = "finished" => /\ \A a \in Agents : st[a] \in NotRunning /\ (op[a] # "none" => term[a] # "none")
                       /\ co.handles = {}

IInv ==
  /\ TypeOK /\ LogInv /\ TaskInv /\ CallInv /\ SpawnInv /\ SettleInv
  /\ WaitInv /\ ApplyInv /\ FinishedInv

-----------------------------------------------------------------------------
(* Types.                                                                  *)

LEMMA Distinct ==
  /\ Root \notin Agents /\ NoAgent \notin Agents
  /\ Root \in Runners /\ Agents \subseteq Runners
  /\ MaxFaults \in Nat /\ MaxCrashes \in Nat
  BY SubagentsAssumption DEF Root, NoAgent, Runners

LEMMA Types ==
  ASSUME TypeOK
  PROVE  /\ st \in [Runners -> Stages] /\ call \in CallType /\ co \in CoType
         /\ op \in [Agents -> {"none", "open", "closed"}]
         /\ term \in [Agents -> {"none", "plain", "delta"}]
         /\ wt \in [Agents -> {"none", "saved", "unsaved", "late"}]
         /\ ref \in [Agents -> {"none", "same", "changed"}]
         /\ parent \in [Agents -> {"base", "patched", "mixed", "twice"}]
         /\ ghost \in [Agents -> {"none", "finalize", "cleanup"}]
         /\ call.cur \in Agents \cup {NoAgent} /\ call.todo \subseteq Agents /\ call.snap \subseteq Agents
         /\ call.all \in BOOLEAN
         /\ call.kind \in {"none", "spawn", "wait", "interrupt", "apply", "finish", "close", "resume"}
         /\ co.reserved \subseteq Agents /\ co.handles \subseteq Agents /\ co.workspaces \subseteq Agents
         /\ co.early \subseteq Agents /\ co.exposable \subseteq Agents /\ co.cancelled \subseteq Agents
         /\ drive \in {"live", "idle", "down"} /\ root \in {"open", "finished"}
         /\ spent \subseteq Agents /\ applied \subseteq Agents /\ eff \subseteq Agents
         /\ stale \in BOOLEAN /\ late \subseteq Agents
  BY DEF TypeOK, CallType, CoType

(* A runner moves to another stage.                                        *)
LEMMA Moves ==
  ASSUME TypeOK, NEW s \in Runners, NEW x \in Stages, st' = [st EXCEPT ![s] = x]
  PROVE  /\ st' \in [Runners -> Stages] /\ st'[s] = x
         /\ \A r \in Runners \ {s} : st'[r] = st[r]
  BY DEF TypeOK

LEMMA IdleType ==
  /\ Idle \in CallType /\ Idle.kind = "none" /\ Idle.cur = NoAgent
  /\ Idle.todo = {} /\ Idle.snap = {}
  BY DEF Idle, CallType

LEMMA NoIntentType ==
  NoIntent \in [tool : {"none", "spawn", "wait", "interrupt", "apply"}, agent : Agents \cup {NoAgent}]
  BY DEF NoIntent

-----------------------------------------------------------------------------
(* Frames.                                                                 *)

LEMMA LogKept == ASSUME IInv, UNCHANGED <<op, term, wt, ref, spent>> PROVE LogInv'
  BY DEF IInv, LogInv

(* The root moves from one stage of a call to another; no child is touched. *)
LEMMA RootMoves ==
  ASSUME IInv, UNCHANGED <<root, op, term, wt, ref, co, ghost, late, spent>>,
         \A a \in Agents : st'[a] = st[a], st[Root] # "install"
  PROVE  /\ LogInv' /\ TaskInv' /\ FinishedInv'
         /\ \A a \in Agents : Rests(a)' <=> Rests(a)
<1>1. LogInv'
  BY LogKept
<1>2. TaskInv'
  BY DEF IInv, TaskInv, Stage
<1>3. FinishedInv'
  BY DEF IInv, FinishedInv
<1>4. \A a \in Agents : Rests(a)' <=> Rests(a)
  BY DEF Rests
<1> QED BY <1>1, <1>2, <1>3, <1>4

(* The same with everything that does not depend on where the root goes.   *)
LEMMA RootStep ==
  ASSUME IInv, UNCHANGED <<root, op, term, eff, wt, ref, co, ghost, late, spent, faults, crashes>>,
         NEW x \in Stages, st' = [st EXCEPT ![Root] = x], st[Root] # "install",
         intent' \in [tool : {"none", "spawn", "wait", "interrupt", "apply"}, agent : Agents \cup {NoAgent}],
         drive' \in {"live", "idle", "down"}, call' \in CallType, stale' \in BOOLEAN,
         parent' \in [Agents -> {"base", "patched", "mixed", "twice"}], applied' \subseteq Agents
  PROVE  /\ TypeOK' /\ LogInv' /\ TaskInv' /\ FinishedInv'
         /\ st'[Root] = x /\ \A a \in Agents : st'[a] = st[a] /\ (Rests(a)' <=> Rests(a))
<1>1. st' \in [Runners -> Stages] /\ st'[Root] = x /\ \A a \in Agents : st'[a] = st[a]
  BY Moves, Distinct DEF IInv
<1>2. LogInv' /\ TaskInv' /\ FinishedInv' /\ \A a \in Agents : Rests(a)' <=> Rests(a)
  BY <1>1, RootMoves
<1>3. TypeOK'
  BY <1>1 DEF IInv, TypeOK
<1> QED BY <1>1, <1>2, <1>3

LEMMA RootTypes ==
  ASSUME IInv
  PROVE  /\ TypeOK /\ intent \in [tool : {"none", "spawn", "wait", "interrupt", "apply"},
                                  agent : Agents \cup {NoAgent}]
         /\ faults \in 0..MaxFaults /\ crashes \in 0..MaxCrashes
  BY DEF IInv, TypeOK

-----------------------------------------------------------------------------
(* wait_agent.                                                             *)

LEMMA WaitReadInv == ASSUME IInv, WaitRead PROVE IInv'
<1>u. /\ UNCHANGED <<root, op, term, applied, eff, intent, wt, ref, parent, drive, call, co, ghost, late,
                     spent, faults, crashes>>
      /\ st[Root] = "read" /\ st' = [st EXCEPT ![Root] = "snapshot"] /\ stale' = FALSE
      /\ "snapshot" \in Stages
  BY DEF WaitRead, log, git, count, Go, Stages
<1>1. /\ TypeOK' /\ LogInv' /\ TaskInv' /\ FinishedInv'
      /\ st'[Root] = "snapshot" /\ \A a \in Agents : st'[a] = st[a] /\ (Rests(a)' <=> Rests(a))
  BY <1>u, RootStep, RootTypes, Types
<1>2. CallInv' /\ SpawnInv'
  BY <1>u, <1>1 DEF IInv, CallInv, SpawnInv, Settling
<1>3. SettleInv'
  BY <1>u, <1>1 DEF IInv, SettleInv, CallInv, Settling, Past
<1>4. WaitInv' /\ ApplyInv'
  BY <1>u, <1>1 DEF IInv, WaitInv, ApplyInv, NoLostWakeup, ApplyTruthful
<1> QED BY <1>1, <1>2, <1>3, <1>4 DEF IInv

LEMMA WaitSnapshotInv == ASSUME IInv, WaitSnapshot PROVE IInv'
<1>u. /\ UNCHANGED <<root, op, term, applied, eff, intent, wt, ref, parent, drive, co, ghost, late, stale,
                     spent, faults, crashes>>
      /\ st[Root] = "snapshot" /\ st' = [st EXCEPT ![Root] = "check"]
      /\ call' = [call EXCEPT !.snap = call.todo \cap Terminal]
      /\ "check" \in Stages
  BY DEF WaitSnapshot, log, git, count, Go, Stages
<1>c. /\ call' \in CallType /\ call'.snap = call.todo \cap Terminal /\ call'.todo = call.todo
      /\ call'.kind = call.kind /\ call'.cur = call.cur
  BY <1>u, RootTypes, Types DEF CallType
<1>1. /\ TypeOK' /\ LogInv' /\ TaskInv' /\ FinishedInv'
      /\ st'[Root] = "check" /\ \A a \in Agents : st'[a] = st[a] /\ (Rests(a)' <=> Rests(a))
  BY <1>u, <1>c, RootStep, RootTypes, Types
<1>2. CallInv' /\ SpawnInv'
  BY <1>u, <1>c, <1>1 DEF IInv, CallInv, SpawnInv, Settling
<1>3. SettleInv'
  BY <1>u, <1>c, <1>1 DEF IInv, SettleInv, CallInv, Settling, Past
<1>4. WaitInv' /\ ApplyInv'
  <2>1. \A a \in co.exposable : a \in Agents /\ a \in Terminal
    BY RootTypes, Types DEF IInv, TaskInv, Terminal
  <2> QED BY <1>u, <1>c, <1>1, <2>1 DEF IInv, WaitInv, ApplyInv, NoLostWakeup, ApplyTruthful
<1> QED BY <1>1, <1>2, <1>3, <1>4 DEF IInv

LEMMA WaitCheckInv == ASSUME IInv, WaitCheck PROVE IInv'
<1> DEFINE x == IF Complete(call.snap \cap co.exposable) THEN "answer" ELSE "parked"
<1>u. /\ UNCHANGED <<root, op, term, applied, eff, intent, wt, ref, parent, drive, call, co, ghost, late,
                     stale, spent, faults, crashes>>
      /\ st[Root] = "check" /\ st' = [st EXCEPT ![Root] = x]
  BY DEF WaitCheck, log, git, count, Go
<1>x. x \in Stages /\ x \in {"answer", "parked"} /\ (x = "parked" => ~Complete(call.snap \cap co.exposable))
  BY DEF Stages
<1> HIDE DEF x
<1>1. /\ TypeOK' /\ LogInv' /\ TaskInv' /\ FinishedInv'
      /\ st'[Root] = x /\ \A a \in Agents : st'[a] = st[a] /\ (Rests(a)' <=> Rests(a))
  BY <1>u, <1>x, RootStep, RootTypes, Types
<1>2. CallInv' /\ SpawnInv'
  BY <1>u, <1>x, <1>1 DEF IInv, CallInv, SpawnInv, Settling
<1>3. SettleInv'
  BY <1>u, <1>x, <1>1 DEF IInv, SettleInv, CallInv, Settling, Past
<1>4. ApplyInv'
  BY <1>u, <1>x, <1>1 DEF IInv, ApplyInv, ApplyTruthful
<1>5. NoLostWakeup'
  <2> SUFFICES ASSUME x = "parked", Complete(call.todo \cap Terminal \cap co.exposable), ~stale,
                      ~ \E b \in Agents : st[b] = "notify"
               PROVE  FALSE
    BY <1>u, <1>1 DEF NoLostWakeup, Complete, Terminal
  <2>1. \A a \in call.todo \cap co.exposable : a \in call.snap
    BY <1>u DEF IInv, WaitInv
  <2>2. call.todo \cap Terminal \cap co.exposable \subseteq call.snap \cap co.exposable
    BY <2>1
  <2> QED BY <1>x, <2>2 DEF Complete
<1>6. WaitInv'
  BY <1>u, <1>x, <1>1, <1>5 DEF IInv, WaitInv
<1> QED BY <1>1, <1>2, <1>3, <1>4, <1>6 DEF IInv

LEMMA WaitWakeInv == ASSUME IInv, WaitWake PROVE IInv'
<1> DEFINE x == IF stale THEN "read" ELSE "answer"
<1>u. /\ UNCHANGED <<root, op, term, applied, eff, intent, wt, ref, parent, drive, call, co, ghost, late,
                     stale, spent, faults, crashes>>
      /\ st[Root] = "parked" /\ st' = [st EXCEPT ![Root] = x]
  BY DEF WaitWake, log, git, count, Go
<1>x. x \in Stages /\ x \in {"answer", "read"}
  BY DEF Stages
<1> HIDE DEF x
<1>1. /\ TypeOK' /\ LogInv' /\ TaskInv' /\ FinishedInv'
      /\ st'[Root] = x /\ \A a \in Agents : st'[a] = st[a] /\ (Rests(a)' <=> Rests(a))
  BY <1>u, <1>x, RootStep, RootTypes, Types
<1>2. CallInv' /\ SpawnInv'
  BY <1>u, <1>x, <1>1 DEF IInv, CallInv, SpawnInv, Settling
<1>3. SettleInv'
  BY <1>u, <1>x, <1>1 DEF IInv, SettleInv, CallInv, Settling, Past
<1>4. WaitInv' /\ ApplyInv'
  BY <1>u, <1>x, <1>1 DEF IInv, WaitInv, ApplyInv, NoLostWakeup, ApplyTruthful
<1> QED BY <1>1, <1>2, <1>3, <1>4 DEF IInv

(* A call that begins without touching the coordinator.                    *)
LEMMA WaitStartInv ==
  ASSUME IInv, NEW T \in SUBSET Agents, NEW all \in BOOLEAN, WaitStart(T, all) PROVE IInv'
<1> DEFINE c == [Idle EXCEPT !.kind = "wait", !.todo = T, !.all = all]
<1>u. /\ UNCHANGED <<root, op, term, applied, eff, wt, ref, parent, drive, co, ghost, late, stale,
                     spent, faults, crashes>>
      /\ drive = "live" /\ call.kind = "none" /\ intent' = [tool |-> "wait", agent |-> NoAgent]
      /\ st' = [st EXCEPT ![Root] = "read"] /\ call' = c /\ T \subseteq Spawned
      /\ "read" \in Stages
  BY DEF WaitStart, Begin, Free, git, count, Go, Stages
<1>c. c \in CallType /\ c.kind = "wait" /\ c.todo = T /\ c.cur = NoAgent /\ c.snap = {}
  BY DEF Idle, CallType
<1>i. intent' \in [tool : {"none", "spawn", "wait", "interrupt", "apply"}, agent : Agents \cup {NoAgent}]
  BY <1>u
<1>r. st[Root] = "none"
  BY <1>u DEF IInv, CallInv
<1> HIDE DEF c
<1>1. /\ TypeOK' /\ LogInv' /\ TaskInv' /\ FinishedInv'
      /\ st'[Root] = "read" /\ \A a \in Agents : st'[a] = st[a] /\ (Rests(a)' <=> Rests(a))
  BY <1>u, <1>c, <1>i, <1>r, RootStep, RootTypes, Types
<1>2. CallInv' /\ SpawnInv'
  BY <1>u, <1>c, <1>1 DEF IInv, CallInv, SpawnInv, Settling
<1>3. SettleInv'
  BY <1>u, <1>c, <1>1 DEF IInv, SettleInv, CallInv, Settling, Past, Spawned
<1>4. WaitInv' /\ ApplyInv'
  BY <1>u, <1>c, <1>1 DEF IInv, WaitInv, ApplyInv, NoLostWakeup, ApplyTruthful
<1> QED BY <1>1, <1>2, <1>3, <1>4 DEF IInv

LEMMA AnswerInv == ASSUME IInv, Answer PROVE IInv'
<1>u. /\ UNCHANGED <<root, op, term, applied, eff, wt, ref, parent, drive, co, ghost, late, stale,
                     spent, faults, crashes>>
      /\ st[Root] = "answer" /\ intent' = NoIntent /\ call' = Idle
      /\ st' = [st EXCEPT ![Root] = "none"] /\ "none" \in Stages
  BY DEF Answer, git, count, Go, Stages, NotRunning
<1>1. /\ TypeOK' /\ LogInv' /\ TaskInv' /\ FinishedInv'
      /\ st'[Root] = "none" /\ \A a \in Agents : st'[a] = st[a] /\ (Rests(a)' <=> Rests(a))
  BY <1>u, IdleType, NoIntentType, RootStep, RootTypes, Types
<1>2. CallInv' /\ SpawnInv'
  BY <1>u, <1>1, IdleType DEF IInv, CallInv, SpawnInv, Settling
<1>3. SettleInv'
  BY <1>u, <1>1, IdleType DEF IInv, SettleInv, CallInv, Settling, Past
<1>4. WaitInv' /\ ApplyInv'
  BY <1>u, <1>1, IdleType DEF IInv, WaitInv, ApplyInv, NoLostWakeup, ApplyTruthful
<1> QED BY <1>1, <1>2, <1>3, <1>4 DEF IInv

-----------------------------------------------------------------------------
(* apply_agent_changes.                                                    *)

LEMMA ApplyStartInv == ASSUME IInv, NEW b \in Agents, ApplyStart(b) PROVE IInv'
<1> DEFINE c == [Idle EXCEPT !.kind = "apply", !.cur = b]
           x == IF b \in applied THEN "answer" ELSE "patch"
<1>u. /\ UNCHANGED <<root, op, term, applied, eff, wt, ref, parent, drive, co, ghost, late, stale,
                     spent, faults, crashes>>
      /\ drive = "live" /\ call.kind = "none" /\ intent' = [tool |-> "apply", agent |-> b]
      /\ st' = [st EXCEPT ![Root] = x] /\ call' = c
  BY DEF ApplyStart, Begin, Free, git, count, Go
<1>c. c \in CallType /\ c.kind = "apply" /\ c.cur = b /\ c.todo = {} /\ c.snap = {}
  BY DEF Idle, CallType
<1>x. x \in Stages /\ x \in {"answer", "patch"}
  BY DEF Stages
<1>i. intent' \in [tool : {"none", "spawn", "wait", "interrupt", "apply"}, agent : Agents \cup {NoAgent}]
  BY <1>u
<1>r. st[Root] = "none"
  BY <1>u DEF IInv, CallInv
<1> HIDE DEF c, x
<1>1. /\ TypeOK' /\ LogInv' /\ TaskInv' /\ FinishedInv'
      /\ st'[Root] = x /\ \A a \in Agents : st'[a] = st[a] /\ (Rests(a)' <=> Rests(a))
  BY <1>u, <1>c, <1>x, <1>i, <1>r, RootStep, RootTypes, Types
<1>2. CallInv' /\ SpawnInv'
  BY <1>u, <1>c, <1>x, <1>1 DEF IInv, CallInv, SpawnInv, Settling
<1>3. SettleInv'
  BY <1>u, <1>c, <1>x, <1>1 DEF IInv, SettleInv, CallInv, Settling, Past
<1>4. WaitInv' /\ ApplyInv'
  BY <1>u, <1>c, <1>x, <1>1 DEF IInv, WaitInv, ApplyInv, NoLostWakeup, ApplyTruthful
<1> QED BY <1>1, <1>2, <1>3, <1>4 DEF IInv

LEMMA ApplyPatchInv == ASSUME IInv, ApplyPatch PROVE IInv'
<1>1. PICK result \in IF parent[call.cur] = "base" THEN {"base", "patched", "mixed"}
                      ELSE {parent[call.cur]} :
        /\ parent' = [parent EXCEPT ![call.cur] = result]
        /\ Go(Root, IF parent[call.cur] = "base" /\ result = "patched" THEN "fact" ELSE "answer")
  BY DEF ApplyPatch
<1> DEFINE x == IF parent[call.cur] = "base" /\ result = "patched" THEN "fact" ELSE "answer"
<1>u. /\ UNCHANGED <<root, op, term, applied, eff, intent, wt, ref, drive, call, co, ghost, late, stale,
                     spent, faults, crashes>>
      /\ st[Root] = "patch" /\ st' = [st EXCEPT ![Root] = x]
  BY <1>1 DEF ApplyPatch, log, count, Go
<1>x. /\ x \in Stages /\ x \in {"answer", "fact"} /\ (x = "fact" => result = "patched")
  BY DEF Stages
<1>c. call.cur \in Agents
  BY <1>u DEF IInv, ApplyInv
<1>p. /\ parent' \in [Agents -> {"base", "patched", "mixed", "twice"}] /\ parent'[call.cur] = result
      /\ \A a \in Agents \ {call.cur} : parent'[a] = parent[a]
      /\ parent[call.cur] # "base" => result = parent[call.cur]
      /\ parent[call.cur] = "base" => result # "twice"
  BY <1>1, <1>c, RootTypes, Types
<1> HIDE DEF x
<1>2. /\ TypeOK' /\ LogInv' /\ TaskInv' /\ FinishedInv'
      /\ st'[Root] = x /\ \A a \in Agents : st'[a] = st[a] /\ (Rests(a)' <=> Rests(a))
  BY <1>u, <1>x, <1>p, RootStep, RootTypes, Types
<1>3. CallInv' /\ SpawnInv'
  BY <1>u, <1>x, <1>2 DEF IInv, CallInv, SpawnInv, Settling
<1>4. SettleInv'
  BY <1>u, <1>x, <1>2 DEF IInv, SettleInv, CallInv, Settling, Past
<1>5. WaitInv'
  BY <1>u, <1>x, <1>2 DEF IInv, WaitInv, NoLostWakeup
<1>6. ApplyInv'
  BY <1>u, <1>x, <1>c, <1>p, <1>2 DEF IInv, ApplyInv, ApplyTruthful
<1> QED BY <1>2, <1>3, <1>4, <1>5, <1>6 DEF IInv

LEMMA ApplyFactInv == ASSUME IInv, ApplyFact PROVE IInv'
<1>u. /\ UNCHANGED <<root, op, term, eff, intent, wt, ref, parent, drive, call, co, ghost, late, stale,
                     spent, faults, crashes>>
      /\ st[Root] = "fact" /\ st' = [st EXCEPT ![Root] = "answer"] /\ "answer" \in Stages
      /\ applied' = applied \cup {call.cur}
  BY DEF ApplyFact, git, count, Go, Stages
<1>c. call.cur \in Agents /\ parent[call.cur] = "patched"
  BY <1>u DEF IInv, ApplyInv
<1>a. applied' \subseteq Agents
  BY <1>u, <1>c, RootTypes, Types
<1>1. /\ TypeOK' /\ LogInv' /\ TaskInv' /\ FinishedInv'
      /\ st'[Root] = "answer" /\ \A a \in Agents : st'[a] = st[a] /\ (Rests(a)' <=> Rests(a))
  BY <1>u, <1>a, RootStep, RootTypes, Types
<1>2. CallInv' /\ SpawnInv'
  BY <1>u, <1>1 DEF IInv, CallInv, SpawnInv, Settling
<1>3. SettleInv'
  BY <1>u, <1>1 DEF IInv, SettleInv, CallInv, Settling, Past
<1>4. WaitInv' /\ ApplyInv'
  BY <1>u, <1>c, <1>1 DEF IInv, WaitInv, ApplyInv, NoLostWakeup, ApplyTruthful
<1> QED BY <1>1, <1>2, <1>3, <1>4 DEF IInv

-----------------------------------------------------------------------------
(* The calls that settle children.                                         *)

LEMMA JoinAllInv == ASSUME IInv, JoinAll PROVE IInv'
<1>u. /\ UNCHANGED <<root, op, term, applied, eff, intent, wt, ref, parent, drive, call, co, ghost, late,
                     stale, spent, faults, crashes>>
      /\ st[Root] = "join" /\ st' = [st EXCEPT ![Root] = "next"] /\ "next" \in Stages
      /\ Joined(call.todo)
  BY DEF JoinAll, log, git, count, Go, Stages
<1>1. /\ TypeOK' /\ LogInv' /\ TaskInv' /\ FinishedInv'
      /\ st'[Root] = "next" /\ \A a \in Agents : st'[a] = st[a] /\ (Rests(a)' <=> Rests(a))
  BY <1>u, RootStep, RootTypes, Types
<1>2. CallInv' /\ SpawnInv'
  BY <1>u, <1>1 DEF IInv, CallInv, SpawnInv, Settling
<1>3. \A a \in call.todo : st[a] \in NotRunning
  BY <1>u, RootTypes, Types DEF Joined, IInv, TaskInv
<1>4. call.kind \in {"finish", "close"} => \A a \in Agents : Rests(a)
  <2>1. \A a \in Agents : op[a] = "none" => st[a] \in NotRunning
    BY DEF IInv, TaskInv, NotRunning
  <2>2. call.kind \in {"finish", "close"} =>
          \A a \in Agents : op[a] # "none" => a \in co.exposable \/ a \in call.todo
    BY <1>u DEF IInv, SettleInv, Settling
  <2> QED BY <1>3, <2>1, <2>2 DEF Rests
<1>5. call.kind = "interrupt" => st[call.cur] \in NotRunning
  <2>1. call.kind = "interrupt" => call.cur \in Agents /\ call.todo = {call.cur}
    BY <1>u DEF IInv, SettleInv
  <2> QED BY <1>3, <2>1
<1>6. SettleInv'
  BY <1>u, <1>1, <1>4, <1>5 DEF IInv, SettleInv, CallInv, Settling, Past
<1>7. WaitInv' /\ ApplyInv'
  BY <1>u, <1>1 DEF IInv, WaitInv, ApplyInv, NoLostWakeup, ApplyTruthful
<1> QED BY <1>1, <1>2, <1>6, <1>7 DEF IInv

LEMMA ChildSettledInv == ASSUME IInv, ChildSettled PROVE IInv'
<1>u. /\ UNCHANGED <<root, op, term, applied, eff, intent, wt, ref, parent, drive, call, co, ghost, late,
                     stale, spent, faults, crashes>>
      /\ st[Root] = "settled" /\ st' = [st EXCEPT ![Root] = "next"] /\ "next" \in Stages
  BY DEF ChildSettled, log, git, count, Go, Stages
<1>1. /\ TypeOK' /\ LogInv' /\ TaskInv' /\ FinishedInv'
      /\ st'[Root] = "next" /\ \A a \in Agents : st'[a] = st[a] /\ (Rests(a)' <=> Rests(a))
  BY <1>u, RootStep, RootTypes, Types
<1>2. CallInv' /\ SpawnInv'
  BY <1>u, <1>1 DEF IInv, CallInv, SpawnInv, Settling
<1>3. call.cur \in co.exposable
  BY <1>u DEF IInv, SettleInv, Settling, Stage
<1>4. SettleInv'
  BY <1>u, <1>1, <1>3 DEF IInv, SettleInv, CallInv, Settling, Past
<1>5. WaitInv' /\ ApplyInv'
  BY <1>u, <1>1 DEF IInv, WaitInv, ApplyInv, NoLostWakeup, ApplyTruthful
<1> QED BY <1>1, <1>2, <1>4, <1>5 DEF IInv

LEMMA NextChildInv == ASSUME IInv, NextChild PROVE IInv'
<1>u. /\ UNCHANGED <<root, op, term, applied, eff, intent, wt, ref, parent, drive, co, ghost, late,
                     stale, spent, faults, crashes>>
      /\ st[Root] = "next" /\ "reap" \in Stages /\ "begin" \in Stages
  BY DEF NextChild, log, git, count, Stages, Settling
<1>1. CASE call.todo = {}
  <2>u. UNCHANGED call /\ st' = [st EXCEPT ![Root] = "reap"]
    BY <1>1 DEF NextChild, Go
  <2>1. /\ TypeOK' /\ LogInv' /\ TaskInv' /\ FinishedInv'
        /\ st'[Root] = "reap" /\ \A a \in Agents : st'[a] = st[a] /\ (Rests(a)' <=> Rests(a))
    BY <1>u, <2>u, RootStep, RootTypes, Types
  <2>2. CallInv' /\ SpawnInv'
    BY <1>u, <2>u, <2>1 DEF IInv, CallInv, SpawnInv, Settling
  <2>3. SettleInv'
    BY <1>u, <1>1, <2>u, <2>1 DEF IInv, SettleInv, CallInv, Settling, Past
  <2>4. WaitInv' /\ ApplyInv'
    BY <1>u, <2>u, <2>1 DEF IInv, WaitInv, ApplyInv, NoLostWakeup, ApplyTruthful
  <2> QED BY <2>1, <2>2, <2>3, <2>4 DEF IInv
<1>2. CASE call.todo # {}
  <2>1. PICK b \in call.todo : /\ call' = [call EXCEPT !.cur = b, !.todo = @ \ {b}]
                               /\ st' = [st EXCEPT ![Root] = "begin"]
    BY <1>2 DEF NextChild, Go
  <2>b. b \in Agents /\ op[b] # "none"
    BY RootTypes, Types DEF IInv, SettleInv
  <2>c. /\ call' \in CallType /\ call'.cur = b /\ call'.todo = call.todo \ {b}
        /\ call'.kind = call.kind /\ call'.snap = call.snap
    BY <2>1, <2>b, RootTypes, Types DEF CallType
  <2>2. /\ TypeOK' /\ LogInv' /\ TaskInv' /\ FinishedInv'
        /\ st'[Root] = "begin" /\ \A a \in Agents : st'[a] = st[a] /\ (Rests(a)' <=> Rests(a))
    BY <1>u, <2>1, <2>c, RootStep, RootTypes, Types
  <2>3. CallInv' /\ SpawnInv'
    BY <1>u, <2>c, <2>2 DEF IInv, CallInv, SpawnInv, Settling
  <2>4. Stage(b, "begin")'
    BY DEF Stage
  <2>5. SettleInv'
    <3>1. call.kind = "interrupt" => b = call.cur
      BY DEF IInv, SettleInv
    <3>2. \A a \in call'.todo : op'[a] # "none"
      BY <1>u, <2>c DEF IInv, SettleInv
    <3>3. call'.kind = "interrupt" => /\ call'.cur \in Agents /\ call'.todo \subseteq {call'.cur}
                                      /\ op'[call'.cur] # "none"
                                      /\ st'[Root] = "join" => call'.cur \in call'.todo
                                      /\ st'[Root] \in Past => st'[call'.cur] \in NotRunning
      BY <1>u, <2>b, <2>c, <2>2, <3>1 DEF IInv, SettleInv, Past
    <3>4. call'.kind \in {"finish", "close"} => \A a \in Agents : Rests(a)'
      BY <1>u, <2>c, <2>2 DEF IInv, SettleInv, Past
    <3>5. call'.kind = "finish" =>
            \A a \in Agents : op'[a] # "none" => a \in co'.exposable \/ a \in call'.todo \/ a = call'.cur
      BY <1>u, <2>c DEF IInv, SettleInv, Past, Settling
    <3>6. st'[Root] \in Settling => call'.cur \in Agents /\ op'[call'.cur] # "none"
      BY <1>u, <2>b, <2>c
    <3> QED BY <2>c, <2>2, <2>4, <3>2, <3>3, <3>4, <3>5, <3>6 DEF SettleInv, Settling
  <2>6. WaitInv'
    BY <2>2 DEF WaitInv, NoLostWakeup
  <2>7. ApplyInv'
    BY <1>u, <2>2 DEF IInv, ApplyInv, ApplyTruthful
  <2> QED BY <2>2, <2>3, <2>5, <2>6, <2>7 DEF IInv
<1> QED BY <1>1, <1>2

LEMMA SettleFailedInv == ASSUME IInv, SettleFailed PROVE IInv'
<1>u. /\ UNCHANGED <<root, op, term, applied, eff, intent, wt, ref, parent, co, ghost, late,
                     stale, spent, faults, crashes>>
      /\ st[Root] = "failed" /\ "answer" \in Stages /\ "none" \in Stages
  BY DEF SettleFailed, log, git, count, Stages, NotRunning
<1>1. CASE call.kind = "interrupt"
  <2>u. UNCHANGED <<drive, call>> /\ st' = [st EXCEPT ![Root] = "answer"]
    BY <1>1 DEF SettleFailed, Go
  <2>1. /\ TypeOK' /\ LogInv' /\ TaskInv' /\ FinishedInv'
        /\ st'[Root] = "answer" /\ \A a \in Agents : st'[a] = st[a] /\ (Rests(a)' <=> Rests(a))
    BY <1>u, <2>u, RootStep, RootTypes, Types
  <2>2. CallInv' /\ SpawnInv'
    BY <1>u, <1>1, <2>u, <2>1 DEF IInv, CallInv, SpawnInv, Settling
  <2>3. SettleInv'
    BY <1>u, <1>1, <2>u, <2>1 DEF IInv, SettleInv, Settling, Past
  <2>4. WaitInv' /\ ApplyInv'
    BY <1>u, <2>u, <2>1 DEF IInv, WaitInv, ApplyInv, NoLostWakeup, ApplyTruthful
  <2> QED BY <2>1, <2>2, <2>3, <2>4 DEF IInv
<1>2. CASE call.kind # "interrupt"
  <2>u. call' = Idle /\ drive' = "idle" /\ st' = [st EXCEPT ![Root] = "none"]
    BY <1>2 DEF SettleFailed, Go
  <2>1. /\ TypeOK' /\ LogInv' /\ TaskInv' /\ FinishedInv'
        /\ st'[Root] = "none" /\ \A a \in Agents : st'[a] = st[a] /\ (Rests(a)' <=> Rests(a))
    BY <1>u, <2>u, IdleType, RootStep, RootTypes, Types
  <2>2. \A a \in Agents : Rests(a)
    BY <1>u, <1>2 DEF IInv, CallInv, SettleInv, Settling, Past, Settles
  <2>3. CallInv' /\ SpawnInv'
    BY <1>u, <2>u, <2>1, <2>2, IdleType DEF IInv, CallInv, SpawnInv, Settling
  <2>4. SettleInv'
    BY <1>u, <2>u, <2>1, IdleType DEF IInv, SettleInv, Settling, Past
  <2>5. WaitInv' /\ ApplyInv'
    BY <1>u, <2>u, <2>1, IdleType DEF IInv, WaitInv, ApplyInv, NoLostWakeup, ApplyTruthful
  <2> QED BY <2>1, <2>3, <2>4, <2>5 DEF IInv
<1> QED BY <1>1, <1>2

LEMMA ResumeStartInv == ASSUME IInv, ResumeStart PROVE IInv'
<1> DEFINE c == [Idle EXCEPT !.kind = "resume", !.todo = Spawned]
<1>u. /\ UNCHANGED <<root, op, term, applied, eff, wt, ref, parent, drive, co, ghost, late, stale,
                     spent, faults, crashes>>
      /\ drive = "idle" /\ call.kind = "none" /\ root = "open" /\ intent' = NoIntent
      /\ st' = [st EXCEPT ![Root] = "next"] /\ call' = c /\ "next" \in Stages
  BY DEF ResumeStart, git, count, Go, Stages
<1>c. c \in CallType /\ c.kind = "resume" /\ c.todo = Spawned /\ c.cur = NoAgent /\ c.snap = {}
  BY DEF Idle, CallType, Spawned
<1>r. st[Root] = "none"
  BY <1>u DEF IInv, CallInv
<1> HIDE DEF c
<1>1. /\ TypeOK' /\ LogInv' /\ TaskInv' /\ FinishedInv'
      /\ st'[Root] = "next" /\ \A a \in Agents : st'[a] = st[a] /\ (Rests(a)' <=> Rests(a))
  BY <1>u, <1>c, <1>r, NoIntentType, RootStep, RootTypes, Types
<1>2. CallInv' /\ SpawnInv'
  BY <1>u, <1>c, <1>1 DEF IInv, CallInv, SpawnInv, Settling, Settles
<1>3. SettleInv'
  BY <1>u, <1>c, <1>1 DEF IInv, SettleInv, Settling, Past, Spawned
<1>4. WaitInv' /\ ApplyInv'
  BY <1>u, <1>c, <1>1 DEF IInv, WaitInv, ApplyInv, NoLostWakeup, ApplyTruthful
<1> QED BY <1>1, <1>2, <1>3, <1>4 DEF IInv

(* What a change of the coordinator that exposes nothing leaves alone.     *)
LEMMA CoKept ==
  ASSUME IInv, UNCHANGED <<root, op, term, ref, ghost, late>>, \A a \in Agents : st'[a] = st[a],
         st[Root] # "install", co'.handles = co.handles, co'.early = co.early,
         co'.exposable = co.exposable
  PROVE  TaskInv' /\ FinishedInv' /\ \A a \in Agents : Rests(a)' <=> Rests(a)
<1>1. TaskInv'
  BY DEF IInv, TaskInv, Stage
<1>2. FinishedInv'
  BY DEF IInv, FinishedInv
<1>3. \A a \in Agents : Rests(a)' <=> Rests(a)
  BY DEF Rests
<1> QED BY <1>1, <1>2, <1>3

(* The settlement of every child that is not visible begins.               *)
LEMMA SettleAllInv ==
  ASSUME IInv, NEW kind \in {"finish", "close"}, SettleAll(kind), call.kind = "none",
         UNCHANGED <<log, git, drive, ghost, late, stale, count>>,
         kind = "finish" => drive = "live", kind = "close" => drive = "idle"
  PROVE  IInv'
<1> DEFINE c == [Idle EXCEPT !.kind = kind, !.todo = Spawned \ co.exposable]
<1>u. /\ UNCHANGED <<root, op, term, applied, eff, intent, wt, ref, parent, drive, ghost, late, stale,
                     spent, faults, crashes>>
      /\ st' = [st EXCEPT ![Root] = "join"] /\ call' = c /\ "join" \in Stages
      /\ co' = [co EXCEPT !.cancelled = @ \cup ((Spawned \ co.exposable) \cap co.handles)]
  BY DEF SettleAll, log, git, count, Go, Stages
<1>c. c \in CallType /\ c.kind = kind /\ c.todo = Spawned \ co.exposable /\ c.cur = NoAgent
  BY DEF Idle, CallType, Spawned
<1>o. /\ co' \in CoType /\ co'.handles = co.handles /\ co'.early = co.early
      /\ co'.exposable = co.exposable
  BY <1>u, RootTypes, Types DEF CoType
<1>r. st[Root] = "none"
  BY DEF IInv, CallInv
<1> HIDE DEF c
<1>1. st' \in [Runners -> Stages] /\ st'[Root] = "join" /\ \A a \in Agents : st'[a] = st[a]
  BY <1>u, Moves, Distinct DEF IInv
<1>2. LogInv' /\ TaskInv' /\ FinishedInv' /\ \A a \in Agents : Rests(a)' <=> Rests(a)
  BY <1>u, <1>o, <1>r, <1>1, LogKept, CoKept
<1>3. TypeOK'
  BY <1>u, <1>c, <1>o, <1>1 DEF IInv, TypeOK
<1>4. CallInv' /\ SpawnInv'
  BY <1>u, <1>c, <1>1, <1>2 DEF IInv, CallInv, SpawnInv, Settling, Settles
<1>5. SettleInv'
  BY <1>u, <1>c, <1>o, <1>1, <1>2 DEF SettleInv, Settling, Past, Spawned
<1>6. WaitInv' /\ ApplyInv'
  BY <1>u, <1>1 DEF IInv, WaitInv, ApplyInv, NoLostWakeup, ApplyTruthful
<1> QED BY <1>2, <1>3, <1>4, <1>5, <1>6 DEF IInv

LEMMA FinishStartInv == ASSUME IInv, FinishStart PROVE IInv'
  BY SettleAllInv DEF FinishStart, Free

LEMMA CloseStartInv == ASSUME IInv, CloseStart PROVE IInv'
<1>1. CASE SettleAll("close")
  BY <1>1, SettleAllInv DEF CloseStart
<1>2. CASE call' = [Idle EXCEPT !.kind = "close"] /\ Go(Root, "reap") /\ UNCHANGED co
  <2> DEFINE c == [Idle EXCEPT !.kind = "close"]
  <2>u. /\ UNCHANGED <<root, op, term, applied, eff, intent, wt, ref, parent, drive, co, ghost, late, stale,
                       spent, faults, crashes>>
        /\ drive = "idle" /\ call.kind = "none"
        /\ st' = [st EXCEPT ![Root] = "reap"] /\ call' = c /\ "reap" \in Stages
    BY <1>2 DEF CloseStart, log, git, count, Go, Stages
  <2>c. c \in CallType /\ c.kind = "close" /\ c.todo = {} /\ c.cur = NoAgent
    BY DEF Idle, CallType
  <2>r. st[Root] = "none"
    BY <2>u DEF IInv, CallInv
  <2> HIDE DEF c
  <2>1. /\ TypeOK' /\ LogInv' /\ TaskInv' /\ FinishedInv'
        /\ st'[Root] = "reap" /\ \A a \in Agents : st'[a] = st[a] /\ (Rests(a)' <=> Rests(a))
    BY <2>u, <2>c, <2>r, RootStep, RootTypes, Types
  <2>2. CallInv' /\ SpawnInv'
    BY <2>u, <2>c, <2>1 DEF IInv, CallInv, SpawnInv, Settling, Settles
  <2>3. \A a \in Agents : Rests(a)
    BY <2>u DEF IInv, CallInv
  <2>4. SettleInv'
    BY <2>u, <2>c, <2>1, <2>3 DEF SettleInv, Settling, Past
  <2>5. WaitInv' /\ ApplyInv'
    BY <2>u, <2>1 DEF IInv, WaitInv, ApplyInv, NoLostWakeup, ApplyTruthful
  <2> QED BY <2>1, <2>2, <2>4, <2>5 DEF IInv
<1> QED BY <1>1, <1>2 DEF CloseStart

LEMMA InterruptStartInv == ASSUME IInv, NEW b \in Agents, InterruptStart(b) PROVE IInv'
<1> DEFINE c == [Idle EXCEPT !.kind = "interrupt", !.cur = b, !.todo = {b}]
           x == IF b \in Terminal /\ b \in co.exposable THEN "answer" ELSE "join"
<1>u. /\ UNCHANGED <<root, op, term, applied, eff, wt, ref, parent, drive, ghost, late, stale,
                     spent, faults, crashes>>
      /\ drive = "live" /\ call.kind = "none" /\ op[b] # "none"
      /\ intent' = [tool |-> "interrupt", agent |-> b]
      /\ st' = [st EXCEPT ![Root] = x] /\ call' = c
      /\ co' = co \/ co' = [co EXCEPT !.cancelled = @ \cup ({b} \cap co.handles)]
  BY DEF InterruptStart, Begin, Free, git, count, Go, Spawned
<1>c. c \in CallType /\ c.kind = "interrupt" /\ c.todo = {b} /\ c.cur = b
  BY DEF Idle, CallType
<1>x. x \in Stages /\ x \in {"answer", "join"}
  BY DEF Stages
<1>o. /\ co' \in CoType /\ co'.handles = co.handles /\ co'.early = co.early
      /\ co'.exposable = co.exposable
  BY <1>u, RootTypes, Types DEF CoType
<1>i. intent' \in [tool : {"none", "spawn", "wait", "interrupt", "apply"}, agent : Agents \cup {NoAgent}]
  BY <1>u
<1>r. st[Root] = "none"
  BY <1>u DEF IInv, CallInv
<1> HIDE DEF c, x
<1>1. st' \in [Runners -> Stages] /\ st'[Root] = x /\ \A a \in Agents : st'[a] = st[a]
  BY <1>u, <1>x, Moves, Distinct DEF IInv
<1>2. LogInv' /\ TaskInv' /\ FinishedInv' /\ \A a \in Agents : Rests(a)' <=> Rests(a)
  BY <1>u, <1>o, <1>r, <1>1, LogKept, CoKept
<1>3. TypeOK'
  BY <1>u, <1>c, <1>o, <1>i, <1>1 DEF IInv, TypeOK
<1>4. CallInv' /\ SpawnInv'
  BY <1>u, <1>c, <1>x, <1>1, <1>2 DEF IInv, CallInv, SpawnInv, Settling, Settles
<1>5. SettleInv'
  BY <1>u, <1>c, <1>x, <1>o, <1>1, <1>2 DEF SettleInv, Settling, Past, Spawned
<1>6. WaitInv' /\ ApplyInv'
  BY <1>u, <1>x, <1>1 DEF IInv, WaitInv, ApplyInv, NoLostWakeup, ApplyTruthful
<1> QED BY <1>2, <1>3, <1>4, <1>5, <1>6 DEF IInv

(* The tail of each call.                                                  *)
LEMMA ReapInv == ASSUME IInv, Reap PROVE IInv'
<1>u. /\ UNCHANGED <<op, term, applied, eff, intent, wt, ref, parent, ghost, late, stale, spent, faults, crashes>>
      /\ st[Root] = "reap" /\ "answer" \in Stages /\ "none" \in Stages
  BY DEF Reap, git, count, Stages, NotRunning
<1>l. LogInv'
  BY <1>u, LogKept
<1>k. call.kind \in Settles
  BY <1>u DEF IInv, CallInv
<1>h. \A a \in Agents : st[a] \notin NotRunning => a \in co.handles /\ op[a] # "none"
  BY <1>u DEF IInv, TaskInv, NotRunning
<1>1. CASE call.kind = "interrupt"
  <2>u. /\ UNCHANGED <<root, drive, call>> /\ st' = [st EXCEPT ![Root] = "answer"]
        /\ co' = [co EXCEPT !.handles = @ \ {call.cur}, !.workspaces = @ \ {call.cur}]
    BY <1>1 DEF Reap, Go
  <2>o. /\ co' \in CoType /\ co'.handles = co.handles \ {call.cur} /\ co'.early = co.early
        /\ co'.exposable = co.exposable
    BY <2>u, RootTypes, Types DEF CoType
  <2>1. st' \in [Runners -> Stages] /\ st'[Root] = "answer" /\ \A a \in Agents : st'[a] = st[a]
    BY <1>u, <2>u, Moves, Distinct DEF IInv
  <2>2. st[call.cur] \in NotRunning
    BY <1>u, <1>1 DEF IInv, SettleInv, Past
  <2>3. TaskInv'
    BY <1>u, <1>h, <2>u, <2>o, <2>1, <2>2 DEF IInv, TaskInv, Stage
  <2>4. FinishedInv' /\ \A a \in Agents : Rests(a)' <=> Rests(a)
    BY <1>u, <2>u, <2>o, <2>1 DEF IInv, FinishedInv, Rests
  <2>5. TypeOK'
    BY <1>u, <2>u, <2>o, <2>1 DEF IInv, TypeOK
  <2>6. CallInv' /\ SpawnInv'
    BY <1>u, <1>1, <2>u, <2>1, <2>4 DEF IInv, CallInv, SpawnInv, Settling
  <2>7. SettleInv'
    BY <1>u, <1>1, <2>u, <2>1 DEF IInv, SettleInv, Settling, Past
  <2>8. WaitInv' /\ ApplyInv'
    BY <1>u, <2>1 DEF IInv, WaitInv, ApplyInv, NoLostWakeup, ApplyTruthful
  <2> QED BY <1>l, <2>3, <2>4, <2>5, <2>6, <2>7, <2>8 DEF IInv
<1>2. CASE call.kind = "resume"
  <2>u. /\ UNCHANGED <<root, co>> /\ st' = [st EXCEPT ![Root] = "none"]
        /\ drive' = "live" /\ call' = Idle
    BY <1>2 DEF Reap, Go
  <2>1. /\ TypeOK' /\ LogInv' /\ TaskInv' /\ FinishedInv'
        /\ st'[Root] = "none" /\ \A a \in Agents : st'[a] = st[a] /\ (Rests(a)' <=> Rests(a))
    BY <1>u, <2>u, IdleType, RootStep, RootTypes, Types
  <2>2. root = "open"
    BY <1>2 DEF IInv, CallInv
  <2>3. CallInv' /\ SpawnInv'
    BY <1>u, <2>u, <2>1, <2>2, IdleType DEF CallInv, SpawnInv, Settling
  <2>4. SettleInv'
    BY <1>u, <2>u, <2>1, IdleType DEF SettleInv, Settling, Past
  <2>5. WaitInv' /\ ApplyInv'
    BY <1>u, <2>1 DEF IInv, WaitInv, ApplyInv, NoLostWakeup, ApplyTruthful
  <2> QED BY <2>1, <2>3, <2>4, <2>5 DEF IInv
<1>3. CASE call.kind \in {"finish", "close"}
  <2>u. /\ Joined(Spawned) /\ st' = [st EXCEPT ![Root] = "none"] /\ call' = Idle
        /\ co' = [co EXCEPT !.handles = {}, !.workspaces = {}]
        /\ IF call.kind = "finish" THEN root' = "finished" /\ drive' = "idle"
                                   ELSE drive' = "down" /\ UNCHANGED root
    BY <1>3 DEF Reap, Go
  <2>o. /\ co' \in CoType /\ co'.handles = {} /\ co'.early = co.early /\ co'.exposable = co.exposable
    BY <2>u, RootTypes, Types DEF CoType
  <2>1. st' \in [Runners -> Stages] /\ st'[Root] = "none" /\ \A a \in Agents : st'[a] = st[a]
    BY <1>u, <2>u, Moves, Distinct DEF IInv
  <2>2. \A a \in Agents : st[a] \in NotRunning
    BY <1>h, <2>u DEF Joined, Spawned
  <2>3. TaskInv'
    BY <1>u, <2>o, <2>1, <2>2 DEF IInv, TaskInv, Stage
  <2>4. \A a \in Agents : Rests(a)'
    BY <2>1, <2>2 DEF Rests
  <2>5. FinishedInv'
    <3>1. call.kind = "finish" => \A a \in Agents : op[a] # "none" => a \in co.exposable
      BY <1>u DEF IInv, SettleInv, Past, Settling
    <3>2. call.kind = "finish" => \A a \in Agents : op[a] # "none" => term[a] # "none"
      BY <3>1 DEF IInv, TaskInv
    <3> QED BY <1>u, <1>3, <2>u, <2>o, <2>1, <2>2, <3>2 DEF IInv, FinishedInv
  <2>6. TypeOK'
    BY <1>u, <2>u, <2>o, <2>1, IdleType DEF IInv, TypeOK
  <2>7. CallInv' /\ SpawnInv'
    BY <1>u, <2>u, <2>1, <2>4, IdleType DEF CallInv, SpawnInv, Settling
  <2>8. SettleInv'
    BY <2>u, <2>1, IdleType DEF SettleInv, Settling, Past
  <2>9. WaitInv' /\ ApplyInv'
    BY <1>u, <2>1 DEF IInv, WaitInv, ApplyInv, NoLostWakeup, ApplyTruthful
  <2> QED BY <1>l, <2>3, <2>5, <2>6, <2>7, <2>8, <2>9 DEF IInv
<1> QED BY <1>k, <1>1, <1>2, <1>3 DEF Settles

-----------------------------------------------------------------------------
(* spawn_agent.                                                            *)

LEMMA SpawnStartInv == ASSUME IInv, NEW b \in Agents, SpawnStart(b) PROVE IInv'
<1> DEFINE c == [Idle EXCEPT !.kind = "spawn", !.cur = b]
           x == IF Capacity THEN "prepare" ELSE "answer"
<1>u. /\ UNCHANGED <<root, op, term, applied, eff, wt, ref, parent, drive, ghost, late, stale, faults, crashes>>
      /\ drive = "live" /\ call.kind = "none" /\ b \notin spent /\ spent' = spent \cup {b}
      /\ intent' = [tool |-> "spawn", agent |-> b]
      /\ st' = [st EXCEPT ![Root] = x] /\ call' = c
      /\ co' = co \/ co' = [co EXCEPT !.reserved = @ \cup {b}]
  BY DEF SpawnStart, Begin, Free, git, Go
<1>c. c \in CallType /\ c.kind = "spawn" /\ c.todo = {} /\ c.cur = b
  BY DEF Idle, CallType
<1>x. x \in Stages /\ x \in {"answer", "prepare"}
  BY DEF Stages
<1>o. /\ co' \in CoType /\ co'.handles = co.handles /\ co'.early = co.early
      /\ co'.exposable = co.exposable
  BY <1>u, RootTypes, Types DEF CoType
<1>i. intent' \in [tool : {"none", "spawn", "wait", "interrupt", "apply"}, agent : Agents \cup {NoAgent}]
  BY <1>u
<1>r. st[Root] = "none" /\ op[b] = "none"
  BY <1>u DEF IInv, CallInv, LogInv
<1> HIDE DEF c, x
<1>1. st' \in [Runners -> Stages] /\ st'[Root] = x /\ \A a \in Agents : st'[a] = st[a]
  BY <1>u, <1>x, Moves, Distinct DEF IInv
<1>2. TaskInv' /\ FinishedInv' /\ \A a \in Agents : Rests(a)' <=> Rests(a)
  BY <1>u, <1>o, <1>r, <1>1, CoKept
<1>3. LogInv'
  BY <1>u DEF IInv, LogInv
<1>4. TypeOK'
  BY <1>u, <1>c, <1>o, <1>i, <1>1 DEF IInv, TypeOK
<1>5. CallInv' /\ SpawnInv'
  BY <1>u, <1>c, <1>x, <1>r, <1>1, <1>2 DEF IInv, CallInv, SpawnInv, Settling
<1>6. SettleInv'
  BY <1>u, <1>c, <1>x, <1>1 DEF SettleInv, Settling, Past
<1>7. WaitInv' /\ ApplyInv'
  BY <1>u, <1>x, <1>1 DEF IInv, WaitInv, ApplyInv, NoLostWakeup, ApplyTruthful
<1> QED BY <1>2, <1>3, <1>4, <1>5, <1>6, <1>7 DEF IInv

LEMMA SpawnPrepareInv == ASSUME IInv, SpawnPrepare PROVE IInv'
<1>u. /\ UNCHANGED <<root, op, term, applied, eff, intent, ref, parent, drive, call, ghost, late, stale,
                     spent, crashes>>
      /\ st[Root] = "prepare" /\ "commit" \in Stages /\ "answer" \in Stages
  BY DEF SpawnPrepare, log, Stages
<1>c. call.cur \in Agents /\ op[call.cur] = "none" /\ call.cur \in spent /\ call.kind = "spawn"
  BY <1>u, RootTypes, Types DEF IInv, SpawnInv, CallInv
<1>1. PICK x \in {"commit", "answer"} : st' = [st EXCEPT ![Root] = x] /\ (x = "commit" => wt' = [wt EXCEPT ![call.cur] = "saved"])
  BY DEF SpawnPrepare, Go
<1>2. st' \in [Runners -> Stages] /\ st'[Root] = x /\ \A a \in Agents : st'[a] = st[a]
  BY <1>u, <1>1, Moves, Distinct DEF IInv
<1>3. /\ wt' \in [Agents -> {"none", "saved", "unsaved", "late"}] /\ (x = "commit" => wt'[call.cur] = "saved")
      /\ \A a \in Agents : wt'[a] = wt[a] \/ (a = call.cur /\ wt'[a] = "saved")
  BY <1>1, <1>c, RootTypes, Types DEF SpawnPrepare
<1>4. /\ co' \in CoType /\ co'.handles = co.handles /\ co'.early = co.early /\ co'.exposable = co.exposable
  BY RootTypes, Types DEF SpawnPrepare, CoType
<1>5. faults' \in 0..MaxFaults
  BY RootTypes, Distinct DEF SpawnPrepare, Fault
<1>6. TaskInv' /\ FinishedInv' /\ \A a \in Agents : Rests(a)' <=> Rests(a)
  BY <1>u, <1>2, <1>4, CoKept
<1>7. LogInv'
  BY <1>u, <1>c, <1>3 DEF IInv, LogInv
<1>8. TypeOK'
  BY <1>u, <1>2, <1>3, <1>4, <1>5 DEF IInv, TypeOK
<1>9. CallInv' /\ SpawnInv'
  BY <1>u, <1>1, <1>c, <1>2, <1>3, <1>6 DEF IInv, CallInv, SpawnInv, Settling
<1>10. SettleInv'
  BY <1>u, <1>1, <1>c, <1>2 DEF IInv, SettleInv, Settling, Past
<1>11. WaitInv' /\ ApplyInv'
  BY <1>u, <1>1, <1>2 DEF IInv, WaitInv, ApplyInv, NoLostWakeup, ApplyTruthful
<1> QED BY <1>6, <1>7, <1>8, <1>9, <1>10, <1>11 DEF IInv

LEMMA SpawnCommitInv == ASSUME IInv, SpawnCommit PROVE IInv'
<1>u. /\ UNCHANGED <<root, term, applied, eff, intent, wt, ref, parent, drive, call, ghost, late, stale,
                     spent, faults, crashes>>
      /\ st[Root] = "commit" /\ "handoff" \in Stages /\ "answer" \in Stages
      /\ co' = [co EXCEPT !.reserved = @ \ {call.cur}]
  BY DEF SpawnCommit, git, count, Stages
<1>c. /\ call.cur \in Agents /\ op[call.cur] = "none" /\ call.cur \in spent /\ call.kind = "spawn"
      /\ wt[call.cur] # "none" /\ term[call.cur] = "none" /\ ref[call.cur] = "none"
      /\ st[call.cur] = "none"
  BY <1>u, RootTypes, Types DEF IInv, SpawnInv, CallInv, LogInv, TaskInv
<1>4. /\ co' \in CoType /\ co'.handles = co.handles /\ co'.early = co.early /\ co'.exposable = co.exposable
  BY <1>u, RootTypes, Types DEF CoType
<1>r. root = "open" /\ drive = "live"
  BY <1>c DEF IInv, CallInv
<1>1. CASE op' = [op EXCEPT ![call.cur] = "open"] /\ st' = [st EXCEPT ![Root] = "handoff"]
  <2>1. st' \in [Runners -> Stages] /\ st'[Root] = "handoff" /\ \A a \in Agents : st'[a] = st[a]
    BY <1>u, <1>1, Moves, Distinct DEF IInv
  <2>2. /\ op' \in [Agents -> {"none", "open", "closed"}] /\ op'[call.cur] = "open"
        /\ \A a \in Agents \ {call.cur} : op'[a] = op[a]
    BY <1>1, <1>c, RootTypes, Types
  <2>3. TypeOK'
    BY <1>u, <1>4, <2>1, <2>2 DEF IInv, TypeOK
  <2>4. LogInv'
    BY <1>u, <1>c, <2>2 DEF IInv, LogInv
  <2>5. TaskInv'
    BY <1>u, <1>c, <1>4, <2>1, <2>2 DEF IInv, TaskInv, Stage
  <2>6. CallInv' /\ SpawnInv' /\ FinishedInv'
    BY <1>u, <1>c, <1>r, <2>1, <2>2 DEF CallInv, SpawnInv, FinishedInv, Settling
  <2>7. SettleInv'
    BY <1>u, <1>c, <2>1, <2>2, RootTypes, Types DEF IInv, SettleInv, Settling, Past
  <2>8. WaitInv' /\ ApplyInv'
    BY <1>u, <2>1 DEF IInv, WaitInv, ApplyInv, NoLostWakeup, ApplyTruthful
  <2> QED BY <2>3, <2>4, <2>5, <2>6, <2>7, <2>8 DEF IInv
<1>2. CASE UNCHANGED op /\ st' = [st EXCEPT ![Root] = "answer"]
  <2>1. st' \in [Runners -> Stages] /\ st'[Root] = "answer" /\ \A a \in Agents : st'[a] = st[a]
    BY <1>u, <1>2, Moves, Distinct DEF IInv
  <2>2. TaskInv' /\ FinishedInv' /\ LogInv'
    BY <1>u, <1>2, <1>4, <2>1, CoKept, LogKept
  <2>3. TypeOK'
    BY <1>u, <1>2, <1>4, <2>1 DEF IInv, TypeOK
  <2>4. CallInv' /\ SpawnInv'
    BY <1>u, <1>c, <1>r, <2>1 DEF CallInv, SpawnInv, Settling
  <2>5. SettleInv'
    BY <1>u, <1>c, <1>2, <2>1 DEF IInv, SettleInv, Settling, Past
  <2>6. WaitInv' /\ ApplyInv'
    BY <1>u, <2>1 DEF IInv, WaitInv, ApplyInv, NoLostWakeup, ApplyTruthful
  <2> QED BY <2>2, <2>3, <2>4, <2>5, <2>6 DEF IInv
<1> QED BY <1>1, <1>2 DEF SpawnCommit, Go

LEMMA SpawnHandoffInv == ASSUME IInv, SpawnHandoff PROVE IInv'
<1>u. /\ UNCHANGED <<root, op, term, applied, eff, intent, wt, ref, parent, drive, call, co, ghost, late,
                     stale, spent, crashes>>
      /\ st[Root] = "handoff" /\ "drive" \in Stages /\ "install" \in Stages /\ "answer" \in Stages
  BY DEF SpawnHandoff, log, git, Stages
<1>c. /\ call.cur \in Agents /\ op[call.cur] # "none" /\ st[call.cur] = "none"
      /\ ref[call.cur] = "none" /\ term[call.cur] = "none" /\ call.kind = "spawn"
  BY <1>u DEF IInv, SpawnInv, CallInv
<1>f. faults' \in 0..MaxFaults
  BY RootTypes, Distinct DEF SpawnHandoff, Fault
<1>r. root = "open" /\ drive = "live"
  BY <1>c DEF IInv, CallInv
<1>l. LogInv'
  BY <1>u, LogKept
<1>1. CASE st' = [st EXCEPT ![call.cur] = "drive", ![Root] = "install"]
  <2>1. /\ st' \in [Runners -> Stages] /\ st'[Root] = "install" /\ st'[call.cur] = "drive"
        /\ \A a \in Agents \ {call.cur} : st'[a] = st[a]
    BY <1>u, <1>1, <1>c, RootTypes, Types, Distinct
  <2>2. TypeOK'
    BY <1>u, <1>f, <2>1 DEF IInv, TypeOK
  <2>3. TaskInv'
    BY <1>u, <1>c, <2>1 DEF IInv, TaskInv, Stage, NotRunning
  <2>4. CallInv' /\ SpawnInv' /\ FinishedInv'
    BY <1>u, <1>c, <1>r, <2>1 DEF CallInv, SpawnInv, FinishedInv, Settling
  <2>5. SettleInv'
    BY <1>u, <1>c, <2>1 DEF IInv, SettleInv, Settling, Past
  <2>6. WaitInv' /\ ApplyInv'
    BY <1>u, <2>1 DEF IInv, WaitInv, ApplyInv, NoLostWakeup, ApplyTruthful
  <2> QED BY <1>l, <2>2, <2>3, <2>4, <2>5, <2>6 DEF IInv
<1>2. CASE st' = [st EXCEPT ![Root] = "answer"]
  <2>1. st' \in [Runners -> Stages] /\ st'[Root] = "answer" /\ \A a \in Agents : st'[a] = st[a]
    BY <1>u, <1>2, Moves, Distinct DEF IInv
  <2>2. TaskInv' /\ FinishedInv'
    BY <1>u, <2>1, RootMoves
  <2>3. TypeOK'
    BY <1>u, <1>f, <2>1 DEF IInv, TypeOK
  <2>4. CallInv' /\ SpawnInv'
    BY <1>u, <1>c, <1>r, <2>1 DEF CallInv, SpawnInv, Settling
  <2>5. SettleInv'
    BY <1>u, <1>c, <2>1 DEF IInv, SettleInv, Settling, Past
  <2>6. WaitInv' /\ ApplyInv'
    BY <1>u, <2>1 DEF IInv, WaitInv, ApplyInv, NoLostWakeup, ApplyTruthful
  <2> QED BY <1>l, <2>2, <2>3, <2>4, <2>5, <2>6 DEF IInv
<1> QED BY <1>1, <1>2 DEF SpawnHandoff, Go

LEMMA SpawnInstallInv == ASSUME IInv, SpawnInstall PROVE IInv'
<1>u. /\ UNCHANGED <<root, op, term, applied, eff, intent, wt, ref, parent, drive, call, ghost, late, stale,
                     spent, faults, crashes>>
      /\ st[Root] = "install" /\ st' = [st EXCEPT ![Root] = "answer"] /\ "answer" \in Stages
      /\ co' = IF call.cur \in co.early THEN [co EXCEPT !.early = @ \ {call.cur}]
               ELSE [co EXCEPT !.handles = @ \cup {call.cur}, !.workspaces = @ \cup {call.cur}]
  BY DEF SpawnInstall, log, git, count, Go, Stages
<1>c. call.cur \in Agents /\ call.kind = "spawn" /\ root = "open" /\ drive = "live"
  BY <1>u DEF IInv, SpawnInv, CallInv
<1>o. /\ co' \in CoType /\ co'.early \subseteq co.early /\ co'.exposable = co.exposable
      /\ co.handles \subseteq co'.handles /\ (call.cur \in co.early \/ call.cur \in co'.handles)
  <2>1. CASE call.cur \in co.early
    BY <1>u, <2>1, RootTypes, Types DEF CoType
  <2>2. CASE call.cur \notin co.early
    <3> DEFINE m == [co EXCEPT !.handles = @ \cup {call.cur}]
    <3>1. /\ m \in CoType /\ m.early = co.early /\ m.exposable = co.exposable
          /\ m.workspaces = co.workspaces /\ m.handles = co.handles \cup {call.cur}
      BY <1>c, RootTypes, Types DEF CoType
    <3>2. co' = [m EXCEPT !.workspaces = @ \cup {call.cur}]
      BY <1>u, <2>2
    <3> HIDE DEF m
    <3>3. /\ co' \in CoType /\ co'.early = m.early /\ co'.exposable = m.exposable
          /\ co'.handles = m.handles
      BY <1>c, <3>1, <3>2, RootTypes, Types DEF CoType
    <3> QED BY <3>1, <3>3
  <2> QED BY <2>1, <2>2
<1>1. st' \in [Runners -> Stages] /\ st'[Root] = "answer" /\ \A a \in Agents : st'[a] = st[a]
  BY <1>u, Moves, Distinct DEF IInv
<1>2. TypeOK'
  BY <1>u, <1>o, <1>1 DEF IInv, TypeOK
<1>3. LogInv'
  BY <1>u, LogKept
<1>4. TaskInv'
  BY <1>u, <1>c, <1>o, <1>1 DEF IInv, TaskInv, Stage, NotRunning
<1>5. CallInv' /\ SpawnInv' /\ FinishedInv'
  BY <1>u, <1>c, <1>1 DEF CallInv, SpawnInv, FinishedInv, Settling
<1>6. SettleInv'
  BY <1>u, <1>c, <1>1 DEF IInv, SettleInv, Settling, Past
<1>7. WaitInv' /\ ApplyInv'
  BY <1>u, <1>1 DEF IInv, WaitInv, ApplyInv, NoLostWakeup, ApplyTruthful
<1> QED BY <1>2, <1>3, <1>4, <1>5, <1>6, <1>7 DEF IInv

-----------------------------------------------------------------------------
(* The child task.                                                         *)

(* A running child moves on: what the root knows of the others and of it   *)
(* stays true.                                                             *)
LEMMA ChildMoves ==
  ASSUME IInv, NEW b \in Agents, st[b] \notin NotRunning,
         NEW y \in Stages, st' = [st EXCEPT ![b] = y],
         UNCHANGED <<root, drive, call, parent, applied, spent>>,
         \A a \in Agents \ {b} : op'[a] = op[a] /\ term'[a] = term[a] /\ ref'[a] = ref[a] /\ wt'[a] = wt[a],
         op'[b] # "none", op[b] = "closed" => op'[b] = "closed",
         term[b] # "none" => term'[b] # "none", ref[b] # "none" => ref'[b] # "none",
         co'.handles = co.handles,
         co'.exposable = co.exposable \/ (co'.exposable = co.exposable \cup {b} /\ y = "notify"),
         stale => stale', st[b] = "notify" => stale'
  PROVE  CallInv' /\ SpawnInv' /\ SettleInv' /\ WaitInv' /\ ApplyInv' /\ FinishedInv'
<1>1. /\ st'[b] = y /\ st'[Root] = st[Root] /\ \A a \in Agents \ {b} : st'[a] = st[a]
  BY Distinct, RootTypes, Types
<1>2. \A a \in Agents : Rests(a) => Rests(a)'
  BY <1>1 DEF Rests
<1>3. CallInv'
  BY <1>1, <1>2 DEF IInv, CallInv
<1>4. op[b] # "none"
  BY DEF IInv, TaskInv, NotRunning
<1>5. SpawnInv'
  <2>1. st[Root] \in {"prepare", "commit", "handoff"} => call.cur \in Agents /\ call.cur # b
    BY <1>4, RootTypes, Types DEF IInv, SpawnInv, NotRunning
  <2> QED BY <1>1, <2>1 DEF IInv, SpawnInv
<1>6. \A a \in Agents : op[a] # "none" <=> op'[a] # "none"
  BY <1>4
<1>7. FinishedInv'
  BY DEF IInv, FinishedInv
<1>8. ApplyInv'
  BY <1>1 DEF IInv, ApplyInv, ApplyTruthful
<1>9. SettleInv'
  <2>1. st[Root] \in Settling => Stage(call.cur, st[Root])'
    <3> SUFFICES ASSUME st[Root] \in Settling PROVE Stage(call.cur, st[Root])'
      OBVIOUS
    <3>1. call.cur \in Agents /\ Stage(call.cur, st[Root])
      BY DEF IInv, SettleInv
    <3>2. /\ op[call.cur] = "closed" => op'[call.cur] = "closed"
          /\ ref[call.cur] # "none" => ref'[call.cur] # "none"
          /\ term[call.cur] # "none" => term'[call.cur] # "none"
          /\ call.cur \in co.exposable => call.cur \in co'.exposable
      BY <3>1
    <3> QED BY <1>1, <3>1, <3>2 DEF Stage
  <2>2. /\ call.kind = "interrupt" /\ st[Root] \in Past => call.cur # b
        /\ st[Root] \in {"finalize", "terminal"} => call.cur \in Agents /\ call.cur # b
    BY DEF IInv, SettleInv, Settling
  <2>3. \A a \in call'.todo : op'[a] # "none"
    BY <1>6, RootTypes, Types DEF IInv, SettleInv
  <2>4. call'.kind = "interrupt" => /\ call'.cur \in Agents /\ call'.todo \subseteq {call'.cur}
                                    /\ op'[call'.cur] # "none"
                                    /\ st'[Root] = "join" => call'.cur \in call'.todo
                                    /\ st'[Root] \in Past => st'[call'.cur] \in NotRunning
    BY <1>1, <1>6, <2>2 DEF IInv, SettleInv
  <2>5. call'.kind \in {"finish", "close"} /\ st'[Root] \in Past => \A a \in Agents : Rests(a)'
    BY <1>1, <1>2 DEF IInv, SettleInv
  <2>6. /\ call'.kind = "finish" /\ st'[Root] \in Past \cup {"join"} =>
             \A a \in Agents : op'[a] # "none" =>
               \/ a \in co'.exposable \/ a \in call'.todo \/ (st'[Root] \in Settling /\ a = call'.cur)
        /\ call'.kind = "close" /\ st'[Root] = "join" =>
             \A a \in Agents : op'[a] # "none" => a \in co'.exposable \/ a \in call'.todo
        /\ call'.kind = "finish" /\ st'[Root] = "reap" => call'.todo = {}
    BY <1>1, <1>6 DEF IInv, SettleInv
  <2>7. /\ st'[Root] \in Settling => call'.cur \in Agents /\ op'[call'.cur] # "none"
        /\ st'[Root] \in {"finalize", "terminal"} => st'[call'.cur] \in NotRunning
    BY <1>1, <1>6, <2>2 DEF IInv, SettleInv
  <2> QED BY <1>1, <2>1, <2>3, <2>4, <2>5, <2>6, <2>7 DEF SettleInv
<1>10. WaitInv'
  <2>1. \A a \in co.exposable : a \in Agents /\ a \in Terminal /\ a \in Terminal'
    BY RootTypes, Types DEF IInv, TaskInv, Terminal
  <2>2. ~stale' /\ ~(\E a \in Agents : st'[a] = "notify") =>
          ~stale /\ ~(\E a \in Agents : st[a] = "notify") /\ co'.exposable = co.exposable
    BY <1>1
  <2>3. NoLostWakeup'
    <3> SUFFICES ASSUME st[Root] = "parked", ~stale, ~(\E a \in Agents : st[a] = "notify"),
                        co'.exposable = co.exposable,
                        Complete(call.todo \cap Terminal \cap co.exposable)'
                 PROVE  FALSE
      BY <1>1, <2>2 DEF NoLostWakeup
    <3>1. (call.todo \cap Terminal \cap co.exposable)' = call.todo \cap Terminal \cap co.exposable
      BY <2>1
    <3>2. Complete(call.todo \cap Terminal \cap co.exposable)
      BY <3>1 DEF Complete
    <3> QED BY <3>2 DEF IInv, WaitInv, NoLostWakeup
  <2>4. st'[Root] = "check" => \A a \in call'.todo \cap co'.exposable :
          a \in call'.snap \/ stale' \/ \E c \in Agents : st'[c] = "notify"
    BY <1>1, <2>2 DEF IInv, WaitInv
  <2> QED BY <2>3, <2>4 DEF WaitInv
<1> QED BY <1>3, <1>5, <1>7, <1>8, <1>9, <1>10

(* Intents and results say nothing about settlement.                       *)
LEMMA IntentsMove ==
  ASSUME IInv, UNCHANGED <<root, op, term, applied, git, local, count>>, eff' \subseteq Agents,
         intent' \in [tool : {"none", "spawn", "wait", "interrupt", "apply"}, agent : Agents \cup {NoAgent}]
  PROVE  IInv'
<1>u. UNCHANGED <<root, op, term, applied, wt, ref, parent, drive, st, call, co, ghost, late, stale,
                  spent, faults, crashes>>
  BY DEF git, local, count
<1>1. TypeOK'
  BY <1>u DEF IInv, TypeOK
<1>2. LogInv' /\ FinishedInv' /\ ApplyInv' /\ SpawnInv'
  BY <1>u DEF IInv, LogInv, FinishedInv, ApplyInv, ApplyTruthful, SpawnInv
<1>3. TaskInv'
  BY <1>u DEF IInv, TaskInv, Stage
<1>4. CallInv'
  BY <1>u DEF IInv, CallInv, Rests
<1>5. SettleInv'
  BY <1>u DEF IInv, SettleInv, Rests, Stage
<1>6. WaitInv'
  BY <1>u DEF IInv, WaitInv, NoLostWakeup, Complete, Terminal
<1> QED BY <1>1, <1>2, <1>3, <1>4, <1>5, <1>6 DEF IInv

LEMMA ChildEffectInv == ASSUME IInv, NEW b \in Agents, ChildEffect(b) PROVE IInv'
  BY IntentsMove, RootTypes, Types DEF ChildEffect

LEMMA ChildResultInv == ASSUME IInv, NEW b \in Agents, ChildResult(b) PROVE IInv'
  BY IntentsMove, RootTypes, Types DEF ChildResult

LEMMA ReconcileInv == ASSUME IInv, Reconcile PROVE IInv'
<1>1. /\ UNCHANGED <<root, op, term, applied, git, local, count>> /\ eff' \subseteq eff
      /\ intent' = NoIntent \/ intent' = intent
  BY DEF Reconcile
<1>2. eff' \subseteq Agents
  BY <1>1, RootTypes, Types
<1> QED BY <1>1, <1>2, IntentsMove, NoIntentType, RootTypes

(* An edit of a worktree: of a driven call, before there is a result ref,  *)
(* or of an abandoned one, at any time.                                    *)
LEMMA WorktreeEdited ==
  ASSUME IInv, NEW b \in Agents, NEW x \in {"unsaved", "late"}, x = "unsaved" => ref[b] = "none",
         wt[b] = "saved", wt' = [wt EXCEPT ![b] = x], UNCHANGED <<log, ref, parent, local, count>>
  PROVE  IInv'
<1>u. UNCHANGED <<root, op, term, applied, eff, intent, ref, parent, drive, st, call, co, ghost, late,
                  stale, spent, faults, crashes>>
  BY DEF log, local, count
<1>1. /\ wt' \in [Agents -> {"none", "saved", "unsaved", "late"}] /\ wt'[b] = x
      /\ \A a \in Agents \ {b} : wt'[a] = wt[a]
  BY RootTypes, Types
<1>2. TypeOK'
  BY <1>u, <1>1 DEF IInv, TypeOK
<1>3. \A a \in Agents : wt'[a] = "none" <=> wt[a] = "none"
  BY <1>1
<1>4. LogInv'
  BY <1>u, <1>1, <1>3 DEF IInv, LogInv
<1>5. SpawnInv'
  <2>1. st[Root] = "commit" => call.cur \in Agents
    BY RootTypes, Types DEF IInv, SpawnInv
  <2> QED BY <1>u, <1>3, <2>1 DEF IInv, SpawnInv
<1>6. FinishedInv' /\ ApplyInv'
  BY <1>u DEF IInv, FinishedInv, ApplyInv, ApplyTruthful
<1>7. TaskInv'
  BY <1>u DEF IInv, TaskInv, Stage
<1>8. CallInv'
  BY <1>u DEF IInv, CallInv, Rests
<1>9. SettleInv'
  BY <1>u DEF IInv, SettleInv, Rests, Stage
<1>10. WaitInv'
  BY <1>u DEF IInv, WaitInv, NoLostWakeup, Complete, Terminal
<1> QED BY <1>2, <1>4, <1>5, <1>6, <1>7, <1>8, <1>9, <1>10 DEF IInv

LEMMA ChildEditInv == ASSUME IInv, NEW b \in Agents, ChildEdit(b) PROVE IInv'
<1>1. ref[b] = "none"
  BY DEF ChildEdit, IInv, TaskInv
<1> QED BY <1>1, WorktreeEdited DEF ChildEdit

LEMMA LateEditInv == ASSUME IInv, NEW b \in Agents, LateEdit(b) PROVE IInv'
  BY WorktreeEdited DEF LateEdit

LEMMA DriveEndsInv == ASSUME IInv, NEW b \in Agents, DriveEnds(b) PROVE IInv'
<1>u. /\ UNCHANGED <<root, term, applied, eff, intent, wt, ref, parent, drive, call, co, ghost,
                     stale, spent, crashes>>
      /\ st[b] = "drive" /\ st' = [st EXCEPT ![b] = "begin"] /\ "begin" \in Stages
      /\ op' = op \/ op' = [op EXCEPT ![b] = "closed"]
      /\ b \in Runners
  BY Distinct DEF DriveEnds, git, Go, Stages, Settling
<1>f. faults' \in 0..MaxFaults
  BY RootTypes, Distinct DEF DriveEnds, Fault
<1>l. late' \subseteq Agents
  BY RootTypes, Types DEF DriveEnds, Abandon
<1>1. /\ st' \in [Runners -> Stages] /\ st'[b] = "begin" /\ st'[Root] = st[Root]
      /\ \A a \in Agents \ {b} : st'[a] = st[a]
  BY <1>u, Moves, Distinct DEF IInv
<1>2. term[b] = "none" /\ op[b] # "none" /\ ghost[b] = "none" /\ st[b] \notin NotRunning
  BY <1>u, RootTypes, Types DEF IInv, TaskInv, NotRunning
<1>3. /\ op' \in [Agents -> {"none", "open", "closed"}] /\ op'[b] # "none"
      /\ op[b] = "closed" => op'[b] = "closed"
      /\ \A a \in Agents \ {b} : op'[a] = op[a]
  BY <1>u, <1>2, RootTypes, Types
<1>4. TypeOK'
  BY <1>u, <1>f, <1>l, <1>1, <1>3 DEF IInv, TypeOK
<1>5. LogInv'
  BY <1>u, <1>2, <1>3 DEF IInv, LogInv
<1>6. TaskInv'
  BY <1>u, <1>1, <1>2, <1>3 DEF IInv, TaskInv, Stage, NotRunning
<1>7. CallInv' /\ SpawnInv' /\ SettleInv' /\ WaitInv' /\ ApplyInv' /\ FinishedInv'
  BY <1>u, <1>2, <1>3, ChildMoves
<1> QED BY <1>4, <1>5, <1>6, <1>7 DEF IInv

LEMMA TaskDropInv == ASSUME IInv, NEW b \in Agents, TaskDrop(b) PROVE IInv'
<1>1. PICK g \in {"none", st[b]} \ {"drive"} : ghost' = [ghost EXCEPT ![b] = g]
  <2>1. CASE st[b] = "drive"
    <3>1. ghost' = ghost /\ ghost[b] = "none"
      BY <2>1 DEF TaskDrop, IInv, TaskInv
    <3> QED BY <3>1, RootTypes, Types
  <2>2. CASE st[b] # "drive"
    BY <2>2 DEF TaskDrop
  <2> QED BY <2>1, <2>2
<1>l. late' \subseteq Agents
  BY RootTypes, Types DEF TaskDrop, Abandon
<1>u. /\ UNCHANGED <<root, op, term, applied, eff, intent, wt, ref, parent, drive, call, co,
                     stale, spent, faults, crashes>>
      /\ st[b] \in {"drive", "finalize", "cleanup"} /\ st' = [st EXCEPT ![b] = "ended"]
      /\ "ended" \in Stages /\ b \in Runners
  BY Distinct DEF TaskDrop, log, git, count, Go, Stages, NotRunning
<1>2. /\ st' \in [Runners -> Stages] /\ st'[b] = "ended" /\ st'[Root] = st[Root]
      /\ \A a \in Agents \ {b} : st'[a] = st[a]
  BY <1>u, Moves, Distinct DEF IInv
<1>3. /\ ghost' \in [Agents -> {"none", "finalize", "cleanup"}] /\ ghost'[b] = g
      /\ \A a \in Agents \ {b} : ghost'[a] = ghost[a]
  BY <1>1, <1>u, RootTypes, Types
<1>4. op[b] # "none" /\ st[b] \notin NotRunning /\ (g = "cleanup" => term[b] # "none")
  BY <1>u DEF IInv, TaskInv, NotRunning, Stage
<1>5. TypeOK'
  BY <1>u, <1>l, <1>2, <1>3 DEF IInv, TypeOK
<1>6. LogInv'
  BY <1>u, LogKept
<1>7. TaskInv'
  BY <1>u, <1>2, <1>3, <1>4 DEF IInv, TaskInv, Stage, NotRunning
<1>8. CallInv' /\ SpawnInv' /\ SettleInv' /\ WaitInv' /\ ApplyInv' /\ FinishedInv'
  BY <1>u, <1>4, ChildMoves
<1> QED BY <1>5, <1>6, <1>7, <1>8 DEF IInv

LEMMA TaskEndInv == ASSUME IInv, NEW b \in Agents, TaskEnd(b) PROVE IInv'
<1>u. /\ UNCHANGED <<root, op, term, applied, eff, intent, wt, ref, parent, drive, call, ghost, late,
                     stale, spent, faults, crashes>>
      /\ st[b] \in {"settled", "failed"} /\ st' = [st EXCEPT ![b] = "ended"]
      /\ "ended" \in Stages /\ b \in Runners
      /\ co' = co \/ co' = [co EXCEPT !.early = @ \cup {b}]
  BY Distinct DEF TaskEnd, log, git, count, Go, Stages, NotRunning
<1>1. /\ st' \in [Runners -> Stages] /\ st'[b] = "ended" /\ st'[Root] = st[Root]
      /\ \A a \in Agents \ {b} : st'[a] = st[a]
  BY <1>u, Moves, Distinct DEF IInv
<1>2. /\ co' \in CoType /\ co'.handles = co.handles /\ co'.exposable = co.exposable
      /\ co'.early \subseteq co.early \cup {b}
  BY <1>u, RootTypes, Types DEF CoType
<1>3. op[b] # "none" /\ st[b] \notin NotRunning
  BY <1>u DEF IInv, TaskInv, NotRunning
<1>4. TypeOK'
  BY <1>u, <1>1, <1>2 DEF IInv, TypeOK
<1>5. LogInv'
  BY <1>u, LogKept
<1>6. TaskInv'
  BY <1>u, <1>1, <1>2, <1>3 DEF IInv, TaskInv, Stage, NotRunning
<1>7. CallInv' /\ SpawnInv' /\ SettleInv' /\ WaitInv' /\ ApplyInv' /\ FinishedInv'
  BY <1>u, <1>2, <1>3, ChildMoves
<1> QED BY <1>4, <1>5, <1>6, <1>7 DEF IInv

-----------------------------------------------------------------------------
(* The Git work of a settlement.                                           *)

LEMMA FinalizeIs ==
  ASSUME IInv, NEW b \in Agents, op[b] # "none", FinalizeGit(b), UNCHANGED <<op, term, spent>>
  PROVE  /\ wt' \in [Agents -> {"none", "saved", "unsaved", "late"}] /\ ref' \in [Agents -> {"none", "same", "changed"}]
         /\ \A a \in Agents \ {b} : wt'[a] = wt[a] /\ ref'[a] = ref[a]
         /\ ref'[b] # "none" /\ (ref[b] # "none" => ref'[b] = ref[b])
         /\ UNCHANGED parent /\ LogInv'
<1>t. /\ wt \in [Agents -> {"none", "saved", "unsaved", "late"}] /\ ref \in [Agents -> {"none", "same", "changed"}]
  BY RootTypes, Types
<1>1. CASE ref[b] # "none"
  <2>1. ref' = ref /\ wt' = wt /\ parent' = parent
    BY <1>1 DEF FinalizeGit
  <2> QED BY <1>t, <1>1, <2>1, LogKept
<1>2. CASE ref[b] = "none"
  <2>1. /\ ref' = [ref EXCEPT ![b] = IF wt[b] = "saved" THEN "same" ELSE "changed"]
        /\ wt' = [wt EXCEPT ![b] = "saved"] /\ parent' = parent
    BY <1>2 DEF FinalizeGit
  <2>2. /\ wt' \in [Agents -> {"none", "saved", "unsaved", "late"}] /\ ref' \in [Agents -> {"none", "same", "changed"}]
        /\ \A a \in Agents \ {b} : wt'[a] = wt[a] /\ ref'[a] = ref[a]
        /\ ref'[b] # "none" /\ wt'[b] = "saved"
    BY <1>t, <2>1
  <2>3. term[b] = "none"
    BY <1>2 DEF IInv, LogInv
  <2>4. LogInv'
    BY <2>2, <2>3 DEF IInv, LogInv
  <2> QED BY <1>2, <2>1, <2>2, <2>4
<1> QED BY <1>1, <1>2

LEMMA CleanupIs ==
  ASSUME IInv, NEW b \in Agents, term[b] # "none", CleanupGit(b), UNCHANGED <<op, term, spent>>
  PROVE  /\ wt' \in [Agents -> {"none", "saved", "unsaved", "late"}] /\ UNCHANGED <<ref, parent>>
         /\ \A a \in Agents \ {b} : wt'[a] = wt[a]
         /\ LogInv'
<1>1. /\ wt' \in [Agents -> {"none", "saved", "unsaved", "late"}] /\ UNCHANGED <<ref, parent>>
      /\ wt'[b] = "none" /\ \A a \in Agents \ {b} : wt'[a] = wt[a]
  BY RootTypes, Types DEF CleanupGit
<1>2. LogInv'
  BY <1>1 DEF IInv, LogInv
<1> QED BY <1>1, <1>2

LEMMA GhostWorkInv == ASSUME IInv, NEW b \in Agents, GhostWork(b) PROVE IInv'
<1>u. /\ UNCHANGED <<root, op, term, applied, eff, intent, drive, st, call, co, late, stale, spent, faults, crashes>>
      /\ ghost[b] # "none" /\ ghost' = [ghost EXCEPT ![b] = "none"]
      /\ (ghost[b] = "finalize" /\ FinalizeGit(b)) \/ (ghost[b] = "cleanup" /\ CleanupGit(b))
  BY DEF GhostWork, log, count
<1>1. st[b] = "ended" /\ op[b] # "none" /\ (ghost[b] = "cleanup" => term[b] # "none")
  BY <1>u DEF IInv, TaskInv
<1>2. /\ wt' \in [Agents -> {"none", "saved", "unsaved", "late"}] /\ ref' \in [Agents -> {"none", "same", "changed"}]
      /\ \A a \in Agents \ {b} : wt'[a] = wt[a] /\ ref'[a] = ref[a]
      /\ (ref[b] # "none" => ref'[b] # "none") /\ parent' = parent /\ LogInv'
  <2>1. CASE FinalizeGit(b)
    BY <1>u, <1>1, <2>1, FinalizeIs
  <2>2. CASE ghost[b] = "cleanup" /\ CleanupGit(b)
    BY <1>u, <1>1, <2>2, CleanupIs, RootTypes, Types
  <2> QED BY <1>u, <2>1, <2>2
<1>3. /\ ghost' \in [Agents -> {"none", "finalize", "cleanup"}] /\ ghost'[b] = "none"
      /\ \A a \in Agents \ {b} : ghost'[a] = ghost[a]
  BY <1>u, RootTypes, Types
<1>4. TypeOK'
  BY <1>u, <1>2, <1>3 DEF IInv, TypeOK
<1>5. TaskInv'
  BY <1>u, <1>1, <1>2, <1>3 DEF IInv, TaskInv, Stage
<1>6. CallInv' /\ FinishedInv' /\ ApplyInv'
  BY <1>u, <1>2 DEF IInv, CallInv, FinishedInv, ApplyInv, ApplyTruthful, Rests
<1>7. SpawnInv'
  <2>1. st[Root] \in {"prepare", "commit", "handoff"} => call.cur \in Agents /\ call.cur # b
    BY <1>1, RootTypes, Types DEF IInv, SpawnInv
  <2> QED BY <1>u, <1>2, <2>1 DEF IInv, SpawnInv
<1>8. SettleInv'
  <2>1. st[Root] \in Settling => Stage(call.cur, st[Root])'
    BY <1>u, <1>2 DEF IInv, SettleInv, Stage
  <2> QED BY <1>u, <2>1 DEF IInv, SettleInv, Rests
<1>9. WaitInv'
  BY <1>u DEF IInv, WaitInv, NoLostWakeup, Complete, Terminal
<1> QED BY <1>2, <1>4, <1>5, <1>6, <1>7, <1>8, <1>9 DEF IInv

-----------------------------------------------------------------------------
(* The pipeline run by the root.                                           *)

(* The root settles a child whose task rests.                              *)
LEMMA RootSettling ==
  ASSUME IInv, st[Root] \in Settling
  PROVE  /\ call.cur \in Agents /\ op[call.cur] # "none" /\ Stage(call.cur, st[Root])
         /\ Rests(call.cur) /\ call.kind \in Settles
<1>1. call.cur \in Agents /\ op[call.cur] # "none" /\ Stage(call.cur, st[Root]) /\ call.kind \in Settles
  BY DEF IInv, SettleInv, CallInv
<1>2. st[Root] \in Past
  BY DEF Past
<1>3. Rests(call.cur)
  BY <1>1, <1>2 DEF IInv, SettleInv, CallInv, Settles, Rests
<1> QED BY <1>1, <1>3

LEMMA RootSettlesOn ==
  ASSUME IInv, st[Root] \in Settling, NEW y \in Settling, st' = [st EXCEPT ![Root] = y],
         UNCHANGED <<root, drive, call, parent, applied, spent, ghost, late>>,
         \A a \in Agents \ {call.cur} : op'[a] = op[a] /\ term'[a] = term[a] /\ ref'[a] = ref[a],
         op'[call.cur] # "none", op[call.cur] = "closed" => op'[call.cur] = "closed",
         term[call.cur] # "none" => term'[call.cur] # "none",
         ref[call.cur] # "none" => ref'[call.cur] # "none",
         UNCHANGED <<term, ref>> \/ st[call.cur] \in NotRunning,
         co'.handles = co.handles, co'.early = co.early,
         co'.exposable = co.exposable \/ co'.exposable = co.exposable \cup {call.cur},
         call.cur \in co'.exposable => term'[call.cur] # "none",
         Stage(call.cur, y)', y \in {"finalize", "terminal"} => st[call.cur] \in NotRunning
  PROVE  TaskInv' /\ CallInv' /\ SpawnInv' /\ SettleInv' /\ WaitInv' /\ ApplyInv' /\ FinishedInv'
<1>1. /\ st'[Root] = y /\ \A a \in Agents : st'[a] = st[a]
  BY Distinct, RootTypes, Types
<1>2. /\ call.cur \in Agents /\ op[call.cur] # "none" /\ Rests(call.cur) /\ call.kind \in Settles
  BY RootSettling
<1>3. \A a \in Agents : Rests(a) => Rests(a)'
  BY <1>1 DEF Rests
<1>4. CallInv'
  BY <1>1, <1>2, <1>3 DEF IInv, CallInv, Settling
<1>5. SpawnInv' /\ ApplyInv'
  BY <1>1 DEF IInv, SpawnInv, ApplyInv, ApplyTruthful, Settling
<1>6. WaitInv'
  BY <1>1 DEF WaitInv, NoLostWakeup, Settling
<1>7. FinishedInv'
  BY <1>1, <1>2 DEF IInv, FinishedInv
<1>8. TaskInv'
  <2> SUFFICES ASSUME NEW a \in Agents
               PROVE  /\ op'[a] = "none" => st'[a] = "none"
                      /\ st'[a] = "drive" => ref'[a] = "none"
                      /\ st'[a] \in {"drive", "begin", "finalize", "terminal"} => term'[a] = "none"
                      /\ Stage(a, st[a])'
                      /\ st'[a] \notin NotRunning => a \in co'.handles \/ (st'[Root] = "install" /\ call'.cur = a)
                      /\ ghost'[a] # "none" => st'[a] = "ended"
                      /\ ghost'[a] = "cleanup" => term'[a] # "none"
                      /\ a \in co'.exposable => term'[a] # "none" /\ st'[a] \in {"none", "ended", "notify", "settled"}
                      /\ a \in co'.early => st'[a] = "ended"
    BY DEF TaskInv
  <2>1. st[Root] # "install"
    BY DEF Settling
  <2>2. CASE a # call.cur
    <3>1. Stage(a, st[a])'
      BY <1>1, <2>2 DEF IInv, TaskInv, Stage
    <3> QED BY <1>1, <2>1, <2>2, <3>1 DEF IInv, TaskInv
  <2>3. CASE a = call.cur
    <3>1. Stage(a, st[a])'
      BY <1>1, <1>2, <2>3 DEF IInv, TaskInv, Stage
    <3>2. a \in co'.exposable => st'[a] \in {"none", "ended", "notify", "settled"}
      BY <1>1, <1>2, <2>3 DEF IInv, TaskInv, Rests, NotRunning
    <3>3. /\ st'[a] = "drive" => ref'[a] = "none"
          /\ st'[a] \in {"drive", "begin", "finalize", "terminal"} => term'[a] = "none"
      BY <1>1, <2>3 DEF IInv, TaskInv, NotRunning
    <3> QED BY <1>1, <1>2, <2>1, <2>3, <3>1, <3>2, <3>3 DEF IInv, TaskInv
  <2> QED BY <2>2, <2>3
<1>9. SettleInv'
  <2>1. \A a \in Agents : op[a] # "none" <=> op'[a] # "none"
    BY <1>2
  <2>2. st[Root] \in Past /\ y \in Past
    BY DEF Past
  <2>3. \A a \in call'.todo : op'[a] # "none"
    BY <2>1, RootTypes, Types DEF IInv, SettleInv
  <2>4. call'.kind = "interrupt" => /\ call'.cur \in Agents /\ call'.todo \subseteq {call'.cur}
                                    /\ op'[call'.cur] # "none"
                                    /\ st'[call'.cur] \in NotRunning
    BY <1>1, <2>1, <2>2 DEF IInv, SettleInv
  <2>5. call'.kind \in {"finish", "close"} => \A a \in Agents : Rests(a)'
    BY <1>3, <2>2 DEF IInv, SettleInv
  <2>6. call'.kind = "finish" =>
          \A a \in Agents : op'[a] # "none" => \/ a \in co'.exposable \/ a \in call'.todo \/ a = call'.cur
    BY <2>1, <2>2 DEF IInv, SettleInv
  <2>7. y \notin {"join", "reap"}
    BY DEF Settling
  <2> QED BY <1>1, <1>2, <2>1, <2>3, <2>4, <2>5, <2>6, <2>7 DEF SettleInv
<1> QED BY <1>4, <1>5, <1>6, <1>7, <1>8, <1>9

-----------------------------------------------------------------------------
(* The pipeline, step by step.                                             *)

LEMMA SettlesOn ==
  ASSUME IInv, NEW s \in Runners, st[s] \in Settling
  PROVE  LET a == Target(s)
         IN  a \in Agents /\ op[a] # "none" /\ Stage(a, st[s])
<1>1. CASE s = Root
  BY <1>1, RootSettling DEF Target
<1>2. CASE s # Root
  <2>1. s \in Agents /\ Target(s) = s
    BY <1>2 DEF Runners, Target
  <2> QED BY <2>1 DEF IInv, TaskInv, Settling
<1> QED BY <1>1, <1>2

LEMMA SettleBeginInv == ASSUME IInv, NEW s \in Runners, SettleBegin(s) PROVE IInv'
<1>u. /\ UNCHANGED <<root, term, applied, eff, intent, wt, ref, parent, drive, call, ghost, late, stale,
                     spent, faults, crashes>>
      /\ st[s] = "begin" /\ st[s] \in Settling
  BY DEF SettleBegin, git, count, Settling
<1> DEFINE a == Target(s)
<1>a. a \in Agents /\ op[a] # "none"
  BY <1>u, SettlesOn
<1>1. CASE s # Root
  <2>1. s \in Agents /\ a = s
    BY <1>1 DEF Runners, Target
  <2>2. term[s] = "none" /\ st[s] \notin NotRunning /\ ghost[s] = "none"
    BY <1>u, <2>1, RootTypes, Types DEF IInv, TaskInv, NotRunning
  <2>3. HasLease(s) /\ s \notin Terminal
    BY <1>1, <2>2 DEF HasLease, Terminal
  <2>4. /\ st' = [st EXCEPT ![s] = "finalize"] /\ op' = [op EXCEPT ![s] = "closed"] /\ co' = co
        /\ "finalize" \in Stages
    BY <2>1, <2>3 DEF SettleBegin, Go, Stages, Settling
  <2>5. /\ st' \in [Runners -> Stages] /\ st'[s] = "finalize" /\ st'[Root] = st[Root]
        /\ \A b \in Agents \ {s} : st'[b] = st[b]
    BY <2>1, <2>4, Moves, Distinct DEF IInv
  <2>6. /\ op' \in [Agents -> {"none", "open", "closed"}] /\ op'[s] = "closed"
        /\ \A b \in Agents \ {s} : op'[b] = op[b]
    BY <2>1, <2>4, RootTypes, Types
  <2>7. TypeOK'
    BY <1>u, <2>4, <2>5, <2>6 DEF IInv, TypeOK
  <2>8. LogInv'
    BY <1>u, <1>a, <2>1, <2>2, <2>6 DEF IInv, LogInv
  <2>9. TaskInv'
    BY <1>u, <2>1, <2>2, <2>4, <2>5, <2>6 DEF IInv, TaskInv, Stage, NotRunning
  <2>10. CallInv' /\ SpawnInv' /\ SettleInv' /\ WaitInv' /\ ApplyInv' /\ FinishedInv'
    <3>1. op'[s] # "none"
      BY <2>6
    <3> QED BY <1>u, <2>1, <2>2, <2>4, <2>6, <3>1, ChildMoves
  <2> QED BY <2>7, <2>8, <2>9, <2>10 DEF IInv
<1>2. CASE s = Root
  <2>1. a = call.cur /\ Rests(a) /\ Root \in Runners
    BY <1>u, <1>2, RootSettling, Distinct DEF Target
  <2>2. CASE a \in Terminal
    <3>1. PICK y \in {"settled", "cleanup", "failed"} : st' = [st EXCEPT ![Root] = y]
      BY <1>2, <2>2 DEF SettleBegin, Go
    <3>2. /\ op' = op /\ (co' = co \/ co' = [co EXCEPT !.exposable = @ \cup {a}])
          /\ co' = co /\ y = "settled" => a \in co.exposable
      <4>y. y = IF call.kind = "resume" THEN "settled"
                ELSE IF HasLease(Root) THEN "cleanup"
                ELSE IF a \in co.exposable THEN "settled" ELSE "failed"
        BY <1>2, <2>2, <3>1, RootTypes, Types, Moves, Distinct DEF SettleBegin, Go
      <4>1. op' = op /\ co' = IF call.kind = "resume" THEN [co EXCEPT !.exposable = @ \cup {a}] ELSE co
        BY <1>2, <2>2 DEF SettleBegin
      <4>2. [co EXCEPT !.exposable = @ \cup {a}].exposable = co.exposable \cup {a}
        BY RootTypes, Types DEF CoType
      <4> QED BY <4>y, <4>1, <4>2
    <3>3. /\ co' \in CoType /\ co'.handles = co.handles /\ co'.early = co.early
          /\ (co'.exposable = co.exposable \/ co'.exposable = co.exposable \cup {a})
          /\ y = "settled" => a \in co'.exposable
      <4>1. CASE co' = co
        BY <3>2, <4>1, RootTypes, Types
      <4>2. CASE co' = [co EXCEPT !.exposable = @ \cup {a}]
        BY <1>a, <4>2, RootTypes, Types DEF CoType
      <4> QED BY <3>2, <4>1, <4>2
    <3>4. y \in Stages /\ y \in Settling
      BY DEF Stages, Settling
    <3>5. TypeOK'
      <4>1. st' \in [Runners -> Stages]
        BY <2>1, <3>1, <3>4, Moves DEF IInv
      <4> QED BY <1>u, <3>2, <3>3, <4>1 DEF IInv, TypeOK
    <3>6. LogInv'
      BY <1>u, <3>2, LogKept
    <3>7. term[a] # "none"
      BY <2>2 DEF Terminal
    <3>8. Stage(call.cur, y)'
      BY <1>u, <2>1, <3>3, <3>7 DEF Stage
    <3>9. TaskInv' /\ CallInv' /\ SpawnInv' /\ SettleInv' /\ WaitInv' /\ ApplyInv' /\ FinishedInv'
      BY <1>u, <1>2, <1>a, <2>1, <3>1, <3>2, <3>3, <3>4, <3>7, <3>8, RootSettlesOn
    <3> QED BY <3>5, <3>6, <3>9 DEF IInv
  <2>3. CASE a \notin Terminal
    <3>1. term[a] = "none" /\ a \notin co.exposable /\ st[a] \in NotRunning
      BY <1>a, <2>1, <2>3 DEF Terminal, IInv, TaskInv, Rests
    <3>2. PICK y \in {"finalize", "failed"} :
            /\ st' = [st EXCEPT ![Root] = y] /\ co' = co
            /\ y = "finalize" => op' = [op EXCEPT ![a] = "closed"]
            /\ y = "failed" => op' = op
      BY <1>2, <2>3 DEF SettleBegin, Go
    <3>3. /\ op' \in [Agents -> {"none", "open", "closed"}] /\ op'[a] # "none"
          /\ y = "finalize" \/ op[a] = "closed" => op'[a] = "closed"
          /\ \A b \in Agents \ {a} : op'[b] = op[b]
      BY <1>a, <3>2, RootTypes, Types
    <3>4. y \in Stages /\ y \in Settling
      BY DEF Stages, Settling
    <3>5. TypeOK'
      <4>1. st' \in [Runners -> Stages]
        BY <2>1, <3>2, <3>4, Moves DEF IInv
      <4> QED BY <1>u, <3>2, <3>3, <4>1 DEF IInv, TypeOK
    <3>6. LogInv'
      BY <1>u, <1>a, <3>1, <3>3 DEF IInv, LogInv
    <3>7. Stage(call.cur, y)'
      BY <1>u, <2>1, <3>3 DEF Stage
    <3>8. TaskInv' /\ CallInv' /\ SpawnInv' /\ SettleInv' /\ WaitInv' /\ ApplyInv' /\ FinishedInv'
      BY <1>u, <1>2, <1>a, <2>1, <3>1, <3>2, <3>3, <3>4, <3>7, RootSettlesOn
    <3> QED BY <3>5, <3>6, <3>8 DEF IInv
  <2> QED BY <2>2, <2>3
<1> QED BY <1>1, <1>2

(* Past its beginning, a step of the pipeline changes what is known of its *)
(* child in the one way its stage allows, whoever runs it.                 *)
LEMMA PipelineMoves ==
  ASSUME IInv, NEW s \in Runners, NEW a \in Agents, a = Target(s),
         st[s] \in {"finalize", "terminal", "cleanup", "expose", "notify"},
         NEW y \in Settling, st' = [st EXCEPT ![s] = y],
         UNCHANGED <<root, op, drive, call, parent, applied, spent, ghost, late>>,
         TypeOK', LogInv',
         \A b \in Agents \ {a} : term'[b] = term[b] /\ ref'[b] = ref[b] /\ wt'[b] = wt[b],
         term[a] # "none" => term'[a] # "none", ref[a] # "none" => ref'[a] # "none",
         UNCHANGED <<term, ref>> \/ st[s] \in {"finalize", "terminal"},
         y = "terminal" => term'[a] = term[a],
         co'.handles = co.handles, co'.early = co.early,
         co'.exposable = co.exposable \/ (co'.exposable = co.exposable \cup {a} /\ y = "notify"),
         st[s] = "notify" => y = "settled", y = "terminal" => st[s] = "finalize",
         y \notin {"begin", "finalize"},
         Stage(a, y)', stale => stale', st[s] = "notify" => stale'
  PROVE  IInv'
<1>1. op[a] # "none" /\ Stage(a, st[s]) /\ st[s] \in Settling
  BY SettlesOn DEF Settling
<1>2. a \in co'.exposable => term'[a] # "none"
  BY <1>1 DEF IInv, TaskInv, Stage
<1>3. CASE s = Root
  <2>1. call.cur = a
    BY <1>3 DEF Target
  <2>2. st[Root] \in {"finalize", "terminal"} => st[call.cur] \in NotRunning
    BY DEF IInv, SettleInv
  <2> QED BY <1>1, <1>2, <1>3, <2>1, <2>2, RootSettlesOn DEF IInv
<1>4. CASE s # Root
  <2>1. a = s /\ y \in Stages
    BY <1>4 DEF Target, Stages
  <2>2. st[s] \notin NotRunning
    BY DEF NotRunning
  <2>3. CallInv' /\ SpawnInv' /\ SettleInv' /\ WaitInv' /\ ApplyInv' /\ FinishedInv'
    BY <1>1, <2>1, <2>2, ChildMoves
  <2>4. /\ st'[s] = y /\ st'[Root] = st[Root] /\ \A b \in Agents \ {s} : st'[b] = st[b]
    BY <1>4, Distinct, RootTypes, Types
  <2>5. TaskInv'
    <3> SUFFICES ASSUME NEW b \in Agents
                 PROVE  /\ op'[b] = "none" => st'[b] = "none"
                        /\ st'[b] = "drive" => ref'[b] = "none"
                        /\ st'[b] \in {"drive", "begin", "finalize", "terminal"} => term'[b] = "none"
                        /\ Stage(b, st[b])'
                        /\ st'[b] \notin NotRunning => b \in co'.handles \/ (st'[Root] = "install" /\ call'.cur = b)
                        /\ ghost'[b] # "none" => st'[b] = "ended"
                        /\ ghost'[b] = "cleanup" => term'[b] # "none"
                        /\ b \in co'.exposable => term'[b] # "none" /\ st'[b] \in {"none", "ended", "notify", "settled"}
                        /\ b \in co'.early => st'[b] = "ended"
      BY DEF TaskInv
    <3>1. CASE b # s
      <4>1. Stage(b, st[b])'
        BY <2>1, <2>4, <3>1 DEF IInv, TaskInv, Stage
      <4> QED BY <2>1, <2>4, <3>1, <4>1 DEF IInv, TaskInv
    <3>2. CASE b = s
      <4>1. Stage(b, st[b])'
        BY <2>1, <2>4, <3>2 DEF Stage
      <4>2. y # "drive" /\ (y \in {"drive", "begin", "finalize", "terminal"} => term'[b] = "none")
        BY <2>1, <3>2 DEF IInv, TaskInv, Settling
      <4>3. b \in co'.exposable => term'[b] # "none" /\ y \in {"notify", "settled"}
        BY <1>2, <2>1, <3>2 DEF IInv, TaskInv
      <4>4. ghost[b] = "none" /\ b \notin co.early
        BY <2>1, <3>2, RootTypes, Types DEF IInv, TaskInv
      <4> QED BY <1>1, <2>1, <2>2, <2>4, <3>2, <4>1, <4>2, <4>3, <4>4 DEF IInv, TaskInv
    <3> QED BY <3>1, <3>2
  <2> QED BY <2>3, <2>5 DEF IInv
<1> QED BY <1>3, <1>4

LEMMA SettleFinalizeInv == ASSUME IInv, NEW s \in Runners, SettleFinalize(s) PROVE IInv'
<1>u. /\ UNCHANGED <<root, op, term, applied, eff, intent, drive, call, co, ghost, late, stale, spent, crashes>>
      /\ st[s] = "finalize" /\ st[s] \in Settling
  BY DEF SettleFinalize, log, Settling
<1>f. faults' \in 0..MaxFaults
  BY RootTypes, Distinct DEF SettleFinalize, Fault
<1>a. PICK a \in Agents : a = Target(s) /\ op[a] # "none" /\ Stage(a, st[s])
  BY <1>u, SettlesOn
<1>1. PICK y \in {"terminal", "failed"} :
        /\ st' = [st EXCEPT ![s] = y]
        /\ (y = "terminal" /\ FinalizeGit(a)) \/ (y = "failed" /\ UNCHANGED <<wt, ref, parent>>)
  BY <1>a DEF SettleFinalize, Go, git
<1>2. y \in Settling /\ y \in Stages
  BY DEF Stages, Settling
<1>3. /\ wt' \in [Agents -> {"none", "saved", "unsaved", "late"}] /\ ref' \in [Agents -> {"none", "same", "changed"}]
      /\ \A b \in Agents \ {a} : wt'[b] = wt[b] /\ ref'[b] = ref[b]
      /\ (y = "terminal" => ref'[a] # "none") /\ (ref[a] # "none" => ref'[a] # "none")
      /\ parent' = parent /\ LogInv'
  <2>1. CASE y = "terminal" /\ FinalizeGit(a)
    BY <1>u, <1>a, <2>1, FinalizeIs
  <2>2. CASE y = "failed" /\ UNCHANGED <<wt, ref, parent>>
    BY <1>u, <2>2, LogKept, RootTypes, Types
  <2> QED BY <1>1, <2>1, <2>2
<1>4. TypeOK'
  <2>1. st' \in [Runners -> Stages]
    BY <1>1, <1>2, Moves DEF IInv
  <2> QED BY <1>u, <1>f, <1>3, <2>1 DEF IInv, TypeOK
<1>5. Stage(a, y)'
  <2>1. op[a] = "closed"
    BY <1>u, <1>a DEF Stage
  <2> QED BY <1>u, <1>3, <2>1 DEF Stage
<1> QED BY <1>u, <1>a, <1>1, <1>2, <1>3, <1>4, <1>5, PipelineMoves

LEMMA SettleTerminalInv == ASSUME IInv, NEW s \in Runners, SettleTerminal(s) PROVE IInv'
<1>u. /\ UNCHANGED <<root, op, applied, eff, intent, wt, ref, parent, drive, call, co, ghost, late, stale,
                     spent, faults, crashes>>
      /\ st[s] = "terminal" /\ st[s] \in Settling /\ st' = [st EXCEPT ![s] = "cleanup"]
      /\ "cleanup" \in Settling /\ "cleanup" \in Stages
  BY DEF SettleTerminal, git, count, Settling, Stages, Go
<1>a. PICK a \in Agents : a = Target(s) /\ op[a] # "none" /\ Stage(a, st[s])
  BY <1>u, SettlesOn
<1>1. op[a] = "closed" /\ ref[a] # "none"
  BY <1>u, <1>a DEF Stage
<1>2. /\ term' \in [Agents -> {"none", "plain", "delta"}] /\ term'[a] # "none"
      /\ \A b \in Agents \ {a} : term'[b] = term[b]
      /\ term'[a] = "delta" <=> ref[a] = "changed"
  <2>1. CASE a \in Terminal
    <3>1. term' = term /\ term[a] # "none"
      BY <1>a, <2>1 DEF SettleTerminal, Terminal
    <3> QED BY <3>1, RootTypes, Types DEF IInv, LogInv
  <2>2. CASE a \notin Terminal
    <3>1. term' = [term EXCEPT ![a] = IF ref[a] = "changed" THEN "delta" ELSE "plain"]
      BY <1>a, <2>2 DEF SettleTerminal
    <3> QED BY <3>1, RootTypes, Types
  <2> QED BY <2>1, <2>2
<1>3. LogInv'
  BY <1>u, <1>1, <1>2 DEF IInv, LogInv
<1>4. TypeOK'
  <2>1. st' \in [Runners -> Stages]
    BY <1>u, Moves DEF IInv
  <2> QED BY <1>u, <1>2, <2>1 DEF IInv, TypeOK
<1>5. Stage(a, "cleanup")'
  BY <1>2 DEF Stage
<1> QED BY <1>u, <1>a, <1>2, <1>3, <1>4, <1>5, PipelineMoves

LEMMA SettleCleanupInv == ASSUME IInv, NEW s \in Runners, SettleCleanup(s) PROVE IInv'
<1>u. /\ UNCHANGED <<root, op, term, applied, eff, intent, drive, call, co, ghost, late, stale, spent, crashes>>
      /\ st[s] = "cleanup" /\ st[s] \in Settling
  BY DEF SettleCleanup, log, Settling
<1>f. faults' \in 0..MaxFaults
  BY RootTypes, Distinct DEF SettleCleanup, Fault
<1>a. PICK a \in Agents : a = Target(s) /\ op[a] # "none" /\ Stage(a, st[s])
  BY <1>u, SettlesOn
<1>1. PICK y \in {"expose", "failed"} :
        /\ st' = [st EXCEPT ![s] = y]
        /\ CleanupGit(a) \/ UNCHANGED <<wt, ref, parent>>
  BY <1>a DEF SettleCleanup, Go, git
<1>2. y \in Settling /\ y \in Stages
  BY DEF Stages, Settling
<1>t. term[a] # "none"
  BY <1>u, <1>a DEF Stage
<1>3. /\ wt' \in [Agents -> {"none", "saved", "unsaved", "late"}] /\ UNCHANGED <<ref, parent>>
      /\ \A b \in Agents \ {a} : wt'[b] = wt[b]
      /\ LogInv'
  <2>1. CASE CleanupGit(a)
    BY <1>u, <1>t, <2>1, CleanupIs
  <2>2. CASE UNCHANGED <<wt, ref, parent>>
    BY <1>u, <2>2, LogKept, RootTypes, Types
  <2> QED BY <1>1, <2>1, <2>2
<1>4. TypeOK'
  <2>1. st' \in [Runners -> Stages]
    BY <1>1, <1>2, Moves DEF IInv
  <2> QED BY <1>u, <1>f, <1>3, <2>1 DEF IInv, TypeOK
<1>5. Stage(a, y)'
  BY <1>u, <1>t DEF Stage
<1> QED BY <1>u, <1>a, <1>1, <1>2, <1>3, <1>4, <1>5, PipelineMoves

LEMMA SettleExposeInv == ASSUME IInv, NEW s \in Runners, SettleExpose(s) PROVE IInv'
<1>u. /\ UNCHANGED <<root, op, term, applied, eff, intent, wt, ref, parent, drive, call, ghost, late, stale,
                     spent, faults, crashes>>
      /\ st[s] = "expose" /\ st[s] \in Settling /\ st' = [st EXCEPT ![s] = "notify"]
      /\ "notify" \in Settling /\ "notify" \in Stages
  BY DEF SettleExpose, log, git, count, Settling, Stages, Go
<1>a. PICK a \in Agents : a = Target(s) /\ op[a] # "none" /\ Stage(a, st[s])
  BY <1>u, SettlesOn
<1>1. term[a] # "none"
  BY <1>u, <1>a DEF Stage
<1>2. /\ co' \in CoType /\ co'.handles = co.handles /\ co'.early = co.early
      /\ co'.exposable = co.exposable \cup {a}
  BY <1>a, RootTypes, Types DEF SettleExpose, CoType
<1>3. LogInv'
  BY <1>u, LogKept
<1>4. TypeOK'
  <2>1. st' \in [Runners -> Stages]
    BY <1>u, Moves DEF IInv
  <2> QED BY <1>u, <1>2, <2>1 DEF IInv, TypeOK
<1>5. Stage(a, "notify")'
  BY <1>u, <1>1, <1>2 DEF Stage
<1> QED BY <1>u, <1>a, <1>2, <1>3, <1>4, <1>5, PipelineMoves

LEMMA SettleNotifyInv == ASSUME IInv, NEW s \in Runners, SettleNotify(s) PROVE IInv'
<1>u. /\ UNCHANGED <<root, op, term, applied, eff, intent, wt, ref, parent, drive, call, co, ghost, late,
                     spent, faults, crashes>>
      /\ st[s] = "notify" /\ st[s] \in Settling /\ st' = [st EXCEPT ![s] = "settled"]
      /\ "settled" \in Settling /\ "settled" \in Stages /\ stale' = TRUE
  BY DEF SettleNotify, log, git, count, Settling, Stages, Go
<1>a. PICK a \in Agents : a = Target(s) /\ op[a] # "none" /\ Stage(a, st[s])
  BY <1>u, SettlesOn
<1>3. LogInv'
  BY <1>u, LogKept
<1>4. TypeOK'
  <2>1. st' \in [Runners -> Stages]
    BY <1>u, Moves DEF IInv
  <2> QED BY <1>u, <2>1 DEF IInv, TypeOK
<1>5. Stage(a, "settled")'
  BY <1>u, <1>a DEF Stage
<1> QED BY <1>u, <1>a, <1>3, <1>4, <1>5, PipelineMoves

LEMMA SettleStepInv == ASSUME IInv, NEW s \in Runners, Settle(s) PROVE IInv'
  BY SettleBeginInv, SettleFinalizeInv, SettleTerminalInv, SettleCleanupInv, SettleExposeInv,
     SettleNotifyInv DEF Settle

-----------------------------------------------------------------------------
(* Crash and reopen.                                                       *)

LEMMA InitInv == ASSUME Init PROVE IInv
<1>1. TypeOK
  <2>1. call \in CallType /\ co \in CoType
    BY IdleType DEF Init, NoCo, CoType
  <2>2. st \in [Runners -> Stages]
    BY DEF Init, Stages, NotRunning
  <2>3. faults \in 0..MaxFaults /\ crashes \in 0..MaxCrashes
    BY Distinct DEF Init
  <2> QED BY <2>1, <2>2, <2>3, NoIntentType DEF Init, TypeOK
<1>2. st[Root] = "none" /\ \A a \in Agents : st[a] = "none"
  BY Distinct DEF Init
<1>3. call.kind = "none" /\ call.todo = {} /\ drive = "live" /\ root = "open"
  BY IdleType DEF Init
<1>4. co.exposable = {} /\ co.early = {} /\ co.handles = {}
  BY DEF Init, NoCo
<1>5. LogInv /\ FinishedInv /\ SpawnInv
  BY <1>2, <1>3 DEF Init, LogInv, FinishedInv, SpawnInv
<1>6. TaskInv
  BY <1>2, <1>4 DEF Init, TaskInv, Stage, NotRunning
<1>7. CallInv
  BY <1>2, <1>3 DEF CallInv, Settling
<1>8. SettleInv
  BY <1>2, <1>3 DEF SettleInv, Past, Settling
<1>9. WaitInv /\ ApplyInv
  BY <1>2 DEF Init, WaitInv, ApplyInv, NoLostWakeup, ApplyTruthful
<1> QED BY <1>1, <1>5, <1>6, <1>7, <1>8, <1>9 DEF IInv

(* A process that has just stopped or just come up has no task and no call. *)
LEMMA AtRest ==
  ASSUME IInv, UNCHANGED <<root, op, term, applied, eff, intent, wt, ref, spent, faults>>,
         crashes' \in 0..MaxCrashes, st' = [s \in Runners |-> "none"],
         ghost' = [a \in Agents |-> "none"], stale' = FALSE, late' \subseteq Agents,
         drive' \in {"idle", "down"}, call' \in CallType, call'.kind = "none",
         \A a \in call'.todo : op[a] # "none",
         co' \in CoType, co'.handles = {}, co'.early = {}, co'.exposable \subseteq Terminal,
         parent' \in [Agents -> {"base", "patched", "mixed", "twice"}], ApplyTruthful'
  PROVE  IInv'
<1>1. st' \in [Runners -> Stages] /\ st'[Root] = "none" /\ \A a \in Agents : st'[a] = "none"
  BY Distinct DEF Stages, NotRunning
<1>2. TypeOK'
  <2>1. ghost' \in [Agents -> {"none", "finalize", "cleanup"}]
    OBVIOUS
  <2> QED BY <1>1, <2>1 DEF IInv, TypeOK
<1>3. LogInv'
  BY LogKept
<1>4. \A a \in Agents : Rests(a)'
  BY <1>1 DEF Rests, NotRunning
<1>5. TaskInv'
  BY <1>1 DEF TaskInv, Stage, NotRunning, Terminal
<1>6. CallInv'
  BY <1>1, <1>4 DEF CallInv, Settling
<1>7. SettleInv'
  BY <1>1 DEF SettleInv, Past, Settling
<1>8. SpawnInv' /\ WaitInv' /\ ApplyInv'
  BY <1>1 DEF SpawnInv, WaitInv, NoLostWakeup, ApplyInv
<1>9. FinishedInv'
  BY <1>1 DEF IInv, FinishedInv, NotRunning
<1> QED BY <1>2, <1>3, <1>5, <1>6, <1>7, <1>8, <1>9 DEF IInv

LEMMA CrashInv == ASSUME IInv, Crash PROVE IInv'
<1>u. /\ UNCHANGED <<root, op, term, applied, eff, intent, wt, ref, spent, faults>>
      /\ st' = [s \in Runners |-> "none"] /\ ghost' = [a \in Agents |-> "none"] /\ stale' = FALSE
      /\ drive' = "down" /\ call' = Idle /\ co' = NoCo
  BY DEF Crash, log
<1>c. crashes' \in 0..MaxCrashes
  BY RootTypes, Distinct DEF Crash
<1>l. late' \subseteq Agents
  BY RootTypes, Types DEF Crash
<1>1. PICK now \in [Agents -> {"base", "patched", "mixed"}] :
        /\ \A a \in Agents :
             now[a] # parent[a] => st[Root] = "patch" /\ call.cur = a /\ parent[a] = "base"
        /\ parent' = now
  BY DEF Crash
<1>2. parent' \in [Agents -> {"base", "patched", "mixed", "twice"}]
  BY <1>1
<1>3. ApplyTruthful'
  BY <1>u, <1>1 DEF IInv, ApplyInv, ApplyTruthful
<1>4. /\ co' \in CoType /\ co'.handles = {} /\ co'.early = {} /\ co'.exposable \subseteq Terminal
  BY <1>u DEF NoCo, CoType
<1> QED BY <1>u, <1>c, <1>l, <1>2, <1>3, <1>4, IdleType, AtRest

LEMMA ReopenInv == ASSUME IInv, Reopen PROVE IInv'
<1>u. /\ UNCHANGED <<root, op, term, applied, eff, intent, wt, ref, parent, call, late, spent, faults, crashes>>
      /\ st' = [s \in Runners |-> "none"] /\ ghost' = [a \in Agents |-> "none"] /\ stale' = FALSE
      /\ drive = "down" /\ drive' = "idle" /\ co' = [NoCo EXCEPT !.exposable = Terminal]
  BY DEF Reopen, log, git, count
<1>1. call.kind = "none"
  BY <1>u, RootTypes, Types DEF IInv, CallInv
<1>2. \A a \in call.todo : op[a] # "none"
  BY DEF IInv, SettleInv
<1>3. ApplyTruthful'
  BY <1>u DEF IInv, ApplyInv, ApplyTruthful
<1>4. /\ co' \in CoType /\ co'.handles = {} /\ co'.early = {} /\ co'.exposable \subseteq Terminal
  BY <1>u DEF NoCo, CoType, Terminal
<1> QED BY <1>u, <1>1, <1>2, <1>3, <1>4, RootTypes, Types, AtRest

-----------------------------------------------------------------------------
(* The theorems.                                                           *)

LEMMA ChildInv == ASSUME IInv, NEW a \in Agents, Child(a) PROVE IInv'
  BY ChildEffectInv, ChildEditInv, ChildResultInv, LateEditInv, DriveEndsInv, TaskDropInv, TaskEndInv,
     SettleStepInv, GhostWorkInv, Distinct DEF Child

LEMMA StartInv == ASSUME IInv, Start PROVE IInv'
  BY SpawnStartInv, InterruptStartInv, ApplyStartInv, WaitStartInv, FinishStartInv, CloseStartInv,
     ResumeStartInv DEF Start

LEMMA CallStepInv == ASSUME IInv, Spawn \/ Wait \/ Settlement \/ Apply PROVE IInv'
<1>1. CASE Spawn
  BY <1>1, SpawnPrepareInv, SpawnCommitInv, SpawnHandoffInv, SpawnInstallInv, AnswerInv DEF Spawn
<1>2. CASE Wait
  BY <1>2, WaitReadInv, WaitSnapshotInv, WaitCheckInv, WaitWakeInv DEF Wait
<1>3. CASE Settlement
  BY <1>3, JoinAllInv, NextChildInv, SettleStepInv, ChildSettledInv, SettleFailedInv, ReapInv, Distinct
  DEF Settlement
<1>4. CASE Apply
  BY <1>4, ApplyPatchInv, ApplyFactInv DEF Apply
<1> QED BY <1>1, <1>2, <1>3, <1>4

LEMMA StepInv == ASSUME IInv, [Next]_vars PROVE IInv'
<1>1. CASE Next
  BY <1>1, StartInv, CallStepInv, ChildInv, CrashInv, ReopenInv, ReconcileInv DEF Next
<1>2. CASE UNCHANGED vars
  <2>1. UNCHANGED <<root, op, term, applied, git, local, count>> /\ eff' = eff /\ intent' = intent
    BY <1>2 DEF vars, log
  <2> QED BY <2>1, IntentsMove, RootTypes, Types
<1> QED BY <1>1, <1>2

(* The inductive invariant of child assignments holds in every state that  *)
(* the root's calls, the child tasks and crashes reach in any order, for   *)
(* every number of children and every limit.                               *)
THEOREM SettlementInvariant == Spec => []IInv
<1>1. Init => IInv
  BY InitInv
<1>2. IInv /\ [Next]_vars => IInv'
  BY StepInv
<1> QED BY <1>1, <1>2, PTL DEF Spec

(* Every variable of the module keeps its type.                            *)
THEOREM SubagentTypeCorrect == Spec => []TypeOK
<1>1. IInv => TypeOK
  BY DEF IInv
<1> QED BY <1>1, SettlementInvariant, PTL

(* What a child edits while it is driven survives: settle_subagent_task,   *)
(* run by the child or by the root and crashed anywhere, removes a         *)
(* worktree only behind the durable terminal fact, which carries the delta *)
(* the result ref holds, and no write of a tool call that outlives its     *)
(* drive takes an earlier edit out of that ref.                            *)
THEOREM ChildEditsKept == Spec => []EditsKept
<1>1. IInv => EditsKept
  BY DEF IInv, LogInv, EditsKept, Spawned, Terminal
<1> QED BY <1>1, SettlementInvariant, PTL

(* drive_epoch finishes a root operation only when every child is terminal *)
(* and no task or handle of one is left; what wait_agent may show of a     *)
(* child is durable.                                                       *)
THEOREM RootFinishesLast == Spec => []RootSettles
<1>1. IInv => RootSettles
  <2> SUFFICES ASSUME IInv PROVE RootSettles
    OBVIOUS
  <2>1. co.exposable \subseteq Terminal
    BY RootTypes, Types DEF IInv, TaskInv, Terminal
  <2>2. Terminal \subseteq {a \in Agents : op[a] = "closed"}
    BY DEF IInv, LogInv, Terminal
  <2>3. root = "finished" => Spawned = Terminal
    BY <2>2 DEF IInv, FinishedInv, Spawned, Terminal
  <2> QED BY <2>1, <2>2, <2>3 DEF IInv, FinishedInv, RootSettles
<1> QED BY <1>1, SettlementInvariant, PTL

(* wait_agent misses no completion: between the generation it read and the *)
(* moment it parks, a child that became visible has moved the generation   *)
(* or is about to.                                                         *)
THEOREM WakeupsKept == Spec => []NoLostWakeup
<1>1. IInv => NoLostWakeup
  BY DEF IInv, WaitInv
<1> QED BY <1>1, SettlementInvariant, PTL

(* apply_agent_changes records only patches that are in the root worktree, *)
(* and applies none twice, whatever crashed between the patch and the fact. *)
THEOREM AppliesTrue == Spec => []ApplyTruthful
<1>1. IInv => ApplyTruthful
  BY DEF IInv, ApplyInv
<1> QED BY <1>1, SettlementInvariant, PTL
=============================================================================
