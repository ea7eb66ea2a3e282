---------------------------- MODULE CommandRunner ----------------------------
(***************************************************************************)
(* One shell command of the process capability (tea-core                   *)
(* coding/host/process.rs): the runner that polls it, the process group it *)
(* was given, cancellation, timeout and cleanup.                           *)
(*                                                                         *)
(* The operating system is external: the shell may start background        *)
(* processes, which stay in its group or leave it, and the number of a     *)
(* group may be given away once its leader is reaped and nobody is left    *)
(* in it.  A dead leader counts as a member until it is reaped.            *)
(***************************************************************************)
EXTENDS Naturals, FiniteSets

CONSTANTS
  Background,     \* processes the shell may leave behind
  NumbersReused   \* BOOLEAN: the number of an empty group may be given away

ASSUME CommandAssumption == IsFiniteSet(Background) /\ NumbersReused \in BOOLEAN

VARIABLES
  shell,      \* "none", "running", "dead", "reaped"
  group,      \* background processes alive in the command's group
  foreign,    \* the group's number belongs to somebody else's group
  hit,        \* ... and the runner killed that one
  runner,     \* pc, what it will claim when the group is gone, what it found wrong
  ask,        \* what the runner may observe: cancel, late
  captures,   \* the capture files are the runner's to remove
  result      \* what the caller gets
cmdVars == <<shell, group, foreign, hit, runner, ask, captures, result>>

Claims == {"exited", "cancelled", "timedOut"}
Results == {"none", "error", "indeterminate"} \cup Claims

RunnerType ==
  [pc : {"start", "look", "checks", "gone", "signal", "wait", "output", "done"},
   claim : Results, path : {"settle", "terminate"}]

CmdTypeOK ==
  /\ shell \in {"none", "running", "dead", "reaped"} /\ group \subseteq Background
  /\ foreign \in BOOLEAN /\ hit \in BOOLEAN /\ captures \in BOOLEAN
  /\ runner \in RunnerType
  /\ ask \in [cancel : BOOLEAN, late : BOOLEAN]
  /\ result \in Results

-----------------------------------------------------------------------------
(* The operating system.                                                   *)
osVars == <<shell, group, foreign>>

\* kill -0 of the group's number succeeds.
NumberInUse == shell \in {"running", "dead"} \/ group # {} \/ foreign

\* The shell, or a process it started, starts another one.
Forks(p) == (shell = "running" \/ group # {}) /\ p \notin group /\ group' = group \cup {p} /\ UNCHANGED <<shell, foreign>>
ShellEnds == shell = "running" /\ shell' = "dead" /\ UNCHANGED <<group, foreign>>

\* A background process ends, or makes a group of its own.
Departs(p) == p \in group /\ group' = group \ {p} /\ UNCHANGED <<shell, foreign>>

NumberGivenAway ==
  NumbersReused /\ shell = "reaped" /\ ~NumberInUse /\ foreign' = TRUE /\ UNCHANGED <<shell, group>>

SystemStep ==
  /\ ShellEnds \/ NumberGivenAway \/ \E p \in Background : Forks(p) \/ Departs(p)
  /\ UNCHANGED <<hit, runner, ask, captures, result>>

Ask(what) ==
  /\ ~ask[what] /\ ask' = [ask EXCEPT ![what] = TRUE]
  /\ what = "late" => runner.pc \notin {"start", "done"}
  /\ UNCHANGED <<osVars, hit, runner, captures, result>>

-----------------------------------------------------------------------------
(* The runner.                                                             *)
Goto(pc) == runner' = [runner EXCEPT !.pc = pc]
Cleanup(path, claim) == runner' = [pc |-> "gone", claim |-> claim, path |-> path]
Report(claim) == runner' = [runner EXCEPT !.pc = "output", !.claim = claim]
Reap == shell' = IF shell = "dead" THEN "reaped" ELSE shell

\* Before the process boundary: a cancellation seen in time, capture files or a
\* shell that cannot be made.
RefuseStart ==
  /\ runner.pc = "start"
  /\ result' = "error" /\ Goto("done")
  /\ UNCHANGED <<osVars, hit, ask, captures>>

Spawn ==
  /\ runner.pc = "start"   \* a cancellation may follow the look at it
  /\ shell' = "running" /\ captures' = TRUE /\ Goto("look")
  /\ UNCHANGED <<group, foreign, hit, ask, result>>

\* try_wait: the status wins over everything that is asked later.
Look ==
  /\ runner.pc = "look"
  /\ \/ shell = "dead" /\ Reap /\ Cleanup("settle", "exited")
     \/ shell # "dead" /\ Goto("checks") /\ UNCHANGED shell
     \/ Cleanup("terminate", "indeterminate") /\ UNCHANGED shell
  /\ UNCHANGED <<group, foreign, hit, ask, captures, result>>

\* Cancellation, timeout, output updates, sleep.
Checks ==
  /\ runner.pc = "checks"
  /\ \/ ask.cancel /\ Cleanup("terminate", "cancelled")
     \/ ~ask.cancel /\ ask.late /\ Cleanup("terminate", "timedOut")
     \/ ~ask.cancel /\ ~ask.late /\ (Goto("look") \/ Cleanup("terminate", "indeterminate"))
  /\ UNCHANGED <<osVars, hit, ask, captures, result>>

\* settle_remaining_scope and terminate_owned_scope, in which the group is asked
\* for, and a form that trusts the shell's exit.
CheckGoneTrusting ==
  /\ runner.pc = "gone"
  /\ IF runner.path = "settle" THEN Report(runner.claim) ELSE Goto("signal")
  /\ UNCHANGED <<osVars, hit, ask, captures, result>>

CheckGone ==
  /\ runner.pc = "gone"
  /\ \/ NumberInUse /\ Goto("signal")
     \/ ~NumberInUse /\ (IF runner.path = "settle" THEN Report(runner.claim) ELSE Goto("wait"))
     \/ Report("indeterminate")
  /\ UNCHANGED <<osVars, hit, ask, captures, result>>

\* kill -KILL of the group's number.
Signal ==
  /\ runner.pc = "signal"
  /\ \/ /\ group' = {} /\ shell' = IF shell = "running" THEN "dead" ELSE shell
        /\ hit' = (hit \/ foreign) /\ Goto("wait")
     \/ Report("indeterminate") /\ UNCHANGED <<group, shell, hit>>
  /\ UNCHANGED <<foreign, ask, captures, result>>

\* One turn of wait_for_process_group_settlement: reap, ask, give up.
WaitGone ==
  /\ runner.pc = "wait"
  /\ Reap /\ UNCHANGED <<group, foreign>>
  /\ \/ shell' = "reaped" /\ ~NumberInUse' /\ Report(runner.claim)
     \/ (shell' # "reaped" \/ NumberInUse') /\ UNCHANGED runner
     \/ Report("indeterminate")   \* the time for it is over, or reaping or asking fails
  /\ UNCHANGED <<hit, ask, captures, result>>

\* into_output reads the captures and drops them: their removal is tried once,
\* and an error of it is ignored (process.rs:391).
Output ==
  /\ runner.pc = "output"
  /\ result' \in {runner.claim, "indeterminate"} /\ captures' = FALSE /\ Goto("done")
  /\ UNCHANGED <<osVars, hit, ask>>

CmdInit ==
  /\ shell = "none" /\ group = {} /\ foreign = FALSE /\ hit = FALSE
  /\ runner = [pc |-> "start", claim |-> "none", path |-> "terminate"]
  /\ ask = [cancel |-> FALSE, late |-> FALSE]
  /\ captures = FALSE /\ result = "none"

CmdNext ==
  \/ SystemStep \/ \E what \in {"cancel", "late"} : Ask(what)
  \/ RefuseStart \/ Spawn \/ Look \/ Checks \/ CheckGone \/ Signal \/ WaitGone \/ Output

CmdSpec == CmdInit /\ [][CmdNext]_cmdVars

-----------------------------------------------------------------------------
\* A command reported as exited, cancelled or timed out has stopped: its shell is
\* reaped and nothing that stayed in its group is alive, so that no trailing
\* statement or background process acts after the report; an error result means
\* that nothing was started at all, and no result leaves capture files whose
\* removal was not tried (process.rs:188, 79, 391).
ClaimedStopped ==
  /\ result \in Claims => shell = "reaped" /\ group = {}
  /\ result = "error" => shell = "none"
  /\ result # "none" => ~captures

\* The runner kills nothing but what its own command started (process.rs:157,
\* "That group is this invocation's only kill target").
OwnGroupOnly == ~hit
==============================================================================
