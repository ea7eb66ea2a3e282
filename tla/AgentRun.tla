------------------------------ MODULE AgentRun ------------------------------
(***************************************************************************)
(* One `Agent` shared by callers on several threads, and the runs it       *)
(* hands out.  The agent's phase, its active-run slot, each run's state    *)
(* and the two input queues have locks of their own, so a call is a        *)
(* sequence of steps with other threads in between: one step for each      *)
(* critical section.  The caller drives a returned handle to its end, or   *)
(* drops it undriven.                                                      *)
(***************************************************************************)
EXTENDS Naturals, Sequences, FiniteSets

CONSTANTS
  Callers,        \* threads that call the agent
  MaxRuns,        \* bound on next_run_id
  MaxQueued       \* bound on messages enqueued

ASSUME AgentRunAssumption == MaxRuns \in Nat /\ MaxQueued \in Nat

RunIds == 1..MaxRuns

VARIABLES
  phase,    \* AgentState::phase: [is, run]
  slot,     \* the active run, or 0
  runIds,   \* next_run_id
  runAt,    \* RunState::phase of each run
  cancels,  \* runs whose cancellation token is set
  steer,    \* SteeringQueue
  follow,   \* FollowUpQueue
  queued,   \* messages enqueued so far
  history,  \* queued messages in the transcript, in order
  dropped,  \* queued messages given up by a reset, a clear or an abort
  tail,     \* last message of the transcript: "none" | "user" | "assistant"
  drives,   \* where the drive of each run is, and the messages it drained
  calls,    \* where each caller is
  waiter    \* a wait_for_idle: [at, woken]

agentState == <<phase, slot, runIds, runAt, cancels>>
inputs == <<steer, follow, queued, history, dropped, tail>>
agentVars == <<agentState, inputs, drives, calls, waiter>>

-----------------------------------------------------------------------------
NoCall == [op |-> "none", at |-> "none", run |-> 0, held |-> <<>>]
IdleAfter(run) == [is |-> "Idle", run |-> run]
RunSettled(r) == runAt[r] \in {"Succeeded", "Failed", "Cancelled"}

AgentInit ==
  /\ phase = IdleAfter(0) /\ slot = 0 /\ runIds = 0 /\ cancels = {}
  /\ runAt = [r \in RunIds |-> "none"]
  /\ steer = <<>> /\ follow = <<>> /\ queued = 0 /\ history = <<>>
  /\ dropped = {} /\ tail = "none"
  /\ drives = [r \in RunIds |-> [at |-> "none", held |-> <<>>]]
  /\ calls = [c \in Callers |-> NoCall]
  /\ waiter = [at |-> "out", woken |-> FALSE]

Elements(s) == {s[i] : i \in 1..Len(s)}
At(c, op, at) == calls[c].op = op /\ calls[c].at = at
Step(c, at) == calls' = [calls EXCEPT ![c].at = at]
Return(c) == calls' = [calls EXCEPT ![c] = NoCall]
DriveAt(r, at) == drives' = [drives EXCEPT ![r].at = at]

\* IdleNotifier::notify wakes whoever registered.
Notify == waiter' = IF waiter.at = "out" THEN waiter ELSE [waiter EXCEPT !.woken = TRUE]

\* MessageQueue::drain in either QueueMode: one message or all of them.
Drained(q, n) == SubSeq(q, 1, n)
Remaining(q, n) == SubSeq(q, n + 1, Len(q))
DrainSizes(q) == IF q = <<>> THEN {0} ELSE {1, Len(q)}

-----------------------------------------------------------------------------
\* start_prompt, start_internal and start_continue.
StartPrompt(c) ==
  /\ calls[c] = NoCall
  /\ calls' = [calls EXCEPT ![c] = [NoCall EXCEPT !.op = "start", !.at = "claim"]]
  /\ UNCHANGED <<agentState, inputs, drives, waiter>>

ContinueCheck(c) ==
  /\ calls[c] = NoCall
  /\ phase.is = "Idle" /\ tail # "none"
  /\ calls' = [calls EXCEPT ![c] = [NoCall EXCEPT !.op = "start",
                  !.at = IF tail = "assistant" THEN "drain" ELSE "claim"]]
  /\ UNCHANGED <<agentState, inputs, drives, waiter>>

ContinueDrain(c) ==
  /\ At(c, "start", "drain")
  /\ LET q == IF steer # <<>> THEN steer ELSE follow
     IN \E n \in DrainSizes(q) :
          /\ IF steer # <<>>
               THEN steer' = Remaining(q, n) /\ UNCHANGED follow
               ELSE follow' = Remaining(q, n) /\ UNCHANGED steer
          /\ IF n = 0 THEN Return(c)
             ELSE calls' = [calls EXCEPT ![c].at = "claim", ![c].held = Drained(q, n)]
  /\ UNCHANGED <<agentState, queued, history, dropped, tail, drives, waiter>>

\* start_run: the phase decides under the state lock.  A prompt adds a user
\* message; start_internal and a continuation of a user turn add nothing.
StartClaim(c) ==
  /\ At(c, "start", "claim") /\ phase.is = "Idle" /\ runIds < MaxRuns
  /\ runIds' = runIds + 1
  /\ phase' = [is |-> "Running", run |-> runIds + 1]
  /\ history' = history \o calls[c].held
  /\ tail' \in IF calls[c].held = <<>> THEN {"user", tail} ELSE {"user"}
  /\ calls' = [calls EXCEPT ![c].at = "install", ![c].run = runIds + 1, ![c].held = <<>>]
  /\ UNCHANGED <<slot, runAt, cancels, steer, follow, queued, dropped, drives, waiter>>

StartBusy(c) ==
  /\ At(c, "start", "claim") /\ phase.is # "Idle"
  /\ Return(c)
  /\ UNCHANGED <<agentState, inputs, drives, waiter>>

StartInstall(c) ==
  /\ At(c, "start", "install")
  /\ slot' = calls[c].run
  /\ runAt' = [runAt EXCEPT ![calls[c].run] = "Created"]
  /\ drives' = [drives EXCEPT ![calls[c].run].at = "new"]
  /\ Return(c)
  /\ UNCHANGED <<phase, runIds, cancels, inputs, waiter>>

-----------------------------------------------------------------------------
EnqueueInput(q) ==
  /\ queued < MaxQueued /\ queued' = queued + 1
  /\ \/ q = "steer" /\ steer' = Append(steer, queued + 1) /\ UNCHANGED follow
     \/ q = "follow" /\ follow' = Append(follow, queued + 1) /\ UNCHANGED steer
  /\ UNCHANGED <<agentState, history, dropped, tail, drives, calls, waiter>>

\* reset, while idle: the transcript, and then the queues.
Reset(c) ==
  /\ calls[c] = NoCall /\ phase.is = "Idle" /\ tail # "none"
  /\ history' = <<>> /\ tail' = "none" /\ dropped' = dropped \cup Elements(history)
  /\ calls' = [calls EXCEPT ![c] = [NoCall EXCEPT !.op = "clear", !.at = "queues"]]
  /\ UNCHANGED <<agentState, steer, follow, queued, drives, waiter>>

\* clear_all_queues, on its own or as the end of reset and of Agent::abort.
ClearQueues(c) ==
  /\ calls[c].at = "queues"
  /\ steer' = <<>> /\ follow' = <<>>
  /\ dropped' = dropped \cup Elements(steer) \cup Elements(follow)
  /\ IF calls[c].op = "abort-created" THEN Step(c, "slot") ELSE Return(c)
  /\ UNCHANGED <<agentState, queued, history, tail, drives, waiter>>

-----------------------------------------------------------------------------
\* Agent::abort: the slot, the run, the agent, the queues, the slot again.
AbortStart(c) ==
  /\ calls[c] = NoCall /\ slot # 0
  /\ calls' = [calls EXCEPT ![c] = [NoCall EXCEPT !.op = "abort", !.at = "run", !.run = slot]]
  /\ UNCHANGED <<agentState, inputs, drives, waiter>>

AbortRun(c) ==
  /\ At(c, "abort", "run")
  /\ LET r == calls[c].run
         created == runAt[r] = "Created"
     IN /\ cancels' = cancels \cup {r}
        /\ runAt' = IF created THEN [runAt EXCEPT ![r] = "Cancelled"] ELSE runAt
        /\ calls' = [calls EXCEPT ![c].op = IF created THEN "abort-created" ELSE "abort",
                                  ![c].at = "agent"]
  /\ UNCHANGED <<phase, slot, runIds, inputs, drives, waiter>>

AbortAgentIdle(c) ==
  /\ calls[c].op \in {"abort", "abort-created"} /\ calls[c].at = "agent"
  /\ phase' = IdleAfter(phase.run)
  /\ Step(c, "queues")
  /\ UNCHANGED <<slot, runIds, runAt, cancels, inputs, drives, waiter>>
AbortAgent(c) ==
  /\ calls[c].op \in {"abort", "abort-created"} /\ calls[c].at = "agent"
  /\ phase' = IF calls[c].op = "abort-created" THEN IdleAfter(phase.run)
              ELSE IF phase.is = "Idle" THEN phase
              ELSE [is |-> "Cancelling", run |-> calls[c].run]
  /\ Step(c, "queues")
  /\ UNCHANGED <<slot, runIds, runAt, cancels, inputs, drives, waiter>>

AbortSlot(c) ==
  /\ At(c, "abort-created", "slot")
  /\ slot' = IF slot = calls[c].run THEN 0 ELSE slot
  /\ Notify /\ Return(c)
  /\ UNCHANGED <<phase, runIds, runAt, cancels, inputs, drives>>

\* RunHandle::abort, which dropping an unsettled handle also calls.
HandleAbort(c, r) ==
  /\ calls[c] = NoCall /\ runAt[r] # "none"
  /\ cancels' = cancels \cup {r}
  /\ IF RunSettled(r) THEN UNCHANGED <<runAt, calls>>
     ELSE LET created == runAt[r] = "Created"
          IN /\ runAt' = IF created THEN [runAt EXCEPT ![r] = "Cancelled"] ELSE runAt
             /\ calls' = [calls EXCEPT ![c] = [NoCall EXCEPT !.at = "agent", !.run = r,
                            !.op = IF created THEN "settle" ELSE "cancel"]]
  /\ UNCHANGED <<phase, slot, runIds, inputs, drives, waiter>>

HandleCancel(c) ==
  /\ At(c, "cancel", "agent")
  /\ phase' = [is |-> "Cancelling", run |-> calls[c].run]
  /\ Return(c)
  /\ UNCHANGED <<slot, runIds, runAt, cancels, inputs, drives, waiter>>

\* settle_agent: idle and out of the slot under the state lock, then notify.
SettleAgent == phase' = IdleAfter(phase.run) /\ slot' = 0

HandleSettle(c) ==
  /\ At(c, "settle", "agent")
  /\ SettleAgent /\ Step(c, "notify")
  /\ UNCHANGED <<runIds, runAt, cancels, inputs, drives, waiter>>

HandleNotify(c) ==
  /\ At(c, "settle", "notify")
  /\ Notify /\ Return(c)
  /\ UNCHANGED <<agentState, inputs, drives>>

-----------------------------------------------------------------------------
\* RunHandle::drive.  start_turn refuses a run that is not Created.
DriveBegin(r) ==
  /\ drives[r].at = "new"
  /\ IF runAt[r] = "Created"
       THEN runAt' = [runAt EXCEPT ![r] = "Running"] /\ DriveAt(r, "check")
       ELSE DriveAt(r, "over") /\ UNCHANGED runAt
  /\ UNCHANGED <<phase, slot, runIds, cancels, inputs, calls, waiter>>

\* drive_inner checks that the agent's phase names this run.
DriveCheck(r) ==
  /\ drives[r].at = "check"
  /\ DriveAt(r, IF phase.is # "Idle" /\ phase.run = r THEN "initial" ELSE "fail")
  /\ UNCHANGED <<agentState, inputs, calls, waiter>>

\* The initial drain of steering, which start_internal and a continuation
\* with drained messages skip.
DriveInitial(r) ==
  /\ drives[r].at = "initial"
  /\ \/ DriveAt(r, "turn") /\ UNCHANGED steer
     \/ \E n \in DrainSizes(steer) :
          /\ steer' = Remaining(steer, n)
          /\ drives' = [drives EXCEPT ![r] = [at |-> "inject", held |-> Drained(steer, n)]]
  /\ UNCHANGED <<agentState, follow, queued, history, dropped, tail, calls, waiter>>

\* inject_queued_messages, and the next model request.
DriveInject(r) ==
  /\ drives[r].at = "inject"
  /\ history' = history \o drives[r].held
  /\ tail' = IF drives[r].held = <<>> THEN tail ELSE "user"
  /\ drives' = [drives EXCEPT ![r] = [at |-> "turn", held |-> <<>>]]
  /\ UNCHANGED <<agentState, steer, follow, queued, dropped, calls, waiter>>

\* A model turn ends with a complete response, with or without tool calls to
\* continue from, with an error, or with the cancellation.
DriveTurn(r) ==
  /\ drives[r].at = "turn"
  /\ tail' = "assistant"
  /\ \/ DriveAt(r, "after") \/ DriveAt(r, "after-tools") \/ DriveAt(r, "fail")
     \/ r \in cancels /\ DriveAt(r, "cancel")
  /\ UNCHANGED <<agentState, steer, follow, queued, history, dropped, calls, waiter>>

\* advance_after_assistant_turn: the hooks may stop or fail the run; steering
\* first, follow-up only when the run would otherwise become idle.
DriveAfter(r) ==
  /\ drives[r].at \in {"after", "after-tools"}
  /\ \/ (DriveAt(r, "succeed") \/ DriveAt(r, "fail")) /\ UNCHANGED <<steer, follow>>
     \/ \E n \in DrainSizes(steer) :
          /\ steer' = Remaining(steer, n) /\ UNCHANGED follow
          /\ drives' = [drives EXCEPT ![r] =
               [held |-> Drained(steer, n),
                at |-> IF n > 0 \/ drives[r].at = "after-tools" THEN "inject" ELSE "follow"]]
  /\ UNCHANGED <<agentState, queued, history, dropped, tail, calls, waiter>>

DriveFollowUp(r) ==
  /\ drives[r].at = "follow"
  /\ \E n \in DrainSizes(follow) :
       /\ follow' = Remaining(follow, n)
       /\ drives' = [drives EXCEPT ![r] =
            [held |-> Drained(follow, n), at |-> IF n > 0 THEN "inject" ELSE "succeed"]]
  /\ UNCHANGED <<agentState, steer, queued, history, dropped, tail, calls, waiter>>

\* An error of a cancelled run settles it as cancelled, unless the model
\* itself reported the error.
Outcomes(r) ==
  CASE drives[r].at = "succeed" -> {"Succeeded"}
    [] drives[r].at = "cancel" -> {"Cancelled"}
    [] drives[r].at = "fail" -> {"Failed"} \cup (IF r \in cancels THEN {"Cancelled"} ELSE {})

\* settle_failure and settle_cancellation append an assistant message; finish
\* is the run's outcome, then settle_agent, then the notification.
DriveFinish(r) ==
  /\ drives[r].at \in {"succeed", "fail", "cancel"}
  /\ IF RunSettled(r) THEN DriveAt(r, "over") /\ UNCHANGED runAt
     ELSE /\ \E outcome \in Outcomes(r) : runAt' = [runAt EXCEPT ![r] = outcome]
          /\ DriveAt(r, "settle")
  /\ tail' = IF drives[r].at = "succeed" THEN tail ELSE "assistant"
  /\ UNCHANGED <<phase, slot, runIds, cancels, steer, follow, queued, history, dropped,
                 calls, waiter>>

DriveSettle(r) ==
  /\ drives[r].at = "settle"
  /\ SettleAgent /\ DriveAt(r, "notify")
  /\ UNCHANGED <<runIds, runAt, cancels, inputs, calls, waiter>>

DriveNotify(r) ==
  /\ drives[r].at = "notify"
  /\ Notify /\ DriveAt(r, "over")
  /\ UNCHANGED <<agentState, inputs, calls>>

-----------------------------------------------------------------------------
\* wait_for_idle: look, register, look again, wait.
WaitLook ==
  /\ waiter.at = "out" /\ phase.is # "Idle"
  /\ waiter' = [at |-> "looked", woken |-> FALSE]
  /\ UNCHANGED <<agentState, inputs, drives, calls>>

WaitRegister ==
  /\ waiter.at = "looked"
  /\ waiter' = [at |-> "registered", woken |-> FALSE]
  /\ UNCHANGED <<agentState, inputs, drives, calls>>

WaitAgainBlind ==
  /\ waiter.at = "registered"
  /\ waiter' = [waiter EXCEPT !.at = "pending"]
  /\ UNCHANGED <<agentState, inputs, drives, calls>>
WaitAgain ==
  /\ waiter.at = "registered"
  /\ waiter' = IF phase.is = "Idle" THEN [at |-> "out", woken |-> FALSE]
               ELSE [waiter EXCEPT !.at = "pending"]
  /\ UNCHANGED <<agentState, inputs, drives, calls>>

WaitPoll ==
  /\ waiter.at = "pending" /\ waiter.woken
  /\ waiter' = IF phase.is = "Idle" THEN [at |-> "out", woken |-> FALSE]
               ELSE [at |-> "looked", woken |-> FALSE]
  /\ UNCHANGED <<agentState, inputs, drives, calls>>

Drive(r) ==
  \/ DriveBegin(r) \/ DriveCheck(r) \/ DriveInitial(r) \/ DriveInject(r)
  \/ DriveTurn(r) \/ DriveAfter(r) \/ DriveFollowUp(r)
  \/ DriveFinish(r) \/ DriveSettle(r) \/ DriveNotify(r)

AgentNext ==
  \/ \E c \in Callers :
       \/ StartPrompt(c) \/ ContinueCheck(c) \/ ContinueDrain(c)
       \/ StartClaim(c) \/ StartBusy(c) \/ StartInstall(c)
       \/ Reset(c) \/ ClearQueues(c)
       \/ AbortStart(c) \/ AbortRun(c) \/ AbortAgent(c) \/ AbortSlot(c)
       \/ HandleCancel(c) \/ HandleSettle(c) \/ HandleNotify(c)
       \/ \E r \in RunIds : HandleAbort(c, r)
  \/ \E q \in {"steer", "follow"} : EnqueueInput(q)
  \/ \E r \in RunIds : Drive(r)
  \/ WaitLook \/ WaitRegister \/ WaitAgain \/ WaitPoll

AgentSpec == AgentInit /\ [][AgentNext]_agentVars

-----------------------------------------------------------------------------
RunPhases == {"none", "Created", "Running", "Succeeded", "Failed", "Cancelled"}
CallType ==
  [op : {"none", "start", "clear", "abort", "abort-created", "settle", "cancel"},
   at : {"none", "claim", "drain", "install", "queues", "run", "agent", "slot", "notify"},
   run : 0..MaxRuns, held : Seq(Nat)]
DriveType ==
  [at : {"none", "new", "check", "initial", "inject", "turn", "after", "after-tools", "follow",
         "succeed", "fail", "cancel", "settle", "notify", "over"},
   held : Seq(Nat)]

WaiterType == [at : {"out", "looked", "registered", "pending"}, woken : BOOLEAN]

AgentTypeOK ==
  /\ phase \in [is : {"Idle", "Running", "Cancelling"}, run : 0..MaxRuns]
  /\ slot \in 0..MaxRuns /\ runIds \in 0..MaxRuns /\ cancels \subseteq RunIds
  /\ runAt \in [RunIds -> RunPhases]
  /\ steer \in Seq(Nat) /\ follow \in Seq(Nat) /\ history \in Seq(Nat)
  /\ queued \in 0..MaxQueued /\ dropped \subseteq Nat
  /\ tail \in {"none", "user", "assistant"}
  /\ drives \in [RunIds -> DriveType] /\ calls \in [Callers -> CallType]
  /\ waiter \in WaiterType

\* A call that owes the agent the installation or the settlement of its run.
Holds(c) ==
  At(c, "start", "install") \/ At(c, "settle", "agent") \/ At(c, "abort-created", "agent")

\* A run owns the agent from its claim until its settlement reaches the agent.
Owns(r) ==
  \/ runAt[r] \in {"Created", "Running"}
  \/ drives[r].at = "settle"
  \/ \E c \in Callers : calls[c].run = r /\ Holds(c)

\* No two runs ever own the agent, and an owned agent is not idle (so no start
\* succeeds and no reset empties the transcript under the run), whatever
\* aborts, drops, starts and drives race.
OneOwner ==
  \A r \in RunIds : Owns(r) =>
    /\ phase.is # "Idle"
    /\ \A s \in RunIds : Owns(s) => r = s

\* A waiter that is pending while the agent is idle has been woken, or the
\* settlement that made it idle has its notification still to send.
IdleWakesWaiter ==
  waiter.at = "pending" /\ phase.is = "Idle" =>
    \/ waiter.woken
    \/ \E r \in RunIds : drives[r].at = "notify"
    \/ \E c \in Callers : At(c, "settle", "notify") \/ calls[c].op = "abort-created"

\* What the comment on `wait_for_idle` promises: once the active run has
\* settled and no call is in progress, the agent is idle.
SettledIsIdle ==
  /\ \A c \in Callers : calls[c] = NoCall
  /\ \A r \in RunIds : drives[r].at \in {"none", "over"}
  => phase.is = "Idle"

\* What the comment on `Agent::abort` promises (`active run`): a run that
\* nobody asked to cancel is not turned away from its agent.
UnrelatedRunProceeds ==
  \A r \in RunIds : drives[r].at = "check" /\ r \notin cancels
    => phase = [is |-> "Running", run |-> r]

\* What "queue steering input for the next eligible drain" promises: a message
\* is queued, held by a call or drive in progress, in the transcript, or given
\* up by a reset, a clear or an abort.
InputKept ==
  1..queued \subseteq
    Elements(steer) \cup Elements(follow) \cup Elements(history) \cup dropped
      \cup UNION {Elements(calls[c].held) : c \in Callers}
      \cup UNION {Elements(drives[r].held) : r \in RunIds}
=============================================================================
