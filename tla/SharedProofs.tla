---------------------------- MODULE SharedProofs ----------------------------
(***************************************************************************)
(* Proofs about what threads and processes share: an agent among any       *)
(* number of callers, runs and messages (AgentRun), a batch of any number  *)
(* of tool calls with their callbacks (ToolBatch), and a rotating          *)
(* credential among any processes and threads (CredentialRefresh).         *)
(***************************************************************************)
EXTENDS AgentRun, CredentialRefresh, ToolBatch, FiniteSetTheorems, SequenceTheorems, TLAPS

-----------------------------------------------------------------------------
(* The inductive invariant of one owner.                                   *)

Working == {"check", "initial", "inject", "turn", "after", "after-tools", "follow",
            "succeed", "fail", "cancel"}

(* Runs are claimed in order, and what a call or the slot names was        *)
(* claimed.                                                                *)
ClaimInv ==
  /\ slot <= runIds
  /\ \A r \in RunIds : r > runIds => runAt[r] = "none"
  /\ \A c \in Callers : calls[c].run <= runIds
  /\ \A c \in Callers : At(c, "abort", "run") \/ Holds(c) => calls[c].run # 0

(* Exactly one party has the duty to settle a run: its drive while it is   *)
(* running and after it finished it, or the one caller that cancelled it   *)
(* before its drive began; the caller that claimed it installs it first.   *)
DutyInv ==
  /\ \A r \in RunIds :
       /\ drives[r].at \in Working => runAt[r] = "Running"
       /\ drives[r].at = "settle" => RunSettled(r)
  /\ \A c \in Callers : Holds(c) =>
       /\ runAt[calls[c].run] = IF At(c, "start", "install") THEN "none" ELSE "Cancelled"
       /\ drives[calls[c].run].at # "settle"
       /\ \A d \in Callers : Holds(d) /\ calls[d].run = calls[c].run => c = d

AgentInv == AgentTypeOK /\ ClaimInv /\ DutyInv /\ OneOwner
-----------------------------------------------------------------------------
(* What a drain takes and leaves are queues of messages.                   *)
LEMMA DrainTyped ==
  ASSUME NEW q \in Seq(Nat), NEW n \in DrainSizes(q)
  PROVE  Drained(q, n) \in Seq(Nat) /\ Remaining(q, n) \in Seq(Nat)
<1>1. Len(q) \in Nat /\ \A i \in 1..Len(q) : q[i] \in Nat
  OBVIOUS
<1>2. n \in 0..Len(q)
  <2>1. CASE q = <<>>
    BY <2>1, <1>1 DEF DrainSizes
  <2>2. CASE q # <<>>
    <3>1. Len(q) > 0
      BY <2>2, <1>1, EmptySeq
    <3> QED BY <3>1, <2>2, <1>1 DEF DrainSizes
  <2> QED BY <2>1, <2>2
<1>3. \A i \in 1..n : q[i] \in Nat
  BY <1>1, <1>2
<1>4. \A i \in n + 1..Len(q) : q[i] \in Nat
  BY <1>1, <1>2
<1>5. SubSeq(q, 1, n) \in Seq(Nat)
  BY <1>1, <1>2, <1>3, SubSeqProperties, SMT
<1>6. SubSeq(q, n + 1, Len(q)) \in Seq(Nat)
  BY <1>1, <1>2, <1>4, SubSeqProperties, SMT
<1> QED BY <1>5, <1>6 DEF Drained, Remaining

LEMMA ElementsTyped == ASSUME NEW q \in Seq(Nat) PROVE Elements(q) \subseteq Nat
BY DEF Elements

(* Notify leaves a waiter record.                                          *)
LEMMA NotifyTyped == AgentTypeOK /\ Notify =>
  waiter' \in WaiterType
BY DEF AgentTypeOK, Notify, WaiterType

(* A field of a call or of a drive is set to one of its values.            *)
DriveStages == {"none", "new", "check", "initial", "inject", "turn", "after", "after-tools",
  "follow", "succeed", "fail", "cancel", "settle", "notify", "over"}

LEMMA DriveAtTyped ==
  ASSUME AgentTypeOK, NEW r \in RunIds, NEW at \in DriveStages, DriveAt(r, at)
  PROVE  drives' \in [RunIds -> DriveType]
BY DEF AgentTypeOK, DriveAt, DriveType, DriveStages

LEMMA StepTyped ==
  ASSUME AgentTypeOK, NEW c \in Callers, NEW at \in {"queues", "notify"}, Step(c, at)
  PROVE  calls' \in [Callers -> CallType]
<1>1. [calls[c] EXCEPT !.at = at] \in CallType
  BY DEF AgentTypeOK, CallType
<1>2. calls' = [calls EXCEPT ![c] = [calls[c] EXCEPT !.at = at]]
  BY DEF AgentTypeOK, Step, CallType
<1> QED BY <1>1, <1>2 DEF AgentTypeOK

LEMMA CallTyped ==
  ASSUME AgentTypeOK, NEW c \in Callers, NEW x \in CallType, calls' = [calls EXCEPT ![c] = x]
  PROVE  calls' \in [Callers -> CallType]
BY DEF AgentTypeOK

(* Every step of a call has its kind of record.                            *)
LEMMA CallerTyped ==
  ASSUME AgentTypeOK, NEW c \in Callers,
         \/ StartPrompt(c) \/ ContinueCheck(c) \/ ContinueDrain(c)
         \/ StartClaim(c) \/ StartBusy(c) \/ StartInstall(c)
         \/ Reset(c) \/ ClearQueues(c)
         \/ AbortStart(c) \/ AbortRun(c) \/ AbortAgent(c) \/ AbortSlot(c)
         \/ HandleCancel(c) \/ HandleSettle(c) \/ HandleNotify(c)
         \/ \E r \in RunIds : HandleAbort(c, r),
         At(c, "abort", "run") \/ Holds(c) => calls[c].run # 0
  PROVE  AgentTypeOK'
<1> USE AgentRunAssumption
<1>t. calls[c] \in CallType /\ calls[c].run \in 0..MaxRuns /\ calls[c].held \in Seq(Nat)
  BY DEF AgentTypeOK, CallType
<1>n. NoCall \in CallType
  BY DEF NoCall, CallType
<1>1. CASE StartPrompt(c)
  <2>1. calls' \in [Callers -> CallType]
    BY <1>1 DEF AgentTypeOK, StartPrompt, NoCall, CallType
  <2> QED BY <1>1, <2>1 DEF AgentTypeOK, StartPrompt, agentState, inputs
<1>2. CASE ContinueCheck(c)
  <2>1. calls' \in [Callers -> CallType]
    <3> DEFINE x == [NoCall EXCEPT !.op = "start",
                       !.at = IF tail = "assistant" THEN "drain" ELSE "claim"]
    <3>1. x \in CallType
      BY <1>n DEF CallType
    <3>2. calls' = [calls EXCEPT ![c] = x]
      BY <1>2 DEF ContinueCheck
    <3> QED BY <3>1, <3>2, CallTyped
  <2> QED BY <1>2, <2>1 DEF AgentTypeOK, ContinueCheck, agentState, inputs
<1>3. CASE ContinueDrain(c)
  <2> DEFINE q == IF steer # <<>> THEN steer ELSE follow
  <2>0. q \in Seq(Nat)
    BY DEF AgentTypeOK
  <2>1. PICK n \in DrainSizes(q) :
          /\ IF steer # <<>>
               THEN steer' = Remaining(q, n) /\ UNCHANGED follow
               ELSE follow' = Remaining(q, n) /\ UNCHANGED steer
          /\ IF n = 0 THEN Return(c)
             ELSE calls' = [calls EXCEPT ![c].at = "claim", ![c].held = Drained(q, n)]
    BY <1>3 DEF ContinueDrain
  <2>2. Drained(q, n) \in Seq(Nat) /\ Remaining(q, n) \in Seq(Nat)
    BY <2>0, DrainTyped
  <2>3. steer' \in Seq(Nat) /\ follow' \in Seq(Nat)
    BY <2>1, <2>2 DEF AgentTypeOK
  <2> HIDE DEF q
  <2>4. calls' \in [Callers -> CallType]
    <3>1. CASE n = 0
      BY <3>1, <2>1, <1>n DEF AgentTypeOK, Return
    <3>2. CASE n # 0
      <4> DEFINE x == [calls[c] EXCEPT !.at = "claim", !.held = Drained(q, n)]
      <4>1. x \in CallType
        BY <1>t, <2>2 DEF CallType
      <4>2. calls' = [calls EXCEPT ![c] = x]
        BY <3>2, <2>1
      <4> QED BY <4>1, <4>2, CallTyped
    <3> QED BY <3>1, <3>2
  <2> QED BY <1>3, <2>3, <2>4 DEF AgentTypeOK, ContinueDrain, agentState
<1>4. CASE StartClaim(c)
  <2>1. runIds' \in 0..MaxRuns /\ runIds + 1 \in 0..MaxRuns
    BY <1>4 DEF AgentTypeOK, StartClaim
  <2>2. calls' \in [Callers -> CallType]
    <3>1. <<>> \in Seq(Nat)
      OBVIOUS
    <3> DEFINE x == [calls[c] EXCEPT !.at = "install", !.run = runIds + 1, !.held = <<>>]
    <3>2. x \in CallType
      BY <3>1, <2>1, <1>t DEF CallType
    <3>3. calls' = [calls EXCEPT ![c] = x]
      BY <1>4 DEF StartClaim
    <3> QED BY <3>2, <3>3, CallTyped
  <2>3. history' \in Seq(Nat)
    BY <1>4, <1>t DEF AgentTypeOK, StartClaim
  <2>4. phase' \in [is : {"Idle", "Running", "Cancelling"}, run : 0..MaxRuns]
    BY <1>4, <2>1 DEF StartClaim
  <2>5. tail' \in {"none", "user", "assistant"}
    BY <1>4 DEF AgentTypeOK, StartClaim
  <2> QED BY <1>4, <2>1, <2>2, <2>3, <2>4, <2>5 DEF AgentTypeOK, StartClaim
<1>5. CASE StartBusy(c)
  <2>1. calls' \in [Callers -> CallType]
    BY <1>5, <1>n DEF AgentTypeOK, StartBusy, Return
  <2> QED BY <1>5, <2>1 DEF AgentTypeOK, StartBusy, agentState, inputs
<1>6. CASE StartInstall(c)
  <2>1. calls' \in [Callers -> CallType]
    BY <1>6, <1>n DEF AgentTypeOK, StartInstall, Return
  <2>2. runAt' \in [RunIds -> RunPhases] /\ drives' \in [RunIds -> DriveType]
    BY <1>6 DEF AgentTypeOK, StartInstall, RunPhases, DriveType
  <2> QED BY <1>6, <1>t, <2>1, <2>2 DEF AgentTypeOK, StartInstall, inputs
<1>7. CASE Reset(c)
  <2>1. calls' \in [Callers -> CallType]
    BY <1>7 DEF AgentTypeOK, Reset, NoCall, CallType
  <2>2. dropped' \subseteq Nat
    BY <1>7, ElementsTyped DEF AgentTypeOK, Reset
  <2>3. history' \in Seq(Nat)
    BY <1>7 DEF Reset
  <2> QED BY <1>7, <2>1, <2>2, <2>3 DEF AgentTypeOK, Reset, agentState
<1>8. CASE ClearQueues(c)
  <2>1. calls' \in [Callers -> CallType]
    <3> DEFINE x == IF calls[c].op = "abort-created" THEN [calls[c] EXCEPT !.at = "slot"]
                    ELSE NoCall
    <3>1. x \in CallType
      BY <1>n, <1>t DEF CallType
    <3>2. calls' = [calls EXCEPT ![c] = x]
      BY <1>8 DEF ClearQueues, Step, Return
    <3> QED BY <3>1, <3>2, CallTyped
  <2>2. dropped' \subseteq Nat
    BY <1>8, ElementsTyped DEF AgentTypeOK, ClearQueues
  <2>3. steer' \in Seq(Nat) /\ follow' \in Seq(Nat)
    BY <1>8 DEF ClearQueues
  <2> QED BY <1>8, <2>1, <2>2, <2>3 DEF AgentTypeOK, ClearQueues, agentState
<1>9. CASE AbortStart(c)
  <2>1. calls' \in [Callers -> CallType]
    BY <1>9 DEF AgentTypeOK, AbortStart, NoCall, CallType
  <2> QED BY <1>9, <2>1 DEF AgentTypeOK, AbortStart, agentState, inputs
<1>10. CASE AbortRun(c)
  <2>1. calls' \in [Callers -> CallType]
    <3> DEFINE x == [calls[c] EXCEPT
                      !.op = IF runAt[calls[c].run] = "Created" THEN "abort-created" ELSE "abort",
                      !.at = "agent"]
    <3>1. x \in CallType
      BY <1>n, <1>t DEF CallType
    <3>2. calls' = [calls EXCEPT ![c] = x]
      BY <1>10 DEF AbortRun
    <3> QED BY <3>1, <3>2, CallTyped
  <2>2. runAt' \in [RunIds -> RunPhases]
    BY <1>10 DEF AgentTypeOK, AbortRun, RunPhases
  <2>3. calls[c].run \in RunIds
    BY <1>10, <1>t DEF AbortRun, RunIds
  <2>4. cancels' \subseteq RunIds
    BY <1>10, <2>3 DEF AgentTypeOK, AbortRun
  <2> QED BY <1>10, <2>1, <2>2, <2>4 DEF AgentTypeOK, AbortRun, inputs
<1>11. CASE AbortAgent(c)
  <2>1. calls' \in [Callers -> CallType]
    BY <1>11, StepTyped DEF AbortAgent
  <2>2. phase' \in [is : {"Idle", "Running", "Cancelling"}, run : 0..MaxRuns]
    BY <1>11, <1>t DEF AgentTypeOK, AbortAgent, IdleAfter
  <2> QED BY <1>11, <2>1, <2>2 DEF AgentTypeOK, AbortAgent, inputs
<1>12. CASE AbortSlot(c)
  <2>1. calls' \in [Callers -> CallType]
    BY <1>12, <1>n DEF AgentTypeOK, AbortSlot, Return
  <2> QED BY <1>12, <2>1, NotifyTyped DEF AgentTypeOK, AbortSlot, inputs
<1>13. CASE HandleCancel(c)
  <2>1. calls' \in [Callers -> CallType]
    BY <1>13, <1>n DEF AgentTypeOK, HandleCancel, Return
  <2> QED BY <1>13, <2>1, <1>t DEF AgentTypeOK, HandleCancel, inputs
<1>14. CASE HandleSettle(c)
  <2>1. calls' \in [Callers -> CallType]
    BY <1>14, StepTyped DEF HandleSettle
  <2> QED BY <1>14, <2>1 DEF AgentTypeOK, HandleSettle, SettleAgent, IdleAfter, inputs
<1>15. CASE HandleNotify(c)
  <2>1. calls' \in [Callers -> CallType]
    BY <1>15, <1>n DEF AgentTypeOK, HandleNotify, Return
  <2> QED BY <1>15, <2>1, NotifyTyped DEF AgentTypeOK, HandleNotify, inputs, agentState
<1>16. ASSUME NEW r \in RunIds, HandleAbort(c, r) PROVE AgentTypeOK'
  <2>1. calls' \in [Callers -> CallType]
    <3> DEFINE x == [NoCall EXCEPT !.at = "agent", !.run = r,
                      !.op = IF runAt[r] = "Created" THEN "settle" ELSE "cancel"]
    <3>0. r \in 0..MaxRuns
      BY DEF RunIds
    <3>1. x \in CallType
      BY <1>n, <3>0 DEF CallType
    <3>2. UNCHANGED calls \/ calls' = [calls EXCEPT ![c] = x]
      BY <1>16 DEF HandleAbort
    <3> QED BY <3>1, <3>2, CallTyped DEF AgentTypeOK
  <2>2. runAt' \in [RunIds -> RunPhases]
    BY <1>16 DEF AgentTypeOK, HandleAbort, RunPhases
  <2> QED BY <1>16, <2>1, <2>2 DEF AgentTypeOK, HandleAbort, inputs
<1> QED BY <1>1, <1>2, <1>3, <1>4, <1>5, <1>6, <1>7, <1>8, <1>9, <1>10, <1>11, <1>12,
           <1>13, <1>14, <1>15, <1>16

LEMMA DriveTyped == ASSUME AgentTypeOK, NEW r \in RunIds, Drive(r) PROVE AgentTypeOK'
<1>t. drives[r] \in DriveType /\ drives[r].held \in Seq(Nat)
  BY DEF AgentTypeOK, DriveType
<1>1. CASE DriveBegin(r)
  <2>1. drives' \in [RunIds -> DriveType]
    BY <1>1, DriveAtTyped DEF DriveBegin, DriveStages
  <2>2. runAt' \in [RunIds -> RunPhases]
    BY <1>1 DEF AgentTypeOK, DriveBegin, RunPhases
  <2> QED BY <1>1, <2>1, <2>2 DEF AgentTypeOK, DriveBegin, inputs
<1>2. CASE DriveCheck(r)
  <2>1. drives' \in [RunIds -> DriveType]
    <3>1. DriveAt(r, "initial") \/ DriveAt(r, "fail")
      BY <1>2 DEF DriveCheck
    <3> QED BY <3>1, DriveAtTyped DEF DriveStages
  <2> QED BY <1>2, <2>1 DEF AgentTypeOK, DriveCheck, agentState, inputs
<1>3. CASE DriveInitial(r)
  <2>1. drives' \in [RunIds -> DriveType] /\ steer' \in Seq(Nat)
    <3>1. CASE DriveAt(r, "turn") /\ UNCHANGED steer
      <4>1. drives' \in [RunIds -> DriveType]
        BY <3>1, DriveAtTyped DEF DriveStages
      <4> QED BY <3>1, <4>1 DEF AgentTypeOK
    <3>2. ASSUME NEW n \in DrainSizes(steer), steer' = Remaining(steer, n),
            drives' = [drives EXCEPT ![r] = [at |-> "inject", held |-> Drained(steer, n)]]
          PROVE drives' \in [RunIds -> DriveType] /\ steer' \in Seq(Nat)
      <4>1. Drained(steer, n) \in Seq(Nat) /\ Remaining(steer, n) \in Seq(Nat)
        BY DrainTyped DEF AgentTypeOK
      <4> QED BY <3>2, <4>1 DEF AgentTypeOK, DriveType
    <3> QED BY <1>3, <3>1, <3>2 DEF DriveInitial
  <2> QED BY <1>3, <2>1 DEF AgentTypeOK, DriveInitial, agentState
<1>4. CASE DriveInject(r)
  <2>1. history' \in Seq(Nat)
    BY <1>4, <1>t DEF AgentTypeOK, DriveInject
  <2>2. drives' \in [RunIds -> DriveType]
    BY <1>4 DEF AgentTypeOK, DriveInject, DriveType
  <2> QED BY <1>4, <2>1, <2>2 DEF AgentTypeOK, DriveInject, agentState
<1>5. CASE DriveTurn(r)
  <2>1. drives' \in [RunIds -> DriveType]
    BY <1>5, DriveAtTyped DEF DriveTurn, DriveStages
  <2> QED BY <1>5, <2>1 DEF AgentTypeOK, DriveTurn, agentState
<1>6. CASE DriveAfter(r)
  <2>1. drives' \in [RunIds -> DriveType] /\ steer' \in Seq(Nat) /\ follow' \in Seq(Nat)
    <3>1. CASE (DriveAt(r, "succeed") \/ DriveAt(r, "fail")) /\ UNCHANGED <<steer, follow>>
      <4>1. drives' \in [RunIds -> DriveType]
        BY <3>1, DriveAtTyped DEF DriveStages
      <4> QED BY <3>1, <4>1 DEF AgentTypeOK
    <3>2. ASSUME NEW n \in DrainSizes(steer), steer' = Remaining(steer, n), UNCHANGED follow,
            drives' = [drives EXCEPT ![r] =
               [held |-> Drained(steer, n),
                at |-> IF n > 0 \/ drives[r].at = "after-tools" THEN "inject" ELSE "follow"]]
          PROVE drives' \in [RunIds -> DriveType] /\ steer' \in Seq(Nat) /\ follow' \in Seq(Nat)
      <4>1. Drained(steer, n) \in Seq(Nat) /\ Remaining(steer, n) \in Seq(Nat)
        BY DrainTyped DEF AgentTypeOK
      <4> QED BY <3>2, <4>1 DEF AgentTypeOK, DriveType
    <3> QED BY <1>6, <3>1, <3>2 DEF DriveAfter
  <2> QED BY <1>6, <2>1 DEF AgentTypeOK, DriveAfter, agentState
<1>7. CASE DriveFollowUp(r)
  <2>1. PICK n \in DrainSizes(follow) :
       /\ follow' = Remaining(follow, n)
       /\ drives' = [drives EXCEPT ![r] =
            [held |-> Drained(follow, n), at |-> IF n > 0 THEN "inject" ELSE "succeed"]]
    BY <1>7 DEF DriveFollowUp
  <2>2. Drained(follow, n) \in Seq(Nat) /\ Remaining(follow, n) \in Seq(Nat)
    BY DrainTyped DEF AgentTypeOK
  <2>3. drives' \in [RunIds -> DriveType] /\ follow' \in Seq(Nat)
    BY <2>1, <2>2 DEF AgentTypeOK, DriveType
  <2> QED BY <1>7, <2>3 DEF AgentTypeOK, DriveFollowUp, agentState
<1>8. CASE DriveFinish(r)
  <2>1. Outcomes(r) \subseteq RunPhases
    BY <1>8 DEF DriveFinish, Outcomes, RunPhases
  <2>2. runAt' \in [RunIds -> RunPhases]
    BY <1>8, <2>1 DEF AgentTypeOK, DriveFinish
  <2>3. drives' \in [RunIds -> DriveType]
    BY <1>8, DriveAtTyped DEF DriveFinish, DriveStages
  <2>4. tail' \in {"none", "user", "assistant"}
    BY <1>8 DEF AgentTypeOK, DriveFinish
  <2> QED BY <1>8, <2>2, <2>3, <2>4 DEF AgentTypeOK, DriveFinish
<1>9. CASE DriveSettle(r)
  <2>1. drives' \in [RunIds -> DriveType]
    BY <1>9, DriveAtTyped DEF DriveSettle, DriveStages
  <2>2. phase' \in [is : {"Idle", "Running", "Cancelling"}, run : 0..MaxRuns]
    BY <1>9 DEF AgentTypeOK, DriveSettle, SettleAgent, IdleAfter
  <2>3. slot' \in 0..MaxRuns
    BY <1>9, AgentRunAssumption DEF DriveSettle, SettleAgent
  <2> QED BY <1>9, <2>1, <2>2, <2>3 DEF AgentTypeOK, DriveSettle, inputs
<1>10. CASE DriveNotify(r)
  <2>1. drives' \in [RunIds -> DriveType]
    BY <1>10, DriveAtTyped DEF DriveNotify, DriveStages
  <2> QED BY <1>10, <2>1, NotifyTyped DEF AgentTypeOK, DriveNotify, agentState, inputs
<1> QED BY <1>1, <1>2, <1>3, <1>4, <1>5, <1>6, <1>7, <1>8, <1>9, <1>10 DEF Drive

LEMMA EnqueueTyped ==
  ASSUME AgentTypeOK, NEW q, EnqueueInput(q) PROVE AgentTypeOK'
<1>1. queued + 1 \in Nat /\ queued' \in 0..MaxQueued
  BY AgentRunAssumption DEF AgentTypeOK, EnqueueInput
<1>2. Append(steer, queued + 1) \in Seq(Nat) /\ Append(follow, queued + 1) \in Seq(Nat)
  BY <1>1 DEF AgentTypeOK
<1>3. steer' \in {steer, Append(steer, queued + 1)}
      /\ follow' \in {follow, Append(follow, queued + 1)}
  BY DEF EnqueueInput
<1>4. steer' \in Seq(Nat) /\ follow' \in Seq(Nat)
  BY <1>2, <1>3 DEF AgentTypeOK
<1> QED BY <1>1, <1>4 DEF AgentTypeOK, EnqueueInput, agentState

LEMMA WaitTyped ==
  ASSUME AgentTypeOK, WaitLook \/ WaitRegister \/ WaitAgain \/ WaitPoll PROVE AgentTypeOK'
<1>1. waiter' \in WaiterType
  <2>1. [at |-> "out", woken |-> FALSE] \in WaiterType
        /\ [at |-> "looked", woken |-> FALSE] \in WaiterType
        /\ [at |-> "registered", woken |-> FALSE] \in WaiterType
    BY DEF WaiterType
  <2>2. [waiter EXCEPT !.at = "pending"] \in WaiterType
    BY DEF AgentTypeOK, WaiterType
  <2> QED BY <2>1, <2>2 DEF WaitLook, WaitRegister, WaitAgain, WaitPoll
<1>2. UNCHANGED <<agentState, inputs, drives, calls>>
  BY DEF WaitLook, WaitRegister, WaitAgain, WaitPoll
<1> QED BY <1>1, <1>2 DEF AgentTypeOK, agentState, inputs
-----------------------------------------------------------------------------
(* A call that ends up owing nothing keeps the owner single: if it makes   *)
(* the agent idle it gave up the only duty there was.                      *)
LEMMA CallLetsGo ==
  ASSUME AgentInv, AgentTypeOK', NEW c \in Callers,
         UNCHANGED <<runIds, runAt, drives>>, slot' \in {0, slot},
         \A d \in Callers \ {c} : calls'[d] = calls[d],
         calls'[c].run <= runIds, ~Holds(c)',
         At(c, "abort", "run")' => calls'[c].run # 0,
         phase'.is = "Idle" => phase.is = "Idle" \/ Holds(c)
  PROVE  AgentInv'
<1> USE DEF AgentInv
<1>1. \A d \in Callers : Holds(d)' => d # c /\ Holds(d)
  BY DEF Holds, At
<1>2. ClaimInv'
  <2>1. slot' <= runIds'
    BY DEF ClaimInv, AgentTypeOK
  <2>2. \A d \in Callers : calls'[d].run <= runIds'
    BY DEF ClaimInv
  <2>3. \A d \in Callers : (At(d, "abort", "run") \/ Holds(d))' => calls'[d].run # 0
    BY <1>1 DEF ClaimInv, At
  <2> QED BY <2>1, <2>2, <2>3 DEF ClaimInv
<1>3. DutyInv'
  <2>1. \A d \in Callers : d # c => At(d, "start", "install")' = At(d, "start", "install")
    BY DEF At
  <2> QED BY <1>1, <2>1 DEF DutyInv, RunSettled
<1>4. \A r \in RunIds : Owns(r)' => Owns(r)
  BY <1>1 DEF Owns
<1>5. \A r \in RunIds : Holds(c) => ~Owns(r)'
  <2> SUFFICES ASSUME NEW r \in RunIds, Holds(c), Owns(r)' PROVE FALSE
    OBVIOUS
  <2>0. calls[c].run \in 0..MaxRuns /\ calls[c].run # 0
    BY DEF AgentTypeOK, CallType, ClaimInv
  <2>1. calls[c].run \in RunIds
    BY <2>0 DEF RunIds
  <2>2. Owns(calls[c].run)
    BY DEF Owns
  <2>3. r = calls[c].run
    BY <1>4, <2>1, <2>2 DEF OneOwner
  <2> QED BY <1>1, <2>3 DEF Owns, DutyInv
<1>6. OneOwner'
  BY <1>4, <1>5 DEF OneOwner
<1> QED BY <1>2, <1>3, <1>6

(* A drive that moves on within its run keeps the owner single: if it      *)
(* makes the agent idle it gave up the only duty there was.                *)
LEMMA DriveMovesOn ==
  ASSUME AgentInv, AgentTypeOK', NEW r \in RunIds,
         UNCHANGED <<runIds, runAt, calls>>, slot' \in {0, slot},
         \A s \in RunIds \ {r} : drives'[s] = drives[s],
         drives'[r].at # "settle",
         drives'[r].at \in Working => drives[r].at \in Working,
         phase'.is = "Idle" => phase.is = "Idle" \/ drives[r].at = "settle"
  PROVE  AgentInv'
<1> USE DEF AgentInv
<1>0. \A d \in Callers : /\ Holds(d)' = Holds(d)
                         /\ Holds(d) => calls[d].run \in RunIds
                         /\ At(d, "start", "install")' = At(d, "start", "install")
                         /\ At(d, "abort", "run")' = At(d, "abort", "run")
  BY DEF Holds, At, AgentTypeOK, CallType, ClaimInv, RunIds
<1>2. ClaimInv'
  BY <1>0 DEF ClaimInv, AgentTypeOK
<1>3. DutyInv'
  <2>1. \A s \in RunIds : /\ drives'[s].at \in Working => drives[s].at \in Working
                          /\ drives'[s].at = "settle" => drives[s].at = "settle"
    OBVIOUS
  <2> QED BY <1>0, <2>1 DEF DutyInv, RunSettled
<1>4. \A s \in RunIds : Owns(s)' => Owns(s)
  BY <1>0 DEF Owns
<1>5. \A s \in RunIds : drives[r].at = "settle" => ~Owns(s)'
  <2> SUFFICES ASSUME NEW s \in RunIds, drives[r].at = "settle", Owns(s)' PROVE FALSE
    OBVIOUS
  <2>1. Owns(r)
    BY DEF Owns
  <2>2. r = s
    BY <1>4, <2>1 DEF OneOwner
  <2> QED BY <1>0, <2>2 DEF Owns, DutyInv, RunSettled
<1>6. OneOwner'
  BY <1>4, <1>5 DEF OneOwner
<1> QED BY <1>2, <1>3, <1>6

(* A caller that owes a settlement knows its run.                          *)
LEMMA HoldsRun ==
  ASSUME AgentInv, NEW c \in Callers, Holds(c)
  PROVE  calls[c].run \in RunIds
<1>1. calls[c].run \in 0..MaxRuns
  BY DEF AgentInv, AgentTypeOK, CallType
<1>2. calls[c].run # 0
  BY DEF AgentInv, ClaimInv
<1> QED BY <1>1, <1>2, AgentRunAssumption DEF RunIds

(* A caller that cancels a created run takes the duty to settle it.        *)
LEMMA CallTakesOver ==
  ASSUME AgentInv, AgentTypeOK', NEW c \in Callers, NEW r \in RunIds,
         UNCHANGED <<phase, slot, runIds, drives>>,
         runAt[r] = "Created", runAt' = [runAt EXCEPT ![r] = "Cancelled"],
         ~Holds(c), \A d \in Callers \ {c} : calls'[d] = calls[d],
         calls'[c].run = r, At(c, "settle", "agent")' \/ At(c, "abort-created", "agent")'
  PROVE  AgentInv'
<1> USE DEF AgentInv
<1>0. \A d \in Callers : Holds(d) => calls[d].run \in RunIds
  BY HoldsRun
<1>1. \A d \in Callers : d # c => /\ Holds(d)' = Holds(d)
                                  /\ At(d, "start", "install")' = At(d, "start", "install")
                                  /\ At(d, "abort", "run")' = At(d, "abort", "run")
                                  /\ Holds(d) => calls[d].run # r
  <2>1. \A d \in Callers : Holds(d) => calls[d].run # r
    BY DEF DutyInv
  <2> QED BY <2>1 DEF Holds, At
<1>2. Holds(c)' /\ ~At(c, "start", "install")' /\ ~At(c, "abort", "run")'
  BY DEF Holds, At
<1>3. \A s \in RunIds : runAt'[s] = IF s = r THEN "Cancelled" ELSE runAt[s]
  BY DEF AgentTypeOK
<1>4. r \in Nat /\ r # 0 /\ r <= runIds
  <2>1. r \in Nat /\ r # 0
    BY AgentRunAssumption DEF RunIds
  <2>2. runIds \in Nat
    BY AgentRunAssumption DEF AgentTypeOK
  <2> QED BY <2>1, <2>2 DEF ClaimInv
<1>5. ClaimInv'
  <2>1. \A d \in Callers : calls'[d].run <= runIds'
    BY <1>4 DEF ClaimInv
  <2>2. \A s \in RunIds : s > runIds' => runAt'[s] = "none"
    BY <1>3 DEF ClaimInv
  <2>3. \A d \in Callers : (At(d, "abort", "run") \/ Holds(d))' => calls'[d].run # 0
    BY <1>1, <1>4 DEF ClaimInv
  <2> QED BY <2>1, <2>2, <2>3 DEF ClaimInv
<1>6. DutyInv'
  <2>1. \A s \in RunIds : /\ drives'[s].at \in Working => runAt'[s] = "Running"
                          /\ drives'[s].at = "settle" => RunSettled(s)'
    BY <1>3 DEF DutyInv, RunSettled
  <2>2. drives[r].at # "settle"
    BY DEF DutyInv, RunSettled
  <2> QED BY <1>0, <1>1, <1>2, <1>3, <2>1, <2>2 DEF DutyInv
<1>7. \A s \in RunIds : Owns(s)' => Owns(s)
  <2>1. Owns(r)
    BY DEF Owns
  <2> QED BY <1>1, <1>3, <2>1 DEF Owns
<1>8. OneOwner'
  BY <1>7 DEF OneOwner
<1> QED BY <1>5, <1>6, <1>8

LEMMA CallRuns ==
  ASSUME AgentInv, NEW d \in Callers
  PROVE  calls[d].run \in Nat /\ runIds \in Nat /\ calls[d].run <= runIds
         /\ (Holds(d) => calls[d].run \in RunIds)
<1>1. calls[d].run \in 0..MaxRuns
  BY DEF AgentInv, AgentTypeOK, CallType
<1>2. runIds \in Nat
  BY AgentRunAssumption DEF AgentInv, AgentTypeOK
<1> QED BY <1>1, <1>2, AgentRunAssumption DEF AgentInv, ClaimInv, RunIds

(* The claim gives a fresh run its one owner.                              *)
LEMMA ClaimStep ==
  ASSUME AgentInv, AgentTypeOK', NEW c \in Callers, StartClaim(c)
  PROVE  AgentInv'
<1> USE DEF AgentInv
<1> DEFINE fresh == runIds + 1
<1>1. runIds \in Nat /\ fresh \in RunIds /\ fresh > runIds /\ fresh # 0
  BY AgentRunAssumption DEF AgentTypeOK, StartClaim, RunIds
<1>2. runIds' = fresh /\ UNCHANGED <<slot, runAt, drives>> /\ phase'.is # "Idle"
  BY DEF StartClaim
<1>3. calls'[c] = [calls[c] EXCEPT !.at = "install", !.run = fresh, !.held = <<>>]
      /\ \A d \in Callers \ {c} : calls'[d] = calls[d]
  BY DEF StartClaim, AgentTypeOK
<1>4. calls[c] \in CallType /\ calls[c].op = "start"
  BY DEF StartClaim, At, AgentTypeOK
<1>5. calls'[c].run = fresh /\ calls'[c].op = "start" /\ calls'[c].at = "install"
  BY <1>3, <1>4 DEF CallType
<1>6. \A d \in Callers : d # c => /\ Holds(d)' = Holds(d)
                                  /\ At(d, "start", "install")' = At(d, "start", "install")
                                  /\ At(d, "abort", "run")' = At(d, "abort", "run")
  BY <1>3 DEF Holds, At
<1>7. Holds(c)' /\ At(c, "start", "install")' /\ ~At(c, "abort", "run")'
  BY <1>5 DEF Holds, At
<1>8. \A d \in Callers : calls[d].run # fresh
  <2>1. \A d \in Callers : calls[d].run \in Nat
    BY AgentRunAssumption DEF AgentTypeOK, CallType
  <2> QED BY <1>1, <2>1 DEF ClaimInv
<1>9. runAt[fresh] = "none" /\ drives[fresh].at # "settle"
  <2>1. runAt[fresh] = "none"
    BY <1>1 DEF ClaimInv
  <2> QED BY <2>1, <1>1 DEF DutyInv, RunSettled
<1>10. \A s \in RunIds : ~Owns(s)
  BY DEF OneOwner, StartClaim
<1>11. ClaimInv'
  <2>1. slot' <= runIds'
    BY <1>1, <1>2, AgentRunAssumption DEF ClaimInv, AgentTypeOK
  <2>2. \A d \in Callers : calls'[d].run <= runIds'
    <3> SUFFICES ASSUME NEW d \in Callers PROVE calls'[d].run <= runIds'
      OBVIOUS
    <3>1. calls[d].run \in Nat /\ calls[d].run <= runIds
      BY CallRuns
    <3>2. CASE d = c
      BY <1>1, <1>2, <1>5, <3>2
    <3>3. CASE d # c
      <4>1. calls'[d].run = calls[d].run
        BY <1>3, <3>3
      <4> QED BY <1>1, <1>2, <3>1, <4>1
    <3> QED BY <3>2, <3>3
  <2>3. \A s \in RunIds : s > runIds' => runAt'[s] = "none"
    BY <1>1, <1>2, AgentRunAssumption DEF ClaimInv, RunIds
  <2>4. \A d \in Callers : (At(d, "abort", "run") \/ Holds(d))' => calls'[d].run # 0
    BY <1>1, <1>3, <1>5, <1>6, <1>7 DEF ClaimInv
  <2> QED BY <2>1, <2>2, <2>3, <2>4 DEF ClaimInv
<1>12. DutyInv'
  <2>1. \A s \in RunIds : /\ drives'[s].at \in Working => runAt'[s] = "Running"
                          /\ drives'[s].at = "settle" => RunSettled(s)'
    BY <1>2 DEF DutyInv, RunSettled
  <2> HIDE DEF fresh
  <2>2. ASSUME NEW d \in Callers, Holds(d)'
        PROVE /\ runAt'[calls'[d].run] = IF At(d, "start", "install")' THEN "none" ELSE "Cancelled"
              /\ drives'[calls'[d].run].at # "settle"
              /\ \A e \in Callers : Holds(e)' /\ calls'[e].run = calls'[d].run => d = e
    <3>1. CASE d = c
      <4>1. \A e \in Callers : Holds(e)' /\ calls'[e].run = calls'[d].run => d = e
        BY <1>3, <1>5, <1>8, <3>1
      <4> QED BY <4>1, <1>2, <1>5, <1>7, <1>9, <3>1
    <3>2. CASE d # c
      <4>1. calls'[d] = calls[d] /\ Holds(d) /\ calls[d].run # fresh
        BY <1>3, <1>6, <1>8, <2>2, <3>2
      <4>2. \A e \in Callers : Holds(e)' /\ calls'[e].run = calls'[d].run => d = e
        <5>1. \A e \in Callers : Holds(e) /\ calls[e].run = calls[d].run => d = e
          BY <4>1 DEF DutyInv
        <5>2. \A e \in Callers : e # c => calls'[e].run = calls[e].run /\ Holds(e)' = Holds(e)
          BY <1>3, <1>6
        <5> QED BY <5>1, <5>2, <4>1, <1>5
      <4> QED BY <4>1, <4>2, <1>2, <1>6, <3>2 DEF DutyInv
    <3> QED BY <3>1, <3>2
  <2> QED BY <2>1, <2>2 DEF DutyInv
<1>13. \A s \in RunIds : Owns(s)' => s = fresh
  <2> SUFFICES ASSUME NEW s \in RunIds, Owns(s)', s # fresh PROVE FALSE
    OBVIOUS
  <2>1. runAt'[s] = runAt[s] /\ drives'[s] = drives[s]
    BY <1>2
  <2>2. ~(\E d \in Callers : calls[d].run = s /\ Holds(d))
    BY <1>10 DEF Owns
  <2>3. ~(\E d \in Callers : calls'[d].run = s /\ Holds(d)')
    BY <2>2, <1>3, <1>5, <1>6
  <2>4. runAt[s] \notin {"Created", "Running"} /\ drives[s].at # "settle"
    BY <1>10 DEF Owns
  <2> QED BY <2>1, <2>3, <2>4 DEF Owns
<1>14. OneOwner'
  BY <1>2, <1>13 DEF OneOwner
<1> QED BY <1>11, <1>12, <1>14

(* The installation hands the run from the caller to its drive.            *)
LEMMA InstallStep ==
  ASSUME AgentInv, AgentTypeOK', NEW c \in Callers, StartInstall(c)
  PROVE  AgentInv'
<1> USE DEF AgentInv
<1> DEFINE run == calls[c].run
<1>1. Holds(c) /\ At(c, "start", "install")
  BY DEF StartInstall, Holds
<1>2. run \in RunIds
  BY <1>1, HoldsRun
<1>3. calls'[c] = NoCall /\ \A d \in Callers \ {c} : calls'[d] = calls[d]
  BY DEF StartInstall, Return, AgentTypeOK
<1>4. UNCHANGED <<phase, runIds>> /\ slot' = run
  BY DEF StartInstall
<1>5. \A s \in RunIds : runAt'[s] = IF s = run THEN "Created" ELSE runAt[s]
  BY <1>2 DEF StartInstall, AgentTypeOK
<1>6. \A s \in RunIds : drives'[s].at = IF s = run THEN "new" ELSE drives[s].at
  BY <1>2 DEF StartInstall, AgentTypeOK, DriveType
<1>7. ~Holds(c)' /\ ~At(c, "abort", "run")' /\ calls'[c].run = 0
  BY <1>3 DEF Holds, At, NoCall
<1>8. \A d \in Callers : d # c => /\ Holds(d)' = Holds(d)
                                  /\ At(d, "start", "install")' = At(d, "start", "install")
                                  /\ At(d, "abort", "run")' = At(d, "abort", "run")
                                  /\ Holds(d) => calls[d].run # run
  BY <1>1, <1>3 DEF Holds, At, DutyInv
<1>9. \A d \in Callers : Holds(d) => calls[d].run \in RunIds
  BY CallRuns
<1>10. ClaimInv'
  <2>1. slot' <= runIds'
    BY <1>4 DEF ClaimInv
  <2>2. \A d \in Callers : calls'[d].run <= runIds'
    <3> SUFFICES ASSUME NEW d \in Callers PROVE calls'[d].run <= runIds'
      OBVIOUS
    <3>1. calls[d].run \in Nat /\ calls[d].run <= runIds /\ runIds \in Nat
      BY CallRuns
    <3>2. calls'[d].run \in {0, calls[d].run}
      BY <1>3, <1>7
    <3> QED BY <1>4, <3>1, <3>2
  <2>3. \A s \in RunIds : s > runIds' => runAt'[s] = "none"
    <3>1. ~(run > runIds)
      BY <1>2, AgentRunAssumption DEF ClaimInv, AgentTypeOK, RunIds
    <3> QED BY <1>4, <1>5, <3>1 DEF ClaimInv
  <2>4. \A d \in Callers : (At(d, "abort", "run") \/ Holds(d))' => calls'[d].run # 0
    BY <1>3, <1>7, <1>8 DEF ClaimInv
  <2> QED BY <2>1, <2>2, <2>3, <2>4 DEF ClaimInv
<1> HIDE DEF run
<1>11. DutyInv'
  <2>1. \A s \in RunIds : /\ drives'[s].at \in Working => runAt'[s] = "Running"
                          /\ drives'[s].at = "settle" => RunSettled(s)'
    BY <1>5, <1>6 DEF DutyInv, RunSettled, Working
  <2> QED BY <1>3, <1>5, <1>6, <1>7, <1>8, <1>9, <2>1 DEF DutyInv
<1>12. Owns(run)
  BY <1>1 DEF Owns, run
<1>13. \A s \in RunIds : Owns(s)' => Owns(s)
  BY <1>3, <1>5, <1>6, <1>7, <1>8, <1>12 DEF Owns
<1>14. OneOwner'
  BY <1>4, <1>13 DEF OneOwner
<1> QED BY <1>10, <1>11, <1>14

(* The drive takes a created run over, and its outcome leaves it the duty  *)
(* to settle the agent.                                                    *)
LEMMA RunMovesOn ==
  ASSUME AgentInv, AgentTypeOK', NEW r \in RunIds,
         UNCHANGED <<phase, slot, runIds, calls>>, runAt[r] \in {"Created", "Running"},
         \A s \in RunIds \ {r} : runAt'[s] = runAt[s] /\ drives'[s] = drives[s],
         \/ runAt'[r] = "Running" /\ drives'[r].at = "check"
         \/ RunSettled(r)' /\ drives'[r].at = "settle"
  PROVE  AgentInv'
<1> USE DEF AgentInv
<1>1. \A d \in Callers : /\ Holds(d)' = Holds(d)
                         /\ Holds(d) => calls[d].run \in RunIds \ {r}
                         /\ At(d, "start", "install")' = At(d, "start", "install")
                         /\ At(d, "abort", "run")' = At(d, "abort", "run")
  <2>1. \A d \in Callers : Holds(d) => calls[d].run \in RunIds
    BY DEF AgentTypeOK, CallType, ClaimInv, RunIds
  <2>2. \A d \in Callers : Holds(d) => calls[d].run # r
    BY DEF DutyInv
  <2> QED BY <2>1, <2>2 DEF Holds, At
<1>2. ClaimInv'
  <2>1. ~(r > runIds)
    BY DEF ClaimInv
  <2> QED BY <1>1, <2>1 DEF ClaimInv
<1>3. DutyInv'
  <2>1. \A s \in RunIds : /\ drives'[s].at \in Working => runAt'[s] = "Running"
                          /\ drives'[s].at = "settle" => RunSettled(s)'
    BY DEF DutyInv, RunSettled, Working
  <2> QED BY <1>1, <2>1 DEF DutyInv
<1>4. \A s \in RunIds : Owns(s)' => Owns(s)
  <2>1. Owns(r)
    BY DEF Owns
  <2> QED BY <1>1, <2>1 DEF Owns
<1>5. OneOwner'
  BY <1>4 DEF OneOwner
<1> QED BY <1>2, <1>3, <1>5
-----------------------------------------------------------------------------
(* Every call keeps the invariant.                                         *)
LEMMA CallerKeeps ==
  ASSUME AgentInv, NEW c \in Callers,
         \/ StartPrompt(c) \/ ContinueCheck(c) \/ ContinueDrain(c)
         \/ StartClaim(c) \/ StartBusy(c) \/ StartInstall(c)
         \/ Reset(c) \/ ClearQueues(c)
         \/ AbortStart(c) \/ AbortRun(c) \/ AbortAgent(c) \/ AbortSlot(c)
         \/ HandleCancel(c) \/ HandleSettle(c) \/ HandleNotify(c)
         \/ \E r \in RunIds : HandleAbort(c, r)
  PROVE  AgentInv'
<1>T. AgentTypeOK'
  BY CallerTyped DEF AgentInv, ClaimInv
<1>c. calls \in [Callers -> CallType] /\ calls[c] \in CallType
  BY DEF AgentInv, AgentTypeOK
<1>r. calls[c].run \in Nat /\ runIds \in Nat /\ calls[c].run <= runIds
      /\ slot \in Nat /\ slot <= runIds
  BY CallRuns, AgentRunAssumption DEF AgentInv, AgentTypeOK, ClaimInv
<1> USE DEF Holds, At
<1>1. CASE StartPrompt(c)
  <2>1. calls'[c].op = "start" /\ calls'[c].at = "claim" /\ calls'[c].run = 0
    BY <1>1, <1>c DEF StartPrompt, NoCall
  <2> QED BY <1>1, <2>1, <1>c, <1>r, <1>T, CallLetsGo DEF StartPrompt, agentState
<1>2. CASE ContinueCheck(c)
  <2>1. calls'[c].op = "start" /\ calls'[c].at \in {"drain", "claim"} /\ calls'[c].run = 0
    BY <1>2, <1>c DEF ContinueCheck, NoCall
  <2> QED BY <1>2, <2>1, <1>c, <1>r, <1>T, CallLetsGo DEF ContinueCheck, agentState
<1>3. CASE ContinueDrain(c)
  <2>1. \/ calls'[c] = NoCall
        \/ calls'[c].op = "start" /\ calls'[c].at = "claim" /\ calls'[c].run = calls[c].run
    BY <1>3, <1>c DEF ContinueDrain, Return, CallType
  <2>2. \A d \in Callers \ {c} : calls'[d] = calls[d]
    BY <1>3, <1>c DEF ContinueDrain, Return
  <2> QED BY <1>3, <2>1, <2>2, <1>c, <1>r, <1>T, CallLetsGo
          DEF ContinueDrain, agentState, NoCall
<1>4. CASE StartClaim(c)
  BY <1>4, <1>T, ClaimStep
<1>5. CASE StartBusy(c)
  <2>1. calls'[c] = NoCall
    BY <1>5, <1>c DEF StartBusy, Return
  <2> QED BY <1>5, <2>1, <1>c, <1>r, <1>T, CallLetsGo
          DEF StartBusy, Return, agentState, NoCall
<1>6. CASE StartInstall(c)
  BY <1>6, <1>T, InstallStep
<1>7. CASE Reset(c)
  <2>1. calls'[c].op = "clear" /\ calls'[c].run = 0
    BY <1>7, <1>c DEF Reset, NoCall
  <2> QED BY <1>7, <2>1, <1>c, <1>r, <1>T, CallLetsGo DEF Reset, agentState
<1>8. CASE ClearQueues(c)
  <2>1. \/ calls'[c] = NoCall
        \/ calls'[c].at = "slot" /\ calls'[c].run = calls[c].run
    BY <1>8, <1>c DEF ClearQueues, Return, Step, CallType
  <2>2. \A d \in Callers \ {c} : calls'[d] = calls[d]
    BY <1>8, <1>c DEF ClearQueues, Return, Step
  <2> QED BY <1>8, <2>1, <2>2, <1>c, <1>r, <1>T, CallLetsGo
          DEF ClearQueues, agentState, NoCall
<1>9. CASE AbortStart(c)
  <2>1. calls'[c].op = "abort" /\ calls'[c].at = "run" /\ calls'[c].run = slot /\ slot # 0
    BY <1>9, <1>c DEF AbortStart, NoCall
  <2> QED BY <1>9, <2>1, <1>c, <1>r, <1>T, CallLetsGo DEF AbortStart, agentState
<1>10. CASE AbortRun(c)
  <2>0. calls[c].run \in RunIds
    BY <1>10, <1>c DEF AbortRun, AgentInv, ClaimInv, CallType, RunIds
  <2>1. calls'[c].at = "agent" /\ calls'[c].run = calls[c].run
        /\ calls'[c].op = IF runAt[calls[c].run] = "Created" THEN "abort-created" ELSE "abort"
    BY <1>10, <1>c DEF AbortRun, CallType
  <2>2. \A d \in Callers \ {c} : calls'[d] = calls[d]
    BY <1>10, <1>c DEF AbortRun
  <2>3. CASE runAt[calls[c].run] = "Created"
    <3>1. ~Holds(c)
      BY <1>10 DEF AbortRun
    <3>2. runAt' = [runAt EXCEPT ![calls[c].run] = "Cancelled"]
      BY <1>10, <2>3 DEF AbortRun
    <3>3. At(c, "abort-created", "agent")'
      BY <2>1, <2>3
    <3>4. UNCHANGED <<phase, slot, runIds, drives>>
      BY <1>10 DEF AbortRun
    <3> QED BY <2>0, <2>1, <2>2, <2>3, <3>1, <3>2, <3>3, <3>4, <1>T, CallTakesOver
  <2>4. CASE runAt[calls[c].run] # "Created"
    BY <1>10, <2>1, <2>2, <2>4, <1>r, <1>T, CallLetsGo DEF AbortRun
  <2> QED BY <2>3, <2>4
<1>11. CASE AbortAgent(c)
  <2>1. calls'[c].at = "queues" /\ calls'[c].run = calls[c].run
    BY <1>11, <1>c DEF AbortAgent, Step, CallType
  <2>2. \A d \in Callers \ {c} : calls'[d] = calls[d]
    BY <1>11, <1>c DEF AbortAgent, Step
  <2>3. phase'.is = "Idle" => phase.is = "Idle" \/ Holds(c)
    BY <1>11 DEF AbortAgent
  <2> QED BY <1>11, <2>1, <2>2, <2>3, <1>r, <1>T, CallLetsGo DEF AbortAgent
<1>12. CASE AbortSlot(c)
  <2>1. calls'[c] = NoCall
    BY <1>12, <1>c DEF AbortSlot, Return
  <2> QED BY <1>12, <2>1, <1>c, <1>r, <1>T, CallLetsGo DEF AbortSlot, Return, NoCall
<1>13. CASE HandleCancel(c)
  <2>1. calls'[c] = NoCall
    BY <1>13, <1>c DEF HandleCancel, Return
  <2> QED BY <1>13, <2>1, <1>c, <1>r, <1>T, CallLetsGo DEF HandleCancel, Return, NoCall
<1>14. CASE HandleSettle(c)
  <2>1. calls'[c].at = "notify" /\ calls'[c].run = calls[c].run
    BY <1>14, <1>c DEF HandleSettle, Step, CallType
  <2>2. \A d \in Callers \ {c} : calls'[d] = calls[d]
    BY <1>14, <1>c DEF HandleSettle, Step
  <2> QED BY <1>14, <2>1, <2>2, <1>r, <1>T, CallLetsGo DEF HandleSettle, SettleAgent
<1>15. CASE HandleNotify(c)
  <2>1. calls'[c] = NoCall
    BY <1>15, <1>c DEF HandleNotify, Return
  <2> QED BY <1>15, <2>1, <1>c, <1>r, <1>T, CallLetsGo
          DEF HandleNotify, Return, NoCall, agentState
<1>16. ASSUME NEW r \in RunIds, HandleAbort(c, r) PROVE AgentInv'
  <2> DEFINE x == [NoCall EXCEPT !.at = "agent", !.run = r,
                    !.op = IF runAt[r] = "Created" THEN "settle" ELSE "cancel"]
  <2>0. /\ x.at = "agent" /\ x.run = r
        /\ x.op = IF runAt[r] = "Created" THEN "settle" ELSE "cancel"
    BY DEF NoCall
  <2>x. IF RunSettled(r) THEN UNCHANGED <<runAt, calls>>
        ELSE calls' = [calls EXCEPT ![c] = x]
    BY <1>16 DEF HandleAbort
  <2> HIDE DEF x
  <2>1. ~Holds(c) /\ UNCHANGED <<phase, slot, runIds, drives>>
        /\ \A d \in Callers \ {c} : calls'[d] = calls[d]
    <3>0. calls[c] = NoCall /\ UNCHANGED <<phase, slot, runIds, drives>>
      BY <1>16 DEF HandleAbort
    <3>1. ~Holds(c)
      BY <3>0 DEF NoCall
    <3>2. \A d \in Callers \ {c} : calls'[d] = calls[d]
      BY <2>x, <1>c
    <3> QED BY <3>0, <3>1, <3>2
  <2>2. CASE RunSettled(r)
    <3>1. UNCHANGED <<runAt, calls>> /\ calls[c] = NoCall
      BY <1>16, <2>2 DEF HandleAbort
    <3> QED BY <3>1, <2>1, <1>r, <1>T, CallLetsGo DEF NoCall
  <2>3. CASE ~RunSettled(r)
    <3>1. calls'[c].at = "agent" /\ calls'[c].run = r
          /\ calls'[c].op = IF runAt[r] = "Created" THEN "settle" ELSE "cancel"
      BY <2>x, <2>0, <2>3, <1>c
    <3>2. CASE runAt[r] = "Created"
      <4>1. runAt' = [runAt EXCEPT ![r] = "Cancelled"]
        BY <1>16, <2>3, <3>2 DEF HandleAbort
      <4>2. At(c, "settle", "agent")'
        BY <3>1, <3>2
      <4> QED BY <2>1, <3>1, <3>2, <4>1, <4>2, <1>T, CallTakesOver
    <3>3. CASE runAt[r] # "Created"
      <4>1. UNCHANGED runAt /\ runAt[r] # "none"
        BY <1>16, <2>3, <3>3 DEF HandleAbort
      <4>2. r <= runIds
        <5>1. r \in Nat
          BY AgentRunAssumption DEF RunIds
        <5> QED BY <5>1, <4>1, <1>r DEF AgentInv, ClaimInv
      <4> QED BY <2>1, <3>1, <3>3, <4>1, <4>2, <1>T, CallLetsGo
    <3> QED BY <3>2, <3>3
  <2> QED BY <2>2, <2>3
<1> QED
  BY <1>1, <1>2, <1>3, <1>4, <1>5, <1>6, <1>7, <1>8, <1>9, <1>10, <1>11, <1>12,
     <1>13, <1>14, <1>15, <1>16

(* Every step of a drive keeps the invariant.                              *)
LEMMA DriveKeeps == ASSUME AgentInv, NEW r \in RunIds, Drive(r) PROVE AgentInv'
<1>T. AgentTypeOK'
  BY DriveTyped DEF AgentInv
<1>d. drives \in [RunIds -> DriveType] /\ drives[r] \in DriveType
  BY DEF AgentInv, AgentTypeOK
<1>a. ASSUME NEW at, DriveAt(r, at)
      PROVE  drives'[r].at = at /\ \A s \in RunIds \ {r} : drives'[s] = drives[s]
  BY <1>a, <1>d DEF DriveAt, DriveType
<1>1. CASE DriveBegin(r)
  <2>1. CASE runAt[r] = "Created"
    <3>1. runAt' = [runAt EXCEPT ![r] = "Running"] /\ DriveAt(r, "check")
      BY <1>1, <2>1 DEF DriveBegin
    <3>2. drives'[r].at = "check" /\ \A s \in RunIds \ {r} : drives'[s] = drives[s]
      BY <3>1, <1>a
    <3>3. runAt'[r] = "Running" /\ \A s \in RunIds \ {r} : runAt'[s] = runAt[s]
      BY <3>1 DEF AgentInv, AgentTypeOK
    <3> QED BY <1>1, <2>1, <3>2, <3>3, <1>T, RunMovesOn DEF DriveBegin
  <2>2. CASE runAt[r] # "Created"
    <3>1. DriveAt(r, "over") /\ UNCHANGED runAt
      BY <1>1, <2>2 DEF DriveBegin
    <3>2. drives'[r].at = "over" /\ \A s \in RunIds \ {r} : drives'[s] = drives[s]
      BY <3>1, <1>a
    <3> QED BY <1>1, <3>1, <3>2, <1>T, DriveMovesOn DEF DriveBegin, Working
  <2> QED BY <2>1, <2>2
<1>2. CASE DriveCheck(r)
  <2>1. drives'[r].at # "settle" /\ \A s \in RunIds \ {r} : drives'[s] = drives[s]
    BY <1>2, <1>a DEF DriveCheck
  <2> QED BY <1>2, <2>1, <1>T, DriveMovesOn DEF DriveCheck, Working, agentState
<1>3. CASE DriveInitial(r)
  <2>1. drives'[r].at \in {"turn", "inject"} /\ \A s \in RunIds \ {r} : drives'[s] = drives[s]
    BY <1>3, <1>a, <1>d DEF DriveInitial
  <2> QED BY <1>3, <2>1, <1>T, DriveMovesOn DEF DriveInitial, Working, agentState
<1>4. CASE DriveInject(r)
  <2>1. drives'[r].at = "turn" /\ \A s \in RunIds \ {r} : drives'[s] = drives[s]
    BY <1>4, <1>d DEF DriveInject
  <2> QED BY <1>4, <2>1, <1>T, DriveMovesOn DEF DriveInject, Working, agentState
<1>5. CASE DriveTurn(r)
  <2>1. drives'[r].at \in {"after", "after-tools", "fail", "cancel"}
        /\ \A s \in RunIds \ {r} : drives'[s] = drives[s]
    BY <1>5, <1>a DEF DriveTurn
  <2> QED BY <1>5, <2>1, <1>T, DriveMovesOn DEF DriveTurn, Working, agentState
<1>6. CASE DriveAfter(r)
  <2>1. drives'[r].at \in {"succeed", "fail", "inject", "follow"}
        /\ \A s \in RunIds \ {r} : drives'[s] = drives[s]
    BY <1>6, <1>a, <1>d DEF DriveAfter
  <2> QED BY <1>6, <2>1, <1>T, DriveMovesOn DEF DriveAfter, Working, agentState
<1>7. CASE DriveFollowUp(r)
  <2>1. drives'[r].at \in {"succeed", "inject"}
        /\ \A s \in RunIds \ {r} : drives'[s] = drives[s]
    BY <1>7, <1>d DEF DriveFollowUp
  <2> QED BY <1>7, <2>1, <1>T, DriveMovesOn DEF DriveFollowUp, Working, agentState
<1>8. CASE DriveFinish(r)
  <2>1. runAt[r] = "Running"
    BY <1>8 DEF DriveFinish, AgentInv, DutyInv, Working
  <2>2. PICK outcome \in Outcomes(r) :
          runAt' = [runAt EXCEPT ![r] = outcome] /\ DriveAt(r, "settle")
    BY <1>8, <2>1 DEF DriveFinish, RunSettled
  <2>3. outcome \in {"Succeeded", "Failed", "Cancelled"}
    BY <1>8 DEF DriveFinish, Outcomes
  <2>4. RunSettled(r)' /\ \A s \in RunIds \ {r} : runAt'[s] = runAt[s]
    BY <2>2, <2>3 DEF RunSettled, AgentInv, AgentTypeOK
  <2>5. drives'[r].at = "settle" /\ \A s \in RunIds \ {r} : drives'[s] = drives[s]
    BY <2>2, <1>a
  <2> QED BY <1>8, <2>1, <2>4, <2>5, <1>T, RunMovesOn DEF DriveFinish
<1>9. CASE DriveSettle(r)
  <2>1. drives'[r].at = "notify" /\ \A s \in RunIds \ {r} : drives'[s] = drives[s]
    BY <1>9, <1>a DEF DriveSettle
  <2> QED BY <1>9, <2>1, <1>T, DriveMovesOn DEF DriveSettle, SettleAgent, Working
<1>10. CASE DriveNotify(r)
  <2>1. drives'[r].at = "over" /\ \A s \in RunIds \ {r} : drives'[s] = drives[s]
    BY <1>10, <1>a DEF DriveNotify
  <2> QED BY <1>10, <2>1, <1>T, DriveMovesOn DEF DriveNotify, Working, agentState
<1> QED BY <1>1, <1>2, <1>3, <1>4, <1>5, <1>6, <1>7, <1>8, <1>9, <1>10 DEF Drive

(* A step that leaves the agent, its runs and its calls alone keeps it.    *)
LEMMA OthersKeep ==
  ASSUME AgentInv, AgentTypeOK', UNCHANGED <<agentState, drives, calls>>
  PROVE  AgentInv'
<1>1. \A d \in Callers : Holds(d)' = Holds(d)
  BY DEF Holds, At
<1>2. \A s \in RunIds : Owns(s)' = Owns(s)
  BY <1>1 DEF Owns, agentState
<1>3. ClaimInv'
  BY <1>1 DEF AgentInv, ClaimInv, At, agentState
<1>4. DutyInv'
  BY <1>1 DEF AgentInv, DutyInv, RunSettled, At, agentState
<1>5. OneOwner'
  BY <1>2 DEF AgentInv, OneOwner, agentState
<1> QED BY <1>3, <1>4, <1>5 DEF AgentInv

(* The inductive invariant of the shared agent holds in every state.       *)
THEOREM AgentInvariant == AgentSpec => []AgentInv
<1>1. AgentInit => AgentInv
  <2> SUFFICES ASSUME AgentInit PROVE AgentInv
    OBVIOUS
  <2> USE AgentRunAssumption
  <2>1. NoCall \in CallType /\ [at |-> "none", held |-> <<>>] \in DriveType
    BY DEF NoCall, CallType, DriveType
  <2>2. AgentTypeOK
    BY <2>1 DEF AgentInit, AgentTypeOK, IdleAfter, RunPhases, WaiterType
  <2>3. \A c \in Callers : calls[c] = NoCall /\ ~Holds(c) /\ ~At(c, "abort", "run")
    BY DEF AgentInit, Holds, At, NoCall
  <2>4. \A r \in RunIds : runAt[r] = "none" /\ drives[r].at = "none"
    BY DEF AgentInit
  <2>5. ClaimInv
    BY <2>3, <2>4 DEF AgentInit, ClaimInv, NoCall
  <2>6. DutyInv
    BY <2>3, <2>4 DEF DutyInv, Working
  <2>7. OneOwner
    BY <2>3, <2>4 DEF OneOwner, Owns
  <2> QED BY <2>2, <2>5, <2>6, <2>7 DEF AgentInv
<1>2. AgentInv /\ [AgentNext]_agentVars => AgentInv'
  <2> SUFFICES ASSUME AgentInv, [AgentNext]_agentVars PROVE AgentInv'
    OBVIOUS
  <2>1. CASE UNCHANGED agentVars
    BY <2>1, OthersKeep DEF agentVars, agentState, inputs, AgentInv, AgentTypeOK
  <2>2. ASSUME NEW q, EnqueueInput(q) PROVE AgentInv'
    BY <2>2, EnqueueTyped, OthersKeep DEF EnqueueInput, AgentInv
  <2>3. CASE WaitLook \/ WaitRegister \/ WaitAgain \/ WaitPoll
    BY <2>3, WaitTyped, OthersKeep
       DEF AgentInv, WaitLook, WaitRegister, WaitAgain, WaitPoll
  <2>4. ASSUME NEW r \in RunIds, Drive(r) PROVE AgentInv'
    BY <2>4, DriveKeeps
  <2> QED BY <2>1, <2>2, <2>3, <2>4, CallerKeeps DEF AgentNext
<1> QED BY <1>1, <1>2, PTL DEF AgentSpec

(* Every variable of the agent keeps its kind of value.                    *)
THEOREM AgentTypeCorrect == AgentSpec => []AgentTypeOK
<1>1. AgentInv => AgentTypeOK
  BY DEF AgentInv
<1> QED BY <1>1, AgentInvariant, PTL

(* Whatever number of threads start, abort, drop, drive and reset at once, *)
(* at most one run owns the agent and an owned agent is not idle.          *)
THEOREM SingleOwner == AgentSpec => []OneOwner
<1>1. AgentInv => OneOwner
  BY DEF AgentInv
<1> QED BY <1>1, AgentInvariant, PTL
-----------------------------------------------------------------------------
(* Somebody has still to notify the waiter.                                *)
Promised ==
  \/ \E r \in RunIds : drives[r].at = "notify"
  \/ \E c \in Callers : At(c, "settle", "notify") \/ calls[c].op = "abort-created"

(* Notify wakes a pending waiter.                                          *)
LEMMA NotifyWakes ==
  ASSUME AgentTypeOK, Notify PROVE waiter'.at = "pending" => waiter'.woken
<1>1. CASE waiter.at = "out"
  BY <1>1 DEF Notify
<1>2. CASE waiter.at # "out"
  <2>1. waiter' = [waiter EXCEPT !.woken = TRUE]
    BY <1>2 DEF Notify
  <2> QED BY <2>1 DEF AgentTypeOK, WaiterType
<1> QED BY <1>1, <1>2

(* A step that does not make the agent idle, and leaves the waiter and the *)
(* promises alone, leaves a waiter as well informed as it was.             *)
LEMMA PromiseKept ==
  ASSUME IdleWakesWaiter, UNCHANGED waiter, phase'.is = "Idle" => phase.is = "Idle",
         Promised => Promised'
  PROVE  IdleWakesWaiter'
BY DEF IdleWakesWaiter, Promised

(* A call that starts over or moves on keeps the promises of the others,   *)
(* and its own while it owes one.                                          *)
LEMMA CallPromises ==
  ASSUME NEW c \in Callers, UNCHANGED drives,
         \A d \in Callers \ {c} : calls'[d] = calls[d],
         At(c, "settle", "notify") \/ calls[c].op = "abort-created" =>
           (At(c, "settle", "notify") \/ calls[c].op = "abort-created")'
  PROVE  Promised => Promised'
BY DEF Promised, At

LEMMA CallerInforms ==
  ASSUME AgentInv, IdleWakesWaiter, NEW c \in Callers,
         \/ StartPrompt(c) \/ ContinueCheck(c) \/ ContinueDrain(c)
         \/ StartClaim(c) \/ StartBusy(c) \/ StartInstall(c)
         \/ Reset(c) \/ ClearQueues(c)
         \/ AbortStart(c) \/ AbortRun(c) \/ AbortAgent(c) \/ AbortSlot(c)
         \/ HandleCancel(c) \/ HandleSettle(c) \/ HandleNotify(c)
         \/ \E r \in RunIds : HandleAbort(c, r)
  PROVE  IdleWakesWaiter'
<1>c. calls \in [Callers -> CallType] /\ calls[c] \in CallType /\ AgentTypeOK
  BY DEF AgentInv, AgentTypeOK
<1>1. CASE StartPrompt(c) \/ ContinueCheck(c) \/ Reset(c) \/ AbortStart(c)
  <2>1. calls[c] = NoCall /\ UNCHANGED <<phase, drives, waiter>>
    BY <1>1 DEF StartPrompt, ContinueCheck, Reset, AbortStart, agentState
  <2>2. \A d \in Callers \ {c} : calls'[d] = calls[d]
    BY <1>1, <1>c DEF StartPrompt, ContinueCheck, Reset, AbortStart
  <2>3. ~(At(c, "settle", "notify") \/ calls[c].op = "abort-created")
    BY <2>1 DEF At, NoCall
  <2>4. Promised => Promised'
    BY <2>1, <2>2, <2>3, CallPromises
  <2> QED BY <2>1, <2>4, PromiseKept
<1>2. CASE ContinueDrain(c) \/ StartBusy(c) \/ HandleCancel(c)
  <2>1. calls[c].op \in {"start", "cancel"} /\ UNCHANGED <<drives, waiter>>
        /\ (phase'.is = "Idle" => phase.is = "Idle")
    BY <1>2 DEF ContinueDrain, StartBusy, HandleCancel, At, agentState
  <2>2. \A d \in Callers \ {c} : calls'[d] = calls[d]
    BY <1>2, <1>c DEF ContinueDrain, StartBusy, HandleCancel, Return
  <2>3. ~(At(c, "settle", "notify") \/ calls[c].op = "abort-created")
    BY <2>1 DEF At
  <2>4. Promised => Promised'
    BY <2>1, <2>2, <2>3, CallPromises
  <2> QED BY <2>1, <2>4, PromiseKept
<1>3. CASE StartClaim(c)
  BY <1>3 DEF StartClaim, IdleWakesWaiter
<1>4. CASE StartInstall(c)
  <2>1. Holds(c)
    BY <1>4 DEF StartInstall, Holds
  <2>2. calls[c].run \in RunIds /\ Owns(calls[c].run)
    BY <2>1, CallRuns DEF Owns
  <2>3. phase.is # "Idle" /\ phase' = phase
    BY <1>4, <2>2 DEF AgentInv, OneOwner, StartInstall
  <2> QED BY <2>3 DEF IdleWakesWaiter
<1>5. CASE ClearQueues(c)
  <2>1. UNCHANGED <<phase, drives, waiter>> /\ calls[c].at = "queues"
    BY <1>5 DEF ClearQueues, agentState
  <2>2. \A d \in Callers \ {c} : calls'[d] = calls[d]
    BY <1>5, <1>c DEF ClearQueues, Return, Step
  <2>3. calls[c].op = "abort-created" => calls'[c].op = "abort-created"
    BY <1>5, <1>c DEF ClearQueues, Step, CallType
  <2>4. Promised => Promised'
    BY <2>1, <2>2, <2>3, CallPromises DEF At
  <2> QED BY <2>1, <2>4, PromiseKept
<1>6. CASE AbortRun(c)
  <2>1. UNCHANGED <<phase, drives, waiter>> /\ calls[c].op = "abort"
    BY <1>6 DEF AbortRun, At
  <2>2. \A d \in Callers \ {c} : calls'[d] = calls[d]
    BY <1>6, <1>c DEF AbortRun
  <2>3. Promised => Promised'
    BY <2>1, <2>2, CallPromises DEF At
  <2> QED BY <2>1, <2>3, PromiseKept
<1>7. CASE AbortAgent(c)
  <2>1. UNCHANGED <<drives, waiter>> /\ calls[c].at = "agent"
    BY <1>7 DEF AbortAgent
  <2>2. calls'[c].op = calls[c].op /\ \A d \in Callers \ {c} : calls'[d] = calls[d]
    BY <1>7, <1>c DEF AbortAgent, Step, CallType
  <2>3. CASE calls[c].op = "abort-created"
    BY <2>2, <2>3 DEF IdleWakesWaiter
  <2>4. CASE calls[c].op # "abort-created"
    <3>1. phase'.is = "Idle" => phase.is = "Idle"
      BY <1>7, <2>4 DEF AbortAgent
    <3>2. Promised => Promised'
      BY <2>1, <2>2, <2>4, CallPromises DEF At
    <3> QED BY <2>1, <3>1, <3>2, PromiseKept
  <2> QED BY <2>3, <2>4
<1>8. CASE AbortSlot(c) \/ HandleNotify(c)
  <2>1. Notify
    BY <1>8 DEF AbortSlot, HandleNotify
  <2> QED BY <2>1, <1>c, NotifyWakes DEF IdleWakesWaiter
<1>9. CASE HandleSettle(c)
  <2>1. calls'[c].at = "notify" /\ calls'[c].op = "settle"
    BY <1>9, <1>c DEF HandleSettle, Step, CallType, At
  <2> QED BY <2>1 DEF IdleWakesWaiter, At
<1>10. ASSUME NEW r \in RunIds, HandleAbort(c, r) PROVE IdleWakesWaiter'
  <2>1. calls[c] = NoCall /\ UNCHANGED <<phase, drives, waiter>>
    BY <1>10 DEF HandleAbort
  <2>2. \A d \in Callers \ {c} : calls'[d] = calls[d]
    <3>1. ASSUME NEW x, calls' = [calls EXCEPT ![c] = x]
          PROVE  \A d \in Callers \ {c} : calls'[d] = calls[d]
      BY <3>1, <1>c
    <3> QED BY <1>10, <3>1 DEF HandleAbort
  <2>3. ~(At(c, "settle", "notify") \/ calls[c].op = "abort-created")
    BY <2>1 DEF At, NoCall
  <2>4. Promised => Promised'
    BY <2>1, <2>2, <2>3, CallPromises
  <2> QED BY <2>1, <2>4, PromiseKept
<1> QED BY <1>1, <1>2, <1>3, <1>4, <1>5, <1>6, <1>7, <1>8, <1>9, <1>10

LEMMA DriveInforms ==
  ASSUME AgentInv, IdleWakesWaiter, NEW r \in RunIds, Drive(r) PROVE IdleWakesWaiter'
<1>d. drives \in [RunIds -> DriveType] /\ drives[r] \in DriveType /\ AgentTypeOK
  BY DEF AgentInv, AgentTypeOK
<1>1. CASE DriveNotify(r)
  BY <1>1, <1>d, NotifyWakes DEF DriveNotify, IdleWakesWaiter
<1>2. CASE DriveSettle(r)
  <2>1. drives'[r].at = "notify"
    BY <1>2, <1>d DEF DriveSettle, DriveAt, DriveType
  <2> QED BY <2>1 DEF IdleWakesWaiter
<1>3. CASE ~DriveNotify(r) /\ ~DriveSettle(r)
  <2>1. UNCHANGED <<phase, calls, waiter>> /\ drives[r].at # "notify"
    BY <1>3 DEF Drive, DriveBegin, DriveCheck, DriveInitial, DriveInject, DriveTurn,
                DriveAfter, DriveFollowUp, DriveFinish, agentState
  <2>2. PICK x : drives' = [drives EXCEPT ![r] = x]
    <3>1. CASE \E at : DriveAt(r, at)
      BY <3>1 DEF DriveAt
    <3>2. CASE ~\E at : DriveAt(r, at)
      BY <1>3, <3>2 DEF Drive, DriveBegin, DriveCheck, DriveInitial, DriveInject, DriveTurn,
                DriveAfter, DriveFollowUp, DriveFinish
    <3> QED BY <3>1, <3>2
  <2>3. \A s \in RunIds : s # r => drives'[s] = drives[s]
    BY <2>2, <1>d
  <2>4. Promised => Promised'
    BY <2>1, <2>3 DEF Promised, At
  <2> QED BY <2>1, <2>4, PromiseKept
<1> QED BY <1>1, <1>2, <1>3

(* Whatever settles the agent owes a waiter that is already pending its    *)
(* notification: the look between registering and waiting closes the race. *)
THEOREM WaiterWoken == AgentSpec => []IdleWakesWaiter
<1>1. AgentInit => IdleWakesWaiter
  BY DEF AgentInit, IdleWakesWaiter
<1>2. AgentInv /\ IdleWakesWaiter /\ [AgentNext]_agentVars => IdleWakesWaiter'
  <2> SUFFICES ASSUME AgentInv, IdleWakesWaiter, [AgentNext]_agentVars PROVE IdleWakesWaiter'
    OBVIOUS
  <2>1. CASE UNCHANGED agentVars
    BY <2>1 DEF agentVars, agentState, IdleWakesWaiter, At
  <2>2. ASSUME NEW q, EnqueueInput(q) PROVE IdleWakesWaiter'
    BY <2>2 DEF EnqueueInput, agentState, IdleWakesWaiter, At
  <2>3. CASE WaitLook \/ WaitRegister \/ WaitAgain \/ WaitPoll
    <3>1. waiter'.at = "pending" => phase.is # "Idle"
      BY <2>3 DEF AgentInv, AgentTypeOK, WaitLook, WaitRegister, WaitAgain, WaitPoll
    <3>2. phase' = phase
      BY <2>3 DEF WaitLook, WaitRegister, WaitAgain, WaitPoll, agentState
    <3> QED BY <3>1, <3>2 DEF IdleWakesWaiter
  <2>4. ASSUME NEW r \in RunIds, Drive(r) PROVE IdleWakesWaiter'
    BY <2>4, DriveInforms
  <2> QED BY <2>1, <2>2, <2>3, <2>4, CallerInforms DEF AgentNext
<1> QED BY <1>1, <1>2, AgentInvariant, PTL DEF AgentSpec
-----------------------------------------------------------------------------
(* The inductive invariant of the credential.                              *)

Leading(c) == req[c].at \in {"reload", "send", "asked", "answered"}
Presents(c) == req[c].at \in {"send", "asked", "answered"}
Brings(c) == req[c].at \in {"answered", "install"}
Known(n) == n \in 1..issued
Retired(n) == token[n] = "rotated" /\ n \notin unsaved

(* The lock orders the leaders of all processes.                           *)
LockInv == \A c \in Clients : Leading(c) => lock = c

(* Every token in use was issued, and a grant's token is nowhere else      *)
(* before it is installed.                                                 *)
TokenInv ==
  /\ record # NoCred => Known(record.token)
  /\ \A c \in Clients : Presents(c) => Known(req[c].current.token)
  /\ \A c \in Clients : Brings(c) => Known(req[c].got.token)
  /\ \A d \in Clients : req[d].at = "install" =>
       /\ record.token # req[d].got.token
       /\ \A c \in Clients : Presents(c) => req[c].current.token # req[d].got.token
       /\ \A c \in Clients : Brings(c) /\ c # d => req[c].got.token # req[d].got.token

(* What the file holds, what a leader presents and what an answer brings   *)
(* is never a token whose replacement was saved.                           *)
RotationInv ==
  /\ record # NoCred => ~Retired(record.token)
  /\ \A c \in Clients : Presents(c) => ~Retired(req[c].current.token)
  /\ \A c \in Clients : Brings(c) => token[req[c].got.token] # "rotated"

CredInv == CredTypeOK /\ LockInv /\ TokenInv /\ RotationInv

LEMMA CredBasics ==
  ASSUME CredTypeOK
  PROVE  /\ MaxCreds \in Nat /\ issued \in 1..MaxCreds /\ NoCred \in Creds
         /\ NoReq \in ReqType /\ record \in Creds
         /\ \A c \in Clients : req[c] \in ReqType
<1>1. MaxCreds \in Nat /\ issued \in 1..MaxCreds
  BY CredAssumption DEF CredTypeOK, CredIds
<1>2. NoCred \in Creds
  BY CredAssumption DEF NoCred, Creds
<1>3. NoReq \in ReqType
  BY <1>2 DEF NoReq, ReqType, ReqStages
<1> QED BY <1>1, <1>2, <1>3 DEF CredTypeOK

(* A field of a call is set to one of its values.                          *)
LEMMA ReqFields ==
  ASSUME NEW x \in ReqType
  PROVE  /\ \A at \in ReqStages : [x EXCEPT !.at = at] \in ReqType
         /\ \A at \in ReqStages, k \in Creds :
              /\ [x EXCEPT !.at = at, !.observed = k] \in ReqType
              /\ [x EXCEPT !.at = at, !.current = k] \in ReqType
              /\ [x EXCEPT !.at = at, !.got = k] \in ReqType
         /\ [x EXCEPT !.at = "asked", !.tries = @ + 1] \in ReqType
         /\ \A b \in BOOLEAN : [x EXCEPT !.at = "load", !.force = b] \in ReqType
<1>1. \A at \in ReqStages : [x EXCEPT !.at = at] \in ReqType
  BY DEF ReqType
<1>2. \A at \in ReqStages, k \in Creds :
              /\ [x EXCEPT !.at = at, !.observed = k] \in ReqType
              /\ [x EXCEPT !.at = at, !.current = k] \in ReqType
              /\ [x EXCEPT !.at = at, !.got = k] \in ReqType
  BY DEF ReqType
<1>3. [x EXCEPT !.at = "asked", !.tries = @ + 1] \in ReqType
  <2>1. x.tries + 1 \in Nat /\ "asked" \in ReqStages
    BY DEF ReqType, ReqStages
  <2> QED BY <2>1 DEF ReqType
<1>4. \A b \in BOOLEAN : [x EXCEPT !.at = "load", !.force = b] \in ReqType
  BY DEF ReqType, ReqStages
<1> QED BY <1>1, <1>2, <1>3, <1>4

(* A leader's return is the end of its call.                               *)
LEMMA LeaderReturned ==
  ASSUME CredTypeOK, NEW c \in Clients, NEW outcome \in {"none", "ok", "error", "login", "permanent"},
         LeaderReturns(c, outcome)
  PROVE  /\ req' \in [Clients -> ReqType]
         /\ req'[c].at = "unlock"
         /\ \A d \in Clients \ {c} : req'[d] = req[d]
<1> DEFINE x == [NoReq EXCEPT !.at = "unlock", !.result = outcome]
<1>1. x \in ReqType /\ x.at = "unlock"
  BY CredBasics DEF ReqType, ReqStages
<1>2. req' = [req EXCEPT ![c] = x]
  BY DEF LeaderReturns
<1> HIDE DEF x
<1> QED BY <1>1, <1>2 DEF CredTypeOK

LEMMA CallDone ==
  ASSUME CredTypeOK, NEW c \in Clients, Done(c)
  PROVE  /\ req' \in [Clients -> ReqType]
         /\ req'[c].at = "idle"
         /\ \A d \in Clients \ {c} : req'[d] = req[d]
<1>1. NoReq \in ReqType /\ NoReq.at = "idle"
  BY CredBasics DEF NoReq
<1> QED BY <1>1 DEF CredTypeOK, Done

LEMMA CallMoved ==
  ASSUME CredTypeOK, NEW c \in Clients, NEW at \in ReqStages, Move(c, at)
  PROVE  /\ req' \in [Clients -> ReqType]
         /\ req'[c].at = at /\ req'[c].current = req[c].current /\ req'[c].got = req[c].got
         /\ \A d \in Clients \ {c} : req'[d] = req[d]
<1> DEFINE x == [req[c] EXCEPT !.at = at]
<1>1. x \in ReqType
  BY CredBasics, ReqFields
<1>2. x.at = at /\ x.current = req[c].current /\ x.got = req[c].got
  BY CredBasics DEF ReqType
<1>3. req' = [req EXCEPT ![c] = x]
  BY DEF Move
<1> HIDE DEF x
<1> QED BY <1>1, <1>2, <1>3 DEF CredTypeOK

(* A call that takes on no new token, or under the lock the one the file   *)
(* holds, keeps the invariant; a revocation rotates nothing, and a removed *)
(* record presents nothing.                                                *)
LEMMA ReqMoves ==
  ASSUME CredInv, CredTypeOK', NEW c \in Clients, UNCHANGED <<issued, unsaved>>,
         record' \in {record, NoCred},
         \A n \in CredIds : token'[n] = "rotated" => token[n] = "rotated",
         \A d \in Clients \ {c} : req'[d] = req[d],
         Leading(c)' => lock' = c,
         \/ lock' = lock
         \/ lock = c /\ lock' = <<>> /\ ~Leading(c)'
         \/ lock = <<>> /\ lock' = c,
         Presents(c)' => \/ Presents(c) /\ req'[c].current = req[c].current
                         \/ record # NoCred /\ req'[c].current = record,
         Brings(c)' => /\ Brings(c) /\ req'[c].got = req[c].got
                       /\ req'[c].at = "install" => req[c].at = "install"
  PROVE  CredInv'
<1> USE DEF CredInv
<1>1. \A d \in Clients : d # c => /\ Leading(d)' = Leading(d)
                                  /\ Presents(d)' = Presents(d)
                                  /\ Brings(d)' = Brings(d)
  BY DEF Leading, Presents, Brings
<1>2. LockInv'
  <2>1. \A d \in Clients : d # <<>>
    BY CredAssumption
  <2> QED BY <1>1, <2>1 DEF LockInv
<1>4. \A n : Known(n) => n \in CredIds /\ n # 0
  BY CredBasics DEF Known, CredIds
<1>5. \A d \in Clients : Presents(d)' =>
        \/ Presents(d) /\ req'[d].current = req[d].current
        \/ record # NoCred /\ req'[d].current = record
  BY <1>1
<1>6. \A d \in Clients : Brings(d)' => /\ Brings(d) /\ req'[d].got = req[d].got
                                       /\ req'[d].at = "install" => req[d].at = "install"
  BY <1>1
<1>7. TokenInv'
  <2>1. record' # NoCred => record'.token \in 1..issued'
    BY DEF TokenInv, Known
  <2>2. \A d \in Clients : Presents(d)' => req'[d].current.token \in 1..issued'
    BY <1>5 DEF TokenInv, Known
  <2>3. \A d \in Clients : Brings(d)' => req'[d].got.token \in 1..issued'
    BY <1>6 DEF TokenInv, Known
  <2>4. ASSUME NEW d \in Clients, req'[d].at = "install"
        PROVE /\ record'.token # req'[d].got.token
              /\ \A e \in Clients : Presents(e)' => req'[e].current.token # req'[d].got.token
              /\ \A e \in Clients : Brings(e)' /\ e # d => req'[e].got.token # req'[d].got.token
    <3>1. req[d].at = "install" /\ req'[d].got = req[d].got /\ Known(req[d].got.token)
      BY <2>4, <1>6 DEF Brings, TokenInv
    <3>2. record'.token # req'[d].got.token
      <4>1. NoCred.token = 0
        BY DEF NoCred
      <4> QED BY <3>1, <4>1, <1>4 DEF TokenInv
    <3>3. \A e \in Clients : Presents(e)' => req'[e].current.token # req'[d].got.token
      BY <3>1, <1>5 DEF TokenInv
    <3>4. \A e \in Clients : Brings(e)' /\ e # d => req'[e].got.token # req'[d].got.token
      BY <3>1, <1>6 DEF TokenInv
    <3> QED BY <3>2, <3>3, <3>4
  <2> QED BY <2>1, <2>2, <2>3, <2>4 DEF TokenInv, Known
<1>8. RotationInv'
  <2>1. \A n : Known(n) /\ ~Retired(n) => ~(token'[n] = "rotated" /\ n \notin unsaved')
    BY <1>4 DEF Retired
  <2>2. record' # NoCred => ~(token'[record'.token] = "rotated" /\ record'.token \notin unsaved')
    BY <2>1 DEF RotationInv, TokenInv
  <2>3. \A d \in Clients : Presents(d)' =>
        ~(token'[req'[d].current.token] = "rotated" /\ req'[d].current.token \notin unsaved')
    BY <2>1, <1>5 DEF RotationInv, TokenInv
  <2>4. \A d \in Clients : Brings(d)' => token'[req'[d].got.token] # "rotated"
    BY <1>4, <1>6 DEF RotationInv, TokenInv
  <2> QED BY <2>2, <2>3, <2>4 DEF RotationInv, Retired
<1> QED BY <1>2, <1>7, <1>8

(* The server's answer to the one leader: the presented token is retired   *)
(* only for the saved record's sake, and the answer brings one that is not. *)
LEMMA RefreshStep ==
  ASSUME CredInv, NEW c \in Clients, NEW rotate \in BOOLEAN, ServerRefreshes(c, rotate)
  PROVE  CredInv'
<1> USE DEF CredInv
<1> DEFINE n == issued + 1
           old == req[c].current.token
           k == [id |-> n, token |-> IF rotate THEN n ELSE old]
           x == [req[c] EXCEPT !.at = "answered", !.got = k]
<1>1. MaxCreds \in Nat /\ issued \in 1..MaxCreds /\ n \in 1..MaxCreds /\ issued' = n
  BY CredBasics DEF ServerRefreshes
<1>2. ReqAt(c, "asked") /\ token[old] = "live" /\ UNCHANGED <<record, expired, auth, lock, authFaults>>
  BY DEF ServerRefreshes, File
<1>3. old \in 1..issued /\ Presents(c) /\ Leading(c) /\ lock = c
  BY <1>2 DEF ReqAt, Presents, Leading, LockInv, TokenInv, Known
<1>4. old \in CredIds /\ n \in CredIds /\ old # n
  BY <1>1, <1>3 DEF CredIds
<1>5. /\ token' = IF rotate THEN [token EXCEPT ![old] = "rotated", ![n] = "live"] ELSE token
      /\ unsaved' = IF rotate THEN unsaved \cup {old} ELSE unsaved
      /\ req' = [req EXCEPT ![c] = x]
  BY DEF ServerRefreshes
<1>6. k \in Creds
  <2>1. n \in 0..MaxCreds /\ old \in 0..MaxCreds
    BY <1>1, <1>3
  <2> QED BY <2>1 DEF Creds
<1>7. x \in ReqType /\ x.at = "answered" /\ x.got = k /\ x.current = req[c].current
  <2>1. x \in ReqType
    BY <1>6, CredBasics, ReqFields DEF ReqStages
  <2> QED BY <2>1, CredBasics DEF ReqType
<1>8. k.token = (IF rotate THEN n ELSE old) /\ k.token \in 1..n /\ k.token \in CredIds
  BY <1>1, <1>3, <1>4
<1> HIDE DEF x
<1>9. req'[c] = x /\ \A d \in Clients : d # c => req'[d] = req[d]
  BY <1>5 DEF CredTypeOK
<1>10. CredTypeOK'
  <2>1. req' \in [Clients -> ReqType]
    BY <1>5, <1>7 DEF CredTypeOK
  <2>2. token' \in [CredIds -> {"none", "live", "rotated", "revoked"}] /\ unsaved' \subseteq CredIds
    BY <1>4, <1>5 DEF CredTypeOK
  <2>3. issued' \in CredIds
    BY <1>1 DEF CredIds
  <2> QED BY <1>2, <2>1, <2>2, <2>3 DEF CredTypeOK
<1>11. \A d \in Clients : d # c => ~Leading(d) /\ ~Presents(d)
                                   /\ (Brings(d) => req[d].at = "install")
  BY <1>3 DEF LockInv, Leading, Presents, Brings
<1>12. \A d \in Clients : d # c => /\ Leading(d)' = Leading(d)
                                   /\ Presents(d)' = Presents(d)
                                   /\ Brings(d)' = Brings(d)
  BY <1>9 DEF Leading, Presents, Brings
<1> HIDE DEF n, k
<1>13. req'[c].got.token = k.token /\ req'[c].current.token = old /\ req'[c].at = "answered"
  BY <1>7, <1>9
<1>14. LockInv'
  BY <1>2, <1>3, <1>11, <1>12 DEF LockInv
<1>15. ASSUME NEW d \in Clients, req[d].at = "install", d # c
       PROVE  req[d].got.token \in 1..issued /\ req[d].got.token # old
              /\ req[d].got.token # n /\ req[d].got.token # k.token
  <2>1. req[d].got.token \in 1..issued /\ req[d].got.token # old
    BY <1>3, <1>15 DEF TokenInv, Brings, Known
  <2>2. req[d].got.token # n
    BY <1>1, <2>1 DEF n
  <2> QED BY <2>1, <2>2, <1>8
<1>16. \A m \in 1..issued : m \in 1..issued'
  BY <1>1 DEF n
<1>17. TokenInv'
  <2>1. record' # NoCred => record'.token \in 1..issued'
    BY <1>2, <1>16 DEF TokenInv, Known
  <2>2. \A d \in Clients : Presents(d)' => req'[d].current.token \in 1..issued'
    BY <1>3, <1>11, <1>12, <1>13, <1>16
  <2>3. \A d \in Clients : Brings(d)' => req'[d].got.token \in 1..issued'
    <3> SUFFICES ASSUME NEW d \in Clients, Brings(d)' PROVE req'[d].got.token \in 1..issued'
      OBVIOUS
    <3>1. CASE d = c
      BY <1>1, <1>8, <1>13, <3>1
    <3>2. CASE d # c
      BY <1>9, <1>12, <1>16, <3>2 DEF TokenInv, Known
    <3> QED BY <3>1, <3>2
  <2>4. ASSUME NEW d \in Clients, req'[d].at = "install"
        PROVE /\ record'.token # req'[d].got.token
              /\ \A e \in Clients : Presents(e)' => req'[e].current.token # req'[d].got.token
              /\ \A e \in Clients : Brings(e)' /\ e # d => req'[e].got.token # req'[d].got.token
    <3>1. d # c /\ req'[d] = req[d] /\ req[d].at = "install"
      BY <2>4, <1>9, <1>13
    <3>2. record'.token # req'[d].got.token
      BY <3>1, <1>2 DEF TokenInv
    <3>3. \A e \in Clients : Presents(e)' => req'[e].current.token # req'[d].got.token
      BY <3>1, <1>11, <1>12, <1>13, <1>15
    <3>4. \A e \in Clients : Brings(e)' /\ e # d => req'[e].got.token # req'[d].got.token
      <4> SUFFICES ASSUME NEW e \in Clients, Brings(e)', e # d
                   PROVE req'[e].got.token # req'[d].got.token
        OBVIOUS
      <4>1. CASE e = c
        BY <4>1, <3>1, <1>13, <1>15
      <4>2. CASE e # c
        BY <4>2, <3>1, <1>9, <1>12 DEF TokenInv
      <4> QED BY <4>1, <4>2
    <3> QED BY <3>2, <3>3, <3>4
  <2> QED BY <2>1, <2>2, <2>3, <2>4 DEF TokenInv, Known
<1>18. \A m \in CredIds : token'[m] = "rotated" => (m = old /\ old \in unsaved') \/ token[m] = "rotated"
  BY <1>4, <1>5 DEF CredTypeOK
<1>19. unsaved \subseteq unsaved' /\ (token'[old] = "rotated" => old \in unsaved')
  BY <1>2, <1>5
<1>20. \A m : Known(m) => m \in CredIds
  BY <1>1 DEF Known, CredIds
<1>21. token'[k.token] # "rotated"
  BY <1>2, <1>4, <1>5, <1>8 DEF CredTypeOK
<1>22. RotationInv'
  <2>1. record' # NoCred => ~(token'[record'.token] = "rotated" /\ record'.token \notin unsaved')
    BY <1>2, <1>18, <1>19, <1>20 DEF RotationInv, TokenInv, Retired
  <2>2. \A d \in Clients : Presents(d)' =>
          ~(token'[req'[d].current.token] = "rotated" /\ req'[d].current.token \notin unsaved')
    BY <1>11, <1>12, <1>13, <1>19
  <2>3. \A d \in Clients : Brings(d)' => token'[req'[d].got.token] # "rotated"
    <3> SUFFICES ASSUME NEW d \in Clients, Brings(d)' PROVE token'[req'[d].got.token] # "rotated"
      OBVIOUS
    <3>1. CASE d = c
      BY <1>13, <1>21, <3>1
    <3>2. CASE d # c
      <4>1. req'[d] = req[d] /\ Brings(d) /\ req[d].at = "install"
        BY <1>9, <1>11, <1>12, <3>2
      <4>2. req[d].got.token \in CredIds /\ token[req[d].got.token] # "rotated"
            /\ req[d].got.token # old
        BY <4>1, <3>2, <1>15, <1>20 DEF RotationInv, TokenInv
      <4> QED BY <4>1, <4>2, <1>18
    <3> QED BY <3>1, <3>2
  <2> QED BY <2>1, <2>2, <2>3 DEF RotationInv, Retired
<1> QED BY <1>10, <1>14, <1>17, <1>22

(* The save retires the presented token when nobody else presents one.     *)
LEMMA SaveStep ==
  ASSUME CredInv, NEW c \in Clients, SaveReplacement(c) PROVE CredInv'
<1> USE DEF CredInv
<1> DEFINE old == req[c].current.token
<1>1. /\ req[c].at = "answered" /\ record' = req[c].got /\ unsaved' = unsaved \ {old}
      /\ LeaderReturns(c, "ok") /\ UNCHANGED <<expired, issued, token, auth, lock, authFaults>>
  BY DEF SaveReplacement, ReqAt
<1>2. /\ req' \in [Clients -> ReqType] /\ req'[c].at = "unlock"
      /\ \A d \in Clients \ {c} : req'[d] = req[d]
  BY <1>1, LeaderReturned
<1>3. req[c].got \in Creds
  BY CredBasics DEF ReqType
<1>4. CredTypeOK'
  BY <1>1, <1>2, <1>3 DEF CredTypeOK
<1>5. lock = c /\ \A d \in Clients : d # c => ~Presents(d)
  BY <1>1 DEF LockInv, Leading, Presents
<1>6. \A d \in Clients : d # c => /\ Leading(d)' = Leading(d)
                                  /\ Presents(d)' = Presents(d)
                                  /\ Brings(d)' = Brings(d)
  BY <1>2 DEF Leading, Presents, Brings
<1>7. ~Leading(c)' /\ ~Presents(c)' /\ ~Brings(c)'
  BY <1>2 DEF Leading, Presents, Brings
<1>8. Brings(c)
  BY <1>1 DEF Brings
<1>9. LockInv'
  BY <1>1, <1>6, <1>7 DEF LockInv
<1>10. TokenInv'
  <2>1. record'.token \in 1..issued'
    BY <1>1, <1>8 DEF TokenInv, Known
  <2>2. \A d \in Clients : Brings(d)' => req'[d].got.token \in 1..issued'
    BY <1>1, <1>2, <1>6, <1>7 DEF TokenInv, Known
  <2>3. ASSUME NEW d \in Clients, req'[d].at = "install"
        PROVE /\ record'.token # req'[d].got.token
              /\ \A e \in Clients : Brings(e)' /\ e # d => req'[e].got.token # req'[d].got.token
    <3>1. d # c /\ req'[d] = req[d]
      BY <2>3, <1>2
    <3>2. record'.token # req'[d].got.token
      BY <3>1, <2>3, <1>1, <1>8 DEF TokenInv
    <3>3. \A e \in Clients : Brings(e)' /\ e # d => req'[e].got.token # req'[d].got.token
      BY <3>1, <2>3, <1>2, <1>6, <1>7 DEF TokenInv
    <3> QED BY <3>2, <3>3
  <2> QED BY <1>5, <1>6, <1>7, <2>1, <2>2, <2>3 DEF TokenInv, Known
<1>11. RotationInv'
  <2>1. token'[record'.token] # "rotated"
    BY <1>1, <1>8 DEF RotationInv
  <2>2. \A d \in Clients : Brings(d)' => token'[req'[d].got.token] # "rotated"
    BY <1>1, <1>2, <1>6, <1>7 DEF RotationInv
  <2> QED BY <1>5, <1>6, <1>7, <2>1, <2>2 DEF RotationInv, Retired
<1> QED BY <1>4, <1>9, <1>10, <1>11

(* A grant brings a token nobody has.                                      *)
LEMMA GrantStep ==
  ASSUME CredInv, NEW c \in Clients, GrantReceived(c) PROVE CredInv'
<1> USE DEF CredInv
<1> DEFINE n == issued + 1
           k == [id |-> n, token |-> n]
           x == [req[c] EXCEPT !.at = "install", !.got = k]
<1>1. MaxCreds \in Nat /\ issued \in 1..MaxCreds /\ n \in 1..MaxCreds /\ issued' = n /\ n \in CredIds
  BY CredBasics DEF GrantReceived, CredIds
<1>2. /\ req[c].at = "idle" /\ UNCHANGED <<record, expired, unsaved, auth, lock>> /\ Call
      /\ token' = [token EXCEPT ![n] = "live"] /\ req' = [req EXCEPT ![c] = x]
  BY DEF GrantReceived, File, ReqAt
<1>3. k \in Creds
  BY <1>1 DEF Creds
<1>4. x \in ReqType
  BY <1>3, CredBasics, ReqFields DEF ReqStages
<1>5. x.at = "install" /\ x.got = k
  BY CredBasics DEF ReqType
<1> HIDE DEF x
<1>6. req'[c] = x /\ \A d \in Clients : d # c => req'[d] = req[d]
  BY <1>2 DEF CredTypeOK
<1>7. CredTypeOK'
  <2>1. req' \in [Clients -> ReqType]
    BY <1>2, <1>4 DEF CredTypeOK
  <2>2. token' \in [CredIds -> {"none", "live", "rotated", "revoked"}]
    BY <1>2 DEF CredTypeOK
  <2>3. issued' \in CredIds
    BY <1>1
  <2>4. authFaults' \in [reqs : Nat, lost : Nat, crashes : Nat]
    BY <1>2 DEF Call, CredTypeOK
  <2> QED BY <1>2, <2>1, <2>2, <2>3, <2>4 DEF CredTypeOK
<1>8. \A d \in Clients : d # c => /\ Leading(d)' = Leading(d)
                                  /\ Presents(d)' = Presents(d)
                                  /\ Brings(d)' = Brings(d)
  BY <1>6 DEF Leading, Presents, Brings
<1>9. ~Leading(c)' /\ ~Presents(c)' /\ req'[c].got.token = n /\ req'[c].at = "install"
  BY <1>5, <1>6 DEF Leading, Presents
<1>10. \A m \in 1..issued : m \in 1..issued' /\ m # n /\ m \in CredIds
  BY <1>1 DEF CredIds
<1>11. record.token # n
  <2>1. NoCred.token # n
    BY <1>1 DEF NoCred
  <2> QED BY <2>1, <1>10 DEF TokenInv, Known
<1> HIDE DEF n, k
<1>12. LockInv'
  BY <1>2, <1>8, <1>9 DEF LockInv
<1>13. n \in 1..issued'
  BY <1>1
<1>14. TokenInv'
  <2>1. record' # NoCred => record'.token \in 1..issued'
    BY <1>2, <1>10 DEF TokenInv, Known
  <2>2. \A d \in Clients : Presents(d)' => req'[d].current.token \in 1..issued'
                                            /\ req'[d].current.token # n
    BY <1>6, <1>8, <1>9, <1>10 DEF TokenInv, Known
  <2>3. \A d \in Clients : Brings(d)' => req'[d].got.token \in 1..issued'
                                          /\ (d # c => req'[d].got.token # n)
    BY <1>6, <1>8, <1>9, <1>10, <1>13 DEF TokenInv, Known
  <2>4. ASSUME NEW d \in Clients, req'[d].at = "install"
        PROVE /\ record'.token # req'[d].got.token
              /\ \A e \in Clients : Presents(e)' => req'[e].current.token # req'[d].got.token
              /\ \A e \in Clients : Brings(e)' /\ e # d => req'[e].got.token # req'[d].got.token
    <3>1. CASE d = c
      BY <3>1, <1>2, <1>9, <1>11, <2>2, <2>3
    <3>2. CASE d # c
      <4>1. req'[d] = req[d] /\ Brings(d)'
        BY <3>2, <2>4, <1>6 DEF Brings
      <4>2. \A e \in Clients : Brings(e)' /\ e # d => req'[e].got.token # req'[d].got.token
        BY <4>1, <3>2, <2>3, <2>4, <1>6, <1>8, <1>9 DEF TokenInv
      <4> QED BY <4>1, <4>2, <2>4, <1>2, <1>6, <1>8, <1>9 DEF TokenInv
    <3> QED BY <3>1, <3>2
  <2> QED BY <2>1, <2>2, <2>3, <2>4 DEF TokenInv, Known
<1>15. \A m \in CredIds : token'[m] = "rotated" => token[m] = "rotated" /\ m # n
  BY <1>1, <1>2 DEF CredTypeOK
<1>16. RotationInv'
  <2>1. record' # NoCred => ~(token'[record'.token] = "rotated" /\ record'.token \notin unsaved')
    BY <1>2, <1>10, <1>15 DEF RotationInv, TokenInv, Retired, Known
  <2>2. \A d \in Clients : Presents(d)' =>
          ~(token'[req'[d].current.token] = "rotated" /\ req'[d].current.token \notin unsaved')
    BY <1>2, <1>6, <1>8, <1>9, <1>10, <1>15 DEF RotationInv, TokenInv, Retired, Known
  <2>3. \A d \in Clients : Brings(d)' => token'[req'[d].got.token] # "rotated"
    BY <1>1, <1>6, <1>8, <1>9, <1>10, <1>15 DEF RotationInv, TokenInv, Known
  <2> QED BY <2>1, <2>2, <2>3 DEF RotationInv, Retired
<1> QED BY <1>7, <1>12, <1>14, <1>16

(* The installed grant was nobody's before.                                *)
LEMMA InstallGrantStep ==
  ASSUME CredInv, NEW c \in Clients, InstallGrant(c) PROVE CredInv'
<1> USE DEF CredInv
<1>1. /\ req[c].at = "install" /\ record' = req[c].got /\ Move(c, "clear")
      /\ UNCHANGED <<expired, issued, token, unsaved, auth, lock, authFaults>>
  BY DEF InstallGrant, ReqAt, Server
<1>2. /\ req' \in [Clients -> ReqType] /\ req'[c].at = "clear"
      /\ \A d \in Clients \ {c} : req'[d] = req[d]
  BY <1>1, CallMoved DEF ReqStages
<1>3. req[c].got \in Creds
  BY CredBasics DEF ReqType
<1>4. CredTypeOK'
  BY <1>1, <1>2, <1>3 DEF CredTypeOK
<1>5. \A d \in Clients : d # c => /\ Leading(d)' = Leading(d)
                                  /\ Presents(d)' = Presents(d)
                                  /\ Brings(d)' = Brings(d)
  BY <1>2 DEF Leading, Presents, Brings
<1>6. ~Leading(c)' /\ ~Presents(c)' /\ ~Brings(c)' /\ Brings(c)
  BY <1>1, <1>2 DEF Leading, Presents, Brings
<1>7. LockInv'
  BY <1>1, <1>5, <1>6 DEF LockInv
<1>8. TokenInv'
  <2>1. record'.token \in 1..issued'
    BY <1>1, <1>6 DEF TokenInv, Known
  <2>2. \A d \in Clients : /\ Presents(d)' => req'[d].current.token \in 1..issued'
                           /\ Brings(d)' => req'[d].got.token \in 1..issued'
    BY <1>1, <1>2, <1>5, <1>6 DEF TokenInv, Known
  <2>3. ASSUME NEW d \in Clients, req'[d].at = "install"
        PROVE /\ record'.token # req'[d].got.token
              /\ \A e \in Clients : Presents(e)' => req'[e].current.token # req'[d].got.token
              /\ \A e \in Clients : Brings(e)' /\ e # d => req'[e].got.token # req'[d].got.token
    <3>1. d # c /\ req'[d] = req[d] /\ req[d].at = "install"
      BY <2>3, <1>2
    <3>2. record'.token # req'[d].got.token
      BY <3>1, <1>1, <1>6 DEF TokenInv
    <3>3. \A e \in Clients : Presents(e)' => req'[e].current.token # req'[d].got.token
      BY <3>1, <1>2, <1>5, <1>6 DEF TokenInv
    <3>4. \A e \in Clients : Brings(e)' /\ e # d => req'[e].got.token # req'[d].got.token
      BY <3>1, <1>2, <1>5, <1>6 DEF TokenInv
    <3> QED BY <3>2, <3>3, <3>4
  <2> QED BY <2>1, <2>2, <2>3 DEF TokenInv, Known
<1>9. RotationInv'
  <2>1. token'[record'.token] # "rotated"
    BY <1>1, <1>6 DEF RotationInv
  <2>2. \A d \in Clients : Presents(d)' =>
          ~(token'[req'[d].current.token] = "rotated" /\ req'[d].current.token \notin unsaved')
    BY <1>1, <1>2, <1>5, <1>6 DEF RotationInv, Retired
  <2>3. \A d \in Clients : Brings(d)' => token'[req'[d].got.token] # "rotated"
    BY <1>1, <1>2, <1>5, <1>6 DEF RotationInv
  <2> QED BY <2>1, <2>2, <2>3 DEF RotationInv, Retired
<1> QED BY <1>4, <1>7, <1>8, <1>9

(* A dead process gives its lock back and forgets what it held.            *)
LEMMA CrashStep ==
  ASSUME CredInv, NEW p \in Procs, AuthCrash(p) PROVE CredInv'
<1> USE DEF CredInv
<1>1. /\ UNCHANGED <<record, expired, issued, token, unsaved>>
      /\ req' = [c \in Clients |-> IF c[1] = p THEN NoReq ELSE req[c]]
      /\ lock' = IF lock # <<>> /\ lock[1] = p THEN <<>> ELSE lock
      /\ auth' = [auth EXCEPT ![p] = NewAuth]
      /\ authFaults' = [authFaults EXCEPT !.crashes = @ + 1]
  BY DEF AuthCrash, File, Server
<1>2. CredTypeOK'
  <2>1. req' \in [Clients -> ReqType]
    BY <1>1, CredBasics DEF CredTypeOK
  <2>2. auth' \in [Procs -> [refreshing : BOOLEAN, login : BOOLEAN]]
    BY <1>1 DEF CredTypeOK, NewAuth
  <2>3. authFaults' \in [reqs : Nat, lost : Nat, crashes : Nat]
    BY <1>1 DEF CredTypeOK
  <2>4. lock' \in Clients \cup {<<>>}
    BY <1>1 DEF CredTypeOK
  <2> QED BY <1>1, <2>1, <2>2, <2>3, <2>4 DEF CredTypeOK
<1>3. \A d \in Clients : (req'[d] = req[d] /\ d[1] # p) \/ req'[d].at = "idle"
  BY <1>1 DEF NoReq
<1>4. \A d \in Clients : /\ Leading(d)' => Leading(d) /\ req'[d] = req[d] /\ d[1] # p
                         /\ Presents(d)' => Presents(d) /\ req'[d] = req[d]
                         /\ Brings(d)' => Brings(d) /\ req'[d] = req[d]
                         /\ req'[d].at = "install" => req'[d] = req[d]
  BY <1>3 DEF Leading, Presents, Brings
<1>5. LockInv'
  BY <1>1, <1>4 DEF LockInv
<1>6. TokenInv'
  BY <1>1, <1>4 DEF TokenInv, Known
<1>7. RotationInv'
  BY <1>1, <1>4 DEF RotationInv, Retired
<1> QED BY <1>2, <1>5, <1>6, <1>7

(* Every step of a refresh other than the answer and the save keeps it.    *)
LEMMA RefreshMoves ==
  ASSUME CredInv, NEW c \in Clients,
         \/ \E b \in BOOLEAN : SnapshotStart(c, b)
         \/ SnapshotLoad(c) \/ RefreshLoop(c) \/ FollowerWake(c)
         \/ TakeLock(c) \/ LockGivesUp(c) \/ Reload(c) \/ SendRefresh(c)
         \/ ServerRefuses(c) \/ AnswerLost(c) \/ SaveFails(c)
         \/ CancelRefresh(c) \/ Unlock(c) \/ LeaderFinish(c)
  PROVE  CredInv'
<1>t. CredTypeOK /\ NoReq \in ReqType /\ req[c] \in ReqType /\ c[1] \in Procs /\ record \in Creds
      /\ NoCred \in Creds
  BY CredBasics DEF CredInv, Procs
<1>s. ASSUME NEW x \in ReqType, req' = [req EXCEPT ![c] = x]
      PROVE  req' \in [Clients -> ReqType] /\ req'[c] = x
             /\ \A d \in Clients \ {c} : req'[d] = req[d]
  BY <1>s, <1>t DEF CredTypeOK
<1>q. ASSUME UNCHANGED <<record, issued, unsaved, token, lock, expired>>,
             req' \in [Clients -> ReqType],
             auth' \in [Procs -> [refreshing : BOOLEAN, login : BOOLEAN]],
             authFaults' \in [reqs : Nat, lost : Nat, crashes : Nat],
             \A d \in Clients \ {c} : req'[d] = req[d], ~Leading(c)', ~Brings(c)'
      PROVE  CredInv'
  <2>1. CredTypeOK'
    BY <1>q, <1>t DEF CredTypeOK
  <2> QED BY <1>q, <2>1, ReqMoves DEF Leading, Presents
<1> USE DEF File, Server, ReqAt
<1>1. ASSUME NEW b \in BOOLEAN, SnapshotStart(c, b) PROVE CredInv'
  <2> DEFINE x == [req[c] EXCEPT !.at = "load", !.force = b]
  <2>1. x \in ReqType /\ x.at = "load"
    <3>1. x \in ReqType
      BY <1>t, ReqFields
    <3> QED BY <3>1, <1>t DEF ReqType
  <2>2. req' = [req EXCEPT ![c] = x]
    BY <1>1 DEF SnapshotStart
  <2> HIDE DEF x
  <2>3. authFaults' \in [reqs : Nat, lost : Nat, crashes : Nat]
    <3>1. authFaults' = [authFaults EXCEPT !.reqs = @ + 1]
      BY <1>1 DEF SnapshotStart, Call
    <3> QED BY <3>1, <1>t DEF CredTypeOK
  <2>4. UNCHANGED <<record, issued, unsaved, token, lock, expired, auth>>
    BY <1>1 DEF SnapshotStart
  <2> QED BY <2>1, <2>2, <2>3, <2>4, <1>s, <1>q, <1>t DEF Leading, Brings, CredTypeOK
<1>2. CASE SnapshotLoad(c)
  <2>1. UNCHANGED <<record, issued, unsaved, token, lock, expired, auth, authFaults>>
    BY <1>2 DEF SnapshotLoad
  <2>2. CASE Done(c)
    BY <2>1, <2>2, <1>q, <1>t, CallDone DEF Leading, Brings, CredTypeOK
  <2>3. CASE req' = [req EXCEPT ![c].at = "loop", ![c].observed = record]
    <3> DEFINE x == [req[c] EXCEPT !.at = "loop", !.observed = record]
    <3>1. x \in ReqType
      BY <1>t, ReqFields DEF ReqStages
    <3>2. x.at = "loop"
      BY <1>t DEF ReqType
    <3>3. req' = [req EXCEPT ![c] = x]
      BY <2>3
    <3> HIDE DEF x
    <3> QED BY <2>1, <3>1, <3>2, <3>3, <1>s, <1>q, <1>t DEF Leading, Brings, CredTypeOK
  <2> QED BY <1>2, <2>2, <2>3 DEF SnapshotLoad
<1>3. CASE RefreshLoop(c)
  <2>1. UNCHANGED <<record, issued, unsaved, token, lock, expired, authFaults>>
    BY <1>3 DEF RefreshLoop
  <2>2. auth' \in [Procs -> [refreshing : BOOLEAN, login : BOOLEAN]]
    <3>1. auth' = auth \/ auth' = [auth EXCEPT ![c[1]].refreshing = TRUE]
      BY <1>3 DEF RefreshLoop
    <3>2. CASE auth' = auth
      BY <3>2, <1>t DEF CredTypeOK
    <3>3. CASE auth' = [auth EXCEPT ![c[1]].refreshing = TRUE]
      BY <3>3, <1>t DEF CredTypeOK
    <3> QED BY <3>1, <3>2, <3>3
  <2>3. Done(c) \/ Move(c, "wait") \/ Move(c, "lock")
    BY <1>3 DEF RefreshLoop
  <2>4. req' \in [Clients -> ReqType] /\ req'[c].at \in {"idle", "wait", "lock"}
        /\ \A d \in Clients \ {c} : req'[d] = req[d]
    BY <2>3, <1>t, CallDone, CallMoved DEF ReqStages
  <2> QED BY <2>1, <2>2, <2>4, <1>q, <1>t DEF Leading, Brings, CredTypeOK
<1>4. CASE FollowerWake(c)
  <2>1. UNCHANGED <<record, issued, unsaved, token, lock, expired, auth, authFaults>>
        /\ (Done(c) \/ Move(c, "loop"))
    BY <1>4 DEF FollowerWake
  <2>2. req' \in [Clients -> ReqType] /\ req'[c].at \in {"idle", "loop"}
        /\ \A d \in Clients \ {c} : req'[d] = req[d]
    BY <2>1, <1>t, CallDone, CallMoved DEF ReqStages
  <2> QED BY <2>1, <2>2, <1>q, <1>t DEF Leading, Brings, CredTypeOK
<1>5. CASE TakeLock(c)
  <2>1. UNCHANGED <<record, issued, unsaved, token, expired, auth, authFaults>>
        /\ lock = <<>> /\ lock' = c /\ Move(c, "reload")
    BY <1>5 DEF TakeLock
  <2>2. req' \in [Clients -> ReqType] /\ req'[c].at = "reload"
        /\ \A d \in Clients \ {c} : req'[d] = req[d]
    BY <2>1, <1>t, CallMoved DEF ReqStages
  <2>3. CredTypeOK'
    BY <2>1, <2>2, <1>t DEF CredTypeOK
  <2> QED BY <2>1, <2>2, <2>3, ReqMoves DEF Presents, Brings
<1>6. CASE LockGivesUp(c) \/ ServerRefuses(c)
  <2>1. UNCHANGED <<record, issued, unsaved, token, lock, expired, auth, authFaults>>
        /\ (LeaderReturns(c, "error") \/ LeaderReturns(c, "permanent"))
    BY <1>6 DEF LockGivesUp, ServerRefuses
  <2>2. req' \in [Clients -> ReqType] /\ req'[c].at = "unlock"
        /\ \A d \in Clients \ {c} : req'[d] = req[d]
    BY <2>1, <1>t, LeaderReturned
  <2> QED BY <2>1, <2>2, <1>q, <1>t DEF Leading, Brings, CredTypeOK
<1>7. CASE Reload(c)
  <2>1. UNCHANGED <<record, issued, unsaved, token, lock, expired, auth, authFaults>>
        /\ req[c].at = "reload"
    BY <1>7 DEF Reload
  <2>2. CASE LeaderReturns(c, "login") \/ LeaderReturns(c, "ok")
    <3>1. req' \in [Clients -> ReqType] /\ req'[c].at = "unlock"
          /\ \A d \in Clients \ {c} : req'[d] = req[d]
      BY <2>2, <1>t, LeaderReturned
    <3> QED BY <2>1, <3>1, <1>q, <1>t DEF Leading, Brings, CredTypeOK
  <2>3. CASE record # NoCred /\ req' = [req EXCEPT ![c].at = "send", ![c].current = record]
    <3> DEFINE x == [req[c] EXCEPT !.at = "send", !.current = record]
    <3>1. x \in ReqType
      BY <1>t, ReqFields DEF ReqStages
    <3>2. x.at = "send" /\ x.current = record
      BY <1>t DEF ReqType
    <3>3. req' = [req EXCEPT ![c] = x]
      BY <2>3
    <3> HIDE DEF x
    <3>4. req' \in [Clients -> ReqType] /\ req'[c] = x
          /\ \A d \in Clients \ {c} : req'[d] = req[d]
      BY <3>1, <3>3, <1>s
    <3>5. CredTypeOK'
      BY <2>1, <3>4, <1>t DEF CredTypeOK
    <3>6. lock' = c
      BY <2>1 DEF CredInv, LockInv, Leading
    <3> QED BY <2>1, <2>3, <3>2, <3>4, <3>5, <3>6, ReqMoves DEF Brings
  <2> QED BY <1>7, <2>2, <2>3 DEF Reload
<1>8. CASE SendRefresh(c)
  <2>1. UNCHANGED <<record, issued, unsaved, token, lock, expired, auth, authFaults>>
        /\ req[c].at = "send"
    BY <1>8 DEF SendRefresh
  <2> DEFINE x == [req[c] EXCEPT !.at = "asked", !.tries = @ + 1]
  <2>2. x \in ReqType
    BY <1>t, ReqFields
  <2>3. x.at = "asked" /\ x.current = req[c].current
    BY <1>t DEF ReqType
  <2>4. req' = [req EXCEPT ![c] = x]
    BY <1>8 DEF SendRefresh
  <2> HIDE DEF x
  <2>5. req' \in [Clients -> ReqType] /\ req'[c] = x
        /\ \A d \in Clients \ {c} : req'[d] = req[d]
    BY <2>2, <2>4, <1>s
  <2>6. CredTypeOK'
    BY <2>1, <2>5, <1>t DEF CredTypeOK
  <2>7. lock' = c /\ Presents(c)
    BY <2>1 DEF CredInv, LockInv, Leading, Presents
  <2> QED BY <2>1, <2>3, <2>5, <2>6, <2>7, ReqMoves DEF Brings
<1>9. CASE AnswerLost(c)
  <2>1. UNCHANGED <<record, issued, unsaved, token, lock, expired, auth>>
        /\ req[c].at \in {"asked", "answered"}
    BY <1>9 DEF AnswerLost
  <2>2. authFaults' \in [reqs : Nat, lost : Nat, crashes : Nat]
    BY <1>9, <1>t DEF AnswerLost, CredTypeOK
  <2>3. CASE LeaderReturns(c, "error")
    <3>1. req' \in [Clients -> ReqType] /\ req'[c].at = "unlock"
          /\ \A d \in Clients \ {c} : req'[d] = req[d]
      BY <2>3, <1>t, LeaderReturned
    <3> QED BY <2>1, <2>2, <3>1, <1>q, <1>t DEF Leading, Brings, CredTypeOK
  <2>4. CASE req' = [req EXCEPT ![c].at = "send", ![c].got = NoCred]
    <3> DEFINE x == [req[c] EXCEPT !.at = "send", !.got = NoCred]
    <3>1. x \in ReqType
      BY <1>t, ReqFields DEF ReqStages
    <3>2. x.at = "send" /\ x.current = req[c].current
      BY <1>t DEF ReqType
    <3>3. req' = [req EXCEPT ![c] = x]
      BY <2>4
    <3> HIDE DEF x
    <3>4. req' \in [Clients -> ReqType] /\ req'[c] = x
          /\ \A d \in Clients \ {c} : req'[d] = req[d]
      BY <3>1, <3>3, <1>s
    <3>5. CredTypeOK'
      BY <2>1, <2>2, <3>4, <1>t DEF CredTypeOK
    <3>6. lock' = c /\ Presents(c)
      BY <2>1 DEF CredInv, LockInv, Leading, Presents
    <3> QED BY <2>1, <3>2, <3>4, <3>5, <3>6, ReqMoves DEF Brings
  <2> QED BY <1>9, <2>3, <2>4 DEF AnswerLost
<1>10. CASE SaveFails(c)
  <2>1. UNCHANGED <<record, issued, unsaved, token, lock, expired, auth>>
        /\ LeaderReturns(c, "error")
    BY <1>10 DEF SaveFails
  <2>2. authFaults' \in [reqs : Nat, lost : Nat, crashes : Nat]
    BY <1>10, <1>t DEF SaveFails, CredTypeOK
  <2>3. req' \in [Clients -> ReqType] /\ req'[c].at = "unlock"
        /\ \A d \in Clients \ {c} : req'[d] = req[d]
    BY <2>1, <1>t, LeaderReturned
  <2> QED BY <2>1, <2>2, <2>3, <1>q, <1>t DEF Leading, Brings, CredTypeOK
<1>11. CASE CancelRefresh(c)
  <2>1. UNCHANGED <<record, issued, unsaved, token, lock, expired, auth, authFaults>>
        /\ (Done(c) \/ LeaderReturns(c, "error"))
    BY <1>11 DEF CancelRefresh
  <2>2. req' \in [Clients -> ReqType] /\ req'[c].at \in {"idle", "unlock"}
        /\ \A d \in Clients \ {c} : req'[d] = req[d]
    BY <2>1, <1>t, CallDone, LeaderReturned
  <2> QED BY <2>1, <2>2, <1>q, <1>t DEF Leading, Brings, CredTypeOK
<1>12. CASE Unlock(c)
  <2>1. UNCHANGED <<record, issued, unsaved, token, expired, auth, authFaults>>
        /\ lock' = (IF lock = c THEN <<>> ELSE lock) /\ Move(c, "finish")
    BY <1>12 DEF Unlock
  <2>2. req' \in [Clients -> ReqType] /\ req'[c].at = "finish"
        /\ \A d \in Clients \ {c} : req'[d] = req[d]
    BY <2>1, <1>t, CallMoved DEF ReqStages
  <2>3. CredTypeOK'
    BY <2>1, <2>2, <1>t DEF CredTypeOK
  <2> QED BY <2>1, <2>2, <2>3, ReqMoves DEF Presents, Brings, Leading
<1>13. CASE LeaderFinish(c)
  <2>1. UNCHANGED <<record, issued, unsaved, token, lock, expired, authFaults>> /\ Done(c)
    BY <1>13 DEF LeaderFinish
  <2>2. auth' \in [Procs -> [refreshing : BOOLEAN, login : BOOLEAN]]
    <3> DEFINE a == [refreshing |-> FALSE,
                     login |-> auth[c[1]].login \/ req[c].result \in {"permanent", "login"}]
    <3>1. a \in [refreshing : BOOLEAN, login : BOOLEAN]
      OBVIOUS
    <3>2. auth' = [auth EXCEPT ![c[1]] = a]
      BY <1>13 DEF LeaderFinish
    <3> QED BY <3>1, <3>2, <1>t DEF CredTypeOK
  <2>3. req' \in [Clients -> ReqType] /\ req'[c].at = "idle"
        /\ \A d \in Clients \ {c} : req'[d] = req[d]
    BY <2>1, <1>t, CallDone
  <2> QED BY <2>1, <2>2, <2>3, <1>q, <1>t DEF Leading, Brings, CredTypeOK
<1> QED BY <1>1, <1>2, <1>3, <1>4, <1>5, <1>6, <1>7, <1>8, <1>9, <1>10, <1>11, <1>12, <1>13

(* Every step of a logout and the end of a login keeps it.                 *)
LEMMA LogoutMoves ==
  ASSUME CredInv, NEW c \in Clients,
         LogoutStart(c) \/ LogoutRevoke(c) \/ LogoutRemove(c) \/ ClearLogin(c)
  PROVE  CredInv'
<1>t. CredTypeOK /\ NoReq \in ReqType /\ req[c] \in ReqType /\ c[1] \in Procs /\ record \in Creds
      /\ NoCred \in Creds
  BY CredBasics DEF CredInv, Procs
<1> USE DEF File, Server, ReqAt
<1>1. CASE LogoutStart(c)
  <2> DEFINE x == [req[c] EXCEPT !.at = "revoke", !.current = record]
  <2>1. x \in ReqType
    BY <1>t, ReqFields DEF ReqStages
  <2>2. x.at = "revoke"
    BY <1>t DEF ReqType
  <2>3. req' = [req EXCEPT ![c] = x]
    BY <1>1 DEF LogoutStart
  <2> HIDE DEF x
  <2>4. req' \in [Clients -> ReqType] /\ req'[c].at = "revoke"
        /\ \A d \in Clients \ {c} : req'[d] = req[d]
    BY <2>1, <2>2, <2>3, <1>t DEF CredTypeOK
  <2>5. authFaults' \in [reqs : Nat, lost : Nat, crashes : Nat]
    BY <1>1, <1>t DEF LogoutStart, Call, CredTypeOK
  <2>6. UNCHANGED <<record, issued, unsaved, token, lock, expired, auth>>
    BY <1>1 DEF LogoutStart
  <2>7. CredTypeOK'
    BY <2>4, <2>5, <2>6, <1>t DEF CredTypeOK
  <2> QED BY <2>4, <2>6, <2>7, ReqMoves DEF Leading, Presents, Brings
<1>2. CASE LogoutRevoke(c)
  <2>1. UNCHANGED <<record, issued, unsaved, lock, expired, auth, authFaults>> /\ Move(c, "remove")
    BY <1>2 DEF LogoutRevoke
  <2>2. req' \in [Clients -> ReqType] /\ req'[c].at = "remove"
        /\ \A d \in Clients \ {c} : req'[d] = req[d]
    BY <2>1, <1>t, CallMoved DEF ReqStages
  <2>3. token' = token \/ token' = [token EXCEPT ![req[c].current.token] = "revoked"]
    BY <1>2 DEF LogoutRevoke
  <2>4. token' \in [CredIds -> {"none", "live", "rotated", "revoked"}]
        /\ \A n \in CredIds : token'[n] = "rotated" => token[n] = "rotated"
    BY <2>3, <1>t DEF CredTypeOK
  <2>5. CredTypeOK'
    BY <2>1, <2>2, <2>4, <1>t DEF CredTypeOK
  <2> QED BY <2>1, <2>2, <2>4, <2>5, ReqMoves DEF Leading, Presents, Brings
<1>3. CASE LogoutRemove(c)
  <2>1. UNCHANGED <<issued, unsaved, token, lock, expired, auth, authFaults>>
        /\ record' = NoCred /\ Move(c, "clear")
    BY <1>3 DEF LogoutRemove
  <2>2. req' \in [Clients -> ReqType] /\ req'[c].at = "clear"
        /\ \A d \in Clients \ {c} : req'[d] = req[d]
    BY <2>1, <1>t, CallMoved DEF ReqStages
  <2>3. CredTypeOK'
    BY <2>1, <2>2, <1>t DEF CredTypeOK
  <2> QED BY <2>1, <2>2, <2>3, ReqMoves DEF Leading, Presents, Brings
<1>4. CASE ClearLogin(c)
  <2>1. UNCHANGED <<record, issued, unsaved, token, lock, expired, authFaults>> /\ Done(c)
        /\ auth' = [auth EXCEPT ![c[1]].login = FALSE]
    BY <1>4 DEF ClearLogin
  <2>2. req' \in [Clients -> ReqType] /\ req'[c].at = "idle"
        /\ \A d \in Clients \ {c} : req'[d] = req[d]
    BY <2>1, <1>t, CallDone
  <2>3. auth' \in [Procs -> [refreshing : BOOLEAN, login : BOOLEAN]]
    BY <2>1, <1>t DEF CredTypeOK
  <2>4. CredTypeOK'
    BY <2>1, <2>2, <2>3, <1>t DEF CredTypeOK
  <2> QED BY <2>1, <2>2, <2>4, ReqMoves DEF Leading, Presents, Brings
<1> QED BY <1>1, <1>2, <1>3, <1>4

(* The inductive invariant of the credential holds in every state.         *)
THEOREM CredInvariant == CredSpec => []CredInv
<1>1. CredInit => CredInv
  <2> SUFFICES ASSUME CredInit PROVE CredInv
    OBVIOUS
  <2>1. 1 \in CredIds /\ MaxCreds \in Nat /\ 1 \in 0..MaxCreds
    BY CredAssumption DEF CredIds
  <2>2. record \in Creds /\ NoCred \in Creds
    BY <2>1 DEF CredInit, Creds, NoCred
  <2>3. NoReq \in ReqType
    BY <2>2 DEF NoReq, ReqType, ReqStages
  <2>4. CredTypeOK
    <3>1. req \in [Clients -> ReqType]
      BY <2>3 DEF CredInit
    <3>2. auth \in [Procs -> [refreshing : BOOLEAN, login : BOOLEAN]]
      BY DEF CredInit, NewAuth
    <3> QED BY <2>1, <2>2, <3>1, <3>2 DEF CredInit, CredTypeOK
  <2>5. \A c \in Clients : req[c].at = "idle"
    BY DEF CredInit, NoReq
  <2>6. LockInv
    BY <2>5 DEF LockInv, Leading
  <2>7. record.token \in 1..issued /\ token[record.token] # "rotated"
    BY <2>1 DEF CredInit
  <2>8. TokenInv
    BY <2>5, <2>7 DEF TokenInv, Presents, Brings, Known
  <2>9. RotationInv
    BY <2>5, <2>7 DEF RotationInv, Presents, Brings, Retired
  <2> QED BY <2>4, <2>6, <2>8, <2>9 DEF CredInv
<1>2. CredInv /\ [CredNext]_credVars => CredInv'
  <2> SUFFICES ASSUME CredInv, [CredNext]_credVars PROVE CredInv'
    OBVIOUS
  <2>1. ASSUME UNCHANGED <<record, issued, token, unsaved, lock, req>>, CredTypeOK' PROVE CredInv'
    BY <2>1 DEF CredInv, LockInv, TokenInv, RotationInv, Leading, Presents, Brings, Known, Retired
  <2>2. CASE UNCHANGED credVars
    BY <2>1, <2>2 DEF credVars, CredInv, CredTypeOK
  <2>3. CASE Expire
    <3>1. UNCHANGED <<record, issued, token, unsaved, lock, req, auth, authFaults>>
      BY <2>3 DEF Expire, Server
    <3>2. expired' \subseteq 0..MaxCreds
      <4>1. record.id \in 0..MaxCreds
        BY DEF CredInv, CredTypeOK, Creds
      <4> QED BY <2>3, <4>1 DEF Expire, CredInv, CredTypeOK
    <3> QED BY <2>1, <3>1, <3>2 DEF CredInv, CredTypeOK
  <2>4. ASSUME NEW p \in Procs, AuthCrash(p) PROVE CredInv'
    BY <2>4, CrashStep
  <2>5. ASSUME NEW c \in Clients, NEW b \in BOOLEAN, ServerRefreshes(c, b) PROVE CredInv'
    BY <2>5, RefreshStep
  <2> QED BY <2>2, <2>3, <2>4, <2>5, RefreshMoves, LogoutMoves, SaveStep, GrantStep,
             InstallGrantStep DEF CredNext
<1> QED BY <1>1, <1>2, PTL DEF CredSpec

(* Whatever threads, processes, logins, logouts, lost answers and crashes  *)
(* interleave, a leader presents a rotated token only when its replacement *)
(* never reached the file.                                                 *)
THEOREM RotationsSafe == CredSpec => []RotationSafe
<1>1. CredInv => RotationSafe
  BY DEF CredInv, RotationInv, RotationSafe, ReqAt, Presents, Retired
<1> QED BY <1>1, CredInvariant, PTL

-----------------------------------------------------------------------------
(* The tool batch: its inductive invariant.                                *)

Started(c) == Places("start", c) # {}
Ended(c) == Places("end", c) # {}
Replied(c) == Places("result", c) # {}

(* What was emitted, call by call.                                         *)
Ordered(c) ==
  /\ \A k \in {"start", "end", "result"} : \A i, j \in Places(k, c) : i = j
  /\ \A u \in Places("update", c) : /\ \E i \in Places("start", c) : i < u
                                    /\ \A i \in Places("end", c) : u < i
  /\ \A i \in Places("result", c) :
       /\ Started(c) => \E j \in Places("end", c) : j < i
       /\ \A d \in 1..(c - 1) : \E j \in Places("result", d) : j < i

OrderInv == \A c \in CallIds : Ordered(c)

(* A sequential batch: the calls before the present one are done, those    *)
(* after it have not begun.                                                *)
SeqInv ==
  ~batch.parallel /\ pc.at # "over" =>
    /\ pc.call \in CallIds /\ pc.at \notin {"siblings", "aborted"}
    /\ \A c \in CallIds :
         /\ Started(c) <=> c < pc.call \/ (c = pc.call /\ pc.at # "announce")
         /\ Ended(c) <=> c < pc.call \/ (c = pc.call /\ pc.at = "append")
         /\ Replied(c) <=> c < pc.call
         /\ c < pc.call => tool[c] \notin {"running", "ready"} /\ effect[c] # "begun"
         /\ c > pc.call => tool[c] = "none" /\ effect[c] = "none"
    /\ pc.at \in {"announce", "prepare"} => tool[pc.call] = "none" /\ effect[pc.call] = "none"
    /\ pc.at = "launch" => tool[pc.call] = "none"
    /\ pc.at \in {"poll", "scan", "parked"} => tool[pc.call] \in {"running", "ready"}
    /\ pc.at \in {"finalize", "end", "append"} => tool[pc.call] \notin {"running", "ready"}
    /\ pc.at \in {"launch", "poll", "scan", "parked", "finalize"} => effect[pc.call] = "begun"
    /\ pc.at \in {"end", "append"} => effect[pc.call] # "begun"

(* A parallel batch: every call is announced before any is launched, and   *)
(* every one has ended before the first result.                            *)
Flight == {"poll", "scan", "parked", "siblings", "aborted", "finalize", "end"}

ParInv ==
  batch.parallel =>
    /\ pc.at \in {"announce", "prepare"} =>
         /\ pc.call \in CallIds
         /\ \A c \in CallIds :
              /\ Started(c) <=> c < pc.call \/ (c = pc.call /\ pc.at = "prepare")
              /\ Ended(c) <=> c < pc.call /\ effect[c] = "none"
              /\ c >= pc.call => effect[c] = "none"
    /\ pc.at = "launch" => \A c \in CallIds : Started(c) /\ (Ended(c) <=> effect[c] = "none")
    /\ pc.at \in {"announce", "prepare", "launch"} =>
         \A c \in CallIds : tool[c] = "none" /\ effect[c] # "settled" /\ ~Replied(c)
    /\ pc.at \in Flight =>
         \A c \in CallIds :
           /\ Started(c) /\ ~Replied(c)
           /\ Ended(c) <=> effect[c] # "begun" /\ ~(pc.at = "end" /\ c = pc.call)
           /\ effect[c] = "begun" <=> \/ c \in Pending
                                      \/ (pc.at = "finalize" /\ c = pc.call)
                                      \/ (pc.at = "aborted" /\ c \in pc.todo)
    /\ pc.at \in {"finalize", "end"} => pc.call \in CallIds /\ pc.call \notin Pending
    /\ pc.at = "end" => effect[pc.call] # "begun"
    /\ pc.at = "siblings" => pc.todo \subseteq Pending \ batch.await
    /\ pc.at = "aborted" => Pending = {}
    /\ pc.at = "append" =>
         /\ pc.call \in CallIds
         /\ \A c \in CallIds : Started(c) /\ Ended(c) /\ effect[c] # "begun" /\ (Replied(c) <=> c < pc.call)

(* A call that has ended calls back no more, and what it called back       *)
(* before is emitted before its end, unless nothing is emitted any more.   *)
Silent == \/ pc.at = "over"
          \/ batch.parallel /\ Pending = {} /\ pc.at \in {"poll", "aborted", "append"}

UpdateInv ==
  /\ pc.at \in {"finalize", "end"} => pc.call \in closed
  /\ pc.at # "over" => \A c \in CallIds : Ended(c) /\ tool[c] # "none" => c \in closed
  /\ \A c \in UpdateIds : tool[c] # "none"
  /\ Silent \/ \A c \in UpdateIds : Started(c) /\ ~Ended(c)

(* Effects and awaited calls.                                              *)
EffectInv ==
  \A c \in CallIds : /\ Ended(c) => effect[c] # "begun"
                     /\ c \in batch.await => tool[c] # "dropped"

BatchInv == BatchTypeOK /\ OrderInv /\ SeqInv /\ ParInv /\ UpdateInv /\ EffectInv

-----------------------------------------------------------------------------
(* What an emission adds.                                                  *)

Events == [kind : {"start", "update", "end", "result"}, call : CallIds]

(* The entries of an emission take the places behind those already there.  *)
LEMMA EmissionAdds ==
  ASSUME emitted \in Seq(Events), NEW es \in Seq(Events), emitted' = emitted \o es
  PROVE  /\ emitted' \in Seq(Events)
         /\ \A k, c : /\ Places(k, c) \subseteq 1..Len(emitted)
                      /\ \A i : i \in Places(k, c)' <=>
                           \/ i \in Places(k, c)
                           \/ /\ i \in (Len(emitted) + 1)..(Len(emitted) + Len(es))
                              /\ es[i - Len(emitted)] = Entry(k, c)
<1>1. /\ emitted' \in Seq(Events) /\ Len(emitted') = Len(emitted) + Len(es)
      /\ Len(emitted) \in Nat /\ Len(es) \in Nat
      /\ \A i \in 1..Len(emitted') :
           emitted'[i] = IF i <= Len(emitted) THEN emitted[i] ELSE es[i - Len(emitted)]
  BY ConcatProperties
<1>2. ASSUME NEW k, NEW c
      PROVE  /\ Places(k, c) \subseteq 1..Len(emitted)
             /\ \A i : i \in Places(k, c)' <=>
                  \/ i \in Places(k, c)
                  \/ /\ i \in (Len(emitted) + 1)..(Len(emitted) + Len(es))
                     /\ es[i - Len(emitted)] = Entry(k, c)
  <2>1. Places(k, c) = {i \in 1..Len(emitted) : emitted[i] = Entry(k, c)}
    BY DEF Places
  <2>2. Places(k, c)' = {i \in 1..Len(emitted') : emitted'[i] = Entry(k, c)}
    BY DEF Places, Entry
  <2>3. 1..Len(emitted') = (1..Len(emitted)) \cup ((Len(emitted) + 1)..(Len(emitted) + Len(es)))
    BY <1>1
  <2>4. /\ \A i \in 1..Len(emitted) : emitted'[i] = emitted[i]
        /\ \A i \in (Len(emitted) + 1)..(Len(emitted) + Len(es)) : emitted'[i] = es[i - Len(emitted)]
    BY <1>1
  <2> QED BY <2>1, <2>2, <2>3, <2>4
<1> QED BY <1>1, <1>2

(* An entry names its kind and its call.                                   *)
LEMMA EntryIs ==
  \A k, c, l, d : Entry(k, c) = Entry(l, d) <=> k = l /\ c = d
  BY DEF Entry

(* Entries of calls are events.                                            *)
LEMMA EntryType ==
  \A k \in {"start", "update", "end", "result"}, c \in CallIds : Entry(k, c) \in Events
  BY DEF Entry, Events

(* One event.                                                              *)
LEMMA OneEvent ==
  ASSUME emitted \in Seq(Events), NEW l \in {"start", "update", "end", "result"}, NEW d \in CallIds,
         emitted' = emitted \o <<Entry(l, d)>>
  PROVE  /\ emitted' \in Seq(Events)
         /\ \A k, c : /\ Places(k, c) \subseteq 1..Len(emitted)
                      /\ Places(k, c)' = IF k = l /\ c = d THEN Places(k, c) \cup {Len(emitted) + 1}
                                         ELSE Places(k, c)
<1> DEFINE es == <<Entry(l, d)>>
<1>1. es \in Seq(Events) /\ Len(es) = 1 /\ es[1] = Entry(l, d)
  BY EntryType
<1>2. Len(emitted) \in Nat
  OBVIOUS
<1>3. (Len(emitted) + 1)..(Len(emitted) + 1) = {Len(emitted) + 1} /\ (Len(emitted) + 1) - Len(emitted) = 1
  BY <1>2
<1> HIDE DEF es
<1>4. /\ emitted' \in Seq(Events)
      /\ \A k, c : /\ Places(k, c) \subseteq 1..Len(emitted)
                   /\ \A i : i \in Places(k, c)' <=>
                        \/ i \in Places(k, c)
                        \/ /\ i \in (Len(emitted) + 1)..(Len(emitted) + Len(es))
                           /\ es[i - Len(emitted)] = Entry(k, c)
  BY <1>1, EmissionAdds DEF es
<1>5. \A k, c : \A i : i \in Places(k, c)' <=>
        i \in Places(k, c) \/ (i = Len(emitted) + 1 /\ Entry(l, d) = Entry(k, c))
  BY <1>1, <1>3, <1>4
<1>6. ASSUME NEW k, NEW c
      PROVE  Places(k, c)' = IF k = l /\ c = d THEN Places(k, c) \cup {Len(emitted) + 1} ELSE Places(k, c)
  <2>1. CASE k = l /\ c = d
    BY <1>5, <2>1
  <2>2. CASE ~(k = l /\ c = d)
    <3>1. Entry(l, d) # Entry(k, c)
      BY <2>2, EntryIs
    <3> QED BY <1>5, <2>2, <3>1
  <2> QED BY <2>1, <2>2
<1> QED BY <1>4, <1>6

(* The callbacks taken so far, each after everything emitted before.       *)
LEMMA UpdatesAre ==
  ASSUME updates \in Seq(CallIds)
  PROVE  /\ UpdateEntries \in Seq(Events) /\ Len(UpdateEntries) = Len(updates)
         /\ \A i \in 1..Len(updates) : UpdateEntries[i] = Entry("update", updates[i])
         /\ UpdateIds \subseteq CallIds /\ \A i \in 1..Len(updates) : updates[i] \in UpdateIds
<1>1. Len(updates) \in Nat /\ \A i \in 1..Len(updates) : updates[i] \in CallIds
  OBVIOUS
<1>2. \A i \in 1..Len(updates) : Entry("update", updates[i]) \in Events
  BY <1>1, EntryType
<1>3. UpdateEntries \in Seq(Events) /\ Len(UpdateEntries) = Len(updates)
  BY <1>1, <1>2, IsASeq DEF UpdateEntries
<1>4. \A i \in 1..Len(updates) : UpdateEntries[i] = Entry("update", updates[i])
  BY DEF UpdateEntries
<1> QED BY <1>1, <1>3, <1>4 DEF UpdateIds

LEMMA UpdateEvents ==
  ASSUME emitted \in Seq(Events), updates \in Seq(CallIds), emitted' = emitted \o UpdateEntries
  PROVE  /\ emitted' \in Seq(Events)
         /\ \A c : \A k \in {"start", "end", "result"} : Places(k, c)' = Places(k, c)
         /\ \A c : \A u \in Places("update", c)' :
              u \in Places("update", c) \/ (u \in Nat /\ u > Len(emitted) /\ c \in UpdateIds)
<1>0. UpdateEntries \in Seq(Events)
  BY UpdatesAre
<1>1. /\ UpdateEntries \in Seq(Events) /\ Len(UpdateEntries) = Len(updates)
      /\ Len(emitted) \in Nat /\ Len(updates) \in Nat
      /\ \A i \in 1..Len(updates) : UpdateEntries[i] = Entry("update", updates[i]) /\ updates[i] \in UpdateIds
  BY UpdatesAre
<1>2. /\ emitted' \in Seq(Events)
      /\ \A k, c : \A i : i \in Places(k, c)' <=>
                            \/ i \in Places(k, c)
                            \/ /\ i \in (Len(emitted) + 1)..(Len(emitted) + Len(UpdateEntries))
                               /\ UpdateEntries[i - Len(emitted)] = Entry(k, c)
  BY <1>0, EmissionAdds
<1>3. \A i \in (Len(emitted) + 1)..(Len(emitted) + Len(UpdateEntries)) :
        /\ i \in Nat /\ i > Len(emitted) /\ updates[i - Len(emitted)] \in UpdateIds
        /\ UpdateEntries[i - Len(emitted)] = Entry("update", updates[i - Len(emitted)])
  BY <1>1
<1>4. \A i \in (Len(emitted) + 1)..(Len(emitted) + Len(UpdateEntries)) : \A k, c :
        UpdateEntries[i - Len(emitted)] = Entry(k, c) => k = "update" /\ c \in UpdateIds
  BY <1>3, EntryIs
<1>5. ASSUME NEW c, NEW k \in {"start", "end", "result"}
      PROVE  Places(k, c)' = Places(k, c)
  <2>1. \A i : i \in Places(k, c)' <=> i \in Places(k, c)
    BY <1>2, <1>4
  <2> QED BY <2>1
<1>6. ASSUME NEW c, NEW u \in Places("update", c)'
      PROVE  u \in Places("update", c) \/ (u \in Nat /\ u > Len(emitted) /\ c \in UpdateIds)
  BY <1>2, <1>3, <1>4
<1> QED BY <1>2, <1>5, <1>6

(* The same with the end of a call behind them.                            *)
LEMMA EndEvents ==
  ASSUME emitted \in Seq(Events), updates \in Seq(CallIds), NEW d \in CallIds,
         emitted' = emitted \o (UpdateEntries \o <<Entry("end", d)>>)
  PROVE  /\ emitted' \in Seq(Events)
         /\ \A c : \A k \in {"start", "result"} : Places(k, c)' = Places(k, c)
         /\ \E m \in Nat :
              /\ m > Len(emitted)
              /\ \A c : Places("end", c)' = IF c = d THEN Places("end", c) \cup {m} ELSE Places("end", c)
              /\ \A c : \A u \in Places("update", c)' :
                   \/ u \in Places("update", c)
                   \/ u \in Nat /\ u > Len(emitted) /\ u < m /\ c \in UpdateIds
<1> DEFINE es == UpdateEntries \o <<Entry("end", d)>>
           n == Len(emitted)
           q == Len(updates)
           m == n + q + 1
<1>1. /\ UpdateEntries \in Seq(Events) /\ Len(UpdateEntries) = q
      /\ n \in Nat /\ q \in Nat /\ m \in Nat /\ m > n
      /\ \A i \in 1..q : UpdateEntries[i] = Entry("update", updates[i]) /\ updates[i] \in UpdateIds
  BY UpdatesAre
<1>2. /\ <<Entry("end", d)>> \in Seq(Events) /\ Len(<<Entry("end", d)>>) = 1
      /\ <<Entry("end", d)>>[1] = Entry("end", d)
  BY EntryType
<1>3. /\ es \in Seq(Events) /\ Len(es) = q + 1
      /\ \A i \in 1..(q + 1) : es[i] = IF i <= q THEN UpdateEntries[i] ELSE <<Entry("end", d)>>[i - q]
  BY <1>1, <1>2, ConcatProperties
<1>4. es[q + 1] = Entry("end", d) /\ \A i \in 1..q : es[i] = Entry("update", updates[i])
  <2>1. q + 1 \in 1..(q + 1) /\ ~(q + 1 <= q) /\ (q + 1) - q = 1
    BY <1>1
  <2>2. \A i \in 1..q : i \in 1..(q + 1) /\ i <= q
    BY <1>1
  <2> HIDE DEF es, q
  <2> QED BY <1>1, <1>2, <1>3, <2>1, <2>2
<1> HIDE DEF es
<1>5. /\ emitted' \in Seq(Events)
      /\ \A k, c : \A i : i \in Places(k, c)' <=>
           i \in Places(k, c) \/ (i \in (n + 1)..(n + Len(es)) /\ es[i - n] = Entry(k, c))
  <2>1. es \in Seq(Events) /\ emitted' = emitted \o es
    BY <1>3 DEF es
  <2> QED BY <2>1, EmissionAdds
<1>6. (n + 1)..(n + Len(es)) = {m} \cup (n + 1)..(n + q)
  BY <1>1, <1>3
<1>7. /\ es[m - n] = Entry("end", d)
      /\ \A i \in (n + 1)..(n + q) :
           /\ i \in Nat /\ i > n /\ i < m /\ updates[i - n] \in UpdateIds
           /\ es[i - n] = Entry("update", updates[i - n])
  <2>1. m - n = q + 1
    BY <1>1
  <2>2. \A i \in (n + 1)..(n + q) : i - n \in 1..q /\ i \in Nat /\ i > n /\ i < m
    BY <1>1
  <2> QED BY <1>1, <1>4, <2>1, <2>2
<1> HIDE DEF n, q, m
<1>8. \A i \in (n + 1)..(n + q) : \A k, c : es[i - n] = Entry(k, c) => k = "update" /\ c \in UpdateIds
  BY <1>7, EntryIs
<1>9. \A k, c : es[m - n] = Entry(k, c) <=> k = "end" /\ c = d
  BY <1>7, EntryIs
<1>e. \A k, c : \A i : i \in Places(k, c)' <=>
        \/ i \in Places(k, c) \/ (i = m /\ k = "end" /\ c = d)
        \/ (i \in (n + 1)..(n + q) /\ es[i - n] = Entry(k, c))
  BY <1>5, <1>6, <1>9
<1>10. ASSUME NEW c, NEW k \in {"start", "result"}
       PROVE  Places(k, c)' = Places(k, c)
  <2>1. k # "end" /\ k # "update"
    OBVIOUS
  <2>2. \A i : i \in Places(k, c)' <=> i \in Places(k, c)
    BY <1>8, <1>e, <2>1
  <2> QED BY <2>2
<1>11. ASSUME NEW c
       PROVE  Places("end", c)' = IF c = d THEN Places("end", c) \cup {m} ELSE Places("end", c)
  <2>0. \A i \in (n + 1)..(n + q) : es[i - n] # Entry("end", c)
    BY <1>8
  <2>1. \A i : i \in Places("end", c)' <=> i \in Places("end", c) \/ (i = m /\ c = d)
    BY <1>e, <2>0
  <2>2. CASE c = d
    BY <2>1, <2>2
  <2>3. CASE c # d
    BY <2>1, <2>3
  <2> QED BY <2>2, <2>3
<1>12. \A c : \A u \in Places("update", c)' :
         u \in Places("update", c) \/ (u \in Nat /\ u > n /\ u < m /\ c \in UpdateIds)
  BY <1>7, <1>8, <1>e
<1> QED BY <1>1, <1>5, <1>10, <1>11, <1>12 DEF n

-----------------------------------------------------------------------------
(* Emissions that keep the order.                                          *)

LEMMA PlacesBelow ==
  ASSUME emitted \in Seq(Events)
  PROVE  Len(emitted) \in Nat /\ \A k, c : \A i \in Places(k, c) : i \in Nat /\ i >= 1 /\ i <= Len(emitted)
  BY DEF Places

(* A start of a call that has emitted nothing keeps the order.             *)
LEMMA StartKeepsOrder ==
  ASSUME emitted \in Seq(Events), OrderInv, NEW d \in CallIds, ~Started(d), ~Replied(d),
         emitted' = emitted \o <<Entry("start", d)>>
  PROVE  /\ emitted' \in Seq(Events) /\ OrderInv'
         /\ \A c \in CallIds : /\ Started(c)' <=> Started(c) \/ c = d
                               /\ Ended(c)' <=> Ended(c)
                               /\ Replied(c)' <=> Replied(c)
<1>1. /\ emitted' \in Seq(Events)
      /\ \A k, c : Places(k, c)' = IF k = "start" /\ c = d THEN Places(k, c) \cup {Len(emitted) + 1}
                                   ELSE Places(k, c)
  BY OneEvent
<1>2. \A c : \A k \in {"update", "end", "result"} : Places(k, c)' = Places(k, c)
  BY <1>1
<1>3. /\ Places("start", d)' = {Len(emitted) + 1} /\ Places("start", d) = {}
      /\ \A c : c # d => Places("start", c)' = Places("start", c)
  BY <1>1 DEF Started
<1>4. ASSUME NEW c \in CallIds PROVE Ordered(c)'
  <2>1. Ordered(c)
    BY DEF OrderInv
  <2>2. CASE c # d
    BY <1>2, <1>3, <2>1, <2>2 DEF Ordered, Started
  <2>3. CASE c = d
    <3>1. Places("update", d) = {} /\ Places("result", d) = {}
      BY <1>3, <2>1, <2>3 DEF Ordered, Replied
    <3> QED BY <1>2, <1>3, <2>1, <2>3, <3>1 DEF Ordered
  <2> QED BY <2>2, <2>3
<1> QED BY <1>1, <1>2, <1>3, <1>4 DEF OrderInv, Started, Ended, Replied

(* Callbacks of calls under way keep the order.                            *)
LEMMA UpdatesKeepOrder ==
  ASSUME emitted \in Seq(Events), OrderInv, updates \in Seq(CallIds),
         \A c \in UpdateIds : Started(c) /\ ~Ended(c),
         emitted' = emitted \o UpdateEntries
  PROVE  /\ emitted' \in Seq(Events) /\ OrderInv'
         /\ \A c \in CallIds : /\ Started(c)' <=> Started(c)
                               /\ Ended(c)' <=> Ended(c)
                               /\ Replied(c)' <=> Replied(c)
<1>1. /\ emitted' \in Seq(Events)
      /\ \A c : \A k \in {"start", "end", "result"} : Places(k, c)' = Places(k, c)
      /\ \A c : \A u \in Places("update", c)' :
           u \in Places("update", c) \/ (u \in Nat /\ u > Len(emitted) /\ c \in UpdateIds)
  BY UpdateEvents
<1>2. ASSUME NEW c \in CallIds PROVE Ordered(c)'
  <2>1. Ordered(c)
    BY DEF OrderInv
  <2>2. ASSUME NEW u \in Places("update", c)'
        PROVE  /\ \E i \in Places("start", c) : i < u
               /\ \A i \in Places("end", c) : u < i
    <3>1. CASE u \in Places("update", c)
      BY <2>1, <3>1 DEF Ordered
    <3>2. CASE u \in Nat /\ u > Len(emitted) /\ c \in UpdateIds
      <4>1. PICK i \in Places("start", c) : TRUE
        BY <3>2 DEF Started
      <4>2. i < u
        BY <3>2, <4>1, PlacesBelow
      <4> QED BY <3>2, <4>1, <4>2 DEF Ended
    <3> QED BY <1>1, <3>1, <3>2
  <2>3. Started(c)' <=> Started(c)
    BY <1>1 DEF Started
  <2>4. Places("start", c)' = Places("start", c) /\ Places("end", c)' = Places("end", c)
        /\ \A d : Places("result", d)' = Places("result", d)
    BY <1>1
  <2> QED BY <2>1, <2>2, <2>3, <2>4 DEF Ordered
<1> QED BY <1>1, <1>2 DEF OrderInv, Started, Ended, Replied

(* So does an end behind the callbacks.                                    *)
LEMMA EndKeepsOrder ==
  ASSUME emitted \in Seq(Events), OrderInv, updates \in Seq(CallIds),
         \A c \in UpdateIds : Started(c) /\ ~Ended(c),
         NEW d \in CallIds, ~Ended(d), ~Replied(d),
         emitted' = emitted \o (UpdateEntries \o <<Entry("end", d)>>)
  PROVE  /\ emitted' \in Seq(Events) /\ OrderInv'
         /\ \A c \in CallIds : /\ Started(c)' <=> Started(c)
                               /\ Ended(c)' <=> Ended(c) \/ c = d
                               /\ Replied(c)' <=> Replied(c)
<1>1. /\ emitted' \in Seq(Events)
      /\ \A c : \A k \in {"start", "result"} : Places(k, c)' = Places(k, c)
  BY EndEvents
<1>2. PICK m \in Nat :
        /\ m > Len(emitted)
        /\ \A c : Places("end", c)' = IF c = d THEN Places("end", c) \cup {m} ELSE Places("end", c)
        /\ \A c : \A u \in Places("update", c)' :
             \/ u \in Places("update", c)
             \/ u \in Nat /\ u > Len(emitted) /\ u < m /\ c \in UpdateIds
  BY EndEvents
<1>3. /\ Places("end", d) = {} /\ Places("end", d)' = {m}
      /\ \A c : c # d => Places("end", c)' = Places("end", c)
      /\ \A c : Places("start", c)' = Places("start", c) /\ Places("result", c)' = Places("result", c)
  BY <1>1, <1>2 DEF Ended
<1>4. ASSUME NEW c \in CallIds PROVE Ordered(c)'
  <2>1. Ordered(c)
    BY DEF OrderInv
  <2>2. ASSUME NEW u \in Places("update", c)'
        PROVE  /\ \E i \in Places("start", c) : i < u
               /\ \A i \in Places("end", c)' : u < i
    <3>1. CASE u \in Places("update", c)
      <4>1. u < m
        BY <1>2, <3>1, PlacesBelow
      <4> QED BY <1>3, <2>1, <3>1, <4>1 DEF Ordered
    <3>2. CASE u \in Nat /\ u > Len(emitted) /\ u < m /\ c \in UpdateIds
      <4>1. PICK i \in Places("start", c) : TRUE
        BY <3>2 DEF Started
      <4>2. i < u
        BY <3>2, <4>1, PlacesBelow
      <4>3. c # d => Places("end", c)' = {}
        BY <1>3, <3>2 DEF Ended
      <4>4. c = d => Places("end", c)' = {m}
        BY <1>3
      <4> QED BY <3>2, <4>1, <4>2, <4>3, <4>4
    <3> QED BY <1>2, <3>1, <3>2
  <2>3. Started(c)' <=> Started(c)
    BY <1>3 DEF Started
  <2>4. \A k \in {"start", "end", "result"} : \A i, j \in Places(k, c)' : i = j
    BY <1>3, <2>1 DEF Ordered
  <2>5. \A i \in Places("result", c) : c # d
    BY DEF Replied
  <2> QED BY <1>3, <2>1, <2>2, <2>3, <2>4, <2>5 DEF Ordered
<1> QED BY <1>1, <1>3, <1>4 DEF OrderInv, Started, Ended, Replied

(* An end with no callback before it.                                      *)
LEMMA BareEndKeepsOrder ==
  ASSUME emitted \in Seq(Events), OrderInv, NEW d \in CallIds, ~Ended(d), ~Replied(d),
         emitted' = emitted \o <<Entry("end", d)>>
  PROVE  /\ emitted' \in Seq(Events) /\ OrderInv'
         /\ \A c \in CallIds : /\ Started(c)' <=> Started(c)
                               /\ Ended(c)' <=> Ended(c) \/ c = d
                               /\ Replied(c)' <=> Replied(c)
<1>1. /\ emitted' \in Seq(Events)
      /\ \A k, c : Places(k, c)' = IF k = "end" /\ c = d THEN Places(k, c) \cup {Len(emitted) + 1}
                                   ELSE Places(k, c)
  BY OneEvent
<1>2. \A c : \A k \in {"update", "start", "result"} : Places(k, c)' = Places(k, c)
  BY <1>1
<1>3. /\ Places("end", d)' = {Len(emitted) + 1} /\ Places("end", d) = {}
      /\ \A c : c # d => Places("end", c)' = Places("end", c)
  BY <1>1 DEF Ended
<1>4. ASSUME NEW c \in CallIds PROVE Ordered(c)'
  <2>1. Ordered(c)
    BY DEF OrderInv
  <2>2. CASE c # d
    BY <1>2, <1>3, <2>1, <2>2 DEF Ordered, Started
  <2>3. CASE c = d
    <3>1. \A u \in Places("update", d) : u < Len(emitted) + 1
      BY PlacesBelow
    <3>2. Places("result", d) = {}
      BY DEF Replied
    <3> QED BY <1>2, <1>3, <2>1, <2>3, <3>1, <3>2 DEF Ordered, Started
  <2> QED BY <2>2, <2>3
<1> QED BY <1>1, <1>2, <1>3, <1>4 DEF OrderInv, Started, Ended, Replied

(* The result of a call, and of the calls skipped behind it.               *)
LEMMA ResultKeepsOrder ==
  ASSUME emitted \in Seq(Events), OrderInv, NEW d \in CallIds, NEW m \in 0..(NCalls - d),
         \A c \in CallIds : Replied(c) <=> c < d, Ended(d),
         \A c \in CallIds : c > d /\ c <= d + m => ~Started(c),
         NEW es \in Seq(Events), Len(es) = m + 1,
         \A i \in 1..(m + 1) : es[i] = Entry("result", d + i - 1),
         emitted' = emitted \o es
  PROVE  /\ emitted' \in Seq(Events) /\ OrderInv'
         /\ \A c \in CallIds : /\ Started(c)' <=> Started(c)
                               /\ Ended(c)' <=> Ended(c)
                               /\ Replied(c)' <=> c <= d + m
<1> DEFINE n == Len(emitted)
<1>0. n \in Nat /\ d \in Nat /\ d >= 1 /\ m \in Nat /\ d + m <= NCalls /\ NCalls \in Nat
      /\ CallIds = 1..NCalls
  BY ToolBatchAssumption DEF CallIds
<1>1. /\ emitted' \in Seq(Events)
      /\ \A k, c : \A i : i \in Places(k, c)' <=>
           i \in Places(k, c) \/ (i \in (n + 1)..(n + Len(es)) /\ es[i - n] = Entry(k, c))
  <2>1. es \in Seq(Events) /\ emitted \in Seq(Events) /\ emitted' = emitted \o es
    OBVIOUS
  <2> QED BY ONLY <2>1, EmissionAdds DEF n
<1> HIDE DEF n
<1>2. \A i \in (n + 1)..(n + Len(es)) : i - n \in 1..(m + 1)
  BY <1>0
<1>3. \A i \in (n + 1)..(n + Len(es)) : \A k, c :
        es[i - n] = Entry(k, c) <=> k = "result" /\ c = d + (i - n) - 1
  BY <1>2, EntryIs
<1>4. ASSUME NEW c, NEW k \in {"start", "update", "end"}
      PROVE  Places(k, c)' = Places(k, c)
  <2>1. \A i : i \in Places(k, c)' <=> i \in Places(k, c)
    BY <1>1, <1>3
  <2> QED BY <2>1
<1>5. ASSUME NEW c \in CallIds, NEW i
      PROVE  i \in Places("result", c)' <=>
               i \in Places("result", c) \/ (c >= d /\ c <= d + m /\ i = n + 1 + (c - d))
  <2>1. i \in (n + 1)..(n + Len(es)) /\ c = d + (i - n) - 1
          <=> c >= d /\ c <= d + m /\ i = n + 1 + (c - d)
    <3>0. c \in Nat /\ n + Len(es) = n + m + 1 /\ n + m + 1 \in Nat
      BY <1>0
    <3>1. ASSUME i \in (n + 1)..(n + m + 1), c = d + (i - n) - 1
          PROVE  c >= d /\ c <= d + m /\ i = n + 1 + (c - d)
      BY <1>0, <3>1
    <3>2. ASSUME c >= d, c <= d + m, i = n + 1 + (c - d)
          PROVE  i \in (n + 1)..(n + m + 1) /\ c = d + (i - n) - 1
      BY <1>0, <3>0, <3>2
    <3> QED BY <3>0, <3>1, <3>2
  <2>2. i \in (n + 1)..(n + Len(es)) /\ es[i - n] = Entry("result", c)
          <=> i \in (n + 1)..(n + Len(es)) /\ c = d + (i - n) - 1
    BY <1>3
  <2> QED BY <1>1, <2>1, <2>2
<1>6. \A c \in CallIds : c >= d => Places("result", c) = {}
  BY <1>0 DEF Replied
<1>7. \A c \in CallIds : c < d => \E i \in Places("result", c) : i \in Nat /\ i <= n
  BY <1>0, PlacesBelow DEF Replied, n
<1>8. \A c \in CallIds : c < d => \A i : i \in Places("result", c)' <=> i \in Places("result", c)
  BY <1>0, <1>5
<1>9. \A c \in CallIds : c >= d => \A i : i \in Places("result", c)' <=> c <= d + m /\ i = n + 1 + (c - d)
  BY <1>5, <1>6
<1>10. ASSUME NEW c \in CallIds PROVE Ordered(c)'
  <2>1. Ordered(c)
    BY DEF OrderInv
  <2>2. Started(c)' <=> Started(c)
    BY <1>4 DEF Started
  <2>3. \A k \in {"start", "end", "result"} : \A i, j \in Places(k, c)' : i = j
    <3>1. CASE c < d
      BY <1>4, <1>8, <2>1, <3>1 DEF Ordered
    <3>2. CASE c >= d
      BY <1>4, <1>9, <2>1, <3>2 DEF Ordered
    <3> QED BY <1>0, <3>1, <3>2
  <2>4. ASSUME NEW i \in Places("result", c)', Started(c)
        PROVE  \E j \in Places("end", c)' : j < i
    <3>1. CASE c < d
      BY <1>4, <1>8, <2>1, <2>4, <3>1 DEF Ordered
    <3>2. CASE c >= d
      <4>1. i = n + 1 + (c - d) /\ c = d
        BY <1>0, <1>9, <2>4, <3>2
      <4>2. PICK j \in Places("end", d) : j \in Nat /\ j <= n
        BY PlacesBelow DEF Ended, n
      <4> QED BY <1>0, <1>4, <4>1, <4>2
    <3> QED BY <1>0, <3>1, <3>2
  <2>5. ASSUME NEW i \in Places("result", c)', NEW e \in 1..(c - 1)
        PROVE  \E j \in Places("result", e)' : j < i
    <3>0. e \in CallIds /\ e < c /\ e \in Nat /\ c \in Nat
      BY <1>0
    <3>1. CASE c < d
      <4>1. PICK j \in Places("result", e) : j < i
        BY <1>8, <2>1, <2>5, <3>1 DEF Ordered
      <4> QED BY <1>0, <1>8, <3>0, <3>1, <4>1
    <3>2. CASE c >= d
      <4>1. i = n + 1 + (c - d) /\ c <= d + m
        BY <1>9, <2>5, <3>2
      <4>2. CASE e < d
        <5>1. PICK j \in Places("result", e) : j \in Nat /\ j <= n
          BY <1>7, <3>0, <4>2
        <5> QED BY <1>0, <1>8, <3>0, <3>2, <4>1, <4>2, <5>1
      <4>3. CASE e >= d
        <5>1. n + 1 + (e - d) \in Places("result", e)'
          BY <1>0, <1>9, <3>0, <4>1, <4>3
        <5> QED BY <1>0, <3>0, <4>1, <5>1
      <4> QED BY <1>0, <3>0, <4>2, <4>3
    <3> QED BY <1>0, <3>0, <3>1, <3>2
  <2>6. \A u \in Places("update", c)' : /\ \E i \in Places("start", c)' : i < u
                                        /\ \A i \in Places("end", c)' : u < i
    BY <1>4, <2>1 DEF Ordered
  <2> QED BY <2>2, <2>3, <2>4, <2>5, <2>6 DEF Ordered
<1>11. ASSUME NEW c \in CallIds PROVE Replied(c)' <=> c <= d + m
  <2>1. CASE c < d
    <3>1. Replied(c)'
      BY <1>7, <1>8, <2>1 DEF Replied
    <3> QED BY <1>0, <2>1, <3>1
  <2>2. CASE c >= d
    BY <1>9, <2>2 DEF Replied
  <2> QED BY <1>0, <2>1, <2>2
<1> QED BY <1>1, <1>4, <1>10, <1>11 DEF OrderInv, Started, Ended

(* Nothing is emitted.                                                     *)
LEMMA QuietKeepsOrder ==
  ASSUME OrderInv, emitted' = emitted
  PROVE  /\ OrderInv'
         /\ \A c \in CallIds : /\ Started(c)' <=> Started(c)
                               /\ Ended(c)' <=> Ended(c)
                               /\ Replied(c)' <=> Replied(c)
<1>1. \A k, c : Places(k, c)' = Places(k, c)
  BY DEF Places, Entry
<1> QED BY <1>1 DEF OrderInv, Ordered, Started, Ended, Replied

-----------------------------------------------------------------------------
(* Every step keeps the invariant.                                         *)

LEMMA CallsAre == NCalls \in Nat /\ NCalls >= 1 /\ CallIds = 1..NCalls /\ \A c \in CallIds : c \in Nat
  BY ToolBatchAssumption DEF CallIds

(* Callbacks taken, left alone, added.                                     *)
LEMMA UpdateIdsEmpty == ASSUME updates' = <<>> PROVE UpdateIds' = {}
  BY DEF UpdateIds

LEMMA UpdateIdsSame == ASSUME updates' = updates PROVE UpdateIds' = UpdateIds
  BY DEF UpdateIds

LEMMA UpdateIdsAppend ==
  ASSUME updates \in Seq(CallIds), NEW d \in CallIds, updates' = Append(updates, d)
  PROVE  updates' \in Seq(CallIds) /\ \A c : c \in UpdateIds' <=> c \in UpdateIds \/ c = d
<1>1. /\ Len(updates) \in Nat /\ Len(updates') = Len(updates) + 1 /\ updates' \in Seq(CallIds)
      /\ \A i \in 1..Len(updates) : updates'[i] = updates[i]
      /\ updates'[Len(updates) + 1] = d
  BY AppendProperties
<1>2. 1..Len(updates') = (1..Len(updates)) \cup {Len(updates) + 1}
  BY <1>1
<1>3. UpdateIds' = {updates'[i] : i \in 1..Len(updates')}
  BY DEF UpdateIds
<1> QED BY <1>1, <1>2, <1>3 DEF UpdateIds

(* Announcement, preparation and launch of calls.                          *)
LEMMA AnnounceKeeps == BatchInv /\ Announce => BatchInv'
<1> SUFFICES ASSUME BatchInv, Announce PROVE BatchInv'
  OBVIOUS
<1>u. /\ batch' = batch /\ tool' = tool /\ pushed' = pushed /\ updates' = updates /\ closed' = closed
      /\ cancelled' = cancelled /\ allowed' = allowed /\ awake' = awake
      /\ effect' = effect /\ result' = result /\ streak' = streak /\ tripped' = tripped
  BY DEF Announce
<1>p. /\ pc.at = "announce" /\ pc'.at = "prepare" /\ pc'.call = pc.call /\ pc'.todo = {}
      /\ pc' = [at |-> "prepare", call |-> pc.call, todo |-> {}]
      /\ emitted' = emitted \o <<Entry("start", pc.call)>>
  BY DEF Announce, Goto, Emit
<1>i. BatchTypeOK /\ OrderInv /\ SeqInv /\ ParInv /\ UpdateInv /\ EffectInv /\ emitted \in Seq(Events)
      /\ Pending' = Pending /\ UpdateIds' = UpdateIds
  BY <1>u, UpdateIdsSame DEF BatchInv, BatchTypeOK, Events, Pending
<1>d. PICK d \in CallIds : d = pc.call
  BY <1>p, <1>i DEF SeqInv, ParInv, BatchTypeOK
<1>n. ~Started(d) /\ ~Ended(d) /\ ~Replied(d) /\ \A c \in CallIds : ~Replied(c) \/ c < d
  BY <1>p, <1>i, <1>d, CallsAre DEF SeqInv, ParInv, BatchTypeOK
<1>o. /\ emitted' \in Seq(Events) /\ OrderInv'
      /\ \A c \in CallIds : /\ Started(c)' <=> Started(c) \/ c = d
                            /\ Ended(c)' <=> Ended(c)
                            /\ Replied(c)' <=> Replied(c)
  BY <1>p, <1>i, <1>d, <1>n, StartKeepsOrder
<1>1. BatchTypeOK'
  BY <1>u, <1>p, <1>i, <1>o DEF BatchTypeOK, Events
<1>2. SeqInv'
  BY <1>u, <1>p, <1>i, <1>d, <1>o, CallsAre DEF SeqInv
<1>3. ParInv'
  BY <1>u, <1>p, <1>i, <1>d, <1>o, CallsAre DEF ParInv, Flight
<1>4. UpdateInv'
  BY <1>u, <1>p, <1>i, <1>o, UpdatesAre DEF UpdateInv, Silent, BatchTypeOK
<1>5. EffectInv'
  BY <1>u, <1>i, <1>o DEF EffectInv
<1> QED BY <1>o, <1>1, <1>2, <1>3, <1>4, <1>5 DEF BatchInv

LEMMA PrepareImmediateKeeps == BatchInv /\ PrepareImmediate => BatchInv'
<1> SUFFICES ASSUME BatchInv, PrepareImmediate PROVE BatchInv'
  OBVIOUS
<1>u. /\ batch' = batch /\ tool' = tool /\ pushed' = pushed /\ updates' = updates /\ closed' = closed
      /\ cancelled' = cancelled /\ allowed' = allowed /\ awake' = awake
      /\ effect' = effect /\ streak' = streak /\ tripped' = tripped
  BY DEF PrepareImmediate
<1>i. BatchTypeOK /\ OrderInv /\ SeqInv /\ ParInv /\ UpdateInv /\ EffectInv /\ emitted \in Seq(Events)
      /\ Pending' = Pending /\ UpdateIds' = UpdateIds /\ pc.at = "prepare"
  BY <1>u, UpdateIdsSame DEF BatchInv, BatchTypeOK, Events, Pending, PrepareImmediate
<1>d. PICK d \in CallIds : d = pc.call
  BY <1>i DEF SeqInv, ParInv, BatchTypeOK
<1>p. /\ emitted' = emitted \o <<Entry("end", d)>> /\ result' = [result EXCEPT ![d] = "recoverable"]
      /\ pc' = IF ~batch.parallel THEN [at |-> "append", call |-> d, todo |-> {}]
               ELSE IF d < NCalls THEN [at |-> "announce", call |-> d + 1, todo |-> {}]
               ELSE [at |-> "launch", call |-> 0, todo |-> {}]
  BY <1>d DEF PrepareImmediate, Goto, Emit, NextCall
<1>q. /\ pc' \in [at : {"append", "announce", "launch"}, call : 0..NCalls, todo : SUBSET CallIds]
      /\ ~batch.parallel => pc'.at = "append" /\ pc'.call = d
      /\ batch.parallel /\ d < NCalls => pc'.at = "announce" /\ pc'.call = d + 1
      /\ batch.parallel /\ ~(d < NCalls) => pc'.at = "launch"
  BY <1>p, CallsAre
<1>n. ~Ended(d) /\ ~Replied(d) /\ Started(d) /\ tool[d] = "none" /\ effect[d] = "none" /\ d \notin UpdateIds
  BY <1>i, <1>d, CallsAre DEF SeqInv, ParInv, UpdateInv, BatchTypeOK
<1>o. /\ emitted' \in Seq(Events) /\ OrderInv'
      /\ \A c \in CallIds : /\ Started(c)' <=> Started(c)
                            /\ Ended(c)' <=> Ended(c) \/ c = d
                            /\ Replied(c)' <=> Replied(c)
  BY <1>p, <1>i, <1>n, BareEndKeepsOrder
<1>1. BatchTypeOK'
  BY <1>u, <1>p, <1>q, <1>i, <1>o DEF BatchTypeOK, Events, Reports
<1>2. SeqInv'
  BY <1>u, <1>q, <1>i, <1>d, <1>n, <1>o, CallsAre DEF SeqInv
<1>3. ParInv'
  BY <1>u, <1>q, <1>i, <1>d, <1>n, <1>o, CallsAre DEF ParInv, Flight
<1>4. UpdateInv'
  BY <1>u, <1>q, <1>i, <1>n, <1>o, UpdatesAre DEF UpdateInv, Silent, BatchTypeOK
<1>5. EffectInv'
  BY <1>u, <1>i, <1>n, <1>o DEF EffectInv
<1> QED BY <1>o, <1>1, <1>2, <1>3, <1>4, <1>5 DEF BatchInv

LEMMA PrepareExecuteKeeps == BatchInv /\ PrepareExecute => BatchInv'
<1> SUFFICES ASSUME BatchInv, PrepareExecute PROVE BatchInv'
  OBVIOUS
<1>u. /\ batch' = batch /\ tool' = tool /\ pushed' = pushed /\ updates' = updates /\ closed' = closed
      /\ cancelled' = cancelled /\ allowed' = allowed /\ awake' = awake
      /\ result' = result /\ streak' = streak /\ tripped' = tripped /\ emitted' = emitted
  BY DEF PrepareExecute
<1>i. BatchTypeOK /\ OrderInv /\ SeqInv /\ ParInv /\ UpdateInv /\ EffectInv /\ emitted \in Seq(Events)
      /\ Pending' = Pending /\ UpdateIds' = UpdateIds /\ pc.at = "prepare"
  BY <1>u, UpdateIdsSame DEF BatchInv, BatchTypeOK, Events, Pending, PrepareExecute
<1>d. PICK d \in CallIds : d = pc.call
  BY <1>i DEF SeqInv, ParInv, BatchTypeOK
<1>p. /\ effect' = [effect EXCEPT ![d] = "begun"]
      /\ pc' = IF ~batch.parallel THEN [at |-> "launch", call |-> d, todo |-> {}]
               ELSE IF d < NCalls THEN [at |-> "announce", call |-> d + 1, todo |-> {}]
               ELSE [at |-> "launch", call |-> 0, todo |-> {}]
  BY <1>d DEF PrepareExecute, Goto, NextCall
<1>e. /\ effect'[d] = "begun" /\ \A c \in CallIds : c # d => effect'[c] = effect[c]
      /\ effect' \in [CallIds -> {"none", "begun", "settled"}]
  BY <1>p, <1>i DEF BatchTypeOK
<1>q. /\ pc' \in [at : {"announce", "launch"}, call : 0..NCalls, todo : SUBSET CallIds]
      /\ ~batch.parallel => pc'.at = "launch" /\ pc'.call = d
      /\ batch.parallel /\ d < NCalls => pc'.at = "announce" /\ pc'.call = d + 1
      /\ batch.parallel /\ ~(d < NCalls) => pc'.at = "launch"
  BY <1>p, CallsAre
<1>n. ~Ended(d) /\ ~Replied(d) /\ Started(d) /\ tool[d] = "none" /\ effect[d] = "none"
  BY <1>i, <1>d, CallsAre DEF SeqInv, ParInv, UpdateInv, BatchTypeOK
<1>o. /\ OrderInv'
      /\ \A c \in CallIds : /\ Started(c)' <=> Started(c)
                            /\ Ended(c)' <=> Ended(c)
                            /\ Replied(c)' <=> Replied(c)
  BY <1>u, <1>i, QuietKeepsOrder
<1>1. BatchTypeOK'
  BY <1>u, <1>e, <1>q, <1>i, <1>o DEF BatchTypeOK
<1>2. SeqInv'
  BY <1>u, <1>e, <1>q, <1>i, <1>d, <1>n, <1>o, CallsAre DEF SeqInv
<1>3. ParInv'
  <2>1. SUFFICES ASSUME batch.parallel PROVE ParInv'
    BY <1>u DEF ParInv
  <2>2. /\ \A c \in CallIds : tool[c] = "none" /\ effect[c] # "settled" /\ ~Replied(c)
        /\ \A c \in CallIds : /\ Started(c) <=> c < d \/ c = d
                              /\ Ended(c) <=> c < d /\ effect[c] = "none"
                              /\ c >= d => effect[c] = "none"
    BY <1>i, <1>d, <2>1 DEF ParInv
  <2>3. CASE d < NCalls
    BY <1>u, <1>e, <1>q, <1>d, <1>n, <1>o, <2>1, <2>2, <2>3, CallsAre DEF ParInv, Flight
  <2>4. CASE ~(d < NCalls)
    <3>1. \A c \in CallIds : c < d \/ c = d
      BY <2>4, CallsAre
    <3> QED BY <1>u, <1>e, <1>q, <1>d, <1>n, <1>o, <2>1, <2>2, <2>4, <3>1 DEF ParInv, Flight
  <2> QED BY <2>3, <2>4
<1>4. UpdateInv'
  BY <1>u, <1>q, <1>i, <1>n, <1>o, UpdatesAre DEF UpdateInv, Silent, BatchTypeOK
<1>5. EffectInv'
  BY <1>u, <1>e, <1>i, <1>n, <1>o DEF EffectInv
<1> QED BY <1>o, <1>1, <1>2, <1>3, <1>4, <1>5 DEF BatchInv

LEMMA LaunchKeeps == BatchInv /\ Launch => BatchInv'
<1> SUFFICES ASSUME BatchInv, Launch PROVE BatchInv'
  OBVIOUS
<1>u. /\ batch' = batch /\ closed' = closed /\ cancelled' = cancelled /\ awake' = awake /\ effect' = effect
      /\ result' = result /\ streak' = streak /\ tripped' = tripped /\ emitted' = emitted
  BY DEF Launch
<1>i. BatchTypeOK /\ OrderInv /\ SeqInv /\ ParInv /\ UpdateInv /\ EffectInv /\ emitted \in Seq(Events)
      /\ pc.at = "launch"
  BY DEF BatchInv, BatchTypeOK, Events, Launch
<1>p. /\ pc' \in [at : {"poll"}, call : 0..NCalls, todo : SUBSET CallIds]
      /\ pc'.at = "poll" /\ pc'.call = pc.call
  BY <1>i DEF Launch, Goto, BatchTypeOK
<1>t. /\ tool' \in [CallIds -> {"none", "running", "ready", "taken", "dropped"}]
      /\ \A c \in CallIds : tool'[c] = IF effect[c] = "begun" /\ (batch.parallel \/ c = pc.call)
                                         THEN "running" ELSE tool[c]
  BY <1>i DEF Launch, BatchTypeOK
<1>e. PICK early \in IF batch.parallel THEN {{}} ELSE SUBSET {pc.call} :
        /\ \A c \in early : pushed[c] < MaxUpdates
        /\ pushed' = [c \in CallIds |-> pushed[c] + (IF c \in early THEN 1 ELSE 0)]
        /\ updates' = IF early = {} THEN updates ELSE Append(updates, pc.call)
        /\ allowed' = IF cancelled THEN early ELSE {}
  BY DEF Launch
<1>f. early # {} => ~batch.parallel /\ pc.call \in CallIds /\ early \subseteq CallIds
  BY <1>i, <1>e DEF SeqInv
<1>g. pushed' \in [CallIds -> 0..MaxUpdates] /\ allowed' \subseteq CallIds
  <2>1. \A c \in CallIds : pushed[c] + (IF c \in early THEN 1 ELSE 0) \in 0..MaxUpdates
    BY <1>i, <1>e, ToolBatchAssumption DEF BatchTypeOK
  <2> QED BY <1>e, <1>f, <2>1
<1>h. updates' \in Seq(CallIds) /\ \A c : c \in UpdateIds' => c \in UpdateIds \/ (c = pc.call /\ ~batch.parallel)
  <2>1. CASE early = {}
    BY <1>i, <1>e, <2>1, UpdateIdsSame DEF BatchTypeOK
  <2>2. CASE early # {}
    <3>1. PICK d \in CallIds : d = pc.call
      BY <1>f, <2>2
    <3>2. updates' = Append(updates, d)
      BY <1>e, <2>2, <3>1
    <3> QED BY <1>i, <1>f, <2>2, <3>1, <3>2, UpdateIdsAppend DEF BatchTypeOK
  <2> QED BY <2>1, <2>2
<1>o. /\ OrderInv'
      /\ \A c \in CallIds : /\ Started(c)' <=> Started(c)
                            /\ Ended(c)' <=> Ended(c)
                            /\ Replied(c)' <=> Replied(c)
  BY <1>u, <1>i, QuietKeepsOrder
<1>1. BatchTypeOK'
  BY <1>u, <1>p, <1>t, <1>g, <1>h, <1>i DEF BatchTypeOK
<1>2. SeqInv'
  BY <1>u, <1>p, <1>t, <1>i, <1>o, CallsAre DEF SeqInv
<1>3. ParInv'
  <2>1. SUFFICES ASSUME batch.parallel PROVE ParInv'
    BY <1>u DEF ParInv
  <2>2. \A c \in CallIds : c \in Pending' <=> effect[c] = "begun"
    BY <1>t, <1>i, <2>1 DEF Pending, ParInv
  <2>3. \A c \in CallIds : Started(c) /\ ~Replied(c) /\ (Ended(c) <=> effect[c] # "begun")
    BY <1>i, <2>1 DEF ParInv, BatchTypeOK
  <2> QED BY <1>u, <1>p, <1>o, <2>1, <2>2, <2>3 DEF ParInv, Flight
<1>4. UpdateInv'
  <2>1. \A c \in UpdateIds' : c \in CallIds /\ tool'[c] # "none"
    <3>1. \A c \in UpdateIds : c \in CallIds /\ tool'[c] # "none"
      BY <1>i, <1>t, UpdatesAre DEF UpdateInv, BatchTypeOK
    <3>2. ~batch.parallel => pc.call \in CallIds /\ tool'[pc.call] = "running"
      BY <1>i, <1>t DEF SeqInv
    <3> QED BY <1>h, <3>1, <3>2
  <2>2. \A c \in CallIds : Ended(c) => tool'[c] = tool[c]
    BY <1>i, <1>t DEF EffectInv
  <2>3. ~Silent /\ (~batch.parallel => pc.call \in CallIds /\ Started(pc.call) /\ ~Ended(pc.call))
    BY <1>i, CallsAre DEF Silent, SeqInv
  <2>4. \A c \in UpdateIds' : Started(c) /\ ~Ended(c)
    BY <1>h, <1>i, <2>3 DEF UpdateInv
  <2> QED BY <1>u, <1>p, <1>i, <1>o, <2>1, <2>2, <2>4 DEF UpdateInv
<1>5. EffectInv'
  BY <1>u, <1>t, <1>i, <1>o DEF EffectInv
<1> QED BY <1>o, <1>1, <1>2, <1>3, <1>4, <1>5 DEF BatchInv

(* Other threads.                                                          *)
LEMMA CallbackKeeps == ASSUME NEW d \in CallIds PROVE BatchInv /\ Callback(d) => BatchInv'
<1> SUFFICES ASSUME BatchInv, Callback(d) PROVE BatchInv'
  OBVIOUS
<1>u. /\ batch' = batch /\ pc' = pc /\ tool' = tool /\ closed' = closed
      /\ cancelled' = cancelled /\ allowed' = allowed /\ effect' = effect
      /\ result' = result /\ streak' = streak /\ tripped' = tripped /\ emitted' = emitted
  BY DEF Callback
<1>i. BatchTypeOK /\ OrderInv /\ SeqInv /\ ParInv /\ UpdateInv /\ EffectInv /\ emitted \in Seq(Events)
      /\ Pending' = Pending /\ tool[d] # "none" /\ pushed[d] < MaxUpdates
  BY <1>u DEF BatchInv, BatchTypeOK, Events, Pending, Callback
<1>p. /\ pushed' = [pushed EXCEPT ![d] = @ + 1]
      /\ \/ d \in closed /\ updates' = updates /\ awake' = awake
         \/ d \notin closed /\ updates' = Append(updates, d) /\ awake' = TRUE
  BY DEF Callback
<1>g. pushed' \in [CallIds -> 0..MaxUpdates]
  <2>1. pushed[d] + 1 \in 0..MaxUpdates
    BY <1>i, ToolBatchAssumption DEF BatchTypeOK
  <2> QED BY <1>i, <1>p, <2>1 DEF BatchTypeOK
<1>h. updates' \in Seq(CallIds) /\ awake' \in BOOLEAN
      /\ \A c : c \in UpdateIds' => c \in UpdateIds \/ (c = d /\ d \notin closed)
  <2>1. CASE d \in closed
    BY <1>i, <1>p, <2>1, UpdateIdsSame DEF BatchTypeOK
  <2>2. CASE d \notin closed
    <3>1. updates' = Append(updates, d) /\ awake' = TRUE
      BY <1>p, <2>2
    <3> QED BY <1>i, <2>2, <3>1, UpdateIdsAppend DEF BatchTypeOK
  <2> QED BY <2>1, <2>2
<1>o. /\ OrderInv'
      /\ \A c \in CallIds : /\ Started(c)' <=> Started(c)
                            /\ Ended(c)' <=> Ended(c)
                            /\ Replied(c)' <=> Replied(c)
  BY <1>u, <1>i, QuietKeepsOrder
<1>s. pc.at # "over" => Started(d)
  BY <1>i, CallsAre DEF SeqInv, ParInv, Flight, BatchTypeOK
<1>1. BatchTypeOK'
  BY <1>u, <1>g, <1>h, <1>i DEF BatchTypeOK
<1>2. SeqInv'
  BY <1>u, <1>i, <1>o DEF SeqInv
<1>3. ParInv'
  BY <1>u, <1>i, <1>o DEF ParInv
<1>4. UpdateInv'
  <2>1. Silent' <=> Silent
    BY <1>u, <1>i DEF Silent
  <2>2. \A c \in UpdateIds : c \in CallIds
    BY <1>i, UpdatesAre DEF BatchTypeOK
  <2>3. pc.at # "over" => (d \notin closed => ~Ended(d))
    BY <1>i DEF UpdateInv
  <2>4. pc.at = "over" => Silent
    BY DEF Silent
  <2> QED BY <1>u, <1>i, <1>o, <1>h, <1>s, <2>1, <2>2, <2>3, <2>4 DEF UpdateInv
<1>5. EffectInv'
  BY <1>u, <1>i, <1>o DEF EffectInv
<1> QED BY <1>o, <1>1, <1>2, <1>3, <1>4, <1>5 DEF BatchInv

LEMMA ToolReadyKeeps == ASSUME NEW d \in CallIds PROVE BatchInv /\ ToolReady(d) => BatchInv'
<1> SUFFICES ASSUME BatchInv, ToolReady(d) PROVE BatchInv'
  OBVIOUS
<1>u. /\ batch' = batch /\ pc' = pc /\ pushed' = pushed /\ updates' = updates /\ closed' = closed
      /\ cancelled' = cancelled /\ allowed' = allowed /\ effect' = effect /\ awake' = TRUE
      /\ result' = result /\ streak' = streak /\ tripped' = tripped /\ emitted' = emitted
  BY DEF ToolReady
<1>i. BatchTypeOK /\ OrderInv /\ SeqInv /\ ParInv /\ UpdateInv /\ EffectInv /\ emitted \in Seq(Events)
      /\ UpdateIds' = UpdateIds
  BY <1>u, UpdateIdsSame DEF BatchInv, BatchTypeOK, Events
<1>t. /\ tool' \in [CallIds -> {"none", "running", "ready", "taken", "dropped"}]
      /\ tool[d] = "running" /\ tool'[d] = "ready" /\ \A c \in CallIds : c # d => tool'[c] = tool[c]
  BY <1>i DEF ToolReady, BatchTypeOK
<1>q. Pending' = Pending
  BY <1>t DEF Pending
<1>o. /\ OrderInv'
      /\ \A c \in CallIds : /\ Started(c)' <=> Started(c)
                            /\ Ended(c)' <=> Ended(c)
                            /\ Replied(c)' <=> Replied(c)
  BY <1>u, <1>i, QuietKeepsOrder
<1>1. BatchTypeOK'
  BY <1>u, <1>t, <1>i DEF BatchTypeOK
<1>2. SeqInv'
  BY <1>u, <1>t, <1>i, <1>o, CallsAre DEF SeqInv
<1>3. ParInv'
  <2>1. \A c \in CallIds : tool[c] = "none" <=> tool'[c] = "none"
    BY <1>t
  <2> QED BY <1>u, <1>q, <1>i, <1>o, <2>1 DEF ParInv
<1>4. UpdateInv'
  <2>1. \A c \in CallIds : tool[c] = "none" <=> tool'[c] = "none"
    BY <1>t
  <2>2. \A c \in UpdateIds : c \in CallIds
    BY <1>i, UpdatesAre DEF BatchTypeOK
  <2> QED BY <1>u, <1>q, <1>i, <1>o, <2>1, <2>2 DEF UpdateInv, Silent
<1>5. EffectInv'
  BY <1>u, <1>t, <1>i, <1>o DEF EffectInv
<1> QED BY <1>o, <1>1, <1>2, <1>3, <1>4, <1>5 DEF BatchInv

(* Between the looks of a poll nothing the invariant speaks of moves.      *)
LEMMA LookKeeps ==
  ASSUME BatchInv, pc.at \in {"poll", "scan", "parked"}, NEW at \in {"poll", "scan", "parked"},
         pc' = [at |-> at, call |-> pc.call, todo |-> {}],
         ~batch.parallel \/ Pending # {} \/ pc.at # "poll",
         batch' = batch, tool' = tool, pushed' = pushed, updates' = updates, closed' = closed,
         cancelled' = cancelled, allowed' \subseteq CallIds, awake' \in BOOLEAN, effect' = effect,
         result' = result, streak' = streak, tripped' = tripped, emitted' = emitted
  PROVE  BatchInv'
<1>i. BatchTypeOK /\ OrderInv /\ SeqInv /\ ParInv /\ UpdateInv /\ EffectInv
      /\ Pending' = Pending /\ UpdateIds' = UpdateIds
  BY UpdateIdsSame DEF BatchInv, Pending
<1>q. pc'.at = at /\ pc'.call = pc.call /\ pc'.todo = {}
      /\ pc' \in [at : {"poll", "scan", "parked"}, call : 0..NCalls, todo : SUBSET CallIds]
  BY <1>i DEF BatchTypeOK
<1>o. /\ OrderInv'
      /\ \A c \in CallIds : /\ Started(c)' <=> Started(c)
                            /\ Ended(c)' <=> Ended(c)
                            /\ Replied(c)' <=> Replied(c)
  BY <1>i, QuietKeepsOrder
<1>1. BatchTypeOK'
  BY <1>q, <1>i DEF BatchTypeOK
<1>2. SeqInv'
  BY <1>q, <1>i, <1>o DEF SeqInv
<1>3. ParInv'
  BY <1>q, <1>i, <1>o DEF ParInv, Flight
<1>4. UpdateInv'
  BY <1>q, <1>i, <1>o, UpdatesAre DEF UpdateInv, Silent, BatchTypeOK
<1>5. EffectInv'
  BY <1>i, <1>o DEF EffectInv
<1> QED BY <1>o, <1>1, <1>2, <1>3, <1>4, <1>5 DEF BatchInv

(* Nothing but the cancellation and the waker moves.                       *)
LEMMA PlacedAlike ==
  ASSUME BatchInv, batch' = batch, pc' = pc, tool' = tool, pushed' = pushed, updates' = updates,
         closed' = closed, cancelled' \in BOOLEAN, allowed' = allowed, awake' \in BOOLEAN, effect' = effect,
         result' = result, streak' = streak, tripped' = tripped, emitted' = emitted
  PROVE  BatchInv'
<1>i. BatchTypeOK /\ OrderInv /\ SeqInv /\ ParInv /\ UpdateInv /\ EffectInv
      /\ Pending' = Pending /\ UpdateIds' = UpdateIds
  BY UpdateIdsSame DEF BatchInv, Pending
<1>o. /\ OrderInv'
      /\ \A c \in CallIds : /\ Started(c)' <=> Started(c)
                            /\ Ended(c)' <=> Ended(c)
                            /\ Replied(c)' <=> Replied(c)
  BY <1>i, QuietKeepsOrder
<1>1. BatchTypeOK'
  BY <1>i DEF BatchTypeOK
<1>2. SeqInv'
  BY <1>i, <1>o DEF SeqInv
<1>3. ParInv'
  BY <1>i, <1>o DEF ParInv
<1>4. UpdateInv'
  BY <1>i, <1>o, UpdatesAre DEF UpdateInv, Silent, BatchTypeOK
<1>5. EffectInv'
  BY <1>i, <1>o DEF EffectInv
<1> QED BY <1>o, <1>1, <1>2, <1>3, <1>4, <1>5 DEF BatchInv

(* The cancellation.                                                       *)
LEMMA CancelRunKeeps == BatchInv /\ CancelRun => BatchInv'
<1> SUFFICES ASSUME BatchInv, CancelRun PROVE BatchInv'
  OBVIOUS
<1>u. /\ batch' = batch /\ pc' = pc /\ tool' = tool /\ pushed' = pushed /\ updates' = updates /\ closed' = closed
      /\ cancelled' = TRUE /\ allowed' = allowed /\ awake' = TRUE /\ effect' = effect
      /\ result' = result /\ streak' = streak /\ tripped' = tripped /\ emitted' = emitted
  BY DEF CancelRun
<1> QED BY <1>u, PlacedAlike

(* The waker.                                                              *)
LEMMA UnparkKeeps == BatchInv /\ Unpark => BatchInv'
<1> SUFFICES ASSUME BatchInv, Unpark PROVE BatchInv'
  OBVIOUS
<1>u. /\ batch' = batch /\ tool' = tool /\ pushed' = pushed /\ updates' = updates /\ closed' = closed
      /\ cancelled' = cancelled /\ allowed' = allowed /\ awake' = awake /\ effect' = effect
      /\ result' = result /\ streak' = streak /\ tripped' = tripped /\ emitted' = emitted
      /\ pc.at = "parked" /\ pc' = [at |-> "poll", call |-> pc.call, todo |-> {}]
  BY DEF Unpark, Goto
<1> QED BY <1>u, LookKeeps DEF BatchInv, BatchTypeOK

(* The outcome of a call, its end, and the results.                        *)
LEMMA FinalizeKeeps == BatchInv /\ Finalize => BatchInv'
<1> SUFFICES ASSUME BatchInv, Finalize PROVE BatchInv'
  OBVIOUS
<1>u. /\ batch' = batch /\ tool' = tool /\ pushed' = pushed /\ updates' = updates /\ closed' = closed
      /\ cancelled' = cancelled /\ allowed' = allowed /\ awake' = awake
      /\ streak' = streak /\ tripped' = tripped /\ emitted' = emitted
  BY DEF Finalize
<1>i. BatchTypeOK /\ OrderInv /\ SeqInv /\ ParInv /\ UpdateInv /\ EffectInv
      /\ Pending' = Pending /\ UpdateIds' = UpdateIds /\ pc.at = "finalize"
  BY <1>u, UpdateIdsSame DEF BatchInv, Pending, Finalize
<1>d. PICK d \in CallIds : d = pc.call
  BY <1>i DEF SeqInv, ParInv, BatchTypeOK
<1>p. /\ effect' = [effect EXCEPT ![d] = "settled"] /\ pc' = [at |-> "end", call |-> d, todo |-> {}]
      /\ \E r \in Reports : result' = [result EXCEPT ![d] = r]
  BY <1>d DEF Finalize, Goto
<1>e. /\ effect' \in [CallIds -> {"none", "begun", "settled"}]
      /\ effect'[d] = "settled" /\ \A c \in CallIds : c # d => effect'[c] = effect[c]
      /\ result' \in [CallIds -> Reports \cup {"none"}]
  BY <1>i, <1>p DEF BatchTypeOK
<1>q. pc'.at = "end" /\ pc'.call = d /\ pc'.todo = {}
      /\ pc' \in [at : {"end"}, call : 0..NCalls, todo : SUBSET CallIds]
  BY <1>p, CallsAre
<1>o. /\ OrderInv'
      /\ \A c \in CallIds : /\ Started(c)' <=> Started(c)
                            /\ Ended(c)' <=> Ended(c)
                            /\ Replied(c)' <=> Replied(c)
  BY <1>u, <1>i, QuietKeepsOrder
<1>1. BatchTypeOK'
  BY <1>u, <1>q, <1>e, <1>i DEF BatchTypeOK
<1>2. SeqInv'
  BY <1>u, <1>q, <1>e, <1>d, <1>i, <1>o, CallsAre DEF SeqInv
<1>3. ParInv'
  BY <1>u, <1>q, <1>e, <1>d, <1>i, <1>o DEF ParInv, Flight
<1>4. UpdateInv'
  BY <1>u, <1>q, <1>d, <1>i, <1>o, UpdatesAre DEF UpdateInv, Silent, BatchTypeOK
<1>5. EffectInv'
  BY <1>u, <1>e, <1>i, <1>o DEF EffectInv
<1> QED BY <1>o, <1>1, <1>2, <1>3, <1>4, <1>5 DEF BatchInv

LEMMA EndCallKeeps == BatchInv /\ EndCall => BatchInv'
<1> SUFFICES ASSUME BatchInv, EndCall PROVE BatchInv'
  OBVIOUS
<1>u. /\ batch' = batch /\ tool' = tool /\ pushed' = pushed /\ updates' = <<>> /\ closed' = closed
      /\ cancelled' = cancelled /\ allowed' = allowed /\ awake' = awake /\ effect' = effect
      /\ result' = result /\ streak' = streak /\ tripped' = tripped
  BY DEF EndCall
<1>i. BatchTypeOK /\ OrderInv /\ SeqInv /\ ParInv /\ UpdateInv /\ EffectInv /\ emitted \in Seq(Events)
      /\ updates \in Seq(CallIds) /\ Pending' = Pending /\ UpdateIds' = {} /\ pc.at = "end"
  BY <1>u, UpdateIdsEmpty DEF BatchInv, BatchTypeOK, Events, Pending, EndCall
<1>d. PICK d \in CallIds : d = pc.call
  BY <1>i DEF SeqInv, ParInv, BatchTypeOK
<1>p. /\ emitted' = emitted \o (UpdateEntries \o <<Entry("end", d)>>)
      /\ pc' = IF batch.parallel THEN [at |-> "poll", call |-> 0, todo |-> {}]
               ELSE [at |-> "append", call |-> d, todo |-> {}]
  BY <1>d DEF EndCall, Goto, Emit
<1>q. /\ pc' \in [at : {"poll", "append"}, call : 0..NCalls, todo : SUBSET CallIds]
      /\ batch.parallel => pc'.at = "poll"
      /\ ~batch.parallel => pc'.at = "append" /\ pc'.call = d
  BY <1>p, CallsAre
<1>n. ~Ended(d) /\ ~Replied(d) /\ \A c \in UpdateIds : Started(c) /\ ~Ended(c)
  BY <1>i, <1>d, CallsAre DEF SeqInv, ParInv, UpdateInv, Silent, Flight
<1>o. /\ emitted' \in Seq(Events) /\ OrderInv'
      /\ \A c \in CallIds : /\ Started(c)' <=> Started(c)
                            /\ Ended(c)' <=> Ended(c) \/ c = d
                            /\ Replied(c)' <=> Replied(c)
  BY <1>p, <1>i, <1>n, EndKeepsOrder
<1>1. BatchTypeOK'
  BY <1>u, <1>q, <1>i, <1>o DEF BatchTypeOK, Events
<1>2. SeqInv'
  BY <1>u, <1>q, <1>d, <1>i, <1>o, CallsAre DEF SeqInv
<1>3. ParInv'
  BY <1>u, <1>q, <1>d, <1>i, <1>o DEF ParInv, Flight
<1>4. UpdateInv'
  BY <1>u, <1>q, <1>d, <1>i, <1>o DEF UpdateInv
<1>5. EffectInv'
  BY <1>u, <1>d, <1>i, <1>o DEF EffectInv, SeqInv, ParInv
<1> QED BY <1>o, <1>1, <1>2, <1>3, <1>4, <1>5 DEF BatchInv

LEMMA BatchCompleteKeeps == BatchInv /\ BatchComplete => BatchInv'
<1> SUFFICES ASSUME BatchInv, BatchComplete PROVE BatchInv'
  OBVIOUS
<1>u. /\ batch' = batch /\ tool' = tool /\ pushed' = pushed /\ updates' = updates /\ closed' = closed
      /\ cancelled' = cancelled /\ allowed' = allowed /\ awake' = awake /\ effect' = effect
      /\ result' = result /\ streak' = streak /\ tripped' = tripped /\ emitted' = emitted
      /\ pc.at = "poll" /\ batch.parallel /\ Pending = {} /\ pc' = [at |-> "append", call |-> 1, todo |-> {}]
  BY DEF BatchComplete, Goto
<1>i. BatchTypeOK /\ OrderInv /\ SeqInv /\ ParInv /\ UpdateInv /\ EffectInv
      /\ Pending' = Pending /\ UpdateIds' = UpdateIds
  BY <1>u, UpdateIdsSame DEF BatchInv, Pending
<1>q. pc'.at = "append" /\ pc'.call = 1 /\ pc'.todo = {} /\ 1 \in CallIds
      /\ pc' \in [at : {"append"}, call : 0..NCalls, todo : SUBSET CallIds]
  BY <1>u, CallsAre
<1>o. /\ OrderInv'
      /\ \A c \in CallIds : /\ Started(c)' <=> Started(c)
                            /\ Ended(c)' <=> Ended(c)
                            /\ Replied(c)' <=> Replied(c)
  BY <1>u, <1>i, QuietKeepsOrder
<1>1. BatchTypeOK'
  BY <1>u, <1>q, <1>i DEF BatchTypeOK
<1>2. SeqInv'
  BY <1>u DEF SeqInv
<1>3. ParInv'
  BY <1>u, <1>q, <1>i, <1>o, CallsAre DEF ParInv, Flight
<1>4. UpdateInv'
  BY <1>u, <1>q, <1>i, <1>o, UpdatesAre DEF UpdateInv, Silent, BatchTypeOK
<1>5. EffectInv'
  BY <1>u, <1>i, <1>o DEF EffectInv
<1> QED BY <1>o, <1>1, <1>2, <1>3, <1>4, <1>5 DEF BatchInv

(* Callbacks are taken while some call is under way, so none has ended.    *)
LEMMA TakeUpdatesKeeps ==
  ASSUME BatchInv, pc.at \in {"poll", "scan"}, Pending # {} \/ pc.at = "scan",
         NEW kept \in SUBSET CallIds, TakeUpdates(kept)
  PROVE  BatchInv'
<1> DEFINE siblings == Pending \ (batch.await \cup UpdateIds)
<1>u. /\ batch' = batch /\ tool' = tool /\ pushed' = pushed /\ updates' = <<>> /\ closed' = closed
      /\ cancelled' = cancelled /\ awake' = awake /\ effect' = effect
      /\ result' = result /\ streak' = streak /\ tripped' = tripped
      /\ emitted' = emitted \o UpdateEntries
      /\ allowed' = IF ~cancelled THEN kept
                    ELSE IF batch.parallel THEN kept \cup (UpdateIds \cap Pending)
                    ELSE {pc.call}
      /\ \/ batch.parallel /\ pc' = [at |-> "siblings", call |-> 0, todo |-> siblings]
         \/ pc' = [at |-> "poll", call |-> pc.call, todo |-> {}]
  BY DEF TakeUpdates, Goto, Emit
<1>i. BatchTypeOK /\ OrderInv /\ SeqInv /\ ParInv /\ UpdateInv /\ EffectInv /\ emitted \in Seq(Events)
      /\ updates \in Seq(CallIds) /\ Pending' = Pending /\ UpdateIds' = {} /\ Pending \subseteq CallIds
      /\ UpdateIds \subseteq CallIds
  BY <1>u, UpdateIdsEmpty, UpdatesAre DEF BatchInv, BatchTypeOK, Events, Pending
<1>a. allowed' \subseteq CallIds
  BY <1>u, <1>i DEF SeqInv
<1>q. /\ pc' \in [at : {"siblings", "poll"}, call : 0..NCalls, todo : SUBSET CallIds]
      /\ \/ batch.parallel /\ pc'.at = "siblings" /\ pc'.todo = siblings
         \/ pc'.at = "poll" /\ pc'.call = pc.call
  BY <1>u, <1>i, CallsAre DEF BatchTypeOK
<1>n. \A c \in UpdateIds : Started(c) /\ ~Ended(c)
  BY <1>i DEF UpdateInv, Silent
<1>o. /\ emitted' \in Seq(Events) /\ OrderInv'
      /\ \A c \in CallIds : /\ Started(c)' <=> Started(c)
                            /\ Ended(c)' <=> Ended(c)
                            /\ Replied(c)' <=> Replied(c)
  BY <1>u, <1>i, <1>n, UpdatesKeepOrder
<1>1. BatchTypeOK'
  BY <1>u, <1>a, <1>q, <1>i, <1>o DEF BatchTypeOK, Events
<1>2. SeqInv'
  BY <1>u, <1>q, <1>i, <1>o DEF SeqInv
<1>3. ParInv'
  <2>1. siblings \subseteq Pending \ batch.await
    OBVIOUS
  <2> HIDE DEF siblings
  <2> QED BY <1>u, <1>q, <1>i, <1>o, <2>1 DEF ParInv, Flight
<1>4. UpdateInv'
  BY <1>u, <1>q, <1>i, <1>o DEF UpdateInv
<1>5. EffectInv'
  BY <1>u, <1>i, <1>o DEF EffectInv
<1> QED BY <1>o, <1>1, <1>2, <1>3, <1>4, <1>5 DEF BatchInv

(* The pending futures are dropped only when none is awaited.              *)
LEMMA DropAllKeeps ==
  ASSUME BatchInv, pc.at \in {"poll", "scan"}, Pending # {} \/ pc.at = "scan", MayDrop, DropAll
  PROVE  BatchInv'
<1>u. /\ batch' = batch /\ pushed' = pushed /\ updates' = <<>> /\ allowed' = allowed
      /\ cancelled' = cancelled /\ awake' = awake /\ effect' = effect
      /\ result' = result /\ streak' = streak /\ tripped' = tripped
      /\ emitted' = emitted \o UpdateEntries
      /\ closed' = IF batch.parallel THEN closed ELSE closed \cup {pc.call}
      /\ tool' = [c \in CallIds |-> IF c \in Pending THEN "dropped" ELSE tool[c]]
      /\ pc' = IF batch.parallel THEN [at |-> "aborted", call |-> 0, todo |-> Pending]
               ELSE [at |-> "finalize", call |-> pc.call, todo |-> {}]
  BY DEF DropAll, Goto, Emit
<1>i. BatchTypeOK /\ OrderInv /\ SeqInv /\ ParInv /\ UpdateInv /\ EffectInv /\ emitted \in Seq(Events)
      /\ updates \in Seq(CallIds) /\ UpdateIds' = {} /\ Pending \subseteq CallIds
      /\ \A c \in CallIds : c \in Pending <=> tool[c] \in {"running", "ready"}
  BY <1>u, UpdateIdsEmpty DEF BatchInv, BatchTypeOK, Events, Pending
<1>t. /\ tool' \in [CallIds -> {"none", "running", "ready", "taken", "dropped"}]
      /\ \A c \in CallIds : tool'[c] = IF c \in Pending THEN "dropped" ELSE tool[c]
  BY <1>u, <1>i DEF BatchTypeOK
<1>z. /\ Pending' = {}
      /\ \A c \in CallIds : /\ tool'[c] \notin {"running", "ready"}
                            /\ tool'[c] = "none" <=> tool[c] = "none"
  BY <1>t, <1>i DEF Pending
<1>c. closed' \subseteq CallIds /\ closed \subseteq closed'
  BY <1>u, <1>i DEF SeqInv, BatchTypeOK
<1>q. /\ pc' \in [at : {"aborted", "finalize"}, call : 0..NCalls, todo : SUBSET CallIds]
      /\ batch.parallel => pc'.at = "aborted" /\ pc'.todo = Pending
      /\ ~batch.parallel => pc'.at = "finalize" /\ pc'.call = pc.call
  BY <1>u, <1>i, CallsAre DEF BatchTypeOK
<1>n. \A c \in UpdateIds : Started(c) /\ ~Ended(c)
  BY <1>i DEF UpdateInv, Silent
<1>o. /\ emitted' \in Seq(Events) /\ OrderInv'
      /\ \A c \in CallIds : /\ Started(c)' <=> Started(c)
                            /\ Ended(c)' <=> Ended(c)
                            /\ Replied(c)' <=> Replied(c)
  BY <1>u, <1>i, <1>n, UpdatesKeepOrder
<1>1. BatchTypeOK'
  BY <1>u, <1>t, <1>c, <1>q, <1>i, <1>o DEF BatchTypeOK, Events
<1>2. SeqInv'
  BY <1>u, <1>t, <1>z, <1>q, <1>i, <1>o, CallsAre DEF SeqInv
<1>3. ParInv'
  BY <1>u, <1>z, <1>q, <1>i, <1>o DEF ParInv, Flight
<1>4. UpdateInv'
  BY <1>u, <1>z, <1>c, <1>q, <1>i, <1>o DEF UpdateInv
<1>5. EffectInv'
  BY <1>u, <1>t, <1>i, <1>o DEF EffectInv, MayDrop, Awaited
<1> QED BY <1>o, <1>1, <1>2, <1>3, <1>4, <1>5 DEF BatchInv

(* The polls.                                                              *)
LEMMA PollLookKeeps == BatchInv /\ PollLook => BatchInv'
<1> SUFFICES ASSUME BatchInv, PollLook PROVE BatchInv'
  OBVIOUS
<1>1. pc.at = "poll" /\ Pending # {} /\ allowed \subseteq CallIds
  BY DEF PollLook, BatchInv, BatchTypeOK
<1>2. CASE TakeUpdates(allowed)
  <2>1. PICK kept \in SUBSET CallIds : kept = allowed
    BY <1>1
  <2> QED BY <1>1, <1>2, <2>1, TakeUpdatesKeeps
<1>3. CASE MayDrop /\ DropAll
  BY <1>1, <1>3, DropAllKeeps
<1>4. CASE /\ awake' = FALSE /\ Goto("scan", pc.call, {})
           /\ UNCHANGED <<batch, tool, pushed, updates, closed, cancelled, allowed,
                          effect, result, streak, tripped, emitted>>
  BY <1>1, <1>4, LookKeeps DEF Goto
<1> QED BY <1>2, <1>3, <1>4 DEF PollLook

LEMMA PollUpdatesKeeps == BatchInv /\ PollUpdates => BatchInv'
<1> SUFFICES ASSUME BatchInv, PollUpdates PROVE BatchInv'
  OBVIOUS
<1>1. PICK polled \in Polled \ {{}} : TakeUpdates(AfterPolls(polled))
  BY DEF PollUpdates
<1>2. PICK kept \in SUBSET CallIds : kept = AfterPolls(polled)
  BY DEF AfterPolls, BatchInv, BatchTypeOK
<1> QED BY <1>1, <1>2, TakeUpdatesKeeps DEF PollUpdates

LEMMA PollPendingKeeps == BatchInv /\ PollPending => BatchInv'
<1> SUFFICES ASSUME BatchInv, PollPending PROVE BatchInv'
  OBVIOUS
<1>1. pc.at = "scan" /\ AfterPolls(Pollable) \subseteq CallIds /\ BatchTypeOK
  BY DEF PollPending, AfterPolls, BatchInv, BatchTypeOK
<1>2. CASE MayDrop /\ DropAll
  BY <1>1, <1>2, DropAllKeeps
<1>3. CASE /\ Goto("parked", pc.call, {}) /\ allowed' = AfterPolls(Pollable)
           /\ UNCHANGED <<batch, tool, pushed, updates, closed, cancelled, awake,
                          effect, result, streak, tripped, emitted>>
  <2>1. awake' \in BOOLEAN
    BY <1>1, <1>3 DEF BatchTypeOK
  <2> QED BY <1>1, <1>3, <2>1, LookKeeps DEF Goto
<1> QED BY <1>2, <1>3 DEF PollPending

LEMMA PollReadyKeeps == ASSUME NEW d \in CallIds PROVE BatchInv /\ PollReady(d) => BatchInv'
<1> SUFFICES ASSUME BatchInv, PollReady(d) PROVE BatchInv'
  OBVIOUS
<1>u. /\ batch' = batch /\ pushed' = pushed /\ updates' = <<>> /\ closed' = closed \cup {d}
      /\ cancelled' = cancelled /\ awake' = awake /\ effect' = effect
      /\ result' = result /\ streak' = streak /\ tripped' = tripped
      /\ emitted' = emitted \o UpdateEntries /\ pc.at = "scan" /\ tool[d] = "ready"
      /\ tool' = [tool EXCEPT ![d] = "taken"]
      /\ pc' = [at |-> "finalize", call |-> d, todo |-> {}]
  BY DEF PollReady, Goto, Emit
<1>i. BatchTypeOK /\ OrderInv /\ SeqInv /\ ParInv /\ UpdateInv /\ EffectInv /\ emitted \in Seq(Events)
      /\ updates \in Seq(CallIds) /\ UpdateIds' = {} /\ d \in Pending
      /\ \A c \in CallIds : c \in Pending <=> tool[c] \in {"running", "ready"}
  BY <1>u, UpdateIdsEmpty DEF BatchInv, BatchTypeOK, Events, Pending
<1>a. allowed' \subseteq CallIds
  BY <1>i DEF PollReady, AfterPolls, BatchTypeOK
<1>t. /\ tool' \in [CallIds -> {"none", "running", "ready", "taken", "dropped"}]
      /\ tool'[d] = "taken" /\ \A c \in CallIds : c # d => tool'[c] = tool[c]
  BY <1>u, <1>i DEF BatchTypeOK
<1>z. \A c \in CallIds : /\ c \in Pending' <=> c \in Pending /\ c # d
                         /\ tool'[c] = "none" <=> tool[c] = "none"
  BY <1>u, <1>t DEF Pending
<1>q. /\ pc'.at = "finalize" /\ pc'.call = d
      /\ pc' \in [at : {"finalize"}, call : 0..NCalls, todo : SUBSET CallIds]
  BY <1>u, CallsAre
<1>s. ~batch.parallel => d = pc.call
  <2>1. pc.call \in Nat => d < pc.call \/ d > pc.call \/ d = pc.call
    BY CallsAre
  <2>2. ~batch.parallel => pc.call \in Nat /\ ~(d < pc.call) /\ ~(d > pc.call)
    BY <1>u, <1>i, CallsAre DEF SeqInv
  <2> QED BY <2>1, <2>2
<1>n. \A c \in UpdateIds : Started(c) /\ ~Ended(c)
  BY <1>u, <1>i DEF UpdateInv, Silent
<1>o. /\ emitted' \in Seq(Events) /\ OrderInv'
      /\ \A c \in CallIds : /\ Started(c)' <=> Started(c)
                            /\ Ended(c)' <=> Ended(c)
                            /\ Replied(c)' <=> Replied(c)
  BY <1>u, <1>i, <1>n, UpdatesKeepOrder
<1>1. BatchTypeOK'
  BY <1>u, <1>a, <1>t, <1>q, <1>i, <1>o DEF BatchTypeOK, Events
<1>2. SeqInv'
  BY <1>u, <1>t, <1>q, <1>s, <1>i, <1>o, CallsAre DEF SeqInv
<1>3. ParInv'
  BY <1>u, <1>z, <1>q, <1>i, <1>o DEF ParInv, Flight
<1>4. UpdateInv'
  BY <1>u, <1>z, <1>q, <1>i, <1>o DEF UpdateInv
<1>5. EffectInv'
  BY <1>u, <1>t, <1>i, <1>o DEF EffectInv
<1> QED BY <1>o, <1>1, <1>2, <1>3, <1>4, <1>5 DEF BatchInv

(* Calls settled by the cancellation.                                      *)
LEMMA SettleSiblingKeeps == ASSUME NEW d \in CallIds PROVE BatchInv /\ SettleSibling(d) => BatchInv'
<1> SUFFICES ASSUME BatchInv, SettleSibling(d) PROVE BatchInv'
  OBVIOUS
<1>u. /\ batch' = batch /\ pushed' = pushed /\ updates' = <<>> /\ closed' = closed \cup {d}
      /\ cancelled' = cancelled /\ awake' = awake /\ allowed' = allowed
      /\ streak' = streak /\ tripped' = tripped /\ effect' = [effect EXCEPT ![d] = "settled"]
      /\ emitted' = emitted \o (UpdateEntries \o <<Entry("end", d)>>) /\ pc.at = "siblings" /\ d \in pc.todo
      /\ tool' = [tool EXCEPT ![d] = IF tool[d] = "ready" THEN "taken" ELSE "dropped"]
      /\ pc' = IF pc.todo = {d} THEN [at |-> "poll", call |-> 0, todo |-> {}]
               ELSE [at |-> "siblings", call |-> 0, todo |-> pc.todo \ {d}]
  BY DEF SettleSibling, Goto, Emit
<1>i. BatchTypeOK /\ OrderInv /\ SeqInv /\ ParInv /\ UpdateInv /\ EffectInv /\ emitted \in Seq(Events)
      /\ updates \in Seq(CallIds) /\ UpdateIds' = {}
      /\ \A c \in CallIds : c \in Pending <=> tool[c] \in {"running", "ready"}
  BY <1>u, UpdateIdsEmpty DEF BatchInv, BatchTypeOK, Events, Pending
<1>b. batch.parallel /\ pc.todo \subseteq Pending \ batch.await /\ d \in Pending /\ d \notin batch.await
  BY <1>u, <1>i DEF SeqInv, ParInv, BatchTypeOK
<1>t. /\ tool' \in [CallIds -> {"none", "running", "ready", "taken", "dropped"}]
      /\ tool'[d] \in {"taken", "dropped"} /\ \A c \in CallIds : c # d => tool'[c] = tool[c]
  BY <1>u, <1>i DEF BatchTypeOK
<1>e. /\ effect' \in [CallIds -> {"none", "begun", "settled"}]
      /\ effect'[d] = "settled" /\ \A c \in CallIds : c # d => effect'[c] = effect[c]
  BY <1>u, <1>i DEF BatchTypeOK
<1>r. result' \in [CallIds -> Reports \cup {"none"}]
  BY <1>i DEF SettleSibling, BatchTypeOK, Reports
<1>z. \A c \in CallIds : /\ c \in Pending' <=> c \in Pending /\ c # d
                         /\ tool'[c] = "none" <=> tool[c] = "none"
  BY <1>b, <1>i, <1>t DEF Pending
<1>q. /\ pc' \in [at : {"poll", "siblings"}, call : 0..NCalls, todo : SUBSET CallIds]
      /\ pc'.at = "siblings" => pc'.todo \subseteq pc.todo \ {d}
  BY <1>u, <1>i, CallsAre DEF BatchTypeOK
<1>n. Started(d) /\ ~Ended(d) /\ ~Replied(d) /\ \A c \in UpdateIds : Started(c) /\ ~Ended(c)
  BY <1>u, <1>b, <1>i DEF UpdateInv, Silent, ParInv, Flight
<1>o. /\ emitted' \in Seq(Events) /\ OrderInv'
      /\ \A c \in CallIds : /\ Started(c)' <=> Started(c)
                            /\ Ended(c)' <=> Ended(c) \/ c = d
                            /\ Replied(c)' <=> Replied(c)
  BY <1>u, <1>i, <1>n, EndKeepsOrder
<1>1. BatchTypeOK'
  BY <1>u, <1>t, <1>e, <1>r, <1>q, <1>i, <1>o DEF BatchTypeOK, Events
<1>2. SeqInv'
  BY <1>u, <1>b DEF SeqInv
<1>3. ParInv'
  <2>1. pc'.at = "siblings" => pc'.todo \subseteq Pending' \ batch.await
    BY <1>b, <1>q, <1>z, <1>i DEF BatchTypeOK
  <2> QED BY <1>u, <1>b, <1>e, <1>z, <1>q, <1>i, <1>o, <2>1 DEF ParInv, Flight
<1>4. UpdateInv'
  BY <1>u, <1>z, <1>q, <1>i, <1>o DEF UpdateInv
<1>5. EffectInv'
  BY <1>u, <1>b, <1>t, <1>e, <1>i, <1>o DEF EffectInv
<1> QED BY <1>o, <1>1, <1>2, <1>3, <1>4, <1>5 DEF BatchInv

LEMMA SettleAbortedKeeps == ASSUME NEW d \in CallIds PROVE BatchInv /\ SettleAborted(d) => BatchInv'
<1> SUFFICES ASSUME BatchInv, SettleAborted(d) PROVE BatchInv'
  OBVIOUS
<1>u. /\ batch' = batch /\ pushed' = pushed /\ updates' = updates /\ closed' = closed \cup {d}
      /\ cancelled' = cancelled /\ awake' = awake /\ allowed' = allowed /\ tool' = tool
      /\ streak' = streak /\ tripped' = tripped /\ effect' = [effect EXCEPT ![d] = "settled"]
      /\ emitted' = emitted \o <<Entry("end", d)>> /\ pc.at = "aborted" /\ d \in pc.todo
      /\ result' = [result EXCEPT ![d] = "recoverable"]
      /\ pc' = IF pc.todo = {d} THEN [at |-> "poll", call |-> 0, todo |-> {}]
               ELSE [at |-> "aborted", call |-> 0, todo |-> pc.todo \ {d}]
  BY DEF SettleAborted, Goto, Emit
<1>i. BatchTypeOK /\ OrderInv /\ SeqInv /\ ParInv /\ UpdateInv /\ EffectInv /\ emitted \in Seq(Events)
      /\ UpdateIds' = UpdateIds /\ UpdateIds \subseteq CallIds /\ Pending' = Pending
  BY <1>u, UpdateIdsSame, UpdatesAre DEF BatchInv, BatchTypeOK, Events, Pending
<1>b. batch.parallel /\ Pending = {}
  BY <1>u, <1>i DEF SeqInv, ParInv, BatchTypeOK
<1>e. /\ effect' \in [CallIds -> {"none", "begun", "settled"}]
      /\ effect'[d] = "settled" /\ \A c \in CallIds : c # d => effect'[c] = effect[c]
  BY <1>u, <1>i DEF BatchTypeOK
<1>r. result' \in [CallIds -> Reports \cup {"none"}]
  BY <1>u, <1>i DEF BatchTypeOK, Reports
<1>q. /\ pc' \in [at : {"poll", "aborted"}, call : 0..NCalls, todo : SUBSET CallIds]
      /\ pc'.at = "aborted" => pc'.todo = pc.todo \ {d}
      /\ pc'.at = "poll" => pc.todo = {d}
  BY <1>u, <1>i, CallsAre DEF BatchTypeOK
<1>n. Started(d) /\ ~Ended(d) /\ ~Replied(d)
  BY <1>u, <1>b, <1>i DEF ParInv, Flight
<1>o. /\ emitted' \in Seq(Events) /\ OrderInv'
      /\ \A c \in CallIds : /\ Started(c)' <=> Started(c)
                            /\ Ended(c)' <=> Ended(c) \/ c = d
                            /\ Replied(c)' <=> Replied(c)
  BY <1>u, <1>i, <1>n, BareEndKeepsOrder
<1>1. BatchTypeOK'
  BY <1>u, <1>e, <1>r, <1>q, <1>i, <1>o DEF BatchTypeOK, Events
<1>2. SeqInv'
  BY <1>u, <1>b DEF SeqInv
<1>3. ParInv'
  BY <1>u, <1>b, <1>e, <1>q, <1>i, <1>o DEF ParInv, Flight
<1>4. UpdateInv'
  BY <1>u, <1>b, <1>q, <1>i, <1>o DEF UpdateInv, Silent
<1>5. EffectInv'
  BY <1>u, <1>e, <1>i, <1>o DEF EffectInv
<1> QED BY <1>o, <1>1, <1>2, <1>3, <1>4, <1>5 DEF BatchInv

(* The result of a call, and those of the calls the breaker skips.         *)
LEMMA AppendResultKeeps == BatchInv /\ AppendResult => BatchInv'
<1> SUFFICES ASSUME BatchInv, AppendResult PROVE BatchInv'
  OBVIOUS
<1>u. /\ batch' = batch /\ tool' = tool /\ pushed' = pushed /\ updates' = updates /\ closed' = closed
      /\ cancelled' = cancelled /\ allowed' = allowed /\ awake' = awake /\ effect' = effect /\ result' = result
      /\ pc.at = "append"
  BY DEF AppendResult
<1>i. BatchTypeOK /\ OrderInv /\ SeqInv /\ ParInv /\ UpdateInv /\ EffectInv /\ emitted \in Seq(Events)
      /\ Pending' = Pending /\ UpdateIds' = UpdateIds /\ UpdateIds \subseteq CallIds
  BY <1>u, UpdateIdsSame, UpdatesAre DEF BatchInv, BatchTypeOK, Events, Pending
<1>d. PICK d \in CallIds : d = pc.call
  BY <1>u, <1>i DEF SeqInv, ParInv, BatchTypeOK
<1> DEFINE n == IF cancelled THEN streak
                ELSE CASE result[d] = "retryable" -> streak + 1
                       [] result[d] = "fatal" -> 1
                       [] OTHER -> 0
           trip == ~cancelled /\ (result[d] = "fatal" \/ n >= Limit)
           skipped == IF trip /\ ~batch.parallel
                        THEN [i \in 1..(NCalls - d) |-> Entry("result", d + i)] ELSE <<>>
           es == <<Entry("result", d)>> \o skipped
<1>p. /\ streak' = n /\ tripped' = (tripped \/ trip) /\ emitted' = emitted \o es
      /\ pc' = IF d = NCalls \/ skipped # <<>> THEN [at |-> "over", call |-> 0, todo |-> {}]
               ELSE IF batch.parallel THEN [at |-> "append", call |-> d + 1, todo |-> {}]
               ELSE [at |-> "announce", call |-> d + 1, todo |-> {}]
  BY <1>d DEF AppendResult, Goto, Emit
<1>s. streak' \in Nat /\ tripped' \in BOOLEAN
  <2>1. n \in Nat
    BY <1>i DEF BatchTypeOK
  <2>2. tripped' \in BOOLEAN
    BY <1>p
  <2> QED BY <1>p, <2>1, <2>2
<1> HIDE DEF trip
<1>m. PICK m \in 0..(NCalls - d) :
        /\ skipped \in Seq(Events) /\ Len(skipped) = m
        /\ \A i \in 1..m : skipped[i] = Entry("result", d + i)
        /\ m # 0 => ~batch.parallel /\ skipped # <<>>
        /\ m = 0 => skipped = <<>>
  <2>0. NCalls - d \in Nat
    BY CallsAre
  <2>1. CASE trip /\ ~batch.parallel
    <3>1. skipped = [i \in 1..(NCalls - d) |-> Entry("result", d + i)]
      BY <2>1
    <3>2. \A i \in 1..(NCalls - d) : d + i \in CallIds
      BY CallsAre
    <3>3. \A i \in 1..(NCalls - d) : Entry("result", d + i) \in Events
      BY <3>2, EntryType
    <3>4. skipped \in Seq(Events) /\ Len(skipped) = NCalls - d
      BY <2>0, <3>1, <3>3, IsASeq
    <3>5. \A i \in 1..(NCalls - d) : skipped[i] = Entry("result", d + i)
      BY <3>1
    <3> HIDE DEF skipped
    <3>6. (NCalls - d = 0 => skipped = <<>>) /\ (NCalls - d # 0 => skipped # <<>>)
      BY <3>4, EmptySeq
    <3>7. NCalls - d \in 0..(NCalls - d)
      BY <2>0
    <3> QED BY <2>1, <3>4, <3>5, <3>6, <3>7
  <2>2. CASE ~(trip /\ ~batch.parallel)
    <3>1. skipped = <<>> /\ 0 \in 0..(NCalls - d) /\ <<>> \in Seq(Events) /\ Len(<<>>) = 0 /\ 1..0 = {}
      BY <2>0, <2>2
    <3> HIDE DEF skipped
    <3>2. \A i \in 1..0 : skipped[i] = Entry("result", d + i)
      BY <3>1
    <3> QED BY <3>1, <3>2
  <2> QED BY <2>1, <2>2
<1> HIDE DEF skipped, n
<1>e. /\ es \in Seq(Events) /\ Len(es) = m + 1
      /\ \A i \in 1..(m + 1) : es[i] = Entry("result", d + i - 1)
  <2>1. /\ <<Entry("result", d)>> \in Seq(Events) /\ Len(<<Entry("result", d)>>) = 1
        /\ <<Entry("result", d)>>[1] = Entry("result", d)
    BY EntryType
  <2>2. /\ es \in Seq(Events) /\ Len(es) = 1 + m
        /\ \A i \in 1..(1 + m) : es[i] = IF i <= 1 THEN <<Entry("result", d)>>[i] ELSE skipped[i - 1]
    BY <1>m, <2>1, ConcatProperties
  <2>3. ASSUME NEW i \in 1..(m + 1) PROVE es[i] = Entry("result", d + i - 1)
    <3>1. CASE i = 1
      <4>1. d + i - 1 = d /\ i \in 1..(1 + m) /\ i <= 1
        BY <3>1, CallsAre
      <4> QED BY <2>1, <2>2, <3>1, <4>1
    <3>2. CASE i # 1
      <4>1. i - 1 \in 1..m /\ d + (i - 1) = d + i - 1 /\ ~(i <= 1) /\ i \in 1..(1 + m)
        BY <3>2, CallsAre
      <4> QED BY <1>m, <2>2, <4>1
    <3> QED BY <3>1, <3>2
  <2>4. 1 + m = m + 1
    BY CallsAre
  <2> QED BY <2>2, <2>3, <2>4
<1> HIDE DEF es
<1>q. /\ pc' \in [at : {"over", "append", "announce"}, call : 0..NCalls, todo : SUBSET CallIds]
      /\ \/ pc'.at = "over"
         \/ /\ m = 0 /\ d + 1 \in CallIds /\ pc'.call = d + 1
            /\ pc'.at = IF batch.parallel THEN "append" ELSE "announce"
  <2>1. d # NCalls => d + 1 \in CallIds /\ d + 1 \in 0..NCalls
    BY CallsAre
  <2> QED BY <1>p, <1>m, <2>1, CallsAre
<1>n. /\ Ended(d) /\ \A c \in CallIds : Replied(c) <=> c < d
      /\ \A c \in CallIds : c > d /\ c <= d + m => ~Started(c)
  <2>1. Ended(d) /\ \A c \in CallIds : Replied(c) <=> c < d
    BY <1>u, <1>i, <1>d DEF SeqInv, ParInv
  <2>2. m # 0 => \A c \in CallIds : c > d => ~Started(c)
    BY <1>u, <1>i, <1>d, <1>m, CallsAre DEF SeqInv
  <2>3. m = 0 => \A c \in CallIds : ~(c > d /\ c <= d + m)
    BY CallsAre
  <2> QED BY <2>1, <2>2, <2>3
<1>o. /\ emitted' \in Seq(Events) /\ OrderInv'
      /\ \A c \in CallIds : /\ Started(c)' <=> Started(c)
                            /\ Ended(c)' <=> Ended(c)
                            /\ Replied(c)' <=> c <= d + m
  BY <1>p, <1>e, <1>i, <1>n, ResultKeepsOrder
<1>x. m = 0 => \A c \in CallIds : c <= d + m <=> c < d + 1
  BY CallsAre
<1>1. BatchTypeOK'
  BY <1>u, <1>s, <1>q, <1>i, <1>o DEF BatchTypeOK, Events
<1>2. SeqInv'
  <2>1. SUFFICES ASSUME ~batch.parallel, pc'.at = "announce" PROVE SeqInv'
    BY <1>u, <1>q DEF SeqInv
  <2>2. /\ m = 0 /\ d + 1 \in CallIds /\ pc'.call = d + 1
        /\ \A c \in CallIds : /\ c < d + 1 <=> c < d \/ c = d
                              /\ c > d + 1 => c > d
                              /\ d + 1 > d /\ ~(d + 1 < d) /\ d + 1 # d
    BY <1>q, <2>1, CallsAre
  <2>3. \A c \in CallIds : /\ Started(c) <=> c < d \/ c = d
                           /\ Ended(c) <=> c < d \/ c = d
                           /\ (c < d \/ c = d) => tool[c] \notin {"running", "ready"} /\ effect[c] # "begun"
                           /\ c > d => tool[c] = "none" /\ effect[c] = "none"
    BY <1>u, <1>i, <1>d, <2>1 DEF SeqInv
  <2> QED BY <1>u, <1>o, <1>x, <2>1, <2>2, <2>3 DEF SeqInv
<1>3. ParInv'
  BY <1>u, <1>q, <1>d, <1>i, <1>o, <1>x DEF ParInv, Flight
<1>4. UpdateInv'
  BY <1>u, <1>q, <1>i, <1>o DEF UpdateInv, Silent
<1>5. EffectInv'
  BY <1>u, <1>i, <1>o DEF EffectInv
<1> QED BY <1>o, <1>1, <1>2, <1>3, <1>4, <1>5 DEF BatchInv

(* The invariant holds at first and every step keeps it.                   *)
LEMMA BatchInitKeeps == BatchInit => BatchInv
<1> SUFFICES ASSUME BatchInit PROVE BatchInv
  OBVIOUS
<1>1. /\ batch \in [parallel : BOOLEAN, await : SUBSET CallIds]
      /\ pc = [at |-> "announce", call |-> 1, todo |-> {}]
      /\ tool = [c \in CallIds |-> "none"] /\ pushed = [c \in CallIds |-> 0]
      /\ updates = <<>> /\ closed = {} /\ cancelled = FALSE /\ allowed = {} /\ awake = FALSE
      /\ effect = [c \in CallIds |-> "none"] /\ result = [c \in CallIds |-> "none"]
      /\ streak = 0 /\ tripped = FALSE /\ emitted = <<>>
  BY DEF BatchInit, BatchAt
<1>2. pc.at = "announce" /\ pc.call = 1 /\ 1 \in CallIds /\ pc.todo = {}
  BY <1>1, CallsAre
<1>3. \A k, c : Places(k, c) = {}
  BY <1>1 DEF Places
<1>4. UpdateIds = {}
  BY <1>1 DEF UpdateIds
<1>5. BatchTypeOK
  <2>1. pc \in [at : {"announce"}, call : 0..NCalls, todo : SUBSET CallIds]
    BY <1>1, CallsAre
  <2>2. /\ tool \in [CallIds -> {"none"}] /\ effect \in [CallIds -> {"none"}]
        /\ result \in [CallIds -> {"none"}]
        /\ pushed \in [CallIds -> 0..MaxUpdates]
    BY <1>1, ToolBatchAssumption
  <2>3. updates \in Seq(CallIds) /\ emitted \in Seq(Events)
    BY <1>1
  <2> QED BY <1>1, <2>1, <2>2, <2>3 DEF BatchTypeOK, Events
<1>6. OrderInv
  BY <1>3 DEF OrderInv, Ordered
<1>7. \A c \in CallIds : /\ ~Started(c) /\ ~Ended(c) /\ ~Replied(c)
                         /\ tool[c] = "none" /\ effect[c] = "none" /\ c >= 1
  BY <1>1, <1>3, CallsAre DEF Started, Ended, Replied
<1>8. SeqInv
  BY <1>2, <1>7, CallsAre DEF SeqInv
<1>9. ParInv
  BY <1>2, <1>7, CallsAre DEF ParInv, Flight
<1>10. UpdateInv
  BY <1>2, <1>4, <1>7 DEF UpdateInv
<1>11. EffectInv
  BY <1>7 DEF EffectInv
<1> QED BY <1>5, <1>6, <1>8, <1>9, <1>10, <1>11 DEF BatchInv

LEMMA BatchNextKeeps == BatchInv /\ [BatchNext]_batchVars => BatchInv'
<1>1. BatchInv /\ UNCHANGED batchVars => BatchInv'
  <2> SUFFICES ASSUME BatchInv, UNCHANGED batchVars PROVE BatchInv'
    OBVIOUS
  <2>1. cancelled' \in BOOLEAN /\ awake' \in BOOLEAN
    BY DEF batchVars, BatchInv, BatchTypeOK
  <2> QED BY <2>1, PlacedAlike DEF batchVars
<1>2. BatchInv /\ BatchStep => BatchInv'
  BY AnnounceKeeps, PrepareImmediateKeeps, PrepareExecuteKeeps, LaunchKeeps, PollLookKeeps,
     PollUpdatesKeeps, PollPendingKeeps, UnparkKeeps, FinalizeKeeps, EndCallKeeps, BatchCompleteKeeps,
     AppendResultKeeps, PollReadyKeeps, SettleSiblingKeeps, SettleAbortedKeeps DEF BatchStep
<1> QED BY <1>1, <1>2, CancelRunKeeps, CallbackKeeps, ToolReadyKeeps DEF BatchNext

(* The inductive invariant of a tool batch: what has been emitted for each *)
(* call at every place of the scheduler, which calls may still call back,  *)
(* and which effects are unsettled.                                        *)
THEOREM BatchInvariant == BatchSpec => []BatchInv
  BY BatchInitKeeps, BatchNextKeeps, PTL DEF BatchSpec

(* Every reachable state of a tool batch is well typed.                    *)
THEOREM BatchTypeCorrect == BatchSpec => []BatchTypeOK
<1>1. BatchInv => BatchTypeOK
  BY DEF BatchInv
<1> QED BY <1>1, BatchInvariant, PTL

(* For any number of calls and callbacks, sequential or parallel,          *)
(* cancelled at any moment: a call that starts ends once, with its updates *)
(* in between and its one result after, results follow in source order, an *)
(* ended call has no unsettled effect, and no awaited future is dropped.   *)
THEOREM BatchIsOrdered == BatchSpec => []BatchOrdered
<1>1. ASSUME BatchInv PROVE BatchOrdered
  <2> SUFFICES ASSUME NEW c \in CallIds
               PROVE  /\ \A k \in {"start", "end", "result"} : Cardinality(Places(k, c)) <= 1
                      /\ \A u \in Places("update", c) : /\ \E i \in Places("start", c) : i < u
                                                     /\ \A i \in Places("end", c) : u < i
                      /\ Places("end", c) # {} => effect[c] # "begun"
                      /\ \A i \in Places("result", c) :
                           /\ Places("start", c) # {} => \E j \in Places("end", c) : j < i
                           /\ \A d \in 1..(c - 1) : \E j \in Places("result", d) : j < i
                      /\ c \in batch.await => tool[c] # "dropped"
    BY DEF BatchOrdered
  <2>1. Ordered(c) /\ EffectInv
    BY <1>1 DEF BatchInv, OrderInv
  <2>2. ASSUME NEW k \in {"start", "end", "result"} PROVE Cardinality(Places(k, c)) <= 1
    <3>1. CASE Places(k, c) = {}
      BY <3>1, FS_EmptySet
    <3>2. CASE Places(k, c) # {}
      <4>1. PICK i : i \in Places(k, c)
        BY <3>2
      <4>2. Places(k, c) = {i}
        BY <2>1, <4>1 DEF Ordered
      <4>3. Cardinality({i}) = 1
        BY FS_Singleton
      <4> QED BY <4>2, <4>3
    <3> QED BY <3>1, <3>2
  <2> QED BY <2>1, <2>2 DEF Ordered, EffectInv, Started, Ended
<1> QED BY <1>1, BatchInvariant, PTL
=============================================================================
