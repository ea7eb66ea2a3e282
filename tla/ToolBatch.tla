------------------------------ MODULE ToolBatch ------------------------------
(***************************************************************************)
(* The tool scheduler of one run: the calls of one assistant response, run *)
(* one after the other or in parallel on the run's own future, while the   *)
(* tools' callbacks (`PendingToolUpdates`) and the cancellation arrive     *)
(* from other threads.  A poll is two steps: it registers its waker and    *)
(* looks, and it polls the futures and parks.  A call awaited after a      *)
(* cancellation (`CancellationSettlementMode::AwaitFuture`) is never       *)
(* dropped; the others are.  A gate that refuses an effect ends the run:   *)
(* OperationDrive has that.                                                *)
(***************************************************************************)
EXTENDS Naturals, Sequences, FiniteSets

CONSTANTS
  NCalls,       \* calls of the response, in source order
  MaxUpdates,   \* bound on callbacks of one call
  Limit         \* max_consecutive_retryable_failures

ASSUME ToolBatchAssumption ==
  NCalls \in Nat \ {0} /\ MaxUpdates \in Nat /\ Limit \in Nat \ {0}

CallIds == 1..NCalls

\* What an executed call may report (ToolFailureDisposition); a refused,
\* skipped or aborted call is a recoverable failure.
Reports == {"ok", "recoverable", "retryable", "fatal"}

VARIABLES
  batch,     \* [parallel, await]: chosen by the calls' tools
  pc,        \* the scheduler: [at, call, todo]
  tool,      \* each future: "none" | "running" | "ready" | "taken" | "dropped"
  pushed,    \* callbacks made by each tool
  updates,   \* PendingToolUpdates::updates
  closed,    \* PendingToolUpdates::closed_calls
  cancelled, \* the run's cancellation token
  allowed,   \* calls that may be polled once more after a cancellation
  awake,     \* the registered waker was called
  effect,    \* each call's tool effect: "none" | "begun" | "settled"
  result,    \* each call's completion: "none" | "ok" | a failure disposition
  streak,    \* consecutive retryable failures with one signature
  tripped,   \* the circuit breaker ended the batch
  emitted    \* events and result messages, in order

batchVars == <<batch, pc, tool, pushed, updates, closed, cancelled, allowed, awake,
               effect, result, streak, tripped, emitted>>

-----------------------------------------------------------------------------
Entry(kind, c) == [kind |-> kind, call |-> c]
Goto(at, c, todo) == pc' = [at |-> at, call |-> c, todo |-> todo]
Emit(es) == emitted' = emitted \o es
UpdateEntries == [i \in 1..Len(updates) |-> Entry("update", updates[i])]
UpdateIds == {updates[i] : i \in 1..Len(updates)}
Pending == {c \in CallIds : tool[c] \in {"running", "ready"}}
Awaited == Pending \cap batch.await

BatchAt(place) ==
  /\ batch \in [parallel : BOOLEAN, await : SUBSET CallIds]
  /\ pc = [at |-> place, call |-> 1, todo |-> {}]
  /\ tool = [c \in CallIds |-> "none"] /\ pushed = [c \in CallIds |-> 0]
  /\ updates = <<>> /\ closed = {} /\ cancelled = FALSE /\ allowed = {} /\ awake = FALSE
  /\ effect = [c \in CallIds |-> "none"] /\ result = [c \in CallIds |-> "none"]
  /\ streak = 0 /\ tripped = FALSE /\ emitted = <<>>

BatchInit == BatchAt("announce")

-----------------------------------------------------------------------------
\* ToolExecutionStart, and prepare_tool_call: a result without execution, or
\* a begun effect; a cancelled run executes nothing.
Announce ==
  /\ pc.at = "announce"
  /\ Emit(<<Entry("start", pc.call)>>) /\ Goto("prepare", pc.call, {})
  /\ UNCHANGED <<batch, tool, pushed, updates, closed, cancelled, allowed, awake,
                 effect, result, streak, tripped>>

NextCall(c) ==
  IF c < NCalls THEN Goto("announce", c + 1, {}) ELSE Goto("launch", 0, {})

PrepareImmediate ==
  LET c == pc.call IN
  /\ pc.at = "prepare"
  /\ result' = [result EXCEPT ![c] = "recoverable"]
  /\ Emit(<<Entry("end", c)>>)
  /\ IF batch.parallel THEN NextCall(c) ELSE Goto("append", c, {})
  /\ UNCHANGED <<batch, tool, pushed, updates, closed, cancelled, allowed, awake,
                 effect, streak, tripped>>

PrepareExecute ==
  LET c == pc.call IN
  /\ pc.at = "prepare" /\ ~cancelled
  /\ effect' = [effect EXCEPT ![c] = "begun"]
  /\ IF batch.parallel THEN NextCall(c) ELSE Goto("launch", c, {})
  /\ UNCHANGED <<batch, tool, pushed, updates, closed, cancelled, allowed, awake,
                 result, streak, tripped, emitted>>

\* start_tool_future for one call, or for every prepared call of a parallel
\* batch.  A call on its own may call back before its future exists: if the
\* run is cancelled by then, that future is still polled once.
Launch ==
  /\ pc.at = "launch"
  /\ tool' = [c \in CallIds |-> IF effect[c] = "begun" /\ (batch.parallel \/ c = pc.call)
                                  THEN "running" ELSE tool[c]]
  /\ \E early \in IF batch.parallel THEN {{}} ELSE SUBSET {pc.call} :
       /\ \A c \in early : pushed[c] < MaxUpdates
       /\ pushed' = [c \in CallIds |-> pushed[c] + (IF c \in early THEN 1 ELSE 0)]
       /\ updates' = IF early = {} THEN updates ELSE Append(updates, pc.call)
       /\ allowed' = IF cancelled THEN early ELSE {}
  /\ Goto("poll", pc.call, {})
  /\ UNCHANGED <<batch, closed, cancelled, awake, effect, result, streak, tripped, emitted>>

-----------------------------------------------------------------------------
\* Other threads: a tool calls back, before or after its future is gone, a
\* future becomes ready, and the run is cancelled.
Callback(c) ==
  /\ tool[c] # "none" /\ pushed[c] < MaxUpdates
  /\ pushed' = [pushed EXCEPT ![c] = @ + 1]
  /\ IF c \in closed THEN UNCHANGED <<updates, awake>>
     ELSE updates' = Append(updates, c) /\ awake' = TRUE
  /\ UNCHANGED <<batch, pc, tool, closed, cancelled, allowed,
                 effect, result, streak, tripped, emitted>>

ToolReady(c) ==
  /\ tool[c] = "running"
  /\ tool' = [tool EXCEPT ![c] = "ready"] /\ awake' = TRUE
  /\ UNCHANGED <<batch, pc, pushed, updates, closed, cancelled, allowed,
                 effect, result, streak, tripped, emitted>>

CancelRunSilent ==
  /\ ~cancelled /\ cancelled' = TRUE
  /\ UNCHANGED <<batch, pc, tool, pushed, updates, closed, allowed, awake,
                 effect, result, streak, tripped, emitted>>
CancelRun ==
  /\ ~cancelled /\ cancelled' = TRUE /\ awake' = TRUE
  /\ UNCHANGED <<batch, pc, tool, pushed, updates, closed, allowed,
                 effect, result, streak, tripped, emitted>>

-----------------------------------------------------------------------------
\* Emit what was pushed.  In a cancelled parallel batch the calls that did not
\* call back are settled next; the one that did may be polled once more.
TakeUpdates(kept) ==
  /\ updates # <<>> /\ updates' = <<>> /\ Emit(UpdateEntries)
  /\ allowed' = IF ~cancelled THEN kept
                ELSE IF batch.parallel THEN kept \cup (UpdateIds \cap Pending)
                ELSE {pc.call}
  /\ LET siblings == Pending \ (batch.await \cup UpdateIds)
     IN IF batch.parallel /\ cancelled /\ siblings # {}
          THEN Goto("siblings", 0, siblings) ELSE Goto("poll", pc.call, {})
  /\ UNCHANGED <<batch, tool, pushed, closed, cancelled, awake,
                 effect, result, streak, tripped>>

\* Every pending call may be dropped now: nothing is awaited.
MayDrop == cancelled /\ Awaited = {}

\* The scheduler found the run cancelled: drop every pending future.
DropAll ==
  /\ Emit(UpdateEntries) /\ updates' = <<>>
  /\ closed' = IF batch.parallel THEN closed ELSE closed \cup {pc.call}
  /\ tool' = [c \in CallIds |-> IF c \in Pending THEN "dropped" ELSE tool[c]]
  /\ IF batch.parallel THEN Goto("aborted", 0, Pending) ELSE Goto("finalize", pc.call, {})
  /\ UNCHANGED <<batch, pushed, cancelled, allowed, awake, effect, result, streak, tripped>>

\* next_tool_step and next_parallel_step, up to the registration of the wakers.
PollLook ==
  /\ pc.at = "poll" /\ Pending # {}
  /\ IF updates # <<>> /\ ~(~batch.parallel /\ MayDrop /\ allowed = {})
       THEN TakeUpdates(allowed)
       ELSE IF MayDrop /\ allowed = {} THEN DropAll
       ELSE /\ awake' = FALSE /\ Goto("scan", pc.call, {})
            /\ UNCHANGED <<batch, tool, pushed, updates, closed, cancelled, allowed,
                           effect, result, streak, tripped, emitted>>

\* Poll the futures in some order: one is ready, or callbacks arrived after
\* one of them, or the run was cancelled, or there is nothing to do until the
\* waker is called.  A poll uses up the leave to be polled once more.
Pollable == {c \in Pending : batch.parallel /\ cancelled => c \in batch.await \cup allowed}
Polled == SUBSET {c \in Pollable : tool[c] = "running"}
AfterPolls(polled) == allowed \ (polled \ batch.await)

PollReadyOpen(c) ==
  /\ pc.at = "scan" /\ c \in Pollable /\ tool[c] = "ready"
  /\ tool' = [tool EXCEPT ![c] = "taken"] /\ UNCHANGED <<closed, allowed>>
  /\ updates' = <<>> /\ Emit(UpdateEntries)
  /\ Goto("finalize", c, {})
  /\ UNCHANGED <<batch, pushed, cancelled, awake, effect, result, streak, tripped>>
PollReady(c) ==
  /\ pc.at = "scan" /\ c \in Pollable /\ tool[c] = "ready"
  /\ tool' = [tool EXCEPT ![c] = "taken"] /\ closed' = closed \cup {c}
  /\ \E polled \in Polled : allowed' = AfterPolls(polled \cup {c})
  /\ updates' = <<>> /\ Emit(UpdateEntries)
  /\ Goto("finalize", c, {})
  /\ UNCHANGED <<batch, pushed, cancelled, awake, effect, result, streak, tripped>>

PollUpdates ==
  /\ pc.at = "scan"
  /\ \E polled \in Polled \ {{}} : TakeUpdates(AfterPolls(polled))

PollPending ==
  /\ pc.at = "scan" /\ Pollable \in Polled
  /\ IF MayDrop THEN (batch.parallel \/ updates = <<>>) /\ DropAll
     ELSE /\ updates = <<>>
          /\ Goto("parked", pc.call, {}) /\ allowed' = AfterPolls(Pollable)
          /\ UNCHANGED <<batch, tool, pushed, updates, closed, cancelled, awake,
                         effect, result, streak, tripped, emitted>>

Unpark ==
  /\ pc.at = "parked" /\ awake
  /\ Goto("poll", pc.call, {})
  /\ UNCHANGED <<batch, tool, pushed, updates, closed, cancelled, allowed, awake,
                 effect, result, streak, tripped, emitted>>

\* One sibling of the call that called back: its result if it is ready at this
\* poll, an aborted result otherwise, after every callback made so far.
SettleSibling(c) ==
  /\ pc.at = "siblings" /\ c \in pc.todo
  /\ tool' = [tool EXCEPT ![c] = IF @ = "ready" THEN "taken" ELSE "dropped"]
  /\ closed' = closed \cup {c} /\ updates' = <<>>
  /\ effect' = [effect EXCEPT ![c] = "settled"]
  /\ \E r \in IF tool[c] = "ready" THEN Reports ELSE {"recoverable"} :
       result' = [result EXCEPT ![c] = r]
  /\ Emit(UpdateEntries \o <<Entry("end", c)>>)
  /\ IF pc.todo = {c} THEN Goto("poll", 0, {}) ELSE Goto("siblings", 0, pc.todo \ {c})
  /\ UNCHANGED <<batch, pushed, cancelled, allowed, awake, streak, tripped>>

\* One dropped call of a cancelled parallel batch.
SettleAborted(c) ==
  /\ pc.at = "aborted" /\ c \in pc.todo
  /\ closed' = closed \cup {c}
  /\ effect' = [effect EXCEPT ![c] = "settled"]
  /\ result' = [result EXCEPT ![c] = "recoverable"]
  /\ Emit(<<Entry("end", c)>>)
  /\ IF pc.todo = {c} THEN Goto("poll", 0, {}) ELSE Goto("aborted", 0, pc.todo \ {c})
  /\ UNCHANGED <<batch, tool, pushed, updates, cancelled, allowed, awake, streak, tripped>>

\* finalize_executed_tool: the after-tool hook and the effect's outcome, which
\* another thread's callbacks may overtake.
Finalize ==
  /\ pc.at = "finalize"
  /\ effect' = [effect EXCEPT ![pc.call] = "settled"]
  /\ \E r \in Reports : result' = [result EXCEPT ![pc.call] = r]
  /\ Goto("end", pc.call, {})
  /\ UNCHANGED <<batch, tool, pushed, updates, closed, cancelled, allowed, awake,
                 streak, tripped, emitted>>

\* flush_tool_updates and ToolExecutionEnd.
EndCall ==
  /\ pc.at = "end"
  /\ Emit(UpdateEntries \o <<Entry("end", pc.call)>>) /\ updates' = <<>>
  /\ IF batch.parallel THEN Goto("poll", 0, {}) ELSE Goto("append", pc.call, {})
  /\ UNCHANGED <<batch, tool, pushed, closed, cancelled, allowed, awake,
                 effect, result, streak, tripped>>

\* Every call of a parallel batch is complete: their results follow in order.
BatchComplete ==
  /\ pc.at = "poll" /\ batch.parallel /\ Pending = {}
  /\ Goto("append", 1, {})
  /\ UNCHANGED <<batch, tool, pushed, updates, closed, cancelled, allowed, awake,
                 effect, result, streak, tripped, emitted>>

\* append_tool_result_message and observe_tool_failure; a sequential batch
\* skips its other calls when the breaker trips.
AppendResult ==
  LET c == pc.call
      n == IF cancelled THEN streak
           ELSE CASE result[c] = "retryable" -> streak + 1
                  [] result[c] = "fatal" -> 1
                  [] OTHER -> 0
      trip == ~cancelled /\ (result[c] = "fatal" \/ n >= Limit)
      skipped == IF trip /\ ~batch.parallel
                   THEN [i \in 1..(NCalls - c) |-> Entry("result", c + i)] ELSE <<>>
  IN /\ pc.at = "append"
     /\ streak' = n /\ tripped' = (tripped \/ trip)
     /\ Emit(<<Entry("result", c)>> \o skipped)
     /\ IF c = NCalls \/ skipped # <<>> THEN Goto("over", 0, {})
        ELSE IF batch.parallel THEN Goto("append", c + 1, {})
        ELSE Goto("announce", c + 1, {})
     /\ UNCHANGED <<batch, tool, pushed, updates, closed, cancelled, allowed, awake,
                    effect, result>>

BatchStep ==
  \/ Announce \/ PrepareImmediate \/ PrepareExecute \/ Launch
  \/ PollLook \/ PollUpdates \/ PollPending \/ Unpark \/ Finalize \/ EndCall \/ BatchComplete \/ AppendResult
  \/ \E c \in CallIds : PollReady(c) \/ SettleSibling(c) \/ SettleAborted(c)

BatchNext ==
  \/ BatchStep \/ CancelRun
  \/ \E c \in CallIds : Callback(c) \/ ToolReady(c)

\* The run's future is polled whenever its waker was called, and a tool that
\* asks to be awaited after a cancellation settles.
BatchFairness ==
  /\ WF_batchVars(BatchStep)
  /\ \A c \in CallIds : WF_batchVars(c \in batch.await /\ ToolReady(c))

BatchSpec == BatchInit /\ [][BatchNext]_batchVars /\ BatchFairness

-----------------------------------------------------------------------------
\* Every variable keeps its shape.
BatchTypeOK ==
  /\ batch \in [parallel : BOOLEAN, await : SUBSET CallIds]
  /\ pc \in [at : {"announce", "prepare", "launch", "poll", "scan", "parked", "siblings", "aborted",
                  "finalize", "end", "append", "over"},
             call : 0..NCalls, todo : SUBSET CallIds]
  /\ tool \in [CallIds -> {"none", "running", "ready", "taken", "dropped"}]
  /\ pushed \in [CallIds -> 0..MaxUpdates] /\ updates \in Seq(CallIds)
  /\ closed \subseteq CallIds /\ allowed \subseteq CallIds
  /\ cancelled \in BOOLEAN /\ awake \in BOOLEAN /\ tripped \in BOOLEAN
  /\ effect \in [CallIds -> {"none", "begun", "settled"}]
  /\ result \in [CallIds -> Reports \cup {"none"}] /\ streak \in Nat
  /\ emitted \in Seq([kind : {"start", "update", "end", "result"}, call : CallIds])

Places(kind, c) == {i \in 1..Len(emitted) : emitted[i] = Entry(kind, c)}

\* However callbacks, completions and the cancellation interleave: every call
\* that starts ends once, its updates between the two and its one result
\* after; results follow in source order; a begun effect is settled when its
\* call ends; and no call that must be awaited is dropped.
BatchOrdered ==
  \A c \in CallIds :
    /\ \A k \in {"start", "end", "result"} : Cardinality(Places(k, c)) <= 1
    /\ \A u \in Places("update", c) : /\ \E i \in Places("start", c) : i < u
                                   /\ \A i \in Places("end", c) : u < i
    /\ Places("end", c) # {} => effect[c] # "begun"
    /\ \A i \in Places("result", c) :
         /\ Places("start", c) # {} => \E j \in Places("end", c) : j < i
         /\ \A d \in 1..(c - 1) : \E j \in Places("result", d) : j < i
    /\ c \in batch.await => tool[c] # "dropped"

\* A cancelled batch ends with every call answered, even though tools that are
\* not awaited never settle: none can keep the run busy.
CancelEndsBatch ==
  cancelled ~> (pc.at = "over" /\ \A c \in CallIds : Places("result", c) # {})
=============================================================================
