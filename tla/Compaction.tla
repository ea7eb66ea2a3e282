------------------------------ MODULE Compaction ------------------------------
(* Automatic compaction inside a durable run: the request loop of             *)
(* run/mod.rs drive_inner, the compaction transaction (run/mod.rs             *)
(* maybe_automatic_compaction, compaction.rs, supervisor/compaction.rs), and  *)
(* the projection that rebuilds a transcript from the session's branch        *)
(* (runtime/context.rs).  The run keeps its transcript in memory; the gate    *)
(* keeps the branch.  A later run, in this process or after a crash, starts   *)
(* from the projection.                                                       *)
(*                                                                            *)
(* A message is its kind, the turn that made it and, for a tool result, its   *)
(* call.  Steering and follow-up input is "queued": a user message that the   *)
(* host put into the agent's memory (enqueue_steering, enqueue_follow_up) and *)
(* that no entry of the branch stands for, so a later run knows nothing of    *)
(* it.  What a drain finds in the queues is an input of the step.             *)
(*                                                                            *)
(* Token estimates are a free choice: the pressure on the threshold, the      *)
(* length of the retained suffix and the verdict on a replacement.            *)
(* Configuration messages, plugin memory and context patches are left out.    *)
EXTENDS Naturals, Sequences, FiniteSets

CONSTANTS
    BatchSizes,         \* numbers of tool calls a response may carry
    ParallelTools,      \* BOOLEAN: tool results settle in any order
    MaxCompactions,     \* policy: max_compactions_per_run
    MaxOverflowRetries, \* policy: max_overflow_retries_per_run
    MaxQueued,          \* bound: queued messages in one transcript
    CmpTurns,           \* bound: provider requests
    CmpRuns             \* bound: runs on the lane

ASSUME CompactionAssumption ==
    /\ BatchSizes \subseteq Nat /\ ParallelTools \in BOOLEAN
    /\ MaxCompactions \in Nat /\ MaxOverflowRetries \in Nat
    /\ MaxQueued \in Nat /\ CmpTurns \in Nat /\ CmpRuns \in Nat

VARIABLES
    branch,     \* the lane's durable entries
    live,       \* the agent's canonical transcript
    at,         \* where the run is
    turn,       \* provider requests so far
    batch,      \* [calls, settled]: the tool batch of the last response
    comp,       \* the compaction transaction in progress
    policy,     \* RunPolicyState
    completed,  \* completed_assistant_turn
    cancelling, \* the run's cancellation token
    runNo       \* runs so far
cmpVars == <<branch, live, at, turn, batch, comp, policy, completed, cancelling, runNo>>

Msg(k, n, i) == [k |-> k, n |-> n, i |-> i]
\* An entry: a message and its number of calls, or the replacement `body` of
\* the entries from..to.
MsgEntry(k, n, i, calls) ==
    [k |-> k, n |-> n, i |-> i, calls |-> calls, from |-> 0, to |-> 0, body |-> <<>>]
CompactionEntry(from, to, body) ==
    [k |-> "compaction", n |-> 0, i |-> 0, calls |-> 0, from |-> from, to |-> to, body |-> body]

Queued(n) == [x \in 1..n |-> Msg("queued", 0, 0)]
QueuedFrom(m, x) == {y \in DOMAIN m : y >= x /\ m[y].k = "queued"}

\* drain_steering or drain_follow_up, then inject_queued_messages: what was
\* found joins the transcript, and nothing is written.
Drain ==
    \E n \in 0..MaxQueued :
        Cardinality(QueuedFrom(live, 1)) + n <= MaxQueued /\ live' = live \o Queued(n)

NoBatch == [calls |-> 0, settled |-> {}]
NoComp == [source |-> <<>>, keep |-> <<>>, step |-> "none", retry |-> FALSE]
NewPolicy == [compactions |-> 0, retries |-> 0, retried |-> FALSE, blocked |-> 0]

(* The projection: runtime/context.rs ---------------------------------------- *)
\* default_visible_entries: everything no committed compaction covers.
Visible(b) ==
    {j \in 1..Len(b) : \A c \in 1..Len(b) :
        b[c].k = "compaction" => j \notin b[c].from..b[c].to}

\* The assistant entry whose source turn holds the result at j.
OwnerOf(b, j) ==
    LET S == {a \in 1..(j - 1) : b[a].k = "assistant"} IN
    IF S = {} THEN 0 ELSE CHOOSE a \in S : \A x \in S : x <= a

\* source_ordered_selected_entries: the results of one assistant follow it in
\* the order of its calls, whatever order they were appended in.
SourceKey(b, j) ==
    IF b[j].k = "result" THEN <<OwnerOf(b, j), b[j].i>> ELSE <<j, 0>>
SourceBefore(b, j, l) ==
    LET x == SourceKey(b, j)
        y == SourceKey(b, l)
    IN x[1] < y[1] \/ (x[1] = y[1] /\ x[2] < y[2])
\* The results of the assistant entry at a, up to the next turn boundary.
ResultsOf(b, a) == {j \in 1..Len(b) : b[j].k = "result" /\ OwnerOf(b, j) = a}
Unresolved(b, a) == {i \in 1..b[a].calls : \A j \in ResultsOf(b, a) : b[j].i # i}

\* validate_protected_context: no visible result without its call, no visible
\* call without its result; recovery may leave the calls of `pending` open.
Derivable(b, pending) ==
    LET V == Visible(b) IN
    \A j \in V :
        /\ b[j].k = "result" => OwnerOf(b, j) \in V
        /\ b[j].k = "assistant" =>
            /\ ResultsOf(b, j) \subseteq V
            /\ Unresolved(b, j) = {} \/ j = pending

\* message_for_entry: a compaction stands for its replacement.
Messages(e) == IF e.k = "compaction" THEN e.body ELSE <<Msg(e.k, e.n, e.i)>>

\* project_selected_entries: the messages of the visible entries, each named by
\* its entry and its place there, in source order.
Places(b) == UNION {{j} \X DOMAIN Messages(b[j]) : j \in Visible(b)}
MessageAt(b, p) == Messages(b[p[1]])[p[2]]
PlaceBefore(b, p, q) ==
    SourceBefore(b, p[1], q[1]) \/ (p[1] = q[1] /\ p[2] < q[2])
PlaceOrder(b) == {e \in Places(b) \X Places(b) : PlaceBefore(b, e[1], e[2])}
InOrder(S, before) ==
    [x \in 1..Cardinality(S) |->
        CHOOSE p \in S : Cardinality({q \in S : <<q, p>> \in before}) = x - 1]
Derived(b) ==
    LET order == InOrder(Places(b), PlaceOrder(b))
    IN [x \in 1..Cardinality(Places(b)) |-> MessageAt(b, order[x])]

\* The included entries that come first and last in source order.
FirstIncluded(b) ==
    CHOOSE j \in Visible(b) : \A l \in Visible(b) \ {j} : SourceBefore(b, j, l)
LastIncluded(b) ==
    CHOOSE j \in Visible(b) : \A l \in Visible(b) \ {j} : SourceBefore(b, l, j)

LastAssistant(b) == OwnerOf(b, Len(b) + 1)
Fixed == <<cancelling, runNo>>

CmpInit ==
    /\ branch = <<MsgEntry("user", 0, 0, 0)>> /\ live = <<Msg("user", 0, 0)>>
    /\ at = "start" /\ turn = 0 /\ batch = NoBatch /\ comp = NoComp
    /\ policy = NewPolicy /\ completed = FALSE /\ cancelling = FALSE /\ runNo = 1

(* The request loop: drive_inner ---------------------------------------------- *)
\* The initial drain of the steering queue, before the first request or the
\* calls a lost run left open.
InitialDrain ==
    /\ at \in {"start", "recover"} /\ at' = IF at = "start" THEN "loop" ELSE "tools"
    /\ Drain
    /\ UNCHANGED <<branch, turn, batch, comp, policy, completed, Fixed>>

\* automatic_compaction_split: the retained suffix starts anywhere but at a
\* tool result, and may be empty; what comes before it is summarised.
Splits(m) == {s \in 2..(Len(m) + 1) : s = Len(m) + 1 \/ m[s].k # "result"}

BeginCompaction(m, retry) ==
    \E s \in Splits(m) :
        comp' = [source |-> m, keep |-> SubSeq(m, s, Len(m)), step |-> "none", retry |-> retry]

\* Above the threshold, at a request boundary after an assistant turn.
ThresholdCompaction ==
    /\ at = "loop" /\ completed
    /\ policy.blocked # Len(live) /\ policy.compactions < MaxCompactions
    /\ policy' = [policy EXCEPT !.compactions = @ + 1]
    /\ BeginCompaction(live, FALSE)
    /\ at' = "summarize"
    /\ UNCHANGED <<branch, live, turn, batch, completed, Fixed>>

\* The per-run limit is an error of the run.
CompactionLimit ==
    /\ at = "loop" /\ completed
    /\ policy.blocked # Len(live) /\ policy.compactions = MaxCompactions
    /\ at' = "ended"
    /\ UNCHANGED <<branch, live, turn, batch, comp, policy, completed, Fixed>>

\* Below the threshold, blocked at this length, or nothing to summarise.
NoCompaction ==
    /\ at = "loop" /\ at' = "request"
    /\ UNCHANGED <<branch, live, turn, batch, comp, policy, completed, Fixed>>

RequestStart ==
    /\ at = "request" /\ turn < CmpTurns
    /\ turn' = turn + 1 /\ at' = "stream"
    /\ UNCHANGED <<branch, live, batch, comp, policy, completed, Fixed>>

\* consume_assistant_stream appends the response to the transcript; `error` is
\* a response that stopped with an error or an abort.
Respond(calls, error) ==
    /\ at = "stream" /\ (error => calls = 0)
    /\ live' = Append(live, Msg("assistant", turn, 0))
    /\ batch' = [calls |-> calls, settled |-> {}]
    /\ at' = IF error THEN "settle_error" ELSE "settle"
    /\ UNCHANGED <<branch, turn, comp, policy, completed, Fixed>>

\* after_provider commits the response; the run goes on to its tools, or ends.
CommitResponse ==
    /\ at \in {"settle", "settle_error"}
    /\ branch' = Append(branch, MsgEntry("assistant", turn, 0, batch.calls))
    /\ policy' = [policy EXCEPT !.retried = FALSE]
    /\ at' = IF at = "settle" THEN "tools" ELSE "ended"
    /\ completed' = TRUE
    /\ UNCHANGED <<live, turn, batch, comp, Fixed>>

\* The transport fails: an interrupted settlement and no entry; the transcript
\* gains settle_failure's message.
StreamFails ==
    /\ at = "stream"
    /\ live' = Append(live, Msg("assistant", turn, 0))
    /\ at' = "ended"
    /\ UNCHANGED <<branch, turn, batch, comp, policy, completed, Fixed>>

\* Mutant: the overflowed response stays in the transcript of the retry.
OverflowKept(overflowed) == overflowed
\* Restore the exact pre-request transcript.
BeforeOverflow(overflowed) == SubSeq(overflowed, 1, Len(overflowed) - 1)

\* The provider reports a context overflow: the response enters the
\* transcript, its settlement is Discarded and has no entry.  One retry per
\* continuation takes it out again and compacts, if there is a prefix to
\* compact and the run still may.
Overflow ==
    LET kept == Append(live, Msg("assistant", turn, 0))
        mayRetry == ~policy.retried /\ policy.retries < MaxOverflowRetries
        rest == BeforeOverflow(kept)
    IN
    /\ at = "stream"
    /\ \/ /\ ~mayRetry /\ live' = kept /\ at' = "ended"
          /\ UNCHANGED <<policy, comp, completed>>
       \/ /\ mayRetry /\ live' = rest /\ completed' = FALSE
          /\ \/ \* the suffix is the whole transcript, or automatic compaction
                \* declines: the request is repeated as it was
                /\ policy' = [policy EXCEPT !.retries = @ + 1, !.retried = TRUE]
                /\ at' = "request" /\ UNCHANGED comp
             \/ /\ policy.compactions < MaxCompactions
                /\ policy' = [policy EXCEPT !.retries = @ + 1, !.retried = TRUE,
                                            !.compactions = @ + 1]
                /\ BeginCompaction(rest, TRUE)
                /\ at' = "summarize"
             \/ /\ policy.compactions = MaxCompactions
                /\ policy' = [policy EXCEPT !.retries = @ + 1, !.retried = TRUE]
                /\ at' = "ended" /\ UNCHANGED comp
    /\ UNCHANGED <<branch, turn, batch, Fixed>>

\* A tool settles: its result is durable before the batch is over.
ToolSettles(i) ==
    /\ at = "tools" /\ i \in 1..batch.calls \ batch.settled
    /\ ParallelTools \/ \A h \in 1..(i - 1) : h \in batch.settled
    /\ branch' = Append(branch, MsgEntry("result", turn, i, 0))
    /\ batch' = [batch EXCEPT !.settled = @ \cup {i}]
    /\ UNCHANGED <<live, at, turn, comp, policy, completed, Fixed>>

\* The transcript up to its last assistant message, and the queued messages
\* behind that.
LastResponse(m) ==
    CHOOSE x \in DOMAIN m : m[x].k = "assistant"
                    /\ \A y \in DOMAIN m : y > x => m[y].k # "assistant"
UpToAssistant(m) == SubSeq(m, 1, LastResponse(m))
QueuedBehind(m) == Queued(Cardinality(QueuedFrom(m, LastResponse(m))))

\* The batch is over: the results enter the transcript in call order, those of
\* a recovered batch included, ahead of what was drained at its start
\* (order_recovered_tool_results).
AppendBatch ==
    /\ at = "tools" /\ batch.settled = 1..batch.calls
    /\ live' = UpToAssistant(live) \o [i \in 1..batch.calls |-> Msg("result", turn, i)]
                                  \o QueuedBehind(live)
    /\ at' = "after"
    /\ UNCHANGED <<branch, turn, batch, comp, policy, completed, Fixed>>

\* advance_after_assistant_turn: another request (tool results to answer, a
\* response cut at its length, or queued input), or the run's end.  Steering is
\* drained either way, follow-up input only when nothing else goes on.
AfterTurn ==
    /\ at = "after" /\ batch' = NoBatch
    /\ \/ at' = "loop" /\ Drain
       \/ at' = "ended" /\ UNCHANGED live
    /\ UNCHANGED <<branch, turn, comp, policy, completed, Fixed>>

(* The transaction: maybe_automatic_compaction -------------------------------- *)
\* The compactor's one provider request: intent, then settlement.
SummaryRequest ==
    /\ at = "summarize" /\ comp.step = "none"
    /\ comp' = [comp EXCEPT !.step = "pending"]
    /\ UNCHANGED <<branch, live, at, turn, batch, policy, completed, Fixed>>

SummarySettles(ok) ==
    /\ at = "summarize" /\ comp.step = "pending"
    /\ comp' = [comp EXCEPT !.step = IF ok THEN "completed" ELSE "interrupted"]
    /\ UNCHANGED <<branch, live, at, turn, batch, policy, completed, Fixed>>

\* The compactor returns a replacement; a request it left unsettled fails the
\* transaction (settle_unfinished).
CompactorReturns ==
    /\ at = "summarize" /\ at' = IF comp.step = "pending" THEN "ended" ELSE "propose"
    /\ UNCHANGED <<branch, live, turn, batch, comp, policy, completed, Fixed>>

\* No compactor, an error or a timeout of the compactor, or a replacement the
\* validators reject: the run fails, nothing is replaced.
CompactionFails ==
    /\ at \in {"summarize", "propose"} /\ at' = "ended"
    /\ UNCHANGED <<branch, live, turn, batch, comp, policy, completed, Fixed>>

\* reserve_durable_replacement_commit: cancellation or the commit, whichever
\* comes first.
Reserve ==
    /\ at = "propose" /\ ~cancelling /\ at' = "write"
    /\ UNCHANGED <<branch, live, turn, batch, comp, policy, completed, Fixed>>

Replacement == <<Msg("summary", Len(branch), 0)>> \o comp.keep

\* persist_compaction_replacement: the source must be the durable context and
\* an admitted summary request must have completed; then one entry covers the
\* source from its first to its last included entry.
WriteReplacement ==
    /\ at = "write"
    /\ IF Derivable(branch, 0) /\ Derived(branch) = comp.source /\ comp.step # "interrupted"
       THEN /\ branch' = Append(branch, CompactionEntry(FirstIncluded(branch), LastIncluded(branch), Replacement))
            /\ comp' = [comp EXCEPT !.source = Replacement]
            /\ at' = "publish"
       ELSE UNCHANGED <<branch, comp>> /\ at' = "ended"
    /\ UNCHANGED <<live, turn, batch, policy, completed, Fixed>>

\* publish_durable_replacement: not cancellable.  `still` is a replacement
\* that leaves the transcript above the threshold.
PublishReplacement(still) ==
    /\ at = "publish"
    /\ live' = comp.source /\ comp' = NoComp
    /\ at' = IF cancelling THEN "ended" ELSE "request"
    /\ policy' = IF still /\ ~cancelling
                 THEN [policy EXCEPT !.blocked = Len(comp.source)] ELSE policy
    /\ UNCHANGED <<branch, turn, batch, completed, Fixed>>

(* Cancellation, failure, restart ---------------------------------------------- *)
CancelRequested ==
    /\ at # "ended" /\ ~cancelling /\ cancelling' = TRUE
    /\ UNCHANGED <<branch, live, at, turn, batch, comp, policy, completed, runNo>>

\* The run notices its token at its next boundary.
CancelSettles ==
    /\ cancelling /\ at \in {"loop", "request", "stream", "after", "summarize", "propose"}
    /\ at' = "ended"
    /\ UNCHANGED <<branch, live, turn, batch, comp, policy, completed, Fixed>>

\* The process dies, or a commit fails and the gate ends the run, at any step.
RunLost ==
    /\ at # "ended" /\ at' = "ended"
    /\ UNCHANGED <<branch, live, turn, batch, comp, policy, completed, Fixed>>

\* The next run on the lane starts from the projection: with a new user
\* message, or with the calls a lost run left open.  Queued messages of the
\* last run are gone.
NextRun ==
    LET a == LastAssistant(branch)
        open == IF a = 0 THEN {} ELSE Unresolved(branch, a)
    IN
    /\ at = "ended" /\ runNo < CmpRuns /\ runNo' = runNo + 1
    /\ Derivable(branch, a)
    /\ IF open = {}
       THEN /\ branch' = Append(branch, MsgEntry("user", turn, 0, 0))
            /\ at' = "start" /\ batch' = NoBatch
       ELSE /\ at' = "recover"
            /\ batch' = [calls |-> branch[a].calls, settled |-> 1..branch[a].calls \ open]
            /\ UNCHANGED branch
    /\ live' = Derived(branch')
    /\ comp' = NoComp /\ policy' = NewPolicy /\ completed' = (open # {}) /\ cancelling' = FALSE
    /\ UNCHANGED turn

CmpNext ==
    \/ InitialDrain \/ ThresholdCompaction \/ CompactionLimit \/ NoCompaction \/ RequestStart
    \/ \E n \in BatchSizes, e \in BOOLEAN : Respond(n, e)
    \/ CommitResponse \/ StreamFails \/ Overflow
    \/ \E i \in 1..batch.calls : ToolSettles(i)
    \/ AppendBatch \/ AfterTurn
    \/ SummaryRequest \/ (\E ok \in BOOLEAN : SummarySettles(ok))
    \/ CompactorReturns \/ CompactionFails \/ Reserve \/ WriteReplacement
    \/ (\E still \in BOOLEAN : PublishReplacement(still))
    \/ CancelRequested \/ CancelSettles \/ RunLost \/ NextRun

CmpSpec == CmpInit /\ [][CmpNext]_cmpVars

\* The shape of the state.
CmpTypeOK ==
    /\ at \in {"start", "recover", "loop", "request", "stream", "settle", "settle_error",
               "tools", "after", "summarize", "propose", "write", "publish", "ended"}
    /\ turn \in 0..CmpTurns /\ batch.settled \subseteq 1..batch.calls
    /\ policy.compactions \in 0..MaxCompactions /\ policy.retries \in 0..MaxOverflowRetries
    /\ comp.step \in {"none", "pending", "completed", "interrupted"}

\* d is the transcript m without its queued messages: as many messages as m has
\* with an entry, and each of those at its place.
Entries(m, x) == Cardinality({y \in 1..x : m[y].k # "queued"})
DurablePart(m, d) ==
    /\ Len(d) = Entries(m, Len(m))
    /\ \A x \in DOMAIN m : m[x].k # "queued" => d[Entries(m, x)] = m[x]

\* LiveIsDurable: at every boundary of the run the transcript in memory, its
\* queued input aside, is what the branch would rebuild: through results that
\* settle out of order, input that is drained between them, an overflowed
\* response that is taken back, a cancellation on either side of a
\* replacement, and a restart in the middle of a batch (compaction.rs:1470,
\* "Otherwise a committed `CompactionEntry` could change context after reopen
\* while the live agent retained its old history").
LiveIsDurable ==
    at \in {"loop", "request", "stream", "summarize", "propose", "write"}
        /\ Derivable(branch, 0)
        => DurablePart(live, Derived(branch))

\* AlwaysRebuilt: the branch can always be projected again, a lost run's open
\* calls aside (docs/compaction.md:32, "On passive reopen, runtime::context
\* reconstructs future model context from the replacement").
AlwaysRebuilt == Derivable(branch, LastAssistant(branch))
===============================================================================
