------------------------------ MODULE EventHub ------------------------------
(***************************************************************************)
(* The process-local event fanout (`EventHub`) between the runs and the    *)
(* durable writers on one side and one application subscription on the     *)
(* other.  A writer commits, releases the session, and publishes later; a  *)
(* run records an event under its own lock and its observer publishes it   *)
(* afterwards, so a preview may arrive after later events of its run.      *)
(* Subscribing captures the durable prefix and registers under the hub     *)
(* lock, which every publication also takes: both are one step here.       *)
(***************************************************************************)
EXTENDS Naturals, Sequences, FiniteSets

CONSTANTS
  HubLanes,       \* lanes that commit session facts
  HubRuns,        \* observation runs
  HubSubjects,    \* messages and tool calls of a run
  HubBuffer,      \* SUBSCRIBER_EVENT_BUFFER
  HubFences,      \* LIVE_PREVIEW_LIMIT and the two fence limits equal to it
  MaxHubCommits,  \* bound on committed facts
  MaxHubSeq,      \* bound on the events of one run
  MaxHubDelayed   \* bound on previews recorded and not yet published

ASSUME EventHubAssumption ==
  /\ HubBuffer \in Nat \ {0} /\ HubFences \in Nat \ {0}
  /\ MaxHubCommits \in Nat /\ MaxHubSeq \in Nat /\ MaxHubDelayed \in Nat

VARIABLES
  commits,  \* the durable sequence
  unpub,    \* each lane's committed fact that it has still to publish, or 0
  runs,     \* each run's lifecycle: [at, seq, done]
  delayed,  \* previews recorded and not yet published
  hub,      \* EventHubState
  sub,      \* the subscription with its SubscriberState
  view      \* the consumer: what the subscription made of its events

hubVars == <<commits, unpub, runs, delayed, hub, sub, view>>

-----------------------------------------------------------------------------
\* An event carries its source (a run or a lane) and that source's sequence.
HubEvent(kind, from, seq, subject, act) ==
  [kind |-> kind, from |-> from, seq |-> seq, subject |-> subject, act |-> act]
Identity(e) == <<e.from, e.subject>>
IsPreview(e) == e.kind = "preview"

NoSub == [on |-> FALSE, snap |-> 0, events |-> <<>>, fenced |-> <<>>,
          completed |-> <<>>, lagged |-> FALSE, token |-> FALSE, waiting |-> FALSE]
NoView == [facts |-> <<>>, shown |-> {}, settled |-> {}]

HubInit ==
  /\ commits = 0 /\ unpub = [l \in HubLanes |-> 0] /\ delayed = {}
  /\ runs = [r \in HubRuns |-> [at |-> "new", seq |-> 0, done |-> {}]]
  /\ hub = [seen |-> [r \in HubRuns |-> 0], live |-> <<>>, fenced |-> <<>>]
  /\ sub = NoSub /\ view = NoView

SeqSet(s) == {s[i] : i \in 1..Len(s)}
\* The entries of s that are in S, in their order.
Filtered(s, S) ==
  LET f[i \in 0..Len(s)] == IF i = 0 THEN <<>>
                            ELSE IF s[i] \in S THEN Append(f[i - 1], s[i]) ELSE f[i - 1]
  IN f[Len(s)]
Without(s, x) == Filtered(s, SeqSet(s) \ {x})
\* Move x to the back of a bounded queue that drops its oldest entry.
PushBounded(s, x) ==
  LET rest == Without(s, x)
  IN Append(IF Len(rest) = HubFences THEN Tail(rest) ELSE rest, x)

-----------------------------------------------------------------------------
\* EventHubState::accept: whether the event is in the order of its source and
\* not a preview of a settled subject, and the state it leaves either way.
SourceOrderedAnyway(e) ==
  hub.seen[e.from] = 0 => e.kind = "start"
SourceOrdered(e) ==
  IF hub.seen[e.from] = 0 THEN e.kind = "start" ELSE e.seq > hub.seen[e.from]

Accepted(e) ==
  \/ e.kind = "session"
  \/ SourceOrdered(e) /\ (IsPreview(e) => Identity(e) \notin SeqSet(hub.fenced))

OfRun(s, r) == Filtered(s, {id \in SeqSet(s) : id[1] # r})

HubAfter(e) ==
  IF e.kind = "session" \/ ~SourceOrdered(e) THEN hub
  ELSE CASE e.kind = "start" -> [hub EXCEPT !.seen[e.from] = e.seq]
         [] e.kind = "end" ->
              [seen |-> [hub.seen EXCEPT ![e.from] = 0],
               live |-> OfRun(hub.live, e.from), fenced |-> OfRun(hub.fenced, e.from)]
         [] e.kind = "done" ->
              [seen |-> [hub.seen EXCEPT ![e.from] = e.seq],
               live |-> Without(hub.live, Identity(e)),
               fenced |-> PushBounded(hub.fenced, Identity(e))]
         [] e.kind = "preview" ->
              [hub EXCEPT !.seen[e.from] = e.seq,
                          !.live = IF Accepted(e) THEN PushBounded(@, Identity(e)) ELSE @]

-----------------------------------------------------------------------------
\* SubscriberState::enqueue_preview: a queued preview of the same subject is
\* replaced by the two coalesced, at the back; a full queue drops it.
EnqueuePreviewSilent(e) ==
  IF Identity(e) \in SeqSet(sub.fenced) \/ Len(sub.events) = HubBuffer THEN sub
  ELSE [sub EXCEPT !.events = Append(@, e)]
EnqueuePreview(e) ==
  LET same(q) == IsPreview(q) /\ Identity(q) = Identity(e)
      rest == Filtered(sub.events, {q \in SeqSet(sub.events) : ~same(q)})
      act == e.act \/ \E i \in 1..Len(sub.events) : same(sub.events[i]) /\ sub.events[i].act
  IN IF Identity(e) \in SeqSet(sub.fenced) \/ e.from \in SeqSet(sub.completed)
       THEN sub
       ELSE IF Len(rest) = HubBuffer THEN [sub EXCEPT !.events = rest]
       ELSE [sub EXCEPT !.events = Append(rest, [e EXCEPT !.act = act]), !.token = TRUE]

\* SubscriberState::enqueue_semantic: a terminal event first reduces the
\* queued previews it settles to those with an activity; an overflow clears
\* everything and ends the subscription.
EnqueueSemantic(e) ==
  LET settles(q) == IsPreview(q) /\ \/ e.kind = "end" /\ q.from = e.from
                                    \/ e.kind = "done" /\ Identity(q) = Identity(e)
      kept == Filtered(sub.events, {q \in SeqSet(sub.events) : settles(q) => q.act})
      fenced == CASE e.kind = "end" -> OfRun(sub.fenced, e.from)
                  [] e.kind = "done" -> PushBounded(sub.fenced, Identity(e))
                  [] OTHER -> sub.fenced
      completed == IF e.kind = "end" THEN PushBounded(sub.completed, e.from) ELSE sub.completed
  IN IF Len(kept) = HubBuffer
       THEN [sub EXCEPT !.events = <<>>, !.fenced = <<>>, !.completed = <<>>,
                        !.lagged = TRUE, !.token = TRUE]
       ELSE [sub EXCEPT !.events = Append(kept, e), !.fenced = fenced,
                        !.completed = completed, !.token = TRUE]

Enqueue(e) ==
  IF ~sub.on \/ sub.lagged THEN sub
  ELSE IF IsPreview(e) THEN EnqueuePreview(e) ELSE EnqueueSemantic(e)

\* EventHub::publish_normalized, under the hub lock.
Publish(e) ==
  /\ hub' = HubAfter(e)
  /\ sub' = IF Accepted(e) THEN Enqueue(e) ELSE sub
  /\ UNCHANGED view

-----------------------------------------------------------------------------
\* A writer commits one fact, releases the session, and publishes it later.
CommitFact(l) ==
  /\ unpub[l] = 0 /\ commits < MaxHubCommits
  /\ commits' = commits + 1
  /\ unpub' = [unpub EXCEPT ![l] = commits + 1]
  /\ UNCHANGED <<runs, delayed, hub, sub, view>>

PublishFact(l) ==
  /\ unpub[l] # 0
  /\ Publish(HubEvent("session", l, unpub[l], "none", FALSE))
  /\ unpub' = [unpub EXCEPT ![l] = 0]
  /\ UNCHANGED <<commits, runs, delayed>>

\* record_event numbers the events of a run; the observer publishes them.
RunStart(r) ==
  /\ runs[r].at = "new" /\ MaxHubSeq > 0
  /\ runs' = [runs EXCEPT ![r].at = "live", ![r].seq = 1]
  /\ Publish(HubEvent("start", r, 1, "none", FALSE))
  /\ UNCHANGED <<commits, unpub, delayed>>

Update(r, s, act) ==
  /\ runs[r].at = "live" /\ runs[r].seq < MaxHubSeq /\ s \notin runs[r].done
  /\ runs' = [runs EXCEPT ![r].seq = @ + 1]
  /\ LET e == HubEvent("preview", r, runs[r].seq + 1, s, act)
     IN \/ Publish(e) /\ UNCHANGED delayed
        \/ /\ Cardinality(delayed) < MaxHubDelayed
           /\ delayed' = delayed \cup {e} /\ UNCHANGED <<hub, sub, view>>
  /\ UNCHANGED <<commits, unpub>>

PublishDelayed(e) ==
  /\ delayed' = delayed \ {e} /\ Publish(e)
  /\ UNCHANGED <<commits, unpub, runs>>

\* ToolExecutionEnd, or the MessageEnd of an assistant message.
SubjectDone(r, s) ==
  /\ runs[r].at = "live" /\ runs[r].seq < MaxHubSeq /\ s \notin runs[r].done
  /\ runs' = [runs EXCEPT ![r].seq = @ + 1, ![r].done = @ \cup {s}]
  /\ Publish(HubEvent("done", r, runs[r].seq + 1, s, FALSE))
  /\ UNCHANGED <<commits, unpub, delayed>>

RunEnd(r) ==
  /\ runs[r].at = "live" /\ runs[r].seq < MaxHubSeq
  /\ runs' = [runs EXCEPT ![r].at = "ended", ![r].seq = @ + 1]
  /\ Publish(HubEvent("end", r, runs[r].seq + 1, "none", FALSE))
  /\ UNCHANGED <<commits, unpub, delayed>>

-----------------------------------------------------------------------------
\* subscribe_with_snapshot: the durable prefix and the live previews.
Settled == {x \in HubRuns \X HubSubjects :
              runs[x[1]].at = "ended" \/ x[2] \in runs[x[1]].done}

Subscribe ==
  /\ ~sub.on
  /\ sub' = [NoSub EXCEPT !.on = TRUE, !.snap = commits]
  /\ view' = [facts |-> <<>>, shown |-> SeqSet(hub.live), settled |-> Settled]
  /\ UNCHANGED <<commits, unpub, runs, delayed, hub>>

\* The consumer applies one event: a preview shows its subject, a terminal
\* event settles it.
Applied(v, e) ==
  CASE e.kind = "session" -> [v EXCEPT !.facts = Append(@, e.seq)]
    [] e.kind = "start" -> v
    [] e.kind = "preview" -> [v EXCEPT !.shown = @ \cup {Identity(e)}]
    [] e.kind = "done" -> [v EXCEPT !.shown = @ \ {Identity(e)},
                                    !.settled = @ \cup {Identity(e)}]
    [] e.kind = "end" ->
         [v EXCEPT !.shown = {x \in @ : x[1] # e.from},
                   !.settled = @ \cup ({e.from} \X HubSubjects)]

\* take_next suppresses the facts the snapshot already has.
FreshAgain(e) == e.kind = "session" => e.seq >= sub.snap
Fresh(e) == e.kind = "session" => e.seq > sub.snap

TakeNext ==
  LET hits == {i \in 1..Len(sub.events) : Fresh(sub.events[i])}
  IN IF hits = {}
       THEN /\ sub' = [sub EXCEPT !.events = <<>>, !.waiting = TRUE]
            /\ UNCHANGED view
       ELSE LET i == CHOOSE i \in hits : \A j \in hits : i <= j
            IN /\ sub' = [sub EXCEPT !.events = SubSeq(@, i + 1, Len(@))]
               /\ view' = Applied(view, sub.events[i])

\* recv, before it blocks: an event, or nothing and then the notification.
Receive ==
  /\ sub.on /\ ~sub.waiting /\ ~sub.lagged
  /\ TakeNext
  /\ UNCHANGED <<commits, unpub, runs, delayed, hub>>

\* The blocked receiver gets the one buffered notification and looks again.
Wake ==
  /\ sub.waiting /\ sub.token
  /\ sub' = [sub EXCEPT !.waiting = FALSE, !.token = FALSE]
  /\ UNCHANGED <<commits, unpub, runs, delayed, hub, view>>

\* Lagged ends the subscription; the application drops it and its view.
Lagged ==
  /\ sub.lagged /\ ~sub.waiting
  /\ sub' = NoSub /\ view' = NoView
  /\ UNCHANGED <<commits, unpub, runs, delayed, hub>>

HubNext ==
  \/ \E l \in HubLanes : CommitFact(l) \/ PublishFact(l)
  \/ \E r \in HubRuns : RunStart(r) \/ RunEnd(r)
  \/ \E r \in HubRuns, s \in HubSubjects, act \in BOOLEAN : Update(r, s, act)
  \/ \E e \in delayed : PublishDelayed(e)
  \/ \E r \in HubRuns, s \in HubSubjects : SubjectDone(r, s)
  \/ Subscribe \/ Receive \/ Wake \/ Lagged

HubSpec == HubInit /\ [][HubNext]_hubVars

-----------------------------------------------------------------------------
Identities == HubRuns \X HubSubjects
HubEvents == [kind : {"session", "start", "preview", "done", "end"}, from : HubLanes \cup HubRuns,
              seq : Nat, subject : HubSubjects \cup {"none"}, act : BOOLEAN]

\* Every variable keeps its shape, and every queue its bound.
HubTypeOK ==
  /\ commits \in 0..MaxHubCommits /\ unpub \in [HubLanes -> 0..MaxHubCommits]
  /\ runs \in [HubRuns -> [at : {"new", "live", "ended"}, seq : 0..MaxHubSeq,
                          done : SUBSET HubSubjects]]
  /\ delayed \subseteq HubEvents
  /\ hub \in [seen : [HubRuns -> 0..MaxHubSeq], live : Seq(Identities), fenced : Seq(Identities)]
  /\ sub \in [on : BOOLEAN, snap : 0..MaxHubCommits, events : Seq(HubEvents),
              fenced : Seq(Identities), completed : Seq(HubRuns),
              lagged : BOOLEAN, token : BOOLEAN, waiting : BOOLEAN]
  /\ view \in [facts : Seq(Nat), shown : SUBSET Identities, settled : SUBSET Identities]
  /\ Len(hub.live) <= HubFences /\ Len(hub.fenced) <= HubFences
  /\ Len(sub.fenced) <= HubFences /\ Len(sub.completed) <= HubFences
  /\ Len(sub.events) <= HubBuffer

Times(x, s) == Cardinality({i \in 1..Len(s) : s[i] = x})

\* A subscription that has not lagged loses and repeats no durable fact,
\* although facts are committed before, during and after the snapshot and
\* published later: each is in the snapshot, or still with its writer, or
\* queued or delivered exactly once, and none of the snapshot is delivered.
SnapshotThenFacts ==
  sub.on /\ ~sub.lagged =>
    LET queued(n) == {i \in 1..Len(sub.events) :
                        sub.events[i].kind = "session" /\ sub.events[i].seq = n}
        reached(n) == Times(n, view.facts) + Cardinality(queued(n))
                        + Cardinality({l \in HubLanes : unpub[l] = n})
    IN \A n \in 1..commits :
         IF n <= sub.snap THEN Times(n, view.facts) = 0 ELSE reached(n) = 1

\* The consumer never shows as live a subject whose end it was told of, or
\* that had ended when it took its snapshot: a delayed preview cannot revive
\* settled work, even when the bounded fences have forgotten it.
SettledStaysSettled ==
  view.shown \cap view.settled = {}

\* A receiver blocked on the one-slot notification channel has nothing to
\* receive, or a notification is there to wake it (also for a lag).
NoLostNotice ==
  sub.waiting /\ (sub.events # <<>> \/ sub.lagged) => sub.token
=============================================================================
