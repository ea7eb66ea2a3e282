----------------------------- MODULE AppendIndex -----------------------------
(***************************************************************************)
(* How a session decides that a commit fits its log.  The authority is the *)
(* reduction of the whole prefix (tea-session reduction.rs, and the agent  *)
(* graph of agents.rs), which every open repeats.  An append of one        *)
(* ordinary lifecycle record skips it and asks the index of store.rs,      *)
(* which is advanced with every committed item and built again at an open. *)
(*                                                                         *)
(* `log` is what the reduction of the accepted items knows, `idx` what the *)
(* index knows.  Both are folds over the same items, so the index an open  *)
(* builds is the one at hand.  Records the index never covers, and that    *)
(* change nothing the two disagree about (controls, withdrawals,           *)
(* settlements, checkpoints, forks, deferred writes, terminal facts), are  *)
(* left out.  An operation provisions at most one entry; a tool call is    *)
(* named by the assistant entry that holds it.                             *)
(***************************************************************************)
EXTENDS Naturals, FiniteSets

CONSTANTS
  Entries, OpIds, Epochs, Steps, Requests,  \* identifiers
  MaxIdxCommits, \* bound on commits
  Reuse         \* BOOLEAN: a caller may give a user message the identifier
                \* the log keeps for a tool result or a revision

ASSUME AppendIndexAssumption ==
  /\ IsFiniteSet(Epochs) /\ IsFiniteSet(Steps)
  /\ "none" \notin OpIds \cup Entries /\ "empty" \notin Entries
  /\ MaxIdxCommits \in Nat /\ Reuse \in BOOLEAN

None == "none"
IdxLanes == {"main", "side"}
Kinds == {"model", "compaction"}
UserBodies == {"u1", "u2"}             \* two different user messages
Leaves == {"empty"} \cup Entries       \* None: the lane does not exist
Inputs == [id : Entries, body : UserBodies]
OneInput == {{}} \cup {{i} : i \in Inputs}

VARIABLES log, idx, committed   \* committed: the number of commits
idxVars == <<log, idx, committed>>

NoStep == [op |-> None, epoch |-> None, kind |-> None]
NoOp == [lane |-> None, finished |-> FALSE, epochs |-> 0, open |-> {}]

\* SessionAppendIndex::empty
EmptyIndex ==
  [entries |-> {}, leaf |-> [l \in IdxLanes |-> IF l = "main" THEN "empty" ELSE None],
   prov |-> [e \in Entries |-> None],
   op |-> [o \in OpIds |-> NoOp], active |-> [l \in IdxLanes |-> None],
   epoch |-> [p \in Epochs |-> None],
   step |-> [s \in Steps |-> NoStep], attempt |-> [k \in Epochs \X Kinds |-> 0],
   request |-> [r \in Requests |-> None], settled |-> {},
   agents |-> {}, ready |-> TRUE]

\* What reduce_lane_prefix and reduce_agent_graph_prefix start from; `ok` turns
\* FALSE where they return Corruption.
EmptyLog ==
  [ok |-> TRUE,
   leaf |-> [l \in IdxLanes |-> IF l = "main" THEN "empty" ELSE None],
   body |-> [e \in Entries |-> None], call |-> [e \in Entries |-> None],
   prov |-> [e \in Entries |-> None],
   op |-> [o \in OpIds |-> NoOp], active |-> [l \in IdxLanes |-> None],
   epoch |-> [p \in Epochs |-> None],
   step |-> [s \in Steps |-> NoStep], attempt |-> [k \in Epochs \X Kinds |-> 0],
   request |-> [r \in Requests |-> None], settled |-> {},
   tools |-> {}, activations |-> {}, inputs |-> {}, dispatched |-> {},
   bound |-> {}, child |-> {}]

-----------------------------------------------------------------------------
\* The items a caller may commit.  `how` of an operation: started at once,
\* dispatching accepted inputs, or the operation of a child agent.
LaneItems == [k : {"lane"}, lane : IdxLanes, base : Leaves]
OpItems ==
  {m \in [k : {"op"}, id : OpIds, lane : IdxLanes, source : Leaves, input : OneInput,
          how : {"direct", "queued", "child"}] : m.how = "queued" => m.input # {}}

Items ==
  LaneItems \cup OpItems
    \cup [k : {"entry"}, id : Entries, lane : IdxLanes,
          body : UserBodies \cup {"assistant", "revision"}, call : {None}]
    \cup [k : {"entry"}, id : Entries, lane : IdxLanes, body : {"result"}, call : Entries]
    \cup [k : {"finish", "usage"}, op : OpIds]
    \cup [k : {"epoch"}, id : Epochs, op : OpIds, index : 0..(Cardinality(Epochs) - 1)]
    \cup [k : {"epochEnd"}, id : Epochs, op : OpIds]
    \cup [k : {"step"}, id : Steps, op : OpIds, epoch : Epochs, kind : Kinds,
          number : 1..Cardinality(Steps)]
    \cup [k : {"request"}, id : Requests, op : OpIds, epoch : Epochs, step : Steps]
    \cup [k : {"settled"}, id : Requests, op : OpIds]
    \cup [k : {"tool"}, op : OpIds, epoch : Epochs, call : Entries, result : Entries]
    \cup [k : {"activation"}, op : OpIds, entry : Entries]
    \cup [k : {"input"}, lane : IdxLanes, input : Inputs]
    \cup [k : {"spawned"}, op : OpIds, lane : {"side"}]

-----------------------------------------------------------------------------
(* The reduction.                                                          *)

\* open_operation: known, and not finished.
IsOpen(s, o) == s.op[o] # NoOp /\ ~s.op[o].finished
InOpenEpoch(s, o, p) == s.epoch[p] = o /\ p \in s.op[o].open

\* reduce_lane_prefix goes on after an entry whose parent is `parent`.
EntryReducible(s, m, parent) ==
  /\ s.leaf[m.lane] # None /\ parent = s.leaf[m.lane]
  /\ s.body[m.id] = None
  /\ s.prov[m.id] \in {None, m.body}

\* ... after an accepted operation.  A child's operation follows its spawn and
\* carries its assignment.
OpReducible(s, m) ==
  /\ s.op[m.id] = NoOp
  /\ s.leaf[m.lane] # None /\ m.source = s.leaf[m.lane]
  /\ s.active[m.lane] = None
  /\ \A i \in m.input : s.body[i.id] = None /\ s.prov[i.id] = None
  /\ m.how = "queued" => \A i \in m.input : <<m.lane, i>> \in s.inputs /\ i.id \notin s.dispatched
  /\ m.how = "child" => m.lane \in s.bound /\ m.input # {}

\* ... after a record of an operation's lifecycle.
LifecycleReducible(s, m) ==
  /\ IsOpen(s, m.op)
  /\ m.k = "finish" => s.op[m.op].open = {} /\ s.active[s.op[m.op].lane] = m.op
  /\ m.k = "epoch" =>
       s.op[m.op].open = {} /\ m.index = s.op[m.op].epochs /\ s.epoch[m.id] = None
  /\ m.k = "epochEnd" => InOpenEpoch(s, m.op, m.id)
  /\ m.k \in {"step", "request", "tool"} => InOpenEpoch(s, m.op, m.epoch)
  /\ m.k = "step" => s.step[m.id] = NoStep /\ m.number = s.attempt[m.epoch, m.kind] + 1
  /\ m.k = "request" =>
       s.step[m.step].op = m.op /\ s.step[m.step].epoch = m.epoch /\ s.request[m.id] = None
  /\ m.k = "settled" => s.request[m.id] = m.op /\ m.id \notin s.settled
  /\ m.k = "tool" =>
       s.body[m.call] = "assistant" /\ \A t \in s.tools : t.call # m.call /\ t.result # m.result

\* validate_spawn: a tool intent of an open root operation, a lane, one agent.
SpawnReducible(s, m) ==
  /\ s.op[m.op].lane = "main" /\ IsOpen(s, m.op) /\ m.op \notin s.child
  /\ \E t \in s.tools : t.op = m.op
  /\ s.leaf[m.lane] # None /\ m.lane \notin s.bound

Lifecycle == {"finish", "usage", "epoch", "epochEnd", "step", "request", "settled"}

Reducible(s, m, parent) ==
  /\ m.k = "lane" =>
       s.leaf[m.lane] = None /\ (m.base \in Entries => s.body[m.base] # None)
  /\ m.k = "entry" => EntryReducible(s, m, parent)
  /\ m.k = "op" => OpReducible(s, m)
  /\ m.k \in Lifecycle \cup {"tool", "activation"} => LifecycleReducible(s, m)
  /\ m.k = "input" =>
       /\ s.leaf[m.lane] # None /\ s.body[m.input.id] = None
       /\ \A i \in s.inputs : i[2].id # m.input.id
  /\ m.k = "spawned" => SpawnReducible(s, m)

Ids(input) == {i.id : i \in input}
Provisioned(prov, input) ==
  [e \in Entries |-> IF e \in Ids(input) THEN (CHOOSE i \in input : i.id = e).body ELSE prov[e]]
InEpoch(o, p) == [o EXCEPT !.epochs = @ + 1, !.open = @ \cup {p}]

Reduced(s, m) ==
  CASE m.k = "lane" -> [s EXCEPT !.leaf[m.lane] = m.base]
    [] m.k = "entry" -> [s EXCEPT !.leaf[m.lane] = m.id, !.body[m.id] = m.body, !.call[m.id] = m.call]
    [] m.k = "op" ->
         [s EXCEPT !.op[m.id] = [NoOp EXCEPT !.lane = m.lane], !.active[m.lane] = m.id,
                   !.prov = Provisioned(@, m.input),
                   !.dispatched = @ \cup (IF m.how = "queued" THEN Ids(m.input) ELSE {}),
                   !.child = @ \cup (IF m.how = "child" THEN {m.id} ELSE {})]
    [] m.k = "finish" -> [s EXCEPT !.op[m.op].finished = TRUE, !.active[s.op[m.op].lane] = None]
    [] m.k = "epoch" -> [s EXCEPT !.epoch[m.id] = m.op, !.op[m.op] = InEpoch(@, m.id)]
    [] m.k = "epochEnd" -> [s EXCEPT !.op[m.op].open = @ \ {m.id}]
    [] m.k = "step" -> [s EXCEPT !.step[m.id] = [op |-> m.op, epoch |-> m.epoch, kind |-> m.kind],
                                 !.attempt[<<m.epoch, m.kind>>] = m.number]
    [] m.k = "request" -> [s EXCEPT !.request[m.id] = m.op]
    [] m.k = "settled" -> [s EXCEPT !.settled = @ \cup {m.id}]
    [] m.k = "usage" -> s
    [] m.k = "tool" -> [s EXCEPT !.tools = @ \cup {[op |-> m.op, call |-> m.call, result |-> m.result]}]
    [] m.k = "activation" -> [s EXCEPT !.activations = @ \cup {[op |-> m.op, entry |-> m.entry]}]
    [] m.k = "input" -> [s EXCEPT !.inputs = @ \cup {<<m.lane, m.input>>}]
    [] m.k = "spawned" -> [s EXCEPT !.bound = @ \cup {m.lane}]

\* One more item of the prefix; the first that does not fit ends it.
Replay(s, m, parent) ==
  IF s.ok /\ Reducible(s, m, parent) THEN Reduced(s, m) ELSE [s EXCEPT !.ok = FALSE]

\* validate_tool_results, at the end of the prefix: an entry kept for a result
\* holds it, and a result without intent answers some assistant call.
ToolResultsMatch(s) ==
  /\ \A t \in s.tools :
       s.body[t.result] = None \/ (s.body[t.result] = "result" /\ s.call[t.result] = t.call)
  /\ \A e \in Entries :
       s.body[e] = "result" /\ (\A t \in s.tools : t.result # e) => s.body[s.call[e]] = "assistant"

\* unresolved_activation, for the open operation of each lane.
ActivationsMatch(s) == \A l \in IdxLanes :
  LET requested == {a \in s.activations : a.op = s.active[l]}
  IN  /\ \A a \in requested : s.body[a.entry] \in {None, "revision"}
      /\ Cardinality({a \in requested : s.body[a.entry] = None}) <= 1

\* The agent graph: a lane bound to an agent holds that agent's one operation.
GraphMatches(s) == \A o \in OpIds :
  s.op[o].lane \in s.bound =>
    o \in s.child /\ \A q \in s.child : s.op[q].lane = s.op[o].lane => q = o

\* validate_snapshot: what an open demands of the log.
Reopens(s) == s.ok /\ ToolResultsMatch(s) /\ ActivationsMatch(s) /\ GraphMatches(s)

\* validate_snapshot_commit, for one item.
Replays(s, m, parent) == Reopens(Replay(s, m, parent))

-----------------------------------------------------------------------------
(* The index.                                                              *)

\* Operations the graph reducer must see: a child's, and any on its lane.  The
\* first form forgets the lane.
GraphOnlyChild(x, m) == m.how = "child"

GraphOnly(x, m) == m.how = "child" \/ m.lane \in x.agents

\* is_locally_validated_mutation does not return Ok(false).
Covered(x, m) ==
  /\ x.ready
  /\ \/ m.k = "entry" /\ m.body \in UserBodies
     \/ m.k = "op" /\ ~GraphOnly(x, m) /\ m.how # "queued"
     \/ m.k \in Lifecycle

\* ... and does not return an error either.
LocallyValid(x, m) ==
  /\ m.k = "entry" => x.prov[m.id] \in {None, m.body}
  /\ m.k = "op" =>
       /\ x.op[m.id] = NoOp
       /\ x.leaf[m.lane] # None /\ m.source = x.leaf[m.lane]
       /\ x.active[m.lane] = None
       /\ \A i \in m.input : i.id \notin x.entries /\ x.prov[i.id] = None
  /\ m.k \in Lifecycle => IsOpen(x, m.op)
  /\ m.k = "finish" => x.op[m.op].open = {} /\ x.active[x.op[m.op].lane] = m.op
  /\ m.k = "epoch" =>
       x.op[m.op].open = {} /\ m.index = x.op[m.op].epochs /\ x.epoch[m.id] = None
  /\ m.k = "epochEnd" => InOpenEpoch(x, m.op, m.id)
  /\ m.k \in {"step", "request"} => InOpenEpoch(x, m.op, m.epoch)
  /\ m.k = "step" => x.step[m.id] = NoStep /\ m.number = x.attempt[m.epoch, m.kind] + 1
  /\ m.k = "request" =>
       x.step[m.step].op = m.op /\ x.step[m.step].epoch = m.epoch /\ x.request[m.id] = None
  /\ m.k = "settled" => x.request[m.id] = m.op /\ m.id \notin x.settled

\* advance_lifecycle_record for an operation that finishes, and a form that
\* forgets to free the lane.
FinishKept(x, o) == [x EXCEPT !.op[o].finished = TRUE]

FinishIndexed(x, o) == [x EXCEPT !.op[o].finished = TRUE, !.active[x.op[o].lane] = None]

Indexed(x, m) ==
  CASE m.k = "entry" -> [x EXCEPT !.entries = @ \cup {m.id}, !.leaf[m.lane] = m.id]
    [] m.k = "lane" -> [x EXCEPT !.leaf[m.lane] = m.base]
    [] m.k = "op" ->
         [x EXCEPT !.op[m.id] = [NoOp EXCEPT !.lane = m.lane], !.active[m.lane] = m.id,
                   !.prov = Provisioned(@, m.input)]
    [] m.k = "finish" -> FinishIndexed(x, m.op)
    [] m.k = "epoch" -> [x EXCEPT !.epoch[m.id] = m.op, !.op[m.op] = InEpoch(@, m.id)]
    [] m.k = "epochEnd" -> [x EXCEPT !.op[m.op].open = @ \ {m.id}]
    [] m.k = "step" -> [x EXCEPT !.step[m.id] = [op |-> m.op, epoch |-> m.epoch, kind |-> m.kind],
                                 !.attempt[<<m.epoch, m.kind>>] = m.number]
    [] m.k = "request" -> [x EXCEPT !.request[m.id] = m.op]
    [] m.k = "settled" -> [x EXCEPT !.settled = @ \cup {m.id}]
    [] m.k = "spawned" -> [x EXCEPT !.agents = @ \cup {m.lane}]
    [] OTHER -> x

\* advance: an item the index contradicts switches it off for good.
Advance(x, m) ==
  IF ~x.ready THEN x
  ELSE IF Covered(x, m) /\ ~LocallyValid(x, m) THEN [x EXCEPT !.ready = FALSE]
  ELSE Indexed(x, m)

-----------------------------------------------------------------------------
(* A commit.                                                               *)

\* prepare_commit: the parent is the leaf the index knows, or the one an
\* earlier item of the group leaves.
Parent(x, m) == IF m.k = "entry" THEN x.leaf[m.lane] ELSE None
Prepared(x, m) == m.k = "entry" => m.id \notin x.entries /\ x.leaf[m.lane] # None
InGroup(x, m) ==
  CASE m.k = "entry" -> [x EXCEPT !.entries = @ \cup {m.id}, !.leaf[m.lane] = m.id]
    [] m.k = "lane" -> [x EXCEPT !.leaf[m.lane] = m.base]
    [] OTHER -> x

\* validate_prepared_commit for one item.
Fits(m) ==
  /\ Prepared(idx, m)
  /\ IF Covered(idx, m) THEN LocallyValid(idx, m)
     ELSE Replays(log, m, Parent(idx, m))

\* The runtime makes the identifiers of user messages, or takes the ones an
\* operation provisioned.
Minted(m) == m.k = "entry" /\ m.body \in UserBodies /\ ~Reuse =>
  /\ \A t \in log.tools : t.result # m.id
  /\ \A a \in log.activations : a.entry # m.id

CommitOne(m) ==
  /\ committed < MaxIdxCommits /\ committed' = committed + 1
  /\ Minted(m) /\ Fits(m)
  /\ log' = Replay(log, m, Parent(idx, m))
  /\ idx' = Advance(idx, m)

\* One more item of an ordered group, which is always replayed: `x` is what the
\* preparation has seen, `s` the prefix with the group, `next` the index after it.
NewGroup(s, x) == [ok |-> TRUE, x |-> x, s |-> s, next |-> x]
Grown(g, m) ==
  [ok |-> g.ok /\ Prepared(g.x, m), x |-> InGroup(g.x, m),
   s |-> Replay(g.s, m, Parent(g.x, m)), next |-> Advance(g.next, m)]

CommitGroup(g) ==
  /\ committed < MaxIdxCommits /\ committed' = committed + 1
  /\ g.ok /\ Reopens(g.s)
  /\ log' = g.s /\ idx' = g.next

InputEntry(a, i) == [k |-> "entry", id |-> i.id, lane |-> a.lane, body |-> i.body, call |-> None]

\* accept_prompt: an operation with its input.
CommitAccepted(a) == \E i \in a.input :
  CommitGroup(Grown(Grown(NewGroup(log, idx), a), InputEntry(a, i)))

\* prepared_subagent_spawn_commit: a child's lane, its spawn by operation o, its
\* operation c and its assignment i.  The configuration entries of the lane, the
\* last of which is the operation's source, are left out.
ChildOp(base, c, i) ==
  [k |-> "op", id |-> c, lane |-> "side", source |-> base, input |-> {i}, how |-> "child"]

CommitSpawn(base, o, c, i) ==
  LET a == ChildOp(base, c, i)
      lane == Grown(NewGroup(log, idx), [k |-> "lane", lane |-> a.lane, base |-> base])
      spawned == Grown(lane, [k |-> "spawned", op |-> o, lane |-> a.lane])
  IN  CommitGroup(Grown(Grown(spawned, a), InputEntry(a, i)))

\* A commit that does not fit changes nothing.
Refuse == ~(\A m \in Items : Fits(m)) /\ UNCHANGED idxVars

\* A new session, or one reopened in the middle of an operation that called a
\* tool: the state after those four commits.
Middle(o, p, a, r) ==
  LET begun == Grown(NewGroup(EmptyLog, EmptyIndex),
                 [k |-> "op", id |-> o, lane |-> "main", source |-> "empty", input |-> {}, how |-> "direct"])
      inEpoch == Grown(begun, [k |-> "epoch", id |-> p, op |-> o, index |-> 0])
      called == Grown(inEpoch, [k |-> "entry", id |-> a, lane |-> "main", body |-> "assistant", call |-> None])
  IN  Grown(called, [k |-> "tool", op |-> o, epoch |-> p, call |-> a, result |-> r])

IdxInit ==
  /\ committed = 0
  /\ \/ log = EmptyLog /\ idx = EmptyIndex
     \/ \E o \in OpIds, p \in Epochs, a \in Entries, r \in Entries :
          a # r /\ log = Middle(o, p, a, r).s /\ idx = Middle(o, p, a, r).next

IdxNext ==
  \/ \E m \in Items : CommitOne(m)
  \/ Refuse
  \/ \E m \in OpItems : CommitAccepted(m)
  \/ \E base \in Leaves, o \in OpIds, c \in OpIds, i \in Inputs : CommitSpawn(base, o, c, i)

IdxSpec == IdxInit /\ [][IdxNext]_idxVars

-----------------------------------------------------------------------------
\* Whatever was committed, by the index or by a replay, is a log that opens
\* again: validate_snapshot accepts it (store.rs:901, an append of one item may
\* use the index "when that index covers the entire item lifecycle").
AcceptedReopens == Reopens(log)

\* The index refuses nothing the reduction would accept, and no committed item
\* ever switches it off, so that a parent it hands out is the lane's real leaf.
RefusalJustified ==
  /\ idx.ready
  /\ \A m \in Items :
       ~Prepared(idx, m) \/ (Covered(idx, m) /\ ~LocallyValid(idx, m)) =>
         ~Replays(log, m, Parent(idx, m))
=============================================================================
