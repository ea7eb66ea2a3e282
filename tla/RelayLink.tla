------------------------------- MODULE RelayLink -------------------------------
(***************************************************************************)
(* The terminal of a headful session: a relay per terminal (detach.rs,     *)
(* cli/headful.rs), the link of the runtime it is connected to, one thread *)
(* of the runtime per connection, and the application that polls the link  *)
(* (terminal.rs, app/runtime.rs).  A user who switches sessions makes the  *)
(* runtime close with a handoff; the relay starts the next runtime and     *)
(* replays what the last one did not act on.                               *)
(*                                                                         *)
(* The unit of input is one complete key sequence, counted from 1 for each *)
(* terminal.  Output, sizes, the session named in the handshake, external  *)
(* programs and the failure to start a runtime are left out.               *)
(***************************************************************************)
EXTENDS Naturals, Sequences

CONSTANTS
  Terms,          \* terminals
  Nobody,         \* no terminal
  InputWindow,    \* SENT_INPUT_WINDOW
  MaxTyped,       \* units a user types
  MaxRuntimes     \* runtimes one after the other

ASSUME RelayAssumption == Nobody \notin Terms /\ InputWindow \in Nat \ {0} /\ MaxTyped \in Nat /\ MaxRuntimes \in Nat \ {0}

VARIABLES
  link,       \* LinkState: term (stream), input, received, gen, closed
  serving,    \* the thread of the runtime for each terminal
  wire,       \* frames sent and not read, per terminal
  cut,        \* the connection was shut down
  relay,      \* the relay process of each terminal
  tui,        \* the application
  acted,      \* units each terminal's user saw acted on, in order
  runtimes    \* how many runtimes there were
relayVars == <<link, serving, wire, cut, relay, tui, acted, runtimes>>

Unit == Terms \X (1..MaxTyped)
NewLink == [term |-> Nobody, input |-> <<>>, received |-> 0, gen |-> 0, closed |-> FALSE]
NewTui == [pc |-> "starting", gen |-> 0, decoder |-> <<>>, unconsumed |-> 0, quitting |-> FALSE, handoff |-> FALSE]
NoThread == [pc |-> "off", gen |-> 0, frame |-> <<>>]
NoClose == [consumed |-> 0, handoff |-> FALSE]

RelayTypeOK ==
  /\ link \in [term : Terms \cup {Nobody}, input : Seq(Unit), received : Nat, gen : Nat, closed : BOOLEAN]
  /\ serving \in [Terms -> [pc : {"off", "welcomed", "reading", "holding"}, gen : Nat, frame : Seq(Unit)]]
  /\ wire \in [Terms -> Seq(Seq(Unit))] /\ cut \in [Terms -> BOOLEAN]
  /\ relay \in [Terms -> [pc : {"idle", "connected", "up", "failed", "gone"}, typed : 0..MaxTyped,
                          sent : Seq(Unit), base : Nat, replay : Seq(Unit),
                          close : [consumed : Nat, handoff : BOOLEAN], overrun : BOOLEAN]]
  /\ tui \in [pc : {"starting", "loop", "waiting", "settling", "closed"}, gen : Nat, decoder : Seq(Unit),
              unconsumed : Nat, quitting : BOOLEAN, handoff : BOOLEAN]
  /\ acted \in [Terms -> Seq(1..MaxTyped)] /\ runtimes \in 1..MaxRuntimes

-----------------------------------------------------------------------------
(* The relay.                                                              *)

\* record: what was sent, within the window.
Record(q, units) ==
  LET all == q.sent \o units
      over == IF Len(all) > InputWindow THEN Len(all) - InputWindow ELSE 0
  IN  [q EXCEPT !.sent = SubSeq(all, over + 1, Len(all)), !.base = @ + over]

\* connect, and the locked part of serve.
Attach(t) ==
  /\ relay[t].pc = "idle" /\ link.term = Nobody /\ ~link.closed
  /\ link' = [link EXCEPT !.term = t, !.gen = @ + 1, !.input = <<>>, !.received = 0]
  /\ serving' = [serving EXCEPT ![t] = [NoThread EXCEPT !.pc = "welcomed"]]
  /\ relay' = [relay EXCEPT ![t].pc = "connected", ![t].sent = <<>>, ![t].base = 0, ![t].close = NoClose]
  /\ wire' = [wire EXCEPT ![t] = <<>>] /\ cut' = [cut EXCEPT ![t] = FALSE]
  /\ UNCHANGED <<tui, acted, runtimes>>

Refused(t) ==
  /\ relay[t].pc = "idle" /\ (link.term # Nobody \/ link.closed)
  /\ relay' = [relay EXCEPT ![t].pc = "gone"]
  /\ UNCHANGED <<link, serving, wire, cut, tui, acted, runtimes>>

\* relay_raw first sends what the last runtime left.
SendReplay(t) ==
  /\ relay[t].pc = "connected"
  /\ LET units == relay[t].replay
     IN  \/ units = <<>> /\ relay' = [relay EXCEPT ![t].pc = "up"] /\ UNCHANGED wire
         \/ /\ units # <<>> /\ ~cut[t]
            /\ wire' = [wire EXCEPT ![t] = Append(@, units)]
            /\ relay' = [relay EXCEPT ![t] = Record([@ EXCEPT !.pc = "up", !.replay = <<>>], units)]
         \/ units # <<>> /\ cut[t] /\ relay' = [relay EXCEPT ![t].pc = "gone"] /\ UNCHANGED wire
  /\ UNCHANGED <<link, serving, cut, tui, acted, runtimes>>

\* A unit is recorded and sent; on a connection that was shut down the write fails.
Type(t) ==
  LET unit == <<t, relay[t].typed + 1>>
  IN  /\ relay[t].pc = "up" /\ relay[t].typed < MaxTyped
      /\ LET q == [relay[t] EXCEPT !.typed = @ + 1, !.pc = IF cut[t] THEN "failed" ELSE "up"]
         IN  relay' = [relay EXCEPT ![t] = Record(q, <<unit>>)]
      /\ wire' = IF cut[t] THEN wire ELSE [wire EXCEPT ![t] = Append(@, <<unit>>)]
      /\ UNCHANGED <<link, serving, cut, tui, acted, runtimes>>

\* The terminal goes away, and its relay with it.
RelayGone(t) ==
  /\ relay[t].pc \in {"connected", "up"}
  /\ relay' = [relay EXCEPT ![t].pc = "gone"] /\ cut' = [cut EXCEPT ![t] = TRUE]
  /\ UNCHANGED <<link, serving, wire, tui, acted, runtimes>>

\* The relay saw the end of the connection: without a handoff it exits; with one
\* it resolves the replay, and the next runtime starts.
Finish(t) ==
  LET q == relay[t]
      known == q.close.consumed >= q.base
  IN  /\ q.pc \in {"up", "failed"} /\ cut[t]
      /\ \/ /\ ~q.close.handoff \/ runtimes = MaxRuntimes
            /\ relay' = [relay EXCEPT ![t].pc = "gone"]
            /\ UNCHANGED <<link, serving, wire, cut, tui, runtimes>>
         \/ /\ q.close.handoff /\ runtimes < MaxRuntimes
            /\ relay' = [relay EXCEPT ![t].pc = "idle", ![t].overrun = @ \/ ~known,
                           ![t].replay = IF known THEN SubSeq(q.sent, q.close.consumed - q.base + 1, Len(q.sent))
                                         ELSE <<>>]
            /\ link' = NewLink /\ tui' = NewTui /\ runtimes' = runtimes + 1
            /\ serving' = [u \in Terms |-> NoThread]
            /\ wire' = [u \in Terms |-> <<>>]
            /\ cut' = [u \in Terms |-> u = t \/ cut[u] \/ relay[u].pc # "idle"]
      /\ UNCHANGED acted

-----------------------------------------------------------------------------
(* The runtime: serve.                                                     *)

\* The generation is read again after the lock was released.
ReadGeneration(t) ==
  /\ serving[t].pc = "welcomed"
  /\ serving' = [serving EXCEPT ![t].pc = "reading", ![t].gen = link.gen]
  /\ UNCHANGED <<link, wire, cut, relay, tui, acted, runtimes>>

ReadFrame(t) ==
  /\ serving[t].pc = "reading" /\ wire[t] # <<>>
  /\ serving' = [serving EXCEPT ![t].pc = "holding", ![t].frame = Head(wire[t])]
  /\ wire' = [wire EXCEPT ![t] = Tail(@)]
  /\ UNCHANGED <<link, cut, relay, tui, acted, runtimes>>

Deliver(t) ==
  /\ serving[t].pc = "holding"
  /\ link' = [link EXCEPT !.received = @ + Len(serving[t].frame), !.input = @ \o serving[t].frame]
  /\ serving' = [serving EXCEPT ![t].pc = "reading", ![t].frame = <<>>]
  /\ UNCHANGED <<wire, cut, relay, tui, acted, runtimes>>

\* A shutdown may discard what was not read.
EndServe(t) ==
  /\ serving[t].pc = "reading" /\ cut[t]
  /\ link' = IF link.gen = serving[t].gen THEN [link EXCEPT !.term = Nobody, !.input = <<>>] ELSE link
  /\ serving' = [serving EXCEPT ![t] = NoThread]
  /\ UNCHANGED <<wire, cut, relay, tui, acted, runtimes>>

\* write_output on a terminal that does not keep up.
WriteOutputFails ==
  /\ link.term # Nobody /\ tui.pc \in {"loop", "settling"}
  /\ link' = [link EXCEPT !.term = Nobody] /\ cut' = [cut EXCEPT ![link.term] = TRUE]
  /\ UNCHANGED <<serving, wire, relay, tui, acted, runtimes>>

-----------------------------------------------------------------------------
(* The runtime: the application.                                           *)
TuiSet(f) == tui' = f /\ UNCHANGED <<serving, wire, relay, runtimes>>

EnterRemote ==
  /\ tui.pc = "starting"
  /\ TuiSet([tui EXCEPT !.pc = "loop", !.gen = link.gen]) /\ UNCHANGED <<link, cut, acted>>

\* poll_event with an event in the decoder, and its handler.
Act(handler) ==
  LET unit == Head(tui.decoder)
  IN  /\ tui.pc = "loop" /\ tui.decoder # <<>>
      /\ acted' = [acted EXCEPT ![unit[1]] = Append(@, unit[2])]
      /\ TuiSet([tui EXCEPT !.decoder = Tail(@), !.quitting = @ \/ handler # "key", !.handoff = @ \/ handler = "switch"])
      /\ UNCHANGED <<link, cut>>

\* poll_event with an empty decoder: another terminal, or a wait for input.
PollGeneration ==
  /\ tui.pc = "loop" /\ tui.decoder = <<>>
  /\ TuiSet(IF link.gen # tui.gen THEN [tui EXCEPT !.gen = link.gen] ELSE [tui EXCEPT !.pc = "waiting"])
  /\ UNCHANGED <<link, cut, acted>>

WaitInput ==
  /\ tui.pc = "waiting"
  /\ TuiSet([tui EXCEPT !.pc = "loop", !.decoder = link.input])
  /\ link' = [link EXCEPT !.input = <<>>] /\ UNCHANGED <<cut, acted>>

\* The loop ends: quitting and the root task over, or detached and idle.  The
\* host may also fail to start.
LeaveLoop ==
  /\ \/ tui.pc = "loop" /\ (tui.quitting \/ link.term = Nobody)
     \/ tui.pc = "starting"
  /\ TuiSet([tui EXCEPT !.pc = "settling", !.unconsumed = IF tui.handoff THEN Len(tui.decoder) ELSE 0])
  /\ UNCHANGED <<link, cut, acted>>

\* What close_with_handoff reports, and a form that forgets the input nobody took.
ConsumedTaken == IF link.received > tui.unconsumed THEN link.received - tui.unconsumed ELSE 0
Consumed ==
  LET left == tui.unconsumed + Len(link.input)
  IN  IF link.received > left THEN link.received - left ELSE 0

CloseWithHandoff ==
  /\ tui.pc = "settling"
  /\ tui' = [tui EXCEPT !.pc = "closed"]
  /\ link' = [link EXCEPT !.closed = TRUE, !.term = Nobody]
  /\ IF link.term = Nobody THEN UNCHANGED <<relay, cut>>
     ELSE /\ relay' = [relay EXCEPT ![link.term].close = [consumed |-> Consumed, handoff |-> tui.handoff]]
          /\ cut' = [cut EXCEPT ![link.term] = TRUE]
  /\ UNCHANGED <<serving, wire, acted, runtimes>>

\* The process ends, by itself or after the close.
RuntimeEnds ==
  /\ \E t \in Terms : serving[t].pc # "off"
  /\ tui' = [tui EXCEPT !.pc = "closed"] /\ link' = [link EXCEPT !.closed = TRUE, !.term = Nobody]
  /\ cut' = [t \in Terms |-> cut[t] \/ serving[t].pc # "off"]
  /\ serving' = [t \in Terms |-> NoThread]
  /\ UNCHANGED <<wire, relay, acted, runtimes>>

RelayInit ==
  /\ link = NewLink /\ tui = NewTui /\ runtimes = 1
  /\ serving = [t \in Terms |-> NoThread]
  /\ wire = [t \in Terms |-> <<>>] /\ cut = [t \in Terms |-> FALSE]
  /\ relay = [t \in Terms |-> [pc |-> "idle", typed |-> 0, sent |-> <<>>, base |-> 0, replay |-> <<>>,
                               close |-> NoClose, overrun |-> FALSE]]
  /\ acted = [t \in Terms |-> <<>>]

RelayNext ==
  \/ \E t \in Terms :
       \/ Attach(t) \/ Refused(t) \/ SendReplay(t) \/ Type(t) \/ RelayGone(t) \/ Finish(t)
       \/ ReadGeneration(t) \/ ReadFrame(t) \/ Deliver(t) \/ EndServe(t)
  \/ \E handler \in {"key", "switch", "quit"} : Act(handler)
  \/ WriteOutputFails \/ EnterRemote \/ PollGeneration \/ WaitInput \/ LeaveLoop \/ CloseWithHandoff \/ RuntimeEnds

RelaySpec == RelayInit /\ [][RelayNext]_relayVars

-----------------------------------------------------------------------------
\* Whatever a user types during a session switch is acted on exactly once, in
\* order, by one runtime or the next (docs/crash-isolation.md:52-55): no unit
\* twice or out of order, and none skipped, unless a second terminal attached
\* or more than the window was on its way.
NeverAttached(t) == relay[t].pc \in {"idle", "gone"} /\ ~cut[t]
InputOnce == \A t \in Terms :
  /\ \A i, j \in DOMAIN acted[t] : i < j => acted[t][i] < acted[t][j]
  /\ ~relay[t].overrun /\ (\A u \in Terms \ {t} : NeverAttached(u)) => \A i \in DOMAIN acted[t] : acted[t][i] = i

\* A runtime has one terminal at a time (docs/crash-isolation.md:37): what waits
\* in the link was typed at the terminal attached, and a terminal stays attached
\* until its own connection ends.
TerminalsSeparate ==
  /\ link.term # Nobody => \A i \in DOMAIN link.input : link.input[i][1] = link.term
  /\ \A t \in Terms : serving[t].pc # "off" /\ ~cut[t] => link.term = t
================================================================================
