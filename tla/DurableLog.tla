------------------------------ MODULE DurableLog ------------------------------
(***************************************************************************)
(* What the durable-session boundary promises its callers                  *)
(* (`SessionWriter::commit`, tea-session/src/store.rs): the session is one *)
(* sequence of commits that grows by whole commits.  A commit may join the *)
(* sequence before anybody is told; once it is acknowledged it stays, and  *)
(* only an unacknowledged suffix can ever disappear.                       *)
(***************************************************************************)
EXTENDS Naturals, Sequences

CONSTANT Commit    \* the commits a caller may propose

VARIABLES
  log,    \* the commits a reader of the session finds
  acked   \* the longest prefix acknowledged to a caller

vars == <<log, acked>>

Init == log = <<>> /\ acked = <<>>

(* A commit joins as a whole; its caller knows nothing yet.                *)
Join ==
  /\ Len(log') = Len(log) + 1
  /\ log'[Len(log')] \in Commit
  /\ log' = Append(log, log'[Len(log')])
  /\ UNCHANGED acked

(* A caller learns that the log is durable up to its end.                  *)
Acknowledge == acked' = log /\ UNCHANGED log

(* A crash takes back commits, but none that was acknowledged.             *)
Lose ==
  /\ \E n \in Len(acked)..Len(log) : log' = SubSeq(log, 1, n)
  /\ UNCHANGED acked

Next == Join \/ Acknowledge \/ Lose

Spec == Init /\ [][Next]_vars
=============================================================================
