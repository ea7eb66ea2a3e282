------------------------------- MODULE MCWaits -------------------------------
(* What a root operation waits for before it can end: its tool batch, and     *)
(* the settlement of its children.  The two share no state, so one instance   *)
(* explores one or the other; `part` says which, and the other one rests in   *)
(* its initial state.                                                         *)
EXTENDS Subagents, ToolBatch

VARIABLE part
waitsVars == <<part, vars, batchVars>>

\* A batch that is over and an agent graph without children are at rest: no
\* fair action of theirs is enabled.
WaitsInit ==
    \/ part = "children" /\ Init /\ BatchAt("over") /\ batch = [parallel |-> TRUE, await |-> {}]
    \/ part = "batch" /\ Init /\ BatchInit

WaitsNext ==
    \/ part = "children" /\ Next /\ UNCHANGED <<part, batchVars>>
    \/ part = "batch" /\ BatchNext /\ UNCHANGED <<part, vars>>

WaitsSpec == WaitsInit /\ [][WaitsNext]_waitsVars /\ Fairness /\ BatchFairness
==============================================================================
