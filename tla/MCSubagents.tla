----------------------------- MODULE MCSubagents -----------------------------
(* Subagents on small instances: every constant is set in the cfg.  The    *)
(* children are interchangeable, for runs without a temporal property.     *)
EXTENDS Subagents, TLC

Symmetry == Permutations(Agents)
=============================================================================
