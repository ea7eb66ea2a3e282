----------------------------- MODULE MCRootLane -----------------------------
(* RootLane on small instances; every constant is a bound set in the cfg.  *)
EXTENDS RootLane
=============================================================================
