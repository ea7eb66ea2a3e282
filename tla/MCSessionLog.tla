---------------------------- MODULE MCSessionLog ----------------------------
(* TLC instance of SessionLog: two processes on one directory.             *)
EXTENDS SessionLog, TLC

WriterSymmetry == Permutations(Writers)
=============================================================================
