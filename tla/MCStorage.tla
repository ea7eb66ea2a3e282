------------------------------ MODULE MCStorage ------------------------------
(* What a session writer does with a commit: whether it fits the log          *)
(* (AppendIndex), and how it reaches the file (SessionLog).  The two share no *)
(* state, so an instance explores one of them; `part` says which.             *)
EXTENDS MCSessionLog, AppendIndex

VARIABLE part

StorageInit == part \in {"file", "index"} /\ Init /\ IdxInit

StorageNext ==
    /\ UNCHANGED part
    /\ \/ part = "file" /\ Next /\ UNCHANGED idxVars
       \/ part = "index" /\ IdxNext /\ UNCHANGED vars

StorageSpec == StorageInit /\ [][StorageNext]_<<part, vars, idxVars>>

\* Identifiers and processes are interchangeable.
StorageSymmetry == WriterSymmetry \cup Permutations(Entries) \cup Permutations(OpIds)
                     \cup Permutations(Epochs) \cup Permutations(Steps)
==============================================================================
