------------------------------- MODULE MCShared -------------------------------
(* What callers on several threads share: an agent among its runs, a rotating *)
(* credential among threads and processes, the harness repository and the     *)
(* artifact store among lanes.  One instance explores one of them; `part`     *)
(* says which, and the others stay as they start.                             *)
EXTENDS AgentRun, CredentialRefresh, HarnessLineage, ArtifactStore, TLC

VARIABLE part
sharedVars == <<part, agentVars, credVars, harnessVars, vars>>

\* Two threads of one process share its refresh; a second process has one.
MCClients == {<<"p1", "t1">>, <<"p1", "t2">>, <<"p2", "t1">>}

\* The agent tells its callers apart by nothing.
CallerSymmetry == Permutations(Callers)

SharedInit ==
    /\ part \in {"agent", "credentials", "harness", "artifacts"}
    /\ AgentInit /\ CredInit /\ HarnessInit /\ Init
    \* at rest the store has one initial state, whatever it would publish
    /\ part # "artifacts" => item = [p \in Publishers |-> CHOOSE i \in Ids : TRUE]

SharedNext ==
    /\ UNCHANGED part
    /\ \/ part = "agent" /\ AgentNext /\ UNCHANGED <<credVars, harnessVars, vars>>
       \/ part = "credentials" /\ CredNext /\ UNCHANGED <<agentVars, harnessVars, vars>>
       \/ part = "harness" /\ HarnessNext /\ UNCHANGED <<agentVars, credVars, vars>>
       \/ part = "artifacts" /\ Next /\ UNCHANGED <<agentVars, credVars, harnessVars>>

SharedSpec == SharedInit /\ [][SharedNext]_sharedVars

\* The shape of the state of all parts.
SharedTypeOK == AgentTypeOK /\ CredTypeOK /\ HarnessTypeOK /\ TypeOK
===============================================================================
