------------------------------- MODULE MCLocal -------------------------------
(* The process-local machinery around an operation: the event hub, automatic  *)
(* compaction inside a run, the run's cache warmer, a shell command, the      *)
(* requests of one HTTP route and the terminal of a session.  They share no   *)
(* state, so one instance explores one of them; `part` says which, and the    *)
(* others stay as they start.                                                 *)
EXTENDS EventHub, Compaction, CacheWarmer, CommandRunner, RouteLimiter, RelayLink

VARIABLE part
localVars == <<part, hubVars, cmpVars, warmVars, cmdVars, routeVars, relayVars>>

LocalInit ==
    /\ part \in {"hub", "compaction", "warmer", "command", "route", "relay"}
    /\ HubInit /\ CmpInit /\ WarmInit /\ CmdInit /\ RouteInit /\ RelayInit

LocalNext ==
    /\ UNCHANGED part
    /\ \/ part = "hub" /\ HubNext /\ UNCHANGED <<cmpVars, warmVars, cmdVars, routeVars, relayVars>>
       \/ part = "compaction" /\ CmpNext /\ UNCHANGED <<hubVars, warmVars, cmdVars, routeVars, relayVars>>
       \/ part = "warmer" /\ WarmNext /\ UNCHANGED <<hubVars, cmpVars, cmdVars, routeVars, relayVars>>
       \/ part = "command" /\ CmdNext /\ UNCHANGED <<hubVars, cmpVars, warmVars, routeVars, relayVars>>
       \/ part = "route" /\ RouteNext /\ UNCHANGED <<hubVars, cmpVars, warmVars, cmdVars, relayVars>>
       \/ part = "relay" /\ RelayNext /\ UNCHANGED <<hubVars, cmpVars, warmVars, cmdVars, routeVars>>

LocalSpec == LocalInit /\ [][LocalNext]_localVars

\* The shape of the state of the part explored.
LocalTypeOK ==
    /\ part = "hub" => HubTypeOK
    /\ part = "compaction" => CmpTypeOK
    /\ part = "warmer" => WarmTypeOK
    /\ part = "command" => CmdTypeOK
    /\ part = "route" => RouteTypeOK
    /\ part = "relay" => RelayTypeOK
==============================================================================
