----------------------------- MODULE CacheWarmer -----------------------------
(* The prompt-cache warmer of one run (tea-core/src/cache_warming.rs) beside  *)
(* the run that starts, supersedes and settles it (run/mod.rs).  Both are     *)
(* futures of one task: a poll of the task polls the run and then the         *)
(* warmer's driver, and the task is polled again only when something woke it. *)
(* Times, prices and the request's currency are the verdict on a due refresh. *)
(* The wakes of the driver's own waker are left out: it is always polled      *)
(* after the run that would call it.                                          *)
EXTENDS Naturals

CONSTANTS
    WarmRequests,   \* bound: real requests the run sends
    WarmRefreshes   \* bound: maintenance requests sent

ASSUME CacheWarmerAssumption == WarmRequests \in Nat /\ WarmRefreshes \in Nat

VARIABLES
    warmer,     \* WarmerState: [gen, plan, closed, flight, records]
    idle,       \* a waker of settle() is registered
    driver,     \* the drive future: [at, gen], gen the generation it sleeps for
    run,        \* the run future: "work", "settling", "ended"
    polling,    \* the future being polled, or "none"
    awake,      \* the task's waker was called
    timer,      \* the sleep of the driver has resolved
    reply,      \* the provider ended the maintenance stream, reporting usage or not
    counts      \* history: [requests, sent, reported, attributed]
warmVars == <<warmer, idle, driver, run, polling, awake, timer, reply, counts>>

NoFlight == [on |-> FALSE, gen |-> 0, cancelled |-> FALSE]

WarmInit ==
    /\ warmer = [gen |-> 0, plan |-> FALSE, closed |-> FALSE, flight |-> NoFlight, records |-> 0]
    /\ driver = [at |-> "look", gen |-> 0] /\ run = "work" /\ polling = "none"
    /\ idle = FALSE /\ awake = TRUE /\ timer = FALSE /\ reply = "none"
    /\ counts = [requests |-> 0, sent |-> 0, reported |-> 0, attributed |-> 0]

\* Mutant: a superseded refresh is left to finish.
ClearUncancelled(w) == [w EXCEPT !.gen = @ + 1, !.plan = FALSE]
\* clear: the next generation has no plan, and a refresh in flight is cancelled.
Clear(w) == [w EXCEPT !.gen = @ + 1, !.plan = FALSE, !.flight.cancelled = w.flight.on]

\* schedule_locked; past the one-hour horizon it stops instead.
Scheduled(w) == {[w EXCEPT !.plan = TRUE], Clear(w)}

(* The run ------------------------------------------------------------------- *)
PollTask ==
    /\ polling = "none" /\ awake /\ run # "ended"
    /\ awake' = FALSE /\ polling' = "run"
    /\ UNCHANGED <<warmer, idle, driver, run, timer, reply, counts>>

RunPolled(next) == polling = "run" /\ polling' = next /\ UNCHANGED <<driver, timer, reply>>

\* The run waits for its model, its tools or its compaction.
RunPends ==
    /\ RunPolled("driver") /\ run = "work"
    /\ UNCHANGED <<warmer, idle, run, awake, counts>>

\* flush_cache_maintenance: the finished refreshes are attributed.
Attributed == /\ counts' = [counts EXCEPT !.attributed = @ + warmer.records]
              /\ warmer' = [warmer EXCEPT !.records = 0]

\* Every request boundary flushes ...
FlushRecords ==
    /\ RunPolled("run") /\ run = "work" /\ warmer.records > 0 /\ Attributed
    /\ UNCHANGED <<idle, run, awake>>

\* ... and, before the request, start_cache_warming replaces the plan, or
\* clears it for a request that cannot be warmed.
StartRequest ==
    /\ RunPolled("run") /\ run = "work" /\ counts.requests < WarmRequests
    /\ counts' = [counts EXCEPT !.requests = @ + 1]
    /\ warmer' \in {Clear(warmer)} \cup Scheduled(Clear(warmer))
    /\ UNCHANGED <<idle, run, awake>>

\* emit_agent_end, on every way out of the run: settle closes the warmer ...
Settle ==
    /\ RunPolled("run") /\ run = "work" /\ run' = "settling"
    /\ warmer' = [Clear(warmer) EXCEPT !.closed = TRUE]
    /\ UNCHANGED <<idle, awake, counts>>

\* ... and waits for the refresh in flight to be recorded ...
SettlePends ==
    /\ RunPolled("driver") /\ run = "settling" /\ warmer.flight.on
    /\ idle' = TRUE
    /\ UNCHANGED <<warmer, run, awake, counts>>

\* ... and what was recorded is attributed before AgentEnd.
SettleReady ==
    /\ RunPolled("none") /\ run = "settling" /\ ~warmer.flight.on
    /\ run' = "ended" /\ Attributed
    /\ UNCHANGED <<idle, awake>>

(* The driver ----------------------------------------------------------------- *)
DriverPolled(next) == polling = "driver" /\ polling' = next /\ UNCHANGED <<run, idle>>

\* Nothing to warm: the driver registers its waker.  A closed warmer ends it.
LookPends ==
    /\ DriverPolled("none")
    /\ driver.at = "done" \/ (driver.at = "look" /\ ~warmer.closed /\ ~warmer.plan)
    /\ UNCHANGED <<warmer, driver, awake, timer, reply, counts>>

LookEnds ==
    /\ DriverPolled("none") /\ driver.at = "look" /\ warmer.closed
    /\ driver' = [driver EXCEPT !.at = "done"]
    /\ UNCHANGED <<warmer, awake, timer, reply, counts>>

LookPlans ==
    /\ DriverPolled("driver") /\ driver.at = "look" /\ ~warmer.closed /\ warmer.plan
    /\ driver' = [at |-> "sleep", gen |-> warmer.gen] /\ timer' = FALSE
    /\ UNCHANGED <<warmer, awake, reply, counts>>

Superseded == warmer.gen # driver.gen \/ warmer.closed

SleepPends ==
    /\ DriverPolled("none") /\ driver.at = "sleep" /\ ~timer /\ ~Superseded
    /\ UNCHANGED <<warmer, driver, awake, timer, reply, counts>>

\* generation_changed wins, or refresh finds it changed.
SleepSuperseded ==
    /\ DriverPolled("driver") /\ driver.at = "sleep" /\ Superseded
    /\ driver' = [driver EXCEPT !.at = "look"] /\ timer' = FALSE
    /\ UNCHANGED <<warmer, awake, reply, counts>>

\* refresh: not current any more, too late, or not worth it: warming stops;
\* too early: the same plan is waited for again.
RefreshDeclined ==
    /\ DriverPolled("driver") /\ driver.at = "sleep" /\ timer /\ ~Superseded
    /\ warmer' \in {warmer, Clear(warmer)}
    /\ driver' = [driver EXCEPT !.at = "look"] /\ timer' = FALSE
    /\ UNCHANGED <<awake, reply, counts>>

RefreshSent ==
    /\ DriverPolled("driver") /\ driver.at = "sleep" /\ timer /\ ~Superseded
    /\ counts.sent < WarmRefreshes /\ counts' = [counts EXCEPT !.sent = @ + 1]
    /\ warmer' = [warmer EXCEPT !.flight = [on |-> TRUE, gen |-> warmer.gen, cancelled |-> FALSE]]
    /\ driver' = [driver EXCEPT !.at = "sent"] /\ timer' = FALSE /\ reply' = "none"
    /\ UNCHANGED awake

SentPends ==
    /\ DriverPolled("none") /\ driver.at = "sent" /\ reply = "none"
    /\ UNCHANGED <<warmer, driver, awake, timer, reply, counts>>

\* send_maintenance returned: settle's wakers are called, a completed refresh or reported usage is
\* recorded, and an unsuperseded plan is scheduled again.
RefreshEnds ==
    /\ polling = "driver" /\ driver.at = "sent" /\ reply # "none"
    /\ LET n == IF reply = "usage" THEN 1 ELSE 0
           w == [warmer EXCEPT !.flight = NoFlight, !.records = @ + n]
       IN /\ warmer' \in (IF Superseded THEN {w} ELSE Scheduled(w))
          /\ counts' = [counts EXCEPT !.reported = @ + n]
    /\ awake' = (awake \/ idle) /\ idle' = FALSE
    /\ driver' = [driver EXCEPT !.at = "look"] /\ reply' = "none"
    /\ UNCHANGED <<run, polling, timer>>

(* What wakes the task from outside -------------------------------------------- *)
\* External: something the run waits for is ready; the timer fires; the
\* provider ends the stream, with usage observed or not, cancelled or not.
RunReady ==
    /\ polling = "none" /\ run = "work" /\ awake' = TRUE
    /\ UNCHANGED <<warmer, idle, driver, run, polling, timer, reply, counts>>

TimerFires ==
    /\ polling = "none" /\ run # "ended" /\ driver.at = "sleep" /\ ~timer
    /\ timer' = TRUE /\ awake' = TRUE
    /\ UNCHANGED <<warmer, idle, driver, run, polling, reply, counts>>

ProviderEnds(usage) ==
    /\ polling = "none" /\ run # "ended" /\ driver.at = "sent" /\ reply = "none"
    /\ reply' = (IF usage THEN "usage" ELSE "silent") /\ awake' = TRUE
    /\ UNCHANGED <<warmer, idle, driver, run, polling, timer, counts>>

WarmNext ==
    \/ PollTask \/ RunPends \/ FlushRecords \/ StartRequest \/ Settle \/ SettlePends \/ SettleReady
    \/ LookPends \/ LookEnds \/ LookPlans \/ SleepPends \/ SleepSuperseded
    \/ RefreshDeclined \/ RefreshSent \/ SentPends \/ RefreshEnds
    \/ RunReady \/ TimerFires \/ (\E usage \in BOOLEAN : ProviderEnds(usage))

WarmSpec == WarmInit /\ [][WarmNext]_warmVars

\* The shape of the state.
FlightType == [on : BOOLEAN, gen : Nat, cancelled : BOOLEAN]
WarmerType == [gen : Nat, plan : BOOLEAN, closed : BOOLEAN, flight : FlightType, records : Nat]
CountType == [requests : Nat, sent : Nat, reported : Nat, attributed : Nat]
WarmTypeOK ==
    /\ warmer \in WarmerType /\ counts \in CountType
    /\ driver \in [at : {"look", "sleep", "sent", "done"}, gen : Nat]
    /\ run \in {"work", "settling", "ended"} /\ polling \in {"none", "run", "driver"}
    /\ reply \in {"none", "usage", "silent"}
    /\ idle \in BOOLEAN /\ awake \in BOOLEAN /\ timer \in BOOLEAN

\* MaintenanceSubordinate: a refresh never outlives its reason.  One whose
\* request was superseded, or whose run settles, is cancelled; a settling run
\* whose refresh is over is polled again; and when the run ends none is in
\* flight and every reported usage has been attributed.
MaintenanceSubordinate ==
    /\ warmer.flight.on => (warmer.flight.gen = warmer.gen /\ ~warmer.closed)
                            \/ warmer.flight.cancelled
    /\ polling = "none" /\ run = "settling" => awake \/ warmer.flight.on
    /\ run = "ended" => ~warmer.flight.on /\ counts.attributed = counts.reported
=============================================================================
