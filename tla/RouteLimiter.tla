----------------------------- MODULE RouteLimiter -----------------------------
(***************************************************************************)
(* tea-http: requests to one route, its limit on requests in flight, its   *)
(* minimum interval and its cooldown, deadlines, retries and cancellation  *)
(* (client.rs).  A request is a future; it moves when its task was woken.  *)
(* Authorization, encoding and the exchange itself are left out: an        *)
(* attempt ends with one of the answers the code tells apart.  The route   *)
(* is available.                                                           *)
(***************************************************************************)
EXTENDS Naturals, FiniteSets

CONSTANTS
  HttpReqs,      \* the requests of a batch, or of several callers
  InFlight,      \* RatePolicy::max_in_flight
  Interval,      \* RatePolicy::minimum_interval; 0: none
  Timeout,       \* the route's timeout
  MaxRetries,    \* RetryPolicy::max_retries
  RetryDelay,    \* RetryPolicy::delay_before_retry
  RetryAfter,    \* what a Retry-After header asks for, after the cap
  MaxTime        \* bound on the clock

ASSUME RouteAssumption ==
  /\ IsFiniteSet(HttpReqs) /\ InFlight \in Nat \ {0} /\ Timeout \in Nat \ {0}
  /\ {Interval, MaxRetries, RetryDelay, RetryAfter, MaxTime} \subseteq Nat

VARIABLES
  now,        \* the clock
  route,      \* RouteState: inFlight, cooldown (cooldown_until), next (next_start), waiters
  http,       \* the request futures
  stopped     \* the cancellation token they share
routeVars == <<now, route, http, stopped>>

NoTimer == MaxTime + Timeout + 1
\* A response: good, 429 or another status worth a retry, the last two with or
\* without Retry-After; a transport error worth a retry, or one that is not.
Answers == {"ok", "limited", "limitedAfter", "busy", "busyAfter", "lost", "fatal"}
RequestOutcomes == {"response", "timeout", "cancelled", "error", "dropped"}

NewRequest == [pc |-> "new", deadline |-> 0, attempts |-> 0, retries |-> 0,
               until |-> NoTimer, answer |-> "ok", woken |-> FALSE, out |-> "none"]

RequestType ==
  [pc : {"new", "turn", "acquire", "parked", "sending", "settle", "sleeping", "done"},
   deadline : Nat, attempts : Nat, retries : Nat, until : Nat,
   answer : Answers \cup {"timeout", "cancelled"},
   woken : BOOLEAN, out : RequestOutcomes \cup {"none"}]

RouteTypeOK ==
  /\ now \in 0..MaxTime /\ stopped \in BOOLEAN
  /\ route \in [inFlight : Nat, cooldown : Nat, next : Nat, waiters : SUBSET HttpReqs]
  /\ http \in [HttpReqs -> RequestType]

-----------------------------------------------------------------------------
Set(r, q) == http' = [http EXCEPT ![r] = q]
Ended(q, out) == [q EXCEPT !.pc = "done", !.out = out]
Due(q) == now >= q.deadline

\* Wake the tasks in w that wait, after f changed the futures.
Woken(f, w) == [r \in HttpReqs |->
  [f[r] EXCEPT !.woken = @ \/ (r \in w /\ f[r].pc \in {"parked", "sleeping"})]]

\* Client::execute begins.
Begin(r) ==
  /\ http[r].pc = "new"
  /\ Set(r, [http[r] EXCEPT !.pc = "turn", !.deadline = now + Timeout])
  /\ UNCHANGED <<now, route, stopped>>

\* The head of its loop.
Turn(r) ==
  /\ http[r].pc = "turn"
  /\ Set(r, IF stopped THEN Ended(http[r], "cancelled")
            ELSE IF Due(http[r]) THEN Ended(http[r], "timeout")
            ELSE [http[r] EXCEPT !.pc = "acquire"])
  /\ UNCHANGED <<now, route, stopped>>

Free == route.inFlight < InFlight /\ route.cooldown <= now /\ route.next <= now

\* acquire: take a slot, or compute how long to wait and for what.  The wait is
\* polled first by the task that made it.
Acquire(r) ==
  /\ http[r].pc = "acquire"
  /\ \/ stopped /\ Set(r, Ended(http[r], "cancelled")) /\ UNCHANGED route
     \/ /\ ~stopped /\ Free
        /\ route' = [route EXCEPT !.inFlight = @ + 1, !.next = IF Interval = 0 THEN 0 ELSE now + Interval]
        /\ Set(r, [http[r] EXCEPT !.pc = "sending", !.attempts = @ + 1])
     \/ /\ ~stopped /\ ~Free
        /\ Set(r, [http[r] EXCEPT !.pc = "parked", !.woken = TRUE,
                     !.until = IF route.cooldown > now THEN route.cooldown
                               ELSE IF route.next > now THEN route.next ELSE NoTimer])
        /\ UNCHANGED route
  /\ UNCHANGED <<now, stopped>>

\* A poll of wait_for_state.  StateNotification registers its waker and is never
\* ready itself; the wait ends by its timer, the deadline or the cancellation.
PollParked(r) ==
  /\ http[r].pc = "parked" /\ http[r].woken
  /\ route' = [route EXCEPT !.waiters = @ \cup {r}]
  /\ LET q == [http[r] EXCEPT !.woken = FALSE]
     IN  Set(r, IF now >= q.until THEN [q EXCEPT !.pc = "acquire", !.until = NoTimer]
                ELSE IF Due(q) THEN Ended(q, "timeout")
                ELSE IF stopped THEN Ended(q, "cancelled")
                ELSE q)
  /\ UNCHANGED <<now, stopped>>

\* Drop for RoutePermit.
Released == [route EXCEPT !.inFlight = @ - 1, !.waiters = {}]

\* execute_once returns, and the permit is dropped.  run_until looks at the
\* exchange first, then at the deadline, then at the cancellation.
EndAttempt(r, answer) ==
  /\ http[r].pc = "sending"
  /\ answer = "timeout" => Due(http[r])
  /\ answer = "cancelled" => stopped /\ ~Due(http[r])
  /\ http' = Woken([http EXCEPT ![r].pc = "settle", ![r].answer = answer], route.waiters)
  /\ route' = Released
  /\ UNCHANGED <<now, stopped>>

\* retryable_status, retryable_transport, and another retry allowed.
Retries(q) == q.answer \notin {"ok", "fatal", "cancelled"} /\ q.retries < MaxRetries

\* The match on the attempt.  set_cooldown extends the cooldown of the route and
\* wakes those who wait for it.
SettleAttempt(r) ==
  LET q == http[r]
      delay == IF q.answer \in {"limitedAfter", "busyAfter"} THEN RetryAfter ELSE RetryDelay
      next == IF Retries(q)
              THEN [q EXCEPT !.pc = "sleeping", !.retries = @ + 1, !.woken = TRUE, !.until = now + delay]
              ELSE Ended(q, CASE q.answer \in {"ok", "limited", "limitedAfter", "busy", "busyAfter"} -> "response"
                             [] q.answer \in {"timeout", "cancelled"} -> q.answer
                             [] OTHER -> "error")
  IN  /\ q.pc = "settle"
      /\ IF q.answer = "limitedAfter"
         THEN /\ route' = [route EXCEPT !.waiters = {},
                             !.cooldown = IF @ < now + RetryAfter THEN now + RetryAfter ELSE @]
              /\ http' = Woken([http EXCEPT ![r] = next], route.waiters)
         ELSE Set(r, next) /\ UNCHANGED route
      /\ UNCHANGED <<now, stopped>>

\* wait between two attempts.
PollSleep(r) ==
  /\ http[r].pc = "sleeping" /\ http[r].woken
  /\ LET q == [http[r] EXCEPT !.woken = FALSE]
     IN  Set(r, IF now >= q.until THEN [q EXCEPT !.pc = "turn", !.until = NoTimer]
                ELSE IF Due(q) THEN Ended(q, "timeout")
                ELSE IF stopped THEN Ended(q, "cancelled")
                ELSE q)
  /\ UNCHANGED <<now, route, stopped>>

\* A form in which only execute gives the permit back.
AbandonKeeping(r) ==
  /\ http[r].pc \notin {"new", "done"}
  /\ Set(r, Ended(http[r], "dropped")) /\ UNCHANGED <<now, route, stopped>>

\* The caller drops the future; a permit it holds is dropped with it.
Abandon(r) ==
  /\ http[r].pc \notin {"new", "done"}
  /\ IF http[r].pc = "sending"
     THEN route' = Released /\ http' = Woken([http EXCEPT ![r] = Ended(@, "dropped")], route.waiters)
     ELSE UNCHANGED route /\ Set(r, Ended(http[r], "dropped"))
  /\ UNCHANGED <<now, stopped>>

CancelRequests ==
  /\ ~stopped /\ stopped' = TRUE
  /\ http' = Woken(http, HttpReqs)
  /\ UNCHANGED <<now, route>>

\* Time passes; timers that become due wake their task.
Tick ==
  /\ now < MaxTime /\ now' = now + 1
  /\ http' = Woken(http, {r \in HttpReqs : now' >= http[r].until \/ now' >= http[r].deadline})
  /\ UNCHANGED <<route, stopped>>

RouteInit ==
  /\ now = 0 /\ stopped = FALSE
  /\ route = [inFlight |-> 0, cooldown |-> 0, next |-> 0, waiters |-> {}]
  /\ http = [r \in HttpReqs |-> NewRequest]

RouteNext ==
  \/ \E r \in HttpReqs :
       \/ Begin(r) \/ Turn(r) \/ Acquire(r) \/ PollParked(r) \/ SettleAttempt(r) \/ PollSleep(r) \/ Abandon(r)
       \/ \E answer \in Answers \cup {"timeout", "cancelled"} : EndAttempt(r, answer)
  \/ CancelRequests
  \/ Tick

RouteSpec == RouteInit /\ [][RouteNext]_routeVars

-----------------------------------------------------------------------------
\* The slots taken are those of the attempts under way, however these end, and
\* never more than the route's limit (route.rs:90).
RouteQuota ==
  /\ route.inFlight = Cardinality({r \in HttpReqs : http[r].pc = "sending"})
  /\ route.inFlight <= InFlight

\* A request of a batch that waits for a slot takes one that is free: nobody is
\* parked, without a timer and without a wake-up, while the route would let it
\* start.  docs/web.md:19 promises that the array of sources is retrieved
\* concurrently in one call; it may hold more sources than the route has slots.
FreeSlotTaken == \A r \in HttpReqs :
  ~(http[r].pc = "parked" /\ ~http[r].woken /\ http[r].until = NoTimer /\ Free)
===============================================================================
