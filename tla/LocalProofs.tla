---------------------------- MODULE LocalProofs -----------------------------
(***************************************************************************)
(* Proofs about the process-local machinery around an operation.           *)
(***************************************************************************)
EXTENDS CommandRunner, RouteLimiter, CacheWarmer, EventHub, Compaction,
        FiniteSetTheorems, FunctionTheorems, SequenceTheorems, WellFoundedInduction, NaturalsInduction, TLAPS

-----------------------------------------------------------------------------
(* The inductive invariant of a shell command.                             *)

Stopped == shell = "reaped" /\ group = {}

(* Where the runner is tells what has been started, and a claim it is      *)
(* about to report is already true.                                        *)
RunnerInv ==
  /\ shell = "none" => group = {}
  /\ runner.pc = "start" => shell = "none" /\ ~captures /\ result = "none"
  /\ runner.pc \notin {"start", "done"} => shell # "none" /\ result = "none"
  /\ runner.pc = "done" => ~captures
  /\ runner.claim # "error"
  /\ runner.pc = "output" /\ runner.claim \in Claims => Stopped

CmdInv == CmdTypeOK /\ RunnerInv /\ ClaimedStopped

(* What has stopped stays stopped, whatever the system does.               *)
LEMMA StoppedStays ==
  ASSUME CmdTypeOK, SystemStep
  PROVE  /\ Stopped => Stopped' 
         /\ shell' = "none" <=> shell = "none"
         /\ shell = "none" /\ group = {} => group' = {}
         /\ group' \subseteq Background /\ foreign' \in BOOLEAN
         /\ shell' \in {"none", "running", "dead", "reaped"}
<1>1. CASE ShellEnds
  BY <1>1 DEF CmdTypeOK, RunnerType, ShellEnds, Stopped
<1>2. CASE NumberGivenAway
  BY <1>2 DEF CmdTypeOK, RunnerType, NumberGivenAway, Stopped
<1>3. ASSUME NEW p \in Background, Forks(p) \/ Departs(p)
      PROVE  /\ Stopped => Stopped'
             /\ shell' = shell
             /\ shell = "none" /\ group = {} => group' = {}
             /\ group' \subseteq Background /\ foreign' = foreign
  BY <1>3 DEF CmdTypeOK, RunnerType, Forks, Departs, Stopped
<1> QED BY <1>1, <1>2, <1>3 DEF SystemStep, CmdTypeOK

LEMMA CmdStep == CmdInv /\ [CmdNext]_cmdVars => CmdInv'
<1> SUFFICES ASSUME CmdInv, [CmdNext]_cmdVars PROVE CmdInv'
  OBVIOUS
<1> USE DEF CmdInv
<1>0. CASE UNCHANGED cmdVars
  BY <1>0 DEF cmdVars, CmdTypeOK, RunnerInv, ClaimedStopped, Stopped
<1>1. CASE SystemStep
  <2>1. UNCHANGED <<hit, runner, ask, captures, result>>
    BY <1>1 DEF SystemStep
  <2> QED BY <1>1, <2>1, StoppedStays DEF CmdTypeOK, RunnerType, RunnerInv, ClaimedStopped, Stopped
<1>2. ASSUME NEW what \in {"cancel", "late"}, Ask(what) PROVE CmdInv'
  <2>1. UNCHANGED <<osVars, hit, runner, captures, result>>
    BY <1>2 DEF Ask
  <2>2. ask' \in [cancel : BOOLEAN, late : BOOLEAN]
    BY <1>2 DEF Ask, CmdTypeOK
  <2> QED BY <2>1, <2>2 DEF CmdTypeOK, RunnerType, RunnerInv, ClaimedStopped, Stopped, osVars
<1>3. CASE RefuseStart
  <2>1. /\ runner.pc = "start" /\ result' = "error"
        /\ UNCHANGED <<osVars, hit, ask, captures>> /\ runner' = [runner EXCEPT !.pc = "done"]
    BY <1>3 DEF RefuseStart, Goto
  <2>2. runner'.pc = "done" /\ runner'.claim = runner.claim
    BY <2>1 DEF CmdTypeOK, RunnerType
  <2>3. CmdTypeOK'
    BY <2>1 DEF CmdTypeOK, RunnerType, Results, osVars
  <2> QED BY <2>1, <2>2, <2>3 DEF RunnerInv, ClaimedStopped, Stopped, osVars, Claims
<1>4. CASE Spawn
  <2>1. /\ runner.pc = "start" /\ shell' = "running" /\ captures' = TRUE
        /\ UNCHANGED <<group, foreign, hit, ask, result>> /\ runner' = [runner EXCEPT !.pc = "look"]
    BY <1>4 DEF Spawn, Goto
  <2>2. runner'.pc = "look" /\ runner'.claim = runner.claim
    BY <2>1 DEF CmdTypeOK, RunnerType
  <2>3. CmdTypeOK'
    BY <2>1 DEF CmdTypeOK, RunnerType
  <2> QED BY <2>1, <2>2, <2>3 DEF RunnerInv, ClaimedStopped, Stopped, Claims
<1>5. CASE Look
  <2>1. /\ runner.pc = "look" /\ UNCHANGED <<group, foreign, hit, ask, captures, result>>
        /\ shell' \in {shell, "reaped"}
    BY <1>5 DEF Look, Reap
  <2>2. runner' \in {[pc |-> "gone", claim |-> "exited", path |-> "settle"],
                     [runner EXCEPT !.pc = "checks"],
                     [pc |-> "gone", claim |-> "indeterminate", path |-> "terminate"]}
    BY <1>5 DEF Look, Cleanup, Goto
  <2>3. runner'.pc \in {"gone", "checks"} /\ runner'.claim # "error"
    BY <2>2 DEF CmdTypeOK, RunnerType, RunnerInv
  <2>4. CmdTypeOK'
    BY <2>1, <2>2 DEF CmdTypeOK, RunnerType, Results, Claims
  <2>5. shell' # "none" /\ result' = "none"
    BY <2>1 DEF RunnerInv
  <2> QED BY <2>1, <2>3, <2>4, <2>5 DEF RunnerInv, ClaimedStopped, Claims
<1>6. CASE Checks
  <2>1. /\ runner.pc = "checks" /\ UNCHANGED <<osVars, hit, ask, captures, result>>
    BY <1>6 DEF Checks
  <2>2. runner' \in {[pc |-> "gone", claim |-> "cancelled", path |-> "terminate"],
                     [pc |-> "gone", claim |-> "timedOut", path |-> "terminate"],
                     [runner EXCEPT !.pc = "look"],
                     [pc |-> "gone", claim |-> "indeterminate", path |-> "terminate"]}
    BY <1>6 DEF Checks, Cleanup, Goto
  <2>3. runner'.pc \in {"gone", "look"} /\ runner'.claim # "error"
    BY <2>2 DEF CmdTypeOK, RunnerType, RunnerInv
  <2>4. CmdTypeOK'
    BY <2>1, <2>2 DEF CmdTypeOK, RunnerType, Results, Claims, osVars
  <2> QED BY <2>1, <2>3, <2>4 DEF RunnerInv, ClaimedStopped, Claims, osVars
<1>7. CASE CheckGone
  <2>1. /\ runner.pc = "gone" /\ UNCHANGED <<osVars, hit, ask, captures, result>>
    BY <1>7 DEF CheckGone
  <2>2. \/ runner' \in {[runner EXCEPT !.pc = "signal"], [runner EXCEPT !.pc = "wait"],
                        [runner EXCEPT !.pc = "output", !.claim = "indeterminate"]}
        \/ runner' = [runner EXCEPT !.pc = "output", !.claim = runner.claim] /\ ~NumberInUse
    BY <1>7 DEF CheckGone, Goto, Report
  <2>3. ~NumberInUse => Stopped
    BY <2>1 DEF NumberInUse, RunnerInv, CmdTypeOK, Stopped
  <2>4. /\ runner'.pc \in {"signal", "wait", "output"} /\ runner'.claim # "error"
        /\ runner'.pc = "output" /\ runner'.claim \in Claims => Stopped
    BY <2>2, <2>3 DEF CmdTypeOK, RunnerType, RunnerInv, Claims
  <2>5. CmdTypeOK'
    <3>1. runner' \in RunnerType
      BY <2>2 DEF CmdTypeOK, RunnerType, Results
    <3> QED BY <2>1, <3>1 DEF CmdTypeOK, RunnerType, osVars
  <2> QED BY <2>1, <2>4, <2>5 DEF RunnerInv, ClaimedStopped, Claims, osVars, Stopped
<1>8. CASE Signal
  <2>1. /\ runner.pc = "signal" /\ UNCHANGED <<foreign, ask, captures, result>>
        /\ group' \in {group, {}} /\ shell' \in {shell, "dead"} /\ hit' \in BOOLEAN
    BY <1>8 DEF Signal, CmdTypeOK
  <2>2. runner' \in {[runner EXCEPT !.pc = "wait"],
                     [runner EXCEPT !.pc = "output", !.claim = "indeterminate"]}
    BY <1>8 DEF Signal, Goto, Report
  <2>3. /\ runner'.pc \in {"wait", "output"} /\ runner'.claim # "error"
        /\ runner'.pc = "output" => runner'.claim = "indeterminate"
    BY <2>2 DEF CmdTypeOK, RunnerType, RunnerInv
  <2>4. CmdTypeOK'
    <3>1. runner' \in RunnerType
      BY <2>2 DEF CmdTypeOK, RunnerType, Results
    <3> QED BY <2>1, <3>1 DEF CmdTypeOK, RunnerType
  <2>5. shell' # "none" /\ result' = "none"
    BY <2>1 DEF RunnerInv
  <2> QED BY <2>1, <2>3, <2>4, <2>5 DEF RunnerInv, ClaimedStopped, Claims
<1>9. CASE WaitGone
  <2>1. /\ runner.pc = "wait" /\ UNCHANGED <<group, foreign, hit, ask, captures, result>>
        /\ shell' \in {shell, "reaped"}
    BY <1>9 DEF WaitGone, Reap
  <2>2. \/ runner' \in {runner, [runner EXCEPT !.pc = "output", !.claim = "indeterminate"]}
        \/ /\ runner' = [runner EXCEPT !.pc = "output", !.claim = runner.claim]
           /\ shell' = "reaped" /\ ~NumberInUse'
    BY <1>9 DEF WaitGone, Report
  <2>3. shell' = "reaped" /\ ~NumberInUse' => Stopped'
    BY DEF NumberInUse, Stopped
  <2>4. /\ runner'.pc \in {"wait", "output"} /\ runner'.claim # "error"
        /\ runner'.pc = "output" /\ runner'.claim \in Claims => Stopped'
    BY <2>1, <2>2, <2>3 DEF CmdTypeOK, RunnerType, RunnerInv, Claims
  <2>5. CmdTypeOK'
    <3>1. runner' \in RunnerType
      BY <2>2 DEF CmdTypeOK, RunnerType, Results
    <3> QED BY <2>1, <3>1 DEF CmdTypeOK
  <2>6. shell' # "none" /\ result' = "none"
    BY <2>1 DEF RunnerInv
  <2> QED BY <2>1, <2>4, <2>5, <2>6 DEF RunnerInv, ClaimedStopped, Claims
<1>10. CASE Output
  <2>1. /\ runner.pc = "output" /\ UNCHANGED <<osVars, hit, ask>> /\ captures' = FALSE
        /\ result' \in {runner.claim, "indeterminate"} /\ runner' = [runner EXCEPT !.pc = "done"]
    BY <1>10 DEF Output, Goto
  <2>2. runner'.pc = "done" /\ runner'.claim = runner.claim /\ runner.claim \in Results
    BY <2>1 DEF CmdTypeOK, RunnerType
  <2>3. CmdTypeOK'
    BY <2>1, <2>2 DEF CmdTypeOK, RunnerType, Results, osVars
  <2>4. shell' = shell /\ group' = group /\ shell # "none"
    BY <2>1 DEF osVars, RunnerInv
  <2> QED BY <2>1, <2>2, <2>3, <2>4 DEF RunnerInv, ClaimedStopped, Stopped, Claims
<1> QED BY <1>0, <1>1, <1>2, <1>3, <1>4, <1>5, <1>6, <1>7, <1>8, <1>9, <1>10 DEF CmdNext

(* The inductive invariant of a shell command holds in every state.        *)
THEOREM CommandInvariant == CmdSpec => []CmdInv
<1>1. CmdInit => CmdInv
  <2> SUFFICES ASSUME CmdInit PROVE CmdInv
    OBVIOUS
  <2>1. runner \in RunnerType /\ runner.pc = "start" /\ runner.claim = "none"
    BY DEF CmdInit, RunnerType, Results
  <2>2. CmdTypeOK
    BY <2>1 DEF CmdInit, CmdTypeOK, Results
  <2>3. RunnerInv /\ ClaimedStopped
    BY <2>1 DEF CmdInit, RunnerInv, ClaimedStopped, Claims
  <2> QED BY <2>2, <2>3 DEF CmdInv
<1> QED BY <1>1, CmdStep, PTL DEF CmdSpec

(* Whatever the command starts in the background and however the runner's  *)
(* cancellation, timeout, signals and waits go, a claim that the command   *)
(* exited, was cancelled or timed out means that nothing of it is left.    *)
THEOREM ClaimsTrue == CmdSpec => []ClaimedStopped
<1>1. CmdInv => ClaimedStopped
  BY DEF CmdInv
<1> QED BY <1>1, CommandInvariant, PTL
-----------------------------------------------------------------------------
(* The invariant of a route: the quota is inductive as it stands, once     *)
(* every request is known to keep its shape.                               *)
RouteInv == RouteTypeOK /\ RouteQuota

Sending == {r \in HttpReqs : http[r].pc = "sending"}

(* Waking tasks changes nothing but who is woken.                          *)
LEMMA WokenKeeps ==
  ASSUME NEW f \in [HttpReqs -> RequestType], NEW w
  PROVE  /\ Woken(f, w) \in [HttpReqs -> RequestType]
         /\ \A r \in HttpReqs : Woken(f, w)[r].pc = f[r].pc
<1>1. ASSUME NEW r \in HttpReqs, NEW b \in BOOLEAN
      PROVE  [f[r] EXCEPT !.woken = b] \in RequestType /\ [f[r] EXCEPT !.woken = b].pc = f[r].pc
  BY DEF RequestType
<1>2. ASSUME NEW r \in HttpReqs
      PROVE  (f[r].woken \/ (r \in w /\ f[r].pc \in {"parked", "sleeping"})) \in BOOLEAN
  OBVIOUS
<1>3. \A r \in HttpReqs : Woken(f, w)[r] \in RequestType /\ Woken(f, w)[r].pc = f[r].pc
  BY <1>1, <1>2 DEF Woken
<1>4. Woken(f, w) = [r \in HttpReqs |-> Woken(f, w)[r]]
  BY DEF Woken
<1> QED BY <1>3, <1>4

(* The fields a step sets keep a request its shape.                        *)
LEMMA RequestFields ==
  ASSUME NEW q \in RequestType, NEW n \in Nat, NEW b \in BOOLEAN
  PROVE  /\ [q EXCEPT !.pc = "turn", !.deadline = n] \in RequestType
         /\ [q EXCEPT !.pc = "acquire"] \in RequestType
         /\ \A out \in RequestOutcomes : Ended(q, out) \in RequestType
         /\ [q EXCEPT !.pc = "sending", !.attempts = @ + 1] \in RequestType
         /\ [q EXCEPT !.pc = "parked", !.woken = TRUE, !.until = n] \in RequestType
         /\ [q EXCEPT !.woken = FALSE] \in RequestType
         /\ [q EXCEPT !.pc = "acquire", !.until = n] \in RequestType
         /\ [q EXCEPT !.pc = "turn", !.until = n] \in RequestType
         /\ [q EXCEPT !.pc = "sleeping", !.retries = @ + 1, !.woken = TRUE, !.until = n]
              \in RequestType
         /\ \A a \in Answers \cup {"timeout", "cancelled"} :
              [q EXCEPT !.pc = "settle", !.answer = a] \in RequestType
<1>1. q.attempts + 1 \in Nat /\ q.retries + 1 \in Nat
  BY DEF RequestType
<1>2. \A out \in RequestOutcomes : Ended(q, out) \in RequestType
  BY DEF Ended, RequestType
<1>3. [q EXCEPT !.pc = "sending", !.attempts = @ + 1] \in RequestType
  BY <1>1 DEF RequestType
<1>4. [q EXCEPT !.pc = "sleeping", !.retries = @ + 1, !.woken = TRUE, !.until = n]
        \in RequestType
  BY <1>1 DEF RequestType
<1>5. \A a \in Answers \cup {"timeout", "cancelled"} :
        [q EXCEPT !.pc = "settle", !.answer = a] \in RequestType
  BY DEF RequestType
<1>6. [q EXCEPT !.pc = "parked", !.woken = TRUE, !.until = n] \in RequestType
  BY DEF RequestType
<1>7. /\ [q EXCEPT !.pc = "turn", !.deadline = n] \in RequestType
      /\ [q EXCEPT !.pc = "acquire"] \in RequestType
      /\ [q EXCEPT !.woken = FALSE] \in RequestType
      /\ [q EXCEPT !.pc = "acquire", !.until = n] \in RequestType
      /\ [q EXCEPT !.pc = "turn", !.until = n] \in RequestType
  BY DEF RequestType
<1> QED BY <1>2, <1>3, <1>4, <1>5, <1>6, <1>7

(* Taking and giving back a slot move the count with the set.              *)
LEMMA SlotCount ==
  ASSUME RouteInv, NEW r \in HttpReqs
  PROVE  /\ IsFiniteSet(Sending) /\ Cardinality(Sending) \in Nat
         /\ r \notin Sending => Cardinality(Sending \cup {r}) = Cardinality(Sending) + 1
         /\ r \in Sending => /\ Cardinality(Sending \ {r}) = Cardinality(Sending) - 1
                             /\ Cardinality(Sending) > 0
<1>1. IsFiniteSet(Sending)
  BY RouteAssumption, FS_Subset DEF Sending
<1>2. Cardinality(Sending) \in Nat
  BY <1>1, FS_CardinalityType
<1>3. r \notin Sending => Cardinality(Sending \cup {r}) = Cardinality(Sending) + 1
  BY <1>1, FS_AddElement
<1>4. r \in Sending => Cardinality(Sending \ {r}) = Cardinality(Sending) - 1
  BY <1>1, FS_RemoveElement
<1>5. r \in Sending => Cardinality(Sending) > 0
  BY <1>1, <1>2, FS_EmptySet
<1> QED BY <1>1, <1>2, <1>3, <1>4, <1>5

(* A step that starts and ends no attempt keeps the quota.                 *)
LEMMA RouteMoves ==
  ASSUME RouteInv, RouteTypeOK', route'.inFlight = route.inFlight,
         \A r \in HttpReqs : http'[r].pc = "sending" <=> http[r].pc = "sending"
  PROVE  RouteInv'
<1>1. Sending' = Sending
  BY DEF Sending
<1> QED BY <1>1 DEF RouteInv, RouteQuota, Sending

(* The end of an attempt gives its slot back.                              *)
LEMMA RouteReleases ==
  ASSUME RouteInv, NEW r \in HttpReqs, http[r].pc = "sending", route' = Released,
         NEW q \in RequestType, q.pc # "sending",
         http' = Woken([http EXCEPT ![r] = q], route.waiters), UNCHANGED <<now, stopped>>
  PROVE  RouteInv'
<1> DEFINE f == [http EXCEPT ![r] = q]
<1>1. f \in [HttpReqs -> RequestType] /\ f[r] = q /\ \A s \in HttpReqs \ {r} : f[s] = http[s]
  BY DEF RouteInv, RouteTypeOK
<1> HIDE DEF f
<1>2. http' = Woken(f, route.waiters)
  BY DEF f
<1>3. http' \in [HttpReqs -> RequestType] /\ \A s \in HttpReqs : http'[s].pc = f[s].pc
  <2>1. /\ Woken(f, route.waiters) \in [HttpReqs -> RequestType]
        /\ \A s \in HttpReqs : Woken(f, route.waiters)[s].pc = f[s].pc
    BY <1>1, WokenKeeps
  <2> QED BY <1>2, <2>1
<1>4. r \in Sending /\ Sending' = Sending \ {r}
  BY <1>1, <1>3 DEF Sending
<1>5. route.inFlight = Cardinality(Sending) /\ Cardinality(Sending) > 0
      /\ Cardinality(Sending') = Cardinality(Sending) - 1 /\ Cardinality(Sending) \in Nat
  BY <1>4, SlotCount DEF RouteInv, RouteQuota, Sending
<1>6. route'.inFlight = route.inFlight - 1 /\ route'.inFlight \in Nat
  BY <1>5 DEF Released, RouteInv, RouteTypeOK
<1>7. RouteTypeOK'
  <2>1. route' \in [inFlight : Nat, cooldown : Nat, next : Nat, waiters : SUBSET HttpReqs]
    BY <1>6 DEF Released, RouteInv, RouteTypeOK
  <2> QED BY <1>3, <2>1 DEF RouteInv, RouteTypeOK
<1>8. RouteQuota'
  <2>1. route'.inFlight = Cardinality(Sending')
    BY <1>5, <1>6
  <2>2. route'.inFlight <= InFlight
    BY <1>5, <1>6, RouteAssumption DEF RouteInv, RouteQuota
  <2> QED BY <2>1, <2>2 DEF RouteQuota, Sending
<1> QED BY <1>7, <1>8 DEF RouteInv

LEMMA RouteStep == RouteInv /\ [RouteNext]_routeVars => RouteInv'
<1> SUFFICES ASSUME RouteInv, [RouteNext]_routeVars PROVE RouteInv'
  OBVIOUS
<1>n. now \in Nat /\ NoTimer \in Nat /\ Timeout \in Nat /\ RetryAfter \in Nat /\ RetryDelay \in Nat
      /\ Interval \in Nat /\ InFlight \in Nat /\ MaxTime \in Nat
  BY RouteAssumption DEF NoTimer, RouteInv, RouteTypeOK
<1>t. /\ http \in [HttpReqs -> RequestType] /\ RouteTypeOK
      /\ \A r \in HttpReqs : http[r] \in RequestType
      /\ route \in [inFlight : Nat, cooldown : Nat, next : Nat, waiters : SUBSET HttpReqs]
  BY DEF RouteInv, RouteTypeOK
<1>s. ASSUME NEW r \in HttpReqs, NEW q \in RequestType, Set(r, q),
             q.pc # "sending", http[r].pc # "sending",
             route' \in [inFlight : Nat, cooldown : Nat, next : Nat, waiters : SUBSET HttpReqs],
             route'.inFlight = route.inFlight, UNCHANGED <<now, stopped>>
      PROVE  RouteInv'
  <2>1. http' \in [HttpReqs -> RequestType]
        /\ \A s \in HttpReqs : http'[s].pc = "sending" <=> http[s].pc = "sending"
    BY <1>s, <1>t DEF Set
  <2>2. RouteTypeOK'
    BY <2>1, <1>s, <1>t DEF RouteTypeOK
  <2> QED BY <2>1, <2>2, <1>s, RouteMoves
<1>e. ASSUME NEW q \in RequestType, NEW out \in RequestOutcomes
      PROVE  Ended(q, out) \in RequestType /\ Ended(q, out).pc = "done"
  <2>1. Ended(q, out) \in RequestType
    BY <1>n, RequestFields
  <2> QED BY <2>1 DEF Ended, RequestType
<1>0. CASE UNCHANGED routeVars
  BY <1>0, <1>t, RouteMoves DEF routeVars, RouteTypeOK
<1>1. ASSUME NEW r \in HttpReqs, Begin(r) PROVE RouteInv'
  <2> DEFINE q == [http[r] EXCEPT !.pc = "turn", !.deadline = now + Timeout]
  <2>1. now + Timeout \in Nat
    BY <1>n
  <2>2. q \in RequestType
    BY <2>1, <1>t, RequestFields
  <2>3. q.pc = "turn"
    BY <1>t DEF RequestType
  <2>4. Set(r, q) /\ http[r].pc = "new" /\ UNCHANGED <<now, route, stopped>>
    BY <1>1 DEF Begin
  <2> HIDE DEF q
  <2> QED BY <2>2, <2>3, <2>4, <1>s, <1>t
<1>2. ASSUME NEW r \in HttpReqs, Turn(r) PROVE RouteInv'
  <2>0. http[r].pc = "turn" /\ UNCHANGED <<now, route, stopped>>
    BY <1>2 DEF Turn
  <2>1. [http[r] EXCEPT !.pc = "acquire"] \in RequestType
        /\ [http[r] EXCEPT !.pc = "acquire"].pc = "acquire"
    BY <1>t DEF RequestType
  <2>2. PICK q \in RequestType : Set(r, q) /\ q.pc # "sending"
    <3>1. Set(r, Ended(http[r], "cancelled")) \/ Set(r, Ended(http[r], "timeout"))
          \/ Set(r, [http[r] EXCEPT !.pc = "acquire"])
      BY <1>2 DEF Turn
    <3> QED BY <3>1, <2>1, <1>e, <1>t DEF RequestOutcomes
  <2> QED BY <2>0, <2>2, <1>s, <1>t
<1>3. ASSUME NEW r \in HttpReqs, Acquire(r) PROVE RouteInv'
  <2>0. http[r].pc = "acquire" /\ UNCHANGED <<now, stopped>>
    BY <1>3 DEF Acquire
  <2>1. CASE Set(r, Ended(http[r], "cancelled")) /\ UNCHANGED route
    BY <2>0, <2>1, <1>s, <1>t, <1>e DEF RequestOutcomes
  <2>2. CASE /\ Free
             /\ route' = [route EXCEPT !.inFlight = @ + 1,
                                       !.next = IF Interval = 0 THEN 0 ELSE now + Interval]
             /\ Set(r, [http[r] EXCEPT !.pc = "sending", !.attempts = @ + 1])
    <3> DEFINE q == [http[r] EXCEPT !.pc = "sending", !.attempts = @ + 1]
    <3>1. q \in RequestType
      BY <1>n, <1>t, RequestFields
    <3>2. q.pc = "sending"
      BY <1>t DEF RequestType
    <3> HIDE DEF q
    <3>3. http' = [http EXCEPT ![r] = q]
      BY <2>2 DEF Set, q
    <3>4. http' \in [HttpReqs -> RequestType]
      BY <3>1, <3>3, <1>t
    <3>5. r \notin Sending /\ Sending' = Sending \cup {r}
      BY <2>0, <3>2, <3>3, <1>t DEF Sending
    <3>6. (IF Interval = 0 THEN 0 ELSE now + Interval) \in Nat
      BY <1>n
    <3>7. route' \in [inFlight : Nat, cooldown : Nat, next : Nat, waiters : SUBSET HttpReqs]
          /\ route'.inFlight = route.inFlight + 1
      <4>1. route.inFlight + 1 \in Nat
        BY <1>t
      <4>2. route' = [route EXCEPT !.inFlight = route.inFlight + 1,
                                   !.next = IF Interval = 0 THEN 0 ELSE now + Interval]
        BY <2>2
      <4> QED BY <4>1, <4>2, <3>6, <1>t
    <3>8. RouteTypeOK'
      BY <2>0, <3>4, <3>7, <1>t DEF RouteTypeOK
    <3>9. route'.inFlight = Cardinality(Sending')
      BY <3>5, <3>7, SlotCount DEF RouteInv, RouteQuota, Sending
    <3>10. route'.inFlight <= InFlight
      BY <2>2, <3>7, <1>n, <1>t DEF Free
    <3> QED BY <3>8, <3>9, <3>10 DEF RouteInv, RouteQuota, Sending
  <2>3. ASSUME NEW until \in Nat, UNCHANGED route,
               Set(r, [http[r] EXCEPT !.pc = "parked", !.woken = TRUE, !.until = until])
        PROVE  RouteInv'
    <3> DEFINE q == [http[r] EXCEPT !.pc = "parked", !.woken = TRUE, !.until = until]
    <3>1. q \in RequestType
      BY <1>t, RequestFields
    <3>2. q.pc = "parked"
      BY <1>t DEF RequestType
    <3> HIDE DEF q
    <3>3. Set(r, q)
      BY <2>3 DEF q
    <3> QED BY <2>0, <2>3, <3>1, <3>2, <3>3, <1>s, <1>t
  <2>4. (IF route.cooldown > now THEN route.cooldown
         ELSE IF route.next > now THEN route.next ELSE NoTimer) \in Nat
    BY <1>n, <1>t
  <2> QED BY <1>3, <2>1, <2>2, <2>3, <2>4 DEF Acquire
<1>4. ASSUME NEW r \in HttpReqs, PollParked(r) PROVE RouteInv'
  <2> DEFINE q == [http[r] EXCEPT !.woken = FALSE]
  <2>0. http[r].pc = "parked" /\ UNCHANGED <<now, stopped>>
        /\ route' = [route EXCEPT !.waiters = @ \cup {r}]
    BY <1>4 DEF PollParked
  <2>1. q \in RequestType
    BY <1>n, <1>t, RequestFields
  <2>2. q.pc = "parked"
    BY <2>0, <1>t DEF RequestType
  <2>3. Set(r, [q EXCEPT !.pc = "acquire", !.until = NoTimer]) \/ Set(r, Ended(q, "timeout"))
        \/ Set(r, Ended(q, "cancelled")) \/ Set(r, q)
    BY <1>4 DEF PollParked
  <2> HIDE DEF q
  <2>4. [q EXCEPT !.pc = "acquire", !.until = NoTimer] \in RequestType
    BY <2>1, <1>n, RequestFields
  <2>5. [q EXCEPT !.pc = "acquire", !.until = NoTimer].pc = "acquire"
    BY <2>1 DEF RequestType
  <2>6. PICK x \in RequestType : Set(r, x) /\ x.pc # "sending"
    BY <2>1, <2>2, <2>3, <2>4, <2>5, <1>e DEF RequestOutcomes
  <2>7. route' \in [inFlight : Nat, cooldown : Nat, next : Nat, waiters : SUBSET HttpReqs]
        /\ route'.inFlight = route.inFlight
    BY <2>0, <1>t
  <2> QED BY <2>0, <2>6, <2>7, <1>s
<1>5. ASSUME NEW r \in HttpReqs, NEW answer \in Answers \cup {"timeout", "cancelled"},
             EndAttempt(r, answer) PROVE RouteInv'
  <2> DEFINE q == [http[r] EXCEPT !.pc = "settle", !.answer = answer]
  <2>1. q \in RequestType
    BY <1>n, <1>t, RequestFields
  <2>2. q.pc = "settle"
    BY <1>t DEF RequestType
  <2>3. http' = Woken([http EXCEPT ![r] = q], route.waiters)
    BY <1>5 DEF EndAttempt
  <2> HIDE DEF q
  <2> QED BY <1>5, <2>1, <2>2, <2>3, RouteReleases DEF EndAttempt
<1>6. ASSUME NEW r \in HttpReqs, SettleAttempt(r) PROVE RouteInv'
  <2>0. http[r].pc = "settle" /\ UNCHANGED <<now, stopped>>
    BY <1>6 DEF SettleAttempt
  <2>1. now + RetryAfter \in Nat /\ now + RetryDelay \in Nat
    BY <1>n
  <2>2. ASSUME NEW n \in Nat
        PROVE  [http[r] EXCEPT !.pc = "sleeping", !.retries = @ + 1, !.woken = TRUE, !.until = n]
                 \in RequestType
               /\ [http[r] EXCEPT !.pc = "sleeping", !.retries = @ + 1, !.woken = TRUE,
                                  !.until = n].pc = "sleeping"
    <3>1. [http[r] EXCEPT !.pc = "sleeping", !.retries = @ + 1, !.woken = TRUE, !.until = n]
            \in RequestType
      BY <1>t, RequestFields
    <3> QED BY <3>1, <1>t DEF RequestType
  <2> DEFINE delay == IF http[r].answer \in {"limitedAfter", "busyAfter"} THEN RetryAfter
                      ELSE RetryDelay
             next == IF Retries(http[r])
                     THEN [http[r] EXCEPT !.pc = "sleeping", !.retries = @ + 1, !.woken = TRUE,
                                          !.until = now + delay]
                     ELSE Ended(http[r],
                            CASE http[r].answer \in {"ok", "limited", "limitedAfter", "busy", "busyAfter"}
                                   -> "response"
                              [] http[r].answer \in {"timeout", "cancelled"} -> http[r].answer
                              [] OTHER -> "error")
  <2>3. next \in RequestType /\ next.pc \in {"sleeping", "done"}
    <3>1. CASE Retries(http[r])
      <4>1. now + delay \in Nat
        BY <2>1
      <4> QED BY <4>1, <2>2, <3>1
    <3>2. CASE ~Retries(http[r])
      <4>1. (CASE http[r].answer \in {"ok", "limited", "limitedAfter", "busy", "busyAfter"}
                    -> "response"
               [] http[r].answer \in {"timeout", "cancelled"} -> http[r].answer
               [] OTHER -> "error") \in RequestOutcomes
        BY DEF RequestOutcomes
      <4> QED BY <4>1, <3>2, <1>e, <1>t
    <3> QED BY <3>1, <3>2
  <2>4. IF http[r].answer = "limitedAfter"
        THEN /\ route' = [route EXCEPT !.waiters = {},
                             !.cooldown = IF @ < now + RetryAfter THEN now + RetryAfter ELSE @]
             /\ http' = Woken([http EXCEPT ![r] = next], route.waiters)
        ELSE Set(r, next) /\ UNCHANGED route
    BY <1>6 DEF SettleAttempt
  <2> HIDE DEF next
  <2>5. CASE http[r].answer = "limitedAfter"
    <3> DEFINE f == [http EXCEPT ![r] = next]
    <3>1. f \in [HttpReqs -> RequestType] /\ f[r] = next /\ \A s \in HttpReqs \ {r} : f[s] = http[s]
      BY <2>3, <1>t
    <3> HIDE DEF f
    <3>2. http' = Woken(f, route.waiters)
      BY <2>4, <2>5 DEF f
    <3>3. http' \in [HttpReqs -> RequestType] /\ \A s \in HttpReqs : http'[s].pc = f[s].pc
      BY <3>1, <3>2, WokenKeeps
    <3>4. route' \in [inFlight : Nat, cooldown : Nat, next : Nat, waiters : SUBSET HttpReqs]
          /\ route'.inFlight = route.inFlight
      <4>1. (IF route.cooldown < now + RetryAfter THEN now + RetryAfter ELSE route.cooldown) \in Nat
        BY <2>1, <1>t
      <4>2. route' = [route EXCEPT !.waiters = {}, !.cooldown =
                        IF route.cooldown < now + RetryAfter THEN now + RetryAfter ELSE route.cooldown]
        BY <2>4, <2>5
      <4> QED BY <4>1, <4>2, <1>t
    <3>5. RouteTypeOK'
      BY <2>0, <3>3, <3>4, <1>t DEF RouteTypeOK
    <3>6. \A s \in HttpReqs : http'[s].pc = "sending" <=> http[s].pc = "sending"
      BY <2>0, <2>3, <3>1, <3>3
    <3> QED BY <3>4, <3>5, <3>6, RouteMoves
  <2>6. CASE http[r].answer # "limitedAfter"
    BY <2>0, <2>3, <2>4, <2>6, <1>s, <1>t
  <2> QED BY <2>5, <2>6
<1>7. ASSUME NEW r \in HttpReqs, PollSleep(r) PROVE RouteInv'
  <2> DEFINE q == [http[r] EXCEPT !.woken = FALSE]
  <2>0. http[r].pc = "sleeping" /\ UNCHANGED <<now, route, stopped>>
    BY <1>7 DEF PollSleep
  <2>1. q \in RequestType
    BY <1>n, <1>t, RequestFields
  <2>2. q.pc = "sleeping"
    BY <2>0, <1>t DEF RequestType
  <2>3. Set(r, [q EXCEPT !.pc = "turn", !.until = NoTimer]) \/ Set(r, Ended(q, "timeout"))
        \/ Set(r, Ended(q, "cancelled")) \/ Set(r, q)
    BY <1>7 DEF PollSleep
  <2> HIDE DEF q
  <2>4. [q EXCEPT !.pc = "turn", !.until = NoTimer] \in RequestType
    BY <2>1, <1>n, RequestFields
  <2>5. [q EXCEPT !.pc = "turn", !.until = NoTimer].pc = "turn"
    BY <2>1 DEF RequestType
  <2>6. PICK x \in RequestType : Set(r, x) /\ x.pc # "sending"
    BY <2>1, <2>2, <2>3, <2>4, <2>5, <1>e DEF RequestOutcomes
  <2> QED BY <2>0, <2>6, <1>s, <1>t
<1>8. ASSUME NEW r \in HttpReqs, Abandon(r) PROVE RouteInv'
  <2>1. Ended(http[r], "dropped") \in RequestType /\ Ended(http[r], "dropped").pc = "done"
    BY <1>e, <1>t DEF RequestOutcomes
  <2>2. CASE http[r].pc = "sending"
    BY <1>8, <2>1, <2>2, RouteReleases DEF Abandon
  <2>3. CASE http[r].pc # "sending"
    BY <1>8, <2>1, <2>3, <1>s, <1>t DEF Abandon
  <2> QED BY <2>2, <2>3
<1>9. CASE CancelRequests
  <2>1. http' \in [HttpReqs -> RequestType] /\ \A r \in HttpReqs : http'[r].pc = http[r].pc
    BY <1>9, <1>t, WokenKeeps DEF CancelRequests
  <2> QED BY <1>9, <2>1, <1>t, RouteMoves DEF CancelRequests, RouteTypeOK
<1>10. CASE Tick
  <2>1. http' \in [HttpReqs -> RequestType] /\ \A r \in HttpReqs : http'[r].pc = http[r].pc
    BY <1>10, <1>t, WokenKeeps DEF Tick
  <2>2. now' \in 0..MaxTime /\ UNCHANGED <<route, stopped>>
    BY <1>10, <1>n, <1>t DEF Tick, RouteTypeOK
  <2> QED BY <2>1, <2>2, <1>t, RouteMoves DEF RouteTypeOK
<1> QED BY <1>0, <1>1, <1>2, <1>3, <1>4, <1>5, <1>6, <1>7, <1>8, <1>9, <1>10 DEF RouteNext

(* The inductive invariant of a route holds in every state.                *)
THEOREM RouteInvariant == RouteSpec => []RouteInv
<1>1. RouteInit => RouteInv
  <2> SUFFICES ASSUME RouteInit PROVE RouteInv
    OBVIOUS
  <2>1. NewRequest \in RequestType /\ NewRequest.pc = "new"
    BY RouteAssumption DEF NewRequest, RequestType, NoTimer, Answers
  <2>2. RouteTypeOK
    <3>1. http \in [HttpReqs -> RequestType]
      BY <2>1 DEF RouteInit
    <3>2. route \in [inFlight : Nat, cooldown : Nat, next : Nat, waiters : SUBSET HttpReqs]
      BY DEF RouteInit
    <3>3. now \in 0..MaxTime
      BY RouteAssumption DEF RouteInit
    <3> QED BY <3>1, <3>2, <3>3 DEF RouteInit, RouteTypeOK
  <2>3. Sending = {}
    BY <2>1 DEF RouteInit, Sending
  <2>4. RouteQuota
    BY <2>3, FS_EmptySet, RouteAssumption DEF RouteInit, RouteQuota, Sending
  <2> QED BY <2>2, <2>4 DEF RouteInv
<1> QED BY <1>1, RouteStep, PTL DEF RouteSpec

(* For any number of requests, any limit, interval, timeout and retries,   *)
(* the slots of a route are those of the attempts under way and never more *)
(* than its limit.                                                         *)
THEOREM QuotaKept == RouteSpec => []RouteQuota
<1>1. RouteInv => RouteQuota
  BY DEF RouteInv
<1> QED BY <1>1, RouteInvariant, PTL

-----------------------------------------------------------------------------
(* The inductive invariant of the cache warmer.                            *)

(* The refresh in flight is the one the driver waits for, and it is for    *)
(* the present generation of an open warmer or cancelled.                  *)
FlightInv ==
  /\ warmer.flight.on <=> driver.at = "sent"
  /\ warmer.flight.on =>
       \/ warmer.flight.gen = warmer.gen /\ ~warmer.closed
       \/ warmer.flight.cancelled
  /\ warmer.closed <=> run # "work"

(* Usage that was reported has been attributed or waits to be.             *)
AccountInv == counts.reported = counts.attributed + warmer.records

(* A settling run that is not being polled will be: its task was woken, or *)
(* the end of the refresh in flight wakes it.                              *)
WakeInv ==
  /\ run = "ended" => ~warmer.flight.on /\ warmer.records = 0 /\ polling = "none"
  /\ run = "settling" /\ polling # "run" => awake \/ (warmer.flight.on /\ idle)

WarmInv == WarmTypeOK /\ FlightInv /\ AccountInv /\ WakeInv

(* clear keeps the shape and what is recorded, closes nothing, and leaves  *)
(* a refresh in flight cancelled.                                          *)
LEMMA ClearKeeps ==
  ASSUME NEW w \in WarmerType
  PROVE  /\ Clear(w) \in WarmerType
         /\ Clear(w).records = w.records /\ Clear(w).closed = w.closed
         /\ Clear(w).flight.on = w.flight.on
         /\ w.flight.on => Clear(w).flight.cancelled
<1>1. w.flight \in FlightType /\ w.gen + 1 \in Nat
  BY DEF WarmerType
<1>2. [w.flight EXCEPT !.cancelled = w.flight.on] \in FlightType
  BY <1>1 DEF FlightType
<1>3. Clear(w) = [w EXCEPT !.gen = w.gen + 1, !.plan = FALSE,
                           !.flight = [w.flight EXCEPT !.cancelled = w.flight.on]]
  BY DEF Clear, WarmerType
<1>4. Clear(w) \in WarmerType
  BY <1>1, <1>2, <1>3 DEF WarmerType
<1>5. /\ Clear(w).records = w.records /\ Clear(w).closed = w.closed
      /\ Clear(w).flight = [w.flight EXCEPT !.cancelled = w.flight.on]
  BY <1>3 DEF WarmerType
<1> QED BY <1>1, <1>4, <1>5 DEF FlightType

LEMMA WarmStep == WarmInv /\ [WarmNext]_warmVars => WarmInv'
<1> SUFFICES ASSUME WarmInv, [WarmNext]_warmVars PROVE WarmInv'
  OBVIOUS
<1>t. WarmTypeOK /\ FlightInv /\ AccountInv /\ WakeInv
  BY DEF WarmInv
<1>w. warmer \in WarmerType /\ warmer.flight \in FlightType /\ counts \in CountType
  BY <1>t DEF WarmTypeOK, WarmerType
<1>n. /\ warmer.gen \in Nat /\ warmer.records \in Nat
      /\ counts.requests \in Nat /\ counts.sent \in Nat
      /\ counts.reported \in Nat /\ counts.attributed \in Nat
  BY <1>w DEF WarmerType, CountType
<1>d. driver \in [at : {"look", "sleep", "sent", "done"}, gen : Nat]
  BY <1>t DEF WarmTypeOK
<1>0. CASE UNCHANGED warmVars
  BY <1>0, <1>t DEF warmVars, WarmInv, WarmTypeOK, FlightInv, AccountInv, WakeInv
<1>1. CASE PollTask
  BY <1>1, <1>t DEF PollTask, WarmInv, WarmTypeOK, FlightInv, AccountInv, WakeInv
<1>2. CASE RunPends
  BY <1>2, <1>t DEF RunPends, RunPolled, WarmInv, WarmTypeOK, FlightInv, AccountInv, WakeInv
<1>a. ASSUME Attributed
      PROVE  /\ warmer' \in WarmerType /\ counts' \in CountType
             /\ warmer'.flight = warmer.flight /\ warmer'.gen = warmer.gen
             /\ warmer'.closed = warmer.closed /\ warmer'.records = 0
             /\ counts'.reported = counts'.attributed + warmer'.records
  <2>1. counts.attributed + warmer.records \in Nat
    BY <1>n
  <2>2. warmer' = [warmer EXCEPT !.records = 0]
        /\ counts' = [counts EXCEPT !.attributed = counts.attributed + warmer.records]
    BY <1>a DEF Attributed
  <2>3. /\ warmer' \in WarmerType /\ warmer'.flight = warmer.flight /\ warmer'.gen = warmer.gen
        /\ warmer'.closed = warmer.closed /\ warmer'.records = 0
    BY <1>w, <2>2 DEF WarmerType
  <2>4. /\ counts' \in CountType /\ counts'.reported = counts.reported
        /\ counts'.attributed = counts.attributed + warmer.records
    BY <1>w, <2>1, <2>2 DEF CountType
  <2>5. counts'.reported = counts'.attributed + warmer'.records
    BY <1>t, <1>n, <2>1, <2>3, <2>4 DEF AccountInv
  <2> QED BY <2>3, <2>4, <2>5
<1>3. CASE FlushRecords
  <2>1. Attributed /\ run = "work" /\ polling = "run" /\ UNCHANGED <<polling, driver, timer, reply, idle, run, awake>>
    BY <1>3 DEF FlushRecords, RunPolled
  <2> QED BY <2>1, <1>a, <1>t DEF WarmInv, WarmTypeOK, FlightInv, AccountInv, WakeInv
(* Two facts on what a step does to the warmer: it is cleared, or its plan *)
(* is replaced.                                                            *)
<1>c. ASSUME NEW w \in WarmerType, NEW x \in Scheduled(w)
      PROVE  /\ x \in WarmerType /\ x.records = w.records /\ x.closed = w.closed
             /\ x.flight.on = w.flight.on
             /\ w.flight.on /\ w.flight.cancelled => x.flight.cancelled
  <2>1. CASE x = Clear(w)
    BY <2>1, ClearKeeps
  <2>2. CASE x = [w EXCEPT !.plan = TRUE]
    BY <2>2 DEF WarmerType
  <2> QED BY <2>1, <2>2 DEF Scheduled
<1>4. CASE StartRequest
  <2>1. /\ run = "work" /\ polling = "run" /\ UNCHANGED <<polling, driver, timer, reply, idle, run, awake>>
        /\ counts' = [counts EXCEPT !.requests = counts.requests + 1]
        /\ warmer' = Clear(warmer) \/ warmer' \in Scheduled(Clear(warmer))
    BY <1>4 DEF StartRequest, RunPolled
  <2>2. counts.requests + 1 \in Nat
    BY <1>n
  <2>3. counts' \in CountType /\ counts'.reported = counts.reported
        /\ counts'.attributed = counts.attributed
    BY <1>w, <2>1, <2>2 DEF CountType
  <2>4. /\ warmer' \in WarmerType /\ warmer'.records = warmer.records
        /\ warmer'.closed = warmer.closed /\ warmer'.flight.on = warmer.flight.on
        /\ warmer.flight.on => warmer'.flight.cancelled
    <3>1. CASE warmer' = Clear(warmer)
      BY <3>1, <1>w, ClearKeeps
    <3>2. CASE warmer' \in Scheduled(Clear(warmer))
      <4>1. /\ Clear(warmer) \in WarmerType
            /\ Clear(warmer).records = warmer.records /\ Clear(warmer).closed = warmer.closed
            /\ Clear(warmer).flight.on = warmer.flight.on
            /\ warmer.flight.on => Clear(warmer).flight.cancelled
        BY <1>w, ClearKeeps
      <4> QED BY <3>2, <4>1, <1>c
    <3> QED BY <2>1, <3>1, <3>2
  <2> QED BY <2>1, <2>3, <2>4, <1>t DEF WarmInv, WarmTypeOK, FlightInv, AccountInv, WakeInv
<1>5. CASE Settle
  <2>1. /\ run = "work" /\ polling = "run" /\ UNCHANGED <<polling, driver, timer, reply, idle, awake, counts>>
        /\ run' = "settling" /\ warmer' = [Clear(warmer) EXCEPT !.closed = TRUE]
    BY <1>5 DEF Settle, RunPolled
  <2>2. /\ warmer' \in WarmerType /\ warmer'.records = Clear(warmer).records
        /\ warmer'.closed = TRUE /\ warmer'.flight = Clear(warmer).flight
    BY <2>1, <1>w, ClearKeeps DEF WarmerType
  <2>3. /\ warmer'.records = warmer.records /\ warmer'.flight.on = warmer.flight.on
        /\ warmer.flight.on => warmer'.flight.cancelled
    BY <2>2, <1>w, ClearKeeps
  <2> QED BY <2>1, <2>2, <2>3, <1>t DEF WarmInv, WarmTypeOK, FlightInv, AccountInv, WakeInv
<1>6. CASE SettlePends
  BY <1>6, <1>t DEF SettlePends, RunPolled, WarmInv, WarmTypeOK, FlightInv, AccountInv, WakeInv
<1>7. CASE SettleReady
  <2>1. /\ Attributed /\ run = "settling" /\ ~warmer.flight.on /\ run' = "ended" /\ polling' = "none"
        /\ UNCHANGED <<driver, timer, reply, idle, awake>>
    BY <1>7 DEF SettleReady, RunPolled
  <2> QED BY <2>1, <1>a, <1>t DEF WarmInv, WarmTypeOK, FlightInv, AccountInv, WakeInv
<1>8. CASE LookPends \/ SleepPends \/ SentPends
  BY <1>8, <1>t DEF LookPends, SleepPends, SentPends, DriverPolled,
                    WarmInv, WarmTypeOK, FlightInv, AccountInv, WakeInv
(* The driver moves between its places outside a refresh.                  *)
<1>m. ASSUME NEW a \in {"look", "sleep", "done"}, NEW g \in Nat, driver' = [at |-> a, gen |-> g],
             driver.at # "sent", polling = "driver", polling' \in {"none", "driver"},
             UNCHANGED <<run, idle, awake, reply, counts>>, timer' \in BOOLEAN,
             warmer' \in {warmer, Clear(warmer)}
      PROVE  WarmInv'
  <2>1. /\ warmer' \in WarmerType /\ warmer'.records = warmer.records
        /\ warmer'.closed = warmer.closed /\ warmer'.flight.on = warmer.flight.on
    BY <1>m, <1>w, ClearKeeps
  <2>2. ~warmer.flight.on /\ driver'.at = a
        /\ driver' \in [at : {"look", "sleep", "sent", "done"}, gen : Nat]
    BY <1>m, <1>t DEF FlightInv
  <2> QED BY <1>m, <2>1, <2>2, <1>t DEF WarmInv, WarmTypeOK, FlightInv, AccountInv, WakeInv
<1>9. CASE LookEnds
  <2>1. driver' = [at |-> "done", gen |-> driver.gen] /\ driver.gen \in Nat
    BY <1>9, <1>d DEF LookEnds
  <2> QED BY <1>9, <2>1, <1>m, <1>t DEF LookEnds, DriverPolled, WarmTypeOK
<1>10. CASE LookPlans
  BY <1>10, <1>m, <1>n DEF LookPlans, DriverPolled
<1>11. CASE SleepSuperseded \/ RefreshDeclined
  <2>1. driver' = [at |-> "look", gen |-> driver.gen] /\ driver.gen \in Nat
    BY <1>11, <1>d DEF SleepSuperseded, RefreshDeclined
  <2> QED BY <1>11, <2>1, <1>m DEF SleepSuperseded, RefreshDeclined, DriverPolled
<1>12. CASE RefreshSent
  <2> DEFINE f == [on |-> TRUE, gen |-> warmer.gen, cancelled |-> FALSE]
  <2>1. /\ polling = "driver" /\ polling' = "driver" /\ UNCHANGED <<run, idle, awake>>
        /\ ~warmer.closed /\ counts' = [counts EXCEPT !.sent = counts.sent + 1]
        /\ warmer' = [warmer EXCEPT !.flight = f]
        /\ driver' = [driver EXCEPT !.at = "sent"] /\ timer' = FALSE /\ reply' = "none"
    BY <1>12 DEF RefreshSent, DriverPolled, Superseded
  <2>2. f \in FlightType /\ f.on = TRUE /\ f.gen = warmer.gen
    BY <1>n DEF FlightType
  <2> HIDE DEF f
  <2>3. /\ warmer' \in WarmerType /\ warmer'.records = warmer.records /\ warmer'.gen = warmer.gen
        /\ warmer'.closed = warmer.closed /\ warmer'.flight = f
    BY <2>1, <2>2, <1>w DEF WarmerType
  <2>4. counts.sent + 1 \in Nat
    BY <1>n
  <2>5. counts' \in CountType /\ counts'.reported = counts.reported
        /\ counts'.attributed = counts.attributed
    BY <1>w, <2>1, <2>4 DEF CountType
  <2>6. driver'.at = "sent" /\ driver' \in [at : {"look", "sleep", "sent", "done"}, gen : Nat]
    BY <2>1, <1>d
  <2> QED BY <2>1, <2>2, <2>3, <2>5, <2>6, <1>t
            DEF WarmInv, WarmTypeOK, FlightInv, AccountInv, WakeInv
<1>13. CASE RefreshEnds
  <2> DEFINE n == IF reply = "usage" THEN 1 ELSE 0
             w == [warmer EXCEPT !.flight = NoFlight, !.records = warmer.records + n]
  <2>1. /\ polling = "driver" /\ driver.at = "sent" /\ UNCHANGED <<run, polling, timer>>
        /\ warmer' \in (IF Superseded THEN {w} ELSE Scheduled(w))
        /\ counts' = [counts EXCEPT !.reported = counts.reported + n]
        /\ awake' = (awake \/ idle) /\ idle' = FALSE
        /\ driver' = [driver EXCEPT !.at = "look"] /\ reply' = "none"
    BY <1>13 DEF RefreshEnds
  <2>2. n \in Nat
    OBVIOUS
  <2> HIDE DEF n
  <2>3. NoFlight \in FlightType /\ NoFlight.on = FALSE
    BY DEF NoFlight, FlightType
  <2>4. warmer.records + n \in Nat /\ counts.reported + n \in Nat
    BY <1>n, <2>2
  <2>5. /\ w \in WarmerType /\ w.records = warmer.records + n
        /\ w.closed = warmer.closed /\ w.flight = NoFlight
    BY <2>3, <2>4, <1>w DEF WarmerType
  <2> HIDE DEF w
  <2>6. /\ warmer' \in WarmerType /\ warmer'.records = warmer.records + n
        /\ warmer'.closed = warmer.closed /\ warmer'.flight.on = FALSE
    BY <2>1, <2>3, <2>5, <1>c
  <2>7. counts' \in CountType /\ counts'.reported = counts.reported + n
        /\ counts'.attributed = counts.attributed
    BY <1>w, <2>1, <2>4 DEF CountType
  <2>8. driver'.at = "look" /\ driver' \in [at : {"look", "sleep", "sent", "done"}, gen : Nat]
    BY <2>1, <1>d
  <2>9. AccountInv'
    BY <2>2, <2>6, <2>7, <1>n, <1>t DEF AccountInv
  <2>10. WarmTypeOK'
    BY <2>1, <2>6, <2>7, <2>8, <1>t DEF WarmTypeOK
  <2>11. FlightInv'
    BY <2>1, <2>6, <2>8, <1>t DEF FlightInv
  <2>12. WakeInv'
    BY <2>1, <2>6, <1>t DEF WakeInv, FlightInv
  <2> QED BY <2>9, <2>10, <2>11, <2>12 DEF WarmInv
<1>14. CASE RunReady
  BY <1>14, <1>t DEF RunReady, WarmInv, WarmTypeOK, FlightInv, AccountInv, WakeInv
<1>15. CASE TimerFires
  BY <1>15, <1>t DEF TimerFires, WarmInv, WarmTypeOK, FlightInv, AccountInv, WakeInv
<1>16. ASSUME NEW usage \in BOOLEAN, ProviderEnds(usage) PROVE WarmInv'
  BY <1>16, <1>t DEF ProviderEnds, WarmInv, WarmTypeOK, FlightInv, AccountInv, WakeInv
<1> QED BY <1>0, <1>1, <1>2, <1>3, <1>4, <1>5, <1>6, <1>7, <1>8, <1>9, <1>10, <1>11, <1>12,
           <1>13, <1>14, <1>15, <1>16 DEF WarmNext

(* The inductive invariant of the cache warmer holds in every state.       *)
THEOREM WarmInvariant == WarmSpec => []WarmInv
<1>1. WarmInit => WarmInv
  <2> SUFFICES ASSUME WarmInit PROVE WarmInv
    OBVIOUS
  <2>1. NoFlight \in FlightType /\ NoFlight.on = FALSE
    BY DEF NoFlight, FlightType
  <2>2. warmer \in WarmerType /\ warmer.flight = NoFlight /\ warmer.closed = FALSE
        /\ warmer.records = 0
    BY <2>1 DEF WarmInit, WarmerType
  <2>3. counts \in CountType /\ counts.reported = 0 /\ counts.attributed = 0
    BY DEF WarmInit, CountType
  <2>4. driver \in [at : {"look", "sleep", "sent", "done"}, gen : Nat] /\ driver.at = "look"
    BY DEF WarmInit
  <2>5. WarmTypeOK
    BY <2>2, <2>3, <2>4 DEF WarmInit, WarmTypeOK
  <2>6. AccountInv
    BY <2>2, <2>3 DEF AccountInv
  <2>7. FlightInv /\ WakeInv
    BY <2>1, <2>2, <2>4 DEF WarmInit, FlightInv, WakeInv
  <2> QED BY <2>5, <2>6, <2>7 DEF WarmInv
<1> QED BY <1>1, WarmStep, PTL DEF WarmSpec

(* For any number of requests and refreshes: a superseded or closed        *)
(* refresh is cancelled, a settling run is woken again, and a run that     *)
(* ended left no refresh in flight and no reported usage unattributed.     *)
THEOREM RefreshSubordinate == WarmSpec => []MaintenanceSubordinate
<1>1. WarmInv => MaintenanceSubordinate
  <2> SUFFICES ASSUME WarmInv PROVE MaintenanceSubordinate
    OBVIOUS
  <2>1. counts.attributed \in Nat
    BY DEF WarmInv, WarmTypeOK, CountType
  <2> QED BY <2>1 DEF WarmInv, WarmTypeOK, FlightInv, AccountInv, WakeInv, MaintenanceSubordinate
<1> QED BY <1>1, WarmInvariant, PTL
-----------------------------------------------------------------------------
(* The inductive invariant of the event hub and its subscription.          *)

(* Where a run is tells what the hub has seen of it.                       *)
SeenInv == \A r \in HubRuns :
  /\ runs[r].at = "new" => runs[r].seq = 0 /\ runs[r].done = {}
  /\ runs[r].at # "live" => hub.seen[r] = 0
  /\ runs[r].at = "live" => hub.seen[r] # 0 /\ hub.seen[r] <= runs[r].seq

(* A preview of a subject that is done is older than what the hub has      *)
(* seen of its run.                                                        *)
DelayInv == \A e \in delayed :
  /\ e.kind = "preview" /\ e.from \in HubRuns /\ e.subject \in HubSubjects
  /\ runs[e.from].at # "new" /\ e.seq \in 1..runs[e.from].seq
  /\ runs[e.from].at = "live" /\ e.subject \in runs[e.from].done => e.seq <= hub.seen[e.from]

Ends(q, x) == (q.kind = "end" /\ q.from = x[1]) \/ (q.kind = "done" /\ Identity(q) = x)

(* Told to the consumer as settled, and done, with the queue q between:    *)
(* what an event of q ends is done, and a queued preview is before the end *)
(* of its subject.                                                         *)
Lines(q, told, done) ==
  /\ told \subseteq done
  /\ \A i \in 1..Len(q) :
       /\ q[i].kind # "session" => q[i].from \in HubRuns
       /\ q[i].kind \in {"preview", "done"} => q[i].subject \in HubSubjects
       /\ \A x \in Identities : Ends(q[i], x) => x \in done
       /\ q[i].kind = "preview" =>
            /\ Identity(q[i]) \notin told
            /\ \A j \in 1..(i - 1) : ~Ends(q[j], Identity(q[i]))

LineInv ==
  /\ \A x \in SeqSet(hub.live) : x \notin Settled
  /\ view.shown \cap view.settled = {}
  /\ Lines(sub.events, view.settled, Settled)

NoticeInv ==
  /\ NoLostNotice
  /\ ~sub.on => sub = NoSub
  /\ sub.lagged => sub.events = <<>>

(* Of the facts up to top, the ones after the snapshot are each in one     *)
(* place: with their writer (in U), in the queue q, or delivered (in f).   *)
IsFact(e) == e.kind = "session"
Placed(q, f, U, snap, top) ==
  /\ \A i \in 1..Len(q) : IsFact(q[i]) =>
       /\ q[i].seq \in 1..top /\ q[i].seq \notin U
       /\ \A j \in 1..Len(q) : IsFact(q[j]) /\ q[j].seq = q[i].seq => i = j
       /\ \A k \in 1..Len(f) : f[k] # q[i].seq
  /\ \A k \in 1..Len(f) :
       /\ f[k] > snap /\ f[k] <= top /\ f[k] \notin U
       /\ \A j \in 1..Len(f) : f[j] = f[k] => j = k
  /\ \A n \in (snap + 1)..top :
       \/ n \in U
       \/ \E i \in 1..Len(q) : IsFact(q[i]) /\ q[i].seq = n
       \/ \E k \in 1..Len(f) : f[k] = n

Unpublished == {unpub[l] : l \in HubLanes} \ {0}

FactInv ==
  /\ \A l \in HubLanes : unpub[l] <= commits
  /\ \A l, m \in HubLanes : unpub[l] = unpub[m] /\ unpub[l] # 0 => l = m
  /\ sub.snap <= commits
  /\ sub.on /\ ~sub.lagged => Placed(sub.events, view.facts, Unpublished, sub.snap, commits)

HubInv == HubTypeOK /\ SeenInv /\ DelayInv /\ LineInv /\ NoticeInv /\ FactInv

(* The least natural number with a property.                               *)
LEMMA Least ==
  ASSUME NEW N \in SUBSET Nat, N # {}
  PROVE  \E n \in N : \A m \in N : n <= m
<1>1. \E x \in N : \A y \in N : ~(<<y, x>> \in OpToRel(<, Nat))
  BY WFMin, NatLessThanWellFounded
<1>2. PICK x \in N : \A y \in N : ~(<<y, x>> \in OpToRel(<, Nat))
  BY <1>1
<1>3. \A y \in N : ~(y < x)
  BY <1>2 DEF OpToRel
<1> QED BY <1>3

Scan(s, S, n, f) ==
  f = [i \in 0..n |-> IF i = 0 THEN <<>> ELSE IF s[i] \in S THEN Append(f[i - 1], s[i]) ELSE f[i - 1]]

(* A scan of the first n entries exists: the recursive function of         *)
(* Filtered.                                                               *)
LEMMA ScanExists ==
  ASSUME NEW s, NEW S, NEW n \in Nat
  PROVE  \E f : Scan(s, S, n, f)
<1> DEFINE N == {k \in Nat : ~\E f : Scan(s, S, k, f)}
<1> SUFFICES ASSUME N # {} PROVE FALSE
  OBVIOUS
<1>1. PICK k \in N : \A m \in N : k <= m
  BY Least
<1>2. CASE k = 0
  <2> DEFINE f == [i \in 0..0 |-> <<>>]
  <2>1. Scan(s, S, 0, f)
    BY DEF Scan
  <2> QED BY <1>2, <2>1
<1>3. CASE k # 0
  <2>1. k - 1 \in Nat /\ k - 1 \notin N
    BY <1>1, <1>3
  <2>2. PICK f : Scan(s, S, k - 1, f)
    BY <2>1
  <2> DEFINE g == [i \in 0..k |-> IF i = k THEN IF s[k] \in S THEN Append(f[k - 1], s[k]) ELSE f[k - 1] ELSE f[i]]
  <2>3. \A i \in 0..(k - 1) : f[i] = IF i = 0 THEN <<>> ELSE IF s[i] \in S THEN Append(f[i - 1], s[i]) ELSE f[i - 1]
    BY <2>2 DEF Scan
  <2>4. \A i \in 0..(k - 1) : i \in 0..k /\ i # k
    BY <2>1
  <2>5. \A i \in 0..(k - 1) : g[i] = f[i]
    BY <2>4
  <2>6. \A i \in 0..k : g[i] = IF i = 0 THEN <<>> ELSE IF s[i] \in S THEN Append(g[i - 1], s[i]) ELSE g[i - 1]
    <3> TAKE i \in 0..k
    <3>1. CASE i = k
      <4>1. k - 1 \in 0..(k - 1) /\ i # 0
        BY <2>1, <3>1, <1>3
      <4> QED BY <3>1, <4>1, <2>5
    <3>2. CASE i # k
      <4>1. i \in 0..(k - 1) /\ (i # 0 => i - 1 \in 0..(k - 1))
        BY <3>2, <2>1
      <4> HIDE DEF g
      <4> QED BY <4>1, <2>3, <2>5
    <3> QED BY <3>1, <3>2
  <2>7. Scan(s, S, k, g)
    BY <2>6 DEF Scan
  <2> QED BY <2>7
<1> QED BY <1>2, <1>3

(* Filtered is the last value of such a scan.                              *)
LEMMA FilteredBy ==
  ASSUME NEW s, NEW S, Len(s) \in Nat
  PROVE  \E f : Scan(s, S, Len(s), f) /\ Filtered(s, S) = f[Len(s)]
<1>1. \E f : Scan(s, S, Len(s), f)
  BY ScanExists
<1> DEFINE c == CHOOSE f : Scan(s, S, Len(s), f)
<1>2. Scan(s, S, Len(s), c)
  BY <1>1
<1>3. Filtered(s, S) = c[Len(s)]
  BY DEF Filtered, Scan
<1> HIDE DEF c
<1> QED BY <1>2, <1>3

(* What a scan has kept of the first n entries: h says where each came from. *)
Kept(s, S, n, t, h) ==
  /\ Len(t) <= n /\ h \in [1..Len(t) -> 1..n]
  /\ \A i, j \in 1..Len(t) : i < j => h[i] < h[j]
  /\ \A i \in 1..Len(t) : t[i] = s[h[i]] /\ t[i] \in S
  /\ \A k \in 1..n : s[k] \in S => \E i \in 1..Len(t) : h[i] = k

(* Filtered keeps the entries that are in S, each once and in their order. *)
LEMMA FilteredIs ==
  ASSUME NEW T, NEW s \in Seq(T), NEW S
  PROVE  Filtered(s, S) \in Seq(T) /\ \E h : Kept(s, S, Len(s), Filtered(s, S), h)
<1> DEFINE n == Len(s)
<1>0. n \in Nat
  OBVIOUS
<1>1. PICK f : Scan(s, S, n, f) /\ Filtered(s, S) = f[n]
  BY <1>0, FilteredBy
<1> DEFINE N == {k \in 0..n : ~(f[k] \in Seq(T) /\ \E h : Kept(s, S, k, f[k], h))}
<1> SUFFICES ASSUME N # {} PROVE FALSE
  BY <1>0, <1>1
<1>2. N \subseteq Nat
  BY <1>0
<1>3. PICK k \in N : \A m \in N : k <= m
  BY <1>2, Least
<1>4. k \in 0..n /\ \A i \in 0..n : f[i] = IF i = 0 THEN <<>> ELSE IF s[i] \in S THEN Append(f[i - 1], s[i]) ELSE f[i - 1]
  BY <1>1 DEF Scan
<1>5. CASE k = 0
  <2>1. f[0] = <<>> /\ Len(<<>>) = 0 /\ 1..0 = {}
    BY <1>0, <1>4
  <2>2. Kept(s, S, 0, <<>>, [i \in {} |-> 0])
    BY <2>1 DEF Kept
  <2>3. f[0] \in Seq(T)
    BY <2>1
  <2> QED BY <1>5, <2>1, <2>2, <2>3
<1>6. CASE k # 0
  <2>1. k - 1 \in 0..n /\ k \in Nat /\ k - 1 \in Nat /\ k - 1 < k /\ s[k] \in T
    BY <1>0, <1>4, <1>6
  <2>2. k - 1 \notin N
    <3>1. ASSUME k - 1 \in N PROVE FALSE
      <4>1. k <= k - 1
        BY <1>3, <3>1
      <4> QED BY <2>1, <4>1
    <3> QED BY <3>1
  <2>3. f[k - 1] \in Seq(T) /\ \E h : Kept(s, S, k - 1, f[k - 1], h)
    BY <2>1, <2>2
  <2>t. PICK t \in Seq(T) : t = f[k - 1]
    BY <2>3
  <2>4. PICK h : t = f[k - 1] /\ Kept(s, S, k - 1, t, h)
    BY <2>3, <2>t
  <2>k. 1..k = (1..(k - 1)) \cup {k} /\ \A i \in 1..(k - 1) : i < k /\ i \in 1..k
    BY <2>1
  <2>5. CASE s[k] \notin S
    <3>1. f[k] = t
      BY <1>4, <1>6, <2>4, <2>5
    <3>2. Kept(s, S, k, t, h)
      <4>1. Len(t) <= k /\ h \in [1..Len(t) -> 1..k]
        BY <2>1, <2>4, <2>k DEF Kept
      <4> QED BY <2>4, <2>5, <2>k, <4>1 DEF Kept
    <3> QED BY <3>1, <3>2
  <2>6. CASE s[k] \in S
    <3> DEFINE u == Append(t, s[k])
               g == [i \in 1..(Len(t) + 1) |-> IF i = Len(t) + 1 THEN k ELSE h[i]]
    <3>1. f[k] = u
      BY <1>4, <1>6, <2>4, <2>6
    <3>2. /\ u \in Seq(T) /\ Len(u) = Len(t) + 1 /\ u[Len(t) + 1] = s[k] /\ Len(t) \in Nat
          /\ \A i \in 1..Len(t) : u[i] = t[i]
      BY <2>1, <2>4, AppendProperties
    <3>3. 1..Len(u) = (1..Len(t)) \cup {Len(t) + 1} /\ \A i \in 1..Len(t) : i # Len(t) + 1 /\ i < Len(t) + 1 /\ ~(Len(t) + 1 < i)
      BY <3>2
    <3>4. /\ DOMAIN g = 1..Len(u) /\ g[Len(t) + 1] = k /\ \A i \in 1..Len(t) : g[i] = h[i]
      BY <3>2, <3>3
    <3>5. g \in [1..Len(u) -> 1..k] /\ Len(u) <= k
      <4>1. \A i \in 1..Len(u) : g[i] \in 1..k
        BY <2>4, <2>k, <3>3, <3>4 DEF Kept
      <4>2. Len(u) <= k
        BY <2>1, <2>4, <3>2 DEF Kept
      <4> QED BY <3>2, <4>1, <4>2
    <3> HIDE DEF u, g
    <3>6. \A i, j \in 1..Len(u) : i < j => g[i] < g[j]
      <4> TAKE i, j \in 1..Len(u)
      <4>1. CASE j = Len(t) + 1
        <5>1. i < j => i \in 1..Len(t) /\ h[i] \in 1..(k - 1)
          BY <2>4, <3>2, <3>3, <4>1 DEF Kept
        <5> QED BY <2>k, <3>4, <4>1, <5>1
      <4>2. CASE j \in 1..Len(t)
        <5>1. i < j => i \in 1..Len(t)
          BY <3>3, <4>2
        <5> QED BY <2>4, <3>4, <4>2, <5>1 DEF Kept
      <4> QED BY <3>3, <4>1, <4>2
    <3>7. \A i \in 1..Len(u) : u[i] = s[g[i]] /\ u[i] \in S
      BY <2>4, <2>6, <3>2, <3>3, <3>4 DEF Kept
    <3>8. \A m \in 1..k : s[m] \in S => \E i \in 1..Len(u) : g[i] = m
      BY <2>4, <2>k, <3>3, <3>4 DEF Kept
    <3>9. Kept(s, S, k, u, g)
      BY <3>5, <3>6, <3>7, <3>8 DEF Kept
    <3> QED BY <3>1, <3>2, <3>9
  <2> QED BY <2>5, <2>6
<1> QED BY <1>5, <1>6

(* The queues.                                                             *)
LEMMA SeqSetIs ==
  ASSUME NEW T, NEW s \in Seq(T)
  PROVE  SeqSet(s) \subseteq T /\ \A i \in 1..Len(s) : s[i] \in SeqSet(s)
  BY DEF SeqSet

(* Filtered adds nothing to a queue.                                       *)
LEMMA FilteredSet ==
  ASSUME NEW T, NEW s \in Seq(T), NEW S
  PROVE  /\ Filtered(s, S) \in Seq(T) /\ Len(Filtered(s, S)) <= Len(s)
         /\ \A x \in SeqSet(Filtered(s, S)) : x \in SeqSet(s) /\ x \in S
<1>t. PICK t \in Seq(T) : t = Filtered(s, S)
  BY FilteredIs
<1>1. PICK h : t = Filtered(s, S) /\ Kept(s, S, Len(s), t, h)
  BY <1>t, FilteredIs
<1>2. \A i \in 1..Len(t) : t[i] \in S /\ t[i] \in SeqSet(s)
  BY <1>1 DEF Kept, SeqSet
<1>3. Len(t) <= Len(s)
  BY <1>1 DEF Kept
<1>4. \A x \in SeqSet(t) : x \in SeqSet(s) /\ x \in S
  BY <1>2 DEF SeqSet
<1> QED BY <1>1, <1>3, <1>4

(* A fence or preview queue stays bounded and gains only the new entry.    *)
LEMMA PushBoundedIs ==
  ASSUME NEW T, NEW s \in Seq(T), NEW x \in T, Len(s) <= HubFences
  PROVE  /\ PushBounded(s, x) \in Seq(T) /\ Len(PushBounded(s, x)) <= HubFences
         /\ \A y \in SeqSet(PushBounded(s, x)) : y \in SeqSet(s) \/ y = x
<1>1. PICK t \in Seq(T) : /\ t = Without(s, x) /\ Len(t) <= Len(s)
                          /\ \A y \in SeqSet(t) : y \in SeqSet(s)
  BY FilteredSet DEF Without
<1> DEFINE u == IF Len(t) = HubFences THEN Tail(t) ELSE t
<1>2. PushBounded(s, x) = Append(u, x)
  BY <1>1 DEF PushBounded
<1>3. /\ u \in Seq(T) /\ Len(u) < HubFences /\ Len(u) \in Nat
      /\ \A i \in 1..Len(u) : u[i] \in SeqSet(t)
  <2>1. CASE Len(t) = HubFences
    <3>1. Len(t) # 0 /\ t # <<>>
      BY <2>1, EventHubAssumption
    <3>2. Tail(t) \in Seq(T) /\ Len(Tail(t)) = Len(t) - 1 /\ \A i \in 1..Len(Tail(t)) : Tail(t)[i] = t[i + 1]
      BY <3>1, HeadTailProperties
    <3>3. \A i \in 1..Len(Tail(t)) : i + 1 \in 1..Len(t)
      BY <3>2
    <3> QED BY <2>1, <3>2, <3>3, SeqSetIs, EventHubAssumption
  <2>2. CASE Len(t) # HubFences
    BY <1>1, <2>2, SeqSetIs, EventHubAssumption
  <2> QED BY <2>1, <2>2
<1> HIDE DEF u
<1>4. /\ Append(u, x) \in Seq(T) /\ Len(Append(u, x)) = Len(u) + 1 /\ Append(u, x)[Len(u) + 1] = x
      /\ \A i \in 1..Len(u) : Append(u, x)[i] = u[i]
  BY <1>3, AppendProperties
<1>5. 1..(Len(u) + 1) = (1..Len(u)) \cup {Len(u) + 1}
  BY <1>3
<1>6. \A y \in SeqSet(Append(u, x)) : y \in SeqSet(t) \/ y = x
  BY <1>3, <1>4, <1>5 DEF SeqSet
<1>7. Len(u) + 1 <= HubFences
  BY <1>3, EventHubAssumption
<1> QED BY <1>1, <1>2, <1>4, <1>6, <1>7

WellFormed(e) ==
  /\ e \in HubEvents
  /\ e.kind # "session" => e.from \in HubRuns /\ e.seq \in 1..MaxHubSeq
  /\ e.kind \in {"preview", "done"} => e.subject \in HubSubjects

(* The hub after an event: what it has seen, and what it shows live.       *)
LEMMA HubAfterIs ==
  ASSUME HubTypeOK, NEW e, WellFormed(e), NEW b, b = HubAfter(e)
  PROVE  /\ b \in [seen : [HubRuns -> 0..MaxHubSeq], live : Seq(Identities), fenced : Seq(Identities)]
         /\ Len(b.live) <= HubFences /\ Len(b.fenced) <= HubFences
         /\ e.kind = "session" \/ ~SourceOrdered(e) => b = hub
         /\ e.kind # "session" /\ SourceOrdered(e) =>
              /\ b.seen = [hub.seen EXCEPT ![e.from] = IF e.kind = "end" THEN 0 ELSE e.seq]
              /\ \A x \in SeqSet(b.live) : \/ x \in SeqSet(hub.live) /\ ~Ends(e, x)
                                           \/ x = Identity(e) /\ e.kind = "preview" /\ Accepted(e)
<1>1. /\ hub.live \in Seq(Identities) /\ hub.fenced \in Seq(Identities) /\ hub.seen \in [HubRuns -> 0..MaxHubSeq]
      /\ Len(hub.live) <= HubFences /\ Len(hub.fenced) <= HubFences
      /\ hub \in [seen : [HubRuns -> 0..MaxHubSeq], live : Seq(Identities), fenced : Seq(Identities)]
      /\ hub = [seen |-> hub.seen, live |-> hub.live, fenced |-> hub.fenced]
      /\ HubFences \in Nat
  BY EventHubAssumption DEF HubTypeOK
<1>2. e \in HubEvents /\ e.kind \in {"session", "start", "preview", "done", "end"}
  BY DEF WellFormed, HubEvents
<1>3. CASE e.kind = "session" \/ ~SourceOrdered(e)
  <2>1. b = hub
    BY <1>3 DEF HubAfter
  <2> QED BY <1>1, <1>3, <2>1
<1>4. CASE e.kind = "start" /\ SourceOrdered(e)
  <2>1. b = [hub EXCEPT !.seen[e.from] = e.seq] /\ e.from \in HubRuns /\ e.seq \in 0..MaxHubSeq
    BY <1>4 DEF HubAfter, WellFormed
  <2>2. b = [seen |-> [hub.seen EXCEPT ![e.from] = e.seq], live |-> hub.live, fenced |-> hub.fenced]
    BY <1>1, <2>1
  <2>3. \A x \in SeqSet(hub.live) : ~Ends(e, x)
    BY <1>4 DEF Ends
  <2>4. /\ [hub.seen EXCEPT ![e.from] = e.seq] \in [HubRuns -> 0..MaxHubSeq]
        /\ b.seen = [hub.seen EXCEPT ![e.from] = e.seq] /\ b.live = hub.live /\ b.fenced = hub.fenced
    BY <1>1, <2>1, <2>2
  <2>5. b \in [seen : [HubRuns -> 0..MaxHubSeq], live : Seq(Identities), fenced : Seq(Identities)]
    BY <1>1, <2>2, <2>4
  <2>6. \A x \in SeqSet(b.live) : x \in SeqSet(hub.live) /\ ~Ends(e, x)
    BY <2>3, <2>4
  <2> QED BY <1>1, <1>4, <2>4, <2>5, <2>6
<1>5. CASE e.kind = "end" /\ SourceOrdered(e)
  <2>1. b = [seen |-> [hub.seen EXCEPT ![e.from] = 0],
             live |-> OfRun(hub.live, e.from), fenced |-> OfRun(hub.fenced, e.from)]
        /\ e.from \in HubRuns /\ 0 \in 0..MaxHubSeq
    BY <1>5, EventHubAssumption DEF HubAfter, WellFormed
  <2>2. /\ OfRun(hub.live, e.from) \in Seq(Identities) /\ Len(OfRun(hub.live, e.from)) <= Len(hub.live)
        /\ \A x \in SeqSet(OfRun(hub.live, e.from)) : x \in SeqSet(hub.live) /\ x[1] # e.from
        /\ OfRun(hub.fenced, e.from) \in Seq(Identities) /\ Len(OfRun(hub.fenced, e.from)) <= Len(hub.fenced)
    BY <1>1, FilteredSet DEF OfRun
  <2>3. \A x \in SeqSet(b.live) : x \in SeqSet(hub.live) /\ ~Ends(e, x)
    BY <1>5, <2>1, <2>2 DEF Ends
  <2>4. /\ Len(OfRun(hub.live, e.from)) <= HubFences /\ Len(OfRun(hub.fenced, e.from)) <= HubFences
    BY <1>1, <2>2
  <2> QED BY <1>1, <1>5, <2>1, <2>2, <2>3, <2>4
<1>6. CASE e.kind = "done" /\ SourceOrdered(e)
  <2>1. b = [seen |-> [hub.seen EXCEPT ![e.from] = e.seq],
             live |-> Without(hub.live, Identity(e)), fenced |-> PushBounded(hub.fenced, Identity(e))]
        /\ e.from \in HubRuns /\ e.seq \in 0..MaxHubSeq
    BY <1>6 DEF HubAfter, WellFormed
  <2>2. Identity(e) \in Identities
    BY <1>6 DEF WellFormed, Identity, Identities
  <2>3. /\ Without(hub.live, Identity(e)) \in Seq(Identities) /\ Len(Without(hub.live, Identity(e))) <= Len(hub.live)
        /\ \A x \in SeqSet(Without(hub.live, Identity(e))) : x \in SeqSet(hub.live) /\ x # Identity(e)
    BY <1>1, FilteredSet DEF Without
  <2>4. /\ PushBounded(hub.fenced, Identity(e)) \in Seq(Identities)
        /\ Len(PushBounded(hub.fenced, Identity(e))) <= HubFences
    BY <1>1, <2>2, PushBoundedIs
  <2>5. \A x \in SeqSet(b.live) : x \in SeqSet(hub.live) /\ ~Ends(e, x)
    BY <1>6, <2>1, <2>3 DEF Ends
  <2>6. Len(Without(hub.live, Identity(e))) <= HubFences
    BY <1>1, <2>3
  <2> QED BY <1>1, <1>6, <2>1, <2>3, <2>4, <2>5, <2>6
<1>7. CASE e.kind = "preview" /\ SourceOrdered(e)
  <2> DEFINE v == IF Accepted(e) THEN PushBounded(hub.live, Identity(e)) ELSE hub.live
  <2>1. b = [hub EXCEPT !.seen[e.from] = e.seq, !.live = v] /\ e.from \in HubRuns /\ e.seq \in 0..MaxHubSeq
    BY <1>7 DEF HubAfter, WellFormed
  <2>2. Identity(e) \in Identities
    BY <1>7 DEF WellFormed, Identity, Identities
  <2>3. /\ v \in Seq(Identities) /\ Len(v) <= HubFences
        /\ \A x \in SeqSet(v) : x \in SeqSet(hub.live) \/ (x = Identity(e) /\ Accepted(e))
    BY <1>1, <2>2, PushBoundedIs
  <2> HIDE DEF v
  <2>4. b = [seen |-> [hub.seen EXCEPT ![e.from] = e.seq], live |-> v, fenced |-> hub.fenced]
    BY <1>1, <2>1
  <2>5. \A x : ~Ends(e, x)
    BY <1>7 DEF Ends
  <2>6. /\ [hub.seen EXCEPT ![e.from] = e.seq] \in [HubRuns -> 0..MaxHubSeq]
        /\ b.seen = [hub.seen EXCEPT ![e.from] = e.seq] /\ b.live = v /\ b.fenced = hub.fenced
    BY <1>1, <2>1, <2>4
  <2>7. b \in [seen : [HubRuns -> 0..MaxHubSeq], live : Seq(Identities), fenced : Seq(Identities)]
    BY <1>1, <2>3, <2>4, <2>6
  <2>8. \A x \in SeqSet(b.live) : (x \in SeqSet(hub.live) /\ ~Ends(e, x)) \/ (x = Identity(e) /\ Accepted(e))
    BY <2>3, <2>5, <2>6
  <2> QED BY <1>1, <1>7, <2>3, <2>6, <2>7, <2>8
<1> QED BY <1>2, <1>3, <1>4, <1>5, <1>6, <1>7

(* What an event leaves of a queue q: h says where each entry of t came    *)
(* from, the last place being the event's.  Facts are never dropped.       *)
Alike(a, b) == a.kind = b.kind /\ a.from = b.from /\ a.seq = b.seq /\ a.subject = b.subject
Carried(q, e, t, h) ==
  /\ h \in [1..Len(t) -> 1..(Len(q) + 1)]
  /\ \A i, j \in 1..Len(t) : i < j => h[i] < h[j]
  /\ \A i \in 1..Len(t) : /\ h[i] = Len(q) + 1 => Alike(t[i], e)
                          /\ h[i] # Len(q) + 1 => t[i] = q[h[i]]
  /\ \A k \in 1..Len(q) : q[k].kind = "session" => \E i \in 1..Len(t) : h[i] = k
  /\ e.kind # "preview" => \E i \in 1..Len(t) : h[i] = Len(q) + 1

(* A queue from which previews are dropped is carried over.                *)
LEMMA FilterCarried ==
  ASSUME NEW q \in Seq(HubEvents), NEW e, e.kind = "preview", NEW S,
         \A k \in 1..Len(q) : q[k].kind = "session" => q[k] \in S
  PROVE  \E h : Carried(q, e, Filtered(q, S), h)
<1>t. PICK t \in Seq(HubEvents) : t = Filtered(q, S)
  BY FilteredIs
<1>1. PICK h : t = Filtered(q, S) /\ Kept(q, S, Len(q), t, h)
  BY <1>t, FilteredIs
<1>2. Len(q) \in Nat /\ \A i \in 1..Len(q) : i \in 1..(Len(q) + 1) /\ i # Len(q) + 1
  OBVIOUS
<1>3. Carried(q, e, t, h)
  BY <1>1, <1>2 DEF Carried, Kept
<1> QED BY <1>1, <1>3

(* So is one that then takes the event at its back.                        *)
LEMMA AppendCarried ==
  ASSUME NEW q \in Seq(HubEvents), NEW e, NEW d \in HubEvents, Alike(d, e), NEW S,
         \A k \in 1..Len(q) : q[k].kind = "session" => q[k] \in S
  PROVE  \E h : Carried(q, e, Append(Filtered(q, S), d), h)
<1>t. PICK t \in Seq(HubEvents) : t = Filtered(q, S)
  BY FilteredIs
<1>1. PICK h : t = Filtered(q, S) /\ Kept(q, S, Len(q), t, h)
  BY <1>t, FilteredIs
<1> DEFINE u == Append(t, d)
           g == [i \in 1..(Len(t) + 1) |-> IF i = Len(t) + 1 THEN Len(q) + 1 ELSE h[i]]
<1>2. /\ Len(u) = Len(t) + 1 /\ u[Len(t) + 1] = d /\ Len(t) \in Nat
      /\ \A i \in 1..Len(t) : u[i] = t[i]
  BY <1>1, AppendProperties
<1>3. 1..Len(u) = (1..Len(t)) \cup {Len(t) + 1} /\ \A i \in 1..Len(t) : i # Len(t) + 1 /\ ~(Len(t) + 1 < i)
  BY <1>2
<1>4. DOMAIN g = 1..Len(u) /\ g[Len(t) + 1] = Len(q) + 1 /\ \A i \in 1..Len(t) : g[i] = h[i]
  BY <1>2, <1>3
<1>5. \A i \in 1..Len(t) : h[i] \in 1..Len(q)
  BY <1>1 DEF Kept
<1>6. Len(q) \in Nat /\ \A i \in 1..Len(q) : i \in 1..(Len(q) + 1) /\ i # Len(q) + 1 /\ i < Len(q) + 1
  OBVIOUS
<1>7. g \in [1..Len(u) -> 1..(Len(q) + 1)]
  <2>1. \A i \in 1..Len(u) : g[i] \in 1..(Len(q) + 1)
    BY <1>3, <1>4, <1>5, <1>6
  <2> QED BY <1>2, <2>1
<1> HIDE DEF u, g
<1>8. \A i, j \in 1..Len(u) : i < j => g[i] < g[j]
  <2> TAKE i, j \in 1..Len(u)
  <2>1. CASE j = Len(t) + 1
    <3>1. i < j => i \in 1..Len(t)
      BY <1>2, <1>3, <2>1
    <3> QED BY <1>4, <1>5, <1>6, <2>1, <3>1
  <2>2. CASE j \in 1..Len(t)
    <3>1. i < j => i \in 1..Len(t)
      BY <1>3, <2>2
    <3> QED BY <1>1, <1>4, <2>2, <3>1 DEF Kept
  <2> QED BY <1>3, <2>1, <2>2
<1>9. \A i \in 1..Len(u) : /\ g[i] = Len(q) + 1 => Alike(u[i], e)
                           /\ g[i] # Len(q) + 1 => u[i] = q[g[i]]
  <2>1. \A i \in 1..Len(t) : g[i] # Len(q) + 1 /\ u[i] = q[g[i]]
    BY <1>1, <1>2, <1>4, <1>5, <1>6 DEF Kept
  <2> QED BY <1>2, <1>3, <1>4, <2>1
<1>10. \A k \in 1..Len(q) : q[k].kind = "session" => \E i \in 1..Len(u) : g[i] = k
  BY <1>1, <1>3, <1>4 DEF Kept
<1>11. Carried(q, e, u, g)
  BY <1>3, <1>4, <1>7, <1>8, <1>9, <1>10 DEF Carried
<1> QED BY <1>1, <1>11 DEF u

(* So is a queue that a preview leaves alone.                              *)
LEMMA AllCarried ==
  ASSUME NEW q \in Seq(HubEvents), NEW e, e.kind = "preview"
  PROVE  \E h : Carried(q, e, q, h)
<1> DEFINE h == [i \in 1..Len(q) |-> i]
<1>1. Len(q) \in Nat /\ \A i \in 1..Len(q) : i \in 1..(Len(q) + 1) /\ i # Len(q) + 1
  OBVIOUS
<1>2. Carried(q, e, q, h)
  BY <1>1 DEF Carried
<1> QED BY <1>2

SubType == [on : BOOLEAN, snap : 0..MaxHubCommits, events : Seq(HubEvents),
            fenced : Seq(Identities), completed : Seq(HubRuns),
            lagged : BOOLEAN, token : BOOLEAN, waiting : BOOLEAN]

(* What a subscriber makes of an event.                                    *)
SubOK(d) ==
  /\ d \in SubType /\ Len(d.fenced) <= HubFences /\ Len(d.completed) <= HubFences /\ Len(d.events) <= HubBuffer
  /\ d.waiting /\ (d.events # <<>> \/ d.lagged) => d.token
  /\ ~d.on => d = NoSub
  /\ d.lagged => d.events = <<>>
SubAfter(d, e) ==
  /\ SubOK(d)
  /\ d.on = sub.on /\ d.snap = sub.snap
  /\ ~sub.on \/ sub.lagged => d = sub
  /\ sub.on /\ ~d.lagged => ~sub.lagged /\ \E h : Carried(sub.events, e, d.events, h)

(* enqueue_preview keeps the subscriber well formed and drops no fact.     *)
LEMMA EnqueuePreviewIs ==
  ASSUME SubOK(sub), NEW e, WellFormed(e), e.kind = "preview", sub.on, ~sub.lagged, NEW d, d = EnqueuePreview(e)
  PROVE  SubAfter(d, e)
<1>0. /\ sub \in SubType /\ sub.events \in Seq(HubEvents) /\ Len(sub.events) <= HubBuffer /\ HubBuffer \in Nat
      /\ HubBuffer # 0 /\ e \in HubEvents
  BY EventHubAssumption DEF SubOK, SubType, WellFormed
<1>1. CASE d = sub
  BY <1>0, <1>1, AllCarried DEF SubAfter
<1> DEFINE same(q) == IsPreview(q) /\ Identity(q) = Identity(e)
           S == {q \in SeqSet(sub.events) : ~same(q)}
           rest == Filtered(sub.events, S)
           act == e.act \/ \E i \in 1..Len(sub.events) : same(sub.events[i]) /\ sub.events[i].act
           f == [e EXCEPT !.act = act]
<1>2. \A k \in 1..Len(sub.events) : sub.events[k].kind = "session" => sub.events[k] \in S
  BY <1>0, SeqSetIs DEF IsPreview
<1>3. /\ rest \in Seq(HubEvents) /\ Len(rest) <= Len(sub.events)
      /\ \A x \in SeqSet(rest) : x \in SeqSet(sub.events)
  BY <1>0, FilteredSet
<1>4. f \in HubEvents /\ Alike(f, e)
  <2>1. act \in BOOLEAN
    BY <1>0 DEF HubEvents
  <2> HIDE DEF act
  <2> QED BY <1>0, <2>1 DEF HubEvents, Alike
<1>5. \/ d = sub
      \/ Len(rest) = HubBuffer /\ d = [sub EXCEPT !.events = rest]
      \/ Len(rest) # HubBuffer /\ d = [sub EXCEPT !.events = Append(rest, f), !.token = TRUE]
  BY DEF EnqueuePreview
<1> HIDE DEF act, f, same, S
<1>6. CASE Len(rest) = HubBuffer /\ d = [sub EXCEPT !.events = rest]
  <2>1. \E h : Carried(sub.events, e, rest, h)
    BY <1>0, <1>2, FilterCarried
  <2>2. sub.events # <<>>
    BY <1>0, <1>3, <1>6
  <2> HIDE DEF rest
  <2>3. d \in SubType /\ d.events = rest /\ d.token = sub.token /\ d.waiting = sub.waiting /\ d.on = sub.on
        /\ d.snap = sub.snap /\ d.lagged = sub.lagged /\ d.fenced = sub.fenced /\ d.completed = sub.completed
    BY <1>0, <1>3, <1>6 DEF SubType
  <2>4. Len(rest) <= HubBuffer
    BY <1>0, <1>6
  <2> QED BY <2>1, <2>2, <2>3, <2>4 DEF SubAfter, SubOK
<1>7. CASE Len(rest) # HubBuffer /\ d = [sub EXCEPT !.events = Append(rest, f), !.token = TRUE]
  <2>1. \E h : Carried(sub.events, e, Append(rest, f), h)
    BY <1>0, <1>2, <1>4, AppendCarried
  <2> HIDE DEF rest
  <2>2. Append(rest, f) \in Seq(HubEvents) /\ Len(Append(rest, f)) <= HubBuffer
    BY <1>0, <1>3, <1>4, <1>7, AppendProperties
  <2>3. d \in SubType /\ d.events = Append(rest, f) /\ d.token = TRUE /\ d.waiting = sub.waiting /\ d.on = sub.on
        /\ d.snap = sub.snap /\ d.lagged = sub.lagged /\ d.fenced = sub.fenced /\ d.completed = sub.completed
    BY <1>0, <1>7, <2>2 DEF SubType
  <2> QED BY <2>1, <2>2, <2>3 DEF SubAfter, SubOK
<1> QED BY <1>1, <1>5, <1>6, <1>7

(* So does enqueue_semantic, unless it overflows, which it reports as a    *)
(* lag.                                                                    *)
LEMMA EnqueueSemanticIs ==
  ASSUME SubOK(sub), NEW e, WellFormed(e), e.kind # "preview", sub.on, ~sub.lagged, NEW d, d = EnqueueSemantic(e)
  PROVE  SubAfter(d, e)
<1>0. /\ sub \in SubType /\ sub.events \in Seq(HubEvents) /\ Len(sub.events) <= HubBuffer /\ HubBuffer \in Nat
      /\ HubBuffer # 0 /\ HubFences \in Nat /\ e \in HubEvents /\ Len(sub.fenced) <= HubFences
      /\ Len(sub.completed) <= HubFences /\ sub.fenced \in Seq(Identities) /\ sub.completed \in Seq(HubRuns)
  BY EventHubAssumption DEF SubOK, SubType, WellFormed
<1> DEFINE settles(q) == IsPreview(q) /\ \/ e.kind = "end" /\ q.from = e.from
                                         \/ e.kind = "done" /\ Identity(q) = Identity(e)
           S == {q \in SeqSet(sub.events) : settles(q) => q.act}
           kept == Filtered(sub.events, S)
           fenced == CASE e.kind = "end" -> OfRun(sub.fenced, e.from)
                       [] e.kind = "done" -> PushBounded(sub.fenced, Identity(e))
                       [] OTHER -> sub.fenced
           ended == IF e.kind = "end" THEN PushBounded(sub.completed, e.from) ELSE sub.completed
<1>2. \A k \in 1..Len(sub.events) : sub.events[k].kind = "session" => sub.events[k] \in S
  BY <1>0, SeqSetIs DEF IsPreview
<1>3. kept \in Seq(HubEvents) /\ Len(kept) <= Len(sub.events)
  BY <1>0, FilteredSet
<1>4. fenced \in Seq(Identities) /\ Len(fenced) <= HubFences
  <2>1. CASE e.kind = "end"
    <3>1. fenced = OfRun(sub.fenced, e.from)
      BY <2>1
    <3>2. OfRun(sub.fenced, e.from) \in Seq(Identities) /\ Len(OfRun(sub.fenced, e.from)) <= Len(sub.fenced)
      BY <1>0, FilteredSet DEF OfRun
    <3> QED BY <1>0, <3>1, <3>2
  <2>2. CASE e.kind = "done"
    <3>1. fenced = PushBounded(sub.fenced, Identity(e)) /\ Identity(e) \in Identities
      BY <2>2 DEF WellFormed, Identity, Identities
    <3> QED BY <1>0, <3>1, PushBoundedIs
  <2>3. CASE e.kind # "end" /\ e.kind # "done"
    BY <1>0, <2>3
  <2> QED BY <2>1, <2>2, <2>3
<1>5. ended \in Seq(HubRuns) /\ Len(ended) <= HubFences
  <2>1. CASE e.kind = "end"
    BY <1>0, <2>1, PushBoundedIs DEF WellFormed
  <2>2. CASE e.kind # "end"
    BY <1>0, <2>2
  <2> QED BY <2>1, <2>2
<1>6. \/ /\ Len(kept) = HubBuffer
         /\ d = [sub EXCEPT !.events = <<>>, !.fenced = <<>>, !.completed = <<>>, !.lagged = TRUE, !.token = TRUE]
      \/ /\ Len(kept) # HubBuffer
         /\ d = [sub EXCEPT !.events = Append(kept, e), !.fenced = fenced, !.completed = ended, !.token = TRUE]
  BY DEF EnqueueSemantic
<1> HIDE DEF S, fenced, ended
<1>7. CASE d = [sub EXCEPT !.events = <<>>, !.fenced = <<>>, !.completed = <<>>, !.lagged = TRUE, !.token = TRUE]
  <2>0. <<>> \in Seq(HubEvents) /\ <<>> \in Seq(Identities) /\ <<>> \in Seq(HubRuns)
    OBVIOUS
  <2>d. d = [on |-> sub.on, snap |-> sub.snap, events |-> <<>>, fenced |-> <<>>, completed |-> <<>>,
             lagged |-> TRUE, token |-> TRUE, waiting |-> sub.waiting]
    BY <1>0, <1>7 DEF SubType
  <2>1. d \in SubType /\ d.events = <<>> /\ d.token = TRUE /\ d.lagged = TRUE /\ d.on = sub.on /\ d.snap = sub.snap
        /\ d.fenced = <<>> /\ d.completed = <<>>
    BY <1>0, <2>0, <2>d DEF SubType
  <2>2. Len(<<>>) = 0 /\ 0 <= HubBuffer /\ 0 <= HubFences
    BY <1>0
  <2> QED BY <2>1, <2>2 DEF SubAfter, SubOK
<1>8. CASE /\ Len(kept) # HubBuffer
           /\ d = [sub EXCEPT !.events = Append(kept, e), !.fenced = fenced, !.completed = ended, !.token = TRUE]
  <2>0. Alike(e, e)
    BY DEF Alike
  <2>1. \E h : Carried(sub.events, e, Append(kept, e), h)
    BY <1>0, <1>2, <2>0, AppendCarried
  <2> HIDE DEF kept
  <2>2. Append(kept, e) \in Seq(HubEvents) /\ Len(Append(kept, e)) <= HubBuffer
    BY <1>0, <1>3, <1>8, AppendProperties
  <2>3. d \in SubType /\ d.events = Append(kept, e) /\ d.token = TRUE /\ d.waiting = sub.waiting /\ d.on = sub.on
        /\ d.snap = sub.snap /\ d.lagged = sub.lagged /\ d.fenced = fenced /\ d.completed = ended
    BY <1>0, <1>4, <1>5, <1>8, <2>2 DEF SubType
  <2> QED BY <1>4, <1>5, <2>1, <2>2, <2>3 DEF SubAfter, SubOK
<1> QED BY <1>6, <1>7, <1>8

(* An accepted event at the subscriber.                                    *)
LEMMA EnqueueIs ==
  ASSUME SubOK(sub), NEW e, WellFormed(e), NEW d, d = Enqueue(e)
  PROVE  SubAfter(d, e)
<1>1. CASE ~sub.on \/ sub.lagged
  <2>1. d = sub
    BY <1>1 DEF Enqueue
  <2> QED BY <1>1, <2>1 DEF SubAfter
<1>2. CASE sub.on /\ ~sub.lagged /\ e.kind = "preview"
  BY <1>2, EnqueuePreviewIs DEF Enqueue, IsPreview
<1>3. CASE sub.on /\ ~sub.lagged /\ e.kind # "preview"
  BY <1>3, EnqueueSemanticIs DEF Enqueue, IsPreview
<1> QED BY <1>1, <1>2, <1>3

(* The order of the queue survives an event.                               *)
LEMMA CarriedLines ==
  ASSUME NEW q \in Seq(HubEvents), NEW e, WellFormed(e), NEW t \in Seq(HubEvents), NEW h, Carried(q, e, t, h),
         NEW told, NEW done, NEW after, Lines(q, told, done), done \subseteq after,
         \A x \in Identities : Ends(e, x) => x \in after,
         e.kind = "preview" => Identity(e) \notin after
  PROVE  Lines(t, told, after)
<1>0. Len(q) \in Nat /\ Len(t) \in Nat /\ told \subseteq after
  BY DEF Lines
<1>1. \A i \in 1..Len(t) : \/ h[i] \in 1..Len(q) /\ t[i] = q[h[i]]
                           \/ h[i] = Len(q) + 1 /\ Alike(t[i], e)
  <2> TAKE i \in 1..Len(t)
  <2>1. h[i] \in 1..(Len(q) + 1)
    BY DEF Carried
  <2>2. h[i] \in 1..Len(q) \/ h[i] = Len(q) + 1
    BY <1>0, <2>1
  <2>3. h[i] \in 1..Len(q) => h[i] # Len(q) + 1
    BY <1>0
  <2> QED BY <2>2, <2>3 DEF Carried
<1>2. \A i \in 1..Len(t) : Alike(t[i], e) =>
        /\ t[i].kind # "session" => t[i].from \in HubRuns
        /\ t[i].kind \in {"preview", "done"} => t[i].subject \in HubSubjects
        /\ \A x \in Identities : Ends(t[i], x) => x \in after
        /\ t[i].kind = "preview" => Identity(t[i]) \notin after /\ Identity(t[i]) \in Identities
  BY DEF Alike, WellFormed, Ends, Identity, Identities
<1>3. \A k \in 1..Len(q) :
        /\ q[k].kind # "session" => q[k].from \in HubRuns
        /\ q[k].kind \in {"preview", "done"} => q[k].subject \in HubSubjects
        /\ \A x \in Identities : Ends(q[k], x) => x \in after
        /\ q[k].kind = "preview" =>
            /\ Identity(q[k]) \notin told
            /\ \A j \in 1..(k - 1) : ~Ends(q[j], Identity(q[k]))
  BY DEF Lines
<1>4. \A i \in 1..Len(t) : \A x \in Identities : Ends(t[i], x) => x \in after
  BY <1>1, <1>2, <1>3
<1>5. ASSUME NEW i \in 1..Len(t), t[i].kind = "preview"
      PROVE  Identity(t[i]) \notin told /\ \A j \in 1..(i - 1) : ~Ends(t[j], Identity(t[i]))
  <2>1. CASE Alike(t[i], e)
    <3>1. Identity(t[i]) \notin after /\ Identity(t[i]) \in Identities
      BY <1>2, <1>5, <2>1
    <3>2. \A j \in 1..(i - 1) : j \in 1..Len(t)
      BY <1>0
    <3> QED BY <1>0, <1>4, <3>1, <3>2
  <2>2. CASE h[i] \in 1..Len(q) /\ t[i] = q[h[i]]
    <3>1. Identity(t[i]) \notin told /\ \A j \in 1..(h[i] - 1) : ~Ends(q[j], Identity(t[i]))
      BY <1>3, <1>5, <2>2
    <3>2. ASSUME NEW j \in 1..(i - 1) PROVE ~Ends(t[j], Identity(t[i]))
      <4>1. j \in 1..Len(t) /\ j < i
        BY <1>0
      <4>2. h[j] < h[i] /\ h[j] \in 1..(Len(q) + 1)
        BY <4>1 DEF Carried
      <4>3. h[j] \in 1..(h[i] - 1) /\ h[j] # Len(q) + 1
        BY <1>0, <2>2, <4>2
      <4>4. t[j] = q[h[j]]
        BY <1>1, <4>1, <4>3
      <4> QED BY <3>1, <4>3, <4>4
    <3> QED BY <3>1, <3>2
  <2> QED BY <1>1, <2>1, <2>2
<1>6. \A i \in 1..Len(t) : /\ t[i].kind # "session" => t[i].from \in HubRuns
                           /\ t[i].kind \in {"preview", "done"} => t[i].subject \in HubSubjects
  BY <1>1, <1>2, <1>3
<1> QED BY <1>0, <1>4, <1>5, <1>6 DEF Lines

(* So do the places of the facts; a published fact goes from its writer to *)
(* the queue.                                                              *)
LEMMA CarriedPlaced ==
  ASSUME NEW q \in Seq(HubEvents), NEW e, NEW t \in Seq(HubEvents), NEW h, Carried(q, e, t, h),
         NEW f, Len(f) \in Nat, NEW U, NEW V, NEW snap \in Nat, NEW top \in Nat, Placed(q, f, U, snap, top),
         IsFact(e) => e.seq \in 1..top /\ e.seq \in U /\ V = U \ {e.seq},
         ~IsFact(e) => V = U
  PROVE  Placed(t, f, V, snap, top)
<1>0. Len(q) \in Nat /\ Len(t) \in Nat /\ V \subseteq U /\ (IsFact(e) => e.seq \notin V)
  OBVIOUS
<1>1. \A i \in 1..Len(t) : \/ h[i] \in 1..Len(q) /\ t[i] = q[h[i]]
                           \/ h[i] = Len(q) + 1 /\ Alike(t[i], e)
  <2> TAKE i \in 1..Len(t)
  <2>1. h[i] \in 1..(Len(q) + 1)
    BY DEF Carried
  <2>2. h[i] \in 1..Len(q) \/ h[i] = Len(q) + 1
    BY <1>0, <2>1
  <2>3. h[i] \in 1..Len(q) => h[i] # Len(q) + 1
    BY <1>0
  <2> QED BY <2>2, <2>3 DEF Carried
<1>2. \A i \in 1..Len(t) : Alike(t[i], e) /\ IsFact(t[i]) => IsFact(e) /\ t[i].seq = e.seq
  BY DEF Alike, IsFact
<1>3. \A i, j \in 1..Len(t) : h[i] = h[j] => i = j
  <2> TAKE i, j \in 1..Len(t)
  <2>1. i < j \/ j < i \/ i = j
    BY <1>0
  <2>2. h[i] \in 1..(Len(q) + 1) /\ h[j] \in 1..(Len(q) + 1) /\ (i < j => h[i] < h[j]) /\ (j < i => h[j] < h[i])
    BY DEF Carried
  <2>3. ~(h[i] < h[i])
    BY <1>0, <2>2
  <2> QED BY <2>1, <2>2, <2>3
<1>4. \A k \in 1..Len(q) : IsFact(q[k]) =>
        /\ q[k].seq \in 1..top /\ q[k].seq \notin U
        /\ \A j \in 1..Len(q) : IsFact(q[j]) /\ q[j].seq = q[k].seq => k = j
        /\ \A m \in 1..Len(f) : f[m] # q[k].seq
  BY DEF Placed
<1>5. \A m \in 1..Len(f) : f[m] > snap /\ f[m] <= top /\ f[m] \notin U /\ \A j \in 1..Len(f) : f[j] = f[m] => j = m
  BY DEF Placed
<1>6. ASSUME NEW i \in 1..Len(t), IsFact(t[i])
      PROVE  /\ t[i].seq \in 1..top /\ t[i].seq \notin V
             /\ \A j \in 1..Len(t) : IsFact(t[j]) /\ t[j].seq = t[i].seq => i = j
             /\ \A k \in 1..Len(f) : f[k] # t[i].seq
  <2>1. CASE h[i] \in 1..Len(q) /\ t[i] = q[h[i]]
    <3>1. /\ t[i].seq \in 1..top /\ t[i].seq \notin U /\ \A m \in 1..Len(f) : f[m] # t[i].seq
          /\ \A j \in 1..Len(q) : IsFact(q[j]) /\ q[j].seq = t[i].seq => h[i] = j
      BY <1>4, <1>6, <2>1
    <3>2. ASSUME NEW j \in 1..Len(t), IsFact(t[j]), t[j].seq = t[i].seq PROVE i = j
      <4>1. ~Alike(t[j], e)
        BY <1>2, <3>1, <3>2
      <4>2. h[j] \in 1..Len(q) /\ t[j] = q[h[j]]
        BY <1>1, <4>1
      <4> QED BY <1>3, <3>1, <3>2, <4>2
    <3> QED BY <1>0, <3>1, <3>2
  <2>2. CASE h[i] = Len(q) + 1 /\ Alike(t[i], e)
    <3>1. IsFact(e) /\ t[i].seq = e.seq /\ e.seq \in 1..top /\ e.seq \in U /\ e.seq \notin V
      BY <1>0, <1>2, <1>6, <2>2
    <3>2. \A k \in 1..Len(f) : f[k] # t[i].seq
      BY <1>5, <3>1
    <3>3. ASSUME NEW j \in 1..Len(t), IsFact(t[j]), t[j].seq = t[i].seq PROVE i = j
      <4>1. ~(h[j] \in 1..Len(q) /\ t[j] = q[h[j]])
        BY <1>4, <3>1, <3>3
      <4>2. h[j] = Len(q) + 1
        BY <1>1, <4>1
      <4> QED BY <1>3, <2>2, <4>2
    <3> QED BY <3>1, <3>2, <3>3
  <2> QED BY <1>1, <2>1, <2>2
<1>7. ASSUME NEW n \in (snap + 1)..top
      PROVE  \/ n \in V
             \/ \E i \in 1..Len(t) : IsFact(t[i]) /\ t[i].seq = n
             \/ \E k \in 1..Len(f) : f[k] = n
  <2>1. CASE n \in U /\ n \notin V
    <3>1. IsFact(e) /\ n = e.seq /\ e.kind # "preview"
      BY <2>1 DEF IsFact
    <3>2. PICK i \in 1..Len(t) : h[i] = Len(q) + 1
      BY <3>1 DEF Carried
    <3>3. Alike(t[i], e)
      BY <3>2 DEF Carried
    <3> QED BY <3>1, <3>3 DEF Alike, IsFact
  <2>2. CASE \E k \in 1..Len(q) : IsFact(q[k]) /\ q[k].seq = n
    <3>1. PICK k \in 1..Len(q) : IsFact(q[k]) /\ q[k].seq = n
      BY <2>2
    <3>2. PICK i \in 1..Len(t) : h[i] = k
      BY <3>1 DEF Carried, IsFact
    <3>3. k # Len(q) + 1
      BY <1>0
    <3>4. t[i] = q[k]
      BY <1>1, <3>2, <3>3
    <3> QED BY <3>1, <3>4
  <2> QED BY <2>1, <2>2 DEF Placed
<1> QED BY <1>0, <1>5, <1>6, <1>7 DEF Placed

(* Positions behind the place p of a queue of length n.                    *)
LEMMA Shift ==
  ASSUME NEW n \in Nat, NEW p \in 1..n, NEW l, l = n - p
  PROVE  /\ l \in Nat
         /\ \A j \in 1..l : /\ (p + 1) + j - 1 = p + j /\ p + j \in (p + 1)..n /\ p + j \in 1..n
                            /\ p # p + j /\ p \in 1..(p + j - 1)
         /\ \A m \in (p + 1)..n : m - p \in 1..l /\ p + (m - p) = m
<1>1. p \in Nat /\ 1 <= p /\ p <= n /\ l \in Nat
  OBVIOUS
<1>2. ASSUME NEW j \in 1..l
      PROVE  /\ (p + 1) + j - 1 = p + j /\ p + j \in (p + 1)..n /\ p + j \in 1..n
             /\ p # p + j /\ p \in 1..(p + j - 1)
  <2>1. j \in Nat /\ 1 <= j /\ j <= n - p
    BY <1>1
  <2> QED BY <1>1, <2>1
<1>3. ASSUME NEW m \in (p + 1)..n PROVE m - p \in 1..l /\ p + (m - p) = m
  BY <1>1
<1> QED BY <1>1, <1>2, <1>3

(* The rest of the queue behind the entry that is taken.                   *)
Behind(q, p, t) ==
  /\ t \in Seq(HubEvents) /\ Len(t) = Len(q) - p /\ Len(t) \in Nat
  /\ \A j \in 1..Len(t) : t[j] = q[p + j] /\ p + j \in (p + 1)..Len(q)
  /\ \A m \in (p + 1)..Len(q) : m - p \in 1..Len(t) /\ t[m - p] = q[m]

(* What SubSeq leaves is the rest of the queue.                            *)
LEMMA TailOf ==
  ASSUME NEW q \in Seq(HubEvents), NEW p \in 1..Len(q), NEW t, t = SubSeq(q, p + 1, Len(q))
  PROVE  Behind(q, p, t)
<1>0. Len(q) \in Nat /\ p \in 1..Len(q) /\ p \in Nat /\ p <= Len(q) /\ 1 <= p
  OBVIOUS
<1>1. \A m \in (p + 1)..Len(q) : q[m] \in HubEvents
  <2> TAKE m \in (p + 1)..Len(q)
  <2>1. m \in 1..Len(q)
    BY <1>0
  <2> QED BY <2>1
<1>2. /\ t \in Seq(HubEvents)
      /\ Len(t) = IF p + 1 <= Len(q) THEN Len(q) - (p + 1) + 1 ELSE 0
      /\ \A j \in 1..(Len(q) - (p + 1) + 1) : t[j] = q[(p + 1) + j - 1]
  BY <1>0, <1>1, SubSeqProperties
<1>3. Len(t) = Len(q) - p /\ Len(q) - (p + 1) + 1 = Len(q) - p /\ Len(t) \in Nat
  BY <1>0, <1>2
<1>s. /\ \A j \in 1..Len(t) : (p + 1) + j - 1 = p + j /\ p + j \in (p + 1)..Len(q)
      /\ \A m \in (p + 1)..Len(q) : m - p \in 1..Len(t) /\ p + (m - p) = m
  BY ONLY <1>0, <1>3, Shift
<1>4. \A j \in 1..Len(t) : t[j] = q[p + j] /\ p + j \in (p + 1)..Len(q)
  <2> TAKE j \in 1..Len(t)
  <2>1. (p + 1) + j - 1 = p + j /\ p + j \in (p + 1)..Len(q)
    BY <1>s
  <2> QED BY <1>2, <1>3, <2>1
<1>5. \A m \in (p + 1)..Len(q) : m - p \in 1..Len(t) /\ p + (m - p) = m
  BY <1>s
<1>6. \A m \in (p + 1)..Len(q) : t[m - p] = q[m]
  BY <1>4, <1>5
<1> QED BY <1>2, <1>3, <1>4, <1>5, <1>6 DEF Behind

(* Taking an entry keeps the order of the queue, with what it ends told.   *)
LEMMA TailLines ==
  ASSUME NEW q \in Seq(HubEvents), NEW p \in 1..Len(q), NEW t, Behind(q, p, t),
         NEW told, NEW done, Lines(q, told, done), NEW more,
         \A x \in more : x \in told \/ (x \in Identities /\ Ends(q[p], x))
  PROVE  Lines(t, more, done)
<1>0. /\ t \in Seq(HubEvents) /\ Len(t) = Len(q) - p /\ Len(t) \in Nat /\ Len(q) \in Nat /\ p \in Nat
      /\ \A j \in 1..Len(t) : t[j] = q[p + j] /\ p + j \in (p + 1)..Len(q)
  BY DEF Behind
<1>1. \A k \in 1..Len(q) :
        /\ q[k].kind # "session" => q[k].from \in HubRuns
        /\ q[k].kind \in {"preview", "done"} => q[k].subject \in HubSubjects
        /\ \A x \in Identities : Ends(q[k], x) => x \in done
        /\ q[k].kind = "preview" =>
            /\ Identity(q[k]) \notin told
            /\ \A j \in 1..(k - 1) : ~Ends(q[j], Identity(q[k]))
  BY DEF Lines
<1>2. more \subseteq done
  BY <1>1 DEF Lines
<1>3. \A j \in 1..Len(t) : p + j \in 1..Len(q) /\ p \in 1..(p + j - 1)
  BY <1>0, Shift
<1>4. ASSUME NEW i \in 1..Len(t), t[i].kind = "preview"
      PROVE  Identity(t[i]) \notin more /\ \A j \in 1..(i - 1) : ~Ends(t[j], Identity(t[i]))
  <2>1. t[i] = q[p + i] /\ p + i \in 1..Len(q)
    BY <1>0, <1>3
  <2>2. Identity(t[i]) \notin told /\ \A j \in 1..(p + i - 1) : ~Ends(q[j], Identity(t[i]))
    BY <1>1, <1>4, <2>1
  <2>3. \A j \in 1..(i - 1) : j \in 1..Len(t) /\ p + j \in 1..(p + i - 1)
    BY <1>0
  <2>4. \A j \in 1..(i - 1) : ~Ends(t[j], Identity(t[i]))
    BY <1>0, <2>2, <2>3
  <2>5. ~Ends(q[p], Identity(t[i]))
    BY <1>3, <2>2
  <2> QED BY <2>2, <2>4, <2>5
<1>5. \A i \in 1..Len(t) :
        /\ t[i].kind # "session" => t[i].from \in HubRuns
        /\ t[i].kind \in {"preview", "done"} => t[i].subject \in HubSubjects
        /\ \A x \in Identities : Ends(t[i], x) => x \in done
  BY <1>0, <1>1, <1>3
<1> QED BY <1>2, <1>4, <1>5 DEF Lines

(* Taking an entry moves its fact to the delivered ones.                   *)
LEMMA TailPlaced ==
  ASSUME NEW q \in Seq(HubEvents), NEW p \in 1..Len(q), NEW t, Behind(q, p, t),
         NEW f \in Seq(Nat), NEW U, NEW snap \in Nat, NEW top \in Nat, Placed(q, f, U, snap, top),
         \A j \in 1..(p - 1) : IsFact(q[j]) => q[j].seq <= snap,
         NEW g \in Seq(Nat),
         IsFact(q[p]) => q[p].seq > snap /\ g = Append(f, q[p].seq),
         ~IsFact(q[p]) => g = f
  PROVE  Placed(t, g, U, snap, top)
<1>0. /\ t \in Seq(HubEvents) /\ Len(t) = Len(q) - p /\ Len(t) \in Nat /\ Len(q) \in Nat /\ p \in Nat
      /\ \A j \in 1..Len(t) : t[j] = q[p + j] /\ p + j \in (p + 1)..Len(q)
      /\ \A m \in (p + 1)..Len(q) : m - p \in 1..Len(t) /\ t[m - p] = q[m]
      /\ Len(f) \in Nat
  BY DEF Behind
<1>1. \A k \in 1..Len(q) : IsFact(q[k]) =>
        /\ q[k].seq \in 1..top /\ q[k].seq \notin U
        /\ \A j \in 1..Len(q) : IsFact(q[j]) /\ q[j].seq = q[k].seq => k = j
        /\ \A m \in 1..Len(f) : f[m] # q[k].seq
  BY DEF Placed
<1>2. \A m \in 1..Len(f) : f[m] > snap /\ f[m] <= top /\ f[m] \notin U /\ \A j \in 1..Len(f) : f[j] = f[m] => j = m
  BY DEF Placed
<1>3. \A j \in 1..Len(t) : p + j \in 1..Len(q) /\ p # p + j
  BY <1>0, Shift
<1>4. \A k \in 1..Len(g) : \/ k \in 1..Len(f) /\ g[k] = f[k]
                           \/ IsFact(q[p]) /\ k = Len(f) + 1 /\ g[k] = q[p].seq
  <2>1. CASE IsFact(q[p])
    <3>1. g = Append(f, q[p].seq) /\ q[p].seq \in Nat
      BY <1>1, <2>1
    <3>2. Len(g) = Len(f) + 1 /\ g[Len(f) + 1] = q[p].seq /\ \A k \in 1..Len(f) : g[k] = f[k]
      BY <3>1, AppendProperties
    <3>3. \A k \in 1..Len(g) : k \in 1..Len(f) \/ k = Len(f) + 1
      BY <1>0, <3>2
    <3> QED BY <2>1, <3>2, <3>3
  <2>2. CASE ~IsFact(q[p])
    BY <2>2
  <2> QED BY <2>1, <2>2
<1>5. /\ \A k \in 1..Len(f) : k \in 1..Len(g) /\ g[k] = f[k]
      /\ IsFact(q[p]) => Len(f) + 1 \in 1..Len(g) /\ g[Len(f) + 1] = q[p].seq
  <2>1. CASE IsFact(q[p])
    <3>1. g = Append(f, q[p].seq) /\ q[p].seq \in Nat
      BY <1>1, <2>1
    <3>2. Len(g) = Len(f) + 1 /\ g[Len(f) + 1] = q[p].seq /\ \A k \in 1..Len(f) : g[k] = f[k]
      BY <3>1, AppendProperties
    <3> QED BY <1>0, <3>2
  <2>2. CASE ~IsFact(q[p])
    BY <2>2
  <2> QED BY <2>1, <2>2
<1>6. ASSUME NEW i \in 1..Len(t), IsFact(t[i])
      PROVE  /\ t[i].seq \in 1..top /\ t[i].seq \notin U
             /\ \A j \in 1..Len(t) : IsFact(t[j]) /\ t[j].seq = t[i].seq => i = j
             /\ \A k \in 1..Len(g) : g[k] # t[i].seq
  <2>1. t[i] = q[p + i] /\ p + i \in 1..Len(q) /\ p # p + i
    BY <1>0, <1>3
  <2>2. /\ t[i].seq \in 1..top /\ t[i].seq \notin U /\ \A m \in 1..Len(f) : f[m] # t[i].seq
        /\ \A j \in 1..Len(q) : IsFact(q[j]) /\ q[j].seq = t[i].seq => p + i = j
    BY <1>1, <1>6, <2>1
  <2>3. IsFact(q[p]) => q[p].seq # t[i].seq
    BY <2>1, <2>2
  <2>4. \A j \in 1..Len(t) : p + i = p + j => i = j
    BY <1>0
  <2>5. ASSUME NEW j \in 1..Len(t), IsFact(t[j]), t[j].seq = t[i].seq PROVE i = j
    <3>1. t[j] = q[p + j] /\ p + j \in 1..Len(q)
      BY <1>0, <1>3
    <3>2. p + i = p + j
      BY <2>2, <2>5, <3>1
    <3> QED BY <2>4, <3>2
  <2>6. \A k \in 1..Len(g) : g[k] # t[i].seq
    BY <1>4, <2>2, <2>3
  <2> QED BY <2>2, <2>5, <2>6
<1>7. ASSUME NEW k \in 1..Len(g)
      PROVE  g[k] > snap /\ g[k] <= top /\ g[k] \notin U /\ \A j \in 1..Len(g) : g[j] = g[k] => j = k
  <2>1. IsFact(q[p]) => q[p].seq > snap /\ q[p].seq <= top /\ q[p].seq \notin U /\ \A m \in 1..Len(f) : f[m] # q[p].seq
    <3>1. IsFact(q[p]) => q[p].seq \in 1..top /\ q[p].seq \notin U /\ \A m \in 1..Len(f) : f[m] # q[p].seq
      BY <1>1
    <3>2. q[p].seq \in 1..top => q[p].seq <= top
      OBVIOUS
    <3> QED BY <3>1, <3>2
  <2> QED BY <1>2, <1>4, <2>1
<1>8. ASSUME NEW n \in (snap + 1)..top
      PROVE  \/ n \in U
             \/ \E i \in 1..Len(t) : IsFact(t[i]) /\ t[i].seq = n
             \/ \E k \in 1..Len(g) : g[k] = n
  <2>1. CASE \E m \in 1..Len(q) : IsFact(q[m]) /\ q[m].seq = n
    <3>1. PICK m \in 1..Len(q) : IsFact(q[m]) /\ q[m].seq = n
      BY <2>1
    <3>2. m \in 1..(p - 1) \/ m = p \/ m \in (p + 1)..Len(q)
      BY <1>0
    <3>3. ~(n <= snap)
      OBVIOUS
    <3>4. m = p \/ m \in (p + 1)..Len(q)
      BY <3>1, <3>2, <3>3
    <3> QED BY <1>0, <1>5, <3>1, <3>4
  <2>2. CASE \E k \in 1..Len(f) : f[k] = n
    BY <1>5, <2>2
  <2> QED BY <2>1, <2>2 DEF Placed
<1> QED BY <1>6, <1>7, <1>8 DEF Placed

(* Nothing of a queue of facts the snapshot has is missed.                 *)
LEMMA EmptyPlaced ==
  ASSUME NEW q, NEW f, NEW U, NEW snap \in Nat, NEW top \in Nat, Placed(q, f, U, snap, top),
         \A j \in 1..Len(q) : IsFact(q[j]) /\ q[j].seq <= snap
  PROVE  Placed(<<>>, f, U, snap, top)
<1>1. Len(<<>>) = 0 /\ 1..0 = {}
  OBVIOUS
<1>2. \A n \in (snap + 1)..top : ~\E i \in 1..Len(q) : IsFact(q[i]) /\ q[i].seq = n
  <2> SUFFICES ASSUME NEW n \in (snap + 1)..top, NEW i \in 1..Len(q), q[i].seq = n PROVE FALSE
    OBVIOUS
  <2>1. n <= snap
    OBVIOUS
  <2> QED BY <2>1
<1> QED BY <1>1, <1>2 DEF Placed

(* The subscriber is well formed in every state of the invariant.          *)
LEMMA SubNow ==
  ASSUME HubInv
  PROVE  SubOK(sub)
  BY DEF HubInv, HubTypeOK, NoticeInv, NoLostNotice, SubOK, SubType

HubPart ==
  /\ hub \in [seen : [HubRuns -> 0..MaxHubSeq], live : Seq(Identities), fenced : Seq(Identities)]
  /\ Len(hub.live) <= HubFences /\ Len(hub.fenced) <= HubFences

(* What a publication does to the hub and the subscriber, whatever else    *)
(* the step changes.                                                       *)
LEMMA PublishKeeps ==
  ASSUME HubInv, NEW e, WellFormed(e), Publish(e),
         \A x \in Identities : x \in Settled' <=> (x \in Settled \/ Ends(e, x)),
         e.kind = "preview" /\ Accepted(e) => Identity(e) \notin Settled',
         e.kind # "preview" => Accepted(e)
  PROVE  /\ HubPart' /\ SubOK(sub') /\ SubAfter(sub', e) /\ view' = view /\ LineInv' /\ NoticeInv'
         /\ e.kind = "session" \/ ~SourceOrdered(e) => hub' = hub
         /\ e.kind # "session" /\ SourceOrdered(e) =>
              hub'.seen = [hub.seen EXCEPT ![e.from] = IF e.kind = "end" THEN 0 ELSE e.seq]
<1>0. hub' = HubAfter(e) /\ view' = view /\ SubOK(sub) /\ HubTypeOK /\ LineInv
  BY SubNow DEF Publish, HubInv
<1>1. /\ HubPart'
      /\ e.kind = "session" \/ ~SourceOrdered(e) => hub' = hub
      /\ e.kind # "session" /\ SourceOrdered(e) =>
              /\ hub'.seen = [hub.seen EXCEPT ![e.from] = IF e.kind = "end" THEN 0 ELSE e.seq]
              /\ \A x \in SeqSet(hub'.live) : \/ x \in SeqSet(hub.live) /\ ~Ends(e, x)
                                              \/ x = Identity(e) /\ e.kind = "preview" /\ Accepted(e)
  BY <1>0, HubAfterIs DEF HubPart
<1>2. SubAfter(sub', e)
  <2>1. CASE Accepted(e)
    BY <1>0, <2>1, EnqueueIs DEF Publish
  <2>2. CASE ~Accepted(e)
    <3>1. sub' = sub /\ e.kind = "preview" /\ sub.events \in Seq(HubEvents)
      BY <1>0, <2>2 DEF Publish, SubOK, SubType
    <3>2. \E h : Carried(sub.events, e, sub.events, h)
      BY <3>1, AllCarried
    <3> QED BY <1>0, <3>1, <3>2 DEF SubAfter
  <2> QED BY <2>1, <2>2
<1>3. SubOK(sub')
  BY <1>2 DEF SubAfter
<1>4. NoticeInv'
  BY <1>3 DEF SubOK, NoticeInv, NoLostNotice, NoSub
<1>5. Settled \subseteq Identities /\ SeqSet(hub.live) \subseteq Identities
  BY <1>0, SeqSetIs DEF Settled, Identities, HubTypeOK
<1>6. \A x \in SeqSet(hub'.live) : x \notin Settled'
  <2>1. CASE e.kind = "session" \/ ~SourceOrdered(e)
    <3>1. hub' = hub /\ (e.kind = "preview" \/ e.kind = "session")
      BY <1>1, <2>1 DEF Accepted
    <3>2. \A x : ~Ends(e, x)
      BY <3>1 DEF Ends
    <3> QED BY <1>0, <1>5, <3>1, <3>2 DEF LineInv
  <2>2. CASE e.kind # "session" /\ SourceOrdered(e)
    <3>1. \A x \in SeqSet(hub.live) : ~Ends(e, x) => x \notin Settled'
      BY <1>0, <1>5 DEF LineInv
    <3> QED BY <1>1, <2>2, <3>1
  <2> QED BY <2>1, <2>2
<1>7. Lines(sub'.events, view.settled, Settled')
  <2>0. sub.events \in Seq(HubEvents) /\ sub'.events \in Seq(HubEvents)
    BY <1>0, <1>3 DEF SubOK, SubType
  <2>1. Settled \subseteq Settled'
    BY <1>5
  <2>2. Lines(sub.events, view.settled, Settled)
    BY <1>0 DEF LineInv
  <2>3. CASE Accepted(e) /\ \E h : Carried(sub.events, e, sub'.events, h)
    <3>1. PICK h : Carried(sub.events, e, sub'.events, h)
      BY <2>3
    <3>2. \A x \in Identities : Ends(e, x) => x \in Settled'
      OBVIOUS
    <3>3. e.kind = "preview" => Identity(e) \notin Settled'
      BY <2>3
    <3> QED BY <2>0, <2>1, <2>2, <3>1, <3>2, <3>3, CarriedLines
  <2>4. CASE sub' = sub
    BY <2>1, <2>2, <2>4 DEF Lines
  <2>5. CASE sub'.events = <<>>
    <3>1. Len(<<>>) = 0 /\ 1..0 = {} /\ view.settled \subseteq Settled'
      BY <2>1, <2>2 DEF Lines
    <3> QED BY <2>5, <3>1 DEF Lines
  <2>6. Accepted(e) \/ sub' = sub
    BY DEF Publish
  <2>7. sub' = sub \/ sub'.events = <<>> \/ \E h : Carried(sub.events, e, sub'.events, h)
    BY <1>2, <1>3 DEF SubAfter, SubOK
  <2> QED BY <2>3, <2>4, <2>5, <2>6, <2>7
<1>8. LineInv'
  BY <1>0, <1>6, <1>7 DEF LineInv
<1> QED BY <1>0, <1>1, <1>2, <1>3, <1>4, <1>8

(* What a publication does to the places of the facts.                     *)
LEMMA PublishPlaces ==
  ASSUME HubInv, NEW e, SubAfter(sub', e), view' = view, commits' = commits,
         IsFact(e) => e.seq \in 1..commits /\ e.seq \in Unpublished /\ Unpublished' = Unpublished \ {e.seq},
         ~IsFact(e) => Unpublished' = Unpublished
  PROVE  sub'.snap = sub.snap /\ (sub'.on /\ ~sub'.lagged =>
           Placed(sub'.events, view'.facts, Unpublished', sub'.snap, commits'))
<1>1. sub'.snap = sub.snap /\ sub'.on = sub.on /\ SubOK(sub')
  BY DEF SubAfter
<1> SUFFICES ASSUME sub'.on, ~sub'.lagged
             PROVE  Placed(sub'.events, view.facts, Unpublished', sub.snap, commits)
  BY <1>1
<1>2. PICK h : ~sub.lagged /\ Carried(sub.events, e, sub'.events, h)
  BY <1>1 DEF SubAfter
<1>3. /\ sub.events \in Seq(HubEvents) /\ sub'.events \in Seq(HubEvents) /\ sub.snap \in Nat /\ commits \in Nat
      /\ Len(view.facts) \in Nat
  <2>1. sub.events \in Seq(HubEvents) /\ sub.snap \in 0..MaxHubCommits /\ commits \in 0..MaxHubCommits
        /\ view.facts \in Seq(Nat)
    BY DEF HubInv, HubTypeOK
  <2>2. sub'.events \in Seq(HubEvents)
    BY <1>1 DEF SubOK, SubType
  <2> QED BY <2>1, <2>2, EventHubAssumption
<1>4. Placed(sub.events, view.facts, Unpublished, sub.snap, commits)
  BY <1>1, <1>2 DEF HubInv, FactInv
<1> QED BY <1>2, <1>3, <1>4, CarriedPlaced

RestPart ==
  /\ commits \in 0..MaxHubCommits /\ unpub \in [HubLanes -> 0..MaxHubCommits]
  /\ runs \in [HubRuns -> [at : {"new", "live", "ended"}, seq : 0..MaxHubSeq, done : SUBSET HubSubjects]]
  /\ delayed \subseteq HubEvents
ViewPart == view \in [facts : Seq(Nat), shown : SUBSET Identities, settled : SUBSET Identities]

(* The shape of the state, part by part.                                   *)
LEMMA TypeParts ==
  /\ HubTypeOK => RestPart /\ HubPart /\ ViewPart
  /\ RestPart /\ HubPart /\ ViewPart /\ SubOK(sub) => HubTypeOK
  BY DEF HubTypeOK, RestPart, HubPart, ViewPart, SubOK, SubType

(* The same for the next state.                                            *)
LEMMA TypePartsNext ==
  RestPart' /\ HubPart' /\ ViewPart' /\ SubOK(sub') => HubTypeOK'
  BY DEF HubTypeOK, RestPart, HubPart, ViewPart, SubOK, SubType

(* Which subjects are settled, before and after a step.                    *)
LEMMA SettledIs ==
  /\ \A x \in Identities : x \in Settled <=> (runs[x[1]].at = "ended" \/ x[2] \in runs[x[1]].done)
  /\ \A x \in Identities : x \in Settled' <=> (runs'[x[1]].at = "ended" \/ x[2] \in runs'[x[1]].done)
  /\ \A x \in Identities : x[1] \in HubRuns /\ x[2] \in HubSubjects /\ x = <<x[1], x[2]>>
  /\ \A r \in HubRuns, s \in HubSubjects : <<r, s>> \in Identities
  BY DEF Settled, Identities

(* A commit adds a fact that is with its writer.                           *)
LEMMA CommitPlaced ==
  ASSUME NEW q, NEW f \in Seq(Nat), NEW U, NEW snap \in Nat, NEW top \in Nat, Placed(q, f, U, snap, top)
  PROVE  Placed(q, f, U \cup {top + 1}, snap, top + 1)
<1>1. \A i \in 1..Len(q) : IsFact(q[i]) => q[i].seq \in 1..(top + 1) /\ q[i].seq # top + 1
  <2> TAKE i \in 1..Len(q)
  <2>1. IsFact(q[i]) => q[i].seq \in 1..top
    BY DEF Placed
  <2>2. q[i].seq \in 1..top => q[i].seq \in 1..(top + 1) /\ q[i].seq # top + 1
    OBVIOUS
  <2> QED BY <2>1, <2>2
<1>2. \A k \in 1..Len(f) : f[k] <= top + 1 /\ f[k] # top + 1
  <2> TAKE k \in 1..Len(f)
  <2>1. f[k] <= top /\ f[k] \in Nat
    BY DEF Placed
  <2> QED BY <2>1
<1>3. \A n \in (snap + 1)..(top + 1) : n = top + 1 \/ n \in (snap + 1)..top
  OBVIOUS
<1> QED BY <1>1, <1>2, <1>3 DEF Placed

(* Committing a fact keeps the invariant.                                  *)
LEMMA CommitKeeps ==
  ASSUME HubInv, NEW l \in HubLanes, CommitFact(l)
  PROVE  HubInv'
<1>0. /\ HubTypeOK /\ RestPart /\ HubPart /\ ViewPart /\ SubOK(sub) /\ commits \in Nat /\ MaxHubCommits \in Nat
  BY TypeParts, SubNow, EventHubAssumption DEF HubInv, RestPart
<1>1. /\ unpub[l] = 0 /\ commits < MaxHubCommits /\ commits' = commits + 1
      /\ unpub' = [unpub EXCEPT ![l] = commits + 1]
      /\ runs' = runs /\ delayed' = delayed /\ hub' = hub /\ sub' = sub /\ view' = view
  BY DEF CommitFact
<1>2. RestPart'
  BY <1>0, <1>1 DEF RestPart
<1>3. HubTypeOK'
  <2>1. HubPart' /\ ViewPart' /\ SubOK(sub')
    BY <1>0, <1>1 DEF HubPart, ViewPart
  <2> QED BY <1>2, <2>1, TypePartsNext
<1>4. SeenInv' /\ DelayInv' /\ LineInv' /\ NoticeInv'
  BY <1>1 DEF HubInv, SeenInv, DelayInv, LineInv, NoticeInv, NoLostNotice, Settled
<1>5. \A m \in HubLanes : unpub'[m] = IF m = l THEN commits + 1 ELSE unpub[m]
  BY <1>0, <1>1 DEF RestPart
<1>6. \A m \in HubLanes : unpub[m] \in Nat /\ unpub[m] <= commits /\ unpub[m] # commits + 1
  <2> TAKE m \in HubLanes
  <2>1. unpub[m] \in 0..MaxHubCommits /\ unpub[m] <= commits
    BY <1>0 DEF RestPart, HubInv, FactInv
  <2> QED BY <1>0, <2>1
<1>7. Unpublished' = Unpublished \cup {commits + 1}
  <2>1. Unpublished' = {unpub'[m] : m \in HubLanes} \ {0}
    BY DEF Unpublished
  <2>2. \A n : n \in Unpublished' => n \in Unpublished \cup {commits + 1}
    BY <1>5, <2>1 DEF Unpublished
  <2>3. \A n : n \in Unpublished => n \in Unpublished'
    BY <1>1, <1>5, <2>1 DEF Unpublished
  <2>4. commits + 1 \in Unpublished'
    BY <1>0, <1>5, <2>1
  <2> QED BY <2>2, <2>3, <2>4
<1>8. FactInv'
  <2>1. \A m \in HubLanes : unpub'[m] <= commits'
    BY <1>0, <1>1, <1>5, <1>6
  <2>2. \A k, m \in HubLanes : unpub'[k] = unpub'[m] /\ unpub'[k] # 0 => k = m
    BY <1>5, <1>6 DEF HubInv, FactInv
  <2>3. sub.snap \in Nat /\ sub'.snap <= commits' /\ view.facts \in Seq(Nat)
    BY <1>0, <1>1 DEF HubInv, FactInv, HubTypeOK
  <2>4. sub.on /\ ~sub.lagged => Placed(sub.events, view.facts, Unpublished, sub.snap, commits)
    BY DEF HubInv, FactInv
  <2>5. sub.on /\ ~sub.lagged => Placed(sub.events, view.facts, Unpublished \cup {commits + 1}, sub.snap, commits + 1)
    BY <1>0, <2>3, <2>4, CommitPlaced
  <2>6. sub'.on /\ ~sub'.lagged => Placed(sub'.events, view'.facts, Unpublished', sub'.snap, commits')
    BY <1>1, <1>7, <2>5
  <2> QED BY <2>1, <2>2, <2>3, <2>6 DEF FactInv
<1> QED BY <1>3, <1>4, <1>8 DEF HubInv

(* Publishing a committed fact keeps the invariant.                        *)
LEMMA FactKeeps ==
  ASSUME HubInv, NEW l \in HubLanes, PublishFact(l)
  PROVE  HubInv'
<1>0. /\ HubTypeOK /\ RestPart /\ HubPart /\ ViewPart /\ SubOK(sub) /\ commits \in Nat /\ MaxHubCommits \in Nat
  BY TypeParts, SubNow, EventHubAssumption DEF HubInv, RestPart
<1>1. /\ unpub[l] # 0 /\ unpub' = [unpub EXCEPT ![l] = 0]
      /\ commits' = commits /\ runs' = runs /\ delayed' = delayed
  BY DEF PublishFact
<1>n. unpub[l] \in Nat /\ unpub[l] \in 1..commits
  <2>1. unpub[l] \in 0..MaxHubCommits /\ unpub[l] <= commits
    BY <1>0 DEF RestPart, HubInv, FactInv
  <2> QED BY <1>0, <1>1, <2>1
<1>e. PICK e : e = HubEvent("session", l, unpub[l], "none", FALSE) /\ Publish(e)
  BY DEF PublishFact
<1>f. WellFormed(e) /\ e.kind = "session" /\ e.seq = unpub[l]
  BY <1>e, <1>n DEF HubEvent, WellFormed, HubEvents
<1>2. RestPart'
  BY <1>0, <1>1 DEF RestPart
<1>3. \A x \in Identities : x \in Settled' <=> (x \in Settled \/ Ends(e, x))
  BY <1>1, <1>f DEF Settled, Ends
<1>4. e.kind # "preview" => Accepted(e)
  BY <1>f DEF Accepted
<1>5. HubPart' /\ SubOK(sub') /\ SubAfter(sub', e) /\ view' = view /\ LineInv' /\ NoticeInv' /\ hub' = hub
  BY <1>e, <1>f, <1>3, <1>4, PublishKeeps
<1>6. HubTypeOK'
  BY <1>0, <1>2, <1>5, TypePartsNext DEF ViewPart
<1>7. SeenInv' /\ DelayInv'
  BY <1>1, <1>5 DEF HubInv, SeenInv, DelayInv
<1>8. \A m \in HubLanes : unpub'[m] = IF m = l THEN 0 ELSE unpub[m]
  BY <1>0, <1>1 DEF RestPart
<1>9. \A m \in HubLanes : unpub[m] = unpub[l] => m = l
  BY <1>1 DEF HubInv, FactInv
<1>10. Unpublished' = Unpublished \ {e.seq} /\ e.seq \in Unpublished
  <2>1. Unpublished' = {unpub'[m] : m \in HubLanes} \ {0}
    BY DEF Unpublished
  <2>2. \A n : n \in Unpublished' <=> n \in Unpublished \ {e.seq}
    BY <1>1, <1>8, <1>9, <1>f, <2>1 DEF Unpublished
  <2>3. e.seq \in Unpublished
    BY <1>1, <1>f DEF Unpublished
  <2> QED BY <2>2, <2>3
<1>11. FactInv'
  <2>1. \A m \in HubLanes : unpub'[m] <= commits'
    BY <1>0, <1>1, <1>8 DEF HubInv, FactInv
  <2>2. \A k, m \in HubLanes : unpub'[k] = unpub'[m] /\ unpub'[k] # 0 => k = m
    BY <1>8 DEF HubInv, FactInv
  <2>3. sub'.snap = sub.snap /\ (sub'.on /\ ~sub'.lagged =>
           Placed(sub'.events, view'.facts, Unpublished', sub'.snap, commits'))
    BY <1>1, <1>5, <1>10, <1>f, <1>n, PublishPlaces DEF IsFact
  <2>4. sub'.snap <= commits'
    BY <1>1, <2>3 DEF HubInv, FactInv
  <2> QED BY <2>1, <2>2, <2>3, <2>4 DEF FactInv
<1> QED BY <1>5, <1>6, <1>7, <1>11 DEF HubInv

(* The events of a run leave the facts where they are.                     *)
LEMMA RunFacts ==
  ASSUME HubInv, NEW e, SubAfter(sub', e), view' = view, commits' = commits, unpub' = unpub, ~IsFact(e)
  PROVE  FactInv'
<1>1. Unpublished' = Unpublished
  BY DEF Unpublished
<1>2. sub'.snap = sub.snap /\ (sub'.on /\ ~sub'.lagged =>
         Placed(sub'.events, view'.facts, Unpublished', sub'.snap, commits'))
  BY <1>1, PublishPlaces
<1> QED BY <1>2 DEF FactInv, HubInv

RunTypes ==
  /\ MaxHubSeq \in Nat /\ SeenInv /\ DelayInv
  /\ \A q \in HubRuns : /\ runs[q].seq \in 0..MaxHubSeq /\ runs[q].done \subseteq HubSubjects
                        /\ runs[q].at \in {"new", "live", "ended"} /\ hub.seen[q] \in 0..MaxHubSeq
  /\ hub.seen \in [HubRuns -> 0..MaxHubSeq]
  /\ \A d \in delayed : d \in HubEvents /\ d.seq \in Nat /\ d.from \in HubRuns

(* The shape of the runs, in every state of the invariant.                 *)
LEMMA RunTypesNow ==
  ASSUME HubInv
  PROVE  RunTypes
<1>0. RestPart /\ HubPart /\ SeenInv /\ DelayInv
  BY TypeParts DEF HubInv
<1>1. \A d \in delayed : d \in HubEvents /\ d.seq \in Nat /\ d.from \in HubRuns
  BY <1>0 DEF RestPart, HubEvents, DelayInv
<1> QED BY <1>0, <1>1, EventHubAssumption DEF RunTypes, RestPart, HubPart

(* A step that publishes an event of a run.                                *)
LEMMA RunPublish ==
  ASSUME HubInv, NEW e, WellFormed(e), Publish(e), ~IsFact(e), commits' = commits, unpub' = unpub,
         RestPart', SeenInv', DelayInv',
         \A x \in Identities : x \in Settled' <=> (x \in Settled \/ Ends(e, x)),
         e.kind = "preview" /\ Accepted(e) => Identity(e) \notin Settled',
         e.kind # "preview" => Accepted(e)
  PROVE  HubInv'
<1>1. HubPart' /\ SubOK(sub') /\ SubAfter(sub', e) /\ view' = view /\ LineInv' /\ NoticeInv'
  BY PublishKeeps
<1>2. HubTypeOK'
  BY <1>1, TypeParts, TypePartsNext DEF ViewPart, HubInv
<1>3. FactInv'
  BY <1>1, RunFacts
<1> QED BY <1>1, <1>2, <1>3 DEF HubInv

(* What the hub has seen of the runs after such a step.                    *)
LEMMA RunSeen ==
  ASSUME HubInv, NEW e, WellFormed(e), Publish(e), ~IsFact(e), SourceOrdered(e)
  PROVE  /\ e.from \in HubRuns
         /\ \A q \in HubRuns : hub'.seen[q] = IF q = e.from THEN IF e.kind = "end" THEN 0 ELSE e.seq ELSE hub.seen[q]
<1>1. hub'.seen = [hub.seen EXCEPT ![e.from] = IF e.kind = "end" THEN 0 ELSE e.seq]
  BY HubAfterIs DEF HubInv, Publish, IsFact
<1>2. e.from \in HubRuns /\ hub.seen \in [HubRuns -> 0..MaxHubSeq]
  BY RunTypesNow DEF WellFormed, IsFact, RunTypes
<1> QED BY <1>1, <1>2

(* The start of a run keeps the invariant.                                 *)
LEMMA StartKeeps ==
  ASSUME HubInv, NEW r \in HubRuns, RunStart(r)
  PROVE  HubInv'
<1>0. RunTypes /\ RestPart
  BY RunTypesNow, TypeParts DEF HubInv
<1>1. /\ runs[r].at = "new" /\ MaxHubSeq > 0 /\ runs' = [runs EXCEPT ![r].at = "live", ![r].seq = 1]
      /\ commits' = commits /\ unpub' = unpub /\ delayed' = delayed
  BY DEF RunStart
<1>e. PICK e : e = HubEvent("start", r, 1, "none", FALSE) /\ Publish(e)
  BY DEF RunStart
<1>f. e.kind = "start" /\ e.from = r /\ e.seq = 1 /\ WellFormed(e) /\ ~IsFact(e)
  BY <1>0, <1>1, <1>e DEF HubEvent, WellFormed, HubEvents, IsFact, RunTypes
<1>2. \A q \in HubRuns : runs'[q] = IF q = r THEN [runs[r] EXCEPT !.at = "live", !.seq = 1] ELSE runs[q]
  BY <1>0, <1>1 DEF RestPart
<1>3. runs'[r].at = "live" /\ runs'[r].seq = 1 /\ runs'[r].done = runs[r].done
  BY <1>0, <1>2 DEF RestPart
<1>4. hub.seen[r] = 0 /\ SourceOrdered(e) /\ Accepted(e)
  BY <1>0, <1>1, <1>f DEF RunTypes, SeenInv, SourceOrdered, Accepted, IsPreview
<1>5. RestPart'
  <2>1. 1 \in 0..MaxHubSeq
    BY <1>0, <1>1 DEF RunTypes
  <2> QED BY <1>0, <1>1, <2>1 DEF RestPart
<1>6. \A q \in HubRuns : hub'.seen[q] = IF q = r THEN 1 ELSE hub.seen[q]
  BY <1>e, <1>f, <1>4, RunSeen
<1>7. SeenInv'
  BY <1>0, <1>2, <1>3, <1>6 DEF RunTypes, SeenInv
<1>8. DelayInv'
  <2>1. \A d \in delayed : d.from # r
    BY <1>0, <1>1 DEF RunTypes, DelayInv
  <2>2. ASSUME NEW d \in delayed
        PROVE  /\ d.kind = "preview" /\ d.from \in HubRuns /\ d.subject \in HubSubjects
               /\ runs'[d.from].at # "new" /\ d.seq \in 1..runs'[d.from].seq
               /\ runs'[d.from].at = "live" /\ d.subject \in runs'[d.from].done => d.seq <= hub'.seen[d.from]
    <3>1. /\ d.kind = "preview" /\ d.from \in HubRuns /\ d.subject \in HubSubjects
          /\ runs[d.from].at # "new" /\ d.seq \in 1..runs[d.from].seq
          /\ runs[d.from].at = "live" /\ d.subject \in runs[d.from].done => d.seq <= hub.seen[d.from]
      BY <1>0 DEF RunTypes, DelayInv
    <3>2. runs'[d.from] = runs[d.from] /\ hub'.seen[d.from] = hub.seen[d.from]
      BY <1>2, <1>6, <2>1, <3>1
    <3> QED BY <3>1, <3>2
  <2> QED BY <1>1, <2>2 DEF DelayInv
<1>9. \A x \in Identities : x \in Settled' <=> (x \in Settled \/ Ends(e, x))
  <2>1. \A x : ~Ends(e, x)
    BY <1>f DEF Ends
  <2> TAKE x \in Identities
  <2>2. x[1] \in HubRuns
    BY SettledIs
  <2>3. runs'[x[1]].at = "ended" <=> runs[x[1]].at = "ended"
    BY <1>1, <1>2, <1>3, <2>2
  <2>4. runs'[x[1]].done = runs[x[1]].done
    BY <1>2, <1>3, <2>2
  <2> QED BY <2>1, <2>3, <2>4, SettledIs
<1> QED BY <1>e, <1>f, <1>1, <1>4, <1>5, <1>7, <1>8, <1>9, RunPublish

(* The end of a message or tool call keeps the invariant.                  *)
LEMMA DoneKeeps ==
  ASSUME HubInv, NEW r \in HubRuns, NEW s \in HubSubjects, SubjectDone(r, s)
  PROVE  HubInv'
<1>0. RunTypes /\ RestPart
  BY RunTypesNow, TypeParts DEF HubInv
<1>1. /\ runs[r].at = "live" /\ runs[r].seq < MaxHubSeq /\ s \notin runs[r].done
      /\ runs' = [runs EXCEPT ![r].seq = @ + 1, ![r].done = @ \cup {s}]
      /\ commits' = commits /\ unpub' = unpub /\ delayed' = delayed
  BY DEF SubjectDone
<1>n. PICK n \in Nat : n = runs[r].seq + 1 /\ n \in 1..MaxHubSeq
  BY <1>0, <1>1 DEF RunTypes
<1>e. PICK e : e = HubEvent("done", r, n, s, FALSE) /\ Publish(e)
  BY <1>n DEF SubjectDone
<1>f. e.kind = "done" /\ e.from = r /\ e.seq = n /\ e.subject = s /\ WellFormed(e) /\ ~IsFact(e)
  BY <1>0, <1>n, <1>e DEF HubEvent, WellFormed, HubEvents, IsFact
<1>2. \A q \in HubRuns : runs'[q] = IF q = r THEN [runs[r] EXCEPT !.seq = n, !.done = runs[r].done \cup {s}] ELSE runs[q]
  BY <1>0, <1>1, <1>n DEF RestPart
<1>3. runs'[r].at = "live" /\ runs'[r].seq = n /\ runs'[r].done = runs[r].done \cup {s}
  BY <1>0, <1>1, <1>2 DEF RestPart
<1>4. hub.seen[r] # 0 /\ n > hub.seen[r] /\ SourceOrdered(e) /\ Accepted(e)
  <2>1. hub.seen[r] # 0 /\ hub.seen[r] <= runs[r].seq /\ hub.seen[r] \in 0..MaxHubSeq /\ runs[r].seq \in 0..MaxHubSeq
    BY <1>0, <1>1 DEF RunTypes, SeenInv
  <2>2. n > hub.seen[r]
    BY <1>0, <1>n, <2>1 DEF RunTypes
  <2> QED BY <1>f, <2>1, <2>2 DEF SourceOrdered, Accepted, IsPreview
<1>5. RestPart'
  <2>1. n \in 0..MaxHubSeq /\ runs[r].done \cup {s} \subseteq HubSubjects
    BY <1>0, <1>n DEF RunTypes
  <2>2. runs' = [runs EXCEPT ![r] = [runs[r] EXCEPT !.seq = n, !.done = runs[r].done \cup {s}]]
    BY <1>0, <1>1, <1>n DEF RestPart
  <2> QED BY <1>0, <1>1, <2>1, <2>2 DEF RestPart
<1>6. \A q \in HubRuns : hub'.seen[q] = IF q = r THEN n ELSE hub.seen[q]
  BY <1>e, <1>f, <1>4, RunSeen
<1>7. SeenInv'
  BY <1>0, <1>n, <1>2, <1>3, <1>6 DEF RunTypes, SeenInv
<1>8. DelayInv'
  <2>1. \A d \in delayed : d.from = r => d.seq \in 1..n /\ d.seq <= n
    BY <1>0, <1>n DEF RunTypes, DelayInv
  <2>2. ASSUME NEW d \in delayed
        PROVE  /\ d.kind = "preview" /\ d.from \in HubRuns /\ d.subject \in HubSubjects
               /\ runs'[d.from].at # "new" /\ d.seq \in 1..runs'[d.from].seq
               /\ runs'[d.from].at = "live" /\ d.subject \in runs'[d.from].done => d.seq <= hub'.seen[d.from]
    <3>1. /\ d.kind = "preview" /\ d.from \in HubRuns /\ d.subject \in HubSubjects
          /\ runs[d.from].at # "new" /\ d.seq \in 1..runs[d.from].seq
          /\ runs[d.from].at = "live" /\ d.subject \in runs[d.from].done => d.seq <= hub.seen[d.from]
      BY <1>0 DEF RunTypes, DelayInv
    <3>2. CASE d.from = r
      BY <1>3, <1>6, <2>1, <3>1, <3>2
    <3>3. CASE d.from # r
      <4>1. runs'[d.from] = runs[d.from] /\ hub'.seen[d.from] = hub.seen[d.from]
        BY <1>2, <1>6, <3>1, <3>3
      <4> QED BY <3>1, <4>1
    <3> QED BY <3>2, <3>3
  <2> QED BY <1>1, <2>2 DEF DelayInv
<1>9. \A x \in Identities : x \in Settled' <=> (x \in Settled \/ Ends(e, x))
  <2> TAKE x \in Identities
  <2>1. Ends(e, x) <=> x[1] = r /\ x[2] = s
    BY <1>f, SettledIs DEF Ends, Identity
  <2> QED BY <1>1, <1>2, <1>3, <2>1, SettledIs
<1> QED BY <1>e, <1>f, <1>1, <1>4, <1>5, <1>7, <1>8, <1>9, RunPublish

(* The end of a run keeps the invariant.                                   *)
LEMMA EndKeeps ==
  ASSUME HubInv, NEW r \in HubRuns, RunEnd(r)
  PROVE  HubInv'
<1>0. RunTypes /\ RestPart
  BY RunTypesNow, TypeParts DEF HubInv
<1>1. /\ runs[r].at = "live" /\ runs[r].seq < MaxHubSeq
      /\ runs' = [runs EXCEPT ![r].at = "ended", ![r].seq = @ + 1]
      /\ commits' = commits /\ unpub' = unpub /\ delayed' = delayed
  BY DEF RunEnd
<1>n. PICK n \in Nat : n = runs[r].seq + 1 /\ n \in 1..MaxHubSeq
  BY <1>0, <1>1 DEF RunTypes
<1>e. PICK e : e = HubEvent("end", r, n, "none", FALSE) /\ Publish(e)
  BY <1>n DEF RunEnd
<1>f. e.kind = "end" /\ e.from = r /\ e.seq = n /\ WellFormed(e) /\ ~IsFact(e)
  BY <1>0, <1>n, <1>e DEF HubEvent, WellFormed, HubEvents, IsFact
<1>2. \A q \in HubRuns : runs'[q] = IF q = r THEN [runs[r] EXCEPT !.at = "ended", !.seq = n] ELSE runs[q]
  BY <1>0, <1>1, <1>n DEF RestPart
<1>3. runs'[r].at = "ended" /\ runs'[r].seq = n /\ runs'[r].done = runs[r].done
  BY <1>0, <1>1, <1>2 DEF RestPart
<1>4. SourceOrdered(e) /\ Accepted(e)
  <2>1. hub.seen[r] # 0 /\ hub.seen[r] <= runs[r].seq /\ hub.seen[r] \in 0..MaxHubSeq /\ runs[r].seq \in 0..MaxHubSeq
    BY <1>0, <1>1 DEF RunTypes, SeenInv
  <2>2. n > hub.seen[r]
    BY <1>0, <1>n, <2>1 DEF RunTypes
  <2> QED BY <1>f, <2>1, <2>2 DEF SourceOrdered, Accepted, IsPreview
<1>5. RestPart'
  <2>1. n \in 0..MaxHubSeq
    BY <1>0, <1>n DEF RunTypes
  <2>2. runs' = [runs EXCEPT ![r] = [runs[r] EXCEPT !.at = "ended", !.seq = n]]
    BY <1>0, <1>1, <1>n DEF RestPart
  <2> QED BY <1>0, <1>1, <2>1, <2>2 DEF RestPart
<1>6. \A q \in HubRuns : hub'.seen[q] = IF q = r THEN 0 ELSE hub.seen[q]
  BY <1>e, <1>f, <1>4, RunSeen
<1>7. SeenInv'
  BY <1>0, <1>2, <1>3, <1>6 DEF RunTypes, SeenInv
<1>8. DelayInv'
  <2>1. \A d \in delayed : d.from = r => d.seq \in 1..n
    BY <1>0, <1>n DEF RunTypes, DelayInv
  <2>2. ASSUME NEW d \in delayed
        PROVE  /\ d.kind = "preview" /\ d.from \in HubRuns /\ d.subject \in HubSubjects
               /\ runs'[d.from].at # "new" /\ d.seq \in 1..runs'[d.from].seq
               /\ runs'[d.from].at = "live" /\ d.subject \in runs'[d.from].done => d.seq <= hub'.seen[d.from]
    <3>1. /\ d.kind = "preview" /\ d.from \in HubRuns /\ d.subject \in HubSubjects
          /\ runs[d.from].at # "new" /\ d.seq \in 1..runs[d.from].seq
          /\ runs[d.from].at = "live" /\ d.subject \in runs[d.from].done => d.seq <= hub.seen[d.from]
      BY <1>0 DEF RunTypes, DelayInv
    <3>2. CASE d.from = r
      BY <1>3, <1>6, <2>1, <3>1, <3>2
    <3>3. CASE d.from # r
      <4>1. runs'[d.from] = runs[d.from] /\ hub'.seen[d.from] = hub.seen[d.from]
        BY <1>2, <1>6, <3>1, <3>3
      <4> QED BY <3>1, <4>1
    <3> QED BY <3>2, <3>3
  <2> QED BY <1>1, <2>2 DEF DelayInv
<1>9. \A x \in Identities : x \in Settled' <=> (x \in Settled \/ Ends(e, x))
  <2> TAKE x \in Identities
  <2>1. Ends(e, x) <=> x[1] = r
    BY <1>f DEF Ends
  <2> QED BY <1>1, <1>2, <1>3, <2>1, SettledIs
<1> QED BY <1>e, <1>f, <1>1, <1>4, <1>5, <1>7, <1>8, <1>9, RunPublish

(* A preview, published at once or held back, keeps the invariant.         *)
LEMMA UpdateKeeps ==
  ASSUME HubInv, NEW r \in HubRuns, NEW s \in HubSubjects, NEW act \in BOOLEAN, Update(r, s, act)
  PROVE  HubInv'
<1>0. RunTypes /\ RestPart
  BY RunTypesNow, TypeParts DEF HubInv
<1>1. /\ runs[r].at = "live" /\ runs[r].seq < MaxHubSeq /\ s \notin runs[r].done
      /\ runs' = [runs EXCEPT ![r].seq = @ + 1]
      /\ commits' = commits /\ unpub' = unpub
  BY DEF Update
<1>n. PICK n \in Nat : n = runs[r].seq + 1 /\ n \in 1..MaxHubSeq
  BY <1>0, <1>1 DEF RunTypes
<1>e. PICK e : /\ e = HubEvent("preview", r, n, s, act)
               /\ \/ Publish(e) /\ delayed' = delayed
                  \/ delayed' = delayed \cup {e} /\ hub' = hub /\ sub' = sub /\ view' = view
  BY <1>n DEF Update
<1>f. e.kind = "preview" /\ e.from = r /\ e.seq = n /\ e.subject = s /\ e \in HubEvents /\ WellFormed(e) /\ ~IsFact(e)
  BY <1>0, <1>n, <1>e DEF HubEvent, WellFormed, HubEvents, IsFact
<1>2. \A q \in HubRuns : runs'[q] = IF q = r THEN [runs[r] EXCEPT !.seq = n] ELSE runs[q]
  BY <1>0, <1>1, <1>n DEF RestPart
<1>3. runs'[r].at = "live" /\ runs'[r].seq = n /\ runs'[r].done = runs[r].done
  BY <1>0, <1>1, <1>2 DEF RestPart
<1>4. hub.seen[r] # 0 /\ hub.seen[r] < n /\ SourceOrdered(e)
  <2>1. hub.seen[r] # 0 /\ hub.seen[r] <= runs[r].seq /\ hub.seen[r] \in 0..MaxHubSeq /\ runs[r].seq \in 0..MaxHubSeq
    BY <1>0, <1>1 DEF RunTypes, SeenInv
  <2>2. n > hub.seen[r] /\ hub.seen[r] < n
    BY <1>0, <1>n, <2>1 DEF RunTypes
  <2> QED BY <1>f, <2>1, <2>2 DEF SourceOrdered
<1>5. RestPart'
  <2>1. n \in 0..MaxHubSeq
    BY <1>0, <1>n DEF RunTypes
  <2>2. runs' = [runs EXCEPT ![r] = [runs[r] EXCEPT !.seq = n]]
    BY <1>0, <1>1, <1>n DEF RestPart
  <2>3. delayed' \subseteq HubEvents
    BY <1>0, <1>e, <1>f DEF RestPart
  <2> QED BY <1>0, <1>1, <2>1, <2>2, <2>3 DEF RestPart
<1>6. \A x \in Identities : x \in Settled' <=> x \in Settled
  BY <1>1, <1>2, <1>3, SettledIs
<1>7. Identity(e) \notin Settled'
  <2>1. Identity(e) = <<r, s>>
    BY <1>f DEF Identity
  <2> QED BY <1>1, <1>3, <2>1, SettledIs
<1>8. \A d \in delayed : d.from = r => d.seq \in 1..n /\ (runs[r].at = "live" /\ d.subject \in runs[r].done => d.seq <= hub.seen[r])
  BY <1>0, <1>n DEF RunTypes, DelayInv
<1>9. CASE Publish(e) /\ delayed' = delayed
  <2>1. \A q \in HubRuns : hub'.seen[q] = IF q = r THEN n ELSE hub.seen[q]
    BY <1>f, <1>4, <1>9, RunSeen
  <2>2. SeenInv'
    BY <1>0, <1>n, <1>2, <1>3, <2>1 DEF RunTypes, SeenInv
  <2>3. ASSUME NEW d \in delayed
        PROVE  /\ d.kind = "preview" /\ d.from \in HubRuns /\ d.subject \in HubSubjects
               /\ runs'[d.from].at # "new" /\ d.seq \in 1..runs'[d.from].seq
               /\ runs'[d.from].at = "live" /\ d.subject \in runs'[d.from].done => d.seq <= hub'.seen[d.from]
    <3>1. /\ d.kind = "preview" /\ d.from \in HubRuns /\ d.subject \in HubSubjects
          /\ runs[d.from].at # "new" /\ d.seq \in 1..runs[d.from].seq
          /\ runs[d.from].at = "live" /\ d.subject \in runs[d.from].done => d.seq <= hub.seen[d.from]
      BY <1>0 DEF RunTypes, DelayInv
    <3>2. CASE d.from = r
      <4>1. d.seq \in 1..n /\ d.seq <= n
        BY <1>8, <1>n, <3>2
      <4> QED BY <1>3, <2>1, <3>1, <3>2, <4>1
    <3>3. CASE d.from # r
      <4>1. runs'[d.from] = runs[d.from] /\ hub'.seen[d.from] = hub.seen[d.from]
        BY <1>2, <2>1, <3>1, <3>3
      <4> QED BY <3>1, <4>1
    <3> QED BY <3>2, <3>3
  <2>4. DelayInv'
    BY <1>9, <2>3 DEF DelayInv
  <2>5. \A x \in Identities : x \in Settled' <=> (x \in Settled \/ Ends(e, x))
    BY <1>6, <1>f DEF Ends
  <2> QED BY <1>f, <1>1, <1>5, <1>7, <1>9, <2>2, <2>4, <2>5, RunPublish
<1>10. CASE delayed' = delayed \cup {e} /\ hub' = hub /\ sub' = sub /\ view' = view
  <2>1. SeenInv'
    BY <1>0, <1>n, <1>2, <1>3, <1>4, <1>10 DEF RunTypes, SeenInv
  <2>2. ASSUME NEW d \in delayed
        PROVE  /\ d.kind = "preview" /\ d.from \in HubRuns /\ d.subject \in HubSubjects
               /\ runs'[d.from].at # "new" /\ d.seq \in 1..runs'[d.from].seq
               /\ runs'[d.from].at = "live" /\ d.subject \in runs'[d.from].done => d.seq <= hub'.seen[d.from]
    <3>1. /\ d.kind = "preview" /\ d.from \in HubRuns /\ d.subject \in HubSubjects
          /\ runs[d.from].at # "new" /\ d.seq \in 1..runs[d.from].seq
          /\ runs[d.from].at = "live" /\ d.subject \in runs[d.from].done => d.seq <= hub.seen[d.from]
      BY <1>0 DEF RunTypes, DelayInv
    <3>2. CASE d.from = r
      BY <1>1, <1>3, <1>8, <1>10, <3>1, <3>2
    <3>3. CASE d.from # r
      <4>1. runs'[d.from] = runs[d.from] /\ hub'.seen[d.from] = hub.seen[d.from]
        BY <1>2, <1>10, <3>1, <3>3
      <4> QED BY <3>1, <4>1
    <3> QED BY <3>2, <3>3
  <2>3. /\ e.kind = "preview" /\ e.from \in HubRuns /\ e.subject \in HubSubjects
        /\ runs'[e.from].at # "new" /\ e.seq \in 1..runs'[e.from].seq /\ e.subject \notin runs'[e.from].done
    BY <1>f, <1>1, <1>3, <1>n
  <2>4. DelayInv'
    BY <1>10, <2>2, <2>3 DEF DelayInv
  <2>5. HubTypeOK'
    <3>1. HubPart' /\ ViewPart' /\ SubOK(sub')
      BY <1>10, SubNow, TypeParts DEF HubInv, HubPart, ViewPart
    <3> QED BY <1>5, <3>1, TypePartsNext
  <2>6. Settled' = Settled
    BY <1>6 DEF Settled, Identities
  <2>7. LineInv' /\ NoticeInv' /\ FactInv'
    BY <1>1, <1>10, <2>6 DEF HubInv, LineInv, NoticeInv, NoLostNotice, FactInv, Unpublished
  <2> QED BY <2>1, <2>4, <2>5, <2>7 DEF HubInv
<1> QED BY <1>e, <1>9, <1>10

(* A preview published late keeps the invariant.                           *)
LEMMA DelayedKeeps ==
  ASSUME HubInv, NEW e \in delayed, PublishDelayed(e)
  PROVE  HubInv'
<1>0. RunTypes /\ RestPart
  BY RunTypesNow, TypeParts DEF HubInv
<1>1. /\ Publish(e) /\ delayed' = delayed \ {e} /\ commits' = commits /\ unpub' = unpub /\ runs' = runs
  BY DEF PublishDelayed
<1>r. PICK r \in HubRuns : e.from = r
  BY <1>0 DEF RunTypes
<1>2. /\ e.kind = "preview" /\ e.subject \in HubSubjects /\ e.seq \in Nat /\ e.seq \in 1..runs[r].seq
      /\ runs[r].at # "new" /\ e \in HubEvents /\ runs[r].seq \in 0..MaxHubSeq /\ hub.seen[r] \in 0..MaxHubSeq
      /\ runs[r].at = "live" /\ e.subject \in runs[r].done => e.seq <= hub.seen[r]
  BY <1>0, <1>r DEF RunTypes, DelayInv
<1>3. WellFormed(e) /\ ~IsFact(e)
  <2>1. e.seq \in 1..MaxHubSeq
    BY <1>0, <1>2 DEF RunTypes
  <2> QED BY <1>2, <1>r, <2>1 DEF WellFormed, IsFact
<1>4. RestPart'
  BY <1>0, <1>1 DEF RestPart
<1>5. Settled' = Settled /\ \A x : ~Ends(e, x)
  BY <1>1, <1>2 DEF Settled, Ends
<1>6. SourceOrdered(e) => hub.seen[r] # 0 /\ e.seq > hub.seen[r] /\ runs[r].at = "live" /\ e.subject \notin runs[r].done
  <2> HAVE SourceOrdered(e)
  <2>1. hub.seen[r] # 0 /\ e.seq > hub.seen[r]
    BY <1>2, <1>r DEF SourceOrdered
  <2>2. runs[r].at = "live"
    BY <1>0, <2>1 DEF RunTypes, SeenInv
  <2>3. ~(e.seq <= hub.seen[r])
    BY <1>0, <1>2, <2>1 DEF RunTypes
  <2> QED BY <1>2, <2>1, <2>2, <2>3
<1>7. Accepted(e) => Identity(e) \notin Settled'
  <2> HAVE Accepted(e)
  <2>1. runs[r].at = "live" /\ e.subject \notin runs[r].done
    BY <1>2, <1>6 DEF Accepted
  <2>2. Identity(e) = <<r, e.subject>>
    BY <1>r DEF Identity
  <2> QED BY <1>2, <1>5, <2>1, <2>2, SettledIs
<1>8. \A q \in HubRuns : hub'.seen[q] = hub.seen[q] \/ (q = r /\ SourceOrdered(e) /\ hub'.seen[q] = e.seq)
  <2>1. CASE SourceOrdered(e)
    BY <1>1, <1>2, <1>3, <1>r, <2>1, RunSeen
  <2>2. CASE ~SourceOrdered(e)
    BY <1>1, <1>3, <2>2, HubAfterIs DEF HubInv, Publish
  <2> QED BY <2>1, <2>2
<1>9. SeenInv'
  <2> SUFFICES ASSUME NEW q \in HubRuns
               PROVE  /\ runs[q].at = "new" => runs[q].seq = 0 /\ runs[q].done = {}
                      /\ runs[q].at # "live" => hub'.seen[q] = 0
                      /\ runs[q].at = "live" => hub'.seen[q] # 0 /\ hub'.seen[q] <= runs[q].seq
    BY <1>1 DEF SeenInv
  <2>1. e.seq # 0 /\ e.seq <= runs[r].seq
    BY <1>0, <1>2 DEF RunTypes
  <2>2. /\ runs[q].at = "new" => runs[q].seq = 0 /\ runs[q].done = {}
        /\ runs[q].at # "live" => hub.seen[q] = 0
        /\ runs[q].at = "live" => hub.seen[q] # 0 /\ hub.seen[q] <= runs[q].seq
    BY <1>0 DEF RunTypes, SeenInv
  <2>3. CASE hub'.seen[q] = hub.seen[q]
    BY <2>2, <2>3
  <2>4. CASE q = r /\ SourceOrdered(e) /\ hub'.seen[q] = e.seq
    BY <1>6, <2>1, <2>2, <2>4
  <2> QED BY <1>8, <2>3, <2>4
<1>10. DelayInv'
  <2>1. ASSUME NEW d \in delayed
        PROVE  /\ d.kind = "preview" /\ d.from \in HubRuns /\ d.subject \in HubSubjects
               /\ runs[d.from].at # "new" /\ d.seq \in 1..runs[d.from].seq
               /\ runs[d.from].at = "live" /\ d.subject \in runs[d.from].done => d.seq <= hub'.seen[d.from]
    <3>1. /\ d.kind = "preview" /\ d.from \in HubRuns /\ d.subject \in HubSubjects
          /\ runs[d.from].at # "new" /\ d.seq \in 1..runs[d.from].seq /\ d.seq \in Nat
          /\ runs[d.from].at = "live" /\ d.subject \in runs[d.from].done => d.seq <= hub.seen[d.from]
      BY <1>0 DEF RunTypes, DelayInv
    <3>2. CASE hub'.seen[d.from] = hub.seen[d.from]
      BY <3>1, <3>2
    <3>3. CASE d.from = r /\ SourceOrdered(e) /\ hub'.seen[d.from] = e.seq
      <4>1. d.seq <= hub.seen[r] => d.seq <= e.seq
        BY <1>0, <1>2, <1>6, <3>1, <3>3 DEF RunTypes
      <4> QED BY <3>1, <3>3, <4>1
    <3> QED BY <1>8, <3>1, <3>2, <3>3
  <2> QED BY <1>1, <2>1 DEF DelayInv
<1>11. \A x \in Identities : x \in Settled' <=> (x \in Settled \/ Ends(e, x))
  BY <1>5
<1> QED BY <1>1, <1>2, <1>3, <1>4, <1>7, <1>9, <1>10, <1>11, RunPublish

(* subscribe_with_snapshot keeps the invariant.                            *)
LEMMA SubscribeKeeps ==
  ASSUME HubInv, Subscribe
  PROVE  HubInv'
<1>0. /\ RestPart /\ HubPart /\ commits \in Nat /\ MaxHubCommits \in Nat /\ HubBuffer \in Nat /\ HubFences \in Nat
      /\ commits \in 0..MaxHubCommits
  BY TypeParts, EventHubAssumption DEF HubInv, RestPart
<1>1. /\ sub' = [NoSub EXCEPT !.on = TRUE, !.snap = commits]
      /\ view' = [facts |-> <<>>, shown |-> SeqSet(hub.live), settled |-> Settled]
      /\ commits' = commits /\ unpub' = unpub /\ runs' = runs /\ delayed' = delayed /\ hub' = hub
  BY DEF Subscribe
<1>2. sub' = [on |-> TRUE, snap |-> commits, events |-> <<>>, fenced |-> <<>>,
              completed |-> <<>>, lagged |-> FALSE, token |-> FALSE, waiting |-> FALSE]
  BY <1>1 DEF NoSub
<1>v. view'.facts = <<>> /\ view'.settled = Settled /\ view'.shown = SeqSet(hub.live)
  BY <1>1
<1>w. sub'.events = <<>> /\ sub'.snap = commits
  BY <1>2
<1>3. <<>> \in Seq(HubEvents) /\ <<>> \in Seq(Identities) /\ <<>> \in Seq(HubRuns) /\ <<>> \in Seq(Nat)
      /\ Len(<<>>) = 0 /\ 0 <= HubBuffer /\ 0 <= HubFences /\ 1..0 = {}
  BY <1>0
<1>4. SubOK(sub')
  <2>1. sub' \in SubType
    BY <1>0, <1>2, <1>3 DEF SubType
  <2> QED BY <1>2, <1>3, <2>1 DEF SubOK
<1>5. Settled \subseteq Identities /\ SeqSet(hub.live) \subseteq Identities
  BY <1>0, SeqSetIs DEF Settled, Identities, HubPart
<1>6. HubTypeOK'
  <2>1. RestPart' /\ HubPart'
    BY <1>0, <1>1 DEF RestPart, HubPart
  <2>2. ViewPart'
    BY <1>1, <1>3, <1>5 DEF ViewPart
  <2> QED BY <1>4, <2>1, <2>2, TypePartsNext
<1>7. SeenInv' /\ DelayInv'
  BY <1>1 DEF HubInv, SeenInv, DelayInv
<1>8. NoticeInv'
  BY <1>2 DEF NoticeInv, NoLostNotice
<1>9. LineInv'
  <2>1. Settled' = Settled
    BY <1>1 DEF Settled
  <2>2. Lines(<<>>, Settled, Settled)
    BY <1>3 DEF Lines
  <2>3. sub'.events = <<>> /\ view'.settled = Settled /\ view'.shown = SeqSet(hub.live)
    BY <1>v, <1>w
  <2> QED BY <1>1, <2>1, <2>2, <2>3 DEF LineInv, HubInv
<1>10. FactInv'
  <2>1. Placed(<<>>, <<>>, Unpublished, commits, commits)
    <3>1. (commits + 1)..commits = {}
      BY <1>0
    <3> QED BY <1>3, <3>1 DEF Placed
  <2>2. sub'.events = <<>> /\ view'.facts = <<>> /\ sub'.snap = commits /\ commits <= commits /\ Unpublished' = Unpublished
    <3>1. Unpublished' = Unpublished
      BY <1>1 DEF Unpublished
    <3> QED BY <1>0, <1>v, <1>w, <3>1
  <2> QED BY <1>1, <2>1, <2>2 DEF FactInv, HubInv
<1> QED BY <1>6, <1>7, <1>8, <1>9, <1>10 DEF HubInv

(* The notified receiver keeps the invariant.                              *)
LEMMA WakeKeeps ==
  ASSUME HubInv, Wake
  PROVE  HubInv'
<1>0. RestPart /\ HubPart /\ ViewPart /\ SubOK(sub)
  BY TypeParts, SubNow DEF HubInv
<1>1. /\ sub.waiting /\ sub.token /\ sub' = [sub EXCEPT !.waiting = FALSE, !.token = FALSE]
      /\ commits' = commits /\ unpub' = unpub /\ runs' = runs /\ delayed' = delayed /\ hub' = hub /\ view' = view
  BY DEF Wake
<1>2. /\ sub' \in SubType /\ sub'.on = sub.on /\ sub'.snap = sub.snap /\ sub'.events = sub.events /\ sub'.waiting = FALSE
      /\ sub'.lagged = sub.lagged /\ sub'.fenced = sub.fenced /\ sub'.completed = sub.completed
  BY <1>0, <1>1 DEF SubOK, SubType
<1>3. sub.on
  BY <1>0, <1>1 DEF SubOK, NoSub
<1>4. SubOK(sub')
  BY <1>0, <1>2, <1>3 DEF SubOK
<1>5. HubTypeOK'
  <2>1. RestPart' /\ HubPart' /\ ViewPart'
    BY <1>0, <1>1 DEF RestPart, HubPart, ViewPart
  <2> QED BY <1>4, <2>1, TypePartsNext
<1>6. NoticeInv'
  BY <1>4 DEF SubOK, NoticeInv, NoLostNotice, NoSub
<1>7. SeenInv' /\ DelayInv' /\ LineInv' /\ FactInv'
  BY <1>1, <1>2 DEF HubInv, SeenInv, DelayInv, LineInv, FactInv, Settled, Unpublished
<1> QED BY <1>5, <1>6, <1>7 DEF HubInv

(* Dropping a lagged subscription keeps the invariant.                     *)
LEMMA LaggedKeeps ==
  ASSUME HubInv, Lagged
  PROVE  HubInv'
<1>0. /\ RestPart /\ HubPart /\ commits \in Nat /\ MaxHubCommits \in Nat /\ HubBuffer \in Nat /\ HubFences \in Nat
  BY TypeParts, EventHubAssumption DEF HubInv, RestPart
<1>1. /\ sub' = NoSub /\ view' = NoView
      /\ commits' = commits /\ unpub' = unpub /\ runs' = runs /\ delayed' = delayed /\ hub' = hub
  BY DEF Lagged
<1>3. <<>> \in Seq(HubEvents) /\ <<>> \in Seq(Identities) /\ <<>> \in Seq(HubRuns) /\ <<>> \in Seq(Nat)
      /\ Len(<<>>) = 0 /\ 0 <= HubBuffer /\ 0 <= HubFences /\ 1..0 = {}
  BY <1>0
<1>4. SubOK(sub')
  <2>1. sub' \in SubType
    BY <1>0, <1>1, <1>3 DEF SubType, NoSub
  <2> QED BY <1>1, <1>3, <2>1 DEF SubOK, NoSub
<1>5. HubTypeOK'
  <2>1. RestPart' /\ HubPart'
    BY <1>0, <1>1 DEF RestPart, HubPart
  <2>2. ViewPart'
    BY <1>1, <1>3 DEF ViewPart, NoView
  <2> QED BY <1>4, <2>1, <2>2, TypePartsNext
<1>6. SeenInv' /\ DelayInv'
  BY <1>1 DEF HubInv, SeenInv, DelayInv
<1>7. NoticeInv'
  BY <1>1 DEF NoticeInv, NoLostNotice, NoSub
<1>8. LineInv'
  <2>1. Lines(<<>>, {}, Settled')
    BY <1>3 DEF Lines
  <2>2. sub'.events = <<>> /\ view'.settled = {} /\ view'.shown = {} /\ Settled' = Settled
    BY <1>1 DEF NoSub, NoView, Settled
  <2> QED BY <1>1, <2>1, <2>2 DEF LineInv, HubInv
<1>9. FactInv'
  <2>1. sub'.snap = 0 /\ ~sub'.on /\ 0 <= commits
    BY <1>0, <1>1 DEF NoSub
  <2> QED BY <1>1, <2>1 DEF FactInv, HubInv
<1> QED BY <1>5, <1>6, <1>7, <1>8, <1>9 DEF HubInv

(* What the consumer makes of an event.                                    *)
LEMMA AppliedIs ==
  ASSUME NEW v \in [facts : Seq(Nat), shown : SUBSET Identities, settled : SUBSET Identities],
         v.shown \cap v.settled = {}, NEW e \in HubEvents,
         e.kind # "session" => e.from \in HubRuns,
         e.kind \in {"preview", "done"} => e.subject \in HubSubjects,
         e.kind = "preview" => Identity(e) \notin v.settled,
         NEW w, w = Applied(v, e)
  PROVE  /\ w \in [facts : Seq(Nat), shown : SUBSET Identities, settled : SUBSET Identities]
         /\ w.shown \cap w.settled = {}
         /\ \A x \in w.settled : x \in v.settled \/ (x \in Identities /\ Ends(e, x))
         /\ IsFact(e) => w.facts = Append(v.facts, e.seq)
         /\ ~IsFact(e) => w.facts = v.facts
<1>0. /\ v.facts \in Seq(Nat) /\ v.shown \subseteq Identities /\ v.settled \subseteq Identities
      /\ v = [facts |-> v.facts, shown |-> v.shown, settled |-> v.settled] /\ e.seq \in Nat
      /\ e.kind \in {"session", "start", "preview", "done", "end"}
  BY DEF HubEvents
<1>1. CASE e.kind = "session"
  <2>1. w = [v EXCEPT !.facts = Append(v.facts, e.seq)]
    BY <1>1 DEF Applied
  <2>2. Append(v.facts, e.seq) \in Seq(Nat)
    BY <1>0
  <2>3. w = [facts |-> Append(v.facts, e.seq), shown |-> v.shown, settled |-> v.settled]
    BY <1>0, <2>1
  <2> QED BY <1>0, <1>1, <2>2, <2>3 DEF IsFact
<1>2. CASE e.kind = "start"
  <2>1. w = v
    BY <1>2 DEF Applied
  <2> QED BY <1>2, <2>1 DEF IsFact
<1>3. CASE e.kind = "preview"
  <2>1. w = [v EXCEPT !.shown = v.shown \cup {Identity(e)}]
    BY <1>3 DEF Applied
  <2>2. Identity(e) \in Identities /\ Identity(e) \notin v.settled
    BY <1>3 DEF Identity, Identities
  <2>3. w = [facts |-> v.facts, shown |-> v.shown \cup {Identity(e)}, settled |-> v.settled]
    BY <1>0, <2>1
  <2> QED BY <1>0, <1>3, <2>2, <2>3 DEF IsFact
<1>4. CASE e.kind = "done"
  <2>1. w = [v EXCEPT !.shown = v.shown \ {Identity(e)}, !.settled = v.settled \cup {Identity(e)}]
    BY <1>4 DEF Applied
  <2>2. Identity(e) \in Identities /\ Ends(e, Identity(e))
    BY <1>4 DEF Identity, Identities, Ends
  <2>3. w = [facts |-> v.facts, shown |-> v.shown \ {Identity(e)}, settled |-> v.settled \cup {Identity(e)}]
    BY <1>0, <2>1
  <2> QED BY <1>0, <1>4, <2>2, <2>3 DEF IsFact
<1>5. CASE e.kind = "end"
  <2> DEFINE S == {x \in v.shown : x[1] # e.from}
             T == v.settled \cup ({e.from} \X HubSubjects)
  <2>1. w = [v EXCEPT !.shown = S, !.settled = T]
    BY <1>5 DEF Applied
  <2>2. {e.from} \X HubSubjects \subseteq Identities /\ \A x \in {e.from} \X HubSubjects : Ends(e, x) /\ x[1] = e.from
    BY <1>5 DEF Identities, Ends
  <2>3. S \subseteq Identities /\ T \subseteq Identities /\ S \cap T = {}
        /\ \A x \in T : x \in v.settled \/ (x \in Identities /\ Ends(e, x))
    BY <1>0, <2>2
  <2> HIDE DEF S, T
  <2>4. w = [facts |-> v.facts, shown |-> S, settled |-> T]
    BY <1>0, <2>1
  <2> QED BY <1>0, <1>5, <2>3, <2>4 DEF IsFact
<1> QED BY <1>0, <1>1, <1>2, <1>3, <1>4, <1>5

(* take_next keeps the invariant.                                          *)
LEMMA ReceiveKeeps ==
  ASSUME HubInv, Receive
  PROVE  HubInv'
<1>0. /\ RestPart /\ HubPart /\ ViewPart /\ SubOK(sub) /\ commits \in Nat /\ MaxHubCommits \in Nat
      /\ HubBuffer \in Nat /\ HubFences \in Nat
  BY TypeParts, SubNow, EventHubAssumption DEF HubInv, RestPart
<1>1. /\ sub.on /\ ~sub.waiting /\ ~sub.lagged /\ TakeNext
      /\ commits' = commits /\ unpub' = unpub /\ runs' = runs /\ delayed' = delayed /\ hub' = hub
  BY DEF Receive
<1>q. PICK q \in Seq(HubEvents) : q = sub.events /\ Len(q) \in Nat /\ Len(q) <= HubBuffer
  BY <1>0 DEF SubOK, SubType
<1>s. /\ sub \in SubType /\ sub.snap \in Nat /\ Len(sub.fenced) <= HubFences /\ Len(sub.completed) <= HubFences
      /\ view.facts \in Seq(Nat) /\ view \in [facts : Seq(Nat), shown : SUBSET Identities, settled : SUBSET Identities]
  <2>1. sub \in SubType /\ sub.snap \in 0..MaxHubCommits /\ Len(sub.fenced) <= HubFences /\ Len(sub.completed) <= HubFences
    BY <1>0 DEF SubOK, SubType
  <2>2. sub.snap \in Nat
    BY <1>0, <2>1
  <2> QED BY <1>0, <2>1, <2>2 DEF ViewPart
<1>2. Lines(q, view.settled, Settled) /\ view.shown \cap view.settled = {}
  BY <1>q DEF HubInv, LineInv
<1>3. Placed(q, view.facts, Unpublished, sub.snap, commits)
  BY <1>1, <1>q DEF HubInv, FactInv
<1>4. \A i \in 1..Len(q) : ~Fresh(q[i]) => IsFact(q[i]) /\ q[i].seq <= sub.snap
  <2> TAKE i \in 1..Len(q)
  <2>1. q[i] \in HubEvents
    BY <1>q
  <2>2. q[i].seq \in Nat
    BY <2>1 DEF HubEvents
  <2> QED BY <1>s, <2>2 DEF Fresh, IsFact
<1>5. SeenInv' /\ DelayInv' /\ RestPart' /\ HubPart' /\ Settled' = Settled /\ Unpublished' = Unpublished
  BY <1>0, <1>1 DEF HubInv, SeenInv, DelayInv, RestPart, HubPart, Settled, Unpublished
<1> DEFINE hits == {i \in 1..Len(q) : Fresh(q[i])}
<1>g. SUFFICES ASSUME SubOK(sub'), ViewPart', view'.shown \cap view'.settled = {},
                      Lines(sub'.events, view'.settled, Settled), sub'.snap = sub.snap,
                      Placed(sub'.events, view'.facts, Unpublished, sub.snap, commits)
               PROVE  HubInv'
  <2>1. CASE hits = {}
    <3>1. sub' = [sub EXCEPT !.events = <<>>, !.waiting = TRUE] /\ view' = view
      BY <1>1, <1>q, <2>1 DEF TakeNext
    <3>2. \A j \in 1..Len(q) : IsFact(q[j]) /\ q[j].seq <= sub.snap
      BY <1>4, <2>1
    <3>3. /\ sub' = [on |-> sub.on, snap |-> sub.snap, events |-> <<>>, fenced |-> sub.fenced,
                     completed |-> sub.completed, lagged |-> sub.lagged, token |-> sub.token, waiting |-> TRUE]
      BY <1>s, <3>1 DEF SubType
    <3>4. <<>> \in Seq(HubEvents) /\ Len(<<>>) = 0 /\ 0 <= HubBuffer /\ 1..0 = {}
      BY <1>0
    <3>5. sub' \in SubType
      BY <1>s, <3>3, <3>4 DEF SubType
    <3>6. sub'.on = sub.on /\ sub'.events = <<>> /\ sub'.lagged = sub.lagged /\ sub'.snap = sub.snap
          /\ sub'.fenced = sub.fenced /\ sub'.completed = sub.completed
      BY <3>3
    <3>7. SubOK(sub')
      BY <1>1, <1>s, <3>4, <3>5, <3>6 DEF SubOK
    <3>8. Lines(<<>>, view.settled, Settled)
      BY <1>2, <3>4 DEF Lines
    <3>9. Placed(<<>>, view.facts, Unpublished, sub.snap, commits)
      BY <1>0, <1>s, <1>3, <3>2, EmptyPlaced
    <3>10. ViewPart' /\ view'.shown \cap view'.settled = {}
      BY <1>0, <1>2, <3>1 DEF ViewPart
    <3> QED BY <1>g, <3>1, <3>6, <3>7, <3>8, <3>9, <3>10
  <2>2. CASE hits # {}
    <3> DEFINE p == CHOOSE i \in hits : \A j \in hits : i <= j
    <3>1. \E i \in hits : \A j \in hits : i <= j
      <4>1. hits \in SUBSET Nat
        OBVIOUS
      <4> QED BY <2>2, <4>1, Least
    <3>2. p \in hits /\ \A j \in hits : p <= j
      BY <3>1
    <3>3. sub' = [sub EXCEPT !.events = SubSeq(q, p + 1, Len(q))] /\ view' = Applied(view, q[p])
      BY <1>1, <1>q, <2>2 DEF TakeNext
    <3> HIDE DEF p
    <3>4. p \in 1..Len(q) /\ Fresh(q[p])
      BY <3>2
    <3>5. \A j \in 1..(p - 1) : IsFact(q[j]) => q[j].seq <= sub.snap
      <4> TAKE j \in 1..(p - 1)
      <4>1. j \in 1..Len(q) /\ ~(p <= j)
        BY <1>q, <3>4
      <4>2. ~Fresh(q[j])
        BY <3>2, <4>1
      <4> QED BY <1>4, <4>1, <4>2
    <3>6. PICK t : t = SubSeq(q, p + 1, Len(q)) /\ Behind(q, p, t)
      BY <3>4, TailOf
    <3>7. sub' = [sub EXCEPT !.events = t]
      BY <3>3, <3>6
    <3>8. sub' \in SubType /\ sub'.on = sub.on /\ sub'.events = t /\ sub'.lagged = sub.lagged /\ sub'.snap = sub.snap
          /\ sub'.fenced = sub.fenced /\ sub'.completed = sub.completed /\ sub'.waiting = sub.waiting
      BY <1>s, <3>6, <3>7 DEF SubType, Behind
    <3>9. Len(t) <= HubBuffer
      BY <1>0, <1>q, <3>4, <3>6 DEF Behind
    <3>10. SubOK(sub')
      BY <1>1, <1>s, <3>8, <3>9 DEF SubOK
    <3>11. /\ q[p] \in HubEvents /\ (q[p].kind # "session" => q[p].from \in HubRuns)
           /\ q[p].kind \in {"preview", "done"} => q[p].subject \in HubSubjects
           /\ q[p].kind = "preview" => Identity(q[p]) \notin view.settled
      BY <1>2, <3>4 DEF Lines
    <3>12. /\ view' \in [facts : Seq(Nat), shown : SUBSET Identities, settled : SUBSET Identities]
           /\ view'.shown \cap view'.settled = {}
           /\ \A x \in view'.settled : x \in view.settled \/ (x \in Identities /\ Ends(q[p], x))
           /\ IsFact(q[p]) => view'.facts = Append(view.facts, q[p].seq)
           /\ ~IsFact(q[p]) => view'.facts = view.facts
      <4>v. PICK v \in [facts : Seq(Nat), shown : SUBSET Identities, settled : SUBSET Identities] : v = view
        BY <1>s
      <4>w. PICK w : w = Applied(v, q[p]) /\ w = view'
        BY <3>3, <4>v
      <4>e. PICK e \in HubEvents : e = q[p]
        BY <3>11
      <4>1. /\ v.shown \cap v.settled = {} /\ (e.kind # "session" => e.from \in HubRuns)
            /\ e.kind \in {"preview", "done"} => e.subject \in HubSubjects
            /\ e.kind = "preview" => Identity(e) \notin v.settled
            /\ w = Applied(v, e)
        BY <1>2, <3>11, <4>v, <4>w, <4>e
      <4>2. /\ w \in [facts : Seq(Nat), shown : SUBSET Identities, settled : SUBSET Identities]
            /\ w.shown \cap w.settled = {}
            /\ \A x \in w.settled : x \in v.settled \/ (x \in Identities /\ Ends(e, x))
            /\ IsFact(e) => w.facts = Append(v.facts, e.seq)
            /\ ~IsFact(e) => w.facts = v.facts
        BY <4>1, AppliedIs
      <4> QED BY <4>v, <4>w, <4>e, <4>2
    <3>13. Lines(t, view'.settled, Settled)
      <4>1. PICK more, told, done : more = view'.settled /\ told = view.settled /\ done = Settled
        OBVIOUS
      <4>2. \A x \in more : x \in told \/ (x \in Identities /\ Ends(q[p], x))
        BY <3>12, <4>1
      <4>3. Lines(q, told, done)
        BY <1>2, <4>1
      <4>b. Behind(q, p, t) /\ p \in 1..Len(q)
        BY <3>4, <3>6
      <4>4. Lines(t, more, done)
        BY <4>b, <4>2, <4>3, TailLines
      <4> QED BY <4>1, <4>4
    <3>14. IsFact(q[p]) => q[p].seq > sub.snap
      BY <3>4 DEF Fresh, IsFact
    <3>15. Placed(t, view'.facts, Unpublished, sub.snap, commits)
      <4>1. view'.facts \in Seq(Nat)
        BY <3>12
      <4>f. PICK f \in Seq(Nat) : f = view.facts
        BY <1>s
      <4>g. PICK g \in Seq(Nat) : g = view'.facts
        BY <4>1
      <4>c. PICK snap \in Nat, top \in Nat : snap = sub.snap /\ top = commits
        BY <1>0, <1>s
      <4>2. PICK U : U = Unpublished
        OBVIOUS
      <4>3. /\ Placed(q, f, U, snap, top) /\ \A j \in 1..(p - 1) : IsFact(q[j]) => q[j].seq <= snap
            /\ IsFact(q[p]) => q[p].seq > snap /\ g = Append(f, q[p].seq)
            /\ ~IsFact(q[p]) => g = f
        BY <1>3, <3>5, <3>12, <3>14, <4>2, <4>c, <4>f, <4>g
      <4>b. Behind(q, p, t) /\ p \in 1..Len(q)
        BY <3>4, <3>6
      <4>4. Placed(t, g, U, snap, top)
        BY <4>b, <4>3, TailPlaced
      <4> QED BY <4>2, <4>4, <4>c, <4>f, <4>g
    <3> QED BY <1>g, <3>8, <3>10, <3>12, <3>13, <3>15 DEF ViewPart
  <2> QED BY <2>1, <2>2
<1>6. HubTypeOK'
  BY <1>5, <1>g, TypePartsNext
<1>7. NoticeInv'
  BY <1>g DEF SubOK, NoticeInv, NoLostNotice, NoSub
<1>8. LineInv'
  BY <1>1, <1>5, <1>g DEF LineInv, HubInv
<1>9. FactInv'
  BY <1>1, <1>5, <1>g DEF FactInv, HubInv
<1> QED BY <1>5, <1>6, <1>7, <1>8, <1>9 DEF HubInv

(* The hub starts in the invariant.                                        *)
LEMMA HubInitially ==
  ASSUME HubInit
  PROVE  HubInv
<1>0. /\ commits = 0 /\ unpub = [l \in HubLanes |-> 0] /\ delayed = {}
      /\ runs = [r \in HubRuns |-> [at |-> "new", seq |-> 0, done |-> {}]]
      /\ hub = [seen |-> [r \in HubRuns |-> 0], live |-> <<>>, fenced |-> <<>>]
      /\ sub = NoSub /\ view = NoView
  BY DEF HubInit
<1>1. <<>> \in Seq(HubEvents) /\ <<>> \in Seq(Identities) /\ <<>> \in Seq(HubRuns) /\ <<>> \in Seq(Nat)
      /\ Len(<<>>) = 0 /\ 0 <= HubBuffer /\ 0 <= HubFences /\ 1..0 = {} /\ 0 \in 0..MaxHubSeq /\ 0 \in 0..MaxHubCommits
  BY EventHubAssumption
<1>2. SubOK(sub)
  <2>1. sub \in SubType
    BY <1>0, <1>1 DEF SubType, NoSub
  <2> QED BY <1>0, <1>1, <2>1 DEF SubOK, NoSub
<1>3. RestPart
  BY <1>0, <1>1 DEF RestPart
<1>4. HubPart
  BY <1>0, <1>1 DEF HubPart
<1>5. ViewPart
  BY <1>0, <1>1 DEF ViewPart, NoView
<1>6. HubTypeOK
  BY <1>2, <1>3, <1>4, <1>5, TypeParts
<1>7. SeenInv /\ DelayInv
  BY <1>0 DEF SeenInv, DelayInv
<1>8. NoticeInv
  BY <1>0 DEF NoticeInv, NoLostNotice, NoSub
<1>9. LineInv
  <2>1. SeqSet(hub.live) = {}
    BY <1>0, <1>1 DEF SeqSet
  <2>2. sub.events = <<>> /\ view.settled = {} /\ view.shown = {}
    BY <1>0 DEF NoSub, NoView
  <2>3. Lines(<<>>, {}, Settled)
    BY <1>1 DEF Lines
  <2> QED BY <2>1, <2>2, <2>3 DEF LineInv
<1>10. FactInv
  BY <1>0 DEF FactInv, NoSub
<1> QED BY <1>6, <1>7, <1>8, <1>9, <1>10 DEF HubInv

(* Every step of the hub keeps the invariant.                              *)
LEMMA HubStep ==
  ASSUME HubInv, [HubNext]_hubVars
  PROVE  HubInv'
<1>1. CASE HubNext
  BY <1>1, CommitKeeps, FactKeeps, StartKeeps, EndKeeps, UpdateKeeps, DelayedKeeps, DoneKeeps, SubscribeKeeps,
     ReceiveKeeps, WakeKeeps, LaggedKeeps DEF HubNext
<1>2. CASE UNCHANGED hubVars
  <2>1. /\ commits' = commits /\ unpub' = unpub /\ runs' = runs /\ delayed' = delayed /\ hub' = hub
        /\ sub' = sub /\ view' = view
    BY <1>2 DEF hubVars
  <2>2. HubTypeOK'
    BY <2>1 DEF HubInv, HubTypeOK
  <2> QED BY <2>1, <2>2 DEF HubInv, SeenInv, DelayInv, LineInv, NoticeInv, NoLostNotice, FactInv, Settled, Unpublished
<1> QED BY <1>1, <1>2

(* The inductive invariant of the event hub and its subscription: what the *)
(* hub has seen of every run, which previews are still to come, the order  *)
(* of the queue, and the place of every fact.                              *)
THEOREM HubInvariant == HubSpec => []HubInv
  BY HubInitially, HubStep, PTL DEF HubSpec

(* Every reachable state of the hub is well typed, and no queue exceeds    *)
(* its bound.                                                              *)
THEOREM HubTypeCorrect == HubSpec => []HubTypeOK
<1>1. HubInv => HubTypeOK
  BY DEF HubInv
<1> QED BY <1>1, HubInvariant, PTL

(* The receiver of a subscription never sleeps on an event or on a lag:    *)
(* the one-slot notification is there (recv, enqueue).                     *)
THEOREM NoticesNotLost == HubSpec => []NoLostNotice
<1>1. HubInv => NoLostNotice
  BY DEF HubInv, NoticeInv
<1> QED BY <1>1, HubInvariant, PTL

(* No delayed preview shows a settled subject as live again, for any       *)
(* number of runs and subjects and fences of any size (accept,             *)
(* enqueue_preview).                                                       *)
THEOREM SettledWorkStays == HubSpec => []SettledStaysSettled
<1>1. HubInv => SettledStaysSettled
  BY DEF HubInv, LineInv, SettledStaysSettled
<1> QED BY <1>1, HubInvariant, PTL

(* A set with at most one member has the cardinality one reads off it.     *)
LEMMA CountIs ==
  ASSUME NEW S, \A a, b \in S : a = b
  PROVE  Cardinality(S) = IF S = {} THEN 0 ELSE 1
<1>1. CASE S = {}
  BY <1>1, FS_EmptySet
<1>2. CASE S # {}
  <2>1. PICK a : S = {a}
    BY <1>2
  <2> QED BY <1>2, <2>1, FS_Singleton
<1> QED BY <1>1, <1>2

(* What is in one place each is counted once.                              *)
LEMMA FactsPlaced ==
  ASSUME HubInv
  PROVE  SnapshotThenFacts
<1> SUFFICES ASSUME sub.on, ~sub.lagged, NEW n \in 1..commits
             PROVE  IF n <= sub.snap THEN Times(n, view.facts) = 0
                    ELSE Times(n, view.facts)
                           + Cardinality({i \in 1..Len(sub.events) :
                                            sub.events[i].kind = "session" /\ sub.events[i].seq = n})
                           + Cardinality({l \in HubLanes : unpub[l] = n}) = 1
  BY DEF SnapshotThenFacts
<1> DEFINE A == {i \in 1..Len(view.facts) : view.facts[i] = n}
           B == {i \in 1..Len(sub.events) : sub.events[i].kind = "session" /\ sub.events[i].seq = n}
           C == {l \in HubLanes : unpub[l] = n}
<1>0. commits \in Nat /\ sub.snap \in Nat /\ n \in Nat /\ n # 0 /\ view.facts \in Seq(Nat)
  BY EventHubAssumption DEF HubInv, HubTypeOK
<1>1. Placed(sub.events, view.facts, Unpublished, sub.snap, commits)
  BY DEF HubInv, FactInv
<1>2. Times(n, view.facts) = Cardinality(A)
  BY DEF Times
<1>3. \A a, b \in A : a = b
  BY <1>1 DEF Placed
<1>4. \A a, b \in B : a = b
  BY <1>1 DEF Placed, IsFact
<1>5. \A a, b \in C : a = b
  BY <1>0 DEF HubInv, FactInv
<1>6. \A a \in A : view.facts[a] = n /\ view.facts[a] > sub.snap /\ n \notin Unpublished /\ B = {}
  BY <1>1 DEF Placed, IsFact
<1>7. C # {} <=> n \in Unpublished
  BY <1>0 DEF Unpublished
<1>8. B # {} => n \notin Unpublished
  BY <1>1 DEF Placed, IsFact
<1>9. n > sub.snap => A # {} \/ B # {} \/ C # {}
  <2> HAVE n > sub.snap
  <2>1. n \in (sub.snap + 1)..commits
    BY <1>0
  <2> QED BY <1>1, <1>7, <2>1 DEF Placed, IsFact
<1>10. /\ Cardinality(A) = IF A = {} THEN 0 ELSE 1
       /\ Cardinality(B) = IF B = {} THEN 0 ELSE 1
       /\ Cardinality(C) = IF C = {} THEN 0 ELSE 1
  <2> HIDE DEF A, B, C
  <2> QED BY <1>3, <1>4, <1>5, CountIs
<1> HIDE DEF A, B, C
<1>11. CASE n <= sub.snap
  <2>1. A = {}
    BY <1>0, <1>6, <1>11
  <2> QED BY <1>2, <1>10, <1>11, <2>1
<1>12. CASE ~(n <= sub.snap)
  <2>1. n > sub.snap
    BY <1>0, <1>12
  <2>2. Cardinality(A) + Cardinality(B) + Cardinality(C) = 1
    BY <1>6, <1>7, <1>8, <1>9, <1>10, <2>1
  <2> QED BY <1>2, <1>12, <2>2 DEF B, C
<1> QED BY <1>11, <1>12

(* Between its snapshot and a lag a subscription loses and repeats no      *)
(* durable fact, for any number of writers and any buffer                  *)
(* (subscribe_with_snapshot, take_next).                                   *)
THEOREM FactsOnce == HubSpec => []SnapshotThenFacts
  BY HubInvariant, FactsPlaced, PTL

-----------------------------------------------------------------------------
(* Automatic compaction: a finite set in order.                            *)

(* A strict order in which any two elements of S are comparable.           *)
StrictOrder(S, R) ==
  /\ \A p \in S : <<p, p>> \notin R
  /\ \A p, q \in S : p # q => <<p, q>> \in R \/ <<q, p>> \in R
  /\ \A p, q, r \in S : <<p, q>> \in R /\ <<q, r>> \in R => <<p, r>> \in R
Smaller(S, R, p) == {q \in S : <<q, p>> \in R}

(* f lists S from the first element to the last.                           *)
Lists(f, S, R) ==
  /\ f \in Seq(S)
  /\ \A p \in S : \E x \in 1..Len(f) : f[x] = p
  /\ \A x, y \in 1..Len(f) : x < y => <<f[x], f[y]>> \in R

(* An element further on has more before it.                               *)
LEMMA MoreBefore ==
  ASSUME NEW S, NEW R, IsFiniteSet(S), StrictOrder(S, R), NEW p \in S, NEW q \in S, <<p, q>> \in R
  PROVE  Cardinality(Smaller(S, R, p)) < Cardinality(Smaller(S, R, q))
<1> DEFINE P == Smaller(S, R, p)
           Q == Smaller(S, R, q)
<1>1. IsFiniteSet(P) /\ IsFiniteSet(Q)
  BY FS_Subset DEF Smaller
<1>2. P \subseteq Q /\ p \in Q /\ p \notin P
  BY DEF Smaller, StrictOrder
<1>3. Cardinality(P) \in Nat /\ Cardinality(Q) \in Nat
  BY <1>1, FS_CardinalityType
<1>4. P \in SUBSET Q /\ P # Q
  BY <1>2
<1>5. Cardinality(P) <= Cardinality(Q) /\ (Cardinality(Q) = Cardinality(P) => Q = P)
  BY <1>1, <1>4, FS_Subset
<1> QED BY <1>3, <1>4, <1>5

(* InOrder lists its set.                                                  *)
LEMMA InOrderLists ==
  ASSUME NEW S, NEW R, IsFiniteSet(S), StrictOrder(S, R)
  PROVE  Lists(InOrder(S, R), S, R) /\ Len(InOrder(S, R)) = Cardinality(S)
<1> DEFINE n == Cardinality(S)
           rank == [p \in S |-> Cardinality(Smaller(S, R, p))]
           f == InOrder(S, R)
<1>1. n \in Nat
  BY FS_CardinalityType
<1>2. \A p \in S : rank[p] \in 0..(n - 1)
  <2> SUFFICES ASSUME NEW p \in S PROVE rank[p] \in 0..(n - 1)
    OBVIOUS
  <2>1. Smaller(S, R, p) \in SUBSET S /\ p \in S /\ p \notin Smaller(S, R, p)
    BY DEF Smaller, StrictOrder
  <2>2. IsFiniteSet(Smaller(S, R, p)) /\ Cardinality(Smaller(S, R, p)) <= n
        /\ (n = Cardinality(Smaller(S, R, p)) => S = Smaller(S, R, p))
    BY <2>1, FS_Subset
  <2>3. Cardinality(Smaller(S, R, p)) \in Nat
    BY <2>2, FS_CardinalityType
  <2> QED BY <1>1, <2>1, <2>2, <2>3
<1>3. \A p, q \in S : <<p, q>> \in R => rank[p] < rank[q]
  BY MoreBefore
<1>4. \A p, q \in S : rank[p] = rank[q] => p = q
  <2> SUFFICES ASSUME NEW p \in S, NEW q \in S, rank[p] = rank[q], p # q PROVE FALSE
    OBVIOUS
  <2>1. <<p, q>> \in R \/ <<q, p>> \in R
    BY DEF StrictOrder
  <2>2. rank[p] \in Int /\ rank[q] \in Int
    BY <1>1, <1>2
  <2> QED BY <1>3, <2>1, <2>2
<1>5. rank \in Injection(S, 0..(n - 1))
  <2>1. rank \in [S -> 0..(n - 1)]
    BY <1>2
  <2> HIDE DEF rank, n
  <2> QED BY <1>4, <2>1, Fun_IsInj
<1>6. IsFiniteSet(0..(n - 1)) /\ Cardinality(0..(n - 1)) = n
  BY <1>1, FS_Interval
<1>7. rank \in Surjection(S, 0..(n - 1))
  BY <1>5, <1>6, FS_Injection
<1>8. \A k \in 0..(n - 1) : \E p \in S : rank[p] = k
  <2> HIDE DEF rank, n
  <2> QED BY <1>7, Fun_SurjectionProperties
<1>9. f = [x \in 1..n |-> CHOOSE p \in S : rank[p] = x - 1]
  <2>1. \A p \in S : rank[p] = Cardinality({q \in S : <<q, p>> \in R})
    BY DEF Smaller
  <2>2. \A x \in 1..n : (CHOOSE p \in S : rank[p] = x - 1)
                          = CHOOSE p \in S : Cardinality({q \in S : <<q, p>> \in R}) = x - 1
    <3> HIDE DEF rank
    <3> QED BY <2>1
  <2>3. f = [x \in 1..n |-> CHOOSE p \in S : Cardinality({q \in S : <<q, p>> \in R}) = x - 1]
    BY DEF InOrder
  <2> HIDE DEF f, rank, n
  <2> QED BY <2>2, <2>3
<1>10. \A x \in 1..n : f[x] \in S /\ rank[f[x]] = x - 1
  <2> SUFFICES ASSUME NEW x \in 1..n PROVE f[x] \in S /\ rank[f[x]] = x - 1
    OBVIOUS
  <2>1. x - 1 \in 0..(n - 1)
    BY <1>1
  <2>2. f[x] = CHOOSE p \in S : rank[p] = x - 1
    BY <1>9
  <2> HIDE DEF f, rank
  <2> QED BY <1>8, <2>1, <2>2
<1> HIDE DEF f, rank
<1>11. f \in [1..n -> S]
  BY <1>9, <1>10
<1>12. f \in Seq(S) /\ Len(f) = n
  BY <1>1, <1>11
<1>13. \A p \in S : \E x \in 1..n : f[x] = p
  <2> SUFFICES ASSUME NEW p \in S PROVE \E x \in 1..n : f[x] = p
    OBVIOUS
  <2>1. rank[p] \in 0..(n - 1)
    BY <1>2
  <2>2. rank[p] + 1 \in 1..n /\ (rank[p] + 1) - 1 = rank[p]
    BY <1>1, <2>1
  <2> QED BY <1>4, <1>10, <2>2
<1>14. \A x, y \in 1..n : x < y => <<f[x], f[y]>> \in R
  <2> SUFFICES ASSUME NEW x \in 1..n, NEW y \in 1..n, x < y PROVE <<f[x], f[y]>> \in R
    OBVIOUS
  <2>1. f[x] \in S /\ f[y] \in S /\ rank[f[x]] = x - 1 /\ rank[f[y]] = y - 1
    BY <1>10
  <2>2. f[x] # f[y] /\ ~(rank[f[y]] < rank[f[x]])
    BY <1>1, <2>1
  <2> QED BY <1>3, <2>1, <2>2 DEF StrictOrder
<1> QED BY <1>12, <1>13, <1>14 DEF Lists, f

LEMMA ListType ==
  ASSUME NEW S, NEW R, NEW f, Lists(f, S, R)
  PROVE  f \in Seq(S) /\ Len(f) \in Nat /\ \A x \in 1..Len(f) : f[x] \in S
<1>1. f \in Seq(S)
  BY DEF Lists
<1> QED BY <1>1

(* One step of the comparison of two lists.                                *)
LEMMA NotAfter ==
  ASSUME NEW S, NEW R, StrictOrder(S, R), NEW f, NEW g, Lists(f, S, R), Lists(g, S, R),
         NEW x \in 1..Len(f), x \in 1..Len(g), \A y \in 1..(x - 1) : f[y] = g[y], f[x] # g[x]
  PROVE  <<g[x], f[x]>> \in R
<1>1. f[x] \in S
  BY DEF Lists
<1>2. PICK y \in 1..Len(g) : g[y] = f[x]
  BY <1>1 DEF Lists
<1>3. Len(g) \in Nat /\ Len(f) \in Nat
  BY ListType
<1>4. CASE y < x
  <2>1. y \in 1..Len(f) /\ y \in 1..(x - 1)
    BY <1>3, <1>4
  <2>2. f[y] = f[x] /\ <<f[y], f[x]>> \in R
    BY <1>2, <1>4, <2>1 DEF Lists
  <2> QED BY <1>1, <2>2 DEF StrictOrder
<1>5. CASE x < y
  BY <1>2, <1>5 DEF Lists
<1>6. y # x
  BY <1>2
<1> QED BY <1>3, <1>4, <1>5, <1>6

LEMMA SamePrefix ==
  ASSUME NEW S, NEW R, StrictOrder(S, R), NEW f, NEW g, Lists(f, S, R), Lists(g, S, R)
  PROVE  \A x \in 1..Len(f) : x \in 1..Len(g) => f[x] = g[x]
<1> DEFINE N == {x \in 1..Len(f) : x \in 1..Len(g) /\ f[x] # g[x]}
<1> SUFFICES ASSUME N # {} PROVE FALSE
  OBVIOUS
<1>1. Len(f) \in Nat /\ Len(g) \in Nat
  BY ListType
<1>2. N \in SUBSET Nat
  BY <1>1
<1>3. PICK x \in N : \A m \in N : x <= m
  <2> HIDE DEF N
  <2> QED BY <1>2, Least
<1>4. \A y \in 1..(x - 1) : f[y] = g[y]
  BY <1>1, <1>3
<1>5. x \in 1..Len(f) /\ x \in 1..Len(g) /\ f[x] # g[x]
  BY <1>3
<1> HIDE DEF N
<1>6. <<g[x], f[x]>> \in R /\ <<f[x], g[x]>> \in R
  BY <1>4, <1>5, NotAfter
<1>7. f[x] \in S /\ g[x] \in S
  BY <1>5, ListType
<1> QED BY <1>6, <1>7 DEF StrictOrder

LEMMA NoLonger ==
  ASSUME NEW S, NEW R, StrictOrder(S, R), NEW f, NEW g, Lists(f, S, R), Lists(g, S, R)
  PROVE  Len(g) <= Len(f)
<1>1. Len(f) \in Nat /\ Len(g) \in Nat
  BY ListType
<1> SUFFICES ASSUME Len(f) < Len(g) PROVE FALSE
  BY <1>1
<1> DEFINE z == Len(f) + 1
<1>2. z \in 1..Len(g)
  BY <1>1
<1>3. g[z] \in S
  BY <1>2 DEF Lists
<1>4. PICK y \in 1..Len(f) : f[y] = g[z]
  BY <1>3 DEF Lists
<1>5. y \in 1..Len(g) /\ y < z
  BY <1>1
<1>6. g[y] = f[y]
  BY <1>5, SamePrefix
<1> HIDE DEF z
<1>7. <<g[y], g[z]>> \in R
  BY <1>2, <1>5 DEF Lists
<1> QED BY <1>3, <1>4, <1>6, <1>7 DEF StrictOrder

(* There is one list of a set.                                             *)
LEMMA OneList ==
  ASSUME NEW S, NEW R, StrictOrder(S, R), NEW f, NEW g, Lists(f, S, R), Lists(g, S, R)
  PROVE  f = g
<1>1. Len(f) \in Nat /\ Len(g) \in Nat /\ f \in Seq(S) /\ g \in Seq(S)
  BY DEF Lists
<1>2. Len(f) <= Len(g) /\ Len(g) <= Len(f)
  BY NoLonger
<1>3. Len(f) = Len(g)
  BY <1>1, <1>2
<1>4. \A x \in 1..Len(f) : f[x] = g[x]
  BY <1>3, SamePrefix
<1> QED BY <1>1, <1>3, <1>4, SeqEqual

LEMMA InOrderIs ==
  ASSUME NEW S, NEW R, IsFiniteSet(S), StrictOrder(S, R), NEW f, Lists(f, S, R)
  PROVE  InOrder(S, R) = f /\ Cardinality(S) = Len(f)
<1>1. Lists(InOrder(S, R), S, R) /\ Len(InOrder(S, R)) = Cardinality(S)
  BY InOrderLists
<1> QED BY <1>1, OneList

(* Only the order of the set's own elements matters.                       *)
LEMMA InOrderSame ==
  ASSUME NEW S, NEW R, NEW Q, IsFiniteSet(S), StrictOrder(S, R),
         \A p, q \in S : <<p, q>> \in R <=> <<p, q>> \in Q
  PROVE  StrictOrder(S, Q) /\ InOrder(S, Q) = InOrder(S, R)
<1>1. StrictOrder(S, Q)
  BY DEF StrictOrder
<1>2. Lists(InOrder(S, R), S, R)
  BY InOrderLists
<1>3. PICK f : f = InOrder(S, R)
  OBVIOUS
<1>4. f \in Seq(S) /\ \A x \in 1..Len(f) : f[x] \in S
  BY <1>2, <1>3 DEF Lists
<1>5. Lists(f, S, Q)
  BY <1>2, <1>3, <1>4 DEF Lists
<1> QED BY <1>1, <1>3, <1>5, InOrderIs

(* What comes first is listed first.                                       *)
LEMMA ListsConcat ==
  ASSUME NEW S, NEW T, NEW R, NEW f, NEW g, Lists(f, S, R), Lists(g, T, R),
         \A p \in S : \A q \in T : <<p, q>> \in R
  PROVE  Lists(f \o g, S \cup T, R)
<1>4. Lists(f, S, R) /\ Lists(g, T, R)
  OBVIOUS
<1>5. PICK m \in Nat : m = Len(f)
  BY <1>4 DEF Lists
<1>6. PICK n \in Nat : n = Len(g)
  BY <1>4 DEF Lists
<1>7. f \in Seq(S \cup T) /\ g \in Seq(S \cup T)
  <2>1. f \in Seq(S) /\ g \in Seq(T)
    BY <1>4 DEF Lists
  <2> QED BY <2>1
<1>8. PICK h : h = f \o g
  OBVIOUS
<1>9. h \in Seq(S \cup T) /\ Len(h) = m + n
  BY <1>5, <1>6, <1>7, <1>8
<1>10. \A x \in 1..m : h[x] = f[x] /\ h[x] \in S
  <2>1. \A x \in 1..m : h[x] = f[x]
    BY <1>5, <1>6, <1>7, <1>8
  <2> QED BY <1>4, <1>5, <2>1 DEF Lists
<1>11. \A x \in 1..n : h[m + x] = g[x] /\ h[m + x] \in T
  <2>1. \A x \in 1..n : h[m + x] = g[x]
    BY <1>5, <1>6, <1>7, <1>8
  <2> QED BY <1>4, <1>6, <2>1 DEF Lists
<1>12. \A p \in S \cup T : \E x \in 1..(m + n) : h[x] = p
  <2> SUFFICES ASSUME NEW p \in S \cup T PROVE \E x \in 1..(m + n) : h[x] = p
    OBVIOUS
  <2>1. CASE p \in S
    <3>1. PICK x \in 1..m : f[x] = p
      BY <1>4, <1>5, <2>1 DEF Lists
    <3>2. x \in 1..(m + n)
      OBVIOUS
    <3> QED BY <1>10, <3>1, <3>2
  <2>2. CASE p \in T
    <3>1. PICK x \in 1..n : g[x] = p
      BY <1>4, <1>6, <2>2 DEF Lists
    <3>2. m + x \in 1..(m + n)
      OBVIOUS
    <3> QED BY <1>11, <3>1, <3>2
  <2> QED BY <2>1, <2>2
<1>13. \A x, y \in 1..(m + n) : x < y => <<h[x], h[y]>> \in R
  <2> SUFFICES ASSUME NEW x \in 1..(m + n), NEW y \in 1..(m + n), x < y PROVE <<h[x], h[y]>> \in R
    OBVIOUS
  <2>1. CASE y <= m
    <3>1. x \in 1..m /\ y \in 1..m
      BY <2>1
    <3> QED BY <1>4, <1>5, <1>10, <3>1 DEF Lists
  <2>2. CASE x <= m /\ m < y
    <3>1. x \in 1..m
      BY <2>2
    <3>2. PICK k \in 1..n : y = m + k
      <4>1. y - m \in 1..n /\ y = m + (y - m)
        BY <2>2
      <4> QED BY <4>1
    <3> QED BY <1>10, <1>11, <3>1, <3>2
  <2>3. CASE m < x
    <3>1. PICK k \in 1..n : x = m + k
      <4>1. x - m \in 1..n /\ x = m + (x - m)
        BY <2>3
      <4> QED BY <4>1
    <3>2. PICK l \in 1..n : y = m + l
      <4>1. y - m \in 1..n /\ y = m + (y - m)
        BY <2>3
      <4> QED BY <4>1
    <3>3. k < l
      BY <3>1, <3>2
    <3>4. <<g[k], g[l]>> \in R
      BY <1>4, <1>6, <3>3 DEF Lists
    <3> QED BY <1>11, <3>1, <3>2, <3>4
  <2> QED BY <2>1, <2>2, <2>3
<1>14. Lists(h, S \cup T, R)
  BY <1>9, <1>12, <1>13 DEF Lists
<1> QED BY <1>8, <1>14

-----------------------------------------------------------------------------
(* The inductive invariant of a compacting run.                            *)

(* The types of the parts of the state.                                    *)
Message == [k : {"user", "assistant", "result", "summary"}, n : Nat, i : Nat]
LiveMessage == [k : {"user", "assistant", "result", "summary", "queued"}, n : Nat, i : Nat]
Entry ==
  [k : {"user", "assistant", "result", "compaction"}, n : Nat, i : Nat, calls : Nat,
   from : Nat, to : Nat, body : Seq(Message)]
Answered(m) == \E x \in DOMAIN m : m[x].k = "assistant"
CmpTypes ==
  /\ branch \in Seq(Entry) /\ live \in Seq(LiveMessage)
  /\ at \in {"start", "recover", "loop", "request", "stream", "settle", "settle_error", "tools", "after",
             "summarize", "propose", "write", "publish", "ended"}
  /\ turn \in 0..CmpTurns
  /\ batch \in [calls : Nat, settled : SUBSET Nat] /\ batch.settled \subseteq 1..batch.calls
  /\ comp \in [source : Seq(LiveMessage), keep : Seq(LiveMessage),
               step : {"none", "pending", "completed", "interrupted"}, retry : BOOLEAN]
  /\ comp.source \in Seq(Message) => comp.keep \in Seq(Message)
  /\ policy \in [compactions : 0..MaxCompactions, retries : 0..MaxOverflowRetries,
                 retried : BOOLEAN, blocked : Nat]
  /\ completed \in BOOLEAN /\ cancelling \in BOOLEAN /\ runNo \in Nat
  /\ at \in {"settle", "settle_error", "tools", "recover"} => Answered(live)

(* A compaction covers entries before it; calls are numbered from one; no  *)
(* two entries have the same place in source order.                        *)
Shaped(b) ==
  /\ b \in Seq(Entry)
  /\ \A j \in 1..Len(b) : b[j].k = "compaction" => b[j].to < j
  /\ \A j \in 1..Len(b) : b[j].k = "result" => b[j].i # 0
Orderly(b) == Shaped(b) /\ \A j, l \in 1..Len(b) : SourceKey(b, j) = SourceKey(b, l) => j = l

(* A replacement was written over an assistant entry and left one of its   *)
(* results: the branch cannot be projected any more.                       *)
Broken(b) == \E j \in Visible(b) : b[j].k = "result" /\ OwnerOf(b, j) \notin Visible(b)

(* Otherwise what is visible is the end of the branch.                     *)
Suffixed(b) == \E lo \in 1..Len(b) : Visible(b) = lo..Len(b)

(* The last response has all its results, or only results follow it.       *)
Closed(b) == LastAssistant(b) = 0 \/ Unresolved(b, LastAssistant(b)) = {}
OpenAt(b, a, t) ==
  /\ a \in 1..Len(b) /\ b[a].k = "assistant"
  /\ \A j \in (a + 1)..Len(b) : b[j].k = "result" /\ b[j].n = t /\ b[j].i \in 1..b[a].calls
SettledCalls(b, a) == {b[j].i : j \in (a + 1)..Len(b)}

(* How the transcript stands to the branch at each place of the run: its   *)
(* queued input aside, it is what the branch projects to, and while tools  *)
(* run, what the branch projected to up to the response they answer.       *)
StageInv ==
  /\ at \in {"start", "loop", "request", "stream", "after", "summarize", "propose", "write"}
       => DurablePart(live, Derived(branch))
  /\ at \in {"settle", "settle_error"} => \E m \in Seq(LiveMessage) :
       live = Append(m, Msg("assistant", turn, 0)) /\ DurablePart(m, Derived(branch))
  /\ at \in {"settle", "settle_error"} => batch.settled = {}
  /\ at = "settle_error" => batch.calls = 0
  /\ at = "publish" => comp.source = Derived(branch)
  /\ at \in {"tools", "recover"} => \E a \in 1..Len(branch) :
       /\ OpenAt(branch, a, turn)
       /\ batch.calls = branch[a].calls /\ batch.settled = SettledCalls(branch, a)
       /\ DurablePart(UpToAssistant(live), Derived(SubSeq(branch, 1, a)))
  /\ at \notin {"tools", "recover", "ended"} => Closed(branch)
  /\ at = "ended" => Closed(branch) \/ \E a \in 1..Len(branch) : OpenAt(branch, a, turn)

CmpInv ==
  /\ CmpTypes /\ Shaped(branch)
  /\ Broken(branch) \/ (Orderly(branch) /\ Suffixed(branch) /\ StageInv)

-----------------------------------------------------------------------------
(* The branch: owners, places in source order, what is visible.            *)

(* The assistant entry before an entry, if there is one, is the last.      *)
LEMMA OwnerLast ==
  ASSUME NEW b, NEW j \in Nat \ {0}
  PROVE  /\ OwnerOf(b, j) \in 0..(j - 1)
         /\ OwnerOf(b, j) # 0 => b[OwnerOf(b, j)].k = "assistant"
         /\ \A x \in 1..(j - 1) : b[x].k = "assistant" => x <= OwnerOf(b, j)
<1> DEFINE S == {a \in 1..(j - 1) : b[a].k = "assistant"}
<1>1. CASE S = {}
  <2>1. OwnerOf(b, j) = 0
    BY <1>1 DEF OwnerOf
  <2> QED BY <1>1, <2>1
<1>2. CASE S # {}
  <2> DEFINE U == {y \in Nat : \A x \in S : x <= y}
  <2>1. U # {}
    <3>1. j \in U
      OBVIOUS
    <3> QED BY <3>1
  <2>2. U \in SUBSET Nat
    OBVIOUS
  <2>3. PICK m \in U : \A y \in U : m <= y
    <3> HIDE DEF U
    <3> QED BY <2>1, <2>2, Least
  <2>4. m \in S
    <3> SUFFICES ASSUME m \notin S PROVE FALSE
      OBVIOUS
    <3>1. PICK x \in S : TRUE
      BY <1>2
    <3>2. m >= 1 /\ m \in Nat
      BY <2>3, <3>1
    <3>3. m - 1 \in Nat /\ \A y \in S : y <= m - 1
      BY <2>3, <3>2
    <3>4. m - 1 \in U
      BY <3>3
    <3>5. m <= m - 1
      BY <2>3, <3>4
    <3> QED BY <3>2, <3>5
  <2>5. \E a \in S : \A x \in S : x <= a
    BY <2>3, <2>4
  <2>6. OwnerOf(b, j) = CHOOSE a \in S : \A x \in S : x <= a
    BY <1>2 DEF OwnerOf
  <2>7. PICK w : w = OwnerOf(b, j)
    OBVIOUS
  <2>8. w \in S /\ \A x \in S : x <= w
    <3> HIDE DEF S
    <3> QED BY <2>5, <2>6, <2>7
  <2> QED BY <2>7, <2>8
<1> QED BY <1>1, <1>2

(* An assistant entry with none between it and j owns j.                   *)
LEMMA OwnerIs ==
  ASSUME NEW b, NEW j \in Nat \ {0}, NEW a \in 1..(j - 1), b[a].k = "assistant",
         \A x \in (a + 1)..(j - 1) : b[x].k # "assistant"
  PROVE  OwnerOf(b, j) = a
<1>1. PICK w : w = OwnerOf(b, j)
  OBVIOUS
<1>2. w \in 0..(j - 1) /\ (w # 0 => b[w].k = "assistant") /\ a <= w
  BY <1>1, OwnerLast
<1>3. ~(a < w)
  <2> SUFFICES ASSUME a < w PROVE FALSE
    OBVIOUS
  <2>1. w \in (a + 1)..(j - 1) /\ w # 0
    BY <1>2
  <2> QED BY <1>2, <2>1
<1> QED BY <1>1, <1>2, <1>3

(* c begins with b.                                                        *)
Begins(b, c) ==
  /\ b \in Seq(Entry) /\ c \in Seq(Entry) /\ Len(b) <= Len(c)
  /\ \A j \in 1..Len(b) : c[j] = b[j]

LEMMA BeginsTypes ==
  ASSUME NEW b, NEW c, Begins(b, c)
  PROVE  /\ Len(b) \in Nat /\ Len(c) \in Nat /\ Len(b) <= Len(c) /\ 1..Len(b) \subseteq 1..Len(c)
         /\ \A j \in 1..Len(c) : c[j] \in Entry
<1>1. b \in Seq(Entry) /\ c \in Seq(Entry) /\ Len(b) <= Len(c)
  BY DEF Begins
<1>2. Len(b) \in Nat /\ Len(c) \in Nat /\ \A j \in 1..Len(c) : c[j] \in Entry
  BY <1>1
<1> QED BY <1>1, <1>2

(* What is appended changes neither owner nor place of what is there.      *)
LEMMA OwnerKept ==
  ASSUME NEW b, NEW c, Begins(b, c), NEW j \in 1..(Len(b) + 1)
  PROVE  OwnerOf(c, j) = OwnerOf(b, j)
<1>1. Len(b) \in Nat /\ \A x \in 1..(j - 1) : x \in 1..Len(b)
  BY BeginsTypes
<1>2. \A x \in 1..(j - 1) : c[x] = b[x]
  BY <1>1 DEF Begins
<1> DEFINE S == {a \in 1..(j - 1) : c[a].k = "assistant"}
           T == {a \in 1..(j - 1) : b[a].k = "assistant"}
<1>3. S = T
  BY <1>2
<1>4. OwnerOf(c, j) = IF S = {} THEN 0 ELSE CHOOSE a \in S : \A x \in S : x <= a
  BY DEF OwnerOf
<1>5. OwnerOf(b, j) = IF T = {} THEN 0 ELSE CHOOSE a \in T : \A x \in T : x <= a
  BY DEF OwnerOf
<1> HIDE DEF S, T
<1> QED BY <1>3, <1>4, <1>5

LEMMA KeyKept ==
  ASSUME NEW b, NEW c, Begins(b, c), NEW j \in 1..Len(b)
  PROVE  SourceKey(c, j) = SourceKey(b, j)
<1>1. Len(b) \in Nat /\ c[j] = b[j]
  BY BeginsTypes DEF Begins
<1>2. OwnerOf(c, j) = OwnerOf(b, j)
  BY <1>1, OwnerKept
<1> QED BY <1>1, <1>2 DEF SourceKey

(* A key is a pair of numbers; only a result has the place of its owner.   *)
LEMMA KeyType ==
  ASSUME NEW b, Shaped(b), NEW j \in 1..Len(b)
  PROVE  \E x \in 0..j, y \in Nat :
           /\ SourceKey(b, j) = <<x, y>>
           /\ IF b[j].k = "result" THEN x = OwnerOf(b, j) /\ x < j /\ y = b[j].i /\ y > 0
              ELSE x = j /\ y = 0
<1>1. b \in Seq(Entry) /\ (b[j].k = "result" => b[j].i # 0)
  BY DEF Shaped
<1>2. Len(b) \in Nat /\ b[j] \in Entry
  BY <1>1
<1>3. b[j].i \in Nat /\ j \in Nat \ {0}
  BY <1>2 DEF Entry
<1>4. OwnerOf(b, j) \in 0..(j - 1)
  BY <1>3, OwnerLast
<1>5. CASE b[j].k = "result"
  <2>1. SourceKey(b, j) = <<OwnerOf(b, j), b[j].i>>
    BY <1>5 DEF SourceKey
  <2>2. b[j].i > 0 /\ OwnerOf(b, j) \in 0..j /\ OwnerOf(b, j) < j
    BY <1>1, <1>3, <1>4, <1>5
  <2> QED BY <1>3, <1>5, <2>1, <2>2
<1>6. CASE b[j].k # "result"
  <2>1. SourceKey(b, j) = <<j, 0>> /\ j \in 0..j
    BY <1>3, <1>6 DEF SourceKey
  <2> QED BY <1>6, <2>1
<1> QED BY <1>5, <1>6

(* Entries behind b that are no compactions are visible and hide nothing.  *)
LEMMA VisibleGrows ==
  ASSUME NEW b, NEW c, Begins(b, c), Shaped(c), \A j \in (Len(b) + 1)..Len(c) : c[j].k # "compaction"
  PROVE  Visible(c) = Visible(b) \cup ((Len(b) + 1)..Len(c))
<1>1. PICK n \in Nat : n = Len(b)
  BY BeginsTypes
<1>2. PICK m \in Nat : m = Len(c) /\ n <= m
  BY <1>1, BeginsTypes
<1>3. \A j \in 1..m : c[j].k = "compaction" => j \in 1..n
  <2> SUFFICES ASSUME NEW j \in 1..m, c[j].k = "compaction", j \notin 1..n PROVE FALSE
    OBVIOUS
  <2>1. j \in (n + 1)..m
    BY <1>2
  <2> QED BY <1>1, <1>2, <2>1
<1>4. \A j \in 1..n : c[j] = b[j] /\ j \in 1..m
  BY <1>1, <1>2 DEF Begins
<1>5. \A j \in 1..n : c[j].k = "compaction" => c[j].to < j /\ c[j].to \in Nat /\ c[j].from \in Nat
  <2> SUFFICES ASSUME NEW j \in 1..n, c[j].k = "compaction"
               PROVE  c[j].to < j /\ c[j].to \in Nat /\ c[j].from \in Nat
    OBVIOUS
  <2>1. c[j] \in Entry /\ c[j].to < j
    BY <1>2, <1>4, BeginsTypes DEF Shaped
  <2> QED BY <2>1 DEF Entry
<1>6. ASSUME NEW j \in 1..m PROVE j \in Visible(c) <=> \A x \in 1..n : c[x].k = "compaction" => j \notin c[x].from..c[x].to
  <2>1. j \in Visible(c) <=> \A x \in 1..m : c[x].k = "compaction" => j \notin c[x].from..c[x].to
    BY <1>2 DEF Visible
  <2> QED BY <1>3, <1>4, <2>1
<1>7. ASSUME NEW j \in 1..n PROVE j \in Visible(c) <=> j \in Visible(b)
  <2>1. j \in Visible(b) <=> \A x \in 1..n : b[x].k = "compaction" => j \notin b[x].from..b[x].to
    BY <1>1 DEF Visible
  <2> QED BY <1>4, <1>6, <2>1
<1>8. ASSUME NEW j \in (n + 1)..m PROVE j \in Visible(c)
  <2>1. j \in 1..m
    BY <1>2
  <2>2. \A x \in 1..n : c[x].k = "compaction" => j \notin c[x].from..c[x].to
    BY <1>5
  <2> QED BY <1>6, <2>1, <2>2
<1>9. Visible(c) \subseteq 1..m /\ Visible(b) \subseteq 1..n
  BY <1>1, <1>2 DEF Visible
<1>10. \A j : j \in 1..m <=> j \in 1..n \/ j \in (n + 1)..m
  BY <1>2
<1> QED BY <1>1, <1>2, <1>4, <1>7, <1>8, <1>9, <1>10

-----------------------------------------------------------------------------
(* Source order, and the projection of a branch that grows.                *)

LEMMA SourceOrder ==
  ASSUME NEW b, Orderly(b), NEW j \in 1..Len(b), NEW l \in 1..Len(b)
  PROVE  /\ ~SourceBefore(b, j, j)
         /\ j # l => SourceBefore(b, j, l) \/ SourceBefore(b, l, j)
         /\ SourceBefore(b, j, l) => ~SourceBefore(b, l, j)
         /\ \A m \in 1..Len(b) : SourceBefore(b, j, l) /\ SourceBefore(b, l, m) => SourceBefore(b, j, m)
<1>1. \A z \in 1..Len(b) : \E x \in Nat, y \in Nat : SourceKey(b, z) = <<x, y>>
  <2> SUFFICES ASSUME NEW z \in 1..Len(b) PROVE \E x \in Nat, y \in Nat : SourceKey(b, z) = <<x, y>>
    OBVIOUS
  <2>1. PICK x \in 0..z, y \in Nat : SourceKey(b, z) = <<x, y>>
    BY KeyType DEF Orderly
  <2>2. z \in Nat
    BY DEF Orderly, Shaped
  <2>3. x \in Nat
    BY <2>2
  <2> QED BY <2>1, <2>3
<1>2. PICK jx \in Nat, jy \in Nat : SourceKey(b, j) = <<jx, jy>>
  BY <1>1
<1>3. PICK lx \in Nat, ly \in Nat : SourceKey(b, l) = <<lx, ly>>
  BY <1>1
<1>4. ~SourceBefore(b, j, j)
  BY <1>2 DEF SourceBefore
<1>5. j # l => SourceBefore(b, j, l) \/ SourceBefore(b, l, j)
  <2> SUFFICES ASSUME j # l PROVE SourceBefore(b, j, l) \/ SourceBefore(b, l, j)
    OBVIOUS
  <2>1. jx # lx \/ jy # ly
    BY <1>2, <1>3 DEF Orderly
  <2> QED BY <1>2, <1>3, <2>1 DEF SourceBefore
<1>6. SourceBefore(b, j, l) => ~SourceBefore(b, l, j)
  BY <1>2, <1>3 DEF SourceBefore
<1>7. ASSUME NEW m \in 1..Len(b), SourceBefore(b, j, l), SourceBefore(b, l, m)
      PROVE  SourceBefore(b, j, m)
  <2>1. PICK mx \in Nat, my \in Nat : SourceKey(b, m) = <<mx, my>>
    BY <1>1
  <2> QED BY <1>2, <1>3, <1>7, <2>1 DEF SourceBefore
<1> QED BY <1>4, <1>5, <1>6, <1>7

LEMMA MessagesType ==
  ASSUME NEW e \in Entry
  PROVE  /\ Messages(e) \in Seq(Message)
         /\ e.k # "compaction" => Messages(e) = <<Msg(e.k, e.n, e.i)>> /\ DOMAIN Messages(e) = {1}
         /\ DOMAIN Messages(e) = 1..Len(Messages(e)) /\ Len(Messages(e)) \in Nat
<1>1. e.k \in {"user", "assistant", "result", "compaction"} /\ e.n \in Nat /\ e.i \in Nat /\ e.body \in Seq(Message)
  BY DEF Entry
<1>2. CASE e.k = "compaction"
  BY <1>1, <1>2 DEF Messages
<1>3. CASE e.k # "compaction"
  <2>1. Msg(e.k, e.n, e.i) \in Message
    BY <1>1, <1>3 DEF Msg, Message
  <2>2. PICK m \in Message : m = Msg(e.k, e.n, e.i)
    BY <2>1
  <2>3. Messages(e) = <<m>>
    BY <1>3, <2>2 DEF Messages
  <2>4. <<m>> \in Seq(Message) /\ Len(<<m>>) = 1 /\ DOMAIN <<m>> = 1..1
    OBVIOUS
  <2>5. 1..1 = {1}
    OBVIOUS
  <2> QED BY <2>2, <2>3, <2>4, <2>5
<1> QED BY <1>2, <1>3

LEMMA PlacesAre ==
  ASSUME NEW b
  PROVE  \A p : p \in Places(b) <=> \E j \in Visible(b) : \E x \in DOMAIN Messages(b[j]) : p = <<j, x>>
BY DEF Places

LEMMA PlacesFinite ==
  ASSUME NEW b, Shaped(b)
  PROVE  IsFiniteSet(Places(b))
<1> DEFINE V == Visible(b)
           F == [j \in V |-> {j} \X DOMAIN Messages(b[j])]
           U == {{j} \X DOMAIN Messages(b[j]) : j \in V}
<1>1. b \in Seq(Entry)
  BY DEF Shaped
<1>2. Len(b) \in Nat /\ \A j \in 1..Len(b) : b[j] \in Entry
  BY <1>1
<1>3. V \in SUBSET (1..Len(b))
  BY DEF Visible
<1>4. IsFiniteSet(V)
  <2>1. IsFiniteSet(1..Len(b))
    BY <1>2, FS_Interval
  <2> QED BY <1>3, <2>1, FS_Subset
<1>5. \A j \in V : IsFiniteSet({j} \X DOMAIN Messages(b[j]))
  <2> SUFFICES ASSUME NEW j \in V PROVE IsFiniteSet({j} \X DOMAIN Messages(b[j]))
    OBVIOUS
  <2>1. DOMAIN Messages(b[j]) = 1..Len(Messages(b[j])) /\ Len(Messages(b[j])) \in Nat
    BY <1>2, <1>3, MessagesType
  <2>2. IsFiniteSet(1..Len(Messages(b[j])))
    BY <2>1, FS_Interval
  <2>3. IsFiniteSet({j})
    BY FS_Singleton
  <2> QED BY <2>1, <2>2, <2>3, FS_Product
<1>6. F \in Surjection(V, U)
  <2>1. F \in [V -> U] /\ \A t \in U : \E s \in V : F[s] = t
    OBVIOUS
  <2> HIDE DEF F, V, U
  <2> QED BY <2>1, Fun_IsSurj
<1>7. IsFiniteSet(U)
  <2> HIDE DEF F, V, U
  <2> QED BY <1>4, <1>6, FS_Surjection
<1>8. \A T \in U : IsFiniteSet(T)
  BY <1>5
<1>9. IsFiniteSet(UNION U)
  <2> HIDE DEF U
  <2> QED BY <1>7, <1>8, FS_UNION
<1> QED BY <1>9 DEF Places

LEMMA PlacesOrdered ==
  ASSUME NEW b, Orderly(b)
  PROVE  StrictOrder(Places(b), PlaceOrder(b))
<1>1. Visible(b) \subseteq 1..Len(b)
  BY DEF Visible
<1>2. \A p \in Places(b) : p[1] \in 1..Len(b) /\ p[2] \in Nat /\ p = <<p[1], p[2]>>
  <2> SUFFICES ASSUME NEW p \in Places(b) PROVE p[1] \in 1..Len(b) /\ p[2] \in Nat /\ p = <<p[1], p[2]>>
    OBVIOUS
  <2>1. PICK j \in Visible(b) : \E x \in DOMAIN Messages(b[j]) : p = <<j, x>>
    BY PlacesAre
  <2>2. PICK x \in DOMAIN Messages(b[j]) : p = <<j, x>>
    BY <2>1
  <2>3. b[j] \in Entry
    BY <1>1 DEF Orderly, Shaped
  <2>4. x \in Nat
    BY <2>3, MessagesType
  <2> QED BY <1>1, <2>2, <2>4
<1>3. \A p, q \in Places(b) : <<p, q>> \in PlaceOrder(b) <=> PlaceBefore(b, p, q)
  BY DEF PlaceOrder
<1>4. \A p \in Places(b) : ~PlaceBefore(b, p, p)
  BY <1>2, SourceOrder DEF PlaceBefore
<1>5. \A p, q \in Places(b) : p # q => PlaceBefore(b, p, q) \/ PlaceBefore(b, q, p)
  <2> SUFFICES ASSUME NEW p \in Places(b), NEW q \in Places(b), p # q
               PROVE  PlaceBefore(b, p, q) \/ PlaceBefore(b, q, p)
    OBVIOUS
  <2>1. p[1] \in 1..Len(b) /\ q[1] \in 1..Len(b) /\ p[2] \in Nat /\ q[2] \in Nat
    BY <1>2
  <2>2. p[1] # q[1] \/ (p[1] = q[1] /\ p[2] # q[2])
    BY <1>2
  <2> QED BY <2>1, <2>2, SourceOrder DEF PlaceBefore
<1>6. ASSUME NEW p \in Places(b), NEW q \in Places(b), NEW r \in Places(b),
             PlaceBefore(b, p, q), PlaceBefore(b, q, r)
      PROVE  PlaceBefore(b, p, r)
  <2>1. /\ p[1] \in 1..Len(b) /\ q[1] \in 1..Len(b) /\ r[1] \in 1..Len(b)
        /\ p[2] \in Nat /\ q[2] \in Nat /\ r[2] \in Nat
    BY <1>2
  <2>2. SourceBefore(b, p[1], q[1]) /\ SourceBefore(b, q[1], r[1]) => SourceBefore(b, p[1], r[1])
    BY <2>1, SourceOrder
  <2> QED BY <1>6, <2>1, <2>2 DEF PlaceBefore
<1> QED BY <1>3, <1>4, <1>5, <1>6 DEF StrictOrder

(* The projection is what any list of the places reads.                    *)
Reads(b, f) == [x \in 1..Len(f) |-> MessageAt(b, f[x])]

LEMMA ReadsConcat ==
  ASSUME NEW b, NEW U, NEW f \in Seq(U), NEW g \in Seq(U)
  PROVE  Reads(b, f \o g) = Reads(b, f) \o Reads(b, g)
<1>1. PICK m \in Nat : m = Len(f)
  OBVIOUS
<1>2. PICK n \in Nat : n = Len(g)
  OBVIOUS
<1>3. PICK h \in Seq(U) : h = f \o g
  <2>1. f \o g \in Seq(U)
    BY ConcatProperties
  <2> QED BY <2>1
<1>4. Len(h) = m + n /\ (\A x \in 1..m : h[x] = f[x]) /\ \A x \in 1..n : h[m + x] = g[x]
  BY <1>1, <1>2, <1>3
<1> DEFINE M == {MessageAt(b, h[x]) : x \in 1..(m + n)}
<1>5. PICK r : r = Reads(b, f)
  OBVIOUS
<1>6. PICK s : s = Reads(b, g)
  OBVIOUS
<1>7. PICK t : t = Reads(b, h)
  OBVIOUS
<1>8. r = [x \in 1..m |-> MessageAt(b, f[x])] /\ s = [x \in 1..n |-> MessageAt(b, g[x])]
      /\ t = [x \in 1..(m + n) |-> MessageAt(b, h[x])]
  BY <1>1, <1>2, <1>4, <1>5, <1>6, <1>7 DEF Reads
<1>9. \A x \in 1..(m + n) : t[x] \in M
  BY <1>8
<1>10. \A x \in 1..m : x \in 1..(m + n) /\ r[x] = t[x]
  BY <1>4, <1>8
<1>11. \A x \in 1..n : m + x \in 1..(m + n) /\ s[x] = t[m + x]
  BY <1>4, <1>8
<1> HIDE DEF M
<1>12. r \in Seq(M) /\ s \in Seq(M) /\ t \in Seq(M) /\ Len(r) = m /\ Len(s) = n /\ Len(t) = m + n
  <2>1. r \in [1..m -> M] /\ s \in [1..n -> M] /\ t \in [1..(m + n) -> M]
    BY <1>8, <1>9, <1>10, <1>11
  <2> QED BY <2>1
<1>13. PICK u \in Seq(M) : u = r \o s
  <2>1. r \o s \in Seq(M)
    BY <1>12, ConcatProperties
  <2> QED BY <2>1
<1>14. Len(u) = m + n /\ (\A x \in 1..m : u[x] = r[x]) /\ \A x \in 1..n : u[m + x] = s[x]
  <2>1. r \in Seq(M) /\ s \in Seq(M) /\ Len(r) = m /\ Len(s) = n
    BY <1>12
  <2>2. Len(u) = m + n
    BY <1>13, <2>1, ConcatProperties
  <2>3. \A x \in 1..m : u[x] = r[x]
    BY <1>13, <2>1
  <2>4. \A x \in 1..n : u[m + x] = s[x]
    BY <1>13, <2>1
  <2> QED BY <2>2, <2>3, <2>4
<1>15. \A x \in 1..(m + n) : u[x] = t[x]
  <2> SUFFICES ASSUME NEW x \in 1..(m + n) PROVE u[x] = t[x]
    OBVIOUS
  <2>1. CASE x <= m
    <3>1. x \in 1..m
      BY <2>1
    <3> QED BY <1>10, <1>14, <3>1
  <2>2. CASE m < x
    <3>1. PICK k \in 1..n : x = m + k
      <4>1. x - m \in 1..n /\ x = m + (x - m)
        BY <2>2
      <4> QED BY <4>1
    <3> QED BY <1>11, <1>14, <3>1
  <2> QED BY <2>1, <2>2
<1>16. u = t
  BY <1>12, <1>14, <1>15, SeqEqual
<1> QED BY <1>3, <1>5, <1>6, <1>7, <1>13, <1>16

LEMMA DerivedReads ==
  ASSUME NEW b, Orderly(b), NEW f, Lists(f, Places(b), PlaceOrder(b))
  PROVE  Derived(b) = Reads(b, f)
<1>1. IsFiniteSet(Places(b)) /\ StrictOrder(Places(b), PlaceOrder(b))
  BY PlacesFinite, PlacesOrdered DEF Orderly
<1>2. InOrder(Places(b), PlaceOrder(b)) = f /\ Cardinality(Places(b)) = Len(f)
  BY <1>1, InOrderIs
<1> QED BY <1>2 DEF Derived, Reads

(* The messages of the entries behind c, when they come after those of c.  *)
Newer(b, c) == ((Len(b) + 1)..Len(c)) \X {1}
Grows(b, c) ==
  /\ Begins(b, c) /\ Orderly(c)
  /\ \A j \in (Len(b) + 1)..Len(c) : c[j].k # "compaction"
  /\ \A j \in 1..Len(b), l \in (Len(b) + 1)..Len(c) : SourceBefore(c, j, l)

LEMMA OrderlyPrefix ==
  ASSUME NEW b, NEW c, Begins(b, c), Orderly(c)
  PROVE  Orderly(b)
<1>1. \A j \in 1..Len(b) : j \in 1..Len(c) /\ c[j] = b[j] /\ SourceKey(c, j) = SourceKey(b, j)
  BY BeginsTypes, KeyKept DEF Begins
<1>2. Shaped(b)
  BY <1>1 DEF Begins, Orderly, Shaped
<1> QED BY <1>1, <1>2 DEF Orderly

LEMMA PlacesGrow ==
  ASSUME NEW b, NEW c, Grows(b, c)
  PROVE  /\ Places(c) = Places(b) \cup Newer(b, c)
         /\ \A p \in Places(b) : p[1] \in 1..Len(b) /\ MessageAt(c, p) = MessageAt(b, p)
         /\ \A p \in Newer(b, c) : MessageAt(c, p) = Msg(c[p[1]].k, c[p[1]].n, c[p[1]].i)
         /\ \A p, q \in Places(b) : <<p, q>> \in PlaceOrder(c) <=> <<p, q>> \in PlaceOrder(b)
         /\ \A p \in Places(b), q \in Newer(b, c) : <<p, q>> \in PlaceOrder(c)
<1>1. PICK n \in Nat : n = Len(b)
  BY BeginsTypes DEF Grows
<1>2. PICK m \in Nat : m = Len(c) /\ n <= m
  BY <1>1, BeginsTypes DEF Grows
<1>3. Visible(c) = Visible(b) \cup ((n + 1)..m)
  BY <1>1, <1>2, VisibleGrows DEF Grows, Orderly
<1>4. Visible(b) \subseteq 1..n /\ \A j \in 1..n : c[j] = b[j]
  BY <1>1 DEF Visible, Grows, Begins
<1>5. \A j \in (n + 1)..m : c[j] \in Entry /\ c[j].k # "compaction"
  <2>1. \A j \in (n + 1)..m : j \in 1..m
    OBVIOUS
  <2> QED BY <1>1, <1>2, <2>1, BeginsTypes DEF Grows
<1>6. \A j \in (n + 1)..m : Messages(c[j]) = <<Msg(c[j].k, c[j].n, c[j].i)>> /\ DOMAIN Messages(c[j]) = {1}
  BY <1>5, MessagesType
<1>7. \A p : p \in Newer(b, c) <=> \E j \in (n + 1)..m : p = <<j, 1>>
  BY <1>1, <1>2 DEF Newer
<1>8. Places(c) = Places(b) \cup Newer(b, c)
  <2>1. ASSUME NEW p PROVE p \in Places(c) <=> p \in Places(b) \cup Newer(b, c)
    <3>1. p \in Places(c) <=> \E j \in Visible(c) : \E x \in DOMAIN Messages(c[j]) : p = <<j, x>>
      BY PlacesAre
    <3>2. p \in Places(b) <=> \E j \in Visible(b) : \E x \in DOMAIN Messages(b[j]) : p = <<j, x>>
      BY PlacesAre
    <3>3. \A j \in Visible(b) : c[j] = b[j]
      BY <1>4
    <3>4. (\E j \in (n + 1)..m : \E x \in DOMAIN Messages(c[j]) : p = <<j, x>>) <=> p \in Newer(b, c)
      BY <1>6, <1>7
    <3> QED BY <1>3, <3>1, <3>2, <3>3, <3>4
  <2> QED BY <2>1
<1>9. \A p \in Places(b) : p[1] \in 1..n
  <2> SUFFICES ASSUME NEW p \in Places(b) PROVE p[1] \in 1..n
    OBVIOUS
  <2>1. PICK j \in Visible(b) : \E x \in DOMAIN Messages(b[j]) : p = <<j, x>>
    BY PlacesAre
  <2> QED BY <1>4, <2>1
<1>10. \A p \in Places(b) : MessageAt(c, p) = MessageAt(b, p)
  BY <1>4, <1>9 DEF MessageAt
<1>11. \A p \in Newer(b, c) : MessageAt(c, p) = Msg(c[p[1]].k, c[p[1]].n, c[p[1]].i)
  <2> SUFFICES ASSUME NEW p \in Newer(b, c) PROVE MessageAt(c, p) = Msg(c[p[1]].k, c[p[1]].n, c[p[1]].i)
    OBVIOUS
  <2>1. PICK j \in (n + 1)..m : p = <<j, 1>>
    BY <1>7
  <2>2. PICK w : w = Msg(c[j].k, c[j].n, c[j].i)
    OBVIOUS
  <2>3. Messages(c[j])[1] = w
    BY <1>6, <2>2
  <2> QED BY <2>1, <2>2, <2>3 DEF MessageAt
<1>12. \A p, q \in Places(b) : <<p, q>> \in PlaceOrder(c) <=> <<p, q>> \in PlaceOrder(b)
  <2> SUFFICES ASSUME NEW p \in Places(b), NEW q \in Places(b)
               PROVE  <<p, q>> \in PlaceOrder(c) <=> <<p, q>> \in PlaceOrder(b)
    OBVIOUS
  <2>1. SourceKey(c, p[1]) = SourceKey(b, p[1]) /\ SourceKey(c, q[1]) = SourceKey(b, q[1])
    BY <1>1, <1>9, KeyKept DEF Grows
  <2>2. PlaceBefore(c, p, q) <=> PlaceBefore(b, p, q)
    BY <2>1 DEF PlaceBefore, SourceBefore
  <2> QED BY <1>8, <2>2 DEF PlaceOrder
<1>13. \A p \in Places(b), q \in Newer(b, c) : <<p, q>> \in PlaceOrder(c)
  <2> SUFFICES ASSUME NEW p \in Places(b), NEW q \in Newer(b, c) PROVE <<p, q>> \in PlaceOrder(c)
    OBVIOUS
  <2>1. PICK j \in (n + 1)..m : q = <<j, 1>>
    BY <1>7
  <2>2. SourceBefore(c, p[1], q[1])
    BY <1>1, <1>2, <1>9, <2>1 DEF Grows
  <2> QED BY <1>8, <2>2 DEF PlaceOrder, PlaceBefore
<1> QED BY <1>1, <1>8, <1>9, <1>10, <1>11, <1>12, <1>13

LEMMA DerivedGrows ==
  ASSUME NEW b, NEW c, Grows(b, c), NEW g, Lists(g, Newer(b, c), PlaceOrder(c))
  PROVE  Derived(c) = Derived(b) \o Reads(c, g)
<1> DEFINE S == Places(b)
           T == Newer(b, c)
           R == PlaceOrder(c)
<1>1. Orderly(c) /\ Orderly(b)
  BY OrderlyPrefix DEF Grows
<1>2. IsFiniteSet(S) /\ IsFiniteSet(Places(c)) /\ StrictOrder(S, PlaceOrder(b)) /\ StrictOrder(Places(c), R)
  BY <1>1, PlacesFinite, PlacesOrdered DEF Orderly
<1>3. Places(c) = S \cup T
  BY PlacesGrow
<1>5. PICK f : f = InOrder(S, PlaceOrder(b))
  OBVIOUS
<1>6. Lists(f, S, PlaceOrder(b))
  BY <1>2, <1>5, InOrderLists
<1>7. \A p, q \in S : <<p, q>> \in PlaceOrder(b) <=> <<p, q>> \in R
  BY PlacesGrow
<1>8. StrictOrder(S, R) /\ InOrder(S, R) = f
  <2> HIDE DEF S, R
  <2> QED BY <1>2, <1>5, <1>7, InOrderSame
<1>9. Lists(f, S, R)
  <2>1. Lists(InOrder(S, R), S, R)
    <3> HIDE DEF S, R
    <3> QED BY <1>2, <1>8, InOrderLists
  <2> QED BY <1>8, <2>1
<1>10. \A p \in S : \A q \in T : <<p, q>> \in R
  BY PlacesGrow
<1>11. PICK h : h = f \o g
  OBVIOUS
<1>12. Lists(h, S \cup T, R)
  <2>1. Lists(g, T, R)
    OBVIOUS
  <2> HIDE DEF S, T, R
  <2> QED BY <1>9, <1>10, <1>11, <2>1, ListsConcat
<1>13. Lists(h, Places(c), R)
  BY <1>3, <1>12
<1>14. Derived(c) = Reads(c, h)
  BY <1>1, <1>13, DerivedReads
<1>15. Derived(b) = Reads(b, f)
  BY <1>1, <1>6, DerivedReads
<1>16. f \in Seq(S) /\ g \in Seq(T) /\ Len(f) \in Nat /\ Len(g) \in Nat /\ \A x \in 1..Len(f) : f[x] \in S
  BY <1>6, ListType
<1>17. Reads(b, f) = Reads(c, f)
  <2>1. \A x \in 1..Len(f) : MessageAt(c, f[x]) = MessageAt(b, f[x])
    BY <1>16, PlacesGrow
  <2> QED BY <2>1 DEF Reads
<1>18. f \in Seq(S \cup T) /\ g \in Seq(S \cup T)
  <2> HIDE DEF S, T
  <2> QED BY <1>16
<1>19. Reads(c, h) = Reads(c, f) \o Reads(c, g)
  <2> HIDE DEF S, T
  <2> QED BY <1>11, <1>18, ReadsConcat
<1> QED BY <1>14, <1>15, <1>17, <1>19

-----------------------------------------------------------------------------
(* The entries a run appends.                                              *)

LEMMA AppendBegins ==
  ASSUME NEW b \in Seq(Entry), NEW e \in Entry
  PROVE  /\ Begins(b, Append(b, e)) /\ Len(Append(b, e)) = Len(b) + 1 /\ Append(b, e)[Len(b) + 1] = e
         /\ Len(b) \in Nat
<1>1. PICK c : c = Append(b, e)
  OBVIOUS
<1>2. c \in Seq(Entry) /\ Len(c) = Len(b) + 1 /\ Len(b) \in Nat /\ c[Len(b) + 1] = e
  BY <1>1
<1>3. \A j \in 1..Len(b) : c[j] = b[j]
  BY <1>1
<1>4. Begins(b, c)
  BY <1>2, <1>3 DEF Begins
<1> QED BY <1>1, <1>2, <1>4

LEMMA AppendShaped ==
  ASSUME NEW b, Shaped(b), NEW e \in Entry, e.k = "compaction" => e.to <= Len(b), e.k = "result" => e.i # 0
  PROVE  Shaped(Append(b, e))
<1>1. PICK c : c = Append(b, e)
  OBVIOUS
<1>2. PICK n \in Nat : n = Len(b)
  BY DEF Shaped
<1>3. c \in Seq(Entry) /\ Len(c) = n + 1 /\ c[n + 1] = e /\ \A j \in 1..n : c[j] = b[j]
  BY <1>1, <1>2, AppendBegins DEF Shaped, Begins
<1>4. e.to \in Nat
  BY DEF Entry
<1>5. ASSUME NEW j \in 1..(n + 1)
      PROVE  (c[j].k = "compaction" => c[j].to < j) /\ (c[j].k = "result" => c[j].i # 0)
  <2>1. CASE j \in 1..n
    BY <1>2, <1>3, <2>1 DEF Shaped
  <2>2. CASE j = n + 1
    BY <1>2, <1>3, <1>4, <2>2
  <2> QED BY <2>1, <2>2
<1> QED BY <1>1, <1>3, <1>5 DEF Shaped

(* The key of an entry that is no result is larger than all before.        *)
LEMMA AppendAfter ==
  ASSUME NEW b, NEW e \in Entry, Shaped(b), Shaped(Append(b, e)), e.k # "result", NEW j \in 1..Len(b)
  PROVE  /\ SourceBefore(Append(b, e), j, Len(b) + 1)
         /\ SourceKey(Append(b, e), j) # SourceKey(Append(b, e), Len(b) + 1)
<1>1. PICK c : c = Append(b, e)
  OBVIOUS
<1>2. PICK n \in Nat : n = Len(b)
  BY DEF Shaped
<1>3. Len(c) = n + 1 /\ c[n + 1] = e
  BY <1>1, <1>2, AppendBegins DEF Shaped
<1>4. j \in 1..Len(c) /\ n + 1 \in 1..Len(c) /\ j <= n
  BY <1>2, <1>3
<1>5. PICK x \in 0..j, y \in Nat : SourceKey(c, j) = <<x, y>>
  BY <1>1, <1>4, KeyType
<1>6. SourceKey(c, n + 1) = <<n + 1, 0>>
  BY <1>3 DEF SourceKey
<1>7. x < n + 1 /\ x \in Nat
  BY <1>4
<1> QED BY <1>1, <1>2, <1>5, <1>6, <1>7 DEF SourceBefore

LEMMA AppendOrderly ==
  ASSUME NEW b, Orderly(b), NEW e \in Entry, Shaped(Append(b, e)),
         \A j \in 1..Len(b) : SourceKey(Append(b, e), j) # SourceKey(Append(b, e), Len(b) + 1)
  PROVE  Orderly(Append(b, e))
<1>1. PICK c : c = Append(b, e)
  OBVIOUS
<1>2. PICK n \in Nat : n = Len(b)
  BY DEF Orderly, Shaped
<1>3. Len(c) = n + 1 /\ Begins(b, c)
  BY <1>1, <1>2, AppendBegins DEF Orderly, Shaped
<1>4. \A j \in 1..n : SourceKey(c, j) = SourceKey(b, j)
  BY <1>2, <1>3, KeyKept
<1>5. \A j, l \in 1..n : SourceKey(c, j) = SourceKey(c, l) => j = l
  BY <1>2, <1>4 DEF Orderly
<1>6. \A j \in 1..(n + 1) : j \in 1..n \/ j = n + 1
  BY <1>2
<1>7. \A j, l \in 1..(n + 1) : SourceKey(c, j) = SourceKey(c, l) => j = l
  BY <1>1, <1>2, <1>5, <1>6
<1> QED BY <1>1, <1>3, <1>7 DEF Orderly

LEMMA AppendPlain ==
  ASSUME NEW b, Orderly(b), NEW e \in Entry, e.k # "result", e.k = "compaction" => e.to <= Len(b)
  PROVE  Orderly(Append(b, e))
<1>1. Shaped(Append(b, e))
  BY AppendShaped DEF Orderly
<1>2. \A j \in 1..Len(b) : SourceKey(Append(b, e), j) # SourceKey(Append(b, e), Len(b) + 1)
  BY <1>1, AppendAfter DEF Orderly
<1> QED BY <1>1, <1>2, AppendOrderly

LEMMA DerivedType ==
  ASSUME NEW b, Orderly(b)
  PROVE  Derived(b) \in Seq(Message)
<1>1. PICK f : f = InOrder(Places(b), PlaceOrder(b))
  OBVIOUS
<1>2. Lists(f, Places(b), PlaceOrder(b))
  BY <1>1, InOrderLists, PlacesFinite, PlacesOrdered DEF Orderly
<1>3. Derived(b) = Reads(b, f)
  BY <1>2, DerivedReads
<1>4. \A p \in Places(b) : MessageAt(b, p) \in Message
  <2> SUFFICES ASSUME NEW p \in Places(b) PROVE MessageAt(b, p) \in Message
    OBVIOUS
  <2>1. PICK j \in Visible(b) : \E x \in DOMAIN Messages(b[j]) : p = <<j, x>>
    BY PlacesAre
  <2>2. PICK x \in DOMAIN Messages(b[j]) : p = <<j, x>>
    BY <2>1
  <2>3. j \in 1..Len(b)
    BY DEF Visible
  <2>4. b[j] \in Entry
    BY <2>3 DEF Orderly, Shaped
  <2>5. PICK s \in Seq(Message) : s = Messages(b[j])
    BY <2>4, MessagesType
  <2>6. s[x] \in Message
    BY <2>2, <2>5
  <2> QED BY <2>2, <2>5, <2>6 DEF MessageAt
<1>5. Len(f) \in Nat /\ \A x \in 1..Len(f) : f[x] \in Places(b)
  BY <1>2, ListType
<1>6. Reads(b, f) \in [1..Len(f) -> Message]
  BY <1>4, <1>5 DEF Reads
<1> QED BY <1>3, <1>5, <1>6

(* A user message or a response comes last in the projection.              *)
LEMMA AppendMessage ==
  ASSUME NEW b, Orderly(b), NEW e \in Entry, e.k \in {"user", "assistant"}
  PROVE  Orderly(Append(b, e)) /\ Derived(Append(b, e)) = Append(Derived(b), Msg(e.k, e.n, e.i))
<1>1. PICK c : c = Append(b, e)
  OBVIOUS
<1>2. PICK n \in Nat : n = Len(b)
  BY DEF Orderly, Shaped
<1>3. Len(c) = n + 1 /\ Begins(b, c) /\ c[n + 1] = e
  BY <1>1, <1>2, AppendBegins DEF Orderly, Shaped
<1>4. Orderly(c)
  BY <1>1, AppendPlain
<1>5. (n + 1)..(n + 1) = {n + 1}
  BY <1>2
<1>6. Grows(b, c)
  <2>1. \A j \in 1..n : SourceBefore(c, j, n + 1)
    BY <1>1, <1>2, <1>4, AppendAfter DEF Orderly
  <2> QED BY <1>2, <1>3, <1>4, <1>5, <2>1 DEF Grows
<1>7. PICK p : p = <<n + 1, 1>>
  OBVIOUS
<1>8. Newer(b, c) = {p}
  BY <1>2, <1>3, <1>5, <1>7 DEF Newer
<1>9. Lists(<<p>>, Newer(b, c), PlaceOrder(c)) /\ Len(<<p>>) = 1 /\ <<p>>[1] = p
  BY <1>8 DEF Lists
<1>10. Derived(c) = Derived(b) \o Reads(c, <<p>>)
  BY <1>6, <1>9, DerivedGrows
<1>11. MessageAt(c, p) = Msg(e.k, e.n, e.i)
  BY <1>3, <1>6, <1>7, <1>8, PlacesGrow
<1>12. PICK m : m = Msg(e.k, e.n, e.i)
  OBVIOUS
<1>13. Reads(c, <<p>>) = <<m>>
  <2>1. Reads(c, <<p>>) = [x \in 1..1 |-> MessageAt(c, <<p>>[x])]
    BY <1>9 DEF Reads
  <2>2. [x \in 1..1 |-> MessageAt(c, <<p>>[x])] = [x \in 1..1 |-> m]
    BY <1>9, <1>11, <1>12
  <2>3. [x \in 1..1 |-> m] = <<m>>
    OBVIOUS
  <2> QED BY <2>1, <2>2, <2>3
<1>14. PICK d \in Seq(Message) : d = Derived(b)
  BY DerivedType
<1>15. m \in Message
  BY <1>12 DEF Msg, Message, Entry
<1>16. d \o <<m>> = Append(d, m)
  BY <1>15
<1> QED BY <1>1, <1>4, <1>10, <1>12, <1>13, <1>14, <1>16

-----------------------------------------------------------------------------
(* The results of the last response.                                       *)

LEMMA OpenOwners ==
  ASSUME NEW b, Shaped(b), NEW t, NEW a, OpenAt(b, a, t)
  PROVE  /\ a \in 1..Len(b) /\ Len(b) \in Nat
         /\ \A j \in (a + 1)..(Len(b) + 1) : OwnerOf(b, j) = a
         /\ \A j \in (a + 1)..Len(b) : SourceKey(b, j) = <<a, b[j].i>> /\ b[j].i \in Nat \ {0}
         /\ ResultsOf(b, a) = (a + 1)..Len(b)
         /\ Unresolved(b, a) = 1..b[a].calls \ SettledCalls(b, a)
         /\ SettledCalls(b, a) \subseteq 1..b[a].calls
<1>1. PICK n \in Nat : n = Len(b)
  BY DEF Shaped
<1>2. a \in 1..n /\ b[a].k = "assistant" /\ b[a] \in Entry
  BY <1>1 DEF OpenAt, Shaped
<1>3. \A j \in (a + 1)..n : b[j].k = "result" /\ b[j].i \in 1..b[a].calls
  BY <1>1 DEF OpenAt
<1>4. b[a].calls \in Nat
  BY <1>2 DEF Entry
<1>5. \A j \in (a + 1)..(n + 1) : OwnerOf(b, j) = a
  <2> SUFFICES ASSUME NEW j \in (a + 1)..(n + 1) PROVE OwnerOf(b, j) = a
    OBVIOUS
  <2>1. j \in Nat \ {0} /\ a \in 1..(j - 1)
    BY <1>2
  <2>2. \A x \in (a + 1)..(j - 1) : b[x].k # "assistant"
    <3> SUFFICES ASSUME NEW x \in (a + 1)..(j - 1) PROVE b[x].k # "assistant"
      OBVIOUS
    <3>1. x \in (a + 1)..n
      BY <1>2
    <3> QED BY <1>3, <3>1
  <2> QED BY <1>2, <2>1, <2>2, OwnerIs
<1>6. \A j \in (a + 1)..n : SourceKey(b, j) = <<a, b[j].i>> /\ b[j].i \in Nat \ {0}
  <2> SUFFICES ASSUME NEW j \in (a + 1)..n PROVE SourceKey(b, j) = <<a, b[j].i>> /\ b[j].i \in Nat \ {0}
    OBVIOUS
  <2>1. j \in (a + 1)..(n + 1)
    BY <1>2
  <2> QED BY <1>3, <1>4, <1>5, <2>1 DEF SourceKey
<1>7. ResultsOf(b, a) = (a + 1)..n
  <2>1. ASSUME NEW j \in 1..n PROVE b[j].k = "result" /\ OwnerOf(b, j) = a <=> j \in (a + 1)..n
    <3>1. CASE j \in (a + 1)..n
      <4>1. j \in (a + 1)..(n + 1)
        BY <1>2, <3>1
      <4> QED BY <1>3, <1>5, <3>1, <4>1
    <3>2. CASE j \notin (a + 1)..n
      <4>1. j <= a /\ j \in Nat \ {0}
        BY <1>2, <3>2
      <4>2. OwnerOf(b, j) \in 0..(j - 1)
        BY <4>1, OwnerLast
      <4>3. OwnerOf(b, j) # a
        BY <1>2, <4>1, <4>2
      <4> QED BY <3>2, <4>3
    <3> QED BY <3>1, <3>2
  <2>2. \A j \in (a + 1)..n : j \in 1..n
    BY <1>2
  <2> QED BY <1>1, <2>1, <2>2 DEF ResultsOf
<1>8. Unresolved(b, a) = 1..b[a].calls \ SettledCalls(b, a)
  BY <1>1, <1>7 DEF Unresolved, SettledCalls
<1>9. SettledCalls(b, a) \subseteq 1..b[a].calls
  BY <1>1, <1>3 DEF SettledCalls
<1> QED BY <1>1, <1>2, <1>5, <1>6, <1>7, <1>8, <1>9

(* A result of a call without one gets a place of its own.                 *)
LEMMA AppendResult ==
  ASSUME NEW b, Orderly(b), NEW t, NEW a, OpenAt(b, a, t), NEW e \in Entry,
         e.k = "result", e.n = t, e.i \in 1..b[a].calls, e.i \notin SettledCalls(b, a)
  PROVE  /\ Orderly(Append(b, e)) /\ OpenAt(Append(b, e), a, t)
         /\ SettledCalls(Append(b, e), a) = SettledCalls(b, a) \cup {e.i}
         /\ Append(b, e)[a] = b[a]
<1>1. PICK c : c = Append(b, e)
  OBVIOUS
<1>2. PICK n \in Nat : n = Len(b)
  BY DEF Orderly, Shaped
<1>3. Len(c) = n + 1 /\ Begins(b, c) /\ c[n + 1] = e
  BY <1>1, <1>2, AppendBegins DEF Orderly, Shaped
<1>4. a \in 1..n /\ e.i # 0 /\ b[a] \in Entry
  BY <1>2 DEF OpenAt, Orderly, Shaped
<1>5. Shaped(c)
  BY <1>1, <1>4, AppendShaped DEF Orderly
<1>6. \A j \in 1..n : c[j] = b[j]
  BY <1>2, <1>3 DEF Begins
<1>7. \A j \in (a + 1)..(n + 1) : j \in (a + 1)..n \/ j = n + 1
  BY <1>4
<1>8. \A j \in (a + 1)..n : j \in 1..n
  BY <1>4
<1>9. OpenAt(c, a, t)
  <2>1. a \in 1..(n + 1) /\ c[a] = b[a]
    BY <1>4, <1>6
  <2>2. \A j \in (a + 1)..n : c[j].k = "result" /\ c[j].n = t /\ c[j].i \in 1..c[a].calls
    BY <1>2, <1>6, <1>8, <2>1 DEF OpenAt
  <2>3. c[a].k = "assistant"
    BY <2>1 DEF OpenAt
  <2> QED BY <1>3, <1>7, <2>1, <2>2, <2>3 DEF OpenAt
<1>10. SettledCalls(c, a) = SettledCalls(b, a) \cup {e.i}
  <2>1. SettledCalls(c, a) = {c[j].i : j \in (a + 1)..(n + 1)}
    BY <1>3 DEF SettledCalls
  <2>2. SettledCalls(b, a) = {b[j].i : j \in (a + 1)..n}
    BY <1>2 DEF SettledCalls
  <2>3. \A j \in (a + 1)..n : c[j].i = b[j].i /\ j \in (a + 1)..(n + 1)
    BY <1>6, <1>8
  <2>4. n + 1 \in (a + 1)..(n + 1) /\ c[n + 1].i = e.i
    BY <1>3, <1>4
  <2> QED BY <1>7, <2>1, <2>2, <2>3, <2>4
<1>11. ASSUME NEW j \in 1..n PROVE SourceKey(c, j) # SourceKey(c, n + 1)
  <2>1. n + 1 \in (a + 1)..(n + 1)
    BY <1>4
  <2>2. SourceKey(c, n + 1) = <<a, e.i>>
    BY <1>3, <1>5, <1>9, <2>1, OpenOwners
  <2>3. CASE j \in (a + 1)..n
    <3>1. SourceKey(c, j) = <<a, b[j].i>>
      <4>1. j \in (a + 1)..(n + 1)
        BY <2>3
      <4> QED BY <1>3, <1>5, <1>6, <1>9, <4>1, OpenOwners
    <3>2. b[j].i \in SettledCalls(b, a)
      BY <1>2, <2>3 DEF SettledCalls
    <3> QED BY <2>2, <3>1, <3>2
  <2>4. CASE j \notin (a + 1)..n
    <3>1. j \in 1..Len(c) /\ j <= a
      BY <1>3, <1>4, <2>4
    <3>2. PICK x \in 0..j, y \in Nat :
            /\ SourceKey(c, j) = <<x, y>>
            /\ IF c[j].k = "result" THEN x = OwnerOf(c, j) /\ x < j /\ y = c[j].i /\ y > 0
               ELSE x = j /\ y = 0
      BY <1>5, <3>1, KeyType
    <3>3. x # a \/ y # e.i
      BY <1>4, <3>1, <3>2
    <3> QED BY <2>2, <3>2, <3>3
  <2> QED BY <2>3, <2>4
<1>12. Orderly(c)
  BY <1>1, <1>2, <1>5, <1>11, AppendOrderly
<1> QED BY <1>1, <1>4, <1>6, <1>9, <1>10, <1>12

(* They come last in the projection, in the order of the calls.            *)
LEMMA OpenGrows ==
  ASSUME NEW c, Orderly(c), NEW t, NEW a, OpenAt(c, a, t)
  PROVE  Grows(SubSeq(c, 1, a), c) /\ Len(SubSeq(c, 1, a)) = a
<1>1. PICK n \in Nat : n = Len(c)
  BY DEF Orderly, Shaped
<1>2. a \in 1..n /\ c \in Seq(Entry)
  BY <1>1 DEF OpenAt, Orderly, Shaped
<1>3. PICK b : b = SubSeq(c, 1, a)
  OBVIOUS
<1>4. b \in Seq(Entry) /\ Len(b) = a /\ \A j \in 1..a : b[j] = c[j]
  <2>1. \A i \in 1..a : c[i] \in Entry
    BY <1>1, <1>2
  <2>2. b = [i \in 1..a |-> c[i]]
    BY <1>1, <1>2, <1>3
  <2> QED BY <1>2, <2>1, <2>2
<1>5. Begins(b, c)
  BY <1>1, <1>2, <1>4 DEF Begins
<1>6. \A l \in (a + 1)..n : c[l].k # "compaction"
  BY <1>1 DEF OpenAt
<1>7. ASSUME NEW j \in 1..a, NEW l \in (a + 1)..n PROVE SourceBefore(c, j, l)
  <2>1. SourceKey(c, l) = <<a, c[l].i>> /\ c[l].i \in Nat \ {0}
    BY <1>1, OpenOwners DEF Orderly
  <2>2. j \in 1..n
    BY <1>2
  <2>3. PICK x \in 0..j, y \in Nat :
          /\ SourceKey(c, j) = <<x, y>>
          /\ IF c[j].k = "result" THEN x = OwnerOf(c, j) /\ x < j /\ y = c[j].i /\ y > 0
             ELSE x = j /\ y = 0
    BY <1>1, <2>2, KeyType DEF Orderly
  <2>4. x < a \/ (x = a /\ y < c[l].i)
    BY <1>2, <2>1, <2>3
  <2> QED BY <2>1, <2>3, <2>4 DEF SourceBefore
<1> QED BY <1>1, <1>3, <1>4, <1>5, <1>6, <1>7 DEF Grows

LEMMA OpenDerived ==
  ASSUME NEW c, Orderly(c), NEW t, NEW a, OpenAt(c, a, t)
  PROVE  \E r \in Seq(Message) :
           Derived(c) = Derived(SubSeq(c, 1, a)) \o r /\ \A x \in 1..Len(r) : r[x].k = "result"
<1>1. PICK b : b = SubSeq(c, 1, a)
  OBVIOUS
<1>2. Grows(b, c) /\ Len(b) = a
  BY <1>1, OpenGrows
<1>3. PICK n \in Nat : n = Len(c)
  BY DEF Orderly, Shaped
<1>4. PICK S : S = Newer(b, c)
  OBVIOUS
<1>5. S \in SUBSET Places(c)
  BY <1>2, <1>4, PlacesGrow
<1>6. IsFiniteSet(S) /\ StrictOrder(S, PlaceOrder(c))
  <2>1. IsFiniteSet(Places(c)) /\ StrictOrder(Places(c), PlaceOrder(c))
    BY PlacesFinite, PlacesOrdered DEF Orderly
  <2>2. IsFiniteSet(S)
    BY <1>5, <2>1, FS_Subset
  <2>3. StrictOrder(S, PlaceOrder(c))
    BY <1>5, <2>1 DEF StrictOrder
  <2> QED BY <2>2, <2>3
<1>7. PICK g : g = InOrder(S, PlaceOrder(c))
  OBVIOUS
<1>8. Lists(g, S, PlaceOrder(c))
  BY <1>6, <1>7, InOrderLists
<1>9. Derived(c) = Derived(b) \o Reads(c, g)
  BY <1>2, <1>4, <1>8, DerivedGrows
<1>10. Len(g) \in Nat /\ \A x \in 1..Len(g) : g[x] \in S
  BY <1>8, ListType
<1>11. \A p \in S : MessageAt(c, p) \in Message /\ MessageAt(c, p).k = "result"
  <2> SUFFICES ASSUME NEW p \in S PROVE MessageAt(c, p) \in Message /\ MessageAt(c, p).k = "result"
    OBVIOUS
  <2>1. PICK l \in (a + 1)..n : p = <<l, 1>>
    BY <1>2, <1>3, <1>4 DEF Newer
  <2>2. MessageAt(c, p) = Msg(c[l].k, c[l].n, c[l].i)
    BY <1>2, <1>4, <2>1, PlacesGrow
  <2>3. l \in 1..n
    BY <1>3 DEF OpenAt
  <2>4. c[l] \in Entry /\ c[l].k = "result"
    BY <1>3, <2>3 DEF OpenAt, Orderly, Shaped
  <2> QED BY <2>2, <2>4 DEF Msg, Message, Entry
<1>12. PICK r : r = Reads(c, g)
  OBVIOUS
<1>13. r = [x \in 1..Len(g) |-> MessageAt(c, g[x])]
  BY <1>12 DEF Reads
<1>14. r \in [1..Len(g) -> Message] /\ \A x \in 1..Len(g) : r[x].k = "result"
  BY <1>10, <1>11, <1>13
<1>15. r \in Seq(Message) /\ Len(r) = Len(g)
  BY <1>10, <1>14
<1> QED BY <1>1, <1>9, <1>12, <1>14, <1>15

LEMMA SettledDerived ==
  ASSUME NEW c, Orderly(c), NEW t, NEW a, OpenAt(c, a, t), SettledCalls(c, a) = 1..c[a].calls
  PROVE  Derived(c) = Derived(SubSeq(c, 1, a)) \o [i \in 1..c[a].calls |-> Msg("result", t, i)]
<1>1. PICK b : b = SubSeq(c, 1, a)
  OBVIOUS
<1>2. Grows(b, c) /\ Len(b) = a
  BY <1>1, OpenGrows
<1>3. PICK n \in Nat : n = Len(c)
  BY DEF Orderly, Shaped
<1>4. PICK k \in Nat : k = c[a].calls
  <2>1. c[a] \in Entry
    BY DEF OpenAt, Orderly, Shaped
  <2> QED BY <2>1 DEF Entry
<1> DEFINE at_(i) == CHOOSE j \in (a + 1)..n : c[j].i = i
<1>5. \A i \in 1..k : at_(i) \in (a + 1)..n /\ c[at_(i)].i = i
  <2> SUFFICES ASSUME NEW i \in 1..k PROVE at_(i) \in (a + 1)..n /\ c[at_(i)].i = i
    OBVIOUS
  <2>1. \E j \in (a + 1)..n : c[j].i = i
    BY <1>3, <1>4 DEF SettledCalls
  <2> QED BY <2>1
<1>6. \A j \in (a + 1)..n : SourceKey(c, j) = <<a, c[j].i>> /\ c[j].i \in 1..k /\ j \in 1..n /\ c[j].k = "result" /\ c[j].n = t
  <2>1. \A j \in (a + 1)..n : j \in 1..n
    BY <1>3 DEF OpenAt
  <2> QED BY <1>3, <1>4, <2>1, OpenOwners DEF OpenAt, Orderly
<1>7. \A j \in (a + 1)..n : at_(c[j].i) = j
  <2> SUFFICES ASSUME NEW j \in (a + 1)..n PROVE at_(c[j].i) = j
    OBVIOUS
  <2>1. PICK l : l = at_(c[j].i)
    OBVIOUS
  <2>2. l \in (a + 1)..n /\ c[l].i = c[j].i
    BY <1>5, <1>6, <2>1
  <2>3. SourceKey(c, l) = SourceKey(c, j) /\ l \in 1..n /\ j \in 1..n
    BY <1>6, <2>2
  <2> QED BY <1>3, <2>1, <2>3 DEF Orderly
<1> DEFINE g == [i \in 1..k |-> <<at_(i), 1>>]
<1>8. \A p : p \in Newer(b, c) <=> \E j \in (a + 1)..n : p = <<j, 1>>
  BY <1>2, <1>3 DEF Newer
<1>9. \A i \in 1..k : g[i] = <<at_(i), 1>> /\ g[i] \in Newer(b, c)
  BY <1>5, <1>8
<1>10. g \in [1..k -> Newer(b, c)]
  BY <1>9
<1> HIDE DEF at_
<1>11. Lists(g, Newer(b, c), PlaceOrder(c))
  <2>1. \A p \in Newer(b, c) : \E x \in 1..k : g[x] = p
    <3> SUFFICES ASSUME NEW p \in Newer(b, c) PROVE \E x \in 1..k : g[x] = p
      OBVIOUS
    <3>1. PICK j \in (a + 1)..n : p = <<j, 1>>
      BY <1>8
    <3>2. c[j].i \in 1..k /\ g[c[j].i] = p
      BY <1>6, <1>7, <1>9, <3>1
    <3> QED BY <3>2
  <2>2. ASSUME NEW x \in 1..k, NEW y \in 1..k, x < y PROVE <<g[x], g[y]>> \in PlaceOrder(c)
    <3>1. SourceKey(c, at_(x)) = <<a, x>> /\ SourceKey(c, at_(y)) = <<a, y>>
      BY <1>5, <1>6
    <3>2. SourceBefore(c, at_(x), at_(y))
      BY <2>2, <3>1 DEF SourceBefore
    <3>3. g[x] \in Places(c) /\ g[y] \in Places(c)
      BY <1>2, <1>9, PlacesGrow
    <3>4. PlaceBefore(c, g[x], g[y])
      BY <1>9, <3>2 DEF PlaceBefore
    <3> HIDE DEF g
    <3> QED BY <3>3, <3>4 DEF PlaceOrder
  <2>3. g \in Seq(Newer(b, c)) /\ Len(g) = k
    <3> HIDE DEF g
    <3> QED BY <1>4, <1>10
  <2> HIDE DEF g
  <2> QED BY <2>1, <2>2, <2>3 DEF Lists
<1>12. Derived(c) = Derived(b) \o Reads(c, g)
  <2> HIDE DEF g
  <2> QED BY <1>2, <1>11, DerivedGrows
<1>13. Len(g) = k
  <2> HIDE DEF g
  <2> QED BY <1>4, <1>10
<1>14. \A i \in 1..k : MessageAt(c, g[i]) = Msg("result", t, i)
  <2> SUFFICES ASSUME NEW i \in 1..k PROVE MessageAt(c, g[i]) = Msg("result", t, i)
    OBVIOUS
  <2>1. PICK j \in (a + 1)..n : j = at_(i) /\ c[j].i = i
    BY <1>5
  <2>2. g[i] = <<j, 1>> /\ g[i] \in Newer(b, c)
    BY <1>9, <2>1
  <2>3. MessageAt(c, g[i]) = Msg(c[j].k, c[j].n, c[j].i)
    <3> HIDE DEF g
    <3> QED BY <1>2, <2>2, PlacesGrow
  <2> QED BY <1>6, <2>1, <2>3
<1>15. Reads(c, g) = [i \in 1..k |-> Msg("result", t, i)]
  <2> HIDE DEF g
  <2> QED BY <1>13, <1>14 DEF Reads
<1> QED BY <1>1, <1>4, <1>12, <1>15

-----------------------------------------------------------------------------
(* Queued input: messages of the transcript without an entry.              *)

LEMMA MessageLive ==
  Message \subseteq LiveMessage /\ Seq(Message) \subseteq Seq(LiveMessage)
  /\ \A m \in Message : m.k # "queued"
<1>1. Message \subseteq LiveMessage
  BY DEF Message, LiveMessage
<1>2. Seq(Message) \subseteq Seq(LiveMessage)
  BY <1>1
<1>3. \A m \in Message : m.k # "queued"
  BY DEF Message
<1> QED BY <1>1, <1>2, <1>3

LEMMA QueuedType ==
  ASSUME NEW n \in Nat
  PROVE  /\ Queued(n) \in Seq(LiveMessage) /\ Len(Queued(n)) = n
         /\ \A x \in 1..n : Queued(n)[x].k = "queued"
<1>1. Msg("queued", 0, 0) \in LiveMessage /\ Msg("queued", 0, 0).k = "queued"
  BY DEF Msg, LiveMessage
<1>2. Queued(n) \in [1..n -> LiveMessage] /\ \A x \in 1..n : Queued(n)[x] = Msg("queued", 0, 0)
  BY <1>1 DEF Queued
<1> QED BY <1>1, <1>2

LEMMA EntriesType ==
  ASSUME NEW m, NEW x \in Nat
  PROVE  IsFiniteSet({y \in 1..x : m[y].k # "queued"}) /\ Entries(m, x) \in Nat
<1>1. IsFiniteSet(1..x)
  BY FS_Interval
<1>2. IsFiniteSet({y \in 1..x : m[y].k # "queued"})
  BY <1>1, FS_Subset
<1> QED BY <1>2, FS_CardinalityType DEF Entries

(* A message with an entry has a place among those.                        *)
LEMMA EntriesPlace ==
  ASSUME NEW m, NEW n \in Nat, NEW x \in 1..n, m[x].k # "queued"
  PROVE  Entries(m, x) \in 1..Entries(m, n)
<1> DEFINE S == {y \in 1..x : m[y].k # "queued"}
           T == {y \in 1..n : m[y].k # "queued"}
<1>1. IsFiniteSet(S) /\ IsFiniteSet(T) /\ Entries(m, x) \in Nat /\ Entries(m, n) \in Nat
  BY EntriesType
<1>2. S \subseteq T /\ x \in S
  OBVIOUS
<1>3. Cardinality(S) # 0
  BY <1>1, <1>2, FS_EmptySet
<1>4. Cardinality(S) <= Cardinality(T)
  BY <1>1, <1>2, FS_Subset
<1> QED BY <1>1, <1>3, <1>4 DEF Entries

(* What is at the front of a transcript does not depend on its end.        *)
LEMMA EntriesFront ==
  ASSUME NEW m, NEW c, NEW x \in Nat, \A y \in 1..x : c[y] = m[y]
  PROVE  Entries(c, x) = Entries(m, x)
<1>1. {y \in 1..x : c[y].k # "queued"} = {y \in 1..x : m[y].k # "queued"}
  OBVIOUS
<1> QED BY <1>1 DEF Entries

(* Messages that have entries are added to both.                           *)
LEMMA DurableConcat ==
  ASSUME NEW m \in Seq(LiveMessage), NEW d \in Seq(Message), NEW r \in Seq(Message), DurablePart(m, d)
  PROVE  DurablePart(m \o r, d \o r)
<1>1. r \in Seq(LiveMessage) /\ m \o r \in Seq(LiveMessage) /\ d \o r \in Seq(Message)
  BY MessageLive, ConcatProperties
<1>2. PICK c \in Seq(LiveMessage) : c = m \o r
  BY <1>1
<1>3. PICK e \in Seq(Message) : e = d \o r
  BY <1>1
<1>4. PICK n \in Nat : n = Len(m)
  OBVIOUS
<1>5. PICK k \in Nat : k = Len(r)
  OBVIOUS
<1>6. PICK l \in Nat : l = Len(d)
  OBVIOUS
<1>7. /\ Len(c) = n + k /\ Len(e) = l + k
      /\ \A x \in 1..n : c[x] = m[x]
      /\ \A x \in 1..k : c[n + x] = r[x]
      /\ \A x \in 1..l : e[x] = d[x]
      /\ \A x \in 1..k : e[l + x] = r[x]
  BY <1>1, <1>2, <1>3, <1>4, <1>5, <1>6
<1>8. l = Entries(m, n) /\ \A x \in 1..n : m[x].k # "queued" => d[Entries(m, x)] = m[x]
  BY <1>4, <1>6 DEF DurablePart
<1>9. \A x \in 1..n : Entries(c, x) = Entries(m, x)
  <2> SUFFICES ASSUME NEW x \in 1..n PROVE Entries(c, x) = Entries(m, x)
    OBVIOUS
  <2>1. x \in Nat /\ \A y \in 1..x : c[y] = m[y]
    BY <1>7
  <2> QED BY <2>1, EntriesFront
<1>10. ASSUME NEW x \in 0..k PROVE Entries(c, n + x) = l + x
  <2> DEFINE S == {y \in 1..n : m[y].k # "queued"}
             T == (n + 1)..(n + x)
             U == {y \in 1..(n + x) : c[y].k # "queued"}
  <2>1. IsFiniteSet(S) /\ Cardinality(S) = l
    BY <1>8, EntriesType DEF Entries
  <2>2. IsFiniteSet(T) /\ Cardinality(T) = x
    <3>1. n + 1 \in Int /\ n + x \in Int
      BY <1>10
    <3>2. IsFiniteSet(T) /\ Cardinality(T) = IF n + 1 > n + x THEN 0 ELSE (n + x) - (n + 1) + 1
      BY <3>1, FS_Interval
    <3> HIDE DEF T
    <3> QED BY <1>10, <3>2
  <2>3. \A y \in T : c[y].k # "queued"
    <3> SUFFICES ASSUME NEW y \in T PROVE c[y].k # "queued"
      OBVIOUS
    <3>1. PICK z \in 1..k : y = n + z
      <4>1. y - n \in 1..k /\ y = n + (y - n)
        BY <1>10
      <4> QED BY <4>1
    <3>2. r[z] \in Message
      BY <1>5
    <3> QED BY <1>7, <3>1, <3>2, MessageLive
  <2>4. U = S \cup T
    <3>1. \A y \in 1..(n + x) : y \in 1..n \/ y \in T
      OBVIOUS
    <3>2. \A y \in 1..n : y \in 1..(n + x)
      OBVIOUS
    <3>3. \A y \in T : y \in 1..(n + x)
      OBVIOUS
    <3> HIDE DEF T
    <3> QED BY <1>7, <2>3, <3>1, <3>2, <3>3
  <2>5. S \cap T = {}
    OBVIOUS
  <2>6. Cardinality(U) = l + x
    <3> HIDE DEF S, T, U
    <3>1. Cardinality(S \cup T) = Cardinality(S) + Cardinality(T) - Cardinality(S \cap T)
      BY <2>1, <2>2, FS_Union
    <3>2. Cardinality(S \cap T) = 0
      BY <2>5, FS_EmptySet
    <3>3. Cardinality(U) = Cardinality(S) + Cardinality(T) - 0
      BY <2>4, <3>1, <3>2
    <3> QED BY <1>10, <2>1, <2>2, <3>3
  <2> QED BY <2>6 DEF Entries
<1>11. ASSUME NEW x \in 1..(n + k), c[x].k # "queued" PROVE e[Entries(c, x)] = c[x]
  <2>1. CASE x \in 1..n
    <3>1. m[x].k # "queued"
      BY <1>7, <1>11, <2>1
    <3>2. Entries(m, x) \in 1..l
      BY <1>8, <2>1, <3>1, EntriesPlace
    <3> QED BY <1>7, <1>8, <1>9, <2>1, <3>1, <3>2
  <2>2. CASE x \notin 1..n
    <3>1. PICK z \in 1..k : x = n + z
      <4>1. x - n \in 1..k /\ x = n + (x - n)
        BY <2>2
      <4> QED BY <4>1
    <3>2. Entries(c, x) = l + z
      BY <1>10, <3>1
    <3> QED BY <1>7, <3>1, <3>2
  <2> QED BY <2>1, <2>2
<1>12. Len(e) = Entries(c, Len(c))
  <2>1. k \in 0..k
    OBVIOUS
  <2>2. Entries(c, n + k) = l + k
    BY <1>10, <2>1
  <2> QED BY <1>7, <2>2
<1>13. DOMAIN c = 1..(n + k)
  BY <1>7
<1>14. DurablePart(c, e)
  BY <1>11, <1>12, <1>13 DEF DurablePart
<1> QED BY <1>2, <1>3, <1>14

LEMMA DurableSelf ==
  ASSUME NEW d \in Seq(Message)
  PROVE  DurablePart(d, d)
<1>1. {y \in 1..0 : <<>>[y].k # "queued"} = {}
  OBVIOUS
<1>2. DurablePart(<<>>, <<>>)
  BY <1>1, FS_EmptySet DEF DurablePart, Entries
<1>3. DurablePart(<<>> \o d, <<>> \o d)
  <2>1. <<>> \in Seq(LiveMessage) /\ <<>> \in Seq(Message)
    OBVIOUS
  <2> QED BY <1>2, <2>1, DurableConcat
<1>4. <<>> \o d = d
  OBVIOUS
<1> QED BY <1>3, <1>4

LEMMA DurableAppend ==
  ASSUME NEW m \in Seq(LiveMessage), NEW d \in Seq(Message), NEW a \in Message, DurablePart(m, d)
  PROVE  DurablePart(Append(m, a), Append(d, a))
<1>1. <<a>> \in Seq(Message) /\ <<a>> \in Seq(LiveMessage) /\ a \in LiveMessage
  BY MessageLive
<1>2. Append(m, a) = m \o <<a>> /\ Append(d, a) = d \o <<a>>
  BY <1>1, AppendIsConcat
<1>3. DurablePart(m \o <<a>>, d \o <<a>>)
  BY <1>1, DurableConcat
<1> QED BY <1>2, <1>3

(* Messages without an entry are added to the transcript only.             *)
LEMMA DurableQueued ==
  ASSUME NEW m \in Seq(LiveMessage), NEW d, NEW k \in Nat, DurablePart(m, d)
  PROVE  DurablePart(m \o Queued(k), d)
<1>1. m \o Queued(k) \in Seq(LiveMessage)
  BY QueuedType, ConcatProperties
<1>2. PICK c \in Seq(LiveMessage) : c = m \o Queued(k)
  BY <1>1
<1>3. PICK n \in Nat : n = Len(m)
  OBVIOUS
<1>4. PICK q \in Seq(LiveMessage) : q = Queued(k) /\ Len(q) = k /\ \A x \in 1..k : q[x].k = "queued"
  BY QueuedType
<1>5. /\ Len(c) = n + k
      /\ \A x \in 1..n : c[x] = m[x]
      /\ \A x \in 1..k : c[n + x] = q[x]
  <2>1. c = m \o q
    BY <1>2, <1>4
  <2>2. Len(q) = k
    BY <1>4
  <2>3. /\ Len(m \o q) = Len(m) + Len(q)
        /\ \A x \in 1..(Len(m) + Len(q)) : (m \o q)[x] = IF x <= Len(m) THEN m[x] ELSE q[x - Len(m)]
    BY ConcatProperties
  <2>4. \A x \in 1..k : n + x \in 1..(n + k) /\ ~(n + x <= n) /\ (n + x) - n = x
    OBVIOUS
  <2>5. \A x \in 1..n : x \in 1..(n + k)
    OBVIOUS
  <2> QED BY <1>3, <2>1, <2>2, <2>3, <2>4, <2>5
<1>6. \A x \in 1..n : Entries(c, x) = Entries(m, x)
  <2> SUFFICES ASSUME NEW x \in 1..n PROVE Entries(c, x) = Entries(m, x)
    OBVIOUS
  <2>1. x \in Nat /\ \A y \in 1..x : c[y] = m[y]
    BY <1>5
  <2> QED BY <2>1, EntriesFront
<1>7. \A x \in 1..(n + k) : x \in 1..n \/ c[x].k = "queued"
  <2> SUFFICES ASSUME NEW x \in 1..(n + k), x \notin 1..n PROVE c[x].k = "queued"
    OBVIOUS
  <2>1. PICK z \in 1..k : x = n + z
    <3>1. x - n \in 1..k /\ x = n + (x - n)
      OBVIOUS
    <3> QED BY <3>1
  <2> QED BY <1>4, <1>5, <2>1
<1>8. Entries(c, n + k) = Entries(m, n)
  <2>1. {y \in 1..(n + k) : c[y].k # "queued"} = {y \in 1..n : m[y].k # "queued"}
    BY <1>5, <1>7
  <2> QED BY <2>1 DEF Entries
<1>9. Len(d) = Entries(c, Len(c))
  BY <1>3, <1>5, <1>8 DEF DurablePart
<1>10. \A x \in DOMAIN c : c[x].k # "queued" => d[Entries(c, x)] = c[x]
  BY <1>3, <1>5, <1>6, <1>7 DEF DurablePart
<1> QED BY <1>2, <1>9, <1>10 DEF DurablePart

(* The last response of a transcript, whatever follows it.                 *)
LEMMA LastResponseIs ==
  ASSUME NEW m \in Seq(LiveMessage), NEW z \in DOMAIN m, m[z].k = "assistant",
         \A y \in DOMAIN m : y > z => m[y].k # "assistant"
  PROVE  LastResponse(m) = z
<1> DEFINE w == LastResponse(m)
<1>1. w \in DOMAIN m /\ m[w].k = "assistant" /\ \A y \in DOMAIN m : y > w => m[y].k # "assistant"
  BY DEF LastResponse
<1>2. DOMAIN m = 1..Len(m) /\ Len(m) \in Nat
  OBVIOUS
<1> HIDE DEF w
<1>3. ~(w > z) /\ ~(z > w)
  BY <1>1
<1>4. w = z
  BY <1>1, <1>2, <1>3
<1> QED BY <1>4 DEF w

LEMMA LastResponseWithin ==
  ASSUME NEW m \in Seq(LiveMessage), NEW c \in Seq(LiveMessage),
         NEW z \in DOMAIN m, m[z].k = "assistant", \A y \in DOMAIN m : y > z => m[y].k # "assistant",
         \A y \in DOMAIN c : c[y].k # "assistant"
  PROVE  LastResponse(m \o c) = z /\ UpToAssistant(m \o c) = SubSeq(m, 1, z)
<1>1. m \o c \in Seq(LiveMessage)
  BY ConcatProperties
<1>2. PICK s \in Seq(LiveMessage) : s = m \o c
  BY <1>1
<1>3. PICK n \in Nat : n = Len(m)
  OBVIOUS
<1>4. PICK k \in Nat : k = Len(c)
  OBVIOUS
<1>5. /\ Len(s) = n + k /\ DOMAIN m = 1..n /\ DOMAIN c = 1..k /\ DOMAIN s = 1..(n + k)
      /\ \A x \in 1..n : s[x] = m[x]
      /\ \A x \in 1..k : s[n + x] = c[x]
  BY <1>2, <1>3, <1>4
<1>6. z \in 1..n /\ z \in DOMAIN s /\ s[z].k = "assistant"
  BY <1>5
<1>7. \A y \in DOMAIN s : y > z => s[y].k # "assistant"
  <2> SUFFICES ASSUME NEW y \in 1..(n + k), y > z PROVE s[y].k # "assistant"
    BY <1>5
  <2>1. CASE y \in 1..n
    BY <1>5, <2>1
  <2>2. CASE y \notin 1..n
    <3>1. PICK x \in 1..k : y = n + x
      <4>1. y - n \in 1..k /\ y = n + (y - n)
        BY <2>2
      <4> QED BY <4>1
    <3> QED BY <1>5, <3>1
  <2> QED BY <2>1, <2>2
<1>8. LastResponse(s) = z
  BY <1>6, <1>7, LastResponseIs
<1>9. SubSeq(s, 1, z) = SubSeq(m, 1, z)
  <2>1. SubSeq(s, 1, z) = [x \in 1..z |-> s[x]]
    BY <1>5, <1>6
  <2>2. SubSeq(m, 1, z) = [x \in 1..z |-> m[x]]
    BY <1>3, <1>6
  <2>3. \A x \in 1..z : s[x] = m[x]
    BY <1>5, <1>6
  <2> QED BY <2>1, <2>2, <2>3
<1> QED BY <1>2, <1>8, <1>9 DEF UpToAssistant

(* What is behind the last response is taken off the transcript.           *)
LEMMA UpToLast ==
  ASSUME NEW d \in Seq(LiveMessage), NEW m \in LiveMessage, m.k = "assistant", NEW r \in Seq(LiveMessage),
         \A x \in 1..Len(r) : r[x].k # "assistant"
  PROVE  UpToAssistant(Append(d, m) \o r) = Append(d, m)
<1>1. PICK e \in Seq(LiveMessage) : e = Append(d, m)
  <2>1. Append(d, m) \in Seq(LiveMessage)
    OBVIOUS
  <2> QED BY <2>1
<1>2. PICK n \in Nat : n = Len(e) /\ n >= 1
  BY <1>1
<1>3. e[n].k = "assistant" /\ DOMAIN e = 1..n /\ n \in DOMAIN e
  BY <1>1, <1>2
<1>4. \A y \in DOMAIN e : ~(y > n)
  BY <1>2, <1>3
<1>5. DOMAIN r = 1..Len(r)
  OBVIOUS
<1>6. UpToAssistant(e \o r) = SubSeq(e, 1, n)
  BY <1>3, <1>4, <1>5, LastResponseWithin
<1>7. SubSeq(e, 1, n) = e
  <2>1. SubSeq(e, 1, n) = [x \in 1..n |-> e[x]]
    BY <1>2
  <2>2. e = [x \in 1..n |-> e[x]]
    BY <1>2
  <2> QED BY <2>1, <2>2
<1> QED BY <1>1, <1>6, <1>7

LEMMA UpToItself ==
  ASSUME NEW d \in Seq(LiveMessage), NEW m \in LiveMessage, m.k = "assistant"
  PROVE  UpToAssistant(Append(d, m)) = Append(d, m)
<1>1. PICK r \in Seq(LiveMessage) : r = <<>> /\ \A x \in 1..Len(r) : r[x].k # "assistant"
  <2>1. <<>> \in Seq(LiveMessage) /\ \A x \in 1..Len(<<>>) : <<>>[x].k # "assistant"
    OBVIOUS
  <2> QED BY <2>1
<1>2. PICK e \in Seq(LiveMessage) : e = Append(d, m)
  <2>1. Append(d, m) \in Seq(LiveMessage)
    OBVIOUS
  <2> QED BY <2>1
<1>3. e \o r = e
  BY <1>1
<1>4. UpToAssistant(Append(d, m) \o r) = Append(d, m)
  BY <1>1, UpToLast
<1> QED BY <1>2, <1>3, <1>4

-----------------------------------------------------------------------------
(* Whether a later run finds calls to answer.                              *)

(* An entry that is neither response nor result leaves both alone.         *)
LEMMA ClosedKept ==
  ASSUME NEW b \in Seq(Entry), NEW e \in Entry, e.k \notin {"assistant", "result"}, Closed(b)
  PROVE  Closed(Append(b, e))
<1>1. PICK c : c = Append(b, e)
  OBVIOUS
<1>2. PICK n \in Nat : n = Len(b)
  OBVIOUS
<1>3. Len(c) = n + 1 /\ Begins(b, c) /\ c[n + 1] = e
  BY <1>1, <1>2, AppendBegins
<1>4. \A j \in 1..n : c[j] = b[j]
  BY <1>2, <1>3 DEF Begins
<1>5. PICK w : w = LastAssistant(c)
  OBVIOUS
<1>6. PICK v : v = LastAssistant(b)
  OBVIOUS
<1>7. /\ w \in 0..(n + 1) /\ (w # 0 => c[w].k = "assistant")
      /\ \A x \in 1..(n + 1) : c[x].k = "assistant" => x <= w
  <2>1. w = OwnerOf(c, n + 2) /\ n + 2 \in Nat \ {0}
    <3>1. (n + 1) + 1 = n + 2
      OBVIOUS
    <3> QED BY <1>3, <1>5, <3>1 DEF LastAssistant
  <2>2. (n + 2) - 1 = n + 1
    OBVIOUS
  <2> QED BY <2>1, <2>2, OwnerLast
<1>8. /\ v \in 0..n /\ (v # 0 => b[v].k = "assistant")
      /\ \A x \in 1..n : b[x].k = "assistant" => x <= v
  <2>1. v = OwnerOf(b, n + 1) /\ n + 1 \in Nat \ {0}
    BY <1>2, <1>6 DEF LastAssistant
  <2>2. (n + 1) - 1 = n
    OBVIOUS
  <2> QED BY <2>1, <2>2, OwnerLast
<1>9. w = v
  <2>1. w # n + 1
    BY <1>3, <1>7
  <2>2. w <= v
    <3>1. CASE w = 0
      BY <1>8, <3>1
    <3>2. CASE w # 0
      <4>1. w \in 1..n
        BY <1>7, <2>1, <3>2
      <4> QED BY <1>4, <1>7, <1>8, <3>2, <4>1
    <3> QED BY <3>1, <3>2
  <2>3. v <= w
    <3>1. CASE v = 0
      BY <1>7, <3>1
    <3>2. CASE v # 0
      <4>1. v \in 1..n /\ v \in 1..(n + 1)
        BY <1>8, <3>2
      <4> QED BY <1>4, <1>7, <1>8, <3>2, <4>1
    <3> QED BY <3>1, <3>2
  <2> QED BY <1>7, <1>8, <2>2, <2>3
<1>10. CASE v = 0
  BY <1>1, <1>5, <1>9, <1>10 DEF Closed
<1>11. CASE v # 0
  <2>1. v \in 1..n
    BY <1>8, <1>11
  <2>2. ResultsOf(c, v) = ResultsOf(b, v)
    <3>1. ASSUME NEW j \in 1..n PROVE OwnerOf(c, j) = OwnerOf(b, j) /\ c[j] = b[j]
      <4>1. j \in 1..(n + 1)
        OBVIOUS
      <4> QED BY <1>2, <1>3, <1>4, <4>1, OwnerKept
    <3>2. \A j \in 1..(n + 1) : j \in 1..n \/ j = n + 1
      BY <1>2
    <3>3. c[n + 1].k # "result" /\ 1..n \subseteq 1..(n + 1)
      BY <1>3
    <3> QED BY <1>2, <1>3, <3>1, <3>2, <3>3 DEF ResultsOf
  <2>3. \A j \in ResultsOf(b, v) : c[j] = b[j]
    BY <1>2, <1>4 DEF ResultsOf
  <2>4. Unresolved(b, v) = {}
    BY <1>6, <1>11 DEF Closed
  <2>5. Unresolved(c, v) = {}
    BY <1>4, <2>1, <2>2, <2>3, <2>4 DEF Unresolved
  <2> QED BY <1>1, <1>5, <1>9, <2>5 DEF Closed
<1> QED BY <1>10, <1>11

LEMMA OpenLast ==
  ASSUME NEW b, Shaped(b), NEW t, NEW a, OpenAt(b, a, t)
  PROVE  LastAssistant(b) = a
<1>1. a \in 1..Len(b) /\ Len(b) \in Nat /\ \A j \in (a + 1)..(Len(b) + 1) : OwnerOf(b, j) = a
  BY OpenOwners
<1>2. Len(b) + 1 \in (a + 1)..(Len(b) + 1)
  BY <1>1
<1> QED BY <1>1, <1>2 DEF LastAssistant

LEMMA SettledCloses ==
  ASSUME NEW b, Shaped(b), NEW t, NEW a, OpenAt(b, a, t), SettledCalls(b, a) = 1..b[a].calls
  PROVE  Closed(b)
<1>1. LastAssistant(b) = a /\ Unresolved(b, a) = 1..b[a].calls \ SettledCalls(b, a)
  BY OpenLast, OpenOwners
<1> QED BY <1>1 DEF Closed

(* A new response is open, and nothing of it is settled.                   *)
LEMMA ResponseOpens ==
  ASSUME NEW b \in Seq(Entry), NEW e \in Entry, e.k = "assistant", NEW t
  PROVE  /\ OpenAt(Append(b, e), Len(b) + 1, t) /\ SettledCalls(Append(b, e), Len(b) + 1) = {}
         /\ SubSeq(Append(b, e), 1, Len(b) + 1) = Append(b, e) /\ Append(b, e)[Len(b) + 1] = e
<1>1. PICK c : c = Append(b, e)
  OBVIOUS
<1>2. PICK n \in Nat : n = Len(b)
  OBVIOUS
<1>3. Len(c) = n + 1 /\ c[n + 1] = e /\ c \in Seq(Entry)
  BY <1>1, <1>2
<1>4. \A j : j \notin ((n + 1) + 1)..(n + 1)
  BY <1>2
<1>5. n + 1 \in 1..(n + 1)
  BY <1>2
<1>6. OpenAt(c, n + 1, t) /\ SettledCalls(c, n + 1) = {}
  BY <1>3, <1>4, <1>5 DEF OpenAt, SettledCalls
<1>7. SubSeq(c, 1, n + 1) = c
  <2>1. SubSeq(c, 1, n + 1) = [x \in 1..(n + 1) |-> c[x]]
    BY <1>3
  <2>2. c = [x \in 1..(n + 1) |-> c[x]]
    BY <1>3
  <2> QED BY <2>1, <2>2
<1> QED BY <1>1, <1>2, <1>3, <1>6, <1>7

-----------------------------------------------------------------------------
(* A replacement.                                                          *)

LEMMA BrokenKept ==
  ASSUME NEW b, Shaped(b), Broken(b), NEW e \in Entry, e.k # "compaction", Shaped(Append(b, e))
  PROVE  Broken(Append(b, e))
<1>1. PICK c : c = Append(b, e)
  OBVIOUS
<1>2. PICK n \in Nat : n = Len(b)
  BY DEF Shaped
<1>3. Len(c) = n + 1 /\ Begins(b, c) /\ c[n + 1] = e
  BY <1>1, <1>2, AppendBegins DEF Shaped
<1>4. \A j \in (n + 1)..(n + 1) : c[j].k # "compaction"
  BY <1>3
<1>5. Visible(c) = Visible(b) \cup ((n + 1)..(n + 1))
  BY <1>1, <1>2, <1>3, <1>4, VisibleGrows
<1>6. PICK j \in Visible(b) : b[j].k = "result" /\ OwnerOf(b, j) \notin Visible(b)
  BY DEF Broken
<1>7. j \in 1..n /\ j \in Nat \ {0} /\ j \in 1..(n + 1)
  BY <1>2 DEF Visible
<1>8. OwnerOf(c, j) = OwnerOf(b, j) /\ OwnerOf(b, j) \in 0..(j - 1) /\ c[j] = b[j]
  BY <1>2, <1>3, <1>7, OwnerKept, OwnerLast DEF Begins
<1>9. OwnerOf(b, j) \notin (n + 1)..(n + 1)
  BY <1>7, <1>8
<1> QED BY <1>1, <1>5, <1>6, <1>8, <1>9 DEF Broken

LEMMA BrokenUnderivable ==
  ASSUME NEW b, Broken(b), NEW a
  PROVE  ~Derivable(b, a)
BY DEF Broken, Derivable

LEMMA VisibleReplaced ==
  ASSUME NEW b, Shaped(b), NEW e \in Entry, e.k = "compaction", e.to <= Len(b)
  PROVE  Visible(Append(b, e)) = (Visible(b) \ (e.from..e.to)) \cup {Len(b) + 1}
<1>1. PICK c : c = Append(b, e)
  OBVIOUS
<1>2. PICK n \in Nat : n = Len(b)
  BY DEF Shaped
<1>3. Len(c) = n + 1 /\ c[n + 1] = e /\ \A j \in 1..n : c[j] = b[j]
  BY <1>1, <1>2, AppendBegins DEF Shaped, Begins
<1>4. e.to \in Nat /\ e.from \in Nat /\ e.to <= n
  BY <1>2 DEF Entry
<1>5. \A x \in 1..(n + 1) : x \in 1..n \/ x = n + 1
  BY <1>2
<1>6. 1..n \subseteq 1..(n + 1) /\ n + 1 \in 1..(n + 1) /\ n + 1 \notin 1..n
  BY <1>2
<1>7. \A j : j \in Visible(b) <=> j \in 1..n /\ \A x \in 1..n : b[x].k = "compaction" => j \notin b[x].from..b[x].to
  BY <1>2 DEF Visible
<1>8. \A j : j \in Visible(c) <=> j \in 1..(n + 1) /\ \A x \in 1..(n + 1) : c[x].k = "compaction" => j \notin c[x].from..c[x].to
  BY <1>3 DEF Visible
<1>9. ASSUME NEW j \in 1..n PROVE j \in Visible(c) <=> j \in Visible(b) \ (e.from..e.to)
  <2>1. j \in Visible(c) => j \in Visible(b)
    BY <1>3, <1>6, <1>7, <1>8
  <2>2. j \in Visible(c) => j \notin e.from..e.to
    BY <1>3, <1>6, <1>8
  <2>3. ASSUME j \in Visible(b), j \notin e.from..e.to, NEW x \in 1..(n + 1), c[x].k = "compaction"
        PROVE  j \notin c[x].from..c[x].to
    <3>1. CASE x \in 1..n
      BY <1>3, <1>7, <2>3, <3>1
    <3>2. CASE x = n + 1
      BY <1>3, <2>3, <3>2
    <3> QED BY <1>5, <3>1, <3>2
  <2>4. j \in 1..(n + 1)
    BY <1>6
  <2> QED BY <1>8, <2>1, <2>2, <2>3, <2>4
<1>10. n + 1 \in Visible(c)
  <2>1. ASSUME NEW x \in 1..n, c[x].k = "compaction" PROVE n + 1 \notin c[x].from..c[x].to
    <3>1. b[x].to < x /\ b[x] \in Entry /\ c[x] = b[x]
      BY <1>2, <1>3, <2>1 DEF Shaped
    <3>2. c[x].to \in Nat /\ c[x].from \in Nat /\ c[x].to < n + 1
      BY <3>1 DEF Entry
    <3> QED BY <3>2
  <2>2. n + 1 \notin e.from..e.to
    BY <1>4
  <2> QED BY <1>3, <1>5, <1>6, <1>8, <2>1, <2>2
<1>11. Visible(c) \subseteq 1..(n + 1) /\ Visible(b) \subseteq 1..n
  BY <1>2, <1>3 DEF Visible
<1>12. Visible(c) = (Visible(b) \ (e.from..e.to)) \cup {n + 1}
  BY <1>5, <1>6, <1>9, <1>10, <1>11
<1> QED BY <1>1, <1>2, <1>12

(* A replacement that covers all the rest is all of the projection.        *)
LEMMA ReplacementDerived ==
  ASSUME NEW c, Orderly(c), NEW n \in 1..Len(c), c[n].k = "compaction", Visible(c) = {n}
  PROVE  Derived(c) = c[n].body
<1>1. c[n] \in Entry
  BY DEF Orderly, Shaped
<1>2. PICK s \in Seq(Message) : s = c[n].body
  BY <1>1 DEF Entry
<1>3. Messages(c[n]) = s
  BY <1>2 DEF Messages
<1>4. PICK k \in Nat : k = Len(s) /\ DOMAIN s = 1..k
  BY <1>2
<1> DEFINE g == [x \in 1..k |-> <<n, x>>]
<1>5. \A p : p \in Places(c) <=> \E x \in 1..k : p = <<n, x>>
  BY <1>3, <1>4, PlacesAre
<1>6. \A x \in 1..k : g[x] = <<n, x>> /\ g[x] \in Places(c)
  BY <1>5
<1>7. g \in [1..k -> Places(c)]
  BY <1>6
<1> HIDE DEF g
<1>8. g \in Seq(Places(c)) /\ Len(g) = k
  BY <1>4, <1>7
<1>9. \A x, y \in 1..k : x < y => <<g[x], g[y]>> \in PlaceOrder(c)
  BY <1>6 DEF PlaceOrder, PlaceBefore
<1>10. \A p \in Places(c) : \E x \in 1..k : g[x] = p
  BY <1>5, <1>6
<1>11. Lists(g, Places(c), PlaceOrder(c))
  BY <1>8, <1>9, <1>10 DEF Lists
<1>12. Derived(c) = Reads(c, g)
  BY <1>11, DerivedReads
<1>13. \A x \in 1..k : MessageAt(c, g[x]) = s[x]
  BY <1>3, <1>6 DEF MessageAt
<1>14. Reads(c, g) = [x \in 1..k |-> s[x]]
  BY <1>8, <1>13 DEF Reads
<1>15. s = [x \in 1..k |-> s[x]]
  BY <1>4
<1> QED BY <1>2, <1>12, <1>14, <1>15

(* The first and the last of the visible entries.                          *)
LEMMA LastExists ==
  ASSUME NEW S, NEW R, IsFiniteSet(S), S # {}, StrictOrder(S, R)
  PROVE  \E p \in S : \A q \in S \ {p} : <<q, p>> \in R
<1>1. PICK f : f = InOrder(S, R)
  OBVIOUS
<1>2. Lists(f, S, R)
  BY <1>1, InOrderLists
<1>3. PICK n \in Nat : n = Len(f)
  BY <1>2, ListType
<1>4. \A p \in S : \E x \in 1..n : f[x] = p
  BY <1>2, <1>3 DEF Lists
<1>5. n \in 1..n
  <2>1. PICK p \in S : TRUE
    OBVIOUS
  <2>2. PICK x \in 1..n : f[x] = p
    BY <1>4
  <2> QED BY <1>3
<1>6. f[n] \in S
  BY <1>2, <1>3, <1>5, ListType
<1>7. \A q \in S \ {f[n]} : <<q, f[n]>> \in R
  <2> SUFFICES ASSUME NEW q \in S \ {f[n]} PROVE <<q, f[n]>> \in R
    OBVIOUS
  <2>1. PICK x \in 1..n : f[x] = q
    BY <1>4
  <2>2. x < n
    BY <2>1
  <2> QED BY <1>2, <1>3, <1>5, <2>1, <2>2 DEF Lists
<1> QED BY <1>6, <1>7

LEMMA LastIncludedIs ==
  ASSUME NEW b, Orderly(b), Visible(b) # {}
  PROVE  /\ LastIncluded(b) \in Visible(b)
         /\ \A l \in Visible(b) \ {LastIncluded(b)} : SourceBefore(b, l, LastIncluded(b))
<1> DEFINE V == Visible(b)
           R == {e \in V \X V : SourceBefore(b, e[1], e[2])}
<1>1. V \in SUBSET (1..Len(b)) /\ Len(b) \in Nat
  BY DEF Visible, Orderly, Shaped
<1>2. IsFiniteSet(V)
  <2>1. IsFiniteSet(1..Len(b))
    BY <1>1, FS_Interval
  <2> QED BY <1>1, <2>1, FS_Subset
<1>3. \A p, q \in V : <<p, q>> \in R <=> SourceBefore(b, p, q)
  OBVIOUS
<1>4. StrictOrder(V, R)
  <2>1. \A p \in V : ~SourceBefore(b, p, p)
    BY <1>1, SourceOrder
  <2>2. \A p, q \in V : p # q => SourceBefore(b, p, q) \/ SourceBefore(b, q, p)
    BY <1>1, SourceOrder
  <2>3. \A p, q, r \in V : SourceBefore(b, p, q) /\ SourceBefore(b, q, r) => SourceBefore(b, p, r)
    BY <1>1, SourceOrder
  <2> HIDE DEF V, R
  <2> QED BY <1>3, <2>1, <2>2, <2>3 DEF StrictOrder
<1>5. \E p \in V : \A q \in V \ {p} : <<q, p>> \in R
  <2>1. V # {}
    OBVIOUS
  <2> HIDE DEF V, R
  <2> QED BY <1>2, <1>4, <2>1, LastExists
<1>6. \E p \in V : \A q \in V \ {p} : SourceBefore(b, q, p)
  <2> HIDE DEF V, R
  <2> QED BY <1>3, <1>5
<1>7. LastIncluded(b) = CHOOSE p \in V : \A q \in V \ {p} : SourceBefore(b, q, p)
  BY DEF LastIncluded
<1> HIDE DEF V
<1>8. LastIncluded(b) \in V /\ \A q \in V \ {LastIncluded(b)} : SourceBefore(b, q, LastIncluded(b))
  BY <1>6, <1>7
<1> QED BY <1>8 DEF V

LEMMA FirstIncludedIs ==
  ASSUME NEW b, Orderly(b), NEW lo \in 1..Len(b), Visible(b) = lo..Len(b), Derivable(b, 0)
  PROVE  FirstIncluded(b) = lo
<1>1. PICK n \in Nat : n = Len(b)
  BY DEF Orderly, Shaped
<1>2. \A j \in lo..n : j \in 1..n /\ (b[j].k = "result" => OwnerOf(b, j) \in lo..n)
  BY <1>1 DEF Derivable
<1>3. lo \in lo..n /\ lo \in 1..n
  BY <1>1
<1>4. SourceKey(b, lo) = <<lo, 0>>
  <2>1. PICK x \in 0..lo, y \in Nat :
          /\ SourceKey(b, lo) = <<x, y>>
          /\ IF b[lo].k = "result" THEN x = OwnerOf(b, lo) /\ x < lo /\ y = b[lo].i /\ y > 0
             ELSE x = lo /\ y = 0
    BY <1>1, <1>3, KeyType DEF Orderly
  <2>2. b[lo].k # "result"
    BY <1>2, <1>3, <2>1
  <2> QED BY <2>1, <2>2
<1>5. ASSUME NEW l \in (lo..n) \ {lo} PROVE SourceBefore(b, lo, l)
  <2>1. l \in 1..n /\ l > lo
    BY <1>2
  <2>2. PICK x \in 0..l, y \in Nat :
          /\ SourceKey(b, l) = <<x, y>>
          /\ IF b[l].k = "result" THEN x = OwnerOf(b, l) /\ x < l /\ y = b[l].i /\ y > 0
             ELSE x = l /\ y = 0
    BY <1>1, <2>1, KeyType DEF Orderly
  <2>3. lo < x \/ (lo = x /\ 0 < y)
    BY <1>2, <2>1, <2>2
  <2> QED BY <1>4, <2>2, <2>3 DEF SourceBefore
<1>6. \A j \in lo..n : (\A l \in (lo..n) \ {j} : SourceBefore(b, j, l)) => j = lo
  <2> SUFFICES ASSUME NEW j \in lo..n, \A l \in (lo..n) \ {j} : SourceBefore(b, j, l), j # lo PROVE FALSE
    OBVIOUS
  <2>1. SourceBefore(b, j, lo) /\ SourceBefore(b, lo, j)
    BY <1>3, <1>5
  <2> QED BY <1>1, <1>2, <1>3, <2>1, SourceOrder
<1>7. FirstIncluded(b) = CHOOSE j \in lo..n : \A l \in (lo..n) \ {j} : SourceBefore(b, j, l)
  BY <1>1 DEF FirstIncluded
<1> QED BY <1>3, <1>5, <1>6, <1>7

(* The replacement stands for everything before it, or has left behind a   *)
(* result whose call it covers.                                            *)
LEMMA Replaced ==
  ASSUME NEW b, Orderly(b), Suffixed(b), Derivable(b, 0), NEW body \in Seq(Message)
  PROVE  LET c == Append(b, CompactionEntry(FirstIncluded(b), LastIncluded(b), body))
         IN  /\ Orderly(c) /\ CompactionEntry(FirstIncluded(b), LastIncluded(b), body) \in Entry
             /\ Broken(c) \/ (Suffixed(c) /\ Derived(c) = body)
<1>1. PICK n \in Nat : n = Len(b)
  BY DEF Orderly, Shaped
<1>2. PICK lo \in 1..n : Visible(b) = lo..n
  BY <1>1 DEF Suffixed
<1>3. FirstIncluded(b) = lo
  BY <1>1, <1>2, FirstIncludedIs
<1>4. PICK la : la = LastIncluded(b)
  OBVIOUS
<1>5. lo \in lo..n /\ n \in lo..n /\ lo \in Nat
  BY <1>1
<1>6. la \in lo..n /\ \A l \in (lo..n) \ {la} : SourceBefore(b, l, la)
  BY <1>2, <1>4, <1>5, LastIncludedIs
<1>7. PICK e : e = CompactionEntry(lo, la, body)
  OBVIOUS
<1>8. e \in Entry /\ e.k = "compaction" /\ e.from = lo /\ e.to = la /\ e.body = body /\ la \in Nat
  BY <1>5, <1>6, <1>7 DEF CompactionEntry, Entry
<1>9. e.to <= n
  BY <1>6, <1>8
<1>10. PICK c : c = Append(b, e)
  OBVIOUS
<1>11. Orderly(c)
  BY <1>1, <1>8, <1>9, <1>10, AppendPlain
<1>12. Len(c) = n + 1 /\ Begins(b, c) /\ c[n + 1] = e
  BY <1>1, <1>8, <1>10, AppendBegins DEF Orderly, Shaped
<1>13. Visible(c) = ((lo..n) \ (lo..la)) \cup {n + 1}
  BY <1>1, <1>2, <1>8, <1>9, <1>10, VisibleReplaced DEF Orderly
<1>14. CASE la = n
  <2>1. Visible(c) = {n + 1}
    BY <1>13, <1>14
  <2>2. n + 1 \in 1..Len(c) /\ {n + 1} = (n + 1)..(n + 1)
    BY <1>12
  <2>3. Suffixed(c)
    BY <1>12, <2>1, <2>2 DEF Suffixed
  <2>4. Derived(c) = body
    BY <1>8, <1>11, <1>12, <2>1, <2>2, ReplacementDerived
  <2> QED BY <1>3, <1>4, <1>7, <1>8, <1>10, <1>11, <2>3, <2>4
<1>15. CASE la # n
  <2>1. SourceBefore(b, n, la)
    BY <1>5, <1>6, <1>15
  <2>2. n \in 1..n /\ la \in 1..n /\ la < n
    BY <1>5, <1>6, <1>15
  <2>3. PICK x \in 0..n, y \in Nat :
          /\ SourceKey(b, n) = <<x, y>>
          /\ IF b[n].k = "result" THEN x = OwnerOf(b, n) /\ x < n /\ y = b[n].i /\ y > 0
             ELSE x = n /\ y = 0
    <3>1. n \in 1..Len(b) /\ Shaped(b)
      BY <1>1, <2>2 DEF Orderly
    <3> QED BY <3>1, KeyType
  <2>4. PICK u \in 0..la, v \in Nat : SourceKey(b, la) = <<u, v>>
    BY <1>1, <2>2, KeyType DEF Orderly
  <2>5. x <= u
    BY <1>8, <2>1, <2>3, <2>4 DEF SourceBefore
  <2>6. x <= la
    BY <1>8, <2>5
  <2>7. b[n].k = "result" /\ x = OwnerOf(b, n)
    BY <2>2, <2>3, <2>6
  <2>8. OwnerOf(b, n) \in lo..n
    BY <1>2, <1>5, <2>7 DEF Derivable
  <2>9. OwnerOf(b, n) \notin Visible(c) /\ n \in Visible(c)
    BY <1>5, <1>6, <1>13, <2>2, <2>6, <2>7, <2>8
  <2>10. OwnerOf(c, n) = OwnerOf(b, n) /\ c[n] = b[n]
    <3>1. n \in 1..(n + 1)
      BY <2>2
    <3> QED BY <1>1, <1>12, <2>2, <3>1, OwnerKept DEF Begins
  <2>11. Broken(c)
    BY <2>7, <2>9, <2>10 DEF Broken
  <2> QED BY <1>3, <1>4, <1>7, <1>8, <1>10, <1>11, <2>11
<1> QED BY <1>14, <1>15

-----------------------------------------------------------------------------
(* The steps.                                                              *)
(* A step that leaves the branch alone keeps what depends on it only.      *)
LEMMA BranchKept ==
  ASSUME CmpInv, branch' = branch, CmpTypes', Orderly(branch) /\ Suffixed(branch) /\ StageInv => StageInv'
  PROVE  CmpInv'
BY DEF CmpInv

LEMMA SuffixType ==
  ASSUME NEW T, NEW m \in Seq(T), NEW s \in Splits(m)
  PROVE  SubSeq(m, s, Len(m)) \in Seq(T)
<1>1. s \in 1..(Len(m) + 1) /\ Len(m) \in Nat
  BY DEF Splits
<1>2. \A x \in s..Len(m) : m[x] \in T
  BY <1>1
<1> QED BY <1>1, <1>2, SubSeqProperties

LEMMA BeginTypes ==
  ASSUME NEW m \in Seq(LiveMessage), NEW r \in BOOLEAN, BeginCompaction(m, r)
  PROVE  /\ comp' \in [source : Seq(LiveMessage), keep : Seq(LiveMessage),
                       step : {"none", "pending", "completed", "interrupted"}, retry : BOOLEAN]
         /\ comp'.source \in Seq(Message) => comp'.keep \in Seq(Message)
<1>1. PICK s \in Splits(m) :
        comp' = [source |-> m, keep |-> SubSeq(m, s, Len(m)), step |-> "none", retry |-> r]
  BY DEF BeginCompaction
<1>2. SubSeq(m, s, Len(m)) \in Seq(LiveMessage)
  BY SuffixType
<1>3. m \in Seq(Message) => SubSeq(m, s, Len(m)) \in Seq(Message)
  BY SuffixType
<1> QED BY <1>1, <1>2, <1>3

LEMMA ThresholdKeeps == ASSUME CmpInv, ThresholdCompaction PROVE CmpInv'
<1>1. CmpTypes /\ branch' = branch
  BY DEF CmpInv, ThresholdCompaction
<1>2. live \in Seq(LiveMessage)
  BY <1>1 DEF CmpTypes
<1>3. /\ comp' \in [source : Seq(LiveMessage), keep : Seq(LiveMessage),
                    step : {"none", "pending", "completed", "interrupted"}, retry : BOOLEAN]
      /\ comp'.source \in Seq(Message) => comp'.keep \in Seq(Message)
  BY <1>2, BeginTypes DEF ThresholdCompaction
<1>4. policy' \in [compactions : 0..MaxCompactions, retries : 0..MaxOverflowRetries,
                   retried : BOOLEAN, blocked : Nat]
  <2>1. policy.compactions + 1 \in 0..MaxCompactions
    BY <1>1, CompactionAssumption DEF CmpTypes, ThresholdCompaction
  <2> QED BY <1>1, <2>1 DEF CmpTypes, ThresholdCompaction
<1>5. CmpTypes'
  BY <1>1, <1>3, <1>4 DEF CmpTypes, ThresholdCompaction, Fixed
<1>6. StageInv => StageInv'
  BY DEF StageInv, ThresholdCompaction
<1> QED BY <1>1, <1>5, <1>6, BranchKept

(* The steps that only move on.                                            *)
LEMMA MoveKeeps ==
  ASSUME CmpInv,
         \/ CompactionLimit \/ NoCompaction \/ CompactorReturns \/ CompactionFails \/ Reserve
         \/ CancelSettles
  PROVE  CmpInv'
<1>1. /\ CmpTypes
      /\ UNCHANGED <<branch, live, turn, batch, comp, policy, completed, cancelling, runNo>>
  BY DEF CmpInv, CompactionLimit, NoCompaction, CompactorReturns, CompactionFails, Reserve,
         CancelSettles, Fixed
<1>2. /\ at \in {"loop", "request", "stream", "after", "summarize", "propose"}
      /\ at' \in {"request", "propose", "write", "ended"}
  BY DEF CompactionLimit, NoCompaction, CompactorReturns, CompactionFails, Reserve, CancelSettles
<1>3. CmpTypes'
  BY <1>1, <1>2 DEF CmpTypes
<1>4. StageInv => StageInv'
  BY <1>1, <1>2 DEF StageInv
<1> QED BY <1>1, <1>3, <1>4, BranchKept

LEMMA LostKeeps == ASSUME CmpInv, RunLost PROVE CmpInv'
<1>1. /\ CmpTypes /\ at' = "ended"
      /\ UNCHANGED <<branch, live, turn, batch, comp, policy, completed, cancelling, runNo>>
  BY DEF CmpInv, RunLost, Fixed
<1>2. CmpTypes'
  BY <1>1 DEF CmpTypes
<1>3. StageInv => StageInv'
  <2>1. StageInv => Closed(branch) \/ \E a \in 1..Len(branch) : OpenAt(branch, a, turn)
    BY DEF StageInv
  <2> QED BY <1>1, <2>1 DEF StageInv
<1> QED BY <1>1, <1>2, <1>3, BranchKept

LEMMA CancelKeeps == ASSUME CmpInv, CancelRequested PROVE CmpInv'
<1>1. /\ CmpTypes /\ cancelling' = TRUE
      /\ UNCHANGED <<branch, live, at, turn, batch, comp, policy, completed, runNo>>
  BY DEF CmpInv, CancelRequested
<1>2. CmpTypes'
  BY <1>1 DEF CmpTypes
<1>3. StageInv => StageInv'
  BY <1>1 DEF StageInv
<1> QED BY <1>1, <1>2, <1>3, BranchKept

LEMMA RequestKeeps == ASSUME CmpInv, RequestStart PROVE CmpInv'
<1>1. /\ CmpTypes /\ at = "request" /\ at' = "stream" /\ turn < CmpTurns /\ turn' = turn + 1
      /\ UNCHANGED <<branch, live, batch, comp, policy, completed, cancelling, runNo>>
  BY DEF CmpInv, RequestStart, Fixed
<1>2. turn' \in 0..CmpTurns
  BY <1>1, CompactionAssumption DEF CmpTypes
<1>3. CmpTypes'
  BY <1>1, <1>2 DEF CmpTypes
<1>4. StageInv => StageInv'
  BY <1>1 DEF StageInv
<1> QED BY <1>1, <1>3, <1>4, BranchKept

LEMMA SummaryKeeps ==
  ASSUME CmpInv, SummaryRequest \/ \E ok \in BOOLEAN : SummarySettles(ok)
  PROVE  CmpInv'
<1>1. /\ CmpTypes /\ at = "summarize"
      /\ UNCHANGED <<branch, live, at, turn, batch, policy, completed, cancelling, runNo>>
  BY DEF CmpInv, SummaryRequest, SummarySettles, Fixed
<1>2. /\ comp' \in [source : Seq(LiveMessage), keep : Seq(LiveMessage),
                    step : {"none", "pending", "completed", "interrupted"}, retry : BOOLEAN]
      /\ comp'.source = comp.source /\ comp'.keep = comp.keep
  BY <1>1 DEF CmpTypes, SummaryRequest, SummarySettles
<1>3. CmpTypes'
  BY <1>1, <1>2 DEF CmpTypes
<1>4. StageInv => StageInv'
  BY <1>1 DEF StageInv
<1> QED BY <1>1, <1>3, <1>4, BranchKept

LEMMA AssistantType ==
  ASSUME CmpTypes
  PROVE  /\ Msg("assistant", turn, 0) \in Message /\ Msg("assistant", turn, 0) \in LiveMessage
         /\ Msg("assistant", turn, 0).k = "assistant"
<1>1. Msg("assistant", turn, 0) \in Message /\ Msg("assistant", turn, 0).k = "assistant"
  BY CompactionAssumption DEF CmpTypes, Msg, Message
<1> QED BY <1>1, MessageLive

LEMMA ResponseAnswers ==
  ASSUME NEW d \in Seq(LiveMessage), NEW t \in Nat, Msg("assistant", t, 0) \in LiveMessage
  PROVE  Answered(Append(d, Msg("assistant", t, 0)))
<1> DEFINE c == Append(d, Msg("assistant", t, 0))
<1>1. c \in Seq(LiveMessage) /\ Len(d) + 1 \in DOMAIN c /\ c[Len(d) + 1] = Msg("assistant", t, 0)
  OBVIOUS
<1>2. c[Len(d) + 1].k = "assistant"
  BY <1>1 DEF Msg
<1> QED BY <1>1, <1>2 DEF Answered

LEMMA RespondKeeps ==
  ASSUME CmpInv, NEW n \in BatchSizes, NEW error \in BOOLEAN, Respond(n, error)
  PROVE  CmpInv'
<1>1. /\ CmpTypes /\ at = "stream" /\ n \in Nat
      /\ at' \in {"settle", "settle_error"} /\ (at' = "settle_error" => n = 0)
      /\ live' = Append(live, Msg("assistant", turn, 0)) /\ batch' = [calls |-> n, settled |-> {}]
      /\ UNCHANGED <<branch, turn, comp, policy, completed, cancelling, runNo>>
  BY CompactionAssumption DEF CmpInv, Respond, Fixed
<1>2. live' \in Seq(LiveMessage) /\ Answered(live')
  BY <1>1, AssistantType, ResponseAnswers DEF CmpTypes
<1>3. CmpTypes'
  BY <1>1, <1>2 DEF CmpTypes
<1>4. ASSUME StageInv PROVE StageInv'
  <2>1. live \in Seq(LiveMessage) /\ DurablePart(live, Derived(branch)) /\ Closed(branch)
    BY <1>1, <1>4 DEF CmpTypes, StageInv
  <2>2. \E m \in Seq(LiveMessage) :
          live' = Append(m, Msg("assistant", turn', 0)) /\ DurablePart(m, Derived(branch'))
    BY <1>1, <2>1
  <2> QED BY <1>1, <2>1, <2>2 DEF StageInv
<1> QED BY <1>1, <1>3, <1>4, BranchKept

LEMMA StreamFailsKeeps == ASSUME CmpInv, StreamFails PROVE CmpInv'
<1>1. /\ CmpTypes /\ at = "stream" /\ at' = "ended"
      /\ live' = Append(live, Msg("assistant", turn, 0))
      /\ UNCHANGED <<branch, turn, batch, comp, policy, completed, cancelling, runNo>>
  BY DEF CmpInv, StreamFails, Fixed
<1>2. live' \in Seq(LiveMessage)
  BY <1>1, AssistantType DEF CmpTypes
<1>3. CmpTypes'
  BY <1>1, <1>2 DEF CmpTypes
<1>4. StageInv => StageInv'
  BY <1>1 DEF StageInv
<1> QED BY <1>1, <1>3, <1>4, BranchKept

(* The response is taken off again: the transcript is as before it.        *)
LEMMA TakenOff ==
  ASSUME NEW d \in Seq(LiveMessage), NEW m \in LiveMessage
  PROVE  BeforeOverflow(Append(d, m)) = d
<1>1. Len(Append(d, m)) - 1 = Len(d) /\ Append(d, m) \in Seq(LiveMessage) /\ Len(d) \in Nat
  OBVIOUS
<1> QED BY <1>1 DEF BeforeOverflow

LEMMA OverflowKeeps == ASSUME CmpInv, Overflow PROVE CmpInv'
<1>1. /\ CmpTypes /\ at = "stream"
      /\ UNCHANGED <<branch, turn, batch, cancelling, runNo>>
  BY DEF CmpInv, Overflow, Fixed
<1>2. /\ live \in Seq(LiveMessage) /\ Append(live, Msg("assistant", turn, 0)) \in Seq(LiveMessage)
      /\ BeforeOverflow(Append(live, Msg("assistant", turn, 0))) = live
  BY <1>1, AssistantType, TakenOff DEF CmpTypes
<1>3. \/ /\ live' = Append(live, Msg("assistant", turn, 0)) /\ at' = "ended"
         /\ UNCHANGED <<policy, comp, completed>>
      \/ /\ live' = live /\ completed' = FALSE /\ policy.retries < MaxOverflowRetries
         /\ \/ /\ policy' = [policy EXCEPT !.retries = @ + 1, !.retried = TRUE]
               /\ at' \in {"request", "ended"} /\ UNCHANGED comp
            \/ /\ policy.compactions < MaxCompactions
               /\ policy' = [policy EXCEPT !.retries = @ + 1, !.retried = TRUE, !.compactions = @ + 1]
               /\ BeginCompaction(live, TRUE) /\ at' = "summarize"
  BY <1>2 DEF Overflow
<1>4. /\ comp' \in [source : Seq(LiveMessage), keep : Seq(LiveMessage),
                    step : {"none", "pending", "completed", "interrupted"}, retry : BOOLEAN]
      /\ comp'.source \in Seq(Message) => comp'.keep \in Seq(Message)
  BY <1>1, <1>2, <1>3, BeginTypes DEF CmpTypes
<1>5. policy' \in [compactions : 0..MaxCompactions, retries : 0..MaxOverflowRetries,
                   retried : BOOLEAN, blocked : Nat]
  <2>1. policy.retries < MaxOverflowRetries => policy.retries + 1 \in 0..MaxOverflowRetries
    BY <1>1, CompactionAssumption DEF CmpTypes
  <2>2. policy.compactions < MaxCompactions => policy.compactions + 1 \in 0..MaxCompactions
    BY <1>1, CompactionAssumption DEF CmpTypes
  <2> QED BY <1>1, <1>3, <2>1, <2>2 DEF CmpTypes
<1>6. live' \in Seq(LiveMessage) /\ completed' \in BOOLEAN /\ at' \in {"request", "ended", "summarize"}
  BY <1>1, <1>2, <1>3 DEF CmpTypes
<1>7. CmpTypes'
  BY <1>1, <1>4, <1>5, <1>6 DEF CmpTypes
<1>8. StageInv => StageInv'
  BY <1>1, <1>3 DEF StageInv
<1> QED BY <1>1, <1>7, <1>8, BranchKept

(* A drain adds queued messages to the end of the transcript.              *)
LEMMA DrainAdds ==
  ASSUME CmpTypes, Drain
  PROVE  \E n \in Nat : live' = live \o Queued(n) /\ live' \in Seq(LiveMessage)
<1>1. PICK n \in 0..MaxQueued : live' = live \o Queued(n)
  BY DEF Drain
<1>2. n \in Nat /\ live \in Seq(LiveMessage)
  BY CompactionAssumption DEF CmpTypes
<1>3. live \o Queued(n) \in Seq(LiveMessage)
  BY <1>2, QueuedType, ConcatProperties
<1> QED BY <1>1, <1>2, <1>3

LEMMA AfterKeeps == ASSUME CmpInv, AfterTurn PROVE CmpInv'
<1>1. /\ CmpTypes /\ at = "after" /\ batch' = NoBatch
      /\ (at' = "loop" /\ Drain) \/ (at' = "ended" /\ live' = live)
      /\ UNCHANGED <<branch, turn, comp, policy, completed, cancelling, runNo>>
  BY DEF CmpInv, AfterTurn, Fixed
<1>2. live' \in Seq(LiveMessage)
  BY <1>1, DrainAdds DEF CmpTypes
<1>3. CmpTypes'
  BY <1>1, <1>2 DEF CmpTypes, NoBatch
<1>4. ASSUME StageInv PROVE StageInv'
  <2>1. live \in Seq(LiveMessage) /\ DurablePart(live, Derived(branch)) /\ Closed(branch)
    BY <1>1, <1>4 DEF CmpTypes, StageInv
  <2>2. at' = "loop" => DurablePart(live', Derived(branch'))
    BY <1>1, <2>1, DrainAdds, DurableQueued
  <2> QED BY <1>1, <2>1, <2>2 DEF StageInv
<1> QED BY <1>1, <1>3, <1>4, BranchKept

LEMMA ReplacementKeeps ==
  ASSUME CmpInv, NEW still \in BOOLEAN, PublishReplacement(still)
  PROVE  CmpInv'
<1>1. /\ CmpTypes /\ at = "publish" /\ at' \in {"request", "ended"}
      /\ live' = comp.source /\ comp' = NoComp
      /\ policy' = [policy EXCEPT !.blocked = Len(comp.source)] \/ policy' = policy
      /\ UNCHANGED <<branch, turn, batch, completed, cancelling, runNo>>
  BY DEF CmpInv, PublishReplacement, Fixed
<1>2. comp.source \in Seq(LiveMessage) /\ <<>> \in Seq(LiveMessage) /\ <<>> \in Seq(Message)
  BY <1>1 DEF CmpTypes
<1>3. policy' \in [compactions : 0..MaxCompactions, retries : 0..MaxOverflowRetries,
                   retried : BOOLEAN, blocked : Nat]
  BY <1>1, <1>2 DEF CmpTypes
<1>4. CmpTypes'
  BY <1>1, <1>2, <1>3 DEF CmpTypes, NoComp
<1>5. ASSUME Orderly(branch), StageInv PROVE StageInv'
  <2>1. live' = Derived(branch') /\ Closed(branch) /\ Derived(branch) \in Seq(Message)
    BY <1>1, <1>5, DerivedType DEF StageInv
  <2>2. DurablePart(live', Derived(branch'))
    BY <1>1, <2>1, DurableSelf
  <2> QED BY <1>1, <2>1, <2>2 DEF StageInv
<1> QED BY <1>1, <1>4, <1>5, BranchKept

(* The projection of an open batch ends with its response and its results. *)
LEMMA ResponseLast ==
  ASSUME NEW b, Orderly(b), NEW t, NEW a, OpenAt(b, a, t)
  PROVE  \E d \in Seq(Message), m \in Message :
           m.k = "assistant" /\ Derived(SubSeq(b, 1, a)) = Append(d, m)
<1>1. b \in Seq(Entry) /\ a \in 1..Len(b) /\ Len(b) \in Nat /\ b[a] \in Entry /\ b[a].k = "assistant"
  BY DEF Orderly, Shaped, OpenAt
<1>2. PICK s : s = SubSeq(b, 1, a - 1)
  OBVIOUS
<1>3. s \in Seq(Entry) /\ Len(s) = a - 1 /\ \A j \in 1..(a - 1) : s[j] = b[j]
  <2>1. \A j \in 1..(a - 1) : b[j] \in Entry
    BY <1>1
  <2> QED BY <1>1, <1>2, <2>1, SubSeqProperties
<1>4. Begins(s, b)
  BY <1>1, <1>3 DEF Begins
<1>5. Orderly(s)
  BY <1>4, OrderlyPrefix
<1>6. SubSeq(b, 1, a) = Append(s, b[a])
  BY <1>1, <1>3
<1>7. Derived(Append(s, b[a])) = Append(Derived(s), Msg("assistant", b[a].n, b[a].i))
  BY <1>1, <1>5, AppendMessage
<1>8. Msg("assistant", b[a].n, b[a].i) \in Message /\ Msg("assistant", b[a].n, b[a].i).k = "assistant"
  BY <1>1 DEF Msg, Message, Entry
<1> QED BY <1>5, <1>6, <1>7, <1>8, DerivedType

LEMMA ResponseExists ==
  ASSUME NEW m \in Seq(LiveMessage), Answered(m)
  PROVE  \E z \in DOMAIN m : /\ LastResponse(m) = z /\ m[z].k = "assistant"
                             /\ \A y \in DOMAIN m : y > z => m[y].k # "assistant"
<1>1. DOMAIN m = 1..Len(m) /\ Len(m) \in Nat
  OBVIOUS
<1>2. PICK x \in DOMAIN m : m[x].k = "assistant"
  BY DEF Answered
<1>3. OwnerOf(m, Len(m) + 1) # 0
  BY <1>1, <1>2, OwnerLast
<1>4. PICK z \in DOMAIN m : m[z].k = "assistant" /\ \A y \in DOMAIN m : y > z => m[y].k # "assistant"
  BY <1>1, <1>3, OwnerLast
<1> QED BY <1>4, LastResponseIs

LEMMA UpToType ==
  ASSUME NEW m \in Seq(LiveMessage), Answered(m)
  PROVE  UpToAssistant(m) \in Seq(LiveMessage)
<1>1. PICK z \in DOMAIN m : UpToAssistant(m) = SubSeq(m, 1, z)
  BY ResponseExists DEF UpToAssistant
<1>2. DOMAIN m = 1..Len(m) /\ Len(m) \in Nat /\ z \in Nat
  OBVIOUS
<1>3. \A x \in 1..z : m[x] \in LiveMessage
  BY <1>2
<1> QED BY <1>1, <1>2, <1>3, SubSeqProperties

(* Queued input behind the last response is not the last response.         *)
LEMMA UpToQueued ==
  ASSUME NEW m \in Seq(LiveMessage), Answered(m), NEW n \in Nat
  PROVE  UpToAssistant(m \o Queued(n)) = UpToAssistant(m) /\ Answered(m \o Queued(n))
<1>1. PICK z \in DOMAIN m : /\ LastResponse(m) = z /\ m[z].k = "assistant"
                            /\ \A y \in DOMAIN m : y > z => m[y].k # "assistant"
  BY ResponseExists
<1>2. PICK q \in Seq(LiveMessage) : q = Queued(n) /\ Len(q) = n /\ \A x \in 1..n : q[x].k = "queued"
  BY QueuedType
<1>3. \A y \in DOMAIN q : q[y].k # "assistant"
  <2>1. DOMAIN q = 1..n
    BY <1>2
  <2> QED BY <1>2, <2>1
<1>4. UpToAssistant(m \o q) = SubSeq(m, 1, z)
  BY <1>1, <1>3, LastResponseWithin
<1>5. UpToAssistant(m) = SubSeq(m, 1, z)
  BY <1>1 DEF UpToAssistant
<1>6. z \in DOMAIN (m \o q) /\ (m \o q)[z] = m[z]
  <2>1. z \in 1..Len(m) /\ Len(m) \in Nat /\ Len(q) \in Nat
    OBVIOUS
  <2>2. z \in 1..(Len(m) + Len(q)) /\ z <= Len(m)
    BY <2>1
  <2>3. m \o q \in Seq(LiveMessage) /\ Len(m \o q) = Len(m) + Len(q) /\ (m \o q)[z] = m[z]
    BY <2>2, ConcatProperties
  <2> QED BY <2>2, <2>3
<1>7. Answered(m \o q)
  BY <1>1, <1>6 DEF Answered
<1> QED BY <1>2, <1>4, <1>5, <1>7

LEMMA InitialDrainKeeps == ASSUME CmpInv, InitialDrain PROVE CmpInv'
<1>1. /\ CmpTypes /\ Drain
      /\ (at = "start" /\ at' = "loop") \/ (at = "recover" /\ at' = "tools")
      /\ UNCHANGED <<branch, turn, batch, comp, policy, completed, cancelling, runNo>>
  BY DEF CmpInv, InitialDrain, Fixed
<1>2. PICK n \in Nat : live' = live \o Queued(n) /\ live' \in Seq(LiveMessage)
  BY <1>1, DrainAdds
<1>3. live \in Seq(LiveMessage)
  BY <1>1 DEF CmpTypes
<1>4. at = "recover" => Answered(live') /\ UpToAssistant(live') = UpToAssistant(live)
  BY <1>1, <1>2, <1>3, UpToQueued DEF CmpTypes
<1>5. CmpTypes'
  BY <1>1, <1>2, <1>4 DEF CmpTypes
<1>6. ASSUME StageInv PROVE StageInv'
  <2>1. CASE at = "start"
    <3>1. DurablePart(live, Derived(branch)) /\ Closed(branch)
      BY <1>6, <2>1 DEF StageInv
    <3>2. DurablePart(live', Derived(branch'))
      BY <1>1, <1>2, <1>3, <3>1, DurableQueued
    <3> QED BY <1>1, <2>1, <3>1, <3>2 DEF StageInv
  <2>2. CASE at = "recover"
    <3>1. \E a \in 1..Len(branch) :
            /\ OpenAt(branch, a, turn)
            /\ batch.calls = branch[a].calls /\ batch.settled = SettledCalls(branch, a)
            /\ DurablePart(UpToAssistant(live), Derived(SubSeq(branch, 1, a)))
      BY <1>6, <2>2 DEF StageInv
    <3>2. \E a \in 1..Len(branch') :
            /\ OpenAt(branch', a, turn')
            /\ batch'.calls = branch'[a].calls /\ batch'.settled = SettledCalls(branch', a)
            /\ DurablePart(UpToAssistant(live'), Derived(SubSeq(branch', 1, a)))
      BY <1>1, <1>4, <2>2, <3>1
    <3> QED BY <1>1, <2>2, <3>2 DEF StageInv
  <2> QED BY <1>1, <2>1, <2>2
<1> QED BY <1>1, <1>5, <1>6, BranchKept

LEMMA BatchKeeps == ASSUME CmpInv, AppendBatch PROVE CmpInv'
<1>1. PICK r : r = [i \in 1..batch.calls |-> Msg("result", turn, i)]
  OBVIOUS
<1>2. PICK u : u = UpToAssistant(live)
  OBVIOUS
<1>3. PICK q : q = Cardinality(QueuedFrom(live, LastResponse(live)))
  OBVIOUS
<1>4. /\ CmpTypes /\ at = "tools" /\ at' = "after" /\ batch.settled = 1..batch.calls
      /\ live' = (u \o r) \o Queued(q)
      /\ UNCHANGED <<branch, turn, batch, comp, policy, completed, cancelling, runNo>>
  BY <1>1, <1>2, <1>3 DEF CmpInv, AppendBatch, QueuedBehind, Fixed
<1>5. u \in Seq(LiveMessage)
  BY <1>2, <1>4, UpToType DEF CmpTypes
<1>6. r \in Seq(Message) /\ r \in Seq(LiveMessage)
  <2>1. \A i \in 1..batch.calls : Msg("result", turn, i) \in Message
    BY <1>4, CompactionAssumption DEF CmpTypes, Msg, Message
  <2>2. batch.calls \in Nat
    BY <1>4 DEF CmpTypes
  <2>3. r \in [1..batch.calls -> Message]
    BY <1>1, <2>1
  <2>4. r \in Seq(Message)
    BY <2>2, <2>3
  <2> QED BY <2>4, MessageLive
<1>7. q \in Nat
  <2>1. live \in Seq(LiveMessage)
    BY <1>4 DEF CmpTypes
  <2>2. IsFiniteSet(DOMAIN live)
    <3>1. DOMAIN live = 1..Len(live) /\ Len(live) \in Nat
      BY <2>1
    <3> QED BY <3>1, FS_Interval
  <2>3. IsFiniteSet(QueuedFrom(live, LastResponse(live)))
    BY <2>2, FS_Subset DEF QueuedFrom
  <2> QED BY <1>3, <2>3, FS_CardinalityType
<1>8. u \o r \in Seq(LiveMessage)
  BY <1>5, <1>6, ConcatProperties
<1>9. live' \in Seq(LiveMessage)
  BY <1>4, <1>7, <1>8, QueuedType, ConcatProperties
<1>10. CmpTypes'
  BY <1>4, <1>9 DEF CmpTypes
<1>11. ASSUME Orderly(branch), StageInv
       PROVE  StageInv'
  <2>1. PICK a \in 1..Len(branch) :
          /\ OpenAt(branch, a, turn)
          /\ batch.calls = branch[a].calls /\ batch.settled = SettledCalls(branch, a)
          /\ DurablePart(u, Derived(SubSeq(branch, 1, a)))
    BY <1>2, <1>4, <1>11 DEF StageInv
  <2>2. SettledCalls(branch, a) = 1..branch[a].calls
    BY <1>4, <2>1
  <2>3. Derived(branch) = Derived(SubSeq(branch, 1, a)) \o r
    BY <1>1, <1>11, <2>1, <2>2, SettledDerived
  <2>4. Derived(SubSeq(branch, 1, a)) \in Seq(Message)
    BY <1>11, <2>1, ResponseLast
  <2>5. DurablePart(u \o r, Derived(branch))
    BY <1>5, <1>6, <2>1, <2>3, <2>4, DurableConcat
  <2>6. DurablePart(live', Derived(branch'))
    BY <1>4, <1>7, <1>8, <2>5, DurableQueued
  <2>7. Closed(branch)
    BY <1>11, <2>1, <2>2, SettledCloses DEF Orderly
  <2> QED BY <1>4, <2>6, <2>7 DEF StageInv
<1> QED BY <1>4, <1>10, <1>11, BranchKept

-----------------------------------------------------------------------------
(* The steps that write to the branch.                                     *)
LEMMA SuffixKept ==
  ASSUME NEW b \in Seq(Entry), NEW e \in Entry, Suffixed(b), Shaped(Append(b, e)), e.k # "compaction"
  PROVE  Suffixed(Append(b, e))
<1>1. Begins(b, Append(b, e)) /\ Len(Append(b, e)) = Len(b) + 1 /\ Append(b, e)[Len(b) + 1] = e /\ Len(b) \in Nat
  BY AppendBegins
<1>2. PICK n \in Nat : n = Len(b)
  BY <1>1
<1>3. PICK lo \in 1..n : Visible(b) = lo..n
  BY <1>2 DEF Suffixed
<1>4. \A j \in (Len(b) + 1)..Len(Append(b, e)) : Append(b, e)[j].k # "compaction"
  BY <1>1
<1>5. Visible(Append(b, e)) = (lo..n) \cup ((n + 1)..(n + 1))
  BY <1>1, <1>2, <1>3, <1>4, VisibleGrows
<1>6. (lo..n) \cup ((n + 1)..(n + 1)) = lo..(n + 1) /\ lo \in 1..(n + 1)
  BY <1>3
<1> QED BY <1>1, <1>2, <1>5, <1>6 DEF Suffixed

LEMMA AppendKeeps ==
  ASSUME CmpInv, NEW e \in Entry, e.k # "compaction", branch' = Append(branch, e), CmpTypes',
         Shaped(branch'), Orderly(branch) /\ Suffixed(branch) /\ StageInv => Orderly(branch') /\ StageInv'
  PROVE  CmpInv'
<1>1. branch \in Seq(Entry) /\ Shaped(branch)
  BY DEF CmpInv, CmpTypes
<1>2. Broken(branch) => Broken(branch')
  BY <1>1, BrokenKept
<1>3. Suffixed(branch) => Suffixed(branch')
  BY <1>1, SuffixKept
<1> QED BY <1>2, <1>3 DEF CmpInv

LEMMA ResponseKeeps == ASSUME CmpInv, CommitResponse PROVE CmpInv'
<1>1. PICK e : e = MsgEntry("assistant", turn, 0, batch.calls)
  OBVIOUS
<1>2. /\ CmpTypes /\ Shaped(branch) /\ at \in {"settle", "settle_error"}
      /\ branch' = Append(branch, e) /\ policy' = [policy EXCEPT !.retried = FALSE]
      /\ at' = IF at = "settle" THEN "tools" ELSE "ended"
      /\ completed' = TRUE
      /\ UNCHANGED <<live, turn, batch, comp, cancelling, runNo>>
  BY <1>1 DEF CmpInv, CommitResponse, Fixed
<1>3. branch \in Seq(Entry) /\ turn \in Nat /\ batch.calls \in Nat /\ <<>> \in Seq(Message)
  BY <1>2, CompactionAssumption DEF CmpTypes
<1>4. e \in Entry /\ e.k = "assistant" /\ e.n = turn /\ e.i = 0 /\ e.calls = batch.calls
  BY <1>1, <1>3 DEF MsgEntry, Entry
<1>5. Shaped(branch')
  BY <1>2, <1>4, AppendShaped
<1>6. branch' \in Seq(Entry)
  BY <1>2, <1>3, <1>4
<1>7. CmpTypes'
  BY <1>2, <1>6 DEF CmpTypes
<1>8. ASSUME Orderly(branch), StageInv
      PROVE  Orderly(branch') /\ StageInv'
  <2>1. Orderly(branch') /\ Derived(branch') = Append(Derived(branch), Msg("assistant", turn, 0))
    BY <1>2, <1>4, <1>8, AppendMessage
  <2>2. PICK a : a = Len(branch) + 1
    OBVIOUS
  <2>3. /\ OpenAt(branch', a, turn) /\ SettledCalls(branch', a) = {}
        /\ SubSeq(branch', 1, a) = branch' /\ branch'[a] = e
    BY <1>2, <1>3, <1>4, <2>2, ResponseOpens
  <2>4. batch.settled = {} /\ (at = "settle_error" => batch.calls = 0)
    BY <1>2, <1>8 DEF StageInv
  <2>5. UpToAssistant(live) = live /\ DurablePart(live, Derived(branch'))
    <3>1. Derived(branch) \in Seq(Message)
      BY <1>8, DerivedType
    <3>2. PICK e2 : e2 = Msg("assistant", turn, 0)
      OBVIOUS
    <3>3. e2 \in Message /\ e2 \in LiveMessage /\ e2.k = "assistant"
      BY <1>2, <3>2, AssistantType
    <3>4. PICK m \in Seq(LiveMessage) : live = Append(m, e2) /\ DurablePart(m, Derived(branch))
      BY <1>2, <1>8, <3>2 DEF StageInv
    <3>5. UpToAssistant(live) = live
      BY <3>3, <3>4, UpToItself
    <3>6. DurablePart(Append(m, e2), Append(Derived(branch), e2))
      BY <3>1, <3>3, <3>4, DurableAppend
    <3> QED BY <2>1, <3>2, <3>4, <3>5, <3>6
  <2>6. at = "settle_error" => Closed(branch')
    <3>1. at = "settle_error" => SettledCalls(branch', a) = 1..branch'[a].calls
      BY <1>4, <2>3, <2>4
    <3> QED BY <1>5, <2>3, <3>1, SettledCloses
  <2>7. a \in 1..Len(branch')
    BY <2>3 DEF OpenAt
  <2>8. /\ batch'.calls = branch'[a].calls /\ batch'.settled = SettledCalls(branch', a)
        /\ DurablePart(UpToAssistant(live'), Derived(SubSeq(branch', 1, a))) /\ OpenAt(branch', a, turn')
    BY <1>2, <1>4, <2>3, <2>4, <2>5
  <2> QED BY <1>2, <2>1, <2>6, <2>7, <2>8 DEF StageInv
<1> QED BY <1>2, <1>4, <1>5, <1>7, <1>8, AppendKeeps

LEMMA ToolKeeps ==
  ASSUME CmpInv, NEW i \in 1..batch.calls, ToolSettles(i)
  PROVE  CmpInv'
<1>1. PICK e : e = MsgEntry("result", turn, i, 0)
  OBVIOUS
<1>2. /\ CmpTypes /\ Shaped(branch) /\ at = "tools" /\ i \in 1..batch.calls /\ i \notin batch.settled
      /\ branch' = Append(branch, e) /\ batch' = [batch EXCEPT !.settled = @ \cup {i}]
      /\ UNCHANGED <<live, at, turn, comp, policy, completed, cancelling, runNo>>
  BY <1>1 DEF CmpInv, ToolSettles, Fixed
<1>3. /\ branch \in Seq(Entry) /\ turn \in Nat /\ batch.calls \in Nat /\ <<>> \in Seq(Message)
      /\ i \in Nat /\ i # 0
  BY <1>2, CompactionAssumption DEF CmpTypes
<1>4. e \in Entry /\ e.k = "result" /\ e.n = turn /\ e.i = i
  BY <1>1, <1>3 DEF MsgEntry, Entry
<1>5. Shaped(branch')
  BY <1>2, <1>3, <1>4, AppendShaped
<1>6. branch' \in Seq(Entry)
  BY <1>2, <1>3, <1>4
<1>7. /\ batch'.calls = batch.calls /\ batch'.settled = batch.settled \cup {i}
      /\ batch' \in [calls : Nat, settled : SUBSET Nat] /\ batch'.settled \subseteq 1..batch'.calls
  BY <1>2, <1>3 DEF CmpTypes
<1>8. CmpTypes'
  BY <1>2, <1>6, <1>7 DEF CmpTypes
<1>9. ASSUME Orderly(branch), StageInv
      PROVE  Orderly(branch') /\ StageInv'
  <2>1. PICK a \in 1..Len(branch) :
          /\ OpenAt(branch, a, turn)
          /\ batch.calls = branch[a].calls /\ batch.settled = SettledCalls(branch, a)
          /\ DurablePart(UpToAssistant(live), Derived(SubSeq(branch, 1, a)))
    BY <1>2, <1>9 DEF StageInv
  <2>2. /\ Orderly(branch') /\ OpenAt(branch', a, turn)
        /\ SettledCalls(branch', a) = SettledCalls(branch, a) \cup {i}
        /\ branch'[a] = branch[a]
    BY <1>2, <1>4, <1>9, <2>1, AppendResult
  <2>3. SubSeq(branch', 1, a) = SubSeq(branch, 1, a)
    BY <1>2, <1>3, <1>4, <2>1, AppendBegins DEF Begins
  <2>4. a \in 1..Len(branch')
    BY <2>2 DEF OpenAt
  <2>5. /\ batch'.calls = branch'[a].calls /\ batch'.settled = SettledCalls(branch', a)
        /\ DurablePart(UpToAssistant(live'), Derived(SubSeq(branch', 1, a))) /\ OpenAt(branch', a, turn')
    BY <1>2, <1>7, <2>1, <2>2, <2>3
  <2> QED BY <1>2, <2>2, <2>4, <2>5 DEF StageInv
<1> QED BY <1>2, <1>4, <1>5, <1>8, <1>9, AppendKeeps

(* What is written stands for entries only: a transcript with queued input *)
(* is not the durable context, and the gate refuses to replace it.         *)
LEMMA ReplacementType ==
  ASSUME CmpTypes, Orderly(branch), Derived(branch) = comp.source
  PROVE  Replacement \in Seq(Message) /\ comp.keep \in Seq(Message)
<1>1. comp.keep \in Seq(Message)
  BY DerivedType DEF CmpTypes
<1>2. Msg("summary", Len(branch), 0) \in Message
  BY DEF CmpTypes, Msg, Message
<1>3. <<Msg("summary", Len(branch), 0)>> \in Seq(Message)
  BY <1>2
<1> QED BY <1>1, <1>3, ConcatProperties DEF Replacement

LEMMA WriteKeeps == ASSUME CmpInv, WriteReplacement PROVE CmpInv'
<1>1. /\ CmpTypes /\ Shaped(branch) /\ at = "write"
      /\ UNCHANGED <<live, turn, batch, policy, completed, cancelling, runNo>>
  BY DEF CmpInv, WriteReplacement, Fixed
<1>2. CASE branch' = branch /\ comp' = comp /\ at' = "ended"
  <2>1. CmpTypes'
    BY <1>1, <1>2 DEF CmpTypes
  <2>2. StageInv => StageInv'
    BY <1>1, <1>2 DEF StageInv
  <2> QED BY <1>2, <2>1, <2>2, BranchKept
<1>3. CASE /\ Derivable(branch, 0) /\ Derived(branch) = comp.source /\ at' = "publish"
           /\ branch' = Append(branch, CompactionEntry(FirstIncluded(branch), LastIncluded(branch), Replacement))
           /\ comp' = [comp EXCEPT !.source = Replacement]
  <2>1. Orderly(branch) /\ Suffixed(branch) /\ StageInv
    BY <1>3, BrokenUnderivable DEF CmpInv
  <2>2. PICK body \in Seq(Message) : body = Replacement /\ comp.keep \in Seq(Message)
    BY <1>1, <1>3, <2>1, ReplacementType
  <2>3. PICK e : e = CompactionEntry(FirstIncluded(branch), LastIncluded(branch), body)
    OBVIOUS
  <2>4. Orderly(branch') /\ e \in Entry /\ (Broken(branch') \/ (Suffixed(branch') /\ Derived(branch') = body))
    BY <1>3, <2>2, <2>3, <2>1, Replaced
  <2>5. branch \in Seq(Entry) /\ branch' = Append(branch, e) /\ e.k = "compaction"
    BY <1>1, <1>3, <2>2, <2>3 DEF CmpTypes, CompactionEntry
  <2>6. Closed(branch')
    <3>1. Closed(branch)
      BY <1>1, <2>1 DEF StageInv
    <3> QED BY <2>4, <2>5, <3>1, ClosedKept
  <2>7. branch' \in Seq(Entry)
    BY <2>4, <2>5
  <2>8. /\ comp' \in [source : Seq(LiveMessage), keep : Seq(LiveMessage),
                      step : {"none", "pending", "completed", "interrupted"}, retry : BOOLEAN]
        /\ comp'.source = body /\ comp'.keep \in Seq(Message)
    BY <1>1, <1>3, <2>2, MessageLive DEF CmpTypes
  <2>9. CmpTypes'
    BY <1>1, <1>3, <2>7, <2>8 DEF CmpTypes
  <2>10. Derived(branch') = body => StageInv'
    BY <1>3, <2>6, <2>8 DEF StageInv
  <2> QED BY <2>4, <2>9, <2>10 DEF CmpInv, Orderly
<1> QED BY <1>2, <1>3 DEF WriteReplacement

LEMMA RecoveredTranscript ==
  ASSUME NEW b, Orderly(b), NEW t, NEW a, OpenAt(b, a, t)
  PROVE  /\ DurablePart(UpToAssistant(Derived(b)), Derived(SubSeq(b, 1, a)))
         /\ Answered(Derived(b))
<1>1. PICK r \in Seq(Message) :
        Derived(b) = Derived(SubSeq(b, 1, a)) \o r /\ \A x \in 1..Len(r) : r[x].k = "result"
  BY OpenDerived
<1>2. PICK d \in Seq(Message), m \in Message :
        m.k = "assistant" /\ Derived(SubSeq(b, 1, a)) = Append(d, m)
  BY ResponseLast
<1>3. UpToAssistant(Derived(b)) = Derived(SubSeq(b, 1, a))
  <2>1. d \in Seq(LiveMessage) /\ m \in LiveMessage /\ r \in Seq(LiveMessage)
    BY MessageLive
  <2> QED BY <1>1, <1>2, <2>1, UpToLast
<1>4. PICK c : c = Append(d, m) /\ c \in Seq(Message)
  <2>1. Append(d, m) \in Seq(Message)
    OBVIOUS
  <2> QED BY <2>1
<1>5. /\ c \o r \in Seq(Message) /\ Len(c) = Len(d) + 1 /\ c[Len(d) + 1] = m /\ Len(d) \in Nat
      /\ Len(c \o r) = Len(c) + Len(r)
      /\ \A x \in 1..Len(c) : (c \o r)[x] = c[x]
  BY <1>4, ConcatProperties
<1>6. Len(d) + 1 \in DOMAIN (c \o r) /\ (c \o r)[Len(d) + 1] = m
  BY <1>5
<1>7. Answered(c \o r)
  BY <1>2, <1>6 DEF Answered
<1>8. DurablePart(UpToAssistant(Derived(b)), Derived(SubSeq(b, 1, a)))
  BY <1>2, <1>3, <1>4, DurableSelf
<1> QED BY <1>1, <1>2, <1>4, <1>7, <1>8

LEMMA NextRunKeeps == ASSUME CmpInv, NextRun PROVE CmpInv'
<1>1. PICK a : a = LastAssistant(branch)
  OBVIOUS
<1>2. PICK open : open = IF a = 0 THEN {} ELSE Unresolved(branch, a)
  OBVIOUS
<1>3. /\ CmpTypes /\ Shaped(branch) /\ at = "ended" /\ runNo' = runNo + 1
      /\ Derivable(branch, a)
      /\ live' = Derived(branch') /\ comp' = NoComp /\ policy' = NewPolicy
      /\ completed' = (open # {}) /\ cancelling' = FALSE /\ turn' = turn
  BY <1>1, <1>2 DEF CmpInv, NextRun
<1>4. Orderly(branch) /\ Suffixed(branch) /\ StageInv
  BY <1>3, BrokenUnderivable DEF CmpInv
<1>5. branch \in Seq(Entry) /\ turn \in Nat /\ <<>> \in Seq(Message) /\ <<>> \in Seq(LiveMessage)
  BY <1>3, CompactionAssumption DEF CmpTypes
<1>6. /\ comp'.keep \in Seq(Message) /\ comp' \in [source : Seq(LiveMessage), keep : Seq(LiveMessage),
                    step : {"none", "pending", "completed", "interrupted"}, retry : BOOLEAN]
      /\ policy' \in [compactions : 0..MaxCompactions, retries : 0..MaxOverflowRetries,
                      retried : BOOLEAN, blocked : Nat]
  BY <1>3, <1>5, CompactionAssumption DEF NoComp, NewPolicy
<1>7. completed' \in BOOLEAN /\ cancelling' \in BOOLEAN
  BY <1>3
<1>8. runNo' \in Nat /\ turn' \in 0..CmpTurns
  BY <1>3 DEF CmpTypes
<1>9. CASE open = {}
  <2>1. PICK e : e = MsgEntry("user", turn, 0, 0)
    OBVIOUS
  <2>2. branch' = Append(branch, e) /\ at' = "start" /\ batch' = NoBatch
    BY <1>1, <1>2, <1>9, <2>1 DEF NextRun
  <2>3. e \in Entry /\ e.k = "user"
    BY <1>5, <2>1 DEF MsgEntry, Entry
  <2>4. Orderly(branch')
    BY <1>4, <2>2, <2>3, AppendPlain
  <2>5. Closed(branch')
    <3>1. Closed(branch)
      BY <1>1, <1>2, <1>9 DEF Closed
    <3> QED BY <1>5, <2>2, <2>3, <3>1, ClosedKept
  <2>6. branch' \in Seq(Entry) /\ live' \in Seq(LiveMessage) /\ DurablePart(live', Derived(branch'))
    <3>1. Derived(branch') \in Seq(Message)
      BY <2>4, DerivedType
    <3> QED BY <1>3, <1>5, <2>2, <2>3, <3>1, DurableSelf, MessageLive
  <2>7. CmpTypes'
    BY <1>6, <1>7, <1>8, <2>2, <2>6 DEF CmpTypes, NoBatch
  <2>8. StageInv'
    BY <1>3, <2>2, <2>5, <2>6 DEF StageInv
  <2> QED BY <2>2, <2>3, <2>4, <2>7, <2>8, AppendKeeps DEF Orderly
<1>10. CASE open # {}
  <2>1. branch' = branch /\ at' = "recover" /\ batch' = [calls |-> branch[a].calls, settled |-> 1..branch[a].calls \ open]
    BY <1>1, <1>2, <1>10 DEF NextRun
  <2>2. ~Closed(branch) /\ open = Unresolved(branch, a)
    BY <1>1, <1>2, <1>10 DEF Closed
  <2>3. OpenAt(branch, a, turn)
    <3>1. PICK x \in 1..Len(branch) : OpenAt(branch, x, turn)
      BY <1>3, <1>4, <2>2 DEF StageInv
    <3>2. x = a
      BY <1>1, <1>3, <3>1, OpenLast
    <3> QED BY <3>1, <3>2
  <2>4. /\ Unresolved(branch, a) = 1..branch[a].calls \ SettledCalls(branch, a)
        /\ SettledCalls(branch, a) \subseteq 1..branch[a].calls /\ a \in 1..Len(branch)
    BY <1>3, <2>3, OpenOwners
  <2>5. batch'.calls = branch'[a].calls /\ batch'.settled = SettledCalls(branch', a)
    BY <2>1, <2>2, <2>4
  <2>6. DurablePart(UpToAssistant(live'), Derived(SubSeq(branch', 1, a))) /\ Answered(live')
    BY <1>3, <1>4, <2>1, <2>3, RecoveredTranscript
  <2>7. live' \in Seq(LiveMessage)
    BY <1>3, <1>4, <2>1, DerivedType, MessageLive
  <2>8. batch' \in [calls : Nat, settled : SUBSET Nat] /\ batch'.settled \subseteq 1..batch'.calls
    <3>1. branch[a].calls \in Nat
      <4>1. branch[a] \in Entry
        BY <1>5, <2>4
      <4> QED BY <4>1 DEF Entry
    <3> QED BY <2>1, <3>1
  <2>9. CmpTypes'
    BY <1>5, <1>6, <1>7, <1>8, <2>1, <2>6, <2>7, <2>8 DEF CmpTypes
  <2>10. a \in 1..Len(branch') /\ OpenAt(branch', a, turn')
    BY <1>3, <2>1, <2>3, <2>4
  <2>11. StageInv'
    BY <2>1, <2>5, <2>6, <2>10 DEF StageInv
  <2> QED BY <2>1, <2>9, <2>11, BranchKept
<1> QED BY <1>9, <1>10

(* The first state: one user message, visible and in the transcript.       *)
LEMMA CmpStarts == CmpInit => CmpInv
<1> SUFFICES ASSUME CmpInit PROVE CmpInv
  OBVIOUS
<1>1. PICK e : e = MsgEntry("user", 0, 0, 0)
  OBVIOUS
<1>2. /\ branch = <<e>> /\ live = <<Msg("user", 0, 0)>>
      /\ at = "start" /\ turn = 0 /\ batch = NoBatch /\ comp = NoComp
      /\ policy = NewPolicy /\ completed = FALSE /\ cancelling = FALSE /\ runNo = 1
  BY <1>1 DEF CmpInit
<1>3. e \in Entry /\ e.k = "user" /\ e.n = 0 /\ e.i = 0
  BY <1>1 DEF MsgEntry, Entry
<1>4. branch \in Seq(Entry) /\ Len(branch) = 1 /\ branch[1] = e
  BY <1>2, <1>3
<1>5. Msg("user", 0, 0) \in Message /\ <<Msg("user", 0, 0)>> \in Seq(Message) /\ <<>> \in Seq(Message)
  BY DEF Msg, Message
<1>6. live \in Seq(LiveMessage) /\ <<>> \in Seq(LiveMessage)
  BY <1>2, <1>5, MessageLive
<1>7. CmpTypes
  <2>1. policy \in [compactions : 0..MaxCompactions, retries : 0..MaxOverflowRetries,
                    retried : BOOLEAN, blocked : Nat]
    BY <1>2, CompactionAssumption DEF NewPolicy
  <2>2. /\ comp.keep \in Seq(Message) /\ comp \in [source : Seq(LiveMessage), keep : Seq(LiveMessage),
                     step : {"none", "pending", "completed", "interrupted"}, retry : BOOLEAN]
        /\ batch \in [calls : Nat, settled : SUBSET Nat] /\ batch.settled \subseteq 1..batch.calls
    BY <1>2, <1>5, <1>6 DEF NoComp, NoBatch
  <2>3. turn \in 0..CmpTurns /\ runNo \in Nat
    BY <1>2, CompactionAssumption
  <2> QED BY <1>2, <1>4, <1>6, <2>1, <2>2, <2>3 DEF CmpTypes
<1>8. Shaped(branch)
  BY <1>3, <1>4 DEF Shaped
<1>9. Orderly(branch)
  BY <1>4, <1>8 DEF Orderly
<1>10. Visible(branch) = 1..1
  BY <1>3, <1>4 DEF Visible
<1>11. Suffixed(branch)
  BY <1>4, <1>10 DEF Suffixed
<1>12. Closed(branch)
  <2>1. LastAssistant(branch) \in 0..1 /\ (LastAssistant(branch) # 0 => branch[LastAssistant(branch)].k = "assistant")
    BY <1>4, OwnerLast DEF LastAssistant
  <2> QED BY <1>3, <1>4, <2>1 DEF Closed
<1>13. Derived(branch) = <<Msg("user", 0, 0)>>
  <2>1. Orderly(<<>>)
    BY DEF Orderly, Shaped
  <2>2. Places(<<>>) = {}
    <3>1. Visible(<<>>) = {}
      BY DEF Visible
    <3> QED BY <3>1, PlacesAre
  <2>3. Derived(<<>>) = <<>>
    BY <2>2, FS_EmptySet DEF Derived
  <2>4. branch = Append(<<>>, e)
    BY <1>2
  <2>5. Derived(branch) = Append(<<>>, Msg(e.k, e.n, e.i))
    BY <1>3, <2>1, <2>3, <2>4, AppendMessage
  <2> QED BY <1>3, <2>5
<1>14. StageInv
  <2>1. DurablePart(live, Derived(branch))
    BY <1>2, <1>5, <1>13, DurableSelf
  <2> QED BY <1>2, <1>12, <2>1 DEF StageInv
<1> QED BY <1>7, <1>8, <1>9, <1>11, <1>14 DEF CmpInv

LEMMA CmpStep == CmpInv /\ [CmpNext]_cmpVars => CmpInv'
<1> SUFFICES ASSUME CmpInv, [CmpNext]_cmpVars PROVE CmpInv'
  OBVIOUS
<1>1. CASE UNCHANGED cmpVars
  BY <1>1 DEF CmpInv, CmpTypes, StageInv, cmpVars
<1>2. CASE CmpNext
  BY <1>2, InitialDrainKeeps, ThresholdKeeps, MoveKeeps, LostKeeps, CancelKeeps, RequestKeeps, SummaryKeeps, RespondKeeps,
     StreamFailsKeeps, OverflowKeeps, AfterKeeps, ReplacementKeeps, BatchKeeps, ResponseKeeps, ToolKeeps,
     WriteKeeps, NextRunKeeps DEF CmpNext
<1> QED BY <1>1, <1>2

LEMMA CmpAlways == CmpSpec => []CmpInv
  BY CmpStarts, CmpStep, PTL DEF CmpSpec

(* At every boundary of a run, and however many runs, responses, tool      *)
(* calls, queued messages and compactions there are, the transcript in     *)
(* memory without its queued input is what the branch would rebuild        *)
(* (drive_inner, inject_queued_messages, order_recovered_tool_results,     *)
(* persist_compaction_replacement, publish_durable_replacement,            *)
(* project_selected_entries).                                              *)
THEOREM TranscriptIsDurable == CmpSpec => []LiveIsDurable
<1>1. CmpInv => LiveIsDurable
  <2>1. Derivable(branch, 0) => ~Broken(branch)
    BY BrokenUnderivable
  <2> QED BY <2>1 DEF CmpInv, StageInv, LiveIsDurable
<1> QED BY <1>1, CmpAlways, PTL

(* The state of a run's compaction keeps its shape; the retry and the      *)
(* compaction counters never pass the limits of the run policy             *)
(* (maybe_automatic_compaction, the overflow retry of drive_inner).        *)
THEOREM CompactionTypeCorrect == CmpSpec => []CmpTypeOK
<1>1. CmpInv => CmpTypeOK
  BY DEF CmpInv, CmpTypes, CmpTypeOK
<1> QED BY <1>1, CmpAlways, PTL

-----------------------------------------------------------------------------
(* Tools that settle in the order of their calls.                          *)

(* Branch order is source order; every response but the last has all its   *)
(* results; the results of the last are those of its first calls.          *)
Aligned(b) == \A j, l \in 1..Len(b) : j < l => SourceBefore(b, j, l)
Resolved(b) ==
  \A j \in 1..Len(b) : b[j].k = "assistant" /\ j # LastAssistant(b) => Unresolved(b, j) = {}
Prefixed(b) ==
  \A t : \A a \in 1..Len(b) : OpenAt(b, a, t) => \A x \in SettledCalls(b, a) : 1..x \subseteq SettledCalls(b, a)
InCallOrder(b) == ~Broken(b) /\ Aligned(b) /\ Resolved(b) /\ Prefixed(b)

LEMMA UnresolvedShrinks ==
  ASSUME NEW b, NEW c, Begins(b, c), NEW j \in 1..Len(b)
  PROVE  Unresolved(c, j) \subseteq Unresolved(b, j)
<1>1. c[j] = b[j] /\ 1..Len(b) \subseteq 1..Len(c) /\ Len(b) \in Nat
  BY BeginsTypes DEF Begins
<1>2. ASSUME NEW x \in ResultsOf(b, j)
      PROVE  x \in ResultsOf(c, j) /\ c[x] = b[x]
  <2>1. x \in 1..Len(b) /\ b[x].k = "result" /\ OwnerOf(b, x) = j
    BY <1>2 DEF ResultsOf
  <2>2. c[x] = b[x]
    BY <2>1 DEF Begins
  <2>3. x \in 1..(Len(b) + 1)
    BY <1>1, <2>1
  <2>4. OwnerOf(c, x) = OwnerOf(b, x)
    BY <2>3, OwnerKept
  <2> QED BY <1>1, <2>1, <2>2, <2>4 DEF ResultsOf
<1> QED BY <1>1, <1>2 DEF Unresolved

LEMMA ResolvedKept ==
  ASSUME NEW b \in Seq(Entry), NEW e \in Entry, Resolved(b), e.k = "assistant" => Closed(b)
  PROVE  Resolved(Append(b, e))
<1>1. PICK c : c = Append(b, e)
  OBVIOUS
<1>2. PICK n \in Nat : n = Len(b)
  OBVIOUS
<1>3. Begins(b, c) /\ Len(c) = n + 1 /\ c[n + 1] = e /\ \A j \in 1..n : c[j] = b[j]
  BY <1>1, <1>2, AppendBegins DEF Begins
<1>4. ASSUME NEW j \in 1..(n + 1), c[j].k = "assistant", j # LastAssistant(c)
      PROVE  Unresolved(c, j) = {}
  <2>1. LastAssistant(c) = OwnerOf(c, n + 2) /\ LastAssistant(b) = OwnerOf(b, n + 1)
    BY <1>2, <1>3 DEF LastAssistant
  <2>2. /\ LastAssistant(c) \in 0..(n + 1)
        /\ LastAssistant(c) # 0 => c[LastAssistant(c)].k = "assistant"
        /\ \A x \in 1..(n + 1) : c[x].k = "assistant" => x <= LastAssistant(c)
    <3>1. n + 2 \in Nat \ {0} /\ (n + 2) - 1 = n + 1
      OBVIOUS
    <3> QED BY <2>1, <3>1, OwnerLast
  <2>3. j \in 1..n /\ b[j].k = "assistant"
    BY <1>3, <1>4, <2>2
  <2>4. Unresolved(c, j) \subseteq Unresolved(b, j)
    BY <1>2, <1>3, <2>3, UnresolvedShrinks
  <2>5. CASE j # LastAssistant(b)
    BY <1>2, <2>3, <2>4, <2>5 DEF Resolved
  <2>6. CASE j = LastAssistant(b)
    <3>1. e.k = "assistant"
      <4>1. ASSUME e.k # "assistant" PROVE LastAssistant(c) = j
        <5>1. LastAssistant(c) \in 1..n /\ j <= LastAssistant(c)
          BY <1>3, <2>2, <2>3, <4>1
        <5>2. b[LastAssistant(c)].k = "assistant"
          BY <1>3, <2>2, <5>1
        <5>3. n + 1 \in Nat \ {0} /\ (n + 1) - 1 = n
          OBVIOUS
        <5>4. LastAssistant(c) <= j
          BY <2>1, <2>6, <5>1, <5>2, <5>3, OwnerLast
        <5> QED BY <5>1, <5>4
      <4> QED BY <1>4, <4>1
    <3>2. Unresolved(b, j) = {}
      BY <2>3, <2>6, <3>1 DEF Closed
    <3> QED BY <2>4, <3>2
  <2> QED BY <2>5, <2>6
<1> QED BY <1>1, <1>3, <1>4 DEF Resolved

LEMMA AlignedKept ==
  ASSUME NEW b \in Seq(Entry), NEW e \in Entry, Aligned(b),
         \A j \in 1..Len(b) : SourceBefore(Append(b, e), j, Len(b) + 1)
  PROVE  Aligned(Append(b, e))
<1>1. PICK c : c = Append(b, e)
  OBVIOUS
<1>2. PICK n \in Nat : n = Len(b)
  OBVIOUS
<1>3. Begins(b, c) /\ Len(c) = n + 1
  BY <1>1, <1>2, AppendBegins
<1>4. ASSUME NEW j \in 1..(n + 1), NEW l \in 1..(n + 1), j < l
      PROVE  SourceBefore(c, j, l)
  <2>1. CASE l = n + 1
    <3>1. j \in 1..n
      BY <1>4, <2>1
    <3> QED BY <1>1, <1>2, <2>1, <3>1
  <2>2. CASE l # n + 1
    <3>1. j \in 1..n /\ l \in 1..n
      BY <1>4, <2>2
    <3>2. SourceKey(c, j) = SourceKey(b, j) /\ SourceKey(c, l) = SourceKey(b, l)
      BY <1>2, <1>3, <3>1, KeyKept
    <3>3. SourceBefore(b, j, l)
      BY <1>2, <1>4, <3>1 DEF Aligned
    <3> QED BY <3>2, <3>3 DEF SourceBefore
  <2> QED BY <2>1, <2>2
<1> QED BY <1>1, <1>3, <1>4 DEF Aligned

(* An entry that is no compaction breaks nothing, if it has its response.  *)
LEMMA UnbrokenKept ==
  ASSUME NEW b, Shaped(b), ~Broken(b), NEW e \in Entry, Shaped(Append(b, e)), e.k # "compaction",
         e.k = "result" => LastAssistant(b) \in Visible(b)
  PROVE  ~Broken(Append(b, e))
<1>1. PICK c : c = Append(b, e)
  OBVIOUS
<1>2. PICK n \in Nat : n = Len(b) /\ b \in Seq(Entry)
  BY DEF Shaped
<1>3. Begins(b, c) /\ Len(c) = n + 1 /\ c[n + 1] = e /\ \A j \in 1..n : c[j] = b[j]
  BY <1>1, <1>2, AppendBegins DEF Begins
<1>4. Shaped(c) /\ \A j \in (Len(b) + 1)..Len(c) : c[j].k # "compaction"
  BY <1>1, <1>2, <1>3
<1>5. Visible(c) = Visible(b) \cup ((n + 1)..(n + 1))
  BY <1>2, <1>3, <1>4, VisibleGrows
<1>6. Visible(b) \subseteq 1..n
  BY <1>2 DEF Visible
<1>7. ASSUME NEW j \in Visible(c), c[j].k = "result"
      PROVE  OwnerOf(c, j) \in Visible(c)
  <2>1. CASE j \in Visible(b)
    <3>1. j \in 1..n /\ j \in 1..(n + 1)
      BY <1>6, <2>1
    <3>2. b[j].k = "result" /\ OwnerOf(c, j) = OwnerOf(b, j)
      BY <1>2, <1>3, <1>7, <3>1, OwnerKept
    <3> QED BY <1>5, <2>1, <3>2 DEF Broken
  <2>2. CASE j \notin Visible(b)
    <3>1. j = n + 1 /\ n + 1 \in 1..(n + 1)
      BY <1>5, <1>7, <2>2
    <3>2. e.k = "result" /\ OwnerOf(c, j) = LastAssistant(b)
      BY <1>2, <1>3, <1>7, <3>1, OwnerKept DEF LastAssistant
    <3> QED BY <1>5, <3>2
  <2> QED BY <2>1, <2>2
<1> QED BY <1>1, <1>7 DEF Broken

(* No compaction comes behind an open response.                            *)
LEMMA OpenVisible ==
  ASSUME NEW b, Shaped(b), NEW t, NEW a, OpenAt(b, a, t)
  PROVE  a \in Visible(b)
<1>1. b \in Seq(Entry) /\ Len(b) \in Nat /\ a \in 1..Len(b)
  BY DEF Shaped, OpenAt
<1>2. ASSUME NEW c \in 1..Len(b), b[c].k = "compaction"
      PROVE  a \notin b[c].from..b[c].to
  <2>1. c \notin (a + 1)..Len(b)
    BY <1>2 DEF OpenAt
  <2>2. c <= a
    BY <1>1, <2>1
  <2>3. b[c] \in Entry /\ b[c].to < c
    BY <1>1, <1>2 DEF Shaped
  <2>4. b[c].to \in Nat /\ b[c].from \in Nat
    BY <2>3 DEF Entry
  <2> QED BY <1>1, <2>2, <2>3, <2>4
<1> QED BY <1>1, <1>2 DEF Visible

(* Behind an entry that is no result, no result is there yet.              *)
LEMMA PrefixedAnew ==
  ASSUME NEW b \in Seq(Entry), NEW e \in Entry, e.k # "result"
  PROVE  Prefixed(Append(b, e))
<1>1. PICK c : c = Append(b, e)
  OBVIOUS
<1>2. PICK n \in Nat : n = Len(b)
  OBVIOUS
<1>3. Len(c) = n + 1 /\ c[n + 1] = e
  BY <1>1, <1>2, AppendBegins
<1>4. ASSUME NEW a \in 1..(n + 1), NEW t, OpenAt(c, a, t)
      PROVE  SettledCalls(c, a) = {}
  <2>1. n + 1 \notin (a + 1)..(n + 1)
    BY <1>3, <1>4 DEF OpenAt
  <2>2. (a + 1)..(n + 1) = {}
    BY <2>1
  <2> QED BY <1>3, <2>2 DEF SettledCalls
<1> QED BY <1>1, <1>3, <1>4 DEF Prefixed

(* A user message or a response.                                           *)
LEMMA OrderWithMessage ==
  ASSUME NEW b, Orderly(b), InCallOrder(b), NEW e \in Entry, e.k \in {"user", "assistant"},
         e.k = "assistant" => Closed(b)
  PROVE  InCallOrder(Append(b, e))
<1>1. b \in Seq(Entry) /\ Shaped(b) /\ Len(b) \in Nat
  BY DEF Orderly, Shaped
<1>2. Shaped(Append(b, e))
  BY <1>1, AppendShaped
<1>3. Aligned(Append(b, e))
  <2>1. \A j \in 1..Len(b) : SourceBefore(Append(b, e), j, Len(b) + 1)
    BY <1>1, <1>2, AppendAfter
  <2> QED BY <1>1, <2>1, AlignedKept DEF InCallOrder
<1>4. Resolved(Append(b, e))
  BY <1>1, ResolvedKept DEF InCallOrder
<1>5. ~Broken(Append(b, e))
  BY <1>1, <1>2, UnbrokenKept DEF InCallOrder
<1>6. Prefixed(Append(b, e))
  BY <1>1, <1>2, PrefixedAnew
<1> QED BY <1>3, <1>4, <1>5, <1>6 DEF InCallOrder

(* A result, when all calls before its own have theirs.                    *)
LEMMA OrderWithResult ==
  ASSUME NEW b, Orderly(b), InCallOrder(b), NEW t, NEW a, OpenAt(b, a, t), NEW e \in Entry,
         e.k = "result", e.n = t, e.i \in 1..b[a].calls, e.i \notin SettledCalls(b, a),
         \A h \in 1..(e.i - 1) : h \in SettledCalls(b, a)
  PROVE  InCallOrder(Append(b, e))
<1>1. PICK c : c = Append(b, e)
  OBVIOUS
<1>2. PICK n \in Nat : n = Len(b) /\ b \in Seq(Entry) /\ Shaped(b)
  BY DEF Orderly, Shaped
<1>3. Begins(b, c) /\ Len(c) = n + 1 /\ c[n + 1] = e /\ \A j \in 1..n : c[j] = b[j]
  BY <1>1, <1>2, AppendBegins DEF Begins
<1>4. /\ Orderly(c) /\ OpenAt(c, a, t) /\ SettledCalls(c, a) = SettledCalls(b, a) \cup {e.i}
      /\ c[a] = b[a]
  <2>1. a \in 1..Len(b)
    BY DEF OpenAt
  <2>2. PICK i \in 1..b[a].calls : e.i = i
    OBVIOUS
  <2>3. i \notin SettledCalls(b, a)
    BY <2>2
  <2> QED BY <1>1, <2>1, <2>2, <2>3, AppendResult
<1>5. Shaped(c)
  BY <1>4 DEF Orderly
<1>6. /\ a \in 1..n /\ SettledCalls(b, a) \subseteq 1..b[a].calls
      /\ \A j \in (a + 1)..n : SourceKey(b, j) = <<a, b[j].i>> /\ b[j].i \in Nat \ {0}
  BY <1>2, OpenOwners
<1>7. /\ \A j \in (a + 1)..(n + 1) : SourceKey(c, j) = <<a, c[j].i>>
      /\ n + 1 \in (a + 1)..(n + 1)
  <2>1. \A j \in (a + 1)..Len(c) : SourceKey(c, j) = <<a, c[j].i>>
    BY <1>4, <1>5, OpenOwners
  <2>2. n + 1 \in (a + 1)..(n + 1)
    BY <1>6
  <2> QED BY <1>3, <2>1, <2>2
<1>8. b[a] \in Entry /\ b[a].calls \in Nat /\ e.i \in Nat /\ e.i > 0
  <2>1. b[a] \in Entry
    BY <1>2, <1>6
  <2> QED BY <2>1 DEF Entry
<1>9. \A x \in SettledCalls(b, a) : x \in Nat /\ x < e.i
  <2> SUFFICES ASSUME NEW x \in SettledCalls(b, a) PROVE x \in Nat /\ x < e.i
    OBVIOUS
  <2>1. x \in Nat /\ 1..x \subseteq SettledCalls(b, a)
    BY <1>2, <1>6, <1>8 DEF InCallOrder, Prefixed
  <2>2. e.i \notin 1..x
    BY <2>1
  <2> QED BY <1>8, <2>1, <2>2
<1>10. ASSUME NEW j \in 1..n
       PROVE  SourceBefore(c, j, n + 1)
  <2>1. SourceKey(c, n + 1) = <<a, e.i>>
    BY <1>3, <1>7
  <2>2. SourceKey(c, j) = SourceKey(b, j)
    BY <1>2, <1>3, KeyKept
  <2>3. CASE j \in (a + 1)..n
    <3>1. b[j].i \in SettledCalls(b, a)
      BY <1>2, <2>3 DEF SettledCalls
    <3>2. SourceKey(c, j) = <<a, b[j].i>> /\ b[j].i < e.i
      BY <1>6, <1>9, <2>2, <2>3, <3>1
    <3> QED BY <2>1, <3>2 DEF SourceBefore
  <2>4. CASE j \notin (a + 1)..n
    <3>1. j <= a
      BY <1>6, <2>4
    <3>2. PICK x \in 0..j, y \in Nat :
            /\ SourceKey(b, j) = <<x, y>>
            /\ IF b[j].k = "result" THEN x = OwnerOf(b, j) /\ x < j /\ y = b[j].i /\ y > 0
               ELSE x = j /\ y = 0
      <4>1. j \in 1..Len(b) /\ Shaped(b)
        BY <1>2
      <4> QED BY <4>1, KeyType
    <3>3. x < a \/ (x = a /\ y = 0)
      BY <1>6, <3>1, <3>2
    <3> QED BY <1>8, <2>1, <2>2, <3>2, <3>3 DEF SourceBefore
  <2> QED BY <2>3, <2>4
<1>11. Aligned(c)
  BY <1>1, <1>2, <1>10, AlignedKept DEF InCallOrder
<1>12. Resolved(c)
  BY <1>1, <1>2, ResolvedKept DEF InCallOrder
<1>13. ~Broken(c)
  <2>1. LastAssistant(b) \in Visible(b)
    BY <1>2, OpenVisible, OpenLast
  <2> QED BY <1>1, <1>2, <1>5, <2>1, UnbrokenKept DEF InCallOrder
<1>14. Prefixed(c)
  <2> SUFFICES ASSUME NEW d \in 1..Len(c), NEW u, OpenAt(c, d, u),
                      NEW x \in SettledCalls(c, d)
               PROVE  1..x \subseteq SettledCalls(c, d)
    BY DEF Prefixed
  <2>1. d = a
    BY <1>4, <1>5, OpenLast
  <2>2. CASE x \in SettledCalls(b, a)
    <3>1. 1..x \subseteq SettledCalls(b, a)
      BY <1>2, <1>6, <2>2 DEF InCallOrder, Prefixed
    <3> QED BY <1>4, <2>1, <3>1
  <2>3. CASE x = e.i
    <3>1. \A h \in 1..x : h \in 1..(e.i - 1) \/ h = e.i
      BY <1>8, <2>3
    <3> QED BY <1>4, <2>1, <3>1
  <2> QED BY <1>4, <2>1, <2>2, <2>3
<1> QED BY <1>1, <1>11, <1>12, <1>13, <1>14 DEF InCallOrder

(* A replacement covers everything before it.                              *)
LEMMA OrderWithReplacement ==
  ASSUME NEW b, Orderly(b), Suffixed(b), InCallOrder(b), Derivable(b, 0), NEW body \in Seq(Message)
  PROVE  InCallOrder(Append(b, CompactionEntry(FirstIncluded(b), LastIncluded(b), body)))
<1>1. PICK n \in Nat : n = Len(b) /\ b \in Seq(Entry) /\ Shaped(b)
  BY DEF Orderly, Shaped
<1>2. PICK lo \in 1..n : Visible(b) = lo..n
  BY <1>1 DEF Suffixed
<1>3. FirstIncluded(b) = lo
  BY <1>1, <1>2, FirstIncludedIs
<1>4. PICK la : la = LastIncluded(b)
  OBVIOUS
<1>5. n \in lo..n /\ lo \in Nat
  OBVIOUS
<1>6. la \in lo..n /\ \A l \in (lo..n) \ {la} : SourceBefore(b, l, la)
  BY <1>2, <1>4, <1>5, LastIncludedIs
<1>7. la = n
  <2> SUFFICES ASSUME la # n PROVE FALSE
    OBVIOUS
  <2>1. la \in 1..n /\ n \in 1..n /\ la < n
    BY <1>5, <1>6
  <2>2. SourceBefore(b, la, n) /\ SourceBefore(b, n, la)
    BY <1>1, <1>5, <1>6, <2>1 DEF InCallOrder, Aligned
  <2> QED BY <1>1, <2>1, <2>2, SourceOrder
<1>8. PICK e : e = CompactionEntry(lo, n, body)
  OBVIOUS
<1>9. e \in Entry /\ e.k = "compaction" /\ e.from = lo /\ e.to = n
  BY <1>5, <1>8 DEF CompactionEntry, Entry
<1>10. Shaped(Append(b, e))
  BY <1>1, <1>9, AppendShaped
<1>11. Visible(Append(b, e)) = {n + 1}
  <2>1. Visible(Append(b, e)) = ((lo..n) \ (lo..n)) \cup {n + 1}
    BY <1>1, <1>2, <1>9, VisibleReplaced
  <2> QED BY <2>1
<1>12. ~Broken(Append(b, e))
  <2>1. Append(b, e)[n + 1].k = "compaction"
    BY <1>1, <1>9, AppendBegins
  <2> QED BY <1>11, <2>1 DEF Broken
<1>13. Aligned(Append(b, e))
  <2>1. \A j \in 1..Len(b) : SourceBefore(Append(b, e), j, Len(b) + 1)
    BY <1>1, <1>9, <1>10, AppendAfter
  <2> QED BY <1>1, <1>9, <2>1, AlignedKept DEF InCallOrder
<1>14. Resolved(Append(b, e))
  BY <1>1, <1>9, ResolvedKept DEF InCallOrder
<1>15. Prefixed(Append(b, e))
  BY <1>1, <1>9, PrefixedAnew
<1> QED BY <1>3, <1>4, <1>7, <1>8, <1>12, <1>13, <1>14, <1>15 DEF InCallOrder

LEMMA OrderProjects ==
  ASSUME NEW b, Orderly(b), Suffixed(b), InCallOrder(b)
  PROVE  Derivable(b, LastAssistant(b))
<1>1. PICK n \in Nat : n = Len(b)
  BY DEF Orderly, Shaped
<1>2. PICK lo \in 1..n : Visible(b) = lo..n
  BY <1>1 DEF Suffixed
<1>3. ASSUME NEW j \in lo..n, b[j].k = "assistant"
      PROVE  ResultsOf(b, j) \subseteq lo..n
  <2> SUFFICES ASSUME NEW x \in ResultsOf(b, j) PROVE x \in lo..n
    OBVIOUS
  <2>1. x \in 1..n /\ OwnerOf(b, x) = j /\ x \in Nat \ {0}
    BY <1>1 DEF ResultsOf
  <2>2. j \in 0..(x - 1)
    BY <2>1, OwnerLast
  <2> QED BY <2>1, <2>2
<1>4. \A j \in lo..n : b[j].k = "result" => OwnerOf(b, j) \in lo..n
  BY <1>2 DEF InCallOrder, Broken
<1>5. \A j \in lo..n : b[j].k = "assistant" => Unresolved(b, j) = {} \/ j = LastAssistant(b)
  BY <1>1 DEF InCallOrder, Resolved
<1> QED BY <1>2, <1>3, <1>4, <1>5 DEF Derivable

SequentialInv == ~ParallelTools => InCallOrder(branch)

LEMMA SequentialStep == CmpInv /\ SequentialInv /\ [CmpNext]_cmpVars => SequentialInv'
<1> SUFFICES ASSUME CmpInv, InCallOrder(branch), ~ParallelTools, [CmpNext]_cmpVars
             PROVE  InCallOrder(branch')
  BY DEF SequentialInv
<1>1. CmpTypes /\ Orderly(branch) /\ Suffixed(branch) /\ StageInv
  BY DEF CmpInv, InCallOrder
<1>2. branch \in Seq(Entry) /\ turn \in Nat /\ batch.calls \in Nat /\ <<>> \in Seq(Message)
  BY <1>1, CompactionAssumption DEF CmpTypes
<1>3. CASE branch' = branch
  BY <1>3
<1>4. CASE CommitResponse
  <2>1. PICK e : e = MsgEntry("assistant", turn, 0, batch.calls)
    OBVIOUS
  <2>2. e \in Entry /\ e.k = "assistant"
    BY <1>2, <2>1 DEF MsgEntry, Entry
  <2>3. Closed(branch)
    BY <1>1, <1>4 DEF StageInv, CommitResponse
  <2>4. branch' = Append(branch, e)
    BY <1>4, <2>1 DEF CommitResponse
  <2> QED BY <1>1, <2>2, <2>3, <2>4, OrderWithMessage
<1>5. ASSUME NEW i \in 1..batch.calls, ToolSettles(i)
      PROVE  InCallOrder(branch')
  <2>1. PICK e : e = MsgEntry("result", turn, i, 0)
    OBVIOUS
  <2>2. e \in Entry /\ e.k = "result" /\ e.n = turn /\ e.i = i
    BY <1>2, <2>1 DEF MsgEntry, Entry
  <2>3. PICK a \in 1..Len(branch) :
          /\ OpenAt(branch, a, turn)
          /\ batch.calls = branch[a].calls /\ batch.settled = SettledCalls(branch, a)
    BY <1>1, <1>5 DEF StageInv, ToolSettles
  <2>4. i \notin batch.settled /\ \A h \in 1..(i - 1) : h \in batch.settled
    BY <1>5 DEF ToolSettles
  <2>5. branch' = Append(branch, e)
    BY <1>5, <2>1 DEF ToolSettles
  <2> QED BY <1>1, <1>2, <1>5, <2>2, <2>3, <2>4, <2>5, OrderWithResult
<1>6. CASE WriteReplacement /\ branch' # branch
  <2>1. /\ Derivable(branch, 0) /\ Derived(branch) = comp.source
        /\ branch' = Append(branch, CompactionEntry(FirstIncluded(branch), LastIncluded(branch), Replacement))
    BY <1>6 DEF WriteReplacement
  <2>2. Replacement \in Seq(Message)
    BY <1>1, <2>1, ReplacementType
  <2> QED BY <1>1, <2>1, <2>2, OrderWithReplacement
<1>7. CASE NextRun /\ branch' # branch
  <2>1. PICK e : e = MsgEntry("user", turn, 0, 0)
    OBVIOUS
  <2>2. e \in Entry /\ e.k = "user"
    BY <1>2, <2>1 DEF MsgEntry, Entry
  <2>3. branch' = Append(branch, e)
    BY <1>7, <2>1 DEF NextRun
  <2> QED BY <1>1, <2>2, <2>3, OrderWithMessage
<1> QED
  BY <1>3, <1>4, <1>5, <1>6, <1>7 DEF CmpNext, cmpVars, InitialDrain, ThresholdCompaction, CompactionLimit,
     NoCompaction, RequestStart, Respond, StreamFails, Overflow, AppendBatch, AfterTurn,
     SummaryRequest, SummarySettles, CompactorReturns, CompactionFails, Reserve,
     PublishReplacement, CancelRequested, CancelSettles, RunLost

LEMMA SequentialStarts == CmpInit => SequentialInv
<1> SUFFICES ASSUME CmpInit PROVE InCallOrder(branch)
  BY DEF SequentialInv
<1>1. PICK e : e = MsgEntry("user", 0, 0, 0)
  OBVIOUS
<1>2. e \in Entry /\ e.k = "user" /\ branch = Append(<<>>, e) /\ <<>> \in Seq(Entry)
  BY <1>1 DEF CmpInit, MsgEntry, Entry
<1>3. Orderly(<<>>) /\ InCallOrder(<<>>)
  BY DEF Orderly, Shaped, InCallOrder, Broken, Visible, Aligned, Resolved, Prefixed
<1> QED BY <1>2, <1>3, OrderWithMessage

(* Tools that run one after another keep the branch projectable: no        *)
(* replacement leaves a result behind whose call it covers, through any    *)
(* compactions, lost runs and recoveries.  What AlwaysRebuilt loses is     *)
(* lost to results appended out of call order (persist_compaction_         *)
(* replacement, validate_protected_context).                               *)
THEOREM SequentialRebuilt == CmpSpec => [](~ParallelTools => AlwaysRebuilt)
<1>1. CmpInv /\ SequentialInv => (~ParallelTools => AlwaysRebuilt)
  <2> SUFFICES ASSUME CmpInv, SequentialInv, ~ParallelTools PROVE AlwaysRebuilt
    OBVIOUS
  <2>1. InCallOrder(branch) /\ Orderly(branch) /\ Suffixed(branch)
    BY DEF CmpInv, SequentialInv, InCallOrder
  <2> QED BY <2>1, OrderProjects DEF AlwaysRebuilt
<1>2. CmpSpec => []SequentialInv
  BY CmpAlways, SequentialStarts, SequentialStep, PTL DEF CmpSpec
<1> QED BY <1>1, <1>2, CmpAlways, PTL
=============================================================================
