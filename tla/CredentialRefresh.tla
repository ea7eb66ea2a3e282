-------------------------- MODULE CredentialRefresh --------------------------
(* The Tea-owned Codex credential: CodexAuthManager (codex/auth.rs) over     *)
(* FileCredentialStore (codex/credentials.rs), used by several threads of    *)
(* several Tea processes against one authorization server that rotates       *)
(* refresh tokens.  In a process the threads elect a leader with the         *)
(* `refreshing` flag; across processes the leaders serialise on a flock.     *)
(*                                                                           *)
(* A credential is its number and its refresh token, the number of the       *)
(* answer that brought the token.  The clock is the set of expired           *)
(* credentials.  Login and logout take neither the flag nor the flock.       *)
EXTENDS Naturals, FiniteSets

CONSTANTS
    Clients,        \* <<process, thread>> of Tea processes sharing one credential file
    MaxReqs,        \* bound: calls of the manager
    MaxCreds,       \* bound: credentials the server issues
    MaxLost,        \* bound: answers lost, and failed saves
    MaxAuthCrashes  \* bound: processes that die

\* The file exists, so one credential was issued; a client is a pair.
ASSUME CredAssumption == MaxCreds \in Nat \ {0} /\ <<>> \notin Clients

Procs == {c[1] : c \in Clients}
CredIds == 1..MaxCreds
NoCred == [id |-> 0, token |-> 0]
Attempts == 3       \* `for attempt in 0..=2` of refresh_with_transient_retry

VARIABLES
    record,     \* ~/.tea/auth/codex.json, or NoCred
    expired,    \* credentials inside the refresh safety window
    issued,     \* credentials issued so far
    token,      \* the server's view of every refresh token
    unsaved,    \* rotated tokens whose replacement never reached the file
    auth,       \* each process's RefreshState
    lock,       \* the client holding the flock, or <<>>
    req,        \* each client's call into the manager
    authFaults  \* [reqs, lost, crashes]: calls made, answers lost, crashes
credVars == <<record, expired, issued, token, unsaved, auth, lock, req, authFaults>>

NoReq == [at |-> "idle", force |-> FALSE, observed |-> NoCred, current |-> NoCred,
          got |-> NoCred, tries |-> 0, result |-> "none"]
NewAuth == [refreshing |-> FALSE, login |-> FALSE]
IsFresh(k) == k.id \notin expired

\* A process starts on a file some earlier login wrote.
CredInit ==
    /\ record = [id |-> 1, token |-> 1] /\ expired = {} /\ issued = 1
    /\ token = [n \in CredIds |-> IF n = 1 THEN "live" ELSE "none"]
    /\ unsaved = {} /\ lock = <<>>
    /\ auth = [p \in Procs |-> NewAuth]
    /\ req = [c \in Clients |-> NoReq]
    /\ authFaults = [reqs |-> 0, lost |-> 0, crashes |-> 0]

\* A call begins.
Call ==
    /\ authFaults.reqs < MaxReqs
    /\ authFaults' = [authFaults EXCEPT !.reqs = @ + 1]
ReqAt(c, at) == req[c].at = at
Move(c, at) == req' = [req EXCEPT ![c].at = at]
Done(c) == req' = [req EXCEPT ![c] = NoReq]
\* refresh_as_leader returns: the lock guard drops, then the flag is cleared.
LeaderReturns(c, result) ==
    req' = [req EXCEPT ![c] = [NoReq EXCEPT !.at = "unlock", !.result = result]]
File == <<record, expired>>
Server == <<issued, token, unsaved>>

(* snapshot and force_refresh ---------------------------------------------- *)
SnapshotStart(c, force) ==
    /\ ReqAt(c, "idle") /\ ~auth[c[1]].login /\ Call
    /\ req' = [req EXCEPT ![c].at = "load", ![c].force = force]
    /\ UNCHANGED <<File, Server, auth, lock>>

SnapshotLoad(c) ==
    /\ ReqAt(c, "load")
    /\ IF record = NoCred \/ (~req[c].force /\ IsFresh(record))
       THEN Done(c)
       ELSE req' = [req EXCEPT ![c].at = "loop", ![c].observed = record]
    /\ UNCHANGED <<File, Server, auth, lock, authFaults>>

\* One turn of the loop in refresh, under the state mutex.
RefreshLoop(c) ==
    LET p == c[1] IN
    /\ ReqAt(c, "loop")
    /\ \/ auth[p].login /\ Done(c) /\ UNCHANGED auth
       \/ ~auth[p].login /\ auth[p].refreshing /\ Move(c, "wait") /\ UNCHANGED auth
       \/ /\ ~auth[p].login /\ ~auth[p].refreshing
          /\ auth' = [auth EXCEPT ![p].refreshing = TRUE] /\ Move(c, "lock")
    /\ UNCHANGED <<File, Server, lock, authFaults>>

\* A follower wakes, by the notification or after 20 ms, and rereads the file.
FollowerWake(c) ==
    /\ ReqAt(c, "wait")
    /\ IF record = NoCred \/ (IsFresh(record) /\ record # req[c].observed)
       THEN Done(c) ELSE Move(c, "loop")
    /\ UNCHANGED <<File, Server, auth, lock, authFaults>>

TakeLock(c) ==
    /\ ReqAt(c, "lock") /\ lock = <<>>
    /\ lock' = c /\ Move(c, "reload")
    /\ UNCHANGED <<File, Server, auth, authFaults>>

\* acquire_refresh_lock gives up: its timeout, a cancellation, an I/O error.
LockGivesUp(c) ==
    /\ ReqAt(c, "lock") /\ LeaderReturns(c, "error")
    /\ UNCHANGED <<File, Server, auth, lock, authFaults>>

\* Mutant: the leader refreshes what it observed before it had the lock.
ReloadObserved(c) ==
    /\ ReqAt(c, "reload")
    /\ req' = [req EXCEPT ![c].at = "send", ![c].current = req[c].observed]
    /\ UNCHANGED <<File, Server, auth, lock, authFaults>>

\* Under the lock: another process may have committed a replacement.
Reload(c) ==
    /\ ReqAt(c, "reload")
    /\ \/ record = NoCred /\ LeaderReturns(c, "login")
       \/ /\ record # NoCred /\ IsFresh(record)
          /\ (record # req[c].observed \/ ~req[c].force)
          /\ LeaderReturns(c, "ok")
       \/ /\ record # NoCred
          /\ ~(IsFresh(record) /\ (record # req[c].observed \/ ~req[c].force))
          /\ req' = [req EXCEPT ![c].at = "send", ![c].current = record]
    /\ UNCHANGED <<File, Server, auth, lock, authFaults>>

SendRefresh(c) ==
    /\ ReqAt(c, "send")
    /\ req' = [req EXCEPT ![c].at = "asked", ![c].tries = @ + 1]
    /\ UNCHANGED <<File, Server, auth, lock, authFaults>>

\* External.  The server answers a live token; `rotate` is whether the answer
\* carries a replacement token, which retires the presented one.
ServerRefreshes(c, rotate) ==
    LET n == issued + 1
        old == req[c].current.token
    IN
    /\ ReqAt(c, "asked") /\ token[old] = "live" /\ issued < MaxCreds
    /\ issued' = n
    /\ token' = IF rotate THEN [token EXCEPT ![old] = "rotated", ![n] = "live"] ELSE token
    /\ unsaved' = IF rotate THEN unsaved \cup {old} ELSE unsaved
    /\ req' = [req EXCEPT ![c].at = "answered",
                          ![c].got = [id |-> n, token |-> IF rotate THEN n ELSE old]]
    /\ UNCHANGED <<File, auth, lock, authFaults>>

\* External.  A token that was rotated or revoked is refused for good.
ServerRefuses(c) ==
    /\ ReqAt(c, "asked") /\ token[req[c].current.token] # "live"
    /\ LeaderReturns(c, "permanent")
    /\ UNCHANGED <<File, Server, auth, lock, authFaults>>

\* A transport failure or a 5xx, before or after the server acted: retried
\* with the same token twice, then an error.
AnswerLost(c) ==
    /\ req[c].at \in {"asked", "answered"} /\ authFaults.lost < MaxLost
    /\ authFaults' = [authFaults EXCEPT !.lost = @ + 1]
    /\ IF req[c].tries < Attempts
       THEN req' = [req EXCEPT ![c].at = "send", ![c].got = NoCred]
       ELSE LeaderReturns(c, "error")
    /\ UNCHANGED <<File, Server, auth, lock>>

\* save: the rename is the commit.
SaveReplacement(c) ==
    /\ ReqAt(c, "answered")
    /\ record' = req[c].got
    /\ unsaved' = unsaved \ {req[c].current.token}
    /\ LeaderReturns(c, "ok")
    /\ UNCHANGED <<expired, issued, token, auth, lock, authFaults>>

SaveFails(c) ==
    /\ ReqAt(c, "answered") /\ authFaults.lost < MaxLost
    /\ authFaults' = [authFaults EXCEPT !.lost = @ + 1]
    /\ LeaderReturns(c, "error")
    /\ UNCHANGED <<File, Server, auth, lock>>

\* The call's cancellation token is checked in the loop, before each request,
\* while the answer is awaited and while a retry waits.
CancelRefresh(c) ==
    /\ \/ req[c].at = "loop" /\ Done(c)
       \/ req[c].at \in {"send", "asked", "answered"} /\ LeaderReturns(c, "error")
    /\ UNCHANGED <<File, Server, auth, lock, authFaults>>

Unlock(c) ==
    /\ ReqAt(c, "unlock")
    /\ lock' = IF lock = c THEN <<>> ELSE lock
    /\ Move(c, "finish")
    /\ UNCHANGED <<File, Server, auth, authFaults>>

LeaderFinish(c) ==
    /\ ReqAt(c, "finish")
    /\ auth' = [auth EXCEPT ![c[1]] =
                  [refreshing |-> FALSE,
                   login |-> @.login \/ req[c].result \in {"permanent", "login"}]]
    /\ Done(c)
    /\ UNCHANGED <<File, Server, lock, authFaults>>

(* login and logout --------------------------------------------------------- *)
\* A browser or device authorization brought a grant with a new token.
GrantReceived(c) ==
    /\ ReqAt(c, "idle") /\ issued < MaxCreds /\ Call
    /\ issued' = issued + 1
    /\ token' = [token EXCEPT ![issued + 1] = "live"]
    /\ req' = [req EXCEPT ![c].at = "install",
                          ![c].got = [id |-> issued + 1, token |-> issued + 1]]
    /\ UNCHANGED <<File, unsaved, auth, lock>>

InstallGrant(c) ==
    /\ ReqAt(c, "install")
    /\ record' = req[c].got /\ Move(c, "clear")
    /\ UNCHANGED <<expired, Server, auth, lock, authFaults>>

LogoutStart(c) ==
    /\ ReqAt(c, "idle") /\ Call
    /\ req' = [req EXCEPT ![c].at = "revoke", ![c].current = record]
    /\ UNCHANGED <<File, Server, auth, lock>>

\* The revocation may fail; the record is removed all the same.
LogoutRevoke(c) ==
    LET n == req[c].current.token IN
    /\ ReqAt(c, "revoke")
    /\ \/ UNCHANGED token
       \/ n # 0 /\ token[n] = "live" /\ token' = [token EXCEPT ![n] = "revoked"]
    /\ Move(c, "remove")
    /\ UNCHANGED <<File, issued, unsaved, auth, lock, authFaults>>

LogoutRemove(c) ==
    /\ ReqAt(c, "remove")
    /\ record' = NoCred /\ Move(c, "clear")
    /\ UNCHANGED <<expired, Server, auth, lock, authFaults>>

ClearLogin(c) ==
    /\ ReqAt(c, "clear")
    /\ auth' = [auth EXCEPT ![c[1]].login = FALSE]
    /\ Done(c)
    /\ UNCHANGED <<File, Server, lock, authFaults>>

(* environment --------------------------------------------------------------- *)
\* The clock passes the stored credential's safety window; nothing reads the
\* expiry of a credential that is not stored.
Expire ==
    /\ record # NoCred /\ IsFresh(record)
    /\ expired' = expired \cup {record.id}
    /\ UNCHANGED <<record, Server, auth, lock, req, authFaults>>

\* A process dies: the kernel drops its flock, memory is gone, the file stays.
AuthCrash(p) ==
    /\ authFaults.crashes < MaxAuthCrashes
    /\ authFaults' = [authFaults EXCEPT !.crashes = @ + 1]
    /\ auth' = [auth EXCEPT ![p] = NewAuth]
    /\ req' = [c \in Clients |-> IF c[1] = p THEN NoReq ELSE req[c]]
    /\ lock' = IF lock # <<>> /\ lock[1] = p THEN <<>> ELSE lock
    /\ UNCHANGED <<File, Server>>

CredNext ==
    \/ \E c \in Clients :
        \/ \E b \in BOOLEAN : SnapshotStart(c, b) \/ ServerRefreshes(c, b)
        \/ SnapshotLoad(c) \/ RefreshLoop(c) \/ FollowerWake(c)
        \/ TakeLock(c) \/ LockGivesUp(c) \/ Reload(c) \/ SendRefresh(c)
        \/ ServerRefuses(c) \/ AnswerLost(c) \/ SaveReplacement(c) \/ SaveFails(c)
        \/ CancelRefresh(c) \/ Unlock(c) \/ LeaderFinish(c)
        \/ GrantReceived(c) \/ InstallGrant(c)
        \/ LogoutStart(c) \/ LogoutRevoke(c) \/ LogoutRemove(c) \/ ClearLogin(c)
    \/ Expire
    \/ \E p \in Procs : AuthCrash(p)

CredSpec == CredInit /\ [][CredNext]_credVars

Creds == [id : 0..MaxCreds, token : 0..MaxCreds]
ReqStages == {"idle", "load", "loop", "wait", "lock", "reload", "send", "asked", "answered",
              "unlock", "finish", "install", "clear", "revoke", "remove"}
ReqType == [at : ReqStages, force : BOOLEAN, observed : Creds, current : Creds, got : Creds,
            tries : Nat, result : {"none", "ok", "error", "login", "permanent"}]
\* The shape of the state.
CredTypeOK ==
    /\ record \in Creds /\ expired \subseteq 0..MaxCreds /\ issued \in CredIds
    /\ token \in [CredIds -> {"none", "live", "rotated", "revoked"}]
    /\ unsaved \subseteq CredIds /\ lock \in Clients \cup {<<>>}
    /\ auth \in [Procs -> [refreshing : BOOLEAN, login : BOOLEAN]]
    /\ req \in [Clients -> ReqType]
    /\ authFaults \in [reqs : Nat, lost : Nat, crashes : Nat]

\* RotationSafe: a leader presents a token the server has already rotated only
\* when the replacement never reached the file (an answer lost, a save that
\* failed, a process that died in between).  Whatever threads, processes,
\* logins and logouts interleave, a committed replacement is never raced with
\* the old token (auth.rs refresh_as_leader, "Reload under the held
\* cross-process lock ... rather than racing its old refresh token").
RotationSafe ==
    \A c \in Clients :
        ReqAt(c, "send") /\ token[req[c].current.token] = "rotated"
            => req[c].current.token \in unsaved

\* LogoutHolds: a removed record comes back only with a login (auth.rs logout, "Remove
\* Tea-owned credentials even if remote revocation fails").  A refresh that
\* saves after the removal breaks it.
LogoutHolds ==
    [][record = NoCred /\ record' # NoCred => \E c \in Clients : ReqAt(c, "install")]_credVars
==============================================================================
