------------------------------ MODULE SessionLog ------------------------------
(***************************************************************************)
(* The writer of one durable session directory: `JsonlSession` of          *)
(* tea-session (jsonl.rs).  `session.jsonl` is an append-only log of       *)
(* sealed commits; a commit is one JSON line plus its newline.  A handle   *)
(* appends in stages (body, newline, synchronisation, adoption), any of    *)
(* which can fail or be cut short by the death of the process or of the    *)
(* machine.  Opening, repairing, creating and exporting the directory are  *)
(* the other operations that change it.                                    *)
(*                                                                         *)
(* A line carries what the reader checks: whether its bytes parse, its     *)
(* sequence number, and the digest of its predecessor.  Digests are        *)
(* collision free, so the digest of a commit is its identity, 0 being the  *)
(* digest of the header.                                                   *)
(***************************************************************************)
EXTENDS Naturals, Sequences

CONSTANTS
  Writers,       \* handles on the directory, one per process that uses it
  Strict,        \* DurabilityMode::Strict (TRUE) or Development (FALSE)
  RenameDurable, \* TRUE: the file system makes a rename durable on its own;
                 \* FALSE: only a sync of the parent directory does
  MaxCommits     \* bound on the commits ever proposed

ASSUME LogAssumption ==
  /\ Strict \in BOOLEAN
  /\ RenameDurable \in BOOLEAN
  /\ MaxCommits \in Nat

VARIABLES
  dir,      \* "absent" | "volatile" (published, parent unsynced) | "present"
  lines,    \* complete lines of session.jsonl after the header
  tail,     \* what follows the last newline: "none" | "torn" | "body"
  synced,   \* how many of `lines` survive a power loss
  head,     \* digest of the revision commit HEAD names (0: none)
  lock,     \* handles that hold the flock of session.jsonl
  pc,       \* control state of each handle
  snap,     \* JsonlSession::snapshot of each handle: the lines it adopted
  pending,  \* the prepared commit a handle is appending
  nextId,   \* identity of the next proposed commit
  acked,    \* lines acknowledged by a successful commit() (history)
  export    \* the last published export: its log and what export.json names

vars == <<dir, lines, tail, synced, head, lock, pc, snap, pending, nextId,
          acked, export>>

Line == [ok : BOOLEAN, seq : Nat, prev : Nat, id : Nat, rev : BOOLEAN]

PcStates == {"closed", "creating", "publishing", "ready", "body", "newline",
             "sync", "head", "faulted"}

NoCommit == [ok |-> FALSE, seq |-> 0, prev |-> 0, id |-> 0, rev |-> FALSE]

(* The digest a line list ends with: SessionSnapshot::last_digest.         *)
LastDigest(ls) == IF ls = <<>> THEN 0 ELSE ls[Len(ls)].id

(* What decode_snapshot_stream demands of every complete line: canonical   *)
(* bytes, the next sequence number and the digest of its predecessor.      *)
ChainOK(ls) ==
  \A i \in 1..Len(ls) :
    /\ ls[i].ok
    /\ ls[i].seq = i
    /\ ls[i].prev = (IF i = 1 THEN 0 ELSE ls[i - 1].id)

(* What HEAD should name for a prefix: its last revision commit            *)
(* (SessionSnapshot::active_main_harness_revision), or nothing, 0.         *)
ActiveRevision(ls) ==
  LET revs == {i \in 1..Len(ls) : ls[i].rev}
  IN  IF revs = {} THEN {0}
      ELSE {ls[i].id : i \in {k \in revs : \A j \in revs : j <= k}}

(* Forgetting a handle: the process died or dropped it, and its flock with *)
(* it (impl Drop for JsonlSession and ScopedWriterLock).                   *)
Release(w) ==
  /\ lock' = lock \ {w}
  /\ pc' = [pc EXCEPT ![w] = "closed"]
  /\ snap' = [snap EXCEPT ![w] = <<>>]
  /\ pending' = [pending EXCEPT ![w] = NoCommit]

-----------------------------------------------------------------------------
Init ==
  /\ dir = "absent"
  /\ lines = <<>> /\ tail = "none" /\ synced = 0 /\ head = 0
  /\ lock = {}
  /\ pc = [w \in Writers |-> "closed"]
  /\ snap = [w \in Writers |-> <<>>]
  /\ pending = [w \in Writers |-> NoCommit]
  /\ nextId = 1
  /\ acked = <<>>
  /\ export = [log |-> <<>>, tail |-> "none", through |-> 0]

(* create_with_clock_and_locked_file up to publication: a private sibling  *)
(* directory with a sealed header, locked before it becomes visible.       *)
CreateTemporary(w) ==
  /\ pc[w] = "closed"
  /\ dir = "absent"
  /\ pc' = [pc EXCEPT ![w] = "creating"]
  /\ UNCHANGED <<dir, lines, tail, synced, head, lock, snap, pending, nextId,
                 acked, export>>

(* publish_directory_noreplace: only one creator can win the name; the     *)
(* loser removes its temporary directory and returns the error.            *)
Publish(w) ==
  /\ pc[w] = "creating"
  /\ \/ /\ dir = "absent"
        /\ dir' = "volatile"
        /\ lines' = <<>> /\ tail' = "none" /\ synced' = 0 /\ head' = 0
        /\ lock' = lock \cup {w}
        /\ pc' = [pc EXCEPT ![w] = "publishing"]
     \/ /\ dir # "absent"
        /\ pc' = [pc EXCEPT ![w] = "closed"]
        /\ UNCHANGED <<dir, lines, tail, synced, head, lock>>
  /\ UNCHANGED <<snap, pending, nextId, acked, export>>

(* The rest of creation: strict mode synchronises the parent directory.    *)
CreateReturns(w) ==
  /\ pc[w] = "publishing"
  /\ dir' = IF Strict THEN "present" ELSE dir
  /\ pc' = [pc EXCEPT ![w] = "ready"]
  /\ UNCHANGED <<lines, tail, synced, head, lock, snap, pending, nextId,
                 acked, export>>

(* sync_directory(parent) fails: creation returns the error, the complete  *)
(* directory stays and the lock is released.                               *)
CreateInterrupted(w) ==
  /\ pc[w] = "publishing"
  /\ Strict
  /\ Release(w)
  /\ UNCHANGED <<dir, lines, tail, synced, head, nextId, acked, export>>

(* Mutant of Open: it forgets the writer lock.                             *)
OpenUnlocked(w) ==
  /\ pc[w] = "closed" /\ dir # "absent" /\ ChainOK(lines) /\ tail = "none"
  /\ lock' = lock \cup {w}
  /\ pc' = [pc EXCEPT ![w] = "ready"]
  /\ snap' = [snap EXCEPT ![w] = lines]
  /\ UNCHANGED <<dir, lines, tail, synced, head, pending, nextId, acked, export>>

(* open_with_clock_and_locked_file: takes the lock, replays the log and    *)
(* refuses a torn tail; a stale HEAD is rebuilt, and a failure to do so is *)
(* only a warning.                                                         *)
Open(w) ==
  /\ pc[w] = "closed"
  /\ dir # "absent"
  /\ lock = {}
  /\ ChainOK(lines)
  /\ tail = "none"
  /\ lock' = {w}
  /\ pc' = [pc EXCEPT ![w] = "ready"]
  /\ snap' = [snap EXCEPT ![w] = lines]
  /\ head' \in {head} \cup ActiveRevision(lines)
  /\ UNCHANGED <<dir, lines, tail, synced, pending, nextId, acked, export>>

(* Mutant of RepairTornTail: truncates back over the last complete line.   *)
RepairCutsLine(w) ==
  /\ pc[w] = "closed" /\ dir # "absent" /\ lock = {} /\ ChainOK(lines)
  /\ tail # "none" /\ lines # <<>>
  /\ tail' = "none"
  /\ lines' = SubSeq(lines, 1, Len(lines) - 1)
  /\ synced' = Len(lines) - 1
  /\ UNCHANGED <<dir, head, lock, pc, snap, pending, nextId, acked, export>>

(* repair_torn_tail: truncates exactly the unterminated suffix; in strict  *)
(* mode the truncation is synchronised, and that sync may fail.  The lock  *)
(* is held only for the call.                                              *)
RepairTornTail(w) ==
  /\ pc[w] = "closed"
  /\ dir # "absent"
  /\ lock = {}
  /\ ChainOK(lines)
  /\ tail' = "none"
  /\ \/ /\ synced' = IF Strict /\ tail # "none" THEN Len(lines) ELSE synced
        /\ head' \in {head} \cup ActiveRevision(lines)
     \/ Strict /\ tail # "none" /\ UNCHANGED <<synced, head>>
  /\ UNCHANGED <<dir, lines, lock, pc, snap, pending, nextId, acked, export>>

-----------------------------------------------------------------------------
(* Mutant of BeginCommit: a faulted handle may try again.                  *)
BeginCommitFaulted(w, rev) ==
  /\ pc[w] \in {"ready", "faulted"}
  /\ nextId <= MaxCommits
  /\ pending' = [pending EXCEPT ![w] =
                   [ok |-> TRUE, seq |-> Len(snap[w]) + 1,
                    prev |-> LastDigest(snap[w]), id |-> nextId, rev |-> rev]]
  /\ nextId' = nextId + 1
  /\ pc' = [pc EXCEPT ![w] = "body"]
  /\ UNCHANGED <<dir, lines, tail, synced, head, lock, snap, acked, export>>

(* write_commit: refuses a faulted handle, prepares and validates the      *)
(* commit against the snapshot, and encodes it.  Rejections before the     *)
(* first byte leave the handle as it was.                                  *)
BeginCommit(w, rev) ==
  /\ pc[w] = "ready"
  /\ nextId <= MaxCommits
  /\ pending' = [pending EXCEPT ![w] =
                   [ok |-> TRUE, seq |-> Len(snap[w]) + 1,
                    prev |-> LastDigest(snap[w]), id |-> nextId, rev |-> rev]]
  /\ nextId' = nextId + 1
  /\ pc' = [pc EXCEPT ![w] = "body"]
  /\ UNCHANGED <<dir, lines, tail, synced, head, lock, snap, acked, export>>

(* An append-stage error: the handle is faulted for the rest of its life.  *)
Fault(w) ==
  /\ pc' = [pc EXCEPT ![w] = "faulted"]
  /\ UNCHANGED <<dir, lines, synced, head, lock, snap, pending, nextId, acked,
                 export>>

(* write_all(json): all of the body, or an error after any part of it.     *)
WriteBody(w) ==
  /\ pc[w] = "body"
  /\ \/ /\ tail' = IF tail = "none" THEN "body" ELSE "torn"
        /\ pc' = [pc EXCEPT ![w] = "newline"]
        /\ UNCHANGED <<dir, lines, synced, head, lock, snap, pending, nextId,
                       acked, export>>
     \/ /\ tail' \in {tail, "torn"}
        /\ Fault(w)

(* write_all(b"\n"): the newline makes whatever precedes it one line.      *)
WriteNewline(w) ==
  /\ pc[w] = "newline"
  /\ \/ /\ lines' = Append(lines, [pending[w] EXCEPT !.ok = (tail = "body")])
        /\ tail' = "none"
        /\ pc' = [pc EXCEPT ![w] = "sync"]
        /\ UNCHANGED <<dir, synced, head, lock, snap, pending, nextId, acked,
                       export>>
     \/ /\ UNCHANGED tail
        /\ Fault(w)

(* Mutant of SyncAndAdopt: the log is flushed but never synchronised.      *)
AdoptUnsynced(w) ==
  /\ pc[w] = "sync"
  /\ snap' = [snap EXCEPT ![w] = Append(@, pending[w])]
  /\ pc' = [pc EXCEPT ![w] = IF pending[w].rev THEN "head" ELSE "ready"]
  /\ acked' = IF pending[w].rev THEN acked ELSE Append(snap[w], pending[w])
  /\ UNCHANGED <<dir, lines, tail, synced, head, lock, pending, nextId, export>>

(* flush and, in strict mode, sync_data; then the reduced state advances.  *)
(* A commit that selects a main-lane revision goes on to refresh HEAD, any *)
(* other one is acknowledged.                                              *)
SyncAndAdopt(w) ==
  /\ pc[w] = "sync"
  /\ \/ /\ synced' = IF Strict THEN Len(lines) ELSE synced
        /\ snap' = [snap EXCEPT ![w] = Append(@, pending[w])]
        /\ pc' = [pc EXCEPT ![w] = IF pending[w].rev THEN "head" ELSE "ready"]
        /\ acked' = IF pending[w].rev THEN acked ELSE Append(snap[w], pending[w])
        /\ UNCHANGED <<dir, lines, tail, head, lock, pending, nextId, export>>
     \/ /\ UNCHANGED tail
        /\ Fault(w)

(* write_head_cache after adoption: a failure is a warning, never an error *)
(* of the commit, which is acknowledged either way.                        *)
RefreshHead(w) ==
  /\ pc[w] = "head"
  /\ head' \in {head} \cup ActiveRevision(snap[w])
  /\ pc' = [pc EXCEPT ![w] = "ready"]
  /\ acked' = snap[w]
  /\ UNCHANGED <<dir, lines, tail, synced, lock, snap, pending, nextId, export>>

(* export_to: synchronises the source file, copies all of its bytes and    *)
(* writes a manifest that names the handle's snapshot.  The call is open   *)
(* to a faulted handle as well.  Copy, verification and publication of the *)
(* destination happen in a private directory.                              *)
ExportTo(w) ==
  /\ pc[w] \in {"ready", "faulted"}
  /\ synced' = Len(lines)
  /\ export' = [log |-> lines, tail |-> tail, through |-> Len(snap[w])]
  /\ UNCHANGED <<dir, lines, tail, head, lock, pc, snap, pending, nextId, acked>>

(* Dropping the handle.                                                    *)
Close(w) ==
  /\ pc[w] \in {"ready", "faulted"}
  /\ Release(w)
  /\ UNCHANGED <<dir, lines, tail, synced, head, nextId, acked, export>>

-----------------------------------------------------------------------------
(* The process of a handle dies anywhere; the page cache survives, and the *)
(* partial result of a write in progress with it.                          *)
ProcessCrash(w) ==
  /\ pc[w] # "closed"
  /\ tail' \in IF pc[w] = "body" THEN {tail, "torn"} ELSE {tail}
  /\ Release(w)
  /\ UNCHANGED <<dir, lines, synced, head, nextId, acked, export>>

(* The machine dies: every handle is gone, the log keeps at least what was *)
(* synchronised and possibly a torn part of what was not; a publication    *)
(* whose parent was never synchronised may be undone.                      *)
PowerLoss ==
  /\ dir # "absent"
  /\ lock' = {}
  /\ pc' = [w \in Writers |-> "closed"]
  /\ snap' = [w \in Writers |-> <<>>]
  /\ pending' = [w \in Writers |-> NoCommit]
  /\ \/ /\ \E n \in synced..Len(lines) :
             /\ lines' = SubSeq(lines, 1, n)
             /\ synced' = n
             /\ tail' \in IF n < Len(lines) \/ tail # "none"
                          THEN {"none", "torn"} ELSE {"none"}
        /\ dir' = "present"
        /\ UNCHANGED head
     \/ /\ dir = "volatile"
        /\ ~RenameDurable
        /\ dir' = "absent"
        /\ lines' = <<>> /\ tail' = "none" /\ synced' = 0 /\ head' = 0
  /\ UNCHANGED <<nextId, acked, export>>

HandleStep(w) ==
  \/ CreateTemporary(w) \/ Publish(w) \/ CreateReturns(w) \/ CreateInterrupted(w)
  \/ Open(w) \/ RepairTornTail(w)
  \/ \E rev \in BOOLEAN : BeginCommit(w, rev)
  \/ WriteBody(w) \/ WriteNewline(w) \/ SyncAndAdopt(w) \/ RefreshHead(w)
  \/ ExportTo(w) \/ Close(w) \/ ProcessCrash(w)

Next == PowerLoss \/ \E w \in Writers : HandleStep(w)

Spec == Init /\ [][Next]_vars
-----------------------------------------------------------------------------
(* TypeOK: every stored line, handle and export has its type; in           *)
(* particular the handles' snapshots are sequences of lines.               *)
TypeOK ==
  /\ dir \in {"absent", "volatile", "present"}
  /\ lines \in Seq(Line)
  /\ tail \in {"none", "torn", "body"}
  /\ synced \in Nat
  /\ head \in Nat
  /\ lock \in SUBSET Writers
  /\ pc \in [Writers -> PcStates]
  /\ snap \in [Writers -> Seq(Line)]
  /\ pending \in [Writers -> Line]
  /\ nextId \in Nat
  /\ acked \in Seq(Line)
  /\ export \in [log : Seq(Line), tail : {"none", "torn", "body"}, through : Nat]

(* Every complete line of the log is one the reader accepts, whatever      *)
(* crashes, torn tails and repairs came before it: the log never turns     *)
(* into corruption that no operation repairs.                              *)
LogReadable == ChainOK(lines)

(* A handle that may still append knows the log exactly, so the sequence   *)
(* and predecessor it will seal next are the ones the reader expects.      *)
ReadyHandleIsExact ==
  \A w \in Writers : pc[w] \in {"ready", "head", "body"} =>
     snap[w] = lines /\ tail = "none"

IsPrefixOf(s, t) ==
  Len(s) <= Len(t) /\ \A i \in 1..Len(s) : s[i] = t[i]

(* What commit() acknowledged in strict mode stays in the log through      *)
(* process crashes, power loss, torn-tail repair and other handles.        *)
AckedSurvives == IsPrefixOf(acked, lines)

(* Once a writable open has taken a line for committed history, the line   *)
(* stays: docs/session-format-v1.md lets reopening decide whether an       *)
(* interrupted line joined the prefix.                                     *)
ReopenDecides ==
  [][\A w \in Writers : pc[w] = "ready" => IsPrefixOf(snap[w], lines')]_vars

(* Development durability may lose acknowledged commits, but only to a     *)
(* power loss: no append, repair, reopen or process death takes one back.  *)
OnlyPowerLossForgets ==
  [][IsPrefixOf(acked, lines) => IsPrefixOf(acked', lines') \/ PowerLoss]_vars

(* The manifest of an export that opens names exactly the log next to it.  *)
ExportManifestExact ==
  export.tail = "none" => export.through = Len(export.log)

(* The session, read as the lines of session.jsonl, is the durable log its *)
(* callers were promised.                                                  *)
Promise == INSTANCE DurableLog WITH Commit <- Line, log <- lines

ImplementsDurableLog == Promise!Spec
-----------------------------------------------------------------------------
(* The inductive strengthening: who holds the lock, and how far the        *)
(* holder's stage of append has taken the file beyond its snapshot.        *)
Holding == PcStates \ {"closed", "creating"}

(* At most one process at a time holds the writer lock, and whoever is     *)
(* between opening and closing a handle holds it.                          *)
LockInv ==
  /\ \A w \in Writers : w \in lock <=> pc[w] \in Holding
  /\ \A v, w \in lock : v = w

(* The line a handle with this snapshot must write next.                   *)
Sealed(w) ==
  /\ pending[w].ok
  /\ pending[w].seq = Len(snap[w]) + 1
  /\ pending[w].prev = LastDigest(snap[w])

StageInv ==
  \A w \in Writers :
    /\ pc[w] \in {"closed", "creating"} => snap[w] = <<>>
    /\ pc[w] \in {"publishing", "ready", "body", "head"} =>
         snap[w] = lines /\ tail = "none"
    /\ pc[w] = "newline" => snap[w] = lines /\ tail = "body"
    /\ pc[w] \in {"body", "newline"} => Sealed(w)
    /\ pc[w] = "sync" => lines = Append(snap[w], pending[w]) /\ tail = "none"
    /\ pc[w] = "head" /\ Strict => synced = Len(lines)

DiskInv ==
  /\ ChainOK(lines)
  /\ synced <= Len(lines)
  /\ dir = "absent" => lines = <<>> /\ tail = "none" /\ synced = 0 /\ lock = {}

AckInv ==
  Strict /\ RenameDurable =>
    /\ Len(acked) <= synced
    /\ IsPrefixOf(acked, lines)

IInv == TypeOK /\ LockInv /\ StageInv /\ DiskInv /\ AckInv
=============================================================================
