--------------------------- MODULE HarnessLineage ---------------------------
(***************************************************************************)
(* The harness a session runs under and how its own lanes change it:       *)
(* `HarnessRepository` in memory (harness/lineage.rs), the catalogs the    *)
(* session commits of it (lineage/catalog.rs, harness/resolver.rs), the    *)
(* mutating commands of the `tea_harness` tool (runtime/harness_tool.rs),  *)
(* activation at the end of an epoch (supervisor/mod.rs), crash, reopen    *)
(* and `tea session gc`.                                                   *)
(*                                                                         *)
(* All lanes share one repository and one session; each has a branch of    *)
(* its own with an active revision.  A snapshot holds one tree of session  *)
(* sources and is named by it; a tree stands for the objects only it has.  *)
(* A revision is named by the changes that lead to it, a candidate by its  *)
(* parent, its snapshot and the tool call that made it.                    *)
(***************************************************************************)
EXTENDS Naturals, Sequences

CONSTANTS
  Trees,           \* source trees a lane may write
  BrokenTrees,     \* the extension engine refuses them
  DeniedTrees,     \* they compile, but their tools exceed the host's authority
  RejectedTrees,   \* they make a snapshot, but no acceptable candidate
  HarnessLanes,    \* the lanes
  Root,            \* the lane a reopen starts from
  RolloverBudget,  \* activations an operation may continue across
  MaxHarnessCalls, MaxHarnessOps, MaxHarnessCrashes  \* bounds

ASSUME HarnessAssumption ==
  /\ BrokenTrees \subseteq Trees /\ DeniedTrees \subseteq Trees \ BrokenTrees
  /\ RejectedTrees \subseteq Trees \ (BrokenTrees \cup DeniedTrees)
  /\ "base" \notin Trees /\ RolloverBudget \in Nat /\ Root \in HarnessLanes
  /\ MaxHarnessCalls \in Nat /\ MaxHarnessOps \in Nat /\ MaxHarnessCrashes \in Nat

VARIABLES
  \* on disk
  catalog,  \* what the latest committed HarnessCatalog fact names
  sources,  \* trees whose objects are in the artifact store
  branch,   \* of each lane: revision; operation, its activations, its rollovers
  \* in the process
  up,       \* a supervisor has the session open
  repo,     \* HarnessRepository
  stage,    \* of each lane: pc, and the candidate its tool call works on
  \* counted
  harnessCount

harnessVars == <<catalog, sources, branch, up, repo, stage, harnessCount>>

NoCandidate == <<>>
Change == [snap : Trees \cup {"base"}, call : 0..MaxHarnessCalls]
Initial == <<[snap |-> "base", call |-> 0]>>
SnapshotOf(r) == r[Len(r)].snap
Child(c) == Append(c.parent, [snap |-> c.snap, call |-> c.call])
Ancestors(r) == {SubSeq(r, 1, n) : n \in 1..(Len(r) - 1)}

Empty == [trees |-> {}, snaps |-> {}, revs |-> {}, cands |-> {}]
Seeded == [trees |-> {"base"}, snaps |-> {"base"}, revs |-> {Initial}, cands |-> {}]

\* validate_candidate: neither a refusal nor a no-op.
Accepted(c) == c.snap \notin RejectedTrees /\ c.snap # SnapshotOf(c.parent)

\* unresolved_activation: a request whose entry is not on the branch.
Pending(l) == branch[l].requests # branch[l].entered
Unresolved(l) == CHOOSE c \in branch[l].requests \ branch[l].entered : TRUE

\* The session mutex is held from the catalog of an activation to its entry.
SessionFree == \A l \in HarnessLanes : stage[l].pc # "catalogued"

Go(l, pc) == stage' = [stage EXCEPT ![l].pc = pc]
Idle(b) == [b EXCEPT !.open = FALSE, !.requests = {}, !.entered = {}, !.rollovers = 0]

Revision == Seq(Change) \ {<<>>}
CandidateType == [parent : Revision, snap : Trees \cup {"base"}, call : 0..MaxHarnessCalls]
Repository == [trees : SUBSET (Trees \cup {"base"}), snaps : SUBSET (Trees \cup {"base"}),
               revs : SUBSET Revision, cands : SUBSET CandidateType]
BranchType == [rev : Revision, open : BOOLEAN, requests : SUBSET CandidateType,
               entered : SUBSET CandidateType, rollovers : Nat]
StageType == [pc : {"idle", "inside", "between", "epoch", "staged", "persisted", "terminated",
                    "closed", "derived", "catalogued", "switched"},
              cand : CandidateType \cup {NoCandidate}]

HarnessTypeOK ==
  /\ catalog \in Repository /\ repo \in Repository
  /\ sources \in SUBSET (Trees \cup {"base"}) /\ up \in BOOLEAN
  /\ branch \in [HarnessLanes -> BranchType] /\ stage \in [HarnessLanes -> StageType]
  /\ harnessCount \in [calls : 0..MaxHarnessCalls, ops : Nat, crashes : Nat]

HarnessInit ==
  /\ catalog = Seeded /\ repo = Seeded /\ sources = {"base"} /\ up = TRUE
  /\ branch = [l \in HarnessLanes |-> [rev |-> Initial, open |-> FALSE, requests |-> {},
                                       entered |-> {}, rollovers |-> 0]]
  /\ stage = [l \in HarnessLanes |-> [pc |-> "idle", cand |-> NoCandidate]]
  /\ harnessCount = [calls |-> 0, ops |-> 0, crashes |-> 0]

-----------------------------------------------------------------------------
(* An operation and its epochs.                                            *)

BeginOperation(l) ==
  /\ up /\ SessionFree /\ stage[l].pc = "idle" /\ harnessCount.ops < MaxHarnessOps
  /\ branch' = [branch EXCEPT ![l].open = TRUE] /\ Go(l, "epoch")
  /\ harnessCount' = [harnessCount EXCEPT !.ops = @ + 1]
  /\ UNCHANGED <<catalog, sources, up, repo>>

(* It completes, fails or is aborted; a request it leaves is void.         *)
EndOperation(l) ==
  /\ up /\ SessionFree /\ stage[l].pc \in {"epoch", "inside", "between", "terminated"}
  /\ branch' = [branch EXCEPT ![l] = Idle(@)] /\ Go(l, "idle")
  /\ UNCHANGED <<catalog, sources, up, repo, harnessCount>>

-----------------------------------------------------------------------------
(* tea_harness: apply and rollback.  Staging holds the repository's lock.  *)

MutatingCall(l) ==
  /\ up /\ stage[l].pc = "epoch" /\ harnessCount.calls < MaxHarnessCalls
  /\ harnessCount' = [harnessCount EXCEPT !.calls = @ + 1]
Candidate(l, snap) == [parent |-> branch[l].rev, snap |-> snap, call |-> harnessCount.calls + 1]

(* stage_tree, stage_snapshot and stage_candidate add what is not there.   *)
StageTree(r, t) == [r EXCEPT !.trees = @ \cup {t}]
StageSnapshot(r, t) == [r EXCEPT !.snaps = @ \cup {t}]
StageCandidate(l, r, c) ==
  /\ repo' = [r EXCEPT !.cands = @ \cup {c}]
  /\ stage' = [stage EXCEPT ![l] = [pc |-> "staged", cand |-> c]]

(* HarnessResolver::apply.  What was staged before a refusal stays.        *)
ApplySources(l, t) ==
  /\ MutatingCall(l) /\ SnapshotOf(branch[l].rev) \in sources
  /\ sources' = sources \cup {t}
  /\ LET tree == StageTree(repo, t)
         snapshot == StageSnapshot(tree, t)
     IN \/ t \in BrokenTrees /\ repo' = tree /\ UNCHANGED stage
        \/ t \in DeniedTrees /\ repo' = snapshot /\ UNCHANGED stage
        \/ t \notin BrokenTrees \cup DeniedTrees /\ StageCandidate(l, snapshot, Candidate(l, t))
  /\ UNCHANGED <<catalog, branch, up>>

StageRollback(l, target) ==
  /\ MutatingCall(l) /\ target \in Ancestors(branch[l].rev)
  /\ StageCandidate(l, repo, Candidate(l, SnapshotOf(target)))
  /\ UNCHANGED <<catalog, sources, branch, up>>

(* persist_catalog: the whole repository, other lanes' objects included.   *)
PersistStaged(l) ==
  /\ up /\ SessionFree /\ stage[l].pc = "staged"
  /\ catalog' = repo /\ Go(l, "persisted")
  /\ UNCHANGED <<sources, branch, up, repo, harnessCount>>

PersistFails(l) ==
  /\ up /\ stage[l].pc = "staged" /\ Go(l, "epoch")
  /\ UNCHANGED <<catalog, sources, branch, up, repo, harnessCount>>

(* schedule_candidate.  A second request of the operation is refused, even *)
(* when the first is resolved.                                             *)
Schedulable(l) ==
  /\ Accepted(stage[l].cand)
  /\ branch[l].rollovers < RolloverBudget
  /\ branch[l].requests = {}

Schedule(l) ==
  /\ up /\ SessionFree /\ stage[l].pc = "persisted"
  /\ \/ /\ Schedulable(l)
        /\ branch' = [branch EXCEPT ![l].requests = @ \cup {stage[l].cand}] /\ Go(l, "terminated")
     \/ ~Schedulable(l) /\ Go(l, "epoch") /\ UNCHANGED branch
  /\ UNCHANGED <<catalog, sources, up, repo, harnessCount>>

-----------------------------------------------------------------------------
(* drive_epoch after the run, activate_pending_harness.                    *)

CloseEpoch(l) ==
  /\ up /\ SessionFree /\ stage[l].pc \in {"epoch", "terminated"} /\ Pending(l)
  /\ branch' = [branch EXCEPT ![l].rollovers = @ + 1] /\ Go(l, "closed")
  /\ UNCHANGED <<catalog, sources, up, repo, harnessCount>>

MayActivate(l) ==
  /\ branch[l].rollovers <= RolloverBudget
  /\ Unresolved(l) \in repo.cands /\ Accepted(Unresolved(l))
  /\ Unresolved(l).parent = branch[l].rev

ActivateCandidate(l) ==
  /\ up /\ stage[l].pc = "closed" /\ MayActivate(l)
  /\ repo' = [repo EXCEPT !.revs = @ \cup {Child(Unresolved(l))}] /\ Go(l, "derived")
  /\ UNCHANGED <<catalog, sources, branch, up, harnessCount>>

CommitCatalog(l) ==
  /\ up /\ SessionFree /\ stage[l].pc = "derived"
  /\ catalog' = repo /\ Go(l, "catalogued")
  /\ UNCHANGED <<sources, branch, up, repo, harnessCount>>

CommitRevision(l) ==
  /\ up /\ stage[l].pc = "catalogued"
  /\ LET c == Unresolved(l) IN
       branch' = [branch EXCEPT ![l].rev = Child(c), ![l].entered = @ \cup {c}]
  /\ Go(l, "switched")
  /\ UNCHANGED <<catalog, sources, up, repo, harnessCount>>

(* start_epoch resolves the active revision from the shared repository.    *)
StartEpoch(l) ==
  /\ up /\ SessionFree /\ stage[l].pc = "switched"
  /\ branch[l].rev \in repo.revs /\ SnapshotOf(branch[l].rev) \in sources
  /\ Go(l, "epoch")
  /\ UNCHANGED <<catalog, sources, branch, up, repo, harnessCount>>

-----------------------------------------------------------------------------
(* The process ends, is started again, and recovers; between them the host *)
(* may collect.                                                            *)

(* An operation is left inside its epoch or between two.                   *)
Interrupted(pc) ==
  CASE pc = "idle" -> "idle"
    [] pc \in {"closed", "derived", "catalogued", "switched", "between"} -> "between"
    [] OTHER -> "inside"

HarnessCrash ==
  /\ up /\ harnessCount.crashes < MaxHarnessCrashes
  /\ up' = FALSE /\ repo' = Empty
  /\ stage' = [l \in HarnessLanes |-> [pc |-> Interrupted(stage[l].pc), cand |-> NoCandidate]]
  /\ harnessCount' = [harnessCount EXCEPT !.crashes = @ + 1]
  /\ UNCHANGED <<catalog, sources, branch>>

(* from_catalog_json: every tree's objects are read, every snapshot is     *)
(* staged again, and revisions and candidates find what they refer to.     *)
TreesRestore(k) == k.trees \subseteq sources /\ k.snaps \subseteq k.trees
RevisionsRestore(k) == \A r \in k.revs : SnapshotOf(r) \in k.snaps /\ Ancestors(r) \subseteq k.revs
CandidatesRestore(k) == \A c \in k.cands : c.parent \in k.revs /\ c.snap \in k.snaps
Restorable(k) == TreesRestore(k) /\ RevisionsRestore(k) /\ CandidatesRestore(k)

(* SessionSupervisor::reopen looks up the revision of the root's branch.   *)
Reopen ==
  /\ ~up /\ Restorable(catalog) /\ branch[Root].rev \in catalog.revs
  /\ up' = TRUE /\ repo' = catalog
  /\ UNCHANGED <<catalog, sources, branch, stage, harnessCount>>

(* resume_claimed_lane_runtime: an open epoch goes on, a request without   *)
(* its entry is activated, otherwise a new epoch starts.                   *)
Resume(l) ==
  /\ up /\ SessionFree /\ stage[l].pc \in {"inside", "between"}
  /\ Go(l, IF stage[l].pc = "inside" THEN "epoch" ELSE IF Pending(l) THEN "closed" ELSE "switched")
  /\ UNCHANGED <<catalog, sources, branch, up, repo, harnessCount>>

(* Mutant: only what some revision has been made of is kept.               *)
ArtifactRootsActivated(k) == {SnapshotOf(r) : r \in k.revs}

(* HarnessRepository::artifact_roots.                                      *)
ArtifactRoots(k) == k.snaps

(* `tea session gc`: the catalogs are restored to learn their roots.       *)
CollectSources ==
  /\ ~up /\ Restorable(catalog)
  /\ sources' = sources \cap ArtifactRoots(catalog)
  /\ UNCHANGED <<catalog, branch, up, repo, stage, harnessCount>>

-----------------------------------------------------------------------------
HarnessNext ==
  \/ \E l \in HarnessLanes :
       \/ BeginOperation(l) \/ EndOperation(l)
       \/ \E t \in Trees : ApplySources(l, t)
       \/ \E r \in Ancestors(branch[l].rev) : StageRollback(l, r)
       \/ PersistStaged(l) \/ PersistFails(l) \/ Schedule(l)
       \/ CloseEpoch(l) \/ ActivateCandidate(l) \/ CommitCatalog(l) \/ CommitRevision(l)
       \/ StartEpoch(l) \/ Resume(l)
  \/ HarnessCrash \/ Reopen \/ CollectSources

HarnessSpec == HarnessInit /\ [][HarnessNext]_harnessVars

-----------------------------------------------------------------------------
\* The revision a branch names, the line it descends from and the candidates
\* asked for are in the latest catalog, with their sources in the store.
Reconstructible(l) ==
  /\ {branch[l].rev} \cup Ancestors(branch[l].rev) \subseteq catalog.revs
  /\ SnapshotOf(branch[l].rev) \in catalog.snaps \cap sources
  /\ \A c \in branch[l].requests :
       c \in catalog.cands /\ c.parent \in catalog.revs /\ c.snap \in catalog.snaps \cap sources

\* unresolved_activation refuses a log in which an operation owes two.
OneUnresolved(l) == \A c, d \in branch[l].requests \ branch[l].entered : c = d

(* HarnessRecoverable: whatever instant the process ends, the harness of   *)
(* every lane can be recovered: what its branch and an activation it still *)
(* owes refer to is in the catalog and in the store, whatever another lane *)
(* staged, committed or failed to and whatever was collected in between,   *)
(* and it owes at most one activation, also when recovery continued the    *)
(* epoch that asked for it (schedule_candidate, activate_pending_harness). *)
HarnessRecoverable == \A l \in HarnessLanes : Reconstructible(l) /\ OneUnresolved(l)

(* CatalogRestores: the catalog a reopen reads can be restored; collection *)
(* and recovery never leave a session that cannot be opened                *)
(* (docs/artifact-recovery.md counts source-tree objects among the roots). *)
CatalogRestores == Restorable(catalog)
=============================================================================
