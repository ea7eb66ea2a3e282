----------------------------- MODULE StoreProofs -----------------------------
(***************************************************************************)
(* Proofs about what is kept beside the log.  ArtifactStore, for any set   *)
(* of contents and any number of lanes: an exclusive collection removes    *)
(* exactly the orphans, and no crash, power loss or shared publication     *)
(* costs a referenced object.  HarnessLineage, for every set of lanes and  *)
(* source trees and every number of tool calls, operations, activations    *)
(* and crashes.                                                            *)
(***************************************************************************)
EXTENDS ArtifactStore, HarnessLineage, SequenceTheorems, TLAPS

-----------------------------------------------------------------------------
(* The artifact store.                                                     *)

LEMMA StoreInit == Init => StoreInv
  BY DEF Init, StoreInv, TypeOK, ContentInv, PublishInv, CollectInv,
         ReferencesDurable, Entries, Stages, GcStages, Present

LEMMA StoreType == TypeOK /\ [Next]_vars => TypeOK'
<1> SUFFICES ASSUME TypeOK, [Next]_vars PROVE TypeOK'
  OBVIOUS
<1> USE DEF TypeOK, Entries, Stages, GcStages, disk, publishing, collection
<1>1. CASE BeginDrive
  BY <1>1 DEF BeginDrive
<1>2. CASE EndDrive
  BY <1>2 DEF EndDrive
<1>3. ASSUME NEW p \in Publishers, Publish(p) PROVE TypeOK'
  <2>1. CASE WriteTemporary(p)
    BY <2>1 DEF WriteTemporary
  <2>2. CASE SyncFile(p)
    BY <2>2 DEF SyncFile
  <2>3. CASE Link(p)
    BY <2>3 DEF Link
  <2>4. CASE LinkExisting(p)
    BY <2>4 DEF LinkExisting
  <2>5. CASE SyncDirectories(p)
    BY <2>5 DEF SyncDirectories
  <2>6. CASE PutFails(p)
    BY <2>6 DEF PutFails
  <2>7. CASE CommitReference(p)
    BY <2>7 DEF CommitReference
  <2> QED BY <1>3, <2>1, <2>2, <2>3, <2>4, <2>5, <2>6, <2>7 DEF Publish
<1>4. CASE Collect
  <2>1. CASE PlanRoots
    BY <2>1 DEF PlanRoots
  <2>2. CASE PlanInventory
    BY <2>2 DEF PlanInventory, NoPlan, Inventory
  <2>3. CASE ApplyBegin
    BY <2>3 DEF ApplyBegin, NoPlan, Inventory
  <2>4. CASE Remove
    BY <2>4 DEF Remove, NoPlan
  <2>5. CASE SyncRemoval
    BY <2>5 DEF SyncRemoval
  <2>6. CASE EndCollection
    BY <2>6 DEF EndCollection, NoPlan
  <2> QED BY <1>4, <2>1, <2>2, <2>3, <2>4, <2>5, <2>6 DEF Collect
<1>5. CASE ProcessCrash
  BY <1>5 DEF ProcessCrash, Forget, NoPlan
<1>6. CASE PowerLoss
  <2>1. entry' \in [Ids -> Entries]
    BY <1>6 DEF PowerLoss
  <2>2. bytes' \in [Ids -> {"none", "cached", "synced", "torn"}]
    BY <1>6 DEF PowerLoss
  <2> QED BY <1>6, <2>1, <2>2 DEF PowerLoss, Forget, NoPlan
<1>7. CASE UNCHANGED vars
  BY <1>7 DEF vars
<1> QED BY <1>1, <1>2, <1>3, <1>4, <1>5, <1>6, <1>7 DEF Next

(* Every reachable state of the store is well typed.                       *)
THEOREM StoreTypeCorrect == Spec => []TypeOK
<1>1. Init => TypeOK
  BY StoreInit DEF StoreInv
<1> QED BY <1>1, StoreType, PTL DEF Spec

-----------------------------------------------------------------------------
(* Publication keeps the invariant: no collection runs beside it, and it   *)
(* removes nothing.                                                        *)
LEMMA PublishKeeps ==
  ASSUME Exclusive, StoreInv, NEW p \in Publishers, Publish(p)
  PROVE  (ContentInv /\ PublishInv /\ CollectInv /\ ReferencesDurable)'
<1> USE DEF StoreInv, TypeOK, ContentInv, PublishInv, CollectInv, ReferencesDurable,
            Entries, Stages, Present, disk, publishing, collection
<1>1. CASE WriteTemporary(p)
  BY <1>1 DEF WriteTemporary
<1>2. CASE SyncFile(p)
  BY <1>2 DEF SyncFile
<1>3. CASE Link(p)
  BY <1>3 DEF Link
<1>4. CASE LinkExisting(p)
  BY <1>4 DEF LinkExisting, Verifies
<1>5. CASE SyncDirectories(p)
  BY <1>5 DEF SyncDirectories, Verifies
<1>6. CASE PutFails(p)
  BY <1>6 DEF PutFails
<1>7. CASE CommitReference(p)
  BY <1>7 DEF CommitReference
<1> QED BY <1>1, <1>2, <1>3, <1>4, <1>5, <1>6, <1>7 DEF Publish

(* A collection removes what its plan holds, and its plan holds no object  *)
(* the session refers to, because nobody commits while it runs.            *)
LEMMA CollectKeeps ==
  ASSUME Exclusive, StoreInv, Collect
  PROVE  (ContentInv /\ PublishInv /\ CollectInv /\ ReferencesDurable)'
<1> USE DEF StoreInv, TypeOK, ContentInv, PublishInv, CollectInv, ReferencesDurable,
            Entries, Stages, GcStages, Present, Inventory, disk, publishing, collection
<1>1. CASE PlanRoots
  BY <1>1 DEF PlanRoots, MayCollect
<1>2. CASE PlanInventory
  BY <1>2 DEF PlanInventory, NoPlan
<1>3. CASE ApplyBegin
  BY <1>3 DEF ApplyBegin, NoPlan
<1>4. CASE Remove
  <2>1. PICK i \in left :
          \/ /\ entry' = [entry EXCEPT ![i] = "unlinked"]
             /\ left' = left \ {i} /\ gc' = "syncing"
             /\ UNCHANGED <<reach, unref, seen>>
             /\ Verifies(i)
          \/ gc' = "none" /\ NoPlan /\ UNCHANGED entry
    BY <1>4 DEF Remove
  <2>2. i \notin refs /\ i \in Ids /\ ~active /\ gc = "applying"
    BY <1>4 DEF Remove
  <2> QED BY <1>4, <2>1, <2>2 DEF Remove, NoPlan, Verifies
<1>5. CASE SyncRemoval
  BY <1>5 DEF SyncRemoval, JustRemoved
<1>6. CASE EndCollection
  BY <1>6 DEF EndCollection, NoPlan
<1> QED BY <1>1, <1>2, <1>3, <1>4, <1>5, <1>6 DEF Collect

LEMMA StoreStep == ASSUME Exclusive PROVE StoreInv /\ [Next]_vars => StoreInv'
<1> SUFFICES ASSUME StoreInv, [Next]_vars PROVE StoreInv'
  OBVIOUS
<1>t. TypeOK'
  BY StoreType DEF StoreInv
<1> SUFFICES (ContentInv /\ PublishInv /\ CollectInv /\ ReferencesDurable)'
  BY <1>t DEF StoreInv
<1>1. ASSUME NEW p \in Publishers, Publish(p)
      PROVE  (ContentInv /\ PublishInv /\ CollectInv /\ ReferencesDurable)'
  BY <1>1, PublishKeeps
<1>2. CASE Collect
  BY <1>2, CollectKeeps
<1> USE DEF StoreInv, TypeOK, ContentInv, PublishInv, CollectInv, ReferencesDurable,
            Entries, Stages, Present, Inventory, disk, publishing, collection
<1>3. CASE BeginDrive
  BY <1>3 DEF BeginDrive
<1>4. CASE EndDrive
  BY <1>4 DEF EndDrive
<1>5. CASE ProcessCrash
  BY <1>5 DEF ProcessCrash, Forget, NoPlan
<1>6. CASE PowerLoss
  BY <1>6 DEF PowerLoss, Forget, NoPlan
<1>7. CASE UNCHANGED vars
  BY <1>7 DEF vars
<1> QED BY <1>1, <1>2, <1>3, <1>4, <1>5, <1>6, <1>7 DEF Next

(* With collection under the writer lock, a committed reference always     *)
(* names a complete, durable object, through any crashes, shared           *)
(* publications and collections.                                           *)
THEOREM ReferencesStay == ASSUME Exclusive PROVE Spec => []ReferencesDurable
<1>1. StoreInv => ReferencesDurable
  BY DEF StoreInv
<1> QED BY <1>1, StoreInit, StoreStep, PTL DEF Spec

(* A collection under the writer lock that reports success has left        *)
(* exactly the referenced objects.                                         *)
THEOREM CollectsOrphans == ASSUME Exclusive PROVE Spec => []CollectionExact
<1>1. StoreInv => CollectionExact
  BY DEF StoreInv, CollectInv, CollectionExact
<1> QED BY <1>1, StoreInit, StoreStep, PTL DEF Spec

-----------------------------------------------------------------------------
(* The harness lineage: the inductive invariant.                           *)

(* A repository, or the catalog of one, can be followed: what a revision   *)
(* or a candidate refers to is in it.                                      *)
Closed(k) ==
  /\ \A r \in k.revs : SnapshotOf(r) \in k.snaps /\ Ancestors(r) \subseteq k.revs
  /\ \A c \in k.cands : c.parent \in k.revs /\ c.snap \in k.snaps

(* The repository of a running process has everything its last catalog     *)
(* names, and the store has the sources of both.                           *)
SourceInv ==
  /\ Closed(catalog) /\ Closed(repo)
  /\ catalog.snaps \subseteq sources /\ repo.snaps \subseteq sources
  /\ up => /\ catalog.snaps \subseteq repo.snaps /\ catalog.revs \subseteq repo.revs
           /\ catalog.cands \subseteq repo.cands
  /\ ~up => repo = Empty

(* What a lane's branch and the stage of its tool call or activation refer *)
(* to has got as far as that stage needs.                                  *)
LaneInv(l) ==
  /\ branch[l].rev \in catalog.revs /\ branch[l].requests \subseteq catalog.cands
  /\ \A c, d \in branch[l].requests : c = d
  /\ branch[l].entered \subseteq branch[l].requests
  /\ stage[l].pc = "staged" => stage[l].cand \in repo.cands
  /\ stage[l].pc = "persisted" => stage[l].cand \in catalog.cands
  /\ stage[l].pc \in {"closed", "derived", "catalogued"} => Pending(l)
  /\ stage[l].pc = "derived" => Child(Unresolved(l)) \in repo.revs
  /\ stage[l].pc = "catalogued" => Child(Unresolved(l)) \in catalog.revs
  /\ stage[l].pc = "idle" <=> ~branch[l].open
  /\ stage[l].pc \in {"staged", "persisted", "derived", "catalogued"} => up

HarnessInv == HarnessTypeOK /\ SourceInv /\ \A l \in HarnessLanes : LaneInv(l)

-----------------------------------------------------------------------------
(* Revisions and candidates.                                               *)

(* A candidate's revision adds its snapshot to the line of its parent.     *)
LEMMA ChildIs ==
  ASSUME NEW c \in CandidateType
  PROVE  /\ Child(c) \in Revision
         /\ SnapshotOf(Child(c)) = c.snap
         /\ Ancestors(Child(c)) \subseteq Ancestors(c.parent) \cup {c.parent}
<1> DEFINE e == [snap |-> c.snap, call |-> c.call]
           p == c.parent
<1>1. p \in Seq(Change) /\ p # <<>> /\ e \in Change
  BY DEF CandidateType, Revision, Change
<1>2. Child(c) = Append(p, e) /\ e.snap = c.snap
  BY DEF Child
<1> HIDE DEF e, p
<1>3. /\ Append(p, e) \in Seq(Change) /\ Append(p, e) # <<>>
      /\ Len(Append(p, e)) = Len(p) + 1 /\ Append(p, e)[Len(p) + 1] = e
      /\ \A i \in 1..Len(p) : Append(p, e)[i] = p[i]
  BY <1>1, AppendProperties
<1>4. SnapshotOf(Child(c)) = c.snap
  BY <1>2, <1>3 DEF SnapshotOf
<1>5. ASSUME NEW n \in 1..Len(p) PROVE SubSeq(Append(p, e), 1, n) = SubSeq(p, 1, n)
  BY <1>1, <1>3
<1>6. SubSeq(p, 1, Len(p)) = p
  BY <1>1
<1>7. ASSUME NEW n \in 1..(Len(Append(p, e)) - 1)
      PROVE  SubSeq(Append(p, e), 1, n) \in Ancestors(p) \cup {p}
  <2>1. n \in 1..Len(p) /\ SubSeq(Append(p, e), 1, n) = SubSeq(p, 1, n)
    BY <1>1, <1>3, <1>5
  <2>2. CASE n = Len(p)
    BY <1>6, <2>1, <2>2
  <2>3. CASE n # Len(p)
    <3>1. n \in 1..(Len(p) - 1)
      BY <1>1, <2>1, <2>3
    <3> QED BY <2>1, <3>1 DEF Ancestors
  <2> QED BY <2>2, <2>3
<1>8. Ancestors(Child(c)) \subseteq Ancestors(p) \cup {p}
  BY <1>2, <1>7 DEF Ancestors
<1> QED BY <1>2, <1>3, <1>4, <1>8 DEF Revision, p

LEMMA InitialIs ==
  Initial \in Revision /\ SnapshotOf(Initial) = "base" /\ Ancestors(Initial) = {}
<1>1. [snap |-> "base", call |-> 0] \in Change
  BY HarnessAssumption DEF Change
<1>2. Initial \in Seq(Change) /\ Len(Initial) = 1 /\ Initial[1].snap = "base"
  BY <1>1 DEF Initial
<1> HIDE DEF Initial
<1>3. Initial \in Revision
  <2>1. Len(Initial) # Len(<<>>)
    BY <1>2
  <2> QED BY <1>2, <2>1, Zenon DEF Revision
<1>4. SnapshotOf(Initial) = "base"
  BY <1>2 DEF SnapshotOf
<1>5. Ancestors(Initial) = {}
  BY <1>2 DEF Ancestors
<1> QED BY <1>3, <1>4, <1>5

(* An activation that is owed is one of the lane's requests.               *)
LEMMA UnresolvedIs ==
  ASSUME HarnessTypeOK, NEW l \in HarnessLanes, Pending(l),
         branch[l].entered \subseteq branch[l].requests
  PROVE  /\ Unresolved(l) \in branch[l].requests \ branch[l].entered
         /\ Unresolved(l) \in CandidateType
<1>1. branch[l].requests \ branch[l].entered # {}
  BY DEF Pending
<1>2. Unresolved(l) \in branch[l].requests \ branch[l].entered
  BY <1>1 DEF Unresolved
<1> QED BY <1>2 DEF HarnessTypeOK, BranchType

LEMMA RepositoryFields ==
  ASSUME NEW k \in Repository
  PROVE  /\ k.snaps \subseteq Trees \cup {"base"} /\ k.trees \subseteq Trees \cup {"base"}
         /\ k.revs \subseteq Revision /\ k.cands \subseteq CandidateType
  BY DEF Repository

(* What a lane's own step changes of its branch and stage.                 *)
LEMMA EmptyRepository == Empty \in Repository /\ Closed(Empty) /\ Empty.snaps = {}
  BY DEF Empty, Repository, Closed

LEMMA HarnessInitInv == HarnessInit => HarnessInv
<1> SUFFICES ASSUME HarnessInit PROVE HarnessInv
  OBVIOUS
<1>1. /\ Seeded \in Repository /\ Seeded.snaps = {"base"} /\ Seeded.revs = {Initial}
      /\ Seeded.cands = {}
  BY InitialIs DEF Seeded, Repository
<1>2. Closed(Seeded)
  BY <1>1, InitialIs DEF Closed
<1>3. HarnessTypeOK
  BY <1>1, InitialIs, HarnessAssumption DEF HarnessInit, HarnessTypeOK, BranchType, StageType
<1>4. SourceInv
  BY <1>1, <1>2 DEF HarnessInit, SourceInv
<1>5. \A l \in HarnessLanes : LaneInv(l)
  BY <1>1 DEF HarnessInit, LaneInv, Pending
<1> QED BY <1>3, <1>4, <1>5 DEF HarnessInv

-----------------------------------------------------------------------------
(* What the others keep.                                                   *)

(* A lane that does not move keeps its part while the repository and the   *)
(* catalog only grow.                                                      *)
LEMMA LaneKeeps ==
  ASSUME NEW l \in HarnessLanes, LaneInv(l), branch'[l] = branch[l], stage'[l] = stage[l],
         catalog.revs \subseteq catalog'.revs, catalog.cands \subseteq catalog'.cands,
         repo.revs \subseteq repo'.revs, repo.cands \subseteq repo'.cands, up => up'
  PROVE  LaneInv(l)'
  BY DEF LaneInv, Pending, Unresolved

(* The type of a lane's stage and branch after a step of another stage.    *)
LEMMA GoIs ==
  ASSUME HarnessTypeOK, NEW l \in HarnessLanes,
         NEW p \in {"idle", "inside", "between", "epoch", "staged", "persisted", "terminated",
                    "closed", "derived", "catalogued", "switched"}, Go(l, p)
  PROVE  /\ stage' \in [HarnessLanes -> StageType]
         /\ stage'[l].pc = p /\ stage'[l].cand = stage[l].cand
         /\ \A m \in HarnessLanes : m # l => stage'[m] = stage[m]
  BY DEF Go, HarnessTypeOK, StageType

LEMMA BranchIs ==
  ASSUME HarnessTypeOK, NEW l \in HarnessLanes, NEW b \in BranchType,
         branch' = [branch EXCEPT ![l] = b]
  PROVE  /\ branch' \in [HarnessLanes -> BranchType] /\ branch'[l] = b
         /\ \A m \in HarnessLanes : m # l => branch'[m] = branch[m]
  BY DEF HarnessTypeOK

(* A step of one lane that leaves repository, catalog and store alone.     *)
LEMMA LaneStep ==
  ASSUME HarnessInv, NEW l \in HarnessLanes, UNCHANGED <<catalog, sources, up, repo>>,
         branch' \in [HarnessLanes -> BranchType], stage' \in [HarnessLanes -> StageType],
         harnessCount' \in [calls : 0..MaxHarnessCalls, ops : Nat, crashes : Nat],
         \A m \in HarnessLanes : m # l => branch'[m] = branch[m] /\ stage'[m] = stage[m],
         LaneInv(l)'
  PROVE  HarnessInv'
<1>1. HarnessTypeOK'
  BY DEF HarnessInv, HarnessTypeOK
<1>2. SourceInv'
  BY DEF HarnessInv, SourceInv, Closed
<1>3. ASSUME NEW m \in HarnessLanes PROVE LaneInv(m)'
  <2>1. CASE m = l
    BY <2>1
  <2>2. CASE m # l
    BY <2>2, LaneKeeps DEF HarnessInv
  <2> QED BY <2>1, <2>2
<1> QED BY <1>1, <1>2, <1>3 DEF HarnessInv

(* A step of one lane that only moves its stage.                           *)
LEMMA StageStep ==
  ASSUME HarnessInv, NEW l \in HarnessLanes,
         NEW p \in {"epoch", "closed", "switched"}, Go(l, p),
         UNCHANGED <<catalog, sources, branch, up, repo, harnessCount>>,
         stage[l].pc # "idle", p = "closed" => Pending(l)
  PROVE  HarnessInv'
<1>1. /\ stage' \in [HarnessLanes -> StageType] /\ stage'[l].pc = p
      /\ \A m \in HarnessLanes : m # l => stage'[m] = stage[m]
  BY GoIs DEF HarnessInv
<1>2. LaneInv(l)'
  BY <1>1 DEF HarnessInv, LaneInv, Pending
<1> QED BY <1>1, <1>2, LaneStep DEF HarnessInv, HarnessTypeOK

-----------------------------------------------------------------------------
(* The operations and their epochs.                                        *)

LEMMA BeginOperationInv ==
  ASSUME HarnessInv, NEW l \in HarnessLanes, BeginOperation(l) PROVE HarnessInv'
<1>1. /\ stage' \in [HarnessLanes -> StageType] /\ stage'[l].pc = "epoch"
      /\ \A m \in HarnessLanes : m # l => stage'[m] = stage[m]
  BY GoIs DEF HarnessInv, BeginOperation
<1>2. [branch[l] EXCEPT !.open = TRUE] \in BranchType
  BY DEF HarnessInv, HarnessTypeOK, BranchType
<1>3. /\ branch' \in [HarnessLanes -> BranchType]
      /\ branch'[l] = [branch[l] EXCEPT !.open = TRUE]
      /\ \A m \in HarnessLanes : m # l => branch'[m] = branch[m]
  BY <1>2, BranchIs DEF HarnessInv, BeginOperation
<1>4. /\ branch'[l].rev = branch[l].rev /\ branch'[l].requests = branch[l].requests
      /\ branch'[l].entered = branch[l].entered /\ branch'[l].open
  BY <1>3 DEF HarnessInv, HarnessTypeOK, BranchType
<1>5. LaneInv(l)'
  BY <1>1, <1>4 DEF HarnessInv, LaneInv, BeginOperation
<1>6. harnessCount' \in [calls : 0..MaxHarnessCalls, ops : Nat, crashes : Nat]
  BY DEF HarnessInv, HarnessTypeOK, BeginOperation
<1> QED BY <1>1, <1>3, <1>5, <1>6, LaneStep DEF BeginOperation

LEMMA EndOperationInv ==
  ASSUME HarnessInv, NEW l \in HarnessLanes, EndOperation(l) PROVE HarnessInv'
<1>1. /\ stage' \in [HarnessLanes -> StageType] /\ stage'[l].pc = "idle"
      /\ \A m \in HarnessLanes : m # l => stage'[m] = stage[m]
  BY GoIs DEF HarnessInv, EndOperation
<1>2. /\ Idle(branch[l]) \in BranchType /\ Idle(branch[l]).rev = branch[l].rev
      /\ Idle(branch[l]).requests = {} /\ Idle(branch[l]).entered = {}
      /\ Idle(branch[l]).open = FALSE
  BY DEF HarnessInv, HarnessTypeOK, BranchType, Idle
<1>3. /\ branch' \in [HarnessLanes -> BranchType] /\ branch'[l] = Idle(branch[l])
      /\ \A m \in HarnessLanes : m # l => branch'[m] = branch[m]
  BY <1>2, BranchIs DEF HarnessInv, EndOperation
<1>4. LaneInv(l)'
  BY <1>1, <1>2, <1>3 DEF HarnessInv, LaneInv, EndOperation
<1> QED BY <1>1, <1>3, <1>4, LaneStep DEF EndOperation, HarnessInv, HarnessTypeOK

LEMMA ScheduleInv ==
  ASSUME HarnessInv, NEW l \in HarnessLanes, Schedule(l) PROVE HarnessInv'
<1>1. CASE Schedulable(l) /\ Go(l, "terminated")
           /\ branch' = [branch EXCEPT ![l].requests = @ \cup {stage[l].cand}]
  <2>1. /\ stage' \in [HarnessLanes -> StageType] /\ stage'[l].pc = "terminated"
        /\ \A m \in HarnessLanes : m # l => stage'[m] = stage[m]
    BY <1>1, GoIs DEF HarnessInv
  <2>2. stage[l].cand \in catalog.cands /\ branch[l].requests = {}
    BY <1>1 DEF HarnessInv, LaneInv, Schedule, Schedulable
  <2>3. stage[l].cand \in CandidateType
    BY <2>2, RepositoryFields DEF HarnessInv, HarnessTypeOK
  <2>4. [branch[l] EXCEPT !.requests = {stage[l].cand}] \in BranchType
    BY <2>3 DEF HarnessInv, HarnessTypeOK, BranchType
  <2>5. branch' = [branch EXCEPT ![l] = [branch[l] EXCEPT !.requests = {stage[l].cand}]]
    BY <1>1, <2>2 DEF HarnessInv, HarnessTypeOK
  <2>6. /\ branch' \in [HarnessLanes -> BranchType]
        /\ branch'[l] = [branch[l] EXCEPT !.requests = {stage[l].cand}]
        /\ \A m \in HarnessLanes : m # l => branch'[m] = branch[m]
    BY <2>4, <2>5, BranchIs DEF HarnessInv
  <2>7. /\ branch'[l].rev = branch[l].rev /\ branch'[l].requests = {stage[l].cand}
        /\ branch'[l].entered = branch[l].entered /\ branch'[l].open = branch[l].open
    BY <2>6 DEF HarnessInv, HarnessTypeOK, BranchType
  <2>8. LaneInv(l)'
    BY <2>1, <2>2, <2>7 DEF HarnessInv, LaneInv, Schedule
  <2> QED BY <2>1, <2>6, <2>8, LaneStep DEF Schedule, HarnessInv, HarnessTypeOK
<1>2. CASE Go(l, "epoch") /\ UNCHANGED branch
  BY <1>2, StageStep DEF Schedule
<1> QED BY <1>1, <1>2 DEF Schedule

LEMMA CloseEpochInv ==
  ASSUME HarnessInv, NEW l \in HarnessLanes, CloseEpoch(l) PROVE HarnessInv'
<1>1. /\ stage' \in [HarnessLanes -> StageType] /\ stage'[l].pc = "closed"
      /\ \A m \in HarnessLanes : m # l => stage'[m] = stage[m]
  BY GoIs DEF HarnessInv, CloseEpoch
<1>2. [branch[l] EXCEPT !.rollovers = @ + 1] \in BranchType
  BY DEF HarnessInv, HarnessTypeOK, BranchType
<1>3. /\ branch' \in [HarnessLanes -> BranchType]
      /\ branch'[l] = [branch[l] EXCEPT !.rollovers = @ + 1]
      /\ \A m \in HarnessLanes : m # l => branch'[m] = branch[m]
  BY <1>2, BranchIs DEF HarnessInv, CloseEpoch
<1>4. /\ branch'[l].rev = branch[l].rev /\ branch'[l].requests = branch[l].requests
      /\ branch'[l].entered = branch[l].entered /\ branch'[l].open = branch[l].open
  BY <1>3 DEF HarnessInv, HarnessTypeOK, BranchType
<1>5. LaneInv(l)'
  BY <1>1, <1>4 DEF HarnessInv, LaneInv, CloseEpoch, Pending
<1> QED BY <1>1, <1>3, <1>5, LaneStep DEF CloseEpoch, HarnessInv, HarnessTypeOK

LEMMA CommitRevisionInv ==
  ASSUME HarnessInv, NEW l \in HarnessLanes, CommitRevision(l) PROVE HarnessInv'
<1> DEFINE c == Unresolved(l)
<1>1. /\ stage' \in [HarnessLanes -> StageType] /\ stage'[l].pc = "switched"
      /\ \A m \in HarnessLanes : m # l => stage'[m] = stage[m]
  BY GoIs DEF HarnessInv, CommitRevision
<1>2. c \in branch[l].requests \ branch[l].entered /\ c \in CandidateType
      /\ Child(c) \in catalog.revs /\ Child(c) \in Revision
  BY UnresolvedIs, ChildIs DEF HarnessInv, LaneInv, CommitRevision
<1>3. branch' = [branch EXCEPT ![l].rev = Child(c), ![l].entered = @ \cup {c}]
  BY DEF CommitRevision
<1> HIDE DEF c
<1>4. /\ branch' \in [HarnessLanes -> BranchType]
      /\ \A m \in HarnessLanes : m # l => branch'[m] = branch[m]
      /\ branch'[l].rev = Child(c) /\ branch'[l].requests = branch[l].requests
      /\ branch'[l].entered = branch[l].entered \cup {c} /\ branch'[l].open = branch[l].open
  BY <1>2, <1>3 DEF HarnessInv, HarnessTypeOK, BranchType
<1>5. LaneInv(l)'
  BY <1>1, <1>2, <1>4 DEF HarnessInv, LaneInv, CommitRevision
<1> QED BY <1>1, <1>4, <1>5, LaneStep DEF CommitRevision, HarnessInv, HarnessTypeOK

LEMMA ResumeStartInv ==
  ASSUME HarnessInv, NEW l \in HarnessLanes, PersistFails(l) \/ StartEpoch(l) \/ Resume(l)
  PROVE  HarnessInv'
<1>1. CASE PersistFails(l)
  BY <1>1, StageStep DEF PersistFails
<1>2. CASE StartEpoch(l)
  BY <1>2, StageStep DEF StartEpoch
<1>3. CASE Resume(l)
  BY <1>3, StageStep DEF Resume
<1> QED BY <1>1, <1>2, <1>3

-----------------------------------------------------------------------------
(* The repository grows, and is committed.                                 *)

(* A step of one lane in which the repository and the store may grow: the  *)
(* others keep what they have.                                             *)
LEMMA GrowStep ==
  ASSUME HarnessInv, NEW l \in HarnessLanes, up, UNCHANGED <<catalog, branch, up>>,
         sources \subseteq sources', sources' \in SUBSET (Trees \cup {"base"}),
         repo' \in Repository, Closed(repo'), repo'.snaps \subseteq sources',
         repo.snaps \subseteq repo'.snaps, repo.revs \subseteq repo'.revs,
         repo.cands \subseteq repo'.cands,
         stage' \in [HarnessLanes -> StageType],
         \A m \in HarnessLanes : m # l => stage'[m] = stage[m],
         harnessCount' \in [calls : 0..MaxHarnessCalls, ops : Nat, crashes : Nat],
         LaneInv(l)'
  PROVE  HarnessInv'
<1>1. HarnessTypeOK'
  BY DEF HarnessInv, HarnessTypeOK
<1>2. SourceInv'
  BY DEF HarnessInv, SourceInv, Closed
<1>3. ASSUME NEW m \in HarnessLanes PROVE LaneInv(m)'
  <2>1. CASE m = l
    BY <2>1
  <2>2. CASE m # l
    BY <2>2, LaneKeeps DEF HarnessInv
  <2> QED BY <2>1, <2>2
<1> QED BY <1>1, <1>2, <1>3 DEF HarnessInv

(* A step of one lane that commits the repository as the catalog.          *)
LEMMA CommitStep ==
  ASSUME HarnessInv, NEW l \in HarnessLanes, up, catalog' = repo,
         NEW p \in {"persisted", "catalogued"}, Go(l, p),
         UNCHANGED <<sources, branch, up, repo, harnessCount>>,
         p = "persisted" => stage[l].pc = "staged",
         p = "catalogued" => stage[l].pc = "derived"
  PROVE  HarnessInv'
<1>1. /\ stage' \in [HarnessLanes -> StageType]
      /\ stage'[l].pc = p /\ stage'[l].cand = stage[l].cand
      /\ \A m \in HarnessLanes : m # l => stage'[m] = stage[m]
  BY GoIs DEF HarnessInv
<1>2. HarnessTypeOK'
  BY <1>1 DEF HarnessInv, HarnessTypeOK
<1>3. SourceInv'
  BY DEF HarnessInv, SourceInv, Closed
<1>4. catalog.revs \subseteq catalog'.revs /\ catalog.cands \subseteq catalog'.cands
  BY DEF HarnessInv, SourceInv
<1>5. ASSUME NEW m \in HarnessLanes PROVE LaneInv(m)'
  <2>1. CASE m = l
    BY <1>1, <1>4, <2>1 DEF HarnessInv, LaneInv, Pending, Unresolved
  <2>2. CASE m # l
    BY <1>1, <1>4, <2>2, LaneKeeps DEF HarnessInv
  <2> QED BY <2>1, <2>2
<1> QED BY <1>2, <1>3, <1>5 DEF HarnessInv

(* A candidate of a lane's tool call is made from what the repository has. *)
LEMMA CandidateIs ==
  ASSUME HarnessInv, NEW l \in HarnessLanes, MutatingCall(l), NEW t \in Trees \cup {"base"}
  PROVE  /\ Candidate(l, t) \in CandidateType
         /\ Candidate(l, t).parent = branch[l].rev /\ Candidate(l, t).snap = t
         /\ branch[l].rev \in repo.revs /\ up /\ stage[l].pc = "epoch"
         /\ harnessCount' \in [calls : 0..MaxHarnessCalls, ops : Nat, crashes : Nat]
<1>1. branch[l].rev \in Revision /\ branch[l].rev \in catalog.revs /\ up /\ stage[l].pc = "epoch"
  BY DEF HarnessInv, HarnessTypeOK, BranchType, LaneInv, MutatingCall
<1>2. /\ harnessCount.calls + 1 \in 0..MaxHarnessCalls
      /\ harnessCount' \in [calls : 0..MaxHarnessCalls, ops : Nat, crashes : Nat]
  BY HarnessAssumption DEF HarnessInv, HarnessTypeOK, MutatingCall
<1>3. branch[l].rev \in repo.revs
  BY <1>1 DEF HarnessInv, SourceInv
<1> QED BY <1>1, <1>2, <1>3 DEF Candidate, CandidateType

(* The repository after a candidate is staged in it.                       *)
LEMMA StageCandidateIs ==
  ASSUME NEW r \in Repository, Closed(r), NEW c \in CandidateType,
         c.parent \in r.revs, c.snap \in r.snaps,
         NEW q, q = [r EXCEPT !.cands = @ \cup {c}]
  PROVE  /\ q \in Repository /\ Closed(q) /\ q.trees = r.trees /\ q.snaps = r.snaps
         /\ q.revs = r.revs /\ q.cands = r.cands \cup {c}
<1>1. /\ q \in Repository /\ q.trees = r.trees /\ q.snaps = r.snaps
      /\ q.revs = r.revs /\ q.cands = r.cands \cup {c}
  BY DEF Repository
<1>2. Closed(q)
  BY <1>1 DEF Closed
<1> QED BY <1>1, <1>2

LEMMA StagedLane ==
  ASSUME HarnessInv, NEW l \in HarnessLanes, stage[l].pc = "epoch", up',
         NEW c \in CandidateType, c \in repo'.cands, UNCHANGED <<branch, catalog>>,
         stage' = [stage EXCEPT ![l] = [pc |-> "staged", cand |-> c]]
  PROVE  /\ LaneInv(l)' /\ stage' \in [HarnessLanes -> StageType]
         /\ \A m \in HarnessLanes : m # l => stage'[m] = stage[m]
<1>1. [pc |-> "staged", cand |-> c] \in StageType
  BY DEF StageType
<1>2. /\ stage' \in [HarnessLanes -> StageType] /\ stage'[l].pc = "staged" /\ stage'[l].cand = c
      /\ \A m \in HarnessLanes : m # l => stage'[m] = stage[m]
  BY <1>1 DEF HarnessInv, HarnessTypeOK
<1>3. LaneInv(l)'
  BY <1>2 DEF HarnessInv, LaneInv
<1> QED BY <1>2, <1>3

LEMMA ApplySourcesInv ==
  ASSUME HarnessInv, NEW l \in HarnessLanes, NEW t \in Trees, ApplySources(l, t)
  PROVE  HarnessInv'
<1> DEFINE tree == StageTree(repo, t)
           snapshot == StageSnapshot(tree, t)
<1>1. /\ tree \in Repository /\ tree.snaps = repo.snaps /\ tree.revs = repo.revs
      /\ tree.cands = repo.cands
  BY DEF StageTree, HarnessInv, HarnessTypeOK, Repository
<1>2. /\ snapshot \in Repository /\ snapshot.snaps = repo.snaps \cup {t}
      /\ snapshot.revs = repo.revs /\ snapshot.cands = repo.cands
  BY <1>1 DEF StageSnapshot, Repository
<1>3. Closed(tree) /\ Closed(snapshot)
  BY <1>1, <1>2 DEF HarnessInv, SourceInv, Closed
<1>4. /\ MutatingCall(l) /\ sources' = sources \cup {t} /\ UNCHANGED <<catalog, branch, up>>
      /\ \/ repo' = tree /\ UNCHANGED stage
         \/ repo' = snapshot /\ UNCHANGED stage
         \/ StageCandidate(l, snapshot, Candidate(l, t))
  BY DEF ApplySources
<1> HIDE DEF tree, snapshot
<1>5. /\ sources \subseteq sources' /\ sources' \in SUBSET (Trees \cup {"base"})
      /\ repo.snaps \subseteq sources /\ stage \in [HarnessLanes -> StageType]
  BY <1>4 DEF HarnessInv, HarnessTypeOK, SourceInv
<1>6. /\ Candidate(l, t) \in CandidateType
      /\ Candidate(l, t).parent = branch[l].rev /\ Candidate(l, t).snap = t
      /\ branch[l].rev \in repo.revs /\ up /\ stage[l].pc = "epoch"
      /\ harnessCount' \in [calls : 0..MaxHarnessCalls, ops : Nat, crashes : Nat]
  BY <1>4, CandidateIs
<1>7. CASE repo' \in {tree, snapshot} /\ UNCHANGED stage
  <2>1. LaneInv(l)'
    BY <1>1, <1>2, <1>4, <1>6, <1>7, LaneKeeps DEF HarnessInv
  <2> QED BY <1>1, <1>2, <1>3, <1>4, <1>5, <1>6, <1>7, <2>1, GrowStep
<1>8. CASE StageCandidate(l, snapshot, Candidate(l, t))
  <2> DEFINE c == Candidate(l, t)
  <2>1. /\ repo' = [snapshot EXCEPT !.cands = @ \cup {c}]
        /\ stage' = [stage EXCEPT ![l] = [pc |-> "staged", cand |-> c]]
    BY <1>8 DEF StageCandidate
  <2>2. c \in CandidateType /\ c.parent \in snapshot.revs /\ c.snap \in snapshot.snaps
    BY <1>2, <1>6
  <2> HIDE DEF c
  <2>3. /\ repo' \in Repository /\ Closed(repo') /\ repo'.snaps = snapshot.snaps
        /\ repo'.revs = snapshot.revs /\ repo'.cands = snapshot.cands \cup {c}
    BY <1>2, <1>3, <2>1, <2>2, StageCandidateIs
  <2>4. /\ LaneInv(l)' /\ stage' \in [HarnessLanes -> StageType]
        /\ \A m \in HarnessLanes : m # l => stage'[m] = stage[m]
    BY <1>4, <1>6, <2>1, <2>2, <2>3, StagedLane
  <2> QED BY <1>2, <1>4, <1>5, <1>6, <2>3, <2>4, GrowStep
<1> QED BY <1>4, <1>7, <1>8

LEMMA StageRollbackInv ==
  ASSUME HarnessInv, NEW l \in HarnessLanes, NEW target \in Ancestors(branch[l].rev),
         StageRollback(l, target)
  PROVE  HarnessInv'
<1> DEFINE t == SnapshotOf(target)
           c == Candidate(l, t)
<1>0. MutatingCall(l) /\ StageCandidate(l, repo, c) /\ UNCHANGED <<catalog, sources, branch, up>>
  BY DEF StageRollback
<1>1. target \in catalog.revs /\ t \in catalog.snaps /\ up
  BY <1>0 DEF HarnessInv, LaneInv, SourceInv, Closed, MutatingCall
<1>2. t \in repo.snaps /\ t \in Trees \cup {"base"}
  BY <1>1, RepositoryFields DEF HarnessInv, SourceInv, HarnessTypeOK
<1> HIDE DEF t
<1>3. /\ c \in CandidateType /\ c.parent = branch[l].rev /\ c.snap = t
      /\ branch[l].rev \in repo.revs /\ stage[l].pc = "epoch"
      /\ harnessCount' \in [calls : 0..MaxHarnessCalls, ops : Nat, crashes : Nat]
  BY <1>0, <1>2, CandidateIs
<1>4. /\ repo' = [repo EXCEPT !.cands = @ \cup {c}]
      /\ stage' = [stage EXCEPT ![l] = [pc |-> "staged", cand |-> c]]
  BY <1>0 DEF StageCandidate
<1> HIDE DEF c
<1>5. /\ repo' \in Repository /\ Closed(repo') /\ repo'.snaps = repo.snaps
      /\ repo'.revs = repo.revs /\ repo'.cands = repo.cands \cup {c}
  BY <1>2, <1>3, <1>4, StageCandidateIs DEF HarnessInv, HarnessTypeOK, SourceInv
<1>6. /\ LaneInv(l)' /\ stage' \in [HarnessLanes -> StageType]
      /\ \A m \in HarnessLanes : m # l => stage'[m] = stage[m]
  BY <1>0, <1>1, <1>3, <1>4, <1>5, StagedLane
<1>7. repo'.snaps \subseteq sources' /\ sources' \in SUBSET (Trees \cup {"base"})
  BY <1>0, <1>5 DEF HarnessInv, SourceInv, HarnessTypeOK
<1> QED BY <1>0, <1>1, <1>3, <1>5, <1>6, <1>7, GrowStep

LEMMA ActivateCandidateInv ==
  ASSUME HarnessInv, NEW l \in HarnessLanes, ActivateCandidate(l) PROVE HarnessInv'
<1> DEFINE c == Unresolved(l)
<1>0. /\ up /\ UNCHANGED <<catalog, sources, branch, up, harnessCount>> /\ Pending(l)
      /\ c \in repo.cands /\ Go(l, "derived") /\ stage[l].pc = "closed"
      /\ repo' = [repo EXCEPT !.revs = @ \cup {Child(c)}]
  BY DEF ActivateCandidate, MayActivate, HarnessInv, LaneInv
<1>1. c \in CandidateType /\ c.parent \in repo.revs /\ c.snap \in repo.snaps
  BY <1>0, RepositoryFields DEF HarnessInv, HarnessTypeOK, SourceInv, Closed
<1> HIDE DEF c
<1>2. /\ Child(c) \in Revision /\ SnapshotOf(Child(c)) = c.snap
      /\ Ancestors(Child(c)) \subseteq Ancestors(c.parent) \cup {c.parent}
  BY <1>1, ChildIs
<1>3. /\ repo' \in Repository /\ repo'.snaps = repo.snaps /\ repo'.cands = repo.cands
      /\ repo'.revs = repo.revs \cup {Child(c)}
  BY <1>0, <1>2 DEF HarnessInv, HarnessTypeOK, Repository
<1>4. Closed(repo')
  BY <1>1, <1>2, <1>3 DEF HarnessInv, SourceInv, Closed
<1>5. /\ stage' \in [HarnessLanes -> StageType] /\ stage'[l].pc = "derived"
      /\ \A m \in HarnessLanes : m # l => stage'[m] = stage[m]
  BY <1>0, GoIs DEF HarnessInv
<1>6. Unresolved(l)' = c /\ Pending(l)'
  BY <1>0 DEF Unresolved, Pending, c
<1>7. LaneInv(l)'
  BY <1>0, <1>3, <1>5, <1>6 DEF HarnessInv, LaneInv
<1> QED BY <1>0, <1>3, <1>4, <1>5, <1>7, GrowStep DEF HarnessInv, SourceInv, HarnessTypeOK

LEMMA PersistInv ==
  ASSUME HarnessInv, NEW l \in HarnessLanes, PersistStaged(l) \/ CommitCatalog(l)
  PROVE  HarnessInv'
<1>1. CASE PersistStaged(l)
  BY <1>1, CommitStep DEF PersistStaged
<1>2. CASE CommitCatalog(l)
  BY <1>2, CommitStep DEF CommitCatalog
<1> QED BY <1>1, <1>2

-----------------------------------------------------------------------------
(* The process ends, collects, and is started again.                       *)

LEMMA HarnessCrashInv == HarnessInv /\ HarnessCrash => HarnessInv'
<1> SUFFICES ASSUME HarnessInv, HarnessCrash PROVE HarnessInv'
  OBVIOUS
<1>1. /\ up' = FALSE /\ repo' = Empty /\ UNCHANGED <<catalog, sources, branch>>
      /\ stage' = [l \in HarnessLanes |->
                     [pc |-> Interrupted(stage[l].pc), cand |-> NoCandidate]]
  BY DEF HarnessCrash
<1>2. \A l \in HarnessLanes :
        /\ Interrupted(stage[l].pc) \in {"idle", "inside", "between"}
        /\ Interrupted(stage[l].pc) = "idle" <=> stage[l].pc = "idle"
  BY DEF Interrupted, HarnessInv, HarnessTypeOK, StageType
<1>3. /\ stage' \in [HarnessLanes -> StageType]
      /\ \A l \in HarnessLanes : stage'[l].pc = Interrupted(stage[l].pc)
  BY <1>1, <1>2 DEF StageType
<1>4. harnessCount' \in [calls : 0..MaxHarnessCalls, ops : Nat, crashes : Nat]
  BY DEF HarnessInv, HarnessTypeOK, HarnessCrash
<1>5. HarnessTypeOK'
  BY <1>1, <1>3, <1>4, EmptyRepository DEF HarnessInv, HarnessTypeOK
<1>6. SourceInv'
  BY <1>1, EmptyRepository DEF HarnessInv, SourceInv, Closed
<1>7. \A l \in HarnessLanes : LaneInv(l)'
  BY <1>1, <1>2, <1>3 DEF HarnessInv, LaneInv
<1> QED BY <1>5, <1>6, <1>7 DEF HarnessInv

LEMMA ReopenInv == HarnessInv /\ Reopen => HarnessInv'
<1> SUFFICES ASSUME HarnessInv, Reopen PROVE HarnessInv'
  OBVIOUS
<1>1. ~up /\ up' = TRUE /\ repo' = catalog
      /\ UNCHANGED <<catalog, sources, branch, stage, harnessCount>>
  BY DEF Reopen
<1>2. HarnessTypeOK' /\ SourceInv'
  BY <1>1 DEF HarnessInv, HarnessTypeOK, SourceInv, Closed
<1>3. \A l \in HarnessLanes : LaneInv(l)'
  BY <1>1 DEF HarnessInv, LaneInv, Pending
<1> QED BY <1>2, <1>3 DEF HarnessInv

LEMMA CollectSourcesInv == HarnessInv /\ CollectSources => HarnessInv'
<1> SUFFICES ASSUME HarnessInv, CollectSources PROVE HarnessInv'
  OBVIOUS
<1>1. ~up /\ sources' = sources \cap catalog.snaps
      /\ UNCHANGED <<catalog, branch, up, repo, stage, harnessCount>>
  BY DEF CollectSources, ArtifactRoots
<1>2. HarnessTypeOK'
  BY <1>1 DEF HarnessInv, HarnessTypeOK
<1>3. SourceInv'
  BY <1>1, EmptyRepository DEF HarnessInv, SourceInv, Closed
<1>4. \A l \in HarnessLanes : LaneInv(l)'
  BY <1>1, LaneKeeps DEF HarnessInv
<1> QED BY <1>2, <1>3, <1>4 DEF HarnessInv

LEMMA HarnessStepInv == HarnessInv /\ [HarnessNext]_harnessVars => HarnessInv'
<1> SUFFICES ASSUME HarnessInv, [HarnessNext]_harnessVars PROVE HarnessInv'
  OBVIOUS
<1>1. ASSUME NEW l \in HarnessLanes,
             \/ BeginOperation(l) \/ EndOperation(l)
             \/ PersistStaged(l) \/ PersistFails(l) \/ Schedule(l)
             \/ CloseEpoch(l) \/ ActivateCandidate(l) \/ CommitCatalog(l) \/ CommitRevision(l)
             \/ StartEpoch(l) \/ Resume(l)
      PROVE  HarnessInv'
  BY <1>1, BeginOperationInv, EndOperationInv, PersistInv, ScheduleInv, CloseEpochInv,
     ActivateCandidateInv, CommitRevisionInv, ResumeStartInv
<1>2. CASE UNCHANGED harnessVars
  <2>1. HarnessTypeOK' /\ SourceInv'
    BY <1>2 DEF harnessVars, HarnessInv, HarnessTypeOK, SourceInv, Closed
  <2>2. \A l \in HarnessLanes : LaneInv(l)'
    BY <1>2, LaneKeeps DEF harnessVars, HarnessInv
  <2> QED BY <2>1, <2>2 DEF HarnessInv
<1> QED
  BY <1>1, <1>2, ApplySourcesInv, StageRollbackInv, HarnessCrashInv, ReopenInv,
     CollectSourcesInv DEF HarnessNext

(* The inductive invariant of the lineage holds in every state, for any    *)
(* lanes and source trees, whenever the process ends and whatever is       *)
(* collected.                                                              *)
THEOREM LineageInvariant == HarnessSpec => []HarnessInv
  BY HarnessInitInv, HarnessStepInv, PTL DEF HarnessSpec

(* Repository, catalogs, branches and stages keep their types.             *)
THEOREM HarnessTypeCorrect == HarnessSpec => []HarnessTypeOK
<1>1. HarnessInv => HarnessTypeOK
  BY DEF HarnessInv
<1> QED BY <1>1, LineageInvariant, PTL

(* Whatever instant the process ends, and whatever other lanes stage,      *)
(* commit or fail to and the host collects, the revision of every lane,    *)
(* the line it descends from and an activation it owes can be recovered.   *)
THEOREM Recoverable == HarnessSpec => []HarnessRecoverable
<1>1. HarnessInv => HarnessRecoverable
  <2> SUFFICES ASSUME HarnessInv, NEW l \in HarnessLanes
               PROVE  Reconstructible(l) /\ OneUnresolved(l)
    BY DEF HarnessRecoverable
  <2>1. LaneInv(l) /\ SourceInv
    BY DEF HarnessInv
  <2>2. Reconstructible(l)
    BY <2>1 DEF Reconstructible, LaneInv, SourceInv, Closed
  <2>3. OneUnresolved(l)
    BY <2>1 DEF OneUnresolved, LaneInv
  <2> QED BY <2>2, <2>3
<1> QED BY <1>1, LineageInvariant, PTL
==============================================================================
