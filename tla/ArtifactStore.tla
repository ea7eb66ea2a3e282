----------------------------- MODULE ArtifactStore -----------------------------
(***************************************************************************)
(* The content-addressed objects of a session (`FileArtifactStore`), the   *)
(* commits that refer to them, and their two-phase collection.             *)
(*                                                                         *)
(* An object is named by its digest, so equal contents share one name: two *)
(* lanes, or a retry after a crash, publish the same object.  Publication  *)
(* is staged: private file, file sync, hard link, directory sync, then the *)
(* commit that refers to the object.  Private files left by a crash are    *)
(* invisible to inventory and are not kept here.  The commit is SessionLog *)
(* in strict mode: one durable step, or a failure.                         *)
(*                                                                         *)
(* A collection reads the referenced set, then the inventory, and later    *)
(* removes the difference.  It runs under the session's sole writer lock   *)
(* (JsonlSession::collect_unreferenced_artifacts, Exclusive) or beside a   *)
(* live supervisor that is idle when asked (plan_artifact_gc, then         *)
(* apply_artifact_gc).                                                     *)
(***************************************************************************)
EXTENDS Naturals

CONSTANTS
  Ids,        \* object contents, which are their names
  Publishers, \* lanes of the process that publish objects
  Exclusive   \* collection holds the writer lock; no supervisor is open

ASSUME StoreAssumption == Exclusive \in BOOLEAN

VARIABLES
  \* on disk
  entry,   \* directory entry of each object
  bytes,   \* content behind that entry
  refs,    \* objects the committed session refers to
  open,    \* the root lane has an open operation
  \* process-local
  active,  \* the root lane is being driven
  pc,      \* stage of each publication
  item,    \* object being published
  flushed, \* its private file is synchronised
  gc,      \* stage of the collection
  reach,   \* ArtifactGcPlan::reachable
  unref,   \* ArtifactGcPlan::unreferenced
  seen,    \* inventory taken by the application
  left     \* planned objects not removed yet

disk == <<entry, bytes, refs, open>>
publishing == <<pc, item, flushed>>
collection == <<gc, reach, unref, seen, left>>
vars == <<disk, active, publishing, collection>>

Entries == {"absent", "linked", "durable", "unlinked"}
Stages == {"idle", "written", "flushed", "linked", "stored"}
GcStages == {"none", "roots", "planned", "applying", "syncing", "done"}

(* What read_dir shows: an unsynchronised link is there, an unsynchronised *)
(* removal is not.                                                         *)
Present(i) == entry[i] \in {"linked", "durable"}
Inventory == {i \in Ids : Present(i)}

(* verify_existing_identity: the object is there and hashes to its name.   *)
Verifies(i) == Present(i) /\ bytes[i] # "torn"

Init ==
  /\ entry = [i \in Ids |-> "absent"] /\ bytes = [i \in Ids |-> "none"]
  /\ refs = {} /\ open = FALSE /\ active = FALSE
  /\ pc = [p \in Publishers |-> "idle"]
  /\ item \in [Publishers -> Ids]
  /\ flushed = [p \in Publishers |-> FALSE]
  /\ gc = "none" /\ reach = {} /\ unref = {} /\ seen = {} /\ left = {}

-----------------------------------------------------------------------------
(* The drive around publications.                                          *)

(* A prompt or a resume claims the root lane.  Under the sole writer lock  *)
(* of a maintenance collection there is no supervisor to drive.            *)
BeginDrive ==
  /\ ~active
  /\ Exclusive => gc = "none"
  /\ active' = TRUE /\ open' = TRUE
  /\ UNCHANGED <<entry, bytes, refs, publishing, collection>>

(* The drive ends: the operation is finished, or left open by an error.    *)
EndDrive ==
  /\ active /\ \A p \in Publishers : pc[p] = "idle"
  /\ active' = FALSE
  /\ open' \in BOOLEAN
  /\ UNCHANGED <<entry, bytes, refs, publishing, collection>>

-----------------------------------------------------------------------------
(* FileArtifactStore::put_reader.                                          *)

(* The stream is copied and hashed into a private file.                    *)
WriteTemporary(p) ==
  /\ active /\ pc[p] = "idle"
  /\ \E i \in Ids : item' = [item EXCEPT ![p] = i]
  /\ pc' = [pc EXCEPT ![p] = "written"]
  /\ flushed' = [flushed EXCEPT ![p] = FALSE]
  /\ UNCHANGED <<disk, active, collection>>

(* file.sync_all of the private file.                                      *)
SyncFile(p) ==
  /\ pc[p] = "written"
  /\ pc' = [pc EXCEPT ![p] = "flushed"]
  /\ flushed' = [flushed EXCEPT ![p] = TRUE]
  /\ UNCHANGED <<disk, active, item, collection>>

(* fs::hard_link without replacement; the private name is then removed.    *)
Link(p) ==
  LET i == item[p] IN
  /\ pc[p] = "flushed" /\ ~Present(i)
  /\ entry' = [entry EXCEPT ![i] = "linked"]
  /\ bytes' = [bytes EXCEPT ![i] = IF flushed[p] THEN "synced" ELSE "cached"]
  /\ pc' = [pc EXCEPT ![p] = "linked"]
  /\ UNCHANGED <<refs, open, active, item, flushed, collection>>

(* Mutant: an existing object is taken for a stored one.                   *)
LinkExistingReturns(p) ==
  /\ pc[p] = "flushed" /\ Present(item[p])
  /\ pc' = [pc EXCEPT ![p] = IF Verifies(item[p]) THEN "stored" ELSE "idle"]
  /\ UNCHANGED <<disk, active, item, flushed, collection>>

(* AlreadyExists: the object is verified instead, and then synchronised    *)
(* like one's own, since its publisher may not have come that far.         *)
LinkExisting(p) ==
  /\ pc[p] = "flushed" /\ Present(item[p])
  /\ pc' = [pc EXCEPT ![p] = IF Verifies(item[p]) THEN "linked" ELSE "idle"]
  /\ UNCHANGED <<disk, active, item, flushed, collection>>

(* The bucket and the object root are synchronised and the published       *)
(* object is hashed once more before its descriptor is returned.           *)
SyncDirectories(p) ==
  LET i == item[p] IN
  /\ pc[p] = "linked"
  /\ entry' = [entry EXCEPT ![i] = IF Present(i) THEN "durable" ELSE "absent"]
  /\ pc' = [pc EXCEPT ![p] = IF Verifies(i) THEN "stored" ELSE "idle"]
  /\ UNCHANGED <<bytes, refs, open, active, item, flushed, collection>>

(* Any stage may fail: the private file is removed, a published object     *)
(* stays behind as an orphan.  A refused commit leaves one too.            *)
PutFails(p) ==
  /\ pc[p] # "idle"
  /\ pc' = [pc EXCEPT ![p] = "idle"]
  /\ UNCHANGED <<disk, active, item, flushed, collection>>

(* The commit that refers to the returned descriptor.                      *)
CommitReference(p) ==
  /\ pc[p] = "stored"
  /\ refs' = refs \cup {item[p]}
  /\ pc' = [pc EXCEPT ![p] = "idle"]
  /\ UNCHANGED <<entry, bytes, open, active, item, flushed, collection>>

-----------------------------------------------------------------------------
(* Collection.                                                             *)

(* ensure_idle_for_artifact_gc, asked of a live supervisor; the claim is   *)
(* not taken.  The sole owner of a session only needs nobody to drive it.  *)
MayCollect == ~active /\ (Exclusive \/ ~open)

NoPlan == reach' = {} /\ unref' = {} /\ seen' = {} /\ left' = {}

(* plan_artifact_gc: the roots of one session snapshot ...                 *)
PlanRoots ==
  /\ gc = "none" /\ MayCollect
  /\ gc' = "roots" /\ reach' = refs
  /\ UNCHANGED <<disk, active, publishing, unref, seen, left>>

(* ... and then the inventory.  A missing root refuses the plan.           *)
PlanInventory ==
  /\ gc = "roots"
  /\ IF reach \subseteq Inventory
     THEN /\ gc' = "planned" /\ unref' = Inventory \ reach
          /\ UNCHANGED <<reach, seen, left>>
     ELSE gc' = "none" /\ NoPlan
  /\ UNCHANGED <<disk, active, publishing>>

(* apply_artifact_gc: a fresh inventory must still hold the planned roots. *)
ApplyBegin ==
  /\ gc = "planned" /\ MayCollect
  /\ IF reach \subseteq Inventory
     THEN /\ gc' = IF unref = {} THEN "done" ELSE "applying"
          /\ seen' = Inventory /\ left' = unref
          /\ UNCHANGED <<reach, unref>>
     ELSE gc' = "none" /\ NoPlan
  /\ UNCHANGED <<disk, active, publishing>>

(* One planned object, which must be in that inventory and still verify,   *)
(* is unlinked; anything else ends the application with an error.          *)
Remove ==
  /\ gc = "applying"
  /\ \E i \in left :
       IF i \in seen /\ Verifies(i)
       THEN /\ entry' = [entry EXCEPT ![i] = "unlinked"]
            /\ left' = left \ {i} /\ gc' = "syncing"
            /\ UNCHANGED <<reach, unref, seen>>
       ELSE gc' = "none" /\ NoPlan /\ UNCHANGED entry
  /\ UNCHANGED <<bytes, refs, open, active, publishing>>

JustRemoved(i) == i \in unref \ left /\ entry[i] = "unlinked"

(* Mutant: the application ends after one object.                          *)
SyncRemovalOnce ==
  /\ gc = "syncing"
  /\ entry' = [i \in Ids |-> IF JustRemoved(i) THEN "absent" ELSE entry[i]]
  /\ gc' = "done"
  /\ UNCHANGED <<bytes, refs, open, active, publishing, reach, unref, seen, left>>

(* The bucket is synchronised after each removal.                          *)
SyncRemoval ==
  /\ gc = "syncing"
  /\ entry' = [i \in Ids |-> IF JustRemoved(i) THEN "absent" ELSE entry[i]]
  /\ gc' = IF left = {} THEN "done" ELSE "applying"
  /\ UNCHANGED <<bytes, refs, open, active, publishing, reach, unref, seen, left>>

(* The report is returned, a plan is dropped, or a removal failed.         *)
EndCollection ==
  /\ gc \notin {"none", "roots"}
  /\ gc' = "none" /\ NoPlan
  /\ UNCHANGED <<disk, active, publishing>>

-----------------------------------------------------------------------------
Forget ==
  /\ active' = FALSE
  /\ pc' = [p \in Publishers |-> "idle"]
  /\ gc' = "none" /\ NoPlan
  /\ UNCHANGED <<item, flushed>>

(* The process dies.                                                       *)
ProcessCrash ==
  /\ active \/ gc # "none"
  /\ Forget
  /\ UNCHANGED disk

(* The machine dies: an unsynchronised link or removal may or may not      *)
(* survive, and unsynchronised content does not.                           *)
PowerLoss ==
  /\ Forget
  /\ entry' \in [Ids -> {"absent", "durable"}]
  /\ \A i \in Ids : entry[i] \in {"absent", "durable"} => entry'[i] = entry[i]
  /\ bytes' = [i \in Ids |-> IF bytes[i] = "cached" THEN "torn" ELSE bytes[i]]
  /\ UNCHANGED <<refs, open>>

Publish(p) ==
  \/ WriteTemporary(p) \/ SyncFile(p) \/ Link(p) \/ LinkExisting(p)
  \/ SyncDirectories(p) \/ PutFails(p) \/ CommitReference(p)

Collect ==
  \/ PlanRoots \/ PlanInventory \/ ApplyBegin \/ Remove \/ SyncRemoval \/ EndCollection

Next ==
  \/ BeginDrive \/ EndDrive \/ Collect \/ ProcessCrash \/ PowerLoss
  \/ \E p \in Publishers : Publish(p)

Spec == Init /\ [][Next]_vars

-----------------------------------------------------------------------------
(* TypeOK: every stage, plan and object has its type; a plan is kept only  *)
(* while it is in use.                                                     *)
TypeOK ==
  /\ entry \in [Ids -> Entries]
  /\ bytes \in [Ids -> {"none", "cached", "synced", "torn"}]
  /\ refs \subseteq Ids /\ open \in BOOLEAN /\ active \in BOOLEAN
  /\ pc \in [Publishers -> Stages] /\ item \in [Publishers -> Ids]
  /\ flushed \in [Publishers -> BOOLEAN]
  /\ gc \in GcStages /\ reach \subseteq Ids /\ seen \subseteq Ids
  /\ unref \subseteq Ids /\ left \subseteq unref
  /\ gc \in {"none", "roots"} => unref = {}

(* ReferencesDurable: every object the committed session refers to is      *)
(* there, complete, and stays so through a power loss, whoever published   *)
(* it first, whatever failed on the way and whatever was collected.        *)
ReferencesDurable ==
  \A i \in refs : entry[i] = "durable" /\ bytes[i] = "synced"

(* CollectionExact: when a collection reports success the store holds the  *)
(* referenced objects and nothing else.                                    *)
CollectionExact == gc = "done" => Inventory = refs

-----------------------------------------------------------------------------
(* The inductive strengthening of ReferencesDurable.                       *)

(* Content behind an entry was synchronised before it was linked, and a    *)
(* publication that is past its file sync says so.                         *)
ContentInv ==
  /\ \A i \in Ids : entry[i] # "absent" => bytes[i] = "synced"
  /\ \A p \in Publishers : pc[p] \in {"flushed", "linked", "stored"} => flushed[p]

(* A publication that passed a stage finds its object where it left it,    *)
(* and only an active drive publishes.                                     *)
PublishInv ==
  \A p \in Publishers :
    /\ pc[p] # "idle" => active
    /\ pc[p] = "linked" => Present(item[p])
    /\ pc[p] = "stored" => entry[item[p]] = "durable"

(* An exclusive collection runs with nobody driving, over the roots the    *)
(* session still has, and what it has not removed yet is what it planned.  *)
CollectInv ==
  Exclusive /\ gc # "none" =>
    /\ ~active /\ reach = refs /\ unref \cap refs = {}
    /\ gc = "planned" => Inventory = refs \cup unref
    /\ gc \in {"applying", "syncing", "done"} => Inventory = refs \cup left
    /\ gc = "done" => left = {}

StoreInv == TypeOK /\ ContentInv /\ PublishInv /\ CollectInv /\ ReferencesDurable
=============================================================================
