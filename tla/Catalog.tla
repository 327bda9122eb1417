------------------------------ MODULE Catalog ------------------------------
(* The rows of one chunk, its flavors, their versions and the instances     *)
(* that run them: creation, ordering an instance, deletion, and the archive *)
(* worker that removes what was marked deleted (controlplane/chunk,         *)
(* controlplane/instance, controlplane/postgres, controlplane/worker).      *)
EXTENDS Integers, FiniteSets, Functions

CONSTANTS Flavors, Versions,
          FlavorOf,       \* the flavor a version belongs to
          MaxCalls,       \* bound: API calls served at the same time
          Workers,        \* runs of the archive job at the same time
          Slots,          \* nodes.slots of the one node
          MaxFailures     \* bound: archive steps that fail, image jobs run again

ASSUME CatalogAssumption ==
    /\ IsFiniteSet(Versions) /\ FlavorOf \in [Versions -> Flavors]
    /\ Slots \in Nat \ {0} /\ MaxCalls \in Nat \ {0} /\ MaxFailures \in Nat

VARIABLES
    chunk,          \* "live", "deleted" (deleted_at is set) or "gone"
    flavor,         \* "none" yet, or as chunk
    version,        \* "none", "live" or "gone"
    building,       \* versions with build_status BUILD_IMAGE or BUILD_CHECKPOINT
    imaging,        \* versions with an image job that is not finished
    instances,      \* how many instances of a version have a row
    archive,        \* ids in the archive tables
    placing,        \* how many calls have chosen the node
    pending,        \* how many calls are about to write to a version, by operation
    worker,         \* where a run of the archive job stands
    failures,
    late,           \* history: versions that a call or a job made, or put into
                    \* a building status, after their flavor's deletion
    missed          \* history: the deletion of the chunk was not followed up

rows == <<chunk, flavor, version, building, imaging, instances, archive>>
history == <<failures, late, missed>>
calls == <<placing, pending>>
vars == <<rows, calls, worker, history>>

Row(state) == state \in {"live", "deleted"}
FlavorRows == {f \in Flavors : Row(flavor[f])}
VersionRows(f) == {v \in Versions : FlavorOf[v] = f /\ Row(version[v])}
AllInstances == SumFunction(instances)

Writes == {"create", "build", "run"} \X Versions

(* Work: the flavors it has still to do, the one it is on, the versions of  *)
(* it that are still to be looked at, those that were building, and the one *)
(* that is about to be archived.                                            *)
Stand(at, todo, on, seen, busy, pick) ==
    [at |-> at, todo |-> todo, on |-> on, seen |-> seen, busy |-> busy, pick |-> pick]
Idle == Stand("idle", {}, {}, {}, {}, {})

CatalogInit ==
    /\ chunk = "live"
    /\ flavor = [f \in Flavors |-> "none"]
    /\ version = [v \in Versions |-> "none"]
    /\ building = {} /\ imaging = {} /\ archive = {}
    /\ instances = [v \in Versions |-> 0]
    /\ placing = 0 /\ pending = [w \in Writes |-> 0]
    /\ worker = [w \in Workers |-> Idle]
    /\ failures = 0 /\ late = {} /\ missed = FALSE

-----------------------------------------------------------------------------
(* The API.  Neither the service nor the foreign key asks whether the chunk *)
(* of a new flavor is marked deleted.                                       *)
CreateFlavor(f) ==
    /\ flavor[f] = "none" /\ Row(chunk)
    /\ flavor' = [flavor EXCEPT ![f] = "live"]
    /\ missed' = (missed \/ chunk = "deleted")
    /\ UNCHANGED <<chunk, version, building, imaging, instances, archive, calls, worker,
                   failures, late>>

DeleteFlavor(f) ==
    /\ flavor[f] = "live"
    /\ flavor' = [flavor EXCEPT ![f] = "deleted"]
    /\ UNCHANGED <<chunk, version, building, imaging, instances, archive, calls, worker, history>>

(* MarkChunkAndFlavorsDeleted *)
DeleteChunk ==
    /\ chunk = "live"
    /\ chunk' = "deleted"
    /\ flavor' = [f \in Flavors |-> IF Row(flavor[f]) THEN "deleted" ELSE flavor[f]]
    /\ missed' = (FlavorRows = {})
    /\ UNCHANGED <<version, building, imaging, instances, archive, calls, worker, failures, late>>

(* Mutant of HasSlot: off by one. *)
HasSlotOffByOne(n) == Slots >= n

(* BestNode counts the rows of the node before anything else is looked at.  *)
HasSlot(n) == Slots > n

Served == placing + SumFunction(pending)

BestNode ==
    /\ Served < MaxCalls
    /\ HasSlot(AllInstances)
    /\ placing' = placing + 1
    /\ UNCHANGED <<rows, pending, worker, history>>

(* A call reads the flavor, and goes on if it is not marked deleted; what   *)
(* it writes afterwards does not look at it again.                          *)
FlavorByID(op, v) ==
    /\ flavor[FlavorOf[v]] = "live"
    /\ CASE op = "create" -> version[v] = "none" [] OTHER -> Row(version[v])
    /\ IF op = "run" THEN placing > 0 /\ placing' = placing - 1
                     ELSE Served < MaxCalls /\ UNCHANGED placing
    /\ pending' = [pending EXCEPT ![<<op, v>>] = @ + 1]
    /\ UNCHANGED <<rows, worker, history>>

CallFails ==
    /\ \/ placing > 0 /\ placing' = placing - 1 /\ UNCHANGED pending
       \/ /\ \E w \in Writes : pending[w] > 0 /\ pending' = [pending EXCEPT ![w] = @ - 1]
          /\ UNCHANGED placing
    /\ UNCHANGED <<rows, worker, history>>

Answered(op, v) ==
    /\ pending[<<op, v>>] > 0
    /\ pending' = [pending EXCEPT ![<<op, v>>] = @ - 1]
    /\ UNCHANGED <<placing, worker, missed>>

Late(op, v) == IF flavor[FlavorOf[v]] = "live" THEN late ELSE late \cup {<<op, v>>}

CreateFlavorVersion(v) ==
    /\ Answered("create", v)
    /\ Row(flavor[FlavorOf[v]]) /\ version[v] = "none"
    /\ version' = [version EXCEPT ![v] = "live"]
    /\ late' = Late("create", v)
    /\ UNCHANGED <<chunk, flavor, building, imaging, instances, archive, failures>>

(* UpdateFlavorVersionBuildStatus of InsertJob: the status is written       *)
(* whatever it was, and lost if the row is not there.                       *)
StatusBuilding(v) ==
    IF Row(version[v]) /\ v \notin building
    THEN building' = building \cup {v} /\ late' = Late("build", v)
    ELSE UNCHANGED <<building, late>>

(* The call inserts an image job, or a checkpoint job if that had failed    *)
(* (module Builds has the two jobs and their attempts).                     *)
BuildFlavorVersion(v) ==
    /\ Answered("build", v)
    /\ StatusBuilding(v)
    /\ imaging' \in {imaging, imaging \cup {v}}
    /\ UNCHANGED <<chunk, flavor, version, instances, archive, failures>>

(* The end of an image job.  A job that is run again, or that of a call     *)
(* that overlapped, gets here when the status may be COMPLETED already.     *)
InsertCheckpointJob(v) ==
    /\ v \in imaging
    /\ StatusBuilding(v)
    /\ \/ imaging' = imaging \ {v} /\ UNCHANGED failures
       \/ failures < MaxFailures /\ failures' = failures + 1 /\ UNCHANGED imaging
    /\ UNCHANGED <<chunk, flavor, version, instances, archive, calls, worker, missed>>

(* COMPLETED, or one of the failed states, is written; if it is the failure *)
(* of an image job, that is finished.  A last attempt whose context has     *)
(* expired writes nothing: this step is then never taken.                   *)
BuildEnds(v) ==
    /\ v \in building
    /\ building' = building \ {v}
    /\ imaging' \in {imaging, imaging \ {v}}
    /\ UNCHANGED <<chunk, flavor, version, instances, archive, calls, worker, history>>

(* CreateInstance; the foreign key refuses a version without a row. *)
CreateInstance(v) ==
    /\ Answered("run", v)
    /\ Row(version[v])
    /\ instances' = [instances EXCEPT ![v] = @ + 1]
    /\ UNCHANGED <<chunk, flavor, version, building, imaging, archive, failures, late>>

(* The node reports it DELETED (module InstanceTable). *)
InstanceEnds(v) ==
    /\ instances[v] > 0
    /\ instances' = [instances EXCEPT ![v] = @ - 1]
    /\ UNCHANGED <<chunk, flavor, version, building, imaging, archive, calls, worker, history>>

-----------------------------------------------------------------------------
(* The archive worker.  Each of its three transactions inserts into an      *)
(* archive table, whose primary key refuses a second copy, and deletes the  *)
(* row, which foreign keys refuse while other rows point at it.             *)
Becomes(w, stand) == worker' = [worker EXCEPT ![w] = stand]

Enters(w, at) == Becomes(w, Stand(at, worker[w].todo, worker[w].on, {}, {}, {}))

NextFlavor(w) == Becomes(w, Stand("flavors", worker[w].todo, {}, {}, {}, {}))

(* Mutant of AllDeletedFlavors: only those that were deleted one by one. *)
AllDeletedFlavorsMutant == {f \in Flavors : flavor[f] = "deleted" /\ chunk = "live"}

AllDeletedFlavors == {f \in Flavors : flavor[f] = "deleted"}

Work(w) ==
    /\ worker[w] = Idle
    /\ AllDeletedFlavors # {}
    /\ Becomes(w, Stand("flavors", AllDeletedFlavors, {}, {}, {}, {}))
    /\ UNCHANGED <<rows, calls, history>>

(* tryArchiveFlavor: the flavor with its versions and their build status. *)
At(w, f, step) == f \in worker[w].on /\ worker[w].at = step

FetchFlavor(w, f) ==
    /\ worker[w].at = "flavors" /\ f \in worker[w].todo
    /\ LET todo == worker[w].todo \ {f}
       IN  Becomes(w, IF Row(flavor[f])
                      THEN Stand("versions", todo, {f}, VersionRows(f),
                                 VersionRows(f) \cap building, {})
                      ELSE Stand("flavors", todo, {}, {}, {}, {}))
    /\ UNCHANGED <<rows, calls, history>>

(* Mutant of MayArchive: only the instances are looked at. *)
MayArchiveMutant(w, v) == instances[v] = 0

MayArchive(w, v) == instances[v] = 0 /\ v \notin worker[w].busy

(* tryArchiveFlavorVersion: the instances are counted now, the build status *)
(* is the one that was read with the flavor.                                *)
CountInstances(w, f, v) ==
    /\ At(w, f, "versions") /\ v \in worker[w].seen
    /\ Becomes(w, Stand(IF MayArchive(w, v) THEN "version" ELSE "versions",
                        worker[w].todo, worker[w].on, worker[w].seen \ {v}, worker[w].busy,
                        IF MayArchive(w, v) THEN {v} ELSE {}))
    /\ UNCHANGED <<rows, calls, history>>

(* Mutant of Referenced: no foreign key. *)
ReferencedMutant(v) == FALSE

Referenced(v) == instances[v] > 0

ArchiveFlavorVersion(w, f, v) ==
    /\ At(w, f, "version") /\ v \in worker[w].pick
    /\ Becomes(w, Stand("versions", worker[w].todo, worker[w].on, worker[w].seen,
                        worker[w].busy, {}))
    /\ IF v \notin archive /\ ~Referenced(v)
       THEN archive' = archive \cup {v} /\ version' = [version EXCEPT ![v] = "gone"]
       ELSE UNCHANGED <<archive, version>>
    /\ UNCHANGED <<chunk, flavor, building, imaging, instances, calls, history>>

(* Mutant of FetchUpdatedFlavor: the versions that were kept are forgotten. *)
FetchUpdatedFlavorMutant(w, f) ==
    /\ At(w, f, "versions") /\ worker[w].seen = {}
    /\ Enters(w, "flavor")
    /\ UNCHANGED <<rows, calls, history>>

FetchUpdatedFlavor(w, f) ==
    /\ At(w, f, "versions") /\ worker[w].seen = {}
    /\ IF Row(flavor[f])
       THEN Enters(w, IF VersionRows(f) = {} THEN "flavor" ELSE "chunk")
       ELSE NextFlavor(w)
    /\ UNCHANGED <<rows, calls, history>>

(* ON DELETE CASCADE takes the versions along, unless an instance holds one.*)
Restricted(f) == \E v \in VersionRows(f) : Referenced(v)

ArchiveFlavor(w, f) ==
    /\ At(w, f, "flavor")
    /\ IF Row(flavor[f]) /\ f \notin archive /\ ~Restricted(f)
       THEN /\ archive' = archive \cup {f}
            /\ flavor' = [flavor EXCEPT ![f] = "gone"]
            /\ version' = [v \in Versions |-> IF v \in VersionRows(f) THEN "gone" ELSE version[v]]
            /\ Enters(w, "chunk")
       ELSE UNCHANGED <<archive, flavor, version>> /\ NextFlavor(w)
    /\ UNCHANGED <<chunk, building, imaging, instances, calls, history>>

GetChunkByID(w, f) ==
    /\ At(w, f, "chunk")
    /\ IF Row(chunk) /\ FlavorRows = {} THEN Enters(w, "archive chunk") ELSE NextFlavor(w)
    /\ UNCHANGED <<rows, calls, history>>

ArchiveChunk(w, f) ==
    /\ At(w, f, "archive chunk")
    /\ IF Row(chunk) /\ "chunk" \notin archive /\ FlavorRows = {}
       THEN archive' = archive \cup {"chunk"} /\ chunk' = "gone"
       ELSE UNCHANGED <<archive, chunk>>
    /\ NextFlavor(w)
    /\ UNCHANGED <<flavor, version, building, imaging, instances, calls, history>>

WorkDone(w) ==
    /\ worker[w].at = "flavors" /\ worker[w].todo = {}
    /\ Becomes(w, Idle)
    /\ UNCHANGED <<rows, calls, history>>

(* A query fails: a version that could not be counted or archived is passed *)
(* over, any other error ends the flavor.  Or the process dies.  Nothing    *)
(* comes back to a chunk whose last flavor has gone.                        *)
PassOver(w) ==
    \E v \in worker[w].seen \cup worker[w].pick :
        /\ worker[w].pick \subseteq {v}
        /\ Becomes(w, Stand("versions", worker[w].todo, worker[w].on, worker[w].seen \ {v},
                            worker[w].busy, {}))

ArchiveFails(w, f) ==
    /\ f \in (IF worker[w].on = {} THEN worker[w].todo ELSE worker[w].on)
    /\ failures < MaxFailures /\ failures' = failures + 1
    /\ \/ PassOver(w)
       \/ /\ worker[w].seen \cup worker[w].pick = {}
          /\ Becomes(w, Stand("flavors", worker[w].todo \ {f}, {}, {}, {}, {}))
       \/ Becomes(w, Idle)
    /\ missed' = (missed \/ (f \in worker[w].on /\ flavor[f] = "gone"))
    /\ UNCHANGED <<rows, calls, late>>

Archiving(w) ==
    \/ WorkDone(w)
    \/ \E f \in Flavors :
          \/ FetchFlavor(w, f) \/ FetchUpdatedFlavor(w, f) \/ ArchiveFlavor(w, f)
          \/ GetChunkByID(w, f) \/ ArchiveChunk(w, f)
          \/ \E v \in Versions : CountInstances(w, f, v) \/ ArchiveFlavorVersion(w, f, v)

Serve ==
    \/ CallFails \/ BestNode
    \/ \E v \in Versions :
          \/ \E op \in {"create", "build", "run"} : FlavorByID(op, v)
          \/ CreateFlavorVersion(v) \/ BuildFlavorVersion(v) \/ CreateInstance(v)

CatalogNext ==
    \/ DeleteChunk
    \/ \E f \in Flavors : CreateFlavor(f) \/ DeleteFlavor(f)
    \/ Serve
    \/ \E v \in Versions : InsertCheckpointJob(v) \/ BuildEnds(v) \/ InstanceEnds(v)
    \/ \E w \in Workers : Work(w) \/ Archiving(w) \/ \E f \in Flavors : ArchiveFails(w, f)

CatalogSpec == CatalogInit /\ [][CatalogNext]_vars

(* The archive job is scheduled again and again and its queries come back.  *)
(* Nothing says that a build or an instance ends.                           *)
CatalogFairness == \A w \in Workers : WF_vars(Work(w) \/ Archiving(w))

FairCatalogSpec == CatalogSpec /\ CatalogFairness

-----------------------------------------------------------------------------
Stands == [at : {"idle", "flavors", "versions", "version", "flavor", "chunk", "archive chunk"},
           todo : SUBSET Flavors, on : SUBSET Flavors,
           seen : SUBSET Versions, busy : SUBSET Versions, pick : SUBSET Versions]

(* Type invariant. *)
TypeOK ==
    /\ chunk \in {"live", "deleted", "gone"}
    /\ flavor \in [Flavors -> {"none", "live", "deleted", "gone"}]
    /\ version \in [Versions -> {"none", "live", "gone"}]
    /\ building \subseteq Versions /\ imaging \subseteq Versions
    /\ late \subseteq {"create", "build"} \X Versions
    /\ archive \subseteq {"chunk"} \cup Flavors \cup Versions
    /\ instances \in [Versions -> Nat]
    /\ placing \in Nat /\ pending \in [Writes -> Nat]
    /\ failures \in 0..MaxFailures /\ missed \in BOOLEAN
    /\ worker \in [Workers -> Stands]

(* Every row has its parent, whatever the archive worker removes meanwhile: *)
(* GetInstance and GetInstancesByNodeID join instances with their version,  *)
(* flavor and chunk, so that a row without one would not be seen by the     *)
(* node that runs it.                                                       *)
RowsHaveParents ==
    /\ \A v \in Versions : instances[v] > 0 => Row(version[v])
    /\ \A v \in Versions : Row(version[v]) => Row(flavor[FlavorOf[v]])
    /\ FlavorRows # {} => Row(chunk)

(* What is gone is in the archive, except a version that was created when   *)
(* its flavor was already marked deleted and went with the flavor's row.    *)
GoneIsArchived ==
    /\ chunk = "gone" => "chunk" \in archive
    /\ \A f \in Flavors : flavor[f] = "gone" => f \in archive
    /\ \A v \in Versions : version[v] = "gone" => v \in archive \/ <<"create", v>> \in late

(* No version is removed while it is built (worker/archive_test.go,         *)
(* TestDoNotArchiveFlavorVersionsCurrentlyBuilding), unless it was put into *)
(* a building status after its flavor's deletion: by a call that had read   *)
(* the flavor before, or by an image job that was run again, or came second *)
(* (create_image.go:189-197 does not look at the status).                   *)
BuildingIsNotRemoved ==
    \A v \in building : version[v] = "gone" => <<"build", v>> \in late

(* A node has more instances than slots only by as many as calls overlapped:*)
(* BestNode counts rows that CreateInstance adds later.                     *)
OvercommitBounded ==
    AllInstances + placing + SumFunction([v \in Versions |-> pending[<<"run", v>>]])
        < Slots + MaxCalls

(* What keeps the archive worker from removing a flavor: instances, and a   *)
(* building status, which nobody clears when the last attempt of the build  *)
(* could not write its failure (create_checkpoint.go:86-99).                *)
Held(f) == \E v \in VersionRows(f) : v \in building \/ instances[v] > 0

(* What holds: a flavor that is marked deleted disappears unless it is held *)
(* for ever, and so does a deleted chunk if it had a flavor, got no new one *)
(* and the step after its last flavor did not fail.  (A flavor is marked    *)
(* once, so that leaving "deleted" for ever is leaving it again and again.) *)
DeletedIsRemoved ==
    /\ \A f \in Flavors : []<>(flavor[f] # "deleted" \/ Held(f))
    /\ []<>(chunk # "deleted" \/ missed \/ \E f \in Flavors : Held(f))
=============================================================================
