----------------------------- MODULE Reconciler -----------------------------
(* The reconciler of platformd (platformd/reconciler.go) with everything   *)
(* it works against: the control plane's instances table, the status       *)
(* store, the port allocator, the pods of the node, and the StopWorkload   *)
(* handler that servermon calls while a tick is running.                   *)
(*                                                                         *)
(* A tick discovers the rows of the node, runs one goroutine per row,      *)
(* waits for all of them, reports the store to the control plane and then  *)
(* prunes it.  pc[id] is where the goroutine of instance id stands, tick   *)
(* where the tick itself stands.                                           *)
EXTENDS StatusStore, PortAllocator, InstanceTable, Workloads, FiniteSets

CONSTANTS
    MaxLate,      \* bound: status reports in flight after their call failed
    Deletable     \* instances the control plane may mark DELETING

ASSUME LateAssumption == MaxLate \in Nat

ASSUME DeletableAssumption == Deletable \subseteq Instances

VARIABLES
    rows,       \* the control plane's instances table, rows of this node
    ordered,    \* ids handed out by RunFlavorVersion; a UUID is never reused
    store,      \* status.Store
    allocated,  \* PortAllocator.allocated
    attempts,   \* reconciler.attempts
    pods,       \* the pods of the node, by instance and attempt
    tick,       \* "idle", "reconcile", "report" or "prune"
    pc,         \* the goroutine of each instance
    port,       \* its local variable port
    victim,     \* the pod its RemoveWorkload has picked, 0 before it lists
    report,     \* statuses, the result of store.View
    stop,       \* the StopWorkload call for each instance
    late        \* reports whose call failed but which may still be applied

vars == <<rows, ordered, store, allocated, attempts, pods,
          tick, pc, port, victim, report, stop, late>>

(* Where a goroutine of tick stands: the four cases of reconcile, then the *)
(* steps of handleInstanceCreation.                                        *)
Steps == {"idle", "create", "delete", "check", "remove",
          "allocate", "run", "boot", "finish", "cleanup"}

(* The steps that call RemoveWorkload. *)
Removing == {"delete", "remove", "cleanup"}

NoStop == [at |-> "idle", pod |-> 0]

NoReports == [id \in Instances |-> NoStatus]

Reports == [Instances -> [state : WorkloadStates \cup {"none", "PENDING"}, port : PortOrNone]]

(* Type invariant: no step, torn read or partial update leaves the store, *)
(* the table or the pods ill-formed.                                      *)
TypeOK ==
    /\ rows \in [Instances -> Row]
    /\ ordered \subseteq Instances
    /\ store \in [Instances -> WorkloadStatus]
    /\ allocated \subseteq Ports
    /\ attempts \in [Instances -> 0..MaxAttempts]
    /\ pods \in [Instances -> [Attempts -> Pod]]
    /\ tick \in {"idle", "reconcile", "report", "prune"}
    /\ pc \in [Instances -> Steps]
    /\ port \in [Instances -> PortOrNone]
    /\ victim \in [Instances -> 0..MaxAttempts]
    /\ report \in Reports
    /\ stop \in [Instances -> [at : {"idle", "remove", "update"}, pod : 0..MaxAttempts]]
    /\ late \in SUBSET Reports

Init ==
    /\ rows = [id \in Instances |-> NoRow]
    /\ ordered = {}
    /\ store = NoReports
    /\ allocated = {}
    /\ attempts = [id \in Instances |-> 0]
    /\ pods = [id \in Instances |-> [a \in Attempts |-> NoPod]]
    /\ tick = "idle"
    /\ pc = [id \in Instances |-> "idle"]
    /\ port = [id \in Instances |-> NoPort]
    /\ victim = [id \in Instances |-> 0]
    /\ report = NoReports
    /\ stop = [id \in Instances |-> NoStop]
    /\ late = {}
-----------------------------------------------------------------------------
(* The control plane. *)

(* A client orders an instance, which is placed on this node. *)
RunFlavorVersion(id) ==
    /\ id \notin ordered
    /\ ordered' = ordered \cup {id}
    /\ rows' = [rows EXCEPT ![id] = PendingRow]
    /\ UNCHANGED <<store, allocated, attempts, pods, tick, pc, port, victim, report, stop, late>>

(* The control plane wants the instance gone.  The reconciler handles the  *)
(* state; no handler of the control plane sets it.                         *)
MarkDeleting(id) ==
    /\ id \in Deletable
    /\ rows[id] # NoRow /\ rows[id].state # "DELETING"
    /\ rows' = [rows EXCEPT ![id].state = "DELETING"]
    /\ UNCHANGED <<ordered, store, allocated, attempts, pods, tick, pc, port, victim, report, stop, late>>

(* The handler of a report whose caller has already seen an error runs. *)
ApplyLateReport(r) ==
    /\ r \in late
    /\ late' = late \ {r}
    /\ rows' \in PartlyApplied(rows, r)
    /\ UNCHANGED <<ordered, store, allocated, attempts, pods, tick, pc, port, victim, report, stop>>
-----------------------------------------------------------------------------
(* tick: discovering, and the switch of reconcile. *)

(* Mutant of Case: failed creations are left alone. *)
CaseWithoutFailed(state) ==
    CASE state \in {"PENDING", "CREATING"} -> "create"
      [] state = "DELETING" -> "delete"
      [] state = "RUNNING" -> "check"
      [] OTHER -> "idle"

Case(state) ==
    CASE state \in {"PENDING", "CREATING"} -> "create"
      [] state = "DELETING" -> "delete"
      [] state = "RUNNING" -> "check"
      [] state = "CREATION_FAILED" -> "remove"
      [] OTHER -> "idle"

(* DiscoverInstances answers with every row of the node.  When it fails    *)
(* the tick ends having changed nothing.                                   *)
DiscoverInstances ==
    /\ tick = "idle"
    /\ tick' = "reconcile"
    /\ pc' = [id \in Instances |-> Case(rows[id].state)]
    /\ UNCHANGED <<rows, ordered, store, allocated, attempts, pods, port, victim, report, stop, late>>
-----------------------------------------------------------------------------
(* handleInstanceCreation. *)

MaxAttemptsReached(id) ==
    /\ pc[id] = "create"
    /\ attempts[id] >= MaxAttempts
    /\ store' = SetState(store, id, "CREATION_FAILED")
    /\ pc' = [pc EXCEPT ![id] = "idle"]
    /\ UNCHANGED <<rows, ordered, allocated, attempts, pods, tick, port, victim, report, stop, late>>

(* Mutant of NotCreating: only a running workload is not created again. *)
OnlyRunning(id) == store[id].state = "RUNNING"

(* The control plane has not heard yet what became of the workload. *)
NotCreating(id) == store[id].state \notin {"none", "CREATING"}

SkipCreation(id) ==
    /\ pc[id] = "create"
    /\ attempts[id] < MaxAttempts
    /\ NotCreating(id)
    /\ pc' = [pc EXCEPT ![id] = "idle"]
    /\ UNCHANGED <<rows, ordered, store, allocated, attempts, pods, tick, port, victim, report, stop, late>>

(* The store is read here and written in the next step: a StopWorkload may *)
(* come in between.                                                        *)
BeginCreation(id) ==
    /\ pc[id] = "create"
    /\ attempts[id] < MaxAttempts
    /\ ~NotCreating(id)
    /\ pc' = [pc EXCEPT ![id] = "allocate"]
    /\ UNCHANGED <<rows, ordered, store, allocated, attempts, pods, tick, port, victim, report, stop, late>>

(* The state becomes CREATING and a port is allocated.  The port is in the *)
(* store before the pod is created: netglue reads it there.                *)
AllocatePort(id, p) ==
    /\ pc[id] = "allocate"
    /\ Allocate(allocated, p)
    /\ allocated' = allocated \cup {p}
    /\ port' = [port EXCEPT ![id] = p]
    /\ store' = SetPort(SetState(store, id, "CREATING"), id, p)
    /\ pc' = [pc EXCEPT ![id] = "run"]
    /\ UNCHANGED <<rows, ordered, attempts, pods, tick, victim, report, stop, late>>

(* An error of handleInstanceCreation uses up the attempt. *)
AllocateError(id) ==
    /\ pc[id] = "allocate"
    /\ AllocateFails(allocated)
    /\ store' = SetState(store, id, "CREATING")
    /\ attempts' = [attempts EXCEPT ![id] = @ + 1]
    /\ pc' = [pc EXCEPT ![id] = "idle"]
    /\ UNCHANGED <<rows, ordered, allocated, pods, tick, port, victim, report, stop, late>>

(* The attempt this goroutine is at, which names its pod. *)
Attempt(id) == attempts[id] + 1

(* RunWorkload, up to the sandbox.  crio has netglue set up the network    *)
(* with the port found in the store.                                       *)
RunPodSandbox(id) ==
    /\ pc[id] = "run"
    /\ pods[id][Attempt(id)] = NoPod
    /\ pods' = [pods EXCEPT ![id][Attempt(id)] = [stage |-> "sandbox", port |-> store[id].port]]
    /\ pc' = [pc EXCEPT ![id] = "boot"]
    /\ UNCHANGED <<rows, ordered, store, allocated, attempts, tick, port, victim, report, stop, late>>

(* RunWorkload: the two containers. *)
StartContainers(id) ==
    /\ pc[id] = "boot"
    /\ pods[id][Attempt(id)].stage = "sandbox"
    /\ pods' = SetStage(pods, id, Attempt(id), "monitored")
    /\ pc' = [pc EXCEPT ![id] = "finish"]
    /\ UNCHANGED <<rows, ordered, store, allocated, attempts, tick, port, victim, report, stop, late>>

(* Mutant of CreationDone: the port is freed whenever the handler returns. *)
CreationDoneFrees(id) ==
    /\ pc[id] = "finish"
    /\ store' = SetState(store, id, "RUNNING")
    /\ allocated' = Free(allocated, port[id])
    /\ pc' = [pc EXCEPT ![id] = "idle"]
    /\ port' = [port EXCEPT ![id] = NoPort]
    /\ UNCHANGED <<rows, ordered, attempts, pods, tick, victim, report, stop, late>>

(* RunWorkload has signalled the server and returned. *)
CreationDone(id) ==
    /\ pc[id] = "finish"
    /\ store' = SetState(store, id, "RUNNING")
    /\ pc' = [pc EXCEPT ![id] = "idle"]
    /\ port' = [port EXCEPT ![id] = NoPort]
    /\ UNCHANGED <<rows, ordered, allocated, attempts, pods, tick, victim, report, stop, late>>

(* RunWorkload fails at any of its calls, possibly with the server already *)
(* running; the port is freed and what was created is to be cleaned up.    *)
RunWorkloadError(id) ==
    /\ pc[id] \in {"run", "boot", "finish"}
    /\ pods' \in {pods} \cup
           (IF pc[id] = "boot" /\ pods[id][Attempt(id)].stage = "sandbox"
            THEN {SetStage(pods, id, Attempt(id), "server")} ELSE {})
    /\ allocated' = Free(allocated, port[id])
    /\ port' = [port EXCEPT ![id] = NoPort]
    /\ pc' = [pc EXCEPT ![id] = "cleanup"]
    /\ UNCHANGED <<rows, ordered, store, attempts, tick, victim, report, stop, late>>
-----------------------------------------------------------------------------
(* handleInstanceRunning asks for the health first; an error of that call  *)
(* leaves everything as it is, like a healthy workload.                    *)
Healthy(id) ==
    /\ pc[id] = "check"
    /\ pc' = [pc EXCEPT ![id] = "idle"]
    /\ UNCHANGED <<rows, ordered, store, allocated, attempts, pods, tick, port, victim, report, stop, late>>

Unhealthy(id) ==
    /\ pc[id] = "check"
    /\ MayBeUnhealthy(pods, id)
    /\ pc' = [pc EXCEPT ![id] = "delete"]
    /\ UNCHANGED <<rows, ordered, store, allocated, attempts, pods, tick, port, victim, report, stop, late>>
-----------------------------------------------------------------------------
(* RemoveWorkload, called by the goroutine of an instance.  It works on    *)
(* one pod of those it finds.                                              *)

ListPodSandbox(id) ==
    /\ pc[id] \in Removing
    /\ victim[id] = 0
    /\ victim' \in {[victim EXCEPT ![id] = a] : a \in PodsOf(pods, id)}
    /\ UNCHANGED <<rows, ordered, store, allocated, attempts, pods, tick, pc, port, report, stop, late>>

(* Mutant of CountAttempt: a failed creation does not use up its attempt. *)
AttemptForgotten(id) == UNCHANGED attempts

(* After the cleanup of a failed creation the attempt is counted, whatever *)
(* came of the cleanup.                                                    *)
CountAttempt(id) ==
    attempts' = IF pc[id] = "cleanup" THEN [attempts EXCEPT ![id] = @ + 1] ELSE attempts

(* No pod was found, or the one picked is gone now.  The DELETING, RUNNING *)
(* and CREATION_FAILED cases record the removal.                           *)
RemoveWorkloadDone(id) ==
    /\ pc[id] \in Removing
    /\ IF victim[id] = 0
       THEN PodsOf(pods, id) = {} /\ pods' = pods
       ELSE pods' = RemovePodSandbox(pods, id, victim[id])
    /\ store' = IF pc[id] = "cleanup" THEN store ELSE SetState(store, id, "DELETED")
    /\ CountAttempt(id)
    /\ victim' = [victim EXCEPT ![id] = 0]
    /\ pc' = [pc EXCEPT ![id] = "idle"]
    /\ UNCHANGED <<rows, ordered, allocated, tick, port, report, stop, late>>

(* One of the runtime's calls fails, before or after it had its effect. *)
RemoveWorkloadError(id) ==
    /\ pc[id] \in Removing
    /\ pods' \in IF victim[id] = 0 THEN {pods}
                 ELSE {pods, StopPodSandbox(pods, id, victim[id]),
                       RemovePodSandbox(pods, id, victim[id])}
    /\ CountAttempt(id)
    /\ victim' = [victim EXCEPT ![id] = 0]
    /\ pc' = [pc EXCEPT ![id] = "idle"]
    /\ UNCHANGED <<rows, ordered, store, allocated, tick, port, report, stop, late>>
-----------------------------------------------------------------------------
(* tick: reporting and pruning. *)

(* tick reads the states through pointers the view shares with the store,  *)
(* without the store's lock.  A StopWorkload that overwrites a state of    *)
(* another length while it is read makes it a text that is no state, which *)
(* the enum table maps to its zero value, PENDING.                         *)
Torn(id) == stop[id].at = "update" /\ store[id].state \in {"CREATING", "CREATION_FAILED"}

(* wg.Wait returns; the reports are built. *)
View ==
    /\ tick = "reconcile"
    /\ \A id \in Instances : pc[id] = "idle"
    /\ tick' = "report"
    /\ \E torn \in SUBSET {id \in Instances : Torn(id)} :
          report' = [id \in Instances |->
                        IF id \in torn THEN [state |-> "PENDING", port |-> store[id].port]
                        ELSE store[id]]
    /\ UNCHANGED <<rows, ordered, store, allocated, attempts, pods, pc, port, victim, stop, late>>

SendReports ==
    /\ tick = "report"
    /\ rows' = ApplyStatusReports(rows, report)
    /\ tick' = "prune"
    /\ UNCHANGED <<ordered, store, allocated, attempts, pods, pc, port, victim, report, stop, late>>

(* ReceiveInstanceStatusReports fails: the reports are lost, or partly or  *)
(* fully applied, or their handler is still to run.  The tick ends.        *)
SendReportsError ==
    /\ tick = "report"
    /\ \/ rows' \in PartlyApplied(rows, report) /\ late' = late
       \/ /\ Cardinality(late) < MaxLate
          /\ late' = late \cup {report}
          /\ rows' = rows
    /\ tick' = "idle"
    /\ report' = NoReports
    /\ UNCHANGED <<ordered, store, allocated, attempts, pods, pc, port, victim, stop>>

(* The loop that removes finished statuses, one entry at a time.  It       *)
(* looks at the state the entry has now.                                   *)
Prune(id) ==
    /\ tick = "prune"
    /\ report[id] # NoStatus
    /\ report' = [report EXCEPT ![id] = NoStatus]
    /\ store' = IF Terminal(store[id]) THEN Del(store, id) ELSE store
    /\ UNCHANGED <<rows, ordered, allocated, attempts, pods, tick, pc, port, victim, stop, late>>

TickDone ==
    /\ tick = "prune"
    /\ report = NoReports
    /\ tick' = "idle"
    /\ UNCHANGED <<rows, ordered, store, allocated, attempts, pods, pc, port, victim, report, stop, late>>
-----------------------------------------------------------------------------
(* StopWorkload (platformd/workload/server.go), called by the servermon of *)
(* a pod at every check that finds no players, also when the server has    *)
(* exited by then.  It runs beside the tick.  At most one call per         *)
(* instance is in progress.                                                *)

StopWorkload(id) ==
    /\ stop[id] = NoStop
    /\ \E a \in Attempts : pods[id][a].stage \in {"monitored", "degraded"}
    /\ \E a \in PodsOf(pods, id) : stop' = [stop EXCEPT ![id] = [at |-> "remove", pod |-> a]]
    /\ UNCHANGED <<rows, ordered, store, allocated, attempts, pods, tick, pc, port, victim, report, late>>

StopRemoved(id) ==
    /\ stop[id].at = "remove"
    /\ pods' = RemovePodSandbox(pods, id, stop[id].pod)
    /\ stop' = [stop EXCEPT ![id] = [at |-> "update", pod |-> 0]]
    /\ UNCHANGED <<rows, ordered, store, allocated, attempts, tick, pc, port, victim, report, late>>

(* RemoveWorkload fails, for one because stopping the pod kills the caller *)
(* and with it the context of the call.                                    *)
StopError(id) ==
    /\ stop[id].at = "remove"
    /\ pods' \in {pods, StopPodSandbox(pods, id, stop[id].pod),
                  RemovePodSandbox(pods, id, stop[id].pod)}
    /\ stop' = [stop EXCEPT ![id] = NoStop]
    /\ UNCHANGED <<rows, ordered, store, allocated, attempts, tick, pc, port, victim, report, late>>

StopUpdate(id) ==
    /\ stop[id].at = "update"
    /\ store' = SetState(store, id, "DELETED")
    /\ stop' = [stop EXCEPT ![id] = NoStop]
    /\ UNCHANGED <<rows, ordered, allocated, attempts, pods, tick, pc, port, victim, report, late>>
-----------------------------------------------------------------------------
(* A container exits by itself. *)
ContainerExits(id, a) ==
    /\ \/ /\ pods[id][a].stage = "monitored"
          /\ pods' = SetStage(pods, id, a, "degraded")
       \/ /\ pods[id][a].stage \in {"server", "degraded"}
          /\ pods' = SetStage(pods, id, a, "stopped")
    /\ UNCHANGED <<rows, ordered, store, allocated, attempts, tick, pc, port, victim, report, stop, late>>

(* platformd dies and is started again.  Its memory is lost; rows, pods    *)
(* and requests on their way to the control plane are not.                 *)
Restart ==
    /\ store' = NoReports
    /\ allocated' = {}
    /\ attempts' = [id \in Instances |-> 0]
    /\ tick' = "idle"
    /\ pc' = [id \in Instances |-> "idle"]
    /\ port' = [id \in Instances |-> NoPort]
    /\ victim' = [id \in Instances |-> 0]
    /\ report' = NoReports
    /\ stop' = [id \in Instances |-> NoStop]
    /\ UNCHANGED <<rows, ordered, pods, late>>
-----------------------------------------------------------------------------
Goroutine(id) ==
    \/ MaxAttemptsReached(id) \/ SkipCreation(id) \/ BeginCreation(id)
    \/ \E p \in Ports : AllocatePort(id, p)
    \/ AllocateError(id)
    \/ RunPodSandbox(id) \/ StartContainers(id) \/ CreationDone(id) \/ RunWorkloadError(id)
    \/ Healthy(id) \/ Unhealthy(id)
    \/ ListPodSandbox(id) \/ RemoveWorkloadDone(id) \/ RemoveWorkloadError(id)

Stop(id) == StopWorkload(id) \/ StopRemoved(id) \/ StopError(id) \/ StopUpdate(id)

Tick ==
    \/ DiscoverInstances \/ View \/ SendReports \/ SendReportsError
    \/ \E id \in Instances : Prune(id)
    \/ TickDone

ControlPlane ==
    \/ \E id \in Instances : RunFlavorVersion(id) \/ MarkDeleting(id)
    \/ \E r \in late : ApplyLateReport(r)

Next ==
    \/ ControlPlane
    \/ Tick
    \/ \E id \in Instances : Goroutine(id) \/ Stop(id)
    \/ \E id \in Instances, a \in Attempts : ContainerExits(id, a)

Spec == Init /\ [][Next]_vars

(* Errors of the control plane and of the runtime do not last: a call that *)
(* is made again and again succeeds at some time.  platformd keeps         *)
(* ticking, a goroutine that was started goes on, and so does the          *)
(* StopWorkload handler.                                                   *)
Fairness ==
    /\ WF_vars(DiscoverInstances) /\ WF_vars(View) /\ SF_vars(SendReports)
    /\ WF_vars(TickDone)
    /\ \A id \in Instances :
          /\ WF_vars(Goroutine(id)) /\ WF_vars(Prune(id))
          /\ SF_vars(Unhealthy(id) /\ ~MayBeHealthy(pods, id))
          /\ SF_vars(ListPodSandbox(id)) /\ SF_vars(RemoveWorkloadDone(id))
          /\ WF_vars(StopRemoved(id) \/ StopError(id) \/ StopUpdate(id))

FairSpec == Spec /\ Fairness

(* platformd may also be restarted at any time. *)
RestartSpec == Init /\ [][Next \/ Restart]_vars
-----------------------------------------------------------------------------
(* Safety. *)

Runs(id) == rows[id].state = "RUNNING"

(* The port of every instance the control plane shows as RUNNING is taken  *)
(* in the node's allocator, and no two RUNNING instances have the same     *)
(* one, although a port is freed as soon as a creation fails while the     *)
(* store, reports under way and rows still mention it (reconciler.go:331,  *)
(* instance.go:278).                                                       *)
RunningPortsExclusive ==
    \A i \in Instances : Runs(i) =>
        /\ rows[i].port \in allocated
        /\ \A j \in Instances : Runs(j) /\ rows[j].port = rows[i].port => i = j

(* Nothing is created for an instance whose row the control plane has      *)
(* removed: the goroutine between the check of the store and the end of    *)
(* its attempt works for an existing row, even when a DELETED report whose *)
(* call had failed is applied in the middle (reconciler.go:266-278).       *)
CreationHasRow ==
    \A id \in Instances :
        pc[id] \in {"allocate", "run", "boot", "finish", "cleanup"} => rows[id] # NoRow

(* The network of a pod being created is set up for the port its goroutine *)
(* allocated, and the port is still taken (reconciler.go:295-302): netglue *)
(* takes it from the status store, which StopWorkload writes to meanwhile. *)
PodHasAllocatedPort ==
    \A id \in Instances :
        pc[id] \in {"boot", "finish"} /\ pods[id][Attempt(id)] # NoPod =>
            pods[id][Attempt(id)].port = port[id] /\ port[id] \in allocated

(* The port a RUNNING row shows is the one the pod of the last attempt was *)
(* set up with, if that pod still exists (reconciler.go:167-171), as long  *)
(* as no failed report is applied later than the next one (MaxLate = 0).   *)
RunningPortIsPodPort ==
    \A id \in Instances, a \in Attempts :
        Runs(id) /\ a = Attempt(id) /\ pods[id][a] # NoPod => pods[id][a].port = rows[id].port

(* The rows of the node seen as lifecycles of InstanceLifecycle. *)
Phase(id) ==
    CASE id \notin ordered -> [at |-> "new", port |-> NoPort]
      [] id \in ordered /\ rows[id] = NoRow -> [at |-> "gone", port |-> NoPort]
      [] id \in ordered /\ Runs(id) -> [at |-> "running", port |-> rows[id].port]
      [] OTHER -> [at |-> "waiting", port |-> NoPort]

Lifecycle == INSTANCE InstanceLifecycle WITH phase <- [id \in Instances |-> Phase(id)]

(* Tick, goroutines, StopWorkload and failing status reports together      *)
(* implement the lifecycle clients are promised, as long as a failed       *)
(* report is not applied later than the next one (MaxLate = 0).            *)
ImplementsLifecycle == Lifecycle!Spec
-----------------------------------------------------------------------------
(* Liveness. *)

(* An instance does not stay PENDING or CREATING for ever: it runs, fails  *)
(* or is removed, also when no port is left or every attempt fails         *)
(* (reconciler.go:251-353).                                                *)
CreationSettles ==
    \A id \in Instances :
        rows[id].state \in {"PENDING", "CREATING"} ~> rows[id].state \notin {"PENDING", "CREATING"}

(* A RUNNING instance none of whose containers runs any more is removed    *)
(* from the control plane (reconciler.go:377-408), also when StopWorkload  *)
(* was cut short by the end of its caller.                                 *)
DeadIsRemoved ==
    \A id \in Instances :
        Runs(id) /\ ~MayBeHealthy(pods, id) ~> rows[id] = NoRow
-----------------------------------------------------------------------------
(* Claims of the code's comments that the code does not keep. *)

(* reconciler.go:40: the reconciler syncs "the state found in the control  *)
(* plane with what is currently running on the CRI side".  A pod whose     *)
(* instance is gone from the control plane is removed in the end.          *)
OrphansRemoved ==
    \A id \in Instances :
        id \in ordered /\ rows[id] = NoRow ~> PodsOf(pods, id) = {}

(* workload/v1alpha2/types.proto:61: "port allocated for the workload.     *)
(* programs binding to this port will be reachable".  Two instances that   *)
(* are RUNNING, each with its pod alive, do not share a port.              *)
LivePortsDistinct ==
    \A i, j \in Instances :
        /\ Runs(i) /\ MayBeHealthy(pods, i)
        /\ Runs(j) /\ MayBeHealthy(pods, j)
        /\ rows[i].port = rows[j].port
        => i = j
=============================================================================
