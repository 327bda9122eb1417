---------------------------- MODULE Checkpoints ----------------------------
(* The checkpoint service of platformd (platformd/checkpoint/service.go):   *)
(* the goroutine that makes a checkpoint, one step per call that fails or   *)
(* succeeds on its own, the garbage collector that runs every second beside *)
(* it, the sockets of the container as the BPF programs of sock.c see them, *)
(* and the port allocator it shares with the workloads of the node.         *)
EXTENDS PortAllocator

CONSTANTS Checkpoints,    \* ids that CreateCheckpoint hands out
          WorkloadPorts,  \* the host ports that workloads draw
          Connections     \* what the server has: "tcp" and "udp" it opens
                          \* itself, "in" comes in on its port

ASSUME CheckpointsAssumption ==
    WorkloadPorts \subseteq Ports /\ Connections \subseteq {"tcp", "udp", "in"}

VARIABLES
    pc,         \* where the goroutine of a checkpoint stands
    result,     \* its variable state
    store,      \* CheckpointStatus of each entry of the status store
    allocated,  \* portAllocator.allocated
    held,       \* ports that workloads have allocated
    pods,       \* checkpoint pods of the node
    files,      \* tarballs in CheckpointFileDir
    pushed,     \* checkpoints whose image is in the registry
    socks,      \* sockets of the container, by kind, until it is saved or given up:
                \* those of its servers, "tcp" and "udp" it connected itself, and
                \* "accepted" ones; "late" was accepted after DestroySocks
    blocked,    \* "no", "yes" or "lifted": connect calls are refused
    between,    \* history: checkpoints that started between two rounds of gc
    gc          \* CollectGarbage: where it stands, keep, and pods to remove

vars == <<pc, result, store, allocated, held, pods, files, pushed,
          socks, blocked, between, gc>>
netVars == <<socks, blocked>>

(* The steps of checkpoint, waitContainerReady and runAndAttachContainer. *)
Steps == {"pull", "port", "pod", "container", "ready", "block", "destroy", "snapshot", "push"}

CheckpointStates ==
    {"RUNNING", "PULL_BASE_IMAGE_FAILED", "CONTAINER_WAIT_READY_FAILED",
     "CONTAINER_CHECKPOINT_FAILED", "PUSH_CHECKPOINT_FAILED", "COMPLETED"}

(* Mutant of FailedState: the state starts out empty. *)
FailedStateUnset(s) ==
    CASE s = "pull" -> "PULL_BASE_IMAGE_FAILED"
      [] s \in {"port", "pod", "container", "ready"} -> "CONTAINER_WAIT_READY_FAILED"
      [] s \in {"block", "destroy"} -> ""
      [] s = "snapshot" -> "CONTAINER_CHECKPOINT_FAILED"
      [] s = "push" -> "PUSH_CHECKPOINT_FAILED"

(* The state that checkpoint sets before it returns an error of the step;   *)
(* from ContainerInfo to DestroySocks it leaves it at COMPLETED.            *)
FailedState(s) ==
    CASE s = "pull" -> "PULL_BASE_IMAGE_FAILED"
      [] s \in {"port", "pod", "container", "ready"} -> "CONTAINER_WAIT_READY_FAILED"
      [] s \in {"block", "destroy"} -> "COMPLETED"
      [] s = "snapshot" -> "CONTAINER_CHECKPOINT_FAILED"
      [] s = "push" -> "PUSH_CHECKPOINT_FAILED"

NoCheckpoint == [state |-> "none", port |-> NoPort, message |-> "none", completedAt |-> "unset"]

CheckpointStatus ==
    [state : CheckpointStates \cup {"none"}, port : PortOrNone, message : {"none", "error"},
     completedAt : {"unset", "recent", "expired"}]

(* MemStore.Update on the checkpoint half of an entry: fields that are not  *)
(* set keep their value.                                                    *)
Update(c, new) ==
    store' = [store EXCEPT ![c] =
        IF @ = NoCheckpoint THEN new
        ELSE [state       |-> new.state,
              port        |-> IF new.port # NoPort THEN new.port ELSE @.port,
              message     |-> IF new.message # "none" THEN new.message ELSE @.message,
              completedAt |-> IF new.completedAt # "unset" THEN new.completedAt ELSE @.completedAt]]

Running(p) == [state |-> "RUNNING", port |-> p, message |-> "none", completedAt |-> "unset"]

Goto(c, s) == pc' = [pc EXCEPT ![c] = s]

NoResult == [state |-> "COMPLETED", message |-> "none"]

Init ==
    /\ pc = [c \in Checkpoints |-> "unused"]
    /\ result = [c \in Checkpoints |-> NoResult]
    /\ store = [c \in Checkpoints |-> NoCheckpoint]
    /\ allocated = {} /\ held = {}
    /\ pods = {} /\ files = {} /\ pushed = {}
    /\ socks = [c \in Checkpoints |-> {}]
    /\ blocked = [c \in Checkpoints |-> "no"]
    /\ between = {}
    /\ gc = [at |-> "idle", keep |-> {}, todo |-> {}]

(* The call returns the id; the goroutine has not started yet. *)
CreateCheckpoint(c) ==
    /\ pc[c] = "unused" /\ Goto(c, "start")
    /\ UNCHANGED <<result, store, allocated, held, pods, files, pushed, netVars, between, gc>>

Start(c) ==
    /\ pc[c] = "start" /\ Goto(c, "pull")
    /\ Update(c, Running(NoPort))
    /\ between' = IF gc.at = "idle" THEN between \cup {c} ELSE between
    /\ UNCHANGED <<result, allocated, held, pods, files, pushed, netVars, gc>>

EnsureImage(c) ==
    /\ pc[c] = "pull" /\ Goto(c, "port")
    /\ UNCHANGED <<result, store, allocated, held, pods, files, pushed, netVars, between, gc>>

AllocatePort(c, p) ==
    /\ pc[c] = "port" /\ Goto(c, "pod")
    /\ Allocate(allocated, p)
    /\ allocated' = allocated \cup {p}
    /\ Update(c, Running(p))
    /\ UNCHANGED <<result, held, pods, files, pushed, netVars, between, gc>>

RunPodSandbox(c) ==
    /\ pc[c] = "pod" /\ Goto(c, "container")
    /\ pods' = pods \cup {c}
    /\ UNCHANGED <<result, store, allocated, held, files, pushed, netVars, between, gc>>

(* RunContainer and Attach.  The server listens on its port, and may have   *)
(* a UDP server, a voice chat for instance.                                 *)
RunContainer(c) ==
    /\ pc[c] = "container" /\ Goto(c, "ready")
    /\ c \in pods
    /\ socks' = [socks EXCEPT ![c] = {"listen", "udp_server"}]
    /\ UNCHANGED <<result, store, allocated, held, pods, files, pushed, blocked, between, gc>>

WaitForRegex(c) ==
    /\ pc[c] = "ready" /\ Goto(c, "block")
    /\ c \in pods
    /\ UNCHANGED <<result, store, allocated, held, pods, files, pushed, netVars, between, gc>>

(* Mutant of BlockNewConnections: the programs are not attached. *)
BlockNothing(c) ==
    /\ pc[c] = "block" /\ Goto(c, "destroy")
    /\ c \in pods
    /\ UNCHANGED <<result, store, allocated, held, pods, files, pushed, netVars, between, gc>>

(* ContainerInfo and BlockNewConnections: block_connect4 and block_connect6 *)
(* refuse every connect of the container's cgroup.                          *)
BlockNewConnections(c) ==
    /\ pc[c] = "block" /\ Goto(c, "destroy")
    /\ c \in pods
    /\ blocked' = [blocked EXCEPT ![c] = "yes"]
    /\ UNCHANGED <<result, store, allocated, held, pods, files, pushed, socks, between, gc>>

(* Mutant of SparedByTCP: listening sockets are destroyed like the others. *)
SparedByTCPMutant == {"udp", "udp_server"}

(* What destroy_tcp passes over: it sees TCP sockets only, and skips those  *)
(* in state TCP_LISTEN; destroy_udp those without a destination port.       *)
SparedByTCP == {"listen", "udp", "udp_server"}
SparedByUDP == {"listen", "tcp", "accepted", "udp_server"}

(* DestroySocks runs both in the network namespace of the container.  (What *)
(* is opened between the two is as good as opened after them.)              *)
DestroySocks(c) ==
    /\ pc[c] = "destroy" /\ Goto(c, "snapshot")
    /\ c \in pods
    /\ socks' = [socks EXCEPT ![c] = @ \cap SparedByTCP \cap SparedByUDP]
    /\ UNCHANGED <<result, store, allocated, held, pods, files, pushed, blocked, between, gc>>

(* From here on nothing depends on the sockets of the container. *)
SocketsDone(c) ==
    /\ socks' = [socks EXCEPT ![c] = {}]
    /\ blocked' = [blocked EXCEPT ![c] = "no"]

CheckpointContainer(c) ==
    /\ pc[c] = "snapshot" /\ Goto(c, "push")
    /\ c \in pods
    /\ files' = files \cup {c}
    /\ SocketsDone(c)
    /\ UNCHANGED <<result, store, allocated, held, pods, pushed, between, gc>>

(* FromCheckpoint reads the tarball, Push uploads the image. *)
Push(c) ==
    /\ pc[c] = "push" /\ Goto(c, "finish")
    /\ c \in files
    /\ pushed' = pushed \cup {c}
    /\ UNCHANGED <<result, store, allocated, held, pods, files, netVars, between, gc>>

(* A step returns an error.  A failed call may still have had its effect:   *)
(* a sandbox, a tarball, or an image whose acknowledgement was lost.  All   *)
(* five draws of Allocate hit a port that is taken.                         *)
StepFails(c) ==
    /\ pc[c] \in Steps /\ Goto(c, "finish")
    /\ pc[c] = "port" => AllocateFails(allocated)
    /\ result' = [result EXCEPT ![c] = [state |-> FailedState(pc[c]), message |-> "error"]]
    /\ pods' \in IF pc[c] = "pod" THEN {pods, pods \cup {c}} ELSE {pods}
    /\ files' \in IF pc[c] = "snapshot" THEN {files, files \cup {c}} ELSE {files}
    /\ pushed' \in IF pc[c] = "push" THEN {pushed, pushed \cup {c}} ELSE {pushed}
    /\ SocketsDone(c)
    /\ UNCHANGED <<store, allocated, held, between, gc>>

(* The deferred Update writes one field of the entry after the other, and   *)
(* the handler of CheckpointStatus reads the entry without the lock of the  *)
(* store.  First the state; while it is being written the handler may find  *)
(* a string that is no state, which it answers as RUNNING.                  *)
FinishState(c) ==
    /\ pc[c] = "finish" /\ Goto(c, "written")
    /\ Update(c, [state |-> result[c].state, port |-> NoPort,
                  message |-> "none", completedAt |-> "unset"])
    /\ between' = between \ {c}
    /\ UNCHANGED <<result, allocated, held, pods, files, pushed, netVars, gc>>

(* Mutant of Finish: the message is not set. *)
FinishWithoutMessage(c) ==
    /\ pc[c] = "written" /\ Goto(c, "done")
    /\ Update(c, [state |-> result[c].state, port |-> NoPort,
                  message |-> "none", completedAt |-> "recent"])
    /\ result' = [result EXCEPT ![c] = NoResult]
    /\ UNCHANGED <<allocated, held, pods, files, pushed, netVars, between, gc>>

(* Then CompletedAt and the message. *)
Finish(c) ==
    /\ pc[c] = "written" /\ Goto(c, "done")
    /\ Update(c, [state |-> result[c].state, port |-> NoPort,
                  message |-> result[c].message, completedAt |-> "recent"])
    /\ result' = [result EXCEPT ![c] = NoResult]
    /\ UNCHANGED <<allocated, held, pods, files, pushed, netVars, between, gc>>

-----------------------------------------------------------------------------
Completed == {c \in Checkpoints : store[c].completedAt # "unset"}

(* Entries whose StatusRetentionPeriod is over. *)
Expired == {c \in Checkpoints : store[c].completedAt = "expired"}

(* Mutant of FreeExpired: the retention period is not waited for. *)
FreeAllFinished == allocated \ {store[c].port : c \in Completed}

FreeExpired == allocated \ {store[c].port : c \in Expired}

(* CollectGarbage, first part: what is RUNNING in the view of the store is  *)
(* kept; entries past the retention period are deleted, their ports freed.  *)
CollectStatuses ==
    /\ gc.at = "idle"
    /\ gc' = [at |-> "files", todo |-> {},
              keep |-> {c \in Checkpoints : store[c].state = "RUNNING"}]
    /\ store' = [c \in Checkpoints |-> IF c \in Expired THEN NoCheckpoint ELSE store[c]]
    /\ allocated' = FreeExpired
    /\ UNCHANGED <<pc, result, held, pods, files, pushed, netVars, between>>

(* The tarballs, then the list of pods.  Each part may end in an error,     *)
(* which ends the round.                                                    *)
RemoveFiles ==
    /\ gc.at = "files"
    /\ gc' = [at |-> "list", keep |-> gc.keep, todo |-> {}]
    /\ files' = files \cap gc.keep
    /\ UNCHANGED <<pc, result, store, allocated, held, pods, pushed, netVars, between>>

(* Mutant of Zombies: the pods to keep are not passed over. *)
AllPods == pods

(* Mutant of Zombies: only pods whose status is still there are removed. *)
PodsWithStatus == {c \in pods \ gc.keep : store[c] # NoCheckpoint}

Zombies == pods \ gc.keep

ListPodSandbox ==
    /\ gc.at = "list"
    /\ gc' = [at |-> "pods", keep |-> gc.keep, todo |-> Zombies]
    /\ UNCHANGED <<pc, result, store, allocated, held, pods, files, pushed, netVars, between>>

(* StopPodSandbox and RemovePodSandbox: the sockets and the cgroup of the   *)
(* container go with the pod.                                               *)
RemovePodSandbox(c) ==
    /\ gc.at = "pods" /\ c \in gc.todo
    /\ gc' = [at |-> "pods", keep |-> gc.keep, todo |-> gc.todo \ {c}]
    /\ pods' = pods \ {c}
    /\ SocketsDone(c)
    /\ UNCHANGED <<pc, result, store, allocated, held, files, pushed, between>>

GarbageCollected ==
    /\ gc.at = "pods" /\ gc.todo = {}
    /\ gc' = [at |-> "idle", keep |-> {}, todo |-> {}]
    /\ UNCHANGED <<pc, result, store, allocated, held, pods, files, pushed, netVars, between>>

CollectorFails ==
    /\ gc.at # "idle" /\ (gc.at = "pods" => gc.todo # {})
    /\ gc' = [at |-> "idle", keep |-> {}, todo |-> {}]
    /\ files' \in IF gc.at = "files" THEN {files \ d : d \in SUBSET (files \ gc.keep)} ELSE {files}
    /\ UNCHANGED <<pc, result, store, allocated, held, pods, pushed, netVars, between>>

-----------------------------------------------------------------------------
(* The program in the container calls connect, which the programs of its    *)
(* cgroup refuse once they are attached.                                    *)
Connect(c, kind) ==
    /\ kind # "in" /\ socks[c] # {} /\ blocked[c] # "yes"
    /\ socks' = [socks EXCEPT ![c] = @ \cup {kind}]
    /\ UNCHANGED <<pc, result, store, allocated, held, pods, files, pushed, blocked, between, gc>>

(* Its server accepts a connection that comes in on the port of the pod:    *)
(* nothing refuses those.                                                   *)
AcceptConnection(c) ==
    /\ "in" \in Connections /\ "listen" \in socks[c]
    /\ socks' = [socks EXCEPT ![c] =
                   @ \cup {IF pc[c] = "snapshot" THEN "late" ELSE "accepted"}]
    /\ UNCHANGED <<pc, result, store, allocated, held, pods, files, pushed, blocked, between, gc>>

(* Objects.BlockIP4Connections drops the link that AttachCgroup returns;    *)
(* the Go runtime closes its descriptor once it is collected, which         *)
(* detaches the program.                                                    *)
LinkCollected(c) ==
    /\ blocked[c] = "yes"
    /\ blocked' = [blocked EXCEPT ![c] = "lifted"]
    /\ UNCHANGED <<pc, result, store, allocated, held, pods, files, pushed, socks, between, gc>>

(* A workload allocates a port, or gives one back. *)
WorkloadPort(p) ==
    /\ \/ Allocate(allocated, p) /\ allocated' = allocated \cup {p} /\ held' = held \cup {p}
       \/ p \in held /\ allocated' = Free(allocated, p) /\ held' = held \ {p}
    /\ UNCHANGED <<pc, result, store, pods, files, pushed, netVars, between, gc>>

RetentionOver(c) ==
    /\ store[c].completedAt = "recent"
    /\ store' = [store EXCEPT ![c] = [state |-> @.state, port |-> @.port, message |-> @.message,
                                      completedAt |-> "expired"]]
    /\ UNCHANGED <<pc, result, allocated, held, pods, files, pushed, netVars, between, gc>>

(* platformd is restarted: everything it had in memory is gone. *)
Restart ==
    /\ pc' = [c \in Checkpoints |-> IF pc[c] = "unused" THEN "unused" ELSE "done"]
    /\ result' = [c \in Checkpoints |-> NoResult]
    /\ store' = [c \in Checkpoints |-> NoCheckpoint]
    /\ allocated' = {} /\ held' = {} /\ between' = {}
    /\ socks' = [c \in Checkpoints |-> {}]
    /\ blocked' = [c \in Checkpoints |-> "no"]
    /\ gc' = [at |-> "idle", keep |-> {}, todo |-> {}]
    /\ UNCHANGED <<pods, files, pushed>>

Goroutine(c) ==
    \/ Start(c) \/ EnsureImage(c) \/ RunPodSandbox(c)
    \/ RunContainer(c) \/ WaitForRegex(c) \/ BlockNewConnections(c)
    \/ DestroySocks(c) \/ CheckpointContainer(c) \/ Push(c) \/ StepFails(c)
    \/ FinishState(c) \/ Finish(c)
    \/ \E p \in Ports : AllocatePort(c, p)

Collector ==
    \/ CollectStatuses \/ RemoveFiles \/ ListPodSandbox \/ GarbageCollected \/ CollectorFails
    \/ \E c \in Checkpoints : RemovePodSandbox(c)

Next ==
    \/ Collector \/ Restart
    \/ \E p \in WorkloadPorts : WorkloadPort(p)
    \/ \E c \in Checkpoints :
          \/ CreateCheckpoint(c) \/ Goroutine(c) \/ LinkCollected(c) \/ RetentionOver(c)
          \/ AcceptConnection(c)
          \/ \E kind \in Connections : Connect(c, kind)

Spec == Init /\ [][Next]_vars

(* A call of the goroutine returns, with or without an error.  The executor *)
(* starts a round every second, and the calls of a round do not fail for    *)
(* ever; time passes.                                                       *)
Fairness ==
    /\ \A c \in Checkpoints : WF_vars(Goroutine(c)) /\ WF_vars(RetentionOver(c))
    /\ WF_vars(CollectStatuses) /\ WF_vars(GarbageCollected)
    /\ SF_vars(RemoveFiles) /\ SF_vars(ListPodSandbox)
    /\ \A c \in Checkpoints : SF_vars(RemovePodSandbox(c))

FairSpec == Spec /\ Fairness

-----------------------------------------------------------------------------
(* Type invariant. *)
TypeOK ==
    /\ pc \in [Checkpoints -> Steps \cup {"unused", "start", "finish", "written", "done"}]
    /\ result \in [Checkpoints -> [state : CheckpointStates, message : {"none", "error"}]]
    /\ store \in [Checkpoints -> CheckpointStatus]
    /\ allocated \subseteq Ports /\ held \subseteq Ports
    /\ pods \cup files \cup pushed \cup between \subseteq Checkpoints
    /\ blocked \in [Checkpoints -> {"no", "yes", "lifted"}]
    /\ socks \in [Checkpoints -> SUBSET {"listen", "tcp", "udp", "udp_server", "accepted", "late"}]
    /\ gc \in [at : {"idle", "files", "list", "pods"},
              keep : SUBSET Checkpoints, todo : SUBSET Checkpoints]

(* The port in a stored status is taken in the allocator and belongs to no  *)
(* workload and to no other stored checkpoint: CollectGarbage frees a port  *)
(* once, and only together with its status.                                 *)
StoredPortsExclusive ==
    \A c \in Checkpoints :
        store[c].port # NoPort =>
            /\ store[c].port \in allocated \ held
            /\ \A d \in Checkpoints \ {c} : store[d].port # store[c].port

(* The goroutine of a checkpoint that started between two rounds of the     *)
(* collector has its pod until the container is saved, and its tarball      *)
(* until the image is pushed, however many rounds run meanwhile.  (One that *)
(* starts during a round is not in keep and may lose both.)                 *)
PodOutlivesCheckpoint ==
    \A c \in between :
        /\ pc[c] \in {"container", "ready", "block", "destroy", "snapshot"} => c \in pods
        /\ pc[c] = "push" => c \in files

(* When the container is saved, every connection it had accepted before     *)
(* DestroySocks is gone, and so is every one it opened itself, also between *)
(* the single steps, unless the runtime had closed the link that refuses    *)
(* connect.  (One it accepts after DestroySocks is saved: the programs of   *)
(* sock.c do not see it.)                                                   *)
NoConnectionSaved ==
    \A c \in Checkpoints :
        pc[c] = "snapshot" =>
            /\ "accepted" \notin socks[c]
            /\ socks[c] \cap {"tcp", "udp"} = {} \/ blocked[c] = "lifted"

(* The listening sockets of the server and its UDP servers are saved: the   *)
(* programs that destroy sockets leave them alone.                          *)
ServersSaved ==
    \A c \in pods : pc[c] = "snapshot" => {"listen", "udp_server"} \subseteq socks[c]

(* What CheckpointStatus answers for a checkpoint whose goroutine is at     *)
(* step and carries message, with status in the store.                      *)
Answer(step, message, status) ==
    CASE step = "unused" -> "unused"
      [] step = "start" -> "accepted"
      [] OTHER ->
         CASE status = NoCheckpoint -> "gone"
           [] status.state = "RUNNING" -> "RUNNING"
           [] status.state = "COMPLETED" ->
                 IF status.message # "none" THEN "COMPLETED_WITH_MESSAGE"
                 ELSE IF message # "none" THEN "COMPLETED_TOO_EARLY" ELSE "COMPLETED"
           [] OTHER -> "FAILED"

apiAnswer == [c \in Checkpoints |-> Answer(pc[c], result[c].message, store[c])]

API == INSTANCE CheckpointAPI WITH answer <- apiAnswer

(* What callers of CheckpointStatus see are the steps of CheckpointAPI: a   *)
(* result is final, and COMPLETED without a message means that the image is *)
(* in the registry, but for an instant in which the message of a checkpoint *)
(* that failed is not written yet.                                          *)
ImplementsAPI == API!APISpec

(* Checkpoints that were accepted end, and nothing of them stays on the     *)
(* node or comes back: whatever step fails, and even if a restart           *)
(* interrupts it, the pod, the tarball and the status of each are removed   *)
(* in the end.  (An id is handed out once, and there are finitely many.)    *)
CheckpointEndsCleanly ==
    <>[](\A c \in Checkpoints :
            pc[c] # "unused" =>
                pc[c] = "done" /\ c \notin pods \cup files /\ store[c] = NoCheckpoint)
=============================================================================
