------------------------- MODULE CheckpointsProofs -------------------------
(* Theorems about Checkpoints, for every set of checkpoints, ports and     *)
(* kinds of connections.                                                   *)
EXTENDS Checkpoints, TLAPS

(* Leaves are for Zenon unless they name SMT. *)
USE Zenon

USE DEF NoPort, PortOrNone

(* What a goroutine has written to the status store, and what it carries   *)
(* to its deferred Update.                                                 *)
PhaseInv ==
    \A c \in Checkpoints :
        /\ pc[c] \in {"unused", "start"} => store[c] = NoCheckpoint
        /\ pc[c] \in Steps \cup {"finish"} =>
               /\ store[c].state = "RUNNING"
               /\ store[c].message = "none"
               /\ store[c].completedAt = "unset"
        /\ store[c].state = "RUNNING" => pc[c] \in Steps \cup {"finish"}
        /\ pc[c] = "written" =>
               /\ store[c].state = result[c].state /\ store[c].state # "none"
               /\ store[c].message = "none"
               /\ store[c].completedAt = "unset"
        /\ store[c].completedAt # "unset" => pc[c] = "done" /\ store[c].state # "none"

ResultInv ==
    \A c \in Checkpoints :
        /\ result[c].state # "RUNNING"
        /\ pc[c] \notin {"finish", "written"} => result[c] = NoResult
        /\ pc[c] \in {"finish", "written"} /\ result[c].message = "none" =>
               result[c].state = "COMPLETED" /\ c \in pushed

(* Ports of workloads are taken, too. *)
PortInv == held \subseteq allocated /\ StoredPortsExclusive

(* From BlockNewConnections to the snapshot connects are refused, unless   *)
(* the link was closed or the pod removed; what was accepted is destroyed; *)
(* the servers' sockets live as long as the pod.                           *)
SocketInv ==
    \A c \in Checkpoints :
        /\ pc[c] \in {"destroy", "snapshot"} => blocked[c] \in {"yes", "lifted"} \/ socks[c] = {}
        /\ pc[c] = "snapshot" =>
               /\ "accepted" \notin socks[c]
               /\ socks[c] \cap {"tcp", "udp"} = {} \/ blocked[c] = "lifted"
        /\ c \in pods /\ pc[c] \in {"ready", "block", "destroy", "snapshot"} =>
               {"listen", "udp_server"} \subseteq socks[c]

(* The rounds that run while such a goroutine is under way all know it. *)
KeepInv ==
    /\ gc.at \in {"idle", "files", "list"} => gc.todo = {}
    /\ \A c \in between :
          /\ pc[c] \in Steps \cup {"finish"}
          /\ gc.at # "idle" => c \in gc.keep \ gc.todo
          /\ pc[c] \in {"container", "ready", "block", "destroy", "snapshot"} => c \in pods
          /\ pc[c] = "push" => c \in files

IInv == TypeOK /\ PhaseInv /\ ResultInv /\ PortInv /\ SocketInv /\ KeepInv
-----------------------------------------------------------------------------
(* MemStore.Update changes one entry. *)
LEMMA UpdateOther ==
    ASSUME TypeOK, NEW c \in Checkpoints, NEW new, Update(c, new)
    PROVE  \A d \in Checkpoints \ {c} : store'[d] = store[d]
  BY DEF TypeOK, Update

(* The updates a goroutine makes.       *)
LEMMA StartUpdate ==
    ASSUME TypeOK, PhaseInv, NEW c \in Checkpoints, Start(c)
    PROVE  store' = [store EXCEPT ![c] = Running(NoPort)]
<1>1. store[c] = NoCheckpoint
  BY DEF PhaseInv, Start
<1>. QED
  BY <1>1 DEF TypeOK, Update, Start

LEMMA AllocateUpdate ==
    ASSUME TypeOK, PhaseInv, NEW c \in Checkpoints, NEW p \in Ports, AllocatePort(c, p)
    PROVE  store' = [store EXCEPT ![c] = Running(p)]
<1>0. pc[c] \in Steps \cup {"finish"}
  BY DEF Steps, AllocatePort
<1>1. store[c].state = "RUNNING" /\ store[c].message = "none" /\ store[c].completedAt = "unset"
  BY <1>0 DEF PhaseInv
<1>2. p # NoPort /\ store[c] # NoCheckpoint
  BY <1>1, PortsAssumption, SMT DEF NoCheckpoint
<1>3. Update(c, Running(p))
  BY DEF AllocatePort
<1>. QED
  BY <1>1, <1>2, <1>3 DEF Update, Running

LEMMA FinishStateUpdate ==
    ASSUME TypeOK, PhaseInv, NEW c \in Checkpoints, FinishState(c)
    PROVE  store' = [store EXCEPT ![c] =
               [state |-> result[c].state, port |-> store[c].port,
                message |-> "none", completedAt |-> "unset"]]
<1>0. pc[c] \in Steps \cup {"finish"}
  BY DEF FinishState
<1>1. store[c].message = "none" /\ store[c].state = "RUNNING" /\ store[c].completedAt = "unset"
  BY <1>0 DEF PhaseInv
<1>3. store[c] # NoCheckpoint
  BY <1>1, SMT DEF NoCheckpoint
<1>2. Update(c, [state |-> result[c].state, port |-> NoPort,
                 message |-> "none", completedAt |-> "unset"])
  BY DEF FinishState
<1>. QED
  BY <1>1, <1>2, <1>3 DEF Update

LEMMA FinishUpdate ==
    ASSUME TypeOK, PhaseInv, NEW c \in Checkpoints, Finish(c)
    PROVE  store' = [store EXCEPT ![c] =
               [state |-> result[c].state, port |-> store[c].port,
                message |-> result[c].message, completedAt |-> "recent"]]
<1>1. store[c].message = "none" /\ store[c].state # "none"
  BY DEF PhaseInv, Finish
<1>3. store[c] # NoCheckpoint
  BY <1>1, SMT DEF NoCheckpoint
<1>2. Update(c, [state |-> result[c].state, port |-> NoPort,
                 message |-> result[c].message, completedAt |-> "recent"])
  BY DEF Finish
<1>. QED
  BY <1>1, <1>2, <1>3 DEF Update
-----------------------------------------------------------------------------
LEMMA TypeInit == Init => TypeOK
<1>1. NoCheckpoint \in CheckpointStatus /\ NoResult \in [state : CheckpointStates, message : {"none", "error"}]
  BY DEF NoResult, NoCheckpoint, CheckpointStates, CheckpointStatus
<1>. QED
  BY <1>1, SMT DEF Init, TypeOK

LEMMA TypeStep == TypeOK /\ PhaseInv /\ [Next]_vars => TypeOK'
<1> SUFFICES ASSUME TypeOK, PhaseInv, [Next]_vars
             PROVE  TypeOK'
  OBVIOUS
<1>1. ASSUME NEW c \in Checkpoints, CreateCheckpoint(c)
      PROVE  TypeOK'
  BY <1>1 DEF TypeOK, Goto, Steps, netVars, CreateCheckpoint
<1>2. ASSUME NEW c \in Checkpoints, Start(c)
      PROVE  TypeOK'
  <2>1. store' \in [Checkpoints -> CheckpointStatus]
    <3>1. store' = [store EXCEPT ![c] = Running(NoPort)]
      BY <1>2, StartUpdate
    <3>. QED
      BY <3>1 DEF TypeOK, Running, CheckpointStatus, CheckpointStates
  <2>. QED
    BY <1>2, <2>1 DEF TypeOK, Goto, Steps, netVars, Start
<1>3. ASSUME NEW c \in Checkpoints, EnsureImage(c)
      PROVE  TypeOK'
  BY <1>3 DEF TypeOK, Goto, Steps, netVars, EnsureImage
<1>4. ASSUME NEW c \in Checkpoints, NEW p \in Ports, AllocatePort(c, p)
      PROVE  TypeOK'
  <2>1. store' \in [Checkpoints -> CheckpointStatus]
    <3>1. store' = [store EXCEPT ![c] = Running(p)]
      BY <1>4, AllocateUpdate
    <3>. QED
      BY <3>1 DEF TypeOK, Running, CheckpointStatus, CheckpointStates
  <2>. QED
    BY <1>4, <2>1 DEF TypeOK, Goto, Steps, netVars, AllocatePort
<1>5. ASSUME NEW c \in Checkpoints, RunPodSandbox(c)
      PROVE  TypeOK'
  BY <1>5 DEF TypeOK, Goto, Steps, netVars, RunPodSandbox
<1>6. ASSUME NEW c \in Checkpoints, RunContainer(c)
      PROVE  TypeOK'
  BY <1>6 DEF TypeOK, Goto, Steps, RunContainer
<1>7. ASSUME NEW c \in Checkpoints, WaitForRegex(c)
      PROVE  TypeOK'
  BY <1>7 DEF TypeOK, Goto, Steps, netVars, WaitForRegex
<1>8. ASSUME NEW c \in Checkpoints, BlockNewConnections(c)
      PROVE  TypeOK'
  BY <1>8 DEF TypeOK, Goto, Steps, BlockNewConnections
<1>9. ASSUME NEW c \in Checkpoints, DestroySocks(c)
      PROVE  TypeOK'
  BY <1>9 DEF TypeOK, Goto, Steps, DestroySocks
<1>10. ASSUME NEW c \in Checkpoints, CheckpointContainer(c)
      PROVE  TypeOK'
  BY <1>10 DEF TypeOK, Goto, Steps, SocketsDone, CheckpointContainer
<1>11. ASSUME NEW c \in Checkpoints, Push(c)
      PROVE  TypeOK'
  BY <1>11 DEF TypeOK, Goto, Steps, netVars, Push
<1>12. ASSUME NEW c \in Checkpoints, StepFails(c)
      PROVE  TypeOK'
  <2>1. FailedState(pc[c]) \in CheckpointStates
    BY <1>12 DEF FailedState, CheckpointStates, Steps, StepFails
  <2>2. result' \in [Checkpoints -> [state : CheckpointStates, message : {"none", "error"}]]
    BY <1>12, <2>1 DEF TypeOK, StepFails
  <2>. QED
    BY <1>12, <2>2, SMT DEF TypeOK, Goto, SocketsDone, StepFails
<1>13. ASSUME NEW c \in Checkpoints, Finish(c)
      PROVE  TypeOK'
  <2>1. store' \in [Checkpoints -> CheckpointStatus]
    <3>1. store[c] \in CheckpointStatus /\ result[c] \in [state : CheckpointStates, message : {"none", "error"}]
      BY DEF TypeOK
    <3>2. PICK st \in CheckpointStates, m \in {"none", "error"}, q \in PortOrNone :
             store' = [store EXCEPT ![c] =
                 [state |-> st, port |-> q, message |-> m, completedAt |-> "recent"]]
      BY <1>13, <3>1, FinishUpdate DEF CheckpointStatus
    <3>. QED
      BY <3>2 DEF TypeOK, CheckpointStatus
  <2>2. result' \in [Checkpoints -> [state : CheckpointStates, message : {"none", "error"}]]
    BY <1>13 DEF TypeOK, NoResult, CheckpointStates, Finish
  <2>. QED
    BY <1>13, <2>1, <2>2 DEF TypeOK, Goto, netVars, Finish
<1>14. ASSUME CollectStatuses
      PROVE  TypeOK'
  <2>1. store' \in [Checkpoints -> CheckpointStatus]
    BY <1>14 DEF TypeOK, NoCheckpoint, CheckpointStatus, CollectStatuses
  <2>. QED
    BY <1>14, <2>1 DEF TypeOK, FreeExpired, netVars, CollectStatuses
<1>15. ASSUME RemoveFiles
      PROVE  TypeOK'
  BY <1>15 DEF TypeOK, netVars, RemoveFiles
<1>16. ASSUME ListPodSandbox
      PROVE  TypeOK'
  BY <1>16 DEF TypeOK, Zombies, netVars, ListPodSandbox
<1>17. ASSUME NEW c \in Checkpoints, RemovePodSandbox(c)
      PROVE  TypeOK'
  BY <1>17 DEF TypeOK, SocketsDone, RemovePodSandbox
<1>18. ASSUME GarbageCollected
      PROVE  TypeOK'
  BY <1>18 DEF TypeOK, netVars, GarbageCollected
<1>19. ASSUME CollectorFails
      PROVE  TypeOK'
  BY <1>19, SMT DEF TypeOK, netVars, CollectorFails
<1>20. ASSUME NEW c \in Checkpoints, NEW kind \in Connections, Connect(c, kind)
      PROVE  TypeOK'
  BY <1>20, CheckpointsAssumption DEF TypeOK, Connect
<1>21. ASSUME NEW c \in Checkpoints, LinkCollected(c)
      PROVE  TypeOK'
  BY <1>21 DEF TypeOK, LinkCollected
<1>22. ASSUME NEW p \in WorkloadPorts, WorkloadPort(p)
      PROVE  TypeOK'
  BY <1>22, CheckpointsAssumption DEF TypeOK, Allocate, Free, netVars, WorkloadPort
<1>23. ASSUME NEW c \in Checkpoints, RetentionOver(c)
      PROVE  TypeOK'
  <2>1. store' \in [Checkpoints -> CheckpointStatus]
    BY <1>23 DEF TypeOK, CheckpointStatus, RetentionOver
  <2>. QED
    BY <1>23, <2>1 DEF TypeOK, netVars, RetentionOver
<1>24. ASSUME Restart
      PROVE  TypeOK'
  <2>1. store' \in [Checkpoints -> CheckpointStatus]
    BY <1>24 DEF NoCheckpoint, CheckpointStatus, Restart
  <2>2. result' \in [Checkpoints -> [state : CheckpointStates, message : {"none", "error"}]]
    BY <1>24 DEF NoResult, CheckpointStates, Restart
  <2>. QED
    BY <1>24, <2>1, <2>2 DEF TypeOK, Restart
<1>25. CASE UNCHANGED vars
  BY <1>25 DEF TypeOK, vars, netVars
<1>26. ASSUME NEW c \in Checkpoints, FinishState(c)
      PROVE  TypeOK'
  <2>1. store' \in [Checkpoints -> CheckpointStatus]
    <3>1. store[c] \in CheckpointStatus /\ result[c] \in [state : CheckpointStates, message : {"none", "error"}]
      BY DEF TypeOK
    <3>2. PICK st \in CheckpointStates, q \in PortOrNone :
             store' = [store EXCEPT ![c] =
                 [state |-> st, port |-> q, message |-> "none", completedAt |-> "unset"]]
      BY <1>26, <3>1, FinishStateUpdate DEF CheckpointStatus
    <3>. QED
      BY <3>2 DEF TypeOK, CheckpointStatus
  <2>. QED
    BY <1>26, <2>1 DEF TypeOK, Goto, netVars, FinishState
<1>27. ASSUME NEW c \in Checkpoints, AcceptConnection(c)
      PROVE  TypeOK'
  BY <1>27 DEF TypeOK, AcceptConnection
<1>. QED
  BY <1>1, <1>2, <1>3, <1>4, <1>5, <1>6, <1>7, <1>8, <1>9, <1>10, <1>11, <1>12, <1>13,
     <1>14, <1>15, <1>16, <1>17, <1>18, <1>19, <1>20, <1>21, <1>22, <1>23, <1>24, <1>25,
     <1>26, <1>27
     DEF Next, Collector, Goroutine

LEMMA PhaseStep == TypeOK /\ PhaseInv /\ ResultInv /\ [Next]_vars => PhaseInv'
<1> SUFFICES ASSUME TypeOK, PhaseInv, ResultInv, [Next]_vars
             PROVE  PhaseInv'
  OBVIOUS
<1>1. ASSUME NEW c \in Checkpoints, CreateCheckpoint(c)
      PROVE  PhaseInv'
  BY <1>1, SMT DEF PhaseInv, TypeOK, Steps, NoCheckpoint, Goto, CreateCheckpoint
<1>2. ASSUME NEW c \in Checkpoints, Start(c)
      PROVE  PhaseInv'
  <2>1. store' = [store EXCEPT ![c] = Running(NoPort)]
    BY <1>2, StartUpdate
  <2>. QED
    BY <1>2, <2>1, SMT DEF TypeOK, PhaseInv, Steps, Running, Goto, Start
<1>3. ASSUME NEW c \in Checkpoints, EnsureImage(c)
      PROVE  PhaseInv'
  BY <1>3, SMT DEF PhaseInv, TypeOK, Steps, Goto, EnsureImage
<1>4. ASSUME NEW c \in Checkpoints, NEW p \in Ports, AllocatePort(c, p)
      PROVE  PhaseInv'
  <2>1. store' = [store EXCEPT ![c] = Running(p)]
    BY <1>4, AllocateUpdate
  <2>. QED
    BY <1>4, <2>1, SMT DEF TypeOK, PhaseInv, Steps, Running, Goto, AllocatePort
<1>5. ASSUME NEW c \in Checkpoints, RunPodSandbox(c)
      PROVE  PhaseInv'
  BY <1>5, SMT DEF PhaseInv, TypeOK, Steps, Goto, RunPodSandbox
<1>6. ASSUME NEW c \in Checkpoints, RunContainer(c)
      PROVE  PhaseInv'
  BY <1>6, SMT DEF PhaseInv, TypeOK, Steps, Goto, RunContainer
<1>7. ASSUME NEW c \in Checkpoints, WaitForRegex(c)
      PROVE  PhaseInv'
  BY <1>7, SMT DEF PhaseInv, TypeOK, Steps, Goto, WaitForRegex
<1>8. ASSUME NEW c \in Checkpoints, BlockNewConnections(c)
      PROVE  PhaseInv'
  BY <1>8, SMT DEF PhaseInv, TypeOK, Steps, Goto, BlockNewConnections
<1>9. ASSUME NEW c \in Checkpoints, DestroySocks(c)
      PROVE  PhaseInv'
  BY <1>9, SMT DEF PhaseInv, TypeOK, Steps, Goto, DestroySocks
<1>10. ASSUME NEW c \in Checkpoints, CheckpointContainer(c)
      PROVE  PhaseInv'
  BY <1>10, SMT DEF PhaseInv, TypeOK, Steps, Goto, CheckpointContainer
<1>11. ASSUME NEW c \in Checkpoints, Push(c)
      PROVE  PhaseInv'
  BY <1>11, SMT DEF PhaseInv, TypeOK, Steps, Goto, Push
<1>12. ASSUME NEW c \in Checkpoints, StepFails(c)
      PROVE  PhaseInv'
  BY <1>12, SMT DEF PhaseInv, TypeOK, Steps, Goto, StepFails
<1>13. ASSUME NEW c \in Checkpoints, Finish(c)
      PROVE  PhaseInv'
  <2>1. store' = [store EXCEPT ![c] =
            [state |-> result[c].state, port |-> store[c].port,
             message |-> result[c].message, completedAt |-> "recent"]]
    BY <1>13, FinishUpdate
  <2>2. result[c].state # "RUNNING" /\ result[c].state \in CheckpointStates
    BY DEF TypeOK, ResultInv
  <2>. QED
    BY <1>13, <2>1, <2>2, SMT DEF TypeOK, PhaseInv, Steps, CheckpointStates, Goto, Finish
<1>14. ASSUME CollectStatuses
      PROVE  PhaseInv'
  BY <1>14 DEF TypeOK, PhaseInv, Steps, NoCheckpoint, Expired, CollectStatuses
<1>15. ASSUME RemoveFiles
      PROVE  PhaseInv'
  BY <1>15 DEF PhaseInv, RemoveFiles
<1>16. ASSUME ListPodSandbox
      PROVE  PhaseInv'
  BY <1>16 DEF PhaseInv, ListPodSandbox
<1>17. ASSUME NEW c \in Checkpoints, RemovePodSandbox(c)
      PROVE  PhaseInv'
  BY <1>17 DEF PhaseInv, RemovePodSandbox
<1>18. ASSUME GarbageCollected
      PROVE  PhaseInv'
  BY <1>18 DEF PhaseInv, GarbageCollected
<1>19. ASSUME CollectorFails
      PROVE  PhaseInv'
  BY <1>19 DEF PhaseInv, CollectorFails
<1>20. ASSUME NEW c \in Checkpoints, NEW kind \in Connections, Connect(c, kind)
      PROVE  PhaseInv'
  BY <1>20 DEF PhaseInv, Connect
<1>21. ASSUME NEW c \in Checkpoints, LinkCollected(c)
      PROVE  PhaseInv'
  BY <1>21 DEF PhaseInv, LinkCollected
<1>22. ASSUME NEW p \in WorkloadPorts, WorkloadPort(p)
      PROVE  PhaseInv'
  BY <1>22 DEF PhaseInv, WorkloadPort
<1>23. ASSUME NEW c \in Checkpoints, RetentionOver(c)
      PROVE  PhaseInv'
  <2>1. pc[c] = "done" /\ store[c].state # "none" /\ store[c].state # "RUNNING"
    BY <1>23 DEF PhaseInv, Steps, RetentionOver
  <2>. QED
    BY <1>23, <2>1, SMT DEF TypeOK, PhaseInv, Steps, NoCheckpoint, RetentionOver
<1>24. ASSUME Restart
      PROVE  PhaseInv'
  BY <1>24 DEF TypeOK, PhaseInv, Steps, NoCheckpoint, Restart
<1>25. CASE UNCHANGED vars
  BY <1>25 DEF PhaseInv, vars, netVars
<1>26. ASSUME NEW c \in Checkpoints, FinishState(c)
      PROVE  PhaseInv'
  <2>1. store' = [store EXCEPT ![c] =
            [state |-> result[c].state, port |-> store[c].port,
             message |-> "none", completedAt |-> "unset"]]
    BY <1>26, FinishStateUpdate
  <2>2. result[c].state # "RUNNING" /\ result[c].state \in CheckpointStates
    BY DEF TypeOK, ResultInv
  <2>3. result[c].state # "none"
    BY <2>2 DEF CheckpointStates
  <2>. QED
    BY <1>26, <2>1, <2>2, <2>3, SMT DEF TypeOK, PhaseInv, Steps, Goto, FinishState
<1>27. ASSUME NEW c \in Checkpoints, AcceptConnection(c)
      PROVE  PhaseInv'
  BY <1>27 DEF PhaseInv, AcceptConnection
<1>. QED
  BY <1>1, <1>2, <1>3, <1>4, <1>5, <1>6, <1>7, <1>8, <1>9, <1>10, <1>11, <1>12, <1>13,
     <1>14, <1>15, <1>16, <1>17, <1>18, <1>19, <1>20, <1>21, <1>22, <1>23, <1>24, <1>25,
     <1>26, <1>27
     DEF Next, Collector, Goroutine

LEMMA ResultStep == TypeOK /\ ResultInv /\ [Next]_vars => ResultInv'
<1> SUFFICES ASSUME TypeOK, ResultInv, [Next]_vars
             PROVE  ResultInv'
  OBVIOUS
<1>1. ASSUME NEW c \in Checkpoints, CreateCheckpoint(c)
      PROVE  ResultInv'
  BY <1>1 DEF ResultInv, TypeOK, Goto, CreateCheckpoint
<1>2. ASSUME NEW c \in Checkpoints, Start(c)
      PROVE  ResultInv'
  BY <1>2 DEF ResultInv, TypeOK, Goto, Start
<1>3. ASSUME NEW c \in Checkpoints, EnsureImage(c)
      PROVE  ResultInv'
  BY <1>3 DEF ResultInv, TypeOK, Goto, EnsureImage
<1>4. ASSUME NEW c \in Checkpoints, NEW p \in Ports, AllocatePort(c, p)
      PROVE  ResultInv'
  BY <1>4 DEF ResultInv, TypeOK, Goto, AllocatePort
<1>5. ASSUME NEW c \in Checkpoints, RunPodSandbox(c)
      PROVE  ResultInv'
  BY <1>5 DEF ResultInv, TypeOK, Goto, RunPodSandbox
<1>6. ASSUME NEW c \in Checkpoints, RunContainer(c)
      PROVE  ResultInv'
  BY <1>6 DEF ResultInv, TypeOK, Goto, RunContainer
<1>7. ASSUME NEW c \in Checkpoints, WaitForRegex(c)
      PROVE  ResultInv'
  BY <1>7 DEF ResultInv, TypeOK, Goto, WaitForRegex
<1>8. ASSUME NEW c \in Checkpoints, BlockNewConnections(c)
      PROVE  ResultInv'
  BY <1>8 DEF ResultInv, TypeOK, Goto, BlockNewConnections
<1>9. ASSUME NEW c \in Checkpoints, DestroySocks(c)
      PROVE  ResultInv'
  BY <1>9 DEF ResultInv, TypeOK, Goto, DestroySocks
<1>10. ASSUME NEW c \in Checkpoints, CheckpointContainer(c)
      PROVE  ResultInv'
  BY <1>10 DEF ResultInv, TypeOK, Goto, CheckpointContainer
<1>11. ASSUME NEW c \in Checkpoints, Push(c)
      PROVE  ResultInv'
  BY <1>11, SMT DEF TypeOK, ResultInv, NoResult, Goto, Push
<1>12. ASSUME NEW c \in Checkpoints, StepFails(c)
      PROVE  ResultInv'
  <2>1. FailedState(pc[c]) # "RUNNING"
    BY <1>12 DEF FailedState, Steps, StepFails
  <2>2. result' = [result EXCEPT ![c] = [state |-> FailedState(pc[c]), message |-> "error"]]
    BY <1>12 DEF StepFails
  <2>3. pc' = [pc EXCEPT ![c] = "finish"] /\ pushed \subseteq pushed'
    BY <1>12 DEF Goto, StepFails
  <2>. QED
    BY <2>1, <2>2, <2>3 DEF TypeOK, ResultInv
<1>13. ASSUME NEW c \in Checkpoints, Finish(c)
      PROVE  ResultInv'
  BY <1>13 DEF TypeOK, ResultInv, NoResult, Goto, Finish
<1>14. ASSUME CollectStatuses
      PROVE  ResultInv'
  BY <1>14 DEF ResultInv, CollectStatuses
<1>15. ASSUME RemoveFiles
      PROVE  ResultInv'
  BY <1>15 DEF ResultInv, RemoveFiles
<1>16. ASSUME ListPodSandbox
      PROVE  ResultInv'
  BY <1>16 DEF ResultInv, ListPodSandbox
<1>17. ASSUME NEW c \in Checkpoints, RemovePodSandbox(c)
      PROVE  ResultInv'
  BY <1>17 DEF ResultInv, RemovePodSandbox
<1>18. ASSUME GarbageCollected
      PROVE  ResultInv'
  BY <1>18 DEF ResultInv, GarbageCollected
<1>19. ASSUME CollectorFails
      PROVE  ResultInv'
  BY <1>19 DEF ResultInv, CollectorFails
<1>20. ASSUME NEW c \in Checkpoints, NEW kind \in Connections, Connect(c, kind)
      PROVE  ResultInv'
  BY <1>20 DEF ResultInv, Connect
<1>21. ASSUME NEW c \in Checkpoints, LinkCollected(c)
      PROVE  ResultInv'
  BY <1>21 DEF ResultInv, LinkCollected
<1>22. ASSUME NEW p \in WorkloadPorts, WorkloadPort(p)
      PROVE  ResultInv'
  BY <1>22 DEF ResultInv, WorkloadPort
<1>23. ASSUME NEW c \in Checkpoints, RetentionOver(c)
      PROVE  ResultInv'
  BY <1>23 DEF ResultInv, RetentionOver
<1>24. ASSUME Restart
      PROVE  ResultInv'
  BY <1>24 DEF ResultInv, NoResult, Restart
<1>25. CASE UNCHANGED vars
  BY <1>25 DEF ResultInv, vars, netVars
<1>26. ASSUME NEW c \in Checkpoints, FinishState(c)
      PROVE  ResultInv'
  BY <1>26 DEF TypeOK, ResultInv, Goto, FinishState
<1>27. ASSUME NEW c \in Checkpoints, AcceptConnection(c)
      PROVE  ResultInv'
  BY <1>27 DEF ResultInv, AcceptConnection
<1>. QED
  BY <1>1, <1>2, <1>3, <1>4, <1>5, <1>6, <1>7, <1>8, <1>9, <1>10, <1>11, <1>12, <1>13,
     <1>14, <1>15, <1>16, <1>17, <1>18, <1>19, <1>20, <1>21, <1>22, <1>23, <1>24, <1>25,
     <1>26, <1>27
     DEF Next, Collector, Goroutine

(* Where store, allocator and workloads are left alone, so are the ports. *)
LEMMA PortsUnchanged ==
    ASSUME PortInv, UNCHANGED <<allocated, held>>,
           \A c \in Checkpoints : store'[c].port = store[c].port
    PROVE  PortInv'
  BY DEF PortInv, StoredPortsExclusive

LEMMA PortStep == TypeOK /\ PhaseInv /\ PortInv /\ [Next]_vars => PortInv'
<1> SUFFICES ASSUME TypeOK, PhaseInv, PortInv, [Next]_vars
             PROVE  PortInv'
  OBVIOUS
<1>1. ASSUME NEW c \in Checkpoints, CreateCheckpoint(c)
      PROVE  PortInv'
  BY <1>1, PortsUnchanged DEF CreateCheckpoint
<1>2. ASSUME NEW c \in Checkpoints, Start(c)
      PROVE  PortInv'
  <2>1. store' = [store EXCEPT ![c] = Running(NoPort)] /\ store[c] = NoCheckpoint
    BY <1>2, StartUpdate DEF PhaseInv, Start
  <2>2. \A d \in Checkpoints : store'[d].port = store[d].port
    BY <2>1, SMT DEF TypeOK, Running, NoCheckpoint
  <2>. QED
    BY <1>2, <2>2, PortsUnchanged DEF Start
<1>3. ASSUME NEW c \in Checkpoints, EnsureImage(c)
      PROVE  PortInv'
  BY <1>3, PortsUnchanged DEF EnsureImage
<1>4. ASSUME NEW c \in Checkpoints, NEW p \in Ports, AllocatePort(c, p)
      PROVE  PortInv'
  <2>1. store' = [store EXCEPT ![c] = Running(p)]
    BY <1>4, AllocateUpdate
  <2>2. store'[c].port = p /\ \A d \in Checkpoints \ {c} : store'[d] = store[d]
    BY <2>1 DEF TypeOK, Running
  <2>3. p \notin allocated /\ allocated' = allocated \cup {p} /\ held' = held
    BY <1>4 DEF Allocate, AllocatePort
  <2>. QED
    BY <2>2, <2>3 DEF PortInv, StoredPortsExclusive
<1>5. ASSUME NEW c \in Checkpoints, RunPodSandbox(c)
      PROVE  PortInv'
  BY <1>5, PortsUnchanged DEF RunPodSandbox
<1>6. ASSUME NEW c \in Checkpoints, RunContainer(c)
      PROVE  PortInv'
  BY <1>6, PortsUnchanged DEF RunContainer
<1>7. ASSUME NEW c \in Checkpoints, WaitForRegex(c)
      PROVE  PortInv'
  BY <1>7, PortsUnchanged DEF WaitForRegex
<1>8. ASSUME NEW c \in Checkpoints, BlockNewConnections(c)
      PROVE  PortInv'
  BY <1>8, PortsUnchanged DEF BlockNewConnections
<1>9. ASSUME NEW c \in Checkpoints, DestroySocks(c)
      PROVE  PortInv'
  BY <1>9, PortsUnchanged DEF DestroySocks
<1>10. ASSUME NEW c \in Checkpoints, CheckpointContainer(c)
      PROVE  PortInv'
  BY <1>10, PortsUnchanged DEF CheckpointContainer
<1>11. ASSUME NEW c \in Checkpoints, Push(c)
      PROVE  PortInv'
  BY <1>11, PortsUnchanged DEF Push
<1>12. ASSUME NEW c \in Checkpoints, StepFails(c)
      PROVE  PortInv'
  BY <1>12, PortsUnchanged DEF StepFails
<1>13. ASSUME NEW c \in Checkpoints, Finish(c)
      PROVE  PortInv'
  <2>1. \A d \in Checkpoints : store'[d].port = store[d].port
    <3>1. store' = [store EXCEPT ![c] =
              [state |-> result[c].state, port |-> store[c].port,
               message |-> result[c].message, completedAt |-> "recent"]]
      BY <1>13, FinishUpdate
    <3>. QED
      BY <3>1 DEF TypeOK
  <2>. QED
    BY <1>13, <2>1, PortsUnchanged DEF Finish
<1>14. ASSUME CollectStatuses
      PROVE  PortInv'
  <2>1. /\ \A d \in Checkpoints : store'[d].port # NoPort => d \notin Expired /\ store'[d] = store[d]
        /\ allocated' = allocated \ {store[d].port : d \in Expired} /\ held' = held
    BY <1>14 DEF NoCheckpoint, FreeExpired, CollectStatuses
  <2>2. Expired \subseteq Checkpoints
    BY DEF Expired
  <2>3. \A d \in Expired : store[d].port \notin held
    BY <2>2, PortsAssumption DEF TypeOK, PortInv, StoredPortsExclusive
  <2>. QED
    BY <2>1, <2>2, <2>3 DEF PortInv, StoredPortsExclusive
<1>15. ASSUME RemoveFiles
      PROVE  PortInv'
  BY <1>15, PortsUnchanged DEF RemoveFiles
<1>16. ASSUME ListPodSandbox
      PROVE  PortInv'
  BY <1>16, PortsUnchanged DEF ListPodSandbox
<1>17. ASSUME NEW c \in Checkpoints, RemovePodSandbox(c)
      PROVE  PortInv'
  BY <1>17, PortsUnchanged DEF RemovePodSandbox
<1>18. ASSUME GarbageCollected
      PROVE  PortInv'
  BY <1>18, PortsUnchanged DEF GarbageCollected
<1>19. ASSUME CollectorFails
      PROVE  PortInv'
  BY <1>19, PortsUnchanged DEF CollectorFails
<1>20. ASSUME NEW c \in Checkpoints, NEW kind \in Connections, Connect(c, kind)
      PROVE  PortInv'
  BY <1>20, PortsUnchanged DEF Connect
<1>21. ASSUME NEW c \in Checkpoints, LinkCollected(c)
      PROVE  PortInv'
  BY <1>21, PortsUnchanged DEF LinkCollected
<1>22. ASSUME NEW p \in WorkloadPorts, WorkloadPort(p)
      PROVE  PortInv'
  <2>1. CASE Allocate(allocated, p) /\ allocated' = allocated \cup {p} /\ held' = held \cup {p}
    BY <1>22, <2>1 DEF PortInv, StoredPortsExclusive, Allocate, WorkloadPort
  <2>2. CASE p \in held /\ allocated' = Free(allocated, p) /\ held' = held \ {p}
    BY <1>22, <2>2 DEF PortInv, StoredPortsExclusive, Free, WorkloadPort
  <2>. QED
    BY <1>22, <2>1, <2>2 DEF WorkloadPort
<1>23. ASSUME NEW c \in Checkpoints, RetentionOver(c)
      PROVE  PortInv'
  <2>1. \A d \in Checkpoints : store'[d].port = store[d].port
    BY <1>23 DEF TypeOK, RetentionOver
  <2>. QED
    BY <1>23, <2>1, PortsUnchanged DEF RetentionOver
<1>24. ASSUME Restart
      PROVE  PortInv'
  BY <1>24 DEF PortInv, StoredPortsExclusive, NoCheckpoint, Restart
<1>25. CASE UNCHANGED vars
  BY <1>25, PortsUnchanged DEF vars
<1>26. ASSUME NEW c \in Checkpoints, FinishState(c)
      PROVE  PortInv'
  <2>1. \A d \in Checkpoints : store'[d].port = store[d].port
    <3>1. store' = [store EXCEPT ![c] =
              [state |-> result[c].state, port |-> store[c].port,
               message |-> "none", completedAt |-> "unset"]]
      BY <1>26, FinishStateUpdate
    <3>. QED
      BY <3>1 DEF TypeOK
  <2>. QED
    BY <1>26, <2>1, PortsUnchanged DEF FinishState
<1>27. ASSUME NEW c \in Checkpoints, AcceptConnection(c)
      PROVE  PortInv'
  BY <1>27, PortsUnchanged DEF AcceptConnection
<1>. QED
  BY <1>1, <1>2, <1>3, <1>4, <1>5, <1>6, <1>7, <1>8, <1>9, <1>10, <1>11, <1>12, <1>13,
     <1>14, <1>15, <1>16, <1>17, <1>18, <1>19, <1>20, <1>21, <1>22, <1>23, <1>24, <1>25,
     <1>26, <1>27
     DEF Next, Collector, Goroutine

LEMMA SocketStep == TypeOK /\ SocketInv /\ [Next]_vars => SocketInv'
<1> SUFFICES ASSUME TypeOK, SocketInv, [Next]_vars
             PROVE  SocketInv'
  OBVIOUS
<1>1. ASSUME NEW c \in Checkpoints, CreateCheckpoint(c)
      PROVE  SocketInv'
  BY <1>1 DEF SocketInv, TypeOK, Goto, netVars, CreateCheckpoint
<1>2. ASSUME NEW c \in Checkpoints, Start(c)
      PROVE  SocketInv'
  BY <1>2 DEF SocketInv, TypeOK, Goto, netVars, Start
<1>3. ASSUME NEW c \in Checkpoints, EnsureImage(c)
      PROVE  SocketInv'
  BY <1>3 DEF SocketInv, TypeOK, Goto, netVars, EnsureImage
<1>4. ASSUME NEW c \in Checkpoints, NEW p \in Ports, AllocatePort(c, p)
      PROVE  SocketInv'
  BY <1>4 DEF SocketInv, TypeOK, Goto, netVars, AllocatePort
<1>5. ASSUME NEW c \in Checkpoints, RunPodSandbox(c)
      PROVE  SocketInv'
  BY <1>5 DEF SocketInv, TypeOK, Goto, netVars, RunPodSandbox
<1>6. ASSUME NEW c \in Checkpoints, RunContainer(c)
      PROVE  SocketInv'
  BY <1>6 DEF SocketInv, TypeOK, Goto, RunContainer
<1>7. ASSUME NEW c \in Checkpoints, WaitForRegex(c)
      PROVE  SocketInv'
  BY <1>7 DEF SocketInv, TypeOK, Goto, netVars, WaitForRegex
<1>8. ASSUME NEW c \in Checkpoints, BlockNewConnections(c)
      PROVE  SocketInv'
  BY <1>8 DEF SocketInv, TypeOK, Goto, BlockNewConnections
<1>9. ASSUME NEW c \in Checkpoints, DestroySocks(c)
      PROVE  SocketInv'
  <2>1. SparedByTCP \cap SparedByUDP = {"listen", "udp_server"}
    BY DEF SparedByTCP, SparedByUDP
  <2>2. socks' = [socks EXCEPT ![c] = socks[c] \cap {"listen", "udp_server"}]
    BY <1>9, <2>1 DEF TypeOK, DestroySocks
  <2>3. /\ pc' = [pc EXCEPT ![c] = "snapshot"] /\ pc[c] = "destroy" /\ c \in pods
        /\ UNCHANGED <<pods, blocked>>
    BY <1>9 DEF Goto, DestroySocks
  <2>4. /\ socks'[c] = socks[c] \cap {"listen", "udp_server"} /\ pc'[c] = "snapshot"
        /\ \A d \in Checkpoints \ {c} : socks'[d] = socks[d] /\ pc'[d] = pc[d]
    BY <2>2, <2>3 DEF TypeOK
  <2>. QED
    BY <2>3, <2>4, SMT DEF SocketInv
<1>10. ASSUME NEW c \in Checkpoints, CheckpointContainer(c)
      PROVE  SocketInv'
  BY <1>10 DEF SocketInv, TypeOK, Goto, SocketsDone, CheckpointContainer
<1>11. ASSUME NEW c \in Checkpoints, Push(c)
      PROVE  SocketInv'
  BY <1>11 DEF SocketInv, TypeOK, Goto, netVars, Push
<1>12. ASSUME NEW c \in Checkpoints, StepFails(c)
      PROVE  SocketInv'
  <2>1. pc'[c] = "finish" /\ \A d \in Checkpoints \ {c} : pc'[d] = pc[d]
    BY <1>12 DEF TypeOK, Goto, StepFails
  <2>2. \A d \in Checkpoints \ {c} : socks'[d] = socks[d] /\ blocked'[d] = blocked[d]
    BY <1>12 DEF TypeOK, SocketsDone, StepFails
  <2>3. \A d \in Checkpoints \ {c} : d \in pods' => d \in pods
    BY <1>12 DEF StepFails
  <2>. QED
    BY <2>1, <2>2, <2>3 DEF SocketInv
<1>13. ASSUME NEW c \in Checkpoints, Finish(c)
      PROVE  SocketInv'
  BY <1>13 DEF SocketInv, TypeOK, Goto, netVars, Finish
<1>14. ASSUME CollectStatuses
      PROVE  SocketInv'
  BY <1>14 DEF SocketInv, netVars, CollectStatuses
<1>15. ASSUME RemoveFiles
      PROVE  SocketInv'
  BY <1>15 DEF SocketInv, netVars, RemoveFiles
<1>16. ASSUME ListPodSandbox
      PROVE  SocketInv'
  BY <1>16 DEF SocketInv, netVars, ListPodSandbox
<1>17. ASSUME NEW c \in Checkpoints, RemovePodSandbox(c)
      PROVE  SocketInv'
  BY <1>17 DEF SocketInv, TypeOK, SocketsDone, RemovePodSandbox
<1>18. ASSUME GarbageCollected
      PROVE  SocketInv'
  BY <1>18 DEF SocketInv, netVars, GarbageCollected
<1>19. ASSUME CollectorFails
      PROVE  SocketInv'
  BY <1>19 DEF SocketInv, netVars, CollectorFails
<1>20. ASSUME NEW c \in Checkpoints, NEW kind \in Connections, Connect(c, kind)
      PROVE  SocketInv'
  <2>1. kind \in {"tcp", "udp"}
    BY <1>20, CheckpointsAssumption DEF Connect
  <2>2. pc[c] \in {"destroy", "snapshot"} => blocked[c] = "lifted"
    BY <1>20 DEF SocketInv, Connect
  <2>. QED
    BY <1>20, <2>1, <2>2 DEF TypeOK, SocketInv, Connect
<1>21. ASSUME NEW c \in Checkpoints, LinkCollected(c)
      PROVE  SocketInv'
  BY <1>21 DEF SocketInv, TypeOK, LinkCollected
<1>22. ASSUME NEW p \in WorkloadPorts, WorkloadPort(p)
      PROVE  SocketInv'
  BY <1>22 DEF SocketInv, netVars, WorkloadPort
<1>23. ASSUME NEW c \in Checkpoints, RetentionOver(c)
      PROVE  SocketInv'
  BY <1>23 DEF SocketInv, netVars, RetentionOver
<1>24. ASSUME Restart
      PROVE  SocketInv'
  BY <1>24 DEF TypeOK, SocketInv, Restart
<1>25. CASE UNCHANGED vars
  BY <1>25 DEF SocketInv, vars, netVars
<1>26. ASSUME NEW c \in Checkpoints, FinishState(c)
      PROVE  SocketInv'
  BY <1>26 DEF SocketInv, TypeOK, Goto, netVars, FinishState
<1>27. ASSUME NEW c \in Checkpoints, AcceptConnection(c)
      PROVE  SocketInv'
  <2>1. pc[c] = "snapshot" => socks'[c] = socks[c] \cup {"late"}
    BY <1>27 DEF TypeOK, AcceptConnection
  <2>2. socks[c] \subseteq socks'[c] /\ socks'[c] \subseteq socks[c] \cup {"late", "accepted"}
    BY <1>27 DEF TypeOK, AcceptConnection
  <2>3. \A d \in Checkpoints \ {c} : socks'[d] = socks[d]
    BY <1>27 DEF TypeOK, AcceptConnection
  <2>4. UNCHANGED <<pc, pods, blocked>> /\ socks[c] # {}
    BY <1>27 DEF AcceptConnection
  <2>. QED
    BY <2>1, <2>2, <2>3, <2>4 DEF SocketInv
<1>. QED
  BY <1>1, <1>2, <1>3, <1>4, <1>5, <1>6, <1>7, <1>8, <1>9, <1>10, <1>11, <1>12, <1>13,
     <1>14, <1>15, <1>16, <1>17, <1>18, <1>19, <1>20, <1>21, <1>22, <1>23, <1>24, <1>25,
     <1>26, <1>27
     DEF Next, Collector, Goroutine

LEMMA KeepStep == TypeOK /\ PhaseInv /\ KeepInv /\ [Next]_vars => KeepInv'
<1> SUFFICES ASSUME TypeOK, PhaseInv, KeepInv, [Next]_vars
             PROVE  KeepInv'
  OBVIOUS
<1>1. ASSUME NEW c \in Checkpoints, CreateCheckpoint(c)
      PROVE  KeepInv'
  BY <1>1 DEF KeepInv, TypeOK, Steps, Goto, CreateCheckpoint
<1>2. ASSUME NEW c \in Checkpoints, Start(c)
      PROVE  KeepInv'
  <2>1. pc' = [pc EXCEPT ![c] = "pull"] /\ UNCHANGED <<pods, files, gc>>
    BY <1>2 DEF Goto, Start
  <2>2. between' = between \/ (gc.at = "idle" /\ between' = between \cup {c})
    BY <1>2 DEF Start
  <2>3. c \notin between
    BY <1>2 DEF KeepInv, Steps, Start
  <2>. QED
    BY <2>1, <2>2, <2>3, SMT DEF TypeOK, KeepInv, Steps
<1>3. ASSUME NEW c \in Checkpoints, EnsureImage(c)
      PROVE  KeepInv'
  BY <1>3 DEF KeepInv, TypeOK, Steps, Goto, EnsureImage
<1>4. ASSUME NEW c \in Checkpoints, NEW p \in Ports, AllocatePort(c, p)
      PROVE  KeepInv'
  BY <1>4 DEF KeepInv, TypeOK, Steps, Goto, AllocatePort
<1>5. ASSUME NEW c \in Checkpoints, RunPodSandbox(c)
      PROVE  KeepInv'
  BY <1>5 DEF KeepInv, TypeOK, Steps, Goto, RunPodSandbox
<1>6. ASSUME NEW c \in Checkpoints, RunContainer(c)
      PROVE  KeepInv'
  BY <1>6 DEF KeepInv, TypeOK, Steps, Goto, RunContainer
<1>7. ASSUME NEW c \in Checkpoints, WaitForRegex(c)
      PROVE  KeepInv'
  BY <1>7 DEF KeepInv, TypeOK, Steps, Goto, WaitForRegex
<1>8. ASSUME NEW c \in Checkpoints, BlockNewConnections(c)
      PROVE  KeepInv'
  BY <1>8 DEF KeepInv, TypeOK, Steps, Goto, BlockNewConnections
<1>9. ASSUME NEW c \in Checkpoints, DestroySocks(c)
      PROVE  KeepInv'
  BY <1>9 DEF KeepInv, TypeOK, Steps, Goto, DestroySocks
<1>10. ASSUME NEW c \in Checkpoints, CheckpointContainer(c)
      PROVE  KeepInv'
  BY <1>10 DEF KeepInv, TypeOK, Steps, Goto, CheckpointContainer
<1>11. ASSUME NEW c \in Checkpoints, Push(c)
      PROVE  KeepInv'
  BY <1>11 DEF KeepInv, TypeOK, Steps, Goto, Push
<1>12. ASSUME NEW c \in Checkpoints, StepFails(c)
      PROVE  KeepInv'
  <2>1. pc' = [pc EXCEPT ![c] = "finish"] /\ UNCHANGED <<between, gc>>
    BY <1>12 DEF Goto, StepFails
  <2>2. pods \subseteq pods' /\ files \subseteq files'
    BY <1>12 DEF StepFails
  <2>. QED
    BY <2>1, <2>2 DEF TypeOK, KeepInv, Steps
<1>13. ASSUME NEW c \in Checkpoints, Finish(c)
      PROVE  KeepInv'
  BY <1>13 DEF KeepInv, TypeOK, Steps, Goto, Finish
<1>14. ASSUME CollectStatuses
      PROVE  KeepInv'
  <2>1. \A c \in between : store[c].state = "RUNNING" /\ c \in Checkpoints
    BY DEF TypeOK, PhaseInv, KeepInv
  <2>. QED
    BY <1>14, <2>1 DEF KeepInv, CollectStatuses
<1>15. ASSUME RemoveFiles
      PROVE  KeepInv'
  BY <1>15 DEF KeepInv, RemoveFiles
<1>16. ASSUME ListPodSandbox
      PROVE  KeepInv'
  BY <1>16 DEF KeepInv, Zombies, ListPodSandbox
<1>17. ASSUME NEW c \in Checkpoints, RemovePodSandbox(c)
      PROVE  KeepInv'
  BY <1>17 DEF KeepInv, RemovePodSandbox
<1>18. ASSUME GarbageCollected
      PROVE  KeepInv'
  BY <1>18 DEF KeepInv, GarbageCollected
<1>19. ASSUME CollectorFails
      PROVE  KeepInv'
  <2>1. \A c \in between : c \in files => c \in files'
    BY <1>19 DEF KeepInv, CollectorFails
  <2>. QED
    BY <1>19, <2>1 DEF KeepInv, CollectorFails
<1>20. ASSUME NEW c \in Checkpoints, NEW kind \in Connections, Connect(c, kind)
      PROVE  KeepInv'
  BY <1>20 DEF KeepInv, Connect
<1>21. ASSUME NEW c \in Checkpoints, LinkCollected(c)
      PROVE  KeepInv'
  BY <1>21 DEF KeepInv, LinkCollected
<1>22. ASSUME NEW p \in WorkloadPorts, WorkloadPort(p)
      PROVE  KeepInv'
  BY <1>22 DEF KeepInv, WorkloadPort
<1>23. ASSUME NEW c \in Checkpoints, RetentionOver(c)
      PROVE  KeepInv'
  BY <1>23 DEF KeepInv, RetentionOver
<1>24. ASSUME Restart
      PROVE  KeepInv'
  BY <1>24 DEF KeepInv, Restart
<1>25. CASE UNCHANGED vars
  BY <1>25 DEF KeepInv, vars, netVars
<1>26. ASSUME NEW c \in Checkpoints, FinishState(c)
      PROVE  KeepInv'
  BY <1>26 DEF KeepInv, TypeOK, Steps, Goto, FinishState
<1>27. ASSUME NEW c \in Checkpoints, AcceptConnection(c)
      PROVE  KeepInv'
  BY <1>27 DEF KeepInv, AcceptConnection
<1>. QED
  BY <1>1, <1>2, <1>3, <1>4, <1>5, <1>6, <1>7, <1>8, <1>9, <1>10, <1>11, <1>12, <1>13,
     <1>14, <1>15, <1>16, <1>17, <1>18, <1>19, <1>20, <1>21, <1>22, <1>23, <1>24, <1>25,
     <1>26, <1>27
     DEF Next, Collector, Goroutine

LEMMA Inductive == IInv /\ [Next]_vars => IInv'
  BY TypeStep, PhaseStep, ResultStep, PortStep, SocketStep, KeepStep DEF IInv

LEMMA Initial == Init => IInv
<1> SUFFICES ASSUME Init PROVE IInv
  OBVIOUS
<1>1. TypeOK
  BY TypeInit
<1>2. PhaseInv /\ ResultInv
  BY DEF Init, PhaseInv, ResultInv, NoCheckpoint, NoResult, Steps
<1>3. PortInv
  BY DEF Init, PortInv, StoredPortsExclusive, NoCheckpoint
<1>4. SocketInv /\ KeepInv
  BY DEF Init, SocketInv, KeepInv
<1>. QED
  BY <1>1, <1>2, <1>3, <1>4 DEF IInv
-----------------------------------------------------------------------------
(* The statuses, ports and sets of the service have their types; every     *)
(* result of checkpoint is a state of the API (service.go:225-238).        *)
THEOREM CheckpointTypeCorrect == Spec => []TypeOK
<1>1. IInv => TypeOK
  BY DEF IInv
<1>. QED
  BY <1>1, Initial, Inductive, PTL DEF Spec

(* However many checkpoints and workloads share the allocator: the port of *)
(* a stored checkpoint belongs to nobody else (service.go:108-135, 347).   *)
THEOREM CheckpointPortsAreExclusive == Spec => []StoredPortsExclusive
<1>1. IInv => StoredPortsExclusive
  BY DEF IInv, PortInv
<1>. QED
  BY <1>1, Initial, Inductive, PTL DEF Spec

(* No round of CollectGarbage takes away the pod or the tarball of a       *)
(* checkpoint it could have seen RUNNING (service.go:108-208).             *)
THEOREM CollectorSparesCheckpoints == Spec => []PodOutlivesCheckpoint
<1>1. IInv => PodOutlivesCheckpoint
  BY DEF IInv, KeepInv, PodOutlivesCheckpoint
<1>. QED
  BY <1>1, Initial, Inductive, PTL DEF Spec

(* A snapshot has no connection that was accepted before DestroySocks, and *)
(* none the server opened itself unless the link that refuses connect was  *)
(* closed (service.go:263-289, sock.c).                                    *)
THEOREM SnapshotsHaveNoConnection == Spec => []NoConnectionSaved
<1>1. IInv => NoConnectionSaved
  BY DEF IInv, SocketInv, NoConnectionSaved
<1>. QED
  BY <1>1, Initial, Inductive, PTL DEF Spec

(* A snapshot has the listening sockets of the server (sock.c:22-86). *)
THEOREM SnapshotsHaveServers == Spec => []ServersSaved
<1>1. IInv => ServersSaved
  BY DEF IInv, TypeOK, SocketInv, ServersSaved
<1>. QED
  BY <1>1, Initial, Inductive, PTL DEF Spec
-----------------------------------------------------------------------------
(* Refinement. *)

LEMMA AnswerUnused == ASSUME NEW m, NEW st PROVE Answer("unused", m, st) = "unused"
  BY DEF Answer

LEMMA AnswerAccepted == ASSUME NEW m, NEW st PROVE Answer("start", m, st) = "accepted"
  BY DEF Answer

LEMMA AnswerGone ==
    ASSUME NEW step, step # "unused", step # "start", NEW m
    PROVE  Answer(step, m, NoCheckpoint) = "gone"
  BY DEF Answer, NoCheckpoint

LEMMA AnswerRunning ==
    ASSUME NEW step \in Steps \cup {"finish"}, NEW m, NEW st, st.state = "RUNNING"
    PROVE  Answer(step, m, st) = "RUNNING"
<1>1. st # NoCheckpoint
  BY SMT DEF NoCheckpoint
<1>. QED
  BY <1>1 DEF Answer, Steps

(* Between the writes of the state and of the message. *)
LEMMA AnswerWritten ==
    ASSUME NEW m, NEW st, st.state \in CheckpointStates \ {"RUNNING"}, st.message = "none"
    PROVE  /\ Answer("written", m, st) \in {"COMPLETED", "COMPLETED_TOO_EARLY", "FAILED"}
           /\ Answer("written", m, st) = "COMPLETED" => m = "none"
<1>1. st # NoCheckpoint
  BY SMT DEF NoCheckpoint, CheckpointStates
<1>. QED
  BY <1>1 DEF Answer

LEMMA AnswerTooEarly ==
    ASSUME NEW m, m # "none", NEW st, st.state = "COMPLETED", st.message = "none"
    PROVE  Answer("written", m, st) = "COMPLETED_TOO_EARLY"
<1>1. st # NoCheckpoint
  BY SMT DEF NoCheckpoint
<1>. QED
  BY <1>1 DEF Answer

LEMMA AnswerFinal ==
    ASSUME NEW m, NEW st, st.state \in CheckpointStates \ {"RUNNING"}, st.message = "none",
           st.state = "COMPLETED" => m = "none"
    PROVE  Answer("written", m, st) = IF st.state = "COMPLETED" THEN "COMPLETED" ELSE "FAILED"
<1>1. st # NoCheckpoint
  BY SMT DEF NoCheckpoint, CheckpointStates
<1>. QED
  BY <1>1 DEF Answer

LEMMA AnswerFinished ==
    ASSUME NEW st, st.state \in CheckpointStates \ {"RUNNING"}
    PROVE  /\ Answer("done", "none", st) \in API!Finished
           /\ st.state = "COMPLETED" /\ st.message # "none" =>
                  Answer("done", "none", st) = "COMPLETED_WITH_MESSAGE"
           /\ st.state = "COMPLETED" /\ st.message = "none" =>
                  Answer("done", "none", st) = "COMPLETED"
           /\ st.state # "COMPLETED" => Answer("done", "none", st) = "FAILED"
<1>1. st # NoCheckpoint
  BY SMT DEF NoCheckpoint, CheckpointStates
<1>. QED
  BY <1>1 DEF Answer, API!Finished

(* The caller sees nothing of a step after which no goroutine has entered  *)
(* or left one of the phases a caller can tell apart.                      *)
LEMMA Unseen ==
    ASSUME \A c \in Checkpoints : Answer(pc'[c], result'[c].message, store'[c]) = Answer(pc[c], result[c].message, store[c])
    PROVE  apiAnswer' = apiAnswer
  BY DEF apiAnswer

LEMMA Seen ==
    ASSUME NEW c \in Checkpoints, NEW a, Answer(pc'[c], result'[c].message, store'[c]) = a,
           \A d \in Checkpoints \ {c} :
               pc'[d] = pc[d] /\ result'[d] = result[d] /\ store'[d] = store[d]
    PROVE  apiAnswer' = [apiAnswer EXCEPT ![c] = a]
  BY DEF apiAnswer

(* A step of a goroutine before its deferred Update. *)
LEMMA StillRunning ==
    ASSUME TypeOK, PhaseInv, NEW c \in Checkpoints, pc[c] \in Steps,
           NEW s \in Steps \cup {"finish"}, Goto(c, s), store' = store,
           \A d \in Checkpoints \ {c} : result'[d] = result[d]
    PROVE  apiAnswer[c] = "RUNNING" /\ apiAnswer' = apiAnswer
<1>1. store[c].state = "RUNNING"
  BY DEF PhaseInv
<1>2. Answer(pc[c], result[c].message, store[c]) = "RUNNING" /\ Answer(s, result'[c].message, store[c]) = "RUNNING"
  BY <1>1, AnswerRunning
<1>3. pc' = [pc EXCEPT ![c] = s]
  BY DEF Goto
<1>4. \A d \in Checkpoints : Answer(pc'[d], result'[d].message, store'[d]) = Answer(pc[d], result[d].message, store[d])
  BY <1>2, <1>3 DEF TypeOK
<1>. QED
  BY <1>2, <1>4, Unseen DEF apiAnswer

LEMMA RefinesStep == IInv /\ [Next]_vars => [API!APINext]_(API!apiVars)
<1> SUFFICES ASSUME TypeOK, PhaseInv, ResultInv, [Next]_vars
             PROVE  [API!APINext]_(API!apiVars)
  BY DEF IInv
<1>1. ASSUME NEW c \in Checkpoints, CreateCheckpoint(c)
      PROVE  [API!APINext]_(API!apiVars)
  <2>1. pc' = [pc EXCEPT ![c] = "start"] /\ UNCHANGED <<store, result, pushed>> /\ pc[c] = "unused"
    BY <1>1 DEF Goto, CreateCheckpoint
  <2>2. apiAnswer[c] = "unused"
    BY <2>1, AnswerUnused DEF apiAnswer
  <2>3. Answer(pc'[c], result'[c].message, store'[c]) = "accepted"
    BY <2>1, AnswerAccepted DEF TypeOK
  <2>4. apiAnswer' = [apiAnswer EXCEPT ![c] = "accepted"]
    BY <2>1, <2>3, Seen DEF TypeOK
  <2>. QED
    BY <2>1, <2>2, <2>4 DEF API!APINext, API!Accept, API!Becomes
<1>2. ASSUME NEW c \in Checkpoints, Start(c)
      PROVE  [API!APINext]_(API!apiVars)
  <2>1. store' = [store EXCEPT ![c] = Running(NoPort)]
    BY <1>2, StartUpdate
  <2>2. pc' = [pc EXCEPT ![c] = "pull"] /\ UNCHANGED <<result, pushed>> /\ pc[c] = "start"
    BY <1>2 DEF Goto, Start
  <2>3. apiAnswer[c] = "accepted"
    BY <2>2, AnswerAccepted DEF apiAnswer
  <2>4. pc'[c] = "pull" /\ store'[c].state = "RUNNING"
    BY <2>1, <2>2 DEF TypeOK, Running
  <2>5. Answer(pc'[c], result'[c].message, store'[c]) = "RUNNING"
    BY <2>4, AnswerRunning DEF Steps
  <2>6. apiAnswer' = [apiAnswer EXCEPT ![c] = "RUNNING"]
    BY <2>1, <2>2, <2>5, Seen DEF TypeOK
  <2>. QED
    BY <2>2, <2>3, <2>6 DEF API!APINext, API!Service, API!Begin, API!Becomes
<1>3. ASSUME NEW c \in Checkpoints, EnsureImage(c)
      PROVE  [API!APINext]_(API!apiVars)
  <2>1. apiAnswer' = apiAnswer
    BY <1>3, StillRunning DEF Steps, EnsureImage
  <2>. QED
    BY <1>3, <2>1 DEF API!apiVars, EnsureImage
<1>4. ASSUME NEW c \in Checkpoints, NEW p \in Ports, AllocatePort(c, p)
      PROVE  [API!APINext]_(API!apiVars)
  <2>1. store' = [store EXCEPT ![c] = Running(p)]
    BY <1>4, AllocateUpdate
  <2>2. pc' = [pc EXCEPT ![c] = "pod"] /\ UNCHANGED <<result, pushed>> /\ pc[c] = "port"
    BY <1>4 DEF Goto, AllocatePort
  <2>3. store[c].state = "RUNNING" /\ store'[c].state = "RUNNING" /\ pc'[c] = "pod"
    BY <2>1, <2>2 DEF TypeOK, PhaseInv, Steps, Running
  <2>4. Answer(pc[c], result[c].message, store[c]) = "RUNNING" /\ Answer(pc'[c], result'[c].message, store'[c]) = "RUNNING"
    BY <2>2, <2>3, AnswerRunning DEF Steps
  <2>5. \A d \in Checkpoints : Answer(pc'[d], result'[d].message, store'[d]) = Answer(pc[d], result[d].message, store[d])
    BY <2>1, <2>2, <2>4 DEF TypeOK
  <2>. QED
    BY <2>2, <2>5, Unseen DEF API!apiVars
<1>5. ASSUME NEW c \in Checkpoints, RunPodSandbox(c)
      PROVE  [API!APINext]_(API!apiVars)
  <2>1. apiAnswer' = apiAnswer
    BY <1>5, StillRunning DEF Steps, RunPodSandbox
  <2>. QED
    BY <1>5, <2>1 DEF API!apiVars, RunPodSandbox
<1>6. ASSUME NEW c \in Checkpoints, RunContainer(c)
      PROVE  [API!APINext]_(API!apiVars)
  <2>1. apiAnswer' = apiAnswer
    BY <1>6, StillRunning DEF Steps, RunContainer
  <2>. QED
    BY <1>6, <2>1 DEF API!apiVars, RunContainer
<1>7. ASSUME NEW c \in Checkpoints, WaitForRegex(c)
      PROVE  [API!APINext]_(API!apiVars)
  <2>1. apiAnswer' = apiAnswer
    BY <1>7, StillRunning DEF Steps, WaitForRegex
  <2>. QED
    BY <1>7, <2>1 DEF API!apiVars, WaitForRegex
<1>8. ASSUME NEW c \in Checkpoints, BlockNewConnections(c)
      PROVE  [API!APINext]_(API!apiVars)
  <2>1. apiAnswer' = apiAnswer
    BY <1>8, StillRunning DEF Steps, BlockNewConnections
  <2>. QED
    BY <1>8, <2>1 DEF API!apiVars, BlockNewConnections
<1>9. ASSUME NEW c \in Checkpoints, DestroySocks(c)
      PROVE  [API!APINext]_(API!apiVars)
  <2>1. apiAnswer' = apiAnswer
    BY <1>9, StillRunning DEF Steps, DestroySocks
  <2>. QED
    BY <1>9, <2>1 DEF API!apiVars, DestroySocks
<1>10. ASSUME NEW c \in Checkpoints, CheckpointContainer(c)
      PROVE  [API!APINext]_(API!apiVars)
  <2>1. apiAnswer' = apiAnswer
    BY <1>10, StillRunning DEF Steps, CheckpointContainer
  <2>. QED
    BY <1>10, <2>1 DEF API!apiVars, CheckpointContainer
<1>11. ASSUME NEW c \in Checkpoints, Push(c)
      PROVE  [API!APINext]_(API!apiVars)
  <2>1. apiAnswer[c] = "RUNNING" /\ apiAnswer' = apiAnswer
    BY <1>11, StillRunning DEF Steps, Push
  <2>. QED
    BY <1>11, <2>1 DEF API!APINext, API!Service, API!PushImage, Push
<1>12. ASSUME NEW c \in Checkpoints, StepFails(c)
      PROVE  [API!APINext]_(API!apiVars)
  <2>0. \A d \in Checkpoints \ {c} : result'[d] = result[d]
    BY <1>12 DEF TypeOK, StepFails
  <2>1. apiAnswer[c] = "RUNNING" /\ apiAnswer' = apiAnswer
    BY <1>12, <2>0, StillRunning DEF StepFails
  <2>2. pushed' = pushed \/ pushed' = pushed \cup {c}
    BY <1>12 DEF StepFails
  <2>. QED
    BY <2>1, <2>2 DEF API!APINext, API!Service, API!PushImage, API!apiVars
<1>13. ASSUME NEW c \in Checkpoints, Finish(c)
      PROVE  [API!APINext]_(API!apiVars)
  <2>1. store' = [store EXCEPT ![c] =
            [state |-> result[c].state, port |-> store[c].port,
             message |-> result[c].message, completedAt |-> "recent"]]
    BY <1>13, FinishUpdate
  <2>2. /\ pc' = [pc EXCEPT ![c] = "done"] /\ UNCHANGED pushed /\ pc[c] = "written"
        /\ result' = [result EXCEPT ![c] = NoResult]
    BY <1>13 DEF Goto, Finish
  <2>3. /\ store[c].state = result[c].state /\ store[c].message = "none"
        /\ result[c].state \in CheckpointStates \ {"RUNNING"}
    BY <2>2 DEF TypeOK, PhaseInv, ResultInv
  <2>4. /\ pc'[c] = "done" /\ store'[c].state = result[c].state
        /\ store'[c].message = result[c].message /\ result'[c].message = "none"
    BY <2>1, <2>2 DEF TypeOK, NoResult
  <2>5. PICK a : a = Answer(pc'[c], result'[c].message, store'[c])
    OBVIOUS
  <2>6. apiAnswer' = [apiAnswer EXCEPT ![c] = a]
    BY <2>1, <2>2, <2>5, Seen DEF TypeOK
  <2>7. apiAnswer[c] = Answer("written", result[c].message, store[c])
    BY <2>2 DEF apiAnswer
  <2>10. store[c].state \in CheckpointStates \ {"RUNNING"} /\ store[c].message = "none"
    BY <2>3
  <2>8. CASE result[c].state = "COMPLETED" /\ result[c].message # "none"
    <3>1. apiAnswer[c] = "COMPLETED_TOO_EARLY"
      BY <2>3, <2>7, <2>8, AnswerTooEarly
    <3>2. a = "COMPLETED_WITH_MESSAGE"
      BY <2>3, <2>4, <2>5, <2>8, AnswerFinished
    <3>. QED
      BY <2>2, <2>6, <3>1, <3>2 DEF API!APINext, API!Service, API!AddMessage, API!Becomes
  <2>9. CASE ~(result[c].state = "COMPLETED" /\ result[c].message # "none")
    <3>1. store[c].state = "COMPLETED" => result[c].message = "none"
      BY <2>3, <2>9
    <3>2. apiAnswer[c] = IF store[c].state = "COMPLETED" THEN "COMPLETED" ELSE "FAILED"
      BY <2>7, <2>10, <3>1, AnswerFinal
    <3>3. a = IF store[c].state = "COMPLETED" THEN "COMPLETED" ELSE "FAILED"
      BY <2>3, <2>4, <2>5, <3>1, AnswerFinished
    <3>4. a = apiAnswer[c]
      BY <3>2, <3>3
    <3>5. apiAnswer' = apiAnswer
      BY <2>6, <3>4 DEF apiAnswer
    <3>. QED
      BY <2>2, <3>5 DEF API!apiVars
  <2>. QED
    BY <2>8, <2>9
<1>14. ASSUME CollectStatuses
      PROVE  [API!APINext]_(API!apiVars)
  <2>1. /\ \A c \in Expired : store'[c] = NoCheckpoint
        /\ \A c \in Checkpoints \ Expired : store'[c] = store[c]
        /\ UNCHANGED <<pc, result, pushed>>
        /\ Expired \subseteq Checkpoints
    BY <1>14 DEF Expired, CollectStatuses
  <2>2. \A c \in Expired : pc[c] = "done" /\ store[c].state \in CheckpointStates \ {"RUNNING"}
    BY DEF Expired, TypeOK, CheckpointStatus, PhaseInv, Steps
  <2>7. \A c \in Expired : result[c].message = "none"
    BY <2>1, <2>2, SMT DEF ResultInv, NoResult
  <2>3. \A c \in Expired : apiAnswer[c] \in API!Finished
    BY <2>1, <2>2, <2>7, AnswerFinished DEF apiAnswer
  <2>4. \A c \in Expired : Answer(pc'[c], result'[c].message, store'[c]) = "gone"
    BY <2>1, <2>2, AnswerGone
  <2>5. apiAnswer' = [c \in Checkpoints |-> IF c \in Expired THEN "gone" ELSE apiAnswer[c]]
    BY <2>1, <2>4 DEF apiAnswer
  <2>6. API!Forget
    BY <2>1, <2>3, <2>5 DEF API!Forget
  <2>. QED
    BY <2>6 DEF API!APINext, API!Service
<1>15. ASSUME RemoveFiles
      PROVE  [API!APINext]_(API!apiVars)
  BY <1>15 DEF API!apiVars, apiAnswer, RemoveFiles
<1>16. ASSUME ListPodSandbox
      PROVE  [API!APINext]_(API!apiVars)
  BY <1>16 DEF API!apiVars, apiAnswer, ListPodSandbox
<1>17. ASSUME NEW c \in Checkpoints, RemovePodSandbox(c)
      PROVE  [API!APINext]_(API!apiVars)
  BY <1>17 DEF API!apiVars, apiAnswer, RemovePodSandbox
<1>18. ASSUME GarbageCollected
      PROVE  [API!APINext]_(API!apiVars)
  BY <1>18 DEF API!apiVars, apiAnswer, GarbageCollected
<1>19. ASSUME CollectorFails
      PROVE  [API!APINext]_(API!apiVars)
  BY <1>19 DEF API!apiVars, apiAnswer, CollectorFails
<1>20. ASSUME NEW c \in Checkpoints, NEW kind \in Connections, Connect(c, kind)
      PROVE  [API!APINext]_(API!apiVars)
  BY <1>20 DEF API!apiVars, apiAnswer, Connect
<1>21. ASSUME NEW c \in Checkpoints, LinkCollected(c)
      PROVE  [API!APINext]_(API!apiVars)
  BY <1>21 DEF API!apiVars, apiAnswer, LinkCollected
<1>22. ASSUME NEW p \in WorkloadPorts, WorkloadPort(p)
      PROVE  [API!APINext]_(API!apiVars)
  BY <1>22 DEF API!apiVars, apiAnswer, WorkloadPort
<1>23. ASSUME NEW c \in Checkpoints, RetentionOver(c)
      PROVE  [API!APINext]_(API!apiVars)
  <2>1. pc[c] = "done" /\ store[c].state # "none" /\ store[c].state # "RUNNING"
    BY <1>23 DEF PhaseInv, Steps, RetentionOver
  <2>2. /\ store'[c].state = store[c].state /\ store'[c].message = store[c].message
        /\ \A d \in Checkpoints \ {c} : store'[d] = store[d]
        /\ UNCHANGED <<pc, result, pushed>>
    BY <1>23 DEF TypeOK, RetentionOver
  <2>3. store[c] # NoCheckpoint /\ store'[c] # NoCheckpoint
    BY <2>1, <2>2, SMT DEF NoCheckpoint
  <2>4. Answer(pc'[c], result'[c].message, store'[c]) = Answer(pc[c], result[c].message, store[c])
    BY <2>2, <2>3 DEF Answer
  <2>5. \A d \in Checkpoints : Answer(pc'[d], result'[d].message, store'[d]) = Answer(pc[d], result[d].message, store[d])
    BY <2>2, <2>4
  <2>. QED
    BY <2>2, <2>5, Unseen DEF API!apiVars
<1>24. ASSUME Restart
      PROVE  [API!APINext]_(API!apiVars)
  <2>1. /\ \A c \in Checkpoints : pc'[c] = IF pc[c] = "unused" THEN "unused" ELSE "done"
        /\ \A c \in Checkpoints : store'[c] = NoCheckpoint
        /\ UNCHANGED pushed
    BY <1>24 DEF Restart
  <2>2. \A c \in Checkpoints : apiAnswer[c] = "unused" <=> pc[c] = "unused"
    BY DEF apiAnswer, Answer
  <2>3. \A c \in Checkpoints :
            Answer(pc'[c], result'[c].message, store'[c]) = IF pc[c] = "unused" THEN "unused" ELSE "gone"
    BY <2>1, AnswerUnused, AnswerGone
  <2>4. apiAnswer' = [c \in Checkpoints |-> IF apiAnswer[c] = "unused" THEN "unused" ELSE "gone"]
    BY <2>2, <2>3 DEF apiAnswer
  <2>. QED
    BY <2>1, <2>4 DEF API!APINext, API!Service, API!LoseAll
<1>25. CASE UNCHANGED vars
  BY <1>25 DEF API!apiVars, apiAnswer, vars
<1>26. ASSUME NEW c \in Checkpoints, FinishState(c)
      PROVE  [API!APINext]_(API!apiVars)
  <2>1. store' = [store EXCEPT ![c] =
            [state |-> result[c].state, port |-> store[c].port,
             message |-> "none", completedAt |-> "unset"]]
    BY <1>26, FinishStateUpdate
  <2>2. pc' = [pc EXCEPT ![c] = "written"] /\ UNCHANGED <<pushed, result>> /\ pc[c] = "finish"
    BY <1>26 DEF Goto, FinishState
  <2>0. store[c].state = "RUNNING"
    BY <2>2 DEF PhaseInv
  <2>3. apiAnswer[c] = "RUNNING"
    BY <2>0, <2>2, AnswerRunning DEF apiAnswer
  <2>4. result[c].state \in CheckpointStates \ {"RUNNING"}
    BY DEF TypeOK, ResultInv
  <2>5. /\ pc'[c] = "written" /\ store'[c].state = result[c].state
        /\ store'[c].message = "none"
    BY <2>1, <2>2 DEF TypeOK
  <2>6. PICK a : a = Answer(pc'[c], result'[c].message, store'[c])
    OBVIOUS
  <2>7. /\ a \in {"COMPLETED", "COMPLETED_TOO_EARLY", "FAILED"}
        /\ a = "COMPLETED" => result[c].message = "none"
    BY <2>2, <2>4, <2>5, <2>6, AnswerWritten
  <2>8. a = "COMPLETED" => c \in pushed
    BY <2>2, <2>7 DEF ResultInv
  <2>9. apiAnswer' = [apiAnswer EXCEPT ![c] = a]
    BY <2>1, <2>2, <2>6, Seen DEF TypeOK
  <2>. QED
    BY <2>2, <2>3, <2>7, <2>8, <2>9 DEF API!APINext, API!Service, API!Settle, API!Becomes
<1>27. ASSUME NEW c \in Checkpoints, AcceptConnection(c)
      PROVE  [API!APINext]_(API!apiVars)
  BY <1>27 DEF API!apiVars, apiAnswer, AcceptConnection
<1>. QED
  BY <1>1, <1>2, <1>3, <1>4, <1>5, <1>6, <1>7, <1>8, <1>9, <1>10, <1>11, <1>12, <1>13,
     <1>14, <1>15, <1>16, <1>17, <1>18, <1>19, <1>20, <1>21, <1>22, <1>23, <1>24, <1>25,
     <1>26, <1>27
     DEF Next, Collector, Goroutine

(* The goroutines, the collector and restarts together implement the API:  *)
(* answers are final, and COMPLETED without a message means that the image *)
(* is in the registry, or that the message is about to be written          *)
(* (service.go:213-310, server.go:42-81, store.go:45-92).                  *)
THEOREM ServiceImplementsAPI == Spec => ImplementsAPI
<1>1. Init => API!APIInit
  BY AnswerUnused, SMT DEF Init, API!APIInit, apiAnswer
<1>. QED
  BY <1>1, Initial, Inductive, RefinesStep, PTL DEF Spec, ImplementsAPI, API!APISpec
=============================================================================
