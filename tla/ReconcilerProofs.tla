-------------------------- MODULE ReconcilerProofs --------------------------
(* Theorems about Reconciler, for every set of instances and ports, every  *)
(* number of attempts and of late reports.                                 *)
EXTENDS Reconciler, TLAPS

(* Leaves are for Zenon unless they name SMT. *)
USE Zenon

USE DEF NoPort, PortOrNone

(* Setting the state of an entry keeps its port, present or not. *)
LEMMA SetStateIs ==
    ASSUME NEW s \in [Instances -> WorkloadStatus], NEW id \in Instances,
           NEW st \in WorkloadStates
    PROVE  SetState(s, id, st) = [s EXCEPT ![id] = [state |-> st, port |-> s[id].port]]
<1>1. st # ""
  BY DEF WorkloadStates
<1>2. CASE s[id] = NoStatus
  <2>1. s[id].port = NoPort
    BY <1>2, SMT DEF NoStatus
  <2>. QED
    BY <1>2, <2>1 DEF SetState, Update
<1>3. CASE s[id] # NoStatus
  BY <1>1, <1>3 DEF SetState, Update
<1>. QED
  BY <1>2, <1>3

(* handleInstanceCreation leaves CREATING and the new port in the entry. *)
LEMMA SetCreatingIs ==
    ASSUME NEW s \in [Instances -> WorkloadStatus], NEW id \in Instances, NEW p \in Ports
    PROVE  SetPort(SetState(s, id, "CREATING"), id, p)
             = [s EXCEPT ![id] = [state |-> "CREATING", port |-> p]]
<1> DEFINE t == [s EXCEPT ![id] = [state |-> "CREATING", port |-> s[id].port]]
<1>1. SetState(s, id, "CREATING") = t
  BY SetStateIs DEF WorkloadStates
<1>2. t[id].state = "CREATING" /\ t[id] # NoStatus
  BY DEF NoStatus
<1>3. SetPort(t, id, p) = [t EXCEPT ![id] = [state |-> "CREATING", port |-> p]]
  BY <1>2, PortsAssumption DEF SetPort, Update
<1>. QED
  BY <1>1, <1>3
-----------------------------------------------------------------------------
(* Type correctness. *)

LEMMA RowsTyped ==
    ASSUME NEW t \in [Instances -> Row], NEW r \in Reports
    PROVE  PartlyApplied(t, r) \subseteq [Instances -> Row]
<1>1. BulkUpdateInstanceStateAndPort(t, r) \in [Instances -> Row]
  <2> SUFFICES ASSUME NEW id \in Instances
               PROVE  BulkUpdateInstanceStateAndPort(t, r)[id] \in Row
    BY DEF BulkUpdateInstanceStateAndPort
  <2>1. CASE t[id] # NoRow /\ r[id].state \notin {"none", "DELETED"}
    <3>1. r[id].state \in InstanceStates /\ r[id].port \in PortOrNone
      BY <2>1 DEF Reports, WorkloadStates, InstanceStates
    <3>. QED
      BY <2>1, <3>1 DEF BulkUpdateInstanceStateAndPort, Row
  <2>2. CASE ~(t[id] # NoRow /\ r[id].state \notin {"none", "DELETED"})
    BY <2>2 DEF BulkUpdateInstanceStateAndPort
  <2>. QED
    BY <2>1, <2>2
<1>2. ApplyStatusReports(t, r) \in [Instances -> Row]
  BY <1>1 DEF ApplyStatusReports, BulkDeleteInstances, NoRow, Row
<1>. QED
  BY <1>1, <1>2 DEF PartlyApplied

LEMMA StatusTyped ==
    ASSUME TypeOK, NEW id \in Instances
    PROVE  /\ \A st \in WorkloadStates : SetState(store, id, st) \in [Instances -> WorkloadStatus]
           /\ \A p \in Ports : SetPort(SetState(store, id, "CREATING"), id, p)
                                  \in [Instances -> WorkloadStatus]
           /\ Del(store, id) \in [Instances -> WorkloadStatus]
<1>1. store \in [Instances -> WorkloadStatus]
  BY DEF TypeOK
<1>2. \A st \in WorkloadStates : SetState(store, id, st) \in [Instances -> WorkloadStatus]
  <2> TAKE st \in WorkloadStates
  <2>1. [state |-> st, port |-> store[id].port] \in WorkloadStatus
    BY <1>1 DEF WorkloadStatus
  <2>. QED
    BY <1>1, <2>1, SetStateIs, SMT
<1>3. \A p \in Ports : SetPort(SetState(store, id, "CREATING"), id, p) \in [Instances -> WorkloadStatus]
  <2> TAKE p \in Ports
  <2>1. [state |-> "CREATING", port |-> p] \in WorkloadStatus
    BY DEF WorkloadStatus, WorkloadStates
  <2>. QED
    BY <1>1, <2>1, SetCreatingIs, SMT
<1>4. Del(store, id) \in [Instances -> WorkloadStatus]
  BY <1>1 DEF Del, NoStatus, WorkloadStatus
<1>. QED
  BY <1>2, <1>3, <1>4

LEMMA PodsTyped ==
    ASSUME TypeOK, NEW id \in Instances, NEW a \in Attempts
    PROVE  /\ \A st \in Stages : SetStage(pods, id, a, st) \in [Instances -> [Attempts -> Pod]]
           /\ StopPodSandbox(pods, id, a) \in [Instances -> [Attempts -> Pod]]
           /\ RemovePodSandbox(pods, id, a) \in [Instances -> [Attempts -> Pod]]
<1> pods \in [Instances -> [Attempts -> Pod]]
  BY DEF TypeOK
<1>1. pods[id] \in [Attempts -> Pod] /\ pods[id][a] \in Pod
  OBVIOUS
<1>2. \A st \in Stages : SetStage(pods, id, a, st) \in [Instances -> [Attempts -> Pod]]
  BY <1>1 DEF SetStage, Pod
<1>3. RemovePodSandbox(pods, id, a) \in [Instances -> [Attempts -> Pod]]
  BY <1>1 DEF RemovePodSandbox, NoPod, Pod, Stages
<1>. QED
  BY <1>1, <1>2, <1>3 DEF StopPodSandbox, Stages

(* An attempt that is under way is one of the allowed ones. *)
AttemptsLeft ==
    \A id \in Instances :
        /\ pc[id] \in {"allocate", "run", "boot", "finish", "cleanup"} => attempts[id] < MaxAttempts
        /\ stop[id].at = "remove" => stop[id].pod \in Attempts

TypeInv == TypeOK /\ AttemptsLeft

LEMMA TypeInit == Init => TypeInv
  BY AttemptsAssumption, SMT DEF Init, TypeInv, TypeOK, AttemptsLeft, NoRow, Row, NoReports, NoStatus,
     WorkloadStatus, Reports, NoPod, Pod, Stages, Steps, NoStop

LEMMA TypeStep == TypeInv /\ [Next \/ Restart]_vars => TypeInv'
<1> SUFFICES ASSUME TypeOK, AttemptsLeft, [Next \/ Restart]_vars
             PROVE  TypeOK' /\ AttemptsLeft'
  BY DEF TypeInv
<1> USE DEF Steps
<1>1. ASSUME NEW id \in Instances, RunFlavorVersion(id)
      PROVE  TypeOK' /\ AttemptsLeft'
  BY <1>1 DEF TypeOK, AttemptsLeft, RunFlavorVersion, PendingRow, Row, InstanceStates
<1>2. ASSUME NEW id \in Instances, MarkDeleting(id)
      PROVE  TypeOK' /\ AttemptsLeft'
  <2>0. rows[id] \in Row
    BY DEF TypeOK
  <2>1. [rows[id] EXCEPT !.state = "DELETING"] \in Row
    BY <2>0 DEF Row, InstanceStates
  <2>. QED
    BY <1>2, <2>1 DEF TypeOK, AttemptsLeft, MarkDeleting
<1>3. ASSUME NEW r \in late, ApplyLateReport(r)
      PROVE  TypeOK' /\ AttemptsLeft'
  <2>1. rows' \in [Instances -> Row]
    BY <1>3, RowsTyped DEF TypeOK, ApplyLateReport
  <2>. QED
    BY <1>3, <2>1 DEF TypeOK, AttemptsLeft, ApplyLateReport
<1>4. ASSUME DiscoverInstances
      PROVE  TypeOK' /\ AttemptsLeft'
  BY <1>4 DEF TypeOK, AttemptsLeft, DiscoverInstances, Case
<1>5. ASSUME View
      PROVE  TypeOK' /\ AttemptsLeft'
  <2>1. PICK torn \in SUBSET Instances :
           report' = [id \in Instances |->
                        IF id \in torn THEN [state |-> "PENDING", port |-> store[id].port] ELSE store[id]]
    BY <1>5 DEF View
  <2>2. report' \in Reports
    <3> SUFFICES ASSUME NEW id \in Instances
                 PROVE  report'[id] \in [state : WorkloadStates \cup {"none", "PENDING"}, port : PortOrNone]
      BY <2>1 DEF Reports
    <3>1. store[id] \in WorkloadStatus
      BY DEF TypeOK
    <3>. QED
      BY <2>1, <3>1 DEF WorkloadStatus
  <2>. QED
    BY <1>5, <2>2 DEF TypeOK, AttemptsLeft, View
<1>6. ASSUME SendReports
      PROVE  TypeOK' /\ AttemptsLeft'
  <2>1. rows' \in [Instances -> Row]
    BY <1>6, RowsTyped DEF TypeOK, SendReports, PartlyApplied
  <2>. QED
    BY <1>6, <2>1 DEF TypeOK, AttemptsLeft, SendReports
<1>7. ASSUME SendReportsError
      PROVE  TypeOK' /\ AttemptsLeft'
  <2>1. rows' \in [Instances -> Row]
    BY <1>7, RowsTyped DEF TypeOK, SendReportsError
  <2>2. late' \in SUBSET Reports
    BY <1>7 DEF TypeOK, SendReportsError
  <2>3. report' \in Reports
    BY <1>7 DEF SendReportsError, NoReports, NoStatus, Reports
  <2>. QED
    BY <1>7, <2>1, <2>2, <2>3 DEF TypeOK, AttemptsLeft, SendReportsError
<1>8. ASSUME NEW id \in Instances, Prune(id)
      PROVE  TypeOK' /\ AttemptsLeft'
  <2>1. store' \in [Instances -> WorkloadStatus]
    BY <1>8, StatusTyped DEF TypeOK, Prune
  <2>2. report' \in Reports
    BY <1>8 DEF TypeOK, Prune, NoStatus, Reports
  <2>. QED
    BY <1>8, <2>1, <2>2 DEF TypeOK, AttemptsLeft, Prune
<1>9. ASSUME TickDone
      PROVE  TypeOK' /\ AttemptsLeft'
  BY <1>9 DEF TypeOK, AttemptsLeft, TickDone
<1>10. ASSUME NEW id \in Instances, MaxAttemptsReached(id)
      PROVE  TypeOK' /\ AttemptsLeft'
  <2>1. store' \in [Instances -> WorkloadStatus]
    BY <1>10, StatusTyped DEF MaxAttemptsReached, WorkloadStates
  <2>. QED
    BY <1>10, <2>1 DEF TypeOK, AttemptsLeft, MaxAttemptsReached
<1>11. ASSUME NEW id \in Instances, SkipCreation(id)
      PROVE  TypeOK' /\ AttemptsLeft'
  BY <1>11 DEF TypeOK, AttemptsLeft, SkipCreation
<1>12. ASSUME NEW id \in Instances, BeginCreation(id)
      PROVE  TypeOK' /\ AttemptsLeft'
  BY <1>12 DEF TypeOK, AttemptsLeft, BeginCreation
<1>13. ASSUME NEW id \in Instances, NEW p \in Ports, AllocatePort(id, p)
      PROVE  TypeOK' /\ AttemptsLeft'
  <2>1. store' \in [Instances -> WorkloadStatus]
    BY <1>13, StatusTyped DEF AllocatePort
  <2>. QED
    BY <1>13, <2>1 DEF TypeOK, AttemptsLeft, AllocatePort
<1>14. ASSUME NEW id \in Instances, AllocateError(id)
      PROVE  TypeOK' /\ AttemptsLeft'
  <2>1. store' \in [Instances -> WorkloadStatus]
    BY <1>14, StatusTyped DEF AllocateError, WorkloadStates
  <2>. QED
    BY <1>14, <2>1, AttemptsAssumption, SMT DEF TypeOK, AttemptsLeft, AllocateError
<1>15. ASSUME NEW id \in Instances, RunPodSandbox(id)
      PROVE  TypeOK' /\ AttemptsLeft'
  <2>0. Attempt(id) \in Attempts
    BY <1>15, AttemptsAssumption, SMT DEF Attempt, Attempts, TypeOK, AttemptsLeft, RunPodSandbox
  <2>1. pods' \in [Instances -> [Attempts -> Pod]]
    <3>1. [stage |-> "sandbox", port |-> store[id].port] \in Pod
      BY DEF TypeOK, WorkloadStatus, Pod, Stages
    <3>. QED
      BY <1>15, <2>0, <3>1 DEF TypeOK, RunPodSandbox
  <2>. QED
    BY <1>15, <2>1 DEF TypeOK, AttemptsLeft, RunPodSandbox
<1>16. ASSUME NEW id \in Instances, StartContainers(id)
      PROVE  TypeOK' /\ AttemptsLeft'
  <2>0. Attempt(id) \in Attempts
    BY <1>16, AttemptsAssumption, SMT DEF Attempt, Attempts, TypeOK, AttemptsLeft, StartContainers
  <2>1. pods' \in [Instances -> [Attempts -> Pod]]
    BY <1>16, <2>0, PodsTyped DEF StartContainers, Stages
  <2>. QED
    BY <1>16, <2>1 DEF TypeOK, AttemptsLeft, StartContainers
<1>17. ASSUME NEW id \in Instances, CreationDone(id)
      PROVE  TypeOK' /\ AttemptsLeft'
  <2>1. store' \in [Instances -> WorkloadStatus]
    BY <1>17, StatusTyped DEF CreationDone, WorkloadStates
  <2>. QED
    BY <1>17, <2>1 DEF TypeOK, AttemptsLeft, CreationDone
<1>18. ASSUME NEW id \in Instances, RunWorkloadError(id)
      PROVE  TypeOK' /\ AttemptsLeft'
  <2>0. Attempt(id) \in Attempts
    BY <1>18, AttemptsAssumption, SMT DEF Attempt, Attempts, TypeOK, AttemptsLeft, RunWorkloadError
  <2>1. pods' \in [Instances -> [Attempts -> Pod]]
    BY <1>18, <2>0, PodsTyped, SMT DEF TypeOK, RunWorkloadError, Stages
  <2>. QED
    BY <1>18, <2>1 DEF TypeOK, AttemptsLeft, RunWorkloadError, Free
<1>19. ASSUME NEW id \in Instances, Healthy(id)
      PROVE  TypeOK' /\ AttemptsLeft'
  BY <1>19 DEF TypeOK, AttemptsLeft, Healthy
<1>20. ASSUME NEW id \in Instances, Unhealthy(id)
      PROVE  TypeOK' /\ AttemptsLeft'
  BY <1>20 DEF TypeOK, AttemptsLeft, Unhealthy
<1>21. ASSUME NEW id \in Instances, ListPodSandbox(id)
      PROVE  TypeOK' /\ AttemptsLeft'
  <2>1. PICK a \in Attempts : victim' = [victim EXCEPT ![id] = a]
    BY <1>21 DEF ListPodSandbox, PodsOf
  <2>2. a \in 0..MaxAttempts
    BY AttemptsAssumption, SMT DEF Attempts
  <2>. QED
    BY <1>21, <2>1, <2>2 DEF TypeOK, AttemptsLeft, ListPodSandbox
<1>22. ASSUME NEW id \in Instances, RemoveWorkloadDone(id)
      PROVE  TypeOK' /\ AttemptsLeft'
  <2>0. victim[id] # 0 => victim[id] \in Attempts
    BY AttemptsAssumption, SMT DEF TypeOK, Attempts
  <2>1. pods' \in [Instances -> [Attempts -> Pod]]
    BY <1>22, <2>0, PodsTyped, SMT DEF TypeOK, RemoveWorkloadDone
  <2>2. attempts' \in [Instances -> 0..MaxAttempts]
    BY <1>22, AttemptsAssumption, SMT DEF TypeOK, AttemptsLeft, RemoveWorkloadDone, CountAttempt
  <2>3. store' \in [Instances -> WorkloadStatus]
    BY <1>22, StatusTyped DEF TypeOK, RemoveWorkloadDone, WorkloadStates
  <2>4. \A j \in Instances : j # id => attempts'[j] = attempts[j] /\ pc'[j] = pc[j]
    BY <1>22 DEF TypeOK, RemoveWorkloadDone, CountAttempt
  <2>. QED
    <3>1. victim' \in [Instances -> 0..MaxAttempts]
      BY <1>22, AttemptsAssumption, SMT DEF TypeOK, RemoveWorkloadDone
    <3>2. pc' \in [Instances -> Steps] /\ pc'[id] = "idle"
      BY <1>22 DEF TypeOK, RemoveWorkloadDone
    <3>3. AttemptsLeft'
      BY <1>22, <2>4, <3>2 DEF AttemptsLeft, RemoveWorkloadDone
    <3>. QED
      BY <1>22, <2>1, <2>2, <2>3, <3>1, <3>2, <3>3 DEF TypeOK, RemoveWorkloadDone
<1>23. ASSUME NEW id \in Instances, RemoveWorkloadError(id)
      PROVE  TypeOK' /\ AttemptsLeft'
  <2>0. victim[id] # 0 => victim[id] \in Attempts
    BY AttemptsAssumption, SMT DEF TypeOK, Attempts
  <2>1. pods' \in [Instances -> [Attempts -> Pod]]
    BY <1>23, <2>0, PodsTyped, SMT DEF TypeOK, RemoveWorkloadError
  <2>2. attempts' \in [Instances -> 0..MaxAttempts]
    BY <1>23, AttemptsAssumption, SMT DEF TypeOK, AttemptsLeft, RemoveWorkloadError, CountAttempt
  <2>4. \A j \in Instances : j # id => attempts'[j] = attempts[j] /\ pc'[j] = pc[j]
    BY <1>23 DEF TypeOK, RemoveWorkloadError, CountAttempt
  <2>. QED
    <3>1. victim' \in [Instances -> 0..MaxAttempts]
      BY <1>23, AttemptsAssumption, SMT DEF TypeOK, RemoveWorkloadError
    <3>2. pc' \in [Instances -> Steps] /\ pc'[id] = "idle"
      BY <1>23 DEF TypeOK, RemoveWorkloadError
    <3>3. AttemptsLeft'
      BY <1>23, <2>4, <3>2 DEF AttemptsLeft, RemoveWorkloadError
    <3>. QED
      BY <1>23, <2>1, <2>2, <3>1, <3>2, <3>3 DEF TypeOK, RemoveWorkloadError
<1>24. ASSUME NEW id \in Instances, StopWorkload(id)
      PROVE  TypeOK' /\ AttemptsLeft'
  <2>1. PICK a \in Attempts : stop' = [stop EXCEPT ![id] = [at |-> "remove", pod |-> a]]
    BY <1>24 DEF StopWorkload, PodsOf
  <2>2. a \in 0..MaxAttempts
    BY AttemptsAssumption, SMT DEF Attempts
  <2>3. [at |-> "remove", pod |-> a] \in [at : {"idle", "remove", "update"}, pod : 0..MaxAttempts]
    BY <2>2
  <2>. QED
    BY <1>24, <2>1, <2>3 DEF TypeOK, AttemptsLeft, StopWorkload
<1>25. ASSUME NEW id \in Instances, StopRemoved(id)
      PROVE  TypeOK' /\ AttemptsLeft'
  <2>1. pods' \in [Instances -> [Attempts -> Pod]]
    BY <1>25, PodsTyped DEF TypeOK, AttemptsLeft, StopRemoved
  <2>2. stop' \in [Instances -> [at : {"idle", "remove", "update"}, pod : 0..MaxAttempts]]
    BY <1>25, AttemptsAssumption, SMT DEF TypeOK, StopRemoved, NoStop
  <2>. QED
    BY <1>25, <2>1, <2>2 DEF TypeOK, AttemptsLeft, StopRemoved, NoStop
<1>26. ASSUME NEW id \in Instances, StopError(id)
      PROVE  TypeOK' /\ AttemptsLeft'
  <2>1. pods' \in [Instances -> [Attempts -> Pod]]
    BY <1>26, PodsTyped, SMT DEF TypeOK, AttemptsLeft, StopError
  <2>2. stop' \in [Instances -> [at : {"idle", "remove", "update"}, pod : 0..MaxAttempts]]
    BY <1>26, AttemptsAssumption, SMT DEF TypeOK, StopError, NoStop
  <2>. QED
    BY <1>26, <2>1, <2>2 DEF TypeOK, AttemptsLeft, StopError, NoStop
<1>27. ASSUME NEW id \in Instances, StopUpdate(id)
      PROVE  TypeOK' /\ AttemptsLeft'
  <2>1. store' \in [Instances -> WorkloadStatus]
    BY <1>27, StatusTyped DEF StopUpdate, WorkloadStates
  <2>2. stop' \in [Instances -> [at : {"idle", "remove", "update"}, pod : 0..MaxAttempts]]
    BY <1>27, AttemptsAssumption, SMT DEF TypeOK, StopUpdate, NoStop
  <2>. QED
    BY <1>27, <2>1, <2>2 DEF TypeOK, AttemptsLeft, StopUpdate, NoStop
<1>28. ASSUME NEW id \in Instances, NEW a \in Attempts, ContainerExits(id, a)
      PROVE  TypeOK' /\ AttemptsLeft'
  <2>1. pods' \in [Instances -> [Attempts -> Pod]]
    BY <1>28, PodsTyped, SMT DEF ContainerExits, Stages
  <2>. QED
    BY <1>28, <2>1 DEF TypeOK, AttemptsLeft, ContainerExits
<1>29. ASSUME Restart
      PROVE  TypeOK' /\ AttemptsLeft'
  BY <1>29, AttemptsAssumption, SMT DEF Restart, TypeOK, AttemptsLeft, NoReports, NoStatus,
     WorkloadStatus, Reports, NoStop
<1>30. CASE UNCHANGED vars
  BY <1>30 DEF TypeOK, AttemptsLeft, vars
<1>. QED
  BY <1>1, <1>2, <1>3, <1>4, <1>5, <1>6, <1>7, <1>8, <1>9, <1>10, <1>11, <1>12, <1>13, <1>14,
     <1>15, <1>16, <1>17, <1>18, <1>19, <1>20, <1>21, <1>22, <1>23, <1>24, <1>25, <1>26, <1>27,
     <1>28, <1>29, <1>30
     DEF Next, ControlPlane, Tick, Goroutine, Stop

(* Every value the reconciler, its handlers and the control plane produce  *)
(* has its type, restarts included: in particular no attempt beyond the    *)
(* last one is ever made (reconciler.go:257).                              *)
THEOREM TypeCorrect == RestartSpec => []TypeOK
<1>1. TypeInv => TypeOK
  BY DEF TypeInv
<1>. QED
  BY TypeInit, TypeStep, <1>1, PTL DEF RestartSpec
-----------------------------------------------------------------------------
(* Ports of RUNNING instances. *)

(* The goroutine of id has allocated port p and has not given it back. *)
Holds(id, p) == pc[id] \in {"run", "boot", "finish"} /\ port[id] = p

RunningAt(st, p) == st.state = "RUNNING" /\ st.port = p

(* Some place says, or may still make the control plane say, that id runs  *)
(* on port p.                                                              *)
Mentions(id, p) ==
    \/ RunningAt(rows[id], p)
    \/ RunningAt(store[id], p)
    \/ RunningAt(report[id], p)
    \/ \E r \in late : RunningAt(r[id], p)

(* Goroutines run only between discovering and reporting. *)
TickInv == tick # "reconcile" => \A id \in Instances : pc[id] = "idle"

(* What the store says of an instance while it is being created. *)
CreatingInv ==
    \A id \in Instances :
        /\ pc[id] \in {"allocate", "run", "boot", "finish"} => store[id].state # "RUNNING"
        /\ pc[id] \in {"run", "boot", "finish"} => port[id] \in Ports /\ store[id].port = port[id]

(* A port that is held or mentioned is taken, by one instance, and is not  *)
(* mentioned before the creation that holds it has succeeded.  The last    *)
(* part is what makes it safe to free the port when the creation fails.    *)
PortInv ==
    /\ \A id \in Instances : \A p : Holds(id, p) \/ Mentions(id, p) => p \in allocated
    /\ \A i, j \in Instances : \A p :
          (Holds(i, p) \/ Mentions(i, p)) /\ (Holds(j, p) \/ Mentions(j, p)) => i = j
    /\ \A id \in Instances : \A p : ~(Holds(id, p) /\ Mentions(id, p))

IInv == TypeInv /\ TickInv /\ CreatingInv /\ PortInv

(* A step that frees no port, and after which nothing is held or mentioned *)
(* that was not before, keeps PortInv.                                     *)
LEMMA NothingNew ==
    ASSUME PortInv, allocated' = allocated,
           \A id \in Instances : \A p : Holds(id, p)' => Holds(id, p),
           \A id \in Instances : \A p : Mentions(id, p)' => Mentions(id, p)
    PROVE  PortInv'
  BY DEF PortInv

(* Applying reports makes no row RUNNING that neither was nor is reported  *)
(* to be.                                                                  *)
LEMMA ApplyMentions ==
    ASSUME NEW t \in [Instances -> Row], NEW r \in Reports,
           NEW u \in PartlyApplied(t, r), NEW id \in Instances, NEW p,
           RunningAt(u[id], p)
    PROVE  RunningAt(t[id], p) \/ RunningAt(r[id], p)
<1>1. CASE u = t
  BY <1>1
<1>2. CASE u = BulkUpdateInstanceStateAndPort(t, r)
  BY <1>2 DEF BulkUpdateInstanceStateAndPort, RunningAt
<1>3. CASE u = ApplyStatusReports(t, r)
  BY <1>3 DEF ApplyStatusReports, BulkDeleteInstances, BulkUpdateInstanceStateAndPort, RunningAt, NoRow
<1>. QED
  BY <1>1, <1>2, <1>3 DEF PartlyApplied

(* Nor does giving an entry a state other than RUNNING. *)
LEMMA SetStateMentions ==
    ASSUME TypeOK, NEW id \in Instances, NEW st \in WorkloadStates \ {"RUNNING"},
           store' = SetState(store, id, st)
    PROVE  /\ \A j \in Instances : \A p : RunningAt(store'[j], p) => RunningAt(store[j], p)
           /\ \A j \in Instances : store'[j].port = store[j].port
           /\ \A j \in Instances : store'[j].state = "RUNNING" => store[j].state = "RUNNING"
<1>1. store \in [Instances -> WorkloadStatus]
  BY DEF TypeOK
<1>2. store' = [store EXCEPT ![id] = [state |-> st, port |-> store[id].port]]
  BY <1>1, SetStateIs
<1>. QED
  BY <1>1, <1>2, SMT DEF RunningAt

LEMMA PortInit == Init => TickInv /\ CreatingInv /\ PortInv
<1> SUFFICES ASSUME Init PROVE TickInv /\ CreatingInv /\ PortInv
  OBVIOUS
<1>1. \A id \in Instances : pc[id] = "idle"
  BY DEF Init
<1>2. \A id \in Instances : \A p : ~Holds(id, p) /\ ~Mentions(id, p)
  BY <1>1 DEF Init, Holds, Mentions, RunningAt, NoRow, NoReports, NoStatus
<1>. QED
  BY <1>1, <1>2 DEF TickInv, CreatingInv, PortInv

LEMMA PortStep == IInv /\ [Next]_vars => TickInv' /\ CreatingInv' /\ PortInv'
<1> SUFFICES ASSUME TypeOK, TickInv, CreatingInv, PortInv, [Next]_vars
             PROVE  TickInv' /\ CreatingInv' /\ PortInv'
  BY DEF IInv, TypeInv
<1> USE DEF RunningAt
<1>1. ASSUME NEW id \in Instances, RunFlavorVersion(id)
      PROVE  TickInv' /\ CreatingInv' /\ PortInv'
  <2>1. \A j \in Instances : \A p : Mentions(j, p)' => Mentions(j, p)
    BY <1>1 DEF TypeOK, Mentions, RunFlavorVersion, PendingRow
  <2>. QED
    BY <1>1, <2>1, NothingNew DEF TickInv, CreatingInv, Holds, RunFlavorVersion
<1>2. ASSUME NEW id \in Instances, MarkDeleting(id)
      PROVE  TickInv' /\ CreatingInv' /\ PortInv'
  <2>1. \A j \in Instances : \A p : Mentions(j, p)' => Mentions(j, p)
    BY <1>2 DEF TypeOK, Row, Mentions, MarkDeleting
  <2>. QED
    BY <1>2, <2>1, NothingNew DEF TickInv, CreatingInv, Holds, MarkDeleting
<1>3. ASSUME NEW r \in late, ApplyLateReport(r)
      PROVE  TickInv' /\ CreatingInv' /\ PortInv'
  <2>1. \A j \in Instances : \A p : Mentions(j, p)' => Mentions(j, p)
    <3> SUFFICES ASSUME NEW j \in Instances, NEW p, RunningAt(rows'[j], p)
                 PROVE  Mentions(j, p)
      BY <1>3 DEF Mentions, ApplyLateReport
    <3>1. RunningAt(rows[j], p) \/ RunningAt(r[j], p)
      BY <1>3, ApplyMentions, SMT DEF TypeOK, ApplyLateReport
    <3>. QED
      BY <3>1 DEF Mentions
  <2>. QED
    BY <1>3, <2>1, NothingNew DEF TickInv, CreatingInv, Holds, ApplyLateReport
<1>4. ASSUME DiscoverInstances
      PROVE  TickInv' /\ CreatingInv' /\ PortInv'
  <2>1. \A id \in Instances : pc'[id] \notin {"allocate", "run", "boot", "finish"}
    BY <1>4 DEF DiscoverInstances, Case
  <2>. QED
    BY <1>4, <2>1, NothingNew DEF TickInv, CreatingInv, Holds, Mentions, DiscoverInstances
<1>5. ASSUME View
      PROVE  TickInv' /\ CreatingInv' /\ PortInv'
  <2>1. \A id \in Instances : \A p : RunningAt(report'[id], p) => RunningAt(store[id], p)
    BY <1>5, SMT DEF TypeOK, WorkloadStatus, View
  <2>. QED
    BY <1>5, <2>1, NothingNew DEF TickInv, CreatingInv, Holds, Mentions, View
<1>6. ASSUME SendReports
      PROVE  TickInv' /\ CreatingInv' /\ PortInv'
  <2>1. \A id \in Instances : \A p : RunningAt(rows'[id], p) => Mentions(id, p)
    <3>1. rows \in [Instances -> Row] /\ report \in Reports /\ rows' \in PartlyApplied(rows, report)
      BY <1>6 DEF TypeOK, PartlyApplied, SendReports
    <3>2. \A id \in Instances : \A p :
              RunningAt(rows'[id], p) => RunningAt(rows[id], p) \/ RunningAt(report[id], p)
      BY <3>1, ApplyMentions
    <3>. QED
      BY <3>2 DEF Mentions
  <2>2. \A id \in Instances : \A p : Mentions(id, p)' => Mentions(id, p)
    BY <1>6, <2>1 DEF Mentions, SendReports
  <2>. QED
    BY <1>6, <2>2, NothingNew DEF TickInv, CreatingInv, Holds, SendReports
<1>7. ASSUME SendReportsError
      PROVE  TickInv' /\ CreatingInv' /\ PortInv'
  <2>0. rows' \in PartlyApplied(rows, report)
    BY <1>7 DEF SendReportsError, PartlyApplied
  <2>1. \A id \in Instances : \A p : RunningAt(rows'[id], p) => Mentions(id, p)
    <3>1. rows \in [Instances -> Row] /\ report \in Reports
      BY DEF TypeOK
    <3>2. \A id \in Instances : \A p :
              RunningAt(rows'[id], p) => RunningAt(rows[id], p) \/ RunningAt(report[id], p)
      BY <2>0, <3>1, ApplyMentions
    <3>. QED
      BY <3>2 DEF Mentions
  <2>2. \A id \in Instances : \A p : (\E r \in late' : RunningAt(r[id], p)) => Mentions(id, p)
    BY <1>7 DEF Mentions, SendReportsError
  <2>3. \A id \in Instances : \A p : Mentions(id, p)' => Mentions(id, p)
    BY <1>7, <2>1, <2>2 DEF Mentions, SendReportsError, NoReports, NoStatus
  <2>. QED
    BY <1>7, <2>3, NothingNew DEF TickInv, CreatingInv, Holds, SendReportsError
<1>8. ASSUME NEW id \in Instances, Prune(id)
      PROVE  TickInv' /\ CreatingInv' /\ PortInv'
  <2>1. \A j \in Instances : \A p : Mentions(j, p)' => Mentions(j, p)
    BY <1>8 DEF TypeOK, Reports, Mentions, Prune, Del, NoStatus
  <2>2. \A j \in Instances : pc[j] = "idle"
    BY <1>8 DEF TickInv, Prune
  <2>. QED
    BY <1>8, <2>1, <2>2, NothingNew DEF TickInv, CreatingInv, Holds, Prune
<1>9. ASSUME TickDone
      PROVE  TickInv' /\ CreatingInv' /\ PortInv'
  BY <1>9, NothingNew DEF TickInv, CreatingInv, Holds, Mentions, TickDone
<1>10. ASSUME NEW id \in Instances, MaxAttemptsReached(id)
      PROVE  TickInv' /\ CreatingInv' /\ PortInv'
  <2>1. /\ \A j \in Instances : \A p : RunningAt(store'[j], p) => RunningAt(store[j], p)
        /\ \A j \in Instances : store'[j].port = store[j].port
        /\ \A j \in Instances : store'[j].state = "RUNNING" => store[j].state = "RUNNING"
    BY <1>10, SetStateMentions DEF MaxAttemptsReached, WorkloadStates
  <2>2. \A j \in Instances : \A p : Mentions(j, p)' => Mentions(j, p)
    BY <1>10, <2>1 DEF Mentions, MaxAttemptsReached
  <2>. QED
    BY <1>10, <2>1, <2>2, NothingNew DEF TypeOK, TickInv, CreatingInv, Holds, MaxAttemptsReached
<1>11. ASSUME NEW id \in Instances, SkipCreation(id)
      PROVE  TickInv' /\ CreatingInv' /\ PortInv'
  BY <1>11, NothingNew DEF TypeOK, TickInv, CreatingInv, Holds, Mentions, SkipCreation
<1>12. ASSUME NEW id \in Instances, BeginCreation(id)
      PROVE  TickInv' /\ CreatingInv' /\ PortInv'
  BY <1>12, NothingNew DEF TypeOK, TickInv, CreatingInv, Holds, Mentions, BeginCreation, NotCreating
<1>13. ASSUME NEW id \in Instances, NEW p \in Ports, AllocatePort(id, p)
      PROVE  TickInv' /\ CreatingInv' /\ PortInv'
  <2>1. store \in [Instances -> WorkloadStatus]
    BY DEF TypeOK
  <2>2. store' = [store EXCEPT ![id] = [state |-> "CREATING", port |-> p]]
    BY <1>13, <2>1, SetCreatingIs DEF AllocatePort
  <2>3. TickInv' /\ CreatingInv'
    <3>1. TickInv'
      BY <1>13 DEF TypeOK, TickInv, AllocatePort
    <3>2. store'[id].state = "CREATING" /\ store'[id].port = p /\ port'[id] = p /\ pc'[id] = "run"
      BY <1>13, <2>1, <2>2, SMT DEF TypeOK, AllocatePort
    <3>3. \A j \in Instances \ {id} : store'[j] = store[j] /\ port'[j] = port[j] /\ pc'[j] = pc[j]
      BY <1>13, <2>1, <2>2 DEF TypeOK, AllocatePort
    <3>. QED
      BY <3>1, <3>2, <3>3 DEF CreatingInv
  <2>4. \A j \in Instances : \A q : Mentions(j, q)' => Mentions(j, q)
    <3>1. \A j \in Instances : \A q : RunningAt(store'[j], q) => RunningAt(store[j], q)
      BY <2>1, <2>2
    <3>2. UNCHANGED <<rows, report, late>>
      BY <1>13 DEF AllocatePort
    <3>. QED
      BY <3>1, <3>2 DEF Mentions
  <2>5. \A j \in Instances : \A q : Holds(j, q)' => Holds(j, q) \/ (j = id /\ q = p)
    BY <1>13 DEF TypeOK, Holds, AllocatePort
  <2>6. p \notin allocated /\ allocated' = allocated \cup {p}
    BY <1>13 DEF AllocatePort, Allocate
  <2>. QED
    BY <2>3, <2>4, <2>5, <2>6, SMT DEF PortInv
<1>14. ASSUME NEW id \in Instances, AllocateError(id)
      PROVE  TickInv' /\ CreatingInv' /\ PortInv'
  <2>1. /\ \A j \in Instances : \A p : RunningAt(store'[j], p) => RunningAt(store[j], p)
        /\ \A j \in Instances : store'[j].port = store[j].port
        /\ \A j \in Instances : store'[j].state = "RUNNING" => store[j].state = "RUNNING"
    BY <1>14, SetStateMentions DEF AllocateError, WorkloadStates
  <2>2. \A j \in Instances : \A p : Mentions(j, p)' => Mentions(j, p)
    BY <1>14, <2>1 DEF Mentions, AllocateError
  <2>. QED
    BY <1>14, <2>1, <2>2, NothingNew DEF TypeOK, TickInv, CreatingInv, Holds, AllocateError
<1>15. ASSUME NEW id \in Instances, RunPodSandbox(id)
      PROVE  TickInv' /\ CreatingInv' /\ PortInv'
  BY <1>15, NothingNew DEF TypeOK, TickInv, CreatingInv, Holds, Mentions, RunPodSandbox
<1>16. ASSUME NEW id \in Instances, StartContainers(id)
      PROVE  TickInv' /\ CreatingInv' /\ PortInv'
  BY <1>16, NothingNew DEF TypeOK, TickInv, CreatingInv, Holds, Mentions, StartContainers
<1>17. ASSUME NEW id \in Instances, CreationDone(id)
      PROVE  TickInv' /\ CreatingInv' /\ PortInv'
  <2> DEFINE q == port[id]
  <2>1. store \in [Instances -> WorkloadStatus] /\ store[id].port = q /\ Holds(id, q)
    BY <1>17 DEF TypeOK, CreatingInv, CreationDone, Holds
  <2>2. store' = [store EXCEPT ![id] = [state |-> "RUNNING", port |-> q]]
    BY <1>17, <2>1, SetStateIs, SMT DEF CreationDone, WorkloadStates
  <2>3. TickInv' /\ CreatingInv'
    BY <1>17, <2>1, <2>2 DEF TypeOK, TickInv, CreatingInv, CreationDone
  <2>4. \A j \in Instances : \A p : Mentions(j, p)' => Mentions(j, p) \/ (j = id /\ p = q)
    <3>1. \A j \in Instances : \A p :
              RunningAt(store'[j], p) => RunningAt(store[j], p) \/ (j = id /\ p = q)
      BY <2>1, <2>2
    <3>2. UNCHANGED <<rows, report, late>>
      BY <1>17 DEF CreationDone
    <3>. QED
      BY <3>1, <3>2 DEF Mentions
  <2>5. \A j \in Instances : \A p : Holds(j, p)' => Holds(j, p) /\ j # id
    BY <1>17 DEF TypeOK, Holds, CreationDone
  <2>6. allocated' = allocated
    BY <1>17 DEF CreationDone
  <2>. QED
    <3>1. \A j \in Instances : \A p :
              Holds(j, p)' \/ Mentions(j, p)' => Holds(j, p) \/ Mentions(j, p)
      BY <2>1, <2>4, <2>5
    <3>2. \A j \in Instances : \A p : ~(Holds(j, p)' /\ Mentions(j, p)')
      BY <2>4, <2>5 DEF PortInv
    <3>. QED
      BY <2>3, <2>6, <3>1, <3>2 DEF PortInv
<1>18. ASSUME NEW id \in Instances, RunWorkloadError(id)
      PROVE  TickInv' /\ CreatingInv' /\ PortInv'
  <2>0. PICK q : q = port[id]
    OBVIOUS
  <2>1. Holds(id, q)
    BY <1>18, <2>0 DEF RunWorkloadError, Holds
  <2>2. TickInv' /\ CreatingInv'
    BY <1>18 DEF TypeOK, TickInv, CreatingInv, RunWorkloadError
  <2>3. \A j \in Instances : \A p : Mentions(j, p)' => Mentions(j, p)
    BY <1>18 DEF Mentions, RunWorkloadError
  <2>4. \A j \in Instances : \A p : Holds(j, p)' => Holds(j, p) /\ j # id
    BY <1>18 DEF TypeOK, Holds, RunWorkloadError
  <2>5. allocated' = allocated \ {q}
    BY <1>18, <2>0 DEF RunWorkloadError, Free
  <2>6. \A j \in Instances : ~Holds(j, q)' /\ ~Mentions(j, q)'
    BY <2>1, <2>3, <2>4 DEF PortInv
  <2>. QED
    BY <2>2, <2>3, <2>4, <2>5, <2>6, SMT DEF PortInv
<1>19. ASSUME NEW id \in Instances, Healthy(id)
      PROVE  TickInv' /\ CreatingInv' /\ PortInv'
  BY <1>19, NothingNew DEF TypeOK, TickInv, CreatingInv, Holds, Mentions, Healthy
<1>20. ASSUME NEW id \in Instances, Unhealthy(id)
      PROVE  TickInv' /\ CreatingInv' /\ PortInv'
  BY <1>20, NothingNew DEF TypeOK, TickInv, CreatingInv, Holds, Mentions, Unhealthy
<1>21. ASSUME NEW id \in Instances, ListPodSandbox(id)
      PROVE  TickInv' /\ CreatingInv' /\ PortInv'
  BY <1>21, NothingNew DEF TypeOK, TickInv, CreatingInv, Holds, Mentions, ListPodSandbox
<1>22. ASSUME NEW id \in Instances, RemoveWorkloadDone(id)
      PROVE  TickInv' /\ CreatingInv' /\ PortInv'
  <2>1. CASE pc[id] = "cleanup"
    BY <1>22, <2>1, NothingNew DEF TypeOK, TickInv, CreatingInv, Holds, Mentions, RemoveWorkloadDone
  <2>2. CASE pc[id] # "cleanup"
    <3>1. /\ \A j \in Instances : \A p : RunningAt(store'[j], p) => RunningAt(store[j], p)
          /\ \A j \in Instances : store'[j].port = store[j].port
          /\ \A j \in Instances : store'[j].state = "RUNNING" => store[j].state = "RUNNING"
      BY <1>22, <2>2, SetStateMentions DEF RemoveWorkloadDone, WorkloadStates
    <3>2. \A j \in Instances : \A p : Mentions(j, p)' => Mentions(j, p)
      BY <1>22, <3>1 DEF Mentions, RemoveWorkloadDone
    <3>. QED
      BY <1>22, <3>1, <3>2, NothingNew DEF TypeOK, TickInv, CreatingInv, Holds, RemoveWorkloadDone
  <2>. QED
    BY <2>1, <2>2
<1>23. ASSUME NEW id \in Instances, RemoveWorkloadError(id)
      PROVE  TickInv' /\ CreatingInv' /\ PortInv'
  BY <1>23, NothingNew DEF TypeOK, TickInv, CreatingInv, Holds, Mentions, RemoveWorkloadError
<1>24. ASSUME NEW id \in Instances, StopWorkload(id)
      PROVE  TickInv' /\ CreatingInv' /\ PortInv'
  BY <1>24, NothingNew DEF TypeOK, TickInv, CreatingInv, Holds, Mentions, StopWorkload
<1>25. ASSUME NEW id \in Instances, StopRemoved(id)
      PROVE  TickInv' /\ CreatingInv' /\ PortInv'
  BY <1>25, NothingNew DEF TypeOK, TickInv, CreatingInv, Holds, Mentions, StopRemoved
<1>26. ASSUME NEW id \in Instances, StopError(id)
      PROVE  TickInv' /\ CreatingInv' /\ PortInv'
  BY <1>26, NothingNew DEF TypeOK, TickInv, CreatingInv, Holds, Mentions, StopError
<1>27. ASSUME NEW id \in Instances, StopUpdate(id)
      PROVE  TickInv' /\ CreatingInv' /\ PortInv'
  <2>1. /\ \A j \in Instances : \A p : RunningAt(store'[j], p) => RunningAt(store[j], p)
        /\ \A j \in Instances : store'[j].port = store[j].port
        /\ \A j \in Instances : store'[j].state = "RUNNING" => store[j].state = "RUNNING"
    BY <1>27, SetStateMentions DEF StopUpdate, WorkloadStates
  <2>2. \A j \in Instances : \A p : Mentions(j, p)' => Mentions(j, p)
    BY <1>27, <2>1 DEF Mentions, StopUpdate
  <2>. QED
    BY <1>27, <2>1, <2>2, NothingNew DEF TypeOK, TickInv, CreatingInv, Holds, StopUpdate
<1>28. ASSUME NEW id \in Instances, NEW a \in Attempts, ContainerExits(id, a)
      PROVE  TickInv' /\ CreatingInv' /\ PortInv'
  BY <1>28, NothingNew DEF TypeOK, TickInv, CreatingInv, Holds, Mentions, ContainerExits
<1>29. CASE UNCHANGED vars
  BY <1>29, NothingNew DEF TickInv, CreatingInv, Holds, Mentions, vars
<1>. QED
  BY <1>1, <1>2, <1>3, <1>4, <1>5, <1>6, <1>7, <1>8, <1>9, <1>10, <1>11, <1>12, <1>13, <1>14,
     <1>15, <1>16, <1>17, <1>18, <1>19, <1>20, <1>21, <1>22, <1>23, <1>24, <1>25, <1>26, <1>27,
     <1>28, <1>29
     DEF Next, ControlPlane, Tick, Goroutine, Stop

(* However many instances, ports, attempts and late reports there are: as  *)
(* long as platformd is not restarted, the instances the control plane     *)
(* shows as RUNNING on a node have distinct ports, all of them taken.      *)
THEOREM RunningPortsAreExclusive == Spec => []RunningPortsExclusive
<1>1. Init => IInv
  BY TypeInit, PortInit DEF IInv
<1>2. IInv /\ [Next]_vars => IInv'
  <2>1. TypeInv /\ [Next]_vars => TypeInv'
    BY TypeStep
  <2>. QED
    BY <2>1, PortStep DEF IInv
<1>3. IInv => RunningPortsExclusive
  BY DEF IInv, PortInv, Mentions, RunningAt, RunningPortsExclusive, Runs
<1>. QED
  BY <1>1, <1>2, <1>3, PTL DEF Spec
-----------------------------------------------------------------------------
(* Ports of pods. *)

(* The pod of the attempt under way has the port of its goroutine. *)
PodInv ==
    \A id \in Instances, a \in Attempts :
        pc[id] \in {"boot", "finish"} /\ a = Attempt(id) /\ pods[id][a] # NoPod =>
            pods[id][a].port = port[id]

(* A pod of the next state was there before, with the same port. *)
PodsKept ==
    \A id \in Instances, a \in Attempts :
        pods'[id][a] = NoPod \/ (pods[id][a] # NoPod /\ pods'[id][a].port = pods[id][a].port)

(* No goroutine comes to have a pod, and those that have one keep their    *)
(* port and attempt.                                                       *)
BootingKept ==
    \A id \in Instances :
        pc'[id] \in {"boot", "finish"} =>
            pc[id] \in {"boot", "finish"} /\ port'[id] = port[id] /\ attempts'[id] = attempts[id]

LEMMA NoNewPod ==
    ASSUME PodInv, PodsKept, BootingKept
    PROVE  PodInv'
<1> SUFFICES ASSUME NEW id \in Instances, NEW a \in Attempts,
                    pc'[id] \in {"boot", "finish"}, a = Attempt(id)', pods'[id][a] # NoPod
             PROVE  pods'[id][a].port = port'[id]
  BY DEF PodInv
<1>1. pc[id] \in {"boot", "finish"} /\ port'[id] = port[id] /\ a = Attempt(id)
  BY DEF BootingKept, Attempt
<1>2. pods[id][a] # NoPod /\ pods'[id][a].port = pods[id][a].port
  BY DEF PodsKept
<1>. QED
  BY <1>1, <1>2 DEF PodInv

(* Stopping and removing a pod, and setting the stage of an existing one,  *)
(* change the port of none.                                                *)
LEMMA PodStages ==
    ASSUME TypeOK, NEW id \in Instances, NEW a \in Attempts,
           \/ pods' = pods
           \/ pods' = StopPodSandbox(pods, id, a)
           \/ pods' = RemovePodSandbox(pods, id, a)
           \/ \E st \in Stages : pods[id][a].stage # "none" /\ pods' = SetStage(pods, id, a, st)
    PROVE  PodsKept
<1> pods \in [Instances -> [Attempts -> Pod]]
  BY DEF TypeOK
<1>0. pods[id] \in [Attempts -> Pod] /\ pods[id][a] \in Pod
  OBVIOUS
<1>1. CASE pods' = pods
  BY <1>1 DEF PodsKept
<1>2. CASE pods' = RemovePodSandbox(pods, id, a)
  BY <1>0, <1>2 DEF PodsKept, RemovePodSandbox
<1>3. ASSUME NEW st \in Stages, pods[id][a].stage # "none", pods' = SetStage(pods, id, a, st)
      PROVE  PodsKept
  <2>1. pods[id][a] # NoPod
    BY <1>3, SMT DEF NoPod
  <2>2. pods'[id][a].port = pods[id][a].port
    BY <1>0, <1>3 DEF SetStage, Pod
  <2>. QED
    BY <1>0, <1>3, <2>1, <2>2 DEF PodsKept, SetStage
<1>. QED
  BY <1>1, <1>2, <1>3 DEF StopPodSandbox, Stages

LEMMA PodStep == IInv /\ PodInv /\ [Next]_vars => PodInv'
<1> SUFFICES ASSUME TypeOK, AttemptsLeft, CreatingInv, PodInv, [Next]_vars
             PROVE  PodInv'
  BY DEF IInv, TypeInv
<1>1. ASSUME NEW id \in Instances, RunFlavorVersion(id)
      PROVE  PodInv'
  <2>1. PodsKept /\ BootingKept
    BY <1>1 DEF TypeOK, PodsKept, BootingKept, RunFlavorVersion
  <2>. QED
    BY <2>1, NoNewPod
<1>2. ASSUME NEW id \in Instances, MarkDeleting(id)
      PROVE  PodInv'
  <2>1. PodsKept /\ BootingKept
    BY <1>2 DEF TypeOK, PodsKept, BootingKept, MarkDeleting
  <2>. QED
    BY <2>1, NoNewPod
<1>3. ASSUME NEW r \in late, ApplyLateReport(r)
      PROVE  PodInv'
  <2>1. PodsKept /\ BootingKept
    BY <1>3 DEF TypeOK, PodsKept, BootingKept, ApplyLateReport
  <2>. QED
    BY <2>1, NoNewPod
<1>4. ASSUME DiscoverInstances
      PROVE  PodInv'
  <2>1. PodsKept /\ BootingKept
    BY <1>4 DEF TypeOK, PodsKept, BootingKept, DiscoverInstances, Case
  <2>. QED
    BY <2>1, NoNewPod
<1>5. ASSUME View
      PROVE  PodInv'
  <2>1. PodsKept /\ BootingKept
    BY <1>5 DEF TypeOK, PodsKept, BootingKept, View
  <2>. QED
    BY <2>1, NoNewPod
<1>6. ASSUME SendReports
      PROVE  PodInv'
  <2>1. PodsKept /\ BootingKept
    BY <1>6 DEF TypeOK, PodsKept, BootingKept, SendReports
  <2>. QED
    BY <2>1, NoNewPod
<1>7. ASSUME SendReportsError
      PROVE  PodInv'
  <2>1. PodsKept /\ BootingKept
    BY <1>7 DEF TypeOK, PodsKept, BootingKept, SendReportsError
  <2>. QED
    BY <2>1, NoNewPod
<1>8. ASSUME NEW id \in Instances, Prune(id)
      PROVE  PodInv'
  <2>1. PodsKept /\ BootingKept
    BY <1>8 DEF TypeOK, PodsKept, BootingKept, Prune
  <2>. QED
    BY <2>1, NoNewPod
<1>9. ASSUME TickDone
      PROVE  PodInv'
  <2>1. PodsKept /\ BootingKept
    BY <1>9 DEF TypeOK, PodsKept, BootingKept, TickDone
  <2>. QED
    BY <2>1, NoNewPod
<1>10. ASSUME NEW id \in Instances, MaxAttemptsReached(id)
      PROVE  PodInv'
  <2>1. PodsKept /\ BootingKept
    BY <1>10 DEF TypeOK, PodsKept, BootingKept, MaxAttemptsReached
  <2>. QED
    BY <2>1, NoNewPod
<1>11. ASSUME NEW id \in Instances, SkipCreation(id)
      PROVE  PodInv'
  <2>1. PodsKept /\ BootingKept
    BY <1>11 DEF TypeOK, PodsKept, BootingKept, SkipCreation
  <2>. QED
    BY <2>1, NoNewPod
<1>12. ASSUME NEW id \in Instances, BeginCreation(id)
      PROVE  PodInv'
  <2>1. PodsKept /\ BootingKept
    BY <1>12 DEF TypeOK, PodsKept, BootingKept, BeginCreation
  <2>. QED
    BY <2>1, NoNewPod
<1>13. ASSUME NEW id \in Instances, NEW p \in Ports, AllocatePort(id, p)
      PROVE  PodInv'
  <2>1. PodsKept /\ BootingKept
    BY <1>13 DEF TypeOK, PodsKept, BootingKept, AllocatePort
  <2>. QED
    BY <2>1, NoNewPod
<1>14. ASSUME NEW id \in Instances, AllocateError(id)
      PROVE  PodInv'
  <2>1. PodsKept /\ BootingKept
    BY <1>14 DEF TypeOK, PodsKept, BootingKept, AllocateError
  <2>. QED
    BY <2>1, NoNewPod
<1>15. ASSUME NEW id \in Instances, RunPodSandbox(id)
      PROVE  PodInv'
  <2>1. pods \in [Instances -> [Attempts -> Pod]] /\ Attempt(id) \in Attempts
    BY <1>15, AttemptsAssumption, SMT DEF TypeOK, AttemptsLeft, Attempt, Attempts, RunPodSandbox
  <2>2. store[id].port = port[id]
    BY <1>15 DEF CreatingInv, RunPodSandbox
  <2>3. /\ pods' = [pods EXCEPT ![id] = [@ EXCEPT ![Attempt(id)] = [stage |-> "sandbox", port |-> port[id]]]]
        /\ UNCHANGED <<attempts, port>>
        /\ pc' = [pc EXCEPT ![id] = "boot"]
    BY <1>15, <2>1, <2>2 DEF RunPodSandbox
  <2>. QED
    BY <2>1, <2>3 DEF TypeOK, PodInv, Attempt
<1>16. ASSUME NEW id \in Instances, StartContainers(id)
      PROVE  PodInv'
  <2>1. Attempt(id) \in Attempts
    BY <1>16, AttemptsAssumption, SMT DEF TypeOK, AttemptsLeft, Attempt, Attempts, StartContainers
  <2>2. PodsKept
    BY <1>16, <2>1, PodStages DEF StartContainers, Stages
  <2>3. BootingKept
    BY <1>16 DEF TypeOK, BootingKept, StartContainers
  <2>. QED
    BY <2>2, <2>3, NoNewPod
<1>17. ASSUME NEW id \in Instances, CreationDone(id)
      PROVE  PodInv'
  <2>1. PodsKept /\ BootingKept
    BY <1>17 DEF TypeOK, PodsKept, BootingKept, CreationDone
  <2>. QED
    BY <2>1, NoNewPod
<1>18. ASSUME NEW id \in Instances, RunWorkloadError(id)
      PROVE  PodInv'
  <2>1. Attempt(id) \in Attempts
    BY <1>18, AttemptsAssumption, SMT DEF TypeOK, AttemptsLeft, Attempt, Attempts, RunWorkloadError
  <2>2. PodsKept
    BY <1>18, <2>1, PodStages DEF RunWorkloadError, Stages
  <2>3. BootingKept
    BY <1>18 DEF TypeOK, BootingKept, RunWorkloadError
  <2>. QED
    BY <2>2, <2>3, NoNewPod
<1>19. ASSUME NEW id \in Instances, Healthy(id)
      PROVE  PodInv'
  <2>1. PodsKept /\ BootingKept
    BY <1>19 DEF TypeOK, PodsKept, BootingKept, Healthy
  <2>. QED
    BY <2>1, NoNewPod
<1>20. ASSUME NEW id \in Instances, Unhealthy(id)
      PROVE  PodInv'
  <2>1. PodsKept /\ BootingKept
    BY <1>20 DEF TypeOK, PodsKept, BootingKept, Unhealthy
  <2>. QED
    BY <2>1, NoNewPod
<1>21. ASSUME NEW id \in Instances, ListPodSandbox(id)
      PROVE  PodInv'
  <2>1. PodsKept /\ BootingKept
    BY <1>21 DEF TypeOK, PodsKept, BootingKept, ListPodSandbox
  <2>. QED
    BY <2>1, NoNewPod
<1>22. ASSUME NEW id \in Instances, RemoveWorkloadDone(id)
      PROVE  PodInv'
  <2>1. ASSUME victim[id] = 0 PROVE PodsKept
    BY <1>22, <2>1 DEF PodsKept, RemoveWorkloadDone
  <2>2. ASSUME victim[id] # 0 PROVE PodsKept
    <3>1. victim[id] \in Attempts
      BY <2>2, AttemptsAssumption, SMT DEF TypeOK, Attempts
    <3>. QED
      BY <1>22, <2>2, <3>1, PodStages DEF RemoveWorkloadDone
  <2>3. BootingKept
    BY <1>22 DEF TypeOK, BootingKept, Removing, CountAttempt, RemoveWorkloadDone
  <2>. QED
    BY <2>1, <2>2, <2>3, NoNewPod
<1>23. ASSUME NEW id \in Instances, RemoveWorkloadError(id)
      PROVE  PodInv'
  <2>1. ASSUME victim[id] = 0 PROVE PodsKept
    BY <1>23, <2>1 DEF PodsKept, RemoveWorkloadError
  <2>2. ASSUME victim[id] # 0 PROVE PodsKept
    <3>1. victim[id] \in Attempts
      BY <2>2, AttemptsAssumption, SMT DEF TypeOK, Attempts
    <3>. QED
      BY <1>23, <2>2, <3>1, PodStages DEF RemoveWorkloadError
  <2>3. BootingKept
    BY <1>23 DEF TypeOK, BootingKept, Removing, CountAttempt, RemoveWorkloadError
  <2>. QED
    BY <2>1, <2>2, <2>3, NoNewPod
<1>24. ASSUME NEW id \in Instances, StopWorkload(id)
      PROVE  PodInv'
  <2>1. PodsKept /\ BootingKept
    BY <1>24 DEF TypeOK, PodsKept, BootingKept, StopWorkload
  <2>. QED
    BY <2>1, NoNewPod
<1>25. ASSUME NEW id \in Instances, StopRemoved(id)
      PROVE  PodInv'
  <2>1. PodsKept
    BY <1>25, PodStages DEF AttemptsLeft, StopRemoved
  <2>2. BootingKept
    BY <1>25 DEF BootingKept, StopRemoved
  <2>. QED
    BY <2>1, <2>2, NoNewPod
<1>26. ASSUME NEW id \in Instances, StopError(id)
      PROVE  PodInv'
  <2>1. PodsKept
    BY <1>26, PodStages DEF AttemptsLeft, StopError
  <2>2. BootingKept
    BY <1>26 DEF BootingKept, StopError
  <2>. QED
    BY <2>1, <2>2, NoNewPod
<1>27. ASSUME NEW id \in Instances, StopUpdate(id)
      PROVE  PodInv'
  <2>1. PodsKept /\ BootingKept
    BY <1>27 DEF TypeOK, PodsKept, BootingKept, StopUpdate
  <2>. QED
    BY <2>1, NoNewPod
<1>28. ASSUME NEW id \in Instances, NEW a \in Attempts, ContainerExits(id, a)
      PROVE  PodInv'
  <2>1. PodsKept
    BY <1>28, PodStages DEF ContainerExits, Stages
  <2>2. BootingKept
    BY <1>28 DEF BootingKept, ContainerExits
  <2>. QED
    BY <2>1, <2>2, NoNewPod
<1>29. CASE UNCHANGED vars
  BY <1>29 DEF PodInv, Attempt, vars
<1>. QED
  BY <1>1, <1>2, <1>3, <1>4, <1>5, <1>6, <1>7, <1>8, <1>9, <1>10, <1>11, <1>12, <1>13, <1>14,
     <1>15, <1>16, <1>17, <1>18, <1>19, <1>20, <1>21, <1>22, <1>23, <1>24, <1>25, <1>26, <1>27,
     <1>28, <1>29
     DEF Next, ControlPlane, Tick, Goroutine, Stop

(* For every number of instances, ports, attempts and late reports: while  *)
(* RunWorkload is under way its pod is set up for the port the goroutine   *)
(* allocated, and nobody else can get that port (reconciler.go:295-302).   *)
THEOREM PodsHaveAllocatedPorts == Spec => []PodHasAllocatedPort
<1> DEFINE Inv == IInv /\ PodInv
<1>1. Init => Inv
  BY TypeInit, PortInit DEF IInv, PodInv, Init
<1>2. Inv /\ [Next]_vars => Inv'
  <2>1. TypeInv /\ [Next]_vars => TypeInv'
    BY TypeStep
  <2>. QED
    BY <2>1, PortStep, PodStep DEF IInv
<1>3. Inv => PodHasAllocatedPort
  <2> SUFFICES ASSUME Inv, NEW id \in Instances,
                      pc[id] \in {"boot", "finish"}, pods[id][Attempt(id)] # NoPod
               PROVE  pods[id][Attempt(id)].port = port[id] /\ port[id] \in allocated
    BY DEF PodHasAllocatedPort
  <2>1. Attempt(id) \in Attempts
    BY AttemptsAssumption, SMT DEF IInv, TypeInv, TypeOK, AttemptsLeft, Attempt, Attempts
  <2>2. Holds(id, port[id])
    BY DEF Holds
  <2>. QED
    BY <2>1, <2>2 DEF IInv, PodInv, PortInv
<1>. QED
  BY <1>1, <1>2, <1>3, PTL DEF Spec
=============================================================================
