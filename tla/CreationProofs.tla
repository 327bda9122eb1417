--------------------------- MODULE CreationProofs ---------------------------
(* Nothing is created for an instance whose row is gone: CreationHasRow,   *)
(* for every set of instances and ports, every number of attempts and of   *)
(* reports applied late.                                                   *)
EXTENDS ReconcilerProofs

(* Leaves are for Zenon unless they name SMT. *)
USE Zenon

(* handleInstanceCreation past its check of the store. *)
Attempting == {"allocate", "run", "boot", "finish", "cleanup"}

Gone(id) == rows[id] = NoRow

LateDeath(id) == \E r \in late : r[id].state = "DELETED"

(* A report that removes the row is under way. *)
Dying(id) == report[id].state = "DELETED" \/ LateDeath(id)

(* handleInstanceCreation will not get past its checks. *)
Barred(id) == store[id].state = "DELETED" \/ attempts[id] >= MaxAttempts

(* Before an instance is ordered nothing knows of it. *)
Unknown(id) ==
    /\ Gone(id) /\ store[id] = NoStatus /\ report[id] = NoStatus
    /\ \A r \in late : r[id] = NoStatus
    /\ pc[id] = "idle" /\ stop[id] = NoStop
    /\ \A a \in Attempts : pods[id][a] = NoPod

OrderInv == \A id \in Instances : id \notin ordered => Unknown(id)

(* Why a late DELETED report finds no creation under way: from the moment  *)
(* the report is built until the row is gone the store says DELETED or no  *)
(* attempt is left.  The entry of the store is pruned only after a tick    *)
(* whose own reports have removed the row.                                 *)
DeathInv(id) ==
    /\ Gone(id) \/ Dying(id) => pc[id] \notin Attempting
    /\ Dying(id) /\ ~Gone(id) => Barred(id)
    /\ Gone(id) /\ pc[id] = "create" => Barred(id)
    /\ tick = "prune" /\ report[id].state = "DELETED" => Gone(id)
    /\ tick \in {"report", "prune"} /\ LateDeath(id) /\ ~Gone(id) /\ attempts[id] < MaxAttempts =>
           report[id].state = "DELETED" \/ report[id] = NoStatus

RowInv == \A id \in Instances : DeathInv(id)
-----------------------------------------------------------------------------
(* What applying reports does to the existence of a row. *)

LEMMA ApplyKeepsGone ==
    ASSUME NEW t \in [Instances -> Row], NEW r \in Reports,
           NEW u \in PartlyApplied(t, r), NEW id \in Instances
    PROVE  /\ t[id] = NoRow => u[id] = NoRow
           /\ u[id] = NoRow /\ t[id] # NoRow => r[id].state = "DELETED"
<1>1. CASE u = t
  BY <1>1
<1>2. CASE u = BulkUpdateInstanceStateAndPort(t, r)
  BY <1>2 DEF BulkUpdateInstanceStateAndPort, NoRow
<1>3. CASE u = ApplyStatusReports(t, r)
  BY <1>3 DEF ApplyStatusReports, BulkDeleteInstances, BulkUpdateInstanceStateAndPort, NoRow
<1>. QED
  BY <1>1, <1>2, <1>3 DEF PartlyApplied

LEMMA ApplyRemoves ==
    ASSUME NEW t \in [Instances -> Row], NEW r \in Reports, NEW id \in Instances,
           r[id].state = "DELETED"
    PROVE  ApplyStatusReports(t, r)[id] = NoRow
  BY DEF ApplyStatusReports, BulkDeleteInstances

(* Store.Update touches one entry. *)
LEMMA SetStateOther ==
    ASSUME TypeOK, NEW j \in Instances, NEW st \in WorkloadStates, store' = SetState(store, j, st)
    PROVE  store'[j].state = st /\ \A i \in Instances \ {j} : store'[i] = store[i]
<1>1. store \in [Instances -> WorkloadStatus]
  BY DEF TypeOK
<1>2. store' = [store EXCEPT ![j] = [state |-> st, port |-> store[j].port]]
  BY <1>1, SetStateIs
<1>. QED
  BY <1>1, <1>2, SMT

LEMMA AllocateOther ==
    ASSUME TypeOK, NEW j \in Instances, NEW p \in Ports, AllocatePort(j, p)
    PROVE  \A i \in Instances \ {j} : store'[i] = store[i]
<1>1. store \in [Instances -> WorkloadStatus]
  BY DEF TypeOK
<1>2. store' = [store EXCEPT ![j] = [state |-> "CREATING", port |-> p]]
  BY <1>1, SetCreatingIs DEF AllocatePort
<1>. QED
  BY <1>1, <1>2
-----------------------------------------------------------------------------
(* Orders. *)

LEMMA StillUnknown ==
    ASSUME NEW id \in Instances, Unknown(id),
           rows'[id] = NoRow, store'[id] = store[id], report'[id] = NoStatus,
           late' \subseteq late \cup {report}, pc'[id] = "idle", stop'[id] = stop[id],
           pods'[id] = pods[id]
    PROVE  Unknown(id)'
  BY DEF Unknown, Gone

(* Nothing happens to an instance before it is ordered: its goroutines     *)
(* start from rows, its pods from goroutines, StopWorkload from pods.      *)
LEMMA OrderStep == TypeOK /\ OrderInv /\ [Next]_vars => OrderInv'
<1> SUFFICES ASSUME TypeOK, OrderInv, [Next]_vars, NEW id \in Instances, id \notin ordered'
             PROVE  Unknown(id)'
  BY DEF OrderInv
<1>1. ASSUME NEW j \in Instances, RunFlavorVersion(j)
      PROVE  Unknown(id)'
  <2>1. Unknown(id)
    BY <1>1 DEF OrderInv, RunFlavorVersion
  <2>2. j # id
    BY <1>1, <2>1 DEF Unknown, Gone, RunFlavorVersion
  <2>. QED
    BY <1>1, <2>1, <2>2, StillUnknown DEF TypeOK, Unknown, Gone, RunFlavorVersion
<1>2. ASSUME NEW j \in Instances, MarkDeleting(j)
      PROVE  Unknown(id)'
  <2>1. Unknown(id)
    BY <1>2 DEF OrderInv, MarkDeleting
  <2>2. j # id
    BY <1>2, <2>1 DEF Unknown, Gone, MarkDeleting
  <2>. QED
    BY <1>2, <2>1, <2>2, StillUnknown DEF TypeOK, Unknown, Gone, MarkDeleting
<1>3. ASSUME NEW r \in late, ApplyLateReport(r)
      PROVE  Unknown(id)'
  <2>1. Unknown(id)
    BY <1>3 DEF OrderInv, ApplyLateReport
  <2>2. rows'[id] = NoRow
    BY <1>3, <2>1, ApplyKeepsGone, SMT DEF TypeOK, Unknown, Gone, ApplyLateReport
  <2>. QED
    BY <1>3, <2>1, <2>2, StillUnknown DEF Unknown, ApplyLateReport
<1>4. ASSUME DiscoverInstances
      PROVE  Unknown(id)'
  <2>1. Unknown(id)
    BY <1>4 DEF OrderInv, DiscoverInstances
  <2>. QED
    BY <1>4, <2>1, StillUnknown, SMT DEF TypeOK, Unknown, Gone, NoRow, Case, DiscoverInstances
<1>5. ASSUME View
      PROVE  Unknown(id)'
  <2>1. Unknown(id)
    BY <1>5 DEF OrderInv, View
  <2>2. report'[id] = store[id]
    BY <1>5, <2>1, SMT DEF Unknown, NoStatus, Torn, View
  <2>. QED
    BY <1>5, <2>1, <2>2, StillUnknown DEF Unknown, Gone, View
<1>6. ASSUME SendReports
      PROVE  Unknown(id)'
  <2>1. Unknown(id)
    BY <1>6 DEF OrderInv, SendReports
  <2>2. rows'[id] = NoRow
    BY <1>6, <2>1, ApplyKeepsGone, SMT DEF TypeOK, Unknown, Gone, PartlyApplied, SendReports
  <2>. QED
    BY <1>6, <2>1, <2>2, StillUnknown DEF Unknown, SendReports
<1>7. ASSUME SendReportsError
      PROVE  Unknown(id)'
  <2>1. Unknown(id)
    BY <1>7 DEF OrderInv, SendReportsError
  <2>2. rows'[id] = NoRow
    BY <1>7, <2>1, ApplyKeepsGone, SMT DEF TypeOK, Unknown, Gone, SendReportsError
  <2>3. late' \subseteq late \cup {report}
    BY <1>7 DEF SendReportsError
  <2>. QED
    BY <1>7, <2>1, <2>2, <2>3, StillUnknown DEF Unknown, NoReports, SendReportsError
<1>8. ASSUME NEW j \in Instances, Prune(j)
      PROVE  Unknown(id)'
  <2>1. Unknown(id)
    BY <1>8 DEF OrderInv, Prune
  <2>. QED
    BY <1>8, <2>1, StillUnknown DEF TypeOK, Reports, Unknown, Gone, Del, Prune
<1>9. ASSUME TickDone
      PROVE  Unknown(id)'
  <2>1. Unknown(id)
    BY <1>9 DEF OrderInv, TickDone
  <2>. QED
    BY <1>9, <2>1, StillUnknown DEF TypeOK, Unknown, Gone, TickDone
<1>10. ASSUME NEW j \in Instances, MaxAttemptsReached(j)
      PROVE  Unknown(id)'
  <2>1. Unknown(id)
    BY <1>10 DEF OrderInv, MaxAttemptsReached
  <2>2. j # id
    BY <1>10, <2>1 DEF Unknown, NoStop, MaxAttemptsReached
  <2>3. store'[id] = store[id]
    BY <1>10, <2>2, SetStateOther DEF WorkloadStates, MaxAttemptsReached
  <2>. QED
    BY <1>10, <2>1, <2>2, <2>3, StillUnknown DEF TypeOK, Unknown, Gone, MaxAttemptsReached
<1>11. ASSUME NEW j \in Instances, SkipCreation(j)
      PROVE  Unknown(id)'
  <2>1. Unknown(id)
    BY <1>11 DEF OrderInv, SkipCreation
  <2>2. j # id
    BY <1>11, <2>1 DEF Unknown, Gone, SkipCreation
  <2>. QED
    BY <1>11, <2>1, <2>2, StillUnknown DEF TypeOK, Unknown, Gone, SkipCreation
<1>12. ASSUME NEW j \in Instances, BeginCreation(j)
      PROVE  Unknown(id)'
  <2>1. Unknown(id)
    BY <1>12 DEF OrderInv, BeginCreation
  <2>2. j # id
    BY <1>12, <2>1 DEF Unknown, Gone, BeginCreation
  <2>. QED
    BY <1>12, <2>1, <2>2, StillUnknown DEF TypeOK, Unknown, Gone, BeginCreation
<1>13. ASSUME NEW j \in Instances, NEW p \in Ports, AllocatePort(j, p)
      PROVE  Unknown(id)'
  <2>1. Unknown(id)
    BY <1>13 DEF OrderInv, AllocatePort
  <2>2. j # id
    BY <1>13, <2>1 DEF Unknown, AllocatePort
  <2>3. store'[id] = store[id]
    BY <1>13, <2>2, AllocateOther
  <2>. QED
    BY <1>13, <2>1, <2>2, <2>3, StillUnknown DEF TypeOK, Unknown, Gone, AllocatePort
<1>14. ASSUME NEW j \in Instances, AllocateError(j)
      PROVE  Unknown(id)'
  <2>1. Unknown(id)
    BY <1>14 DEF OrderInv, AllocateError
  <2>2. j # id
    BY <1>14, <2>1 DEF Unknown, NoStop, AllocateError
  <2>3. store'[id] = store[id]
    BY <1>14, <2>2, SetStateOther DEF WorkloadStates, AllocateError
  <2>. QED
    BY <1>14, <2>1, <2>2, <2>3, StillUnknown DEF TypeOK, Unknown, Gone, AllocateError
<1>15. ASSUME NEW j \in Instances, RunPodSandbox(j)
      PROVE  Unknown(id)'
  <2>1. Unknown(id)
    BY <1>15 DEF OrderInv, RunPodSandbox
  <2>2. j # id
    BY <1>15, <2>1 DEF Unknown, Gone, RunPodSandbox
  <2>. QED
    BY <1>15, <2>1, <2>2, StillUnknown DEF TypeOK, Unknown, Gone, RunPodSandbox
<1>16. ASSUME NEW j \in Instances, StartContainers(j)
      PROVE  Unknown(id)'
  <2>1. Unknown(id)
    BY <1>16 DEF OrderInv, StartContainers
  <2>2. j # id
    BY <1>16, <2>1 DEF Unknown, StartContainers
  <2>3. pods'[id] = pods[id]
    BY <1>16, <2>2 DEF TypeOK, SetStage, StopPodSandbox, RemovePodSandbox, StartContainers
  <2>. QED
    BY <1>16, <2>1, <2>2, <2>3, StillUnknown DEF TypeOK, Unknown, Gone, StartContainers
<1>17. ASSUME NEW j \in Instances, CreationDone(j)
      PROVE  Unknown(id)'
  <2>1. Unknown(id)
    BY <1>17 DEF OrderInv, CreationDone
  <2>2. j # id
    BY <1>17, <2>1 DEF Unknown, NoStop, CreationDone
  <2>3. store'[id] = store[id]
    BY <1>17, <2>2, SetStateOther DEF WorkloadStates, CreationDone
  <2>. QED
    BY <1>17, <2>1, <2>2, <2>3, StillUnknown DEF TypeOK, Unknown, Gone, CreationDone
<1>18. ASSUME NEW j \in Instances, RunWorkloadError(j)
      PROVE  Unknown(id)'
  <2>1. Unknown(id)
    BY <1>18 DEF OrderInv, RunWorkloadError
  <2>2. j # id
    BY <1>18, <2>1 DEF Unknown, RunWorkloadError
  <2>3. pods'[id] = pods[id]
    BY <1>18, <2>2 DEF TypeOK, SetStage, StopPodSandbox, RemovePodSandbox, RunWorkloadError
  <2>. QED
    BY <1>18, <2>1, <2>2, <2>3, StillUnknown DEF TypeOK, Unknown, Gone, RunWorkloadError
<1>19. ASSUME NEW j \in Instances, Healthy(j)
      PROVE  Unknown(id)'
  <2>1. Unknown(id)
    BY <1>19 DEF OrderInv, Healthy
  <2>2. j # id
    BY <1>19, <2>1 DEF Unknown, Gone, Healthy
  <2>. QED
    BY <1>19, <2>1, <2>2, StillUnknown DEF TypeOK, Unknown, Gone, Healthy
<1>20. ASSUME NEW j \in Instances, Unhealthy(j)
      PROVE  Unknown(id)'
  <2>1. Unknown(id)
    BY <1>20 DEF OrderInv, Unhealthy
  <2>2. j # id
    BY <1>20, <2>1 DEF Unknown, Gone, Unhealthy
  <2>. QED
    BY <1>20, <2>1, <2>2, StillUnknown DEF TypeOK, Unknown, Gone, Unhealthy
<1>21. ASSUME NEW j \in Instances, ListPodSandbox(j)
      PROVE  Unknown(id)'
  <2>1. Unknown(id)
    BY <1>21 DEF OrderInv, ListPodSandbox
  <2>2. j # id
    BY <1>21, <2>1 DEF Unknown, Removing, ListPodSandbox
  <2>. QED
    BY <1>21, <2>1, <2>2, StillUnknown DEF TypeOK, Unknown, Gone, ListPodSandbox
<1>22. ASSUME NEW j \in Instances, RemoveWorkloadDone(j)
      PROVE  Unknown(id)'
  <2>1. Unknown(id)
    BY <1>22 DEF OrderInv, RemoveWorkloadDone
  <2>2. j # id
    BY <1>22, <2>1 DEF Unknown, Removing, RemoveWorkloadDone
  <2>3. pods'[id] = pods[id]
    BY <1>22, <2>2 DEF TypeOK, RemovePodSandbox, RemoveWorkloadDone
  <2>4. store'[id] = store[id]
    BY <1>22, <2>2, SetStateOther DEF WorkloadStates, RemoveWorkloadDone
  <2>. QED
    BY <1>22, <2>1, <2>2, <2>3, <2>4, StillUnknown DEF TypeOK, Unknown, Gone, RemoveWorkloadDone
<1>23. ASSUME NEW j \in Instances, RemoveWorkloadError(j)
      PROVE  Unknown(id)'
  <2>1. Unknown(id)
    BY <1>23 DEF OrderInv, RemoveWorkloadError
  <2>2. j # id
    BY <1>23, <2>1 DEF Unknown, Removing, RemoveWorkloadError
  <2>3. pods'[id] = pods[id]
    BY <1>23, <2>2 DEF TypeOK, SetStage, StopPodSandbox, RemovePodSandbox, RemoveWorkloadError
  <2>. QED
    BY <1>23, <2>1, <2>2, <2>3, StillUnknown DEF TypeOK, Unknown, Gone, RemoveWorkloadError
<1>24. ASSUME NEW j \in Instances, StopWorkload(j)
      PROVE  Unknown(id)'
  <2>1. Unknown(id)
    BY <1>24 DEF OrderInv, StopWorkload
  <2>2. j # id
    BY <1>24, <2>1, SMT DEF Unknown, NoPod, StopWorkload
  <2>. QED
    BY <1>24, <2>1, <2>2, StillUnknown DEF TypeOK, Unknown, Gone, StopWorkload
<1>25. ASSUME NEW j \in Instances, StopRemoved(j)
      PROVE  Unknown(id)'
  <2>1. Unknown(id)
    BY <1>25 DEF OrderInv, StopRemoved
  <2>2. j # id
    BY <1>25, <2>1, SMT DEF Unknown, NoStop, StopRemoved
  <2>3. pods'[id] = pods[id]
    BY <1>25, <2>2 DEF TypeOK, SetStage, StopPodSandbox, RemovePodSandbox, StopRemoved
  <2>. QED
    BY <1>25, <2>1, <2>2, <2>3, StillUnknown DEF TypeOK, Unknown, Gone, StopRemoved
<1>26. ASSUME NEW j \in Instances, StopError(j)
      PROVE  Unknown(id)'
  <2>1. Unknown(id)
    BY <1>26 DEF OrderInv, StopError
  <2>2. j # id
    BY <1>26, <2>1, SMT DEF Unknown, NoStop, StopError
  <2>3. pods'[id] = pods[id]
    BY <1>26, <2>2 DEF TypeOK, SetStage, StopPodSandbox, RemovePodSandbox, StopError
  <2>. QED
    BY <1>26, <2>1, <2>2, <2>3, StillUnknown DEF TypeOK, Unknown, Gone, StopError
<1>27. ASSUME NEW j \in Instances, StopUpdate(j)
      PROVE  Unknown(id)'
  <2>1. Unknown(id)
    BY <1>27 DEF OrderInv, StopUpdate
  <2>2. j # id
    BY <1>27, <2>1, SMT DEF Unknown, NoStop, StopUpdate
  <2>3. store'[id] = store[id]
    BY <1>27, <2>2, SetStateOther DEF WorkloadStates, StopUpdate
  <2>. QED
    BY <1>27, <2>1, <2>2, <2>3, StillUnknown DEF TypeOK, Unknown, Gone, StopUpdate
<1>28. ASSUME NEW j \in Instances, NEW a \in Attempts, ContainerExits(j, a)
      PROVE  Unknown(id)'
  <2>1. Unknown(id)
    BY <1>28 DEF OrderInv, ContainerExits
  <2>2. j # id
    BY <1>28, <2>1, SMT DEF Unknown, NoPod, ContainerExits
  <2>3. pods'[id] = pods[id]
    BY <1>28, <2>2 DEF TypeOK, SetStage, StopPodSandbox, RemovePodSandbox, ContainerExits
  <2>. QED
    BY <1>28, <2>1, <2>2, <2>3, StillUnknown DEF TypeOK, Unknown, Gone, ContainerExits
<1>29. CASE UNCHANGED vars
  <2>1. Unknown(id)
    BY <1>29 DEF OrderInv, vars
  <2>. QED
    BY <1>29, <2>1, StillUnknown DEF Unknown, Gone, vars
<1>. QED
  BY <1>1, <1>2, <1>3, <1>4, <1>5, <1>6, <1>7, <1>8, <1>9, <1>10, <1>11, <1>12, <1>13,
     <1>14, <1>15, <1>16, <1>17, <1>18, <1>19, <1>20, <1>21, <1>22, <1>23, <1>24, <1>25,
     <1>26, <1>27, <1>28, <1>29
     DEF Next, ControlPlane, Tick, Goroutine, Stop
-----------------------------------------------------------------------------
(* Rows. *)

(* What a step that neither builds nor applies a report may do. *)
Spared(id) ==
    /\ Gone(id)' <=> Gone(id)
    /\ report'[id] = report[id] \/ report'[id] = NoStatus
    /\ late' \subseteq late
    /\ tick' = tick \/ tick' \in {"idle", "reconcile"}
    /\ Barred(id) => Barred(id)'
    /\ attempts'[id] < MaxAttempts => attempts[id] < MaxAttempts
    /\ pc'[id] \in Attempting => pc[id] \in Attempting
    /\ pc'[id] = "create" => pc[id] = "create"

LEMMA SparedIsKept ==
    ASSUME NEW id \in Instances, DeathInv(id), Spared(id)
    PROVE  DeathInv(id)'
<1>1. LateDeath(id)' => LateDeath(id)
  BY DEF Spared, LateDeath
<1>2. Dying(id)' => Dying(id)
  BY <1>1, SMT DEF Spared, Dying, NoStatus
<1>. QED
  BY <1>1, <1>2, SMT DEF Spared, DeathInv, NoStatus

(* Counting an attempt leaves none where none was left. *)
LEMMA AttemptsGrow ==
    ASSUME TypeOK, NEW id \in Instances, NEW j \in Instances,
           attempts' = attempts \/ attempts' = [attempts EXCEPT ![j] = @ + 1] \/ CountAttempt(j)
    PROVE  attempts'[id] < MaxAttempts => attempts[id] < MaxAttempts
<1>1. attempts[id] \in 0..MaxAttempts
  BY DEF TypeOK
<1>2. attempts'[id] = attempts[id] \/ attempts'[id] = attempts[id] + 1
  BY DEF TypeOK, CountAttempt
<1>. QED
  BY <1>1, <1>2, AttemptsAssumption, SMT

(* Nothing that creates, and nothing that builds, applies or prunes        *)
(* reports, breaks what keeps a dying instance from being created again.   *)
LEMMA DeathStep ==
    TypeOK /\ AttemptsLeft /\ TickInv /\ OrderInv /\ RowInv /\ [Next]_vars => RowInv'
<1> SUFFICES ASSUME TypeOK, AttemptsLeft, TickInv, OrderInv, RowInv, [Next]_vars,
                    NEW id \in Instances
             PROVE  DeathInv(id)'
  BY DEF RowInv
<1>0. DeathInv(id) /\ attempts[id] \in 0..MaxAttempts /\ MaxAttempts \in Nat
  BY AttemptsAssumption DEF RowInv, TypeOK
<1>1. ASSUME NEW j \in Instances, RunFlavorVersion(j)
      PROVE  DeathInv(id)'
  <2>1. CASE j = id
    <3>1. Unknown(id)
      BY <1>1, <2>1 DEF OrderInv, RunFlavorVersion
    <3>2. ~Dying(id)' /\ pc'[id] = "idle" /\ ~Gone(id)'
      BY <1>1, <2>1, <3>1, SMT DEF TypeOK, Unknown, Dying, LateDeath, NoStatus, Gone, PendingRow, NoRow, RunFlavorVersion
    <3>. QED
      BY <3>2 DEF DeathInv, Dying, Attempting
  <2>2. CASE j # id
    <3>1. Spared(id)
      BY <1>1, <2>2 DEF TypeOK, Spared, Gone, Barred, RunFlavorVersion
    <3>. QED
      BY <1>0, <3>1, SparedIsKept
  <2>. QED
    BY <2>1, <2>2
<1>2. ASSUME NEW j \in Instances, MarkDeleting(j)
      PROVE  DeathInv(id)'
  <2>1. Gone(id)' <=> Gone(id)
    BY <1>2 DEF TypeOK, Row, Gone, NoRow, MarkDeleting
  <2>2. Spared(id)
    BY <1>2, <2>1 DEF Spared, Barred, MarkDeleting
  <2>. QED
    BY <1>0, <2>2, SparedIsKept
<1>3. ASSUME NEW r \in late, ApplyLateReport(r)
      PROVE  DeathInv(id)'
  <2>1. /\ Gone(id) => Gone(id)'
        /\ Gone(id)' /\ ~Gone(id) => Dying(id)
    BY <1>3, ApplyKeepsGone, SMT DEF TypeOK, Gone, Dying, LateDeath, ApplyLateReport
  <2>2. /\ LateDeath(id)' => LateDeath(id)
        /\ Dying(id)' => Dying(id)
        /\ Barred(id)' <=> Barred(id)
    BY <1>3 DEF Dying, LateDeath, Barred, ApplyLateReport
  <2>. QED
    BY <1>3, <1>0, <2>1, <2>2 DEF DeathInv, ApplyLateReport
<1>4. ASSUME DiscoverInstances
      PROVE  DeathInv(id)'
  <2>1. pc'[id] \notin Attempting /\ (Gone(id)' => pc'[id] # "create")
    BY <1>4, SMT DEF Attempting, Gone, NoRow, Case, DiscoverInstances
  <2>2. /\ Gone(id)' <=> Gone(id)
        /\ Dying(id)' => Dying(id)
        /\ Barred(id)' <=> Barred(id)
    BY <1>4 DEF Gone, Dying, LateDeath, Barred, DiscoverInstances
  <2>. QED
    BY <1>4, <1>0, <2>1, <2>2 DEF DeathInv, DiscoverInstances
<1>5. ASSUME View
      PROVE  DeathInv(id)'
  <2>1. pc'[id] = "idle" /\ tick' = "report"
    BY <1>5 DEF View
  <2>2. report'[id].state = "DELETED" <=> store[id].state = "DELETED"
    BY <1>5, SMT DEF Torn, View
  <2>3. /\ Gone(id)' <=> Gone(id)
        /\ LateDeath(id)' <=> LateDeath(id)
        /\ Barred(id)' <=> Barred(id)
        /\ attempts' = attempts
    BY <1>5 DEF Gone, LateDeath, Barred, View
  <2>4. LateDeath(id) /\ ~Gone(id) /\ attempts[id] < MaxAttempts => store[id].state = "DELETED"
    BY <1>0, SMT DEF DeathInv, Dying, Barred
  <2>5. Dying(id)' /\ ~Gone(id)' => Barred(id)'
    BY <1>0, <2>2, <2>3 DEF DeathInv, Dying, Barred
  <2>. QED
    BY <2>1, <2>2, <2>3, <2>4, <2>5 DEF DeathInv, Attempting
<1>6. ASSUME SendReports
      PROVE  DeathInv(id)'
  <2>1. pc'[id] = "idle"
    BY <1>6 DEF TickInv, SendReports
  <2>2. Gone(id) \/ report[id].state = "DELETED" => Gone(id)'
    BY <1>6, ApplyKeepsGone, ApplyRemoves DEF TypeOK, Gone, PartlyApplied, SendReports
  <2>3. /\ LateDeath(id)' <=> LateDeath(id)
        /\ Dying(id)' <=> Dying(id)
        /\ Barred(id)' <=> Barred(id)
    BY <1>6 DEF Dying, LateDeath, Barred, SendReports
  <2>. QED
    BY <1>6, <1>0, <2>1, <2>2, <2>3 DEF DeathInv, Attempting, SendReports
<1>7. ASSUME SendReportsError
      PROVE  DeathInv(id)'
  <2>1. pc'[id] = "idle" /\ tick' = "idle"
    BY <1>7 DEF TickInv, SendReportsError
  <2>2. Gone(id) => Gone(id)'
    BY <1>7, ApplyKeepsGone, SMT DEF TypeOK, Gone, SendReportsError
  <2>3. /\ Dying(id)' => Dying(id)
        /\ Barred(id)' <=> Barred(id)
    BY <1>7 DEF Dying, LateDeath, Barred, NoReports, NoStatus, SendReportsError
  <2>. QED
    BY <1>0, <2>1, <2>2, <2>3 DEF DeathInv, Attempting
<1>8. ASSUME NEW j \in Instances, Prune(j)
      PROVE  DeathInv(id)'
  <2>1. CASE j = id
    <3>1. pc'[id] = "idle" /\ report'[id] = NoStatus
      BY <1>8, <2>1 DEF TypeOK, Reports, TickInv, Prune
    <3>2. /\ LateDeath(id)' <=> LateDeath(id)
          /\ Gone(id)' <=> Gone(id)
          /\ attempts' = attempts
      BY <1>8 DEF LateDeath, Gone, Prune
    <3>3. LateDeath(id) /\ ~Gone(id) => attempts[id] >= MaxAttempts
      <4>1. tick = "prune" /\ report[id] # NoStatus
        BY <1>8, <2>1 DEF Prune
      <4>. QED
        BY <1>0, <4>1, SMT DEF DeathInv
    <3>. QED
      BY <3>1, <3>2, <3>3, SMT DEF DeathInv, Attempting, Dying, Barred, NoStatus
  <2>2. CASE j # id
    <3>1. Spared(id)
      BY <1>8, <2>2 DEF TypeOK, Reports, Spared, Gone, Barred, Del, Prune
    <3>. QED
      BY <1>0, <3>1, SparedIsKept
  <2>. QED
    BY <2>1, <2>2
<1>9. ASSUME TickDone
      PROVE  DeathInv(id)'
  <2>1. Spared(id)
    BY <1>9 DEF Spared, Gone, Barred, TickDone
  <2>. QED
    BY <1>0, <2>1, SparedIsKept
<1>10. ASSUME NEW j \in Instances, MaxAttemptsReached(j)
      PROVE  DeathInv(id)'
  <2>1. Barred(id) => Barred(id)'
    BY <1>10, SetStateOther DEF Barred, WorkloadStates, MaxAttemptsReached
  <2>2. Spared(id)
    BY <1>10, <2>1 DEF TypeOK, Spared, Gone, Attempting, MaxAttemptsReached
  <2>. QED
    BY <1>0, <2>2, SparedIsKept
<1>11. ASSUME NEW j \in Instances, SkipCreation(j)
      PROVE  DeathInv(id)'
  <2>1. Spared(id)
    BY <1>11 DEF TypeOK, Spared, Gone, Barred, Attempting, SkipCreation
  <2>. QED
    BY <1>0, <2>1, SparedIsKept
<1>12. ASSUME NEW j \in Instances, BeginCreation(j)
      PROVE  DeathInv(id)'
  <2>1. CASE j = id
    <3>1. ~Barred(id)
      BY <1>12, <1>0, <2>1, SMT DEF Barred, NotCreating, BeginCreation
    <3>2. ~Gone(id) /\ ~Dying(id)
      BY <1>12, <1>0, <2>1, <3>1 DEF DeathInv, BeginCreation
    <3>3. /\ ~Gone(id)' /\ ~Dying(id)' /\ ~LateDeath(id)'
          /\ report'[id].state # "DELETED"
      BY <1>12, <3>2 DEF Gone, Dying, LateDeath, BeginCreation
    <3>. QED
      BY <3>3 DEF DeathInv
  <2>2. CASE j # id
    <3>1. Spared(id)
      BY <1>12, <2>2 DEF TypeOK, Spared, Gone, Barred, BeginCreation
    <3>. QED
      BY <1>0, <3>1, SparedIsKept
  <2>. QED
    BY <2>1, <2>2
<1>13. ASSUME NEW j \in Instances, NEW p \in Ports, AllocatePort(j, p)
      PROVE  DeathInv(id)'
  <2>1. CASE j = id
    <3>1. ~Gone(id) /\ ~Dying(id)
      BY <1>13, <1>0, <2>1 DEF DeathInv, Attempting, AllocatePort
    <3>2. /\ ~Gone(id)' /\ ~Dying(id)' /\ ~LateDeath(id)'
          /\ report'[id].state # "DELETED"
      BY <1>13, <3>1 DEF Gone, Dying, LateDeath, AllocatePort
    <3>. QED
      BY <3>2 DEF DeathInv
  <2>2. CASE j # id
    <3>1. store'[id] = store[id]
      BY <1>13, <2>2, AllocateOther DEF WorkloadStates, AllocatePort
    <3>2. Spared(id)
      BY <1>13, <2>2, <3>1 DEF TypeOK, Spared, Gone, Barred, AllocatePort
    <3>. QED
      BY <1>0, <3>2, SparedIsKept
  <2>. QED
    BY <2>1, <2>2
<1>14. ASSUME NEW j \in Instances, AllocateError(j)
      PROVE  DeathInv(id)'
  <2>1. CASE j = id
    <3>1. ~Gone(id) /\ ~Dying(id)
      BY <1>14, <1>0, <2>1 DEF DeathInv, Attempting, AllocateError
    <3>2. /\ ~Gone(id)' /\ ~Dying(id)' /\ ~LateDeath(id)'
          /\ report'[id].state # "DELETED"
      BY <1>14, <3>1 DEF Gone, Dying, LateDeath, AllocateError
    <3>. QED
      BY <3>2 DEF DeathInv
  <2>2. CASE j # id
    <3>1. store'[id] = store[id]
      BY <1>14, <2>2, SetStateOther DEF WorkloadStates, AllocateError
    <3>2. Spared(id)
      BY <1>14, <2>2, <3>1 DEF TypeOK, Spared, Gone, Barred, AllocateError
    <3>. QED
      BY <1>0, <3>2, SparedIsKept
  <2>. QED
    BY <2>1, <2>2
<1>15. ASSUME NEW j \in Instances, RunPodSandbox(j)
      PROVE  DeathInv(id)'
  <2>1. Spared(id)
    BY <1>15 DEF TypeOK, Spared, Gone, Barred, Attempting, RunPodSandbox
  <2>. QED
    BY <1>0, <2>1, SparedIsKept
<1>16. ASSUME NEW j \in Instances, StartContainers(j)
      PROVE  DeathInv(id)'
  <2>1. Spared(id)
    BY <1>16 DEF TypeOK, Spared, Gone, Barred, Attempting, StartContainers
  <2>. QED
    BY <1>0, <2>1, SparedIsKept
<1>17. ASSUME NEW j \in Instances, CreationDone(j)
      PROVE  DeathInv(id)'
  <2>1. CASE j = id
    <3>1. ~Gone(id) /\ ~Dying(id)
      BY <1>17, <1>0, <2>1 DEF DeathInv, Attempting, CreationDone
    <3>2. /\ ~Gone(id)' /\ ~Dying(id)' /\ ~LateDeath(id)'
          /\ report'[id].state # "DELETED"
      BY <1>17, <3>1 DEF Gone, Dying, LateDeath, CreationDone
    <3>. QED
      BY <3>2 DEF DeathInv
  <2>2. CASE j # id
    <3>1. store'[id] = store[id]
      BY <1>17, <2>2, SetStateOther DEF WorkloadStates, CreationDone
    <3>2. Spared(id)
      BY <1>17, <2>2, <3>1 DEF TypeOK, Spared, Gone, Barred, CreationDone
    <3>. QED
      BY <1>0, <3>2, SparedIsKept
  <2>. QED
    BY <2>1, <2>2
<1>18. ASSUME NEW j \in Instances, RunWorkloadError(j)
      PROVE  DeathInv(id)'
  <2>1. Spared(id)
    BY <1>18 DEF TypeOK, Spared, Gone, Barred, Attempting, RunWorkloadError
  <2>. QED
    BY <1>0, <2>1, SparedIsKept
<1>19. ASSUME NEW j \in Instances, Healthy(j)
      PROVE  DeathInv(id)'
  <2>1. Spared(id)
    BY <1>19 DEF TypeOK, Spared, Gone, Barred, Attempting, Healthy
  <2>. QED
    BY <1>0, <2>1, SparedIsKept
<1>20. ASSUME NEW j \in Instances, Unhealthy(j)
      PROVE  DeathInv(id)'
  <2>1. Spared(id)
    BY <1>20 DEF TypeOK, Spared, Gone, Barred, Attempting, Unhealthy
  <2>. QED
    BY <1>0, <2>1, SparedIsKept
<1>21. ASSUME NEW j \in Instances, ListPodSandbox(j)
      PROVE  DeathInv(id)'
  <2>1. Spared(id)
    BY <1>21 DEF Spared, Gone, Barred, ListPodSandbox
  <2>. QED
    BY <1>0, <2>1, SparedIsKept
<1>22. ASSUME NEW j \in Instances, RemoveWorkloadDone(j)
      PROVE  DeathInv(id)'
  <2>1. attempts'[id] < MaxAttempts => attempts[id] < MaxAttempts
    BY <1>22, AttemptsGrow DEF RemoveWorkloadDone
  <2>2. attempts'[id] \in 0..MaxAttempts + 1
    BY <1>22, <1>0, SMT DEF TypeOK, CountAttempt, RemoveWorkloadDone
  <2>3. store'[id] = store[id] \/ store'[id].state = "DELETED"
    BY <1>22, SetStateOther DEF WorkloadStates, RemoveWorkloadDone
  <2>4. Barred(id) => Barred(id)'
    BY <1>0, <2>1, <2>2, <2>3, SMT DEF Barred
  <2>5. Spared(id)
    BY <1>22, <2>1, <2>4 DEF TypeOK, Spared, Gone, Attempting, RemoveWorkloadDone
  <2>. QED
    BY <1>0, <2>5, SparedIsKept
<1>23. ASSUME NEW j \in Instances, RemoveWorkloadError(j)
      PROVE  DeathInv(id)'
  <2>1. attempts'[id] < MaxAttempts => attempts[id] < MaxAttempts
    BY <1>23, AttemptsGrow DEF RemoveWorkloadError
  <2>2. attempts'[id] \in 0..MaxAttempts + 1
    BY <1>23, <1>0, SMT DEF TypeOK, CountAttempt, RemoveWorkloadError
  <2>3. store'[id] = store[id] \/ store'[id].state = "DELETED"
    BY <1>23 DEF WorkloadStates, RemoveWorkloadError
  <2>4. Barred(id) => Barred(id)'
    BY <1>0, <2>1, <2>2, <2>3, SMT DEF Barred
  <2>5. Spared(id)
    BY <1>23, <2>1, <2>4 DEF TypeOK, Spared, Gone, Attempting, RemoveWorkloadError
  <2>. QED
    BY <1>0, <2>5, SparedIsKept
<1>24. ASSUME NEW j \in Instances, StopWorkload(j)
      PROVE  DeathInv(id)'
  <2>1. Spared(id)
    BY <1>24 DEF Spared, Gone, Barred, StopWorkload
  <2>. QED
    BY <1>0, <2>1, SparedIsKept
<1>25. ASSUME NEW j \in Instances, StopRemoved(j)
      PROVE  DeathInv(id)'
  <2>1. Spared(id)
    BY <1>25 DEF Spared, Gone, Barred, StopRemoved
  <2>. QED
    BY <1>0, <2>1, SparedIsKept
<1>26. ASSUME NEW j \in Instances, StopError(j)
      PROVE  DeathInv(id)'
  <2>1. Spared(id)
    BY <1>26 DEF Spared, Gone, Barred, StopError
  <2>. QED
    BY <1>0, <2>1, SparedIsKept
<1>27. ASSUME NEW j \in Instances, StopUpdate(j)
      PROVE  DeathInv(id)'
  <2>1. Barred(id) => Barred(id)'
    BY <1>27, SetStateOther DEF Barred, WorkloadStates, StopUpdate
  <2>2. Spared(id)
    BY <1>27, <2>1 DEF Spared, Gone, StopUpdate
  <2>. QED
    BY <1>0, <2>2, SparedIsKept
<1>28. ASSUME NEW j \in Instances, NEW a \in Attempts, ContainerExits(j, a)
      PROVE  DeathInv(id)'
  <2>1. Spared(id)
    BY <1>28 DEF Spared, Gone, Barred, ContainerExits
  <2>. QED
    BY <1>0, <2>1, SparedIsKept
<1>29. CASE UNCHANGED vars
  <2>1. Spared(id)
    BY <1>29 DEF Spared, Gone, Barred, vars
  <2>. QED
    BY <1>0, <2>1, SparedIsKept
<1>. QED
  BY <1>1, <1>2, <1>3, <1>4, <1>5, <1>6, <1>7, <1>8, <1>9, <1>10, <1>11, <1>12, <1>13,
     <1>14, <1>15, <1>16, <1>17, <1>18, <1>19, <1>20, <1>21, <1>22, <1>23, <1>24, <1>25,
     <1>26, <1>27, <1>28, <1>29
     DEF Next, ControlPlane, Tick, Goroutine, Stop

(* Whatever the number of instances, attempts and reports that are applied *)
(* after their call had failed: handleInstanceCreation never works on an   *)
(* instance whose row is gone (reconciler.go:251-353).                     *)
THEOREM CreationsHaveRows == Spec => []CreationHasRow
<1> DEFINE Inv == IInv /\ OrderInv /\ RowInv
<1>1. Init => Inv
  <2>1. Init => OrderInv
    BY SMT DEF Init, OrderInv, Unknown, Gone, NoReports
  <2>2. Init => RowInv
    <3> SUFFICES ASSUME Init, NEW id \in Instances PROVE DeathInv(id)
      BY DEF RowInv
    <3>1. ~Dying(id) /\ ~LateDeath(id)
      BY DEF Init, Dying, LateDeath, NoReports, NoStatus
    <3>2. pc[id] = "idle" /\ tick = "idle"
      BY DEF Init
    <3>. QED
      BY <3>1, <3>2 DEF DeathInv, Attempting
  <2>. QED
    BY <2>1, <2>2, TypeInit, PortInit DEF IInv
<1>2. Inv /\ [Next]_vars => Inv'
  <2>1. TypeInv /\ [Next]_vars => TypeInv'
    BY TypeStep
  <2>2. IInv /\ OrderInv /\ [Next]_vars => OrderInv'
    BY OrderStep DEF IInv, TypeInv
  <2>3. Inv /\ [Next]_vars => RowInv'
    BY DeathStep DEF IInv, TypeInv
  <2>. QED
    BY <2>1, <2>2, <2>3, PortStep DEF IInv
<1>3. Inv => CreationHasRow
  BY DEF RowInv, DeathInv, Gone, Attempting, CreationHasRow
<1>. QED
  BY <1>1, <1>2, <1>3, PTL DEF Spec
=============================================================================
