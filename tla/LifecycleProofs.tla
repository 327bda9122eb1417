-------------------------- MODULE LifecycleProofs --------------------------
(* Reconciler implements InstanceLifecycle, for every set of instances and *)
(* ports and every number of attempts, as long as a failed report is not   *)
(* applied later than the next one and nothing is marked DELETING.         *)
EXTENDS CreationProofs, ReconcilerRestarts, FiniteSetTheorems

(* Leaves are for Zenon unless they name SMT. *)
USE Zenon

(* The store says nothing, or DELETED, or that id runs on port p. *)
Keeps(id, p) == store[id].state \in {"none", "DELETED"} \/ RunningAt(store[id], p)

(* Once a row is RUNNING no creation works on the instance any more, so    *)
(* that what the store says of it, and what a report takes from the store, *)
(* is the port of the row or the end of the instance.                      *)
LifeInv(id) ==
    /\ Runs(id) => pc[id] \notin Attempting \cup {"create"}
    /\ Runs(id) => Keeps(id, rows[id].port)
    /\ tick = "report" /\ report[id].state = "RUNNING" => Keeps(id, report[id].port)
    /\ tick = "report" /\ Runs(id) =>
           report[id].state \in {"none", "DELETED"} \/ RunningAt(report[id], rows[id].port)

LivesInv == late = {} /\ \A id \in Instances : LifeInv(id)
-----------------------------------------------------------------------------
(* The invariant. *)

(* What a step that neither creates, builds nor applies a report may do. *)
Settled(id) ==
    /\ rows'[id] = rows[id]
    /\ store'[id] = store[id] \/ store'[id].state \in {"none", "DELETED"}
    /\ tick' = "report" => tick = "report" /\ report'[id] = report[id]
    /\ pc'[id] \in Attempting \cup {"create"} => pc[id] \in Attempting \cup {"create"}

LEMMA SettledIsKept ==
    ASSUME NEW id \in Instances, LifeInv(id), Settled(id)
    PROVE  LifeInv(id)'
<1>1. \A p : Keeps(id, p) => Keeps(id, p)'
  BY DEF Settled, Keeps, RunningAt
<1>2. (Runs(id)' <=> Runs(id)) /\ rows'[id] = rows[id]
  BY DEF Settled, Runs
<1>. QED
  BY <1>1, <1>2 DEF Settled, LifeInv, RunningAt

(* While an instance that does not run is being created anything may be    *)
(* written to the store: the reports are not built before it is over.      *)
LEMMA CreatingIsKept ==
    ASSUME NEW id \in Instances, ~Runs(id), rows' = rows, tick' # "report"
    PROVE  LifeInv(id)'
  BY DEF LifeInv, Runs

(* Applied reports leave a running row as it is or remove it. *)
LEMMA AppliedIsKept ==
    ASSUME TypeOK, TickInv, NEW id \in Instances, LifeInv(id), tick = "report",
           rows' \in PartlyApplied(rows, report),
           store' = store, pc' = pc, tick' # "report"
    PROVE  LifeInv(id)'
<1>1. rows \in [Instances -> Row] /\ report \in Reports /\ pc'[id] = "idle"
  BY DEF TypeOK, TickInv
<1>2. ASSUME Runs(id)' PROVE Keeps(id, rows'[id].port)
  <2>1. RunningAt(rows'[id], rows'[id].port)
    BY <1>2 DEF Runs, RunningAt
  <2>2. RunningAt(rows[id], rows'[id].port) \/ RunningAt(report[id], rows'[id].port)
    BY <1>1, <2>1, ApplyMentions, SMT
  <2>. QED
    BY <2>2 DEF LifeInv, RunningAt, Runs
<1>3. Runs(id)' => Keeps(id, rows[id].port)'
  BY <1>2 DEF Keeps
<1>. QED
  BY <1>1, <1>3 DEF LifeInv, Attempting

LEMMA LifeStep ==
    ASSUME MaxLate = 0, Deletable = {}
    PROVE  TypeOK /\ TickInv /\ LivesInv /\ [Next]_vars => LivesInv'
<1> SUFFICES ASSUME TypeOK, TickInv, LivesInv, [Next]_vars
             PROVE  LivesInv'
  OBVIOUS
<1>0. late = {} /\ \A id \in Instances : LifeInv(id)
  BY DEF LivesInv
<1>1. ASSUME NEW j \in Instances, RunFlavorVersion(j)
      PROVE  LivesInv'
  <2>1. \A id \in Instances \ {j} : Settled(id)
    BY <1>1 DEF TypeOK, Settled, RunFlavorVersion
  <2>2. rows'[j] = PendingRow
    BY <1>1 DEF TypeOK, RunFlavorVersion
  <2>3. ~Runs(j)'
    BY <2>2, SMT DEF Runs, PendingRow
  <2>4. tick = "report" /\ report[j].state = "RUNNING" => Keeps(j, report[j].port)
    BY <1>0 DEF LifeInv
  <2>5. LifeInv(j)'
    BY <1>1, <2>3, <2>4 DEF LifeInv, Keeps, RunFlavorVersion
  <2>6. \A id \in Instances \ {j} : LifeInv(id)'
    BY <1>0, <2>1, SettledIsKept
  <2>. QED
    BY <1>0, <1>1, <2>5, <2>6 DEF LivesInv, RunFlavorVersion
<1>2. ASSUME NEW j \in Instances, MarkDeleting(j)
      PROVE  LivesInv'
  BY <1>2 DEF MarkDeleting
<1>3. ASSUME NEW r \in late, ApplyLateReport(r)
      PROVE  LivesInv'
  BY <1>0, <1>3
<1>4. ASSUME DiscoverInstances
      PROVE  LivesInv'
  <2>1. \A id \in Instances : Runs(id) => pc'[id] = "check"
    BY <1>4 DEF Runs, Case, DiscoverInstances
  <2>2. ASSUME NEW id \in Instances PROVE LifeInv(id)'
    <3>1. Runs(id) => Keeps(id, rows[id].port)
      BY <1>0 DEF LifeInv
    <3>. QED
      BY <1>4, <2>1, <3>1 DEF LifeInv, Keeps, Runs, Attempting, DiscoverInstances
  <2>. QED
    BY <1>0, <1>4, <2>2 DEF LivesInv, DiscoverInstances
<1>5. ASSUME View
      PROVE  LivesInv'
  <2>1. ASSUME NEW id \in Instances PROVE LifeInv(id)'
    <3>1. LifeInv(id) /\ pc'[id] = "idle" /\ rows' = rows /\ store' = store
      BY <1>0, <1>5 DEF View
    <3>2. report'[id] = store[id] \/ (Torn(id) /\ report'[id].state = "PENDING")
      BY <1>5, SMT DEF View
    <3>3. Runs(id) => ~Torn(id)
      BY <3>1 DEF LifeInv, Keeps, RunningAt, Torn
    <3>4. Runs(id) => Keeps(id, rows[id].port)
      BY <3>1 DEF LifeInv
    <3>. QED
      BY <3>1, <3>2, <3>3, <3>4 DEF LifeInv, Keeps, RunningAt, Runs, Attempting
  <2>. QED
    BY <1>0, <1>5, <2>1 DEF LivesInv, View
<1>6. ASSUME SendReports
      PROVE  LivesInv'
  <2>1. rows' \in PartlyApplied(rows, report)
    BY <1>6 DEF PartlyApplied, SendReports
  <2>2. \A id \in Instances : LifeInv(id)'
    BY <1>0, <1>6, <2>1, AppliedIsKept DEF SendReports
  <2>. QED
    BY <1>0, <1>6, <2>2 DEF LivesInv, SendReports
<1>7. ASSUME SendReportsError
      PROVE  LivesInv'
  <2>1. ~(Cardinality(late) < MaxLate)
    BY <1>0, FS_EmptySet, SMT
  <2>2. rows' \in PartlyApplied(rows, report) /\ late' = late
    BY <1>7, <2>1 DEF SendReportsError
  <2>3. \A id \in Instances : LifeInv(id)'
    BY <1>0, <1>7, <2>2, AppliedIsKept DEF SendReportsError
  <2>. QED
    BY <1>0, <2>2, <2>3 DEF LivesInv
<1>8. ASSUME NEW j \in Instances, Prune(j)
      PROVE  LivesInv'
  <2>1. \A id \in Instances : Settled(id)
    BY <1>8 DEF TypeOK, Settled, Del, NoStatus, Prune
  <2>. QED
    BY <1>0, <1>8, <2>1, SettledIsKept DEF LivesInv, Prune
<1>9. ASSUME TickDone
      PROVE  LivesInv'
  <2>1. \A id \in Instances : Settled(id)
    BY <1>9 DEF TypeOK, Settled, TickDone
  <2>. QED
    BY <1>0, <1>9, <2>1, SettledIsKept DEF LivesInv, TickDone
<1>10. ASSUME NEW j \in Instances, MaxAttemptsReached(j)
      PROVE  LivesInv'
  <2>1. ~Runs(j) /\ tick = "reconcile"
    BY <1>0, <1>10 DEF TickInv, LifeInv, Attempting, MaxAttemptsReached
  <2>2. \A id \in Instances \ {j} : store'[id] = store[id]
    BY <1>10, SetStateOther DEF WorkloadStates, MaxAttemptsReached
  <2>3. \A id \in Instances \ {j} : Settled(id)
    BY <1>10, <2>2 DEF TypeOK, Settled, MaxAttemptsReached
  <2>4. LifeInv(j)'
    BY <1>10, <2>1, CreatingIsKept DEF MaxAttemptsReached
  <2>5. \A id \in Instances \ {j} : LifeInv(id)'
    BY <1>0, <2>3, SettledIsKept
  <2>. QED
    BY <1>0, <1>10, <2>4, <2>5 DEF LivesInv, MaxAttemptsReached
<1>11. ASSUME NEW j \in Instances, SkipCreation(j)
      PROVE  LivesInv'
  <2>1. \A id \in Instances : Settled(id)
    BY <1>11 DEF TypeOK, Settled, Attempting, SkipCreation
  <2>. QED
    BY <1>0, <1>11, <2>1, SettledIsKept DEF LivesInv, SkipCreation
<1>12. ASSUME NEW j \in Instances, BeginCreation(j)
      PROVE  LivesInv'
  <2>1. \A id \in Instances : Settled(id)
    BY <1>12 DEF TypeOK, Settled, Attempting, BeginCreation
  <2>. QED
    BY <1>0, <1>12, <2>1, SettledIsKept DEF LivesInv, BeginCreation
<1>13. ASSUME NEW j \in Instances, NEW p \in Ports, AllocatePort(j, p)
      PROVE  LivesInv'
  <2>1. ~Runs(j) /\ tick = "reconcile"
    BY <1>0, <1>13 DEF TickInv, LifeInv, Attempting, AllocatePort
  <2>2. \A id \in Instances \ {j} : store'[id] = store[id]
    BY <1>13, AllocateOther DEF WorkloadStates, AllocatePort
  <2>3. \A id \in Instances \ {j} : Settled(id)
    BY <1>13, <2>2 DEF TypeOK, Settled, AllocatePort
  <2>4. LifeInv(j)'
    BY <1>13, <2>1, CreatingIsKept DEF AllocatePort
  <2>5. \A id \in Instances \ {j} : LifeInv(id)'
    BY <1>0, <2>3, SettledIsKept
  <2>. QED
    BY <1>0, <1>13, <2>4, <2>5 DEF LivesInv, AllocatePort
<1>14. ASSUME NEW j \in Instances, AllocateError(j)
      PROVE  LivesInv'
  <2>1. ~Runs(j) /\ tick = "reconcile"
    BY <1>0, <1>14 DEF TickInv, LifeInv, Attempting, AllocateError
  <2>2. \A id \in Instances \ {j} : store'[id] = store[id]
    BY <1>14, SetStateOther DEF WorkloadStates, AllocateError
  <2>3. \A id \in Instances \ {j} : Settled(id)
    BY <1>14, <2>2 DEF TypeOK, Settled, AllocateError
  <2>4. LifeInv(j)'
    BY <1>14, <2>1, CreatingIsKept DEF AllocateError
  <2>5. \A id \in Instances \ {j} : LifeInv(id)'
    BY <1>0, <2>3, SettledIsKept
  <2>. QED
    BY <1>0, <1>14, <2>4, <2>5 DEF LivesInv, AllocateError
<1>15. ASSUME NEW j \in Instances, RunPodSandbox(j)
      PROVE  LivesInv'
  <2>1. \A id \in Instances : Settled(id)
    BY <1>15 DEF TypeOK, Settled, Attempting, RunPodSandbox
  <2>. QED
    BY <1>0, <1>15, <2>1, SettledIsKept DEF LivesInv, RunPodSandbox
<1>16. ASSUME NEW j \in Instances, StartContainers(j)
      PROVE  LivesInv'
  <2>1. \A id \in Instances : Settled(id)
    BY <1>16 DEF TypeOK, Settled, Attempting, StartContainers
  <2>. QED
    BY <1>0, <1>16, <2>1, SettledIsKept DEF LivesInv, StartContainers
<1>17. ASSUME NEW j \in Instances, CreationDone(j)
      PROVE  LivesInv'
  <2>1. ~Runs(j) /\ tick = "reconcile"
    BY <1>0, <1>17 DEF TickInv, LifeInv, Attempting, CreationDone
  <2>2. \A id \in Instances \ {j} : store'[id] = store[id]
    BY <1>17, SetStateOther DEF WorkloadStates, CreationDone
  <2>3. \A id \in Instances \ {j} : Settled(id)
    BY <1>17, <2>2 DEF TypeOK, Settled, CreationDone
  <2>4. LifeInv(j)'
    BY <1>17, <2>1, CreatingIsKept DEF CreationDone
  <2>5. \A id \in Instances \ {j} : LifeInv(id)'
    BY <1>0, <2>3, SettledIsKept
  <2>. QED
    BY <1>0, <1>17, <2>4, <2>5 DEF LivesInv, CreationDone
<1>18. ASSUME NEW j \in Instances, RunWorkloadError(j)
      PROVE  LivesInv'
  <2>1. \A id \in Instances : Settled(id)
    BY <1>18 DEF TypeOK, Settled, Attempting, RunWorkloadError
  <2>. QED
    BY <1>0, <1>18, <2>1, SettledIsKept DEF LivesInv, RunWorkloadError
<1>19. ASSUME NEW j \in Instances, Healthy(j)
      PROVE  LivesInv'
  <2>1. \A id \in Instances : Settled(id)
    BY <1>19 DEF TypeOK, Settled, Attempting, Healthy
  <2>. QED
    BY <1>0, <1>19, <2>1, SettledIsKept DEF LivesInv, Healthy
<1>20. ASSUME NEW j \in Instances, Unhealthy(j)
      PROVE  LivesInv'
  <2>1. \A id \in Instances : Settled(id)
    BY <1>20 DEF TypeOK, Settled, Attempting, Unhealthy
  <2>. QED
    BY <1>0, <1>20, <2>1, SettledIsKept DEF LivesInv, Unhealthy
<1>21. ASSUME NEW j \in Instances, ListPodSandbox(j)
      PROVE  LivesInv'
  <2>1. \A id \in Instances : Settled(id)
    BY <1>21 DEF TypeOK, Settled, Attempting, ListPodSandbox
  <2>. QED
    BY <1>0, <1>21, <2>1, SettledIsKept DEF LivesInv, ListPodSandbox
<1>22. ASSUME NEW j \in Instances, RemoveWorkloadDone(j)
      PROVE  LivesInv'
  <2>0. \A id \in Instances : store'[id] = store[id] \/ store'[id].state = "DELETED"
    BY <1>22, SetStateOther DEF WorkloadStates, RemoveWorkloadDone
  <2>1. \A id \in Instances : Settled(id)
    BY <1>22, <2>0 DEF TypeOK, Settled, Attempting, RemoveWorkloadDone
  <2>. QED
    BY <1>0, <1>22, <2>1, SettledIsKept DEF LivesInv, RemoveWorkloadDone
<1>23. ASSUME NEW j \in Instances, RemoveWorkloadError(j)
      PROVE  LivesInv'
  <2>1. \A id \in Instances : Settled(id)
    BY <1>23 DEF TypeOK, Settled, Attempting, RemoveWorkloadError
  <2>. QED
    BY <1>0, <1>23, <2>1, SettledIsKept DEF LivesInv, RemoveWorkloadError
<1>24. ASSUME NEW j \in Instances, StopWorkload(j)
      PROVE  LivesInv'
  <2>1. \A id \in Instances : Settled(id)
    BY <1>24 DEF TypeOK, Settled, StopWorkload
  <2>. QED
    BY <1>0, <1>24, <2>1, SettledIsKept DEF LivesInv, StopWorkload
<1>25. ASSUME NEW j \in Instances, StopRemoved(j)
      PROVE  LivesInv'
  <2>1. \A id \in Instances : Settled(id)
    BY <1>25 DEF TypeOK, Settled, StopRemoved
  <2>. QED
    BY <1>0, <1>25, <2>1, SettledIsKept DEF LivesInv, StopRemoved
<1>26. ASSUME NEW j \in Instances, StopError(j)
      PROVE  LivesInv'
  <2>1. \A id \in Instances : Settled(id)
    BY <1>26 DEF TypeOK, Settled, StopError
  <2>. QED
    BY <1>0, <1>26, <2>1, SettledIsKept DEF LivesInv, StopError
<1>27. ASSUME NEW j \in Instances, StopUpdate(j)
      PROVE  LivesInv'
  <2>0. \A id \in Instances : store'[id] = store[id] \/ store'[id].state = "DELETED"
    BY <1>27, SetStateOther DEF WorkloadStates, StopUpdate
  <2>1. \A id \in Instances : Settled(id)
    BY <1>27, <2>0 DEF TypeOK, Settled, StopUpdate
  <2>. QED
    BY <1>0, <1>27, <2>1, SettledIsKept DEF LivesInv, StopUpdate
<1>28. ASSUME NEW j \in Instances, NEW a \in Attempts, ContainerExits(j, a)
      PROVE  LivesInv'
  <2>1. \A id \in Instances : Settled(id)
    BY <1>28 DEF TypeOK, Settled, ContainerExits
  <2>. QED
    BY <1>0, <1>28, <2>1, SettledIsKept DEF LivesInv, ContainerExits
<1>29. CASE UNCHANGED vars
  <2>1. \A id \in Instances : Settled(id)
    BY <1>29 DEF Settled, vars
  <2>. QED
    BY <1>0, <1>29, <2>1, SettledIsKept DEF LivesInv, vars
<1>. QED
  BY <1>1, <1>2, <1>3, <1>4, <1>5, <1>6, <1>7, <1>8, <1>9, <1>10, <1>11, <1>12, <1>13,
     <1>14, <1>15, <1>16, <1>17, <1>18, <1>19, <1>20, <1>21, <1>22, <1>23, <1>24, <1>25,
     <1>26, <1>27, <1>28, <1>29
     DEF Next, ControlPlane, Tick, Goroutine, Stop
-----------------------------------------------------------------------------
(* The refinement. *)

LEMMA PhaseIs ==
    ASSUME NEW id \in Instances
    PROVE  /\ id \notin ordered => Phase(id) = Lifecycle!Fresh
           /\ id \in ordered /\ Gone(id) => Phase(id) = Lifecycle!Gone
           /\ id \in ordered /\ ~Gone(id) /\ Runs(id) => Phase(id) = Lifecycle!Running(rows[id].port)
           /\ id \in ordered /\ ~Gone(id) /\ ~Runs(id) => Phase(id) = Lifecycle!Waiting
<1>0. Runs(id) => ~Gone(id)
  BY SMT DEF Runs, Gone, NoRow
<1>1. id \notin ordered => Phase(id) = Lifecycle!Fresh
  BY <1>0 DEF Phase, Lifecycle!Fresh
<1>2. id \in ordered /\ Gone(id) => Phase(id) = Lifecycle!Gone
  BY <1>0 DEF Phase, Gone, Lifecycle!Gone
<1>3. id \in ordered /\ ~Gone(id) /\ Runs(id) => Phase(id) = Lifecycle!Running(rows[id].port)
  BY <1>0 DEF Phase, Gone, Lifecycle!Running
<1>4. id \in ordered /\ ~Gone(id) /\ ~Runs(id) => Phase(id) = Lifecycle!Waiting
  BY <1>0 DEF Phase, Gone, Lifecycle!Waiting
<1>. QED
  BY <1>1, <1>2, <1>3, <1>4

LEMMA SuccessorsAre ==
    /\ {Lifecycle!Fresh, Lifecycle!Waiting} \subseteq Lifecycle!Successors(Lifecycle!Fresh)
    /\ {Lifecycle!Waiting, Lifecycle!Gone} \subseteq Lifecycle!Successors(Lifecycle!Waiting)
    /\ \A p \in Ports : Lifecycle!Running(p) \in Lifecycle!Successors(Lifecycle!Waiting)
    /\ \A p : {Lifecycle!Running(p), Lifecycle!Gone} \subseteq Lifecycle!Successors(Lifecycle!Running(p))
    /\ Lifecycle!Gone \in Lifecycle!Successors(Lifecycle!Gone)
  BY DEF Lifecycle!Successors, Lifecycle!Fresh, Lifecycle!Gone, Lifecycle!Running, Lifecycle!Waiting

(* What one step may do to the row of an instance. *)
Advances(id) ==
    \/ (id \in ordered' <=> id \in ordered) /\ rows'[id] = rows[id]
    \/ id \notin ordered /\ id \in ordered' /\ rows'[id] = PendingRow
    \/ id \in ordered /\ id \in ordered' /\ ~Gone(id) /\ Gone(id)'
    \/ /\ id \in ordered /\ id \in ordered' /\ ~Gone(id) /\ ~Gone(id)'
       /\ Runs(id) => Runs(id)' /\ rows'[id].port = rows[id].port

LEMMA AppliedAdvances ==
    ASSUME TypeOK, NEW id \in Instances, OrderInv, LifeInv(id), tick = "report",
           rows' \in PartlyApplied(rows, report), ordered' = ordered
    PROVE  Advances(id)
<1>1. rows \in [Instances -> Row] /\ report \in Reports
  BY DEF TypeOK
<1>2. Gone(id) => Gone(id)'
  BY <1>1, ApplyKeepsGone DEF Gone
<1>3. CASE Gone(id)
  BY <1>2, <1>3 DEF Advances, Gone
<1>4. CASE ~Gone(id)
  <2>1. id \in ordered
    BY <1>4 DEF OrderInv, Unknown
  <2>2. ASSUME Runs(id), ~Gone(id)'
        PROVE  Runs(id)' /\ rows'[id].port = rows[id].port
    <3>1. report[id].state \in {"none", "DELETED"} \/ RunningAt(report[id], rows[id].port)
      BY <2>2 DEF LifeInv
    <3>2. \/ rows'[id] = rows[id] \/ rows'[id] = NoRow
          \/ /\ report[id].state \notin {"none", "DELETED"}
             /\ rows'[id] = [state |-> report[id].state, port |-> report[id].port]
      <4>1. CASE rows' = rows
        BY <4>1
      <4>2. CASE rows' = BulkUpdateInstanceStateAndPort(rows, report)
        BY <4>2 DEF BulkUpdateInstanceStateAndPort
      <4>3. CASE rows' = ApplyStatusReports(rows, report)
        BY <4>3 DEF ApplyStatusReports, BulkDeleteInstances, BulkUpdateInstanceStateAndPort
      <4>. QED
        BY <4>1, <4>2, <4>3 DEF PartlyApplied
    <3>. QED
      BY <2>2, <3>1, <3>2, SMT DEF Runs, RunningAt, Gone
  <2>. QED
    BY <1>4, <2>1, <2>2 DEF Advances
<1>. QED
  BY <1>3, <1>4

LEMMA RowsAdvance ==
    ASSUME MaxLate = 0, Deletable = {}, TypeOK, OrderInv, LivesInv, [Next]_vars, NEW id \in Instances
    PROVE  Advances(id)
<1>0. late = {} /\ LifeInv(id)
  BY DEF LivesInv
<1>1. ASSUME NEW j \in Instances, RunFlavorVersion(j) PROVE Advances(id)
  BY <1>1 DEF TypeOK, Advances, RunFlavorVersion
<1>2. ASSUME SendReports PROVE Advances(id)
  BY <1>0, <1>2, AppliedAdvances DEF PartlyApplied, SendReports
<1>3. ASSUME SendReportsError PROVE Advances(id)
  <2>1. rows' \in PartlyApplied(rows, report)
    BY <1>3 DEF PartlyApplied, SendReportsError
  <2>. QED
    BY <1>0, <1>3, <2>1, AppliedAdvances DEF SendReportsError
<1>4. ASSUME UNCHANGED <<rows, ordered>> PROVE Advances(id)
  BY <1>4 DEF Advances
<1>5. \/ \E j \in Instances : RunFlavorVersion(j)
      \/ SendReports \/ SendReportsError
      \/ UNCHANGED <<rows, ordered>>
  <2>1. ControlPlane => \E j \in Instances : RunFlavorVersion(j)
    BY <1>0 DEF ControlPlane, MarkDeleting
  <2>2. Tick => SendReports \/ SendReportsError \/ UNCHANGED <<rows, ordered>>
    BY DEF Tick, DiscoverInstances, View, Prune, TickDone
  <2>3. ASSUME NEW j \in Instances, Goroutine(j) PROVE UNCHANGED <<rows, ordered>>
    BY <2>3 DEF Goroutine, MaxAttemptsReached, SkipCreation, BeginCreation, AllocatePort, AllocateError,
       RunPodSandbox, StartContainers, CreationDone, RunWorkloadError, Healthy,
       Unhealthy, ListPodSandbox, RemoveWorkloadDone, RemoveWorkloadError
  <2>4. ASSUME NEW j \in Instances, Stop(j) PROVE UNCHANGED <<rows, ordered>>
    BY <2>4 DEF Stop, StopWorkload, StopRemoved, StopError, StopUpdate
  <2>5. ASSUME NEW j \in Instances, NEW a \in Attempts, ContainerExits(j, a)
        PROVE  UNCHANGED <<rows, ordered>>
    BY <2>5 DEF ContainerExits
  <2>. QED
    BY <2>1, <2>2, <2>3, <2>4, <2>5 DEF Next, vars
<1>. QED
  BY <1>1, <1>2, <1>3, <1>4, <1>5

(* Where a row goes is where its lifecycle may go. *)
LEMMA PhaseAdvances ==
    ASSUME NEW id \in Instances, OrderInv, Advances(id),
           Runs(id)' => rows'[id].port \in Ports
    PROVE  Phase(id)' \in Lifecycle!Successors(Phase(id))
<1> DEFINE New == Phase(id)'
<1>0. /\ id \notin ordered' => New = Lifecycle!Fresh
      /\ id \in ordered' /\ Gone(id)' => New = Lifecycle!Gone
      /\ id \in ordered' /\ ~Gone(id)' /\ Runs(id)' => New = Lifecycle!Running(rows'[id].port)
      /\ id \in ordered' /\ ~Gone(id)' /\ ~Runs(id)' => New = Lifecycle!Waiting
  <2>0. Runs(id)' => ~Gone(id)'
    BY SMT DEF Runs, Gone, NoRow
  <2>1. id \notin ordered' => New = Lifecycle!Fresh
    BY <2>0 DEF Phase, Lifecycle!Fresh
  <2>2. id \in ordered' /\ Gone(id)' => New = Lifecycle!Gone
    BY <2>0 DEF Phase, Gone, Lifecycle!Gone
  <2>3. id \in ordered' /\ ~Gone(id)' /\ Runs(id)' => New = Lifecycle!Running(rows'[id].port)
    BY <2>0 DEF Phase, Gone, Lifecycle!Running
  <2>4. id \in ordered' /\ ~Gone(id)' /\ ~Runs(id)' => New = Lifecycle!Waiting
    BY <2>0 DEF Phase, Gone, Lifecycle!Waiting
  <2>. QED
    BY <2>1, <2>2, <2>3, <2>4
<1>1. CASE (id \in ordered' <=> id \in ordered) /\ rows'[id] = rows[id]
  <2>1. (Gone(id)' <=> Gone(id)) /\ (Runs(id)' <=> Runs(id))
    BY <1>1 DEF Gone, Runs
  <2>. QED
    BY <1>0, <1>1, <2>1, PhaseIs, SuccessorsAre
<1>2. CASE id \notin ordered /\ id \in ordered' /\ rows'[id] = PendingRow
  <2>1. ~Gone(id)' /\ ~Runs(id)'
    BY <1>2, SMT DEF Gone, Runs, PendingRow, NoRow
  <2>. QED
    BY <1>0, <1>2, <2>1, PhaseIs, SuccessorsAre
<1>3. CASE id \in ordered /\ id \in ordered' /\ ~Gone(id) /\ Gone(id)'
  BY <1>0, <1>3, PhaseIs, SuccessorsAre
<1>4. CASE /\ id \in ordered /\ id \in ordered' /\ ~Gone(id) /\ ~Gone(id)'
           /\ Runs(id) => Runs(id)' /\ rows'[id].port = rows[id].port
  <2>1. CASE Runs(id)
    BY <1>0, <1>4, <2>1, PhaseIs, SuccessorsAre
  <2>2. CASE ~Runs(id) /\ Runs(id)'
    BY <1>0, <1>4, <2>2, PhaseIs, SuccessorsAre
  <2>3. CASE ~Runs(id) /\ ~Runs(id)'
    BY <1>0, <1>4, <2>3, PhaseIs, SuccessorsAre
  <2>. QED
    BY <2>1, <2>2, <2>3
<1>. QED
  BY <1>1, <1>2, <1>3, <1>4 DEF Advances

LEMMA LifecycleStep ==
    ASSUME MaxLate = 0, Deletable = {}, IInv, IInv', OrderInv, LivesInv, [Next]_vars
    PROVE  Lifecycle!Next
<1> DEFINE Now == [id \in Instances |-> Phase(id)]
           New == [id \in Instances |-> Phase(id)']
<1>1. \A id \in Instances : Advances(id)
  BY RowsAdvance DEF IInv, TypeInv
<1>2. /\ \A id \in Instances : Runs(id)' => rows'[id].port \in Ports
      /\ \A i, j \in Instances : Runs(i)' /\ Runs(j)' /\ rows'[i].port = rows'[j].port => i = j
  <2>1. \A id \in Instances : Runs(id)' => Mentions(id, rows[id].port)'
    BY DEF Runs, Mentions, RunningAt
  <2>2. allocated' \subseteq Ports /\ PortInv'
    BY DEF IInv, TypeInv, TypeOK
  <2>. QED
    BY <2>1, <2>2 DEF PortInv
<1>3. \A id \in Instances : New[id] \in Lifecycle!Successors(Now[id])
  BY <1>1, <1>2, PhaseAdvances
<1>4. \A id \in Instances : New[id].at = "running" => Runs(id)' /\ New[id].port = rows'[id].port
  BY SMT DEF Phase
<1>5. \A i, j \in {id \in Instances : New[id].at = "running"} : New[i].port = New[j].port => i = j
  BY <1>2, <1>4
<1>. QED
  BY <1>3, <1>5 DEF Lifecycle!Next, Lifecycle!Exclusive, Lifecycle!RunningOn

(* Whatever the instances, ports and attempts: what clients see of an      *)
(* instance follows the lifecycle of InstanceLifecycle, through failing    *)
(* and partly applied reports, torn reads of the store, retries, and       *)
(* StopWorkload running beside the tick (reconciler.go:119-408), if no     *)
(* failed report is applied later than the next one.                       *)
THEOREM RowsFollowLifecycle ==
    ASSUME MaxLate = 0, Deletable = {}
    PROVE  Spec => ImplementsLifecycle
<1> DEFINE Inv == IInv /\ OrderInv /\ LivesInv
<1>1. Init => Inv
  <2>1. Init => OrderInv
    BY SMT DEF Init, OrderInv, Unknown, Gone, NoReports
  <2>2. Init => LivesInv
    BY SMT DEF Init, LivesInv, LifeInv, Runs, NoRow
  <2>. QED
    BY <2>1, <2>2, TypeInit, PortInit DEF IInv
<1>2. Inv /\ [Next]_vars => Inv'
  <2>1. TypeInv /\ [Next]_vars => TypeInv'
    BY TypeStep
  <2>2. IInv /\ OrderInv /\ [Next]_vars => OrderInv'
    BY OrderStep DEF IInv, TypeInv
  <2>3. Inv /\ [Next]_vars => LivesInv'
    BY LifeStep DEF IInv, TypeInv
  <2>. QED
    BY <2>1, <2>2, <2>3, PortStep DEF IInv
<1>3. Init => Lifecycle!Init
  <2> SUFFICES ASSUME Init PROVE Lifecycle!Init
    OBVIOUS
  <2>1. \A id \in Instances : Phase(id) = Lifecycle!Fresh
    BY PhaseIs DEF Init
  <2>. QED
    BY <2>1 DEF Lifecycle!Init
<1>4. Inv /\ Inv' /\ [Next]_vars => Lifecycle!Next
  BY LifecycleStep
<1>. QED
  BY <1>1, <1>2, <1>3, <1>4, PTL DEF Spec, ImplementsLifecycle, Lifecycle!Spec
-----------------------------------------------------------------------------
(* The port that is shown. *)

(* Whatever says that id runs on port p says so of the pod of the last      *)
(* attempt.  It stays so because no attempt is under way or can begin for   *)
(* an instance that anything says is running.                               *)
Shown(id) ==
    /\ Runs(id) => pc[id] \notin Attempting \cup {"create"}
    /\ store[id].state = "RUNNING" => pc[id] \notin Attempting
    /\ \A a \in Attempts : \A p :
           Mentions(id, p) /\ a = Attempt(id) /\ pods[id][a] # NoPod => pods[id][a].port = p

(* Reports exist only from View to the end of the tick. *)
ReportInv == tick \in {"idle", "reconcile"} => report = NoReports

ShownInv == late = {} /\ ReportInv /\ \A id \in Instances : Shown(id)

(* Nothing says that id runs. *)
Unmentioned(id) ==
    /\ ~Runs(id) /\ store[id].state # "RUNNING" /\ report[id].state # "RUNNING"
    /\ late = {}

LEMMA UnmentionedIsShown ==
    ASSUME NEW id \in Instances
    PROVE  Unmentioned(id)' => Shown(id)'
  BY DEF Unmentioned, Shown, Mentions, RunningAt, Runs

LEMMA AttemptUnmentioned ==
    ASSUME ShownInv, TickInv, NEW id \in Instances, pc[id] \in Attempting
    PROVE  Unmentioned(id)
<1>1. pc[id] # "idle"
  BY DEF Attempting
<1>2. tick = "reconcile" /\ report = NoReports
  BY <1>1 DEF TickInv, ShownInv, ReportInv
<1>3. report[id].state = "none"
  BY <1>2 DEF NoReports, NoStatus
<1>. QED
  BY <1>3 DEF ShownInv, Shown, Unmentioned

(* A step that makes nothing say that id runs that did not, starts no       *)
(* attempt, and touches the attempts and the pods of id only while one is   *)
(* under way; a pod may be removed at any time.                             *)
Calm(id) ==
    /\ rows'[id] = rows[id] \/ rows'[id].state # "RUNNING"
    /\ store'[id] = store[id] \/ store'[id].state # "RUNNING"
    /\ report'[id] = report[id] \/ report'[id].state # "RUNNING"
    /\ pc'[id] = "create" => pc[id] = "create"
    /\ pc'[id] \in Attempting => pc[id] \in Attempting
    /\ \/ pc[id] \in Attempting
       \/ /\ attempts'[id] = attempts[id]
          /\ \A a \in Attempts :
                \/ pods'[id][a] = NoPod
                \/ pods[id][a] # NoPod /\ pods'[id][a].port = pods[id][a].port

LEMMA CalmIsShown ==
    ASSUME ShownInv, TickInv, NEW id \in Instances, Calm(id), late' = {}
    PROVE  Shown(id)'
<1>1. CASE pc[id] \in Attempting
  <2>1. Unmentioned(id)
    BY <1>1, AttemptUnmentioned
  <2>2. Unmentioned(id)'
    BY <2>1 DEF Unmentioned, Calm, Runs
  <2>. QED
    BY <2>2, UnmentionedIsShown
<1>2. CASE pc[id] \notin Attempting
  <2>1. Shown(id) /\ late = {}
    BY DEF ShownInv
  <2>2. Attempt(id)' = Attempt(id)
    BY <1>2 DEF Calm, Attempt
  <2>3. \A p : Mentions(id, p)' => Mentions(id, p)
    BY DEF Calm, Mentions, RunningAt
  <2>4. \A a \in Attempts : pods'[id][a] # NoPod =>
            pods[id][a] # NoPod /\ pods'[id][a].port = pods[id][a].port
    BY <1>2 DEF Calm
  <2>5. \A a \in Attempts : \A p :
            Mentions(id, p)' /\ a = Attempt(id)' /\ pods'[id][a] # NoPod => pods'[id][a].port = p
    BY <2>1, <2>2, <2>3, <2>4 DEF Shown
  <2>6. Runs(id)' => pc'[id] \notin Attempting \cup {"create"}
    BY <1>2, <2>1 DEF Shown, Calm, Runs
  <2>. QED
    BY <1>2, <2>5, <2>6 DEF Shown, Calm
<1>. QED
  BY <1>1, <1>2

(* Reports applied in their own tick: the goroutines are done. *)
LEMMA AppliedIsShown ==
    ASSUME TypeOK, TickInv, ShownInv, NEW id \in Instances, tick = "report",
           rows' \in PartlyApplied(rows, report), late' = late,
           report' = report \/ report' = NoReports, UNCHANGED <<store, pc, pods, attempts>>
    PROVE  Shown(id)'
<1>1. Shown(id) /\ late = {} /\ pc[id] = "idle"
  BY DEF ShownInv, TickInv
<1>2. \A p : RunningAt(rows'[id], p) => RunningAt(rows[id], p) \/ RunningAt(report[id], p)
  BY ApplyMentions DEF TypeOK
<1>3. \A p : Mentions(id, p)' => Mentions(id, p)
  BY <1>1, <1>2, SMT DEF Mentions, RunningAt, NoReports, NoStatus
<1>. QED
  BY <1>1, <1>3 DEF Shown, Attempt, Attempting

LEMMA ShownStep ==
    ASSUME MaxLate = 0
    PROVE  IInv /\ PodInv /\ ShownInv /\ [Next]_vars => ShownInv'
<1> SUFFICES ASSUME IInv, PodInv, ShownInv, [Next]_vars
             PROVE  ShownInv'
  OBVIOUS
<1>0. /\ TypeOK /\ AttemptsLeft /\ TickInv /\ CreatingInv
      /\ late = {} /\ ReportInv /\ \A id \in Instances : Shown(id)
  BY DEF IInv, TypeInv, ShownInv
<1>1. ASSUME NEW j \in Instances, RunFlavorVersion(j)
      PROVE  ShownInv'
  <2>2. \A id \in Instances : Calm(id)
    BY <1>0, <1>1 DEF TypeOK, Calm, Attempting, PendingRow, RunFlavorVersion
  <2>3. late' = {} /\ ReportInv'
    BY <1>0, <1>1 DEF ReportInv, RunFlavorVersion
  <2>. QED
    BY <1>0, <2>2, <2>3, CalmIsShown DEF ShownInv
<1>2. ASSUME NEW j \in Instances, MarkDeleting(j)
      PROVE  ShownInv'
  <2>2. \A id \in Instances : Calm(id)
    BY <1>0, <1>2 DEF TypeOK, Calm, Attempting, Row, MarkDeleting
  <2>3. late' = {} /\ ReportInv'
    BY <1>0, <1>2 DEF ReportInv, MarkDeleting
  <2>. QED
    BY <1>0, <2>2, <2>3, CalmIsShown DEF ShownInv
<1>3. ASSUME NEW r \in late, ApplyLateReport(r)
      PROVE  ShownInv'
  BY <1>0, <1>3
<1>4. ASSUME DiscoverInstances
      PROVE  ShownInv'
  <2>1. ASSUME NEW id \in Instances PROVE Shown(id)'
    <3>1. Runs(id) => pc'[id] = "check"
      BY <1>4 DEF Runs, Case, DiscoverInstances
    <3>2. pc'[id] \notin Attempting
      BY <1>4 DEF Case, Attempting, DiscoverInstances
    <3>3. UNCHANGED <<rows, store, report, late, attempts, pods>>
      BY <1>4 DEF DiscoverInstances
    <3>4. \A p : Mentions(id, p)' <=> Mentions(id, p)
      BY <3>3 DEF Mentions
    <3>. QED
      BY <1>0, <3>1, <3>2, <3>3, <3>4 DEF Shown, Runs, Attempt
  <2>. QED
    BY <1>0, <1>4, <2>1 DEF ShownInv, ReportInv, DiscoverInstances
<1>5. ASSUME View
      PROVE  ShownInv'
  <2>1. ASSUME NEW id \in Instances PROVE Shown(id)'
    <3>1. report'[id] = store[id] \/ report'[id].state = "PENDING"
      BY <1>5, SMT DEF View
    <3>2. UNCHANGED <<rows, store, late, attempts, pods, pc>> /\ pc[id] = "idle"
      BY <1>5 DEF View
    <3>3. \A p : Mentions(id, p)' => Mentions(id, p)
      BY <3>1, <3>2 DEF Mentions, RunningAt
    <3>. QED
      BY <1>0, <3>2, <3>3 DEF Shown, Runs, Attempt, Attempting
  <2>. QED
    BY <1>0, <1>5, <2>1 DEF ShownInv, ReportInv, View
<1>6. ASSUME SendReports
      PROVE  ShownInv'
  <2>1. rows' \in PartlyApplied(rows, report)
    BY <1>6 DEF PartlyApplied, SendReports
  <2>2. \A id \in Instances : Shown(id)'
    BY <1>0, <1>6, <2>1, AppliedIsShown DEF SendReports
  <2>. QED
    BY <1>0, <1>6, <2>2 DEF ShownInv, ReportInv, SendReports
<1>7. ASSUME SendReportsError
      PROVE  ShownInv'
  <2>1. ~(Cardinality(late) < MaxLate)
    BY <1>0, FS_EmptySet, SMT
  <2>2. rows' \in PartlyApplied(rows, report) /\ late' = late
    BY <1>7, <2>1 DEF SendReportsError
  <2>3. \A id \in Instances : Shown(id)'
    BY <1>0, <1>7, <2>2, AppliedIsShown DEF SendReportsError
  <2>. QED
    BY <1>0, <1>7, <2>2, <2>3 DEF ShownInv, ReportInv, SendReportsError
<1>8. ASSUME NEW j \in Instances, Prune(j)
      PROVE  ShownInv'
  <2>2. \A id \in Instances : Calm(id)
    BY <1>0, <1>8 DEF TypeOK, Calm, Attempting, Reports, Del, NoStatus, Prune
  <2>3. late' = {} /\ ReportInv'
    BY <1>0, <1>8 DEF ReportInv, NoReports, Prune
  <2>. QED
    BY <1>0, <2>2, <2>3, CalmIsShown DEF ShownInv
<1>9. ASSUME TickDone
      PROVE  ShownInv'
  <2>2. \A id \in Instances : Calm(id)
    BY <1>0, <1>9 DEF TypeOK, Calm, Attempting, TickDone
  <2>3. late' = {} /\ ReportInv'
    BY <1>0, <1>9 DEF ReportInv, TickDone
  <2>. QED
    BY <1>0, <2>2, <2>3, CalmIsShown DEF ShownInv
<1>10. ASSUME NEW j \in Instances, MaxAttemptsReached(j)
      PROVE  ShownInv'
  <2>0. \A id \in Instances : store'[id] = store[id] \/ store'[id].state # "RUNNING"
    BY <1>0, <1>10, SetStateOther DEF WorkloadStates, MaxAttemptsReached
  <2>2. \A id \in Instances : Calm(id)
    BY <1>0, <1>10, <2>0 DEF TypeOK, Calm, Attempting, MaxAttemptsReached
  <2>3. late' = {} /\ ReportInv'
    BY <1>0, <1>10 DEF ReportInv, MaxAttemptsReached
  <2>. QED
    BY <1>0, <2>2, <2>3, CalmIsShown DEF ShownInv
<1>11. ASSUME NEW j \in Instances, SkipCreation(j)
      PROVE  ShownInv'
  <2>2. \A id \in Instances : Calm(id)
    BY <1>0, <1>11 DEF TypeOK, Calm, Attempting, SkipCreation
  <2>3. late' = {} /\ ReportInv'
    BY <1>0, <1>11 DEF ReportInv, SkipCreation
  <2>. QED
    BY <1>0, <2>2, <2>3, CalmIsShown DEF ShownInv
<1>12. ASSUME NEW j \in Instances, BeginCreation(j)
      PROVE  ShownInv'
  <2>1. ASSUME NEW id \in Instances \ {j} PROVE Shown(id)'
    <3>1. Calm(id) /\ late' = {}
      BY <1>0, <1>12 DEF TypeOK, Calm, BeginCreation
    <3>. QED
      BY <1>0, <3>1, CalmIsShown
  <2>2. report[j] = NoStatus
    BY <1>0, <1>12 DEF TickInv, ReportInv, NoReports, BeginCreation
  <2>3. ~Runs(j) /\ store[j].state # "RUNNING"
    BY <1>0, <1>12 DEF Shown, NotCreating, BeginCreation
  <2>4. Unmentioned(j)'
    BY <1>0, <1>12, <2>2, <2>3, SMT DEF Unmentioned, Runs, NoStatus, BeginCreation
  <2>5. Shown(j)'
    BY <2>4, UnmentionedIsShown
  <2>. QED
    BY <1>0, <1>12, <2>1, <2>5 DEF ShownInv, ReportInv, BeginCreation
<1>13. ASSUME NEW j \in Instances, NEW p \in Ports, AllocatePort(j, p)
      PROVE  ShownInv'
  <2>0. /\ \A id \in Instances \ {j} : store'[id] = store[id]
        /\ store'[j].state = "CREATING"
    <3>1. store \in [Instances -> WorkloadStatus]
      BY <1>0 DEF TypeOK
    <3>2. store' = [store EXCEPT ![j] = [state |-> "CREATING", port |-> p]]
      BY <1>13, <3>1, SetCreatingIs DEF AllocatePort
    <3>. QED
      BY <3>1, <3>2
  <2>2. \A id \in Instances : Calm(id)
    BY <1>0, <1>13, <2>0 DEF TypeOK, Calm, Attempting, AllocatePort
  <2>3. late' = {} /\ ReportInv'
    BY <1>0, <1>13 DEF ReportInv, AllocatePort
  <2>. QED
    BY <1>0, <2>2, <2>3, CalmIsShown DEF ShownInv
<1>14. ASSUME NEW j \in Instances, AllocateError(j)
      PROVE  ShownInv'
  <2>0. \A id \in Instances : store'[id] = store[id] \/ store'[id].state # "RUNNING"
    BY <1>0, <1>14, SetStateOther DEF WorkloadStates, AllocateError
  <2>2. \A id \in Instances : Calm(id)
    BY <1>0, <1>14, <2>0 DEF TypeOK, Calm, Attempting, AllocateError
  <2>3. late' = {} /\ ReportInv'
    BY <1>0, <1>14 DEF ReportInv, AllocateError
  <2>. QED
    BY <1>0, <2>2, <2>3, CalmIsShown DEF ShownInv
<1>15. ASSUME NEW j \in Instances, RunPodSandbox(j)
      PROVE  ShownInv'
  <2>2. \A id \in Instances : Calm(id)
    BY <1>0, <1>15 DEF TypeOK, Calm, Attempting, RunPodSandbox
  <2>3. late' = {} /\ ReportInv'
    BY <1>0, <1>15 DEF ReportInv, RunPodSandbox
  <2>. QED
    BY <1>0, <2>2, <2>3, CalmIsShown DEF ShownInv
<1>16. ASSUME NEW j \in Instances, StartContainers(j)
      PROVE  ShownInv'
  <2>2. \A id \in Instances : Calm(id)
    BY <1>0, <1>16 DEF TypeOK, Calm, Attempting, SetStage, StartContainers
  <2>3. late' = {} /\ ReportInv'
    BY <1>0, <1>16 DEF ReportInv, StartContainers
  <2>. QED
    BY <1>0, <2>2, <2>3, CalmIsShown DEF ShownInv
<1>17. ASSUME NEW j \in Instances, CreationDone(j)
      PROVE  ShownInv'
  <2>1. ASSUME NEW id \in Instances \ {j} PROVE Shown(id)'
    <3>1. store'[id] = store[id]
      BY <1>0, <1>17, SetStateOther DEF WorkloadStates, CreationDone
    <3>2. Calm(id) /\ late' = {}
      BY <1>0, <1>17, <3>1 DEF TypeOK, Calm, CreationDone
    <3>. QED
      BY <1>0, <3>2, CalmIsShown
  <2>2. Unmentioned(j)
    BY <1>0, <1>17, AttemptUnmentioned DEF Attempting, CreationDone
  <2>3. store'[j].port = port[j] /\ pc'[j] = "idle" /\ Attempt(j)' = Attempt(j)
    <3>1. store \in [Instances -> WorkloadStatus]
      BY <1>0 DEF TypeOK
    <3>2. store' = [store EXCEPT ![j] = [state |-> "RUNNING", port |-> store[j].port]]
      BY <1>17, <3>1, SetStateIs DEF WorkloadStates, CreationDone
    <3>3. store[j].port = port[j]
      BY <1>0, <1>17 DEF CreatingInv, CreationDone
    <3>. QED
      BY <1>0, <1>17, <3>1, <3>2, <3>3, SMT DEF TypeOK, Attempt, CreationDone
  <2>4. \A p : Mentions(j, p)' => p = port[j]
    BY <1>17, <2>2, <2>3 DEF Unmentioned, Mentions, RunningAt, Runs, CreationDone
  <2>5. \A a \in Attempts : a = Attempt(j) /\ pods[j][a] # NoPod => pods[j][a].port = port[j]
    BY <1>17 DEF PodInv, CreationDone
  <2>6. \A a \in Attempts : \A p :
            Mentions(j, p)' /\ a = Attempt(j)' /\ pods'[j][a] # NoPod => pods'[j][a].port = p
    BY <1>17, <2>3, <2>4, <2>5 DEF CreationDone
  <2>7. Shown(j)'
    BY <2>3, <2>6 DEF Shown, Attempting
  <2>. QED
    BY <1>0, <1>17, <2>1, <2>7 DEF ShownInv, ReportInv, CreationDone
<1>18. ASSUME NEW j \in Instances, RunWorkloadError(j)
      PROVE  ShownInv'
  <2>2. \A id \in Instances : Calm(id)
    BY <1>0, <1>18 DEF TypeOK, Calm, Attempting, SetStage, RunWorkloadError
  <2>3. late' = {} /\ ReportInv'
    BY <1>0, <1>18 DEF ReportInv, RunWorkloadError
  <2>. QED
    BY <1>0, <2>2, <2>3, CalmIsShown DEF ShownInv
<1>19. ASSUME NEW j \in Instances, Healthy(j)
      PROVE  ShownInv'
  <2>2. \A id \in Instances : Calm(id)
    BY <1>0, <1>19 DEF TypeOK, Calm, Attempting, Healthy
  <2>3. late' = {} /\ ReportInv'
    BY <1>0, <1>19 DEF ReportInv, Healthy
  <2>. QED
    BY <1>0, <2>2, <2>3, CalmIsShown DEF ShownInv
<1>20. ASSUME NEW j \in Instances, Unhealthy(j)
      PROVE  ShownInv'
  <2>2. \A id \in Instances : Calm(id)
    BY <1>0, <1>20 DEF TypeOK, Calm, Attempting, Unhealthy
  <2>3. late' = {} /\ ReportInv'
    BY <1>0, <1>20 DEF ReportInv, Unhealthy
  <2>. QED
    BY <1>0, <2>2, <2>3, CalmIsShown DEF ShownInv
<1>21. ASSUME NEW j \in Instances, ListPodSandbox(j)
      PROVE  ShownInv'
  <2>2. \A id \in Instances : Calm(id)
    BY <1>0, <1>21 DEF TypeOK, Calm, Attempting, ListPodSandbox
  <2>3. late' = {} /\ ReportInv'
    BY <1>0, <1>21 DEF ReportInv, ListPodSandbox
  <2>. QED
    BY <1>0, <2>2, <2>3, CalmIsShown DEF ShownInv
<1>22. ASSUME NEW j \in Instances, RemoveWorkloadDone(j)
      PROVE  ShownInv'
  <2>0. \A id \in Instances : store'[id] = store[id] \/ store'[id].state # "RUNNING"
    BY <1>0, <1>22, SetStateOther DEF WorkloadStates, RemoveWorkloadDone
  <2>1. PodsKept
    <3>1. ASSUME victim[j] = 0 PROVE PodsKept
      BY <1>22, <3>1 DEF PodsKept, RemoveWorkloadDone
    <3>2. ASSUME victim[j] # 0 PROVE PodsKept
      <4>1. victim[j] \in Attempts
        BY <1>0, <3>2, AttemptsAssumption, SMT DEF TypeOK, Attempts
      <4>. QED
        BY <1>0, <1>22, <3>2, <4>1, PodStages DEF RemoveWorkloadDone
    <3>. QED
      BY <3>1, <3>2
  <2>2. \A id \in Instances : Calm(id)
    BY <1>0, <1>22, <2>1, <2>0 DEF TypeOK, PodsKept, Calm, Attempting, CountAttempt, RemoveWorkloadDone
  <2>3. late' = {} /\ ReportInv'
    BY <1>0, <1>22 DEF ReportInv, RemoveWorkloadDone
  <2>. QED
    BY <1>0, <2>2, <2>3, CalmIsShown DEF ShownInv
<1>23. ASSUME NEW j \in Instances, RemoveWorkloadError(j)
      PROVE  ShownInv'
  <2>1. PodsKept
    <3>1. ASSUME victim[j] = 0 PROVE PodsKept
      BY <1>23, <3>1 DEF PodsKept, RemoveWorkloadError
    <3>2. ASSUME victim[j] # 0 PROVE PodsKept
      <4>1. victim[j] \in Attempts
        BY <1>0, <3>2, AttemptsAssumption, SMT DEF TypeOK, Attempts
      <4>. QED
        BY <1>0, <1>23, <3>2, <4>1, PodStages DEF RemoveWorkloadError
    <3>. QED
      BY <3>1, <3>2
  <2>2. \A id \in Instances : Calm(id)
    BY <1>0, <1>23, <2>1 DEF TypeOK, PodsKept, Calm, Attempting, CountAttempt, RemoveWorkloadError
  <2>3. late' = {} /\ ReportInv'
    BY <1>0, <1>23 DEF ReportInv, RemoveWorkloadError
  <2>. QED
    BY <1>0, <2>2, <2>3, CalmIsShown DEF ShownInv
<1>24. ASSUME NEW j \in Instances, StopWorkload(j)
      PROVE  ShownInv'
  <2>2. \A id \in Instances : Calm(id)
    BY <1>0, <1>24 DEF TypeOK, Calm, Attempting, StopWorkload
  <2>3. late' = {} /\ ReportInv'
    BY <1>0, <1>24 DEF ReportInv, StopWorkload
  <2>. QED
    BY <1>0, <2>2, <2>3, CalmIsShown DEF ShownInv
<1>25. ASSUME NEW j \in Instances, StopRemoved(j)
      PROVE  ShownInv'
  <2>1. PodsKept
    BY <1>0, <1>25, PodStages DEF AttemptsLeft, StopRemoved
  <2>2. \A id \in Instances : Calm(id)
    BY <1>0, <1>25, <2>1 DEF TypeOK, PodsKept, Calm, Attempting, StopRemoved
  <2>3. late' = {} /\ ReportInv'
    BY <1>0, <1>25 DEF ReportInv, StopRemoved
  <2>. QED
    BY <1>0, <2>2, <2>3, CalmIsShown DEF ShownInv
<1>26. ASSUME NEW j \in Instances, StopError(j)
      PROVE  ShownInv'
  <2>1. PodsKept
    BY <1>0, <1>26, PodStages DEF AttemptsLeft, StopError
  <2>2. \A id \in Instances : Calm(id)
    BY <1>0, <1>26, <2>1 DEF TypeOK, PodsKept, Calm, Attempting, StopError
  <2>3. late' = {} /\ ReportInv'
    BY <1>0, <1>26 DEF ReportInv, StopError
  <2>. QED
    BY <1>0, <2>2, <2>3, CalmIsShown DEF ShownInv
<1>27. ASSUME NEW j \in Instances, StopUpdate(j)
      PROVE  ShownInv'
  <2>0. \A id \in Instances : store'[id] = store[id] \/ store'[id].state # "RUNNING"
    BY <1>0, <1>27, SetStateOther DEF WorkloadStates, StopUpdate
  <2>2. \A id \in Instances : Calm(id)
    BY <1>0, <1>27, <2>0 DEF TypeOK, Calm, Attempting, StopUpdate
  <2>3. late' = {} /\ ReportInv'
    BY <1>0, <1>27 DEF ReportInv, StopUpdate
  <2>. QED
    BY <1>0, <2>2, <2>3, CalmIsShown DEF ShownInv
<1>28. ASSUME NEW j \in Instances, NEW b \in Attempts, ContainerExits(j, b)
      PROVE  ShownInv'
  <2>1. PodsKept
    BY <1>0, <1>28, PodStages DEF ContainerExits, Stages
  <2>2. \A id \in Instances : Calm(id)
    BY <1>0, <1>28, <2>1 DEF TypeOK, PodsKept, Calm, Attempting, ContainerExits
  <2>3. late' = {} /\ ReportInv'
    BY <1>0, <1>28 DEF ReportInv, ContainerExits
  <2>. QED
    BY <1>0, <2>2, <2>3, CalmIsShown DEF ShownInv
<1>29. CASE UNCHANGED vars
  BY <1>0, <1>29 DEF ShownInv, ReportInv, Shown, Mentions, Runs, Attempt, vars
<1>. QED
  BY <1>1, <1>2, <1>3, <1>4, <1>5, <1>6, <1>7, <1>8, <1>9, <1>10, <1>11, <1>12, <1>13,
     <1>14, <1>15, <1>16, <1>17, <1>18, <1>19, <1>20, <1>21, <1>22, <1>23, <1>24, <1>25,
     <1>26, <1>27, <1>28, <1>29
     DEF Next, ControlPlane, Tick, Goroutine, Stop

(* For every set of instances and ports, every number of attempts and of    *)
(* restarts: as long as platformd was not restarted, the port a client is   *)
(* shown for a RUNNING instance is the one netglue set its pod up for       *)
(* (reconciler.go:167-171), through retries on other ports, StopWorkload    *)
(* and partly applied reports, if no failed report is applied later than    *)
(* the next one.                                                            *)
THEOREM ShownPortIsPodPort ==
    ASSUME MaxLate = 0
    PROVE  CountedSpec => []PortIsPodPortUntilRestart
<1> DEFINE Now == IInv /\ PodInv /\ ShownInv
           Inv == restarts \in Nat /\ (restarts = 0 => Now)
<1>1. Init => Now
  <2>1. Init => PodInv
    BY DEF Init, PodInv
  <2>2. Init => ShownInv
    BY SMT DEF Init, ShownInv, ReportInv, Shown, Mentions, RunningAt, Runs, Attempting,
       NoRow, NoReports, NoStatus
  <2>. QED
    BY <2>1, <2>2, TypeInit, PortInit DEF IInv
<1>2. Now /\ [Next]_vars => Now'
  <2>1. TypeInv /\ [Next]_vars => TypeInv'
    BY TypeStep
  <2>. QED
    BY <2>1, PortStep, PodStep, ShownStep DEF IInv
<1>3. Inv /\ [CountedNext]_<<vars, restarts>> => Inv'
  <2> SUFFICES ASSUME Inv, [CountedNext]_<<vars, restarts>> PROVE Inv'
    OBVIOUS
  <2>1. CASE [Next]_vars /\ UNCHANGED restarts
    BY <1>2, <2>1
  <2>2. CASE restarts' = restarts + 1
    BY <2>2, SMT
  <2> HIDE DEF Now
  <2>. QED
    BY <2>1, <2>2 DEF CountedNext
<1>4. Inv => PortIsPodPortUntilRestart
  BY DEF ShownInv, Shown, Mentions, RunningAt, Runs, RunningPortIsPodPort, PortIsPodPortUntilRestart
<1>5. CountedInit => Inv
  BY <1>1, SMT DEF CountedInit
<1> HIDE DEF Inv
<1>. QED
  BY <1>3, <1>4, <1>5, PTL DEF CountedSpec
=============================================================================
