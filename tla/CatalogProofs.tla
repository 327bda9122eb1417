--------------------------- MODULE CatalogProofs ---------------------------
(* Theorems about Catalog, for any flavors and versions, any number of      *)
(* calls and of runs of the archive job at the same time.                   *)
EXTENDS Catalog, FiniteSetTheorems, TLAPS

(* Leaves are for Zenon unless they name SMT. *)
USE Zenon

-----------------------------------------------------------------------------
(* The inductive invariant.  A flavor that was marked deleted stays so:     *)
(* whatever a run of the archive job is on belongs to such a flavor, and    *)
(* what was written to it after the run looked is late.                     *)
Dead(f) == flavor[f] \in {"deleted", "gone"}
CreatedLate(v) == <<"create", v>> \in late
BuiltLate(v) == <<"build", v>> \in late

LateInv ==
    \A v \in Versions :
        /\ version[v] = "none" => v \notin building
        /\ CreatedLate(v) => Dead(FlavorOf[v]) /\ (v \in building => BuiltLate(v))

GoneInv == \A v \in Versions : version[v] = "gone" => Dead(FlavorOf[v])

StandInv(s) ==
    /\ \A f, g \in s.on : f = g
    /\ \A f \in s.todo \cup s.on : Dead(f)
    /\ \A v \in s.seen \cup s.pick : Dead(FlavorOf[v])
    /\ \A v \in (s.seen \ s.busy) \cup s.pick : v \in building => BuiltLate(v)
    /\ s.at = "flavor" => \A f \in s.on : \A v \in VersionRows(f) : CreatedLate(v)

WorkerInv == \A w \in Workers : StandInv(worker[w])

IInv == /\ TypeOK /\ RowsHaveParents /\ GoneIsArchived /\ BuildingIsNotRemoved
        /\ GoneInv /\ LateInv /\ WorkerInv

LEMMA IdleTyped ==
    /\ Idle \in Stands /\ Idle.at = "idle" /\ Idle.todo = {} /\ Idle.on = {}
    /\ Idle.seen = {} /\ Idle.busy = {} /\ Idle.pick = {}
BY DEF Idle, Stand, Stands

LEMMA InitIInv == CatalogInit => IInv
<1> SUFFICES ASSUME CatalogInit PROVE IInv
  OBVIOUS
<1>1. TypeOK
  <2>1. failures \in 0..MaxFailures
    BY CatalogAssumption, SMT DEF CatalogInit
  <2>2. worker \in [Workers -> Stands]
    BY IdleTyped DEF CatalogInit
  <2>3. placing \in Nat /\ pending \in [Writes -> Nat] /\ instances \in [Versions -> Nat]
    BY DEF CatalogInit
  <2>. QED
    BY <2>1, <2>2, <2>3 DEF CatalogInit, TypeOK
<1>2. FlavorRows = {} /\ \A v \in Versions : ~Row(version[v])
  BY DEF CatalogInit, FlavorRows, Row
<1>3. RowsHaveParents /\ GoneIsArchived /\ BuildingIsNotRemoved /\ GoneInv
  BY <1>2, SMT DEF CatalogInit, RowsHaveParents, GoneIsArchived, BuildingIsNotRemoved, GoneInv
<1>4. WorkerInv
  BY IdleTyped DEF CatalogInit, WorkerInv, StandInv
<1>5. LateInv
  BY DEF CatalogInit, LateInv, CreatedLate
<1>. QED
  BY <1>1, <1>3, <1>4, <1>5 DEF IInv

-----------------------------------------------------------------------------
(* What every step says of the rows that a run of the archive job looked at. *)
RowsMove ==
    /\ \A f \in Flavors : Dead(f) => Dead(f)'
    /\ late \subseteq late'
    /\ \A v \in Versions :
          /\ v \in building' =>
                v \in building \/ (version'[v] # "none" /\ (BuiltLate(v)' \/ ~Dead(FlavorOf[v])))
          /\ Row(version'[v]) => Row(version[v]) \/ CreatedLate(v)' \/ ~Dead(FlavorOf[v])
          /\ version'[v] = "none" => version[v] = "none"
          /\ CreatedLate(v)' => \/ CreatedLate(v)
                                \/ version[v] = "none" /\ Dead(FlavorOf[v]) /\ building' = building

LEMMA StandStep ==
    ASSUME NEW s \in Stands, StandInv(s), RowsMove
    PROVE  StandInv(s)'
<1>1. /\ s.todo \subseteq Flavors /\ s.on \subseteq Flavors
      /\ s.seen \subseteq Versions /\ s.pick \subseteq Versions
      /\ FlavorOf \in [Versions -> Flavors]
  BY CatalogAssumption DEF Stands
<1>2. \A f \in s.todo \cup s.on : Dead(f)'
  BY <1>1 DEF StandInv, RowsMove
<1>3. \A v \in s.seen \cup s.pick : Dead(FlavorOf[v])'
  BY <1>1 DEF StandInv, RowsMove
<1>4. \A v \in (s.seen \ s.busy) \cup s.pick : v \in building' => BuiltLate(v)'
  BY <1>1 DEF StandInv, RowsMove, BuiltLate
<1>5. ASSUME s.at = "flavor", NEW f \in s.on, NEW v \in VersionRows(f)'
      PROVE  CreatedLate(v)'
  BY <1>1, <1>5 DEF StandInv, RowsMove, VersionRows, CreatedLate
<1>6. \A f, g \in s.on : f = g
  BY DEF StandInv
<1>. QED
  BY <1>2, <1>3, <1>4, <1>5, <1>6 DEF StandInv

LEMMA LateStep == ASSUME IInv, RowsMove PROVE LateInv'
<1>1. FlavorOf \in [Versions -> Flavors]
  BY CatalogAssumption
<1> SUFFICES ASSUME NEW v \in Versions
             PROVE  /\ version'[v] = "none" => v \notin building'
                    /\ CreatedLate(v)' => Dead(FlavorOf[v])' /\ (v \in building' => BuiltLate(v)')
  BY DEF LateInv
<1>2. version'[v] = "none" => v \notin building'
  BY DEF IInv, LateInv, RowsMove
<1>3. CASE CreatedLate(v)
  BY <1>1, <1>3 DEF IInv, LateInv, RowsMove, BuiltLate
<1>4. CASE version[v] = "none" /\ Dead(FlavorOf[v]) /\ building' = building
  BY <1>1, <1>4 DEF IInv, LateInv, RowsMove
<1>. QED
  BY <1>2, <1>3, <1>4 DEF RowsMove

(* Steps of the API: the archive job stands still. *)
LEMMA WorkersStay ==
    ASSUME IInv, RowsMove, UNCHANGED worker
    PROVE  WorkerInv' /\ LateInv' /\ worker' \in [Workers -> Stands]
<1>1. worker \in [Workers -> Stands]
  BY DEF IInv, TypeOK
<1>2. ASSUME NEW w \in Workers PROVE StandInv(worker[w])'
  <2>1. worker[w] \in Stands /\ StandInv(worker[w]) /\ worker'[w] = worker[w]
    BY <1>1 DEF IInv, WorkerInv
  <2>2. PICK t \in Stands : t = worker[w]
    BY <2>1
  <2>3. StandInv(t)'
    BY <2>1, <2>2, StandStep
  <2>. QED
    BY <2>1, <2>2, <2>3 DEF StandInv
<1>. QED
  BY <1>1, <1>2, LateStep DEF WorkerInv

(* Steps of the archive job on run w. *)
LEMMA WorkerMoves ==
    ASSUME IInv, RowsMove, NEW w \in Workers, NEW s \in Stands, Becomes(w, s), StandInv(s)'
    PROVE  WorkerInv' /\ LateInv' /\ worker' \in [Workers -> Stands]
<1>1. /\ worker \in [Workers -> Stands] /\ worker' \in [Workers -> Stands]
      /\ worker' = [worker EXCEPT ![w] = s]
  BY DEF IInv, TypeOK, Becomes
<1>2. ASSUME NEW u \in Workers PROVE StandInv(worker[u])'
  <2>1. worker[u] \in Stands /\ StandInv(worker[u]) /\ worker'[u] \in {worker[u], s}
    BY <1>1 DEF IInv, WorkerInv
  <2>2. PICK t \in Stands : t = worker[u]
    BY <2>1
  <2>3. StandInv(t)'
    BY <2>1, <2>2, StandStep
  <2>. QED
    BY <2>1, <2>2, <2>3 DEF StandInv
<1>. QED
  BY <1>1, <1>2, LateStep DEF WorkerInv

(* Rows that do not change. *)
LEMMA RowsStay ==
    ASSUME IInv, UNCHANGED <<chunk, flavor, version, building, imaging, instances, archive, late>>
    PROVE  /\ RowsMove
           /\ RowsHaveParents' /\ GoneIsArchived' /\ BuildingIsNotRemoved' /\ GoneInv'
<1>1. RowsMove
  BY DEF RowsMove, Dead, CreatedLate
<1>2. FlavorRows' = FlavorRows
  BY DEF FlavorRows
<1>3. RowsHaveParents'
  BY <1>2 DEF IInv, RowsHaveParents
<1>. QED
  BY <1>1, <1>3 DEF IInv, GoneIsArchived, BuildingIsNotRemoved, GoneInv, Dead

LEMMA OnlyCalls ==
    ASSUME IInv, UNCHANGED <<chunk, flavor, version, building, imaging, instances, archive, late, worker,
                             failures, missed>>,
           placing' \in Nat, pending' \in [Writes -> Nat]
    PROVE  IInv'
<1>1. TypeOK'
  BY DEF IInv, TypeOK
<1>. QED
  BY <1>1, RowsStay, WorkersStay DEF IInv

LEMMA OnlyWorker ==
    ASSUME IInv, UNCHANGED <<chunk, flavor, version, building, imaging, instances, archive, late,
                             placing, pending>>,
           failures' \in 0..MaxFailures, missed' \in BOOLEAN,
           NEW w \in Workers, NEW s \in Stands, Becomes(w, s), StandInv(s)
    PROVE  IInv'
<1>1. RowsMove /\ RowsHaveParents' /\ GoneIsArchived' /\ BuildingIsNotRemoved' /\ GoneInv'
  BY RowsStay
<1>2. WorkerInv' /\ LateInv' /\ worker' \in [Workers -> Stands]
  BY <1>1, StandStep, WorkerMoves
<1>3. TypeOK'
  BY <1>2 DEF IInv, TypeOK
<1>. QED
  BY <1>1, <1>2, <1>3 DEF IInv

-----------------------------------------------------------------------------
(* The steps of the API. *)
LEMMA BestNodeIInv == ASSUME IInv, BestNode PROVE IInv'
BY OnlyCalls, SMT DEF BestNode, rows, history, IInv, TypeOK

LEMMA FlavorByIDIInv ==
    ASSUME IInv, NEW op \in {"create", "build", "run"}, NEW v \in Versions, FlavorByID(op, v)
    PROVE  IInv'
<1>1. UNCHANGED <<chunk, flavor, version, building, imaging, instances, archive, late, worker,
                  failures, missed>>
  BY DEF FlavorByID, rows, history
<1>2. placing' \in Nat /\ pending' \in [Writes -> Nat]
  BY SMT DEF FlavorByID, IInv, TypeOK, Writes
<1>. QED
  BY <1>1, <1>2, OnlyCalls

LEMMA CallFailsIInv == ASSUME IInv, CallFails PROVE IInv'
<1>1. UNCHANGED <<chunk, flavor, version, building, imaging, instances, archive, late, worker,
                  failures, missed>>
  BY DEF CallFails, rows, history
<1>2. placing' \in Nat /\ pending' \in [Writes -> Nat]
  BY SMT DEF CallFails, IInv, TypeOK
<1>. QED
  BY <1>1, <1>2, OnlyCalls

(* A call that answers keeps the calls typed. *)
LEMMA AnsweredLemma ==
    ASSUME IInv, NEW op \in {"create", "build", "run"}, NEW v \in Versions, Answered(op, v)
    PROVE  /\ placing' \in Nat /\ pending' \in [Writes -> Nat]
           /\ missed' \in BOOLEAN /\ worker' = worker
<1>1. pending' \in [Writes -> Nat]
  BY SMT DEF Answered, IInv, TypeOK, Writes
<1>. QED
  BY <1>1 DEF Answered, IInv, TypeOK

(* What is written to a version of a dead flavor is late. *)
LEMMA LateLemma ==
    ASSUME IInv, NEW op \in {"create", "build"}, NEW v \in Versions, late' = Late(op, v)
    PROVE  /\ late \subseteq late' /\ late' \subseteq {"create", "build"} \X Versions
           /\ late' \subseteq late \cup {<<op, v>>}
           /\ flavor[FlavorOf[v]] # "live" => <<op, v>> \in late'
           /\ <<op, v>> \in late' => <<op, v>> \in late \/ flavor[FlavorOf[v]] # "live"
<1>1. <<op, v>> \in {"create", "build"} \X Versions /\ late \subseteq {"create", "build"} \X Versions
  BY DEF IInv, TypeOK
<1>2. CASE flavor[FlavorOf[v]] = "live"
  BY <1>1, <1>2 DEF Late
<1>3. CASE flavor[FlavorOf[v]] # "live"
  BY <1>1, <1>3 DEF Late
<1>. QED
  BY <1>2, <1>3

LEMMA CreateFlavorVersionIInv ==
    ASSUME IInv, NEW v \in Versions, CreateFlavorVersion(v)
    PROVE  IInv'
<1>1. /\ version' = [version EXCEPT ![v] = "live"] /\ version[v] = "none"
      /\ Row(flavor[FlavorOf[v]])
      /\ UNCHANGED <<chunk, flavor, building, imaging, instances, archive, failures>>
  BY DEF CreateFlavorVersion
<1>2. /\ placing' \in Nat /\ pending' \in [Writes -> Nat]
      /\ missed' \in BOOLEAN /\ worker' = worker
  BY AnsweredLemma DEF CreateFlavorVersion
<1>3. /\ version' \in [Versions -> {"none", "live", "gone"}]
      /\ \A u \in Versions : version'[u] = IF u = v THEN "live" ELSE version[u]
  BY <1>1 DEF IInv, TypeOK
<1>4. /\ late \subseteq late' /\ late' \subseteq {"create", "build"} \X Versions
      /\ late' \subseteq late \cup {<<"create", v>>}
      /\ Dead(FlavorOf[v]) => CreatedLate(v)'
      /\ CreatedLate(v)' => CreatedLate(v) \/ Dead(FlavorOf[v])
  BY <1>1, LateLemma DEF CreateFlavorVersion, CreatedLate, Dead, Row
<1>5. RowsMove
  <2>1. \A u \in Versions : u # v => (CreatedLate(u)' => CreatedLate(u))
    BY <1>4 DEF CreatedLate
  <2>. QED
    BY <1>1, <1>3, <1>4, <2>1 DEF RowsMove, Dead
<1>6. WorkerInv' /\ LateInv' /\ worker' \in [Workers -> Stands]
  BY <1>2, <1>5, WorkersStay
<1>7. TypeOK'
  BY <1>1, <1>2, <1>3, <1>4, <1>6 DEF IInv, TypeOK
<1>8. RowsHaveParents'
  BY <1>1, <1>3 DEF IInv, RowsHaveParents, FlavorRows, Row
<1>9. GoneIsArchived' /\ BuildingIsNotRemoved' /\ GoneInv'
  BY <1>1, <1>3, <1>4 DEF IInv, TypeOK, GoneIsArchived, BuildingIsNotRemoved, GoneInv, Dead
<1>. QED
  BY <1>6, <1>7, <1>8, <1>9 DEF IInv

(* A status that is written to a version of a dead flavor is late. *)
LEMMA StatusLemma ==
    ASSUME IInv, NEW v \in Versions, StatusBuilding(v),
           UNCHANGED <<chunk, flavor, version, instances, archive, worker>>,
           imaging' \subseteq Versions, failures' \in 0..MaxFailures, missed' \in BOOLEAN,
           placing' \in Nat, pending' \in [Writes -> Nat]
    PROVE  IInv'
<1>1. \/ UNCHANGED <<building, late>>
      \/ building' = building \cup {v} /\ Row(version[v]) /\ late' = Late("build", v)
  BY DEF StatusBuilding
<1>2. /\ late \subseteq late' /\ late' \subseteq {"create", "build"} \X Versions
      /\ late' \subseteq late \cup {<<"build", v>>}
      /\ building' # building => (Dead(FlavorOf[v]) => BuiltLate(v)')
  BY <1>1, LateLemma DEF BuiltLate, Dead, IInv, TypeOK
<1>3. \A u \in Versions : CreatedLate(u)' => CreatedLate(u)
  BY <1>2 DEF CreatedLate
<1>4. RowsMove
  <2>1. \A u \in Versions : u \in building' =>
            u \in building \/ (version'[u] # "none" /\ (BuiltLate(u)' \/ ~Dead(FlavorOf[u])))
    BY <1>1, <1>2 DEF Row
  <2>. QED
    BY <1>2, <1>3, <2>1 DEF RowsMove, Dead
<1>5. WorkerInv' /\ LateInv' /\ worker' \in [Workers -> Stands]
  BY <1>4, WorkersStay
<1>6. TypeOK'
  BY <1>1, <1>2, <1>5 DEF IInv, TypeOK
<1>7. RowsHaveParents'
  BY DEF IInv, RowsHaveParents, FlavorRows
<1>8. GoneIsArchived' /\ GoneInv'
  BY <1>2 DEF IInv, GoneIsArchived, GoneInv, Dead
<1>9. BuildingIsNotRemoved'
  BY <1>1, <1>2 DEF IInv, BuildingIsNotRemoved, Row
<1>. QED
  BY <1>5, <1>6, <1>7, <1>8, <1>9 DEF IInv

LEMMA BuildFlavorVersionIInv ==
    ASSUME IInv, NEW v \in Versions, BuildFlavorVersion(v)
    PROVE  IInv'
<1>1. /\ StatusBuilding(v) /\ imaging' \subseteq Versions
      /\ UNCHANGED <<chunk, flavor, version, instances, archive>>
      /\ failures' \in 0..MaxFailures
  BY DEF BuildFlavorVersion, IInv, TypeOK
<1>2. /\ placing' \in Nat /\ pending' \in [Writes -> Nat]
      /\ missed' \in BOOLEAN /\ worker' = worker
  BY AnsweredLemma DEF BuildFlavorVersion
<1>. QED
  BY <1>1, <1>2, StatusLemma

LEMMA InsertCheckpointJobIInv ==
    ASSUME IInv, NEW v \in Versions, InsertCheckpointJob(v)
    PROVE  IInv'
<1>1. /\ StatusBuilding(v) /\ imaging' \subseteq Versions
      /\ UNCHANGED <<chunk, flavor, version, instances, archive, worker, placing, pending, missed>>
  BY DEF InsertCheckpointJob, IInv, TypeOK, calls
<1>2. failures' \in 0..MaxFailures
  BY CatalogAssumption, SMT DEF InsertCheckpointJob, IInv, TypeOK
<1>3. missed' \in BOOLEAN /\ placing' \in Nat /\ pending' \in [Writes -> Nat]
  BY <1>1 DEF IInv, TypeOK
<1>. QED
  BY <1>1, <1>2, <1>3, StatusLemma

LEMMA CreateInstanceIInv ==
    ASSUME IInv, NEW v \in Versions, CreateInstance(v)
    PROVE  IInv'
<1>1. /\ instances' = [instances EXCEPT ![v] = @ + 1] /\ Row(version[v])
      /\ UNCHANGED <<chunk, flavor, version, building, imaging, archive, failures, late>>
  BY DEF CreateInstance
<1>2. /\ placing' \in Nat /\ pending' \in [Writes -> Nat]
      /\ missed' \in BOOLEAN /\ worker' = worker
  BY AnsweredLemma DEF CreateInstance
<1>3. RowsMove
  BY <1>1 DEF RowsMove, Dead, CreatedLate
<1>4. WorkerInv' /\ LateInv' /\ worker' \in [Workers -> Stands]
  BY <1>2, <1>3, WorkersStay
<1>5. TypeOK'
  BY <1>1, <1>2, <1>4, SMT DEF IInv, TypeOK
<1>6. RowsHaveParents'
  BY <1>1 DEF IInv, TypeOK, RowsHaveParents, FlavorRows
<1>7. GoneIsArchived' /\ BuildingIsNotRemoved' /\ GoneInv'
  BY <1>1, <1>2 DEF IInv, GoneIsArchived, BuildingIsNotRemoved, GoneInv, Dead
<1>. QED
  BY <1>4, <1>5, <1>6, <1>7 DEF IInv

LEMMA BuildEndsIInv == ASSUME IInv, NEW v \in Versions, BuildEnds(v) PROVE IInv'
<1>1. /\ building' = building \ {v} /\ imaging' \in {imaging, imaging \ {v}}
      /\ UNCHANGED <<chunk, flavor, version, instances, archive, placing, pending, worker,
                     failures, late, missed>>
  BY DEF BuildEnds, calls, history
<1>2. RowsMove
  BY <1>1 DEF RowsMove, Dead, CreatedLate
<1>3. WorkerInv' /\ LateInv' /\ worker' \in [Workers -> Stands]
  BY <1>1, <1>2, WorkersStay
<1>4. TypeOK'
  BY <1>1, <1>3 DEF IInv, TypeOK
<1>5. RowsHaveParents'
  BY <1>1 DEF IInv, RowsHaveParents, FlavorRows
<1>6. GoneIsArchived' /\ BuildingIsNotRemoved' /\ GoneInv'
  BY <1>1 DEF IInv, GoneIsArchived, BuildingIsNotRemoved, GoneInv, Dead
<1>. QED
  BY <1>3, <1>4, <1>5, <1>6 DEF IInv

LEMMA InstanceEndsIInv == ASSUME IInv, NEW v \in Versions, InstanceEnds(v) PROVE IInv'
<1>1. /\ instances' = [instances EXCEPT ![v] = @ - 1] /\ instances[v] > 0
      /\ UNCHANGED <<chunk, flavor, version, building, imaging, archive, placing, pending, worker,
                     failures, late, missed>>
  BY DEF InstanceEnds, calls, history
<1>2. RowsMove
  BY <1>1 DEF RowsMove, Dead, CreatedLate
<1>3. WorkerInv' /\ LateInv' /\ worker' \in [Workers -> Stands]
  BY <1>1, <1>2, WorkersStay
<1>4. TypeOK'
  BY <1>1, <1>3, SMT DEF IInv, TypeOK
<1>5. RowsHaveParents'
  BY <1>1 DEF IInv, TypeOK, RowsHaveParents, FlavorRows
<1>6. GoneIsArchived' /\ BuildingIsNotRemoved' /\ GoneInv'
  BY <1>1 DEF IInv, GoneIsArchived, BuildingIsNotRemoved, GoneInv, Dead
<1>. QED
  BY <1>3, <1>4, <1>5, <1>6 DEF IInv

(* The steps that create and delete: a dead flavor stays dead. *)
LEMMA FlavorsMove ==
    ASSUME IInv, UNCHANGED <<version, building, imaging, instances, archive, placing, pending, worker,
                             failures, late>>,
           missed' \in BOOLEAN, chunk' \in {"live", "deleted"},
           flavor' \in [Flavors -> {"none", "live", "deleted", "gone"}],
           \A f \in Flavors : /\ (Dead(f) => Dead(f)') /\ (Row(flavor[f]) => Row(flavor'[f]))
                             /\ (flavor'[f] = "gone" => flavor[f] = "gone")
    PROVE  IInv'
<1>0. FlavorOf \in [Versions -> Flavors]
  BY CatalogAssumption
<1>1. RowsMove
  BY DEF RowsMove, CreatedLate
<1>2. WorkerInv' /\ LateInv' /\ worker' \in [Workers -> Stands]
  BY <1>1, WorkersStay
<1>3. TypeOK'
  BY <1>2 DEF IInv, TypeOK
<1>4. RowsHaveParents'
  BY <1>0 DEF IInv, RowsHaveParents, Row
<1>5. GoneIsArchived' /\ BuildingIsNotRemoved'
  BY DEF IInv, GoneIsArchived, BuildingIsNotRemoved
<1>6. GoneInv'
  BY <1>0 DEF IInv, GoneInv
<1>. QED
  BY <1>2, <1>3, <1>4, <1>5, <1>6 DEF IInv

LEMMA CreateFlavorIInv == ASSUME IInv, NEW f \in Flavors, CreateFlavor(f) PROVE IInv'
<1>1. /\ flavor[f] = "none" /\ flavor' = [flavor EXCEPT ![f] = "live"] /\ Row(chunk)
      /\ UNCHANGED <<chunk, version, building, imaging, instances, archive, placing, pending, worker,
                     failures, late>>
  BY DEF CreateFlavor, calls
<1>2. missed' \in BOOLEAN
  BY DEF CreateFlavor, IInv, TypeOK
<1>3. chunk' \in {"live", "deleted"}
  BY <1>1 DEF Row
<1>4. /\ flavor' \in [Flavors -> {"none", "live", "deleted", "gone"}]
      /\ \A g \in Flavors : flavor'[g] = IF g = f THEN "live" ELSE flavor[g]
  BY <1>1 DEF IInv, TypeOK
<1>5. \A g \in Flavors : /\ (Dead(g) => Dead(g)') /\ (Row(flavor[g]) => Row(flavor'[g]))
                         /\ (flavor'[g] = "gone" => flavor[g] = "gone")
  BY <1>1, <1>4 DEF Dead, Row
<1>. QED
  BY <1>1, <1>2, <1>3, <1>4, <1>5, FlavorsMove

LEMMA DeleteFlavorIInv == ASSUME IInv, NEW f \in Flavors, DeleteFlavor(f) PROVE IInv'
<1>1. /\ flavor[f] = "live" /\ flavor' = [flavor EXCEPT ![f] = "deleted"]
      /\ UNCHANGED <<chunk, version, building, imaging, instances, archive, placing, pending, worker,
                     failures, late, missed>>
  BY DEF DeleteFlavor, calls, history
<1>2. missed' \in BOOLEAN
  BY <1>1 DEF IInv, TypeOK
<1>3. chunk' \in {"live", "deleted"}
  BY <1>1 DEF IInv, RowsHaveParents, FlavorRows, Row
<1>4. /\ flavor' \in [Flavors -> {"none", "live", "deleted", "gone"}]
      /\ \A g \in Flavors : flavor'[g] = IF g = f THEN "deleted" ELSE flavor[g]
  BY <1>1 DEF IInv, TypeOK
<1>5. \A g \in Flavors : /\ (Dead(g) => Dead(g)') /\ (Row(flavor[g]) => Row(flavor'[g]))
                         /\ (flavor'[g] = "gone" => flavor[g] = "gone")
  BY <1>1, <1>4 DEF Dead, Row
<1>. QED
  BY <1>1, <1>2, <1>3, <1>4, <1>5, FlavorsMove

LEMMA DeleteChunkIInv == ASSUME IInv, DeleteChunk PROVE IInv'
<1>1. /\ flavor' = [f \in Flavors |-> IF Row(flavor[f]) THEN "deleted" ELSE flavor[f]]
      /\ chunk' = "deleted" /\ missed' \in BOOLEAN
      /\ UNCHANGED <<version, building, imaging, instances, archive, placing, pending, worker,
                     failures, late>>
  BY DEF DeleteChunk, calls
<1>2. flavor' \in [Flavors -> {"none", "live", "deleted", "gone"}]
  BY <1>1 DEF IInv, TypeOK
<1>3. \A g \in Flavors : /\ (Dead(g) => Dead(g)') /\ (Row(flavor[g]) => Row(flavor'[g]))
                         /\ (flavor'[g] = "gone" => flavor[g] = "gone")
  BY <1>1 DEF Dead, Row
<1>. QED
  BY <1>1, <1>2, <1>3, FlavorsMove

-----------------------------------------------------------------------------
(* The steps of the archive job that only look. *)
LEMMA LookLemma ==
    ASSUME IInv, UNCHANGED <<rows, calls, history>>,
           NEW w \in Workers, NEW s \in Stands, Becomes(w, s), StandInv(s)
    PROVE  IInv'
<1>1. UNCHANGED <<chunk, flavor, version, building, imaging, instances, archive, late, placing, pending,
                  failures, missed>>
  BY DEF rows, calls, history
<1>2. failures' \in 0..MaxFailures /\ missed' \in BOOLEAN
  BY <1>1 DEF IInv, TypeOK
<1>. QED
  BY <1>1, <1>2, OnlyWorker

LEMMA IdleInv == StandInv(Idle)
BY IdleTyped DEF StandInv

(* Between two flavors, and on a flavor without versions to look at. *)
LEMMA NextFlavorLemma ==
    ASSUME IInv, NEW w \in Workers
    PROVE  LET s == Stand("flavors", worker[w].todo, {}, {}, {}, {})
           IN  s \in Stands /\ StandInv(s)
<1> DEFINE s == Stand("flavors", worker[w].todo, {}, {}, {}, {})
<1>1. worker[w].todo \subseteq Flavors /\ StandInv(worker[w])
  BY DEF IInv, TypeOK, Stands, WorkerInv
<1>2. /\ s \in Stands /\ s.at = "flavors" /\ s.todo = worker[w].todo /\ s.on = {}
      /\ s.seen = {} /\ s.pick = {}
  BY <1>1 DEF Stand, Stands
<1> HIDE DEF s
<1>3. StandInv(s)
  BY <1>1, <1>2 DEF StandInv
<1>. QED
  BY <1>2, <1>3 DEF s

LEMMA EntersLemma ==
    ASSUME IInv, NEW w \in Workers, NEW at \in {"flavor", "chunk", "archive chunk"},
           at = "flavor" => \A f \in worker[w].on : \A v \in VersionRows(f) : CreatedLate(v)
    PROVE  LET s == Stand(at, worker[w].todo, worker[w].on, {}, {}, {})
           IN  s \in Stands /\ StandInv(s)
<1> DEFINE s == Stand(at, worker[w].todo, worker[w].on, {}, {}, {})
<1>1. worker[w].todo \subseteq Flavors /\ worker[w].on \subseteq Flavors /\ StandInv(worker[w])
  BY DEF IInv, TypeOK, Stands, WorkerInv
<1>2. /\ s \in Stands /\ s.at = at /\ s.todo = worker[w].todo /\ s.on = worker[w].on
      /\ s.seen = {} /\ s.pick = {}
  BY <1>1 DEF Stand, Stands
<1> HIDE DEF s
<1>3. StandInv(s)
  BY <1>1, <1>2 DEF StandInv
<1>. QED
  BY <1>2, <1>3 DEF s

LEMMA WorkIInv == ASSUME IInv, NEW w \in Workers, Work(w) PROVE IInv'
<1> DEFINE s == Stand("flavors", AllDeletedFlavors, {}, {}, {}, {})
<1>1. /\ s \in Stands /\ s.at = "flavors" /\ s.todo = AllDeletedFlavors /\ s.on = {}
      /\ s.seen = {} /\ s.pick = {}
  BY DEF Stand, Stands, AllDeletedFlavors
<1>2. Becomes(w, s) /\ UNCHANGED <<rows, calls, history>>
  BY DEF Work
<1> HIDE DEF s
<1>3. StandInv(s)
  BY <1>1 DEF StandInv, AllDeletedFlavors, Dead
<1>. QED
  BY <1>1, <1>2, <1>3, LookLemma

LEMMA WorkDoneIInv == ASSUME IInv, NEW w \in Workers, WorkDone(w) PROVE IInv'
BY IdleTyped, IdleInv, LookLemma DEF WorkDone

LEMMA FetchFlavorIInv ==
    ASSUME IInv, NEW w \in Workers, NEW f \in Flavors, FetchFlavor(w, f)
    PROVE  IInv'
<1> DEFINE todo == worker[w].todo \ {f}
           busy == VersionRows(f) \cap building
           s == Stand("versions", todo, {f}, VersionRows(f), busy, {})
           t == Stand("flavors", todo, {}, {}, {}, {})
<1>1. /\ worker[w].todo \subseteq Flavors /\ f \in worker[w].todo
      /\ \A g \in worker[w].todo : Dead(g)
  BY DEF FetchFlavor, IInv, TypeOK, Stands, WorkerInv, StandInv
<1>2. UNCHANGED <<rows, calls, history>> /\ (Becomes(w, s) \/ Becomes(w, t))
  BY DEF FetchFlavor
<1>3. /\ s \in Stands /\ s.at = "versions" /\ s.todo = todo /\ s.on = {f}
      /\ s.seen = VersionRows(f) /\ s.busy = busy /\ s.pick = {}
  BY <1>1 DEF Stand, Stands, VersionRows
<1>4. /\ t \in Stands /\ t.at = "flavors" /\ t.todo = todo /\ t.on = {}
      /\ t.seen = {} /\ t.pick = {}
  BY <1>1 DEF Stand, Stands
<1> HIDE DEF s, t
<1>5. StandInv(s)
  BY <1>1, <1>3 DEF StandInv, VersionRows
<1>6. StandInv(t)
  BY <1>1, <1>4 DEF StandInv
<1>. QED
  BY <1>2, <1>3, <1>4, <1>5, <1>6, LookLemma

(* The build status is the one read with the flavor: a version that was not *)
(* building then is building now only if it is late.                        *)
LEMMA CountInstancesIInv ==
    ASSUME IInv, NEW w \in Workers, NEW f \in Flavors, NEW v \in Versions, CountInstances(w, f, v)
    PROVE  IInv'
<1> DEFINE may == MayArchive(w, v)
           s == Stand(IF may THEN "version" ELSE "versions", worker[w].todo, worker[w].on,
                      worker[w].seen \ {v}, worker[w].busy, IF may THEN {v} ELSE {})
<1>1. /\ worker[w] \in Stands /\ StandInv(worker[w]) /\ v \in worker[w].seen
      /\ may => v \notin worker[w].busy
  BY DEF CountInstances, IInv, TypeOK, WorkerInv, MayArchive
<1>2. UNCHANGED <<rows, calls, history>> /\ Becomes(w, s)
  BY DEF CountInstances
<1>3. /\ s \in Stands /\ s.at \in {"version", "versions"} /\ s.todo = worker[w].todo
      /\ s.on = worker[w].on /\ s.seen = worker[w].seen \ {v} /\ s.busy = worker[w].busy
      /\ s.pick = IF may THEN {v} ELSE {}
  BY <1>1 DEF Stand, Stands
<1> HIDE DEF s, may
<1>4. StandInv(s)
  BY <1>1, <1>3 DEF StandInv
<1>. QED
  BY <1>2, <1>3, <1>4, LookLemma

LEMMA FetchUpdatedFlavorIInv ==
    ASSUME IInv, NEW w \in Workers, NEW f \in Flavors, FetchUpdatedFlavor(w, f)
    PROVE  IInv'
<1>1. UNCHANGED <<rows, calls, history>> /\ f \in worker[w].on
  BY DEF FetchUpdatedFlavor, At
<1>2. \A g \in worker[w].on : g = f
  BY <1>1 DEF IInv, WorkerInv, StandInv
<1>3. CASE NextFlavor(w)
  BY <1>1, <1>3, NextFlavorLemma, LookLemma DEF NextFlavor
<1>4. CASE Enters(w, "chunk")
  BY <1>1, <1>4, EntersLemma, LookLemma DEF Enters
<1>5. CASE VersionRows(f) = {} /\ Enters(w, "flavor")
  <2>1. \A g \in worker[w].on : \A v \in VersionRows(g) : CreatedLate(v)
    BY <1>2, <1>5
  <2>. QED
    BY <1>1, <1>5, <2>1, EntersLemma, LookLemma DEF Enters
<1>. QED
  BY <1>3, <1>4, <1>5 DEF FetchUpdatedFlavor

LEMMA GetChunkByIDIInv ==
    ASSUME IInv, NEW w \in Workers, NEW f \in Flavors, GetChunkByID(w, f)
    PROVE  IInv'
<1>1. UNCHANGED <<rows, calls, history>>
  BY DEF GetChunkByID
<1>2. CASE NextFlavor(w)
  BY <1>1, <1>2, NextFlavorLemma, LookLemma DEF NextFlavor
<1>3. CASE Enters(w, "archive chunk")
  BY <1>1, <1>3, EntersLemma, LookLemma DEF Enters
<1>. QED
  BY <1>2, <1>3 DEF GetChunkByID

LEMMA ArchiveFailsIInv ==
    ASSUME IInv, NEW w \in Workers, NEW f \in Flavors, ArchiveFails(w, f)
    PROVE  IInv'
<1>1. UNCHANGED <<chunk, flavor, version, building, imaging, instances, archive, late, placing, pending>>
  BY DEF ArchiveFails, rows, calls
<1>2. failures' \in 0..MaxFailures /\ missed' \in BOOLEAN
  BY CatalogAssumption, SMT DEF ArchiveFails, IInv, TypeOK
<1>3. CASE Becomes(w, Stand("flavors", worker[w].todo \ {f}, {}, {}, {}, {}))
  <2> DEFINE s == Stand("flavors", worker[w].todo \ {f}, {}, {}, {}, {})
  <2>1. worker[w] \in Stands /\ StandInv(worker[w])
    BY DEF IInv, TypeOK, WorkerInv
  <2>2. /\ s \in Stands /\ s.at = "flavors" /\ s.todo = worker[w].todo \ {f}
        /\ s.on = {} /\ s.seen = {} /\ s.busy = {} /\ s.pick = {}
    BY <2>1 DEF Stand, Stands
  <2>3. Becomes(w, s)
    BY <1>3
  <2> HIDE DEF s
  <2>4. StandInv(s)
    BY <2>1, <2>2 DEF StandInv
  <2>. QED
    BY <1>1, <1>2, <2>2, <2>3, <2>4, OnlyWorker
<1>4. CASE Becomes(w, Idle)
  BY <1>1, <1>2, <1>4, IdleTyped, IdleInv, OnlyWorker
<1>5. CASE PassOver(w)
  <2>1. PICK v \in worker[w].seen \cup worker[w].pick :
           Becomes(w, Stand("versions", worker[w].todo, worker[w].on, worker[w].seen \ {v},
                            worker[w].busy, {}))
    BY <1>5 DEF PassOver
  <2> DEFINE s == Stand("versions", worker[w].todo, worker[w].on, worker[w].seen \ {v},
                        worker[w].busy, {})
  <2>2. worker[w] \in Stands /\ StandInv(worker[w])
    BY DEF IInv, TypeOK, WorkerInv
  <2>3. /\ s \in Stands /\ s.at = "versions" /\ s.todo = worker[w].todo
        /\ s.on = worker[w].on /\ s.seen = worker[w].seen \ {v} /\ s.busy = worker[w].busy
        /\ s.pick = {}
    BY <2>2 DEF Stand, Stands
  <2>4. Becomes(w, s)
    BY <2>1
  <2> HIDE DEF s
  <2>5. StandInv(s)
    BY <2>2, <2>3 DEF StandInv
  <2>. QED
    BY <1>1, <1>2, <2>3, <2>4, <2>5, OnlyWorker
<1>. QED
  BY <1>3, <1>4, <1>5 DEF ArchiveFails

-----------------------------------------------------------------------------
(* The transactions of the archive job.  A row is removed with its children *)
(* gone and its copy in the archive.                                        *)
LEMMA ArchiveChunkIInv ==
    ASSUME IInv, NEW w \in Workers, NEW f \in Flavors, ArchiveChunk(w, f)
    PROVE  IInv'
<1> DEFINE s == Stand("flavors", worker[w].todo, {}, {}, {}, {})
<1>1. /\ UNCHANGED <<flavor, version, building, imaging, instances, placing, pending, failures, late, missed>>
      /\ Becomes(w, s)
  BY DEF ArchiveChunk, NextFlavor, calls, history
<1>2. s \in Stands /\ StandInv(s)
  BY NextFlavorLemma
<1> HIDE DEF s
<1>3. \/ UNCHANGED <<archive, chunk>>
      \/ archive' = archive \cup {"chunk"} /\ chunk' = "gone" /\ FlavorRows = {}
  BY DEF ArchiveChunk
<1>4. RowsMove
  BY <1>1 DEF RowsMove, Dead, CreatedLate
<1>5. WorkerInv' /\ LateInv' /\ worker' \in [Workers -> Stands]
  BY <1>1, <1>2, <1>4, StandStep, WorkerMoves
<1>6. TypeOK'
  BY <1>1, <1>3, <1>5 DEF IInv, TypeOK
<1>7. RowsHaveParents'
  BY <1>1, <1>3 DEF IInv, RowsHaveParents, FlavorRows
<1>8. GoneIsArchived' /\ BuildingIsNotRemoved' /\ GoneInv'
  BY <1>1, <1>3 DEF IInv, GoneIsArchived, BuildingIsNotRemoved, GoneInv, Dead
<1>. QED
  BY <1>5, <1>6, <1>7, <1>8 DEF IInv

LEMMA ArchiveFlavorVersionIInv ==
    ASSUME IInv, NEW w \in Workers, NEW f \in Flavors, NEW v \in Versions,
           ArchiveFlavorVersion(w, f, v)
    PROVE  IInv'
<1> DEFINE s == Stand("versions", worker[w].todo, worker[w].on, worker[w].seen, worker[w].busy, {})
<1>1. /\ UNCHANGED <<chunk, flavor, building, imaging, instances, placing, pending, failures, late, missed>>
      /\ Becomes(w, s) /\ v \in worker[w].pick
  BY DEF ArchiveFlavorVersion, calls, history
<1>2. /\ worker[w] \in Stands /\ StandInv(worker[w]) /\ Dead(FlavorOf[v])
      /\ (v \in building => BuiltLate(v))
  BY <1>1 DEF IInv, TypeOK, WorkerInv, StandInv
<1>3. /\ s \in Stands /\ s.at = "versions" /\ s.todo = worker[w].todo /\ s.on = worker[w].on
      /\ s.seen = worker[w].seen /\ s.busy = worker[w].busy /\ s.pick = {}
  BY <1>2 DEF Stand, Stands
<1> HIDE DEF s
<1>4. StandInv(s)
  BY <1>2, <1>3 DEF StandInv
<1>5. \/ UNCHANGED <<archive, version>>
      \/ /\ archive' = archive \cup {v} /\ version' = [version EXCEPT ![v] = "gone"]
         /\ ~(instances[v] > 0)
  BY DEF ArchiveFlavorVersion, Referenced
<1>6. /\ version' \in [Versions -> {"none", "live", "gone"}]
      /\ \A u \in Versions : \/ version'[u] = version[u]
                             \/ /\ u = v /\ version'[u] = "gone" /\ v \in archive'
                                /\ ~(instances[v] > 0)
      /\ archive \subseteq archive'
  BY <1>5 DEF IInv, TypeOK
<1>7. RowsMove
  BY <1>1, <1>6 DEF RowsMove, Dead, Row, CreatedLate
<1>8. WorkerInv' /\ LateInv' /\ worker' \in [Workers -> Stands]
  BY <1>1, <1>3, <1>4, <1>7, StandStep, WorkerMoves
<1>9. TypeOK'
  BY <1>1, <1>5, <1>6, <1>8 DEF IInv, TypeOK
<1>10. RowsHaveParents'
  BY <1>1, <1>6 DEF IInv, RowsHaveParents, FlavorRows, Row
<1>11. GoneIsArchived' /\ BuildingIsNotRemoved' /\ GoneInv'
  BY <1>1, <1>2, <1>6 DEF IInv, TypeOK, GoneIsArchived, BuildingIsNotRemoved, GoneInv, Dead,
     BuiltLate
<1>. QED
  BY <1>8, <1>9, <1>10, <1>11 DEF IInv

(* The versions that go with the flavor's row are late: the run entered     *)
(* this step when the flavor had none.                                      *)
LEMMA ArchiveFlavorIInv ==
    ASSUME IInv, NEW w \in Workers, NEW f \in Flavors, ArchiveFlavor(w, f)
    PROVE  IInv'
<1>1. /\ UNCHANGED <<chunk, building, imaging, instances, placing, pending, failures, late, missed>>
      /\ f \in worker[w].on /\ worker[w].at = "flavor"
  BY DEF ArchiveFlavor, At, calls, history
<1>2. Dead(f) /\ \A v \in VersionRows(f) : CreatedLate(v)
  BY <1>1 DEF IInv, WorkerInv, StandInv
<1>3. CASE UNCHANGED <<archive, flavor, version>> /\ NextFlavor(w)
  <2>1. UNCHANGED <<rows, calls, history>>
    BY <1>1, <1>3 DEF rows, calls, history
  <2>. QED
    BY <1>3, <2>1, NextFlavorLemma, LookLemma DEF NextFlavor
<1>4. CASE /\ ~Restricted(f) /\ archive' = archive \cup {f}
           /\ flavor' = [flavor EXCEPT ![f] = "gone"]
           /\ version' = [v \in Versions |-> IF v \in VersionRows(f) THEN "gone" ELSE version[v]]
           /\ Enters(w, "chunk")
  <2> DEFINE s == Stand("chunk", worker[w].todo, worker[w].on, {}, {}, {})
  <2>1. s \in Stands /\ StandInv(s) /\ Becomes(w, s)
    BY <1>4, EntersLemma DEF Enters
  <2> HIDE DEF s
  <2>2. /\ flavor' \in [Flavors -> {"none", "live", "deleted", "gone"}]
        /\ \A g \in Flavors : flavor'[g] = IF g = f THEN "gone" ELSE flavor[g]
    BY <1>4 DEF IInv, TypeOK
  <2>3. /\ version' \in [Versions -> {"none", "live", "gone"}]
        /\ \A v \in Versions : version'[v] = IF v \in VersionRows(f) THEN "gone" ELSE version[v]
    BY <1>4 DEF IInv, TypeOK
  <2>4. \A g \in Flavors : Dead(g) => Dead(g)'
    BY <2>2 DEF Dead
  <2>5. RowsMove
    BY <1>1, <2>3, <2>4 DEF RowsMove, Row, CreatedLate
  <2>6. WorkerInv' /\ LateInv' /\ worker' \in [Workers -> Stands]
    BY <2>1, <2>5, StandStep, WorkerMoves
  <2>7. TypeOK'
    BY <1>1, <1>4, <2>2, <2>3, <2>6 DEF IInv, TypeOK
  <2>8. FlavorOf \in [Versions -> Flavors]
    BY CatalogAssumption
  <2>9. RowsHaveParents'
    <3>1. ASSUME NEW v \in Versions, instances'[v] > 0 PROVE Row(version'[v])
      <4>1. Row(version[v]) /\ v \notin VersionRows(f)
        BY <1>1, <1>4, <3>1 DEF IInv, RowsHaveParents, Restricted, Referenced
      <4>. QED
        BY <2>3, <4>1
    <3>2. ASSUME NEW v \in Versions, Row(version'[v]) PROVE Row(flavor'[FlavorOf[v]])
      <4>1. Row(version[v]) /\ FlavorOf[v] # f
        BY <2>3, <3>2 DEF VersionRows, Row
      <4>. QED
        BY <2>2, <2>8, <4>1 DEF IInv, RowsHaveParents
    <3>3. FlavorRows' \subseteq FlavorRows
      BY <2>2 DEF FlavorRows, Row
    <3>. QED
      BY <1>1, <3>1, <3>2, <3>3 DEF IInv, RowsHaveParents
  <2>10. GoneIsArchived'
    BY <1>1, <1>2, <1>4, <2>2, <2>3 DEF IInv, TypeOK, GoneIsArchived, CreatedLate
  <2>12. BuildingIsNotRemoved'
    BY <1>1, <1>2, <2>3 DEF IInv, TypeOK, BuildingIsNotRemoved, LateInv, BuiltLate
  <2>11. GoneInv'
    BY <1>2, <2>3, <2>4, <2>8 DEF IInv, GoneInv, VersionRows
  <2>. QED
    BY <2>6, <2>7, <2>9, <2>10, <2>11, <2>12 DEF IInv
<1>. QED
  BY <1>3, <1>4 DEF ArchiveFlavor

-----------------------------------------------------------------------------
LEMMA NextIInv == IInv /\ [CatalogNext]_vars => IInv'
<1> SUFFICES ASSUME IInv, [CatalogNext]_vars PROVE IInv'
  OBVIOUS
<1>1. CASE DeleteChunk
  BY <1>1, DeleteChunkIInv
<1>2. ASSUME NEW f \in Flavors, CreateFlavor(f) \/ DeleteFlavor(f) PROVE IInv'
  BY <1>2, CreateFlavorIInv, DeleteFlavorIInv
<1>3. CASE Serve
  BY <1>3, CallFailsIInv, BestNodeIInv, FlavorByIDIInv, CreateFlavorVersionIInv,
     BuildFlavorVersionIInv, CreateInstanceIInv DEF Serve
<1>4. ASSUME NEW v \in Versions, InsertCheckpointJob(v) \/ BuildEnds(v) \/ InstanceEnds(v)
      PROVE  IInv'
  BY <1>4, InsertCheckpointJobIInv, BuildEndsIInv, InstanceEndsIInv
<1>5. ASSUME NEW w \in Workers, Work(w) \/ Archiving(w) \/ \E f \in Flavors : ArchiveFails(w, f)
      PROVE  IInv'
  BY <1>5, WorkIInv, WorkDoneIInv, FetchFlavorIInv, FetchUpdatedFlavorIInv, ArchiveFlavorIInv,
     GetChunkByIDIInv, ArchiveChunkIInv, CountInstancesIInv, ArchiveFlavorVersionIInv,
     ArchiveFailsIInv DEF Archiving
<1>6. CASE UNCHANGED vars
  <2>1. UNCHANGED <<chunk, flavor, version, building, imaging, instances, archive, late, worker,
                    failures, missed, placing, pending>>
    BY <1>6 DEF vars, rows, calls, history
  <2>. QED
    BY <2>1, OnlyCalls DEF IInv, TypeOK
<1>. QED
  BY <1>1, <1>2, <1>3, <1>4, <1>5, <1>6 DEF CatalogNext

LEMMA Inductive == CatalogSpec => []IInv
<1>1. CatalogInit => IInv
  BY InitIInv
<1>2. IInv /\ [CatalogNext]_vars => IInv'
  BY NextIInv
<1>. QED
  BY <1>1, <1>2, PTL DEF CatalogSpec

(* Every variable keeps its type: no count of instances or of calls goes    *)
(* below zero.                                                              *)
THEOREM CatalogTypeCorrect == CatalogSpec => []TypeOK
<1>1. IInv => TypeOK
  BY DEF IInv
<1>. QED
  BY <1>1, Inductive, PTL

(* The archive worker's transactions, with the foreign keys of the schema,  *)
(* leave no instance without its version, no version without its flavor, no *)
(* flavor without the chunk, however many runs and calls overlap.           *)
THEOREM NoOrphanRows == CatalogSpec => []RowsHaveParents
<1>1. IInv => RowsHaveParents
  BY DEF IInv
<1>. QED
  BY <1>1, Inductive, PTL

(* The cascade of ArchiveFlavor (postgres/archive.go:38-60) takes along     *)
(* only versions that were created after the flavor was marked deleted:     *)
(* everything else that is gone is in the archive.                          *)
THEOREM RemovedRowsAreArchived == CatalogSpec => []GoneIsArchived
<1>1. IInv => GoneIsArchived
  BY DEF IInv
<1>. QED
  BY <1>1, Inductive, PTL

(* tryArchiveFlavorVersion looks at a build status that was read earlier    *)
(* (archive.go:126-162), and image jobs write it without a look             *)
(* (create_image.go:189-197); a version is still removed while it is built  *)
(* only if it was put into that status after its flavor's deletion.         *)
THEOREM BuildsAreNotRemoved == CatalogSpec => []BuildingIsNotRemoved
<1>1. IInv => BuildingIsNotRemoved
  BY DEF IInv
<1>. QED
  BY <1>1, Inductive, PTL
-----------------------------------------------------------------------------
(* Sums.  SumFunction is a function that CHOOSE finds by its recursive      *)
(* equation: that there is one, and what its values are, is shown for the   *)
(* least set that would be a counterexample.                                *)

LEMMA LeastSubset ==
    ASSUME NEW D, IsFiniteSet(D), NEW T, T \subseteq SUBSET D, T # {}
    PROVE  \E s \in T : \A t \in T : t \subseteq s => t = s
<1>1. IsWellFoundedOn(StrictSubsetOrdering(D), SUBSET D)
  BY FS_FiniteSubsetsOfFinite, FS_StrictSubsetOrderingWellFounded
<1>2. PICK s \in T : \A t \in T : <<t, s>> \notin StrictSubsetOrdering(D)
  BY <1>1, WFMin
<1>. QED
  BY <1>2 DEF StrictSubsetOrdering

(* The element a sum takes next. *)
Pick(s) == CHOOSE x \in s : TRUE

LEMMA PickIn == \A s : s # {} => Pick(s) \in s
BY DEF Pick

(* h sums f over the subsets of A. *)
Sums(f, A, h) ==
    h = [s \in SUBSET A |-> IF s = {} THEN 0 ELSE f[Pick(s)] + h[s \ {Pick(s)}]]

LEMMA SumsAgree ==
    ASSUME NEW f, NEW A, IsFiniteSet(A), NEW B \in SUBSET A, NEW g, NEW h,
           Sums(f, A, g), Sums(f, B, h)
    PROVE  \A s \in SUBSET B : g[s] = h[s]
<1> DEFINE Bad == {s \in SUBSET B : g[s] # h[s]}
<1> SUFFICES ASSUME Bad # {} PROVE FALSE
  OBVIOUS
<1>1. PICK s \in Bad : \A t \in Bad : t \subseteq s => t = s
  <2>1. Bad \subseteq SUBSET A
    OBVIOUS
  <2> HIDE DEF Bad
  <2>. QED
    BY <2>1, LeastSubset, SMT
<1>2. CASE s = {}
  BY <1>2 DEF Sums
<1>3. CASE s # {}
  <2> DEFINE t == s \ {Pick(s)}
  <2>1. t \in SUBSET B /\ t \in SUBSET A /\ t \subseteq s /\ t # s
    BY <1>3, PickIn
  <2>2. g[t] = h[t]
    BY <1>1, <2>1
  <2>3. g[s] = f[Pick(s)] + g[t] /\ h[s] = f[Pick(s)] + h[t]
    BY <1>3 DEF Sums
  <2>. QED
    BY <2>2, <2>3
<1>. QED
  BY <1>2, <1>3

LEMMA SumsExist ==
    ASSUME NEW f, NEW A, IsFiniteSet(A)
    PROVE  \E h : Sums(f, A, h)
<1> DEFINE Bad == {T \in SUBSET A : ~\E h : Sums(f, T, h)}
<1> SUFFICES ASSUME Bad # {} PROVE FALSE
  OBVIOUS
<1>1. PICK T \in Bad : \A t \in Bad : t \subseteq T => t = T
  <2>1. Bad \subseteq SUBSET A
    OBVIOUS
  <2> HIDE DEF Bad
  <2>. QED
    BY <2>1, LeastSubset, SMT
<1> DEFINE Best(u) == CHOOSE k : Sums(f, u, k)
           h == [s \in SUBSET T |-> IF s = {} THEN 0
                                    ELSE f[Pick(s)] + Best(s \ {Pick(s)})[s \ {Pick(s)}]]
<1>2. \A u \in SUBSET T : u # T => Sums(f, u, Best(u)) /\ IsFiniteSet(u)
  <2> SUFFICES ASSUME NEW u \in SUBSET T, u # T PROVE Sums(f, u, Best(u)) /\ IsFiniteSet(u)
    OBVIOUS
  <2>1. u \in SUBSET A /\ u \notin Bad
    BY <1>1
  <2>2. \E k : Sums(f, u, k)
    BY <2>1
  <2>3. IsFiniteSet(u)
    BY <2>1, FS_Subset
  <2>. QED
    BY <2>2, <2>3
<1> HIDE DEF Best
<1>3. ASSUME NEW u \in SUBSET T, u # T PROVE h[u] = Best(u)[u]
  <2>1. CASE u = {}
    BY <1>2, <1>3, <2>1 DEF Sums
  <2>2. CASE u # {}
    <3> DEFINE w == u \ {Pick(u)}
    <3>1. w \in SUBSET T /\ w \in SUBSET u /\ w # T /\ w # u
      BY <1>3, <2>2, PickIn
    <3>2. Sums(f, u, Best(u)) /\ Sums(f, w, Best(w)) /\ IsFiniteSet(u)
      BY <1>2, <1>3, <3>1
    <3> HIDE DEF w
    <3>3. Best(u)[w] = Best(w)[w]
      BY <3>1, <3>2, SumsAgree, SMT
    <3>4. Best(u)[u] = f[Pick(u)] + Best(u)[w]
      BY <2>2, <3>2 DEF Sums, w
    <3>5. h[u] = f[Pick(u)] + Best(w)[w]
      BY <2>2 DEF w
    <3>. QED
      BY <3>3, <3>4, <3>5
  <2>. QED
    BY <2>1, <2>2
<1>4. \A s \in SUBSET T : s # {} => h[s \ {Pick(s)}] = Best(s \ {Pick(s)})[s \ {Pick(s)}]
  <2> SUFFICES ASSUME NEW s \in SUBSET T, s # {}
               PROVE  h[s \ {Pick(s)}] = Best(s \ {Pick(s)})[s \ {Pick(s)}]
    OBVIOUS
  <2>1. s \ {Pick(s)} \in SUBSET T /\ s \ {Pick(s)} # T
    BY PickIn
  <2> HIDE DEF h
  <2>. QED
    BY <1>3, <2>1
<1>5. Sums(f, T, h)
  <2>1. \A s \in SUBSET T :
            h[s] = IF s = {} THEN 0 ELSE f[Pick(s)] + h[s \ {Pick(s)}]
    BY <1>4
  <2>2. h = [s \in SUBSET T |-> h[s]]
    OBVIOUS
  <2> HIDE DEF h
  <2>3. [s \in SUBSET T |-> h[s]]
          = [s \in SUBSET T |-> IF s = {} THEN 0 ELSE f[Pick(s)] + h[s \ {Pick(s)}]]
    BY <2>1
  <2>. QED
    BY <2>2, <2>3 DEF Sums
<1>. QED
  BY <1>1, <1>5

LEMMA SumIs ==
    ASSUME NEW f, IsFiniteSet(DOMAIN f)
    PROVE  \E h : Sums(f, DOMAIN f, h) /\ SumFunction(f) = h[DOMAIN f]
<1>1. SumFunction(f) = (CHOOSE h : Sums(f, DOMAIN f, h))[DOMAIN f]
  BY DEF SumFunction, SumFunctionOnSet, FoldFunctionOnSet, MapThenFoldSet, Sums, Pick
<1>2. \E h : Sums(f, DOMAIN f, h)
  BY SumsExist
<1>. QED
  BY <1>1, <1>2

(* A sum of natural numbers is one. *)
LEMMA SumsTyped ==
    ASSUME NEW D, IsFiniteSet(D), NEW f \in [D -> Nat], NEW h, Sums(f, D, h)
    PROVE  \A s \in SUBSET D : h[s] \in Nat
<1> DEFINE Bad == {s \in SUBSET D : h[s] \notin Nat}
<1> SUFFICES ASSUME Bad # {} PROVE FALSE
  OBVIOUS
<1>1. PICK s \in Bad : \A t \in Bad : t \subseteq s => t = s
  <2>1. Bad \subseteq SUBSET D
    OBVIOUS
  <2> HIDE DEF Bad
  <2>. QED
    BY <2>1, LeastSubset, SMT
<1>2. s # {}
  BY SMT DEF Sums
<1>3. s \ {Pick(s)} \in SUBSET D /\ s \ {Pick(s)} # s /\ Pick(s) \in D
  BY <1>2, PickIn
<1>4. h[s \ {Pick(s)}] \in Nat
  BY <1>1, <1>3
<1>5. h[s] = f[Pick(s)] + h[s \ {Pick(s)}]
  BY <1>2 DEF Sums
<1>. QED
  BY <1>3, <1>4, <1>5, SMT

LEMMA SumTyped ==
    ASSUME NEW D, IsFiniteSet(D), NEW f \in [D -> Nat]
    PROVE  SumFunction(f) \in Nat
<1>1. DOMAIN f = D
  OBVIOUS
<1>2. PICK h : Sums(f, D, h) /\ SumFunction(f) = h[D]
  BY <1>1, SumIs
<1>. QED
  BY <1>2, SumsTyped, SMT

LEMMA SumOfZeros ==
    ASSUME NEW D, IsFiniteSet(D), NEW f \in [D -> Nat], \A x \in D : f[x] = 0
    PROVE  SumFunction(f) = 0
<1>1. DOMAIN f = D
  OBVIOUS
<1>2. PICK h : Sums(f, D, h) /\ SumFunction(f) = h[D]
  BY <1>1, SumIs
<1> DEFINE Bad == {s \in SUBSET D : h[s] # 0}
<1> SUFFICES ASSUME Bad # {} PROVE FALSE
  BY <1>2
<1>3. PICK s \in Bad : \A t \in Bad : t \subseteq s => t = s
  <2>1. Bad \subseteq SUBSET D
    OBVIOUS
  <2> HIDE DEF Bad
  <2>. QED
    BY <2>1, LeastSubset, SMT
<1>4. s # {}
  BY <1>2 DEF Sums
<1>5. s \ {Pick(s)} \in SUBSET D /\ s \ {Pick(s)} # s /\ Pick(s) \in D
  BY <1>4, PickIn
<1>6. h[s \ {Pick(s)}] = 0
  BY <1>3, <1>5
<1>7. h[s] = f[Pick(s)] + h[s \ {Pick(s)}]
  BY <1>2, <1>4 DEF Sums
<1>. QED
  BY <1>5, <1>6, <1>7, SMT

(* A sum changes by as much as one of its terms. *)
LEMMA SumChanges ==
    ASSUME NEW D, IsFiniteSet(D), NEW f \in [D -> Nat], NEW e \in [D -> Nat], NEW x \in D,
           \A y \in D : y # x => e[y] = f[y]
    PROVE  SumFunction(e) = SumFunction(f) - f[x] + e[x]
<1>1. DOMAIN f = D /\ DOMAIN e = D
  OBVIOUS
<1>2. e[x] \in Nat /\ \A y \in D : y # x => e[y] = f[y]
  OBVIOUS
<1>3. PICK g : Sums(f, D, g) /\ SumFunction(f) = g[D]
  BY <1>1, SumIs
<1>4. PICK h : Sums(e, D, h) /\ SumFunction(e) = h[D]
  BY <1>1, SumIs
<1>5. \A s \in SUBSET D : g[s] \in Nat /\ h[s] \in Nat
  BY <1>1, <1>3, <1>4, SumsTyped
<1> DEFINE Right(s) == h[s] = IF x \in s THEN g[s] - f[x] + e[x] ELSE g[s]
           Bad == {s \in SUBSET D : ~Right(s)}
<1>6. ASSUME Bad # {} PROVE FALSE
  <2>1. PICK s \in Bad : \A t \in Bad : t \subseteq s => t = s
    <3>1. Bad \subseteq SUBSET D
      OBVIOUS
    <3> HIDE DEF Bad
    <3>. QED
      BY <1>6, <3>1, LeastSubset, SMT
  <2>2. s # {}
    BY <1>3, <1>4 DEF Sums
  <2> DEFINE y == Pick(s)
             t == s \ {y}
  <2>3. t \in SUBSET D /\ t # s /\ y \in s /\ y \in D
    BY <2>2, PickIn
  <2>4. Right(t)
    BY <2>1, <2>3
  <2>5. g[s] = f[y] + g[t] /\ h[s] = e[y] + h[t]
    BY <1>3, <1>4, <2>2 DEF Sums
  <2>6. g[t] \in Nat /\ h[t] \in Nat /\ f[y] \in Nat /\ f[x] \in Nat
    BY <1>5, <2>3
  <2>7. s \in SUBSET D /\ ~Right(s)
    BY <2>1
  <2>8. CASE y = x
    <3>1. x \notin t /\ x \in s
      BY <2>3, <2>8
    <3> HIDE DEF t, y
    <3>. QED
      BY <1>2, <2>4, <2>5, <2>6, <2>7, <2>8, <3>1, SMT
  <2>9. CASE y # x
    <3>1. x \in t <=> x \in s
      BY <2>9
    <3>2. e[y] = f[y]
      BY <1>2, <2>3, <2>9
    <3> HIDE DEF t, y
    <3>. QED
      BY <2>4, <2>5, <2>6, <2>7, <3>1, <3>2, SMT
  <2>. QED
    BY <2>8, <2>9
<1>7. Right(D)
  BY <1>6
<1>. QED
  BY <1>3, <1>4, <1>7
-----------------------------------------------------------------------------
(* Overcommitment, on top of IInv.  BestNode compares all calls under way   *)
(* with MaxCalls; those that will create an instance are some of them.      *)
Runs(p) == [v \in Versions |-> p[<<"run", v>>]]
Others(p) == [w \in Writes |-> IF w[1] = "run" THEN 0 ELSE p[w]]

SharesInv == SumFunction(Runs(pending)) + SumFunction(Others(pending)) = SumFunction(pending)

BoundInv == SharesInv /\ OvercommitBounded

LEMMA FiniteCalls == IsFiniteSet(Versions) /\ IsFiniteSet(Writes)
<1>1. IsFiniteSet({"create", "build", "run"})
  <2>1. IsFiniteSet({} \cup {"create"})
    BY FS_EmptySet, FS_AddElement
  <2>2. IsFiniteSet(({} \cup {"create"}) \cup {"build"})
    BY <2>1, FS_AddElement
  <2>3. IsFiniteSet((({} \cup {"create"}) \cup {"build"}) \cup {"run"})
    BY <2>2, FS_AddElement
  <2>4. ((({} \cup {"create"}) \cup {"build"}) \cup {"run"}) = {"create", "build", "run"}
    OBVIOUS
  <2>. QED
    BY <2>3, <2>4
<1>. QED
  BY <1>1, CatalogAssumption, FS_Product DEF Writes

LEMMA SharesTyped ==
    ASSUME NEW p \in [Writes -> Nat]
    PROVE  /\ Runs(p) \in [Versions -> Nat] /\ Others(p) \in [Writes -> Nat]
           /\ SumFunction(p) \in Nat
           /\ SumFunction(Runs(p)) \in Nat /\ SumFunction(Others(p)) \in Nat
<1>1. Runs(p) \in [Versions -> Nat] /\ Others(p) \in [Writes -> Nat]
  BY DEF Runs, Others, Writes
<1>. QED
  BY <1>1, FiniteCalls, SumTyped

(* A call that begins, goes on or ends changes one share and the whole. *)
LEMMA PendingMoves ==
    ASSUME TypeOK, SharesInv, NEW w \in Writes, NEW n \in Nat, pending' = [pending EXCEPT ![w] = n]
    PROVE  /\ SharesInv'
           /\ SumFunction(Runs(pending'))
                = IF w[1] = "run" THEN SumFunction(Runs(pending)) - pending[w] + n
                                  ELSE SumFunction(Runs(pending))
<1> DEFINE new == [pending EXCEPT ![w] = n]
<1>1. pending \in [Writes -> Nat] /\ new \in [Writes -> Nat] /\ pending' = new
  BY DEF TypeOK
<1>2. SumFunction(new) = SumFunction(pending) - pending[w] + n
  <2>1. new[w] = n /\ \A y \in Writes : y # w => new[y] = pending[y]
    BY <1>1
  <2> HIDE DEF new
  <2>. QED
    BY <1>1, <2>1, FiniteCalls, SumChanges, SMT
<1>3. /\ Runs(pending) \in [Versions -> Nat] /\ Others(pending) \in [Writes -> Nat]
      /\ SumFunction(pending) \in Nat /\ pending[w] \in Nat
      /\ SumFunction(Runs(pending)) \in Nat /\ SumFunction(Others(pending)) \in Nat
  BY <1>1, SharesTyped
<1>4. CASE w[1] = "run"
  <2>1. w[2] \in Versions /\ w = <<"run", w[2]>>
    BY <1>4, SMT DEF Writes
  <2>2. /\ Runs(new)[w[2]] = n /\ Runs(pending)[w[2]] = pending[w]
        /\ \A y \in Versions : y # w[2] => Runs(new)[y] = Runs(pending)[y]
    <3>1. \A y \in Versions : <<"run", y>> \in Writes /\ (y # w[2] => <<"run", y>> # w)
      BY <2>1, SMT DEF Writes
    <3>. QED
      BY <1>1, <2>1, <3>1 DEF Runs
  <2>3. Others(new) = Others(pending)
    BY <1>1, <1>4 DEF Others
  <2>4. SumFunction(Runs(new)) = SumFunction(Runs(pending)) - pending[w] + n
    <3> HIDE DEF new
    <3>1. Runs(new) \in [Versions -> Nat]
      BY <1>1, SharesTyped
    <3>. QED
      BY <1>3, <2>1, <2>2, <3>1, FiniteCalls, SumChanges, SMT
  <2> HIDE DEF new
  <2>. QED
    <3>1. SumFunction(Runs(new)) + SumFunction(Others(new)) = SumFunction(new)
      BY <1>2, <1>3, <2>3, <2>4, SMT DEF SharesInv
    <3>. QED
      BY <1>1, <1>4, <2>4, <3>1 DEF SharesInv
<1>5. CASE w[1] # "run"
  <2>1. Runs(new) = Runs(pending)
    BY <1>1, <1>5 DEF Runs, Writes
  <2>2. /\ Others(new)[w] = n /\ Others(pending)[w] = pending[w]
        /\ \A y \in Writes : y # w => Others(new)[y] = Others(pending)[y]
    BY <1>1, <1>5 DEF Others
  <2>3. SumFunction(Others(new)) = SumFunction(Others(pending)) - pending[w] + n
    <3> HIDE DEF new
    <3>1. Others(new) \in [Writes -> Nat]
      BY <1>1, SharesTyped
    <3>. QED
      BY <1>3, <2>2, <3>1, FiniteCalls, SumChanges, SMT
  <2> HIDE DEF new
  <2>. QED
    <3>1. SumFunction(Runs(new)) + SumFunction(Others(new)) = SumFunction(new)
      BY <1>2, <1>3, <2>1, <2>3, SMT DEF SharesInv
    <3>. QED
      BY <1>1, <1>5, <2>1, <3>1 DEF SharesInv
<1>. QED
  BY <1>4, <1>5

LEMMA CountsTyped ==
    ASSUME TypeOK
    PROVE  /\ placing \in Nat /\ AllInstances \in Nat /\ Slots \in Nat /\ MaxCalls \in Nat
           /\ SumFunction(pending) \in Nat /\ SumFunction(Runs(pending)) \in Nat
           /\ SumFunction(Others(pending)) \in Nat
BY FiniteCalls, SumTyped, SharesTyped, CatalogAssumption DEF TypeOK, AllInstances

(* In the terms of the shares. *)
LEMMA BoundIs ==
    OvercommitBounded <=> AllInstances + placing + SumFunction(Runs(pending)) < Slots + MaxCalls
BY DEF OvercommitBounded, Runs

(* A version with one instance more or less. *)
LEMMA InstancesMove ==
    ASSUME TypeOK, NEW v \in Versions, NEW n \in Nat, instances' = [instances EXCEPT ![v] = n]
    PROVE  AllInstances' = AllInstances - instances[v] + n /\ instances[v] \in Nat
<1> DEFINE new == [instances EXCEPT ![v] = n]
<1>1. /\ instances \in [Versions -> Nat] /\ new \in [Versions -> Nat] /\ instances' = new
      /\ instances[v] \in Nat /\ new[v] = n
      /\ \A y \in Versions : y # v => new[y] = instances[y]
  BY DEF TypeOK
<1> HIDE DEF new
<1>2. SumFunction(new) = SumFunction(instances) - instances[v] + n
  BY <1>1, FiniteCalls, SumChanges, SMT
<1>. QED
  BY <1>1, <1>2 DEF AllInstances

LEMMA InitBound == CatalogInit => BoundInv
<1> SUFFICES ASSUME CatalogInit PROVE BoundInv
  OBVIOUS
<1>1. TypeOK
  BY InitIInv DEF IInv
<1>2. /\ \A v \in Versions : instances[v] = 0 /\ Runs(pending)[v] = 0
      /\ \A w \in Writes : pending[w] = 0 /\ Others(pending)[w] = 0
  BY DEF CatalogInit, Runs, Others, Writes
<1>3. Runs(pending) \in [Versions -> Nat] /\ Others(pending) \in [Writes -> Nat]
  BY <1>1, SharesTyped DEF TypeOK
<1>4. /\ SumFunction(instances) = 0 /\ SumFunction(pending) = 0
      /\ SumFunction(Runs(pending)) = 0 /\ SumFunction(Others(pending)) = 0
  BY <1>1, <1>2, <1>3, FiniteCalls, SumOfZeros DEF TypeOK
<1>. QED
  BY <1>4, BoundIs, CatalogAssumption, SMT DEF CatalogInit, BoundInv, SharesInv, AllInstances

LEMMA BestNodeBound == ASSUME TypeOK, BoundInv, BestNode PROVE BoundInv'
<1>1. /\ placing + SumFunction(pending) < MaxCalls /\ Slots > AllInstances
      /\ placing' = placing + 1 /\ UNCHANGED <<instances, pending>>
  BY DEF BestNode, Served, HasSlot, rows
<1>2. AllInstances' = AllInstances /\ SharesInv'
  BY <1>1 DEF AllInstances, BoundInv, SharesInv
<1>3. SumFunction(Runs(pending)) + SumFunction(Others(pending)) = SumFunction(pending)
  BY DEF BoundInv, SharesInv
<1>4. AllInstances + placing' + SumFunction(Runs(pending)) < Slots + MaxCalls
  BY <1>1, <1>3, CountsTyped, SMT
<1>5. OvercommitBounded'
  BY <1>1, <1>2, <1>4 DEF OvercommitBounded, Runs
<1>. QED
  BY <1>2, <1>5 DEF BoundInv

LEMMA FlavorByIDBound ==
    ASSUME TypeOK, BoundInv, NEW op \in {"create", "build", "run"}, NEW v \in Versions,
           FlavorByID(op, v)
    PROVE  BoundInv'
<1> DEFINE w == <<op, v>>
<1>1. w \in Writes /\ w[1] = op
  BY DEF Writes
<1>2. pending[w] \in Nat /\ pending' = [pending EXCEPT ![w] = pending[w] + 1]
      /\ AllInstances' = AllInstances
      /\ placing' = IF op = "run" THEN placing - 1 ELSE placing
  BY <1>1 DEF FlavorByID, TypeOK, AllInstances, rows
<1> HIDE DEF w
<1>3. /\ SharesInv'
      /\ SumFunction(Runs(pending'))
           = IF op = "run" THEN SumFunction(Runs(pending)) - pending[w] + (pending[w] + 1)
                           ELSE SumFunction(Runs(pending))
  <2>1. pending[w] + 1 \in Nat
    BY <1>2, SMT
  <2>. QED
    BY <1>1, <1>2, <2>1, PendingMoves DEF BoundInv
<1>4. AllInstances' + placing' + SumFunction(Runs(pending')) < Slots + MaxCalls
  BY <1>2, <1>3, BoundIs, CountsTyped, SMT DEF BoundInv
<1>5. OvercommitBounded'
  BY <1>4 DEF OvercommitBounded, Runs
<1>. QED
  BY <1>3, <1>5 DEF BoundInv

(* A call that leaves its count, with or without an instance to show. *)
LEMMA CallEnds ==
    ASSUME TypeOK, BoundInv, NEW w \in Writes, pending[w] > 0,
           pending' = [pending EXCEPT ![w] = @ - 1], UNCHANGED placing,
           \/ UNCHANGED instances
           \/ /\ w[1] = "run"
              /\ \E v \in Versions : instances' = [instances EXCEPT ![v] = @ + 1]
    PROVE  BoundInv'
<1>1. /\ pending[w] \in Nat /\ pending[w] - 1 \in Nat
      /\ pending' = [pending EXCEPT ![w] = pending[w] - 1]
  BY SMT DEF TypeOK
<1>2. /\ SharesInv'
      /\ SumFunction(Runs(pending'))
           = IF w[1] = "run" THEN SumFunction(Runs(pending)) - pending[w] + (pending[w] - 1)
                             ELSE SumFunction(Runs(pending))
  BY <1>1, PendingMoves DEF BoundInv
<1>3. \/ AllInstances' = AllInstances
      \/ w[1] = "run" /\ AllInstances' = AllInstances + 1
  <2>1. CASE UNCHANGED instances
    BY <2>1 DEF AllInstances
  <2>2. ASSUME NEW v \in Versions, instances' = [instances EXCEPT ![v] = @ + 1]
        PROVE  AllInstances' = AllInstances + 1
    <3>1. instances[v] + 1 \in Nat /\ instances' = [instances EXCEPT ![v] = instances[v] + 1]
      BY <2>2, SMT DEF TypeOK
    <3> DEFINE n == instances[v] + 1
    <3>2. n \in Nat /\ instances' = [instances EXCEPT ![v] = n]
      BY <3>1
    <3> HIDE DEF n
    <3>3. AllInstances' = AllInstances - instances[v] + n /\ instances[v] \in Nat
      BY <3>2, InstancesMove
    <3>. QED
      BY <3>3, CountsTyped, SMT DEF n
  <2>. QED
    BY <2>1, <2>2
<1>4. AllInstances' + placing' + SumFunction(Runs(pending')) < Slots + MaxCalls
  BY <1>1, <1>2, <1>3, BoundIs, CountsTyped, SMT DEF BoundInv
<1>5. OvercommitBounded'
  BY <1>4 DEF OvercommitBounded, Runs
<1>. QED
  BY <1>2, <1>5 DEF BoundInv

LEMMA CallFailsBound == ASSUME TypeOK, BoundInv, CallFails PROVE BoundInv'
<1>0. UNCHANGED instances
  BY DEF CallFails, rows
<1>1. CASE placing > 0 /\ placing' = placing - 1 /\ UNCHANGED pending
  <2>1. AllInstances' = AllInstances /\ SharesInv'
    BY <1>0, <1>1 DEF AllInstances, BoundInv, SharesInv
  <2>2. AllInstances + placing' + SumFunction(Runs(pending)) < Slots + MaxCalls
    BY <1>1, BoundIs, CountsTyped, SMT DEF BoundInv
  <2>3. OvercommitBounded'
    BY <1>1, <2>1, <2>2 DEF OvercommitBounded, Runs
  <2>. QED
    BY <2>1, <2>3 DEF BoundInv
<1>2. CASE /\ \E w \in Writes : pending[w] > 0 /\ pending' = [pending EXCEPT ![w] = @ - 1]
           /\ UNCHANGED placing
  BY <1>0, <1>2, CallEnds
<1>. QED
  BY <1>1, <1>2 DEF CallFails

LEMMA InstanceEndsBound ==
    ASSUME TypeOK, BoundInv, NEW v \in Versions, InstanceEnds(v)
    PROVE  BoundInv'
<1>1. /\ instances[v] - 1 \in Nat /\ instances' = [instances EXCEPT ![v] = instances[v] - 1]
      /\ UNCHANGED <<placing, pending>>
  BY SMT DEF InstanceEnds, TypeOK, calls
<1>2. AllInstances' = AllInstances - 1
  <2> DEFINE n == instances[v] - 1
  <2>1. n \in Nat /\ instances' = [instances EXCEPT ![v] = n]
    BY <1>1
  <2> HIDE DEF n
  <2>2. AllInstances' = AllInstances - instances[v] + n /\ instances[v] \in Nat
    BY <2>1, InstancesMove
  <2>. QED
    BY <2>2, CountsTyped, SMT DEF n
<1>3. AllInstances' + placing + SumFunction(Runs(pending)) < Slots + MaxCalls
  BY <1>2, BoundIs, CountsTyped, SMT DEF BoundInv
<1>4. OvercommitBounded'
  BY <1>1, <1>3 DEF OvercommitBounded, Runs
<1>. QED
  BY <1>1, <1>4 DEF BoundInv, SharesInv

LEMMA NextBound == IInv /\ BoundInv /\ [CatalogNext]_vars => BoundInv'
<1> SUFFICES ASSUME TypeOK, BoundInv, [CatalogNext]_vars PROVE BoundInv'
  BY DEF IInv
<1>1. CASE UNCHANGED <<instances, placing, pending>>
  BY <1>1 DEF BoundInv, SharesInv, OvercommitBounded, AllInstances
<1>2. CASE Serve
  <2>1. ASSUME NEW v \in Versions,
               CreateFlavorVersion(v) \/ BuildFlavorVersion(v) \/ CreateInstance(v)
        PROVE  BoundInv'
    <3>1. PICK op \in {"create", "build", "run"} :
              /\ Answered(op, v)
              /\ \/ UNCHANGED instances
                 \/ op = "run" /\ instances' = [instances EXCEPT ![v] = @ + 1]
      BY <2>1 DEF CreateFlavorVersion, BuildFlavorVersion, CreateInstance
    <3>2. <<op, v>> \in Writes /\ <<op, v>>[1] = op
      BY DEF Writes
    <3>. QED
      BY <3>1, <3>2, CallEnds DEF Answered
  <2>. QED
    BY <1>2, <2>1, CallFailsBound, BestNodeBound, FlavorByIDBound DEF Serve
<1>3. ASSUME NEW v \in Versions, InsertCheckpointJob(v) \/ BuildEnds(v) \/ InstanceEnds(v)
      PROVE  BoundInv'
  BY <1>1, <1>3, InstanceEndsBound DEF InsertCheckpointJob, BuildEnds, calls
<1>4. ASSUME NEW w \in Workers, Work(w) \/ Archiving(w) \/ \E f \in Flavors : ArchiveFails(w, f)
      PROVE  BoundInv'
  BY <1>1, <1>4 DEF Work, Archiving, WorkDone, FetchFlavor, FetchUpdatedFlavor, ArchiveFlavor,
     GetChunkByID, ArchiveChunk, CountInstances, ArchiveFlavorVersion, ArchiveFails, rows, calls
<1>5. CASE \/ DeleteChunk \/ UNCHANGED vars
           \/ \E f \in Flavors : CreateFlavor(f) \/ DeleteFlavor(f)
  BY <1>1, <1>5 DEF DeleteChunk, CreateFlavor, DeleteFlavor, vars, rows, calls
<1>. QED
  BY <1>2, <1>3, <1>4, <1>5 DEF CatalogNext

(* BestNode counts rows that CreateInstance adds later (node.go:62-99), so  *)
(* that a node can be given more instances than it has slots: at most       *)
(* MaxCalls - 1 more, one for every other call served at the same time, for *)
(* any number of slots, versions and calls.                                 *)
THEOREM OvercommitIsBounded == CatalogSpec => []OvercommitBounded
<1>1. BoundInv => OvercommitBounded
  BY DEF BoundInv
<1>2. CatalogInit => BoundInv
  BY InitBound
<1>3. IInv /\ BoundInv /\ [CatalogNext]_vars => BoundInv'
  BY NextBound
<1>. QED
  BY <1>1, <1>2, <1>3, Inductive, PTL DEF CatalogSpec
=============================================================================
