# Verification of the Explorer platform

Explorer runs Minecraft servers ("instances" of a "flavor version" of a
"chunk") on a set of nodes. A **control plane** (gRPC, Postgres, a job queue, S3)
takes orders and builds; on every node a daemon, **platformd**, polls the control
plane and makes the container runtime (crio) match what it says. Traffic of
the servers runs through eBPF programs that **netglue**, a CNI plugin, sets up.

This directory holds TLA+ modules translated from the source, TLC configurations
that check them on small instances, and theorems checked by TLAPS.
`PROJECT.json` maps every definition to the lines it stands for.

## 1. The system

| Part | Source | Here |
|---|---|---|
| reconciler, status store, port allocator, workload service | `platformd` | `Reconciler`, `StatusStore`, `PortAllocator`, `Workloads` |
| instances of the control plane | `controlplane/instance`, `controlplane/postgres/instance.go` | `InstanceTable`, `Reconciler`, `Catalog` |
| what clients see of an instance | | `InstanceLifecycle` (abstract) |
| checkpoint service, garbage collection | `platformd/checkpoint`, `platformd/garbage` | `Checkpoints` |
| what the checkpoint service promises | | `CheckpointAPI` (abstract) |
| builds of flavor versions | `controlplane/chunk/flavor.go`, `controlplane/worker` | `Builds`, on top of `CheckpointAPI` |
| chunks, flavors, deletion, archiving, scheduling | `controlplane/chunk`, `controlplane/postgres`, `controlplane/worker/archive.go` | `Catalog` |
| netglue, listeners of the proxy | `cni`, `platformd/proxy` | `Netglue` |
| eBPF programs | `internal/datapath/bpf` | `Datapath`; sock.c in `Checkpoints` |
| the network of a node | | `Network`, composed of the two |

How they interact. `RunFlavorVersion` chooses a node and inserts a PENDING row. The
node's reconciler, once per tick, fetches all rows of the node, starts one
goroutine per row, waits for all of them, sends the contents of the status store
as reports and prunes finished entries. A goroutine creates, checks or removes the pod
of its instance. While a pod is created crio calls netglue, which asks platformd
for the host port and writes addresses, routes and BPF maps. Inside the pod
servermon calls `StopWorkload` when nobody plays, and when the server process has
ended; that handler runs beside the tick on the same store. `ApplyStatusReports` updates the reported rows in one
transaction and deletes the DELETED ones in another.

`BuildFlavorVersion` inserts a job whose worker pushes a base image and inserts a
second job, which asks a node for a checkpoint and polls until it is done. The
node's checkpoint service starts a container, cuts its connections, saves it and pushes the
image, while a collector removes what finished checkpoints leave. Deleting a
chunk or a flavor only marks it; the archive worker moves the rows to the archive
tables when nothing builds or runs any more.

## 2. Modules

**Node.** `Platform` has the shared constants. `StatusStore`, `PortAllocator`,
`InstanceTable` and `Workloads` are operators on values: the methods they model hold a
mutex or are one transaction. `Reconciler` composes them with tick,
goroutines, StopWorkload, the handlers of the control plane, container exits
and restarts. `ReconcilerRestarts` counts the restarts, so that what holds up to the
first can be said and liveness asked for across them.

| Variable of `Reconciler` | In the code |
|---|---|
| `rows`, `ordered` | table `instances`; ids handed out so far |
| `store`, `allocated`, `attempts` | `MemStore.data`, `PortAllocator.allocated`, `reconciler.attempts` |
| `pods` | what crio runs, by instance and attempt |
| `tick`, `report` | where `tick` stands; its `statuses` |
| `pc`, `port`, `victim` | where the goroutine of an instance stands, its `port`, the pod RemoveWorkload picked |
| `stop`, `late` | StopWorkload calls; reports whose call failed and whose handler has yet to run |

`handleInstanceCreation` is `MaxAttemptsReached`, `SkipCreation` or `BeginCreation`;
then `AllocatePort` or `AllocateError`; then `RunPodSandbox`, `StartContainers`,
`CreationDone`, or `RunWorkloadError` at any point. `RemoveWorkload` is
`ListPodSandbox` and then `RemoveWorkloadDone` or `RemoveWorkloadError`.

**Checkpoints.** One action per step of `checkpoint` (`EnsureImage`, `AllocatePort`,
`RunPodSandbox`, `RunContainer`, `WaitForRegex`, `BlockNewConnections`,
`DestroySocks`, `CheckpointContainer`, `Push`), `StepFails` for each, and the deferred
update as `FinishState` and `Finish`: it writes the message after the state, and the
handler of `CheckpointStatus` reads without the lock of the store. The collector is
`CollectStatuses`, `RemoveFiles`, `ListPodSandbox`, `RemovePodSandbox`. `socks` are the
container's sockets by kind: those that `Connect` opens, which the programs of sock.c
refuse or destroy, and those that `AcceptConnection` takes from outside, which they
only destroy. `WorkloadPort` is the reconciler's use of the shared allocator.
`CheckpointAPI` has one variable per checkpoint, what `CheckpointStatus` answers, and
says which answers follow which. `COMPLETED_TOO_EARLY` is a COMPLETED whose message is
still to be written.

**Builds.** One version, calls of `BuildFlavorVersion` split at their reads and
writes, and a job per request and kind with river's row (state, attempt). River
(external) fetches a job, retries it, discards it after `MaxAttempts`, and rescues
jobs of a process that died. The node is `CheckpointAPI`, which
`Checkpoints` is shown to implement. `fault` records whether calls
overlapped or a job was repeated, and whether a job ended without its status.

**Catalog.** The rows of one chunk under the foreign keys of the schema. A call
that reads and then writes is two steps with `pending` or `placing` between. An image
job that is run again, or comes second, writes its building status over whatever is
there (`InsertCheckpointJob`). `late` are the pairs of a call and a version that were
written after the flavor's deletion. A run of the archive worker holds what it has read
(`Stand`): flavors to do, versions seen, versions that were building, the version it is
about to remove.

**Datapath.** Each BPF program is an operator from a packet and maps to a verdict
with the packet it leaves. Words are tuples of bytes as they lie in memory on the
little-endian build, so that a forgotten or doubled byte swap, the truncation of
a shift and a port stored in the wrong order show. Checksums are booleans: does the
sum agree with what it covers, is the payload intact.

**Netglue, Network.** ADD and DEL, one action per call that another process can
see, each of which may fail: an error ends ADD, DEL logs it in `errs` and goes on, and
giving a lease back may fail in both (`leaked`). Maps have their capacities, and the
listeners of a workload are sockets by address, port and protocol. Of the reconciler
only what netglue sees is kept: a port is allocated before a pod is run, and
freed before a failed pod is removed. `Network` adds the traffic. Programs that change
no map are functions of the state, so what becomes of a packet is an invariant over all
protocols, ports and destinations, with the checksum filled in by the pod or left to
its device; `PodSends` is the one that writes `original_dst_map`, which is an LRU map
and may give up another entry for it.

A step of the model ends where another actor can see or change what it uses.
Points worth knowing:

* Setting CREATING, allocating and storing the port are one step of `Reconciler`. Only
  StopWorkload writes to the same entry, and its write commutes with them except that it
  may be overwritten, which the order "stop, then the step" shows.
* `View` copies the map, but the entries are pointers that the store keeps writing
  to. An entry that is overwritten while it is read gives a text that is no state
  (`Torn`), which the enum table maps to 0, PENDING.
* A call of the runtime, the registry or the control plane that fails may have had
  its effect.
* `cfg.MaxAttempts` of the reconciler is read by no code, the limit 5 is written
  out in the handler; it is the constant `MaxAttempts`. No code of the control
  plane sets DELETING although the reconciler handles it; `MarkDeleting` is external.
* BPF links that nobody keeps are closed by the garbage collector of Go at an unknown
  time (`LinkCollected`).

## 3. Runs

| Run | Bounds | Checks |
|---|---|---|
| `two_instances` | 2 instances, 2 ports, 1 attempt, no late report | `TypeOK`, `RunningPortsExclusive`, `ImplementsLifecycle` |
| `retries` | 1 instance, 2 attempts, 1 late report, deletion | `CreationHasRow`, `PodHasAllocatedPort` |
| `restart_liveness` | 1 instance, 2 attempts, 1 restart | `PortIsPodPortUntilRestart`, `CreationSettles`, `DeadIsRemoved`, `FailedIsRemovedUnlessRestarted` |
| `network` | 2 pods, interface indices from 254, `net_data_map` nearly full with the entries of an earlier pod | `TypeOK`, `ServersReachableUnlessPortReused`, `EgressReachesOwnProxy`, `DelUndoesAdd` |
| `flows` | 1 workload run twice, 3 flows from 2 source ports, an `original_dst_map` of 2 entries | `UnsharedFlowsRestored` |
| `checkpoints` | 2 checkpoints, 2 ports of which workloads draw one, UDP connections opened and TCP connections accepted | `TypeOK`, `StoredPortsExclusive`, `PodOutlivesCheckpoint`, `NoConnectionSaved`, `ServersSaved`, `ImplementsAPI`, `CheckpointEndsCleanly` |
| `builds` | 2 calls, 2 attempts, 2 mishaps | `TypeOK`, `BuildingHasJobUnlessFault`, `CompletedHasImage`, `CheckpointNeedsBase`, `OneBuildAtATime`, `StatusFollowsBuild`, `BuildSettles` |
| `catalog` | 2 flavors, one with a version, 3 overlapping calls, 1 worker, 1 slot, 2 failing steps or repeated jobs | `RowsHaveParents`, `GoneIsArchived`, `BuildingIsNotRemoved`, `OvercommitBounded`, `DeletedIsRemoved` |
| `orphan`, `restart`, `teardown`, `original_dst` | smallest that show it | violations, section 5 |

What the less obvious properties say is in the comment above each. Those with
"Unless" in their name, and some others, name the exception the code makes: a
history variable (`fault`, `late`, `missed`, `between`, `worked`, `evicted`) records
that it happened, and everything else must hold. The exceptions are:

* `ServersReachableUnlessPortReused`, `EgressReachesOwnProxy`: a DEL of another pod worked
  on the same port or address; for the former also an interface index above 255.
* `DelUndoesAdd`: the part whose own step logged an error; the map entries if another
  pod's DEL worked on them, or if a full map had stopped ADD between two of them.
* `UnsharedFlowsRestored`: another flow used the same source port and protocol, or the
  full LRU map gave the entry up.
* `NoConnectionSaved`: connections the server accepts between DestroySocks and the
  snapshot, which no program looks at, and its own if the link was collected.
* `BuildingIsNotRemoved`, `GoneIsArchived`: what a call or a repeated image job wrote
  after the deletion of the flavor. `DeletedIsRemoved`: flavors that are held by a build
  or an instance for ever, and a chunk nobody comes back to (`missed`).
* `StatusFollowsBuild`, `OneBuildAtATime`, `BuildingHasJobUnlessFault`: overlapping calls,
  repeated jobs, a last attempt that could not write its failure.

Bounds. Ports are only competed for by different instances, so two instances and two
ports show the hazards of allocation; two attempts are enough for a second pod beside a
first one that was not cleaned up, for a stale port and for running out of
attempts. Both at once is beyond TLC; the proofs cover the rest. Interface
indices from 254 give the second pod one above the byte the code cuts them to, and
`net_data_map` is one entry short of what two pods need beside the stale one. In
`flows` the pods of one workload follow each other: entries and flows outlive a pod, so
that flows of two pods meet in the map as well, and a third flow overflows it. Two pods at
the same time are in `original_dst`. Destination ports are those the programs tell
apart (53, 80), one other, and 25565. The address ranges are those of
`dev/cni/00-netglue.conflist`, where the host and the pod address of a pair share
the first octet; `RangesAssumption` says so because the key of `original_dst_map` is
written with one and read with the other. A UDP connection opened and a TCP connection
accepted are one for each program of sock.c. Two calls are the fewest that overlap,
two mishaps let a retry fail too. In `catalog` one slot and two calls are the fewest
that overcommit, and a third may create, build or delete meanwhile; two flavors are the
fewest of which one keeps the chunk. The invariants of `catalog` are proved for any
number of each. A symmetry set is used only where no liveness is checked.

Deadlock is checked where the system always has a next step. Not in `builds`,
`catalog` and the network runs: requests, flavors and pods are finite
sets there, and a system that has served them all stops.

`two_instances` has no late reports and no deletion by operators: with them a
RUNNING report may overwrite DELETING, or show an earlier attempt for a while, and
the rows do not follow `InstanceLifecycle`. `FailedIsRemovedUnlessRestarted`
stops at a restart: a torn read turns CREATION_FAILED into PENDING and a restart right
then forgets the attempts, so that the instance is created once more.

### Fairness

* Reconciler: platformd keeps ticking and goroutines and handlers go on (weak
  fairness; Go schedules them and the ticker is set again on every path); calls
  that are made again in every tick succeed at some time (strong fairness of
  sending reports, of listing and removing pods, of finding a dead workload
  unhealthy). Nothing is assumed of creations, of StopWorkload, of exits, of orders.
* Checkpoints: the goroutine goes on, retention periods end, the collector's rounds go
  on (`garbage/gc.go` ticks for ever), and what it repeats in every round succeeds
  at some time (strong fairness).
* Builds: river fetches and rescues jobs and a worker goes on; the node settles
  a checkpoint it began (`CheckpointEndsCleanly` is the reason). No step is
  assumed to succeed.
* Catalog: the archive job is scheduled again and again and a run goes on. Nothing is
  assumed of builds and instances: one that never ends keeps its flavor (`Held`).

## 4. Proofs

| Theorem | Module | States |
|---|---|---|
| `TypeCorrect` | `ReconcilerProofs` | `RestartSpec => []TypeOK` |
| `RunningPortsAreExclusive` | `ReconcilerProofs` | `Spec => []RunningPortsExclusive` |
| `PodsHaveAllocatedPorts` | `ReconcilerProofs` | `Spec => []PodHasAllocatedPort` |
| `CreationsHaveRows` | `CreationProofs` | `Spec => []CreationHasRow` |
| `RowsFollowLifecycle` | `LifecycleProofs` | `Spec => ImplementsLifecycle` if `MaxLate = 0`, `Deletable = {}` |
| `ShownPortIsPodPort` | `LifecycleProofs` | `CountedSpec => []PortIsPodPortUntilRestart` if `MaxLate = 0` |
| `CheckpointTypeCorrect`, `CheckpointPortsAreExclusive`, `CollectorSparesCheckpoints`, `SnapshotsHaveNoConnection`, `SnapshotsHaveServers` | `CheckpointsProofs` | the five invariants of `checkpoints` |
| `ServiceImplementsAPI` | `CheckpointsProofs` | `Spec => ImplementsAPI` |
| `BuildTypeCorrect`, `BuildingStatusHasJob`, `CheckpointsHaveBase`, `CompletedVersionsHaveImage`, `BuildsDoNotOverlap` | `BuildsProofs` | the five invariants of `builds` |
| `StatusMovesAlongBuild` | `BuildsProofs` | `BuildSpec => StatusFollowsBuild`, an action property |
| `CatalogTypeCorrect`, `NoOrphanRows`, `RemovedRowsAreArchived`, `BuildsAreNotRemoved`, `OvercommitIsBounded` | `CatalogProofs` | the type invariant and the four invariants of `catalog` |
| `DnatDelivers`, `SnatRestores`, `ArpAnswers`, `ServerPacketsPass`, `EgressRedirected`, `AnswersFromDestination` | `DatapathProofs` | what each BPF program makes of a packet |

They hold for all sets of instances, ports, checkpoints, requests, flavors, versions and
workers and for all bounds. Assumptions, evaluated by TLC in the runs: 0 is no port,
`MaxAttempts`, `MaxCalls` and `Slots` are positive, the other bounds are natural
numbers, `FlavorOf` is a function from a finite set of versions to flavors,
`Connections` and `WorkloadPorts` are subsets of what they are drawn from.

**Reconciler.** `RunningPortsExclusive` is not inductive: what a row says comes
from a report that was built ticks ago. `Mentions(id, p)` collects every place that
says, or can still make the control plane say, that id runs on p; `Holds(id, p)` says
the goroutine of id has p allocated. `PortInv` says that what is held or
mentioned is taken, by one instance only, and never both held and mentioned by the
same one. The last part makes it right to free the port when a creation fails.
It needs `CreatingInv` (the store does not say RUNNING while a creation is
under way) and `TickInv` (no goroutine runs outside its tick). `PodInv` carries the
port from the goroutine to the pod.

**Creations and lifecycle.** `CreationHasRow` needs `DeathInv`: from the moment a
DELETED report is built, until the row is gone, the store says DELETED or no attempt
is left, so that even a report applied late finds no creation under way.
`RowsFollowLifecycle` is a step simulation: each step maps to a step of
`InstanceLifecycle` or a stutter. `LifeInv` is what it needs: once a row is
RUNNING nothing creates the instance, and store and reports say the port of the
row or the end of the instance. `ShownPortIsPodPort` needs `ShownInv`: whatever still
mentions a port for an instance that is not being created names the port of its pod.

**Checkpoints.** `IInv` adds to the type invariant: what a goroutine's position says of its
status and result (`PhaseInv`, `ResultInv`); that ports in statuses are taken once
(`PortInv`); which sockets can be open at which step (`SocketInv`); and that a
checkpoint started between two rounds is in `keep` during each later one
(`KeepInv`). The refinement maps the store, the goroutine's position and the message it
carries to an answer.

**Builds.** `PendingInv` strengthens the property to a job whose result is still
to come; `RequestInv` ties jobs to calls that returned; `FilesInv` and `BaseInv`
carry "uploaded" and "pushed" through calls, jobs and the status a call once read. The
action property follows from the same invariant: it says in which status a job that may
still write can find the version.

**Catalog.** `WorkerInv` says what a worker's reading is worth later: versions it picked
were not building or were written to late, and what it is on belongs to a
flavor that stays deleted (`GoneInv` says the same of versions that are gone). The bound
on overcommitment rests on lemmas on how a sum over a finite set changes when one
summand does.

**Datapath.** No state: each theorem is about one program, for every packet, map and
port. The lemmas say what the two rewriting helpers do to the checksums of a packet
whose sum is complete or still to be filled in.

Only model-checked: liveness, which needs fairness and `ENABLED`, and the invariants of
`Network`, which follow packets through several programs and the maps of concrete pods.

## 5. Where the code and its documentation differ

* `orphan` (`OrphansRemoved`): RemoveWorkload removes one pod. After a failed cleanup
  there are two; the second survives its instance.
* `restart` (`LivePortsDistinct`): the allocator starts empty after a restart
  while pods keep their ports.
* `teardown` (`ServersReachable`): a failed ADD gives its addresses back, and the
  reconciler frees the port of a failed pod, before DEL removes the map entries. DEL then
  removes what another pod has written under the same address or port.
* `original_dst` (`ProxyRestoresDestination`): the key of `original_dst_map` is
  computed in 32 bits and loses all but one octet of the pod's address. Pods with
  the same source port share an entry.

Met while modelling, without a run of their own:

* The archive worker reaches a chunk only through a deleted flavor of it
  (`archive.go:44-71`), so that a deleted chunk without flavors, or with one created
  after the deletion, stays, although it should "be fully deleted" within minutes
  (`api/chunk/v1alpha1/api.proto:166-168`). This is `missed` in `DeletedIsRemoved`.
* The README of the datapath (`internal/datapath/README.md:20-21`) leaves packets for
  destination port 25565 out of what goes to the proxy. The program goes by the source
  port (`tproxy.c:95-97`) and redirects them, as `EgressReachesOwnProxy` says.
* UDP to ports other than 53 goes to ports of the proxy where it listens for TCP only
  (`tproxy.c:140-145`), with its checksum broken if the pod had filled it in.
* A checkpoint refuses the connections its container opens, not those it accepts
  (`sock.c:8-20`): one accepted after DestroySocks is saved.
* A build whose last attempt times out keeps its building status: the update is
  made with the context that has just expired (`create_checkpoint.go:86-99`), and later
  calls take the status for a build under way (`flavor.go:308-315`). This is
  `fault = "lost"` in `Builds`.
* An error between ContainerInfo and DestroySocks leaves a checkpoint COMPLETED
  (`checkpoint/service.go:263-285`); the worker does not read the message. This
  is "error" in `CompletedHasImage`.
* The loop that prunes statuses reads them through shared pointers, so that a
  StopWorkload after the reports were built is pruned unreported
  (`reconciler.go:182-195`).
* `ApplyStatusReports` leaves the rows to be deleted out of its update
  (`postgres/instance.go:274-276`), the comment at line 291 says otherwise.
* The worker archives a chunk that is not deleted when its last flavor was
  (`archive.go:56-71`).
* "During this time any interaction with the flavor is blocked"
  (`api/chunk/v1alpha1/api.proto:156-159`) holds for calls that read the
  flavor after its deletion; the others are `late` in `Catalog`.

## 6. Not modelled

* **Kernel headers**: `vmlinux.h` and the libbpf headers are almost all of the C text of
  the repository (some 165,000 lines against 650 written for Explorer). They
  declare types and helpers and hold no statement that runs. The C written for
  Explorer is modelled in full but for the packet bounds checks the verifier asks for,
  which are the flag `short`.
* **Start and stop of platformd** within one process: nothing survives it that
  another part depends on. A restart is an action of `Reconciler` and `Checkpoints`.
* **Servermon's** counting of players: its call may come at any time while the container
  runs or after the server exited, which covers it.
* **CLI, its progress display, login**: single calls and local files.
* **Descriptive fields** of chunks and flavors, thumbnails, resource packs, upload
  URLs, blob store, images and tar archives, configuration files: data and I/O.
* **Users, authorization, metadata service, pagination**: stateless.
* **Contents of proxy snapshots**: configuration of envoy; the listeners of a workload are
  modelled.
* **Several nodes**: the tables are partitioned by node, and nodes share no state
  but the registry.
* **Generated code.**
