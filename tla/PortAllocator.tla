--------------------------- MODULE PortAllocator ---------------------------
(* The host port allocator (platformd/workload/port_allocator.go), shared *)
(* by workloads and checkpoints.  Allocate draws at most five random      *)
(* ports under the allocator's mutex: it returns one that is not taken,   *)
(* or fails, which takes at least one draw of a taken port.               *)
EXTENDS Integers

CONSTANT Ports    \* the host ports portMin..portMax of the node

(* The zero value of a port field: it is not set. *)
NoPort == 0

PortOrNone == Ports \cup {NoPort}

ASSUME PortsAssumption == NoPort \notin Ports

(* Mutant of Allocate: the last draw is not looked up. *)
AllocateUnchecked(allocated, p) == p \in Ports

Allocate(allocated, p) == p \in Ports \ allocated

AllocateFails(allocated) == allocated # {}

Free(allocated, p) == allocated \ {p}
=============================================================================
