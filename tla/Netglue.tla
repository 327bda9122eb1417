------------------------------ MODULE Netglue ------------------------------
(* netglue, the CNI plugin (cni/cni.go, cni/handler.go): what CNI ADD and   *)
(* CNI DEL do to the addresses, links, routes, proxy listeners and BPF maps *)
(* of a node (internal/datapath/objects.go), one step per call that another *)
(* process can observe.  Each of them may fail: an error ends ADD, and is   *)
(* only logged by DEL, which goes on.                                       *)
(*                                                                          *)
(* ADD and DEL run in processes of their own, started by the container      *)
(* runtime for platformd's reconciler; of the reconciler only what netglue  *)
(* sees is kept: the host port it allocates and puts in the status store    *)
(* before a pod is run, and that it frees the port of a failed pod before   *)
(* it removes the pod.                                                      *)
EXTENDS Datapath, FiniteSets

CONSTANTS Workloads,
          HostPorts,        \* ports of the allocator's range
          IPPairs,          \* address pairs the IPAM plugin hands out
          StalePods,        \* [veth, host_port] of an earlier pod in the maps
          FirstIndex,       \* next interface index of the kernel at the start
          VethEntries,      \* bound: max_entries of veth_pair_map
          DnatEntries,      \* bound: max_entries of ptp_dnat_targets
          NetDataEntries,   \* bound: max_entries of net_data_map
          MaxRuns           \* bound: pods run per workload

ASSUME NetglueAssumption ==
    /\ HostPorts \subseteq 1..65535
    /\ FirstIndex \in Nat \ {0}
    /\ {VethEntries, DnatEntries, NetDataEntries, MaxRuns} \subseteq Nat
    /\ \A i \in IPPairs : i.host \in Seq(0..255) /\ i.pod \in Seq(0..255)

NoPort == 0

VARIABLES
    pc,             \* where the reconciler and the plugin are with a workload
    runs,           \* pods run for it so far
    allocated,      \* portAllocator.allocated
    port,           \* WorkloadStatus.Port in the status store
    addFailed,      \* workloads whose pod's ADD failed
    ips,            \* addresses leased from IPAM for the pod of a workload
    leaked,         \* leases of earlier pods that were never given back
    veth,           \* ExecAdd's veth
    delPort,        \* ExecDel's port
    delVeth,        \* ExecDel's veth
    errs,           \* ExecDel's errs: the steps that failed
    links,          \* veth pairs that exist in the kernel
    nextIndex,      \* the kernel's next interface index
    routes,         \* full match routes: pod address -> interface index
    listeners,      \* the proxy's resource map: workload -> its listeners
    veth_pair_map, ptp_dnat_targets, net_data_map

glueVars == <<pc, runs, allocated, port, addFailed, ips, leaked, veth, delPort, delVeth,
              errs, links, nextIndex, routes, listeners,
              veth_pair_map, ptp_dnat_targets, net_data_map>>

(* Words as in Datapath: the number an address is in a map, and a port as   *)
(* the 32-bit key under which net_data_map holds it beside the addresses.   *)
ipToInt(octets) == bpf_htonl(octets)
uint32(p) == <<p % 256, p \div 256, 0, 0>>
EmptyMap == [k \in {} |-> NoEntry]

(* Map.Put, with the error of a full map, and Map.Delete. *)
Full(map, key, entries) == key \notin DOMAIN map /\ Cardinality(DOMAIN map) >= entries
Put(map, key, value) == [k \in DOMAIN map \cup {key} |-> IF k = key THEN value ELSE map[k]]
Drop(map, keys) == [k \in DOMAIN map \ keys |-> map[k]]

(* Put of two keys in order, where the first error stops. *)
TwoFull(map, key1, key2, value, entries) ==
    \/ Full(map, key1, entries)
    \/ Full(Put(map, key1, value), key2, entries)
PutTwo(map, key1, key2, value, entries) ==
    CASE Full(map, key1, entries) -> map
      [] ~Full(map, key1, entries) /\ TwoFull(map, key1, key2, value, entries) ->
             Put(map, key1, value)
      [] OTHER -> Put(Put(map, key1, value), key2, value)
(* Mutant of DropInOrder: the second key is forgotten. *)
DropFirst(map, key1, key2) == Drop(map, {key1})

(* Delete of two keys in order, where the first error stops. *)
DropInOrder(map, key1, key2) ==
    IF key1 \in DOMAIN map THEN Drop(map, {key1, key2}) ELSE map

(* The values ADD writes.  The interface index of a target is cut to a byte. *)
VethPair(v) == [host_if_index |-> v.host_index, host_if_addr |-> ipToInt(v.host_addr)]
DnatTarget(v) ==
    [ip_addr |-> ipToInt(v.pod_addr), iface_idx |-> v.host_index % 256, mac_addr |-> v.mac]
NetData(v, p) == [veth |-> v, host_port |-> p]

(* The listeners of a workload, as <<address, port, protocol>>: HTTP and    *)
(* TCP of WorkloadResources, DNS over both of DNSListenerResourceGroup.     *)
WorkloadListeners(addr) ==
    {<<addr, TPROXY_HTTP_PORT, IPPROTO_TCP>>, <<addr, TPROXY_TCP_PORT, IPPROTO_TCP>>,
     <<addr, TPROXY_DNS_PORT, IPPROTO_UDP>>, <<addr, TPROXY_DNS_PORT, IPPROTO_TCP>>}

(* The pinned maps outlive every process: they start empty, or with what a  *)
(* pod left behind whose DEL did not find its port (platformd had restarted *)
(* and its status store was empty).                                         *)
Init ==
    /\ pc = [w \in Workloads |-> "idle"]
    /\ runs = [w \in Workloads |-> 0]
    /\ allocated = {}
    /\ port = [w \in Workloads |-> NoPort]
    /\ addFailed = {}
    /\ ips = [w \in Workloads |-> NoEntry]
    /\ leaked = {}
    /\ veth = [w \in Workloads |-> NoEntry]
    /\ delPort = [w \in Workloads |-> NoPort]
    /\ delVeth = [w \in Workloads |-> NoEntry]
    /\ errs = [w \in Workloads |-> {}]
    /\ links = {}
    /\ nextIndex = FirstIndex
    /\ routes = EmptyMap
    /\ listeners = EmptyMap
    /\ \/ /\ veth_pair_map = EmptyMap
          /\ ptp_dnat_targets = EmptyMap
          /\ net_data_map = EmptyMap
       \/ \E d \in StalePods :
          /\ veth_pair_map = PutTwo(EmptyMap, d.veth.host_index, d.veth.pod_index,
                                    VethPair(d.veth), VethEntries)
          /\ ptp_dnat_targets = Put(EmptyMap, d.host_port, DnatTarget(d.veth))
          /\ net_data_map = PutTwo(EmptyMap, uint32(d.host_port),
                                   ipToInt(d.veth.pod_addr), d, NetDataEntries)

mapVars  == <<veth_pair_map, ptp_dnat_targets, net_data_map>>
nodeVars == <<links, nextIndex, routes, listeners>>
delVars  == <<delPort, delVeth, errs>>
runVars  == <<runs, allocated, port, leaked>>

Go(w, from, to) == pc[w] = from /\ pc' = [pc EXCEPT ![w] = to]

(***************************************************************************)
(* The reconciler runs a pod: the port is in the store before CNI ADD.     *)
(* What an earlier pod still has leased stays leased under its own id.     *)
(***************************************************************************)
RunPod(w, p) ==
    /\ pc[w] \in {"idle", "gone"}
    /\ runs[w] < MaxRuns
    /\ p \notin allocated
    /\ pc' = [pc EXCEPT ![w] = "ips"]
    /\ runs' = [runs EXCEPT ![w] = @ + 1]
    /\ allocated' = allocated \cup {p}
    /\ port' = [port EXCEPT ![w] = p]
    /\ addFailed' = addFailed \ {w}
    /\ ips' = [ips EXCEPT ![w] = NoEntry]
    /\ leaked' = leaked \cup ({ips[w]} \ {NoEntry})
    /\ veth' = [veth EXCEPT ![w] = NoEntry]
    /\ UNCHANGED <<delVars, nodeVars, mapVars>>

(***************************************************************************)
(* ExecAdd.  Every call may fail for reasons outside the model, which ends *)
(* ADD: the deferred function gives the addresses back, unless that fails  *)
(* too, and nothing else is undone.                                        *)
(***************************************************************************)
Adding == {"ips", "veth", "routes", "dnat", "netdata", "listeners"}

EndAdd(w) ==
    /\ pc' = [pc EXCEPT ![w] = "addfailed"]
    /\ addFailed' = addFailed \cup {w}
    /\ ips' \in {ips, [ips EXCEPT ![w] = NoEntry]}

AddFails(w) ==
    /\ pc[w] \in Adding
    /\ EndAdd(w)
    /\ UNCHANGED <<runVars, veth, delVars, nodeVars, mapVars>>

AllocIPs(w, pair) ==
    /\ Go(w, "ips", "veth")
    /\ pair \notin leaked /\ \A v \in Workloads : ips[v] # pair
    /\ ips' = [ips EXCEPT ![w] = pair]
    /\ UNCHANGED <<runVars, addFailed, veth, delVars, nodeVars, mapVars>>

(* Mutant of NewVeth: the two addresses of the lease are swapped. *)
NewVethSwapped(w) ==
    [host_index |-> nextIndex, host_addr |-> ips[w].pod,
     pod_index |-> nextIndex + 1, pod_addr |-> ips[w].host,
     mac |-> <<"mac", nextIndex + 1>>]

(* The kernel registers the host-side peer first.  When a peer cannot be    *)
(* configured, or AddVethPairEntry fails, the link stays, in the latter     *)
(* case possibly with the first entry.                                      *)
NewVeth(w) ==
    [host_index |-> nextIndex, host_addr |-> ips[w].host,
     pod_index |-> nextIndex + 1, pod_addr |-> ips[w].pod,
     mac |-> <<"mac", nextIndex + 1>>]

AllocVethPair(w) ==
    LET v == NewVeth(w)
    IN  /\ pc[w] = "veth"
        /\ links' = links \cup {v}
        /\ nextIndex' = nextIndex + 2
        /\ veth' = [veth EXCEPT ![w] = v]
        /\ \/ EndAdd(w) /\ UNCHANGED veth_pair_map
           \/ /\ veth_pair_map' = PutTwo(veth_pair_map, v.host_index, v.pod_index,
                                         VethPair(v), VethEntries)
              /\ IF TwoFull(veth_pair_map, v.host_index, v.pod_index, VethPair(v), VethEntries)
                 THEN EndAdd(w)
                 ELSE Go(w, "veth", "routes") /\ UNCHANGED <<addFailed, ips>>
        /\ UNCHANGED <<runVars, delVars, routes, listeners, ptp_dnat_targets, net_data_map>>

(* Attaching the programs and the default route concern only this pod; the  *)
(* full match route exists at most once per pod address.                    *)
AddFullMatchRoute(w) ==
    /\ pc[w] = "routes"
    /\ IF veth[w].pod_addr \in DOMAIN routes
       THEN EndAdd(w) /\ UNCHANGED routes
       ELSE /\ Go(w, "routes", "dnat")
            /\ routes' = Put(routes, veth[w].pod_addr, veth[w].host_index)
            /\ UNCHANGED <<addFailed, ips>>
    /\ UNCHANGED <<runVars, veth, delVars, links, nextIndex, listeners, mapVars>>

(* getHostPort and AddDNATTarget. *)
AddDNATTarget(w) ==
    /\ pc[w] = "dnat"
    /\ IF port[w] = NoPort \/ Full(ptp_dnat_targets, port[w], DnatEntries)
       THEN EndAdd(w) /\ UNCHANGED ptp_dnat_targets
       ELSE /\ Go(w, "dnat", "netdata")
            /\ ptp_dnat_targets' = Put(ptp_dnat_targets, port[w], DnatTarget(veth[w]))
            /\ UNCHANGED <<addFailed, ips>>
    /\ UNCHANGED <<runVars, veth, delVars, nodeVars, veth_pair_map, net_data_map>>

AddNetData(w) ==
    LET addr  == ipToInt(veth[w].pod_addr)
        value == NetData(veth[w], port[w])
    IN  /\ pc[w] = "netdata"
        /\ net_data_map' = PutTwo(net_data_map, uint32(port[w]), addr, value, NetDataEntries)
        /\ IF TwoFull(net_data_map, uint32(port[w]), addr, value, NetDataEntries)
           THEN EndAdd(w)
           ELSE Go(w, "netdata", "listeners") /\ UNCHANGED <<addFailed, ips>>
        /\ UNCHANGED <<runVars, veth, delVars, nodeVars, veth_pair_map, ptp_dnat_targets>>

(* The resource map holds the listeners before the snapshot can fail. *)
CreateListeners(w) ==
    /\ pc[w] = "listeners"
    /\ listeners' = Put(listeners, w, WorkloadListeners(veth[w].host_addr))
    /\ \/ Go(w, "listeners", "up") /\ UNCHANGED <<addFailed, ips>>
       \/ EndAdd(w)
    /\ UNCHANGED <<runVars, veth, delVars, links, nextIndex, routes, mapVars>>

(***************************************************************************)
(* The reconciler around a pod.                                            *)
(***************************************************************************)

(* The rest of RunWorkload fails: the port is freed, then the pod removed. *)
WorkloadFails(w) ==
    /\ Go(w, "up", "del")
    /\ allocated' = allocated \ {port[w]}
    /\ UNCHANGED <<runs, port, leaked, addFailed, ips, veth, delVars, nodeVars, mapVars>>

(* A deleted or unhealthy instance: the pod is removed, its port stays      *)
(* allocated.                                                               *)
RemoveWorkload(w) ==
    /\ Go(w, "up", "del")
    /\ UNCHANGED <<runVars, addFailed, ips, veth, delVars, nodeVars, mapVars>>

(* After a failed ADD the runtime may call DEL before it removes the        *)
(* sandbox; a failed StopPodSandbox is called again, and DEL with it.       *)
CallDel(w) ==
    /\ pc[w] \in {"addfailed", "deleted"}
    /\ pc' = [pc EXCEPT ![w] = "del"]
    /\ UNCHANGED <<runVars, addFailed, ips, veth, delVars, nodeVars, mapVars>>

(* The sandbox is gone, and with its network namespace the veth pair and    *)
(* the routes over it.  Only now does a failed ADD surface as the error of  *)
(* RunWorkload, on which the reconciler frees the port.  DEL's process has  *)
(* ended, and its variables with it.                                        *)
Via(index) == {a \in DOMAIN routes : routes[a] = index}

RemoveSandbox(w) ==
    /\ pc[w] \in {"addfailed", "deleted"}
    /\ pc' = [pc EXCEPT ![w] = "gone"]
    /\ links' = links \ {veth[w]}
    /\ routes' = IF veth[w] = NoEntry THEN routes
                 ELSE Drop(routes, Via(veth[w].host_index))
    /\ allocated' = IF w \in addFailed THEN allocated \ {port[w]} ELSE allocated
    /\ delPort' = [delPort EXCEPT ![w] = NoPort]
    /\ delVeth' = [delVeth EXCEPT ![w] = NoEntry]
    /\ errs' = [errs EXCEPT ![w] = {}]
    /\ UNCHANGED <<runs, port, leaked, addFailed, ips, veth, nextIndex, listeners, mapVars>>

(***************************************************************************)
(* ExecDel.  It never fails: what goes wrong is collected and logged.  The *)
(* lease of the pod is released by container id, everything else by the    *)
(* port in the status store and the veth pair net_data_map holds for it.   *)
(***************************************************************************)
LogError(w, step) == errs' = [errs EXCEPT ![w] = @ \cup {step}]

(* getHostPort and GetVethPair; an error of either (platformd may not       *)
(* answer) ends DEL.                                                        *)
GetVethPair(w) ==
    /\ pc[w] = "del"
    /\ \/ pc' = [pc EXCEPT ![w] = "deleted"] /\ UNCHANGED delVars
       \/ /\ port[w] # NoPort /\ uint32(port[w]) \in DOMAIN net_data_map
          /\ pc' = [pc EXCEPT ![w] = "route"]
          /\ delPort' = [delPort EXCEPT ![w] = port[w]]
          /\ delVeth' = [delVeth EXCEPT ![w] = net_data_map[uint32(port[w])].veth]
          /\ errs' = [errs EXCEPT ![w] = {}]
    /\ UNCHANGED <<runVars, addFailed, ips, veth, nodeVars, mapVars>>

DelFullMatchRoute(w) ==
    LET found == Via(delVeth[w].host_index) \cap {delVeth[w].pod_addr}
    IN  /\ Go(w, "route", "listener")
        /\ \/ found # {} /\ routes' = Drop(routes, found) /\ UNCHANGED errs
           \/ LogError(w, "route") /\ UNCHANGED routes
        /\ UNCHANGED <<runVars, addFailed, ips, veth, delPort, delVeth,
                       links, nextIndex, listeners, mapVars>>

(* Platformd may not answer: the listeners then stay. *)
DeleteListeners(w) ==
    /\ Go(w, "listener", "maps")
    /\ \/ listeners' = Drop(listeners, {w}) /\ UNCHANGED errs
       \/ LogError(w, "listeners") /\ UNCHANGED listeners
    /\ UNCHANGED <<runVars, addFailed, ips, veth, delPort, delVeth,
                   links, nextIndex, routes, mapVars>>

(* DelMapEntries: net data, DNAT target, veth pair, up to the first error,  *)
(* which is a missing key.                                                  *)
DelMapEntries(w) ==
    LET addr    == ipToInt(delVeth[w].pod_addr)
        p       == delPort[w]
        indexes == {delVeth[w].host_index, delVeth[w].pod_index}
        netDone == {uint32(p), addr} \subseteq DOMAIN net_data_map
        natDone == netDone /\ p \in DOMAIN ptp_dnat_targets
    IN  /\ Go(w, "maps", "link")
        /\ net_data_map' = DropInOrder(net_data_map, uint32(p), addr)
        /\ ptp_dnat_targets' = Drop(ptp_dnat_targets, IF netDone THEN {p} ELSE {})
        /\ veth_pair_map' = IF natDone
                            THEN DropInOrder(veth_pair_map, delVeth[w].host_index,
                                             delVeth[w].pod_index)
                            ELSE veth_pair_map
        /\ IF natDone /\ indexes \subseteq DOMAIN veth_pair_map
           THEN UNCHANGED errs
           ELSE LogError(w, "maps")
        /\ UNCHANGED <<runVars, addFailed, ips, veth, delPort, delVeth, nodeVars>>

DeallocVethPair(w) ==
    LET found == {l \in links : l.host_index = delVeth[w].host_index}
    IN  /\ Go(w, "link", "lease")
        /\ \/ /\ found # {}
              /\ links' = links \ found
              /\ routes' = Drop(routes, Via(delVeth[w].host_index))
              /\ UNCHANGED errs
           \/ LogError(w, "link") /\ UNCHANGED <<links, routes>>
        /\ UNCHANGED <<runVars, addFailed, ips, veth, delPort, delVeth,
                       nextIndex, listeners, mapVars>>

DeallocIPs(w) ==
    /\ Go(w, "lease", "deleted")
    /\ \/ ips' = [ips EXCEPT ![w] = NoEntry] /\ UNCHANGED errs
       \/ LogError(w, "lease") /\ UNCHANGED ips
    /\ UNCHANGED <<runVars, addFailed, veth, delPort, delVeth, nodeVars, mapVars>>

GlueNext ==
    \E w \in Workloads :
        \/ \E p \in HostPorts : RunPod(w, p)
        \/ AddFails(w)
        \/ \E pair \in IPPairs : AllocIPs(w, pair)
        \/ AllocVethPair(w)
        \/ AddFullMatchRoute(w)
        \/ AddDNATTarget(w)
        \/ AddNetData(w)
        \/ CreateListeners(w)
        \/ WorkloadFails(w)
        \/ RemoveWorkload(w)
        \/ CallDel(w)
        \/ RemoveSandbox(w)
        \/ GetVethPair(w)
        \/ DelFullMatchRoute(w)
        \/ DeleteListeners(w)
        \/ DelMapEntries(w)
        \/ DeallocVethPair(w)
        \/ DeallocIPs(w)
=============================================================================
