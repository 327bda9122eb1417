------------------------------ MODULE Network ------------------------------
(* One node's network: the BPF programs of Datapath working on the maps     *)
(* that Netglue fills and empties, under traffic of clients and of pods.    *)
(* Programs that change no map are functions of the current state, so what  *)
(* becomes of a packet is stated as an invariant; ctr_peer_egress records   *)
(* the original destination of what it redirects and is an action.          *)
EXTENDS Netglue

CONSTANTS NodeIP, NodeIface,     \* ptp_snat_config, set once at the start
          Client, ClientPort,    \* a player's address and port
          Destinations,          \* outside addresses the pods talk to
          DestPorts, PodPorts,   \* their ports, and source ports of the pods
          Protocols,             \* transport protocols the pods use
          Traffic,               \* what pods send while the node is running
          OriginalDstEntries,    \* bound: max_entries of original_dst_map
          MaxFlows               \* bound: flows of the pods to the proxy

ASSUME NetworkAssumption ==
    /\ ClientPort \in 0..65535
    /\ DestPorts \cup PodPorts \subseteq 0..65535
    /\ Traffic \subseteq [proto : Protocols, sport : PodPorts, dst : Destinations, dport : DestPorts]
    /\ OriginalDstEntries \in Nat \ {0}
    /\ MaxFlows \in Nat

(* The ranges of dev/cni/00-netglue.conflist.  tproxy.c writes an entry     *)
(* under the address of the host-side peer and reads it under the pod's, of *)
(* which the key keeps the first octet.                                     *)
ASSUME RangesAssumption == \A i \in IPPairs : i.host[1] = i.pod[1]

VARIABLES original_dst_map,
          flows,                 \* history: what the pods have sent to the proxy
          evicted,               \* history: keys original_dst_map has given up
          worked                 \* history: <<v, p, a>> where DEL of v worked on
                                 \* host port p and pod address a

vars == <<glueVars, original_dst_map, flows, evicted, worked>>

ptp_snat_config == [ip_addr |-> ipToInt(NodeIP), iface_idx |-> NodeIface]

NetInit ==
    /\ Init
    /\ original_dst_map = EmptyMap
    /\ flows = {}
    /\ evicted = {}
    /\ worked = {}

(* A pod whose containers run: the runtime stops them before it calls DEL. *)
Alive(w) == pc[w] = "up" /\ veth[w] \in links

(* A packet from the pod's IP stack: partial when its device fills in the   *)
(* checksum, complete when the stack has computed it.                       *)
PodPacket(w, proto, sport, dst, dport, partial) ==
    IPPacket(veth[w].mac, HostPeerMAC, veth[w].pod_addr, dst, proto,
             bpf_htons(sport), bpf_htons(dport), partial)

(* bpf_map_update_elem on an LRU map: a full map gives up one of its keys. *)
LRUPut(map, key, value) ==
    IF Full(map, key, OriginalDstEntries)
    THEN {Put(Drop(map, {k}), key, value) : k \in DOMAIN map}
    ELSE {Put(map, key, value)}

(* A pod sends a packet that ctr_peer_egress redirects to the proxy. *)
PodSends(w, proto, sport, dst, dport) ==
    LET p   == PodPacket(w, proto, sport, dst, dport, TRUE)
        key == EgressKey(p, veth[w].pod_index, veth_pair_map)
    IN  /\ Alive(w)
        /\ Proxied(p, veth[w].pod_index, veth_pair_map)
        /\ original_dst_map' \in LRUPut(original_dst_map, key, OriginalDst(p))
        /\ evicted' = (evicted \cup (DOMAIN original_dst_map \ DOMAIN original_dst_map'))
                      \ {key}
        /\ flows' = flows \cup {[veth |-> veth[w], pkt |-> p]}
        /\ Cardinality(flows') <= MaxFlows
        /\ UNCHANGED <<glueVars, worked>>

NetNext ==
    \/ /\ GlueNext
       /\ worked' = worked \cup {<<v, delPort'[v], delVeth'[v].pod_addr>> :
                                   v \in {u \in Workloads : pc'[u] = "route"}}
       /\ UNCHANGED <<original_dst_map, flows, evicted>>
    \/ \E w \in Workloads, t \in Traffic : PodSends(w, t.proto, t.sport, t.dst, t.dport)

NetSpec == NetInit /\ [][NetNext]_vars

-----------------------------------------------------------------------------
Used == HostPorts \cup {d.host_port : d \in StalePods}

(* Type invariant: leases, links and routes refer to address pairs of the   *)
(* pool, the listeners of a workload are on the host-side address of a      *)
(* pair, and map keys stay within what the code can compute.                *)
TypeOK ==
    /\ port \in [Workloads -> HostPorts \cup {NoPort}]
    /\ allocated \subseteq HostPorts
    /\ ips \in [Workloads -> IPPairs \cup {NoEntry}]
    /\ leaked \subseteq IPPairs
    /\ DOMAIN routes \subseteq {i.pod : i \in IPPairs}
    /\ DOMAIN listeners \subseteq Workloads
    /\ \A w \in DOMAIN listeners : \E i \in IPPairs : listeners[w] = WorkloadListeners(i.host)
    /\ errs \in [Workloads -> SUBSET {"route", "listeners", "maps", "link", "lease"}]
    /\ DOMAIN ptp_dnat_targets \subseteq Used
    /\ DOMAIN net_data_map \subseteq
           {uint32(p) : p \in Used} \cup {ipToInt(i.pod) : i \in IPPairs}
           \cup {ipToInt(d.veth.pod_addr) : d \in StalePods}

(* ExecDel of another workload has worked on the host port of w, which was  *)
(* freed before that DEL, or on the pod address of w, which a failed ADD    *)
(* had given back before that DEL.                                          *)
WorkedOnByOther(w) ==
    \E k \in worked : k[1] # w /\ (k[2] = port[w] \/ k[3] = veth[w].pod_addr)

(* What a player sends to the port of w. *)
ClientPacket(w) ==
    IPPacket("gateway", "nic", Client, NodeIP, IPPROTO_TCP,
             bpf_htons(ClientPort), bpf_htons(port[w]), FALSE)

(* The server's answer to packet q. *)
ServerReply(w, q) ==
    IPPacket(veth[w].mac, HostPeerMAC, q.daddr, q.saddr, IPPROTO_TCP, q.dport, q.sport, TRUE)

(* The player's packet reaches the server's socket in the pod, and the      *)
(* server's answer reaches the player, from the address and port the player *)
(* had sent to.                                                             *)
Reachable(w) ==
    LET in    == dnat(ClientPacket(w), ptp_dnat_targets)
        reply == ServerReply(w, in.pkt)
        ctr   == ctr_peer_egress(reply, veth[w].pod_index, veth_pair_map)
        out   == HostPeerIngress(ctr.pkt, veth[w].host_index, ptp_snat_config, net_data_map)
    IN  /\ veth[w] \in links
        /\ in.act = "PEER" /\ in.dev = veth[w].host_index
        /\ in.pkt.h_dest = veth[w].mac /\ in.pkt.daddr = veth[w].pod_addr
        /\ in.pkt.dport = bpf_htons(MC_SERVER_PORT)
        /\ Sound(in.pkt)
        /\ ctr.act = "OK" /\ out.act = "NEIGH" /\ out.dev = NodeIface
        /\ out.pkt.saddr = NodeIP /\ out.pkt.sport = bpf_htons(port[w])
        /\ out.pkt.daddr = Client /\ out.pkt.dport = bpf_htons(ClientPort)
        /\ Sound(out.pkt)

(* As the datapath's README has it: packets for the port of a running       *)
(* server reach that server.                                                *)
ServersReachable == \A w \in Workloads : pc[w] = "up" => Reachable(w)

(* What holds of it: a running server is reachable and its answers come     *)
(* from the dialled address, unless netglue DEL of another workload worked  *)
(* on the same host port or address or the index does not fit a byte.       *)
ServersReachableUnlessPortReused ==
    \A w \in Workloads :
        pc[w] = "up" => \/ Reachable(w)
                        \/ WorkedOnByOther(w)
                        \/ veth[w].host_index > 255

(* The listener for a destination port. *)
ProxyPort(dport) ==
    CASE dport = 53 -> TPROXY_DNS_PORT [] dport = 80 -> TPROXY_HTTP_PORT [] OTHER -> TPROXY_TCP_PORT

(* The pod learns the address of the host-side peer for any destination. *)
ArpAnswered(w, dst) ==
    LET ask == ARPPacket(veth[w].mac, "broadcast", "REQUEST",
                         veth[w].mac, veth[w].pod_addr, "none", dst)
        ans == HostPeerIngress(ask, veth[w].host_index, ptp_snat_config, net_data_map)
    IN  /\ ans.act = "DEV" /\ ans.dev = veth[w].host_index
        /\ ans.pkt.op = "REPLY" /\ ans.pkt.sha = HostPeerMAC /\ ans.pkt.sip = dst
        /\ ans.pkt.h_dest = veth[w].mac /\ ans.pkt.tip = veth[w].pod_addr

(* What the proxy takes: TCP to any port, UDP only to the port of DNS. *)
Taken(proto, dport) == proto = IPPROTO_TCP \/ dport = DPORT_DNS

(* A packet of w never leaves its own host-side peer.  One the proxy takes  *)
(* arrives intact at the listener for its port, which is a listener of w;   *)
(* UDP to other ports meets no listener, and is intact only as long as its  *)
(* checksum is still to be filled in (tproxy.c:140-145).                    *)
ReachesProxy(w, proto, sport, dst, dport, partial) ==
    LET out    == ctr_peer_egress(PodPacket(w, proto, sport, dst, dport, partial),
                                  veth[w].pod_index, veth_pair_map)
        socket == <<out.pkt.daddr, bpf_ntohs(out.pkt.dport), proto>>
    IN  /\ out.act = "OK"
        /\ out.pkt.daddr = veth[w].host_addr
        /\ bpf_ntohs(out.pkt.dport) = ProxyPort(dport)
        /\ (w \in DOMAIN listeners /\ socket \in listeners[w]) <=> Taken(proto, dport)
        /\ Sound(out.pkt) <=> (Taken(proto, dport) \/ partial)

(* Outgoing traffic of a running server: its ARP request is answered with   *)
(* the address of the host-side peer, and its packets go to its own         *)
(* listeners of the transparent proxy, by destination port and protocol     *)
(* (tproxy.c:74-148, proxy/service.go:53-88).  Port 25565 of another host   *)
(* is one like any other: only by source port is traffic let through        *)
(* (tproxy.c:95-97; the README of the datapath has the destination port).   *)
EgressReachesOwnProxy ==
    \A w \in Workloads :
        pc[w] = "up" =>
            \/ WorkedOnByOther(w)
            \/ \A dst \in Destinations :
                  /\ ArpAnswered(w, dst)
                  /\ \A proto \in Protocols, sport \in PodPorts, dport \in DestPorts,
                        partial \in BOOLEAN :
                        ReachesProxy(w, proto, sport, dst, dport, partial)

(* The answer of the proxy, a process of the host, to what a pod sent in f. *)
ProxyReply(f) ==
    IPPacket("host", f.veth.mac, f.veth.host_addr, f.veth.pod_addr, f.pkt.proto,
             bpf_htons(ProxyPort(bpf_ntohs(f.pkt.dport))), f.pkt.sport, TRUE)

(* The proxy reads the destination of f, and its answer is let through and  *)
(* comes, for the pod, from there.                                          *)
RestoresDestination(f) ==
    LET answer == host_peer_egress(ProxyReply(f), original_dst_map)
    IN  /\ getsockopt(f.veth.pod_addr, f.pkt.sport, f.pkt.proto, original_dst_map)
               = OriginalDst(f.pkt)
        /\ answer.act = "OK"
        /\ answer.pkt.saddr = f.pkt.daddr /\ answer.pkt.sport = f.pkt.dport
        /\ Sound(answer.pkt)

(* The full map has given up the entry under which f was recorded. *)
Evicted(f) == Key(bpf_htonl(ipToInt(f.veth.host_addr)), f.pkt.sport, f.pkt.proto) \in evicted

(* As the proxy's configuration has it: traffic of a container is routed    *)
(* to where the container sent it.  (Entries the LRU map has given up, and  *)
(* a source port that one pod itself uses for two destinations, are left    *)
(* out.)                                                                    *)
ProxyRestoresDestination ==
    \A f \in flows :
        \/ RestoresDestination(f)
        \/ Evicted(f)
        \/ \E g \in flows \ {f} : g.veth = f.veth /\ g.pkt.sport = f.pkt.sport

SharesPort(f) == \E g \in flows \ {f} : g.pkt.sport = f.pkt.sport /\ g.pkt.proto = f.pkt.proto

(* What holds of it: the proxy finds the original destination of a flow,    *)
(* and the pod gets its answers from there, unless the full map has given   *)
(* the entry up or another flow of any pod has used the same source port:   *)
(* of the pod's address the key keeps the first octet (tproxy.c:123).       *)
UnsharedFlowsRestored ==
    \A f \in flows : SharesPort(f) \/ Evicted(f) \/ RestoresDestination(f)

(* The maps hold nothing of the pod of w. *)
OutOfMaps(w) ==
    /\ \A k \in DOMAIN net_data_map : net_data_map[k].veth # veth[w]
    /\ \A k \in DOMAIN ptp_dnat_targets : ptp_dnat_targets[k].mac_addr # veth[w].mac
    /\ {veth[w].host_index, veth[w].pod_index} \cap DOMAIN veth_pair_map = {}

(* A DEL that found the pod's own veth pair leaves nothing of the pod       *)
(* behind (cni.go:173-236).  A step that fails and is only logged leaves    *)
(* its own part and no other, and the map entries go unless DEL of another  *)
(* workload worked on the same host port or address, or ADD itself was      *)
(* stopped between two entries by a full map (handler.go:265-285).          *)
DelUndoesAdd ==
    \A w \in Workloads :
        pc[w] = "deleted" /\ veth[w] # NoEntry /\ delVeth[w] = veth[w] =>
            /\ "link" \in errs[w] \/ veth[w] \notin links
            /\ {"route", "link"} \subseteq errs[w] \/ Via(veth[w].host_index) = {}
            /\ "lease" \in errs[w] \/ ips[w] = NoEntry
            /\ "listeners" \in errs[w] \/ w \notin DOMAIN listeners
            /\ \/ OutOfMaps(w)
               \/ WorkedOnByOther(w)
               \/ w \in addFailed /\ "maps" \in errs[w]
=============================================================================
