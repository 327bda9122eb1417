------------------------------ MODULE Datapath ------------------------------
(* The eBPF programs of internal/datapath/bpf, as operators on packets and  *)
(* map contents: dnat, snat, arp, ctr_peer_egress, host_peer_egress and     *)
(* getsockopt.  A program takes the packet and the maps it reads and        *)
(* returns a verdict [act, dev, pkt] (ctr_peer_egress is split into its     *)
(* verdict and the original_dst_map it leaves).                             *)
(*                                                                          *)
(* Byte order is kept.  A 32-bit word is the tuple of its four bytes as     *)
(* they lie in memory on the little-endian build (bpfel): a word loaded     *)
(* from the packet is the tuple of its octets, bpf_htonl reverses it.  A    *)
(* port on the wire is a pair of bytes, a port in a map key is a number.    *)
EXTENDS Integers, Sequences

CONSTANTS HostPeerMAC,   \* the address configured on every host-side peer
          NoEntry        \* what bpf_map_lookup_elem gives for a missing key

uint16 == 0..65535
Bytes == 0..255
Octets == Bytes \X Bytes \X Bytes \X Bytes

IPPROTO_TCP    == 6
IPPROTO_UDP    == 17
IPPROTO_ICMP   == 1
MC_SERVER_PORT == 25565
TPROXY_HTTP_PORT == 9080
TPROXY_DNS_PORT  == 9053
TPROXY_TCP_PORT  == 9111
DPORT_DNS  == 53
DPORT_HTTP == 80
UDP_SPORT_OFF == 34      \* 14 bytes of ethernet, 20 of IP, source port first

bpf_htonl(w) == <<w[4], w[3], w[2], w[1]>>
bpf_ntohl(w) == bpf_htonl(w)
bpf_htons(n) == <<n \div 256, n % 256>>
bpf_ntohs(b) == 256 * b[1] + b[2]

(* An IP packet.  "short" packets end before the IP header does.  ipsum and *)
(* l4sum say whether the checksums agree with what they cover; "partial"    *)
(* packets come from a local socket and their transport checksum is filled  *)
(* in after the programs ran.  payload says whether the payload is intact.  *)
IPPacket(smac, dmac, saddr, daddr, proto, sport, dport, partial) ==
    [protocol |-> "IP", short |-> FALSE, h_source |-> smac, h_dest |-> dmac,
     saddr |-> saddr, daddr |-> daddr, proto |-> proto,
     sport |-> sport, dport |-> dport,
     ipsum |-> TRUE, l4sum |-> TRUE, partial |-> partial, payload |-> TRUE]

Sound(p) == p.ipsum /\ p.l4sum /\ p.payload

ARPPacket(smac, dmac, op, sha, sip, tha, tip) ==
    [protocol |-> "ARP", short |-> FALSE, h_source |-> smac, h_dest |-> dmac,
     op |-> op, sha |-> sha, sip |-> sip, tha |-> tha, tip |-> tip]

Verdict(act, p) == [act |-> act, dev |-> 0, pkt |-> p]
Redirect(act, dev, p) == [act |-> act, dev |-> dev, pkt |-> p]

(* The kernel's checksum helpers add the difference of the two values to    *)
(* the field at the offset of "proto".  At the offset of the packet's own   *)
(* protocol this keeps the sum valid; at another offset the sum stays valid *)
(* too (a payload word changes by the opposite amount) and the payload is   *)
(* corrupted.  A port is no part of a partial sum and the helper then does  *)
(* nothing.                                                                 *)
HasPseudoHeader(proto) == proto \in {IPPROTO_TCP, IPPROTO_UDP}

rewrite_ip_addr(p, field, new, proto) ==
    LET changed == new # p[field]
        summed  == HasPseudoHeader(proto)
    IN  [p EXCEPT ![field]  = new,
                  !.l4sum   = @ /\ (changed => (summed <=> HasPseudoHeader(p.proto))),
                  !.payload = @ /\ (changed /\ summed => proto = p.proto)]

rewrite_port(p, field, new, proto) ==
    LET changed == new # p[field] /\ ~p.partial
        summed  == HasPseudoHeader(proto)
    IN  [p EXCEPT ![field]  = new,
                  !.l4sum   = @ /\ (changed => summed),
                  !.payload = @ /\ (changed /\ summed => proto = p.proto)]

(* bpf_skb_load_bytes zeroes its buffer when the packet is too short. *)
LoadPort(p, field) == IF p.short THEN <<0, 0>> ELSE p[field]

get_port(p, field, proto) ==
    IF HasPseudoHeader(proto) THEN LoadPort(p, field) ELSE <<0, 0>>

Lookup(map, key) == IF key \in DOMAIN map THEN map[key] ELSE NoEntry

(***************************************************************************)
(* dnat.c, on the ingress of the internet-facing interface.                *)
(***************************************************************************)
DnatRewrite(p, tgt) ==
    rewrite_port(
        rewrite_ip_addr([p EXCEPT !.h_dest = tgt.mac_addr],
                        "daddr", bpf_htonl(tgt.ip_addr), IPPROTO_TCP),
        "dport", bpf_htons(MC_SERVER_PORT), IPPROTO_TCP)

dnat(p, ptp_dnat_targets) ==
    LET tgt == Lookup(ptp_dnat_targets, bpf_ntohs(LoadPort(p, "dport")))
    IN  IF p.protocol # "IP" \/ tgt = NoEntry \/ p.short
        THEN Verdict("OK", p)
        ELSE Redirect("PEER", tgt.iface_idx, DnatRewrite(p, tgt))

(***************************************************************************)
(* snat.c and arp.c, both on the ingress of the host-side peer.            *)
(***************************************************************************)
(* Mutant of SnatRewrite: the port is left in the order of the host. *)
SnatHostOrder(p, entry, nd) ==
    rewrite_port(rewrite_ip_addr(p, "saddr", bpf_htonl(entry.ip_addr), IPPROTO_TCP),
                 "sport", <<nd.host_port % 256, nd.host_port \div 256>>, IPPROTO_TCP)

SnatRewrite(p, entry, nd) ==
    rewrite_port(rewrite_ip_addr(p, "saddr", bpf_htonl(entry.ip_addr), IPPROTO_TCP),
                 "sport", bpf_htons(nd.host_port), IPPROTO_TCP)

snat(p, ptp_snat_config, net_data_map) ==
    LET nd == Lookup(net_data_map, bpf_ntohl(p.saddr))
    IN  CASE p.protocol # "IP" -> Verdict("UNSPEC", p)
          [] p.protocol = "IP" /\ p.short -> Verdict("SHOT", p)
          [] OTHER ->
             IF \/ p.proto # IPPROTO_TCP
                \/ get_port(p, "sport", p.proto) # bpf_htons(MC_SERVER_PORT)
                \/ ptp_snat_config = NoEntry
                \/ nd = NoEntry
             THEN Verdict("OK", p)
             ELSE Redirect("NEIGH", ptp_snat_config.iface_idx,
                           SnatRewrite(p, ptp_snat_config, nd))

(* The ethernet addresses are turned round before the operation is looked at. *)
arp(p, ifindex) ==
    LET back == [p EXCEPT !.h_dest = p.h_source, !.h_source = HostPeerMAC]
    IN  CASE p.protocol # "ARP" -> Verdict("UNSPEC", p)
          [] p.protocol = "ARP" /\ p.short -> Verdict("OK", p)
          [] OTHER ->
             IF p.op # "REQUEST" THEN Verdict("OK", back)
             ELSE Redirect("DEV", ifindex,
                           [back EXCEPT !.op = "REPLY", !.sha = HostPeerMAC,
                                        !.tha = p.h_source,
                                        !.sip = p.tip, !.tip = p.sip])

(* Both programs are attached to the host-side peer; UNSPEC passes the      *)
(* packet on to the other one.                                              *)
HostPeerIngress(p, ifindex, ptp_snat_config, net_data_map) ==
    LET r == snat(p, ptp_snat_config, net_data_map)
    IN  IF r.act = "UNSPEC" THEN arp(p, ifindex) ELSE r

(***************************************************************************)
(* tproxy.c.  The key of original_dst_map is computed from 32-bit operands *)
(* and only then widened to 64 bits: << shifts within the four bytes.  The *)
(* three operands of | share no byte, so | is the sum of their bytes.      *)
(***************************************************************************)
Shl(w, bytes) == [i \in 1..4 |-> IF i > bytes THEN w[i - bytes] ELSE 0]

(* Mutant of Key: the protocol is left out. *)
KeyWithoutProto(addr, port, proto) ==
    LET a == Shl(addr, 3)
        b == Shl(<<port[1], port[2], 0, 0>>, 1)
    IN  [i \in 1..4 |-> a[i] + b[i]]

Key(addr, port, proto) ==
    LET a == Shl(addr, 3)
        b == Shl(<<port[1], port[2], 0, 0>>, 1)
        c == <<proto, 0, 0, 0>>
    IN  [i \in 1..4 |-> a[i] + b[i] + c[i]]

(* Mutant of RewriteToProxy: DNS is rewritten as TCP, like the others. *)
RewriteAllAsTCP(p) ==
    CASE p.dport = bpf_htons(DPORT_DNS) ->
             rewrite_port(p, "dport", bpf_htons(TPROXY_DNS_PORT), IPPROTO_TCP)
      [] p.dport = bpf_htons(DPORT_HTTP) ->
             rewrite_port(p, "dport", bpf_htons(TPROXY_HTTP_PORT), IPPROTO_TCP)
      [] OTHER ->
             rewrite_port(p, "dport", bpf_htons(TPROXY_TCP_PORT), IPPROTO_TCP)

(* The listener of the transparent proxy a destination port is sent to. *)
RewriteToProxy(p) ==
    CASE p.dport = bpf_htons(DPORT_DNS) ->
             rewrite_port(p, "dport", bpf_htons(TPROXY_DNS_PORT), p.proto)
      [] p.dport = bpf_htons(DPORT_HTTP) ->
             rewrite_port(p, "dport", bpf_htons(TPROXY_HTTP_PORT), IPPROTO_TCP)
      [] OTHER ->
             rewrite_port(p, "dport", bpf_htons(TPROXY_TCP_PORT), IPPROTO_TCP)

(* Packets ctr_peer_egress hands to the proxy, as opposed to the ones it    *)
(* lets through or drops.                                                   *)
Proxied(p, ifindex, veth_pair_map) ==
    /\ p.protocol = "IP"
    /\ ~p.short
    /\ HasPseudoHeader(p.proto)
    /\ get_port(p, "sport", p.proto) # bpf_htons(MC_SERVER_PORT)
    /\ Lookup(veth_pair_map, ifindex) # NoEntry

ctr_peer_egress(p, ifindex, veth_pair_map) ==
    IF Proxied(p, ifindex, veth_pair_map)
    THEN Verdict("OK", RewriteToProxy(rewrite_ip_addr(p, "daddr",
                          bpf_htonl(veth_pair_map[ifindex].host_if_addr), p.proto)))
    ELSE IF \/ p.protocol # "IP"
            \/ p.short
            \/ HasPseudoHeader(p.proto) /\ p.sport = bpf_htons(MC_SERVER_PORT)
         THEN Verdict("OK", p)
         ELSE Verdict("SHOT", p)

OriginalDst(p) == [ip_addr |-> p.daddr, port |-> p.dport]

EgressKey(p, ifindex, veth_pair_map) ==
    Key(bpf_htonl(veth_pair_map[ifindex].host_if_addr), p.sport, p.proto)

host_peer_egress(p, original_dst_map) ==
    LET e == Lookup(original_dst_map,
                    Key(p.daddr, get_port(p, "dport", p.proto), p.proto))
    IN  CASE p.protocol # "IP" -> Verdict("OK", p)
          [] p.protocol = "IP" /\ p.short -> Verdict("OK", p)
          [] OTHER ->
             IF e = NoEntry THEN Verdict("SHOT", p)
             ELSE Verdict("OK", rewrite_port(
                      rewrite_ip_addr(p, "saddr", e.ip_addr, p.proto),
                      "sport", e.port, UDP_SPORT_OFF))

(* SO_ORIGINAL_DST as the proxy reads it on a connection accepted from      *)
(* (dst_ip4, dst_port): the entry, or NoEntry where the program fails the   *)
(* call.                                                                    *)
getsockopt(dst_ip4, dst_port, proto, original_dst_map) ==
    Lookup(original_dst_map, Key(dst_ip4, dst_port, proto))
=============================================================================
