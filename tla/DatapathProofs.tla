--------------------------- MODULE DatapathProofs ---------------------------
(* What the BPF programs of Datapath do to a packet, proved for every       *)
(* packet and every content of the maps they read.                          *)
EXTENDS Datapath, TLAPS

(* Leaves are for Zenon unless they name SMT. *)
USE Zenon

LEMMA OctetsAre ==
    ASSUME NEW a \in Octets
    PROVE  a = <<a[1], a[2], a[3], a[4]>> /\ \A i \in {1, 2, 3, 4} : a[i] \in Bytes
BY SMT DEF Octets, Bytes

LEMMA AreOctets ==
    ASSUME NEW b, NEW c, NEW d, NEW e, {b, c, d, e} \subseteq Bytes
    PROVE  <<b, c, d, e>> \in Octets
BY SMT DEF Octets, Bytes

LEMMA Htonl == ASSUME NEW a \in Octets PROVE bpf_htonl(bpf_htonl(a)) = a /\ bpf_htonl(a) \in Octets
<1>1. a = <<a[1], a[2], a[3], a[4]>> /\ {a[1], a[2], a[3], a[4]} \subseteq Bytes
  BY OctetsAre, SMT
<1>2. bpf_htonl(a) \in Octets
  BY <1>1, AreOctets, SMT DEF bpf_htonl
<1>3. \A b, c, d, e : bpf_htonl(<<b, c, d, e>>) = <<e, d, c, b>>
  BY SMT DEF bpf_htonl
<1>4. bpf_htonl(a) = <<a[4], a[3], a[2], a[1]>>
  BY DEF bpf_htonl
<1>5. bpf_htonl(<<a[4], a[3], a[2], a[1]>>) = <<a[1], a[2], a[3], a[4]>>
  BY <1>3
<1>. QED
  BY <1>1, <1>2, <1>4, <1>5

LEMMA PortIs == ASSUME NEW n \in uint16 PROVE n \in Nat /\ n < 256 * 256
BY SMT DEF uint16

LEMMA Htons == ASSUME NEW n \in uint16 PROVE bpf_ntohs(bpf_htons(n)) = n
<1>1. n \in Nat
  BY PortIs
<1>. QED
  BY <1>1, SMT DEF bpf_ntohs, bpf_htons

LEMMA HtonsBytes == ASSUME NEW n \in uint16 PROVE bpf_htons(n) \in Bytes \X Bytes
<1> DEFINE high == n \div 256
           low  == n % 256
<1>1. n \in Nat /\ n < 256 * 256
  BY PortIs
<1>2. high \in Int /\ low \in Bytes /\ n = 256 * high + low
  BY <1>1, SMT DEF Bytes
<1> HIDE DEF high, low
<1>3. high \in Bytes
  BY <1>1, <1>2, SMT DEF Bytes
<1>. QED
  BY <1>2, <1>3 DEF bpf_htons, high, low

LEMMA NamedPorts == {MC_SERVER_PORT, DPORT_DNS, DPORT_HTTP, 53, 80} \subseteq uint16
BY SMT DEF MC_SERVER_PORT, DPORT_DNS, DPORT_HTTP, uint16

(* The key of original_dst_map holds the port and the protocol in full. *)
LEMMA KeyBytes ==
    ASSUME NEW a, a[1] \in Nat, NEW p \in Bytes \X Bytes, NEW x \in Nat
    PROVE  Key(a, p, x)[1] = x /\ Key(a, p, x)[2] = p[1] /\ Key(a, p, x)[3] = p[2]
BY SMT DEF Key, Shl, Bytes

LEMMA FlowKey ==
    ASSUME NEW a \in Octets, NEW p \in Bytes \X Bytes, NEW x, HasPseudoHeader(x)
    PROVE  Key(a, p, x)[1] = x /\ Key(a, p, x)[2] = p[1] /\ Key(a, p, x)[3] = p[2]
<1>1. a[1] \in Bytes
  BY OctetsAre
<1>2. a[1] \in Nat
  BY <1>1, SMT DEF Bytes
<1>3. x \in Nat
  BY SMT DEF HasPseudoHeader, IPPROTO_TCP, IPPROTO_UDP
<1>. QED
  BY <1>2, <1>3, KeyBytes, SMT

-----------------------------------------------------------------------------
(* Packets and the two rewriting helpers. *)
Fields == {"protocol", "short", "h_source", "h_dest", "saddr", "daddr", "proto", "sport", "dport",
           "ipsum", "l4sum", "partial", "payload"}
AddrFields == {"saddr", "daddr"}
PortFields == {"sport", "dport"}
IPFull(p) == DOMAIN p = Fields /\ p.protocol = "IP" /\ p.short = FALSE

(* A packet that differs from p in the given fields only, and is as sound. *)
Rewritten(q, p, fields) ==
    /\ IPFull(q) /\ Sound(q)
    /\ \A f \in Fields \ (fields \cup {"l4sum", "payload"}) : q[f] = p[f]

IsProto(p, proto) == p.proto = proto

(* The transport sum is of the given protocol or is filled in later. *)
SumFollows(p, proto) == p.partial = TRUE \/ (proto = p.proto /\ HasPseudoHeader(proto))

LEMMA PacketFields ==
    ASSUME NEW s, NEW d, NEW sa, NEW da, NEW pr, NEW sp, NEW dp, NEW part
    PROVE  LET p == IPPacket(s, d, sa, da, pr, sp, dp, part)
           IN  /\ IPFull(p) /\ Sound(p)
               /\ p.h_source = s /\ p.h_dest = d /\ p.saddr = sa /\ p.daddr = da /\ p.proto = pr
               /\ p.sport = sp /\ p.dport = dp /\ p.partial = part
BY DEF IPPacket, Fields, IPFull, Sound

LEMMA RewriteAddr ==
    ASSUME NEW p, NEW field \in AddrFields, NEW new, IPFull(p), Sound(p)
    PROVE  /\ rewrite_ip_addr(p, field, new, p.proto)[field] = new
           /\ Rewritten(rewrite_ip_addr(p, field, new, p.proto), p, {field})
<1> DEFINE q == rewrite_ip_addr(p, field, new, p.proto)
<1>1. DOMAIN q = Fields /\ q[field] = new
  BY DEF rewrite_ip_addr, AddrFields, Fields, IPFull
<1>2. \A f \in Fields \ {field, "l4sum", "payload"} : q[f] = p[f]
  BY DEF rewrite_ip_addr, AddrFields, Fields, IPFull
<1>3. Sound(q)
  BY DEF rewrite_ip_addr, AddrFields, Fields, IPFull, Sound
<1>4. q.protocol = "IP" /\ q.short = FALSE
  BY <1>2 DEF Fields, IPFull, AddrFields, PortFields
<1> HIDE DEF q
<1>5. q[field] = new /\ Rewritten(q, p, {field})
  BY <1>1, <1>2, <1>3, <1>4 DEF Rewritten, IPFull
<1>. QED
  BY <1>5 DEF q

LEMMA RewritePort ==
    ASSUME NEW p, NEW field \in PortFields, NEW new, NEW proto, IPFull(p), Sound(p),
           SumFollows(p, proto)
    PROVE  /\ rewrite_port(p, field, new, proto)[field] = new
           /\ Rewritten(rewrite_port(p, field, new, proto), p, {field})
<1> DEFINE q == rewrite_port(p, field, new, proto)
<1>1. DOMAIN q = Fields /\ q[field] = new
  BY DEF rewrite_port, PortFields, Fields, IPFull
<1>2. \A f \in Fields \ {field, "l4sum", "payload"} : q[f] = p[f]
  BY DEF rewrite_port, PortFields, Fields, IPFull
<1>3. Sound(q)
  BY DEF rewrite_port, PortFields, Fields, IPFull, Sound, SumFollows
<1>4. q.protocol = "IP" /\ q.short = FALSE
  BY <1>2 DEF Fields, IPFull, AddrFields, PortFields
<1> HIDE DEF q
<1>5. q[field] = new /\ Rewritten(q, p, {field})
  BY <1>1, <1>2, <1>3, <1>4 DEF Rewritten, IPFull
<1>. QED
  BY <1>5 DEF q

(* An address and then a port, the way all four programs do it. *)
LEMMA RewriteBoth ==
    ASSUME NEW p, NEW addr \in AddrFields, NEW new1,
           NEW port \in PortFields, NEW new2, NEW own, NEW proto,
           IPFull(p), Sound(p), IsProto(p, own), SumFollows(p, proto)
    PROVE  LET q == rewrite_port(rewrite_ip_addr(p, addr, new1, own), port, new2, proto)
           IN  q[addr] = new1 /\ q[port] = new2 /\ Rewritten(q, p, {addr, port})
<1> DEFINE r == rewrite_ip_addr(p, addr, new1, own)
           q == rewrite_port(r, port, new2, proto)
<1>0. r = rewrite_ip_addr(p, addr, new1, p.proto)
  BY DEF IsProto
<1> HIDE DEF r
<1>1. r[addr] = new1 /\ Rewritten(r, p, {addr})
  BY <1>0, RewriteAddr
<1>2. IPFull(r) /\ Sound(r) /\ r.partial = p.partial /\ r.proto = p.proto
  BY <1>1 DEF Rewritten, Fields, AddrFields
<1>3. q = rewrite_port(r, port, new2, proto)
  OBVIOUS
<1> HIDE DEF q
<1>4. q[port] = new2 /\ Rewritten(q, r, {port})
  <2>1. SumFollows(r, proto)
    BY <1>2 DEF SumFollows
  <2>2. IPFull(r) /\ Sound(r)
    BY <1>2
  <2>3. /\ rewrite_port(r, port, new2, proto)[port] = new2
        /\ Rewritten(rewrite_port(r, port, new2, proto), r, {port})
    BY <2>1, <2>2, RewritePort
  <2>. QED
    BY <1>3, <2>3
<1>5. q[addr] = r[addr]
  BY <1>4 DEF Rewritten, Fields, AddrFields, PortFields
<1>6. q[addr] = new1 /\ q[port] = new2 /\ Rewritten(q, p, {addr, port})
  BY <1>1, <1>4, <1>5 DEF Rewritten
<1>. QED
  BY <1>6 DEF q, r
-----------------------------------------------------------------------------
(* dnat (dnat.c:41-81): a TCP packet for a port in ptp_dnat_targets goes to *)
(* the target's interface with the target's addresses and the server's      *)
(* port, its source unchanged and its sums valid.                           *)
THEOREM DnatDelivers ==
    ASSUME NEW p, NEW n \in uint16, NEW targets,
           IPFull(p), Sound(p), p.proto = IPPROTO_TCP, p.dport = bpf_htons(n),
           n \in DOMAIN targets, targets[n] # NoEntry
    PROVE  LET r == dnat(p, targets)
           IN  /\ r.act = "PEER" /\ r.dev = targets[n].iface_idx
               /\ IPFull(r.pkt) /\ Sound(r.pkt) /\ r.pkt.proto = IPPROTO_TCP
               /\ r.pkt.h_dest = targets[n].mac_addr
               /\ r.pkt.daddr = bpf_htonl(targets[n].ip_addr)
               /\ r.pkt.dport = bpf_htons(MC_SERVER_PORT)
               /\ r.pkt.saddr = p.saddr /\ r.pkt.sport = p.sport
<1> DEFINE m == [p EXCEPT !.h_dest = targets[n].mac_addr]
           q == DnatRewrite(p, targets[n])
<1>1. /\ IPFull(m) /\ Sound(m) /\ m.proto = IPPROTO_TCP /\ m.h_dest = targets[n].mac_addr
      /\ m.saddr = p.saddr /\ m.sport = p.sport
  BY DEF IPFull, Sound, Fields
<1>2. q = rewrite_port(rewrite_ip_addr(m, "daddr", bpf_htonl(targets[n].ip_addr), IPPROTO_TCP),
                       "dport", bpf_htons(MC_SERVER_PORT), IPPROTO_TCP)
  BY DEF DnatRewrite
<1> HIDE DEF m, q
<1>3. /\ q["daddr"] = bpf_htonl(targets[n].ip_addr) /\ q["dport"] = bpf_htons(MC_SERVER_PORT)
      /\ Rewritten(q, m, {"daddr", "dport"})
  <2>1. "daddr" \in AddrFields /\ "dport" \in PortFields /\ SumFollows(m, IPPROTO_TCP)
        /\ IsProto(m, IPPROTO_TCP) /\ IPFull(m) /\ Sound(m)
    BY <1>1 DEF AddrFields, PortFields, IsProto, SumFollows, HasPseudoHeader
  <2>2. LET z == rewrite_port(rewrite_ip_addr(m, "daddr", bpf_htonl(targets[n].ip_addr), IPPROTO_TCP),
                              "dport", bpf_htons(MC_SERVER_PORT), IPPROTO_TCP)
        IN  /\ z["daddr"] = bpf_htonl(targets[n].ip_addr)
            /\ z["dport"] = bpf_htons(MC_SERVER_PORT)
            /\ Rewritten(z, m, {"daddr", "dport"})
    BY <2>1, RewriteBoth, SMT
  <2>. QED
    BY <1>2, <2>2
<1>4. /\ IPFull(q) /\ Sound(q) /\ q.proto = m.proto /\ q.h_dest = m.h_dest
      /\ q.saddr = m.saddr /\ q.sport = m.sport
  BY <1>3 DEF Rewritten, Fields
<1>5. Lookup(targets, bpf_ntohs(LoadPort(p, "dport"))) = targets[n]
  BY Htons DEF Lookup, LoadPort, IPFull
<1>6. dnat(p, targets) = Redirect("PEER", targets[n].iface_idx, q)
  BY <1>5 DEF dnat, IPFull, q
<1>. QED
  BY <1>1, <1>3, <1>4, <1>6, SMT DEF Redirect

(* snat, in front of arp on the host-side peer (snat.c:42-97): what a       *)
(* server sends from its port leaves the node from the node's address and   *)
(* the host port that net_data_map holds for the pod's address.             *)
THEOREM SnatRestores ==
    ASSUME NEW p, NEW ifindex, NEW config, NEW netdata,
           IPFull(p), Sound(p), p.proto = IPPROTO_TCP, p.sport = bpf_htons(MC_SERVER_PORT),
           config # NoEntry,
           bpf_ntohl(p.saddr) \in DOMAIN netdata, netdata[bpf_ntohl(p.saddr)] # NoEntry
    PROVE  LET r == HostPeerIngress(p, ifindex, config, netdata)
           IN  /\ r.act = "NEIGH" /\ r.dev = config.iface_idx
               /\ Sound(r.pkt)
               /\ r.pkt.saddr = bpf_htonl(config.ip_addr)
               /\ r.pkt.sport = bpf_htons(netdata[bpf_ntohl(p.saddr)].host_port)
               /\ r.pkt.daddr = p.daddr /\ r.pkt.dport = p.dport
<1> DEFINE nd == netdata[bpf_ntohl(p.saddr)]
           q  == SnatRewrite(p, config, nd)
<1>1. q = rewrite_port(rewrite_ip_addr(p, "saddr", bpf_htonl(config.ip_addr), IPPROTO_TCP),
                       "sport", bpf_htons(nd.host_port), IPPROTO_TCP)
  BY DEF SnatRewrite
<1>2. Lookup(netdata, bpf_ntohl(p.saddr)) = nd /\ nd # NoEntry
  BY DEF Lookup
<1>3. get_port(p, "sport", p.proto) = bpf_htons(MC_SERVER_PORT)
  BY DEF get_port, LoadPort, HasPseudoHeader, IPFull
<1> HIDE DEF nd, q
<1>4. /\ q["saddr"] = bpf_htonl(config.ip_addr) /\ q["sport"] = bpf_htons(nd.host_port)
      /\ Rewritten(q, p, {"saddr", "sport"})
  <2>1. "saddr" \in AddrFields /\ "sport" \in PortFields /\ SumFollows(p, IPPROTO_TCP)
        /\ IsProto(p, IPPROTO_TCP)
    BY DEF AddrFields, PortFields, IsProto, SumFollows, HasPseudoHeader
  <2>2. LET z == rewrite_port(rewrite_ip_addr(p, "saddr", bpf_htonl(config.ip_addr), IPPROTO_TCP),
                              "sport", bpf_htons(nd.host_port), IPPROTO_TCP)
        IN  /\ z["saddr"] = bpf_htonl(config.ip_addr) /\ z["sport"] = bpf_htons(nd.host_port)
            /\ Rewritten(z, p, {"saddr", "sport"})
    BY <2>1, RewriteBoth, SMT
  <2>. QED
    BY <1>1, <2>2
<1>5. Sound(q) /\ q.daddr = p.daddr /\ q.dport = p.dport
  BY <1>4 DEF Rewritten, Fields
<1>6. snat(p, config, netdata) = Redirect("NEIGH", config.iface_idx, q)
  <2>1. p.protocol = "IP" /\ ~p.short
    BY DEF IPFull
  <2>. QED
    BY <1>2, <1>3, <2>1, Zenon DEF snat, q
<1>7. HostPeerIngress(p, ifindex, config, netdata) = Redirect("NEIGH", config.iface_idx, q)
  BY <1>6, SMT DEF HostPeerIngress, Redirect
<1>. QED
  BY <1>4, <1>5, <1>7, SMT DEF Redirect, nd

(* arp (arp.c:14-58): a request of a pod is answered on the interface it    *)
(* came from, for whatever address, with the address of the host-side peer. *)
THEOREM ArpAnswers ==
    ASSUME NEW smac, NEW dmac, NEW sha, NEW sip, NEW tha, NEW tip,
           NEW ifindex, NEW config, NEW netdata
    PROVE  LET r == HostPeerIngress(ARPPacket(smac, dmac, "REQUEST", sha, sip, tha, tip),
                                    ifindex, config, netdata)
           IN  /\ r.act = "DEV" /\ r.dev = ifindex
               /\ r.pkt.op = "REPLY" /\ r.pkt.sha = HostPeerMAC /\ r.pkt.sip = tip
               /\ r.pkt.h_dest = smac /\ r.pkt.tip = sip
<1> DEFINE p == ARPPacket(smac, dmac, "REQUEST", sha, sip, tha, tip)
           back == [p EXCEPT !.h_dest = p.h_source, !.h_source = HostPeerMAC]
           q == [back EXCEPT !.op = "REPLY", !.sha = HostPeerMAC, !.tha = p.h_source,
                             !.sip = p.tip, !.tip = p.sip]
<1>1. /\ p.protocol = "ARP" /\ p.short = FALSE /\ p.op = "REQUEST"
      /\ p.h_source = smac /\ p.sip = sip /\ p.tip = tip
      /\ DOMAIN p = {"protocol", "short", "h_source", "h_dest", "op", "sha", "sip", "tha", "tip"}
  BY DEF ARPPacket
<1> HIDE DEF p
<1>2. DOMAIN back = DOMAIN p /\ back.h_dest = smac
  BY <1>1
<1>3. /\ q.op = "REPLY" /\ q.sha = HostPeerMAC /\ q.sip = tip /\ q.tip = sip /\ q.h_dest = smac
  <2> HIDE DEF back
  <2>. QED
    BY <1>1, <1>2
<1>4. arp(p, ifindex) = Redirect("DEV", ifindex, q)
  BY <1>1, Zenon DEF arp
<1>5. snat(p, config, netdata) = Verdict("UNSPEC", p)
  BY <1>1, Zenon DEF snat
<1> HIDE DEF q
<1>6. HostPeerIngress(p, ifindex, config, netdata) = Redirect("DEV", ifindex, q)
  BY <1>4, <1>5, SMT DEF HostPeerIngress, Verdict
<1>. QED
  BY <1>3, <1>6, SMT DEF Redirect, p

(* ctr_peer_egress (tproxy.c:68-147) leaves what the server sends from its  *)
(* port as it is.                                                           *)
THEOREM ServerPacketsPass ==
    ASSUME NEW p, NEW ifindex, NEW pairs,
           IPFull(p), HasPseudoHeader(p.proto), p.sport = bpf_htons(MC_SERVER_PORT)
    PROVE  ctr_peer_egress(p, ifindex, pairs) = Verdict("OK", p)
<1>1. ~Proxied(p, ifindex, pairs)
  BY DEF Proxied, get_port, LoadPort, IPFull
<1>. QED
  BY <1>1 DEF ctr_peer_egress

(* The port of the listener for traffic to port n. *)
Listener(n) ==
    IF n = 53 THEN TPROXY_DNS_PORT ELSE IF n = 80 THEN TPROXY_HTTP_PORT ELSE TPROXY_TCP_PORT

(* A packet to port n, not UDP other than DNS with its sum filled in. *)
SentTo(p, n) ==
    /\ p.dport = bpf_htons(n)
    /\ p.partial = TRUE \/ p.proto = IPPROTO_TCP \/ n = 53

(* The other case of ctr_peer_egress (tproxy.c:68-147): a TCP or UDP packet *)
(* of the pod that is not the server's goes to the proxy behind the veth    *)
(* pair, to the port for DNS, HTTP or other traffic by destination port,    *)
(* and its sums and payload stay valid.  UDP to a port other than 53 is     *)
(* rewritten as TCP (tproxy.c:140-145), so there the sum must still be to   *)
(* be filled in.                                                            *)
THEOREM EgressRedirected ==
    ASSUME NEW p, NEW n \in uint16, NEW ifindex, NEW pairs,
           IPFull(p), Sound(p), SentTo(p, n), Proxied(p, ifindex, pairs)
    PROVE  LET r == ctr_peer_egress(p, ifindex, pairs)
           IN  /\ r.act = "OK" /\ Sound(r.pkt)
               /\ r.pkt.daddr = bpf_htonl(pairs[ifindex].host_if_addr)
               /\ r.pkt.dport = bpf_htons(Listener(n))
<1> DEFINE new == bpf_htonl(pairs[ifindex].host_if_addr)
           m == rewrite_ip_addr(p, "daddr", new, p.proto)
           listener == bpf_htons(Listener(n))
           q == RewriteToProxy(m)
<1>1. "daddr" \in AddrFields /\ "dport" \in PortFields
  BY DEF AddrFields, PortFields
<1>2. m["daddr"] = new /\ Rewritten(m, p, {"daddr"})
  BY <1>1, RewriteAddr
<1> HIDE DEF new, m
<1>3. /\ IPFull(m) /\ Sound(m) /\ m.partial = p.partial /\ m.proto = p.proto
      /\ m.dport = bpf_htons(n) /\ HasPseudoHeader(m.proto)
      /\ m.partial = TRUE \/ m.proto = IPPROTO_TCP \/ n = 53
  BY <1>2 DEF Rewritten, Fields, SentTo, Proxied
<1>4. /\ bpf_htons(n) = bpf_htons(DPORT_DNS) <=> n = 53
      /\ bpf_htons(n) = bpf_htons(DPORT_HTTP) <=> n = 80
  BY Htons, NamedPorts, SMT DEF DPORT_DNS, DPORT_HTTP
<1>5. \E proto : q = rewrite_port(m, "dport", listener, proto) /\ SumFollows(m, proto)
  <2>1. CASE n = 53
    <3>1. q = rewrite_port(m, "dport", bpf_htons(TPROXY_DNS_PORT), m.proto)
      <4>1. m.dport = bpf_htons(DPORT_DNS) /\ m.dport # bpf_htons(DPORT_HTTP)
        BY <1>3, <1>4, <2>1, SMT
      <4>. QED
        BY <4>1, Zenon DEF RewriteToProxy
    <3>2. SumFollows(m, m.proto)
      BY <1>3 DEF SumFollows
    <3>. QED
      BY <2>1, <3>1, <3>2 DEF Listener
  <2>2. CASE n = 80
    <3>1. n # 53
      BY <2>2, SMT
    <3>2. q = rewrite_port(m, "dport", bpf_htons(TPROXY_HTTP_PORT), IPPROTO_TCP)
      BY <1>3, <1>4, <2>2, <3>1, Zenon DEF RewriteToProxy
    <3>3. SumFollows(m, IPPROTO_TCP)
      BY <1>3, <3>1 DEF SumFollows, HasPseudoHeader
    <3>. QED
      BY <2>2, <3>1, <3>2, <3>3 DEF Listener
  <2>3. CASE n # 53 /\ n # 80
    <3>1. q = rewrite_port(m, "dport", bpf_htons(TPROXY_TCP_PORT), IPPROTO_TCP)
      BY <1>3, <1>4, <2>3, Zenon DEF RewriteToProxy
    <3>2. SumFollows(m, IPPROTO_TCP)
      BY <1>3, <2>3 DEF SumFollows, HasPseudoHeader
    <3>. QED
      BY <2>3, <3>1, <3>2 DEF Listener
  <2>. QED
    BY <2>1, <2>2, <2>3
<1> HIDE DEF q, listener
<1>6. PICK proto : q = rewrite_port(m, "dport", listener, proto) /\ SumFollows(m, proto)
  BY <1>5
<1>7. q["dport"] = listener /\ Rewritten(q, m, {"dport"})
  <2>1. "dport" \in PortFields /\ IPFull(m) /\ Sound(m) /\ SumFollows(m, proto)
    BY <1>1, <1>3, <1>6
  <2>2. /\ rewrite_port(m, "dport", listener, proto)["dport"] = listener
        /\ Rewritten(rewrite_port(m, "dport", listener, proto), m, {"dport"})
    BY <2>1, RewritePort
  <2>. QED
    BY <1>6, <2>2
<1>8. Sound(q) /\ q.daddr = m.daddr
  BY <1>7 DEF Rewritten, Fields
<1>9. ctr_peer_egress(p, ifindex, pairs) = Verdict("OK", q)
  BY DEF ctr_peer_egress, q, m, new
<1>. QED
  BY <1>2, <1>7, <1>8, <1>9, SMT DEF Verdict, listener, new

(* host_peer_egress (tproxy.c:149-177): an answer of the proxy that it lets *)
(* through has the original destination as its source, and valid sums.      *)
THEOREM AnswersFromDestination ==
    ASSUME NEW p, NEW map,
           IPFull(p), Sound(p), p.partial = TRUE, HasPseudoHeader(p.proto),
           host_peer_egress(p, map).act = "OK"
    PROVE  LET r == host_peer_egress(p, map)
               e == Lookup(map, Key(p.daddr, p.dport, p.proto))
           IN  e # NoEntry /\ r.pkt.saddr = e.ip_addr /\ r.pkt.sport = e.port /\ Sound(r.pkt)
<1> DEFINE e == Lookup(map, Key(p.daddr, p.dport, p.proto))
           q == rewrite_port(rewrite_ip_addr(p, "saddr", e.ip_addr, p.proto),
                             "sport", e.port, UDP_SPORT_OFF)
<1>1. get_port(p, "dport", p.proto) = p.dport /\ p.protocol = "IP" /\ ~p.short
  BY DEF get_port, LoadPort, IPFull
<1>2. host_peer_egress(p, map) = IF e = NoEntry THEN Verdict("SHOT", p) ELSE Verdict("OK", q)
  BY <1>1, Zenon DEF host_peer_egress
<1>3. q = rewrite_port(rewrite_ip_addr(p, "saddr", e.ip_addr, p.proto),
                       "sport", e.port, UDP_SPORT_OFF)
  OBVIOUS
<1> HIDE DEF e, q
<1>4. e # NoEntry /\ host_peer_egress(p, map) = Verdict("OK", q)
  BY <1>2, SMT DEF Verdict
<1>5. q["saddr"] = e.ip_addr /\ q["sport"] = e.port /\ Rewritten(q, p, {"saddr", "sport"})
  <2>1. "saddr" \in AddrFields /\ "sport" \in PortFields /\ SumFollows(p, UDP_SPORT_OFF)
        /\ IsProto(p, p.proto)
    BY DEF AddrFields, PortFields, IsProto, SumFollows
  <2>2. LET z == rewrite_port(rewrite_ip_addr(p, "saddr", e.ip_addr, p.proto),
                              "sport", e.port, UDP_SPORT_OFF)
        IN  z["saddr"] = e.ip_addr /\ z["sport"] = e.port /\ Rewritten(z, p, {"saddr", "sport"})
    BY <2>1, RewriteBoth
  <2>. QED
    BY <1>3, <2>2
<1>. QED
  BY <1>4, <1>5, SMT DEF Verdict, Rewritten, e
=============================================================================
