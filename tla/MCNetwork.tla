----------------------------- MODULE MCNetwork -----------------------------
(* A node with two workloads for TLC. *)
EXTENDS Network, TLC

CONSTANTS w1, w2

MCPorts == {30000, 30001}
MCPairs == {[host |-> <<10, 1, 0, 2>>, pod |-> <<10, 2, 0, 2>>],
            [host |-> <<10, 1, 0, 3>>, pod |-> <<10, 2, 0, 3>>]}
MCStale == {[host_port |-> 29999,
             veth |-> [host_index |-> 3, host_addr |-> <<10, 1, 0, 1>>,
                       pod_index |-> 4, pod_addr |-> <<10, 2, 0, 1>>, mac |-> <<"mac", 4>>]]}
MCNodeIP == <<198, 51, 100, 1>>
MCClient == <<203, 0, 113, 7>>
MCDestinations == {<<192, 0, 2, 1>>, <<192, 0, 2, 2>>}
MCTraffic ==
    {[proto |-> IPPROTO_TCP, sport |-> 40000, dst |-> d, dport |-> 443] : d \in MCDestinations}
    \cup {[proto |-> IPPROTO_UDP, sport |-> 40000, dst |-> <<192, 0, 2, 1>>, dport |-> 53],
          [proto |-> IPPROTO_TCP, sport |-> 40001, dst |-> <<192, 0, 2, 2>>, dport |-> 25565]}

Symmetry == Permutations({w1, w2})
=============================================================================
