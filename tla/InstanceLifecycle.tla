------------------------- MODULE InstanceLifecycle -------------------------
(* What a node promises the clients of the control plane about the         *)
(* instances placed on it, whatever happens between the control plane, the *)
(* reconciler and the pods: an ordered instance waits until it runs on a   *)
(* port of its own, keeps that port while it runs, and once it has left it *)
(* never comes back.                                                       *)
CONSTANTS Instances, Ports, NoPort

VARIABLE phase

Waiting == [at |-> "waiting", port |-> NoPort]

Gone == [at |-> "gone", port |-> NoPort]

Fresh == [at |-> "new", port |-> NoPort]

Running(p) == [at |-> "running", port |-> p]

RunningOn(f) == {id \in Instances : f[id].at = "running"}

(* No two running instances have the same port. *)
Exclusive(f) == \A i, j \in RunningOn(f) : f[i].port = f[j].port => i = j

Init == phase = [id \in Instances |-> Fresh]

(* Where an instance may go in one step; one status report moves several. *)
Successors(s) ==
    CASE s = Fresh -> {Fresh, Waiting}
      [] s = Waiting -> {Waiting, Gone} \cup {Running(p) : p \in Ports}
      [] s.at = "running" -> {s, Gone}
      [] OTHER -> {s}

Next ==
    /\ DOMAIN phase' = Instances
    /\ \A id \in Instances : phase'[id] \in Successors(phase[id])
    /\ Exclusive(phase')

Spec == Init /\ [][Next]_phase
=============================================================================
