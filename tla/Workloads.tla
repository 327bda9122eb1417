----------------------------- MODULE Workloads -----------------------------
(* Workloads as pods of the container runtime: what the workload service  *)
(* (platformd/workload/service.go) finds in and asks of crio.             *)
(*                                                                        *)
(* A pod is named by the workload's id and the attempt it was created by; *)
(* crio refuses a second sandbox with the same name.  Its stage says      *)
(* which containers it has:                                               *)
(*    none       the pod does not exist                                   *)
(*    sandbox    no container yet                                         *)
(*    server     the Minecraft server runs                                *)
(*    monitored  the Minecraft server and servermon run                   *)
(*    degraded   one of the two has exited                                *)
(*    stopped    every container has exited                               *)
(* Its port is the host port netglue set up for it.                       *)
EXTENDS Platform

Stages == {"none", "sandbox", "server", "monitored", "degraded", "stopped"}

NoPod == [stage |-> "none", port |-> NoPort]

Pod == [stage : Stages, port : PortOrNone]

SetStage(pods, id, a, s) == [pods EXCEPT ![id][a].stage = s]

PodsOf(pods, id) == {a \in Attempts : pods[id][a].stage # "none"}

(* StopPodSandbox kills the containers of the pod, if it still exists. *)
StopPodSandbox(pods, id, a) ==
    IF pods[id][a].stage = "none" THEN pods ELSE SetStage(pods, id, a, "stopped")

RemovePodSandbox(pods, id, a) == [pods EXCEPT ![id][a] = NoPod]

(* States in which containers may be found under the workload's label.  A  *)
(* container is created before it is started, and the runtime may at any   *)
(* time not know the state of one.                                         *)
ContainerStates(stage) ==
    CASE stage = "sandbox" -> {"CREATED", "UNKNOWN"}
      [] stage = "server" -> {"RUNNING", "CREATED", "UNKNOWN"}
      [] stage = "monitored" -> {"RUNNING", "UNKNOWN"}
      [] stage = "degraded" -> {"RUNNING", "EXITED", "UNKNOWN"}
      [] stage = "stopped" -> {"EXITED", "UNKNOWN"}
      [] OTHER -> {}

AllContainerStates(pods, id) ==
    UNION {ContainerStates(pods[id][a].stage) : a \in Attempts}

(* GetWorkloadHealth returns on the first container of the list, in       *)
(* whatever order the runtime lists them.                                 *)
MayBeHealthy(pods, id) == "RUNNING" \in AllContainerStates(pods, id)

(* Mutant of MayBeUnhealthy: no container at all counts as healthy. *)
UnhealthyIfFound(pods, id) == AllContainerStates(pods, id) \ {"RUNNING"} # {}

MayBeUnhealthy(pods, id) ==
    AllContainerStates(pods, id) = {} \/ AllContainerStates(pods, id) \ {"RUNNING"} # {}
=============================================================================
