--------------------------- MODULE CheckpointAPI ---------------------------
(* What platformd's checkpoint API promises its callers: the answers of     *)
(* CheckpointStatus over the life of a checkpoint, and when its image may   *)
(* reach the registry.  Module Checkpoints implements it; module Builds     *)
(* uses it in place of the service.                                         *)

CONSTANT Checkpoints      \* ids that CreateCheckpoint hands out

VARIABLES answer,         \* what CheckpointStatus tells of a checkpoint
          pushed          \* checkpoints whose image is in the registry

apiVars == <<answer, pushed>>

(* "accepted" and "gone" are both answered with NotFound: the id has been   *)
(* returned and its status is not there yet, or not there any more.         *)
(* "COMPLETED_WITH_MESSAGE" is a COMPLETED whose message is not empty.  A   *)
(* caller cannot tell "COMPLETED_TOO_EARLY" from "COMPLETED": its message   *)
(* is about to be written.                                                  *)
Finished == {"COMPLETED", "COMPLETED_WITH_MESSAGE", "FAILED"}
Answers == {"unused", "accepted", "RUNNING", "COMPLETED_TOO_EARLY", "gone"} \cup Finished

NotFound(a) == a \in {"accepted", "gone"}

APIInit ==
    /\ answer = [c \in Checkpoints |-> "unused"]
    /\ pushed = {}

Becomes(c, a) == answer' = [answer EXCEPT ![c] = a]

(* The CreateCheckpoint call returns an id. *)
Accept(c) == answer[c] = "unused" /\ Becomes(c, "accepted") /\ UNCHANGED pushed

Begin(c) == answer[c] = "accepted" /\ Becomes(c, "RUNNING") /\ UNCHANGED pushed

PushImage(c) == answer[c] = "RUNNING" /\ pushed' = pushed \cup {c} /\ UNCHANGED answer

(* A result is final.  COMPLETED without a message means that the image is  *)
(* there, unless the message is still to come; FAILED leaves it open.       *)
Settle(c) ==
    /\ answer[c] = "RUNNING"
    /\ \E a \in {"COMPLETED", "COMPLETED_TOO_EARLY", "FAILED"} :
          Becomes(c, a) /\ (a = "COMPLETED" => c \in pushed)
    /\ UNCHANGED pushed

AddMessage(c) ==
    answer[c] = "COMPLETED_TOO_EARLY" /\ Becomes(c, "COMPLETED_WITH_MESSAGE") /\ UNCHANGED pushed

(* Statuses are forgotten some time after they became final. *)
Forget ==
    /\ \E old \in SUBSET {c \in Checkpoints : answer[c] \in Finished} :
          answer' = [c \in Checkpoints |-> IF c \in old THEN "gone" ELSE answer[c]]
    /\ UNCHANGED pushed

(* Restart of platformd: the store is in memory. *)
LoseAll ==
    /\ answer' = [c \in Checkpoints |-> IF answer[c] = "unused" THEN "unused" ELSE "gone"]
    /\ UNCHANGED pushed

(* What the service does by itself, and what it does with calls. *)
Service ==
    \/ LoseAll \/ Forget
    \/ \E c \in Checkpoints : Begin(c) \/ PushImage(c) \/ Settle(c) \/ AddMessage(c)

APINext == Service \/ \E c \in Checkpoints : Accept(c)

APISpec == APIInit /\ [][APINext]_apiVars
=============================================================================
