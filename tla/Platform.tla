------------------------------ MODULE Platform ------------------------------
(* What the components of one platform node have in common.               *)
EXTENDS PortAllocator

CONSTANTS
    Instances,    \* instance ids; a workload has the id of its instance
    MaxAttempts   \* attempts at creating a workload (5 in the code)

Attempts == 1..MaxAttempts

ASSUME AttemptsAssumption == MaxAttempts \in Nat \ {0}
=============================================================================
