------------------------- MODULE ReconcilerRestarts -------------------------
(* Reconciler with a platformd that is restarted a bounded number of times, *)
(* so that what holds up to the first restart can be said and liveness      *)
(* under fairness can be asked for across restarts.                         *)
EXTENDS Reconciler

CONSTANT MaxRestarts   \* bound: restarts of platformd

ASSUME RestartsAssumption == MaxRestarts \in Nat

VARIABLE restarts

CountedInit == Init /\ restarts = 0

CountedNext ==
    \/ Next /\ UNCHANGED restarts
    \/ restarts < MaxRestarts /\ Restart /\ restarts' = restarts + 1

CountedSpec == CountedInit /\ [][CountedNext]_<<vars, restarts>> /\ Fairness

(* Up to the first restart the port a RUNNING row shows is the one its pod  *)
(* was set up with (reconciler.go:167-171); a restarted platformd reports   *)
(* before it knows the ports again.                                         *)
PortIsPodPortUntilRestart == restarts = 0 => RunningPortIsPodPort

(* The row of a workload that could not be created is removed in the end    *)
(* (reconciler.go:236-245), unless platformd is restarted: the store that   *)
(* knew of the failure is then gone.                                        *)
FailedIsRemovedUnlessRestarted ==
    \A id \in Instances :
        rows[id].state = "CREATION_FAILED" ~> rows[id] = NoRow \/ restarts > 0
=============================================================================
