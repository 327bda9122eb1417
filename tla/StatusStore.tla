---------------------------- MODULE StatusStore ----------------------------
(* The in-memory status store of platformd (platformd/status/store.go).   *)
(* Every method holds the store's mutex, so each one is a single step and *)
(* is written as an operator on the value of the map.  Only the workload  *)
(* half of an entry is kept here.                                         *)
EXTENDS Platform

WorkloadStates == {"CREATING", "RUNNING", "DELETED", "CREATION_FAILED"}

(* An id that has no entry in the map. *)
NoStatus == [state |-> "none", port |-> NoPort]

WorkloadStatus ==
    [state : WorkloadStates \cup {"none"}, port : PortOrNone]

Terminal(st) == st.state \in {"DELETED", "CREATION_FAILED"}

(* Mutant of Update: the entry is replaced as a whole. *)
UpdateReplaces(store, id, new) == [store EXCEPT ![id] = new]

(* A missing entry is created as it is given; in an existing one only the *)
(* fields that are set are overwritten.                                   *)
Update(store, id, new) ==
    [store EXCEPT ![id] =
        IF @ = NoStatus THEN new
        ELSE [state |-> IF new.state # "" THEN new.state ELSE @.state,
              port  |-> IF new.port # NoPort THEN new.port ELSE @.port]]

SetState(store, id, s) == Update(store, id, [state |-> s, port |-> NoPort])

(* Mutant of SetPort: a port that is there already stays. *)
SetPortOnce(store, id, p) ==
    IF store[id].port = NoPort THEN Update(store, id, [state |-> "", port |-> p]) ELSE store

SetPort(store, id, p) == Update(store, id, [state |-> "", port |-> p])

Del(store, id) == [store EXCEPT ![id] = NoStatus]
=============================================================================
