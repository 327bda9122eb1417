--------------------------- MODULE InstanceTable ---------------------------
(* The instances table of the control plane, restricted to the rows of    *)
(* one node (controlplane/postgres/instance.go).  A row that does not     *)
(* exist is NoRow; a NULL port is NoPort.                                 *)
EXTENDS Platform

(* DELETED never appears in a row: such a report removes the row. *)
InstanceStates == {"PENDING", "CREATING", "RUNNING", "DELETING", "CREATION_FAILED"}

NoRow == [state |-> "none", port |-> NoPort]

Row == [state : InstanceStates \cup {"none"}, port : PortOrNone]

(* The row RunFlavorVersion inserts. *)
PendingRow == [state |-> "PENDING", port |-> NoPort]

(* Mutant of BulkUpdateInstanceStateAndPort: a port once written stays. *)
UpdateKeepsPort(rows, reports) ==
    [id \in Instances |->
        IF rows[id] # NoRow /\ reports[id].state \notin {"none", "DELETED"}
        THEN [state |-> reports[id].state,
              port |-> IF rows[id].port # NoPort THEN rows[id].port ELSE reports[id].port]
        ELSE rows[id]]

(* The two batches of ApplyStatusReports.  A batch is one implicit        *)
(* transaction; the two together are not one.  An UPDATE of an id that    *)
(* has no row changes nothing.                                            *)
BulkUpdateInstanceStateAndPort(rows, reports) ==
    [id \in Instances |->
        IF rows[id] # NoRow /\ reports[id].state \notin {"none", "DELETED"}
        THEN [state |-> reports[id].state, port |-> reports[id].port]
        ELSE rows[id]]

BulkDeleteInstances(rows, reports) ==
    [id \in Instances |-> IF reports[id].state = "DELETED" THEN NoRow ELSE rows[id]]

ApplyStatusReports(rows, reports) ==
    BulkDeleteInstances(BulkUpdateInstanceStateAndPort(rows, reports), reports)

(* What a call that ends in an error may have done to the table. *)
PartlyApplied(rows, reports) ==
    {rows, BulkUpdateInstanceStateAndPort(rows, reports), ApplyStatusReports(rows, reports)}
=============================================================================
