--------------------------- MODULE MCProductMirror ---------------------------
(* Instances of ProductMirror for TLC. *)
EXTENDS ProductMirror

AllStaff == {"create", "delete", "size", "archive", "reconcile"}
AllFaults == {"outage", "lost_reply", "commit_fails", "restart"}
=============================================================================
