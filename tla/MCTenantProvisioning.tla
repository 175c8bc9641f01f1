------------------------ MODULE MCTenantProvisioning ------------------------
(***************************************************************************)
(* Instances of TenantProvisioning for TLC: the sets of operations of the  *)
(* runs, and the symmetry between calls.                                   *)
(***************************************************************************)
EXTENDS TenantProvisioning, TLC

RequestSymmetry == Permutations(Requests)

(* No call or event that suspends the tenant. *)
UnsuspendedOps ==
    {"renew", "confirm", "delete", "retry", "backup", "restore"}

(* The operations that start a provisioning. *)
PaidOps == {"confirm", "retry"}

(* An administrator holds and releases the tenant. *)
HoldOps == {"suspend", "unsuspend"}

(* One payment. *)
PayOps == {"confirm"}
=============================================================================
