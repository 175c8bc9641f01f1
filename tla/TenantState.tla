---------------------------- MODULE TenantState ----------------------------
(***************************************************************************)
(* The tenant status machine of the control plane: the statuses a tenant   *)
(* row can hold and the transitions transition_tenant_status accepts.      *)
(* Every module that writes tenant.status takes its guards from here.      *)
(***************************************************************************)

Suspensions == {"suspended", "suspended_admin", "suspended_billing"}

TenantStatuses ==
    {"pending_payment", "pending", "provisioning", "active", "upgrading",
     "restoring", "pending_deletion", "deleting", "failed", "deleted"}
        \cup Suspensions

(***************************************************************************)
(* ALLOWED_TRANSITIONS: for each status, those it may be moved to.         *)
(***************************************************************************)
AllowedTransitions ==
    [s \in TenantStatuses |->
        CASE s = "pending_payment" ->
                 Suspensions \cup {"pending", "pending_deletion", "deleting",
                                   "failed", "deleted"}
          [] s = "pending" ->
                 Suspensions \cup {"pending_payment", "provisioning",
                                   "pending_deletion", "deleting", "failed",
                                   "deleted"}
          [] s = "provisioning" ->
                 Suspensions \cup {"active", "failed", "pending_deletion"}
          [] s = "active" ->
                 Suspensions \cup {"upgrading", "restoring",
                                   "pending_deletion", "deleting", "failed"}
          [] s \in Suspensions ->
                 {"active", "pending_deletion", "deleting", "failed"}
          [] s \in {"upgrading", "restoring"} ->
                 {"active", "failed", "pending_deletion"}
          [] s = "pending_deletion" -> {"deleting", "deleted", "failed"}
          [] s = "deleting" -> {"deleted", "failed"}
          [] s = "failed" -> {"pending", "pending_deletion", "deleted"}
          [] s = "deleted" -> {}]

(***************************************************************************)
(* transition_tenant_status raises InvalidTenantStatusTransition unless    *)
(* the target is the current status (a no-op) or an allowed successor.     *)
(***************************************************************************)
CanTransition(from, to) == from = to \/ to \in AllowedTransitions[from]

(* The target of a transition, or the status unchanged when it is refused. *)
TryTransition(from, to) == IF CanTransition(from, to) THEN to ELSE from
=============================================================================
