-------------------------- MODULE BillingLifecycle --------------------------
(***************************************************************************)
(* The pure billing rules of the control plane: what a subscription, an    *)
(* invoice and a payment attempt say about the billing state of a tenant,  *)
(* what that state entitles the tenant to, and what the three provider     *)
(* events do to the tenant status and the subscription status.             *)
(*                                                                         *)
(* Statuses are compared lower-cased and trimmed by the code, so they are  *)
(* plain values here; None stands for an absent invoice or attempt.        *)
(***************************************************************************)
EXTENDS TenantState

None == "none"

SubscriptionStatuses ==
    {"pending", "trialing", "active", "past_due", "paused", "cancelled"}

(* What the invoice read model reports, its aliases already resolved.      *)
InvoiceStates ==
    {None, "draft", "invoicing_pending", "payment_pending",
     "payment_processing", "past_due", "grace", "suspended", "closed",
     "cancelled", "paid"}

SettlingAttempts ==
    {"checkout_started", "pending_provider_confirmation",
     "settlement_pending"}

AttemptStates ==
    SettlingAttempts \cup
    {None, "paid", "created", "failed", "expired", "cancelled",
     "reconciliation_required"}

Delivering == {"active", "provisioning", "upgrading", "restoring"}
Leaving == {"pending_deletion", "deleting", "deleted"}

(***************************************************************************)
(* derive_billing_state for a subscription in SubscriptionStatuses: the    *)
(* attempt and the invoice speak first, then the subscription.             *)
(***************************************************************************)
BillingState(tenant, sub, invoice, attempt) ==
    CASE attempt = "paid" \/ invoice = "paid" -> "paid"
      [] OTHER ->
    CASE invoice \in {"suspended", "closed", "cancelled"} -> invoice
      [] OTHER ->
    CASE attempt \in SettlingAttempts -> "payment_processing"
      [] attempt \in AttemptStates \ (SettlingAttempts \cup {None, "paid"}) ->
             "past_due"
      [] OTHER ->
    CASE sub \in {"active", "trialing"} -> "paid"
      [] sub = "cancelled" -> "closed"
      [] sub \in {"past_due", "paused"} ->
             (CASE tenant \in Delivering -> "grace"
                [] tenant = "suspended_billing" -> "suspended"
                [] OTHER -> "past_due")
      [] sub = "pending" ->
             IF tenant = "suspended_billing" THEN "suspended"
                                             ELSE "payment_pending"

(* derive_entitlement_state. *)
Entitlement(billing, sub) ==
    CASE sub = "trialing"
           /\ billing \in {"payment_pending", "past_due", "grace"} ->
             "trialing"
      [] sub = "cancelled" \/ billing = "cancelled" -> "cancelled"
      [] sub # "cancelled" /\ billing \in {"paid", "closed"} -> "active"
      [] sub \notin {"cancelled", "trialing"} /\ billing = "grace" -> "grace"
      [] sub # "cancelled" /\ billing = "suspended" -> "suspended_billing"
      [] OTHER -> "past_due"

(* derive_tenant_operational_state. *)
OperationalState(tenant, entitlement) ==
    CASE tenant \in Leaving \cup {"suspended_admin"} -> tenant
      [] tenant = "failed" /\ entitlement \in {"active", "trialing", "grace"} ->
             "activation_blocked"
      [] OTHER ->
    CASE entitlement \in {"active", "trialing"} ->
             IF tenant \in {"pending_payment", "suspended_billing"}
             THEN "pending" ELSE tenant
      [] entitlement = "grace" ->
             IF tenant \in Delivering THEN tenant ELSE "pending_payment"
      [] OTHER ->
             IF tenant \in Delivering \cup {"suspended", "suspended_billing"}
             THEN "suspended_billing" ELSE "pending_payment"

(***************************************************************************)
(* The two questions the API's guards ask of a tenant without invoices.    *)
(***************************************************************************)
TenantEntitlement(tenant, sub) ==
    Entitlement(BillingState(tenant, sub, None, None), sub)

(* Variant: every tenant counts as paid. *)
PaymentPresumed(tenant, sub) == TRUE

PaymentConfirmed(tenant, sub) ==
    TenantEntitlement(tenant, sub) \in {"active", "trialing", "grace"}

BillingBlocked(tenant, sub) ==
    \/ tenant \in {"pending_payment", "suspended_billing"}
    \/ TenantEntitlement(tenant, sub) \in
           {"past_due", "suspended_billing", "cancelled"}

(* Variant: a payment reactivates a failed tenant. *)
AfterPaymentReactivating(tenant) ==
    CASE tenant \in {"suspended_billing", "failed"} -> "active"
      [] tenant = "pending_payment" -> "pending"
      [] OTHER -> tenant

(***************************************************************************)
(* What a provider event makes of the tenant status it reads.              *)
(*                                                                         *)
(* payment.confirmed: the derived operational state, forced to pending if  *)
(* that transition is refused; a tenant that was suspended for billing is  *)
(* put back and moved to active.                                           *)
(***************************************************************************)
AfterPaymentConfirmed(tenant) ==
    LET target == OperationalState(tenant,
                      Entitlement(BillingState(tenant, "active", "paid",
                                               "paid"), "active"))
    IN  CASE tenant = "suspended_billing" -> TryTransition(tenant, "active")
          [] tenant # "suspended_billing" /\ target = "pending" -> target
          [] OTHER -> TryTransition(tenant, target)

(* payment.failed: back to pending_payment before activation, suspended    *)
(* for billing after it, unchanged where neither transition is allowed.    *)
AfterPaymentFailed(tenant) ==
    CASE tenant \in {"pending", "pending_payment"} ->
             TryTransition(tenant, "pending_payment")
      [] OTHER ->
             IF CanTransition(tenant, "suspended_billing") THEN "suspended_billing"
             ELSE TryTransition(tenant, "pending_payment")

(* Variant: the subscription status lands in the tenant row. *)
AfterSubscriptionCopied(tenant) == "cancelled"

(* subscription.cancelled: suspended for billing, the transition table     *)
(* overridden where it refuses.                                            *)
AfterSubscriptionCancelled(tenant) == "suspended_billing"

(* resolve_trial_subscription_status on the three provider events. *)
AfterEvent(event) ==
    [confirm |-> "active", fail |-> "past_due", cancel |-> "cancelled"][event]

(***************************************************************************)
(* The subscription row validates every status written to it: the event    *)
(* is refused, before it touches the tenant, unless the target is the      *)
(* current status or an allowed successor.  Nothing follows cancelled.     *)
(***************************************************************************)
AllowedSubscriptionTransitions ==
    [pending   |-> {"trialing", "active", "past_due", "cancelled"},
     trialing  |-> {"active", "past_due", "cancelled"},
     active    |-> {"past_due", "cancelled", "paused"},
     past_due  |-> {"active", "cancelled"},
     paused    |-> {"active", "cancelled"},
     cancelled |-> {}]

EventApplies(event, sub) ==
    \/ AfterEvent(event) = sub
    \/ AfterEvent(event) \in AllowedSubscriptionTransitions[sub]

(* The tenant status a provider event asks for. *)
StatusAfter(event, tenant) ==
    CASE event = "confirm" -> AfterPaymentConfirmed(tenant)
      [] event = "fail" -> AfterPaymentFailed(tenant)
      [] event = "cancel" -> AfterSubscriptionCancelled(tenant)
=============================================================================
