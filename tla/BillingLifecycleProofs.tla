----------------------- MODULE BillingLifecycleProofs -----------------------
(***************************************************************************)
(* What holds of the pure billing rules for every tenant status.           *)
(***************************************************************************)
EXTENDS BillingLifecycle, TLAPS

(* What an event makes of a status is a status of the table                *)
(* (webhook_application_service.py, process_event).                        *)
LEMMA StatusOfEvent ==
  ASSUME NEW t \in TenantStatuses, NEW e \in {"confirm", "fail", "cancel"}
  PROVE  StatusAfter(e, t) \in TenantStatuses
<1> DEFINE target == OperationalState(t, Entitlement(BillingState(t, "active",
                                             "paid", "paid"), "active"))
<1>1. {"active", "pending", "pending_payment", "suspended_billing"}
          \subseteq TenantStatuses
  BY DEF TenantStatuses, Suspensions
<1>2. target \in {t, "pending", "activation_blocked"}
  <2>1. BillingState(t, "active", "paid", "paid") = "paid"
    BY DEF BillingState
  <2>2. Entitlement("paid", "active") = "active"
    BY DEF Entitlement
  <2> QED BY <2>1, <2>2 DEF OperationalState
<1>3. ~CanTransition(t, "activation_blocked")
  BY DEF CanTransition, AllowedTransitions, TenantStatuses, Suspensions
<1>4. TryTransition(t, target) \in TenantStatuses
  BY <1>1, <1>2, <1>3 DEF TryTransition
<1>5. AfterPaymentConfirmed(t) \in TenantStatuses
  <2>1. TryTransition(t, "active") \in TenantStatuses
    BY <1>1 DEF TryTransition
  <2> QED BY <1>1, <1>4, <2>1 DEF AfterPaymentConfirmed
<1>6. AfterPaymentFailed(t) \in TenantStatuses
  BY <1>1 DEF AfterPaymentFailed, TryTransition
<1>7. AfterSubscriptionCancelled(t) \in TenantStatuses
  BY <1>1 DEF AfterSubscriptionCancelled
<1> QED BY <1>5, <1>6, <1>7 DEF StatusAfter

=============================================================================
