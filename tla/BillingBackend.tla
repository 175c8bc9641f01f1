--------------------------- MODULE BillingBackend ---------------------------
(***************************************************************************)
(* The parts of the billing backend side by side: the payment of invoices, *)
(* the cycles over a tenant, and the lease of their scheduler.  They share *)
(* no variable: a behaviour is one of one part, and the others stand still *)
(* where they begin.                                                       *)
(***************************************************************************)
EXTENDS InvoicePayment, BillingCycles, SchedulerLease

CONSTANT Parts  \* those of the instance

ASSUME PartsAssumption == Parts \subseteq {"payments", "cycles", "lease"}

VARIABLE part

backendVars == <<part, vars, cycleVars, leaseVars>>

BackendInit ==
    /\ part \in Parts
    /\ Init /\ CycleInit /\ LeaseInit
    /\ part # "payments" => tenant = "active"
    /\ part # "cycles" => account = Row("active", "active", 0)
    /\ part # "lease" => stamp = "recent"

BackendNext ==
    /\ UNCHANGED part
    /\ \/ part = "payments" /\ Next /\ UNCHANGED <<cycleVars, leaseVars>>
       \/ part = "cycles" /\ CycleNext /\ UNCHANGED <<vars, leaseVars>>
       \/ part = "lease" /\ LeaseNext /\ UNCHANGED <<vars, cycleVars>>

(* The fairness of InvoicePayment, in its part. *)
PaymentFairness ==
    /\ WF_vars(part = "payments" /\ CycleTenant)
    /\ WF_vars(part = "payments" /\ CycleInvoice)
    /\ \A t \in Agents : SF_vars(Transact(t))
    /\ \A e \in ProviderEvents : WF_vars(Receive(e))
    /\ SF_vars(Handle)

(* A worker process polls, is started again when it ends, and Redis drops  *)
(* the lease of one that is gone.                                          *)
LeaseFairness ==
    /\ WF_leaseVars(part = "lease" /\ IntervalPasses)
    /\ WF_leaseVars(lease.owner = Gone /\ LeaseLapses)
    /\ \A p \in Schedulers : /\ WF_leaseVars(part = "lease" /\ SchedulerStep(p))
                             /\ WF_leaseVars(Restart(p))

BackendSpec == BackendInit /\ [][BackendNext]_backendVars

FairBackendSpec == BackendSpec /\ PaymentFairness /\ LeaseFairness
=============================================================================
