--------------------------- MODULE BillingCycles ---------------------------
(***************************************************************************)
(* The dunning and the trial cycle over one tenant.  A cycle lists the     *)
(* tenants it is about, then takes them one by one; each audit event       *)
(* commits the session, so what was loaded before it is loaded again when  *)
(* it is used next, and what was not, is used as it was listed.            *)
(*                                                                         *)
(* Time is counted in units of six hours, the shortest window.  A pass     *)
(* takes minutes (its job ten at most), so no unit ends during one.  The   *)
(* worker runs one cycle at a time.  Dry runs write nothing and are left   *)
(* out, and so are the days before a trial ends.                           *)
(*                                                                         *)
(* A reminder is sent first and recorded after: the anchor of the windows  *)
(* and the audit event are one commit.  A pass that is cut between the two *)
(* leaves a reminder nobody knows of, and the next cycle repeats it.       *)
(***************************************************************************)
EXTENDS Naturals, BillingLifecycle

CONSTANTS
    MaxCalls,  \* bound on what happens to the tenant besides the cycles
    Spares     \* whether the ERP's latest invoice may extend the grace

ASSUME CyclesAssumption ==
    MaxCalls \in Nat /\ Spares \subseteq BOOLEAN /\ Spares # {}

VARIABLES
    account,  \* the rows: tenant.status, subscription.status, and the age
              \* of tenant.updated_at
    runtime,  \* whether the bench holds the site
    trial,    \* whether the trial is over
    pass,     \* the cycle under way: its session and what it decided
    quiet,    \* auxiliary: the time since the last recorded reminder
    calls

cycleVars == <<account, runtime, trial, pass, quiet, calls>>

(* The longest window is three days. *)
Horizon == 12
Older(age) == IF age < Horizon THEN age + 1 ELSE age

Row(status, sub, age) == [status |-> status, sub |-> sub, age |-> age]

(***************************************************************************)
(* A session holds the rows as loaded, and whether a commit expired them.  *)
(* The last field is auxiliary: since that commit the subscription has     *)
(* been active.                                                            *)
(***************************************************************************)
NoPass == [pc |-> "idle", seen |-> Row("none", "none", 0), expired |-> FALSE,
           retry |-> FALSE, grace |-> FALSE, quiet |-> 0, paid |-> FALSE]

(* A site in service, on trial or paid, or a checkout that was not paid.   *)
CycleInit ==
    /\ \/ /\ runtime = TRUE
          /\ account \in {Row("active", s, 0) : s \in {"trialing", "active"}}
       \/ /\ runtime = FALSE
          /\ account \in {Row("pending_payment", s, 0) :
                              s \in {"trialing", "pending"}}
    /\ trial = "running"
    /\ pass = NoPass /\ quiet = Horizon /\ calls = 0

-----------------------------------------------------------------------------
(***************************************************************************)
(* The dunning cycle.                                                      *)
(***************************************************************************)

(* is_billing_dunning_candidate; the query asks for no less. *)
DunningCandidate(row) ==
    /\ row.status \notin Leaving
    /\ \/ row.status \in {"pending_payment", "suspended_billing"}
       \/ row.sub \in {"past_due", "cancelled", "paused"}

(* RUNTIME_EXPECTED_STATUSES, _tenant_runtime_visible_for_dunning. *)
RuntimeExpected == Suspensions \cup {"active", "upgrading", "restoring"}
RuntimeVisible(row) == row.status \in RuntimeExpected => runtime

(* compute_dunning_windows. *)
Windows(row) ==
    CASE row.status = "pending_payment" -> [retry |-> 1, grace |-> 8]
      [] row.status = "suspended_billing" -> [retry |-> 2, grace |-> 4]
      [] OTHER ->
             IF row.sub \in {"past_due", "cancelled", "paused"}
             THEN [retry |-> 2, grace |-> 8]
             ELSE [retry |-> 4, grace |-> 12]

List ==
    /\ pass.pc = "idle"
    /\ DunningCandidate(account) /\ RuntimeVisible(account)
    /\ pass' = [NoPass EXCEPT !.pc = "listed", !.seen = account]
    /\ UNCHANGED <<account, runtime, trial, quiet, calls>>

(* Variant: one window for both. *)
ResolveOneWindow(expired, spared) ==
    LET row == IF expired THEN account ELSE pass.seen
    IN  /\ pass.pc = "listed"
        /\ pass' = [pass EXCEPT
                       !.pc = "resolved", !.seen = row,
                       !.retry = row.age >= Windows(row).retry,
                       !.grace = row.age >= Windows(row).retry /\ ~spared]
        /\ UNCHANGED <<account, runtime, trial, quiet, calls>>

(* resolve_dunning_context: the tenant's turn comes; the events of the     *)
(* tenants before it have expired its row, or there were none.  An invoice *)
(* due later than the anchor extends the grace.                            *)
Resolve(expired, spared) ==
    LET row == IF expired THEN account ELSE pass.seen
    IN  /\ pass.pc = "listed"
        /\ pass' = [pass EXCEPT
                       !.pc = "resolved", !.seen = row,
                       !.retry = row.age >= Windows(row).retry,
                       !.grace = row.age >= Windows(row).grace /\ ~spared]
        /\ UNCHANGED <<account, runtime, trial, quiet, calls>>

(* A reminder that is due is sent to the owner; if none is, the turn goes on. *)
Send ==
    /\ pass.pc = "resolved"
    /\ pass' = [pass EXCEPT !.pc = IF pass.retry THEN "sent" ELSE "reminded"]
    /\ UNCHANGED <<account, runtime, trial, quiet, calls>>

(* Variant: the anchor of the windows stays where it was. *)
AnchorForgotten ==
    /\ pass.pc = "sent"
    /\ pass' = [pass EXCEPT !.pc = "reminded", !.expired = TRUE,
                            !.quiet = quiet, !.paid = account.sub = "active"]
    /\ quiet' = 0
    /\ UNCHANGED <<account, runtime, trial, calls>>

(* The row is touched, and its audit event commits, which expires what the *)
(* session holds.                                                          *)
Anchor ==
    /\ pass.pc = "sent"
    /\ account' = [account EXCEPT !.age = 0]
    /\ pass' = [pass EXCEPT !.pc = "reminded", !.expired = TRUE,
                            !.quiet = quiet, !.paid = account.sub = "active"]
    /\ quiet' = 0
    /\ UNCHANGED <<runtime, trial, calls>>

(* _tenant_runtime_exists names the site, which loads an expired row, and  *)
(* asks the bench or the site itself.                                      *)
Probe ==
    /\ pass.pc = "reminded"
    /\ pass' = [pass EXCEPT !.pc = "probed",
                            !.seen.status = IF pass.expired THEN account.status
                                                            ELSE @]
    /\ UNCHANGED <<account, runtime, trial, quiet, calls>>

MaySuspend(status, sub) ==
    /\ status \notin Leaving \cup {"suspended_billing"}
    /\ sub \notin {"active", "trialing"}
    /\ runtime

(* Variant: the session keeps what it loaded, whatever was committed. *)
DecideAsListed ==
    /\ pass.pc = "probed"
    /\ pass' = IF pass.grace /\ MaySuspend(pass.seen.status, pass.seen.sub)
               THEN [pass EXCEPT !.pc = "escalating"] ELSE NoPass
    /\ UNCHANGED <<account, runtime, trial, quiet, calls>>

(* The grace was computed before the reminder, the subscription is loaded  *)
(* after it.                                                               *)
Decide ==
    LET sub == IF pass.expired THEN account.sub ELSE pass.seen.sub
    IN  /\ pass.pc = "probed"
        /\ pass' = IF pass.grace /\ MaySuspend(pass.seen.status, sub)
                   THEN [pass EXCEPT !.pc = "escalating"] ELSE NoPass
        /\ UNCHANGED <<account, runtime, trial, quiet, calls>>

(* A refused transition is overridden. *)
Escalate ==
    /\ pass.pc = "escalating"
    /\ account' = [account EXCEPT !.status = "suspended_billing", !.age = 0]
    /\ pass' = NoPass
    /\ UNCHANGED <<runtime, trial, quiet, calls>>

-----------------------------------------------------------------------------
(***************************************************************************)
(* The trial cycle.                                                        *)
(***************************************************************************)
ListTrial ==
    /\ pass.pc = "idle"
    /\ trial = "over" /\ account.sub = "trialing"
    /\ pass' = [NoPass EXCEPT !.pc = "expiring", !.seen = account]
    /\ UNCHANGED <<account, runtime, trial, quiet, calls>>

(* A tenant not yet built must pay, one in service is suspended, where the *)
(* transition is allowed.                                                  *)
AfterTrial(status) ==
    CASE status \in {"pending", "pending_payment", "failed"} ->
             TryTransition(status, "pending_payment")
      [] status \in Leaving -> status
      [] OTHER -> TryTransition(status, "suspended_billing")

(* A status that stays as loaded is not written. *)
ExpireTrial ==
    LET status == AfterTrial(pass.seen.status)
    IN  /\ pass.pc = "expiring"
        /\ account' = Row(IF status = pass.seen.status THEN account.status
                                                      ELSE status,
                          "past_due", 0)
        /\ pass' = NoPass
        /\ UNCHANGED <<runtime, trial, quiet, calls>>

PassStep ==
    \/ List \/ Send \/ Anchor \/ Probe \/ Decide \/ Escalate
    \/ ListTrial \/ ExpireTrial
    \/ \E expired \in BOOLEAN, spared \in Spares : Resolve(expired, spared)

-----------------------------------------------------------------------------
(***************************************************************************)
(* What else happens to the tenant: events of the provider, the hold of an *)
(* administrator, a restore, a deletion; and the cycle's failures.         *)
(***************************************************************************)
Calls == calls < MaxCalls /\ calls' = calls + 1

(* An event writes the tenant row if it changes its status, or the channel *)
(* of the payment.  The pass under way keeps its session.                  *)
ProviderEvent(event) ==
    LET status == StatusAfter(event, account.status)
    IN  /\ Calls
        /\ EventApplies(event, account.sub)
        /\ \E age \in {0, account.age} :
               /\ status # account.status => age = 0
               /\ account' = Row(status, AfterEvent(event), age)
        /\ pass' = [pass EXCEPT !.paid = @ /\ event = "confirm"]
        /\ UNCHANGED <<runtime, trial, quiet>>

Moves(from, to) ==
    /\ account.status \in from
    /\ account' = [account EXCEPT !.status = to, !.age = 0]
    /\ UNCHANGED <<runtime, trial, pass, quiet>>

(* A transition an administrator asks for touches the row, changed or not. *)
From(to) == {s \in TenantStatuses : CanTransition(s, to)}

Suspend == Calls /\ Moves(From("suspended_admin"), "suspended_admin")
Unsuspend == Calls /\ Moves(From("active"), "active")
Delete == Calls /\ Moves(From("pending_deletion") \ Leaving, "pending_deletion")

Restore ==
    /\ Calls
    /\ ~BillingBlocked(account.status, account.sub)
    /\ Moves({"active"}, "restoring")

RestoreEnds ==
    /\ \E to \in {"active", "failed"} : Moves({"restoring"}, to)
    /\ UNCHANGED calls

(* The job is cut: by its timeout, an error or the end of the worker. *)
CutPass ==
    /\ Calls
    /\ pass.pc # "idle"
    /\ pass' = NoPass
    /\ UNCHANGED <<account, runtime, trial, quiet>>

Tick ==
    /\ pass.pc = "idle"
    /\ account' = [account EXCEPT !.age = Older(@)]
    /\ quiet' = Older(quiet)
    /\ UNCHANGED <<runtime, trial, pass, calls>>

TrialEnds ==
    /\ trial = "running" /\ pass.pc = "idle"
    /\ trial' = "over"
    /\ UNCHANGED <<account, runtime, pass, quiet, calls>>

CycleNext ==
    \/ PassStep
    \/ \E event \in {"confirm", "fail", "cancel"} : ProviderEvent(event)
    \/ Suspend \/ Unsuspend \/ Delete \/ Restore \/ RestoreEnds
    \/ CutPass \/ Tick \/ TrialEnds

CycleSpec == CycleInit /\ [][CycleNext]_cycleVars

(* Time passes, and the scheduler starts the cycles again and again. *)
FairCycleSpec == CycleSpec /\ WF_cycleVars(Tick) /\ WF_cycleVars(PassStep)

-----------------------------------------------------------------------------
(* A reminder goes out no sooner than the retry window after the last one  *)
(* on record, although every cycle lists the tenant again and other events *)
(* touch the row: what a customer may get within the window is the repeat  *)
(* of a reminder whose pass was cut before it was recorded                 *)
(* (run_billing_dunning_cycle, compute_dunning_windows).                   *)
RemindersSpaced ==
    [][Send /\ pass.retry => quiet >= Windows(pass.seen).retry]_cycleVars

(* A suspension by the cycle leaves a customer at least the shortest grace *)
(* after the recorded reminder before its own, although listing, reminder, *)
(* record and suspension read the row at different times and a pass may be *)
(* cut between any two of them (run_billing_dunning_cycle).                *)
GraceAfterReminder == [][Escalate => pass.quiet >= 4]_cycleVars

(* A payment that was applied before the pass recorded its reminder keeps  *)
(* the tenant in service, although the pass listed it as unpaid            *)
(* (run_billing_dunning_cycle, record_audit_event).                        *)
PaidBeforeReminderStays == [][Escalate => ~pass.paid]_cycleVars

(* A tenant that stays active with its subscription past due is suspended  *)
(* or settles: the grace ends.                                             *)
(* (subscription-billing-uat-matrix.md: grace expiry causes suspension.)   *)
GraceEnds ==
    account.status = "active" /\ account.sub = "past_due" ~>
        ~(account.status = "active" /\ account.sub = "past_due")
=============================================================================
