----------------------------- MODULE PageTables -----------------------------
(***************************************************************************)
(* The pages of one workspace and of the operators' console, as data: the  *)
(* lists a page loads, and for every button that sends a request           *)
(*   flag      the busy flag that disables it                              *)
(*   reload    what is fetched, step by step, after the answer             *)
(*   page, section   where it is, and the list that must be loaded         *)
(*   inside    whether an error or a load of the page hides it             *)
(*   rows      whether there is one in every row                           *)
(*   dialog    whether it opens a dialog that must be confirmed            *)
(*   phrase    where a phrase must have been typed: "none", "before" the   *)
(*             dialog opens, "inside" the dialog                           *)
(*   admin, gated    whether only administrators, and only tenants in      *)
(*             good standing, have it                                      *)
(*   statuses, subs  the tenant or subscription statuses it is there for   *)
(***************************************************************************)
EXTENDS Sequences

Rows == {"row1", "row2"}
NoRow == "-"

(***************************************************************************)
(* What pages load.  Query sections go through the query client, which     *)
(* keeps one fetch per section; the others are plain requests of the page. *)
(***************************************************************************)
QuerySections == {"tenant", "jobs", "subscription", "members", "audit"}

OverviewLoads == {"tenant", "jobs", "subscription"}
BillingLoads == {"tenant", "subscription"}
MembersLoads == {"tenant", "members"}
DomainsLoads == {"tenant", "domains"}
SupportLoads == {"notes"}
BackupLoads == {"tenant", "manifest"}
JobsLoads == {"recent"}
AuditLoads == {"audit"}
ConsoleLoads == {"directory", "letters", "metrics"}
DirectoryLoads == {"directory"}
RecoveryLoads == {"letters"}
ExecutionLoads == {"execution"}
AuditLogLoads == {"auditlog"}
DunningLoads == {"dunning"}
HealthLoads == {"snapshot"}
ServiceLoads == {"services"}
SettingsLoads == {"profile", "preferences"}
ProfileLoads == {"profile", "portal", "invoices"}
InvoiceLoads == {"statements"}

Loads ==
    [overview |-> OverviewLoads, billing |-> BillingLoads, members |-> MembersLoads,
     domains |-> DomainsLoads, support |-> SupportLoads, backups |-> BackupLoads,
     tenantjobs |-> JobsLoads, tenantaudit |-> AuditLoads,
     console |-> ConsoleLoads, directory |-> DirectoryLoads,
     recovery |-> RecoveryLoads, execution |-> ExecutionLoads,
     auditlog |-> AuditLogLoads, supportlinks |-> {}, dunning |-> DunningLoads,
     health |-> HealthLoads, services |-> ServiceLoads,
     settings |-> SettingsLoads, profile |-> ProfileLoads, invoices |-> InvoiceLoads]

Pages == DOMAIN Loads
Sections == UNION {Loads[p] : p \in Pages}

(* The Refresh button of a page, and pages that have none. *)
Refreshes ==
    [p \in Pages |->
        CASE p \in {"overview", "profile", "invoices"} -> {}
          [] p = "console" -> {"metrics"}
          [] p = "billing" -> {"tenant", "subscription"}
          [] p = "settings" -> {"profile"}
          [] OTHER -> Loads[p] \ {"tenant"}]

(* Refresh buttons that are disabled while their list is loading, and the   *)
(* Retry button of the settings, there only when the profile has failed.    *)
RefreshWaits == {"dunning", "health", "services"}
RefreshRetries == {"settings"}

(* Snapshots of several requests, which show the failed ones as empty. *)
Settled == {"snapshot", "services"}

(* Errors and loads that replace the controls of a page. *)
HidesControls == {"members", "domains", "support", "backups", "recovery"}
ShowsLoading == {"domains", "notes", "manifest", "recent", "profile"}

(***************************************************************************)
(* Reloading: the query client is told to invalidate, which fetches, and   *)
(* then asked to fetch again.                                              *)
(***************************************************************************)
InvalidateOnly(s) == <<{s}>>  \* mutant: not asked for again

InvalidateAndFetch(s) == <<{s}, {s}>>
LoadTenant == InvalidateAndFetch("tenant")
RefreshRecentJobs == InvalidateAndFetch("jobs")
LoadSubscription == InvalidateAndFetch("subscription")
InvalidateMembersAndRoute == <<{"members", "tenant"}>> \o InvalidateAndFetch("members")

Handler(flag, reload) == [flag |-> flag, reload |-> reload]

(* The handlers of the workspace pages. *)
RetryHandler == Handler("retrying", LoadTenant \o RefreshRecentJobs)
ResumeHandler == Handler("resuming", LoadTenant)
SuspendHandler == Handler("action", LoadTenant)
UnsuspendHandler == Handler("action", LoadTenant)
ResetHandler == Handler("reset", <<>>)
DeleteHandler == Handler("delete", LoadTenant \o RefreshRecentJobs)
PlanHandler == Handler("plan", LoadTenant \o LoadSubscription)
PayHandler == Handler("pay", LoadSubscription)
InviteHandler == Handler("invite", InvalidateMembersAndRoute)
RoleHandler == Handler("updating", InvalidateMembersAndRoute)
RemoveHandler == Handler("removing", InvalidateMembersAndRoute)
AddDomainHandler == Handler("adding", <<{"domains"}>>)
VerifyHandler == Handler("verifying", <<{"domains"}>>)
DropDomainHandler == Handler("removing", <<{"domains"}>>)
SaveNoteHandler == Handler("saving", <<{"notes"}>>)
ResolveNoteHandler == Handler("saving", <<{"notes"}>>)
BackupHandler == Handler("queue", <<>>)
RestoreHandler == Handler("restore", <<>>)

(* The handlers of the operators' console. *)
RequeueHandler == Handler("requeue", <<{"letters"}>>)
ExportHandler == Handler("export", <<>>)
LinkHandler == Handler("link", <<>>)
ImpersonateHandler == Handler("impersonate", <<>>)
RunCycleHandler == Handler("cycle", <<{"dunning"}>>)
ResumeRowHandler == Handler("resuming", <<{"dunning"}>>)

(* One flag for the three actions; one that is not supported closes its     *)
(* dialog like one that is done.                                            *)
MaintenanceHandler == Handler("maintenance", <<>>)

(* The handlers of the account settings show the answer itself. *)
SavePhoneHandler == Handler("phone", <<>>)
SavePreferencesHandler == Handler("preferences", <<>>)
Answers == [phone |-> "profile", preferences |-> "preferences"]

(***************************************************************************)
(* The buttons.                                                            *)
(***************************************************************************)
Statuses == {"active", "pending", "pending_payment", "failed", "suspended_admin",
             "suspended_billing", "pending_deletion"}

Plain(page, section, handler) ==
    [page |-> page, section |-> section, flag |-> handler.flag,
     reload |-> handler.reload,
     inside |-> FALSE, rows |-> FALSE, dialog |-> FALSE, phrase |-> "none",
     admin |-> FALSE, gated |-> FALSE, statuses |-> Statuses, subs |-> {}]

Confirmed(b) == [b EXCEPT !.dialog = TRUE]
AdminOnly(b) == [b EXCEPT !.admin = TRUE]
Inside(b) == [b EXCEPT !.inside = TRUE]
PerRow(b) == [b EXCEPT !.rows = TRUE]
Gated(b) == [b EXCEPT !.gated = TRUE]

RetryButton == [Plain("overview", "tenant", RetryHandler) EXCEPT !.statuses = {"failed"}]
ResumeButton ==
    [Plain("overview", "tenant", ResumeHandler) EXCEPT
        !.statuses = {"pending", "pending_payment"}, !.subs = {"past_due"}]
SuspendButton == AdminOnly(Confirmed(Plain("overview", "tenant", SuspendHandler)))
UnsuspendButton ==
    [AdminOnly(Confirmed(Plain("overview", "tenant", UnsuspendHandler))) EXCEPT
        !.statuses = Statuses \ {"suspended_billing"}]
ResetButton == AdminOnly(Plain("overview", "tenant", ResetHandler))
DeleteButton ==
    [AdminOnly(Confirmed(Plain("overview", "tenant", DeleteHandler))) EXCEPT
        !.phrase = "before"]

PlanButton == Confirmed(Plain("billing", "tenant", PlanHandler))
PayButton ==
    [Plain("billing", "tenant", PayHandler) EXCEPT
        !.statuses = {}, !.subs = {"past_due", "pending"}]

InviteButton == Gated(Inside(Plain("members", "members", InviteHandler)))
RoleButton == PerRow(Gated(Inside(Plain("members", "members", RoleHandler))))
RemoveButton == PerRow(Gated(Inside(Plain("members", "members", RemoveHandler))))

AddDomainButton == Gated(Inside(Plain("domains", "domains", AddDomainHandler)))
VerifyButton == PerRow(Gated(Inside(Plain("domains", "domains", VerifyHandler))))
DropDomainButton == PerRow(Gated(Inside(Plain("domains", "domains", DropDomainHandler))))

SaveNoteButton == AdminOnly(Inside(Plain("support", "notes", SaveNoteHandler)))
ResolveNoteButton == AdminOnly(Inside(Plain("support", "notes", ResolveNoteHandler)))

BackupButton == Gated(Plain("backups", "none", BackupHandler))
RestoreButton ==
    [Gated(Confirmed(Inside(Plain("backups", "manifest", RestoreHandler)))) EXCEPT
        !.phrase = "inside"]

RequeueButton == PerRow(Inside(Plain("recovery", "letters", RequeueHandler)))
ExportButton == Plain("auditlog", "none", ExportHandler)
LinkButton == AdminOnly(Plain("supportlinks", "none", LinkHandler))
ImpersonateButton ==
    AdminOnly(Confirmed(Plain("directory", "directory", ImpersonateHandler)))
RunCycleButton == AdminOnly(Confirmed(Plain("dunning", "none", RunCycleHandler)))
DryRunButton == AdminOnly(Confirmed(Plain("dunning", "none", RunCycleHandler)))
ResumeRowButton ==
    [PerRow(AdminOnly(Plain("dunning", "dunning", ResumeRowHandler))) EXCEPT
        !.statuses = {"pending_payment"}]
MaintenanceButton == AdminOnly(Confirmed(Plain("health", "none", MaintenanceHandler)))

SavePhoneButton == Inside(Plain("settings", "profile", SavePhoneHandler))
SavePreferencesButton == Inside(Plain("settings", "profile", SavePreferencesHandler))

Buttons ==
    [retry |-> RetryButton, resume |-> ResumeButton, suspend |-> SuspendButton,
     unsuspend |-> UnsuspendButton, reset |-> ResetButton, delete |-> DeleteButton,
     plan |-> PlanButton, pay |-> PayButton,
     invite |-> InviteButton, role |-> RoleButton, remove |-> RemoveButton,
     add |-> AddDomainButton, verify |-> VerifyButton, drop |-> DropDomainButton,
     save |-> SaveNoteButton, resolve |-> ResolveNoteButton,
     backup |-> BackupButton, restore |-> RestoreButton,
     requeue |-> RequeueButton, export |-> ExportButton, link |-> LinkButton,
     impersonate |-> ImpersonateButton, run |-> RunCycleButton,
     dry |-> DryRunButton, resumerow |-> ResumeRowButton,
     maintain |-> MaintenanceButton, phone |-> SavePhoneButton,
     preferences |-> SavePreferencesButton]

(* What a request does to the tenant when it is carried out. *)
Becomes ==
    [retry |-> "pending", suspend |-> "suspended_admin", unsuspend |-> "active",
     delete |-> "pending_deletion"]

(* The query sections that show what a request changes. *)
Changes ==
    [n \in DOMAIN Buttons |->
        CASE n \in {"retry", "delete"} -> {"tenant", "jobs"}
          [] n \in {"resume", "suspend", "unsuspend"} -> {"tenant"}
          [] n = "plan" -> {"tenant", "subscription"}
          [] n = "pay" -> {"subscription"}
          [] n \in {"invite", "role", "remove"} -> {"members"}
          [] n \in DOMAIN Answers -> {Answers[n]}
          [] OTHER -> {}]

(* The standing that blocks what is gated. *)
BlockingStatuses == {"pending_payment", "suspended_billing"}
BlockingBilling == {"past_due", "failed", "unpaid", "cancelled", "paused", "pending"}
BillingBlocked(t) == t.status \in BlockingStatuses \/ t.billing \in BlockingBilling

=============================================================================
