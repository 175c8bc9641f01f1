# Verification of the ERPNext SaaS control plane

TLA+ modules, TLC configurations and TLAPS proofs about `src/provisioning-api`,
the FastAPI service and RQ worker that sell, build, suspend, back up, restore
and delete ERPNext sites, and about `src/saas-ui`, the web console through which
customers and operators drive it. Paths below are relative to
`src/provisioning-api/app/`, or for the console to `src/saas-ui/`.

## 1. Inventory

| Part | State it keeps | Operations | Talks to |
|---|---|---|---|
| Tenant state machine (`modules/tenant/state.py`) | `tenant.status`, 13 values | `transition_tenant_status` | every writer of the tenant row |
| Billing rules (`modules/billing/lifecycle.py`, `modules/subscription/`) | `subscription.status` | derive billing, entitlement and operational state; apply confirmed, failed, cancelled | webhooks, policies, reconciliation |
| Tenant API (`modules/tenant/router.py`, `service.py`, `policy.py`) | tenant, subscription, job rows | checkout, renewal, delete, retry, backup, restore | PostgreSQL, RQ |
| Admin API (`modules/support/admin_router.py`) | tenant row, audit | suspend, unsuspend, dead letters | PostgreSQL, RQ |
| Payment webhooks (`modules/billing/webhook_*.py`) | outbox, events, attempts, invoices | parse, deduplicate, process | tenant, subscription, RQ |
| Worker tasks (`workers/tasks.py`, `modules/support/job_service.py`) | job rows, tenant row | provision, delete, restore, backup; cycles | bench, ERP, PostgreSQL |
| Bench (`modules/provisioning/`, `bench/`) | sites and databases | new-site, install-app, drop-site, restore, backup | subprocess |
| Worker process (`worker.py`) | Redis locks, due times | recover stuck jobs, schedule three cycles, consume | Redis, RQ |
| Invoices, attempts, reconciliation (`modules/billing/`) | invoices, attempts, exceptions | sync, checkout, settle, repair | ERP, gateways |
| Identity, features, notifications, audit, streams | accounts, tokens, flags, messages, logs | single requests | Redis, mail, SMS |
| Console: onboarding wizard (`app/(onboarding)/onboarding/page.tsx`) | React state, `localStorage`, timers, requests in flight | name check, submit, checkout, polling, restore after a reload | tenant API |
| Console: session (`domains/shared/lib/api.ts`, `SessionManager.tsx`, `AppShell.tsx`, `middleware.ts`) | access token, refresh cookie | three parties refresh, requests retry once, login and logout | auth API |
| Console: job panel (`domains/shared/components/JobLogPanel.tsx`) | status of one job, WebSocket, poll timer | stream, poll, refresh, change of job | job API, job stream |
| Console: workspace queues (`domains/dashboard/components/WorkspaceQueuePage.tsx`) | filter, page number, cached pages, row flags | paging, filters, retry and resume of a row, create form | query client, tenant API |
| Console: account pages (`domains/auth/`) | form, notice, error, request | sign in and up, reset, verify, impersonation link | auth API |
| Console: workspace, operator and account pages (`app/(app-shell)/app/`) | lists, busy flags, dialogs, typed phrases | load, refresh, press, confirm, reload after the answer | query client, tenant and admin API |

The tenant row is the meeting point. API requests, webhook deliveries and
worker tasks are different processes; each loads the row, decides, works
(a task for minutes) and commits. Nothing locks the row and there is no version
column: a commit writes the columns its session changed over whatever was
committed since. Between API and worker lie the job rows and the RQ queue,
written one after the other and not in one transaction.

The console is single-threaded, but not sequential: a component keeps state over
many renders, effects start timers and requests that are answered in any order,
into a page that has changed, was left or was reloaded meanwhile, and other tabs
and the API change what it shows behind its back.

What is hard in this code: those interleavings; tasks cut by a ten minute
timeout, a killed process or a database error in the middle of bench work;
except blocks that may raise themselves; RQ retries that are parked and never
run; events late, twice or crossed. `PROJECT.json` lists each of these hazards
at its line. What makes each part correct:

* tenant: a status only lies about the site where an error lied to it; announced
  work is being done;
* provisioning queue: one provisioning at a time, no job lost, none unpaid;
* tasks: every job ends, with the outcome the bench really had;
* billing: an entitlement follows from a payment, whatever the order of events;
* webhooks: each provider event takes effect, whatever is interrupted;
* invoices: a row that says paid has been paid, and a paid one comes to say so;
* wizard: it never waits for a tenant it does not have, submits only a name that
  was checked, and hears of a workspace that is live;
* session: an expired token is replaced or given up, a request ends;
* job panel: the end of a job is seen, whatever breaks;
* queues: the page shown exists;
* create form: one workspace for one submit;
* pages: a button that was pressed is enabled again, and the page shows what its
  request did;
* cycles: reminders and suspensions keep their distance, a paying tenant is not
  suspended, an unpaying one is;
* schedulers: a cycle is enqueued when it is due, and once unless something broke.

## 2. Modules

| Module | Models |
|---|---|
| `TenantState` | the transition table, `CanTransition` |
| `BillingLifecycle` | the derived states, the guards `PaymentConfirmed` and `BillingBlocked`, and the effect of the three events |
| `TenantProvisioning` | the core: one tenant, its subscription, site, job rows and queue; API calls and worker tasks |
| `DeletedSite` | the abstract promise about deletion |
| `InvoicePayment` | the ERP invoices of one provisioned tenant: payment attempts, webhooks with their outbox, settlement, resynchronisation, the reconciliation cycle |
| `BillingCycles` | the dunning and the trial cycle over one tenant, and what happens to it meanwhile |
| `BillingCyclesProofs` | theorems about the dunning cycle |
| `InvoicePaymentProofs` | theorems about attempts, invoices and webhooks |
| `BillingLifecycleProofs` | the statuses a payment event writes, for the two above |
| `SchedulerLease` | a scheduler thread of every worker process: lease, due check, enqueue |
| `SchedulerLeaseProofs` | theorem about the lease |
| `BillingBackend` | `InvoicePayment`, `BillingCycles` and `SchedulerLease` side by side, and their instance for TLC |
| `MCTenantProvisioning` | instances for TLC |
| `TenantProvisioningProofs` | theorems about the core: types, deletion, outcomes |
| `TenantJobsProofs` | theorems about its jobs and messages, and what a tenant status promises |
| `Onboarding` | the onboarding wizard: page state, effects, polling loop, storage, and the tenants its requests create |
| `OnboardingForm` | the wizard's other fields: company, plan, chosen app and the catalog they come from |
| `OnboardingProofs` | theorems about the wizard |
| `BrowserSession` | token, refresh cookie, the parties that refresh, one API request, the shell |
| `JobPanel` | stream, polls and refreshes of one job after another |
| `WorkspaceQueue` | the nine queues, their pages, the query cache, row actions |
| `WorkspaceForm` | the create form and its request with the compatibility retry |
| `AuthPages` | the six public account pages and the account behind them |
| `PageTables` | the workspace, operator and account pages as data: what each loads, and for each button its flag, guard, dialog, request and reload |
| `PageActions` | one of those pages at work: loads, presses, dialogs, answers, reloads beside a server that changes |
| `WebConsole` | the eight console parts over one browser, and their instance for TLC |
| `ConsoleProofs` | theorems about the forms, account pages, queues and pages, and about the composition |

`TenantProvisioning` EXTENDS `BillingLifecycle`, which EXTENDS `TenantState`;
it INSTANCEs `DeletedSite` with the mapping `gone <- tenant = "deleted"`,
`site <- site`, `left <- left`.
`InvoicePayment` EXTENDS `BillingLifecycle` too and takes from it what a payment
event does to the tenant and the subscription. The two components meet in that
row: `TenantProvisioning` has the road to the site and no invoices,
`InvoicePayment` the road from an invoice to the tenant status, with the site
built. `BillingCycles` EXTENDS the same rules and has the road from time and
missing payments to a suspension. `SchedulerLease` is what starts the cycles.
`BillingBackend` EXTENDS these three; its behaviours are those of one of them
(`part`), with the others standing still.

### State and code

| Variable | Code |
|---|---|
| `tenant`, `sub` | `Tenant.status`, `Subscription.status` |
| `site` | whether the pooled bench holds the tenant's site |
| `jobs`, `created` | `Job` rows in order of creation: `type`, `status`, whether `rq_job_id` is set |
| `queue` | the `provisioning` RQ queue |
| `worker` | per worker process: where it is in a task, and whether it is inside an except block |
| `req` | per call: where it is, and the columns its session changed (`to`, `pay`) |
| `faults` | failures so far, bounded by `MaxFaults` |
| `left` | history: a deletion took an error for the site's absence, and the site is still there |
| `parked` | history: the jobs whose message ended in RQ's registries, which nobody reads, while their row was queued |
| `crossed` | history: a call looked for a create job while another was between its own look and storing the RQ id |

No guard reads the history variables; the properties do, to say exactly when what
they promise is given up.

### Actions and code

An action is what happens between two accesses to something shared.

| Action | Code |
|---|---|
| `Call` | the guards of a request and the statuses it computes from the row as read: webhook events, checkout renewal, delete, retry, backup, restore, suspend, unsuspend |
| `Write` | its commit |
| `Find`, `Insert`, `Enqueue`, `Stamp` | `enqueue_provisioning_for_paid_tenant` and its siblings: look for a live create job, commit a row, push the message, store the RQ id |
| `Dequeue`, `MarkRunning` | the worker takes a message off the queue; `mark_job_running` commits |
| `Begin`, `Enter` | the transition into provisioning, deleting or restoring, checked and committed |
| `Work` | the bench commands, with success, partial success and failure; `SiteNotFound`, the failure of a deletion whose output `_is_delete_site_not_found` takes for the site's absence |
| `Finish`, `Land` | the final transition, checked and committed |
| `Success`, `After` | `mark_job_success`, then routes, audit and notification, still inside the `try` |
| `Handle`, `Fail`, `FailJob` | the except blocks: to failed if the table allows it, then `mark_job_failed`; a refusal there escapes the task |
| `Timeout`, `Lose`, `Abort` | RQ's timeout, a killed worker or broken session, a dead API call |

### `InvoicePayment`

| Variable | Code |
|---|---|
| `erp` | the sales invoices in the platform ERP |
| `invoice` | `billing_invoices`: status, amount due and paid date, which change together |
| `attempts`, `recent` | `payment_attempts`, and their order by `updated_at` |
| `checkout`, `mail` | the provider's page of each attempt, and the notices it still owes: of its payment, and of a first try that was declined |
| `outbox` | `payment_event_outbox.status`, of each event made of a notice |
| `tx` | per agent, the transaction it is in: the rows it loaded, what the ERP said, what it decided |

| Action | Code |
|---|---|
| `Fetch` | rows loaded and the ERP asked (`resync_one_invoice`, `sync_platform_invoices_for_tenant`) |
| `StoreView` | the endpoints that show invoices commit what they fetched |
| `CheckPayable`, `OpenCheckout` | `create_payment_attempt_for_invoice`: flush, which locks the row, and check; then the gateway and the commit |
| `Compare`, `Reconcile` | `reconcile_invoice_settlement`: flush and read the attempt; probe the runtime, repair and commit |
| `CycleTenant`, `CycleInvoice` | `run_billing_reconciliation_cycle` with its filter, the tenant's invoices one by one, a commit after each |
| `Receive`, `Context`, `Apply`, `MarkProcessed`, `Answer` | `handle_gateway_webhook`: `parse_webhook` of the gateway (`Parsed`) and the outbox row; the attempt and the ERP; settlement and commit; the outbox row again; the response |
| `Pay`, `Decline`, `Book`, `Credit` | customer, provider and accountants (external) |
| `Interrupt` | a transaction cut by an error or a dead process; the except block may mark the outbox row failed |

A commit writes the columns whose value differs from what the session loaded
(`Stored`), so a stale session overwrites only what it changed. The flush of a
resync always changes `last_synced_at` and so holds the row until the commit:
this lock, which no code asks for, is what keeps two calls from opening two
checkouts, and the variant `CheckUnlocked` shows it is needed.

Abstractions: an invoice is open, paid or credited (no partial payments); a
fetch is one step, as the ERP only ever moves away from open; the ERP answers;
the subscription is not cancelled (a cancelled one refuses every event, see the
hazards); the probe of the runtime tells the truth; the whole tenant fits one
list of invoices; deliveries are handled one at a time (one API process).

What a notice becomes is the gateway's: dpo's `parse_webhook` asks the provider
for the state of the payment and does not read the notice, so the decline of a
first try, delivered or delivered again after the payment, is a confirmation (the
event `late`, with an outbox row of its own, since the digest of its payload and
so its key differ). `handle_payment_failed` itself overwrites a paid attempt
without a look (`webhook_application_service.py:400`); the variant `ParsedAsSent`
shows that the question to the provider is all that prevents it. The model
assumes that dpo answers, and answers paid once a payment was made; the mock mode
of the gateway, which takes everything for paid, is for development and left out.

With `Provider = "dpo"` the event carries the token of its attempt; with
`"azampay"` it names none and goes to the latest active attempt
(`webhook_application_service.py:228`), which only declines get to, as azampay's
confirmations cannot be stored (`LongKey`). `KeyLength` is the length of
the dedup key when the event has no subscription id; a longer key only fails
more often. The database refuses what is wider than `KeyWidth`, as PostgreSQL
does. The core model has no outbox and so describes deliveries that pass it.

### `BillingCycles`

| Variable | Code |
|---|---|
| `account` | `Tenant.status`, `Subscription.status`, and the time since `Tenant.updated_at` |
| `runtime`, `trial` | whether the bench holds the site; whether `trial_ends_at` is past |
| `pass` | the cycle that runs: its place, the rows in its session, whether a commit has expired them, and the two decisions of `resolve_dunning_context` |
| `quiet`, `pass.quiet`, `pass.paid` | auxiliary: the time since the last recorded reminder, now and when this pass recorded its own; whether a payment was the last word on the subscription then |

| Action | Code |
|---|---|
| `List`, `Resolve`, `Send`, `Anchor`, `Probe`, `Decide`, `Escalate` | `run_billing_dunning_cycle`: the query and its two filters; the windows; the reminder; the new anchor and the commit of the audit event; the probe of the site; the last condition; the suspension, forced where the table refuses it |
| `ListTrial`, `ExpireTrial` | `run_trial_lifecycle_cycle`: the subscription as it was loaded, then past due, and the tenant to pending_payment or suspended_billing where the table allows it |
| `ProviderEvent` | one of the three webhook events, applied by the rules of `BillingLifecycle` |
| `Suspend`, `Unsuspend`, `Delete`, `Restore`, `RestoreEnds` | `suspend_tenant`, `unsuspend_tenant`, `enqueue_delete`, the worker's `restore_tenant` |
| `CutPass` | the job of the cycle ends early |
| `Tick`, `TrialEnds` | the clock |

The session of a cycle is where its hazards are. `record_audit_event` commits, and
a commit expires every row the session holds: the row of the next tenant is then
loaded when its turn comes, and that of the present one when it is next named.
Without a commit the rows stay as they were listed. `Resolve(expired, _)` has
both, because whether a tenant before this one was reminded is not modelled;
`Anchor` commits, and a turn without a reminder does not; `Probe` and `Decide`
read what was loaded or load again. So the grace is decided on the row before the
reminder, the status on the row at the probe and the subscription on the row at
the decision.

Between `Send` and `Anchor` nothing is written: a pass that is cut there leaves a
reminder without a record, and the next one, half an hour later, finds the tenant
due and sends it again. What is promised about reminders is
therefore about those on record.

Abstractions: time in units of six hours, the shortest window, and none passes
during a cycle, whose job ends after ten minutes; ages beyond three days, the
longest window, are not told apart; one cycle at a time, as one worker runs
them; the ERP's latest invoice may extend the grace (`spared`) and does nothing
else; a bench is asked and answers; dry runs, mails, the trial warnings and the
summaries are left out.

### `SchedulerLease`

| Variable | Code |
|---|---|
| `lease` | the leader key in Redis: owner id and whether it expires |
| `stamp` | `last_enqueue_ts`: less than an interval ago, or due |
| `thread` | where the scheduler thread of each worker process is |
| `broken` | failures so far, bounded by `MaxBroken` |
| `credit` | auxiliary: due intervals and broken turns, less the cycles enqueued |

| Action | Code |
|---|---|
| `TakeLease`, `ReadLease`, `RenewLease` | `_acquire_or_renew_lock`: `SET NX EX`, `GET` and comparison, `EXPIRE` |
| `CheckDue`, `EnqueueCycle`, `StampEnqueue` | `_enqueue_dunning_cycle_if_due` and its two siblings |
| `IntervalPasses`, `LeaseLapses` | the clock and Redis |
| `LeaseLostInTurn`, `RedisError`, `Crash`, `Restart` | a turn longer than the lease; an error, which the loop logs; the end of a process, and its restart by docker-compose |

The three schedulers are the same code over keys and settings of their own, so
one is modelled. The clock is left out: a lease may lapse and an interval pass
at any time, except that the lease of a thread in a turn lapses only in
`LeaseLostInTurn`, which counts as a failure (a turn is a few Redis commands, a
lease 30 seconds or more). The stored time's own expiry is eight intervals away
and left out: a missing time is a due one.

### The console

React runs one handler at a time and then commits: the effects whose
dependencies changed are cleaned up and run again. An action of the console
modules is therefore one handler, timer or answer together with the commit it
causes; `Settle` (`Onboarding`), `PanelCommit`, `FormCommit`, `DraftCommit` and
`Render` are those commits. A cleaned-up effect ignores its answer, so its request
is dropped from the set of requests in flight; one that is not guarded that way
stays, and meets whatever the page has become. A request the page no longer hears
may still be carried out.

| Module | Variables | Actions |
|---|---|---|
| `Onboarding` | `wiz` the React state, `asks` requests in flight, `saved` the stored snapshot, `sites` what each name is to this user | `Mount` and `LeaveWizard` (load, reload, leave); `TypeName`, `Continue`, `Back`, `Submit`, `LaunchCheckout`, `ClaimPaid`, `RenewCheckout`, `RetryProvisioning` (buttons); `Answer*` (one per request); `FireTimer`, `Hide`, `Show` (polling loop and `visibilitychange`); `SiteMoves`, `SiteTaken` (control plane) |
| `OnboardingForm` | `form`, `catalog`, `sent` | mount over any stored form, edits, catalog and profile answers, the submit |
| `BrowserSession` | `token`, `jar`, `refreshes`, `req`, `screen`, `shell` | `ManagerRefreshes` every minute, `ShellChecks`, `StartRequest` .. `RetryRefused`, `ServeRefresh` (revokes the token it was sent), `SignIn`, `Logout`, `Visit`, `Age` |
| `JobPanel` | `panel`, `socket`, `timers`, `reads`, `jobs` | `GiveJob`, `PanelVisibility`, `RefreshButton`, `PollTimer`, `ReadAnswered`, `StreamOpens`, `StreamDone`, `StreamBreaks` |
| `WorkspaceQueue` | `queue`, `rowCache`, `fetches`, `listed` | `OpenQueue`, `ChangeFilter`, `TurnPage`, `RefetchQueue`, `FetchAnswered`, `FetchFailed`, `RetryRow`, `ResumeRow` and their answers |
| `WorkspaceForm` | `draft`, `post`, `built` | edits, `DraftSubmit`, `BuildPosted`, `LosePost`, `RetryWithoutChosenApp`, `PostAnswered` |
| `AuthPages` | `pane`, `calls`, `account` | opening a page or link, `SubmitAuth`, answers and failures, leaving |
| `PageActions` | `desk` the page, `views` of each list the state read and its fetches, `asked` handlers under way, `past` the server's states | `OpenPage`, `RefreshPage`, `PollRecentJobs`, `ViewAnswered`, `ViewFailed`, `PressButton`, `TypePhrase`, `ConfirmDialog`, `CancelDialog`, `RequestDone`, `HandlerContinues`, `RequestFailed`, `ServerMoves` |

`PageTables` is data: a page is the set of lists it loads, a button a record. The
lines `map` names for a button are its handler and its JSX; the record holds what
the properties tell apart. `PageActions` gives it its meaning: a press sets the
flag, the answer starts the reload step by step, and the flag is cleared by the
handler's `finally`. A fetch remembers the server state it was sent in; the
query client joins, cancels or keeps it as `InvalidateAndFetch` says. What a page
shows is the index of the server state it has read, so that showing the effect of
a request is comparing two numbers.

**Abstractions of the console.** Texts, layout, toasts and figures are left out. A
name is a model value with or without three characters. The wizard's error
notices are left out; what an answer does to step, tenant, status and timers is
kept. A token's life is one of fresh, near, last, expired, the thresholds of the
code (ten minutes, one minute). One page of a queue holds one row. One API
request stands for all. A late poll that is answered after its timer's successor
fired is merged with it (one timed poll at a time). The query client is modelled
from its use (`invalidateQueries`, `fetchQuery`, `refetch`).

**Composition.** The parts share nothing inside one visit (each is a page or a
component that is mounted alone, and `localStorage` keys are disjoint), so
`WebConsole` opens one part a visit (`tab`) and its behaviours are those of the
parts. `BrowserSession` says what becomes of any request of the others.

### Abstractions of `TenantProvisioning`

* One tenant: tenants share no rows that these operations touch.
* The checkout request is atomic in `Init` (fresh tenants are pending or
  pending_payment, trialing or pending as the trial setting says); a live
  tenant was provisioned and backed up once.
* The pooled strategy only; a bench command that returned has no later effect.
* A failure of `drop-site` may come before or after the site is gone, and its
  output may or may not hold one of the markers, whatever became of the site: the
  texts of bench are not modelled, and a missing site, user, database or file all
  read the same to `_is_delete_site_not_found`.
* `append_log` commits the session, so each status check in a task reads the
  row as it is then; the gap kept is the one between the check and the commit.
* A succeeded backup job stands for its manifest; the plan's backup limit is
  left out (it only refuses more backups).
* Attempts and invoices are those of a tenant without ERP invoices when a guard
  reads the entitlement (`TenantEntitlement`); the full case analysis over invoice
  and attempt states is the operator `BillingState` of `BillingLifecycle`.
* The worker is up. `worker.py:52` filters stuck jobs on `Job.updated_at`, which
  the model class does not declare; the process would end there at every
  start. The model describes a worker past that line.

## 3. Runs

The first five runs use module `MCTenantProvisioning` and one worker (as
`docker-compose.yml` deploys), `Invoices` and `Settlement` use `BillingBackend`,
`GraceDeferred` `BillingCycles`, `PaidTwice` and `LongKey` `InvoicePayment`, the
last `WebConsole`. All say
`CHECK_DEADLOCK FALSE`: a call is handled once, so the system stops when there is
nothing left to do, and a page stands still when nobody touches it.

| Run | Instance | Shows |
|---|---|---|
| `Deletion` | new or live tenant, 3 calls of any kind, 2 at once, 1 failure | `TypeOK`, `OnlyMisreadLeavesSite`, `StampedJobsHaveMessages`, `SuccessIsReal`, and the refinement `KeepsDeletionPromise` |
| `FreshTenant` | new tenant, 3 calls of any kind, 2 at once, no failure, fairness | `NothingBuiltUnpaid`, `TransitionalHasRunner`, `OneProvisioningAtATime`, `DeletionSettles`, `JobsEnd` |
| `UnsuspendedTenant` | live tenant, no suspension by an administrator and no event that suspends, 1 failure | `ActiveHasSite` |
| `RetryCrosses` | confirmations and retries of a new tenant, webhooks one at a time | violation of `OneCreateJob` |
| `SuspendedUnbuilt` | suspend and unsuspend only | violation of `ActiveHasSite` |
| `WorkerKilled` | one payment, one failure | violation of `JobsEnd` |
| `Invoices` | payments: two invoices, one of which may be credited, two payments, no interruption | `TypeOK`, `PaidTellsTruth`, `OpensAfterTheLast` |
| | cycles: three events, calls or cuts of a cycle between any of its steps | `RemindersSpaced`, `GraceAfterReminder`, `PaidBeforeReminderStays` |
| `Settlement` | payments: one invoice, one payment after any declined try, one view or reconciliation, one interruption, fairness | `AckedIsBooked`, `ConfirmedIsProcessed`, `ReconciledInTheEnd` |
| | lease: two worker processes, two failures, fairness | `CyclesAreOwed`, `CyclesComeAgain` |
| `GraceDeferred` | one call besides the cycles, no invoice in the ERP, fairness | violation of `GraceEnds` |
| `PaidTwice` | one invoice, two payments | violation of `ChargedOnce` |
| `LongKey` | one payment through azampay, fairness | violation of `ConfirmedIsProcessed` |
| `WebConsole` | each console part, one a visit, fairness | see below |

| Property of `WebConsole` | Says |
|---|---|
| `WizardTypeOK` | the polling loop counts within its limit, sites and steps are what the page provides for |
| `StepHasTenant` | past the plan page, on screen and in storage, there is a tenant |
| `SubmitsWhatWasChecked` | a create request carries the name whose own check said it is free |
| `SavedTenantKept` | a stored tenant is forgotten only when it is live or a request for it failed |
| `LiveReachesWizard` | a live workspace reaches a page that polls |
| `SubmitsWhatIsShown` | the app submitted is the one highlighted, whatever was stored and loaded |
| `ExpiredIsReplaced`, `RequestEnds` | an expired token is replaced or cleared; no request waits for a refresh that never comes |
| `JobEndIsSeen` | a visible panel without a live stream learns that its job is done |
| `PageInRange` | the page number shown exists |
| `OneWorkspacePerSubmit` | the compatibility retry never builds a second workspace |
| `OneOutcomeShown`, `NoticesAreTrue` | an account page does not show success and error together, and what it reports has happened |
| `HandlerShowsItsEffect` | a handler that reloaded without error leaves its page at a state no older than its request |
| `BusyHasHandler` | a disabled button has a handler that will enable it |
| `DeletionRetyped` | the phrase of an acknowledged deletion asks for no second one |

**Bounds.** Three calls: two can cross and a third can take effect while a task
they started is running, which is what every hazard above needs. `MaxJobs`
leaves a row for each call (a live tenant starts with two rows). One failure
anywhere reaches every except block and every interrupted step; a second one
only repeats the first, as a failed task has no step left but its end.
Calls are interchangeable, and `Permutations(Requests)` is used as symmetry
where only safety is checked.

In `InvoicePayment` two invoices are what a misdirected event needs and two
payments what a double checkout needs; one interruption reaches every gap
between a commit and the outbox, and a second only repeats a delivery.

In `BillingCycles` three calls are a trial released by an administrator, an event
and another inside the cycle. `RemindersSpaced` is about the anchor that cycles
and events share; `GraceAfterReminder` is about the difference of the windows,
the least of which is a day; both count from reminders on record, wherever a pass
was cut. `PaidBeforeReminderStays` holds since the record of a reminder is a
commit, and what is read after it is current. A payment after that is not
protected: the decision may be taken on a row loaded before it. In
`SchedulerLease` the second process is who takes over, and the second failure
hits the one that did. `CyclesAreOwed` bounds from above how often cycles are
enqueued, for any interleaving of the three commands of a renewal: it is not
that only one thread is in a turn, which is false.

In `WebConsole`: two free names and a short one are what a late check needs, and
`NamesNext` visits the wizard with all of them and no polling, `PollsNext` with
one and all the polling; `MaxPolls = 2` has one poll before the last. The
statuses left out of `SiteStatuses` behave like failed (`TerminalStatuses`) or
provisioning for the page. Two jobs are what a late answer of another job needs.
All nine queues are opened (`VisitedQueues`). `QueueStatuses` has one status for
each queue the workspace may leave or enter. `VisitedConditions` has a tenant with
and without the buttons that depend on status and billing. `MaxPast = 2` server
states beyond the first give each of two requests its effect; two requests of a page
at once (`MaxAsked`), one where its reload has several steps. In the modules:
one submit, renewal or retry of the wizard in flight (their buttons share no flag,
but each is offered on a step of its own), two refreshes in flight, one list
failing at a time. The proofs of section 4 keep the bounds of the modules and lift
those of the instance: names, statuses, polls, queues, conditions, server states
and requests of a page.

**What the restrictions of a run mean.** `ActiveHasSite` is false of the whole
system (see `SuspendedUnbuilt`): every way to a suspension gives unsuspend a
tenant it should not activate, so `UnsuspendedTenant` leaves suspensions out and
shows that nothing else breaks it. `TransitionalHasRunner` and `DeletionSettles`
hold without failures only: a killed worker leaves the status behind.
`OneProvisioningAtATime` holds as long as nothing has failed and no two calls that
provision have crossed (`crossed`); both conditions are in the property. Nothing
keeps them from crossing: the webhook routes are `async` functions that do not
await between the search for a live job and its insertion, so the event loop of
one API process handles them one after the other, but retry is a thread-pool
endpoint. `RetryCrosses` grants the webhooks that order (`Serial`, the set of
operations of which one is handled at a time) and still finds two create jobs; in
every other run `Serial` is empty and any calls cross. `OnlyMisreadLeavesSite` and
`SuccessIsReal` except a site that an error hid from its deletion (`left`): no
other way leads there. `StampedJobsHaveMessages` counts as its message the one a
worker holds and the one RQ put aside because that worker failed before it marked
the job (`parked`): after such a failure the row stays queued for ever and the
enqueue guard skips it. No call that dies does that. `JobsEnd` is about tenants
that are not being deleted: a task that finds its tenant deleted raises out of its
own except block and its job stays running, and so does a delete task that takes
an error for the site's absence after a call read before the deletion has
overwritten deleting (`workers/tasks.py:370`).

**Fairness.** Weak fairness of each call's steps and of each worker's steps:
a request handler that has started runs to its answer, and `worker.work()` loops
for as long as the process lives. No fairness for `Call` (nobody must call), nor
for `Abort`, `Timeout` and `Lose`. In `InvoicePayment`: the scheduler starts the
cycle again and again (weak), a transaction that was started goes on, through
row locks that PostgreSQL grants in the order they were asked for (strong), and
a provider repeats a delivery until it is answered (weak). Nobody has to pay,
decline, book, credit or call. Of the cycles: time passes and a cycle that can
take a step does (the scheduler enqueues it every 30 minutes and the worker runs
it). Of the lease: each thread goes on polling, intervals pass, a process that
ended is started again (`restart: unless-stopped`), and Redis expires the lease of
one that is gone; a lease whose owner lives need not lapse. In the console: a timer that is pending fires and
a request is answered or fails (`fetch` settles), weakly; the session manager's
interval fires; a poll of the job panel that is repeated for ever is answered at
some time with the job's state (strong: each answer may be lost, not all of
them). Nobody has to press, type, show a hidden tab or come back.

### Disagreements between code and documents

1. `SuspendedUnbuilt`: `unsuspend_tenant` (`modules/support/admin_router.py:1242`)
   moves to active whatever the tenant was; suspending a tenant that was never
   built and lifting the suspension makes it active, where
   `docs/tenant-lifecycle-billing-gates-2026-04-16.md` says active is usable.
2. `GraceDeferred`: a reminder sets `tenant.updated_at` (`workers/tasks.py:895`),
   the anchor of the grace as well (`modules/support/dunning.py:58`). With a cycle
   every 30 minutes an active tenant that is past due is reminded every 12 hours,
   and its grace of 48 never ends, unless an invoice of the ERP says otherwise
   (which can only extend it). The UAT matrix (BILL-UAT-017) says the end of the
   grace suspends.
3. `WorkerKilled`: a killed worker leaves its job running for ever
   (`workers/tasks.py:98`); the user journey promises that it is moved on.
4. `PaidTwice`: until the ERP books a confirmed payment, its sync reopens the
   invoice and `create_payment_attempt_for_invoice`
   (`modules/billing/payment_attempt_service.py:58`) opens a second checkout;
   `production-user-journey.txt` says the second charge is rejected.
5. `LongKey`: the dedup key of a confirmation by azampay, the default provider,
   has at least 129 characters and its column 128
   (`modules/billing/webhook_normalization.py:58`, `models.py:194`); on PostgreSQL
   every delivery fails before anything is recorded. The tests run on SQLite,
   which ignores the width.
6. `RetryCrosses`: the provisioning of a paid tenant fails while a second
   confirmation is being handled; the owner's retry crosses it, both look for a
   create job before either inserts one (`modules/tenant/service.py:193`), and
   there are two. `docs/p1-6-wave-1-6-outbox-reliability-review.md` says webhook
   retries create no duplicate provisioning jobs.

### Behaviour met while modelling

These follow from the code and are in the models; no run is spent on them.

* Trials: `enforce_retry_policy` (`modules/tenant/policy.py:162`) lets a failed
  trial tenant provision without a payment, and a deletion of a tenant that was
  never built can make it failed. `NothingBuiltUnpaid` is therefore checked of
  tenants without a trial.
* Deletion: a failure of `drop-site` whose output says of anything that it "does
  not exist" counts as a deletion (`workers/tasks.py:75`, `368`): tenant deleted,
  job succeeded, site possibly there, where `docs/user-guide.md:124` says a
  successful delete removes the site's data. `OnlyMisreadLeavesSite` and
  `SuccessIsReal` name this exception.
* Dunning: a reminder is sent (`workers/tasks.py:880`) before anything of it is
  stored (895-909): a pass cut in between leaves no trace of it, where the UAT
  matrix (BILL-UAT-016) expects a notice to be logged, and the next repeats it.
* Dunning: the suspension overrides a refused transition (`workers/tasks.py:924`)
  and so turns suspended_admin into suspended_billing, which a payment lifts.
  A tenant that pays and is set unpaid again during a cycle may be suspended on a
  grace of its earlier state.
* Wizard: a retry after failed sets the step it already has, no effect runs, and
  the page stays at failed until a reload (`onboarding/page.tsx:391`, `523`).
  Any error of the restore drops the stored tenant (176-183). A reload during
  the submit orphans the tenant it creates. A late answer of a renewal overwrites
  the status of a page that is past it.
* Session: of two concurrent refreshes the loser's 401 clears the winner's token;
  the session manager clears a live token on a network error; a refresh answered
  after logout signs in again; a wrong password's 401 clears the token; an
  impersonation ends silently at the next refresh.
* Job panel: a late answer of the previous job is shown for the present one, and
  a stream that ends without its end marker (`ws_router.py:78`) leaves a live
  panel waiting.
* Queues: Next on a page that is still loading returns to page 1
  (`WorkspaceQueuePage.tsx:171`, `199`); retry and resume of a row stay disabled
  after their first use (815, 831); `billingQueueCount` counts a workspace twice
  (`workspaceQueue.ts:113`); pending_deletion is in no work queue.
* Create form: the compatibility retry has a new idempotency key; what keeps it
  from building twice is only that it follows a refusal of the field
  (`api.ts:349`).
* Account pages: a lost answer of a verification or reset shows an error though
  the token is used up and the change made.
* Pages: a failed action of the members page hides all controls
  (`members/page.tsx:112`); dialogs check the phrase and the billing gate when
  they open and not when confirmed (`overview/page.tsx:306`); one flag for all
  rows re-enables another row's button; the plan choice of the billing page is
  not the loaded plan (`billing/page.tsx:51`); plain loads have no ordering guard,
  so the older answer may win; a platform health snapshot shows parts that failed
  as empty (`platformHealthUseCases.ts:27`); preferences loaded late overwrite
  saved ones (account settings, 74-89); the requeue of a dead letter wipes the
  error of its own reload (`useAdminConsoleController.ts:297`).

## 4. Proofs

`TenantProvisioningProofs` proves, for any set of calls and operations, any
number of jobs, any concurrency and any number of failures:

| Theorem | Assumes | Says |
|---|---|---|
| `TypeCorrect` | nothing but `ConstantsAssumption` | `Spec => []TypeOK`, for any number of workers |
| `DeletionIsSafe` | `SingleWorker` | `Spec => []OnlyMisreadLeavesSite` |
| `SuccessIsTold` | `SingleWorker` | `Spec => SuccessIsReal` |
| `PromiseIsKept` | `SingleWorker` | `Spec => KeepsDeletionPromise` |

`SingleWorker` is the deployment; with two workers a provisioning and a deletion
of one tenant can run side by side and the three statements are false.

**Argument.** `TypeOK` is not inductive alone: `Bookkeeping` adds that messages,
calls and tasks refer to job rows that exist (`RowsExist`, `QueueRefers`,
`Placed`) and that a call's phase fits its operation (`CallPhase`). It is
preserved for any number of workers. `Inv` adds `OnlyMisreadLeavesSite`, that
`left` is only said of a site that is there, and `TaskSite`, which says what a task
between two steps may rely on: until its job is marked succeeded, a delete task
past its bench work has no site behind it, or one that an error hid (`SiteAsTold`),
and any other task past it has one; during the work of a task that changes the
site the tenant is not deleted.
The reason is that `site` only changes in `Work` and `Lose` of the one worker,
while calls change only statuses and can never write deleted: they reach at most
pending_deletion or suspended_billing. Each action has one lemma; refinement
maps `Work` to `Build`, `Drop` or `Misread`, `Land` of a deletion to `Bury`, `Write`
of a cancellation over a deleted tenant to `Reopen`, and everything else to a
stutter.

`TenantJobsProofs` builds on it:

| Theorem | Assumes | Says |
|---|---|---|
| `StampIsTrue` | nothing more | `Spec => []StampedJobsHaveMessages` |
| `NoPaymentNoSite` | `~TrialEnabled` | `Spec => []NothingBuiltUnpaid` |
| `StatusHasRunner` | nothing more | `Spec => [](faults = 0 => TransitionalHasRunner)` |
| `ServedHasSite` | `SingleWorker`, no suspensions in `Ops` | `Spec => []ActiveHasSite` |
| `ProvisionedOnceAtATime` | nothing more | `Spec => []OneProvisioningAtATime`, which says `faults = 0 /\ ~crossed =>` itself |

Four of them hold for any number of workers. The hypotheses are those of the runs,
and section 3 says what happens without them: a trial is provisioned unpaid, a
suspension makes an unbuilt tenant active (`SuspendedUnbuilt`). `faults = 0` says
that nothing has failed so far, which is more than a run with `MaxFaults = 0`
shows: a behaviour keeps these promises up to its first failure, however many it
may have later.

**Argument.** Each has an inductive invariant of its own on top of `Bookkeeping`,
and TLC finds each invariant on the instances above.
`StampInv`: a call that is about to stamp a job that is still queued has sent its
message (`Sent`), which is in the queue, with a worker or put aside; it leaves the
queue for a worker, and the worker only by running its job or being put aside.
`UnpaidInv`: before the first payment is written no call is looking for or
inserting a create job, and the one that confirms the payment still has to write
it: the write comes before the search in `handle_payment_confirmed`.
`RunInv`: a status that says work is under way has the task that entered it
between its entry and its last write (`Runs`), and an exception was caught only
late enough for the handler to leave that status again (`CaughtLate`).
`ServedInv`: no call carries active or a suspension to its write, so only `Land`
makes a tenant active, with the site that `TaskSite` gives it; a deletion at its
bench work has taken the tenant out of service.
`CreateInv`: as long as none has crossed, the call between its search and its
stamp is the only one (`AloneToProvision`); and while nothing has failed either,
there is one create job to run (`OneToRun`) with one message (`OneMessage`), a
call about to insert has found none and one about to push has the only one
(`Ready`), a create job without its RQ id has the call that stores it
(`UnstampedHeld`, without which the guard on the id would push it twice), and one
task has the job that runs, or is about to, with no message left (`OneTask`).

`InvoicePaymentProofs` proves, from `PaymentAssumption` alone, for any number of
invoices, calls and interruptions, any credits, any answers of the probe and either
provider:

| Theorem | Says |
|---|---|
| `PaymentTypes` | `Spec => []TypeOK` |
| `PaidIsTrue` | `Spec => []PaidTellsTruth` |
| `AckedIsTrue` | `Spec => []AckedIsBooked` |
| `OneOpenAtATime` | `Spec => OpensAfterTheLast` |

**Argument.** `Bookkeeping`, with its theorem `BooksAreKept`, is what all four
stand on: `recent` lists each attempt once (`Listed`), each attempt was opened by
a call that is over (`Counted`, so there are never more attempts than numbers), a
transaction at each of its steps holds what that step needs (`Formed`: rows of the
invoices it touched, an attempt that exists, its invoice), and pages, notices and
outbox rows follow from each other, the notice in hand included (`Posted`). With
azampay no confirmation gets into the outbox, its key being too wide
(`KeyLength`), so what is said of handled confirmations concerns dpo, whose events
name their attempt.
`TruthInv`: every copy of a row that a transaction holds, as loaded or as the ERP
answered, says paid only for a reason (`Reads`), and no reason is ever taken back;
so whichever copy a stale session writes, it writes the truth.
`BookedInv`: an attempt is booked when its confirmation was answered, when its
outbox row is processed, while a webhook is past its commit, and when the webhook
read it as paid and will therefore leave its column alone (`Confirmed`); and while
a failure is being handled none of this has happened (`Declining`), because dpo
was asked when it came, said the attempt was not paid, and no confirmation
overtakes the webhook that is being handled. The reconciliation only makes it paid
or an operator's.
`LockInv`: no row is locked by two (`Held`), an attempt the webhook read as closed
is closed, and what a call checked before its checkout stays so (`Checked`): while
it holds the row nobody opens an attempt of that invoice, and an update of any
attempt closes it, so it may change which attempt is the latest but not to an open
one. The lemmas about `LatestIn` and `Touch` (`LastAmongAppended`,
`LastAmongMoved` and others) say which attempt is the latest after an attempt is
added or updated; they are about any sequence, so that they serve on both sides of
a step.

`OnboardingProofs` proves of the wizard, for any finite set of names, any subset
of the tenant statuses with the two a request starts with, and any poll limit,
from `WizardAssumption` alone:

| Theorem | Says |
|---|---|
| `WizardTypeCorrect` | `WizardSpec => []WizardTypeOK` |
| `WizardHasTenant` | `WizardSpec => []StepHasTenant` |
| `WizardSubmitsChecked` | `WizardSpec => SubmitsWhatWasChecked` |
| `WizardKeepsTenant` | `WizardSpec => SavedTenantKept` |

**Argument.** None of the four is inductive: whether an answer may change the
tenant depends on what it was asked about, and whether a name may be submitted
on a check that was dropped. `WizardInv` says, beside types: `Restored`, step and
tenant go together once the restore is answered, and before it the page has no
tenant; `PollsAsDue`, only a waiting page with a tenant polls; `Checked`, while no
check runs, a free answer is about the name typed; `StoredIs`, what is stored is
what is shown; and `Relevant`, each request in flight concerns the page it will be
answered to: a check its name, a poll its tenant, a restore the stored tenant, a
renewal or retry its tenant or one that is lost and so never found. `OnePress` and
`TenantTaken` (no tenant of the page is a free name) complete it. The heart is
`SettleKeeps`: a commit with its effects restores all of this if the committed
page does, up to what the effects will reset. Each action then has to show only
what it commits. TLC also finds `WizardInv` invariant on the instance above.

`ConsoleProofs` proves of the other parts of the console, for any queues and
statuses visited, and from `PageAssumption` for any tenant conditions and any
bounds on server states and on requests at once:

| Theorem | Says |
|---|---|
| `FormSubmitsShown` | `FormSpec => SubmitsWhatIsShown` |
| `DraftBuildsOnce` | `DraftSpec => []OneWorkspacePerSubmit` |
| `AuthShowsOneOutcome` | `AuthSpec => []OneOutcomeShown` |
| `AuthTellsTheTruth` | `AuthSpec => []NoticesAreTrue` |
| `QueueShowsAPage` | `QueueSpec => []PageInRange` |
| `PagesFreeTheirButtons` | `PageSpec => []BusyHasHandler` |
| `DeletionsAreRetyped` | `PageSpec => []DeletionRetyped` |
| `HandlersShowTheirEffect` | `PageSpec => HandlerShowsItsEffect` |
| `ConsoleRunsItsParts` | `WebSpec` implies the specification of each of the eight parts |

The last one carries the others, and those of `OnboardingProofs`, to the console as a
whole; it includes the fairness each part states, so what TLC finds of liveness is
about the same behaviours.

**Argument.** `FormInv`: the effects of a commit leave a business plan with the app
that is highlighted, since both choose it from the catalog that is shown
(`ChosenIsHighlighted`). `DraftInv`: while a request can still build, nothing is
built; the refusal of the field, which the retry follows, comes before anything is.
`AuthInv`: two requests a page hears ask for the same, the page is busy while
there is one, and a busy page shows no outcome yet. `QueueInv`: the answers kept of
a queue say there are two rows at most, and the page shown is one of `TotalPages`;
the commit that shows fewer rows turns the page back (`RenderSettles`).

`PageInv` has three parts. `DeskInv` is about buttons: handlers and dialog belong to
the page that is open, a disabled button has its handler, and there is one deletion
at a time, whose phrase is gone once it is acknowledged. `ViewsTyped` holds the
types. `ReloadInv` is about what is shown. A fetch may be joined to one that began
before the request was made, and a poll or a refresh may cancel it, so that one
reload does not show the effect. It does bring the section to where a fetch begun
next is not joined to an older one (`Refetchable`), and the second reload then shows
it, as an answer, an error or a fetch under way (`ShowsSince`). That each section of
the query client that a button changes is asked for twice, and each other one it
changes is shown from the answer itself, is read off `PageTables`, button by button
(`ButtonsAreSound`); a handler that asked once only would fail there.
TLC finds each of these invariants on `WebConsole` too.

`BillingCyclesProofs` proves of the dunning cycle, for any number of events,
administrator's calls and cuts between any of its steps, from `CyclesAssumption`:

| Theorem | Says |
|---|---|
| `RemindersAreSpaced` | `CycleSpec => RemindersSpaced` |
| `GraceIsGiven` | `CycleSpec => GraceAfterReminder` |
| `PaidIsNotSuspended` | `CycleSpec => PaidBeforeReminderStays` |

**Argument.** All three come from `CycleInv`. A row is never older than the last
recorded reminder, since its record writes the row and whatever else writes it
makes it younger (`AgedSinceReminder`); so what was decided on the age of a row
holds of the time since that record, from the decision over `Send` and `Anchor` to
the suspension, and a pass that is cut decides nothing (`Decided`, which also
needs that no grace is shorter than the retry window: `WindowsOrdered`). And a
payment seen at that commit is still in the row while the cycle runs, and the
commit has made the cycle read it again (`PaymentSeen`).

`SchedulerLeaseProofs` proves, from `LeaseAssumption`, for any finite set of worker
processes and any number of failures:

| Theorem | Says |
|---|---|
| `NoCycleUnowed` | `LeaseSpec => []CyclesAreOwed` |

**Argument.** Two threads can be in a turn, so the credit has to be counted:
`LeaseInv` says it covers one cycle for each of the `Orphans`, the threads in a
turn whose lease is gone (each was made by a failure, which is credited), and one
more while the owner of the lease has a cycle to enqueue, now or when next it looks
(`Pending`). The assumption on the owner's ids, that none is one of the two values
that stand for no live owner, is needed: a turn without lease would be the owner's.

**Only model-checked.** Liveness (`DeletionSettles`, `JobsEnd`, `LiveReachesWizard`,
`ExpiredIsReplaced`, `RequestEnds`, `JobEndIsSeen`, `CyclesComeAgain`,
`ConfirmedIsProcessed` and `ReconciledInTheEnd`), which is out of the prover's reach,
as is anything about ENABLED. That the session and the job panel keep their
promises is liveness throughout. Every safety invariant and action property a
passing run checks is proved.

## 5. Not modelled

Plans and entitlement catalogues, identity and tokens, rate limits, memberships,
domains and routes, feature flags, notifications, audit and metrics: single
requests on rows of their own, or output. The silo and pod strategies are off by
default. Payment gateways, the ERP client and bench command building are input
and output; their failures are failures of the step that calls them.

Of the console: the notification bell and its storage (it persists an empty list
first, and two tabs overwrite each other), toasts, navigation, landing pages and
read-only figures; the restore job widget, which polls out of order; the contents
of forms no property is about; several tabs at once.

## 6. Plan

In this order:

1. (done) the tenant row, its jobs, queue, tasks and site; deletion proved.
2. (done) `InvoicePayment`: attempts, webhooks and outbox, settlement, ERP
   resynchronisation, reconciliation of one tenant.
3. (done) `BillingCycles`: dunning and trial cycles, the anchor of the grace, a
   payment during a cycle. Left: the reconciliation that puts a tenant back for an
   old invoice, which needs invoices and cycles over one row.
4. (done) `SchedulerLease`: lock, expiry, renewal, due times. Left: the startup
   recovery, once it can run.
5. `JobStream`: subscription against the end of a job on the server's side (the
   panel's side is in `JobPanel`).
6. (done) the console: wizard, session, job panel, queues, forms and pages; the
   wizard's safety proved.
7. (done) Proofs of the core (`TenantJobsProofs`) and of `InvoicePayment`.
8. (done) Proofs of the console's forms, account pages, queues and pages, and of the
   composition (`ConsoleProofs`).
