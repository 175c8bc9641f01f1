------------------------- MODULE TenantProvisioning -------------------------
(***************************************************************************)
(* One tenant of the control plane: the row the API and the worker share,  *)
(* its job rows, the RQ queue between them and the ERPNext site the worker *)
(* builds, restores and drops with bench.                                  *)
(*                                                                         *)
(* Every API call and every worker task reads the tenant row, decides, and *)
(* commits later; nothing locks the row, and a commit writes only the      *)
(* columns the session changed.  One action is therefore what happens      *)
(* between two accesses to the shared database, queue or bench.            *)
(***************************************************************************)
EXTENDS Naturals, Sequences, FiniteSets, BillingLifecycle

CONSTANTS
    Requests,     \* API calls and webhook deliveries, each handled once
    Ops,          \* the operations those calls may ask for
    Concurrency,  \* how many of them are handled at the same time
    Serial,       \* operations of which only one is handled at a time
    Workers,      \* RQ worker processes consuming the queue
    MaxJobs,      \* bound on the job rows of the tenant
    MaxFaults,    \* bound on failures of the API, the worker or the database
    Starts,       \* where it may begin: "fresh", "live" (see Init)
    TrialEnabled  \* trial_lifecycle_enabled with trial days

Events == {"confirm", "fail", "cancel"}
AllOps == Events \cup {"renew", "delete", "retry", "backup", "restore",
                       "suspend", "unsuspend"}

ASSUME ConstantsAssumption ==
    /\ Ops \subseteq AllOps
    /\ Serial \subseteq AllOps
    /\ Concurrency \in Nat /\ MaxJobs \in Nat /\ MaxFaults \in Nat
    /\ MaxJobs >= 2
    /\ Starts \subseteq {"fresh", "live"}
    /\ TrialEnabled \in BOOLEAN

VARIABLES
    tenant,   \* tenant.status
    sub,      \* subscription.status
    site,     \* whether the bench holds the tenant's site
    jobs,     \* the tenant's job rows, by order of creation
    created,  \* how many job rows exist
    queue,    \* the RQ queue: job ids, oldest first
    worker,   \* what each worker process is doing
    req,      \* what each API call is doing
    faults,   \* failures so far
    left,     \* history: a deletion took an error for the site's absence, and
              \*   the site it was about is still there
    parked,   \* history: jobs RQ has put the message of aside for ever while
              \*   their row was still queued
    crossed   \* history: a call looked for a create job while another one was
              \*   between its own look and storing the RQ id

vars == <<tenant, sub, site, jobs, created, queue, worker, req, faults,
          left, parked, crossed>>

JobIds == 1 .. MaxJobs
NoJob == 0
Keep == "keep"   \* a column the session did not change

JobKinds == {"create", "delete", "restore", "backup"}
JobStatuses == {"queued", "running", "succeeded", "failed"}
NoRow == [kind |-> "none", status |-> "absent", rq |-> FALSE]
Row(kind, status) == [kind |-> kind, status |-> status, rq |-> TRUE]

WorkerPCs == {"idle", "taken", "begin", "enter", "work", "finish", "land", "success",
              "after", "handle", "fail", "failjob"}
RequestPCs == {"idle", "write", "find", "insert", "enqueue", "stamp", "done"}

IdleWorker == [pc |-> "idle", job |-> NoJob, caught |-> FALSE]
NotCalled == [pc |-> "idle", op |-> "none", to |-> Keep, pay |-> Keep,
              job |-> NoJob]
Answered == [NotCalled EXCEPT !.pc = "done"]

(***************************************************************************)
(* The type of the state.                                                  *)
(***************************************************************************)
JobRows ==
    [kind : JobKinds, status : JobStatuses, rq : BOOLEAN] \cup {NoRow}

StateTypeOK ==
    /\ tenant \in TenantStatuses
    /\ sub \in SubscriptionStatuses
    /\ site \in BOOLEAN
    /\ jobs \in [JobIds -> JobRows]
    /\ created \in 0 .. MaxJobs
    /\ queue \in Seq(JobIds)
    /\ worker \in [Workers -> [pc : WorkerPCs, job : JobIds \cup {NoJob},
                               caught : BOOLEAN]]
    /\ req \in [Requests -> [pc : RequestPCs, op : AllOps \cup {"none"},
                             to : TenantStatuses \cup {Keep},
                             pay : SubscriptionStatuses \cup {Keep},
                             job : JobIds \cup {NoJob}]]
    /\ faults \in 0 .. MaxFaults

TypeOK ==
    /\ StateTypeOK
    /\ left \in BOOLEAN /\ parked \in SUBSET JobIds /\ crossed \in BOOLEAN

-----------------------------------------------------------------------------
(* A fresh tenant has a checkout behind it, opened (pending) or refused by *)
(* the payment gateway (pending_payment).                                  *)
JustCheckedOut ==
    /\ tenant \in {"pending_payment", "pending"}
    /\ sub = IF TrialEnabled THEN "trialing" ELSE "pending"
    /\ site = FALSE
    /\ created = 0
    /\ jobs = [j \in JobIds |-> NoRow]

(* A live one was provisioned and backed up.                               *)
InService ==
    /\ tenant = "active"
    /\ sub = "active"
    /\ site = TRUE
    /\ created = 2
    /\ jobs = [j \in JobIds |-> IF j = 1 THEN Row("create", "succeeded")
                               ELSE IF j = 2 THEN Row("backup", "succeeded")
                               ELSE NoRow]

Init ==
    /\ \/ "fresh" \in Starts /\ JustCheckedOut
       \/ "live" \in Starts /\ InService
    /\ queue = << >>
    /\ worker = [w \in Workers |-> IdleWorker]
    /\ req = [r \in Requests |-> NotCalled]
    /\ faults = 0
    /\ left = FALSE /\ parked = {} /\ crossed = FALSE

-----------------------------------------------------------------------------
(***************************************************************************)
(* API calls and webhook deliveries.                                       *)
(***************************************************************************)
InFlight == {r \in Requests : req[r].pc \notin {"idle", "done"}}

(* DELETE_ALLOWED_STATUSES and BACKUP_ALLOWED_STATUSES. *)
DeleteAllowed == TenantStatuses \ Leaving
BackupAllowed == {"active"} \cup Suspensions

HasBackup ==
    \E j \in JobIds : jobs[j].kind = "backup" /\ jobs[j].status = "succeeded"

(* enforce_delete_policy and the transition of enqueue_delete. *)
DeleteAdmitted == /\ tenant \in DeleteAllowed
                  /\ CanTransition(tenant, "pending_deletion")

(* enforce_retry_policy. *)
RetryAdmitted == tenant = "failed" /\ PaymentConfirmed(tenant, sub)

(* enforce_backup_policy. *)
BackupAdmitted == tenant \in BackupAllowed /\ PaymentConfirmed(tenant, sub)

(* The guards of the restore endpoint; the caller names a backup. *)
RestoreAdmitted == /\ ~BillingBlocked(tenant, sub)
                   /\ tenant \notin Leaving
                   /\ HasBackup

(* A call passes its guards on the row as it is now. *)
Admitted(op) ==
    CASE op \in Events -> EventApplies(op, sub)
      [] op = "renew" -> tenant \in {"pending", "pending_payment"}
      [] op = "delete" -> DeleteAdmitted
      [] op = "retry" -> RetryAdmitted
      [] op = "backup" -> BackupAdmitted
      [] op = "restore" -> RestoreAdmitted
      [] op = "suspend" -> CanTransition(tenant, "suspended_admin")
      [] op = "unsuspend" -> CanTransition(tenant, "active")

(* The status its session will write, computed from the row as it is now. *)
Target(op) ==
    CASE op \in Events -> StatusAfter(op, tenant)
      [] op = "renew" -> "pending_payment"
      [] op = "delete" -> "pending_deletion"
      [] op = "retry" -> "pending"
      [] op \in {"backup", "restore"} -> tenant
      [] op = "suspend" -> "suspended_admin"
      [] op = "unsuspend" -> "active"

Changed(old, new) == IF new = old THEN Keep ELSE new
Written(old, new) == IF new = Keep THEN old ELSE new

(* A call arrives, passes its guards and prepares what it will write.  The *)
(* webhook handlers run on the event loop of their API process: with one   *)
(* process, no two of them at a time.                                      *)
Call(r, op) ==
    /\ req[r].pc = "idle"
    /\ Cardinality(InFlight) < Concurrency
    /\ op \in Serial => \A q \in InFlight : req[q].op \notin Serial
    /\ Admitted(op)
    /\ req' = [req EXCEPT ![r] =
                  [pc |-> IF op \in {"backup", "restore"} THEN "insert"
                                                          ELSE "write",
                   op |-> op,
                   to |-> Changed(tenant, Target(op)),
                   pay |-> IF op \in Events THEN Changed(sub, AfterEvent(op))
                                            ELSE Keep,
                   job |-> NoJob]]
    /\ UNCHANGED <<tenant, sub, site, jobs, created, queue, worker, faults,
                   left, parked, crossed>>

(* It commits the tenant and the subscription. *)
Write(r) ==
    /\ req[r].pc = "write"
    /\ tenant' = Written(tenant, req[r].to)
    /\ sub' = Written(sub, req[r].pay)
    /\ req' = [req EXCEPT ![r] =
                  IF @.op \in {"confirm", "retry"}
                  THEN [@ EXCEPT !.pc = "find", !.to = Keep, !.pay = Keep]
                  ELSE IF @.op = "delete"
                  THEN [@ EXCEPT !.pc = "insert", !.to = Keep, !.pay = Keep]
                  ELSE Answered]
    /\ UNCHANGED <<site, jobs, created, queue, worker, faults,
                   left, parked, crossed>>

(* Variant: queued jobs are not looked for. *)
LiveCreateJobsNotQueued ==
    {j \in JobIds : /\ jobs[j].kind = "create"
                    /\ jobs[j].status \in {"running", "succeeded"}}

(***************************************************************************)
(* enqueue_provisioning_for_paid_tenant looks for the oldest create job    *)
(* that is queued, running or succeeded: there is nothing to do but to     *)
(* enqueue it if no RQ job was ever recorded for it.                       *)
(***************************************************************************)
LiveCreateJobs ==
    {j \in JobIds : /\ jobs[j].kind = "create"
                    /\ jobs[j].status \in {"queued", "running", "succeeded"}}

Oldest(S) == CHOOSE j \in S : \A k \in S : j <= k

(* A call that found no create job to wait for, or one to enqueue, and has *)
(* not stored the RQ id of its own yet.                                    *)
Provisioning(c) ==
    /\ c.op \in {"confirm", "retry"}
    /\ c.pc \in {"insert", "enqueue", "stamp"}

Find(r) ==
    /\ req[r].pc = "find"
    /\ req' = [req EXCEPT ![r] =
                  IF LiveCreateJobs = {} THEN [@ EXCEPT !.pc = "insert"]
                  ELSE LET j == Oldest(LiveCreateJobs)
                       IN  IF jobs[j].status = "queued" /\ ~jobs[j].rq
                           THEN [@ EXCEPT !.pc = "enqueue", !.job = j]
                           ELSE Answered]
    /\ crossed' = (crossed \/ \E q \in Requests : Provisioning(req[q]))
    /\ UNCHANGED <<tenant, sub, site, jobs, created, queue, worker, faults,
                   left, parked>>

KindOf(op) == IF op \in {"confirm", "retry"} THEN "create" ELSE op

(* Variant: the RQ id is stored with the row, before enqueueing. *)
InsertStamped(r) ==
    /\ req[r].pc = "insert"
    /\ created < MaxJobs
    /\ created' = created + 1
    /\ jobs' = [jobs EXCEPT ![created + 1] = Row(KindOf(req[r].op), "queued")]
    /\ req' = [req EXCEPT ![r].pc = "enqueue", ![r].job = created + 1]
    /\ UNCHANGED <<tenant, sub, site, queue, worker, faults,
                   left, parked, crossed>>

Insert(r) ==
    /\ req[r].pc = "insert"
    /\ created < MaxJobs
    /\ created' = created + 1
    /\ jobs' = [jobs EXCEPT ![created + 1] =
                   [kind |-> KindOf(req[r].op), status |-> "queued",
                    rq |-> FALSE]]
    /\ req' = [req EXCEPT ![r].pc = "enqueue", ![r].job = created + 1]
    /\ UNCHANGED <<tenant, sub, site, queue, worker, faults,
                   left, parked, crossed>>

(* The restore endpoint enqueues after its answer and never stores the id. *)
Enqueue(r) ==
    /\ req[r].pc = "enqueue"
    /\ queue' = Append(queue, req[r].job)
    /\ req' = [req EXCEPT ![r] = IF @.op = "restore" THEN Answered
                                 ELSE [@ EXCEPT !.pc = "stamp"]]
    /\ UNCHANGED <<tenant, sub, site, jobs, created, worker, faults,
                   left, parked, crossed>>

Stamp(r) ==
    /\ req[r].pc = "stamp"
    /\ jobs' = [jobs EXCEPT ![req[r].job].rq = TRUE]
    /\ req' = [req EXCEPT ![r] = Answered]
    /\ UNCHANGED <<tenant, sub, site, created, queue, worker, faults,
                   left, parked, crossed>>

(* The API process dies, or Redis or the database fails under the call. *)
Abort(r) ==
    /\ r \in InFlight
    /\ faults < MaxFaults
    /\ faults' = faults + 1
    /\ req' = [req EXCEPT ![r] = Answered]
    /\ UNCHANGED <<tenant, sub, site, jobs, created, queue, worker,
                   left, parked, crossed>>

-----------------------------------------------------------------------------
(***************************************************************************)
(* Worker tasks: provision_tenant, delete_tenant, restore_tenant and       *)
(* backup_tenant.  worker[w].caught says that the task is already inside   *)
(* one of its except blocks, where a second exception escapes it.          *)
(***************************************************************************)
Kind(w) == jobs[worker[w].job].kind

Goto(w, pc) == worker' = [worker EXCEPT ![w].pc = pc]

(* Leaving the task by an exception nobody catches: RQ's retry policy has  *)
(* an interval, so the message goes to the scheduled registry (to that of  *)
(* failed jobs if the process died), and no process of the deployment      *)
(* reads them.  The job row stays as it is.                                *)
Escape(w) == worker' = [worker EXCEPT ![w] = IdleWorker]

(* Variant: the except block leaves the tenant status alone. *)
RaiseToJobOnly(w) ==
    IF worker[w].caught THEN Escape(w)
    ELSE worker' = [worker EXCEPT ![w].pc = "failjob", ![w].caught = TRUE]

(* An exception in the task body: backup only fails its job, the others    *)
(* first try to move the tenant to failed.                                 *)
Raise(w) ==
    IF worker[w].caught THEN Escape(w)
    ELSE worker' = [worker EXCEPT
                       ![w].pc = IF Kind(w) = "backup" THEN "failjob"
                                                       ELSE "handle",
                       ![w].caught = TRUE]

(* InvalidTenantStatusTransition in the task body: delete has a handler of *)
(* its own that only fails the job.                                        *)
RaiseRefused(w) ==
    IF worker[w].caught \/ Kind(w) # "delete" THEN Raise(w)
    ELSE worker' = [worker EXCEPT ![w].pc = "failjob", ![w].caught = TRUE]

(* RQ takes the oldest message off the queue for a worker ...              *)
Dequeue(w) ==
    /\ worker[w].pc = "idle"
    /\ queue # << >>
    /\ queue' = Tail(queue)
    /\ worker' = [worker EXCEPT
                     ![w] = [pc |-> "taken", job |-> Head(queue),
                             caught |-> FALSE]]
    /\ UNCHANGED <<tenant, sub, site, jobs, created, req, faults,
                   left, crossed>>

(* ... and the task, inside its try block, first marks its job running.    *)
MarkRunning(w) ==
    /\ worker[w].pc = "taken"
    /\ jobs' = [jobs EXCEPT ![worker[w].job].status = "running"]
    /\ Goto(w, "begin")
    /\ UNCHANGED <<tenant, sub, site, created, queue, req, faults,
                   left, crossed>>

EnteredStatus ==
    [create |-> "provisioning", delete |-> "deleting", restore |-> "restoring"]
FinalStatus ==
    [create |-> "active", delete |-> "deleted", restore |-> "active"]

(* Variant: the task starts whatever the tenant status. *)
BeginUnchecked(w) ==
    /\ worker[w].pc = "begin"
    /\ Goto(w, "work")
    /\ UNCHANGED <<tenant, sub, site, jobs, created, queue, req, faults,
                   left, crossed>>

(* It checks the transition into the status of the work ... *)
Begin(w) ==
    /\ worker[w].pc = "begin"
    /\ IF Kind(w) = "backup" \/ tenant = EnteredStatus[Kind(w)]
       THEN Goto(w, "work")
       ELSE IF CanTransition(tenant, EnteredStatus[Kind(w)])
            THEN Goto(w, "enter")
            ELSE RaiseRefused(w)
    /\ UNCHANGED <<tenant, sub, site, jobs, created, queue, req, faults,
                   left, crossed>>

(* ... and commits it. *)
Enter(w) ==
    /\ worker[w].pc = "enter"
    /\ tenant' = EnteredStatus[Kind(w)]
    /\ Goto(w, "work")
    /\ UNCHANGED <<sub, site, jobs, created, queue, req, faults,
                   left, crossed>>

(***************************************************************************)
(* The bench commands of the pooled strategy.  new-site refuses an         *)
(* existing site, and a provisioning may fail before or after it (at       *)
(* install-app, or registering the customer).  restore and backup need the *)
(* site.  drop-site may fail before or after the site is gone; a failure   *)
(* whose output holds "does not exist", "404 not found" or                 *)
(* "incorrectsitepath" counts as a deletion, whatever it was about: a      *)
(* missing site, or a database, user or file the command did not find      *)
(* while the site is there.                                                *)
(***************************************************************************)
Provisioned(w) == ~site /\ site' = TRUE /\ Goto(w, "finish")
Dropped(w) == site' = FALSE /\ Goto(w, "finish")

(* Variant: bench backup and restore do not notice a missing site. *)
CopiedBlindly(w) ==
    /\ UNCHANGED site
    /\ Goto(w, IF Kind(w) = "backup" THEN "success" ELSE "finish")

Copied(w) ==
    /\ site
    /\ UNCHANGED site
    /\ Goto(w, IF Kind(w) = "backup" THEN "success" ELSE "finish")

(* What a command cut short may have done to the site. *)
PartialEffect(w) ==
    \/ UNCHANGED site
    \/ Kind(w) = "create" /\ site' = TRUE
    \/ Kind(w) = "delete" /\ site' = FALSE

SiteNotFound(w) ==
    /\ PartialEffect(w)
    /\ left' = site'
    /\ worker' = [worker EXCEPT ![w].pc = "finish", ![w].caught = TRUE]

(* Variant: a bench failure escapes the task. *)
WorkFailedUncaught(w) == PartialEffect(w) /\ Escape(w)

(* Variant: every failure of a deletion counts as a deletion. *)
WorkFailedAsDone(w) ==
    /\ PartialEffect(w)
    /\ IF Kind(w) = "delete"
       THEN worker' = [worker EXCEPT ![w].pc = "finish", ![w].caught = TRUE]
       ELSE Raise(w)

WorkFailed(w) == PartialEffect(w) /\ Raise(w)

Work(w) ==
    /\ worker[w].pc = "work"
    /\ \/ /\ \/ Kind(w) = "create" /\ Provisioned(w)
             \/ Kind(w) = "delete" /\ Dropped(w)
             \/ Kind(w) \in {"restore", "backup"} /\ Copied(w)
             \/ WorkFailed(w)
          /\ left' = (left /\ site')
       \/ Kind(w) = "delete" /\ SiteNotFound(w)
    /\ UNCHANGED <<tenant, sub, jobs, created, queue, req, faults, crossed>>

(* The task reads the row again and checks the final transition ... *)
Finish(w) ==
    /\ worker[w].pc = "finish"
    /\ IF tenant = FinalStatus[Kind(w)] THEN Goto(w, "success")
       ELSE IF CanTransition(tenant, FinalStatus[Kind(w)])
            THEN Goto(w, "land")
            ELSE RaiseRefused(w)
    /\ UNCHANGED <<tenant, sub, site, jobs, created, queue, req, faults,
                   left, crossed>>

(* ... commits it, then the job's success; what follows (routes, audit,    *)
(* notification) is still inside the try block.                            *)
Land(w) ==
    /\ worker[w].pc = "land"
    /\ tenant' = FinalStatus[Kind(w)]
    /\ Goto(w, "success")
    /\ UNCHANGED <<sub, site, jobs, created, queue, req, faults,
                   left, crossed>>

Success(w) ==
    /\ worker[w].pc = "success"
    /\ jobs' = [jobs EXCEPT ![worker[w].job].status = "succeeded"]
    /\ Goto(w, "after")
    /\ UNCHANGED <<tenant, sub, site, created, queue, req, faults,
                   left, crossed>>

After(w) ==
    /\ worker[w].pc = "after"
    /\ Escape(w)
    /\ UNCHANGED <<tenant, sub, site, jobs, created, queue, req, faults,
                   left, crossed>>

(* The except block moves the tenant to failed, if it may ... *)
Handle(w) ==
    /\ worker[w].pc = "handle"
    /\ IF tenant = "failed" THEN Goto(w, "failjob")
       ELSE IF CanTransition(tenant, "failed") THEN Goto(w, "fail")
       ELSE Escape(w)
    /\ UNCHANGED <<tenant, sub, site, jobs, created, queue, req, faults,
                   left, crossed>>

Fail(w) ==
    /\ worker[w].pc = "fail"
    /\ tenant' = "failed"
    /\ Goto(w, "failjob")
    /\ UNCHANGED <<sub, site, jobs, created, queue, req, faults,
                   left, crossed>>

(* Variant: the except block does not mark the job failed. *)
FailJobForgotten(w) ==
    /\ worker[w].pc = "failjob"
    /\ Escape(w)
    /\ UNCHANGED <<tenant, sub, site, jobs, created, queue, req, faults,
                   left, crossed>>

(* ... and marks the job failed. *)
FailJob(w) ==
    /\ worker[w].pc = "failjob"
    /\ jobs' = [jobs EXCEPT ![worker[w].job].status = "failed"]
    /\ Escape(w)
    /\ UNCHANGED <<tenant, sub, site, created, queue, req, faults,
                   left, crossed>>

(* The jobs whose message a step of the worker leaves to those registries  *)
(* before their row was marked running.                                    *)
Parks(w) ==
    parked' = parked \cup
        {j \in JobIds : /\ j = worker[w].job /\ worker'[w].pc = "idle"
                        /\ jobs'[j].status = "queued"}

(* RQ's job timeout raises in the task wherever it is; the except blocks   *)
(* catch it.  During the bench work it is one of WorkFailed.               *)
Timeout(w) ==
    /\ worker[w].pc \in {"taken", "begin", "finish", "success", "after"}
    /\ faults < MaxFaults
    /\ faults' = faults + 1
    /\ Raise(w)
    /\ UNCHANGED <<tenant, sub, site, jobs, created, queue, req,
                   left, crossed>>
    /\ Parks(w)

(* The worker is killed, or the database fails: the except blocks reuse    *)
(* the broken session, so they raise as well.                              *)
Lose(w) ==
    /\ worker[w].pc # "idle"
    /\ faults < MaxFaults
    /\ faults' = faults + 1
    /\ IF worker[w].pc = "work" THEN PartialEffect(w) ELSE UNCHANGED site
    /\ left' = (left /\ site')
    /\ Escape(w)
    /\ UNCHANGED <<tenant, sub, jobs, created, queue, req, crossed>>
    /\ Parks(w)

-----------------------------------------------------------------------------
RequestStep(r) == Write(r) \/ Find(r) \/ Insert(r) \/ Enqueue(r) \/ Stamp(r)

WorkerStep(w) ==
    /\ \/ Dequeue(w) \/ MarkRunning(w) \/ Begin(w) \/ Enter(w) \/ Work(w)
       \/ Finish(w) \/ Land(w) \/ Success(w) \/ After(w)
       \/ Handle(w) \/ Fail(w) \/ FailJob(w)
    /\ Parks(w)

Next ==
    \/ \E r \in Requests, op \in Ops : Call(r, op)
    \/ \E r \in Requests : RequestStep(r) \/ Abort(r)
    \/ \E w \in Workers : WorkerStep(w) \/ Timeout(w) \/ Lose(w)

Spec == Init /\ [][Next]_vars

(* The worker process and the API handlers keep running; nobody is obliged *)
(* to call, and nothing is obliged to fail.                                *)
Fairness ==
    /\ \A r \in Requests : WF_vars(RequestStep(r))
    /\ \A w \in Workers : WF_vars(WorkerStep(w))

FairSpec == Spec /\ Fairness

-----------------------------------------------------------------------------
(***************************************************************************)
(* Properties.                                                             *)
(***************************************************************************)

(* One worker process consumes the queue, as docker-compose.yml deploys.   *)
SingleWorker == \A v, w \in Workers : v = w

(* A tenant the API reports as deleted has no site left on the bench,      *)
(* unless the deletion took an error for the site's absence: nothing that  *)
(* races with it (a provisioning, a timeout, a crash, a webhook that       *)
(* overwrites the status) leaves one (workers/tasks.py, delete_tenant).    *)
OnlyMisreadLeavesSite == tenant = "deleted" => (site => left)

(* A tenant the API reports as active can be opened: its site exists       *)
(* (workers/tasks.py, provision_tenant and restore_tenant).                *)
ActiveHasSite == tenant = "active" => site

(* A status that says a job is under way is never left behind: some worker *)
(* is on a job of the tenant (the except blocks of workers/tasks.py).      *)
TransitionalHasRunner ==
    tenant \in {"provisioning", "restoring", "deleting"} =>
        \E w \in Workers : worker[w].pc # "idle" /\ Kind(w) # "backup"

(* A queued job that carries an RQ id has its message: in the queue, in    *)
(* the hands of a worker, or in one of RQ's registries because that worker *)
(* failed before it marked the job running.  A call that dies never loses  *)
(* one, so the enqueue guard, which skips such a job, skips a job nobody   *)
(* will run only after a failed worker                                     *)
(* (enqueue_provisioning_for_paid_tenant).                                 *)
StampedJobsHaveMessages ==
    \A j \in JobIds :
        jobs[j].status = "queued" /\ jobs[j].rq =>
            \/ \E i \in 1 .. Len(queue) : queue[i] = j
            \/ \E w \in Workers : worker[w].pc # "idle" /\ worker[w].job = j
            \/ j \in parked

(* However often payments are confirmed and provisioning is retried, the   *)
(* tenant has one create job to run at a time, one message for it, and     *)
(* none while a worker is on it - as long as nothing has failed and no     *)
(* call looked for a create job while another was between its own look and *)
(* storing the RQ id, which no lock prevents: OneCreateJob                 *)
(* (enqueue_provisioning_for_paid_tenant).                                 *)
OneProvisioningAtATime ==
    faults = 0 /\ ~crossed =>
        /\ Cardinality({j \in JobIds :
                           /\ jobs[j].kind = "create"
                           /\ jobs[j].status \in {"queued", "running"}}) <= 1
        /\ Cardinality({i \in 1 .. Len(queue) :
                           jobs[queue[i]].kind = "create"}) <= 1
        /\ (\E w \in Workers : /\ worker[w].pc \notin {"idle", "after"}
                               /\ Kind(w) = "create") =>
               \A i \in 1 .. Len(queue) : jobs[queue[i]].kind # "create"

(* The retry of a confirmation creates no second provisioning job          *)
(* (docs/p1-6-wave-1-6-outbox-reliability-review.md:9).  It does when it   *)
(* crosses the retry of the owner: both look before either inserts         *)
(* (enqueue_provisioning_for_paid_tenant).                                 *)
OneCreateJob ==
    \A j, k \in JobIds :
        /\ jobs[j].kind = "create" /\ jobs[j].status \in {"queued", "running"}
        /\ jobs[k].kind = "create" /\ jobs[k].status \in {"queued", "running"}
        => j = k

(* Without trials, no site is built, nor a job queued to build it, before  *)
(* the first payment is confirmed (project-hardening.txt:389: never start  *)
(* provisioning before payment confirmation).                              *)
NothingBuiltUnpaid ==
    sub \in {"pending", "trialing"} =>
        ~site /\ \A j \in JobIds : jobs[j].kind # "create"

(* A job that becomes succeeded tells the truth about the bench: a create, *)
(* restore or backup job leaves the site there, a delete job leaves none   *)
(* unless an error was taken for the site's absence.                       *)
SuccessIsReal ==
    [][\A j \in JobIds :
          jobs[j].status = "running" /\ jobs'[j].status = "succeeded" =>
              IF jobs[j].kind = "delete" THEN site => left ELSE site]_vars

(* An accepted deletion is not left waiting: the tenant leaves the two     *)
(* statuses that announce it (enqueue_delete, delete_tenant).              *)
DeletionSettles ==
    tenant \in {"pending_deletion", "deleting"} ~>
        tenant \notin {"pending_deletion", "deleting"}

Deletions == {j \in JobIds : jobs[j].kind = "delete"}

(* A job a worker has taken ends, whatever its outcome, unless the tenant  *)
(* is being deleted: an except block that meets a deleted tenant, or takes *)
(* an error for the site's absence when a call has overwritten deleting,   *)
(* raises itself                                                           *)
(* (workers/tasks.py: each task marks its job succeeded or failed).        *)
JobsEnd ==
    \A j \in JobIds :
        jobs[j].status = "running" ~>
            jobs[j].status # "running" \/ Deletions # {}

(* The tenant as DeletedSite sees it: the detailed specification           *)
(* implements that promise (workers/tasks.py, every write of site and      *)
(* status).                                                                *)
Promise ==
    INSTANCE DeletedSite WITH gone <- tenant = "deleted", site <- site,
                              left <- left

KeepsDeletionPromise == Promise!Spec
=============================================================================
