---------------------- MODULE TenantProvisioningProofs ----------------------
(***************************************************************************)
(* Proofs about TenantProvisioning, for any number of calls, jobs and      *)
(* faults and any set of operations.  The safety of deletion is proved for *)
(* the deployment the repository describes, one worker process.            *)
(***************************************************************************)
EXTENDS TenantProvisioning, SequenceTheorems, WellFoundedInduction, TLAPS

(* Statuses only a worker task ever writes. *)
WorkerStatuses == {"provisioning", "restoring", "deleting", "deleted"}

(* The rows that exist are the first ones, and each keeps its kind. *)
RowsExist == \A j \in JobIds : j <= created <=> jobs[j].kind \in JobKinds

Existing == 1 .. created

(* Messages, calls and tasks refer to rows that exist. *)
QueueRefers == \A i \in 1 .. Len(queue) : queue[i] \in Existing

CallRecords ==
    [pc : RequestPCs, op : AllOps \cup {"none"},
     to : TenantStatuses \cup {Keep}, pay : SubscriptionStatuses \cup {Keep},
     job : JobIds \cup {NoJob}]

(* What a call is about to write, and on which row it is.                  *)
CallPhase(c) ==
    /\ c.to \notin WorkerStatuses
    /\ c.pc = "write" => c.op \in AllOps \ {"backup", "restore"}
    /\ c.pc \in {"find", "insert"} => KindOf(c.op) \in JobKinds
    /\ c.pc \in {"enqueue", "stamp"} => c.job \in Existing

TaskRecords ==
    [pc : WorkerPCs, job : JobIds \cup {NoJob}, caught : BOOLEAN]

(* A task is on a row that exists, and only tasks that change the tenant   *)
(* status are where it is changed.                                         *)
Placed(t) ==
    /\ t.pc # "idle" => t.job \in Existing
    /\ t.pc \in {"enter", "finish", "land", "handle", "fail"} =>
           jobs[t.job].kind # "backup"

(* What the tenant status and the site are while a task is at work: a task *)
(* that changes the site works only under a status that is not deleted,    *)
(* and past its work it has left the site as its kind says, or as an error *)
(* made it believe.                                                        *)
SiteAsTold(kind) == IF kind = "delete" THEN site => left ELSE site

TaskSite(w) ==
    /\ worker[w].pc = "work" /\ Kind(w) # "backup" => tenant # "deleted"
    /\ worker[w].pc \in {"finish", "land", "success"} => SiteAsTold(Kind(w))

Bookkeeping ==
    /\ StateTypeOK
    /\ RowsExist
    /\ QueueRefers
    /\ \A r \in Requests : CallPhase(req[r])
    /\ \A w \in Workers : Placed(worker[w])

Inv ==
    /\ Bookkeeping
    /\ left \in BOOLEAN /\ (left => site)
    /\ OnlyMisreadLeavesSite
    /\ \A w \in Workers : TaskSite(w)

-----------------------------------------------------------------------------
(***************************************************************************)
(* Lemmas about the statuses calls write.                                  *)
(***************************************************************************)

(* No provider event writes a status that belongs to the worker            *)
(* (apply_payment_confirmed_transition, apply_payment_failed_transition,   *)
(* apply_subscription_cancelled_transition).                               *)
LEMMA EventTargets ==
    ASSUME NEW t \in TenantStatuses, NEW e \in Events
    PROVE  StatusAfter(e, t) \in
               {t, "active", "pending", "pending_payment", "suspended_billing"}
<1>1. CASE e = "confirm"
  <2>1. BillingState(t, "active", "paid", "paid") = "paid"
    BY DEF BillingState
  <2>2. Entitlement("paid", "active") = "active"
    BY DEF Entitlement
  <2>3. OperationalState(t, "active") \in {t, "pending", "activation_blocked"}
    BY DEF OperationalState
  <2>4. AfterPaymentConfirmed(t) \in {t, "active", "pending"}
    <3>1. TryTransition(t, "active") \in {t, "active"}
      BY DEF TryTransition
    <3>2. ~CanTransition(t, "activation_blocked")
      BY DEF CanTransition, AllowedTransitions, TenantStatuses, Suspensions
    <3>3. TryTransition(t, OperationalState(t, "active")) \in {t, "pending"}
      BY <2>3, <3>2 DEF TryTransition
    <3> QED
      BY <2>1, <2>2, <2>3, <3>1, <3>3 DEF AfterPaymentConfirmed
  <2> QED
    BY <1>1, <2>4 DEF StatusAfter
<1>2. CASE e = "fail"
  <2>1. AfterPaymentFailed(t) \in {t, "pending_payment", "suspended_billing"}
    BY DEF AfterPaymentFailed, TryTransition
  <2> QED
    BY <1>2, <2>1 DEF StatusAfter
<1>3. CASE e = "cancel"
  BY <1>3 DEF StatusAfter, AfterSubscriptionCancelled
<1> QED
  BY <1>1, <1>2, <1>3 DEF Events

(* Nor does any other call: what it writes is a status of the table, and   *)
(* not one of the worker's.                                                *)
LEMMA CallTargets ==
    ASSUME StateTypeOK, NEW op \in AllOps
    PROVE  Changed(tenant, Target(op)) \in
               (TenantStatuses \cup {Keep}) \ WorkerStatuses
<1>1. CASE op \in Events
  <2>1. Target(op) \in {tenant, "active", "pending", "pending_payment",
                        "suspended_billing"}
    <3>1. Target(op) = StatusAfter(op, tenant)
      BY <1>1 DEF Target, Events
    <3> QED
      BY <1>1, <3>1, EventTargets DEF StateTypeOK
  <2> QED
    BY <2>1 DEF Changed, Keep, TenantStatuses, Suspensions, WorkerStatuses
<1>2. CASE op \notin Events
  <2>1. Target(op) \in {tenant, "pending_payment", "pending_deletion",
                        "pending", "suspended_admin", "active"}
    BY <1>2 DEF Target, AllOps, Events
  <2> QED
    BY <2>1 DEF Changed, Keep, TenantStatuses, Suspensions, WorkerStatuses
<1> QED
  BY <1>1, <1>2

-----------------------------------------------------------------------------
(***************************************************************************)
(* The bookkeeping of rows, messages, calls and tasks is preserved by      *)
(* every step, with any number of workers.                                 *)
(***************************************************************************)

(* Updating the status of an existing row keeps the rows well formed and   *)
(* their kinds.                                                            *)
LEMMA StatusUpdate ==
    ASSUME StateTypeOK, RowsExist, created' = created,
           NEW j \in Existing, NEW s \in JobStatuses,
           jobs' = [jobs EXCEPT ![j].status = s]
    PROVE  /\ jobs' \in [JobIds -> JobRows]
           /\ RowsExist'
           /\ \A k \in JobIds : jobs'[k].kind = jobs[k].kind
<1>1. j \in JobIds /\ jobs[j].kind \in JobKinds
  BY ConstantsAssumption DEF StateTypeOK, RowsExist, Existing, JobIds
<1>2. jobs[j] \in [kind : JobKinds, status : JobStatuses, rq : BOOLEAN]
  BY <1>1 DEF StateTypeOK, JobRows, NoRow, JobKinds
<1>3. jobs'[j] \in [kind : JobKinds, status : JobStatuses, rq : BOOLEAN]
  BY <1>1, <1>2 DEF StateTypeOK
<1>4. jobs' \in [JobIds -> JobRows]
  BY <1>1, <1>3 DEF StateTypeOK, JobRows
<1>5. \A k \in JobIds : jobs'[k].kind = jobs[k].kind
  BY <1>1, <1>2 DEF StateTypeOK
<1> QED
  BY <1>4, <1>5 DEF RowsExist

(* The initial states.                                                     *)
LEMMA BookkeepingInit == Init => Bookkeeping
<1> SUFFICES ASSUME Init PROVE Bookkeeping
  OBVIOUS
<1> USE ConstantsAssumption
<1>1. StateTypeOK
  <2>1. /\ tenant \in TenantStatuses
        /\ sub \in SubscriptionStatuses
        /\ site \in BOOLEAN
        /\ created \in 0 .. MaxJobs
    <3>1. CASE JustCheckedOut
      <4>1. sub = IF TrialEnabled THEN "trialing" ELSE "pending"
        BY <3>1 DEF JustCheckedOut
      <4>2. sub \in SubscriptionStatuses
        BY <4>1 DEF SubscriptionStatuses
      <4>3. tenant \in {"pending_payment", "pending"} /\ site = FALSE
              /\ created = 0
        BY <3>1 DEF JustCheckedOut
      <4>4. MaxJobs \in Nat
        BY DEF ConstantsAssumption
      <4>5. created \in 0 .. MaxJobs
        BY <4>3, <4>4
      <4>6. tenant \in TenantStatuses /\ site \in BOOLEAN
        BY <4>3 DEF TenantStatuses
      <4> QED
        BY <4>2, <4>5, <4>6
    <3>2. CASE InService
      BY <3>2 DEF InService, TenantStatuses, SubscriptionStatuses, Suspensions,
                  ConstantsAssumption
    <3> QED
      BY <3>1, <3>2 DEF Init
  <2>5. queue \in Seq(JobIds) /\ faults \in 0 .. MaxFaults
    BY DEF Init, ConstantsAssumption
  <2>2. jobs \in [JobIds -> JobRows]
    <3>1. NoRow \in JobRows /\ Row("create", "succeeded") \in JobRows
            /\ Row("backup", "succeeded") \in JobRows
      BY DEF NoRow, Row, JobRows, JobKinds, JobStatuses
    <3>2. CASE JustCheckedOut
      BY <3>1, <3>2 DEF JustCheckedOut
    <3>3. CASE InService
      BY <3>1, <3>3 DEF InService
    <3> QED
      BY <3>2, <3>3 DEF Init
  <2>3. worker \in [Workers -> [pc : WorkerPCs, job : JobIds \cup {NoJob},
                                caught : BOOLEAN]]
    BY DEF Init, IdleWorker, WorkerPCs
  <2>4. req \in [Requests -> [pc : RequestPCs, op : AllOps \cup {"none"},
                              to : TenantStatuses \cup {Keep},
                              pay : SubscriptionStatuses \cup {Keep},
                              job : JobIds \cup {NoJob}]]
    BY DEF Init, NotCalled, RequestPCs
  <2> QED
    BY <2>1, <2>2, <2>3, <2>4, <2>5 DEF StateTypeOK
<1>2. RowsExist
  <2>1. /\ NoRow.kind \notin JobKinds
        /\ Row("create", "succeeded").kind \in JobKinds
        /\ Row("backup", "succeeded").kind \in JobKinds
    BY DEF NoRow, Row, JobKinds
  <2>2. CASE JustCheckedOut
    BY <2>1, <2>2 DEF JustCheckedOut, RowsExist, JobIds
  <2>3. CASE InService
    BY <2>1, <2>3 DEF InService, RowsExist, JobIds
  <2> QED
    BY <2>2, <2>3 DEF Init
<1>3. QueueRefers
  BY DEF Init, QueueRefers
<1>4. \A r \in Requests : CallPhase(req[r])
  BY DEF Init, CallPhase, NotCalled, WorkerStatuses, Keep
<1>5. \A w \in Workers : Placed(worker[w])
  BY DEF Init, Placed, IdleWorker
<1> QED
  BY <1>1, <1>2, <1>3, <1>4, <1>5 DEF Bookkeeping

(***************************************************************************)
(* A task that moves stays on a row of the right kind.                     *)
(***************************************************************************)
Moves(w) ==
    \E t \in TaskRecords : Placed(t) /\ worker' = [worker EXCEPT ![w] = t]

(* A task goes on to its next step with a job it may have (the tasks of    *)
(* the worker).                                                            *)
LEMMA GotoMoves ==
    ASSUME Bookkeeping, NEW w \in Workers, NEW pc \in WorkerPCs,
           worker[w].pc # "idle", Goto(w, pc),
           pc \in {"enter", "finish", "land", "handle", "fail"} =>
               Kind(w) # "backup"
    PROVE  Moves(w)
<1> DEFINE t == [worker[w] EXCEPT !.pc = pc]
<1>1. t \in TaskRecords /\ t.pc = pc /\ t.job = worker[w].job
  BY DEF Bookkeeping, StateTypeOK, TaskRecords
<1>2. Placed(t)
  BY <1>1 DEF Bookkeeping, Placed, Kind
<1>3. worker' = [worker EXCEPT ![w] = t]
  BY DEF Goto
<1> QED
  BY <1>1, <1>2, <1>3 DEF Moves

(* So does one that caught an exception (the except blocks of the tasks).  *)
LEMMA CaughtMoves ==
    ASSUME Bookkeeping, NEW w \in Workers, NEW pc \in WorkerPCs,
           worker[w].pc # "idle",
           worker' = [worker EXCEPT ![w].pc = pc, ![w].caught = TRUE],
           pc \in {"enter", "finish", "land", "handle", "fail"} =>
               Kind(w) # "backup"
    PROVE  Moves(w)
<1> DEFINE t == [worker[w] EXCEPT !.pc = pc, !.caught = TRUE]
<1>1. t \in TaskRecords /\ t.pc = pc /\ t.job = worker[w].job
  BY DEF Bookkeeping, StateTypeOK, TaskRecords
<1>2. Placed(t)
  BY <1>1 DEF Bookkeeping, Placed, Kind
<1>3. worker' = [worker EXCEPT ![w] = t]
  BY DEF Bookkeeping, StateTypeOK
<1> QED
  BY <1>1, <1>2, <1>3 DEF Moves

(* A task that lets an exception escape leaves an idle worker (the RQ      *)
(* worker).                                                                *)
LEMMA EscapeMoves ==
    ASSUME NEW w \in Workers, Escape(w)
    PROVE  Moves(w)
<1>1. IdleWorker \in TaskRecords /\ Placed(IdleWorker)
  BY DEF IdleWorker, TaskRecords, Placed, WorkerPCs
<1> QED
  BY <1>1 DEF Escape, Moves

(* A task that raises is in its handler, or over (the except blocks of the *)
(* tasks).                                                                 *)
LEMMA RaiseMoves ==
    ASSUME Bookkeeping, NEW w \in Workers, worker[w].pc # "idle", Raise(w)
    PROVE  Moves(w)
<1>1. CASE worker[w].caught
  BY <1>1, EscapeMoves DEF Raise
<1>2. CASE ~worker[w].caught /\ Kind(w) = "backup"
  <2>1. worker' = [worker EXCEPT ![w].pc = "failjob", ![w].caught = TRUE]
    BY <1>2 DEF Raise
  <2> QED
    BY <2>1, CaughtMoves DEF WorkerPCs
<1>3. CASE ~worker[w].caught /\ Kind(w) # "backup"
  <2>1. worker' = [worker EXCEPT ![w].pc = "handle", ![w].caught = TRUE]
    BY <1>3 DEF Raise
  <2> QED
    BY <1>3, <2>1, CaughtMoves DEF WorkerPCs
<1> QED
  BY <1>1, <1>2, <1>3

(* So is one whose transition was refused (InvalidTenantStatusTransition   *)
(* in the except blocks).                                                  *)
LEMMA RefusedMoves ==
    ASSUME Bookkeeping, NEW w \in Workers, worker[w].pc # "idle",
           RaiseRefused(w)
    PROVE  Moves(w)
<1>1. CASE worker[w].caught \/ Kind(w) # "delete"
  BY <1>1, RaiseMoves DEF RaiseRefused
<1>2. CASE ~(worker[w].caught \/ Kind(w) # "delete")
  <2>1. worker' = [worker EXCEPT ![w].pc = "failjob", ![w].caught = TRUE]
    BY <1>2 DEF RaiseRefused
  <2> QED
    BY <2>1, CaughtMoves DEF WorkerPCs
<1> QED
  BY <1>1, <1>2

(* A message less leaves messages for rows that exist (the RQ queue).      *)
LEMMA QueueStep ==
    ASSUME Bookkeeping, created' = created,
           \/ queue' = queue
           \/ queue # << >> /\ queue' = Tail(queue)
    PROVE  queue' \in Seq(JobIds) /\ QueueRefers'
<1>1. CASE queue' = queue
  BY <1>1 DEF Bookkeeping, StateTypeOK, QueueRefers, Existing
<1>2. CASE queue # << >> /\ queue' = Tail(queue)
  <2>1. /\ Tail(queue) \in Seq(JobIds)
        /\ Len(Tail(queue)) = Len(queue) - 1
        /\ \A i \in 1 .. Len(Tail(queue)) : Tail(queue)[i] = queue[i + 1]
    BY <1>2, HeadTailProperties, SMTT(30) DEF Bookkeeping, StateTypeOK
  <2>2. ASSUME NEW i \in 1 .. Len(queue') PROVE queue'[i] \in Existing
    <3>1. i + 1 \in 1 .. Len(queue)
      <4>1. Len(queue) \in Nat
        <5>1. queue \in Seq(JobIds)
          BY DEF Bookkeeping, StateTypeOK
        <5> QED
          BY <5>1
      <4>2. i \in 1 .. Len(queue) - 1
        BY <1>2, <2>1
      <4> QED
        BY <4>1, <4>2
    <3> QED
      BY <1>2, <2>1, <3>1 DEF Bookkeeping, QueueRefers
  <2> QED
    BY <1>2, <2>1, <2>2 DEF QueueRefers, Existing
<1> QED
  BY <1>1, <1>2

(* A step that only moves one task, and writes well-typed values, keeps    *)
(* the bookkeeping.                                                        *)
LEMMA TaskStep ==
    ASSUME Bookkeeping, NEW w \in Workers, Moves(w),
           UNCHANGED <<sub, jobs, created, req>>,
           \/ queue' = queue
           \/ queue # << >> /\ queue' = Tail(queue),
           tenant' \in TenantStatuses, site' \in BOOLEAN,
           faults' \in 0 .. MaxFaults
    PROVE  Bookkeeping'
<1>1. PICK t \in TaskRecords :
          Placed(t) /\ worker' = [worker EXCEPT ![w] = t]
  BY DEF Moves
<1>q. queue' \in Seq(JobIds) /\ QueueRefers'
  BY QueueStep
<1>2. StateTypeOK'
  BY <1>1, <1>q DEF Bookkeeping, StateTypeOK, TaskRecords
<1>3. (RowsExist /\ QueueRefers /\ \A r \in Requests : CallPhase(req[r]))'
  BY <1>q DEF Bookkeeping, RowsExist, CallPhase, Existing
<1>4. (\A v \in Workers : Placed(worker[v]))'
  <2> SUFFICES ASSUME NEW v \in Workers PROVE Placed(worker'[v])
    BY DEF Placed, Existing
  <2>1. worker'[v] = IF v = w THEN t ELSE worker[v]
    BY <1>1 DEF Bookkeeping, StateTypeOK
  <2> QED
    BY <1>1, <2>1 DEF Bookkeeping
<1> QED
  BY <1>2, <1>3, <1>4 DEF Bookkeeping

(***************************************************************************)
(* The worker's steps keep the bookkeeping.                                *)
(***************************************************************************)

(* The statuses a task writes are statuses of the table.                   *)
LEMMA TaskStatuses ==
    ASSUME Bookkeeping, NEW w \in Workers,
           worker[w].pc \in {"begin", "enter", "finish", "land"},
           Kind(w) # "backup"
    PROVE  /\ EnteredStatus[Kind(w)] \in TenantStatuses
           /\ FinalStatus[Kind(w)] \in TenantStatuses
<1>1. worker[w].job \in Existing
  BY DEF Bookkeeping, Placed
<1>2. Kind(w) \in JobKinds
  BY <1>1, ConstantsAssumption
     DEF Bookkeeping, StateTypeOK, RowsExist, Existing, Kind, JobIds
<1>3. Kind(w) \in {"create", "delete", "restore"}
  BY <1>2 DEF JobKinds
<1> QED
  BY <1>3 DEF EnteredStatus, FinalStatus, TenantStatuses

(* A step that also updates the status of the task's row.                  *)
LEMMA TaskJobStep ==
    ASSUME Bookkeeping, NEW w \in Workers, NEW j \in Existing,
           NEW s \in JobStatuses, NEW t \in TaskRecords, Placed(t),
           jobs' = [jobs EXCEPT ![j].status = s],
           worker' = [worker EXCEPT ![w] = t],
           UNCHANGED <<tenant, sub, site, created, queue, req, faults>>
    PROVE  Bookkeeping'
<1>1. /\ jobs' \in [JobIds -> JobRows]
      /\ RowsExist'
      /\ \A k \in JobIds : jobs'[k].kind = jobs[k].kind
  BY StatusUpdate DEF Bookkeeping
<1>2. \A k \in Existing : k \in JobIds
  BY ConstantsAssumption DEF Existing, Bookkeeping, StateTypeOK, JobIds
<1>3. queue' \in Seq(JobIds) /\ QueueRefers'
  BY QueueStep
<1>4. StateTypeOK'
  BY <1>1, <1>3 DEF Bookkeeping, StateTypeOK, TaskRecords
<1>5. (\A r \in Requests : CallPhase(req[r]))'
  BY DEF Bookkeeping, CallPhase, Existing
<1>6. (\A v \in Workers : Placed(worker[v]))'
  <2> SUFFICES ASSUME NEW v \in Workers PROVE Placed(worker[v])'
    OBVIOUS
  <2>1. worker'[v] = IF v = w THEN t ELSE worker[v]
    BY DEF Bookkeeping, StateTypeOK
  <2>2. Placed(worker'[v])
    BY <2>1 DEF Bookkeeping
  <2>3. worker'[v] \in TaskRecords
    BY <2>1 DEF Bookkeeping, StateTypeOK, TaskRecords
  <2>4. worker'[v].pc # "idle" =>
            jobs'[worker'[v].job].kind = jobs[worker'[v].job].kind
    BY <2>2, <1>1, <1>2 DEF Placed
  <2> QED
    BY <2>2, <2>4 DEF Placed, Existing
<1> QED
  BY <1>1, <1>3, <1>4, <1>5, <1>6 DEF Bookkeeping

(* Every step of a worker keeps the bookkeeping, its timeout and its loss  *)
(* too (the tasks of the worker).                                          *)
LEMMA WorkerKeepsBookkeeping ==
    ASSUME Bookkeeping, NEW w \in Workers,
           WorkerStep(w) \/ Timeout(w) \/ Lose(w)
    PROVE  Bookkeeping'
<1> USE DEF WorkerPCs
<1>0. tenant \in TenantStatuses /\ site \in BOOLEAN /\ faults \in 0 .. MaxFaults
  BY DEF Bookkeeping, StateTypeOK
<1>1. CASE Dequeue(w)
  <2>1. Head(queue) \in Existing
    <3>1. 1 \in 1 .. Len(queue) /\ Head(queue) = queue[1]
      BY <1>1 DEF Dequeue, Bookkeeping, StateTypeOK
    <3> QED
      BY <3>1 DEF Bookkeeping, QueueRefers
  <2> DEFINE t == [pc |-> "taken", job |-> Head(queue), caught |-> FALSE]
  <2>2. t \in TaskRecords /\ Placed(t)
    BY <2>1, ConstantsAssumption
       DEF TaskRecords, Placed, Existing, JobIds, Bookkeeping, StateTypeOK
  <2>3. worker' = [worker EXCEPT ![w] = t]
    BY <1>1 DEF Dequeue
  <2> HIDE DEF t
  <2>4. Moves(w)
    BY <2>2, <2>3 DEF Moves
  <2> QED
    BY <1>0, <1>1, <2>4, TaskStep DEF Dequeue
<1>14. CASE MarkRunning(w)
  <2>1. worker[w].job \in Existing
    BY <1>14 DEF MarkRunning, Bookkeeping, Placed
  <2> DEFINE t == [worker[w] EXCEPT !.pc = "begin"]
  <2>2. t \in TaskRecords /\ Placed(t)
    BY <2>1 DEF TaskRecords, Placed, Bookkeeping, StateTypeOK
  <2>3. worker' = [worker EXCEPT ![w] = t]
    BY <1>14 DEF MarkRunning, Goto
  <2>4. "running" \in JobStatuses
    BY DEF JobStatuses
  <2>5. /\ jobs' = [jobs EXCEPT ![worker[w].job].status = "running"]
        /\ UNCHANGED <<tenant, sub, site, created, queue, req, faults>>
    BY <1>14 DEF MarkRunning
  <2> HIDE DEF t
  <2> QED
    BY <2>1, <2>2, <2>3, <2>4, <2>5, TaskJobStep
<1>2. CASE Begin(w)
  <2>1. CASE Goto(w, "work")
    <3>1. Moves(w)
      BY <1>2, <2>1, GotoMoves DEF Begin
    <3> QED
      BY <1>0, <1>2, <3>1, TaskStep DEF Begin
  <2>2. CASE Kind(w) # "backup" /\ Goto(w, "enter")
    <3>1. Moves(w)
      BY <1>2, <2>2, GotoMoves DEF Begin
    <3> QED
      BY <1>0, <1>2, <3>1, TaskStep DEF Begin
  <2>3. CASE RaiseRefused(w)
    <3>1. Moves(w)
      BY <1>2, <2>3, RefusedMoves DEF Begin
    <3> QED
      BY <1>0, <1>2, <3>1, TaskStep DEF Begin
  <2> QED
    BY <1>2, <2>1, <2>2, <2>3 DEF Begin
<1>3. CASE Enter(w)
  <2>1. Kind(w) # "backup"
    BY <1>3 DEF Enter, Bookkeeping, Placed, Kind
  <2>2. tenant' \in TenantStatuses
    BY <1>3, <2>1, TaskStatuses DEF Enter
  <2>3. Moves(w)
    BY <1>3, GotoMoves DEF Enter
  <2> QED
    BY <1>0, <1>3, <2>2, <2>3, TaskStep DEF Enter
<1>4. CASE Work(w)
  <2>1. Moves(w) /\ site' \in BOOLEAN
    <3>1. CASE Kind(w) = "create" /\ Provisioned(w)
      BY <1>4, <3>1, GotoMoves DEF Work, Provisioned
    <3>2. CASE Kind(w) = "delete" /\ Dropped(w)
      BY <1>4, <3>2, GotoMoves DEF Work, Dropped
    <3>3. CASE Kind(w) = "delete" /\ SiteNotFound(w)
      BY <1>0, <1>4, <3>3, CaughtMoves DEF Work, SiteNotFound, PartialEffect
    <3>4. CASE Kind(w) \in {"restore", "backup"} /\ Copied(w)
      <4>1. CASE Kind(w) = "backup"
        BY <1>0, <1>4, <3>4, <4>1, GotoMoves DEF Work, Copied
      <4>2. CASE Kind(w) # "backup"
        BY <1>0, <1>4, <3>4, <4>2, GotoMoves DEF Work, Copied
      <4> QED
        BY <4>1, <4>2
    <3>5. CASE WorkFailed(w)
      BY <1>0, <1>4, <3>5, RaiseMoves DEF Work, WorkFailed, PartialEffect
    <3> QED
      BY <1>4, <3>1, <3>2, <3>3, <3>4, <3>5 DEF Work
  <2> QED
    BY <1>0, <1>4, <2>1, TaskStep DEF Work
<1>5. CASE Finish(w)
  <2>0. Kind(w) # "backup"
    BY <1>5 DEF Finish, Bookkeeping, Placed, Kind
  <2>1. Moves(w)
    <3>1. CASE Goto(w, "success")
      BY <1>5, <3>1, GotoMoves DEF Finish
    <3>2. CASE Goto(w, "land")
      BY <1>5, <2>0, <3>2, GotoMoves DEF Finish
    <3>3. CASE RaiseRefused(w)
      BY <1>5, <3>3, RefusedMoves DEF Finish
    <3> QED
      BY <1>5, <3>1, <3>2, <3>3 DEF Finish
  <2> QED
    BY <1>0, <1>5, <2>1, TaskStep DEF Finish
<1>6. CASE Land(w)
  <2>1. Kind(w) # "backup"
    BY <1>6 DEF Land, Bookkeeping, Placed, Kind
  <2>2. tenant' \in TenantStatuses
    BY <1>6, <2>1, TaskStatuses DEF Land
  <2>3. Moves(w)
    BY <1>6, GotoMoves DEF Land
  <2> QED
    BY <1>0, <1>6, <2>2, <2>3, TaskStep DEF Land
<1>7. CASE Success(w)
  <2>1. worker[w].job \in Existing
    BY <1>7 DEF Success, Bookkeeping, Placed
  <2> DEFINE t == [worker[w] EXCEPT !.pc = "after"]
  <2>2. t \in TaskRecords /\ Placed(t)
    BY <2>1 DEF TaskRecords, Placed, Bookkeeping, StateTypeOK
  <2>3. worker' = [worker EXCEPT ![w] = t]
    BY <1>7 DEF Success, Goto
  <2>4. "succeeded" \in JobStatuses
    BY DEF JobStatuses
  <2>5. /\ jobs' = [jobs EXCEPT ![worker[w].job].status = "succeeded"]
        /\ queue' = queue
        /\ UNCHANGED <<tenant, sub, site, created, req, faults>>
    BY <1>7 DEF Success
  <2> HIDE DEF t
  <2> QED
    BY <2>1, <2>2, <2>3, <2>4, <2>5, TaskJobStep
<1>8. CASE After(w)
  BY <1>0, <1>8, EscapeMoves, TaskStep DEF After
<1>9. CASE Handle(w)
  <2>0. Kind(w) # "backup"
    BY <1>9 DEF Handle, Bookkeeping, Placed, Kind
  <2>1. Moves(w)
    <3>1. CASE Goto(w, "failjob")
      BY <1>9, <3>1, GotoMoves DEF Handle
    <3>2. CASE Goto(w, "fail")
      BY <1>9, <2>0, <3>2, GotoMoves DEF Handle
    <3>3. CASE Escape(w)
      BY <3>3, EscapeMoves
    <3> QED
      BY <1>9, <3>1, <3>2, <3>3 DEF Handle
  <2> QED
    BY <1>0, <1>9, <2>1, TaskStep DEF Handle
<1>10. CASE Fail(w)
  <2>1. Moves(w)
    BY <1>10, GotoMoves DEF Fail
  <2>2. tenant' \in TenantStatuses
    BY <1>10 DEF Fail, TenantStatuses
  <2> QED
    BY <1>0, <1>10, <2>1, <2>2, TaskStep DEF Fail
<1>11. CASE FailJob(w)
  <2>1. worker[w].job \in Existing
    BY <1>11 DEF FailJob, Bookkeeping, Placed
  <2>2. IdleWorker \in TaskRecords /\ Placed(IdleWorker)
    BY DEF IdleWorker, TaskRecords, Placed
  <2>3. "failed" \in JobStatuses
    BY DEF JobStatuses
  <2>4. /\ jobs' = [jobs EXCEPT ![worker[w].job].status = "failed"]
        /\ worker' = [worker EXCEPT ![w] = IdleWorker]
        /\ queue' = queue
        /\ UNCHANGED <<tenant, sub, site, created, req, faults>>
    BY <1>11 DEF FailJob, Escape
  <2> QED
    BY <2>1, <2>2, <2>3, <2>4, TaskJobStep
<1>12. CASE Timeout(w)
  <2>1. Moves(w)
    BY <1>12, RaiseMoves DEF Timeout
  <2>2. faults' \in 0 .. MaxFaults
    BY <1>0, <1>12, ConstantsAssumption DEF Timeout
  <2> QED
    BY <1>0, <1>12, <2>1, <2>2, TaskStep DEF Timeout
<1>13. CASE Lose(w)
  <2>1. Moves(w)
    BY <1>13, EscapeMoves DEF Lose
  <2>2. faults' \in 0 .. MaxFaults
    BY <1>0, <1>13, ConstantsAssumption DEF Lose
  <2>3. site' \in BOOLEAN
    BY <1>0, <1>13 DEF Lose, PartialEffect
  <2> QED
    BY <1>0, <1>13, <2>1, <2>2, <2>3, TaskStep DEF Lose
<1> QED
  BY <1>1, <1>2, <1>3, <1>4, <1>5, <1>6, <1>7, <1>8, <1>9, <1>10, <1>11,
     <1>12, <1>13, <1>14 DEF WorkerStep

(***************************************************************************)
(* The steps of calls keep the bookkeeping.                                *)
(***************************************************************************)

(* A non-empty set of job numbers has an oldest member.                    *)
LEMMA OldestIsMember ==
    ASSUME NEW S \in SUBSET Nat, S # {}
    PROVE  Oldest(S) \in S
<1>1. PICK j \in S : \A k \in S : ~(<<k, j>> \in OpToRel(<, Nat))
  BY NatLessThanWellFounded, WFMin
<1>2. \A k \in S : j <= k
  <2> SUFFICES ASSUME NEW k \in S PROVE j <= k
    OBVIOUS
  <2>1. j \in Nat /\ k \in Nat
    OBVIOUS
  <2>2. k < j => <<k, j>> \in OpToRel(<, Nat)
    BY <2>1 DEF OpToRel
  <2>3. ~(k < j)
    BY <1>1, <2>2
  <2> QED
    BY <2>1, <2>3
<1> QED
  BY <1>2 DEF Oldest

(* A step that only moves one call, and writes well-typed values, keeps    *)
(* the bookkeeping.                                                        *)
LEMMA CallStep ==
    ASSUME Bookkeeping, NEW r \in Requests,
           NEW c \in CallRecords, CallPhase(c),
           req' = [req EXCEPT ![r] = c],
           UNCHANGED <<site, jobs, created, worker>>,
           queue' \in Seq(JobIds), QueueRefers',
           tenant' \in TenantStatuses, sub' \in SubscriptionStatuses,
           faults' \in 0 .. MaxFaults
    PROVE  Bookkeeping'
<1>1. req' \in [Requests -> CallRecords]
  BY DEF Bookkeeping, StateTypeOK, CallRecords
<1>2. StateTypeOK'
  BY <1>1 DEF Bookkeeping, StateTypeOK, CallRecords
<1>3. (RowsExist /\ \A w \in Workers : Placed(worker[w]))'
  BY DEF Bookkeeping, RowsExist, Placed, Existing
<1>4. (\A q \in Requests : CallPhase(req[q]))'
  <2> SUFFICES ASSUME NEW q \in Requests PROVE CallPhase(req[q])'
    OBVIOUS
  <2>1. req'[q] = IF q = r THEN c ELSE req[q]
    BY DEF Bookkeeping, StateTypeOK
  <2>2. CallPhase(req'[q])
    BY <2>1 DEF Bookkeeping
  <2> QED
    BY <2>2 DEF CallPhase, Existing
<1> QED
  BY <1>2, <1>3, <1>4 DEF Bookkeeping

(* The same for a step that leaves the queue alone.                        *)
LEMMA QuietCallStep ==
    ASSUME Bookkeeping, NEW r \in Requests,
           NEW c \in CallRecords, CallPhase(c),
           req' = [req EXCEPT ![r] = c],
           UNCHANGED <<site, jobs, created, queue, worker>>,
           tenant' \in TenantStatuses, sub' \in SubscriptionStatuses,
           faults' \in 0 .. MaxFaults
    PROVE  Bookkeeping'
<1>1. queue' \in Seq(JobIds) /\ QueueRefers'
  BY DEF Bookkeeping, StateTypeOK, QueueRefers, Existing
<1> QED
  BY <1>1, CallStep

(* A call that was answered is a call in order (the endpoints of the       *)
(* tenant router).                                                         *)
LEMMA AnsweredPhase == Answered \in CallRecords /\ CallPhase(Answered)
BY DEF Answered, NotCalled, CallRecords, RequestPCs, CallPhase, Keep,
       WorkerStatuses

(* Every step of a call keeps the bookkeeping, its abort too (the          *)
(* endpoints of the tenant router).                                        *)
LEMMA CallsKeepBookkeeping ==
    ASSUME Bookkeeping, NEW r \in Requests,
           (\E op \in Ops : Call(r, op)) \/ RequestStep(r) \/ Abort(r)
    PROVE  Bookkeeping'
<1>0. /\ tenant \in TenantStatuses /\ sub \in SubscriptionStatuses
      /\ faults \in 0 .. MaxFaults
      /\ queue \in Seq(JobIds)
      /\ req[r] \in CallRecords /\ CallPhase(req[r])
  BY DEF Bookkeeping, StateTypeOK, CallRecords
<1>1. CASE \E op \in Ops : Call(r, op)
  <2>1. PICK op \in Ops : Call(r, op)
    BY <1>1
  <2>2. op \in AllOps
    BY ConstantsAssumption
  <2> DEFINE pc == IF op \in {"backup", "restore"} THEN "insert" ELSE "write"
             to == Changed(tenant, Target(op))
             pay == IF op \in Events THEN Changed(sub, AfterEvent(op))
                                     ELSE Keep
             c == [pc |-> pc, op |-> op, to |-> to, pay |-> pay, job |-> NoJob]
  <2>3. pc \in RequestPCs
    BY DEF RequestPCs
  <2>4. to \in TenantStatuses \cup {Keep} /\ to \notin WorkerStatuses
    BY <2>2, CallTargets DEF Bookkeeping
  <2>5. pay \in SubscriptionStatuses \cup {Keep}
    <3>1. \A e \in Events : AfterEvent(e) \in SubscriptionStatuses
      BY DEF Events, AfterEvent, SubscriptionStatuses
    <3> QED
      BY <3>1 DEF Changed
  <2>6. c \in CallRecords
    BY <2>2, <2>3, <2>4, <2>5 DEF CallRecords
  <2>7. CallPhase(c)
    <3>1. pc = "write" => op \in AllOps \ {"backup", "restore"}
      BY <2>2
    <3>2. pc = "insert" => KindOf(op) \in JobKinds
      BY DEF KindOf, JobKinds
    <3>3. pc \notin {"enqueue", "stamp"}
      OBVIOUS
    <3> QED
      BY <2>4, <3>1, <3>2, <3>3 DEF CallPhase
  <2>8. req' = [req EXCEPT ![r] = c]
          /\ UNCHANGED <<tenant, sub, site, jobs, created, queue, worker,
                         faults>>
    BY <2>1 DEF Call
  <2> HIDE DEF c
  <2> QED
    BY <1>0, <2>6, <2>7, <2>8, QuietCallStep
<1>2. CASE Write(r)
  <2> DEFINE c == IF req[r].op \in {"confirm", "retry"}
                  THEN [req[r] EXCEPT !.pc = "find", !.to = Keep, !.pay = Keep]
                  ELSE IF req[r].op = "delete"
                  THEN [req[r] EXCEPT !.pc = "insert", !.to = Keep,
                                      !.pay = Keep]
                  ELSE Answered
  <2>1. ASSUME req[r].op \in {"confirm", "retry", "delete"}
        PROVE  c \in CallRecords /\ CallPhase(c)
    <3>1. c \in CallRecords
      BY <1>0, <2>1 DEF CallRecords, RequestPCs
    <3>2. c.to = Keep /\ c.pc \in {"find", "insert"} /\ c.op = req[r].op
            /\ (c.pc = "insert" => c.op = "delete")
      BY <1>0, <2>1 DEF CallRecords
    <3>3. CallPhase(c)
      BY <2>1, <3>2 DEF CallPhase, Keep, WorkerStatuses, KindOf, JobKinds
    <3> QED
      BY <3>1, <3>3
  <2>2. ASSUME req[r].op \notin {"confirm", "retry", "delete"}
        PROVE  c \in CallRecords /\ CallPhase(c)
    BY <2>2, AnsweredPhase
  <2>3. c \in CallRecords /\ CallPhase(c)
    BY <2>1, <2>2
  <2>4. tenant' \in TenantStatuses /\ sub' \in SubscriptionStatuses
    BY <1>0, <1>2 DEF Write, Written, CallRecords
  <2>5. req' = [req EXCEPT ![r] = c]
          /\ UNCHANGED <<site, jobs, created, queue, worker, faults>>
    BY <1>2 DEF Write, Bookkeeping, StateTypeOK
  <2> HIDE DEF c
  <2> QED
    BY <1>0, <2>3, <2>4, <2>5, QuietCallStep
<1>3. CASE Find(r)
  <2> DEFINE c ==
        IF LiveCreateJobs = {} THEN [req[r] EXCEPT !.pc = "insert"]
        ELSE IF jobs[Oldest(LiveCreateJobs)].status = "queued"
                  /\ ~jobs[Oldest(LiveCreateJobs)].rq
             THEN [req[r] EXCEPT !.pc = "enqueue",
                                 !.job = Oldest(LiveCreateJobs)]
             ELSE Answered
  <2>1. ASSUME c = [req[r] EXCEPT !.pc = "insert"]
        PROVE  c \in CallRecords /\ CallPhase(c)
    <3>1. c \in CallRecords
      BY <1>0, <2>1 DEF CallRecords, RequestPCs
    <3>2. c.to = req[r].to /\ c.pc = "insert" /\ c.op = req[r].op
      BY <1>0, <2>1 DEF CallRecords
    <3>3. KindOf(req[r].op) \in JobKinds
      BY <1>0, <1>3 DEF Find, CallPhase
    <3> QED
      BY <1>0, <3>1, <3>2, <3>3 DEF CallPhase
  <2>2. ASSUME LiveCreateJobs # {},
               c = [req[r] EXCEPT !.pc = "enqueue",
                                  !.job = Oldest(LiveCreateJobs)]
        PROVE  c \in CallRecords /\ CallPhase(c)
    <3>1. Oldest(LiveCreateJobs) \in LiveCreateJobs
      <4>1. LiveCreateJobs \in SUBSET Nat
        BY ConstantsAssumption DEF LiveCreateJobs, JobIds
      <4> QED
        BY <2>2, <4>1, OldestIsMember
    <3>2. LiveCreateJobs \subseteq JobIds /\ LiveCreateJobs \subseteq Existing
      BY ConstantsAssumption
         DEF LiveCreateJobs, Bookkeeping, StateTypeOK, RowsExist, Existing,
             JobIds, JobKinds
    <3>3. c \in CallRecords
      BY <1>0, <2>2, <3>1, <3>2 DEF CallRecords, RequestPCs
    <3>4. c.to = req[r].to /\ c.pc = "enqueue"
            /\ c.job = Oldest(LiveCreateJobs)
      BY <1>0, <2>2 DEF CallRecords
    <3> QED
      BY <1>0, <3>1, <3>2, <3>3, <3>4 DEF CallPhase
  <2>3. c \in CallRecords /\ CallPhase(c)
    BY <2>1, <2>2, AnsweredPhase
  <2>4. req' = [req EXCEPT ![r] = c]
          /\ UNCHANGED <<tenant, sub, site, jobs, created, queue, worker,
                         faults>>
    BY <1>3 DEF Find, Bookkeeping, StateTypeOK
  <2> HIDE DEF c
  <2> QED
    BY <1>0, <2>3, <2>4, QuietCallStep
<1>4. CASE Insert(r)
  <2> DEFINE row == [kind |-> KindOf(req[r].op), status |-> "queued",
                     rq |-> FALSE]
  <2>1. /\ created \in Nat /\ created + 1 \in JobIds
        /\ created' = created + 1 /\ created' \in 0 .. MaxJobs
    BY <1>4, ConstantsAssumption DEF Insert, Bookkeeping, StateTypeOK, JobIds
  <2>2. row \in JobRows /\ row.kind \in JobKinds
    BY <1>0, <1>4 DEF Insert, CallPhase, JobRows, JobStatuses
  <2>3. jobs' = [jobs EXCEPT ![created + 1] = row]
    BY <1>4 DEF Insert
  <2> HIDE DEF row
  <2>4. jobs' \in [JobIds -> JobRows]
    BY <2>1, <2>2, <2>3 DEF Bookkeeping, StateTypeOK
  <2>5. \A k \in JobIds :
            jobs'[k] = IF k = created + 1 THEN row ELSE jobs[k]
    BY <2>3 DEF Bookkeeping, StateTypeOK
  <2>6. RowsExist'
    BY <2>1, <2>2, <2>5, ConstantsAssumption
       DEF Bookkeeping, RowsExist, JobIds
  <2>7. \A k \in Existing : k \in Existing' /\ jobs'[k].kind = jobs[k].kind
    <3> SUFFICES ASSUME NEW k \in Existing
                 PROVE  k \in Existing' /\ jobs'[k].kind = jobs[k].kind
      OBVIOUS
    <3>1. k \in Existing' /\ k # created + 1
      BY <2>1 DEF Existing
    <3>2. k \in JobIds
      BY <2>1, ConstantsAssumption DEF Existing, JobIds
    <3> QED
      BY <2>5, <3>1, <3>2
  <2>8. PICK c \in CallRecords :
            /\ req' = [req EXCEPT ![r] = c]
            /\ c.to = req[r].to /\ c.pc = "enqueue" /\ c.job = created + 1
    <3> DEFINE c == [req[r] EXCEPT !.pc = "enqueue", !.job = created + 1]
    <3>1. c \in CallRecords /\ c.to = req[r].to /\ c.pc = "enqueue"
            /\ c.job = created + 1
      BY <1>0, <2>1 DEF CallRecords, RequestPCs
    <3>2. req' = [req EXCEPT ![r] = c]
      BY <1>4 DEF Insert, Bookkeeping, StateTypeOK
    <3> HIDE DEF c
    <3> QED
      BY <3>1, <3>2
  <2>9. CallPhase(c)'
    BY <1>0, <2>1, <2>8 DEF CallPhase, Existing
  <2>10. UNCHANGED <<tenant, sub, site, queue, worker, faults>>
    BY <1>4 DEF Insert
  <2>11. StateTypeOK'
    <3>1. req' \in [Requests -> CallRecords]
      BY <2>8, <2>10 DEF Bookkeeping, StateTypeOK, CallRecords
    <3> QED
      BY <2>1, <2>4, <2>10, <3>1 DEF Bookkeeping, StateTypeOK, CallRecords
  <2>12. QueueRefers'
    BY <2>7, <2>10 DEF Bookkeeping, QueueRefers
  <2>13. (\A q \in Requests : CallPhase(req[q]))'
    <3> SUFFICES ASSUME NEW q \in Requests PROVE CallPhase(req[q])'
      OBVIOUS
    <3>1. req'[q] = IF q = r THEN c ELSE req[q]
      BY <2>8 DEF Bookkeeping, StateTypeOK
    <3>2. CASE q = r
      BY <2>9, <3>1, <3>2 DEF CallPhase
    <3>3. CASE q # r
      BY <2>7, <3>1, <3>3 DEF Bookkeeping, CallPhase
    <3> QED
      BY <3>2, <3>3
  <2>14. (\A w \in Workers : Placed(worker[w]))'
    BY <2>7, <2>10 DEF Bookkeeping, Placed
  <2> QED
    BY <2>6, <2>11, <2>12, <2>13, <2>14 DEF Bookkeeping
<1>5. CASE Enqueue(r)
  <2> DEFINE c == IF req[r].op = "restore" THEN Answered
                  ELSE [req[r] EXCEPT !.pc = "stamp"]
  <2>1. req[r].job \in Existing /\ req[r].job \in JobIds
    BY <1>0, <1>5, ConstantsAssumption
       DEF Enqueue, CallPhase, Existing, JobIds, Bookkeeping, StateTypeOK
  <2>2. c \in CallRecords /\ CallPhase(c)
    <3>1. CASE req[r].op = "restore"
      BY <3>1, AnsweredPhase
    <3>2. CASE req[r].op # "restore"
      <4>1. c \in CallRecords /\ c.to = req[r].to /\ c.pc = "stamp"
              /\ c.job = req[r].job
        BY <1>0, <3>2 DEF CallRecords, RequestPCs
      <4> QED
        BY <1>0, <2>1, <4>1 DEF CallPhase
    <3> QED
      BY <3>1, <3>2
  <2>3. queue' \in Seq(JobIds) /\ QueueRefers'
    <3>1. queue' = Append(queue, req[r].job) /\ created' = created
      BY <1>5 DEF Enqueue
    <3>2. /\ queue' \in Seq(JobIds)
          /\ Len(queue') = Len(queue) + 1
          /\ \A i \in 1 .. Len(queue) : queue'[i] = queue[i]
          /\ queue'[Len(queue) + 1] = req[r].job
      BY <1>0, <2>1, <3>1, AppendProperties
    <3>3. ASSUME NEW i \in 1 .. Len(queue') PROVE queue'[i] \in Existing
      <4>1. Len(queue) \in Nat
        BY <1>0
      <4>2. i \in 1 .. Len(queue) \/ i = Len(queue) + 1
        BY <3>2, <4>1
      <4> QED
        BY <2>1, <3>2, <4>2 DEF Bookkeeping, QueueRefers
    <3> QED
      BY <3>1, <3>2, <3>3 DEF QueueRefers, Existing
  <2>4. req' = [req EXCEPT ![r] = c]
          /\ UNCHANGED <<tenant, sub, site, jobs, created, worker, faults>>
    BY <1>5 DEF Enqueue, Bookkeeping, StateTypeOK
  <2> HIDE DEF c
  <2> QED
    BY <1>0, <2>2, <2>3, <2>4, CallStep
<1>6. CASE Stamp(r)
  <2>1. req[r].job \in Existing /\ req[r].job \in JobIds
    BY <1>0, <1>6, ConstantsAssumption
       DEF Stamp, CallPhase, Existing, JobIds, Bookkeeping, StateTypeOK
  <2> DEFINE j == req[r].job
             row == [jobs[j] EXCEPT !.rq = TRUE]
  <2>2. jobs[j] \in [kind : JobKinds, status : JobStatuses, rq : BOOLEAN]
    <3>1. jobs[j].kind \in JobKinds
      BY <2>1 DEF Bookkeeping, StateTypeOK, RowsExist, Existing
    <3>2. jobs[j] \in JobRows
      BY <2>1 DEF Bookkeeping, StateTypeOK
    <3> QED
      BY <3>1, <3>2 DEF JobRows, NoRow, JobKinds
  <2>3. row \in JobRows /\ row.kind = jobs[j].kind
    BY <2>2 DEF JobRows
  <2>4. jobs' = [jobs EXCEPT ![j] = row]
    BY <1>6 DEF Stamp
  <2> HIDE DEF row
  <2>5. /\ jobs' \in [JobIds -> JobRows]
        /\ \A k \in JobIds : jobs'[k].kind = jobs[k].kind
    BY <2>1, <2>3, <2>4 DEF Bookkeeping, StateTypeOK
  <2>6. req' = [req EXCEPT ![r] = Answered]
          /\ UNCHANGED <<tenant, sub, site, created, queue, worker, faults>>
    BY <1>6 DEF Stamp
  <2>7. StateTypeOK'
    <3>1. req' \in [Requests -> CallRecords]
      BY <2>6, AnsweredPhase DEF Bookkeeping, StateTypeOK, CallRecords
    <3> QED
      BY <2>5, <2>6, <3>1 DEF Bookkeeping, StateTypeOK, CallRecords
  <2>8. (RowsExist /\ QueueRefers)'
    BY <2>5, <2>6 DEF Bookkeeping, RowsExist, QueueRefers, Existing
  <2>9. (\A q \in Requests : CallPhase(req[q]))'
    <3> SUFFICES ASSUME NEW q \in Requests PROVE CallPhase(req[q])'
      OBVIOUS
    <3>1. req'[q] = IF q = r THEN Answered ELSE req[q]
      BY <2>6 DEF Bookkeeping, StateTypeOK
    <3>2. CallPhase(req'[q])
      BY <3>1, AnsweredPhase DEF Bookkeeping
    <3> QED
      BY <2>6, <3>2 DEF CallPhase, Existing
  <2>10. (\A w \in Workers : Placed(worker[w]))'
    <3> SUFFICES ASSUME NEW w \in Workers PROVE Placed(worker[w])'
      OBVIOUS
    <3>1. Placed(worker[w])
      BY DEF Bookkeeping
    <3>2. \A k \in Existing : k \in JobIds
      BY ConstantsAssumption DEF Existing, Bookkeeping, StateTypeOK, JobIds
    <3> QED
      BY <2>5, <2>6, <3>1, <3>2 DEF Placed, Existing
  <2> QED
    BY <2>7, <2>8, <2>9, <2>10 DEF Bookkeeping
<1>7. CASE Abort(r)
  <2>1. faults' \in 0 .. MaxFaults
    BY <1>0, <1>7, ConstantsAssumption DEF Abort
  <2> QED
    BY <1>0, <1>7, <2>1, AnsweredPhase, QuietCallStep DEF Abort
<1> QED
  BY <1>1, <1>2, <1>3, <1>4, <1>5, <1>6, <1>7 DEF RequestStep

(* Every step keeps the bookkeeping (Next).                                *)
LEMMA BookkeepingStep == Bookkeeping /\ [Next]_vars => Bookkeeping'
<1>1. ASSUME Bookkeeping, UNCHANGED vars PROVE Bookkeeping'
  <2>1. StateTypeOK'
    BY <1>1 DEF Bookkeeping, StateTypeOK, vars
  <2> QED
    BY <1>1, <2>1 DEF Bookkeeping, RowsExist, QueueRefers, CallPhase, Placed,
                      Existing, vars
<1> QED
  BY <1>1, CallsKeepBookkeeping, WorkerKeepsBookkeeping DEF Next

(* So are the history variables (_is_delete_site_not_found, the registries *)
(* of RQ, enqueue_provisioning_for_paid_tenant).                           *)
LEMMA HistoryStep ==
    ASSUME Bookkeeping, TypeOK, [Next]_vars
    PROVE  TypeOK'
<1>1. StateTypeOK'
  BY BookkeepingStep DEF Bookkeeping
<1>2. site \in BOOLEAN /\ site' \in BOOLEAN
  BY <1>1 DEF TypeOK, StateTypeOK
<1>3. CASE UNCHANGED vars
  BY <1>1, <1>3 DEF TypeOK, vars
<1>4. ASSUME NEW r \in Requests,
             (\E op \in Ops : Call(r, op)) \/ RequestStep(r) \/ Abort(r)
      PROVE  left' = left /\ parked' = parked /\ crossed' \in BOOLEAN
  <2>1. CASE Find(r)
    BY <2>1 DEF Find, TypeOK
  <2>2. CASE ~Find(r)
    BY <1>4, <2>2 DEF RequestStep, Call, Write, Insert, Enqueue, Stamp, Abort,
                      TypeOK
  <2> QED
    BY <2>1, <2>2
<1>5. ASSUME NEW w \in Workers, WorkerStep(w) \/ Timeout(w) \/ Lose(w)
      PROVE  /\ left' \in BOOLEAN /\ parked' \in SUBSET JobIds
             /\ crossed' = crossed
  <2>1. Parks(w)
    BY <1>5 DEF WorkerStep, Timeout, Lose
  <2>2. parked' \in SUBSET JobIds
    BY <2>1 DEF Parks, TypeOK
  <2>3. CASE Work(w)
    BY <1>2, <2>2, <2>3 DEF Work, SiteNotFound, TypeOK
  <2>4. CASE Lose(w)
    BY <1>2, <2>2, <2>4 DEF Lose, TypeOK
  <2>5. CASE ~Work(w) /\ ~Lose(w)
    BY <1>5, <2>2, <2>5
       DEF WorkerStep, Dequeue, MarkRunning, Begin, Enter, Finish, Land,
           Success, After, Handle, Fail, FailJob, Timeout, TypeOK
  <2> QED
    BY <2>3, <2>4, <2>5
<1> QED
  BY <1>1, <1>3, <1>4, <1>5 DEF Next, TypeOK

(* The state is well typed: every status the calls and the tasks write is  *)
(* one the columns can hold, every message and every task is on a row of   *)
(* the tenant (modules/tenant/state.py, modules/tenant/service.py,         *)
(* workers/tasks.py).                                                      *)
THEOREM TypeCorrect == Spec => []TypeOK
<1>1. Init => Bookkeeping /\ TypeOK
  BY BookkeepingInit DEF Init, Bookkeeping, TypeOK
<1>2. (Bookkeeping /\ TypeOK) /\ [Next]_vars => (Bookkeeping /\ TypeOK)'
  BY BookkeepingStep, HistoryStep
<1> QED
  BY <1>1, <1>2, PTL DEF Spec

-----------------------------------------------------------------------------
(***************************************************************************)
(* With one worker process, what a task leaves behind is still there when  *)
(* it reports it: Inv is inductive.                                        *)
(***************************************************************************)

(* A row keeps its kind.                                                   *)
LEMMA KindsKept ==
    ASSUME Bookkeeping, Next
    PROVE  \A k \in Existing : jobs'[k].kind = jobs[k].kind
<1>0. \A k \in Existing : k \in JobIds
  BY ConstantsAssumption DEF Existing, Bookkeeping, StateTypeOK, JobIds
<1>1. CASE jobs' = jobs
  BY <1>1
<1>2. CASE created' = created
             /\ \E j \in Existing, s \in JobStatuses :
                    jobs' = [jobs EXCEPT ![j].status = s]
  BY <1>0, <1>2, StatusUpdate DEF Bookkeeping
<1>3. CASE \E r \in Requests : Insert(r)
  <2>1. \A k \in Existing : k # created + 1
    BY DEF Existing, Bookkeeping, StateTypeOK
  <2> QED
    BY <1>0, <1>3, <2>1 DEF Insert, Bookkeeping, StateTypeOK
<1>4. CASE \E r \in Requests : Stamp(r)
  <2>1. PICK r \in Requests : Stamp(r)
    BY <1>4
  <2>2. req[r].job \in Existing /\ req[r].job \in JobIds
    BY <1>0, <2>1 DEF Stamp, Bookkeeping, CallPhase
  <2>3. jobs[req[r].job]
            \in [kind : JobKinds, status : JobStatuses, rq : BOOLEAN]
    <3>1. jobs[req[r].job].kind \in JobKinds
      BY <2>2 DEF Bookkeeping, StateTypeOK, RowsExist, Existing
    <3>2. jobs[req[r].job] \in JobRows
      BY <2>2 DEF Bookkeeping, StateTypeOK
    <3> QED
      BY <3>1, <3>2 DEF JobRows, NoRow, JobKinds
  <2>4. jobs' = [jobs EXCEPT ![req[r].job].rq = TRUE]
    BY <2>1 DEF Stamp
  <2> QED
    BY <1>0, <2>2, <2>3, <2>4 DEF Bookkeeping, StateTypeOK
<1>5. ASSUME NEW r \in Requests, \E op \in Ops : Call(r, op)
      PROVE  jobs' = jobs
  BY <1>5 DEF Call
<1>6. ASSUME NEW r \in Requests, RequestStep(r) \/ Abort(r),
             ~Insert(r), ~Stamp(r)
      PROVE  jobs' = jobs
  BY <1>6 DEF RequestStep, Abort, Write, Find, Enqueue
<1>7. ASSUME NEW w \in Workers, WorkerStep(w) \/ Timeout(w) \/ Lose(w)
      PROVE  \/ jobs' = jobs
             \/ created' = created
                  /\ \E j \in Existing, s \in JobStatuses :
                         jobs' = [jobs EXCEPT ![j].status = s]
  <2>1. CASE MarkRunning(w)
    BY <2>1 DEF MarkRunning, Bookkeeping, Placed, JobStatuses
  <2>2. CASE Success(w)
    BY <2>2 DEF Success, Bookkeeping, Placed, JobStatuses
  <2>3. CASE FailJob(w)
    BY <2>3 DEF FailJob, Bookkeeping, Placed, JobStatuses
  <2>4. CASE ~(MarkRunning(w) \/ Success(w) \/ FailJob(w))
    BY <1>7, <2>4 DEF WorkerStep, Dequeue, Begin, Enter, Work, Finish, Land,
                      After, Handle, Fail, Timeout, Lose
  <2> QED
    BY <2>1, <2>2, <2>3, <2>4
<1> QED
  BY <1>1, <1>2, <1>3, <1>4, <1>5, <1>6, <1>7 DEF Next

(* No call touches the site or makes a tenant deleted.                     *)
LEMMA CallsSpareTheSite ==
    ASSUME Bookkeeping, NEW r \in Requests,
           (\E op \in Ops : Call(r, op)) \/ RequestStep(r) \/ Abort(r)
    PROVE  /\ site' = site /\ left' = left
           /\ worker' = worker
           /\ tenant' = "deleted" => tenant = "deleted"
<1>1. CASE Write(r)
  <2>1. req[r].to # "deleted"
    BY DEF Bookkeeping, CallPhase, WorkerStatuses
  <2> QED
    BY <1>1, <2>1 DEF Write, Written
<1>2. CASE ~Write(r)
  BY <1>2 DEF RequestStep, Call, Find, Insert, Enqueue, Stamp, Abort
<1> QED
  BY <1>1, <1>2

(* What one step may do to the site, and to what is said of it.            *)
Builds == ~site /\ site' /\ ~left'
Drops == site /\ ~site' /\ ~left'
Misreads == site /\ site' /\ left'

SiteMoves ==
    tenant # "deleted" /\ tenant' = tenant /\ (Builds \/ Drops \/ Misreads)

(* What one step of a task does to the site and to the status, when what   *)
(* TaskSite says of it holds before.                                       *)
LEMMA TaskEffects ==
    ASSUME Inv, NEW w \in Workers,
           WorkerStep(w) \/ Timeout(w) \/ Lose(w)
    PROVE  /\ UNCHANGED <<site, left>> \/ SiteMoves
           /\ site' \in BOOLEAN /\ left' \in BOOLEAN
           /\ tenant' = "deleted" /\ tenant # "deleted" =>
                  (site => left) /\ UNCHANGED <<site, left>>
           /\ worker'[w].pc = "work" /\ Kind(w) # "backup" =>
                  tenant' # "deleted"
           /\ worker'[w].pc \in {"finish", "land", "success"} =>
                  IF Kind(w) = "delete" THEN site' => left' ELSE site'
           /\ worker'[w].pc \in {"work", "finish", "land", "success"} =>
                  worker[w].pc # "idle" /\ worker'[w].job = worker[w].job
<1>0. /\ tenant = "deleted" => (site => left)
      /\ site \in BOOLEAN /\ left \in BOOLEAN /\ (left => site)
      /\ worker[w].pc = "work" /\ Kind(w) # "backup" => tenant # "deleted"
      /\ worker[w].pc \in {"finish", "land", "success"} =>
             IF Kind(w) = "delete" THEN site => left ELSE site
      /\ worker \in [Workers -> TaskRecords]
      /\ worker[w].pc # "idle" => Kind(w) \in JobKinds
  <2>1. worker[w].pc # "idle" => Kind(w) \in JobKinds
    BY ConstantsAssumption
       DEF Inv, Bookkeeping, Placed, RowsExist, Existing, Kind, JobIds,
           StateTypeOK
  <2> QED
    BY <2>1 DEF Inv, OnlyMisreadLeavesSite, TaskSite, SiteAsTold, Bookkeeping,
                StateTypeOK, TaskRecords
<1>1. ASSUME NEW pc, Goto(w, pc)
      PROVE  worker'[w].pc = pc /\ worker'[w].job = worker[w].job
  BY <1>0, <1>1 DEF Goto, TaskRecords
<1>2. ASSUME NEW pc, worker' = [worker EXCEPT ![w].pc = pc, ![w].caught = TRUE]
      PROVE  worker'[w].pc = pc /\ worker'[w].job = worker[w].job
  BY <1>0, <1>2 DEF TaskRecords
<1>3. ASSUME Escape(w) PROVE worker'[w].pc = "idle"
  BY <1>0, <1>3 DEF Escape, IdleWorker
<1>4. ASSUME Raise(w)
      PROVE  worker'[w].pc \in {"idle", "handle", "failjob"}
  <2>1. CASE worker[w].caught
    BY <1>3, <1>4, <2>1 DEF Raise
  <2>2. CASE ~worker[w].caught
    <3>1. worker' = [worker EXCEPT
                        ![w].pc = IF Kind(w) = "backup" THEN "failjob"
                                                        ELSE "handle",
                        ![w].caught = TRUE]
      BY <1>4, <2>2 DEF Raise
    <3>2. worker'[w].pc = IF Kind(w) = "backup" THEN "failjob" ELSE "handle"
      BY <1>2, <3>1
    <3> QED
      BY <3>2
  <2> QED
    BY <2>1, <2>2
<1>5. ASSUME RaiseRefused(w)
      PROVE  worker'[w].pc \in {"idle", "handle", "failjob"}
  BY <1>2, <1>4, <1>5 DEF RaiseRefused
<1>6. CASE Dequeue(w)
  BY <1>0, <1>6 DEF Dequeue, TaskRecords
<1>19. CASE MarkRunning(w)
  BY <1>0, <1>1, <1>19 DEF MarkRunning
<1>7. CASE Begin(w)
  <2>1. tenant' = tenant /\ site' = site /\ left' = left
    BY <1>7 DEF Begin
  <2>2. worker'[w].pc = "work" /\ Kind(w) # "backup" => tenant # "deleted"
    <3>1. SUFFICES ASSUME worker'[w].pc = "work", Kind(w) # "backup"
                   PROVE  tenant = EnteredStatus[Kind(w)]
      BY <1>0, <1>7 DEF Begin, EnteredStatus, JobKinds
    <3> QED
      BY <1>1, <1>5, <1>7, <3>1 DEF Begin
  <2>3. /\ worker'[w].pc \notin {"finish", "land", "success"}
        /\ worker'[w].pc = "work" => worker'[w].job = worker[w].job
        /\ worker[w].pc # "idle"
    BY <1>1, <1>5, <1>7 DEF Begin
  <2> QED
    BY <1>0, <2>1, <2>2, <2>3
<1>8. CASE Enter(w)
  <2>1. /\ worker'[w].pc = "work" /\ site' = site /\ left' = left
        /\ worker[w].pc # "idle" /\ worker'[w].job = worker[w].job
    BY <1>1, <1>8 DEF Enter
  <2>2. tenant' # "deleted"
    <3>1. Kind(w) \in {"create", "delete", "restore"}
      BY <1>0, <1>8 DEF Enter, Inv, Bookkeeping, Placed, Kind, JobKinds
    <3> QED
      BY <1>8, <3>1 DEF Enter, EnteredStatus
  <2> QED
    BY <1>0, <2>1, <2>2
<1>9. CASE Work(w)
  <2>0. /\ worker[w].pc = "work" /\ tenant' = tenant
        /\ Kind(w) \in JobKinds
    BY <1>0, <1>9 DEF Work
  <2>1. CASE Kind(w) = "create" /\ Provisioned(w) /\ left' = (left /\ site')
    BY <1>0, <1>1, <2>0, <2>1 DEF Provisioned, SiteMoves, Builds
  <2>2. CASE Kind(w) = "delete" /\ Dropped(w) /\ left' = (left /\ site')
    BY <1>0, <1>1, <2>0, <2>2 DEF Dropped, SiteMoves, Drops
  <2>3. CASE Kind(w) = "delete" /\ SiteNotFound(w)
    <3>1. /\ worker'[w].pc = "finish" /\ worker'[w].job = worker[w].job
          /\ left' = site' /\ (site' = site \/ site' = FALSE)
      BY <1>2, <2>3 DEF SiteNotFound, PartialEffect
    <3> QED
      BY <1>0, <2>0, <2>3, <3>1 DEF SiteMoves, Drops, Misreads
  <2>4. CASE /\ Kind(w) \in {"restore", "backup"} /\ Copied(w)
             /\ left' = (left /\ site')
    BY <1>0, <1>1, <2>0, <2>4 DEF Copied
  <2>5. CASE WorkFailed(w) /\ left' = (left /\ site')
    <3>1. /\ worker'[w].pc \in {"idle", "handle", "failjob"}
          /\ \/ site' = site
             \/ Kind(w) = "create" /\ site' = TRUE
             \/ Kind(w) = "delete" /\ site' = FALSE
      BY <1>4, <2>5 DEF WorkFailed, PartialEffect
    <3>2. left' \in BOOLEAN /\ site' \in BOOLEAN /\ (left' <=> left /\ site')
      BY <1>0, <2>5, <3>1
    <3>3. UNCHANGED <<site, left>> \/ SiteMoves
      BY <1>0, <2>0, <3>1, <3>2 DEF SiteMoves, Builds, Drops
    <3> QED
      BY <2>0, <3>1, <3>2, <3>3
  <2> QED
    BY <1>9, <2>1, <2>2, <2>3, <2>4, <2>5 DEF Work
<1>10. CASE Finish(w)
  BY <1>0, <1>1, <1>5, <1>10 DEF Finish
<1>11. CASE Land(w)
  <2>1. /\ worker'[w].pc = "success" /\ site' = site /\ left' = left
        /\ worker[w].pc = "land" /\ worker'[w].job = worker[w].job
    BY <1>1, <1>11 DEF Land
  <2>2. tenant' = "deleted" => Kind(w) = "delete"
    <3>1. Kind(w) \in {"create", "delete", "restore"}
      BY <1>0, <1>11 DEF Land, Inv, Bookkeeping, Placed, Kind, JobKinds
    <3> QED
      BY <1>11, <3>1 DEF Land, FinalStatus
  <2> QED
    BY <1>0, <2>1, <2>2
<1>12. CASE Success(w)
  BY <1>0, <1>1, <1>12 DEF Success
<1>13. CASE After(w)
  BY <1>0, <1>3, <1>13 DEF After
<1>14. CASE Handle(w)
  BY <1>0, <1>1, <1>3, <1>14 DEF Handle
<1>15. CASE Fail(w)
  BY <1>0, <1>1, <1>15 DEF Fail
<1>16. CASE FailJob(w)
  BY <1>0, <1>3, <1>16 DEF FailJob
<1>17. CASE Timeout(w)
  BY <1>0, <1>4, <1>17 DEF Timeout
<1>18. CASE Lose(w)
  <2>1. /\ worker'[w].pc = "idle" /\ tenant' = tenant
        /\ left' = (left /\ site')
    BY <1>3, <1>18 DEF Lose
  <2>2. \/ site' = site
        \/ /\ worker[w].pc = "work"
           /\ \/ Kind(w) = "create" /\ site' = TRUE
              \/ Kind(w) = "delete" /\ site' = FALSE
    BY <1>18 DEF Lose, PartialEffect
  <2> QED
    BY <1>0, <2>1, <2>2 DEF SiteMoves, Builds, Drops
<1> QED
  BY <1>6, <1>7, <1>8, <1>9, <1>10, <1>11, <1>12, <1>13, <1>14, <1>15, <1>16,
     <1>17, <1>18, <1>19 DEF WorkerStep

(* A tenant starts with its site where its status says so (Init).          *)
LEMMA InvInit == Init => Inv
<1>1. Init => left \in BOOLEAN /\ (left => site) /\ OnlyMisreadLeavesSite
  BY DEF Init, JustCheckedOut, InService, OnlyMisreadLeavesSite
<1>2. Init => \A w \in Workers : TaskSite(w)
  BY DEF Init, TaskSite, IdleWorker
<1> QED
  BY <1>1, <1>2, BookkeepingInit DEF Inv

(* Every step keeps a deleted tenant without a site, with one worker       *)
(* (Next).                                                                 *)
LEMMA InvStep ==
    ASSUME SingleWorker, Inv, [Next]_vars
    PROVE  Inv'
<1>1. Bookkeeping'
  BY BookkeepingStep DEF Inv
<1>2. CASE UNCHANGED vars
  BY <1>1, <1>2 DEF Inv, OnlyMisreadLeavesSite, TaskSite, SiteAsTold, Kind,
                    vars
<1>3. ASSUME NEW v \in Workers, Next,
             worker'[v].pc # "idle", worker'[v].job = worker[v].job,
             worker[v].pc # "idle"
      PROVE  Kind(v)' = Kind(v)
  BY <1>3, KindsKept DEF Inv, Bookkeeping, Placed, Kind
<1>4. CASE \E r \in Requests :
               (\E op \in Ops : Call(r, op)) \/ RequestStep(r) \/ Abort(r)
  <2>1. /\ site' = site /\ left' = left /\ worker' = worker
        /\ tenant' = "deleted" => tenant = "deleted"
    BY <1>4, CallsSpareTheSite DEF Inv
  <2>2. Next
    BY <1>4 DEF Next
  <2>3. (left \in BOOLEAN /\ (left => site) /\ OnlyMisreadLeavesSite)'
    BY <2>1 DEF Inv, OnlyMisreadLeavesSite
  <2>4. ASSUME NEW v \in Workers PROVE TaskSite(v)'
    BY <1>3, <2>1, <2>2 DEF Inv, TaskSite, SiteAsTold
  <2> QED
    BY <1>1, <2>3, <2>4 DEF Inv
<1>5. CASE \E w \in Workers : WorkerStep(w) \/ Timeout(w) \/ Lose(w)
  <2>1. PICK w \in Workers : WorkerStep(w) \/ Timeout(w) \/ Lose(w)
    BY <1>5
  <2>2. Next
    BY <2>1 DEF Next
  <2>3. (left \in BOOLEAN /\ (left => site) /\ OnlyMisreadLeavesSite)'
    BY <2>1, TaskEffects
       DEF Inv, OnlyMisreadLeavesSite, SiteMoves, Builds, Drops, Misreads
  <2>4. TaskSite(w)'
    <3>1. worker'[w].pc \in {"work", "finish", "land", "success"} =>
              Kind(w)' = Kind(w)
      BY <1>3, <2>1, <2>2, TaskEffects
    <3> QED
      BY <2>1, <3>1, TaskEffects DEF TaskSite, SiteAsTold
  <2>5. ASSUME NEW v \in Workers PROVE TaskSite(v)'
    BY <2>4 DEF SingleWorker
  <2> QED
    BY <1>1, <2>3, <2>5 DEF Inv
<1> QED
  BY <1>2, <1>4, <1>5 DEF Next

(* A row with a status of the table is a record of three columns.          *)
LEMMA RunningRow ==
    ASSUME StateTypeOK, NEW j \in JobIds, jobs[j].status = "running"
    PROVE  /\ [jobs[j] EXCEPT !.rq = TRUE].status = "running"
           /\ \A s : [jobs[j] EXCEPT !.status = s].status = s
<1>1. jobs[j] \in [kind : JobKinds, status : JobStatuses, rq : BOOLEAN]
  BY DEF StateTypeOK, JobRows, NoRow
<1> QED
  BY <1>1

(* Only the task on a job makes it succeeded, when its work is done.       *)
LEMMA OnlySuccess ==
    ASSUME Bookkeeping, Next, NEW j \in JobIds,
           jobs[j].status = "running", jobs'[j].status = "succeeded"
    PROVE  \E w \in Workers : Success(w) /\ worker[w].job = j
<1>0. \A k \in Existing : k \in JobIds
  BY ConstantsAssumption DEF Existing, Bookkeeping, StateTypeOK, JobIds
<1>1. jobs' # jobs
  OBVIOUS
<1>2. ASSUME NEW r \in Requests, \E op \in Ops : Call(r, op)
      PROVE  FALSE
  BY <1>1, <1>2 DEF Call
<1>3. ASSUME NEW r \in Requests, RequestStep(r) \/ Abort(r)
      PROVE  FALSE
  <2>1. CASE Insert(r)
    <3>1. jobs' = [jobs EXCEPT ![created + 1] =
                       [kind |-> KindOf(req[r].op), status |-> "queued",
                        rq |-> FALSE]]
      BY <2>1 DEF Insert
    <3>2. jobs'[j].status \in {"queued", jobs[j].status}
      BY <3>1 DEF Bookkeeping, StateTypeOK
    <3> QED
      BY <3>2
  <2>2. CASE Stamp(r)
    <3>1. jobs' = [jobs EXCEPT ![req[r].job].rq = TRUE]
      BY <2>2 DEF Stamp
    <3>2. jobs'[j] = jobs[j] \/ jobs'[j] = [jobs[j] EXCEPT !.rq = TRUE]
      BY <3>1 DEF Bookkeeping, StateTypeOK
    <3>3. jobs'[j].status = jobs[j].status
      BY <3>2, RunningRow DEF Bookkeeping
    <3> QED
      BY <3>3
  <2>3. CASE ~Insert(r) /\ ~Stamp(r)
    BY <1>1, <1>3, <2>3 DEF RequestStep, Abort, Write, Find, Enqueue
  <2> QED
    BY <2>1, <2>2, <2>3
<1>4. ASSUME NEW w \in Workers, WorkerStep(w) \/ Timeout(w) \/ Lose(w)
      PROVE  Success(w) /\ worker[w].job = j
  <2>1. ASSUME NEW k \in Existing, NEW s \in JobStatuses,
               jobs' = [jobs EXCEPT ![k].status = s]
        PROVE  k = j /\ s = "succeeded"
    <3>1. CASE k # j
      BY <2>1, <3>1 DEF Bookkeeping, StateTypeOK
    <3>2. CASE k = j
      <4>1. jobs'[j] = [jobs[j] EXCEPT !.status = s]
        BY <2>1, <3>2 DEF Bookkeeping, StateTypeOK
      <4> QED
        BY <3>2, <4>1, RunningRow
    <3> QED
      BY <3>1, <3>2
  <2>2. CASE MarkRunning(w)
    <3>1. worker[w].job \in Existing
      BY <2>2 DEF MarkRunning, Bookkeeping, Placed
    <3>2. "running" \in JobStatuses /\ "running" # "succeeded"
      BY DEF JobStatuses
    <3> QED
      BY <2>1, <2>2, <3>1, <3>2 DEF MarkRunning
  <2>3. CASE Success(w)
    <3>1. worker[w].job \in Existing
      BY <2>3 DEF Success, Bookkeeping, Placed
    <3>2. "succeeded" \in JobStatuses
      BY DEF JobStatuses
    <3> QED
      BY <2>1, <2>3, <3>1, <3>2 DEF Success
  <2>4. CASE FailJob(w)
    <3>1. worker[w].job \in Existing
      BY <2>4 DEF FailJob, Bookkeeping, Placed
    <3>2. "failed" \in JobStatuses /\ "failed" # "succeeded"
      BY DEF JobStatuses
    <3> QED
      BY <2>1, <2>4, <3>1, <3>2 DEF FailJob
  <2>5. CASE ~(MarkRunning(w) \/ Success(w) \/ FailJob(w))
    BY <1>1, <1>4, <2>5 DEF WorkerStep, Dequeue, Begin, Enter, Work, Finish,
                            Land, After, Handle, Fail, Timeout, Lose
  <2> QED
    BY <2>2, <2>3, <2>4, <2>5
<1> QED
  BY <1>2, <1>3, <1>4 DEF Next

(* So it does in every behaviour, with one worker (delete_tenant,          *)
(* provision_tenant).                                                      *)
LEMMA InvHolds ==
    ASSUME SingleWorker
    PROVE  Spec => []Inv
<1>1. Inv /\ [Next]_vars => Inv'
  BY InvStep
<1> QED
  BY <1>1, InvInit, PTL DEF Spec

(* With one worker process, a tenant the API reports as deleted has no     *)
(* site left on the bench unless an error was taken for its absence,       *)
(* whatever calls, timeouts, crashes and provider events race with its     *)
(* deletion (workers/tasks.py, delete_tenant).                             *)
THEOREM DeletionIsSafe ==
    ASSUME SingleWorker
    PROVE  Spec => []OnlyMisreadLeavesSite
<1>1. Inv => OnlyMisreadLeavesSite
  BY DEF Inv
<1> QED
  BY <1>1, InvHolds, PTL

(* With one worker process, a job is only reported succeeded when the site *)
(* is as its kind says, or, for a deletion, as an error made it believe    *)
(* (workers/tasks.py, mark_job_success).                                   *)
THEOREM SuccessIsTold ==
    ASSUME SingleWorker
    PROVE  Spec => SuccessIsReal
<1>1. ASSUME Inv, Next, NEW j \in JobIds,
             jobs[j].status = "running", jobs'[j].status = "succeeded"
      PROVE  IF jobs[j].kind = "delete" THEN site => left ELSE site
  <2>1. PICK w \in Workers : Success(w) /\ worker[w].job = j
    BY <1>1, OnlySuccess DEF Inv
  <2>2. worker[w].pc = "success"
    BY <2>1 DEF Success
  <2> QED
    BY <1>1, <2>1, <2>2 DEF Inv, TaskSite, SiteAsTold, Kind
<1>2. Inv /\ [Next]_vars =>
          [\A j \in JobIds :
              jobs[j].status = "running" /\ jobs'[j].status = "succeeded" =>
                  IF jobs[j].kind = "delete" THEN site => left ELSE site]_vars
  BY <1>1
<1> QED
  BY <1>2, InvHolds, PTL DEF SuccessIsReal, Spec

(* With one worker process, the detailed system implements the promise     *)
(* DeletedSite makes: the site is built, dropped and looked for only while *)
(* the tenant is not deleted, and the tenant is buried only without a site *)
(* or with one an error hid (workers/tasks.py, provision_tenant and        *)
(* delete_tenant).                                                         *)
THEOREM PromiseIsKept ==
    ASSUME SingleWorker
    PROVE  Spec => KeepsDeletionPromise
<1>1. Init => Promise!Init
  BY DEF Init, JustCheckedOut, InService, Promise!Init
<1>2. Inv /\ [Next]_vars => [Promise!Next]_<<tenant = "deleted", site, left>>
  <2> SUFFICES ASSUME Inv, Next
               PROVE  \/ Promise!Next
                      \/ UNCHANGED <<tenant = "deleted", site, left>>
    BY DEF vars
  <2>0. /\ site \in BOOLEAN /\ left \in BOOLEAN /\ (left => site)
        /\ tenant = "deleted" => (site => left)
    BY DEF Inv, Bookkeeping, StateTypeOK, OnlyMisreadLeavesSite
  <2>1. CASE \E r \in Requests :
                 (\E op \in Ops : Call(r, op)) \/ RequestStep(r) \/ Abort(r)
    <3>1. /\ site' = site /\ left' = left
          /\ tenant' = "deleted" => tenant = "deleted"
      BY <2>1, CallsSpareTheSite DEF Inv
    <3> QED
      BY <3>1 DEF Promise!Next, Promise!Reopen
  <2>2. CASE \E w \in Workers : WorkerStep(w) \/ Timeout(w) \/ Lose(w)
    <3>1. /\ UNCHANGED <<site, left>> \/ SiteMoves
          /\ site' \in BOOLEAN /\ left' \in BOOLEAN
          /\ tenant' = "deleted" /\ tenant # "deleted" =>
                 (site => left) /\ UNCHANGED <<site, left>>
      BY <2>2, TaskEffects
    <3>2. CASE UNCHANGED <<site, left>>
      BY <3>1, <3>2 DEF Promise!Next, Promise!Bury, Promise!Reopen
    <3>3. CASE SiteMoves
      BY <2>0, <3>1, <3>3
         DEF SiteMoves, Builds, Drops, Misreads, Promise!Next, Promise!Build,
             Promise!Drop, Promise!Misread
    <3> QED
      BY <3>1, <3>2, <3>3
  <2> QED
    BY <2>1, <2>2 DEF Next
<1> QED
  BY <1>1, <1>2, InvHolds, PTL DEF KeepsDeletionPromise, Promise!Spec, Spec

=============================================================================
