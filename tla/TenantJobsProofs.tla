-------------------------- MODULE TenantJobsProofs --------------------------
(***************************************************************************)
(* More proofs about TenantProvisioning: its job rows and messages, what a *)
(* tenant gets before it has paid, and what its status says of its site    *)
(* and of the worker.                                                      *)
(***************************************************************************)
EXTENDS TenantProvisioningProofs, FiniteSetTheorems

(* The jobs a message is for. *)
Messages == {queue[i] : i \in 1 .. Len(queue)}

(***************************************************************************)
(* Stamped jobs: a call stamps a job it has enqueued, and the message that *)
(* a worker takes stays with that worker until it is idle again.           *)
(***************************************************************************)
Taken(w, j) == worker[w].pc # "idle" /\ worker[w].job = j

Sent(j) == j \in Messages \/ (\E w \in Workers : Taken(w, j)) \/ j \in parked

StampersEnqueued ==
    \A r \in Requests :
        req[r].pc = "stamp" /\ jobs[req[r].job].status = "queued" =>
            Sent(req[r].job)

StampInv == Bookkeeping /\ StampedJobsHaveMessages /\ StampersEnqueued

(***************************************************************************)
(* Unpaid tenants: until a payment is written, no call is on its way to a  *)
(* create job, and the one that confirms it writes it.                     *)
(***************************************************************************)
Unpaid == sub = "pending"

AwaitsPayment(c) ==
    c.pc \in {"write", "find", "insert"} =>
        /\ c.op # "retry"
        /\ c.op = "confirm" => c.pc = "write" /\ c.pay = "active"

UnpaidInv ==
    /\ Bookkeeping
    /\ NothingBuiltUnpaid
    /\ sub # "trialing"
    /\ \A r \in Requests : req[r].pay \notin {"pending", "trialing"}
    /\ Unpaid => \A r \in Requests : AwaitsPayment(req[r])

(***************************************************************************)
(* Statuses under way: as long as nothing has failed, the task that wrote  *)
(* one is between entering it and leaving it.                              *)
(***************************************************************************)
UnderWay == {"provisioning", "restoring", "deleting"}

Runs(w) ==
    /\ worker[w].pc \in {"work", "finish", "land", "handle", "fail"}
    /\ Kind(w) # "backup"
    /\ tenant = EnteredStatus[Kind(w)]

(* Where a task may already be inside an except block.                     *)
CaughtLate(w) ==
    /\ worker[w].pc \in {"taken", "begin", "enter", "work"} => ~worker[w].caught
    /\ worker[w].pc = "finish" /\ worker[w].caught => Kind(w) = "delete"

RunInv ==
    /\ Bookkeeping
    /\ \A w \in Workers : CaughtLate(w)
    /\ faults = 0 /\ tenant \in UnderWay => \E w \in Workers : Runs(w)

(***************************************************************************)
(* Tenants in service: nobody but a task that built or restored the site   *)
(* makes a tenant active, and a deletion first takes it out of service.    *)
(***************************************************************************)
Suspenders == {"fail", "cancel", "suspend", "unsuspend"}

ServedInv ==
    /\ Inv
    /\ ActiveHasSite
    /\ tenant \notin Suspensions
    /\ \A r \in Requests : req[r].to \notin Suspensions \cup {"active"}
    /\ \A w \in Workers :
           worker[w].pc = "work" /\ Kind(w) = "delete" => tenant # "active"

(***************************************************************************)
(* Create jobs: as long as nothing has failed and no look crossed another  *)
(* call's, one call at a time is between its look and storing the RQ id,   *)
(* and one task at a time has the job.                                     *)
(***************************************************************************)
Provisioners == {"confirm", "retry"}

CreateJob(j) == jobs[j].kind = "create"
ToRun(j) == CreateJob(j) /\ jobs[j].status \in {"queued", "running"}

(* A call on a create job is one that provisions.                          *)
Branded(c) ==
    /\ c.pc = "find" => c.op \in Provisioners
    /\ c.pc \in {"enqueue", "stamp"} =>
           (CreateJob(c.job) <=> c.op \in Provisioners)

AloneToProvision ==
    ~crossed =>
        \A q, r \in Requests :
            Provisioning(req[q]) /\ Provisioning(req[r]) => q = r

OneToRun == \A j, k \in JobIds : ToRun(j) /\ ToRun(k) => j = k

OneMessage ==
    /\ \A i \in 1 .. Len(queue) :
           CreateJob(queue[i]) => jobs[queue[i]].status = "queued"
    /\ \A i, k \in 1 .. Len(queue) :
           CreateJob(queue[i]) /\ CreateJob(queue[k]) => i = k

(* What a call that provisions has found, and what it has inserted.        *)
Ready(c) ==
    c.op \in Provisioners =>
        /\ c.pc = "insert" => LiveCreateJobs = {}
        /\ c.pc = "enqueue" =>
               /\ jobs[c.job].status = "queued" /\ ~jobs[c.job].rq
               /\ c.job \notin Messages
               /\ \A w \in Workers : ~Taken(w, c.job)

(* A create job that still waits for its RQ id has the call to store it.   *)
Holds(c, j) ==
    c.pc \in {"enqueue", "stamp"} /\ c.op \in Provisioners /\ c.job = j

UnstampedHeld ==
    \A j \in JobIds :
        CreateJob(j) /\ jobs[j].status = "queued" /\ ~jobs[j].rq =>
            \E r \in Requests : Holds(req[r], j)

OnCreate(w) == worker[w].pc # "idle" /\ CreateJob(worker[w].job)

StatusAt(pc) == IF pc = "taken" THEN "queued"
                ELSE IF pc = "after" THEN "succeeded" ELSE "running"

OneTask ==
    /\ \A w \in Workers : OnCreate(w) =>
           jobs[worker[w].job].status = StatusAt(worker[w].pc)
    /\ \A w \in Workers : OnCreate(w) /\ worker[w].pc = "taken" =>
           worker[w].job \notin Messages
    /\ \A v, w \in Workers :
           OnCreate(v) /\ OnCreate(w) /\ worker[v].job = worker[w].job =>
               v = w

Steady ==
    /\ OneToRun
    /\ OneMessage
    /\ \A r \in Requests : Ready(req[r])
    /\ UnstampedHeld
    /\ OneTask

CreateInv ==
    /\ Bookkeeping
    /\ \A r \in Requests : Branded(req[r])
    /\ AloneToProvision
    /\ faults = 0 /\ ~crossed => Steady

-----------------------------------------------------------------------------
(***************************************************************************)
(* What any step does to the rows, the messages and the calls.             *)
(***************************************************************************)

(* The rows that exist are rows of the table.                              *)
LEMMA ExistingRows ==
    ASSUME Bookkeeping
    PROVE  /\ \A j \in Existing :
                  /\ j \in JobIds
                  /\ jobs[j] \in [kind : JobKinds, status : JobStatuses,
                                  rq : BOOLEAN]
           /\ \A j \in JobIds \ Existing : jobs[j] = NoRow
<1>1. \A j \in Existing : j \in JobIds
  BY ConstantsAssumption DEF Existing, Bookkeeping, StateTypeOK, JobIds
<1>2. \A j \in JobIds : j \in Existing <=> jobs[j].kind \in JobKinds
  <2>1. created \in Nat
    BY DEF Bookkeeping, StateTypeOK
  <2> QED
    BY <2>1 DEF Existing, JobIds, Bookkeeping, RowsExist
<1>3. \A j \in JobIds : jobs[j] \in JobRows
  BY DEF Bookkeeping, StateTypeOK
<1>4. ASSUME NEW j \in JobIds
      PROVE  \/ jobs[j] \in [kind : JobKinds, status : JobStatuses,
                             rq : BOOLEAN]
                 /\ jobs[j].kind \in JobKinds
             \/ jobs[j] = NoRow /\ jobs[j].kind \notin JobKinds
  <2>1. CASE jobs[j] = NoRow
    BY <2>1 DEF NoRow, JobKinds
  <2>2. CASE jobs[j] \in [kind : JobKinds, status : JobStatuses, rq : BOOLEAN]
    BY <2>2
  <2> QED
    BY <1>3, <2>1, <2>2 DEF JobRows
<1> QED
  BY <1>1, <1>2, <1>4, Zenon

(* One column of one row.                                                  *)
LEMMA StatusSet ==
    ASSUME Bookkeeping, NEW k \in Existing, NEW s \in JobStatuses,
           jobs' = [jobs EXCEPT ![k].status = s]
    PROVE  \A j \in Existing :
               /\ jobs'[j].kind = jobs[j].kind /\ jobs'[j].rq = jobs[j].rq
               /\ jobs'[j].status = IF j = k THEN s ELSE jobs[j].status
<1> SUFFICES ASSUME NEW j \in Existing
             PROVE  /\ jobs'[j].kind = jobs[j].kind
                    /\ jobs'[j].rq = jobs[j].rq
                    /\ jobs'[j].status = IF j = k THEN s ELSE jobs[j].status
  OBVIOUS
<1>1. j \in JobIds /\ k \in JobIds /\ jobs \in [JobIds -> JobRows]
  BY ExistingRows DEF Bookkeeping, StateTypeOK
<1>2. CASE j # k
  BY <1>1, <1>2
<1>3. CASE j = k
  <2>1. jobs[j] \in [kind : JobKinds, status : JobStatuses, rq : BOOLEAN]
    BY ExistingRows
  <2>2. jobs'[j] = [jobs[j] EXCEPT !.status = s]
    BY <1>1, <1>3
  <2> QED
    BY <1>3, <2>1, <2>2
<1> QED
  BY <1>2, <1>3

(* Storing the queue id of a job changes that column of its row only       *)
(* (rq_job_id).                                                            *)
LEMMA StampSet ==
    ASSUME Bookkeeping, NEW k \in Existing,
           jobs' = [jobs EXCEPT ![k].rq = TRUE]
    PROVE  \A j \in Existing :
               /\ jobs'[j].kind = jobs[j].kind
               /\ jobs'[j].status = jobs[j].status
               /\ jobs'[j].rq = IF j = k THEN TRUE ELSE jobs[j].rq
<1> SUFFICES ASSUME NEW j \in Existing
             PROVE  /\ jobs'[j].kind = jobs[j].kind
                    /\ jobs'[j].status = jobs[j].status
                    /\ jobs'[j].rq = IF j = k THEN TRUE ELSE jobs[j].rq
  OBVIOUS
<1>1. j \in JobIds /\ k \in JobIds /\ jobs \in [JobIds -> JobRows]
  BY ExistingRows DEF Bookkeeping, StateTypeOK
<1>2. CASE j # k
  BY <1>1, <1>2
<1>3. CASE j = k
  <2>1. jobs[j] \in [kind : JobKinds, status : JobStatuses, rq : BOOLEAN]
    BY ExistingRows
  <2>2. jobs'[j] = [jobs[j] EXCEPT !.rq = TRUE]
    BY <1>1, <1>3
  <2> QED
    BY <1>3, <2>1, <2>2
<1> QED
  BY <1>2, <1>3

(* The head of the queue is a row that exists, the tail is what follows.   *)
LEMMA HeadAndTail ==
    ASSUME Bookkeeping, queue # << >>
    PROVE  /\ Head(queue) = queue[1] /\ Head(queue) \in Existing
           /\ Len(queue) \in Nat /\ Len(queue) >= 1
           /\ Len(Tail(queue)) = Len(queue) - 1
           /\ \A i \in 1 .. Len(queue) - 1 : Tail(queue)[i] = queue[i + 1]
<1>1. queue \in Seq(JobIds)
  BY DEF Bookkeeping, StateTypeOK
<1>2. /\ Len(Tail(queue)) = Len(queue) - 1
      /\ \A i \in 1 .. Len(Tail(queue)) : Tail(queue)[i] = queue[i + 1]
  BY <1>1, HeadTailProperties
<1>3. Len(queue) \in Nat /\ Len(queue) >= 1 /\ Head(queue) = queue[1]
  BY <1>1
<1>4. 1 \in 1 .. Len(queue)
  BY <1>3
<1> QED
  BY <1>2, <1>3, <1>4 DEF Bookkeeping, QueueRefers

(* A message more, at the end.                                             *)
LEMMA QueueGrows ==
    ASSUME Bookkeeping, NEW j \in JobIds, queue' = Append(queue, j)
    PROVE  /\ Len(queue) \in Nat /\ Len(queue') = Len(queue) + 1
           /\ \A i \in 1 .. Len(queue) : queue'[i] = queue[i]
           /\ queue'[Len(queue) + 1] = j
           /\ Messages' = Messages \cup {j}
<1>1. /\ queue \in Seq(JobIds) /\ Len(queue) \in Nat
      /\ Len(queue') = Len(queue) + 1
      /\ \A i \in 1 .. Len(queue) : queue'[i] = queue[i]
      /\ queue'[Len(queue) + 1] = j
  BY AppendProperties DEF Bookkeeping, StateTypeOK
<1>2. \A i : i \in 1 .. Len(queue') <=>
                 i \in 1 .. Len(queue) \/ i = Len(queue) + 1
  BY <1>1
<1> QED
  BY <1>1, <1>2 DEF Messages

(* One message less: the others stay.                                      *)
LEMMA QueueShrinks ==
    ASSUME Bookkeeping, queue # << >>, queue' = Tail(queue)
    PROVE  /\ Messages' \subseteq Messages
           /\ Messages \subseteq Messages' \cup {Head(queue)}
<1>1. ASSUME NEW i \in 1 .. Len(queue), i # 1
      PROVE  i - 1 \in 1 .. Len(queue) - 1 /\ queue'[i - 1] = queue[i]
  <2>1. i - 1 \in 1 .. Len(queue) - 1 /\ (i - 1) + 1 = i
    BY <1>1, HeadAndTail
  <2> QED
    BY <2>1, HeadAndTail
<1>2. ASSUME NEW i \in 1 .. Len(queue) - 1
      PROVE  i + 1 \in 1 .. Len(queue) /\ queue'[i] = queue[i + 1]
  <2>1. i + 1 \in 1 .. Len(queue)
    BY HeadAndTail
  <2> QED
    BY <2>1, HeadAndTail
<1>3. /\ Head(queue) = queue[1]
      /\ Messages' = {queue'[i] : i \in 1 .. Len(queue) - 1}
  BY HeadAndTail DEF Messages
<1>4. ASSUME NEW k \in Messages, k # Head(queue) PROVE k \in Messages'
  <2>1. PICK i \in 1 .. Len(queue) : queue[i] = k
    BY DEF Messages
  <2>2. i # 1
    BY <1>3, <1>4, <2>1
  <2> QED
    BY <1>1, <1>3, <2>1, <2>2, Zenon
<1>5. ASSUME NEW k \in Messages' PROVE k \in Messages
  <2>1. PICK i \in 1 .. Len(queue) - 1 : queue'[i] = k
    BY <1>3, <1>5
  <2> QED
    BY <1>2, <2>1 DEF Messages
<1> QED
  BY <1>4, <1>5

(* The job of a call that enqueues or stamps, and of a task.               *)
LEMMA OnExisting ==
    ASSUME Bookkeeping
    PROVE  /\ \A r \in Requests : req[r].pc \in {"enqueue", "stamp"} =>
                  req[r].job \in Existing
           /\ \A w \in Workers : worker[w].pc # "idle" =>
                  worker[w].job \in Existing
           /\ req \in [Requests -> CallRecords]
           /\ worker \in [Workers -> TaskRecords]
BY DEF Bookkeeping, CallPhase, Placed, StateTypeOK, CallRecords, TaskRecords

-----------------------------------------------------------------------------
(***************************************************************************)
(* What the steps of a call make of it.                                    *)
(***************************************************************************)
LEMMA AnsweredFields ==
    /\ Answered.pc = "done" /\ Answered.op = "none" /\ Answered.to = Keep
    /\ Answered.pay = Keep
BY DEF Answered, NotCalled

(* A call loads the tenant and goes on to its own write (the endpoints of  *)
(* the tenant router).                                                     *)
LEMMA CallDoes ==
    ASSUME Bookkeeping, NEW r \in Requests, NEW op, Call(r, op)
    PROVE  /\ \A q \in Requests : q # r => req'[q] = req[q]
           /\ req'[r].pc = IF op \in {"backup", "restore"} THEN "insert"
                                                           ELSE "write"
           /\ req'[r].op = op
           /\ req'[r].to = Changed(tenant, Target(op))
           /\ req'[r].pay = IF op \in Events THEN Changed(sub, AfterEvent(op))
                                             ELSE Keep
           /\ Admitted(op)
           /\ op \in Serial => \A q \in InFlight : req[q].op \notin Serial
           /\ UNCHANGED <<tenant, sub, site, jobs, created, queue, worker,
                          faults, parked, crossed>>
BY OnExisting DEF Call

(* The commit of the tenant row, and where the call goes from it           *)
(* (enqueue_provisioning_for_paid_tenant, retry_tenant_provisioning).      *)
LEMMA WriteDoes ==
    ASSUME Bookkeeping, NEW r \in Requests, Write(r)
    PROVE  /\ \A q \in Requests : q # r => req'[q] = req[q]
           /\ req[r].pc = "write"
           /\ req'[r].pc = IF req[r].op \in {"confirm", "retry"} THEN "find"
                           ELSE IF req[r].op = "delete" THEN "insert"
                           ELSE "done"
           /\ req'[r].pc # "done" => req'[r].op = req[r].op
           /\ req'[r].to = Keep /\ req'[r].pay = Keep
           /\ tenant' = Written(tenant, req[r].to)
           /\ sub' = Written(sub, req[r].pay)
           /\ UNCHANGED <<site, jobs, created, queue, worker, faults,
                          parked, crossed>>
<1>1. req[r] \in CallRecords /\ req[r].pc = "write"
  BY OnExisting DEF Write
<1>2. req' = [req EXCEPT ![r] =
                  IF req[r].op \in {"confirm", "retry"}
                  THEN [req[r] EXCEPT !.pc = "find", !.to = Keep, !.pay = Keep]
                  ELSE IF req[r].op = "delete"
                  THEN [req[r] EXCEPT !.pc = "insert", !.to = Keep,
                                      !.pay = Keep]
                  ELSE Answered]
  BY OnExisting DEF Write
<1>3. /\ \A q \in Requests : q # r => req'[q] = req[q]
      /\ req'[r] = IF req[r].op \in {"confirm", "retry"}
                   THEN [req[r] EXCEPT !.pc = "find", !.to = Keep, !.pay = Keep]
                   ELSE IF req[r].op = "delete"
                   THEN [req[r] EXCEPT !.pc = "insert", !.to = Keep,
                                       !.pay = Keep]
                   ELSE Answered
  BY <1>2, OnExisting
<1>4. /\ req'[r].pc = IF req[r].op \in {"confirm", "retry"} THEN "find"
                      ELSE IF req[r].op = "delete" THEN "insert" ELSE "done"
      /\ req'[r].pc # "done" => req'[r].op = req[r].op
      /\ req'[r].to = Keep /\ req'[r].pay = Keep
  BY <1>1, <1>3, AnsweredFields DEF CallRecords
<1> QED
  BY <1>1, <1>3, <1>4 DEF Write

(* Looking for a create job that is queued or running                      *)
(* (enqueue_provisioning_for_paid_tenant).                                 *)
LEMMA FindDoes ==
    ASSUME Bookkeeping, NEW r \in Requests, Find(r)
    PROVE  /\ \A q \in Requests : q # r => req'[q] = req[q]
           /\ req[r].pc = "find" /\ req'[r].pc \in {"insert", "enqueue", "done"}
           /\ req'[r].pc # "done" => req'[r].op = req[r].op
           /\ req'[r].to \in {req[r].to, Keep}
           /\ req'[r].pay \in {req[r].pay, Keep}
           /\ req'[r].pc = "insert" => LiveCreateJobs = {}
           /\ req'[r].pc = "enqueue" =>
                  /\ req'[r].job \in LiveCreateJobs
                  /\ jobs[req'[r].job].status = "queued"
                  /\ ~jobs[req'[r].job].rq
           /\ crossed' = (crossed \/ \E q \in Requests : Provisioning(req[q]))
           /\ UNCHANGED <<tenant, sub, site, jobs, created, queue, worker,
                          faults, parked>>
<1> DEFINE j == Oldest(LiveCreateJobs)
<1>1. req[r] \in CallRecords /\ req[r].pc = "find"
  BY OnExisting DEF Find
<1>2. /\ \A q \in Requests : q # r => req'[q] = req[q]
      /\ req'[r] = IF LiveCreateJobs = {} THEN [req[r] EXCEPT !.pc = "insert"]
                   ELSE IF jobs[j].status = "queued" /\ ~jobs[j].rq
                   THEN [req[r] EXCEPT !.pc = "enqueue", !.job = j]
                   ELSE Answered
  BY OnExisting DEF Find
<1>3. LiveCreateJobs # {} => j \in LiveCreateJobs
  <2>1. LiveCreateJobs \in SUBSET Nat
    BY ConstantsAssumption DEF LiveCreateJobs, JobIds
  <2> QED
    BY <2>1, OldestIsMember
<1>4. CASE LiveCreateJobs = {}
  <2>1. req'[r] = [req[r] EXCEPT !.pc = "insert"]
    BY <1>2, <1>4
  <2>2. /\ req'[r].pc = "insert" /\ req'[r].op = req[r].op
        /\ req'[r].to = req[r].to /\ req'[r].pay = req[r].pay
    BY <1>1, <2>1 DEF CallRecords
  <2> QED
    BY <1>1, <1>2, <1>4, <2>2 DEF Find
<1>5. CASE LiveCreateJobs # {} /\ jobs[j].status = "queued" /\ ~jobs[j].rq
  <2>1. req'[r] = [req[r] EXCEPT !.pc = "enqueue", !.job = j]
    BY <1>2, <1>5
  <2>2. /\ req'[r].pc = "enqueue" /\ req'[r].op = req[r].op
        /\ req'[r].to = req[r].to /\ req'[r].pay = req[r].pay
        /\ req'[r].job = j
    BY <1>1, <2>1 DEF CallRecords
  <2> QED
    BY <1>1, <1>2, <1>3, <1>5, <2>2 DEF Find
<1>6. CASE req'[r] = Answered
  BY <1>1, <1>2, <1>6, AnsweredFields DEF Find
<1> QED
  BY <1>2, <1>4, <1>5, <1>6

(* A new job row is queued and not yet stamped                             *)
(* (enqueue_provisioning_for_paid_tenant, enqueue_delete).                 *)
LEMMA InsertDoes ==
    ASSUME Bookkeeping, NEW r \in Requests, Insert(r)
    PROVE  /\ \A q \in Requests : q # r => req'[q] = req[q]
           /\ req[r].pc = "insert" /\ req'[r].pc = "enqueue"
           /\ req'[r].op = req[r].op /\ req'[r].to = req[r].to
           /\ req'[r].pay = req[r].pay /\ req'[r].job = created + 1
           /\ created \in Nat /\ created + 1 \in JobIds
           /\ created + 1 \notin Existing
           /\ jobs'[created + 1].kind = KindOf(req[r].op)
           /\ jobs'[created + 1].status = "queued"
           /\ jobs'[created + 1].rq = FALSE
           /\ \A j \in JobIds : j # created + 1 => jobs'[j] = jobs[j]
           /\ UNCHANGED <<tenant, sub, site, queue, worker, faults, parked,
                          crossed>>
<1>1. req[r] \in CallRecords /\ req[r].pc = "insert"
  BY OnExisting DEF Insert
<1>2. /\ \A q \in Requests : q # r => req'[q] = req[q]
      /\ req'[r] = [req[r] EXCEPT !.pc = "enqueue", !.job = created + 1]
  BY OnExisting DEF Insert
<1>3. /\ req'[r].pc = "enqueue" /\ req'[r].op = req[r].op
      /\ req'[r].to = req[r].to /\ req'[r].pay = req[r].pay
      /\ req'[r].job = created + 1
  BY <1>1, <1>2 DEF CallRecords
<1>4. /\ created \in Nat /\ created + 1 \in JobIds
      /\ created + 1 \notin Existing
  BY ConstantsAssumption DEF Insert, Bookkeeping, StateTypeOK, JobIds, Existing
<1>5. /\ jobs'[created + 1] = [kind |-> KindOf(req[r].op), status |-> "queued",
                               rq |-> FALSE]
      /\ \A j \in JobIds : j # created + 1 => jobs'[j] = jobs[j]
  BY <1>4 DEF Insert, Bookkeeping, StateTypeOK
<1>6. /\ jobs'[created + 1].kind = KindOf(req[r].op)
      /\ jobs'[created + 1].status = "queued"
      /\ jobs'[created + 1].rq = FALSE
  BY <1>5
<1>7. UNCHANGED <<tenant, sub, site, queue, worker, faults, parked, crossed>>
  BY DEF Insert
<1> QED
  BY <1>1, <1>2, <1>3, <1>4, <1>5, <1>6, <1>7

(* The job is sent to the queue before its queue id is stored              *)
(* (queue.enqueue).                                                        *)
LEMMA EnqueueDoes ==
    ASSUME Bookkeeping, NEW r \in Requests, Enqueue(r)
    PROVE  /\ \A q \in Requests : q # r => req'[q] = req[q]
           /\ req[r].pc = "enqueue" /\ req[r].job \in Existing
           /\ req[r].job \in JobIds
           /\ req'[r].pc \in {"stamp", "done"}
           /\ req'[r].pc = "done" <=> req[r].op = "restore"
           /\ req'[r].pc = "stamp" =>
                  req'[r].op = req[r].op /\ req'[r].job = req[r].job
           /\ req'[r].to \in {req[r].to, Keep}
           /\ req'[r].pay \in {req[r].pay, Keep}
           /\ queue' = Append(queue, req[r].job)
           /\ UNCHANGED <<tenant, sub, site, jobs, created, worker, faults,
                          parked, crossed>>
<1>1. /\ req[r] \in CallRecords /\ req[r].pc = "enqueue"
      /\ req[r].job \in Existing /\ req[r].job \in JobIds
  BY OnExisting, ExistingRows DEF Enqueue
<1>2. /\ \A q \in Requests : q # r => req'[q] = req[q]
      /\ req'[r] = IF req[r].op = "restore" THEN Answered
                   ELSE [req[r] EXCEPT !.pc = "stamp"]
  BY OnExisting DEF Enqueue
<1>3. CASE req[r].op = "restore"
  BY <1>1, <1>2, <1>3, AnsweredFields DEF Enqueue
<1>4. CASE req[r].op # "restore"
  <2>1. /\ req'[r].pc = "stamp" /\ req'[r].op = req[r].op
        /\ req'[r].to = req[r].to /\ req'[r].pay = req[r].pay
        /\ req'[r].job = req[r].job
    BY <1>1, <1>2, <1>4 DEF CallRecords
  <2> QED
    BY <1>1, <1>2, <1>4, <2>1 DEF Enqueue
<1> QED
  BY <1>3, <1>4

(* The queue id is stored and the call answered (rq_job_id).               *)
LEMMA StampDoes ==
    ASSUME Bookkeeping, NEW r \in Requests, Stamp(r)
    PROVE  /\ \A q \in Requests : q # r => req'[q] = req[q]
           /\ req[r].pc = "stamp" /\ req[r].job \in Existing
           /\ req'[r] = Answered
           /\ \A j \in Existing :
                  /\ jobs'[j].kind = jobs[j].kind
                  /\ jobs'[j].status = jobs[j].status
                  /\ jobs'[j].rq = IF j = req[r].job THEN TRUE ELSE jobs[j].rq
           /\ \A j \in JobIds \ Existing : jobs'[j] = jobs[j]
           /\ UNCHANGED <<tenant, sub, site, created, queue, worker, faults,
                          parked, crossed>>
<1>1. req[r].pc = "stamp" /\ req[r].job \in Existing
  BY OnExisting DEF Stamp
<1>2. \A q \in Requests : req'[q] = IF q = r THEN Answered ELSE req[q]
  BY OnExisting DEF Stamp
<1>3. jobs' = [jobs EXCEPT ![req[r].job].rq = TRUE]
  BY DEF Stamp
<1>4. \A j \in JobIds \ Existing : jobs'[j] = jobs[j]
  BY <1>1, <1>3 DEF Bookkeeping, StateTypeOK
<1> QED
  BY <1>1, <1>2, <1>3, <1>4, StampSet DEF Stamp

(* A call that dies changes nothing more (the API process).                *)
LEMMA AbortDoes ==
    ASSUME Bookkeeping, NEW r \in Requests, Abort(r)
    PROVE  /\ \A q \in Requests : q # r => req'[q] = req[q]
           /\ req'[r] = Answered /\ r \in InFlight
           /\ UNCHANGED <<tenant, sub, site, jobs, created, queue, worker,
                          parked, crossed>>
           /\ faults' = faults + 1
BY OnExisting DEF Abort

(* A worker takes the message at the head of the queue; the row does not   *)
(* change yet (the RQ worker).                                             *)
LEMMA DequeueDoes ==
    ASSUME Bookkeeping, NEW w \in Workers, Dequeue(w)
    PROVE  /\ worker[w].pc = "idle"
           /\ queue # << >> /\ queue' = Tail(queue)
           /\ Head(queue) \in Existing
           /\ \A v \in Workers : v # w => worker'[v] = worker[v]
           /\ worker'[w].pc = "taken" /\ worker'[w].job = Head(queue)
           /\ ~worker'[w].caught
           /\ UNCHANGED <<tenant, sub, site, jobs, created, req, faults,
                          crossed>>
<1>1. queue # << >> /\ Head(queue) \in Existing
  BY HeadAndTail DEF Dequeue
<1> QED
  BY <1>1, OnExisting DEF Dequeue

(* The task marks the job of its message running (mark_job_running).       *)
LEMMA MarkRunningDoes ==
    ASSUME Bookkeeping, NEW w \in Workers, MarkRunning(w)
    PROVE  /\ worker[w].pc = "taken" /\ worker[w].job \in Existing
           /\ \A j \in Existing :
                  /\ jobs'[j].kind = jobs[j].kind /\ jobs'[j].rq = jobs[j].rq
                  /\ jobs'[j].status = IF j = worker[w].job THEN "running"
                                       ELSE jobs[j].status
           /\ \A j \in JobIds \ Existing : jobs'[j] = jobs[j]
           /\ \A v \in Workers : v # w => worker'[v] = worker[v]
           /\ worker'[w].pc = "begin" /\ worker'[w].job = worker[w].job
           /\ worker'[w].caught = worker[w].caught
           /\ UNCHANGED <<tenant, sub, site, created, queue, req, faults,
                          crossed>>
<1>1. worker[w].pc = "taken" /\ worker[w].job \in Existing
  BY OnExisting DEF MarkRunning
<1>2. jobs' = [jobs EXCEPT ![worker[w].job].status = "running"]
  BY DEF MarkRunning
<1>3. \A j \in JobIds \ Existing : jobs'[j] = jobs[j]
  BY <1>1, <1>2 DEF Bookkeeping, StateTypeOK
<1>4. \A j \in Existing :
          /\ jobs'[j].kind = jobs[j].kind /\ jobs'[j].rq = jobs[j].rq
          /\ jobs'[j].status = IF j = worker[w].job THEN "running"
                               ELSE jobs[j].status
  <2>1. PICK k \in Existing : k = worker[w].job
    BY <1>1
  <2>2. jobs' = [jobs EXCEPT ![k].status = "running"]
    BY <1>2, <2>1
  <2> QED
    BY <2>1, <2>2, StatusSet DEF JobStatuses
<1>5. /\ \A v \in Workers : v # w => worker'[v] = worker[v]
      /\ worker'[w].pc = "begin" /\ worker'[w].job = worker[w].job
      /\ worker'[w].caught = worker[w].caught
  <2>1. worker' = [worker EXCEPT ![w].pc = "begin"]
    BY DEF MarkRunning, Goto
  <2>2. worker'[w] = [worker[w] EXCEPT !.pc = "begin"]
    BY <2>1, OnExisting
  <2> QED
    BY <2>1, <2>2, OnExisting DEF TaskRecords
<1> QED
  BY <1>1, <1>3, <1>4, <1>5 DEF MarkRunning

(* A task that ends writes the outcome to its own row only                 *)
(* (mark_job_success, mark_job_failed).                                    *)
LEMMA OutcomeDoes ==
    ASSUME Bookkeeping, NEW w \in Workers, Success(w) \/ FailJob(w)
    PROVE  /\ worker[w].job \in Existing
           /\ Success(w) => worker[w].pc = "success"
           /\ FailJob(w) => worker[w].pc = "failjob"
           /\ \A j \in Existing :
                  /\ jobs'[j].kind = jobs[j].kind /\ jobs'[j].rq = jobs[j].rq
                  /\ j # worker[w].job => jobs'[j].status = jobs[j].status
           /\ jobs'[worker[w].job].status =
                  IF Success(w) THEN "succeeded" ELSE "failed"
           /\ \A j \in JobIds \ Existing : jobs'[j] = jobs[j]
           /\ UNCHANGED <<tenant, sub, site, created, queue, req, faults,
                          crossed>>
<1>1. worker[w].job \in Existing
  BY OnExisting DEF Success, FailJob
<1>p. /\ Success(w) => worker[w].pc = "success"
      /\ FailJob(w) => worker[w].pc = "failjob"
  BY DEF Success, FailJob
<1>2. UNCHANGED <<tenant, sub, site, created, queue, req, faults, crossed>>
  BY DEF Success, FailJob
<1>3. CASE Success(w)
  <2>1. jobs' = [jobs EXCEPT ![worker[w].job].status = "succeeded"]
    BY <1>3 DEF Success
  <2>2. \A j \in JobIds \ Existing : jobs'[j] = jobs[j]
    BY <1>1, <2>1 DEF Bookkeeping, StateTypeOK
  <2>3. /\ \A j \in Existing :
               /\ jobs'[j].kind = jobs[j].kind /\ jobs'[j].rq = jobs[j].rq
               /\ j # worker[w].job => jobs'[j].status = jobs[j].status
        /\ jobs'[worker[w].job].status = "succeeded"
    <3>1. \A j \in Existing :
              /\ jobs'[j].kind = jobs[j].kind /\ jobs'[j].rq = jobs[j].rq
              /\ jobs'[j].status = IF j = worker[w].job THEN "succeeded"
                                   ELSE jobs[j].status
      <4>1. PICK k \in Existing : k = worker[w].job
        BY <1>1
      <4>2. jobs' = [jobs EXCEPT ![k].status = "succeeded"]
        BY <2>1, <4>1
      <4> QED
        BY <4>1, <4>2, StatusSet DEF JobStatuses
    <3> QED
      BY <1>1, <3>1
  <2> QED
    BY <1>1, <1>2, <1>3, <1>p, <2>2, <2>3
<1>4. CASE FailJob(w)
  <2>1. jobs' = [jobs EXCEPT ![worker[w].job].status = "failed"]
    BY <1>4 DEF FailJob
  <2>2. \A j \in JobIds \ Existing : jobs'[j] = jobs[j]
    BY <1>1, <2>1 DEF Bookkeeping, StateTypeOK
  <2>3. /\ \A j \in Existing :
               /\ jobs'[j].kind = jobs[j].kind /\ jobs'[j].rq = jobs[j].rq
               /\ j # worker[w].job => jobs'[j].status = jobs[j].status
        /\ jobs'[worker[w].job].status = "failed"
    <3>1. \A j \in Existing :
              /\ jobs'[j].kind = jobs[j].kind /\ jobs'[j].rq = jobs[j].rq
              /\ jobs'[j].status = IF j = worker[w].job THEN "failed"
                                   ELSE jobs[j].status
      <4>1. PICK k \in Existing : k = worker[w].job
        BY <1>1
      <4>2. jobs' = [jobs EXCEPT ![k].status = "failed"]
        BY <2>1, <4>1
      <4> QED
        BY <4>1, <4>2, StatusSet DEF JobStatuses
    <3> QED
      BY <1>1, <3>1
  <2> QED
    BY <1>1, <1>2, <1>4, <1>p, <2>2, <2>3
<1> QED
  BY <1>3, <1>4

(* Every other step of a task leaves rows and messages alone.              *)
LEMMA OtherTaskSteps ==
    ASSUME NEW w \in Workers, WorkerStep(w) \/ Timeout(w) \/ Lose(w),
           ~Dequeue(w), ~MarkRunning(w), ~Success(w), ~FailJob(w)
    PROVE  UNCHANGED <<sub, jobs, created, queue, req, crossed>>
BY DEF WorkerStep, Begin, Enter, Work, Finish, Land, After, Handle, Fail,
       Timeout, Lose

(***************************************************************************)
(* Where the steps of a task take it.                                      *)
(***************************************************************************)

(* What moving a task makes of it, and of the others.                      *)
LEMMA GotoDoes ==
    ASSUME Bookkeeping, NEW w \in Workers, NEW pc, Goto(w, pc)
    PROVE  /\ \A v \in Workers : v # w => worker'[v] = worker[v]
           /\ worker'[w].pc = pc /\ worker'[w].job = worker[w].job
           /\ worker'[w].caught = worker[w].caught
<1>1. worker \in [Workers -> TaskRecords]
  BY OnExisting
<1>2. worker' = [worker EXCEPT ![w].pc = pc]
  BY DEF Goto
<1>3. worker'[w] = [worker[w] EXCEPT !.pc = pc]
  BY <1>1, <1>2
<1> QED
  BY <1>1, <1>2, <1>3 DEF TaskRecords

(* An exception that is caught moves its own task to the handler (the      *)
(* except block).                                                          *)
LEMMA CaughtDoes ==
    ASSUME Bookkeeping, NEW w \in Workers, NEW pc,
           worker' = [worker EXCEPT ![w].pc = pc, ![w].caught = TRUE]
    PROVE  /\ \A v \in Workers : v # w => worker'[v] = worker[v]
           /\ worker'[w].pc = pc /\ worker'[w].job = worker[w].job
           /\ worker'[w].caught
<1>1. worker \in [Workers -> TaskRecords]
  BY OnExisting
<1>2. worker'[w] = [worker[w] EXCEPT !.pc = pc, !.caught = TRUE]
  BY <1>1
<1> QED
  BY <1>1, <1>2 DEF TaskRecords

(* An exception that escapes ends its task and no other (the RQ worker).   *)
LEMMA EscapeDoes ==
    ASSUME Bookkeeping, NEW w \in Workers, Escape(w)
    PROVE  /\ \A v \in Workers : v # w => worker'[v] = worker[v]
           /\ worker'[w].pc = "idle"
BY OnExisting DEF Escape, IdleWorker

(* An exception ends the task or goes to its handler (the except blocks of *)
(* the tasks).                                                             *)
LEMMA RaiseDoes ==
    ASSUME Bookkeeping, NEW w \in Workers, Raise(w) \/ RaiseRefused(w)
    PROVE  /\ \A v \in Workers : v # w => worker'[v] = worker[v]
           /\ worker'[w].pc \in {"idle", "handle", "failjob"}
           /\ worker'[w].pc # "idle" => worker'[w].job = worker[w].job
           /\ Raise(w) /\ ~worker[w].caught /\ Kind(w) # "backup" =>
                  worker'[w].pc = "handle"
<1>1. CASE Escape(w) /\ worker[w].caught
  BY <1>1, EscapeDoes
<1>2. CASE /\ ~worker[w].caught
           /\ worker' = [worker EXCEPT ![w].pc = "failjob", ![w].caught = TRUE]
           /\ ~Raise(w)
  BY <1>2, CaughtDoes
<1>3. CASE ~worker[w].caught /\ Raise(w) /\ Kind(w) = "backup"
  <2>1. worker' = [worker EXCEPT ![w].pc = "failjob", ![w].caught = TRUE]
    BY <1>3 DEF Raise
  <2> QED
    BY <1>3, <2>1, CaughtDoes
<1>4. CASE ~worker[w].caught /\ Raise(w) /\ Kind(w) # "backup"
  <2>1. worker' = [worker EXCEPT ![w].pc = "handle", ![w].caught = TRUE]
    BY <1>4 DEF Raise
  <2> QED
    BY <1>4, <2>1, CaughtDoes
<1>5. \/ Escape(w) /\ worker[w].caught
      \/ ~worker[w].caught /\ Raise(w)
      \/ /\ ~worker[w].caught
         /\ worker' = [worker EXCEPT ![w].pc = "failjob", ![w].caught = TRUE]
         /\ ~Raise(w)
  <2>1. CASE worker[w].caught /\ Raise(w)
    BY <2>1 DEF Raise
  <2>2. CASE ~Raise(w)
    BY <2>2 DEF RaiseRefused
  <2> QED
    BY <2>1, <2>2
<1> QED
  BY <1>1, <1>2, <1>3, <1>4, <1>5

(* Where a task comes from, and where it may have been caught.             *)
LEMMA TaskCourse ==
    ASSUME Bookkeeping, NEW w \in Workers,
           WorkerStep(w) \/ Timeout(w) \/ Lose(w)
    PROVE  /\ \A v \in Workers : v # w => worker'[v] = worker[v]
           /\ worker'[w].pc \notin {"idle", "taken"} =>
                  worker[w].pc # "idle" /\ worker'[w].job = worker[w].job
           /\ worker'[w].pc = "taken" =>
                  worker[w].pc = "idle" /\ ~worker'[w].caught
           /\ worker'[w].pc = "begin" =>
                  /\ worker[w].pc = "taken"
                  /\ worker'[w].caught = worker[w].caught
           /\ worker'[w].pc \in {"enter", "work"} =>
                  /\ worker[w].pc \in {"begin", "enter"}
                  /\ worker'[w].caught = worker[w].caught
           /\ worker'[w].pc = "finish" =>
                  /\ worker[w].pc = "work"
                  /\ worker'[w].caught = worker[w].caught \/ Kind(w) = "delete"
<1>1. CASE Dequeue(w)
  BY <1>1, DequeueDoes
<1>m. CASE MarkRunning(w)
  BY <1>m, MarkRunningDoes
<1>2. CASE Begin(w)
  <2>1. worker[w].pc = "begin"
    BY <1>2 DEF Begin
  <2>2. Goto(w, "work") \/ Goto(w, "enter") \/ RaiseRefused(w)
    BY <1>2 DEF Begin
  <2> QED
    BY <2>1, <2>2, GotoDoes, RaiseDoes
<1>3. CASE Enter(w)
  BY <1>3, GotoDoes DEF Enter
<1>4. CASE Work(w)
  <2>1. worker[w].pc = "work"
    BY <1>4 DEF Work
  <2>2. \/ Goto(w, "finish") \/ Goto(w, "success") \/ Raise(w)
        \/ Kind(w) = "delete"
             /\ worker' = [worker EXCEPT ![w].pc = "finish", ![w].caught = TRUE]
    BY <1>4 DEF Work, Provisioned, Dropped, Copied, SiteNotFound, WorkFailed
  <2> QED
    BY <2>1, <2>2, GotoDoes, CaughtDoes, RaiseDoes
<1>5. CASE Finish(w)
  <2>1. worker[w].pc = "finish"
    BY <1>5 DEF Finish
  <2>2. Goto(w, "success") \/ Goto(w, "land") \/ RaiseRefused(w)
    BY <1>5 DEF Finish
  <2> QED
    BY <2>1, <2>2, GotoDoes, RaiseDoes
<1>6. CASE Land(w)
  BY <1>6, GotoDoes DEF Land
<1>7. CASE Success(w)
  BY <1>7, GotoDoes DEF Success
<1>8. CASE Handle(w)
  <2>1. worker[w].pc = "handle"
    BY <1>8 DEF Handle
  <2>2. Goto(w, "failjob") \/ Goto(w, "fail") \/ Escape(w)
    BY <1>8 DEF Handle
  <2> QED
    BY <2>1, <2>2, GotoDoes, EscapeDoes
<1>9. CASE Fail(w)
  BY <1>9, GotoDoes DEF Fail
<1>10. CASE After(w) \/ FailJob(w) \/ Lose(w)
  BY <1>10, EscapeDoes DEF After, FailJob, Lose
<1>11. CASE Timeout(w)
  <2>1. worker[w].pc # "idle" /\ Raise(w)
    BY <1>11 DEF Timeout
  <2> QED
    BY <2>1, RaiseDoes
<1> QED
  BY <1>1, <1>m, <1>2, <1>3, <1>4, <1>5, <1>6, <1>7, <1>8, <1>9, <1>10, <1>11
     DEF WorkerStep

-----------------------------------------------------------------------------
(***************************************************************************)
(* Stamped jobs have messages.                                             *)
(***************************************************************************)

(* A task queues no job and stamps none; only taking a message touches the *)
(* queue (the RQ worker).                                                  *)
LEMMA TaskRows ==
    ASSUME Bookkeeping, NEW w \in Workers,
           WorkerStep(w) \/ Timeout(w) \/ Lose(w)
    PROVE  /\ req' = req /\ crossed' = crossed
           /\ queue' = queue \/ Dequeue(w)
           /\ \A j \in JobIds : jobs'[j].status = "queued" =>
                  jobs[j].status = "queued" /\ jobs'[j].rq = jobs[j].rq
<1>1. CASE Dequeue(w)
  BY <1>1, DequeueDoes
<1>2. CASE MarkRunning(w)
  <2>1. /\ req' = req /\ queue' = queue /\ crossed' = crossed
        /\ \A j \in Existing : jobs'[j].rq = jobs[j].rq
        /\ \A j \in Existing : jobs'[j].status \in {jobs[j].status, "running"}
        /\ \A j \in JobIds \ Existing : jobs'[j] = jobs[j]
    BY <1>2, MarkRunningDoes
  <2> QED
    BY <2>1
<1>3. CASE Success(w) \/ FailJob(w)
  <2>1. /\ req' = req /\ queue' = queue /\ crossed' = crossed
        /\ \A j \in Existing : jobs'[j].rq = jobs[j].rq
        /\ \A j \in Existing :
               jobs'[j].status \in {jobs[j].status, "succeeded", "failed"}
        /\ \A j \in JobIds \ Existing : jobs'[j] = jobs[j]
    BY <1>3, OutcomeDoes
  <2> QED
    BY <2>1
<1>4. CASE ~Dequeue(w) /\ ~MarkRunning(w) /\ ~Success(w) /\ ~FailJob(w)
  BY <1>4, OtherTaskSteps
<1> QED
  BY <1>1, <1>2, <1>3, <1>4

(* The message of a job that stays queued is not lost: it goes from the    *)
(* queue to a worker, and from a worker that fails to RQ's registries.     *)
LEMMA SentStays ==
    ASSUME Bookkeeping, NEW w \in Workers,
           WorkerStep(w) \/ Timeout(w) \/ Lose(w),
           NEW j \in JobIds, jobs'[j].status = "queued", Sent(j)
    PROVE  Sent(j)'
<1>0. j \in Messages \/ (\E v \in Workers : Taken(v, j)) \/ j \in parked
  BY DEF Sent
<1>1. /\ \A v \in Workers : v # w => worker'[v] = worker[v]
      /\ worker'[w].pc \notin {"idle", "taken"} =>
             worker'[w].job = worker[w].job
      /\ worker'[w].pc = "taken" => worker[w].pc = "idle"
  BY TaskCourse
<1>2. Parks(w)
  BY DEF WorkerStep, Timeout, Lose
<1>3. CASE j \in parked
  BY <1>2, <1>3 DEF Parks, Sent
<1>4. CASE \E v \in Workers : Taken(v, j)
  <2>1. PICK v \in Workers : worker[v].pc # "idle" /\ worker[v].job = j
    BY <1>4 DEF Taken
  <2>2. CASE v # w
    BY <1>1, <2>1, <2>2 DEF Sent, Taken
  <2>3. CASE v = w /\ worker'[w].pc = "idle"
    BY <1>2, <2>1, <2>3 DEF Parks, Sent
  <2>4. CASE v = w /\ worker'[w].pc # "idle"
    <3>1. worker'[w].job = j
      BY <1>1, <2>1, <2>4
    <3> QED
      BY <2>4, <3>1 DEF Sent, Taken
  <2> QED
    BY <2>2, <2>3, <2>4
<1>5. CASE j \in Messages
  <2>1. CASE queue' = queue
    BY <1>5, <2>1 DEF Sent, Messages
  <2>2. CASE Dequeue(w)
    <3>1. /\ queue # << >> /\ queue' = Tail(queue)
          /\ worker'[w].pc = "taken" /\ worker'[w].job = Head(queue)
      BY <2>2, DequeueDoes
    <3>2. j \in Messages' \/ j = Head(queue)
      BY <1>5, <3>1, QueueShrinks
    <3> QED
      BY <3>1, <3>2 DEF Sent, Taken
  <2> QED
    BY <2>1, <2>2, TaskRows
<1> QED
  BY <1>0, <1>3, <1>4, <1>5

(* Only what the call itself enqueued is stamped, and no step loses the    *)
(* message of a job that stays queued.                                     *)
LEMMA StampStep ==
    ASSUME StampInv, [Next]_vars
    PROVE  StampInv'
<1>0. Bookkeeping
  BY DEF StampInv
<1>1. Bookkeeping'
  BY <1>0, BookkeepingStep
<1>2. /\ \A j \in JobIds : jobs[j].status = "queued" /\ jobs[j].rq => Sent(j)
      /\ \A r \in Requests :
             req[r].pc = "stamp" /\ jobs[req[r].job].status = "queued" =>
                 Sent(req[r].job)
  BY DEF StampInv, StampedJobsHaveMessages, StampersEnqueued, Messages, Sent,
         Taken
<1>3. SUFFICES
          /\ \A j \in JobIds :
                 jobs'[j].status = "queued" /\ jobs'[j].rq => Sent(j)'
          /\ \A r \in Requests :
                 req'[r].pc = "stamp" /\ jobs'[req'[r].job].status = "queued" =>
                     Sent(req[r].job)'
  BY <1>1 DEF StampInv, StampedJobsHaveMessages, StampersEnqueued, Messages,
              Sent, Taken
(* Nothing happens to rows and messages, and no call comes to stamp.       *)
<1>q. ASSUME UNCHANGED <<jobs, queue, worker, parked>>,
             \A r \in Requests : req'[r].pc = "stamp" => req'[r] = req[r]
      PROVE  /\ \A j \in JobIds :
                    jobs'[j].status = "queued" /\ jobs'[j].rq => Sent(j)'
             /\ \A r \in Requests :
                    req'[r].pc = "stamp"
                        /\ jobs'[req'[r].job].status = "queued" =>
                            Sent(req[r].job)'
  <2>1. \A j : Sent(j) => Sent(j)'
    BY <1>q DEF Sent, Taken, Messages
  <2>2. ASSUME NEW r \in Requests, req'[r].pc = "stamp",
               jobs'[req'[r].job].status = "queued"
        PROVE  Sent(req[r].job)'
    <3>1. Sent(req[r].job) /\ req'[r] = req[r]
      BY <1>2, <1>q, <2>2
    <3> QED
      BY <1>q, <3>1 DEF Sent, Taken, Messages
  <2> QED
    BY <1>2, <1>q, <2>1, <2>2
<1>e. /\ \A j \in Existing : j \in JobIds
      /\ \A j \in JobIds \ Existing : jobs[j].status # "queued"
      /\ \A r \in Requests : req[r].pc = "stamp" => req[r].job \in Existing
  BY <1>0, ExistingRows, OnExisting DEF NoRow
<1>4. CASE UNCHANGED vars
  BY <1>q, <1>4 DEF vars
<1>5. ASSUME NEW r \in Requests, NEW op \in Ops, Call(r, op)
      PROVE  /\ UNCHANGED <<jobs, queue, worker, parked>>
             /\ \A q \in Requests : req'[q].pc = "stamp" => req'[q] = req[q]
  BY <1>0, <1>5, CallDoes
<1>6. ASSUME NEW r \in Requests, Write(r)
      PROVE  /\ UNCHANGED <<jobs, queue, worker, parked>>
             /\ \A q \in Requests : req'[q].pc = "stamp" => req'[q] = req[q]
  BY <1>0, <1>6, WriteDoes
<1>7. ASSUME NEW r \in Requests, Find(r)
      PROVE  /\ UNCHANGED <<jobs, queue, worker, parked>>
             /\ \A q \in Requests : req'[q].pc = "stamp" => req'[q] = req[q]
  BY <1>0, <1>7, FindDoes
<1>8. ASSUME NEW r \in Requests, Abort(r)
      PROVE  /\ UNCHANGED <<jobs, queue, worker, parked>>
             /\ \A q \in Requests : req'[q].pc = "stamp" => req'[q] = req[q]
  BY <1>0, <1>8, AbortDoes, AnsweredFields
<1>9. CASE \E r \in Requests : Insert(r)
  <2>1. PICK r \in Requests : Insert(r)
    BY <1>9
  <2>2. /\ \A q \in Requests : req'[q].pc = "stamp" => req'[q] = req[q]
        /\ jobs'[created + 1].rq = FALSE /\ created + 1 \notin Existing
        /\ \A j \in JobIds : j # created + 1 => jobs'[j] = jobs[j]
        /\ UNCHANGED <<queue, worker, parked>>
    BY <1>0, <2>1, InsertDoes
  <2>3. ASSUME NEW j \in JobIds, jobs'[j].status = "queued", jobs'[j].rq
        PROVE  Sent(j)'
    <3>1. Sent(j)
      BY <1>2, <2>2, <2>3
    <3> QED
      BY <2>2, <3>1 DEF Sent, Taken, Messages
  <2>4. ASSUME NEW q \in Requests, req'[q].pc = "stamp",
               jobs'[req'[q].job].status = "queued"
        PROVE  Sent(req[q].job)'
    <3>1. req'[q] = req[q] /\ Sent(req[q].job)
      BY <1>2, <1>e, <2>2, <2>4
    <3> QED
      BY <2>2, <3>1 DEF Sent, Taken, Messages
  <2> QED
    BY <2>3, <2>4
<1>10. CASE \E r \in Requests : Enqueue(r)
  <2>1. PICK r \in Requests : Enqueue(r)
    BY <1>10
  <2>2. /\ \A q \in Requests : req'[q].pc = "stamp" =>
               req'[q] = req[q] \/ req'[q].job = req[r].job
        /\ UNCHANGED <<jobs, worker, parked>>
    BY <1>0, <2>1, EnqueueDoes
  <2>3. Messages' = Messages \cup {req[r].job}
    <3>1. req[r].job \in JobIds /\ queue' = Append(queue, req[r].job)
      BY <1>0, <2>1, EnqueueDoes
    <3> QED
      BY <1>0, <3>1, QueueGrows
  <2>4. ASSUME NEW j \in JobIds, jobs'[j].status = "queued", jobs'[j].rq
        PROVE  Sent(j)'
    <3>1. Sent(j)
      BY <1>2, <2>2, <2>4
    <3> QED
      BY <2>2, <2>3, <3>1 DEF Sent, Taken
  <2>5. ASSUME NEW q \in Requests, req'[q].pc = "stamp",
               jobs'[req'[q].job].status = "queued"
        PROVE  Sent(req[q].job)'
    <3>1. CASE req'[q].job = req[r].job
      BY <2>3, <3>1 DEF Sent
    <3>2. CASE req'[q] = req[q]
      <4>1. Sent(req[q].job)
        BY <1>2, <2>2, <2>5, <3>2
      <4> QED
        BY <2>2, <2>3, <3>2, <4>1 DEF Sent, Taken
    <3> QED
      BY <2>2, <2>5, <3>1, <3>2
  <2> QED
    BY <2>4, <2>5
<1>11. CASE \E r \in Requests : Stamp(r)
  <2>1. PICK r \in Requests : Stamp(r)
    BY <1>11
  <2>2. /\ \A q \in Requests : req'[q].pc = "stamp" => req'[q] = req[q]
        /\ req[r].pc = "stamp" /\ UNCHANGED <<queue, worker, parked>>
        /\ \A j \in Existing :
               /\ jobs'[j].status = jobs[j].status
               /\ jobs'[j].rq = IF j = req[r].job THEN TRUE ELSE jobs[j].rq
        /\ \A j \in JobIds \ Existing : jobs'[j] = jobs[j]
    BY <1>0, <2>1, StampDoes, AnsweredFields
  <2>3. ASSUME NEW j \in JobIds, jobs'[j].status = "queued", jobs'[j].rq
        PROVE  Sent(j)'
    <3>1. j \in Existing /\ jobs[j].status = "queued"
      BY <1>e, <2>2, <2>3
    <3>2. Sent(j)
      <4>1. CASE j = req[r].job
        <5>1. Sent(req[r].job)
          BY <1>2, <2>2, <3>1, <4>1
        <5> QED
          BY <4>1, <5>1
      <4>2. CASE j # req[r].job
        <5>1. jobs[j].rq
          BY <2>2, <2>3, <3>1, <4>2
        <5> QED
          BY <1>2, <3>1, <5>1
      <4> QED
        BY <4>1, <4>2
    <3> QED
      BY <2>2, <3>2 DEF Sent, Taken, Messages
  <2>4. ASSUME NEW q \in Requests, req'[q].pc = "stamp",
               jobs'[req'[q].job].status = "queued"
        PROVE  Sent(req[q].job)'
    <3>1. req'[q] = req[q] /\ req[q].job \in Existing
      BY <1>e, <2>2, <2>4
    <3>2. Sent(req[q].job)
      BY <1>2, <2>2, <2>4, <3>1
    <3> QED
      BY <2>2, <3>1, <3>2 DEF Sent, Taken, Messages
  <2> QED
    BY <2>3, <2>4
<1>12. CASE \E w \in Workers : WorkerStep(w) \/ Timeout(w) \/ Lose(w)
  <2>1. PICK w \in Workers : WorkerStep(w) \/ Timeout(w) \/ Lose(w)
    BY <1>12
  <2>2. /\ req' = req
        /\ \A j \in JobIds : jobs'[j].status = "queued" =>
               jobs[j].status = "queued" /\ jobs'[j].rq = jobs[j].rq
    BY <1>0, <2>1, TaskRows
  <2>3. ASSUME NEW j \in JobIds, jobs'[j].status = "queued", jobs'[j].rq
        PROVE  Sent(j)'
    BY <1>0, <1>2, <2>1, <2>2, <2>3, SentStays
  <2>4. ASSUME NEW q \in Requests, req'[q].pc = "stamp",
               jobs'[req'[q].job].status = "queued"
        PROVE  Sent(req[q].job)'
    <3>1. PICK j \in JobIds : j = req[q].job
      BY <1>e, <2>2, <2>4
    <3>2. jobs'[j].status = "queued" /\ Sent(j)
      BY <1>2, <2>2, <2>4, <3>1
    <3>3. Sent(j)'
      BY <1>0, <2>1, <3>2, SentStays
    <3> QED
      BY <2>2, <3>1, <3>3 DEF Sent, Taken
  <2> QED
    BY <2>3, <2>4
<1> QED
  BY <1>q, <1>4, <1>5, <1>6, <1>7, <1>8, <1>9, <1>10, <1>11, <1>12
     DEF Next, RequestStep

(* A queued job that carries an RQ id has its message, in the queue, with  *)
(* a worker, or in RQ's registries when that worker failed before marking  *)
(* it running, whatever calls and workers do and whatever fails: the       *)
(* enqueueing comes before the id is stored                                *)
(* (enqueue_provisioning_for_paid_tenant, enqueue_backup, enqueue_delete). *)
THEOREM StampIsTrue == Spec => []StampedJobsHaveMessages
<1>1. Init => StampInv
  <2> SUFFICES ASSUME Init PROVE StampInv
    OBVIOUS
  <2>1. Bookkeeping
    BY BookkeepingInit
  <2>2. \A j \in JobIds : jobs[j].status # "queued"
    BY DEF Init, JustCheckedOut, InService, NoRow, Row
  <2>3. \A r \in Requests : req[r].pc = "idle"
    BY DEF Init, NotCalled
  <2> QED
    BY <2>1, <2>2, <2>3 DEF StampInv, StampedJobsHaveMessages, StampersEnqueued
<1>2. StampInv => StampedJobsHaveMessages
  BY DEF StampInv
<1> QED
  BY <1>1, <1>2, StampStep, PTL DEF Spec

-----------------------------------------------------------------------------
(***************************************************************************)
(* Nothing is built before the first payment.                              *)
(***************************************************************************)

(* A tenant that never paid is not provisioned again (enforce_retry_policy). *)
LEMMA RetryIsPaid == ~PaymentConfirmed("failed", "pending")
<1>1. BillingState("failed", "pending", None, None) = "payment_pending"
  BY DEF BillingState, None, SettlingAttempts, AttemptStates
<1>2. Entitlement("payment_pending", "pending") = "past_due"
  BY DEF Entitlement
<1> QED
  BY <1>1, <1>2 DEF PaymentConfirmed, TenantEntitlement

(* What an event writes to the subscription.                               *)
LEMMA PaysWritten ==
    ASSUME NEW op \in Events, NEW s
    PROVE  /\ Changed(s, AfterEvent(op)) \notin {"pending", "trialing"}
           /\ s = "pending" /\ op = "confirm" =>
                  Changed(s, AfterEvent(op)) = "active"
BY DEF Events, AfterEvent, Changed, Keep

(* The site only appears when a task on a create job works.                *)
LEMMA SiteAppears ==
    ASSUME NEW w \in Workers, WorkerStep(w) \/ Timeout(w) \/ Lose(w),
           site' # site, site'
    PROVE  worker[w].pc # "idle" /\ Kind(w) = "create"
BY DEF WorkerStep, Dequeue, MarkRunning, Begin, Enter, Work, Finish, Land,
       Success, After, Handle, Fail, FailJob, Timeout, Lose, Provisioned,
       Dropped, Copied, SiteNotFound, WorkFailed, PartialEffect

(* A step of one call that leaves the rows alone.                          *)
LEMMA UnpaidCallStep ==
    ASSUME UnpaidInv, Bookkeeping', NEW r \in Requests,
           \A q \in Requests : q # r => req'[q] = req[q],
           UNCHANGED <<site, jobs>>,
           sub' \in {sub, req[r].pay}, sub' # Keep,
           req'[r].pay \notin {"pending", "trialing"},
           sub' = "pending" => AwaitsPayment(req'[r])
    PROVE  UnpaidInv'
<1>1. sub' # "trialing" /\ (sub' = "pending" => sub = "pending")
  BY DEF UnpaidInv
<1>2. NothingBuiltUnpaid'
  BY <1>1 DEF UnpaidInv, NothingBuiltUnpaid
<1>3. ASSUME NEW q \in Requests
      PROVE  /\ req'[q].pay \notin {"pending", "trialing"}
             /\ sub' = "pending" => AwaitsPayment(req'[q])
  BY <1>1 DEF UnpaidInv, Unpaid
<1> QED
  BY <1>1, <1>2, <1>3 DEF UnpaidInv, Unpaid, AwaitsPayment

(* Every step keeps the unpaid state clean: no job, no site, no payment in *)
(* flight (Next).                                                          *)
LEMMA UnpaidStep ==
    ASSUME UnpaidInv, [Next]_vars
    PROVE  UnpaidInv'
<1>0. Bookkeeping /\ Bookkeeping'
  BY BookkeepingStep DEF UnpaidInv
<1>k. sub # Keep /\ req \in [Requests -> CallRecords]
  BY <1>0, OnExisting
     DEF Bookkeeping, StateTypeOK, SubscriptionStatuses, Keep
<1>1. CASE UNCHANGED vars
  BY <1>0, <1>1 DEF UnpaidInv, NothingBuiltUnpaid, Unpaid, AwaitsPayment, vars
<1>2. CASE \E r \in Requests, op \in Ops : Call(r, op)
  <2>1. PICK r \in Requests, op \in Ops : Call(r, op)
    BY <1>2
  <2>2. req'[r].pay \notin {"pending", "trialing"}
    BY <1>0, <2>1, CallDoes, PaysWritten DEF Keep
  <2>3. ASSUME sub = "pending" PROVE AwaitsPayment(req'[r])
    <3>1. op # "retry"
      <4> SUFFICES ASSUME op = "retry" PROVE FALSE
        OBVIOUS
      <4>1. RetryAdmitted
        BY <1>0, <2>1, CallDoes DEF Admitted, Events
      <4> QED
        BY <2>3, <4>1, RetryIsPaid DEF RetryAdmitted
    <3>2. op = "confirm" => req'[r].pc = "write" /\ req'[r].pay = "active"
      BY <1>0, <2>1, <2>3, CallDoes, PaysWritten DEF Events
    <3> QED
      BY <1>0, <2>1, <3>1, <3>2, CallDoes DEF AwaitsPayment
  <2>4. /\ \A q \in Requests : q # r => req'[q] = req[q]
        /\ UNCHANGED <<sub, site, jobs>>
    BY <1>0, <2>1, CallDoes
  <2> QED
    BY <1>0, <1>k, <2>2, <2>3, <2>4, UnpaidCallStep
<1>3. CASE \E r \in Requests : Write(r)
  <2>1. PICK r \in Requests : Write(r)
    BY <1>3
  <2>2. /\ \A q \in Requests : q # r => req'[q] = req[q]
        /\ UNCHANGED <<site, jobs>>
        /\ sub' = Written(sub, req[r].pay) /\ req'[r].pay = Keep
        /\ req[r].pc = "write"
        /\ req'[r].pc = IF req[r].op \in {"confirm", "retry"} THEN "find"
                        ELSE IF req[r].op = "delete" THEN "insert" ELSE "done"
        /\ req'[r].pc # "done" => req'[r].op = req[r].op
    BY <1>0, <2>1, WriteDoes
  <2>3. sub' \in {sub, req[r].pay} /\ sub' # Keep
    BY <1>k, <2>2 DEF Written
  <2>4. ASSUME sub' = "pending" PROVE AwaitsPayment(req'[r])
    <3>1. sub = "pending" /\ req[r].pay # "active"
      <4>1. req[r].pay # "pending"
        BY DEF UnpaidInv
      <4> QED
        BY <2>2, <2>4, <4>1 DEF Written, Keep
    <3>2. req[r].op \notin {"confirm", "retry"}
      BY <2>2, <3>1 DEF UnpaidInv, Unpaid, AwaitsPayment
    <3> QED
      BY <2>2, <3>2 DEF AwaitsPayment
  <2>5. req'[r].pay \notin {"pending", "trialing"}
    BY <2>2 DEF Keep
  <2> QED
    BY <1>0, <2>2, <2>3, <2>4, <2>5, UnpaidCallStep
<1>4. CASE \E r \in Requests : Find(r)
  <2>1. PICK r \in Requests : Find(r)
    BY <1>4
  <2>2. /\ \A q \in Requests : q # r => req'[q] = req[q]
        /\ UNCHANGED <<sub, site, jobs>>
        /\ req[r].pc = "find" /\ req'[r].pc \in {"insert", "enqueue", "done"}
        /\ req'[r].pc # "done" => req'[r].op = req[r].op
        /\ req'[r].pay \in {req[r].pay, Keep}
    BY <1>0, <2>1, FindDoes
  <2>3. sub = "pending" => AwaitsPayment(req'[r])
    BY <2>2 DEF UnpaidInv, Unpaid, AwaitsPayment
  <2>4. req'[r].pay \notin {"pending", "trialing"}
    BY <2>2 DEF UnpaidInv, Keep
  <2> QED
    BY <1>0, <1>k, <2>2, <2>3, <2>4, UnpaidCallStep
<1>5. CASE \E r \in Requests : Enqueue(r)
  <2>1. PICK r \in Requests : Enqueue(r)
    BY <1>5
  <2>2. /\ \A q \in Requests : q # r => req'[q] = req[q]
        /\ UNCHANGED <<sub, site, jobs>>
        /\ req'[r].pc \in {"stamp", "done"}
        /\ req'[r].pay \in {req[r].pay, Keep}
    BY <1>0, <2>1, EnqueueDoes
  <2>3. AwaitsPayment(req'[r])
    BY <2>2 DEF AwaitsPayment
  <2>4. req'[r].pay \notin {"pending", "trialing"}
    BY <2>2 DEF UnpaidInv, Keep
  <2> QED
    BY <1>0, <1>k, <2>2, <2>3, <2>4, UnpaidCallStep
<1>6. CASE \E r \in Requests : Abort(r)
  <2>1. PICK r \in Requests : Abort(r)
    BY <1>6
  <2>2. /\ \A q \in Requests : q # r => req'[q] = req[q]
        /\ UNCHANGED <<sub, site, jobs>> /\ req'[r] = Answered
    BY <1>0, <2>1, AbortDoes
  <2>3. AwaitsPayment(req'[r]) /\ req'[r].pay \notin {"pending", "trialing"}
    BY <2>2, AnsweredFields DEF AwaitsPayment, Keep
  <2> QED
    BY <1>0, <1>k, <2>2, <2>3, UnpaidCallStep
(* The rows change, and the calls on them.                                 *)
<1>7. ASSUME UNCHANGED <<sub>>,
             ~site \/ sub # "pending" => ~site' \/ sub # "pending",
             sub = "pending" =>
                 \A j \in JobIds : jobs'[j].kind \in {jobs[j].kind, "none"}
                                   \/ jobs'[j].kind # "create",
             \A q \in Requests :
                 \/ req'[q] = req[q]
                 \/ req'[q].pc \in {"enqueue", "done"}
                        /\ req'[q].pay \in {req[q].pay, Keep}
      PROVE  UnpaidInv'
  <2>1. sub' # "trialing"
    BY <1>7 DEF UnpaidInv
  <2>2. NothingBuiltUnpaid'
    BY <1>7 DEF UnpaidInv, NothingBuiltUnpaid
  <2>3. ASSUME NEW q \in Requests
        PROVE  /\ req'[q].pay \notin {"pending", "trialing"}
               /\ sub = "pending" => AwaitsPayment(req'[q])
    BY <1>7 DEF UnpaidInv, Unpaid, AwaitsPayment, Keep
  <2> QED
    BY <1>0, <1>7, <2>1, <2>2, <2>3 DEF UnpaidInv, Unpaid, AwaitsPayment
<1>8. CASE \E r \in Requests : Insert(r)
  <2>1. PICK r \in Requests : Insert(r)
    BY <1>8
  <2>2. /\ \A q \in Requests : q # r => req'[q] = req[q]
        /\ req[r].pc = "insert" /\ req'[r].pc = "enqueue"
        /\ req'[r].pay = req[r].pay
        /\ jobs'[created + 1].kind = KindOf(req[r].op)
        /\ \A j \in JobIds : j # created + 1 => jobs'[j] = jobs[j]
        /\ UNCHANGED <<sub, site>>
    BY <1>0, <2>1, InsertDoes
  <2>3. ASSUME sub = "pending" PROVE KindOf(req[r].op) # "create"
    <3>1. req[r].op \notin {"confirm", "retry"}
      BY <2>2, <2>3 DEF UnpaidInv, Unpaid, AwaitsPayment
    <3>2. req[r].op # "create"
      BY <1>k DEF CallRecords, AllOps, Events
    <3> QED
      BY <3>1, <3>2 DEF KindOf
  <2> QED
    BY <1>7, <2>2, <2>3
<1>9. CASE \E r \in Requests : Stamp(r)
  <2>1. PICK r \in Requests : Stamp(r)
    BY <1>9
  <2>2. /\ \A q \in Requests : q # r => req'[q] = req[q]
        /\ req'[r] = Answered /\ UNCHANGED <<sub, site>>
        /\ \A j \in Existing : jobs'[j].kind = jobs[j].kind
        /\ \A j \in JobIds \ Existing : jobs'[j] = jobs[j]
    BY <1>0, <2>1, StampDoes
  <2>3. \A j \in JobIds : jobs'[j].kind = jobs[j].kind
    BY <2>2
  <2> QED
    BY <1>7, <2>2, <2>3, AnsweredFields
<1>10. CASE \E w \in Workers : WorkerStep(w) \/ Timeout(w) \/ Lose(w)
  <2>1. PICK w \in Workers : WorkerStep(w) \/ Timeout(w) \/ Lose(w)
    BY <1>10
  <2>2. /\ sub' = sub /\ req' = req
        /\ \A j \in JobIds : jobs'[j].kind = jobs[j].kind
    <3>1. CASE Dequeue(w)
      BY <1>0, <3>1, DequeueDoes
    <3>m. CASE MarkRunning(w)
      BY <1>0, <3>m, MarkRunningDoes
    <3>2. CASE Success(w) \/ FailJob(w)
      BY <1>0, <3>2, OutcomeDoes
    <3>3. CASE ~Dequeue(w) /\ ~MarkRunning(w) /\ ~Success(w) /\ ~FailJob(w)
      BY <2>1, <3>3, OtherTaskSteps
    <3> QED
      BY <3>1, <3>m, <3>2, <3>3
  <2>3. ASSUME sub = "pending", ~site, site' PROVE FALSE
    <3>1. worker[w].pc # "idle" /\ jobs[worker[w].job].kind = "create"
      BY <2>1, <2>3, SiteAppears DEF Kind
    <3>2. worker[w].job \in JobIds
      BY <1>0, <3>1, OnExisting, ExistingRows
    <3> QED
      BY <2>3, <3>1, <3>2 DEF UnpaidInv, NothingBuiltUnpaid
  <2>4. ~site \/ sub # "pending" => ~site' \/ sub # "pending"
    BY <2>3
  <2> QED
    BY <1>7, <2>2, <2>4
<1> QED
  BY <1>1, <1>2, <1>3, <1>4, <1>5, <1>6, <1>8, <1>9, <1>10 DEF Next, RequestStep

(* Without trials, no site is built, nor a job queued to build it, before  *)
(* the first payment is written, for any number of calls, workers and      *)
(* failures (apply_payment_confirmed_transition, enforce_retry_policy).    *)
THEOREM NoPaymentNoSite ==
    ASSUME ~TrialEnabled
    PROVE  Spec => []NothingBuiltUnpaid
<1>1. Init => UnpaidInv
  <2> SUFFICES ASSUME Init PROVE UnpaidInv
    OBVIOUS
  <2>1. Bookkeeping
    BY BookkeepingInit
  <2>2. NothingBuiltUnpaid /\ sub # "trialing"
    BY DEF Init, JustCheckedOut, InService, NothingBuiltUnpaid, NoRow
  <2>3. \A r \in Requests : req[r].pc = "idle" /\ req[r].pay = Keep
    BY DEF Init, NotCalled
  <2> QED
    BY <2>1, <2>2, <2>3 DEF UnpaidInv, AwaitsPayment, Keep
<1>2. UnpaidInv => NothingBuiltUnpaid
  BY DEF UnpaidInv
<1> QED
  BY <1>1, <1>2, UnpaidStep, PTL DEF Spec

-----------------------------------------------------------------------------
(***************************************************************************)
(* A status under way has its task.                                        *)
(***************************************************************************)

(* From a status under way a task may always reach its final status, and   *)
(* the failed one (ALLOWED_TRANSITIONS).                                   *)
LEMMA UnderWayLeaves ==
    ASSUME NEW k \in {"create", "delete", "restore"}
    PROVE  /\ EnteredStatus[k] \in UnderWay
           /\ FinalStatus[k] \notin UnderWay
           /\ CanTransition(EnteredStatus[k], FinalStatus[k])
           /\ CanTransition(EnteredStatus[k], "failed")
BY DEF EnteredStatus, FinalStatus, UnderWay, CanTransition, AllowedTransitions,
       TenantStatuses, Suspensions

(* The task that wrote a status under way stays with it or ends it, and a  *)
(* task only writes one it then works under.                               *)
LEMMA StatusCourse ==
    ASSUME Bookkeeping, NEW w \in Workers, CaughtLate(w), WorkerStep(w)
    PROVE  /\ \/ tenant' = tenant
              \/ tenant' \notin UnderWay
              \/ /\ worker'[w].pc = "work" /\ Kind(w) # "backup"
                 /\ tenant' = EnteredStatus[Kind(w)]
           /\ Runs(w) /\ tenant' = tenant =>
                  worker'[w].pc \in {"work", "finish", "land", "handle", "fail"}
<1>0. ASSUME worker[w].pc # "idle", Kind(w) # "backup"
      PROVE  Kind(w) \in {"create", "delete", "restore"}
  <2>1. worker[w].job \in Existing
    BY <1>0, OnExisting
  <2> QED
    BY <1>0, <2>1, ExistingRows DEF Kind, JobKinds
<1>1. CASE Enter(w)
  <2>1. worker'[w].pc = "work" /\ tenant' = EnteredStatus[Kind(w)]
    BY <1>1, GotoDoes DEF Enter
  <2>2. Kind(w) # "backup"
    BY <1>1 DEF Enter, Bookkeeping, Placed, Kind
  <2> QED
    BY <2>1, <2>2
<1>2. CASE Work(w)
  <2>1. worker[w].pc = "work" /\ tenant' = tenant /\ ~worker[w].caught
    BY <1>2 DEF Work, CaughtLate
  <2>2. \/ Goto(w, "finish")
        \/ Kind(w) = "backup" /\ Goto(w, "success")
        \/ Raise(w)
        \/ worker' = [worker EXCEPT ![w].pc = "finish", ![w].caught = TRUE]
    BY <1>2 DEF Work, Provisioned, Dropped, Copied, SiteNotFound, WorkFailed
  <2> QED
    BY <2>1, <2>2, GotoDoes, CaughtDoes, RaiseDoes DEF Runs
<1>3. CASE Finish(w)
  <2>1. tenant' = tenant /\ worker[w].pc = "finish"
    BY <1>3 DEF Finish
  <2>2. ASSUME Runs(w) PROVE worker'[w].pc = "land"
    <3>1. /\ tenant # FinalStatus[Kind(w)]
          /\ CanTransition(tenant, FinalStatus[Kind(w)])
      BY <1>0, <2>1, <2>2, UnderWayLeaves DEF Runs
    <3> QED
      BY <1>3, <3>1, GotoDoes DEF Finish
  <2> QED
    BY <2>1, <2>2
<1>4. CASE Land(w)
  <2>1. tenant' = FinalStatus[Kind(w)] /\ worker[w].pc = "land"
    BY <1>4 DEF Land
  <2>2. Kind(w) # "backup"
    BY <2>1 DEF Bookkeeping, Placed, Kind
  <2>3. tenant' \notin UnderWay
    BY <1>0, <2>1, <2>2, UnderWayLeaves
  <2>4. ASSUME Runs(w) PROVE tenant' # tenant
    BY <1>0, <2>3, <2>4, UnderWayLeaves DEF Runs
  <2> QED
    BY <2>3, <2>4
<1>5. CASE Handle(w)
  <2>1. tenant' = tenant /\ worker[w].pc = "handle"
    BY <1>5 DEF Handle
  <2>2. ASSUME Runs(w) PROVE worker'[w].pc = "fail"
    <3>1. tenant \in UnderWay /\ CanTransition(tenant, "failed")
      BY <1>0, <2>1, <2>2, UnderWayLeaves DEF Runs
    <3>2. tenant # "failed"
      BY <3>1 DEF UnderWay
    <3> QED
      BY <1>5, <3>1, <3>2, GotoDoes DEF Handle
  <2> QED
    BY <2>1, <2>2
<1>6. CASE Fail(w)
  <2>1. tenant' = "failed" /\ worker[w].pc = "fail"
    BY <1>6 DEF Fail
  <2>2. ASSUME Runs(w) PROVE tenant \in UnderWay
    BY <1>0, <2>1, <2>2, UnderWayLeaves DEF Runs
  <2> QED
    BY <2>1, <2>2 DEF UnderWay
<1>7. CASE \/ Dequeue(w) \/ MarkRunning(w) \/ Begin(w) \/ Success(w)
           \/ After(w) \/ FailJob(w)
  BY <1>7 DEF Dequeue, MarkRunning, Begin, Success, After, FailJob, Runs
<1> QED
  BY <1>1, <1>2, <1>3, <1>4, <1>5, <1>6, <1>7 DEF WorkerStep

(* Every step leaves a tenant in transition with a call or a job that      *)
(* takes it further (Next).                                                *)
LEMMA RunStep ==
    ASSUME RunInv, [Next]_vars
    PROVE  RunInv'
<1>0. Bookkeeping /\ Bookkeeping'
  BY BookkeepingStep DEF RunInv
<1>1. CASE UNCHANGED vars
  BY <1>0, <1>1 DEF RunInv, CaughtLate, Runs, Kind, vars
<1>2. SUFFICES ASSUME Next PROVE RunInv'
  BY <1>1
<1>3. ASSUME NEW v \in Workers, worker[v].pc # "idle",
             worker'[v].job = worker[v].job
      PROVE  Kind(v)' = Kind(v)
  BY <1>0, <1>2, <1>3, OnExisting, KindsKept DEF Kind
<1>4. faults \in Nat /\ (faults' = faults \/ faults' = faults + 1)
  <2>1. faults' = faults \/ faults' = faults + 1
    <3>1. CASE \E r \in Requests : (\E op \in Ops : Call(r, op)) \/ Abort(r)
      BY <3>1 DEF Call, Abort
    <3>2. CASE \E r \in Requests : RequestStep(r)
      <4>1. PICK r \in Requests : RequestStep(r)
        BY <3>2
      <4> QED  BY <4>1 DEF RequestStep, Write, Find, Insert, Enqueue, Stamp
    <3>3. CASE \E w \in Workers : WorkerStep(w)
      <4>1. PICK w \in Workers : WorkerStep(w)
        BY <3>3
      <4>2. CASE \/ Dequeue(w) \/ MarkRunning(w) \/ Begin(w) \/ Enter(w)
                 \/ Work(w) \/ Finish(w)
        BY <4>2 DEF Dequeue, MarkRunning, Begin, Enter, Work, Finish
      <4>3. CASE \/ Land(w) \/ Success(w) \/ After(w) \/ Handle(w) \/ Fail(w)
                 \/ FailJob(w)
        BY <4>3 DEF Land, Success, After, Handle, Fail, FailJob
      <4> QED  BY <4>1, <4>2, <4>3 DEF WorkerStep
    <3>4. CASE \E w \in Workers : Timeout(w) \/ Lose(w)
      BY <3>4 DEF Timeout, Lose
    <3> QED  BY <1>2, <3>1, <3>2, <3>3, <3>4 DEF Next
  <2> QED
    BY <1>0, <2>1 DEF Bookkeeping, StateTypeOK
<1>5. CASE \E r \in Requests :
               (\E op \in Ops : Call(r, op)) \/ RequestStep(r) \/ Abort(r)
  <2>1. PICK r \in Requests :
            (\E op \in Ops : Call(r, op)) \/ RequestStep(r) \/ Abort(r)
    BY <1>5
  <2>2. worker' = worker
    BY <1>0, <2>1, CallsSpareTheSite
  <2>3. tenant' = tenant \/ tenant' \notin UnderWay
    <3>1. CASE Write(r)
      <4>1. /\ req[r].to \notin WorkerStatuses
            /\ tenant' = Written(tenant, req[r].to)
        BY <1>0, <3>1, WriteDoes DEF Bookkeeping, CallPhase
      <4> QED
        BY <4>1 DEF Written, WorkerStatuses, UnderWay
    <3>2. CASE ~Write(r)
      BY <2>1, <3>2 DEF RequestStep, Call, Find, Insert, Enqueue, Stamp, Abort
    <3> QED
      BY <3>1, <3>2
  <2>4. ASSUME NEW v \in Workers PROVE CaughtLate(v)'
    BY <1>3, <2>2 DEF RunInv, CaughtLate
  <2>5. ASSUME faults' = 0, tenant' \in UnderWay
        PROVE  \E v \in Workers : Runs(v)'
    <3>1. faults = 0 /\ tenant' = tenant
      BY <1>4, <2>3, <2>5
    <3>2. PICK v \in Workers : Runs(v)
      BY <2>5, <3>1 DEF RunInv
    <3>3. Kind(v)' = Kind(v)
      BY <1>3, <2>2, <3>2 DEF Runs
    <3> QED
      BY <2>2, <3>1, <3>2, <3>3 DEF Runs
  <2> QED
    BY <1>0, <2>4, <2>5 DEF RunInv
<1>6. CASE \E w \in Workers : WorkerStep(w) \/ Timeout(w) \/ Lose(w)
  <2>1. PICK w \in Workers : WorkerStep(w) \/ Timeout(w) \/ Lose(w)
    BY <1>6
  <2>2. /\ \A v \in Workers : v # w => worker'[v] = worker[v]
        /\ worker'[w].pc \notin {"idle", "taken"} =>
               worker[w].pc # "idle" /\ worker'[w].job = worker[w].job
        /\ worker'[w].pc = "taken" => ~worker'[w].caught
        /\ worker'[w].pc = "begin" =>
               worker[w].pc = "taken" /\ worker'[w].caught = worker[w].caught
        /\ worker'[w].pc \in {"enter", "work"} =>
               /\ worker[w].pc \in {"begin", "enter"}
               /\ worker'[w].caught = worker[w].caught
        /\ worker'[w].pc = "finish" =>
               /\ worker[w].pc = "work"
               /\ worker'[w].caught = worker[w].caught \/ Kind(w) = "delete"
    BY <1>0, <2>1, TaskCourse
  <2>3. worker'[w].pc \notin {"idle", "taken"} => Kind(w)' = Kind(w)
    BY <1>3, <2>2
  <2>4. ASSUME NEW v \in Workers PROVE CaughtLate(v)'
    <3>1. CASE v # w
      BY <1>3, <2>2, <3>1 DEF RunInv, CaughtLate
    <3>2. CaughtLate(w)'
      BY <2>2, <2>3 DEF RunInv, CaughtLate
    <3> QED
      BY <3>1, <3>2
  <2>5. ASSUME faults' = 0, tenant' \in UnderWay
        PROVE  \E v \in Workers : Runs(v)'
    <3>1. faults = 0 /\ WorkerStep(w) /\ CaughtLate(w)
      BY <1>4, <2>1, <2>5 DEF RunInv, Timeout, Lose
    <3>2. /\ \/ tenant' = tenant
             \/ worker'[w].pc = "work" /\ Kind(w) # "backup"
                  /\ tenant' = EnteredStatus[Kind(w)]
          /\ Runs(w) /\ tenant' = tenant =>
                 worker'[w].pc \in {"work", "finish", "land", "handle", "fail"}
      BY <1>0, <2>5, <3>1, StatusCourse
    <3>3. CASE worker'[w].pc = "work" /\ Kind(w) # "backup"
                 /\ tenant' = EnteredStatus[Kind(w)]
      BY <2>3, <3>3 DEF Runs
    <3>4. CASE tenant' = tenant
      <4>1. PICK v \in Workers : Runs(v)
        BY <2>5, <3>1, <3>4 DEF RunInv
      <4>2. CASE v = w
        <5>1. worker'[w].pc \in {"work", "finish", "land", "handle", "fail"}
          BY <3>2, <3>4, <4>1, <4>2
        <5> QED
          BY <2>3, <3>4, <4>1, <4>2, <5>1 DEF Runs
      <4>3. CASE v # w
        <5>1. worker'[v] = worker[v] /\ Kind(v)' = Kind(v)
          BY <1>3, <2>2, <4>1, <4>3 DEF Runs
        <5> QED
          BY <3>4, <4>1, <5>1 DEF Runs
      <4> QED
        BY <4>2, <4>3
    <3> QED
      BY <3>2, <3>3, <3>4
  <2> QED
    BY <1>0, <2>4, <2>5 DEF RunInv
<1> QED
  BY <1>2, <1>5, <1>6 DEF Next

(* As long as nothing has failed (no killed worker, no timeout, no lost    *)
(* connection), a status that says a job is under way is never left        *)
(* behind: the task that wrote it is still on it and will write the next   *)
(* one, whatever calls write in between and however many workers there     *)
(* are (the except blocks of workers/tasks.py).                            *)
THEOREM StatusHasRunner == Spec => [](faults = 0 => TransitionalHasRunner)
<1>1. Init => RunInv
  <2> SUFFICES ASSUME Init PROVE RunInv
    OBVIOUS
  <2>1. tenant \notin UnderWay
    BY DEF Init, JustCheckedOut, InService, UnderWay
  <2>2. \A w \in Workers : worker[w].pc = "idle"
    BY DEF Init, IdleWorker
  <2> QED
    BY <2>1, <2>2, BookkeepingInit DEF RunInv, CaughtLate
<1>2. RunInv => (faults = 0 => TransitionalHasRunner)
  BY DEF RunInv, Runs, TransitionalHasRunner, UnderWay
<1> QED
  BY <1>1, <1>2, RunStep, PTL DEF Spec

-----------------------------------------------------------------------------
(***************************************************************************)
(* A tenant in service has its site.                                       *)
(***************************************************************************)

(* A confirmed payment gives a tenant that is not suspended no other       *)
(* status than pending (apply_payment_confirmed_transition).               *)
LEMMA ConfirmTargets ==
    ASSUME NEW t \in TenantStatuses \ Suspensions
    PROVE  AfterPaymentConfirmed(t) \in {t, "pending"}
<1>1. OperationalState(t, "active") \in {t, "pending", "activation_blocked"}
  BY DEF OperationalState
<1>2. BillingState(t, "active", "paid", "paid") = "paid"
  BY DEF BillingState
<1>3. Entitlement("paid", "active") = "active"
  BY DEF Entitlement
<1>4. ~CanTransition(t, "activation_blocked")
  BY DEF CanTransition, AllowedTransitions, TenantStatuses, Suspensions
<1>5. TryTransition(t, OperationalState(t, "active")) \in {t, "pending"}
  BY <1>1, <1>4 DEF TryTransition
<1> QED
  BY <1>2, <1>3, <1>5 DEF AfterPaymentConfirmed, Suspensions

(* What a call that suspends nobody will write to the tenant.              *)
LEMMA ServedTargets ==
    ASSUME StateTypeOK, tenant \notin Suspensions,
           NEW op \in AllOps \ Suspenders
    PROVE  Changed(tenant, Target(op)) \notin Suspensions \cup {"active"}
<1>1. Target(op) \in {tenant, "pending", "pending_payment", "pending_deletion"}
  <2>1. CASE op = "confirm"
    <3>1. Target(op) = AfterPaymentConfirmed(tenant)
      BY <2>1 DEF Target, Events, StatusAfter
    <3> QED
      BY <3>1, ConfirmTargets DEF StateTypeOK
  <2>2. CASE op # "confirm"
    BY <2>2 DEF Target, AllOps, Events, Suspenders
  <2> QED
    BY <2>1, <2>2
<1> QED
  BY <1>1 DEF Changed, Keep, Suspensions

(* What a task writes to the tenant status, and where.                     *)
LEMMA TaskWrites ==
    ASSUME Bookkeeping, NEW w \in Workers,
           WorkerStep(w) \/ Timeout(w) \/ Lose(w), tenant' # tenant
    PROVE  \/ /\ worker[w].pc = "enter" /\ worker'[w].pc = "work"
              /\ tenant' = EnteredStatus[Kind(w)]
              /\ Kind(w) \in {"create", "delete", "restore"}
           \/ /\ worker[w].pc = "land" /\ worker'[w].pc = "success"
              /\ tenant' = FinalStatus[Kind(w)]
              /\ Kind(w) \in {"create", "delete", "restore"}
           \/ tenant' = "failed"
<1>0. ASSUME worker[w].pc \in {"enter", "land"}
      PROVE  Kind(w) \in {"create", "delete", "restore"}
  <2>1. worker[w].job \in Existing /\ Kind(w) # "backup"
    BY <1>0 DEF Bookkeeping, Placed, Kind
  <2> QED
    BY <2>1, ExistingRows DEF Kind, JobKinds
<1>1. CASE Enter(w)
  BY <1>0, <1>1, GotoDoes DEF Enter
<1>2. CASE Land(w)
  BY <1>0, <1>2, GotoDoes DEF Land
<1>3. CASE ~Enter(w) /\ ~Land(w)
  BY <1>3 DEF WorkerStep, Dequeue, MarkRunning, Begin, Work, Finish, Success,
              After, Handle, Fail, FailJob, Timeout, Lose
<1> QED
  BY <1>1, <1>2, <1>3

(* The site only goes when a deletion works, under the status it entered.  *)
LEMMA SiteGoes ==
    ASSUME NEW w \in Workers, WorkerStep(w) \/ Timeout(w) \/ Lose(w),
           site, ~site'
    PROVE  worker[w].pc = "work" /\ Kind(w) = "delete"
BY DEF WorkerStep, Dequeue, MarkRunning, Begin, Enter, Work, Finish, Land,
       Success, After, Handle, Fail, FailJob, Timeout, Lose, Provisioned,
       Dropped, Copied, SiteNotFound, WorkFailed, PartialEffect

(* A deletion that is at work has told the tenant row so (delete_tenant).  *)
LEMMA DeletionEnters ==
    ASSUME Bookkeeping, NEW w \in Workers,
           WorkerStep(w) \/ Timeout(w) \/ Lose(w),
           worker'[w].pc = "work", Kind(w) = "delete"
    PROVE  tenant' = "deleting"
<1>1. EnteredStatus["delete"] = "deleting"
  BY DEF EnteredStatus
<1>2. worker[w].pc \in {"begin", "enter"}
  BY TaskCourse
<1>3. Begin(w) \/ Enter(w) \/ Timeout(w) \/ Lose(w)
  BY <1>2 DEF WorkerStep, Dequeue, MarkRunning, Work, Finish, Land, Success,
              After, Handle, Fail, FailJob
<1>4. CASE Enter(w)
  BY <1>1, <1>4 DEF Enter
<1>5. CASE Begin(w)
  <2>1. ~RaiseRefused(w) /\ ~Goto(w, "enter")
    BY RaiseDoes, GotoDoes
  <2> QED
    BY <1>1, <1>5, <2>1 DEF Begin
<1>6. CASE Timeout(w)
  BY <1>6, RaiseDoes DEF Timeout
<1>7. CASE Lose(w)
  BY <1>7, EscapeDoes DEF Lose
<1> QED
  BY <1>3, <1>4, <1>5, <1>6, <1>7

(* Every step keeps the tenant in service with its site, with one worker   *)
(* (Next).                                                                 *)
LEMMA ServedStep ==
    ASSUME SingleWorker, Ops \cap Suspenders = {}, ServedInv, [Next]_vars
    PROVE  ServedInv'
<1>0. Inv /\ Inv' /\ Bookkeeping /\ site \in BOOLEAN /\ StateTypeOK
  BY InvStep DEF ServedInv, Inv, Bookkeeping, StateTypeOK
<1>1. CASE UNCHANGED vars
  BY <1>0, <1>1 DEF ServedInv, ActiveHasSite, Kind, vars
<1>2. SUFFICES ASSUME Next PROVE ServedInv'
  BY <1>1
<1>3. ASSUME NEW v \in Workers, worker[v].pc # "idle",
             worker'[v].job = worker[v].job
      PROVE  Kind(v)' = Kind(v)
  BY <1>0, <1>2, <1>3, OnExisting, KindsKept DEF Kind
<1>4. CASE \E r \in Requests :
               (\E op \in Ops : Call(r, op)) \/ RequestStep(r) \/ Abort(r)
  <2>1. PICK r \in Requests :
            (\E op \in Ops : Call(r, op)) \/ RequestStep(r) \/ Abort(r)
    BY <1>4
  <2>2. worker' = worker /\ site' = site
    BY <1>0, <2>1, CallsSpareTheSite
  <2>3. /\ tenant' = tenant \/ tenant' \notin Suspensions \cup {"active"}
        /\ \A q \in Requests : q # r => req'[q] = req[q]
        /\ req'[r].to \notin Suspensions \cup {"active"}
    <3>k. Keep \notin Suspensions \cup {"active"}
      BY DEF Keep, Suspensions
    <3>1. CASE \E op \in Ops : Call(r, op)
      <4>1. PICK op \in Ops : Call(r, op)
        BY <3>1
      <4>2. op \in AllOps \ Suspenders
        BY ConstantsAssumption
      <4>3. req'[r].to \notin Suspensions \cup {"active"}
        BY <1>0, <4>1, <4>2, CallDoes, ServedTargets DEF ServedInv
      <4> QED
        BY <1>0, <4>1, <4>3, CallDoes
    <3>2. CASE Write(r)
      BY <1>0, <3>2, <3>k, WriteDoes DEF ServedInv, Written
    <3>3. CASE Find(r)
      BY <1>0, <3>3, <3>k, FindDoes DEF ServedInv
    <3>4. CASE Insert(r)
      BY <1>0, <3>4, <3>k, InsertDoes DEF ServedInv
    <3>5. CASE Enqueue(r)
      BY <1>0, <3>5, <3>k, EnqueueDoes DEF ServedInv
    <3>6. CASE Stamp(r)
      <4>1. /\ \A q \in Requests : q # r => req'[q] = req[q]
            /\ req'[r] = Answered /\ tenant' = tenant
        BY <1>0, <3>6, StampDoes
      <4> QED
        BY <3>k, <4>1, AnsweredFields
    <3>7. CASE Abort(r)
      <4>1. /\ \A q \in Requests : q # r => req'[q] = req[q]
            /\ req'[r] = Answered /\ tenant' = tenant
        BY <1>0, <3>7, AbortDoes
      <4> QED
        BY <3>k, <4>1, AnsweredFields
    <3> QED
      BY <2>1, <3>1, <3>2, <3>3, <3>4, <3>5, <3>6, <3>7 DEF RequestStep
  <2>4. ASSUME NEW v \in Workers, worker'[v].pc = "work", Kind(v)' = "delete"
        PROVE  tenant' # "active"
    <3>1. Kind(v) = "delete"
      BY <1>3, <2>2, <2>4
    <3> QED
      BY <2>2, <2>3, <2>4, <3>1 DEF ServedInv
  <2>5. ActiveHasSite'
    BY <2>2, <2>3 DEF ServedInv, ActiveHasSite
  <2>6. \A q \in Requests : req'[q].to \notin Suspensions \cup {"active"}
    BY <2>3 DEF ServedInv
  <2>7. tenant' \notin Suspensions
    BY <2>3 DEF ServedInv
  <2> QED
    BY <1>0, <2>4, <2>5, <2>6, <2>7 DEF ServedInv
<1>5. CASE \E w \in Workers : WorkerStep(w) \/ Timeout(w) \/ Lose(w)
  <2>1. PICK w \in Workers : WorkerStep(w) \/ Timeout(w) \/ Lose(w)
    BY <1>5
  <2>2. req' = req
    BY <1>0, <2>1, TaskRows
  <2>3. \/ tenant' = tenant
        \/ worker'[w].pc = "work" /\ tenant' \in {"provisioning", "deleting",
                                                  "restoring"}
        \/ /\ worker[w].pc = "land" /\ worker'[w].pc = "success"
           /\ tenant' = FinalStatus[Kind(w)]
           /\ Kind(w) \in {"create", "delete", "restore"}
        \/ tenant' = "failed"
    BY <1>0, <2>1, TaskWrites DEF EnteredStatus
  <2>4. tenant' \notin Suspensions
    BY <2>3 DEF ServedInv, FinalStatus, Suspensions
  <2>5. ActiveHasSite'
    <3> SUFFICES ASSUME tenant' = "active" PROVE site'
      BY DEF ActiveHasSite
    <3>1. CASE tenant = "active"
      <4>1. site /\ ~(worker[w].pc = "work" /\ Kind(w) = "delete")
        BY <3>1 DEF ServedInv, ActiveHasSite
      <4>2. site' \in BOOLEAN
        BY <1>0 DEF Inv, Bookkeeping, StateTypeOK
      <4> QED
        BY <2>1, <4>1, <4>2, SiteGoes
    <3>2. CASE tenant # "active"
      <4>1. worker'[w].pc = "success" /\ Kind(w) # "delete"
        BY <2>3, <3>2 DEF FinalStatus
      <4> QED
        BY <1>0, <2>1, <4>1, TaskEffects
    <3> QED
      BY <3>1, <3>2
  <2>6. ASSUME NEW v \in Workers, worker'[v].pc = "work", Kind(v)' = "delete"
        PROVE  tenant' # "active"
    <3>1. v = w
      BY DEF SingleWorker
    <3>2. Kind(w) = "delete"
      BY <1>0, <1>3, <2>1, <2>6, <3>1, TaskCourse
    <3> QED
      BY <1>0, <2>1, <2>6, <3>1, <3>2, DeletionEnters
  <2> QED
    BY <1>0, <2>2, <2>4, <2>5, <2>6 DEF ServedInv
<1> QED
  BY <1>2, <1>4, <1>5 DEF Next

(* With one worker process, and as long as nobody suspends the tenant, a   *)
(* tenant the API reports as active has its site, whatever fails: only a   *)
(* task that built or restored the site makes a tenant active, and a       *)
(* deletion has taken it out of service before the site is dropped         *)
(* (provision_tenant, restore_tenant and delete_tenant).                   *)
THEOREM ServedHasSite ==
    ASSUME SingleWorker, Ops \cap Suspenders = {}
    PROVE  Spec => []ActiveHasSite
<1>1. Init => ServedInv
  <2> SUFFICES ASSUME Init PROVE ServedInv
    OBVIOUS
  <2>1. ActiveHasSite /\ tenant \notin Suspensions
    BY DEF Init, JustCheckedOut, InService, ActiveHasSite, Suspensions
  <2>2. \A r \in Requests : req[r].to = Keep
    BY DEF Init, NotCalled
  <2>3. \A w \in Workers : worker[w].pc = "idle"
    BY DEF Init, IdleWorker
  <2> QED
    BY <2>1, <2>2, <2>3, InvInit DEF ServedInv, Keep, Suspensions
<1>2. ServedInv => ActiveHasSite
  BY DEF ServedInv
<1>3. ServedInv /\ [Next]_vars => ServedInv'
  BY ServedStep
<1> QED
  BY <1>1, <1>2, <1>3, PTL DEF Spec

-----------------------------------------------------------------------------
(***************************************************************************)
(* One provisioning at a time.                                             *)
(***************************************************************************)

(* A create job is a row that exists.                                      *)
LEMMA CreateExists ==
    ASSUME Bookkeeping, NEW j \in JobIds, CreateJob(j)
    PROVE  j \in Existing
BY ExistingRows DEF CreateJob, NoRow

(* Without a live create job there is none to run                          *)
(* (enqueue_provisioning_for_paid_tenant).                                 *)
LEMMA LiveIfToRun ==
    ASSUME LiveCreateJobs = {}, NEW j \in JobIds
    PROVE  ~ToRun(j)
BY DEF LiveCreateJobs, ToRun, CreateJob

(* What a call in flight keeps until it is answered.                       *)
LEMMA CallKeepsOp ==
    ASSUME Bookkeeping, NEW r \in Requests, RequestStep(r) \/ Abort(r)
    PROVE  /\ \A q \in Requests : q # r => req'[q] = req[q]
           /\ r \in InFlight
           /\ req'[r].pc = "done" \/ req'[r].op = req[r].op
<1>1. CASE Write(r)
  BY <1>1, WriteDoes DEF InFlight
<1>2. CASE Find(r)
  BY <1>2, FindDoes DEF InFlight
<1>3. CASE Insert(r)
  BY <1>3, InsertDoes DEF InFlight
<1>4. CASE Enqueue(r)
  BY <1>4, EnqueueDoes DEF InFlight
<1>5. CASE Stamp(r)
  <2>1. /\ \A q \in Requests : q # r => req'[q] = req[q]
        /\ req'[r] = Answered /\ req[r].pc = "stamp"
    BY <1>5, StampDoes
  <2> QED
    BY <2>1, AnsweredFields DEF InFlight
<1>6. CASE Abort(r)
  <2>1. /\ \A q \in Requests : q # r => req'[q] = req[q]
        /\ req'[r] = Answered /\ r \in InFlight
    BY <1>6, AbortDoes
  <2> QED
    BY <2>1, AnsweredFields
<1> QED
  BY <1>1, <1>2, <1>3, <1>4, <1>5, <1>6 DEF RequestStep

(* A task leaves the calls alone.                                          *)
LEMMA TasksSpareCalls ==
    ASSUME Bookkeeping, NEW w \in Workers,
           WorkerStep(w) \/ Timeout(w) \/ Lose(w)
    PROVE  req' = req /\ crossed' = crossed
BY TaskRows

(* The look for a create job is the way into a provisioning.               *)
LEMMA ProvisioningEntered ==
    ASSUME Bookkeeping, NEW r \in Requests,
           (\E op \in Ops : Call(r, op)) \/ RequestStep(r) \/ Abort(r), ~Find(r)
    PROVE  /\ \A q \in Requests : q # r => req'[q] = req[q]
           /\ Provisioning(req'[r]) => Provisioning(req[r])
           /\ crossed' = crossed
<1>1. CASE \E op \in Ops : Call(r, op)
  <2>1. PICK op \in Ops : Call(r, op)
    BY <1>1
  <2> QED
    BY <2>1, CallDoes DEF Provisioning
<1>2. CASE Write(r)
  BY <1>2, WriteDoes DEF Provisioning
<1>3. CASE Insert(r)
  BY <1>3, InsertDoes DEF Provisioning
<1>4. CASE Enqueue(r)
  BY <1>4, EnqueueDoes DEF Provisioning
<1>5. CASE Stamp(r)
  <2>1. /\ \A q \in Requests : q # r => req'[q] = req[q]
        /\ req'[r] = Answered /\ crossed' = crossed
    BY <1>5, StampDoes
  <2> QED
    BY <2>1, AnsweredFields DEF Provisioning
<1>6. CASE Abort(r)
  <2>1. /\ \A q \in Requests : q # r => req'[q] = req[q]
        /\ req'[r] = Answered /\ crossed' = crossed
    BY <1>6, AbortDoes
  <2> QED
    BY <2>1, AnsweredFields DEF Provisioning
<1> QED
  BY <1>1, <1>2, <1>3, <1>4, <1>5, <1>6 DEF RequestStep

(* A look that crosses no other call leaves its call alone to provision;   *)
(* one that does is remembered (enqueue_provisioning_for_paid_tenant).     *)
LEMMA AloneStep ==
    ASSUME Bookkeeping, AloneToProvision, Next
    PROVE  AloneToProvision' /\ (~crossed' => ~crossed)
<1>1. CASE \E r \in Requests : Find(r)
  <2>1. PICK r \in Requests : Find(r)
    BY <1>1
  <2>2. /\ \A q \in Requests : q # r => req'[q] = req[q]
        /\ crossed' = (crossed \/ \E q \in Requests : Provisioning(req[q]))
    BY <2>1, FindDoes
  <2>3. ~crossed' => \A q \in Requests : ~Provisioning(req[q])
    BY <2>2
  <2>4. ~crossed' => \A q \in Requests : Provisioning(req'[q]) => q = r
    BY <2>2, <2>3
  <2> QED
    BY <2>2, <2>4 DEF AloneToProvision, Provisioning
<1>2. CASE \E r \in Requests :
               /\ (\E op \in Ops : Call(r, op)) \/ RequestStep(r) \/ Abort(r)
               /\ ~Find(r)
  <2>1. PICK r \in Requests :
            /\ (\E op \in Ops : Call(r, op)) \/ RequestStep(r) \/ Abort(r)
            /\ ~Find(r)
    BY <1>2
  <2>2. /\ \A q \in Requests : Provisioning(req'[q]) => Provisioning(req[q])
        /\ crossed' = crossed
    BY <2>1, ProvisioningEntered
  <2> QED
    BY <2>2 DEF AloneToProvision, Provisioning
<1>3. CASE \E w \in Workers : WorkerStep(w) \/ Timeout(w) \/ Lose(w)
  <2>1. req' = req /\ crossed' = crossed
    BY <1>3, TasksSpareCalls
  <2> QED
    BY <2>1 DEF AloneToProvision, Provisioning
<1> QED
  BY <1>1, <1>2, <1>3 DEF Next, RequestStep

(* The call on a create job is one that provisions.                        *)
LEMMA BrandedStep ==
    ASSUME Bookkeeping, \A r \in Requests : Branded(req[r]), Next
    PROVE  (\A r \in Requests : Branded(req[r]))'
<1> SUFFICES ASSUME NEW q \in Requests PROVE Branded(req[q])'
  OBVIOUS
<1>0. \A k \in Existing : CreateJob(k)' <=> CreateJob(k)
  BY KindsKept DEF CreateJob
<1>1. CASE req'[q] = req[q]
  <2>1. req[q].pc \in {"enqueue", "stamp"} => req[q].job \in Existing
    BY OnExisting
  <2> QED
    BY <1>0, <1>1, <2>1 DEF Branded, CreateJob
<1>2. CASE \E r \in Requests, op \in Ops : Call(r, op)
  <2>1. PICK r \in Requests, op \in Ops : Call(r, op)
    BY <1>2
  <2>2. CASE q = r
    BY <2>1, <2>2, CallDoes DEF Branded
  <2> QED
    BY <1>1, <2>1, <2>2, CallDoes
<1>3. CASE \E r \in Requests : RequestStep(r) \/ Abort(r)
  <2>1. PICK r \in Requests : RequestStep(r) \/ Abort(r)
    BY <1>3
  <2> SUFFICES ASSUME q = r PROVE Branded(req[r])'
    BY <1>1, <2>1, CallKeepsOp
  <2>2. CASE Write(r)
    <3>1. req'[r].pc \notin {"enqueue", "stamp"}
      BY <2>2, WriteDoes
    <3>2. req'[r].pc = "find" => req'[r].op \in {"confirm", "retry"}
      BY <2>2, WriteDoes
    <3> QED
      BY <3>1, <3>2 DEF Branded, Provisioners
  <2>3. CASE Find(r)
    <3>1. /\ req'[r].pc # "find" /\ req'[r].pc # "stamp"
          /\ req[r].op \in Provisioners
      BY <2>3, FindDoes DEF Branded
    <3>2. req'[r].pc = "enqueue" =>
              /\ CreateJob(req'[r].job) /\ req'[r].op = req[r].op
              /\ req'[r].job \in JobIds
      BY <2>3, FindDoes DEF LiveCreateJobs, CreateJob
    <3>3. req'[r].pc = "enqueue" => CreateJob(req[r].job)'
      <4> SUFFICES ASSUME req'[r].pc = "enqueue"
                   PROVE  jobs'[req'[r].job].kind = "create"
        BY DEF CreateJob
      <4>1. PICK j \in JobIds : j = req'[r].job
        BY <3>2
      <4>2. j \in Existing /\ CreateJob(j)
        BY <3>2, <4>1, CreateExists
      <4> QED
        BY <1>0, <4>1, <4>2 DEF CreateJob
    <3> QED
      BY <3>1, <3>2, <3>3 DEF Branded, CreateJob
  <2>4. CASE Insert(r)
    <3>1. /\ req'[r].pc = "enqueue" /\ req'[r].job = created + 1
          /\ req'[r].op = req[r].op
          /\ jobs'[created + 1].kind = KindOf(req[r].op)
      BY <2>4, InsertDoes
    <3>2. req[r].op # "create"
      BY OnExisting DEF CallRecords, AllOps, Events
    <3> QED
      BY <3>1, <3>2 DEF Branded, CreateJob, KindOf, Provisioners
  <2>5. CASE Enqueue(r)
    <3>1. /\ req[r].pc = "enqueue" /\ req[r].job \in Existing
          /\ req'[r].pc \in {"stamp", "done"}
          /\ req'[r].pc = "stamp" =>
                 req'[r].op = req[r].op /\ req'[r].job = req[r].job
      BY <2>5, EnqueueDoes
    <3> QED
      BY <1>0, <3>1 DEF Branded, CreateJob
  <2>6. CASE Stamp(r) \/ Abort(r)
    <3>1. req'[r] = Answered
      BY <2>6, StampDoes, AbortDoes
    <3> QED
      BY <3>1, AnsweredFields DEF Branded
  <2> QED
    BY <2>1, <2>2, <2>3, <2>4, <2>5, <2>6 DEF RequestStep
<1>4. CASE \E w \in Workers : WorkerStep(w) \/ Timeout(w) \/ Lose(w)
  BY <1>1, <1>4, TasksSpareCalls
<1> QED
  BY <1>2, <1>3, <1>4 DEF Next

(* Two calls that provision are one, as long as no look crossed another.   *)
LEMMA OneProvisioner ==
    ASSUME AloneToProvision, ~crossed,
           NEW q \in Requests, NEW r \in Requests,
           req[q].op \in Provisioners, req[r].op \in Provisioners,
           req[q].pc \in {"insert", "enqueue", "stamp"},
           req[r].pc \in {"insert", "enqueue", "stamp"}
    PROVE  q = r
BY DEF AloneToProvision, Provisioning, Provisioners

(* Steps that leave rows and messages alone.                               *)
LEMMA SteadyQuietCall ==
    ASSUME Steady, NEW r \in Requests,
           \A q \in Requests : q # r => req'[q] = req[q],
           UNCHANGED <<jobs, queue, worker>>,
           req[r].pc \notin {"enqueue", "stamp"},
           Ready(req'[r])
    PROVE  Steady'
<1>1. OneToRun' /\ OneMessage' /\ OneTask'
  BY DEF Steady, OneToRun, ToRun, OneMessage, OneTask, OnCreate, CreateJob,
         Messages
<1>2. Messages' = Messages /\ LiveCreateJobs' = LiveCreateJobs
  BY DEF Messages, LiveCreateJobs
<1>3. ASSUME NEW q \in Requests PROVE Ready(req[q])'
  <2>1. Ready(req'[q])
    BY DEF Steady
  <2> QED
    BY <1>2, <2>1 DEF Ready, Taken
<1>4. UnstampedHeld'
  BY DEF Steady, UnstampedHeld, Holds, CreateJob
<1> QED
  BY <1>1, <1>3, <1>4 DEF Steady

(* A call up to its look for a live job leaves the jobs steady             *)
(* (enqueue_provisioning_for_paid_tenant).                                 *)
LEMMA SteadyCalls ==
    ASSUME CreateInv, Steady, ~crossed', NEW r \in Requests,
           (\E op \in Ops : Call(r, op)) \/ Write(r) \/ Find(r)
    PROVE  Steady'
<1>0. Bookkeeping
  BY DEF CreateInv
<1>1. CASE \E op \in Ops : Call(r, op)
  <2>1. PICK op \in Ops : Call(r, op)
    BY <1>1
  <2>2. /\ \A q \in Requests : q # r => req'[q] = req[q]
        /\ UNCHANGED <<jobs, queue, worker>>
        /\ req'[r].op = op
        /\ req'[r].pc = IF op \in {"backup", "restore"}
                        THEN "insert" ELSE "write"
    BY <1>0, <2>1, CallDoes
  <2>3. req[r].pc = "idle"
    BY <2>1 DEF Call
  <2>4. Ready(req'[r])
    BY <2>2 DEF Ready, Provisioners
  <2> QED
    BY <2>2, <2>3, <2>4, SteadyQuietCall
<1>2. CASE Write(r)
  <2>1. /\ \A q \in Requests : q # r => req'[q] = req[q]
        /\ UNCHANGED <<jobs, queue, worker>>
        /\ req[r].pc = "write"
        /\ req'[r].pc = IF req[r].op \in {"confirm", "retry"} THEN "find"
                        ELSE IF req[r].op = "delete" THEN "insert" ELSE "done"
        /\ req'[r].pc # "done" => req'[r].op = req[r].op
    BY <1>0, <1>2, WriteDoes
  <2>2. Ready(req'[r])
    BY <2>1 DEF Ready, Provisioners
  <2> QED
    BY <2>1, <2>2, SteadyQuietCall
<1>3. CASE Find(r)
  <2>1. /\ \A q \in Requests : q # r => req'[q] = req[q]
        /\ UNCHANGED <<jobs, queue, worker>>
        /\ req[r].pc = "find" /\ req'[r].pc \in {"insert", "enqueue", "done"}
        /\ req'[r].pc = "insert" => LiveCreateJobs = {}
        /\ req'[r].pc = "enqueue" =>
               /\ req'[r].job \in LiveCreateJobs
               /\ jobs[req'[r].job].status = "queued"
               /\ ~jobs[req'[r].job].rq
        /\ crossed' = (crossed \/ \E q \in Requests : Provisioning(req[q]))
    BY <1>0, <1>3, FindDoes
  <2>2. req'[r].pc # "enqueue"
    <3> SUFFICES ASSUME req'[r].pc = "enqueue" PROVE FALSE
      OBVIOUS
    <3>1. PICK h \in Requests : Holds(req[h], req'[r].job)
      BY <2>1 DEF Steady, UnstampedHeld, LiveCreateJobs, CreateJob
    <3>2. Provisioning(req[h])
      BY <3>1 DEF Holds, Provisioning, Provisioners
    <3> QED
      BY <2>1, <3>2
  <2>3. Ready(req'[r])
    BY <2>1, <2>2 DEF Ready
  <2> QED
    BY <2>1, <2>3, SteadyQuietCall
<1> QED
  BY <1>1, <1>2, <1>3

(* A job is only inserted for a provisioning when there is none to run.    *)
LEMMA SteadyInsert ==
    ASSUME CreateInv, Steady, ~crossed, NEW r \in Requests,
           Insert(r)
    PROVE  Steady'
<1>0. Bookkeeping
  BY DEF CreateInv
<1>1. PICK new \in JobIds :
          /\ \A q \in Requests : q # r => req'[q] = req[q]
          /\ req[r].pc = "insert" /\ req'[r].pc = "enqueue"
          /\ req'[r].op = req[r].op /\ req'[r].job = new
          /\ new \notin Existing
          /\ jobs'[new].kind = KindOf(req[r].op)
          /\ jobs'[new].status = "queued" /\ jobs'[new].rq = FALSE
          /\ \A j \in JobIds : j # new => jobs'[j] = jobs[j]
          /\ queue' = queue /\ worker' = worker
  BY <1>0, InsertDoes
<1>2. jobs'[new].kind = "create" <=> req[r].op \in Provisioners
  <2>1. req[r].op # "create"
    BY <1>0, OnExisting DEF CallRecords, AllOps, Events
  <2> QED
    BY <1>1, <2>1 DEF KindOf, Provisioners
<1>3. jobs'[new].kind = "create" => \A j \in JobIds : ~ToRun(j)
  BY <1>1, <1>2, LiveIfToRun DEF Steady, Ready
<1>4. \A j \in Existing : j \in JobIds /\ j # new /\ jobs'[j] = jobs[j]
  BY <1>0, <1>1, ExistingRows
<1>5. OneToRun'
  <2>1. \A j \in JobIds : j # new => (ToRun(j)' <=> ToRun(j))
    BY <1>1 DEF ToRun, CreateJob
  <2>2. ToRun(new)' => jobs'[new].kind = "create"
    BY DEF ToRun, CreateJob
  <2> QED
    BY <1>3, <2>1, <2>2 DEF Steady, OneToRun
<1>6. \A i \in 1 .. Len(queue) : queue[i] \in Existing
  BY <1>0 DEF Bookkeeping, QueueRefers
<1>7. OneMessage'
  BY <1>1, <1>4, <1>6 DEF Steady, OneMessage, CreateJob
<1>8. Messages' = Messages /\ new \notin Messages
  BY <1>1, <1>6 DEF Messages
<1>w. \A w \in Workers : worker[w].pc # "idle" => worker[w].job \in Existing
  BY <1>0, OnExisting
<1>9. ASSUME NEW q \in Requests PROVE Ready(req[q])'
  <2>1. CASE q = r
    <3>1. \A w \in Workers : ~Taken(w, new)'
      BY <1>1, <1>w DEF Taken
    <3> QED
      BY <1>1, <1>8, <2>1, <3>1 DEF Ready, Taken
  <2>2. CASE q # r /\ req[q].op \in Provisioners /\ req[q].pc = "insert"
    <3>2. req[r].op \notin Provisioners
      BY <1>1, <2>2, OneProvisioner DEF CreateInv
    <3>3. LiveCreateJobs = {}
      BY <2>2 DEF Steady, Ready
    <3>4. LiveCreateJobs' = {}
      BY <1>1, <1>2, <3>2, <3>3 DEF LiveCreateJobs
    <3> QED
      BY <1>1, <2>2, <3>4 DEF Ready
  <2>3. CASE q # r /\ req[q].op \in Provisioners /\ req[q].pc = "enqueue"
    <3>1. req[q].job \in Existing
      BY <1>0, <2>3, OnExisting
    <3> QED
      BY <1>1, <1>4, <1>8, <2>3, <3>1 DEF Steady, Ready, Taken
  <2> QED
    BY <1>1, <2>1, <2>2, <2>3 DEF Ready
<1>10. UnstampedHeld'
  <2> SUFFICES ASSUME NEW j \in JobIds, CreateJob(j)',
                      jobs'[j].status = "queued", ~jobs'[j].rq
               PROVE  \E q \in Requests : Holds(req'[q], j)
    BY DEF UnstampedHeld, Holds
  <2>1. CASE j = new
    BY <1>1, <1>2, <2>1 DEF Holds, CreateJob
  <2>2. CASE j # new
    <3>1. PICK h \in Requests : Holds(req[h], j)
      BY <1>1, <2>2 DEF Steady, UnstampedHeld, CreateJob
    <3>2. h # r
      BY <1>1, <3>1 DEF Holds
    <3> QED
      BY <1>1, <3>1, <3>2
  <2> QED
    BY <2>1, <2>2
<1>11. OneTask'
  <2>2. \A w \in Workers : worker[w].pc # "idle" =>
            jobs'[worker[w].job] = jobs[worker[w].job]
    BY <1>4, <1>w
  <2> QED
    BY <1>1, <1>8, <2>2 DEF Steady, OneTask, OnCreate, CreateJob
<1> QED
  BY <1>5, <1>7, <1>9, <1>10, <1>11 DEF Steady

(* A provisioning enqueues its job only while no create job has a message. *)
LEMMA SteadyEnqueue ==
    ASSUME CreateInv, Steady, ~crossed, NEW r \in Requests,
           Enqueue(r)
    PROVE  Steady'
<1>0. Bookkeeping
  BY DEF CreateInv
<1>1. PICK j \in JobIds :
          /\ j = req[r].job /\ j \in Existing
          /\ \A q \in Requests : q # r => req'[q] = req[q]
          /\ req[r].pc = "enqueue" /\ req'[r].pc \in {"stamp", "done"}
          /\ req'[r].pc = "done" <=> req[r].op = "restore"
          /\ req'[r].pc = "stamp" => req'[r].op = req[r].op /\ req'[r].job = j
          /\ queue' = Append(queue, j)
          /\ jobs' = jobs /\ worker' = worker
  BY <1>0, EnqueueDoes
<1>2. /\ Len(queue) \in Nat /\ Len(queue') = Len(queue) + 1
      /\ \A i \in 1 .. Len(queue) : queue'[i] = queue[i]
      /\ queue'[Len(queue) + 1] = j
      /\ Messages' = Messages \cup {j}
  BY <1>0, <1>1, QueueGrows
<1>3. CreateJob(j) <=> req[r].op \in Provisioners
  BY <1>1 DEF CreateInv, Branded
<1>t. CreateJob(j) => \A w \in Workers : ~Taken(w, j)
  BY <1>1, <1>3 DEF Steady, Ready
<1>4. ASSUME CreateJob(j)
      PROVE  /\ jobs[j].status = "queued"
             /\ \A i \in 1 .. Len(queue) : ~CreateJob(queue[i])
  <2>1. jobs[j].status = "queued" /\ j \notin Messages
    BY <1>1, <1>3, <1>4 DEF Steady, Ready
  <2>2. ASSUME NEW i \in 1 .. Len(queue), CreateJob(queue[i]) PROVE FALSE
    <3>1. queue[i] \in JobIds /\ jobs[queue[i]].status = "queued"
      BY <1>0, <2>2, ExistingRows
         DEF Steady, OneMessage, Bookkeeping, QueueRefers
    <3>2. queue[i] = j
      BY <1>4, <2>1, <2>2, <3>1 DEF Steady, OneToRun, ToRun
    <3> QED
      BY <2>1, <3>2 DEF Messages
  <2> QED
    BY <2>1, <2>2
<1>5. OneToRun' /\ OneTask'
  <2>1. \A w \in Workers : OnCreate(w) => (worker[w].job = j => ~Taken(w, j))
    BY <1>t DEF OnCreate
  <2>2. \A w \in Workers : OnCreate(w)' <=> OnCreate(w)
    BY <1>1 DEF OnCreate, CreateJob
  <2>3. \A w \in Workers : OnCreate(w) /\ worker[w].pc = "taken" =>
            worker[w].job \notin Messages'
    BY <1>2, <2>1 DEF Steady, OneTask, OnCreate, Taken
  <2> QED
    BY <1>1, <2>2, <2>3 DEF Steady, OneToRun, ToRun, OneTask, CreateJob
<1>6. OneMessage'
  <2>0. ASSUME NEW i \in 1 .. Len(queue')
        PROVE  i \in 1 .. Len(queue) \/ i = Len(queue) + 1
    <3>1. i \in 1 .. Len(queue) + 1
      BY <1>2
    <3> QED
      BY <1>2, <3>1
  <2>1. ASSUME NEW i \in 1 .. Len(queue')
        PROVE  \/ i \in 1 .. Len(queue) /\ queue'[i] = queue[i]
               \/ i = Len(queue) + 1 /\ queue'[i] = j
    BY <1>2, <2>0
  <2>2. \A i \in 1 .. Len(queue') :
            CreateJob(queue'[i]) => jobs[queue'[i]].status = "queued"
    BY <1>4, <2>1 DEF Steady, OneMessage
  <2>3. ASSUME NEW i \in 1 .. Len(queue'), NEW k \in 1 .. Len(queue'),
               CreateJob(queue'[i]), CreateJob(queue'[k])
        PROVE  i = k
    BY <1>4, <2>1, <2>3 DEF Steady, OneMessage
  <2> QED
    BY <1>1, <2>2, <2>3 DEF OneMessage, CreateJob
<1>7. ASSUME NEW q \in Requests PROVE Ready(req[q])'
  <2>1. CASE q = r
    BY <1>1, <2>1 DEF Ready
  <2>2. CASE q # r
    <3>1. ASSUME req[q].op \in Provisioners, req[q].pc = "enqueue"
          PROVE  req[q].job # j
      <4> SUFFICES ASSUME req[q].job = j PROVE FALSE
        OBVIOUS
      <4>1. CreateJob(j)
        BY <3>1 DEF CreateInv, Branded
      <4> QED
        BY <1>1, <1>3, <2>2, <3>1, <4>1, OneProvisioner DEF CreateInv
    <3>2. LiveCreateJobs' = LiveCreateJobs /\ req'[q] = req[q] /\ Ready(req[q])
      BY <1>1, <2>2 DEF LiveCreateJobs, Steady
    <3> QED
      BY <1>1, <1>2, <3>1, <3>2 DEF Ready, Taken
  <2> QED
    BY <2>1, <2>2
<1>8. UnstampedHeld'
  <2> SUFFICES ASSUME NEW k \in JobIds, CreateJob(k),
                      jobs[k].status = "queued", ~jobs[k].rq
               PROVE  \E q \in Requests : Holds(req'[q], k)
    BY <1>1 DEF UnstampedHeld, Holds, CreateJob
  <2>1. PICK h \in Requests : Holds(req[h], k)
    BY DEF Steady, UnstampedHeld
  <2>2. CASE h = r
    BY <1>1, <2>1, <2>2 DEF Holds, Provisioners
  <2>3. CASE h # r
    BY <1>1, <2>1, <2>3
  <2> QED
    BY <2>2, <2>3
<1> QED
  BY <1>5, <1>6, <1>7, <1>8 DEF Steady

(* Storing the RQ id of a job changes no other.                            *)
LEMMA SteadyStamp ==
    ASSUME CreateInv, Steady, ~crossed, NEW r \in Requests,
           Stamp(r)
    PROVE  Steady'
<1>0. Bookkeeping
  BY DEF CreateInv
<1>1. PICK j \in Existing :
          /\ j = req[r].job /\ req[r].pc = "stamp"
          /\ \A q \in Requests : q # r => req'[q] = req[q]
          /\ req'[r] = Answered
          /\ \A k \in Existing :
                 /\ jobs'[k].kind = jobs[k].kind
                 /\ jobs'[k].status = jobs[k].status
                 /\ jobs'[k].rq = IF k = j THEN TRUE ELSE jobs[k].rq
          /\ \A k \in JobIds \ Existing : jobs'[k] = jobs[k]
          /\ queue' = queue /\ worker' = worker
  BY <1>0, StampDoes
<1>2. \A k \in JobIds : /\ jobs'[k].kind = jobs[k].kind
                        /\ jobs'[k].status = jobs[k].status
                        /\ k # j => jobs'[k].rq = jobs[k].rq
                        /\ k = j => jobs'[k].rq
  BY <1>1
<1>3. OneToRun'
  BY <1>2 DEF Steady, OneToRun, ToRun, CreateJob
<1>4. OneMessage'
  <2>1. \A i \in 1 .. Len(queue) : queue[i] \in JobIds
    BY <1>0, ExistingRows DEF Bookkeeping, QueueRefers
  <2> QED
    BY <1>1, <1>2, <2>1 DEF Steady, OneMessage, CreateJob
<1>5. OneTask'
  <2>1. \A w \in Workers : worker[w].pc # "idle" => worker[w].job \in JobIds
    BY <1>0, OnExisting, ExistingRows
  <2> QED
    BY <1>1, <1>2, <2>1 DEF Steady, OneTask, OnCreate, CreateJob, Messages
<1>6. ASSUME NEW q \in Requests PROVE Ready(req[q])'
  <2>1. CASE q = r
    <3>1. req'[q].op = "none"
      BY <1>1, <2>1, AnsweredFields
    <3> QED
      BY <3>1 DEF Ready, Provisioners
  <2>2. CASE q # r
    <3>1. ASSUME req[q].op \in Provisioners, req[q].pc = "enqueue"
          PROVE  req[q].job # j /\ req[q].job \in JobIds
      <4>2. req[r].op \notin Provisioners
        BY <1>1, <2>2, <3>1, OneProvisioner DEF CreateInv
      <4>3. ~CreateJob(j) /\ CreateJob(req[q].job)
        BY <1>1, <3>1, <4>2 DEF CreateInv, Branded
      <4>4. req[q].job \in JobIds
        BY <1>0, <3>1, OnExisting, ExistingRows
      <4> QED
        BY <4>3, <4>4
    <3>2. LiveCreateJobs' = LiveCreateJobs
      BY <1>2 DEF LiveCreateJobs
    <3>3. req'[q] = req[q] /\ Ready(req[q]) /\ Messages' = Messages
      BY <1>1, <2>2 DEF Steady, Messages
    <3> QED
      BY <1>1, <1>2, <3>1, <3>2, <3>3 DEF Ready, Taken
  <2> QED
    BY <2>1, <2>2
<1>7. UnstampedHeld'
  <2> SUFFICES ASSUME NEW k \in JobIds, CreateJob(k)',
                      jobs'[k].status = "queued", ~jobs'[k].rq
               PROVE  \E q \in Requests : Holds(req'[q], k)
    BY DEF UnstampedHeld, Holds
  <2>1. k # j
    BY <1>2
  <2>2. PICK h \in Requests : Holds(req[h], k)
    BY <1>2, <2>1 DEF Steady, UnstampedHeld, CreateJob
  <2>3. h # r
    BY <1>1, <2>1, <2>2 DEF Holds
  <2> QED
    BY <1>1, <2>2, <2>3
<1> QED
  BY <1>3, <1>4, <1>5, <1>6, <1>7 DEF Steady

(* A create job whose message is taken was queued, and had the only one.   *)
LEMMA SteadyDequeue ==
    ASSUME CreateInv, Steady, NEW w \in Workers, Dequeue(w)
    PROVE  Steady'
<1>0. Bookkeeping
  BY DEF CreateInv
<1>1. PICK h \in Existing :
          /\ h = Head(queue) /\ queue # << >> /\ queue' = Tail(queue)
          /\ \A v \in Workers : v # w => worker'[v] = worker[v]
          /\ worker'[w].pc = "taken" /\ worker'[w].job = h
          /\ jobs' = jobs /\ req' = req
  BY <1>0, DequeueDoes
<1>2. /\ h = queue[1] /\ Len(queue) \in Nat /\ Len(queue) >= 1
      /\ Len(queue') = Len(queue) - 1
      /\ \A i \in 1 .. Len(queue) - 1 : queue'[i] = queue[i + 1]
      /\ Messages' \subseteq Messages /\ h \in Messages
  <2>1. h = queue[1] /\ 1 \in 1 .. Len(queue)
    BY <1>0, <1>1, HeadAndTail
  <2>2. h \in Messages
    BY <2>1 DEF Messages
  <2> QED
    BY <1>0, <1>1, <2>2, HeadAndTail, QueueShrinks
<1>3. \A j : CreateJob(j)' <=> CreateJob(j)
  BY <1>1 DEF CreateJob
<1>4. h \in JobIds /\ (CreateJob(h) => jobs[h].status = "queued")
  <2>1. 1 \in 1 .. Len(queue)
    BY <1>2
  <2> QED
    BY <1>0, <1>2, <2>1, ExistingRows DEF Steady, OneMessage
<1>5. OneToRun' /\ UnstampedHeld'
  BY <1>1 DEF Steady, OneToRun, ToRun, CreateJob, UnstampedHeld, Holds
<1>m. ASSUME NEW i \in 1 .. Len(queue')
      PROVE  /\ i + 1 \in 1 .. Len(queue) /\ i + 1 # 1
             /\ queue'[i] = queue[i + 1]
  <2>1. i \in 1 .. Len(queue) - 1
    BY <1>2
  <2>2. i + 1 \in 1 .. Len(queue) /\ i + 1 # 1
    BY <1>2, <2>1
  <2> QED
    BY <1>2, <2>1, <2>2
<1>6. OneMessage'
  <2>1. ASSUME NEW i \in 1 .. Len(queue'), NEW k \in 1 .. Len(queue'),
               CreateJob(queue'[i]), CreateJob(queue'[k])
        PROVE  i = k
    <3>1. i + 1 = k + 1
      BY <1>m, <2>1 DEF Steady, OneMessage
    <3> QED
      BY <1>2, <3>1
  <2>2. \A i \in 1 .. Len(queue') :
            CreateJob(queue'[i]) => jobs[queue'[i]].status = "queued"
    BY <1>m DEF Steady, OneMessage
  <2> QED
    BY <1>1, <2>1, <2>2 DEF OneMessage, CreateJob
<1>7. ASSUME NEW q \in Requests PROVE Ready(req[q])'
  <2>0. Ready(req[q]) /\ LiveCreateJobs' = LiveCreateJobs
    BY <1>1 DEF Steady, LiveCreateJobs
  <2>1. CASE req[q].op \in Provisioners /\ req[q].pc = "enqueue"
    <3>1. /\ jobs[req[q].job].status = "queued" /\ ~jobs[req[q].job].rq
          /\ req[q].job \notin Messages
          /\ \A v \in Workers : ~Taken(v, req[q].job)
      BY <2>0, <2>1 DEF Ready
    <3>2. req[q].job # h /\ req[q].job \notin Messages'
      BY <1>2, <3>1
    <3>3. \A v \in Workers :
              ~(worker'[v].pc # "idle" /\ worker'[v].job = req[q].job)
      BY <1>1, <3>1, <3>2 DEF Taken
    <3> QED
      BY <1>1, <2>1, <3>1, <3>2, <3>3 DEF Ready, Taken
  <2>2. CASE req[q].op \notin Provisioners \/ req[q].pc # "enqueue"
    BY <1>1, <2>0, <2>2 DEF Ready
  <2> QED
    BY <2>1, <2>2
<1>8. h \in Messages' => ~CreateJob(h)
  <2> SUFFICES ASSUME h \in Messages', CreateJob(h) PROVE FALSE
    OBVIOUS
  <2>1. PICK i \in 1 .. Len(queue') : queue'[i] = h
    BY DEF Messages
  <2>2. /\ i + 1 \in 1 .. Len(queue) /\ i + 1 # 1
        /\ queue[i + 1] = h /\ queue[1] = h
    BY <1>2, <1>m, <2>1
  <2>3. 1 \in 1 .. Len(queue)
    BY <1>2
  <2> QED
    BY <2>2, <2>3 DEF Steady, OneMessage
<1>9. OneTask'
  <2>1. ASSUME NEW v \in Workers, v # w, OnCreate(v)'
        PROVE  OnCreate(v) /\ worker'[v] = worker[v] /\ worker[v].job # h
    <3>1. OnCreate(v) /\ worker'[v] = worker[v]
      BY <1>1, <2>1 DEF OnCreate, CreateJob
    <3>2. worker[v].job # h
      <4> SUFFICES ASSUME worker[v].job = h PROVE FALSE
        OBVIOUS
      <4>1. CreateJob(h) /\ jobs[h].status = "queued"
        BY <1>4, <3>1 DEF OnCreate
      <4>2. worker[v].pc = "taken"
        BY <3>1, <4>1 DEF Steady, OneTask, StatusAt
      <4> QED
        BY <1>2, <3>1, <4>2 DEF Steady, OneTask
    <3> QED
      BY <3>1, <3>2
  <2>2. ASSUME NEW v \in Workers, OnCreate(v)'
        PROVE  /\ jobs'[worker'[v].job].status = StatusAt(worker'[v].pc)
               /\ worker'[v].pc = "taken" => worker'[v].job \notin Messages'
    <3>1. CASE v = w
      <4>1. CreateJob(h)
        BY <1>1, <2>2, <3>1 DEF OnCreate, CreateJob
      <4> QED
        BY <1>1, <1>4, <1>8, <3>1, <4>1 DEF StatusAt
    <3>2. CASE v # w
      BY <1>1, <1>2, <2>1, <2>2, <3>2 DEF Steady, OneTask
    <3> QED
      BY <3>1, <3>2
  <2>3. ASSUME NEW u \in Workers, NEW v \in Workers, OnCreate(u)', OnCreate(v)',
               worker'[u].job = worker'[v].job
        PROVE  u = v
    <3>1. CASE u = w \/ v = w
      BY <1>1, <2>1, <2>3, <3>1
    <3>2. CASE u # w /\ v # w
      BY <2>1, <2>3, <3>2 DEF Steady, OneTask
    <3> QED
      BY <3>1, <3>2
  <2> QED
    BY <2>2, <2>3 DEF OneTask
<1> QED
  BY <1>5, <1>6, <1>7, <1>9 DEF Steady

(* A create job that starts to run was queued and has no message left.     *)
LEMMA SteadyMark ==
    ASSUME CreateInv, Steady, NEW w \in Workers, MarkRunning(w)
    PROVE  Steady'
<1>0. Bookkeeping
  BY DEF CreateInv
<1>1. PICK h \in Existing :
          /\ h = worker[w].job /\ worker[w].pc = "taken"
          /\ \A j \in Existing :
                 /\ jobs'[j].kind = jobs[j].kind /\ jobs'[j].rq = jobs[j].rq
                 /\ jobs'[j].status = IF j = h THEN "running"
                                      ELSE jobs[j].status
          /\ \A j \in JobIds \ Existing : jobs'[j] = jobs[j]
          /\ \A v \in Workers : v # w => worker'[v] = worker[v]
          /\ worker'[w].pc = "begin" /\ worker'[w].job = h
          /\ queue' = queue /\ req' = req
  BY <1>0, MarkRunningDoes
<1>2. /\ h \in JobIds
      /\ \A j \in JobIds :
             /\ jobs'[j].kind = jobs[j].kind /\ jobs'[j].rq = jobs[j].rq
             /\ j # h => jobs'[j].status = jobs[j].status
             /\ j = h => jobs'[j].status = "running"
  BY <1>0, <1>1, ExistingRows
<1>3. CreateJob(h) => /\ OnCreate(w) /\ jobs[h].status = "queued"
                      /\ h \notin Messages
  BY <1>1 DEF Steady, OneTask, OnCreate, StatusAt
<1>4. OneToRun'
  <2>1. \A j \in JobIds : ToRun(j)' => ToRun(j)
    BY <1>2, <1>3 DEF ToRun, CreateJob
  <2> QED
    BY <2>1 DEF Steady, OneToRun
<1>5. OneMessage'
  <2>1. \A i \in 1 .. Len(queue) : queue[i] \in JobIds
    BY <1>0, ExistingRows DEF Bookkeeping, QueueRefers
  <2>2. \A i \in 1 .. Len(queue) : CreateJob(queue[i]) => queue[i] # h
    BY <1>3 DEF Messages
  <2> QED
    BY <1>1, <1>2, <2>1, <2>2 DEF Steady, OneMessage, CreateJob
<1>6. ASSUME NEW q \in Requests PROVE Ready(req[q])'
  <2>0. Ready(req[q]) /\ Messages' = Messages
    BY <1>1 DEF Steady, Messages
  <2>1. CASE req[q].op \in Provisioners /\ req[q].pc = "insert"
    <3>1. LiveCreateJobs = {}
      BY <2>0, <2>1 DEF Ready
    <3>2. ~CreateJob(h)
      BY <1>2, <1>3, <3>1, LiveIfToRun DEF ToRun
    <3>3. LiveCreateJobs' = {}
      BY <1>2, <3>1, <3>2 DEF LiveCreateJobs, CreateJob
    <3> QED
      BY <1>1, <2>1, <3>3 DEF Ready
  <2>2. CASE req[q].op \in Provisioners /\ req[q].pc = "enqueue"
    <3>1. /\ jobs[req[q].job].status = "queued" /\ ~jobs[req[q].job].rq
          /\ req[q].job \notin Messages /\ req[q].job \in JobIds
          /\ \A v \in Workers : ~Taken(v, req[q].job)
      BY <1>0, <2>0, <2>2, OnExisting, ExistingRows DEF Ready
    <3>2. req[q].job # h
      BY <1>1, <3>1 DEF Taken
    <3>3. \A v \in Workers :
              ~(worker'[v].pc # "idle" /\ worker'[v].job = req[q].job)
      BY <1>1, <3>1, <3>2 DEF Taken
    <3> QED
      BY <1>1, <1>2, <2>0, <2>2, <3>1, <3>2, <3>3 DEF Ready, Taken
  <2>3. CASE \/ req[q].op \notin Provisioners
             \/ req[q].pc \notin {"insert", "enqueue"}
    BY <1>1, <2>3 DEF Ready
  <2> QED
    BY <2>1, <2>2, <2>3
<1>7. UnstampedHeld'
  <2> SUFFICES ASSUME NEW k \in JobIds, CreateJob(k)',
                      jobs'[k].status = "queued", ~jobs'[k].rq
               PROVE  \E q \in Requests : Holds(req[q], k)
    BY <1>1 DEF UnstampedHeld, Holds
  <2>1. CreateJob(k) /\ jobs[k].status = "queued" /\ ~jobs[k].rq
    BY <1>2 DEF CreateJob
  <2> QED
    BY <2>1 DEF Steady, UnstampedHeld
<1>8. OneTask'
  <2>1. ASSUME NEW v \in Workers, v # w, OnCreate(v)'
        PROVE  /\ OnCreate(v) /\ worker'[v] = worker[v] /\ worker[v].job # h
               /\ jobs'[worker[v].job].status = jobs[worker[v].job].status
    <3>1. worker[v].pc # "idle" /\ worker[v].job \in JobIds
      BY <1>0, <1>1, <2>1, OnExisting, ExistingRows DEF OnCreate
    <3>2. OnCreate(v)
      BY <1>1, <1>2, <2>1, <3>1 DEF OnCreate, CreateJob
    <3>3. worker[v].job # h
      BY <1>1, <1>3, <2>1, <3>2 DEF Steady, OneTask, OnCreate
    <3> QED
      BY <1>1, <1>2, <2>1, <3>1, <3>2, <3>3
  <2>2. ASSUME NEW v \in Workers, OnCreate(v)'
        PROVE  /\ jobs'[worker'[v].job].status = StatusAt(worker'[v].pc)
               /\ worker'[v].pc = "taken" => worker'[v].job \notin Messages'
    <3>1. CASE v = w
      BY <1>1, <1>2, <3>1 DEF StatusAt
    <3>2. CASE v # w
      BY <1>1, <2>1, <2>2, <3>2 DEF Steady, OneTask, Messages
    <3> QED
      BY <3>1, <3>2
  <2>3. ASSUME NEW u \in Workers, NEW v \in Workers, OnCreate(u)', OnCreate(v)',
               worker'[u].job = worker'[v].job
        PROVE  u = v
    <3>1. CASE u = w \/ v = w
      BY <1>1, <2>1, <2>3, <3>1
    <3>2. CASE u # w /\ v # w
      BY <2>1, <2>3, <3>2 DEF Steady, OneTask
    <3> QED
      BY <3>1, <3>2
  <2> QED
    BY <2>2, <2>3 DEF OneTask
<1> QED
  BY <1>4, <1>5, <1>6, <1>7, <1>8 DEF Steady

(* The outcome of a task only concerns the job it has.                     *)
LEMMA SteadyOutcome ==
    ASSUME CreateInv, Steady, NEW w \in Workers, Success(w) \/ FailJob(w)
    PROVE  Steady'
<1>0. Bookkeeping
  BY DEF CreateInv
<1>1. PICK j \in Existing :
          /\ j = worker[w].job
          /\ \A k \in Existing :
                 /\ jobs'[k].kind = jobs[k].kind /\ jobs'[k].rq = jobs[k].rq
                 /\ k # j => jobs'[k].status = jobs[k].status
          /\ \A k \in JobIds \ Existing : jobs'[k] = jobs[k]
          /\ jobs'[j].status = IF Success(w) THEN "succeeded" ELSE "failed"
          /\ queue' = queue /\ req' = req
          /\ worker[w].pc \in {"success", "failjob"}
  BY <1>0, OutcomeDoes
<1>2. /\ j \in JobIds
      /\ \A k \in JobIds :
             /\ jobs'[k].kind = jobs[k].kind /\ jobs'[k].rq = jobs[k].rq
             /\ k # j => jobs'[k].status = jobs[k].status
  BY <1>0, <1>1, ExistingRows
<1>3. CreateJob(j) => OnCreate(w) /\ jobs[j].status = "running"
  BY <1>1 DEF Steady, OneTask, OnCreate, StatusAt
<1>w. /\ \A v \in Workers : v # w => worker'[v] = worker[v]
      /\ \/ worker'[w].pc = "idle"
         \/ Success(w) /\ worker'[w].pc = "after" /\ worker'[w].job = j
  BY <1>0, <1>1, GotoDoes, EscapeDoes DEF Success, FailJob
<1>4. OneToRun'
  <2>1. \A k \in JobIds : ToRun(k)' => ToRun(k)
    BY <1>1, <1>2 DEF ToRun, CreateJob
  <2> QED
    BY <2>1 DEF Steady, OneToRun
<1>5. OneMessage'
  <2>1. \A i \in 1 .. Len(queue) : queue[i] \in JobIds
    BY <1>0, ExistingRows DEF Bookkeeping, QueueRefers
  <2>2. \A i \in 1 .. Len(queue) : CreateJob(queue[i]) => queue[i] # j
    BY <1>3 DEF Steady, OneMessage
  <2> QED
    BY <1>1, <1>2, <2>1, <2>2 DEF Steady, OneMessage, CreateJob
<1>6. ASSUME NEW q \in Requests PROVE Ready(req[q])'
  <2>0. Ready(req[q]) /\ Messages' = Messages
    BY <1>1 DEF Steady, Messages
  <2>1. CASE req[q].op \in Provisioners /\ req[q].pc = "insert"
    <3>1. LiveCreateJobs = {}
      BY <2>0, <2>1 DEF Ready
    <3>2. ~CreateJob(j)
      BY <1>2, <1>3, <3>1, LiveIfToRun DEF ToRun
    <3>3. LiveCreateJobs' = {}
      BY <1>2, <3>1, <3>2 DEF LiveCreateJobs, CreateJob
    <3> QED
      BY <1>1, <2>1, <3>3 DEF Ready
  <2>2. CASE req[q].op \in Provisioners /\ req[q].pc = "enqueue"
    <3>1. /\ jobs[req[q].job].status = "queued" /\ ~jobs[req[q].job].rq
          /\ req[q].job \notin Messages /\ CreateJob(req[q].job)
      BY <2>0, <2>2 DEF Ready, CreateInv, Branded
    <3>2. req[q].job \in JobIds /\ req[q].job # j
      BY <1>0, <1>3, <2>2, <3>1, OnExisting, ExistingRows
    <3>3. \A v \in Workers : ~Taken(v, req[q].job)
      BY <2>0, <2>2 DEF Ready
    <3>4. \A v \in Workers :
              ~(worker'[v].pc # "idle" /\ worker'[v].job = req[q].job)
      BY <1>w, <3>2, <3>3 DEF Taken
    <3> QED
      BY <1>1, <1>2, <2>0, <2>2, <3>1, <3>2, <3>4 DEF Ready, Taken
  <2>3. CASE \/ req[q].op \notin Provisioners
             \/ req[q].pc \notin {"insert", "enqueue"}
    BY <1>1, <2>3 DEF Ready
  <2> QED
    BY <2>1, <2>2, <2>3
<1>7. UnstampedHeld'
  <2> SUFFICES ASSUME NEW k \in JobIds, CreateJob(k)',
                      jobs'[k].status = "queued", ~jobs'[k].rq
               PROVE  \E q \in Requests : Holds(req[q], k)
    BY <1>1 DEF UnstampedHeld, Holds
  <2>1. CreateJob(k) /\ jobs[k].status = "queued" /\ ~jobs[k].rq
    BY <1>1, <1>2 DEF CreateJob
  <2> QED
    BY <2>1 DEF Steady, UnstampedHeld
<1>8. OneTask'
  <2>1. /\ \A v \in Workers : v # w => worker'[v] = worker[v]
        /\ \/ worker'[w].pc = "idle"
           \/ Success(w) /\ worker'[w].pc = "after" /\ worker'[w].job = j
    BY <1>w
  <2>2. ASSUME NEW v \in Workers, v # w, OnCreate(v)'
        PROVE  /\ OnCreate(v) /\ worker[v].job # j
               /\ jobs'[worker[v].job].status = jobs[worker[v].job].status
    <3>1. worker[v].pc # "idle" /\ worker[v].job \in JobIds
      BY <1>0, <2>1, <2>2, OnExisting, ExistingRows DEF OnCreate
    <3>2. OnCreate(v)
      BY <1>2, <2>1, <2>2, <3>1 DEF OnCreate, CreateJob
    <3>3. worker[v].job # j
      <4> SUFFICES ASSUME worker[v].job = j PROVE FALSE
        OBVIOUS
      <4>1. CreateJob(j)
        BY <3>2 DEF OnCreate
      <4>2. OnCreate(w) /\ worker[w].job = worker[v].job
        BY <1>1, <1>3, <4>1
      <4> QED
        BY <2>2, <3>2, <4>2 DEF Steady, OneTask
    <3> QED
      BY <1>2, <3>1, <3>2, <3>3
  <2>3. ASSUME NEW v \in Workers, OnCreate(v)'
        PROVE  /\ jobs'[worker'[v].job].status = StatusAt(worker'[v].pc)
               /\ worker'[v].pc = "taken" => worker'[v].job \notin Messages'
    <3>1. CASE v = w
      BY <1>1, <2>1, <2>3, <3>1 DEF OnCreate, StatusAt
    <3>2. CASE v # w
      BY <1>1, <2>1, <2>2, <2>3, <3>2 DEF Steady, OneTask, Messages
    <3> QED
      BY <3>1, <3>2
  <2>4. ASSUME NEW u \in Workers, NEW v \in Workers, OnCreate(u)', OnCreate(v)',
               worker'[u].job = worker'[v].job
        PROVE  u = v
    <3>1. OnCreate(w)' => worker'[w].job = j
      BY <2>1 DEF OnCreate
    <3>2. CASE u = w \/ v = w
      BY <2>1, <2>2, <2>4, <3>1, <3>2
    <3>3. CASE u # w /\ v # w
      BY <2>1, <2>2, <2>4, <3>3 DEF Steady, OneTask
    <3> QED
      BY <3>2, <3>3
  <2> QED
    BY <2>3, <2>4 DEF OneTask
<1> QED
  BY <1>4, <1>5, <1>6, <1>7, <1>8 DEF Steady

(* Any other step of a task leaves it on its job.                          *)
LEMMA AfterCourse ==
    ASSUME Bookkeeping, NEW w \in Workers, WorkerStep(w),
           ~Dequeue(w), ~MarkRunning(w), ~Success(w), ~FailJob(w)
    PROVE  /\ worker'[w].pc \notin {"taken", "after"}
           /\ worker[w].pc # "taken"
           /\ worker[w].pc = "after" => worker'[w].pc = "idle"
<1>1. CASE Begin(w)
  <2>1. /\ worker[w].pc = "begin"
        /\ Goto(w, "work") \/ Goto(w, "enter") \/ RaiseRefused(w)
    BY <1>1 DEF Begin
  <2> QED
    BY <2>1, GotoDoes, RaiseDoes
<1>2. CASE Enter(w)
  BY <1>2, GotoDoes DEF Enter
<1>3. CASE Work(w)
  <2>1. worker[w].pc = "work"
    BY <1>3 DEF Work
  <2>2. \/ Goto(w, "finish") \/ Goto(w, "success") \/ Raise(w)
        \/ worker' = [worker EXCEPT ![w].pc = "finish", ![w].caught = TRUE]
    BY <1>3 DEF Work, Provisioned, Dropped, Copied, SiteNotFound, WorkFailed
  <2> QED
    BY <2>1, <2>2, GotoDoes, CaughtDoes, RaiseDoes
<1>4. CASE Finish(w)
  <2>1. /\ worker[w].pc = "finish"
        /\ Goto(w, "success") \/ Goto(w, "land") \/ RaiseRefused(w)
    BY <1>4 DEF Finish
  <2> QED
    BY <2>1, GotoDoes, RaiseDoes
<1>5. CASE Land(w)
  BY <1>5, GotoDoes DEF Land
<1>6. CASE After(w)
  BY <1>6, EscapeDoes DEF After
<1>7. CASE Handle(w)
  <2>1. /\ worker[w].pc = "handle"
        /\ Goto(w, "failjob") \/ Goto(w, "fail") \/ Escape(w)
    BY <1>7 DEF Handle
  <2> QED
    BY <2>1, GotoDoes, EscapeDoes
<1>8. CASE Fail(w)
  BY <1>8, GotoDoes DEF Fail
<1> QED
  BY <1>1, <1>2, <1>3, <1>4, <1>5, <1>6, <1>7, <1>8 DEF WorkerStep

(* A step in the middle of a task leaves the jobs steady                   *)
(* (provision_tenant).                                                     *)
LEMMA SteadyTask ==
    ASSUME CreateInv, Steady, NEW w \in Workers, WorkerStep(w),
           ~Dequeue(w), ~MarkRunning(w), ~Success(w), ~FailJob(w)
    PROVE  Steady'
<1>1. UNCHANGED <<jobs, queue, req>> /\ Messages' = Messages
  BY OtherTaskSteps DEF Messages
<1>2. OneToRun' /\ OneMessage' /\ UnstampedHeld'
  BY <1>1 DEF Steady, OneToRun, ToRun, OneMessage, UnstampedHeld, Holds,
              CreateJob
<1>4. \A v \in Workers : worker'[v].pc # "idle" =>
          /\ worker[v].pc # "idle" /\ worker'[v].job = worker[v].job
          /\ worker'[v].pc = "after" <=> worker[v].pc = "after"
          /\ worker'[v].pc = "taken" <=> worker[v].pc = "taken"
  <2> SUFFICES ASSUME NEW v \in Workers, worker'[v].pc # "idle"
               PROVE  /\ worker[v].pc # "idle" /\ worker'[v].job = worker[v].job
                      /\ worker'[v].pc = "after" <=> worker[v].pc = "after"
                      /\ worker'[v].pc = "taken" <=> worker[v].pc = "taken"
    OBVIOUS
  <2>0. Bookkeeping
    BY DEF CreateInv
  <2>1. CASE v # w
    BY <2>0, <2>1, TaskCourse
  <2>2. CASE v = w
    <3>1. /\ worker'[w].pc \notin {"taken", "after"}
          /\ worker[w].pc # "taken"
          /\ worker[w].pc = "after" => worker'[w].pc = "idle"
      BY <2>0, AfterCourse
    <3>2. worker[w].pc # "idle" /\ worker'[w].job = worker[w].job
      BY <2>0, <2>2, <3>1, TaskCourse
    <3> QED
      BY <2>2, <3>1, <3>2
  <2> QED
    BY <2>1, <2>2
<1>3. ASSUME NEW q \in Requests PROVE Ready(req[q])'
  <2>1. LiveCreateJobs' = LiveCreateJobs
    BY <1>1 DEF LiveCreateJobs
  <2>2. \A v \in Workers, j \in JobIds \cup {NoJob} :
            worker'[v].pc # "idle" /\ worker'[v].job = j => Taken(v, j)
    BY <1>4 DEF Taken
  <2>3. Ready(req[q]) /\ req[q].job \in JobIds \cup {NoJob}
    BY OnExisting DEF Steady, CreateInv, CallRecords
  <2> QED
    BY <1>1, <2>1, <2>2, <2>3 DEF Ready, Taken
<1>5. OneTask'
  <2>1. \A v \in Workers : OnCreate(v)' => OnCreate(v)
    BY <1>1, <1>4 DEF OnCreate, CreateJob
  <2>2. \A v \in Workers : OnCreate(v)' =>
            /\ worker'[v].job = worker[v].job
            /\ StatusAt(worker'[v].pc) = StatusAt(worker[v].pc)
            /\ worker'[v].pc = "taken" => worker[v].pc = "taken"
    BY <1>4 DEF OnCreate, StatusAt
  <2> QED
    BY <1>1, <2>1, <2>2 DEF Steady, OneTask
<1> QED
  BY <1>2, <1>3, <1>5 DEF Steady

(* Every step keeps provisioning alone, as long as nothing fails and no    *)
(* look crosses another call's (Next).                                     *)
LEMMA CreateStep ==
    ASSUME CreateInv, [Next]_vars
    PROVE  CreateInv'
<1>0. Bookkeeping /\ Bookkeeping'
  BY BookkeepingStep DEF CreateInv
<1>1. CASE UNCHANGED vars
  <2>1. (\A r \in Requests : Branded(req[r]))' /\ AloneToProvision'
    BY <1>1 DEF CreateInv, vars, Branded, CreateJob, AloneToProvision,
                Provisioning
  <2>2. Steady' <=> Steady
    BY <1>1 DEF vars, Steady, OneToRun, ToRun, OneMessage, Ready, Messages,
                LiveCreateJobs, UnstampedHeld, Holds, OneTask, OnCreate,
                CreateJob, Taken
  <2> QED
    BY <1>0, <1>1, <2>1, <2>2 DEF CreateInv, vars
<1>2. SUFFICES ASSUME Next PROVE CreateInv'
  BY <1>1
<1>3. /\ (\A r \in Requests : Branded(req[r]))'
      /\ AloneToProvision' /\ (~crossed' => ~crossed)
  BY <1>0, <1>2, BrandedStep, AloneStep DEF CreateInv
<1>4. ASSUME faults' = 0, ~crossed' PROVE Steady'
  <2>1. faults \in Nat
    BY <1>0 DEF Bookkeeping, StateTypeOK
  <2>2. /\ ~(\E r \in Requests : Abort(r))
        /\ ~(\E w \in Workers : Timeout(w) \/ Lose(w))
    BY <1>4, <2>1 DEF Abort, Timeout, Lose
  <2>3. CASE \E r \in Requests : (\E op \in Ops : Call(r, op)) \/ RequestStep(r)
    <3>1. PICK r \in Requests : (\E op \in Ops : Call(r, op)) \/ RequestStep(r)
      BY <2>3
    <3>2. faults = 0
      BY <1>4, <3>1 DEF Call, RequestStep, Write, Find, Insert, Enqueue, Stamp
    <3>3. Steady /\ ~crossed
      BY <1>3, <1>4, <3>2 DEF CreateInv
    <3> QED
      BY <1>4, <3>1, <3>3, SteadyCalls, SteadyInsert, SteadyEnqueue,
         SteadyStamp DEF RequestStep
  <2>4. CASE \E w \in Workers : WorkerStep(w)
    <3>1. PICK w \in Workers : WorkerStep(w)
      BY <2>4
    <3>2. faults = 0
      BY <1>4, <3>1 DEF WorkerStep, Dequeue, MarkRunning, Begin, Enter, Work,
                        Finish, Land, Success, After, Handle, Fail, FailJob
    <3>3. Steady /\ ~crossed
      BY <1>3, <1>4, <3>2 DEF CreateInv
    <3> QED
      BY <3>1, <3>3, SteadyDequeue, SteadyMark, SteadyOutcome, SteadyTask
  <2> QED
    BY <1>2, <2>2, <2>3, <2>4 DEF Next
<1> QED
  BY <1>0, <1>3, <1>4 DEF CreateInv

(* A set without two different members has at most one.                    *)
LEMMA AtMostOne ==
    ASSUME NEW S, \A x, y \in S : x = y
    PROVE  Cardinality(S) <= 1
<1>1. CASE S = {}
  BY <1>1, FS_EmptySet
<1>2. CASE S # {}
  <2>1. PICK x : x \in S
    BY <1>2
  <2>2. S = {x}
    BY <2>1
  <2> QED
    BY <2>2, FS_Singleton
<1> QED
  BY <1>1, <1>2

(* As long as nothing has failed and no look for a create job crossed      *)
(* another call's, there is one create job to run, one message for it, and *)
(* none once a worker is on it, however often payments are confirmed and   *)
(* provisioning is retried and however many workers there are              *)
(* (enqueue_provisioning_for_paid_tenant).                                 *)
THEOREM ProvisionedOnceAtATime == Spec => []OneProvisioningAtATime
<1>1. Init => CreateInv
  <2> SUFFICES ASSUME Init PROVE CreateInv
    OBVIOUS
  <2>1. /\ \A r \in Requests : req[r].pc = "idle"
        /\ \A w \in Workers : worker[w].pc = "idle"
        /\ queue = << >>
    BY DEF Init, NotCalled, IdleWorker
  <2>2. \A j \in JobIds : jobs[j].status \notin {"queued", "running"}
    BY DEF Init, JustCheckedOut, InService, NoRow, Row
  <2>3. (\A r \in Requests : Branded(req[r])) /\ AloneToProvision
    BY <2>1 DEF Branded, AloneToProvision, Provisioning
  <2>4. OneToRun /\ UnstampedHeld
    BY <2>2 DEF OneToRun, ToRun, UnstampedHeld
  <2>5. OneMessage /\ OneTask /\ \A r \in Requests : Ready(req[r])
    BY <2>1 DEF OneMessage, OneTask, OnCreate, Ready
  <2> QED
    BY <2>3, <2>4, <2>5, BookkeepingInit DEF CreateInv, Steady
<1>2. CreateInv => OneProvisioningAtATime
  <2> SUFFICES ASSUME CreateInv, faults = 0, ~crossed
               PROVE  /\ Cardinality({j \in JobIds :
                             /\ jobs[j].kind = "create"
                             /\ jobs[j].status \in {"queued", "running"}}) <= 1
                      /\ Cardinality({i \in 1 .. Len(queue) :
                                        jobs[queue[i]].kind = "create"}) <= 1
                      /\ (\E w \in Workers :
                             /\ worker[w].pc \notin {"idle", "after"}
                             /\ Kind(w) = "create") =>
                             \A i \in 1 .. Len(queue) :
                                 jobs[queue[i]].kind # "create"
    BY DEF OneProvisioningAtATime
  <2>0. Steady /\ Bookkeeping
    BY DEF CreateInv
  <2>1. Cardinality({j \in JobIds :
                        /\ jobs[j].kind = "create"
                        /\ jobs[j].status \in {"queued", "running"}}) <= 1
    BY <2>0, AtMostOne DEF Steady, OneToRun, ToRun, CreateJob
  <2>2. Cardinality({i \in 1 .. Len(queue) :
                        jobs[queue[i]].kind = "create"}) <= 1
    BY <2>0, AtMostOne DEF Steady, OneMessage, CreateJob
  <2>3. ASSUME NEW w \in Workers, worker[w].pc \notin {"idle", "after"},
               Kind(w) = "create", NEW i \in 1 .. Len(queue),
               jobs[queue[i]].kind = "create"
        PROVE  FALSE
    <3> DEFINE j == worker[w].job
    <3>1. /\ OnCreate(w) /\ j \in JobIds
          /\ jobs[j].status = StatusAt(worker[w].pc)
      BY <2>0, <2>3, OnExisting, ExistingRows
         DEF OnCreate, CreateJob, Kind, Steady, OneTask
    <3>2. ToRun(j)
      BY <2>3, <3>1 DEF OnCreate, ToRun, StatusAt
    <3>3. /\ queue[i] \in JobIds /\ jobs[queue[i]].status = "queued"
          /\ ToRun(queue[i])
      BY <2>0, <2>3, ExistingRows
         DEF Bookkeeping, QueueRefers, Steady, OneMessage, CreateJob, ToRun
    <3>4. queue[i] = j /\ j \in Messages
      BY <2>0, <3>1, <3>2, <3>3 DEF Steady, OneToRun, Messages
    <3>5. worker[w].pc = "taken"
      BY <3>1, <3>3, <3>4 DEF StatusAt
    <3> QED
      BY <2>0, <3>1, <3>4, <3>5 DEF Steady, OneTask
  <2> QED
    BY <2>1, <2>2, <2>3
<1> QED
  BY <1>1, <1>2, CreateStep, PTL DEF Spec
=============================================================================
