--------------------------- MODULE SchedulerLease ---------------------------
(***************************************************************************)
(* One of the three scheduler threads that every worker process starts     *)
(* (dunning, trials, reconciliation: the same code over keys of their      *)
(* own).  A thread polls: it takes or renews a lease in Redis, and if the  *)
(* time of the last enqueue is an interval ago it enqueues a cycle and     *)
(* stores the time.  Every Redis command is a step.                        *)
(*                                                                         *)
(* The clock is left out: a lease lapses and an interval passes at any     *)
(* time.  A turn is what a thread does between taking or recognising its   *)
(* lease and going back to sleep.                                          *)
(***************************************************************************)
EXTENDS Integers, FiniteSets

CONSTANTS
    Schedulers,  \* the worker processes
    MaxBroken    \* bound on crashes, Redis errors and leases lost in a turn

(* The key holds an owner id, new with every start of a process: the id of *)
(* a process that is gone is nobody's.                                     *)
NoOwner == "no owner"
Gone == "gone"

ASSUME LeaseAssumption ==
    /\ IsFiniteSet(Schedulers) /\ MaxBroken \in Nat
    /\ NoOwner \notin Schedulers /\ Gone \notin Schedulers

VARIABLES
    lease,   \* the leader key: its value, and whether it has an expiry
    stamp,   \* the last enqueue: less than an interval ago, or due
    thread,  \* where each scheduler thread is
    broken,  \* turns and processes cut short so far
    credit   \* auxiliary: due intervals and broken turns, less the cycles

leaseVars == <<lease, stamp, thread, broken, credit>>

Unheld == [owner |-> NoOwner, expires |-> FALSE]

InTurn(p) == thread[p] \in {"renew", "check", "enqueue", "stamp"}
Goes(p, pc) == thread' = [thread EXCEPT ![p] = pc]

(* The time of the last enqueue may be there from an earlier worker. *)
LeaseInit ==
    /\ lease = Unheld
    /\ \/ stamp = "due" /\ credit = 1
       \/ stamp = "recent" /\ credit = 0
    /\ thread = [p \in Schedulers |-> "asleep"]
    /\ broken = 0

-----------------------------------------------------------------------------
(***************************************************************************)
(* _acquire_or_renew_lock.                                                 *)
(***************************************************************************)

(* Variant: the lease is set whoever has it. *)
TakeLeaseAlways(p) ==
    /\ thread[p] = "asleep"
    /\ lease' = [owner |-> p, expires |-> TRUE]
    /\ Goes(p, "check")
    /\ UNCHANGED <<stamp, broken, credit>>

(* Variant: the expiry is left to the first renewal. *)
TakeLeaseForGood(p) ==
    /\ thread[p] = "asleep"
    /\ IF lease = Unheld
       THEN lease' = [owner |-> p, expires |-> FALSE] /\ Goes(p, "check")
       ELSE UNCHANGED lease /\ Goes(p, "read")
    /\ UNCHANGED <<stamp, broken, credit>>

(* SET key owner NX EX. *)
TakeLease(p) ==
    /\ thread[p] = "asleep"
    /\ IF lease = Unheld
       THEN lease' = [owner |-> p, expires |-> TRUE] /\ Goes(p, "check")
       ELSE UNCHANGED lease /\ Goes(p, "read")
    /\ UNCHANGED <<stamp, broken, credit>>

(* GET key: mine or not. *)
ReadLease(p) ==
    /\ thread[p] = "read"
    /\ Goes(p, IF lease.owner = p THEN "renew" ELSE "asleep")
    /\ UNCHANGED <<lease, stamp, broken, credit>>

(* EXPIRE key: whoever has it by now, and if anyone has. *)
RenewLease(p) ==
    /\ thread[p] = "renew"
    /\ lease' = IF lease = Unheld THEN lease ELSE [lease EXCEPT !.expires = TRUE]
    /\ Goes(p, "check")
    /\ UNCHANGED <<stamp, broken, credit>>

(***************************************************************************)
(* _enqueue_dunning_cycle_if_due and its two siblings.                     *)
(***************************************************************************)
CheckDue(p) ==
    /\ thread[p] = "check"
    /\ Goes(p, IF stamp = "due" THEN "enqueue" ELSE "asleep")
    /\ UNCHANGED <<lease, stamp, broken, credit>>

EnqueueCycle(p) ==
    /\ thread[p] = "enqueue"
    /\ credit' = credit - 1
    /\ Goes(p, "stamp")
    /\ UNCHANGED <<lease, stamp, broken>>

StampEnqueue(p) ==
    /\ thread[p] = "stamp"
    /\ stamp' = "recent"
    /\ Goes(p, "asleep")
    /\ UNCHANGED <<lease, broken, credit>>

(* The loop of _start_dunning_scheduler and its two siblings. *)
SchedulerStep(p) ==
    \/ TakeLease(p) \/ ReadLease(p) \/ RenewLease(p)
    \/ CheckDue(p) \/ EnqueueCycle(p) \/ StampEnqueue(p)

-----------------------------------------------------------------------------
(***************************************************************************)
(* Time and failures.                                                      *)
(***************************************************************************)
IntervalPasses ==
    /\ stamp = "recent"
    /\ stamp' = "due" /\ credit' = credit + 1
    /\ UNCHANGED <<lease, thread, broken>>

(* The lease of a thread that sleeps, or is gone, lapses. *)
LeaseLapses ==
    /\ lease.expires
    /\ \A p \in Schedulers : InTurn(p) => lease.owner # p
    /\ lease' = Unheld
    /\ UNCHANGED <<stamp, thread, broken, credit>>

Breaks(p) ==
    /\ broken < MaxBroken
    /\ broken' = broken + 1
    /\ credit' = IF InTurn(p) THEN credit + 1 ELSE credit

(* The turn took longer than the lease. *)
LeaseLostInTurn(p) ==
    /\ lease = [owner |-> p, expires |-> TRUE] /\ InTurn(p)
    /\ Breaks(p)
    /\ lease' = Unheld
    /\ UNCHANGED <<stamp, thread>>

(* The loop logs what a command raises and sleeps. *)
RedisError(p) ==
    /\ thread[p] \notin {"asleep", "down"}
    /\ Breaks(p)
    /\ Goes(p, "asleep")
    /\ UNCHANGED <<lease, stamp>>

Crash(p) ==
    /\ thread[p] # "down"
    /\ Breaks(p)
    /\ Goes(p, "down")
    /\ lease' = IF lease.owner = p THEN [lease EXCEPT !.owner = Gone] ELSE lease
    /\ UNCHANGED stamp

(* docker-compose starts the worker again. *)
Restart(p) ==
    /\ thread[p] = "down"
    /\ Goes(p, "asleep")
    /\ UNCHANGED <<lease, stamp, broken, credit>>

LeaseNext ==
    \/ \E p \in Schedulers :
           \/ SchedulerStep(p) \/ LeaseLostInTurn(p) \/ RedisError(p)
           \/ Crash(p) \/ Restart(p)
    \/ IntervalPasses \/ LeaseLapses

LeaseSpec == LeaseInit /\ [][LeaseNext]_leaseVars

-----------------------------------------------------------------------------
(* Every cycle enqueued is owed to an interval that passed, or to a turn   *)
(* that was cut short or outlived its lease: a lease that is read, compared *)
(* and renewed in three commands, and a time stored after the enqueue,     *)
(* repeat a cycle in no other way (worker.py, the scheduler loops).        *)
CyclesAreOwed == credit >= 0

(* A cycle that is due is enqueued in the end, whichever process has the   *)
(* lease and whichever dies with it (_acquire_or_renew_lock).              *)
CyclesComeAgain == stamp = "due" ~> stamp = "recent"
=============================================================================
