------------------------ MODULE SchedulerLeaseProofs ------------------------
(***************************************************************************)
(* No more cycles than are owed, for any number of worker processes and    *)
(* failures.                                                               *)
(***************************************************************************)
EXTENDS SchedulerLease, FiniteSetTheorems, TLAPS

ThreadPlaces ==
    {"asleep", "read", "renew", "check", "enqueue", "stamp", "down"}

LeaseTypeOK ==
    /\ lease \in [owner : Schedulers \cup {NoOwner, Gone}, expires : BOOLEAN]
    /\ stamp \in {"due", "recent"}
    /\ thread \in [Schedulers -> ThreadPlaces]
    /\ broken \in Nat /\ credit \in Int

(* The threads that go on without the lease they had, and may enqueue.     *)
Orphans == {p \in Schedulers : /\ thread[p] \in {"renew", "check", "enqueue"}
                               /\ lease.owner # p}

OwnerAt(pc) == \E p \in Schedulers : lease.owner = p /\ thread[p] = pc

(* A cycle is to be enqueued by the owner of the lease, now or next.       *)
Pending == OwnerAt("enqueue") \/ (stamp = "due" /\ ~OwnerAt("stamp"))

(* What the credit must cover: one cycle, and one of each orphan.          *)
Covers(c, n, pending) == IF pending THEN c >= n + 1 ELSE c >= n

LeaseInv == LeaseTypeOK /\ Covers(credit, Cardinality(Orphans), Pending)

-----------------------------------------------------------------------------
(* A set does not grow by losing elements.                                 *)
LEMMA Fewer ==
  ASSUME NEW S, NEW T, IsFiniteSet(S), T \subseteq S
  PROVE  /\ Cardinality(S) \in Nat /\ Cardinality(T) \in Nat
         /\ Cardinality(T) <= Cardinality(S)
BY FS_Subset, FS_CardinalityType

(* One element more.                                                       *)
LEMMA OneMore ==
  ASSUME NEW S, NEW T, NEW x, IsFiniteSet(S), T \subseteq S \cup {x}
  PROVE  /\ Cardinality(S) \in Nat /\ Cardinality(T) \in Nat
         /\ Cardinality(T) <= Cardinality(S) + 1
<1>a. Cardinality(S) \in Nat
  BY FS_CardinalityType
<1>b. /\ IsFiniteSet(S \cup {x})
      /\ Cardinality(S \cup {x}) =
             IF x \in S THEN Cardinality(S) ELSE Cardinality(S) + 1
  BY FS_AddElement, Zenon
<1>1. /\ IsFiniteSet(S \cup {x})
      /\ Cardinality(S \cup {x}) <= Cardinality(S) + 1
  BY <1>a, <1>b
<1>2. /\ Cardinality(S \cup {x}) \in Nat /\ Cardinality(T) \in Nat
      /\ Cardinality(T) <= Cardinality(S \cup {x})
  BY <1>1, Fewer
<1> QED BY <1>a, <1>1, <1>2

(* One element less.                                                       *)
LEMMA OneLess ==
  ASSUME NEW S, NEW T, NEW x \in S, IsFiniteSet(S), T \subseteq S \ {x}
  PROVE  /\ Cardinality(S) \in Nat /\ Cardinality(T) \in Nat
         /\ Cardinality(T) <= Cardinality(S) - 1
<1>1. /\ IsFiniteSet(S \ {x})
      /\ Cardinality(S \ {x}) = Cardinality(S) - 1
  BY FS_RemoveElement
<1>2. /\ Cardinality(S \ {x}) \in Nat /\ Cardinality(T) \in Nat
      /\ Cardinality(T) <= Cardinality(S \ {x})
  BY <1>1, Fewer
<1> QED BY <1>1, <1>2, FS_CardinalityType

(* There are finitely many orphans.                                        *)
LEMMA OrphansFinite == IsFiniteSet(Orphans)
<1>1. Orphans \in SUBSET Schedulers
  BY DEF Orphans
<1> QED BY <1>1, LeaseAssumption, FS_Subset

-----------------------------------------------------------------------------
(***************************************************************************)
(* The four ways a step keeps the books, and the fifth, to leave them.     *)
(***************************************************************************)

(* Nothing is enqueued, and nobody gains a claim.                          *)
LEMMA Unchanged ==
  ASSUME LeaseInv, LeaseTypeOK', Orphans' \subseteq Orphans,
         credit' = credit, Pending' => Pending
  PROVE  LeaseInv'
<1>1. /\ Cardinality(Orphans) \in Nat /\ Cardinality(Orphans') \in Nat
      /\ Cardinality(Orphans') <= Cardinality(Orphans)
  BY OrphansFinite, Fewer
<1>2. Covers(credit', Cardinality(Orphans'), Pending')
  BY <1>1 DEF LeaseInv, LeaseTypeOK, Covers
<1> QED BY <1>2 DEF LeaseInv

(* A new claim of whoever will own the lease is paid for.                  *)
LEMMA Opened ==
  ASSUME LeaseInv, LeaseTypeOK', Orphans' \subseteq Orphans,
         credit' = credit + 1
  PROVE  LeaseInv'
<1>1. /\ Cardinality(Orphans) \in Nat /\ Cardinality(Orphans') \in Nat
      /\ Cardinality(Orphans') <= Cardinality(Orphans)
  BY OrphansFinite, Fewer
<1>2. Covers(credit', Cardinality(Orphans'), Pending')
  BY <1>1 DEF LeaseInv, LeaseTypeOK, Covers
<1> QED BY <1>2 DEF LeaseInv

(* A new orphan is paid for.                                               *)
LEMMA Orphaned ==
  ASSUME LeaseInv, LeaseTypeOK', NEW p, Orphans' \subseteq Orphans \cup {p},
         credit' = credit + 1, Pending' => Pending
  PROVE  LeaseInv'
<1>1. /\ Cardinality(Orphans) \in Nat /\ Cardinality(Orphans') \in Nat
      /\ Cardinality(Orphans') <= Cardinality(Orphans) + 1
  BY OrphansFinite, OneMore
<1>2. Covers(credit', Cardinality(Orphans'), Pending')
  BY <1>1 DEF LeaseInv, LeaseTypeOK, Covers
<1> QED BY <1>2 DEF LeaseInv

(* The owner spends its claim.                                             *)
LEMMA OwnerSpends ==
  ASSUME LeaseInv, LeaseTypeOK', Orphans' \subseteq Orphans,
         credit' = credit - 1, Pending, ~Pending'
  PROVE  LeaseInv'
<1>1. /\ Cardinality(Orphans) \in Nat /\ Cardinality(Orphans') \in Nat
      /\ Cardinality(Orphans') <= Cardinality(Orphans)
  BY OrphansFinite, Fewer
<1>2. Covers(credit', Cardinality(Orphans'), Pending')
  BY <1>1 DEF LeaseInv, LeaseTypeOK, Covers
<1> QED BY <1>2 DEF LeaseInv

(* An orphan spends its own, and is one no more.                           *)
LEMMA OrphanSpends ==
  ASSUME LeaseInv, LeaseTypeOK', NEW p \in Orphans, Orphans' \subseteq Orphans \ {p},
         credit' = credit - 1, Pending' => Pending
  PROVE  LeaseInv'
<1>1. /\ Cardinality(Orphans) \in Nat /\ Cardinality(Orphans') \in Nat
      /\ Cardinality(Orphans') <= Cardinality(Orphans) - 1
  BY OrphansFinite, OneLess
<1>2. Covers(credit', Cardinality(Orphans'), Pending')
  BY <1>1 DEF LeaseInv, LeaseTypeOK, Covers
<1> QED BY <1>2 DEF LeaseInv

-----------------------------------------------------------------------------
(* Types.                                                                  *)
LEMMA LeaseTyped ==
  ASSUME LeaseTypeOK, [LeaseNext]_leaseVars
  PROVE  LeaseTypeOK'
<1> DEFINE Leases == [owner : Schedulers \cup {NoOwner, Gone}, expires : BOOLEAN]
<1>u. Unheld \in Leases
  BY DEF Unheld
<1>l. PICK o \in Schedulers \cup {NoOwner, Gone}, e \in BOOLEAN :
          lease = [owner |-> o, expires |-> e]
  BY DEF LeaseTypeOK
<1>g. ASSUME NEW p \in Schedulers, NEW pc \in ThreadPlaces, Goes(p, pc)
      PROVE  thread' \in [Schedulers -> ThreadPlaces]
  BY <1>g DEF Goes, LeaseTypeOK
<1>b. ASSUME NEW p \in Schedulers, Breaks(p)
      PROVE  broken' \in Nat /\ credit' \in Int
  BY <1>b DEF Breaks, LeaseTypeOK
<1>1. ASSUME NEW p \in Schedulers, TakeLease(p) \/ ReadLease(p) \/ RenewLease(p)
      PROVE  LeaseTypeOK'
  <2>1. thread' \in [Schedulers -> ThreadPlaces]
    BY <1>1, <1>g DEF TakeLease, ReadLease, RenewLease, ThreadPlaces
  <2>2. lease' \in Leases
    <3>1. lease \in Leases
      BY <1>l
    <3>2. [lease EXCEPT !.expires = TRUE] \in Leases
      BY <3>1
    <3>3. [owner |-> p, expires |-> TRUE] \in Leases
      OBVIOUS
    <3> QED
      BY <1>1, <3>1, <3>2, <3>3 DEF TakeLease, ReadLease, RenewLease
  <2> QED BY <1>1, <2>1, <2>2 DEF TakeLease, ReadLease, RenewLease, LeaseTypeOK
<1>2. ASSUME NEW p \in Schedulers,
             CheckDue(p) \/ EnqueueCycle(p) \/ StampEnqueue(p) \/ Restart(p)
      PROVE  LeaseTypeOK'
  <2>1. thread' \in [Schedulers -> ThreadPlaces]
    BY <1>2, <1>g
       DEF CheckDue, EnqueueCycle, StampEnqueue, Restart, ThreadPlaces
  <2> QED
    BY <1>2, <2>1 DEF CheckDue, EnqueueCycle, StampEnqueue, Restart, LeaseTypeOK
<1>3. ASSUME NEW p \in Schedulers, LeaseLostInTurn(p) \/ RedisError(p) \/ Crash(p)
      PROVE  LeaseTypeOK'
  <2>1. thread' \in [Schedulers -> ThreadPlaces]
    BY <1>3, <1>g DEF LeaseLostInTurn, RedisError, Crash, ThreadPlaces, LeaseTypeOK
  <2>2. lease' \in Leases
    BY <1>3, <1>u, <1>l DEF LeaseLostInTurn, RedisError, Crash
  <2>3. broken' \in Nat /\ credit' \in Int
    BY <1>3, <1>b DEF LeaseLostInTurn, RedisError, Crash
  <2> QED
    BY <1>3, <2>1, <2>2, <2>3 DEF LeaseLostInTurn, RedisError, Crash, LeaseTypeOK
<1>4. ASSUME IntervalPasses \/ LeaseLapses
      PROVE  LeaseTypeOK'
  BY <1>4, <1>u DEF IntervalPasses, LeaseLapses, LeaseTypeOK
<1>5. ASSUME UNCHANGED leaseVars
      PROVE  LeaseTypeOK'
  BY <1>5 DEF leaseVars, LeaseTypeOK
<1> QED BY <1>1, <1>2, <1>3, <1>4, <1>5 DEF LeaseNext, SchedulerStep

(* The turn of a thread: what it takes, recognises, renews, enqueues.      *)
LEMMA TurnKeeps ==
  ASSUME LeaseInv, LeaseTypeOK', NEW p \in Schedulers, SchedulerStep(p)
  PROVE  LeaseInv'
<1> USE DEF LeaseTypeOK, Orphans, OwnerAt, Pending, Goes, Unheld
<1>0. LeaseTypeOK
  BY DEF LeaseInv
<1>1. CASE TakeLease(p)
  <2>1. Orphans' \subseteq Orphans /\ credit' = credit
    BY <1>0, <1>1, LeaseAssumption DEF TakeLease
  <2>2. Pending' => Pending
    BY <1>0, <1>1, LeaseAssumption DEF TakeLease
  <2> QED BY <2>1, <2>2, Unchanged
<1>2. CASE ReadLease(p)
  <2>1. Orphans' \subseteq Orphans /\ credit' = credit
    BY <1>0, <1>2 DEF ReadLease
  <2>2. Pending' => Pending
    BY <1>0, <1>2 DEF ReadLease
  <2> QED BY <2>1, <2>2, Unchanged
<1>3. CASE RenewLease(p)
  <2>1. Orphans' \subseteq Orphans /\ credit' = credit
    BY <1>0, <1>3 DEF RenewLease
  <2>2. Pending' => Pending
    BY <1>0, <1>3 DEF RenewLease
  <2> QED BY <2>1, <2>2, Unchanged
<1>4. CASE CheckDue(p)
  <2>1. Orphans' \subseteq Orphans /\ credit' = credit
    BY <1>0, <1>4 DEF CheckDue
  <2>2. Pending' => Pending
    BY <1>0, <1>4 DEF CheckDue
  <2> QED BY <2>1, <2>2, Unchanged
<1>5. CASE EnqueueCycle(p)
  <2>1. CASE lease.owner = p
    <3>1. Orphans' \subseteq Orphans /\ credit' = credit - 1
      BY <1>0, <1>5, <2>1 DEF EnqueueCycle
    <3>2. Pending /\ ~Pending'
      BY <1>0, <1>5, <2>1 DEF EnqueueCycle
    <3> QED BY <3>1, <3>2, OwnerSpends
  <2>2. CASE lease.owner # p
    <3>1. p \in Orphans /\ Orphans' \subseteq Orphans \ {p} /\ credit' = credit - 1
      BY <1>0, <1>5, <2>2 DEF EnqueueCycle
    <3>2. Pending' => Pending
      BY <1>0, <1>5, <2>2 DEF EnqueueCycle
    <3> QED BY <3>1, <3>2, OrphanSpends
  <2> QED BY <2>1, <2>2
<1>6. CASE StampEnqueue(p)
  <2>1. Orphans' \subseteq Orphans /\ credit' = credit
    BY <1>0, <1>6 DEF StampEnqueue
  <2>2. Pending' => Pending
    BY <1>0, <1>6 DEF StampEnqueue
  <2> QED BY <2>1, <2>2, Unchanged
<1> QED BY <1>1, <1>2, <1>3, <1>4, <1>5, <1>6 DEF SchedulerStep

(* A turn or a process that breaks.                                        *)
LEMMA BreakKeeps ==
  ASSUME LeaseInv, LeaseTypeOK', NEW p \in Schedulers,
         LeaseLostInTurn(p) \/ RedisError(p) \/ Crash(p)
  PROVE  LeaseInv'
<1> USE DEF LeaseTypeOK, Orphans, OwnerAt, Pending, Goes, Unheld, Breaks, InTurn
<1>0. LeaseTypeOK
  BY DEF LeaseInv
<1>1. CASE LeaseLostInTurn(p)
  <2>1. credit' = credit + 1 /\ lease.owner = p /\ lease'.owner = NoOwner
    BY <1>1 DEF LeaseLostInTurn
  <2>2. CASE thread[p] = "stamp"
    <3>1. Orphans' \subseteq Orphans
      BY <1>0, <1>1, <2>1, <2>2 DEF LeaseLostInTurn
    <3> QED BY <2>1, <3>1, Opened
  <2>3. CASE thread[p] # "stamp"
    <3>1. Orphans' \subseteq Orphans \cup {p}
      BY <1>0, <1>1, <2>1 DEF LeaseLostInTurn
    <3>2. Pending' => Pending
      BY <1>0, <1>1, <2>1, <2>3, LeaseAssumption DEF LeaseLostInTurn
    <3> QED BY <2>1, <3>1, <3>2, Orphaned
  <2> QED BY <2>2, <2>3
<1>2. CASE RedisError(p)
  <2>1. Orphans' \subseteq Orphans
    BY <1>0, <1>2 DEF RedisError
  <2>2. CASE InTurn(p)
    <3>1. credit' = credit + 1
      BY <1>2, <2>2 DEF RedisError
    <3> QED BY <2>1, <3>1, Opened
  <2>3. CASE ~InTurn(p)
    <3>1. credit' = credit
      BY <1>2, <2>3 DEF RedisError
    <3>2. Pending' => Pending
      BY <1>0, <1>2, <2>3 DEF RedisError
    <3> QED BY <2>1, <3>1, <3>2, Unchanged
  <2> QED BY <2>2, <2>3
<1>3. CASE Crash(p)
  <2>1. Orphans' \subseteq Orphans
    BY <1>0, <1>3 DEF Crash
  <2>2. CASE InTurn(p)
    <3>1. credit' = credit + 1
      BY <1>3, <2>2 DEF Crash
    <3> QED BY <2>1, <3>1, Opened
  <2>3. CASE ~InTurn(p)
    <3>1. credit' = credit
      BY <1>3, <2>3 DEF Crash
    <3>2. Pending' => Pending
      BY <1>0, <1>3, <2>3, LeaseAssumption DEF Crash
    <3> QED BY <2>1, <3>1, <3>2, Unchanged
  <2> QED BY <2>2, <2>3
<1> QED BY <1>1, <1>2, <1>3

(* Time, and a process that is started again.                              *)
LEMMA TimeKeeps ==
  ASSUME LeaseInv, LeaseTypeOK',
         IntervalPasses \/ LeaseLapses \/ \E p \in Schedulers : Restart(p)
  PROVE  LeaseInv'
<1> USE DEF LeaseTypeOK, Orphans, OwnerAt, Pending, Goes, Unheld
<1>0. LeaseTypeOK
  BY DEF LeaseInv
<1>1. CASE IntervalPasses
  BY <1>1, Opened DEF IntervalPasses
<1>2. CASE LeaseLapses
  <2>1. Orphans' \subseteq Orphans /\ credit' = credit
    BY <1>0, <1>2, LeaseAssumption DEF LeaseLapses, InTurn
  <2>2. Pending' => Pending
    BY <1>0, <1>2, LeaseAssumption DEF LeaseLapses, InTurn
  <2> QED BY <2>1, <2>2, Unchanged
<1>3. ASSUME NEW p \in Schedulers, Restart(p)
      PROVE  LeaseInv'
  <2>1. Orphans' \subseteq Orphans /\ credit' = credit
    BY <1>0, <1>3 DEF Restart
  <2>2. Pending' => Pending
    BY <1>0, <1>3 DEF Restart
  <2> QED BY <2>1, <2>2, Unchanged
<1> QED BY <1>1, <1>2, <1>3

-----------------------------------------------------------------------------
(* For any number of worker processes, crashes, Redis errors and lost      *)
(* leases, every cycle enqueued is owed to an interval or to one of those  *)
(* (worker.py, the scheduler loops).                                       *)
THEOREM NoCycleUnowed == LeaseSpec => []CyclesAreOwed
<1>1. LeaseInit => LeaseInv
  <2> SUFFICES ASSUME LeaseInit PROVE LeaseInv
    OBVIOUS
  <2>1. LeaseTypeOK /\ Orphans = {}
    BY DEF LeaseInit, LeaseTypeOK, ThreadPlaces, Unheld, Orphans
  <2>2. Pending => credit = 1
    BY DEF LeaseInit, Pending, OwnerAt
  <2>3. Cardinality(Orphans) = 0
    BY <2>1, FS_EmptySet
  <2>4. credit \in {0, 1}
    BY DEF LeaseInit
  <2> QED BY <2>1, <2>2, <2>3, <2>4 DEF LeaseInv, Covers
<1>2. LeaseInv /\ [LeaseNext]_leaseVars => LeaseInv'
  <2> SUFFICES ASSUME LeaseInv, [LeaseNext]_leaseVars PROVE LeaseInv'
    OBVIOUS
  <2>1. LeaseTypeOK'
    BY LeaseTyped DEF LeaseInv
  <2>2. CASE LeaseNext
    BY <2>1, <2>2, TurnKeeps, BreakKeeps, TimeKeeps DEF LeaseNext
  <2>3. CASE UNCHANGED leaseVars
    BY <2>3 DEF leaseVars, LeaseInv, LeaseTypeOK, Orphans, Pending, OwnerAt
  <2> QED BY <2>2, <2>3
<1>3. LeaseInv => CyclesAreOwed
  <2> SUFFICES ASSUME LeaseInv PROVE CyclesAreOwed
    OBVIOUS
  <2>1. Cardinality(Orphans) \in Nat
    BY OrphansFinite, FS_CardinalityType
  <2> QED BY <2>1 DEF LeaseInv, LeaseTypeOK, Covers, CyclesAreOwed
<1> QED BY <1>1, <1>2, <1>3, PTL DEF LeaseSpec
=============================================================================
