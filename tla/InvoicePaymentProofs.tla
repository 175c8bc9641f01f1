------------------------ MODULE InvoicePaymentProofs ------------------------
(***************************************************************************)
(* Theorems about InvoicePayment, for every number of invoices, calls and  *)
(* interruptions and for either provider.                                  *)
(*                                                                         *)
(* The order of the attempts and the transactions' copies of the rows are  *)
(* taken by lemmas on constants, so that they serve before a step and      *)
(* after it.                                                               *)
(***************************************************************************)
EXTENDS InvoicePayment, BillingLifecycleProofs, FiniteSetTheorems,
        SequenceTheorems, WellFoundedInduction, TLAPS

-----------------------------------------------------------------------------
(***************************************************************************)
(* The bookkeeping invariant: types, the order of the attempts, what the   *)
(* transactions hold at each of their steps, and what the provider sent.   *)
(***************************************************************************)
AttemptRows == [invoice : Invoices, status : AttemptStatuses]
OnRows == {"fetched", "locked"}
OnHook == {"received", "context", "applied", "answer"}

Typed ==
    /\ erp \in [Invoices -> {"open", "paid", "credited"}]
    /\ invoice \in [Invoices -> RowStatuses]
    /\ attempts \in Seq(AttemptRows)
    /\ recent \in Seq(AttemptIds)
    /\ checkout \in [AttemptIds -> {"none", "open", "declined", "paid"}]
    /\ mail \in [Notices -> {"none", "due", "acked"}]
    /\ outbox \in [ProviderEvents -> {"none", "processing", "failed",
                                      "processed"}]
    /\ tenant \in TenantStatuses
    /\ sub \in SubscriptionStatuses
    /\ tx \in [Agents -> Transactions]
    /\ faults \in 0 .. MaxFaults

(* recent lists every attempt once. *)
Listed(r, n) ==
    /\ Len(r) = n
    /\ {r[k] : k \in 1 .. Len(r)} = 1 .. n
    /\ \A k, m \in 1 .. Len(r) : r[k] = r[m] => k = m

(* An attempt was made by a call that is over. *)
Finished == {c \in Payers : tx[c].pc = "done"}
Counted == Len(attempts) <= Cardinality(Finished)

(* Transaction x of agent t, over rows of its own, when the attempts are   *)
(* those of list.                                                          *)
RowsFormed(t, x, list) ==
    /\ t # "hook"
    /\ x.inv \in x.touched
    /\ x.row \in [x.touched -> RowStatuses]
    /\ x.view \in [x.touched -> RowStatuses]
    /\ \/ x.op = "pay" /\ x.touched = {x.inv} /\ t \in Payers
       \/ x.op = "view" /\ x.touched = Invoices /\ x.pc = "fetched"
       \/ /\ x.op = "reconcile" /\ t \notin Payers
          /\ x.tenant \in TenantStatuses
          /\ x.pc = "locked" =>
                \/ x.att = NoAttempt /\ x.was = "none"
                \/ /\ x.att \in 1 .. Len(list) /\ x.was \in AttemptStatuses
                   /\ list[x.att].invoice = x.inv

(* The same of a webhook. *)
HookFormed(t, x, list) ==
    /\ t = "hook"
    /\ x.event \in ProviderEvents /\ x.event[2] \in 1 .. Len(list)
    /\ EventType(x.event) = "confirm" => Provider = "dpo"
    /\ x.pc = "context" =>
          /\ x.att \in 1 .. Len(list) /\ x.inv = list[x.att].invoice
          /\ x.row \in [{x.inv} -> RowStatuses]
          /\ x.view \in [{x.inv} -> RowStatuses]
          /\ x.was \in AttemptStatuses
          /\ x.tenant \in TenantStatuses
          /\ Provider = "dpo" => x.att = x.event[2]

Formed(t, x, list) ==
    /\ x.pc = "done" => x = Done
    /\ x.pc \in OnRows => RowsFormed(t, x, list)
    /\ x.pc \in OnHook => HookFormed(t, x, list)

(* The notice in hand is due, and what is read as a confirmation follows a *)
(* payment.                                                                *)
InHand(x) ==
    x.pc \in OnHook =>
        /\ mail[Notice(x.event)] = "due"
        /\ EventType(x.event) = "confirm" => checkout[x.event[2]] = "paid"

(* A page belongs to an attempt, a notice to a page, an event to a notice; *)
(* a confirmation follows a payment.                                       *)
Posted ==
    /\ \A a \in AttemptIds : checkout[a] # "none" => a \in Attempts
    /\ \A n \in Notices : mail[n] # "none" => checkout[n[2]] # "none"
    /\ \A a \in AttemptIds :
           mail[<<"confirm", a>>] # "none" => checkout[a] = "paid"
    /\ \A e \in ProviderEvents : outbox[e] # "none" => mail[Notice(e)] # "none"
    /\ InHand(tx["hook"])
    /\ \A a \in AttemptIds :
           mail[<<"confirm", a>>] = "acked"
             \/ outbox[<<"confirm", a>>] # "none" => Provider = "dpo"

Bookkeeping ==
    /\ Typed
    /\ Listed(recent, Len(attempts))
    /\ Counted
    /\ \A t \in Agents : Formed(t, tx[t], attempts)
    /\ Posted

(***************************************************************************)
(* PaidTellsTruth: what a transaction read or was told is true as well.    *)
(***************************************************************************)
Truth(i) == erp[i] = "paid" \/ PaidFor(i) # {}

(* A copy of rows says paid of an invoice for which there is a reason. *)
Reads(x) ==
    x.pc \in OnRows \cup {"context"} =>
        \A j \in Invoices :
            /\ j \in DOMAIN x.row /\ x.row[j] = "paid" => Truth(j)
            /\ j \in DOMAIN x.view /\ x.view[j] = "paid" => Truth(j)

TruthInv ==
    /\ Bookkeeping
    /\ PaidTellsTruth
    /\ \A t \in Agents : Reads(tx[t])

(***************************************************************************)
(* AckedIsBooked: a confirmation that was handled left its attempt booked. *)
(***************************************************************************)
Booked(a) == attempts[a].status \in {"paid", "reconciliation_required"}

Handled(a) ==
    \/ mail[<<"confirm", a>>] = "acked"
    \/ outbox[<<"confirm", a>>] = "processed"

Confirmed(a) ==
    \/ Handled(a)
    \/ /\ tx["hook"].pc \in {"applied", "answer"}
       /\ tx["hook"].event = <<"confirm", a>>
    \/ /\ tx["hook"].pc = "context" /\ tx["hook"].att = a
       /\ tx["hook"].was = "paid"

(* What the provider calls a failure was no payment when it was asked, and *)
(* no confirmation overtakes the failure being handled.                    *)
Declining(a) ==
    /\ tx["hook"].pc \in {"received", "context"}
    /\ tx["hook"].event = <<"fail", a>>

BookedInv ==
    /\ Bookkeeping
    /\ Provider = "dpo" =>
           /\ \A a \in AttemptIds : Declining(a) => ~Handled(a)
           /\ \A a \in Attempts : Confirmed(a) => Booked(a)

(***************************************************************************)
(* OpensAfterTheLast: row locks keep the check of a call true.             *)
(***************************************************************************)
Quiet(i) == Latest(i) = NoAttempt \/ ~Active(Latest(i))
Checked(t) == tx[t].pc = "locked" /\ tx[t].op = "pay" => Quiet(tx[t].inv)

LockInv ==
    /\ Bookkeeping
    /\ \A t, u \in Agents : t # u => Held(t) \cap Held(u) = {}
    /\ tx["hook"].pc = "context" /\ tx["hook"].was # "checkout_started" =>
           ~Active(tx["hook"].att)
    /\ \A t \in Agents : Checked(t)

-----------------------------------------------------------------------------
(***************************************************************************)
(* The order of the attempts (recent, payment_attempts.updated_at).        *)
(***************************************************************************)
LastAmong(r, S) ==
    LET places == {k \in 1 .. Len(r) : r[k] \in S}
    IN  IF places = {} THEN NoAttempt
        ELSE r[CHOOSE k \in places : \A m \in places : m <= k]

PlaceIn(r, a) == CHOOSE k \in 1 .. Len(r) : r[k] = a
Moved(r, a) ==
    [k \in 1 .. Len(r) |-> IF k = Len(r) THEN a
                           ELSE IF k < PlaceIn(r, a) THEN r[k] ELSE r[k + 1]]

(* A set of places of a list that is not empty has a last one (order_by    *)
(* updated_at desc finds a row if there is one).                           *)
LEMMA LastPlace ==
    ASSUME NEW n \in Nat, NEW S \in SUBSET (1 .. n), S # {}
    PROVE  \E k \in S : \A m \in S : m <= k
<1> DEFINE D == {d \in Nat : \E k \in S : d = n - k}
<1>1. PICK s \in S : TRUE
  OBVIOUS
<1>2. n - s \in D
  BY <1>1
<1>3. PICK d \in D : \A c \in D : <<c, d>> \notin OpToRel(<, Nat)
  <2>1. D \subseteq Nat /\ D # {}
    BY <1>2
  <2> QED  BY <2>1, WFMin, NatLessThanWellFounded
<1>4. \A c \in D : ~(c < d)
  BY <1>3 DEF OpToRel
<1>5. PICK k \in S : d = n - k
  OBVIOUS
<1>6. ASSUME NEW m \in S
      PROVE  m <= k
  <2>1. n - m \in D
    OBVIOUS
  <2>2. ~(n - m < n - k)
    BY <2>1, <1>4, <1>5
  <2> QED  BY <2>2
<1> QED  BY <1>6

(* The entry of S that comes last is the one found.                        *)
LEMMA LastAmongIs ==
    ASSUME NEW T, NEW r \in Seq(T), NEW S, NEW k \in 1 .. Len(r), r[k] \in S,
           \A m \in 1 .. Len(r) : r[m] \in S => m <= k
    PROVE  LastAmong(r, S) = r[k]
<1> DEFINE P == {m \in 1 .. Len(r) : r[m] \in S}
           c == CHOOSE m \in P : \A l \in P : l <= m
<1>1. k \in P /\ \A m \in P : m <= k
  OBVIOUS
<1>2. c \in P /\ \A l \in P : l <= c
  BY <1>1
<1>3. c = k
  <2>1. c <= k /\ k <= c
    BY <1>1, <1>2
  <2>2. c \in Nat /\ k \in Nat
    BY <1>2
  <2> QED  BY <2>1, <2>2
<1>4. LastAmong(r, S) = r[c]
  BY <1>1 DEF LastAmong
<1> QED  BY <1>3, <1>4

(* Nothing of S listed, nothing found.                                     *)
LEMMA LastAmongNone ==
    ASSUME NEW r, NEW S, \A m \in 1 .. Len(r) : r[m] \notin S
    PROVE  LastAmong(r, S) = NoAttempt
BY DEF LastAmong

(* What is found is the last entry of S there is (Latest).                 *)
LEMMA LastAmongFound ==
    ASSUME NEW T, NEW r \in Seq(T), NEW S
    PROVE  \/ /\ \A m \in 1 .. Len(r) : r[m] \notin S
              /\ LastAmong(r, S) = NoAttempt
           \/ \E k \in 1 .. Len(r) :
                 /\ r[k] \in S /\ LastAmong(r, S) = r[k]
                 /\ \A m \in 1 .. Len(r) : r[m] \in S => m <= k
<1> DEFINE P == {m \in 1 .. Len(r) : r[m] \in S}
<1>1. CASE P = {}
  BY <1>1, LastAmongNone
<1>2. CASE P # {}
  <2>1. Len(r) \in Nat /\ P \in SUBSET (1 .. Len(r))
    OBVIOUS
  <2>2. PICK k \in P : \A m \in P : m <= k
    BY <1>2, <2>1, LastPlace
  <2>3. /\ k \in 1 .. Len(r) /\ r[k] \in S
        /\ \A m \in 1 .. Len(r) : r[m] \in S => m <= k
    BY <2>2
  <2>4. LastAmong(r, S) = r[k]
    BY <2>3, LastAmongIs
  <2> QED  BY <2>3, <2>4
<1> QED  BY <1>1, <1>2

(* Only which of the listed attempts are asked for matters.                *)
LEMMA LastAmongSame ==
    ASSUME NEW T, NEW r \in Seq(T), NEW S, NEW U,
           \A m \in 1 .. Len(r) : r[m] \in S <=> r[m] \in U
    PROVE  LastAmong(r, S) = LastAmong(r, U)
<1> DEFINE A == {k \in 1 .. Len(r) : r[k] \in S}
           B == {k \in 1 .. Len(r) : r[k] \in U}
<1>1. \A k : k \in A <=> k \in B
  OBVIOUS
<1>2. A = B
  <2> HIDE DEF A, B
  <2> QED  BY <1>1, SetExtensionality
<1>3. LastAmong(r, S) = IF A = {} THEN NoAttempt
                        ELSE r[CHOOSE k \in A : \A m \in A : m <= k]
  BY DEF LastAmong
<1>4. LastAmong(r, U) = IF B = {} THEN NoAttempt
                        ELSE r[CHOOSE k \in B : \A m \in B : m <= k]
  BY DEF LastAmong
<1> QED
  <2> HIDE DEF A, B
  <2> QED  BY <1>2, <1>3, <1>4

(* A new attempt comes last (create_payment_attempt_for_invoice).          *)
LEMMA LastAmongAppended ==
    ASSUME NEW T, NEW r \in Seq(T), NEW S, NEW b \in T
    PROVE  LastAmong(Append(r, b), S) =
               IF b \in S THEN b ELSE LastAmong(r, S)
<1> DEFINE q == Append(r, b)
<1>1. /\ q \in Seq(T) /\ Len(q) = Len(r) + 1 /\ q[Len(r) + 1] = b
      /\ Len(r) \in Nat
      /\ \A k \in 1 .. Len(r) : q[k] = r[k]
  OBVIOUS
<1> HIDE DEF q
<1>2. \A m \in 1 .. Len(q) : m \in 1 .. Len(r) \/ m = Len(r) + 1
  BY <1>1
<1>3. CASE b \in S
  <2>1. Len(q) \in 1 .. Len(q) /\ q[Len(q)] \in S
    BY <1>1, <1>3
  <2>2. \A m \in 1 .. Len(q) : q[m] \in S => m <= Len(q)
    BY <1>1
  <2>3. LastAmong(q, S) = q[Len(q)]
    BY <1>1, <2>1, <2>2, LastAmongIs
  <2> QED  BY <2>3, <1>1, <1>3 DEF q
<1>4. CASE b \notin S
  <2>1. CASE /\ \A m \in 1 .. Len(r) : r[m] \notin S
             /\ LastAmong(r, S) = NoAttempt
    <3>1. \A m \in 1 .. Len(q) : q[m] \notin S
      BY <1>1, <1>2, <1>4, <2>1
    <3> QED  BY <3>1, <2>1, <1>4, LastAmongNone DEF q
  <2>2. CASE \E k \in 1 .. Len(r) :
                 /\ r[k] \in S /\ LastAmong(r, S) = r[k]
                 /\ \A m \in 1 .. Len(r) : r[m] \in S => m <= k
    <3>1. PICK k \in 1 .. Len(r) :
                 /\ r[k] \in S /\ LastAmong(r, S) = r[k]
                 /\ \A m \in 1 .. Len(r) : r[m] \in S => m <= k
      BY <2>2
    <3>2. k \in 1 .. Len(q) /\ q[k] = r[k]
      BY <1>1
    <3>3. \A m \in 1 .. Len(q) : q[m] \in S => m <= k
      BY <1>1, <1>2, <1>4, <3>1
    <3>4. LastAmong(q, S) = q[k]
      BY <1>1, <3>1, <3>2, <3>3, LastAmongIs
    <3> QED  BY <3>1, <3>2, <3>4, <1>4 DEF q
  <2> QED  BY <2>1, <2>2, LastAmongFound
<1> QED  BY <1>3, <1>4

(* Moving an attempt to the end keeps the list: the entries before its     *)
(* place stay, those after it come one earlier (an update sets             *)
(* payment_attempts.updated_at).                                           *)
LEMMA MovedEntries ==
    ASSUME NEW T, NEW r \in Seq(T), NEW n, Listed(r, n), NEW a \in 1 .. n
    PROVE  /\ PlaceIn(r, a) \in 1 .. Len(r) /\ r[PlaceIn(r, a)] = a
           /\ Moved(r, a) \in Seq(T) /\ Len(Moved(r, a)) = Len(r)
           /\ Moved(r, a)[Len(r)] = a
           /\ \A k \in 1 .. Len(r) : k < PlaceIn(r, a) => Moved(r, a)[k] = r[k]
           /\ \A k \in 1 .. Len(r) :
                  k > PlaceIn(r, a) => Moved(r, a)[k - 1] = r[k]
<1> DEFINE p == PlaceIn(r, a)
           q == Moved(r, a)
           L == Len(r)
<1>1. \E k \in 1 .. L : r[k] = a
  BY DEF Listed
<1>2. p \in 1 .. L /\ r[p] = a
  BY <1>1 DEF PlaceIn
<1>3. L \in Nat /\ r \in [1 .. L -> T]
  OBVIOUS
<1>4. q = [k \in 1 .. L |-> IF k = L THEN a
                           ELSE IF k < p THEN r[k] ELSE r[k + 1]]
  BY DEF Moved
<1>5. q \in Seq(T) /\ Len(q) = L
  <2> HIDE DEF p, q, L
  <2>1. ASSUME NEW k \in 1 .. L
        PROVE  (IF k = L THEN a ELSE IF k < p THEN r[k] ELSE r[k + 1]) \in T
    <3>1. CASE k = L
      BY <3>1, <1>2, <1>3
    <3>2. CASE k # L
      <4>1. k + 1 \in 1 .. L
        BY <3>2, <1>3
      <4> QED  BY <3>2, <4>1, <1>3
    <3> QED  BY <3>1, <3>2
  <2>2. q \in [1 .. L -> T]
    BY <2>1, <1>4
  <2> QED  BY <2>2, <1>3
<1> HIDE DEF p, q, L
<1>6. L \in 1 .. L
  BY <1>2, <1>3
<1>7. q[L] = a
  BY <1>4, <1>6
<1>8. ASSUME NEW k \in 1 .. L, k < p
      PROVE  q[k] = r[k]
  <2>1. k # L
    BY <1>2, <1>3, <1>8
  <2> QED  BY <2>1, <1>4, <1>8
<1>9. ASSUME NEW k \in 1 .. L, k > p
      PROVE  q[k - 1] = r[k]
  <2>1. k - 1 \in 1 .. L /\ k - 1 # L /\ ~(k - 1 < p)
    BY <1>2, <1>3, <1>9
  <2>2. (k - 1) + 1 = k
    BY <1>3
  <2> QED  BY <2>1, <2>2, <1>4
<1> QED  BY <1>2, <1>5, <1>7, <1>8, <1>9 DEF p, q, L

(* Every entry of the list moved is one of the list, found one place later *)
(* from the place of the attempt on, and the moved one at the end.         *)
LEMMA MovedFrom ==
    ASSUME NEW T, NEW r \in Seq(T), NEW n, Listed(r, n), NEW a \in 1 .. n,
           NEW k \in 1 .. Len(r)
    PROVE  \/ k = Len(r) /\ Moved(r, a)[k] = a
           \/ k < Len(r) /\ k < PlaceIn(r, a) /\ Moved(r, a)[k] = r[k]
           \/ /\ k < Len(r) /\ k >= PlaceIn(r, a) /\ k + 1 \in 1 .. Len(r)
              /\ Moved(r, a)[k] = r[k + 1]
<1>1. Len(r) \in Nat /\ PlaceIn(r, a) \in 1 .. Len(r)
  BY MovedEntries
<1>2. Moved(r, a)[k] = IF k = Len(r) THEN a
                       ELSE IF k < PlaceIn(r, a) THEN r[k] ELSE r[k + 1]
  BY DEF Moved
<1>3. k # Len(r) => k < Len(r) /\ k + 1 \in 1 .. Len(r)
  BY <1>1
<1> QED  BY <1>1, <1>2, <1>3

(* The list moved still lists every attempt once.                          *)
LEMMA MovedListed ==
    ASSUME NEW T, NEW r \in Seq(T), NEW n, Listed(r, n), NEW a \in 1 .. n
    PROVE  Listed(Moved(r, a), n)
<1> DEFINE p == PlaceIn(r, a)
           q == Moved(r, a)
           L == Len(r)
<1>1. /\ p \in 1 .. L /\ r[p] = a /\ q \in Seq(T) /\ Len(q) = L /\ q[L] = a
      /\ \A k \in 1 .. L : k < p => q[k] = r[k]
      /\ \A k \in 1 .. L : k > p => q[k - 1] = r[k]
  BY MovedEntries
<1>2. \A k \in 1 .. L : \/ k = L /\ q[k] = a
                        \/ k < L /\ k < p /\ q[k] = r[k]
                        \/ k < L /\ k >= p /\ k + 1 \in 1 .. L /\ q[k] = r[k + 1]
  BY MovedFrom
<1>3. /\ L = n /\ {r[k] : k \in 1 .. L} = 1 .. n
      /\ \A k, m \in 1 .. L : r[k] = r[m] => k = m
  BY DEF Listed
<1>4. L \in Nat
  OBVIOUS
<1> HIDE DEF p, q, L
<1>5. ASSUME NEW k \in 1 .. L
      PROVE  q[k] \in 1 .. n
  <2>1. \A m \in 1 .. L : r[m] \in 1 .. n
    BY <1>3
  <2> QED  BY <2>1, <1>2
<1>6. ASSUME NEW b \in 1 .. n
      PROVE  \E k \in 1 .. L : q[k] = b
  <2>1. PICK m \in 1 .. L : r[m] = b
    BY <1>3
  <2>2. CASE m < p
    BY <2>1, <2>2, <1>1
  <2>3. CASE m = p
    <3>1. L \in 1 .. L
      BY <1>1, <1>4
    <3> QED  BY <2>1, <2>3, <3>1, <1>1
  <2>4. CASE m > p
    <3>1. m - 1 \in 1 .. L
      BY <2>4, <1>1, <1>4
    <3> QED  BY <2>1, <2>4, <3>1, <1>1
  <2> QED  BY <2>2, <2>3, <2>4, <1>1, <1>4
<1>7. {q[k] : k \in 1 .. L} = 1 .. n
  <2>1. \A b : b \in {q[k] : k \in 1 .. L} <=> b \in 1 .. n
    BY <1>5, <1>6
  <2> QED  BY <2>1, SetExtensionality
<1>8. ASSUME NEW k \in 1 .. L, NEW m \in 1 .. L, q[k] = q[m], k < m
      PROVE  FALSE
  <2>1. k < L
    BY <1>8, <1>4
  <2>2. PICK i \in 1 .. L : /\ q[k] = r[i] /\ i # p
                            /\ i = IF k < p THEN k ELSE k + 1
    BY <2>1, <1>1, <1>2, <1>4
  <2>3. CASE m = L
    <3>1. r[i] = r[p]
      BY <2>2, <2>3, <1>1, <1>8
    <3> QED  BY <3>1, <2>2, <1>1, <1>3
  <2>4. CASE m < L
    <3>1. PICK j \in 1 .. L : /\ q[m] = r[j]
                              /\ j = IF m < p THEN m ELSE m + 1
      BY <2>4, <1>1, <1>2, <1>4
    <3>2. i = j
      BY <3>1, <2>2, <1>8, <1>3
    <3> QED  BY <3>1, <3>2, <2>2, <1>8, <1>1, <1>4
  <2> QED  BY <2>3, <2>4, <1>4
<1>9. \A k, m \in 1 .. L : q[k] = q[m] => k = m
  <2>1. \A k, m \in 1 .. L : k < m \/ m < k \/ k = m
    BY <1>4
  <2> QED  BY <2>1, <1>8
<1>10. Len(q) = n
  BY <1>1, <1>3
<1>11. {q[k] : k \in 1 .. Len(q)} = 1 .. n
  BY <1>7, <1>1
<1> QED  BY <1>9, <1>10, <1>11, <1>1 DEF Listed, q

(* The attempt moved is the last one of those it is among; without it      *)
(* nothing has changed.                                                    *)
LEMMA LastAmongMoved ==
    ASSUME NEW T, NEW r \in Seq(T), NEW n, Listed(r, n), NEW a \in 1 .. n,
           NEW S
    PROVE  LastAmong(Moved(r, a), S) = IF a \in S THEN a ELSE LastAmong(r, S)
<1> DEFINE p == PlaceIn(r, a)
           q == Moved(r, a)
           L == Len(r)
<1>1. /\ p \in 1 .. L /\ r[p] = a /\ q \in Seq(T) /\ Len(q) = L /\ q[L] = a
      /\ \A k \in 1 .. L : k < p => q[k] = r[k]
      /\ \A k \in 1 .. L : k > p => q[k - 1] = r[k]
  BY MovedEntries
<1>2. \A k \in 1 .. L : \/ k = L /\ q[k] = a
                        \/ k < L /\ k < p /\ q[k] = r[k]
                        \/ k < L /\ k >= p /\ k + 1 \in 1 .. L /\ q[k] = r[k + 1]
  BY MovedFrom
<1>3. L \in Nat
  OBVIOUS
<1> HIDE DEF p, q
<1>4. CASE a \in S
  <2>1. L \in 1 .. Len(q) /\ q[L] \in S /\ \A m \in 1 .. Len(q) : m <= L
    BY <1>1, <1>3, <1>4
  <2> HIDE DEF L
  <2>2. LastAmong(q, S) = q[L]
    BY <1>1, <2>1, LastAmongIs
  <2> QED  BY <2>2, <1>1, <1>4 DEF q
<1>5. CASE a \notin S
  <2>1. CASE /\ \A m \in 1 .. L : r[m] \notin S
             /\ LastAmong(r, S) = NoAttempt
    <3>1. \A m \in 1 .. Len(q) : q[m] \notin S
      BY <2>1, <1>1, <1>2, <1>5
    <3>2. LastAmong(q, S) = NoAttempt
      BY <3>1, LastAmongNone
    <3> QED  BY <2>1, <3>2, <1>5 DEF q
  <2>2. CASE \E k \in 1 .. L : /\ r[k] \in S /\ LastAmong(r, S) = r[k]
                               /\ \A m \in 1 .. L : r[m] \in S => m <= k
    <3>1. PICK k \in 1 .. L : /\ r[k] \in S /\ LastAmong(r, S) = r[k]
                              /\ \A m \in 1 .. L : r[m] \in S => m <= k
      BY <2>2
    <3> HIDE DEF L
    <3>2. k # p
      BY <3>1, <1>1, <1>5
    <3>3. PICK c \in 1 .. L : q[c] = r[k] /\ c = IF k < p THEN k ELSE k - 1
      BY <3>2, <1>1, <1>3
    <3>4. ASSUME NEW m \in 1 .. L, q[m] \in S
          PROVE  m <= c
      <4>1. CASE m < L /\ m < p /\ q[m] = r[m]
        BY <4>1, <3>1, <3>3, <3>4, <1>1, <1>3
      <4>2. CASE m < L /\ m >= p /\ m + 1 \in 1 .. L /\ q[m] = r[m + 1]
        <5>1. m + 1 <= k
          BY <4>2, <3>1, <3>4
        <5> QED  BY <5>1, <4>2, <3>3, <1>1, <1>3
      <4>3. CASE m = L /\ q[m] = a
        BY <4>3, <3>4, <1>5
      <4> QED  BY <4>1, <4>2, <4>3, <1>2
    <3>5. c \in 1 .. Len(q) /\ q[c] \in S
      BY <3>1, <3>3, <1>1
    <3>6. \A m \in 1 .. Len(q) : q[m] \in S => m <= c
      BY <3>4, <1>1
    <3>7. LastAmong(q, S) = q[c]
      BY <1>1, <3>5, <3>6, LastAmongIs
    <3> QED  BY <3>1, <3>3, <3>7, <1>5 DEF q
  <2> QED  BY <2>1, <2>2, LastAmongFound
<1> QED  BY <1>4, <1>5

(* A list with a new attempt at the end lists every attempt once.          *)
LEMMA AppendedListed ==
    ASSUME NEW T, NEW r \in Seq(T), NEW n \in Nat, Listed(r, n), n + 1 \in T
    PROVE  Listed(Append(r, n + 1), n + 1)
<1> DEFINE q == Append(r, n + 1)
<1>1. /\ q \in Seq(T) /\ Len(q) = n + 1 /\ q[n + 1] = n + 1
      /\ \A k \in 1 .. n : q[k] = r[k]
  BY DEF Listed
<1>2. /\ Len(r) = n /\ {r[k] : k \in 1 .. n} = 1 .. n
      /\ \A k, m \in 1 .. n : r[k] = r[m] => k = m
  BY DEF Listed
<1> HIDE DEF q
<1>3. \A k \in 1 .. n + 1 : k \in 1 .. n \/ k = n + 1
  OBVIOUS
<1>4. \A k \in 1 .. n : r[k] \in 1 .. n
  BY <1>2
<1>5. ASSUME NEW b \in 1 .. n + 1
      PROVE  \E k \in 1 .. n + 1 : q[k] = b
  <2>1. CASE b = n + 1
    BY <2>1, <1>1
  <2>2. CASE b \in 1 .. n
    <3>1. PICK k \in 1 .. n : r[k] = b
      BY <2>2, <1>2
    <3> QED  BY <3>1, <1>1
  <2> QED  BY <2>1, <2>2, <1>3
<1>6. \A k \in 1 .. n + 1 : q[k] \in 1 .. n + 1
  <2>1. \A k \in 1 .. n : q[k] \in 1 .. n
    BY <1>1, <1>4
  <2> QED  BY <2>1, <1>1, <1>3
<1>7. {q[k] : k \in 1 .. Len(q)} = 1 .. n + 1
  <2>1. \A b : b \in {q[k] : k \in 1 .. n + 1} <=> b \in 1 .. n + 1
    BY <1>5, <1>6
  <2>2. {q[k] : k \in 1 .. n + 1} = 1 .. n + 1
    BY <2>1, SetExtensionality
  <2> QED  BY <2>2, <1>1
<1>8. ASSUME NEW k \in 1 .. n + 1, NEW m \in 1 .. n + 1, q[k] = q[m]
      PROVE  k = m
  <2>1. CASE k \in 1 .. n /\ m \in 1 .. n
    BY <2>1, <1>1, <1>2, <1>8
  <2>2. CASE k = n + 1 /\ m \in 1 .. n
    BY <2>2, <1>1, <1>4, <1>8
  <2>3. CASE k \in 1 .. n /\ m = n + 1
    BY <2>3, <1>1, <1>4, <1>8
  <2> QED  BY <2>1, <2>2, <2>3, <1>3
<1> QED  BY <1>1, <1>7, <1>8 DEF Listed, q

(* The two operators of the model, on the list of the state.               *)
LEMMA OnRecent ==
    /\ \A S : LatestIn(S) = LastAmong(recent, S)
    /\ \A a : Touch(a) = Moved(recent, a)
BY DEF LatestIn, LastAmong, Touch, Moved, Place, PlaceIn

(* Latest is a listed attempt of the invoice, or there is none.            *)
LEMMA LatestListed ==
    ASSUME recent \in Seq(AttemptIds), Listed(recent, Len(attempts)),
           NEW i
    PROVE  \/ /\ Latest(i) = NoAttempt
              /\ \A a \in Attempts : attempts[a].invoice # i
           \/ /\ Latest(i) \in Attempts
              /\ attempts[Latest(i)].invoice = i
<1> DEFINE S == {a \in Attempts : attempts[a].invoice = i}
<1>1. Latest(i) = LastAmong(recent, S)
  BY OnRecent DEF Latest
<1>2. {recent[k] : k \in 1 .. Len(recent)} = Attempts
  BY DEF Listed, Attempts
<1>3. CASE /\ \A m \in 1 .. Len(recent) : recent[m] \notin S
           /\ LastAmong(recent, S) = NoAttempt
  <2>1. \A a \in Attempts : \E m \in 1 .. Len(recent) : recent[m] = a
    BY <1>2
  <2>2. \A a \in Attempts : a \notin S
    BY <2>1, <1>3
  <2> QED  BY <2>2, <1>1, <1>3
<1>4. CASE \E k \in 1 .. Len(recent) :
               recent[k] \in S /\ LastAmong(recent, S) = recent[k]
  BY <1>1, <1>4
<1> QED  BY <1>3, <1>4, LastAmongFound

-----------------------------------------------------------------------------
(***************************************************************************)
(* Types of what the transactions hold.                                    *)
(***************************************************************************)
(* A copy of some rows is one of the columns the type allows (Rows).       *)
LEMMA ColumnsOf ==
    ASSUME NEW S, NEW T \in SUBSET Invoices, NEW f \in [T -> S]
    PROVE  f \in Columns(S)
BY DEF Columns

(* Nothing is copied by a transaction that has not begun (Session()).      *)
LEMMA IdleTyped == Idle \in Transactions /\ Done \in Transactions
<1>1. << >> \in [{} -> RowStatuses]
  <2>1. << >> \in Seq(RowStatuses) /\ Len(<< >>) = 0
    OBVIOUS
  <2>2. << >> \in [1 .. 0 -> RowStatuses]
    BY <2>1, LenProperties
  <2>3. 1 .. 0 = {}
    OBVIOUS
  <2> QED  BY <2>2, <2>3
<1>2. << >> \in Columns(RowStatuses)
  BY <1>1, ColumnsOf
<1>3. Idle \in Transactions
  BY <1>2 DEF Idle, Transactions
<1>4. Done \in Transactions
  BY <1>3 DEF Done, Transactions
<1> QED  BY <1>3, <1>4

(* The places of an idle transaction, and of one that is over.             *)
LEMMA IdlePlaces ==
    Idle.pc = "idle" /\ Done.pc = "done" /\ Idle # Done /\ Idle.inv = 0
BY DEF Idle, Done

(* A row says what the ERP says of its invoice (resync_one_invoice).       *)
LEMMA RowOfTyped ==
    ASSUME erp \in [Invoices -> {"open", "paid", "credited"}],
           NEW T \in SUBSET Invoices
    PROVE  /\ View(T) \in [T -> RowStatuses]
           /\ \A i \in T : View(T)[i] = "paid" => erp[i] = "paid"
<1>1. ASSUME NEW i \in T
      PROVE  /\ RowOf[erp[i]] \in RowStatuses
             /\ RowOf[erp[i]] = "paid" => erp[i] = "paid"
  <2>1. erp[i] \in {"open", "paid", "credited"}
    OBVIOUS
  <2> QED  BY <2>1 DEF RowOf, RowStatuses
<1> QED  BY <1>1 DEF View

-----------------------------------------------------------------------------
(***************************************************************************)
(* What a step leaves of the bookkeeping.                                  *)
(***************************************************************************)
(* Attempts are added and updated, and keep their invoice.                 *)
Grown(list, new) ==
    /\ list \in Seq(AttemptRows) /\ new \in Seq(AttemptRows)
    /\ Len(list) <= Len(new)
    /\ \A a \in 1 .. Len(list) : new[a].invoice = list[a].invoice

(* What a transaction refers to is still there (payment_attempts.id).      *)
LEMMA FormedGrown ==
    ASSUME NEW t, NEW x, NEW list, NEW new, Grown(list, new),
           Formed(t, x, list)
    PROVE  Formed(t, x, new)
<1>1. \A a \in 1 .. Len(list) : a \in 1 .. Len(new)
                                /\ new[a].invoice = list[a].invoice
  BY DEF Grown
<1>2. ASSUME RowsFormed(t, x, list)
      PROVE  RowsFormed(t, x, new)
  BY <1>1, <1>2 DEF RowsFormed
<1>3. ASSUME HookFormed(t, x, list)
      PROVE  HookFormed(t, x, new)
  BY <1>1, <1>3 DEF HookFormed
<1> QED  BY <1>2, <1>3 DEF Formed

(* The update of a status keeps the list of attempts as it is otherwise.   *)
Updated(list, a, s) == [list EXCEPT ![a].status = s]

(* Only the attempt updated differs, and only in its status                *)
(* (payment_attempts.status).                                              *)
LEMMA StatusUpdate ==
    ASSUME NEW list \in Seq(AttemptRows), NEW a \in 1 .. Len(list),
           NEW s \in AttemptStatuses, NEW new,
           new = Updated(list, a, s)
    PROVE  /\ Grown(list, new) /\ Len(new) = Len(list)
           /\ new[a].status = s
           /\ \A b \in 1 .. Len(list) : b # a => new[b] = list[b]
<1>1. Len(list) \in Nat /\ list \in [1 .. Len(list) -> AttemptRows]
  OBVIOUS
<1>2. list[a] \in AttemptRows
  OBVIOUS
<1>3. [list[a] EXCEPT !.status = s] \in AttemptRows
  BY <1>2 DEF AttemptRows
<1>4. new = [list EXCEPT ![a] = [list[a] EXCEPT !.status = s]]
  BY <1>1 DEF Updated
<1>5. new \in [1 .. Len(list) -> AttemptRows]
  BY <1>1, <1>3, <1>4
<1>6. new \in Seq(AttemptRows) /\ Len(new) = Len(list)
  BY <1>1, <1>5
<1>7. new[a].status = s /\ new[a].invoice = list[a].invoice
  BY <1>1, <1>2, <1>4 DEF AttemptRows
<1>8. \A b \in 1 .. Len(list) : b # a => new[b] = list[b]
  BY <1>1, <1>4
<1>9. Grown(list, new)
  BY <1>1, <1>6, <1>7, <1>8 DEF Grown
<1> QED  BY <1>6, <1>7, <1>8, <1>9

(* One transaction moves: the others stay as they are, and the calls that  *)
(* are over stay over.                                                     *)
LEMMA OneMoves ==
    ASSUME PaymentAssumption, Bookkeeping, NEW u \in Agents,
           NEW r \in Transactions, tx' = [tx EXCEPT ![u] = r],
           tx[u].pc # "done", Grown(attempts, attempts'),
           Formed(u, r, attempts')
    PROVE  /\ tx' \in [Agents -> Transactions]
           /\ tx'[u] = r /\ \A t \in Agents : t # u => tx'[t] = tx[t]
           /\ \A t \in Agents : Formed(t, tx'[t], attempts')
           /\ Len(attempts') = Len(attempts) => Counted'
<1>1. tx \in [Agents -> Transactions]
  BY DEF Bookkeeping, Typed
<1>2. tx' \in [Agents -> Transactions]
  BY <1>1
<1>3. tx'[u] = r /\ \A t \in Agents : t # u => tx'[t] = tx[t]
  BY <1>1
<1>4. \A t \in Agents : Formed(t, tx'[t], attempts')
  <2>1. \A t \in Agents : Formed(t, tx[t], attempts)
    BY DEF Bookkeeping
  <2>2. \A t \in Agents : Formed(t, tx[t], attempts')
    BY <2>1, FormedGrown
  <2> QED  BY <2>2, <1>3
<1>5. ASSUME Len(attempts') = Len(attempts)
      PROVE  Counted'
  <2>1. Finished \subseteq Finished' /\ Finished' \in SUBSET Payers
    BY <1>3 DEF Finished, Agents
  <2>2. IsFiniteSet(Payers)
    BY DEF PaymentAssumption
  <2>3. IsFiniteSet(Finished')
    BY <2>1, <2>2, FS_Subset
  <2>4. Cardinality(Finished) <= Cardinality(Finished')
    BY <2>1, <2>3, FS_Subset
  <2>5. Cardinality(Finished) \in Nat /\ Cardinality(Finished') \in Nat
    BY <2>1, <2>3, FS_Subset, FS_CardinalityType
  <2>6. Len(attempts) \in Nat
    BY DEF Bookkeeping, Typed
  <2>7. Len(attempts) <= Cardinality(Finished)
    BY DEF Bookkeeping, Counted
  <2> QED  BY <2>4, <2>5, <2>6, <2>7, <1>5 DEF Counted
<1> QED  BY <1>2, <1>3, <1>4, <1>5

(* The webhook is one of the agents.                                       *)
LEMMA HookAgent == "hook" \in Agents
BY DEF Agents

(* Events are pairs of a kind and an attempt, and come of a notice about   *)
(* that attempt (parse_webhook).                                           *)
LEMMA EventParts ==
    ASSUME NEW e \in ProviderEvents
    PROVE  /\ e[1] \in {"confirm", "fail", "late"} /\ e[2] \in AttemptIds
           /\ e = <<e[1], e[2]>>
           /\ Notice(e) \in Notices /\ Notice(e)[2] = e[2]
           /\ EventType(e) \in {"confirm", "fail"}
           /\ EventType(e) = "fail" <=> e = <<"fail", e[2]>>
           /\ Notice(e)[1] = "confirm" <=> e = <<"confirm", e[2]>>
           /\ Notice(e)[1] = "confirm" => Notice(e) = e
<1>1. /\ e[1] \in {"confirm", "fail", "late"} /\ e[2] \in AttemptIds
      /\ e = <<e[1], e[2]>>
  BY DEF ProviderEvents
<1>2. CASE e[1] = "late"
  BY <1>1, <1>2 DEF Notice, EventType, Notices
<1>3. CASE e[1] # "late"
  BY <1>1, <1>3 DEF Notice, EventType, Notices
<1> QED  BY <1>1, <1>2, <1>3

(* A notice is a pair of that kind.                                        *)
LEMMA NoticeParts ==
    ASSUME NEW n \in Notices
    PROVE  /\ n[1] \in {"confirm", "fail"} /\ n[2] \in AttemptIds
           /\ n = <<n[1], n[2]>>
BY DEF Notices

(* Every kind of notice and attempt make a notice of the provider, and an  *)
(* event of the same name comes of it (handle_gateway_webhook).            *)
LEMMA EventPairs ==
    ASSUME NEW k \in {"confirm", "fail"}, NEW a \in AttemptIds
    PROVE  /\ <<k, a>> \in ProviderEvents /\ <<k, a>> \in Notices
           /\ Notice(<<k, a>>) = <<k, a>> /\ EventType(<<k, a>>) = k
BY DEF ProviderEvents, Notices, Notice, EventType

(* The customer pays or fails to, on an open page, and a message is due    *)
(* (the provider's hosted checkout).                                       *)
LEMMA PageKeepsBooks ==
    ASSUME Bookkeeping, NEW a \in AttemptIds, NEW k \in {"confirm", "fail"},
           checkout[a] \in {"open", "declined"},
           k = "fail" => checkout[a] = "open",
           checkout' = [checkout EXCEPT
                            ![a] = IF k = "confirm" THEN "paid" ELSE "declined"],
           mail' = [mail EXCEPT ![<<k, a>>] = "due"],
           UNCHANGED <<erp, invoice, attempts, recent, outbox, tenant, sub, tx,
                       faults>>
    PROVE  Bookkeeping'
<1> DEFINE c == <<k, a>>
<1>1. c \in Notices /\ c[2] = a
  BY EventPairs
<1>2. Typed'
  BY <1>1 DEF Bookkeeping, Typed
<1>3. Listed(recent, Len(attempts))' /\ Counted'
  BY DEF Bookkeeping, Counted, Finished
<1>4. \A t \in Agents : Formed(t, tx[t], attempts)'
  BY DEF Bookkeeping
<1>5. /\ checkout \in [AttemptIds -> {"none", "open", "declined", "paid"}]
      /\ mail \in [Notices -> {"none", "due", "acked"}]
  BY DEF Bookkeeping, Typed
<1>6. Posted
  BY DEF Bookkeeping
<1>7. /\ checkout'[a] = IF k = "confirm" THEN "paid" ELSE "declined"
      /\ \A b \in AttemptIds : b # a => checkout'[b] = checkout[b]
  BY <1>5
<1>8. mail'[c] = "due" /\ \A n \in Notices : n # c => mail'[n] = mail[n]
  BY <1>1, <1>5
<1>9. Posted'
  <2>1. \A b \in AttemptIds : checkout'[b] # "none" => b \in Attempts'
    <3>1. checkout[a] # "none"
      OBVIOUS
    <3>2. Attempts' = Attempts
      BY DEF Attempts
    <3> QED  BY <1>6, <1>7, <3>1, <3>2 DEF Posted
  <2>2. \A e \in Notices : mail'[e] # "none" => checkout'[e[2]] # "none"
    <3>1. ASSUME NEW e \in Notices, mail'[e] # "none"
          PROVE  checkout'[e[2]] # "none"
      <4>1. e[2] \in AttemptIds
        BY NoticeParts
      <4>2. CASE e[2] = a
        BY <4>2, <1>7
      <4>3. CASE e[2] # a
        <5>1. e # c
          BY <4>3, <1>1
        <5>2. checkout[e[2]] # "none"
          BY <5>1, <3>1, <1>8, <1>6 DEF Posted
        <5> QED  BY <5>2, <4>1, <4>3, <1>7
      <4> QED  BY <4>2, <4>3
    <3> QED  BY <3>1
  <2>3. \A b \in AttemptIds :
            mail'[<<"confirm", b>>] # "none" => checkout'[b] = "paid"
    <3>1. ASSUME NEW b \in AttemptIds, b # a, mail'[<<"confirm", b>>] # "none"
          PROVE  checkout'[b] = "paid"
      <4>1. <<"confirm", b>> \in Notices /\ <<"confirm", b>> # c
        BY <3>1, EventPairs
      <4> QED  BY <4>1, <3>1, <1>6, <1>7, <1>8 DEF Posted
    <3>2. CASE k = "confirm"
      BY <3>1, <3>2, <1>7
    <3>3. CASE k = "fail"
      <4>1. <<"confirm", a>> \in Notices /\ <<"confirm", a>> # c
        BY <3>3, EventPairs
      <4>2. checkout[a] # "paid"
        BY <3>3
      <4>3. mail'[<<"confirm", a>>] = "none"
        BY <4>1, <4>2, <1>6, <1>8 DEF Posted
      <4> QED  BY <3>1, <4>3
    <3> QED  BY <3>2, <3>3
  <2>4. \A e \in ProviderEvents :
            outbox'[e] # "none" => mail'[Notice(e)] # "none"
    <3>1. \A e \in ProviderEvents : Notice(e) \in Notices
      BY EventParts
    <3> QED  BY <3>1, <1>6, <1>8 DEF Posted
  <2>5. InHand(tx["hook"])'
    <3>1. "hook" \in Agents
      BY DEF Agents
    <3>2. SUFFICES ASSUME tx["hook"].pc \in OnHook
                   PROVE  LET e == tx["hook"].event
                          IN  /\ mail'[Notice(e)] = "due"
                              /\ EventType(e) = "confirm" =>
                                     checkout'[e[2]] = "paid"
      BY DEF InHand
    <3>3. PICK e \in ProviderEvents : e = tx["hook"].event
      BY <3>1, <3>2 DEF Bookkeeping, Formed, HookFormed
    <3>4. /\ mail[Notice(e)] = "due"
          /\ EventType(e) = "confirm" => checkout[e[2]] = "paid"
      BY <3>2, <3>3, <1>6 DEF Posted, InHand
    <3>5. Notice(e) \in Notices /\ e[2] \in AttemptIds
      BY EventParts
    <3>6. mail'[Notice(e)] = "due"
      BY <3>4, <3>5, <1>8
    <3>7. checkout[e[2]] = "paid" => checkout'[e[2]] = "paid"
      BY <3>5, <1>7
    <3> QED  BY <3>3, <3>4, <3>6, <3>7
  <2>6. \A b \in AttemptIds :
            mail'[<<"confirm", b>>] = "acked"
              \/ outbox'[<<"confirm", b>>] # "none" => Provider = "dpo"
    <3>1. ASSUME NEW b \in AttemptIds, mail'[<<"confirm", b>>] = "acked"
          PROVE  Provider = "dpo"
      <4>1. <<"confirm", b>> \in Notices
        BY EventPairs
      <4>2. mail[<<"confirm", b>>] = "acked"
        BY <4>1, <3>1, <1>8
      <4> QED  BY <4>2, <1>6 DEF Posted
    <3>2. ASSUME NEW b \in AttemptIds, outbox'[<<"confirm", b>>] # "none"
          PROVE  Provider = "dpo"
      BY <3>2, <1>6 DEF Posted
    <3> QED  BY <3>1, <3>2
  <2> QED  BY <2>1, <2>2, <2>3, <2>4, <2>5, <2>6 DEF Posted
<1> QED  BY <1>2, <1>3, <1>4, <1>9 DEF Bookkeeping

(* A payment or a refusal on the provider's page keeps the books (the      *)
(* hosted checkout).                                                       *)
LEMMA PayKeepsBooks ==
    ASSUME Bookkeeping, NEW a \in AttemptIds, Pay(a) \/ Decline(a)
    PROVE  Bookkeeping'
<1>1. CASE Pay(a)
  BY <1>1, PageKeepsBooks DEF Pay
<1>2. CASE Decline(a)
  BY <1>2, PageKeepsBooks DEF Decline
<1> QED  BY <1>1, <1>2

(* The accountants' entries are none of the platform's (ERP).              *)
LEMMA EntryKeepsBooks ==
    ASSUME Bookkeeping, NEW i \in Invoices, Book(i) \/ Credit(i)
    PROVE  Bookkeeping'
<1>1. UNCHANGED <<invoice, attempts, recent, checkout, mail, outbox, tenant,
                  sub, tx, faults>>
  BY DEF Book, Credit
<1>2. erp' \in [Invoices -> {"open", "paid", "credited"}]
  BY DEF Book, Credit, Bookkeeping, Typed
<1>3. Typed'
  BY <1>1, <1>2 DEF Bookkeeping, Typed
<1>4. Counted' /\ Posted'
  BY <1>1 DEF Bookkeeping, Counted, Finished, Posted, InHand, Attempts
<1> QED  BY <1>1, <1>3, <1>4 DEF Bookkeeping

(* A step of the platform that sends nothing keeps what the provider sent. *)
LEMMA PostedKept ==
    ASSUME Bookkeeping, Grown(attempts, attempts'),
           UNCHANGED <<checkout, mail, outbox>>, InHand(tx'["hook"])
    PROVE  Posted'
<1>1. Attempts \subseteq Attempts'
  BY DEF Attempts, Grown
<1>2. Posted
  BY DEF Bookkeeping
<1>3. \A a \in AttemptIds : checkout'[a] # "none" => a \in Attempts'
  BY <1>1, <1>2 DEF Posted
<1>4. InHand(tx["hook"])'
  BY DEF InHand
<1> QED  BY <1>2, <1>3, <1>4 DEF Posted

(* A list of attempts is a growth of itself.                               *)
LEMMA GrownSame == ASSUME NEW list \in Seq(AttemptRows) PROVE Grown(list, list)
BY DEF Grown

(* The steps of the other agents leave the webhook alone.                  *)
LEMMA OtherThanHook ==
    ASSUME Bookkeeping, NEW u \in Agents \ {"hook"}, NEW r \in Transactions,
           tx' = [tx EXCEPT ![u] = r], Grown(attempts, attempts'),
           UNCHANGED <<checkout, mail, outbox>>
    PROVE  Posted'
<1>1. "hook" \in Agents /\ tx \in [Agents -> Transactions]
  BY DEF Agents, Bookkeeping, Typed
<1>2. tx'["hook"] = tx["hook"]
  BY <1>1
<1>3. InHand(tx'["hook"])
  BY <1>2 DEF Bookkeeping, Posted
<1> QED  BY <1>3, PostedKept

(* Rows are loaded and the ERP is asked for them                           *)
(* (list_billing_invoices_for_tenant, create_payment_attempt_for_invoice,  *)
(* reconcile_tenant_billing).                                              *)
Fetched(op, i, S) ==
    [Idle EXCEPT !.pc = "fetched", !.op = op, !.inv = i, !.touched = S,
                 !.row = Rows(S), !.view = View(S),
                 !.tenant = IF op = "reconcile" THEN tenant ELSE @]

Calls(t, op, i, S) ==
    \/ t \in Payers /\ op = "pay" /\ S = {i}
    \/ t \in Visitors /\ op \in {"view", "reconcile"} /\ S = Invoices
    \/ t = "cycle" /\ op = "reconcile" /\ S \in {Invoices, {i}}

(* What such a call holds after its questions is what a transaction may    *)
(* hold (resync_one_invoice).                                              *)
LEMMA FetchedFormed ==
    ASSUME PaymentAssumption, Bookkeeping, NEW t, NEW op, NEW i \in Invoices,
           NEW S, Calls(t, op, i, S)
    PROVE  LET r == Fetched(op, i, S)
           IN  /\ r \in Transactions /\ t \in Agents \ {"hook"}
               /\ r.pc = "fetched" /\ r.row = Rows(S) /\ r.view = View(S)
               /\ r.op = op /\ r.inv = i /\ r.touched = S
               /\ RowsFormed(t, r, attempts) /\ Formed(t, r, attempts)
<1> DEFINE r == Fetched(op, i, S)
<1>1. S \in SUBSET Invoices /\ i \in S /\ op \in {"pay", "view", "reconcile"}
  BY DEF Calls
<1>2. Rows(S) \in [S -> RowStatuses]
  BY <1>1 DEF Rows, Bookkeeping, Typed
<1>3. View(S) \in [S -> RowStatuses]
  BY <1>1, RowOfTyped DEF Bookkeeping, Typed
<1>4. Rows(S) \in Columns(RowStatuses) /\ View(S) \in Columns(RowStatuses)
  BY <1>1, <1>2, <1>3, ColumnsOf
<1>5. tenant \in TenantStatuses
  BY DEF Bookkeeping, Typed
<1>6. /\ r.pc = "fetched" /\ r.op = op /\ r.inv = i /\ r.touched = S
      /\ r.row = Rows(S) /\ r.view = View(S)
      /\ op = "reconcile" => r.tenant = tenant
  BY DEF Fetched, Idle
<1>7. r \in Transactions
  <2>1. Idle \in Transactions
    BY IdleTyped
  <2>2. IF op = "reconcile" THEN tenant \in TenantStatuses
                            ELSE Idle.tenant \in TenantStatuses \cup {"none"}
    BY <1>5, <2>1 DEF Transactions
  <2>3. PICK v : v = IF op = "reconcile" THEN tenant ELSE Idle.tenant
    OBVIOUS
  <2>4. v \in TenantStatuses \cup {"none"}
    BY <2>2, <2>3
  <2>5. r = [Idle EXCEPT !.pc = "fetched", !.op = op, !.inv = i, !.touched = S,
                         !.row = Rows(S), !.view = View(S), !.tenant = v]
    BY <2>3 DEF Fetched
  <2> HIDE DEF r
  <2> QED  BY <1>1, <1>4, <2>1, <2>4, <2>5 DEF Transactions
<1>8. t \in Agents /\ t # "hook" /\ (op = "reconcile" => t \notin Payers)
  BY DEF Calls, Agents, PaymentAssumption
<1> HIDE DEF r
<1>9. RowsFormed(t, r, attempts)
  BY <1>1, <1>2, <1>3, <1>5, <1>6, <1>8 DEF RowsFormed, Calls
<1>10. Formed(t, r, attempts)
  BY <1>6, <1>9 DEF Formed, OnHook
<1> QED  BY <1>6, <1>7, <1>8, <1>9, <1>10 DEF r

(* Loading and asking keeps the books (list_billing_invoices_for_tenant,   *)
(* create_payment_attempt_for_invoice, reconcile_tenant_billing).          *)
LEMMA FetchKeepsBooks ==
    ASSUME PaymentAssumption, Bookkeeping, NEW t, NEW op, NEW i \in Invoices,
           NEW S, Calls(t, op, i, S), Fetch(t, op, i, S)
    PROVE  Bookkeeping'
<1>1. PICK r : r = Fetched(op, i, S)
  OBVIOUS
<1>2. /\ r \in Transactions /\ t \in Agents \ {"hook"}
      /\ Formed(t, r, attempts)
  BY <1>1, FetchedFormed
<1>3. tx' = [tx EXCEPT ![t] = r] /\ tx[t].pc # "done"
  BY <1>1 DEF Fetch, Fetched
<1>4. UNCHANGED <<erp, invoice, attempts, recent, checkout, mail, outbox,
                  tenant, sub, faults>>
  BY DEF Fetch
<1>5. Grown(attempts, attempts')
  BY <1>4, GrownSame DEF Bookkeeping, Typed
<1>6. /\ tx' \in [Agents -> Transactions] /\ Counted'
      /\ \A u \in Agents : Formed(u, tx'[u], attempts')
  BY <1>2, <1>3, <1>4, <1>5, OneMoves
<1>7. Posted'
  BY <1>2, <1>3, <1>4, <1>5, OtherThanHook
<1>8. Typed'
  BY <1>4, <1>6 DEF Bookkeeping, Typed
<1>9. Listed(recent, Len(attempts))'
  BY <1>4 DEF Bookkeeping
<1> QED  BY <1>6, <1>7, <1>8, <1>9 DEF Bookkeeping

(* A step of one agent over its rows, but for the webhook: the rows, the   *)
(* statuses and the tenant it writes are of their types.                   *)
LEMMA RowStepKeepsBooks ==
    ASSUME PaymentAssumption, Bookkeeping, NEW u \in Agents \ {"hook"},
           NEW r \in Transactions, tx' = [tx EXCEPT ![u] = r],
           tx[u].pc # "done", Formed(u, r, attempts'),
           Grown(attempts, attempts'), Len(attempts') = Len(attempts),
           recent' \in Seq(AttemptIds), Listed(recent', Len(attempts)),
           invoice' \in [Invoices -> RowStatuses],
           tenant' \in TenantStatuses, sub' \in SubscriptionStatuses,
           UNCHANGED <<erp, checkout, mail, outbox, faults>>
    PROVE  Bookkeeping'
<1>1. /\ tx' \in [Agents -> Transactions] /\ Counted'
      /\ \A t \in Agents : Formed(t, tx'[t], attempts')
  BY OneMoves
<1>2. Posted'
  BY OtherThanHook
<1>3. attempts' \in Seq(AttemptRows)
  BY DEF Grown
<1>4. Typed'
  BY <1>1, <1>3 DEF Bookkeeping, Typed
<1>5. Listed(recent', Len(attempts'))
  OBVIOUS
<1> QED  BY <1>1, <1>2, <1>4, <1>5 DEF Bookkeeping

(* The same where neither attempts nor tenant nor subscription change.     *)
LEMMA RowsOnlyKeepBooks ==
    ASSUME PaymentAssumption, Bookkeeping, NEW u \in Agents \ {"hook"},
           NEW r \in Transactions, tx' = [tx EXCEPT ![u] = r],
           tx[u].pc # "done", Formed(u, r, attempts),
           invoice' \in [Invoices -> RowStatuses],
           UNCHANGED <<erp, attempts, recent, checkout, mail, outbox, tenant,
                       sub, faults>>
    PROVE  Bookkeeping'
<1>1. Grown(attempts, attempts')
  BY GrownSame DEF Bookkeeping, Typed
<1>2. recent' \in Seq(AttemptIds) /\ Listed(recent', Len(attempts))
  BY DEF Bookkeeping, Typed
<1>3. tenant' \in TenantStatuses /\ sub' \in SubscriptionStatuses
  BY DEF Bookkeeping, Typed
<1>4. Formed(u, r, attempts')
  OBVIOUS
<1>5. Len(attempts') = Len(attempts)
  OBVIOUS
<1>6. UNCHANGED <<erp, checkout, mail, outbox, faults>>
  OBVIOUS
<1> QED  BY <1>1, <1>2, <1>3, <1>4, <1>5, <1>6, RowStepKeepsBooks

(* What an agent holds while it works on rows.                             *)
LEMMA AtRows ==
    ASSUME Bookkeeping, NEW t \in Agents, tx[t].pc \in OnRows
    PROVE  /\ t # "hook" /\ tx[t] \in Transactions /\ tx[t].pc # "done"
           /\ RowsFormed(t, tx[t], attempts)
           /\ tx[t].touched \in SUBSET Invoices /\ tx[t].inv \in Invoices
<1>1. tx[t] \in Transactions /\ Formed(t, tx[t], attempts)
  BY DEF Bookkeeping, Typed
<1>2. RowsFormed(t, tx[t], attempts)
  BY <1>1 DEF Formed
<1>3. tx[t].touched \in SUBSET Invoices
  BY <1>1 DEF Transactions
<1>4. tx[t].pc # "done"
  BY DEF OnRows
<1> QED  BY <1>1, <1>2, <1>3, <1>4 DEF RowsFormed

(* A transaction that is over or idle is as it should be.                  *)
LEMMA RestFormed ==
    ASSUME NEW t, NEW list, NEW i
    PROVE  Formed(t, Done, list) /\ Formed(t, [Idle EXCEPT !.inv = i], list)
           /\ Formed(t, Idle, list)
BY DEF Formed, Done, Idle, OnRows, OnHook

(* A row stored is one of the three it is made of (SQLAlchemy writes what  *)
(* differs).                                                               *)
LEMMA StoredIsOne ==
    ASSUME NEW now, NEW loaded, NEW view, NEW new
    PROVE  /\ Stored(now, loaded, new) \in {now, new}
           /\ StoredRow(now, loaded, view, new) \in {now, view, new}
BY DEF Stored, StoredRow

(* list_billing_invoices_for_tenant stores what the ERP said.              *)
LEMMA StoreViewKeepsBooks ==
    ASSUME PaymentAssumption, Bookkeeping, NEW t \in Agents, StoreView(t)
    PROVE  Bookkeeping'
<1>1. tx[t].pc \in OnRows
  BY DEF StoreView, OnRows
<1>2. /\ t # "hook" /\ tx[t].pc # "done" /\ RowsFormed(t, tx[t], attempts)
  BY <1>1, AtRows
<1>3. tx[t].touched = Invoices /\ tx[t].view \in [Invoices -> RowStatuses]
  BY <1>2 DEF RowsFormed, StoreView
<1>4. \A i \in Invoices :
          Stored(invoice[i], tx[t].row[i], tx[t].view[i]) \in RowStatuses
  <2>1. \A i \in Invoices :
            invoice[i] \in RowStatuses /\ tx[t].view[i] \in RowStatuses
    BY <1>3 DEF Bookkeeping, Typed
  <2> QED  BY <2>1, StoredIsOne
<1>5. invoice' \in [Invoices -> RowStatuses]
  BY <1>3, <1>4 DEF StoreView
<1>6. tx' = [tx EXCEPT ![t] = Done]
  BY DEF StoreView
<1>7. UNCHANGED <<erp, attempts, recent, checkout, mail, outbox, tenant, sub,
                  faults>>
  BY DEF StoreView
<1> QED  BY <1>2, <1>5, <1>6, <1>7, RestFormed, IdleTyped, RowsOnlyKeepBooks

(* The row a payment call flushes, and the lock it takes with it.          *)
Flushed(t) ==
    [tx[t] EXCEPT !.pc = "locked",
                  !.row[tx[t].inv] = Stored(invoice[tx[t].inv], @,
                                            tx[t].view[tx[t].inv])]

(* The transaction that flushed its row is one that may hold a lock        *)
(* (create_payment_attempt_for_invoice).                                   *)
LEMMA FlushedFormed ==
    ASSUME Bookkeeping, NEW t \in Agents,
           tx[t].pc = "fetched", tx[t].op = "pay"
    PROVE  LET r == Flushed(t)
               i == tx[t].inv
           IN  /\ r \in Transactions /\ Formed(t, r, attempts)
               /\ r.pc = "locked" /\ r.op = "pay" /\ r.inv = i
               /\ r.touched = {i} /\ r.view = tx[t].view
               /\ DOMAIN r.row = {i} /\ DOMAIN tx[t].row = {i}
               /\ DOMAIN tx[t].view = {i} /\ i \in Invoices
               /\ r.row[i] = Stored(invoice[i], tx[t].row[i], tx[t].view[i])
<1> DEFINE i == tx[t].inv
           v == Stored(invoice[i], tx[t].row[i], tx[t].view[i])
           r == Flushed(t)
<1>1. tx[t].pc \in OnRows
  BY DEF OnRows
<1>2. /\ t # "hook" /\ tx[t] \in Transactions /\ i \in Invoices
      /\ RowsFormed(t, tx[t], attempts)
  BY <1>1, AtRows
<1>3. /\ tx[t].touched = {i} /\ t \in Payers
      /\ tx[t].row \in [{i} -> RowStatuses]
      /\ tx[t].view \in [{i} -> RowStatuses]
  BY <1>2 DEF RowsFormed
<1>4. v \in RowStatuses
  <2>1. invoice[i] \in RowStatuses /\ tx[t].view[i] \in RowStatuses
    BY <1>2, <1>3 DEF Bookkeeping, Typed
  <2> QED  BY <2>1, StoredIsOne
<1> DEFINE w == [tx[t].row EXCEPT ![i] = v]
<1>5. w \in [{i} -> RowStatuses] /\ w[i] = v
  BY <1>3, <1>4
<1>6. w \in Columns(RowStatuses)
  BY <1>2, <1>5, ColumnsOf
<1>7. r = [tx[t] EXCEPT !.pc = "locked", !.row = w]
  BY <1>2 DEF Flushed, Transactions
<1> HIDE DEF w, r, v
<1>8. /\ r \in Transactions /\ r.pc = "locked" /\ r.row = w
      /\ r.op = "pay" /\ r.inv = i /\ r.touched = {i} /\ r.view = tx[t].view
  BY <1>2, <1>3, <1>6, <1>7 DEF Transactions
<1>9. RowsFormed(t, r, attempts)
  BY <1>2, <1>3, <1>5, <1>8 DEF RowsFormed
<1>10. Formed(t, r, attempts)
  BY <1>8, <1>9 DEF Formed, OnHook
<1> QED  BY <1>2, <1>3, <1>5, <1>8, <1>10 DEF r, v

(* The call goes on with the row flushed, or it is refused                 *)
(* (create_payment_attempt_for_invoice).                                   *)
LEMMA CheckMoves ==
    ASSUME NEW t \in Agents, CheckPayable(t)
    PROVE  \/ Quiet(tx[t].inv) /\ tx' = [tx EXCEPT ![t] = Flushed(t)]
           \/ tx' = [tx EXCEPT ![t] = Done]
<1> DEFINE payable == /\ Payable(tx[t].view[tx[t].inv])
                      /\ \/ Latest(tx[t].inv) = NoAttempt
                         \/ ~Active(Latest(tx[t].inv))
<1>1. CASE payable
  <2>1. tx' = [tx EXCEPT ![t] = Flushed(t)]
    BY <1>1 DEF CheckPayable, Flushed
  <2> QED  BY <2>1, <1>1 DEF Quiet
<1>2. CASE ~payable
  <2>1. tx' = [tx EXCEPT ![t] = Done]
    BY <1>2 DEF CheckPayable
  <2> QED  BY <2>1
<1> QED  BY <1>1, <1>2

(* create_payment_attempt_for_invoice checks what it loaded.               *)
LEMMA CheckKeepsBooks ==
    ASSUME PaymentAssumption, Bookkeeping, NEW t \in Agents, CheckPayable(t)
    PROVE  Bookkeeping'
<1>1. tx[t].pc = "fetched" /\ tx[t].op = "pay"
  BY DEF CheckPayable
<1>2. t # "hook" /\ tx[t].pc # "done"
  BY <1>1, AtRows DEF OnRows
<1>3. UNCHANGED <<erp, invoice, attempts, recent, checkout, mail, outbox,
                  tenant, sub, faults>>
  BY DEF CheckPayable
<1>4. invoice' \in [Invoices -> RowStatuses]
  BY <1>3 DEF Bookkeeping, Typed
<1>5. tx' = [tx EXCEPT ![t] = Flushed(t)] \/ tx' = [tx EXCEPT ![t] = Done]
  BY CheckMoves
<1>6. Flushed(t) \in Transactions /\ Formed(t, Flushed(t), attempts)
  BY <1>1, FlushedFormed
<1>7. Done \in Transactions /\ Formed(t, Done, attempts)
  BY IdleTyped, RestFormed
<1> QED  BY <1>2, <1>3, <1>4, <1>5, <1>6, <1>7, RowsOnlyKeepBooks

(* A call that opens a page had not finished, and is over with it: there   *)
(* is room for its attempt (payment_attempts).                             *)
LEMMA RoomForAttempt ==
    ASSUME PaymentAssumption, Bookkeeping, NEW t \in Payers,
           tx[t].pc # "done", tx' = [tx EXCEPT ![t] = Done]
    PROVE  /\ Len(attempts) + 1 \in AttemptIds
           /\ Len(attempts) + 1 <= Cardinality(Finished')
<1>1. tx \in [Agents -> Transactions] /\ t \in Agents
  BY DEF Bookkeeping, Typed, Agents
<1>2. Finished' = Finished \cup {t} /\ t \notin Finished
  <2>1. tx'[t] = Done /\ \A u \in Agents : u # t => tx'[u] = tx[u]
    BY <1>1
  <2>2. \A c : c \in Finished' <=> c \in Finished \cup {t}
    BY <2>1, IdlePlaces DEF Finished, Agents
  <2>3. Finished' = Finished \cup {t}
    BY <2>2, SetExtensionality
  <2> QED  BY <2>3 DEF Finished
<1>3. /\ Finished \in SUBSET Payers /\ Finished' \in SUBSET Payers
      /\ IsFiniteSet(Payers)
  BY <1>2 DEF Finished, PaymentAssumption
<1>4. IsFiniteSet(Finished) /\ Cardinality(Finished) \in Nat
  BY <1>3, FS_Subset, FS_CardinalityType
<1>5. Cardinality(Finished') = Cardinality(Finished) + 1
  BY <1>2, <1>4, FS_AddElement
<1>6. Cardinality(Finished') <= Cardinality(Payers)
  BY <1>3, FS_Subset
<1>7. Cardinality(Payers) \in Nat
  BY <1>3, FS_CardinalityType
<1>8. Len(attempts) \in Nat /\ Len(attempts) <= Cardinality(Finished)
  BY DEF Bookkeeping, Typed, Counted
<1>9. Len(attempts) + 1 <= Cardinality(Finished')
  BY <1>4, <1>5, <1>8
<1>10. Len(attempts) + 1 \in 1 .. Cardinality(Payers)
  <2>1. Cardinality(Finished') \in Nat
    BY <1>4, <1>5
  <2> QED  BY <2>1, <1>6, <1>7, <1>8, <1>9
<1> QED  BY <1>9, <1>10 DEF AttemptIds

(* The attempt a call adds, and what it leaves alone.                      *)
LEMMA AttemptAdded ==
    ASSUME PaymentAssumption, Bookkeeping, NEW t \in Agents, OpenCheckout(t)
    PROVE  LET n == Len(attempts)
           IN  /\ t \in Payers /\ t # "hook" /\ tx[t].inv \in Invoices
               /\ tx[t].touched = {tx[t].inv} /\ n \in Nat /\ n + 1 \in AttemptIds
               /\ Grown(attempts, attempts') /\ Len(attempts') = n + 1
               /\ attempts'[n + 1] = [invoice |-> tx[t].inv,
                                      status |-> "checkout_started"]
               /\ \A a \in 1 .. n : attempts'[a] = attempts[a]
               /\ tx[t].row \in [{tx[t].inv} -> RowStatuses]
               /\ n + 1 <= Cardinality(Finished')
<1> DEFINE n == Len(attempts)
           i == tx[t].inv
           b == [invoice |-> i, status |-> "checkout_started"]
<1>1. tx[t].pc \in OnRows /\ tx[t].pc # "done" /\ tx[t].op = "pay"
  BY DEF OpenCheckout, OnRows
<1>2. /\ t # "hook" /\ i \in Invoices /\ RowsFormed(t, tx[t], attempts)
  BY <1>1, AtRows
<1>3. /\ t \in Payers /\ tx[t].touched = {i}
      /\ tx[t].row \in [{i} -> RowStatuses]
  BY <1>1, <1>2 DEF RowsFormed
<1>4. tx' = [tx EXCEPT ![t] = Done]
  BY DEF OpenCheckout
<1>5. n + 1 \in AttemptIds /\ n + 1 <= Cardinality(Finished')
  BY <1>1, <1>3, <1>4, RoomForAttempt
<1>6. attempts \in Seq(AttemptRows) /\ b \in AttemptRows
  BY <1>2 DEF Bookkeeping, Typed, AttemptRows, AttemptStatuses
<1>7. attempts' = Append(attempts, b)
  BY DEF OpenCheckout
<1>8. /\ attempts' \in Seq(AttemptRows) /\ Len(attempts') = n + 1
      /\ attempts'[n + 1] = b /\ n \in Nat
      /\ \A a \in 1 .. n : attempts'[a] = attempts[a]
  <2> HIDE DEF b
  <2> QED  BY <1>6, <1>7
<1>9. Grown(attempts, attempts')
  BY <1>6, <1>8 DEF Grown
<1> QED  BY <1>2, <1>3, <1>5, <1>8, <1>9

(* The page is opened and the attempt committed                            *)
(* (create_payment_attempt_for_invoice).                                   *)
LEMMA OpenKeepsBooks ==
    ASSUME PaymentAssumption, Bookkeeping, NEW t \in Agents, OpenCheckout(t)
    PROVE  Bookkeeping'
<1> DEFINE n == Len(attempts)
           i == tx[t].inv
<1>1. /\ t \in Payers /\ t # "hook" /\ i \in Invoices
      /\ n \in Nat /\ n + 1 \in AttemptIds
      /\ Grown(attempts, attempts') /\ Len(attempts') = n + 1
      /\ tx[t].row \in [{i} -> RowStatuses]
      /\ n + 1 <= Cardinality(Finished')
  BY AttemptAdded
<1>2. tx' = [tx EXCEPT ![t] = Done] /\ tx[t].pc # "done"
  BY DEF OpenCheckout
<1>3. UNCHANGED <<erp, mail, outbox, tenant, sub, faults>>
  BY DEF OpenCheckout
<1>4. /\ tx' \in [Agents -> Transactions]
      /\ \A u \in Agents : Formed(u, tx'[u], attempts')
  BY <1>1, <1>2, IdleTyped, RestFormed, OneMoves
<1>5. Counted'
  BY <1>1 DEF Counted
<1>6. /\ recent \in Seq(AttemptIds) /\ Listed(recent, n)
      /\ checkout \in [AttemptIds -> {"none", "open", "declined", "paid"}]
      /\ invoice \in [Invoices -> RowStatuses]
  BY DEF Bookkeeping, Typed
<1>7. recent' = Append(recent, n + 1)
  BY DEF OpenCheckout
<1>8. recent' \in Seq(AttemptIds)
  BY <1>1, <1>6, <1>7
<1>9. Listed(recent', Len(attempts'))
  BY <1>1, <1>6, <1>7, AppendedListed
<1>10. checkout' = [checkout EXCEPT ![n + 1] = "open"]
  BY DEF OpenCheckout
<1>11. invoice' \in [Invoices -> RowStatuses]
  <2>1. tx[t].row[i] \in RowStatuses
    BY <1>1
  <2>2. invoice' = [invoice EXCEPT ![i] = tx[t].row[i]]
    BY DEF OpenCheckout
  <2> QED  BY <2>1, <2>2, <1>6
<1>12. Typed'
  <2>1. checkout' \in [AttemptIds -> {"none", "open", "declined", "paid"}]
    BY <1>6, <1>10
  <2>2. attempts' \in Seq(AttemptRows)
    BY <1>1 DEF Grown
  <2> QED  BY <2>1, <2>2, <1>3, <1>4, <1>8, <1>11 DEF Bookkeeping, Typed
<1>13. Posted'
  <2> HIDE DEF n
  <2>1. Posted
    BY DEF Bookkeeping
  <2>2. n + 1 \notin Attempts /\ Attempts' = 1 .. n + 1 /\ Attempts = 1 .. n
    BY <1>1 DEF Attempts, n
  <2>3. checkout[n + 1] = "none"
    BY <1>1, <2>1, <2>2 DEF Posted
  <2>4. \A a \in AttemptIds : a # n + 1 => checkout'[a] = checkout[a]
    BY <1>6, <1>10
  <2>5. \A a \in AttemptIds : checkout'[a] # "none" => a \in Attempts'
    <3>1. ASSUME NEW a \in AttemptIds, a # n + 1, checkout'[a] # "none"
          PROVE  a \in Attempts'
      <4>1. a \in Attempts
        BY <3>1, <2>1, <2>4 DEF Posted
      <4> QED  BY <4>1, <2>2, <1>1
    <3>2. n + 1 \in Attempts'
      BY <2>2, <1>1
    <3> QED  BY <3>1, <3>2
  <2>6. \A e \in Notices : mail'[e] # "none" => checkout'[e[2]] # "none"
    <3>1. ASSUME NEW e \in Notices, mail[e] # "none"
          PROVE  checkout'[e[2]] # "none"
      <4>1. e[2] \in AttemptIds /\ checkout[e[2]] # "none"
        BY <3>1, <2>1, NoticeParts DEF Posted
      <4> QED  BY <4>1, <2>3, <2>4
    <3> QED  BY <3>1, <1>3
  <2>7. \A a \in AttemptIds :
            mail'[<<"confirm", a>>] # "none" => checkout'[a] = "paid"
    <3>1. \A a \in AttemptIds : checkout[a] = "paid" => checkout'[a] = "paid"
      BY <2>3, <2>4
    <3> QED  BY <3>1, <2>1, <1>3 DEF Posted
  <2>8. tx'["hook"] = tx["hook"]
    BY <1>1, <1>2 DEF Bookkeeping, Typed, Agents
  <2>9. InHand(tx["hook"])'
    <3>1. SUFFICES ASSUME tx["hook"].pc \in OnHook
                   PROVE  EventType(tx["hook"].event) = "confirm" =>
                              checkout'[tx["hook"].event[2]] = "paid"
      BY <2>1, <2>8, <1>3 DEF Posted, InHand
    <3>2. tx["hook"].event[2] \in AttemptIds
      <4>1. tx["hook"].event \in ProviderEvents
        BY <3>1, HookAgent DEF Bookkeeping, Formed, HookFormed
      <4> QED  BY <4>1, EventParts
    <3> QED  BY <3>1, <3>2, <2>1, <2>3, <2>4 DEF Posted, InHand
  <2> QED  BY <2>1, <2>5, <2>6, <2>7, <2>9, <1>3 DEF Posted
<1> QED  BY <1>4, <1>5, <1>9, <1>12, <1>13 DEF Bookkeeping

(* What the reconciliation holds once it has flushed the rows and read the *)
(* latest attempt (reconcile_tenant_billing).                              *)
Seen(t) == IF tx[t].touched = Invoices
           THEN [tx[t].view EXCEPT ![tx[t].inv] = RowOf[erp[tx[t].inv]]]
           ELSE tx[t].view
FlushedRows(t) ==
    [j \in tx[t].touched |-> StoredRow(invoice[j], tx[t].row[j],
                                       tx[t].view[j], Seen(t)[j])]
Read(t) == IF Latest(tx[t].inv) = NoAttempt THEN "none"
           ELSE attempts[Latest(tx[t].inv)].status
Compared(t) ==
    [tx[t] EXCEPT !.pc = "locked", !.row = FlushedRows(t), !.view = Seen(t),
                  !.att = Latest(tx[t].inv), !.was = Read(t), !.sub = sub]

(* The answers it goes by are the ERP's, of the fetch or newer.            *)
LEMMA SeenTyped ==
    ASSUME Bookkeeping, NEW t \in Agents, tx[t].pc = "fetched"
    PROVE  /\ Seen(t) \in [tx[t].touched -> RowStatuses]
           /\ FlushedRows(t) \in [tx[t].touched -> RowStatuses]
           /\ \A j \in tx[t].touched :
                 Seen(t)[j] = "paid" =>
                     tx[t].view[j] = "paid" \/ erp[j] = "paid"
<1> DEFINE i == tx[t].inv
           S == tx[t].touched
<1>1. /\ S \in SUBSET Invoices /\ i \in Invoices /\ i \in S
      /\ tx[t].view \in [S -> RowStatuses]
  BY AtRows DEF OnRows, RowsFormed
<1>2. /\ RowOf[erp[i]] \in RowStatuses
      /\ RowOf[erp[i]] = "paid" => erp[i] = "paid"
  <2>1. erp[i] \in {"open", "paid", "credited"}
    BY <1>1 DEF Bookkeeping, Typed
  <2> QED  BY <2>1 DEF RowOf, RowStatuses
<1>3. Seen(t) \in [S -> RowStatuses]
  BY <1>1, <1>2 DEF Seen
<1>4. ASSUME NEW j \in S, Seen(t)[j] = "paid"
      PROVE  tx[t].view[j] = "paid" \/ erp[j] = "paid"
  <2>1. CASE j = i
    BY <2>1, <1>1, <1>2, <1>4 DEF Seen
  <2>2. CASE j # i
    BY <2>2, <1>1, <1>4 DEF Seen
  <2> QED  BY <2>1, <2>2
<1>5. ASSUME NEW j \in S
      PROVE  StoredRow(invoice[j], tx[t].row[j], tx[t].view[j], Seen(t)[j])
                 \in RowStatuses
  <2>1. /\ invoice[j] \in RowStatuses /\ tx[t].view[j] \in RowStatuses
        /\ Seen(t)[j] \in RowStatuses
    BY <1>1, <1>3 DEF Bookkeeping, Typed
  <2> QED  BY <2>1, StoredIsOne
<1>6. FlushedRows(t) \in [S -> RowStatuses]
  BY <1>5 DEF FlushedRows
<1> QED  BY <1>3, <1>4, <1>6

(* The transaction that compared is one that may hold locks, with the      *)
(* latest attempt of its invoice (reconcile_tenant_billing).               *)
LEMMA ComparedFormed ==
    ASSUME Bookkeeping, NEW t \in Agents,
           tx[t].pc = "fetched", tx[t].op = "reconcile"
    PROVE  LET r == Compared(t)
           IN  /\ r \in Transactions /\ Formed(t, r, attempts)
               /\ r.pc = "locked" /\ r.op = "reconcile"
               /\ r.row = FlushedRows(t) /\ r.view = Seen(t)
               /\ r.touched = tx[t].touched
<1> DEFINE i == tx[t].inv
           S == tx[t].touched
           r == Compared(t)
<1>1. /\ t # "hook" /\ tx[t] \in Transactions /\ S \in SUBSET Invoices
      /\ RowsFormed(t, tx[t], attempts)
  BY AtRows DEF OnRows
<1>2. /\ t \notin Payers /\ tx[t].tenant \in TenantStatuses /\ i \in S
  BY <1>1 DEF RowsFormed
<1>3. /\ Seen(t) \in [S -> RowStatuses]
      /\ FlushedRows(t) \in [S -> RowStatuses]
  BY SeenTyped
<1>4. Seen(t) \in Columns(RowStatuses) /\ FlushedRows(t) \in Columns(RowStatuses)
  BY <1>1, <1>3, ColumnsOf
<1>5. /\ recent \in Seq(AttemptIds) /\ Listed(recent, Len(attempts))
      /\ attempts \in Seq(AttemptRows) /\ sub \in SubscriptionStatuses
  BY DEF Bookkeeping, Typed
<1>6. CASE Latest(i) = NoAttempt
  <2>1. Read(t) = "none"
    BY <1>6 DEF Read
  <2>2. r \in Transactions
    BY <1>1, <1>4, <1>5, <1>6, <2>1 DEF Compared, Transactions
  <2>3. /\ r.pc = "locked" /\ r.op = "reconcile" /\ r.row = FlushedRows(t)
        /\ r.view = Seen(t) /\ r.touched = S /\ r.inv = i
        /\ r.att = NoAttempt /\ r.was = "none" /\ r.tenant = tx[t].tenant
    BY <1>1, <1>6, <2>1 DEF Compared, Transactions
  <2> HIDE DEF r
  <2>4. RowsFormed(t, r, attempts)
    BY <1>1, <1>2, <1>3, <2>3 DEF RowsFormed
  <2>5. Formed(t, r, attempts)
    BY <2>3, <2>4 DEF Formed, OnHook
  <2> QED  BY <2>2, <2>3, <2>5 DEF r
<1>7. CASE Latest(i) # NoAttempt
  <2>1. Latest(i) \in Attempts /\ attempts[Latest(i)].invoice = i
    BY <1>5, <1>7, LatestListed
  <2>2. attempts[Latest(i)] \in AttemptRows
    BY <1>5, <2>1 DEF Attempts
  <2>3. Read(t) = attempts[Latest(i)].status /\ Read(t) \in AttemptStatuses
    BY <1>7, <2>2 DEF Read, AttemptRows
  <2>4. Latest(i) \in AttemptIds
    <3>1. {recent[k] : k \in 1 .. Len(recent)} = Attempts
      BY <1>5 DEF Listed, Attempts
    <3>2. PICK k \in 1 .. Len(recent) : recent[k] = Latest(i)
      BY <2>1, <3>1
    <3> QED  BY <1>5, <3>2
  <2>5. r \in Transactions
    BY <1>1, <1>4, <1>5, <2>3, <2>4 DEF Compared, Transactions
  <2>6. /\ r.pc = "locked" /\ r.op = "reconcile" /\ r.row = FlushedRows(t)
        /\ r.view = Seen(t) /\ r.touched = S /\ r.inv = i
        /\ r.att = Latest(i) /\ r.was = Read(t) /\ r.tenant = tx[t].tenant
    BY <1>1 DEF Compared, Transactions
  <2> HIDE DEF r
  <2>7. RowsFormed(t, r, attempts)
    BY <1>1, <1>2, <1>3, <2>1, <2>3, <2>6 DEF RowsFormed, Attempts
  <2>8. Formed(t, r, attempts)
    BY <2>6, <2>7 DEF Formed, OnHook
  <2> QED  BY <2>5, <2>6, <2>8 DEF r
<1> QED  BY <1>6, <1>7

(* Comparing changes the transaction of the one who compares, nothing else *)
(* (reconcile_tenant_billing).                                             *)
LEMMA CompareMoves ==
    ASSUME Bookkeeping, NEW t \in Agents, Compare(t)
    PROVE  tx' = [tx EXCEPT ![t] = Compared(t)]
<1>1. tx \in [Agents -> Transactions]
  BY DEF Bookkeeping, Typed
<1>2. tx[t] \in Transactions
  BY <1>1
<1> QED  BY <1>1, <1>2, ZenonT(60) DEF Compare, Compared, Seen, FlushedRows, Read

(* Comparing with the ERP keeps the books (reconcile_tenant_billing).      *)
LEMMA CompareKeepsBooks ==
    ASSUME PaymentAssumption, Bookkeeping, NEW t \in Agents, Compare(t)
    PROVE  Bookkeeping'
<1>1. tx[t].pc = "fetched" /\ tx[t].op = "reconcile"
  BY Zenon DEF Compare
<1>2. t # "hook" /\ tx[t].pc # "done"
  BY <1>1, AtRows DEF OnRows
<1>3. tx' = [tx EXCEPT ![t] = Compared(t)]
  BY CompareMoves
<1>4. Compared(t) \in Transactions /\ Formed(t, Compared(t), attempts)
  BY <1>1, ComparedFormed
<1>5. UNCHANGED <<erp, invoice, attempts, recent, checkout, mail, outbox,
                  tenant, sub, faults>>
  BY DEF Compare
<1>6. invoice' \in [Invoices -> RowStatuses]
  BY <1>5 DEF Bookkeeping, Typed
<1> QED  BY <1>2, <1>3, <1>4, <1>5, <1>6, RowsOnlyKeepBooks

(* The update of one attempt: its status, and its place in the order       *)
(* (payment_attempts.status, updated_at).                                  *)
LEMMA UpdateKeepsLists ==
    ASSUME Bookkeeping, NEW a \in Attempts, NEW s \in AttemptStatuses,
           attempts' = Updated(attempts, a, s), recent' = Touch(a)
    PROVE  /\ Grown(attempts, attempts') /\ Len(attempts') = Len(attempts)
           /\ Attempts' = Attempts
           /\ attempts'[a].status = s
           /\ \A b \in Attempts : /\ attempts'[b].invoice = attempts[b].invoice
                                  /\ b # a => attempts'[b] = attempts[b]
           /\ recent' \in Seq(AttemptIds) /\ Listed(recent', Len(attempts))
           /\ \A S : LastAmong(recent', S) =
                      IF a \in S THEN a ELSE LastAmong(recent, S)
<1>1. /\ attempts \in Seq(AttemptRows) /\ recent \in Seq(AttemptIds)
      /\ Listed(recent, Len(attempts)) /\ a \in 1 .. Len(attempts)
  BY DEF Bookkeeping, Typed, Attempts
<1>2. /\ Grown(attempts, attempts') /\ Len(attempts') = Len(attempts)
      /\ attempts'[a].status = s
      /\ \A b \in 1 .. Len(attempts) : b # a => attempts'[b] = attempts[b]
  BY <1>1, StatusUpdate
<1>3. recent' = Moved(recent, a)
  BY OnRecent
<1>4. recent' \in Seq(AttemptIds)
  BY <1>1, <1>3, MovedEntries
<1>5. Listed(recent', Len(attempts))
  BY <1>1, <1>3, MovedListed
<1>6. Attempts' = Attempts
  BY <1>2 DEF Attempts
<1>7. \A b \in Attempts : /\ attempts'[b].invoice = attempts[b].invoice
                          /\ b # a => attempts'[b] = attempts[b]
  BY <1>2 DEF Attempts, Grown
<1>8. \A S : LastAmong(recent', S) = IF a \in S THEN a ELSE LastAmong(recent, S)
  BY <1>1, <1>3, LastAmongMoved
<1> QED  BY <1>2, <1>4, <1>5, <1>6, <1>7, <1>8

(* The verdict on an attempt: as it was, paid, or for an operator          *)
(* (reconcile_tenant_billing); without an attempt there is none.           *)
LEMMA ReviewedIs ==
    ASSUME NEW row, NEW s
    PROVE  \/ Reviewed(row, s) = s
           \/ /\ s # "none"
              /\ Reviewed(row, s) \in {"paid", "reconciliation_required"}
BY DEF Reviewed

(* A repaired status is a status (_apply_paid_repair).                     *)
LEMMA RepairedTyped ==
    ASSUME NEW s \in TenantStatuses, NEW runtime
    PROVE  Repaired(s, runtime) \in TenantStatuses
<1>1. {"active", "pending"} \subseteq TenantStatuses
  BY DEF TenantStatuses
<1>2. \A u \in TenantStatuses : AfterPaymentConfirmed(u) \in TenantStatuses
  <2>1. ASSUME NEW u \in TenantStatuses
        PROVE  AfterPaymentConfirmed(u) \in TenantStatuses
    <3>1. StatusAfter("confirm", u) \in TenantStatuses
      BY StatusOfEvent
    <3>2. StatusAfter("confirm", u) = AfterPaymentConfirmed(u)
      BY DEF StatusAfter
    <3> QED  BY <3>1, <3>2
  <2> QED  BY <2>1
<1>3. AfterPaymentConfirmed("pending") \in TenantStatuses
  BY <1>1, <1>2
<1> QED  BY <1>1, <1>2, <1>3 DEF Repaired

(* Where a reconciliation goes on when it is over (After).                 *)
LEMMA AfterFormed ==
    ASSUME Bookkeeping, NEW t \in Agents, tx[t].pc \in OnRows
    PROVE  After(t) \in Transactions /\ Formed(t, After(t), attempts)
           /\ After(t).pc \in {"idle", "done"}
<1>1. tx[t].inv \in Invoices
  BY AtRows
<1>2. [Idle EXCEPT !.inv = tx[t].inv] \in Transactions
  BY <1>1, IdleTyped DEF Transactions
<1>3. [Idle EXCEPT !.inv = tx[t].inv].pc = "idle"
  BY DEF Idle
<1> QED  BY <1>2, <1>3, IdleTyped, IdlePlaces, RestFormed DEF After

(* What the reconciliation commits is flushed rows among the others.       *)
LEMMA CommittedTyped ==
    ASSUME Bookkeeping, NEW t \in Agents, tx[t].pc \in OnRows
    PROVE  Committed(t) \in [Invoices -> RowStatuses]
<1>1. tx[t].row \in [tx[t].touched -> RowStatuses]
  BY AtRows DEF RowsFormed
<1>2. invoice \in [Invoices -> RowStatuses]
  BY DEF Bookkeeping, Typed
<1> QED  BY <1>1, <1>2 DEF Committed

(* What the reconciliation does to the attempts: nothing, or the one it    *)
(* read becomes paid or an operator's (reconcile_tenant_billing).          *)
Verdict(t) == Reviewed(tx[t].view[tx[t].inv], tx[t].was)

(* A reconciliation ends with the rows committed and at most its attempt   *)
(* updated (reconcile_tenant_billing).                                     *)
LEMMA ReconcileMoves ==
    ASSUME Bookkeeping, NEW t \in Agents, Reconcile(t)
    PROVE  /\ t # "hook" /\ tx[t].pc = "locked" /\ tx[t].inv \in tx[t].touched
           /\ tx[t].view \in [tx[t].touched -> RowStatuses]
           /\ tx' = [tx EXCEPT ![t] = After(t)]
           /\ \/ UNCHANGED <<attempts, recent>>
              \/ /\ tx[t].att \in Attempts
                 /\ attempts[tx[t].att].invoice = tx[t].inv
                 /\ Verdict(t) \in {"paid", "reconciliation_required"}
                 /\ attempts' = Updated(attempts, tx[t].att, Verdict(t))
                 /\ recent' = Touch(tx[t].att)
<1>1. tx[t].pc = "locked" /\ tx[t].op = "reconcile"
  BY DEF Reconcile
<1>2. t # "hook" /\ RowsFormed(t, tx[t], attempts)
  BY <1>1, AtRows DEF OnRows
<1>3. /\ tx[t].inv \in tx[t].touched
      /\ tx[t].view \in [tx[t].touched -> RowStatuses]
      /\ \/ tx[t].att = NoAttempt /\ tx[t].was = "none"
         \/ /\ tx[t].att \in Attempts /\ tx[t].was \in AttemptStatuses
            /\ attempts[tx[t].att].invoice = tx[t].inv
  BY <1>1, <1>2 DEF RowsFormed, Attempts
<1>4. tx' = [tx EXCEPT ![t] = After(t)]
  BY DEF Reconcile
<1>5. CASE Verdict(t) = tx[t].was
  <2>1. UNCHANGED <<attempts, recent>>
    BY <1>5 DEF Reconcile, Verdict
  <2> QED  BY <2>1, <1>1, <1>2, <1>3, <1>4
<1>6. CASE Verdict(t) # tx[t].was
  <2>1. /\ attempts' = [attempts EXCEPT ![tx[t].att].status = Verdict(t)]
        /\ recent' = Touch(tx[t].att)
    BY <1>6 DEF Reconcile, Verdict
  <2>2. attempts' = Updated(attempts, tx[t].att, Verdict(t))
    BY <2>1 DEF Updated
  <2>3. /\ Verdict(t) \in {"paid", "reconciliation_required"}
        /\ tx[t].was # "none"
    BY <1>6, ReviewedIs DEF Verdict
  <2> QED  BY <2>1, <2>2, <2>3, <1>1, <1>2, <1>3, <1>4
<1> QED  BY <1>5, <1>6

(* The commit of a reconciliation keeps the books                          *)
(* (reconcile_tenant_billing).                                             *)
LEMMA ReconcileKeepsBooks ==
    ASSUME PaymentAssumption, Bookkeeping, NEW t \in Agents, Reconcile(t)
    PROVE  Bookkeeping'
<1>1. /\ t # "hook" /\ tx[t].pc = "locked" /\ tx' = [tx EXCEPT ![t] = After(t)]
  BY ReconcileMoves
<1>2. tx[t].pc \in OnRows /\ tx[t].op = "reconcile" /\ tx[t].pc # "done"
  BY <1>1 DEF OnRows, Reconcile
<1>3. UNCHANGED <<erp, checkout, mail, outbox, faults>>
  BY DEF Reconcile
<1>4. invoice' \in [Invoices -> RowStatuses]
  BY <1>2, CommittedTyped DEF Reconcile
<1>5. /\ tenant \in TenantStatuses /\ sub \in SubscriptionStatuses
      /\ attempts \in Seq(AttemptRows) /\ recent \in Seq(AttemptIds)
      /\ Listed(recent, Len(attempts))
  BY DEF Bookkeeping, Typed
<1>6. tenant' \in TenantStatuses
  <2>1. tx[t].tenant \in TenantStatuses
    BY <1>2, AtRows DEF RowsFormed
  <2>2. PICK runtime \in Probes :
            tenant' \in {tenant, Stored(tenant, tx[t].tenant,
                                        Repaired(tx[t].tenant, runtime))}
    BY DEF Reconcile
  <2>3. Repaired(tx[t].tenant, runtime) \in TenantStatuses
    BY <2>1, RepairedTyped
  <2> QED  BY <2>2, <2>3, <1>5, StoredIsOne
<1>7. sub' \in SubscriptionStatuses
  <2>1. sub' \in {sub, Stored(sub, tx[t].sub, "active")}
    BY DEF Reconcile
  <2>2. "active" \in SubscriptionStatuses
    BY DEF SubscriptionStatuses
  <2> QED  BY <2>1, <2>2, <1>5, StoredIsOne
<1>8. /\ Grown(attempts, attempts') /\ Len(attempts') = Len(attempts)
      /\ recent' \in Seq(AttemptIds) /\ Listed(recent', Len(attempts))
  <2>1. CASE UNCHANGED <<attempts, recent>>
    BY <2>1, <1>5, GrownSame
  <2>2. CASE /\ tx[t].att \in Attempts
             /\ Verdict(t) \in {"paid", "reconciliation_required"}
             /\ attempts' = Updated(attempts, tx[t].att, Verdict(t))
             /\ recent' = Touch(tx[t].att)
    <3>1. Verdict(t) \in AttemptStatuses
      BY <2>2 DEF AttemptStatuses
    <3> QED  BY <2>2, <3>1, UpdateKeepsLists
  <2> QED  BY <2>1, <2>2, ReconcileMoves
<1>9. After(t) \in Transactions /\ Formed(t, After(t), attempts')
  BY <1>2, <1>8, AfterFormed, FormedGrown
<1> QED  BY <1>1, <1>2, <1>3, <1>4, <1>6, <1>7, <1>8, <1>9, RowStepKeepsBooks

(* What the webhook holds while it handles an event.                       *)
LEMMA AtHook ==
    ASSUME Bookkeeping, tx["hook"].pc \in OnHook
    PROVE  /\ HookFormed("hook", tx["hook"], attempts)
           /\ tx["hook"] \in Transactions /\ tx["hook"].pc # "done"
           /\ Event \in ProviderEvents /\ Event[2] \in Attempts
           /\ mail[Notice(Event)] = "due"
           /\ EventType(Event) = "confirm" => Provider = "dpo"
           /\ EventType(Event) = "confirm" => checkout[Event[2]] = "paid"
<1>1. Formed("hook", tx["hook"], attempts) /\ tx["hook"] \in Transactions
  BY HookAgent DEF Bookkeeping, Typed
<1>2. HookFormed("hook", tx["hook"], attempts)
  BY <1>1 DEF Formed
<1>3. /\ Event \in ProviderEvents /\ Event[2] \in Attempts
      /\ EventType(Event) = "confirm" => Provider = "dpo"
  BY <1>2 DEF HookFormed, Event, Attempts
<1>4. /\ mail[Notice(Event)] = "due"
      /\ EventType(Event) = "confirm" => checkout[Event[2]] = "paid"
  BY DEF Bookkeeping, Posted, InHand, Event
<1>5. tx["hook"].pc # "done"
  BY DEF OnHook
<1> QED  BY <1>1, <1>2, <1>3, <1>4, <1>5

(* A key that is too wide for its column is never stored: only dpo's       *)
(* confirmations get through (payment_event_outbox.dedup_key).             *)
LEMMA ConfirmedByDpo ==
    ASSUME PaymentAssumption, KeyLength("confirm") <= KeyWidth
    PROVE  Provider = "dpo"
<1>1. Provider \in {"dpo", "azampay"}
  BY DEF PaymentAssumption
<1>2. CASE Provider = "azampay"
  <2>1. KeyLength("confirm") = 129
    BY <1>2 DEF KeyLength
  <2> QED  BY <2>1 DEF KeyWidth
<1> QED  BY <1>1, <1>2

(* The state of one event moves on in the outbox (payment_event_outbox).   *)
LEMMA OutboxKeepsPosted ==
    ASSUME Bookkeeping, Grown(attempts, attempts'),
           UNCHANGED <<checkout, mail>>,
           NEW e \in ProviderEvents, mail[Notice(e)] = "due",
           EventType(e) = "confirm" => Provider = "dpo",
           NEW s \in {"processing", "failed", "processed"},
           outbox' = outbox \/ outbox' = [outbox EXCEPT ![e] = s],
           InHand(tx'["hook"])
    PROVE  /\ Posted'
           /\ outbox' \in [ProviderEvents -> {"none", "processing", "failed",
                                              "processed"}]
<1>1. outbox \in [ProviderEvents -> {"none", "processing", "failed",
                                     "processed"}]
  BY DEF Bookkeeping, Typed
<1>2. Posted
  BY DEF Bookkeeping
<1>3. Attempts \subseteq Attempts'
  BY DEF Attempts, Grown
<1>4. \A d \in ProviderEvents : d # e => outbox'[d] = outbox[d]
  BY <1>1
<1>5. \A a \in AttemptIds : checkout'[a] # "none" => a \in Attempts'
  BY <1>2, <1>3 DEF Posted
<1>6. \A n \in Notices : mail'[n] # "none" => checkout'[n[2]] # "none"
  BY <1>2 DEF Posted
<1>7. \A a \in AttemptIds :
          mail'[<<"confirm", a>>] # "none" => checkout'[a] = "paid"
  BY <1>2 DEF Posted
<1>8. \A d \in ProviderEvents :
          outbox'[d] # "none" => mail'[Notice(d)] # "none"
  <2>1. mail'[Notice(e)] # "none"
    OBVIOUS
  <2>2. \A d \in ProviderEvents :
            d # e /\ outbox'[d] # "none" => mail'[Notice(d)] # "none"
    BY <1>2, <1>4 DEF Posted
  <2> QED  BY <2>1, <2>2
<1>9. \A a \in AttemptIds :
          mail'[<<"confirm", a>>] = "acked"
            \/ outbox'[<<"confirm", a>>] # "none" => Provider = "dpo"
  <2>1. ASSUME NEW a \in AttemptIds, mail[<<"confirm", a>>] = "acked"
        PROVE  Provider = "dpo"
    BY <2>1, <1>2 DEF Posted
  <2>2. ASSUME NEW a \in AttemptIds, outbox'[<<"confirm", a>>] # "none"
        PROVE  Provider = "dpo"
    <3>1. <<"confirm", a>> \in ProviderEvents
      BY EventPairs
    <3>2. CASE <<"confirm", a>> = e
      <4>1. EventType(e) = "confirm"
        BY <3>2, EventPairs
      <4> QED  BY <4>1
    <3>3. CASE <<"confirm", a>> # e
      <4>1. outbox[<<"confirm", a>>] # "none"
        BY <3>1, <3>3, <2>2, <1>4
      <4> QED  BY <4>1, <1>2 DEF Posted
    <3> QED  BY <3>2, <3>3
  <2> QED  BY <2>1, <2>2
<1>10. InHand(tx["hook"])'
  BY DEF InHand
<1>11. outbox' \in [ProviderEvents -> {"none", "processing", "failed",
                                       "processed"}]
  BY <1>1
<1> QED  BY <1>5, <1>6, <1>7, <1>8, <1>9, <1>10, <1>11 DEF Posted

(* A delivery is received (handle_gateway_webhook, ensure_outbox_event).   *)
Received(e, pc) == [tx["hook"] EXCEPT !.pc = pc, !.event = e]

(* A delivery that was received names an attempt whose message is due      *)
(* (handle_gateway_webhook).                                               *)
LEMMA ReceivedFormed ==
    ASSUME PaymentAssumption, Bookkeeping, NEW e \in ProviderEvents,
           Receive(e)
    PROVE  \E pc \in {"received", "answer"} :
              LET r == Received(e, pc)
              IN  /\ tx' = [tx EXCEPT !["hook"] = r] /\ r \in Transactions
                  /\ Formed("hook", r, attempts) /\ r.pc = pc /\ r.event = e
                  /\ tx["hook"].pc = "idle" /\ InHand(r)
                  /\ mail[Notice(e)] = "due"
                  /\ EventType(e) = "confirm" => Provider = "dpo"
                  /\ \/ pc = "received"
                        /\ outbox' = [outbox EXCEPT ![e] = "processing"]
                     \/ /\ pc = "answer" /\ outbox[e] = "processed"
                        /\ outbox' = outbox
<1>1. tx \in [Agents -> Transactions] /\ tx["hook"] \in Transactions
  BY HookAgent DEF Bookkeeping, Typed
<1>2. /\ tx["hook"].pc = "idle" /\ mail[Notice(e)] = "due"
      /\ KeyLength(EventType(e)) <= KeyWidth
  BY DEF Receive, Hook, Deliverable
<1>3. EventType(e) = "confirm" => Provider = "dpo" /\ checkout[e[2]] = "paid"
  BY <1>2, ConfirmedByDpo DEF Receive, Deliverable, Parsed
<1>4. e[2] \in 1 .. Len(attempts)
  <2>1. e[2] \in AttemptIds /\ checkout[e[2]] # "none"
    BY <1>2, EventParts DEF Bookkeeping, Posted
  <2> QED  BY <2>1 DEF Bookkeeping, Posted, Attempts
<1>5. ASSUME NEW pc \in {"received", "answer"}
      PROVE  /\ Received(e, pc) \in Transactions
             /\ Formed("hook", Received(e, pc), attempts)
             /\ Received(e, pc).pc = pc /\ Received(e, pc).event = e
             /\ InHand(Received(e, pc))
  <2>1. PICK r : r = Received(e, pc)
    OBVIOUS
  <2>2. r \in Transactions /\ r.pc = pc /\ r.event = e
    BY <2>1, <1>1 DEF Received, Transactions
  <2>3. HookFormed("hook", r, attempts)
    BY <2>2, <1>3, <1>4 DEF HookFormed
  <2>4. Formed("hook", r, attempts)
    BY <2>2, <2>3 DEF Formed, OnRows
  <2>5. InHand(r)
    BY <2>2, <1>2, <1>3 DEF InHand
  <2> QED  BY <2>1, <2>2, <2>4, <2>5
<1>6. CASE outbox[e] = "processed"
  <2>1. /\ tx' = [tx EXCEPT !["hook"] = Received(e, "answer")]
        /\ outbox' = outbox
    BY <1>1, <1>6 DEF Receive, Received
  <2> QED  BY <2>1, <1>2, <1>3, <1>5, <1>6
<1>7. CASE outbox[e] # "processed"
  <2>1. /\ tx' = [tx EXCEPT !["hook"] = Received(e, "received")]
        /\ outbox' = [outbox EXCEPT ![e] = "processing"]
    BY <1>1, <1>7 DEF Receive, Received
  <2> QED  BY <2>1, <1>2, <1>3, <1>5, <1>7
<1> QED  BY <1>6, <1>7

(* Receiving a delivery, the first one or again, keeps the books           *)
(* (handle_gateway_webhook).                                               *)
LEMMA ReceiveKeepsBooks ==
    ASSUME PaymentAssumption, Bookkeeping, NEW e \in ProviderEvents,
           Receive(e)
    PROVE  Bookkeeping'
<1>1. PICK pc \in {"received", "answer"}, r \in Transactions :
          /\ tx' = [tx EXCEPT !["hook"] = r]
          /\ Formed("hook", r, attempts) /\ r.pc = pc /\ r.event = e
          /\ tx["hook"].pc = "idle" /\ InHand(r)
          /\ mail[Notice(e)] = "due"
          /\ EventType(e) = "confirm" => Provider = "dpo"
          /\ outbox' = outbox \/ outbox' = [outbox EXCEPT ![e] = "processing"]
  BY ReceivedFormed
<1>2. UNCHANGED <<erp, invoice, attempts, recent, checkout, mail, tenant, sub,
                  faults>>
  BY DEF Receive
<1>3. Grown(attempts, attempts')
  BY <1>2, GrownSame DEF Bookkeeping, Typed
<1>4. /\ tx' \in [Agents -> Transactions] /\ tx'["hook"] = r /\ Counted'
      /\ \A t \in Agents : Formed(t, tx'[t], attempts')
  BY <1>1, <1>2, <1>3, HookAgent, OneMoves
<1>5. /\ Posted'
      /\ outbox' \in [ProviderEvents -> {"none", "processing", "failed",
                                         "processed"}]
  BY <1>1, <1>2, <1>3, <1>4, OutboxKeepsPosted
<1>6. Typed'
  BY <1>2, <1>4, <1>5 DEF Bookkeeping, Typed
<1>7. Listed(recent, Len(attempts))'
  BY <1>2 DEF Bookkeeping
<1> QED  BY <1>4, <1>5, <1>6, <1>7 DEF Bookkeeping

(* The attempt an event is resolved to exists; by a token it is the one    *)
(* the event is about (_resolve_invoice_backed_context).                   *)
LEMMA ResolvedListed ==
    ASSUME Bookkeeping, NEW e \in ProviderEvents, e[2] \in Attempts
    PROVE  /\ Resolved(e) \in Attempts
           /\ Provider = "dpo" => Resolved(e) = e[2]
<1>1. CASE Provider = "dpo"
  BY <1>1 DEF Resolved
<1>2. CASE Provider # "dpo"
  <2> DEFINE A == {a \in Attempts : Active(a)}
             S == IF A # {} THEN A ELSE Attempts
  <2>1. S \subseteq Attempts /\ S # {}
    OBVIOUS
  <2>2. Resolved(e) = LastAmong(recent, S)
    BY <1>2, OnRecent DEF Resolved
  <2> HIDE DEF S
  <2>3. recent \in Seq(AttemptIds) /\ {recent[k] : k \in 1 .. Len(recent)} = Attempts
    BY DEF Bookkeeping, Typed, Listed, Attempts
  <2>4. PICK k \in 1 .. Len(recent) : recent[k] \in S
    BY <2>1, <2>3
  <2>5. LastAmong(recent, S) \in S
    BY <2>3, <2>4, LastAmongFound
  <2> QED  BY <1>2, <2>1, <2>2, <2>5
<1> QED  BY <1>1, <1>2

(* What the webhook reads of its attempt, the invoice, the tenant and the  *)
(* subscription (process_event).                                           *)
InContext(a) ==
    [tx["hook"] EXCEPT !.pc = "context", !.att = a,
                       !.was = attempts[a].status,
                       !.inv = attempts[a].invoice,
                       !.row = Rows({attempts[a].invoice}),
                       !.view = View({attempts[a].invoice}),
                       !.tenant = tenant, !.sub = sub]

(* The webhook holds the attempt its event was resolved to, with the       *)
(* invoice of that attempt (_resolve_invoice_backed_context).              *)
LEMMA ContextFormed ==
    ASSUME Bookkeeping, Context
    PROVE  LET a == Resolved(Event)
               r == InContext(a)
               i == attempts[a].invoice
           IN  /\ tx' = [tx EXCEPT !["hook"] = r] /\ r \in Transactions
               /\ Formed("hook", r, attempts) /\ r.pc = "context"
               /\ tx["hook"].pc = "received" /\ r.event = Event
               /\ r.att = a /\ r.was = attempts[a].status /\ r.inv = i
               /\ r.row = Rows({i}) /\ r.view = View({i})
               /\ a \in Attempts /\ i \in Invoices
<1>1. PICK a : a = Resolved(Event)
  OBVIOUS
<1>2. PICK i : i = attempts[a].invoice
  OBVIOUS
<1>3. PICK r : r = InContext(a)
  OBVIOUS
<1>4. tx["hook"].pc = "received" /\ tx["hook"] \in Transactions
  BY HookAgent DEF Context, Hook, Bookkeeping, Typed
<1>5. HookFormed("hook", tx["hook"], attempts) /\ Event \in ProviderEvents
      /\ Event[2] \in Attempts
  BY <1>4, AtHook DEF OnHook
<1>6. a \in Attempts /\ (Provider = "dpo" => a = Event[2])
  BY <1>1, <1>5, ResolvedListed
<1>7. attempts[a] \in AttemptRows /\ a \in AttemptIds
  <2>1. /\ attempts \in Seq(AttemptRows) /\ recent \in Seq(AttemptIds)
        /\ {recent[k] : k \in 1 .. Len(recent)} = Attempts
    BY DEF Bookkeeping, Typed, Listed, Attempts
  <2>2. PICK k \in 1 .. Len(recent) : recent[k] = a
    BY <1>6, <2>1
  <2> QED  BY <1>6, <2>1, <2>2 DEF Attempts
<1>8. i \in Invoices /\ attempts[a].status \in AttemptStatuses
  BY <1>2, <1>7 DEF AttemptRows
<1>9. Rows({i}) \in [{i} -> RowStatuses] /\ View({i}) \in [{i} -> RowStatuses]
  BY <1>8, RowOfTyped DEF Rows, Bookkeeping, Typed
<1>10. Rows({i}) \in Columns(RowStatuses) /\ View({i}) \in Columns(RowStatuses)
  BY <1>8, <1>9, ColumnsOf
<1>11. tenant \in TenantStatuses /\ sub \in SubscriptionStatuses
  BY DEF Bookkeeping, Typed
<1>12. /\ r \in Transactions /\ r.pc = "context" /\ r.event = Event
       /\ r.att = a /\ r.was = attempts[a].status /\ r.inv = i
       /\ r.row = Rows({i}) /\ r.view = View({i}) /\ r.tenant = tenant
  <2>1. PICK x : x = tx["hook"]
    OBVIOUS
  <2>2. PICK u, v, w, z : /\ u = Rows({i}) /\ v = View({i}) /\ w = tenant
                          /\ z = attempts[a].status
    OBVIOUS
  <2>3. r = [x EXCEPT !.pc = "context", !.att = a, !.was = z, !.inv = i,
                      !.row = u, !.view = v, !.tenant = w, !.sub = sub]
    BY <1>2, <1>3, <2>1, <2>2 DEF InContext
  <2>4. x \in Transactions
    BY <1>4, <2>1
  <2>5. /\ u \in Columns(RowStatuses) /\ v \in Columns(RowStatuses)
        /\ z \in AttemptStatuses /\ w \in TenantStatuses
    BY <1>8, <1>10, <1>11, <2>2
  <2>6. r \in Transactions
    BY <2>3, <2>4, <2>5, <1>7, <1>8, <1>11 DEF Transactions
  <2>7. /\ r.pc = "context" /\ r.event = x.event /\ r.att = a /\ r.was = z
        /\ r.inv = i /\ r.row = u /\ r.view = v /\ r.tenant = w
    BY <2>3, <2>4 DEF Transactions
  <2> QED  BY <2>1, <2>2, <2>6, <2>7 DEF Event
<1>13. HookFormed("hook", r, attempts)
  BY <1>2, <1>5, <1>6, <1>8, <1>9, <1>11, <1>12 DEF HookFormed, Attempts, Event
<1>14. Formed("hook", r, attempts)
  BY <1>12, <1>13 DEF Formed, OnRows
<1>15. tx' = [tx EXCEPT !["hook"] = r]
  BY <1>1, <1>3 DEF Context, InContext
<1> QED  BY <1>1, <1>2, <1>3, <1>4, <1>6, <1>8, <1>12, <1>14, <1>15

(* Resolving an event keeps the books (_resolve_invoice_backed_context).   *)
LEMMA ContextKeepsBooks ==
    ASSUME PaymentAssumption, Bookkeeping, Context
    PROVE  Bookkeeping'
<1>1. PICK r : /\ tx' = [tx EXCEPT !["hook"] = r] /\ r \in Transactions
               /\ Formed("hook", r, attempts)
               /\ tx["hook"].pc = "received" /\ r.event = Event
  BY ContextFormed
<1>2. InHand(r) /\ tx["hook"].pc # "done"
  BY <1>1, AtHook DEF OnHook, InHand
<1>3. UNCHANGED <<erp, invoice, attempts, recent, checkout, mail, outbox,
                  tenant, sub, faults>>
  BY DEF Context
<1>4. Grown(attempts, attempts')
  BY <1>3, GrownSame DEF Bookkeeping, Typed
<1>5. /\ tx' \in [Agents -> Transactions] /\ tx'["hook"] = r /\ Counted'
      /\ \A t \in Agents : Formed(t, tx'[t], attempts')
  BY <1>1, <1>2, <1>3, <1>4, HookAgent, OneMoves
<1>6. Posted'
  BY <1>1, <1>2, <1>3, <1>4, <1>5, PostedKept
<1>7. Typed'
  BY <1>3, <1>5 DEF Bookkeeping, Typed
<1>8. Listed(recent, Len(attempts))'
  BY <1>3 DEF Bookkeeping
<1> QED  BY <1>5, <1>6, <1>7, <1>8 DEF Bookkeeping

(* What a webhook writes: the row of its invoice if the payment is         *)
(* confirmed, the status of its attempt, tenant and subscription           *)
(* (process_event, _settle_invoice_locally).                               *)
Outcome(kind) == [confirm |-> "paid", fail |-> "failed"][kind]
SettledAs(row) == IF Settled(row) THEN row ELSE "paid"

Applied(h, s, r) ==
    /\ h = tx["hook"] /\ h.pc = "context" /\ h.att \in Attempts
    /\ h.inv = attempts[h.att].invoice /\ h.inv \in Invoices
    /\ h.was \in AttemptStatuses
    /\ Provider = "dpo" => h.att = Event[2]
    /\ h.view \in [{h.inv} -> RowStatuses]
    /\ s = Stored(attempts[h.att].status, h.was, Outcome(EventType(Event)))
    /\ s \in AttemptStatuses
    /\ EventType(Event) \in {"confirm", "fail"}
    /\ Outcome("confirm") = "paid" /\ Outcome("fail") = "failed"
    /\ attempts' = Updated(attempts, h.att, s)
    /\ recent' = Touch(h.att)
    /\ \/ /\ EventType(Event) = "confirm"
          /\ invoice' = [invoice EXCEPT ![h.inv] =
                 StoredRow(invoice[h.inv], h.row[h.inv],
                           h.view[h.inv], SettledAs(h.view[h.inv]))]
       \/ EventType(Event) = "fail" /\ invoice' = invoice
    /\ r \in Transactions /\ r.pc = "applied" /\ r.event = Event
    /\ tx' = [tx EXCEPT !["hook"] = r]

(* Applying an event writes that and nothing else (process_event).         *)
LEMMA ApplyMoves ==
    ASSUME Bookkeeping, Apply
    PROVE  \E h, s, r : Applied(h, s, r)
<1>1. PICK h : h = tx["hook"]
  OBVIOUS
<1>2. PICK r : r = [Idle EXCEPT !.pc = "applied", !.event = Event]
  OBVIOUS
<1>3. h.pc = "context"
  BY <1>1 DEF Apply, Hook
<1>4. /\ HookFormed("hook", h, attempts) /\ Event \in ProviderEvents
      /\ Event = h.event
  BY <1>1, <1>3, AtHook DEF OnHook, Event
<1>5. /\ h.att \in Attempts /\ h.inv = attempts[h.att].invoice
      /\ h.was \in AttemptStatuses /\ h.view \in [{h.inv} -> RowStatuses]
      /\ Provider = "dpo" => h.att = Event[2]
  BY <1>3, <1>4 DEF HookFormed, Attempts
<1>6. EventType(Event) \in {"confirm", "fail"}
  BY <1>4, EventParts
<1>7. attempts[h.att] \in AttemptRows
  BY <1>5 DEF Bookkeeping, Typed, Attempts
<1>8. Outcome("confirm") = "paid" /\ Outcome("fail") = "failed"
  BY DEF Outcome
<1>9. PICK s :
          s = Stored(attempts[h.att].status, h.was, Outcome(EventType(Event)))
  OBVIOUS
<1>10. s \in AttemptStatuses
  <2>1. /\ Outcome(EventType(Event)) \in AttemptStatuses
        /\ attempts[h.att].status \in AttemptStatuses
    BY <1>6, <1>7, <1>8 DEF AttemptRows, AttemptStatuses
  <2> QED  BY <2>1, <1>9, StoredIsOne
<1>11. attempts' = Updated(attempts, h.att, s) /\ recent' = Touch(h.att)
  BY <1>1, <1>9 DEF Apply, Outcome, Updated
<1>12. r \in Transactions /\ r.pc = "applied" /\ r.event = Event
  <2>1. r.pc = "applied" /\ r.event = Event
    BY <1>2 DEF Idle
  <2>2. r = [pc |-> "applied", op |-> "none", inv |-> 0, touched |-> {},
             row |-> << >>, view |-> << >>, event |-> Event, att |-> NoAttempt,
             was |-> "none", tenant |-> "none", sub |-> "none"]
    BY <1>2 DEF Idle
  <2>3. << >> \in Columns(RowStatuses)
    BY IdleTyped DEF Transactions, Idle
  <2>4. r \in Transactions
    BY <2>2, <2>3, <1>4 DEF Transactions
  <2> QED  BY <2>1, <2>4
<1>13. tx' = [tx EXCEPT !["hook"] = r]
  BY <1>2 DEF Apply
<1>14. h.inv \in Invoices
  BY <1>5, <1>7 DEF AttemptRows
<1>15. CASE EventType(Event) = "confirm"
  <2>1. invoice' = [invoice EXCEPT ![h.inv] =
                        StoredRow(invoice[h.inv], h.row[h.inv],
                                  h.view[h.inv], SettledAs(h.view[h.inv]))]
    BY <1>1, <1>15 DEF Apply, SettledAs
  <2> QED  BY <2>1, <1>1, <1>2, <1>3, <1>5, <1>8, <1>9, <1>10, <1>11, <1>12,
              <1>13, <1>14, <1>15 DEF Applied
<1>16. CASE EventType(Event) = "fail"
  <2>1. invoice' = invoice
    BY <1>1, <1>16 DEF Apply
  <2> QED  BY <2>1, <1>1, <1>2, <1>3, <1>5, <1>8, <1>9, <1>10, <1>11, <1>12,
              <1>13, <1>14, <1>16 DEF Applied
<1> QED  BY <1>6, <1>15, <1>16

(* And the delivery goes on to the commit of what was applied.             *)
LEMMA ApplyMarks ==
    ASSUME Bookkeeping, Apply
    PROVE  \E r : /\ r.pc = "applied" /\ r.event = Event
                  /\ tx' = [tx EXCEPT !["hook"] = r]
                  /\ tx["hook"].pc = "context"
<1>1. PICK h, s, r : Applied(h, s, r)
  BY ApplyMoves
<1>2. /\ r.pc = "applied" /\ r.event = Event
      /\ tx' = [tx EXCEPT !["hook"] = r]
  BY <1>1 DEF Applied
<1>3. tx["hook"].pc = "context"
  BY <1>1 DEF Applied
<1> QED  BY <1>2, <1>3

(* Applying an event keeps the books (process_event).                      *)
LEMMA ApplyKeepsBooks ==
    ASSUME PaymentAssumption, Bookkeeping, Apply
    PROVE  Bookkeeping'
<1>1. PICK h, s, r :
          /\ h = tx["hook"] /\ h.pc = "context" /\ h.att \in Attempts
          /\ h.inv \in Invoices /\ h.view \in [{h.inv} -> RowStatuses]
          /\ s \in AttemptStatuses /\ EventType(Event) \in {"confirm", "fail"}
          /\ attempts' = Updated(attempts, h.att, s)
          /\ recent' = Touch(h.att)
          /\ \/ invoice' = [invoice EXCEPT ![h.inv] =
                        StoredRow(invoice[h.inv], h.row[h.inv],
                                  h.view[h.inv], SettledAs(h.view[h.inv]))]
             \/ invoice' = invoice
          /\ r \in Transactions /\ r.pc = "applied" /\ r.event = Event
          /\ tx' = [tx EXCEPT !["hook"] = r]
  BY ApplyMoves DEF Applied
<1>2. /\ HookFormed("hook", h, attempts) /\ InHand(r)
      /\ h.pc # "done" /\ Event = h.event
  BY <1>1, AtHook DEF OnHook, InHand, Event
<1>3. UNCHANGED <<erp, checkout, mail, outbox, faults>>
  BY DEF Apply
<1>4. /\ Grown(attempts, attempts') /\ Len(attempts') = Len(attempts)
      /\ recent' \in Seq(AttemptIds) /\ Listed(recent', Len(attempts))
  BY <1>1, UpdateKeepsLists
<1>5. Formed("hook", r, attempts')
  <2>1. HookFormed("hook", r, attempts)
    BY <1>1, <1>2 DEF HookFormed
  <2>2. Formed("hook", r, attempts)
    BY <2>1, <1>1 DEF Formed, OnRows
  <2> QED  BY <2>2, <1>4, FormedGrown
<1>6. /\ tx' \in [Agents -> Transactions] /\ tx'["hook"] = r /\ Counted'
      /\ \A t \in Agents : Formed(t, tx'[t], attempts')
  BY <1>1, <1>2, <1>4, <1>5, HookAgent, OneMoves
<1>7. Posted'
  BY <1>1, <1>2, <1>3, <1>4, <1>6, PostedKept
<1>8. invoice' \in [Invoices -> RowStatuses]
  <2>1. invoice \in [Invoices -> RowStatuses]
    BY DEF Bookkeeping, Typed
  <2>2. h.view[h.inv] \in RowStatuses /\ invoice[h.inv] \in RowStatuses
    BY <2>1, <1>1
  <2>3. SettledAs(h.view[h.inv]) \in RowStatuses
    BY <2>2 DEF SettledAs, RowStatuses
  <2>4. StoredRow(invoice[h.inv], h.row[h.inv], h.view[h.inv],
                  SettledAs(h.view[h.inv])) \in RowStatuses
    BY <2>2, <2>3, StoredIsOne
  <2> QED  BY <2>1, <2>4, <1>1
<1>9. tenant' \in TenantStatuses
  <2>1. tenant' = Stored(tenant, h.tenant, StatusAfter(EventType(Event), h.tenant))
    BY <1>1 DEF Apply
  <2>2. h.tenant \in TenantStatuses /\ tenant \in TenantStatuses
    BY <1>1, <1>2 DEF HookFormed, Bookkeeping, Typed
  <2>3. StatusAfter(EventType(Event), h.tenant) \in TenantStatuses
    BY <1>1, <2>2, StatusOfEvent
  <2> QED  BY <2>1, <2>2, <2>3, StoredIsOne
<1>10. sub' \in SubscriptionStatuses
  <2>1. sub' = Stored(sub, h.sub, AfterEvent(EventType(Event)))
    BY <1>1 DEF Apply
  <2>2. AfterEvent(EventType(Event)) \in SubscriptionStatuses
    BY <1>1 DEF AfterEvent, SubscriptionStatuses
  <2>3. sub \in SubscriptionStatuses
    BY DEF Bookkeeping, Typed
  <2> QED  BY <2>1, <2>2, <2>3, StoredIsOne
<1>11. Typed'
  <2>1. attempts' \in Seq(AttemptRows)
    BY <1>4 DEF Grown
  <2> QED  BY <2>1, <1>3, <1>4, <1>6, <1>8, <1>9, <1>10 DEF Bookkeeping, Typed
<1>12. Listed(recent, Len(attempts))'
  BY <1>4
<1> QED  BY <1>6, <1>7, <1>11, <1>12 DEF Bookkeeping

(* After the commit the event is marked processed, and the row goes to the *)
(* answer (handle_gateway_webhook).                                        *)
LEMMA MarkMoves ==
    ASSUME Bookkeeping, MarkProcessed
    PROVE  \E r \in Transactions :
               /\ tx' = [tx EXCEPT !["hook"] = r]
               /\ r.pc = "answer" /\ r.event = Event
               /\ tx["hook"].pc = "applied"
               /\ Formed("hook", r, attempts)
<1>1. PICK r : r = [tx["hook"] EXCEPT !.pc = "answer"]
  OBVIOUS
<1>2. tx["hook"].pc = "applied"
  BY DEF MarkProcessed, Hook
<1>3. tx["hook"] \in Transactions /\ HookFormed("hook", tx["hook"], attempts)
  BY <1>2, AtHook DEF OnHook
<1>4. tx \in [Agents -> Transactions]
  BY DEF Bookkeeping, Typed
<1>5. tx' = [tx EXCEPT !["hook"] = r]
  BY <1>1, <1>4, HookAgent DEF MarkProcessed
<1>6. r \in Transactions /\ r.pc = "answer" /\ r.event = Event
  BY <1>1, <1>3 DEF Transactions, Event
<1>7. HookFormed("hook", r, attempts)
  BY <1>3, <1>6 DEF HookFormed, Event
<1>8. Formed("hook", r, attempts)
  BY <1>6, <1>7 DEF Formed, OnRows
<1> QED  BY <1>2, <1>5, <1>6, <1>8

(* Marking the outbox row processed keeps the books                        *)
(* (handle_gateway_webhook).                                               *)
LEMMA MarkKeepsBooks ==
    ASSUME PaymentAssumption, Bookkeeping, MarkProcessed
    PROVE  Bookkeeping'
<1>1. PICK r \in Transactions :
               /\ tx' = [tx EXCEPT !["hook"] = r]
               /\ r.pc = "answer" /\ r.event = Event
               /\ tx["hook"].pc = "applied"
               /\ Formed("hook", r, attempts)
  BY MarkMoves
<1>2. /\ Event \in ProviderEvents /\ mail[Notice(Event)] = "due"
      /\ EventType(Event) = "confirm" => Provider = "dpo"
      /\ tx["hook"].pc # "done" /\ InHand(r)
  BY <1>1, AtHook DEF OnHook, InHand
<1>3. /\ outbox' = [outbox EXCEPT ![Event] = "processed"]
      /\ UNCHANGED <<erp, invoice, attempts, recent, checkout, mail, tenant,
                     sub, faults>>
  BY DEF MarkProcessed
<1>4. Grown(attempts, attempts')
  BY <1>3, GrownSame DEF Bookkeeping, Typed
<1>5. /\ tx' \in [Agents -> Transactions] /\ tx'["hook"] = r /\ Counted'
      /\ \A t \in Agents : Formed(t, tx'[t], attempts')
  BY <1>1, <1>2, <1>3, <1>4, HookAgent, OneMoves
<1>6. PICK e : e = Event
  OBVIOUS
<1>7. /\ Posted'
      /\ outbox' \in [ProviderEvents -> {"none", "processing", "failed",
                                         "processed"}]
  <2>1. InHand(tx'["hook"])
    BY <1>2, <1>5
  <2> QED  BY <2>1, <1>2, <1>3, <1>4, <1>6, OutboxKeepsPosted
<1>8. Typed'
  BY <1>3, <1>5, <1>7 DEF Bookkeeping, Typed
<1>9. Listed(recent, Len(attempts))'
  BY <1>3 DEF Bookkeeping
<1> QED  BY <1>5, <1>7, <1>8, <1>9 DEF Bookkeeping

(* The provider has its answer (handle_gateway_webhook returns).           *)
LEMMA AnswerKeepsBooks ==
    ASSUME PaymentAssumption, Bookkeeping, Answer
    PROVE  Bookkeeping'
<1>1. tx["hook"].pc = "answer" /\ tx["hook"].pc # "done"
  BY DEF Answer, Hook
<1>2. PICK e : e = Event
  OBVIOUS
<1>3. /\ e \in ProviderEvents /\ mail[Notice(e)] = "due"
      /\ EventType(e) = "confirm" => Provider = "dpo"
  BY <1>1, <1>2, AtHook DEF OnHook
<1> DEFINE n == Notice(e)
<1>0. n \in Notices
  BY <1>3, EventParts
<1>4. /\ mail' = [mail EXCEPT ![n] = "acked"]
      /\ tx' = [tx EXCEPT !["hook"] = Idle]
      /\ UNCHANGED <<erp, invoice, attempts, recent, checkout, outbox, tenant,
                     sub, faults>>
  BY <1>2 DEF Answer
<1>5. Grown(attempts, attempts')
  BY <1>4, GrownSame DEF Bookkeeping, Typed
<1>6. /\ tx' \in [Agents -> Transactions] /\ tx'["hook"] = Idle /\ Counted'
      /\ \A t \in Agents : Formed(t, tx'[t], attempts')
  BY <1>1, <1>4, <1>5, HookAgent, IdleTyped, RestFormed, OneMoves
<1>7. mail \in [Notices -> {"none", "due", "acked"}]
  BY DEF Bookkeeping, Typed
<1>8. mail' \in [Notices -> {"none", "due", "acked"}]
  BY <1>4, <1>7
<1>9. Typed'
  BY <1>4, <1>6, <1>8 DEF Bookkeeping, Typed
<1>10. \A m \in Notices : m # n => mail'[m] = mail[m]
  BY <1>4, <1>7
<1>11. \A m \in Notices : mail'[m] # "none" <=> mail[m] # "none"
  BY <1>0, <1>3, <1>4, <1>7
<1>12. Posted
  BY DEF Bookkeeping
<1>13. Posted'
  <2>1. \A a \in AttemptIds : checkout'[a] # "none" => a \in Attempts'
    BY <1>4, <1>12 DEF Posted, Attempts
  <2>2. \A m \in Notices : mail'[m] # "none" => checkout'[m[2]] # "none"
    BY <1>4, <1>11, <1>12 DEF Posted
  <2>3. \A a \in AttemptIds :
            mail'[<<"confirm", a>>] # "none" => checkout'[a] = "paid"
    BY <1>4, <1>11, <1>12, EventPairs DEF Posted
  <2>4. \A d \in ProviderEvents :
            outbox'[d] # "none" => mail'[Notice(d)] # "none"
    <3>1. \A d \in ProviderEvents : Notice(d) \in Notices
      BY EventParts
    <3> QED  BY <3>1, <1>4, <1>11, <1>12 DEF Posted
  <2>5. InHand(tx["hook"])'
    BY <1>6, IdlePlaces DEF InHand, OnHook
  <2>6. \A a \in AttemptIds :
            mail'[<<"confirm", a>>] = "acked"
              \/ outbox'[<<"confirm", a>>] # "none" => Provider = "dpo"
    <3>1. ASSUME NEW a \in AttemptIds, mail'[<<"confirm", a>>] = "acked"
          PROVE  Provider = "dpo"
      <4>1. <<"confirm", a>> \in Notices
        BY EventPairs
      <4>2. CASE <<"confirm", a>> = n
        <5>1. e = n
          BY <4>2, <1>3, EventParts
        <5>2. EventType(e) = "confirm"
          BY <5>1, <4>2, EventPairs
        <5> QED  BY <5>2, <1>3
      <4>3. CASE <<"confirm", a>> # n
        <5>1. mail[<<"confirm", a>>] = "acked"
          BY <4>1, <4>3, <3>1, <1>10
        <5> QED  BY <5>1, <1>12 DEF Posted
      <4> QED  BY <4>2, <4>3
    <3>2. ASSUME NEW a \in AttemptIds, outbox'[<<"confirm", a>>] # "none"
          PROVE  Provider = "dpo"
      BY <3>2, <1>4, <1>12 DEF Posted
    <3> QED  BY <3>1, <3>2
  <2> QED  BY <2>1, <2>2, <2>3, <2>4, <2>5, <2>6 DEF Posted
<1>14. Listed(recent, Len(attempts))'
  BY <1>4 DEF Bookkeeping
<1> QED  BY <1>6, <1>9, <1>13, <1>14 DEF Bookkeeping

(* What an interruption leaves of a transaction (the session is closed).   *)
Left(t) == IF t \in Payers \cup Visitors THEN Done ELSE Idle

(* An interruption closes the transaction, and may mark the outbox row of  *)
(* its event failed (handle_gateway_webhook).                              *)
LEMMA InterruptMoves ==
    ASSUME PaymentAssumption, Bookkeeping, NEW t \in Agents, Interrupt(t)
    PROVE  /\ tx' = [tx EXCEPT ![t] = Left(t)] /\ tx[t].pc # "done"
           /\ Left(t) \in Transactions /\ Formed(t, Left(t), attempts)
           /\ Left(t).pc \in {"idle", "done"} /\ faults' \in 0 .. MaxFaults
           /\ "hook" \in Agents /\ Left("hook") = Idle
           /\ \/ UNCHANGED outbox
              \/ /\ t = "hook" /\ tx["hook"].pc \in OnHook
                 /\ outbox' = [outbox EXCEPT ![Event] = "failed"]
<1>1. tx' = [tx EXCEPT ![t] = Left(t)]
  BY DEF Interrupt, Left
<1>2. tx[t].pc # "done"
  <2>1. tx[t] # Done /\ Formed(t, tx[t], attempts)
    BY DEF Interrupt, Bookkeeping
  <2> QED  BY <2>1 DEF Formed
<1>3. Left(t) \in Transactions /\ Formed(t, Left(t), attempts)
  BY IdleTyped, RestFormed DEF Left
<1>4. Left(t).pc \in {"idle", "done"}
  BY IdlePlaces DEF Left
<1>5. faults' \in 0 .. MaxFaults
  <2>1. faults \in 0 .. MaxFaults /\ MaxFaults \in Nat
    BY DEF Bookkeeping, Typed, PaymentAssumption
  <2> QED  BY <2>1 DEF Interrupt
<1>6. Left("hook") = Idle
  BY DEF Left, PaymentAssumption
<1>7. \/ UNCHANGED outbox
      \/ /\ t = "hook" /\ tx["hook"].pc \in OnHook
         /\ outbox' = [outbox EXCEPT ![Event] = "failed"]
  BY DEF Interrupt, OnHook
<1> QED  BY <1>1, <1>2, <1>3, <1>4, <1>5, <1>6, <1>7, HookAgent

(* An interruption at any point keeps the books (the session is rolled     *)
(* back).                                                                  *)
LEMMA InterruptKeepsBooks ==
    ASSUME PaymentAssumption, Bookkeeping, NEW t \in Agents, Interrupt(t)
    PROVE  Bookkeeping'
<1>1. PICK r : r = Left(t)
  OBVIOUS
<1>2. /\ tx' = [tx EXCEPT ![t] = r] /\ tx[t].pc # "done"
      /\ r \in Transactions /\ Formed(t, r, attempts)
      /\ r.pc \in {"idle", "done"} /\ faults' \in 0 .. MaxFaults
  BY <1>1, InterruptMoves
<1>3. UNCHANGED <<erp, invoice, attempts, recent, checkout, mail, tenant, sub>>
  BY DEF Interrupt
<1>4. Grown(attempts, attempts')
  BY <1>3, GrownSame DEF Bookkeeping, Typed
<1>5. /\ tx' \in [Agents -> Transactions] /\ tx'[t] = r /\ Counted'
      /\ \A u \in Agents : u # t => tx'[u] = tx[u]
      /\ \A u \in Agents : Formed(u, tx'[u], attempts')
  BY <1>2, <1>3, <1>4, OneMoves
<1>6. /\ Posted'
      /\ outbox' \in [ProviderEvents -> {"none", "processing", "failed",
                                         "processed"}]
  <2>1. InHand(tx'["hook"])
    <3>1. CASE t = "hook"
      BY <3>1, <1>2, <1>5 DEF InHand, OnHook
    <3>2. CASE t # "hook"
      BY <3>2, <1>5, HookAgent DEF Bookkeeping, Posted
    <3> QED  BY <3>1, <3>2
  <2>2. CASE UNCHANGED outbox
    <3>1. Posted'
      BY <2>1, <2>2, <1>3, <1>4, PostedKept
    <3> QED  BY <3>1, <2>2 DEF Bookkeeping, Typed
  <2>3. CASE /\ t = "hook" /\ tx["hook"].pc \in OnHook
             /\ outbox' = [outbox EXCEPT ![Event] = "failed"]
    <3>1. PICK e : e = Event
      OBVIOUS
    <3>2. /\ e \in ProviderEvents /\ mail[Notice(e)] = "due"
          /\ EventType(e) = "confirm" => Provider = "dpo"
      BY <2>3, <3>1, AtHook
    <3>3. outbox' = [outbox EXCEPT ![e] = "failed"]
      BY <2>3, <3>1
    <3> QED  BY <2>1, <3>2, <3>3, <1>3, <1>4, OutboxKeepsPosted
  <2> QED  BY <2>2, <2>3, InterruptMoves
<1>7. Typed'
  BY <1>2, <1>3, <1>5, <1>6 DEF Bookkeeping, Typed
<1>8. Listed(recent, Len(attempts))'
  BY <1>3 DEF Bookkeeping
<1> QED  BY <1>5, <1>6, <1>7, <1>8 DEF Bookkeeping

-----------------------------------------------------------------------------
(***************************************************************************)
(* The bookkeeping holds.                                                  *)
(***************************************************************************)
(* A tenant starts with nothing attempted and nobody at work (Init).       *)
LEMMA BooksAtFirst ==
    ASSUME PaymentAssumption, Init
    PROVE  Bookkeeping
<1>1. /\ erp \in [Invoices -> {"open", "paid", "credited"}]
      /\ invoice \in [Invoices -> RowStatuses]
  <2>1. erp \in [Invoices -> {"open", "paid", "credited"}]
    BY DEF Init
  <2>2. View(Invoices) \in [Invoices -> RowStatuses]
    BY <2>1, RowOfTyped
  <2> QED  BY <2>1, <2>2 DEF Init
<1>2. attempts = << >> /\ recent = << >> /\ tx = [t \in Agents |-> Idle]
  BY DEF Init
<1>3. tenant \in TenantStatuses /\ sub \in SubscriptionStatuses
  BY DEF Init, TenantStatuses, Suspensions, SubscriptionStatuses
<1>4. faults \in 0 .. MaxFaults
  BY DEF Init, PaymentAssumption
<1>5. tx \in [Agents -> Transactions]
  BY <1>2, IdleTyped
<1>6. Typed
  BY <1>1, <1>2, <1>3, <1>4, <1>5 DEF Init, Typed
<1>7. Listed(recent, Len(attempts))
  BY <1>2 DEF Listed
<1>8. Counted
  <2>1. Finished \in SUBSET Payers /\ IsFiniteSet(Payers)
    BY DEF Finished, PaymentAssumption
  <2>2. Cardinality(Finished) \in Nat
    BY <2>1, FS_Subset, FS_CardinalityType
  <2> QED  BY <2>2, <1>2 DEF Counted
<1>9. \A t \in Agents : Formed(t, tx[t], attempts)
  BY <1>2, RestFormed
<1>10. Posted
  <2>1. InHand(tx["hook"])
    BY <1>2, HookAgent, IdlePlaces DEF InHand, OnHook
  <2>2. /\ \A n \in Notices : mail[n] = "none"
        /\ \A e \in ProviderEvents : outbox[e] = "none"
        /\ \A a \in AttemptIds : checkout[a] = "none"
    BY DEF Init
  <2>3. \A a \in AttemptIds : /\ <<"confirm", a>> \in Notices
                              /\ <<"confirm", a>> \in ProviderEvents
    BY EventPairs
  <2>4. \A a \in AttemptIds : /\ mail[<<"confirm", a>>] = "none"
                              /\ outbox[<<"confirm", a>>] = "none"
    BY <2>2, <2>3
  <2> QED  BY <2>1, <2>2, <2>4 DEF Posted
<1> QED  BY <1>6, <1>7, <1>8, <1>9, <1>10 DEF Bookkeeping

(* Who may ask for which rows (Next).                                      *)
LEMMA CallsOfNext ==
    ASSUME PaymentAssumption
    PROVE  /\ \A c \in Payers, i \in Invoices : Calls(c, "pay", i, {i})
           /\ \A c \in Visitors, op \in {"view", "reconcile"}, i \in Invoices :
                 Calls(c, op, i, Invoices)
           /\ \A i \in Invoices : Calls("cycle", "reconcile", i, {i})
           /\ Calls("cycle", "reconcile", 1, Invoices) /\ 1 \in Invoices
BY DEF Calls, PaymentAssumption, Invoices

(* Every fetch of Next is one of a call that may ask.                      *)
LEMMA FetchOfNext ==
    ASSUME PaymentAssumption,
           \/ \E c \in Payers, i \in Invoices : Fetch(c, "pay", i, {i})
           \/ \E c \in Visitors, op \in {"view", "reconcile"}, i \in Invoices :
                  Fetch(c, op, i, Invoices)
           \/ CycleTenant \/ CycleInvoice
    PROVE  \E t, op, S : \E i \in Invoices :
               Calls(t, op, i, S) /\ Fetch(t, op, i, S)
<1>1. CASE \E c \in Payers, i \in Invoices : Fetch(c, "pay", i, {i})
  BY <1>1, CallsOfNext
<1>2. CASE \E c \in Visitors, op \in {"view", "reconcile"}, i \in Invoices :
               Fetch(c, op, i, Invoices)
  BY <1>2, CallsOfNext
<1>3. CASE CycleTenant
  BY <1>3, CallsOfNext DEF CycleTenant
<1>4. CASE CycleInvoice
  BY <1>4, CallsOfNext DEF CycleInvoice
<1> QED  BY <1>1, <1>2, <1>3, <1>4

(* Every step keeps the books (Next).                                      *)
LEMMA BooksKept ==
    ASSUME PaymentAssumption, Bookkeeping, [Next]_vars
    PROVE  Bookkeeping'
<1>1. CASE \E a \in AttemptIds : Pay(a) \/ Decline(a)
  BY <1>1, PayKeepsBooks
<1>2. CASE \E i \in Invoices : Book(i) \/ Credit(i)
  BY <1>2, EntryKeepsBooks
<1>3. CASE \/ \E c \in Payers, i \in Invoices : Fetch(c, "pay", i, {i})
           \/ \E c \in Visitors, op \in {"view", "reconcile"}, i \in Invoices :
                  Fetch(c, op, i, Invoices)
           \/ CycleTenant \/ CycleInvoice
  BY <1>3, FetchOfNext, FetchKeepsBooks
<1>4. CASE \E t \in Agents : Transact(t) \/ Interrupt(t)
  <2>1. PICK t \in Agents : Transact(t) \/ Interrupt(t)
    BY <1>4
  <2>2. CASE StoreView(t)
    BY <2>2, StoreViewKeepsBooks
  <2>3. CASE CheckPayable(t)
    BY <2>3, CheckKeepsBooks
  <2>4. CASE OpenCheckout(t)
    BY <2>4, OpenKeepsBooks
  <2>5. CASE Compare(t)
    BY <2>5, CompareKeepsBooks
  <2>6. CASE Reconcile(t)
    BY <2>6, ReconcileKeepsBooks
  <2>7. CASE Interrupt(t)
    BY <2>7, InterruptKeepsBooks
  <2> QED  BY <2>1, <2>2, <2>3, <2>4, <2>5, <2>6, <2>7 DEF Transact
<1>5. CASE \E e \in ProviderEvents : Receive(e)
  BY <1>5, ReceiveKeepsBooks
<1>6. CASE Handle
  BY <1>6, ContextKeepsBooks, ApplyKeepsBooks, MarkKeepsBooks,
     AnswerKeepsBooks DEF Handle
<1>7. CASE UNCHANGED vars
  <2>1. Typed'
    BY <1>7 DEF vars, Bookkeeping, Typed
  <2>2. Listed(recent, Len(attempts))'
    <3>1. recent' = recent /\ attempts' = attempts
      BY <1>7 DEF vars
    <3>2. Listed(recent, Len(attempts))
      BY DEF Bookkeeping
    <3> QED  BY <3>1, <3>2, ZenonT(60)
  <2>3. Counted'
    BY <1>7 DEF vars, Bookkeeping, Counted, Finished
  <2>4. \A t \in Agents : Formed(t, tx[t], attempts)'
    BY <1>7 DEF vars, Bookkeeping
  <2>5. Posted'
    BY <1>7 DEF vars, Bookkeeping, Posted, InHand, Attempts
  <2> QED  BY <2>1, <2>2, <2>3, <2>4, <2>5 DEF Bookkeeping
<1> QED  BY <1>1, <1>2, <1>3, <1>4, <1>5, <1>6, <1>7 DEF Next

(* The books are kept in every behaviour (the whole of the payment of      *)
(* invoices).                                                              *)
THEOREM BooksAreKept == Spec => []Bookkeeping
<1> USE PaymentAssumption
<1>1. Init => Bookkeeping
  BY BooksAtFirst
<1>2. Bookkeeping /\ [Next]_vars => Bookkeeping'
  BY BooksKept
<1> QED  BY <1>1, <1>2, PTL DEF Spec

(* The state of the payment of invoices has its types: in particular every *)
(* attempt has a row and a place in the order, and there are never more    *)
(* attempts than calls that open one (payment_attempts,                    *)
(* create_payment_attempt_for_invoice).                                    *)
THEOREM PaymentTypes == Spec => []TypeOK
<1>1. Bookkeeping => TypeOK
  <2> SUFFICES ASSUME Bookkeeping PROVE TypeOK
    OBVIOUS
  <2>1. {recent[k] : k \in 1 .. Len(recent)} = Attempts
    BY DEF Bookkeeping, Listed, Attempts
  <2>2. Len(recent) = Len(attempts)
    BY DEF Bookkeeping, Listed
  <2>3. attempts \in Seq([invoice : Invoices, status : AttemptStatuses])
    BY DEF Bookkeeping, Typed, AttemptRows
  <2>4. \A t \in Agents : tx[t] \in Transactions
    BY DEF Bookkeeping, Typed
  <2> QED  BY <2>1, <2>2, <2>3, <2>4 DEF Bookkeeping, Typed, TypeOK
<1> QED  BY <1>1, BooksAreKept, PTL

-----------------------------------------------------------------------------
(***************************************************************************)
(* A row says paid for a reason.                                           *)
(***************************************************************************)
(* Nothing takes a payment or a booking back, and an attempt keeps its     *)
(* invoice (payment_attempts.billing_invoice_id).                          *)
LEMMA NothingTakenBack ==
    ASSUME PaymentAssumption, Bookkeeping, [Next]_vars
    PROVE  /\ Grown(attempts, attempts')
           /\ \A i \in Invoices : erp[i] = "paid" => erp'[i] = "paid"
           /\ \A a \in AttemptIds : checkout[a] = "paid" => checkout'[a] = "paid"
<1>1. /\ attempts \in Seq(AttemptRows) /\ Grown(attempts, attempts)
      /\ erp \in [Invoices -> {"open", "paid", "credited"}]
      /\ checkout \in [AttemptIds -> {"none", "open", "declined", "paid"}]
  BY GrownSame DEF Bookkeeping, Typed
<1>2. CASE \E a \in AttemptIds : Pay(a) \/ Decline(a)
  BY <1>1, <1>2 DEF Pay, Decline
<1>3. CASE \E i \in Invoices : Book(i) \/ Credit(i)
  BY <1>1, <1>3 DEF Book, Credit
<1>4. CASE \/ \E c \in Payers, i \in Invoices : Fetch(c, "pay", i, {i})
           \/ \E c \in Visitors, op \in {"view", "reconcile"}, i \in Invoices :
                  Fetch(c, op, i, Invoices)
           \/ CycleTenant \/ CycleInvoice
  <2>1. UNCHANGED <<attempts, erp, checkout>>
    BY <1>4, FetchOfNext DEF Fetch
  <2> QED  BY <2>1, <1>1
<1>5. CASE \E t \in Agents : Transact(t) \/ Interrupt(t)
  <2>1. PICK t \in Agents : Transact(t) \/ Interrupt(t)
    BY <1>5
  <2>2. CASE StoreView(t) \/ CheckPayable(t) \/ Compare(t) \/ Interrupt(t)
    <3>1. UNCHANGED <<attempts, erp, checkout>>
      BY <2>2 DEF StoreView, CheckPayable, Compare, Interrupt
    <3> QED  BY <3>1, <1>1
  <2>3. CASE OpenCheckout(t)
    <3>1. Grown(attempts, attempts') /\ Len(attempts) + 1 \in AttemptIds
      BY <2>3, AttemptAdded
    <3>2. /\ erp' = erp
          /\ checkout' = [checkout EXCEPT ![Len(attempts) + 1] = "open"]
      BY <2>3 DEF OpenCheckout
    <3>3. checkout[Len(attempts) + 1] = "none"
      <4>1. Len(attempts) + 1 \notin Attempts
        BY <1>1 DEF Attempts
      <4> QED  BY <3>1, <4>1 DEF Bookkeeping, Posted
    <3>4. \A a \in AttemptIds : checkout[a] = "paid" => checkout'[a] = "paid"
      <4>1. PICK n : n = Len(attempts) + 1
        OBVIOUS
      <4> QED  BY <4>1, <3>2, <3>3, <1>1
    <3> QED  BY <3>1, <3>2, <3>4
  <2>4. CASE Reconcile(t)
    <3>1. UNCHANGED <<erp, checkout>>
      BY <2>4 DEF Reconcile
    <3>2. Grown(attempts, attempts')
      <4>1. CASE UNCHANGED <<attempts, recent>>
        BY <4>1, <1>1
      <4>2. CASE /\ tx[t].att \in Attempts
                 /\ Verdict(t) \in {"paid", "reconciliation_required"}
                 /\ attempts' = Updated(attempts, tx[t].att, Verdict(t))
                 /\ recent' = Touch(tx[t].att)
        <5>1. Verdict(t) \in AttemptStatuses
          BY <4>2 DEF AttemptStatuses
        <5> QED  BY <4>2, <5>1, UpdateKeepsLists
      <4> QED  BY <4>1, <4>2, <2>4, ReconcileMoves
    <3> QED  BY <3>1, <3>2
  <2> QED  BY <2>1, <2>2, <2>3, <2>4 DEF Transact
<1>6. CASE \E e \in ProviderEvents : Receive(e)
  BY <1>1, <1>6 DEF Receive
<1>7. CASE Handle
  <2>1. CASE Context \/ MarkProcessed \/ Answer
    <3>1. UNCHANGED <<attempts, erp, checkout>>
      BY <2>1 DEF Context, MarkProcessed, Answer
    <3> QED  BY <3>1, <1>1
  <2>2. CASE Apply
    <3>1. UNCHANGED <<erp, checkout>>
      BY <2>2 DEF Apply
    <3>2. PICK a \in Attempts, s \in AttemptStatuses :
              attempts' = Updated(attempts, a, s) /\ recent' = Touch(a)
      BY <2>2, ApplyMoves DEF Applied
    <3>3. Grown(attempts, attempts')
      BY <3>2, UpdateKeepsLists
    <3> QED  BY <3>1, <3>3
  <2> QED  BY <1>7, <2>1, <2>2 DEF Handle
<1>8. CASE UNCHANGED vars
  BY <1>1, <1>8 DEF vars
<1> QED  BY <1>2, <1>3, <1>4, <1>5, <1>6, <1>7, <1>8 DEF Next

(* So a reason for a row to say paid is there to stay.                     *)
LEMMA TruthStays ==
    ASSUME PaymentAssumption, Bookkeeping, [Next]_vars
    PROVE  \A i \in Invoices : Truth(i) => Truth(i)'
<1>1. /\ Grown(attempts, attempts')
      /\ \A i \in Invoices : erp[i] = "paid" => erp'[i] = "paid"
      /\ \A a \in AttemptIds : checkout[a] = "paid" => checkout'[a] = "paid"
  BY NothingTakenBack
<1>2. Attempts \subseteq AttemptIds
  <2>1. /\ {recent[k] : k \in 1 .. Len(recent)} = Attempts
        /\ recent \in Seq(AttemptIds)
    BY DEF Bookkeeping, Typed, Listed, Attempts
  <2> QED  BY <2>1
<1>3. ASSUME NEW i \in Invoices, Truth(i)
      PROVE  Truth(i)'
  <2>1. CASE erp[i] = "paid"
    BY <2>1, <1>1 DEF Truth
  <2>2. CASE PaidFor(i) # {}
    <3>1. PICK a \in Attempts : attempts[a].invoice = i /\ checkout[a] = "paid"
      BY <2>2 DEF PaidFor
    <3>2. /\ a \in Attempts' /\ attempts'[a].invoice = i
          /\ checkout'[a] = "paid"
      BY <3>1, <1>1, <1>2 DEF Grown, Attempts
    <3>3. PaidFor(i)' # {}
      BY <3>2 DEF PaidFor
    <3> QED  BY <3>3 DEF Truth
  <2> QED  BY <2>1, <2>2, <1>3 DEF Truth
<1> QED  BY <1>3

(* One transaction moves: the copies of the others are as good as before.  *)
LEMMA ReadsOfOne ==
    ASSUME TruthInv, \A i \in Invoices : Truth(i) => Truth(i)',
           NEW u \in Agents, NEW r, tx' = [tx EXCEPT ![u] = r],
           Reads(r)'
    PROVE  \A t \in Agents : Reads(tx[t])'
<1>1. tx \in [Agents -> Transactions]
  BY DEF TruthInv, Bookkeeping, Typed
<1>2. tx'[u] = r /\ \A t \in Agents : t # u => tx'[t] = tx[t]
  BY <1>1
<1>3. ASSUME NEW t \in Agents, t # u
      PROVE  Reads(tx[t])'
  <2>1. Reads(tx[t]) /\ tx'[t] = tx[t]
    BY <1>2, <1>3 DEF TruthInv
  <2> QED  BY <2>1 DEF Reads
<1>4. Reads(tx[u])'
  BY <1>2 DEF Reads
<1> QED  BY <1>3, <1>4

(* A transaction without rows reads nothing.                               *)
LEMMA ReadsNothing ==
    ASSUME NEW r, r.pc \notin OnRows \cup {"context"}
    PROVE  Reads(r)'
BY DEF Reads

(* A row stored says paid if one of those it is made of does               *)
(* (resync_one_invoice).                                                   *)
LEMMA StoredPaid ==
    ASSUME NEW now, NEW loaded, NEW view, NEW new
    PROVE  /\ Stored(now, loaded, new) = "paid" => now = "paid" \/ new = "paid"
           /\ StoredRow(now, loaded, view, new) = "paid" =>
                  now = "paid" \/ view = "paid" \/ new = "paid"
BY StoredIsOne

(* The rows that a transaction loads and the answers it gets are true.     *)
LEMMA FetchedTruth ==
    ASSUME TruthInv, NEW S \in SUBSET Invoices, NEW j \in S
    PROVE  /\ Rows(S)[j] = "paid" => Truth(j)
           /\ View(S)[j] = "paid" => Truth(j)
<1>1. Rows(S)[j] = invoice[j]
  BY DEF Rows
<1>2. View(S)[j] = "paid" => erp[j] = "paid"
  BY RowOfTyped DEF TruthInv, Bookkeeping, Typed
<1> QED  BY <1>1, <1>2 DEF TruthInv, PaidTellsTruth, Truth

(* What a transaction holds is true.                                       *)
LEMMA HeldTruth ==
    ASSUME TruthInv, NEW t \in Agents, tx[t].pc \in OnRows,
           NEW j \in tx[t].touched
    PROVE  /\ j \in Invoices
           /\ tx[t].row[j] = "paid" => Truth(j)
           /\ tx[t].view[j] = "paid" => Truth(j)
           /\ invoice[j] = "paid" => Truth(j)
<1>1. Bookkeeping /\ Reads(tx[t])
  BY DEF TruthInv
<1>2. /\ tx[t].touched \in SUBSET Invoices
      /\ DOMAIN tx[t].row = tx[t].touched /\ DOMAIN tx[t].view = tx[t].touched
  BY <1>1, AtRows DEF RowsFormed
<1> QED  BY <1>1, <1>2 DEF Reads, TruthInv, PaidTellsTruth, Truth

(* What a payment call and the reconciliation flush is true, and so is     *)
(* what the reconciliation is told (create_payment_attempt_for_invoice,    *)
(* reconcile_tenant_billing).                                              *)
LEMMA FlushedTruth ==
    ASSUME TruthInv, NEW t \in Agents,
           tx[t].pc = "fetched" /\ tx[t].op = "pay"
    PROVE  Reads(Flushed(t))
<1> DEFINE i == tx[t].inv
<1>1. PICK r : r = Flushed(t)
  OBVIOUS
<1>2. /\ r.view = tx[t].view /\ DOMAIN r.row = {i} /\ DOMAIN r.view = {i}
      /\ tx[t].touched = {i} /\ i \in Invoices
      /\ r.row[i] = Stored(invoice[i], tx[t].row[i], tx[t].view[i])
  <2>1. RowsFormed(t, tx[t], attempts)
    BY AtRows DEF TruthInv, OnRows
  <2>2. tx[t].touched = {i}
    BY <2>1 DEF RowsFormed
  <2> QED  BY <1>1, <2>2, FlushedFormed DEF TruthInv
<1>3. /\ tx[t].row[i] = "paid" => Truth(i)
      /\ tx[t].view[i] = "paid" => Truth(i)
      /\ invoice[i] = "paid" => Truth(i)
  BY <1>2, HeldTruth DEF OnRows
<1>4. r.row[i] = "paid" => Truth(i)
  BY <1>2, <1>3, StoredPaid
<1> QED  BY <1>1, <1>2, <1>3, <1>4 DEF Reads

(* What a reconciliation holds after comparing says paid for a reason      *)
(* (reconcile_tenant_billing).                                             *)
LEMMA ComparedTruth ==
    ASSUME TruthInv, NEW t \in Agents,
           tx[t].pc = "fetched" /\ tx[t].op = "reconcile"
    PROVE  Reads(Compared(t))
<1> DEFINE S == tx[t].touched
<1>1. PICK r : r = Compared(t)
  OBVIOUS
<1>2. r.row = FlushedRows(t) /\ r.view = Seen(t)
  BY <1>1, ComparedFormed DEF TruthInv
<1>3. DOMAIN r.row = S /\ DOMAIN r.view = S
  BY <1>2, SeenTyped DEF TruthInv
<1>4. ASSUME NEW j \in S
      PROVE  /\ r.row[j] = "paid" => Truth(j)
             /\ r.view[j] = "paid" => Truth(j)
  <2>1. /\ tx[t].view[j] = "paid" => Truth(j)
        /\ invoice[j] = "paid" => Truth(j)
    BY HeldTruth DEF OnRows
  <2>2. Seen(t)[j] = "paid" => Truth(j)
    BY <2>1, SeenTyped DEF TruthInv, Truth
  <2>3. r.row[j] = StoredRow(invoice[j], tx[t].row[j], tx[t].view[j], Seen(t)[j])
    BY <1>2 DEF FlushedRows
  <2> QED  BY <2>1, <2>2, <2>3, <1>2, StoredPaid
<1> QED  BY <1>1, <1>3, <1>4 DEF Reads

(* A true copy stays one: its reasons do.                                  *)
LEMMA ReadsStay ==
    ASSUME \A i \in Invoices : Truth(i) => Truth(i)', NEW r, Reads(r)
    PROVE  Reads(r)'
BY DEF Reads

(* The rows that a step of the agents leaves are true (invoice_status).    *)
LEMMA TransactTruth ==
    ASSUME PaymentAssumption, TruthInv,
           \A i \in Invoices : Truth(i) => Truth(i)',
           NEW t \in Agents, Transact(t)
    PROVE  /\ \A i \in Invoices : invoice'[i] = "paid" => Truth(i)'
           /\ \A u \in Agents : Reads(tx[u])'
<1>1. Bookkeeping
  BY DEF TruthInv
<1>2. \A i \in Invoices : invoice[i] = "paid" => Truth(i)
  BY DEF TruthInv, PaidTellsTruth, Truth
<1>3. CASE StoreView(t)
  <2>1. /\ tx[t].pc \in OnRows /\ tx[t].op = "view"
        /\ invoice' = [i \in tx[t].touched |->
                           Stored(invoice[i], tx[t].row[i], tx[t].view[i])]
        /\ tx' = [tx EXCEPT ![t] = Done]
    BY <1>3 DEF StoreView, OnRows
  <2>2. tx[t].touched = Invoices
    BY <2>1, <1>1, AtRows DEF RowsFormed
  <2>3. ASSUME NEW i \in Invoices, invoice'[i] = "paid"
        PROVE  Truth(i)
    <3>1. invoice[i] = "paid" \/ tx[t].view[i] = "paid"
      <4>1. invoice'[i] = Stored(invoice[i], tx[t].row[i], tx[t].view[i])
        BY <2>1, <2>2
      <4> QED  BY <4>1, <2>3, StoredPaid
    <3> QED  BY <3>1, <2>1, <2>2, HeldTruth
  <2>4. Reads(Done)'
    BY IdlePlaces, ReadsNothing DEF OnRows
  <2>5. PICK r : r = Done
    OBVIOUS
  <2> QED  BY <2>1, <2>3, <2>4, <2>5, ReadsOfOne
<1>4. CASE CheckPayable(t)
  <2>1. /\ invoice' = invoice
        /\ tx[t].pc = "fetched" /\ tx[t].op = "pay"
        /\ tx' = [tx EXCEPT ![t] = Flushed(t)] \/ tx' = [tx EXCEPT ![t] = Done]
    BY <1>1, <1>4, CheckMoves DEF CheckPayable
  <2>2. PICK r : (r = Flushed(t) \/ r = Done) /\ tx' = [tx EXCEPT ![t] = r]
    BY <2>1
  <2>3. Reads(r)
    <3>1. Reads(Done)
      BY IdlePlaces DEF Reads, OnRows
    <3> QED  BY <2>1, <2>2, <3>1, FlushedTruth
  <2>4. Reads(r)'
    BY <2>3, ReadsStay
  <2> QED  BY <2>1, <2>2, <2>4, <1>2, ReadsOfOne
<1>5. CASE OpenCheckout(t)
  <2>1. PICK i : i = tx[t].inv
    OBVIOUS
  <2>2. /\ tx[t].pc \in OnRows /\ tx' = [tx EXCEPT ![t] = Done]
        /\ invoice' = [invoice EXCEPT ![i] = tx[t].row[i]]
    BY <1>5, <2>1 DEF OpenCheckout, OnRows
  <2>3. i \in tx[t].touched
    BY <2>1, <2>2, <1>1, AtRows DEF RowsFormed
  <2>4. tx[t].row[i] = "paid" => Truth(i)
    BY <2>2, <2>3, HeldTruth
  <2>5. invoice \in [Invoices -> RowStatuses]
    BY <1>1 DEF Bookkeeping, Typed
  <2>6. \A j \in Invoices : invoice'[j] = "paid" => Truth(j)
    BY <2>2, <2>4, <2>5, <1>2
  <2>7. PICK r : r = Done
    OBVIOUS
  <2>8. Reads(r)'
    BY <2>7, IdlePlaces, ReadsNothing DEF OnRows
  <2> QED  BY <2>2, <2>6, <2>7, <2>8, ReadsOfOne
<1>6. CASE Compare(t)
  <2>1. /\ invoice' = invoice /\ tx[t].pc = "fetched"
        /\ tx[t].op = "reconcile"
    BY <1>6 DEF Compare
  <2>2. PICK r : r = Compared(t) /\ tx' = [tx EXCEPT ![t] = r]
    BY <1>1, <1>6, CompareMoves
  <2>3. Reads(r)'
    BY <2>1, <2>2, ComparedTruth, ReadsStay
  <2> QED  BY <2>1, <2>2, <2>3, <1>2, ReadsOfOne
<1>7. CASE Reconcile(t)
  <2>1. PICK r : r = After(t) /\ tx' = [tx EXCEPT ![t] = r]
    BY <1>1, <1>7, ReconcileMoves
  <2>2. tx[t].pc \in OnRows /\ invoice' = Committed(t)
    BY <1>7 DEF Reconcile, OnRows
  <2>3. r.pc \in {"idle", "done"}
    BY <2>1, <2>2, <1>1, AfterFormed
  <2>4. Reads(r)'
    BY <2>3, ReadsNothing DEF OnRows
  <2>5. \A i \in Invoices : invoice'[i] = "paid" => Truth(i)
    BY <2>2, <1>2, HeldTruth DEF Committed
  <2> QED  BY <2>1, <2>4, <2>5, ReadsOfOne
<1> QED  BY <1>3, <1>4, <1>5, <1>6, <1>7 DEF Transact

(* A confirmation settles the invoice of the attempt that was paid: dpo's  *)
(* events name it (_settle_invoice_locally).                               *)
LEMMA ApplyTruth ==
    ASSUME TruthInv, Apply, NEW i \in Invoices, invoice'[i] = "paid"
    PROVE  Truth(i)
<1>1. Bookkeeping /\ (invoice[i] = "paid" => Truth(i))
  BY DEF TruthInv, PaidTellsTruth, Truth
<1>2. PICK h :
          /\ h = tx["hook"] /\ h.pc = "context" /\ h.att \in Attempts
          /\ h.inv = attempts[h.att].invoice /\ h.inv \in Invoices
          /\ Provider = "dpo" => h.att = Event[2]
          /\ h.view \in [{h.inv} -> RowStatuses]
          /\ \/ /\ EventType(Event) = "confirm"
                /\ invoice' = [invoice EXCEPT ![h.inv] =
                       StoredRow(invoice[h.inv], h.row[h.inv],
                                 h.view[h.inv], SettledAs(h.view[h.inv]))]
             \/ EventType(Event) = "fail" /\ invoice' = invoice
  BY <1>1, ApplyMoves DEF Applied
<1>3. CASE EventType(Event) = "fail" /\ invoice' = invoice
  BY <1>1, <1>3
<1>4. CASE /\ EventType(Event) = "confirm"
           /\ invoice' = [invoice EXCEPT ![h.inv] =
                   StoredRow(invoice[h.inv], h.row[h.inv],
                             h.view[h.inv], SettledAs(h.view[h.inv]))]
  <2>1. CASE i # h.inv
    BY <2>1, <1>1, <1>4
  <2>2. CASE i = h.inv
    <3>1. Event[2] \in Attempts /\ checkout[Event[2]] = "paid" /\ Provider = "dpo"
      BY <1>1, <1>2, <1>4, AtHook DEF OnHook
    <3>2. h.att \in PaidFor(i)
      BY <3>1, <1>2, <2>2 DEF PaidFor
    <3> QED  BY <3>2 DEF Truth
  <2> QED  BY <2>1, <2>2
<1> QED  BY <1>2, <1>3, <1>4

(* The copies and the rows are true after every step (Next).               *)
LEMMA TruthKept ==
    ASSUME PaymentAssumption, TruthInv, [Next]_vars
    PROVE  TruthInv'
<1>1. Bookkeeping /\ Bookkeeping'
  BY BooksKept DEF TruthInv
<1>2. \A i \in Invoices : Truth(i) => Truth(i)'
  BY <1>1, TruthStays
<1>3. \A i \in Invoices : invoice[i] = "paid" => Truth(i)
  BY DEF TruthInv, PaidTellsTruth, Truth
<1>4. ASSUME invoice' = invoice, tx' = tx
      PROVE  /\ \A i \in Invoices : invoice'[i] = "paid" => Truth(i)'
             /\ \A u \in Agents : Reads(tx[u])'
  <2>1. ASSUME NEW u \in Agents
        PROVE  Reads(tx[u])'
    <3>1. PICK r : r = tx[u]
      OBVIOUS
    <3>2. Reads(r)' /\ tx'[u] = r
      BY <3>1, <1>2, <1>4, ReadsStay DEF TruthInv
    <3> QED  BY <3>2 DEF Reads
  <2> QED  BY <2>1, <1>2, <1>3, <1>4
<1>5. /\ \A i \in Invoices : invoice'[i] = "paid" => Truth(i)'
      /\ \A u \in Agents : Reads(tx[u])'
  <2>1. CASE \E a \in AttemptIds : Pay(a) \/ Decline(a)
    BY <2>1, <1>4 DEF Pay, Decline
  <2>2. CASE \E i \in Invoices : Book(i) \/ Credit(i)
    BY <2>2, <1>4 DEF Book, Credit
  <2>3. CASE \/ \E c \in Payers, i \in Invoices : Fetch(c, "pay", i, {i})
             \/ \E c \in Visitors, op \in {"view", "reconcile"},
                   i \in Invoices : Fetch(c, op, i, Invoices)
             \/ CycleTenant \/ CycleInvoice
    <3>1. PICK t, op, S : \E i \in Invoices :
               Calls(t, op, i, S) /\ Fetch(t, op, i, S)
      BY <2>3, FetchOfNext
    <3>2. PICK i \in Invoices : Calls(t, op, i, S) /\ Fetch(t, op, i, S)
      BY <3>1
    <3>3. PICK r : r = Fetched(op, i, S)
      OBVIOUS
    <3>4. /\ t \in Agents /\ r.row = Rows(S) /\ r.view = View(S)
          /\ S \in SUBSET Invoices
      <4>1. S \in SUBSET Invoices
        BY <3>2 DEF Calls
      <4> QED  BY <4>1, <3>2, <3>3, <1>1, FetchedFormed
    <3>5. tx' = [tx EXCEPT ![t] = r] /\ invoice' = invoice
      BY <3>2, <3>3 DEF Fetch, Fetched
    <3>6. DOMAIN Rows(S) = S /\ DOMAIN View(S) = S
      BY DEF Rows, View
    <3>7. Reads(r)
      BY <3>4, <3>6, FetchedTruth DEF Reads
    <3>8. Reads(r)'
      BY <3>7, <1>2, ReadsStay
    <3> QED  BY <3>4, <3>5, <3>8, <1>2, <1>3, ReadsOfOne
  <2>4. CASE \E t \in Agents : Transact(t) \/ Interrupt(t)
    <3>1. PICK t \in Agents : Transact(t) \/ Interrupt(t)
      BY <2>4
    <3>2. CASE Transact(t)
      BY <3>2, <1>2, TransactTruth
    <3>3. CASE Interrupt(t)
      <4>1. PICK r : /\ r = Left(t) /\ tx' = [tx EXCEPT ![t] = r]
                     /\ r.pc \in {"idle", "done"}
        BY <3>3, <1>1, InterruptMoves
      <4>2. Reads(r)' /\ invoice' = invoice
        BY <4>1, <3>3, ReadsNothing DEF OnRows, Interrupt
      <4> QED  BY <4>1, <4>2, <1>2, <1>3, ReadsOfOne
    <3> QED  BY <3>1, <3>2, <3>3
  <2>5. CASE \E e \in ProviderEvents : Receive(e)
    <3>1. PICK e \in ProviderEvents : Receive(e)
      BY <2>5
    <3>2. PICK r : /\ r.pc \in {"received", "answer"}
                   /\ tx' = [tx EXCEPT !["hook"] = r]
      BY <3>1, <1>1, ReceivedFormed
    <3>3. Reads(r)' /\ invoice' = invoice
      BY <3>1, <3>2, ReadsNothing DEF OnRows, Receive
    <3> QED  BY <3>2, <3>3, <1>2, <1>3, HookAgent, ReadsOfOne
  <2>6. CASE Handle
    <3>1. CASE Context
      <4>1. PICK i, r :
                /\ tx' = [tx EXCEPT !["hook"] = r] /\ i \in Invoices
                /\ r.row = Rows({i}) /\ r.view = View({i})
        BY <3>1, <1>1, ContextFormed
      <4>2. DOMAIN Rows({i}) = {i} /\ DOMAIN View({i}) = {i}
        BY DEF Rows, View
      <4>3. /\ Rows({i})[i] = "paid" => Truth(i)
            /\ View({i})[i] = "paid" => Truth(i)
        BY <4>1, FetchedTruth
      <4>4. Reads(r)
        BY <4>1, <4>2, <4>3 DEF Reads
      <4>5. Reads(r)' /\ invoice' = invoice
        BY <4>4, <3>1, <1>2, ReadsStay DEF Context
      <4> QED  BY <4>1, <4>5, <1>2, <1>3, HookAgent, ReadsOfOne
    <3>2. CASE Apply
      <4>1. PICK r : r.pc = "applied" /\ tx' = [tx EXCEPT !["hook"] = r]
        BY <3>2, <1>1, ApplyMarks
      <4>2. Reads(r)'
        BY <4>1, ReadsNothing DEF OnRows
      <4>3. \A i \in Invoices : invoice'[i] = "paid" => Truth(i)
        BY <3>2, ApplyTruth
      <4> QED  BY <4>1, <4>2, <4>3, <1>2, HookAgent, ReadsOfOne
    <3>3. CASE MarkProcessed
      <4>1. PICK r : r.pc = "answer" /\ tx' = [tx EXCEPT !["hook"] = r]
        BY <3>3, <1>1, MarkMoves
      <4>2. Reads(r)' /\ invoice' = invoice
        BY <4>1, <3>3, ReadsNothing DEF OnRows, MarkProcessed
      <4> QED  BY <4>1, <4>2, <1>2, <1>3, HookAgent, ReadsOfOne
    <3>4. CASE Answer
      <4>1. PICK r : r = Idle /\ tx' = [tx EXCEPT !["hook"] = r]
        BY <3>4 DEF Answer
      <4>2. Reads(r)' /\ invoice' = invoice
        BY <4>1, <3>4, IdlePlaces, ReadsNothing DEF OnRows, Answer
      <4> QED  BY <4>1, <4>2, <1>2, <1>3, HookAgent, ReadsOfOne
    <3> QED  BY <2>6, <3>1, <3>2, <3>3, <3>4 DEF Handle
  <2>7. CASE UNCHANGED vars
    BY <2>7, <1>4 DEF vars
  <2> QED  BY <2>1, <2>2, <2>3, <2>4, <2>5, <2>6, <2>7 DEF Next
<1>6. PaidTellsTruth'
  BY <1>5 DEF PaidTellsTruth, Truth
<1> QED  BY <1>1, <1>5, <1>6 DEF TruthInv

(* An invoice row says paid only if the ERP does or the customer has paid  *)
(* it, for any number of calls, views, reconciliations and interruptions,  *)
(* and whatever the provider (_settle_invoice_locally,                     *)
(* resync_one_invoice).                                                    *)
THEOREM PaidIsTrue == Spec => []PaidTellsTruth
<1> USE PaymentAssumption
<1>1. Init => TruthInv
  <2> SUFFICES ASSUME Init PROVE TruthInv
    OBVIOUS
  <2>1. Bookkeeping
    BY BooksAtFirst
  <2>2. \A i \in Invoices : invoice[i] = "paid" => erp[i] = "paid"
    BY <2>1, RowOfTyped DEF Init, Bookkeeping, Typed
  <2>3. \A t \in Agents : Reads(tx[t])
    BY IdlePlaces DEF Init, Reads, OnRows
  <2> QED  BY <2>1, <2>2, <2>3 DEF TruthInv, PaidTellsTruth
<1>2. TruthInv /\ [Next]_vars => TruthInv'
  BY TruthKept
<1>3. TruthInv => PaidTellsTruth
  BY DEF TruthInv
<1> QED  BY <1>1, <1>2, <1>3, PTL DEF Spec

-----------------------------------------------------------------------------
(***************************************************************************)
(* A confirmation that was answered left its attempt booked.               *)
(***************************************************************************)
(* Attempts are added by a call and updated by the reconciliation and the  *)
(* webhook, by nothing else (payment_attempts).                            *)
LEMMA AttemptsMove ==
    ASSUME PaymentAssumption, Bookkeeping, [Next]_vars
    PROVE  \/ UNCHANGED <<attempts, recent>>
           \/ \E t \in Agents : OpenCheckout(t)
           \/ \E t \in Agents : Reconcile(t)
           \/ Apply
<1>1. CASE \E a \in AttemptIds : Pay(a) \/ Decline(a)
  <2>1. PICK a \in AttemptIds : Pay(a) \/ Decline(a)
    BY <1>1
  <2> QED  BY <2>1 DEF Pay, Decline
<1>2. CASE \E i \in Invoices : Book(i) \/ Credit(i)
  BY <1>2 DEF Book, Credit
<1>3. CASE \/ \E c \in Payers, i \in Invoices : Fetch(c, "pay", i, {i})
           \/ \E c \in Visitors, op \in {"view", "reconcile"}, i \in Invoices :
                  Fetch(c, op, i, Invoices)
           \/ CycleTenant \/ CycleInvoice
  <2>1. PICK t, op, S : \E i \in Invoices : Calls(t, op, i, S) /\ Fetch(t, op, i, S)
    BY <1>3, FetchOfNext
  <2> QED  BY <2>1 DEF Fetch
<1>4. CASE \E t \in Agents : Transact(t) \/ Interrupt(t)
  <2>1. PICK t \in Agents : Transact(t) \/ Interrupt(t)
    BY <1>4
  <2>2. CASE StoreView(t)
    BY <2>2 DEF StoreView
  <2>3. CASE CheckPayable(t)
    BY <2>3 DEF CheckPayable
  <2>4. CASE Compare(t)
    BY <2>4 DEF Compare
  <2>5. CASE Interrupt(t)
    BY <2>5 DEF Interrupt
  <2> QED  BY <2>1, <2>2, <2>3, <2>4, <2>5 DEF Transact
<1>5. CASE \E e \in ProviderEvents : Receive(e)
  BY <1>5 DEF Receive
<1>6. CASE Handle
  BY <1>6 DEF Handle, Context, MarkProcessed, Answer
<1>7. CASE UNCHANGED vars
  BY <1>7 DEF vars
<1> QED  BY <1>1, <1>2, <1>3, <1>4, <1>5, <1>6, <1>7 DEF Next

(* Only an attempt that exists and was paid has a confirmation             *)
(* (handle_gateway_webhook).                                               *)
LEMMA HandledPaid ==
    ASSUME Bookkeeping, NEW a \in AttemptIds, Handled(a)
    PROVE  a \in Attempts /\ checkout[a] = "paid"
<1>1. Posted /\ <<"confirm", a>> \in ProviderEvents
      /\ Notice(<<"confirm", a>>) = <<"confirm", a>>
  BY EventPairs DEF Bookkeeping
<1>2. mail[<<"confirm", a>>] # "none"
  BY <1>1 DEF Handled, Posted
<1>3. checkout[a] = "paid"
  BY <1>1, <1>2 DEF Posted
<1> QED  BY <1>1, <1>3 DEF Posted

(* Only an attempt that exists was confirmed (handle_gateway_webhook).     *)
LEMMA ConfirmedListed ==
    ASSUME Bookkeeping, NEW a \in AttemptIds, Confirmed(a)
    PROVE  a \in Attempts
<1>1. CASE Handled(a)
  BY <1>1, HandledPaid
<1>2. CASE /\ tx["hook"].pc \in {"applied", "answer"}
           /\ tx["hook"].event = <<"confirm", a>>
  <2>1. Event[2] \in Attempts
    BY <1>2, AtHook DEF OnHook
  <2> QED  BY <1>2, <2>1 DEF Event
<1>3. CASE tx["hook"].pc = "context" /\ tx["hook"].att = a
  <2>1. HookFormed("hook", tx["hook"], attempts)
    BY <1>3, AtHook DEF OnHook
  <2> QED  BY <1>3, <2>1 DEF HookFormed, Attempts
<1> QED  BY <1>1, <1>2, <1>3 DEF Confirmed

(* The step of another agent leaves the webhook where it is.               *)
LEMMA HookWaits ==
    ASSUME Bookkeeping, NEW u \in Agents \ {"hook"}, NEW r,
           tx' = [tx EXCEPT ![u] = r]
    PROVE  tx'["hook"] = tx["hook"]
BY HookAgent DEF Bookkeeping, Typed

(* Nothing is handled unless the webhook goes on: the other agents, the    *)
(* provider's page and an interruption leave it where it is or end it.     *)
Waits ==
    /\ tx'["hook"] = tx["hook"] \/ tx'["hook"].pc = "idle"
    /\ \A a \in AttemptIds : Handled(a)' => Handled(a)

(* Where the messages and the events do not move, it is the transaction of *)
(* the webhook that decides (payment_event_outbox).                        *)
LEMMA WaitsUnmoved ==
    ASSUME UNCHANGED <<mail, outbox>>, tx'["hook"] = tx["hook"]
    PROVE  Waits
BY DEF Waits, Handled

(* The webhook goes on by its own steps only (Next).                       *)
LEMMA HookSteps ==
    ASSUME PaymentAssumption, Bookkeeping, [Next]_vars
    PROVE  \/ Waits
           \/ \E e \in ProviderEvents : Receive(e)
           \/ Handle
<1>1. /\ mail \in [Notices -> {"none", "due", "acked"}]
      /\ outbox \in [ProviderEvents -> {"none", "processing", "failed",
                                        "processed"}]
      /\ tx \in [Agents -> Transactions]
  BY DEF Bookkeeping, Typed
<1>2. \A a \in AttemptIds :
          <<"confirm", a>> \in Notices /\ <<"confirm", a>> \in ProviderEvents
  BY EventPairs
<1>3. CASE \E b \in AttemptIds : Pay(b) \/ Decline(b)
  <2>1. PICK b \in AttemptIds : Pay(b) \/ Decline(b)
    BY <1>3
  <2>2. PICK d : mail' = [mail EXCEPT ![d] = "due"]
    BY <2>1 DEF Pay, Decline
  <2>3. \A a \in AttemptIds :
            mail'[<<"confirm", a>>] = "acked" => mail[<<"confirm", a>>] = "acked"
    BY <2>2, <1>1, <1>2
  <2>4. UNCHANGED <<outbox, tx>>
    BY <2>1 DEF Pay, Decline
  <2> QED  BY <2>3, <2>4 DEF Waits, Handled
<1>4. CASE \E i \in Invoices : Book(i) \/ Credit(i)
  <2>1. UNCHANGED <<mail, outbox, tx>>
    BY <1>4 DEF Book, Credit
  <2> QED  BY <2>1, WaitsUnmoved
<1>5. CASE \/ \E c \in Payers, i \in Invoices : Fetch(c, "pay", i, {i})
           \/ \E c \in Visitors, op \in {"view", "reconcile"}, i \in Invoices :
                  Fetch(c, op, i, Invoices)
           \/ CycleTenant \/ CycleInvoice
  <2>1. PICK t, op, S : \E i \in Invoices :
             Calls(t, op, i, S) /\ Fetch(t, op, i, S)
    BY <1>5, FetchOfNext
  <2>2. PICK i \in Invoices : Calls(t, op, i, S) /\ Fetch(t, op, i, S)
    BY <2>1
  <2>3. t \in Agents \ {"hook"}
    BY <2>2, FetchedFormed
  <2>4. PICK r : tx' = [tx EXCEPT ![t] = r]
    BY <2>2 DEF Fetch
  <2>5. UNCHANGED <<mail, outbox>>
    BY <2>2 DEF Fetch
  <2> QED  BY <2>3, <2>4, <2>5, HookWaits, WaitsUnmoved
<1>6. CASE \E t \in Agents : Transact(t)
  <2>1. PICK t \in Agents : Transact(t)
    BY <1>6
  <2>2. UNCHANGED <<mail, outbox>> /\ tx[t].pc \in OnRows
    <3>1. CASE StoreView(t)
      BY <3>1 DEF StoreView, OnRows
    <3>2. CASE CheckPayable(t)
      BY <3>2, Zenon DEF CheckPayable, OnRows
    <3>3. CASE OpenCheckout(t)
      BY <3>3 DEF OpenCheckout, OnRows
    <3>4. CASE Compare(t)
      BY <3>4, Zenon DEF Compare, OnRows
    <3>5. CASE Reconcile(t)
      BY <3>5 DEF Reconcile, OnRows
    <3> QED  BY <2>1, <3>1, <3>2, <3>3, <3>4, <3>5 DEF Transact
  <2>3. t # "hook"
    BY <2>2, AtRows
  <2>4. \E r : tx' = [tx EXCEPT ![t] = r]
    BY <2>1, CheckMoves, CompareMoves
       DEF Transact, StoreView, OpenCheckout, Reconcile
  <2> QED  BY <2>2, <2>3, <2>4, HookWaits, WaitsUnmoved
<1>7. CASE \E t \in Agents : Interrupt(t)
  <2>1. PICK t \in Agents : Interrupt(t)
    BY <1>7
  <2>2. PICK r : r = Left(t) /\ tx' = [tx EXCEPT ![t] = r]
    BY <2>1, InterruptMoves
  <2>3. mail' = mail
    BY <2>1 DEF Interrupt
  <2>4. \A a \in AttemptIds : outbox'[<<"confirm", a>>] = "processed"
                                  => outbox[<<"confirm", a>>] = "processed"
    <3>1. PICK d : d = Event
      OBVIOUS
    <3>2. outbox' = outbox \/ outbox' = [outbox EXCEPT ![d] = "failed"]
      BY <2>1, <3>1 DEF Interrupt
    <3> QED  BY <3>2, <1>1, <1>2
  <2>5. tx'["hook"] = tx["hook"] \/ tx'["hook"].pc = "idle"
    <3>1. CASE t = "hook"
      BY <3>1, <2>1, <2>2, <1>1, InterruptMoves, IdlePlaces
    <3>2. CASE t # "hook"
      BY <3>2, <2>2, HookWaits
    <3> QED  BY <3>1, <3>2
  <2> QED  BY <2>3, <2>4, <2>5 DEF Waits, Handled
<1>8. CASE UNCHANGED vars
  <2>1. UNCHANGED <<mail, outbox, tx>>
    BY <1>8 DEF vars
  <2> QED  BY <2>1, WaitsUnmoved
<1> QED  BY <1>3, <1>4, <1>5, <1>6, <1>7, <1>8 DEF Next

(* While a failure is handled no confirmation was: at its delivery the     *)
(* provider knew of no payment, and the webhooks run one after the other   *)
(* (parse_webhook of dpo, handle_gateway_webhook).                         *)
LEMMA DecliningKept ==
    ASSUME PaymentAssumption, BookedInv, [Next]_vars, Provider = "dpo",
           NEW a \in AttemptIds, Declining(a)'
    PROVE  ~Handled(a)'
<1> DEFINE f == <<"fail", a>>
           e == <<"confirm", a>>
<1>1. Bookkeeping /\ (Declining(a) => ~Handled(a))
  BY DEF BookedInv
<1>2. tx \in [Agents -> Transactions]
  BY <1>1 DEF Bookkeeping, Typed
<1>3. CASE Waits
  BY <1>1, <1>3 DEF Waits, Declining
<1>4. CASE \E d \in ProviderEvents : Receive(d)
  <2>1. PICK d \in ProviderEvents : Receive(d)
    BY <1>4
  <2>2. PICK r :
            /\ tx' = [tx EXCEPT !["hook"] = r] /\ r.event = d
            /\ outbox' = outbox \/ outbox' = [outbox EXCEPT ![d] = "processing"]
    BY <2>1, <1>1, ReceivedFormed
  <2>3. d = f
    BY <2>2, <1>2, HookAgent DEF Declining
  <2>4. checkout[a] # "paid"
    <3>1. EventType(d) = "fail" /\ d[2] = a
      BY <2>3, EventPairs
    <3> QED  BY <3>1, <2>1 DEF Receive, Deliverable, Parsed
  <2>5. ~Handled(a)
    BY <2>4, <1>1, HandledPaid
  <2>6. mail' = mail /\ outbox'[e] = outbox[e]
    <3>1. e # d
      BY <2>3
    <3> QED  BY <3>1, <2>1, <2>2, <1>1, EventPairs
             DEF Receive, Bookkeeping, Typed
  <2> QED  BY <2>5, <2>6 DEF Handled
<1>5. CASE Context
  <2>1. PICK r :
            /\ tx' = [tx EXCEPT !["hook"] = r] /\ r.event = Event
            /\ tx["hook"].pc = "received"
    BY <1>1, <1>5, ContextFormed
  <2>2. Declining(a)
    BY <2>1, <1>2, HookAgent DEF Declining, Event
  <2>3. UNCHANGED <<mail, outbox>>
    BY <1>5 DEF Context
  <2> QED  BY <2>2, <2>3, <1>1 DEF Handled
<1>6. CASE Apply
  BY <1>1, <1>2, <1>6, HookAgent, ApplyMarks DEF Declining
<1>7. CASE MarkProcessed
  BY <1>1, <1>2, <1>7, HookAgent, MarkMoves DEF Declining
<1>8. CASE Answer
  BY <1>2, <1>8, HookAgent, IdlePlaces DEF Answer, Declining
<1> QED  BY <1>1, <1>3, <1>4, <1>5, <1>6, <1>7, <1>8, HookSteps DEF Handle

(* What is booked stays so unless a failure is applied to it, and that is  *)
(* before its confirmation; the attempt of an applied confirmation becomes *)
(* paid, or was so when the webhook read it and has only been reviewed     *)
(* since (process_event, reconcile_tenant_billing).                        *)
LEMMA ApplyBooks ==
    ASSUME BookedInv, Provider = "dpo", Apply, NEW a \in Attempts
    PROVE  /\ Booked(a) /\ Confirmed(a)' => Booked(a)'
           /\ Event = <<"confirm", a>> => Booked(a)'
<1>1. Bookkeeping
  BY DEF BookedInv
<1>0. PICK h, s, r : Applied(h, s, r)
  BY <1>1, ApplyMoves
<1>2. /\ h = tx["hook"] /\ h.pc = "context" /\ h.att \in Attempts
       /\ h.att = Event[2] /\ EventType(Event) \in {"confirm", "fail"}
       /\ attempts' = Updated(attempts, h.att, s) /\ recent' = Touch(h.att)
       /\ s \in AttemptStatuses
       /\ s = Stored(attempts[h.att].status, h.was, Outcome(EventType(Event)))
       /\ Outcome("confirm") = "paid"
       /\ tx' = [tx EXCEPT !["hook"] = r]
       /\ r.pc = "applied" /\ r.event = Event
  BY <1>0 DEF Applied
<1>3. /\ attempts'[h.att].status = s
      /\ \A b \in Attempts : b # h.att => attempts'[b] = attempts[b]
  BY <1>1, <1>2, UpdateKeepsLists
<1>4. Event \in ProviderEvents
  BY <1>1, <1>2, AtHook DEF OnHook
<1>5. CASE a = h.att /\ EventType(Event) = "confirm"
  <2>1. CASE h.was = "paid"
    <3>1. Confirmed(a)
      BY <2>1, <1>2, <1>5 DEF Confirmed
    <3>2. Booked(a)
      BY <3>1 DEF BookedInv
    <3>3. s = attempts[a].status
      BY <2>1, <1>2, <1>5 DEF Stored
    <3> QED  BY <3>2, <3>3, <1>3, <1>5 DEF Booked
  <2>2. CASE h.was # "paid"
    <3>1. s = "paid"
      BY <2>2, <1>2, <1>5 DEF Stored
    <3> QED  BY <3>1, <1>3, <1>5 DEF Booked
  <2> QED  BY <2>1, <2>2
<1>6. CASE a = h.att /\ EventType(Event) = "fail"
  <2>1. Event = <<"fail", a>>
    BY <1>2, <1>4, <1>6, EventParts
  <2>2. a \in AttemptIds
    BY <1>2, <1>4, <1>6, EventParts
  <2>3. ~Handled(a)
    BY <2>1, <2>2, <1>2 DEF BookedInv, Declining, Event
  <2>4. UNCHANGED <<mail, outbox>>
    BY DEF Apply
  <2>5. tx'["hook"] = r
    BY <1>1, <1>2, HookAgent DEF Bookkeeping, Typed
  <2>6. Event # <<"confirm", a>>
    BY <2>1
  <2>7. ~Confirmed(a)'
    BY <2>3, <2>4, <2>5, <2>6, <1>2 DEF Confirmed, Handled
  <2> QED  BY <2>6, <2>7
<1>7. CASE a # h.att
  <2>1. attempts'[a] = attempts[a]
    BY <1>3, <1>7
  <2>2. Event # <<"confirm", a>>
    BY <1>2, <1>7
  <2> QED  BY <2>1, <2>2 DEF Booked
<1> QED  BY <1>2, <1>5, <1>6, <1>7

(* An attempt that is booked stays booked as long as a confirmation of it  *)
(* counts (payment_attempts.status).                                       *)
LEMMA BookedStays ==
    ASSUME PaymentAssumption, BookedInv, [Next]_vars, Provider = "dpo",
           NEW a \in Attempts, Booked(a), Confirmed(a)'
    PROVE  Booked(a)'
<1>1. Bookkeeping
  BY DEF BookedInv
<1>2. CASE UNCHANGED <<attempts, recent>>
  BY <1>2 DEF Booked
<1>3. CASE \E t \in Agents : OpenCheckout(t)
  <2>1. attempts'[a] = attempts[a]
    BY <1>1, <1>3, AttemptAdded DEF Attempts
  <2> QED  BY <2>1 DEF Booked
<1>4. CASE \E t \in Agents : Reconcile(t)
  <2>1. PICK t \in Agents : Reconcile(t)
    BY <1>4
  <2>2. CASE /\ tx[t].att \in Attempts
             /\ Verdict(t) \in {"paid", "reconciliation_required"}
             /\ attempts' = Updated(attempts, tx[t].att, Verdict(t))
             /\ recent' = Touch(tx[t].att)
    <3>1. Verdict(t) \in AttemptStatuses
      BY <2>2 DEF AttemptStatuses
    <3>2. /\ attempts'[tx[t].att].status = Verdict(t)
          /\ \A b \in Attempts : b # tx[t].att => attempts'[b] = attempts[b]
      BY <1>1, <2>2, <3>1, UpdateKeepsLists
    <3> QED  BY <2>2, <3>2 DEF Booked
  <2> QED  BY <2>1, <2>2, <1>1, <1>2, ReconcileMoves
<1>5. CASE Apply
  BY <1>5, ApplyBooks
<1> QED  BY <1>1, <1>2, <1>3, <1>4, <1>5, AttemptsMove

(* What is confirmed after a step was confirmed before it, or its attempt  *)
(* is booked with it (handle_gateway_webhook).                             *)
LEMMA ConfirmedComes ==
    ASSUME PaymentAssumption, BookedInv, [Next]_vars, Provider = "dpo",
           NEW a \in AttemptIds, Confirmed(a)'
    PROVE  Confirmed(a) \/ (a \in Attempts /\ Booked(a)')
<1> DEFINE e == <<"confirm", a>>
<1>1. /\ Bookkeeping /\ e \in ProviderEvents /\ e \in Notices
      /\ mail \in [Notices -> {"none", "due", "acked"}]
      /\ outbox \in [ProviderEvents -> {"none", "processing", "failed",
                                        "processed"}]
      /\ tx \in [Agents -> Transactions]
  BY EventPairs DEF BookedInv, Bookkeeping, Typed
<1> HIDE DEF e
<1>2. CASE Waits
  BY <1>2 DEF Waits, Confirmed
<1>3. CASE \E d \in ProviderEvents : Receive(d)
  <2>1. PICK d \in ProviderEvents : Receive(d)
    BY <1>3
  <2>2. PICK r :
            /\ tx' = [tx EXCEPT !["hook"] = r]
            /\ \/ r.pc = "received"
                  /\ outbox' = [outbox EXCEPT ![d] = "processing"]
               \/ /\ r.pc = "answer" /\ r.event = d /\ outbox[d] = "processed"
                  /\ outbox' = outbox
    BY <2>1, <1>1, ReceivedFormed
  <2>3. tx'["hook"] = r /\ mail' = mail
    BY <2>1, <2>2, <1>1, HookAgent DEF Receive
  <2>4. CASE r.pc = "received" /\ outbox' = [outbox EXCEPT ![d] = "processing"]
    <3>1. outbox'[e] = "processed" => outbox[e] = "processed"
      BY <2>4, <1>1
    <3> QED  BY <2>3, <2>4, <3>1 DEF Confirmed, Handled, e
  <2>5. CASE /\ r.pc = "answer" /\ r.event = d /\ outbox[d] = "processed"
             /\ outbox' = outbox
    BY <2>3, <2>5 DEF Confirmed, Handled
  <2> QED  BY <2>2, <2>4, <2>5
<1>4. CASE Context
  <2>1. PICK r, b :
            /\ tx' = [tx EXCEPT !["hook"] = r] /\ r.pc = "context"
            /\ r.att = b /\ r.was = attempts[b].status /\ b \in Attempts
    BY <1>1, <1>4, ContextFormed
  <2>2. tx'["hook"] = r /\ UNCHANGED <<mail, outbox, attempts>>
    BY <2>1, <1>1, <1>4, HookAgent DEF Context
  <2>3. CASE Handled(a)
    BY <2>3 DEF Confirmed
  <2>4. CASE b = a /\ r.was = "paid"
    BY <2>1, <2>2, <2>4 DEF Booked
  <2> QED  BY <2>1, <2>2, <2>3, <2>4 DEF Confirmed, Handled
<1>5. CASE Apply
  <2>1. PICK r : /\ r.pc = "applied" /\ r.event = Event
                 /\ tx' = [tx EXCEPT !["hook"] = r]
                 /\ tx["hook"].pc = "context"
    BY <1>1, <1>5, ApplyMarks
  <2>2. tx'["hook"] = r /\ UNCHANGED <<mail, outbox>>
    BY <2>1, <1>1, <1>5, HookAgent DEF Apply
  <2>3. CASE Handled(a)
    BY <2>3 DEF Confirmed
  <2>4. CASE Event = e
    <3>1. Event[2] \in Attempts /\ Event[2] = a
      BY <2>1, <2>4, <1>1, AtHook DEF OnHook, e
    <3> QED  BY <3>1, <2>2, <2>4, <1>5, ApplyBooks DEF e
  <2> QED  BY <2>1, <2>2, <2>3, <2>4 DEF Confirmed, Handled, e
<1>6. CASE MarkProcessed
  <2>1. PICK r : /\ r.pc = "answer" /\ r.event = Event
                 /\ tx' = [tx EXCEPT !["hook"] = r]
                 /\ tx["hook"].pc = "applied"
    BY <1>1, <1>6, MarkMoves
  <2>2. PICK d : d = Event
    OBVIOUS
  <2>3. /\ tx'["hook"] = r /\ mail' = mail
        /\ outbox' = [outbox EXCEPT ![d] = "processed"]
    BY <2>1, <2>2, <1>1, <1>6, HookAgent DEF MarkProcessed
  <2>4. CASE d = e
    BY <2>1, <2>2, <2>4 DEF Confirmed, e, Event
  <2>5. CASE d # e
    <3>1. outbox'[e] = outbox[e]
      BY <2>3, <2>5, <1>1
    <3> QED  BY <3>1, <2>1, <2>2, <2>3, <2>5 DEF Confirmed, Handled, e
  <2> QED  BY <2>4, <2>5
<1>7. CASE Answer
  <2>1. PICK d : d = Event
    OBVIOUS
  <2>2. /\ mail' = [mail EXCEPT ![Notice(d)] = "acked"] /\ outbox' = outbox
        /\ tx' = [tx EXCEPT !["hook"] = Idle] /\ tx["hook"].pc = "answer"
    BY <2>1, <1>7 DEF Answer, Hook
  <2>3. tx'["hook"] = Idle
    BY <2>2, <1>1, HookAgent
  <2>4. CASE d = e
    BY <2>1, <2>2, <2>4 DEF Confirmed, e, Event
  <2>5. CASE d # e
    <3>1. d \in ProviderEvents
      BY <2>1, <2>2, <1>1, AtHook DEF OnHook
    <3>2. Notice(d) # e
      BY <3>1, <2>5, EventParts DEF e
    <3>3. mail'[e] = mail[e]
      BY <2>2, <3>2, <1>1
    <3> QED  BY <3>3, <2>2, <2>3, IdlePlaces DEF Confirmed, Handled, e
  <2> QED  BY <2>4, <2>5
<1> QED  BY <1>1, <1>2, <1>3, <1>4, <1>5, <1>6, <1>7, HookSteps DEF Handle

(* Every attempt has a number that is given out (payment_attempts.id).     *)
LEMMA AttemptsListed ==
    ASSUME Bookkeeping
    PROVE  Attempts \subseteq AttemptIds
<1>1. /\ recent \in Seq(AttemptIds)
      /\ {recent[k] : k \in 1 .. Len(recent)} = Attempts
  BY DEF Bookkeeping, Typed, Listed, Attempts
<1>2. \A k \in 1 .. Len(recent) : recent[k] \in AttemptIds
  BY <1>1
<1> QED  BY <1>1, <1>2

(* BookedInv holds at first, when there is no attempt, and every step      *)
(* keeps it (payment_attempts, payment_event_outbox).                      *)
LEMMA BookedKept ==
    ASSUME PaymentAssumption, BookedInv, [Next]_vars
    PROVE  BookedInv'
<1>1. Bookkeeping /\ Bookkeeping'
  BY BooksKept DEF BookedInv
<1>3. Attempts' \subseteq AttemptIds
  <2>1. (Bookkeeping => Attempts \subseteq AttemptIds)'
    BY AttemptsListed, PTL
  <2> QED  BY <2>1, <1>1
<1>2. ASSUME Provider = "dpo", NEW a \in Attempts', Confirmed(a)'
      PROVE  Booked(a)'
  <2>1. a \in AttemptIds
    BY <1>2, <1>3
  <2>2. Confirmed(a) \/ (a \in Attempts /\ Booked(a)')
    BY <2>1, <1>2, ConfirmedComes
  <2>3. CASE Confirmed(a)
    <3>1. a \in Attempts
      BY <2>1, <2>3, <1>1, ConfirmedListed
    <3>2. Booked(a)
      BY <3>1, <2>3, <1>2 DEF BookedInv
    <3> QED  BY <3>1, <3>2, <1>2, BookedStays
  <2> QED  BY <2>2, <2>3
<1>4. ASSUME Provider = "dpo", NEW a \in AttemptIds, Declining(a)'
      PROVE  ~Handled(a)'
  BY <1>4, DecliningKept
<1>5. AttemptIds' = AttemptIds
  BY DEF AttemptIds
<1> QED  BY <1>1, <1>2, <1>4, <1>5 DEF BookedInv

(***************************************************************************)
(* A confirmation the provider has its answer to left its attempt paid or  *)
(* in the hands of an operator, whatever was interrupted, whatever the     *)
(* reconciliation found and whenever the decline of an earlier try is      *)
(* delivered (handle_gateway_webhook, parse_webhook of dpo).               *)
(***************************************************************************)
THEOREM AckedIsTrue == Spec => []AckedIsBooked
<1>1. Init => BookedInv
  <2> SUFFICES ASSUME Init PROVE BookedInv
    OBVIOUS
  <2>1. Bookkeeping
    BY BooksAtFirst, PaymentAssumption
  <2>2. Attempts = {}
    BY DEF Init, Attempts
  <2>3. \A a \in AttemptIds : ~Handled(a)
    BY <2>1, <2>2, HandledPaid
  <2> QED  BY <2>1, <2>2, <2>3 DEF BookedInv
<1>2. BookedInv /\ [Next]_vars => BookedInv'
  BY BookedKept, PaymentAssumption
<1>3. BookedInv => AckedIsBooked
  <2> SUFFICES ASSUME BookedInv, NEW a \in Attempts,
                      mail[<<"confirm", a>>] = "acked"
               PROVE  attempts[a].status \in {"paid", "reconciliation_required"}
    BY DEF AckedIsBooked
  <2>1. a \in AttemptIds
    BY AttemptsListed DEF BookedInv
  <2>2. Provider = "dpo"
    BY <2>1 DEF BookedInv, Bookkeeping, Posted
  <2>3. Booked(a)
    BY <2>2 DEF BookedInv, Confirmed, Handled
  <2> QED  BY <2>3 DEF Booked
<1> QED  BY <1>1, <1>2, <1>3, PTL DEF Spec

-----------------------------------------------------------------------------
(***************************************************************************)
(* What a payment call checked is still so when it commits.                *)
(***************************************************************************)
(* A row lock is taken by a call that flushes free rows, a webhook reads   *)
(* the attempt it is about.                                                *)
Taken(u, r) ==
    /\ tx' = [tx EXCEPT ![u] = r]
    /\ r.pc = "locked" =>
          /\ r.touched = tx[u].touched /\ Free(tx[u].touched)
          /\ r.op = "pay" => Quiet(r.inv)
          /\ UNCHANGED <<attempts, recent>>
    /\ r.pc = "context" =>
          /\ r.was = attempts[r.att].status
          /\ UNCHANGED <<attempts, recent>>

(* A payment call locks the rows it loaded if no attempt is open           *)
(* (create_payment_attempt_for_invoice).                                   *)
LEMMA FlushedTaken ==
    ASSUME Bookkeeping, NEW t \in Agents, CheckPayable(t)
    PROVE  Taken(t, Flushed(t)) \/ Taken(t, Done)
<1>1. /\ tx[t].pc = "fetched" /\ Free(tx[t].touched)
      /\ UNCHANGED <<attempts, recent>>
  BY DEF CheckPayable
<1>2. tx[t] \in Transactions
  BY <1>1, AtRows DEF OnRows
<1>3. CASE Quiet(tx[t].inv) /\ tx' = [tx EXCEPT ![t] = Flushed(t)]
  <2>1. PICK row : row = [tx[t].row EXCEPT ![tx[t].inv] =
                            Stored(invoice[tx[t].inv], tx[t].row[tx[t].inv],
                                   tx[t].view[tx[t].inv])]
    OBVIOUS
  <2>2. Flushed(t) = [tx[t] EXCEPT !.pc = "locked", !.row = row]
    BY <2>1, <1>2 DEF Flushed, Transactions
  <2>3. /\ Flushed(t).touched = tx[t].touched /\ Flushed(t).inv = tx[t].inv
        /\ Flushed(t).pc = "locked"
    BY <2>2, <1>2 DEF Transactions
  <2> QED  BY <1>1, <1>3, <2>3 DEF Taken
<1>4. CASE tx' = [tx EXCEPT ![t] = Done]
  BY <1>4, IdlePlaces DEF Taken
<1> QED  BY <1>3, <1>4, CheckMoves

(* A reconciliation locks the rows it loaded (reconcile_tenant_billing).   *)
LEMMA ComparedTaken ==
    ASSUME Bookkeeping, NEW t \in Agents, Compare(t)
    PROVE  Taken(t, Compared(t))
<1>1. /\ tx[t].pc = "fetched" /\ tx[t].op = "reconcile"
      /\ Free(tx[t].touched) /\ UNCHANGED <<attempts, recent>>
  BY DEF Compare
<1>2. tx[t] \in Transactions
  BY <1>1, AtRows DEF OnRows
<1>3. /\ Compared(t).touched = tx[t].touched /\ Compared(t).pc = "locked"
      /\ Compared(t).op = "reconcile"
  BY <1>1, <1>2 DEF Compared, Transactions
<1>4. tx' = [tx EXCEPT ![t] = Compared(t)]
  BY CompareMoves
<1> QED  BY <1>1, <1>3, <1>4 DEF Taken

(* A webhook reads the attempt it is about                                 *)
(* (_resolve_invoice_backed_context)                                       *)
LEMMA ContextTaken ==
    ASSUME Bookkeeping, Context
    PROVE  \E r : Taken("hook", r)
<1>1. PICK r : /\ tx' = [tx EXCEPT !["hook"] = r]
               /\ r.pc = "context" /\ r.was = attempts[r.att].status
  BY ContextFormed
<1> QED  BY <1>1 DEF Taken, Context

(* Every step is the step of one agent, who may take a lock or read an     *)
(* attempt, or of none (Next).                                             *)
LEMMA StepTakes ==
    ASSUME PaymentAssumption, Bookkeeping, [Next]_vars
    PROVE  UNCHANGED tx \/ \E u \in Agents : \E r : Taken(u, r)
<1>1. CASE \/ \E a \in AttemptIds : Pay(a) \/ Decline(a)
           \/ \E i \in Invoices : Book(i) \/ Credit(i)
           \/ UNCHANGED vars
  BY <1>1 DEF Pay, Decline, Book, Credit, vars
<1>2. CASE \/ \E c \in Payers, i \in Invoices : Fetch(c, "pay", i, {i})
           \/ \E c \in Visitors, op \in {"view", "reconcile"}, i \in Invoices :
                  Fetch(c, op, i, Invoices)
           \/ CycleTenant \/ CycleInvoice
  <2>1. PICK t, op, S : \E i \in Invoices :
                            Calls(t, op, i, S) /\ Fetch(t, op, i, S)
    BY <1>2, FetchOfNext
  <2>0. PICK i \in Invoices : Calls(t, op, i, S) /\ Fetch(t, op, i, S)
    BY <2>1
  <2>2. PICK r : r = Fetched(op, i, S)
    OBVIOUS
  <2>3. t \in Agents /\ r.pc = "fetched"
    BY <2>0, <2>2 DEF Calls, Agents, Fetched, Idle
  <2>4. tx' = [tx EXCEPT ![t] = r]
    BY <2>0, <2>2 DEF Fetch, Fetched
  <2> QED  BY <2>3, <2>4 DEF Taken
<1>3. CASE \E t \in Agents : Transact(t)
  <2>1. PICK t \in Agents : Transact(t)
    BY <1>3
  <2>2. CASE StoreView(t) \/ OpenCheckout(t)
    <3>1. tx' = [tx EXCEPT ![t] = Done]
      BY <2>2 DEF StoreView, OpenCheckout
    <3> QED  BY <3>1, IdlePlaces DEF Taken
  <2>3. CASE CheckPayable(t)
    BY <2>3, FlushedTaken
  <2>4. CASE Compare(t)
    BY <2>4, ComparedTaken
  <2>5. CASE Reconcile(t)
    <3>1. tx' = [tx EXCEPT ![t] = After(t)] /\ tx[t].pc \in OnRows
      BY <2>5, ReconcileMoves DEF OnRows
    <3>2. After(t).pc \in {"idle", "done"}
      BY <3>1, AfterFormed
    <3> QED  BY <3>1, <3>2 DEF Taken
  <2> QED  BY <2>1, <2>2, <2>3, <2>4, <2>5 DEF Transact
<1>4. CASE \E t \in Agents : Interrupt(t)
  <2>1. PICK t \in Agents : Interrupt(t)
    BY <1>4
  <2>2. tx' = [tx EXCEPT ![t] = Left(t)] /\ Left(t).pc \in {"idle", "done"}
    BY <2>1, InterruptMoves
  <2> QED  BY <2>2 DEF Taken
<1>5. CASE \E e \in ProviderEvents : Receive(e)
  <2>1. PICK pc \in {"received", "answer"}, r \in Transactions :
            r.pc = pc /\ tx' = [tx EXCEPT !["hook"] = r]
    BY <1>5, ReceivedFormed
  <2> QED  BY <2>1, HookAgent DEF Taken
<1>6. CASE Context
  BY <1>6, ContextTaken, HookAgent
<1>7. CASE Apply
  <2>1. PICK r : r.pc = "applied" /\ tx' = [tx EXCEPT !["hook"] = r]
    BY <1>7, ApplyMarks
  <2> QED  BY <2>1, HookAgent DEF Taken
<1>8. CASE MarkProcessed
  <2>1. PICK r : r.pc = "answer" /\ tx' = [tx EXCEPT !["hook"] = r]
    BY <1>8, MarkMoves
  <2> QED  BY <2>1, HookAgent DEF Taken
<1>9. CASE Answer
  <2>1. PICK r : r = Idle
    OBVIOUS
  <2>2. tx' = [tx EXCEPT !["hook"] = r]
    BY <1>9, <2>1 DEF Answer
  <2> QED  BY <2>1, <2>2, IdlePlaces, HookAgent DEF Taken
<1> QED  BY <1>1, <1>2, <1>3, <1>4, <1>5, <1>6, <1>7, <1>8, <1>9
         DEF Next, Handle

(* No row is locked by two at a time (billing_invoices, FOR UPDATE).       *)
LEMMA LocksKept ==
    ASSUME PaymentAssumption, LockInv, [Next]_vars,
           NEW t \in Agents, NEW v \in Agents, t # v
    PROVE  Held(t)' \cap Held(v)' = {}
<1>1. Bookkeeping /\ tx \in [Agents -> Transactions]
  BY DEF LockInv, Bookkeeping, Typed
<1>2. Held(t) \cap Held(v) = {}
  BY DEF LockInv
<1>3. CASE UNCHANGED tx
  BY <1>2, <1>3 DEF Held
<1>4. CASE \E u \in Agents : \E r : Taken(u, r)
  <2>0. PICK u \in Agents : \E r : Taken(u, r)
    BY <1>4
  <2>1. PICK r : Taken(u, r)
    BY <2>0
  <2>2. /\ tx'[u] = r /\ \A w \in Agents : w # u => tx'[w] = tx[w]
    BY <2>1, <1>1 DEF Taken
  <2>3. \A w \in Agents : w # u => Held(w)' = Held(w)
    BY <2>2 DEF Held
  <2>4. Held(u)' = {} \/ (Held(u)' = tx[u].touched /\ Free(tx[u].touched))
    BY <2>1, <2>2 DEF Held, Taken
  <2>5. \A w \in Agents : w # u => Held(u)' \cap Held(w)' = {}
    BY <2>3, <2>4 DEF Free
  <2> QED  BY <2>3, <2>5, <1>2
<1> QED  BY <1>1, <1>3, <1>4, StepTakes

(* What an event makes of its attempt is no open checkout, unless it was   *)
(* opened again since the webhook read it (payment_attempts.status).       *)
LEMMA ApplyCloses ==
    ASSUME LockInv, Apply
    PROVE  \E a \in Attempts : \E s \in AttemptStatuses \ {"checkout_started"} :
               attempts' = Updated(attempts, a, s) /\ recent' = Touch(a)
<1>1. Bookkeeping
  BY DEF LockInv
<1>2. PICK h, s, r : Applied(h, s, r)
  BY <1>1, ApplyMoves
<1>3. /\ h = tx["hook"] /\ h.pc = "context" /\ h.att \in Attempts
      /\ s = Stored(attempts[h.att].status, h.was, Outcome(EventType(Event)))
      /\ s \in AttemptStatuses
      /\ Outcome(EventType(Event)) \in {"paid", "failed"}
      /\ attempts' = Updated(attempts, h.att, s) /\ recent' = Touch(h.att)
  BY <1>2 DEF Applied
<1>4. h.was # "checkout_started" => attempts[h.att].status # "checkout_started"
  BY <1>3 DEF LockInv, Active
<1>5. s # "checkout_started"
  BY <1>3, <1>4 DEF Stored
<1> QED  BY <1>3, <1>5

(* An attempt that is opened or closed, by any step (payment_attempts).    *)
LEMMA AttemptsClose ==
    ASSUME PaymentAssumption, LockInv, [Next]_vars
    PROVE  \/ UNCHANGED <<attempts, recent>>
           \/ \E t \in Agents : OpenCheckout(t)
           \/ \E a \in Attempts :
                 \E s \in AttemptStatuses \ {"checkout_started"} :
                    attempts' = Updated(attempts, a, s) /\ recent' = Touch(a)
<1>1. Bookkeeping
  BY DEF LockInv
<1>2. CASE \E t \in Agents : Reconcile(t)
  <2>1. PICK t \in Agents : Reconcile(t)
    BY <1>2
  <2> QED  BY <2>1, <1>1, ReconcileMoves DEF AttemptStatuses
<1> QED  BY <1>1, <1>2, AttemptsMove, ApplyCloses

(* A closed attempt is never opened again (payment_attempts.status).       *)
LEMMA StaysClosed ==
    ASSUME PaymentAssumption, LockInv, [Next]_vars, NEW a \in Attempts,
           ~Active(a)
    PROVE  ~Active(a)'
<1>1. Bookkeeping
  BY DEF LockInv
<1>2. CASE UNCHANGED <<attempts, recent>>
  BY <1>2 DEF Active
<1>3. CASE \E t \in Agents : OpenCheckout(t)
  <2>1. attempts'[a] = attempts[a]
    BY <1>1, <1>3, AttemptAdded DEF Attempts
  <2> QED  BY <2>1 DEF Active
<1>4. ASSUME NEW b \in Attempts, NEW s \in AttemptStatuses \ {"checkout_started"},
             attempts' = Updated(attempts, b, s), recent' = Touch(b)
      PROVE  ~Active(a)'
  <2>1. /\ attempts'[b].status = s
        /\ a # b => attempts'[a] = attempts[a]
    BY <1>1, <1>4, UpdateKeepsLists
  <2> QED  BY <2>1 DEF Active
<1> QED  BY <1>2, <1>3, <1>4, AttemptsClose

(* The invoice of the attempt that is updated, and the others, stay        *)
(* without an open checkout (create_payment_attempt_for_invoice).          *)
LEMMA QuietUpdate ==
    ASSUME Bookkeeping, NEW a \in Attempts,
           NEW s \in AttemptStatuses \ {"checkout_started"},
           attempts' = Updated(attempts, a, s), recent' = Touch(a),
           NEW i, Quiet(i)
    PROVE  Quiet(i)'
<1> DEFINE S == {b \in Attempts : attempts[b].invoice = i}
           T == {b \in Attempts' : attempts'[b].invoice = i}
<1>1. /\ Attempts' = Attempts /\ attempts'[a].status = s
      /\ \A b \in Attempts : /\ attempts'[b].invoice = attempts[b].invoice
                             /\ b # a => attempts'[b] = attempts[b]
      /\ LastAmong(recent', S) = IF a \in S THEN a ELSE LastAmong(recent, S)
  BY UpdateKeepsLists
<1>2. T = S
  BY <1>1
<1>3. Latest(i)' = LastAmong(recent', S)
  <2>1. Latest(i)' = LastAmong(recent', T)
    BY DEF Latest, LatestIn, LastAmong
  <2> QED  BY <2>1, <1>2
<1>4. Latest(i) = LastAmong(recent, S)
  BY DEF Latest, LatestIn, LastAmong
<1>5. CASE a \in S
  <2>1. Latest(i)' = a
    BY <1>1, <1>3, <1>5
  <2> QED  BY <2>1, <1>1 DEF Quiet, Active
<1>6. CASE a \notin S
  <2>1. Latest(i)' = Latest(i)
    BY <1>1, <1>3, <1>4, <1>6
  <2>2. CASE Latest(i) = NoAttempt
    BY <2>1, <2>2 DEF Quiet, NoAttempt
  <2>3. CASE Latest(i) # NoAttempt
    <3>1. Latest(i) \in S
      BY <2>3, LatestListed DEF Bookkeeping, Typed
    <3>2. attempts'[Latest(i)] = attempts[Latest(i)]
      BY <3>1, <1>1, <1>6
    <3> QED  BY <3>2, <2>1, <2>3 DEF Quiet, Active
  <2> QED  BY <2>2, <2>3
<1> QED  BY <1>5, <1>6

(* A checkout of another invoice leaves this one as it is                  *)
(* (create_payment_attempt_for_invoice).                                   *)
LEMMA QuietOpen ==
    ASSUME PaymentAssumption, Bookkeeping, NEW t \in Agents, OpenCheckout(t),
           NEW i, i # tx[t].inv, Quiet(i)
    PROVE  Quiet(i)'
<1> DEFINE S == {b \in Attempts : attempts[b].invoice = i}
           T == {b \in Attempts' : attempts'[b].invoice = i}
<1>1. PICK n : n = Len(attempts)
  OBVIOUS
<1>2. /\ n \in Nat /\ n + 1 \in AttemptIds /\ Len(attempts') = n + 1
      /\ attempts'[n + 1].invoice = tx[t].inv
      /\ \A b \in 1 .. n : attempts'[b] = attempts[b]
  <2>1. /\ n \in Nat /\ n + 1 \in AttemptIds /\ Len(attempts') = n + 1
        /\ attempts'[n + 1] = [invoice |-> tx[t].inv,
                               status |-> "checkout_started"]
    BY <1>1, AttemptAdded
  <2>2. \A b \in 1 .. n : attempts'[b] = attempts[b]
    BY <1>1, AttemptAdded
  <2> QED  BY <2>1, <2>2
<1>3. recent' = Append(recent, n + 1) /\ recent \in Seq(AttemptIds)
  BY <1>1 DEF OpenCheckout, Bookkeeping, Typed
<1>4. T = S /\ n + 1 \notin S
  BY <1>1, <1>2 DEF Attempts
<1>5. Latest(i)' = LastAmong(recent', T)
  BY DEF Latest, LatestIn, LastAmong
<1>6. Latest(i) = LastAmong(recent, S)
  BY DEF Latest, LatestIn, LastAmong
<1>7. LastAmong(recent', S) = LastAmong(recent, S)
  <2> HIDE DEF S
  <2> QED  BY <1>2, <1>3, <1>4, LastAmongAppended
<1>8. Latest(i)' = Latest(i)
  BY <1>4, <1>5, <1>6, <1>7
<1>9. CASE Latest(i) = NoAttempt
  BY <1>8, <1>9 DEF Quiet, NoAttempt
<1>10. CASE Latest(i) # NoAttempt
  <2>1. Latest(i) \in 1 .. n
    BY <1>1, <1>10, LatestListed DEF Bookkeeping, Typed, Attempts
  <2>2. attempts'[Latest(i)] = attempts[Latest(i)]
    BY <2>1, <1>2
  <2> QED  BY <2>2, <1>8, <1>10 DEF Quiet, Active
<1> QED  BY <1>9, <1>10

(* The latest attempt of an invoice, where the attempts do not change.     *)
LEMMA QuietSame ==
    ASSUME UNCHANGED <<attempts, recent>>, NEW i, Quiet(i)
    PROVE  Quiet(i)'
<1> DEFINE S == {b \in Attempts : attempts[b].invoice = i}
           T == {b \in Attempts' : attempts'[b].invoice = i}
<1>1. T = S /\ recent' = recent /\ attempts' = attempts
  BY DEF Attempts
<1>2. Latest(i)' = LastAmong(recent', T)
  BY DEF Latest, LatestIn, LastAmong
<1>3. Latest(i) = LastAmong(recent, S)
  BY DEF Latest, LatestIn, LastAmong
<1>4. Latest(i)' = Latest(i)
  <2> HIDE DEF S, T
  <2> QED  BY <1>1, <1>2, <1>3
<1> QED  BY <1>1, <1>4 DEF Quiet, Active, NoAttempt

(* What a payment call checked stays so while it holds the lock of the     *)
(* row (create_payment_attempt_for_invoice).                               *)
LEMMA CheckedStays ==
    ASSUME PaymentAssumption, LockInv, [Next]_vars, NEW t \in Agents,
           tx'[t] = tx[t], Checked(t)
    PROVE  Checked(t)'
<1>1. Bookkeeping
  BY DEF LockInv
<1>2. SUFFICES ASSUME tx[t].pc = "locked", tx[t].op = "pay"
               PROVE  Quiet(tx[t].inv)'
  <2>1. (tx[t].pc = "locked" /\ tx[t].op = "pay") \/ Checked(t)'
    BY DEF Checked
  <2>2. tx'[t].inv = tx[t].inv
    OBVIOUS
  <2> QED  BY <2>1, <2>2 DEF Checked, Quiet, Latest, Active
<1>3. PICK i : i = tx[t].inv
  OBVIOUS
<1>4. Quiet(i) /\ i \in tx[t].touched
  BY <1>1, <1>2, <1>3, AtRows DEF Checked, RowsFormed, OnRows
<1>5. Quiet(i)'
  <2>1. CASE UNCHANGED <<attempts, recent>>
    BY <2>1, <1>4, QuietSame
  <2>2. CASE \E u \in Agents : OpenCheckout(u)
    <3>1. PICK u \in Agents : OpenCheckout(u)
      BY <2>2
    <3>2. tx[u].pc = "locked" /\ tx' = [tx EXCEPT ![u] = Done]
      BY <3>1 DEF OpenCheckout
    <3>3. t # u
      BY <3>2, <1>1, <1>2, IdlePlaces DEF Bookkeeping, Typed
    <3>4. tx[u].inv \in tx[u].touched
      BY <3>2, <1>1, AtRows DEF RowsFormed, OnRows
    <3>5. i # tx[u].inv
      BY <3>2, <3>3, <3>4, <1>2, <1>4 DEF LockInv, Held
    <3> QED  BY <3>1, <3>5, <1>1, <1>4, QuietOpen
  <2>3. CASE \E a \in Attempts :
                 \E s \in AttemptStatuses \ {"checkout_started"} :
                    attempts' = Updated(attempts, a, s) /\ recent' = Touch(a)
    BY <2>3, <1>1, <1>4, QuietUpdate
  <2> QED  BY <2>1, <2>2, <2>3, AttemptsClose
<1>6. tx'[t].inv = i
  BY <1>3
<1> QED  BY <1>3, <1>5

(* Every step keeps the locks and what was checked under them (Next).      *)
LEMMA ChecksKept ==
    ASSUME PaymentAssumption, LockInv, [Next]_vars
    PROVE  LockInv'
<1>1. Bookkeeping /\ Bookkeeping' /\ tx \in [Agents -> Transactions]
  BY BooksKept DEF LockInv, Bookkeeping, Typed
<1>2. \A t, u \in Agents : t # u => Held(t)' \cap Held(u)' = {}
  BY LocksKept
<1>3. ASSUME NEW t \in Agents
      PROVE  Checked(t)'
  <2>1. Checked(t)
    BY DEF LockInv
  <2>2. CASE tx'[t] = tx[t]
    BY <2>1, <2>2, CheckedStays
  <2>3. CASE \E r : Taken(t, r)
    <3>1. PICK r : Taken(t, r)
      BY <2>3
    <3>2. tx'[t] = r
      BY <3>1, <1>1 DEF Taken
    <3>3. CASE r.pc = "locked" /\ r.op = "pay"
      <4>1. Quiet(r.inv) /\ UNCHANGED <<attempts, recent>>
        BY <3>1, <3>3 DEF Taken
      <4>2. Quiet(r.inv)'
        BY <4>1, QuietSame
      <4>3. tx'[t].inv = r.inv
        BY <3>2
      <4> QED  BY <4>2, <4>3 DEF Checked, Quiet, Latest, Active
    <3>4. CASE ~(r.pc = "locked" /\ r.op = "pay")
      BY <3>2, <3>4 DEF Checked
    <3> QED  BY <3>3, <3>4
  <2>4. tx'[t] = tx[t] \/ \E r : Taken(t, r)
    <3>1. CASE \E u \in Agents : \E r : Taken(u, r)
      <4>0. PICK u \in Agents : \E r : Taken(u, r)
        BY <3>1
      <4>1. PICK r : Taken(u, r)
        BY <4>0
      <4> QED  BY <4>1, <1>1 DEF Taken
    <3> QED  BY <3>1, <1>1, StepTakes
  <2> QED  BY <2>2, <2>3, <2>4
<1>4. ASSUME tx'["hook"].pc = "context", tx'["hook"].was # "checkout_started"
      PROVE  attempts'[tx'["hook"].att].status # "checkout_started"
  <2>1. CASE tx'["hook"] = tx["hook"]
    <3>1. PICK a : a = tx["hook"].att
      OBVIOUS
    <3>2. a \in Attempts
      BY <2>1, <3>1, <1>1, <1>4, AtHook DEF OnHook, HookFormed, Attempts
    <3>3. ~Active(a)
      BY <2>1, <3>1, <1>4 DEF LockInv
    <3>4. ~Active(a)'
      BY <3>2, <3>3, StaysClosed
    <3> QED  BY <2>1, <3>1, <3>4 DEF Active
  <2>2. CASE \E r : Taken("hook", r)
    <3>1. PICK r : Taken("hook", r)
      BY <2>2
    <3>2. tx'["hook"] = r
      BY <3>1, <1>1, HookAgent DEF Taken
    <3>3. attempts' = attempts /\ r.was = attempts[r.att].status
      BY <3>1, <3>2, <1>4 DEF Taken
    <3> QED  BY <3>2, <3>3, <1>4
  <2>3. tx'["hook"] = tx["hook"] \/ \E r : Taken("hook", r)
    <3>1. CASE \E u \in Agents : \E r : Taken(u, r)
      <4>0. PICK u \in Agents : \E r : Taken(u, r)
        BY <3>1
      <4>1. PICK r : Taken(u, r)
        BY <4>0
      <4> QED  BY <4>1, <1>1, HookAgent DEF Taken
    <3> QED  BY <3>1, <1>1, StepTakes
  <2> QED  BY <2>1, <2>2, <2>3
<1>5. (tx["hook"].pc = "context" /\ tx["hook"].was # "checkout_started" =>
           ~Active(tx["hook"].att))'
  BY <1>4 DEF Active
<1> QED  BY <1>1, <1>2, <1>3, <1>5 DEF LockInv

(***************************************************************************)
(* A payment attempt is only opened if the last attempt of its invoice is  *)
(* not an open checkout, also when several calls, reconciliations and      *)
(* webhooks run at the same time (create_payment_attempt_for_invoice).     *)
(***************************************************************************)
THEOREM OneOpenAtATime == Spec => OpensAfterTheLast
<1>1. Init => LockInv
  <2> SUFFICES ASSUME Init PROVE LockInv
    OBVIOUS
  <2>1. Bookkeeping
    BY BooksAtFirst, PaymentAssumption
  <2>2. \A t \in Agents : tx[t] = Idle
    BY DEF Init
  <2> QED  BY <2>1, <2>2, IdlePlaces, HookAgent DEF LockInv, Held, Checked
<1>2. LockInv /\ [Next]_vars => LockInv'
  BY ChecksKept, PaymentAssumption
<1>3. LockInv /\ [Next]_vars =>
          [\A a \in AttemptIds :
               a = Len(attempts) + 1 /\ Len(attempts') = a =>
                   LET last == Latest(attempts'[a].invoice)
                   IN  last = NoAttempt \/ ~Active(last)]_vars
  <2> SUFFICES ASSUME LockInv, [Next]_vars, NEW a \in AttemptIds,
                      a = Len(attempts) + 1, Len(attempts') = a
               PROVE  Quiet(attempts'[a].invoice)
    BY DEF Quiet
  <2>1. Bookkeeping
    BY DEF LockInv
  <2>2. Len(attempts') # Len(attempts)
    BY <2>1 DEF Bookkeeping, Typed
  <2>3. CASE \E t \in Agents : OpenCheckout(t)
    <3>1. PICK t \in Agents : OpenCheckout(t)
      BY <2>3
    <3>2. attempts'[a].invoice = tx[t].inv
      <4>1. attempts'[Len(attempts) + 1] =
                [invoice |-> tx[t].inv, status |-> "checkout_started"]
        BY <3>1, <2>1, AttemptAdded, PaymentAssumption
      <4> QED  BY <4>1
    <3>3. Quiet(tx[t].inv)
      BY <3>1 DEF OpenCheckout, LockInv, Checked
    <3> QED  BY <3>2, <3>3
  <2>4. ASSUME NEW b \in Attempts, NEW s \in AttemptStatuses,
               attempts' = Updated(attempts, b, s), recent' = Touch(b)
        PROVE  FALSE
    BY <2>1, <2>2, <2>4, UpdateKeepsLists
  <2> QED  BY <2>2, <2>3, <2>4, AttemptsClose, PaymentAssumption
<1> QED  BY <1>1, <1>2, <1>3, PTL DEF Spec, OpensAfterTheLast

=============================================================================
