------------------------ MODULE BillingCyclesProofs ------------------------
(***************************************************************************)
(* What the dunning cycle keeps, for any number of events and calls        *)
(* between its steps.                                                      *)
(***************************************************************************)
EXTENDS BillingCycles, BillingLifecycleProofs, TLAPS

Ages == 0 .. Horizon

PassPlaces == {"idle", "listed", "resolved", "sent", "reminded", "probed",
               "escalating", "expiring"}

Accounts == [status : TenantStatuses, sub : SubscriptionStatuses, age : Ages]

SeenRows == [status : TenantStatuses \cup {"none"},
             sub : SubscriptionStatuses \cup {"none"}, age : Ages]

Passes == [pc : PassPlaces, seen : SeenRows, expired : BOOLEAN,
           retry : BOOLEAN, grace : BOOLEAN, quiet : Ages, paid : BOOLEAN]

CycleTypeOK ==
    /\ account \in Accounts /\ pass \in Passes
    /\ runtime \in BOOLEAN /\ trial \in {"running", "over"}
    /\ quiet \in Ages /\ calls \in Nat

(* Whatever touches the row, it is no older than the last recorded         *)
(* reminder.                                                               *)
AgedSinceReminder ==
    /\ account.age <= quiet
    /\ pass.pc \in {"listed", "resolved", "sent"} => pass.seen.age <= quiet

(* What the pass has decided, and what it rests on.                        *)
Decided ==
    /\ pass.pc = "resolved" =>
           /\ pass.retry => pass.seen.age >= Windows(pass.seen).retry
           /\ pass.grace => pass.retry /\ pass.seen.age >= 4
    /\ pass.pc = "sent" /\ pass.grace => pass.seen.age >= 4
    /\ pass.pc \in {"reminded", "probed"} /\ pass.grace => pass.quiet >= 4
    /\ pass.pc = "escalating" => pass.quiet >= 4

(* A payment that came before the record of the reminder is seen after it. *)
PaymentSeen ==
    /\ pass.pc \in {"listed", "resolved", "sent", "escalating"} => ~pass.paid
    /\ pass.pc \in {"reminded", "probed"} /\ pass.paid =>
           pass.expired /\ account.sub = "active"

CycleInv == CycleTypeOK /\ AgedSinceReminder /\ Decided /\ PaymentSeen

-----------------------------------------------------------------------------
(***************************************************************************)
(* Statuses.                                                               *)
(***************************************************************************)

(* What the end of a trial makes of a status is a status                   *)
(* (run_trial_lifecycle_cycle).                                            *)
LEMMA StatusOfTrial ==
  ASSUME NEW t
  PROVE  AfterTrial(t) \in {t} \cup TenantStatuses
BY DEF AfterTrial, TryTransition, TenantStatuses, Suspensions

(* The age of a row only counts up to the horizon, and keeps the order.    *)
LEMMA OlderKeeps ==
  ASSUME NEW a \in Ages, NEW b \in Ages, a <= b
  PROVE  Older(a) \in Ages /\ Older(a) <= Older(b)
BY DEF Older, Ages, Horizon

(* A grace is a day at least, and no shorter than the retry window         *)
(* (compute_dunning_windows).                                              *)
LEMMA WindowsOrdered ==
  ASSUME NEW row
  PROVE  /\ Windows(row).retry \in Nat /\ Windows(row).grace \in Nat
         /\ Windows(row).retry <= Windows(row).grace
         /\ Windows(row).grace >= 4
BY DEF Windows

-----------------------------------------------------------------------------
(***************************************************************************)
(* Records.                                                                *)
(***************************************************************************)

(* A row keeps its type and what is not written.                           *)
LEMMA RowWritten ==
  ASSUME NEW row \in Accounts, NEW s \in TenantStatuses, NEW a \in Ages
  PROVE  /\ [row EXCEPT !.age = a] \in Accounts
         /\ [row EXCEPT !.age = a].age = a
         /\ [row EXCEPT !.age = a].sub = row.sub
         /\ [row EXCEPT !.status = s, !.age = a] \in Accounts
         /\ [row EXCEPT !.status = s, !.age = a].age = a
         /\ [row EXCEPT !.status = s, !.age = a].sub = row.sub
BY DEF Accounts

(* Every row may be loaded.                                                *)
LEMMA RowsAreSeen == Accounts \subseteq SeenRows
BY DEF Accounts, SeenRows

(* No pass, and the places of one.                                         *)
LEMMA PassTypes ==
  /\ NoPass \in Passes /\ NoPass.pc = "idle"
  /\ 0 \in Ages /\ Horizon \in Ages
<1>1. 0 \in Ages /\ Horizon \in Ages
  BY DEF Ages, Horizon
<1>2. Row("none", "none", 0) \in SeenRows
  BY <1>1 DEF Row, SeenRows
<1>3. "idle" \in PassPlaces
  BY DEF PassPlaces
<1> QED BY <1>1, <1>2, <1>3 DEF NoPass, Passes

(* The parts of the state, each by itself.                                 *)
LEMMA Fields ==
  ASSUME CycleTypeOK
  PROVE  /\ account.status \in TenantStatuses
         /\ account.sub \in SubscriptionStatuses /\ account.age \in Ages
         /\ pass.seen \in SeenRows /\ pass.seen.age \in Ages
         /\ pass.seen.status \in TenantStatuses \cup {"none"}
         /\ pass.retry \in BOOLEAN /\ pass.grace \in BOOLEAN
         /\ pass.paid \in BOOLEAN /\ pass.expired \in BOOLEAN
         /\ pass.quiet \in Ages /\ quiet \in Ages
         /\ \A a \in Ages : a \in Nat /\ 0 <= a
<1>1. account \in Accounts /\ pass \in Passes /\ quiet \in Ages
  BY DEF CycleTypeOK
<1>2. \A a \in Ages : a \in Nat /\ 0 <= a
  BY DEF Ages
<1>3. pass.seen \in SeenRows
  BY <1>1 DEF Passes
<1>4. /\ pass.seen.age \in Ages
      /\ pass.seen.status \in TenantStatuses \cup {"none"}
  BY <1>3 DEF SeenRows
<1>5. /\ account.status \in TenantStatuses
      /\ account.sub \in SubscriptionStatuses /\ account.age \in Ages
  BY <1>1 DEF Accounts
<1>6. /\ pass.retry \in BOOLEAN /\ pass.grace \in BOOLEAN
      /\ pass.paid \in BOOLEAN /\ pass.expired \in BOOLEAN
      /\ pass.quiet \in Ages
  BY <1>1 DEF Passes
<1> QED BY <1>1, <1>2, <1>3, <1>4, <1>5, <1>6

(* A pass that moves on keeps the rest.                                    *)
LEMMA PassMoves ==
  ASSUME NEW r \in Passes, NEW pc \in PassPlaces
  PROVE  LET n == [r EXCEPT !.pc = pc]
         IN  /\ n \in Passes /\ n.pc = pc /\ n.seen = r.seen
             /\ n.retry = r.retry /\ n.grace = r.grace /\ n.quiet = r.quiet
             /\ n.paid = r.paid /\ n.expired = r.expired
BY DEF Passes

(* The steps of a pass that change more than its place.                    *)
LEMMA PassStops == {"resolved", "sent", "reminded"} \subseteq PassPlaces
BY DEF PassPlaces

(* So does one that probes,                                                *)
LEMMA PassProbes ==
  ASSUME NEW r \in Passes, NEW s \in TenantStatuses \cup {"none"}
  PROVE  LET n == [r EXCEPT !.pc = "probed", !.seen = [r.seen EXCEPT !.status = s]]
         IN  /\ n \in Passes /\ n.pc = "probed" /\ n.grace = r.grace
             /\ n.quiet = r.quiet /\ n.paid = r.paid /\ n.expired = r.expired
<1>1. "probed" \in PassPlaces
  BY DEF PassPlaces
<1>2. r.seen \in SeenRows
  BY DEF Passes
<1>3. [r.seen EXCEPT !.status = s] \in SeenRows
  BY <1>2 DEF SeenRows
<1> QED BY <1>1, <1>3 DEF Passes

(* and one whose mark of a payment changes.                                *)
LEMMA PassMarked ==
  ASSUME NEW r \in Passes, NEW d \in BOOLEAN
  PROVE  LET n == [r EXCEPT !.paid = d]
         IN  /\ n \in Passes /\ n.paid = d /\ n.pc = r.pc /\ n.seen = r.seen
             /\ n.retry = r.retry /\ n.grace = r.grace /\ n.quiet = r.quiet
             /\ n.expired = r.expired
BY DEF Passes

-----------------------------------------------------------------------------
(***************************************************************************)
(* One lemma for each group of steps.                                      *)
(***************************************************************************)

(* The query lists the tenant.                                             *)
LEMMA ListKeeps ==
  ASSUME CycleInv, List \/ ListTrial
  PROVE  CycleInv'
<1>0. CycleTypeOK /\ AgedSinceReminder
  BY DEF CycleInv
<1>1. PICK pc \in {"listed", "expiring"} :
          /\ pass' = [NoPass EXCEPT !.pc = pc, !.seen = account]
          /\ UNCHANGED <<account, runtime, trial, quiet, calls>>
  BY DEF List, ListTrial
<1>2. account \in SeenRows /\ pc \in PassPlaces
  BY <1>0, RowsAreSeen DEF CycleTypeOK, PassPlaces
<1>3. /\ pass' \in Passes /\ pass'.pc = pc /\ pass'.seen = account
      /\ pass'.paid = FALSE
  BY <1>1, <1>2, PassTypes DEF NoPass, Passes
<1>4. CycleTypeOK'
  BY <1>0, <1>1, <1>3 DEF CycleTypeOK
<1>5. AgedSinceReminder' /\ Decided' /\ PaymentSeen'
  BY <1>0, <1>1, <1>3 DEF AgedSinceReminder, Decided, PaymentSeen
<1> QED BY <1>4, <1>5 DEF CycleInv

(* The windows are compared with a row that is no older than the reminder. *)
LEMMA ResolveKeeps ==
  ASSUME CycleInv, NEW expired \in BOOLEAN, NEW spared \in BOOLEAN,
         Resolve(expired, spared)
  PROVE  CycleInv'
<1> DEFINE row == IF expired THEN account ELSE pass.seen
<1>0. CycleTypeOK /\ AgedSinceReminder /\ PaymentSeen
  BY DEF CycleInv
<1>1. /\ pass.pc = "listed"
      /\ pass' = [pass EXCEPT !.pc = "resolved", !.seen = row,
                              !.retry = row.age >= Windows(row).retry,
                              !.grace = row.age >= Windows(row).grace /\ ~spared]
      /\ UNCHANGED <<account, runtime, trial, quiet, calls>>
  BY DEF Resolve
<1>2. row \in SeenRows /\ row.age \in Nat /\ row.age <= quiet
  BY <1>0, <1>1, Fields, RowsAreSeen DEF CycleTypeOK, AgedSinceReminder
<1> HIDE DEF row
<1>3. /\ (row.age >= Windows(row).retry) \in BOOLEAN
      /\ (row.age >= Windows(row).grace /\ ~spared) \in BOOLEAN
  OBVIOUS
<1>4. /\ pass' \in Passes
      /\ pass'.pc = "resolved" /\ pass'.seen = row
      /\ pass'.retry = (row.age >= Windows(row).retry)
      /\ pass'.grace = (row.age >= Windows(row).grace /\ ~spared)
      /\ pass'.paid = pass.paid
  <2> DEFINE due  == row.age >= Windows(row).retry
             over == row.age >= Windows(row).grace /\ ~spared
  <2>1. pass \in Passes /\ due \in BOOLEAN /\ over \in BOOLEAN
    BY <1>0, <1>3 DEF CycleTypeOK
  <2>2. pass' = [pass EXCEPT !.pc = "resolved", !.seen = row, !.retry = due,
                             !.grace = over]
    BY <1>1
  <2>3. /\ pass' \in Passes /\ pass'.pc = "resolved" /\ pass'.seen = row
        /\ pass'.retry = due /\ pass'.grace = over /\ pass'.paid = pass.paid
    <3> HIDE DEF due, over
    <3> QED BY <1>2, <2>1, <2>2, PassStops DEF Passes
  <2> QED BY <2>3
<1>5. CycleTypeOK'
  BY <1>0, <1>1, <1>4 DEF CycleTypeOK
<1>6. AgedSinceReminder' /\ PaymentSeen'
  BY <1>0, <1>1, <1>2, <1>4 DEF AgedSinceReminder, PaymentSeen
<1>7. Decided'
  <2>1. pass'.retry => row.age >= Windows(row).retry
    BY <1>4
  <2>2. ASSUME pass'.grace
        PROVE  pass'.retry /\ row.age >= 4
    <3>1. row.age >= Windows(row).grace
      BY <1>4, <2>2
    <3>2. row.age >= Windows(row).retry /\ row.age >= 4
      BY <1>2, <3>1, WindowsOrdered
    <3> QED BY <1>4, <3>2
  <2> QED BY <1>4, <2>1, <2>2 DEF Decided
<1> QED BY <1>5, <1>6, <1>7 DEF CycleInv

(* A reminder goes out only with its row as old as it was read; without    *)
(* one there is no grace to end.                                           *)
LEMMA SendKeeps ==
  ASSUME CycleInv, Send
  PROVE  CycleInv'
<1> DEFINE pc == IF pass.retry THEN "sent" ELSE "reminded"
<1>0. CycleTypeOK /\ AgedSinceReminder /\ Decided /\ PaymentSeen
  BY DEF CycleInv
<1>1. /\ pass.pc = "resolved" /\ pass' = [pass EXCEPT !.pc = pc]
      /\ UNCHANGED <<account, runtime, trial, quiet, calls>>
  BY DEF Send
<1>2. pc \in PassPlaces
  BY PassStops
<1>3. pc = "reminded" => ~pass.grace
  BY <1>0, <1>1 DEF Decided
<1>4. pc \in {"sent", "reminded"}
  OBVIOUS
<1> HIDE DEF pc
<1>5. /\ pass' \in Passes /\ pass'.pc = pc /\ pass'.seen = pass.seen
      /\ pass'.grace = pass.grace /\ pass'.paid = pass.paid
  BY <1>0, <1>1, <1>2, PassMoves DEF CycleTypeOK
<1>6. CycleTypeOK'
  BY <1>0, <1>1, <1>5 DEF CycleTypeOK
<1>7. AgedSinceReminder'
  BY <1>0, <1>1, <1>5 DEF AgedSinceReminder
<1>8. Decided'
  BY <1>0, <1>1, <1>3, <1>4, <1>5 DEF Decided
<1>9. PaymentSeen'
  BY <1>0, <1>1, <1>4, <1>5 DEF PaymentSeen
<1> QED BY <1>6, <1>7, <1>8, <1>9 DEF CycleInv

(* Its record remembers how long it was quiet, and whether it was paid.    *)
LEMMA AnchorKeeps ==
  ASSUME CycleInv, Anchor
  PROVE  CycleInv'
<1>0. CycleTypeOK /\ AgedSinceReminder /\ Decided /\ PaymentSeen
  BY DEF CycleInv
<1>r. account \in Accounts /\ pass \in Passes /\ pass.pc = "sent"
  BY <1>0 DEF CycleTypeOK, Anchor
<1>1. /\ account' = [account EXCEPT !.age = 0]
      /\ pass' = [pass EXCEPT !.pc = "reminded", !.expired = TRUE,
                              !.quiet = quiet, !.paid = account.sub = "active"]
      /\ quiet' = 0 /\ UNCHANGED <<runtime, trial, calls>>
  BY DEF Anchor
<1>2. /\ pass' \in Passes /\ pass'.pc = "reminded" /\ pass'.expired = TRUE
      /\ pass'.quiet = quiet /\ pass'.grace = pass.grace
      /\ pass'.paid = (account.sub = "active")
  <2> DEFINE active == account.sub = "active"
  <2>1. quiet \in Ages /\ active \in BOOLEAN
    BY <1>0, Fields
  <2>2. pass' = [pass EXCEPT !.pc = "reminded", !.expired = TRUE,
                             !.quiet = quiet, !.paid = active]
    BY <1>1
  <2>3. /\ pass' \in Passes /\ pass'.pc = "reminded" /\ pass'.expired = TRUE
        /\ pass'.quiet = quiet /\ pass'.grace = pass.grace
        /\ pass'.paid = active
    <3> HIDE DEF active
    <3> QED BY <1>r, <2>1, <2>2, PassStops DEF Passes
  <2> QED BY <2>3
<1>3. account' \in Accounts /\ account'.sub = account.sub /\ account'.age = 0
  BY <1>0, <1>r, <1>1, Fields, RowWritten, PassTypes
<1>4. CycleTypeOK'
  BY <1>0, <1>1, <1>2, <1>3, PassTypes DEF CycleTypeOK
<1>5. AgedSinceReminder'
  BY <1>1, <1>2, <1>3 DEF AgedSinceReminder
<1>6. PaymentSeen'
  BY <1>2, <1>3 DEF PaymentSeen
<1>7. pass.grace => quiet >= 4
  BY <1>0, <1>r, Fields DEF AgedSinceReminder, Decided
<1>8. Decided'
  BY <1>2, <1>7 DEF Decided
<1> QED BY <1>4, <1>5, <1>6, <1>8 DEF CycleInv

(* The probe loads at most the status.                                     *)
LEMMA ProbeKeeps ==
  ASSUME CycleInv, Probe
  PROVE  CycleInv'
<1> DEFINE status == IF pass.expired THEN account.status ELSE pass.seen.status
<1>0. CycleTypeOK /\ AgedSinceReminder /\ Decided /\ PaymentSeen
  BY DEF CycleInv
<1>1. /\ pass.pc = "reminded"
      /\ pass' = [pass EXCEPT !.pc = "probed",
                              !.seen = [pass.seen EXCEPT !.status = status]]
      /\ UNCHANGED <<account, runtime, trial, quiet, calls>>
  BY <1>0 DEF Probe, CycleTypeOK, Passes
<1>2. status \in TenantStatuses \cup {"none"}
  BY <1>0, Fields
<1> HIDE DEF status
<1>3. /\ pass' \in Passes /\ pass'.pc = "probed" /\ pass'.grace = pass.grace
      /\ pass'.quiet = pass.quiet /\ pass'.paid = pass.paid
      /\ pass'.expired = pass.expired
  BY <1>0, <1>1, <1>2, PassProbes DEF CycleTypeOK
<1>4. CycleTypeOK'
  BY <1>0, <1>1, <1>3 DEF CycleTypeOK
<1>5. AgedSinceReminder' /\ Decided' /\ PaymentSeen'
  BY <1>0, <1>1, <1>3 DEF AgedSinceReminder, Decided, PaymentSeen
<1> QED BY <1>4, <1>5 DEF CycleInv

(* A subscription that was active at the reminder, and has been since, is  *)
(* loaded as active.                                                       *)
LEMMA DecideKeeps ==
  ASSUME CycleInv, Decide
  PROVE  CycleInv'
<1>0. CycleTypeOK /\ AgedSinceReminder /\ Decided /\ PaymentSeen
  BY DEF CycleInv
<1>1. UNCHANGED <<account, runtime, trial, quiet, calls>> /\ pass.pc = "probed"
  BY DEF Decide
<1>2. CASE pass' = NoPass
  BY <1>0, <1>1, <1>2, PassTypes
     DEF CycleInv, CycleTypeOK, AgedSinceReminder, Decided, PaymentSeen
<1>3. CASE pass' # NoPass
  <2>1. /\ pass.grace /\ pass' = [pass EXCEPT !.pc = "escalating"]
        /\ (IF pass.expired THEN account.sub ELSE pass.seen.sub) # "active"
    BY <1>3 DEF Decide, MaySuspend
  <2>2. ~pass.paid
    BY <1>0, <1>1, <2>1 DEF PaymentSeen
  <2>a. "escalating" \in PassPlaces
    BY DEF PassPlaces
  <2>4. /\ pass' \in Passes /\ pass'.pc = "escalating"
        /\ pass'.quiet = pass.quiet /\ pass'.paid = pass.paid
    BY <1>0, <2>1, <2>a, PassMoves DEF CycleTypeOK
  <2>3. CycleTypeOK'
    BY <1>0, <1>1, <2>4 DEF CycleTypeOK
  <2>5. AgedSinceReminder' /\ Decided' /\ PaymentSeen'
    BY <1>0, <1>1, <2>1, <2>2, <2>4 DEF AgedSinceReminder, Decided, PaymentSeen
  <2> QED BY <2>3, <2>5 DEF CycleInv
<1> QED BY <1>2, <1>3

(* A suspension, the end of a trial, and a cycle that is cut, end the pass. *)
LEMMA PassEnds ==
  ASSUME CycleInv, Escalate \/ ExpireTrial \/ CutPass
  PROVE  CycleInv'
<1>0. CycleTypeOK /\ AgedSinceReminder
  BY DEF CycleInv
<1>1. /\ pass' = NoPass /\ UNCHANGED <<runtime, trial, quiet>>
      /\ calls' \in Nat
  BY <1>0 DEF Escalate, ExpireTrial, CutPass, Calls, CycleTypeOK
<1>2. account' \in Accounts /\ account'.age <= quiet
  <2>1. CASE Escalate
    <3>1. "suspended_billing" \in TenantStatuses
      BY DEF TenantStatuses, Suspensions
    <3>2. account \in Accounts /\ 0 \in Ages /\ 0 <= quiet
      BY <1>0, Fields, PassTypes DEF CycleTypeOK
    <3>3. account' = [account EXCEPT !.status = "suspended_billing", !.age = 0]
      BY <2>1 DEF Escalate
    <3>4. account' \in Accounts /\ account'.age = 0
      BY <3>1, <3>2, <3>3, RowWritten, Zenon
    <3> QED BY <3>2, <3>4
  <2>2. CASE ExpireTrial
    <3> DEFINE status == AfterTrial(pass.seen.status)
               next == IF status = pass.seen.status THEN account.status
                                                    ELSE status
    <3>1. next \in TenantStatuses
      BY <1>0, Fields, StatusOfTrial
    <3>2. "past_due" \in SubscriptionStatuses
      BY DEF SubscriptionStatuses
    <3>3. account' = [status |-> next, sub |-> "past_due", age |-> 0]
      BY <2>2 DEF ExpireTrial, Row
    <3>4. 0 \in Ages /\ 0 <= quiet
      BY <1>0, Fields, PassTypes
    <3> HIDE DEF next
    <3> QED BY <3>1, <3>2, <3>3, <3>4 DEF Accounts
  <2>3. CASE CutPass
    BY <1>0, <2>3 DEF CutPass, CycleTypeOK, AgedSinceReminder
  <2> QED BY <2>1, <2>2, <2>3
<1>3. CycleTypeOK'
  BY <1>0, <1>1, <1>2, PassTypes DEF CycleTypeOK
<1> QED
  BY <1>1, <1>2, <1>3, PassTypes
     DEF CycleInv, AgedSinceReminder, Decided, PaymentSeen

(* An event may touch the row and set the subscription; only a payment     *)
(* leaves the mark of one.                                                 *)
LEMMA EventKeeps ==
  ASSUME CycleInv, NEW event \in {"confirm", "fail", "cancel"},
         ProviderEvent(event)
  PROVE  CycleInv'
<1>0. CycleTypeOK /\ AgedSinceReminder /\ Decided /\ PaymentSeen
  BY DEF CycleInv
<1> DEFINE status == StatusAfter(event, account.status)
<1>1. PICK age \in {0, account.age} :
          account' = [status |-> status, sub |-> AfterEvent(event), age |-> age]
  BY DEF ProviderEvent, Row
<1>2. /\ calls' = calls + 1
      /\ pass' = [pass EXCEPT !.paid = pass.paid /\ event = "confirm"]
      /\ UNCHANGED <<runtime, trial, quiet>>
  BY <1>0 DEF ProviderEvent, Calls, CycleTypeOK
<1>3. status \in TenantStatuses
  BY <1>0, Fields, StatusOfEvent
<1>4. /\ AfterEvent(event) \in SubscriptionStatuses
      /\ event = "confirm" => AfterEvent(event) = "active"
  BY DEF AfterEvent, SubscriptionStatuses
<1>5. age \in Ages /\ age <= quiet
  BY <1>0, Fields, PassTypes DEF AgedSinceReminder
<1> HIDE DEF status
<1>6. (pass.paid /\ event = "confirm") \in BOOLEAN
  OBVIOUS
<1>7. /\ pass' \in Passes /\ pass'.pc = pass.pc /\ pass'.seen = pass.seen
      /\ pass'.retry = pass.retry /\ pass'.grace = pass.grace
      /\ pass'.quiet = pass.quiet /\ pass'.expired = pass.expired
      /\ pass'.paid = (pass.paid /\ event = "confirm")
  BY <1>0, <1>2, <1>6, PassMarked, ZenonT(60) DEF CycleTypeOK
<1>a. account' \in Accounts /\ account'.sub = AfterEvent(event) /\ account'.age = age
  BY <1>1, <1>3, <1>4, <1>5 DEF Accounts
<1>b. CycleTypeOK'
  BY <1>0, <1>2, <1>7, <1>a DEF CycleTypeOK
<1>8. AgedSinceReminder'
  BY <1>0, <1>2, <1>5, <1>7, <1>a DEF AgedSinceReminder
<1>9. Decided'
  BY <1>0, <1>7 DEF Decided
<1>10. PaymentSeen'
  BY <1>0, <1>4, <1>7, <1>a DEF PaymentSeen
<1> QED BY <1>b, <1>8, <1>9, <1>10 DEF CycleInv

(* So may a call; none touches the subscription.                           *)
LEMMA MoveKeeps ==
  ASSUME CycleInv, NEW from, NEW to \in TenantStatuses, Moves(from, to),
         calls' \in Nat
  PROVE  CycleInv'
<1>1. /\ account' = [account EXCEPT !.status = to, !.age = 0]
      /\ UNCHANGED <<runtime, trial, pass, quiet>>
  BY DEF Moves
<1>3. account' \in Accounts /\ account'.age = 0 /\ account'.sub = account.sub
  <2>1. account \in Accounts /\ 0 \in Ages
    BY PassTypes DEF CycleInv, CycleTypeOK
  <2>2. /\ [account EXCEPT !.status = to, !.age = 0] \in Accounts
        /\ [account EXCEPT !.status = to, !.age = 0].age = 0
        /\ [account EXCEPT !.status = to, !.age = 0].sub = account.sub
    BY <2>1 DEF Accounts
  <2> QED BY <1>1, <2>2, Zenon
<1>2. CycleTypeOK'
  BY <1>1, <1>3 DEF CycleInv, CycleTypeOK
<1>4. AgedSinceReminder'
  BY <1>1, <1>3, Fields DEF CycleInv, AgedSinceReminder
<1>5. Decided'
  BY <1>1 DEF CycleInv, Decided
<1>6. PaymentSeen'
  BY <1>1, <1>3 DEF CycleInv, PaymentSeen
<1> QED BY <1>2, <1>4, <1>5, <1>6 DEF CycleInv

(* The calls are of that form.                                             *)
LEMMA CallKeeps ==
  ASSUME CycleInv, Suspend \/ Unsuspend \/ Delete \/ Restore \/ RestoreEnds
  PROVE  CycleInv'
<1>1. {"suspended_admin", "active", "pending_deletion", "restoring", "failed"}
          \subseteq TenantStatuses
  BY DEF TenantStatuses, Suspensions
<1>2. calls' \in Nat
  BY DEF Suspend, Unsuspend, Delete, Restore, RestoreEnds, Calls, CycleInv,
         CycleTypeOK
<1>3. \E from, to : to \in TenantStatuses /\ Moves(from, to)
  BY <1>1 DEF Suspend, Unsuspend, Delete, Restore, RestoreEnds
<1> QED BY <1>2, <1>3, MoveKeeps

(* The clock runs while no cycle does.                                     *)
LEMMA ClockKeeps ==
  ASSUME CycleInv, Tick \/ TrialEnds
  PROVE  CycleInv'
<1>0. CycleTypeOK /\ AgedSinceReminder /\ Decided /\ PaymentSeen
  BY DEF CycleInv
<1>1. CASE Tick
  <2>1. /\ account' = [account EXCEPT !.age = Older(account.age)]
        /\ quiet' = Older(quiet) /\ pass.pc = "idle"
        /\ UNCHANGED <<runtime, trial, pass, calls>>
    BY <1>0, <1>1 DEF Tick, CycleTypeOK
  <2>2. /\ Older(account.age) \in Ages /\ Older(quiet) \in Ages
        /\ Older(account.age) <= Older(quiet)
    <3>1. account.age \in Ages /\ quiet \in Ages /\ account.age <= quiet
      BY <1>0, Fields DEF AgedSinceReminder
    <3>2. quiet <= quiet
      BY <3>1 DEF Ages
    <3> QED BY <3>1, <3>2, OlderKeeps
  <2>4. account' \in Accounts /\ account'.age = Older(account.age)
    BY <1>0, <2>1, <2>2, RowWritten DEF CycleTypeOK, Accounts
  <2>3. CycleTypeOK'
    BY <1>0, <2>1, <2>2, <2>4 DEF CycleTypeOK
  <2>5. AgedSinceReminder' /\ Decided' /\ PaymentSeen'
    BY <2>1, <2>2, <2>4 DEF AgedSinceReminder, Decided, PaymentSeen
  <2> QED BY <2>3, <2>5 DEF CycleInv
<1>2. CASE TrialEnds
  BY <1>0, <1>2 DEF TrialEnds, CycleInv, CycleTypeOK, AgedSinceReminder,
                    Decided, PaymentSeen
<1> QED BY <1>1, <1>2

(* The invariant.                                                          *)
LEMMA CycleInvariant == CycleSpec => []CycleInv
<1>1. CycleInit => CycleInv
  <2> SUFFICES ASSUME CycleInit PROVE CycleInv
    OBVIOUS
  <2>1. CycleTypeOK
    <3>1. account \in Accounts
      BY PassTypes DEF CycleInit, Row, Accounts, TenantStatuses, SubscriptionStatuses
    <3> QED BY <3>1, PassTypes DEF CycleInit, CycleTypeOK
  <2>2. pass.pc = "idle" /\ account.age = 0 /\ quiet = 12
    BY PassTypes DEF CycleInit, Row, Horizon
  <2> QED BY <2>1, <2>2 DEF CycleInv, AgedSinceReminder, Decided, PaymentSeen
<1>2. CycleInv /\ [CycleNext]_cycleVars => CycleInv'
  <2> SUFFICES ASSUME CycleInv, [CycleNext]_cycleVars PROVE CycleInv'
    OBVIOUS
  <2>1. CASE PassStep
    BY <2>1, CyclesAssumption, ListKeeps, ResolveKeeps, SendKeeps, AnchorKeeps,
       ProbeKeeps, DecideKeeps, PassEnds DEF PassStep
  <2>2. CASE CycleNext /\ ~PassStep
    BY <2>2, EventKeeps, CallKeeps, PassEnds, ClockKeeps DEF CycleNext
  <2>3. CASE UNCHANGED cycleVars
    BY <2>3 DEF cycleVars, CycleInv, CycleTypeOK, AgedSinceReminder, Decided,
                PaymentSeen
  <2> QED BY <2>1, <2>2, <2>3
<1> QED BY <1>1, <1>2, PTL DEF CycleSpec

-----------------------------------------------------------------------------
(* A reminder goes out no sooner than the retry window after the last one  *)
(* on record, wherever the passes before it were cut                       *)
(* (run_billing_dunning_cycle, compute_dunning_windows).                   *)
THEOREM RemindersAreSpaced == CycleSpec => RemindersSpaced
<1>1. CycleInv /\ [CycleNext]_cycleVars =>
          [Send /\ pass.retry => quiet >= Windows(pass.seen).retry]_cycleVars
  <2> SUFFICES ASSUME CycleInv, Send, pass.retry
               PROVE  quiet >= Windows(pass.seen).retry
    OBVIOUS
  <2>1. /\ pass.seen.age >= Windows(pass.seen).retry
        /\ pass.seen.age <= quiet
        /\ pass.seen.age \in Nat /\ quiet \in Nat
    BY Fields DEF Send, CycleInv, AgedSinceReminder, Decided
  <2>2. Windows(pass.seen).retry \in Nat
    BY WindowsOrdered
  <2> QED BY <2>1, <2>2
<1> QED BY <1>1, CycleInvariant, PTL DEF CycleSpec, RemindersSpaced

(* A suspension by the cycle comes a day at least after the recorded       *)
(* reminder before its own (run_billing_dunning_cycle).                    *)
THEOREM GraceIsGiven == CycleSpec => GraceAfterReminder
<1>1. CycleInv /\ [CycleNext]_cycleVars =>
          [Escalate => pass.quiet >= 4]_cycleVars
  BY DEF CycleInv, Decided, Escalate
<1> QED BY <1>1, CycleInvariant, PTL DEF CycleSpec, GraceAfterReminder

(* A payment applied before the reminder was recorded keeps the tenant in  *)
(* service (run_billing_dunning_cycle, record_audit_event).                *)
THEOREM PaidIsNotSuspended == CycleSpec => PaidBeforeReminderStays
<1>1. CycleInv /\ [CycleNext]_cycleVars => [Escalate => ~pass.paid]_cycleVars
  BY DEF CycleInv, PaymentSeen, Escalate
<1> QED BY <1>1, CycleInvariant, PTL DEF CycleSpec, PaidBeforeReminderStays
=============================================================================
