--------------------------- MODULE InvoicePayment ---------------------------
(***************************************************************************)
(* Paying the ERP invoices of one provisioned tenant: the invoice rows the *)
(* platform mirrors from the ERP, the payment attempts, the provider's     *)
(* webhooks with their outbox, and the reconciliation with the ERP.        *)
(*                                                                         *)
(* Whoever touches an invoice loads its row, asks the ERP, and writes what *)
(* changed.  resync flushes the row before the transaction goes on, which  *)
(* locks it until the commit.  The single API process runs the webhooks on *)
(* its event loop, one after the other; the other calls run in threads and *)
(* the reconciliation in the worker.                                       *)
(*                                                                         *)
(* The ERP answers; the subscription is never cancelled (a cancelled one   *)
(* refuses every event).                                                   *)
(***************************************************************************)
EXTENDS Naturals, Sequences, FiniteSets, BillingLifecycle

CONSTANTS
    InvoiceCount,  \* the invoices, in the order the reconciliation takes them
    Payers,        \* calls that open a payment attempt, each made once
    Visitors,      \* calls that view or reconcile, each made once
    MaxFaults,     \* bound on interrupted transactions
    Provider,      \* the payment gateway
    Credits,       \* the invoices accountants may credit while open
    Probes         \* answers of the runtime probe

ASSUME PaymentAssumption ==
    /\ InvoiceCount \in Nat \ {0}
    /\ IsFiniteSet(Payers) /\ MaxFaults \in Nat
    /\ Provider \in {"dpo", "azampay"} /\ Credits \subseteq 1 .. InvoiceCount
    /\ Probes \subseteq BOOLEAN /\ Probes # {}
    /\ Payers \cap Visitors = {}
    /\ \A c \in Payers \cup Visitors : c \notin {"hook", "cycle"}

VARIABLES
    erp,       \* the sales invoices of the ERP
    invoice,   \* billing_invoices.invoice_status
    attempts,  \* payment_attempts, by order of creation
    recent,    \* their ids, by order of updated_at
    checkout,  \* the provider's page of each attempt
    mail,      \* what the provider has still to deliver
    outbox,    \* payment_event_outbox.status
    tenant,    \* tenant.status
    sub,       \* subscription.status
    tx,        \* the transaction each agent is in
    faults

vars == <<erp, invoice, attempts, recent, checkout, mail, outbox, tenant, sub,
          tx, faults>>

Invoices == 1 .. InvoiceCount
Agents == Payers \cup Visitors \cup {"hook", "cycle"}
AttemptIds == 1 .. Cardinality(Payers)
Notices == {"confirm", "fail"} \X AttemptIds
ProviderEvents == {"confirm", "fail", "late"} \X AttemptIds
NoAttempt == 0

RowStatuses == {"payment_pending", "paid", "cancelled"}
AttemptStatuses ==
    {"checkout_started", "paid", "failed", "reconciliation_required"}

(* ACTIVE_PAYMENT_ATTEMPT_STATES; nothing expires an attempt. *)
Active(a) == attempts[a].status = "checkout_started"

(***************************************************************************)
(* What a sync makes of an ERP invoice.  A credited one has nothing        *)
(* outstanding, so its row says cancelled, nothing due, all of it paid.    *)
(***************************************************************************)
RowOf == [open |-> "payment_pending", paid |-> "paid", credited |-> "cancelled"]

(* The rows in S, as the database and as the ERP has them. *)
Rows(S) == [i \in S |-> invoice[i]]
View(S) == [i \in S |-> RowOf[erp[i]]]

(* _invoice_is_settled, _invoice_is_payable: nothing due, something due. *)
Settled(row) == row \in {"paid", "cancelled"}
Payable(row) == row = "payment_pending"

Idle == [pc |-> "idle", op |-> "none", inv |-> 0, touched |-> {}, row |-> << >>,
         view |-> << >>, event |-> << >>, att |-> NoAttempt, was |-> "none",
         tenant |-> "none", sub |-> "none"]
Done == [Idle EXCEPT !.pc = "done"]

(* A column is written if the session's value differs from what it loaded. *)
Stored(now, loaded, new) == IF new = loaded THEN now ELSE new

(* An invoice row is flushed with what the ERP said, then committed. *)
StoredRow(now, loaded, view, new) ==
    Stored(Stored(now, loaded, view), view, new)

(* An update makes an attempt the one touched last. *)
Place(a) == CHOOSE k \in 1 .. Len(recent) : recent[k] = a
Touch(a) ==
    [k \in 1 .. Len(recent) |-> IF k = Len(recent) THEN a
                                ELSE IF k < Place(a) THEN recent[k]
                                ELSE recent[k + 1]]

(* Among the attempts in S, the one touched last; of an invoice's, too. *)
Attempts == 1 .. Len(attempts)
LatestIn(S) ==
    LET places == {k \in 1 .. Len(recent) : recent[k] \in S}
    IN  IF places = {} THEN NoAttempt
        ELSE recent[CHOOSE k \in places : \A m \in places : m <= k]
Latest(i) == LatestIn({a \in Attempts : attempts[a].invoice = i})

(***************************************************************************)
(* The type of the state.                                                  *)
(***************************************************************************)
Columns(S) == UNION {[T -> S] : T \in SUBSET Invoices}

Transactions ==
    [pc : {"idle", "received", "context", "applied", "answer", "fetched",
           "locked", "done"},
     op : {"none", "view", "pay", "reconcile"},
     inv : Invoices \cup {0}, touched : SUBSET Invoices,
     row : Columns(RowStatuses), view : Columns(RowStatuses),
     event : ProviderEvents \cup {<< >>},
     att : AttemptIds \cup {NoAttempt}, was : AttemptStatuses \cup {"none"},
     tenant : TenantStatuses \cup {"none"},
     sub : SubscriptionStatuses \cup {"none"}]

TypeOK ==
    /\ erp \in [Invoices -> {"open", "paid", "credited"}]
    /\ invoice \in [Invoices -> RowStatuses]
    /\ attempts \in Seq([invoice : Invoices, status : AttemptStatuses])
    /\ Len(recent) = Len(attempts)
    /\ {recent[k] : k \in 1 .. Len(recent)} = Attempts
    /\ checkout \in [AttemptIds -> {"none", "open", "declined", "paid"}]
    /\ mail \in [Notices -> {"none", "due", "acked"}]
    /\ outbox \in [ProviderEvents -> {"none", "processing", "failed",
                                      "processed"}]
    /\ tenant \in TenantStatuses
    /\ sub \in SubscriptionStatuses
    /\ \A t \in Agents : tx[t] \in Transactions
    /\ faults \in 0 .. MaxFaults

(* Open invoices of a tenant in service, in good standing or suspended. *)
Init ==
    /\ erp = [i \in Invoices |-> "open"]
    /\ invoice = View(Invoices)
    /\ attempts = << >> /\ recent = << >>
    /\ checkout = [a \in AttemptIds |-> "none"]
    /\ mail = [n \in Notices |-> "none"]
    /\ outbox = [e \in ProviderEvents |-> "none"]
    /\ \/ tenant = "active" /\ sub = "active"
       \/ tenant = "suspended_billing" /\ sub = "past_due"
    /\ tx = [t \in Agents |-> Idle]
    /\ faults = 0

-----------------------------------------------------------------------------
(***************************************************************************)
(* The outside: the customer on the provider's page, the accountants and   *)
(* their bookings in the ERP.  A declined payment may be tried again on    *)
(* the same page; nothing tells the provider to close a page.              *)
(***************************************************************************)
Pay(a) ==
    /\ checkout[a] \in {"open", "declined"}
    /\ checkout' = [checkout EXCEPT ![a] = "paid"]
    /\ mail' = [mail EXCEPT ![<<"confirm", a>>] = "due"]
    /\ UNCHANGED <<erp, invoice, attempts, recent, outbox, tenant, sub, tx,
                   faults>>

Decline(a) ==
    /\ checkout[a] = "open"
    /\ checkout' = [checkout EXCEPT ![a] = "declined"]
    /\ mail' = [mail EXCEPT ![<<"fail", a>>] = "due"]
    /\ UNCHANGED <<erp, invoice, attempts, recent, outbox, tenant, sub, tx,
                   faults>>

(* The payment, or a bank transfer, is booked. *)
Book(i) ==
    /\ erp[i] = "open"
    /\ erp' = [erp EXCEPT ![i] = "paid"]
    /\ UNCHANGED <<invoice, attempts, recent, checkout, mail, outbox, tenant,
                   sub, tx, faults>>

Credit(i) ==
    /\ i \in Credits
    /\ erp[i] = "open"
    /\ erp' = [erp EXCEPT ![i] = "credited"]
    /\ UNCHANGED <<invoice, attempts, recent, checkout, mail, outbox, tenant,
                   sub, tx, faults>>

-----------------------------------------------------------------------------
(***************************************************************************)
(* Transactions on invoice rows.                                           *)
(***************************************************************************)
Held(t) == IF tx[t].pc = "locked" THEN tx[t].touched ELSE {}
Free(S) == \A t \in Agents : Held(t) \cap S = {}

(* Load rows and ask the ERP for those in S. *)
Fetch(t, op, i, S) ==
    /\ tx[t].pc = "idle"
    /\ tx' = [tx EXCEPT ![t] = [Idle EXCEPT !.pc = "fetched", !.op = op,
                                            !.inv = i, !.touched = S,
                                            !.row = Rows(S), !.view = View(S),
                                            !.tenant = IF op = "reconcile"
                                                       THEN tenant ELSE @]]
    /\ UNCHANGED <<erp, invoice, attempts, recent, checkout, mail, outbox,
                   tenant, sub, faults>>

(* The endpoints that show invoices store what the ERP said. *)
StoreView(t) ==
    /\ tx[t].pc = "fetched" /\ tx[t].op = "view"
    /\ Free(tx[t].touched)
    /\ invoice' = [i \in tx[t].touched |-> Stored(invoice[i], tx[t].row[i],
                                                  tx[t].view[i])]
    /\ tx' = [tx EXCEPT ![t] = Done]
    /\ UNCHANGED <<erp, attempts, recent, checkout, mail, outbox, tenant, sub,
                   faults>>

(* Variant: the check is made before the row is flushed. *)
CheckUnlocked(t) ==
    LET i == tx[t].inv
    IN  /\ tx[t].pc = "fetched" /\ tx[t].op = "pay"
        /\ tx' = [tx EXCEPT ![t] =
                     IF Payable(tx[t].view[i])
                          /\ (Latest(i) = NoAttempt \/ ~Active(Latest(i)))
                     THEN [@ EXCEPT !.pc = "locked"]
                     ELSE Done]
        /\ UNCHANGED <<erp, invoice, attempts, recent, checkout, mail, outbox,
                       tenant, sub, faults>>

(* The row is flushed, then the call looks for an active attempt; refusing *)
(* it rolls the row back.                                                  *)
CheckPayable(t) ==
    LET i == tx[t].inv
    IN  /\ tx[t].pc = "fetched" /\ tx[t].op = "pay"
        /\ Free(tx[t].touched)
        /\ tx' = [tx EXCEPT ![t] =
                     IF Payable(tx[t].view[i])
                          /\ (Latest(i) = NoAttempt \/ ~Active(Latest(i)))
                     THEN [@ EXCEPT !.pc = "locked",
                                    !.row[i] = Stored(invoice[i], tx[t].row[i],
                                                      tx[t].view[i])]
                     ELSE Done]
        /\ UNCHANGED <<erp, invoice, attempts, recent, checkout, mail, outbox,
                       tenant, sub, faults>>

(* The provider opens a page, and the attempt is committed.  An            *)
(* interruption in between leaves a page whose address nobody was given.   *)
OpenCheckout(t) ==
    LET i == tx[t].inv
        a == Len(attempts) + 1
    IN  /\ tx[t].pc = "locked" /\ tx[t].op = "pay"
        /\ attempts' = Append(attempts, [invoice |-> i,
                                         status |-> "checkout_started"])
        /\ recent' = Append(recent, a)
        /\ checkout' = [checkout EXCEPT ![a] = "open"]
        /\ invoice' = [invoice EXCEPT ![i] = tx[t].row[i]]
        /\ tx' = [tx EXCEPT ![t] = Done]
        /\ UNCHANGED <<erp, mail, outbox, tenant, sub, faults>>

-----------------------------------------------------------------------------
(***************************************************************************)
(* reconcile_tenant_billing: the rows are flushed as listed, and the one   *)
(* being reconciled is asked for again; then its latest attempt is read    *)
(* and the runtime probed, and all is committed.  The cycle lists once,    *)
(* with the first invoice; for the others the one question is the fetch.   *)
(***************************************************************************)
Compare(t) ==
    LET i == tx[t].inv
        seen == IF tx[t].touched = Invoices
                THEN [tx[t].view EXCEPT ![i] = RowOf[erp[i]]]
                ELSE tx[t].view
    IN  /\ tx[t].pc = "fetched" /\ tx[t].op = "reconcile"
        /\ Free(tx[t].touched)
        /\ tx' = [tx EXCEPT ![t].pc = "locked",
                            ![t].row = [j \in tx[t].touched |->
                                StoredRow(invoice[j], @[j], tx[t].view[j],
                                          seen[j])],
                            ![t].view = seen,
                            ![t].att = Latest(i),
                            ![t].was = IF Latest(i) = NoAttempt THEN "none"
                                       ELSE attempts[Latest(i)].status,
                            ![t].sub = sub]
        /\ UNCHANGED <<erp, invoice, attempts, recent, checkout, mail, outbox,
                       tenant, sub, faults>>

(* _apply_paid_repair. *)
Repaired(status, runtime) ==
    CASE status = "suspended_billing" ->
             IF runtime THEN "active" ELSE "pending"
      [] status = "failed" -> AfterPaymentConfirmed("pending")
      [] OTHER -> AfterPaymentConfirmed(status)

(* Variant: the attempt takes the status of its invoice. *)
ReviewedAsInvoice(row, status) == IF status = "none" THEN status ELSE row

(* The verdict on the attempt; a paid one the ERP does not confirm is      *)
(* handed to an operator.                                                  *)
Reviewed(row, status) ==
    CASE status = "none" -> status
      [] status # "none" /\ Settled(row) -> "paid"
      [] status = "paid" /\ ~Settled(row) -> "reconciliation_required"
      [] OTHER -> status

(* A call is over; the cycle goes on to the tenant's next invoice. *)
After(t) ==
    CASE t # "cycle" -> Done
      [] t = "cycle" /\ tx[t].inv + 1 \in Invoices ->
             [Idle EXCEPT !.inv = tx[t].inv]
      [] OTHER -> Idle

(* The rows the transaction flushed, among the others. *)
Committed(t) == [i \in Invoices |-> IF i \in tx[t].touched THEN tx[t].row[i]
                                                           ELSE invoice[i]]

(* Variant: the repair looks at the subscription only. *)
RepairSubscriptionOnly(t) ==
    LET settled == Settled(tx[t].view[tx[t].inv])
    IN  /\ tx[t].pc = "locked" /\ tx[t].op = "reconcile"
        /\ sub' = IF settled THEN Stored(sub, tx[t].sub, "active") ELSE sub
        /\ invoice' = Committed(t)
        /\ tx' = [tx EXCEPT ![t] = After(t)]
        /\ UNCHANGED <<erp, attempts, recent, checkout, mail, outbox, tenant,
                       faults>>

Reconcile(t) ==
    LET settled == Settled(tx[t].view[tx[t].inv])
        a == tx[t].att
        verdict == Reviewed(tx[t].view[tx[t].inv], tx[t].was)
    IN  /\ tx[t].pc = "locked" /\ tx[t].op = "reconcile"
        /\ invoice' = Committed(t)
        /\ IF verdict = tx[t].was THEN UNCHANGED <<attempts, recent>>
           ELSE /\ attempts' = [attempts EXCEPT ![a].status = verdict]
                /\ recent' = Touch(a)
        /\ sub' = IF settled THEN Stored(sub, tx[t].sub, "active") ELSE sub
        /\ \E runtime \in Probes :
               tenant' = IF settled
                         THEN Stored(tenant, tx[t].tenant,
                                     Repaired(tx[t].tenant, runtime))
                         ELSE tenant
        /\ tx' = [tx EXCEPT ![t] = After(t)]
        /\ UNCHANGED <<erp, checkout, mail, outbox, faults>>

(* The filter of run_billing_reconciliation_cycle. *)
Candidate ==
    \/ tenant \in {"pending_payment", "pending", "suspended_billing", "failed"}
    \/ sub \in {"past_due", "pending", "cancelled"}
    \/ \E i \in Invoices : invoice[i] = "payment_pending"
    \/ \E a \in Attempts :
           attempts[a].status \in {"checkout_started", "paid",
                                   "reconciliation_required"}

(* The cycle takes the invoices of a candidate tenant one by one. *)
CycleTenant ==
    /\ tx["cycle"].inv = 0 /\ Candidate
    /\ Fetch("cycle", "reconcile", 1, Invoices)

CycleInvoice ==
    LET i == tx["cycle"].inv + 1
    IN  /\ i \in Invoices \ {1}
        /\ Fetch("cycle", "reconcile", i, {i})

-----------------------------------------------------------------------------
(***************************************************************************)
(* Webhooks.  The outbox row is found or inserted, an event that was       *)
(* processed is answered, another one is marked processing and handled.    *)
(***************************************************************************)
Hook(pc) == tx["hook"].pc = pc
Event == tx["hook"].event

(* Variant: the gateway takes the notice at its word. *)
ParsedAsSent(e) == e \in Notices

(***************************************************************************)
(* What parse_webhook makes of a notice.  The gateway of dpo does not take *)
(* its word: it asks the provider for the state of the payment, so a       *)
(* decline delivered after the payment is a confirmation, a late one.  The *)
(* gateway of azampay reads the notice.                                    *)
(***************************************************************************)
Notice(e) == IF e[1] = "late" THEN <<"fail", e[2]>> ELSE e
EventType(e) == IF e[1] = "fail" THEN "fail" ELSE "confirm"
Parsed(e) ==
    IF Provider = "dpo"
    THEN EventType(e) = "confirm" <=> checkout[e[2]] = "paid"
    ELSE e \in Notices

(***************************************************************************)
(* The dedup_key of an event: provider, event type, tenant id,             *)
(* subscription id (a dash at the shortest) and digest, with colons in     *)
(* between.  PostgreSQL refuses to insert a key wider than its column.     *)
(***************************************************************************)
KeyWidth == 128
KeyLength(kind) ==
    [dpo |-> 3, azampay |-> 7][Provider] + 1 +
    [confirm |-> 17, fail |-> 14][kind] + 1 + 36 + 1 + 1 + 1 + 64

(* A delivery that cannot be inserted changes nothing and gets an error.   *)
Deliverable(e) ==
    /\ mail[Notice(e)] = "due" /\ Parsed(e)
    /\ KeyLength(EventType(e)) <= KeyWidth

(* Variant: a duplicate of a processed event is refused. *)
ReceiveNew(e) ==
    /\ Hook("idle") /\ Deliverable(e)
    /\ outbox[e] # "processed"
    /\ tx' = [tx EXCEPT !["hook"].pc = "received", !["hook"].event = e]
    /\ outbox' = [outbox EXCEPT ![e] = "processing"]
    /\ UNCHANGED <<erp, invoice, attempts, recent, checkout, mail, tenant, sub,
                   faults>>

Receive(e) ==
    /\ Hook("idle") /\ Deliverable(e)
    /\ IF outbox[e] = "processed"
       THEN /\ tx' = [tx EXCEPT !["hook"].pc = "answer", !["hook"].event = e]
            /\ UNCHANGED outbox
       ELSE /\ tx' = [tx EXCEPT !["hook"].pc = "received", !["hook"].event = e]
            /\ outbox' = [outbox EXCEPT ![e] = "processing"]
    /\ UNCHANGED <<erp, invoice, attempts, recent, checkout, mail, tenant, sub,
                   faults>>

(* Variant: the tenant's latest attempt, whatever the reference. *)
ResolvedToLatest(e) == LatestIn(Attempts)

(* The attempt an event is about: by its reference, the token that dpo     *)
(* sends; else the latest active attempt of the tenant, else its latest.   *)
(* Only declines of azampay come to the latter: its confirmations cannot   *)
(* be inserted.                                                            *)
Resolved(e) ==
    LET active == {a \in Attempts : Active(a)}
    IN  IF Provider = "dpo" THEN e[2]
        ELSE LatestIn(IF active # {} THEN active ELSE Attempts)

Context ==
    LET a == Resolved(Event)
    IN  /\ Hook("received")
        /\ tx' = [tx EXCEPT !["hook"] =
                     [@ EXCEPT !.pc = "context", !.att = a,
                               !.was = attempts[a].status,
                               !.inv = attempts[a].invoice,
                               !.row = Rows({attempts[a].invoice}),
                               !.view = View({attempts[a].invoice}),
                               !.tenant = tenant, !.sub = sub]]
        /\ UNCHANGED <<erp, invoice, attempts, recent, checkout, mail, outbox,
                       tenant, sub, faults>>

(* payment.confirmed settles the invoice, whatever the ERP says of it;     *)
(* payment.failed leaves it alone.                                         *)
Apply ==
    LET h == tx["hook"]
        kind == EventType(Event)
        i == h.inv
        settled == IF Settled(h.view[i]) THEN h.view[i] ELSE "paid"
        outcome == [confirm |-> "paid", fail |-> "failed"][kind]
    IN  /\ Hook("context")
        /\ IF kind = "confirm"
           THEN /\ Free({i})
                /\ invoice' = [invoice EXCEPT
                      ![i] = StoredRow(@, h.row[i], h.view[i], settled)]
           ELSE UNCHANGED invoice
        /\ attempts' = [attempts EXCEPT
                           ![h.att].status = Stored(@, h.was, outcome)]
        /\ recent' = Touch(h.att)
        /\ tenant' = Stored(tenant, h.tenant, StatusAfter(kind, h.tenant))
        /\ sub' = Stored(sub, h.sub, AfterEvent(kind))
        /\ tx' = [tx EXCEPT !["hook"] = [Idle EXCEPT !.pc = "applied",
                                                     !.event = Event]]
        /\ UNCHANGED <<erp, checkout, mail, outbox, faults>>

(* What comes after the commit finds the tenant provisioned; then the      *)
(* outbox row is marked processed.                                         *)
MarkProcessed ==
    /\ Hook("applied")
    /\ outbox' = [outbox EXCEPT ![Event] = "processed"]
    /\ tx' = [tx EXCEPT !["hook"].pc = "answer"]
    /\ UNCHANGED <<erp, invoice, attempts, recent, checkout, mail, tenant, sub,
                   faults>>

Answer ==
    /\ Hook("answer")
    /\ mail' = [mail EXCEPT ![Notice(Event)] = "acked"]
    /\ tx' = [tx EXCEPT !["hook"] = Idle]
    /\ UNCHANGED <<erp, invoice, attempts, recent, checkout, outbox, tenant,
                   sub, faults>>

(***************************************************************************)
(* A transaction is interrupted.  The except block of the webhook marks    *)
(* the outbox row failed, unless the process died; the provider, without   *)
(* an answer, delivers again.                                              *)
(***************************************************************************)
Interrupt(t) ==
    /\ tx[t] \notin {Idle, Done}
    /\ faults < MaxFaults
    /\ faults' = faults + 1
    /\ tx' = [tx EXCEPT ![t] = IF t \in Payers \cup Visitors THEN Done
                                ELSE Idle]
    /\ \/ UNCHANGED outbox
       \/ /\ t = "hook" /\ tx[t].pc \in {"received", "context", "applied"}
          /\ outbox' = [outbox EXCEPT ![Event] = "failed"]
    /\ UNCHANGED <<erp, invoice, attempts, recent, checkout, mail, tenant, sub>>

-----------------------------------------------------------------------------
Transact(t) == \/ StoreView(t) \/ CheckPayable(t) \/ OpenCheckout(t)
               \/ Compare(t) \/ Reconcile(t)

Handle == Context \/ Apply \/ MarkProcessed \/ Answer

Next ==
    \/ \E a \in AttemptIds : Pay(a) \/ Decline(a)
    \/ \E i \in Invoices : Book(i) \/ Credit(i)
    \/ \E c \in Payers, i \in Invoices : Fetch(c, "pay", i, {i})
    \/ \E c \in Visitors, op \in {"view", "reconcile"}, i \in Invoices :
           Fetch(c, op, i, Invoices)
    \/ CycleTenant \/ CycleInvoice
    \/ \E t \in Agents : Transact(t) \/ Interrupt(t)
    \/ \E e \in ProviderEvents : Receive(e)
    \/ Handle

Spec == Init /\ [][Next]_vars

(***************************************************************************)
(* The scheduler starts the cycle again and again, the provider delivers   *)
(* until it gets an answer, and PostgreSQL grants a row lock in the order  *)
(* of the requests.  Nobody has to pay, to book or to call.                *)
(***************************************************************************)
FairSpec ==
    /\ Spec
    /\ WF_vars(CycleTenant) /\ WF_vars(CycleInvoice)
    /\ \A t \in Agents : SF_vars(Transact(t))
    /\ \A e \in ProviderEvents : WF_vars(Receive(e))
    /\ SF_vars(Handle)

-----------------------------------------------------------------------------
PaidFor(i) ==
    {a \in Attempts : attempts[a].invoice = i /\ checkout[a] = "paid"}

(* An invoice row says paid only if the ERP does or the customer has paid  *)
(* it: neither a stale sync nor a webhook resolved to another attempt      *)
(* settles a debt nobody paid (_settle_invoice_locally).                   *)
PaidTellsTruth ==
    \A i \in Invoices :
        invoice[i] = "paid" => erp[i] = "paid" \/ PaidFor(i) # {}

(* When the provider has its answer to a confirmation it will never repeat *)
(* it, so the attempt is paid or in the hands of an operator, whatever was *)
(* interrupted, whatever the reconciliation found in between, and whether  *)
(* the decline of an earlier try is delivered before it, after it or again *)
(* (handle_gateway_webhook, parse_webhook of dpo).                         *)
AckedIsBooked ==
    \A a \in Attempts :
        mail[<<"confirm", a>>] = "acked"
            => attempts[a].status \in {"paid", "reconciliation_required"}

(* create_payment_attempt_for_invoice still sees what it checked when it   *)
(* commits: the last attempt of the invoice is not an open checkout, also  *)
(* when two calls check at the same time.                                  *)
OpensAfterTheLast ==
    [][\A a \in AttemptIds :
           a = Len(attempts) + 1 /\ Len(attempts') = a =>
               LET last == Latest(attempts'[a].invoice)
               IN  last = NoAttempt \/ ~Active(last)]_vars

(* Every confirmation is handled and answered in the end, whatever was     *)
(* interrupted (handle_gateway_webhook and the provider's retries).        *)
ConfirmedIsProcessed ==
    \A a \in AttemptIds :
        mail[<<"confirm", a>>] = "due" ~> mail[<<"confirm", a>>] = "acked"

(* Once the ERP has booked a payment, the invoice row comes to say so for  *)
(* good and the tenant is back in service, although views, failed          *)
(* payments and stale reads write the same rows                            *)
(* (run_billing_reconciliation_cycle).                                     *)
ReconciledInTheEnd ==
    \A i \in Invoices :
        erp[i] = "paid" ~>
            [](invoice[i] = "paid" /\ sub = "active" /\ tenant = "active")

(* No invoice is charged twice.                                            *)
(* (create_payment_attempt_for_invoice refuses it by what the ERP says.)   *)
ChargedOnce == \A i \in Invoices : Cardinality(PaidFor(i)) <= 1
=============================================================================
