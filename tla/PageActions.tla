----------------------------- MODULE PageActions -----------------------------
(***************************************************************************)
(* One page of a workspace or of the operators' console, driven by the     *)
(* tables: loads and refreshes, buttons with busy flags and confirmation   *)
(* dialogs, the requests they send, and the reloads after the answer,      *)
(* beside a server that changes on its own.                                *)
(*                                                                         *)
(* The server is the sequence of states it has been in; what a page shows  *)
(* of it is the index of the state it has read.                            *)
(***************************************************************************)
EXTENDS Naturals, FiniteSets, PageTables

CONSTANTS
    PageConditions,   \* states of the tenant: [status, billing, sub]
    MaxPast,          \* bound: states the server goes through
    MaxAsked          \* bound: requests of buttons under way at once, by page

ASSUME PageAssumption ==
    /\ MaxPast \in Nat /\ MaxAsked \in [Pages -> Nat]
    /\ PageConditions \subseteq [status : Statuses, billing : STRING, sub : STRING]

VARIABLES
    desk,    \* the page that is open, and what it has typed, opened and busy
    views,   \* of each section of the page: the state read, and its fetches
    asked,   \* button requests, from the press to the end of the handler
    past     \* the states of the server

pageVars == <<desk, views, asked, past>>

NoPage == "none"
NoTenant == [status |-> "", billing |-> "", sub |-> ""]
NoView == [read |-> 0, failed |-> FALSE, loading |-> FALSE, fetches |-> {}]

ClosedDesk ==
    [page |-> NoPage, admin |-> FALSE, dialog |-> "none", typed |-> FALSE,
     busy |-> {}, alarm |-> FALSE, spent |-> FALSE]

PageInit ==
    /\ desk = ClosedDesk
    /\ views = [s \in {} |-> NoView]
    /\ asked = {}
    /\ past = <<>>

Now == Len(past)
Tenant(section) ==
    IF section \in DOMAIN views /\ views[section].read > 0
    THEN past[views[section].read] ELSE NoTenant

(***************************************************************************)
(* Fetches.  [since |-> i, by |-> k]: asked of the server in state i, by   *)
(* the handler k or by the page.                                           *)
(***************************************************************************)
ByPage == <<"page", NoRow>>
Key(h) == <<h.button, h.row>>

(* The query client joins the fetch of a section that has no data yet and  *)
(* cancels it otherwise; plain loads run side by side.                     *)
Started(s, v, by) ==
    LET new == {[since |-> Now, by |-> by]} IN
    [v EXCEPT !.loading = s \in ShowsLoading,
              !.fetches = IF s \notin QuerySections THEN @ \cup new
                          ELSE IF v.read = 0 /\ @ # {} THEN @ ELSE new]

StartAll(ss, by) ==
    [s \in DOMAIN views |-> IF s \in ss THEN Started(s, views[s], by) ELSE views[s]]

(* Awaits end when their fetch is answered, or cancelled by another one. *)
Freed(s, by, hs) ==
    {IF s \in QuerySections \/ Key(h) = by THEN [h EXCEPT !.awaits = @ \ {s}] ELSE h :
        h \in hs}

Cancels(ss) == {s \in ss \cap QuerySections : views[s].read > 0}
Interrupted(ss, hs) == {[h EXCEPT !.awaits = @ \ Cancels(ss)] : h \in hs}

(* A handler whose awaits have ended runs before anything else happens. *)
Resumable == {h \in asked : h.step > 0 /\ h.awaits = {}}
Idle == desk.page # NoPage /\ Resumable = {}

Roles(page) ==
    IF \E n \in DOMAIN Buttons : Buttons[n].page = page /\ Buttons[n].admin
    THEN BOOLEAN ELSE {FALSE}

OpenPage(page, admin, c) ==
    /\ desk.page = NoPage
    /\ past' = <<c>>
    /\ desk' = [ClosedDesk EXCEPT !.page = page, !.admin = admin]
    /\ views' = [s \in Loads[page] |->
                    [NoView EXCEPT !.loading = s \in ShowsLoading,
                                   !.fetches = {[since |-> 1, by |-> ByPage]}]]
    /\ UNCHANGED asked

(* The Refresh button, or the Retry button after an error. *)
RefreshPage ==
    /\ Idle /\ desk.dialog = "none"
    /\ Refreshes[desk.page] # {}
    /\ \A s \in Refreshes[desk.page] :
          /\ desk.page \in RefreshWaits => views[s].fetches = {}
          /\ desk.page \in RefreshRetries => views[s].failed /\ views[s].read = 0
    /\ views' = StartAll(Refreshes[desk.page], ByPage)
    /\ asked' = Interrupted(Refreshes[desk.page], asked)
    /\ UNCHANGED <<desk, past>>

(* Recent jobs are polled; a poll joins the fetch that is under way. *)
PollRecentJobs ==
    /\ Idle /\ desk.page = "overview"
    /\ views["jobs"].read > 0 /\ views["jobs"].fetches = {}
    /\ views' = StartAll({"jobs"}, ByPage)
    /\ UNCHANGED <<desk, asked, past>>

ViewAnswered(s, f, read) ==
    /\ f.since <= read /\ read <= Now
    /\ views' = [views EXCEPT ![s].read = read, ![s].failed = FALSE,
                              ![s].loading = FALSE, ![s].fetches = @ \ {f}]
    /\ desk' = [desk EXCEPT !.alarm = @ /\ s \in QuerySections]
    /\ asked' = Freed(s, f.by, asked)
    /\ UNCHANGED past

(* Bound: one section at a time has failed. *)
ViewFailed(s, f) ==
    /\ s \notin Settled
    /\ \A o \in DOMAIN views \ {s} : ~views[o].failed
    /\ views' = [views EXCEPT ![s].failed = TRUE, ![s].loading = FALSE,
                              ![s].fetches = @ \ {f}]
    /\ desk' = [desk EXCEPT !.alarm = @ \/ (s \notin QuerySections /\
                                            desk.page \in HidesControls)]
    /\ asked' = Freed(s, f.by, asked)
    /\ UNCHANGED past

(***************************************************************************)
(* Buttons.                                                                *)
(***************************************************************************)
Loaded(b) == b.section # "none" => views[b.section].read > 0

Hidden(b) ==
    b.inside /\ (desk.alarm \/ views[b.section].loading \/ views[b.section].failed)

Available(b) ==
    /\ b.page = desk.page /\ Loaded(b) /\ ~Hidden(b)
    /\ b.admin => desk.admin
    /\ b.gated => ~BillingBlocked(Tenant("tenant"))
    /\ \/ b.statuses = Statuses
       \/ Tenant(b.section).status \in b.statuses
       \/ Tenant("subscription").sub \in b.subs

Busy(b, row) == <<b.flag, row>> \in desk.busy

(* A flag that holds a row holds one row. *)
SetBusy(b, row) == {x \in desk.busy : x[1] # b.flag} \cup {<<b.flag, row>>}
ClearBusy(b) == {x \in desk.busy : x[1] # b.flag}

AskServer(name, row) ==
    /\ Cardinality(asked) < MaxAsked[desk.page]
    /\ asked' = asked \cup {[button |-> name, row |-> row, step |-> 0,
                             awaits |-> {}, made |-> 0]}

PressButton(name, row) ==
    LET b == Buttons[name] IN
    /\ Idle /\ desk.dialog = "none"
    /\ b.rows <=> row # NoRow
    /\ Available(b) /\ ~Busy(b, row)
    /\ b.phrase = "before" => desk.typed
    /\ \A h \in asked : Key(h) # <<name, row>>
    /\ IF b.dialog
       THEN /\ desk' = [desk EXCEPT !.dialog = name,
                                    !.typed = @ /\ b.phrase # "inside"]
            /\ UNCHANGED asked
       ELSE /\ desk' = [desk EXCEPT !.busy = SetBusy(b, row), !.alarm = FALSE]
            /\ AskServer(name, row)
    /\ UNCHANGED <<views, past>>

TypePhrase ==
    /\ Idle
    /\ \E b \in {Buttons[n] : n \in DOMAIN Buttons} :
          /\ b.page = desk.page /\ b.phrase # "none"
          /\ b.phrase = "inside" => desk.dialog # "none"
          /\ b.phrase = "before" => Loaded(b) /\ desk.admin
    /\ desk' = [desk EXCEPT !.typed = ~@, !.spent = FALSE]
    /\ UNCHANGED <<views, asked, past>>

(* Confirming checks the phrase of a restore, and nothing else again. *)
ConfirmDialog ==
    /\ Idle /\ desk.dialog # "none"
    /\ LET b == Buttons[desk.dialog] IN
       /\ ~Busy(b, NoRow) /\ ~Hidden(b)
       /\ b.phrase = "inside" => desk.typed
       /\ desk' = [desk EXCEPT !.busy = SetBusy(b, NoRow)]
       /\ AskServer(desk.dialog, NoRow)
    /\ UNCHANGED <<views, past>>

CancelDialog ==
    /\ Idle /\ desk.dialog # "none"
    /\ LET b == Buttons[desk.dialog] IN
       /\ ~Busy(b, NoRow)
       /\ desk' = [desk EXCEPT !.dialog = "none", !.typed = @ /\ b.phrase # "inside"]
    /\ UNCHANGED <<views, asked, past>>

(***************************************************************************)
(* The answer to a button's request, and the handler after it.             *)
(***************************************************************************)
Finished(h) ==
    /\ asked' = asked \ {h}
    /\ desk' = [desk EXCEPT !.busy = ClearBusy(Buttons[h.button])]
    /\ UNCHANGED views

Carried(h) ==
    past' = IF Now = MaxPast THEN past
            ELSE IF h.button \in DOMAIN Becomes
                 THEN Append(past, [past[Now] EXCEPT !.status = Becomes[h.button]])
                 ELSE Append(past, past[Now])

(* Mutant: the phrase stays typed. *)
RequestDoneStillTyped(h) ==
    /\ h.step = 0
    /\ Carried(h)
    /\ asked' = (asked \ {h}) \cup {[h EXCEPT !.step = 1, !.made = Len(past')]}
    /\ desk' = [desk EXCEPT !.dialog = IF Buttons[h.button].dialog THEN "none" ELSE @,
                            !.spent = @ \/ h.button = "delete"]
    /\ UNCHANGED views

(* Success closes the dialog, empties what was typed, shows the answer or  *)
(* reloads.                                                                *)
RequestDone(h) ==
    LET b == Buttons[h.button] IN
    /\ h.step = 0
    /\ Carried(h)
    /\ asked' = (asked \ {h}) \cup {[h EXCEPT !.step = 1, !.made = Len(past')]}
    /\ desk' = [desk EXCEPT !.dialog = IF b.dialog THEN "none" ELSE @,
                            !.typed = @ /\ b.phrase = "none",
                            !.spent = @ \/ h.button = "delete"]
    /\ views' = IF h.button \in DOMAIN Answers
                THEN [views EXCEPT ![Answers[h.button]].read = Len(past')] ELSE views

(* The fetches of step i have ended; the next ones start, or the handler does. *)
HandlerContinues(h) ==
    LET b == Buttons[h.button] IN
    IF h.step > Len(b.reload)
    THEN Finished(h) /\ UNCHANGED past
    ELSE /\ views' = StartAll(b.reload[h.step], Key(h))
         /\ asked' = Interrupted(b.reload[h.step], asked \ {h})
                     \cup {[h EXCEPT !.step = @ + 1, !.awaits = b.reload[h.step]]}
         /\ UNCHANGED <<desk, past>>

(* Mutant: only success enables the button again. *)
RequestFailedStillBusy(h, carried) ==
    /\ h.step = 0
    /\ IF carried THEN Carried(h) ELSE UNCHANGED past
    /\ asked' = asked \ {h}
    /\ UNCHANGED <<desk, views>>

(* Refused, not supported, or lost, after being carried out or before. *)
RequestFailed(h, carried) ==
    LET b == Buttons[h.button] IN
    /\ h.step = 0
    /\ IF carried THEN Carried(h) ELSE UNCHANGED past
    /\ asked' = asked \ {h}
    /\ desk' = [desk EXCEPT !.busy = ClearBusy(b),
                            !.alarm = @ \/ (b.inside /\ b.page \in HidesControls \ {"backups"})]
    /\ UNCHANGED views

(* Webhooks, workers and other people. *)
ServerMoves(c) ==
    /\ Idle /\ Now < MaxPast
    /\ past' = Append(past, c)
    /\ UNCHANGED <<desk, views, asked>>

PageNext ==
    \/ \E p \in Pages, c \in PageConditions : \E a \in Roles(p) : OpenPage(p, a, c)
    \/ RefreshPage \/ PollRecentJobs
    \/ \E s \in DOMAIN views : \E f \in views[s].fetches :
          Idle /\ ((\E read \in 1 .. MaxPast : ViewAnswered(s, f, read)) \/ ViewFailed(s, f))
    \/ \E n \in DOMAIN Buttons, row \in Rows \cup {NoRow} : PressButton(n, row)
    \/ TypePhrase \/ ConfirmDialog \/ CancelDialog
    \/ \E h \in Resumable : HandlerContinues(h)
    \/ \E h \in asked : Idle /\ (RequestDone(h) \/ \E c \in BOOLEAN : RequestFailed(h, c))
    \/ \E c \in PageConditions : ServerMoves(c)

PageSpec == PageInit /\ [][PageNext]_pageVars

(* When a handler has reloaded, each section its request changed shows the *)
(* server as the request left it or later, or shows an error, or a fetch   *)
(* that will is under way: useTenantSectionData.                           *)
HandlerShowsItsEffect ==
    [][\A h \in asked :
          h.step > Len(Buttons[h.button].reload) /\ (\A o \in asked' : Key(o) # Key(h)) =>
             \A s \in Changes[h.button] :
                \/ views'[s].read >= h.made
                \/ views'[s].failed
                \/ \E f \in views'[s].fetches : f.since >= h.made]_pageVars

(* A disabled button has a handler that will enable it. *)
BusyHasHandler ==
    \A x \in desk.busy : \E h \in asked : Buttons[h.button].flag = x[1]

(* No deletion is asked for with the phrase of one already acknowledged. *)
DeletionRetyped ==
    desk.spent => \A h \in asked : h.button = "delete" => h.step > 0

=============================================================================
