--------------------------- MODULE WorkspaceQueue ---------------------------
(***************************************************************************)
(* The workspace queues of the dashboard: one page component that nine     *)
(* routes configure with a filter, its pages of rows cached by the query   *)
(* client under (filter, page), and the row actions that refetch them.     *)
(*                                                                         *)
(* One workspace is followed; another one of the list may stand before it. *)
(* A page holds one row, so that two make two pages.                       *)
(***************************************************************************)
EXTENDS Naturals, TenantState

CONSTANTS
    QueuePages,     \* the queues opened
    QueueStatuses   \* the statuses the followed workspace goes through

VARIABLES
    queue,    \* the page component's state
    rowCache, \* the query client's data of the queue's pages 1 and 2
    fetches,  \* the pages being fetched
    listed    \* the server's list: the workspace, and whether one is before it

queueVars == <<queue, rowCache, fetches, listed>>

BillingStatuses == {"paid", "failed", "past_due", "unpaid", "cancelled"}

-----------------------------------------------------------------------------
(* The nine queues: statuses and billing statuses, all of them if empty.   *)
Queue(name, statuses, billing, mode) ==
    [name |-> name, statuses |-> statuses, billing |-> billing, mode |-> mode]

Registry == Queue("registry", {}, {}, "and")
Overview == Queue("overview", {}, {}, "and")
ActiveWorkspaces == Queue("active", {"active"}, {}, "and")
OnboardingPayments == Queue("onboarding", {"pending_payment"}, {}, "and")
Provisioning ==
    Queue("provisioning", {"pending", "provisioning", "upgrading", "restoring"}, {}, "and")
Incidents == Queue("incidents", {"failed"}, {}, "and")
SuspensionsQueue == Queue("suspensions", Suspensions, {}, "and")
BillingRecovery ==
    Queue("billing", {"pending_payment", "suspended_billing"},
          {"failed", "past_due", "unpaid", "cancelled"}, "or")
SupportQueue ==
    Queue("support", {"failed"} \cup Suspensions, {"failed", "past_due", "unpaid"}, "or")

(* The filter of a queue, asked of the server or applied to all its rows.  *)
Lists(q, w) ==
    LET status == w.status \in q.statuses
        billing == w.billing \in q.billing
    IN  IF q.mode = "or" /\ q.statuses # {} /\ q.billing # {}
        THEN status \/ billing
        ELSE /\ q.statuses # {} => status
             /\ q.billing # {} => billing

-----------------------------------------------------------------------------
(* A page of rows as the server answers it now. *)
Followed(q) == Lists(q, listed.site)
Total(q) == (IF listed.before THEN 1 ELSE 0) + (IF Followed(q) THEN 1 ELSE 0)

Served(q, p) ==
    [total |-> Total(q),
     row |-> IF p > Total(q) THEN "none"
             ELSE IF p = 1 /\ listed.before THEN "other" ELSE "site",
     status |-> IF p = Total(q) /\ Followed(q) THEN listed.site.status ELSE "none"]

NoRows == [total |-> 0, row |-> "loading", status |-> "none"]
NoCache == [p \in {1, 2} |-> NoRows]
NoQueue == Queue("none", {}, {}, "and")

NewQueue(q) ==
    [q |-> q, page |-> 1, retry |-> "never", resume |-> "never", job |-> FALSE]

(* Data that is not there counts as one page. *)
TotalPages(rows) == IF rows.total = 0 THEN 1 ELSE rows.total

(* Mutant: the page stays when the rows shrink. *)
UnsettledPage(p, cache) == p

(* The effects that follow a commit: back into the range there is. *)
SettledPage(p, cache) == IF p > TotalPages(cache[p]) THEN TotalPages(cache[p]) ELSE p

(* New rows drop the jobs of those that are not among them. *)
KeptJob(job, rows) ==
    job /\ (rows.row \in {"loading", "site"} \/ rows = rowCache[queue.page])

(* The component renders s, over the cache and the fetches there are now;  *)
(* a page without data is fetched when it is turned to.                    *)
Render(s, cache, asked) ==
    LET p == SettledPage(s.page, cache)
    IN  /\ rowCache' = cache
        /\ queue' = [s EXCEPT !.page = p, !.job = KeptJob(@, cache[p])]
        /\ fetches' = asked \cup {n \in {s.page, p} : cache[n] = NoRows}

QueueInit ==
    /\ queue = NewQueue(NoQueue)
    /\ rowCache = NoCache
    /\ fetches = {}
    /\ listed = [site |-> [status |-> "pending_payment", billing |-> "unpaid"],
                 before |-> FALSE]

QueueOpen == queue.q # NoQueue
Shown == rowCache[queue.page]

(* The cache forgets a queue's rows after five minutes without it. *)
OpenQueue(q) ==
    /\ Render(NewQueue(q), NoCache, {})
    /\ UNCHANGED listed

(* Another search, plan or status: other rows under another key, from page *)
(* one.  Bound: the key is new, and the old one is forgotten.              *)
ChangeFilter ==
    /\ QueueOpen
    /\ Render([queue EXCEPT !.page = 1], NoCache, {})
    /\ UNCHANGED listed

TurnPage(p) ==
    /\ QueueOpen
    /\ p # queue.page
    /\ p \in 1 .. TotalPages(Shown)
    /\ Render([queue EXCEPT !.page = p], rowCache, fetches)
    /\ UNCHANGED listed

(* The refresh button, a window that gets the focus, and every action that *)
(* succeeded.                                                              *)
RefetchQueue ==
    /\ QueueOpen
    /\ fetches' = fetches \cup {queue.page}
    /\ UNCHANGED <<queue, rowCache, listed>>

(* A page turned away from is still fetched, and kept. *)
FetchAnswered(p) ==
    /\ p \in fetches
    /\ Render(queue, [rowCache EXCEPT ![p] = Served(queue.q, p)], fetches \ {p})
    /\ UNCHANGED listed

(* Twice in a row: the error is shown with the data there was. *)
FetchFailed(p) ==
    /\ p \in fetches
    /\ fetches' = fetches \ {p}
    /\ UNCHANGED <<queue, rowCache, listed>>

-----------------------------------------------------------------------------
(***************************************************************************)
(* The buttons of a row.  A mutation keeps the tenant it was last used     *)
(* for, so a button once pressed stays disabled.                           *)
(***************************************************************************)
RetryOffered == Shown.row = "site" /\ Shown.status = "failed" /\ queue.retry = "never"
ResumeOffered ==
    /\ Shown.row = "site" /\ Shown.status \in {"pending", "pending_payment"}
    /\ queue.resume = "never"

RetryRow ==
    /\ QueueOpen /\ RetryOffered
    /\ queue' = [queue EXCEPT !.retry = "asked"]
    /\ UNCHANGED <<rowCache, fetches, listed>>

ResumeRow ==
    /\ QueueOpen /\ ResumeOffered
    /\ queue' = [queue EXCEPT !.resume = "asked"]
    /\ UNCHANGED <<rowCache, fetches, listed>>

(* The row shows the job of the retry, and the rows are fetched again. *)
RetryRowAnswered ==
    /\ queue.retry = "asked"
    /\ \/ /\ listed.site.status = "failed"
          /\ listed' = [listed EXCEPT !.site.status = "pending"]
          /\ queue' = [queue EXCEPT !.retry = "done", !.job = TRUE]
          /\ fetches' = fetches \cup {queue.page}
       \/ /\ queue' = [queue EXCEPT !.retry = "done"]
          /\ UNCHANGED <<fetches, listed>>
    /\ UNCHANGED rowCache

(* A checkout address is opened in a new window; none is an error. *)
ResumeRowAnswered ==
    /\ queue.resume = "asked"
    /\ queue' = [queue EXCEPT !.resume = "done"]
    /\ fetches' \in {fetches, fetches \cup {queue.page}}
    /\ UNCHANGED <<rowCache, listed>>

(* The control plane, and the other workspaces of the user. *)
ListedMoves(s) ==
    /\ s \in AllowedTransitions[listed.site.status] \cap QueueStatuses
    /\ listed' = [listed EXCEPT !.site.status = s]
    /\ UNCHANGED <<queue, rowCache, fetches>>

ListGrows ==
    /\ listed' = [listed EXCEPT !.before = ~@]
    /\ UNCHANGED <<queue, rowCache, fetches>>

QueueNext ==
    \/ \E q \in QueuePages : OpenQueue(q)
    \/ ChangeFilter \/ RefetchQueue
    \/ \E p \in {1, 2} : TurnPage(p) \/ FetchAnswered(p) \/ FetchFailed(p)
    \/ RetryRow \/ ResumeRow \/ RetryRowAnswered \/ ResumeRowAnswered
    \/ \E s \in QueueStatuses : ListedMoves(s)
    \/ ListGrows

QueueSpec == QueueInit /\ [][QueueNext]_queueVars

(***************************************************************************)
(* The page shown is one there is: rows that disappear behind the back of  *)
(* the page, or a page turned to before its rows came, do not leave it     *)
(* past the last one.                                                      *)
(***************************************************************************)
PageInRange == QueueOpen => queue.page <= TotalPages(Shown)
=============================================================================
