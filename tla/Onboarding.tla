----------------------------- MODULE Onboarding -----------------------------
(***************************************************************************)
(* The onboarding wizard of the console (app/(onboarding)/onboarding): the *)
(* page's React state, the requests it has in flight, what it keeps in     *)
(* localStorage, and the tenants its requests create.                      *)
(*                                                                         *)
(* One action is one handler or one answer together with the commit it     *)
(* causes: the effects whose dependencies the commit changed run in it     *)
(* (Settle).  A reload is a fresh mount over what was stored.              *)
(* The form's other fields are in OnboardingForm, the log panel of the     *)
(* provisioning job in JobPanel.                                           *)
(***************************************************************************)
EXTENDS Naturals, FiniteSets, TenantState

CONSTANTS
    Names,         \* the subdomains typed
    Short,         \* those of fewer than three characters
    SiteStatuses,  \* the tenant statuses explored
    MaxPolls       \* status polls that fit in the thirty minutes

ASSUME WizardAssumption ==
    /\ IsFiniteSet(Names) /\ "" \notin Names /\ Short \subseteq Names
    /\ SiteStatuses \subseteq TenantStatuses
    /\ {"pending_payment", "pending"} \subseteq SiteStatuses
    /\ MaxPolls \in Nat \ {0}

VARIABLES
    wiz,    \* the page's state
    asks,   \* its requests in flight
    saved,  \* localStorage, under erp-saas:onboarding-state:v1
    sites   \* each name: free, somebody else's, or this user's tenant

wizardVars == <<wiz, asks, saved, sites>>

NoName == ""
Steps == {"details", "plan", "payment", "waiting", "success"}

NoAnswer == [name |-> NoName, free |-> FALSE]
Nothing == [step |-> "none"]

(* The state of a page that has not run an effect; closed has no page. *)
Fresh ==
    [step |-> "details", name |-> NoName, tenant |-> NoName, status |-> "none",
     url |-> FALSE, avail |-> NoAnswer, checking |-> FALSE, restored |-> FALSE,
     polling |-> FALSE, timer |-> FALSE, polls |-> 0, hidden |-> FALSE,
     ready |-> "unknown"]

Closed == [Fresh EXCEPT !.step = "closed"]

(***************************************************************************)
(* Rules of onboardingFlow.                                                *)
(***************************************************************************)
WaitingStatuses ==
    {"pending", "provisioning", "failed", "upgrading", "restoring", "deleting",
     "pending_deletion", "deleted"} \cup Suspensions

TerminalStatuses ==
    {"active", "failed", "deleted", "pending_deletion"} \cup Suspensions

DeriveStep(status, url) ==
    CASE status = "active" -> "success"
      [] status = "pending_payment" -> IF url THEN "payment" ELSE "waiting"
      [] status \in WaitingStatuses -> "waiting"
      [] OTHER -> "details"

(* The wizard goes on to payment or waiting even for an unknown status. *)
StepAfterSubmit(status, url) ==
    LET step == DeriveStep(status, url)
    IN  IF step # "details" THEN step
        ELSE IF url THEN "payment" ELSE "waiting"

CanUseSubdomain(w) == w.name \in Names \ Short /\ w.avail.free

Snapshot(w) ==
    [step |-> w.step, name |-> w.name, tenant |-> w.tenant, url |-> w.url]

-----------------------------------------------------------------------------
(***************************************************************************)
(* The commit of page state w with the requests cs in flight, and the      *)
(* effects it triggers.  An effect is cleaned up and run again when one of *)
(* its dependencies changed; a cleaned up effect ignores its answer, so    *)
(* its request is dropped here.                                            *)
(***************************************************************************)
Ask(op, name) == [op |-> op, name |-> name]

CheckDeps(w) == <<w.name, w.restored, w.step, w.tenant>>
StepDeps(w) == <<w.step, w.tenant>>

Checks(w) == w.restored /\ w.tenant = NoName /\ w.step \in {"details", "plan"}
Polls(w) == w.step = "waiting" /\ w.tenant # NoName
Asks(w) == w.step = "success" /\ w.tenant # NoName

(* The subdomain, the polling and the readiness effect. *)
Effects(old, w) ==
    LET recheck == CheckDeps(old) # CheckDeps(w)
        restep == StepDeps(old) # StepDeps(w)
    IN  [w EXCEPT
           !.checking = IF recheck THEN Checks(w) /\ w.name # NoName ELSE @,
           !.avail = IF recheck /\ Checks(w) /\ w.name = NoName
                     THEN NoAnswer ELSE @,
           !.polling = IF restep THEN Polls(w) ELSE @,
           !.timer = IF restep THEN Polls(w) /\ ~w.hidden ELSE @,
           !.polls = IF restep /\ Polls(w) THEN 0 ELSE @,
           !.ready = IF restep /\ Asks(w) THEN "checking" ELSE @]

(* Mutant: a check is not cleaned up with its name. *)
KeptChecks(old, v, c) ==
    c.op # "check" =>
        /\ c.op \in {"poll", "look"} => v.polling
        /\ c.op \in {"poll", "look", "ready"} => StepDeps(old) = StepDeps(v)

Kept(old, v, c) ==
    CASE c.op = "check" -> CheckDeps(old) = CheckDeps(v)
      [] c.op \in {"poll", "look"} -> v.polling /\ StepDeps(old) = StepDeps(v)
      [] c.op = "ready" -> StepDeps(old) = StepDeps(v)
      [] OTHER -> TRUE

Starts(old, v) ==
    {c \in {Ask("check", v.name), Ask("ready", v.tenant)} :
        \/ c.op = "check" /\ v.checking /\ CheckDeps(old) # CheckDeps(v)
        \/ c.op = "ready" /\ Asks(v) /\ StepDeps(old) # StepDeps(v)}

(* Mutant: what is on screen is stored before the restore is answered. *)
StoredAtOnce(now, v) == IF v.step = "success" THEN Nothing ELSE Snapshot(v)

(* The persistence effect waits for the restore. *)
Stored(now, v) ==
    IF ~v.restored THEN now
    ELSE IF v.step = "success" THEN Nothing ELSE Snapshot(v)

Settle(old, w, cs) ==
    \E x \in {w} : \E v \in {Effects(old, x)} :
        /\ wiz' = v
        /\ asks' = {c \in cs : Kept(old, v, c)} \cup Starts(old, v)
        /\ saved' = Stored(saved, v)

Commit(w) == Settle(wiz, w, asks)
Answered(c, w) == Settle(wiz, w, asks \ {c})

Open == wiz.step # "closed"

(* A tenant the page has lost sight of is only a name that is not free. *)
Unseen(n) == [sites EXCEPT ![n] = "other"]

(* A create request may be carried out without the page hearing of it. *)
Landed(c) ==
    {sites} \cup {Unseen(n) : n \in {m \in {c.name} : sites[m] = "free"}}

(* Without the page, only the stored tenant can be seen again. *)
Unloaded ==
    LET stored == IF saved = Nothing THEN NoName ELSE saved.tenant
        lost == {n \in Names \ {stored} : sites[n] \in SiteStatuses}
        asked == {c.name : c \in {d \in asks : d.op = "submit"}}
    IN  {[n \in Names |-> IF n \in lost \cup done THEN "other" ELSE sites[n]] :
            done \in SUBSET asked}

(* Leaving the page drops its state; its requests are answered unheard. *)
Leave ==
    /\ sites' \in Unloaded
    /\ wiz' = Closed
    /\ asks' = {}
    /\ UNCHANGED saved

WizardInit ==
    /\ wiz = Closed
    /\ asks = {}
    /\ saved = Nothing
    /\ sites = [n \in Names |-> "free"]

(***************************************************************************)
(* The page is opened or reloaded: what was stored is parsed, and a stored *)
(* tenant is asked for before anything is stored again.                    *)
(***************************************************************************)
Parsed ==
    IF saved = Nothing THEN [Fresh EXCEPT !.restored = TRUE]
    ELSE [Fresh EXCEPT !.step = saved.step, !.name = saved.name,
                       !.url = saved.url, !.restored = saved.tenant = NoName]

Mount ==
    /\ sites' \in Unloaded
    /\ Settle(Fresh, Parsed,
              {Ask("restore", n) : n \in IF Parsed.restored THEN {}
                                         ELSE {saved.tenant}})

LeaveWizard == Open /\ Leave

-----------------------------------------------------------------------------
(***************************************************************************)
(* What each step of the page lets the user press.                         *)
(***************************************************************************)
DetailsPanel(w) ==
    {b \in {"name", "continue"} : b = "continue" => CanUseSubdomain(w) /\ ~w.checking}

PlanPanel(w) ==
    {b \in {"back", "submit"} : b = "submit" => CanUseSubdomain(w) /\ ~w.checking}

PaymentPanel(w) == {b \in {"checkout", "renew", "paid"} : b = "checkout" => w.url}

WaitingPanel(w) ==
    {b \in {"checkout", "retry"} :
        /\ b = "checkout" => w.url
        /\ b = "retry" => w.status = "failed"}

Offered(button) ==
    CASE wiz.step = "details" -> button \in DetailsPanel(wiz)
      [] wiz.step = "plan" -> button \in PlanPanel(wiz)
      [] wiz.step = "payment" -> button \in PaymentPanel(wiz)
      [] wiz.step = "waiting" -> button \in WaitingPanel(wiz)
      [] OTHER -> FALSE

(* Bound: one of them in flight at a time; each has a busy flag its button *)
(* is disabled by.                                                         *)
Request(op, name) ==
    /\ \A c \in asks : c.op \notin {"submit", "renew", "retry"}
    /\ asks' = asks \cup {Ask(op, name)}
    /\ UNCHANGED <<wiz, saved, sites>>

TypeName(n) ==
    /\ Offered("name")
    /\ n # wiz.name
    /\ Commit([wiz EXCEPT !.name = n])
    /\ UNCHANGED sites

Continue ==
    /\ Offered("continue")
    /\ Commit([wiz EXCEPT !.step = "plan"])
    /\ UNCHANGED sites

Back ==
    /\ Offered("back")
    /\ Commit([wiz EXCEPT !.step = "details"])
    /\ UNCHANGED sites

Submit ==
    /\ Offered("submit")
    /\ Request("submit", wiz.name)

(* Opening the checkout, again or for the first time, and "I already paid". *)
LaunchCheckout ==
    /\ Offered("checkout")
    /\ Commit([wiz EXCEPT !.step = "waiting"])
    /\ UNCHANGED sites

ClaimPaid ==
    /\ Offered("paid")
    /\ Commit([wiz EXCEPT !.step = "waiting"])
    /\ UNCHANGED sites

RenewCheckout ==
    /\ Offered("renew") /\ wiz.tenant # NoName
    /\ Request("renew", wiz.tenant)

RetryProvisioning ==
    /\ Offered("retry") /\ wiz.tenant # NoName
    /\ Request("retry", wiz.tenant)

-----------------------------------------------------------------------------
(***************************************************************************)
(* The answers.  A request fails whenever the network or the API says so.  *)
(***************************************************************************)
Found(n) == n \in Names /\ sites[n] \in SiteStatuses

(* validateSubdomain never throws: an error says the name is not free. *)
AnswerCheck(c) ==
    /\ c.op = "check"
    /\ \E free \in {FALSE, c.name \notin Short /\ sites[c.name] = "free"} :
          Answered(c, [wiz EXCEPT !.avail = [name |-> c.name, free |-> free],
                                  !.checking = FALSE])
    /\ UNCHANGED sites

(* Mutant: the tenant is forgotten, the step is not. *)
RestartWhereItWas(w) == [w EXCEPT !.tenant = NoName, !.status = "none"]

(* Any failure to restore starts the wizard afresh. *)
Restart(w) ==
    [w EXCEPT !.tenant = NoName, !.status = "none", !.step = "details"]

AnswerRestore(c) ==
    /\ c.op = "restore"
    /\ \/ /\ Found(c.name)
          /\ Answered(c, [wiz EXCEPT !.tenant = c.name, !.status = sites[c.name],
                                     !.step = DeriveStep(sites[c.name], wiz.url),
                                     !.restored = TRUE])
          /\ UNCHANGED sites
       \/ /\ Answered(c, [Restart(wiz) EXCEPT !.restored = TRUE])
          /\ sites' = Unseen(c.name)

(* A paid plan starts with a checkout, a trial with a provisioning job. *)
AnswerSubmit(c) ==
    /\ c.op = "submit"
    /\ \/ \E status \in {"pending_payment", "pending"}, url \in BOOLEAN :
             /\ sites[c.name] = "free"
             /\ status = "pending" => ~url
             /\ sites' = [sites EXCEPT ![c.name] = status]
             /\ Answered(c, [wiz EXCEPT !.tenant = c.name, !.status = status,
                                        !.url = url,
                                        !.step = StepAfterSubmit(status, url)])
       \/ /\ sites' \in Landed(c)
          /\ Answered(c, wiz)

AnswerRenew(c) ==
    /\ c.op = "renew"
    /\ \/ \E url \in BOOLEAN :
             /\ Found(c.name)
             /\ Answered(c, [wiz EXCEPT !.tenant = c.name, !.url = url,
                                        !.status = sites[c.name]])
       \/ Answered(c, wiz)
    /\ UNCHANGED sites

(* The retry shows the new job and leaves the tenant as the page had it. *)
AnswerRetry(c) ==
    /\ c.op = "retry"
    /\ \/ /\ Found(c.name) /\ sites[c.name] = "failed"
          /\ sites' = [sites EXCEPT ![c.name] = "pending"]
          /\ Answered(c, [wiz EXCEPT !.step = "waiting",
                                     !.polls = IF wiz.polling THEN @ ELSE 0])
       \/ /\ Answered(c, wiz)
          /\ UNCHANGED sites

AnswerReady(c) ==
    /\ c.op = "ready"
    /\ \E r \in {"ready", "notReady"} : Answered(c, [wiz EXCEPT !.ready = r])
    /\ UNCHANGED sites

-----------------------------------------------------------------------------
(***************************************************************************)
(* The polling loop.  Showing the tab again polls at once and schedules a  *)
(* timer of its own: two may be pending, and hiding clears the last one.   *)
(* timer says that one is.  Bound: one timed poll in flight at a time.     *)
(***************************************************************************)
Schedule(w) ==
    [w EXCEPT !.timer = @ \/ (w.polling /\ ~w.hidden)]

Learned(w, status) ==
    [w EXCEPT !.status = status,
              !.step = IF status = "active" THEN "success" ELSE @,
              !.polling = @ /\ status \notin TerminalStatuses,
              !.timer = @ /\ status \notin TerminalStatuses]

(* Mutant: nothing counts the polls against their limit. *)
NextPollForever(w) ==
    IF w.polling THEN Schedule([w EXCEPT !.polls = @ + 1]) ELSE w

(* After thirty minutes of polls the loop stops with a notice. *)
NextPoll(w) ==
    IF ~w.polling THEN w
    ELSE IF w.polls + 1 >= MaxPolls
         THEN [w EXCEPT !.polls = MaxPolls, !.polling = FALSE, !.timer = FALSE]
         ELSE Schedule([w EXCEPT !.polls = @ + 1])

FireTimer ==
    /\ wiz.timer
    /\ Ask("poll", wiz.tenant) \notin asks
    /\ wiz' = [wiz EXCEPT !.timer = FALSE]
    /\ asks' = asks \cup {Ask("poll", wiz.tenant)}
    /\ UNCHANGED <<saved, sites>>

AnswerPoll(c) ==
    /\ c.op = "poll"
    /\ \/ /\ Found(c.name)
          /\ Answered(c, NextPoll(Learned(wiz, sites[c.name])))
       \/ /\ ~Found(c.name)
          /\ Answered(c, [Restart(wiz) EXCEPT !.polling = FALSE, !.timer = FALSE])
       \/ Answered(c, NextPoll(wiz))
    /\ UNCHANGED sites

(* A poll that is not authenticated goes to the login page. *)
PollUnauthenticated(c) == c.op = "poll" /\ Leave

Hide ==
    /\ wiz.step = "waiting" /\ ~wiz.hidden
    /\ \E left \in {FALSE, wiz.timer} :
          wiz' = [wiz EXCEPT !.hidden = TRUE, !.timer = left]
    /\ UNCHANGED <<asks, saved, sites>>

Show ==
    /\ Open /\ wiz.hidden
    /\ wiz' = [wiz EXCEPT !.hidden = FALSE]
    /\ asks' = asks \cup {Ask("look", n) : n \in IF wiz.polling THEN {wiz.tenant}
                                                  ELSE {}}
    /\ UNCHANGED <<saved, sites>>

(* Mutant: an immediate poll that fails schedules nothing. *)
AnswerLookOnce(c) ==
    /\ c.op = "look"
    /\ \/ Found(c.name) /\ Answered(c, Schedule(Learned(wiz, sites[c.name])))
       \/ Answered(c, wiz)
    /\ UNCHANGED sites

AnswerLook(c) ==
    /\ c.op = "look"
    /\ \/ Found(c.name) /\ Answered(c, Schedule(Learned(wiz, sites[c.name])))
       \/ Answered(c, Schedule(wiz))
    /\ UNCHANGED sites

-----------------------------------------------------------------------------
(***************************************************************************)
(* The control plane: tenants move, names are taken, tenants are lost to   *)
(* the user.  A short name is nobody's.                                    *)
(***************************************************************************)
SiteMoves(n, s) ==
    /\ sites[n] \in SiteStatuses
    /\ s \in AllowedTransitions[sites[n]]
    /\ sites' = [sites EXCEPT ![n] = s]
    /\ UNCHANGED <<wiz, asks, saved>>

SiteTaken(n) ==
    /\ n \notin Short /\ sites[n] # "other"
    /\ sites' = Unseen(n)
    /\ UNCHANGED <<wiz, asks, saved>>

Answer(c) ==
    \/ AnswerCheck(c) \/ AnswerRestore(c) \/ AnswerSubmit(c) \/ AnswerRenew(c)
    \/ AnswerRetry(c) \/ AnswerReady(c) \/ AnswerPoll(c) \/ AnswerLook(c)
    \/ PollUnauthenticated(c)

WizardNext ==
    \/ Mount \/ LeaveWizard
    \/ \E n \in Names \cup {NoName} : TypeName(n)
    \/ Continue \/ Back \/ Submit
    \/ LaunchCheckout \/ ClaimPaid \/ RenewCheckout \/ RetryProvisioning
    \/ FireTimer \/ Hide \/ Show
    \/ \E c \in asks : Answer(c)
    \/ \E n \in Names, s \in SiteStatuses : SiteMoves(n, s)
    \/ \E n \in Names : SiteTaken(n)

(* A pending timer fires, and requests do not stay unanswered. *)
WizardFairness ==
    /\ WF_wizardVars(FireTimer)
    /\ WF_wizardVars(\E c \in asks : Answer(c))

WizardSpec == WizardInit /\ [][WizardNext]_wizardVars /\ WizardFairness

-----------------------------------------------------------------------------
WizardTypeOK ==
    /\ wiz.step \in Steps \cup {"closed"} /\ wiz.name \in Names \cup {NoName}
    /\ wiz.tenant \in Names \cup {NoName}
    /\ wiz.status \in SiteStatuses \cup {"none"}
    /\ wiz.timer \in BOOLEAN /\ wiz.polls \in 0 .. MaxPolls
    /\ sites \in [Names -> SiteStatuses \cup {"free", "other"}]

(***************************************************************************)
(* A create request carries the name whose check said it is free: no late  *)
(* answer, change of mind or failed submit vouches for another name.       *)
(***************************************************************************)
SubmitsWhatWasChecked ==
    [][\A c \in asks' \ asks :
          c.op = "submit" =>
              wiz.avail = [name |-> c.name, free |-> TRUE]]_wizardVars

(***************************************************************************)
(* Past the plan page, on screen and in storage, the wizard has a tenant:  *)
(* no failure leaves it waiting for nothing.                               *)
(***************************************************************************)
LateSteps == {"payment", "waiting", "success"}

StepHasTenant ==
    /\ wiz.restored /\ wiz.step \in LateSteps => wiz.tenant # NoName
    /\ saved # Nothing /\ saved.step \in LateSteps => saved.tenant # NoName

(***************************************************************************)
(* The stored tenant is only forgotten when the workspace is live or when  *)
(* a request for that tenant failed.                                       *)
(***************************************************************************)
SavedTenantKept ==
    [][saved # Nothing /\ saved.tenant # NoName
          /\ (saved' = Nothing \/ saved'.tenant # saved.tenant)
       => \/ wiz'.step = "success"
          \/ \E c \in asks \ asks' : /\ c.op \in {"restore", "poll"}
                                     /\ c.name = saved.tenant]_wizardVars

(***************************************************************************)
(* A live workspace reaches the waiting page, unless the page is hidden or *)
(* left, shows another final status, or has given up.                      *)
(***************************************************************************)
LiveReachesWizard ==
    (/\ wiz.step = "waiting" /\ wiz.tenant \in Names
     /\ wiz.polling /\ sites[wiz.tenant] = "active")
    ~> (\/ wiz.step # "waiting" \/ ~wiz.restored \/ wiz.hidden
        \/ wiz.status \in TerminalStatuses \/ wiz.polls = MaxPolls)
=============================================================================
