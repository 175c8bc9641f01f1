----------------------------- MODULE WebConsole -----------------------------
(***************************************************************************)
(* The web console's parts over one browser.  They share no variable: a    *)
(* visit is to one of them, and the behaviours of WebSpec are those of     *)
(* each part, begun from a page that is not open.                          *)
(***************************************************************************)
EXTENDS Onboarding, OnboardingForm, BrowserSession, JobPanel, WorkspaceQueue,
        WorkspaceForm, AuthPages, PageActions

VARIABLE tab  \* the part that is visited

webVars == <<tab, wizardVars, formVars, sessionVars, panelVars, queueVars,
             draftVars, authVars, pageVars>>

VisitedQueues ==
    {Registry, Overview, ActiveWorkspaces, OnboardingPayments, Provisioning, Incidents,
     SuspensionsQueue, BillingRecovery, SupportQueue}

Condition(status, billing, sub) == [status |-> status, billing |-> billing, sub |-> sub]

VisitedConditions ==
    {Condition("pending_payment", "past_due", "past_due"),
     Condition("failed", "active", "active")}

(* One request at a time where the page's reloads are long. *)
AskedAtOnce ==
    [p \in Pages |-> IF p \in {"overview", "members", "domains", "support"} THEN 1 ELSE 2]

WebInit ==
    /\ tab = "new"
    /\ WizardInit /\ FormInit /\ SessionInit /\ PanelInit /\ QueueInit
    /\ DraftInit /\ AuthInit /\ PageInit

Visits(t) == tab \in {"new", t} /\ tab' = t

(***************************************************************************)
(* The wizard is visited twice: with all names and no polling, and with    *)
(* one name and all of it.                                                 *)
(***************************************************************************)
NamesNext ==
    /\ WizardNext
    /\ ~wiz'.hidden /\ \A c \in asks' : c.op \notin {"poll", "look"}

PollsNext ==
    /\ WizardNext
    /\ wiz'.name \in {NoName, "acme"} /\ sites'["globex"] = "free"

WebNext ==
    \/ /\ Visits("names") /\ NamesNext
       /\ UNCHANGED <<formVars, sessionVars, panelVars, queueVars, draftVars,
                      authVars, pageVars>>
    \/ /\ Visits("polls") /\ PollsNext
       /\ UNCHANGED <<formVars, sessionVars, panelVars, queueVars, draftVars,
                      authVars, pageVars>>
    \/ /\ Visits("form") /\ FormNext
       /\ UNCHANGED <<wizardVars, sessionVars, panelVars, queueVars, draftVars,
                      authVars, pageVars>>
    \/ /\ Visits("session") /\ SessionNext
       /\ UNCHANGED <<wizardVars, formVars, panelVars, queueVars, draftVars,
                      authVars, pageVars>>
    \/ /\ Visits("panel") /\ PanelNext
       /\ UNCHANGED <<wizardVars, formVars, sessionVars, queueVars, draftVars,
                      authVars, pageVars>>
    \/ /\ Visits("queue") /\ QueueNext
       /\ UNCHANGED <<wizardVars, formVars, sessionVars, panelVars, draftVars,
                      authVars, pageVars>>
    \/ /\ Visits("draft") /\ DraftNext
       /\ UNCHANGED <<wizardVars, formVars, sessionVars, panelVars, queueVars,
                      authVars, pageVars>>
    \/ /\ Visits("auth") /\ AuthNext
       /\ UNCHANGED <<wizardVars, formVars, sessionVars, panelVars, queueVars,
                      draftVars, pageVars>>
    \/ /\ Visits("pages") /\ PageNext
       /\ UNCHANGED <<wizardVars, formVars, sessionVars, panelVars, queueVars,
                      draftVars, authVars>>

WebSpec ==
    /\ WebInit /\ [][WebNext]_webVars
    /\ WizardFairness /\ SessionFairness /\ PanelFairness

=============================================================================
