--------------------------- MODULE OnboardingForm ---------------------------
(***************************************************************************)
(* The fields of the onboarding wizard that only the submit reads: company *)
(* name, plan and chosen app with the plan catalog they are picked from,   *)
(* and the email verification that blocks the submit.  Whether the         *)
(* subdomain may be submitted is in Onboarding.                            *)
(***************************************************************************)
EXTENDS Naturals, Sequences

VARIABLES
    form,     \* the page's state
    catalog,  \* the add-ons of the business plan, << >> until they are loaded
    sent      \* the tenant requests made, at most one

formVars == <<form, catalog, sent>>

Plans == {"starter", "business", "enterprise"}

(* BUSINESS_APP_OPTIONS, and the catalog shown when none can be loaded.    *)
FallbackApps == <<"erpnext", "crm", "hrms">>
FallbackCatalog == <<"crm", "hrms">>

NewForm == [mounted |-> FALSE, company |-> FALSE, plan |-> "starter",
            app |-> "erpnext", user |-> "unknown", resending |-> FALSE]

IsIn(a, apps) == \E i \in 1 .. Len(apps) : apps[i] = a

(* mapSelectableEntitlementsToBusinessApps: the catalog, or the fallback. *)
BusinessApps(addOns) == IF addOns = << >> THEN FallbackApps ELSE addOns

(* Mutant: the effect that returns to an app of the catalog is missing. *)
ChosenAppAsStored(f, addOns) == IF f.plan = "business" THEN f.app ELSE "erpnext"

(* What the two effects on the plan leave as chosen app. *)
ChosenApp(f, addOns) ==
    LET apps == BusinessApps(addOns)
    IN  IF f.plan # "business" THEN "erpnext"
        ELSE IF IsIn(f.app, apps) THEN f.app ELSE apps[1]

(* The app PlanSelector highlights. *)
HighlightedApp(f, addOns) ==
    LET apps == BusinessApps(addOns)
    IN  IF IsIn(f.app, apps) THEN f.app ELSE apps[1]

FormCommit(f) == form' = [f EXCEPT !.app = ChosenApp(f, catalog')]

FormInit ==
    /\ form = NewForm
    /\ catalog = << >>
    /\ sent = << >>

(* A mount starts with the form that was stored, whatever app it names. *)
MountForm ==
    /\ ~form.mounted
    /\ UNCHANGED <<catalog, sent>>
    /\ \E p \in Plans, a \in {"erpnext", "crm", "hrms", "lms"} :
          FormCommit([NewForm EXCEPT !.mounted = TRUE, !.plan = p, !.app = a])

TypeCompany ==
    /\ form.mounted
    /\ UNCHANGED <<catalog, sent>>
    /\ FormCommit([form EXCEPT !.company = ~@])

PickPlan(p) ==
    /\ form.mounted
    /\ UNCHANGED <<catalog, sent>>
    /\ FormCommit([form EXCEPT !.plan = p])

PickApp(a) ==
    /\ form.mounted /\ form.plan = "business"
    /\ IsIn(a, BusinessApps(catalog))
    /\ UNCHANGED <<catalog, sent>>
    /\ FormCommit([form EXCEPT !.app = a])

(***************************************************************************)
(* loadPublicPlanCatalog never fails: without an answer, or with an empty  *)
(* one, the fallback catalog is shown.                                     *)
(***************************************************************************)
CatalogLoaded ==
    /\ form.mounted /\ catalog = << >>
    /\ catalog' \in {FallbackCatalog, <<"crm">>, <<"hrms", "lms">>}
    /\ FormCommit(form)
    /\ UNCHANGED sent

(* The profile is loaded once; a failure leaves the user unknown. *)
ProfileLoaded ==
    /\ form.mounted /\ form.user = "unknown"
    /\ UNCHANGED <<catalog, sent>>
    /\ \E u \in {"verified", "unverified"} : FormCommit([form EXCEPT !.user = u])

(* The notice that asks to verify the email, and its button. *)
ResendVerification ==
    /\ form.user = "unverified" /\ ~form.resending
    /\ UNCHANGED <<catalog, sent>>
    /\ FormCommit([form EXCEPT !.resending = TRUE])

VerificationResent ==
    /\ form.resending
    /\ UNCHANGED <<catalog, sent>>
    /\ FormCommit([form EXCEPT !.resending = FALSE])

(* The chosen app is only sent with the business plan. *)
SubmitForm ==
    /\ form.mounted /\ form.company /\ form.user # "unverified"
    /\ sent' = <<[plan |-> form.plan,
                  app |-> IF form.plan = "business" THEN form.app ELSE "none"]>>
    /\ UNCHANGED <<form, catalog>>

FormNext ==
    \/ MountForm \/ TypeCompany \/ CatalogLoaded \/ ProfileLoaded
    \/ \E p \in Plans : PickPlan(p)
    \/ \E a \in {"erpnext", "crm", "hrms", "lms"} : PickApp(a)
    \/ ResendVerification \/ VerificationResent \/ SubmitForm

FormSpec == FormInit /\ [][FormNext]_formVars

(***************************************************************************)
(* What is submitted is what the plan page shows as picked, whatever was   *)
(* stored and whenever the catalog arrives.                                *)
(***************************************************************************)
SubmitsWhatIsShown ==
    [][sent' # sent /\ form.plan = "business" =>
          sent'[1].app = HighlightedApp(form, catalog)]_formVars
=============================================================================
