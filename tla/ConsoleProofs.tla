--------------------------- MODULE ConsoleProofs ---------------------------
(***************************************************************************)
(* Proofs about the forms, queues and pages of the web console, and that   *)
(* what holds of each part holds of the console that composes them.        *)
(***************************************************************************)
EXTENDS WebConsole, SequenceTheorems, TLAPS

-----------------------------------------------------------------------------
(* The onboarding form: whatever plan and app it holds, the app of a       *)
(* business plan is one of the catalog that is shown.                      *)
Apps == {"erpnext", "crm", "hrms", "lms"}

FormStates ==
    [mounted : BOOLEAN, company : BOOLEAN, plan : Plans, app : Apps,
     user : {"unknown", "verified", "unverified"}, resending : BOOLEAN]

Catalogs == {<< >>, FallbackCatalog, <<"crm">>, <<"hrms", "lms">>}

FormInv ==
    /\ form \in FormStates
    /\ catalog \in Catalogs
    /\ form.plan = "business" => form.app = HighlightedApp(form, catalog)

-----------------------------------------------------------------------------
(* The create form: while a request may still build, nothing is built.     *)
PostPhases == {"none", "sent", "built", "extraField", "refused", "lost"}

DraftInv ==
    /\ post \in [pc : PostPhases, app : BOOLEAN]
    /\ built \in {0, 1}
    /\ post.pc \in {"sent", "extraField"} => built = 0

-----------------------------------------------------------------------------
(* The public pages: a page is busy as long as a request of it is heard,   *)
(* two of one page ask for the same thing, and what they ask is what the   *)
(* page is for, or the sign-in that follows a sign-up.                     *)
AuthSteps == {"login", "signup", "forgot", "reset", "verify", "impersonate"}
Passwords == {"none", "old", "new"}
AuthCalls == [step : AuthSteps, password : Passwords]

PaneStates ==
    [form : AuthForms \cup Links \cup {"none"}, busy : BOOLEAN, notice : BOOLEAN,
     error : BOOLEAN, signedIn : BOOLEAN]

Accounts ==
    [exists : BOOLEAN, password : Passwords, verified : BOOLEAN,
     tokens : SUBSET {"verify", "reset"}]

AsksForItsPage(c, p) == c.step = Asking(p) \/ (p.form = "signup" /\ c.step = "login")

AuthInv ==
    /\ pane \in PaneStates
    /\ calls \subseteq AuthCalls
    /\ account \in Accounts
    /\ account.verified \/ account.tokens # {} => account.exists
    /\ calls # {} => pane.busy
    /\ \A c, d \in calls : c = d
    /\ \A c \in calls : AsksForItsPage(c, pane)
    /\ pane.busy => ~pane.error /\ (pane.form # "login" => ~pane.notice)
    /\ OneOutcomeShown
    /\ NoticesAreTrue

-----------------------------------------------------------------------------
(* The workspace queues: no page that is cached has more rows than two.    *)
QueueRows ==
    [total : 0 .. 2, row : {"none", "other", "site", "loading"},
     status : TenantStatuses \cup {"none"}]

QueuePage(s) ==
    /\ s = [q |-> s.q, page |-> s.page, retry |-> s.retry, resume |-> s.resume,
            job |-> s.job]
    /\ s.page \in {1, 2}

QueueInv ==
    /\ rowCache \in [{1, 2} -> QueueRows]
    /\ QueuePage(queue)
    /\ listed \in [site : [status : TenantStatuses, billing : BillingStatuses],
                   before : BOOLEAN]
    /\ queue.page <= TotalPages(Shown)

-----------------------------------------------------------------------------
(* The pages of a workspace and of the operators.                          *)
ButtonNames == DOMAIN Buttons
Flags == {Buttons[n].flag : n \in ButtonNames}
AnyRow == Rows \cup {NoRow}

DeskStates ==
    [page : Pages \cup {NoPage}, admin : BOOLEAN, dialog : ButtonNames \cup {"none"},
     typed : BOOLEAN, busy : SUBSET (Flags \X AnyRow), alarm : BOOLEAN,
     spent : BOOLEAN]

HandlerState(h) ==
    /\ h = [button |-> h.button, row |-> h.row, step |-> h.step,
            awaits |-> h.awaits, made |-> h.made]
    /\ h.button \in ButtonNames /\ h.row \in AnyRow
    /\ h.step \in Nat /\ h.made \in Nat

(* A handler and a dialog belong to the page that is open.                 *)
OfThePage ==
    /\ \A h \in asked : HandlerState(h) /\ Buttons[h.button].page = desk.page
    /\ desk.dialog # "none" => Buttons[desk.dialog].page = desk.page

(* One deletion at a time, while its button is disabled; and the phrase of *)
(* one that is acknowledged is gone, with its dialog.                      *)
OneDeletion ==
    /\ \A g, h \in asked : g.button = "delete" /\ h.button = "delete" => g = h
    /\ \A h \in asked : h.button = "delete" => <<"delete", NoRow>> \in desk.busy
    /\ desk.spent => ~desk.typed /\ desk.dialog # "delete"

DeskInv ==
    /\ desk \in DeskStates
    /\ OfThePage /\ BusyHasHandler /\ OneDeletion /\ DeletionRetyped

-----------------------------------------------------------------------------
(* What the page shows of the server.                                      *)
Fetches == [since : Nat \ {0}, by : (ButtonNames \cup {"page"}) \X AnyRow]

SectionViews ==
    [read : Nat, failed : BOOLEAN, loading : BOOLEAN, fetches : SUBSET Fetches]

TenantStates == [status : Statuses, billing : STRING, sub : STRING]

ViewsTyped ==
    /\ past \in Seq(TenantStates)
    /\ desk.page # NoPage => Len(past) > 0 /\ views \in [Loads[desk.page] -> SectionViews]

(* Fetches of the query client: one of a section, never older than what is *)
(* shown.                                                                  *)
Ordered(s, v) ==
    /\ v.read <= Now
    /\ \A f \in v.fetches : f.since <= Now
    /\ s \in QuerySections =>
          \A f \in v.fetches : v.read <= f.since /\ \A g \in v.fetches : f = g

(* The section shows state m or a later one, or an error, or will: no      *)
(* answer that is under way can bring an older one.                        *)
ShowsSince(v, m) ==
    \/ v.read >= m
    \/ /\ \A f \in v.fetches : f.since >= m
       /\ v.fetches # {} \/ v.failed

(* A fetch begun now is not joined to one older than state m.              *)
Refetchable(v, m) == v.read > 0 \/ \A f \in v.fetches : f.since >= m

(* What a handler has asked a section for once is answered, or will be,    *)
(* such that asking again is not joined to a fetch older than its request; *)
(* and what it has asked twice is shown.                                   *)
Reloads(h, s, v) ==
    LET reload == Buttons[h.button].reload IN
    \A i \in 1 .. h.step - 1 : s \in reload[i] =>
        /\ s \in h.awaits \/ Refetchable(v, h.made)
        /\ \A j \in 1 .. i - 1 : s \in reload[j] => ShowsSince(v, h.made)

HandlerReloads(h) ==
    /\ h.step <= Len(Buttons[h.button].reload) + 1
    /\ h.made <= Now
    /\ h.step = 0 => h.awaits = {}
    /\ \A s \in DOMAIN views \cap QuerySections : Reloads(h, s, views[s])

(* An answer that is shown itself is not awaited any more.                 *)
AnswerShown(h) ==
    h.step > 0 /\ h.button \in DOMAIN Answers =>
        h.awaits = {} /\ views[Answers[h.button]].read >= h.made

ReloadInv ==
    /\ \A s \in DOMAIN views : Ordered(s, views[s])
    /\ \A h \in asked : HandlerReloads(h) /\ AnswerShown(h)

PageInv == DeskInv /\ ViewsTyped /\ ReloadInv

-----------------------------------------------------------------------------
(***************************************************************************)
(* The onboarding form.                                                    *)
(***************************************************************************)
(* The app the effects leave is one there is, and the one highlighted.     *)
LEMMA ChosenIsHighlighted ==
    ASSUME NEW f \in FormStates, NEW addOns \in Catalogs
    PROVE  /\ ChosenApp(f, addOns) \in Apps
           /\ \A g \in FormStates : g.app = ChosenApp(f, addOns) /\ f.plan = "business"
                 => g.app = HighlightedApp(g, addOns)
<1>1. PICK apps : apps = BusinessApps(addOns)
  OBVIOUS
<1>2. apps[1] \in Apps
  <2>1. CASE addOns = << >>
    BY <2>1, <1>1 DEF BusinessApps, FallbackApps, Apps
  <2>2. CASE addOns = FallbackCatalog
    BY <2>2, <1>1 DEF BusinessApps, FallbackCatalog, Apps
  <2>3. CASE addOns = <<"crm">>
    BY <2>3, <1>1 DEF BusinessApps, Apps
  <2>4. CASE addOns = <<"hrms", "lms">>
    BY <2>4, <1>1 DEF BusinessApps, Apps
  <2> QED  BY <2>1, <2>2, <2>3, <2>4 DEF Catalogs
<1>3. ChosenApp(f, addOns) \in Apps
  BY <1>1, <1>2 DEF ChosenApp, FormStates, Apps
<1>4. ASSUME NEW g \in FormStates, g.app = ChosenApp(f, addOns), f.plan = "business"
      PROVE  g.app = HighlightedApp(g, addOns)
  BY <1>1, <1>4 DEF ChosenApp, HighlightedApp
<1> QED  BY <1>3, <1>4

(* A commit shows what it picks (the effects on selectedPlan).             *)
LEMMA CommitKeeps ==
    ASSUME NEW f \in FormStates, catalog' \in Catalogs, FormCommit(f)
    PROVE  FormInv'
<1>1. ChosenApp(f, catalog') \in Apps
  BY ChosenIsHighlighted
<1>2. /\ form' \in FormStates
      /\ form'.plan = f.plan /\ form'.app = ChosenApp(f, catalog')
  BY <1>1 DEF FormCommit, FormStates
<1>3. form'.plan = "business" => form'.app = HighlightedApp(form', catalog')
  BY <1>2, ChosenIsHighlighted
<1> QED  BY <1>2, <1>3 DEF FormInv

(* Every handler of the form goes through a commit or leaves the form.     *)
LEMMA FormStep == FormInv /\ [FormNext]_formVars => FormInv'
<1> SUFFICES ASSUME FormInv, [FormNext]_formVars
             PROVE  FormInv'
  OBVIOUS
<1>1. form \in FormStates /\ catalog \in Catalogs
  BY DEF FormInv
<1>2. CASE MountForm
  <2>1. PICK p \in Plans, a \in Apps :
            FormCommit([NewForm EXCEPT !.mounted = TRUE, !.plan = p, !.app = a])
    BY <1>2 DEF MountForm, Apps
  <2>2. [NewForm EXCEPT !.mounted = TRUE, !.plan = p, !.app = a] \in FormStates
    BY DEF NewForm, FormStates
  <2> QED  BY <2>1, <2>2, <1>1, <1>2, CommitKeeps DEF MountForm
<1>3. CASE TypeCompany
  <2>1. [form EXCEPT !.company = ~@] \in FormStates
    BY <1>1 DEF FormStates
  <2> QED  BY <2>1, <1>1, <1>3, CommitKeeps DEF TypeCompany
<1>4. CASE \E p \in Plans : PickPlan(p)
  <2>1. PICK p \in Plans : PickPlan(p)
    BY <1>4
  <2>2. [form EXCEPT !.plan = p] \in FormStates
    BY <1>1 DEF FormStates
  <2> QED  BY <2>1, <2>2, <1>1, CommitKeeps DEF PickPlan
<1>5. CASE \E a \in {"erpnext", "crm", "hrms", "lms"} : PickApp(a)
  <2>1. PICK a \in Apps : PickApp(a)
    BY <1>5 DEF Apps
  <2>2. [form EXCEPT !.app = a] \in FormStates
    BY <1>1 DEF FormStates
  <2> QED  BY <2>1, <2>2, <1>1, CommitKeeps DEF PickApp
<1>6. CASE CatalogLoaded
  <2>1. catalog' \in Catalogs
    BY <1>6 DEF CatalogLoaded, Catalogs
  <2> QED  BY <2>1, <1>1, <1>6, CommitKeeps DEF CatalogLoaded
<1>7. CASE ProfileLoaded
  <2>1. PICK u \in {"verified", "unverified"} : FormCommit([form EXCEPT !.user = u])
    BY <1>7 DEF ProfileLoaded
  <2>2. [form EXCEPT !.user = u] \in FormStates
    BY <1>1 DEF FormStates
  <2> QED  BY <2>1, <2>2, <1>1, <1>7, CommitKeeps DEF ProfileLoaded
<1>8. CASE ResendVerification \/ VerificationResent
  <2>1. \A b \in BOOLEAN : [form EXCEPT !.resending = b] \in FormStates
    BY <1>1 DEF FormStates
  <2> QED  BY <2>1, <1>1, <1>8, CommitKeeps DEF ResendVerification, VerificationResent
<1>9. CASE SubmitForm \/ UNCHANGED formVars
  <2>1. UNCHANGED <<form, catalog>>
    BY <1>9 DEF SubmitForm, formVars
  <2> QED  BY <2>1 DEF FormInv, HighlightedApp, BusinessApps, IsIn
<1> QED  BY <1>2, <1>3, <1>4, <1>5, <1>6, <1>7, <1>8, <1>9 DEF FormNext

(* What is submitted is what the plan page shows as picked, whatever was   *)
(* stored and whenever the catalog arrives (handleCreateTenant).           *)
THEOREM FormSubmitsShown == FormSpec => SubmitsWhatIsShown
<1>1. FormInit => FormInv
  BY DEF FormInit, FormInv, NewForm, FormStates, Catalogs, Plans, Apps
<1>2. FormInv /\ [FormNext]_formVars =>
          [sent' # sent /\ form.plan = "business" =>
              sent'[1].app = HighlightedApp(form, catalog)]_formVars
  <2> SUFFICES ASSUME FormInv, FormNext, sent' # sent, form.plan = "business"
               PROVE  sent'[1].app = HighlightedApp(form, catalog)
    BY DEF formVars
  <2>1. SubmitForm
    BY DEF FormNext, MountForm, TypeCompany, PickPlan, PickApp, CatalogLoaded,
       ProfileLoaded, ResendVerification, VerificationResent
  <2>2. sent'[1].app = form.app
    BY <2>1 DEF SubmitForm
  <2> QED  BY <2>2 DEF FormInv
<1> QED  BY <1>1, <1>2, FormStep, PTL DEF FormSpec, SubmitsWhatIsShown

-----------------------------------------------------------------------------
(***************************************************************************)
(* The create form.                                                        *)
(***************************************************************************)
(* The second request is sent only after a first one that built nothing    *)
(* (createTenantWithCompatibility).                                        *)
LEMMA DraftStep == DraftInv /\ [DraftNext]_draftVars => DraftInv'
<1> SUFFICES ASSUME DraftInv, [DraftNext]_draftVars
             PROVE  DraftInv'
  OBVIOUS
<1> USE DEF DraftInv, PostPhases
<1>1. CASE OpenDraft \/ LeaveDraft \/ EditDraft
  BY <1>1 DEF OpenDraft, LeaveDraft, EditDraft
<1>2. CASE DraftUserLoaded \/ DraftResend \/ DraftRefused
  BY <1>2 DEF DraftUserLoaded, DraftResend, DraftRefused
<1>3. CASE DraftSubmit
  BY <1>3 DEF DraftSubmit
<1>4. CASE BuildPosted
  <2>1. CASE post' = [post EXCEPT !.pc = "built"] /\ built' = built + 1
    <3>1. built' = 1
      BY <1>4, <2>1 DEF BuildPosted
    <3> QED  BY <2>1, <3>1
  <2>2. CASE \E why \in {"extraField", "refused"} :
                post' = [post EXCEPT !.pc = why] /\ UNCHANGED built
    BY <1>4, <2>2 DEF BuildPosted
  <2> QED  BY <1>4, <2>1, <2>2 DEF BuildPosted
<1>5. CASE LosePost
  BY <1>5 DEF LosePost
<1>6. CASE RetryWithoutChosenApp
  BY <1>6 DEF RetryWithoutChosenApp, ShouldRetryWithoutChosenApp
<1>7. CASE PostAnswered
  BY <1>7 DEF PostAnswered, NoPost
<1>8. CASE UNCHANGED draftVars
  BY <1>8 DEF draftVars
<1> QED  BY <1>1, <1>2, <1>3, <1>4, <1>5, <1>6, <1>7, <1>8 DEF DraftNext

(* So it holds.                                                            *)
LEMMA DraftInvHolds == DraftSpec => []DraftInv
<1>1. DraftInit => DraftInv
  BY DEF DraftInit, DraftInv, NoPost, PostPhases
<1> QED  BY <1>1, DraftStep, PTL DEF DraftSpec

(* One press of the button builds one workspace at most, although it may   *)
(* send two requests that no idempotency key ties together                 *)
(* (createTenantWithCompatibility).                                        *)
THEOREM DraftBuildsOnce == DraftSpec => []OneWorkspacePerSubmit
<1>1. DraftInv => OneWorkspacePerSubmit
  BY DEF DraftInv, OneWorkspacePerSubmit
<1> QED  BY <1>1, DraftInvHolds, PTL

-----------------------------------------------------------------------------
(***************************************************************************)
(* The public pages.                                                       *)
(***************************************************************************)
(* What becomes of an account: it stays, and stays verified, and there is  *)
(* one when it has tokens.                                                 *)
Follows(b) ==
    /\ b \in Accounts
    /\ b.verified \/ b.tokens # {} => b.exists
    /\ account.exists => b.exists
    /\ account.verified => b.verified

(* What a request does to the account (the auth service).                  *)
LEMMA EffectFollows ==
    ASSUME AuthInv, NEW c \in AuthCalls
    PROVE  /\ Follows(account) /\ Follows(Effect(c))
           /\ c.step = "signup" => Effect(c).exists
           /\ HasToken(c, "verify") => Effect(c).verified
<1>1. account \in Accounts
  BY DEF AuthInv
<1>2. account.verified \/ account.tokens # {} => account.exists
  BY DEF AuthInv
<1>3. Follows(account)
  BY <1>1, <1>2 DEF Follows
<1>4. CASE c.step = "signup" /\ ~account.exists
  <2>1. Effect(c) = [exists |-> TRUE, password |-> c.password, verified |-> FALSE,
                     tokens |-> {"verify"}]
    BY <1>4 DEF Effect, HasToken
  <2>2. c.password \in Passwords
    BY DEF AuthCalls
  <2>3. Effect(c) \in Accounts
    BY <2>1, <2>2 DEF Accounts
  <2>4. Effect(c).exists /\ ~account.verified
    BY <2>1, <1>2, <1>4
  <2> QED  BY <2>3, <2>4, <1>3, <1>4 DEF Follows, HasToken
<1>5. CASE c.step = "forgot" /\ account.exists
  <2>1. Effect(c) = [account EXCEPT !.tokens = @ \cup {"reset"}]
    BY <1>5 DEF Effect, HasToken
  <2>2. PICK T : T = account.tokens \cup {"reset"}
    OBVIOUS
  <2>3. T \subseteq {"verify", "reset"}
    BY <1>1, <2>2 DEF Accounts
  <2>4. Effect(c) = [exists |-> TRUE, password |-> account.password,
                     verified |-> account.verified, tokens |-> T]
    BY <2>1, <2>2, <1>1, <1>5 DEF Accounts
  <2>5. Effect(c) \in Accounts
    BY <2>3, <2>4, <1>1 DEF Accounts
  <2> QED  BY <2>4, <2>5, <1>3, <1>5 DEF Follows, HasToken
<1>6. CASE HasToken(c, "verify")
  <2>1. Effect(c) = [account EXCEPT !.tokens = @ \ {"verify"}, !.verified = TRUE]
    BY <1>6 DEF Effect, HasToken
  <2>2. account.exists /\ c.step = "verify"
    BY <1>2, <1>6 DEF HasToken
  <2>3. PICK T : T = account.tokens \ {"verify"}
    OBVIOUS
  <2>4. T \subseteq {"verify", "reset"}
    BY <1>1, <2>3 DEF Accounts
  <2>5. Effect(c) = [exists |-> TRUE, password |-> account.password,
                     verified |-> TRUE, tokens |-> T]
    BY <2>1, <2>2, <2>3, <1>1 DEF Accounts
  <2> QED  BY <2>2, <2>4, <2>5, <1>1, <1>3 DEF Follows, Accounts
<1>7. CASE HasToken(c, "reset")
  <2>1. Effect(c) = [account EXCEPT !.tokens = @ \ {"reset"}, !.password = c.password]
    BY <1>7 DEF Effect, HasToken
  <2>2. account.exists /\ c.step = "reset" /\ c.password \in Passwords
    BY <1>2, <1>7 DEF HasToken, AuthCalls
  <2>3. PICK T : T = account.tokens \ {"reset"}
    OBVIOUS
  <2>4. T \subseteq {"verify", "reset"}
    BY <1>1, <2>3 DEF Accounts
  <2>5. Effect(c) = [exists |-> TRUE, password |-> c.password,
                     verified |-> account.verified, tokens |-> T]
    BY <2>1, <2>2, <2>3, <1>1 DEF Accounts
  <2> QED  BY <2>2, <2>4, <2>5, <1>1, <1>3 DEF Follows, Accounts, HasToken
<1>8. CASE /\ ~(c.step = "signup" /\ ~account.exists)
           /\ ~(c.step = "forgot" /\ account.exists)
           /\ ~HasToken(c, "verify") /\ ~HasToken(c, "reset")
  <2>1. Effect(c) = account
    BY <1>8 DEF Effect
  <2> QED  BY <2>1, <1>3, <1>8
<1> QED  BY <1>4, <1>5, <1>6, <1>7, <1>8

(* A page that goes, or starts, keeps its word: what it says then is what  *)
(* it said before, or nothing.                                             *)
Quiet(p) == ~p.error /\ ~p.notice

(* A page that is left is followed by one that says nothing yet            *)
(* (the links of the public pages).                                        *)
LEMMA LeavingKeeps ==
    ASSUME AuthInv, NEW next \in PaneStates, Quiet(next), Leaving(next)
    PROVE  AuthInv'
<1>1. PICK b : account' = b /\ Follows(b)
  <2>1. account' = account \/ \E c \in calls : account' = Effect(c)
    BY DEF Leaving
  <2>2. calls \subseteq AuthCalls /\ \A c \in calls : Follows(Effect(c))
    BY EffectFollows DEF AuthInv
  <2>3. Follows(account)
    BY DEF AuthInv, Follows
  <2> HIDE DEF Effect
  <2> QED  BY <2>1, <2>2, <2>3
<1>2. pane' = next /\ calls' = {}
  BY DEF Leaving
<1> QED  BY <1>1, <1>2 DEF AuthInv, Follows, Quiet, OneOutcomeShown, NoticesAreTrue

(* An answer ends the only request there is.                               *)
LEMMA AnswerEnds ==
    ASSUME AuthInv, NEW c \in calls
    PROVE  /\ calls \ {c} = {} /\ c \in AuthCalls /\ AsksForItsPage(c, pane)
           /\ pane.busy /\ ~pane.error /\ (pane.form # "login" => ~pane.notice)
  BY DEF AuthInv

(* It is shown, as an error, as a notice, or by what follows it.           *)
LEMMA AnswerKeeps ==
    ASSUME AuthInv, NEW c \in calls,
           \/ AuthFails(c) \/ AuthSucceeds(c)
           \/ SignupAnswered(c) \/ LoginAnswered(c) \/ Impersonated(c)
    PROVE  AuthInv'
<1>1. /\ calls \ {c} = {} /\ c \in AuthCalls /\ AsksForItsPage(c, pane)
      /\ pane.busy /\ ~pane.error /\ (pane.form # "login" => ~pane.notice)
  BY AnswerEnds
<1>2. pane \in PaneStates /\ account \in Accounts
  BY DEF AuthInv
<1>3. /\ Follows(account) /\ Follows(Effect(c))
      /\ c.step = "signup" => Effect(c).exists
      /\ HasToken(c, "verify") => Effect(c).verified
  BY <1>1, EffectFollows
<1> HIDE DEF Effect
<1>4. CASE AuthFails(c)
  <2>1. PICK b : account' = b /\ Follows(b)
    BY <1>3, <1>4 DEF AuthFails
  <2>2. /\ pane' \in PaneStates /\ pane'.form = pane.form /\ ~pane'.busy
        /\ pane'.notice = pane.notice /\ calls' = {}
    BY <1>1, <1>2, <1>4 DEF AuthFails, Failed, PaneStates
  <2> QED  BY <1>1, <2>1, <2>2 DEF AuthInv, Follows, OneOutcomeShown, NoticesAreTrue
<1>5. CASE AuthSucceeds(c)
  <2>1. /\ pane' \in PaneStates /\ pane'.form = pane.form /\ ~pane'.busy
        /\ ~pane'.error /\ calls' = {}
    BY <1>1, <1>2, <1>5 DEF AuthSucceeds, Told, PaneStates
  <2>2. account' = Effect(c)
    BY <1>5 DEF AuthSucceeds
  <2>3. pane.form \in {"verify", "verifyLink"} => HasToken(c, "verify")
    BY <1>1, <1>5 DEF AuthSucceeds, AsksForItsPage, Asking, HasToken
  <2>4. pane.form # "signup"
    BY <1>1, <1>5 DEF AuthSucceeds, AsksForItsPage, Asking, HasToken
  <2> QED  BY <1>3, <2>1, <2>2, <2>3, <2>4
              DEF AuthInv, Follows, OneOutcomeShown, NoticesAreTrue
<1>6. CASE SignupAnswered(c)
  <2>1. /\ pane' = pane /\ account' = Effect(c)
        /\ calls' = {Call("login", c.password)} /\ pane.form = "signup"
    BY <1>1, <1>6 DEF SignupAnswered, AsksForItsPage, Asking
  <2>2. Call("login", c.password) \in AuthCalls
    BY <1>1 DEF Call, AuthCalls, AuthSteps
  <2>3. AsksForItsPage(Call("login", c.password), pane)
    BY <2>1 DEF AsksForItsPage, Call
  <2> QED  BY <1>1, <1>2, <1>3, <2>1, <2>2, <2>3
              DEF AuthInv, Follows, OneOutcomeShown, NoticesAreTrue
<1>7. CASE LoginAnswered(c)
  <2>1. /\ pane' \in PaneStates /\ pane'.form = pane.form /\ ~pane'.busy
        /\ ~pane'.error /\ calls' = {} /\ pane'.signedIn
        /\ pane'.notice => pane.notice \/ pane.form = "signup"
    BY <1>1, <1>2, <1>7 DEF LoginAnswered, PaneStates
  <2>2. account' = account /\ account.exists /\ c.step = "login"
    BY <1>7 DEF LoginAnswered
  <2>3. pane.form \in {"login", "signup"}
    BY <1>1, <2>2 DEF AsksForItsPage, Asking
  <2> QED  BY <1>1, <1>2, <2>1, <2>2, <2>3
              DEF AuthInv, OneOutcomeShown, NoticesAreTrue
<1>8. CASE Impersonated(c)
  <2>1. /\ pane' \in PaneStates /\ pane'.form = pane.form /\ ~pane'.busy
        /\ ~pane'.error /\ calls' = {}
    BY <1>1, <1>2, <1>8 DEF Impersonated, PaneStates
  <2>2. account' = account /\ c.step = "impersonate"
    BY <1>8 DEF Impersonated
  <2>3. pane.form = "impersonate"
    BY <1>1, <1>2, <2>2 DEF AsksForItsPage, Asking, PaneStates
  <2> QED  BY <1>1, <1>2, <2>1, <2>2, <2>3
              DEF AuthInv, OneOutcomeShown, NoticesAreTrue
<1> QED  BY <1>4, <1>5, <1>6, <1>7, <1>8

(* A request is sent by a page that is not waiting for one.                *)
LEMMA AskingKeeps ==
    ASSUME AuthInv,
           StartLink \/ \E password \in {"old", "new"} : SubmitAuth(password)
    PROVE  AuthInv'
<1>1. PICK password \in Passwords :
          /\ calls' = calls \cup {Call(Asking(pane), password)} /\ calls = {}
          /\ pane' \in PaneStates /\ pane'.busy /\ pane'.form = pane.form
          /\ ~pane'.error /\ (pane'.notice => pane.notice /\ pane.form = "login")
          /\ pane.form \in AuthForms \cup Links /\ account' = account
  <2>1. pane \in PaneStates
    BY DEF AuthInv
  <2>2. CASE StartLink
    BY <2>1, <2>2 DEF StartLink, PaneStates, Passwords, AuthForms, Links
  <2>3. CASE \E password \in {"old", "new"} : SubmitAuth(password)
    <3>1. PICK password \in {"old", "new"} : SubmitAuth(password)
      BY <2>3
    <3>2. calls = {}
      BY <3>1 DEF SubmitAuth, FormOffered, AuthInv
    <3>3. /\ pane' \in PaneStates /\ pane'.busy /\ pane'.form = pane.form
          /\ ~pane'.error /\ (pane'.notice => pane.notice /\ pane.form = "login")
      BY <2>1, <3>1 DEF SubmitAuth, PaneStates
    <3>4. pane.form \in AuthForms \cup Links
      BY <3>1 DEF SubmitAuth, FormOffered, Links
    <3> QED  BY <3>1, <3>2, <3>3, <3>4 DEF SubmitAuth, Passwords
  <2> QED  BY <2>2, <2>3
<1>2. PICK c : c = Call(Asking(pane), password)
  OBVIOUS
<1>3. c \in AuthCalls
  BY <1>1, <1>2 DEF Call, Asking, AuthForms, Links, AuthCalls, AuthSteps
<1>4. c.step = Asking(pane) /\ Asking(pane') = Asking(pane)
  BY <1>1, <1>2 DEF Call, Asking
<1>5. calls' = {c}
  BY <1>1, <1>2
<1> QED  BY <1>1, <1>3, <1>4, <1>5
            DEF AuthInv, AsksForItsPage, OneOutcomeShown, NoticesAreTrue

(* Every step of the public pages is one of these, or none of a request.   *)
LEMMA AuthStep == AuthInv /\ [AuthNext]_authVars => AuthInv'
<1> SUFFICES ASSUME AuthInv, [AuthNext]_authVars
             PROVE  AuthInv'
  OBVIOUS
<1>0. pane \in PaneStates
  BY DEF AuthInv
<1>1. CASE \E f \in AuthForms : OpenAuthForm(f)
  <2>1. PICK f \in AuthForms : OpenAuthForm(f)
    BY <1>1
  <2>2. PICK next : next = [NoPane EXCEPT !.form = f, !.signedIn = pane.signedIn]
    OBVIOUS
  <2>3. next \in PaneStates /\ Quiet(next)
    BY <1>0, <2>2 DEF PaneStates, NoPane, Quiet
  <2> QED  BY <2>1, <2>2, <2>3, LeavingKeeps DEF OpenAuthForm
<1>2. CASE \E link \in Links : OpenLink(link)
  <2>1. PICK link \in Links : OpenLink(link)
    BY <1>2
  <2>2. PICK next : next = [NoPane EXCEPT !.form = link, !.busy = TRUE,
                                          !.signedIn = pane.signedIn]
    OBVIOUS
  <2>3. next \in PaneStates /\ Quiet(next)
    BY <1>0, <2>2 DEF PaneStates, NoPane, Quiet
  <2> QED  BY <2>1, <2>2, <2>3, LeavingKeeps DEF OpenLink
<1>3. CASE StartLink \/ \E password \in {"old", "new"} : SubmitAuth(password)
  BY <1>3, AskingKeeps
<1>4. CASE InvalidReset
  <2>1. /\ pane' \in PaneStates /\ pane'.form = "reset" /\ ~pane'.busy
        /\ ~pane'.notice /\ UNCHANGED <<calls, account>> /\ calls = {}
    BY <1>0, <1>4 DEF InvalidReset, PaneStates, AuthInv
  <2> QED  BY <2>1 DEF AuthInv, OneOutcomeShown, NoticesAreTrue
<1>5. CASE SignOut
  <2>1. /\ pane' \in PaneStates /\ pane'.form = "login" /\ ~pane'.busy
        /\ ~pane'.error /\ UNCHANGED <<calls, account>> /\ calls = {}
    BY <1>0, <1>5 DEF SignOut, PaneStates, NoPane, AuthForms
  <2> QED  BY <2>1 DEF AuthInv, OneOutcomeShown, NoticesAreTrue
<1>6. CASE \E c \in calls :
              \/ AuthFails(c) \/ AuthSucceeds(c)
              \/ SignupAnswered(c) \/ LoginAnswered(c) \/ Impersonated(c)
  BY <1>6, AnswerKeeps
<1>7. CASE UNCHANGED authVars
  BY <1>7 DEF authVars, AuthInv, AsksForItsPage, Asking, OneOutcomeShown,
     NoticesAreTrue
<1> QED  BY <1>1, <1>2, <1>3, <1>4, <1>5, <1>6, <1>7 DEF AuthNext

(* So it holds.                                                            *)
LEMMA AuthInvHolds == AuthSpec => []AuthInv
<1>1. AuthInit => AuthInv
  BY DEF AuthInit, AuthInv, NoPane, PaneStates, Accounts, Passwords,
     OneOutcomeShown, NoticesAreTrue
<1> QED  BY <1>1, AuthStep, PTL DEF AuthSpec

(* A public page that says done does not say failed as well, whatever the  *)
(* answers do and however often a page is left (error and notice of the    *)
(* auth pages).                                                            *)
THEOREM AuthShowsOneOutcome == AuthSpec => []OneOutcomeShown
<1>1. AuthInv => OneOutcomeShown
  BY DEF AuthInv
<1> QED  BY <1>1, AuthInvHolds, PTL

(* What a public page tells the visitor has happened on the server         *)
(* (verifyEmail, signup and login).                                        *)
THEOREM AuthTellsTheTruth == AuthSpec => []NoticesAreTrue
<1>1. AuthInv => NoticesAreTrue
  BY DEF AuthInv
<1> QED  BY <1>1, AuthInvHolds, PTL

-----------------------------------------------------------------------------
(***************************************************************************)
(* The workspace queues.                                                   *)
(***************************************************************************)
(* What the server answers are rows.                                       *)
LEMMA ServedAreRows ==
    ASSUME listed \in [site : [status : TenantStatuses, billing : BillingStatuses],
                       before : BOOLEAN],
           NEW q, NEW p \in {1, 2}
    PROVE  Served(q, p) \in QueueRows
<1>1. Total(q) \in 0 .. 2
  BY DEF Total
<1>2. listed.site.status \in TenantStatuses
  OBVIOUS
<1> QED  BY <1>1, <1>2 DEF Served, QueueRows

(* The effects that follow a commit leave a page there is (setPage).       *)
LEMMA RenderSettles ==
    ASSUME NEW s, QueuePage(s), NEW cache \in [{1, 2} -> QueueRows], NEW asking,
           Render(s, cache, asking)
    PROVE  /\ rowCache' \in [{1, 2} -> QueueRows] /\ QueuePage(queue')
           /\ queue'.page <= TotalPages(rowCache'[queue'.page])
<1>1. PICK p : p = SettledPage(s.page, cache)
  OBVIOUS
<1>2. \A n \in {1, 2} : TotalPages(cache[n]) \in {1, 2}
  <2> SUFFICES ASSUME NEW n \in {1, 2} PROVE TotalPages(cache[n]) \in {1, 2}
    OBVIOUS
  <2>1. cache[n].total \in 0 .. 2
    BY DEF QueueRows
  <2> QED  BY <2>1 DEF TotalPages
<1>3. p \in {1, 2} /\ p <= TotalPages(cache[p])
  BY <1>1, <1>2 DEF SettledPage, QueuePage
<1>4. rowCache' = cache
  BY DEF Render
<1>5. PICK job : queue' = [s EXCEPT !.page = p, !.job = job]
  BY <1>1 DEF Render
<1>6. QueuePage(queue') /\ queue'.page = p
  BY <1>3, <1>5 DEF QueuePage
<1> QED  BY <1>3, <1>4, <1>6

(* So every handler of the queue that turns its page or changes its rows.  *)
LEMMA QueueStep == QueueInv /\ [QueueNext]_queueVars => QueueInv'
<1> SUFFICES ASSUME QueueInv, [QueueNext]_queueVars
             PROVE  QueueInv'
  OBVIOUS
<1>1. /\ rowCache \in [{1, 2} -> QueueRows] /\ QueuePage(queue)
      /\ listed \in [site : [status : TenantStatuses, billing : BillingStatuses],
                     before : BOOLEAN]
      /\ queue.page <= TotalPages(rowCache[queue.page])
  BY DEF QueueInv, Shown
<1>2. NoCache \in [{1, 2} -> QueueRows]
  BY DEF NoCache, NoRows, QueueRows
<1>3. ASSUME NEW s, QueuePage(s), NEW cache \in [{1, 2} -> QueueRows], NEW asking,
             Render(s, cache, asking), UNCHANGED listed
      PROVE  QueueInv'
  BY <1>1, <1>3, RenderSettles DEF QueueInv, Shown
<1>4. ASSUME UNCHANGED rowCache, QueuePage(queue'), queue'.page = queue.page,
             listed' \in [site : [status : TenantStatuses, billing : BillingStatuses],
                          before : BOOLEAN]
      PROVE  QueueInv'
  BY <1>1, <1>4 DEF QueueInv, Shown
<1>5. CASE \E q \in QueuePages : OpenQueue(q)
  <2>1. PICK q \in QueuePages : OpenQueue(q)
    BY <1>5
  <2>2. QueuePage(NewQueue(q))
    BY DEF QueuePage, NewQueue
  <2> QED  BY <2>1, <2>2, <1>2, <1>3 DEF OpenQueue
<1>6. CASE ChangeFilter
  <2>1. QueuePage([queue EXCEPT !.page = 1])
    BY <1>1 DEF QueuePage
  <2> QED  BY <2>1, <1>2, <1>3, <1>6 DEF ChangeFilter
<1>7. CASE \E p \in {1, 2} : TurnPage(p)
  <2>1. PICK p \in {1, 2} : TurnPage(p)
    BY <1>7
  <2>2. QueuePage([queue EXCEPT !.page = p])
    BY <1>1 DEF QueuePage
  <2> QED  BY <2>1, <2>2, <1>1, <1>3 DEF TurnPage
<1>8. CASE \E p \in {1, 2} : FetchAnswered(p)
  <2>1. PICK p \in {1, 2} : FetchAnswered(p)
    BY <1>8
  <2>2. Served(queue.q, p) \in QueueRows
    BY <1>1, ServedAreRows
  <2>3. [rowCache EXCEPT ![p] = Served(queue.q, p)] \in [{1, 2} -> QueueRows]
    BY <1>1, <2>2
  <2> QED  BY <2>1, <2>3, <1>1, <1>3 DEF FetchAnswered
<1>9. CASE RefetchQueue \/ \E p \in {1, 2} : FetchFailed(p)
  <2>1. UNCHANGED <<queue, rowCache, listed>>
    BY <1>9 DEF RefetchQueue, FetchFailed
  <2> QED  BY <2>1, <1>1, <1>4 DEF QueuePage
<1>10. CASE RetryRow \/ ResumeRow \/ RetryRowAnswered \/ ResumeRowAnswered
  <2>1. QueuePage(queue') /\ queue'.page = queue.page
    BY <1>1, <1>10
       DEF RetryRow, ResumeRow, RetryRowAnswered, ResumeRowAnswered, QueuePage
  <2>2. "pending" \in TenantStatuses
    BY DEF TenantStatuses
  <2>3. [listed EXCEPT !.site.status = "pending"] \in
            [site : [status : TenantStatuses, billing : BillingStatuses],
             before : BOOLEAN]
    BY <1>1, <2>2
  <2>4. /\ UNCHANGED rowCache
        /\ listed' \in [site : [status : TenantStatuses, billing : BillingStatuses],
                        before : BOOLEAN]
    BY <1>1, <1>10, <2>3 DEF RetryRow, ResumeRow, RetryRowAnswered, ResumeRowAnswered
  <2> QED  BY <2>1, <2>4, <1>4
<1>11. CASE \E s \in QueueStatuses : ListedMoves(s)
  <2>1. PICK s \in QueueStatuses : ListedMoves(s)
    BY <1>11
  <2>2. AllowedTransitions[listed.site.status] \subseteq TenantStatuses
    BY <1>1 DEF AllowedTransitions, TenantStatuses, Suspensions
  <2>3. listed' \in [site : [status : TenantStatuses, billing : BillingStatuses],
                     before : BOOLEAN]
    BY <2>1, <2>2, <1>1 DEF ListedMoves
  <2> QED  BY <2>1, <2>3, <1>1, <1>4 DEF ListedMoves, QueuePage
<1>12. CASE ListGrows
  <2>1. listed' \in [site : [status : TenantStatuses, billing : BillingStatuses],
                     before : BOOLEAN]
    BY <1>1, <1>12 DEF ListGrows
  <2> QED  BY <2>1, <1>1, <1>4, <1>12 DEF ListGrows, QueuePage
<1>13. CASE UNCHANGED queueVars
  BY <1>1, <1>4, <1>13 DEF queueVars, QueuePage
<1> QED  BY <1>5, <1>6, <1>7, <1>8, <1>9, <1>10, <1>11, <1>12, <1>13 DEF QueueNext

(* So it holds.                                                            *)
LEMMA QueueInvHolds == QueueSpec => []QueueInv
<1>1. QueueInit => QueueInv
  BY DEF QueueInit, QueueInv, QueuePage, NewQueue, NoCache, NoRows, QueueRows, Shown,
     TotalPages, TenantStatuses, BillingStatuses
<1> QED  BY <1>1, QueueStep, PTL DEF QueueSpec

(* The page of a queue is one there is, whatever rows disappear and in     *)
(* whatever order its fetches are answered (the effect on totalPages).     *)
THEOREM QueueShowsAPage == QueueSpec => []PageInRange
<1>1. QueueInv => PageInRange
  BY DEF QueueInv, PageInRange
<1> QED  BY <1>1, QueueInvHolds, PTL

-----------------------------------------------------------------------------
(***************************************************************************)
(* The tables of the pages.                                                *)
(***************************************************************************)
TenantThenJobs == LoadTenant \o RefreshRecentJobs
TenantThenSubscription == LoadTenant \o LoadSubscription

InTable(n, page, flag, reload) ==
    /\ Buttons[n].page = page /\ Buttons[n].flag = flag
    /\ Buttons[n].reload = reload

(* The page, the busy flag and the reloads of every button.                *)
LEMMA ButtonTable ==
    /\ InTable("retry", "overview", "retrying", TenantThenJobs)
    /\ InTable("resume", "overview", "resuming", LoadTenant)
    /\ InTable("suspend", "overview", "action", LoadTenant)
    /\ InTable("unsuspend", "overview", "action", LoadTenant)
    /\ InTable("reset", "overview", "reset", << >>)
    /\ InTable("delete", "overview", "delete", TenantThenJobs)
    /\ InTable("plan", "billing", "plan", TenantThenSubscription)
    /\ InTable("pay", "billing", "pay", LoadSubscription)
    /\ InTable("invite", "members", "invite", InvalidateMembersAndRoute)
    /\ InTable("role", "members", "updating", InvalidateMembersAndRoute)
    /\ InTable("remove", "members", "removing", InvalidateMembersAndRoute)
    /\ InTable("add", "domains", "adding", <<{"domains"}>>)
    /\ InTable("verify", "domains", "verifying", <<{"domains"}>>)
    /\ InTable("drop", "domains", "removing", <<{"domains"}>>)
    /\ InTable("save", "support", "saving", <<{"notes"}>>)
    /\ InTable("resolve", "support", "saving", <<{"notes"}>>)
    /\ InTable("backup", "backups", "queue", << >>)
    /\ InTable("restore", "backups", "restore", << >>)
    /\ InTable("requeue", "recovery", "requeue", <<{"letters"}>>)
    /\ InTable("export", "auditlog", "export", << >>)
    /\ InTable("link", "supportlinks", "link", << >>)
    /\ InTable("impersonate", "directory", "impersonate", << >>)
    /\ InTable("run", "dunning", "cycle", <<{"dunning"}>>)
    /\ InTable("dry", "dunning", "cycle", <<{"dunning"}>>)
    /\ InTable("resumerow", "dunning", "resuming", <<{"dunning"}>>)
    /\ InTable("maintain", "health", "maintenance", << >>)
    /\ InTable("phone", "settings", "phone", << >>)
    /\ InTable("preferences", "settings", "preferences", << >>)
<1>1. InTable("retry", "overview", "retrying", TenantThenJobs)
  BY DEF InTable, Buttons, RetryButton, Plain, RetryHandler, Handler,
     TenantThenJobs
<1>2. InTable("resume", "overview", "resuming", LoadTenant)
  BY DEF InTable, Buttons, ResumeButton, Plain, ResumeHandler, Handler
<1>3. InTable("suspend", "overview", "action", LoadTenant)
  BY DEF InTable, Buttons, SuspendButton, Plain, Confirmed, AdminOnly,
     SuspendHandler, Handler
<1>4. InTable("unsuspend", "overview", "action", LoadTenant)
  BY DEF InTable, Buttons, UnsuspendButton, Plain, Confirmed, AdminOnly,
     UnsuspendHandler, Handler
<1>5. InTable("reset", "overview", "reset", << >>)
  BY DEF InTable, Buttons, ResetButton, Plain, AdminOnly, ResetHandler,
     Handler
<1>6. InTable("delete", "overview", "delete", TenantThenJobs)
  BY DEF InTable, Buttons, DeleteButton, Plain, Confirmed, AdminOnly,
     DeleteHandler, Handler, TenantThenJobs
<1>7. InTable("plan", "billing", "plan", TenantThenSubscription)
  BY DEF InTable, Buttons, PlanButton, Plain, Confirmed, PlanHandler, Handler,
     TenantThenSubscription
<1>8. InTable("pay", "billing", "pay", LoadSubscription)
  BY DEF InTable, Buttons, PayButton, Plain, PayHandler, Handler
<1>9. InTable("invite", "members", "invite", InvalidateMembersAndRoute)
  BY DEF InTable, Buttons, InviteButton, Plain, Inside, Gated, InviteHandler,
     Handler
<1>10. InTable("role", "members", "updating", InvalidateMembersAndRoute)
  BY DEF InTable, Buttons, RoleButton, Plain, Inside, PerRow, Gated,
     RoleHandler, Handler
<1>11. InTable("remove", "members", "removing", InvalidateMembersAndRoute)
  BY DEF InTable, Buttons, RemoveButton, Plain, Inside, PerRow, Gated,
     RemoveHandler, Handler
<1>12. InTable("add", "domains", "adding", <<{"domains"}>>)
  BY DEF InTable, Buttons, AddDomainButton, Plain, Inside, Gated,
     AddDomainHandler, Handler
<1>13. InTable("verify", "domains", "verifying", <<{"domains"}>>)
  BY DEF InTable, Buttons, VerifyButton, Plain, Inside, PerRow, Gated,
     VerifyHandler, Handler
<1>14. InTable("drop", "domains", "removing", <<{"domains"}>>)
  BY DEF InTable, Buttons, DropDomainButton, Plain, Inside, PerRow, Gated,
     DropDomainHandler, Handler
<1>15. InTable("save", "support", "saving", <<{"notes"}>>)
  BY DEF InTable, Buttons, SaveNoteButton, Plain, AdminOnly, Inside,
     SaveNoteHandler, Handler
<1>16. InTable("resolve", "support", "saving", <<{"notes"}>>)
  BY DEF InTable, Buttons, ResolveNoteButton, Plain, AdminOnly, Inside,
     ResolveNoteHandler, Handler
<1>17. InTable("backup", "backups", "queue", << >>)
  BY DEF InTable, Buttons, BackupButton, Plain, Gated, BackupHandler, Handler
<1>18. InTable("restore", "backups", "restore", << >>)
  BY DEF InTable, Buttons, RestoreButton, Plain, Confirmed, Inside, Gated,
     RestoreHandler, Handler
<1>19. InTable("requeue", "recovery", "requeue", <<{"letters"}>>)
  BY DEF InTable, Buttons, RequeueButton, Plain, Inside, PerRow,
     RequeueHandler, Handler
<1>20. InTable("export", "auditlog", "export", << >>)
  BY DEF InTable, Buttons, ExportButton, Plain, ExportHandler, Handler
<1>21. InTable("link", "supportlinks", "link", << >>)
  BY DEF InTable, Buttons, LinkButton, Plain, AdminOnly, LinkHandler, Handler
<1>22. InTable("impersonate", "directory", "impersonate", << >>)
  BY DEF InTable, Buttons, ImpersonateButton, Plain, Confirmed, AdminOnly,
     ImpersonateHandler, Handler
<1>23. InTable("run", "dunning", "cycle", <<{"dunning"}>>)
  BY DEF InTable, Buttons, RunCycleButton, Plain, Confirmed, AdminOnly,
     RunCycleHandler, Handler
<1>24. InTable("dry", "dunning", "cycle", <<{"dunning"}>>)
  BY DEF InTable, Buttons, DryRunButton, Plain, Confirmed, AdminOnly,
     RunCycleHandler, Handler
<1>25. InTable("resumerow", "dunning", "resuming", <<{"dunning"}>>)
  BY DEF InTable, Buttons, ResumeRowButton, Plain, AdminOnly, PerRow,
     ResumeRowHandler, Handler
<1>26. InTable("maintain", "health", "maintenance", << >>)
  BY DEF InTable, Buttons, MaintenanceButton, Plain, Confirmed, AdminOnly,
     MaintenanceHandler, Handler
<1>27. InTable("phone", "settings", "phone", << >>)
  BY DEF InTable, Buttons, SavePhoneButton, Plain, Inside, SavePhoneHandler,
     Handler
<1>28. InTable("preferences", "settings", "preferences", << >>)
  BY DEF InTable, Buttons, SavePreferencesButton, Plain, Inside,
     SavePreferencesHandler, Handler
<1> QED  BY <1>1, <1>2, <1>3, <1>4, <1>5, <1>6, <1>7, <1>8, <1>9, <1>10,
            <1>11, <1>12, <1>13, <1>14, <1>15, <1>16, <1>17, <1>18, <1>19,
            <1>20, <1>21, <1>22, <1>23, <1>24, <1>25, <1>26, <1>27, <1>28

(* The button that deletes, and its flag, which no other has.              *)
LEMMA DeleteTable ==
    /\ "delete" \in ButtonNames
    /\ Buttons["delete"].flag = "delete" /\ Buttons["delete"].dialog
    /\ Buttons["delete"].phrase = "before" /\ ~Buttons["delete"].rows
    /\ \A n \in ButtonNames : Buttons[n].flag = "delete" => n = "delete"
<1>1. "delete" \in ButtonNames
  BY DEF ButtonNames, Buttons
<1>2. /\ Buttons["delete"].flag = "delete" /\ Buttons["delete"].dialog
      /\ Buttons["delete"].phrase = "before" /\ ~Buttons["delete"].rows
  BY DEF Buttons, DeleteButton, AdminOnly, Confirmed, Plain, DeleteHandler, Handler
<1>3. ButtonNames =
        {"retry", "resume", "suspend", "unsuspend", "reset", "delete", "plan", "pay",
         "invite", "role", "remove", "add", "verify", "drop", "save", "resolve",
         "backup", "restore", "requeue", "export", "link", "impersonate", "run",
         "dry", "resumerow", "maintain", "phone", "preferences"}
  BY DEF ButtonNames, Buttons
<1>4. \A n \in ButtonNames : Buttons[n].flag = "delete" => n = "delete"
  BY <1>3, ButtonTable DEF InTable
<1> QED  BY <1>1, <1>2, <1>4

(* "none" is no page and no button.                                        *)
LEMMA NoneIsNone == NoPage \notin Pages /\ "none" \notin ButtonNames
  BY DEF NoPage, Pages, Loads, ButtonNames, Buttons

(* The reloads that several handlers share (loadTenant, loadSubscription,  *)
(* invalidateMembersAndRoute).                                             *)
LEMMA ReloadSteps ==
    /\ LoadTenant = <<{"tenant"}, {"tenant"}>>
    /\ LoadSubscription = <<{"subscription"}, {"subscription"}>>
    /\ TenantThenJobs = <<{"tenant"}, {"tenant"}, {"jobs"}, {"jobs"}>>
    /\ TenantThenSubscription =
           <<{"tenant"}, {"tenant"}, {"subscription"}, {"subscription"}>>
    /\ InvalidateMembersAndRoute = <<{"members", "tenant"}, {"members"}, {"members"}>>
<1>1. \A s : InvalidateAndFetch(s) = <<{s}, {s}>>
  BY DEF InvalidateAndFetch
<1>2. ASSUME NEW a, NEW b
      PROVE  /\ <<a, a>> \o <<b, b>> = <<a, a, b, b>>
             /\ <<a>> \o <<b, b>> = <<a, b, b>>
  <2>1. /\ <<a>> \in Seq({a, b}) /\ <<a, a>> \in Seq({a, b}) /\ <<b, b>> \in Seq({a, b})
        /\ <<a, b, b>> \in Seq({a, b}) /\ <<a, a, b, b>> \in Seq({a, b})
    OBVIOUS
  <2>2. PICK s \in Seq({a, b}) : s = <<a, a>> \o <<b, b>>
    BY <2>1, ConcatProperties
  <2>3. Len(s) = 4 /\ \A i \in 1 .. 4 : s[i] = <<a, a, b, b>>[i]
    BY <2>1, <2>2
  <2>4. PICK t \in Seq({a, b}) : t = <<a>> \o <<b, b>>
    BY <2>1, ConcatProperties
  <2>5. Len(t) = 3 /\ \A i \in 1 .. 3 : t[i] = <<a, b, b>>[i]
    BY <2>1, <2>4
  <2>6. s = <<a, a, b, b>>
    BY <2>1, <2>3, SeqEqual
  <2>7. t = <<a, b, b>>
    BY <2>1, <2>5, SeqEqual
  <2> QED  BY <2>2, <2>4, <2>6, <2>7
<1> HIDE DEF InvalidateAndFetch
<1> QED  BY <1>1, <1>2
            DEF LoadTenant, LoadSubscription, RefreshRecentJobs,
                InvalidateMembersAndRoute, TenantThenJobs, TenantThenSubscription

(* What a section shows is fetched twice.                                  *)
FetchesTwice(reload, s) ==
    \E i, j \in 1 .. Len(reload) : i < j /\ s \in reload[i] /\ s \in reload[j]

(* What the proofs need of a button: it is on a page, which has a list of  *)
(* steps; what it changes is shown there and is fetched twice, or shown    *)
(* from the answer.                                                        *)
ButtonFacts(n) ==
    LET b == Buttons[n] IN
    /\ b.page \in Pages /\ Len(b.reload) \in Nat
    /\ Changes[n] \subseteq Loads[b.page]
    /\ \A s \in Changes[n] :
          IF s \in QuerySections THEN FetchesTwice(b.reload, s)
          ELSE n \in DOMAIN Answers /\ s = Answers[n]
    /\ n \in DOMAIN Answers =>
          Len(b.reload) = 0 /\ Answers[n] \in Loads[b.page] \ QuerySections

(* What the reloads that are shared fetch twice.                           *)
LEMMA TwiceIn ==
    /\ FetchesTwice(LoadTenant, "tenant")
    /\ FetchesTwice(LoadSubscription, "subscription")
    /\ \A s \in {"tenant", "jobs"} : FetchesTwice(TenantThenJobs, s)
    /\ \A s \in {"tenant", "subscription"} : FetchesTwice(TenantThenSubscription, s)
    /\ FetchesTwice(InvalidateMembersAndRoute, "members")
    /\ Len(LoadTenant) = 2 /\ Len(LoadSubscription) = 2 /\ Len(TenantThenJobs) = 4
    /\ Len(TenantThenSubscription) = 4 /\ Len(InvalidateMembersAndRoute) = 3
<1>1. FetchesTwice(LoadTenant, "tenant") /\ Len(LoadTenant) = 2
  BY ReloadSteps DEF FetchesTwice
<1>2. FetchesTwice(LoadSubscription, "subscription") /\ Len(LoadSubscription) = 2
  BY ReloadSteps DEF FetchesTwice
<1>3. /\ FetchesTwice(TenantThenJobs, "tenant") /\ FetchesTwice(TenantThenJobs, "jobs")
      /\ Len(TenantThenJobs) = 4
  BY ReloadSteps DEF FetchesTwice
<1>4. /\ FetchesTwice(TenantThenSubscription, "tenant")
      /\ FetchesTwice(TenantThenSubscription, "subscription")
      /\ Len(TenantThenSubscription) = 4
  BY ReloadSteps DEF FetchesTwice
<1>5. /\ FetchesTwice(InvalidateMembersAndRoute, "members")
      /\ Len(InvalidateMembersAndRoute) = 3
  BY ReloadSteps DEF FetchesTwice
<1> QED  BY <1>1, <1>2, <1>3, <1>4, <1>5

(* So every button, with what it shows and reloads.                        *)
LEMMA ButtonsAreSound == \A n \in ButtonNames : ButtonFacts(n)
<1>1. ButtonNames =
        {"retry", "resume", "suspend", "unsuspend", "reset", "delete", "plan", "pay",
         "invite", "role", "remove", "add", "verify", "drop", "save", "resolve",
         "backup", "restore", "requeue", "export", "link", "impersonate", "run",
         "dry", "resumerow", "maintain", "phone", "preferences"}
  BY DEF ButtonNames, Buttons
<1>2. ASSUME NEW n \in ButtonNames, n \notin
             {"retry", "resume", "suspend", "unsuspend", "delete", "plan", "pay",
              "invite", "role", "remove", "phone", "preferences"}
      PROVE  ButtonFacts(n)
  <2>1. Changes[n] = {} /\ n \notin DOMAIN Answers
    BY <1>1, <1>2 DEF Changes, Answers, ButtonNames
  <2>2. Buttons[n].page \in Pages
    BY <1>1, <1>2, ButtonTable DEF InTable, Pages, Loads
  <2>3. Len(Buttons[n].reload) \in Nat
    BY <1>1, <1>2, ButtonTable DEF InTable
  <2> QED  BY <2>1, <2>2, <2>3 DEF ButtonFacts
<1>3. ASSUME NEW n \in {"retry", "delete"}
      PROVE  ButtonFacts(n)
  <2>1. /\ Changes[n] = {"tenant", "jobs"}
        /\ n \notin DOMAIN Answers
    BY <1>1, <1>3 DEF Changes, Answers, ButtonNames
  <2>2. /\ Buttons[n].page = "overview"
        /\ Buttons[n].reload = TenantThenJobs
    BY <1>3, ButtonTable DEF InTable
  <2>3. Len(TenantThenJobs) \in Nat
    BY TwiceIn
  <2>4. \A s \in {"tenant", "jobs"} :
            FetchesTwice(TenantThenJobs, s)
    BY TwiceIn
  <2>5. "overview" \in Pages /\ {"tenant", "jobs"} \subseteq Loads["overview"]
    BY DEF Pages, Loads, OverviewLoads
  <2>6. {"tenant", "jobs"} \subseteq QuerySections
    BY DEF QuerySections
  <2> QED  BY <2>1, <2>2, <2>3, <2>4, <2>5, <2>6 DEF ButtonFacts
<1>4. ASSUME NEW n \in {"resume", "suspend", "unsuspend"}
      PROVE  ButtonFacts(n)
  <2>1. /\ Changes[n] = {"tenant"}
        /\ n \notin DOMAIN Answers
    BY <1>1, <1>4 DEF Changes, Answers, ButtonNames
  <2>2. /\ Buttons[n].page = "overview"
        /\ Buttons[n].reload = LoadTenant
    BY <1>4, ButtonTable DEF InTable
  <2>3. Len(LoadTenant) \in Nat
    BY TwiceIn
  <2>4. \A s \in {"tenant"} :
            FetchesTwice(LoadTenant, s)
    BY TwiceIn
  <2>5. "overview" \in Pages /\ {"tenant"} \subseteq Loads["overview"]
    BY DEF Pages, Loads, OverviewLoads
  <2>6. {"tenant"} \subseteq QuerySections
    BY DEF QuerySections
  <2> QED  BY <2>1, <2>2, <2>3, <2>4, <2>5, <2>6 DEF ButtonFacts
<1>5. ASSUME NEW n \in {"plan"}
      PROVE  ButtonFacts(n)
  <2>1. /\ Changes[n] = {"tenant", "subscription"}
        /\ n \notin DOMAIN Answers
    BY <1>1, <1>5 DEF Changes, Answers, ButtonNames
  <2>2. /\ Buttons[n].page = "billing"
        /\ Buttons[n].reload = TenantThenSubscription
    BY <1>5, ButtonTable DEF InTable
  <2>3. Len(TenantThenSubscription) \in Nat
    BY TwiceIn
  <2>4. \A s \in {"tenant", "subscription"} :
            FetchesTwice(TenantThenSubscription, s)
    BY TwiceIn
  <2>5. "billing" \in Pages /\ {"tenant", "subscription"} \subseteq Loads["billing"]
    BY DEF Pages, Loads, BillingLoads
  <2>6. {"tenant", "subscription"} \subseteq QuerySections
    BY DEF QuerySections
  <2> QED  BY <2>1, <2>2, <2>3, <2>4, <2>5, <2>6 DEF ButtonFacts
<1>6. ASSUME NEW n \in {"pay"}
      PROVE  ButtonFacts(n)
  <2>1. /\ Changes[n] = {"subscription"}
        /\ n \notin DOMAIN Answers
    BY <1>1, <1>6 DEF Changes, Answers, ButtonNames
  <2>2. /\ Buttons[n].page = "billing"
        /\ Buttons[n].reload = LoadSubscription
    BY <1>6, ButtonTable DEF InTable
  <2>3. Len(LoadSubscription) \in Nat
    BY TwiceIn
  <2>4. \A s \in {"subscription"} :
            FetchesTwice(LoadSubscription, s)
    BY TwiceIn
  <2>5. "billing" \in Pages /\ {"subscription"} \subseteq Loads["billing"]
    BY DEF Pages, Loads, BillingLoads
  <2>6. {"subscription"} \subseteq QuerySections
    BY DEF QuerySections
  <2> QED  BY <2>1, <2>2, <2>3, <2>4, <2>5, <2>6 DEF ButtonFacts
<1>7. ASSUME NEW n \in {"invite", "role", "remove"}
      PROVE  ButtonFacts(n)
  <2>1. /\ Changes[n] = {"members"}
        /\ n \notin DOMAIN Answers
    BY <1>1, <1>7 DEF Changes, Answers, ButtonNames
  <2>2. /\ Buttons[n].page = "members"
        /\ Buttons[n].reload = InvalidateMembersAndRoute
    BY <1>7, ButtonTable DEF InTable
  <2>3. Len(InvalidateMembersAndRoute) \in Nat
    BY TwiceIn
  <2>4. \A s \in {"members"} :
            FetchesTwice(InvalidateMembersAndRoute, s)
    BY TwiceIn
  <2>5. "members" \in Pages /\ {"members"} \subseteq Loads["members"]
    BY DEF Pages, Loads, MembersLoads
  <2>6. {"members"} \subseteq QuerySections
    BY DEF QuerySections
  <2> QED  BY <2>1, <2>2, <2>3, <2>4, <2>5, <2>6 DEF ButtonFacts
<1>8. ASSUME NEW n \in {"phone"}
      PROVE  ButtonFacts(n)
  <2>1. /\ Changes[n] = {"profile"}
        /\ n \in DOMAIN Answers /\ Answers[n] \in {"profile"}
    BY <1>1, <1>8 DEF Changes, Answers, ButtonNames
  <2>2. /\ Buttons[n].page = "settings"
        /\ Buttons[n].reload = << >>
    BY <1>8, ButtonTable DEF InTable
  <2>3. Len(<< >>) = 0
    OBVIOUS
  <2>4. {"profile"} \cap QuerySections = {}
    BY DEF QuerySections
  <2>5. "settings" \in Pages /\ {"profile"} \subseteq Loads["settings"]
    BY DEF Pages, Loads, SettingsLoads
  <2> QED  BY <2>1, <2>2, <2>3, <2>4, <2>5 DEF ButtonFacts
<1>9. ASSUME NEW n \in {"preferences"}
      PROVE  ButtonFacts(n)
  <2>1. /\ Changes[n] = {"preferences"}
        /\ n \in DOMAIN Answers /\ Answers[n] \in {"preferences"}
    BY <1>1, <1>9 DEF Changes, Answers, ButtonNames
  <2>2. /\ Buttons[n].page = "settings"
        /\ Buttons[n].reload = << >>
    BY <1>9, ButtonTable DEF InTable
  <2>3. Len(<< >>) = 0
    OBVIOUS
  <2>4. {"preferences"} \cap QuerySections = {}
    BY DEF QuerySections
  <2>5. "settings" \in Pages /\ {"preferences"} \subseteq Loads["settings"]
    BY DEF Pages, Loads, SettingsLoads
  <2> QED  BY <2>1, <2>2, <2>3, <2>4, <2>5 DEF ButtonFacts
<1> QED  BY <1>1, <1>2, <1>3, <1>4, <1>5, <1>6, <1>7, <1>8, <1>9

-----------------------------------------------------------------------------
(* Handlers that are carried on: the same ones, none a step back.          *)
CarriedOn(h, g) ==
    HandlerState(g) /\ g.button = h.button /\ g.row = h.row /\ g.step >= h.step

Keeps(hs, hs2) ==
    \E F : hs2 = {F[h] : h \in hs} /\ \A h \in hs : CarriedOn(h, F[h])

(* What ends one await or another changes nothing else of a handler.       *)
Eased(h, g) ==
    /\ HandlerState(g)
    /\ g.button = h.button /\ g.row = h.row /\ g.step = h.step /\ g.made = h.made
    /\ g.awaits \subseteq h.awaits

(* An answer, or a fetch that is cancelled, eases handlers and keeps them  *)
(* (Freed, Interrupted).                                                   *)
LEMMA FreedEases ==
    ASSUME NEW s, NEW by, NEW hs, \A h \in hs : HandlerState(h)
    PROVE  \E F : /\ Freed(s, by, hs) = {F[h] : h \in hs}
                  /\ \A h \in hs : /\ Eased(h, F[h])
                                   /\ h.awaits \ {s} \subseteq F[h].awaits
<1> DEFINE F == [h \in hs |-> IF s \in QuerySections \/ Key(h) = by
                              THEN [h EXCEPT !.awaits = @ \ {s}] ELSE h]
<1>1. Freed(s, by, hs) = {F[h] : h \in hs}
  BY DEF Freed
<1>2. ASSUME NEW h \in hs
      PROVE  Eased(h, F[h]) /\ h.awaits \ {s} \subseteq F[h].awaits
  <2>1. h = [button |-> h.button, row |-> h.row, step |-> h.step,
             awaits |-> h.awaits, made |-> h.made]
    BY <1>2 DEF HandlerState
  <2>2. [h EXCEPT !.awaits = @ \ {s}] =
            [button |-> h.button, row |-> h.row, step |-> h.step,
             awaits |-> h.awaits \ {s}, made |-> h.made]
    BY <2>1
  <2>3. F[h] = [h EXCEPT !.awaits = @ \ {s}] \/ F[h] = h
    OBVIOUS
  <2> HIDE DEF F
  <2> QED  BY <1>2, <2>1, <2>2, <2>3 DEF Eased, HandlerState
<1> HIDE DEF F
<1> QED  BY <1>1, <1>2

(* The same of a fetch that starts and cancels others (Interrupted).       *)
LEMMA InterruptedEases ==
    ASSUME NEW ss, NEW hs, \A h \in hs : HandlerState(h)
    PROVE  \E F : /\ Interrupted(ss, hs) = {F[h] : h \in hs}
                  /\ \A h \in hs : /\ Eased(h, F[h])
                                   /\ h.awaits \ Cancels(ss) \subseteq F[h].awaits
<1> DEFINE F == [h \in hs |-> [h EXCEPT !.awaits = @ \ Cancels(ss)]]
<1>1. Interrupted(ss, hs) = {F[h] : h \in hs}
  BY DEF Interrupted
<1>2. ASSUME NEW h \in hs
      PROVE  Eased(h, F[h]) /\ h.awaits \ Cancels(ss) \subseteq F[h].awaits
  <2>1. h = [button |-> h.button, row |-> h.row, step |-> h.step,
             awaits |-> h.awaits, made |-> h.made]
    BY <1>2 DEF HandlerState
  <2>2. [h EXCEPT !.awaits = @ \ Cancels(ss)] =
            [button |-> h.button, row |-> h.row, step |-> h.step,
             awaits |-> h.awaits \ Cancels(ss), made |-> h.made]
    BY <2>1
  <2>3. F[h] = [h EXCEPT !.awaits = @ \ Cancels(ss)]
    OBVIOUS
  <2> HIDE DEF F
  <2> QED  BY <1>2, <2>1, <2>2, <2>3 DEF Eased, HandlerState
<1> HIDE DEF F
<1> QED  BY <1>1, <1>2

(* A step that keeps the handlers and what is busy, and opens no dialog.   *)
LEMMA KeepsDesk ==
    ASSUME DeskInv, Keeps(asked, asked'), desk' \in DeskStates,
           desk'.page = desk.page, desk'.busy = desk.busy,
           desk'.dialog \in {"none", desk.dialog},
           desk'.typed => desk.typed,
           \/ desk'.spent => desk.spent
           \/ /\ ~desk'.typed /\ desk'.dialog # "delete"
              /\ \A g \in asked' : g.button = "delete" => g.step > 0
    PROVE  DeskInv'
<1>1. PICK F : asked' = {F[h] : h \in asked} /\ \A h \in asked : CarriedOn(h, F[h])
  BY DEF Keeps
<1>2. \A g \in asked' : \E h \in asked : g = F[h] /\ CarriedOn(h, g)
  BY <1>1
<1>3. OfThePage'
  BY <1>2 DEF DeskInv, OfThePage, CarriedOn
<1>4. BusyHasHandler'
  BY <1>1 DEF DeskInv, BusyHasHandler, CarriedOn
<1>5. \A g, h \in asked' : g.button = "delete" /\ h.button = "delete" => g = h
  BY <1>2 DEF DeskInv, OneDeletion, CarriedOn
<1>6. \A h \in asked' : h.button = "delete" => <<"delete", NoRow>> \in desk'.busy
  BY <1>2 DEF DeskInv, OneDeletion, CarriedOn
<1>7. desk'.spent => ~desk'.typed /\ desk'.dialog # "delete"
  BY DEF DeskInv, OneDeletion
<1>8. DeletionRetyped'
  <2>1. CASE desk'.spent => desk.spent
    <3>1. \A h \in asked : HandlerState(h)
      BY DEF DeskInv, OfThePage
    <3>2. \A h \in asked, g \in asked' : CarriedOn(h, g) /\ h.step > 0 => g.step > 0
      BY <3>1 DEF CarriedOn, HandlerState
    <3> QED  BY <1>2, <2>1, <3>2 DEF DeskInv, DeletionRetyped, CarriedOn
  <2>2. CASE ~(desk'.spent => desk.spent)
    BY <2>2 DEF DeletionRetyped
  <2> QED  BY <2>1, <2>2
<1> QED  BY <1>3, <1>4, <1>5, <1>6, <1>7, <1>8 DEF DeskInv, OneDeletion

(* A handler that ends enables its button, and no other (Finished,         *)
(* RequestFailed).                                                         *)
LEMMA EndsDesk ==
    ASSUME DeskInv, NEW h \in asked, asked' = asked \ {h}, desk' \in DeskStates,
           desk'.busy = ClearBusy(Buttons[h.button]),
           desk'.page = desk.page, desk'.dialog = desk.dialog,
           desk'.typed = desk.typed, desk'.spent = desk.spent
    PROVE  DeskInv'
<1>1. OfThePage'
  BY DEF DeskInv, OfThePage
<1>2. BusyHasHandler'
  <2>1. ASSUME NEW x \in desk'.busy
        PROVE  \E g \in asked' : Buttons[g.button].flag = x[1]
    <3>1. x \in desk.busy /\ x[1] # Buttons[h.button].flag
      BY <2>1 DEF ClearBusy
    <3>2. PICK g \in asked : Buttons[g.button].flag = x[1]
      BY <3>1 DEF DeskInv, BusyHasHandler
    <3> QED  BY <3>1, <3>2
  <2> QED  BY <2>1 DEF BusyHasHandler
<1>3. ASSUME NEW g \in asked', g.button = "delete"
      PROVE  <<"delete", NoRow>> \in desk'.busy
  <2>1. g \in asked /\ g # h /\ <<"delete", NoRow>> \in desk.busy
    BY <1>3 DEF DeskInv, OneDeletion
  <2>2. h.button # "delete" /\ h.button \in ButtonNames
    BY <1>3, <2>1 DEF DeskInv, OneDeletion, OfThePage, HandlerState
  <2>3. Buttons[h.button].flag # "delete"
    BY <2>2, DeleteTable
  <2> QED  BY <2>1, <2>3 DEF ClearBusy
<1>4. DeletionRetyped'
  BY DEF DeskInv, DeletionRetyped
<1> QED  BY <1>1, <1>2, <1>3, <1>4 DEF DeskInv, OneDeletion

(* The handler of a button that is pressed or confirmed (AskServer).       *)
NewHandler(name, row) ==
    [button |-> name, row |-> row, step |-> 0, awaits |-> {}, made |-> 0]

(* A button that starts a handler: no other button has its flag afterwards *)
(* (PressButton, ConfirmDialog).                                           *)
LEMMA StartsDesk ==
    ASSUME DeskInv, NEW name \in ButtonNames, NEW row \in AnyRow,
           asked' = asked \cup {NewHandler(name, row)}, desk' \in DeskStates,
           Buttons[name].page = desk.page,
           desk'.busy = SetBusy(Buttons[name], row),
           desk'.page = desk.page, desk'.dialog = desk.dialog,
           desk'.typed = desk.typed, desk'.spent = desk.spent,
           name = "delete" =>
               row = NoRow /\ ~desk.spent /\ <<"delete", NoRow>> \notin desk.busy
    PROVE  DeskInv'
<1>1. PICK n : n = NewHandler(name, row)
  OBVIOUS
<1>2. n.button = name /\ n.row = row /\ n.step = 0 /\ HandlerState(n)
  BY <1>1 DEF NewHandler, HandlerState
<1>3. OfThePage'
  BY <1>1, <1>2 DEF DeskInv, OfThePage
<1>4. BusyHasHandler'
  <2>1. ASSUME NEW x \in desk'.busy
        PROVE  \E g \in asked' : Buttons[g.button].flag = x[1]
    <3>1. CASE x = <<Buttons[name].flag, row>>
      BY <1>1, <1>2, <3>1
    <3>2. CASE x \in desk.busy
      BY <3>2 DEF DeskInv, BusyHasHandler
    <3> QED  BY <2>1, <3>1, <3>2 DEF SetBusy
  <2> QED  BY <2>1 DEF BusyHasHandler
<1>5. \A g, h \in asked' : g.button = "delete" /\ h.button = "delete" => g = h
  <2>1. name = "delete" => \A g \in asked : g.button # "delete"
    BY DEF DeskInv, OneDeletion
  <2> QED  BY <1>1, <1>2, <2>1 DEF DeskInv, OneDeletion
<1>6. ASSUME NEW g \in asked', g.button = "delete"
      PROVE  <<"delete", NoRow>> \in desk'.busy
  <2>1. CASE name = "delete"
    BY <2>1, DeleteTable DEF SetBusy
  <2>2. CASE name # "delete"
    <3>1. <<"delete", NoRow>> \in desk.busy
      BY <1>1, <1>2, <1>6, <2>2 DEF DeskInv, OneDeletion
    <3>2. Buttons[name].flag # "delete"
      BY <2>2, DeleteTable
    <3> QED  BY <3>1, <3>2 DEF SetBusy
  <2> QED  BY <2>1, <2>2
<1>7. DeletionRetyped'
  BY <1>1, <1>2 DEF DeskInv, DeletionRetyped
<1> QED  BY <1>3, <1>4, <1>5, <1>6, <1>7 DEF DeskInv, OneDeletion

(* Handlers that are not touched are kept.                                 *)
LEMMA AllKept == DeskInv => Keeps(asked, asked)
<1> SUFFICES ASSUME DeskInv
             PROVE  Keeps(asked, asked)
  OBVIOUS
<1> DEFINE F == [h \in asked |-> h]
<1>1. asked = {F[h] : h \in asked}
  OBVIOUS
<1>2. \A h \in asked : CarriedOn(h, F[h])
  BY DEF DeskInv, OfThePage, CarriedOn, HandlerState
<1> HIDE DEF F
<1> QED  BY <1>1, <1>2 DEF Keeps

(* One handler a step further, or several with fewer awaits, are kept.     *)
LEMMA SomeKept ==
    ASSUME NEW hs, \A h \in hs : HandlerState(h), NEW F,
           \A h \in hs : Eased(h, F[h])
    PROVE  Keeps(hs, {F[h] : h \in hs})
  BY DEF Keeps, Eased, CarriedOn, HandlerState

(* One handler a step further while the others have fewer awaits.          *)
LEMMA OneFurther ==
    ASSUME NEW hs, \A h \in hs : HandlerState(h), NEW k \in hs, NEW g, CarriedOn(k, g),
           NEW rest, \E F : /\ rest = {F[h] : h \in hs \ {k}}
                           /\ \A h \in hs \ {k} : Eased(h, F[h])
    PROVE  Keeps(hs, rest \cup {g})
<1>1. PICK F : /\ rest = {F[h] : h \in hs \ {k}}
               /\ \A h \in hs \ {k} : Eased(h, F[h])
  OBVIOUS
<1> DEFINE G == [h \in hs |-> IF h = k THEN g ELSE F[h]]
<1>2. rest \cup {g} = {G[h] : h \in hs}
  BY <1>1
<1>3. \A h \in hs : CarriedOn(h, G[h])
  BY <1>1 DEF Eased, CarriedOn, HandlerState
<1> HIDE DEF G
<1> QED  BY <1>2, <1>3 DEF Keeps

(* What a page loads, polls and is answered leaves its buttons alone.      *)
LEMMA LoadsDesk ==
    ASSUME DeskInv,
           \/ RefreshPage \/ PollRecentJobs \/ \E c : ServerMoves(c)
           \/ \E s, f, read : ViewAnswered(s, f, read)
           \/ \E s, f : ViewFailed(s, f)
    PROVE  DeskInv'
<1>1. \A h \in asked : HandlerState(h)
  BY DEF DeskInv, OfThePage
<1>2. Keeps(asked, asked')
  <2>1. CASE RefreshPage
    BY <1>1, <2>1, InterruptedEases, SomeKept DEF RefreshPage
  <2>2. CASE PollRecentJobs
    BY <2>2, AllKept DEF PollRecentJobs
  <2>3. CASE \E c : ServerMoves(c)
    BY <2>3, AllKept DEF ServerMoves
  <2>4. ASSUME NEW s, NEW f, \/ \E read : ViewAnswered(s, f, read)
                             \/ ViewFailed(s, f)
        PROVE  Keeps(asked, asked')
    <3>1. asked' = Freed(s, f.by, asked)
      BY <2>4 DEF ViewAnswered, ViewFailed
    <3> QED  BY <1>1, <3>1, FreedEases, SomeKept
  <2> QED  BY <2>1, <2>2, <2>3, <2>4
<1> DEFINE OnlyAlarm ==
             /\ desk' \in DeskStates
             /\ desk'.page = desk.page /\ desk'.busy = desk.busy
             /\ desk'.dialog = desk.dialog /\ desk'.typed = desk.typed
             /\ desk'.spent = desk.spent
<1>3. OnlyAlarm
  <2>1. desk \in DeskStates
    BY DEF DeskInv
  <2>2. ASSUME NEW a \in BOOLEAN, desk' = [desk EXCEPT !.alarm = a]
        PROVE  OnlyAlarm
    BY <2>1, <2>2 DEF DeskStates
  <2>3. CASE desk' = desk
    BY <2>1, <2>3
  <2>4. desk.alarm \in BOOLEAN
    BY <2>1 DEF DeskStates
  <2>5. CASE \E s, f, read : ViewAnswered(s, f, read)
    <3>1. PICK s, f, read : ViewAnswered(s, f, read)
      BY <2>5
    <3>2. desk' = [desk EXCEPT !.alarm = (desk.alarm /\ s \in QuerySections)]
      BY <3>1 DEF ViewAnswered
    <3> QED  BY <2>2, <2>4, <3>2
  <2>6. CASE \E s, f : ViewFailed(s, f)
    <3>1. PICK s, f : ViewFailed(s, f)
      BY <2>6
    <3>2. desk' = [desk EXCEPT !.alarm = (desk.alarm \/ (s \notin QuerySections /\
                                            desk.page \in HidesControls))]
      BY <3>1 DEF ViewFailed
    <3> QED  BY <2>2, <2>4, <3>2
  <2> QED  BY <2>3, <2>5, <2>6 DEF RefreshPage, PollRecentJobs, ServerMoves
<1> QED  BY <1>2, <1>3, KeepsDesk

(* A button opens its dialog, or starts its handler (PressButton).         *)
LEMMA PressKeepsDesk ==
    ASSUME DeskInv, NEW name \in ButtonNames, NEW row \in AnyRow, PressButton(name, row)
    PROVE  DeskInv'
<1> DEFINE b == Buttons[name]
<1>1. desk \in DeskStates
  BY DEF DeskInv
<1>2. b.page = desk.page
  BY DEF PressButton, Available
<1>3. CASE b.dialog
  <2>1. desk' = [desk EXCEPT !.dialog = name,
                             !.typed = (desk.typed /\ b.phrase # "inside")]
    BY <1>3 DEF PressButton
  <2>2. /\ desk' \in DeskStates
        /\ desk'.page = desk.page /\ desk'.busy = desk.busy /\ desk'.spent = desk.spent
        /\ desk'.dialog = name /\ (desk'.typed => desk.typed)
    BY <1>1, <2>1 DEF DeskStates
  <2>3. asked' = asked
    BY <1>3 DEF PressButton
  <2>4. name = "delete" => ~desk.spent
    BY DeleteTable DEF PressButton, DeskInv, OneDeletion
  <2> HIDE DEF b
  <2>5. OfThePage'
    BY <1>2, <2>2, <2>3 DEF DeskInv, OfThePage, b
  <2>6. BusyHasHandler' /\ DeletionRetyped'
    BY <2>2, <2>3 DEF DeskInv, BusyHasHandler, DeletionRetyped
  <2>7. OneDeletion'
    BY <2>2, <2>3, <2>4 DEF DeskInv, OneDeletion
  <2> QED  BY <2>2, <2>5, <2>6, <2>7 DEF DeskInv
<1>4. CASE ~b.dialog
  <2>1. /\ desk' = [desk EXCEPT !.busy = SetBusy(b, row), !.alarm = FALSE]
        /\ asked' = asked \cup {NewHandler(name, row)}
    BY <1>4 DEF PressButton, AskServer, NewHandler
  <2>2. name # "delete"
    BY <1>4, DeleteTable
  <2>3. SetBusy(b, row) \in SUBSET (Flags \X AnyRow)
    BY <1>1 DEF SetBusy, DeskStates, Flags
  <2> HIDE DEF b
  <2>4. /\ desk' \in DeskStates
        /\ desk'.busy = SetBusy(b, row)
        /\ desk'.page = desk.page /\ desk'.dialog = desk.dialog
        /\ desk'.typed = desk.typed /\ desk'.spent = desk.spent
    BY <1>1, <2>1, <2>3 DEF DeskStates
  <2> QED  BY <1>2, <2>1, <2>2, <2>4, StartsDesk DEF b
<1> QED  BY <1>3, <1>4

(* A dialog is confirmed: its handler starts (ConfirmDialog).              *)
LEMMA ConfirmKeepsDesk ==
    ASSUME DeskInv, ConfirmDialog
    PROVE  DeskInv'
<1> DEFINE name == desk.dialog
           b == Buttons[name]
<1>1. desk \in DeskStates
  BY DEF DeskInv
<1>2. name \in ButtonNames /\ b.page = desk.page
  BY <1>1 DEF ConfirmDialog, DeskInv, OfThePage, DeskStates
<1>3. NoRow \in AnyRow
  BY DEF AnyRow
<1>4. /\ desk' = [desk EXCEPT !.busy = SetBusy(b, NoRow)]
      /\ asked' = asked \cup {NewHandler(name, NoRow)}
  BY DEF ConfirmDialog, AskServer, NewHandler
<1>5. name = "delete" => ~desk.spent /\ <<"delete", NoRow>> \notin desk.busy
  BY DeleteTable DEF ConfirmDialog, Busy, DeskInv, OneDeletion
<1>6. SetBusy(b, NoRow) \in SUBSET (Flags \X AnyRow)
  BY <1>1, <1>2, <1>3 DEF SetBusy, DeskStates, Flags
<1> HIDE DEF b
<1>7. /\ desk' \in DeskStates
      /\ desk'.busy = SetBusy(b, NoRow)
      /\ desk'.page = desk.page /\ desk'.dialog = desk.dialog
      /\ desk'.typed = desk.typed /\ desk'.spent = desk.spent
  BY <1>1, <1>4, <1>6 DEF DeskStates
<1> QED  BY <1>2, <1>3, <1>4, <1>5, <1>7, StartsDesk DEF b

(* Typing a phrase, and leaving a dialog (TypePhrase, CancelDialog).       *)
LEMMA TypeKeepsDesk ==
    ASSUME DeskInv, TypePhrase \/ CancelDialog
    PROVE  DeskInv'
<1>1. desk \in DeskStates
  BY DEF DeskInv
<1>2. CASE CancelDialog
  <2>1. /\ desk' = [desk EXCEPT !.dialog = "none",
                     !.typed = (desk.typed /\ Buttons[desk.dialog].phrase # "inside")]
        /\ asked' = asked
    BY <1>2 DEF CancelDialog
  <2>2. /\ desk' \in DeskStates
        /\ desk'.page = desk.page /\ desk'.busy = desk.busy /\ desk'.spent = desk.spent
        /\ desk'.dialog = "none" /\ (desk'.typed => desk.typed)
    BY <1>1, <2>1 DEF DeskStates
  <2> QED  BY <2>1, <2>2, AllKept, KeepsDesk
<1>3. CASE TypePhrase
  <2>1. desk' = [desk EXCEPT !.typed = ~desk.typed, !.spent = FALSE] /\ asked' = asked
    BY <1>3 DEF TypePhrase
  <2>2. /\ desk' \in DeskStates /\ ~desk'.spent
        /\ desk'.page = desk.page /\ desk'.busy = desk.busy
        /\ desk'.dialog = desk.dialog
    BY <1>1, <2>1 DEF DeskStates
  <2>3. OfThePage' /\ BusyHasHandler'
    BY <2>1, <2>2 DEF DeskInv, OfThePage, BusyHasHandler
  <2>4. OneDeletion' /\ DeletionRetyped'
    BY <2>1, <2>2 DEF DeskInv, OneDeletion, DeletionRetyped
  <2> QED  BY <2>2, <2>3, <2>4 DEF DeskInv
<1> QED  BY <1>2, <1>3

(* The answer to a request: its handler goes on, its dialog closes and     *)
(* what was typed for it is gone (RequestDone).                            *)
LEMMA DoneKeepsDesk ==
    ASSUME DeskInv, NEW h \in asked, RequestDone(h), Len(past') \in Nat
    PROVE  DeskInv'
<1> DEFINE b == Buttons[h.button]
<1>1. desk \in DeskStates /\ \A k \in asked : HandlerState(k)
  BY DEF DeskInv, OfThePage
<1>2. desk' = [desk EXCEPT !.dialog = IF b.dialog THEN "none" ELSE desk.dialog,
                           !.typed = (desk.typed /\ b.phrase = "none"),
                           !.spent = (desk.spent \/ h.button = "delete")]
  BY DEF RequestDone
<1>3. b = Buttons[h.button]
  OBVIOUS
<1> HIDE DEF b
<1>4. /\ desk' \in DeskStates
      /\ desk'.page = desk.page /\ desk'.busy = desk.busy
      /\ desk'.dialog \in {"none", desk.dialog}
      /\ b.dialog => desk'.dialog = "none"
      /\ desk'.typed => desk.typed /\ b.phrase = "none"
      /\ desk'.spent => desk.spent \/ h.button = "delete"
  BY <1>1, <1>2 DEF DeskStates
<1>5. PICK g : g = [h EXCEPT !.step = 1, !.made = Len(past')]
  OBVIOUS
<1>6. asked' = (asked \ {h}) \cup {g}
  BY <1>5 DEF RequestDone
<1>7. CarriedOn(h, g) /\ g.step = 1
  <2>1. /\ HandlerState(h)
        /\ h = [button |-> h.button, row |-> h.row, step |-> h.step,
                awaits |-> h.awaits, made |-> h.made]
    BY <1>1 DEF HandlerState
  <2>2. g = [button |-> h.button, row |-> h.row, step |-> 1,
             awaits |-> h.awaits, made |-> Len(past')]
    BY <1>5, <2>1
  <2>3. h.step = 0
    BY DEF RequestDone
  <2> QED  BY <2>1, <2>2, <2>3 DEF CarriedOn, HandlerState
<1>8. Keeps(asked, asked')
  <2> DEFINE F == [k \in asked |-> k]
  <2>1. \A k \in asked \ {h} : Eased(k, F[k])
    BY <1>1 DEF Eased
  <2>2. {F[k] : k \in asked \ {h}} = asked \ {h}
    OBVIOUS
  <2> HIDE DEF F
  <2>3. \E E : /\ asked \ {h} = {E[k] : k \in asked \ {h}}
               /\ \A k \in asked \ {h} : Eased(k, E[k])
    BY <2>1, <2>2
  <2>4. Keeps(asked, (asked \ {h}) \cup {g})
    BY <1>1, <1>7, <2>3, OneFurther
  <2> QED  BY <1>6, <2>4
<1>9. CASE h.button = "delete"
  <2>1. ~desk'.typed /\ desk'.dialog # "delete"
    BY <1>3, <1>4, <1>9, DeleteTable
  <2>2. \A k \in asked' : k.button = "delete" => k.step > 0
    BY <1>6, <1>7, <1>9 DEF DeskInv, OneDeletion
  <2> QED  BY <1>4, <1>8, <2>1, <2>2, KeepsDesk
<1>10. CASE h.button # "delete"
  BY <1>4, <1>8, <1>10, KeepsDesk
<1> QED  BY <1>9, <1>10

(* A request that fails ends its handler (RequestFailed).                  *)
LEMMA FailedKeepsDesk ==
    ASSUME DeskInv, NEW h \in asked, NEW carried, RequestFailed(h, carried)
    PROVE  DeskInv'
<1> DEFINE b == Buttons[h.button]
           a == desk.alarm \/ (b.inside /\ b.page \in HidesControls \ {"backups"})
<1>1. desk \in DeskStates
  BY DEF DeskInv
<1>2. desk' = [desk EXCEPT !.busy = ClearBusy(b), !.alarm = a] /\ asked' = asked \ {h}
  BY DEF RequestFailed
<1>3. ClearBusy(b) \in SUBSET (Flags \X AnyRow)
  BY <1>1 DEF ClearBusy, DeskStates
<1>4. a \in BOOLEAN
  OBVIOUS
<1> HIDE DEF a, b
<1>5. /\ desk' \in DeskStates
      /\ desk'.busy = ClearBusy(b)
      /\ desk'.page = desk.page /\ desk'.dialog = desk.dialog
      /\ desk'.typed = desk.typed /\ desk'.spent = desk.spent
  BY <1>1, <1>2, <1>3, <1>4 DEF DeskStates
<1> QED  BY <1>2, <1>5, EndsDesk DEF b

(* A handler starts its next fetches, or ends (HandlerContinues).          *)
LEMMA ContinuesKeepsDesk ==
    ASSUME DeskInv, NEW h \in asked, HandlerContinues(h)
    PROVE  DeskInv'
<1> DEFINE b == Buttons[h.button]
<1>1. desk \in DeskStates /\ \A k \in asked : HandlerState(k)
  BY DEF DeskInv, OfThePage
<1>2. CASE h.step > Len(b.reload)
  <2>1. desk' = [desk EXCEPT !.busy = ClearBusy(b)] /\ asked' = asked \ {h}
    BY <1>2 DEF HandlerContinues, Finished
  <2>2. ClearBusy(b) \in SUBSET (Flags \X AnyRow)
    BY <1>1 DEF ClearBusy, DeskStates
  <2> HIDE DEF b
  <2>3. /\ desk' \in DeskStates
        /\ desk'.busy = ClearBusy(b)
        /\ desk'.page = desk.page /\ desk'.dialog = desk.dialog
        /\ desk'.typed = desk.typed /\ desk'.spent = desk.spent
    BY <1>1, <2>1, <2>2 DEF DeskStates
  <2> QED  BY <2>1, <2>3, EndsDesk DEF b
<1>3. CASE ~(h.step > Len(b.reload))
  <2>1. PICK g : g = [h EXCEPT !.step = h.step + 1, !.awaits = b.reload[h.step]]
    OBVIOUS
  <2>2. /\ asked' = Interrupted(b.reload[h.step], asked \ {h}) \cup {g}
        /\ desk' = desk
    BY <1>3, <2>1 DEF HandlerContinues
  <2>3. CarriedOn(h, g)
    <3>1. /\ HandlerState(h)
          /\ h = [button |-> h.button, row |-> h.row, step |-> h.step,
                  awaits |-> h.awaits, made |-> h.made]
      BY <1>1 DEF HandlerState
    <3>2. g = [button |-> h.button, row |-> h.row, step |-> h.step + 1,
               awaits |-> b.reload[h.step], made |-> h.made]
      BY <2>1, <3>1
    <3> HIDE DEF b
    <3> QED  BY <3>1, <3>2 DEF CarriedOn, HandlerState
  <2>4. \A k \in asked \ {h} : HandlerState(k)
    BY <1>1
  <2>5. \E F : /\ Interrupted(b.reload[h.step], asked \ {h}) = {F[k] : k \in asked \ {h}}
               /\ \A k \in asked \ {h} : Eased(k, F[k])
    BY <2>4, InterruptedEases
  <2>6. Keeps(asked, Interrupted(b.reload[h.step], asked \ {h}) \cup {g})
    BY <1>1, <2>3, <2>5, OneFurther
  <2>7. Keeps(asked, asked')
    BY <2>2, <2>6
  <2> QED  BY <1>1, <2>2, <2>7, KeepsDesk
<1> QED  BY <1>2, <1>3

(* A page opens with nothing asked (OpenPage).                             *)
LEMMA OpenKeepsDesk ==
    ASSUME DeskInv, NEW page \in Pages, NEW admin \in BOOLEAN, NEW c,
           OpenPage(page, admin, c)
    PROVE  DeskInv' /\ asked = {} /\ asked' = {}
<1>1. asked = {}
  BY ButtonsAreSound, NoneIsNone
     DEF OpenPage, DeskInv, OfThePage, HandlerState, ButtonFacts
<1>2. desk' = [page |-> page, admin |-> admin, dialog |-> "none", typed |-> FALSE,
               busy |-> {}, alarm |-> FALSE, spent |-> FALSE]
  BY DEF OpenPage, ClosedDesk
<1>3. desk' \in DeskStates
  BY <1>2 DEF DeskStates
<1>4. asked' = {}
  BY <1>1 DEF OpenPage
<1> QED  BY <1>1, <1>2, <1>3, <1>4
            DEF DeskInv, OfThePage, BusyHasHandler, OneDeletion, DeletionRetyped

-----------------------------------------------------------------------------
(***************************************************************************)
(* What the sections of a page show.                                       *)
(***************************************************************************)
Starters == (ButtonNames \cup {"page"}) \X AnyRow

(* A section asked for is kept in order; if an older fetch cannot join,    *)
(* what it shows, or is about to, is as new as the request (Started).      *)
LEMMA StartedView ==
    ASSUME NEW s, NEW v \in SectionViews, NEW by \in Starters, Now \in Nat \ {0},
           Ordered(s, v)
    PROVE  /\ Started(s, v, by) \in SectionViews /\ Ordered(s, Started(s, v, by))
           /\ Started(s, v, by).read = v.read
           /\ s \in QuerySections => \A m \in Nat : m <= Now =>
                 /\ Refetchable(v, m) => /\ Refetchable(Started(s, v, by), m)
                                         /\ ShowsSince(Started(s, v, by), m)
                 /\ ShowsSince(v, m) => ShowsSince(Started(s, v, by), m)
<1>1. PICK w : w = Started(s, v, by)
  OBVIOUS
<1>2. PICK new : new = [since |-> Now, by |-> by]
  OBVIOUS
<1>3. new \in Fetches /\ new.since = Now
  BY <1>2 DEF Fetches, Starters
<1>4. PICK X : /\ w = [read |-> v.read, failed |-> v.failed,
                       loading |-> s \in ShowsLoading, fetches |-> X]
               /\ X = IF s \notin QuerySections THEN v.fetches \cup {new}
                      ELSE IF v.read = 0 /\ v.fetches # {} THEN v.fetches ELSE {new}
  BY <1>1, <1>2 DEF Started, SectionViews
<1>5. /\ s \notin QuerySections => X = v.fetches \cup {new}
      /\ s \in QuerySections /\ v.read = 0 /\ v.fetches # {} => X = v.fetches
      /\ s \in QuerySections /\ ~(v.read = 0 /\ v.fetches # {}) => X = {new}
  BY <1>4
<1>6. /\ v.read \in Nat /\ v.failed \in BOOLEAN /\ v.fetches \subseteq Fetches
      /\ \A f \in v.fetches : f.since \in Nat
  BY DEF SectionViews, Fetches
<1>7. w \in SectionViews
  <2>1. X \subseteq Fetches
    BY <1>3, <1>5, <1>6
  <2> QED  BY <1>4, <1>6, <2>1 DEF SectionViews
<1>8. w.read = v.read /\ w.failed = v.failed /\ w.fetches = X
  BY <1>4
<1>9. Ordered(s, w)
  BY <1>3, <1>5, <1>6, <1>8 DEF Ordered
<1>10. ASSUME s \in QuerySections, NEW m \in Nat, m <= Now
       PROVE  /\ Refetchable(v, m) => Refetchable(w, m) /\ ShowsSince(w, m)
              /\ ShowsSince(v, m) => ShowsSince(w, m)
  BY <1>3, <1>5, <1>6, <1>8, <1>10 DEF Refetchable, ShowsSince
<1> QED  BY <1>1, <1>7, <1>8, <1>9, <1>10

(* A section after an answer or a failure: nothing older can come, and a   *)
(* state that was shown, or about to be, still is.                         *)
SettledView(v, f, read, failed) ==
    [v EXCEPT !.read = read, !.failed = failed, !.loading = FALSE,
              !.fetches = v.fetches \ {f}]

Settles(s, v, w) ==
    /\ w \in SectionViews /\ Ordered(s, w)
    /\ s \in QuerySections => \A m \in Nat :
          Refetchable(w, m) /\ (ShowsSince(v, m) => ShowsSince(w, m))

(* An answer is no older than its fetch, and the query client has one      *)
(* fetch of a section (ViewAnswered, ViewFailed).                          *)
LEMMA SettledSettles ==
    ASSUME NEW s, NEW v \in SectionViews, NEW f \in v.fetches, NEW read \in Nat,
           NEW failed \in BOOLEAN, Now \in Nat, Ordered(s, v),
           \/ f.since <= read /\ read <= Now
           \/ read = v.read /\ failed
    PROVE  Settles(s, v, SettledView(v, f, read, failed))
<1>1. PICK w : w = SettledView(v, f, read, failed)
  OBVIOUS
<1>2. w = [read |-> read, failed |-> failed, loading |-> FALSE,
           fetches |-> v.fetches \ {f}]
  BY <1>1 DEF SettledView, SectionViews
<1>3. /\ v.read \in Nat /\ v.fetches \subseteq Fetches
      /\ \A g \in v.fetches : g.since \in Nat \ {0}
  BY DEF SectionViews, Fetches
<1>4. w \in SectionViews
  BY <1>2, <1>3 DEF SectionViews
<1>5. w.read = read /\ w.failed = failed /\ w.fetches = v.fetches \ {f}
  BY <1>2
<1>6. /\ s \in QuerySections => w.fetches = {} /\ v.read <= read
      /\ s \in QuerySections => read > 0 \/ failed
      /\ read <= Now
  BY <1>3, <1>5 DEF Ordered
<1>7. Ordered(s, w)
  BY <1>3, <1>5, <1>6 DEF Ordered
<1>8. ASSUME s \in QuerySections, NEW m \in Nat
      PROVE  Refetchable(w, m) /\ (ShowsSince(v, m) => ShowsSince(w, m))
  BY <1>3, <1>5, <1>6, <1>8 DEF Refetchable, ShowsSince
<1> QED  BY <1>1, <1>4, <1>7, <1>8 DEF Settles

(* What the section shows is not lost by the step.                         *)
Forwards(v, w, m) ==
    /\ Refetchable(v, m) => Refetchable(w, m)
    /\ ShowsSince(v, m) => ShowsSince(w, m)

(* Fetches and what is shown stay in order as the server goes on.          *)
LEMMA StillOrdered ==
    ASSUME Now \in Nat, Now' \in Nat, Now <= Now', NEW s, NEW v \in SectionViews,
           Ordered(s, v)
    PROVE  Ordered(s, v)'
<1>1. v.read \in Nat /\ \A f \in v.fetches : f.since \in Nat
  BY DEF SectionViews, Fetches
<1> QED  BY <1>1 DEF Ordered

(* While a page is open there is a state of the server, and a view of each *)
(* section it loads.                                                       *)
LEMMA OpenPageViews ==
    ASSUME PageInv, desk.page # NoPage
    PROVE  /\ Now \in Nat \ {0}
           /\ \A s \in DOMAIN views : views[s] \in SectionViews
           /\ DOMAIN views = Loads[desk.page]
<1>1. Now \in Nat \ {0}
  BY DEF PageInv, ViewsTyped, Now
<1>2. views \in [Loads[desk.page] -> SectionViews]
  BY DEF PageInv, ViewsTyped
<1> QED  BY <1>1, <1>2

(* Several sections are asked for at once (StartAll).                      *)
LEMMA StartAllKeeps ==
    ASSUME PageInv, desk.page # NoPage, NEW ss, NEW by \in Starters,
           views' = StartAll(ss, by), past' = past, desk'.page = desk.page
    PROVE  /\ ViewsTyped' /\ (\A s \in DOMAIN views : Ordered(s, views[s]))'
           /\ DOMAIN views' = DOMAIN views
           /\ \A s \in DOMAIN views : views'[s].read = views[s].read
           /\ \A s \in DOMAIN views \cap QuerySections : \A m \in Nat : m <= Now =>
                 /\ Forwards(views[s], views'[s], m)
                 /\ s \in ss /\ Refetchable(views[s], m) => ShowsSince(views'[s], m)
<1>1. /\ Now \in Nat \ {0} /\ Now' = Now
      /\ \A s \in DOMAIN views : views[s] \in SectionViews
      /\ DOMAIN views = Loads[desk.page]
  BY OpenPageViews DEF Now
<1>2. /\ DOMAIN views' = DOMAIN views
      /\ \A s \in DOMAIN views :
            views'[s] = IF s \in ss THEN Started(s, views[s], by) ELSE views[s]
  BY DEF StartAll
<1>3. ASSUME NEW s \in DOMAIN views
      PROVE  /\ views'[s] \in SectionViews /\ Ordered(s, views'[s])
             /\ views'[s].read = views[s].read
             /\ s \in QuerySections => \A m \in Nat : m <= Now =>
                   /\ Forwards(views[s], views'[s], m)
                   /\ s \in ss /\ Refetchable(views[s], m) => ShowsSince(views'[s], m)
  <2>1. views[s] \in SectionViews /\ Ordered(s, views[s])
    BY <1>1 DEF PageInv, ReloadInv
  <2>2. CASE s \notin ss
    BY <1>2, <2>1, <2>2 DEF Forwards
  <2>3. CASE s \in ss
    <3>1. PICK v : v = views[s]
      OBVIOUS
    <3>2. PICK w : w = Started(s, v, by)
      OBVIOUS
    <3>3. views'[s] = w
      BY <1>2, <2>3, <3>1, <3>2
    <3>4. /\ w \in SectionViews /\ Ordered(s, w) /\ w.read = v.read
          /\ s \in QuerySections => \A m \in Nat : m <= Now =>
                /\ Refetchable(v, m) => Refetchable(w, m) /\ ShowsSince(w, m)
                /\ ShowsSince(v, m) => ShowsSince(w, m)
      BY <1>1, <2>1, <3>1, <3>2, StartedView
    <3> QED  BY <3>1, <3>3, <3>4 DEF Forwards
  <2> QED  BY <2>2, <2>3
<1>4. (\A s \in DOMAIN views : Ordered(s, views[s]))'
  BY <1>1, <1>2, <1>3 DEF Ordered
<1>5. ViewsTyped'
  <2>1. views' \in [Loads[desk.page] -> SectionViews]
    BY <1>1, <1>3 DEF StartAll
  <2>2. past \in Seq(TenantStates) /\ Len(past) > 0
    BY <1>1 DEF PageInv, ViewsTyped, Now
  <2>3. past' \in Seq(TenantStates) /\ Len(past') > 0
    BY <2>2
  <2>4. views' \in [Loads[desk'.page] -> SectionViews]
    BY <2>1
  <2> QED  BY <2>3, <2>4 DEF ViewsTyped
<1> QED  BY <1>2, <1>3, <1>4, <1>5

(* A handler keeps what it may count on, as long as no section it reloads  *)
(* loses what it shows and no await ends without an answer.                *)
LEMMA ReloadsForwards ==
    ASSUME NEW h, NEW g, Eased(h, g), NEW s, NEW v, NEW w, Forwards(v, w, h.made),
           s \in h.awaits => s \in g.awaits \/ Refetchable(w, h.made),
           Reloads(h, s, v)
    PROVE  Reloads(g, s, w)
  BY DEF Reloads, Eased, Forwards

(* The same for all the sections of the page.                              *)
LEMMA ReloadsKept ==
    ASSUME PageInv, Now \in Nat, Now' \in Nat, Now <= Now', DOMAIN views' = DOMAIN views,
           NEW h \in asked, NEW g, Eased(h, g),
           \A s \in DOMAIN views \cap QuerySections :
               /\ Forwards(views[s], views'[s], h.made)
               /\ s \in h.awaits => s \in g.awaits \/ Refetchable(views'[s], h.made)
    PROVE  HandlerReloads(g)'
<1>1. HandlerReloads(h) /\ h.made \in Nat
  BY DEF PageInv, ReloadInv, DeskInv, OfThePage, HandlerState
<1>2. \A s \in DOMAIN views \cap QuerySections : Reloads(g, s, views'[s])
  BY <1>1, ReloadsForwards DEF HandlerReloads
<1>3. /\ g.step <= Len(Buttons[g.button].reload) + 1
      /\ g.made <= Now'
      /\ g.step = 0 => g.awaits = {}
  BY <1>1 DEF HandlerReloads, Eased
<1> QED  BY <1>2, <1>3 DEF HandlerReloads

(* While the page is idle no answer has just been shown.                   *)
LEMMA IdleAnswers ==
    ASSUME PageInv, Idle, NEW h \in asked, NEW g, Eased(h, g)
    PROVE  AnswerShown(g)'
<1>1. AnswerShown(h) /\ ~(h.step > 0 /\ h.awaits = {})
  BY DEF PageInv, ReloadInv, Idle, Resumable
<1> QED  BY <1>1 DEF AnswerShown, Eased

(* Handlers that are eased while the page is idle.                         *)
LEMMA EasedReloads ==
    ASSUME PageInv, Idle, Now \in Nat, Now' \in Nat, Now <= Now',
           DOMAIN views' = DOMAIN views,
           (\A s \in DOMAIN views : Ordered(s, views[s]))',
           NEW F, asked' = {F[h] : h \in asked}, \A h \in asked : Eased(h, F[h]),
           \A h \in asked : \A s \in DOMAIN views \cap QuerySections :
               /\ Forwards(views[s], views'[s], h.made)
               /\ s \in h.awaits => s \in F[h].awaits \/ Refetchable(views'[s], h.made)
    PROVE  ReloadInv'
<1>1. ASSUME NEW g \in asked'
      PROVE  HandlerReloads(g)' /\ AnswerShown(g)'
  <2>1. PICK h \in asked : g = F[h]
    BY <1>1
  <2>2. /\ Eased(h, g)
        /\ \A s \in DOMAIN views \cap QuerySections :
               /\ Forwards(views[s], views'[s], h.made)
               /\ s \in h.awaits => s \in g.awaits \/ Refetchable(views'[s], h.made)
    BY <2>1
  <2>3. HandlerReloads(g)'
    BY <2>2, ReloadsKept
  <2>4. AnswerShown(g)'
    BY <2>2, IdleAnswers
  <2> QED  BY <2>3, <2>4
<1> QED  BY <1>1 DEF ReloadInv

(* A handler remembers a state the server has been in.                     *)
LEMMA MadeStates ==
    ASSUME PageInv, NEW h \in asked
    PROVE  /\ HandlerState(h) /\ h.made \in Nat /\ h.step \in Nat
           /\ Now \in Nat => h.made <= Now
  BY DEF PageInv, DeskInv, OfThePage, HandlerState, ReloadInv, HandlerReloads

(* The page is refreshed, or polls (RefreshPage, PollRecentJobs).          *)
LEMMA RefreshKeepsReloads ==
    ASSUME PageInv, RefreshPage \/ PollRecentJobs
    PROVE  ViewsTyped' /\ ReloadInv'
<1>1. Idle /\ desk.page # NoPage /\ desk' = desk /\ past' = past
  BY DEF RefreshPage, PollRecentJobs, Idle
<1>2. ByPage \in Starters
  BY DEF ByPage, Starters, AnyRow
<1>3. /\ Now \in Nat \ {0} /\ Now' = Now
      /\ \A s \in DOMAIN views : views[s] \in SectionViews
  BY <1>1, OpenPageViews DEF Now
<1>4. ASSUME NEW ss, views' = StartAll(ss, ByPage),
             NEW F, asked' = {F[h] : h \in asked},
             \A h \in asked :
                 Eased(h, F[h]) /\ h.awaits \ Cancels(ss) \subseteq F[h].awaits
      PROVE  ViewsTyped' /\ ReloadInv'
  <2>1. /\ ViewsTyped' /\ (\A s \in DOMAIN views : Ordered(s, views[s]))'
        /\ DOMAIN views' = DOMAIN views
        /\ \A s \in DOMAIN views : views'[s].read = views[s].read
        /\ \A s \in DOMAIN views \cap QuerySections : \A m \in Nat : m <= Now =>
              Forwards(views[s], views'[s], m)
    BY <1>1, <1>2, <1>4, StartAllKeeps
  <2>2. ASSUME NEW h \in asked, NEW s \in DOMAIN views \cap QuerySections
        PROVE  /\ Forwards(views[s], views'[s], h.made)
               /\ s \in h.awaits => s \in F[h].awaits \/ Refetchable(views'[s], h.made)
    <3>1. Forwards(views[s], views'[s], h.made)
      BY <1>3, <2>1, MadeStates
    <3>2. s \in Cancels(ss) => views'[s].read > 0
      BY <2>1 DEF Cancels
    <3> QED  BY <1>4, <3>1, <3>2 DEF Refetchable
  <2>3. ReloadInv'
    BY <1>1, <1>3, <1>4, <2>1, <2>2, EasedReloads
  <2> QED  BY <2>1, <2>3
<1>5. \A h \in asked : HandlerState(h)
  BY MadeStates
<1>6. CASE RefreshPage
  <2>1. PICK ss : ss = Refreshes[desk.page]
    OBVIOUS
  <2>2. views' = StartAll(ss, ByPage) /\ asked' = Interrupted(ss, asked)
    BY <1>6, <2>1 DEF RefreshPage
  <2>3. PICK F : /\ Interrupted(ss, asked) = {F[h] : h \in asked}
                 /\ \A h \in asked :
                       Eased(h, F[h]) /\ h.awaits \ Cancels(ss) \subseteq F[h].awaits
    BY <1>5, InterruptedEases
  <2> QED  BY <1>4, <2>2, <2>3
<1>7. CASE PollRecentJobs
  <2> DEFINE F == [h \in asked |-> h]
  <2>1. views' = StartAll({"jobs"}, ByPage) /\ asked' = asked
    BY <1>7 DEF PollRecentJobs
  <2>2. asked = {F[h] : h \in asked}
    OBVIOUS
  <2>3. \A h \in asked : Eased(h, F[h]) /\ h.awaits \subseteq F[h].awaits
    BY <1>5 DEF Eased, HandlerState
  <2> HIDE DEF F
  <2> QED  BY <1>4, <2>1, <2>2, <2>3
<1> QED  BY <1>6, <1>7

(* A section is answered, or its fetch fails (ViewAnswered, ViewFailed).   *)
LEMMA AnswerKeepsReloads ==
    ASSUME PageInv, Idle, NEW s \in DOMAIN views, NEW f \in views[s].fetches,
           (\E read \in 1 .. MaxPast : ViewAnswered(s, f, read)) \/ ViewFailed(s, f),
           desk'.page = desk.page
    PROVE  ViewsTyped' /\ ReloadInv'
<1>1. /\ Now \in Nat \ {0} /\ Now' = Now /\ past' = past
      /\ \A o \in DOMAIN views : views[o] \in SectionViews
      /\ DOMAIN views = Loads[desk.page]
  BY OpenPageViews DEF Idle, Now, ViewAnswered, ViewFailed
<1>2. PICK v : v = views[s]
  OBVIOUS
<1>3. v \in SectionViews /\ Ordered(s, v) /\ f \in v.fetches
  BY <1>1, <1>2 DEF PageInv, ReloadInv
<1>4. PICK w : views' = [views EXCEPT ![s] = w] /\ Settles(s, v, w)
  <2>1. CASE \E read \in 1 .. MaxPast : ViewAnswered(s, f, read)
    <3>1. PICK read \in 1 .. MaxPast : ViewAnswered(s, f, read)
      BY <2>1
    <3>2. views' = [views EXCEPT ![s] = SettledView(v, f, read, FALSE)]
      BY <1>2, <3>1 DEF ViewAnswered, SettledView
    <3>3. read \in Nat
      BY <3>1
    <3>4. f.since <= read /\ read <= Now
      BY <3>1, Zenon DEF ViewAnswered
    <3>5. Settles(s, v, SettledView(v, f, read, FALSE))
      BY <1>1, <1>3, <3>3, <3>4, SettledSettles
    <3> QED  BY <3>2, <3>5
  <2>2. CASE ViewFailed(s, f)
    <3>1. v.read \in Nat
      BY <1>3 DEF SectionViews
    <3>2. views' = [views EXCEPT ![s] = SettledView(v, f, v.read, TRUE)]
      BY <1>2, <1>3, <2>2 DEF ViewFailed, SettledView, SectionViews
    <3>3. Settles(s, v, SettledView(v, f, v.read, TRUE))
      BY <1>1, <1>3, <3>1, SettledSettles
    <3> QED  BY <3>2, <3>3
  <2> QED  BY <2>1, <2>2
<1>5. /\ DOMAIN views' = DOMAIN views
      /\ \A o \in DOMAIN views : views'[o] = IF o = s THEN w ELSE views[o]
  BY <1>4
<1>6. (\A o \in DOMAIN views : Ordered(o, views[o]))'
  BY <1>1, <1>4, <1>5 DEF PageInv, ReloadInv, Ordered, Settles
<1>7. ViewsTyped'
  <2>1. views' \in [Loads[desk.page] -> SectionViews]
    BY <1>1, <1>4 DEF PageInv, ViewsTyped, Idle, Settles
  <2>2. past' \in Seq(TenantStates) /\ Len(past') > 0
    BY <1>1 DEF PageInv, ViewsTyped, Now
  <2> QED  BY <2>1, <2>2 DEF ViewsTyped
<1>8. asked' = Freed(s, f.by, asked)
  BY DEF ViewAnswered, ViewFailed
<1>9. PICK F : /\ Freed(s, f.by, asked) = {F[h] : h \in asked}
               /\ \A h \in asked : Eased(h, F[h]) /\ h.awaits \ {s} \subseteq F[h].awaits
  BY FreedEases, MadeStates
<1>10. ASSUME NEW h \in asked, NEW o \in DOMAIN views \cap QuerySections
       PROVE  /\ Forwards(views[o], views'[o], h.made)
              /\ o \in h.awaits => o \in F[h].awaits \/ Refetchable(views'[o], h.made)
  <2>1. CASE o = s
    BY <1>2, <1>4, <1>5, <2>1, MadeStates DEF Forwards, Settles
  <2>2. CASE o # s
    BY <1>5, <1>9, <2>2 DEF Forwards
  <2> QED  BY <2>1, <2>2
<1>11. ReloadInv'
  BY <1>1, <1>5, <1>6, <1>8, <1>9, <1>10, EasedReloads
<1> QED  BY <1>7, <1>11

(* The server goes on, or buttons do, while what is shown stays.           *)
LEMMA SameViewsReloads ==
    ASSUME PageInv, desk.page # NoPage, desk'.page = desk.page, views' = views,
           past' \in Seq(TenantStates), Len(past) <= Len(past'),
           NEW new, \A h \in new : /\ h.step = 0 /\ h.awaits = {} /\ h.made = 0
                                   /\ h.button \in ButtonNames,
           asked' \subseteq asked \cup new
    PROVE  ViewsTyped' /\ ReloadInv'
<1>1. /\ Now \in Nat \ {0} /\ Now' \in Nat \ {0} /\ Now <= Now'
      /\ \A s \in DOMAIN views : views[s] \in SectionViews
  BY OpenPageViews DEF Now
<1>2. ViewsTyped'
  <2>1. views' \in [Loads[desk'.page] -> SectionViews]
    BY DEF PageInv, ViewsTyped
  <2>2. Len(past') > 0
    BY <1>1 DEF Now
  <2> QED  BY <2>1, <2>2 DEF ViewsTyped
<1>3. (\A s \in DOMAIN views : Ordered(s, views[s]))'
  <2>1. ASSUME NEW s \in DOMAIN views, NEW v, v = views[s]
        PROVE  Ordered(s, v)'
    BY <1>1, <2>1, StillOrdered DEF PageInv, ReloadInv
  <2> QED  BY <2>1 DEF Ordered
<1>4. ASSUME NEW h \in asked
      PROVE  HandlerReloads(h)' /\ AnswerShown(h)'
  <2>1. HandlerReloads(h) /\ AnswerShown(h) /\ h.made \in Nat
    BY MadeStates DEF PageInv, ReloadInv
  <2>2. h.made <= Now'
    BY <1>1, <2>1 DEF HandlerReloads
  <2>3. HandlerReloads(h)'
    BY <2>1, <2>2 DEF HandlerReloads
  <2>4. AnswerShown(h)'
    BY <2>1 DEF AnswerShown
  <2> QED  BY <2>3, <2>4
<1>5. ASSUME NEW h \in new
      PROVE  HandlerReloads(h)' /\ AnswerShown(h)'
  <2>1. Len(Buttons[h.button].reload) \in Nat
    BY ButtonsAreSound DEF ButtonFacts
  <2>2. HandlerReloads(h)'
    BY <1>1, <2>1 DEF HandlerReloads, Reloads
  <2>3. AnswerShown(h)'
    BY DEF AnswerShown
  <2> QED  BY <2>2, <2>3
<1> QED  BY <1>2, <1>3, <1>4, <1>5 DEF ReloadInv

(* A request that is carried out, or another change, leaves one more state *)
(* of the server (Carried, ServerMoves).                                   *)
LEMMA CarriedStates ==
    ASSUME PageInv, desk.page # NoPage, PageAssumption,
           \/ \E h \in asked : Carried(h)
           \/ \E c \in PageConditions : past' = Append(past, c)
           \/ past' = past
    PROVE  past' \in Seq(TenantStates) /\ Len(past) <= Len(past')
<1>1. past \in Seq(TenantStates) /\ Len(past) > 0
  BY DEF PageInv, ViewsTyped
<1>2. ASSUME NEW c \in TenantStates
      PROVE  Append(past, c) \in Seq(TenantStates) /\ Len(past) <= Len(Append(past, c))
  BY <1>1
<1>3. past[Now] \in TenantStates
  BY <1>1 DEF Now
<1>4. ASSUME NEW n \in DOMAIN Becomes
      PROVE  [past[Now] EXCEPT !.status = Becomes[n]] \in TenantStates
  <2>1. Becomes[n] \in Statuses
    BY DEF Becomes, Statuses
  <2> QED  BY <1>3, <2>1 DEF TenantStates
<1>5. CASE \E h \in asked : Carried(h)
  <2>1. \/ past' = past \/ past' = Append(past, past[Now])
        \/ \E n \in DOMAIN Becomes :
               past' = Append(past, [past[Now] EXCEPT !.status = Becomes[n]])
    <3>1. PICK h \in asked : Carried(h)
      BY <1>5
    <3>2. CASE Now = MaxPast
      BY <3>1, <3>2 DEF Carried
    <3>3. CASE Now # MaxPast /\ h.button \notin DOMAIN Becomes
      BY <3>1, <3>3 DEF Carried
    <3>4. CASE Now # MaxPast /\ h.button \in DOMAIN Becomes
      BY <3>1, <3>4, Zenon DEF Carried
    <3> QED  BY <3>2, <3>3, <3>4
  <2>2. CASE past' = past
    BY <1>1, <2>2
  <2>3. CASE past' = Append(past, past[Now])
    BY <1>2, <1>3, <2>3
  <2>4. ASSUME NEW n \in DOMAIN Becomes, NEW c,
               c = [past[Now] EXCEPT !.status = Becomes[n]], past' = Append(past, c)
        PROVE  past' \in Seq(TenantStates) /\ Len(past) <= Len(past')
    <3>1. c \in TenantStates
      BY <1>4, <2>4
    <3> QED  BY <1>2, <2>4, <3>1
  <2> QED  BY <2>1, <2>2, <2>3, <2>4
<1>6. CASE \E c \in PageConditions : past' = Append(past, c)
  BY <1>2, <1>6 DEF PageAssumption, TenantStates
<1> QED  BY <1>1, <1>5, <1>6

(* A page opens: every section is asked for (OpenPage).                    *)
LEMMA OpenKeepsReloads ==
    ASSUME asked' = {}, PageAssumption, NEW page \in Pages, NEW admin \in BOOLEAN,
           NEW c \in PageConditions, OpenPage(page, admin, c)
    PROVE  ViewsTyped' /\ ReloadInv'
<1>1. past' = <<c>> /\ c \in TenantStates
  BY DEF OpenPage, PageAssumption, TenantStates
<1>2. past' \in Seq(TenantStates) /\ Len(past') = 1
  BY <1>1
<1>3. PICK f : f = [since |-> 1, by |-> ByPage]
  OBVIOUS
<1>4. f \in Fetches /\ f.since = 1
  BY <1>3 DEF Fetches, ByPage, AnyRow
<1>5. /\ DOMAIN views' = Loads[page]
      /\ \A s \in Loads[page] :
            views'[s] = [NoView EXCEPT !.loading = s \in ShowsLoading, !.fetches = {f}]
  BY <1>3, Zenon DEF OpenPage
<1>6. ASSUME NEW s \in Loads[page]
      PROVE  views'[s] \in SectionViews /\ views'[s].read = 0 /\ views'[s].fetches = {f}
  <2>1. PICK v : v = NoView
    OBVIOUS
  <2>2. v \in SectionViews /\ v.read = 0
    BY <2>1 DEF NoView, SectionViews
  <2>3. PICK w : w = [v EXCEPT !.loading = s \in ShowsLoading, !.fetches = {f}]
    OBVIOUS
  <2>4. w \in SectionViews /\ w.read = 0 /\ w.fetches = {f}
    <3>1. v.read = 0 /\ v.failed \in BOOLEAN
      BY <2>2 DEF SectionViews
    <3>2. w = [read |-> v.read, failed |-> v.failed, loading |-> s \in ShowsLoading,
               fetches |-> {f}]
      BY <2>2, <2>3 DEF SectionViews
    <3>3. {f} \subseteq Fetches
      BY <1>4
    <3> QED  BY <3>1, <3>2, <3>3 DEF SectionViews
  <2>5. views'[s] = w
    BY <1>5, <1>6, <2>1, <2>3
  <2> QED  BY <2>4, <2>5
<1>7. views' \in [Loads[page] -> SectionViews]
  <2>1. views' = [s \in Loads[page] |-> views'[s]]
    BY DEF OpenPage
  <2> QED  BY <1>6, <2>1
<1>8. desk'.page = page
  BY DEF OpenPage, ClosedDesk
<1>9. (\A s \in DOMAIN views : Ordered(s, views[s]))'
  <2>1. Now' = 1
    BY <1>2 DEF Now
  <2>2. ASSUME NEW s \in Loads[page]
        PROVE  Ordered(s, views[s])'
    BY <1>4, <1>6, <2>1, <2>2 DEF Ordered
  <2> QED  BY <1>5, <2>2
<1> QED  BY <1>2, <1>7, <1>8, <1>9 DEF ViewsTyped, ReloadInv

(* A request is answered: its handler remembers the state it left, and     *)
(* shows the answer or is about to reload (RequestDone).                   *)
LEMMA DoneKeepsReloads ==
    ASSUME PageInv, Idle, PageAssumption, NEW h \in asked, RequestDone(h),
           desk'.page = desk.page
    PROVE  ViewsTyped' /\ ReloadInv'
<1>1. desk.page # NoPage /\ Carried(h) /\ h.step = 0
  BY DEF Idle, RequestDone
<1>2. past' \in Seq(TenantStates) /\ Len(past) <= Len(past')
  BY <1>1, CarriedStates
<1>3. /\ Now \in Nat \ {0} /\ Now' \in Nat \ {0} /\ Now <= Now' /\ Now' = Len(past')
      /\ \A s \in DOMAIN views : views[s] \in SectionViews
      /\ DOMAIN views = Loads[desk.page]
  BY <1>1, <1>2, OpenPageViews DEF Now
<1>4. /\ HandlerState(h) /\ h.button \in ButtonNames
      /\ Buttons[h.button].page = desk.page /\ h.awaits = {}
  BY <1>1 DEF PageInv, DeskInv, OfThePage, HandlerState, ReloadInv, HandlerReloads
<1>5. PICK g : g = [h EXCEPT !.step = 1, !.made = Len(past')]
  OBVIOUS
<1>6. /\ g.button = h.button /\ g.step = 1 /\ g.made = Now' /\ g.awaits = {}
      /\ asked' = (asked \ {h}) \cup {g}
  BY <1>3, <1>4, <1>5 DEF RequestDone, HandlerState
<1>7. \/ views' = views /\ h.button \notin DOMAIN Answers
      \/ \E o, w : /\ views' = [views EXCEPT ![o] = w]
                   /\ o \in DOMAIN views /\ o \notin QuerySections
                   /\ o = Answers[h.button] /\ w \in SectionViews
                   /\ w.fetches = views[o].fetches /\ w.read = Now'
  <2>1. CASE h.button \notin DOMAIN Answers
    BY <2>1 DEF RequestDone
  <2>2. CASE h.button \in DOMAIN Answers
    <3>1. PICK o : o = Answers[h.button]
      OBVIOUS
    <3>2. o \in DOMAIN views /\ o \notin QuerySections
      BY <1>3, <1>4, <2>2, <3>1, ButtonsAreSound DEF ButtonFacts
    <3>3. PICK w : w = [views[o] EXCEPT !.read = Len(past')]
      OBVIOUS
    <3>4. views' = [views EXCEPT ![o] = w]
      BY <2>2, <3>1, <3>3 DEF RequestDone
    <3>5. w \in SectionViews /\ w.fetches = views[o].fetches /\ w.read = Now'
      BY <1>3, <3>2, <3>3 DEF SectionViews
    <3> QED  BY <3>1, <3>2, <3>4, <3>5
  <2> QED  BY <2>1, <2>2
<1>8. DOMAIN views' = DOMAIN views
  BY <1>7
<1>9. \A s \in DOMAIN views \cap QuerySections : views'[s] = views[s]
  BY <1>7
<1>10. h.button \in DOMAIN Answers => views'[Answers[h.button]].read = Now'
  BY <1>7
<1>11. ViewsTyped'
  <2>1. views \in [Loads[desk.page] -> SectionViews]
    BY <1>1 DEF PageInv, ViewsTyped
  <2>2. views' \in [Loads[desk.page] -> SectionViews]
    BY <1>7, <2>1
  <2>3. Len(past') > 0
    BY <1>3
  <2> QED  BY <1>2, <2>2, <2>3 DEF ViewsTyped
<1>12. ASSUME NEW s \in DOMAIN views
       PROVE  Ordered(s, views[s])'
  <2>1. Ordered(s, views[s]) /\ views[s] \in SectionViews
    BY <1>3 DEF PageInv, ReloadInv
  <2>2. PICK v : v = views[s]
    OBVIOUS
  <2>3. Ordered(s, v)'
    BY <1>3, <2>1, <2>2, StillOrdered
  <2>4. CASE views'[s] = views[s]
    BY <2>2, <2>3, <2>4 DEF Ordered
  <2>5. CASE views'[s] # views[s]
    <3>1. PICK w : /\ views'[s] = w /\ w.fetches = v.fetches /\ w.read = Now'
                   /\ s \notin QuerySections
      BY <1>7, <2>2, <2>5
    <3> QED  BY <1>3, <2>3, <3>1 DEF Ordered
  <2> QED  BY <2>4, <2>5
<1>13. ASSUME NEW k \in asked
       PROVE  HandlerReloads(k)'
  <2>1. HandlerReloads(k) /\ k.made <= Now'
    BY <1>3, MadeStates DEF PageInv, ReloadInv
  <2> QED  BY <1>8, <1>9, <2>1 DEF HandlerReloads
<1>14. ASSUME NEW k \in asked
       PROVE  AnswerShown(k)'
  <2>1. Eased(k, k)
    BY MadeStates DEF Eased, HandlerState
  <2> QED  BY <2>1, IdleAnswers
<1>15. HandlerReloads(g)' /\ AnswerShown(g)'
  <2>1. Len(Buttons[g.button].reload) \in Nat
    BY <1>4, <1>6, ButtonsAreSound DEF ButtonFacts
  <2>2. HandlerReloads(g)'
    BY <1>3, <1>6, <2>1 DEF HandlerReloads, Reloads
  <2>3. AnswerShown(g)'
    BY <1>3, <1>6, <1>10 DEF AnswerShown
  <2> QED  BY <2>2, <2>3
<1> QED  BY <1>6, <1>8, <1>11, <1>12, <1>13, <1>14, <1>15 DEF ReloadInv

(* A handler asks for its next sections (HandlerContinues).                *)
LEMMA ContinuesKeepsReloads ==
    ASSUME PageInv, desk.page # NoPage, NEW h \in Resumable, HandlerContinues(h),
           ~(h.step > Len(Buttons[h.button].reload)), desk'.page = desk.page
    PROVE  ViewsTyped' /\ ReloadInv'
<1> DEFINE b == Buttons[h.button]
           ss == b.reload[h.step]
<1>1. /\ Now \in Nat \ {0} /\ Now' = Now
      /\ \A s \in DOMAIN views : views[s] \in SectionViews
  BY OpenPageViews DEF Now, HandlerContinues
<1>2. /\ h \in asked /\ HandlerState(h) /\ h.step > 0 /\ h.awaits = {}
      /\ h.button \in ButtonNames /\ h.made \in Nat /\ h.made <= Now
      /\ h.step \in Nat
  BY <1>1, MadeStates DEF Resumable, HandlerState
<1>3. Len(b.reload) \in Nat
  BY <1>2, ButtonsAreSound DEF ButtonFacts
<1>4. PICK g : g = [h EXCEPT !.step = h.step + 1, !.awaits = ss]
  OBVIOUS
<1>5. /\ views' = StartAll(ss, Key(h)) /\ past' = past
      /\ asked' = Interrupted(ss, asked \ {h}) \cup {g}
  BY <1>4 DEF HandlerContinues
<1>6. /\ g.button = h.button /\ g.step = h.step + 1 /\ g.made = h.made
      /\ g.awaits = ss
  <2>1. h = [button |-> h.button, row |-> h.row, step |-> h.step,
             awaits |-> h.awaits, made |-> h.made]
    BY <1>2 DEF HandlerState
  <2> HIDE DEF b, ss
  <2>2. g = [button |-> h.button, row |-> h.row, step |-> h.step + 1,
             awaits |-> ss, made |-> h.made]
    BY <1>4, <2>1
  <2> QED  BY <2>2
<1>7. Key(h) \in Starters
  BY <1>2 DEF Key, Starters, HandlerState
<1>8. /\ ViewsTyped' /\ (\A s \in DOMAIN views : Ordered(s, views[s]))'
      /\ DOMAIN views' = DOMAIN views
      /\ \A s \in DOMAIN views : views'[s].read = views[s].read
      /\ \A s \in DOMAIN views \cap QuerySections : \A m \in Nat : m <= Now =>
            /\ Forwards(views[s], views'[s], m)
            /\ s \in ss /\ Refetchable(views[s], m) => ShowsSince(views'[s], m)
  <2> HIDE DEF ss
  <2> QED  BY <1>5, <1>7, StartAllKeeps
<1> HIDE DEF b, ss
<1>9. \A k \in asked \ {h} : HandlerState(k)
  BY MadeStates
<1>10. PICK F : /\ Interrupted(ss, asked \ {h}) = {F[k] : k \in asked \ {h}}
                /\ \A k \in asked \ {h} :
                      Eased(k, F[k]) /\ k.awaits \ Cancels(ss) \subseteq F[k].awaits
  BY <1>9, InterruptedEases
(* The others keep what they may count on. *)
<1>11. ASSUME NEW k \in asked \ {h}, NEW e, e = F[k]
       PROVE  HandlerReloads(e)' /\ AnswerShown(e)'
  <2>1. Eased(k, e) /\ k.awaits \ Cancels(ss) \subseteq e.awaits
    BY <1>10, <1>11
  <2>2. k.made \in Nat /\ k.made <= Now
    BY <1>1, MadeStates
  <2>3. ASSUME NEW s \in DOMAIN views \cap QuerySections
        PROVE  /\ Forwards(views[s], views'[s], k.made)
               /\ s \in k.awaits => s \in e.awaits \/ Refetchable(views'[s], k.made)
    <3>1. Forwards(views[s], views'[s], k.made)
      BY <1>8, <2>2
    <3>2. s \in Cancels(ss) => views'[s].read > 0
      BY <1>8 DEF Cancels
    <3> QED  BY <2>1, <3>1, <3>2 DEF Refetchable
  <2>4. HandlerReloads(e)'
    BY <1>1, <1>8, <2>1, <2>3, ReloadsKept
  <2>5. AnswerShown(e)'
    <3>1. SUFFICES ASSUME e.step > 0, e.button \in DOMAIN Answers
                   PROVE  e.awaits = {} /\ views'[Answers[e.button]].read >= e.made
      BY DEF AnswerShown
    <3>2. k.awaits = {} /\ views[Answers[k.button]].read >= k.made
      BY <2>1, <3>1 DEF PageInv, ReloadInv, AnswerShown, Eased
    <3>3. Answers[k.button] \in DOMAIN views
      <4>1. k.button \in ButtonNames /\ Buttons[k.button].page = desk.page
        BY DEF PageInv, DeskInv, OfThePage, HandlerState
      <4>2. k.button \in DOMAIN Answers
        BY <2>1, <3>1 DEF Eased
      <4>3. Answers[k.button] \in Loads[desk.page]
        BY <4>1, <4>2, ButtonsAreSound DEF ButtonFacts
      <4> QED  BY <4>3, OpenPageViews
    <3> QED  BY <1>8, <2>1, <3>2, <3>3 DEF Eased
  <2> QED  BY <2>4, <2>5
(* The handler itself has been answered what it asked for before. *)
<1>12. HandlerReloads(h) /\ h.step <= Len(b.reload)
  BY <1>2, <1>3 DEF PageInv, ReloadInv, b
<1>13. ASSUME NEW s \in DOMAIN views \cap QuerySections, NEW w, w = views'[s]
       PROVE  Reloads(g, s, w)
  <2>1. PICK v : v = views[s]
    OBVIOUS
  <2>2. /\ Forwards(v, w, h.made)
        /\ s \in ss /\ Refetchable(v, h.made) => ShowsSince(w, h.made)
    BY <1>2, <1>8, <1>13, <2>1
  <2>3. ASSUME NEW i \in 1 .. h.step - 1, s \in b.reload[i]
        PROVE  /\ Refetchable(v, h.made)
               /\ \A j \in 1 .. i - 1 : s \in b.reload[j] => ShowsSince(v, h.made)
    BY <1>2, <1>12, <2>1, <2>3 DEF HandlerReloads, Reloads, b
  <2>4. ASSUME NEW i \in 1 .. g.step - 1, s \in b.reload[i]
        PROVE  /\ s \in g.awaits \/ Refetchable(w, g.made)
               /\ \A j \in 1 .. i - 1 : s \in b.reload[j] => ShowsSince(w, g.made)
    <3>1. CASE i = h.step
      <4>1. s \in g.awaits /\ s \in ss
        BY <1>6, <2>4, <3>1 DEF ss
      <4>2. ASSUME NEW j \in 1 .. i - 1, s \in b.reload[j]
            PROVE  ShowsSince(w, g.made)
        <5>1. Refetchable(v, h.made)
          BY <2>3, <3>1, <4>2
        <5> QED  BY <1>6, <2>2, <4>1, <5>1
      <4> QED  BY <4>1, <4>2
    <3>2. CASE i # h.step
      <4>1. i \in 1 .. h.step - 1
        BY <1>2, <1>6, <3>2
      <4> QED  BY <1>6, <2>2, <2>3, <2>4, <4>1 DEF Forwards
    <3> QED  BY <3>1, <3>2
  <2> QED  BY <1>6, <2>4 DEF Reloads, b
<1>14. HandlerReloads(g)'
  <2>1. \A s \in DOMAIN views \cap QuerySections : Reloads(g, s, views'[s])
    BY <1>13
  <2>2. /\ g.step <= Len(Buttons[g.button].reload) + 1
        /\ g.made <= Now' /\ g.step # 0
    BY <1>1, <1>2, <1>3, <1>6, <1>12 DEF b
  <2> QED  BY <1>8, <2>1, <2>2 DEF HandlerReloads
<1>15. AnswerShown(g)'
  <2>1. h.button \notin DOMAIN Answers
    BY <1>2, <1>12, ButtonsAreSound DEF ButtonFacts, b
  <2> QED  BY <1>6, <2>1 DEF AnswerShown
<1> QED  BY <1>5, <1>8, <1>10, <1>11, <1>14, <1>15 DEF ReloadInv

(* Only the page that is open has handlers.                                *)
LEMMA HandlersHavePage ==
    ASSUME DeskInv, NEW h \in asked
    PROVE  desk.page # NoPage
  BY ButtonsAreSound, NoneIsNone DEF DeskInv, OfThePage, HandlerState, ButtonFacts

(* A button that is pressed, a dialog or a phrase (PressButton, TypePhrase,*)
(* ConfirmDialog, CancelDialog).                                           *)
LEMMA ButtonsKeepPage ==
    ASSUME PageInv,
           \/ \E n \in ButtonNames, row \in AnyRow : PressButton(n, row)
           \/ TypePhrase \/ ConfirmDialog \/ CancelDialog
    PROVE  PageInv' /\ asked \subseteq asked'
<1>1. Idle /\ desk.page # NoPage /\ views' = views /\ past' = past
  BY DEF PressButton, TypePhrase, ConfirmDialog, CancelDialog, Idle
<1>2. past' \in Seq(TenantStates) /\ Len(past) <= Len(past')
  <2>1. past \in Seq(TenantStates)
    BY DEF PageInv, ViewsTyped
  <2> QED  BY <1>1, <2>1
<1>3. DeskInv' /\ desk'.page = desk.page
  <2>1. DeskInv /\ desk \in DeskStates
    BY DEF PageInv, DeskInv
  <2>2. CASE \E n \in ButtonNames, row \in AnyRow : PressButton(n, row)
    <3>1. PICK n \in ButtonNames, row \in AnyRow : PressButton(n, row)
      BY <2>2
    <3>2. desk'.page = desk.page
      BY <2>1, <3>1 DEF PressButton, DeskStates
    <3> QED  BY <2>1, <3>1, <3>2, PressKeepsDesk
  <2>3. CASE TypePhrase \/ CancelDialog
    <3>1. desk'.page = desk.page
      BY <2>1, <2>3 DEF TypePhrase, CancelDialog, DeskStates
    <3> QED  BY <2>1, <2>3, <3>1, TypeKeepsDesk
  <2>4. CASE ConfirmDialog
    <3>1. desk'.page = desk.page
      BY <2>1, <2>4 DEF ConfirmDialog, DeskStates
    <3> QED  BY <2>1, <2>4, <3>1, ConfirmKeepsDesk
  <2> QED  BY <2>2, <2>3, <2>4
<1>4. PICK new : /\ \A h \in new : /\ h.step = 0 /\ h.awaits = {} /\ h.made = 0
                                   /\ h.button \in ButtonNames
                 /\ asked' = asked \cup new
  <2>1. asked' = asked \/ \E n \in ButtonNames, row \in AnyRow :
                              asked' = asked \cup {NewHandler(n, row)}
    <3>1. CASE \E n \in ButtonNames, row \in AnyRow : PressButton(n, row)
      BY <3>1 DEF PressButton, AskServer, NewHandler
    <3>2. CASE ConfirmDialog
      <4>1. desk.dialog \in ButtonNames /\ NoRow \in AnyRow
        BY <3>2 DEF ConfirmDialog, PageInv, DeskInv, DeskStates, AnyRow
      <4>2. asked' = asked \cup {NewHandler(desk.dialog, NoRow)}
        BY <3>2 DEF ConfirmDialog, AskServer, NewHandler
      <4> QED  BY <4>1, <4>2
    <3> QED  BY <3>1, <3>2 DEF TypePhrase, CancelDialog
  <2>2. CASE asked' = asked
    <3>1. asked' = asked \cup {}
      BY <2>2
    <3> QED  BY <3>1
  <2>3. ASSUME NEW n \in ButtonNames, NEW row, asked' = asked \cup {NewHandler(n, row)}
        PROVE  \E new : /\ \A h \in new : /\ h.step = 0 /\ h.awaits = {} /\ h.made = 0
                                          /\ h.button \in ButtonNames
                        /\ asked' = asked \cup new
    <3>1. \A h \in {NewHandler(n, row)} : /\ h.step = 0 /\ h.awaits = {} /\ h.made = 0
                                          /\ h.button \in ButtonNames
      BY DEF NewHandler
    <3> QED  BY <2>3, <3>1
  <2> QED  BY <2>1, <2>2, <2>3
<1>5. asked' \subseteq asked \cup new /\ asked \subseteq asked'
  BY <1>4
<1>6. ViewsTyped' /\ ReloadInv'
  BY <1>1, <1>2, <1>3, <1>4, <1>5, SameViewsReloads
<1> QED  BY <1>3, <1>5, <1>6 DEF PageInv

(* What the page loads and the server does (RefreshPage, PollRecentJobs,   *)
(* ViewAnswered, ViewFailed, ServerMoves).                                 *)
LEMMA LoadsKeepPage ==
    ASSUME PageInv, PageAssumption,
           \/ RefreshPage \/ PollRecentJobs \/ \E c \in PageConditions : ServerMoves(c)
           \/ \E s \in DOMAIN views : \E f \in views[s].fetches :
                Idle /\ ((\E read \in 1 .. MaxPast : ViewAnswered(s, f, read))
                         \/ ViewFailed(s, f))
    PROVE  PageInv' /\ (\A h \in asked : \E g \in asked' : Key(g) = Key(h))
<1>1. DeskInv /\ desk \in DeskStates /\ \A h \in asked : HandlerState(h)
  BY DEF PageInv, DeskInv, OfThePage
<1>2. CASE RefreshPage \/ PollRecentJobs
  <2>1. DeskInv'
    BY <1>1, <1>2, LoadsDesk
  <2>2. ViewsTyped' /\ ReloadInv'
    BY <1>2, RefreshKeepsReloads
  <2>3. \A h \in asked : \E g \in asked' : Key(g) = Key(h)
    <3>1. CASE RefreshPage
      <4>1. PICK F : /\ asked' = {F[h] : h \in asked}
                     /\ \A h \in asked : Eased(h, F[h])
        BY <1>1, <3>1, InterruptedEases DEF RefreshPage
      <4> QED  BY <4>1 DEF Eased, Key
    <3>2. CASE PollRecentJobs
      BY <3>2 DEF PollRecentJobs
    <3> QED  BY <1>2, <3>1, <3>2
  <2> QED  BY <2>1, <2>2, <2>3 DEF PageInv
<1>3. CASE \E c \in PageConditions : ServerMoves(c)
  <2>1. DeskInv'
    BY <1>1, <1>3, LoadsDesk
  <2>2. /\ desk.page # NoPage /\ desk' = desk /\ views' = views /\ asked' = asked
        /\ \E c \in PageConditions : past' = Append(past, c)
    BY <1>3 DEF ServerMoves, Idle
  <2>3. past' \in Seq(TenantStates) /\ Len(past) <= Len(past')
    BY <2>2, CarriedStates
  <2>4. PICK new : new = {}
    OBVIOUS
  <2>5. /\ \A h \in new : /\ h.step = 0 /\ h.awaits = {} /\ h.made = 0
                          /\ h.button \in ButtonNames
        /\ asked' \subseteq asked \cup new
        /\ desk'.page = desk.page
    BY <2>2, <2>4
  <2>6. ViewsTyped' /\ ReloadInv'
    BY <2>2, <2>3, <2>5, SameViewsReloads
  <2> QED  BY <2>1, <2>2, <2>6 DEF PageInv
<1>4. ASSUME NEW s \in DOMAIN views, NEW f \in views[s].fetches, Idle,
             (\E read \in 1 .. MaxPast : ViewAnswered(s, f, read)) \/ ViewFailed(s, f)
      PROVE  PageInv' /\ (\A h \in asked : \E g \in asked' : Key(g) = Key(h))
  <2>1. DeskInv'
    BY <1>1, <1>4, LoadsDesk
  <2>2. desk'.page = desk.page
    BY <1>1, <1>4 DEF ViewAnswered, ViewFailed, DeskStates
  <2>3. ViewsTyped' /\ ReloadInv'
    BY <1>4, <2>2, AnswerKeepsReloads
  <2>4. PICK F : /\ asked' = {F[h] : h \in asked}
                 /\ \A h \in asked : Eased(h, F[h])
    <3>1. asked' = Freed(s, f.by, asked)
      BY <1>4 DEF ViewAnswered, ViewFailed
    <3> QED  BY <1>1, <3>1, FreedEases
  <2>5. \A h \in asked : \E g \in asked' : Key(g) = Key(h)
    BY <2>4 DEF Eased, Key
  <2> QED  BY <2>1, <2>3, <2>5 DEF PageInv
<1> QED  BY <1>2, <1>3, <1>4

(* A page opens (OpenPage).                                                *)
LEMMA OpenKeepsPage ==
    ASSUME PageInv, PageAssumption, NEW page \in Pages, NEW admin \in BOOLEAN,
           NEW c \in PageConditions, OpenPage(page, admin, c)
    PROVE  PageInv' /\ asked = {}
<1>1. DeskInv' /\ asked = {} /\ asked' = {}
  BY OpenKeepsDesk DEF PageInv
<1> QED  BY <1>1, OpenKeepsReloads DEF PageInv

(* A request that is answered (RequestDone).                               *)
LEMMA DoneKeepsPage ==
    ASSUME PageInv, PageAssumption, Idle, NEW h \in asked, RequestDone(h)
    PROVE  PageInv' /\ (\A k \in asked : \E g \in asked' : Key(g) = Key(k))
<1>1. /\ DeskInv /\ desk \in DeskStates /\ HandlerState(h)
      /\ desk.page # NoPage /\ Carried(h)
  BY DEF PageInv, DeskInv, OfThePage, Idle, RequestDone
<1>2. past' \in Seq(TenantStates)
  BY <1>1, CarriedStates
<1>3. Len(past') \in Nat
  BY <1>2
<1>4. DeskInv'
  BY <1>1, <1>3, DoneKeepsDesk
<1>5. desk'.page = desk.page
  BY <1>1 DEF RequestDone, DeskStates
<1>6. ViewsTyped' /\ ReloadInv'
  BY <1>5, DoneKeepsReloads
<1>7. PICK g : g = [h EXCEPT !.step = 1, !.made = Len(past')]
  OBVIOUS
<1>8. asked' = (asked \ {h}) \cup {g}
  BY <1>7 DEF RequestDone
<1>9. Key(g) = Key(h)
  BY <1>1, <1>7 DEF Key, HandlerState
<1> QED  BY <1>4, <1>6, <1>8, <1>9 DEF PageInv

(* A handler that has ended leaves what is shown alone.                    *)
LEMMA EndKeepsPage ==
    ASSUME PageInv, PageAssumption, NEW h \in asked, asked' = asked \ {h}, DeskInv',
           desk'.page = desk.page, views' = views, Carried(h) \/ past' = past
    PROVE  PageInv'
<1>1. desk.page # NoPage
  BY HandlersHavePage DEF PageInv
<1>2. past' \in Seq(TenantStates) /\ Len(past) <= Len(past')
  BY <1>1, CarriedStates
<1>3. PICK new : new = {}
  OBVIOUS
<1>4. /\ \A k \in new : /\ k.step = 0 /\ k.awaits = {} /\ k.made = 0
                        /\ k.button \in ButtonNames
      /\ asked' \subseteq asked \cup new
  BY <1>3
<1>5. ViewsTyped' /\ ReloadInv'
  BY <1>1, <1>2, <1>4, SameViewsReloads
<1> QED  BY <1>5 DEF PageInv

(* A request that fails (RequestFailed).                                   *)
LEMMA FailedKeepsPage ==
    ASSUME PageInv, PageAssumption, Idle, NEW h \in asked, NEW carried,
           RequestFailed(h, carried)
    PROVE  PageInv' /\ h.step = 0 /\ asked' = asked \ {h}
<1>1. DeskInv /\ desk \in DeskStates
  BY DEF PageInv, DeskInv
<1>2. desk'.page = desk.page
  BY <1>1 DEF RequestFailed, DeskStates
<1>3. /\ views' = views /\ h.step = 0 /\ asked' = asked \ {h}
      /\ Carried(h) \/ past' = past
  BY DEF RequestFailed
<1>4. DeskInv'
  BY <1>1, FailedKeepsDesk
<1> QED  BY <1>2, <1>3, <1>4, EndKeepsPage

(* What a handler that has reloaded asked for twice is shown, and so is an *)
(* answer (loadTenant, setProfile).                                        *)
LEMMA ReloadedIsShown ==
    ASSUME PageInv, NEW h \in asked, h.step > Len(Buttons[h.button].reload),
           NEW s \in Changes[h.button]
    PROVE  ShowsSince(views[s], h.made)
<1> DEFINE b == Buttons[h.button]
<1>1. /\ h.button \in ButtonNames /\ b.page = desk.page /\ desk.page # NoPage
      /\ h.step \in Nat
  BY HandlersHavePage DEF PageInv, DeskInv, OfThePage, HandlerState
<1>2. ButtonFacts(h.button)
  BY <1>1, ButtonsAreSound
<1>3. Len(b.reload) \in Nat /\ s \in DOMAIN views
  BY <1>1, <1>2, OpenPageViews DEF ButtonFacts
<1>4. CASE s \in QuerySections
  <2>1. Reloads(h, s, views[s]) /\ h.step <= Len(b.reload) + 1
    BY <1>3, <1>4 DEF PageInv, ReloadInv, HandlerReloads
  <2>2. FetchesTwice(b.reload, s)
    BY <1>2, <1>4 DEF ButtonFacts
  <2> HIDE DEF b
  <2>3. PICK j, i \in 1 .. Len(b.reload) : j < i /\ s \in b.reload[j] /\ s \in b.reload[i]
    BY <2>2 DEF FetchesTwice
  <2>4. i \in 1 .. h.step - 1 /\ j \in 1 .. i - 1
    BY <1>1, <1>3, <2>1, <2>3 DEF b
  <2> QED  BY <2>1, <2>3, <2>4 DEF Reloads, b
<1>5. CASE s \notin QuerySections
  <2>1. h.button \in DOMAIN Answers /\ s = Answers[h.button]
    BY <1>2, <1>5 DEF ButtonFacts
  <2>2. h.step > 0
    BY <1>1, <1>3
  <2> QED  BY <2>1, <2>2 DEF PageInv, ReloadInv, AnswerShown, ShowsSince
<1> QED  BY <1>4, <1>5

(* A handler that goes on or ends (HandlerContinues).                      *)
LEMMA ContinuesKeepsPage ==
    ASSUME PageInv, PageAssumption, NEW h \in Resumable, HandlerContinues(h)
    PROVE  /\ PageInv'
           /\ \/ \A k \in asked : \E g \in asked' : Key(g) = Key(k)
              \/ /\ h.step > Len(Buttons[h.button].reload)
                 /\ views' = views /\ asked' = asked \ {h}
<1>1. /\ h \in asked /\ DeskInv /\ desk \in DeskStates
      /\ \A k \in asked : HandlerState(k)
  BY DEF PageInv, DeskInv, OfThePage, Resumable
<1>2. DeskInv' /\ desk.page # NoPage
  BY <1>1, ContinuesKeepsDesk, HandlersHavePage
<1>3. CASE h.step > Len(Buttons[h.button].reload)
  <2>1. /\ views' = views /\ asked' = asked \ {h} /\ past' = past
        /\ desk' = [desk EXCEPT !.busy = ClearBusy(Buttons[h.button])]
    BY <1>3 DEF HandlerContinues, Finished
  <2>2. desk'.page = desk.page
    BY <1>1, <2>1 DEF DeskStates
  <2> QED  BY <1>1, <1>2, <1>3, <2>1, <2>2, EndKeepsPage
<1>4. CASE ~(h.step > Len(Buttons[h.button].reload))
  <2>1. PICK ss : ss = Buttons[h.button].reload[h.step]
    OBVIOUS
  <2>2. PICK g : g = [h EXCEPT !.step = h.step + 1, !.awaits = ss]
    OBVIOUS
  <2>3. asked' = Interrupted(ss, asked \ {h}) \cup {g} /\ desk' = desk
    BY <1>4, <2>1, <2>2 DEF HandlerContinues
  <2>4. ViewsTyped' /\ ReloadInv'
    BY <1>2, <1>4, <2>3, ContinuesKeepsReloads
  <2>5. Key(g) = Key(h)
    BY <1>1, <2>2 DEF Key, HandlerState
  <2>6. \A k \in asked \ {h} : HandlerState(k)
    BY <1>1
  <2>7. PICK F : /\ Interrupted(ss, asked \ {h}) = {F[k] : k \in asked \ {h}}
                 /\ \A k \in asked \ {h} : Eased(k, F[k])
    BY <2>6, InterruptedEases
  <2>8. \A k \in asked : \E e \in asked' : Key(e) = Key(k)
    <3>1. ASSUME NEW k \in asked, k # h
          PROVE  F[k] \in asked' /\ Key(F[k]) = Key(k)
      BY <2>3, <2>7, <3>1 DEF Eased, Key
    <3>2. g \in asked'
      BY <2>3
    <3> QED  BY <2>5, <3>1, <3>2
  <2> QED  BY <1>2, <2>4, <2>8 DEF PageInv
<1> QED  BY <1>3, <1>4

(* The initial state of the pages (PageInit).                              *)
LEMMA PageStarts == PageInit => PageInv
<1> SUFFICES ASSUME PageInit
             PROVE  PageInv
  OBVIOUS
<1>1. /\ desk = [page |-> NoPage, admin |-> FALSE, dialog |-> "none", typed |-> FALSE,
                 busy |-> {}, alarm |-> FALSE, spent |-> FALSE]
      /\ asked = {} /\ past = << >> /\ DOMAIN views = {}
  BY DEF PageInit, ClosedDesk
<1>2. desk \in DeskStates
  BY <1>1 DEF DeskStates
<1>3. DeskInv
  BY <1>1, <1>2
     DEF DeskInv, OfThePage, BusyHasHandler, OneDeletion, DeletionRetyped
<1>4. ViewsTyped /\ ReloadInv
  BY <1>1 DEF ViewsTyped, ReloadInv
<1> QED  BY <1>3, <1>4 DEF PageInv

(* When a handler ends, what its request changed is shown, or will be.     *)
EffectShown ==
    \A h \in asked :
       h.step > Len(Buttons[h.button].reload) /\ (\A o \in asked' : Key(o) # Key(h)) =>
          \A s \in Changes[h.button] :
             \/ views'[s].read >= h.made
             \/ views'[s].failed
             \/ \E f \in views'[s].fetches : f.since >= h.made

(* Every step of the pages keeps the invariant and shows the effect of a   *)
(* handler that ends by it (PageNext).                                     *)
LEMMA PageKept ==
    ASSUME PageAssumption, PageInv, [PageNext]_pageVars
    PROVE  PageInv' /\ EffectShown
<1>1. ASSUME PageInv', \A h \in asked : \E g \in asked' : Key(g) = Key(h)
      PROVE  PageInv' /\ EffectShown
  BY <1>1 DEF EffectShown
<1>2. CASE \E p \in Pages, c \in PageConditions : \E a \in Roles(p) : OpenPage(p, a, c)
  <2>1. PICK p \in Pages, c \in PageConditions, a \in BOOLEAN : OpenPage(p, a, c)
    BY <1>2 DEF Roles
  <2> QED  BY <2>1, OpenKeepsPage DEF EffectShown
<1>3. CASE \/ RefreshPage \/ PollRecentJobs \/ \E c \in PageConditions : ServerMoves(c)
           \/ \E s \in DOMAIN views : \E f \in views[s].fetches :
                Idle /\ ((\E read \in 1 .. MaxPast : ViewAnswered(s, f, read))
                         \/ ViewFailed(s, f))
  BY <1>1, <1>3, LoadsKeepPage
<1>4. CASE \/ \E n \in DOMAIN Buttons, row \in Rows \cup {NoRow} : PressButton(n, row)
           \/ TypePhrase \/ ConfirmDialog \/ CancelDialog
  <2>1. PageInv' /\ asked \subseteq asked'
    BY <1>4, ButtonsKeepPage DEF ButtonNames, AnyRow
  <2> QED  BY <1>1, <2>1
<1>5. ASSUME NEW h \in Resumable, HandlerContinues(h)
      PROVE  PageInv' /\ EffectShown
  <2>1. CASE \A k \in asked : \E g \in asked' : Key(g) = Key(k)
    BY <1>1, <1>5, <2>1, ContinuesKeepsPage
  <2>2. CASE /\ h.step > Len(Buttons[h.button].reload)
             /\ views' = views /\ asked' = asked \ {h}
    <3>1. h \in asked
      BY DEF Resumable
    <3>2. ASSUME NEW k \in asked, k.step > Len(Buttons[k.button].reload),
                 \A o \in asked' : Key(o) # Key(k), NEW s \in Changes[k.button]
          PROVE  \/ views'[s].read >= k.made
                 \/ views'[s].failed
                 \/ \E f \in views'[s].fetches : f.since >= k.made
      <4>1. ShowsSince(views[s], k.made)
        BY <3>2, ReloadedIsShown
      <4> QED  BY <2>2, <4>1 DEF ShowsSince
    <3>3. PageInv'
      BY <1>5, ContinuesKeepsPage
    <3> QED  BY <3>2, <3>3 DEF EffectShown
  <2> QED  BY <1>5, <2>1, <2>2, ContinuesKeepsPage
<1>6. ASSUME NEW h \in asked, Idle, RequestDone(h)
      PROVE  PageInv' /\ EffectShown
  BY <1>1, <1>6, DoneKeepsPage
<1>7. ASSUME NEW h \in asked, Idle, NEW c \in BOOLEAN, RequestFailed(h, c)
      PROVE  PageInv' /\ EffectShown
  <2>1. PageInv' /\ h.step = 0 /\ asked' = asked \ {h}
    BY <1>7, FailedKeepsPage
  <2>2. ~(h.step > Len(Buttons[h.button].reload))
    BY <2>1, ButtonsAreSound
       DEF ButtonFacts, PageInv, DeskInv, OfThePage, HandlerState
  <2> QED  BY <2>1, <2>2 DEF EffectShown
<1>8. CASE UNCHANGED pageVars
  <2>1. desk' = desk /\ views' = views /\ asked' = asked /\ past' = past
    BY <1>8 DEF pageVars
  <2>2. DeskInv'
    BY <2>1 DEF PageInv, DeskInv, OfThePage, BusyHasHandler, OneDeletion,
                DeletionRetyped
  <2>3. ViewsTyped' /\ ReloadInv'
    BY <2>1 DEF PageInv, ViewsTyped, ReloadInv, Ordered, HandlerReloads, AnswerShown, Now
  <2> QED  BY <1>1, <2>1, <2>2, <2>3 DEF PageInv
<1> QED  BY <1>2, <1>3, <1>4, <1>5, <1>6, <1>7, <1>8 DEF PageNext

(* The invariant of the pages holds throughout.                            *)
LEMMA PageInvHolds == PageSpec => []PageInv
<1>1. PageAssumption /\ PageInv /\ [PageNext]_pageVars => PageInv'
  BY PageKept
<1> QED  BY <1>1, PageStarts, PageAssumption, PTL DEF PageSpec

(* A button that is disabled has a handler that will enable it, whatever   *)
(* its request, its dialog and its reloads come to (the finally blocks of  *)
(* the pages' handlers).                                                   *)
THEOREM PagesFreeTheirButtons == PageSpec => []BusyHasHandler
<1>1. PageInv => BusyHasHandler
  BY DEF PageInv, DeskInv
<1> QED  BY <1>1, PageInvHolds, PTL

(* A workspace is not deleted with the phrase that was typed for a         *)
(* deletion already acknowledged (deleteConfirmInput).                     *)
THEOREM DeletionsAreRetyped == PageSpec => []DeletionRetyped
<1>1. PageInv => DeletionRetyped
  BY DEF PageInv, DeskInv
<1> QED  BY <1>1, PageInvHolds, PTL

(* When the handler of a button ends, each section its request changed     *)
(* shows the server as it left it or later, or an error, or is about to,   *)
(* whatever polls and refreshes cancelled or joined of its fetches         *)
(* (loadTenant, useTenantSectionData).                                     *)
THEOREM HandlersShowTheirEffect == PageSpec => HandlerShowsItsEffect
<1>1. PageAssumption /\ PageInv /\ [PageNext]_pageVars => EffectShown
  BY PageKept
<1> QED  BY <1>1, PageInvHolds, PageAssumption, PTL
         DEF PageSpec, HandlerShowsItsEffect, EffectShown

-----------------------------------------------------------------------------
(* Each part of the console behaves as its own specification says, what    *)
(* is fair included: what is proved of a part holds of the console that    *)
(* composes them.                                                          *)
THEOREM ConsoleRunsItsParts ==
    WebSpec => /\ WizardSpec /\ FormSpec /\ SessionSpec /\ PanelSpec
               /\ QueueSpec /\ DraftSpec /\ AuthSpec /\ PageSpec
<1>1. WebInit => /\ WizardInit /\ FormInit /\ SessionInit /\ PanelInit
                 /\ QueueInit /\ DraftInit /\ AuthInit /\ PageInit
  BY DEF WebInit
<1>2. [WebNext]_webVars => [WizardNext]_wizardVars
  BY DEF WebNext, webVars, NamesNext, PollsNext
<1>3. [WebNext]_webVars => [FormNext]_formVars
  BY DEF WebNext, webVars
<1>4. [WebNext]_webVars => [SessionNext]_sessionVars
  BY DEF WebNext, webVars
<1>5. [WebNext]_webVars => [PanelNext]_panelVars
  BY DEF WebNext, webVars
<1>6. [WebNext]_webVars => [QueueNext]_queueVars
  BY DEF WebNext, webVars
<1>7. [WebNext]_webVars => [DraftNext]_draftVars
  BY DEF WebNext, webVars
<1>8. [WebNext]_webVars => [AuthNext]_authVars
  BY DEF WebNext, webVars
<1>9. [WebNext]_webVars => [PageNext]_pageVars
  BY DEF WebNext, webVars
<1> QED  BY <1>1, <1>2, <1>3, <1>4, <1>5, <1>6, <1>7, <1>8, <1>9, PTL
         DEF WebSpec, WizardSpec, FormSpec, SessionSpec, PanelSpec, QueueSpec,
             DraftSpec, AuthSpec, PageSpec
=============================================================================
