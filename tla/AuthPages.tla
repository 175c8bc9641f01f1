----------------------------- MODULE AuthPages -----------------------------
(***************************************************************************)
(* The public pages of one visitor: sign in, sign up, the request for a    *)
(* password reset and its completion, the verification of an email (typed  *)
(* token or link) and the impersonation handoff.  Each has one form, the   *)
(* busy flag its button is disabled by, a notice and an error; its request *)
(* is answered late, lost, or heard by a page that was left.  What becomes *)
(* of the token is in BrowserSession.                                      *)
(***************************************************************************)
EXTENDS Naturals, FiniteSets

VARIABLES
    pane,     \* the page shown
    calls,    \* its requests in flight
    account   \* the server: whether the account exists, which password it
              \* has, and which one-time tokens are left

authVars == <<pane, calls, account>>

AuthForms == {"login", "signup", "forgot", "reset", "verify"}
Links == {"verifyLink", "impersonate"}

NoPane == [form |-> "none", busy |-> FALSE, notice |-> FALSE, error |-> FALSE,
           signedIn |-> FALSE]

AuthInit ==
    /\ pane = NoPane
    /\ calls = {}
    /\ account = [exists |-> FALSE, password |-> "none", verified |-> FALSE,
                  tokens |-> {}]

Asking(p) == IF p.form = "verifyLink" THEN "verify" ELSE p.form

Call(step, password) == [step |-> step, password |-> password]

(***************************************************************************)
(* Opening a page.  Whoever has a token is sent on from the first three; a *)
(* link is acted on at once.  The answers a page was waiting for are       *)
(* ignored; what they ask is done.                                         *)
(***************************************************************************)
HasToken(c, step) == c.step = step /\ step \in account.tokens

Effect(c) ==
    CASE c.step = "signup" /\ ~account.exists ->
             [exists |-> TRUE, password |-> c.password, verified |-> FALSE,
              tokens |-> {"verify"}]
      [] c.step = "forgot" /\ account.exists ->
             [account EXCEPT !.tokens = @ \cup {"reset"}]
      [] HasToken(c, "verify") ->
             [account EXCEPT !.tokens = @ \ {"verify"}, !.verified = TRUE]
      [] HasToken(c, "reset") ->
             [account EXCEPT !.tokens = @ \ {"reset"}, !.password = c.password]
      [] OTHER -> account

Leaving(next) ==
    /\ pane' = next
    /\ calls' = {}
    /\ account' \in {account} \cup {Effect(c) : c \in calls}

OpenAuthForm(form) ==
    /\ ~(pane.signedIn /\ form \in {"login", "signup", "forgot"})
    /\ Leaving([NoPane EXCEPT !.form = form, !.signedIn = pane.signedIn])

OpenLink(link) ==
    /\ Leaving([NoPane EXCEPT !.form = link, !.busy = TRUE, !.signedIn = pane.signedIn])

(* The effect of a link sends its request; so does a form that is filled   *)
(* in.  The reset form checks its fields itself.                           *)
StartLink ==
    /\ pane.form \in Links /\ pane.busy /\ calls = {} /\ ~pane.notice /\ ~pane.error
    /\ calls' = {Call(Asking(pane), "none")}
    /\ UNCHANGED <<pane, account>>

InvalidReset ==
    /\ pane.form = "reset" /\ ~pane.busy
    /\ pane' = [pane EXCEPT !.error = TRUE, !.notice = FALSE]
    /\ UNCHANGED <<calls, account>>

(* Mutant: the button stays enabled. *)
FormOfferedAlways(p) == p.form \in AuthForms

(* The button is disabled while the page is busy.  A verification link     *)
(* leaves its token in the form.                                           *)
FormOffered(p) == p.form \in AuthForms \cup {"verifyLink"} /\ ~p.busy

(* Bound: two requests of a page in flight. *)
SubmitAuth(password) ==
    /\ FormOffered(pane)
    /\ Cardinality(calls) < 2
    /\ pane' = [pane EXCEPT !.busy = TRUE, !.error = FALSE,
                            !.notice = pane.form = "login" /\ @]
    /\ calls' = calls \cup {Call(Asking(pane), password)}
    /\ UNCHANGED account

-----------------------------------------------------------------------------
(* The answers.  One that is lost looks like one that failed, whether the  *)
(* server acted or not.                                                    *)
Failed(c) ==
    /\ pane' = [pane EXCEPT !.busy = FALSE, !.error = TRUE]
    /\ calls' = calls \ {c}

AuthFails(c) ==
    /\ Failed(c)
    /\ account' \in {account, Effect(c)}

Told(c) ==
    /\ pane' = [pane EXCEPT !.busy = FALSE, !.notice = TRUE]
    /\ calls' = calls \ {c}

(* Forgot never says whether there is such an account. *)
AuthSucceeds(c) ==
    /\ c.step = "forgot" \/ HasToken(c, "reset") \/ HasToken(c, "verify")
    /\ Told(c)
    /\ account' = Effect(c)

(* Mutant: the account is announced before the sign-in. *)
SignupTold(c) ==
    /\ c.step = "signup"
    /\ account' = Effect(c)
    /\ calls' = (calls \ {c}) \cup {Call("login", c.password)}
    /\ pane' = [pane EXCEPT !.notice = TRUE]

(* A sign-up is answered alike for a new and for a known address, and then *)
(* signs in with the password it was given.                                *)
SignupAnswered(c) ==
    /\ c.step = "signup"
    /\ account' = Effect(c)
    /\ calls' = (calls \ {c}) \cup {Call("login", c.password)}
    /\ UNCHANGED pane

(* Signed in: on to the overview, the sign-up with a notice before. *)
LoginAnswered(c) ==
    /\ c.step = "login" /\ account.exists /\ account.password = c.password
    /\ pane' = [pane EXCEPT !.busy = FALSE, !.signedIn = TRUE,
                            !.notice = @ \/ pane.form = "signup"]
    /\ calls' = calls \ {c}
    /\ UNCHANGED account

Impersonated(c) ==
    /\ c.step = "impersonate"
    /\ pane' = [pane EXCEPT !.busy = FALSE, !.notice = TRUE, !.signedIn = TRUE]
    /\ calls' = calls \ {c}
    /\ UNCHANGED account

SignOut ==
    /\ pane.signedIn /\ calls = {}
    /\ pane' = [NoPane EXCEPT !.form = "login", !.notice = TRUE]
    /\ UNCHANGED <<calls, account>>

AuthNext ==
    \/ \E form \in AuthForms : OpenAuthForm(form)
    \/ \E link \in Links : OpenLink(link)
    \/ StartLink \/ InvalidReset \/ SignOut
    \/ \E password \in {"old", "new"} : SubmitAuth(password)
    \/ \E c \in calls :
          \/ AuthFails(c) \/ AuthSucceeds(c)
          \/ SignupAnswered(c) \/ LoginAnswered(c) \/ Impersonated(c)

AuthSpec == AuthInit /\ [][AuthNext]_authVars

(***************************************************************************)
(* A page that says done does not say failed as well: the late answer of   *)
(* another attempt does not contradict it.  The login page may greet and   *)
(* refuse at once.                                                         *)
(***************************************************************************)
OneOutcomeShown ==
    pane.form # "login" => ~(pane.notice /\ pane.error)

(***************************************************************************)
(* What a page tells the visitor has happened on the server: the email is  *)
(* verified, and an account that can sign in exists after a sign-up.       *)
(***************************************************************************)
NoticesAreTrue ==
    /\ pane.form \in {"verify", "verifyLink"} /\ pane.notice => account.verified
    /\ pane.form = "signup" /\ pane.notice => account.exists /\ pane.signedIn
=============================================================================
