--------------------------- MODULE BrowserSession ---------------------------
(***************************************************************************)
(* The session of one browser tab: the access token in localStorage, the   *)
(* refresh cookie in the browser's jar, and those who refresh: the session *)
(* manager every minute, the shell when a page opens, and every API        *)
(* request that finds its token about to expire or refused.  They share no *)
(* guard, and a refresh token can be used once.                            *)
(*                                                                         *)
(* saveToken copies the token into cookies that expire with it, so the     *)
(* middleware sees a token exactly while it is live.                       *)
(***************************************************************************)
EXTENDS Naturals, FiniteSets

VARIABLES
    token,      \* the life left of the token in localStorage
    jar,        \* the refresh cookie: "good", "spent" or "none"
    refreshes,  \* refresh requests in flight: who asked, the cookie, the reply
    req,        \* one API request: idle, refreshing, sent, retrying, resent
    screen,     \* the page shown: "landing", "login" or "app"
    shell       \* what AppShell does: away, checking, asking, shown

sessionVars == <<token, jar, refreshes, req, screen, shell>>

(* More than ten minutes, more than one minute, some seconds, none. *)
Lives == {"fresh", "near", "last", "expired"}
Live(life) == life \in {"fresh", "near", "last"}

SessionInit ==
    /\ token = "none"
    /\ jar = "none"
    /\ refreshes = {}
    /\ req = "idle"
    /\ screen = "landing"
    /\ shell = "away"

-----------------------------------------------------------------------------
(***************************************************************************)
(* POST /auth/refresh.  The server revokes the refresh token it was sent   *)
(* and sets the next one with its answer.                                  *)
(***************************************************************************)
Refreshing(by) == \E r \in refreshes : r.by = by

(* Bound: two of them in flight. *)
SendRefresh(by) ==
    /\ Cardinality(refreshes) < 2
    /\ refreshes' = refreshes \cup {[by |-> by, cookie |-> jar, reply |-> "pending"]}

(* It checks and revokes in two commands: another check may get in between. *)
(* The answer may be lost, and its cookie with it.                          *)
ServeRefresh(r, raced) ==
    /\ r.reply = "pending"
    /\ \E reply \in IF r.cookie = "good" THEN {"ok", "lost"} ELSE {"refused"} :
          LET spent == r.cookie = "good"
              left == {IF spent /\ s.reply = "pending" /\ ~raced
                       THEN [s EXCEPT !.cookie = "spent"] ELSE s :
                       s \in refreshes \ {r}}
          IN  /\ refreshes' = left \cup {[r EXCEPT !.reply = reply]}
              /\ jar' = IF spent /\ jar = "good" THEN "spent" ELSE jar
    /\ UNCHANGED <<token, req, screen, shell>>

(* The network loses the request. *)
LoseRefresh(r) ==
    /\ r.reply = "pending"
    /\ refreshes' = (refreshes \ {r}) \cup {[r EXCEPT !.reply = "lost"]}
    /\ UNCHANGED <<token, jar, req, screen, shell>>

Delivered(r) ==
    /\ r.reply # "pending"
    /\ refreshes' = refreshes \ {r}
    /\ jar' = IF r.reply = "ok" THEN "good" ELSE jar

-----------------------------------------------------------------------------
(***************************************************************************)
(* notifySessionExpired clears the token, and the session manager, which   *)
(* listens for its event, pushes the login page.                           *)
(***************************************************************************)
ToLogin ==
    /\ screen' = "login"
    /\ shell' = "away"

SessionExpired ==
    /\ token' = "none"
    /\ ToLogin

(* Mutant: a token that has expired is left to the next request. *)
ManagerRefreshesInTime ==
    /\ token \in {"near", "last"}
    /\ ~Refreshing("manager")
    /\ SendRefresh("manager")
    /\ UNCHANGED <<token, jar, req, screen, shell>>

(* The manager looks at the token when it mounts and every minute. *)
ManagerRefreshes ==
    /\ token \in {"near", "last", "expired"}
    /\ ~Refreshing("manager")
    /\ SendRefresh("manager")
    /\ UNCHANGED <<token, jar, req, screen, shell>>

(* refreshAuthSession makes any error nothing, and nothing clears the      *)
(* token; a refusal has notified before.                                   *)
ManagerAnswered(r) ==
    /\ r.by = "manager"
    /\ Delivered(r)
    /\ CASE r.reply = "ok" -> token' = "fresh" /\ UNCHANGED <<screen, shell>>
         [] r.reply = "refused" -> SessionExpired
         [] OTHER -> token' = "none" /\ UNCHANGED <<screen, shell>>
    /\ UNCHANGED req

-----------------------------------------------------------------------------
(***************************************************************************)
(* request() in api.ts: a refresh first if a minute or less is left, one   *)
(* refresh and one retry after a 401, and a 401 after that ends the        *)
(* session.                                                                *)
(***************************************************************************)
StartRequest ==
    /\ req = "idle" /\ screen = "app"
    /\ IF token \in {"last", "expired"}
       THEN req' = "refreshing" /\ SendRefresh("request")
       ELSE req' = "sent" /\ UNCHANGED refreshes
    /\ UNCHANGED <<token, jar, screen, shell>>

(* Mutant: the retry may be refused and refreshed for again, without end. *)
RequestRefreshedAgain(r) ==
    /\ r.by = "request"
    /\ Delivered(r)
    /\ req' = "sent"
    /\ token' = IF r.reply = "ok" THEN "fresh" ELSE token
    /\ UNCHANGED <<screen, shell>>

RequestRefreshed(r) ==
    /\ r.by = "request"
    /\ Delivered(r)
    /\ IF r.reply = "ok"
       THEN /\ token' = "fresh"
            /\ req' = IF req = "refreshing" THEN "sent" ELSE "resent"
            /\ UNCHANGED <<screen, shell>>
       ELSE IF req = "refreshing"
            THEN req' = "sent" /\ UNCHANGED <<token, screen, shell>>
            ELSE SessionExpired /\ req' = "idle"

(* An answer other than a 401, or none, is the caller's to handle. *)
RequestAnswered ==
    /\ req \in {"sent", "resent"}
    /\ req' = "idle"
    /\ UNCHANGED <<token, jar, refreshes, screen, shell>>

RequestRefused ==
    /\ req = "sent"
    /\ req' = "retrying"
    /\ SendRefresh("request")
    /\ UNCHANGED <<token, jar, screen, shell>>

RetryRefused ==
    /\ req = "resent"
    /\ req' = "idle"
    /\ SessionExpired
    /\ UNCHANGED <<jar, refreshes>>

-----------------------------------------------------------------------------
(***************************************************************************)
(* Pages: the middleware's decision, the login page and AppShell.          *)
(***************************************************************************)
Admitted(p) ==
    CASE p = "login" /\ Live(token) -> "app"
      [] p = "app" /\ ~Live(token) -> "login"
      [] OTHER -> p

(* A shell whose page changes no longer hears its refresh. *)
Unheard == {IF r.by = "shell" THEN [r EXCEPT !.by = "nobody"] ELSE r : r \in refreshes}

(* The login page sends whoever has a token on; the middleware sends those *)
(* with an expired one back, so they stay.                                 *)
Visit(p) ==
    /\ screen' = Admitted(p)
    /\ shell' = IF screen' = "app" THEN "checking" ELSE "away"
    /\ refreshes' = Unheard
    /\ UNCHANGED <<token, jar, req>>

SignIn ==
    /\ screen = "login"
    /\ token' = "fresh"
    /\ jar' = "good"
    /\ screen' = "app"
    /\ shell' = "checking"
    /\ refreshes' = Unheard
    /\ UNCHANGED req

(* A wrong password is a 401 like any other. *)
SignInRefused ==
    /\ screen = "login"
    /\ SessionExpired
    /\ UNCHANGED <<jar, refreshes, req>>

(* Logging out is a link to the login page: the cookie stays. *)
Logout ==
    /\ screen = "app"
    /\ token' = "none"
    /\ ToLogin
    /\ refreshes' = Unheard
    /\ UNCHANGED <<jar, req>>

ShellChecks ==
    /\ shell = "checking"
    /\ IF Live(token)
       THEN shell' = "shown" /\ UNCHANGED refreshes
       ELSE shell' = "asking" /\ SendRefresh("shell")
    /\ UNCHANGED <<token, jar, req, screen>>

ShellAnswered(r) ==
    /\ r.by = "shell" /\ shell = "asking"
    /\ Delivered(r)
    /\ IF r.reply = "ok"
       THEN token' = "fresh" /\ shell' = "shown" /\ UNCHANGED screen
       ELSE SessionExpired
    /\ UNCHANGED req

(* An unheard refresh still sets its cookie, and a refused one still       *)
(* notifies; its new token is dropped.                                     *)
NobodyAnswered(r) ==
    /\ r.by \in {"nobody", "shell"}
    /\ r.by = "shell" => shell # "asking"
    /\ Delivered(r)
    /\ IF r.reply = "refused" THEN SessionExpired
       ELSE UNCHANGED <<token, screen, shell>>
    /\ UNCHANGED req

(* Time passes. *)
Older(life) ==
    CASE life = "fresh" -> "near"
      [] life = "near" -> "last"
      [] life = "last" -> "expired"
      [] OTHER -> life

Age ==
    /\ token' = Older(token)
    /\ UNCHANGED <<jar, refreshes, req, screen, shell>>

SessionAnswer ==
    \/ \E r \in refreshes :
          \/ \E raced \in BOOLEAN : ServeRefresh(r, raced)
          \/ LoseRefresh(r)
          \/ ManagerAnswered(r) \/ RequestRefreshed(r)
          \/ ShellAnswered(r) \/ NobodyAnswered(r)
    \/ RequestAnswered \/ RequestRefused \/ RetryRefused

SessionNext ==
    \/ SessionAnswer
    \/ ManagerRefreshes \/ ShellChecks \/ StartRequest
    \/ \E p \in {"login", "app"} : Visit(p)
    \/ SignIn \/ SignInRefused \/ Logout \/ Age

(* The server or the network ends every refresh, and whoever asked hears;  *)
(* a request is answered; the manager's interval keeps running.            *)
Heard(by) ==
    \E r \in refreshes :
        /\ r.by \in by
        /\ \/ \E raced \in BOOLEAN : ServeRefresh(r, raced)
           \/ LoseRefresh(r)
           \/ ManagerAnswered(r) \/ RequestRefreshed(r)
           \/ ShellAnswered(r) \/ NobodyAnswered(r)

SessionFairness ==
    /\ WF_sessionVars(Heard({"manager"}))
    /\ WF_sessionVars(Heard({"request"}))
    /\ WF_sessionVars(Heard({"shell", "nobody"}))
    /\ WF_sessionVars(RequestAnswered \/ RequestRefused \/ RetryRefused)
    /\ SF_sessionVars(ManagerRefreshes)

SessionSpec == SessionInit /\ [][SessionNext]_sessionVars /\ SessionFairness

(***************************************************************************)
(* An expired token in localStorage is renewed or cleared in the end: the  *)
(* login page, which passes on whoever has a token, does not keep the user *)
(* going round.                                                            *)
(***************************************************************************)
ExpiredIsReplaced == (token = "expired") ~> (token # "expired")

(***************************************************************************)
(* A request ends, whatever its refreshes and its retry come to.           *)
(***************************************************************************)
RequestEnds == (req # "idle") ~> (req = "idle")
=============================================================================
