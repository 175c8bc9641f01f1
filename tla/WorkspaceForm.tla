--------------------------- MODULE WorkspaceForm ---------------------------
(***************************************************************************)
(* The create form of a workspace queue, the email verification that       *)
(* blocks it, and the request it makes: createTenantWithCompatibility asks *)
(* again without the chosen app, under a new idempotency key, when the     *)
(* server refuses that field.                                              *)
(***************************************************************************)
EXTENDS Naturals

VARIABLES
    draft,  \* the form and the page's current user
    post,   \* its POST /tenants in flight
    built   \* the workspaces the server has built since the button was pressed

draftVars == <<draft, post, built>>

(* The field normalises what is typed: a name is empty, too short or fine. *)
DraftNames == {"", "ab", "acme"}

NewDraft ==
    [open |-> FALSE, name |-> "", company |-> FALSE, plan |-> "starter",
     app |-> "erpnext", busy |-> FALSE, error |-> FALSE, done |-> FALSE,
     user |-> "unknown", resending |-> FALSE]

NoPost == [pc |-> "none", app |-> FALSE]

DraftInit ==
    /\ draft = NewDraft
    /\ post = NoPost
    /\ built = 0

(* The effect on the plan: only business has an app of its own. *)
DraftCommit(d) ==
    draft' = [d EXCEPT !.app = IF d.plan = "business" THEN @ ELSE "erpnext"]

OpenDraft ==
    /\ ~draft.open /\ post = NoPost
    /\ DraftCommit([NewDraft EXCEPT !.open = TRUE])
    /\ UNCHANGED <<post, built>>

(* A request left behind is answered without the form. *)
LeaveDraft ==
    /\ draft.open
    /\ draft' = NewDraft
    /\ UNCHANGED <<post, built>>

EditDraft ==
    /\ draft.open
    /\ \/ \E n \in DraftNames : DraftCommit([draft EXCEPT !.name = n])
       \/ DraftCommit([draft EXCEPT !.company = ~@])
       \/ \E p \in {"starter", "business"} : DraftCommit([draft EXCEPT !.plan = p])
       \/ draft.plan = "business" /\ DraftCommit([draft EXCEPT !.app = "crm"])
    /\ UNCHANGED <<post, built>>

(* A profile not loaded yet does not block. *)
CanCreate == draft.user # "unverified"

DraftUserLoaded ==
    /\ draft.open /\ draft.user = "unknown"
    /\ \E u \in {"verified", "unverified"} : DraftCommit([draft EXCEPT !.user = u])
    /\ UNCHANGED <<post, built>>

DraftResend ==
    /\ draft.open /\ draft.user = "unverified"
    /\ DraftCommit([draft EXCEPT !.resending = ~@])
    /\ UNCHANGED <<post, built>>

(* The button is disabled while the form is busy, and with it Enter. *)
DraftOffered == draft.open /\ ~draft.busy /\ CanCreate

Valid == draft.name = "acme" /\ draft.company

DraftRefused ==
    /\ DraftOffered /\ ~Valid
    /\ DraftCommit([draft EXCEPT !.error = TRUE])
    /\ UNCHANGED <<post, built>>

DraftSubmit ==
    /\ DraftOffered /\ Valid
    /\ post = NoPost
    /\ DraftCommit([draft EXCEPT !.busy = TRUE, !.error = FALSE])
    /\ post' = [pc |-> "sent", app |-> draft.plan = "business"]
    /\ built' = 0

-----------------------------------------------------------------------------
(* The server builds the workspace, or refuses the request. *)
BuildPosted ==
    /\ post.pc = "sent"
    /\ \/ post' = [post EXCEPT !.pc = "built"] /\ built' = built + 1
       \/ \E why \in {"extraField", "refused"} :
             /\ why = "extraField" => post.app
             /\ post' = [post EXCEPT !.pc = why]
             /\ UNCHANGED built
    /\ UNCHANGED draft

(* The answer, or the request itself, is lost. *)
LosePost ==
    /\ post.pc \in {"sent", "built"}
    /\ post' = [post EXCEPT !.pc = "lost"]
    /\ UNCHANGED <<draft, built>>

(* Mutant: a lost answer is tried again as well. *)
ShouldRetryAnyFailure(p) == p.pc \in {"extraField", "lost"} /\ p.app

ShouldRetryWithoutChosenApp(p) == p.pc = "extraField" /\ p.app

RetryWithoutChosenApp ==
    /\ ShouldRetryWithoutChosenApp(post)
    /\ post' = [pc |-> "sent", app |-> FALSE]
    /\ UNCHANGED <<draft, built>>

(* Success empties the fields and refetches the queue before the form is   *)
(* free again; a failure keeps them.                                       *)
PostAnswered ==
    /\ post.pc \in {"built", "extraField", "refused", "lost"}
    /\ ~ShouldRetryWithoutChosenApp(post)
    /\ post' = NoPost
    /\ LET d == IF post.pc = "built"
                THEN [draft EXCEPT !.busy = FALSE, !.name = "", !.company = FALSE,
                                   !.done = TRUE]
                ELSE [draft EXCEPT !.busy = FALSE, !.error = TRUE]
       IN  IF draft.busy THEN DraftCommit(d) ELSE UNCHANGED draft
    /\ UNCHANGED built

DraftNext ==
    \/ OpenDraft \/ LeaveDraft \/ EditDraft \/ DraftUserLoaded \/ DraftResend
    \/ DraftRefused \/ DraftSubmit \/ BuildPosted \/ LosePost
    \/ RetryWithoutChosenApp \/ PostAnswered

DraftSpec == DraftInit /\ [][DraftNext]_draftVars

(***************************************************************************)
(* One press of the button builds one workspace at most: the second        *)
(* request, which no idempotency key ties to the first, follows only a     *)
(* first one that built nothing.                                           *)
(***************************************************************************)
OneWorkspacePerSubmit == built <= 1
=============================================================================
