----------------------------- MODULE DeletedSite -----------------------------
(***************************************************************************)
(* What the control plane promises of a deleted tenant, with nothing of    *)
(* how: its site is built, dropped and looked for only while the tenant is *)
(* not deleted, and the tenant becomes deleted only once its site is gone, *)
(* or is left behind by an error that was taken for its absence.  A        *)
(* deleted tenant may be reopened (a provider event overrides the status), *)
(* with the site that was left, never with one built meanwhile.            *)
(***************************************************************************)
VARIABLES
    gone,  \* the tenant is reported as deleted
    site,  \* its site exists
    left   \* it does although it was looked for and not found

Init == ~gone /\ site \in BOOLEAN /\ ~left

Build == ~gone /\ ~site /\ site' = TRUE /\ UNCHANGED <<gone, left>>
Drop == ~gone /\ site /\ site' = FALSE /\ left' = FALSE /\ UNCHANGED gone
Misread == ~gone /\ site /\ left' = TRUE /\ UNCHANGED <<gone, site>>
Bury == ~gone /\ (site => left) /\ gone' = TRUE /\ UNCHANGED <<site, left>>
Reopen == gone /\ gone' = FALSE /\ UNCHANGED <<site, left>>

Next == Build \/ Drop \/ Misread \/ Bury \/ Reopen

Spec == Init /\ [][Next]_<<gone, site, left>>
=============================================================================
