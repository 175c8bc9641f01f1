-------------------------- MODULE OnboardingProofs --------------------------
(***************************************************************************)
(* Proofs about Onboarding, for any set of names, any subset of the tenant *)
(* statuses and any limit of the polls: the safety of the wizard.          *)
(***************************************************************************)
EXTENDS Onboarding, TLAPS

(* The types of what the page keeps, asks for and stores.                  *)
NamesOrNone == Names \cup {NoName}

PageStates ==
    [step : Steps \cup {"closed"}, name : NamesOrNone, tenant : NamesOrNone,
     status : SiteStatuses \cup {"none"}, url : BOOLEAN,
     avail : [name : NamesOrNone, free : BOOLEAN], checking : BOOLEAN,
     restored : BOOLEAN, polling : BOOLEAN, timer : BOOLEAN,
     polls : 0 .. MaxPolls, hidden : BOOLEAN,
     ready : {"unknown", "checking", "ready", "notReady"}]

Ops == {"check", "poll", "look", "ready", "restore", "submit", "renew", "retry"}
Presses == {"submit", "renew", "retry"}
AskRecords == [op : Ops, name : Names]

Snapshots ==
    [step : Steps \cup {"closed"}, name : NamesOrNone, tenant : NamesOrNone,
     url : BOOLEAN]

Types ==
    /\ wiz \in PageStates
    /\ asks \subseteq AskRecords
    /\ saved \in Snapshots \cup {Nothing}
    /\ sites \in [Names -> SiteStatuses \cup {"free", "other"}]

(* The tenant goes with the step once the restore is answered; before, the *)
(* page is closed, or shows a late step without its tenant.                *)
Restored(w) ==
    IF w.restored
    THEN w.step # "closed" /\ (w.step \in LateSteps <=> w.tenant # NoName)
    ELSE /\ w.tenant = NoName /\ w.status = "none"
         /\ w.step \in {"payment", "waiting", "closed"}

PollsAsDue(w) == w.polling \/ w.timer => Polls(w)

(* While a name can be submitted, the last answer is about that name.      *)
Checked(w) ==
    w.restored /\ w.step \in {"details", "plan"} /\ ~w.checking /\ w.avail.free
        => w.avail.name = w.name

Sound(w) == Restored(w) /\ PollsAsDue(w) /\ Checked(w)

(* What is stored is what is shown, once that is restored.                 *)
StoredIs(w, now) ==
    /\ w.restored => now = IF w.step = "success" THEN Nothing ELSE Snapshot(w)
    /\ now # Nothing =>
          /\ now.step \notin {"success", "closed"}
          /\ now.step \in LateSteps <=> now.tenant # NoName

(* A request in flight is about the page it will be answered to, or about  *)
(* a tenant that is lost.                                                  *)
Relevant(c, w, now, st) ==
    /\ c.op = "check" => c.name = w.name
    /\ c.op \in {"poll", "look"} => c.name = w.tenant /\ w.step = "waiting"
    /\ c.op = "restore" => ~w.restored /\ now # Nothing /\ now.tenant = c.name
    /\ c.op = "submit" => w.restored /\ w.step \in {"details", "plan"}
    /\ c.op \in {"renew", "retry"} =>
          w.restored /\ (w.tenant = c.name \/ st[c.name] = "other")

OnePress(cs) == \A c, d \in cs : c.op \in Presses /\ d.op \in Presses => c = d

TenantTaken(w, st) == w.tenant # NoName => st[w.tenant] # "free"

WizardInv ==
    /\ Types
    /\ Sound(wiz)
    /\ StoredIs(wiz, saved)
    /\ \A c \in asks : Relevant(c, wiz, saved, sites)
    /\ OnePress(asks)
    /\ TenantTaken(wiz, sites)
-----------------------------------------------------------------------------
(***************************************************************************)
(* What a commit and its effects preserve.                                 *)
(***************************************************************************)
USE DEF NoName

(* What the assumption on the constants says of them.                      *)
LEMMA ConstantFacts ==
    /\ NoName \notin Names
    /\ SiteStatuses \subseteq TenantStatuses
    /\ {"pending_payment", "pending"} \subseteq SiteStatuses
    /\ MaxPolls \in Nat \ {0}
    /\ {"free", "other", "none"} \cap SiteStatuses = {}
    /\ {0, MaxPolls} \subseteq 0 .. MaxPolls
    /\ \A k \in 0 .. MaxPolls : k + 1 >= MaxPolls \/ k + 1 \in 0 .. MaxPolls
<1>1. MaxPolls \in Nat \ {0}
  BY WizardAssumption DEF WizardAssumption
<1>2. /\ {0, MaxPolls} \subseteq 0 .. MaxPolls
      /\ \A k \in 0 .. MaxPolls : k + 1 >= MaxPolls \/ k + 1 \in 0 .. MaxPolls
  BY <1>1
<1> QED
  BY <1>1, <1>2, WizardAssumption DEF WizardAssumption, TenantStatuses, Suspensions

(* Every status of a tenant has a late step: deriveOnboardingStep.         *)
LEMMA LateStep ==
    ASSUME NEW s \in SiteStatuses, NEW url \in BOOLEAN
    PROVE  DeriveStep(s, url) \in LateSteps
<1>1. s \in {"active", "pending_payment"} \cup WaitingStatuses
  BY ConstantFacts DEF TenantStatuses, WaitingStatuses, Suspensions
<1>2. CASE s = "active"
  BY <1>2 DEF DeriveStep, LateSteps
<1>3. CASE s # "active" /\ s = "pending_payment"
  BY <1>3 DEF DeriveStep, LateSteps
<1>4. CASE s # "active" /\ s # "pending_payment"
  BY <1>1, <1>4 DEF DeriveStep, LateSteps
<1> QED
  BY <1>2, <1>3, <1>4

(* The effects change the checking, polling and readiness flags only.      *)
LEMMA EffectsTyped ==
    ASSUME NEW old \in PageStates, NEW w \in PageStates,
           NEW v, v = Effects(old, w)
    PROVE  /\ v \in PageStates
           /\ v.step = w.step /\ v.name = w.name /\ v.tenant = w.tenant
           /\ v.status = w.status /\ v.url = w.url
           /\ v.restored = w.restored /\ v.hidden = w.hidden
<1> DEFINE recheck == CheckDeps(old) # CheckDeps(w)
           restep == StepDeps(old) # StepDeps(w)
           checking == IF recheck THEN Checks(w) /\ w.name # NoName ELSE w.checking
           avail == IF recheck /\ Checks(w) /\ w.name = NoName
                    THEN NoAnswer ELSE w.avail
           polling == IF restep THEN Polls(w) ELSE w.polling
           timer == IF restep THEN Polls(w) /\ ~w.hidden ELSE w.timer
           polls == IF restep /\ Polls(w) THEN 0 ELSE w.polls
           ready == IF restep /\ Asks(w) THEN "checking" ELSE w.ready
<1>1. v = [w EXCEPT !.checking = checking, !.avail = avail, !.polling = polling,
                    !.timer = timer, !.polls = polls, !.ready = ready]
  BY DEF Effects
<1>2. checking \in BOOLEAN /\ polling \in BOOLEAN /\ timer \in BOOLEAN
  BY DEF PageStates, Checks, Polls
<1>3. avail \in [name : NamesOrNone, free : BOOLEAN]
  BY DEF PageStates, NoAnswer, NamesOrNone
<1>4. polls \in 0 .. MaxPolls
  <2>1. w.polls \in 0 .. MaxPolls
    BY DEF PageStates
  <2>2. 0 \in 0 .. MaxPolls
    BY ConstantFacts
  <2> QED
    BY <2>1, <2>2
<1>5. ready \in {"unknown", "checking", "ready", "notReady"}
  BY DEF PageStates
<1> HIDE DEF recheck, restep, checking, avail, polling, timer, polls, ready
<1>6. /\ v.step = w.step /\ v.name = w.name /\ v.tenant = w.tenant
      /\ v.status = w.status /\ v.url = w.url
      /\ v.restored = w.restored /\ v.hidden = w.hidden
  BY <1>1 DEF PageStates
<1>7. v \in PageStates
  <2>1. [w EXCEPT !.checking = checking, !.avail = avail] \in PageStates
    BY <1>2, <1>3 DEF PageStates
  <2>2. [[w EXCEPT !.checking = checking, !.avail = avail]
            EXCEPT !.polling = polling, !.timer = timer] \in PageStates
    BY <1>2, <2>1 DEF PageStates
  <2>3. [[[w EXCEPT !.checking = checking, !.avail = avail]
             EXCEPT !.polling = polling, !.timer = timer]
            EXCEPT !.polls = polls, !.ready = ready] \in PageStates
    BY <1>4, <1>5, <2>2 DEF PageStates
  <2> QED
    BY <1>1, <2>3, Zenon
<1> QED
  BY <1>6, <1>7

(* A sound page stays sound through its effects.                           *)
LEMMA EffectsSound ==
    ASSUME NEW old \in PageStates, NEW w \in PageStates,
           Restored(w),
           StepDeps(old) = StepDeps(w) => PollsAsDue(w),
           CheckDeps(old) = CheckDeps(w) => Checked(w),
           NEW v, v = Effects(old, w)
    PROVE  Sound(v)
<1>1. /\ v \in PageStates
      /\ v.step = w.step /\ v.name = w.name /\ v.tenant = w.tenant
      /\ v.status = w.status /\ v.restored = w.restored
  BY EffectsTyped
<1>2. Restored(v)
  BY <1>1 DEF Restored
<1>3. PollsAsDue(v)
  <2>1. Polls(v) <=> Polls(w)
    BY <1>1 DEF Polls
  <2>2. CASE StepDeps(old) = StepDeps(w)
    <3>1. v.polling = w.polling /\ v.timer = w.timer
      BY <2>2 DEF Effects, PageStates
    <3> QED
      BY <2>1, <2>2, <3>1 DEF PollsAsDue
  <2>3. CASE StepDeps(old) # StepDeps(w)
    <3>1. v.polling = Polls(w) /\ v.timer = (Polls(w) /\ ~w.hidden)
      BY <2>3 DEF Effects, PageStates
    <3> QED
      BY <2>1, <3>1 DEF PollsAsDue
  <2> QED
    BY <2>2, <2>3
<1>4. Checked(v)
  <2>1. CASE CheckDeps(old) = CheckDeps(w)
    <3>1. v.checking = w.checking /\ v.avail = w.avail
      BY <2>1 DEF Effects, PageStates
    <3> QED
      BY <1>1, <2>1, <3>1 DEF Checked
  <2>2. CASE CheckDeps(old) # CheckDeps(w)
    <3> SUFFICES ASSUME v.restored, v.step \in {"details", "plan"}, ~v.checking
                 PROVE  ~v.avail.free
      BY DEF Checked
    <3>1. Checks(w)
      BY <1>1 DEF Restored, Checks, LateSteps
    <3>2. v.checking = (Checks(w) /\ w.name # NoName)
      BY <2>2 DEF Effects, PageStates
    <3>3. w.name = NoName
      BY <3>1, <3>2
    <3>4. v.avail = NoAnswer
      BY <2>2, <3>1, <3>3 DEF Effects, PageStates
    <3>5. NoAnswer.free = FALSE
      BY DEF NoAnswer
    <3> QED
      BY <3>4, <3>5
  <2> QED
    BY <2>1, <2>2
<1> QED
  BY <1>2, <1>3, <1>4 DEF Sound

(* What the page stores is a stable snapshot.                              *)
StoredOK(now) ==
    /\ now \in Snapshots \cup {Nothing}
    /\ now # Nothing =>
          /\ now.step \notin {"success", "closed"}
          /\ now.step \in LateSteps <=> now.tenant # NoName

(* The requests that survive a commit from old to w.                       *)
Survives(c, old, w, st) ==
    CASE c.op = "check" -> CheckDeps(old) = CheckDeps(w) => c.name = w.name
      [] c.op \in {"poll", "look"} ->
             StepDeps(old) = StepDeps(w) => c.name = w.tenant /\ w.step = "waiting"
      [] OTHER -> Relevant(c, w, saved, st)

(* The persistence effect stores what a restored page shows.               *)
LEMMA StoredKeeps ==
    ASSUME NEW v \in PageStates, Restored(v), StoredOK(saved),
           NEW now, now = Stored(saved, v)
    PROVE  StoredOK(now) /\ StoredIs(v, now)
<1>1. CASE ~v.restored
  BY <1>1 DEF Stored, StoredOK, StoredIs
<1>2. CASE v.restored /\ v.step = "success"
  BY <1>2 DEF Stored, StoredOK, StoredIs
<1>3. CASE v.restored /\ v.step # "success"
  <2>1. now = Snapshot(v)
    BY <1>3 DEF Stored
  <2>2. now \in Snapshots /\ now.step = v.step /\ now.tenant = v.tenant
    BY <2>1 DEF Snapshot, Snapshots, PageStates
  <2>3. v.step # "closed" /\ (v.step \in LateSteps <=> v.tenant # NoName)
    BY <1>3 DEF Restored
  <2> QED
    BY <1>3, <2>1, <2>2, <2>3 DEF StoredOK, StoredIs
<1> QED
  BY <1>1, <1>2, <1>3 DEF PageStates

(* A commit of a sound page with requests that concern it.                 *)
LEMMA SettleKeeps ==
    ASSUME NEW old \in PageStates, NEW w \in PageStates, NEW cs \in SUBSET AskRecords,
           StoredOK(saved),
           sites' \in [Names -> SiteStatuses \cup {"free", "other"}],
           Restored(w), TenantTaken(w, sites'), OnePress(cs),
           StepDeps(old) = StepDeps(w) => PollsAsDue(w),
           CheckDeps(old) = CheckDeps(w) => Checked(w),
           \A c \in cs : Survives(c, old, w, sites'),
           Settle(old, w, cs)
    PROVE  WizardInv'
<1>0. PICK v : v = wiz'
  OBVIOUS
<1>1. /\ v = Effects(old, w)
      /\ asks' = {c \in cs : Kept(old, v, c)} \cup Starts(old, v)
      /\ saved' = Stored(saved, v)
  BY <1>0 DEF Settle
<1>2. /\ v \in PageStates
      /\ v.step = w.step /\ v.name = w.name /\ v.tenant = w.tenant
      /\ v.status = w.status /\ v.url = w.url
      /\ v.restored = w.restored /\ v.hidden = w.hidden
  BY <1>1, EffectsTyped
<1>3. Sound(v)
  BY <1>1, EffectsSound
<1>4. StoredOK(saved') /\ StoredIs(v, saved')
  BY <1>1, <1>2, <1>3, StoredKeeps DEF Sound
<1>5. CheckDeps(v) = CheckDeps(w) /\ StepDeps(v) = StepDeps(w)
  BY <1>2 DEF CheckDeps, StepDeps
<1>6. ASSUME NEW c \in Starts(old, v)
      PROVE  /\ c \in AskRecords /\ c.op \in {"check", "ready"}
             /\ c.op = "check" => c.name = v.name
  <2>1. CASE c = Ask("check", v.name) /\ v.checking /\ CheckDeps(old) # CheckDeps(v)
    <3>1. v.checking = (Checks(w) /\ w.name # NoName)
      BY <1>1, <1>5, <2>1 DEF Effects, PageStates
    <3> QED
      BY <1>2, <2>1, <3>1 DEF Ask, AskRecords, Ops, PageStates, NamesOrNone
  <2>2. CASE c = Ask("ready", v.tenant) /\ Asks(v)
    BY <1>2, <2>2 DEF Ask, Asks, AskRecords, Ops, PageStates, NamesOrNone
  <2> QED
    BY <2>1, <2>2 DEF Starts, Ask
<1>7. asks' \subseteq AskRecords
  BY <1>1, <1>6
<1>8. ASSUME NEW c \in cs, Kept(old, v, c)
      PROVE  Relevant(c, v, saved', sites')
  <2>1. CASE c.op = "check"
    BY <1>2, <1>5, <1>8, <2>1 DEF Kept, Survives, Relevant
  <2>2. CASE c.op \in {"poll", "look"}
    BY <1>2, <1>5, <1>8, <2>2 DEF Kept, Survives, Relevant
  <2>3. CASE c.op \notin {"check", "poll", "look"}
    <3>1. Relevant(c, w, saved, sites')
      BY <2>3 DEF Survives
    <3>2. ~v.restored => saved' = saved
      BY <1>1 DEF Stored
    <3> QED
      BY <1>2, <2>3, <3>1, <3>2 DEF Relevant
  <2> QED
    BY <2>1, <2>2, <2>3
<1>9. \A c \in asks' : Relevant(c, v, saved', sites')
  <2>1. ASSUME NEW c \in Starts(old, v)
        PROVE  Relevant(c, v, saved', sites')
    BY <1>6 DEF Relevant
  <2> QED
    BY <1>1, <1>8, <2>1
<1>10. OnePress(asks')
  BY <1>1, <1>6 DEF OnePress, Presses
<1>11. TenantTaken(v, sites')
  BY <1>2 DEF TenantTaken
<1>12. Types'
  BY <1>0, <1>2, <1>4, <1>7 DEF Types, StoredOK
<1> QED
  BY <1>0, <1>3, <1>4, <1>9, <1>10, <1>11, <1>12 DEF WizardInv

(* A commit of the page as it is: what is pressed or restored stays due.   *)
LEMMA CommitKeeps ==
    ASSUME WizardInv, NEW w \in PageStates, NEW cs \in SUBSET asks,
           sites' \in [Names -> SiteStatuses \cup {"free", "other"}],
           Restored(w), TenantTaken(w, sites'),
           StepDeps(wiz) = StepDeps(w) => PollsAsDue(w),
           CheckDeps(wiz) = CheckDeps(w) => Checked(w),
           \A c \in cs : c.op \in Presses \cup {"restore"} =>
               Relevant(c, w, saved, sites'),
           Settle(wiz, w, cs)
    PROVE  WizardInv'
<1>1. StoredOK(saved) /\ cs \in SUBSET AskRecords /\ wiz \in PageStates
  BY DEF WizardInv, Types, StoredOK, StoredIs
<1>2. OnePress(cs)
  BY DEF WizardInv, OnePress
<1>3. ASSUME NEW c \in cs
      PROVE  Survives(c, wiz, w, sites')
  <2>0. Relevant(c, wiz, saved, sites)
    BY DEF WizardInv
  <2>1. CASE c.op = "check"
    BY <2>0, <2>1 DEF Survives, Relevant, CheckDeps
  <2>2. CASE c.op \in {"poll", "look"}
    BY <2>0, <2>2 DEF Survives, Relevant, StepDeps
  <2>3. CASE c.op \in Presses \cup {"restore"}
    BY <2>3 DEF Survives, Presses
  <2>4. CASE c.op = "ready"
    BY <2>4 DEF Survives, Relevant
  <2> QED
    BY <1>1, <2>1, <2>2, <2>3, <2>4 DEF AskRecords, Ops, Presses
<1> QED
  BY <1>1, <1>2, <1>3, SettleKeeps
(* What is stored keeps its tenant, unless the workspace is live.          *)
TenantKept ==
    saved # Nothing /\ saved.tenant # NoName =>
        \/ wiz'.step = "success"
        \/ saved' # Nothing /\ saved'.tenant = saved.tenant

(* A commit of a page with the same tenant stores that tenant.             *)
LEMMA CommitStores ==
    ASSUME WizardInv, NEW w \in PageStates, NEW cs, Settle(wiz, w, cs),
           w.tenant = wiz.tenant, w.restored = wiz.restored
    PROVE  TenantKept
<1>1. wiz' = Effects(wiz, w) /\ saved' = Stored(saved, wiz')
  BY DEF Settle
<1>2. wiz \in PageStates
  BY DEF WizardInv, Types
<1>3. /\ wiz' \in PageStates
      /\ wiz'.tenant = wiz.tenant /\ wiz'.restored = wiz.restored
  BY <1>1, <1>2, EffectsTyped
<1>4. CASE ~wiz.restored
  BY <1>1, <1>3, <1>4 DEF Stored, TenantKept
<1>5. CASE wiz.restored /\ wiz'.step # "success"
  <2>1. saved' = Snapshot(wiz')
    BY <1>1, <1>3, <1>5 DEF Stored
  <2>2. saved # Nothing => saved = Snapshot(wiz)
    BY <1>5 DEF WizardInv, StoredIs
  <2>3. saved'.tenant = wiz.tenant
    BY <1>3, <2>1 DEF Snapshot
  <2>4. saved # Nothing => saved.tenant = wiz.tenant
    BY <2>2 DEF Snapshot
  <2>5. ASSUME saved # Nothing
        PROVE  saved' # Nothing
    <3>1. saved'.step = wiz'.step /\ wiz'.step \in Steps \cup {"closed"}
      BY <1>3, <2>1 DEF Snapshot, PageStates
    <3>2. Nothing.step = "none"
      BY DEF Nothing
    <3> QED
      BY <3>1, <3>2 DEF Steps
  <2> QED
    BY <2>3, <2>4, <2>5 DEF TenantKept
<1> QED
  BY <1>4, <1>5 DEF TenantKept

(* A commit starts checks and readiness questions only.                    *)
LEMMA NewAsks ==
    ASSUME NEW old, NEW w, NEW cs, Settle(old, w, cs), NEW c \in asks' \ cs
    PROVE  c.op \in {"check", "ready"}
<1>1. PICK v : asks' = {d \in cs : Kept(old, v, d)} \cup Starts(old, v)
  BY DEF Settle
<1>2. c \in Starts(old, v)
  BY <1>1
<1> QED
  BY <1>2 DEF Starts
-----------------------------------------------------------------------------
(***************************************************************************)
(* The actions, one by one.                                                *)
(***************************************************************************)

(* Facts of a page in WizardInv that most actions start from.              *)
LEMMA Known ==
    ASSUME WizardInv
    PROVE  /\ wiz \in PageStates /\ Restored(wiz) /\ PollsAsDue(wiz) /\ Checked(wiz)
           /\ TenantTaken(wiz, sites)
           /\ sites \in [Names -> SiteStatuses \cup {"free", "other"}]
           /\ \A c \in asks : c \in AskRecords /\ Relevant(c, wiz, saved, sites)
           /\ wiz.step \in {"details", "plan"} => wiz.restored /\ wiz.tenant = NoName
           /\ wiz.tenant # NoName => wiz.restored
  BY DEF WizardInv, Types, Sound, Restored, LateSteps

(* A page whose step, tenant and restore are as they were.                 *)
LEMMA SameTenant ==
    ASSUME WizardInv, NEW w \in PageStates, NEW st,
           w.step = wiz.step, w.tenant = wiz.tenant, w.restored = wiz.restored,
           w.status \in {wiz.status} \/ w.restored,
           \A n \in Names : sites[n] = "other" => st[n] = "other",
           w.polling \/ w.timer => wiz.polling \/ wiz.timer \/ Polls(wiz)
    PROVE  /\ Restored(w) /\ PollsAsDue(w)
           /\ \A c \in asks : c.op \in Presses \cup {"restore"} =>
                  Relevant(c, w, saved, st)
<1>1. Restored(w)
  BY Known DEF Restored
<1>2. PollsAsDue(w)
  BY Known DEF PollsAsDue, Polls
<1>3. ASSUME NEW c \in asks, c.op \in Presses \cup {"restore"}
      PROVE  Relevant(c, w, saved, st)
  <2>1. Relevant(c, wiz, saved, sites) /\ c.name \in Names
    BY Known DEF AskRecords
  <2> QED
    BY <1>3, <2>1 DEF Relevant, Presses
<1> QED
  BY <1>1, <1>2, <1>3

(* A load or reload starts from what is stored.                            *)
LEMMA MountKeeps == WizardInv /\ Mount => WizardInv' /\ TenantKept
<1> SUFFICES ASSUME WizardInv, Mount
             PROVE  WizardInv' /\ TenantKept
  OBVIOUS
<1>1. StoredOK(saved)
  BY DEF WizardInv, Types, StoredIs, StoredOK
<1>2. Fresh \in PageStates
  BY ConstantFacts DEF Fresh, PageStates, Steps, NamesOrNone, NoAnswer
<1>3. PICK w : w = Parsed
  OBVIOUS
<1>4. NoAnswer.free = FALSE
  BY DEF NoAnswer
<1>5. /\ Fresh.step = "details" /\ Fresh.tenant = NoName /\ Fresh.status = "none"
      /\ ~Fresh.polling /\ ~Fresh.timer /\ Fresh.avail = NoAnswer
  BY DEF Fresh
<1>6. /\ w \in PageStates
      /\ w.tenant = NoName /\ w.status = "none"
      /\ ~w.polling /\ ~w.timer /\ ~w.avail.free
      /\ saved = Nothing => w.restored /\ w.step = "details"
      /\ saved # Nothing => w.step = saved.step /\ (w.restored <=> saved.tenant = NoName)
  <2>1. CASE saved = Nothing
    <3>1. w = [Fresh EXCEPT !.restored = TRUE]
      BY <1>3, <2>1 DEF Parsed
    <3> QED
      BY <1>2, <1>4, <1>5, <2>1, <3>1 DEF PageStates
  <2>2. CASE saved # Nothing
    <3>1. w = [Fresh EXCEPT !.step = saved.step, !.name = saved.name,
                            !.url = saved.url, !.restored = (saved.tenant = NoName)]
      BY <1>3, <2>2 DEF Parsed
    <3>2. /\ saved.step \in Steps \cup {"closed"} /\ saved.name \in NamesOrNone
          /\ saved.url \in BOOLEAN
      BY <1>1, <2>2 DEF StoredOK, Snapshots
    <3>3. w \in PageStates
      BY <1>2, <3>1, <3>2, ZenonT(60) DEF PageStates
    <3> QED
      BY <1>2, <1>4, <1>5, <2>2, <3>1, <3>3, ZenonT(60) DEF PageStates
  <2> QED
    BY <2>1, <2>2
<1>7. Restored(w)
  <2>1. CASE saved = Nothing
    BY <1>6, <2>1 DEF Restored, LateSteps
  <2>2. CASE saved # Nothing
    BY <1>1, <1>6, <2>2 DEF Restored, LateSteps, StoredOK, Snapshots, Steps
  <2> QED
    BY <2>1, <2>2
<1>8. PollsAsDue(w) /\ Checked(w) /\ TenantTaken(w, sites')
  BY <1>6 DEF PollsAsDue, Checked, TenantTaken
<1>9. sites' \in [Names -> SiteStatuses \cup {"free", "other"}]
  BY Known DEF Mount, Unloaded
<1> DEFINE cs == {Ask("restore", n) : n \in IF w.restored THEN {} ELSE {saved.tenant}}
<1>10. Settle(Fresh, w, cs)
  BY <1>3 DEF Mount
<1>11. ASSUME NEW c \in cs
       PROVE  /\ c \in AskRecords /\ c = Ask("restore", saved.tenant)
              /\ Survives(c, Fresh, w, sites')
  <2>1. ~w.restored /\ c = Ask("restore", saved.tenant)
    OBVIOUS
  <2>2. saved # Nothing /\ saved.tenant \in Names
    BY <1>1, <1>6, <2>1 DEF StoredOK, Snapshots, NamesOrNone
  <2>3. c.op = "restore" /\ c.name = saved.tenant /\ c \in AskRecords
    BY <2>1, <2>2 DEF Ask, AskRecords, Ops
  <2> QED
    BY <2>1, <2>2, <2>3 DEF Survives, Relevant
<1>12. OnePress(cs)
  BY <1>11 DEF OnePress
<1>13. TenantKept
  <2>1. wiz' = Effects(Fresh, w) /\ saved' = Stored(saved, wiz')
    BY <1>10 DEF Settle
  <2>2. wiz'.restored = w.restored
    BY <1>2, <1>6, <2>1, EffectsTyped
  <2> QED
    BY <1>6, <2>1, <2>2 DEF Stored, TenantKept
<1> HIDE DEF cs
<1> QED
  BY <1>13, <1>1, <1>2, <1>6, <1>7, <1>8, <1>9, <1>10, <1>11, <1>12, SettleKeeps

(* Leaving the page leaves what is stored.                                 *)
LEMMA LeaveKeeps == WizardInv /\ Leave => WizardInv'
<1> SUFFICES ASSUME WizardInv, Leave
             PROVE  WizardInv'
  OBVIOUS
<1>1. /\ Closed \in PageStates /\ Closed.step = "closed" /\ Closed.tenant = NoName
      /\ Closed.status = "none" /\ ~Closed.restored /\ ~Closed.polling /\ ~Closed.timer
  BY ConstantFacts DEF Closed, Fresh, PageStates, Steps, NamesOrNone, NoAnswer
<1>2. /\ wiz' = Closed /\ asks' = {} /\ saved' = saved
      /\ sites' \in [Names -> SiteStatuses \cup {"free", "other"}]
  BY Known DEF Leave, Unloaded
<1>3. Types'
  BY <1>1, <1>2 DEF WizardInv, Types
<1>4. Sound(wiz')
  BY <1>1, <1>2 DEF Sound, Restored, PollsAsDue, Checked
<1>5. StoredIs(wiz', saved')
  BY <1>1, <1>2 DEF WizardInv, StoredIs
<1>6. OnePress(asks') /\ TenantTaken(wiz', sites')
  BY <1>1, <1>2 DEF OnePress, TenantTaken
<1> QED
  BY <1>2, <1>3, <1>4, <1>5, <1>6 DEF WizardInv

(* Typing another name starts its check and drops the old one.             *)
LEMMA TypeNameKeeps ==
    ASSUME WizardInv, NEW n \in Names \cup {NoName}, TypeName(n)
    PROVE  WizardInv' /\ TenantKept
<1>1. PICK w : w = [wiz EXCEPT !.name = n]
  OBVIOUS
<1>2. Settle(wiz, w, asks) /\ sites' = sites /\ n # wiz.name
  BY <1>1 DEF TypeName, Commit
<1>3. /\ w \in PageStates /\ w.step = wiz.step /\ w.tenant = wiz.tenant
      /\ w.status = wiz.status /\ w.restored = wiz.restored /\ w.name = n
      /\ w.polling = wiz.polling /\ w.timer = wiz.timer
  BY <1>1, Known DEF PageStates, NamesOrNone
<1>4. CheckDeps(wiz) # CheckDeps(w)
  BY <1>2, <1>3 DEF CheckDeps
<1>5. TenantTaken(w, sites')
  BY <1>2, <1>3, Known DEF TenantTaken
<1>6. /\ Restored(w) /\ PollsAsDue(w)
      /\ \A c \in asks : c.op \in Presses \cup {"restore"} =>
             Relevant(c, w, saved, sites')
  BY <1>2, <1>3, SameTenant
<1> QED
  BY <1>2, <1>3, <1>4, <1>5, <1>6, Known, CommitKeeps, CommitStores

(* A press that only moves the step: Continue, Back, and the ways to the   *)
(* waiting page.                                                           *)
LEMMA StepKeeps ==
    ASSUME WizardInv, NEW to \in {"details", "plan", "waiting"},
           IF to = "waiting" THEN wiz.step \in {"payment", "waiting"}
                             ELSE wiz.step \in {"details", "plan"} \ {to},
           Commit([wiz EXCEPT !.step = to]), sites' = sites
    PROVE  WizardInv' /\ TenantKept
<1>1. PICK w : w = [wiz EXCEPT !.step = to]
  OBVIOUS
<1>2. /\ w \in PageStates /\ w.step = to /\ w.tenant = wiz.tenant
      /\ w.status = wiz.status /\ w.restored = wiz.restored
      /\ w.polling = wiz.polling /\ w.timer = wiz.timer
  BY <1>1, Known DEF PageStates, Steps
<1>3. Restored(w)
  BY <1>2, Known DEF Restored, LateSteps
<1>4. StepDeps(wiz) = StepDeps(w) => PollsAsDue(w)
  BY <1>2, Known DEF PollsAsDue, Polls, StepDeps
<1>5. CheckDeps(wiz) = CheckDeps(w) => Checked(w)
  BY <1>2 DEF Checked, CheckDeps
<1>6. TenantTaken(w, sites')
  BY <1>2, Known DEF TenantTaken
<1>7. ASSUME NEW c \in asks, c.op \in Presses \cup {"restore"}
      PROVE  Relevant(c, w, saved, sites')
  <2>1. Relevant(c, wiz, saved, sites)
    BY Known
  <2> QED
    BY <1>2, <1>7, <2>1 DEF Relevant, Presses
<1>8. Settle(wiz, w, asks)
  BY <1>1 DEF Commit
<1> QED
  BY <1>2, <1>3, <1>4, <1>5, <1>6, <1>7, <1>8, Known, CommitKeeps, CommitStores

(* Continue and Back, the checkout and "I already paid".                   *)
LEMMA StepsKeep ==
    WizardInv /\ (Continue \/ Back \/ LaunchCheckout \/ ClaimPaid) =>
        WizardInv' /\ TenantKept
<1> SUFFICES ASSUME WizardInv, Continue \/ Back \/ LaunchCheckout \/ ClaimPaid
             PROVE  WizardInv' /\ TenantKept
  OBVIOUS
<1>1. CASE Continue
  <2>1. wiz.step = "details"
    BY <1>1 DEF Continue, Offered, PlanPanel, PaymentPanel, WaitingPanel
  <2> QED
    BY <1>1, <2>1, StepKeeps DEF Continue
<1>2. CASE Back
  <2>1. wiz.step = "plan"
    BY <1>2 DEF Back, Offered, DetailsPanel, PaymentPanel, WaitingPanel
  <2> QED
    BY <1>2, <2>1, StepKeeps DEF Back
<1>3. CASE LaunchCheckout
  <2>1. wiz.step \in {"payment", "waiting"}
    BY <1>3 DEF LaunchCheckout, Offered, DetailsPanel, PlanPanel
  <2> QED
    BY <1>3, <2>1, StepKeeps DEF LaunchCheckout
<1>4. CASE ClaimPaid
  <2>1. wiz.step = "payment"
    BY <1>4 DEF ClaimPaid, Offered, DetailsPanel, PlanPanel, WaitingPanel
  <2> QED
    BY <1>4, <2>1, StepKeeps DEF ClaimPaid
<1> QED
  BY <1>1, <1>2, <1>3, <1>4

(* Pressing a button that sends a request.                                 *)
LEMMA RequestKeeps ==
    ASSUME WizardInv, NEW op \in Presses, NEW n \in Names, Request(op, n),
           wiz.restored,
           op = "submit" => wiz.step \in {"details", "plan"},
           op # "submit" => wiz.tenant = n
    PROVE  WizardInv'
<1>1. /\ wiz' = wiz /\ saved' = saved /\ sites' = sites
      /\ asks' = asks \cup {Ask(op, n)}
      /\ \A c \in asks : c.op \notin Presses
  BY DEF Request, Presses
<1>2. /\ Ask(op, n) \in AskRecords
      /\ Ask(op, n).op = op /\ Ask(op, n).name = n
  BY DEF Ask, AskRecords, Ops, Presses
<1>3. Relevant(Ask(op, n), wiz, saved, sites)
  BY <1>2 DEF Relevant, Presses
<1>4. OnePress(asks')
  BY <1>1 DEF OnePress
<1>5. Types'
  BY <1>1, <1>2 DEF WizardInv, Types
<1> QED
  BY <1>1, <1>3, <1>4, <1>5 DEF WizardInv

(* Submit, a new checkout link, a retry of the provisioning.               *)
LEMMA PressesKeep ==
    WizardInv /\ (Submit \/ RenewCheckout \/ RetryProvisioning) => WizardInv'
<1> SUFFICES ASSUME WizardInv, Submit \/ RenewCheckout \/ RetryProvisioning
             PROVE  WizardInv'
  OBVIOUS
<1>1. CASE Submit
  <2>1. wiz.step = "plan" /\ wiz.name \in Names
    BY <1>1 DEF Submit, Offered, DetailsPanel, PaymentPanel, WaitingPanel,
                PlanPanel, CanUseSubdomain
  <2>2. wiz.restored
    BY <2>1, Known
  <2>3. Request("submit", wiz.name) /\ "submit" \in Presses
    BY <1>1 DEF Submit, Presses
  <2> QED
    BY <2>1, <2>2, <2>3, RequestKeeps
<1>2. ASSUME NEW op \in {"renew", "retry"}, Request(op, wiz.tenant), wiz.tenant # NoName
      PROVE  WizardInv'
  <2>1. wiz.tenant \in Names /\ wiz.restored /\ op \in Presses
    BY <1>2, Known DEF PageStates, NamesOrNone, Presses
  <2> QED
    BY <1>2, <2>1, RequestKeeps
<1> QED
  BY <1>1, <1>2 DEF RenewCheckout, RetryProvisioning

(* The timer and the visibility of the tab: nothing is committed that an   *)
(* effect depends on.                                                      *)
LEMMA QuietKeeps ==
    ASSUME WizardInv, NEW w \in PageStates, wiz' = w, saved' = saved, sites' = sites,
           w.step = wiz.step, w.name = wiz.name, w.tenant = wiz.tenant,
           w.status = wiz.status, w.url = wiz.url, w.avail = wiz.avail,
           w.checking = wiz.checking, w.restored = wiz.restored,
           w.polling \/ w.timer => wiz.polling \/ wiz.timer,
           NEW new, new \subseteq {Ask("poll", wiz.tenant), Ask("look", wiz.tenant)},
           new # {} => Polls(wiz), asks' = asks \cup new
    PROVE  WizardInv'
<1>1. Sound(w)
  BY Known DEF Sound, Restored, PollsAsDue, Polls, Checked
<1>2. ASSUME NEW c \in new
      PROVE  /\ c \in AskRecords /\ c.op \notin Presses
             /\ Relevant(c, w, saved, sites)
  <2>1. wiz.step = "waiting" /\ wiz.tenant \in Names
    BY <1>2, Known DEF Polls, PageStates, NamesOrNone
  <2>2. c.op \in {"poll", "look"} /\ c.name = wiz.tenant
    BY <1>2 DEF Ask
  <2>3. c \in AskRecords
    BY <1>2, <2>1 DEF Ask, AskRecords, Ops
  <2> QED
    BY <2>1, <2>2, <2>3 DEF Presses, Relevant
<1>3. ASSUME NEW c \in asks
      PROVE  Relevant(c, w, saved, sites)
  <2>1. Relevant(c, wiz, saved, sites)
    BY Known
  <2> QED
    BY <2>1 DEF Relevant
<1>4. StoredIs(w, saved)
  <2>1. Snapshot(w) = Snapshot(wiz)
    BY DEF Snapshot
  <2> QED
    BY <2>1 DEF WizardInv, StoredIs
<1>5. OnePress(asks')
  BY <1>2 DEF WizardInv, OnePress
<1>6. TenantTaken(w, sites)
  BY Known DEF TenantTaken
<1>7. Types'
  BY <1>2 DEF WizardInv, Types
<1>8. \A c \in asks' : Relevant(c, w, saved, sites)
  BY <1>2, <1>3
<1> QED
  BY <1>1, <1>4, <1>5, <1>6, <1>7, <1>8 DEF WizardInv

(* The polling timer, and hiding and showing the tab.                      *)
LEMMA TimersKeep == WizardInv /\ (FireTimer \/ Hide \/ Show) => WizardInv'
<1> SUFFICES ASSUME WizardInv, FireTimer \/ Hide \/ Show
             PROVE  WizardInv'
  OBVIOUS
<1>0. wiz \in PageStates
  BY Known
<1>1. CASE FireTimer
  <2>1. PICK w : w = [wiz EXCEPT !.timer = FALSE]
    OBVIOUS
  <2>2. /\ wiz' = w /\ wiz.timer /\ saved' = saved /\ sites' = sites
        /\ asks' = asks \cup {Ask("poll", wiz.tenant)}
    BY <1>1, <2>1 DEF FireTimer
  <2>3. Polls(wiz)
    BY <2>2, Known DEF PollsAsDue
  <2>4. /\ w \in PageStates
        /\ w.step = wiz.step /\ w.name = wiz.name /\ w.tenant = wiz.tenant
        /\ w.status = wiz.status /\ w.url = wiz.url /\ w.avail = wiz.avail
        /\ w.checking = wiz.checking /\ w.restored = wiz.restored
        /\ w.polling = wiz.polling
    BY <1>0, <2>1 DEF PageStates
  <2> QED
    BY <2>2, <2>3, <2>4, QuietKeeps
<1>2. CASE Hide
  <2>1. PICK left \in {FALSE, wiz.timer} : wiz' = [wiz EXCEPT !.hidden = TRUE, !.timer = left]
    BY <1>2 DEF Hide
  <2>2. PICK w : w = [wiz EXCEPT !.hidden = TRUE, !.timer = left]
    OBVIOUS
  <2>3. /\ wiz' = w /\ saved' = saved /\ sites' = sites /\ asks' = asks \cup {}
    BY <1>2, <2>1, <2>2 DEF Hide
  <2>4. left \in BOOLEAN
    BY <1>0 DEF PageStates
  <2>5. /\ w \in PageStates
        /\ w.step = wiz.step /\ w.name = wiz.name /\ w.tenant = wiz.tenant
        /\ w.status = wiz.status /\ w.url = wiz.url /\ w.avail = wiz.avail
        /\ w.checking = wiz.checking /\ w.restored = wiz.restored
        /\ w.polling = wiz.polling /\ w.timer = left
    BY <1>0, <2>2, <2>4 DEF PageStates
  <2> QED
    BY <2>3, <2>5, QuietKeeps
<1>3. CASE Show
  <2>1. PICK w : w = [wiz EXCEPT !.hidden = FALSE]
    OBVIOUS
  <2>2. /\ w \in PageStates
        /\ w.step = wiz.step /\ w.name = wiz.name /\ w.tenant = wiz.tenant
        /\ w.status = wiz.status /\ w.url = wiz.url /\ w.avail = wiz.avail
        /\ w.checking = wiz.checking /\ w.restored = wiz.restored
        /\ w.polling = wiz.polling /\ w.timer = wiz.timer
    BY <1>0, <2>1 DEF PageStates
  <2> DEFINE new == {Ask("look", n) : n \in IF wiz.polling THEN {wiz.tenant} ELSE {}}
  <2>3. wiz' = w /\ saved' = saved /\ sites' = sites /\ asks' = asks \cup new
    BY <1>3, <2>1 DEF Show
  <2>4. /\ new \subseteq {Ask("poll", wiz.tenant), Ask("look", wiz.tenant)}
        /\ new # {} => wiz.polling
    OBVIOUS
  <2>5. new # {} => Polls(wiz)
    BY <2>4, Known DEF PollsAsDue
  <2> HIDE DEF new
  <2> QED
    BY <2>2, <2>3, <2>4, <2>5, QuietKeeps
<1> QED
  BY <1>1, <1>2, <1>3

(* The control plane moves a tenant, or a name is lost to this user.       *)
LEMMA SitesKeep ==
    ASSUME WizardInv, NEW n \in Names, NEW s \in SiteStatuses \cup {"other"},
           sites' = [sites EXCEPT ![n] = s],
           s # "other" => sites[n] \in SiteStatuses,
           UNCHANGED <<wiz, asks, saved>>
    PROVE  WizardInv'
<1>1. /\ wiz' = wiz /\ asks' = asks /\ saved' = saved
      /\ sites' \in [Names -> SiteStatuses \cup {"free", "other"}]
      /\ \A m \in Names : sites[m] = "other" => sites'[m] = "other"
      /\ \A m \in Names : sites[m] # "free" => sites'[m] # "free"
  BY Known, ConstantFacts
<1>2. Types'
  BY <1>1 DEF WizardInv, Types
<1>3. TenantTaken(wiz, sites')
  BY <1>1, Known DEF TenantTaken, PageStates, NamesOrNone
<1>4. ASSUME NEW c \in asks
      PROVE  Relevant(c, wiz, saved, sites')
  <2>1. Relevant(c, wiz, saved, sites) /\ c.name \in Names
    BY Known DEF AskRecords
  <2> QED
    BY <1>1, <2>1 DEF Relevant
<1> QED
  BY <1>1, <1>2, <1>3, <1>4 DEF WizardInv

(* A tenant moves along the transition table, or a name is lost.           *)
LEMMA ControlPlaneKeeps ==
    ASSUME WizardInv, NEW n \in Names,
           SiteTaken(n) \/ (\E s \in SiteStatuses : SiteMoves(n, s))
    PROVE  WizardInv'
<1>1. CASE SiteTaken(n)
  BY <1>1, SitesKeep DEF SiteTaken, Unseen
<1>2. ASSUME NEW s \in SiteStatuses, SiteMoves(n, s)
      PROVE  WizardInv'
  BY <1>2, SitesKeep DEF SiteMoves
<1> QED
  BY <1>1, <1>2

(* An answer that leaves the step and the tenant of the page.              *)
LEMMA StaysKeeps ==
    ASSUME WizardInv, NEW c \in asks, NEW w \in PageStates, Answered(c, w),
           w.step = wiz.step, w.tenant = wiz.tenant, w.restored = wiz.restored,
           w.status = wiz.status \/ w.restored,
           w.polling \/ w.timer => wiz.polling \/ wiz.timer \/ Polls(wiz),
           Checked(w),
           sites' \in [Names -> SiteStatuses \cup {"free", "other"}],
           TenantTaken(wiz, sites'),
           \A n \in Names : sites[n] = "other" => sites'[n] = "other"
    PROVE  WizardInv' /\ TenantKept
<1>1. /\ Restored(w) /\ PollsAsDue(w)
      /\ \A d \in asks : d.op \in Presses \cup {"restore"} =>
             Relevant(d, w, saved, sites')
  BY SameTenant
<1>2. TenantTaken(w, sites')
  BY DEF TenantTaken
<1>3. Settle(wiz, w, asks \ {c})
  BY DEF Answered
<1> QED
  BY <1>1, <1>2, <1>3, CommitKeeps, CommitStores

(* An answer that is not told: the page is as it was.                      *)
LEMMA UnheardKeeps ==
    ASSUME WizardInv, NEW c \in asks, Answered(c, wiz),
           sites' \in [Names -> SiteStatuses \cup {"free", "other"}],
           TenantTaken(wiz, sites'),
           \A n \in Names : sites[n] = "other" => sites'[n] = "other"
    PROVE  WizardInv' /\ TenantKept
  BY Known, StaysKeeps

(* The check that is answered is about the name on the page.               *)
LEMMA CheckAnswered ==
    ASSUME WizardInv, NEW c \in asks, AnswerCheck(c)
    PROVE  WizardInv' /\ TenantKept
<1>1. PICK free \in {FALSE, c.name \notin Short /\ sites[c.name] = "free"} :
          Answered(c, [wiz EXCEPT !.avail = [name |-> c.name, free |-> free],
                                  !.checking = FALSE])
  BY DEF AnswerCheck
<1>2. PICK w : w = [wiz EXCEPT !.avail = [name |-> c.name, free |-> free],
                               !.checking = FALSE]
  OBVIOUS
<1>3. c.name = wiz.name /\ wiz.name \in NamesOrNone
  BY Known DEF AnswerCheck, Relevant, PageStates
<1>4. PICK answer : answer = [name |-> c.name, free |-> free]
  OBVIOUS
<1>5. answer \in [name : NamesOrNone, free : BOOLEAN] /\ answer.name = wiz.name
  BY <1>3, <1>4
<1>6. /\ w \in PageStates /\ w.avail = answer
      /\ w.step = wiz.step /\ w.name = wiz.name /\ w.tenant = wiz.tenant
      /\ w.status = wiz.status /\ w.restored = wiz.restored
      /\ w.polling = wiz.polling /\ w.timer = wiz.timer
  BY <1>2, <1>4, <1>5, Known DEF PageStates
<1>7. Checked(w)
  BY <1>5, <1>6 DEF Checked
<1>8. sites' = sites /\ Answered(c, w)
  BY <1>1, <1>2 DEF AnswerCheck
<1> QED
  BY <1>6, <1>7, <1>8, Known, StaysKeeps

(* A restore brings the tenant back, or the first page.                    *)
LEMMA RestoreAnswered ==
    ASSUME WizardInv, NEW c \in asks, AnswerRestore(c)
    PROVE  WizardInv'
<1>1. /\ ~wiz.restored /\ saved.tenant = c.name /\ c.name \in Names
      /\ wiz.tenant = NoName /\ wiz.step \in {"payment", "waiting", "closed"}
  BY Known DEF AnswerRestore, Relevant, AskRecords, Restored
<1>2. \A d \in asks \ {c} : d.op \notin Presses \cup {"restore"}
  <2>1. ASSUME NEW d \in asks, d.op \in Presses \cup {"restore"}
        PROVE  d = c
    <3>1. Relevant(d, wiz, saved, sites) /\ d \in AskRecords /\ c \in AskRecords
      BY Known
    <3>2. d.op = "restore" /\ d.name = saved.tenant
      BY <1>1, <2>1, <3>1 DEF Relevant, Presses
    <3>3. c.op = "restore" /\ c.name = saved.tenant
      BY <1>1 DEF AnswerRestore
    <3>4. /\ c = [op |-> c.op, name |-> c.name]
          /\ d = [op |-> d.op, name |-> d.name]
      BY <3>1 DEF AskRecords
    <3> QED
      BY <3>2, <3>3, <3>4
  <2> QED
    BY <2>1
<1>3. CASE Found(c.name) /\ UNCHANGED sites
           /\ Answered(c, [wiz EXCEPT !.tenant = c.name, !.status = sites[c.name],
                                      !.step = DeriveStep(sites[c.name], wiz.url),
                                      !.restored = TRUE])
  <2>1. PICK to : to = DeriveStep(sites[c.name], wiz.url)
    OBVIOUS
  <2>2. to \in LateSteps /\ sites[c.name] \in SiteStatuses
    BY <1>3, <2>1, LateStep, Known DEF Found, PageStates
  <2>3. PICK w : w = [wiz EXCEPT !.tenant = c.name, !.status = sites[c.name],
                                 !.step = to, !.restored = TRUE]
    OBVIOUS
  <2>4. /\ w \in PageStates /\ w.step \in LateSteps /\ w.tenant = c.name
        /\ w.restored
    BY <1>1, <2>2, <2>3, Known DEF PageStates, LateSteps, Steps, NamesOrNone
  <2>5. c.name # NoName /\ StepDeps(wiz) # StepDeps(w)
    BY <1>1, <2>4, ConstantFacts DEF StepDeps
  <2>6. Restored(w) /\ Checked(w)
    BY <2>4, <2>5 DEF Restored, Checked, LateSteps
  <2>7. TenantTaken(w, sites')
    BY <1>3, <2>2, <2>4, ConstantFacts DEF TenantTaken
  <2>8. Settle(wiz, w, asks \ {c})
    BY <1>3, <2>1, <2>3 DEF Answered
  <2> QED
    BY <1>2, <1>3, <2>4, <2>5, <2>6, <2>7, <2>8, Known, CommitKeeps
<1>4. CASE Answered(c, [Restart(wiz) EXCEPT !.restored = TRUE]) /\ sites' = Unseen(c.name)
  <2>1. PICK r : r = Restart(wiz)
    OBVIOUS
  <2>2. r \in PageStates /\ r.step = "details" /\ r.tenant = NoName
    BY <2>1, Known DEF Restart, PageStates, Steps, NamesOrNone
  <2>3. PICK w : w = [r EXCEPT !.restored = TRUE]
    OBVIOUS
  <2>4. w \in PageStates /\ w.step = "details" /\ w.tenant = NoName /\ w.restored
    BY <2>2, <2>3 DEF PageStates
  <2>5. StepDeps(wiz) # StepDeps(w) /\ CheckDeps(wiz) # CheckDeps(w)
    BY <1>1, <2>4 DEF StepDeps, CheckDeps
  <2>6. Restored(w) /\ TenantTaken(w, sites')
    BY <2>4 DEF Restored, LateSteps, TenantTaken
  <2>7. Settle(wiz, w, asks \ {c})
    BY <1>4, <2>1, <2>3 DEF Answered
  <2>8. sites' \in [Names -> SiteStatuses \cup {"free", "other"}]
    BY <1>4, Known DEF Unseen
  <2> QED
    BY <1>2, <2>4, <2>5, <2>6, <2>7, <2>8, CommitKeeps
<1> QED
  BY <1>3, <1>4 DEF AnswerRestore

(* While a press is in flight no other press and no restore is.            *)
LEMMA OnlyPress ==
    ASSUME WizardInv, NEW c \in asks, c.op \in Presses
    PROVE  /\ \A d \in asks \ {c} : d.op \notin Presses \cup {"restore"}
           /\ wiz.restored /\ c.name \in Names
<1>1. wiz.restored /\ c.name \in Names
  BY Known DEF Relevant, Presses, AskRecords
<1>2. ASSUME NEW d \in asks, d.op \in Presses \cup {"restore"}
      PROVE  d = c
  <2>1. Relevant(d, wiz, saved, sites)
    BY Known
  <2>2. d.op # "restore"
    BY <1>1, <2>1 DEF Relevant
  <2> QED
    BY <1>2, <2>2 DEF WizardInv, OnePress
<1> QED
  BY <1>1, <1>2

(* A create request brings a tenant and a late step, or fails.             *)
LEMMA SubmitAnswered ==
    ASSUME WizardInv, NEW c \in asks, AnswerSubmit(c)
    PROVE  WizardInv' /\ TenantKept
<1>1. /\ \A d \in asks \ {c} : d.op \notin Presses \cup {"restore"}
      /\ wiz.restored /\ c.name \in Names
  BY OnlyPress DEF AnswerSubmit, Presses
<1>2. wiz.step \in {"details", "plan"} /\ wiz.tenant = NoName
  BY Known DEF AnswerSubmit, Relevant
<1>3. TenantKept
  <2>1. saved # Nothing => saved = Snapshot(wiz)
    BY <1>1 DEF WizardInv, StoredIs
  <2>2. saved # Nothing => saved.tenant = wiz.tenant
    BY <2>1 DEF Snapshot
  <2> QED
    BY <1>2, <2>2 DEF TenantKept
<1>4. ASSUME NEW status \in {"pending_payment", "pending"}, NEW url \in BOOLEAN,
             sites[c.name] = "free", sites' = [sites EXCEPT ![c.name] = status],
             Answered(c, [wiz EXCEPT !.tenant = c.name, !.status = status,
                                     !.url = url,
                                     !.step = StepAfterSubmit(status, url)])
      PROVE  WizardInv' /\ TenantKept
  <2>1. status \in SiteStatuses
    BY ConstantFacts
  <2>2. PICK to : to = StepAfterSubmit(status, url)
    OBVIOUS
  <2>3. to \in LateSteps
    <3>1. DeriveStep(status, url) \in LateSteps
      BY <2>1, LateStep
    <3> QED
      BY <2>2, <3>1 DEF StepAfterSubmit, LateSteps
  <2>4. PICK w : w = [wiz EXCEPT !.tenant = c.name, !.status = status,
                                 !.url = url, !.step = to]
    OBVIOUS
  <2>5. /\ w \in PageStates /\ w.step \in LateSteps /\ w.tenant = c.name
        /\ w.restored
    BY <1>1, <2>1, <2>3, <2>4, Known, ZenonT(60)
       DEF PageStates, LateSteps, Steps, NamesOrNone
  <2>6. c.name # NoName /\ StepDeps(wiz) # StepDeps(w)
    BY <1>1, <1>2, <2>5, ConstantFacts DEF StepDeps
  <2>7. Restored(w) /\ Checked(w)
    BY <2>5, <2>6 DEF Restored, Checked, LateSteps
  <2>8. /\ sites' \in [Names -> SiteStatuses \cup {"free", "other"}]
        /\ sites'[c.name] = status
    BY <1>1, <1>4, <2>1, Known
  <2>9. TenantTaken(w, sites')
    BY <2>1, <2>5, <2>8, ConstantFacts DEF TenantTaken
  <2>10. Settle(wiz, w, asks \ {c})
    BY <1>4, <2>2, <2>4 DEF Answered
  <2> QED
    BY <1>1, <1>3, <2>5, <2>6, <2>7, <2>8, <2>9, <2>10, CommitKeeps
<1>5. CASE sites' \in Landed(c) /\ Answered(c, wiz)
  <2>1. /\ sites' \in [Names -> SiteStatuses \cup {"free", "other"}]
        /\ \A n \in Names : sites[n] = "other" => sites'[n] = "other"
        /\ TenantTaken(wiz, sites')
    BY <1>2, <1>5, Known DEF Landed, Unseen, TenantTaken
  <2> QED
    BY <1>5, <2>1, UnheardKeeps
<1> QED
  BY <1>4, <1>5 DEF AnswerSubmit

(* A new checkout link can only be for the tenant on the page.             *)
LEMMA RenewAnswered ==
    ASSUME WizardInv, NEW c \in asks, AnswerRenew(c)
    PROVE  WizardInv' /\ TenantKept
<1>1. wiz.restored /\ c.name \in Names
  BY OnlyPress DEF AnswerRenew, Presses
<1>2. wiz.tenant = c.name \/ sites[c.name] = "other"
  BY Known DEF AnswerRenew, Relevant
<1>3. ASSUME NEW url \in BOOLEAN, Found(c.name),
             Answered(c, [wiz EXCEPT !.tenant = c.name, !.url = url,
                                     !.status = sites[c.name]])
      PROVE  WizardInv' /\ TenantKept
  <2>1. wiz.tenant = c.name /\ sites[c.name] \in SiteStatuses
    BY <1>2, <1>3, ConstantFacts DEF Found
  <2>2. PICK w : w = [wiz EXCEPT !.tenant = c.name, !.url = url,
                                 !.status = sites[c.name]]
    OBVIOUS
  <2>3. /\ w \in PageStates
        /\ w.step = wiz.step /\ w.name = wiz.name /\ w.tenant = wiz.tenant
        /\ w.avail = wiz.avail /\ w.checking = wiz.checking
        /\ w.restored = wiz.restored
        /\ w.polling = wiz.polling /\ w.timer = wiz.timer
    BY <1>1, <2>1, <2>2, Known DEF PageStates, NamesOrNone
  <2>4. Checked(w)
    BY <2>3, Known DEF Checked
  <2>5. Answered(c, w) /\ sites' = sites
    BY <1>3, <2>2 DEF AnswerRenew
  <2> QED
    BY <1>1, <2>3, <2>4, <2>5, Known, StaysKeeps
<1>4. CASE Answered(c, wiz)
  BY <1>4, Known, UnheardKeeps DEF AnswerRenew
<1> QED
  BY <1>3, <1>4 DEF AnswerRenew

(* So can a retry: the page goes on waiting for that tenant.               *)
LEMMA RetryAnswered ==
    ASSUME WizardInv, NEW c \in asks, AnswerRetry(c)
    PROVE  WizardInv' /\ TenantKept
<1>1. /\ \A d \in asks \ {c} : d.op \notin Presses \cup {"restore"}
      /\ wiz.restored /\ c.name \in Names
  BY OnlyPress DEF AnswerRetry, Presses
<1>2. wiz.tenant = c.name \/ sites[c.name] = "other"
  BY Known DEF AnswerRetry, Relevant
<1>3. CASE /\ Found(c.name) /\ sites' = [sites EXCEPT ![c.name] = "pending"]
           /\ Answered(c, [wiz EXCEPT !.step = "waiting",
                                      !.polls = IF wiz.polling THEN @ ELSE 0])
  <2>1. wiz.tenant = c.name /\ c.name # NoName
    BY <1>1, <1>2, <1>3, ConstantFacts DEF Found
  <2>2. PICK polls : polls = IF wiz.polling THEN wiz.polls ELSE 0
    OBVIOUS
  <2>3. polls \in 0 .. MaxPolls
    BY <2>2, Known, ConstantFacts DEF PageStates
  <2>4. PICK w : w = [wiz EXCEPT !.step = "waiting", !.polls = polls]
    OBVIOUS
  <2>5. /\ w \in PageStates /\ w.step = "waiting" /\ w.tenant = c.name
        /\ w.restored = wiz.restored
    BY <2>1, <2>3, <2>4, Known DEF PageStates, Steps
  <2>6. Restored(w) /\ Checked(w) /\ PollsAsDue(w)
    BY <1>1, <2>1, <2>5 DEF Restored, Checked, LateSteps, PollsAsDue, Polls
  <2>7. /\ sites' \in [Names -> SiteStatuses \cup {"free", "other"}]
        /\ sites'[c.name] = "pending"
    BY <1>1, <1>3, Known, ConstantFacts
  <2>8. TenantTaken(w, sites')
    BY <2>5, <2>7 DEF TenantTaken
  <2>9. Settle(wiz, w, asks \ {c})
    BY <1>3, <2>2, <2>4 DEF Answered
  <2>10. TenantKept
    BY <2>1, <2>5, <2>9, CommitStores
  <2> QED
    BY <1>1, <2>5, <2>6, <2>7, <2>8, <2>9, <2>10, CommitKeeps
<1>4. CASE Answered(c, wiz) /\ UNCHANGED sites
  BY <1>4, Known, UnheardKeeps
<1> QED
  BY <1>3, <1>4 DEF AnswerRetry

(* The readiness of the site is only shown.                                *)
LEMMA ReadyAnswered ==
    ASSUME WizardInv, NEW c \in asks, AnswerReady(c)
    PROVE  WizardInv' /\ TenantKept
<1>1. PICK r \in {"ready", "notReady"} : Answered(c, [wiz EXCEPT !.ready = r])
  BY DEF AnswerReady
<1>2. PICK w : w = [wiz EXCEPT !.ready = r]
  OBVIOUS
<1>3. /\ w \in PageStates
      /\ w.step = wiz.step /\ w.name = wiz.name /\ w.tenant = wiz.tenant
      /\ w.avail = wiz.avail /\ w.checking = wiz.checking
      /\ w.status = wiz.status /\ w.restored = wiz.restored
      /\ w.polling = wiz.polling /\ w.timer = wiz.timer
  BY <1>2, Known DEF PageStates
<1>4. Checked(w)
  BY <1>3, Known DEF Checked
<1>5. Answered(c, w) /\ sites' = sites
  BY <1>1, <1>2 DEF AnswerReady
<1> QED
  BY <1>3, <1>4, <1>5, Known, StaysKeeps

(* What the next round of the polling loop leaves alone.                   *)
LEMMA RoundKeeps ==
    ASSUME NEW w \in PageStates, NEW x, x \in {Schedule(w), NextPoll(w)}
    PROVE  /\ x \in PageStates
           /\ x.step = w.step /\ x.tenant = w.tenant /\ x.restored = w.restored
           /\ x.status = w.status
           /\ x.polling \/ x.timer => w.polling \/ w.timer
<1>1. ASSUME NEW u \in PageStates, NEW y, y = Schedule(u)
      PROVE  /\ y \in PageStates
             /\ y.step = u.step /\ y.tenant = u.tenant /\ y.restored = u.restored
             /\ y.status = u.status
             /\ y.polling \/ y.timer => u.polling \/ u.timer
  BY <1>1 DEF Schedule, PageStates
<1>2. CASE x = Schedule(w)
  BY <1>1, <1>2
<1>3. CASE x = NextPoll(w)
  <2>1. CASE ~w.polling
    BY <1>3, <2>1 DEF NextPoll
  <2>2. CASE w.polling /\ w.polls + 1 >= MaxPolls
    <3>1. x = [w EXCEPT !.polls = MaxPolls, !.polling = FALSE, !.timer = FALSE]
      BY <1>3, <2>2 DEF NextPoll
    <3>2. MaxPolls \in 0 .. MaxPolls
      BY ConstantFacts
    <3> QED
      BY <2>2, <3>1, <3>2 DEF PageStates
  <2>3. CASE w.polling /\ ~(w.polls + 1 >= MaxPolls)
    <3>1. PICK more : more = w.polls + 1
      OBVIOUS
    <3>2. PICK u : u = [w EXCEPT !.polls = more]
      OBVIOUS
    <3>3. w.polls \in 0 .. MaxPolls
      BY DEF PageStates
    <3>4. more \in 0 .. MaxPolls
      BY <2>3, <3>1, <3>3, ConstantFacts
    <3>5. /\ u \in PageStates
          /\ u.step = w.step /\ u.tenant = w.tenant /\ u.restored = w.restored
          /\ u.status = w.status /\ u.polling = w.polling /\ u.timer = w.timer
      BY <3>2, <3>4 DEF PageStates
    <3>6. x = Schedule(u)
      BY <1>3, <2>3, <3>1, <3>2 DEF NextPoll
    <3> QED
      BY <1>1, <3>5, <3>6
  <2> QED
    BY <2>1, <2>2, <2>3
<1> QED
  BY <1>2, <1>3

(* A poll is answered with the status of the tenant on the waiting page.   *)
LEMMA LearnedKeeps ==
    ASSUME WizardInv, NEW c \in asks, c.op \in {"poll", "look"}, Found(c.name),
           NEW x, x \in {Schedule(Learned(wiz, sites[c.name])),
                         NextPoll(Learned(wiz, sites[c.name]))},
           Answered(c, x), sites' = sites
    PROVE  WizardInv' /\ TenantKept
<1>1. /\ wiz.step = "waiting" /\ wiz.tenant = c.name /\ c.name \in Names
      /\ wiz.restored /\ c.name # NoName
  BY Known, ConstantFacts DEF Relevant, AskRecords
<1>2. PICK status \in SiteStatuses : status = sites[c.name]
  BY DEF Found
<1>3. PICK u : u = Learned(wiz, status)
  OBVIOUS
<1>4. /\ u \in PageStates /\ u.tenant = wiz.tenant /\ u.restored = wiz.restored
      /\ u.step = IF status = "active" THEN "success" ELSE "waiting"
      /\ u.polling => wiz.polling
      /\ u.timer => wiz.timer
  <2>1. PICK go : go = (status \notin TerminalStatuses)
    OBVIOUS
  <2>2. PICK to : to = IF status = "active" THEN "success" ELSE wiz.step
    OBVIOUS
  <2>3. u = [wiz EXCEPT !.status = status, !.step = to,
                        !.polling = wiz.polling /\ go, !.timer = wiz.timer /\ go]
    BY <1>3, <2>1, <2>2 DEF Learned
  <2>4. to \in {"success", "waiting"}
    BY <1>1, <2>2
  <2>5. PICK poll, later : poll = (wiz.polling /\ go) /\ later = (wiz.timer /\ go)
    OBVIOUS
  <2>6. poll \in BOOLEAN /\ later \in BOOLEAN
    BY <2>1, <2>5, Known DEF PageStates
  <2>7. u = [wiz EXCEPT !.status = status, !.step = to, !.polling = poll, !.timer = later]
    BY <2>3, <2>5
  <2>8. /\ u \in PageStates /\ u.tenant = wiz.tenant /\ u.restored = wiz.restored
        /\ u.step = to /\ u.polling = poll /\ u.timer = later
    BY <1>2, <2>4, <2>6, <2>7, Known, ZenonT(60) DEF PageStates, Steps
  <2> QED
    BY <1>1, <2>2, <2>5, <2>8
<1>5. /\ x \in PageStates
      /\ x.step = u.step /\ x.tenant = u.tenant /\ x.restored = u.restored
      /\ x.polling \/ x.timer => u.polling \/ u.timer
  BY <1>2, <1>3, <1>4, RoundKeeps
<1>6. Restored(x) /\ Checked(x) /\ TenantTaken(x, sites')
  BY <1>1, <1>4, <1>5, Known DEF Restored, Checked, LateSteps, TenantTaken
<1>7. StepDeps(wiz) = StepDeps(x) => PollsAsDue(x)
  BY <1>1, <1>4, <1>5, Known DEF StepDeps, PollsAsDue, Polls
<1>8. ASSUME NEW d \in asks \ {c}, d.op \in Presses \cup {"restore"}
      PROVE  Relevant(d, x, saved, sites')
  <2>1. Relevant(d, wiz, saved, sites)
    BY Known
  <2> QED
    BY <1>1, <1>4, <1>5, <1>8, <2>1 DEF Relevant, Presses
<1>9. Settle(wiz, x, asks \ {c})
  BY DEF Answered
<1>10. TenantKept
  BY <1>4, <1>5, <1>9, CommitStores
<1> QED
  BY <1>5, <1>6, <1>7, <1>8, <1>9, <1>10, Known, CommitKeeps

(* A poll or a look that failed goes on with the loop.                     *)
LEMMA GoesOnKeeps ==
    ASSUME WizardInv, NEW c \in asks, c.op \in {"poll", "look"},
           NEW x, x \in {Schedule(wiz), NextPoll(wiz)},
           Answered(c, x), sites' = sites
    PROVE  WizardInv' /\ TenantKept
<1>1. wiz.step = "waiting"
  BY Known DEF Relevant
<1>2. /\ x \in PageStates
      /\ x.step = wiz.step /\ x.tenant = wiz.tenant /\ x.restored = wiz.restored
      /\ x.status = wiz.status
      /\ x.polling \/ x.timer => wiz.polling \/ wiz.timer
  <2>1. wiz \in PageStates
    BY Known
  <2> QED
    BY <2>1, RoundKeeps
<1>3. Checked(x)
  BY <1>1, <1>2 DEF Checked
<1> QED
  BY <1>2, <1>3, Known, StaysKeeps

(* A tenant that is not found ends the wizard's wait for it.               *)
LEMMA LostKeeps ==
    ASSUME WizardInv, NEW c \in asks, c.op = "poll", ~Found(c.name),
           Answered(c, [Restart(wiz) EXCEPT !.polling = FALSE, !.timer = FALSE]),
           sites' = sites
    PROVE  WizardInv'
<1>1. /\ wiz.step = "waiting" /\ wiz.tenant = c.name /\ c.name \in Names
      /\ wiz.restored /\ c.name # NoName
  BY Known, ConstantFacts DEF Relevant, AskRecords
<1>2. sites[c.name] = "other"
  BY <1>1, Known DEF Found, TenantTaken
<1>3. PICK r : r = Restart(wiz)
  OBVIOUS
<1>4. r \in PageStates /\ r.step = "details" /\ r.tenant = NoName /\ r.restored
  BY <1>1, <1>3, Known DEF Restart, PageStates, Steps, NamesOrNone
<1>5. PICK w : w = [r EXCEPT !.polling = FALSE, !.timer = FALSE]
  OBVIOUS
<1>6. w \in PageStates /\ w.step = "details" /\ w.tenant = NoName /\ w.restored
  BY <1>4, <1>5 DEF PageStates
<1>7. StepDeps(wiz) # StepDeps(w) /\ CheckDeps(wiz) # CheckDeps(w)
  BY <1>1, <1>6 DEF StepDeps, CheckDeps
<1>8. Restored(w) /\ TenantTaken(w, sites')
  BY <1>6 DEF Restored, LateSteps, TenantTaken
<1>9. ASSUME NEW d \in asks \ {c}, d.op \in Presses \cup {"restore"}
      PROVE  Relevant(d, w, saved, sites')
  <2>1. Relevant(d, wiz, saved, sites)
    BY Known
  <2> QED
    BY <1>1, <1>2, <1>6, <1>9, <2>1 DEF Relevant, Presses
<1>10. Settle(wiz, w, asks \ {c})
  BY <1>3, <1>5 DEF Answered
<1> QED
  BY <1>6, <1>7, <1>8, <1>9, <1>10, Known, CommitKeeps

(* The answers of the timed poll.                                          *)
LEMMA PollAnswered ==
    ASSUME WizardInv, NEW c \in asks, AnswerPoll(c)
    PROVE  WizardInv'
<1>1. CASE Found(c.name) /\ Answered(c, NextPoll(Learned(wiz, sites[c.name])))
  BY <1>1, LearnedKeeps DEF AnswerPoll
<1>2. CASE /\ ~Found(c.name)
           /\ Answered(c, [Restart(wiz) EXCEPT !.polling = FALSE, !.timer = FALSE])
  BY <1>2, LostKeeps DEF AnswerPoll
<1>3. CASE Answered(c, NextPoll(wiz))
  BY <1>3, GoesOnKeeps DEF AnswerPoll
<1> QED
  BY <1>1, <1>2, <1>3 DEF AnswerPoll

(* The answers of the poll of a tab that is shown again.                   *)
LEMMA LookAnswered ==
    ASSUME WizardInv, NEW c \in asks, AnswerLook(c)
    PROVE  WizardInv' /\ TenantKept
<1>1. CASE Found(c.name) /\ Answered(c, Schedule(Learned(wiz, sites[c.name])))
  BY <1>1, LearnedKeeps DEF AnswerLook
<1>2. CASE Answered(c, Schedule(wiz))
  BY <1>2, GoesOnKeeps DEF AnswerLook
<1> QED
  BY <1>1, <1>2 DEF AnswerLook
-----------------------------------------------------------------------------
(***************************************************************************)
(* WizardInv is inductive: it holds before the page is first opened.     *)
(***************************************************************************)
LEMMA WizardInvInit == WizardInit => WizardInv
<1> SUFFICES ASSUME WizardInit
             PROVE  WizardInv
  OBVIOUS
<1>1. /\ Closed \in PageStates /\ Closed.step = "closed" /\ Closed.tenant = NoName
      /\ Closed.status = "none" /\ ~Closed.restored /\ ~Closed.polling /\ ~Closed.timer
  BY ConstantFacts DEF Closed, Fresh, PageStates, Steps, NamesOrNone, NoAnswer
<1>2. Types
  BY <1>1 DEF WizardInit, Types
<1>3. Sound(wiz) /\ StoredIs(wiz, saved)
  BY <1>1 DEF WizardInit, Sound, Restored, PollsAsDue, Checked, StoredIs
<1> QED
  BY <1>1, <1>2, <1>3 DEF WizardInit, WizardInv, OnePress, TenantTaken

(* Every step keeps it.                                                    *)
LEMMA WizardInvStep == WizardInv /\ [WizardNext]_wizardVars => WizardInv'
<1> SUFFICES ASSUME WizardInv, [WizardNext]_wizardVars
             PROVE  WizardInv'
  OBVIOUS
<1>1. CASE Mount
  BY <1>1, MountKeeps
<1>2. CASE LeaveWizard
  BY <1>2, LeaveKeeps DEF LeaveWizard
<1>3. CASE \E n \in Names \cup {NoName} : TypeName(n)
  BY <1>3, TypeNameKeeps
<1>4. CASE Continue \/ Back \/ LaunchCheckout \/ ClaimPaid
  BY <1>4, StepsKeep
<1>5. CASE Submit \/ RenewCheckout \/ RetryProvisioning
  BY <1>5, PressesKeep
<1>6. CASE FireTimer \/ Hide \/ Show
  BY <1>6, TimersKeep
<1>7. ASSUME NEW c \in asks, Answer(c)
      PROVE  WizardInv'
  BY <1>7, CheckAnswered, RestoreAnswered, SubmitAnswered, RenewAnswered,
     RetryAnswered, ReadyAnswered, PollAnswered, LookAnswered, LeaveKeeps
     DEF Answer, PollUnauthenticated
<1>8. ASSUME NEW n \in Names,
             SiteTaken(n) \/ \E s \in SiteStatuses : SiteMoves(n, s)
      PROVE  WizardInv'
  BY <1>8, ControlPlaneKeeps
<1>9. CASE UNCHANGED wizardVars
  BY <1>9 DEF wizardVars, WizardInv, Types, Sound, Restored, PollsAsDue, Polls,
     Checked, StoredIs, Snapshot, Relevant, OnePress, TenantTaken
<1> QED
  BY <1>1, <1>2, <1>3, <1>4, <1>5, <1>6, <1>7, <1>8, <1>9 DEF WizardNext

(* So it holds.                                                            *)
LEMMA WizardInvHolds == WizardSpec => []WizardInv
  BY WizardInvInit, WizardInvStep, PTL DEF WizardSpec
-----------------------------------------------------------------------------
(***************************************************************************)
(* The theorems.                                                           *)
(***************************************************************************)

(* For any names, statuses and poll limit, the page, its polling loop and  *)
(* the sites are always in the states onboarding/page.tsx provides for.    *)
THEOREM WizardTypeCorrect == WizardSpec => []WizardTypeOK
<1>1. WizardInv => WizardTypeOK
  BY DEF WizardInv, Types, PageStates, WizardTypeOK, NamesOrNone
<1> QED
  BY <1>1, WizardInvHolds, PTL

(* The wizard never waits, asks for money or celebrates without a tenant,  *)
(* on screen or in what it stores (onboarding/page.tsx, the restore and    *)
(* persistence effects).                                                   *)
THEOREM WizardHasTenant == WizardSpec => []StepHasTenant
<1>1. WizardInv => StepHasTenant
  BY DEF WizardInv, Sound, Restored, StoredIs, StepHasTenant, LateSteps
<1> QED
  BY <1>1, WizardInvHolds, PTL

(* Only the submit button of the plan page sends a create request.         *)
LEMMA OnlySubmitCreates ==
    ASSUME WizardInv, WizardNext, NEW c \in asks' \ asks, c.op = "submit"
    PROVE  Submit /\ c = Ask("submit", wiz.name)
<1>1. ASSUME NEW old, NEW w, NEW cs \in SUBSET asks, Settle(old, w, cs)
      PROVE  FALSE
  BY <1>1, NewAsks
<1>2. CASE Mount
  <2>1. Settle(Fresh, Parsed, {Ask("restore", n) : n \in IF Parsed.restored THEN {}
                                                         ELSE {saved.tenant}})
    BY <1>2 DEF Mount
  <2>2. c \in {Ask("restore", n) : n \in IF Parsed.restored THEN {} ELSE {saved.tenant}}
    BY <2>1, NewAsks
  <2> QED
    BY <2>2 DEF Ask
<1>3. CASE LeaveWizard
  BY <1>3 DEF LeaveWizard, Leave
<1>4. CASE \/ \E n \in Names \cup {NoName} : TypeName(n)
           \/ Continue \/ Back \/ LaunchCheckout \/ ClaimPaid
  BY <1>1, <1>4 DEF TypeName, Continue, Back, LaunchCheckout, ClaimPaid, Commit
<1>5. CASE Submit
  BY <1>5 DEF Submit, Request
<1>6. CASE RenewCheckout \/ RetryProvisioning
  <2>1. c \in {Ask("renew", wiz.tenant), Ask("retry", wiz.tenant)}
    BY <1>6 DEF RenewCheckout, RetryProvisioning, Request
  <2> QED
    BY <2>1 DEF Ask
<1>7. CASE FireTimer \/ Hide \/ Show
  BY <1>7 DEF FireTimer, Hide, Show, Ask
<1>8. ASSUME NEW d \in asks, Answer(d)
      PROVE  FALSE
  <2>1. \/ \E w : Answered(d, w)
        \/ Leave
    BY <1>8 DEF Answer, AnswerCheck, AnswerRestore, AnswerSubmit, AnswerRenew,
       AnswerRetry, AnswerReady, AnswerPoll, AnswerLook, PollUnauthenticated
  <2> QED
    BY <1>1, <2>1 DEF Answered, Leave
<1>9. CASE \E n \in Names : SiteTaken(n) \/ \E s \in SiteStatuses : SiteMoves(n, s)
  BY <1>9 DEF SiteTaken, SiteMoves
<1> QED
  BY <1>2, <1>3, <1>4, <1>5, <1>6, <1>7, <1>8, <1>9 DEF WizardNext

(* A create request carries the name whose check said that it is free,     *)
(* whatever answers came late (the cleanup of the subdomain effect).       *)
THEOREM WizardSubmitsChecked == WizardSpec => SubmitsWhatWasChecked
<1>1. ASSUME WizardInv, WizardNext, NEW c \in asks' \ asks, c.op = "submit"
      PROVE  wiz.avail = [name |-> c.name, free |-> TRUE]
  <2>1. Submit /\ c.name = wiz.name
    BY <1>1, OnlySubmitCreates DEF Ask
  <2>2. wiz.step = "plan" /\ wiz.avail.free /\ ~wiz.checking
    BY <2>1 DEF Submit, Offered, DetailsPanel, PaymentPanel, WaitingPanel,
                PlanPanel, CanUseSubdomain
  <2>3. wiz.avail.name = wiz.name
    BY <1>1, <2>2, Known DEF Checked
  <2>4. wiz.avail \in [name : NamesOrNone, free : BOOLEAN]
    BY <1>1, Known DEF PageStates
  <2> QED
    BY <2>1, <2>2, <2>3, <2>4
<1>2. WizardInv /\ [WizardNext]_wizardVars =>
          [\A c \in asks' \ asks :
              c.op = "submit" =>
                  wiz.avail = [name |-> c.name, free |-> TRUE]]_wizardVars
  BY <1>1
<1> QED
  BY <1>2, WizardInvHolds, PTL DEF WizardSpec, SubmitsWhatWasChecked

(* A stored tenant is forgotten only when the workspace is live or when a  *)
(* request for that tenant failed (the restore effect and the polling).    *)
THEOREM WizardKeepsTenant == WizardSpec => SavedTenantKept
<1> DEFINE Failed == \E c \in asks \ asks' : /\ c.op \in {"restore", "poll"}
                                            /\ c.name = saved.tenant
           Forgets == /\ saved # Nothing /\ saved.tenant # NoName
                      /\ saved' = Nothing \/ saved'.tenant # saved.tenant
<1>1. ASSUME WizardInv, TenantKept \/ saved' = saved, Forgets
      PROVE  wiz'.step = "success"
  BY <1>1 DEF TenantKept
<1>2. ASSUME WizardInv, Forgets, NEW c \in asks, c.op \in {"restore", "poll"},
             NEW w, Answered(c, w)
      PROVE  Failed
  <2>1. c \notin asks'
    <3>1. Settle(wiz, w, asks \ {c})
      BY <1>2 DEF Answered
    <3>2. c \in asks' \ (asks \ {c}) => c.op \in {"check", "ready"}
      BY <3>1, NewAsks
    <3> QED
      BY <1>2, <3>2
  <2>2. c.name = saved.tenant
    <3>1. Relevant(c, wiz, saved, sites) /\ (wiz.tenant # NoName => wiz.restored)
      BY <1>2, Known
    <3>2. CASE c.op = "restore"
      BY <3>1, <3>2 DEF Relevant
    <3>3. CASE c.op = "poll"
      <4>1. c.name = wiz.tenant /\ c.name \in Names
        BY <1>2, <3>1, <3>3, Known DEF Relevant, AskRecords
      <4>2. wiz.restored
        BY <3>1, <4>1, ConstantFacts
      <4>3. saved = Snapshot(wiz)
        BY <1>2, <4>2 DEF WizardInv, StoredIs
      <4> QED
        BY <4>1, <4>3 DEF Snapshot
    <3> QED
      BY <1>2, <3>2, <3>3
  <2> QED
    BY <1>2, <2>1, <2>2
<1>3. ASSUME WizardInv, WizardNext, Forgets
      PROVE  wiz'.step = "success" \/ Failed
  <2>1. CASE Mount
    BY <1>1, <1>3, <2>1, MountKeeps
  <2>2. CASE LeaveWizard
    BY <1>1, <1>3, <2>2 DEF LeaveWizard, Leave
  <2>3. CASE \E n \in Names \cup {NoName} : TypeName(n)
    BY <1>1, <1>3, <2>3, TypeNameKeeps
  <2>4. CASE Continue \/ Back \/ LaunchCheckout \/ ClaimPaid
    BY <1>1, <1>3, <2>4, StepsKeep
  <2>5. CASE Submit \/ RenewCheckout \/ RetryProvisioning
    BY <1>1, <1>3, <2>5 DEF Submit, RenewCheckout, RetryProvisioning, Request
  <2>6. CASE FireTimer \/ Hide \/ Show
    BY <1>1, <1>3, <2>6 DEF FireTimer, Hide, Show
  <2>7. ASSUME NEW c \in asks, Answer(c)
        PROVE  wiz'.step = "success" \/ Failed
    <3>1. CASE AnswerRestore(c) \/ AnswerPoll(c)
      BY <1>2, <1>3, <3>1 DEF AnswerRestore, AnswerPoll
    <3>2. CASE AnswerCheck(c)
      BY <1>1, <1>3, <3>2, CheckAnswered
    <3>3. CASE AnswerSubmit(c)
      BY <1>1, <1>3, <3>3, SubmitAnswered
    <3>4. CASE AnswerRenew(c)
      BY <1>1, <1>3, <3>4, RenewAnswered
    <3>5. CASE AnswerRetry(c)
      BY <1>1, <1>3, <3>5, RetryAnswered
    <3>6. CASE AnswerReady(c)
      BY <1>1, <1>3, <3>6, ReadyAnswered
    <3>7. CASE AnswerLook(c)
      BY <1>1, <1>3, <3>7, LookAnswered
    <3>8. CASE PollUnauthenticated(c)
      BY <1>1, <1>3, <3>8 DEF PollUnauthenticated, Leave
    <3> QED
      BY <2>7, <3>1, <3>2, <3>3, <3>4, <3>5, <3>6, <3>7, <3>8 DEF Answer
  <2>8. CASE \E n \in Names : SiteTaken(n) \/ \E s \in SiteStatuses : SiteMoves(n, s)
    BY <1>1, <1>3, <2>8 DEF SiteTaken, SiteMoves
  <2> QED
    BY <1>3, <2>1, <2>2, <2>3, <2>4, <2>5, <2>6, <2>7, <2>8 DEF WizardNext
<1>4. WizardInv /\ [WizardNext]_wizardVars =>
          [saved # Nothing /\ saved.tenant # NoName
              /\ (saved' = Nothing \/ saved'.tenant # saved.tenant)
           => \/ wiz'.step = "success"
              \/ \E c \in asks \ asks' : /\ c.op \in {"restore", "poll"}
                                         /\ c.name = saved.tenant]_wizardVars
  BY <1>3
<1> QED
  BY <1>4, WizardInvHolds, PTL DEF WizardSpec, SavedTenantKept
=============================================================================
