------------------------------ MODULE JobPanel ------------------------------
(***************************************************************************)
(* JobLogPanel: the status of one job, over a live stream, a timer that    *)
(* polls while there is none, and refreshes.  The panel may be given       *)
(* another job while requests for the first one are under way.             *)
(*                                                                         *)
(* An action is a handler with the commit it causes and the effects of     *)
(* that commit.                                                            *)
(***************************************************************************)
EXTENDS Naturals, FiniteSets

CONSTANT PanelJobs  \* the panel is given jobs 1 .. PanelJobs, one after another

ASSUME PanelAssumption == PanelJobs \in Nat

VARIABLES
    panel,    \* the component's state, and whether its tab is visible
    socket,   \* the live stream, and those closed but not yet heard of
    timers,   \* the jobs a poll timer is pending for
    reads,    \* requests for a job, with its status when they were sent
    jobs      \* the status of each job: "queued" (or running) or "done"

panelVars == <<panel, socket, timers, reads, jobs>>

NoJob == 0
NoPanel == [job |-> NoJob, status |-> "queued", stream |-> "idle", visible |-> TRUE]

PanelInit ==
    /\ panel = NoPanel
    /\ socket = [state |-> "none", closing |-> FALSE]
    /\ timers = {}
    /\ reads = {}
    /\ jobs = [j \in 1 .. PanelJobs |-> "queued"]

Watching(p) == p.job # NoJob /\ p.visible /\ p.status # "done"

Read(kind, j) == [kind |-> kind, job |-> j, sent |-> jobs[j]]
Reads(kind, js) == {Read(kind, j) : j \in js}

(* clearTimeout reaches only the timer that was set last. *)
Cleared(ts) == {left \in SUBSET ts : Cardinality(ts \ left) <= 1}

(***************************************************************************)
(* The commit of panel state p: a change of job, of visibility or to and   *)
(* from a final status closes the stream, opens another one and refreshes; *)
(* those and a change of the stream's state reset the poll timer.          *)
(***************************************************************************)
PanelCommit(p, asked, pending) ==
    \E moved \in {<<p.job, p.visible, p.status>> #
                  <<panel.job, panel.visible, panel.status>>},
       token \in BOOLEAN :
       LET opens == moved /\ Watching(p)
           stream == IF ~opens THEN p.stream
                     ELSE IF token THEN "connecting" ELSE "error"
           reset == moved \/ stream # panel.stream
           here == IF Watching(p) /\ stream # "live" THEN {p.job} ELSE {}
       IN  /\ opens \/ token
           /\ panel' = [p EXCEPT !.stream = stream]
           /\ socket' = [state |-> IF opens /\ token THEN "connecting"
                                   ELSE IF moved THEN "none" ELSE socket.state,
                         closing |-> socket.closing
                                        \/ (moved /\ socket.state # "none")]
           /\ IF reset THEN \E left \in Cleared(pending) : timers' = left \cup here
              ELSE timers' = pending
           /\ reads' = asked \cup Reads("refresh", IF opens THEN {p.job} ELSE {})

(* A new job: what was shown of the last one is reset.  The first load of  *)
(* a job asks what its first refresh asks.                                 *)
GiveJob(j) ==
    /\ j = panel.job + 1
    /\ PanelCommit([panel EXCEPT !.job = j, !.status = "queued", !.stream = "connecting"],
                   reads, timers)
    /\ UNCHANGED jobs

PanelVisibility ==
    /\ panel.job # NoJob
    /\ PanelCommit([panel EXCEPT !.visible = ~@], reads, timers)
    /\ UNCHANGED jobs

RefreshButton ==
    /\ panel.job # NoJob
    /\ reads' = reads \cup Reads("refresh", {panel.job})
    /\ UNCHANGED <<panel, socket, timers, jobs>>

PollTimer(j) ==
    /\ j \in timers
    /\ timers' = timers \ {j}
    /\ reads' = reads \cup Reads("poll", {j})
    /\ UNCHANGED <<panel, socket, jobs>>

-----------------------------------------------------------------------------
(* An answer is of any moment since the request was sent, or is lost. *)
Replies(r) == {jobs[r.job], r.sent, "lost"}

Heeded(reply) ==
    CASE reply = "lost" -> panel
      [] reply = "done" -> [panel EXCEPT !.status = "done", !.stream = "completed"]
      [] OTHER -> [panel EXCEPT !.status = reply]

(* Mutant: a poll that fails is the last one. *)
ReadAnsweredOrGivenUp(r, reply) ==
    /\ reply \in Replies(r)
    /\ PanelCommit(Heeded(reply), reads \ {r},
                   timers \cup {j \in {r.job} : /\ r.kind = "poll" /\ panel.visible
                                                /\ reply = "queued"})
    /\ UNCHANGED jobs

(* refreshJob sets the status whatever job is shown by now; a poll goes on *)
(* with its own job.                                                       *)
ReadAnswered(r, reply) ==
    /\ reply \in Replies(r)
    /\ PanelCommit(Heeded(reply), reads \ {r},
                   timers \cup {j \in {r.job} : /\ r.kind = "poll" /\ panel.visible
                                                /\ reply # "done"})
    /\ UNCHANGED jobs

-----------------------------------------------------------------------------
(* The stream.  A panel that is live trusts it: it says when the job is    *)
(* done, unless that was before it subscribed.                             *)
StreamOpens ==
    /\ socket.state = "connecting"
    /\ panel' = [panel EXCEPT !.stream = "live"]
    /\ socket' = [socket EXCEPT !.state = "open"]
    /\ timers' \in Cleared(timers)
    /\ UNCHANGED <<reads, jobs>>

StreamDone ==
    /\ socket.state = "open" /\ jobs[panel.job] = "done"
    /\ panel' = [panel EXCEPT !.stream = "completed"]
    /\ socket' = [state |-> "none", closing |-> TRUE]
    /\ timers' = timers \cup {panel.job}
    /\ reads' = reads \cup Reads("refresh", {panel.job})
    /\ UNCHANGED jobs

(* The stream breaks, or one that was closed is heard of. *)
Broken == IF panel.stream = "completed" THEN "completed" ELSE "error"

StreamBreaks ==
    /\ \/ /\ socket.state # "none"
          /\ socket' = [socket EXCEPT !.state = "none"]
       \/ /\ socket.closing
          /\ socket' = [socket EXCEPT !.closing = FALSE]
    /\ panel' = [panel EXCEPT !.stream = Broken]
    /\ IF Broken = panel.stream THEN UNCHANGED timers
       ELSE \E left \in Cleared(timers) :
               timers' = left \cup (IF Watching(panel) THEN {panel.job} ELSE {})
    /\ UNCHANGED <<reads, jobs>>

JobFinishes(j) ==
    /\ jobs[j] = "queued"
    /\ jobs' = [jobs EXCEPT ![j] = "done"]
    /\ UNCHANGED <<panel, socket, timers, reads>>

PanelNext ==
    \/ \E j \in 1 .. PanelJobs : GiveJob(j) \/ PollTimer(j) \/ JobFinishes(j)
    \/ PanelVisibility \/ RefreshButton
    \/ \E r \in reads : \E reply \in Replies(r) : ReadAnswered(r, reply)
    \/ StreamOpens \/ StreamDone \/ StreamBreaks

(* Timers fire, every poll is answered, and polls of a job that is done do *)
(* not stay unlucky.                                                       *)
TimerFires == panel.job # NoJob /\ PollTimer(panel.job)

PollAnswered(replies) ==
    \E r \in reads :
        /\ r.kind = "poll" /\ r.job = panel.job
        /\ \E reply \in replies : ReadAnswered(r, reply)

PanelFairness ==
    /\ WF_panelVars(TimerFires)
    /\ WF_panelVars(PollAnswered({"queued", "done", "lost"}))
    /\ SF_panelVars(PollAnswered({"done"}))

PanelSpec == PanelInit /\ [][PanelNext]_panelVars /\ PanelFairness

(***************************************************************************)
(* A visible panel without a live stream learns in the end that its job is *)
(* done: broken streams, lost answers, late answers and hidden tabs do not *)
(* stop the polling for good.                                              *)
(***************************************************************************)
Missed == Watching(panel) /\ panel.stream # "live" /\ jobs[panel.job] = "done"

JobEndIsSeen == Missed ~> ~Missed
=============================================================================
