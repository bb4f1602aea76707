----------------------------- MODULE AgentSync -----------------------------
(***************************************************************************)
(* One download between the agent and the server.                          *)
(*                                                                         *)
(*   internal/cmd/daemon_task_control.go  taskController: local and web    *)
(*                                        pause, resume, cancel, retry     *)
(*   internal/engine/progress.go          ProgressReporter: status reports *)
(*                                        and the flags on their answers   *)
(*   internal/agent/sync.go               SyncClient: doSync, the SSE      *)
(*                                        downlink                         *)
(*   internal/engine/manager.go           TaskStates, recordFinished       *)
(*                                                                         *)
(* The server keeps a row per task.  The agent learns of it in three ways  *)
(* that do not wait for one another - the answer to a sync, a command on   *)
(* the SSE downlink, the answer to a status report - and any of them may   *)
(* be late or lost.  The manager's calls are single steps here (Manager    *)
(* models them); the server, outside the repository, is modelled from how  *)
(* the agent uses its answers.                                             *)
(***************************************************************************)
EXTENDS Naturals, FiniteSets

CONSTANTS WebCalls,     \* what the user may ask for on the web
          LocalCalls,   \* ... and on this machine (unarr downloads, the tray)
          MaxAsks,      \* bound: how many times they ask
          Losses        \* the messages the network may lose

unknownTaskThreshold == 3

VARIABLES
    run,        \* the task in Manager.active; "none" when it is not there
    entry,      \* its entry in the resume store
    tracked, streak,    \* ProgressReporter: latest, unknownStreak
    grace,      \* taskController: resumedAt, within resumeGrace
    recent,     \* Manager.recentFinished: the final state no sync has taken yet
    row,        \* the server's row
    uplink,     \* the sync in flight: its request, then its answer
    downlink,   \* commands on the SSE stream
    report,     \* the status report in flight: idle, sent, or its answer
    notes,      \* reports of local pauses and cancels, sent off the caller's goroutine
    local,      \* where a local Resume or Retry is
    asks,       \* the calls of the users so far
    wish        \* history: "resumed" while a local resume, confirmed by the server, is
                \* the user's last word; "overdue" if resumeGrace did not cover it

task == <<run, entry, recent>>
reporter == <<tracked, streak>>
net == <<uplink, downlink, report, notes>>
agentVars == <<task, reporter, grace, row, net, local, asks, wish>>

Finals == {"completed", "failed", "cancelled"}
Active == {"queued", "live"}
NoSync == [at |-> "idle", final |-> "none", answer |-> "none"]

\* The download runs, or was paused a while ago.
AgentInit ==
    /\ \/ run = "live" /\ entry = "live" /\ tracked = TRUE /\ row = "active"
       \/ run = "none" /\ entry = "paused" /\ tracked = FALSE /\ row = "paused"
    /\ recent = "none" /\ streak = 0 /\ grace = FALSE
    /\ uplink = NoSync /\ downlink = {} /\ report = "idle" /\ notes = {}
    /\ local = "idle" /\ asks = 0 /\ wish = "other"

-----------------------------------------------------------------------------
(* What the manager's calls do. *)

\* Submit.  A task that is still in active swallows it.
Submit == /\ IF run = "none"
             THEN run' = "queued" /\ entry' = "live" /\ tracked' = TRUE
             ELSE UNCHANGED <<run, entry, tracked>>
          /\ UNCHANGED <<recent, streak>>

\* A task in the line leaves at once, a running one unwinds.
Stop == /\ run' = CASE run = "queued" -> "none" [] run = "live" -> "stopping" [] OTHER -> run
        /\ recent' = IF run = "queued" THEN "cancelled" ELSE recent

\* CancelTask and DropResume.
CancelAndDrop == Stop /\ entry' = "absent"

PauseTask == Stop /\ entry' = IF run # "none" /\ entry # "absent" THEN "paused" ELSE entry

Untrack == tracked' = FALSE /\ streak' = 0

Start == /\ run = "queued" /\ run' = "live"
         /\ UNCHANGED <<entry, recent, reporter, grace, row, net, local, asks, wish>>

\* The goroutine ends: recordFinished.
Finish ==
    /\ run \in {"live", "stopping"}
    /\ run' \in IF run = "live" THEN {"completed", "failed"} ELSE {"cancelled"}
    /\ recent' = run'
    /\ entry' = IF entry = "paused" THEN entry ELSE "absent"
    /\ UNCHANGED <<reporter, grace, row, net, local, asks, wish>>

\* What a reported state makes of the row.  A cancelled task reports no status.
Settled(final) == IF row \in {"pending", "active", "paused"} /\ final \in {"completed", "failed"}
                  THEN final ELSE row

\* ReportFinal: one request, then Untrack, and the task leaves active.
ReportFinal ==
    /\ run \in Finals
    /\ row' = Settled(run) \/ ("final" \in Losses /\ UNCHANGED row)
    /\ run' = "none" /\ Untrack
    /\ UNCHANGED <<entry, recent, grace, net, local, asks, wish>>

-----------------------------------------------------------------------------
(* taskController.ApplyWebAction. *)

\* Mutant: the controller trusts CancelTask to forget the download.
ApplyCancelKeeps == Stop /\ UNCHANGED entry /\ grace' = FALSE /\ wish' = "other"

ApplyCancel == CancelAndDrop /\ grace' = FALSE /\ wish' = "other"

\* A pause within the grace of a local resume is an echo of the row before it.
ApplyPause == /\ UNCHANGED <<grace, wish>>
              /\ IF grace THEN UNCHANGED task ELSE PauseTask

ApplyResume == grace' = TRUE /\ UNCHANGED <<task, wish>>

ApplyWebAction(action) ==
    CASE action = "cancel" -> ApplyCancel
      [] action = "pause" -> ApplyPause
      [] action = "resume" -> ApplyResume
      [] OTHER -> UNCHANGED <<task, grace, wish>>

\* ... with the end of a task that was still in the line: ReportFinal, Untrack.
Apply(action) == /\ ApplyWebAction(action)
                 /\ IF run = "queued" /\ run' = "none" THEN Untrack ELSE UNCHANGED reporter

\* A pause is on its way to the agent, on one of the three channels.
PauseInFlight == "pause" \in downlink \/ uplink.answer = "pause" \/ report = "paused"

\* Mutant: the window never closes.
GraceNever == FALSE /\ UNCHANGED agentVars

\* resumeGrace is over, whatever is still on its way by then.
GraceExpires ==
    /\ grace /\ grace' = FALSE
    /\ wish' = IF wish \in {"resuming", "resumed"} /\ (PauseInFlight \/ local \in {"report", "ask"})
               THEN "overdue" ELSE wish
    /\ UNCHANGED <<task, reporter, row, net, local, asks>>

(* SyncClient: doSync, and the server's side of it. *)

\* buildRequest takes the finished tasks out of the manager.  When the task runs again
\* the request says that, too, and the server goes by it.
SyncSend ==
    /\ uplink.at = "idle"
    /\ uplink' = [at |-> "sent", answer |-> "none",
                  final |-> IF run = "none" THEN recent
                            ELSE IF run \in Finals THEN run ELSE "none"]
    /\ recent' = "none"
    /\ UNCHANGED <<run, entry, reporter, grace, row, downlink, report, notes, local, asks, wish>>

\* The server takes the states, then answers with the task if it is pending and with
\* a control for as long as the row says paused or cancelled.
SyncServer ==
    /\ uplink.at = "sent"
    /\ LET r == Settled(uplink.final) IN
         /\ row' = IF r = "pending" THEN "active" ELSE r
         /\ uplink' = [at |-> "answered", final |-> "none",
                       answer |-> CASE r = "pending" -> "task" [] r = "paused" -> "pause"
                                    [] r = "cancelled" -> "cancel" [] OTHER -> "none"]
    /\ UNCHANGED <<task, reporter, grace, downlink, report, notes, local, asks, wish>>

SyncLost == /\ "sync" \in Losses /\ uplink.at # "idle"
            /\ uplink' = NoSync
            /\ UNCHANGED <<task, reporter, grace, row, downlink, report, notes, local, asks, wish>>

\* processResponse: OnNewTasks, OnControl.
SyncProcess ==
    /\ uplink.at = "answered"
    /\ uplink' = NoSync
    /\ IF uplink.answer = "task" THEN Submit /\ UNCHANGED <<grace, wish>>
       ELSE Apply(uplink.answer)
    /\ UNCHANGED <<row, downlink, report, notes, local, asks>>

\* handleDownlinkEvent, or the stream drops with a command on it.
Command ==
    /\ \E action \in downlink :
         /\ downlink' = downlink \ {action}
         /\ Apply(action) \/ ("command" \in Losses /\ UNCHANGED <<task, reporter, grace, wish>>)
    /\ UNCHANGED <<row, uplink, report, notes, local, asks>>

-----------------------------------------------------------------------------
(* ProgressReporter: flush, the server's answer, handleResponse. *)

Flush == /\ report = "idle" /\ tracked
         /\ report' = "sent"
         /\ UNCHANGED <<task, reporter, grace, row, uplink, downlink, notes, local, asks, wish>>

\* A row that is gone is "no such task"; so is, now and then, one that is not.
ReportServer ==
    /\ report = "sent"
    /\ \/ report' = CASE row = "gone" -> "unknown" [] row = "cancelled" -> "cancelled"
                      [] row = "paused" -> "paused" [] OTHER -> "ok"
       \/ "hiccup" \in Losses /\ report' = "unknown"
       \/ "report" \in Losses /\ report' = "idle"
    /\ UNCHANGED <<task, reporter, grace, row, uplink, downlink, notes, local, asks, wish>>

\* noteUnknown: after unknownTaskThreshold answers in a row the task is reaped (ReapUnknown).
NoteUnknown == IF streak + 1 < unknownTaskThreshold
               THEN streak' = streak + 1 /\ UNCHANGED <<task, tracked>>
               ELSE Untrack /\ CancelAndDrop

\* handleResponse.  The reporter lets go of the task before it hands the action on.
HandleResponse ==
    /\ report \in {"ok", "unknown", "cancelled", "paused"}
    /\ report' = "idle"
    /\ CASE report = "ok" -> streak' = 0 /\ UNCHANGED <<task, grace, tracked, wish>>
         [] report = "unknown" -> NoteUnknown /\ UNCHANGED <<grace, wish>>
         [] report = "cancelled" -> Untrack /\ ApplyCancel
         [] report = "paused" -> Untrack /\ ApplyPause
    /\ UNCHANGED <<row, uplink, downlink, notes, local, asks>>

-----------------------------------------------------------------------------
(* taskController, called on this machine. *)

Call(op) == op \in LocalCalls /\ local = "idle" /\ asks < MaxAsks /\ asks' = asks + 1

LocalPause ==
    /\ Call("pause") /\ run # "none"
    /\ PauseTask /\ grace' = FALSE
    /\ IF run = "queued" THEN Untrack ELSE UNCHANGED reporter
    /\ notes' = notes \cup {"paused"} /\ wish' = "other"
    /\ UNCHANGED <<row, uplink, downlink, report, local>>

LocalCancel ==
    /\ Call("cancel") /\ (run # "none" \/ entry # "absent")
    /\ CancelAndDrop /\ grace' = FALSE
    /\ IF run = "queued" THEN Untrack ELSE UNCHANGED reporter
    /\ notes' = notes \cup {"cancelled"} /\ wish' = "other"
    /\ UNCHANGED <<row, uplink, downlink, report, local>>

Purge ==
    /\ Call("purge") /\ run = "none" /\ entry # "absent"
    /\ entry' = "absent" /\ wish' = "other"
    /\ UNCHANGED <<run, recent, reporter, grace, row, net, local>>

\* The report of a pause or a cancel arrives, or does not.
Note ==
    /\ \E n \in notes :
         /\ notes' = notes \ {n}
         /\ \/ row' = IF row \in {"pending", "active", "paused"} THEN n ELSE row
            \/ "note" \in Losses /\ UNCHANGED row
    /\ UNCHANGED <<task, reporter, grace, uplink, downlink, report, local, asks, wish>>

\* Mutant: a resume that does not claim the window.
LocalResumeUnclaimed ==
    /\ Call("resume") /\ run = "none"
    /\ local' = IF entry # "absent" THEN "report" ELSE "ask"
    /\ wish' = "resuming"
    /\ UNCHANGED <<task, reporter, grace, row, net>>

\* Resume claims the grace window first; without a payload the server must hand the
\* task out again.
LocalResume ==
    /\ Call("resume") /\ run = "none"
    /\ grace' = TRUE
    /\ local' = IF entry # "absent" THEN "report" ELSE "ask"
    /\ wish' = "resuming"
    /\ UNCHANGED <<task, reporter, row, net>>

\* Retry reads the payload, then cancels: the entry of a running task goes with it.
LocalRetry ==
    /\ Call("retry")
    /\ IF run # "none" THEN CancelAndDrop ELSE UNCHANGED task
    /\ IF run = "queued" THEN Untrack ELSE UNCHANGED reporter
    /\ grace' = TRUE
    /\ local' = IF entry # "absent" THEN "report" ELSE "ask"
    /\ wish' = "resuming"
    /\ UNCHANGED <<row, net>>

\* reportNow: a round trip to the server, bounded by controlReportTimeout.
LocalReport ==
    /\ local \in {"report", "ask"}
    /\ local' = IF local = "report" THEN "submit" ELSE "idle"
    /\ \/ /\ row' = IF row \notin {"paused", "cancelled", "failed"} THEN row
                    ELSE IF local = "report" THEN "active" ELSE "pending"
          /\ wish' = IF wish = "resuming" /\ notes = {} THEN "resumed" ELSE wish
       \/ "control" \in Losses /\ UNCHANGED <<row, wish>>
    /\ UNCHANGED <<task, reporter, grace, net, asks>>

LocalSubmit == /\ local = "submit" /\ local' = "idle"
               /\ Submit
               /\ UNCHANGED <<grace, row, net, asks, wish>>

-----------------------------------------------------------------------------
(* The user on the web.  The server pushes the control on the downlink, too. *)

WebCall(op, from, to, push) ==
    /\ op \in WebCalls /\ asks < MaxAsks /\ row \in from
    /\ asks' = asks + 1
    /\ row' = to /\ downlink' = downlink \cup push /\ wish' = "other"
    /\ UNCHANGED <<task, reporter, grace, uplink, report, notes, local>>

Web == \/ WebCall("pause", {"pending", "active"}, "paused", {"pause"})
       \/ WebCall("resume", {"paused"}, "pending", {"resume"})
       \/ WebCall("cancel", {"pending", "active", "paused"}, "cancelled", {"cancel"})
       \/ WebCall("retry", {"cancelled", "failed"}, "pending", {})
       \/ WebCall("remove", {"cancelled", "completed", "failed"}, "gone", {})

Reporter == Flush \/ ReportServer \/ HandleResponse
Sync == SyncSend \/ SyncServer \/ SyncLost \/ SyncProcess
Locally == \/ LocalPause \/ LocalCancel \/ Purge \/ LocalResume \/ LocalRetry
           \/ LocalReport \/ LocalSubmit \/ Note

AgentNext == \/ Start \/ Finish \/ ReportFinal \/ GraceExpires
             \/ Sync \/ Command \/ Reporter \/ Locally \/ Web

(***************************************************************************)
(* The loops of the agent go on: tickers send syncs and reports, answers   *)
(* are handled, a stopped goroutine unwinds.  The server is reached again  *)
(* and again, so a message that is repeated for ever gets through.         *)
(***************************************************************************)
AgentFairness ==
    /\ WF_agentVars(Start) /\ WF_agentVars(run = "stopping" /\ Finish) /\ WF_agentVars(ReportFinal)
    /\ WF_agentVars(SyncSend) /\ SF_agentVars(SyncServer) /\ SF_agentVars(SyncProcess)
    /\ WF_agentVars(Flush) /\ WF_agentVars(HandleResponse)
    /\ SF_agentVars(ReportServer /\ report' # "idle" /\ (report' = "unknown" => row = "gone"))
    /\ WF_agentVars(Command) /\ WF_agentVars(GraceExpires)
    /\ WF_agentVars(LocalReport) /\ WF_agentVars(LocalSubmit) /\ WF_agentVars(Note)

AgentSpec == AgentInit /\ [][AgentNext]_agentVars /\ AgentFairness

-----------------------------------------------------------------------------
\* resumeGrace (daemon_task_control.go:56-67): a resume on this machine that the server
\* has confirmed is not undone by pauses that were on their way - in a sync, on the
\* downlink or in a status answer - when the user asked for it.  The window is a clock of
\* 20 s and covers what takes no longer: the round trip of the report (10 s), and of the
\* older pauses those that arrive within it.  A later one does undo the resume.
PauseIsWanted ==
    [][wish = "resumed" /\ wish' = "resumed" /\ run \in Active => entry' # "paused"]_agentVars

\* ... and the grace does not swallow a pause that the user does want: while the row
\* says paused, the download stops sooner or later.
PauseLands == row = "paused" ~> (run \notin Active \/ row # "paused")

\* A download cancelled on the web stops, and leaves nothing to resurrect it, running
\* or not, whichever of its messages are lost.
CancelLands == row = "cancelled" ~> ((run \notin Active /\ entry = "absent") \/ row # "cancelled")

=============================================================================
