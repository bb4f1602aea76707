------------------------------ MODULE Manager ------------------------------
(***************************************************************************)
(* internal/engine/manager.go: the download manager, on top of the slots   *)
(* and the line of SlotQueue.                                              *)
(*                                                                         *)
(* Submit, CancelTask, PauseTask and CancelAndDeleteFiles are called from  *)
(* the sync loop, the SSE downlink and the local control server.  None of  *)
(* them holds one lock from start to end, so each is a sequence of steps,  *)
(* cut where it lets a lock go.  So is the end of a download, and          *)
(* Shutdown.  What a download does while it runs is any legal sequence of  *)
(* statuses here; TaskRun models it.                                       *)
(*                                                                         *)
(* The resume store (internal/agent/active_tasks.go) survives the process. *)
(* The maps active and cancels are written together under activeMu; a      *)
(* cancel function is taken as part of its task.  The list of recently     *)
(* finished tasks is left to the model of the sync.                        *)
(*                                                                         *)
(* Faults are the events a model admits: a Shutdown, the process ending at *)
(* any moment and starting again, Daemon.Run returning an error, a         *)
(* download directory that cannot be written, a lost VPN tunnel.           *)
(***************************************************************************)
EXTENDS SlotQueue, Task

CONSTANTS IDs,            \* task IDs
          IdOf,           \* Tasks -> IDs
          NoTask,         \* nil
          Transient,      \* IDs that are not persisted (upgrades, streams)
          Callers,        \* goroutines that call the manager
          NoID,
          Calls,          \* Callers -> the operations it calls
          Faults          \* what may go wrong: see below

ASSUME ManagerAssumption ==
    /\ IdOf \in [Tasks -> IDs]
    /\ NoTask \notin Tasks
    /\ Transient \subseteq IDs
    /\ NoID \notin IDs
    /\ Calls \in [Callers -> SUBSET {"submit", "force", "cancel", "pause", "drop"}]
    /\ Faults \subseteq {"shutdown", "restart", "run", "storage", "vpn"}

VARIABLES active,         \* ID -> task or NoTask: Manager.active (and cancels)
          status,         \* task -> its status
          go,             \* task -> where its goroutine is
          keep,           \* tasks whose final record keeps the resume entry
          store,          \* ID -> "absent", "live" or "paused": the resume store
          paused,         \* Manager.paused
          cooldown,       \* Manager.storageFailedAt, unexpired
          tracked,        \* the reporter's tasks
          call,           \* caller -> the call it is in
          phase,          \* where Shutdown is
          boot,           \* IDs the start-up resume has yet to submit
          daemonOver,     \* the daemon's context ended without a Shutdown
          unfinished,     \* accepted, persisted, and neither ended nor cancelled since
          cancelled,      \* cancelled, and not submitted since
          held,           \* paused, and not submitted since
          raced           \* a cancel or a pause overtook the Submit in progress

slots == slotVars
volatile == <<active, status, go, keep, paused, cooldown, tracked, call, phase, boot, daemonOver>>
history == <<unfinished, cancelled, held, raced>>
vars == <<slotVars, volatile, store, history>>

GoStates == {"idle", "ready", "spawned", "work", "check", "drop", "report", "forget", "release", "hand",
             "drained", "untrack"}
Idle == [op |-> "none", pc |-> "idle", id |-> NoID, task |-> NoTask, flag |-> FALSE]

Init ==
    /\ SlotInit
    /\ active = [id \in IDs |-> NoTask]
    /\ status = [t \in Tasks |-> "pending"]
    /\ go = [t \in Tasks |-> "idle"]
    /\ keep = {}
    /\ store = [id \in IDs |-> "absent"]
    /\ paused = {} /\ cooldown = {} /\ tracked = {} /\ boot = {}
    /\ call = [c \in Callers |-> Idle]
    /\ phase = "up"
    /\ daemonOver = FALSE
    /\ unfinished = {} /\ cancelled = {} /\ held = {} /\ raced = {}

\* The manager accepts calls: the process is up and through its start-up resume.
Serving(c) == call[c] = Idle /\ boot = {} /\ phase # "down"

\* An object nothing refers to any more.
Fresh(t) ==
    /\ go[t] = "idle" /\ slot[t] = "out" /\ t \notin enqueuing
    /\ active[IdOf[t]] # t
    /\ \A c \in Callers : call[c].task # t

To(c, pc) == call' = [call EXCEPT ![c].pc = pc]
Return(c) == call' = [call EXCEPT ![c] = Idle]
At(c, op, pc) == call[c].op \in op /\ call[c].pc = pc
Id(c) == call[c].id
Obj(c) == call[c].task

\* A Submit has made the task active and has not written its entry yet.
Enters(c) == call[c].op = "submit" /\ call[c].pc \in {"clear", "store"}
Entering(id) == \E d \in Callers : Enters(d) /\ Id(d) = id

-----------------------------------------------------------------------------
(* Submit *)

\* The checks in front: a shutdown and the storage cooldown refuse the task.
Submit(c, id, force) ==
    /\ Serving(c) /\ (IF force THEN "force" ELSE "submit") \in Calls[c]
    /\ ~shuttingDown
    /\ force \/ id \notin cooldown
    /\ call' = [call EXCEPT ![c] =
                 [op |-> "submit", pc |-> "insert", id |-> id, task |-> NoTask, flag |-> force]]
    /\ UNCHANGED <<slots, active, status, go, keep, paused, cooldown, tracked, phase, boot, daemonOver, store, history>>

\* resumeInterrupted: the start-up resume submits what the store holds, one task
\* after the other, before anything else calls the manager.
BootSubmit(c) ==
    /\ \A d \in Callers : call[d] = Idle
    /\ ~shuttingDown
    /\ \E id \in boot :
         /\ boot' = boot \ {id}
         /\ call' = [call EXCEPT ![c] =
                      [op |-> "submit", pc |-> "insert", id |-> id, task |-> NoTask, flag |-> FALSE]]
    /\ UNCHANGED <<slots, active, status, go, keep, paused, cooldown, tracked, phase, daemonOver, store, history>>

\* Mutant: no dedup.
SubmitInsertBlind(c) ==
    /\ At(c, {"submit"}, "insert")
    /\ \E t \in Tasks :
         /\ IdOf[t] = Id(c) /\ Fresh(t)
         /\ NewTask(t, daemonOver)
         /\ active' = [active EXCEPT ![Id(c)] = t]
         /\ status' = [status EXCEPT ![t] = "claimed"]
         /\ go' = [go EXCEPT ![t] = "ready"]
         /\ call' = [call EXCEPT ![c].pc = "clear", ![c].task = t]
    /\ cancelled' = cancelled \ {Id(c)} /\ held' = held \ {Id(c)}
    /\ UNCHANGED <<keep, store, paused, cooldown, tracked, phase, boot, daemonOver, unfinished, raced>>

\* Under activeMu: a task that is active already is ignored, another one becomes so.
SubmitInsert(c) ==
    /\ At(c, {"submit"}, "insert")
    /\ IF active[Id(c)] # NoTask
       THEN /\ Return(c)
            /\ UNCHANGED <<slots, active, status, go, cancelled, held>>
       ELSE /\ \E t \in Tasks :
                 /\ IdOf[t] = Id(c) /\ Fresh(t)
                 /\ NewTask(t, daemonOver)
                 /\ active' = [active EXCEPT ![Id(c)] = t]
                 /\ status' = [status EXCEPT ![t] = "claimed"]
                 /\ go' = [go EXCEPT ![t] = "ready"]
                 /\ call' = [call EXCEPT ![c].pc = "clear", ![c].task = t]
            /\ cancelled' = cancelled \ {Id(c)} /\ held' = held \ {Id(c)}
    /\ UNCHANGED <<keep, store, paused, cooldown, tracked, phase, boot, daemonOver, unfinished, raced>>

\* clearPaused.
SubmitClear(c) ==
    /\ At(c, {"submit"}, "clear")
    /\ paused' = paused \ {Id(c)}
    /\ To(c, "store")
    /\ UNCHANGED <<slots, active, status, go, keep, store, cooldown, tracked, phase, boot, daemonOver, history>>

\* taskStore.Add, for a task that is persisted.
SubmitStore(c) ==
    /\ At(c, {"submit"}, "store")
    /\ IF Id(c) \in Transient
       THEN UNCHANGED <<store, unfinished>>
       ELSE /\ store' = [store EXCEPT ![Id(c)] = "live"]
            /\ unfinished' = IF Id(c) \in raced THEN unfinished ELSE unfinished \cup {Id(c)}
    /\ raced' = raced \ {Id(c)}
    /\ To(c, "track")
    /\ UNCHANGED <<slots, active, status, go, keep, paused, cooldown, tracked, phase, boot, daemonOver, cancelled, held>>

\* reporter.Track.
SubmitTrack(c) ==
    /\ At(c, {"submit"}, "track")
    /\ tracked' = tracked \cup {Id(c)}
    /\ To(c, "start")
    /\ UNCHANGED <<slots, active, status, go, keep, store, paused, cooldown, phase, boot, daemonOver, history>>

\* A forced task gets its goroutine, any other one joins the line.
SubmitStart(c) ==
    /\ At(c, {"submit"}, "start")
    /\ \/ /\ call[c].flag
          /\ go' = [go EXCEPT ![Obj(c)] = "spawned"]
          /\ Return(c)
          /\ UNCHANGED slots
       \/ /\ ~call[c].flag
          /\ Enqueue(Obj(c))
          /\ To(c, "dispatch")
          /\ UNCHANGED go
    /\ UNCHANGED <<active, status, keep, store, paused, cooldown, tracked, phase, boot, daemonOver, history>>

SubmitDispatch(c) ==
    /\ At(c, {"submit"}, "dispatch")
    /\ EnqueueDispatch(Obj(c))
    /\ Return(c)
    /\ UNCHANGED <<active, status, go, keep, store, paused, cooldown, tracked, phase, boot, daemonOver, history>>

-----------------------------------------------------------------------------
(* CancelTask, CancelAndDeleteFiles and PauseTask.  The two cancels differ  *)
(* in what becomes of the partial files, which is not modelled.             *)

\* Look the task up; false, and nothing else, when it is not active.
Stop(c, op, id) ==
    /\ Serving(c) /\ op \in Calls[c]
    /\ active[id] # NoTask
    /\ call' = [call EXCEPT ![c] =
                 [op |-> op, pc |-> "mark", id |-> id, task |-> active[id], flag |-> FALSE]]
    /\ UNCHANGED <<slots, active, status, go, keep, store, paused, cooldown, tracked, phase, boot, daemonOver, history>>

CancelTask(c, id) == Stop(c, "cancel", id)
PauseTask(c, id) == Stop(c, "pause", id)

\* The pause set, before anything unwinds: a cancel leaves it (clearPaused), a pause
\* enters it (the first half of markPaused).  A cancelled task is not unfinished any
\* more, and neither is one whose Submit is overtaken: what becomes of its entry is
\* up to the race.
StopMark(c) ==
    /\ At(c, {"cancel", "pause"}, "mark")
    /\ paused' = IF call[c].op = "cancel" THEN paused \ {Id(c)} ELSE paused \cup {Id(c)}
    /\ unfinished' = IF call[c].op = "cancel" \/ Entering(Id(c)) THEN unfinished \ {Id(c)} ELSE unfinished
    /\ raced' = IF Entering(Id(c)) THEN raced \cup {Id(c)} ELSE raced
    /\ To(c, "settle")
    /\ UNCHANGED <<slots, active, status, go, keep, store, cooldown, tracked, phase, boot, daemonOver, cancelled, held>>

\* The settled stop, for the record: the last word, unless a Submit is overtaken.
LastWord(c) ==
    LET op == call[c].op
    IN  /\ unfinished' = IF op = "cancel" \/ Entering(Id(c)) THEN unfinished \ {Id(c)} ELSE unfinished
        /\ raced' = IF Entering(Id(c)) THEN raced \cup {Id(c)} ELSE raced
        /\ cancelled' = IF op = "cancel" /\ ~Entering(Id(c)) THEN cancelled \cup {Id(c)} ELSE cancelled
        /\ held' = IF op = "pause" /\ ~Entering(Id(c)) THEN held \cup {Id(c)} ELSE held

\* Mutant: SetPaused writes an entry that is not there.
SettleAnew(c) ==
    /\ At(c, {"cancel", "pause"}, "settle")
    /\ store' = [store EXCEPT ![Id(c)] = IF call[c].op = "cancel" THEN "absent" ELSE "paused"]
    /\ LastWord(c)
    /\ To(c, "dequeue")
    /\ UNCHANGED <<slots, active, status, go, keep, paused, cooldown, tracked, phase, boot, daemonOver>>

\* Mutant: a pause marks the entry only in memory.
SettleInMemory(c) ==
    /\ At(c, {"cancel", "pause"}, "settle")
    /\ store' = [store EXCEPT ![Id(c)] = IF call[c].op = "cancel" THEN "absent" ELSE @]
    /\ LastWord(c)
    /\ To(c, "dequeue")
    /\ UNCHANGED <<slots, active, status, go, keep, paused, cooldown, tracked, phase, boot, daemonOver>>

\* The resume store: a cancel removes the entry (Remove), a pause flags the one there
\* is (SetPaused).
Settle(c) ==
    /\ At(c, {"cancel", "pause"}, "settle")
    /\ store' = [store EXCEPT ![Id(c)] = IF call[c].op = "cancel" \/ @ = "absent" THEN "absent" ELSE "paused"]
    /\ LastWord(c)
    /\ To(c, "dequeue")
    /\ UNCHANGED <<slots, active, status, go, keep, paused, cooldown, tracked, phase, boot, daemonOver>>

\* dequeue: whoever waits in the line under this ID leaves it.
StopDequeue(c) ==
    /\ At(c, {"cancel", "pause"}, "dequeue")
    /\ \/ \E t \in Tasks :
            /\ IdOf[t] = Id(c) /\ slot[t] = "queued"
            /\ Dequeue(t)
            /\ go' = [go EXCEPT ![t] = "idle"]
            /\ To(c, "forget")
       \/ /\ \A t \in Tasks : IdOf[t] = Id(c) => slot[t] # "queued"
          /\ To(c, "cancel")
          /\ UNCHANGED <<slots, go>>
    /\ UNCHANGED <<active, status, keep, store, paused, cooldown, tracked, phase, boot, daemonOver, history>>

\* Mutant: a task that leaves the line stays active.
StopForgetNothing(c) ==
    /\ At(c, {"cancel", "pause"}, "forget")
    /\ To(c, "untrack")
    /\ UNCHANGED <<slots, active, status, go, keep, store, paused, cooldown, tracked, phase, boot, daemonOver, history>>

\* forgetActive: out of active, under activeMu ...
StopForget(c) ==
    /\ At(c, {"cancel", "pause"}, "forget")
    /\ active' = [active EXCEPT ![Id(c)] = NoTask]
    /\ To(c, "untrack")
    /\ UNCHANGED <<slots, status, go, keep, store, paused, cooldown, tracked, phase, boot, daemonOver, history>>

\* Mutant: the reporter is not told.
StopUntrackNothing(c) ==
    /\ At(c, {"cancel", "pause"}, "untrack")
    /\ To(c, "cancel")
    /\ UNCHANGED <<slots, active, status, go, keep, store, paused, cooldown, tracked, phase, boot, daemonOver, history>>

\* ... and, the lock let go, reporter.Untrack, by ID.  The ID may have been submitted
\* again in between: then the new run loses its progress reports.
StopUntrack(c) ==
    /\ At(c, {"cancel", "pause"}, "untrack")
    /\ tracked' = tracked \ {Id(c)}
    /\ To(c, "cancel")
    /\ UNCHANGED <<slots, active, status, go, keep, store, paused, cooldown, phase, boot, daemonOver, history>>

\* Cancel the context and tell the downloader.
StopCancel(c) ==
    /\ At(c, {"cancel", "pause"}, "cancel")
    /\ EndContexts({Obj(c)})
    /\ To(c, "status")
    /\ UNCHANGED <<active, status, go, keep, store, paused, cooldown, tracked, phase, boot, daemonOver, history>>

\* Transition to cancelled, where the table allows it, and return.  (For a task that
\* left the line, finishQueued records it; nothing reads its status after that.)
StopStatus(c) ==
    /\ At(c, {"cancel", "pause"}, "status")
    /\ status' = IF go[Obj(c)] = "idle" THEN [status EXCEPT ![Obj(c)] = "pending"]
                 ELSE [status EXCEPT ![Obj(c)] = Transition(@, "cancelled")]
    /\ Return(c)
    /\ UNCHANGED <<slots, active, go, keep, store, paused, cooldown, tracked, phase, boot, daemonOver, history>>

\* DropResume: a cancel of a task that may not be active any more.  The entry goes ...
DropResume(c, id) ==
    /\ Serving(c) /\ "drop" \in Calls[c]
    /\ store' = [store EXCEPT ![id] = "absent"]
    /\ unfinished' = unfinished \ {id}
    /\ call' = [call EXCEPT ![c] =
                 [op |-> "drop", pc |-> "unmark", id |-> id, task |-> NoTask, flag |-> FALSE]]
    /\ UNCHANGED <<slots, active, status, go, keep, paused, cooldown, tracked, phase, boot, daemonOver, cancelled, held, raced>>

\* ... and then the pause mark, which ends the pause of whatever run has it by now.
DropUnmark(c) ==
    /\ At(c, {"drop"}, "unmark")
    /\ paused' = paused \ {Id(c)}
    /\ unfinished' = IF Id(c) \in paused THEN unfinished \ {Id(c)} ELSE unfinished
    /\ Return(c)
    /\ UNCHANGED <<slots, active, status, go, keep, store, cooldown, tracked, phase, boot, daemonOver, cancelled, held, raced>>

-----------------------------------------------------------------------------
(* The goroutine of a task. *)

GoTo(t, p) == go' = [go EXCEPT ![t] = p]

\* The end of a run.  Nothing reads its status any more.
Gone(t) == GoTo(t, "idle") /\ status' = [status EXCEPT ![t] = "pending"]

\* processTask starts: the first transition of the first attempt.
Begin(t) ==
    /\ go[t] = "spawned" \/ (go[t] = "ready" /\ slot[t] = "held")
    /\ status' = [status EXCEPT ![t] = Transition(@, "resolving")]
    /\ GoTo(t, "work")
    /\ UNCHANGED <<slots, active, keep, store, paused, cooldown, tracked, call, phase, boot, daemonOver, history>>

\* The download makes progress, or starts over.
Advance(t) ==
    /\ go[t] = "work" /\ slot[t] # "yielding"
    /\ \E s \in {"resolving", "downloading", "verifying", "organizing"} :
         /\ s \in validTransitions[status[t]]
         /\ status' = [status EXCEPT ![t] = s]
    /\ UNCHANGED <<slots, active, go, keep, store, paused, cooldown, tracked, call, phase, boot, daemonOver, history>>

\* A download that waits with nothing to transfer gives up its slot and takes it
\* back.
Stall(t) ==
    /\ go[t] = "work"
    /\ Yield(t) \/ YieldDispatch(t) \/ Reclaim(t)
    /\ UNCHANGED <<volatile, store, history>>

\* finalizeVerified, its end.
Complete(t) ==
    /\ go[t] = "work" /\ slot[t] # "yielding"
    /\ "completed" \in validTransitions[status[t]]
    /\ status' = [status EXCEPT ![t] = "completed"]
    /\ GoTo(t, "check")
    /\ unfinished' = unfinished \ {IdOf[t]}
    /\ UNCHANGED <<slots, active, keep, store, paused, cooldown, tracked, call, phase, boot, daemonOver, cancelled, held, raced>>

\* A pause or a Shutdown ended the context, and the final record will see it.  When
\* Daemon.Run failed it will not: a download that notices before the process is gone
\* counts as failed, and its entry goes with the record.
Interrupted(t) == t \in ended /\ (daemonOver => IdOf[t] \in paused \/ shuttingDown)

\* fail: an interruption by Shutdown is not a failure.  With storage, failStorage
\* arms the cooldown first.
Fail(t, storage) ==
    /\ go[t] = "work" /\ slot[t] # "yielding"
    /\ storage => "storage" \in Faults
    /\ cooldown' = IF storage THEN cooldown \cup {IdOf[t]} ELSE cooldown
    /\ IF shuttingDown /\ t \in ended
       THEN GoTo(t, "forget") /\ UNCHANGED status
       ELSE GoTo(t, "check") /\ status' = [status EXCEPT ![t] = Transition(@, "failed")]
    /\ unfinished' = IF Interrupted(t) THEN unfinished ELSE unfinished \ {IdOf[t]}
    /\ UNCHANGED <<slots, active, keep, store, paused, tracked, call, phase, boot, daemonOver, cancelled, held, raced>>

\* pauseForVPN: the tunnel went down and no other method is safe.
PauseForVPN(t) ==
    /\ "vpn" \in Faults
    /\ go[t] = "work" /\ slot[t] # "yielding"
    /\ "cancelled" \in validTransitions[status[t]]
    /\ status' = [status EXCEPT ![t] = "cancelled"]
    /\ keep' = keep \cup {t}
    /\ GoTo(t, "check")
    /\ UNCHANGED <<slots, active, store, paused, cooldown, tracked, call, phase, boot, daemonOver, history>>

\* Mutant: the final record forgets that a pause unwinds through a failure.
RecordCheckBlind(t) ==
    /\ go[t] = "check"
    /\ keep' = IF shuttingDown THEN keep \cup {t} ELSE keep
    /\ GoTo(t, "drop")
    /\ UNCHANGED <<slots, active, status, store, paused, cooldown, tracked, call, phase, boot, daemonOver, history>>

\* recordFinishedKeep: whether the resume entry stays.
RecordCheck(t) ==
    /\ go[t] = "check"
    /\ keep' = IF IdOf[t] \in paused \/ shuttingDown THEN keep \cup {t} ELSE keep
    /\ GoTo(t, "drop")
    /\ UNCHANGED <<slots, active, status, store, paused, cooldown, tracked, call, phase, boot, daemonOver, history>>

\* recordFinishedKeep: drop the entry, by ID, unless it stays.
RecordDrop(t) ==
    /\ go[t] = "drop"
    /\ store' = IF t \in keep THEN store ELSE [store EXCEPT ![IdOf[t]] = "absent"]
    /\ keep' = keep \ {t}
    /\ GoTo(t, "report")
    /\ UNCHANGED <<slots, active, status, paused, cooldown, tracked, call, phase, boot, daemonOver, history>>

\* reporter.ReportFinal: report, then untrack.
ReportFinal(t) ==
    /\ go[t] = "report"
    /\ tracked' = tracked \ {IdOf[t]}
    /\ GoTo(t, "forget")
    /\ UNCHANGED <<slots, active, status, keep, store, paused, cooldown, call, phase, boot, daemonOver, history>>

\* The deferred delete of processTask, by ID.
Forget(t) ==
    /\ go[t] = "forget"
    /\ active' = [active EXCEPT ![IdOf[t]] = NoTask]
    /\ GoTo(t, "release")
    /\ UNCHANGED <<slots, status, keep, store, paused, cooldown, tracked, call, phase, boot, daemonOver, history>>

\* The goroutine ends: a forced task holds no slot, another one gives it back ...
GoRelease(t) ==
    /\ go[t] = "release"
    /\ \/ slot[t] = "out" /\ EndContexts({t}) /\ Gone(t)
       \/ Release(t) /\ GoTo(t, "hand") /\ UNCHANGED status
    /\ UNCHANGED <<active, keep, store, paused, cooldown, tracked, call, phase, boot, daemonOver, history>>

\* Mutant: the slot is given back and offered to nobody.
GoHandOnSilently(t) ==
    /\ go[t] = "hand"
    /\ slot' = [slot EXCEPT ![t] = "out"]
    /\ Gone(t)
    /\ UNCHANGED <<queue, running, enqueuing, ended, shuttingDown>>
    /\ UNCHANGED <<active, keep, store, paused, cooldown, tracked, call, phase, boot, daemonOver, history>>

\* ... and hands it on.
GoHandOn(t) ==
    /\ go[t] = "hand"
    /\ HandOn(t)
    /\ Gone(t)
    /\ UNCHANGED <<active, keep, store, paused, cooldown, tracked, call, phase, boot, daemonOver, history>>

\* dispatch, its deferred part: a task whose context was over is forgotten ...
DispatchForget(t) ==
    /\ ForgetDropped(t)
    /\ active' = [active EXCEPT ![IdOf[t]] = NoTask]
    /\ GoTo(t, "untrack")
    /\ UNCHANGED <<status, keep, store, paused, cooldown, tracked, call, phase, boot, daemonOver, history>>

\* ... and so is one that Shutdown took out of the line ...
DrainForget(t) ==
    /\ go[t] = "drained"
    /\ active' = [active EXCEPT ![IdOf[t]] = NoTask]
    /\ GoTo(t, "untrack")
    /\ UNCHANGED <<slots, status, keep, store, paused, cooldown, tracked, call, phase, boot, daemonOver, history>>

\* ... and then the reporter is told (forgetActive, its second half).
GoUntrack(t) ==
    /\ go[t] = "untrack"
    /\ tracked' = tracked \ {IdOf[t]}
    /\ Gone(t)
    /\ UNCHANGED <<slots, active, keep, store, paused, cooldown, call, phase, boot, daemonOver, history>>

\* The storage cooldown of an ID runs out.
CooldownExpires(id) ==
    /\ id \in cooldown
    /\ cooldown' = cooldown \ {id}
    /\ UNCHANGED <<slots, active, status, go, keep, store, paused, tracked, call, phase, boot, daemonOver, history>>

-----------------------------------------------------------------------------
(* Shutdown, and the end of the process. *)

\* The flag first.
ShutdownFlag ==
    /\ "shutdown" \in Faults
    /\ phase = "up" /\ boot = {}
    /\ FlagShutdown
    /\ phase' = "drain"
    /\ UNCHANGED <<active, status, go, keep, store, paused, cooldown, tracked, call, boot, daemonOver, history>>

\* drainQueue: the line is emptied, its tasks are to be forgotten, their entries stay.
ShutdownDrain ==
    /\ phase = "drain"
    /\ DrainQueue
    /\ phase' = "cancel"
    /\ go' = [t \in Tasks |-> IF slot[t] = "queued" THEN "drained" ELSE go[t]]
    /\ UNCHANGED <<active, status, keep, store, paused, cooldown, tracked, call, boot, daemonOver, history>>

\* Cancel the context of every active task, those of the line being forgotten.
ShutdownCancel ==
    /\ phase = "cancel"
    /\ \A t \in Tasks : go[t] # "drained"
    /\ EndContexts({t \in Tasks : active[IdOf[t]] = t})
    /\ phase' = "wait"
    /\ UNCHANGED <<active, status, go, keep, store, paused, cooldown, tracked, call, boot, daemonOver, history>>

\* The wait ends, with every goroutine or with the timeout, and active is reset.
\* Only a download that does not notice its context, or a final report on a slow
\* network, outlasts the 30 seconds; every other step is local and long done.
ShutdownDone ==
    /\ phase = "wait"
    /\ \A t \in Tasks : go[t] \in {"idle", "ready", "work", "report"}
    /\ \A c \in Callers : call[c] = Idle
    /\ phase' = "down"
    /\ active' = [id \in IDs |-> NoTask]
    /\ UNCHANGED <<slots, status, go, keep, store, paused, cooldown, tracked, call, boot, daemonOver, history>>

\* Daemon.Run returns an error: the daemon's context is cancelled, Shutdown is not
\* called, and main is about to return.
RunFails ==
    /\ "run" \in Faults /\ phase = "up" /\ ~daemonOver
    /\ daemonOver' = TRUE
    /\ EndContexts(Tasks)
    /\ UNCHANGED <<active, status, go, keep, store, paused, cooldown, tracked, call, phase, boot, history>>

\* The process exits or dies, at any moment, and starts anew: paused entries of the
\* store are adopted as paused, the others are submitted again (resumeInterrupted).
ProcessRestart ==
    /\ "restart" \in Faults
    /\ Restart
    /\ active' = [id \in IDs |-> NoTask]
    /\ status' = [t \in Tasks |-> "pending"]
    /\ go' = [t \in Tasks |-> "idle"]
    /\ keep' = {} /\ cooldown' = {} /\ tracked' = {}
    /\ paused' = {id \in IDs : store[id] = "paused"}
    /\ boot' = {id \in IDs : store[id] = "live"}
    /\ call' = [c \in Callers |-> Idle]
    /\ phase' = "up"
    /\ daemonOver' = FALSE
    /\ raced' = {}
    /\ UNCHANGED <<store, unfinished, cancelled, held>>

CallStep(c) ==
    \/ SubmitInsert(c) \/ SubmitClear(c) \/ SubmitStore(c) \/ SubmitTrack(c) \/ SubmitStart(c) \/ SubmitDispatch(c)
    \/ StopMark(c) \/ Settle(c) \/ StopDequeue(c) \/ StopForget(c) \/ StopUntrack(c) \/ StopCancel(c) \/ StopStatus(c)
    \/ DropUnmark(c)

GoStep(t) ==
    \/ Begin(t) \/ Advance(t) \/ Stall(t) \/ Complete(t) \/ PauseForVPN(t)
    \/ \E storage \in BOOLEAN : Fail(t, storage)
    \/ RecordCheck(t) \/ RecordDrop(t) \/ ReportFinal(t) \/ Forget(t)
    \/ GoRelease(t) \/ GoHandOn(t) \/ DispatchForget(t) \/ DrainForget(t) \/ GoUntrack(t)

ShutdownStep == ShutdownFlag \/ ShutdownDrain \/ ShutdownCancel \/ ShutdownDone

Next ==
    \/ \E c \in Callers, id \in IDs :
         \/ \E force \in BOOLEAN : Submit(c, id, force)
         \/ CancelTask(c, id) \/ PauseTask(c, id) \/ DropResume(c, id)
    \/ \E c \in Callers : BootSubmit(c) \/ CallStep(c)
    \/ \E t \in Tasks : GoStep(t)
    \/ \E id \in IDs : CooldownExpires(id)
    \/ ShutdownStep \/ RunFails \/ ProcessRestart

Spec == Init /\ [][Next]_vars

(***************************************************************************)
(* Every goroutine in the middle of a call or of its end goes on.  A       *)
(* download ends, by itself or because its context did, however often it   *)
(* starts over, yields its slot and takes it back: the retries are bounded *)
(* (TaskRun).                                                              *)
(***************************************************************************)
Fairness ==
    /\ \A c \in Callers : WF_vars(CallStep(c))
    /\ \A t \in Tasks :
         /\ WF_vars(Begin(t))
         /\ WF_vars(go[t] = "work" /\ YieldDispatch(t) /\ Stall(t))
         /\ SF_vars(Fail(t, FALSE))
         /\ WF_vars(RecordCheck(t) \/ RecordDrop(t) \/ ReportFinal(t) \/ Forget(t)
                    \/ GoRelease(t) \/ GoHandOn(t) \/ DispatchForget(t) \/ DrainForget(t) \/ GoUntrack(t))

FairSpec == Spec /\ Fairness

-----------------------------------------------------------------------------
CallType == [op : {"none", "submit", "cancel", "pause", "drop"},
             pc : {"idle", "insert", "clear", "store", "track", "start", "dispatch",
                   "mark", "settle", "dequeue", "forget", "untrack", "cancel", "status", "unmark"},
             id : IDs \cup {NoID}, task : Tasks \cup {NoTask}, flag : BOOLEAN]

\* A run of a task: from its insertion into active until its goroutine, or whoever
\* took it out of the line, has let go of it.
Live(t) == go[t] \notin {"idle", "release", "hand", "untrack"}

\* Submit's dedup works: there are never two runs of one task, so never two
\* goroutines on the same files, whoever submits, cancels and resubmits it.
OneRunPerTask ==
    phase # "down" =>
        \A t, u \in Tasks : Live(t) /\ Live(u) /\ IdOf[t] = IdOf[u] => t = u

Submitting(c) == call[c].op = "submit" /\ call[c].pc \in {"clear", "store", "track", "start"}
Forgetting(c) == At(c, {"cancel", "pause"}, "forget")

\* ... and it does not work too well: an ID is only taken while a run of it is
\* live, or a cancel that took it out of the line is about to forget it.  A task
\* that left can always be submitted again.
TakenOnlyWhileLive ==
    phase # "down" =>
        \A id \in IDs : active[id] # NoTask =>
            Live(active[id]) \/ \E c \in Callers : Forgetting(c) /\ Id(c) = id

\* A call in progress has its arguments.
CallsTyped ==
    /\ call \in [Callers -> CallType]
    /\ \A c \in Callers :
         /\ call[c].pc # "idle" => Id(c) \in IDs
         /\ call[c].pc \notin {"idle", "insert", "unmark"} => Obj(c) \in Tasks

\* A task in the line waits for its goroutine, and so does the one a Submit is
\* about to start; no two Submits have the same task at hand.
ReadyToRun ==
    /\ go \in [Tasks -> GoStates]
    /\ \A t \in Tasks : slot[t] \in {"queued", "dropped"} => go[t] = "ready"
    /\ \A t \in Tasks : go[t] \in {"idle", "drained", "untrack"} => slot[t] = "out"
    /\ \A c \in Callers : Submitting(c) =>
            go[Obj(c)] = "ready" /\ slot[Obj(c)] = "out" /\ IdOf[Obj(c)] = Id(c)
    /\ \A c, d \in Callers : c # d /\ Submitting(c) /\ Submitting(d) => Obj(c) # Obj(d)

\* A live run owns the entry of its ID in active, and so does a cancel that is about
\* to forget the run it took out of the line; nobody else does.
Owned ==
    /\ \A t \in Tasks : Live(t) => active[IdOf[t]] = t
    /\ \A id \in IDs : active[id] # NoTask =>
            Live(active[id]) \/ \E c \in Callers : Forgetting(c) /\ Id(c) = id
    /\ \A c \in Callers : Forgetting(c) =>
            active[Id(c)] # NoTask /\ \A t \in Tasks : IdOf[t] = Id(c) => ~Live(t)
    /\ \A c, d \in Callers : c # d /\ Forgetting(c) /\ Forgetting(d) => Id(c) # Id(d)

\* The inductive invariant behind OneRunPerTask and TakenOnlyWhileLive, together
\* with SlotInv.
RunInv ==
    /\ CallsTyped
    /\ daemonOver \in BOOLEAN
    /\ active \in [IDs -> Tasks \cup {NoTask}]
    /\ \A id \in IDs : active[id] # NoTask => IdOf[active[id]] = id
    /\ ReadyToRun
    /\ phase # "down" => Owned

\* Somebody has taken the ID out of active and is about to tell the reporter.
Untracking(id) ==
    \/ \E c \in Callers : At(c, {"cancel", "pause"}, "untrack") /\ Id(c) = id
    \/ \E t \in Tasks : go[t] = "untrack" /\ IdOf[t] = id

\* The reporter only goes on reporting tasks that are active: one that is not is
\* about to be untracked by whoever made it so (Shutdown aside, which leaves
\* interrupted tasks tracked).
TrackedIsActive == ~shuttingDown => \A id \in tracked : active[id] # NoTask \/ Untracking(id)

\* What a restart needs: a persisted download that was accepted, has not ended by
\* itself and was not cancelled is in the resume store at every moment, through
\* pauses, a lost VPN tunnel, shutdowns and crashes, whatever calls overlap.  Not
\* claimed: a download whose Submit was overtaken by a stop, and one that fails
\* because Daemon.Run did.
ResumeSurvives == \A id \in unfinished : store[id] # "absent"

\* A cancel is terminal: once it has settled the store, and until the task is
\* submitted again, there is no resume entry the next start could resurrect,
\* whatever other calls and the ending download do.  Not claimed: a cancel between
\* Submit's insertion and its taskStore.Add, which writes the entry after all.
CancelIsTerminal == \A id \in cancelled : store[id] = "absent"

\* A pause survives the process: once it has settled the store, and until the task
\* is submitted again, no start of the daemon submits it (with the same exception).
PauseSticks == \A id \in held : store[id] # "live" /\ id \notin boot

\* Every run ends and its ID can be submitted again: a task that waits in the line
\* gets a slot, or is cancelled, and a cancel is not lost on a running one.  Only a
\* process that is shutting down may leave one behind.
RunsEnd == \A t \in Tasks : Live(t) ~> ~Live(t) \/ phase # "up"
=============================================================================
