----------------------------- MODULE StreamSlot -----------------------------
(***************************************************************************)
(* The one /stream slot of the persistent stream server and everything     *)
(* that installs a file in it or takes one out:                            *)
(*   engine/stream_server.go  SetFile, SetGrowingFile, ClearFile,          *)
(*                            ClearFileIf, handler; stream_server_slot.go  *)
(*   cmd/stream_handler.go    handleStreamTask, the stream registry, the   *)
(*                            idle guard                                   *)
(*   cmd/daemon.go            OnTasksClaimed, OnStreamRequested, "stream"  *)
(*                            and "stop-stream" controls, OnStreamSession  *)
(*   cmd/closed_stream_sessions.go  closeByWeb, registerServed,            *)
(*                            slotSessionCancel                            *)
(*                                                                         *)
(* A file generation is used for nothing but equality, and each owner      *)
(* installs one file at most, so the generation a teardown remembers is    *)
(* the owner itself: ClearFileIf(gen) asks whether slot = owner.           *)
(***************************************************************************)
EXTENDS PlayerSessions, FiniteSets

CONSTANTS Runs,       \* handleStreamTask goroutines, one per claimed stream task
          Disks,      \* goroutine-less streams: the "stream" control, a disk request
          Tasks, TaskOf,   \* the task id each owner serves under
          Empty, Free, NoRun, NoTask

Owners == Sessions \cup Runs \cup Disks

(* Owners are told apart, and what stands for nobody is none of them.  The sync
   loop is free, or busy with an owner, or with the close <<s>> of a session. *)
ASSUME SlotAssumption ==
  /\ TaskOf \in [Owners -> Tasks]
  /\ Empty \notin Owners
  /\ Sessions \cap (Runs \cup Disks) = {}
  /\ \A s \in Sessions: <<s>> \notin Owners \cup {Free}

VARIABLES slot,       \* the owner of the served file, or Empty
          reader,     \* the file the open /stream connection reads, or Empty
          kind, spc,  \* each session: how it plays and where its start path is
          held,       \* sessions whose own resource (NNTP handle, remux ffmpeg) is up
          td,         \* the teardown of each session (slotSessionCancel)
          rkind, rpc, \* each stream goroutine
          dead,       \* stream goroutines whose context is cancelled
          streamRegistry, \* streamRegistry.cancels: the goroutine a task's cancel reaches
          dpc, gens,  \* goroutine-less streams; taskStreamGens
          guard,      \* the task the idle guard has judged idle, or NoTask
          loop        \* what the sync loop is busy with

server == <<slot, reader>>
player == <<kind, spc, held, td>>
task == <<rkind, rpc, dead, streamRegistry, dpc, gens>>
streamVars == <<tables, server, player, task, guard, loop>>

SlotKind == {"direct", "remux", "debrid", "usenet"}

StreamInit ==
  /\ TablesInit
  /\ slot = Empty /\ reader = Empty
  /\ kind = [s \in Sessions |-> "direct"] /\ spc = [s \in Sessions |-> "new"]
  /\ held = {} /\ td = [s \in Sessions |-> "none"]
  /\ rkind = [g \in Runs |-> "debrid"] /\ rpc = [g \in Runs |-> "new"]
  /\ dead = {} /\ streamRegistry = [t \in Tasks |-> NoRun]
  /\ dpc = [d \in Disks |-> "new"] /\ gens = [t \in Tasks |-> Empty]
  /\ guard = NoTask /\ loop = Free

-----------------------------------------------------------------------------
(* The server. *)

(* SetFile, SetGrowingFile: the new file supersedes whatever is served, and a
   remux it supersedes is closed. The remainder of held is the caller's. *)
Superseded == {s \in held: slot = s /\ kind[s] = "remux"}

Install(o) == slot' = o /\ UNCHANGED reader

ClearFile == slot' = Empty /\ UNCHANGED reader

ClearFileAlways(o) == ClearFile

(* ClearFileIf: check and clear under one lock. *)
ClearFileIf(o) == IF slot = o THEN ClearFile ELSE UNCHANGED server

(* SlotInUse: still this file, and some playback connection is open or a byte
   of it was served a moment ago. A remux is served by serveGrowing, which
   counts neither connections nor bytes. *)
SlotInUse(o) == slot = o /\ reader # Empty

CurrentTaskID == IF slot = Empty THEN NoTask ELSE TaskOf[slot]

(* handler: a request for a served file; a provider's connection is counted. *)
Connect ==
  /\ slot # Empty /\ reader = Empty
  /\ reader' = IF slot \in Sessions /\ kind[slot] = "remux" THEN reader ELSE slot
  /\ UNCHANGED <<tables, slot, player, task, guard, loop>>

Disconnect ==
  /\ reader # Empty
  /\ reader' = Empty
  /\ UNCHANGED <<tables, slot, player, task, guard, loop>>

-----------------------------------------------------------------------------
(* Stream goroutines: the registry and its cancels. *)

(* cancelStreamTask: the task's cancel is taken out and called. *)
CancelStream(t) ==
  /\ dead' = dead \cup ({streamRegistry[t]} \ {NoRun})
  /\ streamRegistry' = [streamRegistry EXCEPT ![t] = NoRun]

(* displacePriorStreams: every stream but those of the task that arrives. *)
displacePriorStreams(keep) ==
  /\ dead' = dead \cup ({streamRegistry[t]: t \in Tasks \ {keep}} \ {NoRun})
  /\ streamRegistry' = [t \in Tasks |-> IF t = keep THEN streamRegistry[t] ELSE NoRun]

(* OnTasksClaimed, mode "stream": a task that streams already is skipped. *)
Claim(g) ==
  /\ loop = Free /\ rpc[g] = "new" /\ streamRegistry[TaskOf[g]] = NoRun
  /\ \E k \in {"debrid", "usenet", "p2p"}: rkind' = [rkind EXCEPT ![g] = k]
  /\ displacePriorStreams(TaskOf[g])
  /\ rpc' = [rpc EXCEPT ![g] = "claimed"]
  /\ loop' = g
  /\ UNCHANGED <<tables, server, player, dpc, gens, guard>>

ClaimClear(g) ==
  /\ loop = g
  /\ ClearFile /\ held' = held \ Superseded
  /\ streamRegistry' = [streamRegistry EXCEPT ![TaskOf[g]] = g]
  /\ rpc' = [rpc EXCEPT ![g] = "spawned"]
  /\ loop' = Free
  /\ UNCHANGED <<tables, kind, spc, td, rkind, dead, dpc, gens, guard>>

(* handleStreamTask registers its own cancel, whatever became of the claim's. *)
RunRegister(g) ==
  /\ rpc[g] = "spawned"
  /\ streamRegistry' = [streamRegistry EXCEPT ![TaskOf[g]] = g]
  /\ rpc' = [rpc EXCEPT ![g] = "prepare"]
  /\ UNCHANGED <<tables, server, player, rkind, dead, dpc, gens, guard, loop>>

(* The debrid probe, the usenet plan, the swarm's metadata and first buffer:
   they fail by themselves or by the cancelled context, or have just made it. *)
Prepare(g) ==
  /\ rpc[g] = "prepare"
  /\ \E next \in {"install", "fail"}: rpc' = [rpc EXCEPT ![g] = next]
  /\ UNCHANGED <<tables, server, player, rkind, dead, streamRegistry, dpc, gens,
                 guard, loop>>

RunInstall(g) ==
  /\ rpc[g] = "install"
  /\ Install(g) /\ held' = held \ Superseded
  /\ rpc' = [rpc EXCEPT ![g] = "serving"]
  /\ UNCHANGED <<tables, kind, spc, td, rkind, dead, streamRegistry, dpc, gens,
                 guard, loop>>

(* The context ended, or a P2P stream lost its tunnel. A usenet stream clears
   its file before the deferred block runs, the others in it. *)
RunEnds(g) ==
  /\ rpc[g] = "serving"
  /\ g \in dead \/ rkind[g] = "p2p"
  /\ rpc' = [rpc EXCEPT ![g] = IF rkind[g] = "usenet" THEN "clear" ELSE "leave"]
  /\ UNCHANGED <<tables, server, player, rkind, dead, streamRegistry, dpc, gens,
                 guard, loop>>

(* What a goroutine that is done leaves behind does not matter any more. *)
Steps(g, pc) ==
  /\ rpc' = [rpc EXCEPT ![g] = pc]
  /\ rkind' = [rkind EXCEPT ![g] = IF pc = "done" THEN "debrid" ELSE @]
  /\ dead' = IF pc = "done" THEN dead \ {g} ELSE dead

(* The deferred delete is by task id. *)
RunLeave(g) ==
  /\ rpc[g] \in {"leave", "fail"}
  /\ streamRegistry' = [streamRegistry EXCEPT ![TaskOf[g]] = NoRun]
  /\ Steps(g, IF rpc[g] = "leave" /\ rkind[g] # "usenet" THEN "clear" ELSE "done")
  /\ UNCHANGED <<tables, server, player, dpc, gens, guard, loop>>

RunClear(g) ==
  /\ rpc[g] = "clear"
  /\ ClearFileIf(g)
  /\ Steps(g, IF rkind[g] = "usenet" THEN "leave" ELSE "done")
  /\ UNCHANGED <<tables, player, streamRegistry, dpc, gens, guard, loop>>

-----------------------------------------------------------------------------
(* Streams without a goroutine: OnStreamRequested and the "stream" control. *)

DiskDisplace(d) ==
  /\ dpc[d] = "new" /\ CurrentTaskID # TaskOf[d]
  /\ displacePriorStreams(TaskOf[d])
  /\ dpc' = [dpc EXCEPT ![d] = "install"]
  /\ UNCHANGED <<tables, server, player, rkind, rpc, gens, guard, loop>>

DiskInstall(d) ==
  /\ dpc[d] = "install"
  /\ Install(d) /\ held' = held \ Superseded
  /\ dpc' = [dpc EXCEPT ![d] = "record"]
  /\ UNCHANGED <<tables, kind, spc, td, rkind, rpc, dead, streamRegistry, gens,
                 guard, loop>>

setTaskStreamGen(d) ==
  /\ dpc[d] = "record"
  /\ gens' = [gens EXCEPT ![TaskOf[d]] = d]
  /\ dpc' = [dpc EXCEPT ![d] = "done"]
  /\ UNCHANGED <<tables, server, player, rkind, rpc, dead, streamRegistry, guard, loop>>

(* stop-stream, and every control that ends a task: cancelStreamTask, then
   clearTaskStream, which takes the remembered generation and clears by it. *)
StopStream(t) ==
  /\ CancelStream(t)
  /\ IF gens[t] = Empty THEN UNCHANGED server ELSE ClearFileIf(gens[t])
  /\ gens' = [gens EXCEPT ![t] = Empty]
  /\ UNCHANGED <<tables, player, rkind, rpc, dpc, guard, loop>>

(* startIdleGuard looks, then cancels the task it looked at and clears what is
   served by then. Half an hour without a NEW request may have gone by at any
   look: a viewer on one long connection makes none. *)
GuardLook ==
  /\ guard = NoTask /\ slot # Empty
  /\ guard' = CurrentTaskID
  /\ UNCHANGED <<tables, server, player, task, loop>>

GuardReap ==
  /\ guard # NoTask
  /\ CancelStream(guard)
  /\ ClearFile /\ held' = held \ Superseded
  /\ guard' = NoTask
  /\ UNCHANGED <<tables, kind, spc, td, rkind, rpc, dpc, gens, loop>>

-----------------------------------------------------------------------------
(* Player sessions served through the slot: OnStreamSession. *)

OnLoop(s) == kind[s] \in {"direct", "remux"}

(* The start path of s is over; a session started on the sync loop frees it.
   From here on only a remux differs from the other kinds. *)
Leaves(s, pc) ==
  /\ spc' = [spc EXCEPT ![s] = pc]
  /\ kind' = [kind EXCEPT ![s] = IF pc = "live" /\ @ = "remux" THEN @ ELSE "direct"]
  /\ loop' = IF loop = s THEN Free ELSE loop

(* A known or closed id is ignored. direct and remux run on the sync loop, the
   two probes on a goroutine of their own, with their cancel as a placeholder. *)
OnSlotSession(s) ==
  /\ loop = Free /\ spc[s] \in {"new", "failed"} /\ ~has(s) /\ ~sessionClosedByWeb(s)
  /\ \E k \in SlotKind:
       /\ kind' = [kind EXCEPT ![s] = k]
       /\ spc' = [spc EXCEPT ![s] = IF k = "direct" THEN "install" ELSE "probe"]
       /\ loop' = IF k \in {"direct", "remux"} THEN s ELSE Free
       /\ IF k \in {"debrid", "usenet"} THEN add(s, "start") ELSE UNCHANGED cancels
  /\ UNCHANGED <<closed, server, held, td, task, guard>>

(* The probe succeeds: a remux ffmpeg or an NNTP handle is up. *)
Probed(s) ==
  /\ spc[s] = "probe"
  /\ held' = IF kind[s] \in {"remux", "usenet"} THEN held \cup {s} ELSE held
  /\ spc' = [spc EXCEPT ![s] = "check"]
  /\ UNCHANGED <<tables, server, kind, td, task, guard, loop>>

(* It fails, by itself or because a close aborted it: the placeholder goes. *)
ProbeFails(s) ==
  /\ spc[s] = "probe"
  /\ IF OnLoop(s) THEN UNCHANGED cancels ELSE remove(s)
  /\ Leaves(s, "failed")
  /\ UNCHANGED <<closed, server, held, td, task, guard>>

CheckClosedKeeps(s) ==
  /\ spc[s] = "check"
  /\ \/ /\ sessionClosedByWeb(s)
        /\ IF OnLoop(s) THEN UNCHANGED cancels ELSE remove(s)
        /\ Leaves(s, "over")
     \/ /\ ~sessionClosedByWeb(s)
        /\ spc' = [spc EXCEPT ![s] = "install"]
        /\ UNCHANGED <<cancels, kind, loop>>
  /\ UNCHANGED <<closed, server, held, td, task, guard>>

(* The last look at the closed set before anything is served. *)
CheckClosed(s) ==
  /\ spc[s] = "check"
  /\ \/ /\ sessionClosedByWeb(s)
        /\ held' = held \ {s}
        /\ IF OnLoop(s) THEN UNCHANGED cancels ELSE remove(s)
        /\ Leaves(s, "over")
     \/ /\ ~sessionClosedByWeb(s)
        /\ spc' = [spc EXCEPT ![s] = "install"]
        /\ UNCHANGED <<cancels, kind, held, loop>>
  /\ UNCHANGED <<closed, server, td, task, guard>>

SessionInstall(s) ==
  /\ spc[s] = "install"
  /\ Install(s) /\ held' = held \ Superseded
  /\ spc' = [spc EXCEPT ![s] = "add"]
  /\ UNCHANGED <<tables, kind, td, task, guard, loop>>

(* registerServed: add, then look again, then tear down what a close missed. *)
AddServed(s) ==
  /\ spc[s] = "add"
  /\ add(s, "serve")
  /\ spc' = [spc EXCEPT ![s] = "recheck"]
  /\ UNCHANGED <<closed, server, kind, held, td, task, guard, loop>>

RecheckSkipped(s) ==
  /\ spc[s] = "recheck"
  /\ Leaves(s, "live")
  /\ UNCHANGED <<tables, server, held, td, task, guard>>

Recheck(s) ==
  /\ spc[s] = "recheck"
  /\ IF sessionClosedByWeb(s)
       THEN spc' = [spc EXCEPT ![s] = "take"] /\ UNCHANGED <<kind, loop>>
       ELSE Leaves(s, "live")
  /\ UNCHANGED <<tables, server, held, td, task, guard>>

(* takeForClose: the one who removes the entry runs its cancel. *)
TakeForClose(s) ==
  /\ td' = [td EXCEPT ![s] = IF cancels[s] = "serve" THEN "asked" ELSE @]
  /\ remove(s)

TakeBack(s) ==
  /\ spc[s] = "take"
  /\ TakeForClose(s)
  /\ Leaves(s, IF td'[s] = "none" THEN "over" ELSE "live")
  /\ UNCHANGED <<closed, server, held, task, guard>>

(* closeByWeb: mark, then take. The placeholder's cancel only aborts a probe. *)
CloseMark(s) ==
  /\ loop = Free
  /\ mark(s)
  /\ loop' = <<s>>
  /\ UNCHANGED <<cancels, server, player, task, guard>>

CloseTake(s) ==
  /\ loop = <<s>>
  /\ TakeForClose(s)
  /\ loop' = Free
  /\ UNCHANGED <<closed, server, kind, spc, held, task, guard>>

TeardownOnce(s) ==
  /\ td[s] = "asked"
  /\ td' = [td EXCEPT ![s] = IF SlotInUse(s) THEN "deferred" ELSE "release"]
  /\ UNCHANGED <<tables, server, kind, spc, held, task, guard, loop>>

(* slotSessionCancel: wait while the slot is still read, release, then clear. *)
Teardown(s) ==
  /\ td[s] \in {"asked", "deferred"}
  /\ td' = [td EXCEPT ![s] = IF SlotInUse(s) THEN "deferred" ELSE "release"]
  /\ td' # td
  /\ UNCHANGED <<tables, server, kind, spc, held, task, guard, loop>>

Release(s) ==
  /\ td[s] = "release"
  /\ held' = held \ {s}
  /\ td' = [td EXCEPT ![s] = "clear"]
  /\ UNCHANGED <<tables, server, kind, spc, task, guard, loop>>

TeardownClear(s) ==
  /\ td[s] = "clear"
  /\ ClearFileIf(s)
  /\ td' = [td EXCEPT ![s] = "done"]
  /\ UNCHANGED <<tables, kind, spc, held, task, guard, loop>>

-----------------------------------------------------------------------------
SessionNext(s) ==
  \/ OnSlotSession(s) \/ Probed(s) \/ ProbeFails(s) \/ CheckClosed(s) \/ SessionInstall(s)
  \/ AddServed(s) \/ Recheck(s) \/ TakeBack(s) \/ CloseMark(s) \/ CloseTake(s)
  \/ Teardown(s) \/ Release(s) \/ TeardownClear(s)

RunNext(g) ==
  \/ Claim(g) \/ ClaimClear(g) \/ RunRegister(g) \/ Prepare(g)
  \/ RunInstall(g) \/ RunEnds(g) \/ RunLeave(g) \/ RunClear(g)

StreamNext ==
  \/ \E s \in Sessions: SessionNext(s)
  \/ \E g \in Runs: RunNext(g)
  \/ \E d \in Disks: DiskDisplace(d) \/ DiskInstall(d) \/ setTaskStreamGen(d)
  \/ \E t \in Tasks: StopStream(t)
  \/ GuardLook \/ GuardReap \/ Connect \/ Disconnect

StreamSpec == StreamInit /\ [][StreamNext]_streamVars

(* Every goroutine is scheduled, and so are the sync loop's own steps; what a
   viewer, the web, a user or the clock may do is not. *)
Fairness ==
  /\ \A s \in Sessions:
       /\ WF_streamVars(Probed(s) \/ ProbeFails(s)) /\ WF_streamVars(CheckClosed(s))
       /\ WF_streamVars(SessionInstall(s)) /\ WF_streamVars(AddServed(s)) /\ WF_streamVars(Recheck(s))
       /\ WF_streamVars(TakeBack(s)) /\ WF_streamVars(CloseTake(s)) /\ WF_streamVars(Teardown(s))
       /\ WF_streamVars(Release(s)) /\ WF_streamVars(TeardownClear(s))
  /\ \A g \in Runs:
       /\ WF_streamVars(RunRegister(g)) /\ WF_streamVars(Prepare(g)) /\ WF_streamVars(RunInstall(g))
       /\ WF_streamVars(g \in dead /\ RunEnds(g)) /\ WF_streamVars(RunLeave(g)) /\ WF_streamVars(RunClear(g))
       /\ WF_streamVars(ClaimClear(g))

FairSpec == StreamSpec /\ Fairness

-----------------------------------------------------------------------------
Settled(s) == spc[s] \in {"new", "live", "over", "failed"} /\ loop # <<s>>

(* A session the web closed is not served: once its start path and its teardown
   are over, whatever order the close and the start met in, its file is out of
   the slot, its own resource is released and nothing is registered for it
   (closeByWeb against registerServed, CheckClosed and slotSessionCancel). *)
ClosedIsTornDown ==
  \A s \in Sessions:
    sessionClosedByWeb(s) /\ Settled(s) /\ td[s] \in {"none", "done"}
      => slot # s /\ s \notin held /\ ~has(s)

(* No session leaks: one whose NNTP handle or remux ffmpeg is still up is
   starting, or registered with the cancel that ends it, or being torn down. *)
NoLostResource ==
  \A s \in held: \/ spc[s] \in {"check", "install", "add"}
                 \/ cancels[s] = "serve"
                 \/ td[s] \in {"asked", "deferred", "release"}

(* o is taking its own file out of the slot. *)
Ending(o) == \/ o \in Sessions /\ td[o] = "clear"
             \/ o \in Runs /\ rpc[o] = "clear"
             \/ o \in Disks /\ gens[TaskOf[o]] = o

(* A late teardown never takes a file that is not its own out of the slot: the
   slot is emptied under an owner only when that owner itself is ending, or by
   a new claim, or by the idle guard. *)
TeardownSparesNewer ==
  [][slot # Empty /\ slot' = Empty
       => Ending(slot) \/ loop \in Runs \/ guard # NoTask]_streamVars

(* A closed session ends: once the external players the teardown waits for are
   gone for good, its file leaves the slot and its resource is released. *)
ClosedEnds ==
  <>[](reader = Empty) =>
    \A s \in Sessions:
      sessionClosedByWeb(s) ~> (slot # s /\ s \notin held) \/ ~sessionClosedByWeb(s)

=============================================================================
