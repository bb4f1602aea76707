# A TLA+ model of unarr-cli

unarr-cli is the agent a user runs at home: a daemon that takes downloads from a
server, fetches them by torrent, debrid, usenet or IPTV, verifies, unpacks and files
them, and streams them to players. This directory holds TLA+ models of the parts that
decide what happens to a download or a stream, the TLC configurations that check them,
and proofs for TLAPS. `PROJECT.json` is the index: components, runs, the source lines
behind every definition, hazards, theorems.

To check a run: `tlc -config SlotQueue.cfg MCSlotQueue`. To check proofs:
`tlapm ManagerProofs.tla`. Paths below are relative to `src/internal/`.

## The system

| part | state | operations | what makes it hard |
|---|---|---|---|
| path lock (`engine/pathlock.go`) | map path → entry with count and channel | LockCtx, release | entries outlive their deletion from the map; a waiter may give up |
| slots and line (`engine/manager_queue.go`) | `queue`, `running`, a lease per task | enqueue, dispatch, dequeue, yield, reclaim, release, drainQueue | every dispatch runs after its lock was dropped |
| download manager (`engine/manager.go`) | `active`, `cancels`, `paused`, `storageFailedAt`, `recentFinished` | Submit, CancelTask, PauseTask, CancelAndDeleteFiles, DropResume, Shutdown, the end of a run | three callers, five locks, none held from start to end; process death |
| resume store (`agent/active_tasks.go`) | JSON file of accepted tasks | Add, Remove, SetPaused, Load | all that survives the process |
| a download's run (`processTask`, `resolve.go`, `source_failover.go`) | status, tried methods, candidates, two retry counts | resolve, download, repair, fall back, verify, finalize, fail | four nested retry loops; cancel and shutdown between any two steps |
| task controller (`cmd/daemon_task_control.go`) | `resumedAt` | Pause, Resume, Cancel, Retry, Purge, ReapUnknown, ApplyWebAction | an old pause and a new one look alike |
| progress reporter (`engine/progress.go`) | `latest`, `unknownStreak` | Track, flush, handleResponse, ReportFinal | answers describe an earlier moment |
| sync client (`agent/sync.go`) | request queues, the SSE stream | doSync, processResponse, handleDownlinkEvent | three channels that do not wait for one another |
| unpack and organize (`engine/manager.go`, `organize.go`, `usenet/postprocess`) | directories | extract, rename, move, clean | crash between two renames; two tasks on one release |
| usenet (`usenet/nntp`, `usenet/download`, `usenet/stream`) | connection pool, segment bitsets, article cache | acquire, release, MarkDone, Flush, begin, finish | lost wake-ups, flush order, shared fetches and buffers |
| streaming (`engine/stream_server.go`, `hls*.go`, `srcproxy`, `cmd/stream_handler.go`, `cmd/*session*.go`) | one served file with a generation, session registries, cache directories | SetFile, ClearFileIf, Register, Pin, Sweep, close by web | teardown of an old session against the start of a new one |
| IPTV hold (`engine/playback_hold.go`, `cmd/iptv_stream_hold.go`) | a slot per account | acquire, preempt, release | newest wins; a timeout that gives up exclusion |
| daemon state (`agent/state.go`, `stopintent.go`, `daemon.go`) | state file, seal, markers | WriteState, SealState, ReapOwnState, upgrade | stragglers at shutdown; two agents on one data directory |
| VPN tunnel, mirrors, credentials, upgrade | one device, one cursor, one key, one binary | Reconnect, Rotate, adopt, install | two actors at once |
| commands, desktop tray, library scan, remote mount, configuration, metrics | data and user interface | | sequential, or I/O only |

Downloads meet in the manager: the sync client and the controller call it, the reporter
reads it, a run uses slots, the path lock and the store. Streams meet in two places: the
one file of the stream server and, for HLS, the registry of sessions. Both keep the
same two tables, the sessions that run and the sessions the web closed, and an IPTV
stream and an IPTV download share one connection of the provider.

## Modules

| module | models | extends |
|---|---|---|
| `PathLock` | the lock per path | |
| `Task` | the status table and `Transition` | |
| `SlotQueue` | slots and line | |
| `Manager` | manager, resume store, Shutdown, restart | `SlotQueue`, `Task` |
| `TaskRun` | the goroutine of one download | `Task` |
| `AgentSync` | controller, reporter, sync and server for one download | |
| `NntpPool` | the pool of NNTP connections and the calls that use it | |
| `SavedRevision` | abstract: what a resume record promises | |
| `ProgressTracker` | the segment bits of a usenet download and their file | implements `SavedRevision` |
| `UsenetDownload` | a usenet download across attempts | `ProgressTracker` |
| `PlayerSessions` | the tables of running and of closed sessions | |
| `StreamSlot` | the file served on /stream and all that install or clear it | `PlayerSessions` |
| `HlsEncoder` | the ffmpegs of one HLS session and its cache directory | |
| `HlsSessions` | HLS sessions from request to Close, cache locks, provider account | `PlayerSessions` |
| `SlotQueueProofs`, `NntpPoolProofs`, `UsenetDownloadProofs`, `HlsEncoderProofs` | proofs | the module named |
| `ManagerSteps`, `ManagerProofs` | proofs about `Manager` | in this order; the last also `SlotQueueProofs` |
| `TaskProofs` | proofs about one download | `PathLock`, `TaskRun`, `AgentSync` |
| `PlayerProofs` | proofs about player sessions | `StreamSlot`, `HlsSessions` |
| `MC…` | the constants of the runs | |

`PathLock`, `AgentSync` and `StreamSlot` prefix the names every specification has
(`LockSpec`, `AgentSpec`, `StreamSpec`, and so on), so that one module of proofs can extend
them beside another.

**PathLock.** A `pathLockEntry` is a heap object of the set `Entries`; a caller
keeps in `mine` the one it fetched. `Entry`, `Acquire` (the send on the channel),
`Abort` (the context ends first), `Unlock` and `UnlockRelease` are the atomic
sections of `LockCtx` and of the function it returns. `Abs` is `filepath.Abs`: two
spellings of a path meet in one key.

**SlotQueue.** Each section under `queueMu` is an action. The dispatch behind it is
another action, and `enqueuing`, `"yielding"`, `"handing"` record who still owes one.
`Takes(n)` is the loop of `dispatch` as a condition on how many tasks it takes. A
reclaim may raise `running` above `MaxConcurrent`, as in the code.

**Manager.** A call is a record (`op`, `pc`, `id`, `task`, `flag`) that advances one
lock section per step; a run's goroutine has a place in `go`. `active` stands for
`active` and `cancels`, which are written together. A task object is reused only when
nothing refers to it (`Fresh`). While a run works, its status moves along any edges
of the table; `TaskRun` models which. `forgetActive` is two steps wherever it is
called: the deletion from `active` under its lock (`StopForget`, `DispatchForget`,
`DrainForget`) and, the lock let go, the reporter's `Untrack` by ID (`StopUntrack`,
`GoUntrack`), between which the ID may be submitted again. A stop changes the pause set
(`StopMark`) and the store (`Settle`) in two steps. `unfinished`, `cancelled` and `held`
are history: what was last promised about an ID. `raced` has the IDs whose `Submit`, on
its way from `active` to the store, was overtaken by a cancel or a pause; nothing is
promised about those. `ShutdownDone` lets only a running download or a slow final report
outlast the 30 seconds of `Shutdown`, since every other step is local. `Faults` lists
the events a run admits.

**TaskRun.** `pc`, `phase` and `err` are the position in `processTask`,
`attemptDownload`, `tryDebridSourceRepair` and `tryFallback`, with the error they
hold. Errors are the classes the code tells apart. Every `Transition` is taken from
the table, the rejected ones included. The environment cancels, pauses or shuts down
between any two steps. What `verify` compares, and with which tolerance, is an outcome:
the result passes, is broken, cannot be read back or is gone. `removeBrokenResult` is
left out. `lost` is the attempt that lost the VPN tunnel.

**AgentSync.** One download. The manager's calls are single steps here. The server is
outside the repository: `SyncServer`, `ReportServer`, `Web` and `Note` are modelled
from how the agent uses its answers and are marked external. A sync in flight
carries the state it was built from and then the answer of the moment it was
answered; commands on the SSE stream, status answers and reports of local changes
travel independently and may be lost. `GraceExpires` happens at any moment, whatever
is on its way: resumeGrace is a clock of 20 seconds, and a sync answer may take 30. A
resume whose window closes while an older pause or its own report is still under way is
`"overdue"` in `wish`, and `PauseIsWanted` does not speak of it: such a pause does undo
the resume. `AgentInit` is a download that runs or one that was paused some time ago;
the bound on calls then reaches two controls after either.

**NntpPool.** A caller is a goroutine in `BodyInto`; its `pc` is the section of
`acquire`, `release`, `replace` or `retire` it stands at. `pool` is the channel of idle
connections, `freed` the tokens of the wake channel, `open` the counter. A connection is
an identity, used again once closed. An exchange succeeds, fails on the wire, or is
given up by its context; the last two leave the reply in the socket (`unread`). Names
of articles and bodies are left out.

**ProgressTracker, UsenetDownload.** The tracker has its bits and sizes in memory and
a record on disk. `flushLocked` is two actions, `FlushBegin` (the snapshot and the
cleared dirty mark, under `mu`) and `FlushEnd` (the write, which may fail); between
them workers mark segments. Each flusher has its own snapshot, and `flushMu` alone keeps
two of them apart. `rev` counts how often the memory turned dirty and is the refinement
mapping: `saved.rev` is the revision on disk. `Load` accepts the file, or starts afresh
beside it when it cannot be read or does not fit. A worker takes a segment, writes it, notes the
file's size, marks it and may flush, each a step. `Crash` drops the memory at any
step; `Wipe` deletes the data of a download at rest. `damaged` is the verdict of
par2, which the code acts on only after extraction and cleanup (`AfterProcess`,
`Corrupt`). `lapse` records what the promises about the record except: data deleted
behind its back or a discarded file that a later `Load` accepted (`"lost"`), a record
that is still there beside a fresh start (`"unread"`, until the first flush), and a
failing `MkdirAll` (`"mkdir"`). `NoteFileSize` is one step: its compare-and-swap loop
leaves the maximum whatever the order. `Start` waits for no `Cancel`: one that has not
come to `tracker.Remove` yet removes the file of the new run (`RemoveStale`).

**StreamSlot.** Each owner of a file (a session, a stream goroutine, a disk stream)
installs one, so a generation is the owner's name. `spc`, `rpc`, `dpc` are the places
of the start paths; `td` is the teardown of a session, which is asked for, deferred
while an external player reads the same file, releases the resource and clears the
slot. Direct and remux sessions start on the sync loop (`loop`), so no claim, disk
stream or other session interleaves with them; debrid and usenet ones have a goroutine
and register their probe first.

**HlsEncoder.** The directory is which segments exist, which are truncated and which
were written in this life. Every ffmpeg has a supervisor and a poller with steps of
their own, so a relaunch decided by one, a seek by a handler and Close interleave at
every unlock. `kind` tells an encode, a copy (which does not use the cache), and a copy
that fell back to encoding. ffmpeg is external: it writes segments in order,
truncates one before it overwrites it, and dies at any moment. `Crash` ends the daemon
and its ffmpegs; the next session scans what is left.

**HlsSessions.** Sessions of one title: they compete for the writer lock of one cache
key and, when `Single`, for one account. The start goroutine walks the whole of
`startHLSPlayback` and `StartHLSSession`: the prewarm's deference or the viewer's
reaping of prewarms, `holdIptvForStream` with the rounds of `acquire`, probe, cache
look-up, writer lock, spawn, registration with eviction, the second look at the
closed set. `Close` is three steps, and whoever calls it waits (`waits`). `gaveWay` is
raised when a bounded wait runs out and the code goes on without what it waited for.
Whether a key is sealed is a choice at the look-up; what the encoder does is
`HlsEncoder`'s.

## Runs

| run | instance | shows |
|---|---|---|
| `path_lock` | 3 callers, 2 paths, 3 spellings | exclusion, no leak, every waiter is served |
| `slot_queue` | 3 tasks, 1 slot | no idle slot beside a waiting task, starts in order, the line moves |
| `manager_serial` | 1 ID, 2 task objects, 1 caller, every call, shutdown, process death, storage fault, `Daemon.Run` may fail | accepted downloads stay in the store, cancels are terminal, pauses stick (1.9 million states, about 2 minutes) |
| `manager_concurrent` | 1 ID, 2 task objects, 2 callers that submit, cancel, pause, lost VPN | one run per ID, no ID stays taken, the reporter tracks nothing that has left, a settled cancel is terminal whatever overlaps it (1.3 million states, about 1.5 minutes) |
| `manager_live` | 2 IDs, one not persisted, 1 slot, `Daemon.Run` may fail | every run ends |
| `task_run` | 3 preferences × 3 configured lists, 2 candidates | a run settles and ends, within a bounded number of downloads; damaged only when the attempts are spent; a shutdown is no failure; no torrent after the tunnel was lost, and paused when no other method delivers |
| `agent_sync` | 2 controls of the web or this machine, every loss | a confirmed local resume is not undone by an older pause; a wanted pause and a cancel get through |
| `nntp_pool` | 3 callers, limit 2, 5 identities | `open` is exact; a caller never reads another call's reply; the limit is passed only by a fresh connection beside the broken one it replaces |
| `usenet_download` | 2 files (2 and 1 segments), 2 workers, 2 attempts, parity or none | the record never promises bytes that are not there; clean means saved; a delivery is complete; the record moves as `SavedRevision` says; a download returns |
| `stream_slot` | a session of any of 4 kinds, a stream task, a disk stream, 2 task ids | a closed session is torn down and leaks nothing; no teardown takes a newer file; a closed session ends when its readers have gone |
| `hls_encoder` | 3 segments, 2 ffmpegs, 2 lives, 1 handler, 1 restart | a sealed entry is one timeline; nothing truncated is inherited; without seeks one encoder at a time, none after Close |
| `hls_sessions` | 2 sessions, each viewer or prewarm, an IPTV download | one reader of the account until a wait runs out; everything is given back; the web's close lands |

**`ResumeSurvives`, `CancelIsTerminal` and `PauseSticks`** speak of every overlap of calls
and every fault. They except three things the code does (Observations). A cancel or a
pause that overtakes a `Submit` between `active` and `taskStore.Add` promises nothing
(`raced`). A download that fails because `Daemon.Run` did, before the process is gone,
counts as ended. And a cancel or `DropResume` is one of the ID: it ends what is promised
about whichever run has it by then. The two runs divide the faults and the callers
between them; the theorems have all of them together, and `StoreInv`, the invariant
behind them, was checked on both instances.

**`TrackedIsActive`** has one direction only: what is tracked is active, or about to be
untracked. The other one is false: a late `Untrack` may hit a run submitted in between,
which then goes unreported.

**`DownloadEnds`** assumes that the NNTP pool serves a waiting worker or fails it. The
pool does not guarantee that (the first observation on usenet below), and `NntpPool` has
no liveness property for this reason. **`OneReader`** counts sessions: the two
ffmpegs that one session may have for a moment after a seek are one reader.

**Bounds.** Two task objects of one ID are what dedup and stale references need: an
old run that unwinds and the resubmission. Three tasks on one slot give a holder, one
that yielded and reclaims, and a line in which order matters. Two callers are the
sync loop and the downlink. In `AgentSync`, `MaxAsks` counts the users' calls; two
cover every ordered pair of controls. In `NntpPool` a third caller waits while two hold
the limit, and the identities cover the connections that can exist at once (two, and a
replacement for each caller). A file of two segments and one of one are what the order
of two workers, the move to the next file and the tail need; the second attempt is the
resume. Two lives of the encoder are the crash and its successor; three
segments give a first one, one in the middle that may be truncated, and a last one, whose
readiness is decided in another way; two ffmpegs, the one that is replaced and its
successor. `MaxClosed` is the size of the closed set; in `stream_slot` it is 1 and the set
forgets nothing, since the one session is all there is to close. No run has a state
constraint. Tasks and callers of the manager, connections of the pool and HLS sessions
are symmetric in the runs that check no liveness. The
`VIEW` of `hls_sessions` forgets the place of the download once a wait has run out:
then `OneReader` holds vacuously, and the one other action that reads it, `HoldForStream`,
may also stop waiting at any moment, to the same effect.
`PROJECT.json` names, for each property, a plausible bug (an operator that stands
before the definition it replaces) under which TLC finds the property violated.

**Fairness.** Weak fairness for a goroutine in the middle of a function: nothing
blocks it. Strong fairness where the code relies on a queue or on persistence: a
blocked send on a Go channel is served in order (`PathLock.Acquire`); a download ends
however often it stalls (`Release`, `Fail`), which `task_run` shows for the retry
loop itself; a message sent again on every tick gets through once the network is up
(`AgentSync`). In `UsenetDownload` it is enough that one of
the goroutines of a running `Download` goes on while one can; in
`StreamSlot` the steps of start paths, goroutines and teardowns are, and `ClosedEnds`
assumes that external players leave for good. New calls, losses, cancels, crashes,
readers and faults are never fair.

## Proofs

For any number of tasks, IDs, callers, paths, slots, connections, files, segments,
workers, sessions, streams, ffmpegs and daemon lives, and any set of calls, losses and
faults.
The assumptions are the named ones of the modules: finite `Procs` and `Tasks`,
`MaxConcurrent` positive, the functions `Abs`, `IdOf` and `Calls` of their types, `nil` no
member of a set; for the pool finite `Callers` and `Conns` and a positive
`MaxConnections`, for a run any `Registered` methods and any number of `Sources`; for
usenet finitely many numbered `Files` with `SegCount` segments each, at least one worker
(`usenet/download/downloader.go:294` starts one when the pool has no connection yet), and
the workers and `Main` as flushers. For streams: `TaskOf` maps every owner of a file to its
task, sessions are neither stream goroutines nor disk streams, the values that stand for
nobody are none of them, and the memory of closed ids has at least one place
(`cmd/closed_stream_sessions.go:16` has 512); for the encoder at least one segment, and
ffmpegs that are numbered and not handlers. `AgentSync` needs none. The theorems on the
close by the web have hypotheses of their own, named below.

- **PathLock**: `PathLockInvariant`, `PathLockSingleWriter`, `PathLockNoLeak`.
  Exclusion is not inductive: it needs that all users of a path share the entry of
  the map (`Shared`), which needs that the count is the number of users
  (`Counted`), so that the entry is deleted with the last one and not before; and
  that the token is in the channel exactly while one user is inside (`Token`).
- **SlotQueue**: `SlotQueueInvariant`, `SlotQueueCounted`, `SlotQueueNoIdleSlot`,
  `SlotQueueStartsWithinLimit`, `SlotQueueNotOvertaken`. `SlotInv` adds `LineExact` (each waiting task is in
  the line once), without which a dispatch would count a task twice. The lemma
  `DispatchEffect` says what the loop does; each action is then a change of one task
  plus, possibly, that effect. The order is an action property: `DispatchInOrder` says
  that a task which stays in the line is behind all that were taken, and `StepInOrder`
  that no enqueue, cancel or dispatch changes which of two waiting tasks is first.
- **Manager**: `ManagerOneRunPerTask`, `ManagerTakenOnlyWhileLive`, `ManagerRunInv`.
  The deletions from `active` are by ID (`Forget`, `StopForget`, `DispatchForget`), so
  dedup is safe only if the deleting goroutine still owns the ID. `RunInv` says who
  owns it: the live run, or the one cancel that took the run out of the line and has
  yet to forget it (`Owned`); and that a task at hand in a Submit or in the line has
  no goroutine yet (`ReadyToRun`). It is inductive together with `SlotInv`.
  `ManagerSteps` has the lemmas, actor by actor.
  That a step of the manager is a step of `SlotQueue` or leaves its variables alone is
  the lemma `StepSlots`; it holds by the way `Manager` is put together, and carries
  `SlotInv` over.
- **The reporter**: `ManagerTrackedIsActive`, for all calls and faults. `TrackInv` adds
  that a run about to take its ID out of `active` has been let go by the reporter; with
  `RunInv`, nobody else deletes the ID under a tracked run.
- **The resume store**: `ManagerCancelIsTerminal`, `ManagerPauseSticks`,
  `ManagerResumeSurvives`, for any tasks, any overlapping calls, shutdowns, process
  deaths, storage faults, lost tunnels and failing `Daemon.Run`s, with no hypothesis.
  The three need one another (`StoreInv`): the final record of a run keeps an entry
  exactly when the ID is paused or a shutdown is under way, which must then be the reason
  why the context of an unfinished download ended (`EntryKept`). A cancel or a pause that
  has marked the ID and has a live run of it at hand has made it cancelled or paused, and
  no later call undoes that before the run has ended (`StopSettled`); that needs dedup,
  hence `RunInv`. A `Submit` that has yet to write its entry has not been stopped
  (`SubmitClean`), or it is known to be overtaken (`Overtakes`).
- **TaskRun**: `TaskRunVerdict`, `TaskRunBounded`, `TaskRunTorrentStops`,
  `TaskRunTunnelLoss`, from one invariant, `RunInv` (theorem `TaskRunInvariant`). That a
  damaged verdict is earned needs a price for each attempt: every one but the first is
  paid by a corrupt result or a storage fault, and an error at hand is one more (`Paid`).
  That downloads are bounded needs one more than the bound at the places before a
  download (`Spent`), and that the method at hand is not yet among the tried (`AtHand`),
  so that leaving it pays for the next. That torrent stops needs to know where the lost
  tunnel is while it is not yet in `tried` (`Tunnel`); that its loss is resumable, that
  the error is still at hand, or masks the one at hand, until the attempt is judged.
- **NntpPool**: `PoolOpenExact`, `PoolRepliesInSync`, `PoolWithinLimit`, `PoolOneHolder`.
  The count alone is not inductive: that a retire takes one from the count and one from
  the connections needs that a connection has one place (`OneHolder`, `Places`). That no
  late reply is read needs `Marks`: only a broken connection owes a reply, and a broken
  one is on its way out. That a release finds room needs the count, the bound and
  `OneHolder` together (`PutHasRoom`).
- **UsenetDownload**: `RecordHonest`, `NothingForgotten`, `Delivered`. The record on disk is honest because the
  snapshot under way is, which is because the memory is (`OnDisk`), which is because a
  worker marks only what it wrote. Creating a file anew must not empty one the record
  vouches for: until par2 has spoken no record is ahead of the memory (`Behind`). The
  closing truncate must not cut recorded bytes: `BelowEnd` and `Sized`. A clean memory
  is on disk or in the snapshot being written (`SavedClean`), so a write that fails must
  set dirty again. A delivery is complete because each segment of a file that is past is
  marked or a known hole (`Reached`), which is because, until a worker fails, each
  segment of the open file is marked, a hole, in the channel or in a worker's hand
  (`Covered`).
- **SavedRevision**: `TrackerInOrder`, the tracker implements it; `DownloadInOrder`, so
  does the whole download. A snapshot is never older than the record because flushes
  exclude one another from snapshot to write.

- **AgentSync**: `AgentPauseIsWanted`, an action property, from `ControlInv` (theorem
  `AgentControlInvariant`). A pause is applied only outside the grace, so the invariant
  says what the grace covers (`Covered`): a resume that waits for the server's answer is
  in it; one that was confirmed is in it for as long as a pause is on its way on any of
  the three channels, and no new one sets out, because the server's row is not paused and
  no report of a local pause is left to make it so. The last is why the property speaks of
  a confirmed resume: before the answer, a report of an older pause may still arrive. A
  window that closes too early makes the resume `"overdue"`.
- **StreamSlot**: `StreamClosedIsTornDown`, `StreamNoLostResource`,
  `StreamTeardownSparesNewer`. `SessionInv` relates, for each session, the place of its start
  path, the cancel registered for it and the progress of its teardown: once its file is in
  the slot and the cancel that ends it was added, that cancel is still registered or the
  teardown has begun, and a session that is past its last look and was closed is being torn down. That settles
  mark-then-take against add-then-look. The third needs `GensOwn`, so that what a stop of a
  disk stream clears is the file of that task.
- **HlsEncoder**: `EncoderSealIsOurs`, `EncoderInheritedIsWhole`, `EncoderSingleEncoder`, from
  `EncoderInv`. What lies in the directory was written in this life or is in the inherited
  block (`LifeInv`). As long as nobody has sought, one supervisor at most is at work, it
  waits for the ffmpeg of the moment, and on its way to the next there is none
  (`OneEncoder`); this is why a spawn has to look at `closed` again. As long as nothing was
  relaunched, a truncated segment is the last in the directory (`LastTorn`), so the unbroken
  prefix which `planPartialReuse` keeps, less its last segment, is whole (`PrefixBound`).
- **HlsSessions**: `SessionsNothingHeld`, `SessionsOneReader`, from `SessionsInv`: where a start
  goroutine is decides whether its session is registered, closed or about to be
  (`LifeInv`), what it has of the cache entry (`ShelfInv`) and of the account (`SourceInv`).
  A session that reads has the semaphore and pins the hold, and the download looks at the
  hold again once it has the connection; both are needed, since a session may be between
  its pin and its turn while the download transfers.
- **The close by the web**: `SessionsWebCloseLands`, under the hypothesis that no id leaves the
  memory of closed sessions (`Remembers`), and `SessionsFewWebCloseLands`, which replaces it by
  a count: no more sessions than the memory has places. Without either the close can be
  lost: an id that is closed between the last look before `Register` and the one after
  it, and forgotten in between, leaves no trace for the second look, and a second close
  finds no cancel. (That takes 512 other closes during one registration.) `WebInv` says that a start under way is registered for a cancel
  or remembered as closed.

TLC has checked the inductive invariants on the instances of the runs as well. Only model-checked: all liveness (`WaiterServed`, `LineMoves`, `RunsEnd`, `RunEnds`,
`PauseLands`, `CancelLands`, `DownloadEnds`, `ClosedEnds`), which needs fairness and ENABLED.
Every invariant and every action property of a run has a theorem.

## Observations

Places where the code does something other than its comments say, or where a window is
open. They were met while modelling; no property of a run says otherwise, and where one
excepts a case for this reason its comment does too.

Downloads:

- `Submit` publishes the task (`engine/manager.go:250`) before it writes the resume entry
  (268). A cancel in between removes nothing, and the entry written afterwards revives
  the download; 402-405 says "A cancel is terminal". A pause in between flags no entry,
  and its mark may be cleared (257), so the run is recorded as over. `raced` excepts both.
- Cancels settle by ID. One that looked its task up before the run ended, and settles
  after the next `Submit` of the ID, removes the entry of the new run; and `DropResume`
  clears a pause mark set after its `Remove`.
- `forgetActive` untracks by ID after it has let `activeMu` go
  (`engine/manager_queue.go:231`): when the ID was submitted again in between, the new run
  is not reported.
- `Daemon.Run` returns an error and the shared context is cancelled without `Shutdown`
  (`cmd/daemon.go:1556`): running downloads lose their entries, which 1525-1528 warns
  of. `Interrupted` excepts those that notice before the process is gone.
- A repair candidate that cannot be resolved leaves the task in `resolving`; the next
  attempt's transition is rejected (`engine/manager.go:676`) and the run fails after one
  download, against 569-573.
- The reporter forgets a task before the controller ignores the pause
  (`engine/progress.go:307`): the download runs unreported and is not reaped when its row
  is removed, against 56-64.
- `recentFinished` is emptied into a request that may fail (`engine/manager.go:350`); 338
  speaks of "tasks that haven't been synced yet".
- A storage retry uses up an attempt meant for corrupt releases (588, against 580); a
  pause during verification leaves a paused entry for a completed task (375); a download
  that completes during Shutdown keeps its entry (376); `Retry` of a running download is
  swallowed by the entry it unwinds; `Purge` tests and drops in two calls; deletion
  confirmations are cleared when the request is built (`agent/sync.go:345`).

Usenet:

- With `MaxConnections` 1 a caller can sleep beside a free slot: a redial fails, the
  connection is retired, and the token that would wake the caller is gone
  (`usenet/nntp/pool.go`, against 20-23).
- A crash or pause between the last flush and the closing truncate leaves a file with its
  slack, and the next run skips it as done (`usenet/download/downloader.go:510`, against
  234-238).
- A data file is deleted while some of its segments are recorded: `os.Create` makes it
  anew and keeps the bits, so the resume leaves holes of zeros. `lapse` marks it. For a
  file recorded as complete `ForgetGone` forgets the bits, but does not flush before the
  file is created.
- A failing `MkdirAll` does not set dirty again (`usenet/download/progress.go:419`). `lapse`
  marks it.
- `Cancel` removes the record and a worker that still runs marks and flushes it again; or,
  when the task was submitted again meanwhile, it removes the record of the new run.
- A progress file that `Load` discards stays on disk, beside files created anew, until the
  first flush; a crash before that leaves a record of bytes that are gone. `lapse` marks it.
- Extraction and cleanup run before a corrupt verdict is acted on
  (`usenet/postprocess/pipeline.go:83`, `engine/usenet.go:357`).

Streams:

- A stream goroutine that is past its probe when a newer stream displaces it still
  installs its file (`cmd/daemon.go:800-805` says the prior one is stopped).
- The idle guard looks and clears in two steps and compares no generation
  (`cmd/stream_handler.go:45`), so it can clear the file of a viewer who came in between.
  `TeardownSparesNewer` excepts it.
- A growing (remux) file counts no active readers; the deferred delete of a stream
  goroutine is by task id and can remove the entry of its successor.
- `allSegmentsPresent` lets the last segment be missing from `readyMax`
  (`engine/hls.go:1427`, against 1397-1401), so the last segment of a sealed entry may be
  truncated. `InheritedIsWhole` excepts it.
- The kill of a seek-restart looks like a death to the supervisor of the killed ffmpeg,
  which restarts the encoder as well; the orphan outlives Close. `SingleEncoder` is
  stated for sessions without a seek. A poller of the old run may publish a mark it
  computed before the restart.
- A starter that was overtaken after its test of `isNewest` still preempts the holder. A
  prewarm inside `StartHLSSession` is not reaped. `HasComplete` and `TryAcquireWriter` are
  two calls, so a late miss re-encodes a sealed entry; so are `HasComplete` and `Pin`, and
  the sweep's `isPinned` and `RemoveAll`. A failed start releases the writer lock before
  it invalidates the entry (`engine/hls.go:841`).

## Not modelled, and why

Inside the modelled parts: byte counts, speeds, file names, messages to the user; what
a downloader does between two results; a failing write of the resume store. `dispatch`
reads `shuttingDown` once per task; a shutdown in the middle of its loop is taken as one
behind it, which starts the same tasks. In `AgentSync` a final state of an earlier run
that arrives while the task runs again does not change the server's row, the milder of
the server's choices. Of the stream server: serving bytes, subtitles, its own shutdown.
Of HLS: COPY-VOD sessions (their segments are made on request and no ffmpeg runs on),
playlists and ffmpeg arguments, the sweep of the cache directory, the latch after the
last restart. Of the IPTV hold: the server's lease, the release grace, the turn of
several downloads. Of usenet: the search for an NZB, its parsing, the fallback of a
stream to a download.

Most of the repository is not a protocol. Of the roughly 100 000 lines, the vendored
BitTorrent client, commands and prompts, the tray, the library scan and ffprobe,
configuration, parsers, codecs and archive readers, clients of other services, metrics
and tests of formats are sequential, or I/O whose state lies elsewhere. A model would
restate them line by line and have nothing to check.

Parts with states worth a model that have none yet, in the order of the plan:

1. `Unpack` (`extractPackedRelease`, `finalizeVerified`, organize's move), composed with
   `PathLock`: two tasks on one release, crashes, seeding. A finished name means a
   finished unpack; no holder directory outlives the next attempt.
2. `ArticleCache` (`usenet/stream`): flights, waiters, buffer counts, budget; the refresh
   of a debrid link (`engine/stream_source_debrid.go`), which runs under the context of
   its first reader, is a second instance of the same single flight.
3. `DaemonState` (`agent/state.go`, `stopintent.go`, `daemon.go`): two agents on one data
   directory, the seal, the tray's crash rule, the exit for an upgrade.
4. `Tunnel` (`vpn/vpn.go`: Reconnect against Close), `MirrorPool`, the source proxy's block
   store, the queues of the sync, the resume store with failing writes.
5. The sweep of the HLS cache directory, as a fourth actor of `HlsSessions`.
