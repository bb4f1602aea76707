----------------------------- MODULE HlsEncoder -----------------------------
(***************************************************************************)
(* The encoder of one HLS session over its cache directory:                *)
(* internal/engine/hls.go (the spawn of StartHLSSession, waitFFmpeg,       *)
(* pollSegments, ServeSegment, restartFromSegment, Close) with             *)
(* hls_partial_reuse.go, hls_hwfallback.go and hls_single_connection.go.   *)
(*                                                                         *)
(* Every ffmpeg that is spawned has a supervisor (waitFFmpeg) and a poller *)
(* (pollSegments).  Supervisors and HTTP handlers all restart the encoder, *)
(* and none of them knows of the others.  ffmpeg is external: it writes    *)
(* its segments in order, a segment it is killed in is left truncated, and *)
(* overwriting one truncates it first.                                     *)
(***************************************************************************)
EXTENDS Naturals, FiniteSets

CONSTANTS SegmentCount,   \* segments of the title
          SeekAhead,      \* hlsSeekAhead
          MaxRestarts,    \* maxRestarts of waitFFmpeg
          MaxSpawns,      \* bound: ffmpeg processes over the whole behaviour
          MaxLives,       \* bound: daemon runs that use the directory
          Readers         \* HTTP handlers in ServeSegment

ASSUME EncoderAssumption ==
    /\ SegmentCount \in Nat \ {0} /\ SeekAhead \in Nat \ {0}
    /\ MaxRestarts \in Nat /\ MaxSpawns \in Nat /\ MaxLives \in Nat
    /\ Readers \cap Nat = {}

Segs == 0..(SegmentCount - 1)
Procs == 1..MaxSpawns
Agents == Procs \cup Readers      \* a supervisor has the name of its ffmpeg

VARIABLES
    have, torn, mine,       \* seg-*.m4s on disk, the truncated ones, those written
                            \* in this life
    init, sealed,           \* init.mp4 and .complete are there
    life, up,               \* which daemon run this is; its session is open or closing
    born, running, writing, \* ffmpegs spawned, alive, and in the middle of a segment
    clean, killed, pos,     \* ended with status 0; cancelled with its poller at work;
                            \* the next segment
    closed, closing,        \* s.closed; where Close stands
    kind,                   \* "encode", "copy" (cfg.VideoCopy), "fell": copyFellBack
    hwFailed, hwFell,       \* encoderInitFailed; hwFellBack
    cmd, segStart, lowest,  \* s.cmd, ffmpegSegStart, lowestEncodedIdx
    inherited, readyMax,
    exited, exitErr, restarts,
    job,                    \* where each supervisor or handler stands
    polling, seen,          \* pollers at work; the mark each will publish, 0 for none
    relaunched              \* history: who restarted the encoder, handlers or supervisors

files == <<have, torn, mine, init, sealed>>
daemon == <<life, up>>
procs == <<born, running, writing, clean, killed, pos>>
mode == <<kind, hwFailed, hwFell>>
writer == <<cmd, segStart, lowest, inherited>>
ready == <<readyMax, exited, exitErr>>
close == <<closed, closing>>
pollers == <<polling, seen>>
vars == <<files, daemon, procs, mode, writer, ready, restarts, close, job, pollers, relaunched>>

Idle == [at |-> "idle", to |-> 0, prev |-> 0]
Waiting(p) == [at |-> "wait", to |-> 0, prev |-> p]
NoJobs == [a \in Agents |-> Idle]

Init ==
    /\ have = {} /\ torn = {} /\ mine = {} /\ init = FALSE /\ sealed = FALSE
    /\ life = 0 /\ up = FALSE
    /\ born = 0 /\ running = {} /\ writing = {} /\ clean = {} /\ killed = {}
    /\ pos = [p \in Procs |-> 0]
    /\ closed = FALSE /\ closing = "no"
    /\ kind = "encode" /\ hwFailed = FALSE /\ hwFell = FALSE
    /\ cmd = 0 /\ segStart = 0 /\ lowest = 0 /\ inherited = 0
    /\ readyMax = 0 /\ exited = FALSE /\ exitErr = FALSE
    /\ restarts = 0
    /\ job = NoJobs /\ polling = {} /\ seen = [p \in Procs |-> 0] /\ relaunched = {}

-----------------------------------------------------------------------------
(* StartHLSSession once it holds the writer lock of the key *)

\* scanInheritedSegments: the whole prefix but its last segment.
Prefix == Cardinality({k \in Segs : \A j \in 0..k : j \in have})
InheritableWhole == IF init THEN Prefix ELSE 0     \* the last one included

Inheritable == IF init /\ Prefix > 1 THEN Prefix - 1 ELSE 0

\* planPartialReuse: a block that falls short of the wanted start is dropped.
Reused(want) == IF Inheritable < want THEN 0 ELSE Inheritable

KeptAll(segs, kept) == segs                        \* nothing is dropped

\* dropInheritedSegments: what lies beyond the block goes, init.mp4 with the last of it.
Kept(segs, kept) == {k \in segs : k < kept}

\* The first ffmpeg starts at the first hole, or at the resume position in
\* an empty directory.  A copy session has a directory of its own, which starts
\* empty and is no cache entry, whatever the session falls back to.
StartSession ==
    /\ ~up /\ ~sealed /\ life < MaxLives /\ born < MaxSpawns
    /\ \E want \in Segs, k \in {"encode", "copy"} :
         LET kept == Reused(want)
             first == IF k = "copy" THEN 0 ELSE IF kept = 0 THEN want ELSE kept
         IN /\ k = "copy" => have = {}
            /\ kind' = k
            /\ inherited' = kept
            /\ have' = Kept(have, kept) /\ torn' = Kept(torn, kept)
            /\ init' = (init /\ kept > 0)
            /\ segStart' = first /\ lowest' = first /\ readyMax' = first
            /\ pos' = [pos EXCEPT ![born + 1] = first]
    /\ mine' = {}
    /\ life' = life + 1 /\ up' = TRUE
    /\ born' = born + 1 /\ running' = {born + 1} /\ cmd' = born + 1
    /\ exited' = FALSE /\ exitErr' = FALSE
    /\ job' = [job EXCEPT ![born + 1] = Waiting(born + 1)]
    /\ polling' = {born + 1}
    /\ UNCHANGED <<sealed, writing, clean, killed, close, hwFailed, hwFell, restarts,
                   seen, relaunched>>

-----------------------------------------------------------------------------
(* ffmpeg *)

\* Once the directory is discarded ffmpeg has nowhere to write.
WriteBegin(p) ==
    /\ p \in running \ writing /\ pos[p] \in Segs /\ closing # "done"
    /\ have' = have \cup {pos[p]} /\ torn' = torn \cup {pos[p]}
    /\ mine' = mine \cup {pos[p]} /\ init' = TRUE
    /\ writing' = writing \cup {p}
    /\ UNCHANGED <<sealed, daemon, born, running, clean, killed, pos, mode, writer,
                   ready, restarts, close, job, pollers, relaunched>>

WriteEnd(p) ==
    /\ p \in writing
    /\ torn' = torn \ {pos[p]}
    /\ pos' = [pos EXCEPT ![p] = @ + 1]
    /\ writing' = writing \ {p}
    /\ UNCHANGED <<have, mine, init, sealed, daemon, born, running, clean, killed, mode,
                   writer, ready, restarts, close, job, pollers, relaunched>>

Finishes(p) ==
    /\ p \in running \ writing /\ pos[p] \notin Segs
    /\ running' = running \ {p} /\ clean' = clean \cup {p}
    /\ pos' = [pos EXCEPT ![p] = 0]
    /\ UNCHANGED <<files, daemon, born, writing, killed, mode, writer, ready, restarts,
                   close, job, pollers, relaunched>>

\* Crashed, stopped by watchCopyFirstSegment, or unable to open its
\* hardware encoder, which it says on stderr.
Dies(p) ==
    /\ p \in running
    /\ running' = running \ {p} /\ writing' = writing \ {p}
    /\ pos' = [pos EXCEPT ![p] = 0]
    /\ \/ UNCHANGED hwFailed
       \/ ~init /\ kind # "copy" /\ ~hwFell /\ hwFailed' = TRUE
    /\ UNCHANGED <<files, daemon, born, clean, killed, kind, hwFell, writer, ready,
                   restarts, close, job, pollers, relaunched>>

-----------------------------------------------------------------------------
(* restartFromSegment, for a supervisor or a handler *)

At(a, label) == up /\ job[a].at = label

\* The restart is over: a supervisor is done; a handler goes on to wait for its
\* segment, which changes nothing in the session.
Leave(a) == job' = [job EXCEPT ![a] = Idle]

\* SIGKILL stops ffmpeg at once; its context ends its poller.
Kill(p) ==
    /\ running' = running \ {p} /\ writing' = writing \ {p}
    /\ killed' = (killed \cup {p}) \cap polling
    /\ pos' = [pos EXCEPT ![p] = 0]

\* Refused to a closed session, unneeded when the writer runs from there;
\* otherwise the ffmpeg of the moment is cancelled and killed.
Restart(a) ==
    /\ At(a, "restart")
    /\ IF closed \/ (job[a].to = segStart /\ ~exited)
       THEN Leave(a) /\ UNCHANGED <<running, writing, killed, pos>>
       ELSE /\ Kill(cmd)
            /\ job' = [job EXCEPT ![a].at = "await", ![a].prev = cmd]
    /\ UNCHANGED <<files, daemon, born, clean, mode, writer, ready,
                   restarts, close, pollers, relaunched>>

\* Polls exited for five seconds and then goes on anyway.  A killed process
\* is reaped in that time; a newer run may have cleared exited again.
Awaited(p) == \E q \in Procs : job[q] = Waiting(p)

AwaitExit(a) ==
    /\ At(a, "await")
    /\ exited \/ ~Awaited(job[a].prev)
    /\ job' = [job EXCEPT ![a].at = "spawn", ![a].prev = 0]
    /\ UNCHANGED <<files, daemon, procs, mode, writer, ready, restarts, close, pollers, relaunched>>

\* The same without the second look at closed.
SpawnUnchecked(a) ==
    /\ At(a, "spawn")
    /\ \/ /\ born < MaxSpawns
          /\ born' = born + 1 /\ running' = running \cup {born + 1}
          /\ pos' = [pos EXCEPT ![born + 1] = job[a].to]
          /\ cmd' = born + 1 /\ segStart' = job[a].to
          /\ lowest' = IF job[a].to < lowest THEN job[a].to ELSE lowest
          /\ job' = [job EXCEPT ![a].at = "reset", ![a].prev = born + 1]
          /\ relaunched' = relaunched \cup {IF a \in Readers THEN "seek" ELSE "auto"}
       \/ /\ Leave(a)       \* closed, or the start of ffmpeg failed
          /\ UNCHANGED <<born, running, pos, cmd, segStart, lowest, relaunched>>
    /\ UNCHANGED <<files, daemon, writing, clean, killed, mode, inherited, readyMax, exited,
                   exitErr, restarts, close, pollers>>

\* The critical section shared with Close.
Spawn(a) ==
    /\ At(a, "spawn")
    /\ \/ /\ ~closed /\ born < MaxSpawns
          /\ born' = born + 1 /\ running' = running \cup {born + 1}
          /\ pos' = [pos EXCEPT ![born + 1] = job[a].to]
          /\ cmd' = born + 1 /\ segStart' = job[a].to
          /\ lowest' = IF job[a].to < lowest THEN job[a].to ELSE lowest
          /\ job' = [job EXCEPT ![a].at = "reset", ![a].prev = born + 1]
          /\ relaunched' = relaunched \cup {IF a \in Readers THEN "seek" ELSE "auto"}
       \/ /\ Leave(a)       \* closed, or the start of ffmpeg failed
          /\ UNCHANGED <<born, running, pos, cmd, segStart, lowest, relaunched>>
    /\ UNCHANGED <<files, daemon, writing, clean, killed, mode, inherited, readyMax, exited,
                   exitErr, restarts, close, pollers>>

\* readyMax and the exit state are reset in a second critical section; then
\* the supervisor and the poller of the new ffmpeg start, the supervisor with
\* the s.cmd of that moment.
Reset(a) ==
    /\ At(a, "reset")
    /\ readyMax' = job[a].to /\ exited' = FALSE /\ exitErr' = FALSE
    /\ LET p == job[a].prev
       IN /\ job' = [job EXCEPT ![a] = Idle, ![p] = Waiting(cmd)]
          /\ polling' = polling \cup {p}
    /\ UNCHANGED <<files, daemon, procs, mode, writer, restarts, close, seen, relaunched>>

RestartSteps(a) == Restart(a) \/ AwaitExit(a) \/ Spawn(a) \/ Reset(a)

-----------------------------------------------------------------------------
(* waitFFmpeg *)

\* A clean exit and an exit of a closed session end the supervisor.
WaitReturns(p) ==
    /\ At(p, "wait") /\ job[p].prev \notin running
    /\ exited' = TRUE
    /\ exitErr' = (job[p].prev \notin clean)
    /\ clean' = clean \ {job[p].prev}      \* a second Wait is an error
    /\ job' = [job EXCEPT ![p] = IF job[p].prev \in clean \/ closed THEN Idle
                                 ELSE [at |-> "judge", to |-> readyMax, prev |-> 0]]
    /\ UNCHANGED <<files, daemon, born, running, writing, killed, pos, mode, writer, readyMax, restarts, close, pollers, relaunched>>

Relaunch(p, target) == job' = [job EXCEPT ![p] = [at |-> "restart", to |-> target, prev |-> 0]]

\* fallbackToTranscode, once; a later trigger is a no-op.
FallbackToTranscode(p) ==
    /\ At(p, "judge") /\ kind = "copy"
    /\ IF closed THEN Leave(p) /\ UNCHANGED <<kind, restarts>>
       ELSE kind' = "fell" /\ restarts' = 0 /\ Relaunch(p, 0)
    /\ UNCHANGED <<files, daemon, procs, hwFailed, hwFell, writer, ready, close, pollers, relaunched>>

MayFallBack == ~closed /\ ~hwFell /\ hwFailed /\ ~init

FallbackToSoftwareEncode(p) ==
    /\ At(p, "judge") /\ kind # "copy" /\ MayFallBack
    /\ hwFell' = TRUE /\ restarts' = 0
    /\ Relaunch(p, job[p].to)
    /\ UNCHANGED <<files, daemon, procs, kind, hwFailed, writer, ready, close, pollers, relaunched>>

\* The budget of restarts; a restart long ago does not count.
AutoRestart(p) ==
    /\ At(p, "judge") /\ kind # "copy" /\ ~MayFallBack
    /\ \E spent \in {0, restarts} :
         IF closed THEN Leave(p) /\ UNCHANGED restarts
         ELSE IF spent >= MaxRestarts
         THEN restarts' = spent /\ Leave(p)
         ELSE restarts' = spent + 1 /\ Relaunch(p, job[p].to)
    /\ UNCHANGED <<files, daemon, procs, mode, writer, ready, close, pollers, relaunched>>

Supervise(p) ==
    \/ WaitReturns(p) \/ FallbackToTranscode(p)
    \/ FallbackToSoftwareEncode(p) \/ AutoRestart(p) \/ RestartSteps(p)

-----------------------------------------------------------------------------
(* pollSegments *)

\* A segment is closed when its successor is there, or ffmpeg has exited.
SegmentClosed(k) ==
    k \in have /\ (IF k = SegmentCount - 1 THEN exited ELSE exited \/ k + 1 \in have)

\* One walk over the directory from readyMax on.
Watermark ==
    CHOOSE m \in readyMax..SegmentCount :
       /\ \A k \in readyMax..(m - 1) : SegmentClosed(k)
       /\ m = SegmentCount \/ ~SegmentClosed(m)

\* The walk, and the publication of what it found, under the lock again; a
\* poller that saw the last segment closed is done.
PollLook(p) ==
    /\ up /\ p \in polling /\ seen[p] = 0
    /\ IF p \in killed \/ (Watermark = readyMax /\ exited)
       THEN polling' = polling \ {p} /\ killed' = killed \ {p} /\ UNCHANGED seen
       ELSE /\ Watermark # readyMax
            /\ seen' = [seen EXCEPT ![p] = Watermark]
            /\ UNCHANGED <<polling, killed>>
    /\ UNCHANGED <<files, daemon, born, running, writing, clean, pos, mode, writer, ready, restarts, close, job, relaunched>>

PollPublish(p) ==
    /\ up /\ seen[p] # 0
    /\ readyMax' = seen[p]
    /\ seen' = [seen EXCEPT ![p] = 0]
    /\ IF seen[p] = SegmentCount
       THEN polling' = polling \ {p} /\ killed' = killed \ {p}
       ELSE UNCHANGED <<polling, killed>>
    /\ UNCHANGED <<files, daemon, born, running, writing, clean, pos, mode, writer,
                   exited, exitErr, restarts, close, job, relaunched>>

-----------------------------------------------------------------------------
(* ServeSegment *)

\* What is on disk is served; what the writer will not reach soon restarts it.
ServeSegment(r) ==
    /\ At(r, "idle") /\ closing # "done" /\ kind # "copy"
    /\ \E k \in Segs \ have :
         /\ k >= readyMax + SeekAhead \/ k < segStart
         /\ job' = [job EXCEPT ![r] = [at |-> "restart", to |-> k, prev |-> 0]]
    /\ UNCHANGED <<files, daemon, procs, mode, writer, ready, restarts, close, pollers, relaunched>>

-----------------------------------------------------------------------------
(* Close *)

\* Nothing in memory outlives the session.
Over ==
    /\ up' = FALSE /\ mine' = {}
    /\ running' = {} /\ writing' = {} /\ clean' = {} /\ killed' = {}
    /\ pos' = [p \in Procs |-> 0]
    /\ hwFailed' = FALSE /\ hwFell' = FALSE
    /\ cmd' = 0 /\ segStart' = 0 /\ lowest' = 0 /\ inherited' = 0
    /\ readyMax' = 0 /\ exited' = FALSE /\ exitErr' = FALSE
    /\ restarts' = 0
    /\ job' = NoJobs /\ polling' = {} /\ seen' = [p \in Procs |-> 0]

CloseBegin ==
    /\ up /\ ~closed
    /\ closed' = TRUE /\ closing' = "reap"
    /\ Kill(cmd)
    /\ UNCHANGED <<files, daemon, born, clean, mode, writer, ready,
                   restarts, job, pollers, relaunched>>

\* A single-connection session waits for its processes, five seconds at most;
\* the others go on at once.
CloseExited ==
    /\ closing = "reap"
    /\ exited' = TRUE
    /\ closing' = IF exitErr THEN "discard" ELSE "seal"
    /\ UNCHANGED <<files, daemon, procs, mode, writer, readyMax, exitErr, restarts,
                   closed, job, pollers, relaunched>>

allSegmentsPresent ==
    /\ init /\ lowest <= inherited
    /\ readyMax >= SegmentCount - 1
    /\ have = Segs

\* Sealed, or discarded, also when the seal cannot be written; the directory of
\* a session that began as a copy is removed.
CloseCache ==
    /\ closing \in {"seal", "discard"}
    /\ \/ /\ closing = "seal" /\ kind = "encode" /\ allSegmentsPresent
          /\ sealed' = TRUE /\ UNCHANGED <<have, torn, mine, init>>
       \/ have' = {} /\ torn' = {} /\ mine' = {} /\ init' = FALSE /\ UNCHANGED sealed
    /\ closing' = "done"
    /\ UNCHANGED <<daemon, procs, mode, writer, ready, restarts, closed, job, pollers, relaunched>>

\* The daemon is killed, its ffmpegs with it; the cache entry stays.
Crash ==
    /\ up /\ ~closed /\ kind = "encode"
    /\ Over
    /\ UNCHANGED <<have, torn, init, sealed, life, born, closed, closing, kind, relaunched>>

Next ==
    \/ StartSession \/ CloseBegin \/ CloseExited \/ CloseCache \/ Crash
    \/ \E p \in Procs : \/ WriteBegin(p) \/ WriteEnd(p) \/ Finishes(p) \/ Dies(p)
                        \/ Supervise(p) \/ PollLook(p) \/ PollPublish(p)
    \/ \E r \in Readers : ServeSegment(r) \/ RestartSteps(r)

Spec == Init /\ [][Next]_vars

-----------------------------------------------------------------------------
\* A sealed entry is one unbroken timeline: every segment is there, and each
\* was written by this session or lies in the block it inherited.
SealIsOurs == sealed => have = Segs /\ \A k \in Segs \ mine : k < inherited

\* A daemon killed at any moment never gets a truncated segment inherited: what
\* its successor seals is whole below the segment ffmpeg is at, unless the
\* encoder was restarted within a session.
InheritedIsWhole ==
    sealed /\ relaunched = {} => torn \subseteq {SegmentCount - 1}

\* Unless a viewer seeks, the session has one encoder at a time, whatever it
\* falls back to and however often it is relaunched, and Close cancels it.
SingleEncoder ==
    "seek" \notin relaunched => running \subseteq {cmd} /\ (closed => running = {})

=============================================================================
