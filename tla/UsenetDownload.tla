--------------------------- MODULE UsenetDownload ---------------------------
(***************************************************************************)
(* A usenet download across attempts, pauses, cancels and crashes:         *)
(* UsenetDownloader.Download, Pause, Cancel and Shutdown                   *)
(* (internal/engine/usenet.go), Downloader.DownloadNZB and DownloadFile    *)
(* with its segment workers (internal/usenet/download/downloader.go), the  *)
(* par2 step (internal/usenet/postprocess/pipeline.go), and the resume     *)
(* record of ProgressTracker beside them.                                  *)
(*                                                                         *)
(* The disk is three variables: which data files exist, the segments whose *)
(* bytes are in them, and their sizes.  A data file is pre-allocated one   *)
(* unit longer than its last segment, the slack of the encoded size.       *)
(***************************************************************************)
EXTENDS ProgressTracker

CONSTANTS Workers,       \* segment workers, one per NNTP connection
          Main,          \* the goroutine of Download
          MaxAttempts    \* bound: Download calls for the task

ASSUME DownloadAssumption ==
    /\ IsFiniteSet(Files) /\ Files = 1..Cardinality(Files)
    /\ Workers # {}          \* one at least, also without a connection yet
    /\ Flushers = Workers \cup {Main}

VARIABLES
    HasPar2,                   \* the NZB ships parity
    exists, written, size,     \* the data files in the task's folder
    pc, attempt,               \* where Download stands, and which call it is
    file,                      \* the file DownloadNZB is at
    todo, maxEnd, missing,     \* DownloadFile: work channel, high mark, holes
    damaged,                   \* files a corrupt verdict discards; {} without one
    wk,                        \* each worker: where it stands, its segment
    failed,                    \* errCh holds an error
    ctx,                       \* dlCtx is done
    registered,                \* dl.taskDir and dl.tracker are set
    outcome,                   \* what the last call returned, if it did
    handed,                    \* history: what was delivered had every byte, or a
                               \* data file had been lost before
    canc                       \* where Cancel stands

disk == <<exists, written, size>>
call == <<HasPar2, attempt, canc>>
local == <<todo, maxEnd, missing, damaged, failed>>
result == <<outcome, handed>>
run_vars == <<call, local, result, pc, file, wk, ctx, registered>>
vars == <<tracker_vars, disk, run_vars>>

NoSeg == <<0, 0>>
Resting == [at |-> "free", seg |-> NoSeg]
Allocated(f) == SegCount[f] + 1
FileDone(f) == SegsOf(f) \subseteq bits
Intact(f) == f \in exists /\ SegsOf(f) \subseteq written /\ size[f] = SegCount[f]
Budget == IF HasPar2 THEN 1 ELSE 0       \* maxMissing of these small files

Init ==
    /\ TrackerInit
    /\ HasPar2 \in BOOLEAN
    /\ exists = {} /\ written = {} /\ size = Sizes
    /\ pc = "off" /\ attempt = 0 /\ file = 1 /\ todo = {} /\ maxEnd = 0
    /\ missing = {} /\ damaged = {} /\ wk = [w \in Workers |-> Resting] /\ failed = FALSE
    /\ ctx = FALSE /\ registered = FALSE /\ outcome = "none"
    /\ handed = FALSE /\ canc = "no"

-----------------------------------------------------------------------------
(* Download before and between the files *)

\* The manager calls Download, for the first time or again after a failed,
\* paused, cancelled or interrupted call.  Submit waits for no Cancel: one that has
\* not come to tracker.Remove yet will remove the file of the new run.
Start ==
    /\ pc = "off" /\ outcome # "ok" /\ attempt < MaxAttempts
    /\ Load
    /\ pc' = "setup" /\ attempt' = attempt + 1
    /\ outcome' = "none" /\ handed' = FALSE
    /\ canc' = CASE canc = "done" -> "no"
                 [] canc = "remove" -> "removeOld"
                 [] OTHER -> canc
    /\ UNCHANGED <<local, disk, HasPar2, file, wk, ctx, registered>>

\* Credentials, NNTP and the task folder; then Cancel can find the tracker.
Setup ==
    /\ pc = "setup"
    /\ pc' = "next" /\ registered' = TRUE
    /\ UNCHANGED <<local, disk, call, result, tracker_vars, file, wk, ctx>>

\* The locals of DownloadNZB and DownloadFile are gone.
Unwind ==
    /\ file' = 1 /\ todo' = {} /\ maxEnd' = 0 /\ missing' = {} /\ damaged' = {}
    /\ failed' = FALSE

\* Download is off the books.
Returned == ctx' = FALSE /\ registered' = FALSE

\* An error before or between the files: only the deferred flush is left.
Fail ==
    /\ pc = "setup" \/ (pc = "next" /\ file \in Files)
    /\ pc' = "defer" /\ outcome' = "error" /\ Unwind
    /\ UNCHANGED <<disk, call, tracker_vars, wk, ctx, registered, handed>>

AtFile == pc = "next" /\ ~ctx /\ file \in Files

SkipDone ==
    /\ AtFile /\ FileDone(file) /\ file \in exists
    /\ file' = file + 1
    /\ UNCHANGED <<local, disk, call, result, tracker_vars, pc, wk, ctx,
                   registered>>

\* Marked done but gone from disk.
ForgetGone ==
    /\ AtFile /\ FileDone(file) /\ file \notin exists
    /\ ResetFiles({file})
    /\ UNCHANGED <<run_vars, disk>>

\* A partial file with progress is kept, anything else created anew.
OpenFile ==
    /\ AtFile /\ ~FileDone(file)
    /\ IF file \in exists /\ SegsOf(file) \cap bits # {}
       THEN UNCHANGED disk
       ELSE /\ exists' = exists \cup {file}
            /\ written' = written \ SegsOf(file)
            /\ size' = [size EXCEPT ![file] = Allocated(file)]
    /\ todo' = SegsOf(file) \ bits
    /\ maxEnd' = known[file]
    /\ pc' = "work"
    /\ UNCHANGED <<call, result, tracker_vars, file, missing, damaged, wk, failed,
                   ctx, registered>>

-----------------------------------------------------------------------------
(* The segment workers of DownloadFile *)

work_rest == <<HasPar2, pc, attempt, file, ctx, registered, outcome, handed, canc>>

At(w, label) == pc = "work" /\ wk[w].at = label
Move(w, label) == wk' = [wk EXCEPT ![w].at = label]
Leave(w, label) == wk' = [wk EXCEPT ![w] = [at |-> label, seg |-> NoSeg]]

\* workCh hands the segments out in order; a worker that took one looks at
\* ctx before it fetches.
TakeSegment(w) ==
    /\ At(w, "free") /\ todo # {}
    /\ \E s \in todo :
          /\ \A t \in todo : s[2] <= t[2]
          /\ todo' = todo \ {s}
          /\ IF ctx THEN Leave(w, "out") ELSE wk' = [wk EXCEPT ![w] = [at |-> "fetch", seg |-> s]]
    /\ UNCHANGED <<disk, tracker_vars, work_rest, maxEnd, missing, damaged, failed>>

SegmentFailsUnseen(w) ==
    /\ At(w, "fetch") /\ Leave(w, "free")
    /\ UNCHANGED <<local, disk, tracker_vars, work_rest>>

\* Missing, damaged, misplaced or interrupted: a hole, and over the budget
\* an error that ends the worker.
SegmentFails(w) ==
    /\ At(w, "fetch")
    /\ missing' = missing \cup {wk[w].seg}
    /\ IF Cardinality(missing' \cap SegsOf(file)) > Budget
       THEN failed' = TRUE /\ Leave(w, "out")
       ELSE UNCHANGED failed /\ Leave(w, "free")
    /\ UNCHANGED <<disk, tracker_vars, work_rest, todo, maxEnd, damaged>>

\* The article is fetched, decoded and its offset accepted, which touches nothing
\* shared; WriteAt goes to the open file, which may have been unlinked meanwhile.
WriteAt(w) ==
    /\ At(w, "fetch")
    /\ \/ /\ written' = IF file \in exists THEN written \cup {wk[w].seg} ELSE written
          /\ maxEnd' = IF wk[w].seg[2] > maxEnd THEN wk[w].seg[2] ELSE maxEnd
          /\ Move(w, "note") /\ UNCHANGED failed
       \/ failed' = TRUE /\ Leave(w, "out") /\ UNCHANGED <<written, maxEnd>>
    /\ UNCHANGED <<tracker_vars, exists, size, work_rest, todo, missing, damaged>>

NoteSizeSkipped(w) ==
    /\ At(w, "note") /\ Move(w, "mark")
    /\ UNCHANGED <<local, disk, tracker_vars, work_rest>>

NoteSize(w) ==
    /\ At(w, "note") /\ Move(w, "mark")
    /\ NoteFileSize(file, wk[w].seg[2])
    /\ UNCHANGED <<local, disk, work_rest>>

\* Every so many marks, or after flushInterval, the worker flushes.
Mark(w) ==
    /\ At(w, "mark")
    /\ MarkDone(wk[w].seg)
    /\ \E label \in {"free", "flush"} : Leave(w, label)
    /\ UNCHANGED <<local, disk, work_rest>>

WorkerFlushBlocks(w) ==
    /\ At(w, "flush")
    /\ \/ FlushBegin(w) /\ UNCHANGED wk
       \/ FlushEnd(w) /\ Leave(w, "free")
    /\ UNCHANGED <<local, disk, work_rest>>

\* tryFlush: skips when another flush is under way or nothing is dirty.
WorkerFlush(w) ==
    /\ At(w, "flush")
    /\ \/ FlushBegin(w) /\ UNCHANGED wk
       \/ FlushEnd(w) /\ Leave(w, "free")
       \/ /\ ~flush[w].on /\ (flushMu # Nobody \/ ~dirty)
          /\ Leave(w, "free") /\ UNCHANGED tracker_vars
    /\ UNCHANGED <<local, disk, work_rest>>

Worker(w) ==
    \/ TakeSegment(w) \/ SegmentFails(w) \/ WriteAt(w)
    \/ NoteSize(w) \/ Mark(w) \/ WorkerFlush(w)

-----------------------------------------------------------------------------
(* DownloadFile after wg.Wait *)

Joined ==
    /\ pc = "work"
    /\ \A w \in Workers : wk[w].at = "out" \/ (wk[w].at = "free" /\ todo = {})

\* An error or a cancelled ctx: the partial file stays and the record is
\* flushed.  The deferred flush of Download follows.
StopFile ==
    /\ Joined /\ (failed \/ ctx)
    /\ pc' = "flush" /\ outcome' = "error" /\ Unwind
    /\ wk' = [w \in Workers |-> Resting]
    /\ UNCHANGED <<disk, call, tracker_vars, ctx, registered, handed>>

\* Sizes the file to the highest end offset unless its tail is a hole.
CutTo(f, end) ==
    /\ size' = [size EXCEPT ![f] = end]
    /\ written' = {s \in written : s[1] # f \/ s[2] <= end}

TailKnown == maxEnd > 0 /\ <<file, SegCount[file]>> \notin missing

\* The truncate fails: the call ends with its deferred flush.
CutFails ==
    /\ Joined /\ ~failed /\ ~ctx /\ TailKnown
    /\ pc' = "defer" /\ outcome' = "error" /\ Unwind
    /\ wk' = [w \in Workers |-> Resting]
    /\ UNCHANGED <<disk, call, tracker_vars, ctx, registered, handed>>

CloseFile ==
    /\ Joined /\ ~failed /\ ~ctx
    /\ IF TailKnown /\ file \in exists
       THEN CutTo(file, maxEnd)
       ELSE UNCHANGED <<size, written>>
    /\ pc' = "next" /\ file' = file + 1 /\ maxEnd' = 0
    /\ wk' = [w \in Workers |-> Resting]
    /\ UNCHANGED <<call, result, tracker_vars, exists, todo, missing, damaged,
                   failed, ctx, registered>>

-----------------------------------------------------------------------------
(* Post-processing and the ways out of Download *)

AllFetched == pc = "next" /\ file \notin Files

\* runPar2Step found damage it could not repair, or parity did not vouch for
\* a payload with holes.  par2 names the damaged files, or all are taken for
\* damaged.  Process extracts nevertheless; the verdict is acted on after it.
Condemn ==
    /\ AllFetched
    /\ \/ HasPar2 /\ \E f \in Files : ~Intact(f)
       \/ missing # {}
    /\ damaged' \in {{f \in Files : ~Intact(f)}, Files} \ {{}}
    /\ pc' = "extract"
    /\ UNCHANGED <<disk, call, result, tracker_vars, file, todo, maxEnd, missing,
                   failed, wk, ctx, registered>>

\* par2 confirmed the payload, after a repair or not, or nothing was there to
\* confirm it and no segment is missing.
Accept ==
    /\ AllFetched
    /\ \/ /\ HasPar2                       \* repaired
          /\ exists' = Files /\ written' = Segs /\ size' = SegCount
       \/ missing = {} /\ UNCHANGED disk   \* intact, or not verified
    /\ handed' = ("lost" \in lapse \/ (exists' = Files /\ written' = Segs))
    /\ pc' = "extract"
    /\ UNCHANGED <<local, call, tracker_vars, file, wk, ctx, registered,
                   outcome>>

\* Extraction fails, for a missing password or a bad archive.
ExtractFails ==
    /\ pc = "extract"
    /\ pc' = "defer" /\ outcome' = "error" /\ Unwind
    /\ UNCHANGED <<disk, call, tracker_vars, wk, ctx, registered, handed>>

AfterProcess == pc' = IF damaged = {} THEN "sync" ELSE "corrupt"

\* The archives are extracted and deleted.
ExtractArchive ==
    /\ pc = "extract" /\ exists = Files
    /\ exists' = {} /\ written' = {} /\ size' = Sizes
    /\ LoseData
    /\ AfterProcess
    /\ UNCHANGED <<local, call, result, file, wk, ctx, registered>>

\* Plain content is delivered as it stands.
NothingToExtract ==
    /\ pc = "extract" /\ (exists = Files \/ damaged # {})
    /\ AfterProcess
    /\ UNCHANGED <<local, disk, call, result, tracker_vars, file, wk, ctx,
                   registered>>

\* invalidateDamaged, and an IntegrityError: the retry fetches the damaged files again.
Corrupt ==
    /\ pc = "corrupt"
    /\ ResetFiles(damaged)
    /\ pc' = "flush" /\ outcome' = "error" /\ Unwind
    /\ UNCHANGED <<disk, call, wk, ctx, registered, handed>>

\* syncTree fails: a StorageError.
SyncFails ==
    /\ pc = "sync"
    /\ pc' = "defer" /\ outcome' = "error" /\ Unwind
    /\ UNCHANGED <<disk, call, tracker_vars, wk, ctx, registered, handed>>

Finish ==
    /\ pc = "sync"
    /\ Remove
    /\ pc' = "defer" /\ outcome' = "ok" /\ Unwind
    /\ UNCHANGED <<disk, call, wk, ctx, registered, handed>>

\* Flush where the error is met, then the deferred one.
AfterFlush ==
    IF pc = "flush" THEN pc' = "defer" /\ UNCHANGED <<ctx, registered>>
                    ELSE pc' = "off" /\ Returned

MainFlush ==
    /\ pc \in {"flush", "defer"}
    /\ \/ FlushBegin(Main) /\ UNCHANGED <<pc, ctx, registered>>
       \/ FlushEnd(Main) /\ AfterFlush
       \/ flushMu = Nobody /\ ~dirty /\ AfterFlush /\ UNCHANGED tracker_vars
    /\ UNCHANGED <<local, disk, call, result, file, wk>>

Download ==
    \/ Setup \/ Fail \/ SkipDone \/ ForgetGone \/ OpenFile \/ StopFile
    \/ CutFails \/ CloseFile \/ Condemn \/ Accept \/ ExtractFails
    \/ ExtractArchive \/ NothingToExtract \/ Corrupt \/ SyncFails \/ Finish \/ MainFlush

-----------------------------------------------------------------------------
(* From outside *)

\* Pause, or Shutdown: the files stay.
Pause ==
    /\ pc # "off" /\ ~ctx
    /\ ctx' = TRUE
    /\ UNCHANGED <<local, disk, call, result, tracker_vars, pc, file, wk,
                   registered>>

\* Cancel finds the tracker and the folder once Download has set them.
Cancel ==
    /\ pc # "off" /\ canc = "no"
    /\ ctx' = TRUE
    /\ canc' = IF registered THEN "remove" ELSE "done"
    /\ UNCHANGED <<local, disk, result, HasPar2, tracker_vars, pc, attempt,
                   file, wk, registered>>

CancelRemoves ==
    /\ \/ canc = "remove" /\ Remove
       \/ canc = "removeOld" /\ RemoveStale
    /\ canc' = "rmdir"
    /\ UNCHANGED <<local, disk, result, HasPar2, pc, attempt, file, wk, ctx,
                   registered>>

\* The goroutine Cancel starts deletes the folder on its own time.
RemoveFolder ==
    /\ canc = "rmdir"
    /\ exists' = {} /\ written' = {} /\ size' = Sizes
    /\ LoseData
    /\ canc' = "done"
    /\ UNCHANGED <<local, result, HasPar2, pc, attempt, file, wk, ctx,
                   registered>>

\* The user empties the download folder between two runs.
Wipe ==
    /\ pc = "off" /\ exists # {} /\ outcome # "ok"
    /\ exists' = {} /\ written' = {} /\ size' = Sizes
    /\ LoseData
    /\ UNCHANGED run_vars

\* The daemon is killed; the disk is what remains.
Crash ==
    /\ pc # "off"
    /\ Die
    /\ pc' = "off" /\ outcome' = "none"
    /\ wk' = [w \in Workers |-> Resting]
    /\ Unwind /\ Returned
    /\ canc' = IF canc = "no" THEN "no" ELSE "done"
    /\ UNCHANGED <<disk, HasPar2, attempt, handed>>

Next ==
    \/ Start \/ Download \/ Pause \/ Cancel \/ CancelRemoves \/ RemoveFolder
    \/ Wipe \/ Crash
    \/ \E w \in Workers : Worker(w)

Spec == Init /\ [][Next]_vars

(* A running Download does not stand still while one of its goroutines can *)
(* go on: an article arrives or its deadline passes, and disk I/O returns. *)
(* This takes for granted that the NNTP pool serves a waiting worker or    *)
(* fails it, which its one wake token does not guarantee.                  *)
FairSpec == Spec /\ WF_vars(Download \/ \E w \in Workers : Worker(w))

-----------------------------------------------------------------------------
\* Whatever is killed, paused or retried at whatever moment, the progress file
\* never vouches for bytes that are not in the data file, and neither does the
\* memory of a running download: a resume skips only what is really there.  Two
\* exceptions: data files that were deleted under the record, and a record that
\* Load discarded, which stays on disk, with files created anew beside it, until
\* the first flush of the fresh start.
\* The size it records reaches every segment it vouches for, so the closing
\* truncate of a run that fetches only middle segments keeps the tail.
RecordIsHonest ==
    /\ "lost" \notin lapse => /\ "unread" \notin lapse => saved.bits \subseteq written
                              /\ pc # "off" => bits \subseteq written
    /\ \A s \in saved.bits : saved.known[s[1]] >= s[2]

\* Nothing marked is forgotten: once the memory is clean and no flush is under
\* way, the progress file has every bit, whichever flush came last, and no other
\* bit unless the run started afresh beside it.
CleanMeansSaved ==
    pc # "off" /\ ~dirty /\ flushMu = Nobody /\ "mkdir" \notin lapse
    /\ outcome # "ok" /\ canc \in {"no", "remove", "removeOld"} =>
      /\ bits \subseteq saved.bits
      /\ "unread" \notin lapse => saved.bits \subseteq bits

\* What a successful download delivers has the bytes of every segment,
\* fetched in this run or an earlier one, or repaired by parity, unless data files
\* were deleted under the record or a discarded record came back (lapse "lost").
DeliveredIsComplete ==
    outcome = "ok" => handed

\* A call of Download returns: no worker, flush or join waits for ever.
DownloadEnds == pc # "off" ~> pc = "off"

=============================================================================
