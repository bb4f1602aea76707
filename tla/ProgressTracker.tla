-------------------------- MODULE ProgressTracker --------------------------
(***************************************************************************)
(* The resume record of a usenet download:                                 *)
(* internal/usenet/download/progress.go.  Workers mark segments while the  *)
(* record is written out beside them: a flush takes a snapshot under mu,   *)
(* clears dirty and does its I/O with only flushMu held.                   *)
(*                                                                         *)
(* A segment is <<file, number>>; the end offset of segment k is k.  An    *)
(* absent progress file and one without a bit read alike.  rev and lapse   *)
(* are history variables: rev counts how often the memory turned dirty, so *)
(* that two snapshots with a change between them differ in it, and lapse   *)
(* names what happened to the record that a promise about it must except:  *)
(*   "mkdir"   its folder could not be made, and dirty was not re-armed;   *)
(*   "unread"  Load started afresh although the file is still there;       *)
(*   "lost"    data files are gone that the bits vouch for, or a file that *)
(*             one Load had discarded was accepted by a later one.         *)
(***************************************************************************)
EXTENDS Naturals, FiniteSets

CONSTANTS Files,      \* indexes of the NZB's content files
          SegCount,   \* SegCount[f]: how many segments file f has
          Flushers,   \* the goroutines that call MarkDone or Flush
          Nobody      \* flushMu is free

ASSUME TrackerAssumption ==
    /\ SegCount \in [Files -> Nat \ {0}]
    /\ Nobody \notin Flushers

Segs == UNION {{<<f, k>> : k \in 1..SegCount[f]} : f \in Files}
SegsOf(f) == {<<f, k>> : k \in 1..SegCount[f]}

VARIABLES
    bits,     \* completed: the segments marked done
    known,    \* knownSize of each file: the highest end offset noted
    dirty,
    rev,      \* history: see above
    flushMu,  \* who holds it, or Nobody
    flush,    \* what each flusher is writing out
    saved,    \* the progress file
    lapse     \* history: see above

flushes == <<flushMu, flush>>
tracker_vars == <<bits, known, dirty, rev, flushes, saved, lapse>>

Sizes == [f \in Files |-> 0]
Empty == [bits |-> {}, known |-> Sizes, rev |-> 0]
Idle == [on |-> FALSE, rec |-> Empty]

TrackerInit ==
    /\ bits = {} /\ known = Sizes /\ dirty = FALSE /\ rev = 0
    /\ flushMu = Nobody /\ flush = [a \in Flushers |-> Idle]
    /\ saved = Empty /\ lapse = {}

-----------------------------------------------------------------------------
\* A flush the old memory was in is over, and the revisions are counted anew.
NewMemory ==
    /\ dirty' = FALSE /\ rev' = IF saved.rev = 0 THEN 0 ELSE 1
    /\ flushMu' = Nobody /\ flush' = [a \in Flushers |-> Idle]
    /\ saved' = [saved EXCEPT !.rev = rev']

\* NewProgressTracker and a Load that accepts the file.
LoadRecord ==
    /\ bits' = saved.bits /\ known' = saved.known
    /\ NewMemory
    /\ lapse' = IF "unread" \in lapse THEN {"lost"} ELSE lapse \ {"mkdir"}

\* A Load that cannot read the file, or does not accept it: a fresh start, and the
\* file stays as it is.
LoadFresh ==
    /\ saved.bits # {}
    /\ bits' = {} /\ known' = Sizes
    /\ NewMemory
    /\ lapse' = (lapse \ {"mkdir"}) \cup {"unread"}

Load == LoadRecord \/ LoadFresh

TurnDirty == dirty' = TRUE /\ rev' = IF dirty THEN rev ELSE rev + 1

\* Keeps the maximum; an end that is not higher changes nothing.
NoteFileSize(f, end) ==
    /\ IF end > known[f]
       THEN known' = [known EXCEPT ![f] = end] /\ TurnDirty
       ELSE UNCHANGED <<known, dirty, rev>>
    /\ UNCHANGED <<bits, flushes, saved, lapse>>

MarkDone(s) ==
    /\ bits' = bits \cup {s} /\ TurnDirty
    /\ UNCHANGED <<known, flushes, saved, lapse>>

\* ResetFile for each file of a set.
ResetFiles(F) ==
    /\ bits' = bits \ UNION {SegsOf(f) : f \in F}
    /\ known' = [f \in Files |-> IF f \in F THEN 0 ELSE known[f]]
    /\ TurnDirty
    /\ UNCHANGED <<flushes, saved, lapse>>

Snapshot == [on |-> TRUE, rec |-> [bits |-> bits, known |-> known, rev |-> rev]]

FlushBeginUnlocked(a) ==
    /\ ~flush[a].on /\ dirty
    /\ flushMu' = a /\ flush' = [flush EXCEPT ![a] = Snapshot]
    /\ dirty' = FALSE
    /\ UNCHANGED <<bits, known, rev, saved, lapse>>

\* The lock of flushMu, tryFlush's TryLock and Flush's Lock alike, and flushLocked
\* up to the unlock of mu.
FlushBegin(a) ==
    /\ flushMu = Nobody /\ dirty
    /\ flushMu' = a /\ flush' = [flush EXCEPT ![a] = Snapshot]
    /\ dirty' = FALSE
    /\ UNCHANGED <<bits, known, rev, saved, lapse>>

FlushEndStaysClean(a) ==
    /\ flush[a].on
    /\ flushMu' = Nobody /\ flush' = [flush EXCEPT ![a] = Idle]
    /\ \/ saved' = flush[a].rec /\ lapse' = lapse \ {"unread", "mkdir"}
       \/ UNCHANGED <<saved, lapse>>
       \/ lapse' = lapse \cup {"mkdir"} /\ UNCHANGED saved
    /\ UNCHANGED <<bits, known, dirty, rev>>

\* The I/O: the rename replaces the file; a failed write or rename re-arms
\* dirty, a failed MkdirAll returns without.
FlushEnd(a) ==
    /\ flush[a].on
    /\ flushMu' = Nobody /\ flush' = [flush EXCEPT ![a] = Idle]
    /\ \/ saved' = flush[a].rec /\ lapse' = lapse \ {"unread", "mkdir"} /\ UNCHANGED dirty
       \/ dirty' = TRUE /\ UNCHANGED <<saved, lapse>>
       \/ lapse' = lapse \cup {"mkdir"} /\ UNCHANGED <<dirty, saved>>
    /\ UNCHANGED <<bits, known, rev>>

\* Waits for flushMu.
Remove ==
    /\ flushMu = Nobody
    /\ dirty' = FALSE /\ saved' = Empty /\ lapse' = lapse \ {"unread"}
    /\ UNCHANGED <<bits, known, rev, flushes>>

\* Remove of an earlier tracker of the task: the file is the same one, the memory,
\* its dirty flag and its flushMu are not.
RemoveStale ==
    /\ saved' = Empty /\ lapse' = lapse \ {"unread"}
    /\ UNCHANGED <<bits, known, dirty, rev, flushes>>

\* The data files the bits vouch for are gone.
LoseData ==
    /\ lapse' = lapse \cup {"lost"}
    /\ UNCHANGED <<bits, known, dirty, rev, flushes, saved>>

\* The process dies, in the middle of a flush or not.
Die ==
    /\ flushMu' = Nobody /\ flush' = [a \in Flushers |-> Idle]
    /\ UNCHANGED <<bits, known, dirty, rev, saved, lapse>>

TrackerNext ==
    \/ Load \/ Remove \/ RemoveStale \/ LoseData \/ Die
    \/ \E s \in Segs : NoteFileSize(s[1], s[2]) \/ MarkDone(s)
    \/ \E F \in SUBSET Files : ResetFiles(F)
    \/ \E a \in Flushers : FlushBegin(a) \/ FlushEnd(a)

TrackerSpec == TrackerInit /\ [][TrackerNext]_tracker_vars

-----------------------------------------------------------------------------
\* The record is a faithful register: see SavedRevision.
Record == INSTANCE SavedRevision WITH current <- rev, stored <- saved.rev

\* A stale snapshot never replaces a newer one, whichever worker or Flush took it
\* and however their I/O overlaps: the progress file always holds a state the
\* tracker went through, in order, except that it is deleted as a whole.
SavedInOrder == Record!Spec
=============================================================================
