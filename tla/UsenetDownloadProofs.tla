------------------------ MODULE UsenetDownloadProofs ------------------------
(***************************************************************************)
(* Proofs about UsenetDownload, for any number of files, segments, workers *)
(* and attempts: the progress file never vouches for bytes that are not    *)
(* there, it never goes back to an older state, a clean memory is saved,   *)
(* and what is delivered is complete.                                      *)
(***************************************************************************)
EXTENDS UsenetDownload, FiniteSetTheorems, TLAPS

Lost == "lost" \in lapse
Unread == "unread" \in lapse
Busy == {"fetch", "note", "mark"}
Labels == Busy \cup {"flush", "free", "out"}

Fields == {"bits", "known", "rev"}

\* flushMu is held by the one goroutine that is writing, if any is; the file and
\* the snapshots are records.
FlushInv ==
    /\ flushMu \in Flushers \cup {Nobody} /\ DOMAIN flush = Flushers /\ DOMAIN saved = Fields
    /\ \A a \in Flushers : (flush[a].on <=> flushMu = a) /\ DOMAIN flush[a].rec = Fields

Types ==
    /\ bits \subseteq Segs /\ known \in [Files -> Nat]
    /\ exists \subseteq Files /\ written \subseteq {s \in Segs : s[1] \in exists}
    /\ maxEnd \in Nat
    /\ wk \in [Workers -> [at : Labels, seg : Segs \cup {NoSeg}]]

\* Workers are at segments of the file that is open, and only while it is.
AtWork ==
    /\ pc # "work" => \A w \in Workers : wk[w] = Resting
    /\ pc = "work" =>
         /\ file \in Files /\ todo \subseteq SegsOf(file)
         /\ ~Lost => file \in exists
         /\ \A w \in Workers : wk[w].at \in Busy => wk[w].seg \in SegsOf(file)

\* A record whose size reaches each of its segments.
Reaches(r) ==
    /\ r.bits \subseteq Segs /\ r.known \in [Files -> Nat]
    /\ \A s \in r.bits : r.known[s[1]] >= s[2]

Sized ==
    /\ \A s \in bits : known[s[1]] >= s[2]
    /\ Reaches(saved)
    /\ \A a \in Flushers : flush[a].on => Reaches(flush[a].rec)

\* What is recorded, or about to be, is in the data files, but for a record that
\* Load discarded.
OnDisk ==
    ~Lost =>
      /\ Unread \/ saved.bits \subseteq written
      /\ \A a \in Flushers : flush[a].on => flush[a].rec.bits \subseteq written
      /\ pc # "off" => bits \subseteq written
      /\ \A w \in Workers : wk[w].at \in {"note", "mark"} => wk[w].seg \in written

\* Until par2 has spoken no record is ahead of the memory: a file without a bit
\* in memory has none on disk, and may be created anew.
Behind ==
    ~Lost /\ pc \in {"setup", "next", "work"} =>
      /\ Unread \/ saved.bits \subseteq bits
      /\ \A a \in Flushers : flush[a].on => flush[a].rec.bits \subseteq bits

\* The closing truncate spares what is recorded.
BelowEnd ==
    pc = "work" =>
      /\ \A s \in bits \cap SegsOf(file) : s[2] <= maxEnd
      /\ \A w \in Workers :
           /\ wk[w].at \in {"note", "mark"} => wk[w].seg[2] <= maxEnd
           /\ wk[w].at = "mark" => wk[w].seg[2] <= known[file]

HonestInv == Types /\ AtWork /\ Sized /\ OnDisk /\ Behind /\ BelowEnd

-----------------------------------------------------------------------------
\* Every segment belongs to one file, and every file has one.
LEMMA SegFacts ==
  /\ \A f \in Files : SegsOf(f) \subseteq Segs /\ <<f, 1>> \in SegsOf(f)
  /\ \A f \in Files : \A s \in SegsOf(f) : s[1] = f /\ s[2] \in Nat
  /\ \A s \in Segs : s[1] \in Files /\ s \in SegsOf(s[1]) /\ s[2] \in Nat
BY TrackerAssumption DEF Segs, SegsOf

\* A worker that moves on keeps its segment; the others stay where they are.
LEMMA MoveFacts ==
  ASSUME Types, NEW w \in Workers, NEW label \in Labels, Move(w, label)
  PROVE  /\ wk' \in [Workers -> [at : Labels, seg : Segs \cup {NoSeg}]]
         /\ wk'[w].at = label /\ wk'[w].seg = wk[w].seg
         /\ \A v \in Workers : v # w => wk'[v] = wk[v]
BY Zenon DEF Types, Move

\* A worker that is done with its segment has none.
LEMMA LeaveFacts ==
  ASSUME Types, NEW w \in Workers, NEW label \in Labels, Leave(w, label)
  PROVE  /\ wk' \in [Workers -> [at : Labels, seg : Segs \cup {NoSeg}]]
         /\ wk'[w].at = label
         /\ \A v \in Workers : v # w => wk'[v] = wk[v]
BY Zenon DEF Types, Leave

\* One flusher's state changes, the others' do not.
LEMMA FlushFacts ==
  ASSUME DOMAIN flush = Flushers, NEW a \in Flushers, NEW r, flush' = [flush EXCEPT ![a] = r]
  PROVE  /\ DOMAIN flush' = Flushers /\ flush'[a] = r
         /\ \A b \in Flushers : b # a => flush'[b] = flush[b]
BY Zenon

\* The mutex serialises the flushes, whatever the tracker does.
LEMMA StaysSerial == FlushInv /\ TrackerNext => FlushInv'
<1> SUFFICES ASSUME FlushInv, TrackerNext PROVE FlushInv' BY Zenon
<1> USE DEF FlushInv
<1>1. DOMAIN Empty = Fields /\ Idle.rec = Empty /\ ~Idle.on BY DEF Empty, Idle, Fields
<1>2. DOMAIN Snapshot.rec = Fields /\ Snapshot.on BY DEF Snapshot, Fields
<1>3. CASE UNCHANGED flushes /\ DOMAIN saved' = Fields BY Zenon, <1>3 DEF flushes
<1>4. CASE flushMu' = Nobody /\ flush' = [a \in Flushers |-> Idle] /\ DOMAIN saved' = Fields
  BY Zenon, <1>1, <1>4, TrackerAssumption
<1>5. ASSUME NEW a \in Flushers, FlushBegin(a) PROVE FlushInv'
  <2>1. flushMu = Nobody /\ flushMu' = a /\ flush' = [flush EXCEPT ![a] = Snapshot] /\ UNCHANGED saved
    BY Zenon, <1>5 DEF FlushBegin
  <2>2. DOMAIN flush' = Flushers /\ flush'[a] = Snapshot
        /\ \A b \in Flushers : b # a => flush'[b] = flush[b]
    BY Zenon, <2>1, FlushFacts
  <2>3. QED BY Zenon, <1>2, <2>1, <2>2, TrackerAssumption
<1>6. ASSUME NEW a \in Flushers, FlushEnd(a) PROVE FlushInv'
  <2>1. /\ flush[a].on /\ flushMu' = Nobody /\ flush' = [flush EXCEPT ![a] = Idle]
        /\ saved' = flush[a].rec \/ saved' = saved
    BY Zenon, <1>6 DEF FlushEnd
  <2>2. DOMAIN flush' = Flushers /\ flush'[a] = Idle
        /\ \A b \in Flushers : b # a => flush'[b] = flush[b]
    BY Zenon, <2>1, FlushFacts
  <2>3. QED BY Zenon, <1>1, <2>1, <2>2, TrackerAssumption
<1>7. CASE Load
  <2>1. saved' = [saved EXCEPT !.rev = rev'] BY Zenon, <1>7 DEF Load, LoadRecord, LoadFresh, NewMemory
  <2>2. DOMAIN saved' = Fields BY Zenon, <2>1
  <2>3. QED BY Zenon, <1>4, <1>7, <2>2 DEF Load, LoadRecord, LoadFresh, NewMemory
<1>8. CASE Remove \/ RemoveStale BY Zenon, <1>1, <1>3, <1>8 DEF Remove, RemoveStale
<1>9. CASE LoseData \/ Die BY Zenon, <1>3, <1>4, <1>9 DEF LoseData, Die
<1>10. CASE \E s \in Segs : NoteFileSize(s[1], s[2]) \/ MarkDone(s)
  BY Zenon, <1>3, <1>10 DEF NoteFileSize, MarkDone
<1>11. CASE \E F \in SUBSET Files : ResetFiles(F) BY Zenon, <1>3, <1>11 DEF ResetFiles
<1>12. QED BY Zenon, <1>5, <1>6, <1>7, <1>8, <1>9, <1>10, <1>11 DEF TrackerNext

\* Steps that leave the record and the data files alone.
LEMMA ElsewhereHonest ==
  ASSUME HonestInv, UNCHANGED <<tracker_vars, disk>>,
         \/ UNCHANGED <<pc, file, todo, wk, maxEnd>>
         \/ pc' \notin {"work", "setup"} /\ wk' = [w \in Workers |-> Resting] /\ maxEnd' \in {maxEnd, 0},
         pc = "off" => pc' = "off",
         pc' = "next" => pc \in {"setup", "next", "work"}
  PROVE  HonestInv'
<1>1. Types' /\ AtWork'
  BY SMTT(30) DEF HonestInv, Types, AtWork, tracker_vars, flushes, disk, Resting, Labels, Busy, Lost
<1>2. Sized'
  BY Zenon DEF HonestInv, Sized, Reaches, tracker_vars, flushes
<1>3. OnDisk'
  BY DEF HonestInv, OnDisk, Lost, Unread, tracker_vars, flushes, disk, Resting
<1>4. Behind' /\ BelowEnd'
  BY Zenon DEF HonestInv, Behind, BelowEnd, Lost, Unread, tracker_vars, flushes, disk, Resting
<1>5. QED BY Zenon, <1>1, <1>2, <1>3, <1>4 DEF HonestInv

\* Steps that lose the data files make no promise about them any more.
LEMMA LoseDataHonest ==
  ASSUME HonestInv, LoseData, exists' = {}, written' = {},
         UNCHANGED <<maxEnd, wk>>,
         UNCHANGED <<pc, file, todo>> \/ (pc # "work" /\ pc' # "work")
  PROVE  HonestInv'
<1>1. Lost' BY Zenon DEF LoseData, Lost
<1>2. OnDisk' /\ Behind' BY Zenon, <1>1 DEF OnDisk, Behind
<1>3. Types' /\ AtWork' BY Zenon, <1>1 DEF HonestInv, Types, AtWork, LoseData
<1>4. Sized' BY Zenon DEF HonestInv, Sized, Reaches, LoseData, flushes
<1>5. BelowEnd' BY Zenon DEF HonestInv, BelowEnd, LoseData
<1>6. QED BY Zenon, <1>2, <1>3, <1>4, <1>5 DEF HonestInv

\* Steps that delete the record.
LEMMA RemoveHonest ==
  ASSUME HonestInv, Remove \/ RemoveStale, UNCHANGED <<disk, wk>>,
         \/ UNCHANGED <<pc, file, todo, maxEnd>>
         \/ pc = "sync" /\ pc' = "defer" /\ maxEnd' = 0
  PROVE  HonestInv'
<1>0. /\ saved' = Empty /\ lapse' = lapse \ {"unread"} /\ UNCHANGED <<bits, known, flush>>
  BY Zenon DEF Remove, RemoveStale, flushes
<1>1. saved'.bits = {} /\ Reaches(saved)' /\ (Lost' <=> Lost)
  <2>1. saved'.bits = {} /\ Reaches(saved)' BY Zenon, <1>0 DEF Empty, Sizes, Reaches
  <2>2. Lost' <=> Lost BY <1>0 DEF Lost
  <2>3. QED BY <2>1, <2>2
<1>2. Types' /\ AtWork' BY <1>0, <1>1 DEF HonestInv, Types, AtWork, disk
<1>3. Sized' BY Zenon, <1>0, <1>1 DEF HonestInv, Sized, Reaches
<1>4. OnDisk' /\ Behind'
  BY Zenon, <1>0, <1>1 DEF HonestInv, OnDisk, Behind, disk
<1>5. BelowEnd' BY Zenon, <1>0 DEF HonestInv, BelowEnd
<1>6. QED BY Zenon, <1>2, <1>3, <1>4, <1>5 DEF HonestInv

-----------------------------------------------------------------------------
\* A new run's memory is the record, which is on disk and reaches its segments, or
\* it is empty and the record is not to be relied on.
LEMMA StartHonest ==
  ASSUME HonestInv, FlushInv, Start
  PROVE  HonestInv'
<1>1. /\ \A a \in Flushers : ~flush'[a].on
      /\ saved'.bits = saved.bits /\ saved'.known = saved.known /\ pc' = "setup"
  <2>1. flush' = [a \in Flushers |-> Idle] /\ saved' = [saved EXCEPT !.rev = rev'] /\ pc' = "setup"
    BY Zenon DEF Start, Load, LoadRecord, LoadFresh, NewMemory
  <2>2. saved'.bits = saved.bits /\ saved'.known = saved.known BY <2>1 DEF FlushInv, Fields
  <2>3. QED BY Zenon, <2>1, <2>2 DEF Idle
<1>2. UNCHANGED <<disk, maxEnd, wk>> /\ \A w \in Workers : wk[w] = Resting
  BY Zenon DEF Start, local, HonestInv, AtWork
<1>3. \/ bits' = saved.bits /\ known' = saved.known /\ (~Lost' => ~Lost /\ ~Unread)
      \/ bits' = {} /\ known' = Sizes /\ Unread' /\ (Lost' <=> Lost)
  <2>1. CASE LoadRecord BY <2>1 DEF LoadRecord, Lost, Unread
  <2>2. CASE LoadFresh BY <2>2 DEF LoadFresh, Lost, Unread
  <2>3. QED BY Zenon, <2>1, <2>2 DEF Start, Load
<1>4. bits' \subseteq Segs /\ known' \in [Files -> Nat] /\ Sized'
  <2>1. bits' \subseteq Segs /\ known' \in [Files -> Nat]
        /\ \A s \in bits' : known'[s[1]] >= s[2]
    BY <1>3 DEF HonestInv, Sized, Reaches, Sizes
  <2>2. QED BY Zenon, <1>1, <2>1 DEF HonestInv, Sized, Reaches
<1>5. Types' /\ AtWork'
  BY Zenon, <1>1, <1>2, <1>4 DEF HonestInv, Types, AtWork, disk
<1>6. OnDisk' /\ Behind' /\ BelowEnd'
  <2>1. BelowEnd' BY Zenon, <1>1 DEF BelowEnd
  <2>2. ~Lost' => ~Lost /\ (Unread' \/ (bits' = saved'.bits /\ ~Unread))
    BY Zenon, <1>1, <1>3
  <2>3. ~Lost' => bits' \subseteq written'
    BY Zenon, <1>1, <1>2, <1>3 DEF HonestInv, OnDisk, disk
  <2>4. Behind' BY Zenon, <1>1, <2>2 DEF Behind
  <2>5. OnDisk' BY <1>1, <1>2, <2>2, <2>3 DEF OnDisk, Resting
  <2>6. QED BY Zenon, <2>1, <2>4, <2>5
<1>7. QED BY Zenon, <1>4, <1>5, <1>6 DEF HonestInv

\* A file that is marked done and gone: only lost data explains it.
LEMMA ForgetGoneHonest ==
  ASSUME HonestInv, ForgetGone
  PROVE  HonestInv'
<1>1. file \in Files /\ pc = "next" /\ file \notin exists /\ SegsOf(file) \subseteq bits
  BY Zenon DEF ForgetGone, AtFile, FileDone
<1>2. ResetFiles({file}) /\ UNCHANGED <<run_vars, disk>>
  BY Zenon DEF ForgetGone
<1>3. Lost /\ Lost'
  <2>1. <<file, 1>> \in bits /\ <<file, 1>>[1] \notin exists BY Zenon, <1>1, SegFacts
  <2>2. <<file, 1>> \notin written BY Zenon, <2>1 DEF HonestInv, Types
  <2>3. Lost BY Zenon, <1>1, <2>1, <2>2 DEF HonestInv, OnDisk
  <2>4. QED BY Zenon, <1>2, <2>3 DEF Lost, ResetFiles
<1>4. Types' /\ AtWork'
  BY Zenon, <1>1, <1>2, <1>3 DEF HonestInv, Types, AtWork, ResetFiles, run_vars, local, disk
<1>5. Sized'
  <2>1. /\ bits' \subseteq bits \ SegsOf(file) /\ UNCHANGED <<flush, saved>>
        /\ \A f \in Files : f # file => known'[f] = known[f]
    BY <1>1, <1>2 DEF ResetFiles, flushes
  <2>2. \A s \in bits' : known'[s[1]] >= s[2]
    BY <2>1, <1>1, SegFacts DEF HonestInv, Types, Sized
  <2>3. QED BY Zenon, <2>1, <2>2 DEF HonestInv, Sized, Reaches
<1>6. OnDisk' /\ Behind' BY Zenon, <1>3 DEF OnDisk, Behind
<1>7. BelowEnd' BY Zenon, <1>1, <1>2 DEF BelowEnd, run_vars
<1>8. QED BY Zenon, <1>4, <1>5, <1>6, <1>7 DEF HonestInv

\* Creating a file anew drops only bytes that no record vouches for.
LEMMA OpenFileHonest ==
  ASSUME HonestInv, OpenFile
  PROVE  HonestInv'
<1>1. /\ pc = "next" /\ file \in Files /\ pc' = "work" /\ UNCHANGED <<file, wk, tracker_vars>>
      /\ todo' = SegsOf(file) \ bits /\ maxEnd' = known[file]
      /\ \A w \in Workers : wk[w] = Resting
  BY Zenon DEF OpenFile, AtFile, HonestInv, AtWork
<1>2. /\ exists' \subseteq Files /\ file \in exists'
      /\ written' \subseteq {s \in Segs : s[1] \in exists'}
      /\ written' = written \/ (written' = written \ SegsOf(file)
                                /\ (file \notin exists \/ SegsOf(file) \cap bits = {}))
  BY <1>1 DEF OpenFile, disk, HonestInv, Types
<1>3. Types' /\ AtWork'
  BY <1>1, <1>2, SegFacts DEF HonestInv, Types, AtWork, tracker_vars, flushes, Resting, Labels, Busy
<1>4. Sized' BY Zenon, <1>1 DEF HonestInv, Sized, Reaches, tracker_vars, flushes
<1>5. OnDisk'
  <2> SUFFICES ASSUME ~Lost PROVE OnDisk' BY Zenon, <1>1 DEF OnDisk, Lost, Unread, tracker_vars, flushes
  <2>1. SegsOf(file) \cap bits = {} \/ file \in exists
    <3> SUFFICES ASSUME NEW s \in SegsOf(file) \cap bits PROVE file \in exists BY Zenon
    <3>1. s \in written /\ s[1] = file BY Zenon, <1>1, SegFacts DEF HonestInv, OnDisk
    <3>2. QED BY Zenon, <3>1 DEF HonestInv, Types
  <2>2. bits \subseteq written' BY Zenon, <1>1, <1>2, <2>1 DEF HonestInv, OnDisk
  <2>3. (Unread \/ saved.bits \subseteq bits)
        /\ \A a \in Flushers : flush[a].on => flush[a].rec.bits \subseteq bits
    BY Zenon, <1>1 DEF HonestInv, Behind
  <2>4. QED BY <1>1, <2>2, <2>3 DEF OnDisk, Unread, tracker_vars, flushes, Resting
<1>6. Behind' BY Zenon, <1>1 DEF HonestInv, Behind, Lost, Unread, tracker_vars, flushes
<1>7. BelowEnd'
  BY <1>1, SegFacts DEF HonestInv, Sized, BelowEnd, tracker_vars, flushes, Resting
<1>8. QED BY Zenon, <1>3, <1>4, <1>5, <1>6, <1>7 DEF HonestInv

\* The closing truncate cuts nothing a record vouches for.
LEMMA CloseFileHonest ==
  ASSUME HonestInv, CloseFile
  PROVE  HonestInv'
<1>1. /\ pc = "work" /\ pc' = "next" /\ maxEnd' = 0 /\ exists' = exists
      /\ UNCHANGED <<tracker_vars, todo>> /\ wk' = [w \in Workers |-> Resting]
  BY Zenon DEF CloseFile, Joined
<1>2. written' \subseteq written
      /\ \A s \in written : s[1] # file \/ s[2] <= maxEnd => s \in written'
  BY Zenon DEF CloseFile, CutTo
<1>3. Types' /\ AtWork'
  BY Zenon, <1>1, <1>2 DEF HonestInv, Types, AtWork, tracker_vars, flushes, Resting, Labels, Busy
<1>4. Sized' BY Zenon, <1>1 DEF HonestInv, Sized, Reaches, tracker_vars, flushes
<1>5. OnDisk'
  <2> SUFFICES ASSUME ~Lost PROVE OnDisk' BY Zenon, <1>1 DEF OnDisk, Lost, Unread, tracker_vars, flushes
  <2>1. bits \subseteq written'
    <3> SUFFICES ASSUME NEW s \in bits PROVE s \in written' BY Zenon
    <3>1. s \in written /\ s \in Segs BY Zenon, <1>1 DEF HonestInv, OnDisk, Types
    <3>2. s[1] = file => s[2] <= maxEnd
      BY Zenon, <1>1, <3>1, SegFacts DEF HonestInv, BelowEnd
    <3>3. QED BY Zenon, <1>2, <3>1, <3>2
  <2>2. (Unread \/ saved.bits \subseteq bits)
        /\ \A a \in Flushers : flush[a].on => flush[a].rec.bits \subseteq bits
    BY Zenon, <1>1 DEF HonestInv, Behind
  <2>3. QED BY Zenon, <1>1, <2>1, <2>2 DEF OnDisk, Unread, tracker_vars, flushes, Resting
<1>6. Behind' /\ BelowEnd' BY Zenon, <1>1 DEF HonestInv, Behind, BelowEnd, Lost, Unread, tracker_vars, flushes
<1>7. QED BY Zenon, <1>3, <1>4, <1>5, <1>6 DEF HonestInv

\* After par2 the bits of damaged files go; what stays is still on disk.
LEMMA CorruptHonest ==
  ASSUME HonestInv, Corrupt
  PROVE  HonestInv'
<1>1. PICK F : ResetFiles(F) BY Zenon DEF Corrupt
<1>2. /\ pc = "corrupt" /\ pc' = "flush" /\ maxEnd' = 0 /\ UNCHANGED <<disk, wk>>
      /\ \A w \in Workers : wk[w] = Resting
  BY Zenon DEF Corrupt, Unwind, HonestInv, AtWork
<1>3. bits' \subseteq bits /\ known' \in [Files -> Nat] /\ UNCHANGED <<flush, saved, lapse>>
  BY Zenon, <1>1 DEF ResetFiles, flushes, HonestInv, Types
<1>4. \A s \in bits' : known'[s[1]] >= s[2]
  BY <1>1, SegFacts DEF ResetFiles, HonestInv, Types, Sized
<1>5. Types' /\ AtWork' BY Zenon, <1>2, <1>3 DEF HonestInv, Types, AtWork, disk
<1>6. Sized' BY Zenon, <1>3, <1>4 DEF HonestInv, Sized, Reaches
<1>7. OnDisk' BY Zenon, <1>2, <1>3 DEF HonestInv, OnDisk, Lost, Unread, disk, Resting
<1>8. Behind' /\ BelowEnd' BY Zenon, <1>2 DEF Behind, BelowEnd
<1>9. QED BY Zenon, <1>5, <1>6, <1>7, <1>8 DEF HonestInv

\* A repair only adds bytes.
LEMMA AcceptHonest ==
  ASSUME HonestInv, Accept
  PROVE  HonestInv'
<1>1. /\ pc = "next" /\ pc' = "extract" /\ UNCHANGED <<tracker_vars, maxEnd, wk>>
      /\ \A w \in Workers : wk[w] = Resting
  BY Zenon DEF Accept, AllFetched, local, HonestInv, AtWork
<1>2. /\ written \subseteq written' /\ exists' \subseteq Files
      /\ written' \subseteq {s \in Segs : s[1] \in exists'}
  BY Zenon, SegFacts DEF Accept, disk, HonestInv, Types
<1>3. Types' /\ AtWork' BY Zenon, <1>1, <1>2 DEF HonestInv, Types, AtWork, tracker_vars, flushes
<1>4. Sized' BY Zenon, <1>1 DEF HonestInv, Sized, Reaches, tracker_vars, flushes
<1>5. OnDisk' BY Zenon, <1>1, <1>2 DEF HonestInv, OnDisk, Lost, Unread, tracker_vars, flushes, Resting
<1>6. Behind' /\ BelowEnd' BY Zenon, <1>1 DEF Behind, BelowEnd
<1>7. QED BY Zenon, <1>3, <1>4, <1>5, <1>6 DEF HonestInv

\* A snapshot of an honest memory is an honest record, and so is the file that
\* it replaces or that it leaves.
LEMMA FlushHonest ==
  ASSUME HonestInv, FlushInv, NEW a \in Flushers, FlushBegin(a) \/ FlushEnd(a)
  PROVE  /\ UNCHANGED <<bits, known>> /\ (Lost' <=> Lost) /\ Sized'
         /\ ~Lost /\ pc # "off" =>
              /\ Unread' \/ saved'.bits \subseteq written
              /\ \A b \in Flushers : flush'[b].on => flush'[b].rec.bits \subseteq written
         /\ ~Lost /\ pc \in {"setup", "next", "work"} =>
              /\ Unread' \/ saved'.bits \subseteq bits
              /\ \A b \in Flushers : flush'[b].on => flush'[b].rec.bits \subseteq bits
<1>1. CASE FlushBegin(a)
  <2>1. UNCHANGED <<bits, known, saved, lapse>> /\ flush' = [flush EXCEPT ![a] = Snapshot]
    BY Zenon, <1>1 DEF FlushBegin
  <2>2. flush'[a] = Snapshot /\ \A b \in Flushers : b # a => flush'[b] = flush[b]
    BY Zenon, <2>1, FlushFacts DEF FlushInv
  <2>3. Snapshot.rec.bits = bits /\ Snapshot.rec.known = known BY Zenon DEF Snapshot
  <2>4. Reaches(Snapshot.rec) BY Zenon, <2>3 DEF HonestInv, Types, Sized, Reaches
  <2>5. Sized' BY Zenon, <2>1, <2>2, <2>4 DEF HonestInv, Sized, Reaches
  <2>6. QED BY Zenon, <2>1, <2>2, <2>3, <2>5 DEF HonestInv, OnDisk, Behind, Lost, Unread
<1>2. CASE FlushEnd(a)
  <2>1. /\ UNCHANGED <<bits, known>> /\ flush[a].on /\ flush' = [flush EXCEPT ![a] = Idle]
        /\ \/ saved' = flush[a].rec /\ lapse' = lapse \ {"unread", "mkdir"}
           \/ saved' = saved /\ (lapse' = lapse \/ lapse' = lapse \cup {"mkdir"})
    BY Zenon, <1>2 DEF FlushEnd
  <2>2. ~flush'[a].on /\ \A b \in Flushers : b # a => flush'[b] = flush[b]
    BY Zenon, <2>1, FlushFacts DEF FlushInv, Idle
  <2>3. (Lost' <=> Lost) /\ (saved' = flush[a].rec \/ (saved' = saved /\ (Unread' <=> Unread)))
    BY <2>1 DEF Lost, Unread
  <2>4. Sized' BY Zenon, <2>1, <2>2, <2>3 DEF HonestInv, Sized, Reaches
  <2>5. QED BY Zenon, <2>1, <2>2, <2>3, <2>4 DEF HonestInv, OnDisk, Behind
<1>3. QED BY Zenon, <1>1, <1>2

\* The flush where an error is met, and the deferred one of Download.
LEMMA MainFlushHonest ==
  ASSUME HonestInv, FlushInv, MainFlush
  PROVE  HonestInv'
<1>1. /\ pc \in {"flush", "defer"} /\ pc' \in {"flush", "defer", "off"}
      /\ UNCHANGED <<disk, wk, maxEnd>>
      /\ \A w \in Workers : wk[w] = Resting
  BY Zenon DEF MainFlush, AfterFlush, Returned, local, HonestInv, AtWork
<1>2. CASE UNCHANGED tracker_vars
  <2>1. Types' /\ AtWork' BY <1>1, <1>2 DEF HonestInv, Types, AtWork, disk, tracker_vars, flushes
  <2>2. Sized' BY Zenon, <1>2 DEF HonestInv, Sized, Reaches, tracker_vars, flushes
  <2>3. OnDisk' BY Zenon, <1>1, <1>2 DEF HonestInv, OnDisk, Lost, Unread, disk, tracker_vars, flushes, Resting
  <2>4. Behind' /\ BelowEnd' BY Zenon, <1>1 DEF Behind, BelowEnd
  <2>5. QED BY Zenon, <2>1, <2>2, <2>3, <2>4 DEF HonestInv
<1>3. CASE FlushBegin(Main) \/ FlushEnd(Main)
  <2>1. Main \in Flushers BY Zenon, DownloadAssumption
  <2>2. /\ UNCHANGED <<bits, known>> /\ (Lost' <=> Lost) /\ Sized'
        /\ ~Lost =>
             /\ Unread' \/ saved'.bits \subseteq written
             /\ \A b \in Flushers : flush'[b].on => flush'[b].rec.bits \subseteq written
    BY Zenon, <1>1, <1>3, <2>1, FlushHonest
  <2>3. Types' /\ AtWork' BY <1>1, <2>2 DEF HonestInv, Types, AtWork, disk
  <2>5. OnDisk' BY Zenon, <1>1, <2>2 DEF HonestInv, OnDisk, disk, Resting
  <2>6. Behind' /\ BelowEnd' BY Zenon, <1>1 DEF Behind, BelowEnd
  <2>7. QED BY Zenon, <2>2, <2>3, <2>5, <2>6 DEF HonestInv
<1>4. QED BY Zenon, <1>2, <1>3 DEF MainFlush

\* The file a crash leaves is the one the next run starts from.
LEMMA CrashHonest ==
  ASSUME HonestInv, Crash
  PROVE  HonestInv'
<1>1. /\ UNCHANGED <<bits, known, saved, lapse, disk>> /\ \A a \in Flushers : ~flush'[a].on
      /\ pc' = "off" /\ maxEnd' = 0 /\ wk' = [w \in Workers |-> Resting]
  BY Zenon DEF Crash, Die, Idle, Unwind
<1>2. Types' /\ AtWork' BY Zenon, <1>1 DEF HonestInv, Types, AtWork, disk, Resting, Labels
<1>3. Sized' BY Zenon, <1>1 DEF HonestInv, Sized, Reaches
<1>4. OnDisk' BY Zenon, <1>1 DEF HonestInv, OnDisk, Lost, Unread, disk, Resting
<1>5. Behind' /\ BelowEnd' BY Zenon, <1>1 DEF Behind, BelowEnd
<1>6. QED BY Zenon, <1>2, <1>3, <1>4, <1>5 DEF HonestInv

-----------------------------------------------------------------------------
(* The segment workers *)

\* What a worker's step cannot disturb: it is at the open file, the other
\* workers stay, and the tracker's memory only grows or stays.
LEMMA WorkerAt ==
  ASSUME HonestInv, NEW w \in Workers, pc = "work", wk[w].at \in Busy
  PROVE  /\ file \in Files /\ wk[w].seg \in SegsOf(file) /\ wk[w].seg \in Segs
         /\ wk[w].seg[1] = file /\ wk[w].seg[2] \in Nat
<1>1. file \in Files /\ wk[w].seg \in SegsOf(file) BY Zenon DEF HonestInv, AtWork
<1>2. QED BY Zenon, <1>1, SegFacts

\* Steps with which a worker is done with its segment.
LEMMA LeavesHonest ==
  ASSUME HonestInv, NEW w \in Workers, pc = "work", NEW label \in {"flush", "free", "out"},
         Leave(w, label), UNCHANGED <<tracker_vars, disk, maxEnd, pc, file>>, todo' \subseteq todo
  PROVE  HonestInv'
<1>1. /\ wk' \in [Workers -> [at : Labels, seg : Segs \cup {NoSeg}]]
      /\ wk'[w].at = label /\ wk'[w].at \notin Busy
      /\ \A v \in Workers : v # w => wk'[v] = wk[v]
  <2>1. label \in Labels /\ label \notin Busy BY DEF Labels, Busy
  <2>2. QED BY Zenon, <2>1, LeaveFacts DEF HonestInv
<1>2. Types' /\ AtWork'
  BY Zenon, <1>1 DEF HonestInv, Types, AtWork, Lost, Unread, tracker_vars, flushes, disk
<1>3. Sized' BY Zenon DEF HonestInv, Sized, Reaches, tracker_vars, flushes
<1>4. OnDisk' BY Zenon, <1>1 DEF HonestInv, OnDisk, Lost, Unread, Busy, tracker_vars, flushes, disk
<1>5. Behind' BY Zenon DEF HonestInv, Behind, Lost, Unread, tracker_vars, flushes
<1>6. BelowEnd' BY Zenon, <1>1 DEF HonestInv, BelowEnd, Busy, tracker_vars, flushes
<1>7. QED BY Zenon, <1>2, <1>3, <1>4, <1>5, <1>6 DEF HonestInv

\* A worker takes its segment from the channel of the open file.
LEMMA TakeSegmentHonest ==
  ASSUME HonestInv, NEW w \in Workers, TakeSegment(w)
  PROVE  HonestInv'
<1>1. /\ pc = "work" /\ UNCHANGED <<tracker_vars, disk, maxEnd, pc, file>>
  BY Zenon DEF TakeSegment, At, work_rest
<1>2. PICK s \in todo :
        /\ todo' = todo \ {s}
        /\ Leave(w, "out") \/ wk' = [wk EXCEPT ![w] = [at |-> "fetch", seg |-> s]]
  BY Zenon DEF TakeSegment
<1>3. CASE Leave(w, "out")
  <2>1. todo' \subseteq todo BY Zenon, <1>2
  <2>2. QED BY Zenon, <1>1, <1>3, <2>1, LeavesHonest
<1>4. CASE wk' = [wk EXCEPT ![w] = [at |-> "fetch", seg |-> s]]
  <2>3. s \in SegsOf(file) /\ s \in Segs BY Zenon, <1>1, SegFacts DEF HonestInv, AtWork
  <2>4. /\ wk' \in [Workers -> [at : Labels, seg : Segs \cup {NoSeg}]]
        /\ wk'[w].at = "fetch" /\ wk'[w].seg = s
        /\ \A v \in Workers : v # w => wk'[v] = wk[v]
    BY Zenon, <1>4, <2>3 DEF HonestInv, Types, Labels, Busy
  <2>5. Types' BY Zenon, <1>1, <2>4 DEF HonestInv, Types, tracker_vars, flushes, disk
  <2>6. AtWork'
    BY Zenon, <1>1, <1>2, <2>3, <2>4 DEF HonestInv, AtWork, Lost, Unread, tracker_vars, flushes, disk
  <2>7. Sized' /\ Behind'
    BY Zenon, <1>1 DEF HonestInv, Sized, Reaches, Behind, Lost, Unread, tracker_vars, flushes
  <2>8. OnDisk' BY Zenon, <1>1, <2>4 DEF HonestInv, OnDisk, Lost, Unread, tracker_vars, flushes, disk
  <2>9. BelowEnd' BY Zenon, <1>1, <2>4 DEF HonestInv, BelowEnd, tracker_vars, flushes
  <2>10. QED BY Zenon, <2>5, <2>6, <2>7, <2>8, <2>9 DEF HonestInv
<1>5. QED BY Zenon, <1>2, <1>3, <1>4

\* The bytes are in the data file before the segment may be marked.
LEMMA WriteAtHonest ==
  ASSUME HonestInv, NEW w \in Workers, WriteAt(w)
  PROVE  HonestInv'
<1>1. pc = "work" /\ wk[w].at = "fetch" /\ UNCHANGED <<tracker_vars, exists, size, todo, pc, file>>
  BY Zenon DEF WriteAt, At, work_rest
<1>2. CASE Leave(w, "out") /\ UNCHANGED <<written, maxEnd>>
  BY Zenon, <1>1, <1>2, LeavesHonest DEF disk
<1>3. CASE /\ written' = IF file \in exists THEN written \cup {wk[w].seg} ELSE written
           /\ maxEnd' = IF wk[w].seg[2] > maxEnd THEN wk[w].seg[2] ELSE maxEnd
           /\ Move(w, "note")
  <2>1. PICK s : s = wk[w].seg BY Zenon
  <2>2. file \in Files /\ s \in Segs /\ s \in SegsOf(file) /\ s[1] = file /\ s[2] \in Nat
    BY Zenon, <1>1, <2>1, WorkerAt DEF Busy
  <2>3. /\ wk' \in [Workers -> [at : Labels, seg : Segs \cup {NoSeg}]]
        /\ wk'[w].at = "note" /\ wk'[w].seg = s
        /\ \A v \in Workers : v # w => wk'[v] = wk[v]
    BY Zenon, <1>3, <2>1, MoveFacts DEF HonestInv, Labels, Busy
  <2>4. /\ maxEnd' \in Nat /\ maxEnd' >= maxEnd /\ maxEnd' >= s[2]
        /\ written \subseteq written' /\ written' \subseteq written \cup {s}
        /\ (file \in exists => s \in written') /\ (file \notin exists => written' = written)
    BY <1>3, <2>1, <2>2 DEF HonestInv, Types
  <2>5. Types'
    <3>1. written' \subseteq {t \in Segs : t[1] \in exists'}
      BY Zenon, <1>1, <2>2, <2>4 DEF HonestInv, Types
    <3>2. QED BY Zenon, <1>1, <2>3, <2>4, <3>1 DEF HonestInv, Types, tracker_vars, flushes
  <2>6. AtWork' BY Zenon, <1>1, <2>2, <2>3 DEF HonestInv, AtWork, Lost, Unread, tracker_vars, flushes
  <2>7. Sized' /\ Behind'
    BY Zenon, <1>1 DEF HonestInv, Sized, Reaches, Behind, Lost, Unread, tracker_vars, flushes
  <2>8. OnDisk'
    <3>1. ~Lost => s \in written' BY Zenon, <1>1, <2>4 DEF HonestInv, AtWork
    <3>2. QED BY Zenon, <1>1, <2>3, <2>4, <3>1 DEF HonestInv, OnDisk, Lost, Unread, tracker_vars, flushes
  <2>9. BelowEnd'
    <3>1. \A t \in bits' \cap SegsOf(file') : t[2] <= maxEnd'
      BY <1>1, <2>2, <2>4, SegFacts DEF HonestInv, Types, BelowEnd, tracker_vars, flushes
    <3>2. ASSUME NEW v \in Workers
          PROVE  /\ wk'[v].at \in {"note", "mark"} => wk'[v].seg[2] <= maxEnd'
                 /\ wk'[v].at = "mark" => wk'[v].seg[2] <= known'[file']
      <4>1. CASE v = w BY Zenon, <2>2, <2>3, <2>4, <4>1
      <4>2. CASE v # w /\ wk[v].at \in Busy
        <5>1. wk[v].seg[2] \in Nat /\ wk'[v] = wk[v] BY Zenon, <1>1, <2>3, <4>2, WorkerAt
        <5>2. QED BY <1>1, <2>4, <5>1 DEF HonestInv, Types, BelowEnd, tracker_vars, flushes
      <4>3. CASE v # w /\ wk[v].at \notin Busy BY Zenon, <2>3, <4>3 DEF Busy
      <4>4. QED BY Zenon, <4>1, <4>2, <4>3
    <3>3. QED BY Zenon, <3>1, <3>2 DEF BelowEnd
  <2>10. QED BY Zenon, <2>5, <2>6, <2>7, <2>8, <2>9 DEF HonestInv
<1>4. QED BY Zenon, <1>2, <1>3 DEF WriteAt

\* The size is noted before the segment is marked.
LEMMA NoteSizeHonest ==
  ASSUME HonestInv, NEW w \in Workers, NoteSize(w)
  PROVE  HonestInv'
<1>1. /\ pc = "work" /\ wk[w].at = "note" /\ Move(w, "mark")
      /\ UNCHANGED <<todo, maxEnd, disk, pc, file>>
      /\ NoteFileSize(file, wk[w].seg[2])
  BY Zenon DEF NoteSize, At, work_rest, local
<1>2. PICK s : s = wk[w].seg BY Zenon
<1>3. file \in Files /\ s \in Segs /\ s \in SegsOf(file) /\ s[1] = file /\ s[2] \in Nat
  BY Zenon, <1>1, <1>2, WorkerAt DEF Busy
<1>4. /\ wk' \in [Workers -> [at : Labels, seg : Segs \cup {NoSeg}]]
      /\ wk'[w].at = "mark" /\ wk'[w].seg = s
      /\ \A v \in Workers : v # w => wk'[v] = wk[v]
  BY Zenon, <1>1, <1>2, MoveFacts DEF HonestInv, Labels, Busy
<1>5. /\ UNCHANGED <<bits, flush, saved, lapse>> /\ known' \in [Files -> Nat]
      /\ \A f \in Files : known'[f] >= known[f]
      /\ known'[file] >= s[2]
  <2>1. known \in [Files -> Nat] BY Zenon DEF HonestInv, Types
  <2>2. QED BY <1>1, <1>2, <1>3, <2>1 DEF NoteFileSize, flushes
<1>6. Types' BY Zenon, <1>1, <1>4, <1>5 DEF HonestInv, Types, disk
<1>7. AtWork' BY Zenon, <1>1, <1>3, <1>4, <1>5 DEF HonestInv, AtWork, Lost, disk
<1>8. Sized'
  <2>1. ASSUME NEW t \in bits PROVE known'[t[1]] >= t[2]
    <3>1. t[1] \in Files /\ t[2] \in Nat /\ known[t[1]] >= t[2]
      BY Zenon, SegFacts DEF HonestInv, Types, Sized
    <3>2. known[t[1]] \in Nat /\ known'[t[1]] \in Nat /\ known'[t[1]] >= known[t[1]]
      BY Zenon, <1>5, <3>1 DEF HonestInv, Types
    <3>3. QED BY <3>1, <3>2
  <2>2. QED BY Zenon, <1>5, <2>1 DEF HonestInv, Sized, Reaches
<1>9. OnDisk' BY Zenon, <1>1, <1>2, <1>4, <1>5 DEF HonestInv, OnDisk, Lost, Unread, disk
<1>10. Behind' BY Zenon, <1>1, <1>5 DEF HonestInv, Behind, Lost, Unread, flushes
<1>11. BelowEnd'
  <2>1. ASSUME NEW v \in Workers
        PROVE  /\ wk'[v].at \in {"note", "mark"} => wk'[v].seg[2] <= maxEnd'
               /\ wk'[v].at = "mark" => wk'[v].seg[2] <= known'[file']
    <3>1. CASE v = w BY Zenon, <1>1, <1>2, <1>3, <1>4, <1>5, <3>1 DEF HonestInv, BelowEnd
    <3>2. CASE v # w /\ wk[v].at \in Busy
      <4>1. wk[v].seg[2] \in Nat /\ wk'[v] = wk[v] BY Zenon, <1>1, <1>4, <3>2, WorkerAt
      <4>2. known[file] \in Nat /\ known'[file] \in Nat /\ known'[file] >= known[file]
        BY Zenon, <1>3, <1>5 DEF HonestInv, Types
      <4>3. QED BY <1>1, <4>1, <4>2 DEF HonestInv, BelowEnd
    <3>3. CASE v # w /\ wk[v].at \notin Busy BY Zenon, <1>4, <3>3 DEF Busy
    <3>4. QED BY Zenon, <3>1, <3>2, <3>3
  <2>2. QED BY Zenon, <1>1, <1>5, <2>1 DEF HonestInv, BelowEnd
<1>12. QED BY Zenon, <1>6, <1>7, <1>8, <1>9, <1>10, <1>11 DEF HonestInv

\* A marked segment is on disk, and the noted size reaches it.
LEMMA MarkHonest ==
  ASSUME HonestInv, NEW w \in Workers, Mark(w)
  PROVE  HonestInv'
<1>1. /\ pc = "work" /\ wk[w].at = "mark" /\ UNCHANGED <<todo, maxEnd, disk, pc, file>>
      /\ bits' = bits \cup {wk[w].seg} /\ UNCHANGED <<known, flush, saved, lapse>>
  BY Zenon DEF Mark, MarkDone, flushes, At, work_rest, local
<1>2. PICK s : s = wk[w].seg BY Zenon
<1>3. /\ file \in Files /\ s \in Segs /\ s \in SegsOf(file) /\ s[1] = file /\ s[2] \in Nat
      /\ s[2] <= maxEnd /\ s[2] <= known[file] /\ (~Lost => s \in written)
  <2>1. file \in Files /\ s \in Segs /\ s \in SegsOf(file) /\ s[1] = file /\ s[2] \in Nat
    BY Zenon, <1>1, <1>2, WorkerAt DEF Busy
  <2>2. QED BY Zenon, <1>1, <1>2, <2>1 DEF HonestInv, BelowEnd, OnDisk
<1>4. PICK label \in {"free", "flush"} : Leave(w, label) BY Zenon DEF Mark
<1>5. /\ wk' \in [Workers -> [at : Labels, seg : Segs \cup {NoSeg}]]
      /\ wk'[w].at \in {"free", "flush"} /\ wk'[w].at \notin Busy
      /\ \A v \in Workers : v # w => wk'[v] = wk[v]
  <2>1. label \in Labels /\ label \notin Busy BY DEF Labels, Busy
  <2>2. QED BY Zenon, <1>4, <2>1, LeaveFacts DEF HonestInv
<1>6. Types'
  <2>1. bits' \subseteq Segs BY Zenon, <1>1, <1>2, <1>3 DEF HonestInv, Types
  <2>2. QED BY Zenon, <1>1, <1>5, <2>1 DEF HonestInv, Types, disk
<1>7. AtWork' BY Zenon, <1>1, <1>3, <1>5 DEF HonestInv, AtWork, Lost, disk
<1>8. Sized' BY Zenon, <1>1, <1>2, <1>3 DEF HonestInv, Types, Sized, Reaches
<1>9. OnDisk'
  <2>1. ~Lost => bits' \subseteq written BY Zenon, <1>1, <1>2, <1>3 DEF HonestInv, OnDisk
  <2>2. QED BY Zenon, <1>1, <1>5, <2>1 DEF HonestInv, OnDisk, Lost, Unread, disk
<1>10. Behind' BY Zenon, <1>1 DEF HonestInv, Behind, Lost, Unread, flushes
<1>11. BelowEnd' BY Zenon, <1>1, <1>2, <1>3, <1>5 DEF HonestInv, BelowEnd
<1>12. QED BY Zenon, <1>6, <1>7, <1>8, <1>9, <1>10, <1>11 DEF HonestInv

\* tryFlush of a worker writes a snapshot of an honest memory.
LEMMA WorkerFlushHonest ==
  ASSUME HonestInv, FlushInv, NEW w \in Workers, WorkerFlush(w)
  PROVE  HonestInv'
<1>1. /\ pc = "work" /\ wk[w].at = "flush" /\ UNCHANGED <<todo, maxEnd, disk, pc, file>>
      /\ UNCHANGED wk \/ Leave(w, "free")
  BY Zenon DEF WorkerFlush, At, work_rest, local
<1>2. CASE UNCHANGED tracker_vars /\ Leave(w, "free")
  BY Zenon, <1>1, <1>2, LeavesHonest
<1>3. CASE FlushBegin(w) \/ FlushEnd(w)
  <2>1. w \in Flushers BY Zenon, DownloadAssumption
  <2>2. /\ UNCHANGED <<bits, known>> /\ (Lost' <=> Lost) /\ Sized'
        /\ ~Lost =>
             /\ Unread' \/ saved'.bits \subseteq written
             /\ \A b \in Flushers : flush'[b].on => flush'[b].rec.bits \subseteq written
             /\ Unread' \/ saved'.bits \subseteq bits
             /\ \A b \in Flushers : flush'[b].on => flush'[b].rec.bits \subseteq bits
    BY Zenon, <1>1, <1>3, <2>1, FlushHonest
  <2>3. /\ wk' \in [Workers -> [at : Labels, seg : Segs \cup {NoSeg}]]
        /\ wk'[w].at \in {"free", "flush"}
        /\ \A v \in Workers : v # w => wk'[v] = wk[v]
    <3>1. "free" \in Labels BY DEF Labels
    <3>2. QED BY Zenon, <1>1, <3>1, LeaveFacts DEF HonestInv, Types
  <2>4. Types' BY Zenon, <1>1, <2>2, <2>3 DEF HonestInv, Types, disk
  <2>5. AtWork' BY Zenon, <1>1, <2>2, <2>3 DEF HonestInv, AtWork, Busy, disk
  <2>7. OnDisk' BY Zenon, <1>1, <2>2, <2>3 DEF HonestInv, OnDisk, disk
  <2>8. Behind' BY Zenon, <2>2 DEF Behind
  <2>9. BelowEnd' BY Zenon, <1>1, <2>2, <2>3 DEF HonestInv, BelowEnd
  <2>10. QED BY Zenon, <2>2, <2>4, <2>5, <2>7, <2>8, <2>9 DEF HonestInv
<1>4. QED BY Zenon, <1>2, <1>3 DEF WorkerFlush

\* Whatever a worker does, the record stays honest.
LEMMA WorkerHonest ==
  ASSUME HonestInv, FlushInv, NEW w \in Workers, Worker(w)
  PROVE  HonestInv'
<1>1. CASE SegmentFails(w)
  <2>1. pc = "work" /\ (Leave(w, "out") \/ Leave(w, "free"))
        /\ UNCHANGED <<tracker_vars, disk, maxEnd, todo, pc, file>>
    BY Zenon, <1>1 DEF SegmentFails, At, work_rest
  <2>2. QED BY Zenon, <2>1, LeavesHonest
<1>2. QED
  BY Zenon, <1>1, TakeSegmentHonest, WriteAtHonest, NoteSizeHonest, MarkHonest,
     WorkerFlushHonest DEF Worker

-----------------------------------------------------------------------------
(* The theorem *)

\* Nothing is recorded and nothing is on disk.
LEMMA InitHonest ==
  ASSUME Init
  PROVE  HonestInv
<1>1. /\ bits = {} /\ known = [f \in Files |-> 0] /\ \A a \in Flushers : ~flush[a].on
      /\ saved.bits = {} /\ saved.known = [f \in Files |-> 0]
      /\ exists = {} /\ written = {} /\ maxEnd = 0 /\ pc = "off"
      /\ wk = [w \in Workers |-> Resting]
  BY Zenon DEF Init, TrackerInit, Empty, Sizes, Idle
<1>2. Types /\ AtWork BY Zenon, <1>1 DEF Types, AtWork, Resting, Labels
<1>3. Sized /\ OnDisk /\ Behind /\ BelowEnd
  BY <1>1 DEF Sized, Reaches, OnDisk, Behind, BelowEnd, Resting
<1>4. QED BY Zenon, <1>2, <1>3 DEF HonestInv

\* One step per action; the steps that touch neither the record nor the data
\* files, those that lose the data and those that delete the record are
\* instances of the three lemmas above.
LEMMA NextHonest ==
  ASSUME HonestInv, FlushInv, Next
  PROVE  HonestInv'
<1>1. pc # "work" => wk = [w \in Workers |-> Resting]
  BY Zenon DEF HonestInv, AtWork, Types
<1>2. CASE \/ Setup \/ Fail \/ SkipDone \/ Condemn \/ ExtractFails
         \/ NothingToExtract \/ SyncFails
  <2>1. /\ UNCHANGED <<tracker_vars, disk, wk>> /\ maxEnd' \in {maxEnd, 0} /\ pc \notin {"work", "off"}
        /\ pc' \notin {"work", "setup", "off"}
        /\ pc' = "next" => pc \in {"setup", "next"}
    BY Zenon, <1>2 DEF Setup, Fail, SkipDone, AtFile, Condemn, AllFetched, ExtractFails,
                NothingToExtract, AfterProcess, SyncFails, local, Unwind
  <2>2. QED BY Zenon, <1>1, <2>1, ElsewhereHonest
<1>3. CASE Pause \/ Cancel
  <2>1. UNCHANGED <<tracker_vars, disk, maxEnd, pc, file, todo, wk>>
    BY Zenon, <1>3 DEF Pause, Cancel, local
  <2>2. QED BY Zenon, <2>1, ElsewhereHonest
<1>4. CASE StopFile \/ CutFails
  <2>1. /\ UNCHANGED <<tracker_vars, disk>> /\ maxEnd' = 0 /\ pc = "work"
        /\ pc' \in {"flush", "defer"} /\ wk' = [w \in Workers |-> Resting]
    BY Zenon, <1>4 DEF StopFile, CutFails, Joined, Unwind
  <2>2. QED BY Zenon, <2>1, ElsewhereHonest
<1>5. CASE ExtractArchive \/ RemoveFolder \/ Wipe
  <2>1. /\ LoseData /\ exists' = {} /\ written' = {} /\ UNCHANGED <<maxEnd, wk>>
        /\ UNCHANGED <<pc, file, todo>> \/ (pc # "work" /\ pc' # "work")
    BY Zenon, <1>5 DEF ExtractArchive, AfterProcess, RemoveFolder, Wipe, local, run_vars
  <2>2. QED BY Zenon, <2>1, LoseDataHonest
<1>6. CASE Finish \/ CancelRemoves
  <2>1. /\ Remove \/ RemoveStale
        /\ UNCHANGED <<disk, wk>>
        /\ \/ UNCHANGED <<pc, file, todo, maxEnd>>
           \/ pc = "sync" /\ pc' = "defer" /\ maxEnd' = 0
    BY Zenon, <1>6 DEF Finish, CancelRemoves, local, Unwind
  <2>2. QED BY Zenon, <2>1, RemoveHonest
<1>7. QED
  BY Zenon, <1>2, <1>3, <1>4, <1>5, <1>6, StartHonest, ForgetGoneHonest, OpenFileHonest,
     CloseFileHonest, CorruptHonest, AcceptHonest, MainFlushHonest, CrashHonest,
     WorkerHonest DEF Next, Download

\* The invariant is inductive.
LEMMA StepHonest == HonestInv /\ FlushInv /\ [Next]_vars => HonestInv'
<1> SUFFICES ASSUME HonestInv, FlushInv, [Next]_vars PROVE HonestInv' BY Zenon
<1>1. CASE UNCHANGED vars
  <2>1. UNCHANGED <<tracker_vars, disk, maxEnd, pc, file, todo, wk>>
    BY Zenon, <1>1 DEF vars, run_vars, local
  <2>2. QED BY Zenon, <2>1, ElsewhereHonest
<1>2. QED BY Zenon, <1>1, NextHonest

\* A corrupt verdict names files of the download.
Named == damaged \subseteq Files

\* Only Condemn names files; a call that returns or dies forgets them.
LEMMA StaysNamed == Named /\ [Next]_vars => Named'
<1> SUFFICES ASSUME Named, [Next]_vars PROVE Named' BY Zenon
<1>1. CASE Condemn BY Zenon, <1>1 DEF Condemn, Named
<1>2. CASE \/ Start \/ Setup \/ Fail \/ SkipDone \/ ForgetGone \/ OpenFile \/ StopFile
         \/ CutFails \/ CloseFile \/ Accept \/ ExtractFails \/ ExtractArchive
         \/ NothingToExtract \/ Corrupt \/ SyncFails \/ Finish
  BY Zenon, <1>2 DEF Named, Start, Setup, Fail, SkipDone, ForgetGone, OpenFile, StopFile,
     CutFails, CloseFile, Accept, ExtractFails, ExtractArchive, NothingToExtract, Corrupt,
     SyncFails, Finish, Unwind, local, run_vars
<1>3. CASE MainFlush BY Zenon, <1>3 DEF Named, MainFlush, local
<1>4. CASE Pause \/ Cancel \/ CancelRemoves \/ RemoveFolder \/ Wipe \/ Crash
  BY Zenon, <1>4 DEF Named, Pause, Cancel, CancelRemoves, RemoveFolder, Wipe, Crash,
     Unwind, local, run_vars
<1>5. CASE \E w \in Workers : Worker(w)
  BY Zenon, <1>5 DEF Named, Worker, TakeSegment, SegmentFails, WriteAt, NoteSize,
     Mark, WorkerFlush, local
<1>6. CASE UNCHANGED vars BY Zenon, <1>6 DEF Named, vars, run_vars, local
<1>7. QED BY Zenon, <1>1, <1>2, <1>3, <1>4, <1>5, <1>6 DEF Next, Download

\* The steps of a download are steps of the tracker it owns.
LEMMA DownloadTracks ==
  ASSUME HonestInv, Named, Next
  PROVE  TrackerNext \/ UNCHANGED tracker_vars
<1>1. CASE Start BY Zenon, <1>1 DEF Start, TrackerNext
<1>2. CASE ForgetGone
  BY Zenon, <1>2 DEF ForgetGone, AtFile, TrackerNext
<1>3. CASE Corrupt
  BY Zenon, <1>3 DEF Corrupt, Named, TrackerNext
<1>4. CASE ExtractArchive \/ RemoveFolder \/ Wipe
  BY Zenon, <1>4 DEF ExtractArchive, RemoveFolder, Wipe, TrackerNext
<1>5. CASE Finish \/ CancelRemoves
  BY Zenon, <1>5 DEF Finish, CancelRemoves, TrackerNext
<1>6. CASE MainFlush
  <2>1. Main \in Flushers BY Zenon, DownloadAssumption
  <2>2. QED BY Zenon, <1>6, <2>1 DEF MainFlush, TrackerNext
<1>7. CASE Crash BY Zenon, <1>7 DEF Crash, TrackerNext
<1>8. CASE \/ Setup \/ Fail \/ SkipDone \/ OpenFile \/ StopFile \/ CutFails \/ CloseFile
         \/ Condemn \/ Accept \/ ExtractFails \/ NothingToExtract \/ SyncFails \/ Pause \/ Cancel
  BY Zenon, <1>8 DEF Setup, Fail, SkipDone, OpenFile, StopFile, CutFails, CloseFile, Condemn,
              Accept, ExtractFails, NothingToExtract, SyncFails, Pause, Cancel
<1>9. ASSUME NEW w \in Workers, Worker(w)
      PROVE  TrackerNext \/ UNCHANGED tracker_vars
  <2>1. CASE NoteSize(w) \/ Mark(w)
    <3>1. pc = "work" /\ wk[w].at \in Busy
      BY Zenon, <2>1 DEF NoteSize, Mark, At, Busy
    <3>2. PICK s : s = wk[w].seg BY Zenon
    <3>3. s \in Segs /\ s[1] = file BY Zenon, <3>1, <3>2, WorkerAt
    <3>4. NoteFileSize(s[1], s[2]) \/ MarkDone(s)
      BY Zenon, <2>1, <3>2, <3>3 DEF NoteSize, Mark
    <3>5. QED BY Zenon, <3>3, <3>4 DEF TrackerNext
  <2>2. CASE WorkerFlush(w)
    <3>1. w \in Flushers BY Zenon, DownloadAssumption
    <3>2. QED BY Zenon, <2>2, <3>1 DEF WorkerFlush, TrackerNext
  <2>3. CASE TakeSegment(w) \/ SegmentFails(w) \/ WriteAt(w)
    BY Zenon, <2>3 DEF TakeSegment, SegmentFails, WriteAt
  <2>4. QED BY Zenon, <1>9, <2>1, <2>2, <2>3 DEF Worker
<1>10. QED
  BY Zenon, <1>1, <1>2, <1>3, <1>4, <1>5, <1>6, <1>7, <1>8, <1>9 DEF Next, Download

\* What holds always, for the proofs below to build on.
Base == HonestInv /\ FlushInv /\ Named

\* Nobody holds the mutex at first.
LEMMA InitSerial == TrackerInit => FlushInv
<1>1. DOMAIN Empty = Fields /\ Idle.rec = Empty /\ ~Idle.on BY DEF Empty, Idle, Fields
<1>2. QED BY Zenon, <1>1, TrackerAssumption DEF TrackerInit, FlushInv

\* The three go together.
LEMMA StepBase == Base /\ [Next]_vars => Base'
<1> SUFFICES ASSUME Base, [Next]_vars PROVE Base' BY Zenon
<1>1. HonestInv' /\ Named' BY Zenon, StepHonest, StaysNamed DEF Base
<1>2. CASE UNCHANGED vars
  <2>1. UNCHANGED <<flushMu, flush, saved>> BY Zenon, <1>2 DEF vars, tracker_vars, flushes
  <2>2. FlushInv' BY Zenon, <2>1 DEF Base, FlushInv
  <2>3. QED BY Zenon, <1>1, <2>2 DEF Base
<1>3. CASE Next
  <2>1. CASE TrackerNext BY Zenon, <1>1, <2>1, StaysSerial DEF Base
  <2>2. CASE UNCHANGED tracker_vars
    <3>1. UNCHANGED <<flushMu, flush, saved>> BY Zenon, <2>2 DEF tracker_vars, flushes
    <3>2. QED BY Zenon, <1>1, <3>1 DEF Base, FlushInv
  <2>3. QED BY Zenon, <1>3, <2>1, <2>2, DownloadTracks DEF Base
<1>4. QED BY Zenon, <1>2, <1>3

\* The base of the proofs about downloads.
LEMMA BaseHolds == Spec => []Base
<1>1. Init => Base BY Zenon, InitHonest, InitSerial DEF Init, Base, Named
<1>2. QED BY <1>1, StepBase, PTL DEF Spec

\* The progress file never vouches for bytes that are not in the data files, and
\* the size it records reaches every segment it vouches for, for any number of
\* files, segments, workers, attempts, pauses, cancels and crashes, with the two
\* exceptions that RecordIsHonest states.
THEOREM RecordHonest == Spec => []RecordIsHonest
<1>1. HonestInv => RecordIsHonest
  BY Zenon DEF HonestInv, OnDisk, Sized, Reaches, Lost, Unread, RecordIsHonest
<1>2. QED BY BaseHolds, <1>1, PTL DEF Base

-----------------------------------------------------------------------------
(* The record never goes back *)

\* The progress file is not ahead of a snapshot that is being written, nor the
\* snapshot of the memory.
RevInv ==
    /\ rev \in Nat /\ saved.rev \in Nat /\ saved.rev <= rev
    /\ \A a \in Flushers : flush[a].on =>
         /\ flush[a].rec.rev \in Nat
         /\ saved.rev <= flush[a].rec.rev /\ flush[a].rec.rev <= rev

\* A step of the tracker preserves this order and is a step of the register.
LEMMA TrackerStep ==
  ASSUME FlushInv, RevInv, TrackerNext
  PROVE  RevInv' /\ (Record!Next \/ UNCHANGED <<rev, saved.rev>>)
<1> USE DEF RevInv, Record!Next
<1>1. CASE Load
  <2>1. /\ rev' = (IF saved.rev = 0 THEN 0 ELSE 1) /\ saved' = [saved EXCEPT !.rev = rev']
        /\ flush' = [a \in Flushers |-> Idle]
    BY Zenon, <1>1 DEF Load, LoadRecord, LoadFresh, NewMemory
  <2>2. saved'.rev = rev' BY <2>1 DEF FlushInv, Fields
  <2>3. \A a \in Flushers : ~flush'[a].on BY Zenon, <2>1 DEF Idle
  <2>4. QED BY <2>1, <2>2, <2>3 DEF Record!Reload
<1>2. CASE Remove \/ RemoveStale
  <2>1. saved' = Empty /\ UNCHANGED <<rev, flush>> BY Zenon, <1>2 DEF Remove, RemoveStale, flushes
  <2>2. saved'.rev = 0 BY <2>1 DEF Empty
  <2>3. QED BY <2>1, <2>2 DEF Record!Forget
<1>3. CASE LoseData BY Zenon, <1>3 DEF LoseData, flushes
<1>4. CASE Die BY Zenon, <1>4 DEF Die, Idle
<1>5. CASE UNCHANGED <<flushes, saved>> /\ (TurnDirty \/ UNCHANGED rev)
  <2>1. rev' \in {rev, rev + 1} /\ UNCHANGED <<flush, saved>>
    BY <1>5 DEF TurnDirty, flushes
  <2>2. QED BY <2>1 DEF Record!Change
<1>6. CASE \/ \E s \in Segs : NoteFileSize(s[1], s[2]) \/ MarkDone(s)
         \/ \E F \in SUBSET Files : ResetFiles(F)
  BY Zenon, <1>5, <1>6 DEF NoteFileSize, MarkDone, ResetFiles
<1>7. ASSUME NEW a \in Flushers, FlushBegin(a)
      PROVE  RevInv' /\ UNCHANGED <<rev, saved.rev>>
  <2>1. UNCHANGED <<rev, saved>> /\ flush' = [flush EXCEPT ![a] = Snapshot]
    BY Zenon, <1>7 DEF FlushBegin
  <2>2. flush'[a] = Snapshot /\ \A b \in Flushers : b # a => flush'[b] = flush[b]
    BY Zenon, <2>1, FlushFacts DEF FlushInv
  <2>3. Snapshot.rec.rev = rev BY Zenon DEF Snapshot
  <2>4. \A b \in Flushers : flush'[b].on =>
           /\ flush'[b].rec.rev \in Nat
           /\ saved.rev <= flush'[b].rec.rev /\ flush'[b].rec.rev <= rev
    BY <2>2, <2>3
  <2>5. QED BY Zenon, <2>1, <2>4
<1>8. ASSUME NEW a \in Flushers, FlushEnd(a)
      PROVE  RevInv' /\ Record!Save
  <2>1. /\ UNCHANGED rev /\ flush[a].on /\ flush' = [flush EXCEPT ![a] = Idle]
        /\ saved' = flush[a].rec \/ saved' = saved
    BY Zenon, <1>8 DEF FlushEnd
  <2>2. flush'[a] = Idle /\ \A b \in Flushers : b # a => flush'[b] = flush[b]
    BY Zenon, <2>1, FlushFacts DEF FlushInv
  <2>3. \A b \in Flushers : ~flush'[b].on BY Zenon, <2>1, <2>2 DEF FlushInv, Idle
  <2>4. saved'.rev \in Nat /\ saved.rev <= saved'.rev /\ saved'.rev <= rev BY <2>1
  <2>5. QED BY <2>1, <2>3, <2>4 DEF Record!Save
<1>9. QED BY Zenon, <1>1, <1>2, <1>3, <1>4, <1>6, <1>7, <1>8 DEF TrackerNext

\* Whoever flushes, and however their I/O overlaps, fails or is cut short, the
\* progress file implements the register of SavedRevision.
THEOREM TrackerInOrder == TrackerSpec => SavedInOrder
<1>1. TrackerInit => FlushInv /\ RevInv /\ Record!Init
  <2>1. TrackerInit => RevInv /\ Record!Init
    BY DEF TrackerInit, Empty, Idle, RevInv, Record!Init
  <2>2. QED BY Zenon, <2>1, InitSerial
<1>2. FlushInv /\ RevInv /\ [TrackerNext]_tracker_vars
        => FlushInv' /\ RevInv' /\ [Record!Next]_<<rev, saved.rev>>
  <2> SUFFICES ASSUME FlushInv, RevInv, [TrackerNext]_tracker_vars
               PROVE  FlushInv' /\ RevInv' /\ [Record!Next]_<<rev, saved.rev>>
    BY Zenon
  <2>1. CASE UNCHANGED tracker_vars
    <3>1. UNCHANGED <<rev, flushMu, flush, saved>> BY Zenon, <2>1 DEF tracker_vars, flushes
    <3>2. FlushInv' /\ RevInv' BY Zenon, <3>1 DEF FlushInv, RevInv
    <3>3. QED BY Zenon, <3>1, <3>2
  <2>2. QED BY Zenon, <2>1, TrackerStep, StaysSerial
<1>3. QED BY <1>1, <1>2, PTL DEF TrackerSpec, SavedInOrder, Record!Spec

\* The same for the record of a download: across workers, pauses, cancels,
\* retries and crashes the progress file never goes back to an older state of
\* the memory, except that it is deleted as a whole.
THEOREM DownloadInOrder == Spec => SavedInOrder
<1>1. Base /\ [Next]_vars => [TrackerNext]_tracker_vars
  BY Zenon, DownloadTracks DEF Base, vars
<1>2. Init => TrackerInit BY Zenon DEF Init
<1>3. Spec => TrackerSpec
  BY BaseHolds, <1>1, <1>2, PTL DEF Spec, TrackerSpec
<1>4. QED BY <1>3, TrackerInOrder, PTL

-----------------------------------------------------------------------------
\* A clean memory is on disk, or in the snapshot that is being written; a download
\* that succeeded has nothing left to do but to return.
SavedClean ==
    /\ outcome = "ok" => pc \in {"defer", "off"}
    /\ pc # "off" /\ ~dirty => \A a \in Flushers : flush[a].on => flush[a].rec.bits = bits
    /\ CleanMeansSaved

\* A flush takes a snapshot of the memory, saves it or says that it did not.
LEMMA FlushClean ==
  ASSUME FlushInv, SavedClean, NEW a \in Flushers, FlushBegin(a) \/ FlushEnd(a),
         UNCHANGED <<outcome, canc>>, pc # "off", pc' # "off", outcome = "ok" => pc' = "defer"
  PROVE  SavedClean'
<1>1. CASE FlushBegin(a)
  <2>1. flushMu = Nobody /\ flushMu' = a /\ flush' = [flush EXCEPT ![a] = Snapshot] /\ UNCHANGED bits
    BY <1>1, Zenon DEF FlushBegin
  <2>2. flush'[a] = Snapshot /\ \A b \in Flushers : b # a => flush'[b] = flush[b]
    BY <2>1, FlushFacts, Zenon DEF FlushInv
  <2>3. a # Nobody /\ Snapshot.rec.bits = bits BY TrackerAssumption, Zenon DEF Snapshot
  <2>4. \A b \in Flushers : flush'[b].on => b = a BY <2>1, <2>2, TrackerAssumption, Zenon DEF FlushInv
  <2>5. QED BY <2>1, <2>2, <2>3, <2>4, Zenon DEF SavedClean, CleanMeansSaved
<1>2. CASE FlushEnd(a)
  <2>1. flush[a].on /\ flushMu' = Nobody /\ flush' = [flush EXCEPT ![a] = Idle] /\ UNCHANGED bits
    BY <1>2, Zenon DEF FlushEnd
  <2>2. flush'[a] = Idle /\ \A b \in Flushers : b # a => flush'[b] = flush[b]
    BY <2>1, FlushFacts, Zenon DEF FlushInv
  <2>3. \A b \in Flushers : ~flush'[b].on BY <2>1, <2>2, Zenon DEF FlushInv, Idle
  <2>4. CASE saved' = flush[a].rec /\ UNCHANGED dirty
    <3>1. ~dirty => saved'.bits = bits' BY <2>1, <2>4, Zenon DEF SavedClean
    <3>2. QED BY <2>3, <2>4, <3>1, Zenon DEF SavedClean, CleanMeansSaved
  <2>5. CASE dirty' = TRUE BY <2>5, Zenon DEF SavedClean, CleanMeansSaved
  <2>6. CASE lapse' = lapse \cup {"mkdir"} BY <2>3, <2>6, Zenon DEF SavedClean, CleanMeansSaved
  <2>7. QED BY <1>2, <2>4, <2>5, <2>6, Zenon DEF FlushEnd
<1>3. QED BY <1>1, <1>2, Zenon

\* Every step keeps a clean memory on disk.
LEMMA StaysClean == FlushInv /\ SavedClean /\ [Next]_vars => SavedClean'
<1> SUFFICES ASSUME FlushInv, SavedClean, [Next]_vars PROVE SavedClean' BY Zenon
<1> USE DEF CleanMeansSaved
<1>1. CASE Start
  <2>1. /\ outcome' = "none" /\ pc' = "setup" /\ flush' = [a \in Flushers |-> Idle]
        /\ saved' = [saved EXCEPT !.rev = rev']
        /\ bits' = saved.bits \/ (bits' = {} /\ lapse' = (lapse \ {"mkdir"}) \cup {"unread"})
    BY <1>1, Zenon DEF Start, Load, LoadRecord, LoadFresh, NewMemory
  <2>2. saved'.bits = saved.bits BY <2>1 DEF FlushInv, Fields
  <2>3. \A a \in Flushers : ~flush'[a].on BY <2>1, Zenon DEF Idle
  <2>4. bits' \subseteq saved'.bits /\ ("unread" \notin lapse' => saved'.bits \subseteq bits')
    BY <2>1, <2>2, Zenon
  <2>5. outcome' # "ok" BY <2>1
  <2>6. QED BY <2>3, <2>4, <2>5, Zenon DEF SavedClean
<1>2. CASE \/ Setup \/ Fail \/ SkipDone \/ OpenFile \/ StopFile \/ CutFails \/ CloseFile
         \/ Condemn \/ Accept \/ ExtractFails \/ NothingToExtract \/ SyncFails
  <2>1. pc \notin {"defer", "off"} /\ outcome' # "ok" /\ UNCHANGED <<tracker_vars, canc>>
    BY <1>2 DEF SavedClean, Setup, Fail, SkipDone, OpenFile, StopFile, CutFails, CloseFile, Condemn,
         Accept, ExtractFails, NothingToExtract, SyncFails, AtFile, Joined, AllFetched, call, result
  <2>2. outcome # "ok" BY <2>1, Zenon DEF SavedClean
  <2>3. QED BY <2>1, <2>2, Zenon DEF SavedClean, tracker_vars, flushes
<1>3. CASE Pause \/ Cancel
  <2>1. UNCHANGED <<tracker_vars, pc, outcome>> /\ (canc = "no" \/ UNCHANGED canc)
    BY <1>3, Zenon DEF Pause, Cancel, call, result
  <2>2. QED BY <2>1, Zenon DEF SavedClean, tracker_vars, flushes
<1>4. CASE ForgetGone \/ Corrupt
  <2>1. dirty' = TRUE /\ outcome' # "ok"
    BY <1>4 DEF ForgetGone, Corrupt, ResetFiles, TurnDirty, SavedClean, AtFile, run_vars, result
  <2>2. QED BY <2>1, Zenon DEF SavedClean
<1>5. CASE Finish
  <2>1. outcome' = "ok" /\ pc' = "defer" /\ flushMu = Nobody /\ UNCHANGED flush
    BY <1>5, Zenon DEF Finish, Remove, flushes
  <2>2. \A a \in Flushers : ~flush'[a].on BY <2>1, TrackerAssumption, Zenon DEF FlushInv
  <2>3. QED BY <2>1, <2>2, Zenon DEF SavedClean
<1>6. CASE CancelRemoves
  <2>1. canc' = "rmdir" /\ UNCHANGED <<outcome, pc, flush, bits>> /\ (flushMu = Nobody \/ UNCHANGED dirty)
    BY <1>6, Zenon DEF CancelRemoves, Remove, RemoveStale, flushes, result
  <2>2. flushMu = Nobody => \A a \in Flushers : ~flush[a].on BY TrackerAssumption, Zenon DEF FlushInv
  <2>3. canc' \notin {"no", "remove", "removeOld"} BY <2>1
  <2>4. QED BY <2>1, <2>2, <2>3, Zenon DEF SavedClean
<1>7. CASE ExtractArchive
  <2>1. outcome # "ok" /\ pc # "off" /\ UNCHANGED <<outcome, canc>>
    BY <1>7 DEF ExtractArchive, SavedClean, call, result
  <2>2. UNCHANGED <<bits, dirty, flushMu, flush, saved>> /\ lapse \subseteq lapse' /\ lapse' \subseteq lapse \cup {"lost"}
    BY <1>7, Zenon DEF ExtractArchive, LoseData, flushes
  <2>3. "unread" \in lapse' => "unread" \in lapse BY <2>2
  <2>4. QED BY <2>1, <2>2, <2>3, Zenon DEF SavedClean
<1>8. CASE RemoveFolder
  <2>1. canc' = "done" /\ UNCHANGED <<outcome, pc, bits, dirty, flush>>
    BY <1>8, Zenon DEF RemoveFolder, LoseData, result, flushes
  <2>2. canc' \notin {"no", "remove", "removeOld"} BY <2>1
  <2>3. QED BY <2>1, <2>2, Zenon DEF SavedClean
<1>9. CASE Wipe \/ Crash
  <2>1. pc' = "off" BY <1>9, Zenon DEF Wipe, Crash, run_vars
  <2>2. QED BY <2>1, Zenon DEF SavedClean
<1>10. CASE MainFlush
  <2>1. Main \in Flushers BY DownloadAssumption, Zenon
  <2>2. UNCHANGED <<outcome, canc>> /\ pc \in {"flush", "defer"}
    BY <1>10, Zenon DEF MainFlush, call, result
  <2>3. pc # "off" /\ (outcome = "ok" => pc = "defer") BY <2>2 DEF SavedClean
  <2>4. CASE pc' = "off" BY <2>4, Zenon DEF SavedClean
  <2>5. CASE FlushBegin(Main) /\ UNCHANGED pc BY <2>1, <2>2, <2>3, <2>5, FlushClean
  <2>6. CASE AfterFlush /\ pc' # "off"
    <3>1. pc = "flush" /\ pc' = "defer" BY <2>6, Zenon DEF AfterFlush
    <3>2. outcome # "ok" BY <2>3, <3>1
    <3>3. CASE FlushEnd(Main) BY <2>1, <2>2, <2>3, <3>1, <3>2, <3>3, FlushClean
    <3>4. CASE UNCHANGED tracker_vars BY <2>2, <2>3, <3>2, <3>4, Zenon DEF SavedClean, tracker_vars, flushes
    <3>5. CASE FlushBegin(Main) /\ UNCHANGED pc BY <2>5, <3>5, Zenon
    <3>6. QED BY <1>10, <3>3, <3>4, <3>5, Zenon DEF MainFlush
  <2>7. QED BY <1>10, <2>4, <2>5, <2>6, Zenon DEF MainFlush
<1>11. ASSUME NEW w \in Workers, Worker(w) PROVE SavedClean'
  <2>1. pc = "work" /\ pc' = "work" /\ UNCHANGED <<outcome, canc>>
    BY <1>11, Zenon DEF Worker, TakeSegment, SegmentFails, WriteAt, NoteSize, Mark, WorkerFlush, At,
       work_rest
  <2>2. outcome # "ok" BY <2>1 DEF SavedClean
  <2>3. CASE UNCHANGED tracker_vars BY <2>1, <2>2, <2>3, Zenon DEF SavedClean, tracker_vars, flushes
  <2>4. CASE NoteSize(w) \/ Mark(w)
    <3>1. dirty' = TRUE \/ UNCHANGED <<bits, dirty, flushMu, flush, saved, lapse>>
      BY <2>4, Zenon DEF NoteSize, Mark, NoteFileSize, MarkDone, TurnDirty, flushes
    <3>2. QED BY <2>1, <2>2, <3>1, Zenon DEF SavedClean
  <2>5. CASE FlushBegin(w) \/ FlushEnd(w)
    <3>1. w \in Flushers BY DownloadAssumption, Zenon
    <3>2. QED BY <2>1, <2>2, <2>5, <3>1, FlushClean
  <2>6. QED
    BY <1>11, <2>3, <2>4, <2>5, Zenon DEF Worker, WorkerFlush, TakeSegment, SegmentFails, WriteAt
<1>12. CASE UNCHANGED vars
  BY <1>12, Zenon DEF SavedClean, vars, run_vars, call, result, tracker_vars, flushes
<1>13. QED
  BY <1>1, <1>2, <1>3, <1>4, <1>5, <1>6, <1>7, <1>8, <1>9, <1>10, <1>11, <1>12, Zenon DEF Next, Download

\* Nothing marked is forgotten: a memory that is clean, with no flush under way, is
\* in the progress file, whoever flushed last and however often a flush failed,
\* except where its folder could not be made or the task is finished or gone.
THEOREM NothingForgotten == Spec => []CleanMeansSaved
<1>1. Init => SavedClean BY DEF Init, SavedClean, CleanMeansSaved
<1>2. SavedClean => CleanMeansSaved BY Zenon DEF SavedClean
<1>3. Base => FlushInv BY Zenon DEF Base
<1>4. QED BY <1>1, <1>2, <1>3, StaysClean, BaseHolds, PTL DEF Spec

-----------------------------------------------------------------------------
\* Every segment of a file that DownloadNZB is past is marked or is a known hole.
Reached ==
    /\ file \in Nat \ {0}
    /\ pc \in {"off", "setup", "flush", "defer"} => file = 1
    /\ pc \in {"next", "work"} =>
         \A g \in Files : g < file => SegsOf(g) \subseteq bits \cup missing

\* While no worker has failed, a segment of the open file is marked, a hole, in the
\* channel or in a worker's hand: none is dropped between them.
Covered ==
    pc = "work" /\ ~failed /\ ~ctx =>
      /\ \A s \in SegsOf(file) :
           \/ s \in bits \cup missing \cup todo
           \/ \E w \in Workers : wk[w].at \in Busy /\ wk[w].seg = s
      /\ \A w \in Workers : wk[w].at # "out"

\* What passed par2, or needed none, was complete.
Handed == (pc = "extract" /\ damaged = {}) \/ pc = "sync" \/ outcome = "ok" => handed

DeliveryInv == Reached /\ Covered /\ Handed

\* Steps to places past, or before, the files.
LEMMA ElsewhereDelivers ==
  ASSUME DeliveryInv, pc' \notin {"next", "work"},
         UNCHANGED file \/ file' = 1,
         pc' \in {"off", "setup", "flush", "defer"} => file' = 1, Handed'
  PROVE  DeliveryInv'
BY DEF DeliveryInv, Reached, Covered

\* A worker's step loses no segment.
LEMMA WorkerCovers ==
  ASSUME Covered, NEW w \in Workers, pc = "work", UNCHANGED <<pc, file, ctx>>,
         \A v \in Workers : v # w => wk'[v] = wk[v],
         wk'[w].at = "out" => failed' \/ ctx,
         failed => failed',
         \A s \in bits \cup missing \cup todo :
            s \in bits' \cup missing' \cup todo' \/ ctx \/ (wk'[w].at \in Busy /\ wk'[w].seg = s),
         wk[w].at \in Busy =>
            wk[w].seg \in bits' \cup missing' \/ failed' \/ (wk'[w].at \in Busy /\ wk'[w].seg = wk[w].seg)
  PROVE  Covered'
<1> SUFFICES ASSUME ~failed', ~ctx PROVE Covered' BY Zenon DEF Covered
<1>1. ~failed /\ \A v \in Workers : wk'[v].at # "out" BY Zenon DEF Covered
<1>2. ASSUME NEW s \in SegsOf(file)
      PROVE  \/ s \in bits' \cup missing' \cup todo'
             \/ \E v \in Workers : wk'[v].at \in Busy /\ wk'[v].seg = s
  <2>1. CASE s \in bits \cup missing \cup todo BY <2>1, Zenon
  <2>2. CASE s \notin bits \cup missing \cup todo
    <3>1. PICK v \in Workers : wk[v].at \in Busy /\ wk[v].seg = s BY <1>1, <2>2, Zenon DEF Covered
    <3>2. QED BY <3>1, Zenon
  <2>3. QED BY <2>1, <2>2, Zenon
<1>3. QED BY <1>1, <1>2, Zenon DEF Covered

\* The steps of the workers.
LEMMA WorkerDelivers ==
  ASSUME HonestInv, DeliveryInv, NEW w \in Workers, Worker(w)
  PROVE  DeliveryInv'
<1> USE DEF DeliveryInv
<1>1. /\ pc = "work" /\ UNCHANGED <<pc, file, ctx, outcome, handed>>
      /\ bits \subseteq bits' /\ missing \subseteq missing'
  BY Zenon DEF Worker, TakeSegment, SegmentFails, WriteAt, NoteSize, Mark, WorkerFlush, At,
     work_rest, local, tracker_vars, NoteFileSize, MarkDone, FlushBegin, FlushEnd
<1>2. Reached'
  <2>1. \A g \in Files : g < file => SegsOf(g) \subseteq bits' \cup missing' BY <1>1, Zenon DEF Reached
  <2>2. QED BY <1>1, <2>1, Zenon DEF Reached
<1>3. Handed' BY <1>1 DEF Handed
<1>4. CASE TakeSegment(w)
  <2>1. wk[w].at = "free" /\ UNCHANGED <<bits, missing, failed>>
    BY <1>4, Zenon DEF TakeSegment, At, tracker_vars
  <2>2. wk[w].at \notin Busy BY <2>1 DEF Busy
  <2>3. PICK s \in todo :
           /\ todo' = todo \ {s}
           /\ IF ctx THEN Leave(w, "out") ELSE wk' = [wk EXCEPT ![w] = [at |-> "fetch", seg |-> s]]
    BY <1>4, Zenon DEF TakeSegment
  <2>4. CASE ctx
    <3>1. \A v \in Workers : v # w => wk'[v] = wk[v]
      BY <2>3, <2>4, LeaveFacts DEF HonestInv, Labels
    <3>2. Covered' BY <1>1, <2>1, <2>2, <2>4, <3>1, WorkerCovers, Zenon
    <3>3. QED BY <1>2, <1>3, <3>2, Zenon
  <2>5. CASE ~ctx
    <3>0. wk' = [wk EXCEPT ![w] = [at |-> "fetch", seg |-> s]] BY <2>3, <2>5
    <3>1. wk'[w].at = "fetch" /\ wk'[w].seg = s /\ \A v \in Workers : v # w => wk'[v] = wk[v]
      BY <3>0, Zenon DEF HonestInv, Types
    <3>2. wk'[w].at \in Busy /\ wk'[w].at # "out" BY <3>1 DEF Busy
    <3>3. Covered' BY <1>1, <2>1, <2>2, <2>3, <3>1, <3>2, WorkerCovers, Zenon
    <3>4. QED BY <1>2, <1>3, <3>3, Zenon
  <2>6. QED BY <2>4, <2>5, Zenon
<1>5. CASE SegmentFails(w) \/ WriteAt(w) \/ NoteSize(w) \/ Mark(w) \/ WorkerFlush(w)
  <2>1. \A v \in Workers : v # w => wk'[v] = wk[v]
    <3>1. PICK label \in Labels : Move(w, label) \/ Leave(w, label) \/ UNCHANGED wk
      BY <1>5 DEF SegmentFails, WriteAt, NoteSize, Mark, WorkerFlush, Labels, Busy
    <3>2. QED BY <3>1, MoveFacts, LeaveFacts, Zenon DEF HonestInv
  <2>2. (failed => failed') /\ UNCHANGED todo
    <3>1. CASE SegmentFails(w) BY <3>1, Zenon DEF SegmentFails
    <3>2. CASE WriteAt(w) BY <3>2 DEF WriteAt
    <3>3. CASE NoteSize(w) BY <3>3, Zenon DEF NoteSize, local
    <3>4. CASE Mark(w) BY <3>4, Zenon DEF Mark, local
    <3>5. CASE WorkerFlush(w) BY <3>5, Zenon DEF WorkerFlush, local
    <3>6. QED BY <1>5, <3>1, <3>2, <3>3, <3>4, <3>5, Zenon
  <2>3. \/ wk'[w].at \in {"note", "mark"} /\ wk'[w].seg = wk[w].seg
        \/ failed' /\ wk'[w].at = "out"
        \/ wk'[w].at # "out" /\ (wk[w].at \in Busy => wk[w].seg \in bits' \cup missing')
    <3>1. CASE SegmentFails(w) BY <3>1, LeaveFacts DEF HonestInv, SegmentFails, Labels
    <3>2. CASE WriteAt(w) BY <3>2, MoveFacts, LeaveFacts DEF HonestInv, WriteAt, Labels, Busy
    <3>3. CASE NoteSize(w) BY <3>3, MoveFacts DEF HonestInv, NoteSize, Labels, Busy
    <3>4. CASE Mark(w) BY <3>4, LeaveFacts DEF HonestInv, Mark, MarkDone, Labels
    <3>5. CASE WorkerFlush(w) BY <3>5, LeaveFacts DEF HonestInv, WorkerFlush, At, Labels, Busy
    <3>6. QED BY <1>5, <3>1, <3>2, <3>3, <3>4, <3>5, Zenon
  <2>4. Covered'
    <3>1. wk'[w].at \in {"note", "mark"} => wk'[w].at \in Busy /\ wk'[w].at # "out" BY DEF Busy
    <3>2. \A s \in bits \cup missing \cup todo : s \in bits' \cup missing' \cup todo' BY <1>1, <2>2, Zenon
    <3>3. QED BY <1>1, <2>1, <2>2, <2>3, <3>1, <3>2, WorkerCovers, Zenon
  <2>5. QED BY <1>2, <1>3, <2>4
<1>6. QED BY <1>4, <1>5, Zenon DEF Worker

\* The steps of Download between its files.
LEMMA FilesDeliver ==
  ASSUME HonestInv, DeliveryInv, Setup \/ SkipDone \/ ForgetGone \/ OpenFile \/ CloseFile
  PROVE  DeliveryInv'
<1> USE DEF DeliveryInv
<1>0. \A g \in Files : g \in Nat /\ g >= 1
  <2>1. Cardinality(Files) \in Nat BY DownloadAssumption, FS_CardinalityType, Zenon
  <2>2. QED BY <2>1, DownloadAssumption
<1>1. CASE Setup
  <2>1. pc' = "next" /\ file' = 1 /\ UNCHANGED <<outcome, handed>> BY <1>1 DEF Setup, Reached, result
  <2>2. Reached' BY <1>0, <2>1 DEF Reached
  <2>3. QED BY <2>1, <2>2 DEF Covered, Handed
<1>2. CASE SkipDone
  <2>1. /\ pc = "next" /\ pc' = "next" /\ file \in Files /\ file' = file + 1 /\ SegsOf(file) \subseteq bits
        /\ UNCHANGED <<outcome, handed, bits, missing>>
    BY <1>2, Zenon DEF SkipDone, AtFile, FileDone, result, tracker_vars, flushes, local
  <2>2. Reached'
    <3>1. ASSUME NEW g \in Files, g < file + 1 PROVE SegsOf(g) \subseteq bits \cup missing
      <4>1. g < file \/ g = file BY <1>0, <2>1, <3>1
      <4>2. QED BY <2>1, <4>1, Zenon DEF Reached
    <3>2. file' \in Nat \ {0} BY <2>1 DEF Reached
    <3>3. QED BY <2>1, <3>1, <3>2 DEF Reached
  <2>3. QED BY <2>1, <2>2 DEF Covered, Handed
<1>3. CASE ForgetGone
  <2>1. /\ pc = "next" /\ file \in Files /\ UNCHANGED <<pc, file, missing, outcome, handed>>
        /\ bits' = bits \ UNION {SegsOf(f) : f \in {file}}
    BY <1>3, Zenon DEF ForgetGone, AtFile, ResetFiles, run_vars, local, result
  <2>2. ASSUME NEW g \in Files, g < file PROVE SegsOf(g) \subseteq bits' \cup missing
    <3>1. g # file BY <1>0, <2>1, <2>2
    <3>2. SegsOf(g) \cap SegsOf(file) = {} BY <2>1, <3>1, SegFacts, Zenon
    <3>3. SegsOf(g) \subseteq bits \cup missing BY <2>1, <2>2, Zenon DEF Reached
    <3>4. QED BY <2>1, <3>2, <3>3, Zenon
  <2>3. Reached' BY <2>1, <2>2, Zenon DEF Reached
  <2>4. QED BY <2>1, <2>3 DEF Covered, Handed
<1>4. CASE OpenFile
  <2>1. /\ pc = "next" /\ pc' = "work" /\ todo' = SegsOf(file) \ bits
        /\ UNCHANGED <<bits, missing, file, wk, outcome, handed>>
    BY <1>4, Zenon DEF OpenFile, AtFile, tracker_vars, flushes, result
  <2>2. \A w \in Workers : wk'[w].at # "out" BY <2>1 DEF HonestInv, AtWork, Resting
  <2>3. Reached' BY <2>1 DEF Reached
  <2>4. Covered' BY <2>1, <2>2, Zenon DEF Covered
  <2>5. QED BY <2>1, <2>3, <2>4 DEF Handed
<1>5. CASE CloseFile
  <2>1. /\ pc = "work" /\ pc' = "next" /\ file' = file + 1 /\ ~failed /\ ~ctx
        /\ UNCHANGED <<bits, missing, outcome, handed>>
        /\ \A w \in Workers : wk[w].at = "out" \/ (wk[w].at = "free" /\ todo = {})
    BY <1>5, Zenon DEF CloseFile, Joined, tracker_vars, flushes, result
  <2>2. \A w \in Workers : wk[w].at \notin Busy /\ wk[w].at = "free" /\ todo = {}
    BY <2>1 DEF Covered, Busy
  <2>3. SegsOf(file) \subseteq bits \cup missing \cup todo BY <2>1, <2>2, Zenon DEF Covered
  <2>4. CASE todo = {}
    <3>1. ASSUME NEW g \in Files, g < file + 1 PROVE SegsOf(g) \subseteq bits \cup missing
      <4>1. g < file \/ g = file BY <1>0, <3>1 DEF Reached
      <4>2. QED BY <2>1, <2>3, <2>4, <4>1, Zenon DEF Reached
    <3>2. file' \in Nat \ {0} BY <2>1 DEF Reached
    <3>3. Reached' BY <2>1, <3>1, <3>2 DEF Reached
    <3>4. QED BY <2>1, <3>3 DEF Covered, Handed
  <2>5. QED BY <2>2, <2>4, DownloadAssumption, Zenon
<1>6. QED BY <1>1, <1>2, <1>3, <1>4, <1>5, Zenon

\* Accept: what is handed over has every byte, unless a data file was lost before.
LEMMA AcceptDelivers ==
  ASSUME HonestInv, DeliveryInv, Accept
  PROVE  DeliveryInv'
<1> USE DEF DeliveryInv
<1>1. /\ pc = "next" /\ file \notin Files /\ pc' = "extract" /\ UNCHANGED file
      /\ handed' = ("lost" \in lapse \/ (exists' = Files /\ written' = Segs))
  BY Zenon DEF Accept, AllFetched
<1>2. handed'
  <2>1. CASE Lost BY <1>1, <2>1, Zenon DEF Lost
  <2>2. CASE ~Lost
    <3>1. (exists' = Files /\ written' = Segs) \/ (missing = {} /\ UNCHANGED disk) BY Zenon DEF Accept
    <3>2. CASE exists' = Files /\ written' = Segs BY <1>1, <3>2, Zenon
    <3>3. CASE missing = {} /\ UNCHANGED disk
      <4>1. written = Segs /\ exists = Files
        <5>1. \A g \in Files : g < file
          <6>1. Cardinality(Files) \in Nat BY DownloadAssumption, FS_CardinalityType, Zenon
          <6>2. QED BY <1>1, <6>1, DownloadAssumption DEF Reached
        <5>2. \A g \in Files : SegsOf(g) \subseteq written
          BY <1>1, <2>2, <3>3, <5>1, Zenon DEF Reached, HonestInv, OnDisk
        <5>3. written = Segs BY <5>2, SegFacts, Zenon DEF HonestInv, Types
        <5>4. ASSUME NEW g \in Files PROVE g \in exists
          <6>1. PICK s : s = <<g, 1>> BY Zenon
          <6>2. s \in written /\ s[1] = g BY <5>2, <6>1, SegFacts
          <6>3. QED BY <6>2, Zenon DEF HonestInv, Types
        <5>5. QED BY <5>3, <5>4, Zenon DEF HonestInv, Types
      <4>2. QED BY <1>1, <3>3, <4>1, Zenon DEF disk
    <3>4. QED BY <3>1, <3>2, <3>3, Zenon
  <2>3. QED BY <2>1, <2>2, Zenon
<1>3. Handed' BY <1>2, Zenon DEF Handed
<1>4. QED BY <1>1, <1>3, ElsewhereDelivers

\* Every step keeps account of the segments.
LEMMA StepDelivers == HonestInv /\ DeliveryInv /\ [Next]_vars => DeliveryInv'
<1> SUFFICES ASSUME HonestInv, DeliveryInv, [Next]_vars PROVE DeliveryInv' BY Zenon
<1>1. CASE Start
  <2>1. pc' = "setup" /\ UNCHANGED file /\ file = 1 /\ outcome' = "none"
    BY <1>1 DEF Start, DeliveryInv, Reached
  <2>2. QED BY <2>1, ElsewhereDelivers DEF Handed
<1>2. CASE Fail \/ StopFile \/ CutFails \/ ExtractFails \/ SyncFails \/ Corrupt
  <2>1. pc' \in {"defer", "flush"} /\ outcome' = "error" /\ file' = 1
    BY <1>2, Zenon DEF Fail, StopFile, CutFails, ExtractFails, SyncFails, Corrupt, Unwind
  <2>2. QED BY <2>1, ElsewhereDelivers DEF Handed
<1>3. CASE Condemn
  <2>1. /\ pc = "next" /\ pc' = "extract" /\ damaged' # {} /\ UNCHANGED <<file, outcome, handed>>
    BY <1>3, Zenon DEF Condemn, AllFetched, result
  <2>2. QED BY <2>1, ElsewhereDelivers DEF DeliveryInv, Handed
<1>4. CASE ExtractArchive \/ NothingToExtract
  <2>1. /\ pc = "extract" /\ pc' = (IF damaged = {} THEN "sync" ELSE "corrupt")
        /\ UNCHANGED <<file, outcome, handed>>
    BY <1>4, Zenon DEF ExtractArchive, NothingToExtract, AfterProcess, result
  <2>2. QED BY <2>1, ElsewhereDelivers DEF DeliveryInv, Handed
<1>5. CASE Finish
  <2>1. pc = "sync" /\ pc' = "defer" /\ file' = 1 /\ UNCHANGED handed BY <1>5, Zenon DEF Finish, Unwind
  <2>2. QED BY <2>1, ElsewhereDelivers DEF DeliveryInv, Handed
<1>6. CASE MainFlush
  <2>1. /\ pc \in {"flush", "defer"} /\ pc' \in {"flush", "defer", "off"}
        /\ UNCHANGED <<outcome, handed, file>>
    BY <1>6 DEF MainFlush, AfterFlush, result
  <2>2. QED BY <2>1, ElsewhereDelivers DEF DeliveryInv, Reached, Handed
<1>7. CASE Pause \/ Cancel \/ CancelRemoves \/ RemoveFolder
  <2>1. /\ UNCHANGED <<pc, file, bits, missing, todo, wk, failed, damaged, outcome, handed>>
        /\ ctx => ctx'
    <3>1. CASE Pause BY <3>1, Zenon DEF Pause, local, result, tracker_vars, flushes
    <3>2. CASE Cancel BY <3>2, Zenon DEF Cancel, local, result, tracker_vars, flushes
    <3>3. CASE CancelRemoves BY <3>3, Zenon DEF CancelRemoves, Remove, RemoveStale, local, result
    <3>4. CASE RemoveFolder BY <3>4, Zenon DEF RemoveFolder, LoseData, local, result
    <3>5. QED BY <1>7, <3>1, <3>2, <3>3, <3>4, Zenon
  <2>2. Reached' /\ Handed' BY <2>1, Zenon DEF DeliveryInv, Reached, Handed
  <2>3. Covered' BY <2>1, Zenon DEF DeliveryInv, Covered
  <2>4. QED BY <2>2, <2>3 DEF DeliveryInv
<1>8. CASE Wipe \/ Crash
  <2>1. /\ pc' = "off" /\ file' = 1 /\ UNCHANGED handed
        /\ outcome' = "none" \/ UNCHANGED outcome
    BY <1>8 DEF Wipe, Crash, Unwind, run_vars, result, DeliveryInv, Reached
  <2>2. QED BY <2>1, ElsewhereDelivers DEF DeliveryInv, Handed
<1>9. CASE \E w \in Workers : Worker(w) BY <1>9, WorkerDelivers, Zenon
<1>10. CASE Setup \/ SkipDone \/ ForgetGone \/ OpenFile \/ CloseFile BY <1>10, FilesDeliver, Zenon
<1>11. CASE Accept BY <1>11, AcceptDelivers, Zenon
<1>12. CASE UNCHANGED vars
  <2>1. UNCHANGED <<pc, file, bits, missing, todo, wk, failed, ctx, damaged, outcome, handed>>
    BY <1>12, Zenon DEF vars, run_vars, local, result, tracker_vars, flushes
  <2>2. Reached' /\ Handed' BY <2>1, Zenon DEF DeliveryInv, Reached, Handed
  <2>3. Covered' BY <2>1, Zenon DEF DeliveryInv, Covered
  <2>4. QED BY <2>2, <2>3 DEF DeliveryInv
<1>13. QED
  BY <1>1, <1>2, <1>3, <1>4, <1>5, <1>6, <1>7, <1>8, <1>9, <1>10, <1>11, <1>12, Zenon DEF Next, Download

\* What a successful download delivers has the bytes of every segment, for any
\* number of files, segments and workers, and through any mix of retries, holes,
\* pauses and crashes, unless a data file was lost on the way.
THEOREM Delivered == Spec => []DeliveredIsComplete
<1>1. Init => DeliveryInv BY DEF Init, DeliveryInv, Reached, Covered, Handed
<1>2. DeliveryInv => DeliveredIsComplete BY Zenon DEF DeliveryInv, Handed, DeliveredIsComplete
<1>3. Base => HonestInv BY Zenon DEF Base
<1>4. QED BY <1>1, <1>2, <1>3, BaseHolds, StepDelivers, PTL DEF Spec
=============================================================================
