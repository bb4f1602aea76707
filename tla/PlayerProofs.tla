---------------------------- MODULE PlayerProofs ----------------------------
(***************************************************************************)
(* Sessions of the in-browser player: those that play through the /stream  *)
(* slot (StreamSlot) and those that play HLS (HlsSessions), each for every *)
(* value of its constants.  Both rest on the same two tables.              *)
(***************************************************************************)
EXTENDS StreamSlot, HlsSessions, FiniteSetTheorems, TLAPS

-----------------------------------------------------------------------------
(* The table of closed ids. *)

(* What is found in a line with one more behind it, and is not that one, is in the
   line itself. *)
LEMMA FoundBefore ==
  ASSUME NEW q \in Seq(Sessions), NEW x \in Sessions, NEW u \in Sessions \ {x},
         \E i \in 1..Len(Append(q, x)): Append(q, x)[i] = u
  PROVE  \E i \in 1..Len(q): q[i] = u
<1>1. PICK i \in 1..Len(Append(q, x)): Append(q, x)[i] = u OBVIOUS
<1>2. i \in 1..Len(q) /\ q[i] = u BY <1>1
<1> QED BY <1>2, Zenon

(* ... and what is found in a line without its first. *)
LEMMA FoundInTail ==
  ASSUME NEW q \in Seq(Sessions), q # <<>>, NEW u,
         \E i \in 1..Len(Tail(q)): Tail(q)[i] = u
  PROVE  \E i \in 1..Len(q): q[i] = u
<1>1. PICK i \in 1..Len(Tail(q)): Tail(q)[i] = u OBVIOUS
<1>2. i + 1 \in 1..Len(q) /\ q[i + 1] = u BY <1>1
<1> QED BY <1>2, Zenon

(* A close marks one id: no other id is closed by it. *)
LEMMA MarkOne ==
  ASSUME closed \in Seq(Sessions), NEW s \in Sessions, mark(s)
  PROVE  /\ closed' \in Seq(Sessions)
         /\ \A u \in Sessions \ {s}: sessionClosedByWeb(u)' => sessionClosedByWeb(u)
<1>1. CASE sessionClosedByWeb(s)
  <2>1. closed' = closed BY <1>1, Zenon DEF mark
  <2> QED BY <2>1, Zenon DEF sessionClosedByWeb
<1>2. CASE ~sessionClosedByWeb(s) /\ Len(closed) >= MaxClosed
  <2>1. closed' = Append(Tail(closed), s) BY <1>2, Zenon DEF mark
  <2>2. closed # <<>> BY <1>2, ClosedAssumption
  <2>3. Tail(closed) \in Seq(Sessions) /\ closed' \in Seq(Sessions) BY <2>1, <2>2
  <2>4. ASSUME NEW u \in Sessions \ {s}, \E i \in 1..Len(closed'): closed'[i] = u
        PROVE  \E j \in 1..Len(closed): closed[j] = u
    <3>1. \E i \in 1..Len(Append(Tail(closed), s)): Append(Tail(closed), s)[i] = u
      BY <2>1, <2>4, Zenon
    <3>2. \E i \in 1..Len(Tail(closed)): Tail(closed)[i] = u BY <2>3, <3>1, FoundBefore, Zenon
    <3> QED BY <2>2, <3>2, FoundInTail, Zenon
  <2> QED BY <2>3, <2>4, Zenon DEF sessionClosedByWeb
<1>3. CASE ~sessionClosedByWeb(s) /\ ~(Len(closed) >= MaxClosed)
  <2>1. closed' = Append(closed, s) BY <1>3, Zenon DEF mark
  <2>2. closed' \in Seq(Sessions) BY <2>1
  <2>3. ASSUME NEW u \in Sessions \ {s}, \E i \in 1..Len(closed'): closed'[i] = u
        PROVE  \E j \in 1..Len(closed): closed[j] = u
    <3>1. \E i \in 1..Len(Append(closed, s)): Append(closed, s)[i] = u BY <2>1, <2>3, Zenon
    <3> QED BY <3>1, FoundBefore, Zenon
  <2> QED BY <2>2, <2>3, Zenon DEF sessionClosedByWeb
<1> QED BY <1>1, <1>2, <1>3, Zenon

(* Nothing else closes an id. *)
LEMMA ClosedKept ==
  ASSUME closed' = closed, NEW s
  PROVE  sessionClosedByWeb(s)' <=> sessionClosedByWeb(s)
BY Zenon DEF sessionClosedByWeb

-----------------------------------------------------------------------------
(***************************************************************************)
(* StreamSlot: any sessions, stream goroutines, disk streams and tasks, and*)
(* any size of the memory of closed ids.                                   *)
(***************************************************************************)
StartStates == {"new", "probe", "check", "install", "add", "recheck", "take", "live",
                "failed", "over"}
TeardownStates == {"none", "asked", "deferred", "release", "clear", "done"}

StreamTypeOK ==
  /\ cancels \in [Sessions -> {NoCancel, "start", "serve"}] /\ closed \in Seq(Sessions)
  /\ kind \in [Sessions -> SlotKind] /\ held \subseteq Sessions
  /\ spc \in [Sessions -> StartStates] /\ td \in [Sessions -> TeardownStates]
  /\ gens \in [Tasks -> Disks \cup {Empty}]

(* Where a session stands, what is registered for it and how far its teardown is
   go together: nothing that ends what it serves is registered before its file is
   in the slot, and from the moment that something is, either it still is or the
   teardown has begun. *)
SessionInv(s) ==
  /\ spc[s] \in {"new", "probe", "check", "install", "failed", "over"} => slot # s
  /\ spc[s] \in {"new", "probe", "failed", "over"} => s \notin held
  /\ spc[s] \in {"new", "probe", "check", "install", "add", "failed", "over"} =>
       td[s] = "none" /\ cancels[s] # "serve"
  /\ spc[s] \in {"new", "failed", "over"} => cancels[s] = NoCancel
  /\ spc[s] \in {"probe", "check"} /\ OnLoop(s) => cancels[s] = NoCancel
  /\ spc[s] \in {"recheck", "take", "live"} =>
       (cancels[s] = "serve" /\ td[s] = "none") \/ (cancels[s] = NoCancel /\ td[s] # "none")
  /\ spc[s] = "live" /\ sessionClosedByWeb(s) /\ loop # <<s>> => td[s] # "none"
  /\ td[s] \in {"clear", "done"} => s \notin held
  /\ td[s] = "done" => slot # s

(* The generation remembered for a task is of a file installed under that task. *)
GensOwn == \A t \in Tasks: gens[t] # Empty => gens[t] \in Disks /\ TaskOf[gens[t]] = t

(* The inductive invariant. *)
StreamInv == StreamTypeOK /\ GensOwn /\ \A s \in Sessions: SessionInv(s)

-----------------------------------------------------------------------------
(* What a step leaves alone. *)

(* A session nothing happens to, but for a file or a resource it loses. *)
Spared(u) ==
  /\ spc'[u] = spc[u] /\ td'[u] = td[u] /\ cancels'[u] = cancels[u] /\ kind'[u] = kind[u]
  /\ u \in held' => u \in held
  /\ slot' = u => slot = u
  /\ sessionClosedByWeb(u)' => sessionClosedByWeb(u)
  /\ loop = <<u>> => loop' = <<u>>

(* ... keeps its part of the invariant. *)
LEMMA SparedInv ==
  ASSUME NEW u \in Sessions, SessionInv(u), Spared(u)
  PROVE  SessionInv(u)'
BY Zenon DEF SessionInv, Spared, OnLoop

(* A step of one session. *)
LEMMA OneSession ==
  ASSUME StreamInv, NEW s \in Sessions, StreamTypeOK', gens' = gens, SessionInv(s)',
         \A u \in Sessions \ {s}: Spared(u)
  PROVE  StreamInv'
<1>1. \A u \in Sessions \ {s}: SessionInv(u)' BY SparedInv, Zenon DEF StreamInv
<1>2. GensOwn' BY Zenon DEF StreamInv, GensOwn
<1> QED BY <1>1, <1>2, Zenon DEF StreamInv

(* A step of none. *)
LEMMA NoSession ==
  ASSUME StreamInv, UNCHANGED <<tables, kind, spc, td, gens>>, held' \subseteq held,
         \A u \in Sessions: (slot' = u => slot = u) /\ (loop = <<u>> => loop' = <<u>>)
  PROVE  StreamInv'
<1>1. \A u \in Sessions: Spared(u) BY ClosedKept, Zenon DEF Spared, tables
<1>2. \A u \in Sessions: SessionInv(u)' BY <1>1, SparedInv, Zenon DEF StreamInv
<1>3. GensOwn' BY Zenon DEF StreamInv, GensOwn
<1>4. StreamTypeOK' BY Zenon DEF StreamInv, StreamTypeOK, tables
<1> QED BY <1>2, <1>3, <1>4, Zenon DEF StreamInv

-----------------------------------------------------------------------------
(* The start path of a session. *)

(* OnStreamSession and the probe. *)
LEMMA StartInv ==
  ASSUME StreamInv, NEW s \in Sessions, OnSlotSession(s) \/ Probed(s) \/ ProbeFails(s)
  PROVE  StreamInv'
<1>0. StreamTypeOK /\ SessionInv(s) BY Zenon DEF StreamInv
<1>1. CASE OnSlotSession(s)
  <2>1. PICK k \in SlotKind:
          /\ kind' = [kind EXCEPT ![s] = k]
          /\ spc' = [spc EXCEPT ![s] = IF k = "direct" THEN "install" ELSE "probe"]
          /\ loop' = IF k \in {"direct", "remux"} THEN s ELSE Free
          /\ IF k \in {"debrid", "usenet"} THEN add(s, "start") ELSE UNCHANGED cancels
    BY <1>1, Zenon DEF OnSlotSession
  <2>2. /\ loop = Free /\ spc[s] \in {"new", "failed"} /\ ~has(s) /\ ~sessionClosedByWeb(s)
        /\ UNCHANGED <<closed, slot, held, td, gens>>
    BY <1>1, Zenon DEF OnSlotSession, server, task
  <2>3. StreamTypeOK' BY <1>0, <2>1, <2>2 DEF StreamTypeOK, StartStates, SlotKind, add
  <2>4. SessionInv(s)'
    BY <1>0, <2>1, <2>2, ClosedAssumption DEF StreamTypeOK, SessionInv, OnLoop, SlotKind, add, has
  <2>5. \A u \in Sessions \ {s}: Spared(u)
    BY <1>0, <2>1, <2>2, ClosedKept, SlotAssumption DEF StreamTypeOK, Spared, add
  <2> QED BY <2>2, <2>3, <2>4, <2>5, OneSession, Zenon
<1>2. CASE Probed(s)
  <2>1. /\ spc[s] = "probe" /\ spc' = [spc EXCEPT ![s] = "check"]
        /\ held' \in {held, held \cup {s}}
        /\ UNCHANGED <<cancels, closed, slot, kind, td, gens, loop>>
    BY <1>2, Zenon DEF Probed, tables, server, task
  <2>2. StreamTypeOK' BY <1>0, <2>1 DEF StreamTypeOK, StartStates
  <2>3. SessionInv(s)' BY <1>0, <2>1 DEF StreamTypeOK, SessionInv, OnLoop
  <2>4. \A u \in Sessions \ {s}: Spared(u) BY <1>0, <2>1, ClosedKept DEF StreamTypeOK, Spared
  <2> QED BY <2>1, <2>2, <2>3, <2>4, OneSession, Zenon
<1>3. CASE ProbeFails(s)
  <2>1. /\ spc[s] = "probe" /\ spc' = [spc EXCEPT ![s] = "failed"]
        /\ kind' = [kind EXCEPT ![s] = "direct"]
        /\ loop' = IF loop = s THEN Free ELSE loop
        /\ IF OnLoop(s) THEN UNCHANGED cancels ELSE cancels' = [cancels EXCEPT ![s] = NoCancel]
        /\ UNCHANGED <<closed, slot, held, td, gens>>
    BY <1>3 DEF ProbeFails, Leaves, remove, add, server, task
  <2>2. StreamTypeOK' BY <1>0, <2>1 DEF StreamTypeOK, StartStates, SlotKind
  <2>3. SessionInv(s)' BY <1>0, <2>1, ClosedAssumption DEF StreamTypeOK, SessionInv
  <2>4. \A u \in Sessions \ {s}: Spared(u)
    BY <1>0, <2>1, ClosedKept, SlotAssumption DEF StreamTypeOK, Spared, Owners
  <2> QED BY <2>1, <2>2, <2>3, <2>4, OneSession, Zenon
<1> QED BY <1>1, <1>2, <1>3, Zenon

(* CheckClosed, SetFile and the first half of registerServed. *)
LEMMA ServeInv ==
  ASSUME StreamInv, NEW s \in Sessions, CheckClosed(s) \/ SessionInstall(s) \/ AddServed(s)
  PROVE  StreamInv'
<1>0. StreamTypeOK /\ SessionInv(s) BY Zenon DEF StreamInv
<1>1. CASE CheckClosed(s)
  <2>1. CASE sessionClosedByWeb(s)
    <3>1. /\ spc[s] = "check" /\ spc' = [spc EXCEPT ![s] = "over"] /\ held' = held \ {s}
          /\ kind' = [kind EXCEPT ![s] = "direct"]
          /\ loop' = IF loop = s THEN Free ELSE loop
          /\ IF OnLoop(s) THEN UNCHANGED cancels ELSE cancels' = [cancels EXCEPT ![s] = NoCancel]
          /\ UNCHANGED <<closed, slot, td, gens>>
      BY <1>1, <2>1 DEF CheckClosed, Leaves, remove, add, server, task
    <3>2. StreamTypeOK' BY <1>0, <3>1 DEF StreamTypeOK, StartStates, SlotKind
    <3>3. SessionInv(s)' BY <1>0, <3>1, ClosedAssumption DEF StreamTypeOK, SessionInv
    <3>4. \A u \in Sessions \ {s}: Spared(u)
      BY <1>0, <3>1, ClosedKept, SlotAssumption DEF StreamTypeOK, Spared, Owners
    <3> QED BY <3>1, <3>2, <3>3, <3>4, OneSession, Zenon
  <2>2. CASE ~sessionClosedByWeb(s)
    <3>1. /\ spc[s] = "check" /\ spc' = [spc EXCEPT ![s] = "install"]
          /\ UNCHANGED <<cancels, closed, slot, kind, held, td, gens, loop>>
      BY <1>1, <2>2, Zenon DEF CheckClosed, server, task
    <3>2. StreamTypeOK' BY <1>0, <3>1 DEF StreamTypeOK, StartStates
    <3>3. SessionInv(s)' BY <1>0, <3>1 DEF StreamTypeOK, SessionInv
    <3>4. \A u \in Sessions \ {s}: Spared(u) BY <1>0, <3>1, ClosedKept DEF StreamTypeOK, Spared
    <3> QED BY <3>1, <3>2, <3>3, <3>4, OneSession, Zenon
  <2> QED BY <2>1, <2>2, Zenon
<1>2. CASE SessionInstall(s)
  <2>1. /\ spc[s] = "install" /\ spc' = [spc EXCEPT ![s] = "add"] /\ slot' = s
        /\ held' \subseteq held
        /\ UNCHANGED <<cancels, closed, kind, td, gens, loop>>
    BY <1>2, Zenon DEF SessionInstall, Install, tables, task
  <2>2. StreamTypeOK' BY <1>0, <2>1 DEF StreamTypeOK, StartStates
  <2>3. SessionInv(s)' BY <1>0, <2>1 DEF StreamTypeOK, SessionInv
  <2>4. \A u \in Sessions \ {s}: Spared(u) BY <1>0, <2>1, ClosedKept DEF StreamTypeOK, Spared
  <2> QED BY <2>1, <2>2, <2>3, <2>4, OneSession, Zenon
<1>3. CASE AddServed(s)
  <2>1. /\ spc[s] = "add" /\ spc' = [spc EXCEPT ![s] = "recheck"]
        /\ cancels' = [cancels EXCEPT ![s] = "serve"]
        /\ UNCHANGED <<closed, slot, kind, held, td, gens, loop>>
    BY <1>3, Zenon DEF AddServed, add, server, task
  <2>2. StreamTypeOK' BY <1>0, <2>1 DEF StreamTypeOK, StartStates
  <2>3. SessionInv(s)' BY <1>0, <2>1 DEF StreamTypeOK, SessionInv
  <2>4. \A u \in Sessions \ {s}: Spared(u) BY <1>0, <2>1, ClosedKept DEF StreamTypeOK, Spared
  <2> QED BY <2>1, <2>2, <2>3, <2>4, OneSession, Zenon
<1> QED BY <1>1, <1>2, <1>3, Zenon

(* The second half of registerServed. *)
LEMMA RegisteredInv ==
  ASSUME StreamInv, NEW s \in Sessions, Recheck(s) \/ TakeBack(s)
  PROVE  StreamInv'
<1>0. StreamTypeOK /\ SessionInv(s) BY Zenon DEF StreamInv
<1>1. CASE Recheck(s)
  <2>1. CASE sessionClosedByWeb(s)
    <3>1. /\ spc[s] = "recheck" /\ spc' = [spc EXCEPT ![s] = "take"]
          /\ UNCHANGED <<cancels, closed, slot, kind, held, td, gens, loop>>
      BY <1>1, <2>1, Zenon DEF Recheck, tables, server, task
    <3>2. StreamTypeOK' BY <1>0, <3>1 DEF StreamTypeOK, StartStates
    <3>3. SessionInv(s)' BY <1>0, <3>1 DEF StreamTypeOK, SessionInv
    <3>4. \A u \in Sessions \ {s}: Spared(u) BY <1>0, <3>1, ClosedKept DEF StreamTypeOK, Spared
    <3> QED BY <3>1, <3>2, <3>3, <3>4, OneSession, Zenon
  <2>2. CASE ~sessionClosedByWeb(s)
    <3>1. /\ spc[s] = "recheck" /\ spc' = [spc EXCEPT ![s] = "live"]
          /\ kind' = [kind EXCEPT ![s] = IF @ = "remux" THEN @ ELSE "direct"]
          /\ loop' = IF loop = s THEN Free ELSE loop
          /\ UNCHANGED <<cancels, closed, slot, held, td, gens>>
      BY <1>1, <2>2 DEF Recheck, Leaves, tables, server, task
    <3>2. StreamTypeOK' BY <1>0, <3>1 DEF StreamTypeOK, StartStates, SlotKind
    <3>3. ~sessionClosedByWeb(s)' BY <2>2, <3>1, ClosedKept, Zenon
    <3>4. SessionInv(s)' BY <1>0, <3>1, <3>3 DEF StreamTypeOK, SessionInv
    <3>5. \A u \in Sessions \ {s}: Spared(u)
      BY <1>0, <3>1, ClosedKept, SlotAssumption DEF StreamTypeOK, Spared, Owners
    <3> QED BY <3>1, <3>2, <3>4, <3>5, OneSession, Zenon
  <2> QED BY <2>1, <2>2, Zenon
<1>2. CASE TakeBack(s)
  <2>1. /\ spc[s] = "take"
        /\ td' = [td EXCEPT ![s] = IF cancels[s] = "serve" THEN "asked" ELSE @]
        /\ cancels' = [cancels EXCEPT ![s] = NoCancel]
        /\ Leaves(s, IF td'[s] = "none" THEN "over" ELSE "live")
        /\ UNCHANGED <<closed, slot, held, gens>>
    BY <1>2, Zenon DEF TakeBack, TakeForClose, remove, add, server, task
  <2>0. td'[s] = IF cancels[s] = "serve" THEN "asked" ELSE td[s] BY <1>0, <2>1 DEF StreamTypeOK
  <2>2. td'[s] \in {"asked", td[s]} /\ td'[s] # "none" /\ (td'[s] # td[s] => td[s] = "none")
    BY <1>0, <2>0, <2>1, ClosedAssumption DEF SessionInv
  <2>3. /\ spc' = [spc EXCEPT ![s] = "live"]
        /\ kind' = [kind EXCEPT ![s] = IF @ = "remux" THEN @ ELSE "direct"]
        /\ loop' = IF loop = s THEN Free ELSE loop
    BY <2>1, <2>2 DEF Leaves
  <2>4. StreamTypeOK' BY <1>0, <2>1, <2>3 DEF StreamTypeOK, StartStates, SlotKind, TeardownStates
  <2>5. SessionInv(s)' BY <1>0, <2>1, <2>2, <2>3, ClosedAssumption DEF StreamTypeOK, SessionInv
  <2>6. \A u \in Sessions \ {s}: Spared(u)
    BY <1>0, <2>1, <2>3, ClosedKept, SlotAssumption DEF StreamTypeOK, Spared, Owners
  <2> QED BY <2>1, <2>4, <2>5, <2>6, OneSession, Zenon
<1> QED BY <1>1, <1>2, Zenon

-----------------------------------------------------------------------------
(* The close of a session. *)

(* closeByWeb marks the id and takes what is registered. *)
LEMMA CloseInv ==
  ASSUME StreamInv, NEW s \in Sessions, CloseMark(s) \/ CloseTake(s)
  PROVE  StreamInv'
<1>0. StreamTypeOK /\ SessionInv(s) BY Zenon DEF StreamInv
<1>1. CASE CloseMark(s)
  <2>1. /\ loop = Free /\ mark(s) /\ loop' = <<s>>
        /\ UNCHANGED <<cancels, slot, kind, spc, held, td, gens>>
    BY <1>1, Zenon DEF CloseMark, server, player, task
  <2>2. /\ closed' \in Seq(Sessions)
        /\ \A u \in Sessions \ {s}: sessionClosedByWeb(u)' => sessionClosedByWeb(u)
    BY <1>0, <2>1, MarkOne, Zenon DEF StreamTypeOK
  <2>3. StreamTypeOK' BY <1>0, <2>1, <2>2, Zenon DEF StreamTypeOK
  <2>4. SessionInv(s)' BY <1>0, <2>1, Zenon DEF SessionInv, OnLoop
  <2>5. \A u \in Sessions \ {s}: Spared(u) BY <2>1, <2>2, SlotAssumption, Zenon DEF Spared
  <2> QED BY <2>1, <2>3, <2>4, <2>5, OneSession, Zenon
<1>2. CASE CloseTake(s)
  <2>1. /\ loop = <<s>> /\ loop' = Free
        /\ td' = [td EXCEPT ![s] = IF cancels[s] = "serve" THEN "asked" ELSE @]
        /\ cancels' = [cancels EXCEPT ![s] = NoCancel]
        /\ UNCHANGED <<closed, slot, kind, spc, held, gens>>
    BY <1>2, Zenon DEF CloseTake, TakeForClose, remove, add, server, task
  <2>2. StreamTypeOK' BY <1>0, <2>1 DEF StreamTypeOK, TeardownStates
  <2>3. td'[s] = (IF cancels[s] = "serve" THEN "asked" ELSE td[s]) /\ cancels'[s] = NoCancel
    BY <1>0, <2>1 DEF StreamTypeOK
  <2>4. spc[s] \in StartStates BY <1>0, Zenon DEF StreamTypeOK
  <2>5. SessionInv(s)' BY <1>0, <2>1, <2>3, <2>4, ClosedAssumption DEF SessionInv, OnLoop, StartStates
  <2>6. \A u \in Sessions \ {s}: Spared(u) BY <1>0, <2>1, ClosedKept DEF StreamTypeOK, Spared
  <2> QED BY <2>1, <2>2, <2>5, <2>6, OneSession, Zenon
<1> QED BY <1>1, <1>2, Zenon

(* slotSessionCancel. *)
LEMMA TeardownInv ==
  ASSUME StreamInv, NEW s \in Sessions, Teardown(s) \/ Release(s) \/ TeardownClear(s)
  PROVE  StreamInv'
<1>0. StreamTypeOK /\ SessionInv(s) BY Zenon DEF StreamInv
<1>1. spc[s] \in StartStates BY <1>0, Zenon DEF StreamTypeOK
<1>2. CASE Teardown(s)
  <2>1. PICK next \in {"deferred", "release"}: td' = [td EXCEPT ![s] = next]
    BY <1>2, Zenon DEF Teardown
  <2>2. /\ td[s] \in {"asked", "deferred"}
        /\ UNCHANGED <<cancels, closed, slot, kind, spc, held, gens, loop>>
    BY <1>2, Zenon DEF Teardown, tables, server, task
  <2>3. StreamTypeOK' BY <1>0, <2>1, <2>2 DEF StreamTypeOK, TeardownStates
  <2>4. SessionInv(s)' BY <1>0, <1>1, <2>1, <2>2 DEF StreamTypeOK, SessionInv, OnLoop, StartStates
  <2>5. \A u \in Sessions \ {s}: Spared(u) BY <1>0, <2>1, <2>2, ClosedKept DEF StreamTypeOK, Spared
  <2> QED BY <2>2, <2>3, <2>4, <2>5, OneSession, Zenon
<1>3. CASE Release(s)
  <2>1. /\ td[s] = "release" /\ td' = [td EXCEPT ![s] = "clear"] /\ held' = held \ {s}
        /\ UNCHANGED <<cancels, closed, slot, kind, spc, gens, loop>>
    BY <1>3, Zenon DEF Release, tables, server, task
  <2>2. StreamTypeOK' BY <1>0, <2>1 DEF StreamTypeOK, TeardownStates
  <2>3. SessionInv(s)' BY <1>0, <1>1, <2>1 DEF StreamTypeOK, SessionInv, OnLoop, StartStates
  <2>4. \A u \in Sessions \ {s}: Spared(u) BY <1>0, <2>1, ClosedKept DEF StreamTypeOK, Spared
  <2> QED BY <2>1, <2>2, <2>3, <2>4, OneSession, Zenon
<1>4. CASE TeardownClear(s)
  <2>1. /\ td[s] = "clear" /\ td' = [td EXCEPT ![s] = "done"]
        /\ slot' = IF slot = s THEN Empty ELSE slot
        /\ UNCHANGED <<cancels, closed, kind, spc, held, gens, loop>>
    BY <1>4, Zenon DEF TeardownClear, ClearFileIf, ClearFile, tables, server, task
  <2>2. Empty \notin Sessions BY SlotAssumption, Zenon DEF Owners
  <2>3. StreamTypeOK' BY <1>0, <2>1 DEF StreamTypeOK, TeardownStates
  <2>4. SessionInv(s)' BY <1>0, <1>1, <2>1, <2>2 DEF StreamTypeOK, SessionInv, OnLoop, StartStates
  <2>5. \A u \in Sessions \ {s}: Spared(u) BY <1>0, <2>1, <2>2, ClosedKept DEF StreamTypeOK, Spared
  <2> QED BY <2>1, <2>3, <2>4, <2>5, OneSession, Zenon
<1> QED BY <1>2, <1>3, <1>4, Zenon

-----------------------------------------------------------------------------
(* Whoever else uses the slot. *)

(* The stream goroutines of claimed tasks. *)
LEMMA RunInv ==
  ASSUME StreamInv, NEW g \in Runs, RunNext(g)
  PROVE  StreamInv'
<1>0. g \notin Sessions /\ Empty \notin Sessions /\ \A u \in Sessions: <<u>> # g /\ <<u>> # Free
  BY SlotAssumption, Zenon DEF Owners
<1>1. /\ UNCHANGED <<tables, kind, spc, td, gens>> /\ held' \subseteq held
      /\ \/ slot' \in {slot, g, Empty}
      /\ \/ loop' = loop \/ loop \in {Free, g}
  <2>1. CASE Claim(g) BY <2>1, Zenon DEF Claim, server, player
  <2>2. CASE ClaimClear(g) BY <2>2, Zenon DEF ClaimClear, ClearFile
  <2>3. CASE RunRegister(g) \/ Prepare(g) BY <2>3, Zenon DEF RunRegister, Prepare, server, player
  <2>4. CASE RunInstall(g) BY <2>4, Zenon DEF RunInstall, Install
  <2>5. CASE RunEnds(g) \/ RunLeave(g) BY <2>5, Zenon DEF RunEnds, RunLeave, server, player
  <2>6. CASE RunClear(g) BY <2>6, Zenon DEF RunClear, ClearFileIf, ClearFile, server, player
  <2> QED BY <2>1, <2>2, <2>3, <2>4, <2>5, <2>6, Zenon DEF RunNext
<1> QED BY <1>0, <1>1, NoSession, Zenon

(* Streams without a goroutine; stop-stream takes a remembered generation. *)
LEMMA DiskInv ==
  ASSUME StreamInv,
         \/ \E d \in Disks: DiskDisplace(d) \/ DiskInstall(d) \/ setTaskStreamGen(d)
         \/ \E t \in Tasks: StopStream(t)
  PROVE  StreamInv'
<1>0. Empty \notin Sessions /\ \A d \in Disks: d \notin Sessions /\ d # Empty /\ TaskOf[d] \in Tasks
  BY SlotAssumption, Zenon DEF Owners
<1>1. ASSUME NEW d \in Disks, DiskDisplace(d) \/ DiskInstall(d) PROVE StreamInv'
  <2>1. /\ UNCHANGED <<tables, kind, spc, td, gens, loop>> /\ held' \subseteq held
        /\ slot' \in {slot, d}
    BY <1>1, Zenon DEF DiskDisplace, DiskInstall, Install, server, player
  <2> QED BY <1>0, <2>1, NoSession, Zenon
<1>2. ASSUME UNCHANGED <<tables, kind, spc, held, td, loop>>, slot' \in {slot, Empty},
             NEW t \in Tasks, NEW d \in Disks \cup {Empty}, gens' = [gens EXCEPT ![t] = d],
             d # Empty => TaskOf[d] = t
      PROVE  StreamInv'
  <2>1. StreamTypeOK' BY <1>2 DEF StreamInv, StreamTypeOK, tables
  <2>2. GensOwn' BY <1>2 DEF StreamInv, StreamTypeOK, GensOwn
  <2>3. \A u \in Sessions: Spared(u) BY <1>0, <1>2, ClosedKept, Zenon DEF Spared, tables
  <2>4. \A u \in Sessions: SessionInv(u)' BY <2>3, SparedInv, Zenon DEF StreamInv
  <2> QED BY <2>1, <2>2, <2>4, Zenon DEF StreamInv
<1>3. ASSUME NEW d \in Disks, setTaskStreamGen(d) PROVE StreamInv'
  <2>1. /\ UNCHANGED <<tables, kind, spc, held, td, loop>> /\ slot' = slot
        /\ gens' = [gens EXCEPT ![TaskOf[d]] = d]
    BY <1>3, Zenon DEF setTaskStreamGen, server, player
  <2> QED BY <1>0, <1>2, <2>1, Zenon
<1>4. ASSUME NEW t \in Tasks, StopStream(t) PROVE StreamInv'
  <2>1. /\ UNCHANGED <<tables, kind, spc, held, td, loop>> /\ slot' \in {slot, Empty}
        /\ gens' = [gens EXCEPT ![t] = Empty]
    BY <1>4, Zenon DEF StopStream, ClearFileIf, ClearFile, server, player
  <2> QED BY <1>2, <2>1, Zenon
<1> QED BY <1>1, <1>3, <1>4, Zenon

(* The idle guard and the viewers. *)
LEMMA ViewerInv ==
  ASSUME StreamInv, GuardLook \/ GuardReap \/ Connect \/ Disconnect \/ UNCHANGED streamVars
  PROVE  StreamInv'
<1>0. Empty \notin Sessions BY SlotAssumption, Zenon DEF Owners
<1>1. /\ UNCHANGED <<tables, kind, spc, td, gens, loop>> /\ held' \subseteq held
      /\ slot' \in {slot, Empty}
  <2>1. CASE GuardLook BY <2>1, Zenon DEF GuardLook, server, player, task
  <2>2. CASE GuardReap BY <2>2, Zenon DEF GuardReap, ClearFile
  <2>3. CASE Connect \/ Disconnect BY <2>3, Zenon DEF Connect, Disconnect, player, task
  <2>4. CASE UNCHANGED streamVars BY <2>4, Zenon DEF streamVars, server, player, task
  <2> QED BY <2>1, <2>2, <2>3, <2>4, Zenon
<1> QED BY <1>0, <1>1, NoSession, Zenon

-----------------------------------------------------------------------------
(* The whole. *)

(* The daemon starts with an empty slot and no session. *)
LEMMA StreamInitInv == StreamInit => StreamInv
<1> SUFFICES ASSUME StreamInit PROVE StreamInv BY Zenon
<1>1. Empty \notin Sessions BY SlotAssumption, Zenon DEF Owners
<1>2. StreamTypeOK BY DEF StreamInit, TablesInit, StreamTypeOK, SlotKind, StartStates, TeardownStates
<1>3. GensOwn BY Zenon DEF StreamInit, GensOwn
<1>4. \A s \in Sessions: SessionInv(s)
  BY <1>1, ClosedAssumption DEF StreamInit, TablesInit, SessionInv, OnLoop
<1> QED BY <1>2, <1>3, <1>4, Zenon DEF StreamInv

(* Every step keeps the invariant. *)
LEMMA StreamNextInv == StreamInv /\ [StreamNext]_streamVars => StreamInv'
<1> SUFFICES ASSUME StreamInv, [StreamNext]_streamVars PROVE StreamInv' BY Zenon
<1>1. ASSUME NEW s \in Sessions, SessionNext(s) PROVE StreamInv'
  BY <1>1, StartInv, ServeInv, RegisteredInv, CloseInv, TeardownInv, Zenon DEF SessionNext
<1>2. ASSUME NEW g \in Runs, RunNext(g) PROVE StreamInv' BY <1>2, RunInv, Zenon
<1> QED BY <1>1, <1>2, DiskInv, ViewerInv, Zenon DEF StreamNext

(* So it holds throughout. *)
LEMMA StreamInvariant == StreamSpec => []StreamInv
<1>1. StreamInit => StreamInv BY StreamInitInv, Zenon
<1>2. StreamInv /\ [StreamNext]_streamVars => StreamInv' BY StreamNextInv, Zenon
<1> QED BY <1>1, <1>2, PTL DEF StreamSpec

(* closeByWeb against registerServed: a session the web closed is not served. *)
THEOREM StreamClosedIsTornDown == StreamSpec => []ClosedIsTornDown
<1>1. StreamInv => ClosedIsTornDown
  <2> SUFFICES ASSUME StreamInv, NEW s \in Sessions, sessionClosedByWeb(s), Settled(s),
                      td[s] \in {"none", "done"}
               PROVE  slot # s /\ s \notin held /\ ~has(s)
    BY Zenon DEF ClosedIsTornDown
  <2>1. SessionInv(s) BY Zenon DEF StreamInv
  <2>2. CASE spc[s] = "live" BY <2>1, <2>2 DEF SessionInv, Settled, has
  <2>3. CASE spc[s] \in {"new", "over", "failed"} BY <2>1, <2>3 DEF SessionInv, has
  <2> QED BY <2>2, <2>3, Zenon DEF Settled
<1> QED BY <1>1, StreamInvariant, PTL

(* No session leaks its NNTP handle or its remux ffmpeg. *)
THEOREM StreamNoLostResource == StreamSpec => []NoLostResource
<1>1. StreamInv => NoLostResource
  <2> SUFFICES ASSUME StreamInv, NEW s \in held
               PROVE  \/ spc[s] \in {"check", "install", "add"}
                      \/ cancels[s] = "serve"
                      \/ td[s] \in {"asked", "deferred", "release"}
    BY Zenon DEF NoLostResource
  <2>1. s \in Sessions /\ SessionInv(s) /\ spc[s] \in StartStates /\ td[s] \in TeardownStates
    BY Zenon DEF StreamInv, StreamTypeOK
  <2> QED BY <2>1 DEF SessionInv, StartStates, TeardownStates
<1> QED BY <1>1, StreamInvariant, PTL

(* ClearFileIf: a late teardown takes no file but its own out of the slot. *)
THEOREM StreamTeardownSparesNewer == StreamSpec => TeardownSparesNewer
<1> DEFINE Spares == slot # Empty /\ slot' = Empty => Ending(slot) \/ loop \in Runs \/ guard # NoTask
<1>1. ASSUME StreamInv, StreamNext, slot # Empty, slot' = Empty
      PROVE  Ending(slot) \/ loop \in Runs \/ guard # NoTask
  <2>0. \A o \in Owners: o # Empty BY SlotAssumption, Zenon
  <2>1. ASSUME NEW s \in Sessions, SessionNext(s) PROVE Ending(slot)
    <3>1. TeardownClear(s)
      <4>1. s # Empty BY <2>0, Zenon DEF Owners
      <4>2. ~(OnSlotSession(s) \/ Probed(s) \/ ProbeFails(s) \/ CheckClosed(s) \/ AddServed(s))
        BY <1>1, Zenon DEF OnSlotSession, Probed, ProbeFails, CheckClosed, AddServed, server
      <4>3. ~(Recheck(s) \/ TakeBack(s) \/ CloseMark(s) \/ CloseTake(s) \/ Teardown(s) \/ Release(s))
        BY <1>1, Zenon DEF Recheck, TakeBack, CloseMark, CloseTake, Teardown, Release, server
      <4>4. ~SessionInstall(s) BY <1>1, <4>1, Zenon DEF SessionInstall, Install
      <4> QED BY <2>1, <4>2, <4>3, <4>4, Zenon DEF SessionNext
    <3> QED BY <1>1, <3>1, Zenon DEF TeardownClear, ClearFileIf, Ending, server
  <2>2. ASSUME NEW g \in Runs, RunNext(g) PROVE Ending(slot) \/ loop \in Runs
    <3>1. g # Empty BY <2>0, Zenon DEF Owners
    <3>2. ~(Claim(g) \/ RunRegister(g) \/ Prepare(g) \/ RunEnds(g) \/ RunLeave(g))
      BY <1>1, Zenon DEF Claim, RunRegister, Prepare, RunEnds, RunLeave, server
    <3>3. ~RunInstall(g) BY <1>1, <3>1, Zenon DEF RunInstall, Install
    <3>4. ClaimClear(g) => loop \in Runs BY Zenon DEF ClaimClear
    <3>5. RunClear(g) => Ending(slot) BY <1>1, Zenon DEF RunClear, ClearFileIf, Ending, server
    <3> QED BY <2>2, <3>2, <3>3, <3>4, <3>5, Zenon DEF RunNext
  <2>3. ASSUME NEW d \in Disks PROVE ~(DiskDisplace(d) \/ DiskInstall(d) \/ setTaskStreamGen(d))
    <3>1. d # Empty BY <2>0, Zenon DEF Owners
    <3> QED BY <1>1, <3>1, Zenon DEF DiskDisplace, DiskInstall, Install, setTaskStreamGen, server
  <2>4. ASSUME NEW t \in Tasks, StopStream(t) PROVE Ending(slot)
    <3>1. gens[t] # Empty /\ slot = gens[t] BY <1>1, <2>4, Zenon DEF StopStream, ClearFileIf, server
    <3>2. gens[t] \in Disks /\ TaskOf[gens[t]] = t BY <1>1, <3>1, Zenon DEF StreamInv, GensOwn
    <3> QED BY <3>1, <3>2, Zenon DEF Ending
  <2>5. ~(GuardLook \/ Connect \/ Disconnect) BY <1>1, Zenon DEF GuardLook, Connect, Disconnect, server
  <2>6. GuardReap => guard # NoTask BY Zenon DEF GuardReap
  <2> QED BY <1>1, <2>1, <2>2, <2>3, <2>4, <2>5, <2>6, Zenon DEF StreamNext
<1>2. StreamInv /\ [StreamNext]_streamVars => [Spares]_streamVars BY <1>1, Zenon
<1> HIDE DEF Spares
<1>3. StreamSpec => [][Spares]_streamVars BY <1>2, StreamInvariant, PTL DEF StreamSpec
<1> QED BY <1>3, Zenon DEF TeardownSparesNewer, Spares

-----------------------------------------------------------------------------
(***************************************************************************)
(* HlsSessions: any sessions, any of which may read a one-connection       *)
(* account or use the cache, and any size of the registry.                 *)
(***************************************************************************)
(* Where a start goroutine can be, by what its session has there. *)
BeforeSlot == {"new", "defer", "reap", "reaping", "hold", "conn", "arrive", "slot", "try"}
Opening == {"arrive", "slot", "try", "take", "probe"}
Encoding == {"probing", "miss", "mkdir", "spawn"}
Before == BeforeSlot \cup Opening \cup Encoding \cup {"fail", "failed"}
Shelfless == Before \ {"mkdir", "spawn"}
Unregistered == Before \cup {"built", "register"}
Closers == {"reaping", "evicting", "undo"}
Registered == {"evicting", "recheck", "served"}

SessionsTypeOK ==
  /\ DOMAIN pc = Sessions /\ DOMAIN closing = Sessions /\ DOMAIN place = Sessions
  /\ todo \in [Sessions -> SUBSET Sessions] /\ registry \subseteq Sessions
  /\ DOMAIN cancels = Sessions /\ closed \in Seq(Sessions)
  /\ sem \in Sessions \cup {Nobody} /\ gaveWay \in BOOLEAN

(* A Close of the session has begun, or a start goroutine is about to call it. *)
Doomed(s) == closing[s] # "no" \/ \E r \in Sessions: s \in todo[r]

(* A session is registered, or closed, once it has an encoder; a goroutine that is
   not closing others has none left to close. *)
LifeInv(s) ==
  /\ pc[s] \in Before => s \notin live
  /\ pc[s] \in Unregistered => s \notin registry /\ ~Doomed(s)
  /\ pc[s] \notin Closers => todo[s] = {}
  /\ pc[s] \in Registered => s \in registry \/ Doomed(s)
  /\ pc[s] = "undo" => s \notin registry /\ Doomed(s)
  /\ pc[s] = "over" => s \notin registry /\ (s \in live => Doomed(s))

(* The lock and the pin of the cache entry. *)
ShelfInv(s) ==
  /\ writer = s => place[s] = "write"
  /\ pc[s] \in Shelfless \/ closing[s] = "done" => s \notin pins /\ writer # s

(* The provider slot and the playback hold; the download while a session reads. *)
SourceInv(s) ==
  /\ pc[s] \in BeforeSlot => sem # s
  /\ pc[s] = "take" => sem = s
  /\ pc[s] = "failed" \/ closing[s] \in {"cache", "done"} => sem # s /\ s \notin holds
  /\ s \in Single /\ pc[s] \in Opening \cup Encoding \cup {"conn"} => s \in holds
  /\ s \in Single /\ ~gaveWay /\ (pc[s] \in Encoding \cup {"probe"} \/ s \in live) => sem = s
  /\ s \in Single /\ ~gaveWay /\ s \in live => s \in holds
  /\ s \in Single /\ ~gaveWay /\ dl = "transfer" =>
       /\ pc[s] \notin Encoding /\ s \notin live
       /\ pc[s] \in Opening => s \in cancelled

(* The inductive invariant. *)
SessionsInv ==
  SessionsTypeOK /\ \A s \in Sessions: LifeInv(s) /\ ShelfInv(s) /\ SourceInv(s)

(* The entry of a session among the cancels goes only when the web closes it, and
   that close finds it in the registry or is found by the last look. *)
WebInv ==
  \A s \in Sessions:
    /\ pc[s] \notin {"new", "over"} => has(s) \/ sessionClosedByWeb(s)
    /\ pc[s] = "served" /\ sessionClosedByWeb(s) /\ s \in registry => s \in web

-----------------------------------------------------------------------------
(* Steps of one start goroutine *)

Moved(s, to) ==
  DOMAIN pc' = Sessions /\ pc'[s] = to /\ \A u \in Sessions \ {s}: pc'[u] = pc[u]

(* Goto moves one start goroutine. *)
LEMMA GotoMoves ==
  ASSUME SessionsTypeOK, NEW s \in Sessions, NEW to, Goto(s, to)
  PROVE  Moved(s, to)
BY Zenon DEF SessionsTypeOK, Goto, Moved

(* ... and Step one that is where it says. *)
LEMMA StepMoves ==
  ASSUME SessionsTypeOK, NEW s \in Sessions, NEW from, NEW to, Step(s, from, to)
  PROVE  pc[s] = from /\ Moved(s, to)
BY GotoMoves, Zenon DEF Step

(* What a move may do when nothing else of a part of the invariant changes. *)
LifeOK(s, to) ==
  /\ to \in Before => pc[s] \in Before
  /\ to \in Unregistered => pc[s] \in Unregistered
  /\ todo[s] = {} /\ to # "undo"
  /\ to \in Registered => pc[s] \in Registered
  /\ to = "over" => pc[s] \in Before \/ pc[s] = "undo"

ShelfOK(s, to) == to \in Shelfless => pc[s] \in Shelfless

SourceOK(s, to) ==
  /\ to \in BeforeSlot => pc[s] \in BeforeSlot
  /\ to # "take" /\ to # "failed"
  /\ s \in Single =>
       /\ to \in Opening \cup Encoding \cup {"conn"} => pc[s] \in Opening \cup Encoding \cup {"conn"}
       /\ to \in Encoding \cup {"probe"} => pc[s] \in Encoding \cup {"probe"}
       /\ to \in Encoding => pc[s] \in Encoding \/ (pc[s] \in Opening /\ s \notin cancelled)
       /\ to \in Opening => pc[s] \in Opening

(* A move that LifeOK allows, and that touches no encoder, registration or Close, keeps
   the life of every session. *)
LEMMA LifeMove ==
  ASSUME SessionsInv, NEW s \in Sessions, NEW to, Moved(s, to), LifeOK(s, to),
         UNCHANGED <<registry, live, closing, todo>>
  PROVE  \A u \in Sessions: LifeInv(u)'
<1>1. \A u \in Sessions: LifeInv(u) /\ (Doomed(u)' <=> Doomed(u)) BY Zenon DEF SessionsInv, Doomed
<1>2. ASSUME NEW u \in Sessions \ {s} PROVE LifeInv(u)'
  <2>1. pc'[u] = pc[u] BY Zenon DEF Moved
  <2> QED BY <1>1, <2>1, Zenon DEF LifeInv
<1>3. LifeInv(s)'
  <2>1. pc'[s] = to BY Zenon DEF Moved
  <2>2. LifeInv(s) /\ (Doomed(s)' <=> Doomed(s)) BY <1>1, Zenon
  <2>3. to \in Before => s \notin live BY <2>2, Zenon DEF LifeInv, LifeOK
  <2>4. to \in Unregistered => s \notin registry /\ ~Doomed(s) BY <2>2, Zenon DEF LifeInv, LifeOK
  <2>5. to \in Registered => s \in registry \/ Doomed(s) BY <2>2, Zenon DEF LifeInv, LifeOK
  <2>6. to = "over" => s \notin registry /\ (s \in live => Doomed(s))
    BY <2>2, Zenon DEF LifeInv, LifeOK, Unregistered
  <2> QED BY <2>1, <2>2, <2>3, <2>4, <2>5, <2>6, Zenon DEF LifeInv, LifeOK
<1> QED BY <1>2, <1>3, Zenon

(* ... and one that ShelfOK allows keeps what each has of its cache entry. *)
LEMMA ShelfMove ==
  ASSUME SessionsInv, NEW s \in Sessions, NEW to, Moved(s, to), ShelfOK(s, to),
         UNCHANGED <<writer, pins, place, closing>>
  PROVE  \A u \in Sessions: ShelfInv(u)'
<1>1. \A u \in Sessions: ShelfInv(u) BY Zenon DEF SessionsInv
<1>2. \A u \in Sessions: pc'[u] \in Shelfless => pc[u] \in Shelfless BY Zenon DEF Moved, ShelfOK
<1> QED BY <1>1, <1>2, Zenon DEF ShelfInv

(* A session the source of which nothing happens to. *)
SourceSpared(u) ==
  /\ pc'[u] = pc[u] /\ (closing'[u] \in {"cache", "done"} => closing[u] \in {"cache", "done"})
  /\ u \in live' => u \in live
  /\ (sem' = u <=> sem = u) /\ (u \in holds' <=> u \in holds)
  /\ (gaveWay => gaveWay') /\ (dl' = "transfer" => dl = "transfer")
  /\ u \in cancelled => u \in cancelled'

(* A session that a step does not bring closer to the account keeps its part of it. *)
LEMMA SourceSparedInv ==
  ASSUME NEW u \in Sessions, SourceInv(u), SourceSpared(u)
  PROVE  SourceInv(u)'
BY Zenon DEF SourceInv, SourceSpared

(* A move that SourceOK allows keeps what each session has of the account. *)
LEMMA SourceMove ==
  ASSUME SessionsInv, NEW s \in Sessions, NEW to, Moved(s, to), SourceOK(s, to),
         UNCHANGED <<sem, holds, dl, gaveWay, cancelled, closing, live>>
  PROVE  \A u \in Sessions: SourceInv(u)'
<1>1. \A u \in Sessions: SourceInv(u) BY Zenon DEF SessionsInv
<1>2. ASSUME NEW u \in Sessions \ {s} PROVE SourceInv(u)'
  <2>1. SourceSpared(u) BY Zenon DEF Moved, SourceSpared
  <2> QED BY <1>1, <2>1, SourceSparedInv, Zenon
<1>3. SourceInv(s)'
  <2>1. pc'[s] = to /\ SourceInv(s) BY <1>1, Zenon DEF Moved
  <2>2. to \in BeforeSlot => sem # s BY <2>1, Zenon DEF SourceInv, SourceOK
  <2>3. closing[s] \in {"cache", "done"} => sem # s /\ s \notin holds BY <2>1, Zenon DEF SourceInv
  <2>4. s \in Single /\ to \in Opening \cup Encoding \cup {"conn"} => s \in holds
    BY <2>1, Zenon DEF SourceInv, SourceOK
  <2>5. s \in Single /\ ~gaveWay /\ (to \in Encoding \cup {"probe"} \/ s \in live) => sem = s
    BY <2>1, Zenon DEF SourceInv, SourceOK
  <2>6. s \in Single /\ ~gaveWay /\ dl = "transfer" =>
          to \notin Encoding /\ s \notin live /\ (to \in Opening => s \in cancelled)
    BY <2>1, Zenon DEF SourceInv, SourceOK
  <2>7. to # "take" /\ to # "failed" BY Zenon DEF SourceOK
  <2>8. s \in Single /\ ~gaveWay /\ s \in live => s \in holds BY <2>1, Zenon DEF SourceInv
  <2> QED BY <2>1, <2>2, <2>3, <2>4, <2>5, <2>6, <2>7, <2>8, Zenon DEF SourceInv
<1> QED BY <1>2, <1>3, Zenon

quiet == <<registry, live, closing, todo, place, writer, pins, sem, holds, dl, gaveWay, cancelled, closed>>

(* A quiet move, one that only changes where its goroutine is, keeps the invariant. *)
LEMMA QuietInv ==
  ASSUME SessionsInv, NEW s \in Sessions, NEW to, Moved(s, to), UNCHANGED quiet,
         DOMAIN cancels' = Sessions, LifeOK(s, to), ShelfOK(s, to), SourceOK(s, to)
  PROVE  SessionsInv'
<1>1. \A u \in Sessions: LifeInv(u)' BY LifeMove, Zenon DEF quiet
<1>2. \A u \in Sessions: ShelfInv(u)' BY ShelfMove, Zenon DEF quiet
<1>3. \A u \in Sessions: SourceInv(u)' BY SourceMove, Zenon DEF quiet
<1>4. SessionsTypeOK' BY Zenon DEF SessionsInv, SessionsTypeOK, Moved, quiet
<1> QED BY <1>1, <1>2, <1>3, <1>4, Zenon DEF SessionsInv

(* The moves that change nothing else. *)
QuietMove(s, to) ==
  \/ pc[s] = "new" /\ to \in {"defer", "reap"}
  \/ pc[s] \in {"defer", "reaping"} /\ todo[s] = {} /\ to = Gate(s)
  \/ pc[s] \in {"defer", "failed"} /\ to = "over"
  \/ pc[s] = "arrive" /\ to = "slot"
  \/ pc[s] = "slot" /\ to = "try"
  \/ pc[s] = "try" /\ to = "slot"
  \/ pc[s] = "probe" /\ to = "fail"
  \/ pc[s] = "probe" /\ to = "probing" /\ s \notin cancelled
  \/ pc[s] = "probing" /\ to \in {"fail", "miss", "spawn"}
  \/ pc[s] = "built" /\ to = "register"
  \/ pc[s] = "evicting" /\ todo[s] = {} /\ to = "recheck"
  \/ pc[s] = "recheck" /\ to = "served"
  \/ pc[s] = "undo" /\ todo[s] = {} /\ to = "over"

(* The quiet moves of the start path satisfy all three conditions. *)
LEMMA QuietMoves ==
  ASSUME SessionsInv, NEW s \in Sessions, NEW to, QuietMove(s, to)
  PROVE  LifeOK(s, to) /\ ShelfOK(s, to) /\ SourceOK(s, to)
<1> USE DEF Before, BeforeSlot, Opening, Encoding, Shelfless, Unregistered, Registered
<1>1. todo[s] = {} BY DEF SessionsInv, LifeInv, QuietMove, Closers
<1>2. LifeOK(s, to) BY <1>1 DEF QuietMove, LifeOK, Gate
<1>3. ShelfOK(s, to) BY DEF QuietMove, ShelfOK, Gate
<1>4. SourceOK(s, to) BY DEF QuietMove, SourceOK, Gate
<1> QED BY <1>2, <1>3, <1>4, Zenon

(* ... so a step along one of them keeps the invariant. *)
LEMMA QuietStep ==
  ASSUME SessionsInv, NEW s \in Sessions, NEW from, NEW to, Step(s, from, to),
         pc[s] = from => QuietMove(s, to), UNCHANGED quiet, DOMAIN cancels' = Sessions
  PROVE  SessionsInv'
<1>1. pc[s] = from /\ Moved(s, to) BY StepMoves, Zenon DEF SessionsInv
<1>2. QuietMove(s, to) BY <1>1, Zenon
<1> QED BY <1>1, <1>2, QuietMoves, QuietInv, Zenon

(* Adding to the table of cancels, or removing from it, keeps its domain. *)
LEMMA CancelsDomain ==
  ASSUME SessionsTypeOK, NEW s
  PROVE  /\ remove(s) => DOMAIN cancels' = Sessions
         /\ add(s, "start") => DOMAIN cancels' = Sessions
         /\ UNCHANGED tables => DOMAIN cancels' = Sessions /\ closed' = closed
BY Zenon DEF SessionsTypeOK, remove, add, tables

(* The steps of startHLSPlayback and acquire that only move on. *)
LEMMA QuietActions ==
  ASSUME SessionsInv, NEW s \in Sessions,
         \/ OnStreamSession(s) \/ Deferred(s) \/ Abandon(s) \/ Reaped(s) \/ Arrive(s) \/ Round(s)
         \/ Tick(s) \/ Probe(s) \/ Failed(s) \/ Evicted(s) \/ Undone(s)
  PROVE  SessionsInv'
<1>0. SessionsTypeOK BY Zenon DEF SessionsInv
<1> USE DEF QuietMove
<1>1. CASE OnStreamSession(s)
  <2>1. UNCHANGED quiet /\ DOMAIN cancels' = Sessions
    BY <1>0, <1>1, CancelsDomain, Zenon DEF OnStreamSession, quiet, session, cache, account
  <2>2. Step(s, "new", "defer") \/ Step(s, "new", "reap") BY <1>1, Zenon DEF OnStreamSession
  <2> QED BY <2>1, <2>2, QuietStep, Zenon
<1>2. CASE Deferred(s)
  <2>1. UNCHANGED quiet /\ DOMAIN cancels' = Sessions
    BY <1>0, <1>2, CancelsDomain, Zenon DEF Deferred, quiet, session, cache, account
  <2>2. Step(s, "defer", Gate(s)) BY <1>2, Zenon DEF Deferred
  <2>3. pc[s] = "defer" => todo[s] = {} BY Zenon DEF SessionsInv, LifeInv, Closers
  <2> QED BY <2>1, <2>2, <2>3, QuietStep, Zenon
<1>3. CASE Abandon(s)
  <2>1. UNCHANGED quiet /\ DOMAIN cancels' = Sessions
    BY <1>0, <1>3, CancelsDomain, Zenon DEF Abandon, quiet, session, cache, account
  <2>2. Step(s, "defer", "over") BY <1>3, Zenon DEF Abandon
  <2> QED BY <2>1, <2>2, QuietStep, Zenon
<1>4. CASE Reaped(s)
  <2>1. UNCHANGED quiet /\ DOMAIN cancels' = Sessions
    BY <1>0, <1>4, CancelsDomain, Zenon DEF Reaped, quiet, session, cache, account
  <2>2. Step(s, "reaping", Gate(s)) /\ todo[s] = {} BY <1>4, Zenon DEF Reaped, Finished
  <2> QED BY <2>1, <2>2, QuietStep, Zenon
<1>5. CASE Arrive(s)
  <2>1. UNCHANGED quiet /\ DOMAIN cancels' = Sessions
    BY <1>0, <1>5, CancelsDomain, Zenon DEF Arrive, quiet, session, cache, account
  <2>2. Step(s, "arrive", "slot") BY <1>5, Zenon DEF Arrive
  <2> QED BY <2>1, <2>2, QuietStep, Zenon
<1>6. CASE Round(s)
  <2>1. UNCHANGED quiet /\ DOMAIN cancels' = Sessions
    BY <1>0, <1>6, CancelsDomain, Zenon DEF Round, quiet, session, cache, account
  <2>2. Step(s, "slot", "try") BY <1>6, Zenon DEF Round
  <2> QED BY <2>1, <2>2, QuietStep, Zenon
<1>7. CASE Tick(s)
  <2>1. UNCHANGED quiet /\ DOMAIN cancels' = Sessions
    BY <1>0, <1>7, CancelsDomain, Zenon DEF Tick, quiet, session, cache, account
  <2>2. Step(s, "try", "slot") BY <1>7, Zenon DEF Tick
  <2> QED BY <2>1, <2>2, QuietStep, Zenon
<1>8. CASE Probe(s)
  <2>1. UNCHANGED quiet /\ DOMAIN cancels' = Sessions
    BY <1>0, <1>8, CancelsDomain, Zenon DEF Probe, quiet, session, cache, account
  <2>2. CASE s \in cancelled
    <3>1. Step(s, "probe", "fail") BY <1>8, <2>2, Zenon DEF Probe
    <3>2. pc[s] = "probe" => QuietMove(s, "fail") BY Zenon
    <3> HIDE DEF QuietMove
    <3> QED BY <2>1, <3>1, <3>2, QuietStep, Zenon
  <2>3. CASE s \notin cancelled
    <3>1. Step(s, "probe", "probing") BY <1>8, <2>3, Zenon DEF Probe
    <3> QED BY <2>1, <2>3, <3>1, QuietStep, Zenon
  <2> QED BY <2>2, <2>3, Zenon
<1>9. CASE Failed(s)
  <2>1. UNCHANGED quiet /\ DOMAIN cancels' = Sessions
    BY <1>0, <1>9, CancelsDomain, Zenon DEF Failed, quiet, session, cache, account
  <2>2. Step(s, "failed", "over") BY <1>9, Zenon DEF Failed
  <2> QED BY <2>1, <2>2, QuietStep, Zenon
<1>10. CASE Evicted(s)
  <2>1. UNCHANGED quiet /\ DOMAIN cancels' = Sessions
    BY <1>0, <1>10, CancelsDomain, Zenon DEF Evicted, quiet, session, cache, account
  <2>2. Step(s, "evicting", "recheck") /\ todo[s] = {} BY <1>10, Zenon DEF Evicted, Finished
  <2> QED BY <2>1, <2>2, QuietStep, Zenon
<1>11. CASE Undone(s)
  <2>1. UNCHANGED quiet /\ DOMAIN cancels' = Sessions
    BY <1>0, <1>11, CancelsDomain, Zenon DEF Undone, quiet, session, cache, account
  <2>2. Step(s, "undo", "over") /\ todo[s] = {} BY <1>11, Zenon DEF Undone, Finished
  <2> QED BY <2>1, <2>2, QuietStep, Zenon
<1> QED BY <1>1, <1>2, <1>3, <1>4, <1>5, <1>6, <1>7, <1>8, <1>9, <1>10, <1>11, Zenon

-----------------------------------------------------------------------------
(* The provider slot and the playback hold *)

(* A step of one session that takes or gives back what it needs for its source. *)
LEMMA SourceStep ==
  ASSUME SessionsInv, NEW s \in Sessions, NEW to, Moved(s, to), LifeOK(s, to), ShelfOK(s, to),
         UNCHANGED <<registry, live, closing, todo, place, writer, pins, dl, cancelled, cancels, closed>>,
         \A u \in Sessions \ {s}: (sem' = u <=> sem = u) /\ (u \in holds' <=> u \in holds),
         gaveWay => gaveWay', gaveWay' \in BOOLEAN, sem' \in Sessions \cup {Nobody}, SourceInv(s)'
  PROVE  SessionsInv'
<1>1. \A u \in Sessions: LifeInv(u)' BY LifeMove, Zenon
<1>2. \A u \in Sessions: ShelfInv(u)' BY ShelfMove, Zenon
<1>3. \A u \in Sessions \ {s}: SourceSpared(u) BY Zenon DEF Moved, SourceSpared
<1>4. \A u \in Sessions: SourceInv(u)' BY <1>3, SourceSparedInv, Zenon DEF SessionsInv
<1>5. SessionsTypeOK' BY Zenon DEF SessionsInv, SessionsTypeOK, Moved
<1> QED BY <1>1, <1>2, <1>4, <1>5, Zenon DEF SessionsInv

(* A session on its way to an encoder has none, and nobody closes it. *)
LEMMA OnItsWay ==
  ASSUME SessionsInv, NEW s \in Sessions, pc[s] \in Before \ {"reaping"}
  PROVE  s \notin live /\ closing[s] = "no" /\ todo[s] = {}
BY Zenon DEF SessionsInv, LifeInv, Unregistered, Doomed, Closers, Before, BeforeSlot, Opening, Encoding

(* The moves that do. *)
SourceMoves(s, to) ==
  \/ pc[s] = "hold" /\ to = "conn"
  \/ pc[s] = "conn" /\ to = "arrive"
  \/ pc[s] \in {"slot", "try", "take", "fail"} /\ to = "failed"
  \/ pc[s] = "try" /\ to \in {"take", "probe"}
  \/ pc[s] = "take" /\ to = "probe"
  \/ pc[s] = "mkdir" /\ to = "built"

(* The moves that take or give back the account: the session has no encoder yet. *)
LEMMA SourceMovesOK ==
  ASSUME SessionsInv, NEW s \in Sessions, NEW to, SourceMoves(s, to)
  PROVE  /\ LifeOK(s, to) /\ ShelfOK(s, to)
         /\ SourceInv(s) /\ s \notin live /\ closing[s] = "no"
<1> USE DEF Before, BeforeSlot, Opening, Encoding, Shelfless, Unregistered, Registered
<1>1. pc[s] \in Before \ {"reaping"} BY DEF SourceMoves
<1>2. s \notin live /\ closing[s] = "no" /\ todo[s] = {} /\ SourceInv(s) BY <1>1, OnItsWay, Zenon DEF SessionsInv
<1>3. LifeOK(s, to) BY <1>2 DEF SourceMoves, LifeOK
<1>4. ShelfOK(s, to) BY DEF SourceMoves, ShelfOK
<1> QED BY <1>2, <1>3, <1>4, Zenon

sourceRest == <<registry, live, closing, todo, place, writer, pins, cancelled, cancels, closed>>

(* Pin: the playback hold is taken before the connection is asked for. *)
LEMMA PinInv ==
  ASSUME SessionsInv, NEW s \in Sessions, Pin(s)
  PROVE  SessionsInv'
<1>1. pc[s] = "hold" /\ Moved(s, "conn") BY StepMoves, Zenon DEF SessionsInv, Pin
<1>2. UNCHANGED sourceRest /\ UNCHANGED <<dl, sem, gaveWay>> /\ holds' = holds \cup {s}
  BY Zenon DEF Pin, sourceRest, session, cache, tables
<1>3. /\ LifeOK(s, "conn") /\ ShelfOK(s, "conn")
      /\ SourceInv(s) /\ s \notin live /\ closing[s] = "no"
  BY <1>1, SourceMovesOK, Zenon DEF SourceMoves
<1>4. SourceInv(s)'
  <2>1. pc'[s] = "conn" /\ sem # s BY <1>1, <1>3 DEF Moved, SourceInv, BeforeSlot
  <2> QED BY <1>2, <1>3, <2>1 DEF SourceInv, Opening, Encoding, sourceRest
<1> QED BY <1>1, <1>2, <1>3, <1>4, SourceStep, Zenon DEF sourceRest, SessionsInv, SessionsTypeOK

(* HoldForStream: the stream goes on once the download is off the connection, or the
   wait has run out. *)
LEMMA HoldForStreamInv ==
  ASSUME SessionsInv, NEW s \in Sessions, HoldForStream(s)
  PROVE  SessionsInv'
<1>1. pc[s] = "conn" /\ Moved(s, "arrive") BY StepMoves, Zenon DEF SessionsInv, HoldForStream
<1>2. UNCHANGED sourceRest /\ UNCHANGED <<dl, sem, holds>>
  BY Zenon DEF HoldForStream, sourceRest, session, cache, tables
<1>3. /\ LifeOK(s, "arrive") /\ ShelfOK(s, "arrive")
      /\ SourceInv(s) /\ s \notin live /\ closing[s] = "no"
  BY <1>1, SourceMovesOK, Zenon DEF SourceMoves
<1>4. /\ gaveWay' = gaveWay \/ gaveWay' = TRUE
      /\ gaveWay' = TRUE \/ dl # "transfer" \/ s \in cancelled
  BY Zenon DEF HoldForStream, ConnFree
<1>5. gaveWay' \in BOOLEAN /\ (gaveWay => gaveWay')
  <2>1. CASE gaveWay' = gaveWay BY <2>1, Zenon DEF SessionsInv, SessionsTypeOK
  <2>2. CASE gaveWay' = TRUE BY <2>2, Zenon
  <2> QED BY <1>4, <2>1, <2>2, Zenon
<1>6. SourceInv(s)'
  <2>1. pc'[s] = "arrive" /\ sem # s /\ (s \in Single => s \in holds)
    BY <1>1, <1>3 DEF Moved, SourceInv, BeforeSlot
  <2>2. ~gaveWay' => dl # "transfer" \/ s \in cancelled BY <1>4, Zenon
  <2> QED BY <1>2, <1>3, <2>1, <2>2, Zenon DEF SourceInv, Opening, Encoding, BeforeSlot, sourceRest
<1> QED BY <1>1, <1>2, <1>3, <1>5, <1>6, SourceStep, Zenon DEF sourceRest, SessionsInv, SessionsTypeOK

(* holdIptvForStream: a start that was overtaken or cancelled gives its hold back. *)
LEMMA LeaveSlotInv ==
  ASSUME SessionsInv, NEW s \in Sessions, LeaveSlot(s)
  PROVE  SessionsInv'
<1>1. pc[s] \in {"slot", "try"} /\ Moved(s, "failed") BY StepMoves, Zenon DEF SessionsInv, LeaveSlot
<1>2. UNCHANGED sourceRest /\ UNCHANGED <<dl, sem, gaveWay>> /\ holds' = holds \ {s}
  BY Zenon DEF LeaveSlot, sourceRest, session, cache, tables
<1>3. /\ LifeOK(s, "failed") /\ ShelfOK(s, "failed")
      /\ SourceInv(s) /\ s \notin live /\ closing[s] = "no"
  BY <1>1, SourceMovesOK, Zenon DEF SourceMoves
<1>4. SourceInv(s)'
  <2>1. pc'[s] = "failed" /\ sem # s BY <1>1, <1>3 DEF Moved, SourceInv, BeforeSlot
  <2> QED BY <1>2, <1>3, <2>1, Zenon DEF SourceInv, Opening, Encoding, sourceRest
<1> QED BY <1>1, <1>2, <1>3, <1>4, SourceStep, Zenon DEF sourceRest, SessionsInv, SessionsTypeOK

(* acquire: the semaphore is taken when it is free. *)
LEMMA FillSemInv ==
  ASSUME SessionsInv, NEW s \in Sessions, FillSem(s)
  PROVE  SessionsInv'
<1>1. pc[s] = "try" /\ Moved(s, "take") BY StepMoves, Zenon DEF SessionsInv, FillSem
<1>2. UNCHANGED sourceRest /\ UNCHANGED <<dl, holds, gaveWay>> /\ sem = Nobody /\ sem' = s
  BY Zenon DEF FillSem, sourceRest, session, cache, tables
<1>3. /\ LifeOK(s, "take") /\ ShelfOK(s, "take")
      /\ SourceInv(s) /\ s \notin live /\ closing[s] = "no"
  BY <1>1, SourceMovesOK, Zenon DEF SourceMoves
<1>4. SourceInv(s)'
  <2>1. /\ pc'[s] = "take" /\ (s \in Single => s \in holds)
        /\ s \in Single /\ ~gaveWay /\ dl = "transfer" => s \in cancelled
    BY <1>1, <1>3, Zenon DEF Moved, SourceInv, Opening
  <2> QED BY <1>2, <1>3, <2>1, Zenon DEF SourceInv, Opening, Encoding, BeforeSlot, sourceRest
<1>5. \A u \in Sessions \ {s}: sem' = u <=> sem = u BY <1>2, SessionAssumption, Zenon
<1> QED BY <1>1, <1>2, <1>3, <1>4, <1>5, SourceStep, Zenon DEF sourceRest, SessionsInv, SessionsTypeOK

(* acquire: a wait that ran out gives way, and says so. *)
LEMMA OpenAnywayInv ==
  ASSUME SessionsInv, NEW s \in Sessions, OpenAnyway(s)
  PROVE  SessionsInv'
<1>1. pc[s] = "try" /\ Moved(s, "probe") BY StepMoves, Zenon DEF SessionsInv, OpenAnyway
<1>2. UNCHANGED sourceRest /\ UNCHANGED <<dl, holds, sem>> /\ gaveWay' = TRUE
  BY Zenon DEF OpenAnyway, sourceRest, session, cache, tables
<1>3. /\ LifeOK(s, "probe") /\ ShelfOK(s, "probe")
      /\ SourceInv(s) /\ s \notin live /\ closing[s] = "no"
  BY <1>1, SourceMovesOK, Zenon DEF SourceMoves
<1>4. SourceInv(s)'
  <2>1. pc'[s] = "probe" /\ (s \in Single => s \in holds) BY <1>1, <1>3, Zenon DEF Moved, SourceInv, Opening
  <2> QED BY <1>2, <1>3, <2>1, Zenon DEF SourceInv, Opening, Encoding, BeforeSlot, sourceRest
<1> QED BY <1>1, <1>2, <1>3, <1>4, SourceStep, Zenon DEF sourceRest, SessionsInv, SessionsTypeOK

(* take: when a newer session has arrived since, the semaphore and the hold go back. *)
LEMMA TakeInv ==
  ASSUME SessionsInv, NEW s \in Sessions, take(s)
  PROVE  SessionsInv'
<1>1. UNCHANGED sourceRest /\ UNCHANGED <<dl, gaveWay>> BY Zenon DEF take, sourceRest, session, cache, tables
<1>2. CASE Step(s, "take", "probe") /\ UNCHANGED <<sem, holds>>
  <2>1. pc[s] = "take" /\ Moved(s, "probe") BY <1>2, StepMoves, Zenon DEF SessionsInv
  <2>2. /\ LifeOK(s, "probe") /\ ShelfOK(s, "probe")
        /\ SourceInv(s) /\ s \notin live /\ closing[s] = "no"
    BY <2>1, SourceMovesOK, Zenon DEF SourceMoves
  <2>3. SourceInv(s)'
    <3>1. /\ pc'[s] = "probe" /\ sem = s /\ (s \in Single => s \in holds)
          /\ s \in Single /\ ~gaveWay /\ dl = "transfer" => s \in cancelled
      BY <2>1, <2>2, Zenon DEF Moved, SourceInv, Opening
    <3> QED BY <1>1, <1>2, <2>2, <3>1, Zenon DEF SourceInv, Opening, Encoding, BeforeSlot, sourceRest
  <2> QED BY <1>1, <1>2, <2>1, <2>2, <2>3, SourceStep, Zenon DEF sourceRest, SessionsInv, SessionsTypeOK
<1>3. CASE Step(s, "take", "failed") /\ sem' = Nobody /\ holds' = holds \ {s}
  <2>1. pc[s] = "take" /\ Moved(s, "failed") BY <1>3, StepMoves, Zenon DEF SessionsInv
  <2>2. /\ LifeOK(s, "failed") /\ ShelfOK(s, "failed")
        /\ SourceInv(s) /\ s \notin live /\ closing[s] = "no"
    BY <2>1, SourceMovesOK, Zenon DEF SourceMoves
  <2>3. SourceInv(s)'
    <3>1. pc'[s] = "failed" /\ sem' # s BY <1>3, <2>1, SessionAssumption, Zenon DEF Moved
    <3> QED BY <1>1, <1>3, <2>2, <3>1, Zenon DEF SourceInv, Opening, Encoding, BeforeSlot, sourceRest
  <2>4. \A u \in Sessions \ {s}: sem' = u <=> sem = u
    <3>1. sem = s BY <2>1, <2>2, Zenon DEF SourceInv
    <3>2. \A u \in Sessions: u # Nobody BY SessionAssumption, Zenon
    <3> QED BY <1>3, <3>1, <3>2, Zenon
  <2> QED BY <1>1, <1>3, <2>1, <2>2, <2>3, <2>4, SourceStep, Zenon DEF sourceRest, SessionsInv, SessionsTypeOK
<1> QED BY <1>2, <1>3, Zenon DEF take

(* The release of the source on return, of a hit and of a start that failed. *)
LEMMA ReleaseInv ==
  ASSUME SessionsInv, NEW s \in Sessions, Replay(s) \/ StartFails(s)
  PROVE  SessionsInv'
<1>1. PICK to \in {"built", "failed"}: Moved(s, to) /\ SourceMoves(s, to)
  <2>1. CASE Replay(s)
    <3>1. pc[s] = "mkdir" /\ Moved(s, "built") BY <2>1, StepMoves, Zenon DEF SessionsInv, Replay
    <3> QED BY <3>1, Zenon DEF SourceMoves
  <2>2. CASE StartFails(s)
    <3>1. pc[s] = "fail" /\ Moved(s, "failed") BY <2>2, StepMoves, Zenon DEF SessionsInv, StartFails
    <3> QED BY <3>1, Zenon DEF SourceMoves
  <2> QED BY <2>1, <2>2, Zenon
<1>2. /\ UNCHANGED sourceRest /\ UNCHANGED <<dl, gaveWay>> /\ holds' = holds \ {s}
      /\ sem' = IF sem = s THEN Nobody ELSE sem
  BY Zenon DEF Replay, StartFails, ReleaseSource, sourceRest, session, cache, tables
<1>3. /\ LifeOK(s, to) /\ ShelfOK(s, to)
      /\ SourceInv(s) /\ s \notin live /\ closing[s] = "no"
  BY <1>1, SourceMovesOK, Zenon
<1>4. /\ sem' # s /\ sem' \in Sessions \cup {Nobody}
      /\ \A u \in Sessions \ {s}: sem' = u <=> sem = u
  BY <1>2, SessionAssumption, Zenon DEF SessionsInv, SessionsTypeOK
<1>5. SourceInv(s)'
  <2>1. pc'[s] \in {"built", "failed"} BY <1>1, Zenon DEF Moved
  <2> QED BY <1>2, <1>3, <1>4, <2>1, Zenon DEF SourceInv, Opening, Encoding, BeforeSlot, sourceRest
<1> QED BY <1>1, <1>2, <1>3, <1>4, <1>5, SourceStep, Zenon DEF sourceRest, SessionsInv, SessionsTypeOK

-----------------------------------------------------------------------------
(* The writer lock and the pins of the cache entry *)

ShelfMoves(s, to) ==
  \/ pc[s] = "probing" /\ to = "mkdir"
  \/ pc[s] = "miss" /\ to = "spawn"
  \/ pc[s] \in {"mkdir", "spawn"} /\ to = "fail"

(* The moves that take or give back the cache entry: the session is not registered yet. *)
LEMMA ShelfMovesOK ==
  ASSUME SessionsInv, NEW s \in Sessions, NEW to, ShelfMoves(s, to)
  PROVE  LifeOK(s, to) /\ SourceOK(s, to) /\ ShelfInv(s) /\ closing[s] = "no"
<1> USE DEF Before, BeforeSlot, Opening, Encoding, Unregistered, Registered
<1>1. pc[s] \in Before \ {"reaping"} BY DEF ShelfMoves
<1>2. closing[s] = "no" /\ todo[s] = {} /\ ShelfInv(s) BY <1>1, OnItsWay, Zenon DEF SessionsInv
<1>3. LifeOK(s, to) BY <1>2 DEF ShelfMoves, LifeOK
<1>4. SourceOK(s, to) BY DEF ShelfMoves, SourceOK
<1> QED BY <1>2, <1>3, <1>4, Zenon

shelfRest == <<registry, live, closing, todo, sem, holds, dl, gaveWay, cancelled, cancels, closed>>

(* A step of one session that takes or gives back its part of the entry. *)
LEMMA ShelfStep ==
  ASSUME SessionsInv, NEW s \in Sessions, NEW to, Moved(s, to), ShelfMoves(s, to), UNCHANGED shelfRest,
         DOMAIN place' = Sessions, ShelfInv(s)',
         \A u \in Sessions \ {s}: /\ writer' = u => writer = u
                                  /\ u \in pins' => u \in pins
                                  /\ place'[u] = place[u]
  PROVE  SessionsInv'
<1>1. LifeOK(s, to) /\ SourceOK(s, to) BY ShelfMovesOK, Zenon
<1>2. \A u \in Sessions: LifeInv(u)' BY <1>1, LifeMove, Zenon DEF shelfRest
<1>3. \A u \in Sessions: SourceInv(u)' BY <1>1, SourceMove, Zenon DEF shelfRest
<1>4. \A u \in Sessions \ {s}: ShelfInv(u)'
  <2>1. \A u \in Sessions \ {s}: ShelfInv(u) /\ pc'[u] = pc[u] BY Zenon DEF SessionsInv, Moved
  <2> QED BY <2>1, Zenon DEF ShelfInv, shelfRest
<1>5. SessionsTypeOK' BY Zenon DEF SessionsInv, SessionsTypeOK, Moved, shelfRest
<1> QED BY <1>2, <1>3, <1>4, <1>5, Zenon DEF SessionsInv

(* StartHLSSession: a cached entry is pinned, a miss goes on to the writer lock. *)
LEMMA LookInv ==
  ASSUME SessionsInv, NEW s \in Sessions, Look(s)
  PROVE  SessionsInv'
<1>1. UNCHANGED shelfRest /\ UNCHANGED writer
  BY Zenon DEF Look, shelfRest, account, tables
<1>2. CASE Step(s, "probing", "fail") /\ UNCHANGED <<place, pins>>
  <2>1. UNCHANGED quiet /\ DOMAIN cancels' = Sessions
    BY <1>1, <1>2, Zenon DEF quiet, shelfRest, SessionsInv, SessionsTypeOK
  <2> QED BY <1>2, <2>1, QuietStep, Zenon DEF QuietMove
<1>3. CASE /\ Step(s, "probing", "mkdir")
           /\ place' = [place EXCEPT ![s] = "hit"] /\ pins' = pins \cup {s}
  <2>1. pc[s] = "probing" /\ Moved(s, "mkdir") BY <1>3, StepMoves, Zenon DEF SessionsInv
  <2>2. ShelfMoves(s, "mkdir") BY <2>1, Zenon DEF ShelfMoves
  <2>3. ShelfInv(s) /\ closing[s] = "no" BY <2>2, ShelfMovesOK, Zenon
  <2>4. /\ DOMAIN place' = Sessions
        /\ \A u \in Sessions \ {s}: place'[u] = place[u] /\ (u \in pins' => u \in pins)
    BY <1>3, Zenon DEF SessionsInv, SessionsTypeOK
  <2>5. ShelfInv(s)'
    <3>1. writer # s BY <2>1, <2>3, Zenon DEF ShelfInv, Shelfless, Before, Encoding
    <3>2. pc'[s] \notin Shelfless BY <2>1, Zenon DEF Moved, Shelfless
    <3> QED BY <1>1, <2>3, <3>1, <3>2, Zenon DEF ShelfInv, shelfRest
  <2> QED BY <1>1, <2>1, <2>2, <2>4, <2>5, ShelfStep, Zenon
<1>4. CASE (Step(s, "probing", "miss") \/ Step(s, "probing", "spawn")) /\ UNCHANGED <<place, pins>>
  <2>1. UNCHANGED quiet /\ DOMAIN cancels' = Sessions
    BY <1>1, <1>4, Zenon DEF quiet, shelfRest, SessionsInv, SessionsTypeOK
  <2> QED BY <1>4, <2>1, QuietStep, Zenon DEF QuietMove
<1> QED BY <1>2, <1>3, <1>4, Zenon DEF Look

(* TryAcquireWriter: one session at a time writes an entry. *)
LEMMA TryAcquireWriterInv ==
  ASSUME SessionsInv, NEW s \in Sessions, TryAcquireWriter(s)
  PROVE  SessionsInv'
<1>1. pc[s] = "miss" /\ Moved(s, "spawn") BY StepMoves, Zenon DEF SessionsInv, TryAcquireWriter
<1>2. UNCHANGED shelfRest BY Zenon DEF TryAcquireWriter, shelfRest, account, tables
<1>3. ShelfMoves(s, "spawn") BY <1>1, Zenon DEF ShelfMoves
<1>4. ShelfInv(s) /\ closing[s] = "no" BY <1>3, ShelfMovesOK, Zenon
<1>5. /\ DOMAIN place' = Sessions /\ (writer' = s => place'[s] = "write")
      /\ \A u \in Sessions \ {s}: /\ writer' = u => writer = u
                                  /\ u \in pins' => u \in pins
                                  /\ place'[u] = place[u]
  <2>1. CASE writer = Nobody
    <3>1. writer' = s /\ pins' = pins \cup {s} /\ place' = [place EXCEPT ![s] = "write"]
      BY <2>1, Zenon DEF TryAcquireWriter
    <3> QED BY <3>1, Zenon DEF SessionsInv, SessionsTypeOK
  <2>2. CASE writer # Nobody
    <3>1. UNCHANGED <<writer, pins, place>> BY <2>2, Zenon DEF TryAcquireWriter
    <3> QED BY <1>4, <3>1, Zenon DEF SessionsInv, SessionsTypeOK, ShelfInv
  <2> QED BY <2>1, <2>2, Zenon
<1>6. ShelfInv(s)'
  <2>1. pc'[s] \notin Shelfless BY <1>1, Zenon DEF Moved, Shelfless
  <2> QED BY <1>2, <1>4, <1>5, <2>1, Zenon DEF ShelfInv, shelfRest
<1> QED BY <1>1, <1>2, <1>3, <1>5, <1>6, ShelfStep, Zenon

(* ReleaseWriter takes the lock from its owner. *)
LEMMA LockReleased ==
  ASSUME NEW s \in Sessions, ShelfInv(s), ReleaseWriter(s)
  PROVE  writer' # s /\ \A u \in Sessions: writer' = u => writer = u
BY SessionAssumption, Zenon DEF ReleaseWriter, ShelfInv

(* cleanupOnError: the lock and the pin go together. *)
LEMMA CleanupInv ==
  ASSUME SessionsInv, NEW s \in Sessions, CleanupOnError(s)
  PROVE  SessionsInv'
<1>1. pc[s] \in {"mkdir", "spawn"} /\ Moved(s, "fail") BY GotoMoves, Zenon DEF SessionsInv, CleanupOnError
<1>2. UNCHANGED shelfRest /\ place' = place /\ pins' = pins \ {s}
  BY Zenon DEF CleanupOnError, shelfRest, account, tables, session
<1>3. ShelfMoves(s, "fail") BY <1>1, Zenon DEF ShelfMoves
<1>4. ShelfInv(s) /\ closing[s] = "no" BY <1>3, ShelfMovesOK, Zenon
<1>5. writer' # s /\ \A u \in Sessions: writer' = u => writer = u
  BY <1>4, LockReleased, Zenon DEF CleanupOnError
<1>6. ShelfInv(s)' BY <1>2, <1>5, Zenon DEF ShelfInv
<1>7. DOMAIN place' = Sessions BY <1>2, Zenon DEF SessionsInv, SessionsTypeOK
<1> QED BY <1>1, <1>2, <1>3, <1>5, <1>6, <1>7, ShelfStep, Zenon

-----------------------------------------------------------------------------
(* The encoder and the registry *)

(* An encoder runs only while the session has the slot and the hold. *)
LEMMA SpawnInv ==
  ASSUME SessionsInv, NEW s \in Sessions, SpawnFFmpeg(s)
  PROVE  SessionsInv'
<1>1. pc[s] = "spawn" /\ Moved(s, "built") /\ pc'[s] = "built"
  BY StepMoves, Zenon DEF SessionsInv, SpawnFFmpeg, Moved
<1>2. /\ UNCHANGED <<registry, closing, todo, place, writer, pins, sem, holds, dl, gaveWay, cancelled,
                     cancels, closed>>
      /\ live' = live \cup {s}
  BY Zenon DEF SpawnFFmpeg, cache, account, tables
<1>3. closing[s] = "no" /\ todo[s] = {} /\ LifeInv(s) /\ SourceInv(s)
  BY <1>1, OnItsWay, Zenon DEF SessionsInv, Before, Encoding
<1>4. \A u \in Sessions: LifeInv(u)'
  <2>1. \A u \in Sessions: Doomed(u)' <=> Doomed(u) BY <1>2, Zenon DEF Doomed
  <2>2. ASSUME NEW u \in Sessions \ {s} PROVE LifeInv(u)'
    <3>1. LifeInv(u) /\ pc'[u] = pc[u] BY <1>1, Zenon DEF SessionsInv, Moved
    <3> QED BY <1>2, <2>1, <3>1, Zenon DEF LifeInv
  <2>3. LifeInv(s)'
    <3>1. s \notin registry /\ ~Doomed(s) BY <1>1, <1>3, Zenon DEF LifeInv, Unregistered, Before, Encoding
    <3> QED BY <1>1, <1>2, <1>3, <2>1, <3>1, Zenon DEF LifeInv, Before, BeforeSlot, Opening, Encoding,
                                                 Registered
  <2> QED BY <2>2, <2>3, Zenon
<1>5. \A u \in Sessions: ShelfInv(u)'
  <2>1. ShelfOK(s, "built") BY DEF ShelfOK, Shelfless, Before, BeforeSlot, Opening, Encoding
  <2> QED BY <1>1, <1>2, <2>1, ShelfMove, Zenon
<1>6. \A u \in Sessions: SourceInv(u)'
  <2>1. ASSUME NEW u \in Sessions \ {s} PROVE SourceInv(u)'
    <3>1. SourceSpared(u) BY <1>1, <1>2, Zenon DEF Moved, SourceSpared
    <3> QED BY <3>1, SourceSparedInv, Zenon DEF SessionsInv
  <2>2. SourceInv(s)'
    <3>1. s \in Single /\ ~gaveWay => s \in holds /\ sem = s /\ dl # "transfer"
      BY <1>1, <1>3, Zenon DEF SourceInv, Encoding
    <3> QED BY <1>1, <1>2, <1>3, <3>1, Zenon DEF SourceInv, Opening, Encoding, BeforeSlot
  <2> QED BY <2>1, <2>2, Zenon
<1>7. SessionsTypeOK' BY <1>1, <1>2, Zenon DEF SessionsInv, SessionsTypeOK, Moved
<1> QED BY <1>4, <1>5, <1>6, <1>7, Zenon DEF SessionsInv

(* A goroutine takes sessions out of the registry and has them to close. *)
Takes(s, vs) ==
  /\ todo' \in [Sessions -> SUBSET Sessions] /\ todo'[s] = vs
  /\ \A u \in Sessions \ {s}: todo'[u] = todo[u] /\ (u \in registry' <=> u \in registry /\ u \notin vs)
  /\ vs \ {s} \subseteq registry /\ registry' \subseteq Sessions

registryRest ==
  <<live, closing, place, writer, pins, sem, holds, dl, gaveWay, cancelled, cancels, closed>>

RegistryMoves(s, to) ==
  \/ pc[s] = "reap" /\ to = "reaping"
  \/ pc[s] = "built" /\ to = "undo"
  \/ pc[s] = "register" /\ to \in {"evicting", "recheck"}
  \/ pc[s] = "recheck" /\ to = "undo"

(* Nobody drops out of the registry without being closed. *)
LEMMA TakesDoomed ==
  ASSUME SessionsInv, NEW s \in Sessions, todo[s] = {}, NEW vs, Takes(s, vs), closing' = closing
  PROVE  \A u \in Sessions: Doomed(u)' <=> Doomed(u) \/ u \in vs
<1> SUFFICES ASSUME NEW u \in Sessions PROVE Doomed(u)' <=> Doomed(u) \/ u \in vs OBVIOUS
<1>1. (\E r \in Sessions: u \in todo'[r]) <=> (\E r \in Sessions: u \in todo[r]) \/ u \in vs
  BY Zenon DEF Takes
<1> QED BY <1>1, Zenon DEF Doomed

(* A move that takes the sessions vs out of the registry dooms them, and keeps the rest. *)
LEMMA RegistryStep ==
  ASSUME SessionsInv, NEW s \in Sessions, NEW to, Moved(s, to), RegistryMoves(s, to),
         UNCHANGED registryRest, NEW vs, Takes(s, vs), LifeInv(s)'
  PROVE  SessionsInv'
<1> USE DEF RegistryMoves
<1>1. todo[s] = {} BY DEF SessionsInv, LifeInv, Closers
<1>2. ShelfOK(s, to) BY DEF ShelfOK, Shelfless, Before, BeforeSlot, Opening, Encoding
<1>3. SourceOK(s, to) BY DEF SourceOK, BeforeSlot, Opening, Encoding
<1> HIDE DEF RegistryMoves
<1>4. ASSUME NEW u \in Sessions \ {s} PROVE LifeInv(u)'
  <2>1. LifeInv(u) /\ pc'[u] = pc[u] /\ todo'[u] = todo[u] BY Zenon DEF SessionsInv, Moved, Takes
  <2>2. Doomed(u)' <=> Doomed(u) \/ u \in vs BY <1>1, TakesDoomed, Zenon DEF registryRest
  <2>3. (u \in registry' <=> u \in registry /\ u \notin vs) /\ (u \in vs => u \in registry)
    BY Zenon DEF Takes
  <2> QED BY <2>1, <2>2, <2>3, Zenon DEF LifeInv, registryRest
<1>5. \A u \in Sessions: ShelfInv(u)' BY <1>2, ShelfMove, Zenon DEF registryRest
<1>6. \A u \in Sessions: SourceInv(u)' BY <1>3, SourceMove, Zenon DEF registryRest
<1>7. SessionsTypeOK' BY Zenon DEF SessionsInv, SessionsTypeOK, Moved, registryRest, Takes
<1> QED BY <1>4, <1>5, <1>6, <1>7, Zenon DEF SessionsInv

(* CloseWhere(IsPrewarm): the prewarms leave the registry for the list to close. *)
LEMMA ReapPrewarmsInv ==
  ASSUME SessionsInv, NEW s \in Sessions, ReapPrewarms(s)
  PROVE  SessionsInv'
<1> DEFINE vs == registry \cap prewarm
<1>1. pc[s] = "reap" /\ Moved(s, "reaping") /\ pc'[s] = "reaping"
  BY StepMoves, Zenon DEF SessionsInv, ReapPrewarms, Moved
<1>2. UNCHANGED registryRest BY Zenon DEF ReapPrewarms, registryRest, session, cache, account, tables
<1>3. /\ s \notin live /\ s \notin registry /\ ~Doomed(s) /\ todo[s] = {}
  BY <1>1, Zenon DEF SessionsInv, LifeInv, Unregistered, Before, BeforeSlot, Closers
<1>4. Takes(s, vs)
  <2>1. todo' = [todo EXCEPT ![s] = vs] /\ registry' = registry \ prewarm BY Zenon DEF ReapPrewarms
  <2>2. todo \in [Sessions -> SUBSET Sessions] /\ registry \subseteq Sessions /\ vs \in SUBSET Sessions
    BY Zenon DEF SessionsInv, SessionsTypeOK
  <2>3. todo' \in [Sessions -> SUBSET Sessions] /\ todo'[s] = vs /\ \A u \in Sessions \ {s}: todo'[u] = todo[u]
    BY <2>1, <2>2, Zenon
  <2> QED BY <2>1, <2>2, <2>3, Zenon DEF Takes
<1>5. LifeInv(s)'
  <2>1. s \notin registry' BY <1>3, Zenon DEF ReapPrewarms
  <2>2. ~Doomed(s)' BY <1>2, <1>3, <1>4, TakesDoomed, Zenon DEF registryRest
  <2>3. s \notin live' BY <1>2, <1>3, Zenon DEF registryRest
  <2> QED BY <1>1, <2>1, <2>2, <2>3, Zenon DEF LifeInv, Closers, Registered
<1> QED BY <1>1, <1>2, <1>4, <1>5, RegistryStep, Zenon DEF RegistryMoves

(* startHLSPlayback: a session that was built is registered next, or undone if the web closed it. *)
LEMMA BuiltInv ==
  ASSUME SessionsInv, NEW s \in Sessions, Built(s)
  PROVE  SessionsInv'
<1>1. UNCHANGED registryRest /\ registry' = registry
  BY Zenon DEF Built, registryRest, session, cache, account, tables
<1>2. CASE Step(s, "built", "undo") /\ todo' = [todo EXCEPT ![s] = {s}]
  <2>1. pc[s] = "built" /\ Moved(s, "undo") /\ pc'[s] = "undo"
    BY <1>2, StepMoves, Zenon DEF SessionsInv, Moved
  <2>2. s \notin registry /\ todo[s] = {}
    BY <2>1, Zenon DEF SessionsInv, LifeInv, Unregistered, Closers
  <2>3. Takes(s, {s})
    <3>1. todo \in [Sessions -> SUBSET Sessions] /\ registry \subseteq Sessions /\ {s} \in SUBSET Sessions
      BY Zenon DEF SessionsInv, SessionsTypeOK
    <3>2. todo' \in [Sessions -> SUBSET Sessions] /\ todo'[s] = {s} /\ \A u \in Sessions \ {s}: todo'[u] = todo[u]
      BY <1>2, <3>1, Zenon
    <3> QED BY <1>1, <3>1, <3>2, Zenon DEF Takes
  <2>4. LifeInv(s)'
    <3>1. Doomed(s)' BY <1>1, <2>2, <2>3, TakesDoomed, Zenon DEF registryRest
    <3> QED BY <1>1, <2>1, <2>2, <3>1, Zenon DEF LifeInv, Closers, Registered, Unregistered, Before,
                                                 BeforeSlot, Opening, Encoding
  <2> QED BY <1>1, <2>1, <2>3, <2>4, RegistryStep, Zenon DEF RegistryMoves
<1>3. CASE Step(s, "built", "register") /\ UNCHANGED todo
  <2>1. UNCHANGED quiet /\ DOMAIN cancels' = Sessions
    BY <1>1, <1>3, Zenon DEF quiet, registryRest, SessionsInv, SessionsTypeOK
  <2> QED BY <1>3, <2>1, QuietStep, Zenon DEF QuietMove
<1> QED BY <1>2, <1>3, Zenon DEF Built

(* Register: the evicted sessions leave the registry for the list to close. *)
LEMMA RegisterInv ==
  ASSUME SessionsInv, NEW s \in Sessions, Register(s)
  PROVE  SessionsInv'
<1>1. pc[s] = "register" /\ Moved(s, "evicting") /\ pc'[s] = "evicting"
  BY StepMoves, Zenon DEF SessionsInv, Register, Moved
<1>2. UNCHANGED registryRest BY Zenon DEF Register, registryRest, session, cache, account, tables
<1>3. PICK vs \in SUBSET (registry \ {s}):
        todo' = [todo EXCEPT ![s] = vs] /\ registry' = (registry \ vs) \cup {s}
  BY Zenon DEF Register, Victims
<1>4. Takes(s, vs)
  <2>1. todo \in [Sessions -> SUBSET Sessions] /\ registry \subseteq Sessions /\ vs \in SUBSET Sessions
    BY Zenon DEF SessionsInv, SessionsTypeOK
  <2>2. todo' \in [Sessions -> SUBSET Sessions] /\ todo'[s] = vs /\ \A u \in Sessions \ {s}: todo'[u] = todo[u]
    BY <1>3, <2>1, Zenon
  <2> QED BY <1>3, <2>1, <2>2, Zenon DEF Takes
<1>5. LifeInv(s)'
  <2>1. s \in registry' BY <1>3, Zenon
  <2> QED BY <1>1, <2>1, Zenon DEF LifeInv, Closers, Unregistered, Before, BeforeSlot, Opening, Encoding
<1> QED BY <1>1, <1>2, <1>4, <1>5, RegistryStep, Zenon DEF RegistryMoves

(* RegisterKeep evicts nobody. *)
LEMMA RegisterKeepInv ==
  ASSUME SessionsInv, NEW s \in Sessions, RegisterKeep(s)
  PROVE  SessionsInv'
<1>1. pc[s] = "register" /\ Moved(s, "recheck") /\ pc'[s] = "recheck"
  BY StepMoves, Zenon DEF SessionsInv, RegisterKeep, Moved
<1>2. UNCHANGED registryRest /\ todo' = todo /\ registry' = registry \cup {s}
  BY Zenon DEF RegisterKeep, registryRest, session, cache, account, tables
<1>3. todo[s] = {} BY <1>1, Zenon DEF SessionsInv, LifeInv, Closers
<1>4. Takes(s, {}) BY <1>2, <1>3, Zenon DEF Takes, SessionsInv, SessionsTypeOK
<1>5. LifeInv(s)'
  <2>1. s \in registry' /\ todo'[s] = {} BY <1>2, <1>3, Zenon
  <2> QED BY <1>1, <2>1, Zenon DEF LifeInv, Unregistered, Before, BeforeSlot, Opening, Encoding
<1> QED BY <1>1, <1>2, <1>4, <1>5, RegistryStep, Zenon DEF RegistryMoves

(* unregisterIfClosedByWeb: a session that the web closed meanwhile is undone. *)
LEMMA RecheckInv ==
  ASSUME SessionsInv, NEW s \in Sessions, unregisterIfClosedByWeb(s)
  PROVE  SessionsInv'
<1> DEFINE vs == registry \cap {s}
<1>1. UNCHANGED registryRest
  BY Zenon DEF unregisterIfClosedByWeb, registryRest, session, cache, account, tables
<1>2. CASE Step(s, "recheck", "undo") /\ todo' = [todo EXCEPT ![s] = vs] /\ registry' = registry \ {s}
  <2>1. pc[s] = "recheck" /\ Moved(s, "undo") /\ pc'[s] = "undo"
    BY <1>2, StepMoves, Zenon DEF SessionsInv, Moved
  <2>2. todo[s] = {} /\ (s \in registry \/ Doomed(s))
    BY <2>1, Zenon DEF SessionsInv, LifeInv, Registered, Closers
  <2>3. Takes(s, vs)
    <3>1. todo \in [Sessions -> SUBSET Sessions] /\ registry \subseteq Sessions /\ vs \in SUBSET Sessions
      BY Zenon DEF SessionsInv, SessionsTypeOK
    <3>2. todo' \in [Sessions -> SUBSET Sessions] /\ todo'[s] = vs /\ \A u \in Sessions \ {s}: todo'[u] = todo[u]
      BY <1>2, <3>1, Zenon
    <3> QED BY <1>2, <3>1, <3>2, Zenon DEF Takes
  <2>4. LifeInv(s)'
    <3>1. Doomed(s)' BY <1>1, <2>2, <2>3, TakesDoomed, Zenon DEF registryRest
    <3>2. s \notin registry' BY <1>2, Zenon
    <3> QED BY <2>1, <3>1, <3>2, Zenon DEF LifeInv, Closers, Registered, Unregistered, Before,
                                           BeforeSlot, Opening, Encoding
  <2> QED BY <1>1, <2>1, <2>3, <2>4, RegistryStep, Zenon DEF RegistryMoves
<1>3. CASE Step(s, "recheck", "served") /\ UNCHANGED <<todo, registry>>
  <2>1. UNCHANGED quiet /\ DOMAIN cancels' = Sessions
    BY <1>1, <1>3, Zenon DEF quiet, registryRest, SessionsInv, SessionsTypeOK
  <2> QED BY <1>3, <2>1, QuietStep, Zenon DEF QuietMove
<1> QED BY <1>2, <1>3, Zenon DEF unregisterIfClosedByWeb

-----------------------------------------------------------------------------
(* Closers *)

(* A Close that begins, or goes on, and what leaves the registry for it. *)
LEMMA LifeClose ==
  ASSUME SessionsInv, pc' = pc,
         \A u \in Sessions: /\ u \in live' => u \in live
                            /\ u \in registry' => u \in registry
                            /\ Doomed(u) => Doomed(u)'
                            /\ Doomed(u)' => Doomed(u) \/ pc[u] \notin Unregistered
                            /\ u \in registry => u \in registry' \/ Doomed(u)'
                            /\ todo'[u] \subseteq todo[u]
  PROVE  \A u \in Sessions: LifeInv(u)'
<1> SUFFICES ASSUME NEW u \in Sessions PROVE LifeInv(u)' OBVIOUS
<1>1. LifeInv(u) /\ pc'[u] = pc[u] BY Zenon DEF SessionsInv
<1>2. pc[u] \notin Closers => todo'[u] = {} BY <1>1, Zenon DEF LifeInv
<1> QED BY <1>1, <1>2, Zenon DEF LifeInv

(* A Close that has not come to its last step leaves the cache entry alone. *)
LEMMA ShelfClose ==
  ASSUME SessionsInv, UNCHANGED <<pc, writer, pins, place>>,
         \A u \in Sessions: closing'[u] = "done" => closing[u] = "done"
  PROVE  \A u \in Sessions: ShelfInv(u)'
<1>1. \A u \in Sessions: ShelfInv(u) BY Zenon DEF SessionsInv
<1> QED BY <1>1, Zenon DEF ShelfInv

(* ... and one that gives nothing back leaves the account alone. *)
LEMMA SourceClose ==
  ASSUME SessionsInv, \A u \in Sessions: SourceSpared(u)
  PROVE  \A u \in Sessions: SourceInv(u)'
BY SourceSparedInv, Zenon DEF SessionsInv

(* Close of a session, once; a second call changes nothing. *)
LEMMA BeginClose ==
  ASSUME SessionsTypeOK, NEW t \in Sessions, CloseBegin(t)
  PROVE  /\ DOMAIN closing' = Sessions /\ closing'[t] # "no"
         /\ \A u \in Sessions \ {t}: closing'[u] = closing[u]
         /\ \A u \in Sessions: closing'[u] \in {"cache", "done"} => closing'[u] = closing[u]
<1>1. closing'[t] = IF closing[t] = "no" THEN "reap" ELSE closing[t] BY Zenon DEF SessionsTypeOK, CloseBegin
<1>2. DOMAIN closing' = Sessions /\ \A u \in Sessions \ {t}: closing'[u] = closing[u]
  BY Zenon DEF SessionsTypeOK, CloseBegin
<1>3. closing'[t] # "no" /\ (closing'[t] \in {"cache", "done"} => closing'[t] = closing[t])
  <2>1. CASE closing[t] = "no" BY <1>1, <2>1, Zenon
  <2>2. CASE closing[t] # "no" BY <1>1, <2>2, Zenon
  <2> QED BY <2>1, <2>2, Zenon
<1> QED BY <1>2, <1>3, Zenon

(* A step that begins the Close of a session which is, or was, to be closed. *)
LEMMA CloseStep ==
  ASSUME SessionsInv, NEW t \in Sessions, CloseBegin(t), pc[t] \notin Unregistered,
         UNCHANGED <<pc, live, place, writer, pins, sem, holds, dl, gaveWay, cancels, closed>>,
         cancelled \subseteq cancelled',
         todo' \in [Sessions -> SUBSET Sessions],
         \A u \in Sessions: /\ todo'[u] \subseteq todo[u] /\ todo[u] \ {t} \subseteq todo'[u]
                            /\ u \in registry' => u \in registry
                            /\ u \in registry => u \in registry' \/ u = t,
         registry' \subseteq Sessions
  PROVE  SessionsInv'
<1>0. SessionsTypeOK BY Zenon DEF SessionsInv
<1>1. /\ DOMAIN closing' = Sessions /\ closing'[t] # "no"
      /\ \A u \in Sessions \ {t}: closing'[u] = closing[u]
      /\ \A u \in Sessions: closing'[u] \in {"cache", "done"} => closing'[u] = closing[u]
  BY <1>0, BeginClose, Zenon
<1>2. Doomed(t)' BY <1>1, Zenon DEF Doomed
<1>3. ASSUME NEW u \in Sessions \ {t} PROVE Doomed(u)' <=> Doomed(u)
  <2>1. closing'[u] = closing[u] BY <1>1, Zenon
  <2>2. \A r \in Sessions: u \in todo'[r] <=> u \in todo[r] BY Zenon
  <2> QED BY <2>1, <2>2, Zenon DEF Doomed
<1>4. \A u \in Sessions: LifeInv(u)' BY <1>2, <1>3, LifeClose, Zenon
<1>5. \A u \in Sessions: ShelfInv(u)' BY <1>1, ShelfClose, Zenon
<1>6. \A u \in Sessions: SourceSpared(u) BY <1>1, Zenon DEF SourceSpared
<1>7. \A u \in Sessions: SourceInv(u)' BY <1>6, SourceClose, Zenon
<1>8. SessionsTypeOK' BY <1>0, <1>1, Zenon DEF SessionsTypeOK
<1> QED BY <1>4, <1>5, <1>7, <1>8, Zenon DEF SessionsInv

(* CloseWhere and Register: the next session of the list is closed. *)
LEMMA CloseNextInv ==
  ASSUME SessionsInv, NEW s \in Sessions, CloseNext(s)
  PROVE  SessionsInv'
<1>1. PICK t \in todo[s]: todo' = [todo EXCEPT ![s] = todo[s] \ {t}] /\ CloseBegin(t)
  BY Zenon DEF CloseNext
<1>2. todo \in [Sessions -> SUBSET Sessions] /\ t \in Sessions BY Zenon DEF SessionsInv, SessionsTypeOK
<1>3. UNCHANGED <<pc, live, registry, place, writer, pins, sem, holds, dl, gaveWay, cancels, closed, cancelled>>
  BY Zenon DEF CloseNext, cache, account, tables
<1>4. pc[t] \notin Unregistered BY <1>2, Zenon DEF SessionsInv, LifeInv, Doomed
<1>5. /\ todo' \in [Sessions -> SUBSET Sessions]
      /\ \A u \in Sessions: todo'[u] \subseteq todo[u] /\ todo[u] \ {t} \subseteq todo'[u]
  <2>1. todo'[s] = todo[s] \ {t} /\ \A u \in Sessions \ {s}: todo'[u] = todo[u] BY <1>1, <1>2, Zenon
  <2>2. todo[s] \ {t} \in SUBSET Sessions BY <1>2, Zenon
  <2>3. todo' \in [Sessions -> SUBSET Sessions] BY <1>1, <1>2, <2>2, Zenon
  <2> QED BY <2>1, <2>3, Zenon
<1>6. registry' \subseteq Sessions BY <1>3, Zenon DEF SessionsInv, SessionsTypeOK
<1> QED BY <1>1, <1>2, <1>3, <1>4, <1>5, <1>6, CloseStep, Zenon

(* closeSession: a registered session leaves the registry and is closed, a start is
   cancelled. *)
LEMMA WebTeardownInv ==
  ASSUME SessionsInv, NEW s \in Sessions, WebTeardown(s)
  PROVE  SessionsInv'
<1>1. /\ UNCHANGED <<pc, live, todo, place, writer, pins, sem, holds, dl, gaveWay, cancels, closed>>
      /\ registry' = registry \ {s} /\ cancelled' = cancelled \cup {s}
  BY Zenon DEF WebTeardown, cache, account, tables
<1>2. SessionsTypeOK /\ registry' \subseteq Sessions /\ todo' \in [Sessions -> SUBSET Sessions]
  BY <1>1, Zenon DEF SessionsInv, SessionsTypeOK
<1>3. CASE s \in registry
  <2>1. CloseBegin(s) BY <1>3, Zenon DEF WebTeardown
  <2>2. pc[s] \notin Unregistered BY <1>3, Zenon DEF SessionsInv, LifeInv
  <2> QED BY <1>1, <1>2, <2>1, <2>2, CloseStep, Zenon
<1>4. CASE s \notin registry
  <2>1. closing' = closing /\ registry' = registry BY <1>1, <1>4, Zenon DEF WebTeardown
  <2>2. \A u \in Sessions: Doomed(u)' <=> Doomed(u) BY <1>1, <2>1, Zenon DEF Doomed
  <2>3. \A u \in Sessions: LifeInv(u)' BY <1>1, <2>1, <2>2, LifeClose, Zenon
  <2>4. \A u \in Sessions: ShelfInv(u)' BY <1>1, <2>1, ShelfClose, Zenon
  <2>5. \A u \in Sessions: SourceSpared(u) BY <1>1, <2>1, Zenon DEF SourceSpared
  <2>6. SessionsTypeOK' BY <1>1, <1>2, <2>1, Zenon DEF SessionsTypeOK
  <2> QED BY <2>3, <2>4, <2>5, <2>6, SourceClose, Zenon DEF SessionsInv
<1> QED BY <1>3, <1>4, Zenon

(* SweepIdle: an idle session leaves the registry and its Close begins. *)
LEMMA SweepIdleInv ==
  ASSUME SessionsInv, NEW s \in Sessions, SweepIdle(s)
  PROVE  SessionsInv'
<1>1. /\ UNCHANGED <<pc, live, todo, place, writer, pins, sem, holds, dl, gaveWay, cancels, closed, cancelled>>
      /\ registry' = registry \ {s} /\ s \in registry /\ CloseBegin(s)
  BY Zenon DEF SweepIdle, start, cache, account, tables
<1>2. registry' \subseteq Sessions /\ todo' \in [Sessions -> SUBSET Sessions]
  BY <1>1, Zenon DEF SessionsInv, SessionsTypeOK
<1>3. pc[s] \notin Unregistered BY <1>1, Zenon DEF SessionsInv, LifeInv
<1> QED BY <1>1, <1>2, <1>3, CloseStep, Zenon

(* waitFFmpeg: an encoder that ends gives nothing back by itself. *)
LEMMA EncodeEndsInv ==
  ASSUME SessionsInv, NEW s \in Sessions, EncodeEnds(s)
  PROVE  SessionsInv'
<1>1. /\ UNCHANGED <<pc, closing, registry, todo, place, writer, pins, sem, holds, dl, gaveWay, cancels, closed,
                     cancelled>>
      /\ live' = live \ {s}
  BY Zenon DEF EncodeEnds, start, cache, account, tables
<1>2. \A u \in Sessions: Doomed(u)' <=> Doomed(u) BY <1>1, Zenon DEF Doomed
<1>3. \A u \in Sessions: LifeInv(u)' BY <1>1, <1>2, LifeClose, Zenon
<1>4. \A u \in Sessions: ShelfInv(u)' BY <1>1, ShelfClose, Zenon
<1>5. \A u \in Sessions: SourceSpared(u) BY <1>1, Zenon DEF SourceSpared
<1>6. SessionsTypeOK' BY <1>1, Zenon DEF SessionsInv, SessionsTypeOK
<1> QED BY <1>3, <1>4, <1>5, <1>6, SourceClose, Zenon DEF SessionsInv

(* The source is released after the encoder is gone, or the wait for that ran out. *)
LEMMA CloseReapedInv ==
  ASSUME SessionsInv, NEW s \in Sessions, CloseReaped(s)
  PROVE  SessionsInv'
<1>0. SessionsTypeOK BY Zenon DEF SessionsInv
<1>1. /\ UNCHANGED <<pc, live, registry, todo, place, writer, pins, dl, cancels, closed, cancelled>>
      /\ closing[s] = "reap" /\ closing' = [closing EXCEPT ![s] = "cache"]
      /\ sem' = (IF sem = s THEN Nobody ELSE sem) /\ holds' = holds \ {s}
      /\ gaveWay' = (gaveWay \/ (s \in Single /\ s \in live))
  BY Zenon DEF CloseReaped, start, cache, tables
<1>2. /\ DOMAIN closing' = Sessions /\ closing'[s] = "cache"
      /\ \A u \in Sessions \ {s}: closing'[u] = closing[u]
  BY <1>0, <1>1, Zenon DEF SessionsTypeOK
<1>3. \A u \in Sessions: Doomed(u)' <=> Doomed(u)
  <2>1. \A u \in Sessions: closing'[u] # "no" <=> closing[u] # "no" BY <1>1, <1>2, Zenon
  <2> QED BY <1>1, <2>1, Zenon DEF Doomed
<1>4. \A u \in Sessions: LifeInv(u)' BY <1>1, <1>3, LifeClose, Zenon
<1>5. \A u \in Sessions: ShelfInv(u)'
  <2>1. \A u \in Sessions: closing'[u] = "done" => closing[u] = "done" BY <1>2, Zenon
  <2> QED BY <1>1, <2>1, ShelfClose, Zenon
<1>6. /\ sem' # s /\ sem' \in Sessions \cup {Nobody}
      /\ \A u \in Sessions \ {s}: sem' = u <=> sem = u
  BY <1>0, <1>1, SessionAssumption, Zenon DEF SessionsTypeOK
<1>7. gaveWay' \in BOOLEAN /\ (gaveWay => gaveWay') /\ (s \in Single /\ s \in live => gaveWay')
  BY <1>1, Zenon
<1>8. ASSUME NEW u \in Sessions \ {s} PROVE SourceInv(u)'
  <2>1. SourceSpared(u) BY <1>1, <1>2, <1>6, <1>7, Zenon DEF SourceSpared
  <2> QED BY <2>1, SourceSparedInv, Zenon DEF SessionsInv
<1>9. SourceInv(s)'
  <2>1. pc'[s] \notin Unregistered BY <1>1, Zenon DEF SessionsInv, LifeInv, Doomed
  <2>2. /\ pc'[s] \notin BeforeSlot /\ pc'[s] \notin Opening /\ pc'[s] \notin Encoding
        /\ pc'[s] # "take" /\ pc'[s] # "conn" /\ pc'[s] # "probe"
    BY <2>1, Zenon DEF Unregistered, Before, BeforeSlot, Opening, Encoding
  <2>3. s \notin holds' BY <1>1, Zenon
  <2> QED BY <1>1, <1>6, <1>7, <2>2, <2>3, Zenon DEF SourceInv
<1>10. SessionsTypeOK' BY <1>0, <1>1, <1>2, <1>6, <1>7, Zenon DEF SessionsTypeOK
<1> QED BY <1>4, <1>5, <1>8, <1>9, <1>10, Zenon DEF SessionsInv

(* Close, last step: the lock and the pin of the session are gone. *)
LEMMA CloseCacheInv ==
  ASSUME SessionsInv, NEW s \in Sessions, CloseCache(s)
  PROVE  SessionsInv'
<1>0. SessionsTypeOK BY Zenon DEF SessionsInv
<1>1. /\ UNCHANGED <<pc, live, registry, todo, place, sem, holds, dl, gaveWay, cancels, closed, cancelled>>
      /\ closing[s] = "cache" /\ closing' = [closing EXCEPT ![s] = "done"]
      /\ pins' = pins \ {s} /\ ReleaseWriter(s)
  BY Zenon DEF CloseCache, start, account, tables
<1>2. /\ DOMAIN closing' = Sessions /\ closing'[s] = "done"
      /\ \A u \in Sessions \ {s}: closing'[u] = closing[u]
  BY <1>0, <1>1, Zenon DEF SessionsTypeOK
<1>3. \A u \in Sessions: Doomed(u)' <=> Doomed(u)
  <2>1. \A u \in Sessions: closing'[u] # "no" <=> closing[u] # "no" BY <1>1, <1>2, Zenon
  <2> QED BY <1>1, <2>1, Zenon DEF Doomed
<1>4. \A u \in Sessions: LifeInv(u)' BY <1>1, <1>3, LifeClose, Zenon
<1>5. writer' # s /\ \A u \in Sessions: writer' = u => writer = u
  BY <1>1, LockReleased, Zenon DEF SessionsInv
<1>6. ASSUME NEW u \in Sessions PROVE ShelfInv(u)'
  <2>1. CASE u = s BY <1>1, <1>5, <2>1, Zenon DEF ShelfInv
  <2>2. CASE u # s
    <3>1. ShelfInv(u) /\ closing'[u] = closing[u] BY <1>2, <2>2, Zenon DEF SessionsInv
    <3> QED BY <1>1, <1>5, <3>1, Zenon DEF ShelfInv
  <2> QED BY <2>1, <2>2
<1>7. \A u \in Sessions: SourceSpared(u) BY <1>1, <1>2, Zenon DEF SourceSpared
<1>8. SessionsTypeOK' BY <1>0, <1>1, <1>2, Zenon DEF SessionsTypeOK
<1> QED BY <1>4, <1>6, <1>7, <1>8, SourceClose, Zenon DEF SessionsInv

-----------------------------------------------------------------------------
(* The download, the web, and the whole *)

sessionVars == <<pc, live, closing, registry, todo, place, writer, pins, sem, holds, gaveWay, cancelled>>

(* Steps that move nothing of the sessions. *)
LEMMA ElsewhereInv ==
  ASSUME SessionsInv, UNCHANGED sessionVars, dl' = "transfer" => dl = "transfer",
         DOMAIN cancels' = Sessions, closed' \in Seq(Sessions)
  PROVE  SessionsInv'
<1>1. \A u \in Sessions: Doomed(u)' <=> Doomed(u) BY Zenon DEF Doomed, sessionVars
<1>2. \A u \in Sessions: LifeInv(u)' BY <1>1, LifeClose, Zenon DEF sessionVars
<1>3. \A u \in Sessions: ShelfInv(u)' BY ShelfClose, Zenon DEF sessionVars
<1>4. \A u \in Sessions: SourceSpared(u) BY Zenon DEF SourceSpared, sessionVars
<1>5. SessionsTypeOK' BY Zenon DEF SessionsInv, SessionsTypeOK, sessionVars
<1> QED BY <1>2, <1>3, <1>4, <1>5, SourceClose, Zenon DEF SessionsInv

(* A transfer begins only when no session of the account reads or is about to. *)
LEMMA DownloadInv ==
  ASSUME SessionsInv, Download
  PROVE  SessionsInv'
<1>1. UNCHANGED sessionVars /\ UNCHANGED <<cancels, closed>>
  BY Zenon DEF Download, WaitPlayback, TakeConn, Attempt, AttemptEnds, sessionVars, start, session, cache,
               tables
<1>2. DOMAIN cancels' = Sessions /\ closed' \in Seq(Sessions) BY <1>1, Zenon DEF SessionsInv, SessionsTypeOK
<1>3. CASE dl' # "transfer" BY <1>1, <1>2, <1>3, ElsewhereInv, Zenon
<1>4. CASE dl' = "transfer"
  <2>1. holds = {}
    <3>1. Attempt BY <1>4, Zenon DEF Download, WaitPlayback, TakeConn, AttemptEnds
    <3> QED BY <1>4, <3>1, Zenon DEF Attempt, Held
  <2>2. ASSUME NEW u \in Sessions PROVE SourceInv(u)'
    <3>1. SourceInv(u) /\ u \notin holds BY <2>1, Zenon DEF SessionsInv
    <3>2. u \in Single /\ ~gaveWay => pc[u] \notin Encoding /\ u \notin live /\ pc[u] \notin Opening
      BY <3>1, Zenon DEF SourceInv
    <3> QED BY <1>1, <3>1, <3>2, Zenon DEF SourceInv, sessionVars
  <2>3. \A u \in Sessions: Doomed(u)' <=> Doomed(u) BY <1>1, Zenon DEF Doomed, sessionVars
  <2>4. \A u \in Sessions: LifeInv(u)' BY <1>1, <2>3, LifeClose, Zenon DEF sessionVars
  <2>5. \A u \in Sessions: ShelfInv(u)' BY <1>1, ShelfClose, Zenon DEF sessionVars
  <2>6. SessionsTypeOK' BY <1>1, <1>2, Zenon DEF SessionsInv, SessionsTypeOK, sessionVars
  <2> QED BY <2>2, <2>4, <2>5, <2>6, Zenon DEF SessionsInv
<1> QED BY <1>3, <1>4

(* closeByWeb: the mark and the entry among the cancels. *)
LEMMA CloseByWebInv ==
  ASSUME SessionsInv, NEW s \in Sessions, CloseByWeb(s)
  PROVE  SessionsInv'
<1>1. UNCHANGED sessionVars /\ dl' = dl BY Zenon DEF CloseByWeb, sessionVars, start, session, cache, account
<1>2. DOMAIN cancels' = Sessions BY CancelsDomain, Zenon DEF SessionsInv, CloseByWeb
<1>3. closed' \in Seq(Sessions) BY MarkOne, Zenon DEF SessionsInv, SessionsTypeOK, CloseByWeb
<1> QED BY <1>1, <1>2, <1>3, ElsewhereInv, Zenon

(* A starter that preempts closes the holder of the slot. *)
LEMMA PreemptCloses ==
  ASSUME SessionsInv, NEW s \in Sessions, Preempt(s)
  PROVE  \E u \in Sessions: CloseByWeb(u)
BY Zenon DEF SessionsInv, SessionsTypeOK, Preempt

(* No session holds anything at first. *)
LEMMA SessionsInitInv == Init => SessionsInv
<1> SUFFICES ASSUME Init PROVE SessionsInv OBVIOUS
<1>1. /\ pc = [s \in Sessions |-> "new"] /\ cancelled = {} /\ todo = [s \in Sessions |-> {}]
      /\ registry = {} /\ live = {} /\ closing = [s \in Sessions |-> "no"]
      /\ place = [s \in Sessions |-> "private"] /\ writer = Nobody /\ pins = {}
      /\ sem = Nobody /\ holds = {} /\ dl = "wait" /\ gaveWay = FALSE
      /\ cancels = [s \in Sessions |-> NoCancel] /\ closed = <<>>
  BY Zenon DEF Init, TablesInit
<1>2. closed \in Seq(Sessions) BY <1>1
<1>3. SessionsTypeOK BY <1>1, <1>2, Zenon DEF SessionsTypeOK
<1>4. ASSUME NEW s \in Sessions PROVE LifeInv(s) /\ ShelfInv(s) /\ SourceInv(s)
  <2>1. pc[s] = "new" /\ closing[s] = "no" /\ s # Nobody /\ \A r \in Sessions: todo[r] = {}
    BY <1>1, SessionAssumption, Zenon
  <2>2. LifeInv(s) BY <1>1, <2>1, Zenon DEF LifeInv, Doomed, Registered
  <2>3. ShelfInv(s) BY <1>1, <2>1, Zenon DEF ShelfInv
  <2>4. SourceInv(s) BY <1>1, <2>1, Zenon DEF SourceInv, Opening, Encoding
  <2> QED BY <2>2, <2>3, <2>4
<1> QED BY <1>3, <1>4, Zenon DEF SessionsInv

(* Every step of a start goroutine keeps the invariant. *)
LEMMA StartingInv ==
  ASSUME SessionsInv, NEW s \in Sessions, Starting(s)
  PROVE  SessionsInv'
<1>1. CASE \/ Deferred(s) \/ Abandon(s) \/ Reaped(s) \/ Arrive(s) \/ Round(s) \/ Probe(s) \/ Failed(s)
           \/ Evicted(s) \/ Undone(s)
  BY <1>1, QuietActions, Zenon
<1>2. CASE \/ Pin(s) \/ HoldForStream(s) \/ LeaveSlot(s) \/ FillSem(s) \/ take(s) \/ Replay(s) \/ StartFails(s)
  BY <1>2, PinInv, HoldForStreamInv, LeaveSlotInv, FillSemInv, TakeInv, ReleaseInv, Zenon
<1>3. CASE Look(s) \/ TryAcquireWriter(s) \/ CleanupOnError(s) \/ SpawnFFmpeg(s)
  BY <1>3, LookInv, TryAcquireWriterInv, CleanupInv, SpawnInv, Zenon
<1>4. CASE \/ ReapPrewarms(s) \/ CloseNext(s) \/ Built(s) \/ Register(s) \/ RegisterKeep(s)
           \/ unregisterIfClosedByWeb(s)
  BY <1>4, ReapPrewarmsInv, CloseNextInv, BuiltInv, RegisterInv, RegisterKeepInv, RecheckInv, Zenon
<1> QED BY <1>1, <1>2, <1>3, <1>4, Zenon DEF Starting, Source

(* ... and so does every other step. *)
LEMMA SessionsNextInv == SessionsInv /\ [Next]_vars => SessionsInv'
<1> SUFFICES ASSUME SessionsInv, [Next]_vars PROVE SessionsInv' OBVIOUS
<1>1. ASSUME NEW s \in Sessions, OnStreamSession(s) \/ Tick(s) PROVE SessionsInv' BY <1>1, QuietActions, Zenon
<1>2. ASSUME NEW s \in Sessions, Starting(s) PROVE SessionsInv' BY <1>2, StartingInv, Zenon
<1>3. ASSUME NEW s \in Sessions, OpenAnyway(s) PROVE SessionsInv' BY <1>3, OpenAnywayInv, Zenon
<1>4. ASSUME NEW s \in Sessions, CloseByWeb(s) PROVE SessionsInv' BY <1>4, CloseByWebInv, Zenon
<1>5. ASSUME NEW s \in Sessions, Preempt(s) PROVE SessionsInv' BY <1>4, <1>5, PreemptCloses, Zenon
<1>6. ASSUME NEW s \in Sessions, SweepIdle(s) \/ Closing(s) \/ EncodeEnds(s) PROVE SessionsInv'
  BY <1>6, SweepIdleInv, WebTeardownInv, CloseReapedInv, CloseCacheInv, EncodeEndsInv, Zenon DEF Closing
<1>7. CASE Download BY <1>7, DownloadInv, Zenon
<1>8. CASE UNCHANGED vars
  <2>1. UNCHANGED sessionVars /\ UNCHANGED <<dl, cancels, closed>>
    BY <1>8, Zenon DEF vars, tables, start, session, cache, account, sessionVars
  <2>2. DOMAIN cancels' = Sessions /\ closed' \in Seq(Sessions) BY <2>1, Zenon DEF SessionsInv, SessionsTypeOK
  <2> QED BY <2>1, <2>2, ElsewhereInv, Zenon
<1> QED BY <1>1, <1>2, <1>3, <1>4, <1>5, <1>6, <1>7, <1>8, Zenon DEF Next

(* The invariant holds throughout. *)
LEMMA SessionsInvariant == Spec => []SessionsInv
BY SessionsInitInv, SessionsNextInv, PTL DEF Spec

(* Whatever a start or a Close runs into, a session that is closed, or whose start
   failed, holds neither its pin nor the writer lock of the cache entry, neither the
   provider slot nor the playback hold. *)
THEOREM SessionsNothingHeld == Spec => []NothingHeld
<1>1. SessionsInv => NothingHeld
  <2> SUFFICES ASSUME SessionsInv, NEW s \in Sessions, closing[s] = "done" \/ pc[s] = "failed"
               PROVE  s \notin pins /\ writer # s /\ sem # s /\ s \notin holds
    BY Zenon DEF NothingHeld
  <2>1. ShelfInv(s) /\ SourceInv(s) BY Zenon DEF SessionsInv
  <2>2. "failed" \in Shelfless BY Zenon DEF Shelfless, Before
  <2> QED BY <2>1, <2>2, Zenon DEF ShelfInv, SourceInv
<1> QED BY <1>1, SessionsInvariant, PTL

(* An account with one connection has one reader, however many sessions arrive,
   preempt one another, fail and are closed, and none while the download transfers:
   who reads has the provider slot and pins the hold. *)
THEOREM SessionsOneReader == Spec => []OneReader
<1>1. SessionsInv => OneReader
  <2> SUFFICES ASSUME SessionsInv, ~gaveWay
               PROVE  /\ Cardinality({s \in Sessions: Reads(s)}) <= 1
                      /\ dl = "transfer" => \A s \in Sessions: ~Reads(s)
    BY Zenon DEF OneReader
  <2> DEFINE R == {s \in Sessions: Reads(s)}
  <2>1. R \in SUBSET {sem}
    <3>1. \A s \in Sessions: Reads(s) => sem = s BY Zenon DEF SessionsInv, SourceInv, Reads, Encoding
    <3> QED BY <3>1, Zenon
  <2>2. IsFiniteSet({sem}) /\ Cardinality({sem}) = 1 BY FS_Singleton, Zenon
  <2>3. Cardinality(R) <= Cardinality({sem}) BY <2>1, <2>2, FS_Subset, Zenon
  <2>4. dl = "transfer" => \A s \in Sessions: ~Reads(s)
    BY Zenon DEF SessionsInv, SourceInv, Reads, Encoding
  <2> QED BY <2>2, <2>3, <2>4, Zenon
<1> QED BY <1>1, SessionsInvariant, PTL

-----------------------------------------------------------------------------
(* The close of the web *)

(* The memory of closed ids forgets none. *)
Remembers == \A s \in Sessions: sessionClosedByWeb(s) => sessionClosedByWeb(s)'

(* An id is in the memory once it is marked. *)
LEMMA MarkFound ==
  ASSUME closed \in Seq(Sessions), NEW s \in Sessions, mark(s)
  PROVE  sessionClosedByWeb(s)'
<1>1. CASE sessionClosedByWeb(s)
  <2>1. closed' = closed BY <1>1, Zenon DEF mark
  <2> QED BY <1>1, <2>1, Zenon DEF sessionClosedByWeb
<1>2. CASE ~sessionClosedByWeb(s)
  <2>1. PICK q \in Seq(Sessions): closed' = Append(q, s)
    <3>1. CASE Len(closed) >= MaxClosed
      <4>1. closed' = Append(Tail(closed), s) BY <1>2, <3>1, Zenon DEF mark
      <4>2. Tail(closed) \in Seq(Sessions) BY <3>1, ClosedAssumption
      <4> QED BY <4>1, <4>2, Zenon
    <3>2. CASE ~(Len(closed) >= MaxClosed) BY <1>2, <3>2, Zenon DEF mark
    <3> QED BY <3>1, <3>2
  <2>2. Len(closed') \in 1..Len(closed') /\ closed'[Len(closed')] = s BY <2>1
  <2> QED BY <2>2, Zenon DEF sessionClosedByWeb
<1> QED BY <1>1, <1>2, Zenon

(* A start goroutine that neither begins nor ends, and is not served by this step. *)
LEMMA WebMove ==
  ASSUME WebInv, NEW s \in Sessions, pc[s] \notin {"new", "over"}, NEW to, Moved(s, to), to # "served",
         UNCHANGED <<cancels, closed, web>>, registry' \subseteq registry \cup {s}
  PROVE  WebInv'
<1> SUFFICES ASSUME NEW u \in Sessions
             PROVE  /\ pc'[u] \notin {"new", "over"} => has(u)' \/ sessionClosedByWeb(u)'
                    /\ pc'[u] = "served" /\ sessionClosedByWeb(u)' /\ u \in registry' => u \in web'
  BY Zenon DEF WebInv
<1>1. (has(u)' <=> has(u)) /\ (sessionClosedByWeb(u)' <=> sessionClosedByWeb(u))
  BY Zenon DEF has, sessionClosedByWeb
<1>2. CASE u = s BY <1>1, <1>2, Zenon DEF WebInv, Moved
<1>3. CASE u # s
  <2>1. pc'[u] = pc[u] /\ (u \in registry' => u \in registry) BY <1>3, Zenon DEF Moved
  <2> QED BY <1>1, <2>1, Zenon DEF WebInv
<1> QED BY <1>2, <1>3

(* A start goroutine that begins, or ends. *)
LEMMA WebEdge ==
  ASSUME SessionsInv, WebInv, NEW s \in Sessions, NEW to, Moved(s, to), to = "over" \/ has(s)', to # "served",
         NEW c, add(s, c), UNCHANGED <<closed, web, registry>>
  PROVE  WebInv'
<1> SUFFICES ASSUME NEW u \in Sessions
             PROVE  /\ pc'[u] \notin {"new", "over"} => has(u)' \/ sessionClosedByWeb(u)'
                    /\ pc'[u] = "served" /\ sessionClosedByWeb(u)' /\ u \in registry' => u \in web'
  BY Zenon DEF WebInv
<1>1. CASE u = s
  <2>1. pc'[u] = to BY <1>1, Zenon DEF Moved
  <2> QED BY <1>1, <2>1, Zenon
<1>2. CASE u # s
  <2>1. cancels'[u] = cancels[u] BY <1>2, Zenon DEF SessionsInv, SessionsTypeOK, add
  <2>2. (has(u)' <=> has(u)) /\ (sessionClosedByWeb(u)' <=> sessionClosedByWeb(u))
    BY <2>1, Zenon DEF has, sessionClosedByWeb
  <2>3. pc'[u] = pc[u] BY <1>2, Zenon DEF Moved
  <2> QED BY <2>2, <2>3, Zenon DEF WebInv
<1> QED BY <1>1, <1>2

(* The first and the last step of a start add and remove its own entry. *)
LEMMA WebEdges ==
  ASSUME SessionsInv, WebInv, NEW s \in Sessions,
         OnStreamSession(s) \/ Abandon(s) \/ Failed(s) \/ Undone(s)
  PROVE  WebInv'
<1>0. SessionsTypeOK BY Zenon DEF SessionsInv
<1>1. UNCHANGED <<closed, web, registry>> BY Zenon DEF OnStreamSession, Abandon, Failed, Undone
<1>2. CASE OnStreamSession(s)
  <2>1. Moved(s, "defer") \/ Moved(s, "reap") BY <1>0, <1>2, StepMoves, Zenon DEF OnStreamSession
  <2>2. add(s, "start") BY <1>2, Zenon DEF OnStreamSession
  <2>3. cancels'[s] = "start" BY <1>0, <2>2, Zenon DEF SessionsTypeOK, add
  <2>4. has(s)' BY <2>3, ClosedAssumption, Zenon DEF has
  <2> QED BY <1>1, <2>1, <2>2, <2>4, WebEdge, Zenon
<1>3. CASE Abandon(s) \/ Failed(s) \/ Undone(s)
  <2>1. Moved(s, "over") BY <1>0, <1>3, StepMoves, Zenon DEF Abandon, Failed, Undone
  <2>2. add(s, NoCancel) BY <1>3, Zenon DEF Abandon, Failed, Undone, remove
  <2> QED BY <1>1, <2>1, <2>2, WebEdge, Zenon
<1> QED BY <1>2, <1>3

(* Up to the registry, and out of it, nothing touches the tables. *)
LEMMA WebSource ==
  ASSUME SessionsInv, WebInv, NEW s \in Sessions,
         \/ Deferred(s) \/ Reaped(s) \/ Source(s) \/ Tick(s) \/ OpenAnyway(s) \/ Probe(s)
  PROVE  WebInv'
<1>0. SessionsTypeOK BY Zenon DEF SessionsInv
<1>1. UNCHANGED <<cancels, closed, web, registry>>
  <2>1. CASE Source(s) BY <2>1, Zenon DEF Source, Pin, HoldForStream, Arrive, Round, LeaveSlot, FillSem, take, tables
  <2>2. CASE Deferred(s) \/ Reaped(s) \/ Tick(s) \/ OpenAnyway(s) \/ Probe(s)
    BY <2>2, Zenon DEF Deferred, Reaped, Tick, OpenAnyway, Probe, tables
  <2> QED BY <2>1, <2>2
<1>2. ASSUME NEW from \in {"defer", "reaping", "hold", "conn", "arrive", "slot", "try", "take", "probe"},
             NEW to, Step(s, from, to), to # "served"
      PROVE  WebInv'
  <2>1. pc[s] = from /\ Moved(s, to) BY <1>0, <1>2, StepMoves, Zenon
  <2>2. pc[s] \notin {"new", "over"} BY <2>1, Zenon
  <2> QED BY <1>1, <1>2, <2>1, <2>2, WebMove, Zenon
<1>3. CASE Deferred(s) \/ Reaped(s)
  <2>1. Gate(s) # "served" BY Zenon DEF Gate
  <2> QED BY <1>2, <1>3, <2>1, Zenon DEF Deferred, Reaped
<1>4. CASE Source(s)
  <2>1. CASE Pin(s) \/ HoldForStream(s) \/ Arrive(s) \/ Round(s)
    BY <1>2, <2>1, Zenon DEF Pin, HoldForStream, Arrive, Round
  <2>2. CASE LeaveSlot(s) \/ FillSem(s) \/ take(s) BY <1>2, <2>2, Zenon DEF LeaveSlot, FillSem, take
  <2> QED BY <1>4, <2>1, <2>2, Zenon DEF Source
<1>5. CASE Tick(s) \/ OpenAnyway(s) BY <1>2, <1>5, Zenon DEF Tick, OpenAnyway
<1>6. CASE Probe(s)
  <2>1. Step(s, "probe", "fail") \/ Step(s, "probe", "probing") BY <1>6, Zenon DEF Probe
  <2> QED BY <1>2, <2>1, Zenon
<1> QED BY <1>3, <1>4, <1>5, <1>6

(* The steps in between leave the entry alone. *)
LEMMA WebStart ==
  ASSUME SessionsInv, WebInv, NEW s \in Sessions,
         \/ ReapPrewarms(s) \/ Look(s) \/ TryAcquireWriter(s) \/ Replay(s) \/ SpawnFFmpeg(s)
         \/ CleanupOnError(s) \/ StartFails(s) \/ Built(s) \/ Register(s) \/ RegisterKeep(s) \/ Evicted(s)
  PROVE  WebInv'
<1>0. SessionsTypeOK BY Zenon DEF SessionsInv
<1>1. UNCHANGED <<cancels, closed, web>> /\ registry' \subseteq registry \cup {s}
  <2>1. CASE Look(s) \/ TryAcquireWriter(s) \/ Replay(s) \/ SpawnFFmpeg(s) \/ CleanupOnError(s) \/ StartFails(s)
    BY <2>1, Zenon DEF Look, TryAcquireWriter, Replay, SpawnFFmpeg, CleanupOnError, StartFails, tables
  <2>2. CASE ReapPrewarms(s) \/ Built(s) \/ Register(s) \/ RegisterKeep(s) \/ Evicted(s)
    BY <2>2, Zenon DEF ReapPrewarms, Built, Register, RegisterKeep, Evicted, tables
  <2> QED BY <2>1, <2>2
<1>2. ASSUME NEW from \in {"reap", "probing", "miss", "mkdir", "spawn", "fail", "built", "register", "evicting"},
             NEW to, Step(s, from, to), to # "served"
      PROVE  WebInv'
  <2>1. pc[s] = from /\ Moved(s, to) BY <1>0, <1>2, StepMoves, Zenon
  <2>2. pc[s] \notin {"new", "over"} BY <2>1, Zenon
  <2> QED BY <1>1, <1>2, <2>1, <2>2, WebMove, Zenon
<1>3. CASE ReapPrewarms(s) \/ TryAcquireWriter(s) \/ Replay(s) \/ SpawnFFmpeg(s) \/ StartFails(s)
  BY <1>2, <1>3, Zenon DEF ReapPrewarms, TryAcquireWriter, Replay, SpawnFFmpeg, StartFails
<1>4. CASE Look(s)
  <2>1. \/ Step(s, "probing", "fail") \/ Step(s, "probing", "mkdir") \/ Step(s, "probing", "miss")
        \/ Step(s, "probing", "spawn")
    BY <1>4, Zenon DEF Look
  <2> QED BY <1>2, <2>1, Zenon
<1>5. CASE CleanupOnError(s)
  <2>1. Step(s, "mkdir", "fail") \/ Step(s, "spawn", "fail") BY <1>5, Zenon DEF CleanupOnError, Step
  <2> QED BY <1>2, <2>1, Zenon
<1>6. CASE Built(s) \/ Register(s) \/ RegisterKeep(s) \/ Evicted(s)
  BY <1>2, <1>6, Zenon DEF Built, Register, RegisterKeep, Evicted
<1> QED BY <1>3, <1>4, <1>5, <1>6

(* The last look: a session is served only if no close came before. *)
LEMMA WebRecheck ==
  ASSUME SessionsInv, WebInv, NEW s \in Sessions, unregisterIfClosedByWeb(s)
  PROVE  WebInv'
<1>0. SessionsTypeOK BY Zenon DEF SessionsInv
<1>1. UNCHANGED <<cancels, closed, web>> /\ registry' \subseteq registry
  BY Zenon DEF unregisterIfClosedByWeb, tables
<1>2. CASE sessionClosedByWeb(s)
  <2>1. Step(s, "recheck", "undo") BY <1>2, Zenon DEF unregisterIfClosedByWeb
  <2>2. pc[s] = "recheck" /\ Moved(s, "undo") BY <1>0, <2>1, StepMoves, Zenon
  <2>3. pc[s] \notin {"new", "over"} BY <2>2, Zenon
  <2> QED BY <1>1, <2>2, <2>3, WebMove, Zenon
<1>3. CASE ~sessionClosedByWeb(s)
  <2>1. Step(s, "recheck", "served") BY <1>3, Zenon DEF unregisterIfClosedByWeb
  <2>2. pc[s] = "recheck" /\ Moved(s, "served") BY <1>0, <2>1, StepMoves, Zenon
  <2> SUFFICES ASSUME NEW u \in Sessions
               PROVE  /\ pc'[u] \notin {"new", "over"} => has(u)' \/ sessionClosedByWeb(u)'
                      /\ pc'[u] = "served" /\ sessionClosedByWeb(u)' /\ u \in registry' => u \in web'
    BY Zenon DEF WebInv
  <2>3. (has(u)' <=> has(u)) /\ (sessionClosedByWeb(u)' <=> sessionClosedByWeb(u))
    BY <1>1, Zenon DEF has, sessionClosedByWeb
  <2>4. CASE u = s BY <1>3, <2>2, <2>3, <2>4, Zenon DEF WebInv
  <2>5. CASE u # s
    <3>1. pc'[u] = pc[u] BY <2>2, <2>5, Zenon DEF Moved
    <3> QED BY <1>1, <2>3, <3>1, Zenon DEF WebInv
  <2> QED BY <2>4, <2>5
<1> QED BY <1>2, <1>3

(* Closes, ends of encoders and the download leave the tables alone. *)
LEMMA WebOthers ==
  ASSUME WebInv, UNCHANGED <<pc, cancels, closed>>, NEW W, web \ W \subseteq web', registry' \subseteq registry \ W
  PROVE  WebInv'
<1>1. \A u \in Sessions: (has(u)' <=> has(u)) /\ (sessionClosedByWeb(u)' <=> sessionClosedByWeb(u))
  BY Zenon DEF has, sessionClosedByWeb
<1> QED BY <1>1, Zenon DEF WebInv

(* ... and so does every Close. *)
LEMMA WebClosers ==
  ASSUME WebInv, NEW s \in Sessions, CloseNext(s) \/ SweepIdle(s) \/ Closing(s) \/ EncodeEnds(s)
  PROVE  WebInv'
<1>1. UNCHANGED <<pc, cancels, closed>>
  BY Zenon DEF CloseNext, SweepIdle, Closing, WebTeardown, CloseReaped, CloseCache, EncodeEnds, tables, start
<1>2. CASE WebTeardown(s)
  <2>1. web' = web \ {s} /\ registry' = registry \ {s} BY <1>2, Zenon DEF WebTeardown
  <2>2. web \ {s} \subseteq web' /\ registry' \subseteq registry \ {s} BY <2>1, Zenon
  <2> QED BY <1>1, <2>2, WebOthers, Zenon
<1>3. CASE CloseNext(s) \/ SweepIdle(s) \/ CloseReaped(s) \/ CloseCache(s) \/ EncodeEnds(s)
  <2>1. web' = web /\ registry' \subseteq registry
    BY <1>3, Zenon DEF CloseNext, SweepIdle, CloseReaped, CloseCache, EncodeEnds
  <2>2. web \ {} \subseteq web' /\ registry' \subseteq registry \ {} BY <2>1, Zenon
  <2> QED BY <1>1, <2>2, WebOthers, Zenon
<1> QED BY <1>2, <1>3, Zenon DEF Closing

(* The close itself: it takes the entry of the cancels and tears down, or a close
   before it did. *)
LEMMA WebCloses ==
  ASSUME SessionsInv, WebInv, Remembers, NEW s \in Sessions, CloseByWeb(s)
  PROVE  WebInv'
<1>1. /\ UNCHANGED <<pc, registry>> /\ mark(s) /\ ~sessionClosedByWeb(s)
      /\ web' = (IF has(s) THEN web \cup {s} ELSE web)
      /\ cancels' = [cancels EXCEPT ![s] = NoCancel]
  BY Zenon DEF CloseByWeb, start, remove, add
<1>2. closed \in Seq(Sessions) /\ DOMAIN cancels = Sessions BY Zenon DEF SessionsInv, SessionsTypeOK
<1>3. sessionClosedByWeb(s)' BY <1>1, <1>2, MarkFound, Zenon
<1> SUFFICES ASSUME NEW u \in Sessions
             PROVE  /\ pc'[u] \notin {"new", "over"} => has(u)' \/ sessionClosedByWeb(u)'
                    /\ pc'[u] = "served" /\ sessionClosedByWeb(u)' /\ u \in registry' => u \in web'
  BY Zenon DEF WebInv
<1>4. CASE u = s
  <2>1. pc[s] = "served" => has(s) BY <1>1, Zenon DEF WebInv
  <2>2. pc[s] = "served" => s \in web' BY <1>1, <2>1, Zenon
  <2> QED BY <1>1, <1>3, <1>4, <2>2, Zenon
<1>5. CASE u # s
  <2>1. sessionClosedByWeb(u)' => sessionClosedByWeb(u) BY <1>1, <1>2, <1>5, MarkOne, Zenon
  <2>2. cancels'[u] = cancels[u] BY <1>1, <1>2, <1>5, Zenon
  <2>3. has(u)' <=> has(u) BY <2>2, Zenon DEF has
  <2>4. u \in web => u \in web' BY <1>1, Zenon
  <2>5. sessionClosedByWeb(u) => sessionClosedByWeb(u)' BY Zenon DEF Remembers
  <2> QED BY <1>1, <2>1, <2>3, <2>4, <2>5, Zenon DEF WebInv
<1> QED BY <1>4, <1>5

(* No step loses a close by the web, as long as no closed id is forgotten. *)
LEMMA WebNextInv == SessionsInv /\ WebInv /\ [Next]_vars /\ [Remembers]_vars => WebInv'
<1> SUFFICES ASSUME SessionsInv, WebInv, [Next]_vars, [Remembers]_vars PROVE WebInv' OBVIOUS
<1>1. CASE UNCHANGED vars
  <2>1. UNCHANGED <<pc, cancels, closed, web, registry>> BY <1>1, Zenon DEF vars, tables, start
  <2>2. web \ {} \subseteq web' /\ registry' \subseteq registry \ {} BY <2>1, Zenon
  <2> QED BY <2>1, <2>2, WebOthers, Zenon
<1>2. CASE Remembers
  <2>1. ASSUME NEW s \in Sessions, OnStreamSession(s) PROVE WebInv' BY <2>1, WebEdges, Zenon
  <2>2. ASSUME NEW s \in Sessions, Starting(s) PROVE WebInv'
    BY <2>2, WebEdges, WebSource, WebStart, WebRecheck, WebClosers, Zenon DEF Starting
  <2>3. ASSUME NEW s \in Sessions, Tick(s) \/ OpenAnyway(s) PROVE WebInv' BY <2>3, WebSource, Zenon
  <2>4. ASSUME NEW s \in Sessions, CloseByWeb(s) PROVE WebInv' BY <1>2, <2>4, WebCloses, Zenon
  <2>5. ASSUME NEW s \in Sessions, Preempt(s) PROVE WebInv' BY <2>4, <2>5, PreemptCloses, Zenon
  <2>6. ASSUME NEW s \in Sessions, SweepIdle(s) \/ Closing(s) \/ EncodeEnds(s) PROVE WebInv'
    BY <2>6, WebClosers, Zenon
  <2>7. CASE Download
    <3>1. UNCHANGED <<pc, cancels, closed, web, registry>>
      BY <2>7, Zenon DEF Download, WaitPlayback, TakeConn, Attempt, AttemptEnds, tables, start
    <3>2. web \ {} \subseteq web' /\ registry' \subseteq registry \ {} BY <3>1, Zenon
    <3> QED BY <3>1, <3>2, WebOthers, Zenon
  <2> QED BY <1>1, <2>1, <2>2, <2>3, <2>4, <2>5, <2>6, <2>7, Zenon DEF Next
<1> QED BY <1>1, <1>2, Zenon

(* No start is under way at first. *)
LEMMA WebInitInv == Init => WebInv
<1> SUFFICES ASSUME Init PROVE WebInv OBVIOUS
<1>1. registry = {} /\ \A s \in Sessions: pc[s] = "new" BY Zenon DEF Init
<1> QED BY <1>1, Zenon DEF WebInv

(* As long as the memory of closed ids forgets none, the close of the web always
   lands: it finds the session in the registry, or the session finds the close, when
   it was built or right after it was registered. *)
THEOREM SessionsWebCloseLands == Spec /\ [][Remembers]_vars => []WebCloseLands
<1>1. SessionsInv /\ WebInv => WebCloseLands
  <2> SUFFICES ASSUME SessionsInv, WebInv, NEW s \in Sessions, sessionClosedByWeb(s),
                      pc[s] \in {"served", "over"}, s \notin web
               PROVE  s \notin registry /\ (s \in live => Doomed(s))
    BY Zenon DEF WebCloseLands, Doomed
  <2>1. LifeInv(s) BY Zenon DEF SessionsInv
  <2>2. CASE pc[s] = "served" BY <2>1, <2>2, Zenon DEF WebInv, LifeInv, Registered
  <2>3. CASE pc[s] = "over" BY <2>1, <2>3, Zenon DEF LifeInv
  <2> QED BY <2>2, <2>3, Zenon
<1> QED BY <1>1, WebInitInv, WebNextInv, SessionsInvariant, PTL DEF Spec

-----------------------------------------------------------------------------
(* When the memory forgets none *)

ClosedIds == {s \in Sessions: sessionClosedByWeb(s)}

(* The memory lists no id twice. *)
MemoryInv == IsFiniteSet(ClosedIds) /\ Cardinality(ClosedIds) = Len(closed)

FewSessions == IsFiniteSet(Sessions) /\ Cardinality(Sessions) <= MaxClosed

(* Only a close of the web writes to the memory. *)
LEMMA OnlyMarks ==
  ASSUME SessionsInv, [Next]_vars
  PROVE  closed' = closed \/ \E s \in Sessions: mark(s)
<1>1. ASSUME NEW s \in Sessions, OnStreamSession(s) PROVE closed' = closed BY <1>1, Zenon DEF OnStreamSession
<1>2. ASSUME NEW s \in Sessions, Starting(s) PROVE closed' = closed
  <2>1. CASE Source(s) BY <2>1, Zenon DEF Source, Pin, HoldForStream, Arrive, Round, LeaveSlot, FillSem, take, tables
  <2>2. CASE Deferred(s) \/ Abandon(s) \/ ReapPrewarms(s) \/ Reaped(s) \/ CloseNext(s) \/ Probe(s) \/ Look(s)
    BY <2>2, Zenon DEF Deferred, Abandon, ReapPrewarms, Reaped, CloseNext, Probe, Look, tables
  <2>3. CASE TryAcquireWriter(s) \/ Replay(s) \/ SpawnFFmpeg(s) \/ CleanupOnError(s) \/ StartFails(s) \/ Failed(s)
    BY <2>3, Zenon DEF TryAcquireWriter, Replay, SpawnFFmpeg, CleanupOnError, StartFails, Failed, tables
  <2>4. CASE \/ Built(s) \/ Register(s) \/ RegisterKeep(s) \/ Evicted(s) \/ unregisterIfClosedByWeb(s)
             \/ Undone(s)
    BY <2>4, Zenon DEF Built, Register, RegisterKeep, Evicted, unregisterIfClosedByWeb, Undone, tables
  <2> QED BY <1>2, <2>1, <2>2, <2>3, <2>4, Zenon DEF Starting
<1>3. ASSUME NEW s \in Sessions, Tick(s) \/ OpenAnyway(s) PROVE closed' = closed
  BY <1>3, Zenon DEF Tick, OpenAnyway, tables
<1>4. ASSUME NEW s \in Sessions, SweepIdle(s) \/ Closing(s) \/ EncodeEnds(s) PROVE closed' = closed
  BY <1>4, Zenon DEF SweepIdle, Closing, WebTeardown, CloseReaped, CloseCache, EncodeEnds, tables
<1>5. CASE Download
  BY <1>5, Zenon DEF Download, WaitPlayback, TakeConn, Attempt, AttemptEnds, tables
<1>6. ASSUME NEW s \in Sessions, CloseByWeb(s) PROVE mark(s) BY <1>6, Zenon DEF CloseByWeb
<1>7. ASSUME NEW s \in Sessions, Preempt(s) PROVE \E u \in Sessions: mark(u)
  BY <1>6, <1>7, PreemptCloses, Zenon
<1>8. CASE UNCHANGED vars BY <1>8, Zenon DEF vars, tables
<1> QED BY <1>1, <1>2, <1>3, <1>4, <1>5, <1>6, <1>7, <1>8, Zenon DEF Next

(* With no more ids than it has places, the memory never has to forget one. *)
LEMMA MarkRemembers ==
  ASSUME FewSessions, MemoryInv, closed \in Seq(Sessions), NEW s \in Sessions, mark(s)
  PROVE  MemoryInv' /\ Remembers
<1>1. CASE sessionClosedByWeb(s)
  <2>1. closed' = closed BY <1>1, Zenon DEF mark
  <2>2. \A u \in Sessions: sessionClosedByWeb(u)' <=> sessionClosedByWeb(u) BY <2>1, ClosedKept, Zenon
  <2>3. ClosedIds' = ClosedIds BY <2>2, Zenon DEF ClosedIds
  <2> QED BY <2>1, <2>2, <2>3, Zenon DEF MemoryInv, Remembers
<1>2. CASE ~sessionClosedByWeb(s)
  <2>1. s \notin ClosedIds /\ ClosedIds \cup {s} \in SUBSET Sessions BY <1>2, Zenon DEF ClosedIds
  <2>2. Cardinality(ClosedIds \cup {s}) = Len(closed) + 1 BY <2>1, FS_AddElement, Zenon DEF MemoryInv
  <2>3. Cardinality(ClosedIds \cup {s}) <= Cardinality(Sessions) BY <2>1, FS_Subset, Zenon DEF FewSessions
  <2>4. Cardinality(Sessions) \in Nat BY FS_CardinalityType, Zenon DEF FewSessions
  <2>5. Len(closed) \in Nat OBVIOUS
  <2>6. ~(Len(closed) >= MaxClosed) BY <2>2, <2>3, <2>4, <2>5, ClosedAssumption DEF FewSessions
  <2>7. closed' = Append(closed, s) BY <1>2, <2>6, Zenon DEF mark
  <2>8. ASSUME NEW u \in Sessions, sessionClosedByWeb(u) PROVE sessionClosedByWeb(u)'
    <3>1. PICK i \in 1..Len(closed): closed[i] = u BY <2>8, Zenon DEF sessionClosedByWeb
    <3>2. i \in 1..Len(closed') /\ closed'[i] = u BY <2>7, <3>1
    <3> QED BY <3>2, Zenon DEF sessionClosedByWeb
  <2>9. ClosedIds' = ClosedIds \cup {s}
    <3>1. sessionClosedByWeb(s)' BY MarkFound, Zenon
    <3>2. \A u \in Sessions \ {s}: sessionClosedByWeb(u)' => sessionClosedByWeb(u) BY MarkOne, Zenon
    <3> QED BY <2>8, <3>1, <3>2, Zenon DEF ClosedIds
  <2>10. Len(closed') = Len(closed) + 1 BY <2>7
  <2>11. IsFiniteSet(ClosedIds \cup {s}) BY FS_AddElement, Zenon DEF MemoryInv
  <2> QED BY <2>2, <2>8, <2>9, <2>10, <2>11, Zenon DEF MemoryInv, Remembers
<1> QED BY <1>1, <1>2

(* A memory with room for every id forgets none. *)
LEMMA MemoryNext ==
  ASSUME FewSessions, SessionsInv, MemoryInv, [Next]_vars
  PROVE  MemoryInv' /\ Remembers
<1>1. CASE closed' = closed
  <2>1. \A u \in Sessions: sessionClosedByWeb(u)' <=> sessionClosedByWeb(u) BY <1>1, ClosedKept, Zenon
  <2>2. ClosedIds' = ClosedIds BY <2>1, Zenon DEF ClosedIds
  <2> QED BY <1>1, <2>1, <2>2, Zenon DEF MemoryInv, Remembers
<1>2. ASSUME NEW s \in Sessions, mark(s) PROVE MemoryInv' /\ Remembers
  BY <1>2, MarkRemembers, Zenon DEF SessionsInv, SessionsTypeOK
<1> QED BY <1>1, <1>2, OnlyMarks, Zenon

(* The memory of closed ids is empty at first. *)
LEMMA MemoryInit == Init => MemoryInv
<1> SUFFICES ASSUME Init PROVE MemoryInv OBVIOUS
<1>1. closed = <<>> BY Zenon DEF Init, TablesInit
<1>2. Len(closed) = 0 /\ 1..Len(closed) = {} BY <1>1
<1>3. ClosedIds = {} BY <1>2, Zenon DEF ClosedIds, sessionClosedByWeb
<1> QED BY <1>2, <1>3, FS_EmptySet, Zenon DEF MemoryInv

(* That holds, and the close of the web lands, whenever there are no more sessions
   than the memory has places. *)
THEOREM SessionsFewWebCloseLands ==
  ASSUME FewSessions
  PROVE  Spec => []WebCloseLands
<1>1. SessionsInv /\ MemoryInv /\ [Next]_vars => MemoryInv' /\ Remembers BY MemoryNext, Zenon
<1> QED BY <1>1, MemoryInit, SessionsInvariant, SessionsWebCloseLands, PTL DEF Spec
=============================================================================
