----------------------------- MODULE HlsSessions -----------------------------
(***************************************************************************)
(* HLS player sessions from the web's request to their Close, and the      *)
(* three things they share:                                                *)
(*   cmd/daemon.go            OnStreamSession, startHLSPlayback            *)
(*   engine/hls.go            HLSSessionRegistry, StartHLSSession, Close   *)
(*   engine/hls_cache.go      writer lock and pins of one cache key        *)
(*   cmd/iptv_stream_hold.go  the slot of a provider account that allows   *)
(*                            one connection; engine/playback_hold.go and  *)
(*                            iptv.go: the download that yields to it      *)
(*   cmd/closed_stream_sessions.go  closeByWeb, unregisterIfClosedByWeb    *)
(*                                                                         *)
(* All sessions open the same title, so they compete for one cache key,    *)
(* and the Single ones for one account.  An id is started once.  What the  *)
(* encoder of a session does is HlsEncoder's; here it is running, through, *)
(* or dead.                                                                *)
(***************************************************************************)
EXTENDS PlayerSessions, FiniteSets

CONSTANTS Single,       \* sessions that read a one-connection account
          Caching,      \* sessions that use the cache: neither a copy nor without identity
          MaxSessions,  \* HLSSessionRegistry.maxSessions
          Nobody

ASSUME SessionAssumption ==
  /\ Single \subseteq Sessions /\ Caching \subseteq Sessions
  /\ MaxSessions \in Nat \ {0} /\ Nobody \notin Sessions

VARIABLES
  prewarm,              \* sessions that only fill the cache (sess.Prewarm)
  pc,                   \* the start goroutine of each session
  cancelled,            \* sessions whose hlsCtx is cancelled
  todo, waits,          \* sessions a start goroutine has yet to Close; the one it is closing
  web,                  \* web closes that took the cancel and have yet to tear down
  registry,             \* registered sessions
  live, closing,        \* sessions whose encoder runs; where the Close of each stands
  place,                \* where each session keeps its segments
  writer, pins,         \* the writer lock of the cache key, the sessions that pin it
  sem, newest,          \* providerStreamSlot: who fills sem, the newest arrival
  holds,                \* sessions that pin the playback hold
  dl,                   \* the IPTV download
  gaveWay               \* history: a bounded wait for the account ran out

start == <<prewarm, pc, cancelled, todo, waits>>
session == <<live, closing, place>>
cache == <<writer, pins>>
account == <<sem, newest, holds, dl, gaveWay>>
vars == <<tables, start, web, registry, session, cache, account>>

Init ==
  /\ TablesInit
  /\ prewarm = {} /\ pc = [s \in Sessions |-> "new"] /\ cancelled = {}
  /\ todo = [s \in Sessions |-> {}] /\ waits = [s \in Sessions |-> Nobody]
  /\ web = {} /\ registry = {}
  /\ live = {} /\ closing = [s \in Sessions |-> "no"]
  /\ place = [s \in Sessions |-> "private"]
  /\ writer = Nobody /\ pins = {}
  /\ sem = Nobody /\ newest = Nobody /\ holds = {} /\ dl = "wait" /\ gaveWay = FALSE

Goto(s, label) == pc' = [pc EXCEPT ![s] = label]
Step(s, from, to) == pc[s] = from /\ Goto(s, to)

-----------------------------------------------------------------------------
(* OnStreamSession and the first half of startHLSPlayback *)

OnStreamSession(s) ==
  /\ ~has(s) /\ ~sessionClosedByWeb(s)
  /\ \/ Step(s, "new", "defer") /\ prewarm' = prewarm \cup {s}
     \/ Step(s, "new", "reap") /\ UNCHANGED prewarm
  /\ add(s, "start")
  /\ UNCHANGED <<closed, cancelled, todo, waits, web, registry, session, cache, account>>

HasLiveEncode == registry \cap live # {}

\* The gate of the source; only single-connection sessions have one.
Gate(s) == IF s \in Single THEN "hold" ELSE "probe"

Deferred(s) ==
  /\ ~HasLiveEncode /\ Step(s, "defer", Gate(s))
  /\ UNCHANGED <<tables, prewarm, cancelled, todo, waits, web, registry, session, cache, account>>

\* After half an hour, or cancelled, between two polls.
Abandon(s) ==
  /\ s \notin cancelled => HasLiveEncode
  /\ Step(s, "defer", "over")
  /\ remove(s)
  /\ UNCHANGED <<closed, prewarm, cancelled, todo, waits, web, registry, session, cache, account>>

\* CloseWhere(IsPrewarm): out of the registry at once, then closed one by one.
ReapPrewarms(s) ==
  /\ Step(s, "reap", "reaping")
  /\ todo' = [todo EXCEPT ![s] = registry \cap prewarm]
  /\ registry' = registry \ prewarm
  /\ UNCHANGED <<tables, prewarm, cancelled, waits, web, session, cache, account>>

\* Close cancels the encoder under the session's lock; a second call returns.
CloseBegin(t) == closing' = [closing EXCEPT ![t] = IF @ = "no" THEN "reap" ELSE @]

Returned(s) == waits[s] # Nobody => closing[waits[s]] = "done"
Finished(s) == todo[s] = {} /\ Returned(s)

CloseNext(s) ==
  /\ Returned(s)
  /\ \E t \in todo[s] :
       /\ todo' = [todo EXCEPT ![s] = @ \ {t}]
       /\ waits' = [waits EXCEPT ![s] = IF closing[t] = "no" THEN t ELSE Nobody]
       /\ CloseBegin(t)
  /\ UNCHANGED <<tables, prewarm, pc, cancelled, web, registry, live, place, cache, account>>

Reaped(s) ==
  /\ Finished(s) /\ Step(s, "reaping", Gate(s))
  /\ waits' = [waits EXCEPT ![s] = Nobody]
  /\ UNCHANGED <<tables, prewarm, cancelled, todo, web, registry, session, cache, account>>

\* closeByWeb: mark, then take; the teardown runs on a goroutine of its own.
CloseByWeb(s) ==
  /\ ~sessionClosedByWeb(s) /\ pc[s] # "new"
  /\ mark(s)
  /\ web' = IF has(s) THEN web \cup {s} ELSE web
  /\ remove(s)
  /\ UNCHANGED <<start, registry, session, cache, account>>

-----------------------------------------------------------------------------
(* holdIptvForStream: the download is parked, then the slot is taken *)

Held == holds # {}

Pin(s) ==
  /\ Step(s, "hold", "conn")
  /\ holds' = holds \cup {s}
  /\ UNCHANGED <<tables, prewarm, cancelled, todo, waits, web, registry, session, cache,
                 sem, newest, dl, gaveWay>>

ConnFree == dl \in {"wait", "go"}

\* HoldForStream: conn is taken and given back, or the wait runs out.
HoldForStream(s) ==
  /\ Step(s, "conn", "arrive")
  /\ \/ ConnFree /\ UNCHANGED gaveWay
     \/ s \in cancelled /\ UNCHANGED gaveWay
     \/ ~ConnFree /\ gaveWay' = TRUE
  /\ UNCHANGED <<tables, prewarm, cancelled, todo, waits, web, registry, session, cache,
                 sem, newest, holds, dl>>

Arrive(s) ==
  /\ Step(s, "arrive", "slot")
  /\ newest' = s
  /\ UNCHANGED <<tables, prewarm, cancelled, todo, waits, web, registry, session, cache,
                 sem, holds, dl, gaveWay>>

\* One round of acquire: overtaken, or on to look at the slot.
Round(s) ==
  /\ newest = s /\ Step(s, "slot", "try")
  /\ UNCHANGED <<tables, prewarm, cancelled, todo, waits, web, registry, session, cache, account>>

\* Superseded, or cancelled while waiting: the hold is given back right away.
LeaveSlot(s) ==
  /\ \/ newest # s /\ Step(s, "slot", "failed")
     \/ s \in cancelled /\ Step(s, "try", "failed")
  /\ holds' = holds \ {s}
  /\ UNCHANGED <<tables, prewarm, cancelled, todo, waits, web, registry, session, cache,
                 sem, newest, dl, gaveWay>>

FillSem(s) ==
  /\ sem = Nobody /\ Step(s, "try", "take")
  /\ sem' = s
  /\ UNCHANGED <<tables, prewarm, cancelled, todo, waits, web, registry, session, cache,
                 newest, holds, dl, gaveWay>>

\* A holder that has published its id is closed the way the web closes it.
Preempt(s) ==
  /\ pc[s] = "try" /\ sem \notin {Nobody, s} /\ pc[sem] # "take"
  /\ CloseByWeb(sem)

Tick(s) ==
  /\ sem # Nobody /\ Step(s, "try", "slot")
  /\ UNCHANGED <<tables, prewarm, cancelled, todo, waits, web, registry, session, cache, account>>

\* The wait ran out.
OpenAnyway(s) ==
  /\ Step(s, "try", "probe")
  /\ gaveWay' = TRUE
  /\ UNCHANGED <<tables, prewarm, cancelled, todo, waits, web, registry, session, cache,
                 sem, newest, holds, dl>>

\* A newer arrival since: the slot goes straight back.
take(s) ==
  /\ IF newest = s
     THEN Step(s, "take", "probe") /\ UNCHANGED <<sem, holds>>
     ELSE Step(s, "take", "failed") /\ sem' = Nobody /\ holds' = holds \ {s}
  /\ UNCHANGED <<tables, prewarm, cancelled, todo, waits, web, registry, session, cache,
                 newest, dl, gaveWay>>

\* The release of the source, once.  The hold is let go a moment after the slot,
\* which only keeps the download out for longer.
ReleaseSource(s) ==
  /\ sem' = IF sem = s THEN Nobody ELSE sem
  /\ holds' = holds \ {s}
  /\ UNCHANGED <<newest, dl, gaveWay>>

-----------------------------------------------------------------------------
(* StartHLSSession past the gate *)

\* A cancelled context never starts ffprobe.
Probe(s) ==
  /\ Step(s, "probe", IF s \in cancelled THEN "fail" ELSE "probing")
  /\ UNCHANGED <<tables, prewarm, cancelled, todo, waits, web, registry, session, cache, account>>

\* ffprobe fails; or a sealed and whole entry is pinned and replayed; or the
\* session encodes.  What the entry holds is HlsEncoder's.
Look(s) ==
  /\ \/ Step(s, "probing", "fail") /\ UNCHANGED <<place, pins>>
     \/ /\ s \in Caching /\ Step(s, "probing", "mkdir")
        /\ place' = [place EXCEPT ![s] = "hit"] /\ pins' = pins \cup {s}
     \/ /\ Step(s, "probing", IF s \in Caching THEN "miss" ELSE "spawn")
        /\ UNCHANGED <<place, pins>>
  /\ UNCHANGED <<tables, prewarm, cancelled, todo, waits, web, registry, live, closing, writer, account>>

\* The entry has one writer; another session encodes into a directory of its own.
TryAcquireWriter(s) ==
  /\ Step(s, "miss", "spawn")
  /\ IF writer = Nobody
     THEN /\ writer' = s /\ pins' = pins \cup {s}
          /\ place' = [place EXCEPT ![s] = "write"]
     ELSE UNCHANGED <<writer, pins, place>>
  /\ UNCHANGED <<tables, prewarm, cancelled, todo, waits, web, registry, live, closing, account>>

\* A hit reads the source no more: the deferred release runs on return.
Replay(s) ==
  /\ Step(s, "mkdir", "built")
  /\ ReleaseSource(s)
  /\ UNCHANGED <<tables, prewarm, cancelled, todo, waits, web, registry, session, cache>>

SpawnFFmpeg(s) ==
  /\ Step(s, "spawn", "built")
  /\ live' = live \cup {s}
  /\ UNCHANGED <<tables, prewarm, cancelled, todo, waits, web, registry, closing, place, cache, account>>

\* ReleaseWriter, only for the session that holds the lock.
ReleaseWriter(s) == writer' = IF place[s] = "write" THEN Nobody ELSE writer

\* A directory or ffmpeg that cannot be made.
CleanupOnError(s) ==
  /\ pc[s] \in {"mkdir", "spawn"} /\ Goto(s, "fail")
  /\ pins' = pins \ {s} /\ ReleaseWriter(s)
  /\ UNCHANGED <<tables, prewarm, cancelled, todo, waits, web, registry, session, account>>

\* The same without the deferred release.
StartFailsKeeps(s) ==
  /\ Step(s, "fail", "failed")
  /\ UNCHANGED <<tables, prewarm, cancelled, todo, waits, web, registry, session, cache, account>>

\* Every failure returns through the deferred release.
StartFails(s) ==
  /\ Step(s, "fail", "failed")
  /\ ReleaseSource(s)
  /\ UNCHANGED <<tables, prewarm, cancelled, todo, waits, web, registry, session, cache>>

-----------------------------------------------------------------------------
(* The second half of startHLSPlayback *)

Failed(s) ==
  /\ Step(s, "failed", "over")
  /\ remove(s)
  /\ UNCHANGED <<closed, prewarm, cancelled, todo, waits, web, registry, session, cache, account>>

Built(s) ==
  /\ IF sessionClosedByWeb(s)
     THEN Step(s, "built", "undo") /\ todo' = [todo EXCEPT ![s] = {s}]
     ELSE Step(s, "built", "register") /\ UNCHANGED todo
  /\ UNCHANGED <<tables, prewarm, cancelled, waits, web, registry, session, cache, account>>

\* sortEvictionVictimsFirst: all sessions are of one title here and none is
\* older than another, so what is left of the order is prewarms first.
Victims(others, n) ==
  {vs \in SUBSET others : /\ Cardinality(vs) = n
                          /\ vs \subseteq prewarm \/ others \cap prewarm \subseteq vs}

Excess(others) == IF Cardinality(others) < MaxSessions THEN 0
                  ELSE Cardinality(others) - (MaxSessions - 1)

Register(s) ==
  /\ s \notin prewarm /\ Step(s, "register", "evicting")
  /\ \E vs \in Victims(registry \ {s}, Excess(registry \ {s})) :
       /\ todo' = [todo EXCEPT ![s] = vs]
       /\ registry' = (registry \ vs) \cup {s}
  /\ UNCHANGED <<tables, prewarm, cancelled, waits, web, session, cache, account>>

RegisterKeep(s) ==
  /\ s \in prewarm /\ Step(s, "register", "recheck")
  /\ registry' = registry \cup {s}
  /\ UNCHANGED <<tables, prewarm, cancelled, todo, waits, web, session, cache, account>>

Evicted(s) ==
  /\ Finished(s) /\ Step(s, "evicting", "recheck")
  /\ waits' = [waits EXCEPT ![s] = Nobody]
  /\ UNCHANGED <<tables, prewarm, cancelled, todo, web, registry, session, cache, account>>

\* The same without the second look.
servedUnchecked(s) ==
  /\ Step(s, "recheck", "served")
  /\ UNCHANGED <<tables, prewarm, cancelled, todo, waits, web, registry, session, cache, account>>

\* A close that came between the last look and Register found nothing to stop.
unregisterIfClosedByWeb(s) ==
  /\ IF sessionClosedByWeb(s)
     THEN /\ Step(s, "recheck", "undo")
          /\ todo' = [todo EXCEPT ![s] = registry \cap {s}]
          /\ registry' = registry \ {s}
     ELSE Step(s, "recheck", "served") /\ UNCHANGED <<todo, registry>>
  /\ UNCHANGED <<tables, prewarm, cancelled, waits, web, session, cache, account>>

Undone(s) ==
  /\ Finished(s) /\ Step(s, "undo", "over")
  /\ remove(s)
  /\ waits' = [waits EXCEPT ![s] = Nobody]
  /\ UNCHANGED <<closed, prewarm, cancelled, todo, web, registry, session, cache, account>>

-----------------------------------------------------------------------------
(* Closers: the web, a preempting starter, the idle sweep *)

\* A registered session is closed, one that is starting has its context cancelled.
WebTeardown(s) ==
  /\ s \in web /\ web' = web \ {s}
  /\ registry' = registry \ {s}
  /\ IF s \in registry THEN CloseBegin(s) ELSE UNCHANGED closing
  /\ cancelled' = cancelled \cup {s}
  /\ UNCHANGED <<tables, prewarm, pc, todo, waits, live, place, cache, account>>

SweepIdle(s) ==
  /\ s \in registry /\ pc[s] = "served"
  /\ registry' = registry \ {s} /\ CloseBegin(s)
  /\ UNCHANGED <<tables, start, web, live, place, cache, account>>

-----------------------------------------------------------------------------
(* A session's encoder and its Close *)

\* Through, dead, or killed by Close.
EncodeEnds(s) ==
  /\ s \in live /\ live' = live \ {s}
  /\ UNCHANGED <<tables, start, web, registry, closing, place, cache, account>>

\* waitProcsReaped, for a single-connection session; then the source is released.
CloseReaped(s) ==
  /\ closing[s] = "reap"
  /\ gaveWay' = (gaveWay \/ (s \in Single /\ s \in live))
  /\ closing' = [closing EXCEPT ![s] = "cache"]
  /\ sem' = IF sem = s THEN Nobody ELSE sem
  /\ holds' = holds \ {s}
  /\ UNCHANGED <<tables, start, web, registry, live, place, cache, newest, dl>>

\* The entry is sealed or discarded (HlsEncoder); then the lock and the pin go.
CloseCache(s) ==
  /\ closing[s] = "cache"
  /\ closing' = [closing EXCEPT ![s] = "done"]
  /\ pins' = pins \ {s} /\ ReleaseWriter(s)
  /\ UNCHANGED <<tables, start, web, registry, live, place, account>>

-----------------------------------------------------------------------------
(* IptvDownloader.Download *)

\* waitPlayback returns once nothing is played; conn is taken after that.
WaitPlayback ==
  /\ dl = "wait" /\ ~Held /\ dl' = "go"
  /\ UNCHANGED <<tables, start, web, registry, session, cache, sem, newest, holds, gaveWay>>

TakeConn ==
  /\ dl = "go" /\ dl' = "conn"
  /\ UNCHANGED <<tables, start, web, registry, session, cache, sem, newest, holds, gaveWay>>

\* The same without the look.
AttemptUnchecked ==
  /\ dl = "conn" /\ dl' = "transfer"
  /\ UNCHANGED <<tables, start, web, registry, session, cache, sem, newest, holds, gaveWay>>

\* The hold is looked at again under conn.
Attempt ==
  /\ dl = "conn" /\ dl' = IF Held THEN "wait" ELSE "transfer"
  /\ UNCHANGED <<tables, start, web, registry, session, cache, sem, newest, holds, gaveWay>>

\* Interrupted by the hold, or at its end; there is always a next one.
AttemptEnds ==
  /\ dl = "transfer" /\ dl' = "wait"
  /\ UNCHANGED <<tables, start, web, registry, session, cache, sem, newest, holds, gaveWay>>

Download == WaitPlayback \/ TakeConn \/ Attempt \/ AttemptEnds

-----------------------------------------------------------------------------
Source(s) ==
  \/ Pin(s) \/ HoldForStream(s) \/ Arrive(s) \/ Round(s) \/ LeaveSlot(s) \/ FillSem(s)
  \/ take(s)

Starting(s) ==
  \/ Deferred(s) \/ Abandon(s) \/ ReapPrewarms(s) \/ Reaped(s) \/ CloseNext(s)
  \/ Source(s) \/ Probe(s) \/ Look(s)
  \/ TryAcquireWriter(s) \/ Replay(s) \/ SpawnFFmpeg(s) \/ CleanupOnError(s)
  \/ StartFails(s) \/ Failed(s) \/ Built(s) \/ Register(s) \/ RegisterKeep(s) \/ Evicted(s)
  \/ unregisterIfClosedByWeb(s) \/ Undone(s)

Closing(s) == WebTeardown(s) \/ CloseReaped(s) \/ CloseCache(s)

Next ==
  \/ \E s \in Sessions :
       \/ OnStreamSession(s) \/ Starting(s) \/ Preempt(s) \/ Tick(s) \/ OpenAnyway(s)
       \/ CloseByWeb(s) \/ SweepIdle(s) \/ Closing(s) \/ EncodeEnds(s)
  \/ Download

Spec == Init /\ [][Next]_vars

-----------------------------------------------------------------------------
Reads(s) == s \in Single /\ (pc[s] = "probing" \/ s \in live)

\* A one-connection account has one user: a session that probes or encodes from it,
\* or the download; not two, however sessions replace one another, unless a bounded
\* wait ran out (providerStreamSlot, HoldForStream, waitProcsReaped).  Reads counts
\* sessions: the old and the new ffmpeg of one session, side by side for a moment
\* after a seek, are one reader here.
OneReader ==
  ~gaveWay => /\ Cardinality({s \in Sessions : Reads(s)}) <= 1
              /\ dl = "transfer" => \A s \in Sessions : ~Reads(s)

\* A session that was closed, or whose start failed, has given everything back: its
\* pin and its lock on the cache entry, the provider slot and the playback hold.
NothingHeld ==
  \A s \in Sessions :
    closing[s] = "done" \/ pc[s] = "failed" =>
      s \notin pins /\ writer # s /\ sem # s /\ s \notin holds

\* A session the web closed is not left running: once its start path and the
\* close are through, it is out of the registry and being closed.
WebCloseLands ==
  \A s \in Sessions :
    sessionClosedByWeb(s) /\ pc[s] \in {"served", "over"} /\ s \notin web =>
      /\ s \notin registry
      /\ s \in live => closing[s] # "no" \/ \E r \in Sessions : s \in todo[r]
=============================================================================
