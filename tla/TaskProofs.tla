----------------------------- MODULE TaskProofs -----------------------------
(***************************************************************************)
(* One download, part by part: the lock on its path (PathLock), its run    *)
(* (TaskRun) and its control by the two users (AgentSync), each for every  *)
(* value of its constants.                                                 *)
(***************************************************************************)
EXTENDS PathLock, TaskRun, AgentSync, FiniteSetTheorems, TLAPS

-----------------------------------------------------------------------------
(***************************************************************************)
(* PathLock: two callers of one path share one entry, and its token keeps  *)
(* them apart, for any number of callers, paths and spellings.             *)
(***************************************************************************)
USE PathLockAssumption

\* The users of an entry are finitely many, so counting them makes sense.
LEMMA UsersFinite ==
    \A e \in Entries : IsFiniteSet(Users(e)) /\ Cardinality(Users(e)) \in Nat
  <1>1. \A e \in Entries : Users(e) \in SUBSET Procs
    BY Zenon DEF Users
  <1>2. QED
    BY <1>1, FS_Subset, FS_CardinalityType, Zenon

\* Fetching an entry (entry() in pathlock.go) preserves the invariant.
LEMMA EntryPreserves ==
    ASSUME IndInv, NEW p \in Procs, NEW s \in Spellings, Entry(p, s)
    PROVE  IndInv'
  <1> USE DEF IndInv, TypeOK
  <1>1. PICK e \in Entries :
          /\ EntryOf(Abs[s], e)
          /\ locks' = [locks EXCEPT ![Abs[s]] = e]
          /\ refs' = [refs EXCEPT ![e] = IF locks[Abs[s]] = NoEntry THEN 1 ELSE @ + 1]
          /\ ch' = IF locks[Abs[s]] = NoEntry THEN [ch EXCEPT ![e] = 0] ELSE ch
          /\ mine' = [mine EXCEPT ![p] = e]
          /\ key' = [key EXCEPT ![p] = Abs[s]]
          /\ stage' = [stage EXCEPT ![p] = "waiting"]
    BY Zenon DEF Entry
  <1>2. stage[p] = "idle" /\ mine[p] = NoEntry
    BY Zenon DEF Entry
  <1>3. TypeOK'
    BY <1>1 DEF States
  <1>4. Users(e)' = Users(e) \cup {p} /\ p \notin Users(e)
    BY <1>1, <1>2 DEF Users
  <1>5. \A f \in Entries : f # e => Users(f)' = Users(f)
    BY <1>1, <1>2 DEF Users
  <1>6. locks[Abs[s]] = NoEntry => Users(e) = {} /\ \A k \in Keys : locks[k] # e
    BY <1>1 DEF EntryOf, Fresh, Users
  <1>7. locks[Abs[s]] # NoEntry => e = locks[Abs[s]]
    BY <1>1, Zenon DEF EntryOf
  <1>8. Counted'
    <2>1. refs'[e] = Cardinality(Users(e)')
      <3>1. Cardinality(Users(e)') = Cardinality(Users(e)) + 1
        BY <1>4, UsersFinite, FS_AddElement, Zenon
      <3>2. locks[Abs[s]] = NoEntry => Cardinality(Users(e)) = 0
        BY <1>6, FS_EmptySet, Zenon
      <3>3. QED
        BY <1>1, <3>1, <3>2, UsersFinite DEF Counted
    <2>2. \A f \in Entries : f # e => refs'[f] = Cardinality(Users(f)')
      BY <1>1, <1>5 DEF Counted
    <2>3. QED
      BY <2>1, <2>2, Zenon DEF Counted
  <1>9. Shared'
    BY <1>1, <1>2, <1>6, <1>7 DEF Shared, Users
  <1>10. Token'
    BY <1>1, <1>2, <1>4, <1>5, <1>6 DEF Token, Users
  <1>11. (\A q \in Procs : mine[q] = NoEntry <=> stage[q] = "idle")'
    BY <1>1, <1>2, Zenon
  <1>12. (\A k \in Keys : locks[k] # NoEntry => \E q \in Procs : mine[q] = locks[k] /\ key[q] = k)'
    BY <1>1, <1>2
  <1>13. (\A q, r \in Procs : mine[q] = mine[r] /\ mine[q] # NoEntry => key[q] = key[r])'
    <2>1. \A q \in Procs : q # p /\ mine[q] = e => key[q] = Abs[s]
      BY <1>6, <1>7 DEF Users
    <2>2. QED
      BY <1>1, <2>1
  <1>14. QED
    BY <1>3, <1>8, <1>9, <1>10, <1>11, <1>12, <1>13, Zenon

\* Dropping a reference (release() in pathlock.go), by a waiter that gives up or
\* by a holder that has taken its token out, preserves the invariant.
LEMMA ReleasePreserves ==
    ASSUME IndInv, NEW p \in Procs, stage[p] \in {"waiting", "draining"},
           Release(p), UNCHANGED ch
    PROVE  IndInv'
  <1> USE DEF IndInv, TypeOK
  <1>1. PICK e \in Entries : e = mine[p] /\ p \in Users(e) /\ locks[key[p]] = e
    BY DEF Shared, Users
  <1>2. /\ refs' = [refs EXCEPT ![e] = @ - 1]
        /\ locks' = IF refs[e] = 1 THEN [locks EXCEPT ![key[p]] = NoEntry] ELSE locks
        /\ mine' = [mine EXCEPT ![p] = NoEntry]
        /\ stage' = [stage EXCEPT ![p] = "idle"]
        /\ key' = key /\ ch' = ch
    BY <1>1, Zenon DEF Release
  <1>3. Users(e)' = Users(e) \ {p}
    BY <1>1, <1>2, Zenon DEF Users
  <1>4. \A f \in Entries : f # e => Users(f)' = Users(f)
    BY <1>1, <1>2 DEF Users
  <1>5. refs[e] = Cardinality(Users(e)) /\ refs[e] \in Nat /\ refs[e] # 0
    BY <1>1, UsersFinite, FS_EmptySet DEF Counted
  <1>6. refs[e] = 1 => Users(e) = {p}
    <2>1. refs[e] = 1 => \E x : Users(e) = {x}
      BY <1>1, <1>5, UsersFinite, FS_Singleton, Zenon
    <2>2. QED
      BY <2>1, <1>1
  <1>7. refs[e] # 1 => \E q \in Procs : q # p /\ q \in Users(e)
    <2>1. Cardinality({p}) = 1
      BY FS_Singleton, Zenon
    <2>2. refs[e] # 1 => Users(e) # {p}
      BY <1>5, <2>1, Zenon
    <2>3. QED
      BY <2>2, <1>1 DEF Users
  <1>8. TypeOK'
    BY <1>1, <1>2, <1>5 DEF States
  <1>9. Counted'
    <2>0. Cardinality(Users(e) \ {p}) = Cardinality(Users(e)) - 1
      BY <1>1, UsersFinite, FS_RemoveElement, Zenon
    <2>1. refs'[e] = Cardinality(Users(e)')
      BY <1>2, <1>3, <1>5, <2>0, Zenon
    <2>2. \A f \in Entries : f # e => refs'[f] = Cardinality(Users(f)')
      BY <1>2, <1>4 DEF Counted
    <2>3. QED
      BY <2>1, <2>2, Zenon DEF Counted
  <1>10. Shared'
    <2> SUFFICES ASSUME NEW q \in Procs, mine'[q] # NoEntry
                 PROVE  locks'[key'[q]] = mine'[q]
      BY Zenon DEF Shared
    <2>1. q # p /\ mine'[q] = mine[q] /\ locks[key[q]] = mine[q]
      BY <1>2, Zenon DEF Shared
    <2>2. refs[e] = 1 => mine[q] # e
      BY <1>6, <2>1 DEF Users
    <2>3. QED
      BY <1>1, <1>2, <2>1, <2>2, Zenon
  <1>11. Token'
    BY <1>1, <1>2, <1>3, <1>4 DEF Token, Users
  <1>12. (\A q \in Procs : mine[q] = NoEntry <=> stage[q] = "idle")'
    BY <1>2, Zenon
  <1>13. (\A k \in Keys : locks[k] # NoEntry => \E q \in Procs : mine[q] = locks[k] /\ key[q] = k)'
    <2> SUFFICES ASSUME NEW k \in Keys, locks'[k] # NoEntry
                 PROVE  \E q \in Procs : mine'[q] = locks'[k] /\ key'[q] = k
      BY Zenon
    <2>1. locks'[k] = locks[k] /\ locks[k] # NoEntry
      BY <1>2, Zenon
    <2>2. PICK q \in Procs : mine[q] = locks[k] /\ key[q] = k
      BY <2>1, Zenon
    <2>3. CASE q # p
      BY <1>2, <2>1, <2>2, <2>3, Zenon
    <2>4. CASE q = p
      <3>1. refs[e] # 1 /\ k = key[p]
        BY <1>2, <2>1, <2>2, <2>4, Zenon
      <3>2. PICK r \in Procs : r # p /\ r \in Users(e)
        BY <1>7, <3>1, Zenon
      <3>3. mine[r] = e /\ mine[r] # NoEntry
        BY <3>2, <1>1, Zenon DEF Users
      <3>4. key[r] = key[p] /\ mine[p] = e
        BY <1>1, <3>3
      <3>5. QED
        BY <1>2, <2>1, <2>2, <2>4, <3>1, <3>2, <3>3, <3>4, Zenon
    <2>5. QED
      BY <2>3, <2>4, Zenon
  <1>14. (\A q, r \in Procs : mine[q] = mine[r] /\ mine[q] # NoEntry => key[q] = key[r])'
    BY <1>2
  <1>15. QED
    BY <1>8, <1>9, <1>10, <1>11, <1>12, <1>13, <1>14, Zenon

\* Every step of the path lock preserves the invariant.
LEMMA NextPreserves == IndInv /\ [LockNext]_lockVars => IndInv'
  <1> SUFFICES ASSUME IndInv, [LockNext]_lockVars
               PROVE  IndInv'
    BY Zenon
  <1>1. ASSUME NEW p \in Procs, NEW s \in Spellings, Entry(p, s)
        PROVE  IndInv'
    BY <1>1, EntryPreserves, Zenon
  <1>2. ASSUME NEW p \in Procs, Acquire(p)
        PROVE  IndInv'
    BY <1>2 DEF Acquire, IndInv, TypeOK, States, Counted, Shared, Token, Users
  <1>3. ASSUME NEW p \in Procs, Abort(p)
        PROVE  IndInv'
    BY <1>3, ReleasePreserves, Zenon DEF Abort
  <1>4. ASSUME NEW p \in Procs, Unlock(p)
        PROVE  IndInv'
    BY <1>4 DEF Unlock, IndInv, TypeOK, States, Counted, Shared, Token, Users
  <1>5. ASSUME NEW p \in Procs, UnlockRelease(p)
        PROVE  IndInv'
    BY <1>5, ReleasePreserves, Zenon DEF UnlockRelease
  <1>6. CASE UNCHANGED lockVars
    BY <1>6 DEF lockVars, IndInv, TypeOK, Counted, Shared, Token, Users
  <1>7. QED
    BY <1>1, <1>2, <1>3, <1>4, <1>5, <1>6, Zenon DEF LockNext

\* The empty lock table satisfies the invariant.
LEMMA InitEstablishes == LockInit => IndInv
  <1> SUFFICES ASSUME LockInit PROVE IndInv
    BY Zenon
  <1>1. \A e \in Entries : Users(e) = {}
    BY Zenon DEF LockInit, Users
  <1>2. Counted
    BY <1>1, FS_EmptySet, Zenon DEF LockInit, Counted
  <1>3. QED
    BY <1>1, <1>2 DEF LockInit, IndInv, TypeOK, States, Shared, Token

\* The inductive invariant holds in every reachable state.
THEOREM PathLockInvariant == LockSpec => []IndInv
  BY InitEstablishes, NextPreserves, PTL DEF LockSpec

\* One writer per destination path, whatever spelling it is asked for under.
THEOREM PathLockSingleWriter == LockSpec => []SingleWriter
  <1>1. IndInv => SingleWriter
    <2> SUFFICES ASSUME IndInv, NEW p \in Procs, NEW q \in Procs,
                        stage[p] = "held", stage[q] = "held", key[p] = key[q]
                 PROVE  p = q
      BY Zenon DEF SingleWriter
    <2>1. mine[p] = mine[q] /\ mine[p] \in Entries
      BY DEF IndInv, TypeOK, Shared
    <2>2. QED
      BY <2>1 DEF IndInv, Token, Users
  <1>2. QED
    BY <1>1, PathLockInvariant, PTL

\* The map holds an entry exactly for the paths somebody waits for or holds.
THEOREM PathLockNoLeak == LockSpec => []NoLeak
  <1>1. IndInv => NoLeak
    BY Zenon DEF IndInv, TypeOK, NoLeak, Shared
  <1>2. QED
    BY <1>1, PathLockInvariant, PTL

-----------------------------------------------------------------------------
(***************************************************************************)
(* TaskRun: the verdict, the effort and the lost tunnel of one run,        *)
(* for every set of downloaders, every configured order and any number of  *)
(* debrid candidates.                                                      *)
(***************************************************************************)
Places == {"attempt", "resolve", "start", "download", "repair", "repairing", "ask",
           "fallback", "judge", "verify", "finalize", "done"}

Typed ==
    /\ status \in TaskStatus /\ pc \in Places
    /\ phase \in {"first", "repair", "fallback"} /\ err \in Error
    /\ tried \subseteq Methods /\ left \in 0..Sources
    /\ attempt \in Nat \ {0} /\ storageAttempt \in Nat
    /\ ctxDone \in BOOLEAN /\ shuttingDown \in BOOLEAN
    /\ stop \in {"no", "cancelling", "stopped"}
    /\ downloads \in Nat /\ corruptions \in Nat /\ lost \in Nat

\* The statuses a task can be in at each place of its goroutine.  A result under
\* verification is out of a cancel's reach, so it is still there when it is filed.
Statuses ==
    /\ pc = "attempt" => status \in {"claimed", "resolving", "downloading", "verifying", "cancelled"}
    /\ pc \in {"resolve", "start", "ask"} => status \in {"resolving", "cancelled"}
    /\ pc \in {"download", "verify", "repair"} => status \in {"downloading", "cancelled"}
    /\ pc \in {"judge", "repairing", "fallback"} => status \in {"resolving", "downloading", "cancelled"}
    /\ pc = "finalize" => status = "verifying"
    /\ pc # "done" /\ status = "cancelled" => stop = "stopped"
    /\ pc # "done" <=> outcome = "running"
    /\ outcome \notin {"running", "interrupted"} => status \in Terminal

\* An error of the context means that a caller or a shutdown ended it.
ContextEnds ==
    /\ ctxDone /\ stop = "no" => shuttingDown
    /\ err = "ctx" => ctxDone
    /\ outcome \in {"error", "damaged", "storage"} /\ err = "ctx" => stop # "no"

\* Every attempt but the first is paid for by one that was corrupt or met a storage
\* fault.
Paid ==
    /\ corruptions + storageAttempt >= attempt - 1
    /\ pc # "done" => storageAttempt < maxStorageAttempts
    /\ outcome = "damaged" /\ err # "conflict" =>
         /\ corruptions + storageAttempt >= maxIntegrityAttempts
         /\ storageAttempt < maxStorageAttempts

\* A storage fault buys one attempt beyond the three.
Attempts ==
    /\ storageAttempt = 0 => attempt <= maxIntegrityAttempts
    /\ attempt <= maxIntegrityAttempts + maxStorageAttempts - 1

\* The method at hand has not failed before in this run; the candidates belong to
\* debrid.
AtHand ==
    /\ pc \in {"start", "download", "repair", "repairing", "ask", "verify", "fallback"} =>
         method \in Methods \ tried
    /\ pc = "repair" \/ phase = "repair" => method = "debrid"
    /\ pc \in {"resolve", "start"} => phase # "repair"
    /\ pc \in {"repairing", "ask"} => phase = "repair"

\* A download about to happen is covered.
Spent ==
    /\ downloads <= attempt + Cardinality(tried) + (Sources - left)
    /\ pc \in {"attempt", "resolve", "start", "download", "ask"} =>
         downloads < attempt + Cardinality(tried) + (Sources - left)

\* Once the tunnel is lost, torrent is a method that has failed, or on its way there;
\* and until the attempt that lost it has a result, the loss is the error at hand.
Tunnel ==
    /\ lost # 0 => \/ "torrent" \in tried
                   \/ pc = "fallback" /\ err = "vpn" /\ method = "torrent"
                   \/ pc = "judge" /\ err = "vpn"
                   \/ pc = "done"
    /\ lost <= attempt
    /\ lost = attempt =>
         \/ pc \in {"verify", "finalize", "done"}
         \/ pc \in {"fallback", "judge"} /\ err = "vpn"
         \/ pc \in {"resolve", "start", "download"} /\ phase = "fallback" /\ err = "vpn"

\* Which errors are at hand where, and so when the retry finds a task that a repair
\* without a candidate left "resolving", the one transition of its own that a run
\* nobody stopped is refused.
Exhausted == attempt > 1 /\ corruptions > 0 /\ method = "debrid" /\ left < Sources

Refused ==
    /\ pc \in {"verify", "finalize"} => err = "none"
    /\ phase = "repair" => left < Sources
    /\ pc \in {"repair", "repairing", "ask", "fallback"} \/ (pc = "download" /\ phase = "repair") =>
         err \notin {"none", "storage", "corrupt"}
    /\ pc = "fallback" /\ status = "resolving" => phase = "repair"
    /\ pc = "judge" /\ status = "resolving" =>
         err \notin {"storage", "corrupt"} /\ (err = "remote" => method = "debrid" /\ left < Sources)
    /\ pc = "attempt" /\ status = "resolving" => Exhausted
    /\ pc \in {"repair", "repairing", "ask", "fallback"} \/ (pc = "download" /\ phase = "repair") =>
         (err = "transition" => stop # "no")
    /\ pc = "judge" /\ err = "transition" /\ stop = "no" => Exhausted
    /\ outcome = "error" /\ err = "transition" /\ stop = "no" => Exhausted

RunInv == /\ Typed /\ Statuses /\ ContextEnds /\ Paid /\ Attempts
          /\ AtHand /\ Spent /\ Tunnel /\ Refused

-----------------------------------------------------------------------------
\* What the table of task.go allows in the statuses of a run.
LEMMA Table ==
    /\ validTransitions["claimed"] = {"resolving", "cancelled"}
    /\ validTransitions["resolving"] = {"downloading", "failed", "cancelled"}
    /\ validTransitions["downloading"] = {"verifying", "failed", "resolving", "cancelled"}
    /\ validTransitions["verifying"] = {"organizing", "failed", "resolving"}
    /\ validTransitions["organizing"] = {"seeding", "completed", "failed"}
    /\ validTransitions["completed"] = {}
    /\ validTransitions["failed"] = {}
    /\ validTransitions["cancelled"] = {}
BY Zenon DEF validTransitions, TaskStatus

\* The methods are few.
LEMMA MethodsFinite == IsFiniteSet(Methods)
<1>1. IsFiniteSet({"torrent"}) BY Zenon, FS_Singleton
<1>2. IsFiniteSet({"torrent"} \cup {"debrid"}) BY Zenon, <1>1, FS_AddElement
<1>3. IsFiniteSet(({"torrent"} \cup {"debrid"}) \cup {"usenet"}) BY Zenon, <1>2, FS_AddElement
<1>4. IsFiniteSet((({"torrent"} \cup {"debrid"}) \cup {"usenet"}) \cup {"iptv"}) BY Zenon, <1>3,
  FS_AddElement
<1>5. Methods = (({"torrent"} \cup {"debrid"}) \cup {"usenet"}) \cup {"iptv"} BY Zenon DEF Methods
<1> QED BY Zenon, <1>4, <1>5

\* The methods marked as tried can be counted, and so can the candidates.
LEMMA CountedType ==
    ASSUME tried \subseteq Methods
    PROVE  Cardinality(tried) \in Nat /\ Sources \in Nat
BY Zenon, MethodsFinite, FS_Subset, FS_CardinalityType, RunAssumption

\* A method that is marked is one more.
LEMMA MarkedIsOneMore ==
    ASSUME NEW m \in Methods, m \notin tried, tried \subseteq Methods
    PROVE  Cardinality(tried \cup {m}) = Cardinality(tried) + 1
BY Zenon, MethodsFinite, FS_Subset, FS_AddElement


\* The loop comes round: nothing but the status and the place of the goroutine moves.
LEMMA AttemptKeeps == RunInv /\ Attempt => RunInv'
<1> SUFFICES ASSUME RunInv, Attempt PROVE RunInv' BY Zenon
<1> USE Table DEF RunInv
<1>1. Typed' BY Zenon DEF Typed, Statuses, Places, Error, Integrity, TaskStatus, Methods,
  Attempt, choice, counts, env, history, Transition
<1>2. Statuses' BY DEF Statuses, Typed, Terminal, Attempt, counts, Transition, choice, env, history
<1>3. ContextEnds' BY Zenon DEF ContextEnds, Typed, Statuses, Attempt, env, Transition
<1>4. Paid' BY Zenon DEF Paid, Typed, Statuses, maxIntegrityAttempts, Integrity, Attempt, counts,
  history, Transition
<1>5. Attempts' BY Zenon DEF Attempts, Typed, Statuses, maxIntegrityAttempts, maxStorageAttempts,
  Attempt, counts, Transition
<1>6. AtHand' BY Zenon DEF AtHand, Typed, Statuses, Methods, Attempt, choice, Transition
<1>7. Spent' BY Zenon DEF Spent, Typed, Statuses, Attempt, choice, counts, history, Transition
<1>8. Tunnel' BY DEF Tunnel, Typed, Statuses, Attempt, choice, history, Transition, counts, env
<1>9. Refused' BY DEF Refused, Exhausted, Error, Integrity, AtHand, Typed, Statuses, Attempt,
  Transition, choice, counts, env, history
<1> QED BY Zenon, <1>1, <1>2, <1>3, <1>4, <1>5, <1>6, <1>7, <1>8, <1>9

\* A method is found, one that has not failed before, or none.
LEMMA ResolveMethodKeeps == RunInv /\ ResolveMethod => RunInv'
<1> SUFFICES ASSUME RunInv, ResolveMethod PROVE RunInv' BY Zenon
<1> USE Table DEF RunInv
<1>1. Typed' BY DEF Typed, Statuses, Places, Error, Integrity, TaskStatus, Methods,
  ResolveMethod, Goto, Judge, Untried, counts, env, history
<1>2. Statuses' BY DEF Statuses, Typed, Terminal, ResolveMethod, Goto, Judge, Untried, counts, env,
  history
<1>3. ContextEnds' BY Zenon DEF ContextEnds, Typed, Statuses, ResolveMethod, Goto, Judge, Untried, env
<1>4. Paid' BY Zenon DEF Paid, Typed, Statuses, maxIntegrityAttempts, Integrity, ResolveMethod, Goto,
  Judge, Untried, counts, history
<1>5. Attempts' BY Zenon DEF Attempts, Typed, Statuses, maxIntegrityAttempts, maxStorageAttempts,
  ResolveMethod, Goto, Judge, Untried, counts
<1>6. AtHand' BY RunAssumption, Zenon DEF AtHand, Typed, Methods, ResolveMethod, Goto, Judge, Untried
<1>7. Spent' BY Zenon DEF Spent, Typed, Statuses, ResolveMethod, Goto, Judge, Untried, counts, history
<1>8. Tunnel' BY DEF Tunnel, Typed, Statuses, ResolveMethod, Goto, Judge, Untried, history, counts,
  env
<1>9. Refused' BY DEF Refused, Exhausted, Error, Integrity, AtHand, Typed, Statuses, ResolveMethod,
  Goto, Judge, Untried, counts, env, history
<1> QED BY Zenon, <1>1, <1>2, <1>3, <1>4, <1>5, <1>6, <1>7, <1>8, <1>9

\* The download starts, unless a cancel came first.
LEMMA StartDownloadKeeps == RunInv /\ StartDownload => RunInv'
<1> SUFFICES ASSUME RunInv, StartDownload PROVE RunInv' BY Zenon
<1> USE Table DEF RunInv
<1>1. Typed' BY DEF Typed, Statuses, Places, Error, Integrity, TaskStatus, Methods,
  StartDownload, Move, Goto, Judge, choice, counts, env, history, Transition
<1>2. Statuses' BY DEF Statuses, Typed, Terminal, StartDownload, Move, Goto, Judge, counts,
  Transition, choice, env, history
<1>3. ContextEnds' BY Zenon DEF ContextEnds, Typed, Statuses, StartDownload, Move, Goto, Judge, env,
  Transition
<1>4. Paid' BY Zenon DEF Paid, Typed, Statuses, maxIntegrityAttempts, Integrity, StartDownload, Move,
  Goto, Judge, counts, history, Transition
<1>5. Attempts' BY Zenon DEF Attempts, Typed, Statuses, maxIntegrityAttempts, maxStorageAttempts,
  StartDownload, Move, Goto, Judge, counts, Transition
<1>6. AtHand' BY Zenon DEF AtHand, Typed, Statuses, Methods, StartDownload, Move, Goto, Judge, choice,
  Transition
<1>7. Spent' BY Zenon DEF Spent, Typed, Statuses, StartDownload, Move, Goto, Judge, choice, counts,
  history, Transition
<1>8. Tunnel' BY DEF Tunnel, Typed, Statuses, StartDownload, Move, Goto, Judge, choice, history,
  Transition, counts, env
<1>9. Refused'
  <2>1. \/ pc' = "download" /\ status' = "downloading" /\ UNCHANGED <<phase, err>> /\ phase # "repair"
        \/ pc' = "judge" /\ status' = "cancelled" /\ stop = "stopped" /\ UNCHANGED phase
    BY Zenon DEF StartDownload, Move, Goto, Judge, Transition, Statuses, AtHand
  <2> QED BY <2>1 DEF Refused, Exhausted, Typed, Statuses, StartDownload, choice, counts, env, history
<1> QED BY Zenon, <1>1, <1>2, <1>3, <1>4, <1>5, <1>6, <1>7, <1>8, <1>9

\* Where the error of a downloader leads.
LEMMA FailedLeads ==
    ASSUME Typed, NEW e, Failed(e)
    PROVE  /\ UNCHANGED phase
           /\ \/ /\ pc' = "judge" /\ (err' = e \/ (err' = "vpn" /\ err = "vpn"))
                 /\ phase = "fallback" /\ err = "vpn" => err' = "vpn"
              \/ pc' = "repairing" /\ phase = "repair" /\ UNCHANGED err
              \/ /\ pc' = "repair" /\ phase = "first" /\ method = "debrid" /\ err' = e
                 /\ e \notin {"storage", "corrupt"}
              \/ pc' = "fallback" /\ phase = "first" /\ err' = e /\ e \notin {"storage", "corrupt"}
BY Zenon DEF Failed, Final, Judge, Goto, Typed

\* A downloader returns a file.
LEMMA DownloadDelivers ==
    ASSUME RunInv, Download, pc' = "verify"
    PROVE  RunInv'
<1> USE DEF RunInv
<1>0. Cardinality(tried) \in Nat /\ Sources \in Nat BY CountedType, Zenon DEF Typed
<1>1. /\ pc = "download" /\ downloads' = downloads + 1 /\ err' = "none" /\ UNCHANGED <<phase, lost>>
      /\ UNCHANGED <<status, choice, counts, outcome, env, corruptions>>
  BY Zenon, FailedLeads DEF Download, Goto
<1>11. Typed' BY <1>0, <1>1 DEF Typed, Statuses, Places, Error, Integrity, Methods,
  choice, counts, env
<1>12. Statuses' BY <1>0, <1>1 DEF Statuses, Typed, Terminal, counts, choice, env
<1>13. ContextEnds' BY Zenon, <1>0, <1>1 DEF ContextEnds, Typed, Statuses, env
<1>14. Paid' BY Zenon, <1>0, <1>1 DEF Paid, Typed, Statuses, maxIntegrityAttempts, Integrity, counts
<1>15. Attempts' BY Zenon, <1>0, <1>1 DEF Attempts, Typed, Statuses, maxIntegrityAttempts,
  maxStorageAttempts, counts
<1>16. AtHand' BY Zenon, <1>0, <1>1 DEF AtHand, Typed, Statuses, Methods, choice
<1>17. Spent' BY <1>0, <1>1 DEF Spent, Typed, Statuses, choice, counts
<1>18. Tunnel' BY <1>0, <1>1 DEF Tunnel, Typed, Statuses, choice, counts, env
<1>19. Refused' BY <1>0, <1>1 DEF Refused, Exhausted, Error, Integrity, AtHand, Typed, Statuses,
  choice, counts, env
<1> QED BY Zenon, <1>11, <1>12, <1>13, <1>14, <1>15, <1>16, <1>17, <1>18, <1>19

\* A downloader returns an error.
LEMMA DownloadFails ==
    ASSUME RunInv, Download, pc' # "verify"
    PROVE  RunInv'
<1> USE DEF RunInv
<1>0. Cardinality(tried) \in Nat /\ Sources \in Nat BY CountedType, Zenon DEF Typed
<1>1. /\ pc = "download" /\ downloads' = downloads + 1
      /\ UNCHANGED <<status, choice, counts, outcome, env, corruptions>>
  BY Zenon DEF Download
<1>2. PICK e \in Failures(method) :
        Failed(e) /\ lost' = IF e = "vpn" THEN attempt ELSE lost
  BY Zenon DEF Download, Goto
<1>3. /\ e \in Error /\ e # "none" /\ e # "transition" /\ (e = "vpn" => method = "torrent") /\ (e = "ctx" => ctxDone)
  BY Zenon DEF Failures, Error, Integrity
<1>4. /\ UNCHANGED phase
      /\ \/ /\ pc' = "judge" /\ (err' = e \/ (err' = "vpn" /\ err = "vpn"))
            /\ phase = "fallback" /\ err = "vpn" => err' = "vpn"
         \/ pc' = "repairing" /\ phase = "repair" /\ UNCHANGED err
         \/ /\ pc' = "repair" /\ phase = "first" /\ method = "debrid" /\ err' = e
            /\ e \notin {"storage", "corrupt"}
         \/ pc' = "fallback" /\ phase = "first" /\ err' = e /\ e \notin {"storage", "corrupt"}
  BY Zenon, <1>2, FailedLeads
<1>11. Typed' BY <1>0, <1>1, <1>2, <1>3, <1>4 DEF Typed, Statuses, Places, Error, Integrity,
  Methods, choice, counts, env
<1>12. Statuses' BY <1>0, <1>1, <1>2, <1>3, <1>4 DEF Statuses, Typed, Terminal, counts, choice, env
<1>13. ContextEnds' BY Zenon, <1>0, <1>1, <1>2, <1>3, <1>4 DEF ContextEnds, Typed, Statuses, env
<1>14. Paid' BY <1>0, <1>1, <1>2, <1>3, <1>4 DEF Paid, Typed, Statuses, maxIntegrityAttempts,
  Integrity, counts
<1>15. Attempts' BY Zenon, <1>0, <1>1, <1>2, <1>3, <1>4 DEF Attempts, Typed, Statuses,
  maxIntegrityAttempts, maxStorageAttempts, counts
<1>16. AtHand' BY Zenon, <1>0, <1>1, <1>2, <1>3, <1>4 DEF AtHand, Typed, Statuses, Methods, choice
<1>17. Spent' BY <1>0, <1>1, <1>2, <1>3, <1>4 DEF Spent, Typed, Statuses, choice, counts
<1>5. status \in {"downloading", "cancelled"} BY Zenon, <1>1 DEF Statuses
<1>18. Tunnel'
  <2>1. CASE e = "vpn"
    <3>1. method = "torrent" /\ phase # "repair" BY Zenon, <1>3, <2>1 DEF AtHand
    <3>2. err' = "vpn" /\ pc' \in {"judge", "fallback"} BY Zenon, <1>4, <2>1, <3>1
    <3> QED BY <1>1, <1>2, <2>1, <3>1, <3>2 DEF Tunnel, Typed, choice, counts
  <2>2. CASE e # "vpn" /\ lost = attempt
    <3>1. phase = "fallback" /\ err = "vpn" BY Zenon, <1>1, <2>2 DEF Tunnel
    <3>2. err' = "vpn" /\ pc' = "judge" BY Zenon, <1>4, <3>1
    <3> QED BY <1>1, <1>2, <2>2, <3>2 DEF Tunnel, Typed, choice, counts
  <2>3. CASE e # "vpn" /\ lost # attempt
    BY <1>1, <1>2, <1>4, <2>3 DEF Tunnel, Typed, choice, counts
  <2> QED BY Zenon, <2>1, <2>2, <2>3
<1>19. Refused' BY <1>1, <1>3, <1>4, <1>5 DEF Refused, Exhausted, Typed, Statuses, choice, counts, env
<1> QED BY Zenon, <1>11, <1>12, <1>13, <1>14, <1>15, <1>16, <1>17, <1>18, <1>19

\* A downloader returns, with a file or an error.
LEMMA DownloadKeeps == RunInv /\ Download => RunInv'
BY Zenon, DownloadDelivers, DownloadFails


\* The next candidate is reserved before it is asked for.
LEMMA RepairNextKeeps == RunInv /\ RepairNext => RunInv'
<1> SUFFICES ASSUME RunInv, RepairNext PROVE RunInv' BY Zenon
<1> USE Table DEF RunInv
<1>0. Cardinality(tried) \in Nat /\ Sources \in Nat BY CountedType, Zenon DEF Typed
<1>1. Typed' BY RunAssumption DEF Typed, Places, Error, Integrity, TaskStatus, Methods,
  RepairNext, Goto, Judge, counts, env, history
<1>2. Statuses' BY DEF Statuses, Typed, Terminal, RepairNext, Goto, Judge, counts, env, history
<1>3. ContextEnds' BY Zenon DEF ContextEnds, Typed, Statuses, RepairNext, Goto, Judge, env
<1>4. Paid' BY Zenon DEF Paid, Typed, Statuses, maxIntegrityAttempts, Integrity, RepairNext, Goto,
  Judge, counts, history
<1>5. Attempts' BY Zenon DEF Attempts, Typed, Statuses, maxIntegrityAttempts, maxStorageAttempts,
  RepairNext, Goto, Judge, counts
<1>6. AtHand' BY Zenon DEF AtHand, Typed, Statuses, Methods, RepairNext, Goto, Judge
<1>7. Spent' BY <1>0 DEF Spent, Typed, Statuses, RepairNext, Goto, Judge, counts, history
<1>8. Tunnel' BY DEF Tunnel, Typed, Statuses, RepairNext, Goto, Judge, history, counts, env
<1>9. Refused'
  <2>1. \/ /\ pc' = "ask" /\ status' = "resolving" /\ left' < Sources /\ UNCHANGED err
        \/ /\ pc' \in {"judge", "fallback"} /\ status' = "cancelled" /\ stop = "stopped" /\ left' < Sources
           /\ err' = "transition"
        \/ /\ pc' \in {"judge", "fallback"} /\ UNCHANGED <<status, phase, left>>
           /\ err' \in {err, "vpn"} /\ (pc' = "judge" => phase = "repair")
           /\ status = "resolving" => phase = "repair"
    <3>1. CASE left > 0
      BY <1>0, <3>1 DEF RepairNext, Typed, Statuses
    <3>2. CASE ~(left > 0)
      BY Zenon, <3>2 DEF RepairNext, Statuses, AtHand, Goto, Judge
    <3> QED BY Zenon, <3>1, <3>2
  <2> QED BY <2>1 DEF Refused, Exhausted, Typed, Statuses, AtHand, RepairNext, counts, env, history
<1> QED BY Zenon, <1>1, <1>2, <1>3, <1>4, <1>5, <1>6, <1>7, <1>8, <1>9

\* The server answers for a candidate.
LEMMA AskSourceKeeps == RunInv /\ AskSource => RunInv'
<1> SUFFICES ASSUME RunInv, AskSource PROVE RunInv' BY Zenon
<1> USE Table DEF RunInv
<1>1. Typed' BY DEF Typed, Statuses, Places, Error, Integrity, TaskStatus, Methods,
  AskSource, Goto, Judge, choice, counts, env, history, Transition
<1>2. Statuses' BY DEF Statuses, Typed, Terminal, AskSource, Goto, Judge, counts, Transition,
  choice, env, history
<1>3. ContextEnds' BY Zenon DEF ContextEnds, Typed, Statuses, AskSource, Goto, Judge, env, Transition
<1>4. Paid' BY Zenon DEF Paid, Typed, Statuses, maxIntegrityAttempts, Integrity, AskSource, Goto,
  Judge, counts, history, Transition
<1>5. Attempts' BY Zenon DEF Attempts, Typed, Statuses, maxIntegrityAttempts, maxStorageAttempts,
  AskSource, Goto, Judge, counts, Transition
<1>6. AtHand' BY Zenon DEF AtHand, Typed, Statuses, Methods, AskSource, Goto, Judge, choice,
  Transition
<1>7. Spent' BY Zenon DEF Spent, Typed, Statuses, AskSource, Goto, Judge, choice, counts, history,
  Transition
<1>8. Tunnel' BY DEF Tunnel, Typed, Statuses, AskSource, Goto, Judge, choice, history, Transition,
  counts, env
<1>9. Refused' BY DEF Refused, Exhausted, Error, Integrity, AtHand, Typed, Statuses, AskSource,
  Goto, Judge, Transition, choice, counts, env, history
<1> QED BY Zenon, <1>1, <1>2, <1>3, <1>4, <1>5, <1>6, <1>7, <1>8, <1>9

\* The method that failed is marked, and another one tried.
LEMMA FallbackKeeps == RunInv /\ Fallback => RunInv'
<1> SUFFICES ASSUME RunInv, Fallback PROVE RunInv' BY Zenon
<1> USE Table DEF RunInv
<1>0. Cardinality(tried) \in Nat /\ Sources \in Nat BY CountedType, Zenon DEF Typed
<1>1. Typed'
  <2>1. tried' \subseteq Methods BY DEF AtHand, Typed, Fallback
  <2> QED BY <2>1 DEF Typed, Places, TaskStatus, Fallback, counts, env, history
<1>2. Statuses' BY DEF Statuses, Typed, Terminal, Fallback, Untried, counts, env, history
<1>3. ContextEnds' BY Zenon DEF ContextEnds, Typed, Statuses, Fallback, Untried, env
<1>4. Paid' BY Zenon DEF Paid, Typed, Statuses, maxIntegrityAttempts, Integrity, Fallback, Untried,
  counts, history
<1>5. Attempts' BY Zenon DEF Attempts, Typed, Statuses, maxIntegrityAttempts, maxStorageAttempts,
  Fallback, Untried, counts
<1>6. AtHand' BY Zenon DEF AtHand, Typed, Statuses, Methods, Fallback, Untried
<1>7. Spent'
  <2>1. method \in Methods /\ method \notin tried BY Zenon DEF AtHand, Fallback
  <2>2. Cardinality(tried') >= Cardinality(tried) /\ Cardinality(tried') \in Nat
    BY <1>0, <2>1, MarkedIsOneMore DEF Fallback, Typed
  <2>3. CASE pc' = "judge"
    BY <1>0, <2>2, <2>3 DEF Spent, Typed, Fallback, counts, history
  <2>4. CASE pc' # "judge"
    <3>1. tried' = tried \cup {method} BY Zenon, <2>4 DEF Fallback
    <3>2. Cardinality(tried') = Cardinality(tried) + 1 BY Zenon, <2>1, <3>1, MarkedIsOneMore DEF Typed
    <3> QED BY <1>0, <3>2 DEF Spent, Typed, Fallback, counts, history
  <2> QED BY Zenon, <2>3, <2>4
<1>8. Tunnel' BY DEF Tunnel, Typed, Statuses, Fallback, Untried, history, counts, env
<1>9. Refused' BY DEF Refused, Exhausted, Error, Integrity, AtHand, Typed, Statuses, Fallback,
  Untried, counts, env, history
<1> QED BY Zenon, <1>1, <1>2, <1>3, <1>4, <1>5, <1>6, <1>7, <1>8, <1>9

\* An error is judged: a retry, a pause or the end.
LEMMA JudgeErrorKeeps == RunInv /\ JudgeError => RunInv'
<1> SUFFICES ASSUME RunInv, JudgeError PROVE RunInv' BY Zenon
<1> USE Table DEF RunInv
<1>0. Cardinality(tried) \in Nat /\ Sources \in Nat BY CountedType, Zenon DEF Typed
<1>1. Typed' BY DEF Typed, Statuses, Places, Error, Integrity, TaskStatus, Methods,
  JudgeError, OnStorage, OnIntegrity, PauseForVPN, Retry, Fail, choice, env, history,
  Transition, maxIntegrityAttempts, maxStorageAttempts
<1>2. Statuses' BY DEF Statuses, Typed, Terminal, JudgeError, OnStorage, OnIntegrity, PauseForVPN,
  Retry, Fail, Transition, maxIntegrityAttempts, maxStorageAttempts, choice, env, history
<1>3. ContextEnds' BY Zenon DEF ContextEnds, Typed, Statuses, JudgeError, OnStorage, OnIntegrity,
  PauseForVPN, Retry, Fail, env, Transition, maxIntegrityAttempts, maxStorageAttempts
<1>4. Paid' BY DEF Paid, Typed, Statuses, maxIntegrityAttempts, Integrity, JudgeError,
  OnStorage, OnIntegrity, PauseForVPN, Retry, Fail, history, Transition, maxStorageAttempts
<1>5. Attempts' BY DEF Attempts, Typed, Statuses, maxIntegrityAttempts, maxStorageAttempts,
  JudgeError, OnStorage, OnIntegrity, PauseForVPN, Retry, Fail, Transition
<1>6. AtHand' BY Zenon DEF AtHand, Typed, Statuses, Methods, JudgeError, OnStorage, OnIntegrity,
  PauseForVPN, Retry, Fail, choice, Transition, maxIntegrityAttempts, maxStorageAttempts
<1>7. Spent' BY <1>0 DEF Spent, Typed, Statuses, JudgeError, OnStorage, OnIntegrity,
  PauseForVPN, Retry, Fail, choice, history, Transition, maxIntegrityAttempts,
  maxStorageAttempts
<1>8. Tunnel' BY DEF Tunnel, Typed, Statuses, JudgeError, OnStorage, OnIntegrity, PauseForVPN,
  Retry, Fail, choice, history, Transition, maxIntegrityAttempts, maxStorageAttempts, env
<1>9. Refused' BY DEF Refused, Exhausted, Error, Integrity, AtHand, Typed, Statuses, JudgeError,
  OnStorage, OnIntegrity, PauseForVPN, Retry, Fail, Transition, maxIntegrityAttempts,
  maxStorageAttempts, choice, env, history
<1> QED BY Zenon, <1>1, <1>2, <1>3, <1>4, <1>5, <1>6, <1>7, <1>8, <1>9

\* A result is verified.
LEMMA VerifyKeeps == RunInv /\ Verify => RunInv'
<1> SUFFICES ASSUME RunInv, Verify PROVE RunInv' BY Zenon
<1> USE Table DEF RunInv
<1>0. Cardinality(tried) \in Nat /\ Sources \in Nat BY CountedType, Zenon DEF Typed
<1>1. Typed' BY DEF counts, Typed, Statuses, Places, Error, Integrity, TaskStatus, Methods,
  Verify, OnStorage, OnIntegrity, Retry, Fail, choice, env, Transition, maxIntegrityAttempts,
  maxStorageAttempts
<1>2. Statuses' BY DEF Statuses, Typed, Terminal, Verify, OnStorage, OnIntegrity, Retry, Fail,
  Transition, maxIntegrityAttempts, maxStorageAttempts, choice, env
<1>3. ContextEnds' BY Zenon DEF ContextEnds, Typed, Statuses, Verify, OnStorage, OnIntegrity, Retry,
  Fail, env, Transition, maxIntegrityAttempts, maxStorageAttempts
<1>4. Paid' BY DEF counts, Paid, Typed, Statuses, maxIntegrityAttempts, Integrity, Verify, OnStorage,
  OnIntegrity, Retry, Fail, Transition, maxStorageAttempts
<1>5. Attempts' BY DEF counts, Attempts, Typed, Statuses, maxIntegrityAttempts, maxStorageAttempts,
  Verify, OnStorage, OnIntegrity, Retry, Fail, Transition
<1>6. AtHand' BY Zenon DEF AtHand, Typed, Statuses, Methods, Verify, OnStorage, OnIntegrity, Retry,
  Fail, choice, Transition, maxIntegrityAttempts, maxStorageAttempts
<1>7. Spent' BY <1>0 DEF counts, Spent, Typed, Statuses, Verify, OnStorage, OnIntegrity, Retry, Fail,
  choice, Transition, maxIntegrityAttempts, maxStorageAttempts
<1>8. Tunnel' BY DEF counts, Tunnel, Typed, Statuses, Verify, OnStorage, OnIntegrity, Retry, Fail, choice,
  Transition, maxIntegrityAttempts, maxStorageAttempts, env
<1>9. Refused' BY DEF Refused, Exhausted, Error, Integrity, AtHand, Typed, Statuses, Verify,
  OnStorage, OnIntegrity, Retry, Fail, Transition, maxIntegrityAttempts, maxStorageAttempts, choice,
  env
<1> QED BY Zenon, <1>1, <1>2, <1>3, <1>4, <1>5, <1>6, <1>7, <1>8, <1>9

\* A verified result is filed.
LEMMA FinalizeKeeps == RunInv /\ Finalize => RunInv'
<1> SUFFICES ASSUME RunInv, Finalize PROVE RunInv' BY Zenon
<1> USE Table DEF RunInv
<1>1. Typed' BY DEF Typed, Statuses, Places, Error, Integrity, TaskStatus, Methods,
  Finalize, Fail, choice, env, history, Transition
<1>2. Statuses' BY DEF Statuses, Typed, Terminal, Finalize, Fail, Transition, choice, env, history
<1>3. ContextEnds' BY Zenon DEF ContextEnds, Typed, Statuses, Finalize, Fail, env, Transition
<1>4. Paid' BY DEF Paid, Typed, Statuses, maxIntegrityAttempts, Integrity, Finalize, Fail,
  history, Transition
<1>5. Attempts' BY DEF Attempts, Typed, Statuses, maxIntegrityAttempts, maxStorageAttempts,
  Finalize, Fail, Transition
<1>6. AtHand' BY Zenon DEF AtHand, Typed, Statuses, Methods, Finalize, Fail, choice, Transition
<1>7. Spent' BY Zenon DEF Spent, Typed, Statuses, Finalize, Fail, choice, history, Transition
<1>8. Tunnel' BY DEF Tunnel, Typed, Statuses, Finalize, Fail, choice, history, Transition, env
<1>9. Refused' BY DEF Refused, Exhausted, Error, Integrity, AtHand, Typed, Statuses, Finalize, Fail,
  Transition, choice, env, history
<1> QED BY Zenon, <1>1, <1>2, <1>3, <1>4, <1>5, <1>6, <1>7, <1>8, <1>9

\* A caller ends the context.
LEMMA StopCancelKeeps == RunInv /\ StopCancel => RunInv'
<1> SUFFICES ASSUME RunInv, StopCancel PROVE RunInv' BY Zenon
<1> USE Table DEF RunInv
<1>1. Typed' BY DEF Typed, Statuses, Places, Error, Integrity, TaskStatus, Methods,
  StopCancel, control, choice, counts, history
<1>2. Statuses' BY DEF Statuses, Typed, Terminal, StopCancel, control, counts, choice, history
<1>3. ContextEnds' BY Zenon DEF ContextEnds, Typed, Statuses, StopCancel, control
<1>4. Paid' BY Zenon DEF Paid, Typed, Statuses, maxIntegrityAttempts, Integrity, StopCancel, control,
  counts, history
<1>5. Attempts' BY Zenon DEF Attempts, Typed, Statuses, maxIntegrityAttempts, maxStorageAttempts,
  StopCancel, counts
<1>6. AtHand' BY Zenon DEF AtHand, Typed, Statuses, Methods, StopCancel, control, choice
<1>7. Spent' BY Zenon DEF Spent, Typed, Statuses, StopCancel, control, choice, counts, history
<1>8. Tunnel' BY DEF Tunnel, Typed, Statuses, StopCancel, control, choice, history, counts
<1>9. Refused' BY DEF Refused, Exhausted, Error, Integrity, AtHand, Typed, Statuses, StopCancel,
  control, choice, counts, history
<1> QED BY Zenon, <1>1, <1>2, <1>3, <1>4, <1>5, <1>6, <1>7, <1>8, <1>9

\* The caller's second step.
LEMMA StopStatusKeeps == RunInv /\ StopStatus => RunInv'
<1> SUFFICES ASSUME RunInv, StopStatus PROVE RunInv' BY Zenon
<1> USE Table DEF RunInv
<1>1. Typed' BY DEF Typed, Statuses, Places, Error, Integrity, TaskStatus, Methods,
  StopStatus, control, choice, counts, history, Transition
<1>2. Statuses' BY DEF Statuses, Typed, Terminal, StopStatus, control, counts, Transition, choice,
  history
<1>3. ContextEnds' BY Zenon DEF ContextEnds, Typed, Statuses, StopStatus, control, Transition
<1>4. Paid' BY Zenon DEF Paid, Typed, Statuses, maxIntegrityAttempts, Integrity, StopStatus, control,
  counts, history, Transition
<1>5. Attempts' BY Zenon DEF Attempts, Typed, Statuses, maxIntegrityAttempts, maxStorageAttempts,
  StopStatus, counts, Transition
<1>6. AtHand' BY Zenon DEF AtHand, Typed, Statuses, Methods, StopStatus, control, choice, Transition
<1>7. Spent' BY Zenon DEF Spent, Typed, Statuses, StopStatus, control, choice, counts, history,
  Transition
<1>8. Tunnel' BY DEF Tunnel, Typed, Statuses, StopStatus, control, choice, history, Transition,
  counts
<1>9. Refused' BY DEF Refused, Exhausted, Error, Integrity, AtHand, Typed, Statuses, StopStatus,
  control, Transition, choice, counts, history
<1> QED BY Zenon, <1>1, <1>2, <1>3, <1>4, <1>5, <1>6, <1>7, <1>8, <1>9

\* The daemon begins to stop.
LEMMA ShutdownFlagKeeps == RunInv /\ ShutdownFlag => RunInv'
<1> SUFFICES ASSUME RunInv, ShutdownFlag PROVE RunInv' BY Zenon
<1> USE Table DEF RunInv
<1>1. Typed' BY DEF Typed, Statuses, Places, Error, Integrity, TaskStatus, Methods,
  ShutdownFlag, control, choice, counts, history
<1>2. Statuses' BY DEF Statuses, Typed, Terminal, ShutdownFlag, control, counts, choice, history
<1>3. ContextEnds' BY Zenon DEF ContextEnds, Typed, Statuses, ShutdownFlag, control
<1>4. Paid' BY Zenon DEF Paid, Typed, Statuses, maxIntegrityAttempts, Integrity, ShutdownFlag,
  control, counts, history
<1>5. Attempts' BY Zenon DEF Attempts, Typed, Statuses, maxIntegrityAttempts, maxStorageAttempts,
  ShutdownFlag, counts
<1>6. AtHand' BY Zenon DEF AtHand, Typed, Statuses, Methods, ShutdownFlag, control, choice
<1>7. Spent' BY Zenon DEF Spent, Typed, Statuses, ShutdownFlag, control, choice, counts, history
<1>8. Tunnel' BY DEF Tunnel, Typed, Statuses, ShutdownFlag, control, choice, history, counts
<1>9. Refused' BY DEF Refused, Exhausted, Error, Integrity, AtHand, Typed, Statuses, ShutdownFlag,
  control, choice, counts, history
<1> QED BY Zenon, <1>1, <1>2, <1>3, <1>4, <1>5, <1>6, <1>7, <1>8, <1>9

\* The contexts end.
LEMMA ShutdownCancelKeeps == RunInv /\ ShutdownCancel => RunInv'
<1> SUFFICES ASSUME RunInv, ShutdownCancel PROVE RunInv' BY Zenon
<1> USE Table DEF RunInv
<1>1. Typed' BY DEF Typed, Statuses, Places, Error, Integrity, TaskStatus, Methods,
  ShutdownCancel, control, choice, counts, history
<1>2. Statuses' BY DEF Statuses, Typed, Terminal, ShutdownCancel, control, counts, choice, history
<1>3. ContextEnds' BY Zenon DEF ContextEnds, Typed, Statuses, ShutdownCancel, control
<1>4. Paid' BY Zenon DEF Paid, Typed, Statuses, maxIntegrityAttempts, Integrity, ShutdownCancel,
  control, counts, history
<1>5. Attempts' BY Zenon DEF Attempts, Typed, Statuses, maxIntegrityAttempts, maxStorageAttempts,
  ShutdownCancel, counts
<1>6. AtHand' BY Zenon DEF AtHand, Typed, Statuses, Methods, ShutdownCancel, control, choice
<1>7. Spent' BY Zenon DEF Spent, Typed, Statuses, ShutdownCancel, control, choice, counts, history
<1>8. Tunnel' BY DEF Tunnel, Typed, Statuses, ShutdownCancel, control, choice, history, counts
<1>9. Refused' BY DEF Refused, Exhausted, Error, Integrity, AtHand, Typed, Statuses, ShutdownCancel,
  control, choice, counts, history
<1> QED BY Zenon, <1>1, <1>2, <1>3, <1>4, <1>5, <1>6, <1>7, <1>8, <1>9

\* Nothing happens.
LEMMA StutterKeeps == RunInv /\ UNCHANGED vars => RunInv'
<1> SUFFICES ASSUME RunInv, UNCHANGED vars PROVE RunInv' BY Zenon
<1> USE Table DEF RunInv
<1>1. Typed' BY DEF Typed, Statuses, Places, Error, Integrity, TaskStatus, Methods,
  vars, control, choice, counts, env, history
<1>2. Statuses' BY DEF Statuses, Typed, Terminal, vars, control, counts, choice, env, history
<1>3. ContextEnds' BY Zenon DEF ContextEnds, Typed, Statuses, vars, control, env
<1>4. Paid' BY Zenon DEF Paid, Typed, Statuses, maxIntegrityAttempts, Integrity, vars, control,
  counts, history
<1>5. Attempts' BY Zenon DEF Attempts, Typed, Statuses, maxIntegrityAttempts, maxStorageAttempts,
  vars, counts
<1>6. AtHand' BY DEF AtHand, Typed, Statuses, Methods, vars, control, choice
<1>7. Spent' BY Zenon DEF Spent, Typed, Statuses, vars, control, choice, counts, history
<1>8. Tunnel' BY DEF Tunnel, Typed, Statuses, vars, control, choice, history, counts, env
<1>9. Refused' BY DEF Refused, Exhausted, Error, Integrity, AtHand, Typed, Statuses, vars, control,
  choice, counts, env, history
<1> QED BY <1>1, <1>2, <1>3, <1>4, <1>5, <1>6, <1>7, <1>8, <1>9

\* Every step of the run, of the callers and of the shutdown preserves RunInv.
LEMMA StepKeeps == RunInv /\ [Next]_vars => RunInv'
<1> SUFFICES ASSUME RunInv, [Next]_vars PROVE RunInv' BY Zenon
<1>1. CASE Run
  BY <1>1, AttemptKeeps, ResolveMethodKeeps, StartDownloadKeeps, DownloadKeeps, RepairNextKeeps,
     AskSourceKeeps, FallbackKeeps, JudgeErrorKeeps, VerifyKeeps, FinalizeKeeps DEF Run
<1>2. CASE StopCancel \/ StopStatus \/ ShutdownFlag \/ ShutdownCancel
  BY <1>2, StopCancelKeeps, StopStatusKeeps, ShutdownFlagKeeps, ShutdownCancelKeeps
<1>3. CASE Done \/ UNCHANGED vars
  BY Zenon, <1>3, StutterKeeps DEF Done
<1> QED BY <1>1, <1>2, <1>3 DEF Next

\* A run begins with nothing spent.
LEMMA InitHolds == Init => RunInv
<1> SUFFICES ASSUME Init PROVE RunInv BY Zenon
<1>1. Cardinality(tried) = 0 /\ Sources \in Nat /\ left = Sources BY Zenon, FS_EmptySet, RunAssumption
  DEF Init
<1>2. Typed
  <2>1. /\ status = "claimed" /\ pc = "attempt" /\ phase = "first" /\ err = "none" /\ tried = {}
        /\ attempt = 1 /\ storageAttempt = 0 /\ ctxDone = FALSE /\ stop = "no"
        /\ shuttingDown = FALSE /\ downloads = 0 /\ corruptions = 0 /\ lost = 0
    BY Zenon DEF Init
  <2>2. left \in 0..Sources /\ attempt \in Nat \ {0} /\ storageAttempt \in Nat
        /\ downloads \in Nat /\ corruptions \in Nat /\ lost \in Nat
    BY <1>1, <2>1
  <2> QED BY <2>1, <2>2, Zenon DEF Typed, Places, Error, TaskStatus
<1>3. Spent BY <1>1 DEF Init, Spent
<1>4. Statuses /\ ContextEnds /\ AtHand BY Zenon DEF Init, Statuses, Terminal, ContextEnds, AtHand
<1>6. Tunnel /\ Refused BY DEF Init, Tunnel, Refused, Exhausted
<1>5. Paid /\ Attempts
  BY DEF Init, Paid, Attempts, Integrity, maxIntegrityAttempts, maxStorageAttempts
<1> QED BY <1>2, <1>3, <1>4, <1>5, <1>6 DEF RunInv

\* processTask keeps its books: RunInv holds at every moment of every run.
THEOREM TaskRunInvariant == Spec => []RunInv
BY InitHolds, StepKeeps, PTL DEF Spec

\* processTask and fail: a run that was not interrupted by a shutdown ends in a
\* terminal status with the verdict it earned, for any order of methods, any number
\* of candidates and any moment of a cancel or a shutdown.
THEOREM TaskRunVerdict == Spec => []VerdictIsEarned
<1>1. RunInv => VerdictIsEarned
  BY Zenon DEF RunInv, VerdictIsEarned, Statuses, ContextEnds, Paid, Refused, Exhausted
<1> QED BY <1>1, TaskRunInvariant, PTL

\* processTask, tryFallback, NextDebridRepairSource: the downloads of a run are bounded
\* by its attempts, the methods it left and the candidates it used, and the attempts
\* by four, for every number of candidates.
THEOREM TaskRunBounded == Spec => []DownloadsBounded
<1>1. RunInv => DownloadsBounded
  BY Zenon DEF RunInv, DownloadsBounded, Spent, Attempts
<1> QED BY <1>1, TaskRunInvariant, PTL

\* attemptDownload: after the tunnel was lost, no download of this run is by torrent.
THEOREM TaskRunTorrentStops == Spec => TorrentStopsAtTunnel
<1>1. RunInv /\ [Next]_vars => [lost # 0 /\ downloads' # downloads => method # "torrent"]_vars
  <2> SUFFICES ASSUME RunInv, Next, lost # 0, downloads' # downloads
               PROVE  method # "torrent"
    BY Zenon
  <2>1. pc = "download"
    BY Zenon DEF Next, Run, Attempt, ResolveMethod, StartDownload, Download, RepairNext, AskSource,
           Fallback, JudgeError, Verify, Finalize, StopCancel, StopStatus, ShutdownFlag,
           ShutdownCancel, Done, vars, history
  <2> QED BY Zenon, <2>1 DEF RunInv, Tunnel, AtHand
<1> QED BY <1>1, TaskRunInvariant, PTL DEF Spec, TorrentStopsAtTunnel

\* attemptDownload, pauseForVPN: an attempt that lost the tunnel and ends without a
\* result pauses the task, whatever its other methods died of, unless the user had
\* stopped it.
THEOREM TaskRunTunnelLoss == Spec => TunnelLossIsResumable
<1>1. RunInv /\ [Next]_vars =>
        [pc = "judge" /\ pc' # "judge" /\ lost = attempt /\ stop = "no" => outcome' = "paused"]_vars
  <2> SUFFICES ASSUME RunInv, Next, pc = "judge", pc' # "judge", lost = attempt, stop = "no"
               PROVE  outcome' = "paused"
    BY Zenon
  <2>1. JudgeError
    BY Zenon DEF Next, Run, Attempt, ResolveMethod, StartDownload, Download, RepairNext, AskSource,
           Fallback, Verify, Finalize, StopCancel, StopStatus, ShutdownFlag,
           ShutdownCancel, Done, vars, control
  <2>2. err = "vpn" /\ status \in {"resolving", "downloading"}
    BY Zenon DEF RunInv, Tunnel, Statuses
  <2>3. PauseForVPN BY Zenon, <2>1, <2>2 DEF JudgeError, Integrity
  <2> QED BY Zenon, <2>2, <2>3, Table DEF PauseForVPN
<1> QED BY <1>1, TaskRunInvariant, PTL DEF Spec, TunnelLossIsResumable

-----------------------------------------------------------------------------
(***************************************************************************)
(* AgentSync: a resume that the server has confirmed is not undone by a    *)
(* pause from before it, for any calls of the users and any losses.        *)
(***************************************************************************)
\* A download that runs is not marked paused in the resume store.
Unmarked == run \in Active => entry # "paused"

\* No pause is on its way to the agent.
NoPauseInFlight == ~PauseInFlight

\* Until resumeGrace runs out too early for it, the grace covers a local resume from its
\* claim to the answer of the server, and from then on for as long as a pause from
\* before is on its way; the server sends no new one, because its row is not paused and
\* no report of a pause is left to arrive.
Covered ==
    /\ grace \in BOOLEAN
    /\ local \in {"report", "ask"} /\ wish = "resuming" => grace
    /\ wish = "resumed" => row # "paused" /\ notes = {} /\ (grace \/ NoPauseInFlight)

ControlInv == Unmarked /\ Covered

\* What PauseIsWanted says of one step.
Kept == wish = "resumed" /\ wish' = "resumed" /\ run \in Active => entry' # "paused"

\* Manager: a task that was stopped, in the line or at work, is not active any more.
LEMMA StopRests == Stop => run' \notin Active
  BY DEF Stop, Active

\* Submit: a task that enters the line has a live entry.
LEMMA SubmitUnmarked == Submit /\ Unmarked => Unmarked' /\ (run \in Active => entry' # "paused")
  BY DEF Submit, Unmarked, Active

\* ApplyWebAction: outside a grace only a pause marks the entry, within one nothing does.
LEMMA ApplyRests ==
    ASSUME NEW action, ControlInv, ApplyWebAction(action)
    PROVE  /\ Unmarked'
           /\ grace' \in BOOLEAN
           /\ \/ grace' = FALSE /\ wish' = "other"
              \/ wish' = wish /\ (grace => grace')
           /\ (run \in Active /\ entry' = "paused" => action = "pause" /\ ~grace)
  <1>1. CASE action = "cancel"
    <2>1. ApplyCancel
      BY <1>1 DEF ApplyWebAction
    <2> QED
      BY <2>1, StopRests, Zenon DEF ApplyCancel, CancelAndDrop, Unmarked
  <1>2. CASE action = "pause"
    <2>1. ApplyPause
      BY <1>2 DEF ApplyWebAction
    <2>2. CASE grace
      BY <1>2, <2>1, <2>2 DEF ApplyPause, ControlInv, Covered, Unmarked, task
    <2>3. CASE ~grace
      <3>1. run' \notin Active
        BY <2>1, <2>3, StopRests DEF ApplyPause, PauseTask
      <3> QED
        BY <1>2, <2>1, <2>3, <3>1 DEF ApplyPause, ControlInv, Covered, Unmarked
    <2> QED
      BY <2>2, <2>3, Zenon
  <1>3. CASE action = "resume"
    <2>1. ApplyResume
      BY <1>3 DEF ApplyWebAction
    <2> QED
      BY <1>3, <2>1 DEF ApplyResume, ControlInv, Covered, Unmarked, task
  <1>4. CASE action \notin {"cancel", "pause", "resume"}
    <2>1. UNCHANGED <<task, grace, wish>>
      BY <1>4 DEF ApplyWebAction
    <2> QED
      BY <2>1 DEF ControlInv, Covered, Unmarked, task
  <1> QED
    BY <1>1, <1>2, <1>3, <1>4, Zenon

\* The goroutine of the task and the end of the grace.
LEMMA TaskStep ==
    ASSUME ControlInv, Start \/ Finish \/ ReportFinal \/ GraceExpires
    PROVE  ControlInv' /\ Kept
  <1>1. CASE Start
    BY <1>1 DEF Start, ControlInv, Covered, Unmarked, NoPauseInFlight, PauseInFlight, Kept, Active, net
  <1>2. CASE Finish
    <2>1. run' \notin Active /\ (entry' = "paused" => entry = "paused")
      BY <1>2 DEF Finish, Active
    <2> QED
      BY <1>2, <2>1 DEF Finish, ControlInv, Covered, Unmarked, NoPauseInFlight, PauseInFlight, Kept, net
  <1>3. CASE ReportFinal
    <2>1. run' \notin Active /\ (row # "paused" => row' # "paused")
      BY <1>3 DEF ReportFinal, Active, Settled
    <2> QED
      BY <1>3, <2>1 DEF ReportFinal, ControlInv, Covered, Unmarked, NoPauseInFlight, PauseInFlight, Kept, net
  <1>4. CASE GraceExpires
    BY <1>4, Zenon DEF GraceExpires, ControlInv, Covered, Unmarked, NoPauseInFlight, PauseInFlight, Kept, net, task
  <1> QED
    BY <1>1, <1>2, <1>3, <1>4

\* A pause that is applied was on its way, so a confirmed resume is still in its grace.
LEMMA AnswerApplied ==
    ASSUME NEW action, ControlInv, ApplyWebAction(action),
           UNCHANGED <<row, notes, local>>,
           action = "pause" => ~NoPauseInFlight,
           NoPauseInFlight => NoPauseInFlight'
    PROVE  ControlInv' /\ Kept
  <1>1. /\ Unmarked' /\ grace' \in BOOLEAN
        /\ \/ grace' = FALSE /\ wish' = "other"
           \/ wish' = wish /\ (grace => grace')
        /\ (run \in Active /\ entry' = "paused" => action = "pause" /\ ~grace)
    BY ApplyRests, Zenon
  <1>2. Covered'
    BY <1>1 DEF ControlInv, Covered
  <1>3. Kept
    BY <1>1 DEF ControlInv, Covered, Kept
  <1> QED
    BY <1>1, <1>2, <1>3 DEF ControlInv

\* The exchange of a sync.
LEMMA SyncStep == ASSUME ControlInv, Sync PROVE ControlInv' /\ Kept
  <1>1. CASE SyncSend
    BY <1>1 DEF SyncSend, ControlInv, Covered, Unmarked, NoPauseInFlight, PauseInFlight, Kept
  <1>2. CASE SyncServer
    <2>1. row # "paused" => row' # "paused" /\ uplink'.answer # "pause"
      BY <1>2 DEF SyncServer, Settled
    <2> QED
      BY <1>2, <2>1 DEF SyncServer, ControlInv, Covered, Unmarked, NoPauseInFlight, PauseInFlight, Kept, task
  <1>3. CASE SyncLost
    BY <1>3 DEF SyncLost, ControlInv, Covered, Unmarked, NoPauseInFlight, PauseInFlight, Kept, task, NoSync
  <1>4. CASE SyncProcess
    <2>1. uplink' = NoSync /\ UNCHANGED <<row, downlink, report, notes, local>>
      BY <1>4 DEF SyncProcess
    <2>2. NoPauseInFlight => NoPauseInFlight'
      BY <2>1 DEF NoPauseInFlight, PauseInFlight, NoSync
    <2>3. CASE uplink.answer = "task"
      <3>1. Submit /\ UNCHANGED <<grace, wish>>
        BY <1>4, <2>3 DEF SyncProcess
      <3>2. Unmarked' /\ (run \in Active => entry' # "paused")
        BY <3>1, SubmitUnmarked DEF ControlInv
      <3> QED
        BY <2>1, <2>2, <3>1, <3>2 DEF ControlInv, Covered, Kept
    <2>4. CASE uplink.answer # "task"
      <3>1. ApplyWebAction(uplink.answer)
        BY <1>4, <2>4 DEF SyncProcess, Apply
      <3>2. uplink.answer = "pause" => ~NoPauseInFlight
        BY DEF NoPauseInFlight, PauseInFlight
      <3> QED
        BY <2>1, <2>2, <3>1, <3>2, AnswerApplied
    <2> QED
      BY <2>3, <2>4
  <1> QED
    BY <1>1, <1>2, <1>3, <1>4 DEF Sync

\* A command of the downlink, applied or lost.
LEMMA CommandStep == ASSUME ControlInv, Command PROVE ControlInv' /\ Kept
  <1>1. PICK action \in downlink :
          /\ downlink' = downlink \ {action}
          /\ Apply(action) \/ UNCHANGED <<task, reporter, grace, wish>>
    BY DEF Command
  <1>2. UNCHANGED <<row, uplink, report, notes, local>>
    BY DEF Command
  <1>3. NoPauseInFlight => NoPauseInFlight'
    BY <1>1, <1>2 DEF NoPauseInFlight, PauseInFlight
  <1>4. CASE Apply(action)
    <2>1. ApplyWebAction(action)
      BY <1>4 DEF Apply
    <2>2. action = "pause" => ~NoPauseInFlight
      BY <1>1 DEF NoPauseInFlight, PauseInFlight
    <2> QED
      BY <1>2, <1>3, <2>1, <2>2, AnswerApplied
  <1>5. CASE UNCHANGED <<task, reporter, grace, wish>>
    BY <1>2, <1>3, <1>5 DEF ControlInv, Covered, Unmarked, Kept, task
  <1> QED
    BY <1>1, <1>4, <1>5

\* The exchange of a status report.
LEMMA ReporterStep == ASSUME ControlInv, Reporter PROVE ControlInv' /\ Kept
  <1>1. CASE Flush
    BY <1>1 DEF Flush, ControlInv, Covered, Unmarked, NoPauseInFlight, PauseInFlight, Kept, task
  <1>2. CASE ReportServer
    <2>1. row # "paused" => report' # "paused"
      BY <1>2 DEF ReportServer
    <2> QED
      BY <1>2, <2>1 DEF ReportServer, ControlInv, Covered, Unmarked, NoPauseInFlight, PauseInFlight, Kept, task
  <1>3. CASE HandleResponse
    <2>1. report' = "idle" /\ UNCHANGED <<row, uplink, downlink, notes, local>>
      BY <1>3 DEF HandleResponse
    <2>2. NoPauseInFlight => NoPauseInFlight'
      BY <2>1 DEF NoPauseInFlight, PauseInFlight
    <2>3. CASE report = "ok"
      <3>1. UNCHANGED <<task, grace, wish>>
        BY <1>3, <2>3 DEF HandleResponse
      <3> QED
        BY <2>1, <2>2, <3>1 DEF ControlInv, Covered, Unmarked, Kept, task
    <2>4. CASE report = "unknown"
      <3>1. NoteUnknown /\ UNCHANGED <<grace, wish>>
        BY <1>3, <2>4 DEF HandleResponse
      <3>2. UNCHANGED <<run, entry>> \/ (Stop /\ entry' = "absent")
        BY <3>1 DEF NoteUnknown, CancelAndDrop, task
      <3>3. Unmarked' /\ (run \in Active => entry' # "paused")
        BY <3>2, StopRests DEF ControlInv, Unmarked
      <3> QED
        BY <2>1, <2>2, <3>1, <3>3 DEF ControlInv, Covered, Kept
    <2>5. CASE report = "cancelled"
      <3>1. ApplyWebAction("cancel")
        BY <1>3, <2>5 DEF HandleResponse, ApplyWebAction
      <3> QED
        BY <2>1, <2>2, <3>1, AnswerApplied
    <2>6. CASE report = "paused"
      <3>1. ApplyWebAction("pause")
        BY <1>3, <2>6 DEF HandleResponse, ApplyWebAction
      <3>2. ~NoPauseInFlight
        BY <2>6 DEF NoPauseInFlight, PauseInFlight
      <3> QED
        BY <2>1, <2>2, <3>1, <3>2, AnswerApplied
    <2> QED
      BY <1>3, <2>3, <2>4, <2>5, <2>6 DEF HandleResponse
  <1> QED
    BY <1>1, <1>2, <1>3 DEF Reporter

\* The calls of the user on this machine.
LEMMA LocalStep == ASSUME ControlInv, Locally PROVE ControlInv' /\ Kept
  <1>1. CASE LocalPause
    <2>1. run' \notin Active
      BY <1>1, StopRests DEF LocalPause, PauseTask
    <2> QED
      BY <1>1, <2>1, Zenon DEF LocalPause, ControlInv, Covered, Unmarked, Kept
  <1>2. CASE LocalCancel
    BY <1>2, Zenon DEF LocalCancel, CancelAndDrop, ControlInv, Covered, Unmarked, Kept
  <1>3. CASE Purge
    BY <1>3 DEF Purge, ControlInv, Covered, Unmarked, Kept
  <1>4. CASE LocalResume
    BY <1>4 DEF LocalResume, ControlInv, Covered, Unmarked, Kept, task
  <1>5. CASE LocalRetry
    <2>1. Unmarked'
      BY <1>5 DEF LocalRetry, CancelAndDrop, ControlInv, Unmarked, task
    <2> QED
      BY <1>5, <2>1 DEF LocalRetry, ControlInv, Covered, Kept
  <1>6. CASE LocalReport
    <2>1. UNCHANGED <<task, grace, net>>
      BY <1>6 DEF LocalReport
    <2>2. row # "paused" => row' # "paused"
      BY <1>6 DEF LocalReport
    <2>3. wish' = wish \/ (wish' = "resumed" /\ wish = "resuming" /\ notes = {} /\ row' # "paused")
      BY <1>6 DEF LocalReport
    <2>4. local \in {"report", "ask"} /\ local' \notin {"report", "ask"}
      BY <1>6 DEF LocalReport
    <2>5. Covered'
      BY <2>1, <2>2, <2>3, <2>4 DEF ControlInv, Covered, NoPauseInFlight, PauseInFlight, net
    <2> QED
      BY <2>1, <2>5 DEF ControlInv, Unmarked, Kept, task
  <1>7. CASE LocalSubmit
    <2>1. Unmarked' /\ (run \in Active => entry' # "paused")
      BY <1>7, SubmitUnmarked DEF LocalSubmit, ControlInv
    <2> QED
      BY <1>7, <2>1 DEF LocalSubmit, ControlInv, Covered, NoPauseInFlight, PauseInFlight, Kept, net
  <1>8. CASE Note
    <2>1. notes # {} /\ UNCHANGED <<task, grace, wish, local>>
      BY <1>8 DEF Note
    <2> QED
      BY <2>1 DEF ControlInv, Covered, Unmarked, Kept, task
  <1> QED
    BY <1>1, <1>2, <1>3, <1>4, <1>5, <1>6, <1>7, <1>8 DEF Locally

\* The calls of the user on the web: the resume is not their last word any more.
LEMMA WebStep == ASSUME ControlInv, Web PROVE ControlInv' /\ Kept
  <1>1. wish' = "other" /\ UNCHANGED <<task, grace>>
    BY DEF Web, WebCall
  <1> QED
    BY <1>1 DEF ControlInv, Covered, Unmarked, Kept, task

\* Every step of the agent, the server and the users keeps the invariant.
LEMMA ControlStep ==
    ASSUME ControlInv, [AgentNext]_agentVars
    PROVE  ControlInv' /\ (AgentNext => Kept)
  <1>1. CASE AgentNext
    BY <1>1, TaskStep, SyncStep, CommandStep, ReporterStep, LocalStep, WebStep DEF AgentNext
  <1>2. CASE UNCHANGED agentVars
    BY <1>2 DEF agentVars, ControlInv, Covered, Unmarked, NoPauseInFlight, PauseInFlight, Kept, task, net
  <1> QED
    BY <1>1, <1>2

\* taskController: while it lasts, the grace covers a resume until no older pause is on its
\* way, and a download that runs is not marked paused.
THEOREM AgentControlInvariant == AgentSpec => []ControlInv
  <1>1. AgentInit => ControlInv
    BY Zenon DEF AgentInit, ControlInv, Covered, Unmarked, Active
  <1>2. ControlInv /\ [AgentNext]_agentVars => ControlInv'
    BY ControlStep
  <1> QED
    BY <1>1, <1>2, PTL DEF AgentSpec

\* recentlyResumed: a resume that the server has confirmed is not undone by a pause that
\* left before it, whichever way it comes and whatever is lost, unless the pause or the
\* confirmation takes longer than resumeGrace.
THEOREM AgentPauseIsWanted == AgentSpec => PauseIsWanted
  <1>1. ControlInv /\ [AgentNext]_agentVars => [Kept]_agentVars
    BY ControlStep
  <1>2. [Kept]_agentVars => [wish = "resumed" /\ wish' = "resumed" /\ run \in Active => entry' # "paused"]_agentVars
    BY DEF Kept
  <1> QED
    BY <1>1, <1>2, AgentControlInvariant, PTL DEF AgentSpec, PauseIsWanted
=============================================================================
