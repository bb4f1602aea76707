------------------------------ MODULE PathLock ------------------------------
(***************************************************************************)
(* internal/engine/pathlock.go: the reference-counted lock per filesystem  *)
(* path.  The debrid downloader takes one per destination file (a single   *)
(* writer per partial) and the manager one per release directory.          *)
(*                                                                         *)
(* An entry is a heap object: it is reachable from the map "locks" and     *)
(* from every caller that fetched it, and it outlives its deletion from    *)
(* the map for as long as a caller holds it.  That is where the danger is: *)
(* two callers of one path that hold different entries do not exclude each *)
(* other.                                                                  *)
(***************************************************************************)
EXTENDS Naturals, FiniteSets

CONSTANTS Procs,      \* callers (download goroutines)
          Spellings,  \* the path strings callers pass
          Keys,       \* normalised absolute paths
          Abs,        \* filepath.Abs, Spellings -> Keys
          Entries,    \* pathLockEntry objects
          NoEntry     \* nil

ASSUME PathLockAssumption ==
    /\ IsFiniteSet(Procs)
    /\ Abs \in [Spellings -> Keys]
    /\ NoEntry \notin Entries

VARIABLES locks,      \* Keys -> entry or NoEntry: the map
          refs,       \* entry -> its reference count
          ch,         \* entry -> number of tokens in its capacity-1 channel
          stage,      \* caller -> where it is in LockCtx / its release function
          mine,       \* caller -> the entry LockCtx fetched
          key         \* caller -> the key it fetched it under

lockVars == <<locks, refs, ch, stage, mine, key>>

\* "draining": the release function took the token out and has yet to call release.
States == {"idle", "waiting", "held", "draining"}

LockInit ==
    /\ locks = [k \in Keys |-> NoEntry]
    /\ refs = [e \in Entries |-> 0]
    /\ ch = [e \in Entries |-> 0]
    /\ stage = [p \in Procs |-> "idle"]
    /\ mine = [p \in Procs |-> NoEntry]
    /\ key \in [Procs -> Keys]

\* A new object: nothing in the program refers to it.
Fresh(e) ==
    /\ \A k \in Keys : locks[k] # e
    /\ \A p \in Procs : mine[p] # e

\* The entry of a key: the one in the map, or a new one.
EntryOf(k, e) == IF locks[k] # NoEntry THEN e = locks[k] ELSE Fresh(e)

\* entry(path): look the key up or create it and take a reference, all under mu.
Entry(p, s) ==
    /\ stage[p] = "idle"
    /\ \E e \in Entries :
         /\ EntryOf(Abs[s], e)
         /\ locks' = [locks EXCEPT ![Abs[s]] = e]
         /\ refs' = [refs EXCEPT ![e] = IF locks[Abs[s]] = NoEntry THEN 1 ELSE @ + 1]
         /\ ch' = IF locks[Abs[s]] = NoEntry THEN [ch EXCEPT ![e] = 0] ELSE ch
         /\ mine' = [mine EXCEPT ![p] = e]
         /\ key' = [key EXCEPT ![p] = Abs[s]]
         /\ stage' = [stage EXCEPT ![p] = "waiting"]

\* Mutant: the map's entry goes with every release, other users or not.
ReleaseAlwaysDeletes(p) ==
    /\ refs' = [refs EXCEPT ![mine[p]] = @ - 1]
    /\ locks' = [locks EXCEPT ![key[p]] = NoEntry]
    /\ mine' = [mine EXCEPT ![p] = NoEntry]
    /\ stage' = [stage EXCEPT ![p] = "idle"]
    /\ UNCHANGED key

\* Mutant: the map's entry is never deleted.
ReleaseNeverDeletes(p) ==
    /\ refs' = [refs EXCEPT ![mine[p]] = @ - 1]
    /\ mine' = [mine EXCEPT ![p] = NoEntry]
    /\ stage' = [stage EXCEPT ![p] = "idle"]
    /\ UNCHANGED <<locks, key>>

\* release(e, key): drop the reference, and the map's entry with the last one.
Release(p) ==
    LET e == mine[p] IN
    /\ refs' = [refs EXCEPT ![e] = @ - 1]
    /\ locks' = IF refs[e] = 1 THEN [locks EXCEPT ![key[p]] = NoEntry] ELSE locks
    /\ mine' = [mine EXCEPT ![p] = NoEntry]
    /\ stage' = [stage EXCEPT ![p] = "idle"]
    /\ UNCHANGED key

\* LockCtx: the send on e.ch goes through.
Acquire(p) ==
    /\ stage[p] = "waiting"
    /\ ch[mine[p]] = 0
    /\ ch' = [ch EXCEPT ![mine[p]] = 1]
    /\ stage' = [stage EXCEPT ![p] = "held"]
    /\ UNCHANGED <<locks, refs, mine, key>>

\* LockCtx: the context ends while the caller waits.
Abort(p) ==
    /\ stage[p] = "waiting"
    /\ Release(p)
    /\ UNCHANGED ch

\* Mutant: the release function forgets the token in the channel.
UnlockKeepsToken(p) ==
    /\ stage[p] = "held"
    /\ stage' = [stage EXCEPT ![p] = "draining"]
    /\ UNCHANGED <<locks, refs, ch, mine, key>>

\* The release function, first half: take the token out of the channel.
Unlock(p) ==
    /\ stage[p] = "held"
    /\ ch' = [ch EXCEPT ![mine[p]] = 0]
    /\ stage' = [stage EXCEPT ![p] = "draining"]
    /\ UNCHANGED <<locks, refs, mine, key>>

\* The release function, second half.
UnlockRelease(p) ==
    /\ stage[p] = "draining"
    /\ Release(p)
    /\ UNCHANGED ch

LockNext == \E p \in Procs :
    \/ \E s \in Spellings : Entry(p, s)
    \/ Acquire(p)
    \/ Abort(p)
    \/ Unlock(p)
    \/ UnlockRelease(p)

(***************************************************************************)
(* A blocked send on a Go channel is served in arrival order, so a caller  *)
(* the channel is offered to again and again gets it: strong fairness of   *)
(* Acquire.  A holder ends its download sooner or later.                   *)
(***************************************************************************)
LockFairness == \A p \in Procs :
    /\ SF_lockVars(Acquire(p))
    /\ WF_lockVars(Unlock(p))
    /\ WF_lockVars(UnlockRelease(p))

LockSpec == LockInit /\ [][LockNext]_lockVars
FairSpec == LockSpec /\ LockFairness

-----------------------------------------------------------------------------
TypeOK ==
    /\ locks \in [Keys -> Entries \cup {NoEntry}]
    /\ refs \in [Entries -> Nat]
    /\ ch \in [Entries -> {0, 1}]
    /\ stage \in [Procs -> States]
    /\ mine \in [Procs -> Entries \cup {NoEntry}]
    /\ key \in [Procs -> Keys]

Users(e) == {p \in Procs : mine[p] = e}

\* At most one caller at a time is inside the lock of a path, under whatever
\* spelling it asked for it: what makes the debrid downloader the single writer
\* of a destination file.
SingleWriter ==
    \A p, q \in Procs :
        stage[p] = "held" /\ stage[q] = "held" /\ key[p] = key[q] => p = q

\* The map holds an entry exactly while somebody waits for or holds its lock: it
\* does not grow with every path the process ever touched.
NoLeak == \A k \in Keys : locks[k] # NoEntry <=> \E p \in Procs : mine[p] # NoEntry /\ key[p] = k

\* Everyone who uses a path uses the one entry the map shows for it: the part of
\* the inductive invariant that a miscounted reference breaks first.
Shared == \A p \in Procs : mine[p] # NoEntry => locks[key[p]] = mine[p]

\* The reference count of an entry counts its users, waiting ones included.
Counted == \A e \in Entries : refs[e] = Cardinality(Users(e))

\* The token of an entry is in the channel exactly while one user is inside.
Token == \A e \in Entries :
    /\ ch[e] = 1 <=> \E p \in Users(e) : stage[p] = "held"
    /\ \A p, q \in Users(e) : stage[p] = "held" /\ stage[q] = "held" => p = q

\* The inductive invariant behind SingleWriter and NoLeak.
IndInv ==
    /\ TypeOK
    /\ Counted
    /\ Shared
    /\ Token
    /\ \A p \in Procs : mine[p] = NoEntry <=> stage[p] = "idle"
    /\ \A p, q \in Procs : mine[p] = mine[q] /\ mine[p] # NoEntry => key[p] = key[q]
    /\ \A k \in Keys : locks[k] # NoEntry => \E p \in Procs : mine[p] = locks[k] /\ key[p] = k

\* A caller that waits for a path does not wait forever while holders finish.
WaiterServed == \A p \in Procs : stage[p] = "waiting" ~> stage[p] # "waiting"
=============================================================================
