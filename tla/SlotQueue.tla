----------------------------- MODULE SlotQueue -----------------------------
(***************************************************************************)
(* internal/engine/manager_queue.go: the download slots and the line of    *)
(* tasks that wait for one.                                                *)
(*                                                                         *)
(* queueMu protects queue and running.  Every change of one of them is one *)
(* step here, and the dispatch that follows it in the code is a later      *)
(* step, because the lock is dropped in between.  A slotLease is private   *)
(* to the goroutine that runs the task, so its flag and the change of      *)
(* running are one step.                                                   *)
(***************************************************************************)
EXTENDS Integers, Sequences, FiniteSets

CONSTANTS Tasks,          \* Task objects
          MaxConcurrent   \* ManagerConfig.MaxConcurrent

ASSUME SlotQueueAssumption ==
    /\ IsFiniteSet(Tasks)
    /\ MaxConcurrent \in Nat \ {0}

VARIABLES queue,          \* Manager.queue: the line, oldest first
          running,        \* Manager.running: slots in use
          slot,           \* task -> where it is with respect to the slots
          enqueuing,      \* tasks appended whose enqueue has yet to dispatch
          ended,          \* tasks without a live context
          shuttingDown    \* Manager.shuttingDown

slotVars == <<queue, running, slot, enqueuing, ended, shuttingDown>>

(***************************************************************************)
(* "out": not in the line and without a lease (new, forced or finished);   *)
(* "dropped": taken out of the line unstarted, still to be forgotten;      *)
(* "held" / "yielded": running with / without its slot;                    *)
(* "yielding" / "handing": gave the slot back and has yet to dispatch,     *)
(* to go on / to end.                                                      *)
(***************************************************************************)
SlotStates == {"out", "queued", "dropped", "held", "yielding", "yielded", "handing"}

SlotInit ==
    /\ queue = <<>>
    /\ running = 0
    /\ slot = [t \in Tasks |-> "out"]
    /\ enqueuing = {}
    /\ ended = Tasks
    /\ shuttingDown = FALSE

\* The first n tasks of the line, and those of them that a dispatch starts.
Line(n) == {queue[i] : i \in 1..n}
Started(n) == Line(n) \ ended

\* One dispatch takes n tasks out of the line: it goes on while a slot is free, and
\* a task whose context is over costs none.
Takes(n) ==
    /\ n = Len(queue) \/ running + Cardinality(Started(n)) >= MaxConcurrent
    /\ \A k \in 0..(n - 1) : running + Cardinality(Started(k)) < MaxConcurrent

\* dispatch, with s the slot states once the caller's own step is done.  It reads
\* shuttingDown per task and not under queueMu; a shutdown that lands in the
\* middle of the loop is taken as one that lands behind it.
Dispatch(s) == \E n \in 0..Len(queue) :
    /\ IF shuttingDown THEN n = 0 ELSE Takes(n)
    /\ queue' = SubSeq(queue, n + 1, Len(queue))
    /\ running' = running + Cardinality(Started(n))
    /\ slot' = [t \in Tasks |-> IF t \in Started(n) THEN "held"
                                ELSE IF t \in Line(n) THEN "dropped" ELSE s[t]]

-----------------------------------------------------------------------------
\* Submit creates the task with a context of its own; over from the start when
\* the daemon's context already is.
NewTask(t, over) ==
    /\ slot[t] = "out" /\ t \notin enqueuing
    /\ ended' = IF over THEN ended \cup {t} ELSE ended \ {t}
    /\ UNCHANGED <<queue, running, slot, enqueuing, shuttingDown>>

\* Mutant: a new task goes to the head of the line.
EnqueueFront(t) ==
    /\ slot[t] = "out" /\ t \notin enqueuing
    /\ queue' = <<t>> \o queue
    /\ slot' = [slot EXCEPT ![t] = "queued"]
    /\ enqueuing' = enqueuing \cup {t}
    /\ UNCHANGED <<running, ended, shuttingDown>>

\* enqueue, up to the unlock.
Enqueue(t) ==
    /\ slot[t] = "out" /\ t \notin enqueuing
    /\ queue' = Append(queue, t)
    /\ slot' = [slot EXCEPT ![t] = "queued"]
    /\ enqueuing' = enqueuing \cup {t}
    /\ UNCHANGED <<running, ended, shuttingDown>>

\* enqueue, its dispatch.
EnqueueDispatch(t) ==
    /\ t \in enqueuing
    /\ enqueuing' = enqueuing \ {t}
    /\ Dispatch(slot)
    /\ UNCHANGED <<ended, shuttingDown>>

\* The deferred part of dispatch: forget a task it dropped.
ForgetDropped(t) ==
    /\ slot[t] = "dropped"
    /\ slot' = [slot EXCEPT ![t] = "out"]
    /\ UNCHANGED <<queue, running, enqueuing, ended, shuttingDown>>

\* dequeue: a cancel or a pause takes the task out of the line.
Dequeue(t) ==
    /\ \E i \in 1..Len(queue) :
         /\ queue[i] = t
         /\ queue' = SubSeq(queue, 1, i - 1) \o SubSeq(queue, i + 1, Len(queue))
    /\ slot' = [slot EXCEPT ![t] = "out"]
    /\ UNCHANGED <<running, enqueuing, ended, shuttingDown>>

\* yield: a stalled task gives its slot back.
Yield(t) ==
    /\ slot[t] = "held"
    /\ slot' = [slot EXCEPT ![t] = "yielding"]
    /\ running' = running - 1
    /\ UNCHANGED <<queue, enqueuing, ended, shuttingDown>>

\* yield, its dispatch.
YieldDispatch(t) ==
    /\ slot[t] = "yielding"
    /\ Dispatch([slot EXCEPT ![t] = "yielded"])
    /\ UNCHANGED <<enqueuing, ended, shuttingDown>>

\* reclaim: the task counts again, over MaxConcurrent if need be.
Reclaim(t) ==
    /\ slot[t] = "yielded"
    /\ slot' = [slot EXCEPT ![t] = "held"]
    /\ running' = running + 1
    /\ UNCHANGED <<queue, enqueuing, ended, shuttingDown>>

\* release: the end of a task, which gives back the slot if it still holds one.
\* runSlot has called the task's cancel function by then.
Release(t) ==
    /\ slot[t] \in {"held", "yielded"}
    /\ slot' = [slot EXCEPT ![t] = "handing"]
    /\ running' = IF slot[t] = "held" THEN running - 1 ELSE running
    /\ ended' = ended \cup {t}
    /\ UNCHANGED <<queue, enqueuing, shuttingDown>>

\* Mutant: the goroutine ends without handing its slot on.
HandOnSilently(t) ==
    /\ slot[t] = "handing"
    /\ slot' = [slot EXCEPT ![t] = "out"]
    /\ UNCHANGED <<queue, running, enqueuing, ended, shuttingDown>>

\* runSlot, its last dispatch.
HandOn(t) ==
    /\ slot[t] = "handing"
    /\ Dispatch([slot EXCEPT ![t] = "out"])
    /\ UNCHANGED <<enqueuing, ended, shuttingDown>>

\* The contexts of some tasks end: a cancel, a pause, the daemon's own context.
EndContexts(S) ==
    /\ ended' = ended \cup S
    /\ UNCHANGED <<queue, running, slot, enqueuing, shuttingDown>>

\* Shutdown, its first step.
FlagShutdown ==
    /\ shuttingDown' = TRUE
    /\ UNCHANGED <<queue, running, slot, enqueuing, ended>>

\* drainQueue: whatever still waits is forgotten unstarted.
DrainQueue ==
    /\ shuttingDown
    /\ queue' = <<>>
    /\ slot' = [t \in Tasks |-> IF slot[t] = "queued" THEN "out" ELSE slot[t]]
    /\ ended' = ended \cup {t \in Tasks : slot[t] = "queued"}
    /\ UNCHANGED <<running, enqueuing, shuttingDown>>

\* The process stops, whichever way, and a new one starts.
Restart ==
    /\ queue' = <<>>
    /\ running' = 0
    /\ slot' = [t \in Tasks |-> "out"]
    /\ enqueuing' = {}
    /\ ended' = Tasks
    /\ shuttingDown' = FALSE

SlotNext ==
    \/ \E t \in Tasks :
         \/ \E over \in BOOLEAN : NewTask(t, over)
         \/ Enqueue(t) \/ EnqueueDispatch(t) \/ ForgetDropped(t) \/ Dequeue(t)
         \/ Yield(t) \/ YieldDispatch(t) \/ Reclaim(t) \/ Release(t) \/ HandOn(t)
    \/ \E S \in SUBSET Tasks : EndContexts(S)
    \/ FlagShutdown
    \/ DrainQueue
    \/ Restart

(***************************************************************************)
(* A goroutine that is in the middle of one of the functions above goes    *)
(* on.  Release carries an assumption about the downloaders: a download    *)
(* ends sooner or later, however often it yields its slot on the way.      *)
(***************************************************************************)
SlotFairness == \A t \in Tasks :
    /\ WF_slotVars(EnqueueDispatch(t))
    /\ WF_slotVars(YieldDispatch(t))
    /\ WF_slotVars(HandOn(t))
    /\ SF_slotVars(Release(t))

SlotSpec == SlotInit /\ [][SlotNext]_slotVars
FairSlotSpec == SlotSpec /\ SlotFairness

-----------------------------------------------------------------------------
SlotTypeOK ==
    /\ queue \in Seq(Tasks)
    /\ running \in Int
    /\ slot \in [Tasks -> SlotStates]
    /\ enqueuing \subseteq Tasks
    /\ ended \subseteq Tasks
    /\ shuttingDown \in BOOLEAN

Holders == {t \in Tasks : slot[t] = "held"}

\* Manager.running is exactly the number of tasks that hold a slot, whatever
\* order yields, reclaims, releases and dispatches take: FreeSlots never
\* advertises a slot that is taken, and no slot is lost.
SlotsCounted == running = Cardinality(Holders)

\* Nobody waits while a slot is free: if a task is in the line and a slot is
\* free, somebody is on the way to dispatch.  (Every unlock of queueMu that frees
\* a slot or grows the line is followed by a dispatch.)
NoIdleSlot ==
    queue # <<>> /\ running < MaxConcurrent /\ ~shuttingDown
        => enqueuing # {} \/ \E t \in Tasks : slot[t] \in {"yielding", "handing"}

\* The line holds each waiting task once.
LineExact ==
    /\ \A i, j \in 1..Len(queue) : queue[i] = queue[j] => i = j
    /\ \A t \in Tasks : slot[t] = "queued" <=> \E i \in 1..Len(queue) : queue[i] = t

\* The inductive invariant behind SlotsCounted and NoIdleSlot.
SlotInv == SlotTypeOK /\ LineExact /\ SlotsCounted /\ NoIdleSlot

\* A task leaves the line for a slot only when that keeps the count within
\* MaxConcurrent: a reclaim may put the count over it, a start never does.
StartsWithinLimit == [][
    (\E t \in Tasks : slot[t] = "queued" /\ slot'[t] = "held") => running' <= MaxConcurrent
    ]_slotVars

Before(u, t) == \E i, j \in 1..Len(queue) : i < j /\ queue[i] = u /\ queue[j] = t

\* Tasks start in the order in which they were submitted: whoever keeps waiting is
\* not overtaken, neither for a slot nor in the line, whatever leaves the line in
\* between.
NotOvertaken == [][
    \A t, u \in Tasks :
        t # u /\ slot[t] = "queued" /\ slot'[t] = "queued" /\ ~Before(u, t)
            => ~(slot[u] = "queued" /\ slot'[u] = "held") /\ ~Before(u, t)'
    ]_slotVars

\* A task in the line does not stay there for ever: it starts, or is dropped.
LineMoves == \A t \in Tasks : slot[t] = "queued" ~> slot[t] # "queued" \/ shuttingDown
=============================================================================
