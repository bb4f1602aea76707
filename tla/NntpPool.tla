------------------------------ MODULE NntpPool ------------------------------
(***************************************************************************)
(* The connection pool of the NNTP client: internal/usenet/nntp/pool.go    *)
(* (acquire, release, replace, retire and the count of open connections)   *)
(* and the calls of client.go that use it (Connect, BodyInto, Close).      *)
(*                                                                         *)
(* A caller is a goroutine inside BodyInto.  It looks for an idle          *)
(* connection, dials one into a vacant slot, or waits; then it issues BODY *)
(* and gives the connection back.  A connection is an identity of Conns;   *)
(* an identity is used again once the connection it stood for is closed.   *)
(***************************************************************************)
EXTENDS Naturals, Sequences, FiniteSets

CONSTANTS Callers,          \* goroutines that call BodyInto
          Conns,            \* connection identities
          MaxConnections,   \* cfg.MaxConnections, the capacity of pool and freed
          NoConn            \* the nil *conn

ASSUME PoolAssumption ==
    /\ MaxConnections \in Nat \ {0}
    /\ NoConn \notin Conns
    /\ IsFiniteSet(Conns)
    /\ IsFiniteSet(Callers)

VARIABLES
    pool,        \* the channel c.pool: idle connections, oldest first
    open,        \* c.open
    freed,       \* tokens in the channel c.freed
    done,        \* c.done is closed
    draining,    \* Close has not finished its drainPool
    connecting,  \* Connect has not returned nil yet; nobody has the client
    live,        \* connections dialled and not retired
    broken,      \* those with cn.broken set
    unread,      \* those that still owe the reply to a command given up on
    pc,          \* where each caller stands
    cn,          \* the connection the caller holds (cn, then cn2)
    old,         \* the broken connection the caller is about to retire
    cancelled    \* the caller's ctx is done

pool_vars == <<pool, open, freed, done, draining, connecting>>
conn_vars == <<live, broken, unread>>
call_vars == <<pc, cn, old, cancelled>>
vars == <<pool_vars, conn_vars, call_vars>>

\* Callers between reserveSlot and the end of the dial: counted in open
\* before any connection exists.
Reserved == {c \in Callers : pc[c] \in {"dial", "unreserve"}}

Init ==
    /\ pool = <<>> /\ open = 0 /\ freed = 0
    /\ done = FALSE /\ draining = FALSE /\ connecting = TRUE
    /\ live = {} /\ broken = {} /\ unread = {}
    /\ pc = [c \in Callers |-> "idle"]
    /\ cn = [c \in Callers |-> NoConn]
    /\ old = [c \in Callers |-> NoConn]
    /\ cancelled = [c \in Callers |-> FALSE]

-----------------------------------------------------------------------------
(* Connect: dials every connection of the pool before the client is handed *)
(* out; a failed dial drains what was opened and leaves it reusable.       *)

Tokens(n) == IF freed + n > MaxConnections THEN MaxConnections ELSE freed + n

ConnectDial ==
    /\ connecting
    /\ \E x \in Conns \ live :
          /\ live' = live \cup {x}
          /\ pool' = Append(pool, x)
    /\ open' = open + 1
    /\ connecting' = (Len(pool) + 1 < MaxConnections)
    /\ UNCHANGED <<freed, done, draining, broken, unread, call_vars>>

ConnectFails ==
    /\ connecting
    /\ pool' = <<>> /\ open' = 0 /\ live' = {}
    /\ freed' = Tokens(Len(pool))
    /\ UNCHANGED <<done, draining, connecting, broken, unread, call_vars>>

-----------------------------------------------------------------------------
(* acquire *)

Goto(c, label) == pc' = [pc EXCEPT ![c] = label]

\* The call returns to its caller.
Return(c) == /\ Goto(c, "idle")
             /\ UNCHANGED <<cn, old, cancelled>>

Begin(c) ==
    /\ pc[c] = "idle" /\ ~connecting
    /\ Goto(c, "look")
    /\ cancelled' = [cancelled EXCEPT ![c] = FALSE]
    /\ UNCHANGED <<pool_vars, conn_vars, cn, old>>

\* A receive from the pool by takeIdle or awaitConn.
Take(c) ==
    /\ pool # <<>>
    /\ cn' = [cn EXCEPT ![c] = Head(pool)]
    /\ pool' = Tail(pool)
    /\ Goto(c, "body")
    /\ UNCHANGED <<open, freed, done, draining, connecting, conn_vars, old, cancelled>>

\* takeIdle or awaitConn finds the client closed or the caller's ctx done.
GiveUp(c) ==
    /\ done \/ cancelled[c]
    /\ Return(c)
    /\ UNCHANGED <<pool_vars, conn_vars>>

\* takeIdle finds nothing ready and falls through its default.
NothingIdle(c) ==
    /\ ~done /\ ~cancelled[c] /\ pool = <<>>
    /\ Goto(c, "reserve")
    /\ UNCHANGED <<pool_vars, conn_vars, cn, old, cancelled>>

\* select takes any ready case, in no order.
TakeIdle(c) == pc[c] = "look" /\ (Take(c) \/ GiveUp(c) \/ NothingIdle(c))

ReserveSlotOffByOne(c) ==
    /\ pc[c] = "reserve"
    /\ IF open <= MaxConnections
       THEN open' = open + 1 /\ Goto(c, "dial")
       ELSE UNCHANGED open /\ Goto(c, "await")
    /\ UNCHANGED <<pool, freed, done, draining, connecting, conn_vars, cn, old, cancelled>>

ReserveSlot(c) ==
    /\ pc[c] = "reserve"
    /\ IF open < MaxConnections
       THEN open' = open + 1 /\ Goto(c, "dial")
       ELSE UNCHANGED open /\ Goto(c, "await")
    /\ UNCHANGED <<pool, freed, done, draining, connecting, conn_vars, cn, old, cancelled>>

\* A dial that fails is followed by unreserve.
DialReserved(c) ==
    /\ pc[c] = "dial"
    /\ \/ /\ \E x \in Conns \ live :
                /\ live' = live \cup {x}
                /\ cn' = [cn EXCEPT ![c] = x]
          /\ Goto(c, "body")
       \/ Goto(c, "unreserve") /\ UNCHANGED <<live, cn>>
    /\ UNCHANGED <<pool_vars, broken, unread, old, cancelled>>

UnreserveForgotten(c) ==
    /\ pc[c] = "unreserve"
    /\ Goto(c, IF open - 1 > 0 THEN "backoff" ELSE "wake")
    /\ UNCHANGED <<pool_vars, conn_vars, cn, old, cancelled>>

\* With others left the redial is deferred; the last one wakes a waiter.
Unreserve(c) ==
    /\ pc[c] = "unreserve"
    /\ open' = open - 1
    /\ Goto(c, IF open - 1 > 0 THEN "backoff" ELSE "wake")
    /\ UNCHANGED <<pool, freed, done, draining, connecting, conn_vars, cn, old, cancelled>>

\* A failed redial ignores freed slots and looks again when its timer fires.
LookAgain(c) ==
    /\ \/ pc[c] = "await" /\ freed > 0 /\ freed' = freed - 1
       \/ pc[c] = "backoff" /\ UNCHANGED freed
    /\ Goto(c, "look")
    /\ UNCHANGED <<pool, open, done, draining, connecting, conn_vars, cn, old, cancelled>>

AwaitConn(c) ==
    \/ pc[c] \in {"await", "backoff"} /\ (Take(c) \/ GiveUp(c))
    \/ LookAgain(c)

-----------------------------------------------------------------------------
(* BodyInto once it has a connection *)

MarkNothing(c) == UNCHANGED broken

\* bodyOnConn: a body or a clean 430/423 leaves the connection in sync, any
\* other end marks it broken, and the reply may still be on its way.
MarkBroken(c) == broken' = broken \cup {cn[c]}

BodyDone(c) ==
    /\ pc[c] \in {"body", "retry"} /\ ~cancelled[c]
    /\ Goto(c, "release")
    /\ UNCHANGED <<pool_vars, conn_vars, cn, old, cancelled>>

\* The first exchange is repeated on a fresh connection unless the ctx ended
\* or the reply exceeded the receive limit; the second is final.
BodyFails(c) ==
    /\ pc[c] \in {"body", "retry"}
    /\ MarkBroken(c)
    /\ \/ unread' = unread \cup {cn[c]}
       \/ UNCHANGED unread
    /\ IF pc[c] = "retry"
       THEN Goto(c, "release") /\ UNCHANGED <<cn, old>>
       ELSE /\ old' = [old EXCEPT ![c] = cn[c]]
            /\ cn' = [cn EXCEPT ![c] = NoConn]
            /\ \/ Goto(c, "retire")
               \/ ~cancelled[c] /\ Goto(c, "replace")
    /\ UNCHANGED <<pool_vars, live, cancelled>>

\* replace dials first and counts the fresh connection before it retires the
\* old one.
Replace(c) ==
    /\ pc[c] = "replace"
    /\ \/ /\ \E x \in Conns \ live :
                /\ live' = live \cup {x}
                /\ cn' = [cn EXCEPT ![c] = x]
          /\ open' = open + 1
       \/ UNCHANGED <<live, cn, open>>
    /\ Goto(c, "retire")
    /\ UNCHANGED <<pool, freed, done, draining, connecting, broken, unread, old, cancelled>>

\* release: what is broken, or comes back to a closed client, is retired.
Release(c) ==
    /\ pc[c] = "release"
    /\ IF done \/ cn[c] \in broken
       THEN /\ old' = [old EXCEPT ![c] = cn[c]]
            /\ cn' = [cn EXCEPT ![c] = NoConn]
            /\ Goto(c, "retire")
       ELSE Goto(c, "put") /\ UNCHANGED <<cn, old>>
    /\ UNCHANGED <<pool_vars, conn_vars, cancelled>>

\* The send on c.pool; a full pool retires the connection.
Put(c) ==
    /\ pc[c] = "put"
    /\ cn' = [cn EXCEPT ![c] = NoConn]
    /\ IF Len(pool) < MaxConnections
       THEN pool' = Append(pool, cn[c]) /\ Goto(c, "idle") /\ UNCHANGED old
       ELSE /\ old' = [old EXCEPT ![c] = cn[c]]
            /\ Goto(c, "retire") /\ UNCHANGED pool
    /\ UNCHANGED <<open, freed, done, draining, connecting, conn_vars, cancelled>>

\* retire and the decrement of freeSlot.
Retire(c) ==
    /\ pc[c] = "retire"
    /\ live' = live \ {old[c]}
    /\ broken' = broken \ {old[c]}
    /\ unread' = unread \ {old[c]}
    /\ open' = open - 1
    /\ old' = [old EXCEPT ![c] = NoConn]
    /\ Goto(c, "wake")
    /\ UNCHANGED <<pool, freed, done, draining, connecting, cn, cancelled>>

\* wake, after which the caller returns, or goes on with its fresh
\* connection: a ctx that ended meanwhile may have closed that one already.
Wake(c) ==
    /\ pc[c] = "wake"
    /\ freed' = Tokens(1)
    /\ IF cn[c] = NoConn THEN Goto(c, "idle") /\ UNCHANGED <<cn, old, broken>>
       ELSE IF cancelled[c]
       THEN /\ MarkBroken(c)
            /\ old' = [old EXCEPT ![c] = cn[c]]
            /\ cn' = [cn EXCEPT ![c] = NoConn]
            /\ Goto(c, "retire")
       ELSE Goto(c, "retry") /\ UNCHANGED <<cn, old, broken>>
    /\ UNCHANGED <<pool, open, done, draining, connecting, live, unread, cancelled>>

-----------------------------------------------------------------------------
(* What happens to a call from outside *)

Cancel(c) ==
    /\ pc[c] # "idle" /\ ~cancelled[c]
    /\ cancelled' = [cancelled EXCEPT ![c] = TRUE]
    /\ UNCHANGED <<pool_vars, conn_vars, pc, cn, old>>

Close ==
    /\ ~connecting /\ ~done
    /\ done' = TRUE /\ draining' = TRUE
    /\ UNCHANGED <<pool, open, freed, connecting, conn_vars, call_vars>>

\* drainPool of Close; a release that passed its test of done is not waited for.
DrainPool ==
    /\ draining
    /\ IF pool # <<>>
       THEN /\ live' = live \ {Head(pool)}
            /\ pool' = Tail(pool)
            /\ open' = open - 1
            /\ freed' = Tokens(1)
            /\ UNCHANGED draining
       ELSE draining' = FALSE /\ UNCHANGED <<live, pool, open, freed>>
    /\ UNCHANGED <<done, connecting, broken, unread, call_vars>>

Step(c) ==
    \/ TakeIdle(c) \/ ReserveSlot(c) \/ DialReserved(c) \/ Unreserve(c)
    \/ AwaitConn(c) \/ BodyDone(c) \/ BodyFails(c) \/ Replace(c)
    \/ Release(c) \/ Put(c) \/ Retire(c) \/ Wake(c)

Next ==
    \/ ConnectDial \/ ConnectFails \/ Close \/ DrainPool
    \/ \E c \in Callers : Begin(c) \/ Step(c) \/ Cancel(c)

Spec == Init /\ [][Next]_vars

-----------------------------------------------------------------------------
Labels == {"idle", "look", "reserve", "dial", "unreserve", "await", "backoff",
           "body", "retry", "release", "put", "replace", "retire", "wake"}

\* The values the client's fields and its callers' locals can take.
TypeOK ==
    /\ pool \in Seq(Conns) /\ open \in Nat /\ freed \in 0..MaxConnections
    /\ done \in BOOLEAN /\ draining \in BOOLEAN /\ connecting \in BOOLEAN
    /\ live \subseteq Conns /\ broken \subseteq Conns /\ unread \subseteq Conns
    /\ pc \in [Callers -> Labels]
    /\ cn \in [Callers -> Conns \cup {NoConn}]
    /\ old \in [Callers -> Conns \cup {NoConn}]
    /\ cancelled \in [Callers -> BOOLEAN]

Idle == {pool[i] : i \in DOMAIN pool}
Held == {cn[c] : c \in Callers} \cup {old[c] : c \in Callers}

\* open counts the connections that exist and the dials under way, one each:
\* whatever the order of dials, failures, replacements and closes, a slot is
\* neither lost (the pool would shrink for good) nor counted out twice.
OpenExact == open = Cardinality(live) + Cardinality(Reserved)

\* "Only its current holder touches it": a live connection is in exactly one
\* place, idle in the pool or in the hands of one call, and none is forgotten
\* in neither, so every connection can still be closed.
OneHolder ==
    /\ live = Idle \cup (Held \ {NoConn})
    /\ Idle \cap Held = {}
    /\ \A i, j \in DOMAIN pool : pool[i] = pool[j] => i = j
    /\ \A c, d \in Callers : c # d =>
          {cn[c], old[c]} \cap {cn[d], old[d]} \subseteq {NoConn}
    /\ \A c \in Callers : cn[c] = old[c] => cn[c] = NoConn

\* No call reads the late answer to a command another call gave up on: a
\* connection that still owes one is never idle and never asked again.
RepliesInSync ==
    /\ Idle \cap unread = {}
    /\ \A c \in Callers : pc[c] \in {"body", "retry"} => cn[c] \notin unread

\* The limit is exceeded only by fresh connections standing beside the broken
\* ones they replace, so a release never finds the pool full.
WithinLimit ==
    /\ open <= MaxConnections
              + Cardinality({c \in Callers : cn[c] # NoConn /\ old[c] # NoConn})
    /\ \A c \in Callers : pc[c] = "put" => Len(pool) < MaxConnections

=============================================================================
