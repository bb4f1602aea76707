--------------------------- MODULE PlayerSessions ---------------------------
(***************************************************************************)
(* The two tables every in-browser player session goes through:           *)
(*   cmd/player_session_registry.go  playerSessionRegistryT                *)
(*   cmd/closed_stream_sessions.go   recentlyClosedSessions                *)
(* A table is guarded by its own mutex and every method takes that mutex   *)
(* once, so a method is one step; two methods in a row are two steps.      *)
(***************************************************************************)
EXTENDS Naturals, Sequences

CONSTANTS Sessions,     \* ids the web hands out
          MaxClosed,    \* maxRecentlyClosedSessions
          NoCancel      \* no entry in the registry

ASSUME ClosedAssumption ==
  /\ MaxClosed \in Nat \ {0}
  /\ NoCancel \notin {"start", "serve"}

VARIABLES cancels,      \* playerSessionRegistry.cancels: the cancel registered for an id
          closed        \* recentlyClosedSessions.order, oldest first; set is its range

tables == <<cancels, closed>>

(* A cancel either aborts the start of the session ("start") or ends what it
   serves ("serve"). *)

TablesInit == cancels = [s \in Sessions |-> NoCancel] /\ closed = <<>>

has(id) == cancels[id] # NoCancel

add(id, cancel) == cancels' = [cancels EXCEPT ![id] = cancel]

remove(id) == add(id, NoCancel)

sessionClosedByWeb(id) == \E i \in 1..Len(closed): closed[i] = id

(* mark: a known id changes nothing, a full memory forgets its oldest id. *)
mark(id) ==
  closed' = IF sessionClosedByWeb(id) THEN closed
            ELSE Append(IF Len(closed) >= MaxClosed THEN Tail(closed) ELSE closed, id)
=============================================================================
