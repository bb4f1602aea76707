-------------------------------- MODULE Task --------------------------------
(***************************************************************************)
(* internal/engine/task.go: the lifecycle of a download task.  A task's    *)
(* status only ever changes through Transition, which several goroutines   *)
(* call: the one that runs the download, and whoever cancels or pauses it. *)
(***************************************************************************)

TaskStatus == {"pending", "claimed", "resolving", "downloading", "verifying",
               "organizing", "seeding", "completed", "failed", "cancelled"}

\* A status without an entry in the Go map has no transition at all.
validTransitions == [s \in TaskStatus |->
    CASE s = "pending"     -> {"claimed"}
      [] s = "claimed"     -> {"resolving", "cancelled"}
      [] s = "resolving"   -> {"downloading", "failed", "cancelled"}
      [] s = "downloading" -> {"verifying", "failed", "resolving", "cancelled"}
      [] s = "verifying"   -> {"organizing", "failed", "resolving"}
      [] s = "organizing"  -> {"seeding", "completed", "failed"}
      [] s = "seeding"     -> {"completed"}
      [] OTHER             -> {}]

\* Transition: the status afterwards.  A transition outside the table returns an
\* error and leaves the status alone.
Transition(from, to) == IF to \in validTransitions[from] THEN to ELSE from

Terminal == {"completed", "failed", "cancelled"}
=============================================================================
