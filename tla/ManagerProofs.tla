--------------------------- MODULE ManagerProofs ---------------------------
(***************************************************************************)
(* Proofs about the download manager, for any tasks, callers, calls and    *)
(* faults: it never has two runs of one task, nor a taken ID without a     *)
(* run; the reporter knows no task that is not active or about to be       *)
(* untracked; and the resume store is what the next start needs.           *)
(***************************************************************************)
EXTENDS ManagerSteps, SlotQueueProofs

\* The inductive invariant.
ManagerInv == SlotInv /\ RunInv /\ boot \subseteq IDs

\* The daemon starts with no run and no entry: NewManager establishes the invariant.
LEMMA ManagerInitInv == Init => ManagerInv
BY SlotInitInv, RunInit, Zenon DEF Init, ManagerInv

\* Every step of a goroutine, a call, the dispatcher or the daemon keeps it.
LEMMA ManagerStepInv == ManagerInv /\ [Next]_vars => ManagerInv'
<1> SUFFICES ASSUME ManagerInv, [Next]_vars PROVE ManagerInv' BY Zenon
<1>1. CallsTyped /\ daemonOver \in BOOLEAN BY Zenon DEF ManagerInv, RunInv
<1>2. [SlotNext]_slotVars BY <1>1, StepSlots, Zenon
<1>3. SlotInv' BY <1>2, SlotNextInv, Zenon DEF ManagerInv
<1>4. RunInv' BY RunStep, Zenon DEF ManagerInv
<1>5. boot' \subseteq IDs BY BootStep, Zenon DEF ManagerInv
<1> QED BY <1>3, <1>4, <1>5, Zenon DEF ManagerInv

\* So it holds whenever the daemon runs, restarts included.
LEMMA ManagerInvariant == Spec => []ManagerInv
<1>1. Init => ManagerInv BY ManagerInitInv, Zenon
<1>2. ManagerInv /\ [Next]_vars => ManagerInv' BY ManagerStepInv, Zenon
<1> QED BY <1>1, <1>2, PTL DEF Spec

\* Submit's dedup is exact: never two runs of one task.
THEOREM ManagerOneRunPerTask == Spec => []OneRunPerTask
<1>1. ManagerInv => OneRunPerTask BY Zenon DEF ManagerInv, RunInv, Owned, OneRunPerTask
<1> QED BY <1>1, ManagerInvariant, PTL, SMTT(20)

\* ... and an ID is only taken while a run of it lives.
THEOREM ManagerTakenOnlyWhileLive == Spec => []TakenOnlyWhileLive
<1>1. ManagerInv => TakenOnlyWhileLive BY Zenon DEF ManagerInv, RunInv, Owned, TakenOnlyWhileLive
<1> QED BY <1>1, ManagerInvariant, PTL

\* The inductive invariant itself, of which the two above are part.
THEOREM ManagerRunInv == Spec => []RunInv
<1>1. ManagerInv => RunInv BY Zenon DEF ManagerInv
<1> QED BY <1>1, ManagerInvariant, PTL

\* The reporter is only asked about tasks that are active or about to be untracked: whatever
\* the interleaving of submits, stops, runs and dispatches, forgetActive's second half
\* included, no finished task goes on being reported.
THEOREM ManagerTrackedIsActive == Spec => []TrackedIsActive
<1>1. Init => TrackInv BY DEF Init, SlotInit, TrackInv, TrackedIsActive
<1>2. ManagerInv /\ TrackInv /\ [Next]_vars => TrackInv' BY TrackStep, Zenon DEF ManagerInv
<1>3. TrackInv => TrackedIsActive BY Zenon DEF TrackInv
<1> QED BY <1>1, <1>2, <1>3, ManagerInvariant, PTL DEF Spec

\* The store is kept by every step.
LEMMA StoreInvariant == Spec => []StoreInv
<1>1. ManagerInv /\ StoreInv /\ [Next]_vars => StoreInv' BY StoreStep, Zenon DEF ManagerInv
<1> QED BY <1>1, StoreInit, ManagerInvariant, PTL DEF Spec

\* For any tasks, any overlapping calls and any number of shutdowns, kills, lost tunnels,
\* full disks and failing Runs of the daemon, a download whose cancel settled the resume
\* store has no entry there until it is submitted again, ...
THEOREM ManagerCancelIsTerminal == Spec => []CancelIsTerminal
<1>1. StoreInv => CancelIsTerminal BY Zenon DEF StoreInv
<1> QED BY <1>1, StoreInvariant, PTL

\* ... one whose pause did is not submitted by the next start, ...
THEOREM ManagerPauseSticks == Spec => []PauseSticks
<1>1. StoreInv => PauseSticks BY Zenon DEF StoreInv
<1> QED BY <1>1, StoreInvariant, PTL

\* ... and an accepted download that has neither ended by itself nor been cancelled has
\* its entry, which the final record of a paused or interrupted run keeps.
THEOREM ManagerResumeSurvives == Spec => []ResumeSurvives
<1>1. StoreInv => ResumeSurvives BY Zenon DEF StoreInv
<1> QED BY <1>1, StoreInvariant, PTL
=============================================================================
