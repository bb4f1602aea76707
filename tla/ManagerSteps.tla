---------------------------- MODULE ManagerSteps ----------------------------
(***************************************************************************)
(* Lemmas about the steps of the download manager: each of them preserves  *)
(* RunInv, and is a step of the slots or leaves them alone.  They go by    *)
(* actors: the goroutines of the tasks, the calls, what stops tasks, and   *)
(* all of them together.  Then the reporter and the resume store.          *)
(***************************************************************************)
EXTENDS Manager, TLAPS

(* The goroutines of the tasks. *)

\* A call in progress names an ID and, once it has one, a task.
LEMMA CallFacts ==
    ASSUME CallsTyped, NEW c \in Callers, call[c].pc # "idle"
    PROVE  Id(c) \in IDs /\ (call[c].pc \notin {"insert", "unmark"} => Obj(c) \in Tasks)
BY Zenon DEF CallsTyped

\* No call in progress.
LEMMA IdleType == Idle \in CallType /\ Idle.pc = "idle" /\ Idle.op = "none"
BY Zenon DEF Idle, CallType

\* A new manager owns nothing.
LEMMA RunInit == Init => RunInv
<1> SUFFICES ASSUME Init PROVE RunInv BY Zenon
<1>1. call \in [Callers -> CallType] BY Zenon DEF Init, Idle, CallType
<1>2. \A c \in Callers : call[c].pc = "idle" /\ call[c].op = "none" BY Zenon DEF Init, Idle
<1>3. CallsTyped BY <1>1, <1>2, Zenon DEF CallsTyped
<1>4. daemonOver \in BOOLEAN BY Zenon DEF Init
<1>5. ReadyToRun BY <1>2, Zenon DEF ReadyToRun, Init, SlotInit, GoStates, Submitting
<1>6. Owned BY <1>2, ManagerAssumption, Zenon DEF Owned, Init, Live, Forgetting, At
<1> QED BY <1>3, <1>4, <1>5, <1>6, Zenon DEF RunInv, Init

\* A dispatch moves only tasks that wait in the line.
LEMMA DispatchMoves ==
    ASSUME SlotInv, NEW s \in [Tasks -> SlotStates], Dispatch(s), NEW t \in Tasks
    PROVE  slot'[t] = s[t] \/ (slot[t] = "queued" /\ slot'[t] \in {"held", "dropped"})
<1>1. PICK n \in 0..Len(queue) :
        slot' = [u \in Tasks |-> IF u \in Started(n) THEN "held" ELSE IF u \in Line(n) THEN "dropped" ELSE s[u]]
  BY Zenon DEF Dispatch
<1>2. slot' = [u \in Tasks |-> IF u \in Started(n) THEN "held" ELSE IF u \in Line(n) THEN "dropped" ELSE s[u]]
  BY <1>1, Zenon
<1>3. t \in Line(n) => slot[t] = "queued" BY <1>1 DEF Line, SlotInv, LineExact, SlotTypeOK
<1>4. t \in Started(n) => t \in Line(n) BY Zenon DEF Started
<1> QED BY <1>2, <1>3, <1>4, Zenon

\* A step that leaves active as it is, makes no Submit ready to start, and takes no
\* cancel to or from its forgetting.
LEMMA Frame ==
    ASSUME RunInv, UNCHANGED <<active, phase>>, daemonOver' \in BOOLEAN, CallsTyped',
           \A c \in Callers : Submitting(c)' => Submitting(c) /\ Obj(c)' = Obj(c) /\ Id(c)' = Id(c),
           \A c \in Callers : Forgetting(c)' <=> Forgetting(c),
           \A c \in Callers : Forgetting(c) => Id(c)' = Id(c),
           go' \in [Tasks -> GoStates],
           \A t \in Tasks : Live(t)' <=> Live(t),
           \A t \in Tasks : slot'[t] \in {"queued", "dropped"} => go'[t] = "ready",
           \A t \in Tasks : go'[t] \in {"idle", "drained", "untrack"} => slot'[t] = "out",
           \A c \in Callers : Submitting(c)' => go'[Obj(c)] = "ready" /\ slot'[Obj(c)] = "out"
    PROVE  RunInv'
<1>1. ReadyToRun' BY DEF RunInv, ReadyToRun
<1>2. phase' # "down" => Owned'
  <2>1. \A id \in IDs : active[id] # NoTask => active[id] \in Tasks BY Zenon DEF RunInv
  <2> QED BY <2>1 DEF RunInv, Owned
<1> QED BY <1>1, <1>2, Zenon DEF RunInv

\* A Submit in progress has its task and its ID.
LEMMA SubmittingFacts ==
    ASSUME RunInv, NEW c \in Callers, Submitting(c)
    PROVE  Obj(c) \in Tasks /\ Id(c) \in IDs /\ go[Obj(c)] = "ready" /\ slot[Obj(c)] = "out"
BY Zenon DEF RunInv, CallsTyped, ReadyToRun, Submitting

\* A step that leaves the calls, the owners and the tasks about to start as they are.
LEMMA GoFrame ==
    ASSUME RunInv, UNCHANGED <<call, active, phase>>, daemonOver' \in BOOLEAN,
           go' \in [Tasks -> GoStates],
           \A t \in Tasks : Live(t)' <=> Live(t),
           \A t \in Tasks : slot'[t] \in {"queued", "dropped"} => go'[t] = "ready",
           \A t \in Tasks : go'[t] \in {"idle", "drained", "untrack"} => slot'[t] = "out",
           \A t \in Tasks : go[t] = "ready" /\ slot[t] = "out" => go'[t] = "ready" /\ slot'[t] = "out"
    PROVE  RunInv'
<1>1. CallsTyped' BY Zenon DEF RunInv, CallsTyped, Id, Obj
<1>2. \A c \in Callers : Submitting(c)' => Submitting(c) /\ Obj(c)' = Obj(c) /\ Id(c)' = Id(c)
  BY Zenon DEF Submitting, Obj, Id
<1>3. \A c \in Callers : Forgetting(c)' <=> Forgetting(c) BY Zenon DEF Forgetting, At
<1>4. \A c \in Callers : Forgetting(c) => Id(c)' = Id(c) BY Zenon DEF Id
<1>5. \A c \in Callers : Submitting(c)' => go'[Obj(c)] = "ready" /\ slot'[Obj(c)] = "out"
  BY <1>2, SubmittingFacts, Zenon
<1> QED BY <1>1, <1>2, <1>3, <1>4, <1>5, Frame, Zenon

\* The goroutine's own steps, up to the moment it forgets its task.
LEMMA GoWorks ==
    ASSUME RunInv, SlotInv, NEW t \in Tasks,
           Begin(t) \/ Advance(t) \/ Complete(t) \/ PauseForVPN(t) \/ RecordCheck(t)
             \/ RecordDrop(t) \/ ReportFinal(t) \/ \E storage \in BOOLEAN : Fail(t, storage)
    PROVE  RunInv'
<1>1. UNCHANGED <<call, active, phase, daemonOver, slot>>
  BY Zenon DEF Begin, Advance, Complete, PauseForVPN, RecordCheck, RecordDrop, ReportFinal, Fail, slots, slotVars
<1>2. PICK p \in {"work", "check", "drop", "report", "forget"} :
        /\ go[t] \notin {"idle", "release", "hand", "untrack"}
        /\ go[t] = "ready" => slot[t] = "held"
        /\ go' = go \/ go' = [go EXCEPT ![t] = p]
  BY Zenon DEF Begin, Advance, Complete, PauseForVPN, RecordCheck, RecordDrop, ReportFinal, Fail, GoTo
<1>3. go \in [Tasks -> GoStates] /\ go' \in [Tasks -> GoStates] BY <1>2, Zenon DEF RunInv, ReadyToRun, GoStates
<1>4. \A u \in Tasks : Live(u)' <=> Live(u) BY <1>2, <1>3, Zenon DEF Live
<1>5. daemonOver' \in BOOLEAN BY <1>1, Zenon DEF RunInv
<1>6. \A u \in Tasks : slot'[u] \in {"queued", "dropped"} => go'[u] = "ready"
  BY <1>1, <1>2, <1>3, Zenon DEF RunInv, ReadyToRun
<1>7. \A u \in Tasks : go'[u] \in {"idle", "drained", "untrack"} => slot'[u] = "out"
  BY <1>1, <1>2, <1>3, Zenon DEF RunInv, ReadyToRun
<1>8. \A u \in Tasks : go[u] = "ready" /\ slot[u] = "out" => go'[u] = "ready" /\ slot'[u] = "out"
  BY <1>1, <1>2, <1>3, Zenon
<1> QED BY <1>1, <1>3, <1>4, <1>5, <1>6, <1>7, <1>8, GoFrame, Zenon

\* A stalled download: only the slots change.
LEMMA GoStalls ==
    ASSUME RunInv, SlotInv, NEW t \in Tasks, Stall(t)
    PROVE  RunInv'
<1>1. go[t] = "work" /\ UNCHANGED <<call, active, phase, daemonOver, go>> BY Zenon DEF Stall, volatile
<1>2. slot \in [Tasks -> SlotStates] BY Zenon DEF SlotInv, SlotTypeOK
<1>3. \A u \in Tasks : slot'[u] = slot[u] \/ (u = t /\ slot'[u] \in {"yielding", "yielded", "held"})
                       \/ (slot[u] = "queued" /\ slot'[u] \in {"held", "dropped"})
  <2>1. CASE Yield(t) \/ Reclaim(t) BY <2>1, <1>2, Zenon DEF Yield, Reclaim
  <2>2. CASE YieldDispatch(t)
    <3>1. [slot EXCEPT ![t] = "yielded"] \in [Tasks -> SlotStates] BY <1>2, Zenon DEF SlotStates
    <3>2. Dispatch([slot EXCEPT ![t] = "yielded"]) BY <2>2, Zenon DEF YieldDispatch
    <3>3. \A u \in Tasks : slot'[u] = [slot EXCEPT ![t] = "yielded"][u] \/ (slot[u] = "queued" /\ slot'[u] \in {"held", "dropped"})
      BY <3>1, <3>2, DispatchMoves, Zenon
    <3> QED BY <3>3, <1>2, Zenon
  <2> QED BY <2>1, <2>2, Zenon DEF Stall
<1>4. go' \in [Tasks -> GoStates] /\ \A u \in Tasks : Live(u)' <=> Live(u) BY <1>1, Zenon DEF RunInv, ReadyToRun, Live
<1>5. daemonOver' \in BOOLEAN BY <1>1, Zenon DEF RunInv
<1>6. \A u \in Tasks : slot'[u] \in {"queued", "dropped"} => go'[u] = "ready"
  BY <1>1, <1>3, Zenon DEF RunInv, ReadyToRun
<1>7. \A u \in Tasks : go'[u] \in {"idle", "drained", "untrack"} => slot'[u] = "out"
  BY <1>1, <1>3, Zenon DEF RunInv, ReadyToRun
<1>8. \A u \in Tasks : go[u] = "ready" /\ slot[u] = "out" => go'[u] = "ready" /\ slot'[u] = "out"
  BY <1>1, <1>3, Zenon
<1> QED BY <1>1, <1>4, <1>5, <1>6, <1>7, <1>8, GoFrame, Zenon

\* A task ends: whoever ends it takes the ID out of active, and nobody else owned it.
LEMMA EndFrame ==
    ASSUME RunInv, NEW t \in Tasks, Live(t), UNCHANGED <<call, phase>>, daemonOver' \in BOOLEAN,
           active' = [active EXCEPT ![IdOf[t]] = NoTask],
           go' \in [Tasks -> GoStates], ~Live(t)',
           \A u \in Tasks : u # t => go'[u] = go[u] /\ slot'[u] = slot[u],
           slot'[t] \notin {"queued", "dropped"}, go'[t] \in {"idle", "drained", "untrack"} => slot'[t] = "out",
           go[t] # "ready" \/ slot[t] # "out"
    PROVE  RunInv'
<1> DEFINE LiveNext(u) == go'[u] \notin {"idle", "release", "hand", "untrack"}
<1>1. CallsTyped' BY Zenon DEF RunInv, CallsTyped, Id, Obj
<1>2. \A c \in Callers : Submitting(c)' <=> Submitting(c) BY Zenon DEF Submitting
<1>3. \A c \in Callers : Forgetting(c)' <=> Forgetting(c) BY Zenon DEF Forgetting, At
<1>4. \A c \in Callers : Id(c)' = Id(c) /\ Obj(c)' = Obj(c) BY Zenon DEF Id, Obj
<1>5. IdOf[t] \in IDs BY ManagerAssumption, Zenon
<1>6. \A u \in Tasks : u # t => (Live(u)' <=> Live(u)) BY Zenon DEF Live
<1>7. \A c \in Callers : Submitting(c) => Obj(c) # t BY SubmittingFacts, Zenon
<1>8. ReadyToRun' BY <1>2, <1>4, <1>7, SubmittingFacts, SMTT(20) DEF RunInv, ReadyToRun
<1>9. ASSUME phase # "down" PROVE Owned'
  <2>1. Owned BY <1>9, Zenon DEF RunInv
  <2>2. \A u \in Tasks : Live(u)' => u # t /\ IdOf[u] # IdOf[t] /\ Live(u) BY <1>6, <2>1, SMTT(20) DEF Owned
  <2>3. \A u \in Tasks : Live(u)' => active'[IdOf[u]] = u
    BY <2>1, <2>2, ManagerAssumption, Zenon DEF Owned, RunInv
  <2>4. \A id \in IDs : active'[id] # NoTask => active'[id] = active[id] /\ id # IdOf[t]
    BY <1>5, Zenon DEF RunInv
  <2>5. \A id \in IDs : active'[id] # NoTask =>
            LiveNext(active'[id]) \/ \E c \in Callers : Forgetting(c)' /\ Id(c)' = id
    <3> SUFFICES ASSUME NEW id \in IDs, active'[id] # NoTask
                 PROVE  LiveNext(active'[id]) \/ \E c \in Callers : Forgetting(c)' /\ Id(c)' = id
      BY Zenon
    <3>1. active'[id] = active[id] /\ active[id] \in Tasks /\ active[id] # t
      BY <2>4 DEF RunInv
    <3>2. Live(active[id]) => LiveNext(active'[id]) BY <3>1, <1>6, Zenon DEF Live
    <3> QED BY <3>1, <3>2, <2>1, <1>3, <1>4, SMTT(20) DEF Owned
  <2>6. \A c \in Callers : Forgetting(c) => Id(c) \in IDs /\ Id(c) # IdOf[t]
    BY <2>1, Zenon DEF Owned, RunInv, CallsTyped, Forgetting, At
  <2>7. \A c \in Callers : Forgetting(c)' =>
            active'[Id(c)] # NoTask /\ \A u \in Tasks : IdOf[u] = Id(c) => ~Live(u)'
    BY <2>1, <2>2, <2>6, <1>3, Zenon DEF Owned, RunInv
  <2>8. \A c, d \in Callers : c # d /\ Forgetting(c)' /\ Forgetting(d)' => Id(c)' # Id(d)'
    BY <2>1, <1>3, <1>4 DEF Owned
  <2> QED BY <2>3, <2>5, <2>7, <2>8, <1>4, SMTT(20) DEF Owned, Live
<1>10. \A id \in IDs : active'[id] # NoTask => IdOf[active'[id]] = id BY <1>5, Zenon DEF RunInv
<1>11. active' \in [IDs -> Tasks \cup {NoTask}] BY Zenon DEF RunInv
<1> QED BY <1>1, <1>8, <1>9, <1>10, <1>11, Zenon DEF RunInv

\* The goroutine's end.
LEMMA GoEnds ==
    ASSUME RunInv, SlotInv, NEW t \in Tasks,
           Forget(t) \/ GoRelease(t) \/ GoHandOn(t) \/ DispatchForget(t) \/ DrainForget(t) \/ GoUntrack(t)
    PROVE  RunInv'
<1>1. UNCHANGED <<call, phase, daemonOver>>
  BY Zenon DEF Forget, GoRelease, GoHandOn, DispatchForget, DrainForget, GoUntrack
<1>2. go \in [Tasks -> GoStates] /\ slot \in [Tasks -> SlotStates] /\ daemonOver' \in BOOLEAN
  BY <1>1, Zenon DEF RunInv, ReadyToRun, SlotInv, SlotTypeOK
<1>3. CASE Forget(t)
  <2>1. slot' = slot /\ go' = [go EXCEPT ![t] = "release"] /\ go[t] = "forget"
    BY <1>3, Zenon DEF Forget, GoTo, slots, slotVars
  <2>2. active' = [active EXCEPT ![IdOf[t]] = NoTask] BY <1>3, Zenon DEF Forget
  <2>3. Live(t) /\ ~Live(t)' /\ go' \in [Tasks -> GoStates] BY <2>1, <1>2, Zenon DEF Live, GoStates
  <2>4. slot[t] \notin {"queued", "dropped"} BY <2>1, Zenon DEF RunInv, ReadyToRun
  <2> QED BY <2>1, <2>2, <2>3, <2>4, <1>1, <1>2, EndFrame, Zenon
<1>4. CASE DispatchForget(t)
  <2>1. slot' = [slot EXCEPT ![t] = "out"] /\ go' = [go EXCEPT ![t] = "untrack"] /\ slot[t] = "dropped"
    BY <1>4, Zenon DEF DispatchForget, ForgetDropped, GoTo
  <2>2. active' = [active EXCEPT ![IdOf[t]] = NoTask] BY <1>4, Zenon DEF DispatchForget
  <2>3. go[t] = "ready" BY <2>1, Zenon DEF RunInv, ReadyToRun
  <2>4. Live(t) /\ ~Live(t)' /\ go' \in [Tasks -> GoStates] BY <2>1, <2>3, <1>2, Zenon DEF Live, GoStates
  <2> QED BY <2>1, <2>2, <2>4, <1>1, <1>2, EndFrame, Zenon
<1>5. CASE GoRelease(t) \/ GoHandOn(t)
  <2>1. go[t] \in {"release", "hand"} /\ active' = active BY <1>5, Zenon DEF GoRelease, GoHandOn
  <2>2. PICK p \in {"idle", "hand"} : go' = [go EXCEPT ![t] = p]
    BY <1>5, Zenon DEF GoRelease, GoHandOn, Gone, GoTo
  <2>3. go' \in [Tasks -> GoStates] /\ \A u \in Tasks : Live(u)' <=> Live(u)
    BY <2>1, <2>2, <1>2, Zenon DEF Live, GoStates
  <2>4. \A u \in Tasks : u # t => slot'[u] = slot[u] \/ (slot[u] = "queued" /\ slot'[u] \in {"held", "dropped"})
    <3>1. CASE EndContexts({t}) BY <3>1, Zenon DEF EndContexts
    <3>2. CASE Release(t) BY <3>2, <1>2, Zenon DEF Release
    <3>3. CASE HandOn(t)
      <4>1. [slot EXCEPT ![t] = "out"] \in [Tasks -> SlotStates] BY <1>2, Zenon DEF SlotStates
      <4>2. Dispatch([slot EXCEPT ![t] = "out"]) BY <3>3, Zenon DEF HandOn
      <4>3. \A u \in Tasks : slot'[u] = [slot EXCEPT ![t] = "out"][u] \/ (slot[u] = "queued" /\ slot'[u] \in {"held", "dropped"})
        BY <4>1, <4>2, DispatchMoves, Zenon
      <4> QED BY <4>3, <1>2, Zenon
    <3> QED BY <1>5, <3>1, <3>2, <3>3, Zenon DEF GoRelease, GoHandOn
  <2>5. slot'[t] \notin {"queued", "dropped"} /\ (go'[t] \in {"idle", "drained", "untrack"} => slot'[t] = "out")
    <3>1. slot[t] \notin {"queued", "dropped"} BY <2>1, Zenon DEF RunInv, ReadyToRun
    <3>2. CASE GoRelease(t) /\ slot[t] = "out" /\ EndContexts({t}) BY <3>2, Zenon DEF EndContexts
    <3>3. CASE Release(t) /\ GoTo(t, "hand") BY <3>3, <1>2, Zenon DEF Release, GoTo, ReadyToRun, RunInv
    <3>4. CASE HandOn(t)
      <4>1. [slot EXCEPT ![t] = "out"] \in [Tasks -> SlotStates] BY <1>2, Zenon DEF SlotStates
      <4>2. Dispatch([slot EXCEPT ![t] = "out"]) /\ slot[t] = "handing" BY <3>4, Zenon DEF HandOn
      <4>3. slot'[t] = [slot EXCEPT ![t] = "out"][t] BY <4>1, <4>2, DispatchMoves, Zenon
      <4> QED BY <4>3, <1>2, Zenon
    <3> QED BY <1>5, <3>2, <3>3, <3>4, Zenon DEF GoRelease, GoHandOn
  <2>6. \A u \in Tasks : slot'[u] \in {"queued", "dropped"} => go'[u] = "ready"
    BY <2>2, <2>4, <2>5, <1>2, Zenon DEF RunInv, ReadyToRun
  <2>7. \A u \in Tasks : go'[u] \in {"idle", "drained", "untrack"} => slot'[u] = "out"
    BY <2>2, <2>4, <2>5, <1>2, Zenon DEF RunInv, ReadyToRun
  <2>8. \A u \in Tasks : go[u] = "ready" /\ slot[u] = "out" => go'[u] = "ready" /\ slot'[u] = "out"
    BY <2>1, <2>2, <2>4, <1>2, Zenon
  <2> QED BY <1>1, <1>2, <2>1, <2>3, <2>6, <2>7, <2>8, GoFrame, Zenon
<1>6. CASE DrainForget(t)
  <2>1. slot' = slot /\ go' = [go EXCEPT ![t] = "untrack"] /\ go[t] = "drained"
    BY <1>6, Zenon DEF DrainForget, GoTo, slots, slotVars
  <2>2. active' = [active EXCEPT ![IdOf[t]] = NoTask] BY <1>6, Zenon DEF DrainForget
  <2>3. Live(t) /\ ~Live(t)' /\ go' \in [Tasks -> GoStates] BY <2>1, <1>2, Zenon DEF Live, GoStates
  <2>4. slot[t] = "out" BY <2>1, Zenon DEF RunInv, ReadyToRun
  <2> QED BY <2>1, <2>2, <2>3, <2>4, <1>1, <1>2, EndFrame, Zenon
<1>7. CASE GoUntrack(t)
  <2>1. slot' = slot /\ active' = active /\ go' = [go EXCEPT ![t] = "idle"] /\ go[t] = "untrack"
    BY <1>7, Zenon DEF GoUntrack, Gone, GoTo, slots, slotVars
  <2>2. go' \in [Tasks -> GoStates] /\ \A u \in Tasks : Live(u)' <=> Live(u)
    BY <2>1, <1>2, Zenon DEF Live, GoStates
  <2>3. \A u \in Tasks : slot'[u] \in {"queued", "dropped"} => go'[u] = "ready"
    BY <2>1, <1>2, Zenon DEF RunInv, ReadyToRun
  <2>4. \A u \in Tasks : go'[u] \in {"idle", "drained", "untrack"} => slot'[u] = "out"
    BY <2>1, <1>2, Zenon DEF RunInv, ReadyToRun
  <2>5. \A u \in Tasks : go[u] = "ready" /\ slot[u] = "out" => go'[u] = "ready" /\ slot'[u] = "out"
    BY <2>1, <1>2, Zenon
  <2> QED BY <1>1, <1>2, <2>1, <2>2, <2>3, <2>4, <2>5, GoFrame, Zenon
<1> QED BY <1>3, <1>4, <1>5, <1>6, <1>7, Zenon

-----------------------------------------------------------------------------
(* How a call begins, goes on and returns, and every step of Submit. *)

\* The call of c goes to another step and keeps its arguments.
LEMMA ToStep ==
    ASSUME CallsTyped, NEW c \in Callers,
           NEW p \in {"store", "track", "start", "dispatch", "settle", "dequeue", "forget", "untrack", "cancel", "status"},
           call[c].pc \notin {"idle", "insert", "unmark"}, To(c, p)
    PROVE  /\ CallsTyped'
           /\ \A d \in Callers : d # c => call'[d] = call[d]
           /\ call'[c].op = call[c].op /\ call'[c].pc = p
           /\ \A d \in Callers : Id(d)' = Id(d) /\ Obj(d)' = Obj(d)
<1>1. call \in [Callers -> CallType] BY Zenon DEF CallsTyped
<1>2. call' = [call EXCEPT ![c].pc = p] BY Zenon DEF To
<1>3. call'[c] = [call[c] EXCEPT !.pc = p] /\ call[c] \in CallType BY <1>1, <1>2, Zenon
<1>4. call'[c] \in CallType BY <1>3, Zenon DEF CallType
<1>5. call' \in [Callers -> CallType] /\ \A d \in Callers : d # c => call'[d] = call[d]
  BY <1>1, <1>2, <1>4, Zenon
<1>6. call'[c].op = call[c].op /\ call'[c].pc = p /\ call'[c].id = call[c].id /\ call'[c].task = call[c].task
  BY <1>3, Zenon DEF CallType
<1>7. \A d \in Callers : Id(d)' = Id(d) /\ Obj(d)' = Obj(d) BY <1>5, <1>6, Zenon DEF Id, Obj
<1>8. \A d \in Callers : (call'[d].pc # "idle" => Id(d)' \in IDs)
                          /\ (call'[d].pc \notin {"idle", "insert", "unmark"} => Obj(d)' \in Tasks)
  BY <1>5, <1>6, <1>7, Zenon DEF CallsTyped
<1>9. CallsTyped' BY <1>5, <1>8, Zenon DEF CallsTyped
<1> QED BY <1>5, <1>6, <1>7, <1>9, Zenon

\* The call of c begins or returns.
LEMMA FreshStep ==
    ASSUME CallsTyped, NEW c \in Callers, NEW r \in CallType,
           r.pc # "idle" => r.id \in IDs, r.pc \notin {"idle", "insert", "unmark"} => r.task \in Tasks,
           call' = [call EXCEPT ![c] = r]
    PROVE  /\ CallsTyped'
           /\ call'[c] = r
           /\ \A d \in Callers : d # c => call'[d] = call[d] /\ Id(d)' = Id(d) /\ Obj(d)' = Obj(d)
<1>1. call' \in [Callers -> CallType] /\ call'[c] = r /\ \A d \in Callers : d # c => call'[d] = call[d]
  BY Zenon DEF CallsTyped
<1>2. \A d \in Callers : d # c => Id(d)' = Id(d) /\ Obj(d)' = Obj(d) BY <1>1, Zenon DEF Id, Obj
<1>3. \A d \in Callers : (call'[d].pc # "idle" => call'[d].id \in IDs)
                          /\ (call'[d].pc \notin {"idle", "insert", "unmark"} => call'[d].task \in Tasks)
  BY <1>1, Zenon DEF CallsTyped, Id, Obj
<1>4. CallsTyped' BY <1>1, <1>3, Zenon DEF CallsTyped, Id, Obj
<1> QED BY <1>1, <1>2, <1>4, Zenon

\* A step of a call that changes neither active nor go, and starts nothing.
LEMMA CallFrame ==
    ASSUME RunInv, UNCHANGED <<active, phase, daemonOver, go>>, CallsTyped', NEW c \in Callers,
           \A d \in Callers : d # c => call'[d] = call[d] /\ Id(d)' = Id(d) /\ Obj(d)' = Obj(d),
           ~Forgetting(c), ~Forgetting(c)',
           Submitting(c)' => Submitting(c) /\ Obj(c)' = Obj(c) /\ Id(c)' = Id(c),
           \A t \in Tasks : slot'[t] \in {"queued", "dropped"} => slot[t] \in {"queued", "dropped"},
           \A t \in Tasks : slot[t] = "out" => slot'[t] = "out"
    PROVE  RunInv'
<1>1. \A d \in Callers : Submitting(d)' => Submitting(d) /\ Obj(d)' = Obj(d) /\ Id(d)' = Id(d)
  BY Zenon DEF Submitting
<1>2. \A d \in Callers : (Forgetting(d)' <=> Forgetting(d)) /\ (Forgetting(d) => Id(d)' = Id(d))
  BY Zenon DEF Forgetting, At
<1>3. go' \in [Tasks -> GoStates] /\ \A t \in Tasks : Live(t)' <=> Live(t)
  BY Zenon DEF RunInv, ReadyToRun, Live
<1>4. \A t \in Tasks : slot'[t] \in {"queued", "dropped"} => go'[t] = "ready" BY Zenon DEF RunInv, ReadyToRun
<1>5. \A t \in Tasks : go'[t] \in {"idle", "drained", "untrack"} => slot'[t] = "out" BY Zenon DEF RunInv, ReadyToRun
<1>6. \A d \in Callers : Submitting(d)' => go'[Obj(d)] = "ready" /\ slot'[Obj(d)] = "out"
  BY <1>1, SubmittingFacts, Zenon
<1>7. daemonOver' \in BOOLEAN BY Zenon DEF RunInv
<1> QED BY <1>1, <1>2, <1>3, <1>4, <1>5, <1>6, <1>7, Frame, Zenon

\* A call begins.
LEMMA BeginsWith ==
    ASSUME RunInv, NEW c \in Callers, NEW r \in CallType,
           UNCHANGED <<active, phase, daemonOver, go, slot>>,
           call[c] = Idle, call' = [call EXCEPT ![c] = r],
           r.id \in IDs, r.pc \in {"insert", "unmark"} \/ (r.pc = "mark" /\ r.task \in Tasks)
    PROVE  RunInv'
<1>1. CallsTyped BY Zenon DEF RunInv
<1>2. (r.pc # "idle" => r.id \in IDs) /\ (r.pc \notin {"idle", "insert", "unmark"} => r.task \in Tasks) BY Zenon
<1>3. CallsTyped' /\ call'[c] = r
      /\ \A d \in Callers : d # c => call'[d] = call[d] /\ Id(d)' = Id(d) /\ Obj(d)' = Obj(d)
  BY <1>1, <1>2, FreshStep, Zenon
<1>4. ~Forgetting(c) /\ ~Forgetting(c)' /\ ~Submitting(c)'
  BY <1>3, IdleType, Zenon DEF Forgetting, At, Submitting
<1> QED BY <1>3, <1>4, CallFrame, Zenon

\* A call (Submit, CancelTask, PauseTask, DropResume, the restart's re-submits) notes its
\* arguments.
LEMMA CallBegins ==
    ASSUME RunInv, boot \subseteq IDs, NEW c \in Callers,
           \/ \E id \in IDs : \/ \E force \in BOOLEAN : Submit(c, id, force)
                              \/ CancelTask(c, id) \/ PauseTask(c, id) \/ DropResume(c, id)
           \/ BootSubmit(c)
    PROVE  RunInv'
<1>1. UNCHANGED <<active, phase, daemonOver, go, slot>>
  BY Zenon DEF Submit, CancelTask, PauseTask, Stop, DropResume, BootSubmit, slots, slotVars
<1>2. call[c] = Idle BY Zenon DEF Submit, CancelTask, PauseTask, Stop, DropResume, BootSubmit, Serving
<1>3. CASE \E id \in IDs : \E force \in BOOLEAN : Submit(c, id, force)
  <2>1. PICK id \in IDs, force \in BOOLEAN : Submit(c, id, force) BY <1>3, Zenon
  <2> DEFINE r == [op |-> "submit", pc |-> "insert", id |-> id, task |-> NoTask, flag |-> force]
  <2>2. r \in CallType /\ r.id \in IDs /\ r.pc = "insert" BY Zenon DEF CallType
  <2>3. call' = [call EXCEPT ![c] = r] BY <2>1, Zenon DEF Submit
  <2> HIDE DEF r
  <2> QED BY <1>1, <1>2, <2>2, <2>3, BeginsWith, Zenon
<1>4. CASE \E id \in IDs : CancelTask(c, id) \/ PauseTask(c, id)
  <2>1. PICK id \in IDs, op \in {"cancel", "pause"} : Stop(c, op, id) BY <1>4, Zenon DEF CancelTask, PauseTask
  <2> DEFINE r == [op |-> op, pc |-> "mark", id |-> id, task |-> active[id], flag |-> FALSE]
  <2>2. active[id] \in Tasks BY <2>1, Zenon DEF Stop, RunInv
  <2>3. r \in CallType /\ r.id \in IDs /\ r.pc = "mark" /\ r.task \in Tasks BY <2>2, Zenon DEF CallType
  <2>4. call' = [call EXCEPT ![c] = r] BY <2>1, Zenon DEF Stop
  <2> HIDE DEF r
  <2> QED BY <1>1, <1>2, <2>3, <2>4, BeginsWith, Zenon
<1>5. CASE BootSubmit(c)
  <2>1. PICK id \in boot : call' = [call EXCEPT ![c] =
            [op |-> "submit", pc |-> "insert", id |-> id, task |-> NoTask, flag |-> FALSE]]
    BY <1>5, Zenon DEF BootSubmit
  <2>2. id \in IDs BY Zenon
  <2> DEFINE r == [op |-> "submit", pc |-> "insert", id |-> id, task |-> NoTask, flag |-> FALSE]
  <2>3. r \in CallType /\ r.id \in IDs /\ r.pc = "insert" BY <2>2, Zenon DEF CallType
  <2>4. call' = [call EXCEPT ![c] = r] BY <2>1, Zenon
  <2> HIDE DEF r
  <2> QED BY <1>1, <1>2, <2>3, <2>4, BeginsWith, Zenon
<1>6. CASE \E id \in IDs : DropResume(c, id)
  <2>1. PICK id \in IDs : DropResume(c, id) BY <1>6, Zenon
  <2> DEFINE r == [op |-> "drop", pc |-> "unmark", id |-> id, task |-> NoTask, flag |-> FALSE]
  <2>2. r \in CallType /\ r.id \in IDs /\ r.pc = "unmark" BY Zenon DEF CallType
  <2>3. call' = [call EXCEPT ![c] = r] BY <2>1, Zenon DEF DropResume
  <2> HIDE DEF r
  <2> QED BY <1>1, <1>2, <2>2, <2>3, BeginsWith, Zenon
<1> QED BY <1>3, <1>4, <1>5, <1>6, Zenon

\* The steps of a call that only move on.
LEMMA CallMoves ==
    ASSUME RunInv, NEW c \in Callers,
           SubmitClear(c) \/ SubmitStore(c) \/ SubmitTrack(c) \/ StopMark(c) \/ Settle(c) \/ StopUntrack(c)
             \/ StopCancel(c)
    PROVE  RunInv'
<1>1. UNCHANGED <<active, phase, daemonOver, go, slot>>
  BY Zenon DEF SubmitClear, SubmitStore, SubmitTrack, StopMark, Settle, StopUntrack, StopCancel, EndContexts,
               slots, slotVars
<1>2. PICK p \in {"store", "track", "start", "settle", "dequeue", "cancel", "status"} :
        /\ To(c, p)
        /\ \/ call[c].op = "submit" /\ call[c].pc \in {"clear", "store", "track"}
           \/ /\ call[c].op \in {"cancel", "pause"} /\ call[c].pc \in {"mark", "settle", "untrack", "cancel"}
              /\ p \in {"settle", "dequeue", "cancel", "status"}
  BY Zenon DEF SubmitClear, SubmitStore, SubmitTrack, StopMark, Settle, StopUntrack, StopCancel, At
<1>3. CallsTyped /\ call[c].pc \notin {"idle", "insert", "unmark"}
      /\ p \in {"store", "track", "start", "dispatch", "settle", "dequeue", "forget", "untrack", "cancel", "status"}
  BY <1>2, Zenon DEF RunInv
<1>4. /\ CallsTyped'
      /\ \A d \in Callers : d # c => call'[d] = call[d]
      /\ call'[c].op = call[c].op /\ call'[c].pc = p
      /\ \A d \in Callers : Id(d)' = Id(d) /\ Obj(d)' = Obj(d)
  BY <1>2, <1>3, ToStep, Zenon
<1>5. ~Forgetting(c) /\ ~Forgetting(c)' /\ (Submitting(c)' => Submitting(c))
  BY <1>2, <1>4, Zenon DEF Forgetting, At, Submitting
<1> QED BY <1>1, <1>4, <1>5, CallFrame, Zenon

\* The call of c returns.
LEMMA ReturnStep ==
    ASSUME CallsTyped, NEW c \in Callers, Return(c)
    PROVE  /\ CallsTyped' /\ call'[c] = Idle /\ ~Forgetting(c)' /\ ~Submitting(c)'
           /\ \A d \in Callers : d # c => call'[d] = call[d] /\ Id(d)' = Id(d) /\ Obj(d)' = Obj(d)
<1>1. /\ Idle \in CallType /\ (Idle.pc # "idle" => Idle.id \in IDs)
      /\ (Idle.pc \notin {"idle", "insert", "unmark"} => Idle.task \in Tasks)
  BY IdleType, Zenon
<1>2. call' = [call EXCEPT ![c] = Idle] BY Zenon DEF Return
<1>3. /\ CallsTyped' /\ call'[c] = Idle
      /\ \A d \in Callers : d # c => call'[d] = call[d] /\ Id(d)' = Id(d) /\ Obj(d)' = Obj(d)
  BY <1>1, <1>2, FreshStep, Zenon
<1> QED BY <1>3, IdleType, Zenon DEF Forgetting, At, Submitting

\* The last step of enqueue, of a cancel or a pause, and of DropResume.
LEMMA CallReturns ==
    ASSUME RunInv, SlotInv, NEW c \in Callers, SubmitDispatch(c) \/ StopStatus(c) \/ DropUnmark(c)
    PROVE  RunInv'
<1>1. UNCHANGED <<active, phase, daemonOver, go>> /\ Return(c) /\ ~Forgetting(c)
  BY Zenon DEF SubmitDispatch, StopStatus, DropUnmark, Forgetting, At
<1>2. slot \in [Tasks -> SlotStates] BY Zenon DEF SlotInv, SlotTypeOK
<1>3. \A t \in Tasks : slot'[t] = slot[t] \/ (slot[t] = "queued" /\ slot'[t] \in {"held", "dropped"})
  <2>1. CASE SubmitDispatch(c)
    <3>1. Dispatch(slot) BY <2>1, Zenon DEF SubmitDispatch, EnqueueDispatch
    <3> QED BY <3>1, <1>2, DispatchMoves, Zenon
  <2>2. CASE StopStatus(c) \/ DropUnmark(c) BY <2>2, Zenon DEF StopStatus, DropUnmark, slots, slotVars
  <2> QED BY <2>1, <2>2, Zenon
<1>4. CallsTyped BY Zenon DEF RunInv
<1> QED BY <1>1, <1>3, <1>4, ReturnStep, CallFrame, Zenon

\* A Submit that finds its ID taken returns; another one makes its task the owner.
LEMMA SubmitInserts ==
    ASSUME RunInv, SlotInv, NEW c \in Callers, SubmitInsert(c)
    PROVE  RunInv'
<1>1. UNCHANGED <<phase, daemonOver>> /\ call[c].op = "submit" /\ call[c].pc = "insert"
  BY Zenon DEF SubmitInsert, At
<1>2. CallsTyped /\ Id(c) \in IDs /\ ~Forgetting(c) /\ ~Submitting(c) /\ phase' = phase
  BY <1>1, CallFacts, Zenon DEF RunInv, Forgetting, At, Submitting
<1>3. CASE active[Id(c)] # NoTask
  <2>1. UNCHANGED <<slot, active, go>> /\ Return(c) BY <1>3, Zenon DEF SubmitInsert, slots, slotVars
  <2> QED BY <2>1, <1>1, <1>2, ReturnStep, CallFrame, Zenon
<1>4. CASE active[Id(c)] = NoTask
  <2>1. PICK t \in Tasks :
          /\ IdOf[t] = Id(c) /\ Fresh(t)
          /\ NewTask(t, daemonOver)
          /\ active' = [active EXCEPT ![Id(c)] = t]
          /\ go' = [go EXCEPT ![t] = "ready"]
          /\ call' = [call EXCEPT ![c].pc = "clear", ![c].task = t]
    BY <1>4, Zenon DEF SubmitInsert
  <2>2. go[t] = "idle" /\ slot[t] = "out" /\ slot' = slot /\ \A d \in Callers : Obj(d) # t
    BY <2>1, Zenon DEF Fresh, NewTask, Obj
  <2>3. go \in [Tasks -> GoStates] /\ active \in [IDs -> Tasks \cup {NoTask}] /\ call \in [Callers -> CallType]
    BY Zenon DEF RunInv, ReadyToRun, CallsTyped
  <2>4. /\ call'[c] = [call[c] EXCEPT !.pc = "clear", !.task = t]
        /\ \A d \in Callers : d # c => call'[d] = call[d]
        /\ call[c] \in CallType
    BY <2>1, <2>3, Zenon
  <2>5. call'[c] \in CallType /\ call'[c].op = "submit" /\ call'[c].pc = "clear"
        /\ call'[c].task = t /\ call'[c].id = Id(c)
    <3>1. call'[c] \in CallType
      <4> DEFINE r == [call[c] EXCEPT !.pc = "clear"]
      <4>1. r \in CallType BY <2>4, Zenon DEF CallType
      <4>2. call'[c] = [r EXCEPT !.task = t] BY <2>4, Zenon
      <4> HIDE DEF r
      <4> QED BY <4>1, <4>2, Zenon DEF CallType
    <3>2. /\ call'[c].op = call[c].op /\ call'[c].pc = "clear"
          /\ call'[c].task = t /\ call'[c].id = call[c].id
      BY <2>4, Zenon DEF CallType
    <3> QED BY <3>1, <3>2, <1>1, Zenon DEF Id
  <2>6. call' \in [Callers -> CallType] BY <2>1, <2>3, <2>4, <2>5, Zenon
  <2>7. /\ Id(c)' = Id(c) /\ Obj(c)' = t
        /\ \A d \in Callers : d # c => Id(d)' = Id(d) /\ Obj(d)' = Obj(d)
    BY <2>4, <2>5, Zenon DEF Id, Obj
  <2>8. CallsTyped' BY <2>4, <2>5, <2>6, <2>7, <1>2, Zenon DEF CallsTyped
  <2>9. /\ Submitting(c)' /\ ~Forgetting(c)'
        /\ \A d \in Callers : d # c => (Submitting(d)' <=> Submitting(d)) /\ (Forgetting(d)' <=> Forgetting(d))
    BY <2>4, <2>5, Zenon DEF Submitting, Forgetting, At
  <2>10. go' \in [Tasks -> GoStates] /\ go'[t] = "ready" /\ \A u \in Tasks : u # t => go'[u] = go[u]
    BY <2>1, <2>3, Zenon DEF GoStates
  <2>11. ReadyToRun'
    <3>1. \A u \in Tasks : slot'[u] \in {"queued", "dropped"} => go'[u] = "ready"
      BY <2>2, <2>10, Zenon DEF RunInv, ReadyToRun
    <3>2. \A u \in Tasks : go'[u] \in {"idle", "drained", "untrack"} => slot'[u] = "out"
      BY <2>2, <2>10, Zenon DEF RunInv, ReadyToRun
    <3>3. \A d \in Callers : Submitting(d)' =>
              go'[Obj(d)'] = "ready" /\ slot'[Obj(d)'] = "out" /\ IdOf[Obj(d)'] = Id(d)'
      <4>1. \A d \in Callers : d # c /\ Submitting(d) => Obj(d) \in Tasks /\ go[Obj(d)] = "ready" /\ slot[Obj(d)] = "out" /\ IdOf[Obj(d)] = Id(d)
        BY SubmittingFacts, Zenon DEF RunInv, ReadyToRun
      <4> QED BY <4>1, <2>1, <2>2, <2>7, <2>9, <2>10, Zenon
    <3>4. \A d, e \in Callers : d # e /\ Submitting(d)' /\ Submitting(e)' => Obj(d)' # Obj(e)'
      BY <2>2, <2>7, <2>9 DEF RunInv, ReadyToRun
    <3> QED BY <2>10, <3>1, <3>2, <3>3, <3>4, Zenon DEF ReadyToRun
  <2>12. active' \in [IDs -> Tasks \cup {NoTask}] /\ active'[Id(c)] = t
         /\ \A id \in IDs : id # Id(c) => active'[id] = active[id]
    BY <2>1, <2>3, <1>2, Zenon
  <2>13. \A id \in IDs : active'[id] # NoTask => IdOf[active'[id]] = id
    BY <2>1, <2>12, Zenon DEF RunInv
  <2>14. ASSUME phase # "down" PROVE Owned'
    <3> DEFINE LiveNext(u) == go'[u] \notin {"idle", "release", "hand", "untrack"}
    <3>1. Owned BY <2>14, Zenon DEF RunInv
    <3>2. \A u \in Tasks : u # t => (LiveNext(u) <=> Live(u)) BY <2>10, Zenon DEF Live
    <3>3. \A u \in Tasks : Live(u) => IdOf[u] # Id(c) /\ u # t
      BY <3>1, <1>4, <2>2, ManagerAssumption, Zenon DEF Owned, Live
    <3>4. \A u \in Tasks : LiveNext(u) => active'[IdOf[u]] = u
      <4> SUFFICES ASSUME NEW u \in Tasks, LiveNext(u) PROVE active'[IdOf[u]] = u BY Zenon
      <4>1. IdOf[u] \in IDs BY ManagerAssumption, Zenon
      <4>2. CASE u = t BY <4>2, <2>1, <2>12, Zenon
      <4>3. CASE u # t BY <4>1, <4>3, <3>1, <3>2, <3>3, <2>12, Zenon DEF Owned
      <4> QED BY <4>2, <4>3, Zenon
    <3>5. \A id \in IDs : active'[id] # NoTask =>
              LiveNext(active'[id]) \/ \E d \in Callers : Forgetting(d)' /\ Id(d)' = id
      <4> SUFFICES ASSUME NEW id \in IDs, active'[id] # NoTask
                   PROVE  LiveNext(active'[id]) \/ \E d \in Callers : Forgetting(d)' /\ Id(d)' = id
        BY Zenon
      <4>1. CASE id = Id(c) BY <4>1, <2>10, <2>12, Zenon
      <4>2. CASE id # Id(c)
        <5>1. active'[id] = active[id] /\ active[id] \in Tasks /\ active[id] # t
          BY <4>2, <2>1, <2>12, Zenon DEF RunInv
        <5>2. CASE Live(active[id]) BY <5>1, <5>2, <3>2, Zenon
        <5>3. CASE \E d \in Callers : Forgetting(d) /\ Id(d) = id
          BY <5>3, <1>2, <2>7, <2>9, Zenon
        <5> QED BY <5>1, <5>2, <5>3, <3>1, Zenon DEF Owned
      <4> QED BY <4>1, <4>2, Zenon
    <3>6. \A d \in Callers : Forgetting(d)' => d # c /\ Forgetting(d) /\ Id(d) \in IDs /\ Id(d) # Id(c) /\ Id(d)' = Id(d)
      <4>1. \A d \in Callers : Forgetting(d) => Id(d) \in IDs /\ active[Id(d)] # NoTask
        BY <3>1, Zenon DEF Owned, RunInv, CallsTyped, Forgetting, At
      <4> QED BY <4>1, <1>4, <2>7, <2>9, Zenon
    <3>7. \A d \in Callers : Forgetting(d)' =>
              active'[Id(d)'] # NoTask /\ \A u \in Tasks : IdOf[u] = Id(d)' => ~LiveNext(u)
      BY <3>1, <3>2, <3>6, <2>1, <2>12, SMTT(20) DEF Owned
    <3>8. \A d, e \in Callers : d # e /\ Forgetting(d)' /\ Forgetting(e)' => Id(d)' # Id(e)'
      BY <3>1, <3>6, SMTT(20) DEF Owned
    <3> QED BY <3>4, <3>5, <3>7, <3>8, Zenon DEF Owned, Live
  <2> QED BY <1>1, <2>8, <2>11, <2>12, <2>13, <2>14, Zenon DEF RunInv
<1> QED BY <1>3, <1>4, Zenon

\* A Submit starts its task: with a goroutine of its own, or in the line.
LEMMA SubmitStarts ==
    ASSUME RunInv, SlotInv, NEW c \in Callers, SubmitStart(c)
    PROVE  RunInv'
<1>1. UNCHANGED <<phase, daemonOver, active>> /\ call[c].op = "submit" /\ call[c].pc = "start"
  BY Zenon DEF SubmitStart, At
<1>2. CallsTyped /\ Submitting(c) /\ ~Forgetting(c) BY <1>1, Zenon DEF RunInv, Forgetting, At, Submitting
<1>3. Obj(c) \in Tasks /\ go[Obj(c)] = "ready" /\ slot[Obj(c)] = "out" BY <1>2, SubmittingFacts, Zenon
<1>4. go \in [Tasks -> GoStates] /\ slot \in [Tasks -> SlotStates] /\ daemonOver' \in BOOLEAN
  BY <1>1, Zenon DEF RunInv, ReadyToRun, SlotInv, SlotTypeOK
<1>5. /\ CallsTyped' /\ ~Submitting(c)' /\ ~Forgetting(c)'
      /\ \A d \in Callers : d # c => call'[d] = call[d] /\ Id(d)' = Id(d) /\ Obj(d)' = Obj(d)
  <2>1. CASE Return(c) BY <2>1, <1>2, ReturnStep, Zenon
  <2>2. CASE To(c, "dispatch")
    <3>1. /\ CallsTyped'
          /\ \A d \in Callers : d # c => call'[d] = call[d]
          /\ call'[c].op = call[c].op /\ call'[c].pc = "dispatch"
          /\ \A d \in Callers : Id(d)' = Id(d) /\ Obj(d)' = Obj(d)
      BY <2>2, <1>1, <1>2, ToStep, Zenon
    <3> QED BY <3>1, Zenon DEF Submitting, Forgetting, At
  <2> QED BY <2>1, <2>2, Zenon DEF SubmitStart
<1>6. \A u \in Tasks : u # Obj(c) => go'[u] = go[u] /\ slot'[u] = slot[u]
  BY <1>3, <1>4, Zenon DEF SubmitStart, Enqueue, slots, slotVars
<1>7. /\ go' \in [Tasks -> GoStates]
      /\ \/ go'[Obj(c)] = "spawned" /\ slot'[Obj(c)] = "out"
         \/ go'[Obj(c)] = "ready" /\ slot'[Obj(c)] = "queued"
  BY <1>3, <1>4, Zenon DEF SubmitStart, Enqueue, slots, slotVars, GoStates
<1>8. \A u \in Tasks : Live(u)' <=> Live(u) BY <1>3, <1>6, <1>7, Zenon DEF Live
<1>9. \A u \in Tasks : slot'[u] \in {"queued", "dropped"} => go'[u] = "ready"
  BY <1>6, <1>7, Zenon DEF RunInv, ReadyToRun
<1>10. \A u \in Tasks : go'[u] \in {"idle", "drained", "untrack"} => slot'[u] = "out"
  BY <1>6, <1>7, Zenon DEF RunInv, ReadyToRun
<1>11. \A d \in Callers : Submitting(d)' => d # c /\ Submitting(d) /\ Obj(d)' = Obj(d) /\ Id(d)' = Id(d)
  BY <1>5, Zenon DEF Submitting
<1>12. \A d \in Callers : (Forgetting(d)' <=> Forgetting(d)) /\ (Forgetting(d) => Id(d)' = Id(d))
  BY <1>2, <1>5, Zenon DEF Forgetting, At
<1>13. \A d \in Callers : Submitting(d)' => go'[Obj(d)] = "ready" /\ slot'[Obj(d)] = "out"
  <2> SUFFICES ASSUME NEW d \in Callers, Submitting(d)'
               PROVE  go'[Obj(d)] = "ready" /\ slot'[Obj(d)] = "out"
    BY Zenon
  <2>1. Submitting(d) /\ d # c BY <1>11, Zenon
  <2>2. Obj(d) \in Tasks /\ go[Obj(d)] = "ready" /\ slot[Obj(d)] = "out" BY <2>1, SubmittingFacts, Zenon
  <2>3. Obj(d) # Obj(c) BY <2>1, <1>2, Zenon DEF RunInv, ReadyToRun
  <2> QED BY <2>2, <2>3, <1>6, Zenon
<1> QED BY <1>1, <1>4, <1>5, <1>7, <1>8, <1>9, <1>10, <1>11, <1>12, <1>13, Frame, Zenon

-----------------------------------------------------------------------------
(* What stops tasks: CancelTask and PauseTask, and the end of the manager. *)

\* A cancel or a pause takes a waiting task out of the line: it becomes the owner of
\* the ID until it has forgotten it.
LEMMA StopDequeues ==
    ASSUME RunInv, SlotInv, NEW c \in Callers, StopDequeue(c)
    PROVE  RunInv'
<1>1. UNCHANGED <<phase, daemonOver, active>> /\ call[c].op \in {"cancel", "pause"} /\ call[c].pc = "dequeue"
  BY Zenon DEF StopDequeue, At
<1>2. CallsTyped /\ ~Submitting(c) /\ ~Forgetting(c) /\ Id(c) \in IDs
  BY <1>1, CallFacts, Zenon DEF RunInv, Forgetting, At, Submitting
<1>3. go \in [Tasks -> GoStates] /\ slot \in [Tasks -> SlotStates] /\ daemonOver' \in BOOLEAN
  BY <1>1, Zenon DEF RunInv, ReadyToRun, SlotInv, SlotTypeOK
<1>4. CASE To(c, "cancel") /\ UNCHANGED <<slots, go>>
  <2>1. /\ CallsTyped'
        /\ \A d \in Callers : d # c => call'[d] = call[d]
        /\ call'[c].op = call[c].op /\ call'[c].pc = "cancel"
        /\ \A d \in Callers : Id(d)' = Id(d) /\ Obj(d)' = Obj(d)
    BY <1>1, <1>2, <1>4, ToStep, Zenon
  <2>2. ~Submitting(c)' /\ ~Forgetting(c)' BY <2>1, <1>1, Zenon DEF Submitting, Forgetting, At
  <2>3. slot' = slot /\ go' = go BY <1>4, Zenon DEF slots, slotVars
  <2> QED BY <2>1, <2>2, <2>3, <1>1, <1>2, CallFrame, Zenon
<1>5. CASE \E t \in Tasks : /\ IdOf[t] = Id(c) /\ slot[t] = "queued" /\ Dequeue(t)
                            /\ go' = [go EXCEPT ![t] = "idle"] /\ To(c, "forget")
  <2>1. PICK t \in Tasks : /\ IdOf[t] = Id(c) /\ slot[t] = "queued" /\ Dequeue(t)
                           /\ go' = [go EXCEPT ![t] = "idle"] /\ To(c, "forget")
    BY <1>5, Zenon
  <2>2. /\ CallsTyped'
        /\ \A d \in Callers : d # c => call'[d] = call[d]
        /\ call'[c].op = call[c].op /\ call'[c].pc = "forget"
        /\ \A d \in Callers : Id(d)' = Id(d) /\ Obj(d)' = Obj(d)
    BY <1>1, <1>2, <2>1, ToStep, Zenon
  <2>3. /\ ~Submitting(c)' /\ Forgetting(c)'
        /\ \A d \in Callers : d # c => (Submitting(d)' <=> Submitting(d)) /\ (Forgetting(d)' <=> Forgetting(d))
    BY <2>2, <1>1, Zenon DEF Submitting, Forgetting, At
  <2>4. go[t] = "ready" /\ Live(t) BY <2>1, Zenon DEF RunInv, ReadyToRun, Live
  <2>5. /\ go' \in [Tasks -> GoStates] /\ go'[t] = "idle" /\ slot'[t] = "out"
        /\ \A u \in Tasks : u # t => go'[u] = go[u] /\ slot'[u] = slot[u]
    BY <2>1, <1>3, Zenon DEF Dequeue, GoStates
  <2>6. \A d \in Callers : Submitting(d) => Obj(d) \in Tasks /\ Obj(d) # t BY <2>1, SubmittingFacts, Zenon
  <2>7. ReadyToRun'
    <3>1. \A u \in Tasks : slot'[u] \in {"queued", "dropped"} => go'[u] = "ready"
      BY <2>5, Zenon DEF RunInv, ReadyToRun
    <3>2. \A u \in Tasks : go'[u] \in {"idle", "drained", "untrack"} => slot'[u] = "out"
      BY <2>5, Zenon DEF RunInv, ReadyToRun
    <3>3. \A d \in Callers : Submitting(d)' =>
              go'[Obj(d)'] = "ready" /\ slot'[Obj(d)'] = "out" /\ IdOf[Obj(d)'] = Id(d)'
      BY <2>2, <2>3, <2>5, <2>6, SMTT(20) DEF RunInv, ReadyToRun
    <3>4. \A d, e \in Callers : d # e /\ Submitting(d)' /\ Submitting(e)' => Obj(d)' # Obj(e)'
      BY <2>2, <2>3 DEF RunInv, ReadyToRun
    <3> QED BY <2>5, <3>1, <3>2, <3>3, <3>4, Zenon DEF ReadyToRun
  <2>8. ASSUME phase # "down" PROVE Owned'
    <3> DEFINE LiveNext(u) == go'[u] \notin {"idle", "release", "hand", "untrack"}
    <3>1. Owned /\ active' = active BY <2>8, <1>1, Zenon DEF RunInv
    <3>2. active[Id(c)] = t /\ \A u \in Tasks : Live(u) /\ IdOf[u] = Id(c) => u = t
      BY <3>1, <2>1, <2>4, Zenon DEF Owned
    <3>3. ~LiveNext(t) /\ \A u \in Tasks : u # t => (LiveNext(u) <=> Live(u)) BY <2>5, Zenon DEF Live
    <3>4. \A d \in Callers : Forgetting(d) => Id(d) # Id(c) BY <3>1, <2>1, <2>4, Zenon DEF Owned
    <3>5. \A u \in Tasks : LiveNext(u) => active'[IdOf[u]] = u BY <3>1, <3>3, Zenon DEF Owned
    <3>6. \A id \in IDs : active'[id] # NoTask =>
              LiveNext(active'[id]) \/ \E d \in Callers : Forgetting(d)' /\ Id(d)' = id
      <4> SUFFICES ASSUME NEW id \in IDs, active'[id] # NoTask
                   PROVE  LiveNext(active'[id]) \/ \E d \in Callers : Forgetting(d)' /\ Id(d)' = id
        BY Zenon
      <4>1. CASE id = Id(c) BY <4>1, <2>2, <2>3, Zenon
      <4>2. CASE id # Id(c)
        <5>1. active'[id] = active[id] /\ active[id] \in Tasks /\ active[id] # t
          BY <4>2, <2>1, <3>1, Zenon DEF RunInv
        <5>2. CASE Live(active[id]) BY <5>1, <5>2, <3>3, Zenon
        <5>3. CASE \E d \in Callers : Forgetting(d) /\ Id(d) = id
          BY <5>3, <1>2, <2>2, <2>3, Zenon
        <5> QED BY <5>1, <5>2, <5>3, <3>1, Zenon DEF Owned
      <4> QED BY <4>1, <4>2, Zenon
    <3>7. \A d \in Callers : Forgetting(d)' =>
              active'[Id(d)'] # NoTask /\ \A u \in Tasks : IdOf[u] = Id(d)' => ~LiveNext(u)
      <4> SUFFICES ASSUME NEW d \in Callers, Forgetting(d)'
                   PROVE  active'[Id(d)'] # NoTask /\ \A u \in Tasks : IdOf[u] = Id(d)' => ~LiveNext(u)
        BY Zenon
      <4>1. CASE d = c
        <5>1. t # NoTask BY ManagerAssumption, Zenon
        <5> QED BY <4>1, <5>1, <2>2, <3>1, <3>2, <3>3, Zenon
      <4>2. CASE d # c
        <5>1. Forgetting(d) /\ Id(d)' = Id(d) BY <4>2, <2>2, <2>3, Zenon
        <5>2. active[Id(d)] # NoTask /\ \A u \in Tasks : IdOf[u] = Id(d) => ~Live(u)
          BY <5>1, <3>1, Zenon DEF Owned
        <5>3. \A u \in Tasks : IdOf[u] = Id(d) => ~LiveNext(u) BY <5>2, <3>3, Zenon
        <5> QED BY <5>1, <5>2, <5>3, <3>1, Zenon
      <4> QED BY <4>1, <4>2, Zenon
    <3>8. \A d, e \in Callers : d # e /\ Forgetting(d)' /\ Forgetting(e)' => Id(d)' # Id(e)'
      <4> SUFFICES ASSUME NEW d \in Callers, NEW e \in Callers, d # e, Forgetting(d)', Forgetting(e)'
                   PROVE  Id(d)' # Id(e)'
        BY Zenon
      <4>1. Id(d)' = Id(d) /\ Id(e)' = Id(e) BY <2>2, Zenon
      <4>2. CASE d = c BY <4>1, <4>2, <3>4, <2>3, Zenon
      <4>3. CASE e = c BY <4>1, <4>3, <3>4, <2>3, Zenon
      <4>4. CASE d # c /\ e # c
        <5>1. Forgetting(d) /\ Forgetting(e) BY <4>4, <2>3, Zenon
        <5> QED BY <5>1, <4>1, <3>1, Zenon DEF Owned
      <4> QED BY <4>2, <4>3, <4>4, Zenon
    <3> QED BY <3>5, <3>6, <3>7, <3>8, Zenon DEF Owned, Live
  <2> QED BY <1>1, <2>2, <2>7, <2>8, Zenon DEF RunInv
<1> QED BY <1>4, <1>5, Zenon DEF StopDequeue

\* ... and it lets go of the ID when it has.
LEMMA StopForgets ==
    ASSUME RunInv, NEW c \in Callers, StopForget(c)
    PROVE  RunInv'
<1>1. /\ UNCHANGED <<phase, daemonOver, go, slot>> /\ To(c, "untrack")
      /\ active' = [active EXCEPT ![Id(c)] = NoTask]
      /\ call[c].op \in {"cancel", "pause"} /\ call[c].pc = "forget"
  BY Zenon DEF StopForget, At, slots, slotVars
<1>2. CallsTyped /\ Forgetting(c) /\ Id(c) \in IDs BY <1>1, CallFacts, Zenon DEF RunInv, Forgetting, At
<1>3. /\ CallsTyped'
      /\ \A d \in Callers : d # c => call'[d] = call[d]
      /\ call'[c].op = call[c].op /\ call'[c].pc = "untrack"
      /\ \A d \in Callers : Id(d)' = Id(d) /\ Obj(d)' = Obj(d)
  BY <1>1, <1>2, ToStep, Zenon
<1>4. /\ \A d \in Callers : Submitting(d)' <=> Submitting(d)
      /\ \A d \in Callers : Forgetting(d)' <=> Forgetting(d) /\ d # c
  BY <1>1, <1>3, Zenon DEF Submitting, Forgetting, At
<1>5. ReadyToRun'
  <2>1. ReadyToRun BY Zenon DEF RunInv
  <2>2. \A d \in Callers : Submitting(d)' =>
            go'[Obj(d)'] = "ready" /\ slot'[Obj(d)'] = "out" /\ IdOf[Obj(d)'] = Id(d)'
    BY <2>1, <1>1, <1>3, <1>4, SMTT(20) DEF ReadyToRun
  <2>3. \A d, e \in Callers : d # e /\ Submitting(d)' /\ Submitting(e)' => Obj(d)' # Obj(e)'
    BY <2>1, <1>3, <1>4 DEF ReadyToRun
  <2> QED BY <2>1, <2>2, <2>3, <1>1, Zenon DEF ReadyToRun
<1>6. /\ active' \in [IDs -> Tasks \cup {NoTask}] /\ active'[Id(c)] = NoTask
      /\ \A id \in IDs : id # Id(c) => active'[id] = active[id]
  BY <1>1, <1>2, Zenon DEF RunInv
<1>7. \A id \in IDs : active'[id] # NoTask => IdOf[active'[id]] = id BY <1>6, Zenon DEF RunInv
<1>8. ASSUME phase # "down" PROVE Owned'
  <2>1. Owned BY <1>8, Zenon DEF RunInv
  <2>2. \A u \in Tasks : Live(u) => active'[IdOf[u]] = u
    BY <2>1, <1>2, <1>6, ManagerAssumption, Zenon DEF Owned
  <2>3. \A id \in IDs : active'[id] # NoTask =>
            Live(active'[id]) \/ \E d \in Callers : Forgetting(d)' /\ Id(d)' = id
    <3> SUFFICES ASSUME NEW id \in IDs, active'[id] # NoTask, ~Live(active'[id])
                 PROVE  \E d \in Callers : Forgetting(d)' /\ Id(d)' = id
      BY Zenon
    <3>1. id # Id(c) /\ active'[id] = active[id] BY <1>6, Zenon
    <3>2. PICK d \in Callers : Forgetting(d) /\ Id(d) = id BY <3>1, <2>1, Zenon DEF Owned
    <3> QED BY <3>1, <3>2, <1>3, <1>4, Zenon
  <2>4. \A d \in Callers : Forgetting(d)' => Id(d) \in IDs /\ Id(d) # Id(c)
    <3> SUFFICES ASSUME NEW d \in Callers, Forgetting(d)'
                 PROVE  Id(d) \in IDs /\ Id(d) # Id(c)
      BY Zenon
    <3>1. Forgetting(d) /\ d # c BY <1>4, Zenon
    <3>2. Id(d) # Id(c) BY <3>1, <1>2, <2>1, Zenon DEF Owned
    <3> QED BY <3>1, <3>2, <1>2, CallFacts, Zenon DEF Forgetting, At
  <2>5. \A d \in Callers : Forgetting(d)' =>
            active'[Id(d)'] # NoTask /\ \A u \in Tasks : IdOf[u] = Id(d)' => ~Live(u)
    <3> SUFFICES ASSUME NEW d \in Callers, Forgetting(d)'
                 PROVE  active'[Id(d)'] # NoTask /\ \A u \in Tasks : IdOf[u] = Id(d)' => ~Live(u)
      BY Zenon
    <3>1. Forgetting(d) /\ Id(d)' = Id(d) BY <1>3, <1>4, Zenon
    <3>2. active[Id(d)] # NoTask /\ \A u \in Tasks : IdOf[u] = Id(d) => ~Live(u)
      BY <3>1, <2>1, Zenon DEF Owned
    <3>3. active'[Id(d)] = active[Id(d)] BY <2>4, <1>6, Zenon
    <3> QED BY <3>1, <3>2, <3>3, Zenon
  <2>6. \A d, e \in Callers : d # e /\ Forgetting(d)' /\ Forgetting(e)' => Id(d)' # Id(e)'
    BY <2>1, <1>3, <1>4 DEF Owned
  <2> QED BY <2>2, <2>3, <2>5, <2>6, <1>1, Zenon DEF Owned, Live
<1> QED BY <1>1, <1>3, <1>5, <1>6, <1>7, <1>8, Zenon DEF RunInv

\* Shutdown empties the line: its tasks are about to be forgotten.
LEMMA ShutdownDrains ==
    ASSUME RunInv, SlotInv, ShutdownDrain
    PROVE  RunInv'
<1>1. /\ phase = "drain" /\ UNCHANGED <<call, active, daemonOver>>
      /\ go' = [t \in Tasks |-> IF slot[t] = "queued" THEN "drained" ELSE go[t]]
      /\ slot' = [t \in Tasks |-> IF slot[t] = "queued" THEN "out" ELSE slot[t]]
  BY Zenon DEF ShutdownDrain, DrainQueue
<1>2. CallsTyped' BY <1>1, Zenon DEF RunInv, CallsTyped, Id, Obj
<1>3. \A c \in Callers : (Submitting(c)' <=> Submitting(c)) /\ (Forgetting(c)' <=> Forgetting(c))
                         /\ Id(c)' = Id(c) /\ Obj(c)' = Obj(c)
  BY <1>1, Zenon DEF Submitting, Forgetting, At, Id, Obj
<1>4. \A t \in Tasks : slot[t] = "queued" => go[t] = "ready" BY Zenon DEF RunInv, ReadyToRun
<1>5. go' \in [Tasks -> GoStates] BY <1>1, Zenon DEF RunInv, ReadyToRun, GoStates
<1>6. \A c \in Callers : Submitting(c) => Obj(c) \in Tasks /\ slot[Obj(c)] # "queued" BY SubmittingFacts, Zenon
<1>7. ReadyToRun'
  <2>1. \A u \in Tasks : slot'[u] \in {"queued", "dropped"} => go'[u] = "ready"
    BY <1>1, Zenon DEF RunInv, ReadyToRun
  <2>2. \A u \in Tasks : go'[u] \in {"idle", "drained", "untrack"} => slot'[u] = "out"
    BY <1>1, Zenon DEF RunInv, ReadyToRun
  <2>3. \A c \in Callers : Submitting(c)' =>
            go'[Obj(c)'] = "ready" /\ slot'[Obj(c)'] = "out" /\ IdOf[Obj(c)'] = Id(c)'
    BY <1>1, <1>3, <1>6, Zenon DEF RunInv, ReadyToRun
  <2>4. \A d, e \in Callers : d # e /\ Submitting(d)' /\ Submitting(e)' => Obj(d)' # Obj(e)'
    BY <1>3 DEF RunInv, ReadyToRun
  <2> QED BY <1>5, <2>1, <2>2, <2>3, <2>4, Zenon DEF ReadyToRun
<1>8. \A u \in Tasks : Live(u)' <=> Live(u) BY <1>1, <1>4, Zenon DEF Live
<1>9. Owned'
  <2>1. Owned BY <1>1, Zenon DEF RunInv
  <2>2. \A id \in IDs : active[id] # NoTask => active[id] \in Tasks BY Zenon DEF RunInv
  <2> QED BY <2>1, <2>2, <1>1, <1>3, <1>8, SMTT(20) DEF Owned
<1>10. daemonOver' \in BOOLEAN BY <1>1, Zenon DEF RunInv
<1> QED BY <1>1, <1>2, <1>7, <1>9, <1>10, Zenon DEF RunInv

\* The other steps of a shutdown, and the end of the process.
LEMMA ShutdownRest ==
    ASSUME RunInv, SlotInv, ShutdownFlag \/ ShutdownCancel \/ ShutdownDone \/ RunFails \/ ProcessRestart
    PROVE  RunInv'
<1>1. CASE ShutdownFlag \/ ShutdownCancel
  <2>1. UNCHANGED <<call, active, daemonOver, go, slot>> /\ phase # "down"
    BY <1>1, Zenon DEF ShutdownFlag, ShutdownCancel, FlagShutdown, EndContexts
  <2>2. CallsTyped' BY <2>1, Zenon DEF RunInv, CallsTyped, Id, Obj
  <2>3. ReadyToRun' BY <2>1, Zenon DEF RunInv, ReadyToRun, Submitting, Id, Obj
  <2>4. Owned' BY <2>1 DEF RunInv, Owned, Forgetting, At, Id, Live
  <2>5. daemonOver' \in BOOLEAN BY <2>1, Zenon DEF RunInv
  <2> QED BY <2>1, <2>2, <2>3, <2>4, <2>5, Zenon DEF RunInv
<1>2. CASE ShutdownDone
  <2>1. UNCHANGED <<call, daemonOver, go, slot>> /\ phase' = "down" /\ active' = [id \in IDs |-> NoTask]
    BY <1>2, Zenon DEF ShutdownDone, slots, slotVars
  <2>2. CallsTyped' BY <2>1, Zenon DEF RunInv, CallsTyped, Id, Obj
  <2>3. ReadyToRun' BY <2>1, Zenon DEF RunInv, ReadyToRun, Submitting, Id, Obj
  <2>4. daemonOver' \in BOOLEAN BY <2>1, Zenon DEF RunInv
  <2> QED BY <2>1, <2>2, <2>3, <2>4, Zenon DEF RunInv
<1>3. CASE RunFails
  <2>1. UNCHANGED <<call, active, phase, go, slot>> /\ daemonOver' \in BOOLEAN
    BY <1>3, Zenon DEF RunFails, EndContexts
  <2>2. \A t \in Tasks : Live(t)' <=> Live(t) BY <2>1, Zenon DEF Live
  <2>3. /\ go' \in [Tasks -> GoStates]
        /\ \A t \in Tasks : slot'[t] \in {"queued", "dropped"} => go'[t] = "ready"
        /\ \A t \in Tasks : go'[t] \in {"idle", "drained", "untrack"} => slot'[t] = "out"
        /\ \A t \in Tasks : go[t] = "ready" /\ slot[t] = "out" => go'[t] = "ready" /\ slot'[t] = "out"
    BY <2>1, Zenon DEF RunInv, ReadyToRun
  <2> QED BY <2>1, <2>2, <2>3, GoFrame, Zenon
<1>4. CASE ProcessRestart
  <2>1. /\ call' = [c \in Callers |-> Idle] /\ active' = [id \in IDs |-> NoTask]
        /\ go' = [t \in Tasks |-> "idle"] /\ slot' = [t \in Tasks |-> "out"]
    BY <1>4, Zenon DEF ProcessRestart, Restart
  <2>2. daemonOver' \in BOOLEAN BY <1>4, Zenon DEF ProcessRestart
  <2>3. \A c \in Callers : call'[c].pc = "idle" /\ call'[c].op = "none" BY <2>1, IdleType, Zenon
  <2>4. CallsTyped' BY <2>1, <2>3, IdleType, Zenon DEF CallsTyped
  <2>5. ReadyToRun' BY <2>1, <2>3, Zenon DEF ReadyToRun, GoStates, Submitting
  <2>6. Owned' BY <2>1, <2>3, ManagerAssumption, Zenon DEF Owned, Live, Forgetting, At
  <2> QED BY <2>1, <2>2, <2>4, <2>5, <2>6, Zenon DEF RunInv
<1> QED BY <1>1, <1>2, <1>3, <1>4, Zenon

-----------------------------------------------------------------------------
(* All of them, and the slots. *)

\* Every step of a call is a step of the slots, or leaves them alone.
LEMMA CallStepSlots ==
    ASSUME CallsTyped, daemonOver \in BOOLEAN, NEW c \in Callers, CallStep(c)
    PROVE  [SlotNext]_slotVars
<1>1. CASE SubmitInsert(c)
  <2>1. CASE active[Id(c)] # NoTask BY <1>1, <2>1, Zenon DEF SubmitInsert, slots
  <2>2. CASE active[Id(c)] = NoTask
    <3>1. PICK t \in Tasks : NewTask(t, daemonOver) BY <1>1, <2>2, Zenon DEF SubmitInsert
    <3> QED BY <3>1, Zenon DEF SlotNext
  <2> QED BY <2>1, <2>2, Zenon
<1>2. CASE SubmitClear(c) \/ SubmitStore(c) \/ SubmitTrack(c) \/ StopMark(c) \/ Settle(c) \/ StopForget(c)
           \/ StopUntrack(c) \/ StopStatus(c) \/ DropUnmark(c)
  BY <1>2, Zenon DEF SubmitClear, SubmitStore, SubmitTrack, StopMark, Settle, StopForget, StopUntrack, StopStatus,
                     DropUnmark, slots
<1>3. CASE SubmitStart(c)
  <2>1. Obj(c) \in Tasks BY <1>3, CallFacts, Zenon DEF SubmitStart, At
  <2>2. CASE UNCHANGED slots BY <2>2, Zenon DEF slots
  <2>3. CASE Enqueue(Obj(c)) BY <2>1, <2>3, Zenon DEF SlotNext
  <2> QED BY <1>3, <2>2, <2>3, Zenon DEF SubmitStart
<1>4. CASE SubmitDispatch(c)
  <2>1. Obj(c) \in Tasks BY <1>4, CallFacts, Zenon DEF SubmitDispatch, At
  <2>2. EnqueueDispatch(Obj(c)) BY <1>4, Zenon DEF SubmitDispatch
  <2> QED BY <2>1, <2>2, Zenon DEF SlotNext
<1>5. CASE StopDequeue(c)
  <2>1. CASE \E t \in Tasks : Dequeue(t) BY <2>1, Zenon DEF SlotNext
  <2>2. CASE UNCHANGED slots BY <2>2, Zenon DEF slots
  <2> QED BY <1>5, <2>1, <2>2, Zenon DEF StopDequeue
<1>6. CASE StopCancel(c)
  <2>1. Obj(c) \in Tasks BY <1>6, CallFacts, Zenon DEF StopCancel, At
  <2>2. EndContexts({Obj(c)}) BY <1>6, Zenon DEF StopCancel
  <2>3. {Obj(c)} \in SUBSET Tasks BY <2>1, Zenon
  <2> QED BY <2>2, <2>3, Zenon DEF SlotNext
<1> QED BY <1>1, <1>2, <1>3, <1>4, <1>5, <1>6, Zenon DEF CallStep

\* So is every step of a task's goroutine.
LEMMA GoStepSlots ==
    ASSUME NEW t \in Tasks, GoStep(t)
    PROVE  [SlotNext]_slotVars
<1>1. CASE Begin(t) \/ Advance(t) \/ Complete(t) \/ PauseForVPN(t) \/ RecordCheck(t)
           \/ RecordDrop(t) \/ ReportFinal(t) \/ Forget(t) \/ \E storage \in BOOLEAN : Fail(t, storage)
           \/ DrainForget(t) \/ GoUntrack(t)
  BY <1>1, Zenon DEF Begin, Advance, Complete, PauseForVPN, RecordCheck, RecordDrop, ReportFinal,
              Forget, Fail, DrainForget, GoUntrack, slots
<1>2. CASE Stall(t) BY <1>2, Zenon DEF Stall, SlotNext
<1>3. CASE GoRelease(t)
  <2>1. CASE EndContexts({t})
    <3>1. {t} \in SUBSET Tasks BY Zenon
    <3> QED BY <2>1, <3>1, Zenon DEF SlotNext
  <2>2. CASE Release(t) BY <2>2, Zenon DEF SlotNext
  <2> QED BY <1>3, <2>1, <2>2, Zenon DEF GoRelease
<1>4. CASE GoHandOn(t) BY <1>4, Zenon DEF GoHandOn, SlotNext
<1>5. CASE DispatchForget(t) BY <1>5, Zenon DEF DispatchForget, SlotNext
<1> QED BY <1>1, <1>2, <1>3, <1>4, <1>5, Zenon DEF GoStep

\* And so is every step of the manager.
LEMMA StepSlots ==
    ASSUME CallsTyped, daemonOver \in BOOLEAN, [Next]_vars
    PROVE  [SlotNext]_slotVars
<1>1. CASE UNCHANGED vars BY <1>1, Zenon DEF vars
<1>2. ASSUME NEW c \in Callers, NEW id \in IDs,
             \/ \E force \in BOOLEAN : Submit(c, id, force)
             \/ CancelTask(c, id) \/ PauseTask(c, id) \/ DropResume(c, id)
      PROVE  [SlotNext]_slotVars
  BY <1>2, Zenon DEF Submit, CancelTask, PauseTask, Stop, DropResume, slots
<1>3. ASSUME NEW c \in Callers, BootSubmit(c) PROVE [SlotNext]_slotVars
  BY <1>3, Zenon DEF BootSubmit, slots
<1>4. ASSUME NEW c \in Callers, CallStep(c) PROVE [SlotNext]_slotVars
  BY <1>4, CallStepSlots, Zenon
<1>5. ASSUME NEW t \in Tasks, GoStep(t) PROVE [SlotNext]_slotVars
  BY <1>5, GoStepSlots, Zenon
<1>6. ASSUME NEW id \in IDs, CooldownExpires(id) PROVE [SlotNext]_slotVars
  BY <1>6, Zenon DEF CooldownExpires, slots
<1>7. CASE ShutdownStep
  <2>1. CASE ShutdownFlag BY <2>1, Zenon DEF ShutdownFlag, SlotNext
  <2>2. CASE ShutdownDrain BY <2>2, Zenon DEF ShutdownDrain, SlotNext
  <2>3. CASE ShutdownCancel
    <3>1. {t \in Tasks : active[IdOf[t]] = t} \in SUBSET Tasks BY Zenon
    <3> QED BY <2>3, <3>1, Zenon DEF ShutdownCancel, SlotNext
  <2>4. CASE ShutdownDone BY <2>4, Zenon DEF ShutdownDone, slots
  <2> QED BY <1>7, <2>1, <2>2, <2>3, <2>4, Zenon DEF ShutdownStep
<1>8. CASE RunFails
  <2>1. Tasks \in SUBSET Tasks BY Zenon
  <2> QED BY <1>8, <2>1, Zenon DEF RunFails, SlotNext
<1>9. CASE ProcessRestart BY <1>9, Zenon DEF ProcessRestart, SlotNext
<1> QED BY <1>1, <1>2, <1>3, <1>4, <1>5, <1>6, <1>7, <1>8, <1>9, Zenon DEF Next

\* The start-up resume only submits known IDs.
LEMMA BootStep ==
    ASSUME boot \subseteq IDs, [Next]_vars
    PROVE  boot' \subseteq IDs
<1>1. ASSUME NEW c \in Callers, NEW id \in IDs,
             \/ \E force \in BOOLEAN : Submit(c, id, force)
             \/ CancelTask(c, id) \/ PauseTask(c, id) \/ DropResume(c, id)
      PROVE  boot' = boot
  BY <1>1, Zenon DEF Submit, CancelTask, PauseTask, Stop, DropResume
<1>2. ASSUME NEW c \in Callers, BootSubmit(c) PROVE boot' \subseteq boot BY <1>2, Zenon DEF BootSubmit
<1>3. ASSUME NEW c \in Callers, CallStep(c) PROVE boot' = boot
  <2>1. CASE SubmitInsert(c) \/ SubmitClear(c) \/ SubmitStore(c) \/ SubmitTrack(c) \/ SubmitStart(c)
             \/ SubmitDispatch(c) \/ DropUnmark(c)
    BY <2>1, Zenon DEF SubmitInsert, SubmitClear, SubmitStore, SubmitTrack, SubmitStart, SubmitDispatch, DropUnmark
  <2>2. CASE StopMark(c) \/ Settle(c) \/ StopDequeue(c) \/ StopForget(c) \/ StopUntrack(c) \/ StopCancel(c)
             \/ StopStatus(c)
    BY <2>2, Zenon DEF StopMark, Settle, StopDequeue, StopForget, StopUntrack, StopCancel, StopStatus
  <2> QED BY <1>3, <2>1, <2>2, Zenon DEF CallStep
<1>4. ASSUME NEW t \in Tasks, GoStep(t) PROVE boot' = boot
  BY <1>4, Zenon DEF GoStep, Begin, Advance, Stall, Complete, PauseForVPN, Fail, RecordCheck, RecordDrop,
              ReportFinal, Forget, GoRelease, GoHandOn, DispatchForget, DrainForget, GoUntrack, volatile
<1>5. ASSUME NEW id \in IDs, CooldownExpires(id) PROVE boot' = boot BY <1>5, Zenon DEF CooldownExpires
<1>6. CASE ShutdownStep \/ RunFails
  BY <1>6, Zenon DEF ShutdownStep, ShutdownFlag, ShutdownDrain, ShutdownCancel, ShutdownDone, RunFails
<1>7. CASE ProcessRestart BY <1>7, Zenon DEF ProcessRestart
<1>8. CASE UNCHANGED vars BY <1>8, Zenon DEF vars, volatile
<1> QED BY <1>1, <1>2, <1>3, <1>4, <1>5, <1>6, <1>7, <1>8, Zenon DEF Next

-----------------------------------------------------------------------------
\* Every step of the manager preserves the ownership of the IDs.
LEMMA RunStep ==
    ASSUME SlotInv, RunInv, boot \subseteq IDs, [Next]_vars
    PROVE  RunInv'
<1>1. CASE UNCHANGED vars
  <2>1. UNCHANGED <<call, active, phase, daemonOver, go, slot>> BY <1>1, Zenon DEF vars, volatile, slotVars
  <2>2. CallsTyped' BY <2>1, Zenon DEF RunInv, CallsTyped, Id, Obj
  <2>3. ReadyToRun' BY <2>1, Zenon DEF RunInv, ReadyToRun, Submitting, Id, Obj
  <2>4. phase' # "down" => Owned' BY <2>1 DEF RunInv, Owned, Forgetting, At, Id, Live
  <2>5. daemonOver' \in BOOLEAN BY <2>1, Zenon DEF RunInv
  <2> QED BY <2>1, <2>2, <2>3, <2>4, <2>5, Zenon DEF RunInv
<1>2. ASSUME NEW c \in Callers, NEW id \in IDs,
             \/ \E force \in BOOLEAN : Submit(c, id, force)
             \/ CancelTask(c, id) \/ PauseTask(c, id) \/ DropResume(c, id)
      PROVE  RunInv'
  BY <1>2, CallBegins, Zenon
<1>3. ASSUME NEW c \in Callers, BootSubmit(c) PROVE RunInv' BY <1>3, CallBegins, Zenon
<1>4. ASSUME NEW c \in Callers, CallStep(c) PROVE RunInv'
  BY <1>4, CallMoves, CallReturns, SubmitInserts, SubmitStarts, StopDequeues, StopForgets, Zenon DEF CallStep
<1>5. ASSUME NEW t \in Tasks, GoStep(t) PROVE RunInv' BY <1>5, GoWorks, GoStalls, GoEnds, Zenon DEF GoStep
<1>6. ASSUME NEW id \in IDs, CooldownExpires(id) PROVE RunInv'
  <2>1. UNCHANGED <<call, active, phase, daemonOver, go, slot>>
    BY <1>6, Zenon DEF CooldownExpires, slots, slotVars
  <2>2. CallsTyped' BY <2>1, Zenon DEF RunInv, CallsTyped, Id, Obj
  <2>3. ReadyToRun' BY <2>1, Zenon DEF RunInv, ReadyToRun, Submitting, Id, Obj
  <2>4. phase' # "down" => Owned' BY <2>1 DEF RunInv, Owned, Forgetting, At, Id, Live
  <2>5. daemonOver' \in BOOLEAN BY <2>1, Zenon DEF RunInv
  <2> QED BY <2>1, <2>2, <2>3, <2>4, <2>5, Zenon DEF RunInv
<1>7. CASE ShutdownStep \/ RunFails \/ ProcessRestart
  BY <1>7, ShutdownDrains, ShutdownRest, Zenon DEF ShutdownStep
<1> QED BY <1>1, <1>2, <1>3, <1>4, <1>5, <1>6, <1>7, Zenon DEF Next

-----------------------------------------------------------------------------
(* What a step of a call leaves to the other calls. *)

\* A step of one call is none of another.
LEMMA OthersStay ==
    ASSUME CallsTyped, NEW c \in Callers, CallStep(c)
    PROVE  \A d \in Callers : d # c => call'[d] = call[d]
<1>0. call \in [Callers -> CallType] BY Zenon DEF CallsTyped
<1>1. CASE SubmitInsert(c)
  <2>1. Return(c) \/ \E t \in Tasks : call' = [call EXCEPT ![c].pc = "clear", ![c].task = t]
    BY <1>1, Zenon DEF SubmitInsert
  <2> QED BY <1>0, <2>1, Zenon DEF Return
<1>2. CASE ~SubmitInsert(c)
  <2>1. Return(c) \/ \E p \in {"store", "track", "start", "dispatch", "settle", "dequeue", "forget", "untrack",
                               "cancel", "status"} : To(c, p)
    BY <1>2, ZenonT(30) DEF CallStep, SubmitClear, SubmitStore, SubmitTrack, SubmitStart, SubmitDispatch, StopMark, Settle,
                       StopDequeue, StopForget, StopUntrack, StopCancel, StopStatus, DropUnmark
  <2> QED BY <1>0, <2>1, Zenon DEF Return, To
<1> QED BY <1>1, <1>2, Zenon

-----------------------------------------------------------------------------
(* The reporter. *)

\* Once a run is about to take its ID out of active, the reporter has let go of it.
TrackInv ==
    /\ tracked \subseteq IDs
    /\ phase # "up" => shuttingDown
    /\ TrackedIsActive
    /\ ~shuttingDown => \A t \in Tasks : go[t] = "forget" => IdOf[t] \notin tracked

\* Whoever is about to tell the reporter still is.
LEMMA UntrackingStays ==
    ASSUME \A d \in Callers : At(d, {"cancel", "pause"}, "untrack") => call'[d] = call[d],
           \A t \in Tasks : go[t] = "untrack" => go'[t] = "untrack"
    PROVE  \A id \in IDs : Untracking(id) => Untracking(id)'
BY Zenon DEF Untracking, At, Id

\* A step that touches neither active nor the reporter, and brings no run to its end
\* unless the manager shuts down.
LEMMA TrackFrame ==
    ASSUME TrackInv, UNCHANGED <<active, tracked, phase, shuttingDown>>,
           \A d \in Callers : At(d, {"cancel", "pause"}, "untrack") => call'[d] = call[d],
           \A t \in Tasks : go[t] = "untrack" => go'[t] = "untrack",
           \A t \in Tasks : go'[t] = "forget" => go[t] = "forget" \/ shuttingDown
    PROVE  TrackInv'
<1>1. \A id \in IDs : Untracking(id) => Untracking(id)' BY UntrackingStays, Zenon
<1> QED BY <1>1, Zenon DEF TrackInv, TrackedIsActive

\* The calls and the reporter.
LEMMA CallTracks ==
    ASSUME RunInv, TrackInv, NEW c \in Callers, CallStep(c)
    PROVE  TrackInv'
<1>0. go \in [Tasks -> GoStates] /\ active \in [IDs -> Tasks \cup {NoTask}] BY Zenon DEF RunInv, ReadyToRun
<1>a. \A d \in Callers : d # c => call'[d] = call[d] BY OthersStay, Zenon DEF RunInv
<1>b. CASE StopUntrack(c)
  <2>1. /\ UNCHANGED <<active, phase, shuttingDown, go>> /\ tracked' = tracked \ {Id(c)}
    BY <1>b, Zenon DEF StopUntrack, slots, slotVars
  <2>2. ASSUME NEW id \in IDs, id # Id(c), Untracking(id) PROVE Untracking(id)'
    BY <1>a, <2>1, <2>2, Zenon DEF Untracking, At, Id
  <2> QED BY <2>1, <2>2, Zenon DEF TrackInv, TrackedIsActive
<1>c. CASE ~StopUntrack(c)
  <2>a. \A d \in Callers : At(d, {"cancel", "pause"}, "untrack") => call'[d] = call[d]
    <3>1. ~At(c, {"cancel", "pause"}, "untrack")
      BY <1>c DEF CallStep, SubmitInsert, SubmitClear, SubmitStore, SubmitTrack, SubmitStart, SubmitDispatch, StopMark,
                  Settle, StopDequeue, StopForget, StopCancel, StopStatus, DropUnmark, At
    <3> QED BY <1>a, <3>1, Zenon
  <2>1. CASE SubmitClear(c) \/ SubmitStore(c) \/ StopMark(c) \/ Settle(c) \/ StopCancel(c) \/ StopStatus(c)
             \/ SubmitDispatch(c) \/ DropUnmark(c)
    <3>1. UNCHANGED <<active, tracked, phase, shuttingDown, go>>
      BY <2>1, Zenon DEF SubmitClear, SubmitStore, StopMark, Settle, StopCancel, StopStatus, SubmitDispatch, DropUnmark,
                         slots, slotVars, EndContexts, EnqueueDispatch
    <3> QED BY <2>a, <3>1, TrackFrame, Zenon
  <2>2. CASE SubmitStart(c)
    <3>1. UNCHANGED <<active, tracked, phase, shuttingDown>>
      BY <2>2, Zenon DEF SubmitStart, slots, slotVars, Enqueue
    <3>2. go' = go \/ (go' = [go EXCEPT ![Obj(c)] = "spawned"] /\ go[Obj(c)] = "ready")
      <4>1. Submitting(c) BY <2>2 DEF SubmitStart, At, Submitting
      <4> QED BY <2>2, <4>1, SubmittingFacts, Zenon DEF SubmitStart
    <3>3. \A t \in Tasks : (go'[t] = "forget" => go[t] = "forget") /\ (go[t] = "untrack" => go'[t] = "untrack")
      BY <1>0, <3>2
    <3> QED BY <2>a, <3>1, <3>3, TrackFrame, Zenon
  <2>3. CASE StopDequeue(c)
    <3>1. UNCHANGED <<active, tracked, phase, shuttingDown>>
      BY <2>3, Zenon DEF StopDequeue, slots, slotVars, Dequeue
    <3>2. go' = go \/ \E u \in Tasks : go' = [go EXCEPT ![u] = "idle"] /\ go[u] = "ready"
      BY <2>3, Zenon DEF StopDequeue, RunInv, ReadyToRun
    <3>3. \A t \in Tasks : (go'[t] = "forget" => go[t] = "forget") /\ (go[t] = "untrack" => go'[t] = "untrack")
      BY <1>0, <3>2
    <3> QED BY <2>a, <3>1, <3>3, TrackFrame, Zenon
  <2>4. CASE SubmitInsert(c)
    <3>1. UNCHANGED <<tracked, phase, shuttingDown>>
      BY <2>4, Zenon DEF SubmitInsert, slots, slotVars, NewTask
    <3>2. \/ UNCHANGED <<active, go>>
          \/ \E t \in Tasks : /\ active' = [active EXCEPT ![Id(c)] = t] /\ go' = [go EXCEPT ![t] = "ready"]
                              /\ go[t] = "idle"
      BY <2>4, Zenon DEF SubmitInsert, Fresh
    <3>3. CASE UNCHANGED <<active, go>> BY <2>a, <3>1, <3>3, TrackFrame, Zenon
    <3>4. ASSUME NEW t \in Tasks, active' = [active EXCEPT ![Id(c)] = t], go' = [go EXCEPT ![t] = "ready"],
                 go[t] = "idle"
          PROVE  TrackInv'
      <4>1. t # NoTask BY ManagerAssumption, Zenon
      <4>2. tracked \subseteq IDs BY Zenon DEF TrackInv
      <4>3. \A u \in Tasks : (go'[u] = "forget" => go[u] = "forget") /\ (go[u] = "untrack" => go'[u] = "untrack")
        BY <1>0, <3>4
      <4>4. \A id \in IDs : Untracking(id) => Untracking(id)' BY <2>a, <4>3, UntrackingStays, Zenon
      <4>5. \A id \in tracked : active[id] # NoTask => active'[id] # NoTask BY <1>0, <3>4, <4>1, <4>2, Zenon
      <4> QED BY <3>1, <4>2, <4>3, <4>4, <4>5, Zenon DEF TrackInv, TrackedIsActive
    <3> QED BY <3>2, <3>3, <3>4, Zenon
  <2>5. CASE SubmitTrack(c)
    <3>1. /\ Submitting(c) /\ call[c].pc = "track" /\ UNCHANGED <<active, phase, shuttingDown, go>>
          /\ tracked' = tracked \cup {Id(c)}
      BY <2>5, Zenon DEF SubmitTrack, slots, slotVars, At, Submitting
    <3>2. Id(c) \in IDs /\ Obj(c) \in Tasks /\ go[Obj(c)] = "ready" /\ IdOf[Obj(c)] = Id(c)
      BY <3>1, SubmittingFacts, Zenon DEF RunInv, ReadyToRun
    <3>3. CASE shuttingDown BY <3>1, <3>2, <3>3, Zenon DEF TrackInv, TrackedIsActive
    <3>4. CASE ~shuttingDown
      <4>1. Owned /\ Live(Obj(c)) BY <3>2, <3>4 DEF RunInv, TrackInv, Live
      <4>2. active[Id(c)] = Obj(c) /\ Obj(c) # NoTask BY <3>2, <4>1, ManagerAssumption, Zenon DEF Owned
      <4>3. ASSUME NEW t \in Tasks, go[t] = "forget" PROVE IdOf[t] # Id(c)
        <5>1. Live(t) /\ t # Obj(c) BY <3>2, <4>3 DEF Live
        <5> QED BY <4>1, <4>2, <5>1, Zenon DEF Owned
      <4>4. \A id \in IDs : Untracking(id) => Untracking(id)' BY <2>a, <3>1, UntrackingStays, Zenon
      <4> QED BY <3>1, <3>2, <4>2, <4>3, <4>4, Zenon DEF TrackInv, TrackedIsActive
    <3> QED BY <3>3, <3>4, Zenon
  <2>6. CASE StopForget(c)
    <3>1. /\ UNCHANGED <<phase, shuttingDown, go, tracked>> /\ To(c, "untrack") /\ call[c].op \in {"cancel", "pause"}
          /\ active' = [active EXCEPT ![Id(c)] = NoTask]
      BY <2>6, Zenon DEF StopForget, slots, slotVars, At
    <3>2. At(c, {"cancel", "pause"}, "untrack")' /\ Id(c)' = Id(c)
      <4>1. call \in [Callers -> CallType] /\ call[c] \in CallType BY Zenon DEF RunInv, CallsTyped
      <4>2. call'[c] = [call[c] EXCEPT !.pc = "untrack"] BY <3>1, <4>1, Zenon DEF To
      <4>3. call'[c].op = call[c].op /\ call'[c].id = call[c].id /\ call'[c].pc = "untrack"
        BY <4>1, <4>2, SMTT(30) DEF CallType
      <4> QED BY <3>1, <4>3, Zenon DEF At, Id
    <3>3. \A id \in IDs : id = Id(c) => Untracking(id)' BY <3>2, Zenon DEF Untracking
    <3>4. \A id \in IDs : Untracking(id) => Untracking(id)' BY <2>a, <3>1, UntrackingStays, Zenon
    <3>5. \A id \in IDs : id # Id(c) => active'[id] = active[id] BY <1>0, <3>1, Zenon
    <3> QED BY <3>1, <3>3, <3>4, <3>5, Zenon DEF TrackInv, TrackedIsActive
  <2> QED BY <1>c, <2>1, <2>2, <2>3, <2>4, <2>5, <2>6, Zenon DEF CallStep
<1> QED BY <1>b, <1>c, Zenon

\* The goroutines and the reporter.
LEMMA GoTracks ==
    ASSUME RunInv, TrackInv, NEW t \in Tasks, GoStep(t)
    PROVE  TrackInv'
<1>0. /\ go \in [Tasks -> GoStates] /\ active \in [IDs -> Tasks \cup {NoTask}] /\ IdOf \in [Tasks -> IDs]
  BY ManagerAssumption, Zenon DEF RunInv, ReadyToRun
<1>a. UNCHANGED <<call, phase, shuttingDown>>
  <2>1. CASE Begin(t) \/ Advance(t) \/ Complete(t) \/ PauseForVPN(t) \/ \E storage \in BOOLEAN : Fail(t, storage)
    BY <2>1, Zenon DEF Begin, Advance, Complete, PauseForVPN, Fail, slots, slotVars
  <2>2. CASE Stall(t) BY <2>2, Zenon DEF Stall, volatile, Yield, YieldDispatch, Reclaim
  <2>3. CASE RecordCheck(t) \/ RecordDrop(t) \/ ReportFinal(t) \/ Forget(t)
    BY <2>3, Zenon DEF RecordCheck, RecordDrop, ReportFinal, Forget, slots, slotVars
  <2>4. CASE GoRelease(t) \/ GoHandOn(t) \/ DispatchForget(t) \/ DrainForget(t) \/ GoUntrack(t)
    BY <2>4, Zenon DEF GoRelease, GoHandOn, DispatchForget, DrainForget, GoUntrack, EndContexts, Release, HandOn,
                       ForgetDropped, slots, slotVars
  <2> QED BY <2>1, <2>2, <2>3, <2>4, Zenon DEF GoStep
<1>1. CASE Begin(t) \/ Advance(t) \/ Complete(t) \/ PauseForVPN(t) \/ RecordCheck(t) \/ RecordDrop(t)
           \/ \E storage \in BOOLEAN : Fail(t, storage)
  <2>1. UNCHANGED <<active, tracked>>
    BY <1>1, Zenon DEF Begin, Advance, Complete, PauseForVPN, RecordCheck, RecordDrop, Fail
  <2>2. /\ go[t] # "untrack"
        /\ \/ go' = go \/ \E p \in {"work", "check", "drop", "report"} : go' = [go EXCEPT ![t] = p]
           \/ go' = [go EXCEPT ![t] = "forget"] /\ shuttingDown
    BY <1>1, Zenon DEF Begin, Advance, Complete, PauseForVPN, RecordCheck, RecordDrop, Fail, GoTo
  <2>3. \A u \in Tasks : (go'[u] = "forget" => go[u] = "forget" \/ shuttingDown)
                         /\ (go[u] = "untrack" => go'[u] = "untrack")
    BY <1>0, <2>2
  <2> QED BY <1>a, <2>1, <2>3, TrackFrame, Zenon
<1>2. CASE Stall(t)
  <2>1. UNCHANGED <<active, tracked, go>> BY <1>2, Zenon DEF Stall, volatile
  <2> QED BY <1>a, <2>1, TrackFrame, Zenon
<1>3. CASE GoRelease(t) \/ GoHandOn(t)
  <2>1. UNCHANGED <<active, tracked>> BY <1>3, Zenon DEF GoRelease, GoHandOn
  <2>2. go[t] # "untrack" /\ \E p \in {"idle", "hand"} : go' = [go EXCEPT ![t] = p]
    BY <1>3, Zenon DEF GoRelease, GoHandOn, Gone, GoTo
  <2>3. \A u \in Tasks : (go'[u] = "forget" => go[u] = "forget") /\ (go[u] = "untrack" => go'[u] = "untrack")
    BY <1>0, <2>2
  <2> QED BY <1>a, <2>1, <2>3, TrackFrame, Zenon
<1>4. CASE ReportFinal(t)
  <2>1. /\ UNCHANGED active /\ tracked' = tracked \ {IdOf[t]}
        /\ go' = [go EXCEPT ![t] = "forget"] /\ go[t] = "report"
    BY <1>4, Zenon DEF ReportFinal, GoTo
  <2>2. \A u \in Tasks : (go'[u] = "forget" => go[u] = "forget" \/ u = t) /\ (go[u] = "untrack" => go'[u] = "untrack")
    BY <1>0, <2>1
  <2>3. \A id \in IDs : Untracking(id) => Untracking(id)' BY <1>a, <2>2, UntrackingStays, Zenon
  <2> QED BY <1>a, <2>1, <2>2, <2>3, Zenon DEF TrackInv, TrackedIsActive
<1>5. CASE Forget(t)
  <2>1. /\ UNCHANGED tracked /\ active' = [active EXCEPT ![IdOf[t]] = NoTask]
        /\ go' = [go EXCEPT ![t] = "release"] /\ go[t] = "forget"
    BY <1>5, Zenon DEF Forget, GoTo
  <2>2. \A u \in Tasks : (go'[u] = "forget" => go[u] = "forget") /\ (go[u] = "untrack" => go'[u] = "untrack")
    BY <1>0, <2>1
  <2>3. \A id \in IDs : Untracking(id) => Untracking(id)' BY <1>a, <2>2, UntrackingStays, Zenon
  <2>4. ~shuttingDown => \A id \in tracked : id # IdOf[t] /\ active'[id] = active[id]
    BY <1>0, <2>1, Zenon DEF TrackInv
  <2> QED BY <1>a, <2>1, <2>2, <2>3, <2>4, Zenon DEF TrackInv, TrackedIsActive
<1>6. CASE DispatchForget(t) \/ DrainForget(t)
  <2>1. /\ UNCHANGED tracked /\ active' = [active EXCEPT ![IdOf[t]] = NoTask] /\ go' = [go EXCEPT ![t] = "untrack"]
    BY <1>6, Zenon DEF DispatchForget, DrainForget, GoTo
  <2>2. \A u \in Tasks : (go'[u] = "forget" => go[u] = "forget") /\ (go[u] = "untrack" => go'[u] = "untrack")
    BY <1>0, <2>1
  <2>3. \A id \in IDs : Untracking(id) => Untracking(id)' BY <1>a, <2>2, UntrackingStays, Zenon
  <2>4. go'[t] = "untrack" BY <1>0, <2>1, Zenon
  <2>5. Untracking(IdOf[t])' BY <2>4, Zenon DEF Untracking
  <2>6. \A id \in IDs : id # IdOf[t] => active'[id] = active[id] BY <1>0, <2>1, Zenon
  <2> QED BY <1>a, <2>1, <2>2, <2>3, <2>5, <2>6, Zenon DEF TrackInv, TrackedIsActive
<1>7. CASE GoUntrack(t)
  <2>1. UNCHANGED active /\ tracked' = tracked \ {IdOf[t]} /\ go' = [go EXCEPT ![t] = "idle"]
    BY <1>7, Zenon DEF GoUntrack, Gone, GoTo
  <2>2. \A u \in Tasks : (go'[u] = "forget" => go[u] = "forget") /\ (go[u] = "untrack" => go'[u] = "untrack" \/ u = t)
    BY <1>0, <2>1
  <2>3. ASSUME NEW id \in IDs, id # IdOf[t], Untracking(id) PROVE Untracking(id)'
    BY <1>a, <2>2, <2>3, Zenon DEF Untracking, At, Id
  <2> QED BY <1>a, <2>1, <2>2, <2>3, Zenon DEF TrackInv, TrackedIsActive
<1> QED BY <1>1, <1>2, <1>3, <1>4, <1>5, <1>6, <1>7, Zenon DEF GoStep

\* Every step of the manager keeps the reporter's tasks active.
LEMMA TrackStep ==
    ASSUME RunInv, TrackInv, [Next]_vars
    PROVE  TrackInv'
<1>1. ASSUME NEW c \in Callers,
             \/ \E id \in IDs : (\E force \in BOOLEAN : Submit(c, id, force)) \/ CancelTask(c, id)
                                \/ PauseTask(c, id) \/ DropResume(c, id)
             \/ BootSubmit(c)
      PROVE  TrackInv'
  <2>1. UNCHANGED <<active, tracked, phase, shuttingDown, go>> /\ call[c] = Idle
    BY <1>1, Zenon DEF Submit, CancelTask, PauseTask, Stop, DropResume, BootSubmit, Serving, slots, slotVars
  <2>2. \E r : call' = [call EXCEPT ![c] = r]
    BY <1>1, Zenon DEF Submit, CancelTask, PauseTask, Stop, DropResume, BootSubmit
  <2>3. ~At(c, {"cancel", "pause"}, "untrack") BY <2>1, IdleType DEF At
  <2>4. \A d \in Callers : At(d, {"cancel", "pause"}, "untrack") => call'[d] = call[d]
    BY <2>2, <2>3, Zenon DEF RunInv, CallsTyped
  <2> QED BY <2>1, <2>4, TrackFrame, Zenon
<1>2. CASE (\E id \in IDs : CooldownExpires(id)) \/ RunFails \/ ShutdownCancel \/ UNCHANGED vars
  <2>1. UNCHANGED <<active, tracked, shuttingDown, go, call>>
    BY <1>2, Zenon DEF CooldownExpires, RunFails, ShutdownCancel, vars, volatile, slots, slotVars, EndContexts
  <2>2. phase' = phase \/ phase = "cancel"
    BY <1>2, Zenon DEF CooldownExpires, RunFails, ShutdownCancel, vars, volatile
  <2>3. phase' # "up" => shuttingDown BY <2>2 DEF TrackInv
  <2>4. \A id \in IDs : Untracking(id) => Untracking(id)' BY <2>1, UntrackingStays, Zenon
  <2> QED BY <2>1, <2>3, <2>4, Zenon DEF TrackInv, TrackedIsActive
<1>3. CASE ShutdownFlag \/ ShutdownDrain \/ ShutdownDone
  <2>1. shuttingDown'
    BY <1>3 DEF ShutdownFlag, ShutdownDrain, ShutdownDone, FlagShutdown, DrainQueue, slots, slotVars, TrackInv
  <2>2. tracked' \subseteq tracked BY <1>3, Zenon DEF ShutdownFlag, ShutdownDrain, ShutdownDone
  <2> QED BY <2>1, <2>2, Zenon DEF TrackInv, TrackedIsActive
<1>4. CASE ProcessRestart
  <2>1. phase' = "up" /\ tracked' = {} BY <1>4, Zenon DEF ProcessRestart
  <2> QED BY <2>1, Zenon DEF TrackInv, TrackedIsActive
<1>5. ASSUME NEW c \in Callers, CallStep(c) PROVE TrackInv' BY <1>5, CallTracks, Zenon
<1>6. ASSUME NEW t \in Tasks, GoStep(t) PROVE TrackInv' BY <1>6, GoTracks, Zenon
<1> QED BY <1>1, <1>2, <1>3, <1>4, <1>5, <1>6, Zenon DEF Next, ShutdownStep

-----------------------------------------------------------------------------
(* The resume store. *)

\* A manager that is not up shuts down, and once it is down no call is in progress.
Quiet ==
    /\ phase # "up" => shuttingDown
    /\ phase = "down" => \A c \in Callers : call[c] = Idle

\* A cancel or a pause, and one that is through with the pause set.
Stopping(c) == call[c].op \in {"cancel", "pause"}
Marked(c) == Stopping(c) /\ call[c].pc # "mark"

\* A run that a cancel or a pause has at hand is not unfinished, or it is paused.
StopSettled(c) ==
    /\ Stopping(c) => Id(c) \in IDs /\ Obj(c) \in Tasks /\ IdOf[Obj(c)] = Id(c) /\ boot = {}
    /\ Marked(c) /\ Live(Obj(c)) /\ Id(c) \in unfinished => Id(c) \in paused

\* Nothing has stopped the task a Submit is about to write down, but a stop that
\* overtakes it or the end of the daemon.
SubmitClean(c) == Enters(c) =>
    /\ Id(c) \notin cancelled \cup held
    /\ Obj(c) \in ended => Id(c) \in raced \/ shuttingDown \/ daemonOver

\* A stop of a task that its Submit has yet to write down overtakes it.
Overtakes(c, d) == Marked(c) /\ Enters(d) /\ Obj(c) = Obj(d) => Id(d) \in raced

CallsSettled ==
    /\ \A c \in Callers : StopSettled(c) /\ SubmitClean(c)
    /\ \A c, d \in Callers : Overtakes(c, d)

\* A download whose context is over, that has not ended by itself and is not cancelled,
\* is paused, or the daemon ends: the final record, which reads the pause set and the
\* shutdown flag, keeps its entry.
EntryKept ==
    \A t \in Tasks : IdOf[t] \in unfinished =>
        /\ go[t] \in {"ready", "spawned", "work"} /\ t \in ended => IdOf[t] \in paused \/ shuttingDown \/ daemonOver
        /\ go[t] = "check" /\ t \notin keep => IdOf[t] \in paused \/ shuttingDown
        /\ go[t] = "drop" => t \in keep

StoreTyped ==
    /\ store \in [IDs -> {"absent", "live", "paused"}]
    /\ unfinished \subseteq IDs /\ cancelled \subseteq IDs /\ held \subseteq IDs
    /\ raced \cap unfinished = {}

\* The inductive invariant behind the three properties of the resume store.
StoreInv ==
    /\ StoreTyped /\ Quiet /\ CallsSettled /\ EntryKept
    /\ ResumeSurvives /\ CancelIsTerminal /\ PauseSticks

\* The task a Submit has at hand is the only run of its ID.
LEMMA OnlyRun ==
    ASSUME RunInv, Quiet, NEW c \in Callers, Submitting(c)
    PROVE  \A t \in Tasks : IdOf[t] = Id(c) /\ t # Obj(c) => ~Live(t)
<1>1. Obj(c) \in Tasks /\ go[Obj(c)] = "ready" /\ IdOf[Obj(c)] = Id(c)
  BY SubmittingFacts, Zenon DEF RunInv, ReadyToRun
<1>2. call[c] # Idle BY DEF Submitting, Idle
<1>3. Owned BY <1>2, Zenon DEF Quiet, RunInv
<1>4. Live(Obj(c)) BY <1>1 DEF Live
<1> QED BY <1>1, <1>3, <1>4, Zenon DEF Owned

\* A Submit that enters its task has it at hand.
LEMMA EntersFacts ==
    ASSUME RunInv, NEW c \in Callers, Enters(c)
    PROVE  /\ Submitting(c) /\ Obj(c) \in Tasks /\ Id(c) \in IDs
           /\ go[Obj(c)] = "ready" /\ IdOf[Obj(c)] = Id(c) /\ Live(Obj(c))
<1>1. Submitting(c) BY DEF Enters, Submitting
<1>2. /\ Obj(c) \in Tasks /\ Id(c) \in IDs /\ go[Obj(c)] = "ready" /\ IdOf[Obj(c)] = Id(c)
  BY <1>1, SubmittingFacts, Zenon DEF RunInv, ReadyToRun
<1>3. Live(Obj(c)) BY <1>2 DEF Live
<1> QED BY <1>1, <1>2, <1>3

\* ... and no two of them enter the same ID.
LEMMA OneEnters ==
    ASSUME RunInv, Quiet, NEW c \in Callers, NEW d \in Callers, c # d, Enters(c), Enters(d)
    PROVE  Id(c) # Id(d)
<1>1. Submitting(c) /\ Submitting(d) BY EntersFacts, Zenon
<1>2. Obj(c) # Obj(d) BY <1>1, Zenon DEF RunInv, ReadyToRun
<1> QED BY <1>1, <1>2, EntersFacts, OnlyRun, Zenon

\* What a caller stops or enters now, it stopped or entered before.
NothingNew(c) ==
    /\ Stopping(c)' => Stopping(c) /\ Id(c)' = Id(c) /\ Obj(c)' = Obj(c)
    /\ Marked(c)' => Marked(c)
    /\ Enters(c)' => Enters(c) /\ Id(c)' = Id(c) /\ Obj(c)' = Obj(c)

\* A caller whose call did not change.
LEMMA SameCall ==
    ASSUME NEW c \in Callers, call'[c] = call[c]
    PROVE  NothingNew(c)
BY Zenon DEF NothingNew, Stopping, Marked, Enters, Id, Obj

\* A call moves on, past its mark or its entry, or returns.
LEMMA MovesOn ==
    ASSUME RunInv, NEW c \in Callers,
           \/ Return(c)
           \/ /\ call[c].pc # "mark"
              /\ \E p \in {"track", "start", "dispatch", "dequeue", "forget", "untrack", "cancel", "status"} : To(c, p)
           \/ call[c].op = "submit" /\ call[c].pc = "clear" /\ To(c, "store")
    PROVE  NothingNew(c)
<1>0. call \in [Callers -> CallType] /\ call[c] \in CallType BY Zenon DEF RunInv, CallsTyped
<1>1. CASE Return(c)
  <2>1. call'[c] = Idle BY <1>0, <1>1, Zenon DEF Return
  <2>2. call'[c].op = "none" BY <2>1, IdleType, Zenon
  <2> QED BY <2>2 DEF NothingNew, Stopping, Marked, Enters
<1>2. ASSUME call[c].pc # "mark",
             NEW p \in {"track", "start", "dispatch", "dequeue", "forget", "untrack", "cancel", "status"}, To(c, p)
      PROVE  NothingNew(c)
  <2>1. call'[c] = [call[c] EXCEPT !.pc = p] BY <1>0, <1>2, Zenon DEF To
  <2>2. call'[c].op = call[c].op /\ call'[c].pc = p /\ call'[c].id = call[c].id /\ call'[c].task = call[c].task
    BY <1>0, <2>1, SMTT(30) DEF CallType
  <2>3. p \notin {"clear", "store"} OBVIOUS
  <2> QED BY <1>2, <2>2, <2>3, Zenon DEF NothingNew, Stopping, Marked, Enters, Id, Obj
<1>3. CASE call[c].op = "submit" /\ call[c].pc = "clear" /\ To(c, "store")
  <2>1. call'[c] = [call[c] EXCEPT !.pc = "store"] BY <1>0, <1>3, Zenon DEF To
  <2>2. call'[c].op = call[c].op /\ call'[c].id = call[c].id /\ call'[c].task = call[c].task
    BY <1>0, <2>1, SMTT(30) DEF CallType
  <2>3. ~Stopping(c)' BY <1>3, <2>2 DEF Stopping
  <2> QED BY <1>3, <2>2, <2>3, Zenon DEF NothingNew, Marked, Enters, Id, Obj
<1> QED BY <1>1, <1>2, <1>3, Zenon

\* No stop has a live run of this ID at hand.
NoneStopped(id) == \A d \in Callers : Marked(d) /\ Id(d) = id => ~Live(Obj(d))

\* A step that begins no run and enters no task, and leaves the calls what they rely on.
LEMMA SettledFrame ==
    ASSUME RunInv, StoreInv, boot' \subseteq boot,
           \A c \in Callers :
               \/ NothingNew(c)
               \/ /\ Id(c)' \in IDs /\ Obj(c)' \in Tasks /\ IdOf[Obj(c)'] = Id(c)' /\ boot' = {}
                  /\ ~Marked(c)' /\ ~Enters(c)',
           \A t \in Tasks : Live(t)' => Live(t),
           \A id \in unfinished' : \/ id \in unfinished /\ (id \in paused => id \in paused')
                                   \/ NoneStopped(id),
           \A id \in cancelled' \cup held' : id \in cancelled \cup held \/ ~Entering(id),
           \A c \in Callers : Enters(c)' /\ Id(c) \in raced => Id(c) \in raced',
           shuttingDown => shuttingDown', daemonOver => daemonOver',
           \A t \in ended' : \/ t \in ended \/ go[t] # "ready" \/ shuttingDown' \/ daemonOver'
                             \/ \A c \in Callers : Enters(c) /\ Obj(c) = t => Id(c) \in raced
    PROVE  CallsSettled'
<1>1. ASSUME NEW c \in Callers PROVE StopSettled(c)'
  <2>1. StopSettled(c) BY <1>1, Zenon DEF StoreInv, CallsSettled
  <2>2. Stopping(c)' => Id(c)' \in IDs /\ Obj(c)' \in Tasks /\ IdOf[Obj(c)'] = Id(c)' /\ boot' = {}
    BY <1>1, <2>1 DEF StopSettled, NothingNew
  <2>3. ASSUME Marked(c)', Live(Obj(c))', Id(c)' \in unfinished' PROVE Id(c)' \in paused'
    <3>1. Marked(c) /\ Stopping(c) /\ Id(c)' = Id(c) /\ Obj(c)' = Obj(c) BY <1>1, <2>3, Zenon DEF NothingNew, Marked
    <3>2. Obj(c) \in Tasks BY <2>1, <3>1, Zenon DEF StopSettled
    <3>3. Live(Obj(c)) BY <2>3, <3>1, <3>2, Zenon DEF Live
    <3>4. Id(c) \in unfinished /\ (Id(c) \in paused => Id(c) \in paused')
      BY <2>3, <3>1, <3>3, Zenon DEF NoneStopped
    <3> QED BY <2>1, <3>1, <3>3, <3>4, Zenon DEF StopSettled
  <2> QED BY <2>2, <2>3, Zenon DEF StopSettled
<1>2. ASSUME NEW c \in Callers, Enters(c)'
      PROVE  Enters(c) /\ Id(c)' = Id(c) /\ Obj(c)' = Obj(c) /\ (Id(c) \in raced => Id(c)' \in raced')
  BY <1>2, Zenon DEF NothingNew
<1>3. ASSUME NEW c \in Callers PROVE SubmitClean(c)'
  <2> SUFFICES ASSUME Enters(c)' PROVE SubmitClean(c)' BY Zenon DEF SubmitClean
  <2>1. Enters(c) /\ Id(c)' = Id(c) /\ Obj(c)' = Obj(c) /\ (Id(c) \in raced => Id(c)' \in raced') BY <1>2, <1>3
  <2>2. SubmitClean(c) BY <1>3, Zenon DEF StoreInv, CallsSettled
  <2>3. go[Obj(c)] = "ready" /\ Entering(Id(c)) BY <2>1, EntersFacts, Zenon DEF Entering
  <2>4. Id(c) \notin cancelled' \cup held' BY <2>1, <2>2, <2>3, Zenon DEF SubmitClean
  <2>5. Obj(c) \in ended' => Id(c) \in raced' \/ shuttingDown' \/ daemonOver'
    BY <2>1, <2>2, <2>3, Zenon DEF SubmitClean
  <2> QED BY <2>1, <2>4, <2>5, Zenon DEF SubmitClean
<1>4. ASSUME NEW c \in Callers, NEW d \in Callers PROVE Overtakes(c, d)'
  <2> SUFFICES ASSUME Marked(c)', Enters(d)', Obj(c)' = Obj(d)' PROVE Id(d)' \in raced' BY Zenon DEF Overtakes
  <2>1. Enters(d) /\ Id(d)' = Id(d) /\ Obj(d)' = Obj(d) /\ (Id(d) \in raced => Id(d)' \in raced') BY <1>2, Zenon
  <2>2. Marked(c) /\ Obj(c)' = Obj(c) BY Zenon DEF NothingNew, Marked
  <2>3. Overtakes(c, d) BY <1>4, Zenon DEF StoreInv, CallsSettled
  <2> QED BY <2>1, <2>2, <2>3, Zenon DEF Overtakes
<1> QED BY <1>1, <1>3, <1>4, Zenon DEF CallsSettled

\* Removing entries that no unfinished download has, and nothing else, keeps the store.
LEMMA MarksFrame ==
    ASSUME StoreInv, boot' \subseteq boot, cancelled' \subseteq cancelled, held' \subseteq held,
           unfinished' \subseteq unfinished, raced' \cap unfinished' = {},
           store' \in [IDs -> {"absent", "live", "paused"}],
           \A id \in IDs : store'[id] \in {store[id], "absent"},
           \A id \in unfinished' : store'[id] = store[id]
    PROVE  StoreTyped' /\ ResumeSurvives' /\ CancelIsTerminal' /\ PauseSticks'
<1>1. StoreTyped' BY Zenon DEF StoreInv, StoreTyped
<1>2. ResumeSurvives' BY Zenon DEF StoreInv, ResumeSurvives
<1>3. CancelIsTerminal' BY Zenon DEF StoreInv, StoreTyped, CancelIsTerminal
<1>4. PauseSticks' BY DEF StoreInv, StoreTyped, PauseSticks
<1> QED BY <1>1, <1>2, <1>3, <1>4

\* A step that leaves the store alone.
LEMMA SameStore ==
    ASSUME StoreInv, UNCHANGED <<store, raced>>, boot' \subseteq boot, cancelled' \subseteq cancelled,
           held' \subseteq held, unfinished' \subseteq unfinished
    PROVE  StoreTyped' /\ ResumeSurvives' /\ CancelIsTerminal' /\ PauseSticks'
<1>1. store \in [IDs -> {"absent", "live", "paused"}] /\ raced \cap unfinished = {} BY Zenon DEF StoreInv, StoreTyped
<1>2. raced' \cap unfinished' = {} BY <1>1
<1> QED BY <1>1, <1>2, MarksFrame, Zenon

\* A step that brings no run to its final record, and ends no context of a download
\* that will have to be resumed.
LEMMA EntryFrame ==
    ASSUME StoreInv, UNCHANGED keep, shuttingDown => shuttingDown', daemonOver => daemonOver',
           \A t \in Tasks : IdOf[t] \in unfinished' =>
               IdOf[t] \in unfinished /\ (IdOf[t] \in paused => IdOf[t] \in paused'),
           \A t \in Tasks : \/ go'[t] = go[t]
                            \/ go'[t] \notin {"ready", "spawned", "work", "check", "drop"}
                            \/ go[t] = "ready" /\ go'[t] = "spawned",
           \A t \in Tasks : t \in ended' /\ Live(t)' /\ IdOf[t] \in unfinished' =>
               t \in ended \/ shuttingDown' \/ daemonOver' \/ IdOf[t] \in paused'
    PROVE  EntryKept'
<1> SUFFICES ASSUME NEW t \in Tasks, IdOf[t] \in unfinished'
             PROVE  /\ go'[t] \in {"ready", "spawned", "work"} /\ t \in ended' =>
                         IdOf[t] \in paused' \/ shuttingDown' \/ daemonOver'
                    /\ go'[t] = "check" /\ t \notin keep' => IdOf[t] \in paused' \/ shuttingDown'
                    /\ go'[t] = "drop" => t \in keep'
  BY Zenon DEF EntryKept
<1>1. /\ go[t] \in {"ready", "spawned", "work"} /\ t \in ended => IdOf[t] \in paused \/ shuttingDown \/ daemonOver
      /\ go[t] = "check" /\ t \notin keep => IdOf[t] \in paused \/ shuttingDown
      /\ go[t] = "drop" => t \in keep
  BY Zenon DEF StoreInv, EntryKept
<1>2. go'[t] \in {"ready", "spawned", "work"} => Live(t)' BY DEF Live
<1> QED BY <1>1, <1>2

\* The goroutines of the tasks, up to the final record.
LEMMA GoKeepsEntry ==
    ASSUME RunInv, StoreInv, NEW t \in Tasks, GoStep(t)
    PROVE  StoreInv'
<1>0. go \in [Tasks -> GoStates] /\ IdOf \in [Tasks -> IDs] BY ManagerAssumption, Zenon DEF RunInv, ReadyToRun
<1>1. UNCHANGED <<call, boot, paused, cancelled, held, raced, phase, daemonOver, shuttingDown>>
  <2>1. CASE Begin(t) \/ Advance(t) \/ Complete(t) \/ PauseForVPN(t) \/ \E storage \in BOOLEAN : Fail(t, storage)
    BY <2>1, Zenon DEF Begin, Advance, Complete, PauseForVPN, Fail, slots, slotVars, history
  <2>2. CASE Stall(t) BY <2>2, Zenon DEF Stall, volatile, history, Yield, YieldDispatch, Reclaim
  <2>3. CASE RecordCheck(t) \/ RecordDrop(t) \/ ReportFinal(t) \/ Forget(t)
    BY <2>3, Zenon DEF RecordCheck, RecordDrop, ReportFinal, Forget, slots, slotVars, history
  <2>4. CASE GoRelease(t) \/ GoHandOn(t) \/ DispatchForget(t) \/ DrainForget(t) \/ GoUntrack(t)
    BY <2>4, Zenon DEF GoRelease, GoHandOn, DispatchForget, DrainForget, GoUntrack, EndContexts, Release, HandOn,
                       ForgetDropped, slots, slotVars, history
  <2> QED BY <2>1, <2>2, <2>3, <2>4, Zenon DEF GoStep
<1>2. Quiet' BY <1>1, Zenon DEF StoreInv, Quiet
<1>3. unfinished' \subseteq unfinished
  <2>1. CASE Begin(t) \/ Advance(t) \/ Complete(t) \/ PauseForVPN(t) \/ \E storage \in BOOLEAN : Fail(t, storage)
    BY <2>1, Zenon DEF Begin, Advance, Complete, PauseForVPN, Fail, history
  <2>2. CASE ~(Begin(t) \/ Advance(t) \/ Complete(t) \/ PauseForVPN(t) \/ \E storage \in BOOLEAN : Fail(t, storage))
    BY <2>2, Zenon DEF GoStep, Stall, RecordCheck, RecordDrop, ReportFinal, Forget, GoRelease, GoHandOn,
                       DispatchForget, DrainForget, GoUntrack, history
  <2> QED BY <2>1, <2>2, Zenon
<1>4. \A u \in ended' : u \in ended \/ go[u] # "ready"
  <2>1. CASE GoRelease(t)
    <3>1. go[t] = "release" /\ ended' = ended \cup {t} BY <2>1, Zenon DEF GoRelease, EndContexts, Release
    <3> QED BY <3>1
  <2>2. CASE Begin(t) \/ Advance(t) \/ Complete(t) \/ PauseForVPN(t) \/ \E storage \in BOOLEAN : Fail(t, storage)
    BY <2>2, Zenon DEF Begin, Advance, Complete, PauseForVPN, Fail, slots, slotVars
  <2>3. CASE Stall(t) \/ GoHandOn(t) \/ DispatchForget(t)
    BY <2>3, Zenon DEF Stall, Yield, YieldDispatch, Reclaim, GoHandOn, HandOn, DispatchForget, ForgetDropped
  <2>4. CASE RecordCheck(t) \/ RecordDrop(t) \/ ReportFinal(t) \/ Forget(t) \/ DrainForget(t) \/ GoUntrack(t)
    BY <2>4, Zenon DEF RecordCheck, RecordDrop, ReportFinal, Forget, DrainForget, GoUntrack, slots, slotVars
  <2> QED BY <2>1, <2>2, <2>3, <2>4, Zenon DEF GoStep
<1>5. /\ store' \in [IDs -> {"absent", "live", "paused"}]
      /\ \A id \in IDs : store'[id] \in {store[id], "absent"}
      /\ \A id \in unfinished' : store'[id] = store[id]
  <2>1. CASE RecordDrop(t)
    <3>1. /\ store' = IF t \in keep THEN store ELSE [store EXCEPT ![IdOf[t]] = "absent"]
          /\ go[t] = "drop" /\ unfinished' = unfinished
      BY <2>1, Zenon DEF RecordDrop, history
    <3>2. t \in keep \/ IdOf[t] \notin unfinished BY <3>1, Zenon DEF StoreInv, EntryKept
    <3>3. store \in [IDs -> {"absent", "live", "paused"}] /\ unfinished \subseteq IDs
      BY Zenon DEF StoreInv, StoreTyped
    <3> QED BY <3>1, <3>2, <3>3, Zenon
  <2>2. CASE ~RecordDrop(t)
    <3>1. store' = store
      BY <2>2, Zenon DEF GoStep, Begin, Advance, Complete, PauseForVPN, Fail, Stall, RecordCheck, ReportFinal,
                         Forget, GoRelease, GoHandOn, DispatchForget, DrainForget, GoUntrack
    <3> QED BY <3>1, Zenon DEF StoreInv, StoreTyped
  <2> QED BY <2>1, <2>2, Zenon
<1>6. CallsSettled'
  <2>1. \A c \in Callers : NothingNew(c) BY <1>1, SameCall, Zenon
  <2>2. \A u \in Tasks : Live(u)' => Live(u)
    <3>1. go' = go \/ (Live(t) /\ \E p \in GoStates : go' = [go EXCEPT ![t] = p])
                   \/ \E p \in {"idle", "hand"} : go' = [go EXCEPT ![t] = p]
      <4>1. CASE Advance(t) \/ Stall(t) BY <4>1, Zenon DEF Advance, Stall, volatile
      <4>2. CASE DispatchForget(t)
        <5>1. go[t] = "ready" /\ go' = [go EXCEPT ![t] = "untrack"]
          BY <4>2, Zenon DEF DispatchForget, ForgetDropped, GoTo, RunInv, ReadyToRun
        <5> QED BY <5>1 DEF Live, GoStates
      <4>3. CASE GoRelease(t) \/ GoHandOn(t) \/ GoUntrack(t)
        BY <4>3, Zenon DEF GoRelease, GoHandOn, GoUntrack, Gone, GoTo
      <4>4. CASE Begin(t) \/ Complete(t) \/ PauseForVPN(t) \/ (\E storage \in BOOLEAN : Fail(t, storage))
                 \/ RecordCheck(t) \/ RecordDrop(t) \/ ReportFinal(t) \/ Forget(t) \/ DrainForget(t)
        <5>1. \E p \in {"work", "check", "forget", "drop", "report", "release", "untrack"} : go' = [go EXCEPT ![t] = p]
          BY <4>4, Zenon DEF Begin, Complete, PauseForVPN, Fail, RecordCheck, RecordDrop, ReportFinal, Forget,
                             DrainForget, GoTo
        <5>2. Live(t)
          BY <4>4 DEF Begin, Complete, PauseForVPN, Fail, RecordCheck, RecordDrop, ReportFinal, Forget,
                      DrainForget, Live
        <5> QED BY <5>1, <5>2, Zenon DEF GoStates
      <4> QED BY <4>1, <4>2, <4>3, <4>4, Zenon DEF GoStep
    <3> QED BY <1>0, <3>1, SMTT(20) DEF Live
  <2>3. \A c \in Callers : Enters(c)' /\ Id(c) \in raced => Id(c) \in raced' BY <1>1, Zenon
  <2> QED BY <1>1, <1>3, <1>4, <2>1, <2>2, <2>3, SettledFrame, Zenon
<1>7. StoreTyped' /\ ResumeSurvives' /\ CancelIsTerminal' /\ PauseSticks'
  <2>1. raced' \cap unfinished' = {} BY <1>1, <1>3 DEF StoreInv, StoreTyped
  <2> QED BY <1>1, <1>3, <1>5, <2>1, MarksFrame, Zenon
<1>8. EntryKept'
  <2> SUFFICES ASSUME NEW u \in Tasks, IdOf[u] \in unfinished'
               PROVE  /\ go'[u] \in {"ready", "spawned", "work"} /\ u \in ended' =>
                           IdOf[u] \in paused \/ shuttingDown \/ daemonOver
                      /\ go'[u] = "check" /\ u \notin keep' => IdOf[u] \in paused \/ shuttingDown
                      /\ go'[u] = "drop" => u \in keep'
    BY <1>1, Zenon DEF EntryKept
  <2>1. /\ go[u] \in {"ready", "spawned", "work"} /\ u \in ended => IdOf[u] \in paused \/ shuttingDown \/ daemonOver
        /\ go[u] = "check" /\ u \notin keep => IdOf[u] \in paused \/ shuttingDown
        /\ go[u] = "drop" => u \in keep
    BY <1>3, Zenon DEF StoreInv, EntryKept
  <2>2. CASE Begin(t)
    <3>1. /\ go' = [go EXCEPT ![t] = "work"] /\ UNCHANGED <<keep, ended>> /\ go[t] \in {"spawned", "ready"}
      BY <2>2, Zenon DEF Begin, GoTo, slots, slotVars
    <3> QED BY <1>0, <2>1, <3>1
  <2>3. CASE Advance(t) \/ Stall(t)
    <3>1. UNCHANGED <<go, keep, ended>>
      BY <2>3, Zenon DEF Advance, Stall, volatile, Yield, YieldDispatch, Reclaim, slots, slotVars
    <3> QED BY <2>1, <3>1, Zenon
  <2>4. CASE Complete(t)
    <3>1. /\ go' = [go EXCEPT ![t] = "check"] /\ UNCHANGED <<keep, ended>>
          /\ unfinished' = unfinished \ {IdOf[t]}
      BY <2>4, Zenon DEF Complete, GoTo, slots, slotVars
    <3> QED BY <1>0, <2>1, <3>1
  <2>5. CASE \E storage \in BOOLEAN : Fail(t, storage)
    <3>1. /\ go' = [go EXCEPT ![t] = "check"] \/ go' = [go EXCEPT ![t] = "forget"]
          /\ UNCHANGED <<keep, ended>> /\ go[t] = "work"
          /\ unfinished' = IF Interrupted(t) THEN unfinished ELSE unfinished \ {IdOf[t]}
      BY <2>5, Zenon DEF Fail, GoTo, slots, slotVars
    <3>2. u = t => t \in ended /\ (daemonOver => IdOf[t] \in paused \/ shuttingDown)
      BY <3>1, Zenon DEF Interrupted
    <3> QED BY <1>0, <2>1, <3>1, <3>2
  <2>6. CASE PauseForVPN(t)
    <3>1. go' = [go EXCEPT ![t] = "check"] /\ keep' = keep \cup {t} /\ UNCHANGED ended
      BY <2>6, Zenon DEF PauseForVPN, GoTo, slots, slotVars
    <3> QED BY <1>0, <2>1, <3>1
  <2>7. CASE RecordCheck(t)
    <3>1. /\ go' = [go EXCEPT ![t] = "drop"] /\ UNCHANGED ended /\ go[t] = "check"
          /\ keep' = IF IdOf[t] \in paused \/ shuttingDown THEN keep \cup {t} ELSE keep
      BY <2>7, Zenon DEF RecordCheck, GoTo, slots, slotVars
    <3> QED BY <1>0, <2>1, <3>1
  <2>8. CASE RecordDrop(t)
    <3>1. go' = [go EXCEPT ![t] = "report"] /\ UNCHANGED ended /\ keep' = keep \ {t}
      BY <2>8, Zenon DEF RecordDrop, GoTo, slots, slotVars
    <3> QED BY <1>0, <2>1, <3>1
  <2>9. CASE ReportFinal(t) \/ Forget(t) \/ GoRelease(t) \/ GoHandOn(t) \/ DispatchForget(t) \/ DrainForget(t)
             \/ GoUntrack(t)
    <3>1. \E p \in {"forget", "release", "hand", "idle", "untrack"} : go' = [go EXCEPT ![t] = p]
      BY <2>9, Zenon DEF ReportFinal, Forget, GoRelease, GoHandOn, DispatchForget, DrainForget, GoUntrack, Gone, GoTo
    <3>2. keep' = keep /\ \A v \in ended' : v \in ended \/ v = t
      BY <2>9, Zenon DEF ReportFinal, Forget, GoRelease, GoHandOn, DispatchForget, DrainForget, GoUntrack,
                         EndContexts, Release, HandOn, ForgetDropped, slots, slotVars
    <3> QED BY <1>0, <2>1, <3>1, <3>2
  <2> QED BY <2>2, <2>3, <2>4, <2>5, <2>6, <2>7, <2>8, <2>9, Zenon DEF GoStep
<1> QED BY <1>2, <1>6, <1>7, <1>8, Zenon DEF StoreInv

\* A call begins.
LEMMA BeginKeepsEntry ==
    ASSUME RunInv, StoreInv, NEW c \in Callers, NEW id \in IDs,
           (\E force \in BOOLEAN : Submit(c, id, force)) \/ CancelTask(c, id) \/ PauseTask(c, id)
             \/ DropResume(c, id) \/ BootSubmit(c)
    PROVE  StoreInv'
<1>0. call \in [Callers -> CallType] /\ active \in [IDs -> Tasks \cup {NoTask}]
  BY Zenon DEF RunInv, CallsTyped
<1>1. UNCHANGED <<phase, daemonOver, shuttingDown, ended, go, keep, paused, cancelled, held, raced>>
  BY Zenon DEF Submit, CancelTask, PauseTask, Stop, DropResume, BootSubmit, slots, slotVars, history
<1>2. unfinished' \subseteq unfinished /\ boot' \subseteq boot
  BY Zenon DEF Submit, CancelTask, PauseTask, Stop, DropResume, BootSubmit, history
<1>3. phase # "down"
  BY DEF Submit, CancelTask, PauseTask, Stop, DropResume, BootSubmit, Serving, StoreInv, Quiet
<1>4. Quiet' BY <1>1, <1>3, Zenon DEF StoreInv, Quiet
<1>5. EntryKept' BY <1>1, <1>2, EntryFrame, Zenon
<1>6. StoreTyped' /\ ResumeSurvives' /\ CancelIsTerminal' /\ PauseSticks'
  <2>1. CASE DropResume(c, id)
    <3>1. store' = [store EXCEPT ![id] = "absent"] /\ unfinished' = unfinished \ {id} BY <2>1, Zenon DEF DropResume
    <3>2. store \in [IDs -> {"absent", "live", "paused"}] /\ unfinished \subseteq IDs /\ raced \cap unfinished = {}
      BY Zenon DEF StoreInv, StoreTyped
    <3>3. /\ store' \in [IDs -> {"absent", "live", "paused"}]
          /\ \A i \in IDs : store'[i] \in {store[i], "absent"}
          /\ \A i \in unfinished' : store'[i] = store[i]
      BY <3>1, <3>2, Zenon
    <3>4. raced' \cap unfinished' = {} BY <1>1, <1>2, <3>2
    <3> QED BY <1>1, <1>2, <3>3, <3>4, MarksFrame, Zenon
  <2>2. CASE ~DropResume(c, id)
    <3>1. UNCHANGED store BY <2>2, ZenonT(30) DEF Submit, CancelTask, PauseTask, Stop, BootSubmit
    <3> QED BY <1>1, <1>2, <3>1, SameStore, Zenon
  <2> QED BY <2>1, <2>2, Zenon
<1>7. \E r : call' = [call EXCEPT ![c] = r]
  BY Zenon DEF Submit, CancelTask, PauseTask, Stop, DropResume, BootSubmit
<1>8. \A d \in Callers : d # c => NothingNew(d) BY <1>0, <1>7, SameCall, Zenon
<1>9. \/ NothingNew(c)
      \/ /\ Id(c)' \in IDs /\ Obj(c)' \in Tasks /\ IdOf[Obj(c)'] = Id(c)' /\ boot' = {}
         /\ ~Marked(c)' /\ ~Enters(c)'
  <2>1. CASE (\E force \in BOOLEAN : Submit(c, id, force)) \/ BootSubmit(c)
    <3>1. PICK i, f : call' = [call EXCEPT ![c] = [op |-> "submit", pc |-> "insert", id |-> i, task |-> NoTask, flag |-> f]]
      BY <2>1, Zenon DEF Submit, BootSubmit
    <3>2. call'[c].op = "submit" /\ call'[c].pc = "insert" BY <1>0, <3>1, Zenon
    <3> QED BY <3>2 DEF NothingNew, Stopping, Marked, Enters
  <2>2. CASE DropResume(c, id)
    <3>1. call' = [call EXCEPT ![c] = [op |-> "drop", pc |-> "unmark", id |-> id, task |-> NoTask, flag |-> FALSE]]
      BY <2>2, Zenon DEF DropResume
    <3>2. call'[c].op = "drop" BY <1>0, <3>1, Zenon
    <3> QED BY <3>2 DEF NothingNew, Stopping, Marked, Enters
  <2>3. CASE CancelTask(c, id) \/ PauseTask(c, id)
    <3>1. PICK op \in {"cancel", "pause"} : Stop(c, op, id) BY <2>3, Zenon DEF CancelTask, PauseTask
    <3>2. /\ call'[c] = [op |-> op, pc |-> "mark", id |-> id, task |-> active[id], flag |-> FALSE]
          /\ boot' = {} /\ active[id] # NoTask
      BY <1>0, <3>1, Zenon DEF Stop, Serving
    <3>3. IdOf[active[id]] = id /\ active[id] \in Tasks BY <1>0, <3>2, Zenon DEF RunInv
    <3>4. Id(c)' = id /\ Obj(c)' = active[id] BY <3>2 DEF Id, Obj
    <3>5. call'[c].op = op /\ call'[c].pc = "mark" BY <3>2
    <3>6. ~Marked(c)' /\ ~Enters(c)' BY <3>5 DEF Marked, Enters
    <3> QED BY <3>2, <3>3, <3>4, <3>6, Zenon
  <2> QED BY <2>1, <2>2, <2>3, Zenon
<1>10. CallsSettled'
  <2>1. \A t \in Tasks : Live(t)' => Live(t) BY <1>1, Zenon DEF Live
  <2> QED BY <1>1, <1>2, <1>8, <1>9, <2>1, SettledFrame, ZenonT(30)
<1> QED BY <1>4, <1>5, <1>6, <1>10, Zenon DEF StoreInv

\* A task becomes active.
LEMMA InsertKeepsEntry ==
    ASSUME RunInv, StoreInv, NEW c \in Callers, SubmitInsert(c), active[Id(c)] = NoTask
    PROVE  CallsSettled' /\ EntryKept'
<1>0. /\ call \in [Callers -> CallType] /\ call[c] \in CallType /\ go \in [Tasks -> GoStates]
  BY Zenon DEF RunInv, CallsTyped, ReadyToRun
<1>1. PICK t \in Tasks :
        /\ Fresh(t) /\ NewTask(t, daemonOver) /\ go' = [go EXCEPT ![t] = "ready"]
        /\ call' = [call EXCEPT ![c].pc = "clear", ![c].task = t]
  BY Zenon DEF SubmitInsert
<1>2. /\ cancelled' = cancelled \ {Id(c)} /\ held' = held \ {Id(c)} /\ call[c].op = "submit"
      /\ UNCHANGED <<keep, paused, boot, daemonOver, unfinished, raced>>
  BY Zenon DEF SubmitInsert, At
<1>3. /\ UNCHANGED shuttingDown /\ (daemonOver \/ t \notin ended') /\ \A u \in Tasks : u # t /\ u \in ended' => u \in ended
  BY <1>1, Zenon DEF NewTask
<1>4. /\ call'[c].op = "submit" /\ call'[c].pc = "clear" /\ call'[c].task = t /\ call'[c].id = call[c].id
  <2>1. call'[c] = [call[c] EXCEPT !.pc = "clear", !.task = t] BY <1>0, <1>1, Zenon
  <2> QED BY <1>0, <1>2, <2>1, SMTT(30) DEF CallType
<1>5. \A d \in Callers : d # c => call'[d] = call[d] BY <1>0, <1>1, Zenon
<1>6. \A d \in Callers : Obj(d) # t BY <1>1, Zenon DEF Fresh, Obj
<1>7. \A u \in Tasks : u # t => go'[u] = go[u] BY <1>0, <1>1, Zenon
<1>8. ~Stopping(c)' BY <1>4 DEF Stopping
<1>9. \A d \in Callers : d # c =>
        /\ Stopping(d)' <=> Stopping(d)
        /\ Marked(d)' <=> Marked(d)
        /\ Enters(d)' <=> Enters(d)
        /\ Id(d)' = Id(d) /\ Obj(d)' = Obj(d)
  BY <1>5, Zenon DEF Stopping, Marked, Enters, Id, Obj
<1>10. ASSUME NEW d \in Callers PROVE StopSettled(d)'
  <2>1. CASE d = c BY <1>8, <2>1, Zenon DEF StopSettled, Marked
  <2>2. CASE d # c
    <3>1. StopSettled(d) BY <1>10, Zenon DEF StoreInv, CallsSettled
    <3>2. Stopping(d)' => Obj(d) \in Tasks BY <1>9, <2>2, <3>1, Zenon DEF StopSettled
    <3>3. Stopping(d)' => (Live(Obj(d))' <=> Live(Obj(d))) BY <1>6, <1>7, <1>9, <1>10, <2>2, <3>2, Zenon DEF Live
    <3>4. Marked(d)' => Stopping(d)' BY Zenon DEF Marked
    <3> QED BY <1>2, <1>9, <2>2, <3>1, <3>3, <3>4, Zenon DEF StopSettled
  <2> QED BY <2>1, <2>2
<1>11. ASSUME NEW d \in Callers PROVE SubmitClean(d)'
  <2>1. CASE d = c
    <3>1. Id(d)' = Id(c) /\ Obj(d)' = t BY <1>4, <2>1, Zenon DEF Id, Obj
    <3> QED BY <1>2, <1>3, <3>1, Zenon DEF SubmitClean
  <2>2. CASE d # c
    <3>1. SubmitClean(d) BY <1>11, Zenon DEF StoreInv, CallsSettled
    <3>2. Enters(d) => Obj(d) \in Tasks BY EntersFacts, Zenon
    <3> QED BY <1>2, <1>3, <1>6, <1>9, <1>11, <2>2, <3>1, <3>2, Zenon DEF SubmitClean
  <2> QED BY <2>1, <2>2
<1>12. ASSUME NEW d \in Callers, NEW e \in Callers PROVE Overtakes(d, e)'
  <2> SUFFICES ASSUME Marked(d)', Enters(e)', Obj(d)' = Obj(e)' PROVE Id(e)' \in raced' BY Zenon DEF Overtakes
  <2>1. d # c BY <1>8, Zenon DEF Marked
  <2>2. Obj(c)' = t BY <1>4, Zenon DEF Obj
  <2>3. e # c BY <1>6, <1>9, <1>12, <2>1, <2>2, Zenon
  <2>4. Overtakes(d, e) BY <1>12, Zenon DEF StoreInv, CallsSettled
  <2> QED BY <1>2, <1>9, <2>1, <2>3, <2>4, Zenon DEF Overtakes
<1>13. CallsSettled' BY <1>10, <1>11, <1>12, Zenon DEF CallsSettled
<1>14. EntryKept'
  <2>1. go'[t] = "ready" BY <1>0, <1>1, Zenon
  <2> SUFFICES ASSUME NEW u \in Tasks, IdOf[u] \in unfinished'
               PROVE  /\ go'[u] \in {"ready", "spawned", "work"} /\ u \in ended' =>
                           IdOf[u] \in paused' \/ shuttingDown' \/ daemonOver'
                      /\ go'[u] = "check" /\ u \notin keep' => IdOf[u] \in paused' \/ shuttingDown'
                      /\ go'[u] = "drop" => u \in keep'
    BY Zenon DEF EntryKept
  <2>2. CASE u = t BY <1>2, <1>3, <2>1, <2>2
  <2>3. CASE u # t
    <3>1. go'[u] = go[u] /\ (u \in ended' => u \in ended) BY <1>3, <1>7, <2>3, Zenon
    <3> QED BY <1>2, <1>3, <3>1, Zenon DEF StoreInv, EntryKept
  <2> QED BY <2>2, <2>3, Zenon
<1> QED BY <1>13, <1>14

\* The steps of Submit.
LEMMA SubmitKeepsEntry ==
    ASSUME RunInv, StoreInv, NEW c \in Callers,
           SubmitInsert(c) \/ SubmitClear(c) \/ SubmitStore(c) \/ SubmitTrack(c) \/ SubmitStart(c) \/ SubmitDispatch(c)
    PROVE  StoreInv'
<1>0. /\ call \in [Callers -> CallType] /\ go \in [Tasks -> GoStates] /\ IdOf \in [Tasks -> IDs]
      /\ store \in [IDs -> {"absent", "live", "paused"}]
      /\ unfinished \subseteq IDs /\ cancelled \subseteq IDs /\ held \subseteq IDs /\ raced \cap unfinished = {}
  BY ManagerAssumption, Zenon DEF RunInv, CallsTyped, ReadyToRun, StoreInv, StoreTyped
<1>1. UNCHANGED <<phase, daemonOver, shuttingDown, keep, boot>>
  BY Zenon DEF SubmitInsert, SubmitClear, SubmitStore, SubmitTrack, SubmitStart, SubmitDispatch, slots, slotVars,
               NewTask, Enqueue, EnqueueDispatch
<1>2. call[c].op = "submit" /\ call[c].pc \notin {"idle", "mark"}
  BY DEF SubmitInsert, SubmitClear, SubmitStore, SubmitTrack, SubmitStart, SubmitDispatch, At
<1>3. Quiet'
  <2>1. call[c] # Idle BY <1>2 DEF Idle
  <2> QED BY <1>1, <2>1, Zenon DEF StoreInv, Quiet
<1>4. Id(c) \in IDs BY <1>2, CallFacts, Zenon DEF RunInv
<1>5. \A d \in Callers : d # c => NothingNew(d)
  BY OthersStay, SameCall, Zenon DEF CallStep, RunInv
<1>6. CASE SubmitInsert(c)
  <2>1. /\ UNCHANGED <<store, paused, unfinished, raced>> /\ cancelled' \subseteq cancelled /\ held' \subseteq held
    BY <1>6, Zenon DEF SubmitInsert
  <2>2. StoreTyped' /\ ResumeSurvives' /\ CancelIsTerminal' /\ PauseSticks' BY <1>1, <2>1, SameStore, Zenon
  <2>3. CASE active[Id(c)] # NoTask
    <3>1. Return(c) /\ UNCHANGED <<go, ended>>
      BY <1>6, <2>3, Zenon DEF SubmitInsert, slots, slotVars
    <3>2. EntryKept' BY <1>1, <2>1, <3>1, EntryFrame, Zenon
    <3>3. NothingNew(c) BY <3>1, MovesOn, Zenon
    <3>4. \A t \in Tasks : Live(t)' => Live(t) BY <3>1, Zenon DEF Live
    <3>5. CallsSettled' BY <1>1, <1>5, <2>1, <3>1, <3>3, <3>4, SettledFrame, ZenonT(30)
    <3> QED BY <1>3, <2>2, <3>2, <3>5, Zenon DEF StoreInv
  <2>4. CASE active[Id(c)] = NoTask BY <1>3, <1>6, <2>2, <2>4, InsertKeepsEntry, Zenon DEF StoreInv
  <2> QED BY <2>3, <2>4, Zenon
<1>7. CASE SubmitClear(c) \/ SubmitStore(c)
  <2>1. Enters(c) /\ UNCHANGED <<go, ended, cancelled, held>>
    BY <1>7, ZenonT(30) DEF SubmitClear, SubmitStore, At, Enters, slots, slotVars, history
  <2>2. NothingNew(c)
    <3>1. CASE SubmitClear(c)
      <4>1. call[c].pc = "clear" /\ To(c, "store") BY <3>1, Zenon DEF SubmitClear, At
      <4> QED BY <1>2, <4>1, MovesOn, Zenon
    <3>2. CASE SubmitStore(c)
      <4>1. call[c].pc # "mark" /\ To(c, "track") BY <1>2, <3>2, Zenon DEF SubmitStore
      <4> QED BY <4>1, MovesOn, Zenon
    <3> QED BY <1>7, <3>1, <3>2, Zenon
  <2>3. SubmitClean(c) BY Zenon DEF StoreInv, CallsSettled
  <2>4. /\ Submitting(c) /\ Obj(c) \in Tasks /\ go[Obj(c)] = "ready" /\ IdOf[Obj(c)] = Id(c) /\ Live(Obj(c))
    BY <2>1, EntersFacts, Zenon
  <2>5. /\ unfinished' \subseteq unfinished \cup {Id(c)} /\ unfinished \subseteq unfinished'
        /\ paused \subseteq paused' \cup {Id(c)} /\ raced \subseteq raced' \cup {Id(c)}
    BY <1>7, ZenonT(30) DEF SubmitClear, SubmitStore, history
  <2>6. Id(c) \in raced => Id(c) \notin unfinished'
    BY <1>0, <1>7, SMTT(30) DEF SubmitClear, SubmitStore, history
  <2>7. \A t \in Tasks : IdOf[t] = Id(c) /\ t # Obj(c) => ~Live(t) BY <2>4, OnlyRun, Zenon DEF StoreInv
  <2>8. Id(c) \in unfinished' => NoneStopped(Id(c))
    <3> SUFFICES ASSUME Id(c) \in unfinished', NEW d \in Callers, Marked(d), Id(d) = Id(c), Live(Obj(d))
                 PROVE  FALSE
      BY Zenon DEF NoneStopped
    <3>1. StopSettled(d) /\ Overtakes(d, c) BY Zenon DEF StoreInv, CallsSettled
    <3>2. Obj(d) \in Tasks /\ IdOf[Obj(d)] = Id(d) BY <3>1, Zenon DEF StopSettled, Marked
    <3>3. Obj(d) = Obj(c) BY <2>7, <3>2, Zenon
    <3> QED BY <2>1, <2>6, <3>1, <3>3, Zenon DEF Overtakes
  <2>9. \A id \in unfinished' : \/ id \in unfinished /\ (id \in paused => id \in paused')
                                \/ NoneStopped(id)
    BY <2>5, <2>8, Zenon
  <2>10. ASSUME NEW d \in Callers, Enters(d)', Id(d) \in raced PROVE Id(d) \in raced'
    <3>1. CASE SubmitClear(c) BY <2>10, <3>1, Zenon DEF SubmitClear, history
    <3>2. CASE SubmitStore(c)
      <4>1. To(c, "track") BY <3>2, Zenon DEF SubmitStore
      <4>2. call'[c].pc = "track" BY <1>0, <4>1 DEF To, CallType
      <4>3. d # c BY <2>10, <4>2 DEF Enters
      <4>4. Enters(d) BY <1>5, <2>10, <4>3, Zenon DEF NothingNew
      <4>5. Id(d) # Id(c) BY <2>1, <4>3, <4>4, OneEnters, Zenon DEF StoreInv
      <4> QED BY <2>5, <2>10, <4>5, Zenon
    <3> QED BY <1>7, <3>1, <3>2, Zenon
  <2>11. CallsSettled'
    <3>1. \A t \in Tasks : Live(t)' => Live(t) BY <2>1, Zenon DEF Live
    <3>2. \A d \in Callers : NothingNew(d) BY <1>5, <2>2, Zenon
    <3> QED BY <1>1, <2>1, <2>9, <2>10, <3>1, <3>2, SettledFrame, ZenonT(30)
  <2>12. EntryKept'
    <3>1. ASSUME NEW u \in Tasks, IdOf[u] = Id(c), u # Obj(c)
          PROVE  go[u] \notin {"ready", "spawned", "work", "check", "drop"}
      BY <2>7, <3>1 DEF Live
    <3>2. \A u \in Tasks : IdOf[u] # Id(c) /\ IdOf[u] \in unfinished' =>
            IdOf[u] \in unfinished /\ (IdOf[u] \in paused => IdOf[u] \in paused')
      BY <2>5, Zenon
    <3>3. Id(c) \in unfinished' /\ Obj(c) \in ended => shuttingDown \/ daemonOver
      BY <2>1, <2>3, <2>6, Zenon DEF SubmitClean
    <3> QED BY <1>1, <2>1, <2>4, <3>1, <3>2, <3>3, SMTT(30) DEF StoreInv, EntryKept
  <2>13. \A id \in IDs : id # Id(c) => store'[id] = store[id]
    BY <1>0, <1>7, Zenon DEF SubmitClear, SubmitStore
  <2>14. StoreTyped'
    <3>1. store' \in [IDs -> {"absent", "live", "paused"}]
      BY <1>0, <1>4, <1>7, Zenon DEF SubmitClear, SubmitStore
    <3>2. raced' \cap unfinished' = {}
      BY <1>0, <1>7, SMTT(30) DEF SubmitClear, SubmitStore, history
    <3>3. unfinished' \subseteq IDs BY <1>0, <1>4, <2>5, Zenon
    <3> QED BY <1>0, <2>1, <3>1, <3>2, <3>3, Zenon DEF StoreTyped
  <2>15. ResumeSurvives'
    <3>1. CASE UNCHANGED <<store, unfinished>> BY <3>1, ZenonT(30) DEF StoreInv, ResumeSurvives
    <3>2. CASE store' = [store EXCEPT ![Id(c)] = "live"]
      <4>1. store'[Id(c)] = "live" BY <1>0, <1>4, <3>2, Zenon
      <4> QED BY <1>0, <2>5, <2>13, <4>1, ZenonT(30) DEF StoreInv, ResumeSurvives
    <3> QED BY <1>7, <3>1, <3>2, Zenon DEF SubmitClear, SubmitStore, history
  <2>16. Id(c) \notin cancelled \cup held BY <2>1, <2>3, Zenon DEF SubmitClean
  <2>17. CancelIsTerminal' BY <1>0, <2>1, <2>13, <2>16, Zenon DEF StoreInv, CancelIsTerminal
  <2>18. PauseSticks' BY <1>0, <1>1, <2>1, <2>13, <2>16, Zenon DEF StoreInv, PauseSticks
  <2> QED BY <1>3, <2>11, <2>12, <2>14, <2>15, <2>17, <2>18, ZenonT(30) DEF StoreInv
<1>8. CASE SubmitTrack(c) \/ SubmitStart(c) \/ SubmitDispatch(c)
  <2>1. UNCHANGED <<ended, store, paused, unfinished, cancelled, held, raced>>
    BY <1>8, Zenon DEF SubmitTrack, SubmitStart, SubmitDispatch, slots, slotVars, Enqueue, EnqueueDispatch, history
  <2>2. Return(c) \/ To(c, "start") \/ To(c, "dispatch")
    BY <1>8, Zenon DEF SubmitTrack, SubmitStart, SubmitDispatch
  <2>3. NothingNew(c) BY <1>2, <2>2, MovesOn, Zenon
  <2>4. \A u \in Tasks : go'[u] = go[u] \/ (go[u] = "ready" /\ go'[u] = "spawned")
    <3>1. CASE SubmitStart(c)
      <4>1. Submitting(c) BY <3>1, ZenonT(30) DEF SubmitStart, At, Submitting
      <4>2. go[Obj(c)] = "ready" BY <4>1, SubmittingFacts, Zenon
      <4> QED BY <1>0, <3>1, <4>2, ZenonT(30) DEF SubmitStart
    <3>2. CASE SubmitTrack(c) \/ SubmitDispatch(c) BY <3>2, Zenon DEF SubmitTrack, SubmitDispatch
    <3> QED BY <1>8, <3>1, <3>2, Zenon
  <2>5. EntryKept' BY <1>1, <2>1, <2>4, EntryFrame, Zenon
  <2>6. \A u \in Tasks : Live(u)' => Live(u) BY <2>4 DEF Live
  <2>7. CallsSettled' BY <1>1, <1>5, <2>1, <2>3, <2>6, SettledFrame, ZenonT(30)
  <2>8. StoreTyped' /\ ResumeSurvives' /\ CancelIsTerminal' /\ PauseSticks' BY <1>1, <2>1, SameStore, Zenon
  <2> QED BY <1>3, <2>5, <2>7, <2>8, Zenon DEF StoreInv
<1> QED BY <1>6, <1>7, <1>8, Zenon

\* A cancel or a pause changes the pause set.
LEMMA MarkKeepsEntry ==
    ASSUME RunInv, StoreInv, NEW c \in Callers, StopMark(c)
    PROVE  CallsSettled' /\ EntryKept' /\ StoreTyped' /\ ResumeSurvives' /\ CancelIsTerminal' /\ PauseSticks'
<1>0. /\ call \in [Callers -> CallType] /\ call[c] \in CallType
      /\ store \in [IDs -> {"absent", "live", "paused"}] /\ raced \cap unfinished = {}
  BY Zenon DEF RunInv, CallsTyped, StoreInv, StoreTyped
<1>1. UNCHANGED <<daemonOver, shuttingDown, keep, boot, go, ended, store, cancelled, held>>
  BY Zenon DEF StopMark, slots, slotVars
<1>2. Stopping(c) /\ To(c, "settle") BY Zenon DEF StopMark, At, Stopping
<1>3. /\ unfinished' = IF call[c].op = "cancel" \/ Entering(Id(c)) THEN unfinished \ {Id(c)} ELSE unfinished
      /\ raced' = IF Entering(Id(c)) THEN raced \cup {Id(c)} ELSE raced
      /\ paused' = IF call[c].op = "cancel" THEN paused \ {Id(c)} ELSE paused \cup {Id(c)}
  BY Zenon DEF StopMark
<1>4. unfinished' \subseteq unfinished /\ raced \subseteq raced' /\ raced' \cap unfinished' = {} BY <1>0, <1>3
<1>5. Id(c) \in unfinished' => Id(c) \in paused' BY <1>2, <1>3 DEF Stopping
<1>6. \A id \in unfinished' : id \in paused => id \in paused' BY <1>3, <1>5
<1>7. StoreTyped' /\ ResumeSurvives' /\ CancelIsTerminal' /\ PauseSticks'
  BY <1>0, <1>1, <1>4, MarksFrame, Zenon
<1>8. EntryKept' BY <1>1, <1>4, <1>6, EntryFrame, Zenon
<1>9. \A d \in Callers : call'[d].op = call[d].op /\ call'[d].id = call[d].id /\ call'[d].task = call[d].task
                         /\ (d # c => call'[d] = call[d]) /\ call'[c].pc = "settle"
  <2>1. call'[c] = [call[c] EXCEPT !.pc = "settle"] /\ \A d \in Callers : d # c => call'[d] = call[d]
    BY <1>0, <1>2, Zenon DEF To
  <2>2. call'[c].op = call[c].op /\ call'[c].id = call[c].id /\ call'[c].task = call[c].task /\ call'[c].pc = "settle"
    BY <1>0, <2>1, SMTT(30) DEF CallType
  <2> QED BY <2>1, <2>2, Zenon
<1>10. \A d \in Callers : Id(d)' = Id(d) /\ Obj(d)' = Obj(d) /\ (Stopping(d)' <=> Stopping(d))
                          /\ (d # c /\ Marked(d)' => Marked(d)) /\ (Enters(d)' => Enters(d))
  <2>1. ~Enters(c)' BY <1>9 DEF Enters
  <2> QED BY <1>9, <2>1, Zenon DEF Id, Obj, Stopping, Marked, Enters
<1>11. ASSUME NEW d \in Callers PROVE StopSettled(d)'
  <2>1. StopSettled(d) BY <1>11, Zenon DEF StoreInv, CallsSettled
  <2>2. ASSUME Marked(d)', Live(Obj(d))', Id(d)' \in unfinished' PROVE Id(d)' \in paused'
    <3>1. CASE Id(d) = Id(c) BY <1>5, <1>10, <1>11, <2>2, <3>1, Zenon
    <3>2. CASE Id(d) # Id(c)
      <4>1. Marked(d) BY <1>10, <1>11, <2>2, <3>2, Zenon
      <4>2. Live(Obj(d)) BY <1>1, <1>10, <1>11, <2>2, Zenon DEF Live
      <4>3. Id(d) \in unfinished BY <1>4, <1>10, <1>11, <2>2, Zenon
      <4> QED BY <1>6, <1>10, <1>11, <2>1, <2>2, <4>1, <4>2, <4>3, Zenon DEF StopSettled
    <3> QED BY <3>1, <3>2
  <2> QED BY <1>1, <1>10, <1>11, <2>1, <2>2, Zenon DEF StopSettled
<1>12. ASSUME NEW d \in Callers PROVE SubmitClean(d)'
  <2>1. SubmitClean(d) BY <1>12, Zenon DEF StoreInv, CallsSettled
  <2> QED BY <1>1, <1>4, <1>10, <1>12, <2>1, Zenon DEF SubmitClean
<1>13. ASSUME NEW d \in Callers, NEW e \in Callers PROVE Overtakes(d, e)'
  <2> SUFFICES ASSUME Marked(d)', Enters(e)', Obj(d)' = Obj(e)' PROVE Id(e)' \in raced' BY Zenon DEF Overtakes
  <2>1. Enters(e) /\ Obj(d) = Obj(e) BY <1>10, <1>13, Zenon
  <2>2. CASE d = c
    <3>1. StopSettled(c) BY Zenon DEF StoreInv, CallsSettled
    <3>2. IdOf[Obj(c)] = Id(c) BY <1>2, <3>1, Zenon DEF StopSettled
    <3>3. Id(e) = Id(c) BY <2>1, <2>2, <3>2, EntersFacts, Zenon
    <3>4. Entering(Id(c)) BY <2>1, <3>3, Zenon DEF Entering
    <3>5. Id(c) \in raced' BY <1>3, <3>4
    <3> QED BY <1>10, <1>13, <3>3, <3>5, Zenon
  <2>3. CASE d # c
    <3>1. Overtakes(d, e) /\ Marked(d) BY <1>10, <1>13, <2>3, Zenon DEF StoreInv, CallsSettled
    <3> QED BY <1>4, <1>10, <1>13, <2>1, <3>1, Zenon DEF Overtakes
  <2> QED BY <2>2, <2>3
<1>14. CallsSettled' BY <1>11, <1>12, <1>13, Zenon DEF CallsSettled
<1> QED BY <1>7, <1>8, <1>14

\* The steps of CancelTask, PauseTask and DropResume.
LEMMA StopKeepsEntry ==
    ASSUME RunInv, StoreInv, NEW c \in Callers,
           StopMark(c) \/ Settle(c) \/ StopDequeue(c) \/ StopForget(c) \/ StopUntrack(c) \/ StopCancel(c)
             \/ StopStatus(c) \/ DropUnmark(c)
    PROVE  StoreInv'
<1>0. /\ call \in [Callers -> CallType] /\ call[c] \in CallType /\ go \in [Tasks -> GoStates]
      /\ store \in [IDs -> {"absent", "live", "paused"}]
      /\ unfinished \subseteq IDs /\ cancelled \subseteq IDs /\ held \subseteq IDs /\ raced \cap unfinished = {}
  BY Zenon DEF RunInv, CallsTyped, ReadyToRun, StoreInv, StoreTyped
<1>1. UNCHANGED <<phase, daemonOver, shuttingDown, keep, boot>>
  BY ZenonT(30) DEF StopMark, Settle, StopDequeue, StopForget, StopUntrack, StopCancel, StopStatus, DropUnmark, slots,
               slotVars, Dequeue, EndContexts
<1>2. call[c] # Idle
  <2>1. call[c].op \in {"cancel", "pause", "drop"}
    BY Zenon DEF StopMark, Settle, StopDequeue, StopForget, StopUntrack, StopCancel, StopStatus, DropUnmark, At
  <2> QED BY <2>1, IdleType
<1>3. Quiet' BY <1>1, <1>2, Zenon DEF StoreInv, Quiet
<1>4. CASE StopMark(c) BY <1>3, <1>4, MarkKeepsEntry, Zenon DEF StoreInv
<1>5. CASE ~StopMark(c)
  <2>1. NothingNew(c)
    <3>1. \/ Return(c)
          \/ /\ call[c].pc # "mark"
             /\ \E p \in {"dequeue", "forget", "untrack", "cancel", "status"} : To(c, p)
      BY <1>5, Zenon DEF Settle, StopDequeue, StopForget, StopUntrack, StopCancel, StopStatus, DropUnmark, At
    <3> QED BY <3>1, MovesOn, Zenon
  <2>2. \A d \in Callers : NothingNew(d) BY <2>1, OthersStay, SameCall, Zenon DEF CallStep, RunInv
  <2>3. StopSettled(c) BY Zenon DEF StoreInv, CallsSettled
  <2>4. CASE Settle(c)
    <3>1. UNCHANGED <<go, ended, paused>> /\ Stopping(c) BY <2>4, Zenon DEF Settle, slots, slotVars, At, Stopping
    <3>2. Id(c) \in IDs /\ boot = {} BY <2>3, <3>1, Zenon DEF StopSettled
    <3>3. LastWord(c) BY <2>4, Zenon DEF Settle
    <3>4. /\ unfinished' \subseteq unfinished /\ raced \subseteq raced' /\ raced' \cap unfinished' = {}
          /\ call[c].op = "cancel" => Id(c) \notin unfinished'
      BY <1>0, <3>3 DEF LastWord
    <3>5. \A id \in cancelled' : id \in cancelled \/ (id = Id(c) /\ call[c].op = "cancel" /\ ~Entering(id))
      BY <3>3, ZenonT(30) DEF LastWord
    <3>6. \A id \in held' : id \in held \/ (id = Id(c) /\ call[c].op = "pause" /\ ~Entering(id))
      BY <3>3, ZenonT(30) DEF LastWord
    <3>7. CallsSettled'
      <4>1. \A t \in Tasks : Live(t)' => Live(t) BY <3>1, Zenon DEF Live
      <4>2. \A id \in cancelled' \cup held' : id \in cancelled \cup held \/ ~Entering(id) BY <3>5, <3>6, Zenon
      <4>3. \A id \in unfinished' : id \in unfinished /\ (id \in paused => id \in paused') BY <3>1, <3>4, Zenon
      <4>4. \A d \in Callers : Enters(d)' /\ Id(d) \in raced => Id(d) \in raced' BY <3>4, Zenon
      <4> QED BY <1>1, <2>2, <3>1, <4>1, <4>2, <4>3, <4>4, SettledFrame, ZenonT(30)
    <3>8. EntryKept' BY <1>1, <3>1, <3>4, EntryFrame, Zenon
    <3>9. store' = [store EXCEPT ![Id(c)] = IF call[c].op = "cancel" \/ @ = "absent" THEN "absent" ELSE "paused"]
      BY <2>4, Zenon DEF Settle
    <3>10. /\ store' \in [IDs -> {"absent", "live", "paused"}]
           /\ \A id \in IDs : /\ id # Id(c) => store'[id] = store[id]
                              /\ store[id] = "absent" => store'[id] = "absent"
                              /\ store'[id] = "live" => store[id] = "live"
           /\ store'[Id(c)] # "live"
           /\ call[c].op = "cancel" => store'[Id(c)] = "absent"
           /\ call[c].op # "cancel" /\ store[Id(c)] # "absent" => store'[Id(c)] # "absent"
      BY <1>0, <3>2, <3>9
    <3>11. cancelled' \subseteq IDs /\ held' \subseteq IDs BY <1>0, <3>2, <3>5, <3>6, Zenon
    <3>12. StoreTyped' BY <1>0, <3>4, <3>10, <3>11, Zenon DEF StoreTyped
    <3>13. ResumeSurvives'
      <4>1. \A id \in unfinished' : id \in unfinished /\ id \in IDs BY <1>0, <3>4, Zenon
      <4> QED BY <3>4, <3>10, <4>1 DEF StoreInv, ResumeSurvives
    <3>14. CancelIsTerminal' BY <1>0, <3>5, <3>10, Zenon DEF StoreInv, CancelIsTerminal
    <3>15. PauseSticks' BY <1>0, <1>1, <3>2, <3>6, <3>10 DEF StoreInv, PauseSticks
    <3> QED BY <1>3, <3>7, <3>8, <3>12, <3>13, <3>14, <3>15, ZenonT(30) DEF StoreInv
  <2>5. CASE DropUnmark(c)
    <3>1. /\ UNCHANGED <<go, ended, store, cancelled, held, raced>> /\ paused' = paused \ {Id(c)}
          /\ unfinished' = IF Id(c) \in paused THEN unfinished \ {Id(c)} ELSE unfinished
      BY <2>5, Zenon DEF DropUnmark, slots, slotVars
    <3>2. unfinished' \subseteq unfinished /\ \A id \in unfinished' : id \in paused => id \in paused' BY <3>1
    <3>3. \A t \in Tasks : Live(t)' => Live(t) BY <3>1, Zenon DEF Live
    <3>4. CallsSettled' BY <1>1, <2>2, <3>1, <3>2, <3>3, SettledFrame, ZenonT(30)
    <3>5. EntryKept' BY <1>1, <3>1, <3>2, EntryFrame, Zenon
    <3>6. StoreTyped' /\ ResumeSurvives' /\ CancelIsTerminal' /\ PauseSticks' BY <1>1, <3>1, <3>2, SameStore, Zenon
    <3> QED BY <1>3, <3>4, <3>5, <3>6, Zenon DEF StoreInv
  <2>6. CASE StopDequeue(c) \/ StopForget(c) \/ StopUntrack(c) \/ StopCancel(c) \/ StopStatus(c)
    <3>1. UNCHANGED <<store, paused, unfinished, cancelled, held, raced>>
      BY <2>6, ZenonT(30) DEF StopDequeue, StopForget, StopUntrack, StopCancel, StopStatus, history
    <3>2. Marked(c)
      BY <2>6, ZenonT(30) DEF StopDequeue, StopForget, StopUntrack, StopCancel, StopStatus, At, Marked, Stopping
    <3>3. Obj(c) \in Tasks /\ IdOf[Obj(c)] = Id(c) BY <2>3, <3>2, Zenon DEF StopSettled, Marked
    <3>4. \A u \in Tasks : go'[u] = go[u] \/ go'[u] = "idle"
      BY <1>0, <2>6, Zenon DEF StopDequeue, StopForget, StopUntrack, StopCancel, StopStatus
    <3>5. ended' = ended \/ ended' = ended \cup {Obj(c)}
      BY <2>6, ZenonT(30) DEF StopDequeue, StopForget, StopUntrack, StopCancel, StopStatus, Dequeue, EndContexts, slots,
                         slotVars
    <3>6. \A u \in Tasks : Live(u)' => Live(u) BY <3>4 DEF Live
    <3>7. EntryKept'
      <4>1. Live(Obj(c))' => Live(Obj(c)) \/ Obj(c)' # Obj(c) BY <3>3, <3>6, Zenon DEF Live
      <4>2. \A t \in Tasks : t \in ended' /\ Live(t)' /\ IdOf[t] \in unfinished' =>
              t \in ended \/ IdOf[t] \in paused'
        BY <2>3, <3>1, <3>2, <3>3, <3>5, <3>6, Zenon DEF StopSettled
      <4>3. \A t \in Tasks : go'[t] = go[t] \/ go'[t] \notin {"ready", "spawned", "work", "check", "drop"}
        BY <3>4
      <4> QED BY <1>1, <3>1, <4>2, <4>3, EntryFrame, Zenon
    <3>8. CallsSettled'
      <4>1. \A d \in Callers : Enters(d) /\ Obj(d) = Obj(c) => Id(d) \in raced
        BY <3>2, Zenon DEF StoreInv, CallsSettled, Overtakes
      <4>2. \A t \in ended' : t \in ended \/ \A d \in Callers : Enters(d) /\ Obj(d) = t => Id(d) \in raced
        BY <3>5, <4>1, Zenon
      <4> QED BY <1>1, <2>2, <3>1, <3>6, <4>2, SettledFrame, ZenonT(30)
    <3>9. StoreTyped' /\ ResumeSurvives' /\ CancelIsTerminal' /\ PauseSticks' BY <1>1, <3>1, SameStore, Zenon
    <3> QED BY <1>3, <3>7, <3>8, <3>9, Zenon DEF StoreInv
  <2> QED BY <1>5, <2>4, <2>5, <2>6, Zenon
<1> QED BY <1>4, <1>5, Zenon

\* The daemon's own steps: a shutdown, a failing Run, a cooldown, the restart.
LEMMA DaemonKeepsEntry ==
    ASSUME RunInv, StoreInv,
           ShutdownStep \/ RunFails \/ (\E id \in IDs : CooldownExpires(id)) \/ ProcessRestart \/ UNCHANGED vars
    PROVE  StoreInv'
<1>1. CASE ProcessRestart
  <2>1. /\ \A c \in Callers : call'[c] = Idle
        /\ \A t \in Tasks : go'[t] = "idle"
        /\ phase' = "up" /\ ~daemonOver' /\ UNCHANGED <<store, unfinished, cancelled, held>> /\ raced' = {}
        /\ boot' = {id \in IDs : store[id] = "live"}
    BY <1>1, Zenon DEF ProcessRestart
  <2>2. Quiet' BY <2>1 DEF Quiet
  <2>3. EntryKept' BY <2>1 DEF EntryKept
  <2>4. StoreTyped' /\ ResumeSurvives' /\ CancelIsTerminal'
    BY <2>1, Zenon DEF StoreInv, StoreTyped, ResumeSurvives, CancelIsTerminal
  <2>5. PauseSticks' BY <2>1, Zenon DEF StoreInv, PauseSticks
  <2>6. \A c \in Callers : call'[c].op = "none" BY <2>1, IdleType, Zenon
  <2>7. \A c \in Callers : ~Stopping(c)' /\ ~Marked(c)' /\ ~Enters(c)' BY <2>6 DEF Stopping, Marked, Enters
  <2>8. CallsSettled' BY <2>7, Zenon DEF CallsSettled, StopSettled, SubmitClean, Overtakes
  <2> QED BY <2>2, <2>3, <2>4, <2>5, <2>8, Zenon DEF StoreInv
<1>2. CASE ShutdownStep \/ RunFails \/ (\E id \in IDs : CooldownExpires(id)) \/ UNCHANGED vars
  <2>1. UNCHANGED <<call, boot, paused, keep, store, unfinished, cancelled, held, raced>>
    BY <1>2, Zenon DEF ShutdownStep, ShutdownFlag, ShutdownDrain, ShutdownCancel, ShutdownDone, RunFails,
                       CooldownExpires, vars, volatile, history
  <2>2. /\ phase' # "up" => shuttingDown'
        /\ shuttingDown => shuttingDown'
        /\ daemonOver => daemonOver'
        /\ ended' = ended \/ shuttingDown' \/ daemonOver'
    <3>1. CASE ShutdownFlag BY <3>1, Zenon DEF ShutdownFlag, FlagShutdown
    <3>2. CASE ShutdownDrain BY <3>2, Zenon DEF ShutdownDrain, DrainQueue
    <3>3. CASE ShutdownCancel BY <3>3 DEF ShutdownCancel, EndContexts, StoreInv, Quiet
    <3>4. CASE ShutdownDone BY <3>4 DEF ShutdownDone, slots, slotVars, StoreInv, Quiet
    <3>5. CASE RunFails BY <3>5, Zenon DEF RunFails, EndContexts, StoreInv, Quiet
    <3>6. CASE (\E id \in IDs : CooldownExpires(id)) \/ UNCHANGED vars
      <4>1. UNCHANGED <<phase, daemonOver, shuttingDown, ended>>
        BY <3>6, Zenon DEF CooldownExpires, vars, volatile, slots, slotVars
      <4> QED BY <4>1, Zenon DEF StoreInv, Quiet
    <3> QED BY <1>2, <3>1, <3>2, <3>3, <3>4, <3>5, <3>6, Zenon DEF ShutdownStep
  <2>3. phase' # "down" \/ ShutdownDone \/ phase' = phase
    BY <1>2 DEF ShutdownStep, ShutdownFlag, ShutdownDrain, ShutdownCancel, RunFails, CooldownExpires, vars, volatile
  <2>4. Quiet' BY <2>1, <2>2, <2>3, Zenon DEF StoreInv, Quiet, ShutdownDone
  <2>5. /\ \A t \in Tasks : Live(t)' => Live(t)
        /\ \A t \in Tasks : go'[t] = go[t] \/ go'[t] \notin {"ready", "spawned", "work", "check", "drop"}
    <3>1. CASE ShutdownDrain
      <4>1. \A t \in Tasks : slot[t] = "queued" => go[t] = "ready" BY Zenon DEF RunInv, ReadyToRun
      <4>2. \A t \in Tasks : go'[t] = go[t] \/ (go[t] = "ready" /\ go'[t] = "drained")
        BY <3>1, <4>1, Zenon DEF ShutdownDrain
      <4> QED BY <4>2 DEF Live
    <3>2. CASE ~ShutdownDrain
      <4>1. UNCHANGED go
        BY <1>2, <3>2, Zenon DEF ShutdownStep, ShutdownFlag, ShutdownCancel, ShutdownDone, RunFails,
                                 CooldownExpires, vars, volatile
      <4> QED BY <4>1, Zenon DEF Live
    <3> QED BY <3>1, <3>2, Zenon
  <2>6. EntryKept' BY <2>1, <2>2, <2>5, EntryFrame, Zenon
  <2>7. StoreTyped' /\ ResumeSurvives' /\ CancelIsTerminal' /\ PauseSticks' BY <2>1, SameStore, Zenon
  <2>8. \A c \in Callers : NothingNew(c) BY <2>1, SameCall, Zenon
  <2>9. CallsSettled' BY <2>1, <2>2, <2>5, <2>8, SettledFrame, ZenonT(30)
  <2> QED BY <2>4, <2>6, <2>7, <2>9, Zenon DEF StoreInv
<1> QED BY <1>1, <1>2, Zenon

\* Every step keeps what the next start needs, whatever calls overlap.
LEMMA StoreStep ==
    ASSUME RunInv, StoreInv, boot \subseteq IDs, [Next]_vars
    PROVE  StoreInv'
<1>1. ASSUME NEW c \in Callers, NEW id \in IDs,
             \/ \E force \in BOOLEAN : Submit(c, id, force)
             \/ CancelTask(c, id) \/ PauseTask(c, id) \/ DropResume(c, id)
      PROVE  StoreInv'
  BY <1>1, BeginKeepsEntry, Zenon
<1>2. ASSUME NEW c \in Callers, BootSubmit(c) PROVE StoreInv'
  <2>1. PICK id \in IDs : TRUE BY <1>2, Zenon DEF BootSubmit
  <2> QED BY <1>2, <2>1, BeginKeepsEntry, Zenon
<1>3. ASSUME NEW c \in Callers, CallStep(c) PROVE StoreInv'
  BY <1>3, SubmitKeepsEntry, StopKeepsEntry, ZenonT(30) DEF CallStep
<1>4. ASSUME NEW t \in Tasks, GoStep(t) PROVE StoreInv' BY <1>4, GoKeepsEntry, Zenon
<1>5. CASE ShutdownStep \/ RunFails \/ (\E id \in IDs : CooldownExpires(id)) \/ ProcessRestart \/ UNCHANGED vars
  BY <1>5, DaemonKeepsEntry, Zenon
<1> QED BY <1>1, <1>2, <1>3, <1>4, <1>5, Zenon DEF Next

\* A new daemon with an empty store.
LEMMA StoreInit == Init => StoreInv
<1> SUFFICES ASSUME Init PROVE StoreInv BY Zenon
<1>1. \A c \in Callers : call[c].op = "none" BY Zenon DEF Init, Idle
<1>2. \A c \in Callers : ~Stopping(c) /\ ~Marked(c) /\ ~Enters(c) BY <1>1 DEF Stopping, Marked, Enters
<1>3. CallsSettled BY <1>2, Zenon DEF CallsSettled, StopSettled, SubmitClean, Overtakes
<1>4. StoreTyped /\ EntryKept /\ ResumeSurvives /\ CancelIsTerminal /\ PauseSticks
  BY Zenon DEF Init, StoreTyped, EntryKept, ResumeSurvives, CancelIsTerminal, PauseSticks
<1>5. Quiet BY DEF Init, Quiet
<1> QED BY <1>3, <1>4, <1>5, Zenon DEF StoreInv
=============================================================================
