-------------------------- MODULE HlsEncoderProofs --------------------------
(***************************************************************************)
(* Proofs about the encoder of a HLS session, for any number of segments,  *)
(* ffmpegs, daemon runs and readers.                                       *)
(***************************************************************************)
EXTENDS HlsEncoder, FiniteSetTheorems, TLAPS

Labels == {"idle", "wait", "judge", "restart", "await", "spawn", "reset"}
IsJob(j) == j.at \in Labels /\ j = [at |-> j.at, to |-> j.to, prev |-> j.prev]

EncoderTypeOK ==
  /\ have \subseteq Segs /\ torn \subseteq have /\ sealed \in BOOLEAN
  /\ up \in BOOLEAN /\ closed \in BOOLEAN
  /\ closing \in {"no", "reap", "seal", "discard", "done"}
  /\ born \in 0..MaxSpawns /\ running \subseteq 1..born /\ writing \subseteq running
  /\ DOMAIN pos = Procs /\ DOMAIN job = Agents
  /\ \A a \in Agents: IsJob(job[a])

(* The directory is sealed last, and what lies in it while the session is up was
   written in this life or is in the inherited block. *)
LifeInv ==
  /\ closed <=> closing # "no"
  /\ ~up => ~closed /\ running = {} /\ \A a \in Agents: job[a].at = "idle"
  /\ sealed => up /\ closing = "done" /\ have = Segs
  /\ up => \A k \in have \ mine: k < inherited

(* Supervisors are of ffmpegs that were spawned; a handler that spawned one is on
   record. *)
JobInv ==
  /\ \A p \in Procs: job[p].at # "idle" => p <= born
  /\ \A a \in Agents: job[a].at = "reset" => job[a].prev \in 1..born
  /\ \A r \in Readers: job[r].at = "reset" => "seek" \in relaunched

(* Only one supervisor is at work; it waits for the ffmpeg of the moment, and on
   its way to the next one there is none. *)
OneEncoder ==
  /\ running \subseteq {cmd} /\ (closed => running = {})
  /\ \A p, q \in Procs: job[p].at # "idle" /\ job[q].at # "idle" => p = q
  /\ \A p \in Procs: job[p].at \in {"judge", "restart", "await", "spawn"} => running = {}
  /\ \A p \in Procs: job[p].at \in {"wait", "reset"} => job[p].prev = cmd

(* A truncated segment is the last one there is; the encoder writes behind all the
   others. *)
LastTorn ==
  /\ \A k \in torn, j \in have: j <= k
  /\ \A p \in running: pos[p] \in Nat
  /\ \A p \in running \ writing: torn = {} /\ \A j \in have: j < pos[p]
  /\ \A p \in writing: torn \subseteq {pos[p]} /\ \A j \in have: j <= pos[p]

(* The inductive invariant. *)
EncoderInv ==
  /\ EncoderTypeOK /\ LifeInv /\ JobInv
  /\ "seek" \notin relaunched => OneEncoder
  /\ relaunched = {} => LastTorn

-----------------------------------------------------------------------------
(* The inherited block. *)

(* The length of the unbroken prefix is a number, and no segment of the directory
   lies behind more than all of it. *)
LEMMA PrefixBound ==
  ASSUME NEW k \in Segs, \A j \in have: j <= k
  PROVE  Prefix \in Nat /\ Prefix <= k + 1
<1> DEFINE P == {i \in Segs: \A j \in 0..i: j \in have}
<1>1. P \in SUBSET (0..k)
  <2> SUFFICES ASSUME NEW i \in P PROVE i \in 0..k OBVIOUS
  <2>1. i \in Segs /\ i \in Nat BY EncoderAssumption DEF Segs
  <2>2. i \in 0..i BY <2>1
  <2>3. i \in have BY <2>2
  <2> QED BY <2>1, <2>3, EncoderAssumption DEF Segs
<1>2. k \in Nat BY EncoderAssumption DEF Segs
<1>3. IsFiniteSet(0..k) /\ Cardinality(0..k) = k + 1
  <2>1. 0 \in Int /\ k \in Int /\ ~(0 > k) /\ k - 0 + 1 = k + 1 BY <1>2
  <2> QED BY <2>1, FS_Interval, Zenon
<1>4. IsFiniteSet(P) /\ Cardinality(P) <= Cardinality(0..k) BY <1>1, <1>3, FS_Subset, Zenon
<1>5. Cardinality(P) \in Nat BY <1>4, FS_CardinalityType, Zenon
<1>6. Prefix = Cardinality(P) BY Zenon DEF Prefix
<1> QED BY <1>3, <1>4, <1>5, <1>6, Zenon

(* ... and in any directory it is a number. *)
LEMMA PrefixNat == have \subseteq Segs => Prefix \in Nat
<1> SUFFICES ASSUME have \subseteq Segs PROVE Prefix \in Nat OBVIOUS
<1>1. SegmentCount - 1 \in Segs BY EncoderAssumption DEF Segs
<1>2. \A j \in have: j <= SegmentCount - 1 BY EncoderAssumption DEF Segs
<1> QED BY <1>1, <1>2, PrefixBound, Zenon

-----------------------------------------------------------------------------
(* Jobs. *)

(* The names of supervisors and of handlers are told apart. *)
LEMMA AgentKinds ==
  /\ Procs \subseteq Agents /\ Readers \subseteq Agents
  /\ \A r \in Readers: r \notin Procs
BY EncoderAssumption DEF Procs, Agents

(* The agent is given another job. *)
Gets(a, j) == DOMAIN job' = Agents /\ job'[a] = j /\ \A b \in Agents \ {a}: job'[b] = job[b]

(* Changing two fields of a job is giving the agent another one. *)
LEMMA JobFields ==
  ASSUME EncoderTypeOK, NEW a \in Agents, NEW x, NEW y,
         job' = [job EXCEPT ![a].at = x, ![a].prev = y]
  PROVE  Gets(a, [at |-> x, to |-> job[a].to, prev |-> y])
<1>1. DOMAIN job = Agents /\ IsJob(job[a]) BY Zenon DEF EncoderTypeOK
<1>2. job'[a] = [at |-> x, to |-> job[a].to, prev |-> y] BY <1>1, Zenon DEF IsJob
<1>3. DOMAIN job' = Agents /\ \A b \in Agents \ {a}: job'[b] = job[b] BY <1>1
<1> QED BY <1>2, <1>3, Zenon DEF Gets

(* ... as is changing all of it. *)
LEMMA JobWhole ==
  ASSUME EncoderTypeOK, NEW a \in Agents, NEW j, job' = [job EXCEPT ![a] = j]
  PROVE  Gets(a, j)
BY Zenon DEF EncoderTypeOK, Gets

(* A job whose fields are given. *)
LEMMA JobRecord ==
  ASSUME NEW x \in Labels, NEW y, NEW z
  PROVE  /\ IsJob([at |-> x, to |-> y, prev |-> z]) /\ [at |-> x, to |-> y, prev |-> z].at = x
         /\ [at |-> x, to |-> y, prev |-> z].prev = z
BY DEF IsJob

(* An agent that moves, possibly stopping an ffmpeg, to a job in which it has
   spawned nothing. *)
Moves(a, j) ==
  /\ j.at \in Labels \ {"wait", "reset"} /\ IsJob(j)
  /\ a \in Procs => job[a].at # "idle"
  /\ "seek" \notin relaunched /\ a \in Procs /\ j.at # "idle" => running' = {}
  /\ Gets(a, j)

Stops ==
  /\ running' \subseteq running /\ writing' = writing \cap running'
  /\ DOMAIN pos' = Procs /\ \A p \in running': pos'[p] = pos[p]

encoderRest == <<have, torn, mine, sealed, up, closed, closing, born, cmd, inherited, relaunched>>

(* Stopping an ffmpeg tears nothing that was not torn before. *)
LEMMA StopsLast ==
  ASSUME LastTorn, Stops, have' = have, torn' = torn
  PROVE  LastTorn'
BY Zenon DEF LastTorn, Stops

(* A step of an agent that changes its own job, and may stop encoders, keeps the invariant. *)
LEMMA MovesInv ==
  ASSUME EncoderInv, up, Stops, NEW a \in Agents, NEW j, Moves(a, j), UNCHANGED encoderRest
  PROVE  EncoderInv'
<1>1. /\ DOMAIN job' = Agents /\ job'[a] = j
      /\ \A b \in Agents \ {a}: job'[b] = job[b]
  BY Zenon DEF Moves, Gets
<1>2. EncoderTypeOK'
  <2>1. \A b \in Agents: IsJob(job'[b]) BY <1>1, Zenon DEF Moves, EncoderInv, EncoderTypeOK
  <2>2. running' \subseteq 1..born /\ writing' \subseteq running' BY Zenon DEF Stops, EncoderInv, EncoderTypeOK
  <2> QED BY <1>1, <2>1, <2>2, Zenon DEF EncoderInv, EncoderTypeOK, Stops, encoderRest, IsJob
<1>3. LifeInv' BY Zenon DEF EncoderInv, LifeInv, encoderRest
<1>4. JobInv'
  <2>1. \A p \in Procs: job'[p].at # "idle" => job[p].at # "idle"
    BY <1>1, AgentKinds, Zenon DEF Moves
  <2>2. \A b \in Agents: job'[b].at = "reset" => job'[b] = job[b] BY <1>1, Zenon DEF Moves
  <2> QED BY <2>1, <2>2, AgentKinds, Zenon DEF EncoderInv, JobInv, encoderRest
<1>5. "seek" \notin relaunched => OneEncoder'
  <2> SUFFICES ASSUME "seek" \notin relaunched PROVE OneEncoder' OBVIOUS
  <2>1. OneEncoder BY Zenon DEF EncoderInv
  <2>2. \A p \in Procs: job'[p].at # "idle" => job[p].at # "idle"
    BY <1>1, AgentKinds, Zenon DEF Moves
  <2>3. running' \subseteq {cmd'} /\ (closed' => running' = {})
    BY <2>1, Zenon DEF OneEncoder, Stops, encoderRest
  <2>4. ASSUME NEW p \in Procs, job'[p].at \in {"judge", "restart", "await", "spawn"}
        PROVE  running' = {}
    <3>1. CASE p = a BY <1>1, <2>4, <3>1, Zenon DEF Moves
    <3>2. CASE p # a
      <4>1. job'[p] = job[p] BY <1>1, <3>2, AgentKinds, Zenon
      <4> QED BY <2>1, <2>4, <4>1, Zenon DEF OneEncoder, Stops
    <3> QED BY <3>1, <3>2
  <2>5. ASSUME NEW p \in Procs, job'[p].at \in {"wait", "reset"}
        PROVE  job'[p].prev = cmd'
    <3>1. p # a BY <1>1, <2>5, Zenon DEF Moves
    <3>2. job'[p] = job[p] BY <1>1, <3>1, AgentKinds, Zenon
    <3> QED BY <2>1, <2>5, <3>2, Zenon DEF OneEncoder, encoderRest
  <2> QED BY <2>1, <2>2, <2>3, <2>4, <2>5, Zenon DEF OneEncoder
<1>6. relaunched = {} => LastTorn' BY StopsLast, Zenon DEF EncoderInv, encoderRest
<1> QED BY <1>2, <1>3, <1>4, <1>5, <1>6, Zenon DEF EncoderInv, encoderRest

-----------------------------------------------------------------------------
(* restartFromSegment *)

(* What runs was spawned. *)
LEMMA RunningProcs == EncoderTypeOK => running \subseteq Procs
BY EncoderAssumption DEF EncoderTypeOK, Procs

(* An ffmpeg that ends, or is killed, is stopped. *)
LEMMA KillStops ==
  ASSUME EncoderTypeOK, NEW p, running' = running \ {p}, writing' = writing \ {p},
         pos' = [pos EXCEPT ![p] = 0]
  PROVE  Stops
BY RunningProcs, Zenon DEF EncoderTypeOK, Stops

(* A step that leaves the encoders alone stops none of them. *)
LEMMA NothingStops ==
  ASSUME EncoderTypeOK, running' = running, writing' = writing, pos' = pos
  PROVE  Stops
BY Zenon DEF EncoderTypeOK, Stops

(* An agent that leaves. *)
LEMMA LeaveMoves ==
  ASSUME EncoderTypeOK, NEW a \in Agents, job[a].at # "idle", Leave(a)
  PROVE  Moves(a, Idle)
<1>1. Gets(a, Idle) BY JobWhole, Zenon DEF Leave
<1>2. IsJob(Idle) /\ Idle.at = "idle" BY JobRecord DEF Idle, Labels
<1> QED BY <1>1, <1>2, Zenon DEF Moves, Labels

(* restartFromSegment: unless it is refused, the encoder of the moment is killed. *)
LEMMA RestartInv ==
  ASSUME EncoderInv, NEW a \in Agents, Restart(a)
  PROVE  EncoderInv'
<1>1. EncoderTypeOK /\ up /\ job[a].at = "restart" BY Zenon DEF EncoderInv, Restart, At
<1>2. UNCHANGED encoderRest BY Zenon DEF Restart, encoderRest, files, daemon, writer, close
<1>3. CASE closed \/ (job[a].to = segStart /\ ~exited)
  <2>1. Moves(a, Idle) BY <1>1, <1>3, LeaveMoves, Zenon DEF Restart
  <2>2. Stops BY <1>1, <1>3, NothingStops, Zenon DEF Restart
  <2> QED BY <1>1, <1>2, <2>1, <2>2, MovesInv, Zenon
<1>4. CASE ~(closed \/ (job[a].to = segStart /\ ~exited))
  <2> DEFINE j == [at |-> "await", to |-> job[a].to, prev |-> cmd]
  <2>1. Gets(a, j) BY <1>1, <1>4, JobFields, Zenon DEF Restart
  <2>2. IsJob(j) /\ j.at = "await" BY JobRecord, Zenon DEF Labels
  <2>3. Stops /\ running' = running \ {cmd} BY <1>1, <1>4, KillStops, Zenon DEF Restart, Kill
  <2>4. "seek" \notin relaunched => running' = {} BY <2>3, Zenon DEF EncoderInv, OneEncoder
  <2>5. Moves(a, j) BY <1>1, <2>1, <2>2, <2>4, Zenon DEF Moves, Labels
  <2> HIDE DEF j
  <2> QED BY <1>1, <1>2, <2>3, <2>5, MovesInv, Zenon
<1> QED BY <1>3, <1>4, Zenon

(* restartFromSegment: the wait for that encoder ends with its exit, or with the timeout. *)
LEMMA AwaitInv ==
  ASSUME EncoderInv, NEW a \in Agents, AwaitExit(a)
  PROVE  EncoderInv'
<1> DEFINE j == [at |-> "spawn", to |-> job[a].to, prev |-> 0]
<1>1. EncoderTypeOK /\ up /\ job[a].at = "await" BY Zenon DEF EncoderInv, AwaitExit, At
<1>2. UNCHANGED encoderRest BY Zenon DEF AwaitExit, encoderRest, files, daemon, procs, writer, close
<1>3. Stops BY <1>1, NothingStops, Zenon DEF AwaitExit, procs
<1>4. Gets(a, j) BY <1>1, JobFields, Zenon DEF AwaitExit
<1>5. IsJob(j) /\ j.at = "spawn" BY JobRecord, Zenon DEF Labels
<1>6. "seek" \notin relaunched /\ a \in Procs => running' = {}
  BY <1>1, Zenon DEF EncoderInv, OneEncoder, AwaitExit, procs
<1>7. Moves(a, j) BY <1>1, <1>4, <1>5, <1>6, Zenon DEF Moves, Labels
<1> HIDE DEF j
<1> QED BY <1>1, <1>2, <1>3, <1>7, MovesInv, Zenon

(* A new ffmpeg: the only one, unless a viewer seeks, since its spawner found none. *)
LEMMA SpawnInv ==
  ASSUME EncoderInv, NEW a \in Agents, Spawn(a)
  PROVE  EncoderInv'
<1>1. EncoderTypeOK /\ LifeInv /\ JobInv /\ up /\ job[a].at = "spawn" BY Zenon DEF EncoderInv, Spawn, At
<1>2. CASE Leave(a) /\ UNCHANGED <<born, running, pos, cmd, segStart, lowest, relaunched>>
  <2>1. Moves(a, Idle) BY <1>1, <1>2, LeaveMoves, Zenon
  <2>2. Stops BY <1>1, <1>2, NothingStops, Zenon DEF Spawn
  <2>3. UNCHANGED encoderRest BY <1>2, Zenon DEF Spawn, encoderRest, files, daemon, close
  <2> QED BY <1>1, <2>1, <2>2, <2>3, MovesInv, Zenon
<1>3. CASE /\ ~closed /\ born < MaxSpawns
           /\ born' = born + 1 /\ running' = running \cup {born + 1}
           /\ pos' = [pos EXCEPT ![born + 1] = job[a].to] /\ cmd' = born + 1
           /\ job' = [job EXCEPT ![a].at = "reset", ![a].prev = born + 1]
           /\ relaunched' = relaunched \cup {IF a \in Readers THEN "seek" ELSE "auto"}
  <2> DEFINE j == [at |-> "reset", to |-> job[a].to, prev |-> born + 1]
  <2>1. Gets(a, j) BY <1>1, <1>3, JobFields, Zenon
  <2>2. IsJob(j) /\ j.at = "reset" /\ j.prev = born + 1 BY JobRecord, Zenon DEF Labels
  <2> HIDE DEF j
  <2>3. UNCHANGED <<have, torn, mine, sealed, up, writing, closed, closing, inherited>>
    BY Zenon DEF Spawn, files, daemon, close
  <2>4. born \in Nat /\ born' \in 0..MaxSpawns /\ 1..born \subseteq 1..born' /\ born + 1 \in 1..born'
    BY <1>1, <1>3, EncoderAssumption DEF EncoderTypeOK
  <2>5. EncoderTypeOK'
    <3>1. \A b \in Agents: IsJob(job'[b]) BY <1>1, <2>1, <2>2, Zenon DEF EncoderTypeOK, Gets
    <3>2. running' \subseteq 1..born' /\ writing' \subseteq running'
      BY <1>1, <1>3, <2>3, <2>4, Zenon DEF EncoderTypeOK
    <3>3. DOMAIN pos' = Procs BY <1>1, <1>3, Zenon DEF EncoderTypeOK
    <3> QED BY <1>1, <2>1, <2>3, <2>4, <3>1, <3>2, <3>3, Zenon DEF EncoderTypeOK, Gets, IsJob
  <2>6. LifeInv' BY <1>1, <2>3, Zenon DEF LifeInv
  <2>7. JobInv'
    <3>1. \A p \in Procs: job'[p].at # "idle" => p <= born'
      <4>1. \A p \in Procs: job'[p].at # "idle" => job[p].at # "idle"
        BY <1>1, <2>1, AgentKinds, Zenon DEF Gets
      <4> QED BY <1>1, <1>3, <2>4, <4>1 DEF JobInv, Procs
    <3>2. ASSUME NEW b \in Agents, job'[b].at = "reset" PROVE job'[b].prev \in 1..born'
      BY <1>1, <2>1, <2>2, <2>4, <3>2, Zenon DEF JobInv, Gets
    <3>3. ASSUME NEW r \in Readers, job'[r].at = "reset" PROVE "seek" \in relaunched'
      <4>1. CASE r = a BY <1>3, <4>1, Zenon
      <4>2. CASE r # a BY <1>1, <1>3, <2>1, <3>3, <4>2, AgentKinds, Zenon DEF JobInv, Gets
      <4> QED BY <4>1, <4>2
    <3> QED BY <3>1, <3>2, <3>3, Zenon DEF JobInv
  <2>8. ASSUME "seek" \notin relaunched' PROVE OneEncoder'
    <3>1. a \in Procs /\ "seek" \notin relaunched BY <1>3, <2>8, Zenon DEF Agents
    <3>2. OneEncoder BY <3>1, Zenon DEF EncoderInv
    <3>3. running' = {cmd'} BY <1>1, <1>3, <3>1, <3>2, Zenon DEF OneEncoder
    <3>4. \A p \in Procs \ {a}: job'[p].at = "idle"
      BY <1>1, <2>1, <3>1, <3>2, AgentKinds, Zenon DEF OneEncoder, Gets
    <3>5. job'[a].at = "reset" /\ job'[a].prev = cmd' BY <1>3, <2>1, <2>2, Zenon DEF Gets
    <3> QED BY <1>3, <2>3, <3>3, <3>4, <3>5, Zenon DEF OneEncoder
  <2>9. relaunched' # {} BY <1>3, Zenon
  <2> QED BY <2>5, <2>6, <2>7, <2>8, <2>9, Zenon DEF EncoderInv
<1> QED BY <1>2, <1>3, Zenon DEF Spawn

(* The supervisor of the new ffmpeg takes over from the agent that spawned it. *)
LEMMA ResetInv ==
  ASSUME EncoderInv, NEW a \in Agents, Reset(a)
  PROVE  EncoderInv'
<1> DEFINE p == job[a].prev
<1>1. EncoderTypeOK /\ LifeInv /\ JobInv /\ up /\ job[a].at = "reset" BY Zenon DEF EncoderInv, Reset, At
<1>2. UNCHANGED encoderRest /\ UNCHANGED <<running, writing, pos>>
  BY Zenon DEF Reset, encoderRest, files, daemon, procs, writer, close
<1>3. p \in 1..born /\ p \in Procs /\ p <= born
  <2>1. p \in 1..born BY <1>1, Zenon DEF JobInv
  <2> QED BY <1>1, <2>1, EncoderAssumption DEF EncoderTypeOK, Procs
<1>4. /\ DOMAIN job' = Agents /\ job'[p] = Waiting(cmd)
      /\ a # p => job'[a] = Idle
      /\ \A b \in Agents \ {a, p}: job'[b] = job[b]
  BY <1>1, <1>3, AgentKinds, Zenon DEF Reset, EncoderTypeOK
<1>5. /\ IsJob(Waiting(cmd)) /\ Waiting(cmd).at = "wait" /\ Waiting(cmd).prev = cmd
      /\ IsJob(Idle) /\ Idle.at = "idle"
  BY JobRecord, Zenon DEF Waiting, Idle, Labels
<1> HIDE DEF p
<1>6. EncoderTypeOK'
  <2>1. \A b \in Agents: IsJob(job'[b]) BY <1>1, <1>4, <1>5, Zenon DEF EncoderTypeOK
  <2> QED BY <1>1, <1>2, <1>4, <2>1, Zenon DEF EncoderTypeOK, encoderRest, IsJob
<1>7. LifeInv' BY <1>1, <1>2, Zenon DEF LifeInv, encoderRest
<1>8. JobInv'
  <2>1. \A q \in Procs: job'[q].at # "idle" => q <= born
    BY <1>1, <1>3, <1>4, <1>5, AgentKinds, Zenon DEF JobInv
  <2>2. \A b \in Agents: job'[b].at = "reset" => job'[b] = job[b] BY <1>4, <1>5, Zenon
  <2> QED BY <1>1, <1>2, <2>1, <2>2, AgentKinds, Zenon DEF JobInv, encoderRest
<1>9. ASSUME "seek" \notin relaunched PROVE OneEncoder'
  <2>1. OneEncoder BY <1>9, Zenon DEF EncoderInv
  <2>2. a \in Procs BY <1>1, <1>9, Zenon DEF JobInv, Agents
  <2>3. \A q \in Procs \ {p}: job'[q].at = "idle"
    BY <1>1, <1>4, <1>5, <2>1, <2>2, AgentKinds, Zenon DEF OneEncoder
  <2> QED BY <1>2, <1>4, <1>5, <2>1, <2>3, Zenon DEF OneEncoder, encoderRest
<1>10. relaunched = {} => LastTorn' BY <1>2, Zenon DEF EncoderInv, LastTorn, encoderRest
<1> QED BY <1>2, <1>6, <1>7, <1>8, <1>9, <1>10, Zenon DEF EncoderInv, encoderRest

(* The steps of a restart, whoever runs it. *)
LEMMA RestartStepsInv ==
  ASSUME EncoderInv, NEW a \in Agents, RestartSteps(a)
  PROVE  EncoderInv'
BY RestartInv, AwaitInv, SpawnInv, ResetInv, Zenon DEF RestartSteps

-----------------------------------------------------------------------------
(* waitFFmpeg and ServeSegment *)

(* The ffmpeg of the moment has ended: there is none. *)
LEMMA WaitInv ==
  ASSUME EncoderInv, NEW p \in Procs, WaitReturns(p)
  PROVE  EncoderInv'
<1> DEFINE j == [at |-> "judge", to |-> readyMax, prev |-> 0]
<1>1. EncoderTypeOK /\ up /\ p \in Agents /\ job[p].at = "wait"
  BY AgentKinds, Zenon DEF EncoderInv, WaitReturns, At
<1>2. UNCHANGED encoderRest BY Zenon DEF WaitReturns, encoderRest, files, daemon, writer, close
<1>3. Stops BY <1>1, NothingStops, Zenon DEF WaitReturns
<1>4. CASE job[p].prev \in clean \/ closed
  <2>1. Leave(p) BY <1>4, Zenon DEF WaitReturns, Leave
  <2>2. Moves(p, Idle) BY <1>1, <2>1, LeaveMoves, Zenon
  <2> QED BY <1>1, <1>2, <1>3, <2>2, MovesInv, Zenon
<1>5. CASE ~(job[p].prev \in clean \/ closed)
  <2>1. job' = [job EXCEPT ![p] = j] BY <1>5, Zenon DEF WaitReturns
  <2>2. Gets(p, j) BY <1>1, <2>1, JobWhole, Zenon
  <2>3. IsJob(j) /\ j.at = "judge" BY JobRecord, Zenon DEF Labels
  <2> HIDE DEF j
  <2>4. "seek" \notin relaunched => running' = {}
    BY <1>1, Zenon DEF WaitReturns, EncoderInv, OneEncoder
  <2>5. Moves(p, j) BY <1>1, <2>2, <2>3, <2>4, Zenon DEF Moves, Labels
  <2> QED BY <1>1, <1>2, <1>3, <2>5, MovesInv, Zenon
<1> QED BY <1>4, <1>5, Zenon

(* A supervisor that decides to start ffmpeg again. *)
LEMMA RelaunchMoves ==
  ASSUME EncoderInv, NEW p \in Procs, job[p].at = "judge", running' = running, NEW t, Relaunch(p, t)
  PROVE  Moves(p, [at |-> "restart", to |-> t, prev |-> 0])
<1> DEFINE j == [at |-> "restart", to |-> t, prev |-> 0]
<1>1. EncoderTypeOK /\ p \in Agents BY AgentKinds, Zenon DEF EncoderInv
<1>2. Gets(p, j) BY <1>1, JobWhole, Zenon DEF Relaunch
<1>3. IsJob(j) /\ j.at = "restart" BY JobRecord, Zenon DEF Labels
<1> HIDE DEF j
<1>4. "seek" \notin relaunched => running' = {} BY Zenon DEF EncoderInv, OneEncoder
<1>5. Moves(p, j) BY <1>2, <1>3, <1>4, Zenon DEF Moves, Labels
<1> QED BY <1>5 DEF j

(* What a supervisor decides changes nothing but its own job. *)
LEMMA JudgeInv ==
  ASSUME EncoderInv, NEW p \in Procs,
         FallbackToTranscode(p) \/ FallbackToSoftwareEncode(p) \/ AutoRestart(p)
  PROVE  EncoderInv'
<1>1. EncoderTypeOK /\ up /\ p \in Agents /\ job[p].at = "judge"
  BY AgentKinds, Zenon DEF EncoderInv, FallbackToTranscode, FallbackToSoftwareEncode, AutoRestart, At
<1>2. UNCHANGED encoderRest /\ UNCHANGED <<running, writing, pos>>
  BY Zenon DEF FallbackToTranscode, FallbackToSoftwareEncode, AutoRestart, encoderRest, files,
               daemon, procs, writer, close
<1>3. Stops BY <1>1, <1>2, NothingStops, Zenon
<1>4. Leave(p) \/ \E t: Relaunch(p, t)
  <2>1. CASE FallbackToTranscode(p) BY <2>1, Zenon DEF FallbackToTranscode
  <2>2. CASE FallbackToSoftwareEncode(p) BY <2>2, Zenon DEF FallbackToSoftwareEncode
  <2>3. CASE AutoRestart(p) BY <2>3, Zenon DEF AutoRestart
  <2> QED BY <2>1, <2>2, <2>3
<1>5. CASE Leave(p)
  <2>1. Moves(p, Idle) BY <1>1, <1>5, LeaveMoves, Zenon
  <2> QED BY <1>1, <1>2, <1>3, <2>1, MovesInv, Zenon
<1>6. ASSUME NEW t, Relaunch(p, t) PROVE EncoderInv'
  <2>1. Moves(p, [at |-> "restart", to |-> t, prev |-> 0]) BY <1>1, <1>2, <1>6, RelaunchMoves, Zenon
  <2> QED BY <1>1, <1>2, <1>3, <2>1, MovesInv, Zenon
<1> QED BY <1>4, <1>5, <1>6, Zenon

(* ServeSegment: a request behind or far ahead of the encoder restarts it. *)
LEMMA ServeSegmentInv ==
  ASSUME EncoderInv, NEW r \in Readers, ServeSegment(r)
  PROVE  EncoderInv'
<1>1. EncoderTypeOK /\ up /\ r \in Agents /\ r \notin Procs
  BY AgentKinds, Zenon DEF EncoderInv, ServeSegment, At
<1>2. UNCHANGED encoderRest BY Zenon DEF ServeSegment, encoderRest, files, daemon, procs, writer, close
<1>3. Stops BY <1>1, NothingStops, Zenon DEF ServeSegment, procs
<1>4. PICK k \in Segs: job' = [job EXCEPT ![r] = [at |-> "restart", to |-> k, prev |-> 0]]
  BY Zenon DEF ServeSegment
<1> DEFINE j == [at |-> "restart", to |-> k, prev |-> 0]
<1>5. Gets(r, j) BY <1>1, <1>4, JobWhole, Zenon
<1>6. IsJob(j) /\ j.at = "restart" BY JobRecord, Zenon DEF Labels
<1> HIDE DEF j
<1>7. Moves(r, j) BY <1>1, <1>5, <1>6, Zenon DEF Moves, Labels
<1> QED BY <1>1, <1>2, <1>3, <1>7, MovesInv, Zenon

-----------------------------------------------------------------------------
(* ffmpeg and the pollers *)

encoderJobs == <<sealed, up, closed, closing, born, running, cmd, inherited, job, relaunched>>

(* A step of ffmpeg inside the directory leaves who runs and who waits alone. *)
LEMMA SameJobs ==
  ASSUME EncoderInv, UNCHANGED encoderJobs
  PROVE  JobInv' /\ ("seek" \notin relaunched' => OneEncoder')
BY Zenon DEF EncoderInv, JobInv, OneEncoder, encoderJobs

(* ffmpeg opens a segment: from here on it is partial. *)
LEMMA WriteBeginInv ==
  ASSUME EncoderInv, NEW p \in Procs, WriteBegin(p)
  PROVE  EncoderInv'
<1>1. EncoderTypeOK /\ LifeInv BY Zenon DEF EncoderInv
<1>2. UNCHANGED encoderJobs BY Zenon DEF WriteBegin, encoderJobs, daemon, writer, close
<1>3. /\ p \in running \ writing /\ pos[p] \in Segs /\ closing # "done"
      /\ have' = have \cup {pos[p]} /\ torn' = torn \cup {pos[p]} /\ mine' = mine \cup {pos[p]}
      /\ writing' = writing \cup {p} /\ pos' = pos
  BY Zenon DEF WriteBegin
<1>4. EncoderTypeOK' BY <1>1, <1>2, <1>3, Zenon DEF EncoderTypeOK, encoderJobs
<1>5. LifeInv' BY <1>1, <1>2, <1>3, Zenon DEF LifeInv, encoderJobs
<1>6. ASSUME relaunched = {} PROVE LastTorn'
  <2>1. LastTorn /\ running \subseteq {cmd} BY <1>6, Zenon DEF EncoderInv, OneEncoder
  <2>2. /\ torn = {} /\ (\A j \in have: j < pos[p]) /\ pos[p] \in Nat
    BY <1>3, <2>1, Zenon DEF LastTorn
  <2>3. \A j \in have': j <= pos[p] BY <1>1, <1>3, <2>2, EncoderAssumption DEF EncoderTypeOK, Segs
  <2>4. running' \ writing' = {} /\ writing' = {p} /\ running' = {p}
    BY <1>1, <1>2, <1>3, <2>1, Zenon DEF EncoderTypeOK, encoderJobs
  <2> QED BY <1>3, <2>2, <2>3, <2>4, Zenon DEF LastTorn
<1> QED BY <1>2, <1>4, <1>5, <1>6, SameJobs, Zenon DEF EncoderInv, encoderJobs

(* ffmpeg closes a segment: it is whole, and of the timeline of this encoder. *)
LEMMA WriteEndInv ==
  ASSUME EncoderInv, NEW p \in Procs, WriteEnd(p)
  PROVE  EncoderInv'
<1>1. EncoderTypeOK /\ LifeInv BY Zenon DEF EncoderInv
<1>2. UNCHANGED encoderJobs /\ have' = have /\ mine' = mine
  BY Zenon DEF WriteEnd, encoderJobs, daemon, writer, close
<1>3. /\ p \in writing /\ torn' = torn \ {pos[p]} /\ pos' = [pos EXCEPT ![p] = pos[p] + 1]
      /\ writing' = writing \ {p}
  BY Zenon DEF WriteEnd
<1>4. EncoderTypeOK' BY <1>1, <1>2, <1>3, Zenon DEF EncoderTypeOK, encoderJobs
<1>5. LifeInv' BY <1>1, <1>2, <1>3, Zenon DEF LifeInv, encoderJobs
<1>6. ASSUME relaunched = {} PROVE LastTorn'
  <2>1. LastTorn /\ running \subseteq {cmd} BY <1>6, Zenon DEF EncoderInv, OneEncoder
  <2>2. running = {p} /\ writing = {p} BY <1>1, <1>3, <2>1, Zenon DEF EncoderTypeOK
  <2>3. /\ torn \subseteq {pos[p]} /\ (\A j \in have: j <= pos[p]) /\ pos[p] \in Nat
    BY <2>1, <2>2, Zenon DEF LastTorn
  <2>4. pos'[p] = pos[p] + 1 BY <1>1, <1>3, Zenon DEF EncoderTypeOK
  <2>5. pos'[p] \in Nat /\ \A j \in have: j < pos'[p]
    BY <1>1, <2>3, <2>4, EncoderAssumption DEF EncoderTypeOK, Segs
  <2>6. torn' = {} /\ writing' = {} /\ running' = {p}
    BY <1>2, <1>3, <2>2, <2>3, Zenon DEF encoderJobs
  <2> QED BY <1>2, <2>5, <2>6, Zenon DEF LastTorn
<1> QED BY <1>2, <1>4, <1>5, <1>6, SameJobs, Zenon DEF EncoderInv, encoderJobs

(* ffmpeg ends, by itself or not. *)
LEMMA EndsInv ==
  ASSUME EncoderInv, NEW p \in Procs, Finishes(p) \/ Dies(p)
  PROVE  EncoderInv'
<1>1. EncoderTypeOK /\ LifeInv BY Zenon DEF EncoderInv
<1>2. UNCHANGED encoderRest /\ job' = job
  BY Zenon DEF Finishes, Dies, encoderRest, files, daemon, writer, close
<1>3. p \in running /\ running' = running \ {p} /\ writing' = writing \ {p} /\ pos' = [pos EXCEPT ![p] = 0]
  BY Zenon DEF Finishes, Dies
<1>4. Stops BY <1>1, <1>3, KillStops, Zenon
<1>5. EncoderTypeOK' BY <1>1, <1>2, <1>3, <1>4, Zenon DEF EncoderTypeOK, encoderRest, Stops
<1>6. LifeInv' BY <1>1, <1>2, <1>3, Zenon DEF LifeInv, encoderRest
<1>7. JobInv' BY <1>2, Zenon DEF EncoderInv, JobInv, encoderRest
<1>8. "seek" \notin relaunched => OneEncoder' BY <1>2, <1>3, Zenon DEF EncoderInv, OneEncoder, encoderRest
<1>9. relaunched = {} => LastTorn' BY <1>2, <1>4, StopsLast, Zenon DEF EncoderInv, encoderRest
<1> QED BY <1>2, <1>5, <1>6, <1>7, <1>8, <1>9, Zenon DEF EncoderInv, encoderRest

encoderVars == <<encoderRest, running, writing, pos, job>>

(* Steps that move nothing of this. *)
LEMMA EncoderStutter ==
  ASSUME EncoderInv, UNCHANGED encoderVars
  PROVE  EncoderInv'
BY Zenon DEF EncoderInv, EncoderTypeOK, LifeInv, JobInv, OneEncoder, LastTorn, encoderVars, encoderRest, IsJob

(* pollSegments only publishes. *)
LEMMA PollInv ==
  ASSUME EncoderInv, NEW p \in Procs, PollLook(p) \/ PollPublish(p)
  PROVE  EncoderInv'
<1>1. UNCHANGED encoderVars
  BY Zenon DEF PollLook, PollPublish, encoderVars, encoderRest, files, daemon, writer, close
<1> QED BY <1>1, EncoderStutter, Zenon

-----------------------------------------------------------------------------
(* Close, the crash and the next life *)

(* Close: from here on no encoder is started, and the encoder it knows of is killed. *)
LEMMA CloseBeginInv ==
  ASSUME EncoderInv, CloseBegin
  PROVE  EncoderInv'
<1>1. EncoderTypeOK /\ LifeInv /\ up /\ ~closed BY Zenon DEF EncoderInv, CloseBegin
<1>2. UNCHANGED <<have, torn, mine, sealed, up, born, cmd, inherited, relaunched, job>>
  BY Zenon DEF CloseBegin, files, daemon, writer
<1>3. /\ closed' = TRUE /\ closing' = "reap" /\ running' = running \ {cmd}
      /\ writing' = writing \ {cmd} /\ pos' = [pos EXCEPT ![cmd] = 0]
  BY Zenon DEF CloseBegin, Kill
<1>4. Stops BY <1>1, <1>3, KillStops, Zenon
<1>5. EncoderTypeOK' BY <1>1, <1>2, <1>3, <1>4, Zenon DEF EncoderTypeOK, Stops
<1>6. LifeInv' BY <1>1, <1>2, <1>3, Zenon DEF LifeInv
<1>7. JobInv' BY <1>2, Zenon DEF EncoderInv, JobInv
<1>8. "seek" \notin relaunched => OneEncoder' BY <1>2, <1>3, Zenon DEF EncoderInv, OneEncoder
<1>9. relaunched = {} => LastTorn' BY <1>2, <1>4, StopsLast, Zenon DEF EncoderInv
<1> QED BY <1>2, <1>5, <1>6, <1>7, <1>8, <1>9, Zenon DEF EncoderInv

(* waitProcsReaped: the wait is over, whatever still runs. *)
LEMMA CloseExitedInv ==
  ASSUME EncoderInv, CloseExited
  PROVE  EncoderInv'
<1>1. EncoderTypeOK /\ LifeInv /\ closing = "reap" BY Zenon DEF EncoderInv, CloseExited
<1>2. UNCHANGED <<have, torn, mine, sealed, up, born, cmd, inherited, relaunched, job, closed,
                 running, writing, pos>>
  BY Zenon DEF CloseExited, files, daemon, writer, procs
<1>3. closing' \in {"discard", "seal"} BY Zenon DEF CloseExited
<1>4. EncoderTypeOK' BY <1>1, <1>2, <1>3, Zenon DEF EncoderTypeOK
<1>5. LifeInv' BY <1>1, <1>2, <1>3, Zenon DEF LifeInv
<1>6. JobInv' BY <1>2, Zenon DEF EncoderInv, JobInv
<1>7. "seek" \notin relaunched => OneEncoder' BY <1>2, Zenon DEF EncoderInv, OneEncoder
<1>8. relaunched = {} => LastTorn' BY <1>2, Zenon DEF EncoderInv, LastTorn
<1> QED BY <1>2, <1>4, <1>5, <1>6, <1>7, <1>8, Zenon DEF EncoderInv

(* Close: the entry is sealed, if every segment is there, or discarded. *)
LEMMA CloseCacheInv ==
  ASSUME EncoderInv, CloseCache
  PROVE  EncoderInv'
<1>1. EncoderTypeOK /\ LifeInv /\ closing \in {"seal", "discard"} BY Zenon DEF EncoderInv, CloseCache
<1>2. UNCHANGED <<up, born, cmd, inherited, relaunched, job, closed, running, writing, pos>> /\ closing' = "done"
  BY Zenon DEF CloseCache, daemon, writer, procs
<1>3. ~sealed /\ closed /\ up BY <1>1, Zenon DEF LifeInv
<1>4. \/ have' = have /\ torn' = torn /\ mine' = mine /\ have = Segs /\ sealed' = TRUE
      \/ have' = {} /\ torn' = {} /\ mine' = {} /\ sealed' = sealed
  BY Zenon DEF CloseCache, allSegmentsPresent
<1>5. EncoderTypeOK' BY <1>1, <1>2, <1>4, Zenon DEF EncoderTypeOK
<1>6. LifeInv'
  <2>1. closed' /\ closing' # "no" /\ up' BY <1>2, <1>3, Zenon
  <2>2. sealed' => have' = Segs BY <1>3, <1>4, Zenon
  <2>3. \A k \in have' \ mine': k < inherited' BY <1>1, <1>2, <1>3, <1>4, Zenon DEF LifeInv
  <2> QED BY <1>2, <2>1, <2>2, <2>3, Zenon DEF LifeInv
<1>7. JobInv' BY <1>2, Zenon DEF EncoderInv, JobInv
<1>8. "seek" \notin relaunched => OneEncoder' BY <1>2, Zenon DEF EncoderInv, OneEncoder
<1>9. relaunched = {} => LastTorn' BY <1>2, <1>4, Zenon DEF EncoderInv, LastTorn
<1> QED BY <1>2, <1>5, <1>6, <1>7, <1>8, <1>9, Zenon DEF EncoderInv

(* Only what is on disk is left of a session that crashed. *)
LEMMA NoJobsIdle == DOMAIN NoJobs = Agents /\ \A a \in Agents: NoJobs[a] = Idle /\ Idle.at = "idle" /\ IsJob(Idle)
<1>1. Idle.at = "idle" /\ IsJob(Idle) BY JobRecord, Zenon DEF Idle, Labels
<1> QED BY <1>1, Zenon DEF NoJobs

(* The daemon is killed: what it was writing stays truncated. *)
LEMMA CrashInv ==
  ASSUME EncoderInv, Crash
  PROVE  EncoderInv'
<1>1. EncoderTypeOK /\ LifeInv /\ up /\ ~closed BY Zenon DEF EncoderInv, Crash
<1>2. UNCHANGED <<have, torn, sealed, born, closed, closing, relaunched>> BY Zenon DEF Crash
<1>3. /\ up' = FALSE /\ running' = {} /\ writing' = {} /\ DOMAIN pos' = Procs
      /\ job' = NoJobs /\ cmd' = 0
  BY Zenon DEF Crash, Over
<1>4. EncoderTypeOK' BY <1>1, <1>2, <1>3, NoJobsIdle, Zenon DEF EncoderTypeOK, IsJob
<1>5. LifeInv' BY <1>1, <1>2, <1>3, NoJobsIdle, Zenon DEF LifeInv
<1>6. JobInv' BY <1>3, NoJobsIdle, AgentKinds, Zenon DEF JobInv
<1>7. OneEncoder' BY <1>3, NoJobsIdle, AgentKinds, Zenon DEF OneEncoder
<1>8. relaunched = {} => LastTorn' BY <1>2, <1>3, Zenon DEF EncoderInv, LastTorn
<1> QED BY <1>2, <1>4, <1>5, <1>6, <1>7, <1>8, Zenon DEF EncoderInv

(* The inherited block leaves out the last segment of the prefix. *)
LEMMA ReusedBlock ==
  ASSUME have \subseteq Segs, NEW want \in Segs
  PROVE  Reused(want) \in Nat /\ (Reused(want) # 0 => Prefix = Reused(want) + 1)
<1>1. Prefix \in Nat BY PrefixNat, Zenon
<1>2. Inheritable \in Nat /\ (Inheritable # 0 => Prefix = Inheritable + 1) BY <1>1 DEF Inheritable
<1> QED BY <1>2 DEF Reused

(* A new life: the truncated segment is not in the block it keeps, since nothing
   lies behind it. *)
LEMMA StartSessionInv ==
  ASSUME EncoderInv, StartSession
  PROVE  EncoderInv'
<1>1. EncoderTypeOK /\ LifeInv /\ JobInv /\ ~up /\ ~sealed /\ born < MaxSpawns
  BY Zenon DEF EncoderInv, StartSession
<1>2. PICK want \in Segs, k \in {"encode", "copy"}:
        LET kept == Reused(want)
            first == IF k = "copy" THEN 0 ELSE IF kept = 0 THEN want ELSE kept
        IN /\ k = "copy" => have = {}
           /\ inherited' = kept /\ have' = Kept(have, kept) /\ torn' = Kept(torn, kept)
           /\ pos' = [pos EXCEPT ![born + 1] = first]
  BY Zenon DEF StartSession
<1> DEFINE kept == Reused(want)
           first == IF k = "copy" THEN 0 ELSE IF kept = 0 THEN want ELSE kept
           n == born + 1
<1>3. /\ k = "copy" => have = {}
      /\ inherited' = kept /\ have' = Kept(have, kept) /\ torn' = Kept(torn, kept)
      /\ pos' = [pos EXCEPT ![n] = first]
  BY <1>2, Zenon
<1>4. /\ mine' = {} /\ up' = TRUE /\ born' = n /\ running' = {n} /\ cmd' = n
      /\ job' = [job EXCEPT ![n] = Waiting(n)]
      /\ UNCHANGED <<sealed, writing, closed, closing, relaunched>>
  BY Zenon DEF StartSession, close
<1>5. kept \in Nat /\ (kept # 0 => Prefix = kept + 1) BY <1>1, ReusedBlock, Zenon DEF EncoderTypeOK
<1>6. first \in Nat /\ (k # "copy" /\ kept # 0 => first = kept)
  BY <1>5, EncoderAssumption DEF Segs
<1>7. /\ born \in Nat /\ n \in 0..MaxSpawns /\ n \in Procs /\ n \in 1..n /\ 1..born \subseteq 1..n /\ n <= n
      /\ \A p \in Procs: p <= born => p <= n
  BY <1>1, EncoderAssumption DEF EncoderTypeOK, Procs
<1>8. /\ have' \subseteq have /\ torn' \subseteq have' /\ torn' \subseteq torn
      /\ \A j \in have': j < kept
  BY <1>1, <1>3, Zenon DEF EncoderTypeOK, Kept
<1> HIDE DEF kept, first, n
<1>9. DOMAIN pos' = Procs /\ pos'[n] = first BY <1>1, <1>3, <1>7, Zenon DEF EncoderTypeOK
<1>10. Gets(n, Waiting(n)) BY <1>1, <1>4, <1>7, AgentKinds, JobWhole, Zenon
<1>11. IsJob(Waiting(n)) /\ Waiting(n).at = "wait" /\ Waiting(n).prev = n
  BY JobRecord, Zenon DEF Waiting, Labels
<1>12. running = {} /\ writing = {} /\ ~closed /\ closing = "no" /\ \A a \in Agents: job[a].at = "idle"
  BY <1>1, Zenon DEF LifeInv, EncoderTypeOK
<1>13. \A a \in Agents \ {n}: job'[a].at = "idle" BY <1>10, <1>12, Zenon DEF Gets
<1>14. EncoderTypeOK'
  <2>1. \A a \in Agents: IsJob(job'[a]) BY <1>1, <1>10, <1>11, Zenon DEF EncoderTypeOK, Gets
  <2>2. DOMAIN job' = Agents BY <1>10, Zenon DEF Gets
  <2> QED BY <1>1, <1>4, <1>7, <1>8, <1>9, <1>12, <2>1, <2>2, Zenon DEF EncoderTypeOK, IsJob
<1>15. LifeInv' BY <1>1, <1>3, <1>4, <1>8, <1>12, Zenon DEF LifeInv
<1>16. JobInv' BY <1>4, <1>7, <1>10, <1>11, <1>13, AgentKinds, Zenon DEF JobInv, Gets
<1>17. OneEncoder' BY <1>4, <1>10, <1>11, <1>12, <1>13, AgentKinds, Zenon DEF OneEncoder, Gets
<1>18. ASSUME relaunched = {} PROVE LastTorn'
  <2>1. LastTorn BY <1>18, Zenon DEF EncoderInv
  <2>2. torn' = {}
    <3> SUFFICES ASSUME NEW t \in torn' PROVE FALSE BY Zenon
    <3>1. t \in torn /\ t < kept /\ t \in Segs BY <1>1, <1>8, Zenon DEF EncoderTypeOK
    <3>2. \A j \in have: j <= t BY <2>1, <3>1, Zenon DEF LastTorn
    <3>3. Prefix \in Nat /\ Prefix <= t + 1 BY <3>1, <3>2, PrefixBound, Zenon
    <3> QED BY <1>5, <3>1, <3>3, EncoderAssumption DEF Segs
  <2>3. \A j \in have': j < first
    <3>1. CASE k = "copy" BY <1>3, <1>8, <3>1, Zenon
    <3>2. CASE k # "copy" /\ kept # 0 BY <1>6, <1>8, <3>2, Zenon
    <3>3. CASE kept = 0
      <4>1. have' = {} BY <1>1, <1>8, <3>3, EncoderAssumption DEF EncoderTypeOK, Segs
      <4> QED BY <4>1, Zenon
    <3> QED BY <3>1, <3>2, <3>3, Zenon
  <2> QED BY <1>4, <1>6, <1>9, <1>12, <2>2, <2>3, Zenon DEF LastTorn
<1> QED BY <1>4, <1>14, <1>15, <1>16, <1>17, <1>18, Zenon DEF EncoderInv

-----------------------------------------------------------------------------
(* The invariant and what follows from it *)

(* No encoder runs at first. *)
LEMMA EncoderInitInv == Init => EncoderInv
<1> SUFFICES ASSUME Init PROVE EncoderInv OBVIOUS
<1>1. /\ have = {} /\ torn = {} /\ sealed = FALSE /\ up = FALSE /\ born = 0 /\ running = {}
      /\ writing = {} /\ DOMAIN pos = Procs /\ closed = FALSE /\ closing = "no" /\ cmd = 0
      /\ job = NoJobs /\ relaunched = {}
  BY Zenon DEF Init
<1>2. 0 \in 0..MaxSpawns BY EncoderAssumption
<1>3. EncoderTypeOK BY <1>1, <1>2, NoJobsIdle, Zenon DEF EncoderTypeOK, IsJob
<1>4. LifeInv BY <1>1, NoJobsIdle, Zenon DEF LifeInv
<1>5. JobInv BY <1>1, NoJobsIdle, AgentKinds, Zenon DEF JobInv
<1>6. OneEncoder BY <1>1, NoJobsIdle, AgentKinds, Zenon DEF OneEncoder
<1>7. LastTorn BY <1>1, Zenon DEF LastTorn
<1> QED BY <1>3, <1>4, <1>5, <1>6, <1>7, Zenon DEF EncoderInv

(* Every step keeps the invariant. *)
LEMMA EncoderNextInv == EncoderInv /\ [Next]_vars => EncoderInv'
<1> SUFFICES ASSUME EncoderInv, [Next]_vars PROVE EncoderInv' OBVIOUS
<1>1. CASE StartSession \/ CloseBegin \/ CloseExited \/ CloseCache \/ Crash
  BY <1>1, StartSessionInv, CloseBeginInv, CloseExitedInv, CloseCacheInv, CrashInv, Zenon
<1>2. ASSUME NEW p \in Procs, WriteBegin(p) \/ WriteEnd(p) \/ Finishes(p) \/ Dies(p)
      PROVE  EncoderInv'
  BY <1>2, WriteBeginInv, WriteEndInv, EndsInv, Zenon
<1>3. ASSUME NEW p \in Procs, Supervise(p) PROVE EncoderInv'
  BY <1>3, WaitInv, JudgeInv, RestartStepsInv, AgentKinds, Zenon DEF Supervise
<1>4. ASSUME NEW p \in Procs, PollLook(p) \/ PollPublish(p) PROVE EncoderInv'
  BY <1>4, PollInv, Zenon
<1>5. ASSUME NEW r \in Readers, ServeSegment(r) \/ RestartSteps(r) PROVE EncoderInv'
  BY <1>5, ServeSegmentInv, RestartStepsInv, AgentKinds, Zenon
<1>6. CASE UNCHANGED vars
  <2>1. UNCHANGED encoderVars
    BY <1>6, Zenon DEF vars, encoderVars, encoderRest, files, daemon, procs, writer, close
  <2> QED BY <2>1, EncoderStutter, Zenon
<1> QED BY <1>1, <1>2, <1>3, <1>4, <1>5, <1>6, Zenon DEF Next

(* The invariant holds throughout. *)
LEMMA EncoderInvariant == Spec => []EncoderInv
BY EncoderInitInv, EncoderNextInv, PTL DEF Spec

(* What Close seals is a whole title, each segment of it written by this session or
   in the block that it inherited: the scan of the directory, the drop of what lies
   beyond the block and the test before the seal leave no gap and no segment of
   another timeline, for any number of segments and of restarts, seeks and crashes. *)
THEOREM EncoderSealIsOurs == Spec => []SealIsOurs
<1>1. EncoderInv => SealIsOurs BY Zenon DEF EncoderInv, LifeInv, SealIsOurs
<1> QED BY <1>1, EncoderInvariant, PTL

(* No daemon seals a truncated segment that another left when it was killed, other
   than the last one: it is behind all others on disk, so the block that is
   inherited stops short of it and it is dropped. *)
THEOREM EncoderInheritedIsWhole == Spec => []InheritedIsWhole
<1>1. EncoderInv => InheritedIsWhole
  <2> SUFFICES ASSUME EncoderInv, sealed, relaunched = {}, NEW k \in torn
               PROVE  k = SegmentCount - 1
    BY Zenon DEF InheritedIsWhole
  <2>1. have = Segs /\ k \in Segs /\ \A j \in have: j <= k
    BY Zenon DEF EncoderInv, EncoderTypeOK, LifeInv, LastTorn
  <2>2. SegmentCount - 1 \in Segs BY EncoderAssumption DEF Segs
  <2>3. SegmentCount - 1 <= k BY <2>1, <2>2, Zenon
  <2> QED BY <2>1, <2>3, EncoderAssumption DEF Segs
<1> QED BY <1>1, EncoderInvariant, PTL

(* Without a seek there is one ffmpeg over the directory at any time, and none once
   the session is closed: the supervisors, which restart the encoder each on its
   own, never have two at work. *)
THEOREM EncoderSingleEncoder == Spec => []SingleEncoder
<1>1. EncoderInv => SingleEncoder BY Zenon DEF EncoderInv, OneEncoder, SingleEncoder
<1> QED BY <1>1, EncoderInvariant, PTL
=============================================================================
