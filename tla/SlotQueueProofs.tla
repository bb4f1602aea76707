--------------------------- MODULE SlotQueueProofs ---------------------------
(***************************************************************************)
(* Proofs about the download slots, for any set of tasks and any           *)
(* MaxConcurrent: the line and the count of slots stay exact, no slot      *)
(* stays idle while a task waits, and tasks start in the line's order.     *)
(***************************************************************************)
EXTENDS SlotQueue, FiniteSetTheorems, TLAPS

\* Sets of tasks are finite, so their cardinalities are natural numbers.
LEMMA TasksFinite ==
    ASSUME NEW S, S \subseteq Tasks
    PROVE  IsFiniteSet(S) /\ Cardinality(S) \in Nat
BY SlotQueueAssumption, FS_Subset, FS_CardinalityType, Zenon

\* Two disjoint sets of tasks add up.
LEMMA DisjointUnion ==
    ASSUME NEW S, NEW T, S \subseteq Tasks, T \subseteq Tasks, S \cap T = {}
    PROVE  Cardinality(S \cup T) = Cardinality(S) + Cardinality(T)
<1>1. IsFiniteSet(S) /\ IsFiniteSet(T) /\ Cardinality(S) \in Nat /\ Cardinality(T) \in Nat
  BY TasksFinite, Zenon
<1>2. Cardinality(S \cap T) = 0
  BY FS_EmptySet, Zenon
<1>3. Cardinality(S \cup T) = Cardinality(S) + Cardinality(T) - Cardinality(S \cap T)
  BY <1>1, FS_Union, Zenon
<1> QED BY <1>1, <1>2, <1>3

\* One task more, one task less.
LEMMA AddTask ==
    ASSUME NEW S, S \subseteq Tasks, NEW t \in Tasks, t \notin S
    PROVE  Cardinality(S \cup {t}) = Cardinality(S) + 1
<1>1. IsFiniteSet(S) BY TasksFinite, Zenon
<1> QED BY <1>1, FS_AddElement, Zenon

\* Taking a task away lowers the count by one.
LEMMA RemoveTask ==
    ASSUME NEW S, S \subseteq Tasks, NEW t \in S
    PROVE  Cardinality(S \ {t}) = Cardinality(S) - 1
<1>1. IsFiniteSet(S) BY TasksFinite, Zenon
<1> QED BY <1>1, FS_RemoveElement, Zenon

\* Adding a task that may already be there raises the count by one at most.
LEMMA AddAtMostOne ==
    ASSUME NEW S, S \subseteq Tasks, NEW t \in Tasks
    PROVE  IsFiniteSet(S \cup {t}) /\ Cardinality(S \cup {t}) <= Cardinality(S) + 1
<1>1. IsFiniteSet(S \cup {t}) /\ Cardinality(S) \in Nat BY TasksFinite, Zenon
<1>2. CASE t \in S
  <2>1. S \cup {t} = S BY <1>2, Zenon
  <2>2. Cardinality(S \cup {t}) = Cardinality(S) BY <2>1, Zenon
  <2> QED BY <1>1, <2>2
<1>3. CASE t \notin S
  <2>1. Cardinality(S \cup {t}) = Cardinality(S) + 1 BY <1>3, AddTask, Zenon
  <2> QED BY <1>1, <2>1
<1> QED BY <1>2, <1>3, Zenon

\* The first tasks of the line are tasks.
LEMMA LineType ==
    ASSUME queue \in Seq(Tasks), NEW n \in 0..Len(queue)
    PROVE  Line(n) \subseteq Tasks /\ Started(n) \subseteq Tasks
BY DEF Line, Started

\* What is left of a line without its first n.
LEMMA RestOfLine ==
    ASSUME NEW q \in Seq(Tasks), NEW n \in 0..Len(q)
    PROVE  /\ SubSeq(q, n + 1, Len(q)) \in Seq(Tasks) /\ Len(SubSeq(q, n + 1, Len(q))) = Len(q) - n
           /\ \A i \in 1..(Len(q) - n) : SubSeq(q, n + 1, Len(q))[i] = q[n + i]
<1>1. CASE n = Len(q) BY <1>1
<1>2. CASE n < Len(q)
  <2>1. SubSeq(q, n + 1, Len(q)) \in Seq(Tasks) BY <1>2
  <2>2. Len(SubSeq(q, n + 1, Len(q))) = Len(q) - n BY <1>2
  <2>3. \A i \in 1..(Len(q) - n) : SubSeq(q, n + 1, Len(q))[i] = q[n + i] BY <1>2
  <2> QED BY <2>1, <2>2, <2>3, Zenon
<1> QED BY <1>1, <1>2

\* One line behind another.
LEMMA JoinedLines ==
    ASSUME NEW a \in Seq(Tasks), NEW b \in Seq(Tasks)
    PROVE  /\ a \o b \in Seq(Tasks) /\ Len(a \o b) = Len(a) + Len(b)
           /\ \A i \in 1..(Len(a) + Len(b)) :
                 (a \o b)[i] = IF i <= Len(a) THEN a[i] ELSE b[i - Len(a)]
OBVIOUS

\* What a dispatch leaves behind: an exact line, an exact count, and no room for
\* whoever still waits.  What it starts fits.
LEMMA DispatchEffect ==
    ASSUME SlotTypeOK, LineExact, SlotsCounted,
           NEW s \in [Tasks -> SlotStates],
           \A t \in Tasks : s[t] = "queued" <=> slot[t] = "queued",
           \A t \in Tasks : s[t] = "held" <=> slot[t] = "held",
           Dispatch(s)
    PROVE  /\ queue' \in Seq(Tasks) /\ running' \in Int /\ slot' \in [Tasks -> SlotStates]
           /\ LineExact'
           /\ SlotsCounted'
           /\ ~shuttingDown /\ queue' # <<>> => running' >= MaxConcurrent
           /\ (\E t \in Tasks : slot[t] = "queued" /\ slot'[t] = "held") => running' <= MaxConcurrent
<1>1. PICK n \in 0..Len(queue) :
      /\ IF shuttingDown THEN n = 0 ELSE Takes(n)
      /\ queue' = SubSeq(queue, n + 1, Len(queue))
      /\ running' = running + Cardinality(Started(n))
      /\ slot' = [t \in Tasks |-> IF t \in Started(n) THEN "held"
                                  ELSE IF t \in Line(n) THEN "dropped" ELSE s[t]]
  BY Zenon DEF Dispatch
<1> DEFINE S == Started(n)
<1>2. /\ queue' = SubSeq(queue, n + 1, Len(queue))
      /\ running' = running + Cardinality(S)
      /\ slot' = [t \in Tasks |-> IF t \in S THEN "held" ELSE IF t \in Line(n) THEN "dropped" ELSE s[t]]
  BY <1>1, Zenon
<1>3. S \subseteq Line(n) /\ Line(n) \subseteq Tasks /\ Cardinality(S) \in Nat
  BY <1>1, LineType, TasksFinite, Zenon DEF SlotTypeOK, Started
<1>4. \A t \in Line(n) : slot[t] = "queued" BY <1>1, <1>3 DEF Line, LineExact, SlotTypeOK
<1> HIDE DEF S
<1>5. queue' \in Seq(Tasks) /\ Len(queue') = Len(queue) - n /\ \A i \in 1..Len(queue') : queue'[i] = queue[n + i]
  <2>1. queue \in Seq(Tasks) /\ n \in 0..Len(queue) BY <1>1, Zenon DEF SlotTypeOK
  <2>2. queue' = SubSeq(queue, n + 1, Len(queue)) BY <1>2, Zenon
  <2> QED BY <2>1, <2>2, RestOfLine, Zenon
<1>6. running' \in Int /\ slot' \in [Tasks -> SlotStates]
  BY <1>2, <1>3 DEF SlotTypeOK, SlotStates
<1>7. LineExact'
  <2>1. ASSUME NEW i \in 1..Len(queue'), NEW j \in 1..Len(queue'), queue'[i] = queue'[j] PROVE i = j
    <3>1. n + i \in 1..Len(queue) /\ n + j \in 1..Len(queue) BY <1>1, <1>5 DEF SlotTypeOK
    <3>2. queue[n + i] = queue[n + j] BY <2>1, <1>5, Zenon
    <3>3. n + i = n + j BY <3>1, <3>2, Zenon DEF LineExact
    <3> QED BY <3>3, <1>1
  <2>2. ASSUME NEW t \in Tasks PROVE slot'[t] = "queued" <=> \E i \in 1..Len(queue') : queue'[i] = t
    <3>1. slot'[t] = "queued" <=> t \notin Line(n) /\ slot[t] = "queued" BY <1>2, <1>3, Zenon
    <3>2. slot[t] = "queued" <=> \E i \in 1..Len(queue) : queue[i] = t BY Zenon DEF LineExact
    <3>3. t \in Line(n) <=> \E i \in 1..n : queue[i] = t BY Zenon DEF Line
    <3>4. ASSUME NEW i \in 1..Len(queue), queue[i] = t, t \notin Line(n)
          PROVE  \E k \in 1..Len(queue') : queue'[k] = t
      <4>1. i > n BY <3>3, <3>4, <1>1 DEF SlotTypeOK
      <4>2. i - n \in 1..Len(queue') BY <4>1, <1>1, <1>5 DEF SlotTypeOK
      <4>3. queue'[i - n] = queue[n + (i - n)] BY <4>2, <1>5, Zenon
      <4>4. n + (i - n) = i BY <1>1 DEF SlotTypeOK
      <4> QED BY <4>2, <4>3, <4>4, <3>4, Zenon
    <3>5. ASSUME NEW k \in 1..Len(queue'), queue'[k] = t
          PROVE  t \notin Line(n) /\ \E i \in 1..Len(queue) : queue[i] = t
      <4>1. n + k \in 1..Len(queue) /\ queue[n + k] = t BY <3>5, <1>1, <1>5 DEF SlotTypeOK
      <4>2. \A i \in 1..n : queue[i] # t BY <4>1, <1>1, SMTT(20) DEF LineExact, SlotTypeOK
      <4> QED BY <4>1, <4>2, <3>3, Zenon
    <3> QED BY <3>1, <3>2, <3>4, <3>5, Zenon
  <2> QED BY <2>1, <2>2, Zenon DEF LineExact
<1>8. SlotsCounted'
  <2>1. Holders' = Holders \cup S BY <1>2, <1>3, <1>4, Zenon DEF Holders
  <2>2. Holders \cap S = {} BY <1>3, <1>4, Zenon DEF Holders
  <2>3. Cardinality(Holders \cup S) = Cardinality(Holders) + Cardinality(S)
    BY <2>2, <1>3, DisjointUnion, Zenon DEF Holders
  <2> QED BY <2>1, <2>3, <1>2, Zenon DEF SlotsCounted
<1>9. ~shuttingDown /\ queue' # <<>> => running' >= MaxConcurrent
  <2> SUFFICES ASSUME ~shuttingDown, queue' # <<>> PROVE running' >= MaxConcurrent BY Zenon
  <2>1. n # Len(queue) BY <1>1, <1>5 DEF SlotTypeOK
  <2>2. running + Cardinality(Started(n)) >= MaxConcurrent BY <1>1, <2>1, Zenon DEF Takes
  <2> QED BY <1>2, <2>2, Zenon DEF S
<1>10. ASSUME NEW t \in Tasks, slot[t] = "queued", slot'[t] = "held" PROVE running' <= MaxConcurrent
  <2>1. t \in S BY <1>2, <1>3, <1>10, Zenon
  <2>2. n # 0 BY <2>1, <1>3 DEF Line
  <2>3. n \in Nat \ {0} /\ n - 1 \in 0..(n - 1) /\ n - 1 \in 0..Len(queue)
    BY <1>1, <2>2 DEF SlotTypeOK
  <2>4. running + Cardinality(Started(n - 1)) < MaxConcurrent BY <1>1, <2>2, <2>3, Zenon DEF Takes
  <2>5. S \subseteq Started(n - 1) \cup {queue[n]} BY <2>3 DEF S, Started, Line
  <2>6. queue[n] \in Tasks /\ Started(n - 1) \subseteq Tasks BY <2>3, <1>1, LineType DEF SlotTypeOK
  <2>7. IsFiniteSet(Started(n - 1)) /\ Cardinality(Started(n - 1)) \in Nat BY <2>6, TasksFinite, Zenon
  <2>8. /\ IsFiniteSet(Started(n - 1) \cup {queue[n]})
        /\ Cardinality(Started(n - 1) \cup {queue[n]}) <= Cardinality(Started(n - 1)) + 1
    BY <2>6, AddAtMostOne, Zenon
  <2>9. Cardinality(S) <= Cardinality(Started(n - 1) \cup {queue[n]}) BY <2>5, <2>8, FS_Subset, Zenon
  <2>10. Cardinality(Started(n - 1) \cup {queue[n]}) \in Nat BY <2>8, FS_CardinalityType, Zenon
  <2> QED BY <2>4, <2>7, <2>8, <2>9, <2>10, <1>2, <1>3, SlotQueueAssumption, SMTT(20) DEF SlotTypeOK
<1> QED BY <1>5, <1>6, <1>7, <1>8, <1>9, <1>10, Zenon

\* Initially nobody waits and nobody runs.
LEMMA SlotInitInv == SlotInit => SlotInv
<1> SUFFICES ASSUME SlotInit PROVE SlotInv BY Zenon
<1>1. SlotTypeOK
  <2>1. <<>> \in Seq(Tasks) OBVIOUS
  <2>2. shuttingDown \in BOOLEAN BY Zenon DEF SlotInit
  <2> QED BY <2>1, <2>2 DEF SlotInit, SlotTypeOK, SlotStates
<1>2. LineExact
  <2>1. 1..Len(queue) = {} BY DEF SlotInit
  <2> QED BY <2>1, Zenon DEF SlotInit, LineExact
<1>3. Holders = {} BY Zenon DEF SlotInit, Holders
<1>4. SlotsCounted BY <1>3, FS_EmptySet, Zenon DEF SlotInit, SlotsCounted
<1>5. NoIdleSlot BY Zenon DEF SlotInit, NoIdleSlot
<1> QED BY <1>1, <1>2, <1>4, <1>5, Zenon DEF SlotInv

\* Steps that touch neither the line nor a slot.
LEMMA SlotFrame ==
    ASSUME SlotInv, queue' = queue, running' = running, slot' = slot, enqueuing' = enqueuing,
           ended' \subseteq Tasks, shuttingDown' \in BOOLEAN, shuttingDown => shuttingDown'
    PROVE  SlotInv'
<1>1. SlotTypeOK' BY Zenon DEF SlotInv, SlotTypeOK
<1>2. LineExact' BY Zenon DEF SlotInv, LineExact
<1>3. Holders' = Holders BY Zenon DEF Holders
<1>4. SlotsCounted' BY <1>3, Zenon DEF SlotInv, SlotsCounted
<1>5. NoIdleSlot' BY Zenon DEF SlotInv, NoIdleSlot
<1> QED BY <1>1, <1>2, <1>4, <1>5, Zenon DEF SlotInv

\* Steps that end in a dispatch.
LEMMA SlotDispatch ==
    ASSUME SlotInv,
           NEW s \in [Tasks -> SlotStates],
           \A t \in Tasks : s[t] = "queued" <=> slot[t] = "queued",
           \A t \in Tasks : s[t] = "held" <=> slot[t] = "held",
           Dispatch(s), enqueuing' \subseteq Tasks, UNCHANGED <<ended, shuttingDown>>
    PROVE  SlotInv'
<1>1. SlotTypeOK /\ LineExact /\ SlotsCounted BY Zenon DEF SlotInv
<1>2. /\ queue' \in Seq(Tasks) /\ running' \in Int /\ slot' \in [Tasks -> SlotStates]
      /\ LineExact'
      /\ SlotsCounted'
      /\ ~shuttingDown /\ queue' # <<>> => running' >= MaxConcurrent
  BY <1>1, DispatchEffect, Zenon
<1>3. SlotTypeOK' BY <1>1, <1>2, Zenon DEF SlotTypeOK
<1>4. NoIdleSlot' BY <1>1, <1>2, SlotQueueAssumption DEF NoIdleSlot, SlotTypeOK
<1> QED BY <1>2, <1>3, <1>4, Zenon DEF SlotInv

\* A task enters the line: its own enqueue is on the way to dispatch.
LEMMA EnqueueInv ==
    ASSUME SlotInv, NEW t \in Tasks, Enqueue(t)
    PROVE  SlotInv'
<1>1. SlotTypeOK' BY DEF SlotInv, SlotTypeOK, SlotStates, Enqueue
<1>2. /\ queue \in Seq(Tasks) /\ queue' = Append(queue, t)
      /\ Len(queue') = Len(queue) + 1 /\ queue'[Len(queue) + 1] = t
      /\ \A i \in 1..Len(queue) : queue'[i] = queue[i]
  BY DEF SlotInv, SlotTypeOK, Enqueue
<1>3. \A i \in 1..Len(queue) : queue[i] # t BY Zenon DEF SlotInv, LineExact, Enqueue
<1>4. LineExact'
  <2>1. \A i, j \in 1..Len(queue') : queue'[i] = queue'[j] => i = j
    BY <1>2, <1>3 DEF SlotInv, LineExact
  <2>2. \A u \in Tasks : slot'[u] = "queued" <=> u = t \/ slot[u] = "queued"
    BY Zenon DEF Enqueue, SlotInv, SlotTypeOK
  <2>3. \A u \in Tasks : slot'[u] = "queued" <=> \E i \in 1..Len(queue') : queue'[i] = u
    BY <1>2, <2>2 DEF SlotInv, LineExact
  <2> QED BY <2>1, <2>3, Zenon DEF LineExact
<1>5. Holders' = Holders BY Zenon DEF Holders, Enqueue, SlotInv, SlotTypeOK
<1>6. SlotsCounted' BY <1>5, Zenon DEF SlotInv, SlotsCounted, Enqueue
<1>7. NoIdleSlot' BY Zenon DEF NoIdleSlot, Enqueue
<1> QED BY <1>1, <1>4, <1>6, <1>7, Zenon DEF SlotInv

\* A cancel takes one task out of the line; the others close up.
LEMMA DequeueLine ==
    ASSUME SlotInv, NEW t \in Tasks, Dequeue(t)
    PROVE  \E k \in 1..Len(queue) :
              /\ queue[k] = t /\ queue' \in Seq(Tasks) /\ Len(queue') = Len(queue) - 1
              /\ \A i \in 1..Len(queue') : queue'[i] = IF i < k THEN queue[i] ELSE queue[i + 1]
<1>0. PICK k \in 1..Len(queue) :
        queue[k] = t /\ queue' = SubSeq(queue, 1, k - 1) \o SubSeq(queue, k + 1, Len(queue))
  BY Zenon DEF Dequeue
<1>1. k \in 1..Len(queue) /\ queue[k] = t BY <1>0, Zenon
<1>2. queue \in Seq(Tasks) BY Zenon DEF SlotInv, SlotTypeOK
<1>3. queue' = SubSeq(queue, 1, k - 1) \o SubSeq(queue, k + 1, Len(queue)) BY <1>0, Zenon
<1>4. /\ SubSeq(queue, 1, k - 1) \in Seq(Tasks) /\ Len(SubSeq(queue, 1, k - 1)) = k - 1
      /\ \A i \in 1..(k - 1) : SubSeq(queue, 1, k - 1)[i] = queue[i]
  BY <1>1, <1>2
<1>5. /\ SubSeq(queue, k + 1, Len(queue)) \in Seq(Tasks)
      /\ Len(SubSeq(queue, k + 1, Len(queue))) = Len(queue) - k
      /\ \A i \in 1..(Len(queue) - k) : SubSeq(queue, k + 1, Len(queue))[i] = queue[k + i]
  <2>1. k \in 0..Len(queue) BY <1>1, <1>2
  <2> QED BY <1>2, <2>1, RestOfLine, Zenon
<1>6. /\ queue' \in Seq(Tasks) /\ Len(queue') = Len(queue) - 1
      /\ \A i \in 1..Len(queue') : queue'[i] = IF i < k THEN queue[i] ELSE queue[i + 1]
  <2> DEFINE a == SubSeq(queue, 1, k - 1)
             b == SubSeq(queue, k + 1, Len(queue))
  <2>1. a \in Seq(Tasks) /\ Len(a) = k - 1 /\ b \in Seq(Tasks) /\ Len(b) = Len(queue) - k
    BY <1>4, <1>5, Zenon
  <2>2. queue' = a \o b BY <1>3, Zenon
  <2>3. /\ \A i \in 1..(k - 1) : a[i] = queue[i]
        /\ \A i \in 1..(Len(queue) - k) : b[i] = queue[k + i]
    BY <1>4, <1>5, Zenon
  <2> HIDE DEF a, b
  <2>0. /\ queue' \in Seq(Tasks) /\ Len(queue') = Len(a) + Len(b)
        /\ \A i \in 1..(Len(a) + Len(b)) : queue'[i] = IF i <= Len(a) THEN a[i] ELSE b[i - Len(a)]
    BY <2>1, <2>2, JoinedLines, Zenon
  <2>4. queue' \in Seq(Tasks) /\ Len(queue') = Len(queue) - 1 BY <2>0, <2>1, <1>1, <1>2
  <2>5. ASSUME NEW i \in 1..Len(queue') PROVE queue'[i] = IF i < k THEN queue[i] ELSE queue[i + 1]
    <3>1. CASE i < k
      <4>1. queue'[i] = a[i] BY <3>1, <2>0, <2>1, <1>1, <1>2
      <4>2. i \in 1..(k - 1) BY <3>1, <2>4, <1>1, <1>2
      <4> QED BY <3>1, <4>1, <4>2, <2>3, Zenon
    <3>2. CASE ~ (i < k)
      <4>1. queue'[i] = b[i - (k - 1)] BY <3>2, <2>0, <2>1, <1>1, <1>2
      <4>2. i - (k - 1) \in 1..(Len(queue) - k) /\ k + (i - (k - 1)) = i + 1
        BY <3>2, <2>4, <1>1, <1>2
      <4> QED BY <3>2, <4>1, <4>2, <2>3, Zenon
    <3> QED BY <3>1, <3>2, Zenon
  <2> QED BY <2>4, <2>5, Zenon
<1> QED BY <1>1, <1>6, Zenon

\* The slots and the line without it.
LEMMA DequeueInv ==
    ASSUME SlotInv, NEW t \in Tasks, Dequeue(t)
    PROVE  SlotInv'
<1>0. PICK k \in 1..Len(queue) :
        /\ queue[k] = t /\ queue' \in Seq(Tasks) /\ Len(queue') = Len(queue) - 1
        /\ \A i \in 1..Len(queue') : queue'[i] = IF i < k THEN queue[i] ELSE queue[i + 1]
  BY DequeueLine, Zenon
<1>1. k \in 1..Len(queue) /\ queue[k] = t BY <1>0, Zenon
<1>2. queue \in Seq(Tasks) BY Zenon DEF SlotInv, SlotTypeOK
<1>6. /\ queue' \in Seq(Tasks) /\ Len(queue') = Len(queue) - 1
      /\ \A i \in 1..Len(queue') : queue'[i] = IF i < k THEN queue[i] ELSE queue[i + 1]
  BY <1>0, Zenon
<1>7. slot' = [slot EXCEPT ![t] = "out"] /\ UNCHANGED <<running, enqueuing, ended, shuttingDown>>
  BY Zenon DEF Dequeue
<1>8. slot[t] = "queued" BY <1>1, Zenon DEF SlotInv, LineExact
<1>9. SlotTypeOK' BY <1>6, <1>7, Zenon DEF SlotInv, SlotTypeOK, SlotStates
<1>10. LineExact'
  <2>1. ASSUME NEW i \in 1..Len(queue'), NEW j \in 1..Len(queue'), queue'[i] = queue'[j] PROVE i = j
    <3> DEFINE ii == IF i < k THEN i ELSE i + 1
               jj == IF j < k THEN j ELSE j + 1
    <3>1. ii \in 1..Len(queue) /\ jj \in 1..Len(queue) BY <1>1, <1>2, <1>6
    <3>2. queue[ii] = queue[jj] BY <2>1, <1>6, Zenon
    <3>3. ii = jj BY <3>1, <3>2, Zenon DEF SlotInv, LineExact
    <3> QED BY <3>3, <1>1, <1>2
  <2>2. ASSUME NEW u \in Tasks PROVE slot'[u] = "queued" <=> \E i \in 1..Len(queue') : queue'[i] = u
    <3>1. slot'[u] = "queued" <=> u # t /\ slot[u] = "queued" BY <1>7, Zenon DEF SlotInv, SlotTypeOK
    <3>2. ASSUME NEW i \in 1..Len(queue), queue[i] = u, u # t
          PROVE  \E j \in 1..Len(queue') : queue'[j] = u
      <4>1. i # k BY <3>2, <1>1, Zenon
      <4>2. CASE i < k
        <5>1. i \in 1..Len(queue') BY <4>2, <1>1, <1>2, <1>6
        <5> QED BY <5>1, <4>2, <3>2, <1>6, Zenon
      <4>3. CASE i > k
        <5>1. i - 1 \in 1..Len(queue') /\ ~ (i - 1 < k) /\ (i - 1) + 1 = i BY <4>3, <1>1, <1>2, <1>6
        <5> QED BY <5>1, <3>2, <1>6, Zenon
      <4> QED BY <4>1, <4>2, <4>3, <1>1, <1>2
    <3>3. ASSUME NEW j \in 1..Len(queue'), queue'[j] = u
          PROVE  u # t /\ \E i \in 1..Len(queue) : queue[i] = u
      <4> DEFINE i == IF j < k THEN j ELSE j + 1
      <4>1. i \in 1..Len(queue) /\ i # k /\ queue[i] = u BY <3>3, <1>1, <1>2, <1>6
      <4>2. u # t BY <4>1, <1>1, Zenon DEF SlotInv, LineExact
      <4> QED BY <4>1, <4>2, Zenon
    <3>4. slot[u] = "queued" <=> \E i \in 1..Len(queue) : queue[i] = u BY Zenon DEF SlotInv, LineExact
    <3> QED BY <3>1, <3>2, <3>3, <3>4, Zenon
  <2> QED BY <2>1, <2>2, Zenon DEF LineExact
<1>11. Holders' = Holders BY <1>7, <1>8, Zenon DEF Holders, SlotInv, SlotTypeOK
<1>12. SlotsCounted' BY <1>7, <1>11, Zenon DEF SlotInv, SlotsCounted
<1>13. NoIdleSlot'
  <2>1. queue' # <<>> => queue # <<>> BY <1>1, <1>2
  <2>2. \A u \in Tasks : slot[u] \in {"yielding", "handing"} => slot'[u] = slot[u]
    BY <1>7, <1>8, Zenon DEF SlotInv, SlotTypeOK
  <2> QED BY <1>7, <2>1, <2>2, Zenon DEF SlotInv, NoIdleSlot
<1> QED BY <1>9, <1>10, <1>12, <1>13, Zenon DEF SlotInv

\* Giving a slot back and taking it again.
LEMMA YieldInv ==
    ASSUME SlotInv, NEW t \in Tasks, Yield(t) \/ Reclaim(t) \/ Release(t)
    PROVE  SlotInv'
<1>1. SlotTypeOK' BY DEF SlotInv, SlotTypeOK, SlotStates, Yield, Reclaim, Release
<1>2. LineExact'
  <2>1. \A u \in Tasks : slot'[u] = "queued" <=> slot[u] = "queued"
    BY Zenon DEF SlotInv, SlotTypeOK, Yield, Reclaim, Release
  <2>2. queue' = queue BY Zenon DEF Yield, Reclaim, Release
  <2> QED BY <2>1, <2>2, Zenon DEF SlotInv, LineExact
<1>3. Holders \subseteq Tasks BY Zenon DEF Holders
<1>4. SlotsCounted'
  <2>1. CASE slot[t] = "held" /\ (Yield(t) \/ Release(t))
    <3>1. Holders' = Holders \ {t} /\ t \in Holders
      BY <2>1, Zenon DEF Holders, SlotInv, SlotTypeOK, Yield, Release
    <3>2. Cardinality(Holders \ {t}) = Cardinality(Holders) - 1 BY <3>1, <1>3, RemoveTask, Zenon
    <3>3. running' = running - 1 BY <2>1, Zenon DEF Yield, Release
    <3> QED BY <3>1, <3>2, <3>3, Zenon DEF SlotInv, SlotsCounted
  <2>2. CASE slot[t] = "yielded" /\ Release(t)
    <3>1. Holders' = Holders BY <2>2, Zenon DEF Holders, SlotInv, SlotTypeOK, Release
    <3>2. running' = running BY <2>2, Zenon DEF Release
    <3> QED BY <3>1, <3>2, Zenon DEF SlotInv, SlotsCounted
  <2>3. CASE Reclaim(t)
    <3>1. Holders' = Holders \cup {t} /\ t \notin Holders
      BY <2>3, Zenon DEF Holders, SlotInv, SlotTypeOK, Reclaim
    <3>2. Cardinality(Holders \cup {t}) = Cardinality(Holders) + 1 BY <3>1, <1>3, AddTask, Zenon
    <3>3. running' = running + 1 BY <2>3, Zenon DEF Reclaim
    <3> QED BY <3>1, <3>2, <3>3, Zenon DEF SlotInv, SlotsCounted
  <2> QED BY <2>1, <2>2, <2>3, Zenon DEF Yield, Release
<1>5. NoIdleSlot'
  <2>1. CASE Yield(t) \/ Release(t)
    <3>1. slot'[t] \in {"yielding", "handing"} BY <2>1, Zenon DEF SlotInv, SlotTypeOK, Yield, Release
    <3> QED BY <3>1, Zenon DEF NoIdleSlot
  <2>2. CASE Reclaim(t)
    <3>1. \A u \in Tasks : slot[u] \in {"yielding", "handing"} => slot'[u] = slot[u]
      BY <2>2, Zenon DEF SlotInv, SlotTypeOK, Reclaim
    <3>2. /\ queue' = queue /\ enqueuing' = enqueuing /\ shuttingDown' = shuttingDown
          /\ running' = running + 1
      BY <2>2, Zenon DEF Reclaim
    <3>3. running' < MaxConcurrent => running < MaxConcurrent
      BY <3>2, SlotQueueAssumption DEF SlotInv, SlotTypeOK
    <3> QED BY <3>1, <3>2, <3>3, Zenon DEF SlotInv, NoIdleSlot
  <2> QED BY <2>1, <2>2, Zenon
<1> QED BY <1>1, <1>2, <1>4, <1>5, Zenon DEF SlotInv

\* A task that was dropped, and a line that is emptied.
LEMMA DropInv ==
    ASSUME SlotInv, (\E t \in Tasks : ForgetDropped(t)) \/ DrainQueue
    PROVE  SlotInv'
<1>1. CASE DrainQueue
  <2>1. SlotTypeOK'
    <3>1. <<>> \in Seq(Tasks) OBVIOUS
    <3> QED BY <1>1, <3>1, Zenon DEF SlotInv, SlotTypeOK, SlotStates, DrainQueue
  <2>2. LineExact'
    <3>1. 1..Len(queue') = {} BY <1>1 DEF DrainQueue
    <3>2. \A t \in Tasks : slot'[t] # "queued" BY <1>1, Zenon DEF DrainQueue
    <3> QED BY <3>1, <3>2, Zenon DEF LineExact
  <2>3. Holders' = Holders BY <1>1, Zenon DEF DrainQueue, Holders
  <2>4. SlotsCounted' BY <1>1, <2>3, Zenon DEF SlotInv, SlotsCounted, DrainQueue
  <2>5. NoIdleSlot' BY <1>1, Zenon DEF NoIdleSlot, DrainQueue
  <2> QED BY <2>1, <2>2, <2>4, <2>5, Zenon DEF SlotInv
<1>2. ASSUME NEW t \in Tasks, ForgetDropped(t) PROVE SlotInv'
  <2>1. SlotTypeOK' BY <1>2, Zenon DEF SlotInv, SlotTypeOK, SlotStates, ForgetDropped
  <2>2. \A u \in Tasks : slot'[u] = slot[u] \/ (u = t /\ slot[u] = "dropped" /\ slot'[u] = "out")
    BY <1>2, Zenon DEF SlotInv, SlotTypeOK, ForgetDropped
  <2>3. LineExact' BY <1>2, <2>2 DEF SlotInv, LineExact, ForgetDropped
  <2>4. Holders' = Holders BY <2>2, Zenon DEF Holders
  <2>5. SlotsCounted' BY <1>2, <2>4, Zenon DEF SlotInv, SlotsCounted, ForgetDropped
  <2>6. NoIdleSlot' BY <1>2, <2>2, Zenon DEF SlotInv, NoIdleSlot, ForgetDropped
  <2> QED BY <2>1, <2>3, <2>5, <2>6, Zenon DEF SlotInv
<1> QED BY <1>1, <1>2, Zenon

\* Every step keeps the invariant.
LEMMA SlotNextInv == SlotInv /\ [SlotNext]_slotVars => SlotInv'
<1> SUFFICES ASSUME SlotInv, [SlotNext]_slotVars PROVE SlotInv' BY Zenon
<1>1. SlotTypeOK BY Zenon DEF SlotInv
<1>2. ASSUME NEW t \in Tasks, NEW over \in BOOLEAN, NewTask(t, over) PROVE SlotInv'
  BY <1>1, <1>2, SlotFrame, Zenon DEF NewTask, SlotTypeOK
<1>3. ASSUME NEW t \in Tasks, Enqueue(t) PROVE SlotInv' BY <1>3, EnqueueInv, Zenon
<1>4. ASSUME NEW t \in Tasks, EnqueueDispatch(t) PROVE SlotInv'
  BY <1>1, <1>4, SlotDispatch, Zenon DEF EnqueueDispatch, SlotTypeOK
<1>5. ASSUME NEW t \in Tasks, YieldDispatch(t) PROVE SlotInv'
  <2>1. [slot EXCEPT ![t] = "yielded"] \in [Tasks -> SlotStates] BY <1>1, Zenon DEF SlotTypeOK, SlotStates
  <2> QED BY <1>1, <1>5, <2>1, SlotDispatch, Zenon DEF YieldDispatch, SlotTypeOK
<1>6. ASSUME NEW t \in Tasks, HandOn(t) PROVE SlotInv'
  <2>1. [slot EXCEPT ![t] = "out"] \in [Tasks -> SlotStates] BY <1>1, Zenon DEF SlotTypeOK, SlotStates
  <2> QED BY <1>1, <1>6, <2>1, SlotDispatch, Zenon DEF HandOn, SlotTypeOK
<1>7. ASSUME NEW t \in Tasks, Dequeue(t) PROVE SlotInv' BY <1>7, DequeueInv, Zenon
<1>8. ASSUME NEW t \in Tasks, Yield(t) \/ Reclaim(t) \/ Release(t) PROVE SlotInv' BY <1>8, YieldInv, Zenon
<1>9. ASSUME (\E t \in Tasks : ForgetDropped(t)) \/ DrainQueue PROVE SlotInv' BY <1>9, DropInv, Zenon
<1>10. ASSUME NEW S \in SUBSET Tasks, EndContexts(S) PROVE SlotInv'
  BY <1>1, <1>10, SlotFrame, Zenon DEF EndContexts, SlotTypeOK
<1>11. ASSUME FlagShutdown PROVE SlotInv' BY <1>1, <1>11, SlotFrame, Zenon DEF FlagShutdown, SlotTypeOK
<1>12. ASSUME Restart PROVE SlotInv'
  <2>1. SlotInit' BY <1>12, Zenon DEF Restart, SlotInit
  <2>2. SlotInit' => SlotInv' BY SlotInitInv, PTL
  <2> QED BY <2>1, <2>2, Zenon
<1>13. ASSUME UNCHANGED slotVars PROVE SlotInv'
  BY <1>1, <1>13, SlotFrame, Zenon DEF slotVars, SlotTypeOK
<1> QED BY <1>2, <1>3, <1>4, <1>5, <1>6, <1>7, <1>8, <1>9, <1>10, <1>11, <1>12, <1>13, Zenon DEF SlotNext

\* The line is exact, running counts the tasks that hold a slot, and no slot is
\* idle while a task waits without a dispatch being on its way: for any tasks and
\* any MaxConcurrent, along every interleaving of submits, cancels, yields,
\* reclaims, ends, shutdowns and restarts.
THEOREM SlotQueueInvariant == SlotSpec => []SlotInv
<1>1. SlotInit => SlotInv BY SlotInitInv, Zenon
<1>2. SlotInv /\ [SlotNext]_slotVars => SlotInv' BY SlotNextInv, Zenon
<1> QED BY <1>1, <1>2, PTL DEF SlotSpec

\* Manager.running is the number of tasks that hold a slot.
THEOREM SlotQueueCounted == SlotSpec => []SlotsCounted
<1>1. SlotInv => SlotsCounted BY Zenon DEF SlotInv
<1> QED BY <1>1, SlotQueueInvariant, PTL

\* No slot stays idle while a task waits.
THEOREM SlotQueueNoIdleSlot == SlotSpec => []NoIdleSlot
<1>1. SlotInv => NoIdleSlot BY Zenon DEF SlotInv
<1> QED BY <1>1, SlotQueueInvariant, PTL

\* A task starts from the line only within MaxConcurrent: a reclaim may exceed it,
\* a start never does.
THEOREM SlotQueueStartsWithinLimit == SlotSpec => StartsWithinLimit
<1> DEFINE Starts == \E t \in Tasks : slot[t] = "queued" /\ slot'[t] = "held"
<1>1. ASSUME SlotInv, SlotNext, Starts PROVE running' <= MaxConcurrent
  <2>1. SlotTypeOK /\ LineExact /\ SlotsCounted BY <1>1, Zenon DEF SlotInv
  <2>2. ASSUME NEW t \in Tasks, EnqueueDispatch(t) PROVE running' <= MaxConcurrent
    BY <1>1, <2>1, <2>2, DispatchEffect, Zenon DEF EnqueueDispatch, SlotTypeOK
  <2>3. ASSUME NEW t \in Tasks, YieldDispatch(t) PROVE running' <= MaxConcurrent
    <3>1. [slot EXCEPT ![t] = "yielded"] \in [Tasks -> SlotStates] BY <2>1, Zenon DEF SlotTypeOK, SlotStates
    <3> QED BY <1>1, <2>1, <2>3, <3>1, DispatchEffect, Zenon DEF YieldDispatch, SlotTypeOK
  <2>4. ASSUME NEW t \in Tasks, HandOn(t) PROVE running' <= MaxConcurrent
    <3>1. [slot EXCEPT ![t] = "out"] \in [Tasks -> SlotStates] BY <2>1, Zenon DEF SlotTypeOK, SlotStates
    <3> QED BY <1>1, <2>1, <2>4, <3>1, DispatchEffect, Zenon DEF HandOn, SlotTypeOK
  <2>5. ASSUME NEW t \in Tasks,
               \/ \E over \in BOOLEAN : NewTask(t, over)
               \/ Enqueue(t) \/ ForgetDropped(t) \/ Dequeue(t)
               \/ Yield(t) \/ Reclaim(t) \/ Release(t)
        PROVE  ~Starts
    BY <2>1, <2>5, Zenon DEF SlotTypeOK, NewTask, Enqueue, ForgetDropped, Dequeue, Yield, Reclaim, Release
  <2>6. (\E S \in SUBSET Tasks : EndContexts(S)) \/ FlagShutdown \/ DrainQueue \/ Restart => ~Starts
    BY Zenon DEF EndContexts, FlagShutdown, DrainQueue, Restart
  <2> QED BY <1>1, <2>2, <2>3, <2>4, <2>5, <2>6, Zenon DEF SlotNext
<1>2. SlotInv /\ [SlotNext]_slotVars => [Starts => running' <= MaxConcurrent]_slotVars BY <1>1, Zenon
<1> QED BY <1>2, SlotQueueInvariant, PTL DEF SlotSpec, StartsWithinLimit

\* Who keeps waiting is not overtaken by a dispatch: it takes the head of the line.
LEMMA DispatchInOrder ==
    ASSUME SlotTypeOK, LineExact, NEW s \in [Tasks -> SlotStates],
           \A t \in Tasks : slot[t] = "queued" => s[t] = "queued", Dispatch(s),
           NEW t \in Tasks, NEW u \in Tasks, slot[t] = "queued", slot'[t] = "queued"
    PROVE  /\ slot[u] = "queued" /\ slot'[u] = "held" => Before(u, t)
           /\ Before(u, t)' => Before(u, t)
<1>1. PICK n \in 0..Len(queue) :
        /\ queue' = SubSeq(queue, n + 1, Len(queue))
        /\ slot' = [v \in Tasks |-> IF v \in Started(n) THEN "held" ELSE IF v \in Line(n) THEN "dropped" ELSE s[v]]
  BY Zenon DEF Dispatch
<1>2. queue \in Seq(Tasks) /\ n \in 0..Len(queue) BY <1>1, Zenon DEF SlotTypeOK
<1>3. t \notin Line(n) /\ Started(n) \subseteq Line(n) BY <1>1 DEF Started
<1>4. PICK j \in 1..Len(queue) : queue[j] = t BY Zenon DEF LineExact
<1>5. j > n BY <1>2, <1>3, <1>4 DEF Line
<1>6. ASSUME slot[u] = "queued", slot'[u] = "held" PROVE Before(u, t)
  <2>1. u \in Line(n) BY <1>1, <1>3, <1>6
  <2>2. PICK i \in 1..n : queue[i] = u BY <2>1, Zenon DEF Line
  <2>3. i \in 1..Len(queue) /\ i < j BY <1>2, <1>5, <2>2
  <2> QED BY <1>4, <2>2, <2>3, Zenon DEF Before
<1>7. ASSUME Before(u, t)' PROVE Before(u, t)
  <2>1. PICK x \in 1..Len(queue'), y \in 1..Len(queue') : x < y /\ queue'[x] = u /\ queue'[y] = t
    BY <1>7, Zenon DEF Before
  <2>2. Len(queue') = Len(queue) - n /\ \A i \in 1..Len(queue') : queue'[i] = queue[n + i]
    BY <1>1, <1>2, RestOfLine, Zenon
  <2>3. n + x \in 1..Len(queue) /\ n + y \in 1..Len(queue) /\ n + x < n + y BY <1>2, <2>1, <2>2
  <2>4. queue[n + x] = u /\ queue[n + y] = t BY <2>1, <2>2, Zenon
  <2> QED BY <2>3, <2>4, Zenon DEF Before
<1> QED BY <1>6, <1>7, Zenon

\* ... nor by anything else that moves in the line.
LEMMA StepInOrder ==
    ASSUME SlotInv, SlotNext, NEW t \in Tasks, NEW u \in Tasks, slot[t] = "queued", slot'[t] = "queued"
    PROVE  /\ slot[u] = "queued" /\ slot'[u] = "held" => Before(u, t)
           /\ Before(u, t)' => Before(u, t)
<1>0. SlotTypeOK /\ LineExact /\ slot \in [Tasks -> SlotStates] /\ queue \in Seq(Tasks)
  BY Zenon DEF SlotInv, SlotTypeOK
<1>1. ASSUME NEW v \in Tasks, EnqueueDispatch(v)
      PROVE  (slot[u] = "queued" /\ slot'[u] = "held" => Before(u, t)) /\ (Before(u, t)' => Before(u, t))
  BY <1>0, <1>1, DispatchInOrder, Zenon DEF EnqueueDispatch
<1>2. ASSUME NEW v \in Tasks, YieldDispatch(v)
      PROVE  (slot[u] = "queued" /\ slot'[u] = "held" => Before(u, t)) /\ (Before(u, t)' => Before(u, t))
  <2>1. /\ [slot EXCEPT ![v] = "yielded"] \in [Tasks -> SlotStates]
        /\ \A w \in Tasks : slot[w] = "queued" => [slot EXCEPT ![v] = "yielded"][w] = "queued"
    BY <1>0, <1>2 DEF SlotStates, YieldDispatch
  <2> QED BY <1>0, <1>2, <2>1, DispatchInOrder, Zenon DEF YieldDispatch
<1>3. ASSUME NEW v \in Tasks, HandOn(v)
      PROVE  (slot[u] = "queued" /\ slot'[u] = "held" => Before(u, t)) /\ (Before(u, t)' => Before(u, t))
  <2>1. /\ [slot EXCEPT ![v] = "out"] \in [Tasks -> SlotStates]
        /\ \A w \in Tasks : slot[w] = "queued" => [slot EXCEPT ![v] = "out"][w] = "queued"
    BY <1>0, <1>3 DEF SlotStates, HandOn
  <2> QED BY <1>0, <1>3, <2>1, DispatchInOrder, Zenon DEF HandOn
<1>4. ASSUME NEW v \in Tasks, Enqueue(v)
      PROVE  (slot[u] = "queued" /\ slot'[u] = "held" => Before(u, t)) /\ (Before(u, t)' => Before(u, t))
  <2>1. ~(slot[u] = "queued" /\ slot'[u] = "held") BY <1>0, <1>4 DEF Enqueue
  <2>2. t # v /\ queue' = Append(queue, v) BY <1>4 DEF Enqueue
  <2>3. ASSUME Before(u, t)' PROVE Before(u, t)
    <3>1. PICK x \in 1..Len(queue'), y \in 1..Len(queue') : x < y /\ queue'[x] = u /\ queue'[y] = t
      BY <2>3, Zenon DEF Before
    <3>2. y # Len(queue) + 1 BY <1>0, <2>2, <3>1
    <3>3. x \in 1..Len(queue) /\ y \in 1..Len(queue) BY <1>0, <2>2, <3>1, <3>2
    <3>4. queue[x] = u /\ queue[y] = t BY <1>0, <2>2, <3>1, <3>3
    <3> QED BY <3>1, <3>3, <3>4, Zenon DEF Before
  <2> QED BY <2>1, <2>3, Zenon
<1>5. ASSUME NEW v \in Tasks, Dequeue(v)
      PROVE  (slot[u] = "queued" /\ slot'[u] = "held" => Before(u, t)) /\ (Before(u, t)' => Before(u, t))
  <2>1. ~(slot[u] = "queued" /\ slot'[u] = "held") BY <1>0, <1>5 DEF Dequeue
  <2>2. PICK k \in 1..Len(queue) :
          /\ Len(queue') = Len(queue) - 1
          /\ \A i \in 1..Len(queue') : queue'[i] = IF i < k THEN queue[i] ELSE queue[i + 1]
    BY <1>5, DequeueLine, Zenon
  <2>3. ASSUME Before(u, t)' PROVE Before(u, t)
    <3>1. PICK x \in 1..Len(queue'), y \in 1..Len(queue') : x < y /\ queue'[x] = u /\ queue'[y] = t
      BY <2>3, Zenon DEF Before
    <3> DEFINE xx == IF x < k THEN x ELSE x + 1
               yy == IF y < k THEN y ELSE y + 1
    <3>2. xx \in 1..Len(queue) /\ yy \in 1..Len(queue) /\ xx < yy BY <1>0, <2>2, <3>1
    <3>3. queue[xx] = u /\ queue[yy] = t BY <2>2, <3>1, Zenon
    <3> QED BY <3>2, <3>3, Zenon DEF Before
  <2> QED BY <2>1, <2>3, Zenon
<1>6. ASSUME NEW v \in Tasks, (\E over \in BOOLEAN : NewTask(v, over)) \/ ForgetDropped(v) \/ Yield(v)
               \/ Reclaim(v) \/ Release(v)
      PROVE  (slot[u] = "queued" /\ slot'[u] = "held" => Before(u, t)) /\ (Before(u, t)' => Before(u, t))
  <2>1. queue' = queue BY <1>6, Zenon DEF NewTask, ForgetDropped, Yield, Reclaim, Release
  <2>2. ~(slot[u] = "queued" /\ slot'[u] = "held")
    BY <1>0, <1>6 DEF NewTask, ForgetDropped, Yield, Reclaim, Release
  <2> QED BY <2>1, <2>2, Zenon DEF Before
<1>7. CASE (\E S \in SUBSET Tasks : EndContexts(S)) \/ FlagShutdown
  <2>1. queue' = queue /\ slot' = slot BY <1>7, Zenon DEF EndContexts, FlagShutdown
  <2>2. ~(slot[u] = "queued" /\ slot'[u] = "held") BY <2>1
  <2> QED BY <2>1, <2>2, Zenon DEF Before
<1>8. ~(DrainQueue \/ Restart) BY DEF DrainQueue, Restart
<1> QED BY <1>1, <1>2, <1>3, <1>4, <1>5, <1>6, <1>7, <1>8, Zenon DEF SlotNext

\* Tasks start in the order in which they were submitted, whatever yields, reclaims,
\* cancels and ends happen in between.
THEOREM SlotQueueNotOvertaken == SlotSpec => NotOvertaken
<1> DEFINE InOrder == \A t, u \in Tasks :
        t # u /\ slot[t] = "queued" /\ slot'[t] = "queued" /\ ~Before(u, t)
            => ~(slot[u] = "queued" /\ slot'[u] = "held") /\ ~Before(u, t)'
<1>1. ASSUME SlotInv, SlotNext PROVE InOrder BY <1>1, StepInOrder, Zenon
<1>2. SlotInv /\ [SlotNext]_slotVars => [InOrder]_slotVars BY <1>1, Zenon
<1> QED BY <1>2, SlotQueueInvariant, PTL DEF SlotSpec, NotOvertaken
=============================================================================
