-------------------------- MODULE NntpPoolProofs --------------------------
(***************************************************************************)
(* Proofs about NntpPool, for any number of callers and connections: the   *)
(* count of open connections is exact, no late reply is read by another    *)
(* call, and the limit of the account is kept.                             *)
(***************************************************************************)
EXTENDS NntpPool, FiniteSetTheorems, TLAPS

Hands == {"body", "retry", "release", "put"}

\* What a caller holds, by where it stands.
Places ==
    \A c \in Callers :
      /\ pc[c] \in Hands => cn[c] \in Conns /\ old[c] = NoConn
      /\ pc[c] = "replace" => cn[c] = NoConn /\ old[c] \in Conns
      /\ pc[c] = "retire" => old[c] \in Conns
      /\ pc[c] = "wake" => old[c] = NoConn
      /\ pc[c] \notin Hands \cup {"replace", "retire", "wake"} =>
            cn[c] = NoConn /\ old[c] = NoConn
      /\ connecting => pc[c] = "idle"

\* A broken connection is on its way to be retired: in old, or in the hands of
\* a release.  Only a broken one owes a reply.
Marks ==
    /\ unread \subseteq broken /\ broken \subseteq live
    /\ Idle \cap broken = {}
    /\ \A c \in Callers : cn[c] \in broken => pc[c] = "release"

Doubles == {c \in Callers : cn[c] # NoConn /\ old[c] # NoConn}

Bounded ==
    /\ open <= MaxConnections + Cardinality(Doubles)
    /\ connecting => open = Len(pool) /\ Len(pool) < MaxConnections

PoolInv == TypeOK /\ Places /\ OneHolder /\ Marks /\ OpenExact /\ Bounded

-----------------------------------------------------------------------------
(* Sequences and sets *)

\* A connection put into the pool is idle, once.
LEMMA AppendFacts ==
  ASSUME NEW s \in Seq(Conns), NEW x \in Conns, x \notin Range(s), IsInjective(s)
  PROVE  /\ Append(s, x) \in Seq(Conns) /\ Len(Append(s, x)) = Len(s) + 1
         /\ Range(Append(s, x)) = Range(s) \cup {x} /\ IsInjective(Append(s, x))
BY SMTT(30) DEF Range, IsInjective

\* A connection received from the pool is idle no more.
LEMMA TailFacts ==
  ASSUME NEW s \in Seq(Conns), s # <<>>, IsInjective(s)
  PROVE  /\ Tail(s) \in Seq(Conns) /\ Len(Tail(s)) = Len(s) - 1
         /\ Head(s) \in Conns /\ Head(s) \in Range(s)
         /\ Range(Tail(s)) = Range(s) \ {Head(s)} /\ IsInjective(Tail(s))
<1>1. PICK t : t = Tail(s) BY Zenon
<1>2. /\ t \in Seq(Conns) /\ Len(t) = Len(s) - 1 /\ Head(s) = s[1] /\ 1 \in DOMAIN s
      /\ Head(s) \in Conns /\ \A i \in DOMAIN t : i \in Nat /\ i >= 1
  BY <1>1
<1>3. \A i \in DOMAIN t : i + 1 \in DOMAIN s /\ t[i] = s[i + 1] /\ i + 1 # 1
  BY <1>1
<1>4. \A i \in DOMAIN s : i # 1 => i - 1 \in DOMAIN t /\ s[i] = t[i - 1]
  BY <1>1
<1>5. \A i, j \in DOMAIN s : s[i] = s[j] => i = j BY Zenon DEF IsInjective
<1>6. Range(t) \subseteq Range(s) \ {Head(s)}
  <2> SUFFICES ASSUME NEW i \in DOMAIN t
               PROVE  t[i] \in Range(s) /\ t[i] # s[1]
    BY Zenon, <1>2 DEF Range
  <2>1. i + 1 \in DOMAIN s /\ t[i] = s[i + 1] /\ i + 1 # 1 BY Zenon, <1>3
  <2>2. QED BY Zenon, <1>2, <1>5, <2>1 DEF Range
<1>7. Range(s) \ {Head(s)} \subseteq Range(t)
  <2> SUFFICES ASSUME NEW i \in DOMAIN s, s[i] # s[1]
               PROVE  s[i] \in Range(t)
    BY Zenon, <1>2 DEF Range
  <2>1. i - 1 \in DOMAIN t /\ s[i] = t[i - 1] BY Zenon, <1>4
  <2>2. QED BY Zenon, <2>1 DEF Range
<1>8. \A i, j \in DOMAIN t : t[i] = t[j] => i = j
  <2> SUFFICES ASSUME NEW i \in DOMAIN t, NEW j \in DOMAIN t, t[i] = t[j]
               PROVE  i = j
    BY Zenon
  <2>1. i + 1 = j + 1 BY Zenon, <1>3, <1>5
  <2>2. QED BY <1>2, <2>1
<1>9. Head(s) \in Range(s) BY Zenon, <1>2 DEF Range
<1>10. QED BY Zenon, <1>1, <1>2, <1>6, <1>7, <1>8, <1>9 DEF IsInjective

\* The pool as a set.
LEMMA PoolFacts ==
  ASSUME PoolInv
  PROVE  /\ pool \in Seq(Conns) /\ Len(pool) \in Nat /\ IsInjective(pool)
         /\ Idle = Range(pool) /\ Idle' = Range(pool')
<1>1. pool \in Seq(Conns) BY Zenon DEF PoolInv, TypeOK
<1>2. IsInjective(pool) BY Zenon DEF PoolInv, OneHolder, IsInjective
<1>3. QED BY <1>1, <1>2 DEF Idle, Range

\* The sets that are counted are finite.
LEMMA Finite ==
  ASSUME TypeOK
  PROVE  /\ IsFiniteSet(live) /\ Cardinality(live) \in Nat
         /\ IsFiniteSet(Reserved) /\ Cardinality(Reserved) \in Nat
         /\ IsFiniteSet(Doubles) /\ Cardinality(Doubles) \in Nat
<1>1. live \in SUBSET Conns /\ Reserved \in SUBSET Callers /\ Doubles \in SUBSET Callers
  BY Zenon DEF TypeOK, Reserved, Doubles
<1>2. IsFiniteSet(live) /\ IsFiniteSet(Reserved) /\ IsFiniteSet(Doubles)
  BY Zenon, <1>1, PoolAssumption, FS_Subset
<1>3. QED BY Zenon, <1>2, FS_CardinalityType

\* A one-to-one image has as many elements.
LEMMA OneToOne ==
  ASSUME NEW S, IsFiniteSet(S), NEW T, NEW f \in [S -> T],
         \A x, y \in S : f[x] = f[y] => x = y,
         \A y \in T : \E x \in S : f[x] = y
  PROVE  IsFiniteSet(T) /\ Cardinality(T) = Cardinality(S)
<1>1. DOMAIN f = S BY Zenon
<1>2. f \in Bijection(S, T)
  BY Zenon, <1>1 DEF Bijection, Injection, Surjection, IsInjective
<1>3. ExistsBijection(S, T) BY Zenon, <1>2 DEF ExistsBijection
<1>4. QED BY Zenon, <1>3, FS_Bijection

\* As many connections are idle as the pool is long.
LEMMA IdleCount ==
  ASSUME NEW s \in Seq(Conns), IsInjective(s)
  PROVE  IsFiniteSet(Range(s)) /\ Cardinality(Range(s)) = Len(s)
<1>1. Len(s) \in Nat /\ DOMAIN s = 1..Len(s) OBVIOUS
<1>2. IsFiniteSet(1..Len(s)) /\ Cardinality(1..Len(s)) = Len(s)
  BY SMTT(30), <1>1, FS_Interval
<1>3. /\ s \in [1..Len(s) -> Range(s)] /\ \A i, j \in 1..Len(s) : s[i] = s[j] => i = j
      /\ \A y \in Range(s) : \E i \in 1..Len(s) : s[i] = y
  BY <1>1 DEF Range, IsInjective
<1>4. QED BY Zenon, <1>2, <1>3, OneToOne

\* A release never finds the pool full: what is idle, what the caller gives back
\* and the broken connections beside a fresh one are all counted in open.
LEMMA PutHasRoom ==
  ASSUME PoolInv, NEW c \in Callers, pc[c] = "put"
  PROVE  Len(pool) < MaxConnections
<1> DEFINE Olds == {old[d] : d \in Doubles}
           Known == (Idle \cup Olds) \cup {cn[c]}
<1>1. IsFiniteSet(Idle) /\ Cardinality(Idle) = Len(pool) /\ Len(pool) \in Nat
  BY Zenon, PoolFacts, IdleCount
<1>2. IsFiniteSet(Doubles) /\ IsFiniteSet(live) /\ Cardinality(Doubles) \in Nat
      /\ Cardinality(live) \in Nat /\ Cardinality(Reserved) \in Nat
  BY Zenon, Finite DEF PoolInv
<1>3. IsFiniteSet(Olds) /\ Cardinality(Olds) = Cardinality(Doubles)
  <2>1. \A d, e \in Doubles : old[d] = old[e] => d = e
    BY Zenon DEF Doubles, PoolInv, OneHolder
  <2>2. PICK f : f = [d \in Doubles |-> old[d]] BY Zenon
  <2>3. /\ f \in [Doubles -> Olds] /\ \A d, e \in Doubles : f[d] = f[e] => d = e
        /\ \A y \in Olds : \E d \in Doubles : f[d] = y
    BY Zenon, <2>1, <2>2
  <2> HIDE DEF Olds
  <2>4. QED BY Zenon, <1>2, <2>3, OneToOne
<1>4. cn[c] \in Conns /\ old[c] = NoConn /\ cn[c] # NoConn
  BY Zenon, PoolAssumption DEF PoolInv, Places, Hands
<1>5. Idle \cap Olds = {} /\ cn[c] \notin Idle /\ cn[c] \notin Olds /\ Known \subseteq live
  <2>1. Idle \cap Held = {} /\ live = Idle \cup (Held \ {NoConn})
    BY Zenon DEF PoolInv, OneHolder
  <2>2. Olds \subseteq Held \ {NoConn} /\ cn[c] \in Held BY Zenon DEF Held, Doubles
  <2>3. \A d \in Doubles : d # c /\ old[d] # NoConn BY Zenon, <1>4 DEF Doubles
  <2>4. \A d \in Doubles : d \in Callers BY Zenon DEF Doubles
  <2>5. \A d \in Callers : d # c => {cn[c], old[c]} \cap {cn[d], old[d]} \subseteq {NoConn}
    BY Zenon DEF PoolInv, OneHolder
  <2>6. \A d \in Doubles : cn[c] # old[d] BY Zenon, <2>3, <2>4, <2>5
  <2>7. QED BY Zenon, <1>4, <2>1, <2>2, <2>6
<1>6. IsFiniteSet(Idle \cup Olds)
      /\ Cardinality(Idle \cup Olds) = Len(pool) + Cardinality(Doubles)
  <2>1. Cardinality(Idle \cap Olds) = 0 BY Zenon, <1>5, FS_EmptySet
  <2>2. IsFiniteSet(Idle \cup Olds) /\ Cardinality(Idle \cup Olds)
           = Cardinality(Idle) + Cardinality(Olds) - Cardinality(Idle \cap Olds)
    BY Zenon, <1>1, <1>3, FS_Union
  <2> HIDE DEF Olds
  <2>3. QED BY <1>1, <1>2, <1>3, <2>1, <2>2
<1>7. Cardinality(Known) = Len(pool) + Cardinality(Doubles) + 1
  BY Zenon, <1>5, <1>6, FS_AddElement
<1>8. Cardinality(Known) <= Cardinality(live)
  BY Zenon, <1>2, <1>5, FS_Subset
<1>9. open = Cardinality(live) + Cardinality(Reserved)
      /\ open <= MaxConnections + Cardinality(Doubles)
  BY Zenon DEF PoolInv, OpenExact, Bounded
<1>10. QED BY <1>1, <1>2, <1>7, <1>8, <1>9, PoolAssumption

-----------------------------------------------------------------------------
(* The steps *)

\* A caller that moves on leaves the others where they are.
LEMMA GotoFacts ==
  ASSUME TypeOK, NEW c \in Callers, NEW label \in Labels, Goto(c, label)
  PROVE  /\ pc' \in [Callers -> Labels] /\ pc'[c] = label
         /\ \A d \in Callers : d # c => pc'[d] = pc[d]
BY Zenon DEF TypeOK, Goto

\* A connection that a caller holds is live, not idle, and nobody else's.
LEMMA Apart ==
  ASSUME PoolInv, NEW c \in Callers
  PROVE  /\ cn[c] # NoConn =>
              /\ cn[c] \in live /\ cn[c] \notin Idle /\ old[c] # cn[c]
              /\ \A d \in Callers : d # c => cn[d] # cn[c] /\ old[d] # cn[c]
         /\ old[c] # NoConn =>
              /\ old[c] \in live /\ old[c] \notin Idle /\ cn[c] # old[c]
              /\ \A d \in Callers : d # c => cn[d] # old[c] /\ old[d] # old[c]
<1>1. cn[c] \in Held /\ old[c] \in Held BY Zenon DEF Held
<1>2. live = Idle \cup (Held \ {NoConn}) /\ Idle \cap Held = {}
  BY Zenon DEF PoolInv, OneHolder
<1>3. \A d \in Callers : d # c => {cn[c], old[c]} \cap {cn[d], old[d]} \subseteq {NoConn}
  BY Zenon DEF PoolInv, OneHolder
<1>4. cn[c] = old[c] => cn[c] = NoConn BY Zenon DEF PoolInv, OneHolder
<1>5. cn[c] # NoConn => cn[c] \in live /\ cn[c] \notin Idle /\ old[c] # cn[c]
  BY Zenon, <1>1, <1>2, <1>4
<1>6. old[c] # NoConn => old[c] \in live /\ old[c] \notin Idle /\ cn[c] # old[c]
  BY Zenon, <1>1, <1>2, <1>4
<1>7. ASSUME NEW d \in Callers, d # c
      PROVE  /\ cn[c] # NoConn => cn[d] # cn[c] /\ old[d] # cn[c]
             /\ old[c] # NoConn => cn[d] # old[c] /\ old[d] # old[c]
  <2>1. \A x : x \in {cn[c], old[c]} /\ x \in {cn[d], old[d]} => x = NoConn
    BY Zenon, <1>3, <1>7
  <2>2. QED BY Zenon, <2>1
<1>8. QED BY Zenon, <1>5, <1>6, <1>7

\* Steps that move no connection.
LEMMA PlainStep ==
  ASSUME PoolInv, UNCHANGED <<pool, open, connecting, conn_vars, cn, old>>,
         TypeOK', Places', Reserved' = Reserved,
         \A c \in Callers : cn[c] \in broken => pc'[c] = "release"
  PROVE  PoolInv'
<1>1. OneHolder' BY DEF PoolInv, OneHolder, Idle, Held, conn_vars
<1>2. Marks' BY Zenon DEF PoolInv, Marks, Idle, conn_vars
<1>3. OpenExact' BY Zenon DEF PoolInv, OpenExact, conn_vars
<1>4. Bounded' BY Zenon DEF PoolInv, Bounded, Doubles
<1>5. QED BY Zenon, <1>1, <1>2, <1>3, <1>4 DEF PoolInv

\* The same for one caller, between places where it holds the same.
LEMMA Moves ==
  ASSUME PoolInv, NEW c \in Callers, NEW label \in Labels, Goto(c, label),
         UNCHANGED <<pool, open, connecting, conn_vars, cn, old>>,
         done' \in BOOLEAN, draining' \in BOOLEAN, freed' \in 0..MaxConnections,
         cancelled' \in [Callers -> BOOLEAN],
         ~connecting, cn[c] \in broken => label = "release",
         pc[c] \in {"dial", "unreserve"} <=> label \in {"dial", "unreserve"},
         \/ pc[c] \in Hands /\ label \in Hands
         \/ pc[c] \notin Hands \cup {"replace", "retire", "wake"}
              /\ label \notin Hands \cup {"replace", "retire", "wake"}
         \/ pc[c] = "replace" /\ label = "retire"
         \/ pc[c] = "wake" /\ cn[c] = NoConn /\ label = "idle"
         \/ pc[c] = "wake" /\ cn[c] # NoConn /\ label = "retry"
  PROVE  PoolInv'
<1>1. /\ pc' \in [Callers -> Labels] /\ pc'[c] = label
      /\ \A d \in Callers : d # c => pc'[d] = pc[d]
  BY Zenon, GotoFacts DEF PoolInv
<1>2. TypeOK' BY Zenon, <1>1 DEF PoolInv, TypeOK, conn_vars
<1>3. cn[c] \in Conns \/ cn[c] = NoConn BY Zenon DEF PoolInv, TypeOK
<1>4. Places' BY ZenonT(30), <1>1, <1>3 DEF PoolInv, Places, Hands
<1>5. Reserved' = Reserved BY Zenon, <1>1 DEF Reserved
<1>6. \A d \in Callers : cn[d] \in broken => pc'[d] = "release"
  BY Zenon, <1>1 DEF PoolInv, Marks
<1>7. QED BY Zenon, <1>2, <1>4, <1>5, <1>6, PlainStep

\* Steps that set a connection aside to be retired: cn becomes old.
LEMMA SetAside ==
  ASSUME PoolInv, NEW c \in Callers, NEW label \in {"retire", "replace"},
         Goto(c, label), pc[c] \in Hands \/ (pc[c] = "wake" /\ cn[c] # NoConn),
         cn' = [cn EXCEPT ![c] = NoConn], old' = [old EXCEPT ![c] = cn[c]],
         UNCHANGED <<pool, open, connecting, live, done, draining, cancelled>>,
         freed' \in 0..MaxConnections,
         broken \subseteq broken', broken' \subseteq broken \cup {cn[c]},
         unread' \subseteq broken'
  PROVE  PoolInv'
<1>1. /\ pc' \in [Callers -> Labels] /\ pc'[c] = label
      /\ \A d \in Callers : d # c => pc'[d] = pc[d]
  BY Zenon, GotoFacts DEF PoolInv, Labels
<1>2. PICK x \in Conns : x = cn[c]
  BY Zenon DEF PoolInv, TypeOK, Places, Hands
<1>3. /\ cn[c] = x /\ old[c] = NoConn /\ x # NoConn
      /\ cn' \in [Callers -> Conns \cup {NoConn}] /\ cn'[c] = NoConn
      /\ old' \in [Callers -> Conns \cup {NoConn}] /\ old'[c] = x
      /\ \A d \in Callers : d # c => cn'[d] = cn[d] /\ old'[d] = old[d]
  BY Zenon, <1>2, PoolAssumption DEF PoolInv, TypeOK, Places, Hands
<1>4. TypeOK' BY <1>1, <1>2, <1>3 DEF PoolInv, TypeOK
<1>5. Places' BY <1>1, <1>3 DEF PoolInv, Places, Hands
<1>6. Held' = Held \cup {NoConn} \/ Held' = Held
  BY <1>3 DEF Held
<1>7. Idle' = Idle BY Zenon DEF Idle
<1>8. OneHolder'
  <2>1. live' = Idle' \cup (Held' \ {NoConn}) /\ Idle' \cap Held' = {}
    BY <1>6, <1>7, PoolAssumption DEF PoolInv, OneHolder, TypeOK, Idle
  <2>2. \A d, e \in Callers : d # e =>
           {cn'[d], old'[d]} \cap {cn'[e], old'[e]} \subseteq {NoConn}
    BY <1>3 DEF PoolInv, OneHolder
  <2>3. \A d \in Callers : cn'[d] = old'[d] => cn'[d] = NoConn
    BY Zenon, <1>3 DEF PoolInv, OneHolder
  <2>4. QED BY Zenon, <2>1, <2>2, <2>3 DEF PoolInv, OneHolder
<1>9. Marks'
  <2>1. x \notin Idle /\ x \in live /\ \A d \in Callers : d # c => cn[d] # x
    BY <1>3, Apart
  <2>2. QED BY <1>1, <1>3, <1>7, <2>1, PoolAssumption DEF PoolInv, TypeOK, Marks
<1>10. OpenExact'
  <2>1. Reserved' = Reserved BY Zenon, <1>1 DEF Reserved, Hands
  <2>2. QED BY Zenon, <2>1 DEF PoolInv, OpenExact
<1>11. Bounded'
  <2>1. Doubles' = Doubles BY Zenon, <1>3 DEF Doubles
  <2>2. QED BY Zenon, <2>1 DEF PoolInv, Bounded
<1>12. QED BY Zenon, <1>4, <1>5, <1>8, <1>9, <1>10, <1>11 DEF PoolInv

\* A connection that is dialled belongs to nobody else.
LEMMA FreshHeld ==
  ASSUME PoolInv, NEW c \in Callers, NEW x \in Conns \ live, cn[c] = NoConn,
         live' = live \cup {x}, UNCHANGED <<pool, old>>, cn'[c] = x,
         \A d \in Callers : d # c => cn'[d] = cn[d]
  PROVE  OneHolder'
<1>1. Idle' = Idle /\ NoConn \notin Idle /\ x # NoConn
  BY PoolAssumption DEF Idle, PoolInv, TypeOK
<1>2. x \notin Held /\ x \notin Idle BY Zenon, <1>1 DEF PoolInv, OneHolder
<1>3. Held' \ {NoConn} = (Held \ {NoConn}) \cup {x} BY Zenon, <1>1 DEF Held
<1>4. live' = Idle' \cup (Held' \ {NoConn}) /\ Idle' \cap Held' = {}
  BY <1>1, <1>2, <1>3 DEF PoolInv, OneHolder
<1>5. \A d \in Callers : cn[d] # x /\ old[d] # x BY Zenon, <1>2 DEF Held
<1>6. \A d, e \in Callers : d # e =>
         {cn'[d], old'[d]} \cap {cn'[e], old'[e]} \subseteq {NoConn}
  BY <1>5 DEF PoolInv, OneHolder
<1>7. \A d \in Callers : cn'[d] = old'[d] => cn'[d] = NoConn
  BY Zenon, <1>5 DEF PoolInv, OneHolder
<1>8. QED BY Zenon, <1>4, <1>6, <1>7 DEF PoolInv, OneHolder

\* A connection goes from the pool to a caller.
LEMMA TakeHolds ==
  ASSUME PoolInv, NEW c \in Callers, Take(c), pc[c] \in {"look", "await", "backoff"}
  PROVE  PoolInv'
<1>1. /\ pool # <<>> /\ cn' = [cn EXCEPT ![c] = Head(pool)] /\ pool' = Tail(pool)
      /\ Goto(c, "body")
      /\ UNCHANGED <<open, freed, done, draining, connecting, live, broken, unread, old,
                     cancelled>>
  BY Zenon DEF Take, conn_vars
<1>2. PICK x : x = Head(pool) BY Zenon
<1>3. /\ pool' \in Seq(Conns) /\ x \in Conns /\ x \in Idle /\ Idle' = Idle \ {x}
      /\ IsInjective(pool')
  BY Zenon, <1>1, <1>2, PoolFacts, TailFacts
<1>4. \A i, j \in DOMAIN pool' : pool'[i] = pool'[j] => i = j
  BY Zenon, <1>3 DEF IsInjective
<1>5. /\ pc' \in [Callers -> Labels] /\ pc'[c] = "body"
      /\ \A d \in Callers : d # c => pc'[d] = pc[d]
  BY Zenon, <1>1, GotoFacts DEF PoolInv, Labels
<1>6. /\ cn[c] = NoConn /\ old[c] = NoConn /\ x # NoConn /\ ~connecting
      /\ cn' \in [Callers -> Conns \cup {NoConn}] /\ cn'[c] = x
      /\ \A d \in Callers : d # c => cn'[d] = cn[d]
  BY Zenon, <1>1, <1>2, <1>3, PoolAssumption DEF PoolInv, TypeOK, Places, Hands
<1>7. TypeOK' BY Zenon, <1>1, <1>3, <1>5, <1>6 DEF PoolInv, TypeOK
<1>8. Places' BY ZenonT(30), <1>1, <1>3, <1>5, <1>6 DEF PoolInv, Places, Hands
<1>9. x \notin Held /\ x \in live BY Zenon, <1>3 DEF PoolInv, OneHolder
<1>10. OneHolder'
  <2>1. Held' \ {NoConn} = (Held \ {NoConn}) \cup {x} BY ZenonT(30), <1>1, <1>6 DEF Held
  <2>2. live' = Idle' \cup (Held' \ {NoConn}) /\ Idle' \cap Held' = {}
    <3>1. NoConn \notin Idle' BY <1>3, PoolAssumption DEF Idle, PoolInv, TypeOK
    <3>2. QED BY <1>1, <1>3, <2>1, <3>1 DEF PoolInv, OneHolder
  <2>3. \A d \in Callers : cn[d] # x /\ old[d] # x BY Zenon, <1>9 DEF Held
  <2>4. \A d, e \in Callers : d # e =>
           {cn'[d], old'[d]} \cap {cn'[e], old'[e]} \subseteq {NoConn}
    BY <1>1, <1>6, <2>3 DEF PoolInv, OneHolder
  <2>5. \A d \in Callers : cn'[d] = old'[d] => cn'[d] = NoConn
    BY Zenon, <1>1, <1>6, <2>3 DEF PoolInv, OneHolder
  <2>6. QED BY Zenon, <1>4, <2>2, <2>4, <2>5 DEF OneHolder
<1>11. Marks' BY Zenon, <1>1, <1>3, <1>5, <1>6 DEF PoolInv, Marks
<1>12. OpenExact'
  <2>1. Reserved' = Reserved BY Zenon, <1>5 DEF Reserved
  <2>2. QED BY Zenon, <1>1, <2>1 DEF PoolInv, OpenExact
<1>13. Bounded'
  <2>1. Doubles' = Doubles BY Zenon, <1>1, <1>6 DEF Doubles
  <2>2. QED BY Zenon, <1>1, <1>6, <2>1 DEF PoolInv, Bounded
<1>14. QED BY Zenon, <1>7, <1>8, <1>10, <1>11, <1>12, <1>13 DEF PoolInv

\* A slot below the limit is counted before the dial; otherwise nothing changes.
LEMMA ReserveSlotHolds ==
  ASSUME PoolInv, NEW c \in Callers, ReserveSlot(c)
  PROVE  PoolInv'
<1>1. /\ pc[c] = "reserve" /\ UNCHANGED <<pool, freed, done, draining, connecting,
                                          conn_vars, cn, old, cancelled>>
      /\ ~connecting /\ cn[c] = NoConn /\ old[c] = NoConn
  BY Zenon DEF ReserveSlot, PoolInv, Places, Hands
<1>2. NoConn \notin broken BY Zenon, PoolAssumption DEF PoolInv, TypeOK
<1>3. CASE UNCHANGED open /\ Goto(c, "await")
  <2>1. /\ done' \in BOOLEAN /\ draining' \in BOOLEAN /\ freed' \in 0..MaxConnections
        /\ cancelled' \in [Callers -> BOOLEAN]
    BY Zenon, <1>1 DEF PoolInv, TypeOK
  <2>2. QED BY Zenon, <1>1, <1>2, <1>3, <2>1, Moves DEF Labels, Hands
<1>4. CASE open < MaxConnections /\ open' = open + 1 /\ Goto(c, "dial")
  <2>1. /\ pc' \in [Callers -> Labels] /\ pc'[c] = "dial"
        /\ \A d \in Callers : d # c => pc'[d] = pc[d]
    BY Zenon, <1>4, GotoFacts DEF PoolInv, Labels
  <2>2. TypeOK' BY <1>1, <1>4, <2>1 DEF PoolInv, TypeOK, conn_vars
  <2>3. Places' BY Zenon, <1>1, <2>1 DEF PoolInv, Places, Hands
  <2>4. OneHolder' BY <1>1 DEF PoolInv, OneHolder, Idle, Held, conn_vars
  <2>5. Marks' BY Zenon, <1>1, <1>2, <2>1 DEF PoolInv, Marks, Idle, conn_vars
  <2>6. OpenExact'
    <3>1. Reserved' = Reserved \cup {c} /\ c \notin Reserved BY Zenon, <1>1, <2>1 DEF Reserved
    <3>2. IsFiniteSet(Reserved) /\ Cardinality(Reserved) \in Nat
          /\ Cardinality(live) \in Nat
      BY Zenon, Finite DEF PoolInv
    <3>3. Cardinality(Reserved') = Cardinality(Reserved) + 1
      BY Zenon, <3>1, <3>2, FS_AddElement
    <3>4. QED BY <1>1, <1>4, <3>2, <3>3 DEF PoolInv, OpenExact, conn_vars
  <2>7. Bounded'
    <3>1. Doubles' = Doubles BY Zenon, <1>1 DEF Doubles
    <3>2. Cardinality(Doubles) \in Nat /\ open \in Nat BY Zenon, Finite DEF PoolInv, TypeOK
    <3>3. QED BY <1>1, <1>4, <3>1, <3>2, PoolAssumption DEF Bounded
  <2>8. QED BY Zenon, <2>2, <2>3, <2>4, <2>5, <2>6, <2>7 DEF PoolInv
<1>5. QED BY Zenon, <1>3, <1>4 DEF ReserveSlot

\* A fresh connection takes the place of the reservation.
LEMMA DialHolds ==
  ASSUME PoolInv, NEW c \in Callers, DialReserved(c)
  PROVE  PoolInv'
<1>1. /\ pc[c] = "dial" /\ UNCHANGED <<pool_vars, broken, unread, old, cancelled>>
      /\ ~connecting /\ cn[c] = NoConn /\ old[c] = NoConn
  BY Zenon DEF DialReserved, PoolInv, Places, Hands
<1>2. NoConn \notin broken BY Zenon, PoolAssumption DEF PoolInv, TypeOK
<1>3. CASE Goto(c, "unreserve") /\ UNCHANGED <<live, cn>>
  <2>1. /\ done' \in BOOLEAN /\ draining' \in BOOLEAN /\ freed' \in 0..MaxConnections
        /\ cancelled' \in [Callers -> BOOLEAN]
    BY Zenon, <1>1 DEF PoolInv, TypeOK, pool_vars
  <2>2. UNCHANGED <<pool, open, connecting, conn_vars, cn, old>>
    BY Zenon, <1>1, <1>3 DEF pool_vars, conn_vars
  <2>3. QED BY Zenon, <1>1, <1>2, <1>3, <2>1, <2>2, Moves DEF Labels, Hands
<1>4. CASE /\ \E x \in Conns \ live :
                /\ live' = live \cup {x}
                /\ cn' = [cn EXCEPT ![c] = x]
           /\ Goto(c, "body")
  <2>1. PICK x \in Conns \ live : live' = live \cup {x} /\ cn' = [cn EXCEPT ![c] = x]
    BY Zenon, <1>4
  <2>2. /\ pc' \in [Callers -> Labels] /\ pc'[c] = "body"
        /\ \A d \in Callers : d # c => pc'[d] = pc[d]
    BY Zenon, <1>4, GotoFacts DEF PoolInv, Labels
  <2>3. /\ x # NoConn /\ cn' \in [Callers -> Conns \cup {NoConn}] /\ cn'[c] = x
        /\ \A d \in Callers : d # c => cn'[d] = cn[d]
    BY Zenon, <2>1, PoolAssumption DEF PoolInv, TypeOK
  <2>4. TypeOK' BY Zenon, <1>1, <2>1, <2>2, <2>3 DEF PoolInv, TypeOK, pool_vars
  <2>5. Places' BY ZenonT(30), <1>1, <2>1, <2>2, <2>3 DEF PoolInv, Places, Hands, pool_vars
  <2>6. OneHolder'
    BY Zenon, <1>1, <2>1, <2>3, FreshHeld DEF pool_vars
  <2>7. Marks' BY <1>1, <2>1, <2>2, <2>3 DEF PoolInv, Marks, Idle, pool_vars
  <2>8. OpenExact'
    <3>1. Reserved' = Reserved \ {c} /\ c \in Reserved BY Zenon, <1>1, <2>2 DEF Reserved
    <3>2. IsFiniteSet(Reserved) /\ Cardinality(Reserved) \in Nat
          /\ IsFiniteSet(live) /\ Cardinality(live) \in Nat
      BY Zenon, Finite DEF PoolInv
    <3>3. Cardinality(Reserved') = Cardinality(Reserved) - 1
          /\ Cardinality(live') = Cardinality(live) + 1
      BY Zenon, <2>1, <3>1, <3>2, FS_AddElement, FS_RemoveElement
    <3>4. QED BY <1>1, <3>2, <3>3 DEF PoolInv, OpenExact, pool_vars
  <2>9. Bounded'
    <3>1. Doubles' = Doubles BY Zenon, <1>1, <2>3 DEF Doubles
    <3>2. QED BY Zenon, <1>1, <3>1 DEF PoolInv, Bounded, pool_vars
  <2>10. QED BY Zenon, <2>4, <2>5, <2>6, <2>7, <2>8, <2>9 DEF PoolInv
<1>5. QED BY Zenon, <1>3, <1>4 DEF DialReserved

\* A dial that failed gives its reservation back.
LEMMA UnreserveHolds ==
  ASSUME PoolInv, NEW c \in Callers, Unreserve(c)
  PROVE  PoolInv'
<1>1. /\ pc[c] = "unreserve" /\ UNCHANGED <<pool, freed, done, draining, connecting,
                                            conn_vars, cn, old, cancelled>>
      /\ open' = open - 1 /\ ~connecting /\ cn[c] = NoConn /\ old[c] = NoConn
  BY Zenon DEF Unreserve, PoolInv, Places, Hands
<1>2. NoConn \notin broken BY Zenon, PoolAssumption DEF PoolInv, TypeOK
<1>3. PICK label \in {"backoff", "wake"} : Goto(c, label) BY Zenon DEF Unreserve
<1>4. /\ pc' \in [Callers -> Labels] /\ pc'[c] \in {"backoff", "wake"}
      /\ \A d \in Callers : d # c => pc'[d] = pc[d]
  BY Zenon, <1>3, GotoFacts DEF PoolInv, Labels
<1>5. /\ IsFiniteSet(Reserved) /\ Cardinality(Reserved) \in Nat
      /\ Cardinality(live) \in Nat /\ Cardinality(Doubles) \in Nat
  BY Zenon, Finite DEF PoolInv
<1>6. Cardinality(Reserved') = Cardinality(Reserved) - 1 /\ Cardinality(Reserved) # 0
  <2>1. Reserved' = Reserved \ {c} /\ c \in Reserved BY Zenon, <1>1, <1>4 DEF Reserved
  <2>2. QED BY Zenon, <1>5, <2>1, FS_RemoveElement, FS_EmptySet
<1>7. open \in Nat /\ open' \in Nat /\ open = Cardinality(live) + Cardinality(Reserved)
  BY <1>1, <1>5, <1>6 DEF PoolInv, TypeOK, OpenExact
<1>8. TypeOK' BY Zenon, <1>1, <1>4, <1>7 DEF PoolInv, TypeOK, conn_vars
<1>9. Places' BY Zenon, <1>1, <1>4 DEF PoolInv, Places, Hands
<1>10. OneHolder' BY <1>1 DEF PoolInv, OneHolder, Idle, Held, conn_vars
<1>11. Marks' BY Zenon, <1>1, <1>2, <1>4 DEF PoolInv, Marks, Idle, conn_vars
<1>12. OpenExact' BY <1>1, <1>5, <1>6, <1>7 DEF OpenExact, conn_vars
<1>13. Bounded'
  <2>1. Doubles' = Doubles BY Zenon, <1>1 DEF Doubles
  <2>2. QED BY <1>1, <1>5, <1>7, <2>1, PoolAssumption DEF PoolInv, Bounded
<1>14. QED BY Zenon, <1>8, <1>9, <1>10, <1>11, <1>12, <1>13 DEF PoolInv

\* A failed exchange marks the connection; the first one sets it aside.
LEMMA BodyFailsHolds ==
  ASSUME PoolInv, NEW c \in Callers, BodyFails(c)
  PROVE  PoolInv'
<1>1. /\ pc[c] \in {"body", "retry"} /\ broken' = broken \cup {cn[c]}
      /\ unread' \subseteq unread \cup {cn[c]}
      /\ UNCHANGED <<pool, open, freed, done, draining, connecting, live, cancelled>>
  BY Zenon DEF BodyFails, MarkBroken, pool_vars
<1>2. /\ cn[c] \in Conns /\ cn[c] # NoConn /\ old[c] = NoConn /\ ~connecting
      /\ unread \subseteq broken
  BY Zenon, <1>1, PoolAssumption DEF PoolInv, Places, Marks, Hands
<1>3. CASE /\ old' = [old EXCEPT ![c] = cn[c]] /\ cn' = [cn EXCEPT ![c] = NoConn]
           /\ Goto(c, "retire") \/ Goto(c, "replace")
  <2>1. PICK label \in {"retire", "replace"} : Goto(c, label) BY Zenon, <1>3
  <2>2. freed' \in 0..MaxConnections BY Zenon, <1>1 DEF PoolInv, TypeOK
  <2>3. unread' \subseteq broken' BY Zenon, <1>1, <1>2
  <2>4. QED BY Zenon, <1>1, <1>3, <2>1, <2>2, <2>3, SetAside DEF Hands
<1>4. CASE Goto(c, "release") /\ UNCHANGED <<cn, old>>
  <2>1. /\ pc' \in [Callers -> Labels] /\ pc'[c] = "release"
        /\ \A d \in Callers : d # c => pc'[d] = pc[d]
    BY Zenon, <1>4, GotoFacts DEF PoolInv, Labels
  <2>2. TypeOK' BY Zenon, <1>1, <1>2, <1>4, <2>1 DEF PoolInv, TypeOK
  <2>3. Places' BY Zenon, <1>1, <1>2, <1>4, <2>1 DEF PoolInv, Places, Hands
  <2>4. OneHolder' BY <1>1, <1>4 DEF PoolInv, OneHolder, Idle, Held
  <2>5. Marks'
    <3>1. cn[c] \notin Idle /\ cn[c] \in live /\ \A d \in Callers : d # c => cn[d] # cn[c]
      BY Zenon, <1>2, Apart
    <3>2. Idle' = Idle BY Zenon, <1>1 DEF Idle
    <3>3. QED BY Zenon, <1>1, <1>2, <1>4, <2>1, <3>1, <3>2 DEF PoolInv, Marks
  <2>6. OpenExact'
    <3>1. Reserved' = Reserved BY Zenon, <1>1, <2>1 DEF Reserved
    <3>2. QED BY Zenon, <1>1, <3>1 DEF PoolInv, OpenExact
  <2>7. Bounded' BY Zenon, <1>1, <1>4 DEF PoolInv, Bounded, Doubles
  <2>8. QED BY Zenon, <2>2, <2>3, <2>4, <2>5, <2>6, <2>7 DEF PoolInv
<1>5. QED BY Zenon, <1>3, <1>4 DEF BodyFails

\* A fresh connection is counted beside the broken one it replaces.
LEMMA ReplaceHolds ==
  ASSUME PoolInv, NEW c \in Callers, Replace(c)
  PROVE  PoolInv'
<1>1. /\ pc[c] = "replace" /\ Goto(c, "retire")
      /\ UNCHANGED <<pool, freed, done, draining, connecting, broken, unread, old, cancelled>>
      /\ ~connecting /\ cn[c] = NoConn /\ old[c] \in Conns /\ old[c] # NoConn
  BY Zenon, PoolAssumption DEF Replace, PoolInv, Places, Hands
<1>2. NoConn \notin broken BY Zenon, PoolAssumption DEF PoolInv, TypeOK
<1>3. CASE UNCHANGED <<live, cn, open>>
  <2>1. /\ done' \in BOOLEAN /\ draining' \in BOOLEAN /\ freed' \in 0..MaxConnections
        /\ cancelled' \in [Callers -> BOOLEAN]
    BY Zenon, <1>1 DEF PoolInv, TypeOK
  <2>2. UNCHANGED <<pool, open, connecting, conn_vars, cn, old>>
    BY Zenon, <1>1, <1>3 DEF conn_vars
  <2>3. QED BY Zenon, <1>1, <1>2, <2>1, <2>2, Moves DEF Labels, Hands
<1>4. CASE /\ \E x \in Conns \ live :
                /\ live' = live \cup {x}
                /\ cn' = [cn EXCEPT ![c] = x]
           /\ open' = open + 1
  <2>1. PICK x \in Conns \ live : live' = live \cup {x} /\ cn' = [cn EXCEPT ![c] = x]
    BY Zenon, <1>4
  <2>2. /\ pc' \in [Callers -> Labels] /\ pc'[c] = "retire"
        /\ \A d \in Callers : d # c => pc'[d] = pc[d]
    BY Zenon, <1>1, GotoFacts DEF PoolInv, Labels
  <2>3. /\ x # NoConn /\ cn' \in [Callers -> Conns \cup {NoConn}] /\ cn'[c] = x
        /\ \A d \in Callers : d # c => cn'[d] = cn[d]
    BY Zenon, <2>1, PoolAssumption DEF PoolInv, TypeOK
  <2>4. TypeOK' BY <1>1, <1>4, <2>1, <2>2, <2>3 DEF PoolInv, TypeOK
  <2>5. Places' BY Zenon, <1>1, <2>1, <2>2, <2>3 DEF PoolInv, Places, Hands
  <2>6. OneHolder' BY Zenon, <1>1, <2>1, <2>3, FreshHeld
  <2>7. Marks' BY <1>1, <2>1, <2>2, <2>3 DEF PoolInv, Marks, Idle
  <2>8. /\ IsFiniteSet(Doubles) /\ Cardinality(Doubles) \in Nat /\ IsFiniteSet(live)
        /\ Cardinality(live) \in Nat /\ Cardinality(Reserved) \in Nat
    BY Zenon, Finite DEF PoolInv
  <2>9. OpenExact'
    <3>1. Reserved' = Reserved BY Zenon, <1>1, <2>2 DEF Reserved
    <3>2. Cardinality(live') = Cardinality(live) + 1 BY Zenon, <2>1, <2>8, FS_AddElement
    <3>3. QED BY <1>4, <2>8, <3>1, <3>2 DEF PoolInv, OpenExact
  <2>10. Bounded'
    <3>1. Doubles' = Doubles \cup {c} /\ c \notin Doubles BY Zenon, <1>1, <2>3 DEF Doubles
    <3>2. Cardinality(Doubles') = Cardinality(Doubles) + 1 BY Zenon, <2>8, <3>1, FS_AddElement
    <3>3. open \in Nat /\ open <= MaxConnections + Cardinality(Doubles)
      BY Zenon DEF PoolInv, TypeOK, Bounded
    <3>4. QED BY <1>1, <1>4, <2>8, <3>2, <3>3, PoolAssumption DEF Bounded
  <2>11. QED BY Zenon, <2>4, <2>5, <2>6, <2>7, <2>9, <2>10 DEF PoolInv
<1>5. QED BY Zenon, <1>3, <1>4 DEF Replace

\* What is given back goes to retirement or on to the pool.
LEMMA ReleaseHolds ==
  ASSUME PoolInv, NEW c \in Callers, Release(c)
  PROVE  PoolInv'
<1>1. /\ pc[c] = "release" /\ UNCHANGED <<pool, open, freed, done, draining, connecting,
                                          live, broken, unread, cancelled>>
  BY Zenon DEF Release, pool_vars, conn_vars
<1>2. /\ done' \in BOOLEAN /\ draining' \in BOOLEAN /\ freed' \in 0..MaxConnections
      /\ cancelled' \in [Callers -> BOOLEAN] /\ unread' \subseteq broken' /\ ~connecting
  BY Zenon, <1>1 DEF PoolInv, TypeOK, Marks, Places, Hands
<1>3. CASE /\ old' = [old EXCEPT ![c] = cn[c]] /\ cn' = [cn EXCEPT ![c] = NoConn]
           /\ Goto(c, "retire")
  BY Zenon, <1>1, <1>2, <1>3, SetAside DEF Hands
<1>4. CASE cn[c] \notin broken /\ Goto(c, "put") /\ UNCHANGED <<cn, old>>
  <2>1. UNCHANGED <<pool, open, connecting, conn_vars, cn, old>>
    BY Zenon, <1>1, <1>4 DEF conn_vars
  <2>2. QED BY Zenon, <1>1, <1>2, <1>4, <2>1, Moves DEF Labels, Hands
<1>5. QED BY Zenon, <1>3, <1>4 DEF Release

\* A connection goes from a caller to the pool, which has room for it.
LEMMA PutHolds ==
  ASSUME PoolInv, NEW c \in Callers, Put(c)
  PROVE  PoolInv'
<1>1. pc[c] = "put" BY Zenon DEF Put
<1>2. /\ cn' = [cn EXCEPT ![c] = NoConn] /\ pool' = Append(pool, cn[c]) /\ Goto(c, "idle")
      /\ UNCHANGED <<open, freed, done, draining, connecting, live, broken, unread,
                     old, cancelled>>
  BY Zenon, <1>1, PutHasRoom DEF Put, conn_vars
<1>3. PICK x : x = cn[c] BY Zenon
<1>4. /\ x \in Conns /\ x # NoConn /\ old[c] = NoConn /\ ~connecting
      /\ x \in live /\ x \notin Idle /\ x \notin broken
      /\ \A d \in Callers : d # c => cn[d] # x /\ old[d] # x
  <2>1. x \in Conns /\ x # NoConn /\ old[c] = NoConn /\ ~connecting
    BY Zenon, <1>1, <1>3, PoolAssumption DEF PoolInv, Places, Hands
  <2>2. x \notin broken BY Zenon, <1>1, <1>3 DEF PoolInv, Marks
  <2>3. QED BY Zenon, <1>3, <2>1, <2>2, Apart
<1>5. /\ pool' \in Seq(Conns) /\ Idle' = Idle \cup {x}
      /\ \A i, j \in DOMAIN pool' : pool'[i] = pool'[j] => i = j
  <2>1. pool' \in Seq(Conns) /\ Idle' = Idle \cup {x} /\ IsInjective(pool')
    BY Zenon, <1>2, <1>3, <1>4, PoolFacts, AppendFacts
  <2>2. QED BY Zenon, <2>1 DEF IsInjective
<1>6. /\ pc' \in [Callers -> Labels] /\ pc'[c] = "idle"
      /\ \A d \in Callers : d # c => pc'[d] = pc[d]
  BY Zenon, <1>2, GotoFacts DEF PoolInv, Labels
<1>7. /\ cn' \in [Callers -> Conns \cup {NoConn}] /\ cn'[c] = NoConn
      /\ \A d \in Callers : d # c => cn'[d] = cn[d]
  BY Zenon, <1>2 DEF PoolInv, TypeOK
<1>8. TypeOK' BY Zenon, <1>2, <1>5, <1>6, <1>7 DEF PoolInv, TypeOK
<1>9. Places' BY Zenon, <1>2, <1>4, <1>6, <1>7 DEF PoolInv, Places, Hands
<1>10. OneHolder'
  <2>1. Held' \ {NoConn} = Held \ {NoConn, x}
    <3>1. Held' \ {NoConn} \subseteq Held \ {NoConn, x}
      BY ZenonT(30), <1>2, <1>4, <1>7 DEF Held
    <3>2. Held \ {NoConn, x} \subseteq Held' \ {NoConn}
      BY Zenon, <1>2, <1>3, <1>7 DEF Held
    <3>3. QED BY Zenon, <3>1, <3>2
  <2>2. NoConn \notin Idle BY PoolAssumption DEF Idle, PoolInv, TypeOK
  <2>3. live' = Idle' \cup (Held' \ {NoConn}) /\ Idle' \cap Held' = {}
    BY <1>2, <1>4, <1>5, <2>1, <2>2 DEF PoolInv, OneHolder
  <2>4. \A d, e \in Callers : d # e =>
           {cn'[d], old'[d]} \cap {cn'[e], old'[e]} \subseteq {NoConn}
    BY Zenon, <1>2, <1>4, <1>7 DEF PoolInv, OneHolder
  <2>5. \A d \in Callers : cn'[d] = old'[d] => cn'[d] = NoConn
    BY Zenon, <1>2, <1>7 DEF PoolInv, OneHolder
  <2>6. QED BY Zenon, <1>5, <2>3, <2>4, <2>5 DEF OneHolder
<1>11. Marks'
  <2>1. NoConn \notin broken BY Zenon, PoolAssumption DEF PoolInv, TypeOK
  <2>2. QED BY <1>2, <1>4, <1>5, <1>6, <1>7, <2>1 DEF PoolInv, Marks
<1>12. OpenExact'
  <2>1. Reserved' = Reserved BY Zenon, <1>1, <1>6 DEF Reserved
  <2>2. QED BY Zenon, <1>2, <2>1 DEF PoolInv, OpenExact
<1>13. Bounded'
  <2>1. Doubles' = Doubles BY Zenon, <1>2, <1>4, <1>7 DEF Doubles
  <2>2. QED BY Zenon, <1>2, <1>4, <2>1 DEF PoolInv, Bounded
<1>14. QED BY Zenon, <1>8, <1>9, <1>10, <1>11, <1>12, <1>13 DEF PoolInv

\* A retired connection is counted out, once.
LEMMA RetireHolds ==
  ASSUME PoolInv, NEW c \in Callers, Retire(c)
  PROVE  PoolInv'
<1>1. /\ pc[c] = "retire" /\ live' = live \ {old[c]} /\ broken' = broken \ {old[c]}
      /\ unread' = unread \ {old[c]} /\ open' = open - 1
      /\ old' = [old EXCEPT ![c] = NoConn] /\ Goto(c, "wake")
      /\ UNCHANGED <<pool, freed, done, draining, connecting, cn, cancelled>>
  BY Zenon DEF Retire
<1>2. PICK x : x = old[c] BY Zenon
<1>3. /\ x \in Conns /\ x # NoConn /\ ~connecting /\ x \in live /\ x \notin Idle
      /\ cn[c] # x /\ \A d \in Callers : d # c => cn[d] # x /\ old[d] # x
  <2>1. x \in Conns /\ x # NoConn /\ ~connecting
    BY Zenon, <1>1, <1>2, PoolAssumption DEF PoolInv, Places, Hands
  <2>2. QED BY Zenon, <1>2, <2>1, Apart
<1>4. /\ pc' \in [Callers -> Labels] /\ pc'[c] = "wake"
      /\ \A d \in Callers : d # c => pc'[d] = pc[d]
  BY Zenon, <1>1, GotoFacts DEF PoolInv, Labels
<1>5. /\ old' \in [Callers -> Conns \cup {NoConn}] /\ old'[c] = NoConn
      /\ \A d \in Callers : d # c => old'[d] = old[d]
  BY Zenon, <1>1 DEF PoolInv, TypeOK
<1>6. /\ IsFiniteSet(Doubles) /\ Cardinality(Doubles) \in Nat /\ IsFiniteSet(live)
      /\ Cardinality(live) \in Nat /\ Cardinality(Reserved) \in Nat
  BY Zenon, Finite DEF PoolInv
<1>7. Cardinality(live') = Cardinality(live) - 1 /\ Cardinality(live) # 0
  BY Zenon, <1>1, <1>2, <1>3, <1>6, FS_RemoveElement, FS_EmptySet
<1>8. open \in Nat /\ open' \in Nat /\ open = Cardinality(live) + Cardinality(Reserved)
  BY <1>1, <1>6, <1>7 DEF PoolInv, TypeOK, OpenExact
<1>9. TypeOK' BY Zenon, <1>1, <1>4, <1>5, <1>8 DEF PoolInv, TypeOK
<1>10. Places' BY Zenon, <1>1, <1>4, <1>5 DEF PoolInv, Places, Hands
<1>11. OneHolder'
  <2>1. Held' \ {NoConn} = Held \ {NoConn, x}
    <3>1. Held' \ {NoConn} \subseteq Held \ {NoConn, x}
      BY Zenon, <1>1, <1>3, <1>5 DEF Held
    <3>2. Held \ {NoConn, x} \subseteq Held' \ {NoConn}
      BY Zenon, <1>1, <1>2, <1>5 DEF Held
    <3>3. QED BY Zenon, <3>1, <3>2
  <2>2. NoConn \notin Idle /\ Idle' = Idle
    BY <1>1, PoolAssumption DEF Idle, PoolInv, TypeOK
  <2>3. live' = Idle' \cup (Held' \ {NoConn}) /\ Idle' \cap Held' = {}
    BY <1>1, <1>2, <1>3, <2>1, <2>2 DEF PoolInv, OneHolder
  <2>4. \A d, e \in Callers : d # e =>
           {cn'[d], old'[d]} \cap {cn'[e], old'[e]} \subseteq {NoConn}
    BY Zenon, <1>1, <1>3, <1>5 DEF PoolInv, OneHolder
  <2>5. \A d \in Callers : cn'[d] = old'[d] => cn'[d] = NoConn
    BY Zenon, <1>1, <1>5 DEF PoolInv, OneHolder
  <2>6. QED BY Zenon, <1>1, <2>3, <2>4, <2>5 DEF PoolInv, OneHolder
<1>12. Marks'
  <2>1. Idle' = Idle BY Zenon, <1>1 DEF Idle
  <2>2. \A d \in Callers : cn'[d] \in broken' => pc'[d] = "release"
    BY Zenon, <1>1, <1>4 DEF PoolInv, Marks
  <2>3. QED BY Zenon, <1>1, <2>1, <2>2 DEF PoolInv, Marks
<1>13. OpenExact'
  <2>1. Reserved' = Reserved BY Zenon, <1>1, <1>4 DEF Reserved
  <2>2. QED BY <1>1, <1>6, <1>7, <1>8, <2>1 DEF OpenExact
<1>14. Bounded'
  <2>1. Doubles' = Doubles \ {c} BY Zenon, <1>1, <1>5 DEF Doubles
  <2>2. Cardinality(Doubles') \in Nat /\ Cardinality(Doubles') >= Cardinality(Doubles) - 1
    <3>1. /\ IsFiniteSet(Doubles \ {c})
          /\ Cardinality(Doubles \ {c})
               = IF c \in Doubles THEN Cardinality(Doubles) - 1 ELSE Cardinality(Doubles)
      BY Zenon, <1>6, FS_RemoveElement
    <3>2. Cardinality(Doubles \ {c}) \in Nat BY Zenon, <3>1, FS_CardinalityType
    <3>3. QED BY <1>6, <2>1, <3>1, <3>2
  <2>3. open <= MaxConnections + Cardinality(Doubles) BY Zenon DEF PoolInv, Bounded
  <2>4. QED BY SMTT(30), <1>1, <1>3, <1>6, <1>8, <2>2, <2>3, PoolAssumption DEF Bounded
<1>15. QED BY Zenon, <1>9, <1>10, <1>11, <1>12, <1>13, <1>14 DEF PoolInv

\* After wake the caller returns, goes on with its fresh connection, or, when its
\* ctx ended, sets that one aside as well.
LEMMA WakeHolds ==
  ASSUME PoolInv, NEW c \in Callers, Wake(c)
  PROVE  PoolInv'
<1>1. /\ pc[c] = "wake" /\ freed' = Tokens(1)
      /\ UNCHANGED <<pool, open, done, draining, connecting, live, unread, cancelled>>
  BY Zenon DEF Wake
<1>2. /\ done' \in BOOLEAN /\ draining' \in BOOLEAN /\ freed' \in 0..MaxConnections
      /\ cancelled' \in [Callers -> BOOLEAN] /\ ~connecting
  BY <1>1, PoolAssumption DEF PoolInv, TypeOK, Places, Hands, Tokens
<1>3. cn[c] \notin broken BY Zenon, <1>1 DEF PoolInv, Marks
<1>4. CASE /\ UNCHANGED <<cn, old, broken>>
           /\ \/ cn[c] = NoConn /\ Goto(c, "idle")
              \/ cn[c] # NoConn /\ Goto(c, "retry")
  <2>1. UNCHANGED <<pool, open, connecting, conn_vars, cn, old>>
    BY Zenon, <1>1, <1>4 DEF conn_vars
  <2>2. QED BY Zenon, <1>1, <1>2, <1>3, <1>4, <2>1, Moves DEF Labels, Hands
<1>5. CASE /\ cn[c] # NoConn /\ broken' = broken \cup {cn[c]}
           /\ old' = [old EXCEPT ![c] = cn[c]] /\ cn' = [cn EXCEPT ![c] = NoConn]
           /\ Goto(c, "retire")
  <2>1. unread' \subseteq broken' BY Zenon, <1>1, <1>5 DEF PoolInv, Marks
  <2>2. QED BY Zenon, <1>1, <1>2, <1>5, <2>1, SetAside
<1>6. QED BY Zenon, <1>4, <1>5 DEF Wake, MarkBroken

\* The steps of a caller that only move it.
LEMMA MovesHold ==
  ASSUME PoolInv, NEW c \in Callers,
         \/ Begin(c) \/ BodyDone(c) \/ LookAgain(c)
         \/ pc[c] \in {"look", "await", "backoff"} /\ GiveUp(c)
         \/ pc[c] = "look" /\ NothingIdle(c)
  PROVE  PoolInv'
<1>1. PICK label \in {"look", "release", "idle", "reserve"} :
        /\ Goto(c, label)
        /\ \/ label = "release" /\ pc[c] \in {"body", "retry"}
           \/ label # "release" /\ pc[c] \in {"idle", "await", "backoff", "look"}
  BY Zenon DEF Begin, BodyDone, LookAgain, GiveUp, NothingIdle, Return
<1>2. UNCHANGED <<pool, open, connecting, conn_vars, cn, old, done, draining>>
  BY Zenon DEF Begin, BodyDone, LookAgain, GiveUp, NothingIdle, Return, pool_vars
<1>3. done' \in BOOLEAN /\ draining' \in BOOLEAN /\ cancelled' \in [Callers -> BOOLEAN]
  <2>1. done \in BOOLEAN /\ draining \in BOOLEAN /\ cancelled \in [Callers -> BOOLEAN]
    BY Zenon DEF PoolInv, TypeOK
  <2>2. cancelled' = cancelled \/ cancelled' = [cancelled EXCEPT ![c] = FALSE]
    BY Zenon DEF Begin, BodyDone, LookAgain, GiveUp, NothingIdle, Return
  <2>3. QED BY Zenon, <1>2, <2>1, <2>2
<1>4. freed' \in 0..MaxConnections
  <2>1. freed' = freed \/ (freed > 0 /\ freed' = freed - 1)
    BY Zenon DEF Begin, BodyDone, LookAgain, GiveUp, NothingIdle, pool_vars
  <2>2. freed \in 0..MaxConnections BY Zenon DEF PoolInv, TypeOK
  <2>3. QED BY <2>1, <2>2, PoolAssumption
<1>5. ~connecting
  <2>1. Begin(c) => ~connecting BY Zenon DEF Begin
  <2>2. pc[c] # "idle" => ~connecting BY Zenon DEF PoolInv, Places
  <2>3. QED BY Zenon, <2>1, <2>2 DEF BodyDone, LookAgain
<1>6. cn[c] \in broken => label = "release"
  <2>1. pc[c] # "release" BY Zenon, <1>1
  <2>2. QED BY Zenon, <2>1 DEF PoolInv, Marks
<1>7. QED BY Zenon, <1>1, <1>2, <1>3, <1>4, <1>5, <1>6, Moves DEF Labels, Hands

\* Steps from outside that leave the connections alone.
LEMMA OutsideHolds ==
  ASSUME PoolInv, UNCHANGED <<pool, open, connecting, conn_vars, cn, old, pc, freed>>,
         done' \in BOOLEAN, draining' \in BOOLEAN,
         cancelled' \in [Callers -> BOOLEAN]
  PROVE  PoolInv'
<1>1. TypeOK' BY Zenon DEF PoolInv, TypeOK, conn_vars
<1>2. Places' BY Zenon DEF PoolInv, Places
<1>3. Reserved' = Reserved BY Zenon DEF Reserved
<1>4. \A c \in Callers : cn[c] \in broken => pc'[c] = "release"
  BY Zenon DEF PoolInv, Marks
<1>5. QED BY Zenon, <1>1, <1>2, <1>3, <1>4, PlainStep

\* drainPool closes an idle connection and counts it out.
LEMMA DrainHolds ==
  ASSUME PoolInv, DrainPool
  PROVE  PoolInv'
<1>1. UNCHANGED <<done, connecting, broken, unread, pc, cn, old, cancelled>>
  BY Zenon DEF DrainPool, call_vars
<1>2. CASE draining' = FALSE /\ UNCHANGED <<live, pool, open, freed>>
  <2>1. done' \in BOOLEAN /\ draining' \in BOOLEAN /\ cancelled' \in [Callers -> BOOLEAN]
        /\ UNCHANGED <<pool, open, connecting, conn_vars, cn, old, pc, freed>>
    BY Zenon, <1>1, <1>2 DEF PoolInv, TypeOK, conn_vars
  <2>2. QED BY Zenon, <2>1, OutsideHolds
<1>3. CASE /\ pool # <<>> /\ live' = live \ {Head(pool)} /\ pool' = Tail(pool)
           /\ open' = open - 1 /\ freed' = Tokens(1) /\ UNCHANGED draining
  <2>1. PICK x : x = Head(pool) BY Zenon
  <2>2. Len(pool') = Len(pool) - 1 /\ Len(pool) \in Nat
    BY Zenon, <1>3, PoolFacts, TailFacts
  <2>3. /\ pool' \in Seq(Conns) /\ x \in Conns /\ x \in Idle /\ Idle' = Idle \ {x}
        /\ IsInjective(pool')
    BY Zenon, <1>3, <2>1, PoolFacts, TailFacts
  <2>4. \A i, j \in DOMAIN pool' : pool'[i] = pool'[j] => i = j
    BY Zenon, <2>3 DEF IsInjective
  <2>5. /\ pool' \in Seq(Conns) /\ x \in Conns /\ x \in Idle /\ Idle' = Idle \ {x}
        /\ \A i, j \in DOMAIN pool' : pool'[i] = pool'[j] => i = j
    BY Zenon, <2>3, <2>4
  <2>6. x \in live /\ x \notin Held /\ x \notin broken /\ NoConn \notin Idle
        /\ Held' = Held
    BY <1>1, <2>5, PoolAssumption DEF PoolInv, TypeOK, OneHolder, Marks, Held
  <2>7. /\ IsFiniteSet(live) /\ Cardinality(live) \in Nat /\ Cardinality(Reserved) \in Nat
        /\ Cardinality(Doubles) \in Nat
    BY Zenon, Finite DEF PoolInv
  <2>8. Cardinality(live') = Cardinality(live) - 1 /\ Cardinality(live) # 0
    BY Zenon, <1>3, <2>1, <2>6, <2>7, FS_RemoveElement, FS_EmptySet
  <2>9. open \in Nat /\ open' \in Nat /\ open = Cardinality(live) + Cardinality(Reserved)
    BY SMTT(30), <1>3, <2>7, <2>8 DEF PoolInv, TypeOK, OpenExact
  <2>10. freed' \in 0..MaxConnections
    BY <1>3, PoolAssumption DEF PoolInv, TypeOK, Tokens
  <2>11. TypeOK' BY Zenon, <1>1, <1>3, <2>5, <2>9, <2>10 DEF PoolInv, TypeOK
  <2>12. Places' BY Zenon, <1>1 DEF PoolInv, Places
  <2>13. OneHolder'
    <3>1. live' = Idle' \cup (Held' \ {NoConn}) /\ Idle' \cap Held' = {}
      BY <1>3, <2>1, <2>5, <2>6 DEF PoolInv, OneHolder
    <3>2. QED BY Zenon, <1>1, <2>5, <3>1 DEF PoolInv, OneHolder
  <2>14. Marks' BY Zenon, <1>1, <1>3, <2>1, <2>5, <2>6 DEF PoolInv, Marks
  <2>15. OpenExact'
    <3>1. Reserved' = Reserved BY Zenon, <1>1 DEF Reserved
    <3>2. QED BY <1>3, <2>7, <2>8, <2>9, <3>1 DEF OpenExact
  <2>16. Bounded'
    <3>1. Doubles' = Doubles BY Zenon, <1>1 DEF Doubles
    <3>2. open <= MaxConnections + Cardinality(Doubles)
          /\ (connecting => open = Len(pool) /\ Len(pool) < MaxConnections)
      BY Zenon DEF PoolInv, Bounded
    <3>3. QED BY <1>1, <1>3, <2>2, <2>7, <2>9, <3>1, <3>2, PoolAssumption DEF Bounded
  <2>17. QED BY Zenon, <2>11, <2>12, <2>13, <2>14, <2>15, <2>16 DEF PoolInv
<1>4. QED BY Zenon, <1>2, <1>3 DEF DrainPool

\* While Connect dials, nobody has the client: what it opened is idle.
LEMMA WhileConnecting ==
  ASSUME PoolInv, connecting
  PROVE  /\ Reserved = {} /\ Doubles = {} /\ Held \subseteq {NoConn} /\ live = Idle
         /\ broken = {} /\ unread = {} /\ NoConn \notin Idle
         /\ \A c \in Callers : pc[c] = "idle" /\ cn[c] = NoConn /\ old[c] = NoConn
<1>1. \A c \in Callers : pc[c] = "idle" /\ cn[c] = NoConn /\ old[c] = NoConn
  BY Zenon DEF PoolInv, Places, Hands
<1>2. Reserved = {} /\ Doubles = {} /\ Held \subseteq {NoConn}
  BY Zenon, <1>1 DEF Reserved, Doubles, Held
<1>3. NoConn \notin Idle BY PoolAssumption DEF Idle, PoolInv, TypeOK
<1>4. live = Idle BY Zenon, <1>2, <1>3 DEF PoolInv, OneHolder
<1>5. QED BY Zenon, <1>1, <1>2, <1>3, <1>4 DEF PoolInv, Marks

\* Connect fills the pool, or empties it when a dial fails.
LEMMA ConnectHolds ==
  ASSUME PoolInv, ConnectDial \/ ConnectFails
  PROVE  PoolInv'
<1>1. connecting /\ UNCHANGED <<done, draining, broken, unread, pc, cn, old, cancelled>>
  BY Zenon DEF ConnectDial, ConnectFails, call_vars
<1>2. /\ Reserved = {} /\ Doubles = {} /\ Held \subseteq {NoConn} /\ live = Idle
      /\ broken = {} /\ unread = {} /\ NoConn \notin Idle
      /\ \A c \in Callers : pc[c] = "idle" /\ cn[c] = NoConn /\ old[c] = NoConn
  BY Zenon, <1>1, WhileConnecting
<1>3. /\ Reserved' = {} /\ Doubles' = {} /\ Held' = Held /\ Cardinality({}) = 0
  BY Zenon, <1>1, <1>2, FS_EmptySet DEF Reserved, Doubles, Held
<1>4. /\ IsFiniteSet(live) /\ Cardinality(live) \in Nat /\ Len(pool) \in Nat
      /\ open \in Nat /\ open = Len(pool) /\ Len(pool) < MaxConnections
      /\ open = Cardinality(live)
  <2>1. Len(pool) \in Nat BY Zenon, PoolFacts
  <2>2. IsFiniteSet(live) /\ Cardinality(live) \in Nat BY Zenon, Finite DEF PoolInv
  <2>3. open = Len(pool) /\ Len(pool) < MaxConnections /\ open \in Nat
    BY Zenon, <1>1 DEF PoolInv, Bounded, TypeOK
  <2>4. open = Cardinality(live) + 0 BY Zenon, <1>2, <1>3 DEF PoolInv, OpenExact
  <2>5. QED BY <2>1, <2>2, <2>3, <2>4
<1>5. CASE ConnectDial
  <2>1. PICK x \in Conns \ live : live' = live \cup {x} /\ pool' = Append(pool, x)
    BY Zenon, <1>5 DEF ConnectDial
  <2>2. open' = open + 1 /\ connecting' = (Len(pool) + 1 < MaxConnections)
        /\ UNCHANGED freed
    BY Zenon, <1>5 DEF ConnectDial
  <2>3. x \notin Range(pool) BY Zenon, <1>2, PoolFacts
  <2>4. /\ pool' \in Seq(Conns) /\ Len(pool') = Len(pool) + 1 /\ Idle' = Idle \cup {x}
        /\ IsInjective(pool')
    BY Zenon, <2>1, <2>3, PoolFacts, AppendFacts
  <2>5. \A i, j \in DOMAIN pool' : pool'[i] = pool'[j] => i = j
    BY Zenon, <2>4 DEF IsInjective
  <2>7. TypeOK' BY <1>1, <1>4, <2>1, <2>2, <2>4 DEF PoolInv, TypeOK
  <2>8. Places' BY Zenon, <1>1, <1>2 DEF Places, Hands
  <2>9. x # NoConn BY Zenon, PoolAssumption
  <2>10. OneHolder'
    <3>1. live' = Idle' \cup (Held' \ {NoConn}) /\ Idle' \cap Held' = {}
      BY Zenon, <1>2, <1>3, <2>1, <2>4, <2>9
    <3>2. QED BY Zenon, <1>1, <2>5, <3>1 DEF PoolInv, OneHolder
  <2>11. Marks' BY Zenon, <1>1, <1>2, <2>1 DEF Marks
  <2>12. Cardinality(live') = Cardinality(live) + 1 BY Zenon, <1>4, <2>1, FS_AddElement
  <2>13. OpenExact' BY <1>3, <1>4, <2>2, <2>12 DEF OpenExact
  <2>14. Bounded'
    <3>1. Cardinality(Doubles') = 0 BY Zenon, <1>3
    <3>2. connecting' => Len(pool) + 1 < MaxConnections BY Zenon, <2>2
    <3>3. open' = Len(pool) + 1 BY Zenon, <1>4, <2>2
    <3>4. PICK n \in Nat : n < MaxConnections /\ open' = n + 1 BY Zenon, <1>4, <3>3
    <3>5. MaxConnections \in Nat BY Zenon, PoolAssumption
    <3>6. open' <= MaxConnections + 0 BY <3>4, <3>5
    <3>7. QED BY Zenon, <2>4, <3>1, <3>2, <3>3, <3>6 DEF Bounded
  <2>15. QED BY Zenon, <2>7, <2>8, <2>10, <2>11, <2>13, <2>14 DEF PoolInv
<1>6. CASE ConnectFails
  <2>1. /\ pool' = <<>> /\ open' = 0 /\ live' = {} /\ freed' = Tokens(Len(pool))
        /\ connecting' = connecting
    BY Zenon, <1>6 DEF ConnectFails
  <2>2. freed' \in 0..MaxConnections
    BY <1>4, <2>1, PoolAssumption DEF PoolInv, TypeOK, Tokens
  <2>3. pool' \in Seq(Conns) /\ Len(pool') = 0 /\ DOMAIN pool' = {} BY <2>1
  <2>4. TypeOK' BY Zenon, <1>1, <2>1, <2>2, <2>3 DEF PoolInv, TypeOK
  <2>5. Places' BY Zenon, <1>1, <1>2 DEF Places, Hands
  <2>6. Idle' = {} BY Zenon, <2>3 DEF Idle
  <2>7. OneHolder'
    <3>1. live' = Idle' \cup (Held' \ {NoConn}) /\ Idle' \cap Held' = {}
      BY Zenon, <1>2, <1>3, <2>1, <2>6
    <3>2. QED BY Zenon, <1>1, <2>3, <3>1 DEF PoolInv, OneHolder
  <2>8. Marks' BY Zenon, <1>1, <1>2, <2>6 DEF Marks
  <2>9. OpenExact' BY <1>3, <2>1 DEF OpenExact
  <2>10. Bounded' BY <1>3, <2>1, <2>3, PoolAssumption DEF Bounded
  <2>11. QED BY Zenon, <2>4, <2>5, <2>7, <2>8, <2>9, <2>10 DEF PoolInv
<1>7. QED BY Zenon, <1>5, <1>6

-----------------------------------------------------------------------------
(* The theorems *)

\* Nothing is open before Connect.
LEMMA InitHolds ==
  ASSUME Init
  PROVE  PoolInv
<1>1. /\ pool = <<>> /\ DOMAIN pool = {} /\ Len(pool) = 0 /\ pool \in Seq(Conns)
      /\ Idle = {} /\ Cardinality({}) = 0
  <2>1. pool = <<>> BY Zenon DEF Init
  <2>2. DOMAIN pool = {} /\ Len(pool) = 0 /\ pool \in Seq(Conns) BY <2>1
  <2>3. QED BY Zenon, <2>1, <2>2, FS_EmptySet DEF Idle
<1>2. TypeOK
  <2>1. open \in Nat /\ freed \in 0..MaxConnections BY PoolAssumption DEF Init
  <2>2. /\ pc \in [Callers -> Labels] /\ cancelled \in [Callers -> BOOLEAN]
        /\ cn \in [Callers -> Conns \cup {NoConn}] /\ old \in [Callers -> Conns \cup {NoConn}]
    BY Zenon DEF Init, Labels
  <2>3. /\ done \in BOOLEAN /\ draining \in BOOLEAN /\ connecting \in BOOLEAN
        /\ live \subseteq Conns /\ broken \subseteq Conns /\ unread \subseteq Conns
    BY Zenon DEF Init
  <2>4. QED BY Zenon, <1>1, <2>1, <2>2, <2>3 DEF TypeOK
<1>3. Places /\ Marks BY Zenon, <1>1 DEF Init, Places, Hands, Marks
<1>4. Reserved = {} /\ Doubles = {} /\ Held \subseteq {NoConn}
  BY Zenon DEF Init, Reserved, Doubles, Held
<1>5. OneHolder BY Zenon, <1>1, <1>4 DEF Init, OneHolder
<1>6. OpenExact /\ Bounded BY <1>1, <1>4, PoolAssumption DEF Init, OpenExact, Bounded
<1>7. QED BY Zenon, <1>2, <1>3, <1>5, <1>6 DEF PoolInv

\* The invariant is inductive.
LEMMA StepHolds == PoolInv /\ [Next]_vars => PoolInv'
<1> SUFFICES ASSUME PoolInv, [Next]_vars PROVE PoolInv' BY Zenon
<1>1. CASE UNCHANGED vars
  <2>1. done' \in BOOLEAN /\ draining' \in BOOLEAN /\ cancelled' \in [Callers -> BOOLEAN]
        /\ UNCHANGED <<pool, open, connecting, conn_vars, cn, old, pc, freed>>
    BY Zenon, <1>1 DEF PoolInv, TypeOK, vars, pool_vars, call_vars
  <2>2. QED BY Zenon, <2>1, OutsideHolds
<1>2. CASE Close
  <2>1. done' \in BOOLEAN /\ draining' \in BOOLEAN /\ cancelled' \in [Callers -> BOOLEAN]
        /\ UNCHANGED <<pool, open, connecting, conn_vars, cn, old, pc, freed>>
    BY Zenon, <1>2 DEF PoolInv, TypeOK, Close, call_vars
  <2>2. QED BY Zenon, <2>1, OutsideHolds
<1>3. ASSUME NEW c \in Callers, Cancel(c)
      PROVE  PoolInv'
  <2>1. cancelled' \in [Callers -> BOOLEAN] BY Zenon, <1>3 DEF PoolInv, TypeOK, Cancel
  <2>2. done' \in BOOLEAN /\ draining' \in BOOLEAN
        /\ UNCHANGED <<pool, open, connecting, conn_vars, cn, old, pc, freed>>
    BY Zenon, <1>3 DEF PoolInv, TypeOK, Cancel, pool_vars
  <2>3. QED BY Zenon, <2>1, <2>2, OutsideHolds
<1>4. ASSUME NEW c \in Callers, Begin(c) \/ Step(c)
      PROVE  PoolInv'
  <2>1. CASE TakeIdle(c)
    <3>1. pc[c] = "look" /\ (Take(c) \/ GiveUp(c) \/ NothingIdle(c))
      BY Zenon, <2>1 DEF TakeIdle
    <3>2. QED BY Zenon, <3>1, TakeHolds, MovesHold
  <2>2. CASE AwaitConn(c)
    <3>1. LookAgain(c) \/ (pc[c] \in {"await", "backoff"} /\ (Take(c) \/ GiveUp(c)))
      BY Zenon, <2>2 DEF AwaitConn
    <3>2. QED BY Zenon, <3>1, TakeHolds, MovesHold
  <2>3. QED
    BY ZenonT(30), <1>4, <2>1, <2>2, MovesHold, ReserveSlotHolds, DialHolds, UnreserveHolds,
       BodyFailsHolds, ReplaceHolds, ReleaseHolds, PutHolds, RetireHolds, WakeHolds DEF Step
<1>5. QED BY Zenon, <1>1, <1>2, <1>3, <1>4, ConnectHolds, DrainHolds DEF Next

\* The count of open connections is exact, whatever the order of dials, failures,
\* replacements, cancelled calls and closes.
THEOREM PoolOpenExact == Spec => []OpenExact
<1>1. PoolInv => OpenExact BY Zenon DEF PoolInv
<1>2. QED BY InitHolds, StepHolds, <1>1, PTL DEF Spec

\* A connection that owes the reply to a command given up on is never idle and
\* never asked again.
THEOREM PoolRepliesInSync == Spec => []RepliesInSync
<1>1. PoolInv => RepliesInSync BY Zenon DEF PoolInv, Marks, RepliesInSync
<1>2. QED BY InitHolds, StepHolds, <1>1, PTL DEF Spec

\* The limit is exceeded only by fresh connections beside the broken ones they
\* replace, and a release never finds the pool full.
THEOREM PoolWithinLimit == Spec => []WithinLimit
<1>1. PoolInv => WithinLimit
  BY Zenon, PutHasRoom DEF PoolInv, Bounded, Doubles, WithinLimit
<1>2. QED BY InitHolds, StepHolds, <1>1, PTL DEF Spec

\* A live connection is idle in the pool or in the hands of one call, and none is
\* forgotten in neither.
THEOREM PoolOneHolder == Spec => []OneHolder
<1>1. PoolInv => OneHolder BY Zenon DEF PoolInv
<1>2. QED BY InitHolds, StepHolds, <1>1, PTL DEF Spec
=============================================================================
