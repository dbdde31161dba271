------------------------ MODULE ConnectionPoolProofs ------------------------
(***************************************************************************)
(* Proofs about module ConnectionPool, for any finite sets of threads and  *)
(* connections.                                                            *)
(***************************************************************************)
EXTENDS ConnectionPool, FiniteSetTheorems, SequenceTheorems, TLAPS

\* TypeOK without the length of the queue, which follows from Partition.
Typed ==
  /\ pc \in [Threads -> PC]
  /\ held \in [Threads -> Conns \cup {NoConn}]
  /\ \A t \in Threads : held[t] # NoConn <=> pc[t] = "using"
  /\ available \in Seq(Conns)
  /\ dead \subseteq Conns
  /\ rest \in [Conns -> 0 .. Cardinality(Conns)]

PoolInv == Typed /\ Partition

------------------------------------------------------------------------------
(* The queue.                                                                *)

\* What makes a function an injection.
LEMMA InjectionIntro ==
  ASSUME NEW S, NEW T, NEW f \in [S -> T], \A a, b \in S : f[a] = f[b] => a = b
  PROVE  f \in Injection(S, T)
BY DEF Injection, IsInjective

\* The head of a queue without repetitions leaves it, and nothing else does.
LEMMA TailOfQueue ==
  ASSUME NEW q \in Seq(Conns), q # <<>>,
         \A i, j \in DOMAIN q : q[i] = q[j] => i = j
  PROVE  /\ Head(q) \in Conns /\ Tail(q) \in Seq(Conns)
         /\ \A i, j \in DOMAIN Tail(q) : Tail(q)[i] = Tail(q)[j] => i = j
         /\ \A i \in DOMAIN Tail(q) : Tail(q)[i] # Head(q)
         /\ \A i \in DOMAIN Tail(q) : \E j \in DOMAIN q : q[j] = Tail(q)[i]
         /\ \A i \in DOMAIN q : q[i] = Head(q) \/ \E j \in DOMAIN Tail(q) : Tail(q)[j] = q[i]
         /\ \E i \in DOMAIN q : q[i] = Head(q)
<1>. DEFINE r == Tail(q)
<1>1. /\ Head(q) \in Conns /\ r \in Seq(Conns)
      /\ Len(r) = Len(q) - 1 /\ \A i \in 1 .. Len(r) : r[i] = q[i + 1]
  BY HeadTailProperties
<1>2. Len(q) \in Nat \ {0} /\ DOMAIN q = 1 .. Len(q) /\ DOMAIN r = 1 .. Len(r)
  BY <1>1, EmptySeq, LenProperties
<1>3. Head(q) = q[1] /\ 1 \in DOMAIN q
  BY <1>2
<1>4. \A i \in DOMAIN r : i + 1 \in DOMAIN q /\ i + 1 # 1 /\ r[i] = q[i + 1]
  BY <1>1, <1>2
<1>5. \A i \in DOMAIN q : i = 1 \/ (i - 1 \in DOMAIN r /\ r[i - 1] = q[i])
  BY <1>1, <1>2
<1>6. \A i, j \in DOMAIN r : r[i] = r[j] => i = j
  <2>. SUFFICES ASSUME NEW i \in DOMAIN r, NEW j \in DOMAIN r, r[i] = r[j] PROVE i = j
    OBVIOUS
  <2>1. i + 1 = j + 1
    BY <1>4
  <2>. QED
    BY <2>1, <1>2
<1>. QED
  BY <1>1, <1>3, <1>4, <1>5, <1>6

\* A connection that is not in the queue joins it at the end, once.
LEMMA AppendToQueue ==
  ASSUME NEW q \in Seq(Conns), NEW c \in Conns,
         \A i, j \in DOMAIN q : q[i] = q[j] => i = j,
         \A i \in DOMAIN q : q[i] # c
  PROVE  /\ Append(q, c) \in Seq(Conns)
         /\ \A i, j \in DOMAIN Append(q, c) : Append(q, c)[i] = Append(q, c)[j] => i = j
         /\ \A i \in DOMAIN Append(q, c) :
              Append(q, c)[i] = c \/ \E j \in DOMAIN q : q[j] = Append(q, c)[i]
         /\ \A i \in DOMAIN q : \E j \in DOMAIN Append(q, c) : Append(q, c)[j] = q[i]
         /\ \E i \in DOMAIN Append(q, c) : Append(q, c)[i] = c
<1>. DEFINE r == Append(q, c)
<1>1. r \in Seq(Conns) /\ Len(r) = Len(q) + 1 /\ Len(q) \in Nat
  BY LenProperties
<1>2. DOMAIN q = 1 .. Len(q) /\ DOMAIN r = 1 .. Len(q) + 1
  BY <1>1, LenProperties
<1>3. \A i \in 1 .. Len(q) : r[i] = q[i]
  OBVIOUS
<1>4. r[Len(q) + 1] = c
  OBVIOUS
<1>. HIDE DEF r
<1>5. \A i \in DOMAIN r : i \in DOMAIN q \/ i = Len(q) + 1
  BY <1>1, <1>2
<1>6. Len(q) + 1 \in DOMAIN r /\ Len(q) + 1 \notin DOMAIN q /\ DOMAIN q \subseteq DOMAIN r
  BY <1>1, <1>2
<1>7. /\ \A i, j \in DOMAIN r : r[i] = r[j] => i = j
      /\ \A i \in DOMAIN r : r[i] = c \/ \E j \in DOMAIN q : q[j] = r[i]
      /\ \A i \in DOMAIN q : \E j \in DOMAIN r : r[j] = q[i]
      /\ \E i \in DOMAIN r : r[i] = c
  BY <1>2, <1>3, <1>4, <1>5, <1>6
<1>. QED
  BY <1>1, <1>7 DEF r

\* A queue without repetitions is no longer than there are connections.
LEMMA QueueFits ==
  ASSUME NEW q \in Seq(Conns), \A i, j \in DOMAIN q : q[i] = q[j] => i = j
  PROVE  Len(q) <= Cardinality(Conns)
<1>1. Len(q) \in Nat /\ q \in [1 .. Len(q) -> Conns] /\ DOMAIN q = 1 .. Len(q)
  BY LenProperties
<1>2. q \in Injection(1 .. Len(q), Conns)
  BY <1>1, InjectionIntro
<1>3. Cardinality(1 .. Len(q)) <= Cardinality(Conns)
  BY <1>2, FS_Injection, PoolAssumption
<1>4. Cardinality(1 .. Len(q)) = Len(q)
  BY <1>1, FS_Interval
<1>. QED
  BY <1>3, <1>4

------------------------------------------------------------------------------
(* Partition.                                                                *)

\* The constructor fills the queue with every connection, and so with each one once.
LEMMA PoolInit == Init => PoolInv
<1>. SUFFICES ASSUME Init PROVE PoolInv
  OBVIOUS
<1>. DEFINE n == Cardinality(Conns)
<1>1. n \in Nat
  BY FS_CardinalityType, PoolAssumption
<1>2. available \in [1 .. n -> Conns] /\ \A c \in Conns : \E i \in DOMAIN available : available[i] = c
  BY DEF Init
<1>3. available \in Surjection(1 .. n, Conns)
  BY <1>2 DEF Surjection
<1>4. Cardinality(1 .. n) = n /\ IsFiniteSet(1 .. n)
  BY <1>1, FS_Interval
<1>5. available \in Injection(1 .. n, Conns)
  BY <1>3, <1>4, FS_SurjSameCardinalityImpliesInj
<1>6. available \in Seq(Conns)
  BY <1>1, <1>2
<1>7. Typed
  BY <1>1, <1>6, PoolAssumption DEF Init, Typed, PC
<1>8. \A i, j \in DOMAIN available : available[i] = available[j] => i = j
  BY <1>2, <1>5 DEF Injection, IsInjective
<1>9. Partition
  BY <1>2, <1>8 DEF Init, Partition, Queued
<1>. QED
  BY <1>7, <1>9 DEF PoolInv

\* Taking the connection at the head.
LEMMA TakeKeeps ==
  ASSUME PoolInv, NEW t \in Threads, pc[t] # "using", Take(t)
  PROVE  PoolInv'
<1>. DEFINE c == Head(available)
<1>1. /\ available \in Seq(Conns) /\ available # <<>>
      /\ \A i, j \in DOMAIN available : available[i] = available[j] => i = j
  BY DEF PoolInv, Typed, Partition, Take
<1>2. /\ c \in Conns /\ Tail(available) \in Seq(Conns)
      /\ \A i, j \in DOMAIN available' : available'[i] = available'[j] => i = j
      /\ \A i \in DOMAIN available' : available'[i] # c
      /\ \A i \in DOMAIN available' : \E j \in DOMAIN available : available[j] = available'[i]
      /\ \A i \in DOMAIN available :
           available[i] = c \/ \E j \in DOMAIN available' : available'[j] = available[i]
      /\ \E i \in DOMAIN available : available[i] = c
  BY <1>1, TailOfQueue DEF Take
<1>. HIDE DEF c
<1>3. pc' = [pc EXCEPT ![t] = "using"] /\ held' = [held EXCEPT ![t] = c] /\ dead' = dead
  BY DEF Take, c
<1>4. c # NoConn /\ held[t] = NoConn
  BY <1>2, PoolAssumption DEF PoolInv, Typed
<1>5. rest' \in [Conns -> 0 .. Cardinality(Conns)]
  <2>1. Cardinality(Conns) \in Nat
    BY FS_CardinalityType, PoolAssumption
  <2>. QED
    BY <2>1 DEF PoolInv, Typed, Take
<1>6. Typed'
  BY <1>2, <1>3, <1>4, <1>5 DEF PoolInv, Typed, PC, Take
<1>7. \A u \in Threads : held'[u] = IF u = t THEN c ELSE held[u]
  BY <1>3 DEF PoolInv, Typed
<1>8. \A u \in Threads : held[u] # NoConn => held[u] # c
  BY <1>2 DEF PoolInv, Partition, Queued
<1>9. \A d \in Conns : Queued(d) => d = c \/ Queued(d)'
  BY <1>2 DEF Queued
<1>10. \A d : Queued(d)' => Queued(d) /\ d # c
  BY <1>2 DEF Queued
<1>11. \A u, v \in Threads : held'[u] = held'[v] /\ held'[u] # NoConn => u = v
  BY <1>4, <1>7, <1>8 DEF PoolInv, Partition
<1>12. \A d \in Conns : Queued(d)' \/ \E u \in Threads : held'[u] = d
  BY <1>4, <1>7, <1>9, PoolAssumption DEF PoolInv, Partition
<1>13. \A u \in Threads : held'[u] # NoConn => ~(\E i \in DOMAIN available' : available'[i] = held'[u])
  <2>. SUFFICES ASSUME NEW u \in Threads, held'[u] # NoConn,
                       NEW i \in DOMAIN available', available'[i] = held'[u]
                PROVE  FALSE
    OBVIOUS
  <2>1. Queued(held[u]) /\ u # t
    BY <1>2, <1>7 DEF Queued
  <2>. QED
    BY <1>7, <2>1 DEF PoolInv, Partition
<1>14. Partition'
  BY <1>2, <1>11, <1>12, <1>13 DEF Partition, Queued
<1>. QED
  BY <1>6, <1>14 DEF PoolInv

\* Who is notified stays a function from threads to their places, and only changes
\* sleepers.
LEMMA NotifiedTyped ==
  ASSUME NEW p \in [Threads -> PC], NEW q \in Notified(p)
  PROVE  /\ q \in [Threads -> PC]
         /\ \A t \in Threads : q[t] = p[t] \/ (p[t] = "waiting" /\ q[t] = "woken")
<1>1. \/ q = p
      \/ \E w \in Threads : p[w] = "waiting" /\ q = [p EXCEPT ![w] = "woken"]
  BY DEF Notified
<1>. QED
  BY <1>1 DEF PC

\* Giving a connection back.
LEMMA ReleaseKeeps ==
  ASSUME PoolInv, NEW t \in Threads, ReleaseConnection(t)
  PROVE  PoolInv'
<1>. DEFINE c == held[t]
            p == [pc EXCEPT ![t] = "idle"]
<1>1. c \in Conns /\ c # NoConn /\ ~Queued(c)
  BY DEF PoolInv, Typed, Partition, ReleaseConnection
<1>2. available \in Seq(Conns) /\ \A i, j \in DOMAIN available : available[i] = available[j] => i = j
  BY DEF PoolInv, Typed, Partition
<1>3. available' = Append(available, c) /\ \A i \in DOMAIN available : available[i] # c
  BY <1>1 DEF ReleaseConnection, Pushed, Queued
<1>4. /\ available' \in Seq(Conns)
      /\ \A i, j \in DOMAIN available' : available'[i] = available'[j] => i = j
      /\ \A i \in DOMAIN available' :
           available'[i] = c \/ \E j \in DOMAIN available : available[j] = available'[i]
      /\ \A i \in DOMAIN available : \E j \in DOMAIN available' : available'[j] = available[i]
      /\ \E i \in DOMAIN available' : available'[i] = c
  BY <1>1, <1>2, <1>3, AppendToQueue
<1>5. p \in [Threads -> PC] /\ pc' \in Notified(p)
  BY DEF PoolInv, Typed, PC, ReleaseConnection
<1>6. /\ pc' \in [Threads -> PC]
      /\ \A u \in Threads : pc'[u] = p[u] \/ (p[u] = "waiting" /\ pc'[u] = "woken")
  BY <1>5, NotifiedTyped
<1>7. held' = [held EXCEPT ![t] = NoConn] /\ dead' = dead /\ rest' = [rest EXCEPT ![c] = 0]
  BY DEF ReleaseConnection
<1>8. rest' \in [Conns -> 0 .. Cardinality(Conns)]
  <2>1. Cardinality(Conns) \in Nat
    BY FS_CardinalityType, PoolAssumption
  <2>2. rest \in [Conns -> 0 .. Cardinality(Conns)] /\ 0 \in 0 .. Cardinality(Conns)
    BY <2>1 DEF PoolInv, Typed
  <2>. QED
    BY <1>1, <1>7, <2>2
<1>9. \A u \in Threads : held'[u] = IF u = t THEN NoConn ELSE held[u]
  BY <1>7 DEF PoolInv, Typed
<1>10. \A u \in Threads : held'[u] # NoConn <=> pc'[u] = "using"
  <2>. SUFFICES ASSUME NEW u \in Threads PROVE held'[u] # NoConn <=> pc'[u] = "using"
    OBVIOUS
  <2>1. p[u] = IF u = t THEN "idle" ELSE pc[u]
    BY DEF PoolInv, Typed
  <2>2. held[u] # NoConn <=> pc[u] = "using"
    BY DEF PoolInv, Typed
  <2>. QED
    BY <1>6, <1>9, <2>1, <2>2
<1>11. Typed'
  BY <1>4, <1>6, <1>7, <1>8, <1>10 DEF PoolInv, Typed
<1>. HIDE DEF c
<1>12. \A d : Queued(d)' <=> Queued(d) \/ d = c
  BY <1>4 DEF Queued
<1>13. \A u \in Threads : held'[u] # NoConn => u # t /\ held'[u] = held[u] /\ held[u] # c
  BY <1>1, <1>9 DEF PoolInv, Partition, c
<1>14. \A u \in Threads : held'[u] # NoConn => ~(\E i \in DOMAIN available' : available'[i] = held'[u])
  BY <1>12, <1>13 DEF PoolInv, Partition, Queued
<1>15. \A u, v \in Threads : held'[u] = held'[v] /\ held'[u] # NoConn => u = v
  BY <1>13 DEF PoolInv, Partition
<1>16. \A d \in Conns : Queued(d)' \/ \E u \in Threads : held'[u] = d
  <2>. SUFFICES ASSUME NEW d \in Conns, d # c, ~Queued(d) PROVE \E u \in Threads : held'[u] = d
    BY <1>12
  <2>1. PICK u \in Threads : held[u] = d
    BY DEF PoolInv, Partition
  <2>. QED
    BY <1>9, <2>1 DEF c
<1>17. Partition'
  BY <1>4, <1>14, <1>15, <1>16 DEF Partition, Queued
<1>. QED
  BY <1>11, <1>17 DEF PoolInv

\* A step that moves a thread that has no connection to another place without one.
LEMMA MoveKeeps ==
  ASSUME PoolInv, NEW t \in Threads, NEW where \in PC \ {"using"}, pc[t] # "using",
         pc' = [pc EXCEPT ![t] = where],
         UNCHANGED <<held, available, dead, rest>>
  PROVE  PoolInv'
<1>1. Typed'
  BY DEF PoolInv, Typed
<1>2. Partition'
  BY DEF PoolInv, Partition, Queued
<1>. QED
  BY <1>1, <1>2 DEF PoolInv

\* Every step keeps the invariant.
LEMMA PoolStep == PoolInv /\ [Next]_vars => PoolInv'
<1>. SUFFICES ASSUME PoolInv, [Next]_vars PROVE PoolInv'
  OBVIOUS
<1>1. ASSUME NEW t \in Threads, Start(t) PROVE PoolInv'
  BY <1>1, MoveKeeps DEF Start, PC
<1>2. ASSUME NEW t \in Threads, GetConnection(t) PROVE PoolInv'
  <2>1. CASE Take(t)
    BY <1>2, <2>1, TakeKeeps DEF GetConnection
  <2>2. CASE ~Take(t)
    BY <1>2, <2>2, MoveKeeps DEF GetConnection, PC
  <2>. QED
    BY <2>1, <2>2
<1>3. ASSUME NEW t \in Threads, Recheck(t) PROVE PoolInv'
  <2>1. CASE Take(t)
    BY <1>3, <2>1, TakeKeeps DEF Recheck
  <2>2. CASE ~Take(t)
    BY <1>3, <2>2, MoveKeeps DEF Recheck, PC
  <2>. QED
    BY <2>1, <2>2
<1>4. ASSUME NEW t \in Threads, TimedOut(t) PROVE PoolInv'
  BY <1>4, MoveKeeps DEF TimedOut, PC
<1>5. ASSUME NEW t \in Threads, ReleaseConnection(t) PROVE PoolInv'
  BY <1>5, ReleaseKeeps
<1>6. ASSUME NEW c \in Conns, ConnectionDies(c) PROVE PoolInv'
  BY <1>6 DEF ConnectionDies, PoolInv, Typed, Partition, Queued
<1>7. CASE UNCHANGED vars
  BY <1>7 DEF vars, PoolInv, Typed, Partition, Queued
<1>. QED
  BY <1>1, <1>2, <1>3, <1>4, <1>5, <1>6, <1>7 DEF Next

\* PoolInv is an invariant.
LEMMA PoolInvariant == Spec => []PoolInv
BY PoolInit, PoolStep, PTL DEF Spec

\* The variables of the pool keep their types, and the queue never outgrows the
\* connections the constructor opened.
THEOREM TypeCorrect == Spec => []TypeOK
<1>1. PoolInv => TypeOK
  BY QueueFits DEF PoolInv, Typed, Partition, TypeOK
<1>. QED
  BY <1>1, PoolInvariant, PTL

\* No connection is ever lost or lent to two threads, for any number of both.
THEOREM ConnectionsPartitioned == Spec => []Partition
BY PoolInvariant, PTL DEF PoolInv

------------------------------------------------------------------------------
(* NobodyWaits.                                                              *)

\* If the queue is empty, the threads other than a given one without a connection hold
\* them all.
LEMMA AllLent ==
  ASSUME PoolInv, available = <<>>, NEW t \in Started, pc[t] # "using"
  PROVE  Cardinality(Conns) < Cardinality(Started)
<1>. DEFINE others == Started \ {t}
            holder == [c \in Conns |-> CHOOSE u \in Threads : held[u] = c]
<1>1. \A c \in Conns : \E u \in Threads : held[u] = c
  BY DEF PoolInv, Partition, Queued
<1>2. \A c \in Conns : holder[c] \in Threads /\ held[holder[c]] = c
  BY <1>1
<1>3. \A c \in Conns : pc[holder[c]] = "using"
  BY <1>2, PoolAssumption DEF PoolInv, Typed
<1>4. \A c \in Conns : holder[c] \in others
  BY <1>2, <1>3 DEF Started, At
<1>5. holder \in Injection(Conns, others)
  <2>1. holder \in [Conns -> others]
    BY <1>4
  <2>2. \A c, d \in Conns : holder[c] = holder[d] => c = d
    BY <1>2
  <2>. QED
    BY <2>1, <2>2, InjectionIntro
<1>6. IsFiniteSet(Started) /\ IsFiniteSet(others)
  BY FS_Subset, PoolAssumption DEF Started
<1>7. Cardinality(Conns) <= Cardinality(others)
  BY <1>5, <1>6, FS_Injection
<1>8. Cardinality(others) = Cardinality(Started) - 1
  BY <1>6, FS_RemoveElement
<1>9. Cardinality(Started) \in Nat /\ Cardinality(Conns) \in Nat
  BY <1>6, FS_CardinalityType, PoolAssumption
<1>. QED
  BY <1>7, <1>8, <1>9

\* Threads that have started stay started.
LEMMA StartedGrows ==
  ASSUME Typed, [Next]_vars
  PROVE  Cardinality(Started) <= Cardinality(Started')
<1>1. \A t \in Threads : pc[t] # "new" => pc'[t] # "new"
  <2>1. ASSUME NEW u \in Threads, NEW where \in PC \ {"new"}, pc' = [pc EXCEPT ![u] = where]
        PROVE  \A t \in Threads : pc[t] # "new" => pc'[t] # "new"
    BY <2>1 DEF Typed
  <2>2. ASSUME NEW u \in Threads, ReleaseConnection(u)
        PROVE  \A t \in Threads : pc[t] # "new" => pc'[t] # "new"
    <3>. DEFINE p == [pc EXCEPT ![u] = "idle"]
    <3>1. p \in [Threads -> PC] /\ pc' \in Notified(p)
      BY <2>2 DEF Typed, PC, ReleaseConnection
    <3>2. \A t \in Threads : pc'[t] = p[t] \/ pc'[t] = "woken"
      BY <3>1, NotifiedTyped
    <3>. QED
      BY <3>2 DEF Typed
  <2>. QED
    BY <2>1, <2>2 DEF Next, vars, Start, GetConnection, Recheck, TimedOut, Take,
                      ConnectionDies, PC
<1>2. Started \subseteq Started'
  BY <1>1 DEF Started, At
<1>3. IsFiniteSet(Started')
  BY FS_Subset, PoolAssumption DEF Started
<1>. QED
  BY <1>2, <1>3, FS_Subset

\* With enough connections no thread ever waits for one, whatever the number of threads.
THEOREM EnoughForAll == Spec => []NobodyWaits
<1>1. Init => NobodyWaits
  BY DEF Init, NobodyWaits, At
<1>2. PoolInv /\ NobodyWaits /\ [Next]_vars => NobodyWaits'
  <2>. SUFFICES ASSUME PoolInv, NobodyWaits, [Next]_vars,
                       Cardinality(Started') <= Cardinality(Conns)
                PROVE  \A t \in Threads : pc'[t] \notin {"waiting", "woken"}
    BY DEF NobodyWaits, Started, At
  <2>1. Cardinality(Started) <= Cardinality(Conns)
    <3>1. /\ Cardinality(Started) \in Nat /\ Cardinality(Started') \in Nat
          /\ Cardinality(Conns) \in Nat
      BY FS_Subset, FS_CardinalityType, PoolAssumption DEF Started
    <3>. QED
      BY <3>1, StartedGrows DEF PoolInv
  <2>2. \A t \in Threads : pc[t] \notin {"waiting", "woken"}
    BY <2>1 DEF NobodyWaits, At
  <2>3. ASSUME NEW u \in Threads, NEW where \in {"idle", "using"}, pc' = [pc EXCEPT ![u] = where]
        PROVE  \A t \in Threads : pc'[t] \notin {"waiting", "woken"}
    BY <2>2, <2>3 DEF PoolInv, Typed
  <2>4. ASSUME NEW u \in Threads, GetConnection(u), available = <<>> PROVE FALSE
    <3>1. u \in Started /\ pc[u] # "using"
      BY <2>4 DEF GetConnection, Started, At
    <3>2. Cardinality(Conns) < Cardinality(Started)
      BY <2>4, <3>1, AllLent
    <3>3. Cardinality(Started) \in Nat /\ Cardinality(Conns) \in Nat
      BY FS_Subset, FS_CardinalityType, PoolAssumption DEF Started
    <3>. QED
      BY <2>1, <3>2, <3>3
  <2>5. ASSUME NEW u \in Threads, ReleaseConnection(u)
        PROVE  \A t \in Threads : pc'[t] \notin {"waiting", "woken"}
    <3>. DEFINE p == [pc EXCEPT ![u] = "idle"]
    <3>1. p \in [Threads -> PC] /\ pc' \in Notified(p)
      BY <2>5 DEF PoolInv, Typed, PC, ReleaseConnection
    <3>2. \A t \in Threads : p[t] \notin {"waiting", "woken"}
      BY <2>2 DEF PoolInv, Typed
    <3>. QED
      BY <3>1, <3>2, NotifiedTyped
  <2>6. ASSUME NEW u \in Threads, Recheck(u) \/ TimedOut(u) PROVE FALSE
    BY <2>2, <2>6 DEF Recheck, TimedOut
  <2>7. ASSUME NEW u \in Threads, Start(u) \/ (GetConnection(u) /\ available # <<>>)
        PROVE  \A t \in Threads : pc'[t] \notin {"waiting", "woken"}
    BY <2>3, <2>7 DEF Start, GetConnection, Take
  <2>8. ASSUME NEW c \in Conns, ConnectionDies(c)
        PROVE  \A t \in Threads : pc'[t] \notin {"waiting", "woken"}
    BY <2>2, <2>8 DEF ConnectionDies
  <2>9. CASE UNCHANGED vars
    BY <2>2, <2>9 DEF vars
  <2>. QED
    BY <2>4, <2>5, <2>6, <2>7, <2>8, <2>9 DEF Next
<1>. QED
  BY <1>1, <1>2, PoolInvariant, PTL DEF Spec

------------------------------------------------------------------------------
(* NoLostWakeup.                                                             *)

LEMMA AtFinite ==
  ASSUME NEW where PROVE IsFiniteSet(At(where)) /\ Cardinality(At(where)) \in Nat
BY FS_Subset, FS_CardinalityType, PoolAssumption DEF At

\* A thread that was on its way takes the connection, or overtakes one that was.
LEMMA TakeWakes ==
  ASSUME Typed, NoLostWakeup, NEW t \in Threads, Take(t) PROVE NoLostWakeup'
<1>1. pc' = [pc EXCEPT ![t] = "using"] /\ Len(available) \in Nat /\ available \in Seq(Conns)
  BY DEF Take, Typed
<1>2. Len(available') = Len(available) - 1
  BY <1>1, HeadTailProperties DEF Take
<1>3. At("woken") \ {t} \subseteq At("woken")' /\ At("waiting")' \subseteq At("waiting")
  BY <1>1 DEF At, Typed
<1>4. Cardinality(At("woken")) - 1 <= Cardinality(At("woken"))'
  <2>1. IsFiniteSet(At("woken")) /\ IsFiniteSet(At("woken")')
    BY AtFinite, FS_Subset, PoolAssumption DEF At
  <2>2. Cardinality(At("woken") \ {t}) <= Cardinality(At("woken")')
    BY <1>3, <2>1, FS_Subset
  <2>3. Cardinality(At("woken") \ {t}) \in
          {Cardinality(At("woken")), Cardinality(At("woken")) - 1}
    BY <2>1, FS_RemoveElement
  <2>4. Cardinality(At("woken")) \in Nat /\ Cardinality(At("woken")') \in Nat
    BY <2>1, FS_CardinalityType
  <2>. QED
    BY <2>2, <2>3, <2>4
<1>5. Cardinality(At("woken")) \in Nat /\ Cardinality(At("woken"))' \in Nat
  <2>1. IsFiniteSet(At("woken")')
    BY FS_Subset, PoolAssumption DEF At
  <2>. QED
    BY <2>1, AtFinite, FS_CardinalityType
<1>6. SUFFICES ASSUME At("waiting")' # {} PROVE (Len(available) <= Cardinality(At("woken")))'
  BY DEF NoLostWakeup
<1>7. Len(available) <= Cardinality(At("woken"))
  BY <1>3, <1>6 DEF NoLostWakeup
<1>. QED
  BY <1>1, <1>2, <1>4, <1>5, <1>7

\* A connection that comes back wakes one sleeper, if there are any.
LEMMA ReleaseWakes ==
  ASSUME Typed, NoLostWakeup, NEW t \in Threads, ReleaseConnection(t) PROVE NoLostWakeup'
<1>. DEFINE p == [pc EXCEPT ![t] = "idle"]
<1>1. /\ p \in [Threads -> PC] /\ pc' \in Notified(p) /\ pc[t] = "using"
      /\ available \in Seq(Conns) /\ held[t] \in Conns
  BY DEF Typed, PC, ReleaseConnection
<1>2. Len(available') = Len(available) + 1
  BY <1>1 DEF ReleaseConnection, Pushed
<1>3. \A u \in Threads : p[u] = IF u = t THEN "idle" ELSE pc[u]
  BY DEF Typed
<1>. HIDE DEF p
<1>4. SUFFICES ASSUME At("waiting")' # {} PROVE (Len(available) <= Cardinality(At("woken")))'
  BY DEF NoLostWakeup
<1>5. PICK w \in Threads : p[w] = "waiting" /\ pc' = [p EXCEPT ![w] = "woken"]
  <2>1. {w \in Threads : p[w] = "waiting"} # {}
    <3>1. PICK u \in Threads : pc'[u] = "waiting"
      BY <1>4 DEF At
    <3>2. p[u] = "waiting"
      BY <1>1, <3>1, NotifiedTyped
    <3>. QED
      BY <3>2
  <2>. QED
    BY <1>1, <2>1 DEF Notified
<1>6. At("woken")' = At("woken") \cup {w} /\ w \notin At("woken") /\ w \in At("waiting")
  BY <1>1, <1>3, <1>5 DEF At
<1>7. Cardinality(At("woken")') = Cardinality(At("woken")) + 1
  BY <1>6, AtFinite, FS_AddElement
<1>8. Len(available) <= Cardinality(At("woken"))
  BY <1>6 DEF NoLostWakeup
<1>9. Len(available) \in Nat /\ Cardinality(At("woken")) \in Nat
  BY <1>1, AtFinite
<1>. QED
  BY <1>2, <1>7, <1>8, <1>9

\* While a thread sleeps, every free connection has a notified thread that is on its way
\* to it: notify_one in releaseConnection is enough, for any number of threads.
THEOREM WakeupsArrive == Spec => []NoLostWakeup
<1>1. Init => NoLostWakeup
  BY DEF Init, NoLostWakeup, At
<1>2. PoolInv /\ NoLostWakeup /\ [Next]_vars => NoLostWakeup'
  <2>. SUFFICES ASSUME PoolInv, NoLostWakeup, [Next]_vars PROVE NoLostWakeup'
    OBVIOUS
  <2>1. Typed
    BY DEF PoolInv
  <2>2. ASSUME available' = <<>> PROVE NoLostWakeup'
    <3>1. IsFiniteSet(At("woken")')
      BY FS_Subset, PoolAssumption DEF At
    <3>2. Cardinality(At("woken")') \in Nat /\ Len(available') = 0
      BY <2>2, <3>1, FS_CardinalityType
    <3>. QED
      BY <3>2 DEF NoLostWakeup
  <2>3. ASSUME UNCHANGED available, At("waiting")' = At("waiting"), At("woken")' = At("woken")
        PROVE  NoLostWakeup'
    BY <2>3 DEF NoLostWakeup
  <2>4. ASSUME NEW t \in Threads, Start(t) PROVE NoLostWakeup'
    <3>1. At("waiting")' = At("waiting") /\ At("woken")' = At("woken")
      BY <2>1, <2>4 DEF Start, Typed, At
    <3>. QED
      BY <2>3, <2>4, <3>1 DEF Start
  <2>5. ASSUME NEW t \in Threads, GetConnection(t) \/ Recheck(t) \/ TimedOut(t)
        PROVE  NoLostWakeup'
    <3>1. CASE Take(t)
      BY <2>1, <3>1, TakeWakes
    <3>2. CASE ~Take(t)
      BY <2>2, <2>5, <3>2 DEF GetConnection, Recheck, TimedOut
    <3>. QED
      BY <3>1, <3>2
  <2>6. ASSUME NEW t \in Threads, ReleaseConnection(t) PROVE NoLostWakeup'
    BY <2>1, <2>6, ReleaseWakes
  <2>7. ASSUME UNCHANGED <<pc, available>> PROVE NoLostWakeup'
    BY <2>3, <2>7 DEF At
  <2>. QED
    BY <2>4, <2>5, <2>6, <2>7 DEF Next, ConnectionDies, vars
<1>. QED
  BY <1>1, <1>2, PoolInvariant, PTL DEF Spec

------------------------------------------------------------------------------
(* RotatesConnections.                                                       *)

\* The loans a connection in the queue has sat out, those it will sit out behind the
\* others there, and the threads that may hold the rest of them are together no fewer
\* than there are connections.
Rotation ==
  \A i \in DOMAIN available :
    rest[available[i]] + i + Cardinality(Started) > Cardinality(Conns)

LEMMA Numbers ==
  /\ Cardinality(Conns) \in Nat
  /\ IsFiniteSet(Started) /\ Cardinality(Started) \in Nat
  /\ IsFiniteSet(Started') /\ Cardinality(Started') \in Nat
BY FS_Subset, FS_CardinalityType, PoolAssumption DEF Started

\* A connection that is not in the queue is held by a thread that was started.
LEMMA QueuedOrLent ==
  ASSUME PoolInv
  PROVE  Cardinality(Conns) <= Len(available) + Cardinality(Started)
<1>. DEFINE Q == {c \in Conns : Queued(c)}
            H == Conns \ Q
            place == [c \in Q |-> CHOOSE i \in DOMAIN available : available[i] = c]
            holder == [c \in H |-> CHOOSE u \in Threads : held[u] = c]
<1>1. Len(available) \in Nat /\ DOMAIN available = 1 .. Len(available)
  BY LenProperties DEF PoolInv, Typed
<1>2. IsFiniteSet(1 .. Len(available)) /\ Cardinality(1 .. Len(available)) = Len(available)
  <2>1. /\ IsFiniteSet(1 .. Len(available))
        /\ Cardinality(1 .. Len(available)) = IF 1 > Len(available) THEN 0 ELSE Len(available) - 1 + 1
    BY <1>1, FS_Interval
  <2>. QED
    BY <1>1, <2>1
<1>3. \A c \in Q : place[c] \in DOMAIN available /\ available[place[c]] = c
  BY DEF Queued
<1>4. place \in Injection(Q, 1 .. Len(available))
  <2>1. place \in [Q -> 1 .. Len(available)]
    BY <1>1, <1>3
  <2>2. \A c, d \in Q : place[c] = place[d] => c = d
    BY <1>3
  <2>. QED
    BY <2>1, <2>2, InjectionIntro
<1>5. \A c \in H : holder[c] \in Threads /\ held[holder[c]] = c
  BY DEF PoolInv, Partition
<1>6. \A c \in H : pc[holder[c]] = "using"
  BY <1>5, PoolAssumption DEF PoolInv, Typed
<1>7. holder \in Injection(H, Started)
  <2>1. holder \in [H -> Started]
    BY <1>5, <1>6 DEF Started, At
  <2>2. \A c, d \in H : holder[c] = holder[d] => c = d
    BY <1>5
  <2>. QED
    BY <2>1, <2>2, InjectionIntro
<1>8. IsFiniteSet(Q) /\ IsFiniteSet(H) /\ Conns = Q \cup H /\ Q \cap H = {}
  BY FS_Subset, PoolAssumption
<1>9. Cardinality(Q) <= Len(available)
  BY <1>2, <1>4, FS_Injection
<1>10. Cardinality(H) <= Cardinality(Started)
  BY <1>7, Numbers, FS_Injection
<1>. HIDE DEF Q, H
<1>11. Cardinality(Conns) = Cardinality(Q) + Cardinality(H) - Cardinality(Q \cap H)
  BY <1>8, FS_Union
<1>12. Cardinality(Q \cap H) = 0
  BY <1>8, FS_EmptySet
<1>13. Cardinality(Q) \in Nat /\ Cardinality(H) \in Nat
  BY <1>8, FS_CardinalityType
<1>. QED
  BY <1>1, <1>9, <1>10, <1>11, <1>12, <1>13, Numbers

\* A loan moves every connection behind it forward by one place.
LEMMA TakeRotates ==
  ASSUME PoolInv, Rotation, NEW t \in Threads, Take(t),
         Cardinality(Started) <= Cardinality(Started')
  PROVE  Rotation'
<1>. DEFINE N == Cardinality(Conns)
            r == Tail(available)
<1>1. /\ available \in Seq(Conns) /\ available # <<>> /\ available' = r
      /\ rest \in [Conns -> 0 .. N]
      /\ \A c \in Conns : rest'[c] = IF rest[c] < N THEN rest[c] + 1 ELSE rest[c]
  BY DEF PoolInv, Typed, Take
<1>2. /\ r \in Seq(Conns) /\ Len(r) = Len(available) - 1
      /\ \A i \in 1 .. Len(r) : r[i] = available[i + 1]
  BY <1>1, HeadTailProperties
<1>3. /\ Len(available) \in Nat /\ DOMAIN available = 1 .. Len(available)
      /\ Len(r) \in Nat /\ DOMAIN r = 1 .. Len(r)
  BY <1>1, <1>2, LenProperties
<1>. SUFFICES ASSUME NEW i \in DOMAIN r
              PROVE  rest'[r[i]] + i + Cardinality(Started') > N
  BY <1>1 DEF Rotation
<1>4. i \in Nat \ {0} /\ i + 1 \in DOMAIN available /\ r[i] = available[i + 1] /\ r[i] \in Conns
  BY <1>2, <1>3
<1>5. rest[r[i]] + (i + 1) + Cardinality(Started) > N
  BY <1>4 DEF Rotation
<1>6. rest[r[i]] \in 0 .. N /\ rest'[r[i]] = IF rest[r[i]] < N THEN rest[r[i]] + 1 ELSE rest[r[i]]
  BY <1>1, <1>4
<1>. QED
  BY <1>4, <1>5, <1>6, Numbers

\* A connection that comes back queues up behind all that nobody holds.
LEMMA ReleaseRotates ==
  ASSUME PoolInv, Rotation, NEW t \in Threads, ReleaseConnection(t),
         Cardinality(Started) <= Cardinality(Started')
  PROVE  Rotation'
<1>. DEFINE N == Cardinality(Conns)
            c == held[t]
<1>1. /\ available \in Seq(Conns) /\ available' = Append(available, c) /\ c \in Conns
      /\ rest \in [Conns -> 0 .. N] /\ rest' = [rest EXCEPT ![c] = 0]
  BY DEF PoolInv, Typed, ReleaseConnection, Pushed
<1>2. \A i \in DOMAIN available : available[i] # c
  BY <1>1, PoolAssumption DEF PoolInv, Partition, Queued
<1>3. Len(available) \in Nat /\ DOMAIN available = 1 .. Len(available)
  BY <1>1, LenProperties
<1>4. DOMAIN available' = 1 .. Len(available) + 1
  BY <1>1, <1>3
<1>. SUFFICES ASSUME NEW i \in 1 .. Len(available) + 1
              PROVE  rest'[available'[i]] + i + Cardinality(Started') > N
  BY <1>4 DEF Rotation
<1>5. CASE i \in 1 .. Len(available)
  <2>1. available'[i] = available[i] /\ available[i] \in Conns /\ available[i] # c
    BY <1>1, <1>2, <1>3, <1>5
  <2>2. rest'[available'[i]] = rest[available[i]] /\ rest[available[i]] \in 0 .. N
    BY <1>1, <2>1
  <2>3. rest[available[i]] + i + Cardinality(Started) > N
    BY <1>3, <1>5 DEF Rotation
  <2>. QED
    BY <2>2, <2>3, Numbers
<1>6. CASE i = Len(available) + 1
  <2>1. available'[i] = c
    BY <1>1, <1>3, <1>6
  <2>2. rest'[available'[i]] = 0
    BY <1>1, <2>1
  <2>. QED
    BY <1>3, <1>6, <2>2, QueuedOrLent, Numbers
<1>. QED
  BY <1>3, <1>5, <1>6

\* Every step keeps the order of the queue.
LEMMA RotationStep == PoolInv /\ Rotation /\ [Next]_vars => Rotation'
<1>. SUFFICES ASSUME PoolInv, Rotation, [Next]_vars PROVE Rotation'
  OBVIOUS
<1>1. Cardinality(Started) <= Cardinality(Started')
  BY StartedGrows DEF PoolInv
<1>2. ASSUME NEW t \in Threads, Take(t) PROVE Rotation'
  BY <1>1, <1>2, TakeRotates
<1>3. ASSUME NEW t \in Threads, ReleaseConnection(t) PROVE Rotation'
  BY <1>1, <1>3, ReleaseRotates
<1>4. ASSUME UNCHANGED <<available, rest>> PROVE Rotation'
  <2>. SUFFICES ASSUME NEW i \in DOMAIN available
                PROVE  rest[available[i]] + i + Cardinality(Started') > Cardinality(Conns)
    BY <1>4 DEF Rotation
  <2>1. rest[available[i]] + i + Cardinality(Started) > Cardinality(Conns)
    BY DEF Rotation
  <2>2. rest[available[i]] \in Int /\ i \in Int
    BY LenProperties DEF PoolInv, Typed
  <2>. QED
    BY <1>1, <2>1, <2>2, Numbers
<1>. QED
  BY <1>2, <1>3, <1>4 DEF Next, Start, GetConnection, Recheck, TimedOut, ConnectionDies, vars

\* A connection is lent again only after as many others as there are to spare, for any
\* number of threads and connections.
THEOREM LoansRotate == Spec => RotatesConnections
<1>1. Init => Rotation
  <2>. SUFFICES ASSUME Init, NEW i \in DOMAIN available
                PROVE  rest[available[i]] + i + Cardinality(Started) > Cardinality(Conns)
    BY DEF Rotation
  <2>1. i \in Nat \ {0} /\ available[i] \in Conns
    BY Numbers DEF Init
  <2>2. rest[available[i]] = Cardinality(Conns)
    BY <2>1 DEF Init
  <2>. QED
    BY <2>1, <2>2, Numbers
<1>2. PoolInv /\ Rotation /\ [Next]_vars
        => [\A c \in Conns : Queued(c) /\ ~Queued(c)'
              => rest[c] + Cardinality(Started) >= Cardinality(Conns)]_vars
  <2>. SUFFICES ASSUME PoolInv, Rotation, Next,
                       NEW c \in Conns, Queued(c), ~Queued(c)'
                PROVE  rest[c] + Cardinality(Started) >= Cardinality(Conns)
    OBVIOUS
  <2>1. available \in Seq(Conns) /\ rest \in [Conns -> 0 .. Cardinality(Conns)]
    BY DEF PoolInv, Typed
  <2>2. ASSUME NEW t \in Threads, Take(t)
        PROVE  rest[c] + Cardinality(Started) >= Cardinality(Conns)
    <3>1. /\ available # <<>> /\ available' = Tail(available)
          /\ \A i, j \in DOMAIN available : available[i] = available[j] => i = j
      BY <2>2 DEF Take, PoolInv, Partition
    <3>2. \A i \in DOMAIN available : available[i] = Head(available)
                                        \/ \E j \in DOMAIN available' : available'[j] = available[i]
      BY <2>1, <3>1, TailOfQueue
    <3>3. c = Head(available)
      BY <3>2 DEF Queued
    <3>4. 1 \in DOMAIN available /\ available[1] = c
      BY <2>1, <3>1, <3>3, EmptySeq, LenProperties
    <3>5. rest[c] + 1 + Cardinality(Started) > Cardinality(Conns)
      BY <3>4 DEF Rotation
    <3>. QED
      BY <2>1, <3>5, Numbers
  <2>3. ASSUME NEW t \in Threads, ReleaseConnection(t) PROVE FALSE
    <3>1. /\ available' = Append(available, held[t]) /\ held[t] \in Conns
          /\ \A i, j \in DOMAIN available : available[i] = available[j] => i = j
          /\ \A i \in DOMAIN available : available[i] # held[t]
      BY <2>3, PoolAssumption DEF PoolInv, Typed, Partition, Queued, ReleaseConnection, Pushed
    <3>2. \A i \in DOMAIN available : \E j \in DOMAIN available' : available'[j] = available[i]
      BY <2>1, <3>1, AppendToQueue
    <3>. QED
      BY <3>2 DEF Queued
  <2>4. available' # available
    BY DEF Queued
  <2>. QED
    BY <2>2, <2>3, <2>4 DEF Next, Start, GetConnection, Recheck, TimedOut, ConnectionDies
<1>. QED
  BY <1>1, <1>2, RotationStep, PoolInvariant, PTL DEF Spec, RotatesConnections
=============================================================================
