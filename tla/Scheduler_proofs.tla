--------------------------- MODULE Scheduler_proofs ---------------------------
(***************************************************************************)
(* The references to a task and the right to touch its cells, for any      *)
(* number of workers, threads and tasks and any program: the count of its  *)
(* word is that of the references there are, there is one Notified at      *)
(* most, and one actor at a time has its future, its output and its waker; *)
(* and the core of each worker is in one place.                            *)
(***************************************************************************)
EXTENDS Scheduler, FiniteSetTheorems, SequenceTheorems, TLAPS

-----------------------------------------------------------------------------
(* Counting: how the references in the queues change.                          *)

\* Two sets that differ in nothing but a.
LEMMA CountMoved ==
  ASSUME NEW S, NEW T, NEW a, IsFiniteSet(S), S \ {a} = T \ {a}
  PROVE  /\ IsFiniteSet(T) /\ Cardinality(S) \in Nat /\ Cardinality(T) \in Nat
         /\ Cardinality(T) = Cardinality(S) - (IF a \in S THEN 1 ELSE 0)
                                            + (IF a \in T THEN 1 ELSE 0)
         /\ a \in S => Cardinality(S) >= 1
<1> DEFINE R == S \ {a}
<1>1. IsFiniteSet(R) /\ Cardinality(R) = IF a \in S THEN Cardinality(S) - 1 ELSE Cardinality(S)
  BY FS_RemoveElement
<1>2. T = IF a \in T THEN R \cup {a} ELSE R
  OBVIOUS
<1>3. a \notin R
  OBVIOUS
<1>4. Cardinality(R) \in Nat /\ Cardinality(S) \in Nat
  BY <1>1, FS_CardinalityType
<1> HIDE DEF R
<1>5. IsFiniteSet(R \cup {a}) /\ Cardinality(R \cup {a}) = Cardinality(R) + 1
  BY <1>1, <1>3, FS_AddElement
<1>6. Cardinality(S) = Cardinality(R) + (IF a \in S THEN 1 ELSE 0)
  BY <1>1, <1>4
<1>7. IsFiniteSet(T) /\ Cardinality(T) = Cardinality(R) + (IF a \in T THEN 1 ELSE 0)
  <2>1. CASE a \in T
    BY <1>2, <1>5, <2>1
  <2>2. CASE a \notin T
    <3>1. T = R
      BY <1>2, <2>2
    <3> QED
      BY <1>1, <1>4, <2>2, <3>1
  <2> QED
    BY <2>1, <2>2
<1> QED
  BY <1>4, <1>6, <1>7

\* The places of k in a sequence, and how many they are.
Places(s, k) == {i \in DOMAIN s : s[i] = k}
Occ(s, k) == Cardinality(Places(s, k))

LEMMA OccType ==
  ASSUME NEW s \in Seq(Tasks), NEW k
  PROVE  IsFiniteSet(Places(s, k)) /\ Occ(s, k) \in Nat
<1>1. IsFiniteSet(1 .. Len(s))
  BY FS_Interval, LenProperties
<1>2. Places(s, k) \in SUBSET (1 .. Len(s))
  BY DEF Places
<1>3. IsFiniteSet(Places(s, k))
  BY <1>1, <1>2, FS_Subset
<1> QED
  BY <1>3, FS_CardinalityType DEF Occ

LEMMA OccEmpty ==
  ASSUME NEW k
  PROVE  Occ(<< >>, k) = 0
<1>1. Places(<< >>, k) = {}
  BY DEF Places
<1> QED
  BY <1>1, FS_EmptySet DEF Occ

LEMMA OccConcat ==
  ASSUME NEW s \in Seq(Tasks), NEW t \in Seq(Tasks), NEW k
  PROVE  Occ(s \o t, k) = Occ(s, k) + Occ(t, k)
<1> DEFINE m == Len(s)
           P == Places(s, k)
           Q == Places(t, k)
           R == {m + i : i \in Q}
<1>1. /\ m \in Nat /\ Len(t) \in Nat /\ Len(s \o t) = m + Len(t) /\ s \o t \in Seq(Tasks)
      /\ \A i \in 1 .. m : (s \o t)[i] = s[i]
      /\ \A i \in 1 .. Len(t) : m + i \in 1 .. Len(s \o t) /\ (s \o t)[m + i] = t[i]
  BY ConcatProperties, LenProperties
<1>2. IsFiniteSet(P) /\ IsFiniteSet(Q) /\ Occ(s, k) \in Nat /\ Occ(t, k) \in Nat
  BY OccType
<1>3. Q \subseteq 1 .. Len(t) /\ P \subseteq 1 .. m /\ Q \subseteq Nat /\ P \subseteq Nat
  BY DEF Places
<1>4. Places(s \o t, k) = P \cup R
  <2>1. ASSUME NEW i \in Places(s \o t, k) PROVE i \in P \cup R
    <3>1. i \in 1 .. m + Len(t) /\ (s \o t)[i] = k
      BY <1>1 DEF Places
    <3>2. CASE i <= m
      BY <1>1, <3>1, <3>2 DEF Places
    <3>3. CASE ~(i <= m)
      <4>1. i - m \in 1 .. Len(t) /\ i = m + (i - m)
        BY <1>1, <3>1, <3>3
      <4>2. t[i - m] = k
        BY <1>1, <3>1, <4>1
      <4> QED
        BY <4>1, <4>2 DEF Places
    <3> QED
      BY <3>2, <3>3
  <2>2. ASSUME NEW i \in P PROVE i \in Places(s \o t, k)
    BY <1>1, <1>3 DEF Places
  <2>3. ASSUME NEW i \in Q PROVE m + i \in Places(s \o t, k)
    <3>1. i \in 1 .. Len(t) /\ t[i] = k
      BY DEF Places
    <3> QED
      BY <1>1, <3>1 DEF Places
  <2> QED
    BY <2>1, <2>2, <2>3
<1>5. ExistsBijection(Q, R)
  <2> DEFINE f == [i \in Q |-> m + i]
  <2>1. f \in [Q -> R]
    OBVIOUS
  <2>2. \A i, j \in Q : f[i] = f[j] => i = j
    BY <1>1, <1>3
  <2>3. \A y \in R : \E i \in Q : f[i] = y
    OBVIOUS
  <2> HIDE DEF f
  <2> QED
    BY <2>1, <2>2, <2>3 DEF ExistsBijection, Bijection, Injection, Surjection, IsInjective
<1>6. IsFiniteSet(R) /\ Cardinality(R) = Occ(t, k)
  BY <1>2, <1>5, FS_Bijection DEF Occ
<1>7. P \cap R = {}
  BY <1>1, <1>3
<1> HIDE DEF P, Q, R
<1>8. Cardinality(P \cup R) = Cardinality(P) + Cardinality(R) - Cardinality({})
  BY <1>2, <1>6, <1>7, FS_Union
<1>9. Cardinality({}) = 0
  BY FS_EmptySet
<1> QED
  BY <1>2, <1>4, <1>6, <1>8, <1>9 DEF Occ, P

LEMMA OccOne ==
  ASSUME NEW j, NEW k
  PROVE  Occ(<< j >>, k) = IF j = k THEN 1 ELSE 0
<1>1. Places(<< j >>, k) = IF j = k THEN {1} ELSE {}
  BY DEF Places
<1> QED
  BY <1>1, FS_EmptySet, FS_Singleton DEF Occ

LEMMA OccAppend ==
  ASSUME NEW s \in Seq(Tasks), NEW j \in Tasks, NEW k
  PROVE  /\ Append(s, j) \in Seq(Tasks)
         /\ Occ(Append(s, j), k) = Occ(s, k) + IF j = k THEN 1 ELSE 0
<1> DEFINE t == << j >>
           u == Append(s, j)
<1>1. t \in Seq(Tasks) /\ u \in Seq(Tasks)
  OBVIOUS
<1>2. u = s \o t
  BY AppendIsConcat
<1>3. Occ(t, k) = IF j = k THEN 1 ELSE 0
  BY OccOne
<1> HIDE DEF t, u
<1>4. Occ(u, k) = Occ(s, k) + Occ(t, k)
  BY <1>1, <1>2, OccConcat
<1>5. Occ(u, k) = Occ(s, k) + IF j = k THEN 1 ELSE 0
  BY <1>3, <1>4
<1> QED
  BY <1>1, <1>5 DEF u

\* A sequence in two parts.
LEMMA OccSplit ==
  ASSUME NEW s \in Seq(Tasks), NEW n \in 0 .. Len(s), NEW k
  PROVE  /\ SubSeq(s, 1, n) \in Seq(Tasks) /\ SubSeq(s, n + 1, Len(s)) \in Seq(Tasks)
         /\ Occ(s, k) = Occ(SubSeq(s, 1, n), k) + Occ(SubSeq(s, n + 1, Len(s)), k)
<1> DEFINE p == SubSeq(s, 1, n)
           q == SubSeq(s, n + 1, Len(s))
<1>1. Len(s) \in Nat /\ n \in Nat
  BY LenProperties
<1>2. p \in Seq(Tasks) /\ q \in Seq(Tasks)
  BY <1>1, SubSeqProperties
<1>3. 1 \in 1 .. Len(s) + 1 /\ n \in 1 - 1 .. Len(s) /\ Len(s) \in n .. Len(s)
  BY <1>1
<1>4. p \o q = SubSeq(s, 1, Len(s))
  BY <1>3, ConcatAdjacentSubSeq, ZenonT(30)
<1>5. SubSeq(s, 1, Len(s)) = s
  BY SubSeqFull
<1>6. p \o q = s
  BY <1>4, <1>5, Zenon
<1> HIDE DEF p, q
<1>7. Occ(p \o q, k) = Occ(p, k) + Occ(q, k)
  BY <1>2, OccConcat
<1> QED
  BY <1>2, <1>6, <1>7 DEF p, q

\* Its first element and the rest.
LEMMA OccHead ==
  ASSUME NEW s \in Seq(Tasks), s # << >>, NEW k
  PROVE  /\ Head(s) \in Tasks /\ Tail(s) \in Seq(Tasks)
         /\ Occ(s, k) = (IF Head(s) = k THEN 1 ELSE 0) + Occ(Tail(s), k)
<1> DEFINE h == Head(s)
           t == Tail(s)
           u == << h >>
<1>1. h \in Tasks /\ t \in Seq(Tasks) /\ u \in Seq(Tasks)
  BY HeadTailProperties
<1>2. s = u \o t
  BY HeadTailProperties, LenProperties
<1>3. Occ(u, k) = IF h = k THEN 1 ELSE 0
  BY OccOne
<1> HIDE DEF h, t, u
<1>4. Occ(s, k) = Occ(u, k) + Occ(t, k)
  BY <1>1, <1>2, OccConcat
<1>5. Occ(s, k) = (IF h = k THEN 1 ELSE 0) + Occ(t, k)
  BY <1>3, <1>4
<1> QED
  BY <1>1, <1>5 DEF h, t

\* The workers with k in their LIFO slot; the places of k in the run queues.
Slots(l, k) == {w \in Workers : l[w] = k}
Row(q, w, k) == {w} \X Places(q[w], k)
Rows(q, k) == UNION {Row(q, w, k) : w \in Workers}

LEMMA SlotsType ==
  ASSUME NEW l, NEW k
  PROVE  IsFiniteSet(Slots(l, k)) /\ Cardinality(Slots(l, k)) \in Nat
<1>1. Slots(l, k) \in SUBSET Workers
  BY DEF Slots
<1>2. IsFiniteSet(Slots(l, k))
  BY <1>1, ActorsAssumption, FS_Subset
<1> QED
  BY <1>2, FS_CardinalityType

LEMMA SlotsSet ==
  ASSUME NEW l \in [Workers -> Tasks \cup {NoTask}], NEW w \in Workers, NEW j, NEW k,
         NEW m, m[w] = j, \A v \in Workers \ {w} : m[v] = l[v]
  PROVE  /\ Cardinality(Slots(m, k))
              = Cardinality(Slots(l, k)) - (IF l[w] = k THEN 1 ELSE 0) + (IF j = k THEN 1 ELSE 0)
         /\ l[w] = k => Cardinality(Slots(l, k)) >= 1
<1> DEFINE S == Slots(l, k)
           T == Slots(m, k)
<1>1. S \ {w} = T \ {w} /\ (w \in S <=> l[w] = k) /\ (w \in T <=> j = k)
  BY DEF Slots
<1>2. IsFiniteSet(S)
  BY SlotsType
<1> HIDE DEF S, T
<1>3. /\ Cardinality(T) = Cardinality(S) - (IF w \in S THEN 1 ELSE 0)
                                         + (IF w \in T THEN 1 ELSE 0)
      /\ w \in S => Cardinality(S) >= 1
  BY <1>1, <1>2, CountMoved
<1> QED
  BY <1>1, <1>3 DEF S, T

LEMMA RowType ==
  ASSUME NEW q \in [Workers -> Seq(Tasks)], NEW w \in Workers, NEW k
  PROVE  IsFiniteSet(Row(q, w, k)) /\ Cardinality(Row(q, w, k)) = Occ(q[w], k)
<1>1. IsFiniteSet(Places(q[w], k)) /\ Occ(q[w], k) \in Nat
  BY OccType
<1>2. IsFiniteSet({w}) /\ Cardinality({w}) = 1
  BY FS_Singleton
<1>3. /\ IsFiniteSet({w} \X Places(q[w], k))
      /\ Cardinality({w} \X Places(q[w], k)) = Cardinality({w}) * Cardinality(Places(q[w], k))
  BY <1>1, <1>2, FS_Product
<1> QED
  BY <1>1, <1>2, <1>3 DEF Row, Occ

LEMMA RowsType ==
  ASSUME NEW q \in [Workers -> Seq(Tasks)], NEW k
  PROVE  IsFiniteSet(Rows(q, k)) /\ Cardinality(Rows(q, k)) \in Nat
<1> DEFINE U == {Row(q, w, k) : w \in Workers}
           f == [w \in Workers |-> Row(q, w, k)]
<1>1. f \in Surjection(Workers, U)
  BY DEF Surjection
<1>2. IsFiniteSet(U)
  BY <1>1, ActorsAssumption, FS_Surjection
<1>3. \A T \in U : IsFiniteSet(T)
  BY RowType
<1>4. IsFiniteSet(UNION U)
  BY <1>2, <1>3, FS_UNION
<1> QED
  BY <1>4, FS_CardinalityType DEF Rows

\* The run queues q and p differ in the queue of w, which is s in p.
RowSet(q, p, w, s) ==
  /\ q \in [Workers -> Seq(Tasks)] /\ p \in [Workers -> Seq(Tasks)] /\ s \in Seq(Tasks)
  /\ p[w] = s /\ \A v \in Workers \ {w} : p[v] = q[v]

LEMMA RowsSet ==
  ASSUME NEW q, NEW p, NEW w \in Workers, NEW s, RowSet(q, p, w, s), NEW k
  PROVE  /\ Cardinality(Rows(p, k))
              = Cardinality(Rows(q, k)) - Occ(q[w], k) + Occ(s, k)
         /\ Cardinality(Rows(p, k)) \in Nat /\ Cardinality(Rows(q, k)) \in Nat
         /\ Occ(q[w], k) \in Nat /\ Occ(s, k) \in Nat
<1> DEFINE R == UNION {Row(q, v, k) : v \in Workers \ {w}}
<1>1. /\ q \in [Workers -> Seq(Tasks)] /\ p \in [Workers -> Seq(Tasks)] /\ s \in Seq(Tasks)
      /\ p[w] = s /\ \A v \in Workers \ {w} : p[v] = q[v]
  BY DEF RowSet
<1>2. Rows(q, k) = Row(q, w, k) \cup R
  BY DEF Rows
<1>3. Rows(p, k) = Row(p, w, k) \cup R
  <2>1. \A v \in Workers \ {w} : Row(p, v, k) = Row(q, v, k)
    BY <1>1 DEF Row
  <2> QED
    BY <2>1 DEF Rows
<1>4. Row(q, w, k) \cap R = {} /\ Row(p, w, k) \cap R = {}
  BY DEF Row
<1>5. IsFiniteSet(Rows(q, k)) /\ R \in SUBSET Rows(q, k)
  BY <1>1, <1>2, RowsType
<1>6. IsFiniteSet(R) /\ Cardinality(R) \in Nat
  BY <1>5, FS_Subset, FS_CardinalityType
<1>7. /\ IsFiniteSet(Row(q, w, k)) /\ Cardinality(Row(q, w, k)) = Occ(q[w], k)
      /\ IsFiniteSet(Row(p, w, k)) /\ Cardinality(Row(p, w, k)) = Occ(s, k)
      /\ Occ(q[w], k) \in Nat /\ Occ(s, k) \in Nat
  BY <1>1, RowType, OccType
<1> HIDE DEF R
<1> DEFINE X == Row(q, w, k)
           Y == Row(p, w, k)
<1>8. X \cap R = {} /\ Y \cap R = {} /\ IsFiniteSet(X) /\ IsFiniteSet(Y)
  BY <1>4, <1>7
<1> HIDE DEF X, Y
<1>9. /\ Cardinality(X \cup R) = Cardinality(X) + Cardinality(R) - Cardinality({})
      /\ Cardinality(Y \cup R) = Cardinality(Y) + Cardinality(R) - Cardinality({})
  <2>1. /\ Cardinality(X \cup R) = Cardinality(X) + Cardinality(R) - Cardinality(X \cap R)
        /\ Cardinality(Y \cup R) = Cardinality(Y) + Cardinality(R) - Cardinality(Y \cap R)
    BY <1>8, <1>6, FS_Union
  <2> QED
    BY <2>1, <1>8
<1>10. Cardinality({}) = 0
  BY FS_EmptySet
<1>11. /\ Cardinality(Rows(q, k)) = Occ(q[w], k) + Cardinality(R)
       /\ Cardinality(Rows(p, k)) = Occ(s, k) + Cardinality(R)
  BY <1>2, <1>3, <1>6, <1>7, <1>9, <1>10 DEF X, Y
<1>12. /\ Cardinality(Rows(p, k)) = Cardinality(Rows(q, k)) - Occ(q[w], k) + Occ(s, k)
       /\ Cardinality(Rows(p, k)) \in Nat /\ Cardinality(Rows(q, k)) \in Nat
       /\ Occ(q[w], k) \in Nat /\ Occ(s, k) \in Nat
  BY <1>6, <1>7, <1>11
<1> QED
  BY <1>12

\* The references to k in LIFO slots l, run queues q and the injection queue i.
Count(l, q, i, k) == Cardinality(Slots(l, k)) + Cardinality(Rows(q, k)) + Occ(i, k)

LEMMA QueuedIs ==
  ASSUME NEW k
  PROVE  Queued(k) = Count(rt.lifo, rt.runq, rt.inject, k)
BY DEF Queued, Count, Slots, Rows, Row, Places, Occ

-----------------------------------------------------------------------------
(* The invariant: of each actor, of each task, of the queues and the cores.    *)

PollPlaces == {"body", "blocked", "idle"}
FinishPlaces == {"shut", "complete", "wake join", "release"}
HandlePlaces == {"read", "take", "unset", "set waker", "set bit", "await", "clear waker",
                 "drop handle", "drop output"}
\* Where a thread has the core of its worker.
CorePlaces == {"top", "maintenance", "next", "next local", "steal", "search", "raid", "found",
               "shut all", "park", "pending", "parking", "park condvar", "about to wait",
               "wait", "woken", "park driver", "driver", "driver done",
               "parked maintenance", "from parked", "shut core"}
ThreadPlaces == CorePlaces \cup PollPlaces \cup FinishPlaces \cup {"free", "poll", "lifo"}
MainPlaces == HandlePlaces \cup FinishPlaces
              \cup {"main", "drop reference", "drop notified", "notify all"}
TaskPlaces == {"found", "poll", "drop reference", "drop notified"}
              \cup PollPlaces \cup FinishPlaces \cup HandlePlaces

Fields == {"pc", "core", "home", "task", "cont", "left", "wake", "target", "then",
           "yield", "drops"}

PlaceOf(r) == IF r.pc \in Scheduling THEN r.then ELSE r.pc

\* What an actor has in hand fits what it is and where it is.
Shaped(r) ==
  /\ DOMAIN r = Fields
  /\ r.drops \in BOOLEAN
  /\ r.pc = "submit" => r.wake \in Tasks
  /\ PlaceOf(r) \in TaskPlaces => r.task \in Tasks

ThreadFits(r) ==
  /\ Shaped(r)
  /\ PlaceOf(r) \in ThreadPlaces
  /\ r.core \in client.workers \cup {NoWorker}
  /\ PlaceOf(r) \in CorePlaces => r.core # NoWorker
  /\ PlaceOf(r) \in {"free", "blocked"} => r.core = NoWorker
  /\ r.cont \in {"lifo", "shut all"}
  /\ PlaceOf(r) \in FinishPlaces /\ r.cont = "shut all" => r.core # NoWorker
  /\ r.cont = "shut all" => PlaceOf(r) \in FinishPlaces
  /\ r.left \subseteq Workers

MainFits(r) ==
  /\ Shaped(r)
  /\ PlaceOf(r) \in MainPlaces
  /\ PlaceOf(r) \in FinishPlaces => r.cont = "drop notified"
  /\ r.core = NoWorker

SourceFits(r) ==
  /\ Shaped(r)
  /\ PlaceOf(r) = "source"
  /\ r.core = NoWorker

ActorsFit ==
  /\ th = [a \in Actors |-> th[a]]
  /\ \A t \in Threads : ThreadFits(th[t])
  /\ MainFits(th[Main])
  /\ SourceFits(th[Source])

RtFields == {"runq", "lifo", "inject", "closed", "searching", "unparked", "sleepers",
             "parker", "driver", "token", "slot", "launched", "isSearching", "isShutdown",
             "down", "owned", "ownedClosed"}

\* The queues hold tasks.
QueuesTyped ==
  /\ DOMAIN rt = RtFields
  /\ rt.runq \in [Workers -> Seq(Tasks)]
  /\ rt.lifo \in [Workers -> Tasks \cup {NoTask}]
  /\ rt.inject \in Seq(Tasks)
  /\ rt.owned \subseteq Tasks
  /\ client \in Clients

\* The core of a worker is with one thread, or in its slot, or shut down.
CoresPlaced ==
  /\ rt.slot \subseteq client.workers /\ rt.down \subseteq client.workers
  /\ rt.slot \cap rt.down = {}
  /\ \A t, u \in Threads : th[t].core = th[u].core /\ th[t].core # NoWorker => t = u
  /\ \A t \in Threads : th[t].core \notin rt.slot \cup rt.down
  /\ \A w \in client.workers \ (rt.slot \cup rt.down) : \E t \in Threads : th[t].core = w

\* The references an actor a may have of the task k: it submits its Notified, it
\* has fetched it, or is to drop it; it finishes or polls the task; it is to drop
\* the reference of the waker it woke the task by.
Submits(a, k) == At(a, "submit") /\ th[a].wake = k
Fetched(a, k) == th[a].task = k /\ Place(a) \in {"found", "poll"}
Carries(a, k) ==
  /\ th[a].task = k
  /\ Place(a) = "drop notified" \/ (Place(a) \in FinishPlaces /\ th[a].cont = "drop notified")
Keeps(a, k) == th[a].task = k /\ Place(a) \in FinishPlaces \cup PollPlaces
Owes(a, k) == Submits(a, k) /\ th[a].drops

One(b) == IF b THEN 1 ELSE 0
NotifiedShare(a, k) == One(Submits(a, k)) + One(Fetched(a, k)) + One(Carries(a, k))
OtherShare(a, k) == One(Keeps(a, k)) + One(Owes(a, k))

NotifiedHands(k) ==
  Cardinality({a \in Actors : Submits(a, k)}) + Cardinality({a \in Actors : Fetched(a, k)})
  + Cardinality({a \in Actors : Carries(a, k)})
OtherHands(k) ==
  Cardinality({a \in Actors : Keeps(a, k)}) + Cardinality({a \in Actors : Owes(a, k)})

Notifieds(k) == Count(rt.lifo, rt.runq, rt.inject, k) + NotifiedHands(k)

\* Where a is as far as the task k goes.
Where(a, k) ==
  IF th[a].task # k THEN "elsewhere"
  ELSE IF Place(a) \in PollPlaces THEN "body" ELSE Place(a)

\* A task T, owned or not, n Notifieds, o references of the other kinds in hand.
Balanced(T, owned, n, o) ==
  /\ T.word.refs = One(owned) + One(T.handle = "held") + T.wakers + n + o
  /\ n <= 1
  /\ n = 1 => T.word.notified
  /\ T.handle = "none" => T.word.refs = 0

WordFields == {"running", "complete", "notified", "cancelled", "joinInterest", "joinWaker", "refs"}

TaskTyped(T) ==
  /\ DOMAIN T = {"word", "output", "waker", "wakers", "handle"}
  /\ DOMAIN T.word = WordFields
  /\ T.word.running \in BOOLEAN /\ T.word.complete \in BOOLEAN
  /\ T.word.notified \in BOOLEAN /\ T.word.cancelled \in BOOLEAN
  /\ T.word.joinInterest \in BOOLEAN /\ T.word.joinWaker \in BOOLEAN
  /\ T.word.refs \in Int /\ T.wakers \in Nat
  /\ T.handle \in {"none", "held", "dropped"}

\* What the place p of an actor says of the task T, of which there are n Notifieds.
Agrees(T, n, p) ==
  /\ p = "body" => T.word.running /\ ~T.word.complete /\ n = 0
  /\ p = "complete" => T.word.running /\ ~T.word.complete /\ T.output = "stored"
  /\ p = "wake join" => T.word.complete
  /\ p \in HandlePlaces \cup {"drop reference"} => T.handle = "held"
  /\ p \in HandlePlaces => T.word.joinInterest
  /\ p \in {"take", "drop output", "clear waker"} => T.word.complete
  /\ p \in {"set waker", "set bit", "clear waker"} => ~T.word.joinWaker

\* Whoever may join the task T, where p is the place of Main: the output waits.
Waits(T, p) ==
  /\ T.handle = "held" /\ p # "drop reference" => T.word.joinInterest
  /\ T.handle = "held" /\ T.word.complete /\ T.word.joinInterest
       /\ p \notin {"drop handle", "drop output", "drop reference"} => T.output = "stored"

RunsIt(a, k) == Where(a, k) \in {"body", "complete"}

TaskInv(k) ==
  /\ TaskTyped(tk[k])
  /\ Balanced(tk[k], k \in rt.owned, Notifieds(k), OtherHands(k))
  /\ \A a \in Actors : Agrees(tk[k], Notifieds(k), Where(a, k))
  /\ \A a, b \in Actors : RunsIt(a, k) /\ RunsIt(b, k) => a = b
  /\ Waits(tk[k], Where(Main, k))

TasksInv == tk = [k \in Tasks |-> tk[k]] /\ \A k \in Tasks : TaskInv(k)

Inv == ActorsFit /\ QueuesTyped /\ CoresPlaced /\ TasksInv

-----------------------------------------------------------------------------
(* What the actors have in hand changes with what one of them has in hand.     *)

LEMMA ActorsFinite == IsFiniteSet(Actors)
<1>1. IsFiniteSet({Main}) /\ IsFiniteSet({Source})
  BY FS_Singleton
<1>2. IsFiniteSet({Main} \cup {Source})
  BY <1>1, FS_Union
<1>3. IsFiniteSet(Threads \cup ({Main} \cup {Source}))
  BY <1>2, ActorsAssumption, FS_Union
<1>4. Actors = Threads \cup ({Main} \cup {Source})
  BY DEF Actors
<1> QED
  BY <1>3, <1>4

\* A set of actors that is the same but for a.
LEMMA MembersMoved ==
  ASSUME NEW a \in Actors, NEW S \in SUBSET Actors, NEW T \in SUBSET Actors,
         \A b \in Actors \ {a} : b \in S <=> b \in T
  PROVE  /\ Cardinality(S) \in Nat /\ Cardinality(T) \in Nat
         /\ Cardinality(T) = Cardinality(S) - One(a \in S) + One(a \in T)
         /\ One(a \in S) <= Cardinality(S)
<1>1. IsFiniteSet(S)
  BY ActorsFinite, FS_Subset
<1>2. S \ {a} = T \ {a}
  OBVIOUS
<1>3. /\ Cardinality(S) \in Nat /\ Cardinality(T) \in Nat
      /\ Cardinality(T) = Cardinality(S) - (IF a \in S THEN 1 ELSE 0) + (IF a \in T THEN 1 ELSE 0)
      /\ a \in S => Cardinality(S) >= 1
  BY <1>1, <1>2, CountMoved
<1> QED
  BY <1>3 DEF One

LEMMA HandsMoved ==
  ASSUME NEW a \in Actors, NEW k, \A b \in Actors \ {a} : th'[b] = th[b]
  PROVE  /\ NotifiedHands(k) \in Nat /\ OtherHands(k) \in Nat
         /\ NotifiedHands(k)' \in Nat /\ OtherHands(k)' \in Nat
         /\ NotifiedHands(k)' = NotifiedHands(k) - NotifiedShare(a, k) + NotifiedShare(a, k)'
         /\ OtherHands(k)' = OtherHands(k) - OtherShare(a, k) + OtherShare(a, k)'
         /\ NotifiedShare(a, k) <= NotifiedHands(k) /\ OtherShare(a, k) <= OtherHands(k)
<1> DEFINE S1 == {b \in Actors : Submits(b, k)}
           S2 == {b \in Actors : Fetched(b, k)}
           S3 == {b \in Actors : Carries(b, k)}
           S4 == {b \in Actors : Keeps(b, k)}
           S5 == {b \in Actors : Owes(b, k)}
           Change(S, T) ==
             /\ Cardinality(S) \in Nat /\ Cardinality(T) \in Nat
             /\ Cardinality(T) = Cardinality(S) - One(a \in S) + One(a \in T)
             /\ One(a \in S) <= Cardinality(S)
<1>1. Change(S1, S1')
  <2>1. \A b \in Actors \ {a} : b \in S1 <=> b \in S1'
    BY DEF Submits, At
  <2> QED
    BY <2>1, MembersMoved
<1>2. Change(S2, S2')
  <2>1. \A b \in Actors \ {a} : b \in S2 <=> b \in S2'
    BY DEF Fetched, Place
  <2> QED
    BY <2>1, MembersMoved
<1>3. Change(S3, S3')
  <2>1. \A b \in Actors \ {a} : b \in S3 <=> b \in S3'
    BY DEF Carries, Place
  <2> QED
    BY <2>1, MembersMoved
<1>4. Change(S4, S4')
  <2>1. \A b \in Actors \ {a} : b \in S4 <=> b \in S4'
    BY DEF Keeps, Place
  <2> QED
    BY <2>1, MembersMoved
<1>5. Change(S5, S5')
  <2>1. \A b \in Actors \ {a} : b \in S5 <=> b \in S5'
    BY DEF Owes, Submits, At
  <2> QED
    BY <2>1, MembersMoved
<1>6. /\ (a \in S1 <=> Submits(a, k)) /\ (a \in S1' <=> Submits(a, k)')
      /\ (a \in S2 <=> Fetched(a, k)) /\ (a \in S2' <=> Fetched(a, k)')
      /\ (a \in S3 <=> Carries(a, k)) /\ (a \in S3' <=> Carries(a, k)')
      /\ (a \in S4 <=> Keeps(a, k)) /\ (a \in S4' <=> Keeps(a, k)')
      /\ (a \in S5 <=> Owes(a, k)) /\ (a \in S5' <=> Owes(a, k)')
  OBVIOUS
<1>7. /\ NotifiedHands(k) = Cardinality(S1) + Cardinality(S2) + Cardinality(S3)
      /\ NotifiedHands(k)' = Cardinality(S1') + Cardinality(S2') + Cardinality(S3')
      /\ OtherHands(k) = Cardinality(S4) + Cardinality(S5)
      /\ OtherHands(k)' = Cardinality(S4') + Cardinality(S5')
  BY DEF NotifiedHands, OtherHands
<1>8. /\ Change(S1, S1') /\ Change(S2, S2') /\ Change(S3, S3') /\ Change(S4, S4') /\ Change(S5, S5')
  BY <1>1, <1>2, <1>3, <1>4, <1>5
<1> HIDE DEF S1, S2, S3, S4, S5
<1>9. /\ Cardinality(S1') = Cardinality(S1) - One(Submits(a, k)) + One(Submits(a, k)')
      /\ Cardinality(S2') = Cardinality(S2) - One(Fetched(a, k)) + One(Fetched(a, k)')
      /\ Cardinality(S3') = Cardinality(S3) - One(Carries(a, k)) + One(Carries(a, k)')
      /\ Cardinality(S4') = Cardinality(S4) - One(Keeps(a, k)) + One(Keeps(a, k)')
      /\ Cardinality(S5') = Cardinality(S5) - One(Owes(a, k)) + One(Owes(a, k)')
      /\ One(Submits(a, k)) <= Cardinality(S1) /\ One(Fetched(a, k)) <= Cardinality(S2)
      /\ One(Carries(a, k)) <= Cardinality(S3) /\ One(Keeps(a, k)) <= Cardinality(S4)
      /\ One(Owes(a, k)) <= Cardinality(S5)
  BY <1>6, <1>8 DEF One
<1>10. /\ NotifiedShare(a, k)' = One(Submits(a, k)') + One(Fetched(a, k)') + One(Carries(a, k)')
       /\ OtherShare(a, k)' = One(Keeps(a, k)') + One(Owes(a, k)')
  BY DEF NotifiedShare, OtherShare, One
<1> QED
  BY <1>7, <1>8, <1>9, <1>10 DEF One, NotifiedShare, OtherShare

\* Whoever has a reference is counted.
LEMMA ShareCounted ==
  ASSUME NEW a \in Actors, NEW k
  PROVE  /\ NotifiedHands(k) \in Nat /\ OtherHands(k) \in Nat
         /\ NotifiedShare(a, k) <= NotifiedHands(k) /\ OtherShare(a, k) <= OtherHands(k)
<1> DEFINE S1 == {b \in Actors : Submits(b, k)}
           S2 == {b \in Actors : Fetched(b, k)}
           S3 == {b \in Actors : Carries(b, k)}
           S4 == {b \in Actors : Keeps(b, k)}
           S5 == {b \in Actors : Owes(b, k)}
           Held(S) == Cardinality(S) \in Nat /\ One(a \in S) <= Cardinality(S)
<1>1. S1 \in SUBSET Actors /\ S2 \in SUBSET Actors /\ S3 \in SUBSET Actors
        /\ S4 \in SUBSET Actors /\ S5 \in SUBSET Actors
  OBVIOUS
<1>2. \A S \in SUBSET Actors : Held(S)
  BY MembersMoved
<1>3. /\ (a \in S1 <=> Submits(a, k)) /\ (a \in S2 <=> Fetched(a, k)) /\ (a \in S3 <=> Carries(a, k))
      /\ (a \in S4 <=> Keeps(a, k)) /\ (a \in S5 <=> Owes(a, k))
  OBVIOUS
<1>4. /\ NotifiedHands(k) = Cardinality(S1) + Cardinality(S2) + Cardinality(S3)
      /\ OtherHands(k) = Cardinality(S4) + Cardinality(S5)
  BY DEF NotifiedHands, OtherHands
<1> HIDE DEF S1, S2, S3, S4, S5
<1>5. Held(S1) /\ Held(S2) /\ Held(S3) /\ Held(S4) /\ Held(S5)
  BY <1>1, <1>2
<1> QED
  BY <1>3, <1>4, <1>5 DEF One, NotifiedShare, OtherShare

LEMMA ShareCountedNext ==
  ASSUME NEW a \in Actors, NEW k
  PROVE  (/\ NotifiedHands(k) \in Nat /\ OtherHands(k) \in Nat
          /\ NotifiedShare(a, k) <= NotifiedHands(k) /\ OtherShare(a, k) <= OtherHands(k))'
<1>1. /\ NotifiedHands(k) \in Nat /\ OtherHands(k) \in Nat
      /\ NotifiedShare(a, k) <= NotifiedHands(k) /\ OtherShare(a, k) <= OtherHands(k)
  BY ShareCounted
<1> QED
  BY <1>1, PTL

LEMMA CountType ==
  ASSUME NEW l, NEW q \in [Workers -> Seq(Tasks)], NEW i \in Seq(Tasks), NEW k
  PROVE  Count(l, q, i, k) \in Nat
BY SlotsType, RowsType, OccType DEF Count

LEMMA CountIs ==
  ASSUME QueuesTyped, NEW k
  PROVE  Queued(k) \in Nat /\ Notifieds(k) = Queued(k) + NotifiedHands(k)
BY QueuedIs, CountType DEF Notifieds, QueuesTyped

LEMMA CountIsNext ==
  ASSUME NEW k
  PROVE  (QueuesTyped => Queued(k) \in Nat /\ Notifieds(k) = Queued(k) + NotifiedHands(k))'
<1>1. QueuesTyped => Queued(k) \in Nat /\ Notifieds(k) = Queued(k) + NotifiedHands(k)
  BY CountIs
<1> QED
  BY <1>1, PTL

-----------------------------------------------------------------------------
(* A step for a task that one actor, a, takes a hand in.                       *)

\* The task's word and the place of a are what the step makes of them; the last
\* reference, if that is the one given up, frees it.
LEMMA TaskTouched ==
  ASSUME NEW a \in Actors, NEW k \in Tasks, NEW T,
         \A b \in Actors \ {a} : th'[b] = th[b],
         TaskInv(k), QueuesTyped, QueuesTyped',
         tk'[k] = Freed(T) \/ (tk'[k] = T /\ T.word.refs > 0),
         TaskTyped(T),
         Balanced(T, (k \in rt.owned)',
                  Queued(k)' + NotifiedHands(k) - NotifiedShare(a, k) + NotifiedShare(a, k)',
                  OtherHands(k) - OtherShare(a, k) + OtherShare(a, k)'),
         \A b \in Actors \ {a} : Agrees(T, Notifieds(k)', Where(b, k)),
         Agrees(T, Notifieds(k)', Where(a, k)'),
         RunsIt(a, k)' => \A b \in Actors \ {a} : ~RunsIt(b, k),
         Waits(T, Where(Main, k)')
  PROVE  TaskInv(k)'
<1> DEFINE n == Notifieds(k)'
           o == OtherHands(k)'
<1>1. /\ n = Queued(k)' + NotifiedHands(k) - NotifiedShare(a, k) + NotifiedShare(a, k)'
      /\ o = OtherHands(k) - OtherShare(a, k) + OtherShare(a, k)'
      /\ n \in Nat /\ o \in Nat
  <2>1. Queued(k)' \in Nat /\ n = Queued(k)' + NotifiedHands(k)'
    BY CountIsNext
  <2> QED
    BY <2>1, HandsMoved DEF NotifiedShare, OtherShare, One
<1>2. Balanced(T, (k \in rt.owned)', n, o)
  BY <1>1
<1>3. \A b \in Actors \ {a} : Where(b, k)' = Where(b, k)
  BY DEF Where, Place
<1>4. \A b \in Actors : Agrees(T, n, Where(b, k)')
  BY <1>3
<1>5. \A b, c \in Actors : RunsIt(b, k)' /\ RunsIt(c, k)' => b = c
  BY <1>3 DEF TaskInv, RunsIt
<1>6. CASE tk'[k] = T
  BY <1>2, <1>4, <1>5, <1>6 DEF TaskInv
<1>7. CASE tk'[k] # T
  <2>1. ~(tk'[k] = T /\ T.word.refs > 0) /\ tk'[k] = Freed(T)
    BY <1>7
  <2>2. T.handle # "none" /\ ~(T.word.refs > 0)
    BY <1>7, <2>1 DEF Freed
  <2>3. T.wakers = 0 /\ n = 0 /\ o = 0 /\ T.handle = "dropped" /\ (k \notin rt.owned)'
    BY <1>1, <1>2, <2>2 DEF Balanced, TaskTyped, One
  <2> DEFINE D == tk'[k]
  <2>4. D = [T EXCEPT !.word = Dead, !.output = "gone", !.waker = 0]
    BY <2>1, <2>2 DEF Freed
  <2>5. DOMAIN D = DOMAIN T /\ D.word = Dead /\ D.wakers = 0 /\ D.handle = "dropped"
    BY <2>3, <2>4 DEF TaskTyped
  <2>6. /\ DOMAIN Dead = WordFields /\ Dead.refs = 0 /\ Dead.complete = TRUE
        /\ Dead.running = FALSE /\ Dead.notified = TRUE /\ Dead.cancelled = FALSE
        /\ Dead.joinInterest = TRUE /\ Dead.joinWaker = FALSE
    BY DEF Dead, Initial, WordFields
  <2>7. TaskTyped(D)
    <3>1. /\ D.word.running = FALSE /\ D.word.complete = TRUE /\ D.word.notified = TRUE
          /\ D.word.cancelled = FALSE /\ D.word.joinInterest = TRUE /\ D.word.joinWaker = FALSE
          /\ D.word.refs = 0 /\ DOMAIN D.word = WordFields
      BY <2>5, <2>6
    <3>2. DOMAIN D = {"word", "output", "waker", "wakers", "handle"}
      BY <2>5 DEF TaskTyped
    <3> HIDE DEF D
    <3>3. /\ D.word.running \in BOOLEAN /\ D.word.complete \in BOOLEAN /\ D.word.notified \in BOOLEAN
          /\ D.word.cancelled \in BOOLEAN /\ D.word.joinInterest \in BOOLEAN
          /\ D.word.joinWaker \in BOOLEAN
      BY <3>1
    <3>4. D.word.refs \in Int /\ D.wakers \in Nat /\ D.handle \in {"none", "held", "dropped"}
      BY <2>5, <3>1
    <3> QED
      BY <3>1, <3>2, <3>3, <3>4 DEF TaskTyped
  <2>8. Balanced(D, (k \in rt.owned)', n, o)
    BY <2>3, <2>5, <2>6 DEF Balanced, One
  <2>9. ASSUME NEW b \in Actors PROVE Agrees(D, n, Where(b, k)')
    <3>1. OtherShare(b, k)' <= o
      BY ShareCountedNext
    <3>2. ~Keeps(b, k)'
      BY <2>3, <3>1 DEF OtherShare, One
    <3>3. Where(b, k)' \notin {"body", "complete", "wake join"}
      BY <3>2 DEF Keeps, Where, FinishPlaces, PollPlaces
    <3>4. Where(b, k)' \notin HandlePlaces \cup {"drop reference"}
      BY <1>4, <2>3 DEF Agrees
    <3> QED
      BY <3>3, <3>4 DEF Agrees, HandlePlaces
  <2>10. Waits(D, Where(Main, k)')
    BY <2>5 DEF Waits
  <2> QED
    BY <1>5, <2>7, <2>8, <2>9, <2>10 DEF TaskInv
<1> QED
  BY <1>6, <1>7

\* The places that say nothing of the task in hand.
Neutral == {"elsewhere", "found", "poll", "shut", "release", "drop notified", "main", "notify all", "source",
            "free", "lifo"} \cup (CorePlaces \ {"found"})

\* A task that is left as it is, whoever may have fetched it or let go of it.
LEMMA TaskKept ==
  ASSUME NEW a \in Actors, NEW k \in Tasks,
         \A b \in Actors \ {a} : th'[b] = th[b],
         TaskInv(k), QueuesTyped, QueuesTyped',
         tk'[k] = tk[k], (k \in rt.owned)' <=> k \in rt.owned,
         Queued(k)' + NotifiedShare(a, k)' = Queued(k) + NotifiedShare(a, k),
         OtherShare(a, k)' = OtherShare(a, k),
         Where(a, k)' = Where(a, k) \/ {Where(a, k), Where(a, k)'} \subseteq Neutral
  PROVE  TaskInv(k)'
<1>1. /\ Notifieds(k)' = Notifieds(k)
      /\ OtherHands(k)' = OtherHands(k)
  <2>1. /\ Queued(k)' \in Nat /\ Notifieds(k)' = Queued(k)' + NotifiedHands(k)'
        /\ Queued(k) \in Nat /\ Notifieds(k) = Queued(k) + NotifiedHands(k)
    BY CountIs, CountIsNext
  <2>2. /\ NotifiedShare(a, k) \in Int /\ NotifiedShare(a, k)' \in Int
        /\ OtherShare(a, k) \in Int /\ OtherShare(a, k)' \in Int
    BY DEF NotifiedShare, OtherShare, One
  <2>3. /\ NotifiedHands(k) \in Nat /\ NotifiedHands(k)' \in Nat /\ OtherHands(k) \in Nat
        /\ NotifiedHands(k)' = NotifiedHands(k) - NotifiedShare(a, k) + NotifiedShare(a, k)'
        /\ OtherHands(k)' = OtherHands(k) - OtherShare(a, k) + OtherShare(a, k)'
    BY HandsMoved
  <2> QED
    BY <2>1, <2>2, <2>3
<1>2. \A b \in Actors \ {a} : Where(b, k)' = Where(b, k)
  BY DEF Where, Place
<1>3. \A p \in Neutral : p \notin {"body", "complete", "wake join", "drop reference"} \cup HandlePlaces
  BY DEF Neutral, CorePlaces, HandlePlaces
<1>4. \A b \in Actors : Agrees(tk[k], Notifieds(k), Where(b, k)')
  <2>1. CASE Where(a, k)' = Where(a, k)
    BY <1>2, <2>1 DEF TaskInv
  <2>2. CASE Where(a, k)' \in Neutral
    <3>1. Agrees(tk[k], Notifieds(k), Where(a, k)')
      BY <1>3, <2>2 DEF Agrees, HandlePlaces
    <3> QED
      BY <1>2, <3>1 DEF TaskInv
  <2> QED
    BY <2>1, <2>2
<1>5. \A b, c \in Actors : RunsIt(b, k)' /\ RunsIt(c, k)' => b = c
  BY <1>2, <1>3 DEF TaskInv, RunsIt
<1>6. Waits(tk[k], Where(Main, k)')
  <2>1. Main \in Actors
    BY DEF Actors
  <2> QED
    BY <1>2, <1>3, <2>1 DEF TaskInv, Waits, HandlePlaces
<1> QED
  BY <1>1, <1>4, <1>5, <1>6 DEF TaskInv

-----------------------------------------------------------------------------
(* Steps that take no task and pass no core on.                                *)

Same(S) == \A b \in Actors \ S : th'[b] = th[b]

LEMMA GoesOnlyOne ==
  ASSUME ActorsFit, NEW a \in Actors, NEW fields, Goes(a, fields)
  PROVE  th' = [b \in Actors |-> th'[b]] /\ Same({a}) /\ DOMAIN th'[a] = Fields
BY DEF ActorsFit, Goes, Same, Fields

\* The core a thread has, and the slots, are as they were.
LEMMA CoresKept ==
  ASSUME CoresPlaced, \A t \in Threads : th'[t].core = th[t].core,
         rt'.slot = rt.slot, rt'.down = rt.down, client' = client
  PROVE  CoresPlaced'
BY DEF CoresPlaced

LEMMA RolesDiffer ==
  /\ Main \in Actors /\ Source \in Actors /\ Main # Source
  /\ \A t \in Threads : t \in Actors /\ t # Main /\ t # Source
BY ActorsAssumption DEF Actors

LEMMA FitsKept ==
  ASSUME NEW t, th'[t] = th[t], client' = client, ThreadFits(th[t])
  PROVE  ThreadFits(th[t])'
<1> DEFINE r == th[t]
           s == th'[t]
<1>1. ThreadFits(s)
  OBVIOUS
<1> HIDE DEF s
<1>2. ThreadFits(s) => /\ Shaped(s)
                       /\ PlaceOf(s) \in ThreadPlaces
                       /\ s.core \in client'.workers \cup {NoWorker}
                       /\ PlaceOf(s) \in CorePlaces => s.core # NoWorker
                       /\ PlaceOf(s) \in {"free", "blocked"} => s.core = NoWorker
                       /\ s.cont \in {"lifo", "shut all"}
                       /\ PlaceOf(s) \in FinishPlaces /\ s.cont = "shut all" => s.core # NoWorker
                       /\ s.cont = "shut all" => PlaceOf(s) \in FinishPlaces
                       /\ s.left \subseteq Workers
  BY DEF ThreadFits
<1> QED
  BY <1>1, <1>2 DEF ThreadFits, Shaped, PlaceOf, s

\* Nobody but a moved, and a fits.
LEMMA ThreadMoved ==
  ASSUME ActorsFit, NEW t \in Threads, th' = [b \in Actors |-> th'[b]], Same({t}),
         ThreadFits(th[t])', client' = client
  PROVE  ActorsFit'
<1>1. /\ \A u \in Threads \ {t} : th'[u] = th[u]
      /\ th'[Main] = th[Main] /\ th'[Source] = th[Source]
  BY RolesDiffer DEF Same
<1>2. \A u \in Threads \ {t} : ThreadFits(th[u])'
  BY <1>1, FitsKept DEF ActorsFit
<1>3. MainFits(th[Main])' /\ SourceFits(th[Source])'
  BY <1>1 DEF ActorsFit, MainFits, SourceFits, Shaped, PlaceOf
<1> QED
  BY <1>2, <1>3 DEF ActorsFit

LEMMA MainMoved ==
  ASSUME ActorsFit, th' = [b \in Actors |-> th'[b]], Same({Main}), MainFits(th[Main])',
         client' = client
  PROVE  ActorsFit'
<1>1. /\ \A u \in Threads : th'[u] = th[u]
      /\ th'[Source] = th[Source]
  BY RolesDiffer DEF Same
<1>2. \A u \in Threads : ThreadFits(th[u])'
  BY <1>1, FitsKept DEF ActorsFit
<1>3. SourceFits(th[Source])'
  BY <1>1 DEF ActorsFit, SourceFits, Shaped, PlaceOf
<1> QED
  BY <1>2, <1>3 DEF ActorsFit

LEMMA SourceMoved ==
  ASSUME ActorsFit, th' = [b \in Actors |-> th'[b]], Same({Source}), SourceFits(th[Source])',
         client' = client
  PROVE  ActorsFit'
<1>1. /\ \A u \in Threads : th'[u] = th[u]
      /\ th'[Main] = th[Main]
  BY RolesDiffer DEF Same
<1>2. \A u \in Threads : ThreadFits(th[u])'
  BY <1>1, FitsKept DEF ActorsFit
<1>3. MainFits(th[Main])'
  BY <1>1 DEF ActorsFit, MainFits, Shaped, PlaceOf
<1> QED
  BY <1>2, <1>3 DEF ActorsFit

\* The queues and the list of tasks are left alone.
QueuesKept ==
  /\ DOMAIN rt' = DOMAIN rt
  /\ rt'.runq = rt.runq /\ rt'.lifo = rt.lifo /\ rt'.inject = rt.inject /\ rt'.owned = rt.owned
  /\ client' = client

LEMMA QueuesKeptTyped ==
  ASSUME QueuesTyped, QueuesKept
  PROVE  QueuesTyped' /\ \A k : Queued(k)' = Queued(k)
BY DEF QueuesTyped, QueuesKept, Queued

\* Places where an actor has no task in hand.
Still == {"main", "notify all", "source", "free", "lifo"} \cup (CorePlaces \ {"found"})

\* a has no task in hand before and after, or goes on with what it has.
Quiet(a) ==
  /\ ~At(a, "submit") /\ ~At(a, "submit")'
  /\ \/ Place(a) \in Still /\ Place(a)' \in Still
     \/ Place(a) \in PollPlaces /\ Place(a)' \in PollPlaces /\ th'[a].task = th[a].task
     \/ Place(a)' = Place(a) /\ th'[a].task = th[a].task /\ th'[a].cont = th[a].cont

LEMMA QuietShares ==
  ASSUME NEW a, Quiet(a) \/ th'[a] = th[a], NEW k
  PROVE  /\ Submits(a, k)' <=> Submits(a, k)
         /\ Owes(a, k)' <=> Owes(a, k)
         /\ Fetched(a, k)' <=> Fetched(a, k)
         /\ Carries(a, k)' <=> Carries(a, k)
         /\ Keeps(a, k)' <=> Keeps(a, k)
         /\ Where(a, k)' = Where(a, k) \/ {Where(a, k), Where(a, k)'} \subseteq Neutral
<1>1. CASE Quiet(a) /\ Place(a) \in Still /\ Place(a)' \in Still
  <2>1. /\ \A p \in Still : p \notin {"found", "poll", "drop notified"} \cup FinishPlaces \cup PollPlaces
        /\ Still \subseteq Neutral /\ "elsewhere" \in Neutral
    BY DEF Still, FinishPlaces, PollPlaces, CorePlaces, Neutral
  <2>2. /\ ~Fetched(a, k) /\ ~Carries(a, k) /\ ~Keeps(a, k)
        /\ Where(a, k) \in Neutral
    BY <1>1, <2>1 DEF Fetched, Carries, Keeps, Where
  <2>3. /\ ~Fetched(a, k)' /\ ~Carries(a, k)' /\ ~Keeps(a, k)'
        /\ Where(a, k)' \in Neutral
    BY <1>1, <2>1 DEF Fetched, Carries, Keeps, Where
  <2> QED
    BY <1>1, <2>2, <2>3 DEF Quiet, Submits, Owes
<1>2. CASE Quiet(a) /\ Place(a)' = Place(a) /\ th'[a].task = th[a].task /\ th'[a].cont = th[a].cont
  BY <1>2 DEF Quiet, Submits, Owes, Fetched, Carries, Keeps, Where
<1>3. CASE th'[a] = th[a]
  BY <1>3 DEF Submits, Owes, Fetched, Carries, Keeps, Where, Place, At
<1>4. CASE Quiet(a) /\ Place(a) \in PollPlaces /\ Place(a)' \in PollPlaces /\ th'[a].task = th[a].task
  <2>1. \A p \in PollPlaces : p \notin {"found", "poll", "drop notified"} \cup FinishPlaces
    BY DEF PollPlaces, FinishPlaces
  <2> QED
    BY <1>4, <2>1 DEF Quiet, Submits, Owes, Fetched, Carries, Keeps, Where
<1> QED
  BY <1>1, <1>2, <1>3, <1>4 DEF Quiet

LEMMA TaskQuiet ==
  ASSUME NEW k \in Tasks, TaskInv(k), \A b \in Actors : Quiet(b) \/ th'[b] = th[b],
         QueuesKept, QueuesTyped, tk'[k] = tk[k]
  PROVE  TaskInv(k)'
<1>1. \A b \in Actors :
         /\ Submits(b, k)' <=> Submits(b, k)
         /\ Owes(b, k)' <=> Owes(b, k)
         /\ Fetched(b, k)' <=> Fetched(b, k)
         /\ Carries(b, k)' <=> Carries(b, k)
         /\ Keeps(b, k)' <=> Keeps(b, k)
         /\ Where(b, k)' = Where(b, k) \/ {Where(b, k), Where(b, k)'} \subseteq Neutral
  BY QuietShares
<1>2. NotifiedHands(k)' = NotifiedHands(k) /\ OtherHands(k)' = OtherHands(k)
  <2>1. /\ {b \in Actors : Submits(b, k)'} = {b \in Actors : Submits(b, k)}
        /\ {b \in Actors : Fetched(b, k)'} = {b \in Actors : Fetched(b, k)}
        /\ {b \in Actors : Carries(b, k)'} = {b \in Actors : Carries(b, k)}
        /\ {b \in Actors : Keeps(b, k)'} = {b \in Actors : Keeps(b, k)}
        /\ {b \in Actors : Owes(b, k)'} = {b \in Actors : Owes(b, k)}
    BY <1>1
  <2> QED
    BY <2>1 DEF NotifiedHands, OtherHands
<1>3. Notifieds(k)' = Notifieds(k)
  BY <1>2 DEF Notifieds, QueuesKept
<1>4. \A p \in Neutral : p \notin {"body", "complete", "wake join", "drop reference"} \cup HandlePlaces
  BY DEF Neutral, CorePlaces, HandlePlaces
<1>5. ASSUME NEW b \in Actors PROVE Agrees(tk[k], Notifieds(k), Where(b, k)')
  <2>1. CASE Where(b, k)' = Where(b, k)
    BY <2>1 DEF TaskInv
  <2>2. CASE Where(b, k)' \in Neutral
    BY <1>4, <2>2 DEF Agrees, HandlePlaces
  <2> QED
    BY <1>1, <2>1, <2>2
<1>6. \A b, c \in Actors : RunsIt(b, k)' /\ RunsIt(c, k)' => b = c
  BY <1>1, <1>4 DEF TaskInv, RunsIt
<1>7. Waits(tk[k], Where(Main, k)')
  BY <1>1, <1>4, RolesDiffer DEF TaskInv, Waits, HandlePlaces
<1> QED
  BY <1>2, <1>3, <1>5, <1>6, <1>7 DEF TaskInv, QueuesKept

LEMMA QuietTasks ==
  ASSUME Inv, \A b \in Actors : Quiet(b) \/ th'[b] = th[b], ActorsFit', QueuesKept, tk' = tk,
         CoresPlaced'
  PROVE  Inv'
<1>1. QueuesTyped'
  BY QueuesKeptTyped DEF Inv
<1>2. ASSUME NEW k \in Tasks PROVE TaskInv(k)'
  BY TaskQuiet DEF Inv, TasksInv
<1> QED
  BY <1>1, <1>2 DEF Inv, TasksInv

LEMMA QuietStep ==
  ASSUME Inv, \A b \in Actors : Quiet(b) \/ th'[b] = th[b], ActorsFit', QueuesKept, tk' = tk,
         \A t \in Threads : th'[t].core = th[t].core, rt'.slot = rt.slot, rt'.down = rt.down
  PROVE  Inv'
<1>1. CoresPlaced'
  BY CoresKept DEF Inv, QueuesKept
<1> QED
  BY <1>1, QuietTasks

\* Where a thread with a core takes no task in hand.
Steps == CorePlaces \ {"found"}

LEMMA StepsAre ==
  ASSUME NEW p \in Steps
  PROVE  /\ p \notin Scheduling /\ p \in CorePlaces /\ p \in ThreadPlaces
         /\ p \in Still /\ p # "submit" /\ p # "free" /\ p # "blocked"
         /\ p \notin FinishPlaces \cup PollPlaces \cup TaskPlaces
<1>1. p \in CorePlaces /\ p \in ThreadPlaces /\ p \in Still
  BY DEF Steps, ThreadPlaces, Still
<1>2. p \notin Scheduling /\ p # "submit" /\ p # "free" /\ p # "blocked"
  BY DEF Steps, CorePlaces, Scheduling
<1>3. p \notin FinishPlaces /\ p \notin PollPlaces
  BY DEF Steps, CorePlaces, FinishPlaces, PollPlaces
<1>4. p \notin HandlePlaces
  BY DEF Steps, CorePlaces, HandlePlaces
<1>5. p \notin {"found", "poll", "drop reference", "drop notified"}
  BY DEF Steps, CorePlaces
<1> QED
  BY <1>1, <1>2, <1>3, <1>4, <1>5 DEF TaskPlaces

\* A thread goes on from one such place to another; it may notify on its way.
Walks(t) ==
  /\ th[t].pc \in Steps
  /\ \/ th'[t].pc \in Steps
     \/ th'[t].pc = "notify" /\ th'[t].then \in Steps
  /\ th'[t].core = th[t].core /\ th'[t].cont = th[t].cont
  /\ th'[t].left \subseteq Workers
  /\ th'[t].drops \in BOOLEAN

LEMMA WalkFits ==
  ASSUME NEW t, ThreadFits(th[t]), Walks(t), DOMAIN th'[t] = Fields, client' = client
  PROVE  ThreadFits(th[t])' /\ Quiet(t) /\ th'[t].core = th[t].core
<1>1. /\ \A p \in Steps : /\ p \notin Scheduling /\ p \in CorePlaces /\ p \in ThreadPlaces
                          /\ p \in Still /\ p # "submit" /\ p # "free" /\ p # "blocked"
                          /\ p \notin FinishPlaces \cup PollPlaces \cup TaskPlaces
      /\ "notify" \in Scheduling
  BY StepsAre DEF Scheduling
<1>2. PlaceOf(th[t]) \in Steps /\ PlaceOf(th'[t]) \in Steps
  BY <1>1 DEF Walks, PlaceOf
<1>3. th[t].pc # "submit" /\ th'[t].pc # "submit"
  BY <1>1 DEF Walks
<1>4. Quiet(t)
  BY <1>1, <1>2, <1>3 DEF Quiet, At, Place, PlaceOf
<1>5. Shaped(th'[t])
  BY <1>1, <1>2, <1>3 DEF Walks, Shaped
<1>6. /\ th'[t].core \in client.workers /\ th'[t].core # NoWorker /\ th'[t].cont = "lifo"
  BY <1>1, <1>2 DEF Walks, ThreadFits
<1>7. ThreadFits(th[t])'
  BY <1>1, <1>2, <1>5, <1>6 DEF Walks, ThreadFits, Shaped, PlaceOf
<1> QED
  BY <1>4, <1>7 DEF Walks

LEMMA WalkKeeps ==
  ASSUME Inv, NEW t \in Threads, th' = [b \in Actors |-> th'[b]], Same({t}), DOMAIN th'[t] = Fields,
         Walks(t), tk' = tk, QueuesKept, rt'.slot = rt.slot, rt'.down = rt.down
  PROVE  Inv'
<1>1. ThreadFits(th[t]) /\ client' = client
  BY DEF Inv, ActorsFit, QueuesKept
<1>2. ThreadFits(th[t])' /\ Quiet(t) /\ th'[t].core = th[t].core
  BY <1>1, WalkFits
<1>3. ActorsFit'
  BY <1>1, <1>2, ThreadMoved DEF Inv
<1>4. /\ \A b \in Actors : Quiet(b) \/ th'[b] = th[b]
      /\ \A u \in Threads : th'[u].core = th[u].core
  BY <1>2, RolesDiffer DEF Same
<1> QED
  BY <1>3, <1>4, QuietStep

LEMMA LeftTyped ==
  ASSUME Inv, NEW t \in Threads
  PROVE  /\ th[t].left \subseteq Workers /\ th[t].drops \in BOOLEAN
         /\ client.workers \subseteq Workers
         /\ th[t].core \in client.workers \cup {NoWorker}
<1>1. client \in Clients
  BY DEF Inv, QueuesTyped
<1>2. client.workers \subseteq Workers
  BY <1>1, SchedulerAssumption
<1> QED
  BY <1>2 DEF Inv, ActorsFit, ThreadFits, Shaped

LEMMA WalkTo ==
  ASSUME Inv, NEW t \in Threads, th[t].pc \in Steps,
         NEW p \in Steps \cup {"notify"}, NEW q \in Steps, NEW l \in SUBSET Workers
  PROVE  /\ Goes(t, [left |-> l]) => Walks(t)
         /\ Goes(t, [pc |-> q]) => Walks(t)
         /\ Goes(t, [pc |-> q, left |-> l]) => Walks(t)
         /\ Goes(t, [pc |-> p, then |-> q]) => Walks(t)
         /\ Goes(t, [pc |-> p, then |-> q, left |-> l]) => Walks(t)
<1>1. t \in Actors /\ t \in DOMAIN th /\ th[t].left \subseteq Workers /\ th[t].drops \in BOOLEAN
  BY LeftTyped, RolesDiffer DEF Inv, ActorsFit
<1>2. th[t].pc \notin Scheduling /\ q \notin Scheduling /\ "notify" \in Scheduling
  BY StepsAre DEF Scheduling
<1>3. p \in Steps => p \notin Scheduling
  BY StepsAre
<1>4. Unscheduled.drops \in BOOLEAN
  BY DEF Unscheduled
<1>5. Goes(t, [left |-> l]) => Walks(t)
  BY <1>1, <1>2, <1>4 DEF Goes, Walks
<1>6. Goes(t, [pc |-> q]) => Walks(t)
  BY <1>1, <1>2, <1>4 DEF Goes, Walks
<1>7. Goes(t, [pc |-> q, left |-> l]) => Walks(t)
  BY <1>1, <1>2, <1>4 DEF Goes, Walks
<1>8. Goes(t, [pc |-> p, then |-> q]) => Walks(t)
  BY <1>1, <1>2, <1>3, <1>4 DEF Goes, Walks
<1>9. Goes(t, [pc |-> p, then |-> q, left |-> l]) => Walks(t)
  BY <1>1, <1>2, <1>3, <1>4 DEF Goes, Walks
<1> QED
  BY <1>5, <1>6, <1>7, <1>8, <1>9

LEMMA LeaveLoopKeeps ==
  ASSUME Inv, NEW t \in Threads, LeaveLoop(t)
  PROVE  Inv'
<1>1. th' = [b \in Actors |-> th'[b]] /\ Same({t}) /\ DOMAIN th'[t] = Fields
  BY GoesOnlyOne, RolesDiffer DEF LeaveLoop, Inv
<1>2. tk' = tk /\ QueuesKept /\ rt'.slot = rt.slot /\ rt'.down = rt.down
  BY DEF LeaveLoop, QueuesKept, Inv, QueuesTyped, RtFields
<1>3. Walks(t)
  BY LeftTyped, WalkTo DEF LeaveLoop, At, Steps, CorePlaces
<1> QED
  BY <1>1, <1>2, <1>3, WalkKeeps

LEMMA MaintenanceKeeps ==
  ASSUME Inv, NEW t \in Threads, Maintenance(t)
  PROVE  Inv'
<1>1. th' = [b \in Actors |-> th'[b]] /\ Same({t}) /\ DOMAIN th'[t] = Fields
  BY GoesOnlyOne, RolesDiffer DEF Maintenance, Inv
<1>2. tk' = tk /\ QueuesKept /\ rt'.slot = rt.slot /\ rt'.down = rt.down
  BY DEF Maintenance, QueuesKept, Inv, QueuesTyped, RtFields
<1>3. Walks(t)
  BY LeftTyped, WalkTo DEF Maintenance, At, Steps, CorePlaces
<1> QED
  BY <1>1, <1>2, <1>3, WalkKeeps

LEMMA NothingInjectedKeeps ==
  ASSUME Inv, NEW t \in Threads, NothingInjected(t)
  PROVE  Inv'
<1>1. th' = [b \in Actors |-> th'[b]] /\ Same({t}) /\ DOMAIN th'[t] = Fields
  BY GoesOnlyOne, RolesDiffer DEF NothingInjected, Inv
<1>2. tk' = tk /\ QueuesKept /\ rt'.slot = rt.slot /\ rt'.down = rt.down
  BY DEF NothingInjected, QueuesKept, Inv, QueuesTyped, RtFields
<1>3. Walks(t)
  BY LeftTyped, WalkTo DEF NothingInjected, Nexts, At, Steps, CorePlaces
<1> QED
  BY <1>1, <1>2, <1>3, WalkKeeps

LEMMA TakeNothingKeeps ==
  ASSUME Inv, NEW t \in Threads, TakeNothing(t)
  PROVE  Inv'
<1>1. th' = [b \in Actors |-> th'[b]] /\ Same({t}) /\ DOMAIN th'[t] = Fields
  BY GoesOnlyOne, RolesDiffer DEF TakeNothing, Inv
<1>2. tk' = tk /\ QueuesKept /\ rt'.slot = rt.slot /\ rt'.down = rt.down
  BY DEF TakeNothing, QueuesKept, Inv, QueuesTyped, RtFields
<1>3. Walks(t)
  BY LeftTyped, WalkTo DEF TakeNothing, Nexts, At, Steps, CorePlaces
<1> QED
  BY <1>1, <1>2, <1>3, WalkKeeps

LEMMA StealWorkKeeps ==
  ASSUME Inv, NEW t \in Threads, StealWork(t)
  PROVE  Inv'
<1>1. th' = [b \in Actors |-> th'[b]] /\ Same({t}) /\ DOMAIN th'[t] = Fields
  BY GoesOnlyOne, RolesDiffer DEF StealWork, Inv
<1>2. tk' = tk /\ QueuesKept /\ rt'.slot = rt.slot /\ rt'.down = rt.down
  BY DEF StealWork, QueuesKept, Inv, QueuesTyped, RtFields
<1>3. Walks(t)
  BY LeftTyped, WalkTo DEF StealWork, Others, At, Steps, CorePlaces
<1> QED
  BY <1>1, <1>2, <1>3, WalkKeeps

LEMMA SearchKeeps ==
  ASSUME Inv, NEW t \in Threads, Search(t)
  PROVE  Inv'
<1>1. th' = [b \in Actors |-> th'[b]] /\ Same({t}) /\ DOMAIN th'[t] = Fields
  BY GoesOnlyOne, RolesDiffer DEF Search, Inv
<1>2. tk' = tk /\ QueuesKept /\ rt'.slot = rt.slot /\ rt'.down = rt.down
  BY DEF Search, QueuesKept, Inv, QueuesTyped, RtFields
<1>3. Walks(t)
  BY LeftTyped, WalkTo DEF Search, Others, At, Steps, CorePlaces
<1> QED
  BY <1>1, <1>2, <1>3, WalkKeeps

LEMMA ParkKeeps ==
  ASSUME Inv, NEW t \in Threads, Park(t)
  PROVE  Inv'
<1>1. th' = [b \in Actors |-> th'[b]] /\ Same({t}) /\ DOMAIN th'[t] = Fields
  BY GoesOnlyOne, RolesDiffer DEF Park, Inv
<1>2. tk' = tk /\ QueuesKept /\ rt'.slot = rt.slot /\ rt'.down = rt.down
  BY DEF Park, QueuesKept, Inv, QueuesTyped, RtFields
<1>3. Walks(t)
  BY LeftTyped, WalkTo DEF Park, Others, At, Steps, CorePlaces
<1> QED
  BY <1>1, <1>2, <1>3, WalkKeeps

LEMMA WorkPendingKeeps ==
  ASSUME Inv, NEW t \in Threads, WorkPending(t)
  PROVE  Inv'
<1>1. th' = [b \in Actors |-> th'[b]] /\ Same({t}) /\ DOMAIN th'[t] = Fields
  BY GoesOnlyOne, RolesDiffer DEF WorkPending, Inv
<1>2. tk' = tk /\ QueuesKept /\ rt'.slot = rt.slot /\ rt'.down = rt.down
  BY DEF WorkPending, QueuesKept, Inv, QueuesTyped, RtFields
<1>3. Walks(t)
  BY LeftTyped, WalkTo DEF WorkPending, At, Steps, CorePlaces
<1> QED
  BY <1>1, <1>2, <1>3, WalkKeeps

LEMMA ParkingKeeps ==
  ASSUME Inv, NEW t \in Threads, Parking(t)
  PROVE  Inv'
<1>1. th' = [b \in Actors |-> th'[b]] /\ Same({t}) /\ DOMAIN th'[t] = Fields
  BY GoesOnlyOne, RolesDiffer DEF Parking, Inv
<1>2. tk' = tk /\ QueuesKept /\ rt'.slot = rt.slot /\ rt'.down = rt.down
  BY DEF Parking, QueuesKept, Inv, QueuesTyped, RtFields
<1>3. Walks(t)
  BY LeftTyped, WalkTo DEF Parking, At, Steps, CorePlaces
<1> QED
  BY <1>1, <1>2, <1>3, WalkKeeps

LEMMA ParkCondvarKeeps ==
  ASSUME Inv, NEW t \in Threads, ParkCondvar(t)
  PROVE  Inv'
<1>1. th' = [b \in Actors |-> th'[b]] /\ Same({t}) /\ DOMAIN th'[t] = Fields
  BY GoesOnlyOne, RolesDiffer DEF ParkCondvar, Inv
<1>2. tk' = tk /\ QueuesKept /\ rt'.slot = rt.slot /\ rt'.down = rt.down
  BY DEF ParkCondvar, QueuesKept, Inv, QueuesTyped, RtFields
<1>3. Walks(t)
  BY LeftTyped, WalkTo DEF ParkCondvar, At, Steps, CorePlaces
<1> QED
  BY <1>1, <1>2, <1>3, WalkKeeps

LEMMA WaitKeeps ==
  ASSUME Inv, NEW t \in Threads, Wait(t)
  PROVE  Inv'
<1>1. th' = [b \in Actors |-> th'[b]] /\ Same({t}) /\ DOMAIN th'[t] = Fields
  BY GoesOnlyOne, RolesDiffer DEF Wait, Inv
<1>2. tk' = tk /\ QueuesKept /\ rt'.slot = rt.slot /\ rt'.down = rt.down
  BY DEF Wait, QueuesKept, Inv, QueuesTyped, RtFields
<1>3. Walks(t)
  BY LeftTyped, WalkTo DEF Wait, At, Steps, CorePlaces
<1> QED
  BY <1>1, <1>2, <1>3, WalkKeeps

LEMMA SpuriousWakeupKeeps ==
  ASSUME Inv, NEW t \in Threads, SpuriousWakeup(t)
  PROVE  Inv'
<1>1. th' = [b \in Actors |-> th'[b]] /\ Same({t}) /\ DOMAIN th'[t] = Fields
  BY GoesOnlyOne, RolesDiffer DEF SpuriousWakeup, Inv
<1>2. tk' = tk /\ QueuesKept /\ rt'.slot = rt.slot /\ rt'.down = rt.down
  BY DEF SpuriousWakeup, QueuesKept, Inv, QueuesTyped, RtFields
<1>3. Walks(t)
  BY LeftTyped, WalkTo DEF SpuriousWakeup, At, Steps, CorePlaces
<1> QED
  BY <1>1, <1>2, <1>3, WalkKeeps

LEMMA WokenKeeps ==
  ASSUME Inv, NEW t \in Threads, Woken(t)
  PROVE  Inv'
<1>1. th' = [b \in Actors |-> th'[b]] /\ Same({t}) /\ DOMAIN th'[t] = Fields
  BY GoesOnlyOne, RolesDiffer DEF Woken, Inv
<1>2. tk' = tk /\ QueuesKept /\ rt'.slot = rt.slot /\ rt'.down = rt.down
  BY DEF Woken, QueuesKept, Inv, QueuesTyped, RtFields
<1>3. Walks(t)
  BY LeftTyped, WalkTo DEF Woken, At, Steps, CorePlaces
<1> QED
  BY <1>1, <1>2, <1>3, WalkKeeps

LEMMA ParkDriverKeeps ==
  ASSUME Inv, NEW t \in Threads, ParkDriver(t)
  PROVE  Inv'
<1>1. th' = [b \in Actors |-> th'[b]] /\ Same({t}) /\ DOMAIN th'[t] = Fields
  BY GoesOnlyOne, RolesDiffer DEF ParkDriver, Inv
<1>2. tk' = tk /\ QueuesKept /\ rt'.slot = rt.slot /\ rt'.down = rt.down
  BY DEF ParkDriver, QueuesKept, Inv, QueuesTyped, RtFields
<1>3. Walks(t)
  BY LeftTyped, WalkTo DEF ParkDriver, At, Steps, CorePlaces
<1> QED
  BY <1>1, <1>2, <1>3, WalkKeeps

LEMMA DriverUnparkedKeeps ==
  ASSUME Inv, NEW t \in Threads, DriverUnparked(t)
  PROVE  Inv'
<1>1. th' = [b \in Actors |-> th'[b]] /\ Same({t}) /\ DOMAIN th'[t] = Fields
  BY GoesOnlyOne, RolesDiffer DEF DriverUnparked, Inv
<1>2. tk' = tk /\ QueuesKept /\ rt'.slot = rt.slot /\ rt'.down = rt.down
  BY DEF DriverUnparked, QueuesKept, Inv, QueuesTyped, RtFields
<1>3. Walks(t)
  BY LeftTyped, WalkTo DEF DriverUnparked, At, Steps, CorePlaces
<1> QED
  BY <1>1, <1>2, <1>3, WalkKeeps

LEMMA DriverDoneKeeps ==
  ASSUME Inv, NEW t \in Threads, DriverDone(t)
  PROVE  Inv'
<1>1. th' = [b \in Actors |-> th'[b]] /\ Same({t}) /\ DOMAIN th'[t] = Fields
  BY GoesOnlyOne, RolesDiffer DEF DriverDone, Inv
<1>2. tk' = tk /\ QueuesKept /\ rt'.slot = rt.slot /\ rt'.down = rt.down
  BY DEF DriverDone, QueuesKept, Inv, QueuesTyped, RtFields
<1>3. Walks(t)
  BY LeftTyped, WalkTo DEF DriverDone, At, Steps, CorePlaces
<1> QED
  BY <1>1, <1>2, <1>3, WalkKeeps

LEMMA FromParkedKeeps ==
  ASSUME Inv, NEW t \in Threads, FromParked(t)
  PROVE  Inv'
<1>1. th' = [b \in Actors |-> th'[b]] /\ Same({t}) /\ DOMAIN th'[t] = Fields
  BY GoesOnlyOne, RolesDiffer DEF FromParked, Inv
<1>2. tk' = tk /\ QueuesKept /\ rt'.slot = rt.slot /\ rt'.down = rt.down
  BY DEF FromParked, QueuesKept, Inv, QueuesTyped, RtFields
<1>3. Walks(t)
  BY LeftTyped, WalkTo DEF FromParked, At, Steps, CorePlaces
<1> QED
  BY <1>1, <1>2, <1>3, WalkKeeps

\* An actor that schedules and notifies goes on with what it has.
Resumes(a) ==
  /\ \/ th'[a].pc = th[a].then
     \/ th'[a].pc \in Scheduling \ {"submit"} /\ th'[a].then = th[a].then
  /\ th'[a].core = th[a].core /\ th'[a].task = th[a].task /\ th'[a].cont = th[a].cont
  /\ th'[a].left = th[a].left
  /\ th'[a].drops \in BOOLEAN

LEMMA PlacesAre ==
  ASSUME ActorsFit, NEW a \in Actors
  PROVE  PlaceOf(th[a]) \in ThreadPlaces \cup MainPlaces \cup {"source"}
<1>1. a \in Threads => PlaceOf(th[a]) \in ThreadPlaces
  BY DEF ActorsFit, ThreadFits
<1>2. a = Main => PlaceOf(th[a]) \in MainPlaces
  BY DEF ActorsFit, MainFits
<1>3. a = Source => PlaceOf(th[a]) = "source"
  BY DEF ActorsFit, SourceFits
<1> QED
  BY <1>1, <1>2, <1>3 DEF Actors

LEMMA ResumeFits ==
  ASSUME ActorsFit, NEW a \in Actors, th[a].pc \in Scheduling, Resumes(a),
         th' = [b \in Actors |-> th'[b]], Same({a}), DOMAIN th'[a] = Fields, client' = client
  PROVE  ActorsFit' /\ Place(a)' = Place(a) /\ ~At(a, "submit")'
<1>1. \A p \in ThreadPlaces \cup MainPlaces \cup {"source"} : p \notin Scheduling /\ p # "submit"
  BY DEF ThreadPlaces, CorePlaces, FinishPlaces, PollPlaces, MainPlaces, HandlePlaces, Scheduling
<1>2. th[a].then \in ThreadPlaces \cup MainPlaces \cup {"source"}
  BY PlacesAre DEF PlaceOf
<1>3. PlaceOf(th'[a]) = th[a].then /\ PlaceOf(th[a]) = th[a].then /\ th'[a].pc # "submit"
  BY <1>1, <1>2 DEF Resumes, PlaceOf
<1>4. Place(a)' = Place(a) /\ ~At(a, "submit")'
  BY <1>3 DEF Place, PlaceOf, At
<1>5. CASE a \in Threads
  <2>1. ThreadFits(th[a])'
    <3>1. ThreadFits(th[a])
      BY <1>5 DEF ActorsFit
    <3> QED
      BY <1>3, <3>1 DEF Resumes, ThreadFits, Shaped, PlaceOf
  <2> QED
    BY <1>4, <1>5, <2>1, ThreadMoved
<1>6. CASE a = Main
  <2>1. MainFits(th[a])'
    BY <1>3, <1>6 DEF ActorsFit, Resumes, MainFits, Shaped, PlaceOf
  <2> QED
    BY <1>4, <1>6, <2>1, MainMoved
<1>7. CASE a = Source
  <2>1. SourceFits(th[a])'
    BY <1>3, <1>7 DEF ActorsFit, Resumes, SourceFits, Shaped, PlaceOf
  <2> QED
    BY <1>4, <1>7, <2>1, SourceMoved
<1> QED
  BY <1>5, <1>6, <1>7 DEF Actors

LEMMA ResumeKeeps ==
  ASSUME Inv, NEW a \in Actors, th[a].pc \in Scheduling \ {"submit"}, Resumes(a),
         th' = [b \in Actors |-> th'[b]], Same({a}), DOMAIN th'[a] = Fields,
         tk' = tk, QueuesKept, rt'.slot = rt.slot, rt'.down = rt.down
  PROVE  Inv'
<1>1. ActorsFit' /\ Place(a)' = Place(a) /\ ~At(a, "submit")'
  BY ResumeFits DEF Inv, QueuesKept
<1>2. Quiet(a)
  BY <1>1 DEF Quiet, At, Resumes
<1>3. /\ \A b \in Actors : Quiet(b) \/ th'[b] = th[b]
      /\ \A u \in Threads : th'[u].core = th[u].core
  BY <1>2, RolesDiffer DEF Same, Resumes
<1> QED
  BY <1>1, <1>3, QuietStep

LEMMA ResumeTo ==
  ASSUME Inv, NEW a \in Actors, th[a].pc \in Scheduling, NEW x, NEW y,
         NEW p, p = th[a].then \/ p \in Scheduling \ {"submit"}
  PROVE  /\ Goes(a, [pc |-> p]) => Resumes(a)
         /\ Goes(a, [pc |-> p, target |-> y]) => Resumes(a)
         /\ Goes(a, [pc |-> p, wake |-> x]) => Resumes(a)
<1>1. a \in DOMAIN th /\ th[a].drops \in BOOLEAN
  BY RolesDiffer DEF Inv, ActorsFit, Actors, ThreadFits, MainFits, SourceFits, Shaped
<1>2. Unscheduled.drops \in BOOLEAN
  BY DEF Unscheduled
<1>3. Goes(a, [pc |-> p]) => Resumes(a)
  BY <1>1, <1>2 DEF Goes, Resumes
<1>4. Goes(a, [pc |-> p, target |-> y]) => Resumes(a)
  BY <1>1, <1>2 DEF Goes, Resumes
<1>5. Goes(a, [pc |-> p, wake |-> x]) => Resumes(a)
  BY <1>1, <1>2 DEF Goes, Resumes
<1> QED
  BY <1>3, <1>4, <1>5

LEMMA NotifyKeeps ==
  ASSUME Inv, NEW a \in Actors, Notify(a)
  PROVE  Inv'
<1>1. th' = [b \in Actors |-> th'[b]] /\ Same({a}) /\ DOMAIN th'[a] = Fields
  BY GoesOnlyOne DEF Notify, Inv
<1>2. tk' = tk /\ QueuesKept /\ rt'.slot = rt.slot /\ rt'.down = rt.down
  BY DEF Notify, QueuesKept, Inv, QueuesTyped, RtFields
<1>3. th[a].pc \in Scheduling \ {"submit"} /\ "unpark" \in Scheduling \ {"submit"}
  BY DEF Notify, At, Scheduling
<1>4. Resumes(a)
  BY <1>3, ResumeTo DEF Notify
<1> QED
  BY <1>1, <1>2, <1>3, <1>4, ResumeKeeps

LEMMA UnparkKeeps ==
  ASSUME Inv, NEW a \in Actors, Unpark(a)
  PROVE  Inv'
<1>1. th' = [b \in Actors |-> th'[b]] /\ Same({a}) /\ DOMAIN th'[a] = Fields
  BY GoesOnlyOne DEF Unpark, Inv
<1>2. tk' = tk /\ QueuesKept /\ rt'.slot = rt.slot /\ rt'.down = rt.down
  BY DEF Unpark, QueuesKept, Inv, QueuesTyped, RtFields
<1>3. /\ th[a].pc \in Scheduling \ {"submit"}
      /\ "signal" \in Scheduling \ {"submit"} /\ "poke" \in Scheduling \ {"submit"}
  BY DEF Unpark, At, Scheduling
<1>4. Resumes(a)
  BY <1>3, ResumeTo DEF Unpark
<1> QED
  BY <1>1, <1>2, <1>3, <1>4, ResumeKeeps

LEMMA PokeKeeps ==
  ASSUME Inv, NEW a \in Actors, Poke(a)
  PROVE  Inv'
<1>1. th' = [b \in Actors |-> th'[b]] /\ Same({a}) /\ DOMAIN th'[a] = Fields
  BY GoesOnlyOne DEF Poke, Inv
<1>2. tk' = tk /\ QueuesKept /\ rt'.slot = rt.slot /\ rt'.down = rt.down
  BY DEF Poke, QueuesKept, Inv, QueuesTyped, RtFields
<1>3. th[a].pc \in Scheduling \ {"submit"}
  BY DEF Poke, At, Scheduling
<1>4. Resumes(a)
  BY <1>3, ResumeTo DEF Poke
<1> QED
  BY <1>1, <1>2, <1>3, <1>4, ResumeKeeps

\* The one who signals goes on, and whoever sits on the condition variable wakes.
LEMMA SignalKeeps ==
  ASSUME Inv, NEW a \in Actors, Signal(a)
  PROVE  Inv'
<1> DEFINE w == th[a].target
<1>1. th = [b \in Actors |-> th[b]] /\ DOMAIN th[a] = Fields
  BY DEF Inv, ActorsFit, Actors, ThreadFits, MainFits, SourceFits, Shaped
<1>2. /\ th' = [b \in Actors |-> th'[b]]
      /\ th'[a] = [th[a] EXCEPT !.pc = th[a].then]
      /\ \A b \in Actors \ {a} :
            th'[b] = IF Sits(b, w) THEN [th[b] EXCEPT !.pc = "woken"] ELSE th[b]
      /\ At(a, "signal")
  BY DEF Signal, Signalled
<1>3. tk' = tk /\ QueuesKept /\ rt'.slot = rt.slot /\ rt'.down = rt.down /\ client' = client
  BY DEF Signal, QueuesKept
<1>4. ASSUME NEW b \in Actors \ {a}, Sits(b, w)
      PROVE  /\ Quiet(b) /\ th'[b].core = th[b].core
             /\ b \in Threads => ThreadFits(th[b])'
             /\ b \in Threads
  <2>1. b \in Threads
    <3>1. th[b].pc = "wait" /\ "wait" \notin Scheduling
      BY <1>4 DEF Sits, At, Scheduling
    <3>2. b # Main /\ b # Source
      BY <3>1 DEF Inv, ActorsFit, MainFits, SourceFits, PlaceOf, MainPlaces, HandlePlaces, FinishPlaces
    <3> QED
      BY <3>2 DEF Actors
  <2>2. ThreadFits(th[b])
    BY <2>1 DEF Inv, ActorsFit
  <2>3. th'[b] = [th[b] EXCEPT !.pc = "woken"]
    BY <1>2, <1>4
  <2>4. DOMAIN th[b] = Fields
    BY <2>2 DEF ThreadFits, Shaped
  <2>5. /\ DOMAIN th'[b] = Fields /\ th'[b].pc = "woken" /\ th[b].pc = "wait"
        /\ th'[b].core = th[b].core /\ th'[b].cont = th[b].cont
        /\ th'[b].left = th[b].left /\ th'[b].drops = th[b].drops
    BY <1>4, <2>3, <2>4 DEF Sits, At, Fields
  <2>6. Walks(b)
    BY <2>1, <2>5, LeftTyped DEF Walks, Steps, CorePlaces
  <2> QED
    BY <1>3, <2>1, <2>2, <2>5, <2>6, WalkFits
<1>5. DOMAIN th'[a] = Fields /\ Resumes(a)
  BY <1>1, <1>2 DEF Fields, Resumes, Inv, ActorsFit, Actors, ThreadFits, MainFits, SourceFits, Shaped
<1>6. \A p \in ThreadPlaces \cup MainPlaces \cup {"source"} : p \notin Scheduling /\ p # "submit"
  BY DEF ThreadPlaces, CorePlaces, FinishPlaces, PollPlaces, MainPlaces, HandlePlaces, Scheduling
<1>7. th[a].pc \in Scheduling /\ th[a].pc # "submit"
  BY <1>2 DEF At, Scheduling
<1>8. th[a].then \in ThreadPlaces \cup MainPlaces \cup {"source"}
  BY <1>7, PlacesAre DEF Inv, PlaceOf
<1>9. /\ PlaceOf(th'[a]) = PlaceOf(th[a]) /\ th'[a].pc # "submit"
      /\ PlaceOf(th[a]) = th[a].then
  BY <1>2, <1>1, <1>6, <1>7, <1>8 DEF PlaceOf, Fields
<1>10. Quiet(a)
  BY <1>5, <1>7, <1>9 DEF Quiet, At, Place, PlaceOf, Resumes
<1>11. a \in Threads => ThreadFits(th[a])'
  <2> SUFFICES ASSUME a \in Threads PROVE ThreadFits(th[a])'
    OBVIOUS
  <2>1. ThreadFits(th[a])
    BY DEF Inv, ActorsFit
  <2> QED
    BY <1>3, <1>5, <1>9, <2>1 DEF Resumes, ThreadFits, Shaped, PlaceOf
<1>12. \A u \in Threads : ThreadFits(th[u])'
  <2> TAKE u \in Threads
  <2>1. u \in Actors
    BY DEF Actors
  <2>2. CASE u = a
    BY <1>11, <2>2
  <2>3. CASE u # a /\ Sits(u, w)
    BY <1>4, <2>1, <2>3
  <2>4. CASE u # a /\ ~Sits(u, w)
    <3>1. th'[u] = th[u] /\ ThreadFits(th[u])
      BY <1>2, <2>1, <2>4 DEF Inv, ActorsFit
    <3> QED
      BY <1>3, <3>1, FitsKept
  <2> QED
    BY <2>2, <2>3, <2>4
<1>13. MainFits(th[Main])'
  <2>1. CASE a = Main
    BY <1>5, <1>9, <2>1 DEF Inv, ActorsFit, Resumes, MainFits, Shaped, PlaceOf
  <2>2. CASE a # Main
    <3>1. th'[Main] = th[Main]
      BY <1>2, <1>4, <2>2, RolesDiffer
    <3> QED
      BY <3>1 DEF Inv, ActorsFit, MainFits, Shaped, PlaceOf
  <2> QED
    BY <2>1, <2>2
<1>14. SourceFits(th[Source])'
  <2>1. CASE a = Source
    BY <1>5, <1>9, <2>1 DEF Inv, ActorsFit, Resumes, SourceFits, Shaped, PlaceOf
  <2>2. CASE a # Source
    <3>1. th'[Source] = th[Source]
      BY <1>2, <1>4, <2>2, RolesDiffer
    <3> QED
      BY <3>1 DEF Inv, ActorsFit, SourceFits, Shaped, PlaceOf
  <2> QED
    BY <2>1, <2>2
<1>15. ActorsFit'
  BY <1>2, <1>12, <1>13, <1>14 DEF ActorsFit
<1>16. /\ \A b \in Actors : Quiet(b) \/ th'[b] = th[b]
       /\ \A u \in Threads : th'[u].core = th[u].core
  BY <1>2, <1>4, <1>5, <1>10, RolesDiffer DEF Resumes
<1> QED
  BY <1>3, <1>15, <1>16, QuietStep

-----------------------------------------------------------------------------
(* A core is passed on.                                                        *)

LEMMA ThreadFacts ==
  ASSUME Inv, NEW t \in Threads
  PROVE  /\ t \in Actors /\ t \in DOMAIN th /\ ThreadFits(th[t]) /\ DOMAIN th[t] = Fields
         /\ th[t].left \subseteq Workers /\ th[t].drops \in BOOLEAN
         /\ th[t].core \in client.workers \cup {NoWorker} /\ client.workers \subseteq Workers
         /\ NoWorker \notin client.workers
BY LeftTyped, RolesDiffer, ActorsAssumption DEF Inv, ActorsFit, ThreadFits, Shaped

LEMMA StartKeeps ==
  ASSUME Inv, NEW t \in Threads, Start(t)
  PROVE  Inv'
<1> DEFINE w == Head(rt.launched)
<1>1. CASE w \notin rt.slot
  <2>1. QueuesKept /\ tk' = tk /\ th' = th /\ rt'.slot = rt.slot /\ rt'.down = rt.down
    BY <1>1 DEF Start, QueuesKept, Inv, QueuesTyped, RtFields
  <2>2. ActorsFit'
    BY <2>1, FitsKept DEF Inv, ActorsFit, MainFits, SourceFits, Shaped, PlaceOf, QueuesKept
  <2> QED
    BY <2>1, <2>2, QuietStep
<1>2. CASE w \in rt.slot
  <2>1. th' = [b \in Actors |-> th'[b]] /\ Same({t}) /\ DOMAIN th'[t] = Fields
    BY <1>2, GoesOnlyOne, RolesDiffer DEF Start, Inv
  <2>2. tk' = tk /\ QueuesKept /\ rt'.slot = rt.slot \ {w} /\ rt'.down = rt.down
    BY DEF Start, QueuesKept, Inv, QueuesTyped, RtFields
  <2>3. /\ th[t].pc = "free" /\ th'[t].pc = "top" /\ th'[t].core = w /\ th'[t].cont = th[t].cont
        /\ th'[t].left = th[t].left /\ th'[t].drops = FALSE
    BY <1>2, ThreadFacts DEF Start, At, Goes, Scheduling, Unscheduled
  <2>4. /\ "top" \in Steps /\ "free" \notin Scheduling /\ "free" \notin FinishPlaces
        /\ "free" \in Still /\ w \in client.workers /\ w # NoWorker
    BY <1>2, ThreadFacts DEF Steps, CorePlaces, Scheduling, FinishPlaces, Still, Inv, CoresPlaced
  <2>5. PlaceOf(th[t]) = "free" /\ PlaceOf(th'[t]) = "top" /\ th[t].core = NoWorker /\ th[t].cont = "lifo"
    BY <2>3, <2>4, StepsAre, ThreadFacts DEF PlaceOf, ThreadFits
  <2>6. ThreadFits(th[t])'
    BY <2>1, <2>2, <2>3, <2>4, <2>5, StepsAre, ThreadFacts
       DEF ThreadFits, Shaped, PlaceOf, QueuesKept
  <2>7. Quiet(t)
    BY <2>3, <2>4, <2>5, StepsAre DEF Quiet, At, Place, PlaceOf
  <2>8. CoresPlaced'
    <3>1. /\ \A u \in Threads \ {t} : th'[u].core = th[u].core /\ th[u].core # w
          /\ w \notin rt.down
      BY <1>2, <2>1, RolesDiffer DEF Inv, CoresPlaced, Same
    <3> HIDE DEF w
    <3>2. \A u, v \in Threads : th'[u].core = th'[v].core /\ th'[u].core # NoWorker => u = v
      BY <2>3, <3>1 DEF Inv, CoresPlaced
    <3>3. \A u \in Threads : th'[u].core \notin rt'.slot \cup rt'.down
      BY <2>2, <2>3, <3>1 DEF Inv, CoresPlaced
    <3>4. \A v \in client.workers \ (rt'.slot \cup rt'.down) : \E u \in Threads : th'[u].core = v
      BY <2>2, <2>3, <2>5, <3>1, ThreadFacts DEF Inv, CoresPlaced
    <3> QED
      BY <2>2, <3>2, <3>3, <3>4 DEF Inv, CoresPlaced, QueuesKept
  <2>9. ActorsFit' /\ \A b \in Actors : Quiet(b) \/ th'[b] = th[b]
    BY <2>1, <2>2, <2>6, <2>7, ThreadMoved DEF Inv, QueuesKept, Same
  <2> QED
    BY <2>2, <2>8, <2>9, QuietTasks
<1> QED
  BY <1>1, <1>2

LEMMA BlockKeeps ==
  ASSUME Inv, NEW t \in Threads, Block(t)
  PROVE  Inv'
<1> DEFINE w == th[t].core
<1>1. th' = [b \in Actors |-> th'[b]] /\ Same({t}) /\ DOMAIN th'[t] = Fields
  BY GoesOnlyOne, RolesDiffer DEF Block, Inv
<1>2. tk' = tk /\ QueuesKept /\ rt'.slot = rt.slot \cup {w} /\ rt'.down = rt.down
  BY DEF Block, QueuesKept, Inv, QueuesTyped, RtFields
<1>3. /\ th[t].pc = "body" /\ th'[t].pc = "blocked" /\ w # NoWorker /\ th'[t].core = NoWorker
      /\ th'[t].task = th[t].task /\ th'[t].cont = th[t].cont
      /\ th'[t].left = th[t].left /\ th'[t].drops = FALSE
  BY ThreadFacts DEF Block, At, Goes, Scheduling, Unscheduled
<1>4. /\ {"body", "blocked"} \subseteq PollPlaces /\ "body" \notin Scheduling
      /\ "blocked" \notin Scheduling /\ "body" \notin FinishPlaces
      /\ "blocked" \notin CorePlaces \cup FinishPlaces
      /\ "blocked" \in ThreadPlaces /\ "body" \in TaskPlaces
  BY DEF PollPlaces, Scheduling, FinishPlaces, CorePlaces, ThreadPlaces, TaskPlaces
<1>5. PlaceOf(th[t]) = "body" /\ PlaceOf(th'[t]) = "blocked" /\ th[t].cont = "lifo"
        /\ th[t].task \in Tasks
  BY <1>3, <1>4, ThreadFacts DEF PlaceOf, ThreadFits, Shaped
<1>6. ThreadFits(th[t])'
  BY <1>1, <1>2, <1>3, <1>4, <1>5, ThreadFacts DEF ThreadFits, Shaped, PlaceOf, QueuesKept
<1>7. Quiet(t)
  BY <1>3, <1>4, <1>5 DEF Quiet, At, Place, PlaceOf
<1>8. CoresPlaced'
  BY <1>1, <1>2, <1>3, RolesDiffer, ThreadFacts DEF Inv, CoresPlaced, QueuesKept, Same
<1>9. ActorsFit' /\ \A b \in Actors : Quiet(b) \/ th'[b] = th[b]
  BY <1>1, <1>2, <1>6, <1>7, ThreadMoved DEF Inv, QueuesKept, Same
<1> QED
  BY <1>2, <1>8, <1>9, QuietTasks

LEMMA UnblockKeeps ==
  ASSUME Inv, NEW t \in Threads, Unblock(t)
  PROVE  Inv'
<1> DEFINE w == th[t].home
<1>1. th' = [b \in Actors |-> th'[b]] /\ Same({t}) /\ DOMAIN th'[t] = Fields
  BY GoesOnlyOne, RolesDiffer DEF Unblock, Inv
<1>2. tk' = tk /\ QueuesKept /\ rt'.slot = rt.slot \ {w} /\ rt'.down = rt.down
  BY DEF Unblock, QueuesKept, Inv, QueuesTyped, RtFields
<1>3. /\ th[t].pc = "blocked" /\ th'[t].pc = "body"
      /\ th'[t].core = (IF w \in rt.slot THEN w ELSE NoWorker)
      /\ th'[t].task = th[t].task /\ th'[t].cont = th[t].cont
      /\ th'[t].left = th[t].left /\ th'[t].drops = FALSE
  BY ThreadFacts DEF Unblock, At, Goes, Scheduling, Unscheduled
<1>4. /\ {"body", "blocked"} \subseteq PollPlaces /\ "body" \notin Scheduling
      /\ "blocked" \notin Scheduling /\ "blocked" \notin FinishPlaces
      /\ "body" \notin CorePlaces \cup FinishPlaces
      /\ "body" \in ThreadPlaces /\ "blocked" \in TaskPlaces
  BY DEF PollPlaces, Scheduling, FinishPlaces, CorePlaces, ThreadPlaces, TaskPlaces
<1>5. PlaceOf(th[t]) = "blocked" /\ PlaceOf(th'[t]) = "body" /\ th[t].cont = "lifo"
        /\ th[t].task \in Tasks /\ th[t].core = NoWorker
  BY <1>3, <1>4, ThreadFacts DEF PlaceOf, ThreadFits, Shaped
<1>6. rt.slot \subseteq client.workers
  BY DEF Inv, CoresPlaced
<1>7. ThreadFits(th[t])'
  BY <1>1, <1>2, <1>3, <1>4, <1>5, <1>6, ThreadFacts DEF ThreadFits, Shaped, PlaceOf, QueuesKept
<1>8. Quiet(t)
  BY <1>3, <1>4, <1>5 DEF Quiet, At, Place, PlaceOf
<1>9. CoresPlaced'
  BY <1>1, <1>2, <1>3, <1>5, RolesDiffer, ThreadFacts DEF Inv, CoresPlaced, QueuesKept, Same
<1>10. ActorsFit' /\ \A b \in Actors : Quiet(b) \/ th'[b] = th[b]
  BY <1>1, <1>2, <1>7, <1>8, ThreadMoved DEF Inv, QueuesKept, Same
<1> QED
  BY <1>2, <1>9, <1>10, QuietTasks

-----------------------------------------------------------------------------
(* A step that touches one task.                                               *)

\* The actor a has as much of the task j as before.
Kept(a, j) ==
  /\ (j \in rt.owned)' <=> j \in rt.owned
  /\ Queued(j)' + NotifiedShare(a, j)' = Queued(j) + NotifiedShare(a, j)
  /\ OtherShare(a, j)' = OtherShare(a, j)
  /\ Where(a, j)' = Where(a, j) \/ {Where(a, j), Where(a, j)'} \subseteq Neutral

LEMMA SharesTyped ==
  ASSUME NEW a, NEW k
  PROVE  /\ NotifiedShare(a, k) \in Nat /\ OtherShare(a, k) \in Nat
         /\ NotifiedShare(a, k)' \in Nat /\ OtherShare(a, k)' \in Nat
BY DEF NotifiedShare, OtherShare, One

\* Nobody but a moved; there are d Notifieds of k more, and a has e more of the other
\* references to k, but what it had of the other tasks.
Moves(a, k, d, e) ==
  /\ \A b \in Actors \ {a} : th'[b] = th[b]
  /\ \A j \in Tasks \ {k} : Kept(a, j)
  /\ Queued(k)' + NotifiedShare(a, k)' = Queued(k) + NotifiedShare(a, k) + d
  /\ OtherShare(a, k)' = OtherShare(a, k) + e

\* The step makes T of k; who gives up the last reference frees it.
Becomes(k, T) ==
  tk' = [tk EXCEPT ![k] = Freed(T)] \/ (tk' = [tk EXCEPT ![k] = T] /\ T.word.refs > 0)

\* T is what the invariant says it is, with the new place of a.
Suits(a, k, T, d, e) ==
  /\ TaskTyped(T)
  /\ Balanced(T, (k \in rt.owned)', Notifieds(k) + d, OtherHands(k) + e)
  /\ \A b \in Actors \ {a} : Agrees(T, Notifieds(k) + d, Where(b, k))
  /\ Agrees(T, Notifieds(k) + d, Where(a, k)')
  /\ RunsIt(a, k)' => \A b \in Actors \ {a} : ~RunsIt(b, k)
  /\ Waits(T, Where(Main, k)')

LEMMA Touch ==
  ASSUME NEW a \in Actors, NEW k \in Tasks, NEW T, NEW d \in Int, NEW e \in Int,
         QueuesTyped, QueuesTyped', TasksInv,
         Moves(a, k, d, e), Becomes(k, T), Suits(a, k, T, d, e)
  PROVE  TasksInv'
<1>1. /\ \A b \in Actors \ {a} : th'[b] = th[b]
      /\ \A j \in Tasks \ {k} : Kept(a, j)
      /\ Queued(k)' + NotifiedShare(a, k)' = Queued(k) + NotifiedShare(a, k) + d
      /\ OtherShare(a, k)' = OtherShare(a, k) + e
  BY DEF Moves
<1>2. TaskInv(k) /\ k \in DOMAIN tk
  BY DEF TasksInv
<1>3. /\ Queued(k) \in Nat /\ Notifieds(k) = Queued(k) + NotifiedHands(k)
      /\ Queued(k)' \in Nat /\ Notifieds(k)' = Queued(k)' + NotifiedHands(k)'
  BY CountIs, CountIsNext
<1>4. /\ NotifiedHands(k) \in Nat /\ OtherHands(k) \in Nat
      /\ NotifiedHands(k)' \in Nat /\ OtherHands(k)' \in Nat
      /\ NotifiedHands(k)' = NotifiedHands(k) - NotifiedShare(a, k) + NotifiedShare(a, k)'
      /\ OtherHands(k)' = OtherHands(k) - OtherShare(a, k) + OtherShare(a, k)'
  BY <1>1, HandsMoved
<1>5. /\ Notifieds(k)' = Notifieds(k) + d
      /\ Queued(k)' + NotifiedHands(k) - NotifiedShare(a, k) + NotifiedShare(a, k)' = Notifieds(k) + d
      /\ OtherHands(k) - OtherShare(a, k) + OtherShare(a, k)' = OtherHands(k) + e
  BY <1>1, <1>3, <1>4, SharesTyped
<1>6. Balanced(T, (k \in rt.owned)',
                Queued(k)' + NotifiedHands(k) - NotifiedShare(a, k) + NotifiedShare(a, k)',
                OtherHands(k) - OtherShare(a, k) + OtherShare(a, k)')
  BY <1>5 DEF Suits
<1>7. /\ \A b \in Actors \ {a} : Agrees(T, Notifieds(k)', Where(b, k))
      /\ Agrees(T, Notifieds(k)', Where(a, k)')
  BY <1>5 DEF Suits
<1>8. tk'[k] = Freed(T) \/ (tk'[k] = T /\ T.word.refs > 0)
  BY <1>2 DEF Becomes
<1>9. TaskInv(k)'
  <2>1. /\ TaskTyped(T)
        /\ RunsIt(a, k)' => \A b \in Actors \ {a} : ~RunsIt(b, k)
        /\ Waits(T, Where(Main, k)')
    BY DEF Suits
  <2> QED
    BY <1>1, <1>2, <1>6, <1>7, <1>8, <2>1, TaskTouched
<1>10. ASSUME NEW j \in Tasks \ {k} PROVE TaskInv(j)'
  <2>1. tk'[j] = tk[j] /\ TaskInv(j) /\ Kept(a, j)
    BY <1>1 DEF TasksInv, Becomes
  <2> QED
    BY <1>1, <2>1, TaskKept DEF Kept
<1>11. tk' = [j \in Tasks |-> tk'[j]]
  BY DEF TasksInv, Becomes
<1> QED
  BY <1>9, <1>10, <1>11 DEF TasksInv

\* T has the flags of the task k, which may have been notified; the place of a says
\* no more of it than before.
Plain(a, k, T, d, e) ==
  /\ TaskTyped(T)
  /\ T.word.running = tk[k].word.running /\ T.word.complete = tk[k].word.complete
  /\ T.word.joinInterest = tk[k].word.joinInterest /\ T.word.joinWaker = tk[k].word.joinWaker
  /\ T.output = tk[k].output /\ T.handle = tk[k].handle
  /\ tk[k].word.notified => T.word.notified
  /\ d \in {-1, 0, 1}
  /\ d = 1 => T.word.notified /\ ~tk[k].word.running /\ Notifieds(k) = 0
  /\ T.word.refs - tk[k].word.refs
        = One((k \in rt.owned)') - One(k \in rt.owned) + T.wakers - tk[k].wakers + d + e
  /\ Where(a, k)' = Where(a, k) \/ {Where(a, k), Where(a, k)'} \subseteq Neutral

LEMMA TouchPlain ==
  ASSUME NEW a \in Actors, NEW k \in Tasks, NEW T, NEW d \in Int, NEW e \in Int,
         QueuesTyped, QueuesTyped', TasksInv, T.handle # "none",
         Moves(a, k, d, e), Becomes(k, T), Plain(a, k, T, d, e)
  PROVE  TasksInv'
<1>1. /\ \A b \in Actors \ {a} : th'[b] = th[b]
      /\ Queued(k)' + NotifiedShare(a, k)' = Queued(k) + NotifiedShare(a, k) + d
      /\ OtherShare(a, k)' = OtherShare(a, k) + e
  BY DEF Moves
<1>2. /\ TaskTyped(tk[k]) /\ Balanced(tk[k], k \in rt.owned, Notifieds(k), OtherHands(k))
      /\ \A b \in Actors : Agrees(tk[k], Notifieds(k), Where(b, k))
      /\ \A b, c \in Actors : RunsIt(b, k) /\ RunsIt(c, k) => b = c
      /\ Waits(tk[k], Where(Main, k))
  BY DEF TasksInv, TaskInv
<1>3. /\ Queued(k) \in Nat /\ Notifieds(k) = Queued(k) + NotifiedHands(k)
      /\ Queued(k)' \in Nat /\ Notifieds(k)' = Queued(k)' + NotifiedHands(k)'
  BY CountIs, CountIsNext
<1>4. /\ NotifiedHands(k) \in Nat /\ OtherHands(k) \in Nat
      /\ NotifiedHands(k)' \in Nat
      /\ NotifiedHands(k)' = NotifiedHands(k) - NotifiedShare(a, k) + NotifiedShare(a, k)'
  BY <1>1, HandsMoved
<1>5. Notifieds(k) + d \in Nat /\ Notifieds(k) \in Nat /\ Notifieds(k) <= 1
  BY <1>1, <1>2, <1>3, <1>4, SharesTyped DEF Balanced
<1>6. /\ T.word.running = tk[k].word.running /\ T.word.complete = tk[k].word.complete
      /\ T.word.joinInterest = tk[k].word.joinInterest /\ T.word.joinWaker = tk[k].word.joinWaker
      /\ T.output = tk[k].output /\ T.handle = tk[k].handle
      /\ tk[k].word.notified => T.word.notified
      /\ d \in {-1, 0, 1}
      /\ d = 1 => T.word.notified /\ ~tk[k].word.running /\ Notifieds(k) = 0
  BY DEF Plain
<1>7. Balanced(T, (k \in rt.owned)', Notifieds(k) + d, OtherHands(k) + e)
  <2>1. Notifieds(k) + d <= 1 /\ (Notifieds(k) + d = 1 => T.word.notified)
    BY <1>2, <1>5, <1>6 DEF Balanced
  <2>2. /\ tk[k].word.refs \in Int /\ T.word.refs \in Int /\ tk[k].wakers \in Int /\ T.wakers \in Int
        /\ One((k \in rt.owned)') \in Int /\ One(k \in rt.owned) \in Int
        /\ One(T.handle = "held") \in Int /\ One(T.handle = "held") = One(tk[k].handle = "held")
        /\ tk[k].word.refs = One(k \in rt.owned) + One(tk[k].handle = "held") + tk[k].wakers
                               + Notifieds(k) + OtherHands(k)
    BY <1>2, <1>6 DEF TaskTyped, Balanced, One, Plain
  <2>3. T.word.refs = One((k \in rt.owned)') + One(T.handle = "held") + T.wakers
                        + (Notifieds(k) + d) + (OtherHands(k) + e)
    BY <1>4, <1>5, <2>2 DEF Plain
  <2> QED
    BY <2>1, <2>3 DEF Balanced
<1>8. ASSUME NEW p, Agrees(tk[k], Notifieds(k), p) PROVE Agrees(T, Notifieds(k) + d, p)
  <2>1. p = "body" => Notifieds(k) + d = 0
    <3>1. p = "body" => Notifieds(k) = 0 /\ tk[k].word.running
      BY <1>8 DEF Agrees
    <3> QED
      BY <1>5, <1>6, <3>1
  <2> QED
    BY <1>6, <1>8, <2>1 DEF Agrees
<1>9. \A p \in Neutral : p \notin {"body", "complete", "wake join", "drop reference"} \cup HandlePlaces
  BY DEF Neutral, CorePlaces, HandlePlaces
<1>10. Where(a, k)' = Where(a, k) \/ {Where(a, k), Where(a, k)'} \subseteq Neutral
  BY DEF Plain
<1>11. Agrees(T, Notifieds(k) + d, Where(a, k)')
  <2>1. CASE Where(a, k)' = Where(a, k)
    BY <1>2, <1>8, <2>1
  <2>2. CASE Where(a, k)' \in Neutral
    BY <1>9, <2>2 DEF Agrees, HandlePlaces
  <2> QED
    BY <1>10, <2>1, <2>2
<1>12. RunsIt(a, k)' => \A b \in Actors \ {a} : ~RunsIt(b, k)
  BY <1>2, <1>9, <1>10 DEF RunsIt
<1>13. Waits(T, Where(Main, k)')
  <2>1. CASE Where(Main, k)' = Where(Main, k)
    BY <1>2, <1>6, <2>1 DEF Waits
  <2>2. CASE a = Main /\ {Where(a, k), Where(a, k)'} \subseteq Neutral
    BY <1>2, <1>6, <1>9, <2>2 DEF Waits, HandlePlaces
  <2>3. Main # a => Where(Main, k)' = Where(Main, k)
    BY <1>1, RolesDiffer DEF Where, Place
  <2> QED
    BY <1>10, <2>1, <2>2, <2>3
<1>14. \A b \in Actors \ {a} : Agrees(T, Notifieds(k) + d, Where(b, k))
  BY <1>2, <1>8
<1>15. Suits(a, k, T, d, e)
  BY <1>7, <1>11, <1>12, <1>13, <1>14 DEF Suits, Plain
<1> QED
  BY <1>15, Touch

\* An actor that has nothing of a task in hand.
Free(a, k) == NotifiedShare(a, k) = 0 /\ OtherShare(a, k) = 0

Holding == {"found", "poll", "drop notified"} \cup FinishPlaces \cup PollPlaces

LEMMA FreeIs ==
  ASSUME NEW a, NEW k
  PROVE  /\ ~At(a, "submit") /\ (th[a].task # k \/ Place(a) \notin Holding) => Free(a, k)
         /\ ~At(a, "submit")' /\ (th'[a].task # k \/ Place(a)' \notin Holding) => Free(a, k)'
<1>1. ASSUME ~At(a, "submit"), th[a].task # k \/ Place(a) \notin Holding
      PROVE  Free(a, k)
  <2>1. ~Submits(a, k) /\ ~Owes(a, k) /\ ~Fetched(a, k) /\ ~Carries(a, k) /\ ~Keeps(a, k)
    BY <1>1 DEF Submits, Owes, Fetched, Carries, Keeps, Holding
  <2> QED
    BY <2>1 DEF NotifiedShare, OtherShare, One, Free
<1>2. ASSUME ~At(a, "submit")', th'[a].task # k \/ Place(a)' \notin Holding
      PROVE  Free(a, k)'
  <2>1. ~Submits(a, k)' /\ ~Owes(a, k)' /\ ~Fetched(a, k)' /\ ~Carries(a, k)' /\ ~Keeps(a, k)'
    BY <1>2 DEF Submits, Owes, Fetched, Carries, Keeps, Holding
  <2> QED
    BY <2>1 DEF NotifiedShare, OtherShare, One, Free
<1> QED
  BY <1>1, <1>2

\* An actor that finishes a task.
LEMMA FinishingIs ==
  ASSUME NEW a, NEW k
  PROVE  /\ ~At(a, "submit") /\ th[a].task = k /\ Place(a) \in FinishPlaces =>
               /\ NotifiedShare(a, k) = IF th[a].cont = "drop notified" THEN 1 ELSE 0
               /\ OtherShare(a, k) = 1 /\ Where(a, k) = Place(a)
         /\ ~At(a, "submit")' /\ th'[a].task = k /\ Place(a)' \in FinishPlaces =>
               /\ NotifiedShare(a, k)' = IF th'[a].cont = "drop notified" THEN 1 ELSE 0
               /\ OtherShare(a, k)' = 1 /\ Where(a, k)' = Place(a)'
<1>1. \A p \in FinishPlaces : p \notin {"found", "poll", "drop notified"} /\ p \notin PollPlaces
  BY DEF FinishPlaces, PollPlaces
<1>2. ASSUME ~At(a, "submit"), th[a].task = k, Place(a) \in FinishPlaces
      PROVE  /\ NotifiedShare(a, k) = IF th[a].cont = "drop notified" THEN 1 ELSE 0
             /\ OtherShare(a, k) = 1 /\ Where(a, k) = Place(a)
  <2>1. ~Submits(a, k) /\ ~Owes(a, k) /\ ~Fetched(a, k) /\ Keeps(a, k)
    BY <1>1, <1>2 DEF Submits, Owes, Fetched, Keeps
  <2>2. Where(a, k) = Place(a)
    BY <1>1, <1>2 DEF Where
  <2>3. OtherShare(a, k) = 1
    BY <2>1 DEF OtherShare, One
  <2>4. Carries(a, k) => NotifiedShare(a, k) = 1
    BY <2>1 DEF NotifiedShare, One
  <2>5. ~Carries(a, k) => NotifiedShare(a, k) = 0
    BY <2>1 DEF NotifiedShare, One
  <2>6. CASE th[a].cont = "drop notified"
    <3>1. Carries(a, k)
      BY <1>1, <1>2, <2>6 DEF Carries
    <3> QED
      BY <2>2, <2>3, <2>4, <2>6, <3>1
  <2>7. CASE th[a].cont # "drop notified"
    <3>1. ~Carries(a, k)
      BY <1>1, <1>2, <2>7 DEF Carries
    <3> QED
      BY <2>2, <2>3, <2>5, <2>7, <3>1
  <2> QED
    BY <2>6, <2>7
<1>3. ASSUME ~At(a, "submit")', th'[a].task = k, Place(a)' \in FinishPlaces
      PROVE  /\ NotifiedShare(a, k)' = IF th'[a].cont = "drop notified" THEN 1 ELSE 0
             /\ OtherShare(a, k)' = 1 /\ Where(a, k)' = Place(a)'
  <2>1. ~Submits(a, k)' /\ ~Owes(a, k)' /\ ~Fetched(a, k)' /\ Keeps(a, k)'
    BY <1>1, <1>3 DEF Submits, Owes, Fetched, Keeps
  <2>2. Where(a, k)' = Place(a)'
    BY <1>1, <1>3 DEF Where
  <2>3. OtherShare(a, k)' = 1
    BY <2>1 DEF OtherShare, One
  <2>4. Carries(a, k)' => NotifiedShare(a, k)' = 1
    BY <2>1 DEF NotifiedShare, One
  <2>5. ~Carries(a, k)' => NotifiedShare(a, k)' = 0
    BY <2>1 DEF NotifiedShare, One
  <2>6. CASE th'[a].cont = "drop notified"
    <3>1. Carries(a, k)'
      BY <1>1, <1>3, <2>6 DEF Carries
    <3> QED
      BY <2>2, <2>3, <2>4, <2>6, <3>1
  <2>7. CASE th'[a].cont # "drop notified"
    <3>1. ~Carries(a, k)'
      BY <1>1, <1>3, <2>7 DEF Carries
    <3> QED
      BY <2>2, <2>3, <2>5, <2>7, <3>1
  <2> QED
    BY <2>6, <2>7
<1> QED
  BY <1>2, <1>3

\* An actor that polls a task.
LEMMA PollingIs ==
  ASSUME NEW a, NEW k
  PROVE  /\ ~At(a, "submit") /\ th[a].task = k /\ Place(a) \in PollPlaces =>
               NotifiedShare(a, k) = 0 /\ OtherShare(a, k) = 1 /\ Where(a, k) = "body"
         /\ ~At(a, "submit")' /\ th'[a].task = k /\ Place(a)' \in PollPlaces =>
               NotifiedShare(a, k)' = 0 /\ OtherShare(a, k)' = 1 /\ Where(a, k)' = "body"
<1>1. \A p \in PollPlaces : p \notin {"found", "poll", "drop notified"} /\ p \notin FinishPlaces
  BY DEF FinishPlaces, PollPlaces
<1>2. ASSUME ~At(a, "submit"), th[a].task = k, Place(a) \in PollPlaces
      PROVE  NotifiedShare(a, k) = 0 /\ OtherShare(a, k) = 1 /\ Where(a, k) = "body"
  <2>1. ~Submits(a, k) /\ ~Owes(a, k) /\ ~Fetched(a, k) /\ Keeps(a, k) /\ ~Carries(a, k)
    BY <1>1, <1>2 DEF Submits, Owes, Fetched, Carries, Keeps
  <2>2. Where(a, k) = "body"
    BY <1>2 DEF Where
  <2> QED
    BY <2>1, <2>2 DEF NotifiedShare, OtherShare, One
<1>3. ASSUME ~At(a, "submit")', th'[a].task = k, Place(a)' \in PollPlaces
      PROVE  NotifiedShare(a, k)' = 0 /\ OtherShare(a, k)' = 1 /\ Where(a, k)' = "body"
  <2>1. ~Submits(a, k)' /\ ~Owes(a, k)' /\ ~Fetched(a, k)' /\ Keeps(a, k)' /\ ~Carries(a, k)'
    BY <1>1, <1>3 DEF Submits, Owes, Fetched, Carries, Keeps
  <2>2. Where(a, k)' = "body"
    BY <1>3 DEF Where
  <2> QED
    BY <2>1, <2>2 DEF NotifiedShare, OtherShare, One
<1> QED
  BY <1>2, <1>3

\* A place that says nothing of a task, or of another task.
LEMMA NeutralIs ==
  ASSUME NEW a, NEW k
  PROVE  /\ th[a].task # k \/ Place(a) \in Neutral \ PollPlaces => Where(a, k) \in Neutral
         /\ th'[a].task # k \/ Place(a)' \in Neutral \ PollPlaces => Where(a, k)' \in Neutral
BY DEF Where, Neutral
\* The task T is joined as S is, unless Main is about to let go of it; its output is
\* there, or comes yet.
LEMMA StillWaits ==
  ASSUME NEW a \in Actors, NEW k, \A b \in Actors \ {a} : th'[b] = th[b],
         NEW S, NEW T, Waits(S, Where(Main, k)),
         Where(a, k) # "drop reference", Where(a, k)' # "drop reference",
         T.handle = S.handle, T.word.joinInterest = S.word.joinInterest,
         T.word.complete => T.output = "stored"
  PROVE  Waits(T, Where(Main, k)')
<1>1. Where(Main, k)' = "drop reference" => Where(Main, k) = "drop reference"
  <2>1. CASE a = Main
    BY <2>1
  <2>2. CASE a # Main
    BY <2>2, RolesDiffer DEF Where, Place
  <2> QED
    BY <2>1, <2>2
<1>2. Where(Main, k) = "drop reference" => Where(Main, k)' = "drop reference"
  <2>1. CASE a = Main
    BY <2>1
  <2>2. CASE a # Main
    BY <2>2, RolesDiffer DEF Where, Place
  <2> QED
    BY <2>1, <2>2
<1> QED
  BY <1>1, <1>2 DEF Waits

LEMMA RunGoes ==
  ASSUME NEW t \in Threads, t \in DOMAIN th, NEW k, Run(t, k),
         th[t].cont = "lifo"
  PROVE  /\ th'[t].core = th[t].core /\ th'[t].cont = "lifo" /\ th'[t].left = {} /\ th'[t].drops = FALSE
         /\ ToRunning(tk[k].word).action = "Success" => th'[t].pc = "body" /\ th'[t].task = k
         /\ ToRunning(tk[k].word).action = "Cancelled" => th'[t].pc = "complete" /\ th'[t].task = k
         /\ ToRunning(tk[k].word).action = "Failed" => th'[t].pc = "lifo" /\ th'[t].task = NoTask
<1> DEFINE r == ToRunning(tk[k].word)
           G(f) == Goes(t, f)
<1>1. r.action \in {"Success", "Cancelled", "Failed"}
  BY DEF ToRunning
<1>2. CASE r.action = "Success"
  <2>1. Goes(t, [pc |-> "body", task |-> k, left |-> {}])
    BY <1>2 DEF Run
  <2>2. "body" \notin Scheduling
    BY DEF Scheduling
  <2> QED
    BY <1>2, <2>1, <2>2 DEF Goes, Unscheduled
<1>3. CASE r.action = "Cancelled"
  <2>1. Goes(t, [pc |-> "complete", task |-> k, left |-> {}])
    BY <1>3 DEF Run
  <2>2. "complete" \notin Scheduling
    BY DEF Scheduling
  <2> QED
    BY <1>3, <2>1, <2>2 DEF Goes, Unscheduled
<1>4. CASE r.action = "Failed"
  <2>1. Goes(t, [pc |-> "lifo", task |-> NoTask, left |-> {}])
    BY <1>4 DEF Run
  <2>2. "lifo" \notin Scheduling
    BY DEF Scheduling
  <2> QED
    BY <1>4, <2>1, <2>2 DEF Goes, Unscheduled
<1> QED
  BY <1>1, <1>2, <1>3, <1>4

\* The task k is run, or its Notified is given up: one Notified less, from a queue
\* or from the hand of the thread.
LEMMA RunStep ==
  ASSUME ActorsFit, QueuesTyped, QueuesTyped', TasksInv, NEW t \in Threads, NEW k \in Tasks,
         Run(t, k), client' = client, rt'.owned = rt.owned,
         th[t].cont = "lifo",
         \A j \in Tasks : OtherShare(t, j) = 0 /\ Where(t, j) \in Neutral,
         \A j \in Tasks \ {k} : Queued(j)' = Queued(j) + NotifiedShare(t, j),
         Queued(k)' + 1 = Queued(k) + NotifiedShare(t, k)
  PROVE  ActorsFit' /\ Same({t}) /\ th'[t].core = th[t].core /\ TasksInv'
<1> DEFINE r == ToRunning(tk[k].word)
           T == [tk[k] EXCEPT !.word = r.next,
                              !.output = IF r.action = "Cancelled" THEN "stored" ELSE @]
<1>1. /\ t \in Actors /\ t \in DOMAIN th /\ ThreadFits(th[t])
      /\ th[t].core \in client.workers \cup {NoWorker} /\ NoTask \notin Tasks
  BY RolesDiffer, ActorsAssumption DEF ActorsFit, ThreadFits
<1>2. /\ th' = [b \in Actors |-> th'[b]] /\ Same({t}) /\ DOMAIN th'[t] = Fields
      /\ \A b \in Actors \ {t} : th'[b] = th[b]
  BY <1>1, GoesOnlyOne DEF Run, Same
<1>3. /\ th'[t].core = th[t].core /\ th'[t].cont = "lifo" /\ th'[t].left = {} /\ th'[t].drops = FALSE
      /\ r.action = "Success" => th'[t].pc = "body" /\ th'[t].task = k
      /\ r.action = "Cancelled" => th'[t].pc = "complete" /\ th'[t].task = k
      /\ r.action = "Failed" => th'[t].pc = "lifo" /\ th'[t].task = NoTask
  BY <1>1, RunGoes
<1>4. r.action \in {"Success", "Cancelled", "Failed"}
  BY DEF ToRunning
<1>5. /\ {"body", "complete", "lifo"} \cap Scheduling = {}
      /\ {"body", "complete", "lifo"} \subseteq ThreadPlaces
      /\ {"body", "complete", "lifo"} \cap CorePlaces = {} /\ "lifo" \notin TaskPlaces
      /\ "body" \in PollPlaces /\ "complete" \in FinishPlaces /\ "body" \notin FinishPlaces
      /\ "lifo" \notin Holding /\ "lifo" \in Neutral \ PollPlaces
  BY DEF Scheduling, ThreadPlaces, CorePlaces, TaskPlaces, PollPlaces, FinishPlaces, HandlePlaces,
         Holding, Neutral
<1>6. Place(t)' = th'[t].pc /\ PlaceOf(th'[t]) = th'[t].pc /\ ~At(t, "submit")'
  BY <1>3, <1>4, <1>5 DEF Place, PlaceOf, At
<1>7. ThreadFits(th[t])'
  <2>1. Shaped(th'[t])
    BY <1>2, <1>3, <1>4, <1>5, <1>6 DEF Shaped, At
  <2> QED
    BY <1>1, <1>3, <1>4, <1>5, <1>6, <2>1 DEF ThreadFits, Shaped, PlaceOf
<1>8. ActorsFit'
  BY <1>2, <1>7, ThreadMoved
<1>9. tk' = [tk EXCEPT ![k] = Freed(T)]
  BY DEF Run, SetTask
<1>10. Becomes(k, T)
  BY <1>9 DEF Becomes
<1>11. ASSUME NEW j \in Tasks \ {k} PROVE Kept(t, j)
  <2>1. Free(t, j)' /\ Where(t, j)' \in Neutral
    BY <1>3, <1>4, <1>5, <1>6, FreeIs, NeutralIs
  <2>2. Queued(j)' \in Nat /\ Queued(j) \in Nat
    BY CountIs, CountIsNext
  <2> QED
    BY <2>1, <2>2, SharesTyped DEF Kept, Free
<1>12. TaskInv(k)
  BY DEF TasksInv
<1>13. /\ TaskTyped(tk[k]) /\ Balanced(tk[k], k \in rt.owned, Notifieds(k), OtherHands(k))
       /\ \A b \in Actors : Agrees(tk[k], Notifieds(k), Where(b, k))
  BY <1>12 DEF TaskInv
<1>14. /\ Notifieds(k) = Queued(k) + NotifiedHands(k) /\ Queued(k) \in Nat /\ Queued(k)' \in Nat
       /\ NotifiedHands(k) \in Nat /\ OtherHands(k) \in Nat
       /\ NotifiedShare(t, k) \in Nat /\ NotifiedShare(t, k) <= NotifiedHands(k)
  BY <1>1, CountIs, CountIsNext, ShareCounted, SharesTyped
<1>15. Notifieds(k) = 1
  <2>1. Notifieds(k) <= 1
    BY <1>13 DEF Balanced
  <2> QED
    BY <1>14, <2>1
<1>16. /\ tk[k].word.notified /\ tk[k].handle # "none"
       /\ tk[k].word.refs = One(k \in rt.owned) + One(tk[k].handle = "held") + tk[k].wakers
                              + 1 + OtherHands(k)
  <2>1. tk[k].word.refs >= 1
    BY <1>13, <1>14, <1>15 DEF Balanced, TaskTyped, One
  <2> QED
    BY <1>13, <1>15, <2>1 DEF Balanced
<1>17. CASE r.action = "Failed"
  <2>1. Free(t, k)' /\ Where(t, k)' \in Neutral
    BY <1>3, <1>5, <1>6, <1>17, FreeIs, NeutralIs
  <2>2. /\ T.word.refs = tk[k].word.refs - 1 /\ T.output = tk[k].output /\ T.handle = tk[k].handle
        /\ T.wakers = tk[k].wakers /\ DOMAIN T = DOMAIN tk[k] /\ DOMAIN T.word = WordFields
        /\ T.word.running = tk[k].word.running /\ T.word.complete = tk[k].word.complete
        /\ T.word.notified = tk[k].word.notified /\ T.word.cancelled = tk[k].word.cancelled
        /\ T.word.joinInterest = tk[k].word.joinInterest /\ T.word.joinWaker = tk[k].word.joinWaker
    BY <1>13, <1>17 DEF TaskTyped, WordFields, ToRunning, RefDec
  <2> HIDE DEF T
  <2>3. TaskTyped(T)
    BY <1>13, <2>2 DEF TaskTyped
  <2>4. Moves(t, k, -1, 0)
    <3>1. /\ Queued(k)' + NotifiedShare(t, k)' = Queued(k) + NotifiedShare(t, k) + (-1)
          /\ OtherShare(t, k)' = OtherShare(t, k) + 0
      BY <1>14, <2>1 DEF Free
    <3> QED
      BY <1>2, <1>11, <3>1 DEF Moves
  <2>5. T.word.refs - tk[k].word.refs
           = One((k \in rt.owned)') - One(k \in rt.owned) + T.wakers - tk[k].wakers + (-1) + 0
    BY <1>13, <2>2 DEF TaskTyped, One
  <2>6. Plain(t, k, T, -1, 0)
    BY <2>1, <2>2, <2>3, <2>5 DEF Plain
  <2>7. T.handle # "none"
    BY <1>16, <2>2
  <2>8. TasksInv'
    BY <1>1, <1>10, <2>4, <2>6, <2>7, TouchPlain
  <2> QED
    BY <1>2, <1>3, <1>8, <2>8
<1>18. CASE r.action # "Failed"
  <2>1. /\ Place(t)' \in {"body", "complete"} /\ th'[t].task = k
        /\ r.action = "Success" => Place(t)' = "body"
        /\ r.action = "Cancelled" => Place(t)' = "complete"
    BY <1>3, <1>4, <1>6, <1>18
  <2>2. /\ NotifiedShare(t, k)' = 0 /\ OtherShare(t, k)' = 1
        /\ r.action = "Success" => Where(t, k)' = "body"
        /\ r.action = "Cancelled" => Where(t, k)' = "complete"
    <3>1. CASE Place(t)' = "body"
      BY <1>3, <1>5, <1>6, <2>1, <3>1, PollingIs
    <3>2. CASE Place(t)' = "complete"
      BY <1>3, <1>5, <1>6, <2>1, <3>2, FinishingIs
    <3> QED
      BY <2>1, <3>1, <3>2
  <2>3. /\ T.word.refs = tk[k].word.refs /\ T.handle = tk[k].handle
        /\ T.wakers = tk[k].wakers /\ DOMAIN T = DOMAIN tk[k] /\ DOMAIN T.word = WordFields
        /\ T.word.running = TRUE /\ T.word.complete = tk[k].word.complete
        /\ T.word.notified = FALSE /\ T.word.cancelled = tk[k].word.cancelled
        /\ T.word.joinInterest = tk[k].word.joinInterest /\ T.word.joinWaker = tk[k].word.joinWaker
        /\ ~tk[k].word.complete /\ ~tk[k].word.running
        /\ r.action = "Cancelled" => T.output = "stored"
    BY <1>13, <1>18 DEF TaskTyped, WordFields, ToRunning, IsIdle
  <2> HIDE DEF T
  <2>4. TaskTyped(T)
    <3>1. T.word.running \in BOOLEAN /\ T.word.notified \in BOOLEAN
      BY <2>3
    <3> QED
      BY <1>13, <2>3, <3>1 DEF TaskTyped
  <2>5. Moves(t, k, -1, 1)
    <3>1. /\ Queued(k)' + NotifiedShare(t, k)' = Queued(k) + NotifiedShare(t, k) + (-1)
          /\ OtherShare(t, k)' = OtherShare(t, k) + 1
      BY <1>14, <2>2
    <3> QED
      BY <1>2, <1>11, <3>1 DEF Moves
  <2>6. Balanced(T, (k \in rt.owned)', Notifieds(k) + (-1), OtherHands(k) + 1)
    BY <1>13, <1>14, <1>15, <1>16, <2>3 DEF Balanced, TaskTyped, One
  <2>7. \A b \in Actors \ {t} : ~RunsIt(b, k) /\ Agrees(T, Notifieds(k) + (-1), Where(b, k))
    <3>1. ASSUME NEW b \in Actors PROVE Where(b, k) \notin {"body", "complete"}
      BY <1>13, <2>3 DEF Agrees
    <3>2. Notifieds(k) + (-1) = 0
      BY <1>15
    <3>3. ASSUME NEW b \in Actors PROVE Agrees(T, 0, Where(b, k))
      BY <1>13, <2>3, <3>1 DEF Agrees
    <3> QED
      BY <3>1, <3>2, <3>3 DEF RunsIt
  <2>8. Agrees(T, Notifieds(k) + (-1), Where(t, k)')
    <3>1. Notifieds(k) + (-1) = 0
      BY <1>15
    <3>2. Agrees(T, 0, "body")
      BY <2>3 DEF Agrees, HandlePlaces
    <3>3. T.output = "stored" => Agrees(T, 0, "complete")
      BY <2>3 DEF Agrees, HandlePlaces
    <3> QED
      BY <1>4, <1>18, <2>2, <2>3, <3>1, <3>2, <3>3
  <2>9. Waits(T, Where(Main, k)')
    <3>1. /\ Where(t, k) # "drop reference" /\ Where(t, k)' # "drop reference"
          /\ T.word.complete => T.output = "stored"
      BY <1>4, <1>18, <2>2, <2>3 DEF Neutral, CorePlaces
    <3>2. Waits(tk[k], Where(Main, k)) /\ \A b \in Actors \ {t} : th'[b] = th[b]
      BY <1>2, <1>12 DEF TaskInv
    <3> QED
      BY <1>1, <2>3, <3>1, <3>2, StillWaits
  <2>10. Suits(t, k, T, -1, 1)
    BY <2>4, <2>6, <2>7, <2>8, <2>9 DEF Suits
  <2>11. TasksInv'
    BY <1>1, <1>10, <2>5, <2>10, Touch
  <2> QED
    BY <1>2, <1>3, <1>8, <2>11
<1> QED
  BY <1>17, <1>18

\* An actor that has fetched a task.
LEMMA FetchedIs ==
  ASSUME NEW a, NEW k
  PROVE  /\ ~At(a, "submit") /\ th[a].task = k /\ Place(a) \in {"found", "poll"} =>
               NotifiedShare(a, k) = 1 /\ OtherShare(a, k) = 0 /\ Where(a, k) \in Neutral
         /\ ~At(a, "submit")' /\ th'[a].task = k /\ Place(a)' \in {"found", "poll"} =>
               NotifiedShare(a, k)' = 1 /\ OtherShare(a, k)' = 0 /\ Where(a, k)' \in Neutral
<1>1. \A p \in {"found", "poll"} : p \notin {"drop notified"} \cup FinishPlaces \cup PollPlaces
                                   /\ p \in Neutral
  BY DEF FinishPlaces, PollPlaces, Neutral
<1>2. ASSUME ~At(a, "submit"), th[a].task = k, Place(a) \in {"found", "poll"}
      PROVE  NotifiedShare(a, k) = 1 /\ OtherShare(a, k) = 0 /\ Where(a, k) \in Neutral
  <2>1. ~Submits(a, k) /\ ~Owes(a, k) /\ Fetched(a, k) /\ ~Keeps(a, k) /\ ~Carries(a, k)
    BY <1>1, <1>2 DEF Submits, Owes, Fetched, Carries, Keeps
  <2>2. Where(a, k) \in Neutral
    BY <1>1, <1>2 DEF Where
  <2>3. NotifiedShare(a, k) = 1 /\ OtherShare(a, k) = 0
    BY <2>1 DEF NotifiedShare, OtherShare, One
  <2> QED
    BY <2>2, <2>3
<1>3. ASSUME ~At(a, "submit")', th'[a].task = k, Place(a)' \in {"found", "poll"}
      PROVE  NotifiedShare(a, k)' = 1 /\ OtherShare(a, k)' = 0 /\ Where(a, k)' \in Neutral
  <2>1. ~Submits(a, k)' /\ ~Owes(a, k)' /\ Fetched(a, k)' /\ ~Keeps(a, k)' /\ ~Carries(a, k)'
    BY <1>1, <1>3 DEF Submits, Owes, Fetched, Carries, Keeps
  <2>2. Where(a, k)' \in Neutral
    BY <1>1, <1>3 DEF Where
  <2>3. NotifiedShare(a, k)' = 1 /\ OtherShare(a, k)' = 0
    BY <2>1 DEF NotifiedShare, OtherShare, One
  <2> QED
    BY <2>2, <2>3
<1> QED
  BY <1>2, <1>3

\* A step that leaves the tasks alone.
LEMMA TasksKept ==
  ASSUME NEW a \in Actors, QueuesTyped, QueuesTyped', TasksInv,
         \A b \in Actors \ {a} : th'[b] = th[b], tk' = tk, \A j \in Tasks : Kept(a, j)
  PROVE  TasksInv'
<1>1. ASSUME NEW j \in Tasks PROVE TaskInv(j)'
  <2>1. TaskInv(j) /\ Kept(a, j)
    BY DEF TasksInv
  <2> QED
    BY <2>1, TaskKept DEF Kept
<1> QED
  BY <1>1 DEF TasksInv

\* A thread keeps its core.
LEMMA CoreKept ==
  ASSUME CoresPlaced, NEW t \in Threads, Same({t}), th'[t].core = th[t].core,
         rt'.slot = rt.slot, rt'.down = rt.down, client' = client
  PROVE  CoresPlaced'
<1>1. \A u \in Threads : th'[u].core = th[u].core
  BY RolesDiffer DEF Same
<1> QED
  BY <1>1, CoresKept

\* A thread takes the task k, which was in a queue, and runs it or keeps it in hand
\* until it is not searching any more.
LEMMA TakesKeeps ==
  ASSUME Inv, NEW t \in Threads, NEW k \in Tasks, th[t].pc \in Steps, Takes(t, k),
         QueuesTyped', client' = client, rt'.owned = rt.owned,
         rt'.slot = rt.slot, rt'.down = rt.down,
         \A j \in Tasks \ {k} : Queued(j)' = Queued(j),
         Queued(k)' + 1 = Queued(k)
  PROVE  Inv'
<1>1. /\ t \in Actors /\ t \in DOMAIN th /\ ThreadFits(th[t])
      /\ ActorsFit /\ QueuesTyped /\ TasksInv /\ CoresPlaced
  BY ThreadFacts DEF Inv
<1>2. /\ th[t].pc \notin Scheduling /\ th[t].pc \in CorePlaces
      /\ th[t].pc \notin Holding /\ th[t].pc \in Neutral \ PollPlaces /\ th[t].pc \notin FinishPlaces
  <2>1. /\ th[t].pc \notin Scheduling /\ th[t].pc \in CorePlaces
        /\ th[t].pc \notin FinishPlaces \cup PollPlaces
    BY StepsAre
  <2>2. th[t].pc \notin {"found", "poll", "drop notified"} /\ th[t].pc \in Neutral
    BY DEF Steps, CorePlaces, Neutral
  <2> QED
    BY <2>1, <2>2 DEF Holding
<1>3. Place(t) = th[t].pc /\ PlaceOf(th[t]) = th[t].pc /\ ~At(t, "submit") /\ th[t].cont = "lifo"
      /\ th[t].core # NoWorker
  <2>1. Place(t) = th[t].pc /\ PlaceOf(th[t]) = th[t].pc
    BY <1>2 DEF Place, PlaceOf
  <2> QED
    BY <1>1, <1>2, <2>1 DEF At, ThreadFits, Scheduling
<1>4. ASSUME NEW j PROVE /\ NotifiedShare(t, j) = 0 /\ OtherShare(t, j) = 0
                        /\ Where(t, j) \in Neutral
  BY <1>2, <1>3, FreeIs, NeutralIs DEF Free
<1>5. ASSUME NEW j \in Tasks PROVE Queued(j) \in Nat /\ Queued(j)' \in Nat
  BY <1>1, CountIs, CountIsNext
<1>6. CASE th[t].core \in rt.isSearching
  <2>1. Goes(t, [pc |-> "found", task |-> k, left |-> {}]) /\ tk' = tk
    BY <1>6 DEF Takes
  <2>2. /\ th' = [b \in Actors |-> th'[b]] /\ Same({t}) /\ DOMAIN th'[t] = Fields
        /\ \A b \in Actors \ {t} : th'[b] = th[b]
    BY <1>1, <2>1, GoesOnlyOne DEF Same
  <2>3. /\ "found" \notin Scheduling /\ "found" \in CorePlaces /\ "found" \in ThreadPlaces
        /\ "found" \notin FinishPlaces
    BY DEF Scheduling, CorePlaces, ThreadPlaces, FinishPlaces
  <2>4. /\ th'[t].pc = "found" /\ th'[t].task = k /\ th'[t].core = th[t].core /\ th'[t].cont = "lifo"
        /\ th'[t].left = {} /\ th'[t].drops = FALSE
    BY <1>1, <1>3, <2>1, <2>3 DEF Goes, Unscheduled
  <2>5. Place(t)' = "found" /\ PlaceOf(th'[t]) = "found" /\ ~At(t, "submit")'
    BY <2>3, <2>4 DEF Place, PlaceOf, At
  <2>6. ThreadFits(th[t])'
    BY <1>1, <1>3, <2>2, <2>3, <2>4, <2>5 DEF ThreadFits, Shaped, PlaceOf
  <2>7. ActorsFit'
    BY <1>1, <2>2, <2>6, ThreadMoved
  <2>8. ASSUME NEW j \in Tasks PROVE Kept(t, j)
    <3>1. CASE j = k
      BY <1>4, <1>5, <2>4, <2>5, <3>1, FetchedIs DEF Kept
    <3>2. CASE j # k
      <4>1. Free(t, j)' /\ Where(t, j)' \in Neutral
        BY <2>4, <2>5, <3>2, FreeIs, NeutralIs
      <4> QED
        BY <1>4, <1>5, <3>2, <4>1 DEF Kept, Free
    <3> QED
      BY <3>1, <3>2
  <2>9. TasksInv'
    BY <1>1, <2>1, <2>2, <2>8, TasksKept
  <2>10. CoresPlaced'
    BY <1>1, <2>2, <2>4, CoreKept
  <2> QED
    BY <2>7, <2>9, <2>10 DEF Inv
<1>7. CASE th[t].core \notin rt.isSearching
  <2>1. Run(t, k)
    BY <1>7 DEF Takes
  <2>2. /\ \A j \in Tasks : OtherShare(t, j) = 0 /\ Where(t, j) \in Neutral
        /\ \A j \in Tasks \ {k} : Queued(j)' = Queued(j) + NotifiedShare(t, j)
        /\ Queued(k)' + 1 = Queued(k) + NotifiedShare(t, k)
    BY <1>4, <1>5
  <2>3. ActorsFit' /\ Same({t}) /\ th'[t].core = th[t].core /\ TasksInv'
    BY <1>1, <1>3, <2>1, <2>2, RunStep
  <2>4. CoresPlaced'
    BY <1>1, <2>3, CoreKept
  <2> QED
    BY <2>3, <2>4 DEF Inv
<1> QED
  BY <1>6, <1>7

\* A thread that has fetched a task: what it has in hand.
LEMMA FetchedFacts ==
  ASSUME Inv, NEW t \in Threads, th[t].pc \in {"found", "poll"}
  PROVE  /\ th[t].task \in Tasks /\ th[t].cont = "lifo" /\ Place(t) = th[t].pc /\ ~At(t, "submit")
         /\ \A j \in Tasks : OtherShare(t, j) = 0 /\ Where(t, j) \in Neutral
         /\ NotifiedShare(t, th[t].task) = 1
         /\ \A j \in Tasks \ {th[t].task} : NotifiedShare(t, j) = 0
<1>1. ThreadFits(th[t])
  BY DEF Inv, ActorsFit
<1>2. \A p \in {"found", "poll"} : p \notin Scheduling /\ p \notin FinishPlaces /\ p \in TaskPlaces
  BY DEF Scheduling, FinishPlaces, TaskPlaces
<1>3. Place(t) = th[t].pc /\ PlaceOf(th[t]) = th[t].pc /\ ~At(t, "submit")
  BY <1>2 DEF Place, PlaceOf, At
<1>4. th[t].task \in Tasks /\ th[t].cont = "lifo"
  BY <1>1, <1>2, <1>3 DEF ThreadFits, Shaped
<1>5. /\ NotifiedShare(t, th[t].task) = 1 /\ OtherShare(t, th[t].task) = 0
      /\ Where(t, th[t].task) \in Neutral
  BY <1>3, FetchedIs
<1>6. ASSUME NEW j \in Tasks \ {th[t].task}
      PROVE  Free(t, j) /\ Where(t, j) \in Neutral
  BY <1>3, FreeIs, NeutralIs
<1> QED
  BY <1>3, <1>4, <1>5, <1>6 DEF Free

\* A thread runs the task it has fetched.
LEMMA RunFetched ==
  ASSUME Inv, NEW t \in Threads, th[t].pc \in {"found", "poll"}, Run(t, th[t].task),
         QueuesKept, rt'.slot = rt.slot, rt'.down = rt.down
  PROVE  Inv'
<1>1. /\ ActorsFit /\ QueuesTyped /\ TasksInv /\ CoresPlaced
      /\ QueuesTyped' /\ client' = client /\ rt'.owned = rt.owned
      /\ \A j : Queued(j)' = Queued(j)
  BY QueuesKeptTyped DEF Inv, QueuesKept
<1>2. PICK k \in Tasks : k = th[t].task
  BY FetchedFacts
<1>3. ASSUME NEW j \in Tasks PROVE Queued(j) \in Nat
  BY <1>1, CountIs
<1>4. /\ \A j \in Tasks : OtherShare(t, j) = 0 /\ Where(t, j) \in Neutral
      /\ \A j \in Tasks \ {k} : NotifiedShare(t, j) = 0
      /\ NotifiedShare(t, k) = 1 /\ th[t].cont = "lifo"
  BY <1>2, FetchedFacts
<1>5. /\ \A j \in Tasks \ {k} : Queued(j)' = Queued(j) + NotifiedShare(t, j)
      /\ Queued(k)' + 1 = Queued(k) + NotifiedShare(t, k)
  BY <1>1, <1>3, <1>4
<1>6. ActorsFit' /\ Same({t}) /\ th'[t].core = th[t].core /\ TasksInv'
  BY <1>1, <1>2, <1>4, <1>5, RunStep
<1>7. CoresPlaced'
  BY <1>1, <1>6, CoreKept
<1> QED
  BY <1>1, <1>6, <1>7 DEF Inv

LEMMA PollKeeps ==
  ASSUME Inv, NEW t \in Threads, Poll(t)
  PROVE  Inv'
<1>1. QueuesKept /\ rt'.slot = rt.slot /\ rt'.down = rt.down
  BY DEF Poll, QueuesKept, Inv, QueuesTyped, RtFields
<1> QED
  BY <1>1, RunFetched DEF Poll, At

LEMMA FoundKeeps ==
  ASSUME Inv, NEW t \in Threads, Found(t)
  PROVE  Inv'
<1>1. QueuesKept /\ rt'.slot = rt.slot /\ rt'.down = rt.down
  BY DEF Found, QueuesKept, Inv, QueuesTyped, RtFields
<1>2. CASE rt.searching # 1
  BY <1>1, <1>2, RunFetched DEF Found, At
<1>3. CASE rt.searching = 1
  <2>1. Goes(t, [pc |-> "notify", then |-> "poll"]) /\ tk' = tk /\ th[t].pc = "found"
    BY <1>3 DEF Found, At
  <2>2. /\ th' = [b \in Actors |-> th'[b]] /\ Same({t}) /\ DOMAIN th'[t] = Fields
        /\ \A b \in Actors \ {t} : th'[b] = th[b]
    BY <2>1, GoesOnlyOne, RolesDiffer DEF Inv, Same
  <2>3. /\ "notify" \in Scheduling /\ "poll" \in ThreadPlaces /\ "found" \in CorePlaces
        /\ "poll" \notin CorePlaces \cup FinishPlaces
    BY DEF Scheduling, CorePlaces, ThreadPlaces, FinishPlaces
  <2>4. /\ th'[t].pc = "notify" /\ th'[t].then = "poll" /\ th'[t].task = th[t].task
        /\ th'[t].core = th[t].core /\ th'[t].cont = th[t].cont
        /\ th'[t].left = th[t].left /\ th'[t].drops = th[t].drops
    BY <2>1, <2>3, ThreadFacts DEF Goes
  <2>5. Place(t)' = "poll" /\ PlaceOf(th'[t]) = "poll" /\ ~At(t, "submit")'
    BY <2>3, <2>4 DEF Place, PlaceOf, At
  <2>6. ThreadFits(th[t])'
    BY <1>1, <2>1, <2>2, <2>3, <2>4, <2>5, FetchedFacts, ThreadFacts
       DEF ThreadFits, Shaped, PlaceOf, QueuesKept
  <2>7. ActorsFit'
    BY <1>1, <2>2, <2>6, ThreadMoved DEF Inv, QueuesKept
  <2>8. ASSUME NEW j \in Tasks PROVE Kept(t, j)
    <3>1. Queued(j)' = Queued(j) /\ (j \in rt.owned)' = (j \in rt.owned)
      BY <1>1, QueuesKeptTyped DEF Inv, QueuesKept
    <3>2. CASE j = th[t].task
      BY <2>1, <2>4, <2>5, <3>1, <3>2, FetchedFacts, FetchedIs DEF Kept
    <3>3. CASE j # th[t].task
      <4>1. Free(t, j)' /\ Where(t, j)' \in Neutral
        BY <2>4, <2>5, <3>3, FreeIs, NeutralIs
      <4> QED
        BY <2>1, <3>1, <3>3, <4>1, FetchedFacts DEF Kept, Free
    <3> QED
      BY <3>2, <3>3
  <2>9. TasksInv'
    BY <1>1, <2>1, <2>2, <2>8, TasksKept, QueuesKeptTyped, RolesDiffer DEF Inv
  <2>10. CoresPlaced'
    BY <1>1, <2>2, <2>4, CoreKept DEF Inv, QueuesKept
  <2> QED
    BY <1>1, <2>7, <2>9, <2>10, QueuesKeptTyped DEF Inv
<1> QED
  BY <1>2, <1>3

-----------------------------------------------------------------------------
(* The task a thread takes leaves a queue.                                     *)

\* The first elements of a sequence without the first of all, or the last.
LEMMA OccEnds ==
  ASSUME NEW s \in Seq(Tasks), NEW n \in 1 .. Len(s), NEW k
  PROVE  /\ s[1] \in Tasks /\ s[n] \in Tasks /\ Head(s) = s[1]
         /\ SubSeq(s, 2, n) \in Seq(Tasks) /\ SubSeq(s, 1, n - 1) \in Seq(Tasks)
         /\ Occ(SubSeq(s, 1, n), k) = (IF s[1] = k THEN 1 ELSE 0) + Occ(SubSeq(s, 2, n), k)
         /\ Occ(SubSeq(s, 1, n), k) = (IF s[n] = k THEN 1 ELSE 0) + Occ(SubSeq(s, 1, n - 1), k)
<1> DEFINE p == SubSeq(s, 1, n)
           q == SubSeq(s, 2, n)
           r == SubSeq(s, 1, n - 1)
           u == << s[1] >>
           v == << s[n] >>
<1>1. Len(s) \in Nat /\ n \in Int /\ 1 \in 1 .. Len(s)
  BY LenProperties
<1>2. /\ s[1] \in Tasks /\ s[n] \in Tasks /\ u \in Seq(Tasks) /\ v \in Seq(Tasks)
      /\ \A i \in 1 .. Len(s) : s[i] \in Tasks
  BY <1>1, ElementOfSeq
<1>3. p \in Seq(Tasks) /\ q \in Seq(Tasks) /\ r \in Seq(Tasks)
  <2>1. /\ \A i \in 1 .. n : s[i] \in Tasks
        /\ \A i \in 2 .. n : s[i] \in Tasks
        /\ \A i \in 1 .. n - 1 : s[i] \in Tasks
    BY <1>1, <1>2
  <2>2. p \in Seq(Tasks)
    BY <1>1, <2>1, SubSeqProperties
  <2>3. q \in Seq(Tasks)
    BY <1>1, <2>1, SubSeqProperties
  <2>4. r \in Seq(Tasks)
    BY <1>1, <2>1, SubSeqProperties
  <2> QED
    BY <2>2, <2>3, <2>4
<1>4. 1 \in 1 .. Len(s) /\ n \in 1 .. Len(s) /\ 1 + 1 = 2
  BY <1>1
<1>5. p = u \o q
  BY <1>4, SubSeqRecursiveFirst
<1>6. p = r \o v
  BY <1>4, SubSeqRecursiveSecond
<1>7. Occ(u, k) = (IF s[1] = k THEN 1 ELSE 0) /\ Occ(v, k) = (IF s[n] = k THEN 1 ELSE 0)
  BY OccOne
<1>8. Head(s) = s[1]
  BY <1>1
<1> HIDE DEF p, q, r, u, v
<1>9. Occ(p, k) = Occ(u, k) + Occ(q, k)
  BY <1>2, <1>3, <1>5, OccConcat
<1>10. Occ(p, k) = Occ(r, k) + Occ(v, k)
  BY <1>2, <1>3, <1>6, OccConcat
<1>11. Occ(r, k) \in Nat /\ Occ(v, k) \in Nat
  BY <1>2, <1>3, OccType
<1>12. /\ Occ(p, k) = (IF s[1] = k THEN 1 ELSE 0) + Occ(q, k)
       /\ Occ(p, k) = (IF s[n] = k THEN 1 ELSE 0) + Occ(r, k)
  BY <1>7, <1>9, <1>10, <1>11
<1> QED
  BY <1>2, <1>3, <1>8, <1>12 DEF p, q, r

\* What is queued, as a sum over the kinds of queues.
LEMMA QueuedSum ==
  ASSUME QueuesTyped, NEW k
  PROVE  /\ Queued(k) = Cardinality(Slots(rt.lifo, k)) + Cardinality(Rows(rt.runq, k))
                        + Occ(rt.inject, k)
         /\ Cardinality(Slots(rt.lifo, k)) \in Nat /\ Cardinality(Rows(rt.runq, k)) \in Nat
         /\ Occ(rt.inject, k) \in Nat
<1>1. rt.runq \in [Workers -> Seq(Tasks)] /\ rt.inject \in Seq(Tasks)
  BY DEF QueuesTyped
<1> QED
  BY <1>1, QueuedIs, SlotsType, RowsType, OccType DEF Count

LEMMA QueuedSumNext ==
  ASSUME NEW k
  PROVE  (QueuesTyped =>
            /\ Queued(k) = Cardinality(Slots(rt.lifo, k)) + Cardinality(Rows(rt.runq, k))
                           + Occ(rt.inject, k)
            /\ Cardinality(Slots(rt.lifo, k)) \in Nat /\ Cardinality(Rows(rt.runq, k)) \in Nat
            /\ Occ(rt.inject, k) \in Nat)'
<1>1. QueuesTyped =>
        /\ Queued(k) = Cardinality(Slots(rt.lifo, k)) + Cardinality(Rows(rt.runq, k))
                       + Occ(rt.inject, k)
        /\ Cardinality(Slots(rt.lifo, k)) \in Nat /\ Cardinality(Rows(rt.runq, k)) \in Nat
        /\ Occ(rt.inject, k) \in Nat
  BY QueuedSum
<1> QED
  BY <1>1, PTL

\* One Notified of the task k leaves the queues, and none of another task.
Leaves(k) ==
  /\ QueuesTyped' /\ client' = client /\ rt'.owned = rt.owned
  /\ rt'.slot = rt.slot /\ rt'.down = rt.down
  /\ \A j \in Tasks \ {k} : Queued(j)' = Queued(j)
  /\ Queued(k)' + 1 = Queued(k)

\* The task in the LIFO slot.
LEMMA LifoLeaves ==
  ASSUME QueuesTyped, NEW w \in Workers, NEW k \in Tasks, rt.lifo[w] = k,
         rt' = [rt EXCEPT !.lifo[w] = NoTask], client' = client
  PROVE  Leaves(k)
<1>1. QueuesTyped' /\ rt'.owned = rt.owned /\ rt'.slot = rt.slot /\ rt'.down = rt.down
  BY DEF QueuesTyped, RtFields
<1>2. rt'.lifo = [rt.lifo EXCEPT ![w] = NoTask] /\ rt'.runq = rt.runq /\ rt'.inject = rt.inject
  BY DEF QueuesTyped, RtFields
<1>3. rt.lifo \in [Workers -> Tasks \cup {NoTask}] /\ NoTask \notin Tasks
  BY ActorsAssumption DEF QueuesTyped
<1>4. ASSUME NEW j \in Tasks
      PROVE  Cardinality(Slots(rt'.lifo, j)) = Cardinality(Slots(rt.lifo, j)) - IF k = j THEN 1 ELSE 0
  <2> DEFINE l == rt.lifo
           m == rt'.lifo
  <2>1. l \in [Workers -> Tasks \cup {NoTask}] /\ l[w] = k /\ m[w] = NoTask
        /\ \A v \in Workers \ {w} : m[v] = l[v]
    BY <1>2, <1>3
  <2> HIDE DEF l, m
  <2>2. Cardinality(Slots(m, j))
           = Cardinality(Slots(l, j)) - (IF l[w] = j THEN 1 ELSE 0) + (IF NoTask = j THEN 1 ELSE 0)
    BY <2>1, SlotsSet
  <2>3. Cardinality(Slots(l, j)) \in Nat
    BY SlotsType
  <2>4. Cardinality(Slots(m, j)) = Cardinality(Slots(l, j)) - IF k = j THEN 1 ELSE 0
    BY <1>3, <2>1, <2>2, <2>3
  <2> QED
    BY <2>4 DEF l, m
<1>5. ASSUME NEW j \in Tasks
      PROVE  Queued(j)' = Queued(j) - IF k = j THEN 1 ELSE 0
  BY <1>1, <1>2, <1>4, QueuedSum, QueuedSumNext
<1>6. ASSUME NEW j \in Tasks PROVE Queued(j) \in Nat
  BY CountIs
<1> QED
  BY <1>1, <1>5, <1>6 DEF Leaves

\* From the sums over the queues to what leaves them.
LEMMA SumLeaves ==
  ASSUME QueuesTyped, QueuesTyped', NEW k \in Tasks, client' = client, rt'.owned = rt.owned,
         rt'.slot = rt.slot, rt'.down = rt.down, rt'.lifo = rt.lifo,
         \A j \in Tasks :
            Cardinality(Rows(rt'.runq, j)) + Occ(rt'.inject, j) + (IF k = j THEN 1 ELSE 0)
              = Cardinality(Rows(rt.runq, j)) + Occ(rt.inject, j)
  PROVE  Leaves(k)
<1>1. ASSUME NEW j \in Tasks
      PROVE  /\ Queued(j) \in Nat /\ Queued(j)' \in Nat
             /\ Queued(j)' + (IF k = j THEN 1 ELSE 0) = Queued(j)
  <2>1. /\ Cardinality(Slots(rt'.lifo, j)) = Cardinality(Slots(rt.lifo, j))
        /\ Queued(j) \in Nat /\ Queued(j)' \in Nat
    BY CountIs, CountIsNext
  <2>2. /\ Queued(j) = Cardinality(Slots(rt.lifo, j)) + Cardinality(Rows(rt.runq, j))
                       + Occ(rt.inject, j)
        /\ Cardinality(Slots(rt.lifo, j)) \in Nat /\ Cardinality(Rows(rt.runq, j)) \in Nat
        /\ Occ(rt.inject, j) \in Nat
    BY QueuedSum
  <2>3. /\ Queued(j)' = Cardinality(Slots(rt'.lifo, j)) + Cardinality(Rows(rt'.runq, j))
                       + Occ(rt'.inject, j)
        /\ Cardinality(Slots(rt'.lifo, j)) \in Nat /\ Cardinality(Rows(rt'.runq, j)) \in Nat
        /\ Occ(rt'.inject, j) \in Nat
    BY QueuedSumNext
  <2>4. Cardinality(Rows(rt'.runq, j)) + Occ(rt'.inject, j) + (IF k = j THEN 1 ELSE 0)
              = Cardinality(Rows(rt.runq, j)) + Occ(rt.inject, j)
    OBVIOUS
  <2> QED
    BY <2>1, <2>2, <2>3, <2>4
<1> QED
  BY <1>1 DEF Leaves

\* The head of a run queue.
LEMMA HeadLeaves ==
  ASSUME QueuesTyped, NEW w \in Workers, NEW k \in Tasks, rt.runq[w] # << >>,
         Head(rt.runq[w]) = k, rt' = [rt EXCEPT !.runq[w] = Tail(@)], client' = client
  PROVE  Leaves(k)
<1> DEFINE q == rt.runq
           p == rt'.runq
           s == Tail(rt.runq[w])
<1>1. q \in [Workers -> Seq(Tasks)] /\ q[w] \in Seq(Tasks) /\ q[w] # << >> /\ Head(q[w]) = k
      /\ s = Tail(q[w])
  BY DEF QueuesTyped
<1>2. /\ DOMAIN rt' = RtFields /\ rt'.lifo = rt.lifo /\ rt'.inject = rt.inject
      /\ rt'.owned = rt.owned /\ rt'.slot = rt.slot /\ rt'.down = rt.down
      /\ p = [q EXCEPT ![w] = s]
  BY <1>1 DEF QueuesTyped, RtFields
<1> HIDE DEF q, p, s
<1>3. s \in Seq(Tasks) /\ \A j : Occ(q[w], j) = (IF k = j THEN 1 ELSE 0) + Occ(s, j)
  BY <1>1, OccHead
<1>4. p \in [Workers -> Seq(Tasks)] /\ p[w] = s /\ \A v \in Workers \ {w} : p[v] = q[v]
  BY <1>1, <1>2, <1>3
<1>5. QueuesTyped'
  BY <1>2, <1>4 DEF QueuesTyped, p
<1>6. RowSet(q, p, w, s)
  BY <1>1, <1>3, <1>4 DEF RowSet
<1>7. ASSUME NEW j \in Tasks
      PROVE  Cardinality(Rows(rt'.runq, j)) + Occ(rt'.inject, j) + (IF k = j THEN 1 ELSE 0)
               = Cardinality(Rows(rt.runq, j)) + Occ(rt.inject, j)
  <2>1. Occ(rt'.inject, j) = Occ(rt.inject, j) /\ Occ(rt.inject, j) \in Nat
    BY <1>2, OccType DEF QueuesTyped
  <2>2. /\ Cardinality(Rows(p, j)) = Cardinality(Rows(q, j)) - Occ(q[w], j) + Occ(s, j)
        /\ Cardinality(Rows(p, j)) \in Nat /\ Cardinality(Rows(q, j)) \in Nat
        /\ Occ(q[w], j) \in Nat /\ Occ(s, j) \in Nat
    BY <1>6, RowsSet
  <2>3. Occ(q[w], j) = (IF k = j THEN 1 ELSE 0) + Occ(s, j)
    BY <1>3
  <2>4. Cardinality(Rows(p, j)) + (IF k = j THEN 1 ELSE 0) = Cardinality(Rows(q, j))
    BY <2>2, <2>3
  <2>5. Cardinality(Rows(p, j)) + Occ(rt.inject, j) + (IF k = j THEN 1 ELSE 0)
          = Cardinality(Rows(q, j)) + Occ(rt.inject, j)
    BY <2>1, <2>2, <2>4
  <2> QED
    BY <2>1, <2>5 DEF q, p
<1> QED
  BY <1>2, <1>5, <1>7, SumLeaves

\* Tasks are added to a run queue.
LEMMA RowJoined ==
  ASSUME NEW q, NEW p, NEW w \in Workers, NEW m \in Seq(Tasks), RowSet(q, p, w, q[w] \o m), NEW j
  PROVE  /\ Cardinality(Rows(p, j)) = Cardinality(Rows(q, j)) + Occ(m, j)
         /\ Cardinality(Rows(p, j)) \in Nat /\ Cardinality(Rows(q, j)) \in Nat
         /\ Occ(m, j) \in Nat
<1> DEFINE s == q[w] \o m
<1>1. RowSet(q, p, w, s) /\ q[w] \in Seq(Tasks)
  BY DEF RowSet
<1>2. Occ(s, j) = Occ(q[w], j) + Occ(m, j) /\ Occ(m, j) \in Nat
  BY <1>1, OccConcat, OccType
<1> HIDE DEF s
<1>3. /\ Cardinality(Rows(p, j)) = Cardinality(Rows(q, j)) - Occ(q[w], j) + Occ(s, j)
      /\ Cardinality(Rows(p, j)) \in Nat /\ Cardinality(Rows(q, j)) \in Nat
      /\ Occ(q[w], j) \in Nat /\ Occ(s, j) \in Nat
  BY <1>1, RowsSet
<1> QED
  BY <1>2, <1>3

\* The first n tasks leave a run queue.
LEMMA RowCut ==
  ASSUME NEW q, NEW p, NEW w \in Workers, NEW n \in 1 .. Len(q[w]),
         RowSet(q, p, w, SubSeq(q[w], n + 1, Len(q[w]))), NEW j
  PROVE  /\ Cardinality(Rows(p, j)) + Occ(SubSeq(q[w], 1, n), j) = Cardinality(Rows(q, j))
         /\ Cardinality(Rows(p, j)) \in Nat /\ Cardinality(Rows(q, j)) \in Nat
         /\ Occ(SubSeq(q[w], 1, n), j) \in Nat
<1> DEFINE x == q[w]
           y == SubSeq(x, 1, n)
           z == SubSeq(x, n + 1, Len(x))
<1>1. RowSet(q, p, w, z) /\ x \in Seq(Tasks)
  BY DEF RowSet
<1>2. n \in 0 .. Len(x)
  BY <1>1, LenProperties
<1>3. y \in Seq(Tasks) /\ z \in Seq(Tasks) /\ Occ(x, j) = Occ(y, j) + Occ(z, j)
  <2> HIDE DEF x
  <2> QED
    BY <1>1, <1>2, OccSplit
<1> HIDE DEF y, z
<1>4. Occ(y, j) \in Nat
  BY <1>3, OccType
<1>5. /\ Cardinality(Rows(p, j)) = Cardinality(Rows(q, j)) - Occ(x, j) + Occ(z, j)
      /\ Cardinality(Rows(p, j)) \in Nat /\ Cardinality(Rows(q, j)) \in Nat
      /\ Occ(x, j) \in Nat /\ Occ(z, j) \in Nat
  BY <1>1, RowsSet
<1>6. Cardinality(Rows(p, j)) + Occ(y, j) = Cardinality(Rows(q, j))
  BY <1>3, <1>4, <1>5
<1> QED
  BY <1>4, <1>5, <1>6 DEF y, x

\* The head of a sequence, and what follows it up to n goes to a run queue.
LEMMA ShareCount ==
  ASSUME NEW q, NEW p, NEW w \in Workers, NEW i \in Seq(Tasks), NEW n \in 1 .. Len(i),
         RowSet(q, p, w, q[w] \o SubSeq(i, 2, n)), NEW j
  PROVE  Cardinality(Rows(p, j)) + Occ(SubSeq(i, n + 1, Len(i)), j) + (IF Head(i) = j THEN 1 ELSE 0)
           = Cardinality(Rows(q, j)) + Occ(i, j)
<1> DEFINE m == SubSeq(i, 2, n)
           y == SubSeq(i, 1, n)
           z == SubSeq(i, n + 1, Len(i))
           c == IF Head(i) = j THEN 1 ELSE 0
<1>1. n \in 0 .. Len(i) /\ c \in Nat
  BY LenProperties
<1>2. m \in Seq(Tasks) /\ Occ(y, j) = c + Occ(m, j)
  BY OccEnds
<1>3. z \in Seq(Tasks) /\ Occ(i, j) = Occ(y, j) + Occ(z, j)
  BY <1>1, OccSplit
<1>4. RowSet(q, p, w, q[w] \o m)
  OBVIOUS
<1> HIDE DEF m, y, z, c
<1>5. /\ Cardinality(Rows(p, j)) = Cardinality(Rows(q, j)) + Occ(m, j)
      /\ Cardinality(Rows(q, j)) \in Nat /\ Occ(m, j) \in Nat
  BY <1>2, <1>4, RowJoined
<1>6. Occ(z, j) \in Nat
  BY <1>3, OccType
<1>7. Cardinality(Rows(p, j)) + Occ(z, j) + c = Cardinality(Rows(q, j)) + Occ(i, j)
  BY <1>1, <1>2, <1>3, <1>5, <1>6
<1> QED
  BY <1>7 DEF z, c

\* The head of the injection queue, and what follows it goes to a run queue.
LEMMA ShareLeaves ==
  ASSUME QueuesTyped, NEW w \in Workers, NEW k \in Tasks, Head(rt.inject) = k,
         NEW n \in 1 .. Len(rt.inject),
         rt' = [rt EXCEPT !.inject = SubSeq(@, n + 1, Len(@)),
                          !.runq[w] = @ \o SubSeq(rt.inject, 2, n)],
         client' = client
  PROVE  Leaves(k)
<1> DEFINE i == rt.inject
           q == rt.runq
           p == rt'.runq
           s == q[w] \o SubSeq(i, 2, n)
           z == SubSeq(i, n + 1, Len(i))
<1>1. /\ p = [q EXCEPT ![w] = s] /\ rt'.inject = z /\ DOMAIN rt' = RtFields /\ rt'.lifo = rt.lifo
      /\ rt'.owned = rt.owned /\ rt'.slot = rt.slot /\ rt'.down = rt.down
  BY DEF QueuesTyped, RtFields
<1>2. q \in [Workers -> Seq(Tasks)] /\ q[w] \in Seq(Tasks) /\ i \in Seq(Tasks)
      /\ n \in 1 .. Len(i) /\ Head(i) = k
  BY DEF QueuesTyped
<1> HIDE DEF i, q, p
<1>3. SubSeq(i, 2, n) \in Seq(Tasks) /\ z \in Seq(Tasks)
  BY <1>2, OccEnds, OccSplit, LenProperties
<1>4. s \in Seq(Tasks)
  BY <1>2, <1>3
<1>5. RowSet(q, p, w, s)
  BY <1>1, <1>2, <1>4 DEF RowSet
<1>6. QueuesTyped'
  BY <1>1, <1>3, <1>5 DEF QueuesTyped, RowSet, p
<1>7. ASSUME NEW j \in Tasks
      PROVE  Cardinality(Rows(p, j)) + Occ(z, j) + (IF k = j THEN 1 ELSE 0)
               = Cardinality(Rows(q, j)) + Occ(i, j)
  BY <1>2, <1>5, ShareCount
<1>8. \A j \in Tasks :
         Cardinality(Rows(rt'.runq, j)) + Occ(rt'.inject, j) + (IF k = j THEN 1 ELSE 0)
           = Cardinality(Rows(rt.runq, j)) + Occ(rt.inject, j)
  BY <1>1, <1>7 DEF i, q, p
<1> QED
  BY <1>1, <1>6, <1>8, SumLeaves

LEMMA InjectLeaves ==
  ASSUME QueuesTyped, NEW k \in Tasks, rt.inject # << >>, Head(rt.inject) = k,
         rt' = [rt EXCEPT !.inject = Tail(@)], client' = client
  PROVE  Leaves(k)
<1>1. rt.inject \in Seq(Tasks)
  BY DEF QueuesTyped
<1>2. /\ rt'.inject = Tail(rt.inject) /\ DOMAIN rt' = RtFields /\ rt'.lifo = rt.lifo
      /\ rt'.runq = rt.runq
      /\ rt'.owned = rt.owned /\ rt'.slot = rt.slot /\ rt'.down = rt.down
  BY DEF QueuesTyped, RtFields
<1>3. \A j : /\ Tail(rt.inject) \in Seq(Tasks)
             /\ Occ(rt.inject, j) = (IF k = j THEN 1 ELSE 0) + Occ(Tail(rt.inject), j)
  BY <1>1, OccHead
<1>4. QueuesTyped'
  BY <1>2, <1>3 DEF QueuesTyped
<1>5. ASSUME NEW j \in Tasks
      PROVE  Cardinality(Rows(rt'.runq, j)) + Occ(rt'.inject, j) + (IF k = j THEN 1 ELSE 0)
               = Cardinality(Rows(rt.runq, j)) + Occ(rt.inject, j)
  <2>1. Cardinality(Rows(rt'.runq, j)) \in Nat /\ Occ(rt'.inject, j) \in Nat
    BY <1>4, QueuedSumNext
  <2>2. Cardinality(Rows(rt'.runq, j)) = Cardinality(Rows(rt.runq, j))
    BY <1>2
  <2>3. Occ(rt.inject, j) = (IF k = j THEN 1 ELSE 0) + Occ(rt'.inject, j)
    BY <1>2, <1>3
  <2> QED
    BY <2>1, <2>2, <2>3
<1> QED
  BY <1>2, <1>4, <1>5, SumLeaves

\* The n-th task of a run queue, and those before it go to another.
LEMMA RaidCount ==
  ASSUME NEW q, NEW f, NEW p, NEW w \in Workers, NEW v \in Workers, NEW n \in 1 .. Len(q[v]),
         RowSet(q, f, v, SubSeq(q[v], n + 1, Len(q[v]))),
         RowSet(f, p, w, f[w] \o SubSeq(q[v], 1, n - 1)), NEW j
  PROVE  /\ Cardinality(Rows(p, j)) + (IF q[v][n] = j THEN 1 ELSE 0) = Cardinality(Rows(q, j))
         /\ Cardinality(Rows(p, j)) \in Nat /\ Cardinality(Rows(q, j)) \in Nat
<1> DEFINE x == q[v]
           y == SubSeq(x, 1, n)
           m == SubSeq(x, 1, n - 1)
           c == IF x[n] = j THEN 1 ELSE 0
<1>1. /\ Cardinality(Rows(f, j)) + Occ(y, j) = Cardinality(Rows(q, j))
      /\ Cardinality(Rows(f, j)) \in Nat /\ Cardinality(Rows(q, j)) \in Nat
      /\ Occ(y, j) \in Nat
  BY RowCut
<1>2. x \in Seq(Tasks) /\ c \in Nat
  BY DEF RowSet
<1>3. m \in Seq(Tasks) /\ Occ(y, j) = c + Occ(m, j)
  <2>1. n \in 1 .. Len(x)
    OBVIOUS
  <2> HIDE DEF x
  <2> QED
    BY <1>2, <2>1, OccEnds
<1>4. RowSet(f, p, w, f[w] \o m)
  OBVIOUS
<1> HIDE DEF y, m, c
<1>5. /\ Cardinality(Rows(p, j)) = Cardinality(Rows(f, j)) + Occ(m, j)
      /\ Cardinality(Rows(p, j)) \in Nat /\ Occ(m, j) \in Nat
  BY <1>3, <1>4, RowJoined
<1>6. Cardinality(Rows(p, j)) + c = Cardinality(Rows(q, j))
  BY <1>1, <1>2, <1>3, <1>5
<1> QED
  BY <1>1, <1>5, <1>6 DEF c, x

\* One queue is set and then tasks are added to one.
LEMMA RowsTwice ==
  ASSUME NEW q \in [Workers -> Seq(Tasks)], NEW v \in Workers, NEW w \in Workers,
         NEW z \in Seq(Tasks), NEW m \in Seq(Tasks), NEW f, f = [q EXCEPT ![v] = z],
         NEW p, p = [f EXCEPT ![w] = @ \o m]
  PROVE  RowSet(q, f, v, z) /\ RowSet(f, p, w, f[w] \o m)
<1>1. f \in [Workers -> Seq(Tasks)] /\ f[v] = z /\ \A u \in Workers \ {v} : f[u] = q[u]
  OBVIOUS
<1>2. f[w] \o m \in Seq(Tasks)
  BY <1>1
<1>3. p \in [Workers -> Seq(Tasks)] /\ p[w] = f[w] \o m /\ \A u \in Workers \ {w} : p[u] = f[u]
  BY <1>1, <1>2
<1> QED
  BY <1>1, <1>2, <1>3 DEF RowSet

LEMMA RaidLeaves ==
  ASSUME QueuesTyped, NEW w \in Workers, NEW v \in Workers,
         NEW n \in 1 .. Len(rt.runq[v]), NEW f, NEW g,
         RowSet(rt.runq, f, v, SubSeq(rt.runq[v], n + 1, Len(rt.runq[v]))),
         RowSet(f, g, w, f[w] \o SubSeq(rt.runq[v], 1, n - 1)),
         rt' = [rt EXCEPT !.runq = g], client' = client
  PROVE  Leaves(rt.runq[v][n])
<1> DEFINE k == rt.runq[v][n]
<1>1. k \in Tasks
  <2>1. rt.runq[v] \in Seq(Tasks)
    BY DEF QueuesTyped
  <2> QED
    BY <2>1, ElementOfSeq
<1>2. /\ rt'.runq = g /\ DOMAIN rt' = RtFields /\ rt'.lifo = rt.lifo /\ rt'.inject = rt.inject
      /\ rt'.owned = rt.owned /\ rt'.slot = rt.slot /\ rt'.down = rt.down
  BY DEF QueuesTyped, RtFields
<1>3. QueuesTyped'
  BY <1>2 DEF QueuesTyped, RowSet
<1>4. ASSUME NEW j \in Tasks
      PROVE  /\ Cardinality(Rows(g, j)) + (IF k = j THEN 1 ELSE 0) = Cardinality(Rows(rt.runq, j))
             /\ Cardinality(Rows(g, j)) \in Nat /\ Cardinality(Rows(rt.runq, j)) \in Nat
  BY RaidCount
<1> HIDE DEF k
<1>5. ASSUME NEW j \in Tasks
      PROVE  Cardinality(Rows(rt'.runq, j)) + Occ(rt'.inject, j) + (IF k = j THEN 1 ELSE 0)
               = Cardinality(Rows(rt.runq, j)) + Occ(rt.inject, j)
  <2> DEFINE c == IF k = j THEN 1 ELSE 0
  <2>1. Occ(rt.inject, j) \in Nat
    BY QueuedSum
  <2>2. c \in Nat
    OBVIOUS
  <2>3. /\ Cardinality(Rows(g, j)) + c = Cardinality(Rows(rt.runq, j))
        /\ Cardinality(Rows(g, j)) \in Nat /\ Cardinality(Rows(rt.runq, j)) \in Nat
    BY <1>4
  <2> HIDE DEF c
  <2>4. Cardinality(Rows(g, j)) + Occ(rt.inject, j) + c
          = Cardinality(Rows(rt.runq, j)) + Occ(rt.inject, j)
    BY <2>1, <2>2, <2>3
  <2> QED
    BY <1>2, <2>4 DEF c
<1>6. Leaves(k)
  BY <1>1, <1>2, <1>3, <1>5, SumLeaves
<1> QED
  BY <1>6 DEF k

\* A thread in a step of its worker has the core of a worker.
LEMMA CoreOf ==
  ASSUME Inv, NEW t \in Threads, th[t].pc \in Steps
  PROVE  th[t].core \in client.workers /\ th[t].core \in Workers /\ th[t].cont = "lifo"
<1>1. th[t].pc \notin Scheduling /\ th[t].pc \in CorePlaces /\ th[t].pc \notin FinishPlaces
  BY StepsAre
<1>2. PlaceOf(th[t]) = th[t].pc
  BY <1>1 DEF PlaceOf
<1>3. /\ ThreadFits(th[t]) /\ th[t].core \in client.workers \cup {NoWorker}
      /\ client.workers \subseteq Workers
  BY ThreadFacts
<1> QED
  BY <1>1, <1>2, <1>3 DEF ThreadFits

LEMMA TakeLeaves ==
  ASSUME Inv, NEW t \in Threads, NEW k \in Tasks, th[t].pc \in Steps, Takes(t, k), Leaves(k)
  PROVE  Inv'
BY TakesKeeps DEF Leaves

LEMMA TakeLocalKeeps ==
  ASSUME Inv, NEW t \in Threads, TakeLocal(t)
  PROVE  Inv'
<1>1. th[t].pc \in {"next", "top", "next local"} /\ client' = client
  BY DEF TakeLocal, Nexts, At
<1>2. th[t].pc \in Steps
  BY <1>1 DEF Steps, CorePlaces
<1>3. PICK w \in Workers : w = th[t].core
  BY <1>2, CoreOf
<1>4. QueuesTyped
  BY DEF Inv
<1>5. CASE rt.lifo[w] # NoTask
  <2>1. PICK k \in Tasks : k = rt.lifo[w]
    BY <1>4, <1>5 DEF QueuesTyped
  <2>2. Takes(t, k) /\ rt' = [rt EXCEPT !.lifo[w] = NoTask]
    BY <1>3, <1>5, <2>1 DEF TakeLocal
  <2>3. Leaves(k)
    BY <1>1, <1>4, <2>1, <2>2, LifoLeaves
  <2> QED
    BY <1>2, <2>2, <2>3, TakeLeaves
<1>6. CASE rt.lifo[w] = NoTask
  <2>1. rt.runq[w] \in Seq(Tasks) /\ rt.runq[w] # << >>
    BY <1>3, <1>4, <1>6 DEF QueuesTyped, TakeLocal
  <2>2. PICK k \in Tasks : k = Head(rt.runq[w])
    BY <2>1
  <2>3. Takes(t, k) /\ rt' = [rt EXCEPT !.runq[w] = Tail(@)]
    BY <1>3, <1>6, <2>2 DEF TakeLocal
  <2>4. Leaves(k)
    BY <1>1, <1>4, <2>1, <2>2, <2>3, HeadLeaves
  <2> QED
    BY <1>2, <2>3, <2>4, TakeLeaves
<1> QED
  BY <1>5, <1>6

\* The lesser of two numbers.
LEMMA MinOfTwo ==
  ASSUME NEW a \in Nat, NEW b \in Nat
  PROVE  Min({a, b}) \in {a, b} /\ Min({a, b}) <= a /\ Min({a, b}) <= b
<1>1. \E x \in {a, b} : \A y \in {a, b} : x <= y
  BY a <= b \/ b <= a
<1> QED
  BY <1>1 DEF Min

LEMMA TakeInjectedKeeps ==
  ASSUME Inv, NEW t \in Threads, TakeInjected(t)
  PROVE  Inv'
<1> DEFINE L == Len(rt.inject)
           share == Min({L \div N + 1, L})
<1>1. th[t].pc \in {"next", "top"} /\ client' = client /\ rt.inject # << >>
  BY DEF TakeInjected, Nexts, At
<1>2. th[t].pc \in Steps
  BY <1>1 DEF Steps, CorePlaces
<1>3. PICK w \in Workers : w = th[t].core
  BY <1>2, CoreOf
<1>4. QueuesTyped /\ rt.inject \in Seq(Tasks)
  BY DEF Inv, QueuesTyped
<1>5. PICK k \in Tasks : k = Head(rt.inject)
  BY <1>1, <1>4
<1>6. L \in Nat /\ L >= 1
  BY <1>1, <1>4, EmptySeq, LenProperties
<1>7. N \in Nat /\ N >= 1
  <2>1. w \in client.workers /\ client.workers \subseteq Workers
    BY <1>2, <1>3, CoreOf, ThreadFacts
  <2>2. IsFiniteSet(client.workers)
    BY <2>1, ActorsAssumption, FS_Subset
  <2> QED
    BY <2>1, <2>2, FS_EmptySet, FS_CardinalityType DEF N
<1>8. share \in 1 .. L
  <2> HIDE DEF L
  <2>1. L \div N \in Nat
    BY <1>6, <1>7
  <2>2. L \div N + 1 \in Nat /\ L \div N + 1 >= 1
    BY <2>1
  <2>3. share \in {L \div N + 1, L} /\ share <= L
    BY <1>6, <2>2, MinOfTwo
  <2> QED
    BY <1>6, <2>2, <2>3
<1>9. PICK n \in {1} \cup {share} :
         rt' = [rt EXCEPT !.inject = SubSeq(@, n + 1, Len(@)),
                          !.runq[w] = @ \o SubSeq(rt.inject, 2, n)]
  BY <1>3 DEF TakeInjected
<1>10. n \in 1 .. Len(rt.inject)
  BY <1>6, <1>8
<1>11. Takes(t, k)
  BY <1>5 DEF TakeInjected
<1>12. Leaves(k)
  BY <1>1, <1>4, <1>5, <1>9, <1>10, ShareLeaves
<1> QED
  BY <1>2, <1>11, <1>12, TakeLeaves

LEMMA RaidKeeps ==
  ASSUME Inv, NEW t \in Threads, Raid(t)
  PROVE  Inv'
<1>1. th[t].pc = "raid" /\ client' = client
  BY DEF Raid, At
<1>2. th[t].pc \in Steps
  BY <1>1 DEF Steps, CorePlaces
<1>3. PICK w \in Workers : w = th[t].core
  BY <1>2, CoreOf
<1>4. QueuesTyped /\ rt.runq \in [Workers -> Seq(Tasks)] /\ th[t].left \subseteq Workers
  BY ThreadFacts DEF Inv, QueuesTyped
<1> DEFINE n(v) == Len(rt.runq[v]) - Len(rt.runq[v]) \div 2
           f(v) == [rt.runq EXCEPT ![v] = SubSeq(rt.runq[v], n(v) + 1, Len(rt.runq[v]))]
           g(v) == [f(v) EXCEPT ![w] = @ \o SubSeq(rt.runq[v], 1, n(v) - 1)]
<1>5. PICK v \in th[t].left :
        IF rt.runq[v] = << >> THEN Goes(t, [left |-> th[t].left \ {v}]) /\ UNCHANGED <<rt, tk>>
        ELSE Takes(t, rt.runq[v][n(v)]) /\ rt' = [rt EXCEPT !.runq = g(v)]
  BY <1>3 DEF Raid
<1>6. CASE rt.runq[v] = << >>
  <2>1. Goes(t, [left |-> th[t].left \ {v}]) /\ rt' = rt /\ tk' = tk
    BY <1>5, <1>6
  <2>2. Walks(t)
    <3>1. th[t].left \ {v} \in SUBSET Workers
      BY <1>4
    <3> QED
      BY <1>2, <2>1, <3>1, WalkTo
  <2>3. /\ th' = [b \in Actors |-> th'[b]] /\ Same({t}) /\ DOMAIN th'[t] = Fields
    BY <2>1, GoesOnlyOne, RolesDiffer DEF Inv
  <2> QED
    BY <1>1, <2>1, <2>2, <2>3, WalkKeeps DEF QueuesKept
<1>7. CASE rt.runq[v] # << >>
  <2> DEFINE q == rt.runq[v]
             z == SubSeq(q, n(v) + 1, Len(q))
             m == SubSeq(q, 1, n(v) - 1)
  <2>1. v \in Workers /\ q \in Seq(Tasks) /\ q # << >>
    BY <1>4, <1>7
  <2>2. n(v) \in 1 .. Len(q)
    <3> DEFINE L == Len(q)
    <3>1. L \in Nat /\ L >= 1
      <4> HIDE DEF q
      <4> QED
        BY <2>1, EmptySeq, LenProperties
    <3> HIDE DEF L
    <3>2. L - L \div 2 \in 1 .. L
      BY <3>1
    <3> QED
      BY <3>2 DEF L
  <2>3. z \in Seq(Tasks) /\ m \in Seq(Tasks)
    <3> DEFINE i == n(v)
    <3>1. i \in 1 .. Len(q)
      BY <2>2
    <3> HIDE DEF q, i
    <3>2. i \in 0 .. Len(q)
      BY <2>1, <3>1, LenProperties
    <3>3. SubSeq(q, i + 1, Len(q)) \in Seq(Tasks) /\ SubSeq(q, 1, i - 1) \in Seq(Tasks)
      BY <2>1, <3>1, <3>2, OccEnds, OccSplit
    <3> QED
      BY <3>3 DEF i
  <2>4. RowSet(rt.runq, f(v), v, z) /\ RowSet(f(v), g(v), w, f(v)[w] \o m)
    <3> DEFINE a == f(v)
               b == g(v)
    <3>1. a = [rt.runq EXCEPT ![v] = z] /\ b = [a EXCEPT ![w] = @ \o m]
      OBVIOUS
    <3> HIDE DEF a, b, z, m
    <3>2. RowSet(rt.runq, a, v, z) /\ RowSet(a, b, w, a[w] \o m)
      BY <1>4, <2>1, <2>3, <3>1, RowsTwice
    <3> QED
      BY <3>2 DEF a, b
  <2>5. PICK k \in Tasks : k = q[n(v)]
    <3> HIDE DEF q
    <3> QED
      BY <2>1, <2>2, ElementOfSeq
  <2>6. Takes(t, k) /\ rt' = [rt EXCEPT !.runq = g(v)]
    BY <1>5, <1>7, <2>5
  <2> HIDE DEF f, g, n
  <2>7. Leaves(q[n(v)])
    BY <1>1, <1>4, <2>1, <2>2, <2>4, <2>6, RaidLeaves
  <2>8. Leaves(k)
    BY <2>5, <2>7
  <2> QED
    BY <1>2, <2>6, <2>8, TakeLeaves
<1> QED
  BY <1>6, <1>7

LEMMA RaidInjectedKeeps ==
  ASSUME Inv, NEW t \in Threads, RaidInjected(t)
  PROVE  Inv'
<1>1. th[t].pc = "raid" /\ client' = client
  BY DEF RaidInjected, At
<1>2. th[t].pc \in Steps /\ "park" \in Steps
  BY <1>1 DEF Steps, CorePlaces
<1>3. QueuesTyped /\ rt.inject \in Seq(Tasks)
  BY DEF Inv, QueuesTyped
<1>4. CASE rt.inject = << >>
  <2>1. Goes(t, [pc |-> "park"]) /\ rt' = rt /\ tk' = tk
    BY <1>4 DEF RaidInjected
  <2>2. Walks(t)
    BY <1>2, <2>1, WalkTo
  <2>3. /\ th' = [b \in Actors |-> th'[b]] /\ Same({t}) /\ DOMAIN th'[t] = Fields
    BY <2>1, GoesOnlyOne, RolesDiffer DEF Inv
  <2> QED
    BY <1>1, <2>1, <2>2, <2>3, WalkKeeps DEF QueuesKept
<1>5. CASE rt.inject # << >>
  <2>1. PICK k \in Tasks : k = Head(rt.inject)
    BY <1>3, <1>5
  <2>2. Takes(t, k) /\ rt' = [rt EXCEPT !.inject = Tail(@)]
    BY <1>5, <2>1 DEF RaidInjected
  <2>3. Leaves(k)
    BY <1>1, <1>3, <1>5, <2>1, <2>2, InjectLeaves
  <2> QED
    BY <1>2, <2>2, <2>3, TakeLeaves
<1> QED
  BY <1>4, <1>5

-----------------------------------------------------------------------------
(* A Notified comes to a queue, or moves from one to another.                  *)

\* The Notified of k comes to the queues.
Arrives(k) ==
  /\ QueuesTyped' /\ client' = client /\ rt'.owned = rt.owned
  /\ rt'.slot = rt.slot /\ rt'.down = rt.down
  /\ \A j \in Tasks \ {k} : Queued(j)' = Queued(j)
  /\ Queued(k)' = Queued(k) + 1

\* No Notified comes or goes.
Stays ==
  /\ QueuesTyped' /\ client' = client /\ rt'.owned = rt.owned
  /\ rt'.slot = rt.slot /\ rt'.down = rt.down
  /\ \A j \in Tasks : Queued(j)' = Queued(j)

\* The rest of what the runtime shares is not about tasks.
RestKept ==
  /\ DOMAIN rt' = RtFields /\ client' = client /\ rt'.owned = rt.owned
  /\ rt'.slot = rt.slot /\ rt'.down = rt.down

\* The LIFO slots l and m differ in the slot of w, which is j in m.
SlotSet(l, m, w, j) ==
  /\ l \in [Workers -> Tasks \cup {NoTask}] /\ m \in [Workers -> Tasks \cup {NoTask}]
  /\ m[w] = j /\ \A v \in Workers \ {w} : m[v] = l[v]

LEMMA SlotMoved ==
  ASSUME NEW l, NEW m, NEW w \in Workers, NEW j, SlotSet(l, m, w, j), NEW k
  PROVE  /\ Cardinality(Slots(m, k))
              = Cardinality(Slots(l, k)) - (IF l[w] = k THEN 1 ELSE 0) + (IF j = k THEN 1 ELSE 0)
         /\ Cardinality(Slots(m, k)) \in Nat /\ Cardinality(Slots(l, k)) \in Nat
<1>1. /\ l \in [Workers -> Tasks \cup {NoTask}] /\ m[w] = j
      /\ \A v \in Workers \ {w} : m[v] = l[v]
  BY DEF SlotSet
<1>2. Cardinality(Slots(m, k))
        = Cardinality(Slots(l, k)) - (IF l[w] = k THEN 1 ELSE 0) + (IF j = k THEN 1 ELSE 0)
  BY <1>1, SlotsSet
<1> QED
  BY <1>2, SlotsType

\* The run queues q and p differ in k, at the end of the queue of w in p.
RowAdds(q, p, w, k) == RowSet(q, p, w, Append(q[w], k))

LEMMA RowAppended ==
  ASSUME NEW q, NEW p, NEW w \in Workers, NEW k \in Tasks, RowAdds(q, p, w, k), NEW j
  PROVE  /\ Cardinality(Rows(p, j)) = Cardinality(Rows(q, j)) + (IF k = j THEN 1 ELSE 0)
         /\ Cardinality(Rows(p, j)) \in Nat /\ Cardinality(Rows(q, j)) \in Nat
<1> DEFINE s == Append(q[w], k)
<1>1. RowSet(q, p, w, s) /\ q[w] \in Seq(Tasks)
  BY DEF RowSet, RowAdds
<1>2. Occ(s, j) = Occ(q[w], j) + IF k = j THEN 1 ELSE 0
  BY <1>1, OccAppend
<1> HIDE DEF s
<1>3. /\ Cardinality(Rows(p, j)) = Cardinality(Rows(q, j)) - Occ(q[w], j) + Occ(s, j)
      /\ Cardinality(Rows(p, j)) \in Nat /\ Cardinality(Rows(q, j)) \in Nat
      /\ Occ(q[w], j) \in Nat /\ Occ(s, j) \in Nat
  BY <1>1, RowsSet
<1> QED
  BY <1>2, <1>3

\* To the back of a run queue.
LEMMA BackArrives ==
  ASSUME QueuesTyped, NEW w \in Workers, NEW k \in Tasks, RestKept,
         rt'.lifo = rt.lifo, rt'.inject = rt.inject,
         RowAdds(rt.runq, rt'.runq, w, k)
  PROVE  Arrives(k)
<1>1. QueuesTyped'
  BY DEF QueuesTyped, RestKept, RowAdds, RowSet
<1>2. ASSUME NEW j \in Tasks
      PROVE  Queued(j)' = Queued(j) + IF k = j THEN 1 ELSE 0
  <2>1. /\ Cardinality(Rows(rt'.runq, j)) = Cardinality(Rows(rt.runq, j)) + (IF k = j THEN 1 ELSE 0)
        /\ Cardinality(Rows(rt.runq, j)) \in Nat
    BY RowAppended
  <2>2. /\ Queued(j) = Cardinality(Slots(rt.lifo, j)) + Cardinality(Rows(rt.runq, j))
                       + Occ(rt.inject, j)
        /\ Cardinality(Slots(rt.lifo, j)) \in Nat /\ Occ(rt.inject, j) \in Nat
    BY QueuedSum
  <2>3. Queued(j)' = Cardinality(Slots(rt.lifo, j)) + Cardinality(Rows(rt'.runq, j))
                       + Occ(rt.inject, j)
    BY <1>1, QueuedSumNext
  <2> QED
    BY <2>1, <2>2, <2>3
<1>3. ASSUME NEW j \in Tasks PROVE Queued(j) \in Nat
  BY CountIs
<1> QED
  BY <1>1, <1>2, <1>3 DEF Arrives, RestKept

\* To the injection queue.
LEMMA InjectArrives ==
  ASSUME QueuesTyped, NEW k \in Tasks, RestKept, rt'.lifo = rt.lifo, rt'.runq = rt.runq,
         rt'.inject = Append(rt.inject, k)
  PROVE  Arrives(k)
<1>1. QueuesTyped'
  BY DEF QueuesTyped, RestKept
<1>2. ASSUME NEW j \in Tasks
      PROVE  Queued(j)' = Queued(j) + IF k = j THEN 1 ELSE 0
  <2>1. Occ(rt'.inject, j) = Occ(rt.inject, j) + IF k = j THEN 1 ELSE 0
    BY OccAppend DEF QueuesTyped
  <2>2. /\ Queued(j) = Cardinality(Slots(rt.lifo, j)) + Cardinality(Rows(rt.runq, j))
                       + Occ(rt.inject, j)
        /\ Cardinality(Slots(rt.lifo, j)) \in Nat /\ Cardinality(Rows(rt.runq, j)) \in Nat
        /\ Occ(rt.inject, j) \in Nat
    BY QueuedSum
  <2>3. Queued(j)' = Cardinality(Slots(rt.lifo, j)) + Cardinality(Rows(rt.runq, j))
                       + Occ(rt'.inject, j)
    BY <1>1, QueuedSumNext
  <2> QED
    BY <2>1, <2>2, <2>3
<1>3. ASSUME NEW j \in Tasks PROVE Queued(j) \in Nat
  BY CountIs
<1> QED
  BY <1>1, <1>2, <1>3 DEF Arrives, RestKept

\* To a LIFO slot, whose task moves to the run queue.
LEMMA LifoArrives ==
  ASSUME QueuesTyped, NEW w \in Workers, NEW k \in Tasks, RestKept,
         SlotSet(rt.lifo, rt'.lifo, w, k), rt'.inject = rt.inject,
         \/ rt.lifo[w] = NoTask /\ rt'.runq = rt.runq
         \/ /\ rt.lifo[w] \in Tasks
            /\ RowAdds(rt.runq, rt'.runq, w, rt.lifo[w])
  PROVE  Arrives(k)
<1>1. QueuesTyped'
  BY DEF QueuesTyped, RestKept, RowAdds, RowSet, SlotSet
<1>2. ASSUME NEW j \in Tasks
      PROVE  Queued(j)' = Queued(j) + IF k = j THEN 1 ELSE 0
  <2> DEFINE x == IF rt.lifo[w] = j THEN 1 ELSE 0
             y == IF k = j THEN 1 ELSE 0
  <2>1. /\ Cardinality(Slots(rt'.lifo, j)) = Cardinality(Slots(rt.lifo, j)) - x + y
        /\ Cardinality(Slots(rt.lifo, j)) \in Nat
    BY SlotMoved
  <2>2. x \in Nat /\ y \in Nat
    OBVIOUS
  <2>3. /\ Queued(j) = Cardinality(Slots(rt.lifo, j)) + Cardinality(Rows(rt.runq, j))
                       + Occ(rt.inject, j)
        /\ Cardinality(Rows(rt.runq, j)) \in Nat /\ Occ(rt.inject, j) \in Nat
    BY QueuedSum
  <2>4. Queued(j)' = Cardinality(Slots(rt'.lifo, j)) + Cardinality(Rows(rt'.runq, j))
                       + Occ(rt.inject, j)
    BY <1>1, QueuedSumNext
  <2>5. Cardinality(Rows(rt'.runq, j)) = Cardinality(Rows(rt.runq, j)) + x
    <3>1. CASE rt.lifo[w] = NoTask /\ rt'.runq = rt.runq
      <4>1. x = 0
        BY <3>1, ActorsAssumption
      <4> QED
        BY <2>3, <3>1, <4>1
    <3>2. CASE /\ rt.lifo[w] \in Tasks
               /\ RowAdds(rt.runq, rt'.runq, w, rt.lifo[w])
      BY <3>2, RowAppended
    <3> QED
      BY <3>1, <3>2
  <2> HIDE DEF x, y
  <2>6. Queued(j)' = Queued(j) + y
    BY <2>1, <2>2, <2>3, <2>4, <2>5
  <2> QED
    BY <2>6 DEF y
<1>3. ASSUME NEW j \in Tasks PROVE Queued(j) \in Nat
  BY CountIs
<1> QED
  BY <1>1, <1>2, <1>3 DEF Arrives, RestKept

\* From a LIFO slot to the back of the run queue.
LEMMA LifoToBack ==
  ASSUME QueuesTyped, NEW w \in Workers, NEW k \in Tasks, rt.lifo[w] = k, RestKept,
         SlotSet(rt.lifo, rt'.lifo, w, NoTask), rt'.inject = rt.inject,
         RowAdds(rt.runq, rt'.runq, w, k)
  PROVE  Stays
<1>1. QueuesTyped'
  BY DEF QueuesTyped, RestKept, RowAdds, RowSet, SlotSet
<1>2. ASSUME NEW j \in Tasks
      PROVE  Queued(j)' = Queued(j)
  <2> DEFINE x == IF k = j THEN 1 ELSE 0
  <2>1. /\ Cardinality(Slots(rt'.lifo, j)) = Cardinality(Slots(rt.lifo, j)) - x
        /\ Cardinality(Slots(rt.lifo, j)) \in Nat
    <3>1. /\ Cardinality(Slots(rt'.lifo, j))
               = Cardinality(Slots(rt.lifo, j)) - x + (IF NoTask = j THEN 1 ELSE 0)
          /\ Cardinality(Slots(rt.lifo, j)) \in Nat
      BY SlotMoved
    <3>2. x \in Nat /\ NoTask # j
      BY ActorsAssumption
    <3> HIDE DEF x
    <3> QED
      BY <3>1, <3>2
  <2>2. x \in Nat
    OBVIOUS
  <2>3. /\ Queued(j) = Cardinality(Slots(rt.lifo, j)) + Cardinality(Rows(rt.runq, j))
                       + Occ(rt.inject, j)
        /\ Cardinality(Rows(rt.runq, j)) \in Nat /\ Occ(rt.inject, j) \in Nat
    BY QueuedSum
  <2>4. Queued(j)' = Cardinality(Slots(rt'.lifo, j)) + Cardinality(Rows(rt'.runq, j))
                       + Occ(rt.inject, j)
    BY <1>1, QueuedSumNext
  <2>5. Cardinality(Rows(rt'.runq, j)) = Cardinality(Rows(rt.runq, j)) + x
    BY RowAppended
  <2> HIDE DEF x
  <2> QED
    BY <2>1, <2>2, <2>3, <2>4, <2>5
<1> QED
  BY <1>1, <1>2 DEF Stays, RestKept

\* A thread goes on with nothing in hand, and no Notified comes or goes.
LEMMA QuietThread ==
  ASSUME Inv, NEW t \in Threads, th' = [b \in Actors |-> th'[b]], Same({t}), ThreadFits(th[t])',
         th'[t].core = th[t].core, Quiet(t), Stays, tk' = tk
  PROVE  Inv'
<1>1. t \in Actors /\ ActorsFit /\ QueuesTyped /\ CoresPlaced /\ TasksInv
  BY RolesDiffer DEF Inv
<1>2. /\ QueuesTyped' /\ client' = client /\ rt'.owned = rt.owned /\ rt'.slot = rt.slot
      /\ rt'.down = rt.down /\ \A j \in Tasks : Queued(j)' = Queued(j)
  BY DEF Stays
<1>3. ActorsFit'
  BY <1>1, <1>2, ThreadMoved
<1>4. CoresPlaced'
  BY <1>1, <1>2, CoreKept
<1>5. ASSUME NEW j \in Tasks PROVE Kept(t, j)
  <2>1. /\ Submits(t, j)' <=> Submits(t, j)
        /\ Owes(t, j)' <=> Owes(t, j)
        /\ Fetched(t, j)' <=> Fetched(t, j)
        /\ Carries(t, j)' <=> Carries(t, j)
        /\ Keeps(t, j)' <=> Keeps(t, j)
        /\ Where(t, j)' = Where(t, j) \/ {Where(t, j), Where(t, j)'} \subseteq Neutral
    BY QuietShares
  <2>2. NotifiedShare(t, j)' = NotifiedShare(t, j) /\ OtherShare(t, j)' = OtherShare(t, j)
    BY <2>1 DEF NotifiedShare, OtherShare, One
  <2> QED
    BY <1>2, <2>1, <2>2 DEF Kept
<1>6. TasksInv'
  BY <1>1, <1>2, <1>5, TasksKept DEF Same
<1> QED
  BY <1>2, <1>3, <1>4, <1>6 DEF Inv

\* A thread after a task.
LEMMA AfterTask ==
  ASSUME Inv, NEW t \in Threads, th[t].pc = "lifo"
  PROVE  /\ th[t].cont = "lifo" /\ Place(t) = "lifo" /\ ~At(t, "submit")
         /\ \A j : Free(t, j) /\ Where(t, j) \in Neutral
<1>1. ThreadFits(th[t])
  BY ThreadFacts
<1>2. "lifo" \notin Scheduling \cup FinishPlaces \cup Holding /\ "lifo" \in Neutral \ PollPlaces
  BY DEF Scheduling, FinishPlaces, Holding, Neutral, PollPlaces
<1>3. Place(t) = "lifo" /\ PlaceOf(th[t]) = "lifo" /\ ~At(t, "submit")
  BY <1>2 DEF Place, PlaceOf, At
<1>4. th[t].cont = "lifo"
  BY <1>1, <1>2, <1>3 DEF ThreadFits
<1>5. ASSUME NEW j PROVE Free(t, j) /\ Where(t, j) \in Neutral
  BY <1>2, <1>3, FreeIs, NeutralIs
<1> QED
  BY <1>3, <1>4, <1>5

\* The thread goes on to its loop, or ends.
LEMMA LifoGoes ==
  ASSUME Inv, NEW t \in Threads, th[t].pc = "lifo",
         \/ Goes(t, [pc |-> "top"]) /\ th[t].core # NoWorker
         \/ Goes(t, Idling) /\ th[t].core = NoWorker,
         Stays, tk' = tk
  PROVE  Inv'
<1>1. ThreadFits(th[t]) /\ t \in DOMAIN th /\ t \in Actors /\ th[t].left \subseteq Workers
  BY ThreadFacts
<1>2. th' = [b \in Actors |-> th'[b]] /\ Same({t}) /\ DOMAIN th'[t] = Fields
  BY <1>1, GoesOnlyOne DEF Inv
<1>3. th[t].cont = "lifo" /\ Place(t) = "lifo" /\ ~At(t, "submit")
  BY AfterTask
<1>4. /\ "top" \notin Scheduling /\ "free" \notin Scheduling
      /\ {"top", "free"} \subseteq ThreadPlaces /\ {"top", "free", "lifo"} \subseteq Still
      /\ {"top", "free"} \cap (FinishPlaces \cup TaskPlaces) = {}
      /\ "free" \notin CorePlaces
  BY DEF Scheduling, ThreadPlaces, CorePlaces, Still, FinishPlaces, TaskPlaces, PollPlaces,
         HandlePlaces
<1>5. /\ th'[t].pc \in {"top", "free"} /\ th'[t].core = th[t].core /\ th'[t].cont = "lifo"
      /\ th'[t].drops = FALSE /\ th'[t].left \subseteq Workers
      /\ th'[t].pc = "top" => th[t].core # NoWorker
      /\ th'[t].pc = "free" => th[t].core = NoWorker
  <2>1. CASE Goes(t, [pc |-> "top"]) /\ th[t].core # NoWorker
    BY <1>1, <1>3, <1>4, <2>1 DEF Goes, Unscheduled
  <2>2. CASE Goes(t, Idling) /\ th[t].core = NoWorker
    BY <1>1, <1>4, <2>2 DEF Goes, Unscheduled, Idling
  <2> QED
    BY <2>1, <2>2
<1>6. Place(t)' = th'[t].pc /\ PlaceOf(th'[t]) = th'[t].pc /\ ~At(t, "submit")'
  BY <1>4, <1>5 DEF Place, PlaceOf, At
<1>7. Quiet(t)
  BY <1>3, <1>4, <1>5, <1>6 DEF Quiet
<1>8. client' = client
  BY DEF Stays
<1>9. ThreadFits(th[t])'
  <2>1. Shaped(th'[t])
    BY <1>2, <1>4, <1>5, <1>6 DEF Shaped, At
  <2> QED
    BY <1>1, <1>4, <1>5, <1>6, <1>8, <2>1 DEF ThreadFits, Shaped, PlaceOf
<1> QED
  BY <1>2, <1>5, <1>7, <1>9, QuietThread

LEMMA LifoKeeps ==
  ASSUME Inv, NEW t \in Threads, Lifo(t)
  PROVE  Inv'
<1>1. th[t].pc = "lifo" /\ client' = client
  BY DEF Lifo, At
<1>2. QueuesTyped /\ th[t].core \in Workers \cup {NoWorker} /\ CoresPlaced
  BY ThreadFacts DEF Inv
<1>3. CASE /\ \/ Goes(t, Idling) /\ th[t].core = NoWorker
              \/ Goes(t, [pc |-> "top"]) /\ th[t].core # NoWorker
           /\ UNCHANGED <<rt, tk>>
  <2>1. QueuesKept /\ rt' = rt
    BY <1>1, <1>3 DEF QueuesKept
  <2>2. Stays
    BY <1>2, <2>1, QueuesKeptTyped DEF Stays, QueuesKept
  <2> QED
    BY <1>1, <1>3, <2>2, LifoGoes
<1>4. CASE th[t].core # NoWorker /\ rt.lifo[th[t].core] # NoTask
  <2>1. PICK w \in Workers : w = th[t].core
    BY <1>2, <1>4
  <2>2. PICK k \in Tasks : k = rt.lifo[w]
    BY <1>2, <1>4, <2>1 DEF QueuesTyped
  <2>3. CASE Run(t, k) /\ rt' = [rt EXCEPT !.lifo[w] = NoTask]
    <3>1. Leaves(k)
      BY <1>1, <1>2, <2>2, <2>3, LifoLeaves
    <3>2. /\ QueuesTyped' /\ client' = client /\ rt'.owned = rt.owned
          /\ rt'.slot = rt.slot /\ rt'.down = rt.down
          /\ \A j \in Tasks \ {k} : Queued(j)' = Queued(j)
          /\ Queued(k)' + 1 = Queued(k)
      BY <3>1 DEF Leaves
    <3>3. ASSUME NEW j \in Tasks
          PROVE  /\ NotifiedShare(t, j) = 0 /\ OtherShare(t, j) = 0 /\ Where(t, j) \in Neutral
                 /\ Queued(j) \in Nat
      BY <1>1, <1>2, AfterTask, CountIs DEF Free
    <3>4. /\ \A j \in Tasks : OtherShare(t, j) = 0 /\ Where(t, j) \in Neutral
          /\ \A j \in Tasks \ {k} : Queued(j)' = Queued(j) + NotifiedShare(t, j)
          /\ Queued(k)' + 1 = Queued(k) + NotifiedShare(t, k)
      BY <3>2, <3>3
    <3>5. ActorsFit /\ TasksInv /\ th[t].cont = "lifo"
      BY <1>1, AfterTask DEF Inv
    <3>6. ActorsFit' /\ Same({t}) /\ th'[t].core = th[t].core /\ TasksInv'
      BY <1>2, <2>3, <3>2, <3>4, <3>5, RunStep
    <3>7. CoresPlaced'
      BY <1>2, <3>2, <3>6, CoreKept
    <3> QED
      BY <3>2, <3>6, <3>7 DEF Inv
  <2>4. CASE /\ Goes(t, [pc |-> "top"]) /\ tk' = tk
             /\ rt' = ToBack([rt EXCEPT !.lifo[w] = NoTask], w, k)
    <3>1. /\ rt'.lifo = [rt.lifo EXCEPT ![w] = NoTask]
          /\ rt'.runq = [rt.runq EXCEPT ![w] = Append(rt.runq[w], k)]
          /\ rt'.inject = rt.inject /\ RestKept
      <4> DEFINE r == [rt EXCEPT !.lifo[w] = NoTask]
      <4>1. /\ r.lifo = [rt.lifo EXCEPT ![w] = NoTask] /\ r.runq = rt.runq /\ r.inject = rt.inject
            /\ r.owned = rt.owned /\ r.slot = rt.slot /\ r.down = rt.down /\ DOMAIN r = RtFields
        BY <1>2 DEF QueuesTyped, RtFields
      <4>2. rt' = [r EXCEPT !.runq[w] = Append(@, k)]
        BY <2>4 DEF ToBack
      <4> HIDE DEF r
      <4>3. /\ rt'.lifo = r.lifo /\ rt'.inject = r.inject /\ DOMAIN rt' = DOMAIN r
            /\ rt'.owned = r.owned /\ rt'.slot = r.slot /\ rt'.down = r.down
            /\ rt'.runq = [r.runq EXCEPT ![w] = Append(r.runq[w], k)]
        BY <4>1, <4>2 DEF RtFields
      <4> QED
        BY <1>1, <4>1, <4>3 DEF RestKept
    <3>2. SlotSet(rt.lifo, rt'.lifo, w, NoTask)
      BY <1>2, <3>1 DEF SlotSet, QueuesTyped
    <3>3. RowAdds(rt.runq, rt'.runq, w, k)
      <4>1. rt.runq \in [Workers -> Seq(Tasks)] /\ Append(rt.runq[w], k) \in Seq(Tasks)
        BY <1>2 DEF QueuesTyped
      <4> QED
        BY <3>1, <4>1 DEF RowAdds, RowSet
    <3>4. Stays
      BY <1>2, <2>2, <3>1, <3>2, <3>3, LifoToBack
    <3> QED
      BY <1>1, <1>4, <2>4, <3>4, LifoGoes
  <2> QED
    BY <1>4, <2>1, <2>2, <2>3, <2>4 DEF Lifo
<1>5. th[t].core = NoWorker => Goes(t, Idling) /\ UNCHANGED <<rt, tk>>
  BY DEF Lifo
<1>6. th[t].core # NoWorker /\ rt.lifo[th[t].core] = NoTask
        => Goes(t, [pc |-> "top"]) /\ UNCHANGED <<rt, tk>>
  BY DEF Lifo
<1>7. CASE th[t].core = NoWorker
  <2>1. Goes(t, Idling) /\ UNCHANGED <<rt, tk>>
    BY <1>5, <1>7
  <2> QED
    BY <1>3, <1>7, <2>1
<1>8. CASE th[t].core # NoWorker /\ rt.lifo[th[t].core] = NoTask
  <2>1. Goes(t, [pc |-> "top"]) /\ UNCHANGED <<rt, tk>>
    BY <1>6, <1>8
  <2> QED
    BY <1>3, <1>8, <2>1
<1> QED
  BY <1>4, <1>7, <1>8

\* An actor that stays where it is, though it may begin or end to schedule a task.
StaysAt(a) ==
  /\ PlaceOf(th'[a]) = PlaceOf(th[a])
  /\ th'[a].core = th[a].core /\ th'[a].task = th[a].task /\ th'[a].cont = th[a].cont
  /\ th'[a].left = th[a].left
  /\ th'[a].drops \in BOOLEAN
  /\ th'[a].pc = "submit" => th'[a].wake \in Tasks

LEMMA StaysFits ==
  ASSUME ActorsFit, NEW a \in Actors, StaysAt(a), th' = [b \in Actors |-> th'[b]], Same({a}),
         DOMAIN th'[a] = Fields, client' = client
  PROVE  ActorsFit' /\ Place(a)' = Place(a)
<1>1. Place(a)' = Place(a)
  BY DEF StaysAt, Place, PlaceOf
<1>2. CASE a \in Threads
  <2>1. ThreadFits(th[a])
    BY <1>2 DEF ActorsFit
  <2>2. ThreadFits(th[a])'
    BY <2>1 DEF StaysAt, ThreadFits, Shaped, PlaceOf
  <2> QED
    BY <1>1, <1>2, <2>2, ThreadMoved
<1>3. CASE a = Main
  <2>1. MainFits(th[a])'
    BY <1>3 DEF ActorsFit, StaysAt, MainFits, Shaped, PlaceOf
  <2> QED
    BY <1>1, <1>3, <2>1, MainMoved
<1>4. CASE a = Source
  <2>1. SourceFits(th[a])'
    BY <1>4 DEF ActorsFit, StaysAt, SourceFits, Shaped, PlaceOf
  <2> QED
    BY <1>1, <1>4, <2>1, SourceMoved
<1> QED
  BY <1>2, <1>3, <1>4 DEF Actors

\* Where the core of a thread is, when anybody but a stays as it is.
LEMMA CoresStay ==
  ASSUME CoresPlaced, NEW a \in Actors, Same({a}), th'[a].core = th[a].core,
         rt'.slot = rt.slot, rt'.down = rt.down, client' = client
  PROVE  CoresPlaced'
<1>1. \A u \in Threads : th'[u].core = th[u].core
  BY RolesDiffer DEF Same
<1> QED
  BY <1>1, CoresKept

\* An actor that stays where it is has of a task what it had but for the one it submits.
LEMMA SubmitShares ==
  ASSUME NEW a, Place(a)' = Place(a), th'[a].task = th[a].task, th'[a].cont = th[a].cont, NEW j
  PROVE  /\ NotifiedShare(a, j)' + (IF Submits(a, j) THEN 1 ELSE 0)
               = NotifiedShare(a, j) + (IF Submits(a, j)' THEN 1 ELSE 0)
         /\ OtherShare(a, j)' + (IF Owes(a, j) THEN 1 ELSE 0)
               = OtherShare(a, j) + (IF Owes(a, j)' THEN 1 ELSE 0)
         /\ Where(a, j)' = Where(a, j)
<1>1. /\ Fetched(a, j)' <=> Fetched(a, j)
      /\ Carries(a, j)' <=> Carries(a, j)
      /\ Keeps(a, j)' <=> Keeps(a, j)
      /\ Where(a, j)' = Where(a, j)
  BY DEF Fetched, Carries, Keeps, Where
<1>2. NotifiedShare(a, j)' + (IF Submits(a, j) THEN 1 ELSE 0)
        = NotifiedShare(a, j) + (IF Submits(a, j)' THEN 1 ELSE 0)
  <2> DEFINE f == IF Fetched(a, j) THEN 1 ELSE 0
             c == IF Carries(a, j) THEN 1 ELSE 0
             s == IF Submits(a, j) THEN 1 ELSE 0
             z == IF Submits(a, j)' THEN 1 ELSE 0
  <2>1. f \in Int /\ c \in Int /\ s \in Int /\ z \in Int
    OBVIOUS
  <2>2. NotifiedShare(a, j) = s + f + c /\ NotifiedShare(a, j)' = z + f + c
    BY <1>1 DEF NotifiedShare, One
  <2> HIDE DEF f, c, s, z
  <2>3. NotifiedShare(a, j)' + s = NotifiedShare(a, j) + z
    BY <2>1, <2>2
  <2> QED
    BY <2>3 DEF s, z
<1>3. OtherShare(a, j)' + (IF Owes(a, j) THEN 1 ELSE 0)
        = OtherShare(a, j) + (IF Owes(a, j)' THEN 1 ELSE 0)
  <2> DEFINE f == IF Keeps(a, j) THEN 1 ELSE 0
             s == IF Owes(a, j) THEN 1 ELSE 0
             z == IF Owes(a, j)' THEN 1 ELSE 0
  <2>1. f \in Int /\ s \in Int /\ z \in Int
    OBVIOUS
  <2>2. OtherShare(a, j) = f + s /\ OtherShare(a, j)' = f + z
    BY <1>1 DEF OtherShare, One
  <2> HIDE DEF f, s, z
  <2>3. OtherShare(a, j)' + s = OtherShare(a, j) + z
    BY <2>1, <2>2
  <2> QED
    BY <2>3 DEF s, z
<1> QED
  BY <1>1, <1>2, <1>3

\* What the invariant says of a task and of what an actor has of it.
LEMMA Referenced ==
  ASSUME Inv, NEW k \in Tasks, NEW a \in Actors
  PROVE  /\ TaskTyped(tk[k])
         /\ Notifieds(k) \in Nat /\ OtherHands(k) \in Nat
         /\ tk[k].word.refs = One(k \in rt.owned) + One(tk[k].handle = "held") + tk[k].wakers
                                + Notifieds(k) + OtherHands(k)
         /\ NotifiedShare(a, k) \in Nat /\ NotifiedShare(a, k) <= Notifieds(k)
         /\ OtherShare(a, k) \in Nat /\ OtherShare(a, k) <= OtherHands(k)
         /\ Notifieds(k) <= 1
         /\ ~tk[k].word.notified => Notifieds(k) = 0
         /\ Notifieds(k) > 0 \/ OtherHands(k) > 0 \/ tk[k].wakers > 0 \/ k \in rt.owned
               => tk[k].handle # "none"
<1>1. QueuesTyped /\ TaskInv(k)
  BY DEF Inv, TasksInv
<1>2. TaskTyped(tk[k]) /\ Balanced(tk[k], k \in rt.owned, Notifieds(k), OtherHands(k))
  BY <1>1 DEF TaskInv
<1>3. /\ Queued(k) \in Nat /\ Notifieds(k) = Queued(k) + NotifiedHands(k)
      /\ NotifiedHands(k) \in Nat /\ OtherHands(k) \in Nat
      /\ NotifiedShare(a, k) <= NotifiedHands(k) /\ OtherShare(a, k) <= OtherHands(k)
      /\ NotifiedShare(a, k) \in Nat /\ OtherShare(a, k) \in Nat
  BY <1>1, CountIs, ShareCounted, SharesTyped
<1>4. /\ Notifieds(k) \in Nat /\ NotifiedShare(a, k) <= Notifieds(k)
  BY <1>3
<1>5. /\ tk[k].word.refs = One(k \in rt.owned) + One(tk[k].handle = "held") + tk[k].wakers
                             + Notifieds(k) + OtherHands(k)
      /\ Notifieds(k) <= 1 /\ (Notifieds(k) = 1 => tk[k].word.notified)
      /\ tk[k].handle = "none" => tk[k].word.refs = 0
  BY <1>2 DEF Balanced
<1>6. ~tk[k].word.notified => Notifieds(k) = 0
  BY <1>4, <1>5
<1>7. Notifieds(k) > 0 \/ OtherHands(k) > 0 \/ tk[k].wakers > 0 \/ k \in rt.owned
        => tk[k].handle # "none"
  <2> DEFINE o == One(k \in rt.owned)
             h == One(tk[k].handle = "held")
  <2>1. o \in Nat /\ h \in Nat /\ (k \in rt.owned => o = 1) /\ tk[k].wakers \in Nat
    BY <1>2 DEF One, TaskTyped
  <2> HIDE DEF o, h
  <2>2. tk[k].word.refs = o + h + tk[k].wakers + Notifieds(k) + OtherHands(k)
    BY <1>5 DEF o, h
  <2>3. Notifieds(k) > 0 \/ OtherHands(k) > 0 \/ tk[k].wakers > 0 \/ k \in rt.owned
          => tk[k].word.refs # 0
    BY <1>3, <1>4, <2>1, <2>2
  <2> QED
    BY <1>5, <2>3
<1> QED
  BY <1>2, <1>3, <1>4, <1>5, <1>6, <1>7

\* The task T is S, which may have been notified, cancelled or counted anew.
Alike(T, S) ==
  /\ TaskTyped(T)
  /\ T.word.running = S.word.running /\ T.word.complete = S.word.complete
  /\ T.word.joinInterest = S.word.joinInterest /\ T.word.joinWaker = S.word.joinWaker
  /\ T.output = S.output /\ T.handle = S.handle
  /\ S.word.notified => T.word.notified

\* The task T is S with the word w and v wakers.
Reworded(T, S, w, v) ==
  /\ DOMAIN T = DOMAIN S /\ T.word = w /\ T.wakers = v
  /\ T.output = S.output /\ T.handle = S.handle

LEMMA ByRefIs ==
  ASSUME NEW S, TaskTyped(S), NEW r, r = NotifiedByRef(S.word) \/ r = NotifiedAndCancelled(S.word),
         NEW T, Reworded(T, S, r.next, S.wakers)
  PROVE  /\ Alike(T, S) /\ T.wakers = S.wakers
         /\ r.action = "Submit" => /\ T.word.notified /\ ~S.word.notified /\ ~S.word.running
                                   /\ T.word.refs = S.word.refs + 1
         /\ r.action # "Submit" => T.word.refs = S.word.refs
<1> DEFINE w == r.next
<1>1. /\ DOMAIN T = DOMAIN S /\ T.word = w /\ T.output = S.output /\ T.wakers = S.wakers
      /\ T.handle = S.handle
  BY DEF Reworded
<1>2. /\ DOMAIN w = WordFields /\ w.running = S.word.running /\ w.complete = S.word.complete
      /\ w.joinInterest = S.word.joinInterest /\ w.joinWaker = S.word.joinWaker
      /\ w.notified \in BOOLEAN /\ w.cancelled \in BOOLEAN
      /\ S.word.notified => w.notified
      /\ r.action = "Submit" => /\ w.notified /\ ~S.word.notified /\ ~S.word.running
                                /\ w.refs = S.word.refs + 1
      /\ r.action # "Submit" => w.refs = S.word.refs
  <2>1. CASE r = NotifiedByRef(S.word)
    BY <2>1 DEF NotifiedByRef, RefInc, TaskTyped, WordFields
  <2>2. CASE r = NotifiedAndCancelled(S.word)
    BY <2>2 DEF NotifiedAndCancelled, RefInc, TaskTyped, WordFields
  <2> QED
    BY <2>1, <2>2
<1> HIDE DEF w
<1>3. w.refs \in Int
  BY <1>2 DEF TaskTyped
<1> QED
  BY <1>1, <1>2, <1>3 DEF Alike, TaskTyped

LEMMA ByValIs ==
  ASSUME NEW S, TaskTyped(S), S.wakers > 0, NEW r, r = NotifiedByVal(S.word), NEW T,
         NEW w, Reworded(T, S, w, S.wakers - 1),
         w = r.next \/ (w = RefDec(r.next) /\ r.action = "Submit")
  PROVE  /\ Alike(T, S) /\ T.wakers = S.wakers - 1 /\ T.word = w
         /\ r.action = "Submit" => /\ T.word.notified /\ ~S.word.notified /\ ~S.word.running
                                   /\ r.next.refs = S.word.refs + 1
                                   /\ RefDec(r.next).refs = S.word.refs
         /\ r.action # "Submit" => r.next.refs = S.word.refs - 1
<1>1. /\ DOMAIN T = DOMAIN S /\ T.word = w /\ T.output = S.output /\ T.wakers = S.wakers - 1
      /\ T.handle = S.handle
  BY DEF Reworded
<1> DEFINE z == r.next
<1>2. /\ DOMAIN z = WordFields /\ z.running = S.word.running /\ z.complete = S.word.complete
      /\ z.joinInterest = S.word.joinInterest /\ z.joinWaker = S.word.joinWaker
      /\ z.notified \in BOOLEAN /\ z.cancelled \in BOOLEAN
      /\ S.word.notified => z.notified
      /\ r.action = "Submit" => /\ z.notified /\ ~S.word.notified /\ ~S.word.running
                                /\ z.refs = S.word.refs + 1
      /\ r.action # "Submit" => z.refs = S.word.refs - 1
  BY DEF NotifiedByVal, RefInc, RefDec, TaskTyped, WordFields
<1>3. w = z \/ w = RefDec(z)
  OBVIOUS
<1> HIDE DEF z
<1>4. z.refs \in Int
  BY <1>2 DEF TaskTyped
<1>5. /\ DOMAIN w = WordFields /\ w.running = z.running /\ w.complete = z.complete
      /\ w.joinInterest = z.joinInterest /\ w.joinWaker = z.joinWaker
      /\ w.notified = z.notified /\ w.cancelled = z.cancelled /\ w.refs \in Int
      /\ RefDec(z).refs = z.refs - 1
  BY <1>2, <1>4, <1>3 DEF RefDec, WordFields
<1>6. Alike(T, S)
  BY <1>1, <1>2, <1>5 DEF Alike, TaskTyped
<1> QED
  BY <1>1, <1>2, <1>4, <1>5, <1>6 DEF TaskTyped, z

\* A task that is counted anew.
LEMMA RecountIs ==
  ASSUME NEW S, TaskTyped(S), NEW n \in Int, NEW v \in Nat, NEW T,
         NEW w, w = [S.word EXCEPT !.refs = n], Reworded(T, S, w, v)
  PROVE  /\ Alike(T, S) /\ T.wakers = v /\ T.word.refs = n
         /\ T.word.cancelled = S.word.cancelled /\ T.word.notified = S.word.notified
BY DEF Alike, TaskTyped, WordFields, Reworded

\* The step of an actor that leaves the flags of the task k alone.
LEMMA PlainStep ==
  ASSUME Inv, NEW a \in Actors, NEW k \in Tasks, NEW T, NEW d \in {-1, 0, 1}, NEW e \in Int,
         ActorsFit', QueuesTyped', CoresPlaced',
         Moves(a, k, d, e), Becomes(k, T), Alike(T, tk[k]), tk[k].handle # "none",
         d = 1 => T.word.notified /\ ~tk[k].word.running /\ ~tk[k].word.notified,
         T.word.refs - tk[k].word.refs
            = One((k \in rt.owned)') - One(k \in rt.owned) + T.wakers - tk[k].wakers + d + e,
         Where(a, k)' = Where(a, k) \/ {Where(a, k), Where(a, k)'} \subseteq Neutral
  PROVE  Inv'
<1>1. ~tk[k].word.notified => Notifieds(k) = 0
  BY Referenced
<1>2. d \in Int /\ T.handle # "none"
  BY DEF Alike
<1>3. Plain(a, k, T, d, e)
  BY <1>1 DEF Plain, Alike
<1>4. TasksInv'
  BY <1>2, <1>3, TouchPlain DEF Inv
<1> QED
  BY <1>4 DEF Inv

\* An actor begins to submit the task k, with a reference to drop afterwards or not.
Begins(a, k, x) ==
  /\ th[a].pc \notin Scheduling
  /\ th'[a].pc = "submit" /\ th'[a].wake = k /\ th'[a].then = th[a].pc /\ th'[a].drops = x
  /\ th'[a].core = th[a].core /\ th'[a].task = th[a].task /\ th'[a].cont = th[a].cont
  /\ th'[a].left = th[a].left

LEMMA BeginsIs ==
  ASSUME NEW a \in DOMAIN th, NEW k, NEW x, NEW p, p = th[a].pc, p \notin Scheduling,
         Goes(a, [pc |-> "submit", wake |-> k, then |-> p, yield |-> FALSE, drops |-> x])
  PROVE  Begins(a, k, x)
BY DEF Goes, Begins, Scheduling

\* An actor notifies the task k, of which it uses up a waker or not, and submits it
\* if s says so.
LEMMA NotifyStep ==
  ASSUME Inv, NEW a \in Actors, NEW k \in Tasks, NEW x \in BOOLEAN, NEW T, NEW s \in BOOLEAN,
         s => /\ Begins(a, k, x) /\ th' = [b \in Actors |-> th'[b]] /\ Same({a})
              /\ DOMAIN th'[a] = Fields
         /\ T.word.notified /\ ~tk[k].word.notified /\ ~tk[k].word.running,
         ~s => th' = th,
         rt' = rt, client' = client,
         Becomes(k, T), Alike(T, tk[k]), tk[k].handle # "none",
         T.word.refs - tk[k].word.refs
            = T.wakers - tk[k].wakers + (IF s THEN 1 ELSE 0) + (IF s /\ x THEN 1 ELSE 0)
  PROVE  Inv'
<1>1. QueuesTyped /\ ActorsFit /\ CoresPlaced /\ QueuesKept
  BY DEF Inv, QueuesKept
<1>2. QueuesTyped' /\ \A j : Queued(j)' = Queued(j)
  BY <1>1, QueuesKeptTyped
<1>3. \A j \in Tasks : Queued(j) \in Nat
  BY <1>1, CountIs
<1>4. /\ th' = [b \in Actors |-> th'[b]] /\ Same({a})
      /\ th'[a].task = th[a].task /\ th'[a].cont = th[a].cont /\ th'[a].core = th[a].core
  <2>1. CASE s
    BY <2>1 DEF Begins
  <2>2. CASE ~s
    BY <1>1, <2>2 DEF ActorsFit, Same
  <2> QED
    BY <2>1, <2>2
<1>5. ActorsFit' /\ Place(a)' = Place(a)
  <2>1. CASE s
    <3>1. StaysAt(a)
      <4>1. "submit" \in Scheduling
        BY DEF Scheduling
      <4>2. PlaceOf(th'[a]) = PlaceOf(th[a])
        BY <2>1, <4>1 DEF Begins, PlaceOf
      <4> QED
        BY <2>1, <4>2 DEF Begins, StaysAt
    <3> QED
      BY <1>1, <2>1, <3>1, StaysFits
  <2>2. CASE ~s
    BY <1>1, <2>2 DEF ActorsFit, Place, ThreadFits, MainFits, SourceFits, Shaped, PlaceOf
  <2> QED
    BY <2>1, <2>2
<1>6. CoresPlaced'
  BY <1>1, <1>4, CoresStay
<1>7. ASSUME NEW j \in Tasks
      PROVE  /\ NotifiedShare(a, j)' = NotifiedShare(a, j) + (IF s /\ j = k THEN 1 ELSE 0)
             /\ OtherShare(a, j)' = OtherShare(a, j) + (IF s /\ x /\ j = k THEN 1 ELSE 0)
             /\ Where(a, j)' = Where(a, j)
  <2>1. CASE s
    <3>1. ~Submits(a, j) /\ ~Owes(a, j)
      BY <2>1 DEF Submits, Owes, At, Begins, Scheduling
    <3>2. (Submits(a, j)' <=> j = k) /\ (Owes(a, j)' <=> j = k /\ x)
      BY <2>1 DEF Submits, Owes, At, Begins
    <3> QED
      BY <1>4, <1>5, <2>1, <3>1, <3>2, SubmitShares, SharesTyped
  <2>2. CASE ~s
    <3>1. /\ NotifiedShare(a, j)' = NotifiedShare(a, j) /\ OtherShare(a, j)' = OtherShare(a, j)
          /\ Where(a, j)' = Where(a, j)
      BY <2>2 DEF NotifiedShare, OtherShare, Where, Submits, Owes, Fetched, Carries, Keeps, At, Place
    <3> QED
      BY <2>2, <3>1, SharesTyped
  <2> QED
    BY <2>1, <2>2
<1> DEFINE d == IF s THEN 1 ELSE 0
           e == IF s /\ x THEN 1 ELSE 0
<1>8. d \in {-1, 0, 1} /\ e \in Int /\ (d = 1 => s)
  OBVIOUS
<1>9. ASSUME NEW j \in Tasks \ {k} PROVE Kept(a, j)
  <2>1. NotifiedShare(a, j)' = NotifiedShare(a, j) /\ OtherShare(a, j)' = OtherShare(a, j)
    BY <1>7, SharesTyped
  <2> QED
    BY <1>2, <1>7, <2>1 DEF Kept
<1>10. NotifiedShare(a, k)' = NotifiedShare(a, k) + d /\ OtherShare(a, k)' = OtherShare(a, k) + e
  BY <1>7
<1>11. T.word.refs - tk[k].word.refs = T.wakers - tk[k].wakers + d + e
  OBVIOUS
<1> HIDE DEF d, e
<1>12. Moves(a, k, d, e)
  BY <1>2, <1>3, <1>4, <1>8, <1>9, <1>10, SharesTyped DEF Moves, Same
<1>13. T.word.refs - tk[k].word.refs
         = One((k \in rt.owned)') - One(k \in rt.owned) + T.wakers - tk[k].wakers + d + e
  BY <1>8, <1>11, Referenced DEF One, Alike, TaskTyped
<1>14. d = 1 => T.word.notified /\ ~tk[k].word.running /\ ~tk[k].word.notified
  BY <1>8
<1> QED
  BY <1>2, <1>5, <1>6, <1>7, <1>8, <1>12, <1>13, <1>14, PlainStep

\* A thread that polls a task has a reference to it.
LEMMA PollingFacts ==
  ASSUME Inv, NEW t \in Threads, th[t].pc \in PollPlaces
  PROVE  /\ th[t].task \in Tasks /\ th[t].cont = "lifo" /\ Place(t) = th[t].pc
         /\ PlaceOf(th[t]) = th[t].pc /\ th[t].pc \notin Scheduling
         /\ ~At(t, "submit") /\ t \in Actors
         /\ NotifiedShare(t, th[t].task) = 0 /\ OtherShare(t, th[t].task) = 1
         /\ Where(t, th[t].task) = "body"
         /\ \A j : j # th[t].task => Free(t, j) /\ Where(t, j) \in Neutral
         /\ OtherHands(th[t].task) > 0 /\ tk[th[t].task].handle # "none"
<1>1. ThreadFits(th[t]) /\ t \in Actors
  BY ThreadFacts
<1>2. th[t].pc \notin Scheduling /\ th[t].pc \in TaskPlaces /\ th[t].pc \notin FinishPlaces
  BY DEF PollPlaces, Scheduling, TaskPlaces, FinishPlaces
<1>3. /\ Place(t) = th[t].pc /\ PlaceOf(th[t]) = th[t].pc /\ ~At(t, "submit")
  BY <1>2 DEF Place, PlaceOf, At, Scheduling
<1>4. th[t].task \in Tasks /\ th[t].cont = "lifo"
  BY <1>1, <1>2, <1>3 DEF ThreadFits, Shaped
<1>5. /\ NotifiedShare(t, th[t].task) = 0 /\ OtherShare(t, th[t].task) = 1
      /\ Where(t, th[t].task) = "body"
  BY <1>3, PollingIs
<1>6. ASSUME NEW j, j # th[t].task PROVE Free(t, j) /\ Where(t, j) \in Neutral
  BY <1>3, <1>6, FreeIs, NeutralIs
<1>7. OtherHands(th[t].task) > 0 /\ tk[th[t].task].handle # "none"
  BY <1>1, <1>4, <1>5, Referenced
<1> QED
  BY <1>1, <1>2, <1>3, <1>4, <1>5, <1>6, <1>7

LEMMA WakeKeeps ==
  ASSUME Inv, NEW t \in Threads, Wake(t)
  PROVE  Inv'
<1>1. PICK k \in Tasks :
        /\ th[t].pc \in {"body", "blocked"} /\ (k = th[t].task \/ tk[k].wakers > 0)
        /\ SetWord(k, NotifiedByRef(tk[k].word).next)
        /\ IF NotifiedByRef(tk[k].word).action = "Submit"
           THEN Goes(t, [pc |-> "submit", wake |-> k, then |-> th[t].pc,
                         yield |-> FALSE, drops |-> FALSE])
           ELSE UNCHANGED th
        /\ rt' = rt /\ client' = client
  BY DEF Wake
<1> DEFINE r == NotifiedByRef(tk[k].word)
           T == [tk[k] EXCEPT !.word = r.next]
           s == r.action = "Submit"
<1>2. th[t].pc \in PollPlaces /\ t \in DOMAIN th /\ ActorsFit
  BY <1>1, ThreadFacts DEF PollPlaces, Inv
<1>3. t \in Actors /\ th[t].pc \notin Scheduling /\ tk[k].handle # "none"
  BY <1>1, <1>2, PollingFacts, Referenced
<1>4. TaskTyped(tk[k])
  BY <1>3, Referenced
<1>5. r = NotifiedByRef(tk[k].word) /\ Reworded(T, tk[k], r.next, tk[k].wakers) /\ (s <=> r.action = "Submit")
  BY <1>4 DEF Reworded, TaskTyped
<1>6. /\ Alike(T, tk[k]) /\ T.wakers = tk[k].wakers
      /\ s => /\ T.word.notified /\ ~tk[k].word.notified /\ ~tk[k].word.running
              /\ T.word.refs = tk[k].word.refs + 1
      /\ ~s => T.word.refs = tk[k].word.refs
  <2> HIDE DEF r, T, s
  <2>1. /\ Alike(T, tk[k]) /\ T.wakers = tk[k].wakers
        /\ r.action = "Submit" => /\ T.word.notified /\ ~tk[k].word.notified /\ ~tk[k].word.running
                                  /\ T.word.refs = tk[k].word.refs + 1
        /\ r.action # "Submit" => T.word.refs = tk[k].word.refs
    BY <1>4, <1>5, ByRefIs
  <2> QED
    BY <1>5, <2>1
<1>7. Becomes(k, T)
  BY <1>1 DEF Becomes, SetWord, SetTask
<1>8. /\ s => /\ Begins(t, k, FALSE) /\ th' = [b \in Actors |-> th'[b]] /\ Same({t})
              /\ DOMAIN th'[t] = Fields
      /\ ~s => th' = th
  BY <1>1, <1>2, <1>3, BeginsIs, GoesOnlyOne
<1> HIDE DEF s, T
<1>9. T.word.refs - tk[k].word.refs
        = T.wakers - tk[k].wakers + (IF s THEN 1 ELSE 0) + (IF s /\ FALSE THEN 1 ELSE 0)
  BY <1>4, <1>6 DEF TaskTyped
<1> QED
  BY <1>1, <1>3, <1>6, <1>7, <1>8, <1>9, NotifyStep DEF s

\* The main thread and the source, in their own places.
LEMMA OthersFacts ==
  ASSUME Inv
  PROVE  /\ Main \in Actors /\ Main \in DOMAIN th /\ MainFits(th[Main]) /\ Main \notin Threads
         /\ Source \in Actors /\ Source \in DOMAIN th /\ SourceFits(th[Source])
         /\ Source \notin Threads /\ Main # Source
         /\ ActorsFit /\ QueuesTyped /\ CoresPlaced /\ TasksInv
BY RolesDiffer, ActorsAssumption DEF Inv, ActorsFit

LEMMA AbortKeeps ==
  ASSUME Inv, Abort
  PROVE  Inv'
<1>1. PICK k \in Tasks :
        /\ th[Main].pc = "main" /\ tk[k].handle = "held"
        /\ SetWord(k, NotifiedAndCancelled(tk[k].word).next)
        /\ IF NotifiedAndCancelled(tk[k].word).action = "Submit"
           THEN Goes(Main, [pc |-> "submit", wake |-> k, then |-> "main",
                            yield |-> FALSE, drops |-> FALSE])
           ELSE UNCHANGED th
        /\ rt' = rt /\ client' = client
  BY DEF Abort, At, HasHandle
<1> DEFINE r == NotifiedAndCancelled(tk[k].word)
           T == [tk[k] EXCEPT !.word = r.next]
           s == r.action = "Submit"
<1>2. Main \in Actors /\ Main \in DOMAIN th /\ "main" \notin Scheduling /\ ActorsFit
  BY OthersFacts DEF Scheduling
<1>3. TaskTyped(tk[k])
  BY <1>2, Referenced
<1>4. /\ r = NotifiedAndCancelled(tk[k].word) /\ Reworded(T, tk[k], r.next, tk[k].wakers)
      /\ (s <=> r.action = "Submit")
  BY <1>3 DEF Reworded, TaskTyped
<1>5. /\ Alike(T, tk[k]) /\ T.wakers = tk[k].wakers
      /\ s => /\ T.word.notified /\ ~tk[k].word.notified /\ ~tk[k].word.running
              /\ T.word.refs = tk[k].word.refs + 1
      /\ ~s => T.word.refs = tk[k].word.refs
  <2> HIDE DEF r, T, s
  <2>1. /\ Alike(T, tk[k]) /\ T.wakers = tk[k].wakers
        /\ r.action = "Submit" => /\ T.word.notified /\ ~tk[k].word.notified /\ ~tk[k].word.running
                                  /\ T.word.refs = tk[k].word.refs + 1
        /\ r.action # "Submit" => T.word.refs = tk[k].word.refs
    BY <1>3, <1>4, ByRefIs
  <2> QED
    BY <1>4, <2>1
<1>6. Becomes(k, T)
  BY <1>1 DEF Becomes, SetWord, SetTask
<1>7. /\ s => /\ Begins(Main, k, FALSE) /\ th' = [b \in Actors |-> th'[b]] /\ Same({Main})
              /\ DOMAIN th'[Main] = Fields
      /\ ~s => th' = th
  BY <1>1, <1>2, BeginsIs, GoesOnlyOne
<1> HIDE DEF s, T
<1>8. T.word.refs - tk[k].word.refs
        = T.wakers - tk[k].wakers + (IF s THEN 1 ELSE 0) + (IF s /\ FALSE THEN 1 ELSE 0)
  BY <1>3, <1>5 DEF TaskTyped
<1> QED
  BY <1>1, <1>2, <1>5, <1>6, <1>7, <1>8, NotifyStep DEF s

LEMMA RegisterKeeps ==
  ASSUME Inv, NEW t \in Threads, Register(t)
  PROVE  Inv'
<1> DEFINE k == th[t].task
           T == [tk[k] EXCEPT !.word = RefInc(@), !.wakers = @ + 1]
<1>1. /\ th[t].pc \in PollPlaces /\ th' = th /\ rt' = rt /\ client' = client
      /\ tk' = [tk EXCEPT ![k].word = RefInc(@), ![k].wakers = @ + 1]
  BY DEF Register, At, PollPlaces
<1>2. /\ t \in Actors /\ k \in Tasks /\ tk[k].handle # "none" /\ OtherHands(k) > 0
  BY <1>1, PollingFacts
<1>3. /\ TaskTyped(tk[k]) /\ Notifieds(k) \in Nat /\ OtherHands(k) \in Nat
      /\ tk[k].word.refs = One(k \in rt.owned) + One(tk[k].handle = "held") + tk[k].wakers
                                + Notifieds(k) + OtherHands(k)
  BY <1>2, Referenced
<1>4. /\ tk[k].word.refs \in Nat /\ tk[k].wakers \in Nat
      /\ tk[k].word.refs + 1 \in Int /\ tk[k].wakers + 1 \in Nat
  BY <1>3 DEF One, TaskTyped
<1>5. tk' = [tk EXCEPT ![k] = T]
  BY <1>1, <1>2, <1>3 DEF Inv, TasksInv, TaskTyped
<1>6. Reworded(T, tk[k], RefInc(tk[k].word), tk[k].wakers + 1)
  BY <1>3 DEF Reworded, TaskTyped
<1>7. RefInc(tk[k].word) = [tk[k].word EXCEPT !.refs = tk[k].word.refs + 1]
  BY DEF RefInc
<1> HIDE DEF T
<1>8. Alike(T, tk[k]) /\ T.wakers = tk[k].wakers + 1 /\ T.word.refs = tk[k].word.refs + 1
  BY <1>3, <1>4, <1>6, <1>7, RecountIs
<1>9. Becomes(k, T)
  BY <1>4, <1>5, <1>8 DEF Becomes
<1>10. T.word.refs - tk[k].word.refs
         = T.wakers - tk[k].wakers + (IF FALSE THEN 1 ELSE 0) + (IF FALSE /\ FALSE THEN 1 ELSE 0)
  BY <1>4, <1>8
<1> QED
  BY <1>1, <1>2, <1>8, <1>9, <1>10, NotifyStep

LEMMA SourceWakesKeeps ==
  ASSUME Inv, SourceWakes
  PROVE  Inv'
<1>1. PICK k \in Tasks :
        /\ th[Source].pc = "source" /\ tk[k].wakers > 0
        /\ SetTask(k, [tk[k] EXCEPT !.wakers = @ - 1, !.word = NotifiedByVal(tk[k].word).next])
        /\ IF NotifiedByVal(tk[k].word).action = "Submit"
           THEN Goes(Source, [pc |-> "submit", wake |-> k, then |-> "source",
                              yield |-> FALSE, drops |-> TRUE])
           ELSE UNCHANGED th
        /\ rt' = rt /\ client' = client
  BY DEF SourceWakes, At
<1> DEFINE r == NotifiedByVal(tk[k].word)
           T == [tk[k] EXCEPT !.wakers = @ - 1, !.word = r.next]
           s == r.action = "Submit"
<1>2. Source \in Actors /\ Source \in DOMAIN th /\ "source" \notin Scheduling /\ ActorsFit
  BY OthersFacts DEF Scheduling
<1>3. TaskTyped(tk[k]) /\ tk[k].handle # "none"
  BY <1>1, <1>2, Referenced
<1>4. /\ r = NotifiedByVal(tk[k].word) /\ Reworded(T, tk[k], r.next, tk[k].wakers - 1)
      /\ (s <=> r.action = "Submit")
  BY <1>3 DEF Reworded, TaskTyped
<1>5. /\ Alike(T, tk[k]) /\ T.wakers = tk[k].wakers - 1
      /\ s => /\ T.word.notified /\ ~tk[k].word.notified /\ ~tk[k].word.running
              /\ T.word.refs = tk[k].word.refs + 1
      /\ ~s => T.word.refs = tk[k].word.refs - 1
  <2> HIDE DEF r, T, s
  <2>1. /\ Alike(T, tk[k]) /\ T.wakers = tk[k].wakers - 1 /\ T.word = r.next
        /\ r.action = "Submit" => /\ T.word.notified /\ ~tk[k].word.notified /\ ~tk[k].word.running
                                  /\ r.next.refs = tk[k].word.refs + 1
        /\ r.action # "Submit" => r.next.refs = tk[k].word.refs - 1
    BY <1>1, <1>3, <1>4, ByValIs
  <2> QED
    BY <1>4, <2>1
<1>6. Becomes(k, T)
  BY <1>1 DEF Becomes, SetTask
<1>7. /\ s => /\ Begins(Source, k, TRUE) /\ th' = [b \in Actors |-> th'[b]] /\ Same({Source})
              /\ DOMAIN th'[Source] = Fields
      /\ ~s => th' = th
  BY <1>1, <1>2, BeginsIs, GoesOnlyOne
<1> HIDE DEF s, T
<1>8. T.word.refs - tk[k].word.refs
        = T.wakers - tk[k].wakers + (IF s THEN 1 ELSE 0) + (IF s /\ TRUE THEN 1 ELSE 0)
  BY <1>3, <1>5 DEF TaskTyped
<1> QED
  BY <1>1, <1>2, <1>3, <1>5, <1>6, <1>7, <1>8, NotifyStep DEF s

LEMMA SourceDropsKeeps ==
  ASSUME Inv, SourceDrops
  PROVE  Inv'
<1>1. PICK k \in Tasks :
        /\ tk[k].wakers > 0 /\ SetTask(k, [tk[k] EXCEPT !.wakers = @ - 1, !.word = RefDec(@)])
        /\ rt' = rt /\ th' = th /\ client' = client
  BY DEF SourceDrops
<1> DEFINE T == [tk[k] EXCEPT !.wakers = @ - 1, !.word = RefDec(@)]
<1>2. Source \in Actors
  BY OthersFacts
<1>3. TaskTyped(tk[k]) /\ tk[k].handle # "none"
  BY <1>1, <1>2, Referenced
<1>4. tk[k].word.refs - 1 \in Int /\ tk[k].wakers - 1 \in Nat /\ tk[k].wakers \in Nat
      /\ tk[k].word.refs \in Int
  BY <1>1, <1>3 DEF TaskTyped
<1>5. /\ Reworded(T, tk[k], RefDec(tk[k].word), tk[k].wakers - 1)
      /\ RefDec(tk[k].word) = [tk[k].word EXCEPT !.refs = tk[k].word.refs - 1]
  BY <1>3 DEF Reworded, TaskTyped, RefDec
<1>6. Becomes(k, T)
  BY <1>1 DEF Becomes, SetTask
<1> HIDE DEF T
<1>7. Alike(T, tk[k]) /\ T.wakers = tk[k].wakers - 1 /\ T.word.refs = tk[k].word.refs - 1
  BY <1>3, <1>4, <1>5, RecountIs
<1>8. T.word.refs - tk[k].word.refs
        = T.wakers - tk[k].wakers + (IF FALSE THEN 1 ELSE 0) + (IF FALSE /\ FALSE THEN 1 ELSE 0)
  BY <1>4, <1>7
<1> QED
  BY <1>1, <1>2, <1>3, <1>6, <1>7, <1>8, NotifyStep

\* What ToBack and ToLifo do to the queues.
LEMMA ToBackArrives ==
  ASSUME QueuesTyped, NEW w \in Workers, NEW k \in Tasks, rt' = ToBack(rt, w, k), client' = client
  PROVE  Arrives(k)
<1>1. /\ rt'.lifo = rt.lifo /\ rt'.inject = rt.inject /\ RestKept
      /\ rt'.runq = [rt.runq EXCEPT ![w] = Append(rt.runq[w], k)]
  BY DEF ToBack, RestKept, QueuesTyped, RtFields
<1>2. rt.runq \in [Workers -> Seq(Tasks)] /\ Append(rt.runq[w], k) \in Seq(Tasks)
  BY DEF QueuesTyped
<1>3. RowAdds(rt.runq, rt'.runq, w, k)
  BY <1>1, <1>2 DEF RowAdds, RowSet
<1> QED
  BY <1>1, <1>3, BackArrives

LEMMA ToLifoArrives ==
  ASSUME QueuesTyped, NEW w \in Workers, NEW k \in Tasks, NEW r, r = ToLifo(rt, w, k),
         rt' = r \/ rt' = [r EXCEPT !.token = FALSE], client' = client
  PROVE  Arrives(k)
<1>1. /\ DOMAIN r = RtFields /\ r.lifo = [rt.lifo EXCEPT ![w] = k] /\ r.inject = rt.inject
      /\ r.owned = rt.owned /\ r.slot = rt.slot /\ r.down = rt.down
      /\ r.runq = [rt.runq EXCEPT ![w] = IF rt.lifo[w] = NoTask THEN @ ELSE Append(@, rt.lifo[w])]
  BY DEF ToLifo, QueuesTyped, RtFields
<1>2. /\ DOMAIN rt' = DOMAIN r /\ rt'.lifo = r.lifo /\ rt'.inject = r.inject /\ rt'.runq = r.runq
      /\ rt'.owned = r.owned /\ rt'.slot = r.slot /\ rt'.down = r.down
  BY <1>1 DEF RtFields
<1>3. RestKept /\ rt'.inject = rt.inject
  BY <1>1, <1>2 DEF RestKept
<1>4. SlotSet(rt.lifo, rt'.lifo, w, k)
  BY <1>1, <1>2 DEF SlotSet, QueuesTyped
<1>5. rt.runq \in [Workers -> Seq(Tasks)] /\ rt.lifo[w] \in Tasks \cup {NoTask}
  BY DEF QueuesTyped
<1>6. CASE rt.lifo[w] = NoTask
  <2>1. rt'.runq = rt.runq
    BY <1>1, <1>2, <1>5, <1>6
  <2> QED
    BY <1>3, <1>4, <1>6, <2>1, LifoArrives
<1>7. CASE rt.lifo[w] # NoTask
  <2>1. rt.lifo[w] \in Tasks /\ rt'.runq = [rt.runq EXCEPT ![w] = Append(rt.runq[w], rt.lifo[w])]
    BY <1>1, <1>2, <1>5, <1>7
  <2>2. Append(rt.runq[w], rt.lifo[w]) \in Seq(Tasks)
    BY <1>5, <2>1
  <2>3. RowAdds(rt.runq, rt'.runq, w, rt.lifo[w])
    BY <1>5, <2>1, <2>2 DEF RowAdds, RowSet
  <2> QED
    BY <1>3, <1>4, <2>1, <2>3, LifoArrives
<1> QED
  BY <1>6, <1>7

\* The task that an actor submits goes to a queue, or its Notified is dropped: c of them.
LEMMA SubmitStep ==
  ASSUME Inv, NEW a \in Actors, th[a].pc = "submit", NEW k \in Tasks, k = th[a].wake,
         Resumes(a), th' = [b \in Actors |-> th'[b]], Same({a}), DOMAIN th'[a] = Fields,
         NEW c \in {0, 1}, c = 0 => Arrives(k), c = 1 => Stays,
         NEW T, Becomes(k, T), Alike(T, tk[k]), T.wakers = tk[k].wakers,
         T.word.refs = tk[k].word.refs - (IF th[a].drops THEN 1 ELSE 0) - c
  PROVE  Inv'
<1>1. /\ QueuesTyped' /\ client' = client /\ rt'.owned = rt.owned
      /\ rt'.slot = rt.slot /\ rt'.down = rt.down
      /\ \A j \in Tasks \ {k} : Queued(j)' = Queued(j)
      /\ Queued(k)' = Queued(k) + 1 - c /\ Queued(k) \in Nat
  <2>1. QueuesTyped /\ \A j \in Tasks : Queued(j) \in Nat
    BY CountIs DEF Inv
  <2>2. CASE c = 0
    BY <2>1, <2>2 DEF Arrives
  <2>3. CASE c = 1
    BY <2>1, <2>3 DEF Stays
  <2> QED
    BY <2>2, <2>3
<1>2. ActorsFit /\ CoresPlaced /\ th[a].pc \in Scheduling
  BY DEF Inv, Scheduling
<1>3. ActorsFit' /\ Place(a)' = Place(a) /\ ~At(a, "submit")'
  BY <1>1, <1>2, ResumeFits
<1>4. CoresPlaced'
  BY <1>1, <1>2, CoresStay DEF Resumes
<1>5. ASSUME NEW j \in Tasks
      PROVE  /\ NotifiedShare(a, j)' + (IF j = k THEN 1 ELSE 0) = NotifiedShare(a, j)
             /\ OtherShare(a, j)' + (IF j = k /\ th[a].drops THEN 1 ELSE 0) = OtherShare(a, j)
             /\ Where(a, j)' = Where(a, j)
  <2>1. ~Submits(a, j)' /\ ~Owes(a, j)'
    BY <1>3 DEF Submits, Owes
  <2>2. (Submits(a, j) <=> j = k) /\ (Owes(a, j) <=> j = k /\ th[a].drops)
    BY DEF Submits, Owes, At
  <2>3. th'[a].task = th[a].task /\ th'[a].cont = th[a].cont
    BY DEF Resumes
  <2> QED
    BY <1>3, <2>1, <2>2, <2>3, SubmitShares, SharesTyped
<1>6. ASSUME NEW j \in Tasks \ {k} PROVE Kept(a, j)
  <2>1. NotifiedShare(a, j)' = NotifiedShare(a, j) /\ OtherShare(a, j)' = OtherShare(a, j)
    BY <1>5, SharesTyped
  <2> QED
    BY <1>1, <1>5, <2>1 DEF Kept
<1> DEFINE x == IF th[a].drops THEN 1 ELSE 0
<1>7. x \in {0, 1} /\ OtherShare(a, k)' + x = OtherShare(a, k)
      /\ NotifiedShare(a, k)' + 1 = NotifiedShare(a, k)
      /\ T.word.refs = tk[k].word.refs - x - c
  BY <1>5
<1> HIDE DEF x
<1>8. 0 - c \in {-1, 0, 1} /\ 0 - x \in Int /\ ~(0 - c = 1)
  BY <1>7
<1>9. Moves(a, k, 0 - c, 0 - x)
  <2>1. Queued(k)' + NotifiedShare(a, k)' = Queued(k) + NotifiedShare(a, k) + (0 - c)
    BY <1>1, <1>7, SharesTyped
  <2>2. OtherShare(a, k)' = OtherShare(a, k) + (0 - x)
    BY <1>7, SharesTyped
  <2> QED
    BY <1>6, <2>1, <2>2 DEF Moves, Same
<1>10. T.word.refs - tk[k].word.refs
         = One((k \in rt.owned)') - One(k \in rt.owned) + T.wakers - tk[k].wakers + (0 - c) + (0 - x)
  <2>1. tk[k].word.refs \in Int /\ tk[k].wakers \in Int
    BY Referenced DEF TaskTyped
  <2>2. One((k \in rt.owned)') = One(k \in rt.owned) /\ One(k \in rt.owned) \in Int
    BY <1>1 DEF One
  <2> QED
    BY <1>7, <2>1, <2>2
<1>11. tk[k].handle # "none"
  <2>1. NotifiedShare(a, k) > 0
    BY <1>7, SharesTyped
  <2> QED
    BY <2>1, Referenced
<1> QED
  BY <1>1, <1>3, <1>4, <1>5, <1>8, <1>9, <1>10, <1>11, PlainStep

\* The core of an actor, if it has one, is that of a worker.
LEMMA CoreIs ==
  ASSUME Inv, NEW a \in Actors
  PROVE  /\ a \in DOMAIN th
         /\ th[a].core # NoWorker => th[a].core \in Workers
         /\ th[a].drops \in BOOLEAN
<1>1. CASE a \in Threads
  BY <1>1, ThreadFacts
<1>2. CASE a = Main
  BY <1>2, OthersFacts DEF MainFits, Shaped
<1>3. CASE a = Source
  BY <1>3, OthersFacts DEF SourceFits, Shaped
<1> QED
  BY <1>1, <1>2, <1>3 DEF Actors

LEMMA SubmitKeeps ==
  ASSUME Inv, NEW a \in Actors, Submit(a)
  PROVE  Inv'
<1> DEFINE w == th[a].core
           x == IF th[a].drops THEN 1 ELSE 0
<1>1. th[a].pc = "submit" /\ client' = client
  BY DEF Submit, At
<1>2. /\ ActorsFit /\ QueuesTyped /\ a \in DOMAIN th
  BY CoreIs DEF Inv
<1>3. th[a].wake \in Tasks
  BY <1>1, <1>2, OthersFacts, ThreadFacts DEF Actors, ThreadFits, MainFits, SourceFits, Shaped
<1>4. PICK k \in Tasks : k = th[a].wake
  BY <1>3
<1>5. /\ th[a].pc \in Scheduling /\ "notify" \in Scheduling \ {"submit"}
  BY <1>1 DEF Scheduling
<1>6. th' = [b \in Actors |-> th'[b]] /\ Same({a}) /\ DOMAIN th'[a] = Fields
  BY <1>2, GoesOnlyOne DEF Submit
<1>7. Resumes(a)
  <2>1. PICK p : Goes(a, [pc |-> p, wake |-> NoTask]) /\ (p = "notify" \/ p = th[a].then)
    BY DEF Submit
  <2> QED
    BY <1>5, <2>1, ResumeTo
<1>8. TaskTyped(tk[k])
  BY Referenced
<1>9. x \in {0, 1} /\ tk[k].word.refs \in Int /\ tk[k].wakers \in Nat
  BY <1>8 DEF TaskTyped
<1>10. PICK c \in {0, 1} :
          /\ SetTask(k, [tk[k] EXCEPT !.word.refs = tk[k].word.refs - x - c])
          /\ c = 0 => Arrives(k)
          /\ c = 1 => Stays
  <2>1. CASE w # NoWorker
    <3>1. rt' = ToBack(rt, w, k) \/ rt' = ToLifo(rt, w, k)
      BY <1>4, <2>1 DEF Submit
    <3>2. w \in Workers
      BY <2>1, CoreIs
    <3>3. Arrives(k)
      BY <1>1, <1>2, <3>1, <3>2, ToBackArrives, ToLifoArrives
    <3>4. SetTask(k, [tk[k] EXCEPT !.word.refs = @ - x])
      BY <1>4, <2>1 DEF Submit
    <3>5. [tk[k] EXCEPT !.word.refs = @ - x] = [tk[k] EXCEPT !.word.refs = tk[k].word.refs - x - 0]
      <4>1. tk[k].word.refs - x = tk[k].word.refs - x - 0
        BY <1>9
      <4> QED
        BY <1>8, <4>1 DEF TaskTyped, WordFields
    <3> QED
      BY <3>3, <3>4, <3>5
  <2>2. CASE w = NoWorker
    <3>1. SetTask(k, [tk[k] EXCEPT !.word.refs = @ - x - (IF rt.closed THEN 1 ELSE 0)])
      BY <1>4, <2>2 DEF Submit
    <3>2. rt' = IF rt.closed THEN rt ELSE [rt EXCEPT !.inject = Append(@, k)]
      BY <1>4, <2>2 DEF Submit
    <3>3. CASE rt.closed
      <4>1. Stays
        BY <1>1, <1>2, <3>2, <3>3, QueuesKeptTyped DEF Stays, QueuesKept
      <4>2. SetTask(k, [tk[k] EXCEPT !.word.refs = tk[k].word.refs - x - 1])
        BY <1>8, <3>1, <3>3 DEF TaskTyped, WordFields
      <4> QED
        BY <4>1, <4>2
    <3>4. CASE ~rt.closed
      <4>1. Arrives(k)
        <5>1. /\ rt'.lifo = rt.lifo /\ rt'.runq = rt.runq /\ rt'.inject = Append(rt.inject, k)
              /\ RestKept
          BY <1>1, <1>2, <3>2, <3>4 DEF RestKept, QueuesTyped, RtFields
        <5> QED
          BY <1>2, <5>1, InjectArrives
      <4>2. SetTask(k, [tk[k] EXCEPT !.word.refs = tk[k].word.refs - x - 0])
        BY <1>8, <3>1, <3>4 DEF TaskTyped, WordFields
      <4> QED
        BY <4>1, <4>2
    <3> QED
      BY <3>3, <3>4
  <2> QED
    BY <2>1, <2>2
<1> DEFINE T == [tk[k] EXCEPT !.word.refs = tk[k].word.refs - x - c]
<1>11. Becomes(k, T)
  BY <1>10 DEF Becomes, SetTask
<1>12. Reworded(T, tk[k], T.word, tk[k].wakers)
       /\ T.word = [tk[k].word EXCEPT !.refs = tk[k].word.refs - x - c]
  BY <1>8 DEF Reworded, TaskTyped
<1> HIDE DEF T
<1>13. tk[k].word.refs - x - c \in Int
  BY <1>9
<1>14. Alike(T, tk[k]) /\ T.wakers = tk[k].wakers /\ T.word.refs = tk[k].word.refs - x - c
  BY <1>8, <1>9, <1>12, <1>13, RecountIs
<1> QED
  BY <1>1, <1>4, <1>6, <1>7, <1>10, <1>11, <1>14, SubmitStep

\* A thread that has no task in hand reads an event of the driver.
LEMMA EventStep ==
  ASSUME Inv, NEW t \in Threads, NEW k \in Tasks, Event(th[t].core, k), Walks(t), client' = client,
         th' = [b \in Actors |-> th'[b]], Same({t}), DOMAIN th'[t] = Fields
  PROVE  Inv'
<1> DEFINE w == th[t].core
           r == NotifiedByVal(tk[k].word)
           s == r.action = "Submit"
           W == IF s THEN RefDec(r.next) ELSE r.next
           T == [tk[k] EXCEPT !.wakers = @ - 1, !.word = W]
<1>1. /\ tk[k].wakers > 0 /\ SetTask(k, T)
      /\ rt' = [IF s THEN ToLifo(rt, w, k) ELSE rt EXCEPT !.token = FALSE]
  BY DEF Event
<1>2. /\ t \in Actors /\ ActorsFit /\ QueuesTyped /\ CoresPlaced /\ th[t].pc \in Steps
      /\ ThreadFits(th[t])
  BY ThreadFacts DEF Inv, Walks
<1>3. w \in Workers
  BY <1>2, CoreOf
<1>4. ThreadFits(th[t])' /\ Quiet(t) /\ th'[t].core = th[t].core
  BY <1>2, WalkFits
<1>5. (ActorsFit' /\ CoresPlaced') \/ ~(rt'.slot = rt.slot /\ rt'.down = rt.down)
  BY <1>2, <1>4, ThreadMoved, CoresStay
<1>6. TaskTyped(tk[k]) /\ tk[k].handle # "none"
  BY <1>1, <1>2, Referenced
<1>7. /\ r = NotifiedByVal(tk[k].word) /\ Reworded(T, tk[k], W, tk[k].wakers - 1)
      /\ (s <=> r.action = "Submit")
      /\ W = r.next \/ (W = RefDec(r.next) /\ r.action = "Submit")
      /\ s => W = RefDec(r.next)
      /\ ~s => W = r.next
  BY <1>6 DEF Reworded, TaskTyped
<1>8. Becomes(k, T)
  BY <1>1 DEF Becomes, SetTask
<1>9. s => Arrives(k)
  <2>1. s => rt' = [ToLifo(rt, w, k) EXCEPT !.token = FALSE]
    BY <1>1
  <2> QED
    BY <1>2, <1>3, <2>1, ToLifoArrives
<1>10. ~s => Stays
  <2>1. ~s => rt' = [rt EXCEPT !.token = FALSE]
    BY <1>1
  <2>2. ~s => QueuesKept /\ rt'.slot = rt.slot /\ rt'.down = rt.down
    BY <1>2, <2>1 DEF QueuesTyped, RtFields, QueuesKept
  <2> QED
    BY <1>2, <2>2, QueuesKeptTyped DEF Stays, QueuesKept
<1> HIDE DEF r, W, T, s
<1>11. /\ Alike(T, tk[k]) /\ T.wakers = tk[k].wakers - 1
       /\ s => /\ T.word.notified /\ ~tk[k].word.notified /\ ~tk[k].word.running
               /\ T.word.refs = tk[k].word.refs
       /\ ~s => T.word.refs = tk[k].word.refs - 1
  <2>1. /\ Alike(T, tk[k]) /\ T.wakers = tk[k].wakers - 1 /\ T.word = W
        /\ r.action = "Submit" => /\ T.word.notified /\ ~tk[k].word.notified /\ ~tk[k].word.running
                                  /\ r.next.refs = tk[k].word.refs + 1
                                  /\ RefDec(r.next).refs = tk[k].word.refs
        /\ r.action # "Submit" => r.next.refs = tk[k].word.refs - 1
    BY <1>1, <1>6, <1>7, ByValIs
  <2> QED
    BY <1>7, <2>1
<1> DEFINE d == IF s THEN 1 ELSE 0
<1>12. d \in {-1, 0, 1} /\ (d = 1 <=> s) /\ T.word.refs = tk[k].word.refs - 1 + d
  BY <1>6, <1>11 DEF TaskTyped
<1>13. /\ QueuesTyped' /\ rt'.owned = rt.owned /\ rt'.slot = rt.slot /\ rt'.down = rt.down
       /\ \A j \in Tasks \ {k} : Queued(j)' = Queued(j)
       /\ Queued(k)' = Queued(k) + d /\ Queued(k) \in Nat
  <2>1. \A j \in Tasks : Queued(j) \in Nat
    BY <1>2, CountIs
  <2>2. CASE s
    BY <1>9, <2>1, <2>2 DEF Arrives
  <2>3. CASE ~s
    BY <1>10, <2>1, <2>3 DEF Stays
  <2> QED
    BY <2>2, <2>3
<1> HIDE DEF d
<1>14. ASSUME NEW j \in Tasks
       PROVE  /\ NotifiedShare(t, j)' = NotifiedShare(t, j) /\ OtherShare(t, j)' = OtherShare(t, j)
              /\ Where(t, j)' = Where(t, j) \/ {Where(t, j), Where(t, j)'} \subseteq Neutral
  <2>1. /\ Submits(t, j)' <=> Submits(t, j)
        /\ Owes(t, j)' <=> Owes(t, j)
        /\ Fetched(t, j)' <=> Fetched(t, j)
        /\ Carries(t, j)' <=> Carries(t, j)
        /\ Keeps(t, j)' <=> Keeps(t, j)
        /\ Where(t, j)' = Where(t, j) \/ {Where(t, j), Where(t, j)'} \subseteq Neutral
    BY <1>4, QuietShares
  <2> QED
    BY <2>1 DEF NotifiedShare, OtherShare, One
<1>15. ASSUME NEW j \in Tasks \ {k} PROVE Kept(t, j)
  BY <1>13, <1>14 DEF Kept
<1>16. Moves(t, k, d, 0)
  <2>1. Queued(k)' + NotifiedShare(t, k)' = Queued(k) + NotifiedShare(t, k) + d
    BY <1>12, <1>13, <1>14, SharesTyped
  <2>2. OtherShare(t, k)' = OtherShare(t, k) + 0
    BY <1>14, SharesTyped
  <2> QED
    BY <1>15, <2>1, <2>2 DEF Moves, Same
<1>17. T.word.refs - tk[k].word.refs
         = One((k \in rt.owned)') - One(k \in rt.owned) + T.wakers - tk[k].wakers + d + 0
  <2>1. tk[k].word.refs \in Int /\ tk[k].wakers \in Int
    BY <1>6 DEF TaskTyped
  <2>2. One((k \in rt.owned)') = One(k \in rt.owned) /\ One(k \in rt.owned) \in Int
    BY <1>13 DEF One
  <2> QED
    BY <1>11, <1>12, <2>1, <2>2
<1> QED
  BY <1>2, <1>5, <1>6, <1>8, <1>11, <1>12, <1>13, <1>14, <1>16, <1>17, PlainStep

LEMMA MaintainDriverKeeps ==
  ASSUME Inv, NEW t \in Threads, MaintainDriver(t)
  PROVE  Inv'
<1>1. th' = [b \in Actors |-> th'[b]] /\ Same({t}) /\ DOMAIN th'[t] = Fields
  BY GoesOnlyOne, RolesDiffer DEF MaintainDriver, Inv
<1>2. /\ th[t].pc \in Steps /\ "maintenance" \in Steps /\ client' = client
      /\ \E k \in Tasks : Event(th[t].core, k)
  BY DEF MaintainDriver, At, Steps, CorePlaces
<1>3. PICK p \in {"notify", "maintenance"} : Goes(t, [pc |-> p, then |-> "maintenance"])
  BY DEF MaintainDriver
<1>4. Walks(t)
  BY <1>2, <1>3, WalkTo
<1> QED
  BY <1>1, <1>2, <1>4, EventStep

LEMMA DriverEventKeeps ==
  ASSUME Inv, NEW t \in Threads, DriverEvent(t)
  PROVE  Inv'
<1>1. th' = [b \in Actors |-> th'[b]] /\ Same({t}) /\ DOMAIN th'[t] = Fields
  BY GoesOnlyOne, RolesDiffer DEF DriverEvent, Inv
<1>2. /\ th[t].pc \in Steps /\ "driver done" \in Steps /\ client' = client
      /\ \E k \in Tasks : Event(th[t].core, k)
  BY DEF DriverEvent, At, Steps, CorePlaces
<1>3. Walks(t)
  BY <1>2, WalkTo DEF DriverEvent
<1> QED
  BY <1>1, <1>2, <1>3, EventStep

\* An actor that finishes a task has a reference to it.
LEMMA FinishingFacts ==
  ASSUME Inv, NEW a \in Actors, th[a].pc \in FinishPlaces
  PROVE  /\ th[a].task \in Tasks /\ Place(a) = th[a].pc /\ PlaceOf(th[a]) = th[a].pc
         /\ ~At(a, "submit") /\ a \in DOMAIN th
         /\ a \in Threads => th[a].cont \in {"lifo", "shut all"}
         /\ a = Main => th[a].cont = "drop notified"
         /\ a \in Threads \/ a = Main
         /\ NotifiedShare(a, th[a].task) = (IF th[a].cont = "drop notified" THEN 1 ELSE 0)
         /\ OtherShare(a, th[a].task) = 1 /\ Where(a, th[a].task) = th[a].pc
         /\ \A j : j # th[a].task => Free(a, j) /\ Where(a, j) \in Neutral
         /\ OtherHands(th[a].task) > 0 /\ tk[th[a].task].handle # "none"
         /\ tk[th[a].task].word.refs > 0
<1>1. th[a].pc \notin Scheduling /\ th[a].pc \in TaskPlaces /\ th[a].pc # "source"
  BY DEF FinishPlaces, Scheduling, TaskPlaces
<1>2. Place(a) = th[a].pc /\ PlaceOf(th[a]) = th[a].pc /\ ~At(a, "submit")
  BY <1>1 DEF Place, PlaceOf, At, Scheduling
<1>3. a \in Threads \/ a = Main
  BY <1>1, <1>2, OthersFacts DEF Actors, SourceFits
<1>4. /\ th[a].task \in Tasks
      /\ a \in Threads => th[a].cont \in {"lifo", "shut all"}
      /\ a = Main => th[a].cont = "drop notified"
  BY <1>1, <1>2, <1>3, OthersFacts, ThreadFacts DEF ThreadFits, MainFits, Shaped
<1>5. /\ NotifiedShare(a, th[a].task) = (IF th[a].cont = "drop notified" THEN 1 ELSE 0)
      /\ OtherShare(a, th[a].task) = 1 /\ Where(a, th[a].task) = th[a].pc
  BY <1>2, FinishingIs
<1>6. ASSUME NEW j, j # th[a].task PROVE Free(a, j) /\ Where(a, j) \in Neutral
  BY <1>2, <1>6, FreeIs, NeutralIs
<1>7. OtherHands(th[a].task) > 0 /\ tk[th[a].task].handle # "none"
  <2> DEFINE k == th[a].task
  <2>1. k \in Tasks /\ OtherShare(a, k) = 1
    BY <1>4, <1>5
  <2> HIDE DEF k
  <2>2. OtherHands(k) > 0 /\ tk[k].handle # "none"
    BY <2>1, Referenced
  <2> QED
    BY <2>2 DEF k
<1>8. tk[th[a].task].word.refs > 0
  <2> DEFINE k == th[a].task
             o == One(k \in rt.owned)
             h == One(tk[k].handle = "held")
  <2>1. o \in Nat /\ h \in Nat
    BY DEF One
  <2>2. /\ Notifieds(k) \in Nat /\ OtherHands(k) \in Nat /\ tk[k].wakers \in Nat
        /\ tk[k].word.refs = o + h + tk[k].wakers + Notifieds(k) + OtherHands(k)
    BY <1>4, Referenced DEF TaskTyped
  <2> HIDE DEF o, h, k
  <2>3. OtherHands(k) > 0
    BY <1>7 DEF k
  <2>4. tk[k].word.refs > 0
    BY <2>1, <2>2, <2>3
  <2> QED
    BY <2>4 DEF k
<1>9. a \in DOMAIN th
  BY CoreIs
<1> QED
  BY <1>2, <1>3, <1>4, <1>5, <1>6, <1>7, <1>8, <1>9

\* It goes on with the task.
LEMMA FinishingGoes ==
  ASSUME Inv, NEW a \in Actors, th[a].pc \in FinishPlaces, NEW p \in FinishPlaces,
         Goes(a, [pc |-> p]), rt' = rt, client' = client, NEW k \in Tasks, k = th[a].task
  PROVE  /\ ActorsFit' /\ QueuesTyped' /\ CoresPlaced' /\ Moves(a, k, 0, 0)
         /\ Where(a, k)' = p /\ Same({a})
<1>1. /\ ActorsFit /\ QueuesTyped /\ CoresPlaced /\ a \in DOMAIN th
  BY FinishingFacts DEF Inv
<1>2. th' = [b \in Actors |-> th'[b]] /\ Same({a}) /\ DOMAIN th'[a] = Fields
  BY <1>1, GoesOnlyOne
<1>3. p \notin Scheduling /\ p \in TaskPlaces /\ p \in ThreadPlaces /\ p \in MainPlaces
      /\ p \notin CorePlaces /\ p # "free" /\ p # "blocked"
  BY DEF FinishPlaces, Scheduling, TaskPlaces, ThreadPlaces, MainPlaces, CorePlaces
<1>4. /\ th'[a].pc = p /\ th'[a].task = th[a].task /\ th'[a].cont = th[a].cont
      /\ th'[a].core = th[a].core /\ th'[a].left = th[a].left /\ th'[a].drops = FALSE
  BY <1>1, <1>3 DEF Goes, Unscheduled
<1>5. PlaceOf(th'[a]) = p /\ Place(a)' = p /\ ~At(a, "submit")' /\ th'[a].pc # "submit"
  BY <1>3, <1>4 DEF Place, PlaceOf, At, Scheduling
<1>6. ActorsFit'
  <2>1. Shaped(th'[a])
    BY <1>2, <1>3, <1>4, <1>5, FinishingFacts DEF Shaped
  <2>2. CASE a \in Threads
    <3>1. ThreadFits(th[a]) /\ PlaceOf(th[a]) \in FinishPlaces
      BY <2>2, FinishingFacts, ThreadFacts
    <3>2. ThreadFits(th[a])'
      BY <1>3, <1>4, <1>5, <2>1, <3>1 DEF ThreadFits, Shaped, PlaceOf
    <3> QED
      BY <1>1, <1>2, <2>2, <3>2, ThreadMoved
  <2>3. CASE a = Main
    <3>1. MainFits(th[a]) /\ th[a].cont = "drop notified"
      BY <2>3, FinishingFacts, OthersFacts
    <3>2. MainFits(th[a])'
      BY <1>3, <1>4, <1>5, <2>1, <3>1 DEF MainFits, Shaped, PlaceOf
    <3> QED
      BY <1>1, <1>2, <2>3, <3>2, MainMoved
  <2> QED
    BY <2>2, <2>3, FinishingFacts
<1>7. QueuesTyped' /\ \A j : Queued(j)' = Queued(j)
  BY <1>1, QueuesKeptTyped DEF QueuesKept
<1>8. CoresPlaced'
  BY <1>1, <1>2, <1>4, CoresStay
<1>9. /\ NotifiedShare(a, k)' = NotifiedShare(a, k) /\ OtherShare(a, k)' = OtherShare(a, k)
      /\ Where(a, k)' = p
  <2>1. /\ NotifiedShare(a, k) = (IF th[a].cont = "drop notified" THEN 1 ELSE 0)
        /\ OtherShare(a, k) = 1
    BY FinishingFacts
  <2>2. th'[a].task = k /\ Place(a)' \in FinishPlaces
    BY <1>4, <1>5
  <2>3. /\ NotifiedShare(a, k)' = (IF th'[a].cont = "drop notified" THEN 1 ELSE 0)
        /\ OtherShare(a, k)' = 1 /\ Where(a, k)' = Place(a)'
    BY <1>5, <2>2, FinishingIs
  <2> QED
    BY <1>4, <1>5, <2>1, <2>3
<1>10. ASSUME NEW j \in Tasks \ {k} PROVE Kept(a, j)
  <2>1. Free(a, j) /\ Where(a, j) \in Neutral
    BY FinishingFacts
  <2>2. Free(a, j)' /\ Where(a, j)' \in Neutral
    BY <1>4, <1>5, FreeIs, NeutralIs
  <2> QED
    BY <1>7, <2>1, <2>2 DEF Kept, Free
<1>11. Moves(a, k, 0, 0)
  <2>1. k \in Tasks /\ Queued(k) \in Nat /\ NotifiedShare(a, k) \in Nat /\ OtherShare(a, k) \in Nat
    BY <1>1, CountIs, SharesTyped, FinishingFacts
  <2>2. Queued(k)' = Queued(k)
    BY <1>7
  <2>3. /\ Queued(k)' + NotifiedShare(a, k)' = Queued(k) + NotifiedShare(a, k) + 0
        /\ OtherShare(a, k)' = OtherShare(a, k) + 0
    BY <1>9, <2>1, <2>2
  <2> QED
    BY <1>2, <1>10, <2>3 DEF Moves, Same
<1> QED
  BY <1>2, <1>4, <1>6, <1>7, <1>8, <1>9, <1>11

\* It has finished the task, which is not owned any more, or not its to say.
LEMMA FinishesGoes ==
  ASSUME Inv, NEW a \in Actors, th[a].pc \in FinishPlaces, Finishes(a),
         NEW k \in Tasks, k = th[a].task,
         QueuesTyped', client' = client, \A j \in Tasks : Queued(j)' = Queued(j),
         \A j \in Tasks \ {k} : (j \in rt.owned)' <=> j \in rt.owned,
         rt'.slot = rt.slot, rt'.down = rt.down
  PROVE  /\ ActorsFit' /\ QueuesTyped' /\ CoresPlaced' /\ Moves(a, k, 0, -1)
         /\ Where(a, k)' \in Neutral /\ Same({a})
<1> DEFINE p == th[a].cont
<1>1. /\ ActorsFit /\ QueuesTyped /\ CoresPlaced /\ a \in DOMAIN th /\ k \in Tasks
  BY FinishingFacts DEF Inv
<1>2. th' = [b \in Actors |-> th'[b]] /\ Same({a}) /\ DOMAIN th'[a] = Fields
  BY <1>1, GoesOnlyOne DEF Finishes
<1>3. p \in {"lifo", "shut all", "drop notified"}
  BY FinishingFacts
<1>4. /\ \A q \in {"lifo", "shut all"} :
            /\ q \notin Scheduling /\ q \notin TaskPlaces /\ q \in ThreadPlaces
            /\ q \notin FinishPlaces /\ q \notin Holding /\ q \in Neutral \ PollPlaces
      /\ "drop notified" \notin Scheduling \cup FinishPlaces \cup PollPlaces
      /\ "drop notified" \in MainPlaces /\ "drop notified" \in Neutral
      /\ "lifo" \notin CorePlaces
  BY DEF FinishPlaces, Scheduling, TaskPlaces, ThreadPlaces, MainPlaces, CorePlaces, HandlePlaces,
         PollPlaces, Holding, Neutral
<1>5. /\ th'[a].pc = p /\ th'[a].cont = "lifo"
      /\ th'[a].task = (IF p = "drop notified" THEN k ELSE NoTask)
      /\ th'[a].core = th[a].core /\ th'[a].left = th[a].left /\ th'[a].drops = FALSE
  BY <1>1, <1>3, <1>4 DEF Finishes, Goes, Unscheduled
<1>6. PlaceOf(th'[a]) = p /\ Place(a)' = p /\ ~At(a, "submit")' /\ th'[a].pc # "submit"
  BY <1>3, <1>4, <1>5 DEF Place, PlaceOf, At
<1>7. ActorsFit'
  <2>1. CASE a \in Threads
    <3>1. ThreadFits(th[a]) /\ PlaceOf(th[a]) \in FinishPlaces /\ p \in {"lifo", "shut all"}
      BY <2>1, FinishingFacts, ThreadFacts
    <3>2. Shaped(th'[a])
      BY <1>2, <1>4, <1>5, <1>6, <3>1 DEF Shaped
    <3>3. p = "shut all" => th[a].core # NoWorker
      BY <3>1 DEF ThreadFits
    <3>4. ThreadFits(th[a])'
      BY <1>4, <1>5, <1>6, <3>1, <3>2, <3>3 DEF ThreadFits, Shaped, PlaceOf
    <3> QED
      BY <1>1, <1>2, <2>1, <3>4, ThreadMoved
  <2>2. CASE a = Main
    <3>1. MainFits(th[a]) /\ p = "drop notified"
      BY <2>2, FinishingFacts, OthersFacts
    <3>2. Shaped(th'[a])
      BY <1>1, <1>2, <1>5, <1>6, <3>1 DEF Shaped
    <3>3. MainFits(th[a])'
      BY <1>4, <1>5, <1>6, <3>1, <3>2 DEF MainFits, Shaped, PlaceOf
    <3> QED
      BY <1>1, <1>2, <2>2, <3>3, MainMoved
  <2> QED
    BY <2>1, <2>2, FinishingFacts
<1>8. CoresPlaced'
  BY <1>1, <1>2, <1>5, CoresStay
<1>9. /\ NotifiedShare(a, k)' = NotifiedShare(a, k) /\ OtherShare(a, k)' = 0
      /\ OtherShare(a, k) = 1 /\ Where(a, k)' \in Neutral
  <2>1. /\ NotifiedShare(a, k) = (IF p = "drop notified" THEN 1 ELSE 0)
        /\ OtherShare(a, k) = 1
    BY FinishingFacts
  <2>2. CASE p = "drop notified"
    <3>1. ~Submits(a, k)' /\ ~Owes(a, k)' /\ ~Fetched(a, k)' /\ Carries(a, k)' /\ ~Keeps(a, k)'
      BY <1>4, <1>5, <1>6, <2>2 DEF Submits, Owes, Fetched, Carries, Keeps
    <3>2. NotifiedShare(a, k)' = 1 /\ OtherShare(a, k)' = 0
      BY <3>1 DEF NotifiedShare, OtherShare, One
    <3>3. Where(a, k)' \in Neutral
      BY <1>4, <1>5, <1>6, <2>2, NeutralIs
    <3> QED
      BY <2>1, <2>2, <3>2, <3>3
  <2>3. CASE p # "drop notified"
    <3>1. Free(a, k)' /\ Where(a, k)' \in Neutral
      BY <1>3, <1>4, <1>6, <2>3, FreeIs, NeutralIs
    <3> QED
      BY <2>1, <2>3, <3>1 DEF Free
  <2> QED
    BY <2>2, <2>3
<1>10. ASSUME NEW j \in Tasks \ {k} PROVE Kept(a, j)
  <2>1. Free(a, j) /\ Where(a, j) \in Neutral
    BY FinishingFacts
  <2>2. th'[a].task # j
    BY <1>5, ActorsAssumption
  <2>3. Free(a, j)' /\ Where(a, j)' \in Neutral
    BY <1>6, <2>2, FreeIs, NeutralIs
  <2> QED
    BY <2>1, <2>3 DEF Kept, Free
<1>11. Moves(a, k, 0, -1)
  <2>1. Queued(k) \in Nat /\ NotifiedShare(a, k) \in Nat
    BY <1>1, CountIs, SharesTyped
  <2>2. Queued(k)' = Queued(k)
    OBVIOUS
  <2>3. /\ Queued(k)' + NotifiedShare(a, k)' = Queued(k) + NotifiedShare(a, k) + 0
        /\ OtherShare(a, k)' = OtherShare(a, k) + (-1)
    BY <1>9, <2>1, <2>2
  <2> QED
    BY <1>2, <1>10, <2>3 DEF Moves, Same
<1> QED
  BY <1>2, <1>7, <1>8, <1>9, <1>11

LEMMA QueuedSame ==
  ASSUME rt'.runq = rt.runq, rt'.lifo = rt.lifo, rt'.inject = rt.inject
  PROVE  \A j : Queued(j)' = Queued(j)
BY DEF Queued

LEMMA ReleaseKeeps ==
  ASSUME Inv, NEW a \in Actors, Release(a)
  PROVE  Inv'
<1>1. th[a].pc = "release" /\ client' = client /\ th[a].pc \in FinishPlaces
  BY DEF Release, At, FinishPlaces
<1>2. PICK k \in Tasks : k = th[a].task
  BY <1>1, FinishingFacts
<1> DEFINE n == IF k \in rt.owned THEN 2 ELSE 1
           T == [tk[k] EXCEPT !.word.refs = @ - n]
<1>3. SetTask(k, T) /\ Finishes(a) /\ rt' = [rt EXCEPT !.owned = @ \ {k}]
  BY <1>2 DEF Release
<1>4. QueuesTyped /\ TaskTyped(tk[k])
  BY Referenced DEF Inv
<1>5. /\ QueuesTyped' /\ rt'.runq = rt.runq /\ rt'.lifo = rt.lifo /\ rt'.inject = rt.inject
      /\ rt'.slot = rt.slot /\ rt'.down = rt.down /\ rt'.owned = rt.owned \ {k}
  BY <1>1, <1>3, <1>4 DEF QueuesTyped, RtFields
<1>6. \A j \in Tasks : Queued(j)' = Queued(j)
  BY <1>5, QueuedSame
<1>7. /\ ActorsFit' /\ CoresPlaced' /\ Moves(a, k, 0, -1) /\ Where(a, k)' \in Neutral
  BY <1>1, <1>2, <1>3, <1>5, <1>6, FinishesGoes
<1>8. /\ Where(a, k) \in Neutral /\ tk[k].handle # "none"
  BY <1>1, <1>2, FinishingFacts DEF Neutral
<1>9. Becomes(k, T)
  BY <1>3 DEF Becomes, SetTask
<1>10. n \in {1, 2} /\ (k \in rt.owned <=> n = 2)
  OBVIOUS
<1>11. Reworded(T, tk[k], T.word, tk[k].wakers)
       /\ T.word = [tk[k].word EXCEPT !.refs = tk[k].word.refs - n]
  BY <1>4 DEF Reworded, TaskTyped
<1> HIDE DEF T, n
<1>12. tk[k].word.refs \in Int /\ tk[k].word.refs - n \in Int /\ tk[k].wakers \in Nat
  BY <1>4, <1>10 DEF TaskTyped
<1>13. Alike(T, tk[k]) /\ T.wakers = tk[k].wakers /\ T.word.refs = tk[k].word.refs - n
  BY <1>4, <1>11, <1>12, RecountIs
<1>14. T.word.refs - tk[k].word.refs
         = One((k \in rt.owned)') - One(k \in rt.owned) + T.wakers - tk[k].wakers + 0 + (-1)
  <2>1. One((k \in rt.owned)') = 0 /\ One(k \in rt.owned) = n - 1
    BY <1>5, <1>10 DEF One
  <2> QED
    BY <1>10, <1>12, <1>13, <2>1
<1> QED
  BY <1>5, <1>7, <1>8, <1>9, <1>13, <1>14, PlainStep

\* The task is another one for the actors: Touch, as a step.
LEMMA TouchStep ==
  ASSUME Inv, NEW a \in Actors, NEW k \in Tasks, NEW T, NEW d \in Int, NEW e \in Int,
         ActorsFit', QueuesTyped', CoresPlaced',
         Moves(a, k, d, e), Becomes(k, T), Suits(a, k, T, d, e)
  PROVE  Inv'
<1>1. TasksInv'
  BY Touch DEF Inv
<1> QED
  BY <1>1 DEF Inv

\* What the invariant says of a task.
LEMMA TaskFacts ==
  ASSUME Inv, NEW k \in Tasks
  PROVE  /\ TaskTyped(tk[k]) /\ Balanced(tk[k], k \in rt.owned, Notifieds(k), OtherHands(k))
         /\ \A a \in Actors : Agrees(tk[k], Notifieds(k), Where(a, k))
         /\ \A a, b \in Actors : RunsIt(a, k) /\ RunsIt(b, k) => a = b
         /\ Waits(tk[k], Where(Main, k))
BY DEF Inv, TasksInv, TaskInv

LEMMA AddNothing ==
  ASSUME NEW n \in Nat
  PROVE  n + 0 = n /\ 0 \in Int
OBVIOUS

\* The task T is S completed.
Completed(T, S) ==
  /\ DOMAIN T = DOMAIN S /\ T.word = ToComplete(S.word) /\ T.output = "stored"
  /\ T.wakers = S.wakers /\ T.handle = S.handle

\* An actor completes the task that it runs.
LEMMA CompleteStep ==
  ASSUME Inv, NEW a \in Actors, NEW k \in Tasks, RunsIt(a, k), NEW T,
         Completed(T, tk[k]),
         ActorsFit', QueuesTyped', CoresPlaced', rt' = rt, Moves(a, k, 0, 0), Becomes(k, T),
         Where(a, k)' = "wake join"
  PROVE  Inv'
<1>1. /\ TaskTyped(tk[k]) /\ Balanced(tk[k], k \in rt.owned, Notifieds(k), OtherHands(k))
      /\ \A b \in Actors : Agrees(tk[k], Notifieds(k), Where(b, k))
      /\ \A b \in Actors \ {a} : ~RunsIt(b, k)
      /\ Notifieds(k) \in Nat /\ OtherHands(k) \in Nat
  BY TaskFacts, Referenced
<1>2. tk[k].word.running /\ ~tk[k].word.complete
  BY <1>1 DEF RunsIt, Agrees
<1>3. /\ DOMAIN T = DOMAIN tk[k] /\ T.word = ToComplete(tk[k].word) /\ T.output = "stored"
      /\ T.wakers = tk[k].wakers /\ T.handle = tk[k].handle
  BY <1>1 DEF Completed
<1>4. /\ DOMAIN T.word = WordFields /\ T.word.running = FALSE /\ T.word.complete = TRUE
      /\ T.word.notified = tk[k].word.notified /\ T.word.cancelled = tk[k].word.cancelled
      /\ T.word.joinInterest = tk[k].word.joinInterest /\ T.word.joinWaker = tk[k].word.joinWaker
      /\ T.word.refs = tk[k].word.refs
  BY <1>1, <1>2, <1>3 DEF ToComplete, TaskTyped, WordFields
<1>5. TaskTyped(T)
  <2>1. T.word.running \in BOOLEAN /\ T.word.complete \in BOOLEAN
    BY <1>4
  <2> QED
    BY <1>1, <1>3, <1>4, <2>1 DEF TaskTyped
<1>6. Notifieds(k) + 0 = Notifieds(k) /\ OtherHands(k) + 0 = OtherHands(k) /\ 0 \in Int
  BY <1>1, AddNothing
<1>7. Balanced(T, (k \in rt.owned)', Notifieds(k) + 0, OtherHands(k) + 0)
  <2>1. (k \in rt.owned)' <=> k \in rt.owned
    OBVIOUS
  <2> QED
    BY <1>1, <1>3, <1>4, <1>6, <2>1 DEF Balanced, One
<1>8. ASSUME NEW b \in Actors \ {a} PROVE Agrees(T, Notifieds(k), Where(b, k))
  <2>1. Where(b, k) \notin {"body", "complete"} /\ Agrees(tk[k], Notifieds(k), Where(b, k))
    BY <1>1 DEF RunsIt
  <2> QED
    BY <1>3, <1>4, <2>1 DEF Agrees
<1>9. Agrees(T, Notifieds(k), "wake join")
  BY <1>4 DEF Agrees, HandlePlaces
<1>10. Waits(T, Where(Main, k)')
  <2>1. Where(a, k) # "drop reference" /\ Where(a, k)' # "drop reference"
    BY DEF RunsIt
  <2>2. Waits(tk[k], Where(Main, k)) /\ \A b \in Actors \ {a} : th'[b] = th[b]
    BY TaskFacts DEF Moves
  <2> QED
    BY <1>3, <1>4, <2>1, <2>2, StillWaits
<1>11. ~RunsIt(a, k)'
  BY DEF RunsIt
<1>12. Suits(a, k, T, 0, 0)
  BY <1>5, <1>6, <1>7, <1>8, <1>9, <1>10, <1>11 DEF Suits
<1> QED
  BY <1>6, <1>12, TouchStep

LEMMA CompleteKeeps ==
  ASSUME Inv, NEW a \in Actors, Complete(a)
  PROVE  Inv'
<1>1. /\ th[a].pc = "complete" /\ client' = client /\ rt' = rt /\ th[a].pc \in FinishPlaces
      /\ "wake join" \in FinishPlaces
  BY DEF Complete, At, FinishPlaces
<1>2. PICK k \in Tasks : k = th[a].task
  BY <1>1, FinishingFacts
<1> DEFINE T == [tk[k] EXCEPT !.word = ToComplete(tk[k].word)]
<1>3. SetTask(k, T) /\ Goes(a, [pc |-> "wake join"])
  BY <1>2 DEF Complete, SetWord
<1>4. /\ ActorsFit' /\ QueuesTyped' /\ CoresPlaced' /\ Moves(a, k, 0, 0)
      /\ Where(a, k)' = "wake join"
  BY <1>1, <1>2, <1>3, FinishingGoes
<1>5. Where(a, k) = "complete" /\ RunsIt(a, k)
  BY <1>1, <1>2, FinishingFacts DEF RunsIt
<1>6. tk[k].output = "stored" /\ TaskTyped(tk[k])
  BY <1>5, TaskFacts DEF Agrees
<1>7. Completed(T, tk[k])
  BY <1>6 DEF Completed, TaskTyped
<1>8. Becomes(k, T)
  BY <1>3 DEF Becomes, SetTask
<1> QED
  BY <1>1, <1>4, <1>5, <1>7, <1>8, CompleteStep

\* No reference comes or goes.
LEMMA NothingMoves ==
  ASSUME QueuesTyped, NEW a, NEW k, Queued(k)' = Queued(k),
         NotifiedShare(a, k)' = NotifiedShare(a, k), OtherShare(a, k)' = OtherShare(a, k)
  PROVE  /\ Queued(k)' + NotifiedShare(a, k)' = Queued(k) + NotifiedShare(a, k) + 0
         /\ OtherShare(a, k)' = OtherShare(a, k) + 0
<1>1. Queued(k) \in Nat /\ NotifiedShare(a, k) \in Nat /\ OtherShare(a, k) \in Nat
  BY CountIs, SharesTyped
<1>2. Queued(k) + NotifiedShare(a, k) \in Nat
  BY <1>1
<1>3. /\ Queued(k) + NotifiedShare(a, k) + 0 = Queued(k) + NotifiedShare(a, k)
      /\ OtherShare(a, k) + 0 = OtherShare(a, k)
  BY <1>1, <1>2, AddNothing
<1> QED
  BY <1>3

\* Nobody runs a task that is not running.
LEMMA NobodyRuns ==
  ASSUME Inv, NEW k \in Tasks, ~tk[k].word.running \/ tk[k].word.complete
  PROVE  \A a \in Actors : Where(a, k) \notin {"body", "complete"} /\ ~RunsIt(a, k)
BY TaskFacts DEF Agrees, RunsIt

LEMMA ShutKeeps ==
  ASSUME Inv, NEW a \in Actors, Shut(a)
  PROVE  Inv'
<1>1. /\ th[a].pc = "shut" /\ client' = client /\ rt' = rt /\ th[a].pc \in FinishPlaces
      /\ "complete" \in FinishPlaces
  BY DEF Shut, At, FinishPlaces
<1>2. PICK k \in Tasks : k = th[a].task
  BY <1>1, FinishingFacts
<1> DEFINE r == ToShutdown(tk[k].word)
<1>3. IF r.action = "Taken"
      THEN /\ SetTask(k, [tk[k] EXCEPT !.word = r.next, !.output = "stored"])
           /\ Goes(a, [pc |-> "complete"])
      ELSE SetWord(k, RefDec(r.next)) /\ Finishes(a)
  BY <1>2 DEF Shut
<1>4. /\ TaskTyped(tk[k]) /\ Balanced(tk[k], k \in rt.owned, Notifieds(k), OtherHands(k))
      /\ \A b \in Actors : Agrees(tk[k], Notifieds(k), Where(b, k))
  BY TaskFacts
<1>5. Where(a, k) = "shut" /\ "shut" \in Neutral /\ tk[k].handle # "none"
  BY <1>1, <1>2, FinishingFacts DEF Neutral
<1>6. CASE r.action = "Taken"
  <2> DEFINE T == [tk[k] EXCEPT !.word = r.next, !.output = "stored"]
  <2>1. SetTask(k, T) /\ Goes(a, [pc |-> "complete"])
    BY <1>3, <1>6
  <2>2. /\ ActorsFit' /\ QueuesTyped' /\ CoresPlaced' /\ Moves(a, k, 0, 0)
        /\ Where(a, k)' = "complete"
    BY <1>1, <1>2, <2>1, FinishingGoes
  <2>3. ~tk[k].word.running /\ ~tk[k].word.complete
    BY <1>6 DEF ToShutdown, IsIdle
  <2>4. /\ DOMAIN T = DOMAIN tk[k] /\ T.output = "stored" /\ T.handle = tk[k].handle
        /\ T.wakers = tk[k].wakers /\ T.word = r.next
    BY <1>4 DEF TaskTyped
  <2>5. /\ DOMAIN r.next = WordFields /\ r.next.running = TRUE
        /\ r.next.complete = tk[k].word.complete /\ r.next.cancelled = TRUE
        /\ r.next.notified = tk[k].word.notified /\ r.next.refs = tk[k].word.refs
        /\ r.next.joinInterest = tk[k].word.joinInterest
        /\ r.next.joinWaker = tk[k].word.joinWaker
    BY <1>4, <2>3 DEF ToShutdown, IsIdle, TaskTyped, WordFields
  <2>6. Becomes(k, T)
    BY <2>1 DEF Becomes, SetTask
  <2> HIDE DEF T, r
  <2>7. TaskTyped(T)
    <3>1. T.word.running \in BOOLEAN /\ T.word.cancelled \in BOOLEAN
      BY <2>4, <2>5
    <3> QED
      BY <1>4, <2>4, <2>5, <3>1 DEF TaskTyped
  <2>8. Notifieds(k) + 0 = Notifieds(k) /\ OtherHands(k) + 0 = OtherHands(k) /\ 0 \in Int
    <3>1. Notifieds(k) \in Nat /\ OtherHands(k) \in Nat
      BY Referenced
    <3> QED
      BY <3>1, AddNothing
  <2>9. Balanced(T, (k \in rt.owned)', Notifieds(k) + 0, OtherHands(k) + 0)
    <3>1. (k \in rt.owned)' <=> k \in rt.owned
      BY <1>1
    <3> QED
      BY <1>4, <2>4, <2>5, <2>8, <3>1 DEF Balanced, One
  <2>10. ASSUME NEW b \in Actors PROVE ~RunsIt(b, k) /\ Agrees(T, Notifieds(k), Where(b, k))
    <3>1. Where(b, k) \notin {"body", "complete"} /\ ~RunsIt(b, k)
      BY <2>3, NobodyRuns
    <3> QED
      BY <1>4, <2>4, <2>5, <3>1 DEF Agrees
  <2>11. Agrees(T, Notifieds(k), "complete")
    BY <2>3, <2>4, <2>5 DEF Agrees, HandlePlaces
  <2>12. Waits(T, Where(Main, k)')
    <3>1. Waits(tk[k], Where(Main, k)) /\ \A b \in Actors \ {a} : th'[b] = th[b]
      BY <2>2, TaskFacts DEF Moves
    <3> QED
      BY <1>5, <2>2, <2>4, <2>5, <3>1, StillWaits
  <2>13. Suits(a, k, T, 0, 0)
    BY <2>2, <2>7, <2>8, <2>9, <2>10, <2>11, <2>12 DEF Suits
  <2> QED
    BY <2>2, <2>6, <2>8, <2>13, TouchStep
<1>7. CASE r.action # "Taken"
  <2> DEFINE T == [tk[k] EXCEPT !.word = RefDec(r.next)]
  <2>1. SetTask(k, T) /\ Finishes(a)
    BY <1>3, <1>7 DEF SetWord
  <2>2. QueuesTyped' /\ \A j \in Tasks : Queued(j)' = Queued(j)
    BY <1>1, QueuesKeptTyped DEF Inv, QueuesKept
  <2>3. /\ ActorsFit' /\ CoresPlaced' /\ Moves(a, k, 0, -1) /\ Where(a, k)' \in Neutral
    BY <1>1, <1>2, <2>1, <2>2, FinishesGoes
  <2>4. /\ DOMAIN T = DOMAIN tk[k] /\ T.output = tk[k].output /\ T.handle = tk[k].handle
        /\ T.wakers = tk[k].wakers /\ T.word = RefDec(r.next)
    BY <1>4 DEF TaskTyped
  <2>5. ~(~tk[k].word.running /\ ~tk[k].word.complete)
    BY <1>7 DEF ToShutdown, IsIdle
  <2>6. /\ DOMAIN r.next = WordFields /\ r.next.running = tk[k].word.running
        /\ r.next.complete = tk[k].word.complete /\ r.next.cancelled = TRUE
        /\ r.next.notified = tk[k].word.notified /\ r.next.refs = tk[k].word.refs
        /\ r.next.joinInterest = tk[k].word.joinInterest
        /\ r.next.joinWaker = tk[k].word.joinWaker
    <3>1. (tk[k].word.running \/ (~tk[k].word.running /\ ~tk[k].word.complete)) = tk[k].word.running
      BY <1>4, <2>5 DEF TaskTyped
    <3> QED
      BY <1>4, <3>1 DEF ToShutdown, IsIdle, TaskTyped, WordFields
  <2> HIDE DEF r
  <2>7. /\ DOMAIN T.word = WordFields /\ T.word.running = tk[k].word.running
        /\ T.word.complete = tk[k].word.complete /\ T.word.cancelled = TRUE
        /\ T.word.notified = tk[k].word.notified /\ T.word.refs = tk[k].word.refs - 1
        /\ T.word.joinInterest = tk[k].word.joinInterest
        /\ T.word.joinWaker = tk[k].word.joinWaker
    BY <2>4, <2>6 DEF RefDec, WordFields
  <2>8. Becomes(k, T)
    BY <2>1 DEF Becomes, SetTask
  <2> HIDE DEF T
  <2>9. Alike(T, tk[k])
    <3>1. T.word.cancelled \in BOOLEAN
      BY <2>7
    <3>2. tk[k].word.refs \in Int
      BY <1>4 DEF TaskTyped
    <3>3. T.word.refs \in Int
      BY <2>7, <3>2
    <3>4. TaskTyped(T)
      BY <1>4, <2>4, <2>7, <3>1, <3>3 DEF TaskTyped
    <3> QED
      BY <2>4, <2>7, <3>4 DEF Alike
  <2>10. T.word.refs - tk[k].word.refs
           = One((k \in rt.owned)') - One(k \in rt.owned) + T.wakers - tk[k].wakers + 0 + (-1)
    <3>1. tk[k].word.refs \in Int /\ tk[k].wakers \in Int
      BY <1>4 DEF TaskTyped
    <3>2. One((k \in rt.owned)') = One(k \in rt.owned) /\ One(k \in rt.owned) \in Int
      BY <1>1 DEF One
    <3> QED
      BY <2>4, <2>7, <3>1, <3>2
  <2> QED
    BY <1>5, <2>2, <2>3, <2>8, <2>9, <2>10, PlainStep
<1> QED
  BY <1>6, <1>7

LEMMA WakeJoinKeeps ==
  ASSUME Inv, NEW a \in Actors, WakeJoin(a)
  PROVE  Inv'
<1>1. /\ th[a].pc = "wake join" /\ client' = client /\ rt' = rt /\ th[a].pc \in FinishPlaces
      /\ "release" \in FinishPlaces /\ Goes(a, [pc |-> "release"])
  BY DEF WakeJoin, At, FinishPlaces
<1>2. PICK k \in Tasks : k = th[a].task
  BY <1>1, FinishingFacts
<1>3. /\ ActorsFit' /\ QueuesTyped' /\ CoresPlaced' /\ Moves(a, k, 0, 0)
      /\ Where(a, k)' = "release"
  BY <1>1, <1>2, FinishingGoes
<1>4. /\ TaskTyped(tk[k]) /\ Balanced(tk[k], k \in rt.owned, Notifieds(k), OtherHands(k))
      /\ \A b \in Actors : Agrees(tk[k], Notifieds(k), Where(b, k))
      /\ Waits(tk[k], Where(Main, k))
  BY TaskFacts
<1>5. Where(a, k) = "wake join" /\ tk[k].word.refs > 0 /\ tk[k].word.complete
  BY <1>1, <1>2, <1>4, FinishingFacts DEF Agrees
<1>6. tk = [j \in Tasks |-> tk[j]]
  BY DEF Inv, TasksInv
<1>7. PICK T : /\ tk' = [tk EXCEPT ![k] = T] /\ DOMAIN T = DOMAIN tk[k] /\ T.word = tk[k].word
               /\ T.wakers = tk[k].wakers /\ T.handle = tk[k].handle
               /\ tk[k].word.joinInterest => T.output = tk[k].output
  <2>1. CASE ~tk[k].word.joinInterest
    <3> DEFINE S == [tk[k] EXCEPT !.output = "gone"]
    <3>1. tk' = [tk EXCEPT ![k] = S]
      BY <1>2, <2>1 DEF WakeJoin
    <3>2. /\ DOMAIN S = DOMAIN tk[k] /\ S.word = tk[k].word
          /\ S.wakers = tk[k].wakers /\ S.handle = tk[k].handle
      BY <1>4 DEF TaskTyped
    <3> QED
      BY <2>1, <3>1, <3>2
  <2>2. CASE tk[k].word.joinInterest
    <3>1. tk' = [tk EXCEPT ![k] = tk[k]]
      BY <1>2, <1>6, <2>2 DEF WakeJoin
    <3> QED
      BY <3>1
  <2> QED
    BY <2>1, <2>2
<1>8. Becomes(k, T) /\ TaskTyped(T)
  BY <1>4, <1>5, <1>7 DEF Becomes, TaskTyped
<1>9. Notifieds(k) + 0 = Notifieds(k) /\ OtherHands(k) + 0 = OtherHands(k) /\ 0 \in Int
  <2>1. Notifieds(k) \in Nat /\ OtherHands(k) \in Nat
    BY Referenced
  <2> QED
    BY <2>1, AddNothing
<1>10. Balanced(T, (k \in rt.owned)', Notifieds(k) + 0, OtherHands(k) + 0)
  <2>1. (k \in rt.owned)' <=> k \in rt.owned
    BY <1>1
  <2> QED
    BY <1>4, <1>7, <1>9, <2>1 DEF Balanced, One
<1>11. ASSUME NEW b \in Actors PROVE ~RunsIt(b, k) /\ Agrees(T, Notifieds(k), Where(b, k))
  <2>1. Where(b, k) \notin {"body", "complete"} /\ ~RunsIt(b, k)
    BY <1>5, NobodyRuns
  <2> QED
    BY <1>4, <1>7, <2>1 DEF Agrees
<1>12. Agrees(T, Notifieds(k), "release") /\ ~RunsIt(a, k)'
  BY <1>3 DEF Agrees, HandlePlaces, RunsIt
<1>13. Waits(T, Where(Main, k)')
  <2>1. Where(Main, k) \notin {"drop handle", "drop output", "drop reference"}
          \/ Where(Main, k)' = Where(Main, k)
    <3>1. CASE a = Main
      BY <1>5, <3>1
    <3>2. CASE a # Main
      <4>1. th'[Main] = th[Main]
        BY <1>3, <3>2, OthersFacts DEF Moves
      <4> QED
        BY <4>1 DEF Where, Place
    <3> QED
      BY <3>1, <3>2
  <2> QED
    BY <1>4, <1>7, <2>1 DEF Waits
<1>14. Suits(a, k, T, 0, 0)
  BY <1>3, <1>8, <1>9, <1>10, <1>11, <1>12, <1>13 DEF Suits
<1> QED
  BY <1>3, <1>8, <1>9, <1>14, TouchStep

LEMMA ReturnKeeps ==
  ASSUME Inv, NEW t \in Threads, Return(t)
  PROVE  Inv'
<1>1. th[t].pc = "body" /\ client' = client /\ rt' = rt /\ th[t].pc \in PollPlaces
  BY DEF Return, At, PollPlaces
<1>2. PICK k \in Tasks : k = th[t].task
  BY <1>1, PollingFacts
<1>3. t \in Actors /\ t \in DOMAIN th /\ ThreadFits(th[t]) /\ ActorsFit /\ QueuesTyped /\ CoresPlaced
  BY ThreadFacts DEF Inv
<1>4. /\ PlaceOf(th[t]) = "body" /\ Place(t) = "body" /\ ~At(t, "submit") /\ th[t].cont = "lifo"
      /\ NotifiedShare(t, k) = 0 /\ OtherShare(t, k) = 1 /\ Where(t, k) = "body"
      /\ \A j : j # k => Free(t, j) /\ Where(t, j) \in Neutral
  BY <1>1, <1>2, PollingFacts
<1>5. /\ \A p \in {"idle", "wake join"} :
            p \notin Scheduling /\ p \in ThreadPlaces /\ p \notin CorePlaces /\ p \in TaskPlaces
      /\ "idle" \in PollPlaces /\ "idle" \notin FinishPlaces /\ "wake join" \in FinishPlaces
  BY DEF Scheduling, ThreadPlaces, CorePlaces, TaskPlaces, PollPlaces, FinishPlaces
<1>6. PICK p \in {"idle", "wake join"} :
        /\ Goes(t, [pc |-> p])
        /\ p = "idle" => tk' = tk
        /\ p = "wake join" => SetTask(k, [tk[k] EXCEPT !.word = ToComplete(@), !.output = "stored"])
  <2>1. CASE Goes(t, [pc |-> "idle"]) /\ tk' = tk
    BY <2>1
  <2>2. CASE /\ SetTask(k, [tk[k] EXCEPT !.word = ToComplete(@), !.output = "stored"])
             /\ Goes(t, [pc |-> "wake join"])
    BY <2>2
  <2> QED
    BY <1>2, <2>1, <2>2 DEF Return
<1>7. th' = [b \in Actors |-> th'[b]] /\ Same({t}) /\ DOMAIN th'[t] = Fields
  BY <1>3, <1>6, GoesOnlyOne
<1>8. /\ th'[t].pc = p /\ th'[t].task = k /\ th'[t].cont = "lifo"
      /\ th'[t].core = th[t].core /\ th'[t].left = th[t].left /\ th'[t].drops = FALSE
  BY <1>2, <1>3, <1>4, <1>5, <1>6 DEF Goes, Unscheduled
<1>9. PlaceOf(th'[t]) = p /\ Place(t)' = p /\ ~At(t, "submit")' /\ th'[t].pc # "submit"
  BY <1>5, <1>8 DEF Place, PlaceOf, At
<1>10. ActorsFit'
  <2>1. Shaped(th'[t])
    BY <1>7, <1>8, <1>9 DEF Shaped
  <2>2. ThreadFits(th[t])'
    BY <1>1, <1>3, <1>4, <1>5, <1>8, <1>9, <2>1 DEF ThreadFits, Shaped, PlaceOf
  <2> QED
    BY <1>1, <1>3, <1>7, <2>2, ThreadMoved
<1>11. CoresPlaced'
  BY <1>1, <1>3, <1>7, <1>8, CoresStay
<1>12. QueuesTyped' /\ \A j : Queued(j)' = Queued(j)
  BY <1>1, <1>3, QueuesKeptTyped DEF QueuesKept
<1>13. CASE p = "idle"
  <2>1. Quiet(t)
    BY <1>2, <1>4, <1>5, <1>8, <1>9, <1>13 DEF Quiet, PollPlaces
  <2>2. \A b \in Actors : Quiet(b) \/ th'[b] = th[b]
    BY <1>7, <2>1 DEF Same
  <2> QED
    BY <1>1, <1>6, <1>10, <1>11, <1>13, <2>2, QuietTasks DEF QueuesKept
<1>14. CASE p = "wake join"
  <2>1. NotifiedShare(t, k)' = 0 /\ OtherShare(t, k)' = 1 /\ Where(t, k)' = "wake join"
    BY <1>5, <1>8, <1>9, <1>14, FinishingIs
  <2>2. ASSUME NEW j \in Tasks \ {k} PROVE Kept(t, j)
    <3>1. Free(t, j) /\ Where(t, j) \in Neutral
      BY <1>4
    <3>2. Free(t, j)' /\ Where(t, j)' \in Neutral
      BY <1>8, <1>9, FreeIs, NeutralIs
    <3> QED
      BY <1>1, <1>12, <3>1, <3>2 DEF Kept, Free
  <2>3. Moves(t, k, 0, 0)
    <3>1. Queued(k) \in Nat /\ Queued(k)' = Queued(k)
      BY <1>3, <1>12, CountIs
    <3>2. NotifiedShare(t, k)' = NotifiedShare(t, k) /\ OtherShare(t, k)' = OtherShare(t, k)
      BY <1>4, <2>1
    <3>3. /\ Queued(k)' + NotifiedShare(t, k)' = Queued(k) + NotifiedShare(t, k) + 0
          /\ OtherShare(t, k)' = OtherShare(t, k) + 0
      BY <1>3, <3>1, <3>2, NothingMoves
    <3> QED
      BY <1>7, <2>2, <3>3 DEF Moves, Same
  <2> DEFINE T == [tk[k] EXCEPT !.word = ToComplete(@), !.output = "stored"]
  <2>4. Becomes(k, T)
    BY <1>6, <1>14 DEF Becomes, SetTask
  <2>5. Completed(T, tk[k])
    BY TaskFacts DEF Completed, TaskTyped
  <2>6. RunsIt(t, k)
    BY <1>4 DEF RunsIt
  <2> HIDE DEF T
  <2> QED
    BY <1>1, <1>3, <1>10, <1>11, <1>12, <2>1, <2>3, <2>4, <2>5, <2>6, CompleteStep
<1> QED
  BY <1>13, <1>14

\* After a poll that is pending: what the thread goes on to, as r says.
Idles(t, k, r) ==
  /\ th'[t].core = th[t].core /\ th'[t].cont = th[t].cont /\ th'[t].left = th[t].left
  /\ r.action = "Cancelled" => th'[t].pc = "complete" /\ th'[t].task = k /\ th'[t].drops = FALSE
  /\ r.action = "Ok" => th'[t].pc = "lifo" /\ th'[t].task = NoTask /\ th'[t].drops = FALSE
  /\ r.action = "OkNotified" => /\ th'[t].pc = "submit" /\ th'[t].task = NoTask
                                /\ th'[t].wake = k /\ th'[t].then = "lifo"
                                /\ th'[t].drops = TRUE

LEMMA IdleGoes ==
  ASSUME NEW t \in DOMAIN th, NEW k, Idle(t), k = th[t].task, NEW r, r = ToIdle(tk[k].word)
  PROVE  Idles(t, k, r)
<1>1. r.action \in {"Cancelled", "Ok", "OkNotified"}
  BY DEF ToIdle
<1>2. Goes(t, CASE r.action = "Cancelled" -> [pc |-> "complete"]
                [] r.action = "Ok" -> [pc |-> "lifo", task |-> NoTask]
                [] r.action = "OkNotified" ->
                     [pc |-> "submit", task |-> NoTask, wake |-> k, then |-> "lifo",
                      yield |-> TRUE, drops |-> TRUE])
  BY DEF Idle
<1>3. "submit" \in Scheduling /\ "complete" \notin Scheduling /\ "lifo" \notin Scheduling
  BY DEF Scheduling
<1>4. CASE r.action = "Cancelled"
  <2>1. Goes(t, [pc |-> "complete"])
    BY <1>2, <1>4
  <2> QED
    BY <1>3, <1>4, <2>1 DEF Goes, Unscheduled, Idles
<1>5. CASE r.action = "Ok"
  <2>1. Goes(t, [pc |-> "lifo", task |-> NoTask])
    BY <1>2, <1>5
  <2> QED
    BY <1>3, <1>5, <2>1 DEF Goes, Unscheduled, Idles
<1>6. CASE r.action = "OkNotified"
  <2>1. Goes(t, [pc |-> "submit", task |-> NoTask, wake |-> k, then |-> "lifo",
                 yield |-> TRUE, drops |-> TRUE])
    BY <1>2, <1>6
  <2> QED
    BY <1>3, <1>6, <2>1 DEF Goes, Unscheduled, Idles
<1> QED
  BY <1>1, <1>4, <1>5, <1>6

\* What the thread has of the task then: d Notifieds more, e of the other references.
LEMMA IdleMoves ==
  ASSUME Inv, NEW t \in Threads, NEW k \in Tasks, Idle(t), k = th[t].task,
         NEW r, r = ToIdle(tk[k].word)
  PROVE  /\ ActorsFit' /\ QueuesTyped' /\ CoresPlaced' /\ rt' = rt
         /\ r.action = "Cancelled" => Moves(t, k, 0, 0) /\ Where(t, k)' = "complete"
         /\ r.action = "Ok" => Moves(t, k, 0, -1) /\ Where(t, k)' = "elsewhere"
         /\ r.action = "OkNotified" => Moves(t, k, 1, 0) /\ Where(t, k)' = "elsewhere"
<1>1. th[t].pc = "idle" /\ client' = client /\ rt' = rt /\ th[t].pc \in PollPlaces
  BY DEF Idle, At, PollPlaces
<1>2. /\ t \in Actors /\ t \in DOMAIN th /\ ThreadFits(th[t])
      /\ ActorsFit /\ QueuesTyped /\ CoresPlaced
  BY ThreadFacts DEF Inv
<1>3. /\ PlaceOf(th[t]) = "idle" /\ Place(t) = "idle" /\ ~At(t, "submit") /\ th[t].cont = "lifo"
      /\ NotifiedShare(t, k) = 0 /\ OtherShare(t, k) = 1 /\ Where(t, k) = "body"
      /\ \A j : j # k => Free(t, j) /\ Where(t, j) \in Neutral
  BY <1>1, PollingFacts
<1>4. r.action \in {"Cancelled", "Ok", "OkNotified"}
  BY DEF ToIdle
<1>5. /\ \A p \in {"lifo", "complete"} :
            p \notin Scheduling /\ p \in ThreadPlaces /\ p \notin CorePlaces
      /\ "lifo" \notin TaskPlaces \cup FinishPlaces \cup Holding
      /\ "complete" \in TaskPlaces /\ "complete" \in FinishPlaces /\ "submit" \in Scheduling
      /\ NoTask \notin Tasks
  BY ActorsAssumption
     DEF Scheduling, ThreadPlaces, CorePlaces, TaskPlaces, PollPlaces, FinishPlaces, HandlePlaces,
         Holding
<1>6. th' = [b \in Actors |-> th'[b]] /\ Same({t}) /\ DOMAIN th'[t] = Fields
  BY <1>2, GoesOnlyOne DEF Idle
<1>7. /\ th'[t].core = th[t].core /\ th'[t].cont = "lifo" /\ th'[t].left = th[t].left
      /\ r.action = "Cancelled" => /\ th'[t].pc = "complete" /\ th'[t].task = k
                                   /\ th'[t].drops = FALSE
      /\ r.action = "Ok" => /\ th'[t].pc = "lifo" /\ th'[t].task = NoTask
                            /\ th'[t].drops = FALSE
      /\ r.action = "OkNotified" => /\ th'[t].pc = "submit" /\ th'[t].task = NoTask
                                    /\ th'[t].wake = k /\ th'[t].then = "lifo"
                                    /\ th'[t].drops = TRUE
  <2>1. Idles(t, k, r)
    BY <1>2, IdleGoes
  <2> QED
    BY <1>3, <2>1 DEF Idles
<1>8. /\ PlaceOf(th'[t]) = (IF r.action = "Cancelled" THEN "complete" ELSE "lifo")
      /\ Place(t)' = PlaceOf(th'[t])
      /\ r.action # "OkNotified" => ~At(t, "submit")' /\ th'[t].pc # "submit"
      /\ r.action = "OkNotified" => At(t, "submit")'
  BY <1>4, <1>5, <1>7 DEF Place, PlaceOf, At
<1>9. ActorsFit'
  <2>1. th'[t].drops \in BOOLEAN
    BY <1>4, <1>7
  <2>2. th'[t].pc = "submit" => th'[t].wake \in Tasks
    BY <1>4, <1>7, <1>8
  <2>3. PlaceOf(th'[t]) \in TaskPlaces => th'[t].task \in Tasks
    BY <1>4, <1>5, <1>7, <1>8
  <2>4. Shaped(th'[t])
    BY <1>6, <2>1, <2>2, <2>3 DEF Shaped
  <2>5. PlaceOf(th'[t]) \in {"lifo", "complete"}
    BY <1>8
  <2>6. ThreadFits(th[t])'
    BY <1>1, <1>2, <1>5, <1>7, <2>4, <2>5 DEF ThreadFits, Shaped, PlaceOf
  <2> QED
    BY <1>1, <1>2, <1>6, <2>6, ThreadMoved
<1>10. CoresPlaced'
  BY <1>1, <1>2, <1>6, <1>7, CoresStay
<1>11. QueuesTyped' /\ \A j : Queued(j)' = Queued(j)
  BY <1>1, <1>2, QueuesKeptTyped DEF QueuesKept
<1>12. ASSUME NEW j \in Tasks \ {k} PROVE Kept(t, j)
  <2>1. Free(t, j) /\ Where(t, j) \in Neutral
    BY <1>3
  <2>2. th'[t].task # j
    BY <1>4, <1>5, <1>7
  <2>3. Where(t, j)' \in Neutral
    BY <2>2, NeutralIs
  <2>4. Free(t, j)'
    <3>1. CASE r.action = "OkNotified"
      <4>1. ~Submits(t, j)' /\ ~Owes(t, j)' /\ ~Fetched(t, j)' /\ ~Carries(t, j)' /\ ~Keeps(t, j)'
        BY <1>7, <2>2, <3>1 DEF Submits, Owes, Fetched, Carries, Keeps
      <4> QED
        BY <4>1 DEF NotifiedShare, OtherShare, One, Free
    <3>2. CASE r.action # "OkNotified"
      BY <1>8, <2>2, <3>2, FreeIs
    <3> QED
      BY <3>1, <3>2
  <2> QED
    BY <1>1, <1>11, <2>1, <2>3, <2>4 DEF Kept, Free
<1>13. QueuesTyped /\ Queued(k)' = Queued(k) /\ Queued(k) \in Nat
  BY <1>2, <1>11, CountIs
<1>14. CASE r.action = "Cancelled"
  <2>1. NotifiedShare(t, k)' = 0 /\ OtherShare(t, k)' = 1 /\ Where(t, k)' = "complete"
    BY <1>5, <1>7, <1>8, <1>14, FinishingIs
  <2>2. Moves(t, k, 0, 0)
    <3>1. NotifiedShare(t, k)' = NotifiedShare(t, k) /\ OtherShare(t, k)' = OtherShare(t, k)
      BY <1>3, <2>1
    <3>2. /\ Queued(k)' + NotifiedShare(t, k)' = Queued(k) + NotifiedShare(t, k) + 0
          /\ OtherShare(t, k)' = OtherShare(t, k) + 0
      BY <1>13, <3>1, NothingMoves
    <3> QED
      BY <1>6, <1>12, <3>2 DEF Moves, Same
  <2> QED
    BY <1>1, <1>9, <1>10, <1>11, <1>14, <2>1, <2>2
<1>15. CASE r.action = "Ok"
  <2>1. Free(t, k)' /\ Where(t, k)' = "elsewhere"
    BY <1>5, <1>7, <1>8, <1>15, FreeIs DEF Where
  <2>2. Moves(t, k, 0, -1)
    <3>1. /\ Queued(k)' + NotifiedShare(t, k)' = Queued(k) + NotifiedShare(t, k) + 0
          /\ OtherShare(t, k)' = OtherShare(t, k) + (-1)
      <4>1. /\ NotifiedShare(t, k)' = 0 /\ OtherShare(t, k)' = 0
            /\ NotifiedShare(t, k) = 0 /\ OtherShare(t, k) = 1
        BY <1>3, <2>1 DEF Free
      <4> QED
        BY <1>13, <4>1
    <3> QED
      BY <1>6, <1>12, <3>1 DEF Moves, Same
  <2> QED
    BY <1>1, <1>9, <1>10, <1>11, <1>15, <2>1, <2>2
<1>16. CASE r.action = "OkNotified"
  <2>1. Where(t, k)' = "elsewhere"
    BY <1>5, <1>7, <1>16 DEF Where
  <2>2. NotifiedShare(t, k)' = 1 /\ OtherShare(t, k)' = 1
    <3>1. Submits(t, k)' /\ Owes(t, k)' /\ ~Fetched(t, k)' /\ ~Carries(t, k)' /\ ~Keeps(t, k)'
      BY <1>5, <1>7, <1>8, <1>16 DEF Submits, Owes, Fetched, Carries, Keeps
    <3> QED
      BY <3>1 DEF NotifiedShare, OtherShare, One
  <2>3. Moves(t, k, 1, 0)
    <3>1. /\ Queued(k)' + NotifiedShare(t, k)' = Queued(k) + NotifiedShare(t, k) + 1
          /\ OtherShare(t, k)' = OtherShare(t, k) + 0
      <4>1. NotifiedShare(t, k) = 0 /\ OtherShare(t, k) = 1
        BY <1>3
      <4> QED
        BY <1>13, <2>2, <4>1
    <3> QED
      BY <1>6, <1>12, <3>1 DEF Moves, Same
  <2> QED
    BY <1>1, <1>9, <1>10, <1>11, <1>16, <2>1, <2>3
<1> QED
  BY <1>4, <1>14, <1>15, <1>16

\* The task T is S, with another output or not, and not running any more or still.
Stopped(T, S) ==
  /\ TaskTyped(T)
  /\ T.word.complete = S.word.complete /\ T.word.notified = S.word.notified
  /\ T.word.joinInterest = S.word.joinInterest /\ T.word.joinWaker = S.word.joinWaker
  /\ T.wakers = S.wakers /\ T.handle = S.handle

\* A thread that polled the task k completes it, or is done with it: d Notifieds more,
\* e of the other references.
LEMMA StopStep ==
  ASSUME Inv, NEW t \in Actors, NEW k \in Tasks, Where(t, k) = "body",
         ActorsFit', QueuesTyped', CoresPlaced', rt' = rt,
         NEW T, Becomes(k, T), Stopped(T, tk[k]),
         NEW d \in {0, 1}, NEW e \in {-1, 0}, Moves(t, k, d, e),
         d = 1 => T.word.notified, T.word.refs = tk[k].word.refs + d + e,
         \/ Where(t, k)' = "elsewhere"
         \/ Where(t, k)' = "complete" /\ T.word.running /\ T.output = "stored"
  PROVE  Inv'
<1>1. /\ TaskTyped(tk[k]) /\ Balanced(tk[k], k \in rt.owned, Notifieds(k), OtherHands(k))
      /\ \A b \in Actors : Agrees(tk[k], Notifieds(k), Where(b, k))
      /\ \A a, b \in Actors : RunsIt(a, k) /\ RunsIt(b, k) => a = b
  BY TaskFacts
<1>2. ~tk[k].word.complete /\ Notifieds(k) = 0 /\ OtherHands(k) \in Nat
  <2>1. Notifieds(k) \in Nat /\ OtherHands(k) \in Nat
    BY Referenced
  <2> QED
    BY <1>1, <2>1 DEF Agrees
<1>3. d \in Int /\ e \in Int /\ Notifieds(k) + d = d
  BY <1>2
<1>4. ASSUME NEW b \in Actors \ {t} PROVE ~RunsIt(b, k) /\ Where(b, k) \notin {"body", "complete"}
  BY <1>1 DEF RunsIt
<1>5. \A n : \A b \in Actors \ {t} : Agrees(T, n, Where(b, k))
  <2>1. \A b \in Actors \ {t} : Agrees(tk[k], Notifieds(k), Where(b, k))
    BY <1>1
  <2> QED
    BY <1>4, <2>1 DEF Agrees, Stopped
<1>6. \A n : Agrees(T, n, Where(t, k)')
  BY <1>2 DEF Agrees, Stopped, HandlePlaces
<1>7. Waits(T, Where(Main, k)')
  <2>1. Waits(tk[k], Where(Main, k)) /\ \A b \in Actors \ {t} : th'[b] = th[b]
    BY TaskFacts DEF Moves
  <2>2. /\ Where(t, k) # "drop reference" /\ Where(t, k)' # "drop reference"
        /\ ~T.word.complete /\ T.handle = tk[k].handle
        /\ T.word.joinInterest = tk[k].word.joinInterest
    BY <1>2 DEF Stopped
  <2> QED
    BY <2>1, <2>2, StillWaits
<1>8. Balanced(T, (k \in rt.owned)', Notifieds(k) + d, OtherHands(k) + e)
  <2>1. (k \in rt.owned)' <=> k \in rt.owned
    OBVIOUS
  <2>2. /\ tk[k].word.refs = One(k \in rt.owned) + One(tk[k].handle = "held") + tk[k].wakers
                              + 0 + OtherHands(k)
        /\ tk[k].handle # "none" /\ tk[k].wakers \in Nat
    <3>1. OtherHands(k) > 0
      <4>1. Keeps(t, k)
        BY DEF Where, Keeps, PollPlaces
      <4>2. OtherShare(t, k) > 0
        BY <4>1 DEF OtherShare, One
      <4> QED
        BY <1>2, <4>2, Referenced
    <3>2. tk[k].handle # "none"
      BY <3>1, Referenced
    <3> QED
      BY <1>1, <1>2, <3>2 DEF Balanced, TaskTyped
  <2>3. /\ One((k \in rt.owned)') = One(k \in rt.owned)
        /\ One(T.handle = "held") = One(tk[k].handle = "held")
        /\ One(k \in rt.owned) \in Nat /\ One(tk[k].handle = "held") \in Nat
    BY <2>1 DEF One, Stopped
  <2>4. T.word.refs = One((k \in rt.owned)') + One(T.handle = "held") + T.wakers + d
                       + (OtherHands(k) + e)
    BY <1>2, <2>2, <2>3 DEF Stopped
  <2> QED
    BY <1>3, <2>2, <2>4 DEF Balanced, Stopped
<1>9. Suits(t, k, T, d, e)
  BY <1>4, <1>5, <1>6, <1>7, <1>8 DEF Suits, Stopped
<1> QED
  BY <1>3, <1>9, TouchStep

LEMMA IdleKeeps ==
  ASSUME Inv, NEW t \in Threads, Idle(t)
  PROVE  Inv'
<1>1. th[t].pc = "idle" /\ client' = client /\ rt' = rt /\ th[t].pc \in PollPlaces /\ t \in Actors
  BY DEF Idle, At, PollPlaces, Actors
<1>2. PICK k \in Tasks : k = th[t].task
  BY <1>1, PollingFacts
<1>3. PICK r : r = ToIdle(tk[k].word)
  OBVIOUS
<1> DEFINE T == [tk[k] EXCEPT !.word = r.next,
                             !.output = IF r.action = "Cancelled" THEN "stored" ELSE @]
<1>4. SetTask(k, T)
  BY <1>2, <1>3 DEF Idle
<1>5. TaskTyped(tk[k]) /\ Agrees(tk[k], Notifieds(k), "body") /\ Where(t, k) = "body"
  BY <1>1, <1>2, TaskFacts, PollingFacts
<1>6. /\ DOMAIN T = DOMAIN tk[k] /\ T.word = r.next /\ T.wakers = tk[k].wakers
      /\ T.handle = tk[k].handle /\ (r.action = "Cancelled" => T.output = "stored")
  BY <1>5 DEF TaskTyped
<1>7. Becomes(k, T)
  BY <1>4 DEF Becomes, SetTask
<1>8. /\ ActorsFit' /\ QueuesTyped' /\ CoresPlaced' /\ rt' = rt
      /\ r.action = "Cancelled" => Moves(t, k, 0, 0) /\ Where(t, k)' = "complete"
      /\ r.action = "Ok" => Moves(t, k, 0, -1) /\ Where(t, k)' = "elsewhere"
      /\ r.action = "OkNotified" => Moves(t, k, 1, 0) /\ Where(t, k)' = "elsewhere"
  BY <1>2, <1>3, IdleMoves
<1>9. /\ r.action \in {"Cancelled", "Ok", "OkNotified"}
      /\ r.action = "Cancelled" => r.next = tk[k].word
  BY <1>3 DEF ToIdle
<1>10. /\ DOMAIN r.next = WordFields
       /\ r.action = "Cancelled" => r.next.running = tk[k].word.running
       /\ r.action # "Cancelled" => r.next.running = FALSE
       /\ r.next.complete = tk[k].word.complete /\ r.next.notified = tk[k].word.notified
       /\ r.next.cancelled = tk[k].word.cancelled
       /\ r.next.joinInterest = tk[k].word.joinInterest
       /\ r.next.joinWaker = tk[k].word.joinWaker
  BY <1>3, <1>5 DEF ToIdle, RefInc, RefDec, TaskTyped, WordFields
<1>11. /\ r.action = "Cancelled" => r.next.refs = tk[k].word.refs
       /\ r.action = "Ok" => r.next.refs = tk[k].word.refs - 1
       /\ r.action = "OkNotified" => r.next.refs = tk[k].word.refs + 1 /\ r.next.notified
  BY <1>3, <1>5 DEF ToIdle, RefInc, RefDec, TaskTyped, WordFields
<1>12. Stopped(T, tk[k])
  <2>1. r.next.refs \in Int /\ tk[k].word.refs \in Int
    BY <1>5, <1>9, <1>11 DEF TaskTyped
  <2>2. r.next.running \in BOOLEAN
    BY <1>5, <1>10 DEF TaskTyped
  <2>3. TaskTyped(T)
    <3> HIDE DEF T
    <3> QED
      BY <1>5, <1>6, <1>10, <2>1, <2>2 DEF TaskTyped
  <2> HIDE DEF T
  <2> QED
    BY <1>6, <1>10, <2>3 DEF Stopped
<1> HIDE DEF T
<1>13. tk[k].word.refs \in Int
  BY <1>5 DEF TaskTyped
<1>14. CASE r.action = "Cancelled"
  <2>1. T.word.running /\ T.output = "stored" /\ T.word.refs = tk[k].word.refs + 0 + 0
    BY <1>5, <1>6, <1>10, <1>11, <1>13, <1>14 DEF Agrees
  <2> QED
    BY <1>1, <1>5, <1>7, <1>8, <1>12, <1>14, <2>1, StopStep
<1>15. CASE r.action = "Ok"
  <2>1. T.word.refs = tk[k].word.refs + 0 + (-1)
    BY <1>6, <1>11, <1>13, <1>15
  <2> QED
    BY <1>1, <1>5, <1>7, <1>8, <1>12, <1>15, <2>1, StopStep
<1>16. CASE r.action = "OkNotified"
  <2>1. T.word.refs = tk[k].word.refs + 1 + 0 /\ T.word.notified
    BY <1>6, <1>11, <1>13, <1>16
  <2> QED
    BY <1>1, <1>5, <1>7, <1>8, <1>12, <1>16, <2>1, StopStep
<1> QED
  BY <1>9, <1>14, <1>15, <1>16

\* A thread that looks for a task has none in hand.
LEMMA StepFacts ==
  ASSUME Inv, NEW t \in Threads, th[t].pc \in Steps
  PROVE  /\ Place(t) = th[t].pc /\ PlaceOf(th[t]) = th[t].pc /\ ~At(t, "submit")
         /\ th[t].cont = "lifo" /\ th[t].core # NoWorker
         /\ \A j : /\ Free(t, j) /\ Where(t, j) \in Neutral
                   /\ NotifiedShare(t, j) = 0 /\ OtherShare(t, j) = 0
<1>1. ThreadFits(th[t])
  BY ThreadFacts
<1>2. /\ th[t].pc \notin Scheduling /\ th[t].pc \in CorePlaces
      /\ th[t].pc \notin FinishPlaces \cup PollPlaces
  BY StepsAre
<1>3. th[t].pc \notin {"found", "poll", "drop notified"} /\ th[t].pc \in Neutral
  BY DEF Steps, CorePlaces, Neutral
<1>4. th[t].pc \notin Holding /\ th[t].pc \in Neutral \ PollPlaces
  BY <1>2, <1>3 DEF Holding
<1>5. Place(t) = th[t].pc /\ PlaceOf(th[t]) = th[t].pc
  BY <1>2 DEF Place, PlaceOf
<1>6. ~At(t, "submit") /\ th[t].cont = "lifo" /\ th[t].core # NoWorker
  BY <1>1, <1>2, <1>5 DEF At, ThreadFits, Scheduling
<1>7. ASSUME NEW j PROVE Free(t, j) /\ Where(t, j) \in Neutral
  BY <1>4, <1>5, <1>6, FreeIs, NeutralIs
<1> QED
  BY <1>5, <1>6, <1>7 DEF Free

\* The thread takes the task k from the list of tasks.
Pops(t, k) ==
  /\ At(t, "shut all")
  /\ Goes(t, [pc |-> "shut", task |-> k, cont |-> "shut all"])
  /\ k \in rt.owned /\ rt'.owned = rt.owned \ {k}
  /\ rt'.runq = rt.runq /\ rt'.lifo = rt.lifo /\ rt'.inject = rt.inject
  /\ rt'.slot = rt.slot /\ rt'.down = rt.down /\ DOMAIN rt' = RtFields
  /\ tk' = tk /\ client' = client

\* The thread that shuts the tasks down takes the next one in hand.
LEMMA ShutNext ==
  ASSUME Inv, NEW t \in Threads, NEW k \in Tasks, Pops(t, k)
  PROVE  Inv'
<1>1. t \in Actors /\ t \in DOMAIN th /\ ThreadFits(th[t]) /\ ActorsFit /\ QueuesTyped /\ CoresPlaced
  BY ThreadFacts DEF Inv
<1>2. th[t].pc \in Steps
  BY DEF Steps, CorePlaces, Pops, At
<1>3. /\ th[t].core # NoWorker
      /\ \A j : /\ Free(t, j) /\ Where(t, j) \in Neutral
                /\ NotifiedShare(t, j) = 0 /\ OtherShare(t, j) = 0
  BY <1>2, StepFacts
<1>4. /\ "shut" \notin Scheduling \cup CorePlaces /\ "shut" \in ThreadPlaces \cap TaskPlaces
      /\ "shut" \in FinishPlaces /\ "shut" \in Neutral /\ "shut" \notin {"free", "blocked"}
  BY DEF Scheduling, CorePlaces, ThreadPlaces, TaskPlaces, FinishPlaces, Neutral
<1>5. th' = [b \in Actors |-> th'[b]] /\ Same({t}) /\ DOMAIN th'[t] = Fields
  BY <1>1, GoesOnlyOne DEF Pops
<1>6. /\ th'[t].pc = "shut" /\ th'[t].task = k /\ th'[t].cont = "shut all"
      /\ th'[t].core = th[t].core /\ th'[t].left = th[t].left /\ th'[t].drops = FALSE
  BY <1>1, <1>4 DEF Goes, Unscheduled, Pops
<1>7. Place(t)' = "shut" /\ PlaceOf(th'[t]) = "shut" /\ ~At(t, "submit")' /\ th'[t].pc # "submit"
  BY <1>4, <1>6 DEF Place, PlaceOf, At
<1>8. ActorsFit'
  <2>1. Shaped(th'[t])
    BY <1>5, <1>6, <1>7 DEF Shaped
  <2>2. ThreadFits(th[t])'
    BY <1>1, <1>3, <1>4, <1>6, <1>7, <2>1 DEF ThreadFits, Shaped, PlaceOf, Pops
  <2> QED
    BY <1>1, <1>5, <2>2, ThreadMoved DEF Pops
<1>9. /\ \A j \in Tasks \ {k} : (j \in rt.owned)' <=> j \in rt.owned
      /\ rt'.slot = rt.slot /\ rt'.down = rt.down /\ client' = client /\ tk' = tk
  BY DEF Pops
<1>10. QueuesTyped' /\ \A j : Queued(j)' = Queued(j)
  BY <1>1, QueuedSame DEF QueuesTyped, Pops
<1>11. CoresPlaced'
  BY <1>1, <1>5, <1>6, <1>9, CoresStay
<1>12. NotifiedShare(t, k)' = 0 /\ OtherShare(t, k)' = 1 /\ Where(t, k)' = "shut"
  BY <1>4, <1>6, <1>7, FinishingIs
<1>13. ASSUME NEW j \in Tasks \ {k} PROVE Kept(t, j)
  <2>1. Free(t, j)' /\ Where(t, j)' \in Neutral
    BY <1>6, <1>7, FreeIs, NeutralIs
  <2> QED
    BY <1>3, <1>9, <1>10, <2>1 DEF Kept, Free
<1>14. Moves(t, k, 0, 1)
  <2>1. Queued(k) \in Nat /\ Queued(k)' = Queued(k)
    BY <1>1, <1>10, CountIs
  <2>2. /\ Queued(k)' + NotifiedShare(t, k)' = Queued(k) + NotifiedShare(t, k) + 0
        /\ OtherShare(t, k)' = OtherShare(t, k) + 1
    <3>1. /\ NotifiedShare(t, k) = 0 /\ OtherShare(t, k) = 0
          /\ NotifiedShare(t, k)' = 0 /\ OtherShare(t, k)' = 1
      BY <1>3, <1>12
    <3> QED
      BY <2>1, <3>1
  <2> QED
    BY <1>5, <1>13, <2>2 DEF Moves, Same
<1>15. One(k \in rt.owned) = 1 /\ One((k \in rt.owned)') = 0
  BY DEF One, Pops
<1>16. TaskTyped(tk[k]) /\ tk[k].handle # "none"
  BY <1>1, Referenced DEF Pops
<1>17. tk[k].word.refs \in Int /\ tk[k].wakers \in Nat /\ tk[k].word.refs > 0
  <2>1. /\ Notifieds(k) \in Nat /\ OtherHands(k) \in Nat
        /\ tk[k].word.refs = One(k \in rt.owned) + One(tk[k].handle = "held") + tk[k].wakers
                             + Notifieds(k) + OtherHands(k)
    BY <1>1, Referenced
  <2>2. One(tk[k].handle = "held") \in Nat
    BY DEF One
  <2>3. tk[k].word.refs \in Int /\ tk[k].wakers \in Nat
    BY <1>16 DEF TaskTyped
  <2> DEFINE h == One(tk[k].handle = "held")
  <2> HIDE DEF h
  <2>4. h \in Nat /\ tk[k].word.refs = 1 + h + tk[k].wakers + Notifieds(k) + OtherHands(k)
    BY <1>15, <2>1, <2>2 DEF h
  <2> QED
    BY <2>1, <2>3, <2>4
<1>18. Becomes(k, tk[k]) /\ Alike(tk[k], tk[k])
  <2>1. tk' = [tk EXCEPT ![k] = tk[k]]
    BY <1>9 DEF Inv, TasksInv
  <2> QED
    BY <1>16, <1>17, <2>1 DEF Becomes, Alike
<1>19. tk[k].word.refs - tk[k].word.refs
         = One((k \in rt.owned)') - One(k \in rt.owned) + tk[k].wakers - tk[k].wakers + 0 + 1
  BY <1>15, <1>17
<1> QED
  BY <1>1, <1>3, <1>4, <1>8, <1>9, <1>10, <1>11, <1>12, <1>14, <1>16, <1>18, <1>19, PlainStep

LEMMA ShutAllKeeps ==
  ASSUME Inv, NEW t \in Threads, ShutAll(t)
  PROVE  Inv'
<1>1. th[t].pc = "shut all" /\ tk' = tk /\ client' = client
  BY DEF ShutAll, At
<1>2. ASSUME NEW k \in rt.owned, rt' = [rt EXCEPT !.owned = @ \ {k}],
             Goes(t, [pc |-> "shut", task |-> k, cont |-> "shut all"])
      PROVE  Inv'
  <2>1. k \in Tasks /\ DOMAIN rt = RtFields
    BY DEF Inv, QueuesTyped
  <2>2. /\ rt'.owned = rt.owned \ {k} /\ rt'.runq = rt.runq /\ rt'.lifo = rt.lifo
        /\ rt'.inject = rt.inject /\ rt'.slot = rt.slot /\ rt'.down = rt.down
        /\ DOMAIN rt' = RtFields
    BY <1>2, <2>1 DEF RtFields
  <2> QED
    BY <1>1, <1>2, <2>1, <2>2, ShutNext DEF Pops, At
<1>3. CASE Goes(t, [pc |-> "shut core"]) /\ rt' = rt
  <2>1. th' = [b \in Actors |-> th'[b]] /\ Same({t}) /\ DOMAIN th'[t] = Fields
    BY <1>3, GoesOnlyOne, RolesDiffer DEF Inv
  <2>2. QueuesKept
    BY <1>1, <1>3 DEF QueuesKept
  <2>3. Walks(t)
    BY <1>1, <1>3, LeftTyped, WalkTo DEF Steps, CorePlaces
  <2> QED
    BY <1>1, <1>3, <2>1, <2>2, <2>3, WalkKeeps
<1> QED
  BY <1>2, <1>3 DEF ShutAll

\* The thread shuts its core down, and ends.
Ends(t) ==
  /\ At(t, "shut core") /\ Goes(t, Idling)
  /\ rt'.down = rt.down \cup {th[t].core} /\ rt'.slot = rt.slot
  /\ client' = client

LEMMA EndsIs ==
  ASSUME Inv, NEW t \in Threads, Ends(t)
  PROVE  /\ ActorsFit' /\ CoresPlaced' /\ \A b \in Actors \ {t} : th'[b] = th[b]
         /\ t \in Actors
         /\ \A j : /\ NotifiedShare(t, j) = 0 /\ OtherShare(t, j) = 0 /\ Where(t, j) \in Neutral
                   /\ NotifiedShare(t, j)' = 0 /\ OtherShare(t, j)' = 0 /\ Where(t, j)' \in Neutral
<1>1. t \in Actors /\ t \in DOMAIN th /\ ThreadFits(th[t]) /\ ActorsFit /\ CoresPlaced
  BY ThreadFacts DEF Inv
<1>2. th[t].pc \in Steps
  BY DEF Steps, CorePlaces, Ends, At
<1>3. /\ th[t].core # NoWorker
      /\ \A j : /\ Free(t, j) /\ Where(t, j) \in Neutral
                /\ NotifiedShare(t, j) = 0 /\ OtherShare(t, j) = 0
  BY <1>2, StepFacts
<1>4. /\ "free" \notin Scheduling \cup CorePlaces \cup FinishPlaces \cup TaskPlaces \cup Holding
      /\ "free" \in ThreadPlaces /\ "free" \in Neutral \ PollPlaces
  BY DEF Scheduling, CorePlaces, ThreadPlaces, TaskPlaces, FinishPlaces, Neutral, PollPlaces,
         HandlePlaces, Holding
<1>5. th' = [b \in Actors |-> th'[b]] /\ Same({t}) /\ DOMAIN th'[t] = Fields
  BY <1>1, GoesOnlyOne DEF Ends
<1>6. /\ th'[t].pc = "free" /\ th'[t].cont = "lifo" /\ th'[t].core = NoWorker /\ th'[t].left = {}
      /\ th'[t].drops = FALSE
  BY <1>1, <1>4 DEF Goes, Unscheduled, Idling, Ends
<1>7. Place(t)' = "free" /\ PlaceOf(th'[t]) = "free" /\ ~At(t, "submit")' /\ th'[t].pc # "submit"
  BY <1>4, <1>6 DEF Place, PlaceOf, At
<1>8. ActorsFit'
  <2>1. Shaped(th'[t])
    BY <1>4, <1>5, <1>6, <1>7 DEF Shaped
  <2>2. ThreadFits(th[t])'
    BY <1>1, <1>4, <1>6, <1>7, <2>1 DEF ThreadFits, Shaped, PlaceOf, Ends
  <2> QED
    BY <1>1, <1>5, <2>2, ThreadMoved DEF Ends
<1>9. CoresPlaced'
  <2>1. PICK w \in client.workers : w = th[t].core
    BY <1>1, <1>3 DEF ThreadFits
  <2>2. /\ \A u \in Threads \ {t} : th'[u].core = th[u].core /\ th[u].core # w
        /\ w \notin rt.down /\ w \notin rt.slot
        /\ rt'.down = rt.down \cup {w} /\ rt'.slot = rt.slot /\ client' = client
    BY <1>1, <1>3, <1>5, <2>1, RolesDiffer DEF CoresPlaced, Same, Ends
  <2>3. \A u, v \in Threads : th'[u].core = th'[v].core /\ th'[u].core # NoWorker => u = v
    BY <1>1, <1>6, <2>2 DEF CoresPlaced
  <2>4. \A u \in Threads : th'[u].core \notin rt'.slot \cup rt'.down
    <3>1. NoWorker \notin client.workers
      BY ThreadFacts
    <3> QED
      BY <1>1, <1>6, <2>1, <2>2, <3>1 DEF CoresPlaced
  <2>5. \A v \in client.workers \ (rt'.slot \cup rt'.down) : \E u \in Threads : th'[u].core = v
    BY <1>1, <2>1, <2>2 DEF CoresPlaced
  <2> QED
    BY <1>1, <2>1, <2>2, <2>3, <2>4, <2>5 DEF CoresPlaced
<1>10. \A j : Free(t, j)' /\ Where(t, j)' \in Neutral
  BY <1>4, <1>7, FreeIs, NeutralIs
<1> QED
  BY <1>1, <1>3, <1>5, <1>8, <1>9, <1>10 DEF Same, Free

\* Queues without tasks.
LEMMA CountNothing ==
  ASSUME NEW l, NEW q, NEW i, NEW k \in Tasks,
         \A w \in Workers : l[w] = NoTask /\ q[w] = << >>, i = << >>
  PROVE  Count(l, q, i, k) = 0
<1>1. Slots(l, k) = {}
  BY ActorsAssumption DEF Slots
<1>2. Rows(q, k) = {}
  BY DEF Rows, Row, Places
<1>3. Occ(i, k) = 0
  BY OccEmpty
<1>4. Cardinality({}) = 0
  BY FS_EmptySet
<1> QED
  BY <1>1, <1>2, <1>3, <1>4 DEF Count

\* The task T is S, counted anew.
Recounted(T, S, n) ==
  /\ DOMAIN T = DOMAIN S /\ DOMAIN T.word = DOMAIN S.word
  /\ T.word.running = S.word.running /\ T.word.complete = S.word.complete
  /\ T.word.notified = S.word.notified /\ T.word.cancelled = S.word.cancelled
  /\ T.word.joinInterest = S.word.joinInterest /\ T.word.joinWaker = S.word.joinWaker
  /\ T.word.refs = n
  /\ T.output = S.output /\ T.wakers = S.wakers /\ T.handle = S.handle

\* The queues are drained: the references to k in them are dropped.
LEMMA DrainStep ==
  ASSUME Inv, NEW t \in Threads, Ends(t), NEW k \in Tasks, NEW T,
         Recounted(T, tk[k], tk[k].word.refs - Queued(k)), tk'[k] = Freed(T),
         QueuesTyped', Queued(k)' = 0, rt'.owned = rt.owned
  PROVE  TaskInv(k)'
<1>1. /\ TaskTyped(tk[k]) /\ Balanced(tk[k], k \in rt.owned, Notifieds(k), OtherHands(k))
      /\ \A b \in Actors : Agrees(tk[k], Notifieds(k), Where(b, k))
      /\ Waits(tk[k], Where(Main, k)) /\ TaskInv(k) /\ QueuesTyped
  BY TaskFacts DEF Inv, TasksInv
<1>2. /\ \A b \in Actors \ {t} : th'[b] = th[b]
      /\ t \in Actors /\ t # Main
      /\ NotifiedShare(t, k) = 0 /\ OtherShare(t, k) = 0 /\ Where(t, k) \in Neutral
      /\ NotifiedShare(t, k)' = 0 /\ OtherShare(t, k)' = 0 /\ Where(t, k)' \in Neutral
  BY EndsIs, RolesDiffer
<1>3. /\ Queued(k) \in Nat /\ Notifieds(k) = Queued(k) + NotifiedHands(k)
      /\ NotifiedHands(k) \in Nat /\ OtherHands(k) \in Nat
      /\ NotifiedHands(k)' = NotifiedHands(k) /\ OtherHands(k)' = OtherHands(k)
  <2>1. Queued(k) \in Nat /\ Notifieds(k) = Queued(k) + NotifiedHands(k)
    BY <1>1, CountIs
  <2>2. /\ NotifiedHands(k) \in Nat /\ OtherHands(k) \in Nat
        /\ NotifiedHands(k)' = NotifiedHands(k) - NotifiedShare(t, k) + NotifiedShare(t, k)'
        /\ OtherHands(k)' = OtherHands(k) - OtherShare(t, k) + OtherShare(t, k)'
    BY <1>2, HandsMoved
  <2>3. /\ NotifiedShare(t, k) = 0 /\ OtherShare(t, k) = 0
        /\ NotifiedShare(t, k)' = 0 /\ OtherShare(t, k)' = 0
    BY <1>2
  <2> QED
    BY <2>1, <2>2, <2>3
<1>4. Notifieds(k)' = NotifiedHands(k)
  <2>1. Notifieds(k)' = Queued(k)' + NotifiedHands(k)'
    BY CountIsNext
  <2> QED
    BY <1>3, <2>1
<1>5. /\ Queued(k)' + NotifiedHands(k) - NotifiedShare(t, k) + NotifiedShare(t, k)' = NotifiedHands(k)
      /\ OtherHands(k) - OtherShare(t, k) + OtherShare(t, k)' = OtherHands(k)
  <2>1. /\ NotifiedShare(t, k) = 0 /\ OtherShare(t, k) = 0
        /\ NotifiedShare(t, k)' = 0 /\ OtherShare(t, k)' = 0
    BY <1>2
  <2> QED
    BY <1>3, <2>1
<1>6. TaskTyped(T)
  <2>1. tk[k].word.refs \in Int
    BY <1>1 DEF TaskTyped
  <2>2. T.word.refs \in Int
    BY <1>3, <2>1 DEF Recounted
  <2> QED
    BY <1>1, <2>2 DEF TaskTyped, Recounted
<1>7. Balanced(T, (k \in rt.owned)', NotifiedHands(k), OtherHands(k))
  <2>1. /\ One((k \in rt.owned)') = One(k \in rt.owned) /\ One(k \in rt.owned) \in Nat
        /\ One(T.handle = "held") = One(tk[k].handle = "held") /\ One(tk[k].handle = "held") \in Nat
        /\ T.wakers = tk[k].wakers /\ tk[k].wakers \in Nat
        /\ T.word.refs = tk[k].word.refs - Queued(k)
        /\ tk[k].word.refs = One(k \in rt.owned) + One(tk[k].handle = "held") + tk[k].wakers
                             + Notifieds(k) + OtherHands(k)
    BY <1>1 DEF One, Recounted, Balanced, TaskTyped
  <2>2. T.word.refs = One((k \in rt.owned)') + One(T.handle = "held") + T.wakers
                      + NotifiedHands(k) + OtherHands(k)
    BY <1>3, <2>1
  <2>3. NotifiedHands(k) <= Notifieds(k) /\ Notifieds(k) <= 1
    BY <1>1, <1>3 DEF Balanced
  <2>4. NotifiedHands(k) <= 1 /\ (NotifiedHands(k) = 1 => Notifieds(k) = 1)
    BY <1>3, <2>3
  <2>5. NotifiedHands(k) = 1 => T.word.notified
    BY <1>1, <2>4 DEF Balanced, Recounted
  <2>6. T.handle = "none" => tk[k].word.refs = 0
    BY <1>1 DEF Balanced, Recounted
  <2>7. tk[k].word.refs = 0 => T.word.refs = 0
    BY <1>3, <2>1
  <2> QED
    BY <2>2, <2>4, <2>5, <2>6, <2>7 DEF Balanced
<1>8. \A b \in Actors : Agrees(T, NotifiedHands(k), Where(b, k))
  <2>1. Notifieds(k) = 0 => NotifiedHands(k) = 0
    BY <1>3
  <2> QED
    BY <1>1, <2>1 DEF Agrees, Recounted
<1>9. Agrees(T, NotifiedHands(k), Where(t, k)') /\ ~RunsIt(t, k)'
  BY <1>2 DEF Agrees, Neutral, RunsIt, HandlePlaces, CorePlaces
<1>10. Waits(T, Where(Main, k)')
  <2>1. Where(Main, k)' = Where(Main, k)
    BY <1>2, RolesDiffer DEF Where, Place
  <2> QED
    BY <1>1, <2>1 DEF Waits, Recounted
<1> QED
  BY <1>1, <1>2, <1>4, <1>5, <1>6, <1>7, <1>8, <1>9, <1>10, TaskTouched

LEMMA ShutCoreKeeps ==
  ASSUME Inv, NEW t \in Threads, ShutCore(t)
  PROVE  Inv'
<1>1. /\ th[t].pc = "shut core" /\ client' = client /\ QueuesTyped /\ TasksInv /\ DOMAIN rt = RtFields
      /\ Goes(t, Idling)
  BY DEF ShutCore, At, Inv, QueuesTyped
<1>2. \/ /\ rt' = [rt EXCEPT !.down = rt.down \cup {th[t].core}, !.inject = <<>>,
                             !.lifo = [v \in Workers |-> NoTask], !.runq = [v \in Workers |-> <<>>]]
         /\ tk' = [k \in Tasks |-> Freed([tk[k] EXCEPT !.word.refs = @ - Queued(k)])]
      \/ rt' = [rt EXCEPT !.down = rt.down \cup {th[t].core}] /\ tk' = tk
  BY DEF ShutCore
<1>3. /\ rt'.down = rt.down \cup {th[t].core} /\ rt'.slot = rt.slot /\ rt'.owned = rt.owned
      /\ DOMAIN rt' = RtFields
  BY <1>1, <1>2 DEF RtFields
<1>4. Ends(t)
  BY <1>1, <1>3 DEF Ends, At
<1>5. /\ ActorsFit' /\ CoresPlaced' /\ \A b \in Actors \ {t} : th'[b] = th[b]
      /\ t \in Actors
  BY <1>4, EndsIs
<1>6. CASE /\ rt' = [rt EXCEPT !.down = rt.down \cup {th[t].core}, !.inject = <<>>,
                         !.lifo = [v \in Workers |-> NoTask], !.runq = [v \in Workers |-> <<>>]]
           /\ tk' = [k \in Tasks |-> Freed([tk[k] EXCEPT !.word.refs = @ - Queued(k)])]
  <2>1. /\ rt'.inject = <<>> /\ rt'.lifo = [v \in Workers |-> NoTask]
        /\ rt'.runq = [v \in Workers |-> <<>>]
    BY <1>1, <1>6 DEF RtFields
  <2>2. QueuesTyped'
    <3>1. /\ <<>> \in Seq(Tasks)
          /\ [v \in Workers |-> <<>>] \in [Workers -> Seq(Tasks)]
          /\ [v \in Workers |-> NoTask] \in [Workers -> Tasks \cup {NoTask}]
      OBVIOUS
    <3>2. rt'.runq \in [Workers -> Seq(Tasks)] /\ rt'.lifo \in [Workers -> Tasks \cup {NoTask}]
          /\ rt'.inject \in Seq(Tasks)
      BY <2>1, <3>1
    <3> QED
      BY <1>1, <1>3, <3>2 DEF QueuesTyped
  <2>3. tk' = [k \in Tasks |-> tk'[k]]
    BY <1>6
  <2>4. ASSUME NEW k \in Tasks PROVE TaskInv(k)'
    <3> DEFINE T == [tk[k] EXCEPT !.word.refs = @ - Queued(k)]
    <3>1. tk'[k] = Freed(T)
      BY <1>6
    <3>2. TaskTyped(tk[k])
      BY TaskFacts
    <3>3. Recounted(T, tk[k], tk[k].word.refs - Queued(k))
      BY <3>2 DEF Recounted, TaskTyped, WordFields
    <3>4. Queued(k)' = 0
      <4>1. Count(rt'.lifo, rt'.runq, rt'.inject, k) = 0
        BY <2>1, CountNothing
      <4>2. Queued(k)' = Count(rt'.lifo, rt'.runq, rt'.inject, k)
        BY <2>2, QueuedSumNext DEF Count
      <4> QED
        BY <4>1, <4>2
    <3> HIDE DEF T
    <3> QED
      BY <1>3, <1>4, <2>2, <3>1, <3>3, <3>4, DrainStep
  <2> QED
    BY <1>5, <2>2, <2>3, <2>4 DEF Inv, TasksInv
<1>7. CASE rt' = [rt EXCEPT !.down = rt.down \cup {th[t].core}] /\ tk' = tk
  <2>1. QueuesKept
    BY <1>1, <1>3, <1>7 DEF QueuesKept, RtFields
  <2>2. QueuesTyped' /\ \A k : Queued(k)' = Queued(k)
    BY <1>1, <2>1, QueuesKeptTyped
  <2>3. ASSUME NEW j \in Tasks PROVE Kept(t, j)
    <3>1. /\ NotifiedShare(t, j) = 0 /\ OtherShare(t, j) = 0 /\ Where(t, j) \in Neutral
          /\ NotifiedShare(t, j)' = 0 /\ OtherShare(t, j)' = 0 /\ Where(t, j)' \in Neutral
      BY <1>4, EndsIs
    <3> QED
      BY <1>3, <2>2, <3>1 DEF Kept
  <2>4. TasksInv'
    BY <1>1, <1>5, <1>7, <2>2, <2>3, TasksKept
  <2> QED
    BY <1>5, <2>2, <2>4 DEF Inv
<1> QED
  BY <1>2, <1>6, <1>7

-----------------------------------------------------------------------------
(* The main thread and its handles.                                            *)

JoinPlaces == HandlePlaces \cup {"drop reference"}

\* The main thread has the handle of the task k in hand.
Joins(k) == th[Main].pc \in JoinPlaces /\ th[Main].task = k

LEMMA JoinPlacesAre ==
  ASSUME NEW p \in JoinPlaces
  PROVE  /\ p \notin Scheduling /\ p \notin Holding /\ p \notin FinishPlaces /\ p \notin PollPlaces
         /\ p \in MainPlaces /\ p \in TaskPlaces /\ p # "submit" /\ p # "elsewhere"
<1>1. p \notin Scheduling
  BY DEF JoinPlaces, HandlePlaces, Scheduling
<1>2. p \notin FinishPlaces /\ p \notin PollPlaces
  BY DEF JoinPlaces, HandlePlaces, FinishPlaces, PollPlaces
<1>3. p \notin Holding
  BY <1>2 DEF JoinPlaces, HandlePlaces, Holding
<1>4. p \in MainPlaces /\ p \in TaskPlaces
  BY DEF JoinPlaces, MainPlaces, TaskPlaces
<1>5. p # "submit" /\ p # "elsewhere"
  BY DEF JoinPlaces, HandlePlaces
<1> QED
  BY <1>1, <1>2, <1>3, <1>4, <1>5

\* What it has of tasks then: a handle is no reference in hand.
LEMMA JoinFacts ==
  ASSUME Inv, NEW k, Joins(k)
  PROVE  /\ k \in Tasks /\ Main \in Actors /\ Main \in DOMAIN th
         /\ Place(Main) = th[Main].pc /\ PlaceOf(th[Main]) = th[Main].pc /\ ~At(Main, "submit")
         /\ Where(Main, k) = th[Main].pc
         /\ \A j : Free(Main, j) /\ (j # k => Where(Main, j) = "elsewhere")
         /\ MainFits(th[Main])
<1>1. MainFits(th[Main]) /\ Main \in Actors /\ Main \in DOMAIN th
  BY RolesDiffer DEF Inv, ActorsFit
<1>2. th[Main].pc \in JoinPlaces /\ th[Main].task = k
  BY DEF Joins
<1>3. /\ th[Main].pc \notin Scheduling /\ th[Main].pc \notin Holding
      /\ th[Main].pc \notin PollPlaces /\ th[Main].pc \in TaskPlaces
      /\ th[Main].pc # "submit"
  BY <1>2, JoinPlacesAre
<1>4. Place(Main) = th[Main].pc /\ PlaceOf(th[Main]) = th[Main].pc /\ ~At(Main, "submit")
  BY <1>3 DEF Place, PlaceOf, At
<1>5. k \in Tasks
  BY <1>1, <1>2, <1>3, <1>4 DEF MainFits, Shaped
<1>6. \A j : Free(Main, j)
  BY <1>3, <1>4, FreeIs
<1>7. Where(Main, k) = th[Main].pc /\ \A j : j # k => Where(Main, j) = "elsewhere"
  BY <1>2, <1>3, <1>4 DEF Where
<1> QED
  BY <1>1, <1>4, <1>5, <1>6, <1>7

\* It goes on to the place p, with the handle, or has done with it.
GoesOn(k, p) ==
  \/ p \in JoinPlaces /\ Goes(Main, [pc |-> p])
  \/ p = "elsewhere" /\ Goes(Main, [pc |-> "main", task |-> NoTask])

LEMMA JoinGoes ==
  ASSUME Inv, NEW k, Joins(k), NEW p, GoesOn(k, p), rt' = rt, client' = client
  PROVE  /\ ActorsFit' /\ QueuesTyped' /\ CoresPlaced' /\ Moves(Main, k, 0, 0)
         /\ Where(Main, k)' = p
<1>1. /\ k \in Tasks /\ Main \in Actors /\ Main \in DOMAIN th
      /\ \A j : Free(Main, j) /\ (j # k => Where(Main, j) = "elsewhere")
      /\ MainFits(th[Main])
  BY JoinFacts
<1>2. ActorsFit /\ QueuesTyped /\ CoresPlaced /\ th[Main].task = k
  BY DEF Inv, Joins
<1>3. /\ "main" \notin Scheduling \cup Holding \cup FinishPlaces \cup TaskPlaces \cup PollPlaces
      /\ "main" \in MainPlaces
  BY DEF Scheduling, Holding, FinishPlaces, TaskPlaces, MainPlaces, PollPlaces, HandlePlaces
<1>4. th' = [b \in Actors |-> th'[b]] /\ Same({Main}) /\ DOMAIN th'[Main] = Fields
  BY <1>1, <1>2, GoesOnlyOne DEF GoesOn
<1>5. /\ th'[Main].core = th[Main].core /\ th'[Main].cont = th[Main].cont
      /\ th'[Main].drops = FALSE
      /\ \/ p \in JoinPlaces /\ th'[Main].pc = p /\ th'[Main].task = k
         \/ p = "elsewhere" /\ th'[Main].pc = "main" /\ th'[Main].task = NoTask
  <2>1. CASE p \in JoinPlaces /\ Goes(Main, [pc |-> p])
    <3>1. p \notin Scheduling
      BY <2>1, JoinPlacesAre
    <3> QED
      BY <1>1, <1>2, <2>1, <3>1 DEF Goes, Unscheduled
  <2>2. CASE p = "elsewhere" /\ Goes(Main, [pc |-> "main", task |-> NoTask])
    BY <1>1, <1>3, <2>2 DEF Goes, Unscheduled
  <2> QED
    BY <2>1, <2>2 DEF GoesOn
<1>6. /\ th'[Main].pc \notin Scheduling \cup Holding \cup FinishPlaces \cup PollPlaces
      /\ th'[Main].pc \in MainPlaces /\ th'[Main].pc # "submit"
      /\ th'[Main].pc \in TaskPlaces => th'[Main].task = k
  <2>1. CASE p = "elsewhere"
    <3>1. p \notin JoinPlaces
      BY <2>1 DEF JoinPlaces, HandlePlaces
    <3> QED
      BY <1>3, <1>5, <3>1 DEF Scheduling
  <2>2. CASE p \in JoinPlaces /\ th'[Main].pc = p /\ th'[Main].task = k
    BY <2>2, JoinPlacesAre
  <2> QED
    BY <1>5, <2>1, <2>2
<1>7. Place(Main)' = th'[Main].pc /\ PlaceOf(th'[Main]) = th'[Main].pc /\ ~At(Main, "submit")'
  BY <1>6 DEF Place, PlaceOf, At
<1>8. ActorsFit'
  <2>1. Shaped(th'[Main])
    BY <1>1, <1>4, <1>5, <1>6, <1>7 DEF Shaped
  <2>2. MainFits(th[Main])'
    BY <1>1, <1>5, <1>6, <1>7, <2>1 DEF MainFits, Shaped, PlaceOf
  <2> QED
    BY <1>2, <1>4, <2>2, MainMoved
<1>9. CoresPlaced'
  BY <1>1, <1>2, <1>4, <1>5, CoresStay
<1>10. QueuesTyped' /\ \A j : Queued(j)' = Queued(j)
  BY <1>2, QueuesKeptTyped DEF QueuesKept
<1>11. \A j : Free(Main, j)'
  BY <1>6, <1>7, FreeIs
<1>12. ASSUME NEW j \in Tasks \ {k} PROVE Kept(Main, j)
  <2>1. th'[Main].task # j
    BY <1>5, ActorsAssumption
  <2>2. Where(Main, j) \in Neutral /\ Where(Main, j)' \in Neutral
    BY <1>1, <2>1, NeutralIs DEF Neutral
  <2> QED
    BY <1>1, <1>10, <1>11, <2>2 DEF Kept, Free
<1>13. Moves(Main, k, 0, 0)
  <2>1. NotifiedShare(Main, k)' = NotifiedShare(Main, k) /\ OtherShare(Main, k)' = OtherShare(Main, k)
    BY <1>1, <1>11 DEF Free
  <2>2. /\ Queued(k)' + NotifiedShare(Main, k)' = Queued(k) + NotifiedShare(Main, k) + 0
        /\ OtherShare(Main, k)' = OtherShare(Main, k) + 0
    BY <1>2, <1>10, <2>1, NothingMoves
  <2> QED
    BY <1>4, <1>12, <2>2 DEF Moves, Same
<1>14. Where(Main, k)' = p
  <2>1. CASE p \in JoinPlaces /\ th'[Main].pc = p /\ th'[Main].task = k
    BY <1>6, <1>7, <2>1 DEF Where
  <2>2. CASE p = "elsewhere" /\ th'[Main].task = NoTask
    BY <1>1, <2>2, ActorsAssumption DEF Where
  <2> QED
    BY <1>5, <2>1, <2>2
<1> QED
  BY <1>8, <1>9, <1>10, <1>13, <1>14

\* Nobody else has a handle in hand.
LEMMA OthersPlaces ==
  ASSUME Inv, NEW b \in Actors \ {Main}, NEW k
  PROVE  Where(b, k) \notin JoinPlaces
<1>1. PlaceOf(th[b]) \in ThreadPlaces \cup {"source"}
  <2>1. CASE b \in Threads
    BY <2>1 DEF Inv, ActorsFit, ThreadFits
  <2>2. CASE b = Source
    BY <2>2 DEF Inv, ActorsFit, SourceFits
  <2> QED
    BY <2>1, <2>2 DEF Actors
<1>2. JoinPlaces \cap (ThreadPlaces \cup {"source"}) = {}
  BY DEF JoinPlaces, HandlePlaces, ThreadPlaces, CorePlaces, PollPlaces, FinishPlaces
<1>3. "elsewhere" \notin JoinPlaces /\ "body" \notin JoinPlaces
  BY DEF JoinPlaces, HandlePlaces
<1> QED
  BY <1>1, <1>2, <1>3 DEF Where, Place, PlaceOf

\* The task T is S, joined: its output taken, or its handle dropped, perhaps.
Joined(T, S) ==
  /\ TaskTyped(T)
  /\ T.word.running = S.word.running /\ T.word.complete = S.word.complete
  /\ T.word.notified = S.word.notified /\ T.wakers = S.wakers
  /\ T.output = S.output \/ S.word.complete
  /\ \/ T.handle = S.handle /\ T.word.refs = S.word.refs
     \/ T.handle = "dropped" /\ T.word.refs = S.word.refs - 1

LEMMA JoinStep ==
  ASSUME Inv, NEW k, Joins(k), NEW p, GoesOn(k, p), rt' = rt, client' = client,
         NEW T, Becomes(k, T), Joined(T, tk[k]), Agrees(T, Notifieds(k), p), Waits(T, p)
  PROVE  Inv'
<1>1. k \in Tasks /\ Main \in Actors
  BY JoinFacts
<1>2. /\ ActorsFit' /\ QueuesTyped' /\ CoresPlaced' /\ Moves(Main, k, 0, 0)
      /\ Where(Main, k)' = p
  BY JoinGoes
<1>3. /\ TaskTyped(tk[k]) /\ Balanced(tk[k], k \in rt.owned, Notifieds(k), OtherHands(k))
      /\ \A b \in Actors : Agrees(tk[k], Notifieds(k), Where(b, k))
      /\ Notifieds(k) \in Nat /\ OtherHands(k) \in Nat
  BY <1>1, TaskFacts, Referenced
<1>4. tk[k].handle = "held"
  <2>1. Where(Main, k) \in HandlePlaces \cup {"drop reference"}
    BY JoinFacts DEF Joins, JoinPlaces
  <2> QED
    BY <1>1, <1>3, <2>1 DEF Agrees
<1>5. Notifieds(k) + 0 = Notifieds(k) /\ OtherHands(k) + 0 = OtherHands(k) /\ 0 \in Int
  BY <1>3, AddNothing
<1>6. ASSUME NEW b \in Actors \ {Main} PROVE Agrees(T, Notifieds(k), Where(b, k))
  <2>1. Where(b, k) \notin HandlePlaces \cup {"drop reference"}
    BY OthersPlaces DEF JoinPlaces
  <2>2. Where(b, k) \notin {"take", "drop output", "clear waker", "set waker", "set bit"}
    BY <2>1 DEF HandlePlaces
  <2> QED
    BY <1>3, <2>1, <2>2 DEF Agrees, Joined
<1>7. ~RunsIt(Main, k)'
  <2>1. p \notin {"body", "complete"}
    BY DEF GoesOn, JoinPlaces, HandlePlaces
  <2> QED
    BY <1>2, <2>1 DEF RunsIt
<1>8. Balanced(T, (k \in rt.owned)', Notifieds(k), OtherHands(k))
  <2>1. /\ One((k \in rt.owned)') = One(k \in rt.owned) /\ One(k \in rt.owned) \in Nat
        /\ One(tk[k].handle = "held") = 1
    BY <1>4 DEF One
  <2>2. /\ One(T.handle = "held") \in Nat
        /\ T.word.refs = tk[k].word.refs + One(T.handle = "held") - 1
    <3>1. CASE T.handle = tk[k].handle /\ T.word.refs = tk[k].word.refs
      <4>1. One(T.handle = "held") = 1
        BY <1>4, <3>1 DEF One
      <4>2. tk[k].word.refs \in Int /\ T.word.refs = tk[k].word.refs
        BY <1>3, <3>1 DEF TaskTyped
      <4> QED
        BY <4>1, <4>2
    <3>2. CASE T.handle = "dropped" /\ T.word.refs = tk[k].word.refs - 1
      <4>1. One(T.handle = "held") = 0
        BY <3>2 DEF One
      <4>2. tk[k].word.refs \in Int /\ T.word.refs = tk[k].word.refs - 1
        BY <1>3, <3>2 DEF TaskTyped
      <4> QED
        BY <4>1, <4>2
    <3> QED
      BY <3>1, <3>2 DEF Joined
  <2>3. tk[k].word.refs = One(k \in rt.owned) + One(tk[k].handle = "held") + tk[k].wakers
                            + Notifieds(k) + OtherHands(k)
    BY <1>3 DEF Balanced
  <2>4. T.wakers = tk[k].wakers /\ tk[k].wakers \in Nat
    BY <1>3 DEF Joined, TaskTyped
  <2>5. T.word.refs = One((k \in rt.owned)') + One(T.handle = "held") + T.wakers
                      + Notifieds(k) + OtherHands(k)
    BY <1>3, <2>1, <2>2, <2>3, <2>4
  <2>6. Notifieds(k) <= 1 /\ (Notifieds(k) = 1 => T.word.notified)
    BY <1>3 DEF Balanced, Joined
  <2>7. T.handle # "none"
    BY <1>4 DEF Joined
  <2> QED
    BY <2>5, <2>6, <2>7 DEF Balanced
<1>9. Suits(Main, k, T, 0, 0)
  BY <1>2, <1>5, <1>6, <1>7, <1>8 DEF Suits, Joined
<1> QED
  BY <1>1, <1>2, <1>5, <1>9, TouchStep

\* What the invariant says of the task whose handle the main thread has in hand.
LEMMA JoinedFacts ==
  ASSUME Inv, NEW k, Joins(k)
  PROVE  /\ k \in Tasks /\ TaskTyped(tk[k]) /\ tk[k].handle = "held" /\ tk[k].word.refs > 0
         /\ Agrees(tk[k], Notifieds(k), th[Main].pc) /\ Waits(tk[k], th[Main].pc)
<1>1. k \in Tasks /\ Main \in Actors /\ Where(Main, k) = th[Main].pc
  BY JoinFacts
<1>2. /\ TaskTyped(tk[k]) /\ Agrees(tk[k], Notifieds(k), th[Main].pc)
      /\ Waits(tk[k], th[Main].pc)
  BY <1>1, TaskFacts
<1>3. tk[k].handle = "held"
  BY <1>2 DEF Joins, JoinPlaces, Agrees
<1>4. tk[k].word.refs > 0
  <2>1. One(tk[k].handle = "held") = 1 /\ One(k \in rt.owned) \in Nat
    BY <1>3 DEF One
  <2>2. /\ Notifieds(k) \in Nat /\ OtherHands(k) \in Nat
        /\ tk[k].word.refs = One(k \in rt.owned) + One(tk[k].handle = "held") + tk[k].wakers
                             + Notifieds(k) + OtherHands(k)
    BY <1>1, Referenced
  <2>3. tk[k].wakers \in Nat
    BY <1>2 DEF TaskTyped
  <2> QED
    BY <2>1, <2>2, <2>3
<1> QED
  BY <1>1, <1>2, <1>3, <1>4

\* A step that only looks at the task.
LEMMA LookStep ==
  ASSUME Inv, NEW k, Joins(k), NEW p, GoesOn(k, p), rt' = rt, client' = client, tk' = tk,
         Agrees(tk[k], Notifieds(k), p), Waits(tk[k], p)
  PROVE  Inv'
<1>1. k \in Tasks /\ TaskTyped(tk[k]) /\ tk[k].word.refs > 0
  BY JoinedFacts
<1>2. tk' = [tk EXCEPT ![k] = tk[k]]
  BY <1>1 DEF Inv, TasksInv
<1>3. Becomes(k, tk[k]) /\ Joined(tk[k], tk[k])
  BY <1>1, <1>2 DEF Becomes, Joined
<1> QED
  BY <1>3, JoinStep

LEMMA ReadOutputKeeps ==
  ASSUME Inv, ReadOutput
  PROVE  Inv'
<1>1. th[Main].pc = "read" /\ rt' = rt /\ client' = client /\ tk' = tk
  BY DEF ReadOutput, At
<1>2. PICK k : k = th[Main].task
  OBVIOUS
<1>3. Joins(k)
  BY <1>1, <1>2 DEF Joins, JoinPlaces, HandlePlaces
<1>4. /\ TaskTyped(tk[k]) /\ tk[k].handle = "held"
      /\ Agrees(tk[k], Notifieds(k), "read") /\ Waits(tk[k], "read")
  BY <1>1, <1>3, JoinedFacts
<1>5. PICK p \in {"take", "set waker", "await", "unset"} :
        /\ Goes(Main, [pc |-> p])
        /\ p = "take" => tk[k].word.complete
        /\ p = "set waker" => ~tk[k].word.joinWaker
  <2> DEFINE word == tk[k].word
             q == CASE word.complete -> "take"
                    [] ~word.complete /\ ~word.joinWaker -> "set waker"
                    [] ~word.complete /\ word.joinWaker ->
                          IF tk[k].waker = joiner.waker THEN "await" ELSE "unset"
  <2>1. Goes(Main, [pc |-> q])
    BY <1>2 DEF ReadOutput
  <2>2. word.complete \in BOOLEAN /\ word.joinWaker \in BOOLEAN
    BY <1>4 DEF TaskTyped
  <2>3. /\ q \in {"take", "set waker", "await", "unset"}
        /\ q = "take" => word.complete
        /\ q = "set waker" => ~word.joinWaker
    BY <2>2
  <2> HIDE DEF q
  <2> QED
    BY <2>1, <2>3
<1>6. GoesOn(k, p)
  BY <1>5 DEF GoesOn, JoinPlaces, HandlePlaces
<1>7. Agrees(tk[k], Notifieds(k), p)
  BY <1>4, <1>5 DEF Agrees, HandlePlaces
<1>8. Waits(tk[k], p)
  BY <1>4, <1>5 DEF Waits
<1> QED
  BY <1>1, <1>3, <1>6, <1>7, <1>8, LookStep

LEMMA ReadAgain ==
  ASSUME Inv, At(Main, "await"), Goes(Main, [pc |-> "read"]), rt' = rt, client' = client, tk' = tk
  PROVE  Inv'
<1>1. th[Main].pc = "await"
  BY DEF At
<1>2. PICK k : k = th[Main].task
  OBVIOUS
<1>3. Joins(k)
  BY <1>1, <1>2 DEF Joins, JoinPlaces, HandlePlaces
<1>4. Agrees(tk[k], Notifieds(k), "await") /\ Waits(tk[k], "await")
  BY <1>1, <1>3, JoinedFacts
<1>5. GoesOn(k, "read")
  BY DEF GoesOn, JoinPlaces, HandlePlaces
<1>6. Agrees(tk[k], Notifieds(k), "read") /\ Waits(tk[k], "read")
  BY <1>4 DEF Agrees, HandlePlaces, Waits
<1> QED
  BY <1>3, <1>5, <1>6, LookStep

LEMMA AwaitKeeps ==
  ASSUME Inv, Await
  PROVE  Inv'
BY ReadAgain DEF Await

LEMMA RepollKeeps ==
  ASSUME Inv, Repoll
  PROVE  Inv'
BY ReadAgain DEF Repoll

\* A step that changes the waker, or takes the output.
LEMMA CellStep ==
  ASSUME Inv, NEW k, Joins(k), NEW p, GoesOn(k, p), rt' = rt, client' = client,
         NEW T, tk' = [tk EXCEPT ![k] = T], DOMAIN T = DOMAIN tk[k],
         T.word = tk[k].word, T.wakers = tk[k].wakers, T.handle = tk[k].handle,
         T.output = tk[k].output \/ tk[k].word.complete,
         Agrees(T, Notifieds(k), p), Waits(T, p)
  PROVE  Inv'
<1>1. k \in Tasks /\ TaskTyped(tk[k]) /\ tk[k].word.refs > 0
  BY JoinedFacts
<1>2. TaskTyped(T)
  BY <1>1 DEF TaskTyped
<1>3. Becomes(k, T) /\ Joined(T, tk[k])
  BY <1>1, <1>2 DEF Becomes, Joined
<1> QED
  BY <1>3, JoinStep

LEMMA WriteWakerKeeps ==
  ASSUME Inv, WriteWaker
  PROVE  Inv'
<1>1. th[Main].pc = "set waker" /\ rt' = rt /\ client' = client /\ Goes(Main, [pc |-> "set bit"])
  BY DEF WriteWaker, At
<1>2. PICK k : k = th[Main].task
  OBVIOUS
<1>3. Joins(k)
  BY <1>1, <1>2 DEF Joins, JoinPlaces, HandlePlaces
<1>4. /\ TaskTyped(tk[k]) /\ k \in Tasks
      /\ Agrees(tk[k], Notifieds(k), "set waker") /\ Waits(tk[k], "set waker")
  BY <1>1, <1>3, JoinedFacts
<1>5. GoesOn(k, "set bit")
  BY <1>1 DEF GoesOn, JoinPlaces, HandlePlaces
<1> DEFINE T == [tk[k] EXCEPT !.waker = joiner.waker]
<1>6. tk' = [tk EXCEPT ![k] = T]
  BY <1>2 DEF WriteWaker
<1>7. /\ DOMAIN T = DOMAIN tk[k] /\ T.word = tk[k].word /\ T.wakers = tk[k].wakers
      /\ T.handle = tk[k].handle /\ T.output = tk[k].output
  BY <1>4 DEF TaskTyped
<1> HIDE DEF T
<1>8. Agrees(T, Notifieds(k), "set bit") /\ Waits(T, "set bit")
  BY <1>4, <1>7 DEF Agrees, HandlePlaces, Waits
<1> QED
  BY <1>1, <1>3, <1>5, <1>6, <1>7, <1>8, CellStep

LEMMA ClearWakerKeeps ==
  ASSUME Inv, ClearWaker
  PROVE  Inv'
<1>1. th[Main].pc = "clear waker" /\ rt' = rt /\ client' = client /\ Goes(Main, [pc |-> "take"])
  BY DEF ClearWaker, At
<1>2. PICK k : k = th[Main].task
  OBVIOUS
<1>3. Joins(k)
  BY <1>1, <1>2 DEF Joins, JoinPlaces, HandlePlaces
<1>4. /\ TaskTyped(tk[k]) /\ k \in Tasks
      /\ Agrees(tk[k], Notifieds(k), "clear waker") /\ Waits(tk[k], "clear waker")
  BY <1>1, <1>3, JoinedFacts
<1>5. GoesOn(k, "take")
  BY <1>1 DEF GoesOn, JoinPlaces, HandlePlaces
<1> DEFINE T == [tk[k] EXCEPT !.waker = 0]
<1>6. tk' = [tk EXCEPT ![k] = T]
  BY <1>2 DEF ClearWaker
<1>7. /\ DOMAIN T = DOMAIN tk[k] /\ T.word = tk[k].word /\ T.wakers = tk[k].wakers
      /\ T.handle = tk[k].handle /\ T.output = tk[k].output
  BY <1>4 DEF TaskTyped
<1> HIDE DEF T
<1>8. Agrees(T, Notifieds(k), "take") /\ Waits(T, "take")
  BY <1>4, <1>7 DEF Agrees, HandlePlaces, Waits
<1> QED
  BY <1>1, <1>3, <1>5, <1>6, <1>7, <1>8, CellStep

LEMMA TakeOutputKeeps ==
  ASSUME Inv, TakeOutput
  PROVE  Inv'
<1>1. /\ th[Main].pc = "take" /\ rt' = rt /\ client' = client
      /\ Goes(Main, [pc |-> "drop handle"])
  BY DEF TakeOutput, At
<1>2. PICK k : k = th[Main].task
  OBVIOUS
<1>3. Joins(k)
  BY <1>1, <1>2 DEF Joins, JoinPlaces, HandlePlaces
<1>4. /\ TaskTyped(tk[k]) /\ k \in Tasks
      /\ Agrees(tk[k], Notifieds(k), "take") /\ Waits(tk[k], "take")
  BY <1>1, <1>3, JoinedFacts
<1>5. GoesOn(k, "drop handle")
  BY <1>1 DEF GoesOn, JoinPlaces, HandlePlaces
<1> DEFINE T == [tk[k] EXCEPT !.output = "gone"]
<1>6. tk' = [tk EXCEPT ![k] = T]
  BY <1>2 DEF TakeOutput
<1>7. /\ DOMAIN T = DOMAIN tk[k] /\ T.word = tk[k].word /\ T.wakers = tk[k].wakers
      /\ T.handle = tk[k].handle /\ tk[k].word.complete
  BY <1>4 DEF TaskTyped, Agrees
<1> HIDE DEF T
<1>8. Agrees(T, Notifieds(k), "drop handle") /\ Waits(T, "drop handle")
  BY <1>4, <1>7 DEF Agrees, HandlePlaces, Waits
<1> QED
  BY <1>1, <1>3, <1>5, <1>6, <1>7, <1>8, CellStep

LEMMA DropOutputKeeps ==
  ASSUME Inv, DropOutput
  PROVE  Inv'
<1>1. /\ th[Main].pc = "drop output" /\ rt' = rt /\ client' = client
      /\ Goes(Main, [pc |-> "drop reference"])
  BY DEF DropOutput, At
<1>2. PICK k : k = th[Main].task
  OBVIOUS
<1>3. Joins(k)
  BY <1>1, <1>2 DEF Joins, JoinPlaces, HandlePlaces
<1>4. /\ TaskTyped(tk[k]) /\ k \in Tasks
      /\ Agrees(tk[k], Notifieds(k), "drop output") /\ Waits(tk[k], "drop output")
  BY <1>1, <1>3, JoinedFacts
<1>5. GoesOn(k, "drop reference")
  BY <1>1 DEF GoesOn, JoinPlaces, HandlePlaces
<1> DEFINE T == [tk[k] EXCEPT !.output = "gone"]
<1>6. tk' = [tk EXCEPT ![k] = T]
  BY <1>2 DEF DropOutput
<1>7. /\ DOMAIN T = DOMAIN tk[k] /\ T.word = tk[k].word /\ T.wakers = tk[k].wakers
      /\ T.handle = tk[k].handle /\ tk[k].word.complete
  BY <1>4 DEF TaskTyped, Agrees
<1> HIDE DEF T
<1>8. Agrees(T, Notifieds(k), "drop reference") /\ Waits(T, "drop reference")
  BY <1>4, <1>7 DEF Agrees, HandlePlaces, Waits
<1> QED
  BY <1>1, <1>3, <1>5, <1>6, <1>7, <1>8, CellStep

\* The task T is S with the word w.
WordIs(T, S, w) ==
  /\ DOMAIN T = DOMAIN S /\ T.word = w /\ T.output = S.output
  /\ T.wakers = S.wakers /\ T.handle = S.handle

\* A step that sets or unsets the flags of whoever joins.
FlagStep(w, v) ==
  /\ DOMAIN w = WordFields /\ w.refs = v.refs
  /\ w.running = v.running /\ w.complete = v.complete
  /\ w.notified = v.notified /\ w.cancelled = v.cancelled
  /\ w.joinInterest \in BOOLEAN /\ w.joinWaker \in BOOLEAN

LEMMA WordStep ==
  ASSUME Inv, NEW k, Joins(k), NEW p, GoesOn(k, p), rt' = rt, client' = client,
         NEW w, SetWord(k, w), FlagStep(w, tk[k].word),
         \A T : WordIs(T, tk[k], w) => Agrees(T, Notifieds(k), p) /\ Waits(T, p)
  PROVE  Inv'
<1>1. k \in Tasks /\ TaskTyped(tk[k])
  BY JoinedFacts
<1> DEFINE T == [tk[k] EXCEPT !.word = w]
<1>2. Becomes(k, T)
  BY DEF SetWord, SetTask, Becomes
<1>3. WordIs(T, tk[k], w)
  BY <1>1 DEF WordIs, TaskTyped
<1> HIDE DEF T
<1>4. TaskTyped(T)
  BY <1>1, <1>3 DEF TaskTyped, WordIs, FlagStep
<1>5. Joined(T, tk[k])
  BY <1>3, <1>4 DEF Joined, WordIs, FlagStep
<1>6. Agrees(T, Notifieds(k), p) /\ Waits(T, p)
  BY <1>3
<1> QED
  BY <1>2, <1>5, <1>6, JoinStep

\* What the transitions of state.rs do that a complete task refuses.
LEMMA UnlessCompleteIs ==
  ASSUME NEW v, DOMAIN v = WordFields, v.complete \in BOOLEAN,
         v.joinInterest \in BOOLEAN, v.joinWaker \in BOOLEAN
  PROVE  /\ UnsetWaker(v).action = "Err" => v.complete /\ UnsetWaker(v).next = v
         /\ UnsetWaker(v).action # "Err" =>
              /\ ~v.complete /\ UnsetWaker(v).next.joinWaker = FALSE
              /\ UnsetWaker(v).next.joinInterest = v.joinInterest
         /\ SetJoinWaker(v).action = "Err" => v.complete /\ SetJoinWaker(v).next = v
         /\ SetJoinWaker(v).action # "Err" =>
              ~v.complete /\ SetJoinWaker(v).next.joinInterest = v.joinInterest
         /\ UnsetJoinInterested(v).action = "Err" =>
              v.complete /\ UnsetJoinInterested(v).next = v
         /\ UnsetJoinInterested(v).action # "Err" => ~v.complete
         /\ FlagStep(UnsetWaker(v).next, v) /\ FlagStep(SetJoinWaker(v).next, v)
         /\ FlagStep(UnsetJoinInterested(v).next, v)
<1>1. FlagStep(v, v)
  BY DEF FlagStep
<1>2. CASE v.complete
  BY <1>1, <1>2 DEF UnsetWaker, SetJoinWaker, UnsetJoinInterested, UnlessComplete
<1>3. CASE ~v.complete
  <2>1. /\ UnsetWaker(v).action = "Ok" /\ UnsetWaker(v).next = [v EXCEPT !.joinWaker = FALSE]
        /\ SetJoinWaker(v).action = "Ok" /\ SetJoinWaker(v).next = [v EXCEPT !.joinWaker = TRUE]
        /\ UnsetJoinInterested(v).action = "Ok"
        /\ UnsetJoinInterested(v).next = [v EXCEPT !.joinInterest = FALSE]
    BY <1>3 DEF UnsetWaker, SetJoinWaker, UnsetJoinInterested, UnlessComplete
  <2>2. /\ FlagStep(UnsetWaker(v).next, v) /\ UnsetWaker(v).next.joinWaker = FALSE
        /\ UnsetWaker(v).next.joinInterest = v.joinInterest
    <3>1. PICK u : u = UnsetWaker(v).next
      OBVIOUS
    <3>2. u = [v EXCEPT !.joinWaker = FALSE]
      BY <2>1, <3>1
    <3>3. FlagStep(u, v) /\ u.joinWaker = FALSE /\ u.joinInterest = v.joinInterest
      BY <3>2 DEF FlagStep, WordFields
    <3> QED
      BY <3>1, <3>3
  <2>3. /\ FlagStep(SetJoinWaker(v).next, v)
        /\ SetJoinWaker(v).next.joinInterest = v.joinInterest
    <3>1. PICK u : u = SetJoinWaker(v).next
      OBVIOUS
    <3>2. u = [v EXCEPT !.joinWaker = TRUE]
      BY <2>1, <3>1
    <3>3. FlagStep(u, v) /\ u.joinInterest = v.joinInterest
      BY <3>2 DEF FlagStep, WordFields
    <3> QED
      BY <3>1, <3>3
  <2>4. FlagStep(UnsetJoinInterested(v).next, v)
    <3>1. PICK u : u = UnsetJoinInterested(v).next
      OBVIOUS
    <3>2. u = [v EXCEPT !.joinInterest = FALSE]
      BY <2>1, <3>1
    <3>3. FlagStep(u, v)
      BY <3>2 DEF FlagStep, WordFields
    <3> QED
      BY <3>1, <3>3
  <2> QED
    BY <1>3, <2>1, <2>2, <2>3, <2>4
<1> QED
  BY <1>2, <1>3

LEMMA UnsetJoinWakerKeeps ==
  ASSUME Inv, UnsetJoinWaker
  PROVE  Inv'
<1>1. th[Main].pc = "unset" /\ rt' = rt /\ client' = client
  BY DEF UnsetJoinWaker, At
<1>2. PICK k : k = th[Main].task
  OBVIOUS
<1>3. Joins(k)
  BY <1>1, <1>2 DEF Joins, JoinPlaces, HandlePlaces
<1>4. /\ TaskTyped(tk[k]) /\ k \in Tasks /\ tk[k].handle = "held"
      /\ Agrees(tk[k], Notifieds(k), "unset") /\ Waits(tk[k], "unset")
  BY <1>1, <1>3, JoinedFacts
<1>5. PICK r : r = UnsetWaker(tk[k].word)
  OBVIOUS
<1>6. PICK p : p = IF r.action = "Err" THEN "take" ELSE "set waker"
  OBVIOUS
<1>7. SetWord(k, r.next) /\ Goes(Main, [pc |-> p])
  BY <1>2, <1>5, <1>6 DEF UnsetJoinWaker
<1>8. /\ FlagStep(r.next, tk[k].word)
      /\ r.action = "Err" => tk[k].word.complete /\ r.next = tk[k].word
      /\ r.action # "Err" => ~tk[k].word.complete /\ r.next.joinWaker = FALSE
                             /\ r.next.joinInterest = tk[k].word.joinInterest
  BY <1>4, <1>5, UnlessCompleteIs DEF TaskTyped
<1>9. GoesOn(k, p)
  BY <1>6, <1>7 DEF GoesOn, JoinPlaces, HandlePlaces
<1>10. ASSUME NEW T, WordIs(T, tk[k], r.next) PROVE Agrees(T, Notifieds(k), p) /\ Waits(T, p)
  <2>1. CASE r.action = "Err"
    BY <1>4, <1>6, <1>8, <1>10, <2>1 DEF Agrees, HandlePlaces, Waits, WordIs
  <2>2. CASE r.action # "Err"
    BY <1>4, <1>6, <1>8, <1>10, <2>2 DEF Agrees, HandlePlaces, Waits, WordIs, FlagStep
  <2> QED
    BY <2>1, <2>2
<1> QED
  BY <1>1, <1>3, <1>7, <1>8, <1>9, <1>10, WordStep

LEMMA SetWakerBitKeeps ==
  ASSUME Inv, SetWakerBit
  PROVE  Inv'
<1>1. th[Main].pc = "set bit" /\ rt' = rt /\ client' = client
  BY DEF SetWakerBit, At
<1>2. PICK k : k = th[Main].task
  OBVIOUS
<1>3. Joins(k)
  BY <1>1, <1>2 DEF Joins, JoinPlaces, HandlePlaces
<1>4. /\ TaskTyped(tk[k]) /\ k \in Tasks /\ tk[k].handle = "held"
      /\ Agrees(tk[k], Notifieds(k), "set bit") /\ Waits(tk[k], "set bit")
  BY <1>1, <1>3, JoinedFacts
<1>5. PICK r : r = SetJoinWaker(tk[k].word)
  OBVIOUS
<1>6. PICK p : p = IF r.action = "Err" THEN "clear waker" ELSE "await"
  OBVIOUS
<1>7. SetWord(k, r.next) /\ Goes(Main, [pc |-> p])
  BY <1>2, <1>5, <1>6 DEF SetWakerBit
<1>8. /\ FlagStep(r.next, tk[k].word)
      /\ r.action = "Err" => tk[k].word.complete /\ r.next = tk[k].word
      /\ r.action # "Err" => ~tk[k].word.complete /\ r.next.joinInterest = tk[k].word.joinInterest
  BY <1>4, <1>5, UnlessCompleteIs DEF TaskTyped
<1>9. GoesOn(k, p)
  BY <1>6, <1>7 DEF GoesOn, JoinPlaces, HandlePlaces
<1>10. ASSUME NEW T, WordIs(T, tk[k], r.next) PROVE Agrees(T, Notifieds(k), p) /\ Waits(T, p)
  <2>1. CASE r.action = "Err"
    BY <1>4, <1>6, <1>8, <1>10, <2>1 DEF Agrees, HandlePlaces, Waits, WordIs
  <2>2. CASE r.action # "Err"
    BY <1>4, <1>6, <1>8, <1>10, <2>2 DEF Agrees, HandlePlaces, Waits, WordIs, FlagStep
  <2> QED
    BY <2>1, <2>2
<1> QED
  BY <1>1, <1>3, <1>7, <1>8, <1>9, <1>10, WordStep

\* The handle is dropped, with its reference.
LEMMA HandleDropped ==
  ASSUME Inv, NEW k, Joins(k), Goes(Main, [pc |-> "main", task |-> NoTask]),
         rt' = rt, client' = client, NEW T, Becomes(k, T),
         DOMAIN T = DOMAIN tk[k], T.output = tk[k].output, T.wakers = tk[k].wakers,
         T.handle = "dropped", NEW w, T.word = w, w.refs = tk[k].word.refs - 1,
         DOMAIN w = WordFields, w.running = tk[k].word.running, w.complete = tk[k].word.complete,
         w.notified = tk[k].word.notified, w.cancelled = tk[k].word.cancelled,
         w.joinInterest \in BOOLEAN, w.joinWaker \in BOOLEAN
  PROVE  Inv'
<1>1. TaskTyped(tk[k])
  BY JoinedFacts
<1>2. GoesOn(k, "elsewhere")
  BY DEF GoesOn
<1>3. TaskTyped(T)
  <2>1. tk[k].word.refs \in Int
    BY <1>1 DEF TaskTyped
  <2>2. w.refs \in Int
    BY <2>1
  <2> QED
    BY <1>1, <2>2 DEF TaskTyped
<1>4. Joined(T, tk[k])
  BY <1>3 DEF Joined
<1>5. Agrees(T, Notifieds(k), "elsewhere") /\ Waits(T, "elsewhere")
  BY DEF Agrees, Waits, HandlePlaces
<1> QED
  BY <1>2, <1>4, <1>5, JoinStep

LEMMA DropReferenceKeeps ==
  ASSUME Inv, DropReference
  PROVE  Inv'
<1>1. /\ th[Main].pc = "drop reference" /\ rt' = rt /\ client' = client
      /\ Goes(Main, [pc |-> "main", task |-> NoTask])
  BY DEF DropReference, At
<1>2. PICK k : k = th[Main].task
  OBVIOUS
<1>3. Joins(k)
  BY <1>1, <1>2 DEF Joins, JoinPlaces
<1>4. TaskTyped(tk[k])
  BY <1>3, JoinedFacts
<1> DEFINE w == RefDec(tk[k].word)
           T == [tk[k] EXCEPT !.word = w, !.handle = "dropped"]
<1>5. Becomes(k, T)
  BY <1>2 DEF DropReference, SetTask, Becomes
<1>6. /\ DOMAIN T = DOMAIN tk[k] /\ T.output = tk[k].output /\ T.wakers = tk[k].wakers
      /\ T.handle = "dropped" /\ T.word = w
  BY <1>4 DEF TaskTyped
<1>7. /\ w.refs = tk[k].word.refs - 1
      /\ DOMAIN w = WordFields /\ w.running = tk[k].word.running
      /\ w.complete = tk[k].word.complete
      /\ w.notified = tk[k].word.notified /\ w.cancelled = tk[k].word.cancelled
      /\ w.joinInterest = tk[k].word.joinInterest /\ w.joinWaker = tk[k].word.joinWaker
  BY <1>4 DEF RefDec, TaskTyped, WordFields
<1>8. w.joinInterest \in BOOLEAN /\ w.joinWaker \in BOOLEAN
  BY <1>4, <1>7 DEF TaskTyped
<1> HIDE DEF T, w
<1> QED
  BY <1>1, <1>3, <1>5, <1>6, <1>7, <1>8, HandleDropped

LEMMA DropHandleKeeps ==
  ASSUME Inv, DropHandle
  PROVE  Inv'
<1>1. th[Main].pc = "drop handle" /\ rt' = rt /\ client' = client
  BY DEF DropHandle, At
<1>2. PICK k : k = th[Main].task
  OBVIOUS
<1>3. Joins(k)
  BY <1>1, <1>2 DEF Joins, JoinPlaces, HandlePlaces
<1>4. /\ TaskTyped(tk[k]) /\ k \in Tasks /\ tk[k].handle = "held"
      /\ Agrees(tk[k], Notifieds(k), "drop handle") /\ Waits(tk[k], "drop handle")
  BY <1>1, <1>3, JoinedFacts
<1>5. CASE /\ tk[k].word = Initial
           /\ tk' = [tk EXCEPT ![k].word = RefDec([Initial EXCEPT !.joinInterest = FALSE]),
                               ![k].handle = "dropped"]
           /\ Goes(Main, [pc |-> "main", task |-> NoTask])
  <2> DEFINE w == RefDec([Initial EXCEPT !.joinInterest = FALSE])
             T == [tk[k] EXCEPT !.word = w, !.handle = "dropped"]
  <2>1. /\ DOMAIN w = WordFields /\ w.refs = 2
        /\ w.running = Initial.running /\ w.complete = Initial.complete
        /\ w.notified = Initial.notified /\ w.cancelled = Initial.cancelled
        /\ w.joinInterest = FALSE /\ w.joinWaker = Initial.joinWaker
    BY DEF RefDec, Initial, WordFields
  <2>2. /\ DOMAIN T = DOMAIN tk[k] /\ T.output = tk[k].output /\ T.wakers = tk[k].wakers
        /\ T.handle = "dropped" /\ T.word = w
    BY <1>4 DEF TaskTyped
  <2>3. tk' = [tk EXCEPT ![k] = T]
    BY <1>4, <1>5 DEF Inv, TasksInv
  <2> HIDE DEF T
  <2>4. w.refs = 2 /\ tk[k].word.refs = 3
    BY <1>5, <2>1 DEF Initial
  <2>5. /\ DOMAIN w = WordFields /\ w.running = tk[k].word.running
        /\ w.complete = tk[k].word.complete
        /\ w.notified = tk[k].word.notified /\ w.cancelled = tk[k].word.cancelled
    BY <1>5, <2>1
  <2>6. w.joinInterest \in BOOLEAN /\ w.joinWaker \in BOOLEAN
    BY <2>1 DEF Initial
  <2> HIDE DEF w
  <2>7. T.word.refs > 0 /\ w.refs = tk[k].word.refs - 1
    BY <2>2, <2>4
  <2>8. Becomes(k, T)
    BY <2>3, <2>7 DEF Becomes
  <2> QED
    BY <1>1, <1>3, <1>5, <2>2, <2>5, <2>7, <2>8, <2>6, HandleDropped
<1>6. PICK r : r = UnsetJoinInterested(tk[k].word)
  OBVIOUS
<1>7. PICK p : p = IF r.action = "Err" THEN "drop output" ELSE "drop reference"
  OBVIOUS
<1>8. CASE SetWord(k, r.next) /\ Goes(Main, [pc |-> p])
  <2>1. /\ FlagStep(r.next, tk[k].word)
        /\ r.action = "Err" => tk[k].word.complete /\ r.next = tk[k].word
    BY <1>4, <1>6, UnlessCompleteIs DEF TaskTyped
  <2>2. GoesOn(k, p)
    BY <1>7, <1>8 DEF GoesOn, JoinPlaces, HandlePlaces
  <2>3. ASSUME NEW T, WordIs(T, tk[k], r.next) PROVE Agrees(T, Notifieds(k), p) /\ Waits(T, p)
    <3>1. CASE r.action = "Err"
      BY <1>4, <1>7, <2>1, <2>3, <3>1 DEF Agrees, HandlePlaces, Waits, WordIs
    <3>2. CASE r.action # "Err"
      BY <1>4, <1>7, <2>1, <2>3, <3>2 DEF Agrees, HandlePlaces, Waits, WordIs
    <3> QED
      BY <3>1, <3>2
  <2> QED
    BY <1>1, <1>3, <1>8, <2>1, <2>2, <2>3, WordStep
<1> QED
  BY <1>2, <1>5, <1>6, <1>7, <1>8 DEF DropHandle

\* The main thread goes on with no task in hand, before and after.
MainIdles ==
  /\ Place(Main) \in {"main", "notify all"} /\ th[Main].pc # "submit"
  /\ PlaceOf(th'[Main]) \in {"main", "notify all"} /\ th'[Main].pc # "submit"
  /\ th'[Main].core = th[Main].core /\ th'[Main].drops \in BOOLEAN

LEMMA MainQuiet ==
  ASSUME Inv, MainIdles, th' = [b \in Actors |-> th'[b]], Same({Main}), DOMAIN th'[Main] = Fields,
         tk' = tk, QueuesKept, rt'.slot = rt.slot, rt'.down = rt.down
  PROVE  Inv'
<1>1. /\ ActorsFit /\ CoresPlaced /\ MainFits(th[Main]) /\ Main \in Actors /\ client' = client
  BY RolesDiffer DEF Inv, ActorsFit, QueuesKept
<1>2. /\ {"main", "notify all"} \subseteq MainPlaces \cap Still
      /\ {"main", "notify all"} \cap (TaskPlaces \cup FinishPlaces) = {}
  BY DEF MainPlaces, Still, TaskPlaces, FinishPlaces, PollPlaces, HandlePlaces
<1>3. ActorsFit'
  <2>1. Shaped(th'[Main])
    BY <1>2 DEF Shaped, MainIdles
  <2>2. MainFits(th[Main])'
    BY <1>1, <1>2, <2>1 DEF MainFits, Shaped, PlaceOf, MainIdles
  <2> QED
    BY <1>1, <2>2, MainMoved
<1>4. Quiet(Main)
  BY <1>2 DEF Quiet, MainIdles, At, Place, PlaceOf
<1>5. \A b \in Actors : Quiet(b) \/ th'[b] = th[b]
  BY <1>4 DEF Same
<1>6. CoresPlaced'
  BY <1>1, CoresStay DEF MainIdles
<1> QED
  BY <1>3, <1>5, <1>6, QuietTasks

LEMMA CloseKeeps ==
  ASSUME Inv, Close
  PROVE  Inv'
<1>1. /\ th[Main].pc = "main" /\ Goes(Main, [pc |-> "notify all", left |-> client.workers])
      /\ Main \in Actors /\ Main \in DOMAIN th /\ ActorsFit /\ tk' = tk
  BY RolesDiffer DEF Close, At, Inv, ActorsFit
<1>2. QueuesKept /\ rt'.slot = rt.slot /\ rt'.down = rt.down
  BY DEF Close, QueuesKept, Inv, QueuesTyped, RtFields
<1>3. th' = [b \in Actors |-> th'[b]] /\ Same({Main}) /\ DOMAIN th'[Main] = Fields
  BY <1>1, GoesOnlyOne
<1>4. /\ th'[Main].pc = "notify all" /\ th'[Main].core = th[Main].core /\ th'[Main].drops = FALSE
  BY <1>1 DEF Goes, Scheduling, Unscheduled
<1>5. MainIdles
  BY <1>1, <1>4 DEF MainIdles, Place, PlaceOf, Scheduling
<1> QED
  BY <1>1, <1>2, <1>3, <1>5, MainQuiet

LEMMA NotifyAllKeeps ==
  ASSUME Inv, NotifyAll
  PROVE  Inv'
<1>1. /\ th[Main].pc = "notify all"
      /\ Main \in Actors /\ Main \in DOMAIN th /\ ActorsFit /\ tk' = tk
      /\ th[Main].drops \in BOOLEAN
  BY RolesDiffer, CoreIs DEF NotifyAll, At, Inv, ActorsFit
<1>2. QueuesKept /\ rt'.slot = rt.slot /\ rt'.down = rt.down
  BY DEF NotifyAll, QueuesKept
<1>3. CASE \E w \in th[Main].left :
             Goes(Main, [pc |-> "unpark", target |-> w, then |-> "notify all",
                         left |-> th[Main].left \ {w}])
  <2>1. PICK w \in th[Main].left :
             Goes(Main, [pc |-> "unpark", target |-> w, then |-> "notify all",
                         left |-> th[Main].left \ {w}])
    BY <1>3
  <2>2. th' = [b \in Actors |-> th'[b]] /\ Same({Main}) /\ DOMAIN th'[Main] = Fields
    BY <1>1, <2>1, GoesOnlyOne
  <2>3. /\ th'[Main].pc = "unpark" /\ th'[Main].then = "notify all"
        /\ th'[Main].core = th[Main].core /\ th'[Main].drops = th[Main].drops
    BY <1>1, <2>1 DEF Goes, Scheduling
  <2>4. MainIdles
    BY <1>1, <2>3 DEF MainIdles, Place, PlaceOf, Scheduling
  <2> QED
    BY <1>1, <1>2, <2>2, <2>4, MainQuiet
<1>4. CASE Goes(Main, [pc |-> "main"])
  <2>1. th' = [b \in Actors |-> th'[b]] /\ Same({Main}) /\ DOMAIN th'[Main] = Fields
    BY <1>1, <1>4, GoesOnlyOne
  <2>2. /\ th'[Main].pc = "main" /\ th'[Main].core = th[Main].core /\ th'[Main].drops = FALSE
    BY <1>1, <1>4 DEF Goes, Scheduling, Unscheduled
  <2>3. MainIdles
    BY <1>1, <2>2 DEF MainIdles, Place, PlaceOf, Scheduling
  <2> QED
    BY <1>1, <1>2, <2>1, <2>3, MainQuiet
<1> QED
  BY <1>3, <1>4 DEF NotifyAll

\* The main thread between its tasks.
LEMMA MainFree ==
  ASSUME Inv, At(Main, "main")
  PROVE  /\ Main \in Actors /\ Main \in DOMAIN th /\ MainFits(th[Main])
         /\ Place(Main) = "main" /\ PlaceOf(th[Main]) = "main" /\ ~At(Main, "submit")
         /\ \A j : Free(Main, j) /\ Where(Main, j) \in {"main", "elsewhere"}
<1>1. MainFits(th[Main]) /\ Main \in Actors /\ Main \in DOMAIN th
  BY RolesDiffer DEF Inv, ActorsFit
<1>2. "main" \notin Scheduling \cup Holding \cup PollPlaces
  BY DEF Scheduling, Holding, FinishPlaces, PollPlaces
<1>3. Place(Main) = "main" /\ PlaceOf(th[Main]) = "main" /\ ~At(Main, "submit")
  BY <1>2 DEF Place, PlaceOf, At
<1>4. ASSUME NEW j PROVE Free(Main, j) /\ Where(Main, j) \in {"main", "elsewhere"}
  BY <1>2, <1>3, FreeIs DEF Where
<1> QED
  BY <1>1, <1>3, <1>4

\* It takes the handle of a task in hand.
TakesHandle(k, p) ==
  /\ At(Main, "main") /\ p \in {"read", "drop handle"} /\ Goes(Main, [pc |-> p, task |-> k])
  /\ HasHandle(k) /\ rt' = rt /\ tk' = tk /\ client' = client

LEMMA JoinBegins ==
  ASSUME Inv, NEW k \in Tasks, NEW p, TakesHandle(k, p)
  PROVE  Inv'
<1>1. /\ Main \in Actors /\ Main \in DOMAIN th /\ MainFits(th[Main])
      /\ \A j : Free(Main, j) /\ Where(Main, j) \in {"main", "elsewhere"}
  BY MainFree DEF TakesHandle
<1>2. ActorsFit /\ QueuesTyped /\ CoresPlaced /\ rt' = rt /\ client' = client /\ tk' = tk
  BY DEF Inv, TakesHandle
<1>3. p \in JoinPlaces /\ p \in HandlePlaces /\ p \in {"read", "drop handle"}
  BY DEF TakesHandle, JoinPlaces, HandlePlaces
<1>4. /\ p \notin Scheduling /\ p \notin Holding /\ p \notin FinishPlaces /\ p \notin PollPlaces
      /\ p \in MainPlaces /\ p # "submit"
  BY <1>3, JoinPlacesAre
<1>5. th' = [b \in Actors |-> th'[b]] /\ Same({Main}) /\ DOMAIN th'[Main] = Fields
  BY <1>1, <1>2, GoesOnlyOne DEF TakesHandle
<1>6. /\ th'[Main].pc = p /\ th'[Main].task = k /\ th'[Main].core = th[Main].core
      /\ th'[Main].drops = FALSE
  BY <1>1, <1>4 DEF Goes, Unscheduled, TakesHandle
<1>7. Place(Main)' = p /\ PlaceOf(th'[Main]) = p /\ ~At(Main, "submit")'
  BY <1>4, <1>6 DEF Place, PlaceOf, At
<1>8. ActorsFit'
  <2>1. Shaped(th'[Main])
    BY <1>4, <1>5, <1>6, <1>7 DEF Shaped
  <2>2. MainFits(th[Main])'
    BY <1>1, <1>4, <1>6, <1>7, <2>1 DEF MainFits, Shaped, PlaceOf
  <2> QED
    BY <1>2, <1>5, <2>2, MainMoved
<1>9. CoresPlaced'
  BY <1>1, <1>2, <1>5, <1>6, CoresStay
<1>10. QueuesTyped' /\ \A j : Queued(j)' = Queued(j)
  BY <1>2, QueuesKeptTyped DEF QueuesKept
<1>11. \A j : Free(Main, j)'
  BY <1>4, <1>7, FreeIs
<1>12. ASSUME NEW j \in Tasks \ {k} PROVE Kept(Main, j)
  <2>1. Where(Main, j) \in Neutral /\ Where(Main, j)' \in Neutral
    BY <1>1, <1>6, NeutralIs DEF Neutral
  <2> QED
    BY <1>1, <1>2, <1>10, <1>11, <2>1 DEF Kept, Free
<1>13. Moves(Main, k, 0, 0)
  <2>1. NotifiedShare(Main, k)' = NotifiedShare(Main, k) /\ OtherShare(Main, k)' = OtherShare(Main, k)
    BY <1>1, <1>11 DEF Free
  <2>2. /\ Queued(k)' + NotifiedShare(Main, k)' = Queued(k) + NotifiedShare(Main, k) + 0
        /\ OtherShare(Main, k)' = OtherShare(Main, k) + 0
    BY <1>2, <1>10, <2>1, NothingMoves
  <2> QED
    BY <1>5, <1>12, <2>2 DEF Moves, Same
<1>14. Where(Main, k)' = p
  BY <1>4, <1>6, <1>7 DEF Where
<1>15. /\ TaskTyped(tk[k]) /\ Balanced(tk[k], k \in rt.owned, Notifieds(k), OtherHands(k))
       /\ \A b \in Actors : Agrees(tk[k], Notifieds(k), Where(b, k))
       /\ Waits(tk[k], Where(Main, k))
       /\ Notifieds(k) \in Nat /\ OtherHands(k) \in Nat
  BY <1>1, TaskFacts, Referenced
<1>16. tk[k].handle = "held"
  BY DEF TakesHandle, HasHandle
<1>17. tk[k].word.joinInterest /\ Waits(tk[k], p)
  <2>1. Where(Main, k) \notin {"drop handle", "drop output", "drop reference"}
    BY <1>1
  <2> QED
    BY <1>15, <1>16, <2>1 DEF Waits
<1>18. Agrees(tk[k], Notifieds(k), p)
  BY <1>3, <1>16, <1>17 DEF Agrees
<1>19. tk[k].word.refs > 0
  <2>1. One(tk[k].handle = "held") = 1 /\ One(k \in rt.owned) \in Nat
    BY <1>16 DEF One
  <2>2. /\ tk[k].word.refs = One(k \in rt.owned) + One(tk[k].handle = "held") + tk[k].wakers
                             + Notifieds(k) + OtherHands(k)
        /\ Notifieds(k) \in Nat /\ OtherHands(k) \in Nat
    BY <1>1, Referenced
  <2>3. tk[k].wakers \in Nat
    BY <1>15 DEF TaskTyped
  <2> QED
    BY <2>1, <2>2, <2>3
<1>20. Becomes(k, tk[k])
  <2>1. tk' = [tk EXCEPT ![k] = tk[k]]
    BY <1>2 DEF Inv, TasksInv
  <2> QED
    BY <1>19, <2>1 DEF Becomes
<1>21. Notifieds(k) + 0 = Notifieds(k) /\ OtherHands(k) + 0 = OtherHands(k) /\ 0 \in Int
  BY <1>15, AddNothing
<1>22. ~RunsIt(Main, k)'
  BY <1>3, <1>14 DEF RunsIt
<1>23. Suits(Main, k, tk[k], 0, 0)
  <2>1. Balanced(tk[k], (k \in rt.owned)', Notifieds(k) + 0, OtherHands(k) + 0)
    BY <1>2, <1>15, <1>21
  <2> QED
    BY <1>14, <1>15, <1>17, <1>18, <1>21, <1>22, <2>1 DEF Suits
<1> QED
  BY <1>1, <1>8, <1>9, <1>10, <1>13, <1>20, <1>21, <1>23, TouchStep

LEMMA JoinKeeps ==
  ASSUME Inv, Join
  PROVE  Inv'
<1>1. PICK k \in Tasks : /\ At(Main, "main") /\ HasHandle(k)
                         /\ \E p \in {"read", "drop handle"} : Goes(Main, [pc |-> p, task |-> k])
  BY DEF Join
<1>2. PICK p \in {"read", "drop handle"} : Goes(Main, [pc |-> p, task |-> k])
  BY <1>1
<1>3. TakesHandle(k, p)
  BY <1>1, <1>2 DEF Join, TakesHandle
<1> QED
  BY <1>3, JoinBegins


-----------------------------------------------------------------------------
(* The main thread spawns a task, or drops the Notified of one it could not.   *)

LEMMA DropNotifiedKeeps ==
  ASSUME Inv, DropNotified
  PROVE  Inv'
<1>1. PICK k : k = th[Main].task
  OBVIOUS
<1>2. /\ th[Main].pc = "drop notified" /\ SetWord(k, RefDec(tk[k].word))
      /\ Goes(Main, [pc |-> "main", task |-> NoTask])
      /\ rt' = rt /\ client' = client
  BY <1>1 DEF DropNotified, At
<1>3. /\ Main \in Actors /\ Main \in DOMAIN th /\ MainFits(th[Main])
      /\ ActorsFit /\ QueuesTyped /\ CoresPlaced
  BY OthersFacts
<1>4. /\ "drop notified" \in TaskPlaces \cap Holding \cap Neutral
      /\ "drop notified" \notin Scheduling \cup FinishPlaces \cup PollPlaces \cup {"found", "poll"}
      /\ "main" \notin Scheduling \cup Holding \cup TaskPlaces \cup FinishPlaces \cup PollPlaces
      /\ "main" \in MainPlaces /\ "elsewhere" \in Neutral
  BY DEF TaskPlaces, Holding, Neutral, Scheduling, FinishPlaces, PollPlaces, HandlePlaces, MainPlaces
<1>5. Place(Main) = "drop notified" /\ PlaceOf(th[Main]) = "drop notified" /\ ~At(Main, "submit")
  BY <1>2, <1>4 DEF Place, PlaceOf, At
<1>6. k \in Tasks /\ k # NoTask
  BY <1>1, <1>3, <1>4, <1>5, ActorsAssumption DEF MainFits, Shaped
<1>7. th' = [b \in Actors |-> th'[b]] /\ Same({Main}) /\ DOMAIN th'[Main] = Fields
  BY <1>2, <1>3, GoesOnlyOne
<1>8. /\ th'[Main].pc = "main" /\ th'[Main].task = NoTask /\ th'[Main].core = th[Main].core
      /\ th'[Main].drops = FALSE
  BY <1>2, <1>3, <1>4 DEF Goes, Unscheduled
<1>9. Place(Main)' = "main" /\ PlaceOf(th'[Main]) = "main" /\ ~At(Main, "submit")'
      /\ th'[Main].pc # "submit"
  BY <1>4, <1>8 DEF Place, PlaceOf, At
<1>10. ActorsFit'
  <2>1. Shaped(th'[Main])
    BY <1>4, <1>7, <1>8, <1>9 DEF Shaped
  <2>2. MainFits(th[Main])'
    BY <1>3, <1>4, <1>8, <1>9, <2>1 DEF MainFits, Shaped, PlaceOf
  <2> QED
    BY <1>2, <1>3, <1>7, <2>2, MainMoved
<1>11. CoresPlaced'
  BY <1>2, <1>3, <1>7, <1>8, CoresStay
<1>12. QueuesTyped' /\ \A j : Queued(j)' = Queued(j)
  BY <1>2, <1>3, QueuesKeptTyped DEF QueuesKept
<1>13. ASSUME NEW j \in Tasks PROVE Free(Main, j)' /\ Where(Main, j)' = "elsewhere"
  BY <1>4, <1>8, <1>9, FreeIs, ActorsAssumption DEF Where
<1>14. ASSUME NEW j \in Tasks \ {k} PROVE Kept(Main, j)
  <2>1. Free(Main, j) /\ Where(Main, j) \in Neutral
    BY <1>1, <1>5, FreeIs, NeutralIs
  <2>2. Free(Main, j)' /\ Where(Main, j)' \in Neutral
    BY <1>4, <1>13
  <2> QED
    BY <1>2, <1>12, <2>1, <2>2 DEF Kept, Free
<1>15. NotifiedShare(Main, k) = 1 /\ OtherShare(Main, k) = 0 /\ Where(Main, k) \in Neutral
  <2>1. ~Submits(Main, k) /\ ~Owes(Main, k) /\ ~Fetched(Main, k) /\ Carries(Main, k) /\ ~Keeps(Main, k)
    BY <1>1, <1>4, <1>5 DEF Submits, Owes, Fetched, Carries, Keeps
  <2>2. Where(Main, k) \in Neutral
    BY <1>4, <1>5 DEF Where
  <2> QED
    BY <2>1, <2>2 DEF NotifiedShare, OtherShare, One
<1>16. NotifiedShare(Main, k)' = 0 /\ OtherShare(Main, k)' = 0
  BY <1>6, <1>13 DEF Free
<1>17. Moves(Main, k, -1, 0)
  <2>1. Queued(k) \in Nat /\ Queued(k)' = Queued(k)
    BY <1>3, <1>12, CountIs
  <2>2. /\ Queued(k)' + NotifiedShare(Main, k)' = Queued(k) + NotifiedShare(Main, k) + (-1)
        /\ OtherShare(Main, k)' = OtherShare(Main, k) + 0
    BY <1>15, <1>16, <2>1
  <2> QED
    BY <1>7, <1>14, <2>2 DEF Moves, Same
<1>18. TaskTyped(tk[k]) /\ tk[k].handle # "none"
  <2>1. /\ TaskTyped(tk[k]) /\ Notifieds(k) \in Nat /\ NotifiedShare(Main, k) <= Notifieds(k)
        /\ Notifieds(k) > 0 => tk[k].handle # "none"
    BY <1>3, <1>6, Referenced
  <2>2. Notifieds(k) > 0
    BY <1>15, <2>1
  <2> QED
    BY <2>1, <2>2
<1>19. PICK T : T = [tk[k] EXCEPT !.word = RefDec(tk[k].word)]
  OBVIOUS
<1>20. tk[k].word.refs \in Int /\ tk[k].word.refs - 1 \in Int /\ tk[k].wakers \in Nat
  BY <1>18 DEF TaskTyped
<1>21. /\ Reworded(T, tk[k], RefDec(tk[k].word), tk[k].wakers)
       /\ RefDec(tk[k].word) = [tk[k].word EXCEPT !.refs = tk[k].word.refs - 1]
  BY <1>18, <1>19 DEF Reworded, TaskTyped, RefDec
<1>22. Alike(T, tk[k]) /\ T.wakers = tk[k].wakers /\ T.word.refs = tk[k].word.refs - 1
  BY <1>18, <1>20, <1>21, RecountIs
<1>23. Becomes(k, T)
  BY <1>2, <1>19 DEF Becomes, SetWord, SetTask
<1>24. T.word.refs - tk[k].word.refs
         = One((k \in rt.owned)') - One(k \in rt.owned) + T.wakers - tk[k].wakers + (-1) + 0
  <2>1. One((k \in rt.owned)') = One(k \in rt.owned)
    BY <1>2
  <2>2. One(k \in rt.owned) \in Int
    BY DEF One
  <2> QED
    BY <1>20, <1>22, <2>1, <2>2
<1>25. {Where(Main, k), Where(Main, k)'} \subseteq Neutral
  BY <1>4, <1>6, <1>13, <1>15
<1>26. -1 \in {-1, 0, 1} /\ 0 \in Int /\ -1 # 1
  OBVIOUS
<1> QED
  BY <1>3, <1>6, <1>10, <1>11, <1>12, <1>17, <1>18, <1>22, <1>23, <1>24, <1>25, <1>26, PlainStep

\* There is no reference to a task that is not spawned, and no actor has it in hand.
LEMMA UnbornFacts ==
  ASSUME Inv, NEW k \in Tasks, tk[k].handle = "none"
  PROVE  /\ TaskTyped(tk[k]) /\ tk[k].wakers = 0 /\ k \notin rt.owned
         /\ Notifieds(k) = 0 /\ OtherHands(k) = 0
         /\ \A a \in Actors : /\ NotifiedShare(a, k) = 0 /\ OtherShare(a, k) = 0 /\ ~RunsIt(a, k)
                              /\ \A T, n : Agrees(T, n, Where(a, k))
<1>1. /\ TaskTyped(tk[k]) /\ k \notin rt.owned
      /\ Notifieds(k) \in Nat /\ OtherHands(k) \in Nat /\ tk[k].wakers \in Nat
      /\ ~(Notifieds(k) > 0) /\ ~(OtherHands(k) > 0) /\ ~(tk[k].wakers > 0)
  BY RolesDiffer, Referenced DEF TaskTyped
<1>2. Notifieds(k) = 0 /\ OtherHands(k) = 0 /\ tk[k].wakers = 0
  BY <1>1
<1>3. ASSUME NEW a \in Actors
      PROVE  /\ NotifiedShare(a, k) = 0 /\ OtherShare(a, k) = 0 /\ ~RunsIt(a, k)
             /\ \A T, n : Agrees(T, n, Where(a, k))
  <2>1. NotifiedShare(a, k) = 0 /\ OtherShare(a, k) = 0
    <3>1. /\ NotifiedShare(a, k) \in Nat /\ NotifiedShare(a, k) <= Notifieds(k)
          /\ OtherShare(a, k) \in Nat /\ OtherShare(a, k) <= OtherHands(k)
      BY Referenced
    <3> QED
      BY <1>2, <3>1
  <2>2. ~Keeps(a, k)
    BY <2>1 DEF OtherShare, One
  <2>3. Where(a, k) \notin {"body", "complete", "wake join"}
    BY <2>2 DEF Keeps, Where, FinishPlaces, PollPlaces
  <2>4. Agrees(tk[k], Notifieds(k), Where(a, k))
    BY TaskFacts
  <2>5. Where(a, k) \notin HandlePlaces \cup {"drop reference"}
    BY <2>4 DEF Agrees
  <2>6. \A T, n : Agrees(T, n, Where(a, k))
    BY <2>3, <2>5 DEF Agrees, HandlePlaces
  <2> QED
    BY <2>1, <2>3, <2>6 DEF RunsIt
<1> QED
  BY <1>1, <1>2, <1>3

\* A task that has just been spawned.
Born(T) ==
  /\ TaskTyped(T) /\ T.word.refs = 3 /\ T.wakers = 0 /\ T.handle = "held"
  /\ T.word.notified /\ ~T.word.running /\ ~T.word.complete /\ T.word.joinInterest

\* A task is spawned: it is owned and its Notified in hand; or e is 1, it is not owned,
\* and Main has it in hand to shut it down.
LEMMA SpawnStep ==
  ASSUME Inv, NEW k \in Tasks, tk[k].handle = "none", NEW T, Becomes(k, T), Born(T),
         NEW e \in {0, 1}, Moves(Main, k, 1, e), One((k \in rt.owned)') = 1 - e,
         ActorsFit', QueuesTyped', CoresPlaced', Where(Main, k)' \in {"elsewhere", "main", "shut"}
  PROVE  Inv'
<1>1. /\ tk[k].wakers = 0 /\ Notifieds(k) = 0 /\ OtherHands(k) = 0
      /\ \A a \in Actors : ~RunsIt(a, k) /\ \A S, n : Agrees(S, n, Where(a, k))
  BY UnbornFacts
<1>2. e \in Int /\ 1 \in Int /\ Main \in Actors
  BY RolesDiffer
<1>3. Balanced(T, (k \in rt.owned)', Notifieds(k) + 1, OtherHands(k) + e)
  <2>1. T.word.notified /\ T.handle # "none"
    BY DEF Born
  <2>2. T.word.refs = 3 /\ T.wakers = 0 /\ One(T.handle = "held") = 1
    BY DEF Born, One
  <2>3. T.word.refs = One((k \in rt.owned)') + One(T.handle = "held") + T.wakers
                        + (Notifieds(k) + 1) + (OtherHands(k) + e)
    BY <1>1, <2>2
  <2>4. Notifieds(k) + 1 <= 1
    BY <1>1
  <2> QED
    BY <2>1, <2>3, <2>4 DEF Balanced
<1>4. Agrees(T, Notifieds(k) + 1, Where(Main, k)') /\ ~RunsIt(Main, k)'
  BY DEF Agrees, HandlePlaces, RunsIt
<1>5. Waits(T, Where(Main, k)')
  BY DEF Waits, Born
<1>6. Suits(Main, k, T, 1, e)
  BY <1>1, <1>3, <1>4, <1>5 DEF Suits, Born
<1> QED
  BY <1>2, <1>6, TouchStep

\* The list of tasks takes it, and Main submits it.
SpawnsOwned(k) ==
  /\ At(Main, "main") /\ tk[k].handle = "none"
  /\ Goes(Main, [pc |-> "submit", wake |-> k, then |-> "main", yield |-> FALSE, drops |-> FALSE])
  /\ rt' = [rt EXCEPT !.owned = @ \cup {k}] /\ client' = client

LEMMA OwnedSpawned ==
  ASSUME Inv, NEW k \in Tasks, SpawnsOwned(k), NEW T, Becomes(k, T), Born(T)
  PROVE  Inv'
<1>1. /\ Main \in Actors /\ Main \in DOMAIN th /\ MainFits(th[Main])
      /\ Place(Main) = "main" /\ PlaceOf(th[Main]) = "main" /\ ~At(Main, "submit")
      /\ \A j : Free(Main, j) /\ Where(Main, j) \in {"main", "elsewhere"}
  BY MainFree DEF SpawnsOwned
<1>2. ActorsFit /\ QueuesTyped /\ CoresPlaced /\ client' = client /\ th[Main].pc = "main"
  BY DEF Inv, SpawnsOwned, At
<1>3. Begins(Main, k, FALSE)
  <2>1. "main" \notin Scheduling
    BY DEF Scheduling
  <2> QED
    BY <1>1, <1>2, <2>1, BeginsIs DEF SpawnsOwned
<1>4. th' = [b \in Actors |-> th'[b]] /\ Same({Main}) /\ DOMAIN th'[Main] = Fields
  BY <1>1, <1>2, GoesOnlyOne DEF SpawnsOwned
<1>5. StaysAt(Main)
  <2>1. "submit" \in Scheduling
    BY DEF Scheduling
  <2>2. PlaceOf(th'[Main]) = PlaceOf(th[Main])
    BY <1>3, <2>1 DEF Begins, PlaceOf
  <2> QED
    BY <1>3, <2>2 DEF Begins, StaysAt
<1>6. ActorsFit' /\ Place(Main)' = Place(Main)
  BY <1>1, <1>2, <1>4, <1>5, StaysFits
<1>7. /\ DOMAIN rt' = DOMAIN rt /\ rt'.runq = rt.runq /\ rt'.lifo = rt.lifo /\ rt'.inject = rt.inject
      /\ rt'.slot = rt.slot /\ rt'.down = rt.down /\ rt'.owned = rt.owned \cup {k}
  BY <1>2 DEF SpawnsOwned, QueuesTyped, RtFields
<1>8. QueuesTyped' /\ \A j : Queued(j)' = Queued(j)
  BY <1>2, <1>7, QueuedSame DEF QueuesTyped
<1>9. CoresPlaced'
  BY <1>1, <1>2, <1>4, <1>5, <1>7, CoresStay DEF StaysAt
<1>10. ASSUME NEW j \in Tasks
       PROVE  /\ NotifiedShare(Main, j)' = (IF j = k THEN 1 ELSE 0) /\ OtherShare(Main, j)' = 0
              /\ Where(Main, j)' = Where(Main, j)
  <2>1. ~Submits(Main, j) /\ ~Owes(Main, j)
    BY <1>1 DEF Submits, Owes
  <2>2. (Submits(Main, j)' <=> j = k) /\ ~Owes(Main, j)'
    BY <1>3 DEF Submits, Owes, At, Begins
  <2>3. NotifiedShare(Main, j) = 0 /\ OtherShare(Main, j) = 0
    BY <1>1 DEF Free
  <2> QED
    BY <1>5, <1>6, <2>1, <2>2, <2>3, SubmitShares, SharesTyped DEF StaysAt
<1>11. ASSUME NEW j \in Tasks \ {k} PROVE Kept(Main, j)
  <2>1. /\ NotifiedShare(Main, j)' = NotifiedShare(Main, j) /\ OtherShare(Main, j)' = OtherShare(Main, j)
        /\ Where(Main, j)' = Where(Main, j)
    BY <1>1, <1>10 DEF Free
  <2>2. Queued(j)' = Queued(j) /\ ((j \in rt.owned)' <=> j \in rt.owned)
    BY <1>7, <1>8
  <2> QED
    BY <2>1, <2>2 DEF Kept
<1>12. Moves(Main, k, 1, 0)
  <2>1. Queued(k) \in Nat /\ Queued(k)' = Queued(k)
    BY <1>2, <1>8, CountIs
  <2>2. /\ NotifiedShare(Main, k) = 0 /\ OtherShare(Main, k) = 0
        /\ NotifiedShare(Main, k)' = 1 /\ OtherShare(Main, k)' = 0
    BY <1>1, <1>10 DEF Free
  <2>3. /\ Queued(k)' + NotifiedShare(Main, k)' = Queued(k) + NotifiedShare(Main, k) + 1
        /\ OtherShare(Main, k)' = OtherShare(Main, k) + 0
    BY <2>1, <2>2
  <2> QED
    BY <1>4, <1>11, <2>3 DEF Moves, Same
<1>13. One((k \in rt.owned)') = 1 - 0 /\ 0 \in {0, 1}
  BY <1>7 DEF One
<1>14. Where(Main, k)' \in {"elsewhere", "main", "shut"}
  BY <1>1, <1>10
<1>15. tk[k].handle = "none"
  BY DEF SpawnsOwned
<1> QED
  BY <1>6, <1>8, <1>9, <1>12, <1>13, <1>14, <1>15, SpawnStep

\* The list of tasks is closed: Main shuts the task down.
SpawnsRefused(k) ==
  /\ At(Main, "main") /\ tk[k].handle = "none"
  /\ Goes(Main, [pc |-> "shut", task |-> k, cont |-> "drop notified"])
  /\ rt' = rt /\ client' = client

LEMMA RefusedSpawned ==
  ASSUME Inv, NEW k \in Tasks, SpawnsRefused(k), NEW T, Becomes(k, T), Born(T)
  PROVE  Inv'
<1>1. /\ Main \in Actors /\ Main \in DOMAIN th /\ MainFits(th[Main])
      /\ \A j : Free(Main, j) /\ Where(Main, j) \in {"main", "elsewhere"}
  BY MainFree DEF SpawnsRefused
<1>2. ActorsFit /\ QueuesTyped /\ CoresPlaced /\ rt' = rt /\ client' = client
  BY DEF Inv, SpawnsRefused
<1>3. /\ "shut" \notin Scheduling /\ "shut" \in MainPlaces /\ "shut" \in FinishPlaces
      /\ "shut" \in Neutral /\ "main" \in Neutral /\ "elsewhere" \in Neutral
  BY DEF Scheduling, MainPlaces, FinishPlaces, Neutral
<1>4. th' = [b \in Actors |-> th'[b]] /\ Same({Main}) /\ DOMAIN th'[Main] = Fields
  BY <1>1, <1>2, GoesOnlyOne DEF SpawnsRefused
<1>5. /\ th'[Main].pc = "shut" /\ th'[Main].task = k /\ th'[Main].cont = "drop notified"
      /\ th'[Main].core = th[Main].core /\ th'[Main].drops = FALSE
  BY <1>1, <1>3 DEF Goes, Unscheduled, SpawnsRefused
<1>6. Place(Main)' = "shut" /\ PlaceOf(th'[Main]) = "shut" /\ ~At(Main, "submit")'
      /\ th'[Main].pc # "submit"
  BY <1>3, <1>5 DEF Place, PlaceOf, At
<1>7. ActorsFit'
  <2>1. Shaped(th'[Main])
    BY <1>4, <1>5, <1>6 DEF Shaped
  <2>2. MainFits(th[Main])'
    BY <1>1, <1>3, <1>5, <1>6, <2>1 DEF MainFits, Shaped, PlaceOf
  <2> QED
    BY <1>2, <1>4, <2>2, MainMoved
<1>8. CoresPlaced'
  BY <1>1, <1>2, <1>4, <1>5, CoresStay
<1>9. QueuesTyped' /\ \A j : Queued(j)' = Queued(j)
  BY <1>2, QueuesKeptTyped DEF QueuesKept
<1>10. NotifiedShare(Main, k)' = 1 /\ OtherShare(Main, k)' = 1 /\ Where(Main, k)' = "shut"
  BY <1>3, <1>5, <1>6, FinishingIs
<1>11. ASSUME NEW j \in Tasks \ {k} PROVE Kept(Main, j)
  <2>1. Free(Main, j)' /\ Where(Main, j)' \in Neutral
    BY <1>5, <1>6, FreeIs, NeutralIs
  <2>2. Free(Main, j) /\ Where(Main, j) \in Neutral
    BY <1>1, <1>3
  <2> QED
    BY <1>2, <1>9, <2>1, <2>2 DEF Kept, Free
<1>12. Moves(Main, k, 1, 1)
  <2>1. Queued(k) \in Nat /\ Queued(k)' = Queued(k)
    BY <1>2, <1>9, CountIs
  <2>2. NotifiedShare(Main, k) = 0 /\ OtherShare(Main, k) = 0
    BY <1>1 DEF Free
  <2>3. /\ NotifiedShare(Main, k)' = 1 /\ OtherShare(Main, k)' = 1
    BY <1>10
  <2>4. /\ Queued(k)' + NotifiedShare(Main, k)' = Queued(k) + NotifiedShare(Main, k) + 1
        /\ OtherShare(Main, k)' = OtherShare(Main, k) + 1
    BY <2>1, <2>2, <2>3
  <2> QED
    BY <1>4, <1>11, <2>4 DEF Moves, Same
<1>13. tk[k].handle = "none"
  BY DEF SpawnsRefused
<1>14. One((k \in rt.owned)') = 1 - 1 /\ 1 \in {0, 1}
  <2>1. k \notin rt.owned
    BY <1>13, UnbornFacts
  <2> QED
    BY <1>2, <2>1 DEF One
<1> QED
  BY <1>7, <1>8, <1>9, <1>10, <1>12, <1>13, <1>14, SpawnStep

LEMMA SpawnKeeps ==
  ASSUME Inv, Spawn
  PROVE  Inv'
<1>1. PICK k : k = CHOOSE j \in Unborn : TRUE
  OBVIOUS
<1>2. k \in Tasks /\ tk[k].handle = "none"
  <2>1. k \in Unborn
    BY <1>1 DEF Spawn
  <2>2. client.tasks \subseteq Tasks
    BY SchedulerAssumption DEF Inv, QueuesTyped
  <2> QED
    BY <2>1, <2>2 DEF Unborn
<1>3. tk' = [tk EXCEPT ![k].word = Initial, ![k].handle = "held"]
  BY <1>1 DEF Spawn
<1>4. SpawnsOwned(k) \/ SpawnsRefused(k)
  <2>1. At(Main, "main") /\ client' = client
    BY DEF Spawn
  <2>2. CASE rt.ownedClosed
    <3>1. /\ Goes(Main, [pc |-> "shut", task |-> k, cont |-> "drop notified"])
          /\ rt' = rt
      BY <1>1, <2>2 DEF Spawn
    <3> QED
      BY <1>2, <2>1, <3>1 DEF SpawnsRefused
  <2>3. CASE ~rt.ownedClosed
    <3>1. /\ Goes(Main, [pc |-> "submit", wake |-> k, then |-> "main",
                         yield |-> FALSE, drops |-> FALSE])
          /\ rt' = [rt EXCEPT !.owned = @ \cup {k}]
      BY <1>1, <2>3 DEF Spawn
    <3> QED
      BY <1>2, <2>1, <3>1 DEF SpawnsOwned
  <2> QED
    BY <2>2, <2>3
<1>5. TaskTyped(tk[k]) /\ tk[k].wakers = 0
  BY <1>2, UnbornFacts
<1>6. PICK T : T = [tk[k] EXCEPT !.word = Initial, !.handle = "held"]
  OBVIOUS
<1>7. /\ DOMAIN T = {"word", "output", "waker", "wakers", "handle"}
      /\ T.word = Initial /\ T.handle = "held" /\ T.wakers = 0
  BY <1>5, <1>6 DEF TaskTyped
<1>8. Born(T)
  BY <1>7 DEF Born, TaskTyped, WordFields, Initial
<1>9. Becomes(k, T)
  <2>1. tk' = [tk EXCEPT ![k] = T]
    BY <1>2, <1>3, <1>5, <1>6 DEF Inv, TasksInv, TaskTyped
  <2>2. T.word.refs = 3
    BY <1>8 DEF Born
  <2> QED
    BY <2>1, <2>2 DEF Becomes
<1>10. CASE SpawnsOwned(k)
  BY <1>2, <1>8, <1>9, <1>10, OwnedSpawned
<1>11. CASE SpawnsRefused(k)
  BY <1>2, <1>8, <1>9, <1>11, RefusedSpawned
<1> QED
  BY <1>4, <1>10, <1>11

-----------------------------------------------------------------------------
(* The invariant holds.                                                        *)

LEMMA InitHasInv == Init => Inv
<1> SUFFICES ASSUME Init PROVE Inv
  OBVIOUS
<1>1. /\ client \in Clients /\ client.workers \subseteq Workers
      /\ NoWorker \notin client.workers /\ NoTask \notin Tasks
  BY ActorsAssumption, SchedulerAssumption DEF Init
<1>2. /\ th = [a \in Actors |-> th[a]]
      /\ th[Main].pc = "main" /\ th[Source].pc = "source" /\ \A t \in Threads : th[t].pc = "free"
  BY RolesDiffer DEF Init, Idling
<1>3. ASSUME NEW a \in Actors
      PROVE  /\ DOMAIN th[a] = Fields /\ th[a].pc \in {"main", "source", "free"}
             /\ th[a].core = NoWorker /\ th[a].task = NoTask /\ th[a].cont = "lifo"
             /\ th[a].left = {} /\ th[a].drops = FALSE
  BY DEF Init, Idling, Fields
<1>4. /\ {"main", "source", "free"} \cap (Scheduling \cup TaskPlaces \cup FinishPlaces \cup CorePlaces) = {}
      /\ "free" \in ThreadPlaces /\ "main" \in MainPlaces
  BY DEF Scheduling, TaskPlaces, FinishPlaces, PollPlaces, HandlePlaces, CorePlaces, ThreadPlaces,
         MainPlaces
<1>5. \A a \in Actors : PlaceOf(th[a]) = th[a].pc /\ Place(a) = th[a].pc /\ th[a].pc # "submit"
  BY <1>3, <1>4 DEF PlaceOf, Place
<1>6. ActorsFit
  <2>1. \A a \in Actors : Shaped(th[a])
    BY <1>3, <1>4, <1>5 DEF Shaped
  <2>2. \A t \in Threads : ThreadFits(th[t])
    BY <1>2, <1>3, <1>4, <1>5, <2>1, RolesDiffer DEF ThreadFits
  <2>3. MainFits(th[Main]) /\ SourceFits(th[Source])
    BY <1>2, <1>3, <1>4, <1>5, <2>1, RolesDiffer DEF MainFits, SourceFits
  <2> QED
    BY <1>2, <2>2, <2>3 DEF ActorsFit
<1>7. /\ rt.runq = [w \in Workers |-> << >>] /\ rt.lifo = [w \in Workers |-> NoTask]
      /\ rt.inject = << >> /\ rt.owned = {} /\ rt.slot = client.workers /\ rt.down = {}
      /\ DOMAIN rt = RtFields
  BY DEF Init, RtFields
<1>8. QueuesTyped
  BY <1>1, <1>7 DEF QueuesTyped
<1>9. CoresPlaced
  BY <1>1, <1>3, <1>7, RolesDiffer DEF CoresPlaced
<1>10. ASSUME NEW k \in Tasks PROVE TaskInv(k)
  <2>1. /\ DOMAIN tk[k] = {"word", "output", "waker", "wakers", "handle"}
        /\ tk[k].word = Dead /\ tk[k].wakers = 0 /\ tk[k].handle = "none"
    BY DEF Init
  <2>2. /\ DOMAIN Dead = WordFields /\ Dead.refs = 0 /\ Dead.running = FALSE /\ Dead.complete = TRUE
        /\ Dead.notified = TRUE /\ Dead.cancelled = FALSE /\ Dead.joinInterest = TRUE
        /\ Dead.joinWaker = FALSE
    BY DEF Dead, Initial, WordFields
  <2>3. TaskTyped(tk[k])
    <3>1. /\ DOMAIN tk[k].word = WordFields
          /\ tk[k].word.running \in BOOLEAN /\ tk[k].word.complete \in BOOLEAN
          /\ tk[k].word.notified \in BOOLEAN /\ tk[k].word.cancelled \in BOOLEAN
          /\ tk[k].word.joinInterest \in BOOLEAN /\ tk[k].word.joinWaker \in BOOLEAN
      BY <2>1, <2>2
    <3>2. tk[k].word.refs \in Int /\ tk[k].wakers \in Nat
      BY <2>1, <2>2
    <3>3. tk[k].handle \in {"none", "held", "dropped"}
      BY <2>1
    <3> QED
      BY <2>1, <3>1, <3>2, <3>3 DEF TaskTyped
  <2>4. ASSUME NEW a \in Actors PROVE th[a].task # k /\ ~At(a, "submit")
    BY <1>1, <1>3, <1>5 DEF At
  <2>5. /\ {a \in Actors : Submits(a, k)} = {} /\ {a \in Actors : Fetched(a, k)} = {}
        /\ {a \in Actors : Carries(a, k)} = {} /\ {a \in Actors : Keeps(a, k)} = {}
        /\ {a \in Actors : Owes(a, k)} = {}
    BY <2>4 DEF Submits, Fetched, Carries, Keeps, Owes
  <2>6. NotifiedHands(k) = 0 /\ OtherHands(k) = 0
    BY <2>5, FS_EmptySet DEF NotifiedHands, OtherHands
  <2>7. Count(rt.lifo, rt.runq, rt.inject, k) = 0
    BY <1>7, CountNothing
  <2>8. Notifieds(k) = 0
    BY <2>6, <2>7 DEF Notifieds
  <2>9. Balanced(tk[k], k \in rt.owned, Notifieds(k), OtherHands(k))
    <3>1. One(k \in rt.owned) = 0 /\ One(tk[k].handle = "held") = 0
      BY <1>7, <2>1 DEF One
    <3>2. tk[k].word.refs = 0
      BY <2>1, <2>2
    <3>3. tk[k].word.refs = One(k \in rt.owned) + One(tk[k].handle = "held") + tk[k].wakers
                            + Notifieds(k) + OtherHands(k)
      BY <2>1, <2>6, <2>8, <3>1, <3>2
    <3> QED
      BY <2>8, <3>2, <3>3 DEF Balanced
  <2>10. \A a \in Actors : Where(a, k) = "elsewhere"
    BY <2>4 DEF Where
  <2>11. /\ \A a \in Actors : Agrees(tk[k], Notifieds(k), Where(a, k))
         /\ \A a \in Actors : ~RunsIt(a, k)
    BY <2>10 DEF Agrees, HandlePlaces, RunsIt
  <2>12. Waits(tk[k], Where(Main, k))
    BY <2>1 DEF Waits
  <2> QED
    BY <2>3, <2>9, <2>11, <2>12 DEF TaskInv
<1>11. tk = [k \in Tasks |-> tk[k]]
  BY DEF Init
<1> QED
  BY <1>6, <1>8, <1>9, <1>10, <1>11 DEF Inv, TasksInv

LEMMA StutterKeeps ==
  ASSUME Inv, UNCHANGED vars
  PROVE  Inv'
<1>1. th' = th /\ tk' = tk /\ rt' = rt /\ client' = client
  BY DEF vars
<1>2. ActorsFit'
  BY <1>1 DEF Inv, ActorsFit, ThreadFits, MainFits, SourceFits, Shaped, PlaceOf
<1>3. QueuesKept
  BY <1>1 DEF QueuesKept
<1> QED
  BY <1>1, <1>2, <1>3, QuietStep

LEMMA SchedulesKeeps ==
  ASSUME Inv, NEW a \in Actors, Schedules(a)
  PROVE  Inv'
BY SubmitKeeps, NotifyKeeps, UnparkKeeps, SignalKeeps, PokeKeeps DEF Schedules

LEMMA FinishingKeeps ==
  ASSUME Inv, NEW a \in Actors, Finishing(a)
  PROVE  Inv'
BY CompleteKeeps, WakeJoinKeeps, ReleaseKeeps, ShutKeeps DEF Finishing

LEMMA ThreadStepKeeps ==
  ASSUME Inv, NEW t \in Threads, ThreadStep(t)
  PROVE  Inv'
<1>1. t \in Actors
  BY RolesDiffer
<1>2. CASE Start(t) \/ LeaveLoop(t) \/ MaintainDriver(t) \/ Maintenance(t)
  BY <1>2, StartKeeps, LeaveLoopKeeps, MaintainDriverKeeps, MaintenanceKeeps
<1>3. CASE NothingInjected(t) \/ TakeLocal(t) \/ TakeInjected(t) \/ TakeNothing(t)
  BY <1>3, NothingInjectedKeeps, TakeLocalKeeps, TakeInjectedKeeps, TakeNothingKeeps
<1>4. CASE StealWork(t) \/ Search(t) \/ Raid(t) \/ RaidInjected(t) \/ Found(t)
  BY <1>4, StealWorkKeeps, SearchKeeps, RaidKeeps, RaidInjectedKeeps, FoundKeeps
<1>5. CASE Poll(t) \/ Return(t) \/ Register(t) \/ Wake(t)
  BY <1>5, PollKeeps, ReturnKeeps, RegisterKeeps, WakeKeeps
<1>6. CASE Block(t) \/ Unblock(t) \/ Idle(t) \/ Lifo(t)
  BY <1>6, BlockKeeps, UnblockKeeps, IdleKeeps, LifoKeeps
<1>7. CASE Finishing(t) \/ Schedules(t)
  BY <1>1, <1>7, FinishingKeeps, SchedulesKeeps
<1>8. CASE Park(t) \/ WorkPending(t) \/ Parking(t) \/ ParkCondvar(t)
  BY <1>8, ParkKeeps, WorkPendingKeeps, ParkingKeeps, ParkCondvarKeeps
<1>9. CASE Wait(t) \/ Woken(t) \/ ParkDriver(t) \/ DriverUnparked(t)
  BY <1>9, WaitKeeps, WokenKeeps, ParkDriverKeeps, DriverUnparkedKeeps
<1>10. CASE DriverDone(t) \/ FromParked(t) \/ ShutAll(t) \/ ShutCore(t)
  BY <1>10, DriverDoneKeeps, FromParkedKeeps, ShutAllKeeps, ShutCoreKeeps
<1> QED
  BY <1>2, <1>3, <1>4, <1>5, <1>6, <1>7, <1>8, <1>9, <1>10 DEF ThreadStep

LEMMA MainStepKeeps ==
  ASSUME Inv, MainStep
  PROVE  Inv'
<1>1. Main \in Actors
  BY RolesDiffer
<1>2. CASE Schedules(Main) \/ Finishing(Main) \/ DropNotified \/ NotifyAll
  BY <1>1, <1>2, SchedulesKeeps, FinishingKeeps, DropNotifiedKeeps, NotifyAllKeeps
<1>3. CASE ReadOutput \/ UnsetJoinWaker \/ WriteWaker \/ SetWakerBit \/ ClearWaker \/ Await
  BY <1>3, ReadOutputKeeps, UnsetJoinWakerKeeps, WriteWakerKeeps, SetWakerBitKeeps,
     ClearWakerKeeps, AwaitKeeps
<1>4. CASE TakeOutput \/ DropHandle \/ DropOutput \/ DropReference
  BY <1>4, TakeOutputKeeps, DropHandleKeeps, DropOutputKeeps, DropReferenceKeeps
<1> QED
  BY <1>2, <1>3, <1>4 DEF MainStep

LEMMA BeginKeeps ==
  ASSUME Inv, Begin
  PROVE  Inv'
<1>1. CASE Spawn \/ Abort \/ Join \/ Repoll \/ Close \/ SourceWakes \/ SourceDrops
  BY <1>1, SpawnKeeps, AbortKeeps, JoinKeeps, RepollKeeps, CloseKeeps, SourceWakesKeeps,
     SourceDropsKeeps
<1>2. CASE \E t \in Threads : SpuriousWakeup(t) \/ DriverEvent(t)
  BY <1>2, SpuriousWakeupKeeps, DriverEventKeeps
<1> QED
  BY <1>1, <1>2 DEF Begin

\* Whatever the threads, the main thread and the source do in whichever order, the
\* references to each task, what each actor has in hand, and the places of the cores
\* agree with the words of the tasks and with the queues.
THEOREM Invariant == Spec => []Inv
<1>1. Init => Inv
  BY InitHasInv
<1>2. Inv /\ [Next]_vars => Inv'
  <2> SUFFICES ASSUME Inv, [Next]_vars PROVE Inv'
    OBVIOUS
  <2>1. CASE \E t \in Threads : ThreadStep(t)
    BY <2>1, ThreadStepKeeps
  <2>2. CASE MainStep
    BY <2>2, MainStepKeeps
  <2>3. CASE Schedules(Source)
    BY <2>3, SchedulesKeeps, RolesDiffer
  <2>4. CASE Begin
    BY <2>4, BeginKeeps
  <2>5. CASE UNCHANGED vars
    BY <2>5, StutterKeeps
  <2> QED
    BY <2>1, <2>2, <2>3, <2>4, <2>5 DEF Next
<1> QED
  BY <1>1, <1>2, PTL DEF Spec

\* The references that the invariant counts are those of RefsMatch.
LEMMA HandsAre ==
  ASSUME NEW k
  PROVE  /\ InHand(k, {"found", "poll"}) = {a \in Actors : Fetched(a, k)}
         /\ Submitters(k) = {a \in Actors : Submits(a, k)}
         /\ {a \in Finishers(k) : th[a].cont = "drop notified"} \cup InHand(k, {"drop notified"})
              = {a \in Actors : Carries(a, k)}
         /\ Finishers(k) \cup Runners(k) = {a \in Actors : Keeps(a, k)}
         /\ {a \in Submitters(k) : th[a].drops} = {a \in Actors : Owes(a, k)}
<1>1. InHand(k, {"found", "poll"}) = {a \in Actors : Fetched(a, k)}
  BY DEF InHand, Fetched
<1>2. Submitters(k) = {a \in Actors : Submits(a, k)}
  BY DEF Submitters, Submits
<1>3. {a \in Finishers(k) : th[a].cont = "drop notified"} \cup InHand(k, {"drop notified"})
        = {a \in Actors : Carries(a, k)}
  BY DEF Finishers, InHand, Carries, FinishPlaces
<1>4. Finishers(k) \cup Runners(k) = {a \in Actors : Keeps(a, k)}
  BY DEF Finishers, Runners, InHand, Keeps, FinishPlaces, PollPlaces
<1>5. {a \in Submitters(k) : th[a].drops} = {a \in Actors : Owes(a, k)}
  BY <1>2 DEF Owes
<1> QED
  BY <1>1, <1>2, <1>3, <1>4, <1>5

LEMMA InvRefsMatch == Inv => RefsMatch
<1> SUFFICES ASSUME Inv, NEW k \in Tasks
             PROVE  /\ tk[k].word.refs =
                          (IF k \in rt.owned THEN 1 ELSE 0) + (IF HasHandle(k) THEN 1 ELSE 0)
                          + tk[k].wakers + NotifiedRefs(k)
                          + Cardinality(Finishers(k) \cup Runners(k))
                          + Cardinality({a \in Submitters(k) : th[a].drops})
                    /\ NotifiedRefs(k) <= 1
                    /\ (NotifiedRefs(k) = 1 => tk[k].word.notified)
  BY DEF RefsMatch
<1>1. /\ TaskTyped(tk[k]) /\ Balanced(tk[k], k \in rt.owned, Notifieds(k), OtherHands(k))
  BY TaskFacts
<1>2. Notifieds(k) \in Nat /\ OtherHands(k) \in Nat
  BY Referenced, RolesDiffer
<1> DEFINE f == Cardinality({a \in Actors : Fetched(a, k)})
           s == Cardinality({a \in Actors : Submits(a, k)})
           c == Cardinality({a \in Actors : Carries(a, k)})
           p == Cardinality({a \in Actors : Keeps(a, k)})
           o == Cardinality({a \in Actors : Owes(a, k)})
<1>3. /\ f \in Nat /\ s \in Nat /\ c \in Nat /\ p \in Nat /\ o \in Nat
  <2>1. \A S \in SUBSET Actors : Cardinality(S) \in Nat
    BY ActorsFinite, FS_Subset, FS_CardinalityType
  <2> QED
    BY <2>1
<1>4. Queued(k) \in Nat /\ Notifieds(k) = Queued(k) + NotifiedHands(k)
  BY CountIs DEF Inv
<1>5. NotifiedHands(k) = s + f + c /\ OtherHands(k) = p + o
  BY DEF NotifiedHands, OtherHands
<1>6. NotifiedRefs(k) = Queued(k) + f + s + c
  BY HandsAre DEF NotifiedRefs
<1>7. Cardinality(Finishers(k) \cup Runners(k)) = p
  BY HandsAre
<1>8. Cardinality({a \in Submitters(k) : th[a].drops}) = o
  BY HandsAre
<1> HIDE DEF f, s, c, p, o
<1>9. NotifiedRefs(k) = Notifieds(k)
  BY <1>3, <1>4, <1>5, <1>6
<1>10. /\ tk[k].word.refs = One(k \in rt.owned) + One(tk[k].handle = "held") + tk[k].wakers
                            + Notifieds(k) + OtherHands(k)
       /\ Notifieds(k) <= 1 /\ (Notifieds(k) = 1 => tk[k].word.notified)
  BY <1>1 DEF Balanced
<1>11. tk[k].wakers \in Nat
  BY <1>1 DEF TaskTyped
<1>12. /\ One(k \in rt.owned) = (IF k \in rt.owned THEN 1 ELSE 0)
       /\ One(tk[k].handle = "held") = (IF HasHandle(k) THEN 1 ELSE 0)
  BY DEF One, HasHandle
<1> DEFINE u == IF k \in rt.owned THEN 1 ELSE 0
           h == IF HasHandle(k) THEN 1 ELSE 0
<1>13. u \in Nat /\ h \in Nat
  OBVIOUS
<1>14. tk[k].word.refs = u + h + tk[k].wakers + Notifieds(k) + OtherHands(k)
  BY <1>10, <1>12
<1> HIDE DEF u, h
<1>15. tk[k].word.refs = u + h + tk[k].wakers + NotifiedRefs(k) + p + o
  BY <1>2, <1>3, <1>5, <1>9, <1>11, <1>13, <1>14
<1> QED
  BY <1>7, <1>8, <1>9, <1>10, <1>15 DEF u, h

\* RefsMatch, for any program: the count of the word of a task (state.rs) is that of
\* the references there are to it, so it is neither freed too early nor leaked, and
\* there is one Notified at most.
THEOREM ReferencesMatch == Spec => []RefsMatch
BY Invariant, InvRefsMatch, PTL

\* Each core is in one place.
LEMMA OneCore ==
  ASSUME CoresPlaced, NEW w \in client.workers, NoWorker \notin client.workers
  PROVE  Cardinality({t \in Threads : th[t].core = w})
         + Cardinality({w} \cap rt.slot) + Cardinality({w} \cap rt.down) = 1
<1> DEFINE H == {t \in Threads : th[t].core = w}
           S == {w} \cap rt.slot
           D == {w} \cap rt.down
<1>1. Cardinality({}) = 0 /\ Cardinality({w}) = 1
  BY FS_EmptySet, FS_Singleton
<1>2. CASE w \in rt.slot
  <2>1. H = {} /\ S = {w} /\ D = {}
    BY <1>2 DEF CoresPlaced
  <2> HIDE DEF H, S, D
  <2>2. Cardinality(H) = 0 /\ Cardinality(S) = 1 /\ Cardinality(D) = 0
    BY <1>1, <2>1
  <2> QED
    BY <2>2 DEF H, S, D
<1>3. CASE w \in rt.down
  <2>1. H = {} /\ S = {} /\ D = {w}
    BY <1>3 DEF CoresPlaced
  <2> HIDE DEF H, S, D
  <2>2. Cardinality(H) = 0 /\ Cardinality(S) = 0 /\ Cardinality(D) = 1
    BY <1>1, <2>1
  <2> QED
    BY <2>2 DEF H, S, D
<1>4. CASE w \notin rt.slot \cup rt.down
  <2>1. PICK t \in Threads : th[t].core = w
    BY <1>4 DEF CoresPlaced
  <2>2. H = {t} /\ S = {} /\ D = {}
    BY <1>4, <2>1 DEF CoresPlaced
  <2>3. Cardinality({t}) = 1
    BY FS_Singleton
  <2> HIDE DEF H, S, D
  <2>4. Cardinality(H) = 1 /\ Cardinality(S) = 0 /\ Cardinality(D) = 0
    BY <1>1, <2>2, <2>3
  <2> QED
    BY <2>4 DEF H, S, D
<1> QED
  BY <1>2, <1>3, <1>4

\* One actor at most runs the task, and only as its word says.
LEMMA OneRunner ==
  ASSUME Inv, NEW k \in Tasks
  PROVE  /\ Cardinality(Runners(k)) <= 1
         /\ Runners(k) # {} => tk[k].word.running /\ ~tk[k].word.complete
<1>1. \A a \in Runners(k) : a \in Actors /\ RunsIt(a, k)
  BY DEF Runners, InHand, RunsIt, Where, PollPlaces
<1>2. \A a, b \in Runners(k) : a = b
  BY <1>1, TaskFacts
<1>3. CASE Runners(k) = {}
  <2>1. Cardinality(Runners(k)) = 0
    BY <1>3, FS_EmptySet
  <2> QED
    BY <1>3, <2>1
<1>4. CASE Runners(k) # {}
  <2>1. PICK a : a \in Runners(k)
    BY <1>4
  <2>2. Runners(k) = {a}
    BY <1>2, <2>1
  <2>3. Cardinality(Runners(k)) = 1
    BY <2>2, FS_Singleton
  <2>4. Agrees(tk[k], Notifieds(k), Where(a, k)) /\ Where(a, k) \in {"body", "complete"}
    BY <1>1, <2>1, TaskFacts DEF RunsIt
  <2>5. tk[k].word.running /\ ~tk[k].word.complete
    BY <2>4 DEF Agrees
  <2> QED
    BY <2>3, <2>5
<1> QED
  BY <1>3, <1>4

\* Where Main is in joining a task.
LEMMA JoiningIs ==
  ASSUME Inv, NEW k \in Tasks, NEW p \in HandlePlaces,
         (IF th[Main].task = k THEN th[Main].pc ELSE "main") = p
  PROVE  /\ p \notin {"take", "drop output"} \/ tk[k].word.joinInterest
         /\ p \notin {"set waker", "clear waker"} \/ ~tk[k].word.joinWaker
         /\ p = "take" => tk[k].output = "stored"
<1>1. p # "main" /\ p \notin Scheduling /\ p \notin PollPlaces
  BY DEF HandlePlaces, Scheduling, PollPlaces
<1>2. th[Main].task = k /\ th[Main].pc = p
  BY <1>1
<1>3. Where(Main, k) = p
  BY <1>1, <1>2 DEF Where, Place
<1>4. Agrees(tk[k], Notifieds(k), p) /\ Waits(tk[k], p)
  BY <1>3, TaskFacts, RolesDiffer
<1>5. tk[k].word.joinInterest /\ tk[k].handle = "held"
  BY <1>4 DEF Agrees
<1>6. p \in {"set waker", "clear waker"} => ~tk[k].word.joinWaker
  BY <1>4 DEF Agrees
<1>7. p = "take" => tk[k].output = "stored"
  BY <1>4, <1>5 DEF Agrees, Waits
<1> QED
  BY <1>5, <1>6, <1>7

LEMMA InvExclusiveAccess == Inv => ExclusiveAccess
<1> SUFFICES ASSUME Inv PROVE ExclusiveAccess
  OBVIOUS
<1>1. ASSUME NEW k \in Tasks
      PROVE  LET completing == InHand(k, {"wake join"}) # {}
                 joining == IF th[Main].task = k THEN th[Main].pc ELSE "main"
                 word == tk[k].word IN
             /\ Cardinality(Runners(k)) <= 1
             /\ Runners(k) # {} => word.running /\ ~word.complete
             /\ completing /\ ~word.joinInterest => joining \notin {"take", "drop output"}
             /\ completing /\ word.joinInterest /\ word.joinWaker =>
                   joining \notin {"set waker", "clear waker"}
             /\ joining = "take" => tk[k].output = "stored"
  <2> DEFINE p == IF th[Main].task = k THEN th[Main].pc ELSE "main"
  <2>1. {"take", "drop output", "set waker", "clear waker"} \subseteq HandlePlaces
    BY DEF HandlePlaces
  <2>2. /\ p \in {"take", "drop output"} => tk[k].word.joinInterest
        /\ p \in {"set waker", "clear waker"} => ~tk[k].word.joinWaker
        /\ p = "take" => tk[k].output = "stored"
    <3>1. CASE p \in {"take", "drop output", "set waker", "clear waker"}
      <4>1. PICK q \in HandlePlaces : q = p
        BY <2>1, <3>1
      <4> QED
        BY <4>1, JoiningIs
    <3>2. CASE p \notin {"take", "drop output", "set waker", "clear waker"}
      BY <3>2
    <3> QED
      BY <3>1, <3>2
  <2>3. /\ Cardinality(Runners(k)) <= 1
        /\ Runners(k) # {} => tk[k].word.running /\ ~tk[k].word.complete
    BY OneRunner
  <2> HIDE DEF p
  <2> QED
    BY <2>2, <2>3 DEF p
<1>2. ASSUME NEW w \in client.workers
      PROVE  Cardinality({t \in Threads : th[t].core = w})
             + Cardinality({w} \cap rt.slot) + Cardinality({w} \cap rt.down) = 1
  <2>1. CoresPlaced /\ NoWorker \notin client.workers
    BY SchedulerAssumption, ActorsAssumption DEF Inv, QueuesTyped
  <2> QED
    BY <2>1, OneCore
<1> QED
  BY <1>1, <1>2 DEF ExclusiveAccess

\* ExclusiveAccess, for any program: no two actors touch the future, the output or the
\* waker of a task at once (harness.rs, join.rs), and no core is lost or run twice
\* (worker.rs, block_in_place included).
THEOREM AccessIsExclusive == Spec => []ExclusiveAccess
BY Invariant, InvExclusiveAccess, PTL
=============================================================================
