-------------------------- MODULE StealQueue_proofs --------------------------
(* The run queues, for any number of workers and tasks, any even capacity and  *)
(* any number of indices that is a multiple of it, however often they go       *)
(* round: no assertion fails, no slot is written while a stealer may read it,  *)
(* and the ring buffers implement the FIFO queues of RunQueues.                *)
EXTENDS StealQueue, SequenceTheorems, FiniteSetTheorems, WellFoundedInduction, TLAPS

Idx == 0 .. Indices - 1
Heads == [steal : Idx, real : Idx]
Items == Tasks \cup {NoTask}
Locals == [from : Workers, head : Heads, n : Nat, copied : Nat, task : Items]

\* A stealer, until its own tail takes in what it has stolen; with the loop over
\* the slots and the compare-exchange after it.
Stealing == {"stealHead", "stealTail", "stealCas", "copy", "release", "expose"}
Reading == {"copy", "release"}
Labels == Stealing \cup {"idle", "push", "pushWrite", "pushTail", "overflow", "overflowRead",
                         "pop", "popRead", "refill"}

\* A call that may add to the queue of its worker.
Adding(w) == pc[w] \notin {"idle", "pop", "popRead"}

TypeOK ==
    /\ head \in [Workers -> Heads]
    /\ tail \in [Workers -> Idx]
    /\ buffer \in [Workers -> [0 .. Capacity - 1 -> Items]]
    /\ inject \in Seq(Items)
    /\ next \in Nat \ {0}
    /\ pc \in [Workers -> Labels]
    /\ at \in [Workers -> Locals]

\* How far the index i is behind the tail of w.
Behind(w, i) == Minus(tail[w], i)

\* The two halves of a head are in order, and never further behind the tail than
\* there are slots.
Ordered(w) ==
    /\ Behind(w, head[w].real) <= Behind(w, head[w].steal)
    /\ Behind(w, head[w].steal) <= Capacity

\* What a call knows of its own worker's queue from what it has read of it:
\* others have only moved the head since, and only forward.
OwnKnown(w) ==
    LET h == at[w].head
        n == at[w].n
    IN  /\ pc[w] \in {"pushWrite", "pushTail"} => Behind(w, head[w].steal) < Capacity
        /\ pc[w] = "overflow" => h.steal = h.real /\ Behind(w, h.real) = Capacity
        /\ pc[w] = "pop" => /\ 1 <= Behind(w, h.real)
                            /\ Behind(w, h.real) <= Behind(w, h.steal)
                            /\ Behind(w, h.steal) <= Capacity
        /\ pc[w] \in Stealing => Behind(w, head[w].steal) <= Capacity \div 2
        /\ pc[w] \in {"copy", "release", "expose"} => 1 <= n /\ n <= Capacity \div 2
        /\ pc[w] \in {"stealHead", "stealTail", "stealCas"} => at[w].copied = 0
        /\ pc[w] = "copy" => at[w].copied < n
        /\ pc[w] = "refill" => /\ 1 <= n /\ n <= Capacity \div 2
                               /\ n = 1 \/ Behind(w, head[w].steal) + n <= Capacity

\* What a stealer knows of its victim's queue.  A head it has loaded is where the
\* head is or behind it, and is not overtaken by the tail; one that was free to
\* steal from and has not moved is the head.  A head it has claimed stays until
\* it gives it back, with the slots it reads between `steal` and `real`.
VictimKnown(w) ==
    LET v == at[w].from
        h == at[w].head
        n == at[w].n
    IN  /\ pc[w] \in Stealing => v # w
        /\ pc[w] \in {"stealTail", "stealCas"} =>
             /\ Behind(v, head[v].real) <= Behind(v, h.real)
             /\ h.steal = h.real /\ h.real = head[v].real => head[v] = h
             /\ Adding(v) => Behind(v, h.real) + Capacity \div 2 < Indices
        /\ pc[w] = "stealCas" =>
             /\ h.steal = h.real
             /\ 1 <= n
             /\ head[v] = h => n <= HalfOf(Behind(v, h.real))
        /\ pc[w] \in Reading =>
             /\ h.steal = head[v].steal
             /\ Behind(v, head[v].real) + n <= Behind(v, head[v].steal)

\* One stealer at a time reads a queue's slots.
OneReader == \A u, w \in Workers :
    pc[u] \in Reading /\ pc[w] \in Reading /\ at[u].from = at[w].from => u = w

\* The inductive invariant.
IInv ==
    /\ TypeOK
    /\ \A w \in Workers : Ordered(w) /\ OwnKnown(w) /\ VictimKnown(w)
    /\ OneReader
    /\ ~panicked
-----------------------------------------------------------------------------
(* The arithmetic of the indices.                                              *)

LEMMA Remainder ==
  ASSUME NEW m \in Nat \ {0}, NEW x \in Int, NEW q \in Int, NEW r \in 0 .. m - 1,
         x = m * q + r
  PROVE  x % m = r
OBVIOUS

\* A number is a multiple of m and a remainder below m.
LEMMA Quotient ==
  ASSUME NEW m \in Nat \ {0}, NEW x \in Nat
  PROVE  /\ x % m \in 0 .. m - 1
         /\ \E q \in Nat : x = m * q + (x % m)
<1> DEFINE S == {r \in Nat : \E q \in Nat : x = m * q + r}
           R == {xy \in Nat \X Nat : xy[1] < xy[2]}
<1>1. IsWellFoundedOn(R, Nat)
  BY NatLessThanWellFounded DEF OpToRel
<1>2. x \in S
  <2>1. x = m * 0 + x
    OBVIOUS
  <2> QED
    BY <2>1
<1>3. S \in SUBSET Nat /\ S # {}
  BY <1>2
<1> HIDE DEF R, S
<1>4. PICK r \in S : \A y \in S : <<y, r>> \notin R
  BY <1>1, <1>3, WFMin
<1>5. r \in Nat /\ \E q \in Nat : x = m * q + r
  BY <1>4 DEF S
<1>6. PICK q \in Nat : x = m * q + r
  BY <1>5
<1>7. r < m
  <2>1. SUFFICES ASSUME ~(r < m) PROVE FALSE
    OBVIOUS
  <2>2. r - m \in Nat /\ r - m < r
    BY <1>5, <2>1
  <2>3. x = m * (q + 1) + (r - m)
    <3>1. m * (q + 1) = m * q + m
      OBVIOUS
    <3> QED
      BY <1>5, <1>6, <3>1
  <2>4. r - m \in S
    BY <2>2, <2>3 DEF S
  <2>5. <<r - m, r>> \in R
    BY <1>5, <2>2 DEF R
  <2> QED
    BY <1>4, <2>4, <2>5
<1>8. r \in 0 .. m - 1 /\ q \in Int /\ x \in Int
  BY <1>5, <1>6, <1>7
<1>9. x % m = r
  BY <1>6, <1>8, Remainder
<1>10. q \in Nat /\ x = m * q + (x % m)
  BY <1>6, <1>9
<1>11. x % m \in 0 .. m - 1
  BY <1>8, <1>9
<1> QED
  BY <1>10, <1>11

\* The capacity is even, and the indices are a multiple of it, at least twice.
LEMMA Sizes ==
  /\ Capacity \in Nat \ {0} /\ Indices \in Nat \ {0}
  /\ Capacity \div 2 \in Nat \ {0} /\ 2 * (Capacity \div 2) = Capacity
  /\ 2 * Capacity <= Indices
  /\ \E q \in Nat : Indices = Capacity * q
<1>1. /\ Capacity \in Nat \ {0} /\ Capacity % 2 = 0
      /\ Indices \in Nat /\ Indices > Capacity /\ Indices % Capacity = 0
  BY StealQueueAssumption
<1>2. Capacity \div 2 \in Nat \ {0} /\ 2 * (Capacity \div 2) = Capacity
  BY <1>1
<1>3. 2 * Capacity <= Indices
  <2>1. ASSUME Indices \in Capacity .. 2 * Capacity - 1
        PROVE  Indices % Capacity = Indices - Capacity
    BY <1>1, <2>1
  <2> QED
    BY <1>1, <2>1
<1>4. PICK q \in Nat : Indices = Capacity * q + (Indices % Capacity)
  BY <1>1, Quotient
<1>5. Indices = Capacity * q
  BY <1>1, <1>4
<1> QED
  BY <1>1, <1>2, <1>3, <1>5

\* A distance, and an index further on, without the remainder.
LEMMA MinusIs ==
  ASSUME NEW i \in Idx, NEW j \in Idx
  PROVE  /\ Minus(i, j) \in Idx
         /\ Minus(i, j) = IF i >= j THEN i - j ELSE i - j + Indices
<1>1. Indices \in Nat \ {0}
  BY Sizes
<1>2. CASE i >= j
  <2>1. i - j \in 0 .. Indices - 1
    BY <1>1, <1>2 DEF Idx
  <2>2. (i - j) % Indices = i - j
    BY <1>1, <2>1
  <2> QED
    BY <1>2, <2>1, <2>2 DEF Minus, Idx
<1>3. CASE ~(i >= j)
  <2>1. i - j \in (-Indices) .. (-1) /\ i - j + Indices \in 0 .. Indices - 1
    BY <1>1, <1>3 DEF Idx
  <2>2. (i - j) % Indices = i - j + Indices
    BY <1>1, <2>1
  <2> QED
    BY <1>3, <2>1, <2>2 DEF Minus, Idx
<1> QED
  BY <1>2, <1>3

LEMMA PlusIs ==
  ASSUME NEW i \in Idx, NEW n \in 0 .. Indices
  PROVE  /\ Plus(i, n) \in Idx
         /\ Plus(i, n) = IF i + n < Indices THEN i + n ELSE i + n - Indices
<1>1. Indices \in Nat \ {0}
  BY Sizes
<1>2. CASE i + n < Indices
  <2>1. i + n \in 0 .. Indices - 1
    BY <1>1, <1>2 DEF Idx
  <2>2. (i + n) % Indices = i + n
    BY <1>1, <2>1
  <2> QED
    BY <1>2, <2>1, <2>2 DEF Plus, Idx
<1>3. CASE ~(i + n < Indices)
  <2>1. i + n \in Indices .. 2 * Indices - 1 /\ i + n - Indices \in 0 .. Indices - 1
    BY <1>1, <1>3 DEF Idx
  <2>2. i \in Int /\ n \in Int /\ Indices * 1 = Indices
    BY <1>1 DEF Idx
  <2>3. i + n = Indices * 1 + (i + n - Indices) /\ i + n \in Int
    BY <1>1, <2>2
  <2>4. (i + n) % Indices = i + n - Indices
    <3>1. 1 \in Int /\ i + n \in Int /\ i + n - Indices \in 0 .. Indices - 1
      BY <2>1, <2>3
    <3> QED
      BY <1>1, <2>3, <3>1, Remainder
  <2> QED
    BY <1>3, <2>1, <2>4 DEF Plus, Idx
<1> QED
  BY <1>2, <1>3

\* Indices are the same when they are equally far behind a third one.
LEMMA SameIndex ==
  ASSUME NEW t \in Idx, NEW i \in Idx, NEW j \in Idx
  PROVE  /\ Minus(t, i) = Minus(t, j) <=> i = j
         /\ Minus(t, i) = 0 <=> i = t
<1>1. Indices \in Nat /\ i \in 0 .. Indices - 1 /\ j \in 0 .. Indices - 1 /\ t \in 0 .. Indices - 1
  BY Sizes DEF Idx
<1>2. Minus(t, i) = IF t >= i THEN t - i ELSE t - i + Indices
  BY MinusIs
<1>3. Minus(t, j) = IF t >= j THEN t - j ELSE t - j + Indices
  BY MinusIs
<1>4. Minus(t, i) = Minus(t, j) <=> i = j
  BY <1>1, <1>2, <1>3
<1>5. Minus(t, i) = 0 <=> i = t
  BY <1>1, <1>2
<1> QED
  BY <1>4, <1>5

\* A tail that moves on is further ahead.
LEMMA TailAhead ==
  ASSUME NEW t \in Idx, NEW i \in Idx, NEW k \in Nat, Minus(t, i) + k < Indices
  PROVE  Plus(t, k) \in Idx /\ Minus(Plus(t, k), i) = Minus(t, i) + k
<1>1. Minus(t, i) \in Nat /\ k \in 0 .. Indices /\ Indices \in Nat
  BY MinusIs, Sizes DEF Idx
<1>2. Plus(t, k) \in Idx /\ Plus(t, k) = IF t + k < Indices THEN t + k ELSE t + k - Indices
  BY <1>1, PlusIs
<1>3. Minus(t, i) = IF t >= i THEN t - i ELSE t - i + Indices
  BY MinusIs
<1>4. Minus(Plus(t, k), i) = IF Plus(t, k) >= i THEN Plus(t, k) - i ELSE Plus(t, k) - i + Indices
  BY <1>2, MinusIs
<1>5. t \in 0 .. Indices - 1 /\ i \in 0 .. Indices - 1
  BY DEF Idx
<1> QED
  BY <1>1, <1>2, <1>3, <1>4, <1>5

\* A head that moves on, up to the tail, is less far behind.
LEMMA HeadAhead ==
  ASSUME NEW t \in Idx, NEW i \in Idx, NEW k \in Nat, k <= Minus(t, i)
  PROVE  Plus(i, k) \in Idx /\ Minus(t, Plus(i, k)) = Minus(t, i) - k
<1>1. Minus(t, i) \in Nat /\ k \in 0 .. Indices /\ Indices \in Nat
  BY MinusIs, Sizes DEF Idx
<1>2. Plus(i, k) \in Idx /\ Plus(i, k) = IF i + k < Indices THEN i + k ELSE i + k - Indices
  BY <1>1, PlusIs
<1>3. Minus(t, i) = IF t >= i THEN t - i ELSE t - i + Indices
  BY MinusIs
<1>4. Minus(t, Plus(i, k)) = IF t >= Plus(i, k) THEN t - Plus(i, k) ELSE t - Plus(i, k) + Indices
  BY <1>2, MinusIs
<1>5. t \in 0 .. Indices - 1 /\ i \in 0 .. Indices - 1
  BY DEF Idx
<1> QED
  BY <1>1, <1>2, <1>3, <1>4, <1>5

LEMMA SlotTyped ==
  ASSUME NEW i \in Idx, NEW k \in Nat
  PROVE  Slot(Plus(i, k)) \in 0 .. Capacity - 1
<1>1. i + k \in Nat /\ Indices \in Nat \ {0} /\ Capacity \in Nat \ {0}
  BY Sizes DEF Idx
<1>2. Plus(i, k) \in Nat
  BY <1>1, Quotient DEF Plus
<1> QED
  BY <1>1, <1>2, Quotient DEF Slot

\* Less than a capacity apart, two indices have slots of their own.
LEMMA SlotsApart ==
  ASSUME NEW i \in Idx, NEW j \in Idx, 1 <= Minus(i, j), Minus(i, j) < Capacity
  PROVE  Slot(i) # Slot(j)
<1>1. Capacity \in Nat \ {0} /\ Indices \in Nat /\ i \in Nat /\ j \in Nat
  BY Sizes DEF Idx
<1>2. PICK q \in Nat : Indices = Capacity * q
  BY Sizes
<1>3. PICK a \in Nat : i = Capacity * a + (i % Capacity)
  BY <1>1, Quotient
<1>4. PICK b \in Nat : j = Capacity * b + (j % Capacity)
  BY <1>1, Quotient
<1>5. i % Capacity \in Nat /\ j % Capacity \in Nat
  BY <1>1, Quotient
<1> SUFFICES ASSUME i % Capacity = j % Capacity PROVE FALSE
  BY DEF Slot
<1> DEFINE r == i % Capacity
           ca == Capacity * a
           cb == Capacity * b
           cq == Capacity * q
<1>6. ca \in Int /\ cb \in Int /\ cq \in Int
  BY <1>1
<1>7. i = ca + r /\ j = cb + r /\ Indices = cq /\ r \in Nat
  BY <1>2, <1>3, <1>4, <1>5
<1>8. Capacity * (a - b) = ca - cb /\ Capacity * ((a - b) + q) = (ca - cb) + cq
  BY <1>1
<1> HIDE DEF r, ca, cb, cq
<1>9. i - j = ca - cb
  BY <1>6, <1>7
<1>10. ASSUME NEW d \in Int, Capacity * d \in 1 .. Capacity - 1 PROVE FALSE
  <2>1. d <= 0 \/ d >= 1
    BY <1>10
  <2>2. CASE d <= 0
    <3>1. Capacity * d <= 0
      BY <1>1, <2>2
    <3> QED
      BY <1>1, <1>10, <3>1
  <2>3. CASE d >= 1
    <3>1. Capacity * d >= Capacity
      BY <1>1, <2>3
    <3> QED
      BY <1>1, <1>10, <3>1
  <2> QED
    BY <2>1, <2>2, <2>3
<1>11. Minus(i, j) \in 1 .. Capacity - 1
  BY <1>1, MinusIs DEF Idx
<1>12. CASE i >= j
  <2>1. Minus(i, j) = ca - cb
    BY <1>9, <1>12, MinusIs
  <2> QED
    BY <1>8, <1>10, <1>11, <2>1
<1>13. CASE ~(i >= j)
  <2>1. Minus(i, j) = (ca - cb) + cq
    BY <1>7, <1>9, <1>13, MinusIs
  <2> QED
    BY <1>8, <1>10, <1>11, <2>1
<1> QED
  BY <1>1, <1>12, <1>13

\* Half of n, rounded up.
LEMMA HalfIs ==
  ASSUME NEW n \in Nat
  PROVE  /\ HalfOf(n) \in Nat /\ HalfOf(n) <= n
         /\ HalfOf(n) = 0 <=> n = 0
         /\ n <= Capacity => HalfOf(n) <= Capacity \div 2
         /\ \A m \in Nat : n <= m => HalfOf(n) <= HalfOf(m)
BY Sizes DEF HalfOf

\* The least of a few numbers.
LEMMA LeastIs ==
  ASSUME NEW a \in Int, NEW b \in Int, NEW c \in Int
  PROVE  /\ Least({a, b, c}) \in {a, b, c}
         /\ Least({a, b, c}) <= a /\ Least({a, b, c}) <= b /\ Least({a, b, c}) <= c
<1>1. \E n \in {a, b, c} : \A k \in {a, b, c} : n <= k
  <2>1. CASE a <= b /\ a <= c
    BY <2>1
  <2>2. CASE b <= a /\ b <= c
    BY <2>2
  <2>3. CASE c <= a /\ c <= b
    BY <2>3
  <2> QED
    BY <2>1, <2>2, <2>3
<1> DEFINE S == {a, b, c}
<1>2. \E n \in S : \A k \in S : n <= k
  BY <1>1
<1>3. a \in S /\ b \in S /\ c \in S
  OBVIOUS
<1> HIDE DEF S
<1>4. Least(S) \in S /\ \A k \in S : Least(S) <= k
  BY <1>2 DEF Least
<1> QED
  BY <1>3, <1>4 DEF S

-----------------------------------------------------------------------------
(* What a step of one worker leaves of the invariant for the others.           *)

\* The parts of the type invariant a proof about the indices needs.
LEMMA Typed ==
  ASSUME TypeOK, NEW w \in Workers
  PROVE  /\ head[w] \in Heads /\ head[w].steal \in Idx /\ head[w].real \in Idx
         /\ head[w] = pack(head[w].steal, head[w].real)
         /\ tail[w] \in Idx /\ pc[w] \in Labels /\ at[w] \in Locals
         /\ at[w].from \in Workers /\ at[w].head \in Heads
         /\ at[w].head.steal \in Idx /\ at[w].head.real \in Idx
         /\ at[w].head = pack(at[w].head.steal, at[w].head.real)
         /\ at[w].n \in Nat /\ at[w].copied \in Nat /\ at[w].task \in Items
BY DEF TypeOK, Heads, Locals, pack

LEMMA BehindTyped ==
  ASSUME TypeOK, NEW w \in Workers, NEW i \in Idx
  PROVE  Behind(w, i) \in Nat /\ Behind(w, i) < Indices
<1>1. tail[w] \in Idx
  BY Typed
<1>2. Minus(tail[w], i) \in Idx
  BY <1>1, MinusIs
<1>3. Minus(tail[w], i) \in 0 .. Indices - 1 /\ Indices \in Nat
  BY <1>2, Sizes DEF Idx
<1> QED
  BY <1>3 DEF Behind

\* What the others know when w moves the head of v from where it is to g, or
\* leaves it: g is no further back, and the slots another worker reads stay taken.
LEMMA HeadStep ==
  ASSUME IInv, NEW w \in Workers, NEW v \in Workers, NEW g \in Heads,
         head' = [head EXCEPT ![v] = g], tail' = tail,
         Behind(v, g.real) <= Behind(v, g.steal),
         Behind(v, g.steal) <= Behind(v, head[v].steal),
         \/ g = head[v]
         \/ Behind(v, g.real) < Behind(v, head[v].real)
         \/ g.steal = g.real /\ g.real = head[v].real,
         \A x \in Workers \ {w} : pc[x] \in Reading /\ at[x].from = v => g.steal = head[v].steal,
         \A x \in Workers \ {w} : pc'[x] = pc[x] /\ at'[x] = at[x],
         Adding(w)' => Adding(w) \/ NotLapped(w)
  PROVE  /\ \A x \in Workers : Ordered(x)'
         /\ \A x \in Workers \ {w} : OwnKnown(x)' /\ VictimKnown(x)'
<1>1. TypeOK /\ head \in [Workers -> Heads]
  BY DEF IInv, TypeOK
<1>2. g.steal \in Idx /\ g.real \in Idx /\ g = pack(g.steal, g.real)
  BY DEF Heads, pack
<1>3. \A x \in Workers : \A i : Behind(x, i)' = Minus(tail[x], i') /\ Behind(x, i) = Minus(tail[x], i)
  BY DEF Behind
<1>4. head'[v] = g /\ \A x \in Workers \ {v} : head'[x] = head[x]
  BY <1>1
<1>5. Behind(v, g.real) <= Behind(v, head[v].real)
  <2>1. /\ Behind(v, g.real) \in Nat /\ Behind(v, head[v].real) \in Nat
    BY <1>1, <1>2, Typed, BehindTyped
  <2> QED
    BY <2>1
<1>6. ASSUME NEW x \in Workers PROVE Ordered(x)'
  <2>1. Ordered(x)
    BY DEF IInv
  <2>2. CASE x = v
    <3>1. /\ Behind(v, g.steal) \in Nat /\ Behind(v, head[v].steal) \in Nat /\ Capacity \in Nat
      BY <1>1, <1>2, Typed, BehindTyped, Sizes
    <3>2. Behind(v, g.steal) <= Capacity
      BY <2>1, <2>2, <3>1 DEF Ordered
    <3> QED
      BY <1>4, <2>2, <3>2 DEF Ordered, Behind
  <2>3. CASE x # v
    BY <1>4, <2>1, <2>3 DEF Ordered, Behind
  <2> QED
    BY <2>2, <2>3
<1>7. ASSUME NEW x \in Workers \ {w} PROVE OwnKnown(x)'
  <2>1. OwnKnown(x) /\ pc'[x] = pc[x] /\ at'[x] = at[x]
    BY DEF IInv
  <2>2. /\ Behind(x, head'[x].steal) <= Behind(x, head[x].steal)
        /\ Behind(x, head'[x].steal) \in Nat /\ Behind(x, head[x].steal) \in Nat
    <3>1. head'[x].steal \in Idx /\ head[x].steal \in Idx
      BY <1>1, <1>2, <1>4, Typed
    <3>2. Behind(x, head'[x].steal) \in Nat /\ Behind(x, head[x].steal) \in Nat
      BY <1>1, <3>1, BehindTyped
    <3> QED
      BY <1>4, <3>2
  <2>3. /\ Capacity \in Nat /\ Capacity \div 2 \in Nat /\ at[x].n \in Nat
    BY <1>1, Sizes, Typed
  <2>4. \A i \in Idx : Behind(x, i)' = Behind(x, i)
    BY DEF Behind
  <2>5. Behind(x, head[x].steal)' = Behind(x, head'[x].steal)
    BY DEF Behind
  <2>6. /\ Behind(x, at[x].head.real)' = Behind(x, at[x].head.real)
        /\ Behind(x, at[x].head.steal)' = Behind(x, at[x].head.steal)
    BY <2>1 DEF Behind
  <2> QED
    BY <2>1, <2>2, <2>3, <2>5, <2>6 DEF OwnKnown
<1>8. ASSUME NEW x \in Workers \ {w} PROVE VictimKnown(x)'
  <2> DEFINE u == at[x].from
             h == at[x].head
             n == at[x].n
  <2>1. VictimKnown(x) /\ OwnKnown(x) /\ pc'[x] = pc[x] /\ at'[x] = at[x]
    BY DEF IInv
  <2>2. /\ u \in Workers /\ h \in Heads /\ h.real \in Idx /\ h.steal \in Idx
        /\ h = pack(h.steal, h.real) /\ n \in Nat
    BY <1>1, Typed
  <2>3. /\ head'[u].real \in Idx /\ head[u].real \in Idx
        /\ head'[u].steal \in Idx /\ head[u].steal \in Idx
        /\ head'[u] = pack(head'[u].steal, head'[u].real)
    BY <1>1, <1>2, <1>4, <2>2, Typed DEF pack
  <2>4. /\ Behind(u, h.real) \in Nat /\ Behind(u, head'[u].real) \in Nat
        /\ Behind(u, head[u].real) \in Nat
        /\ Behind(u, head'[u].steal) \in Nat /\ Behind(u, head[u].steal) \in Nat
    BY <1>1, <2>2, <2>3, BehindTyped
  <2>5. Behind(u, head'[u].real) <= Behind(u, head[u].real)
    BY <1>4, <1>5, <2>2, <2>4
  <2>6. /\ Behind(u, h.real)' = Behind(u, h.real)
        /\ Behind(u, head[u].real)' = Behind(u, head'[u].real)
        /\ Behind(u, head[u].steal)' = Behind(u, head'[u].steal)
    BY <2>1 DEF Behind
  <2>7. pc[x] \in Stealing => u # x
    BY <2>1 DEF VictimKnown
  <2>8. CASE pc[x] \in {"stealTail", "stealCas"}
    <3>1. /\ Behind(u, head[u].real) <= Behind(u, h.real)
          /\ h.steal = h.real /\ h.real = head[u].real => head[u] = h
          /\ Adding(u) => Behind(u, h.real) + Capacity \div 2 < Indices
          /\ pc[x] = "stealCas" => /\ h.steal = h.real
                                   /\ 1 <= n
                                   /\ head[u] = h => n <= HalfOf(Behind(u, h.real))
      BY <2>1, <2>8 DEF VictimKnown
    <3>2. Behind(u, head'[u].real) <= Behind(u, h.real)
      BY <2>4, <2>5, <3>1
    <3>3. ASSUME h.real = head'[u].real
          PROVE  h.real = head[u].real /\ (head'[u] = head[u] \/ head'[u] = pack(h.real, h.real))
      <4>1. Behind(u, head[u].real) = Behind(u, h.real)
        BY <2>4, <2>5, <3>1, <3>3
      <4>2. h.real = head[u].real
        BY <4>1, <1>1, <2>2, <2>3, Typed, SameIndex DEF Behind
      <4>3. CASE u = v
        <5>1. ~(Behind(v, g.real) < Behind(v, head[v].real))
          BY <1>4, <2>4, <3>3, <4>1, <4>3
        <5> QED
          BY <1>2, <1>4, <3>3, <4>2, <4>3, <5>1
      <4>4. CASE u # v
        BY <1>4, <2>2, <4>2, <4>4
      <4> QED
        BY <4>2, <4>3, <4>4
    <3>4. h.steal = h.real /\ h.real = head'[u].real => head'[u] = h
      BY <2>2, <3>1, <3>3
    <3>5. Adding(u)' => Behind(u, h.real) + Capacity \div 2 < Indices
      <4>1. CASE u # w
        BY <2>2, <3>1, <4>1 DEF Adding
      <4>2. CASE u = w
        BY <2>8, <3>1, <4>2 DEF NotLapped, Behind
      <4> QED
        BY <4>1, <4>2
    <3>6. head'[u] = h /\ h.steal = h.real => head[u] = h
      BY <3>1, <3>3
    <3>7. pc[x] \notin Reading
      BY <2>8 DEF Reading
    <3> QED
      BY <2>1, <2>6, <2>7, <2>8, <3>1, <3>2, <3>4, <3>5, <3>6, <3>7 DEF VictimKnown, Adding
  <2>9. CASE pc[x] \in Reading
    <3>1. /\ h.steal = head[u].steal
          /\ Behind(u, head[u].real) + n <= Behind(u, head[u].steal)
      BY <2>1, <2>9 DEF VictimKnown
    <3>2. head'[u].steal = head[u].steal
      BY <1>4, <2>2, <2>9
    <3>3. Behind(u, head'[u].real) + n <= Behind(u, head'[u].steal)
      BY <2>2, <2>4, <2>5, <3>1, <3>2
    <3>4. pc[x] \notin {"stealTail", "stealCas"}
      BY <2>9 DEF Reading
    <3> QED
      BY <2>1, <2>6, <2>7, <3>1, <3>2, <3>3, <3>4 DEF VictimKnown
  <2>10. CASE pc[x] \notin {"stealTail", "stealCas"} /\ pc[x] \notin Reading
    BY <2>1, <2>7, <2>10 DEF VictimKnown
  <2> QED
    BY <2>8, <2>9, <2>10
<1> QED
  BY <1>6, <1>7, <1>8

\* What everyone knows when the tail of w takes in k more tasks and w is done.
LEMMA TailStep ==
  ASSUME IInv, NEW w \in Workers, NEW k \in Nat,
         tail' = [tail EXCEPT ![w] = Plus(@, k)], head' = head,
         Behind(w, head[w].steal) + k <= Capacity,
         k <= Capacity \div 2, Adding(w), pc'[w] = "idle",
         \A x \in Workers \ {w} : pc'[x] = pc[x] /\ at'[x] = at[x]
  PROVE  /\ tail' \in [Workers -> Idx]
         /\ \A x \in Workers : Ordered(x)'
         /\ \A x \in Workers \ {w} : OwnKnown(x)' /\ VictimKnown(x)'
<1>1. TypeOK /\ tail \in [Workers -> Idx]
  BY DEF IInv, TypeOK
<1>2. /\ Capacity \in Nat /\ Capacity \div 2 \in Nat /\ Indices \in Nat
      /\ Capacity < Indices /\ k \in 0 .. Indices
  BY Sizes
<1>3. tail'[w] = Plus(tail[w], k) /\ \A x \in Workers \ {w} : tail'[x] = tail[x]
  BY <1>1
<1>4. Plus(tail[w], k) \in Idx
  BY <1>1, <1>2, Typed, PlusIs
<1>5. tail' \in [Workers -> Idx]
  BY <1>1, <1>4
<1>6. ASSUME NEW i \in Idx, Behind(w, i) + k < Indices
      PROVE  Minus(tail'[w], i) = Behind(w, i) + k
  BY <1>1, <1>3, <1>6, Typed, TailAhead DEF Behind
<1>7. ASSUME NEW x \in Workers PROVE Ordered(x)'
  <2>1. Ordered(x)
    BY DEF IInv
  <2>2. CASE x = w
    <3>1. /\ Behind(w, head[w].steal) \in Nat /\ Behind(w, head[w].real) \in Nat
          /\ head[w].steal \in Idx /\ head[w].real \in Idx
      BY <1>1, Typed, BehindTyped
    <3>2. /\ Behind(w, head[w].steal) + k < Indices /\ Behind(w, head[w].real) + k < Indices
          /\ Behind(w, head[w].real) + k <= Behind(w, head[w].steal) + k
      BY <1>2, <2>1, <2>2, <3>1 DEF Ordered
    <3>3. /\ Behind(w, head[w].steal)' = Behind(w, head[w].steal) + k
          /\ Behind(w, head[w].real)' = Behind(w, head[w].real) + k
      BY <1>6, <3>1, <3>2 DEF Behind
    <3> QED
      BY <2>2, <3>2, <3>3 DEF Ordered
  <2>3. CASE x # w
    BY <1>3, <2>1, <2>3 DEF Ordered, Behind
  <2> QED
    BY <2>2, <2>3
<1>8. ASSUME NEW x \in Workers \ {w} PROVE OwnKnown(x)'
  <2>1. OwnKnown(x) /\ pc'[x] = pc[x] /\ at'[x] = at[x] /\ tail'[x] = tail[x]
    BY <1>3 DEF IInv
  <2> QED
    BY <2>1 DEF OwnKnown, Behind
<1>9. ASSUME NEW x \in Workers \ {w} PROVE VictimKnown(x)'
  <2> DEFINE u == at[x].from
             h == at[x].head
             n == at[x].n
  <2>1. VictimKnown(x) /\ pc'[x] = pc[x] /\ at'[x] = at[x]
    BY DEF IInv
  <2>2. u \in Workers /\ h.real \in Idx /\ n \in Nat
    BY <1>1, Typed
  <2>3. CASE u # w
    <3>1. tail'[u] = tail[u] /\ pc'[u] = pc[u]
      BY <1>3, <2>2, <2>3
    <3> QED
      BY <2>1, <3>1 DEF VictimKnown, Behind, Adding
  <2>4. CASE u = w
    <3>1. /\ head[w].real \in Idx /\ head[w].steal \in Idx
          /\ Behind(w, h.real) \in Nat
          /\ Behind(w, head[w].real) \in Nat /\ Behind(w, head[w].steal) \in Nat
      BY <1>1, <2>2, Typed, BehindTyped
    <3>2. Behind(w, head[w].real) <= Behind(w, head[w].steal)
      BY DEF IInv, Ordered
    <3>3. /\ Behind(w, head[w].real)' = Behind(w, head[w].real) + k
          /\ Behind(w, head[w].steal)' = Behind(w, head[w].steal) + k
      BY <1>2, <1>6, <3>1, <3>2 DEF Behind
    <3>4. ~Adding(w)'
      BY DEF Adding
    <3>5. CASE pc[x] \in {"stealTail", "stealCas"}
      <4>1. /\ Behind(w, head[w].real) <= Behind(w, h.real)
            /\ h.steal = h.real /\ h.real = head[w].real => head[w] = h
            /\ Behind(w, h.real) + Capacity \div 2 < Indices
            /\ pc[x] = "stealCas" => /\ h.steal = h.real
                                     /\ 1 <= n
                                     /\ head[w] = h => n <= HalfOf(Behind(w, h.real))
        BY <2>1, <2>4, <3>5 DEF VictimKnown
      <4>2. Behind(w, h.real) + k < Indices
        BY <1>2, <3>1, <4>1
      <4>3. Behind(w, h.real)' = Behind(w, h.real) + k
        BY <1>6, <2>1, <2>2, <4>2 DEF Behind
      <4>4. Behind(w, head[w].real)' <= Behind(w, h.real)'
        BY <3>1, <3>3, <4>1, <4>3
      <4>5. Behind(w, h.real)' \in Nat /\ HalfOf(Behind(w, h.real)) <= HalfOf(Behind(w, h.real)')
        BY <3>1, <4>3, HalfIs
      <4>6. HalfOf(Behind(w, h.real)) \in Nat /\ HalfOf(Behind(w, h.real)') \in Nat
        BY <3>1, <4>5, HalfIs
      <4>7. pc[x] = "stealCas" /\ head[w] = h => n <= HalfOf(Behind(w, h.real)')
        BY <2>2, <4>1, <4>5, <4>6
      <4>8. pc[x] \notin Reading /\ u # x
        BY <2>1, <3>5 DEF Reading, VictimKnown, Stealing
      <4> QED
        BY <2>1, <2>4, <3>4, <3>5, <4>1, <4>4, <4>7, <4>8 DEF VictimKnown
    <3>6. CASE pc[x] \in Reading
      <4>1. /\ h.steal = head[w].steal
            /\ Behind(w, head[w].real) + n <= Behind(w, head[w].steal)
        BY <2>1, <2>4, <3>6 DEF VictimKnown
      <4>2. Behind(w, head[w].real)' + n <= Behind(w, head[w].steal)'
        BY <2>2, <3>1, <3>3, <4>1
      <4>3. pc[x] \notin {"stealTail", "stealCas"}
        BY <3>6 DEF Reading
      <4>4. pc[x] \in Stealing => u # x
        BY <2>1 DEF VictimKnown
      <4> QED
        BY <2>1, <2>4, <4>1, <4>2, <4>3, <4>4 DEF VictimKnown
    <3>7. CASE pc[x] \notin {"stealTail", "stealCas"} /\ pc[x] \notin Reading
      BY <2>1, <3>7 DEF VictimKnown
    <3> QED
      BY <3>5, <3>6, <3>7
  <2> QED
    BY <2>3, <2>4
<1> QED
  BY <1>5, <1>7, <1>8, <1>9

\* The invariant after a step of w that keeps what the others know.
LEMMA StepKeeps ==
  ASSUME IInv, NEW w \in Workers, NEW l \in Labels, NEW a \in Locals, Goto(w, l, a),
         head' \in [Workers -> Heads], tail' \in [Workers -> Idx],
         buffer' \in [Workers -> [0 .. Capacity - 1 -> Items]], inject' \in Seq(Items),
         next' \in Nat \ {0}, ~panicked',
         \A x \in Workers : Ordered(x)',
         \A x \in Workers \ {w} : OwnKnown(x)' /\ VictimKnown(x)',
         OwnKnown(w)', VictimKnown(w)',
         l \in Reading => \A x \in Workers \ {w} : ~(pc[x] \in Reading /\ at[x].from = a.from)
  PROVE  IInv'
<1>1. pc \in [Workers -> Labels] /\ at \in [Workers -> Locals]
  BY DEF IInv, TypeOK
<1>2. pc' = [pc EXCEPT ![w] = l] /\ at' = [at EXCEPT ![w] = a]
  BY DEF Goto
<1>3. TypeOK'
  BY <1>1, <1>2 DEF TypeOK
<1>4. /\ pc'[w] = l /\ at'[w] = a
      /\ \A x \in Workers \ {w} : pc'[x] = pc[x] /\ at'[x] = at[x]
  BY <1>1, <1>2
<1>5. OneReader'
  <2>1. OneReader
    BY DEF IInv
  <2>2. SUFFICES ASSUME NEW u \in Workers, NEW x \in Workers,
                        pc'[u] \in Reading, pc'[x] \in Reading, at'[u].from = at'[x].from
                 PROVE  u = x
    BY DEF OneReader
  <2>3. CASE u = w
    BY <1>4, <2>2, <2>3
  <2>4. CASE x = w
    BY <1>4, <2>2, <2>4
  <2>5. CASE u # w /\ x # w
    BY <1>4, <2>1, <2>2, <2>5 DEF OneReader
  <2> QED
    BY <2>3, <2>4, <2>5
<1> QED
  BY <1>3, <1>5 DEF IInv

\* One that only changes its own locals.
LEMMA LocalStep ==
  ASSUME IInv, NEW w \in Workers, NEW l \in Labels, NEW a \in Locals, Goto(w, l, a),
         head' = head, tail' = tail,
         buffer' \in [Workers -> [0 .. Capacity - 1 -> Items]], inject' \in Seq(Items),
         next' \in Nat \ {0}, ~panicked',
         Adding(w)' => Adding(w) \/ NotLapped(w),
         OwnKnown(w)', VictimKnown(w)',
         l \in Reading => pc[w] \in Reading /\ a.from = at[w].from
  PROVE  IInv'
<1>1. /\ TypeOK /\ head \in [Workers -> Heads] /\ tail \in [Workers -> Idx]
      /\ pc \in [Workers -> Labels] /\ at \in [Workers -> Locals]
  BY DEF IInv, TypeOK
<1>2. /\ head' = [head EXCEPT ![w] = head[w]] /\ head[w] \in Heads
      /\ \A x \in Workers \ {w} : pc'[x] = pc[x] /\ at'[x] = at[x]
  BY <1>1 DEF Goto
<1>3. /\ head[w].real \in Idx /\ head[w].steal \in Idx
      /\ Behind(w, head[w].real) \in Nat /\ Behind(w, head[w].steal) \in Nat
  BY <1>1, Typed, BehindTyped
<1>4. Behind(w, head[w].real) <= Behind(w, head[w].steal)
  BY DEF IInv, Ordered
<1>5. Behind(w, head[w].steal) <= Behind(w, head[w].steal)
  BY <1>3
<1>6. /\ \A x \in Workers : Ordered(x)'
      /\ \A x \in Workers \ {w} : OwnKnown(x)' /\ VictimKnown(x)'
  BY <1>2, <1>4, <1>5, HeadStep
<1>7. l \in Reading => \A x \in Workers \ {w} : ~(pc[x] \in Reading /\ at[x].from = a.from)
  BY DEF IInv, OneReader
<1> QED
  BY <1>1, <1>6, <1>7, StepKeeps

\* Nothing is known between two calls.
LEMMA ReturnKnown ==
  ASSUME TypeOK, NEW w \in Workers, Return(w)
  PROVE  /\ Goto(w, "idle", Nothing(w)) /\ Nothing(w) \in Locals /\ "idle" \in Labels
         /\ "idle" \notin Reading /\ pc'[w] = "idle"
         /\ OwnKnown(w)' /\ VictimKnown(w)' /\ ~Adding(w)'
<1>1. 0 \in Idx
  BY Sizes DEF Idx
<1>2. Nothing(w) \in Locals
  BY <1>1 DEF Nothing, Locals, Heads, pack, Items
<1>3. pc'[w] = "idle"
  BY DEF Return, Goto, TypeOK
<1> QED
  BY <1>2, <1>3 DEF Return, Labels, Stealing, Reading, OwnKnown, VictimKnown, Adding

-----------------------------------------------------------------------------
(* The calls, one lemma for each step.                                         *)

LEMMA ScheduleStep == ASSUME IInv, NEW w \in Workers, Schedule(w) PROVE IInv'
<1> DEFINE a == [Nothing(w) EXCEPT !.task = next]
<1>1. TypeOK /\ next \in Tasks /\ next' = next + 1 /\ Goto(w, "push", a)
  BY DEF Schedule, IInv
<1>2. 0 \in Idx /\ a \in Locals
  BY <1>1, Sizes DEF Idx, Nothing, Locals, Heads, pack, Items
<1>3. pc'[w] = "push" /\ at'[w] = a
  BY <1>1 DEF Goto, TypeOK
<1>4. OwnKnown(w)' /\ VictimKnown(w)'
  BY <1>3 DEF OwnKnown, VictimKnown, Stealing, Reading
<1>5. next' \in Nat \ {0}
  BY <1>1 DEF Tasks
<1>6. "push" \in Labels /\ "push" \notin Reading
  BY DEF Labels, Reading
<1> QED
  BY <1>1, <1>2, <1>4, <1>5, <1>6, LocalStep DEF Schedule, TypeOK, IInv

LEMMA PushLoadStep == ASSUME IInv, NEW w \in Workers, PushLoad(w) PROVE IInv'
<1> DEFINE h == head[w]
<1>1. TypeOK /\ pc[w] = "push" /\ Adding(w)
  BY DEF PushLoad, IInv, Adding
<1>2. /\ h \in Heads /\ h.steal \in Idx /\ h.real \in Idx /\ at[w] \in Locals
      /\ Behind(w, h.steal) \in Nat /\ Behind(w, h.real) \in Nat /\ Capacity \in Nat
      /\ at[w].task \in Items
  BY <1>1, Typed, BehindTyped, Sizes
<1>3. Behind(w, h.steal) <= Capacity
  BY DEF IInv, Ordered
<1>4. /\ head' = head /\ tail' = tail /\ buffer' = buffer /\ next' = next /\ panicked' = panicked
      /\ ~panicked
  BY DEF PushLoad, IInv
<1>5. /\ buffer' \in [Workers -> [0 .. Capacity - 1 -> Items]] /\ inject \in Seq(Items)
      /\ next' \in Nat \ {0}
  BY <1>1, <1>4 DEF TypeOK
<1>6. CASE HasRoom(w, h) /\ Goto(w, "pushWrite", at[w]) /\ inject' = inject
  <2>1. pc'[w] = "pushWrite"
    BY <1>1, <1>6 DEF Goto, TypeOK
  <2>2. Behind(w, head[w].steal)' < Capacity
    BY <1>4, <1>6 DEF HasRoom, Behind
  <2>3. OwnKnown(w)' /\ VictimKnown(w)'
    BY <2>1, <2>2 DEF OwnKnown, VictimKnown, Stealing, Reading
  <2>4. "pushWrite" \in Labels /\ "pushWrite" \notin Reading
    BY DEF Labels, Reading
  <2> QED
    BY <1>1, <1>2, <1>4, <1>5, <1>6, <2>3, <2>4, LocalStep
<1>7. CASE inject' = Append(inject, at[w].task) /\ Return(w)
  <2>1. inject' \in Seq(Items)
    BY <1>2, <1>5, <1>7
  <2> QED
    BY <1>1, <1>2, <1>4, <1>5, <1>7, <2>1, ReturnKnown, LocalStep
<1>8. CASE /\ ~HasRoom(w, h) /\ h.steal = h.real
           /\ Goto(w, "overflow", [at[w] EXCEPT !.head = h]) /\ inject' = inject
  <2> DEFINE a == [at[w] EXCEPT !.head = h]
  <2>1. a \in Locals /\ a.head = h
    BY <1>2 DEF Locals
  <2>2. pc'[w] = "overflow" /\ at'[w] = a
    BY <1>1, <1>8 DEF Goto, TypeOK
  <2>3. Behind(w, h.real) = Capacity
    BY <1>2, <1>3, <1>8 DEF HasRoom, Behind
  <2>4. Behind(w, at[w].head.real)' = Capacity /\ at'[w].head.steal = at'[w].head.real
    BY <1>4, <1>8, <2>1, <2>2, <2>3 DEF Behind
  <2>5. OwnKnown(w)' /\ VictimKnown(w)'
    BY <2>2, <2>4 DEF OwnKnown, VictimKnown, Stealing, Reading
  <2>6. "overflow" \in Labels /\ "overflow" \notin Reading
    BY DEF Labels, Reading
  <2> QED
    BY <1>1, <1>4, <1>5, <1>8, <2>1, <2>5, <2>6, LocalStep
<1> QED
  BY <1>6, <1>7, <1>8 DEF PushLoad

LEMMA PushWriteStep == ASSUME IInv, NEW w \in Workers, PushWrite(w) PROVE IInv'
<1>1. /\ TypeOK /\ pc[w] = "pushWrite" /\ Adding(w) /\ Goto(w, "pushTail", at[w])
      /\ head' = head /\ tail' = tail /\ inject' = inject /\ next' = next /\ ~panicked'
  BY DEF PushWrite, IInv, Adding
<1>2. pc'[w] = "pushTail" /\ at[w] \in Locals /\ at[w].task \in Items
  BY <1>1, Typed DEF Goto, TypeOK
<1>3. Behind(w, head[w].steal)' < Capacity
  BY <1>1 DEF IInv, OwnKnown, Behind
<1>4. OwnKnown(w)' /\ VictimKnown(w)'
  BY <1>2, <1>3 DEF OwnKnown, VictimKnown, Stealing, Reading
<1>5. "pushTail" \in Labels /\ "pushTail" \notin Reading
  BY DEF Labels, Reading
<1>6. buffer' \in [Workers -> [0 .. Capacity - 1 -> Items]]
  BY <1>1, <1>2 DEF PushWrite, TypeOK
<1> QED
  BY <1>1, <1>2, <1>4, <1>5, <1>6, LocalStep DEF TypeOK

LEMMA PushTailStep == ASSUME IInv, NEW w \in Workers, PushTail(w) PROVE IInv'
<1>1. /\ TypeOK /\ pc[w] = "pushTail" /\ Adding(w) /\ Return(w)
      /\ head' = head /\ tail' = [tail EXCEPT ![w] = Plus(@, 1)]
      /\ buffer' = buffer /\ inject' = inject /\ next' = next /\ ~panicked'
  BY DEF PushTail, IInv, Adding
<1>2. Behind(w, head[w].steal) < Capacity
  BY <1>1 DEF IInv, OwnKnown
<1>3. Behind(w, head[w].steal) + 1 <= Capacity /\ 1 <= Capacity \div 2
  BY <1>1, <1>2, Typed, BehindTyped, Sizes
<1>4. \A x \in Workers \ {w} : pc'[x] = pc[x] /\ at'[x] = at[x]
  BY <1>1 DEF Return, Goto, TypeOK
<1>5. /\ tail' \in [Workers -> Idx] /\ \A x \in Workers : Ordered(x)'
      /\ \A x \in Workers \ {w} : OwnKnown(x)' /\ VictimKnown(x)'
  BY <1>1, <1>3, <1>4, ReturnKnown, TailStep
<1> QED
  BY <1>1, <1>5, ReturnKnown, StepKeeps DEF TypeOK


\* w moves its own head on, from where it has read it, when nobody reads its slots.
LEMMA OwnHeadStep ==
  ASSUME IInv, NEW w \in Workers, NEW l \in Labels, NEW a \in Locals, Goto(w, l, a),
         NEW k \in Nat \ {0}, k <= Behind(w, head[w].real), NEW g \in Heads,
         g.real = Plus(head[w].real, k),
         g.steal = IF head[w].steal = head[w].real THEN g.real ELSE head[w].steal,
         head' = [head EXCEPT ![w] = g], tail' = tail,
         buffer' = buffer, inject' = inject, next' = next, ~panicked',
         Adding(w)' => Adding(w), OwnKnown(w)', VictimKnown(w)', l \notin Reading
  PROVE  IInv'
<1>1. /\ TypeOK /\ head \in [Workers -> Heads] /\ tail \in [Workers -> Idx]
      /\ pc \in [Workers -> Labels] /\ at \in [Workers -> Locals]
  BY DEF IInv, TypeOK
<1>2. /\ head[w].real \in Idx /\ head[w].steal \in Idx /\ tail[w] \in Idx
      /\ Behind(w, head[w].real) \in Nat /\ Behind(w, head[w].steal) \in Nat
  BY <1>1, Typed, BehindTyped
<1>3. Behind(w, g.real) = Behind(w, head[w].real) - k
  BY <1>2, HeadAhead DEF Behind
<1>4. Behind(w, head[w].real) <= Behind(w, head[w].steal)
  BY DEF IInv, Ordered
<1>5. /\ Behind(w, g.real) <= Behind(w, g.steal)
      /\ Behind(w, g.steal) <= Behind(w, head[w].steal)
      /\ Behind(w, g.real) < Behind(w, head[w].real)
  BY <1>2, <1>3, <1>4
<1>6. ASSUME NEW x \in Workers \ {w}, pc[x] \in Reading, at[x].from = w
      PROVE  g.steal = head[w].steal
  <2>1. Behind(w, head[w].real) + at[x].n <= Behind(w, head[w].steal) /\ at[x].n \in Nat
    BY <1>1, <1>6, Typed DEF IInv, VictimKnown
  <2>2. at[x].n >= 1
    BY <1>6 DEF IInv, OwnKnown, Reading
  <2>3. head[w].steal # head[w].real
    BY <1>2, <2>1, <2>2
  <2> QED
    BY <2>3
<1>7. \A x \in Workers \ {w} : pc'[x] = pc[x] /\ at'[x] = at[x]
  BY <1>1 DEF Goto
<1>8. /\ \A x \in Workers : Ordered(x)'
      /\ \A x \in Workers \ {w} : OwnKnown(x)' /\ VictimKnown(x)'
  BY <1>5, <1>6, <1>7, HeadStep
<1>9. head' \in [Workers -> Heads]
  BY <1>1
<1> QED
  BY <1>1, <1>8, <1>9, StepKeeps DEF TypeOK

LEMMA OverflowCasStep == ASSUME IInv, NEW w \in Workers, OverflowCas(w) PROVE IInv'
<1> DEFINE h == at[w].head
           half == Plus(h.real, Capacity \div 2)
<1>1. /\ TypeOK /\ pc[w] = "overflow" /\ Adding(w)
      /\ tail' = tail /\ buffer' = buffer /\ inject' = inject /\ next' = next
  BY DEF OverflowCas, IInv, Adding
<1>2. h.steal = h.real /\ Behind(w, h.real) = Capacity
  BY <1>1 DEF IInv, OwnKnown
<1>3. ~panicked'
  BY <1>2 DEF OverflowCas, Asserts, IInv, Behind
<1>4. at[w] \in Locals /\ h.real \in Idx /\ tail[w] \in Idx
  BY <1>1, Typed
<1>5. CASE head[w] = h /\ head' = [head EXCEPT ![w] = pack(half, half)]
           /\ Goto(w, "overflowRead", [at[w] EXCEPT !.n = Capacity \div 2])
  <2> DEFINE a == [at[w] EXCEPT !.n = Capacity \div 2]
             g == pack(half, half)
  <2>1. a \in Locals
    BY <1>4, Sizes DEF Locals
  <2>2. pc'[w] = "overflowRead"
    BY <1>1, <1>5 DEF Goto, TypeOK
  <2>3. OwnKnown(w)' /\ VictimKnown(w)'
    BY <2>2 DEF OwnKnown, VictimKnown, Stealing, Reading
  <2>4. "overflowRead" \in Labels /\ "overflowRead" \notin Reading
    BY DEF Labels, Reading
  <2>5. /\ Capacity \div 2 \in Nat \ {0} /\ Capacity \div 2 <= Behind(w, head[w].real)
    BY <1>2, <1>5, Sizes
  <2>6. half \in Idx
    BY <1>4, <1>5, <2>5, HeadAhead DEF Behind
  <2>7. g \in Heads /\ g.real = Plus(head[w].real, Capacity \div 2) /\ g.steal = g.real
    BY <1>5, <2>6 DEF pack, Heads
  <2>8. head[w].steal = head[w].real
    BY <1>2, <1>5
  <2> HIDE DEF g, a
  <2>9. head' = [head EXCEPT ![w] = g] /\ Goto(w, "overflowRead", a)
    BY <1>5 DEF g, a
  <2> QED
    BY <1>1, <1>3, <2>1, <2>3, <2>4, <2>5, <2>7, <2>8, <2>9, OwnHeadStep
<1>6. CASE Goto(w, "push", at[w]) /\ head' = head
  <2>1. pc'[w] = "push"
    BY <1>1, <1>6 DEF Goto, TypeOK
  <2>2. OwnKnown(w)' /\ VictimKnown(w)'
    BY <2>1 DEF OwnKnown, VictimKnown, Stealing, Reading
  <2>3. "push" \in Labels /\ "push" \notin Reading
    BY DEF Labels, Reading
  <2> QED
    BY <1>1, <1>3, <1>4, <1>6, <2>2, <2>3, LocalStep DEF TypeOK
<1> QED
  BY <1>5, <1>6 DEF OverflowCas

\* The tasks read out of the slots of a queue.
LEMMA BatchTyped ==
  ASSUME TypeOK, NEW v \in Workers, NEW i \in Idx, NEW n \in Nat
  PROVE  Batch(v, i, n) \in Seq(Items)
<1>1. ASSUME NEW k \in 1 .. n PROVE buffer[v][Slot(Plus(i, k - 1))] \in Items
  <2>1. k - 1 \in Nat
    BY <1>1
  <2>2. Slot(Plus(i, k - 1)) \in 0 .. Capacity - 1
    BY <2>1, SlotTyped
  <2> QED
    BY <2>2 DEF TypeOK
<1>2. Batch(v, i, n) \in [1 .. n -> Items]
  BY <1>1 DEF Batch
<1> QED
  BY <1>2

LEMMA OverflowReadStep == ASSUME IInv, NEW w \in Workers, OverflowRead(w) PROVE IInv'
<1>1. /\ TypeOK /\ pc[w] = "overflowRead" /\ Return(w)
      /\ head' = head /\ tail' = tail /\ buffer' = buffer /\ next' = next /\ ~panicked'
  BY DEF OverflowRead, IInv
<1>2. at[w].head.real \in Idx /\ at[w].n \in Nat /\ at[w].task \in Items
  BY <1>1, Typed
<1>3. Batch(w, at[w].head.real, at[w].n) \in Seq(Items)
  BY <1>1, <1>2, BatchTyped
<1>4. inject \in Seq(Items)
  BY <1>1 DEF TypeOK
<1>5. inject' \in Seq(Items)
  BY <1>2, <1>3, <1>4 DEF OverflowRead
<1> QED
  BY <1>1, <1>5, ReturnKnown, LocalStep DEF TypeOK

\* A pop that has read the head goes on to take a task, or returns.
LEMMA PopTryStep ==
  ASSUME IInv, NEW w \in Workers, PopTry(w, head[w]), ~panicked',
         head' = head, tail' = tail, buffer' = buffer, inject' = inject, next' = next
  PROVE  IInv'
<1> DEFINE h == head[w]
           a == [Nothing(w) EXCEPT !.head = h, !.n = 1]
<1>1. TypeOK /\ Ordered(w)
  BY DEF IInv
<1>2. /\ h \in Heads /\ h.steal \in Idx /\ h.real \in Idx /\ tail[w] \in Idx
      /\ Behind(w, h.steal) \in Nat /\ Behind(w, h.real) \in Nat
  BY <1>1, Typed, BehindTyped
<1>3. CASE h.real = tail[w] /\ Return(w)
  BY <1>1, <1>3, ReturnKnown, LocalStep DEF TypeOK
<1>4. CASE h.real # tail[w] /\ Goto(w, "pop", a)
  <2>1. a \in Locals /\ a.head = h
    BY <1>2 DEF Nothing, Locals, Items, pack
  <2>2. pc'[w] = "pop" /\ at'[w] = a
    BY <1>1, <1>4 DEF Goto, TypeOK
  <2>3. 1 <= Behind(w, h.real)
    BY <1>2, <1>4, SameIndex DEF Behind
  <2>4. /\ 1 <= Behind(w, at[w].head.real)'
        /\ Behind(w, at[w].head.real)' <= Behind(w, at[w].head.steal)'
        /\ Behind(w, at[w].head.steal)' <= Capacity
    BY <1>1, <2>1, <2>2, <2>3 DEF Behind, Ordered
  <2>5. OwnKnown(w)' /\ VictimKnown(w)' /\ ~Adding(w)'
    BY <2>2, <2>4 DEF OwnKnown, VictimKnown, Stealing, Reading, Adding
  <2>6. "pop" \in Labels /\ "pop" \notin Reading
    BY DEF Labels, Reading
  <2> QED
    BY <1>1, <1>4, <2>1, <2>5, <2>6, LocalStep DEF TypeOK
<1> QED
  BY <1>3, <1>4 DEF PopTry

LEMMA PopLoadStep == ASSUME IInv, NEW w \in Workers, PopLoad(w) PROVE IInv'
BY PopTryStep DEF PopLoad, IInv

LEMMA PopCasStep == ASSUME IInv, NEW w \in Workers, PopCas(w) PROVE IInv'
<1> DEFINE h == at[w].head
<1>1. /\ TypeOK /\ pc[w] = "pop"
      /\ tail' = tail /\ buffer' = buffer /\ inject' = inject /\ next' = next
  BY DEF PopCas, IInv
<1>2. /\ 1 <= Behind(w, h.real) /\ Behind(w, h.real) <= Behind(w, h.steal)
  BY <1>1 DEF IInv, OwnKnown
<1>3. /\ at[w] \in Locals /\ h \in Heads /\ h.real \in Idx /\ h.steal \in Idx /\ tail[w] \in Idx
      /\ Behind(w, h.real) \in Nat /\ Behind(w, h.steal) \in Nat
  BY <1>1, Typed, BehindTyped
<1>4. Plus(h.real, 1) \in Idx /\ Behind(w, Plus(h.real, 1)) = Behind(w, h.real) - 1
  BY <1>2, <1>3, HeadAhead DEF Behind
<1>5. h.steal # Plus(h.real, 1)
  BY <1>2, <1>3, <1>4
<1>6. ~panicked'
  BY <1>5 DEF PopCas, Asserts, IInv
<1>7. CASE head[w] = h /\ head' = [head EXCEPT ![w] = Popped(h)] /\ Goto(w, "popRead", at[w])
  <2> DEFINE g == Popped(h)
  <2>1. /\ g \in Heads /\ g.real = Plus(head[w].real, 1)
        /\ g.steal = IF head[w].steal = head[w].real THEN g.real ELSE head[w].steal
    BY <1>3, <1>4, <1>7 DEF Popped, pack, Heads
  <2>2. pc'[w] = "popRead"
    BY <1>1, <1>7 DEF Goto, TypeOK
  <2>3. OwnKnown(w)' /\ VictimKnown(w)' /\ ~Adding(w)'
    BY <2>2 DEF OwnKnown, VictimKnown, Stealing, Reading, Adding
  <2>4. "popRead" \in Labels /\ "popRead" \notin Reading
    BY DEF Labels, Reading
  <2>5. 1 \in Nat \ {0} /\ 1 <= Behind(w, head[w].real)
    BY <1>2, <1>7
  <2> HIDE DEF g
  <2>6. head' = [head EXCEPT ![w] = g]
    BY <1>7 DEF g
  <2> QED
    BY <1>1, <1>3, <1>6, <1>7, <2>1, <2>3, <2>4, <2>5, <2>6, OwnHeadStep
<1>8. CASE PopTry(w, head[w]) /\ head' = head
  BY <1>1, <1>6, <1>8, PopTryStep
<1> QED
  BY <1>7, <1>8 DEF PopCas

LEMMA PopReadStep == ASSUME IInv, NEW w \in Workers, PopRead(w) PROVE IInv'
<1>1. TypeOK /\ Return(w) /\ ~panicked'
  BY DEF PopRead, IInv
<1> QED
  BY <1>1, ReturnKnown, LocalStep DEF PopRead, TypeOK


LEMMA StealStartStep == ASSUME IInv, NEW w \in Workers, StealStart(w) PROVE IInv'
<1>1. PICK v \in Workers \ {w} : Goto(w, "stealHead", [Nothing(w) EXCEPT !.from = v])
  BY DEF StealStart
<1> DEFINE a == [Nothing(w) EXCEPT !.from = v]
<1>2. /\ TypeOK /\ NotLapped(w) /\ ~(Minus(tail[w], head[w].steal) > Capacity \div 2)
      /\ head' = head /\ tail' = tail /\ buffer' = buffer /\ inject' = inject /\ next' = next
      /\ ~panicked'
  BY DEF StealStart, IInv
<1>3. 0 \in Idx /\ a \in Locals /\ a.from = v /\ a.copied = 0
  BY Sizes DEF Idx, Nothing, Locals, Heads, pack, Items
<1>4. pc'[w] = "stealHead" /\ at'[w] = a
  BY <1>1, <1>2 DEF Goto, TypeOK
<1>5. head[w].steal \in Idx /\ Behind(w, head[w].steal) \in Nat /\ Capacity \div 2 \in Nat
  BY <1>2, Typed, BehindTyped, Sizes
<1>6. Behind(w, head[w].steal)' <= Capacity \div 2
  BY <1>2, <1>5 DEF Behind
<1>7. OwnKnown(w)' /\ VictimKnown(w)'
  BY <1>3, <1>4, <1>6 DEF OwnKnown, VictimKnown, Stealing, Reading
<1>8. "stealHead" \in Labels /\ "stealHead" \notin Reading
  BY DEF Labels, Stealing, Reading
<1> HIDE DEF a
<1>9. Goto(w, "stealHead", a)
  BY <1>1 DEF a
<1> QED
  BY <1>2, <1>3, <1>7, <1>8, <1>9, LocalStep DEF TypeOK

\* What a stealer knows of a head it has just read.
LEMMA HeadRead ==
  ASSUME IInv, NEW w \in Workers, pc[w] \in {"stealHead", "stealCas"},
         Goto(w, "stealTail", [at[w] EXCEPT !.head = head[at[w].from]]), ~panicked',
         head' = head, tail' = tail, buffer' = buffer, inject' = inject, next' = next
  PROVE  IInv'
<1> DEFINE v == at[w].from
           h == head[v]
           a == [at[w] EXCEPT !.head = h]
<1>1. TypeOK /\ Adding(w)
  BY DEF IInv, Adding
<1>2. v # w /\ at[w].copied = 0 /\ Behind(w, head[w].steal) <= Capacity \div 2
  BY DEF IInv, OwnKnown, VictimKnown, Stealing
<1>3. v \in Workers /\ at[w] \in Locals
  BY <1>1, Typed
<1>4. /\ h \in Heads /\ h.real \in Idx /\ h.steal \in Idx
      /\ Behind(v, h.real) \in Nat /\ Behind(v, h.steal) \in Nat
  BY <1>1, <1>3, Typed, BehindTyped
<1>5. a \in Locals /\ a.from = v /\ a.head = h /\ a.copied = 0
  BY <1>2, <1>3, <1>4 DEF Locals
<1> HIDE DEF a
<1>6. Goto(w, "stealTail", a)
  BY DEF a
<1>7. pc'[w] = "stealTail" /\ at'[w] = a
  BY <1>1, <1>6 DEF Goto, TypeOK
<1>8. OwnKnown(w)'
  BY <1>2, <1>5, <1>7 DEF OwnKnown, Stealing, Behind
<1>9. Behind(v, h.real) + Capacity \div 2 < Indices
  <2>1. Behind(v, h.real) <= Behind(v, h.steal) /\ Behind(v, h.steal) <= Capacity
    BY <1>3 DEF IInv, Ordered
  <2> QED
    BY <1>4, <2>1, Sizes
<1>10. Behind(v, h.real) <= Behind(v, h.real)
  BY <1>4
<1>11. VictimKnown(w)'
  BY <1>2, <1>5, <1>7, <1>9, <1>10 DEF VictimKnown, Stealing, Reading, Behind
<1>12. "stealTail" \in Labels /\ "stealTail" \notin Reading
  BY DEF Labels, Stealing, Reading
<1> QED
  BY <1>1, <1>5, <1>6, <1>8, <1>11, <1>12, LocalStep DEF TypeOK

LEMMA StealHeadStep == ASSUME IInv, NEW w \in Workers, StealHead(w) PROVE IInv'
BY HeadRead DEF StealHead, IInv

LEMMA StealTailStep == ASSUME IInv, NEW w \in Workers, StealTail(w) PROVE IInv'
<1> DEFINE v == at[w].from
           h == at[w].head
           n == HalfOf(Minus(tail[v], h.real))
           a == [at[w] EXCEPT !.n = n]
<1>1. /\ TypeOK /\ pc[w] = "stealTail" /\ Adding(w) /\ ~panicked
      /\ head' = head /\ tail' = tail /\ buffer' = buffer /\ inject' = inject /\ next' = next
  BY DEF StealTail, IInv, Adding
<1>2. /\ v \in Workers /\ at[w] \in Locals /\ h \in Heads /\ h.real \in Idx /\ h.steal \in Idx
  BY <1>1, Typed
<1>3. Behind(v, h.real) \in Nat /\ Behind(v, h.real) < Indices /\ tail[v] \in Idx
  BY <1>1, <1>2, Typed, BehindTyped
<1>4. n \in Nat /\ n <= Behind(v, h.real) /\ n = HalfOf(Behind(v, h.real))
  BY <1>3, HalfIs DEF Behind
<1> HIDE DEF n
<1>5. CASE /\ Stealable(h, n) /\ Asserts(h.steal # Plus(h.real, n))
           /\ Goto(w, "stealCas", [at[w] EXCEPT !.n = n])
  <2>1. h.steal = h.real /\ n # 0
    BY <1>5 DEF Stealable
  <2>2. Behind(v, Plus(h.real, n)) = Behind(v, h.real) - n
    BY <1>2, <1>3, <1>4, HeadAhead DEF Behind
  <2>3. h.steal # Plus(h.real, n)
    BY <1>3, <1>4, <2>1, <2>2
  <2>4. ~panicked'
    BY <1>1, <1>5, <2>3 DEF Asserts
  <2>5. a \in Locals /\ a.from = v /\ a.head = h /\ a.n = n /\ a.copied = at[w].copied
    BY <1>2, <1>4 DEF Locals
  <2> HIDE DEF a
  <2>6. Goto(w, "stealCas", a)
    BY <1>5 DEF a
  <2>7. pc'[w] = "stealCas" /\ at'[w] = a
    BY <1>1, <2>6 DEF Goto, TypeOK
  <2>8. /\ v # w
        /\ Behind(v, head[v].real) <= Behind(v, h.real)
        /\ h.steal = h.real /\ h.real = head[v].real => head[v] = h
        /\ Adding(v) => Behind(v, h.real) + Capacity \div 2 < Indices
    BY <1>1 DEF IInv, VictimKnown, Stealing
  <2>9. at[w].copied = 0 /\ Behind(w, head[w].steal) <= Capacity \div 2
    BY <1>1 DEF IInv, OwnKnown, Stealing
  <2>10. OwnKnown(w)'
    BY <1>1, <2>5, <2>7, <2>9 DEF OwnKnown, Stealing, Behind
  <2>11. Adding(v)' <=> Adding(v)
    BY <1>1, <1>2, <2>5, <2>6, <2>7, <2>8 DEF Goto, TypeOK, Adding
  <2>12. 1 <= n /\ n <= HalfOf(Behind(v, h.real))
    BY <1>4, <2>1
  <2>13. VictimKnown(w)'
    BY <1>1, <2>1, <2>5, <2>7, <2>8, <2>11, <2>12 DEF VictimKnown, Stealing, Reading, Behind
  <2>14. "stealCas" \in Labels /\ "stealCas" \notin Reading
    BY DEF Labels, Stealing, Reading
  <2> QED
    BY <1>1, <2>4, <2>5, <2>6, <2>10, <2>13, <2>14, LocalStep DEF TypeOK
<1>6. CASE Return(w) /\ panicked' = panicked
  BY <1>1, <1>6, ReturnKnown, LocalStep DEF TypeOK
<1> QED
  BY <1>5, <1>6 DEF StealTail, n

LEMMA StealCasStep == ASSUME IInv, NEW w \in Workers, StealCas(w) PROVE IInv'
<1> DEFINE v == at[w].from
           h == at[w].head
           n == at[w].n
           g == pack(h.steal, Plus(h.real, n))
           a == [at[w] EXCEPT !.head = g]
<1>1. /\ TypeOK /\ pc[w] = "stealCas" /\ Adding(w) /\ ~panicked
      /\ tail' = tail /\ buffer' = buffer /\ inject' = inject /\ next' = next
  BY DEF StealCas, IInv, Adding
<1>2. CASE /\ head[v] = h /\ head' = [head EXCEPT ![v] = g]
           /\ Asserts(n <= Capacity \div 2) /\ Goto(w, "copy", a)
  <2>1. /\ v \in Workers /\ at[w] \in Locals /\ h \in Heads /\ h.real \in Idx /\ h.steal \in Idx
        /\ n \in Nat /\ tail[v] \in Idx
    BY <1>1, Typed
  <2>2. v # w /\ h.steal = h.real /\ 1 <= n /\ n <= HalfOf(Behind(v, h.real))
    BY <1>1, <1>2 DEF IInv, VictimKnown, Stealing
  <2>3. at[w].copied = 0 /\ Behind(w, head[w].steal) <= Capacity \div 2
    BY <1>1 DEF IInv, OwnKnown, Stealing
  <2>4. Behind(v, h.real) \in Nat /\ Behind(v, h.real) <= Capacity /\ Capacity \in Nat
    <3>1. Behind(v, h.steal) <= Capacity /\ Behind(v, h.real) <= Behind(v, h.steal)
      BY <1>2, <2>1 DEF IInv, Ordered
    <3>2. Behind(v, h.steal) \in Nat /\ Behind(v, h.real) \in Nat /\ Capacity \in Nat
      BY <1>1, <2>1, BehindTyped, Sizes
    <3> QED
      BY <3>1, <3>2
  <2>5. n <= Capacity \div 2 /\ n <= Behind(v, h.real)
    <3>1. HalfOf(Behind(v, h.real)) \in Nat /\ Capacity \div 2 \in Nat
          /\ HalfOf(Behind(v, h.real)) <= Capacity \div 2
          /\ HalfOf(Behind(v, h.real)) <= Behind(v, h.real)
      BY <2>4, HalfIs, Sizes
    <3> QED
      BY <2>1, <2>2, <2>4, <3>1
  <2>6. ~panicked'
    BY <1>1, <1>2, <2>5 DEF Asserts
  <2>7. g.real \in Idx /\ Behind(v, g.real) = Behind(v, h.real) - n
    BY <2>1, <2>5, HeadAhead DEF Behind, pack
  <2>8. g \in Heads /\ g.steal = h.real
    BY <2>1, <2>2, <2>7 DEF Heads, pack
  <2>9. a \in Locals /\ a.from = v /\ a.head = g /\ a.n = n /\ a.copied = 0
    BY <2>1, <2>3, <2>8 DEF Locals
  <2> HIDE DEF a, g
  <2>10. Goto(w, "copy", a) /\ head' = [head EXCEPT ![v] = g]
    BY <1>2 DEF a, g
  <2>11. /\ pc'[w] = "copy" /\ at'[w] = a
         /\ \A x \in Workers \ {w} : pc'[x] = pc[x] /\ at'[x] = at[x]
    BY <1>1, <2>10 DEF Goto, TypeOK
  <2>12. /\ Behind(v, g.real) <= Behind(v, g.steal)
         /\ Behind(v, g.steal) <= Behind(v, head[v].steal)
         /\ Behind(v, g.real) < Behind(v, head[v].real)
         /\ g.steal = head[v].steal
    BY <1>2, <2>1, <2>2, <2>4, <2>7, <2>8
  <2>13. /\ \A x \in Workers : Ordered(x)'
         /\ \A x \in Workers \ {w} : OwnKnown(x)' /\ VictimKnown(x)'
    BY <1>1, <2>1, <2>8, <2>10, <2>11, <2>12, HeadStep
  <2>14. head' \in [Workers -> Heads] /\ head'[v] = g /\ head'[w] = head[w]
    BY <1>1, <2>1, <2>2, <2>8, <2>10 DEF TypeOK
  <2>15. OwnKnown(w)'
    <3>1. Behind(w, head[w].steal)' <= Capacity \div 2
      BY <1>1, <2>3, <2>14 DEF Behind
    <3>2. at'[w].n = n /\ at'[w].copied = 0 /\ 0 < n
      BY <2>1, <2>2, <2>9, <2>11
    <3> QED
      BY <2>2, <2>5, <2>11, <3>1, <3>2 DEF OwnKnown, Stealing
  <2>16. VictimKnown(w)'
    <3>1. Behind(v, g.real) + n <= Behind(v, g.steal)
      BY <2>1, <2>4, <2>7, <2>8
    <3>2. /\ at'[w].from = v /\ at'[w].head = g /\ at'[w].n = n
      BY <2>9, <2>11
    <3> QED
      BY <1>1, <2>2, <2>11, <2>14, <3>1, <3>2 DEF VictimKnown, Stealing, Reading, Behind
  <2>17. ASSUME NEW x \in Workers \ {w}, pc[x] \in Reading, at[x].from = v
         PROVE  FALSE
    <3>1. Behind(v, head[v].real) + at[x].n <= Behind(v, head[v].steal) /\ at[x].n \in Nat
      BY <1>1, <2>17, Typed DEF IInv, VictimKnown
    <3>2. at[x].n >= 1
      BY <2>17 DEF IInv, OwnKnown, Reading
    <3> QED
      BY <1>2, <2>2, <2>4, <3>1, <3>2
  <2>18. "copy" \in Labels
    BY DEF Labels, Stealing
  <2> QED
    BY <1>1, <2>6, <2>9, <2>10, <2>13, <2>14, <2>15, <2>16, <2>17, <2>18, StepKeeps DEF TypeOK
<1>3. CASE /\ Goto(w, "stealTail", [at[w] EXCEPT !.head = head[v]])
           /\ head' = head /\ panicked' = panicked
  BY <1>1, <1>3, HeadRead
<1> QED
  BY <1>2, <1>3 DEF StealCas


LEMMA CopyStep == ASSUME IInv, NEW w \in Workers, Copy(w) PROVE IInv'
<1> DEFINE v == at[w].from
           k == at[w].copied
           n == at[w].n
           l == IF k + 1 = n THEN "release" ELSE "copy"
           a == [at[w] EXCEPT !.copied = k + 1]
<1>1. /\ TypeOK /\ pc[w] = "copy" /\ Adding(w) /\ Goto(w, l, a) /\ ~panicked'
      /\ head' = head /\ tail' = tail /\ inject' = inject /\ next' = next
  BY DEF Copy, IInv, Adding
<1>2. /\ v \in Workers /\ at[w] \in Locals /\ k \in Nat /\ n \in Nat
      /\ at[w].head.steal \in Idx /\ tail[w] \in Idx
  BY <1>1, Typed
<1>3. /\ 1 <= n /\ n <= Capacity \div 2 /\ k < n /\ Behind(w, head[w].steal) <= Capacity \div 2
  BY <1>1 DEF IInv, OwnKnown, Stealing
<1>4. /\ v # w /\ at[w].head.steal = head[v].steal
      /\ Behind(v, head[v].real) + n <= Behind(v, head[v].steal)
  BY <1>1 DEF IInv, VictimKnown, Stealing, Reading
<1>5. /\ a \in Locals /\ a.from = v /\ a.head = at[w].head /\ a.n = n /\ a.copied = k + 1
  BY <1>2 DEF Locals
<1>6. l \in {"copy", "release"} /\ l \in Labels /\ (l = "copy" => k + 1 < n)
  BY <1>2, <1>3 DEF Labels, Stealing
<1> HIDE DEF a, l
<1>7. pc'[w] = l /\ at'[w] = a
  BY <1>1 DEF Goto, TypeOK
<1>8. OwnKnown(w)'
  <2>1. Behind(w, head[w].steal)' <= Capacity \div 2
    BY <1>1, <1>3 DEF Behind
  <2> QED
    BY <1>3, <1>5, <1>6, <1>7, <2>1 DEF OwnKnown, Stealing
<1>9. VictimKnown(w)'
  BY <1>1, <1>4, <1>5, <1>6, <1>7 DEF VictimKnown, Stealing, Reading, Behind
<1>10. buffer' \in [Workers -> [0 .. Capacity - 1 -> Items]]
  <2>1. Slot(Plus(at[w].head.steal, k)) \in 0 .. Capacity - 1
    BY <1>2, SlotTyped
  <2>2. buffer[v][Slot(Plus(at[w].head.steal, k))] \in Items
    BY <1>1, <1>2, <2>1 DEF TypeOK
  <2> QED
    BY <1>1, <2>2 DEF Copy, TypeOK
<1>11. pc[w] \in Reading
  BY <1>1 DEF Reading
<1> QED
  BY <1>1, <1>5, <1>6, <1>8, <1>9, <1>10, <1>11, LocalStep DEF TypeOK

LEMMA ReleaseCasStep == ASSUME IInv, NEW w \in Workers, ReleaseCas(w) PROVE IInv'
<1> DEFINE v == at[w].from
           h == at[w].head
           n == at[w].n
           g == pack(h.real, h.real)
           a == [at[w] EXCEPT !.head = head[v]]
<1>1. /\ TypeOK /\ pc[w] = "release" /\ Adding(w) /\ ~panicked
      /\ tail' = tail /\ buffer' = buffer /\ inject' = inject /\ next' = next
  BY DEF ReleaseCas, IInv, Adding
<1>2. /\ v \in Workers /\ at[w] \in Locals /\ n \in Nat /\ h.real \in Idx
      /\ head[v] \in Heads /\ head[v].real \in Idx /\ head[v].steal \in Idx
      /\ Behind(v, head[v].real) \in Nat /\ Behind(v, head[v].steal) \in Nat
  <2>1. v \in Workers
    BY <1>1, Typed
  <2> QED
    BY <1>1, <2>1, Typed, BehindTyped
<1>3. 1 <= n /\ n <= Capacity \div 2 /\ Behind(w, head[w].steal) <= Capacity \div 2
  BY <1>1 DEF IInv, OwnKnown, Stealing
<1>4. v # w /\ Behind(v, head[v].real) + n <= Behind(v, head[v].steal)
  BY <1>1 DEF IInv, VictimKnown, Stealing, Reading
<1>5. CASE /\ head[v] = h /\ head' = [head EXCEPT ![v] = g] /\ Goto(w, "expose", at[w])
           /\ panicked' = panicked
  <2>1. g \in Heads /\ g.steal = head[v].real /\ g.real = head[v].real
    BY <1>2, <1>5 DEF Heads, pack
  <2> HIDE DEF g
  <2>2. /\ pc'[w] = "expose" /\ at'[w] = at[w]
        /\ \A x \in Workers \ {w} : pc'[x] = pc[x] /\ at'[x] = at[x]
    BY <1>1, <1>5 DEF Goto, TypeOK
  <2>3. \A x \in Workers \ {w} : ~(pc[x] \in Reading /\ at[x].from = v)
    BY <1>1 DEF IInv, OneReader, Reading
  <2>4. /\ Behind(v, g.real) <= Behind(v, g.steal)
        /\ Behind(v, g.steal) <= Behind(v, head[v].steal)
    BY <1>2, <1>3, <1>4, <2>1
  <2>5. /\ \A x \in Workers : Ordered(x)'
        /\ \A x \in Workers \ {w} : OwnKnown(x)' /\ VictimKnown(x)'
    BY <1>1, <1>2, <1>5, <2>1, <2>2, <2>3, <2>4, HeadStep
  <2>6. head' \in [Workers -> Heads] /\ head'[w] = head[w]
    BY <1>1, <1>2, <1>4, <1>5, <2>1 DEF TypeOK
  <2>7. OwnKnown(w)' /\ VictimKnown(w)'
    BY <1>1, <1>3, <1>4, <2>2, <2>6 DEF OwnKnown, VictimKnown, Stealing, Reading, Behind
  <2>8. "expose" \in Labels /\ "expose" \notin Reading
    BY DEF Labels, Stealing, Reading
  <2> QED
    BY <1>1, <1>2, <1>5, <2>5, <2>6, <2>7, <2>8, StepKeeps DEF TypeOK
<1>6. CASE /\ Asserts(head[v].steal # head[v].real) /\ Goto(w, "release", a) /\ head' = head
  <2>1. head[v].steal # head[v].real
    BY <1>2, <1>3, <1>4
  <2>2. ~panicked'
    BY <1>1, <1>6, <2>1 DEF Asserts
  <2>3. a \in Locals /\ a.from = v /\ a.head = head[v] /\ a.n = n
    BY <1>2 DEF Locals
  <2> HIDE DEF a
  <2>4. Goto(w, "release", a)
    BY <1>6
  <2>5. pc'[w] = "release" /\ at'[w] = a
    BY <1>1, <2>4 DEF Goto, TypeOK
  <2>6. OwnKnown(w)'
    BY <1>1, <1>3, <1>6, <2>3, <2>5 DEF OwnKnown, Stealing, Behind
  <2>7. VictimKnown(w)'
    BY <1>1, <1>4, <1>6, <2>3, <2>5 DEF VictimKnown, Stealing, Reading, Behind
  <2>8. "release" \in Labels /\ pc[w] \in Reading
    BY <1>1 DEF Labels, Stealing, Reading
  <2> QED
    BY <1>1, <1>6, <2>2, <2>3, <2>4, <2>6, <2>7, <2>8, LocalStep DEF TypeOK
<1> QED
  BY <1>5, <1>6 DEF ReleaseCas

LEMMA ExposeStep == ASSUME IInv, NEW w \in Workers, Expose(w) PROVE IInv'
<1> DEFINE k == at[w].n - 1
<1>1. /\ TypeOK /\ pc[w] = "expose" /\ Adding(w) /\ Return(w)
      /\ head' = head /\ tail' = [tail EXCEPT ![w] = Plus(@, k)]
      /\ buffer' = buffer /\ inject' = inject /\ next' = next /\ ~panicked'
  BY DEF Expose, IInv, Adding
<1>2. /\ 1 <= at[w].n /\ at[w].n <= Capacity \div 2 /\ Behind(w, head[w].steal) <= Capacity \div 2
  BY <1>1 DEF IInv, OwnKnown, Stealing
<1>3. at[w].n \in Nat /\ Behind(w, head[w].steal) \in Nat
  BY <1>1, Typed, BehindTyped
<1>4. k \in Nat /\ k <= Capacity \div 2 /\ Behind(w, head[w].steal) + k <= Capacity
  BY <1>2, <1>3, Sizes
<1> HIDE DEF k
<1>5. \A x \in Workers \ {w} : pc'[x] = pc[x] /\ at'[x] = at[x]
  BY <1>1 DEF Return, Goto, TypeOK
<1>6. /\ tail' \in [Workers -> Idx] /\ \A x \in Workers : Ordered(x)'
      /\ \A x \in Workers \ {w} : OwnKnown(x)' /\ VictimKnown(x)'
  BY <1>1, <1>4, <1>5, ReturnKnown, TailStep
<1> QED
  BY <1>1, <1>6, ReturnKnown, StepKeeps DEF TypeOK

LEMMA RefillStartStep == ASSUME IInv, NEW w \in Workers, RefillStart(w) PROVE IInv'
<1> DEFINE room == Capacity - Minus(tail[w], head[w].steal)
           share == Len(inject) \div Cardinality(Workers) + 1
           n == Least({room, Capacity \div 2, share})
           m == IF n = 0 THEN 1 ELSE n
           a == [Nothing(w) EXCEPT !.n = m]
<1>1. /\ TypeOK /\ NotLapped(w) /\ Goto(w, "refill", a) /\ ~panicked'
      /\ head' = head /\ tail' = tail /\ buffer' = buffer /\ inject' = inject /\ next' = next
  BY DEF RefillStart, IInv
<1>2. head[w].steal \in Idx /\ Behind(w, head[w].steal) \in Nat
  BY <1>1, Typed, BehindTyped
<1>3. Behind(w, head[w].steal) <= Capacity
  BY DEF IInv, Ordered
<1>4. room \in Nat /\ room = Capacity - Behind(w, head[w].steal)
  BY <1>2, <1>3, Sizes DEF Behind
<1>5. share \in Nat
  <2>1. Cardinality(Workers) \in Nat /\ IsFiniteSet(Workers) /\ Cardinality(Workers) # 0
    BY StealQueueAssumption, FS_CardinalityType, FS_EmptySet
  <2>2. Len(inject) \in Nat
    BY <1>1 DEF TypeOK
  <2> QED
    BY <2>1, <2>2
<1> HIDE DEF room, share
<1>6. n \in Nat /\ n <= room /\ n <= Capacity \div 2
  <2> DEFINE c == Capacity \div 2
  <2>1. room \in Int /\ c \in Int /\ share \in Int /\ c \in Nat
    BY <1>4, <1>5, Sizes
  <2> HIDE DEF c
  <2>2. n \in {room, c, share} /\ n <= room /\ n <= c
    <3>1. n = Least({room, c, share})
      BY DEF c
    <3> HIDE DEF n
    <3> QED
      BY <2>1, <3>1, LeastIs
  <2> QED
    BY <1>4, <1>5, <2>1, <2>2 DEF c
<1> HIDE DEF n
<1>7. m \in Nat /\ 1 <= m /\ m <= Capacity \div 2 /\ (m = 1 \/ m <= room)
  BY <1>6, Sizes
<1> HIDE DEF m
<1>8. 0 \in Idx /\ a \in Locals /\ a.n = m
  BY <1>7, Sizes DEF Idx, Nothing, Locals, Heads, pack, Items
<1> HIDE DEF a
<1>9. pc'[w] = "refill" /\ at'[w] = a
  BY <1>1 DEF Goto, TypeOK
<1>10. m = 1 \/ Behind(w, head[w].steal) + m <= Capacity
  BY <1>2, <1>4, <1>7, Sizes
<1>11. OwnKnown(w)' /\ VictimKnown(w)'
  BY <1>1, <1>7, <1>8, <1>9, <1>10 DEF OwnKnown, VictimKnown, Stealing, Reading, Behind
<1>12. "refill" \in Labels /\ "refill" \notin Reading
  BY DEF Labels, Stealing, Reading
<1> QED
  BY <1>1, <1>8, <1>11, <1>12, LocalStep DEF TypeOK

LEMMA RefillStep == ASSUME IInv, NEW w \in Workers, Refill(w) PROVE IInv'
<1> DEFINE n == Least({at[w].n, Len(inject)})
           k == IF n = 0 THEN 0 ELSE n - 1
           Place(s) == (s - tail[w]) % Capacity
<1>1. /\ TypeOK /\ pc[w] = "refill" /\ Adding(w) /\ Return(w)
      /\ head' = head /\ tail' = [tail EXCEPT ![w] = Plus(@, k)]
      /\ inject' = SubSeq(inject, n + 1, Len(inject)) /\ next' = next
  BY DEF Refill, IInv, Adding
<1>2. /\ buffer' = [buffer EXCEPT ![w] = [s \in 0 .. Capacity - 1 |->
                       IF Place(s) < k THEN inject[Place(s) + 2] ELSE buffer[w][s]]]
      /\ Asserts(k = 0 \/ Minus(tail[w], head[w].steal) <= Capacity - k)
  BY <1>1 DEF Refill, TypeOK
<1>3. /\ 1 <= at[w].n /\ at[w].n <= Capacity \div 2
      /\ at[w].n = 1 \/ Behind(w, head[w].steal) + at[w].n <= Capacity
  BY <1>1 DEF IInv, OwnKnown
<1>4. /\ at[w].n \in Nat /\ Behind(w, head[w].steal) \in Nat /\ tail[w] \in Idx
      /\ Len(inject) \in Nat /\ inject \in Seq(Items)
  BY <1>1, Typed, BehindTyped DEF TypeOK
<1>5. n \in Nat /\ n <= at[w].n /\ n <= Len(inject)
  <2> DEFINE b == at[w].n
             c == Len(inject)
  <2>1. b \in Nat /\ c \in Nat /\ b \in Int /\ c \in Int
    BY <1>4
  <2> HIDE DEF b, c
  <2>2. {b, c} = {b, c, c}
    OBVIOUS
  <2>3. n = Least({b, c, c})
    BY <2>2 DEF b, c
  <2> HIDE DEF n
  <2>4. n \in {b, c, c} /\ n <= b /\ n <= c
    BY <2>1, <2>3, LeastIs
  <2> QED
    BY <2>1, <2>4 DEF b, c
<1> HIDE DEF n
<1>6. Behind(w, head[w].steal) <= Capacity
  BY DEF IInv, Ordered
<1>7. /\ k \in Nat /\ k <= Capacity \div 2 /\ Behind(w, head[w].steal) + k <= Capacity
      /\ k # 0 => k + 1 <= Len(inject)
  BY <1>3, <1>4, <1>5, <1>6, Sizes
<1> HIDE DEF k
<1>8. ~panicked'
  <2>1. k = 0 \/ Minus(tail[w], head[w].steal) <= Capacity - k
    BY <1>4, <1>7, Sizes DEF Behind
  <2> QED
    BY <1>2, <2>1 DEF Asserts, IInv
<1>9. inject' \in Seq(Items)
  BY <1>1, <1>4, <1>5
<1>10. buffer' \in [Workers -> [0 .. Capacity - 1 -> Items]]
  <2>1. ASSUME NEW s \in 0 .. Capacity - 1
        PROVE  (IF Place(s) < k THEN inject[Place(s) + 2] ELSE buffer[w][s]) \in Items
    <3>1. Place(s) \in Nat
      <4>1. s - tail[w] \in Int /\ Capacity \in Nat \ {0}
        BY <1>4, Sizes DEF Idx
      <4> QED
        BY <4>1
    <3>2. CASE Place(s) < k
      <4>1. Place(s) + 2 \in 1 .. Len(inject)
        BY <1>4, <1>7, <3>1, <3>2
      <4> HIDE DEF Place
      <4> QED
        BY <1>4, <3>2, <4>1
    <3>3. CASE ~(Place(s) < k)
      BY <1>1, <3>3 DEF TypeOK
    <3> QED
      BY <3>2, <3>3
  <2> HIDE DEF Place
  <2> QED
    BY <1>1, <1>2, <2>1 DEF TypeOK
<1>11. \A x \in Workers \ {w} : pc'[x] = pc[x] /\ at'[x] = at[x]
  BY <1>1 DEF Return, Goto, TypeOK
<1>12. /\ tail' \in [Workers -> Idx] /\ \A x \in Workers : Ordered(x)'
       /\ \A x \in Workers \ {w} : OwnKnown(x)' /\ VictimKnown(x)'
  BY <1>1, <1>7, <1>11, ReturnKnown, TailStep
<1> QED
  BY <1>1, <1>8, <1>9, <1>10, <1>12, ReturnKnown, StepKeeps DEF TypeOK


-----------------------------------------------------------------------------
(* The invariant and what follows from it.                                     *)

LEMMA InitIInv == ASSUME Init PROVE IInv
<1>1. PICK i \in Starts : /\ head = [w \in Workers |-> pack(i, i)]
                          /\ tail = [w \in Workers |-> i]
  BY DEF Init
<1>2. i \in Idx /\ 0 \in Idx /\ Capacity \in Nat /\ Indices \in Nat
  BY StealQueueAssumption, Sizes DEF Idx
<1>3. /\ buffer = [w \in Workers |-> [s \in 0 .. Capacity - 1 |-> NoTask]]
      /\ inject = <<>> /\ next = 1 /\ pc = [w \in Workers |-> "idle"]
      /\ at = [w \in Workers |-> Nothing(w)] /\ panicked = FALSE
  BY DEF Init
<1>4. ASSUME NEW w \in Workers PROVE Nothing(w) \in Locals
  BY <1>2 DEF Nothing, Locals, Heads, pack, Items
<1>5. pack(i, i) \in Heads
  BY <1>2 DEF pack, Heads
<1>6. TypeOK
  BY <1>1, <1>2, <1>3, <1>4, <1>5 DEF TypeOK, Items, Labels
<1>7. ASSUME NEW w \in Workers PROVE Ordered(w) /\ OwnKnown(w) /\ VictimKnown(w)
  <2>1. head[w].real = i /\ head[w].steal = i /\ tail[w] = i /\ pc[w] = "idle"
    BY <1>1, <1>3 DEF pack
  <2>2. Minus(i, i) = 0
    BY <1>2, SameIndex
  <2>3. Ordered(w)
    BY <1>2, <2>1, <2>2 DEF Ordered, Behind
  <2> QED
    BY <2>1, <2>3 DEF OwnKnown, VictimKnown, Stealing, Reading
<1>8. OneReader
  BY <1>3 DEF OneReader, Reading
<1> QED
  BY <1>3, <1>6, <1>7, <1>8 DEF IInv

LEMMA NextIInv == ASSUME IInv, [Next]_vars PROVE IInv'
<1>1. CASE Next
  BY <1>1, ScheduleStep, PushLoadStep, PushWriteStep, PushTailStep, OverflowCasStep,
     OverflowReadStep, PopLoadStep, PopCasStep, PopReadStep, StealStartStep, StealHeadStep,
     StealTailStep, StealCasStep, CopyStep, ReleaseCasStep, ExposeStep, RefillStartStep,
     RefillStep DEF Next
<1>2. CASE UNCHANGED vars
  BY <1>2 DEF vars, IInv, TypeOK, Ordered, OwnKnown, VictimKnown, OneReader, Behind, Adding
<1> QED
  BY <1>1, <1>2

(* Whatever the workers do at the same time, the two halves of every head are  *)
(* in order and at most a capacity behind the tail, every call knows what the  *)
(* code takes it to know of its own queue and of the one it steals from, and   *)
(* one stealer at a time reads a queue's slots.                                *)
THEOREM Invariant == Spec => []IInv
<1>1. Init => IInv
  BY InitIInv
<1>2. IInv /\ [Next]_vars => IInv'
  BY NextIInv
<1> QED
  BY <1>1, <1>2, PTL DEF Spec

(* No assertion of the queue fails.                                            *)
THEOREM NoAssertionFails == Spec => []AssertionsHold
<1>1. IInv => AssertionsHold
  BY DEF IInv, AssertionsHold
<1> QED
  BY <1>1, Invariant, PTL

\* A slot that w writes next is at or beyond its tail, less than a capacity
\* beyond the slots a stealer may read.
LEMMA WriteBeyond ==
  ASSUME IInv, NEW w \in Workers, NEW s \in WritesNext(w)
  PROVE  \E c \in Nat : s = Slot(Plus(tail[w], c)) /\ Behind(w, head[w].steal) + c < Capacity
<1>1. /\ TypeOK /\ tail[w] \in Idx /\ at[w].copied \in Nat /\ at[w].n \in Nat
      /\ Behind(w, head[w].steal) \in Nat
  BY Typed, BehindTyped DEF IInv
<1>2. CASE pc[w] = "pushWrite"
  <2>1. Plus(tail[w], 0) = tail[w]
    BY <1>1, PlusIs, Sizes DEF Idx
  <2>2. WritesNext(w) = {Slot(Plus(tail[w], 0))}
    BY <1>2, <2>1 DEF WritesNext
  <2>3. Behind(w, head[w].steal) + 0 < Capacity
    BY <1>1, <1>2 DEF IInv, OwnKnown
  <2> QED
    BY <2>2, <2>3
<1>3. CASE pc[w] = "copy"
  <2>1. /\ Behind(w, head[w].steal) <= Capacity \div 2
        /\ at[w].n <= Capacity \div 2 /\ at[w].copied < at[w].n
    BY <1>3 DEF IInv, OwnKnown, Stealing
  <2>2. Behind(w, head[w].steal) + at[w].copied < Capacity
    BY <1>1, <2>1, Sizes
  <2>3. WritesNext(w) = {Slot(Plus(tail[w], at[w].copied))}
    BY <1>3 DEF WritesNext
  <2> QED
    BY <1>1, <2>2, <2>3
<1>4. CASE pc[w] = "refill"
  <2>1. PICK c \in 0 .. at[w].n - 2 : s = Slot(Plus(tail[w], c))
    BY <1>4 DEF WritesNext
  <2>2. at[w].n = 1 \/ Behind(w, head[w].steal) + at[w].n <= Capacity
    BY <1>4 DEF IInv, OwnKnown
  <2>3. c \in Nat /\ Behind(w, head[w].steal) + c < Capacity
    BY <1>1, <2>2, Sizes
  <2> QED
    BY <2>1, <2>3
<1>5. pc[w] \in {"pushWrite", "copy", "refill"}
  BY DEF WritesNext
<1> QED
  BY <1>2, <1>3, <1>4, <1>5

LEMMA NoRacingWriteHolds == ASSUME IInv PROVE NoRacingWrite
<1>1. SUFFICES ASSUME NEW v \in Workers, NEW w \in Workers \ {v}, NEW s,
                      s \in WritesNext(v), s \in StillToRead(w, v)
               PROVE  FALSE
  BY DEF NoRacingWrite
<1>2. PICK c \in Nat : s = Slot(Plus(tail[v], c)) /\ Behind(v, head[v].steal) + c < Capacity
  BY <1>1, WriteBeyond
<1>3. pc[w] = "copy" /\ at[w].from = v
  BY <1>1 DEF StillToRead
<1>4. PICK k \in at[w].copied .. at[w].n - 1 : s = Slot(Plus(at[w].head.steal, k))
  BY <1>1, <1>3 DEF StillToRead
<1>5. /\ TypeOK /\ at[w].copied \in Nat /\ at[w].n \in Nat /\ k \in Nat /\ k < at[w].n
      /\ tail[v] \in Idx /\ head[v].steal \in Idx /\ head[v].real \in Idx
      /\ Behind(v, head[v].steal) \in Nat /\ Behind(v, head[v].real) \in Nat
  BY <1>4, Typed, BehindTyped DEF IInv
<1>6. /\ at[w].head.steal = head[v].steal
      /\ Behind(v, head[v].real) + at[w].n <= Behind(v, head[v].steal)
  BY <1>3 DEF IInv, VictimKnown, Reading
<1> DEFINE i == head[v].steal
           t == tail[v]
<1>7. k < Minus(t, i) /\ Minus(t, i) + c < Capacity /\ Minus(t, i) \in Nat
  BY <1>2, <1>5, <1>6 DEF Behind
<1>8. Plus(t, c) \in Idx /\ Minus(Plus(t, c), i) = Minus(t, i) + c
  <2>1. t \in Idx /\ i \in Idx /\ Minus(t, i) + c < Indices
    BY <1>5, <1>7, Sizes
  <2> HIDE DEF t, i
  <2> QED
    BY <1>7, <2>1, TailAhead
<1>9. Plus(i, k) \in Idx /\ Minus(Plus(t, c), Plus(i, k)) = (Minus(t, i) + c) - k
  <2>1. k <= Minus(Plus(t, c), i)
    BY <1>5, <1>7, <1>8
  <2> QED
    BY <1>5, <1>8, <2>1, HeadAhead
<1>10. /\ 1 <= Minus(Plus(t, c), Plus(i, k)) /\ Minus(Plus(t, c), Plus(i, k)) < Capacity
  BY <1>5, <1>7, <1>9, Sizes
<1>11. Slot(Plus(t, c)) # Slot(Plus(i, k))
  BY <1>8, <1>9, <1>10, SlotsApart
<1> QED
  BY <1>1, <1>2, <1>4, <1>6, <1>11

(* No slot is written while a stealer may read it, by a push of its owner, by  *)
(* a steal into the queue or by tasks taken from the inject queue.             *)
THEOREM NoRace == Spec => []NoRacingWrite
<1>1. IInv => NoRacingWrite
  BY NoRacingWriteHolds
<1> QED
  BY <1>1, Invariant, PTL


-----------------------------------------------------------------------------
(* The queues of RunQueues.                                                    *)
\* A call with a task to push, and what there is of the tasks: those in the hands
\* of a call have been scheduled, each by one.
Holding == {"push", "pushWrite", "pushTail", "overflow", "overflowRead"}

Held ==
    /\ \A w \in Workers : IF pc[w] \in Holding THEN at[w].task \in Tasks /\ at[w].task < next
                                               ELSE at[w].task = NoTask
    /\ \A u, w \in Workers : at[u].task = at[w].task /\ at[u].task # NoTask => u = w

\* What a call has done of its work.
Progress(w) ==
    /\ pc[w] = "pushTail" => buffer[w][Slot(tail[w])] = at[w].task
    /\ pc[w] \in {"pop", "popRead"} => at[w].n = 1
    /\ pc[w] \in {"release", "expose"} => at[w].copied = at[w].n

\* The invariant of the refinement.
RInv == IInv /\ Held /\ \A w \in Workers : Progress(w)

\* The n slots of the ring b from the index i, and rings of tasks.
Ring(b, i, n) == [k \in 1 .. n |-> b[Slot(Plus(i, k - 1))]]
Rings == [0 .. Capacity - 1 -> Items]

LEMMA RingTyped ==
  ASSUME NEW b \in Rings, NEW i \in Idx, NEW n \in Nat
  PROVE  /\ Ring(b, i, n) \in Seq(Items) /\ Len(Ring(b, i, n)) = n
         /\ \A k \in 1 .. n : Ring(b, i, n)[k] = b[Slot(Plus(i, k - 1))]
<1>1. ASSUME NEW k \in 1 .. n PROVE b[Slot(Plus(i, k - 1))] \in Items
  <2>1. k - 1 \in Nat
    BY <1>1
  <2> QED
    BY <2>1, SlotTyped DEF Rings
<1>2. Ring(b, i, n) \in [1 .. n -> Items]
  BY <1>1 DEF Ring
<1> QED
  BY <1>2 DEF Ring

\* Rings that agree on the slots in question.
LEMMA RingSame ==
  ASSUME NEW b \in Rings, NEW c \in Rings, NEW i \in Idx, NEW n \in Nat,
         \A k \in 0 .. n - 1 : b[Slot(Plus(i, k))] = c[Slot(Plus(i, k))]
  PROVE  Ring(b, i, n) = Ring(c, i, n)
<1>1. ASSUME NEW k \in 1 .. n PROVE b[Slot(Plus(i, k - 1))] = c[Slot(Plus(i, k - 1))]
  <2>1. k - 1 \in 0 .. n - 1
    BY <1>1
  <2> QED
    BY <2>1
<1> QED
  BY <1>1 DEF Ring

\* Adding to an index twice.
LEMMA PlusPlus ==
  ASSUME NEW i \in Idx, NEW m \in Nat, NEW k \in Nat, m + k < Indices
  PROVE  Plus(i, m) \in Idx /\ Plus(Plus(i, m), k) = Plus(i, m + k)
<1>1. /\ m \in 0 .. Indices /\ k \in 0 .. Indices /\ m + k \in 0 .. Indices
      /\ Indices \in Nat /\ i \in 0 .. Indices - 1
  BY Sizes DEF Idx
<1>2. Plus(i, m) \in Idx /\ Plus(i, m) = IF i + m < Indices THEN i + m ELSE i + m - Indices
  BY <1>1, PlusIs
<1>3. /\ Plus(Plus(i, m), k) = IF Plus(i, m) + k < Indices THEN Plus(i, m) + k
                                                           ELSE Plus(i, m) + k - Indices
  BY <1>1, <1>2, PlusIs
<1>4. Plus(i, m + k) = IF i + (m + k) < Indices THEN i + (m + k) ELSE i + (m + k) - Indices
  BY <1>1, PlusIs
<1>5. Plus(i, m) \in Int
  BY <1>2 DEF Idx
<1> QED
  BY <1>1, <1>2, <1>3, <1>4, <1>5

\* The first m of n slots and the others.
LEMMA RingSplit ==
  ASSUME NEW b \in Rings, NEW i \in Idx, NEW n \in Nat, NEW m \in Nat,
         m <= n, n < Indices
  PROVE  /\ Plus(i, m) \in Idx
         /\ Ring(b, i, n) = Ring(b, i, m) \o Ring(b, Plus(i, m), n - m)
         /\ Q!First(Ring(b, i, n), m) = Ring(b, i, m)
         /\ Q!Rest(Ring(b, i, n), m) = Ring(b, Plus(i, m), n - m)
<1>0. Indices \in Nat /\ n - m \in Nat /\ m + 0 < Indices /\ 0 \in Nat
  BY Sizes
<1>1. Plus(i, m) \in Idx
  BY <1>0, PlusPlus
<1> DEFINE s == Ring(b, i, n)
           p == Ring(b, i, m)
           q == Ring(b, Plus(i, m), n - m)
<1>2. /\ s \in Seq(Items) /\ Len(s) = n /\ p \in Seq(Items) /\ Len(p) = m
      /\ q \in Seq(Items) /\ Len(q) = n - m
  BY <1>0, <1>1, RingTyped
<1>3. ASSUME NEW k \in 1 .. m PROVE s[k] = p[k]
  <2>1. k \in 1 .. n
    BY <1>3
  <2>2. s[k] = b[Slot(Plus(i, k - 1))] /\ p[k] = b[Slot(Plus(i, k - 1))]
    BY <1>3, <2>1, RingTyped
  <2> QED
    BY <2>2
<1>4. ASSUME NEW k \in 1 .. n - m PROVE s[m + k] = q[k]
  <2>1. k - 1 \in Nat /\ m + (k - 1) < Indices /\ m + k \in 1 .. n
    BY <1>0, <1>4
  <2>2. Plus(Plus(i, m), k - 1) = Plus(i, m + (k - 1)) /\ m + (k - 1) = (m + k) - 1
    BY <2>1, PlusPlus
  <2>3. s[m + k] = b[Slot(Plus(i, (m + k) - 1))]
    BY <2>1, RingTyped
  <2>4. q[k] = b[Slot(Plus(Plus(i, m), k - 1))]
    BY <1>0, <1>1, <1>4, RingTyped
  <2> QED
    BY <2>2, <2>3, <2>4
<1> HIDE DEF s, p, q
<1>5. s = p \o q
  <2>1. Len(p \o q) = n /\ p \o q \in Seq(Items)
    BY <1>2
  <2>2. ASSUME NEW k \in 1 .. n PROVE s[k] = (p \o q)[k]
    <3>1. CASE k \in 1 .. m
      BY <1>2, <1>3, <3>1
    <3>2. CASE k \notin 1 .. m
      <4>1. k - m \in 1 .. n - m /\ k = m + (k - m)
        BY <3>2
      <4>2. s[k] = q[k - m]
        BY <1>4, <4>1
      <4>3. (p \o q)[k] = q[k - m]
        BY <1>2, <3>2, <4>1
      <4> QED
        BY <4>2, <4>3
    <3> QED
      BY <3>1, <3>2
  <2> QED
    BY <1>2, <2>1, <2>2, SeqEqual
<1>6. SubSeq(s, 1, m) = p
  <2>1. SubSeq(s, 1, m) \in Seq(Items) /\ Len(SubSeq(s, 1, m)) = m
    BY <1>2, SubSeqProperties
  <2>2. \A k \in 1 .. m : SubSeq(s, 1, m)[k] = p[k]
    BY <1>2, <1>3, SubSeqProperties
  <2> QED
    BY <1>2, <2>1, <2>2, SeqEqual
<1>7. SubSeq(s, m + 1, n) = q
  <2>1. SubSeq(s, m + 1, n) \in Seq(Items) /\ Len(SubSeq(s, m + 1, n)) = n - m
    BY <1>2, SubSeqProperties
  <2>2. ASSUME NEW k \in 1 .. n - m PROVE SubSeq(s, m + 1, n)[k] = q[k]
    <3>1. SubSeq(s, m + 1, n)[k] = s[m + k]
      BY <1>2, <2>2
    <3> QED
      BY <1>4, <3>1
  <2> QED
    BY <1>2, <2>1, <2>2, SeqEqual
<1>8. Q!First(s, m) = p /\ Q!Rest(s, m) = q
  BY <1>2, <1>6, <1>7 DEF Q!First, Q!Rest
<1> QED
  BY <1>1, <1>5, <1>8 DEF s, p, q

LEMMA RingNone ==
  ASSUME NEW b \in Rings, NEW i \in Idx
  PROVE  Ring(b, i, 0) = << >> /\ \A s \in Seq(Items) : s \o Ring(b, i, 0) = s
                               /\ Ring(b, i, 0) \o s = s
<1>1. Ring(b, i, 0) \in Seq(Items) /\ Len(Ring(b, i, 0)) = 0
  BY RingTyped
<1>2. Ring(b, i, 0) = << >>
  BY <1>1
<1> QED
  BY <1>2, ConcatEmptySeq

LEMMA RingOne ==
  ASSUME NEW b \in Rings, NEW i \in Idx
  PROVE  Ring(b, i, 1) = << b[Slot(i)] >>
<1>1. Plus(i, 0) = i
  BY PlusIs, Sizes DEF Idx
<1>2. \A k \in 1 .. 1 : b[Slot(Plus(i, k - 1))] = b[Slot(i)]
  <2>1. \A k \in 1 .. 1 : k - 1 = 0
    OBVIOUS
  <2> QED
    BY <1>1, <2>1
<1>3. Ring(b, i, 1) = [k \in 1 .. 1 |-> b[Slot(i)]]
  BY <1>2 DEF Ring
<1> QED
  BY <1>3

LEMMA RingConcat ==
  ASSUME NEW b \in Rings, NEW i \in Idx, NEW n \in Nat, NEW m \in Nat,
         m <= n, n < Indices
  PROVE  Ring(b, i, n) = Ring(b, i, m) \o Ring(b, Plus(i, m), n - m)
BY RingSplit

\* The first slot and the others, and all but the last and the last.
LEMMA RingEnds ==
  ASSUME NEW b \in Rings, NEW i \in Idx, NEW n \in Nat, n + 1 < Indices
  PROVE  /\ Ring(b, i, n + 1) = << b[Slot(i)] >> \o Ring(b, Plus(i, 1), n)
         /\ Ring(b, i, n + 1) = Ring(b, i, n) \o << b[Slot(Plus(i, n))] >>
<1> DEFINE m == n + 1
           one == 1
<1>1. /\ m \in Nat /\ one \in Nat /\ one <= m /\ n <= m /\ m < Indices /\ m - one = n /\ m - n = one
      /\ n + 0 < Indices /\ 0 \in Nat
  BY Sizes
<1>2. Plus(i, n) \in Idx
  BY <1>1, PlusPlus
<1>3. Ring(b, i, one) = << b[Slot(i)] >> /\ Ring(b, Plus(i, n), one) = << b[Slot(Plus(i, n))] >>
  BY <1>2, RingOne
<1> HIDE DEF m, one
<1>4. Ring(b, i, m) = Ring(b, i, one) \o Ring(b, Plus(i, one), m - one)
  BY <1>1, RingConcat
<1>5. Ring(b, i, m) = Ring(b, i, n) \o Ring(b, Plus(i, n), m - n)
  BY <1>1, RingConcat
<1>6. /\ Ring(b, i, m) = << b[Slot(i)] >> \o Ring(b, Plus(i, one), n)
      /\ Ring(b, i, m) = Ring(b, i, n) \o << b[Slot(Plus(i, n))] >>
  BY <1>1, <1>3, <1>4, <1>5
<1> QED
  BY <1>6 DEF m, one

\* The slots behind the tail of w, from `steal` on, are not among those that w may
\* write: they start at the tail and end a capacity beyond `steal`.
Free(w, s) == \E d \in Nat : /\ Behind(w, head[w].steal) + d < Capacity
                             /\ s = Slot(Plus(tail[w], d))

LEMMA NotFree ==
  ASSUME IInv, NEW w \in Workers, NEW i \in Idx, NEW k \in Nat,
         k < Behind(w, i), Behind(w, i) <= Behind(w, head[w].steal)
  PROVE  ~Free(w, Slot(Plus(i, k)))
<1>1. SUFFICES ASSUME NEW d \in Nat, Behind(w, head[w].steal) + d < Capacity,
                      Slot(Plus(i, k)) = Slot(Plus(tail[w], d))
               PROVE  FALSE
  BY DEF Free
<1> DEFINE t == tail[w]
<1>2. /\ t \in Idx /\ Minus(t, i) \in Nat /\ Behind(w, head[w].steal) \in Nat
      /\ k < Minus(t, i) /\ Minus(t, i) + d < Capacity /\ Capacity < Indices
      /\ Capacity \in Nat /\ Indices \in Nat
  <2>1. TypeOK /\ head[w].steal \in Idx /\ t \in Idx
    BY Typed DEF IInv
  <2>2. Behind(w, i) \in Nat /\ Behind(w, head[w].steal) \in Nat
    BY <2>1, BehindTyped
  <2> QED
    BY <1>1, <2>1, <2>2, Sizes DEF Behind
<1> HIDE DEF t
<1>3. Plus(t, d) \in Idx /\ Minus(Plus(t, d), i) = Minus(t, i) + d
  BY <1>2, TailAhead
<1>4. Plus(i, k) \in Idx /\ Minus(Plus(t, d), Plus(i, k)) = (Minus(t, i) + d) - k
  <2>1. k <= Minus(Plus(t, d), i)
    BY <1>2, <1>3
  <2> QED
    BY <1>3, <2>1, HeadAhead
<1>5. 1 <= Minus(Plus(t, d), Plus(i, k)) /\ Minus(Plus(t, d), Plus(i, k)) < Capacity
  BY <1>2, <1>4
<1>6. Slot(Plus(t, d)) # Slot(Plus(i, k))
  BY <1>3, <1>4, <1>5, SlotsApart
<1> QED
  BY <1>1, <1>6 DEF t

\* What w has queued and what others read of it stays when w writes free slots.
LEMMA WriteKeeps ==
  ASSUME IInv, NEW w \in Workers, NEW b \in Rings,
         \A s \in 0 .. Capacity - 1 : Free(w, s) \/ b[s] = buffer[w][s]
  PROVE  /\ Ring(b, head[w].real, Behind(w, head[w].real))
              = Ring(buffer[w], head[w].real, Behind(w, head[w].real))
         /\ \A x \in Workers : pc[x] = "copy" /\ at[x].from = w =>
              Ring(b, Plus(at[x].head.steal, at[x].copied), at[x].n - at[x].copied)
                = Ring(buffer[w], Plus(at[x].head.steal, at[x].copied), at[x].n - at[x].copied)
<1>1. /\ TypeOK /\ buffer[w] \in Rings /\ head[w].real \in Idx /\ head[w].steal \in Idx
      /\ tail[w] \in Idx
      /\ Behind(w, head[w].real) \in Nat /\ Behind(w, head[w].steal) \in Nat
  BY Typed, BehindTyped DEF IInv, TypeOK, Rings
<1>2. Behind(w, head[w].real) <= Behind(w, head[w].steal)
  BY DEF IInv, Ordered
<1>3. ASSUME NEW k \in 0 .. Behind(w, head[w].real) - 1
      PROVE  b[Slot(Plus(head[w].real, k))] = buffer[w][Slot(Plus(head[w].real, k))]
  <2>1. k \in Nat /\ k < Behind(w, head[w].real)
    BY <1>1, <1>3
  <2> QED
    BY <1>1, <1>2, <2>1, NotFree, SlotTyped
<1>4. ASSUME NEW x \in Workers, pc[x] = "copy", at[x].from = w
      PROVE  Ring(b, Plus(at[x].head.steal, at[x].copied), at[x].n - at[x].copied)
               = Ring(buffer[w], Plus(at[x].head.steal, at[x].copied), at[x].n - at[x].copied)
  <2> DEFINE i == head[w].steal
             m == at[x].copied
             n == at[x].n
  <2>1. /\ m \in Nat /\ n \in Nat /\ m < n
        /\ at[x].head.steal = i /\ Behind(w, head[w].real) + n <= Behind(w, i)
    BY <1>1, <1>4, Typed DEF IInv, OwnKnown, VictimKnown, Stealing, Reading
  <2>2. Plus(i, m) \in Idx /\ Behind(w, Plus(i, m)) = Behind(w, i) - m
    BY <1>1, <2>1, HeadAhead DEF Behind
  <2> HIDE DEF m, n
  <2>3. ASSUME NEW k \in 0 .. (n - m) - 1
        PROVE  b[Slot(Plus(Plus(i, m), k))] = buffer[w][Slot(Plus(Plus(i, m), k))]
    <3>1. k \in Nat /\ k < Behind(w, Plus(i, m)) /\ Behind(w, Plus(i, m)) <= Behind(w, i)
      BY <1>1, <2>1, <2>2, <2>3
    <3> QED
      BY <2>2, <3>1, NotFree, SlotTyped
  <2>4. n - m \in Nat
    BY <2>1
  <2>5. Ring(b, Plus(i, m), n - m) = Ring(buffer[w], Plus(i, m), n - m)
    BY <1>1, <2>2, <2>3, <2>4, RingSame
  <2> QED
    BY <2>1, <2>5 DEF m, n
<1>5. Ring(b, head[w].real, Behind(w, head[w].real))
        = Ring(buffer[w], head[w].real, Behind(w, head[w].real))
  BY <1>1, <1>3, RingSame
<1> QED
  BY <1>4, <1>5

-----------------------------------------------------------------------------
(* The abstract state.                                                         *)

Queues == [w \in Workers |-> QueueOf(w)]
Movings == [w \in Workers |-> MovingOf(w)]

LEMMA QueueIs ==
  ASSUME NEW w \in Workers
  PROVE  /\ QueueOf(w) = Ring(buffer[w], head[w].real, Behind(w, head[w].real))
         /\ QueueOf(w)' = Ring(buffer'[w], head'[w].real, Minus(tail'[w], head'[w].real))
BY DEF QueueOf, Batch, Ring, Behind

\* What w has in hand, by where it is.
LEMMA MovingIs ==
  ASSUME NEW w \in Workers
  PROVE  /\ pc[w] \in {"popRead", "overflowRead"} =>
              MovingOf(w) = Ring(buffer[w], at[w].head.real, at[w].n)
         /\ pc[w] \in {"copy", "release", "expose"} =>
              MovingOf(w) = Ring(buffer[w], tail[w], at[w].copied)
                \o Ring(buffer[at[w].from], Plus(at[w].head.steal, at[w].copied),
                        at[w].n - at[w].copied)
         /\ pc[w] \notin {"popRead", "overflowRead", "copy", "release", "expose"} =>
              MovingOf(w) = << >>
BY DEF MovingOf, Batch, Ring

LEMMA MovingWillBe ==
  ASSUME NEW w \in Workers
  PROVE  /\ pc'[w] \in {"popRead", "overflowRead"} =>
              MovingOf(w)' = Ring(buffer'[w], at'[w].head.real, at'[w].n)
         /\ pc'[w] \in {"copy", "release", "expose"} =>
              MovingOf(w)' = Ring(buffer'[w], tail'[w], at'[w].copied)
                \o Ring(buffer'[at'[w].from], Plus(at'[w].head.steal, at'[w].copied),
                        at'[w].n - at'[w].copied)
         /\ pc'[w] \notin {"popRead", "overflowRead", "copy", "release", "expose"} =>
              MovingOf(w)' = << >>
BY DEF MovingOf, Batch, Ring

\* A loot that is copied is in the thief's own slots.
LEMMA CopiedIs ==
  ASSUME IInv, NEW w \in Workers, pc[w] \in {"release", "expose"}, at[w].copied = at[w].n
  PROVE  MovingOf(w) = Ring(buffer[w], tail[w], at[w].n)
<1>1. /\ TypeOK /\ tail[w] \in Idx /\ at[w].n \in Nat /\ at[w].from \in Workers
      /\ at[w].head.steal \in Idx
  BY Typed DEF IInv
<1>2. buffer[w] \in Rings /\ buffer[at[w].from] \in Rings
  BY <1>1 DEF TypeOK, Rings
<1>3. at[w].n <= Capacity \div 2
  BY DEF IInv, OwnKnown
<1>4. at[w].n \in 0 .. Indices
  BY <1>1, <1>3, Sizes
<1>5. Plus(at[w].head.steal, at[w].n) \in Idx
  BY <1>1, <1>4, PlusIs
<1>6. at[w].n - at[w].n = 0
  BY <1>1
<1>7. Ring(buffer[w], tail[w], at[w].n) \in Seq(Items)
  BY <1>1, <1>2, RingTyped
<1>8. MovingOf(w) = Ring(buffer[w], tail[w], at[w].n)
          \o Ring(buffer[at[w].from], Plus(at[w].head.steal, at[w].n), 0)
  BY <1>6, MovingIs
<1> QED
  BY <1>2, <1>5, <1>7, <1>8, RingNone

\* The others keep what they have in hand when w writes only free slots of its own
\* buffer and leaves the tails of the others alone.
LEMMA OthersMove ==
  ASSUME RInv, NEW w \in Workers, NEW b \in Rings,
         \A s \in 0 .. Capacity - 1 : Free(w, s) \/ b[s] = buffer[w][s],
         buffer' = [buffer EXCEPT ![w] = b],
         \A x \in Workers \ {w} : pc'[x] = pc[x] /\ at'[x] = at[x] /\ tail'[x] = tail[x]
  PROVE  \A x \in Workers \ {w} : MovingOf(x)' = MovingOf(x)
<1>1. IInv /\ TypeOK
  BY DEF RInv, IInv
<1>2. buffer'[w] = b /\ \A x \in Workers \ {w} : buffer'[x] = buffer[x]
  BY <1>1 DEF TypeOK
<1> SUFFICES ASSUME NEW x \in Workers \ {w} PROVE MovingOf(x)' = MovingOf(x)
  OBVIOUS
<1>3. pc'[x] = pc[x] /\ at'[x] = at[x] /\ tail'[x] = tail[x] /\ buffer'[x] = buffer[x]
  BY <1>2
<1>4. CASE pc[x] \in {"popRead", "overflowRead"}
  BY <1>3, <1>4, MovingIs, MovingWillBe
<1>5. CASE pc[x] = "copy"
  <2> DEFINE i == Plus(at[x].head.steal, at[x].copied)
             n == at[x].n - at[x].copied
             v == at[x].from
             p == Ring(buffer[x], tail[x], at[x].copied)
  <2>1. v \in Workers
    BY <1>1, Typed
  <2>2. MovingOf(x) = p \o Ring(buffer[v], i, n)
    BY <1>5, MovingIs
  <2>3. MovingOf(x)' = p \o Ring(buffer'[v], i, n)
    <3>1. pc'[x] \in {"copy", "release", "expose"}
      BY <1>3, <1>5
    <3>2. MovingOf(x)' = Ring(buffer'[x], tail'[x], at'[x].copied)
            \o Ring(buffer'[at'[x].from], Plus(at'[x].head.steal, at'[x].copied),
                    at'[x].n - at'[x].copied)
      BY <3>1, MovingWillBe
    <3> QED
      BY <1>3, <3>2
  <2>4. CASE v = w
    <3>1. Ring(b, i, n) = Ring(buffer[v], i, n)
      BY <1>1, <1>5, <2>4, WriteKeeps
    <3>2. buffer'[v] = b
      BY <1>2, <2>4
    <3> HIDE DEF i, n, p, v
    <3> QED
      BY <2>2, <2>3, <3>1, <3>2
  <2>5. CASE v # w
    <3>1. buffer'[v] = buffer[v]
      BY <1>2, <2>1, <2>5
    <3> QED
      BY <2>2, <2>3, <3>1
  <2> QED
    BY <2>4, <2>5
<1>6. CASE pc[x] \in {"release", "expose"}
  <2> DEFINE i == Plus(at[x].head.steal, at[x].copied)
             n == at[x].n - at[x].copied
             v == at[x].from
  <2>1. at[x].copied = at[x].n /\ at[x].n \in Nat
    BY <1>1, <1>6, Typed DEF RInv, Progress
  <2>2. n = 0
    BY <2>1
  <2>3. Ring(buffer[v], i, n) = Ring(buffer'[v], i, n)
    BY <2>2 DEF Ring
  <2>4. MovingOf(x) = Ring(buffer[x], tail[x], at[x].copied) \o Ring(buffer[v], i, n)
    BY <1>6, MovingIs
  <2>5. MovingOf(x)' = Ring(buffer[x], tail[x], at[x].copied) \o Ring(buffer'[v], i, n)
    BY <1>3, <1>6, MovingWillBe
  <2> QED
    BY <2>3, <2>4, <2>5
<1>7. CASE pc[x] \notin {"popRead", "overflowRead", "copy", "release", "expose"}
  BY <1>3, <1>7, MovingIs, MovingWillBe
<1> QED
  BY <1>4, <1>5, <1>6, <1>7


-----------------------------------------------------------------------------
(* What the steps are to the abstract state.                                   *)

Batching == {"popRead", "overflowRead", "copy", "release", "expose"}

\* The invariant of the refinement after a step of w, and the tasks not scheduled:
\* those that remain, or all but the one w had to push.
LEMMA TaskStep ==
  ASSUME RInv, IInv', NEW w \in Workers, NEW l \in Labels, NEW a \in Locals, Goto(w, l, a),
         next' = next,
         IF l \in Holding THEN pc[w] \in Holding /\ a.task = at[w].task ELSE a.task = NoTask,
         \A x \in Workers \ {w} : tail'[x] = tail[x] /\ buffer'[x] = buffer[x],
         Progress(w)'
  PROVE  /\ RInv' /\ pc'[w] = l /\ at'[w] = a
         /\ \A x \in Workers \ {w} : pc'[x] = pc[x] /\ at'[x] = at[x]
         /\ a.task = at[w].task => NotScheduled' = NotScheduled
         /\ pc[w] \in Holding /\ l \notin Holding =>
              at[w].task \in NotScheduled /\ NotScheduled' = NotScheduled \ {at[w].task}
<1>1. Held /\ pc \in [Workers -> Labels] /\ at \in [Workers -> Locals] /\ next \in Nat
  BY DEF RInv, IInv, TypeOK
<1>2. /\ pc'[w] = l /\ at'[w] = a
      /\ \A x \in Workers \ {w} : pc'[x] = pc[x] /\ at'[x] = at[x]
  BY <1>1 DEF Goto
<1>3. NoTask \notin Tasks
  BY StealQueueAssumption DEF Tasks
<1>4. Held'
  <2>1. ASSUME NEW x \in Workers
        PROVE  /\ at'[x].task = at[x].task \/ (x = w /\ at'[x].task = NoTask)
               /\ IF pc'[x] \in Holding THEN at'[x].task \in Tasks /\ at'[x].task < next
                                        ELSE at'[x].task = NoTask
    <3>0. /\ pc[x] \in Holding => at[x].task \in Tasks /\ at[x].task < next
          /\ pc[x] \notin Holding => at[x].task = NoTask
      BY <1>1 DEF Held
    <3>1. CASE x = w /\ l \in Holding
      <4>1. pc'[x] \in Holding /\ at'[x].task = at[x].task /\ pc[x] \in Holding
        BY <1>2, <3>1
      <4> QED
        BY <3>0, <4>1
    <3>2. CASE x = w /\ l \notin Holding
      <4>1. pc'[x] \notin Holding /\ at'[x].task = NoTask
        BY <1>2, <3>2
      <4> QED
        BY <3>2, <4>1
    <3>3. CASE x # w
      <4>1. pc'[x] = pc[x] /\ at'[x] = at[x]
        BY <1>2, <3>3
      <4> QED
        BY <3>0, <4>1
    <3> QED
      BY <3>1, <3>2, <3>3
  <2>2. ASSUME NEW u \in Workers, NEW x \in Workers,
               at'[u].task = at'[x].task, at'[u].task # NoTask
        PROVE  u = x
    <3>1. at[u].task = at[x].task /\ at[u].task # NoTask
      BY <2>1, <2>2
    <3> QED
      BY <1>1, <3>1 DEF Held
  <2> QED
    BY <2>1, <2>2 DEF Held
<1>5. ASSUME NEW x \in Workers PROVE Progress(x)'
  <2>1. CASE x = w
    BY <2>1
  <2>2. CASE x # w
    BY <1>2, <2>2 DEF RInv, Progress
  <2> QED
    BY <2>1, <2>2
<1>6. RInv'
  BY <1>4, <1>5 DEF RInv
<1>7. ASSUME a.task = at[w].task PROVE NotScheduled' = NotScheduled
  <2>1. \A x \in Workers : at'[x].task = at[x].task
    BY <1>2, <1>7
  <2> QED
    BY <2>1 DEF NotScheduled
<1>8. ASSUME pc[w] \in Holding, l \notin Holding
      PROVE  at[w].task \in NotScheduled /\ NotScheduled' = NotScheduled \ {at[w].task}
  <2>1. at[w].task \in Tasks /\ at[w].task < next /\ at[w].task # NoTask /\ a.task = NoTask
    BY <1>1, <1>3, <1>8 DEF Held
  <2>2. at[w].task \in NotScheduled
    BY <2>1 DEF NotScheduled
  <2>3. \A t \in Tasks : t >= next => t # at[w].task
    BY <1>1, <2>1 DEF Tasks
  <2>4. \A x \in Workers \ {w} : at[x].task = at[w].task => FALSE
    BY <1>1, <2>1 DEF Held
  <2>5. ASSUME NEW t, t \in NotScheduled' PROVE t \in NotScheduled \ {at[w].task}
    <3>1. CASE t \in Tasks /\ t >= next
      BY <2>3, <3>1 DEF NotScheduled
    <3>2. CASE t # NoTask /\ \E x \in Workers : t = at'[x].task
      <4>1. PICK x \in Workers : t = at'[x].task
        BY <3>2
      <4>2. x # w
        BY <1>2, <2>1, <3>2, <4>1
      <4>3. t = at[x].task /\ t # at[w].task
        BY <1>2, <2>4, <4>1, <4>2
      <4> QED
        BY <3>2, <4>3 DEF NotScheduled
    <3> QED
      BY <2>5, <3>1, <3>2 DEF NotScheduled
  <2>6. ASSUME NEW t, t \in NotScheduled, t # at[w].task PROVE t \in NotScheduled'
    <3>1. CASE t \in Tasks /\ t >= next
      BY <3>1 DEF NotScheduled
    <3>2. CASE t # NoTask /\ \E x \in Workers : t = at[x].task
      <4>1. PICK x \in Workers : t = at[x].task
        BY <3>2
      <4>2. x # w /\ t = at'[x].task
        BY <1>2, <2>6, <4>1
      <4> QED
        BY <3>2, <4>2 DEF NotScheduled
    <3> QED
      BY <2>6, <3>1, <3>2 DEF NotScheduled
  <2> QED
    BY <2>2, <2>5, <2>6
<1> QED
  BY <1>2, <1>6, <1>7, <1>8

LEMMA QueueSame ==
  ASSUME NEW x \in Workers, head'[x].real = head[x].real, tail'[x] = tail[x],
         buffer'[x] = buffer[x]
  PROVE  QueueOf(x)' = QueueOf(x)
BY QueueIs DEF Behind

\* Nothing happens to the queues.
LEMMA Quiet ==
  ASSUME RInv, NEW w \in Workers, NEW b \in Rings,
         \A s \in 0 .. Capacity - 1 : Free(w, s) \/ b[s] = buffer[w][s],
         buffer' = [buffer EXCEPT ![w] = b], tail' = tail, inject' = inject,
         \A x \in Workers : head'[x].real = head[x].real,
         \A x \in Workers \ {w} : pc'[x] = pc[x] /\ at'[x] = at[x],
         NotScheduled' = NotScheduled, MovingOf(w)' = MovingOf(w)
  PROVE  UNCHANGED Q!vars
<1>1. IInv /\ buffer \in [Workers -> Rings]
  BY DEF RInv, IInv, TypeOK, Rings
<1>2. buffer'[w] = b /\ \A x \in Workers \ {w} : buffer'[x] = buffer[x]
  BY <1>1
<1>3. QueueOf(w)' = QueueOf(w)
  <2>1. QueueOf(w)' = Ring(b, head[w].real, Behind(w, head[w].real))
    BY <1>2, QueueIs DEF Behind
  <2> QED
    BY <1>1, <2>1, QueueIs, WriteKeeps
<1>4. \A x \in Workers : QueueOf(x)' = QueueOf(x)
  BY <1>2, <1>3, QueueSame
<1>5. \A x \in Workers : MovingOf(x)' = MovingOf(x)
  BY OthersMove
<1>6. Queues' = Queues /\ Movings' = Movings
  BY <1>4, <1>5 DEF Queues, Movings
<1> QED
  BY <1>6 DEF Q!vars, Queues, Movings

\* A buffer that is not written.
LEMMA NotWritten ==
  ASSUME TypeOK, NEW w \in Workers
  PROVE  /\ buffer[w] \in Rings /\ buffer = [buffer EXCEPT ![w] = buffer[w]]
         /\ \A s \in 0 .. Capacity - 1 : Free(w, s) \/ buffer[w][s] = buffer[w][s]
BY DEF TypeOK, Rings

\* A step that is only about w's own locals.
LEMMA QuietLocals ==
  ASSUME RInv, IInv', NEW w \in Workers, NEW l \in Labels, NEW a \in Locals, Goto(w, l, a),
         pc[w] \notin Batching, l \notin Batching, a.task = at[w].task,
         l \in Holding <=> pc[w] \in Holding, Progress(w)',
         head' = head, tail' = tail, buffer' = buffer, inject' = inject, next' = next
  PROVE  RInv' /\ UNCHANGED Q!vars
<1>1. TypeOK /\ Held
  BY DEF RInv, IInv
<1>2. IF l \in Holding THEN pc[w] \in Holding /\ a.task = at[w].task ELSE a.task = NoTask
  BY <1>1 DEF Held
<1>3. /\ RInv' /\ pc'[w] = l /\ NotScheduled' = NotScheduled
      /\ \A x \in Workers \ {w} : pc'[x] = pc[x] /\ at'[x] = at[x]
  BY <1>2, TaskStep
<1>4. MovingOf(w) = << >> /\ MovingOf(w)' = << >>
  BY <1>3, MovingIs, MovingWillBe DEF Batching
<1>5. UNCHANGED Q!vars
  BY <1>1, <1>3, <1>4, NotWritten, Quiet
<1> QED
  BY <1>3, <1>5


\* Between the index i and the tail there are Minus(t, i) steps.
LEMMA UpToTail ==
  ASSUME NEW t \in Idx, NEW i \in Idx
  PROVE  Plus(i, Minus(t, i)) = t
<1>1. Minus(t, i) \in 0 .. Indices /\ Indices \in Nat
  BY MinusIs, Sizes DEF Idx
<1>2. Plus(i, Minus(t, i)) = IF i + Minus(t, i) < Indices THEN i + Minus(t, i)
                                                         ELSE i + Minus(t, i) - Indices
  BY <1>1, PlusIs
<1>3. Minus(t, i) = IF t >= i THEN t - i ELSE t - i + Indices
  BY MinusIs
<1>4. t \in 0 .. Indices - 1 /\ i \in 0 .. Indices - 1
  BY DEF Idx
<1> QED
  BY <1>1, <1>2, <1>3, <1>4

\* The queue of v when n of its tasks are taken.
LEMMA Taken ==
  ASSUME IInv, NEW v \in Workers, NEW n \in Nat, n <= Behind(v, head[v].real),
         head'[v].real = Plus(head[v].real, n), tail'[v] = tail[v], buffer'[v] = buffer[v]
  PROVE  /\ Len(QueueOf(v)) = Behind(v, head[v].real)
         /\ Q!First(QueueOf(v), n) = Ring(buffer[v], head[v].real, n)
         /\ QueueOf(v)' = Q!Rest(QueueOf(v), n)
<1> DEFINE i == head[v].real
           m == Behind(v, i)
<1>1. /\ buffer[v] \in Rings /\ i \in Idx /\ tail[v] \in Idx /\ m \in Nat /\ m < Indices
  BY Typed, BehindTyped DEF IInv, TypeOK, Rings
<1>2. Len(Ring(buffer[v], i, m)) = m
  BY <1>1, RingTyped
<1>3. Behind(v, Plus(i, n)) = m - n
  BY <1>1, HeadAhead DEF Behind
<1>4. QueueOf(v) = Ring(buffer[v], i, m)
  BY QueueIs
<1>5. QueueOf(v)' = Ring(buffer[v], Plus(i, n), m - n)
  BY <1>3, QueueIs DEF Behind
<1> HIDE DEF m, i
<1>6. /\ Q!First(Ring(buffer[v], i, m), n) = Ring(buffer[v], i, n)
      /\ Q!Rest(Ring(buffer[v], i, m), n) = Ring(buffer[v], Plus(i, n), m - n)
  <2>1. n <= m
    BY DEF m, i
  <2> QED
    BY <1>1, <2>1, RingSplit
<1> QED
  BY <1>2, <1>4, <1>5, <1>6 DEF m, i

\* w takes the first n tasks of the queue of v.
LEMMA TakeStep ==
  ASSUME RInv, NEW w \in Workers, NEW v \in Workers, NEW n \in Nat \ {0},
         n <= Behind(v, head[v].real),
         v # w => n <= HalfOf(Behind(v, head[v].real)),
         head'[v].real = Plus(head[v].real, n),
         \A x \in Workers \ {v} : head'[x].real = head[x].real,
         tail' = tail, buffer' = buffer, inject' = inject, NotScheduled' = NotScheduled,
         \A x \in Workers \ {w} : pc'[x] = pc[x] /\ at'[x] = at[x],
         MovingOf(w) = << >>, MovingOf(w)' = Ring(buffer[v], head[v].real, n)
  PROVE  Q!Take(w, v)
<1>1. IInv /\ TypeOK
  BY DEF RInv, IInv
<1>2. /\ Len(QueueOf(v)) = Behind(v, head[v].real)
      /\ Q!First(QueueOf(v), n) = Ring(buffer[v], head[v].real, n)
      /\ QueueOf(v)' = Q!Rest(QueueOf(v), n)
  BY <1>1, Taken
<1>3. \A x \in Workers \ {v} : QueueOf(x)' = QueueOf(x)
  BY QueueSame
<1>4. \A x \in Workers \ {w} : MovingOf(x)' = MovingOf(x)
  BY <1>1, NotWritten, OthersMove
<1>5. Queues' = [Queues EXCEPT ![v] = Q!Rest(@, n)]
  BY <1>2, <1>3 DEF Queues
<1>6. Movings' = [Movings EXCEPT ![w] = Q!First(Queues[v], n)]
  BY <1>2, <1>4 DEF Queues, Movings
<1>7. Behind(v, head[v].real) \in Nat
  BY <1>1, Typed, BehindTyped
<1>8. /\ n \in 1 .. Len(Queues[v]) /\ Movings[w] = << >>
      /\ v # w => n <= Len(Queues[v]) - Len(Queues[v]) \div 2
  BY <1>2, <1>7 DEF Queues, Movings, HalfOf
<1> QED
  BY <1>5, <1>6, <1>8 DEF Q!Take, Queues, Movings

\* The queue of w when its tail takes in k free slots.
LEMMA Joined ==
  ASSUME IInv, NEW w \in Workers, NEW b \in Rings, NEW k \in Nat,
         \A s \in 0 .. Capacity - 1 : Free(w, s) \/ b[s] = buffer[w][s],
         Behind(w, head[w].steal) + k <= Capacity,
         head'[w] = head[w], tail'[w] = Plus(tail[w], k), buffer'[w] = b
  PROVE  QueueOf(w)' = QueueOf(w) \o Ring(b, tail[w], k)
<1> DEFINE i == head[w].real
           m == Behind(w, i)
<1>1. /\ i \in Idx /\ tail[w] \in Idx /\ m \in Nat /\ m <= Behind(w, head[w].steal)
      /\ Behind(w, head[w].steal) \in Nat /\ Capacity \in Nat /\ Capacity < Indices
      /\ Indices \in Nat
  BY Typed, BehindTyped, Sizes DEF IInv, Ordered
<1>2. m + k < Indices
  BY <1>1
<1>3. Minus(Plus(tail[w], k), i) = m + k
  BY <1>1, <1>2, TailAhead DEF Behind
<1>4. QueueOf(w)' = Ring(b, i, m + k)
  BY <1>3, QueueIs
<1>5. QueueOf(w) = Ring(b, i, m)
  BY QueueIs, WriteKeeps
<1>6. Plus(i, m) = tail[w]
  BY <1>1, UpToTail DEF Behind
<1> HIDE DEF m, i
<1>7. Ring(b, i, m + k) = Ring(b, i, m) \o Ring(b, Plus(i, m), (m + k) - m)
  <2> DEFINE n == m + k
  <2>1. n \in Nat /\ m <= n /\ n < Indices /\ m \in Nat /\ i \in Idx
    BY <1>1, <1>2
  <2> HIDE DEF n
  <2>2. Ring(b, i, n) = Ring(b, i, m) \o Ring(b, Plus(i, m), n - m)
    BY <2>1, RingConcat
  <2> QED
    BY <2>2 DEF n
<1>8. (m + k) - m = k
  BY <1>1
<1> QED
  BY <1>4, <1>5, <1>6, <1>7, <1>8

\* The others when w adds to its queue.
LEMMA OthersStay ==
  ASSUME RInv, NEW w \in Workers, NEW b \in Rings,
         \A s \in 0 .. Capacity - 1 : Free(w, s) \/ b[s] = buffer[w][s],
         buffer' = [buffer EXCEPT ![w] = b], head' = head,
         \A x \in Workers \ {w} : pc'[x] = pc[x] /\ at'[x] = at[x] /\ tail'[x] = tail[x]
  PROVE  /\ buffer'[w] = b
         /\ \A x \in Workers \ {w} : QueueOf(x)' = QueueOf(x) /\ MovingOf(x)' = MovingOf(x)
         /\ Queues' = [Queues EXCEPT ![w] = QueueOf(w)']
         /\ Movings' = [Movings EXCEPT ![w] = MovingOf(w)']
<1>1. buffer \in [Workers -> Rings]
  BY DEF RInv, IInv, TypeOK, Rings
<1>2. buffer'[w] = b /\ \A x \in Workers \ {w} : buffer'[x] = buffer[x]
  BY <1>1
<1>3. \A x \in Workers \ {w} : QueueOf(x)' = QueueOf(x)
  BY <1>2, QueueSame
<1>4. \A x \in Workers \ {w} : MovingOf(x)' = MovingOf(x)
  BY OthersMove
<1> QED
  BY <1>2, <1>3, <1>4 DEF Queues, Movings


-----------------------------------------------------------------------------
(* The steps again, each to a step of RunQueues or to none.                    *)

LEMMA ScheduleMaps == ASSUME RInv, NEW w \in Workers, Schedule(w) PROVE RInv' /\ UNCHANGED Q!vars
<1> DEFINE a == [Nothing(w) EXCEPT !.task = next]
<1>1. /\ IInv /\ TypeOK /\ Held /\ pc[w] = "idle" /\ next \in Tasks /\ next' = next + 1
      /\ Goto(w, "push", a) /\ head' = head /\ tail' = tail /\ buffer' = buffer
      /\ inject' = inject
  BY DEF Schedule, RInv, IInv
<1>2. IInv'
  BY <1>1, ScheduleStep
<1>3. a.task = next
  BY DEF Nothing
<1>4. /\ pc'[w] = "push" /\ at'[w].task = next
      /\ \A x \in Workers \ {w} : pc'[x] = pc[x] /\ at'[x] = at[x]
  BY <1>1, <1>3 DEF Goto, TypeOK
<1>5. at[w].task = NoTask /\ NoTask \notin Tasks /\ next \in Nat /\ NoTask \notin Nat
  BY <1>1, StealQueueAssumption DEF Held, Holding, Tasks
<1>6. Held'
  <2>1. ASSUME NEW x \in Workers \ {w}
        PROVE  IF pc'[x] \in Holding THEN at'[x].task \in Tasks /\ at'[x].task < next'
                                     ELSE at'[x].task = NoTask
    <3>1. /\ pc[x] \in Holding => at[x].task \in Tasks /\ at[x].task < next
          /\ pc[x] \notin Holding => at[x].task = NoTask
      BY <1>1 DEF Held
    <3>2. at[x].task \in Tasks /\ at[x].task < next => at[x].task < next + 1
      BY <1>5 DEF Tasks
    <3> QED
      BY <1>1, <1>4, <3>1, <3>2
  <2>2. pc'[w] \in Holding /\ at'[w].task \in Tasks /\ at'[w].task < next'
    BY <1>1, <1>4, <1>5 DEF Holding
  <2>3. \A x \in Workers \ {w} : at'[x].task # next
    <3>1. SUFFICES ASSUME NEW x \in Workers \ {w}, at[x].task = next PROVE FALSE
      BY <1>4
    <3>2. at[x].task \in Tasks /\ at[x].task < next
      BY <1>1, <1>5, <3>1 DEF Held
    <3> QED
      BY <1>5, <3>1, <3>2
  <2>4. ASSUME NEW u \in Workers, NEW x \in Workers,
               at'[u].task = at'[x].task, at'[u].task # NoTask
        PROVE  u = x
    <3>1. CASE u = w \/ x = w
      BY <1>4, <2>3, <2>4, <3>1
    <3>2. CASE u # w /\ x # w
      BY <1>1, <1>4, <2>4, <3>2 DEF Held
    <3> QED
      BY <3>1, <3>2
  <2>5. \A x \in Workers : IF pc'[x] \in Holding THEN at'[x].task \in Tasks /\ at'[x].task < next'
                                                  ELSE at'[x].task = NoTask
    BY <2>1, <2>2
  <2> QED
    BY <2>4, <2>5 DEF Held
<1>7. ASSUME NEW x \in Workers PROVE Progress(x)'
  <2>1. CASE x = w
    BY <1>4, <2>1 DEF Progress
  <2>2. CASE x # w
    BY <1>1, <1>4, <2>2 DEF RInv, Progress
  <2> QED
    BY <2>1, <2>2
<1>8. NotScheduled' = NotScheduled
  <2>1. ASSUME NEW t, t \in NotScheduled' PROVE t \in NotScheduled
    <3>1. CASE t \in Tasks /\ t >= next + 1
      BY <1>5, <3>1 DEF NotScheduled, Tasks
    <3>2. CASE t # NoTask /\ \E x \in Workers : t = at'[x].task
      <4>1. PICK x \in Workers : t = at'[x].task
        BY <3>2
      <4>2. CASE x = w
        BY <1>1, <1>4, <1>5, <4>1, <4>2 DEF NotScheduled
      <4>3. CASE x # w
        BY <1>4, <3>2, <4>1, <4>3 DEF NotScheduled
      <4> QED
        BY <4>2, <4>3
    <3> QED
      BY <1>1, <2>1, <3>1, <3>2 DEF NotScheduled
  <2>2. ASSUME NEW t, t \in NotScheduled PROVE t \in NotScheduled'
    <3>1. CASE t \in Tasks /\ t >= next
      <4>1. t = next \/ t >= next + 1
        BY <1>5, <3>1 DEF Tasks
      <4>2. CASE t = next
        BY <1>4, <1>5, <4>2 DEF NotScheduled
      <4>3. CASE t >= next + 1
        BY <1>1, <3>1, <4>3 DEF NotScheduled
      <4> QED
        BY <4>1, <4>2, <4>3
    <3>2. CASE t # NoTask /\ \E x \in Workers : t = at[x].task
      <4>1. PICK x \in Workers : t = at[x].task
        BY <3>2
      <4>2. x # w /\ t = at'[x].task
        BY <1>4, <1>5, <3>2, <4>1
      <4> QED
        BY <3>2, <4>2 DEF NotScheduled
    <3> QED
      BY <2>2, <3>1, <3>2 DEF NotScheduled
  <2> QED
    BY <2>1, <2>2
<1>9. MovingOf(w) = << >> /\ MovingOf(w)' = << >>
  BY <1>1, <1>4, MovingIs, MovingWillBe
<1>10. UNCHANGED Q!vars
  BY <1>1, <1>4, <1>8, <1>9, NotWritten, Quiet
<1> QED
  BY <1>2, <1>6, <1>7, <1>10 DEF RInv

\* A call that returns is at no work.
LEMMA ReturnProgress ==
  ASSUME TypeOK, NEW w \in Workers, Return(w)
  PROVE  /\ Progress(w)' /\ "idle" \notin Holding /\ "idle" \notin Batching
         /\ Nothing(w).task = NoTask /\ MovingOf(w)' = << >>
<1>1. pc'[w] = "idle"
  BY DEF Return, Goto, TypeOK
<1>2. MovingOf(w)' = << >>
  BY <1>1, MovingWillBe
<1> QED
  BY <1>1, <1>2 DEF Progress, Holding, Batching, Nothing

\* An overflow: the task of w and what it has in hand are injected.
LEMMA InjectStep ==
  ASSUME RInv, IInv', NEW w \in Workers, pc[w] \in {"push", "overflowRead"}, Return(w),
         inject' = Append(inject \o MovingOf(w), at[w].task),
         head' = head, tail' = tail, buffer' = buffer, next' = next
  PROVE  RInv' /\ Q!Overflow(w)
<1>1. IInv /\ TypeOK
  BY DEF RInv, IInv
<1>2. /\ Goto(w, "idle", Nothing(w)) /\ Nothing(w) \in Locals /\ "idle" \in Labels
      /\ Nothing(w).task = NoTask /\ "idle" \notin Holding /\ Progress(w)' /\ MovingOf(w)' = << >>
  BY <1>1, ReturnKnown, ReturnProgress
<1>3. pc[w] \in Holding
  BY DEF Holding
<1>4. /\ RInv' /\ at[w].task \in NotScheduled /\ NotScheduled' = NotScheduled \ {at[w].task}
      /\ \A x \in Workers \ {w} : pc'[x] = pc[x] /\ at'[x] = at[x]
  BY <1>2, <1>3, TaskStep
<1>5. /\ \A x \in Workers \ {w} : MovingOf(x)' = MovingOf(x)
  BY <1>1, <1>4, NotWritten, OthersMove
<1>6. \A x \in Workers : QueueOf(x)' = QueueOf(x)
  BY QueueSame
<1>7. Queues' = Queues /\ Movings' = [Movings EXCEPT ![w] = << >>]
  BY <1>2, <1>5, <1>6 DEF Queues, Movings
<1>8. inject' = Append(inject \o Movings[w], at[w].task)
  BY DEF Movings
<1>9. Q!Overflow(w)
  BY <1>4, <1>7, <1>8 DEF Q!Overflow, Queues, Movings
<1> QED
  BY <1>4, <1>9

LEMMA PushLoadMaps ==
  ASSUME RInv, NEW w \in Workers, PushLoad(w)
  PROVE  RInv' /\ (UNCHANGED Q!vars \/ Q!Overflow(w))
<1> DEFINE h == head[w]
           a == [at[w] EXCEPT !.head = h]
<1>1. /\ IInv /\ TypeOK /\ pc[w] = "push" /\ pc[w] \in Holding /\ pc[w] \notin Batching
      /\ head' = head /\ tail' = tail /\ buffer' = buffer /\ next' = next
  BY DEF PushLoad, RInv, IInv, Holding, Batching
<1>2. IInv' /\ at[w] \in Locals /\ h \in Heads /\ MovingOf(w) = << >> /\ inject \in Seq(Items)
  BY <1>1, PushLoadStep, Typed, MovingIs DEF Batching, TypeOK
<1>3. CASE Goto(w, "pushWrite", at[w]) /\ inject' = inject
  <2>1. pc'[w] = "pushWrite" /\ "pushWrite" \in Labels /\ "pushWrite" \in Holding
        /\ "pushWrite" \notin Batching
    BY <1>1, <1>3 DEF Goto, TypeOK, Labels, Holding, Batching
  <2>2. Progress(w)'
    BY <2>1 DEF Progress
  <2> QED
    BY <1>1, <1>2, <1>3, <2>1, <2>2, QuietLocals
<1>4. CASE inject' = Append(inject, at[w].task) /\ Return(w)
  <2>1. inject \o MovingOf(w) = inject
    BY <1>2, ConcatEmptySeq
  <2> QED
    BY <1>1, <1>2, <1>4, <2>1, InjectStep
<1>5. CASE Goto(w, "overflow", [at[w] EXCEPT !.head = h]) /\ inject' = inject
  <2>1. pc'[w] = "overflow" /\ "overflow" \in Labels /\ "overflow" \in Holding
        /\ "overflow" \notin Batching
    BY <1>1, <1>5 DEF Goto, TypeOK, Labels, Holding, Batching
  <2>2. Progress(w)'
    BY <2>1 DEF Progress
  <2>3. a \in Locals /\ a.task = at[w].task
    BY <1>2 DEF Locals
  <2> QED
    BY <1>1, <1>2, <1>5, <2>1, <2>2, <2>3, QuietLocals
<1> QED
  BY <1>3, <1>4, <1>5 DEF PushLoad

\* A write of w to a free slot.
Written(w, c, t) == [buffer[w] EXCEPT ![Slot(Plus(tail[w], c))] = t]

LEMMA WriteFree ==
  ASSUME IInv, NEW w \in Workers, NEW c \in Nat, Behind(w, head[w].steal) + c < Capacity,
         NEW t \in Items
  PROVE  /\ Written(w, c, t) \in Rings /\ Written(w, c, t)[Slot(Plus(tail[w], c))] = t
         /\ \A s \in 0 .. Capacity - 1 :
              s # Slot(Plus(tail[w], c)) => Written(w, c, t)[s] = buffer[w][s]
         /\ \A s \in 0 .. Capacity - 1 : Free(w, s) \/ Written(w, c, t)[s] = buffer[w][s]
<1>1. /\ buffer[w] \in Rings /\ tail[w] \in Idx
  BY Typed DEF IInv, TypeOK, Rings
<1> DEFINE p == Slot(Plus(tail[w], c))
<1>2. p \in 0 .. Capacity - 1
  BY <1>1, SlotTyped
<1>3. Free(w, p)
  BY DEF Free
<1>4. Written(w, c, t) = [buffer[w] EXCEPT ![p] = t]
  BY DEF Written
<1> HIDE DEF p
<1>5. /\ Written(w, c, t) \in Rings /\ Written(w, c, t)[p] = t
      /\ \A s \in 0 .. Capacity - 1 : s # p => Written(w, c, t)[s] = buffer[w][s]
  BY <1>1, <1>2, <1>4 DEF Rings
<1> QED
  BY <1>3, <1>5 DEF p

LEMMA PushWriteMaps ==
  ASSUME RInv, NEW w \in Workers, PushWrite(w)
  PROVE  RInv' /\ UNCHANGED Q!vars
<1>1. /\ IInv /\ TypeOK /\ pc[w] = "pushWrite" /\ pc[w] \in Holding
      /\ Goto(w, "pushTail", at[w])
      /\ buffer' = [buffer EXCEPT ![w][Slot(tail[w])] = at[w].task]
      /\ head' = head /\ tail' = tail /\ inject' = inject /\ next' = next
  BY DEF PushWrite, RInv, IInv, Holding
<1>2. /\ IInv' /\ at[w] \in Locals /\ at[w].task \in Items /\ tail[w] \in Idx
      /\ Behind(w, head[w].steal) \in Nat
  BY <1>1, PushWriteStep, Typed, BehindTyped
<1>3. Behind(w, head[w].steal) + 0 < Capacity
  BY <1>1, <1>2 DEF IInv, OwnKnown
<1>4. Plus(tail[w], 0) = tail[w]
  BY <1>2, PlusIs, Sizes DEF Idx
<1> DEFINE b == Written(w, 0, at[w].task)
<1>5. /\ b \in Rings /\ b[Slot(Plus(tail[w], 0))] = at[w].task
      /\ \A s \in 0 .. Capacity - 1 : Free(w, s) \/ b[s] = buffer[w][s]
  BY <1>1, <1>2, <1>3, WriteFree
<1>6. buffer' = [buffer EXCEPT ![w] = b] /\ buffer'[w] = b
  BY <1>1, <1>4 DEF TypeOK, Written
<1> HIDE DEF b
<1>7. pc'[w] = "pushTail" /\ at'[w] = at[w] /\ "pushTail" \in Labels /\ "pushTail" \in Holding
  BY <1>1 DEF Goto, TypeOK, Labels, Holding
<1>8. Progress(w)'
  BY <1>1, <1>4, <1>5, <1>6, <1>7 DEF Progress
<1>9. \A x \in Workers \ {w} : tail'[x] = tail[x] /\ buffer'[x] = buffer[x]
  BY <1>1 DEF TypeOK
<1>10. /\ RInv' /\ NotScheduled' = NotScheduled
       /\ \A x \in Workers \ {w} : pc'[x] = pc[x] /\ at'[x] = at[x]
  BY <1>1, <1>2, <1>7, <1>8, <1>9, TaskStep
<1>11. MovingOf(w) = << >> /\ MovingOf(w)' = << >>
  BY <1>1, <1>7, MovingIs, MovingWillBe
<1>12. UNCHANGED Q!vars
  BY <1>1, <1>5, <1>6, <1>10, <1>11, Quiet
<1> QED
  BY <1>10, <1>12


\* The end of a call that adds tasks to w's queue: the tail takes in k more.
LEMMA PushTailMaps ==
  ASSUME RInv, NEW w \in Workers, PushTail(w)
  PROVE  RInv' /\ Q!Push(w)
<1>1. /\ IInv /\ TypeOK /\ pc[w] = "pushTail" /\ pc[w] \in Holding /\ Return(w)
      /\ tail' = [tail EXCEPT ![w] = Plus(@, 1)]
      /\ head' = head /\ buffer' = buffer /\ inject' = inject /\ next' = next
  BY DEF PushTail, RInv, IInv, Holding
<1>2. /\ IInv' /\ tail[w] \in Idx /\ Behind(w, head[w].steal) \in Nat /\ at[w].task \in Items
      /\ buffer[w] \in Rings
  BY <1>1, PushTailStep, Typed, BehindTyped, NotWritten
<1>3. Behind(w, head[w].steal) + 1 <= Capacity
  <2>1. Behind(w, head[w].steal) < Capacity
    BY <1>1 DEF IInv, OwnKnown
  <2> QED
    BY <1>2, <2>1, Sizes
<1>4. tail'[w] = Plus(tail[w], 1) /\ \A x \in Workers \ {w} : tail'[x] = tail[x]
  BY <1>1 DEF TypeOK
<1>5. /\ Goto(w, "idle", Nothing(w)) /\ Nothing(w) \in Locals /\ "idle" \in Labels
      /\ Nothing(w).task = NoTask /\ "idle" \notin Holding /\ Progress(w)' /\ MovingOf(w)' = << >>
  BY <1>1, ReturnKnown, ReturnProgress
<1>6. /\ RInv' /\ at[w].task \in NotScheduled /\ NotScheduled' = NotScheduled \ {at[w].task}
      /\ \A x \in Workers \ {w} : pc'[x] = pc[x] /\ at'[x] = at[x]
  BY <1>1, <1>2, <1>4, <1>5, TaskStep
<1>7. QueueOf(w)' = Append(QueueOf(w), at[w].task)
  <2>1. QueueOf(w)' = QueueOf(w) \o Ring(buffer[w], tail[w], 1)
    BY <1>1, <1>2, <1>3, <1>4, NotWritten, Joined
  <2>4. buffer[w][Slot(tail[w])] = at[w].task
    BY <1>1 DEF RInv, Progress
  <2>5. Ring(buffer[w], tail[w], 1) = << at[w].task >>
    BY <1>2, <2>4, RingOne
  <2>6. QueueOf(w) \in Seq(Items)
    <3>1. head[w].real \in Idx /\ Behind(w, head[w].real) \in Nat
      BY <1>1, Typed, BehindTyped
    <3> QED
      BY <1>2, <3>1, QueueIs, RingTyped
  <2> QED
    BY <1>2, <2>1, <2>5, <2>6, AppendIsConcat
<1>8. MovingOf(w) = << >>
  BY <1>1, MovingIs
<1>9. /\ Queues' = [Queues EXCEPT ![w] = QueueOf(w)']
      /\ Movings' = [Movings EXCEPT ![w] = MovingOf(w)']
  BY <1>1, <1>2, <1>4, <1>6, NotWritten, OthersStay
<1>10. Queues' = [Queues EXCEPT ![w] = Append(@, at[w].task)]
  BY <1>7, <1>9 DEF Queues
<1>11. Movings' = Movings
  BY <1>5, <1>8, <1>9 DEF Movings
<1>12. Q!Push(w)
  BY <1>1, <1>6, <1>10, <1>11 DEF Q!Push, Queues, Movings
<1> QED
  BY <1>6, <1>12

LEMMA OverflowCasMaps ==
  ASSUME RInv, NEW w \in Workers, OverflowCas(w)
  PROVE  RInv' /\ (UNCHANGED Q!vars \/ Q!Take(w, w))
<1> DEFINE h == at[w].head
           n == Capacity \div 2
           a == [at[w] EXCEPT !.n = n]
           half == Plus(h.real, n)
<1>1. /\ IInv /\ TypeOK /\ pc[w] = "overflow" /\ pc[w] \in Holding /\ pc[w] \notin Batching
      /\ tail' = tail /\ buffer' = buffer /\ inject' = inject /\ next' = next
  BY DEF OverflowCas, RInv, IInv, Holding, Batching
<1>2. IInv' /\ at[w] \in Locals /\ head \in [Workers -> Heads] /\ MovingOf(w) = << >>
  BY <1>1, OverflowCasStep, Typed, MovingIs DEF TypeOK
<1>3. CASE /\ head[w] = h /\ head' = [head EXCEPT ![w] = pack(half, half)]
           /\ Goto(w, "overflowRead", [at[w] EXCEPT !.n = Capacity \div 2])
  <2>1. /\ a \in Locals /\ a.task = at[w].task /\ a.head = h /\ a.n = n
    BY <1>2, Sizes DEF Locals
  <2>2. n \in Nat \ {0} /\ n <= Behind(w, head[w].real)
    BY <1>1, <1>3, Sizes DEF IInv, OwnKnown
  <2> HIDE DEF a
  <2>3. Goto(w, "overflowRead", a)
    BY <1>3 DEF a
  <2>4. pc'[w] = "overflowRead" /\ at'[w] = a /\ "overflowRead" \in Labels
        /\ "overflowRead" \in Holding
    BY <1>1, <2>3 DEF Goto, TypeOK, Labels, Holding
  <2>5. Progress(w)'
    BY <2>4 DEF Progress
  <2>6. /\ RInv' /\ NotScheduled' = NotScheduled
        /\ \A x \in Workers \ {w} : pc'[x] = pc[x] /\ at'[x] = at[x]
    BY <1>1, <1>2, <2>1, <2>3, <2>4, <2>5, TaskStep
  <2>7. /\ head'[w].real = Plus(head[w].real, n)
        /\ \A x \in Workers \ {w} : head'[x].real = head[x].real
    BY <1>2, <1>3 DEF pack
  <2>8. MovingOf(w)' = Ring(buffer[w], head[w].real, n)
    BY <1>1, <1>3, <2>1, <2>4, MovingWillBe
  <2> HIDE DEF n
  <2>9. Q!Take(w, w)
    BY <1>1, <1>2, <2>2, <2>6, <2>7, <2>8, TakeStep
  <2> QED
    BY <2>6, <2>9
<1>4. CASE Goto(w, "push", at[w]) /\ head' = head
  <2>1. pc'[w] = "push" /\ "push" \in Labels /\ "push" \in Holding /\ "push" \notin Batching
    BY <1>1, <1>4 DEF Goto, TypeOK, Labels, Holding, Batching
  <2>2. Progress(w)'
    BY <2>1 DEF Progress
  <2> QED
    BY <1>1, <1>2, <1>4, <2>1, <2>2, QuietLocals
<1> QED
  BY <1>3, <1>4 DEF OverflowCas

LEMMA OverflowReadMaps ==
  ASSUME RInv, NEW w \in Workers, OverflowRead(w)
  PROVE  RInv' /\ Q!Overflow(w)
<1>1. /\ IInv /\ pc[w] = "overflowRead" /\ Return(w)
      /\ head' = head /\ tail' = tail /\ buffer' = buffer /\ next' = next
      /\ inject' = Append(inject \o Batch(w, at[w].head.real, at[w].n), at[w].task)
  BY DEF OverflowRead, RInv
<1>2. IInv'
  BY <1>1, OverflowReadStep
<1>3. MovingOf(w) = Batch(w, at[w].head.real, at[w].n)
  BY <1>1 DEF MovingOf
<1> QED
  BY <1>1, <1>2, <1>3, InjectStep

LEMMA PopTryMaps ==
  ASSUME RInv, IInv', NEW w \in Workers, PopTry(w, head[w]), pc[w] \in {"idle", "pop"},
         head' = head, tail' = tail, buffer' = buffer, inject' = inject, next' = next
  PROVE  RInv' /\ UNCHANGED Q!vars
<1> DEFINE a == [Nothing(w) EXCEPT !.head = head[w], !.n = 1]
<1>1. TypeOK /\ pc[w] \notin Batching /\ pc[w] \notin Holding /\ at[w].task = NoTask
  BY DEF RInv, IInv, Batching, Holding, Held
<1>2. CASE Return(w)
  BY <1>1, <1>2, ReturnKnown, ReturnProgress, QuietLocals
<1>3. CASE Goto(w, "pop", a)
  <2>1. a.task = NoTask /\ a.n = 1 /\ a \in Locals
    <3>1. head[w] \in Heads
      BY <1>1, Typed
    <3> QED
      BY <3>1 DEF Nothing, Locals, Items
  <2> HIDE DEF a
  <2>2. pc'[w] = "pop" /\ at'[w] = a /\ "pop" \in Labels /\ "pop" \notin Holding
        /\ "pop" \notin Batching
    BY <1>1, <1>3 DEF Goto, TypeOK, Labels, Holding, Batching
  <2>3. Progress(w)'
    BY <2>1, <2>2 DEF Progress
  <2> QED
    BY <1>1, <1>3, <2>1, <2>2, <2>3, QuietLocals
<1> QED
  BY <1>2, <1>3 DEF PopTry

LEMMA PopLoadMaps ==
  ASSUME RInv, NEW w \in Workers, PopLoad(w) PROVE RInv' /\ UNCHANGED Q!vars
<1>1. IInv'
  BY PopLoadStep DEF RInv
<1> QED
  BY <1>1, PopTryMaps DEF PopLoad

LEMMA PopCasMaps ==
  ASSUME RInv, NEW w \in Workers, PopCas(w)
  PROVE  RInv' /\ (UNCHANGED Q!vars \/ Q!Take(w, w))
<1> DEFINE h == at[w].head
<1>1. /\ IInv /\ TypeOK /\ pc[w] = "pop" /\ pc[w] \notin Holding /\ at[w].task = NoTask
      /\ tail' = tail /\ buffer' = buffer /\ inject' = inject /\ next' = next
  BY DEF PopCas, RInv, IInv, Holding, Held
<1>2. IInv' /\ at[w] \in Locals /\ head \in [Workers -> Heads] /\ MovingOf(w) = << >>
  BY <1>1, PopCasStep, Typed, MovingIs DEF TypeOK
<1>3. CASE head[w] = h /\ head' = [head EXCEPT ![w] = Popped(h)] /\ Goto(w, "popRead", at[w])
  <2>1. 1 \in Nat \ {0} /\ 1 <= Behind(w, head[w].real)
    BY <1>1, <1>3 DEF IInv, OwnKnown
  <2>2. /\ head'[w].real = Plus(head[w].real, 1)
        /\ \A x \in Workers \ {w} : head'[x].real = head[x].real
    BY <1>2, <1>3 DEF Popped, pack
  <2>3. pc'[w] = "popRead" /\ at'[w] = at[w] /\ "popRead" \in Labels /\ "popRead" \notin Holding
    BY <1>1, <1>3 DEF Goto, TypeOK, Labels, Holding
  <2>4. at[w].n = 1
    BY <1>1 DEF RInv, Progress
  <2>5. Progress(w)'
    BY <2>3, <2>4 DEF Progress
  <2>6. /\ RInv' /\ NotScheduled' = NotScheduled
        /\ \A x \in Workers \ {w} : pc'[x] = pc[x] /\ at'[x] = at[x]
    BY <1>1, <1>2, <1>3, <2>3, <2>5, TaskStep
  <2>7. MovingOf(w)' = Ring(buffer[w], head[w].real, 1)
    BY <1>1, <1>3, <2>3, <2>4, MovingWillBe
  <2>8. Q!Take(w, w)
    BY <1>1, <1>2, <2>1, <2>2, <2>6, <2>7, TakeStep
  <2> QED
    BY <2>6, <2>8
<1>4. CASE PopTry(w, head[w]) /\ head' = head
  BY <1>1, <1>2, <1>4, PopTryMaps
<1> QED
  BY <1>3, <1>4 DEF PopCas

\* The task w has popped is run.
LEMMA PopReadMaps ==
  ASSUME RInv, NEW w \in Workers, PopRead(w)
  PROVE  RInv' /\ Q!Keep(w)
<1>1. /\ IInv /\ TypeOK /\ pc[w] = "popRead" /\ Return(w) /\ at[w].task = NoTask
      /\ head' = head /\ tail' = tail /\ buffer' = buffer /\ inject' = inject /\ next' = next
  BY DEF PopRead, RInv, IInv, Held, Holding
<1>2. IInv' /\ buffer[w] \in Rings /\ at[w].head.real \in Idx
  BY <1>1, PopReadStep, Typed, NotWritten
<1>3. /\ Goto(w, "idle", Nothing(w)) /\ Nothing(w) \in Locals /\ "idle" \in Labels
      /\ Nothing(w).task = NoTask /\ "idle" \notin Holding /\ Progress(w)' /\ MovingOf(w)' = << >>
  BY <1>1, ReturnKnown, ReturnProgress
<1>4. /\ RInv' /\ NotScheduled' = NotScheduled
      /\ \A x \in Workers \ {w} : pc'[x] = pc[x] /\ at'[x] = at[x]
  BY <1>1, <1>2, <1>3, TaskStep
<1>5. MovingOf(w) = << buffer[w][Slot(at[w].head.real)] >>
  <2>1. at[w].n = 1
    BY <1>1 DEF RInv, Progress
  <2> QED
    BY <1>1, <1>2, <2>1, MovingIs, RingOne
<1>6. MovingOf(w) # << >> /\ Q!Front(MovingOf(w)) = << >>
  BY <1>5 DEF Q!Front
<1>7. QueueOf(w)' = QueueOf(w) /\ QueueOf(w) \in Seq(Items)
  <2>1. head[w].real \in Idx /\ Behind(w, head[w].real) \in Nat
    BY <1>1, Typed, BehindTyped
  <2> QED
    BY <1>1, <1>2, <2>1, QueueSame, QueueIs, RingTyped
<1>8. /\ Queues' = [Queues EXCEPT ![w] = QueueOf(w)']
      /\ Movings' = [Movings EXCEPT ![w] = MovingOf(w)']
  BY <1>1, <1>4, NotWritten, OthersStay
<1>9. QueueOf(w)' = QueueOf(w) \o Q!Front(MovingOf(w))
  BY <1>6, <1>7, ConcatEmptySeq
<1>10. Movings[w] = MovingOf(w) /\ Queues[w] = QueueOf(w)
  BY DEF Movings, Queues
<1>11. /\ Movings[w] # << >> /\ Queues' = [Queues EXCEPT ![w] = @ \o Q!Front(Movings[w])]
       /\ Movings' = [Movings EXCEPT ![w] = << >>]
  BY <1>3, <1>6, <1>8, <1>9, <1>10
<1> QED
  BY <1>1, <1>4, <1>11 DEF Q!Keep, Queues, Movings

-----------------------------------------------------------------------------
(* The steal.                                                                  *)

LEMMA StealStartMaps ==
  ASSUME RInv, NEW w \in Workers, StealStart(w)
  PROVE  RInv' /\ UNCHANGED Q!vars
<1>1. PICK v \in Workers \ {w} : Goto(w, "stealHead", [Nothing(w) EXCEPT !.from = v])
  BY DEF StealStart
<1> DEFINE a == [Nothing(w) EXCEPT !.from = v]
<1>2. /\ IInv /\ TypeOK /\ pc[w] = "idle" /\ pc[w] \notin Batching /\ pc[w] \notin Holding
      /\ at[w].task = NoTask
      /\ head' = head /\ tail' = tail /\ buffer' = buffer /\ inject' = inject /\ next' = next
  BY DEF StealStart, RInv, IInv, Held, Holding, Batching
<1>3. a \in Locals /\ a.task = NoTask
  <2>1. Nothing(w) \in Locals
    BY Sizes DEF Nothing, Locals, Heads, pack, Idx, Items
  <2> QED
    BY <2>1 DEF Nothing, Locals
<1> HIDE DEF a
<1>4. Goto(w, "stealHead", a)
  BY <1>1 DEF a
<1>5. pc'[w] = "stealHead" /\ "stealHead" \in Labels /\ "stealHead" \notin Holding
      /\ "stealHead" \notin Batching
  BY <1>2, <1>4 DEF Goto, TypeOK, Labels, Stealing, Holding, Batching
<1>6. Progress(w)'
  BY <1>5 DEF Progress
<1>7. IInv'
  BY <1>2, StealStartStep
<1> QED
  BY <1>2, <1>3, <1>4, <1>5, <1>6, <1>7, QuietLocals

\* A head of the victim that is read.
LEMMA HeadReadMaps ==
  ASSUME RInv, IInv', NEW w \in Workers, pc[w] \in {"stealHead", "stealCas"},
         Goto(w, "stealTail", [at[w] EXCEPT !.head = head[at[w].from]]),
         head' = head, tail' = tail, buffer' = buffer, inject' = inject, next' = next
  PROVE  RInv' /\ UNCHANGED Q!vars
<1> DEFINE a == [at[w] EXCEPT !.head = head[at[w].from]]
<1>1. /\ TypeOK /\ pc[w] \notin Batching /\ pc[w] \notin Holding
  BY DEF RInv, IInv, Holding, Batching
<1>2. a \in Locals /\ a.task = at[w].task
  <2>1. at[w] \in Locals /\ head[at[w].from] \in Heads
    BY <1>1, Typed
  <2> QED
    BY <2>1 DEF Locals
<1> HIDE DEF a
<1>3. Goto(w, "stealTail", a)
  BY DEF a
<1>4. pc'[w] = "stealTail" /\ "stealTail" \in Labels /\ "stealTail" \notin Holding
      /\ "stealTail" \notin Batching
  BY <1>1, <1>3 DEF Goto, TypeOK, Labels, Stealing, Holding, Batching
<1>5. Progress(w)'
  BY <1>4 DEF Progress
<1> QED
  BY <1>1, <1>2, <1>3, <1>4, <1>5, QuietLocals

LEMMA StealHeadMaps ==
  ASSUME RInv, NEW w \in Workers, StealHead(w)
  PROVE  RInv' /\ UNCHANGED Q!vars
<1>1. IInv'
  BY StealHeadStep DEF RInv
<1> QED
  BY <1>1, HeadReadMaps DEF StealHead

LEMMA StealTailMaps ==
  ASSUME RInv, NEW w \in Workers, StealTail(w)
  PROVE  RInv' /\ UNCHANGED Q!vars
<1> DEFINE n == HalfOf(Minus(tail[at[w].from], at[w].head.real))
           a == [at[w] EXCEPT !.n = n]
<1>1. /\ IInv /\ TypeOK /\ pc[w] = "stealTail" /\ pc[w] \notin Batching /\ pc[w] \notin Holding
      /\ at[w].task = NoTask
      /\ head' = head /\ tail' = tail /\ buffer' = buffer /\ inject' = inject /\ next' = next
  BY DEF StealTail, RInv, IInv, Held, Holding, Batching
<1>2. IInv'
  BY <1>1, StealTailStep
<1>3. CASE Goto(w, "stealCas", a)
  <2>1. at[w] \in Locals /\ n \in Nat
    <3>1. at[w] \in Locals /\ tail[at[w].from] \in Idx /\ at[w].head.real \in Idx
      BY <1>1, Typed
    <3>2. Minus(tail[at[w].from], at[w].head.real) \in Nat
      BY <3>1, MinusIs DEF Idx
    <3> QED
      BY <3>1, <3>2, HalfIs
  <2> HIDE DEF n
  <2>2. a \in Locals /\ a.task = at[w].task
    BY <2>1 DEF Locals
  <2> HIDE DEF a
  <2>3. pc'[w] = "stealCas" /\ "stealCas" \in Labels /\ "stealCas" \notin Holding
        /\ "stealCas" \notin Batching
    BY <1>1, <1>3 DEF Goto, TypeOK, Labels, Stealing, Holding, Batching
  <2>4. Progress(w)'
    BY <2>3 DEF Progress
  <2> QED
    BY <1>1, <1>2, <1>3, <2>2, <2>3, <2>4, QuietLocals
<1>4. CASE Return(w)
  BY <1>1, <1>2, <1>4, ReturnKnown, ReturnProgress, QuietLocals
<1> QED
  BY <1>3, <1>4 DEF StealTail

LEMMA StealCasMaps ==
  ASSUME RInv, NEW w \in Workers, StealCas(w)
  PROVE  RInv' /\ (UNCHANGED Q!vars \/ \E v \in Workers : Q!Take(w, v))
<1> DEFINE v == at[w].from
           h == at[w].head
           n == at[w].n
           claimed == pack(h.steal, Plus(h.real, n))
           a == [at[w] EXCEPT !.head = claimed]
<1>1. /\ IInv /\ TypeOK /\ pc[w] = "stealCas" /\ pc[w] \notin Holding /\ at[w].task = NoTask
      /\ tail' = tail /\ buffer' = buffer /\ inject' = inject /\ next' = next
  BY DEF StealCas, RInv, IInv, Holding, Held
<1>2. /\ IInv' /\ at[w] \in Locals /\ head \in [Workers -> Heads] /\ MovingOf(w) = << >>
      /\ v \in Workers /\ n \in Nat /\ h.real \in Idx /\ h.steal \in Idx /\ tail[w] \in Idx
      /\ buffer[w] \in Rings /\ buffer[v] \in Rings
  BY <1>1, StealCasStep, Typed, MovingIs, NotWritten DEF TypeOK
<1>3. CASE head[v] = h /\ head' = [head EXCEPT ![v] = claimed] /\ Goto(w, "copy", a)
  <2>1. /\ h.steal = h.real /\ 1 <= n /\ n <= HalfOf(Behind(v, h.real)) /\ v # w
        /\ at[w].copied = 0
    BY <1>1, <1>3 DEF IInv, VictimKnown, OwnKnown, Stealing
  <2>2. n \in Nat \ {0} /\ n <= Behind(v, head[v].real)
    <3>1. Behind(v, h.real) \in Nat
      BY <1>1, <1>2, BehindTyped
    <3>2. HalfOf(Behind(v, h.real)) <= Behind(v, h.real) /\ HalfOf(Behind(v, h.real)) \in Nat
      BY <3>1, HalfIs
    <3> QED
      BY <1>2, <1>3, <2>1, <3>1, <3>2
  <2>3. n \in 0 .. Indices
    <3>1. n <= Capacity \div 2
      <4>1. Behind(v, h.real) \in Nat /\ Behind(v, head[v].steal) <= Capacity
        BY <1>1, <1>2, BehindTyped DEF IInv, Ordered
      <4>2. HalfOf(Behind(v, h.real)) <= Capacity \div 2 /\ HalfOf(Behind(v, h.real)) \in Nat
        BY <1>3, <2>1, <4>1, HalfIs
      <4> QED
        BY <1>2, <2>1, <4>2, Sizes
    <3> QED
      BY <1>2, <3>1, Sizes
  <2>4. claimed \in Heads /\ claimed.steal = h.real /\ claimed.real = Plus(h.real, n)
    BY <1>2, <2>1, <2>3, PlusIs DEF pack, Heads
  <2> HIDE DEF claimed
  <2>5. a \in Locals /\ a.task = at[w].task /\ a.head = claimed /\ a.n = n /\ a.copied = 0
        /\ a.from = v
    BY <1>2, <2>1, <2>4 DEF Locals
  <2> HIDE DEF a
  <2>6. pc'[w] = "copy" /\ at'[w] = a /\ "copy" \in Labels /\ "copy" \notin Holding
    BY <1>1, <1>3 DEF Goto, TypeOK, Labels, Stealing, Holding
  <2>7. Progress(w)'
    BY <2>6 DEF Progress
  <2>8. /\ RInv' /\ NotScheduled' = NotScheduled
        /\ \A x \in Workers \ {w} : pc'[x] = pc[x] /\ at'[x] = at[x]
    BY <1>1, <1>2, <1>3, <2>5, <2>6, <2>7, TaskStep
  <2>9. /\ head'[v].real = Plus(head[v].real, n)
        /\ \A x \in Workers \ {v} : head'[x].real = head[x].real
    BY <1>2, <1>3, <2>4
  <2>10. MovingOf(w)' = Ring(buffer[v], head[v].real, n)
    <3>1. MovingOf(w)' = Ring(buffer[w], tail[w], 0) \o Ring(buffer[v], Plus(h.real, 0), n - 0)
      BY <1>1, <2>4, <2>5, <2>6, MovingWillBe
    <3>2. Plus(h.real, 0) = h.real /\ n - 0 = n
      <4>1. n - 0 = n
        BY <1>2
      <4>2. h.real \in Idx /\ h.real \in 0 .. Indices - 1 /\ 0 \in 0 .. Indices
        BY <1>2, Sizes DEF Idx
      <4> HIDE DEF h
      <4>3. Plus(h.real, 0) = h.real
        BY <4>2, PlusIs, Sizes
      <4> QED
        BY <4>1, <4>3
    <3>3. Ring(buffer[v], h.real, n) \in Seq(Items)
      BY <1>2, RingTyped
    <3> HIDE DEF n, v, h
    <3>4. MovingOf(w)' = Ring(buffer[w], tail[w], 0) \o Ring(buffer[v], h.real, n)
      BY <3>1, <3>2
    <3>5. Ring(buffer[w], tail[w], 0) \o Ring(buffer[v], h.real, n) = Ring(buffer[v], h.real, n)
      BY <1>2, <3>3, RingNone
    <3> QED
      BY <1>3, <3>4, <3>5
  <2>11. n <= HalfOf(Behind(v, head[v].real))
    BY <1>3, <2>1
  <2> HIDE DEF n, v
  <2>12. Q!Take(w, v)
    BY <1>1, <1>2, <2>2, <2>8, <2>9, <2>10, <2>11, TakeStep
  <2> QED
    BY <1>2, <2>8, <2>12
<1>4. CASE Goto(w, "stealTail", [at[w] EXCEPT !.head = head[v]]) /\ head' = head
  BY <1>1, <1>2, <1>4, HeadReadMaps
<1> QED
  BY <1>3, <1>4 DEF StealCas

\* A loot of n tasks of which k are copied: those in the thief's ring o, beyond its
\* tail t, and the others in the victim's ring c.
Loot(o, t, c, i, k, n) == Ring(o, t, k) \o Ring(c, Plus(i, k), n - k)

\* A copy leaves it what it is.
LEMMA CopyRings ==
  ASSUME NEW b \in Rings, NEW c \in Rings, NEW o \in Rings, NEW t \in Idx, NEW i \in Idx,
         NEW k \in Nat, NEW n \in Nat, k < n, n <= Capacity \div 2,
         b[Slot(Plus(t, k))] = c[Slot(Plus(i, k))],
         \A s \in 0 .. Capacity - 1 : s # Slot(Plus(t, k)) => b[s] = o[s]
  PROVE  Loot(b, t, c, i, k + 1, n) = Loot(o, t, c, i, k, n)
<1>1. /\ Capacity \in Nat /\ Indices \in Nat /\ Capacity < Indices /\ n < Capacity
      /\ k + 1 \in Nat /\ k + 1 < Indices /\ k + 0 < Indices
      /\ n - k \in Nat /\ n - k < Indices /\ 1 \in Nat
      /\ 1 <= n - k /\ (n - k) - 1 \in Nat /\ (n - k) - 1 = n - (k + 1) /\ (k + 1) - k = 1
      /\ n - (k + 1) \in Nat /\ k <= k + 1
  BY Sizes
<1>2. Plus(t, k) \in Idx /\ Plus(i, k) \in Idx /\ Plus(Plus(i, k), 1) = Plus(i, k + 1)
      /\ Plus(i, k + 1) \in Idx
  BY <1>1, PlusPlus
<1> DEFINE x == << c[Slot(Plus(i, k))] >>
           p == Ring(o, t, k)
           q == Ring(c, Plus(i, k + 1), n - (k + 1))
<1>3. Ring(b, t, k) = p
  <2>1. ASSUME NEW j \in 0 .. k - 1 PROVE b[Slot(Plus(t, j))] = o[Slot(Plus(t, j))]
    <3>1. j \in Nat /\ j < k /\ k - j \in Nat
      BY <2>1
    <3>2. Minus(t, t) = 0 /\ Minus(t, t) + k < Indices
      BY <1>1, SameIndex
    <3>3. Minus(Plus(t, k), t) = k
      BY <1>1, <3>2, TailAhead
    <3>4. Plus(t, j) \in Idx /\ Minus(Plus(t, k), Plus(t, j)) = k - j
      BY <1>2, <3>1, <3>3, HeadAhead
    <3>5. 1 <= Minus(Plus(t, k), Plus(t, j)) /\ Minus(Plus(t, k), Plus(t, j)) < Capacity
      BY <1>1, <3>1, <3>4
    <3>6. Slot(Plus(t, k)) # Slot(Plus(t, j))
      BY <1>2, <3>4, <3>5, SlotsApart
    <3> QED
      BY <3>1, <3>6, SlotTyped
  <2> QED
    BY <2>1, RingSame
<1>4. Ring(b, t, k + 1) = p \o x
  <2>1. Ring(b, t, k + 1) = Ring(b, t, k) \o << b[Slot(Plus(t, k))] >>
    BY <1>1, RingEnds
  <2> HIDE DEF p
  <2> QED
    BY <1>3, <2>1
<1>5. Ring(c, Plus(i, k), n - k) = x \o q
  <2> DEFINE m == n - (k + 1)
             j == Plus(i, k)
  <2>1. m \in Nat /\ m + 1 = n - k /\ m + 1 < Indices /\ j \in Idx /\ Plus(j, 1) = Plus(i, k + 1)
    BY <1>1, <1>2
  <2> HIDE DEF m, j
  <2>2. Ring(c, j, m + 1) = << c[Slot(j)] >> \o Ring(c, Plus(j, 1), m)
    BY <2>1, RingEnds
  <2> QED
    BY <2>1, <2>2 DEF m, j
<1>6. p \in Seq(Items) /\ q \in Seq(Items) /\ x \in Seq(Items)
  <2>1. c[Slot(Plus(i, k))] \in Items
    BY SlotTyped DEF Rings
  <2>2. x \in Seq(Items)
    BY <2>1
  <2> QED
    BY <1>1, <1>2, <2>2, RingTyped
<1> HIDE DEF p, q, x
<1>7. (p \o x) \o q = p \o (x \o q)
  <2> SUFFICES ASSUME NEW P \in Seq(Items), NEW X \in Seq(Items), NEW R \in Seq(Items)
               PROVE  (P \o X) \o R = P \o (X \o R)
    BY <1>6
  <2> QED
    OBVIOUS
<1> QED
  BY <1>4, <1>5, <1>7 DEF p, q, Loot

LEMMA CopyMaps ==
  ASSUME RInv, NEW w \in Workers, Copy(w)
  PROVE  RInv' /\ UNCHANGED Q!vars
<1> DEFINE v == at[w].from
           k == at[w].copied
           n == at[w].n
           i == at[w].head.steal
           t == buffer[v][Slot(Plus(i, k))]
           b == Written(w, k, t)
           a == [at[w] EXCEPT !.copied = k + 1]
           l == IF k + 1 = n THEN "release" ELSE "copy"
<1>1. /\ IInv /\ TypeOK /\ pc[w] = "copy" /\ pc[w] \notin Holding /\ at[w].task = NoTask
      /\ head' = head /\ tail' = tail /\ inject' = inject /\ next' = next
      /\ Goto(w, l, a)
      /\ buffer' = [buffer EXCEPT ![w][Slot(Plus(tail[w], k))] = t]
  BY DEF Copy, RInv, IInv, Holding, Held
<1>2. /\ IInv' /\ at[w] \in Locals /\ v \in Workers /\ k \in Nat /\ n \in Nat /\ i \in Idx
      /\ tail[w] \in Idx /\ Behind(w, head[w].steal) \in Nat
      /\ buffer[w] \in Rings /\ buffer[v] \in Rings
  BY <1>1, CopyStep, Typed, BehindTyped, NotWritten
<1>3. /\ k < n /\ n <= Capacity \div 2 /\ Behind(w, head[w].steal) <= Capacity \div 2 /\ v # w
  BY <1>1 DEF IInv, OwnKnown, VictimKnown, Stealing
<1>4. Behind(w, head[w].steal) + k < Capacity
  BY <1>2, <1>3, Sizes
<1>5. t \in Items
  BY <1>2, SlotTyped DEF Rings
<1>6. /\ b \in Rings /\ b[Slot(Plus(tail[w], k))] = t
      /\ \A s \in 0 .. Capacity - 1 : s # Slot(Plus(tail[w], k)) => b[s] = buffer[w][s]
      /\ \A s \in 0 .. Capacity - 1 : Free(w, s) \/ b[s] = buffer[w][s]
  <2> HIDE DEF k, t
  <2> QED
    BY <1>1, <1>2, <1>4, <1>5, WriteFree
<1>7. buffer' = [buffer EXCEPT ![w] = b] /\ buffer'[w] = b /\ buffer'[v] = buffer[v]
      /\ \A x \in Workers \ {w} : buffer'[x] = buffer[x] /\ tail'[x] = tail[x]
  BY <1>1, <1>2, <1>3 DEF TypeOK, Written
<1>8. /\ a \in Locals /\ a.task = at[w].task /\ a.copied = k + 1 /\ a.n = n /\ a.head = at[w].head
      /\ a.from = v
  BY <1>2 DEF Locals
<1>9. /\ pc'[w] = l /\ at'[w] = a /\ l \in Labels /\ l \notin Holding
      /\ l \in {"copy", "release", "expose"}
  BY <1>1 DEF Goto, TypeOK, Labels, Stealing, Holding
<1>10. Progress(w)'
  BY <1>8, <1>9 DEF Progress
<1> HIDE DEF b, a, l
<1>11. /\ RInv' /\ NotScheduled' = NotScheduled
       /\ \A x \in Workers \ {w} : pc'[x] = pc[x] /\ at'[x] = at[x]
  BY <1>1, <1>2, <1>7, <1>8, <1>9, <1>10, TaskStep
<1>12. MovingOf(w)' = MovingOf(w)
  <2>1. MovingOf(w) = Ring(buffer[w], tail[w], k) \o Ring(buffer[v], Plus(i, k), n - k)
    BY <1>1, MovingIs
  <2>2. MovingOf(w)' = Ring(b, tail[w], k + 1) \o Ring(buffer[v], Plus(i, k + 1), n - (k + 1))
    <3>1. MovingOf(w)' = Ring(buffer'[w], tail'[w], at'[w].copied)
            \o Ring(buffer'[at'[w].from], Plus(at'[w].head.steal, at'[w].copied),
                    at'[w].n - at'[w].copied)
      BY <1>9, MovingWillBe
    <3>2. /\ buffer'[w] = b /\ tail'[w] = tail[w] /\ at'[w].copied = k + 1 /\ at'[w].from = v
          /\ at'[w].head.steal = i /\ at'[w].n = n /\ buffer'[v] = buffer[v]
      BY <1>1, <1>7, <1>8, <1>9
    <3> HIDE DEF k, n, i, v, t
    <3> QED
      BY <3>1, <3>2
  <2>3. b[Slot(Plus(tail[w], k))] = buffer[v][Slot(Plus(i, k))]
    BY <1>6
  <2>4. \A s \in 0 .. Capacity - 1 : s # Slot(Plus(tail[w], k)) => b[s] = buffer[w][s]
    BY <1>6
  <2>5. b \in Rings /\ buffer[w] \in Rings /\ buffer[v] \in Rings
        /\ tail[w] \in Idx /\ i \in Idx /\ k \in Nat /\ n \in Nat /\ k < n /\ n <= Capacity \div 2
    BY <1>2, <1>3, <1>6
  <2> DEFINE c == buffer[v]
             o == buffer[w]
             u == tail[w]
  <2> HIDE DEF k, n, i, v, t, c, o, u
  <2>6. Loot(b, u, c, i, k + 1, n) = Loot(o, u, c, i, k, n)
    <3>1. /\ b \in Rings /\ o \in Rings /\ c \in Rings /\ u \in Idx /\ i \in Idx
          /\ k \in Nat /\ n \in Nat /\ k < n /\ n <= Capacity \div 2
          /\ b[Slot(Plus(u, k))] = c[Slot(Plus(i, k))]
          /\ \A s \in 0 .. Capacity - 1 : s # Slot(Plus(u, k)) => b[s] = o[s]
      BY <2>3, <2>4, <2>5 DEF c, o, u
    <3> QED
      BY <3>1, CopyRings
  <2> QED
    BY <2>1, <2>2, <2>6 DEF c, o, u, Loot
<1>13. UNCHANGED Q!vars
  BY <1>1, <1>6, <1>7, <1>11, <1>12, Quiet
<1> QED
  BY <1>11, <1>13

LEMMA ReleaseCasMaps ==
  ASSUME RInv, NEW w \in Workers, ReleaseCas(w)
  PROVE  RInv' /\ UNCHANGED Q!vars
<1> DEFINE v == at[w].from
           h == at[w].head
           g == head[v]
           a == [at[w] EXCEPT !.head = g]
<1>1. /\ IInv /\ TypeOK /\ pc[w] = "release" /\ pc[w] \notin Holding /\ at[w].task = NoTask
      /\ tail' = tail /\ buffer' = buffer /\ inject' = inject /\ next' = next
  BY DEF ReleaseCas, RInv, IInv, Holding, Held
<1>2. /\ IInv' /\ at[w] \in Locals /\ head \in [Workers -> Heads] /\ v \in Workers
      /\ g \in Heads /\ h.steal = g.steal /\ at[w].copied = at[w].n
  BY <1>1, ReleaseCasStep, Typed DEF RInv, IInv, VictimKnown, Reading, Progress, TypeOK
<1>3. MovingOf(w) = Ring(buffer[w], tail[w], at[w].copied)
        \o Ring(buffer[v], Plus(h.steal, at[w].copied), at[w].n - at[w].copied)
  BY <1>1, MovingIs
<1>4. CASE /\ head[v] = h /\ head' = [head EXCEPT ![v] = pack(h.real, h.real)]
           /\ Goto(w, "expose", at[w])
  <2>1. pc'[w] = "expose" /\ at'[w] = at[w] /\ "expose" \in Labels /\ "expose" \notin Holding
    BY <1>1, <1>4 DEF Goto, TypeOK, Labels, Stealing, Holding
  <2>2. Progress(w)'
    BY <1>2, <2>1 DEF Progress
  <2>3. /\ RInv' /\ NotScheduled' = NotScheduled
        /\ \A x \in Workers \ {w} : pc'[x] = pc[x] /\ at'[x] = at[x]
    BY <1>1, <1>2, <1>4, <2>1, <2>2, TaskStep
  <2>4. MovingOf(w)' = MovingOf(w)
    BY <1>1, <1>3, <2>1, MovingWillBe
  <2>5. \A x \in Workers : head'[x].real = head[x].real
    BY <1>2, <1>4 DEF pack
  <2>6. UNCHANGED Q!vars
    BY <1>1, <2>3, <2>4, <2>5, NotWritten, Quiet
  <2> QED
    BY <2>3, <2>6
<1>5. CASE Goto(w, "release", [at[w] EXCEPT !.head = head[v]]) /\ head' = head
  <2>1. /\ a \in Locals /\ a.task = at[w].task /\ a.head = g /\ a.n = at[w].n
        /\ a.copied = at[w].copied /\ a.from = v /\ Goto(w, "release", a)
    BY <1>2, <1>5 DEF Locals
  <2> HIDE DEF a
  <2>2. pc'[w] = "release" /\ at'[w] = a /\ "release" \in Labels /\ "release" \notin Holding
    BY <1>1, <2>1 DEF Goto, TypeOK, Labels, Stealing, Holding
  <2>3. Progress(w)'
    BY <1>2, <2>1, <2>2 DEF Progress
  <2>4. /\ RInv' /\ NotScheduled' = NotScheduled
        /\ \A x \in Workers \ {w} : pc'[x] = pc[x] /\ at'[x] = at[x]
    BY <1>1, <1>2, <2>1, <2>2, <2>3, TaskStep
  <2>5. MovingOf(w)' = MovingOf(w)
    <3>1. MovingOf(w)' = Ring(buffer[w], tail[w], at[w].copied)
            \o Ring(buffer[v], Plus(g.steal, at[w].copied), at[w].n - at[w].copied)
      BY <1>1, <2>1, <2>2, MovingWillBe
    <3> HIDE DEF g, h
    <3> QED
      BY <1>2, <1>3, <3>1
  <2>6. UNCHANGED Q!vars
    BY <1>1, <1>5, <2>4, <2>5, NotWritten, Quiet
  <2> QED
    BY <2>4, <2>6
<1> QED
  BY <1>4, <1>5 DEF ReleaseCas

\* The loot joins the thief's queue, but for its last task.
LEMMA ExposeMaps ==
  ASSUME RInv, NEW w \in Workers, Expose(w)
  PROVE  RInv' /\ Q!Keep(w)
<1> DEFINE n == at[w].n
           k == n - 1
           loot == Ring(buffer[w], tail[w], n)
<1>1. /\ IInv /\ TypeOK /\ pc[w] = "expose" /\ Return(w) /\ at[w].task = NoTask
      /\ head' = head /\ buffer' = buffer /\ inject' = inject /\ next' = next
      /\ tail' = [tail EXCEPT ![w] = Plus(@, k)] /\ at[w].copied = n
  BY DEF Expose, RInv, IInv, Held, Holding, Progress
<1>2. /\ IInv' /\ buffer[w] \in Rings /\ tail[w] \in Idx /\ n \in Nat
      /\ Behind(w, head[w].steal) \in Nat
  BY <1>1, ExposeStep, Typed, BehindTyped, NotWritten
<1>3. 1 <= n /\ n <= Capacity \div 2 /\ Behind(w, head[w].steal) <= Capacity \div 2
  BY <1>1 DEF IInv, OwnKnown, Stealing
<1>4. k \in Nat /\ k <= n /\ n < Indices /\ Behind(w, head[w].steal) + k <= Capacity
  BY <1>2, <1>3, Sizes
<1>5. tail'[w] = Plus(tail[w], k) /\ \A x \in Workers \ {w} : tail'[x] = tail[x]
  BY <1>1 DEF TypeOK
<1>6. /\ Goto(w, "idle", Nothing(w)) /\ Nothing(w) \in Locals /\ "idle" \in Labels
      /\ Nothing(w).task = NoTask /\ "idle" \notin Holding /\ Progress(w)' /\ MovingOf(w)' = << >>
  BY <1>1, ReturnKnown, ReturnProgress
<1>7. /\ RInv' /\ NotScheduled' = NotScheduled
      /\ \A x \in Workers \ {w} : pc'[x] = pc[x] /\ at'[x] = at[x]
  BY <1>1, <1>2, <1>5, <1>6, TaskStep
<1>8. MovingOf(w) = loot
  BY <1>1, CopiedIs
<1>9. Len(loot) = n /\ loot # << >> /\ Q!Front(loot) = Ring(buffer[w], tail[w], k)
  <2> HIDE DEF k
  <2>1. Len(loot) = n /\ loot \in Seq(Items)
    BY <1>2, RingTyped
  <2>2. loot # << >>
    BY <1>3, <2>1
  <2>3. SubSeq(loot, 1, k) = Ring(buffer[w], tail[w], k)
    BY <1>2, <1>4, RingSplit DEF Q!First
  <2>4. Q!Front(loot) = SubSeq(loot, 1, Len(loot) - 1)
    BY DEF Q!Front
  <2> HIDE DEF loot
  <2> QED
    BY <2>1, <2>2, <2>3, <2>4 DEF k
<1> HIDE DEF k, loot
<1>10. QueueOf(w)' = QueueOf(w) \o Ring(buffer[w], tail[w], k)
  BY <1>1, <1>2, <1>4, <1>5, NotWritten, Joined
<1>11. /\ Queues' = [Queues EXCEPT ![w] = QueueOf(w)']
       /\ Movings' = [Movings EXCEPT ![w] = MovingOf(w)']
  BY <1>1, <1>5, <1>7, NotWritten, OthersStay
<1>12. Movings[w] = loot /\ Queues[w] = QueueOf(w)
  BY <1>8 DEF Movings, Queues
<1>13. /\ Movings[w] # << >> /\ Queues' = [Queues EXCEPT ![w] = @ \o Q!Front(Movings[w])]
       /\ Movings' = [Movings EXCEPT ![w] = << >>]
  BY <1>6, <1>9, <1>10, <1>11, <1>12
<1> QED
  BY <1>1, <1>7, <1>13 DEF Q!Keep, Queues, Movings

-----------------------------------------------------------------------------
(* The injection queue.                                                        *)

LEMMA RefillStartMaps ==
  ASSUME RInv, NEW w \in Workers, RefillStart(w)
  PROVE  RInv' /\ UNCHANGED Q!vars
<1>1. /\ IInv /\ TypeOK /\ pc[w] = "idle" /\ pc[w] \notin Batching /\ pc[w] \notin Holding
      /\ at[w].task = NoTask
      /\ head' = head /\ tail' = tail /\ buffer' = buffer /\ inject' = inject /\ next' = next
  BY DEF RefillStart, RInv, IInv, Held, Holding, Batching
<1>2. IInv'
  BY <1>1, RefillStartStep
<1>3. PICK m : Goto(w, "refill", [Nothing(w) EXCEPT !.n = m])
  BY DEF RefillStart
<1> DEFINE a == [Nothing(w) EXCEPT !.n = m]
<1>4. pc'[w] = "refill" /\ at'[w] = a
  BY <1>1, <1>3 DEF Goto, TypeOK
<1>5. a \in Locals
  BY <1>2, <1>4, Typed DEF IInv, TypeOK
<1>6. a.task = NoTask
  BY DEF Nothing
<1> HIDE DEF a
<1>7. Goto(w, "refill", a)
  BY <1>3 DEF a
<1>8. "refill" \in Labels /\ "refill" \notin Holding /\ "refill" \notin Batching
  BY DEF Labels, Stealing, Holding, Batching
<1>9. Progress(w)'
  BY <1>4 DEF Progress
<1> QED
  BY <1>1, <1>2, <1>5, <1>6, <1>7, <1>8, <1>9, QuietLocals

\* How far beyond the index t the slot s comes.
LEMMA SlotPlace ==
  ASSUME NEW t \in Idx
  PROVE  /\ \A d \in 0 .. Capacity - 1 : (Slot(Plus(t, d)) - t) % Capacity = d
         /\ \A s \in 0 .. Capacity - 1 : /\ (s - t) % Capacity \in 0 .. Capacity - 1
                                         /\ Slot(Plus(t, (s - t) % Capacity)) = s
<1>1. Capacity \in Nat \ {0} /\ Indices \in Nat /\ Capacity < Indices /\ t \in 0 .. Indices - 1
      /\ t \in Nat
  BY Sizes DEF Idx
<1>2. PICK q \in Nat : Indices = Capacity * q
  BY Sizes
<1>3. PICK e \in Nat : t = Capacity * e + (t % Capacity)
  BY <1>1, Quotient
<1> DEFINE r == t % Capacity
<1>4. r \in 0 .. Capacity - 1
  BY <1>1, Quotient
<1>5. \A m, n \in Int : /\ Capacity * (m + n) = Capacity * m + Capacity * n
                        /\ Capacity * (m - n) = Capacity * m - Capacity * n
                        /\ Capacity * m \in Int
  BY <1>1
<1> HIDE DEF r
<1>6. ASSUME NEW d \in 0 .. Capacity - 1
      PROVE  (Slot(Plus(t, d)) - t) % Capacity = d
  <2> DEFINE p == Plus(t, d)
  <2>1. p \in Idx /\ p = IF t + d < Indices THEN t + d ELSE t + d - Indices
    BY <1>1, PlusIs
  <2> HIDE DEF p
  <2>2. p \in Nat
    BY <2>1 DEF Idx
  <2>3. PICK c \in Nat : p = Capacity * c + (p % Capacity)
    BY <1>1, <2>2, Quotient
  <2>4. p % Capacity \in Nat
    BY <1>1, <2>2, Quotient
  <2> DEFINE s == p % Capacity
  <2> HIDE DEF s
  <2>5. s \in Int /\ p = Capacity * c + s
    BY <2>3, <2>4 DEF s
  <2>6. \E m \in Int : s - t = Capacity * m + d
    <3>1. CASE t + d < Indices
      <4>1. s - t = d - Capacity * c
        BY <1>1, <1>5, <2>1, <2>5, <3>1
      <4>2. Capacity * (0 - c) = Capacity * 0 - Capacity * c /\ Capacity * 0 = 0
            /\ Capacity * c \in Int
        BY <1>1, <1>5
      <4>3. s - t = Capacity * (0 - c) + d
        BY <4>1, <4>2
      <4> QED
        BY <4>3
    <3>2. CASE ~(t + d < Indices)
      <4>1. s - t = (d - Capacity * c) - Capacity * q
        BY <1>1, <1>2, <1>5, <2>1, <2>5, <3>2
      <4>2. /\ Capacity * ((0 - c) - q) = Capacity * (0 - c) - Capacity * q
            /\ Capacity * (0 - c) = Capacity * 0 - Capacity * c /\ Capacity * 0 = 0
            /\ Capacity * c \in Int /\ Capacity * q \in Int
        BY <1>1, <1>5
      <4>3. s - t = Capacity * ((0 - c) - q) + d
        BY <4>1, <4>2
      <4> QED
        BY <4>3
    <3> QED
      BY <3>1, <3>2
  <2>7. s - t \in Int
    BY <1>1, <2>5
  <2>8. (s - t) % Capacity = d
    BY <1>1, <2>6, <2>7, Remainder
  <2> QED
    BY <2>8 DEF s, p, Slot
<1>7. ASSUME NEW s \in 0 .. Capacity - 1
      PROVE  /\ (s - t) % Capacity \in 0 .. Capacity - 1
             /\ Slot(Plus(t, (s - t) % Capacity)) = s
  <2>1. Capacity * e \in Int /\ t = Capacity * e + r /\ r \in Nat /\ s \in Nat /\ s - t \in Int
    BY <1>1, <1>3, <1>4, <1>5 DEF r
  <2>2. \E d \in 0 .. Capacity - 1 : \E m \in Nat : (s - t) % Capacity = d /\ t + d = Capacity * m + s
    <3>1. CASE s >= r
      <4>1. s - r \in 0 .. Capacity - 1
        BY <1>1, <1>4, <2>1, <3>1
      <4>2. Capacity * (0 - e) = Capacity * 0 - Capacity * e /\ Capacity * 0 = 0
        BY <1>1, <1>5
      <4>3. s - t = Capacity * (0 - e) + (s - r)
        BY <2>1, <4>2
      <4>4. (s - t) % Capacity = s - r
        BY <1>1, <2>1, <4>1, <4>3, Remainder
      <4>5. t + (s - r) = Capacity * e + s
        BY <1>4, <2>1
      <4> QED
        BY <4>1, <4>4, <4>5
    <3>2. CASE ~(s >= r)
      <4> DEFINE d == (s - r) + Capacity
      <4>1. d \in 0 .. Capacity - 1
        BY <1>1, <1>4, <2>1, <3>2
      <4>2. /\ Capacity * ((0 - e) - 1) = Capacity * (0 - e) - Capacity * 1
            /\ Capacity * (0 - e) = Capacity * 0 - Capacity * e /\ Capacity * 0 = 0
            /\ Capacity * 1 = Capacity
            /\ Capacity * (e + 1) = Capacity * e + Capacity * 1
        BY <1>1, <1>5
      <4>3. s - t = Capacity * ((0 - e) - 1) + d
        BY <1>1, <1>4, <2>1, <4>2
      <4>4. t + d = Capacity * (e + 1) + s /\ e + 1 \in Nat
        BY <1>1, <1>4, <2>1, <4>2
      <4> HIDE DEF d
      <4>5. (s - t) % Capacity = d
        BY <1>1, <2>1, <4>1, <4>3, Remainder
      <4> QED
        BY <4>1, <4>4, <4>5
    <3> QED
      BY <3>1, <3>2
  <2>3. PICK d \in 0 .. Capacity - 1 : \E m \in Nat : (s - t) % Capacity = d /\ t + d = Capacity * m + s
    BY <2>2
  <2>4. PICK m \in Nat : (s - t) % Capacity = d /\ t + d = Capacity * m + s
    BY <2>3
  <2>5. Plus(t, d) \in Idx /\ Plus(t, d) = IF t + d < Indices THEN t + d ELSE t + d - Indices
    BY <1>1, PlusIs
  <2>6. \E k \in Int : Plus(t, d) = Capacity * k + s
    <3>1. CASE t + d < Indices
      BY <2>4, <2>5, <3>1
    <3>2. CASE ~(t + d < Indices)
      <4>1. Capacity * (m - q) = Capacity * m - Capacity * q /\ Capacity * m \in Int
        <5>1. m \in Int /\ q \in Int
          OBVIOUS
        <5> QED
          BY <1>5, <5>1
      <4>2. Plus(t, d) = Capacity * (m - q) + s
        BY <1>1, <1>2, <2>1, <2>4, <2>5, <3>2, <4>1
      <4> QED
        BY <4>2
    <3> QED
      BY <3>1, <3>2
  <2>7. Plus(t, d) \in Int
    BY <2>5 DEF Idx
  <2>8. Slot(Plus(t, d)) = s
    BY <1>1, <2>6, <2>7, Remainder DEF Slot
  <2> QED
    BY <2>4, <2>8
<1> QED
  BY <1>6, <1>7

\* A write of the tasks s to the free slots from the tail of w on.
Filled(w, s) ==
    [j \in 0 .. Capacity - 1 |->
        IF (j - tail[w]) % Capacity < Len(s) THEN s[((j - tail[w]) % Capacity) + 1]
                                             ELSE buffer[w][j]]

LEMMA FillFree ==
  ASSUME IInv, NEW w \in Workers, NEW s \in Seq(Items),
         Behind(w, head[w].steal) + Len(s) <= Capacity
  PROVE  /\ Filled(w, s) \in Rings
         /\ \A j \in 0 .. Capacity - 1 : Free(w, j) \/ Filled(w, s)[j] = buffer[w][j]
         /\ Ring(Filled(w, s), tail[w], Len(s)) = s
<1> DEFINE t == tail[w]
           k == Len(s)
           b == Filled(w, s)
<1>1. /\ buffer[w] \in Rings /\ t \in Idx /\ k \in Nat /\ Behind(w, head[w].steal) \in Nat
      /\ Capacity \in Nat
  <2>1. buffer[w] \in Rings
    BY NotWritten DEF IInv
  <2>2. t \in Idx /\ head[w].steal \in Idx
    BY Typed DEF IInv
  <2>3. Behind(w, head[w].steal) \in Nat
    BY <2>2, BehindTyped DEF IInv
  <2>4. k \in Nat
    OBVIOUS
  <2> QED
    BY <2>1, <2>2, <2>3, <2>4, Sizes
<1>2. \A j \in 0 .. Capacity - 1 : /\ (j - t) % Capacity \in 0 .. Capacity - 1
                                   /\ Slot(Plus(t, (j - t) % Capacity)) = j
  BY <1>1, SlotPlace
<1>3. \A j \in 0 .. Capacity - 1 :
         b[j] = IF (j - t) % Capacity < k THEN s[((j - t) % Capacity) + 1] ELSE buffer[w][j]
  BY DEF Filled
<1>4. \A j \in 0 .. Capacity - 1 : b[j] \in Items
  <2>1. SUFFICES ASSUME NEW j \in 0 .. Capacity - 1 PROVE b[j] \in Items
    OBVIOUS
  <2> DEFINE d == (j - t) % Capacity
  <2>2. d \in Nat
    BY <1>2
  <2> HIDE DEF d, b, k
  <2>3. b[j] = IF d < k THEN s[d + 1] ELSE buffer[w][j]
    BY <1>3 DEF d
  <2>4. CASE d < k
    <3>1. d + 1 \in 1 .. Len(s)
      BY <1>1, <2>2, <2>4 DEF k
    <3>2. s[d + 1] \in Items
      BY <3>1
    <3> QED
      BY <2>3, <2>4, <3>2
  <2>5. CASE ~(d < k)
    BY <1>1, <2>3, <2>5 DEF Rings
  <2> QED
    BY <2>4, <2>5
<1>5. b \in Rings
  <2>1. b = [j \in 0 .. Capacity - 1 |-> b[j]]
    BY DEF Filled
  <2> HIDE DEF b
  <2> QED
    BY <1>4, <2>1 DEF Rings
<1>6. ASSUME NEW j \in 0 .. Capacity - 1 PROVE Free(w, j) \/ b[j] = buffer[w][j]
  <2> DEFINE d == (j - t) % Capacity
  <2>1. d \in Nat /\ j = Slot(Plus(t, d))
    BY <1>2
  <2>2. b[j] = IF d < k THEN s[d + 1] ELSE buffer[w][j]
    BY <1>3
  <2> HIDE DEF d, b, k
  <2>3. CASE d < k
    <3>1. Behind(w, head[w].steal) + d < Capacity
      BY <1>1, <2>1, <2>3 DEF k
    <3> QED
      BY <2>1, <3>1 DEF Free
  <2>4. CASE ~(d < k)
    BY <2>2, <2>4
  <2> QED
    BY <2>3, <2>4
<1>7. Ring(b, t, k) = s
  <2>1. Ring(b, t, k) \in Seq(Items) /\ Len(Ring(b, t, k)) = k
    BY <1>1, <1>5, RingTyped
  <2>2. ASSUME NEW j \in 1 .. k PROVE Ring(b, t, k)[j] = s[j]
    <3> DEFINE d == j - 1
               p == Slot(Plus(t, d))
    <3>1. d \in 0 .. Capacity - 1 /\ d < k /\ d \in Nat /\ d + 1 = j
      BY <1>1, <2>2
    <3>2. Ring(b, t, k)[j] = b[p]
      BY <1>1, <1>5, <2>2, RingTyped
    <3>3. p \in 0 .. Capacity - 1
      BY <1>1, <3>1, SlotTyped
    <3>4. (p - t) % Capacity = d
      BY <1>1, <3>1, SlotPlace
    <3> HIDE DEF p, d, b, k
    <3>5. b[p] = s[d + 1]
      BY <1>3, <3>1, <3>3, <3>4
    <3> QED
      BY <3>1, <3>2, <3>5
  <2> HIDE DEF b, k
  <2>3. k = Len(s)
    BY DEF k
  <2> QED
    BY <2>1, <2>2, <2>3, SeqEqual
<1> QED
  BY <1>5, <1>6, <1>7

LEMMA RefillMaps ==
  ASSUME RInv, NEW w \in Workers, Refill(w)
  PROVE  RInv' /\ (UNCHANGED Q!vars \/ Q!Refill(w))
<1> DEFINE n == Least({at[w].n, Len(inject)})
           kept == IF n = 0 THEN 0 ELSE n - 1
           Place(s) == (s - tail[w]) % Capacity
           s == SubSeq(inject, 2, n)
           b == Filled(w, s)
<1>1. /\ IInv /\ TypeOK /\ pc[w] = "refill" /\ pc[w] \notin Batching /\ pc[w] \notin Holding
      /\ at[w].task = NoTask /\ Return(w)
      /\ head' = head /\ tail' = [tail EXCEPT ![w] = Plus(@, kept)]
      /\ inject' = SubSeq(inject, n + 1, Len(inject)) /\ next' = next
  BY DEF Refill, RInv, IInv, Held, Holding, Batching
<1>2. buffer' = [buffer EXCEPT ![w] = [j \in 0 .. Capacity - 1 |->
                    IF Place(j) < kept THEN inject[Place(j) + 2] ELSE buffer[w][j]]]
  BY <1>1 DEF Refill, TypeOK
<1>3. /\ 1 <= at[w].n /\ at[w].n <= Capacity \div 2
      /\ at[w].n = 1 \/ Behind(w, head[w].steal) + at[w].n <= Capacity
  BY <1>1 DEF IInv, OwnKnown
<1>4. /\ IInv' /\ at[w].n \in Nat /\ Behind(w, head[w].steal) \in Nat /\ tail[w] \in Idx
      /\ Len(inject) \in Nat /\ inject \in Seq(Items)
      /\ buffer[w] \in Rings /\ head[w].real \in Idx /\ Behind(w, head[w].real) \in Nat
  BY <1>1, RefillStep, Typed, BehindTyped, NotWritten DEF TypeOK
<1>5. n \in Nat /\ n <= at[w].n /\ n <= Len(inject) /\ (n = 0 => inject = << >>)
  <2> DEFINE m == at[w].n
             c == Len(inject)
  <2>1. m \in Nat /\ c \in Nat /\ m \in Int /\ c \in Int /\ 1 <= m
    BY <1>3, <1>4
  <2> HIDE DEF m, c
  <2>2. {m, c} = {m, c, c}
    OBVIOUS
  <2>3. n = Least({m, c, c})
    BY <2>2 DEF m, c
  <2> HIDE DEF n
  <2>4. n \in {m, c, c} /\ n <= m /\ n <= c
    BY <2>1, <2>3, LeastIs
  <2>5. n = 0 => inject = << >>
    BY <1>4, <2>1, <2>4 DEF c
  <2> QED
    BY <2>1, <2>4, <2>5 DEF m, c
<1> HIDE DEF n
<1>6. Behind(w, head[w].steal) <= Capacity
  BY <1>1 DEF IInv, Ordered
<1>7. kept \in Nat /\ Behind(w, head[w].steal) + kept <= Capacity
  <2> DEFINE m == at[w].n
             d == Behind(w, head[w].steal)
  <2>1. /\ m \in Nat /\ d \in Nat /\ n \in Nat /\ n <= m /\ 1 <= m /\ d <= Capacity
        /\ m = 1 \/ d + m <= Capacity
    BY <1>3, <1>4, <1>5, <1>6
  <2> HIDE DEF m, d
  <2>2. kept \in Nat /\ d + kept <= Capacity
    BY <2>1, Sizes
  <2> QED
    BY <2>2 DEF d
<1>8. s \in Seq(Items) /\ Len(s) = kept /\ \A j \in 1 .. kept : s[j] = inject[j + 1]
  <2>1. CASE n = 0
    <3>1. s \in Seq(Items) /\ Len(s) = 0
      BY <1>4, <1>5, <2>1
    <3> QED
      BY <2>1, <3>1
  <2>2. CASE n # 0
    BY <1>4, <1>5, <2>2, SubSeqProperties
  <2> QED
    BY <2>1, <2>2
<1>9. buffer' = [buffer EXCEPT ![w] = b] /\ buffer'[w] = b
  <2>1. ASSUME NEW j \in 0 .. Capacity - 1
        PROVE  (IF Place(j) < kept THEN inject[Place(j) + 2] ELSE buffer[w][j])
                  = (IF Place(j) < Len(s) THEN s[Place(j) + 1] ELSE buffer[w][j])
    <3> DEFINE d == Place(j)
    <3>1. d \in Nat
      <4>1. (j - tail[w]) % Capacity \in 0 .. Capacity - 1
        BY <1>4, SlotPlace
      <4> QED
        BY <4>1
    <3> HIDE DEF d, s, kept
    <3>2. d < kept => d + 1 \in 1 .. kept /\ (d + 1) + 1 = d + 2
      BY <1>7, <3>1
    <3> QED
      BY <1>8, <3>2 DEF d
  <2>2. b = [j \in 0 .. Capacity - 1 |->
                 IF Place(j) < kept THEN inject[Place(j) + 2] ELSE buffer[w][j]]
    BY <2>1 DEF Filled
  <2> HIDE DEF b
  <2> QED
    BY <1>1, <1>2, <2>2 DEF TypeOK
<1> HIDE DEF s, kept
<1>10. /\ b \in Rings /\ Ring(b, tail[w], kept) = s
       /\ \A j \in 0 .. Capacity - 1 : Free(w, j) \/ b[j] = buffer[w][j]
  BY <1>1, <1>7, <1>8, FillFree
<1> HIDE DEF b
<1>11. tail'[w] = Plus(tail[w], kept)
       /\ \A x \in Workers \ {w} : tail'[x] = tail[x] /\ buffer'[x] = buffer[x]
  BY <1>1, <1>9 DEF TypeOK
<1>12. /\ Goto(w, "idle", Nothing(w)) /\ Nothing(w) \in Locals /\ "idle" \in Labels
       /\ Nothing(w).task = NoTask /\ "idle" \notin Holding /\ Progress(w)' /\ MovingOf(w)' = << >>
  BY <1>1, ReturnKnown, ReturnProgress
<1>13. /\ RInv' /\ NotScheduled' = NotScheduled
       /\ \A x \in Workers \ {w} : pc'[x] = pc[x] /\ at'[x] = at[x]
  BY <1>1, <1>4, <1>11, <1>12, TaskStep
<1>14. QueueOf(w)' = QueueOf(w) \o s
  BY <1>1, <1>7, <1>9, <1>10, <1>11, Joined
<1>15. /\ Queues' = [Queues EXCEPT ![w] = QueueOf(w)']
       /\ Movings' = [Movings EXCEPT ![w] = MovingOf(w)']
  BY <1>1, <1>9, <1>10, <1>11, <1>13, OthersStay
<1>16. MovingOf(w) = << >> /\ Movings' = Movings
  <2>1. MovingOf(w) = << >>
    BY <1>1, MovingIs
  <2> QED
    BY <1>12, <1>15, <2>1 DEF Movings
<1>17. Queues' = [Queues EXCEPT ![w] = @ \o s]
  BY <1>14, <1>15 DEF Queues
<1>18. CASE n = 0
  <2>1. s = << >> /\ inject' = inject
    BY <1>1, <1>4, <1>5, <1>8, <1>18 DEF kept
  <2>2. QueueOf(w) \in Seq(Items)
    BY <1>4, QueueIs, RingTyped
  <2>3. Queues' = Queues
    BY <1>17, <2>1, <2>2, ConcatEmptySeq DEF Queues
  <2>4. UNCHANGED Q!vars
    BY <1>13, <1>16, <2>1, <2>3 DEF Q!vars, Queues, Movings
  <2> QED
    BY <1>13, <2>4
<1>19. CASE n # 0
  <2>1. n \in 1 .. Len(inject)
    BY <1>4, <1>5, <1>19
  <2>2. Tail(Q!First(inject, n)) = s
    <3> DEFINE f == SubSeq(inject, 1, n)
    <3>1. f \in Seq(Items) /\ Len(f) = n /\ \A j \in 1 .. n : f[j] = inject[j]
      BY <1>4, <1>5, SubSeqProperties
    <3> HIDE DEF f
    <3>2. /\ Tail(f) \in Seq(Items) /\ Len(Tail(f)) = n - 1
          /\ \A j \in 1 .. n - 1 : Tail(f)[j] = f[j + 1]
      BY <1>5, <1>19, <3>1
    <3>3. kept = n - 1
      BY <1>19 DEF kept
    <3>4. \A j \in 1 .. kept : Tail(f)[j] = s[j]
      BY <1>5, <1>8, <3>1, <3>2, <3>3
    <3>5. Tail(f) = s
      BY <1>8, <3>2, <3>3, <3>4, SeqEqual
    <3> QED
      BY <3>5 DEF Q!First, f
  <2>3. inject' = Q!Rest(inject, n)
    BY <1>1 DEF Q!Rest
  <2>4. Queues' = [Queues EXCEPT ![w] = @ \o Tail(Q!First(inject, n))]
    BY <1>17, <2>2
  <2>5. Q!Refill(w)
    BY <1>13, <1>16, <2>1, <2>3, <2>4 DEF Q!Refill, Queues, Movings
  <2> QED
    BY <1>13, <2>5
<1> QED
  BY <1>18, <1>19

-----------------------------------------------------------------------------
(* The refinement.                                                             *)

LEMMA InitMaps == ASSUME Init PROVE RInv /\ Q!Init
<1>1. IInv
  BY InitIInv
<1>2. PICK i \in Starts : /\ head = [w \in Workers |-> pack(i, i)]
                          /\ tail = [w \in Workers |-> i]
  BY DEF Init
<1>3. /\ next = 1 /\ inject = << >> /\ pc = [w \in Workers |-> "idle"]
      /\ at = [w \in Workers |-> Nothing(w)]
  BY DEF Init
<1>4. \A w \in Workers : pc[w] = "idle" /\ at[w].task = NoTask
  BY <1>3 DEF Nothing
<1>5. Held /\ \A w \in Workers : Progress(w)
  BY <1>4 DEF Held, Holding, Progress
<1>6. NotScheduled = Tasks
  BY <1>3, <1>4 DEF NotScheduled, Tasks
<1>7. ASSUME NEW w \in Workers PROVE QueueOf(w) = << >> /\ MovingOf(w) = << >>
  <2>1. i \in Idx /\ head[w].real = i /\ tail[w] = i
    BY <1>2, StealQueueAssumption DEF Idx, pack
  <2>2. Behind(w, head[w].real) = 0
    BY <2>1, SameIndex DEF Behind
  <2>3. QueueOf(w) = << >>
    BY <1>1, <2>1, <2>2, QueueIs, RingNone, NotWritten DEF IInv
  <2> QED
    BY <1>4, <2>3, MovingIs
<1> QED
  BY <1>1, <1>3, <1>5, <1>6, <1>7 DEF RInv, Q!Init

LEMMA StayMaps == ASSUME RInv, UNCHANGED vars PROVE RInv' /\ UNCHANGED Q!vars
<1>1. IInv'
  BY NextIInv DEF RInv
<1>2. Held' /\ \A w \in Workers : Progress(w)'
  BY DEF RInv, Held, Progress, vars
<1>3. NotScheduled' = NotScheduled
  BY DEF NotScheduled, vars
<1>4. \A w \in Workers : QueueOf(w)' = QueueOf(w) /\ MovingOf(w)' = MovingOf(w)
  BY DEF QueueOf, MovingOf, Batch, vars
<1> QED
  BY <1>1, <1>2, <1>3, <1>4 DEF RInv, Q!vars, vars

LEMMA NextMaps == ASSUME RInv, [Next]_vars PROVE RInv' /\ [Q!Next]_(Q!vars)
<1>1. CASE Next
  <2>1. PICK w \in Workers :
            \/ Schedule(w) \/ PushLoad(w) \/ PushWrite(w) \/ PushTail(w)
            \/ OverflowCas(w) \/ OverflowRead(w)
            \/ PopLoad(w) \/ PopCas(w) \/ PopRead(w)
            \/ StealStart(w) \/ StealHead(w) \/ StealTail(w) \/ StealCas(w)
            \/ Copy(w) \/ ReleaseCas(w) \/ Expose(w)
            \/ RefillStart(w) \/ Refill(w)
    BY <1>1 DEF Next
  <2>2. /\ RInv'
        /\ \/ UNCHANGED Q!vars
           \/ Q!Push(w) \/ Q!Keep(w) \/ Q!Overflow(w) \/ Q!Refill(w)
           \/ \E v \in Workers : Q!Take(w, v)
    BY <2>1, ScheduleMaps, PushLoadMaps, PushWriteMaps, PushTailMaps, OverflowCasMaps,
       OverflowReadMaps, PopLoadMaps, PopCasMaps, PopReadMaps, StealStartMaps, StealHeadMaps,
       StealTailMaps, StealCasMaps, CopyMaps, ReleaseCasMaps, ExposeMaps, RefillStartMaps,
       RefillMaps
  <2> QED
    BY <2>2 DEF Q!Next
<1>2. CASE UNCHANGED vars
  BY <1>2, StayMaps
<1> QED
  BY <1>1, <1>2

(* The ring buffers implement the FIFO queues of RunQueues: whatever owner and *)
(* stealers do at the same time, a task is run or moved by one worker, and     *)
(* none is lost, duplicated or overtaken.                                      *)
THEOREM Implements == Spec => ImplementsRunQueues
<1>1. Init => RInv /\ Q!Init
  BY InitMaps
<1>2. RInv /\ [Next]_vars => RInv' /\ [Q!Next]_(Q!vars)
  BY NextMaps
<1> QED
  BY <1>1, <1>2, PTL DEF Spec, ImplementsRunQueues, Q!Spec
=============================================================================
