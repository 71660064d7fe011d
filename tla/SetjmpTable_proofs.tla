------------------------- MODULE SetjmpTable_proofs -------------------------
(***************************************************************************)
(* The setjmp table, for any number of jmp_bufs, labels, slots and calls:  *)
(* the size stays within the table, and a longjmp finds its label as long  *)
(* as the table has not grown.                                             *)
(***************************************************************************)
EXTENDS SetjmpTable, Integers, WellFoundedInduction, SequenceTheorems, TLAPS

\* An entry a slot can hold: garbage, or one that saveSetjmp wrote.
Slot == [id : Nat, label : Labels]

\* A call in progress.
Calls == [active : {TRUE}, env : Envs, label : Labels, table : Seq(Slot),
          size : Nat, grown : Nat]

\* The table of the function and the one of the call in progress: each as long
\* as its size says, or longer.  A growth within a growth leaves it longer: the
\* caller hears the size of the first.
Sizes ==
  /\ setjmpId \in Nat
  /\ env \in [Envs -> Nat]
  /\ saved \in [Envs -> Nat]
  /\ table \in Seq(Slot) /\ size \in Nat /\ size <= Len(table)
  /\ call \in Calls \cup {NoCall}
  /\ call.active => /\ call.size <= Len(call.table) /\ call.grown <= call.size
                    /\ setjmpId # 0

\* The slots before the first free one, of the n that the size names.
Used(t, n) == {i \in 1..n : \A j \in 1..n : j <= i => t[j].id # 0}

\* The table until it grows: the ids in use were given out, each once, and every
\* jmp_buf that was saved has its id and label in one of them.
Recorded ==
  /\ \A i \in Used(table, size) : table[i].id <= setjmpId
  /\ \A i, j \in Used(table, size) : table[i].id = table[j].id => i = j
  /\ call.active =>
       /\ call.table = table /\ call.size = size /\ call.grown = 0
       /\ env[call.env] = setjmpId
       /\ \A i \in Used(table, size) : table[i].id # setjmpId
  /\ \A e \in Envs : saved[e] # 0 /\ (call.active => e # call.env) =>
       \E i \in Used(table, size) : table[i].id = env[e] /\ table[i].label = saved[e]

Entries == ~grown => Recorded

\* The inductive invariant.
IInv == Sizes /\ Entries

-----------------------------------------------------------------------------
\* A set of slots that is not empty has a first one.
LEMMA FirstIs ==
  ASSUME NEW S \in SUBSET Nat, S # {}
  PROVE  First(S) \in S /\ \A j \in S : First(S) <= j
<1> DEFINE R == {xy \in Nat \X Nat : xy[1] < xy[2]}
<1>1. IsWellFoundedOn(R, Nat)
  BY NatLessThanWellFounded DEF OpToRel
<1> HIDE DEF R
<1>2. PICK x \in S : \A y \in S : <<y, x>> \notin R
  BY <1>1, WFMin
<1>3. \A y \in S : ~(y < x)
  BY <1>2 DEF R
<1>4. \A y \in S : x <= y
  BY <1>3
<1> QED
  BY <1>4 DEF First

\* The slots in use are those before the first free one.
LEMMA UsedIs ==
  ASSUME NEW t \in Seq(Slot), NEW n \in Nat, n <= Len(t), Free(t, n) # {}
  PROVE  /\ First(Free(t, n)) \in 1..n
         /\ Used(t, n) = 1..(First(Free(t, n)) - 1)
<1>1. Free(t, n) \subseteq 1..n /\ Free(t, n) \subseteq Nat
  BY DEF Free
<1>2. First(Free(t, n)) \in Free(t, n) /\ \A j \in Free(t, n) : First(Free(t, n)) <= j
  BY <1>1, FirstIs
<1> DEFINE f == First(Free(t, n))
<1>3. f \in 1..n /\ t[f].id = 0 /\ \A i \in 1..n : i < f => t[i].id # 0
  <2>1. \A i : i \in Free(t, n) <=> i \in 1..n /\ t[i].id = 0
    BY DEF Free
  <2>2. \A i \in 1..n : i < f => ~(f <= i)
    BY <1>1, <1>2
  <2> QED
    BY <1>2, <2>1, <2>2
<1> HIDE DEF f
<1>4. \A i \in 1..(f - 1) : i \in 1..n /\ \A j \in 1..n : j <= i => j < f
  BY <1>3
<1>5. \A i \in 1..n : (f <= i \/ i < f) /\ (i < f => i \in 1..(f - 1))
  BY <1>3
<1>6. Used(t, n) = 1..(f - 1)
  BY <1>3, <1>4, <1>5 DEF Used
<1> QED
  BY <1>3, <1>6 DEF f

\* What Place makes of the table.
Placed(t, n, id, label) ==
  WithNextSlot([t EXCEPT ![First(Free(t, n))] = [id |-> id, label |-> label]],
               First(Free(t, n)), n)

\* The first free slot is taken, the next one free.
LEMMA PlacedIs ==
  ASSUME NEW t \in Seq(Slot), NEW n \in Nat, n <= Len(t), Free(t, n) # {},
         NEW id \in Nat \ {0}, NEW label \in Labels
  PROVE  /\ Placed(t, n, id, label) \in Seq(Slot)
         /\ Len(Placed(t, n, id, label)) = Len(t)
         /\ First(Free(t, n)) \in 1..n
         /\ Used(t, n) = 1..(First(Free(t, n)) - 1)
         /\ Used(Placed(t, n, id, label), n) = 1..First(Free(t, n))
         /\ \A j \in Used(t, n) : Placed(t, n, id, label)[j] = t[j]
         /\ Placed(t, n, id, label)[First(Free(t, n))].id = id
         /\ Placed(t, n, id, label)[First(Free(t, n))].label = label
<1> DEFINE i == First(Free(t, n))
           p == Placed(t, n, id, label)
<1>0. p = WithNextSlot([t EXCEPT ![i] = [id |-> id, label |-> label]], i, n)
  BY DEF Placed
<1> HIDE DEF p
<1> DEFINE q == [t EXCEPT ![i] = [id |-> id, label |-> label]]
<1>1. /\ i \in 1..n /\ Used(t, n) = 1..(i - 1) /\ Len(t) \in Nat /\ DOMAIN t = 1..Len(t)
      /\ 1..n \subseteq DOMAIN t
      /\ \A j \in 1..(i - 1) : t[j].id # 0
  <2>1. i \in 1..n /\ Used(t, n) = 1..(i - 1)
    BY UsedIs DEF i
  <2>2. \A j \in Used(t, n) : t[j].id # 0
    BY DEF Used
  <2> QED
    BY <2>1, <2>2
<1>2. /\ q \in Seq(Slot) /\ Len(q) = Len(t) /\ DOMAIN q = DOMAIN t
      /\ q[i].id = id /\ q[i].label = label
      /\ \A j \in DOMAIN t : j # i => q[j] = t[j]
  BY <1>1 DEF Slot
<1> HIDE DEF q, i
<1>3. /\ p \in Seq(Slot) /\ Len(p) = Len(t)
      /\ p[i] = q[i]
      /\ \A j \in 1..(i - 1) : p[j] = t[j]
      /\ i + 1 \in 1..n => p[i + 1].id = 0
  <2>1. CASE i + 1 \in 1..n
    <3>1. p = [q EXCEPT ![i + 1] = [q[i + 1] EXCEPT !.id = 0]]
      BY <1>0, <2>1 DEF WithNextSlot, q
    <3>2. i + 1 \in DOMAIN q /\ q[i + 1] \in Slot
      BY <1>1, <1>2, <2>1
    <3>3. [q[i + 1] EXCEPT !.id = 0] \in Slot /\ [q[i + 1] EXCEPT !.id = 0].id = 0
      BY <3>2 DEF Slot
    <3>4. p[i + 1].id = 0 /\ \A j \in DOMAIN q : j # i + 1 => p[j] = q[j]
      BY <3>1, <3>2, <3>3
    <3>5. p \in Seq(Slot) /\ Len(p) = Len(q)
      <4> DEFINE s == [q[i + 1] EXCEPT !.id = 0]
      <4>1. s \in Slot
        BY <3>3
      <4> HIDE DEF s
      <4>2. p = [q EXCEPT ![i + 1] = s]
        BY <3>1 DEF s
      <4> QED
        <5> DEFINE k == i + 1
        <5>1. k \in 1..Len(q) /\ p = [q EXCEPT ![k] = s]
          BY <1>2, <3>2, <4>2
        <5> HIDE DEF k
        <5> QED
          BY <1>2, <4>1, <5>1, ExceptSeq
    <3>6. i # i + 1 /\ i \in DOMAIN q /\ \A j \in 1..(i - 1) : j \in DOMAIN q /\ j # i /\ j # i + 1
      BY <1>1, <1>2
    <3> QED
      BY <1>2, <3>4, <3>5, <3>6
  <2>2. CASE i + 1 \notin 1..n
    <3>1. p = q
      BY <1>0, <2>2 DEF WithNextSlot, q
    <3>2. \A j \in 1..(i - 1) : j \in DOMAIN t /\ j # i
      BY <1>1
    <3> QED
      BY <1>2, <2>2, <3>1, <3>2
  <2> QED
    BY <2>1, <2>2
<1>4. Used(p, n) = 1..i
  <2>1. \A j \in 1..i : j = i \/ j \in 1..(i - 1)
    BY <1>1
  <2>2. \A j \in 1..i : p[j].id # 0
    BY <1>1, <1>2, <1>3, <2>1
  <2>3. \A j \in 1..n : j \in 1..i \/ (i + 1 \in 1..n /\ i + 1 <= j)
    BY <1>1
  <2>4. \A j \in 1..i : j \in 1..n /\ \A k \in 1..n : k <= j => k \in 1..i
    BY <1>1
  <2>5. Used(p, n) \subseteq 1..i
    BY <1>3, <2>3 DEF Used
  <2>6. 1..i \subseteq Used(p, n)
    BY <2>2, <2>4 DEF Used
  <2> QED
    BY <2>5, <2>6
<1>5. \A j \in Used(t, n) : p[j] = t[j]
  BY <1>1, <1>3
<1>6. p[i].id = id /\ p[i].label = label
  BY <1>2, <1>3
<1> QED
  BY <1>1, <1>3, <1>4, <1>5, <1>6 DEF i, p

\* Memory that malloc returns is a table.
LEMMA GarbageIs ==
  ASSUME NEW n \in Nat, NEW g \in Garbage(n)
  PROVE  g \in Seq(Slot) /\ Len(g) = n
<1>1. Entry \subseteq Slot
  BY SetjmpAssumption DEF Entry, Slot
<1>2. g \in [1..n -> Slot]
  BY <1>1 DEF Garbage
<1> QED
  BY <1>2

-----------------------------------------------------------------------------
\* A new table's first slot is free: nothing is in use.
LEMMA InitIInv == Init => IInv
<1> SUFFICES ASSUME Init PROVE IInv
  OBVIOUS
<1>1. size \in Nat \ {0} /\ table \in Garbage(size) /\ table[1].id = 0
  BY SetjmpAssumption DEF Init
<1>2. /\ table \in Seq(Slot) /\ Len(table) = size
  BY <1>1, GarbageIs
<1>3. Used(table, size) = {}
  BY <1>1 DEF Used
<1>4. call = NoCall /\ ~call.active
  BY DEF Init, NoCall
<1>5. Sizes
  BY <1>1, <1>2, <1>4 DEF Init, Sizes
<1>6. Entries
  BY <1>2, <1>3, <1>4 DEF Init, Entries, Recorded
<1> QED
  BY <1>5, <1>6 DEF IInv

\* Entering saveSetjmp takes an id no entry has.
LEMMA SaveStep ==
  ASSUME IInv, NEW e \in Envs, NEW label \in Labels, Save(e, label)
  PROVE  IInv'
<1>1. /\ ~call.active /\ setjmpId' = setjmpId + 1
      /\ env' = [env EXCEPT ![e] = setjmpId + 1]
      /\ call' = [active |-> TRUE, env |-> e, label |-> label,
                  table |-> table, size |-> size, grown |-> 0]
      /\ UNCHANGED <<table, size, saved, grown>>
  BY DEF Save, NewId
<1>2. /\ setjmpId \in Nat /\ env \in [Envs -> Nat] /\ saved \in [Envs -> Nat]
      /\ table \in Seq(Slot) /\ size \in Nat /\ size <= Len(table)
  BY DEF IInv, Sizes
<1>3. /\ call'.active /\ call'.env = e /\ call'.table = table /\ call'.size = size
      /\ call'.grown = 0 /\ call' \in Calls
  BY <1>1, <1>2 DEF Calls
<1>4. Sizes'
  BY <1>1, <1>2, <1>3 DEF Sizes
<1>5. ASSUME ~grown PROVE Recorded'
  <2>1. /\ \A i \in Used(table, size) : table[i].id <= setjmpId /\ table[i].id \in Nat
        /\ \A i, j \in Used(table, size) : table[i].id = table[j].id => i = j
        /\ \A f \in Envs : saved[f] # 0 =>
             \E i \in Used(table, size) : table[i].id = env[f] /\ table[i].label = saved[f]
    <3>1. Recorded
      BY <1>1, <1>5 DEF IInv, Entries
    <3>2. \A i \in Used(table, size) : i \in DOMAIN table
      BY <1>2 DEF Used
    <3>3. \A i \in Used(table, size) : table[i].id \in Nat
      <4>1. \A i \in DOMAIN table : table[i] \in Slot
        BY <1>2
      <4> QED
        BY <3>2, <4>1 DEF Slot
    <3> QED
      BY <1>1, <3>1, <3>3 DEF Recorded
  <2>2. Used(table, size)' = Used(table, size)
    BY <1>1 DEF Used
  <2>3. \A i \in Used(table, size) : table[i].id <= setjmpId + 1 /\ table[i].id # setjmpId + 1
    BY <1>2, <2>1
  <2>4. env'[e] = setjmpId' /\ setjmpId' # 0 /\ \A f \in Envs : f # e => env'[f] = env[f]
    BY <1>1, <1>2
  <2> QED
    BY <1>1, <1>3, <2>1, <2>2, <2>3, <2>4 DEF Recorded
<1>6. Entries'
  BY <1>1, <1>5 DEF Entries
<1> QED
  BY <1>4, <1>6 DEF IInv

\* Placing the entry: the id and the label of the call are in the slot that was
\* the first free one, and every other slot in use is as it was.
LEMMA PlaceStep ==
  ASSUME IInv, Place
  PROVE  IInv'
<1> DEFINE t == call.table
           n == call.size
           i == First(Free(t, n))
           p == Placed(t, n, setjmpId, call.label)
<1>1. /\ call.active /\ Free(t, n) # {}
      /\ table' = p /\ size' = Answer /\ call' = NoCall
      /\ saved' = [saved EXCEPT ![call.env] = call.label]
      /\ UNCHANGED <<setjmpId, env, grown>>
  BY DEF Place, Placed
<1>2. /\ setjmpId \in Nat /\ env \in [Envs -> Nat] /\ saved \in [Envs -> Nat]
      /\ call \in Calls /\ n <= Len(t) /\ call.grown <= n
  BY <1>1 DEF IInv, Sizes, NoCall
<1>3. /\ call.env \in Envs /\ call.label \in Labels /\ call.label \in Nat
      /\ t \in Seq(Slot) /\ n \in Nat /\ call.grown \in Nat
  BY <1>2, SetjmpAssumption DEF Calls
<1>4. setjmpId # 0
  BY <1>1 DEF IInv, Sizes
<1>5. /\ p \in Seq(Slot) /\ Len(p) = Len(t)
      /\ i \in 1..n /\ Used(t, n) = 1..(i - 1) /\ Used(p, n) = 1..i
      /\ \A j \in Used(t, n) : p[j] = t[j]
      /\ p[i].id = setjmpId /\ p[i].label = call.label
  <2>1. Free(t, n) # {} /\ n <= Len(t)
    BY <1>1, <1>2
  <2>2. t \in Seq(Slot) /\ n \in Nat /\ setjmpId \in Nat \ {0} /\ call.label \in Labels
    BY <1>2, <1>3, <1>4
  <2> HIDE DEF t, n
  <2> QED
    BY <2>1, <2>2, PlacedIs
<1> HIDE DEF p, i
<1>6. ~call'.active
  BY <1>1 DEF NoCall
<1>7. Sizes'
  <2>1. Answer \in Nat /\ Answer <= n
    BY <1>2, <1>3 DEF Answer
  <2>2. saved' \in [Envs -> Nat]
    BY <1>1, <1>2, <1>3
  <2> QED
    BY <1>1, <1>2, <1>3, <1>5, <1>6, <2>1, <2>2 DEF Sizes
<1>8. ASSUME ~grown PROVE Recorded'
  <2>1. /\ t = table /\ n = size /\ call.grown = 0 /\ env[call.env] = setjmpId
        /\ \A j \in Used(t, n) : t[j].id <= setjmpId /\ t[j].id # setjmpId
        /\ \A j, k \in Used(t, n) : t[j].id = t[k].id => j = k
        /\ \A e \in Envs : saved[e] # 0 /\ e # call.env =>
             \E j \in Used(t, n) : t[j].id = env[e] /\ t[j].label = saved[e]
    BY <1>1, <1>8 DEF IInv, Entries, Recorded
  <2>2. table' = p /\ size' = n /\ Used(table, size)' = 1..i
    BY <1>1, <1>5, <2>1 DEF Answer, Used
  <2>3. /\ \A j \in 1..(i - 1) : p[j] = t[j] /\ p[j].id <= setjmpId /\ p[j].id # setjmpId
        /\ \A j \in 1..i : j # i => j \in 1..(i - 1)
        /\ \A j \in 1..(i - 1) : j \in 1..i
        /\ i \in 1..i
    BY <1>5, <2>1
  <2>4. \A j \in 1..i : p[j].id <= setjmpId
    BY <1>2, <1>5, <2>3
  <2>5. \A j, k \in 1..i : p[j].id = p[k].id => j = k
    <3>1. p[i].id = setjmpId /\ \A j \in 1..i : j # i => p[j].id # setjmpId
      BY <1>5, <2>3
    <3>2. \A j, k \in 1..(i - 1) : p[j].id = p[k].id => j = k
      BY <1>5, <2>1, <2>3
    <3> QED
      BY <2>3, <3>1, <3>2
  <2>6. ASSUME NEW e \in Envs, saved'[e] # 0
        PROVE  \E j \in 1..i : p[j].id = env[e] /\ p[j].label = saved'[e]
    <3>1. CASE e = call.env
      BY <1>1, <1>2, <1>5, <2>1, <2>3, <3>1
    <3>2. CASE e # call.env
      <4>1. saved[e] # 0 /\ saved'[e] = saved[e]
        BY <1>1, <1>2, <2>6, <3>2
      <4>2. PICK j \in 1..(i - 1) : t[j].id = env[e] /\ t[j].label = saved[e]
        BY <1>5, <2>1, <3>2, <4>1
      <4> QED
        BY <2>3, <4>1, <4>2
    <3> QED
      BY <3>1, <3>2
  <2> QED
    BY <1>1, <1>6, <2>2, <2>4, <2>5, <2>6 DEF Recorded
<1> QED
  BY <1>1, <1>7, <1>8 DEF IInv, Entries

\* After a growth nothing is said of the entries; the sizes double with the table.
LEMMA GrowStep ==
  ASSUME IInv, Grow
  PROVE  IInv'
<1>1. PICK g \in Garbage(2 * call.size) :
        call' = [call EXCEPT !.table = g, !.size = 2 * call.size,
                             !.grown = IF call.grown = 0 THEN 2 * call.size ELSE call.grown]
  BY DEF Grow
<1>2. /\ call.active /\ setjmpId' = setjmpId + 1 /\ grown' = TRUE
      /\ env' = [env EXCEPT ![call.env] = setjmpId + 1]
      /\ UNCHANGED <<table, size, saved>>
  BY DEF Grow, NewId
<1>3. /\ setjmpId \in Nat /\ env \in [Envs -> Nat] /\ saved \in [Envs -> Nat]
      /\ table \in Seq(Slot) /\ size \in Nat /\ size <= Len(table)
      /\ call \in Calls /\ call.grown <= call.size
      /\ call.size \in Nat /\ call.grown \in Nat /\ 2 * call.size \in Nat
  <2>1. call \in Calls
    BY <1>2 DEF IInv, Sizes, NoCall
  <2>2. call.size \in Nat /\ call.grown \in Nat
    BY <2>1 DEF Calls
  <2> QED
    BY <1>2, <2>1, <2>2 DEF IInv, Sizes
<1>4. g \in Seq(Slot) /\ Len(g) = 2 * call.size
  BY <1>3, GarbageIs
<1>5. /\ call' \in Calls /\ call'.table = g /\ call'.size = 2 * call.size
      /\ call'.grown <= 2 * call.size
  <2> DEFINE k == IF call.grown = 0 THEN 2 * call.size ELSE call.grown
  <2>1. k \in Nat /\ k <= 2 * call.size
    BY <1>3
  <2> HIDE DEF k
  <2>2. call' = [call EXCEPT !.table = g, !.size = 2 * call.size, !.grown = k]
    BY <1>1 DEF k
  <2> QED
    BY <1>3, <1>4, <2>1, <2>2 DEF Calls
<1>6. Sizes'
  <2>1. call.env \in Envs /\ setjmpId' \in Nat /\ setjmpId' # 0
    BY <1>2, <1>3 DEF Calls
  <2>2. env' \in [Envs -> Nat]
    BY <1>2, <1>3, <2>1
  <2> QED
    BY <1>2, <1>3, <1>4, <1>5, <2>1, <2>2 DEF Sizes
<1> QED
  BY <1>2, <1>6 DEF IInv, Entries

LEMMA NextIInv == IInv /\ [Next]_vars => IInv'
<1> SUFFICES ASSUME IInv, [Next]_vars PROVE IInv'
  OBVIOUS
<1>1. ASSUME NEW e \in Envs, NEW label \in Labels, Save(e, label) PROVE IInv'
  BY <1>1, SaveStep
<1>2. CASE Place
  BY <1>2, PlaceStep
<1>3. CASE Grow
  BY <1>3, GrowStep
<1>4. CASE UNCHANGED vars
  BY <1>4 DEF vars, IInv, Sizes, Entries, Recorded, Used
<1> QED
  BY <1>1, <1>2, <1>3, <1>4 DEF Next

-----------------------------------------------------------------------------
\* What is recorded is what testSetjmp finds: the slot with the id is the first
\* with that id or none, since every slot in use before it has another id.
LEMMA Found == IInv => SavedIsFoundUntilGrowth
<1> SUFFICES ASSUME IInv, ~grown, ~call.active, NEW e \in Envs, saved[e] # 0
             PROVE  testSetjmp(env[e], table, size) = saved[e]
  BY DEF SavedIsFoundUntilGrowth, SavedIsFound
<1> DEFINE ends == {j \in 1..size : table[j].id \in {0, env[e]}}
<1>1. size \in Nat
  BY DEF IInv, Sizes
<1>2. PICK i \in Used(table, size) : table[i].id = env[e] /\ table[i].label = saved[e]
  BY DEF IInv, Entries, Recorded
<1>3. /\ i \in 1..size /\ i \in ends
      /\ \A j \in 1..size : j <= i => j \in Used(table, size)
  BY <1>1, <1>2 DEF Used
<1>4. \A j \in ends : j <= i => j = i
  <2> SUFFICES ASSUME NEW j \in ends, j <= i PROVE j = i
    OBVIOUS
  <2>1. j \in Used(table, size) /\ table[j].id # 0
    BY <1>1, <1>3 DEF Used
  <2>2. table[j].id = table[i].id
    BY <1>2, <2>1
  <2> QED
    BY <1>2, <2>1, <2>2 DEF IInv, Entries, Recorded
<1>5. First(ends) \in ends /\ First(ends) <= i
  BY <1>3, FirstIs
<1>6. First(ends) = i
  BY <1>4, <1>5
<1> HIDE DEF ends
<1>7. ends # {} /\ table[First(ends)].id = env[e] /\ table[First(ends)].label = saved[e]
  BY <1>2, <1>3, <1>6
<1> QED
  BY <1>7 DEF testSetjmp, ends

\* The sizes fit the tables, and until the first growth the table records every save.
THEOREM Invariant == Spec => []IInv
<1>1. Init => IInv
  BY InitIInv
<1>2. IInv /\ [Next]_vars => IInv'
  BY NextIInv
<1> QED
  BY <1>1, <1>2, PTL DEF Spec

\* The size the function holds never exceeds its table, in any number of calls and
\* growths: testSetjmp and saveSetjmp stay within it (importObject.ts:125, :170).
THEOREM SizeKept == Spec => []SizeWithinTable
<1>1. IInv => SizeWithinTable
  BY DEF IInv, Sizes, SizeWithinTable
<1> QED
  BY <1>1, Invariant, PTL

\* As long as the table is the first one, a longjmp resumes where its jmp_buf was
\* last saved, for any garbage in the slots that were not used yet.
THEOREM FoundUntilGrowth == Spec => []SavedIsFoundUntilGrowth
<1> QED
  BY Found, Invariant, PTL
=============================================================================
