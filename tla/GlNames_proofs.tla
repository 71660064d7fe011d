---------------------------- MODULE GlNames_proofs ----------------------------
(* A GL context of the binding.  Its name tables, for any kinds, objects and   *)
(* array lengths: they match WebGL and the program also when a call failed     *)
(* halfway, and a name is never given to a second object.  And its uploads of  *)
(* pixels, for any sizes: which views are too short, and what throws.          *)
EXTENDS GlNames, PixelUpload, TLAPS

(* The inductive invariant.  The three parts need each other: that a name in   *)
(* use is below the counter (TypeOK) makes a new one fresh, that the program   *)
(* holds what the table has (ClientHoldsNames) says what a failing call could  *)
(* strand, and the table is emptied of what WebGL deletes (TablesMatchGl).     *)
IInv == TypeOK /\ TablesMatchGl /\ ClientHoldsNames

-----------------------------------------------------------------------------
\* No table, no object, no name: the invariant holds at the start.
LEMMA InitIInv == Init => IInv
<1> SUFFICES ASSUME Init PROVE IInv
  OBVIOUS
<1>1. \A k \in Kinds : Names(k) = {} /\ table[k] \in [{} -> Objects]
  BY DEF Init, Names
<1>2. TypeOK
  <2>1. nextId \in [Kinds -> Nat \ {0}] /\ DOMAIN table = Kinds
    BY DEF Init
  <2>2. /\ alive \in [Kinds -> SUBSET Objects] /\ held \in [Kinds -> SUBSET (Nat \ {0})]
        /\ bound \in [Kinds -> Objects \cup {NoObject}]
    BY DEF Init
  <2>3. grown \in BOOLEAN /\ running \in BOOLEAN
    BY DEF Init
  <2> QED
    BY <1>1, <2>1, <2>2, <2>3 DEF TypeOK
<1>3. TablesMatchGl
  BY <1>1 DEF Init, TablesMatchGl
<1>4. ClientHoldsNames
  BY <1>1 DEF Init, ClientHoldsNames
<1> QED
  BY <1>2, <1>3, <1>4 DEF IInv

\* What glGen* does to the tables, however far it came: `made` objects under
\* fresh names, all but at most the last of them written to the program's array.
LEMMA GenKeeps ==
  ASSUME IInv, running, NEW k \in Kinds,
         NEW made \in Nat, NEW written \in Nat,
         written <= made, made <= written + 1,
         MakeNames(k, made, written),
         running' \in BOOLEAN, running' => made = written,
         UNCHANGED <<bound, grown>>
  PROVE  IInv'
<1>0. PICK o \in [NextNames(k, made) -> Objects \ alive[k]] :
        /\ \A i, j \in NextNames(k, made) : o[i] = o[j] => i = j
        /\ table' = [table EXCEPT ![k] = Extend(@, NextNames(k, made), o)]
        /\ alive' = [alive EXCEPT ![k] = @ \cup {o[i] : i \in NextNames(k, made)}]
        /\ nextId' = [nextId EXCEPT ![k] = @ + made]
        /\ held' = [held EXCEPT ![k] = @ \cup NextNames(k, written)]
  BY DEF MakeNames
<1> DEFINE new == NextNames(k, made)
<1>1. TypeOK /\ TablesMatchGl /\ ClientHoldsNames
  BY DEF IInv
<1>2. /\ nextId[k] \in Nat \ {0}
      /\ Names(k) \subseteq 1 .. (nextId[k] - 1)
      /\ table[k] \in [Names(k) -> Objects]
      /\ alive[k] \subseteq Objects
      /\ held = [l \in Kinds |-> Names(l)]
      /\ DOMAIN table = Kinds
  BY <1>1 DEF TypeOK, ClientHoldsNames
<1>3. /\ new \subseteq Nat \ {0}
      /\ new \cap Names(k) = {}
      /\ new \subseteq 1 .. (nextId[k] + made - 1)
  BY <1>2 DEF NextNames
<1>4. /\ Names(k)' = Names(k) \cup new
      /\ \A id \in new : table'[k][id] = o[id]
      /\ \A id \in Names(k) : table'[k][id] = table[k][id]
      /\ table'[k] \in [Names(k) \cup new -> Objects]
  <2>1. table'[k] = Extend(table[k], new, o)
    BY <1>0, <1>2
  <2>2. /\ DOMAIN table'[k] = DOMAIN table[k] \cup new
        /\ \A id \in new : table'[k][id] = o[id]
        /\ \A id \in DOMAIN table[k] \ new : table'[k][id] = table[k][id]
    BY <2>1 DEF Extend
  <2>3. table'[k] \in [DOMAIN table[k] \cup new -> Objects]
    BY <1>2, <2>1 DEF Extend, Names
  <2> QED
    BY <1>3, <2>2, <2>3 DEF Names
<1>5. \A l \in Kinds \ {k} : /\ table'[l] = table[l] /\ Names(l)' = Names(l)
                             /\ alive'[l] = alive[l] /\ nextId'[l] = nextId[l]
                             /\ held'[l] = held[l]
  BY <1>0, <1>1, <1>2 DEF TypeOK, Names
<1>6. alive'[k] = alive[k] \cup {o[i] : i \in new} /\ held'[k] = Names(k) \cup NextNames(k, written)
  BY <1>0, <1>1, <1>2 DEF TypeOK
<1>7. TypeOK'
  <2>1. nextId' \in [Kinds -> Nat \ {0}] /\ nextId'[k] = nextId[k] + made
    BY <1>0, <1>1, <1>2 DEF TypeOK
  <2>2. DOMAIN table' = Kinds
    BY <1>0, <1>2
  <2>3. \A l \in Kinds : Names(l)' \subseteq 1 .. (nextId'[l] - 1)
    BY <1>1, <1>2, <1>3, <1>4, <1>5, <2>1 DEF TypeOK
  <2>4. \A l \in Kinds : table'[l] \in [Names(l)' -> Objects]
    BY <1>1, <1>4, <1>5 DEF TypeOK
  <2>5. {o[i] : i \in new} \subseteq Objects
    OBVIOUS
  <2>6. alive' \in [Kinds -> SUBSET Objects]
    BY <1>0, <1>1, <2>5 DEF TypeOK
  <2>7. NextNames(k, written) \subseteq Nat \ {0}
    BY <1>2 DEF NextNames
  <2>8. held' \in [Kinds -> SUBSET (Nat \ {0})]
    BY <1>0, <1>1, <2>7 DEF TypeOK
  <2> QED
    BY <1>1, <2>1, <2>2, <2>3, <2>4, <2>6, <2>8 DEF TypeOK
<1>8. TablesMatchGl'
  <2>1. {table'[k][id] : id \in Names(k)'} = alive'[k]
    BY <1>1, <1>4, <1>6 DEF TablesMatchGl
  <2>2. \A i, j \in Names(k)' : table'[k][i] = table'[k][j] => i = j
    <3>1. \A i \in Names(k) : table[k][i] \in alive[k]
      BY <1>1 DEF TablesMatchGl
    <3>2. \A i \in new : o[i] \notin alive[k]
      OBVIOUS
    <3> QED
      BY <1>0, <1>1, <1>4, <3>1, <3>2 DEF TablesMatchGl
  <2>3. bound'[k] # NoObject => bound'[k] \in alive'[k]
    BY <1>1, <1>6 DEF TablesMatchGl
  <2> QED
    BY <1>1, <1>5, <2>1, <2>2, <2>3 DEF TablesMatchGl
<1>9. ClientHoldsNames'
  <2>1. NextNames(k, written) \subseteq new
    BY <1>2 DEF NextNames
  <2>2. running' => held' = [l \in Kinds |-> Names(l)']
    <3> SUFFICES ASSUME running' PROVE held' = [l \in Kinds |-> Names(l)']
      OBVIOUS
    <3>1. held'[k] = Names(k)'
      BY <1>4, <1>6
    <3>2. \A l \in Kinds : held'[l] = Names(l)'
      BY <1>2, <1>5, <3>1
    <3>3. held' = [l \in Kinds |-> held'[l]]
      BY <1>7 DEF TypeOK
    <3> QED
      BY <3>2, <3>3
  <2>3. \A l \in Kinds : held'[l] \subseteq Names(l)'
    BY <1>2, <1>4, <1>5, <1>6, <2>1
  <2>4. \A l \in Kinds \ {k} : Names(l)' \ held'[l] = {}
    BY <1>2, <1>5
  <2>5. \A i, j \in Names(k)' \ held'[k] : i = j
    <3>1. \A i \in new \ NextNames(k, written) : i = nextId[k] + written
      <4>1. nextId[k] \in Nat
        BY <1>2
      <4>2. made = written \/ made = written + 1
        OBVIOUS
      <4> QED
        BY <4>1, <4>2 DEF NextNames
    <3> QED
      BY <1>4, <1>6, <3>1
  <2> QED
    BY <2>2, <2>3, <2>4, <2>5 DEF ClientHoldsNames
<1> QED
  BY <1>7, <1>8, <1>9 DEF IInv

\* What glDelete* does to the tables, however far it came.
LEMMA DeleteKeeps ==
  ASSUME IInv, running, NEW k \in Kinds, NEW gone \in SUBSET Names(k),
         RemoveNames(k, gone), running' \in BOOLEAN, UNCHANGED <<nextId, grown>>
  PROVE  IInv'
<1> DEFINE objects == {table[k][id] : id \in gone}
<1>0. /\ table' = [table EXCEPT ![k] = Drop(@, gone)]
      /\ alive' = [alive EXCEPT ![k] = @ \ objects]
      /\ bound' = [bound EXCEPT ![k] = IF @ \in objects THEN NoObject ELSE @]
      /\ held' = [held EXCEPT ![k] = @ \ gone]
  BY DEF RemoveNames
<1>1. TypeOK /\ TablesMatchGl /\ ClientHoldsNames
  BY DEF IInv
<1>2. /\ DOMAIN table = Kinds /\ table[k] \in [Names(k) -> Objects]
      /\ Names(k) \subseteq 1 .. (nextId[k] - 1)
      /\ held = [l \in Kinds |-> Names(l)]
  BY <1>1 DEF TypeOK, ClientHoldsNames
<1>3. /\ Names(k)' = Names(k) \ gone
      /\ \A id \in Names(k) \ gone : table'[k][id] = table[k][id]
      /\ table'[k] \in [Names(k) \ gone -> Objects]
  <2>1. table'[k] = Drop(table[k], gone)
    BY <1>0, <1>2
  <2>2. /\ DOMAIN table'[k] = DOMAIN table[k] \ gone
        /\ \A id \in DOMAIN table[k] \ gone : table'[k][id] = table[k][id]
    BY <2>1 DEF Drop
  <2>3. table'[k] \in [DOMAIN table[k] \ gone -> Objects]
    BY <1>2, <2>1 DEF Drop, Names
  <2> QED
    BY <2>2, <2>3 DEF Names
<1>4. \A l \in Kinds \ {k} : /\ table'[l] = table[l] /\ Names(l)' = Names(l)
                             /\ alive'[l] = alive[l] /\ bound'[l] = bound[l]
                             /\ held'[l] = held[l]
  BY <1>0, <1>1, <1>2 DEF TypeOK, Names
<1>5. /\ alive'[k] = alive[k] \ objects /\ held'[k] = Names(k) \ gone
      /\ bound'[k] = IF bound[k] \in objects THEN NoObject ELSE bound[k]
  BY <1>0, <1>1, <1>2 DEF TypeOK
<1>6. TypeOK'
  <2>1. /\ DOMAIN table' = Kinds
        /\ \A l \in Kinds : /\ Names(l)' \subseteq 1 .. (nextId'[l] - 1)
                            /\ table'[l] \in [Names(l)' -> Objects]
    BY <1>0, <1>1, <1>2, <1>3, <1>4 DEF TypeOK
  <2>2. alive' \in [Kinds -> SUBSET Objects] /\ held' \in [Kinds -> SUBSET (Nat \ {0})]
    BY <1>0, <1>1 DEF TypeOK
  <2>3. bound' \in [Kinds -> Objects \cup {NoObject}]
    BY <1>0, <1>1 DEF TypeOK
  <2> QED
    BY <1>1, <2>1, <2>2, <2>3 DEF TypeOK
<1>7. TablesMatchGl'
  <2>1. {table'[k][id] : id \in Names(k)'} = alive'[k]
    <3>1. \A id \in Names(k) : table[k][id] \in objects <=> id \in gone
      BY <1>1 DEF TablesMatchGl
    <3>2. {table[k][id] : id \in Names(k)} = alive[k]
      BY <1>1 DEF TablesMatchGl
    <3>3. {table'[k][id] : id \in Names(k)'} = {table[k][id] : id \in Names(k) \ gone}
      BY <1>3
    <3> QED
      BY <1>5, <3>1, <3>2, <3>3
  <2>2. \A i, j \in Names(k)' : table'[k][i] = table'[k][j] => i = j
    BY <1>1, <1>3 DEF TablesMatchGl
  <2>3. bound'[k] # NoObject => bound'[k] \in alive'[k]
    BY <1>1, <1>5 DEF TablesMatchGl
  <2> QED
    BY <1>1, <1>4, <2>1, <2>2, <2>3 DEF TablesMatchGl
<1>8. ClientHoldsNames'
  <2>1. \A l \in Kinds : held'[l] = Names(l)'
    BY <1>2, <1>3, <1>4, <1>5
  <2>2. held' = [l \in Kinds |-> Names(l)']
    BY <1>6, <2>1 DEF TypeOK
  <2> QED
    BY <2>1, <2>2 DEF ClientHoldsNames
<1> QED
  BY <1>6, <1>7, <1>8 DEF IInv

\* A glGen* call: the loop stopped before the round ok, or inside the round reach.
LEMMA GenStep == ASSUME IInv, NEW k \in Kinds, Gen(k) PROVE IInv'
<1>1. PICK n \in 1 .. MaxArray : \E ok \in 0 .. n, reach \in Reach(n) :
        /\ running
        /\ IF ok > reach THEN MakeNames(k, reach + 1, reach) ELSE MakeNames(k, ok, ok)
        /\ running' = (ok = n /\ reach = n)
        /\ UNCHANGED <<bound, grown>>
  BY DEF Gen
<1>2. PICK ok \in 0 .. n, reach \in Reach(n) :
        /\ running
        /\ IF ok > reach THEN MakeNames(k, reach + 1, reach) ELSE MakeNames(k, ok, ok)
        /\ running' = (ok = n /\ reach = n)
        /\ UNCHANGED <<bound, grown>>
  BY <1>1
<1>3. n \in Nat /\ ok \in Nat /\ reach \in Nat
  BY BoundsAssumption DEF Reach
<1>4. running' \in BOOLEAN
  BY <1>2, Zenon
<1>5. CASE ok > reach
  <2>1. MakeNames(k, reach + 1, reach)
    BY <1>2, <1>5
  <2>2. ~ (ok = n /\ reach = n)
    BY <1>3, <1>5
  <2>3. ~ running'
    BY <1>2, <2>2, Zenon
  <2> QED
    BY <1>2, <1>3, <1>4, <2>1, <2>3, GenKeeps
<1>6. CASE ~ (ok > reach)
  <2>1. MakeNames(k, ok, ok)
    BY <1>2, <1>6
  <2> QED
    BY <1>2, <1>3, <1>4, <2>1, GenKeeps
<1> QED
  BY <1>5, <1>6

\* A glDelete* call: the entries up to `done` were in the table.
LEMMA DeleteStep == ASSUME IInv, NEW k \in Kinds, Delete(k) PROVE IInv'
<1>1. PICK n \in 1 .. MaxArray :
        \E ids \in [1 .. n -> held[k] \cup {0}], reach \in Reach(n), done \in 0 .. n :
          /\ running /\ Deletable(k, ids, done)
          /\ RemoveNames(k, {ids[i] : i \in 1 .. done})
          /\ running' = (done = n)
          /\ UNCHANGED <<nextId, grown>>
  BY DEF Delete
<1>2. PICK ids \in [1 .. n -> held[k] \cup {0}], reach \in Reach(n), done \in 0 .. n :
        /\ running /\ Deletable(k, ids, done)
        /\ RemoveNames(k, {ids[i] : i \in 1 .. done})
        /\ running' = (done = n)
        /\ UNCHANGED <<nextId, grown>>
  BY <1>1
<1>3. {ids[i] : i \in 1 .. done} \in SUBSET Names(k)
  BY <1>2 DEF Deletable
<1>4. running' \in BOOLEAN
  BY <1>2, Zenon
<1> QED
  BY <1>2, <1>3, <1>4, DeleteKeeps

\* Binding changes what is bound, to an object of the table or to none.
LEMMA BindStep == ASSUME IInv, NEW k \in Kinds, Bind(k) PROVE IInv'
<1>1. TypeOK /\ TablesMatchGl /\ ClientHoldsNames
  BY DEF IInv
<1>2. /\ UNCHANGED <<nextId, table, alive, held, grown, running>>
      /\ \E o \in alive[k] \cup {NoObject} : bound' = [bound EXCEPT ![k] = o]
  BY <1>1 DEF Bind, TablesMatchGl
<1>3. TypeOK'
  BY <1>1, <1>2 DEF TypeOK, Names
<1>4. TablesMatchGl'
  BY <1>1, <1>2 DEF TablesMatchGl, TypeOK, Names
<1>5. ClientHoldsNames'
  BY <1>1, <1>2 DEF ClientHoldsNames, Names
<1> QED
  BY <1>3, <1>4, <1>5 DEF IInv

\* Every step keeps the invariant.
LEMMA NextIInv == IInv /\ [Next]_vars => IInv'
<1> SUFFICES ASSUME IInv, [Next]_vars PROVE IInv'
  OBVIOUS
<1>1. CASE UNCHANGED vars
  BY <1>1 DEF vars, IInv, TypeOK, TablesMatchGl, ClientHoldsNames, Names
<1>2. CASE Grow
  BY <1>2 DEF Grow, IInv, TypeOK, TablesMatchGl, ClientHoldsNames, Names
<1>3. ASSUME NEW k \in Kinds, BindThrows(k) PROVE IInv'
  <2>1. running' = FALSE /\ UNCHANGED <<nextId, table, alive, bound, held, grown>>
    BY <1>3 DEF BindThrows
  <2>2. \A l \in Kinds : Names(l)' = Names(l)
    BY <2>1 DEF Names
  <2>3. TypeOK'
    <3>1. running' \in BOOLEAN
      BY <2>1, Zenon
    <3> QED
      BY <2>1, <2>2, <3>1 DEF IInv, TypeOK
  <2>4. TablesMatchGl'
    BY <2>1, <2>2 DEF IInv, TablesMatchGl
  <2>5. ClientHoldsNames'
    BY <2>1, <2>2 DEF IInv, ClientHoldsNames
  <2> QED
    BY <2>3, <2>4, <2>5 DEF IInv
<1> QED
  BY <1>1, <1>2, <1>3, GenStep, DeleteStep, BindStep DEF Next

\* A step gives no name below the counter out again, and moves no name to
\* another object.
LEMMA NextFinal ==
  ASSUME IInv, [Next]_vars, NEW k \in Kinds
  PROVE  /\ \A id \in 1 .. (nextId[k] - 1) \ Names(k) : id \notin Names(k)'
         /\ \A id \in Names(k) \cap Names(k)' : table'[k][id] = table[k][id]
<1>1. TypeOK
  BY DEF IInv
<1>2. /\ DOMAIN table = Kinds /\ nextId[k] \in Nat \ {0}
      /\ Names(k) \subseteq 1 .. (nextId[k] - 1)
  BY <1>1 DEF TypeOK
<1>3. CASE table' = table
  BY <1>3 DEF Names
<1>4. ASSUME NEW l \in Kinds, NEW made, NEW written, MakeNames(l, made, written)
      PROVE  /\ \A id \in 1 .. (nextId[k] - 1) \ Names(k) : id \notin Names(k)'
             /\ \A id \in Names(k) \cap Names(k)' : table'[k][id] = table[k][id]
  <2>1. PICK o : table' = [table EXCEPT ![l] = Extend(@, NextNames(l, made), o)]
    BY <1>4 DEF MakeNames
  <2>2. CASE k # l
    BY <1>2, <2>1, <2>2 DEF Names
  <2>3. CASE k = l
    <3>1. table'[k] = Extend(table[k], NextNames(k, made), o)
      BY <1>2, <2>1, <2>3
    <3>2. \A id \in 1 .. (nextId[k] - 1) : id \notin NextNames(k, made)
      BY <1>2 DEF NextNames
    <3> QED
      BY <1>2, <3>1, <3>2 DEF Names, Extend
  <2> QED
    BY <2>2, <2>3
<1>5. ASSUME NEW l \in Kinds, NEW gone, RemoveNames(l, gone)
      PROVE  /\ \A id \in 1 .. (nextId[k] - 1) \ Names(k) : id \notin Names(k)'
             /\ \A id \in Names(k) \cap Names(k)' : table'[k][id] = table[k][id]
  <2>1. table' = [table EXCEPT ![l] = Drop(@, gone)]
    BY <1>5 DEF RemoveNames
  <2>2. CASE k # l
    BY <1>2, <2>1, <2>2 DEF Names
  <2>3. CASE k = l
    BY <1>2, <2>1, <2>3 DEF Names, Drop
  <2> QED
    BY <2>2, <2>3
<1>6. ASSUME NEW l \in Kinds, Gen(l)
      PROVE  \E made, written : MakeNames(l, made, written)
  BY <1>6 DEF Gen
<1>7. ASSUME NEW l \in Kinds, Delete(l) PROVE \E gone : RemoveNames(l, gone)
  BY <1>7 DEF Delete
<1>8. \/ table' = table
      \/ \E l \in Kinds : Gen(l) \/ Delete(l)
  BY DEF Next, vars, Grow, Bind, BindThrows
<1> QED
  BY <1>3, <1>4, <1>5, <1>6, <1>7, <1>8

-----------------------------------------------------------------------------
\* The tables, WebGL and the program agree in every reachable state.
THEOREM Invariant == Spec => []IInv
<1> QED
  BY InitIInv, NextIInv, PTL DEF Spec

\* Every table keeps its type: a name maps to an object of its kind.
THEOREM TypeCorrect == Spec => []TypeOK
<1>1. IInv => TypeOK
  BY DEF IInv
<1> QED
  BY <1>1, Invariant, PTL

\* Every live object has one name and every name a live object, whatever calls
\* failed halfway (envGl.ts:495-637, 1632-1668, 1795-1828, 1943-1970).
THEOREM TablesAgree == Spec => []TablesMatchGl
<1>1. IInv => TablesMatchGl
  BY DEF IInv
<1> QED
  BY <1>1, Invariant, PTL

\* The program holds the names of the table, and a call that ends it strands
\* at most one object.
THEOREM NamesHeld == Spec => []ClientHoldsNames
<1>1. IInv => ClientHoldsNames
  BY DEF IInv
<1> QED
  BY <1>1, Invariant, PTL

\* No name is given out twice and none changes its object: a stale name is
\* refused, it never reaches another object.
THEOREM NamesNeverReused == Spec => NamesAreFinal
<1>1. IInv /\ [Next]_vars =>
        [\A k \in Kinds :
           /\ \A id \in 1 .. (nextId[k] - 1) \ Names(k) : id \notin Names(k)'
           /\ \A id \in Names(k) \cap Names(k)' : table'[k][id] = table[k][id]]_vars
  BY NextFinal
<1> QED
  BY <1>1, Invariant, PTL DEF Spec, NamesAreFinal

-----------------------------------------------------------------------------
(* The size of an upload, for any widths, heights, row lengths and memory.     *)

\* The table of getSizePerPixel.ts has what OpenGL ES says of each of its rows.
LEMMA TableIsRight ==
  \A row \in Table : row[3] = PixelBytes(row[1], row[2]) /\ row[3] \in Nat \ {0}
<1> SUFFICES ASSUME NEW row \in Table
             PROVE  row[3] = PixelBytes(row[1], row[2]) /\ row[3] \in Nat \ {0}
  OBVIOUS
<1>1. CASE row[2] \in {"UNSIGNED_SHORT_4_4_4_4", "UNSIGNED_SHORT_5_5_5_1", "UNSIGNED_SHORT_5_6_5"}
  <2>1. row[3] = 2
    BY <1>1 DEF Table
  <2> QED
    BY <1>1, <2>1 DEF PixelBytes
<1>2. CASE row[2] \in {"UNSIGNED_INT_2_10_10_10_REV", "UNSIGNED_INT_10F_11F_11F_REV",
                       "UNSIGNED_INT_5_9_9_9_REV"}
  <2>1. row[3] = 4
    BY <1>2 DEF Table
  <2> QED
    BY <1>2, <2>1 DEF PixelBytes
<1>3. CASE row[2] \in {"BYTE", "UNSIGNED_BYTE"}
  <2>1. row[3] = Channels(row[1]) /\ row[3] \in 1 .. 4
    BY <1>3 DEF Table, Channels, OneChannel, TwoChannels, ThreeChannels
  <2> QED
    BY <1>3, <2>1 DEF PixelBytes
<1>4. CASE row[2] \in {"SHORT", "UNSIGNED_SHORT", "HALF_FLOAT"}
  <2>1. row[3] = 2 * Channels(row[1]) /\ row[3] \in 1 .. 8
    BY <1>4 DEF Table, Channels, OneChannel, TwoChannels, ThreeChannels
  <2> QED
    BY <1>4, <2>1 DEF PixelBytes
<1>5. CASE row[2] \in {"INT", "UNSIGNED_INT", "FLOAT"}
  <2>1. row[3] = 4 * Channels(row[1]) /\ row[3] \in 1 .. 16
    BY <1>5 DEF Table, Channels, OneChannel, TwoChannels, ThreeChannels
  <2> QED
    BY <1>5, <2>1 DEF PixelBytes
<1> QED
  BY <1>1, <1>2, <1>3, <1>4, <1>5 DEF Table

\* (x + y - 1) & -y is an integer: for x rounded up below 2 * Half that number,
\* read as a signed integer.
LEMMA Rounded ==
  ASSUME NEW x \in Nat, NEW y \in Alignments
  PROVE  LET s == y * ((x + y - 1) \div y) IN
         /\ s \in Nat /\ x <= s
         /\ RoundedToNextMultipleOf(x, y) \in Int
         /\ s < 2 * Half =>
              RoundedToNextMultipleOf(x, y) = IF s < Half THEN s ELSE s - 2 * Half
<1> DEFINE b == x + y - 1
           s == y * (b \div y)
           c == Bits(b) - (Bits(b) % y)
<1>1. b \in Nat /\ Half \in Nat \ {0} /\ Half % 8 = 0 /\ y \in {1, 2, 4, 8}
  BY PixelAssumption DEF Alignments
<1>2. b - (b % y) = s /\ s \in Nat /\ s <= b /\ x <= s /\ b < s + y
  BY <1>1
<1>3. Bits(b) \in Int /\ c \in Int
  BY <1>1 DEF Bits
<1>4. RoundedToNextMultipleOf(x, y) = Signed(c)
  BY DEF RoundedToNextMultipleOf, AndMinus
<1>5. RoundedToNextMultipleOf(x, y) \in Int
  BY <1>1, <1>3, <1>4 DEF Signed
<1>6. ASSUME s < 2 * Half
      PROVE  RoundedToNextMultipleOf(x, y) = IF s < Half THEN s ELSE s - 2 * Half
  <2>1. b < 2 * Half
    <3>1. PICK q \in Nat : Half = 8 * q
      BY <1>1
    <3>2. b \div y \in Nat
      BY <1>1
    <3> QED
      BY <1>1, <1>2, <1>6, <3>1, <3>2
  <2>2. Bits(b) = b
    BY <1>1, <2>1 DEF Bits
  <2>3. c = s
    BY <1>2, <2>2
  <2> QED
    BY <1>2, <1>4, <2>3 DEF Signed
<1> QED
  BY <1>2, <1>5, <1>6

\* What there is to know of a request: its row is as long as its pixels, and the
\* upload has one length, for a row the operators hold that of all its rows.
LEMMA UploadsAre ==
  ASSUME NEW store \in PixelStores, NEW r \in Asked(store)
  PROVE  /\ r.width \in Nat /\ r.height \in Nat /\ r.room \in 0 .. Half - 1
         /\ r.skipPixels \in Nat /\ r.skipRows \in Nat
         /\ PixelBytes(r.format, r.type) \in Nat \ {0} /\ RowPixels(r) \in Nat
         /\ Stride(r) \in Nat /\ RowPixels(r) * PixelBytes(r.format, r.type) <= Stride(r)
         /\ \E n \in Int :
              /\ Uploads(r) = {r.height * n} \cap 0 .. r.room
              /\ Stride(r) < 2 * Half =>
                   n = IF Stride(r) < Half THEN Stride(r) ELSE Stride(r) - 2 * Half
<1> DEFINE size == PixelBytes(r.format, r.type)
           x == RowPixels(r) * size
           s == Stride(r)
<1>1. /\ r.width \in Nat /\ r.height \in Nat /\ r.room \in 0 .. Half - 1
      /\ r.skipPixels \in Nat /\ r.skipRows \in Nat
      /\ r.rowLength \in Nat /\ r.alignment \in Alignments
  <2>1. PICK row \in Table : r \in Requests(store, row[1], row[2])
    BY DEF Asked
  <2>2. /\ store.alignment \in Alignments /\ store.rowLength \in RowLengths \cup {0}
        /\ store.skipPixels \in Skips \cup {0} /\ store.skipRows \in Skips \cup {0}
    BY DEF PixelStores
  <2>3. /\ r.width \in Widths /\ r.height \in Heights /\ r.room \in Rooms
        /\ r.rowLength = store.rowLength /\ r.alignment = store.alignment
        /\ r.skipPixels = store.skipPixels /\ r.skipRows = store.skipRows
    BY <2>1 DEF Requests
  <2>4. RowLengths \cup {0} \subseteq Nat /\ Skips \cup {0} \subseteq Nat
    <3>1. RowLengths \subseteq Nat /\ Skips \subseteq Nat /\ {0} \subseteq Nat
      BY PixelAssumption
    <3> QED
      BY <3>1, Zenon
  <2>5. r.width \in Nat /\ r.height \in Nat /\ r.room \in 0 .. Half - 1
    BY <2>3, PixelAssumption, Zenon
  <2> QED
    BY <2>2, <2>3, <2>4, <2>5, Zenon
<1>2. PICK row \in Table : r.format = row[1] /\ r.type = row[2]
  BY DEF Asked, Requests
<1>3. getSizePerPixel(r.format, r.type) = {size} /\ size \in Nat \ {0}
  BY <1>2, TableIsRight DEF getSizePerPixel
<1>4. RowPixels(r) \in Nat /\ x \in Nat
  BY <1>1, <1>3 DEF RowPixels
<1>5. s = r.alignment * ((x + r.alignment - 1) \div r.alignment)
  BY DEF Stride
<1> HIDE DEF x, s
<1> DEFINE n == RoundedToNextMultipleOf(x, r.alignment)
<1>6. /\ s \in Nat /\ x <= s /\ n \in Int
      /\ s < 2 * Half => n = IF s < Half THEN s ELSE s - 2 * Half
  BY <1>1, <1>4, <1>5, Rounded
<1>7. Uploads(r) = {r.height * n} \cap 0 .. r.room
  BY <1>3 DEF Uploads, computeUnpackAlignedImageSize, x
<1> HIDE DEF n
<1> QED
  BY <1>1, <1>3, <1>4, <1>6, <1>7 DEF x, s

LEMMA TimesOrder ==
  ASSUME NEW m \in Nat, NEW n \in Nat, NEW p \in Nat, m <= n
  PROVE  m * p <= n * p
<1>1. n - m \in Nat /\ n = m + (n - m)
  OBVIOUS
<1>2. PICK d \in Nat : n = m + d
  BY <1>1
<1>3. n * p = m * p + d * p /\ d * p \in Nat /\ m * p \in Nat
  BY <1>2
<1> QED
  BY <1>3

LEMMA TimesNegative ==
  ASSUME NEW m \in Nat \ {0}, NEW n \in Int, n < 0
  PROVE  m * n < 0
<1>1. 1 * (-n) <= m * (-n)
  BY TimesOrder
<1> QED
  BY <1>1

\* A length that WebGL gets is not negative, so it is of all rows with their
\* padding: enough for the image, and too little for any rows before it.
LEMMA ShortOnlyForSkips == AllShortForSkippedRows
<1> SUFFICES ASSUME NEW store \in PixelStores, NEW r \in Asked(store), NEW bytes \in Uploads(r),
                    Stride(r) < 2 * Half
             PROVE  bytes < ImageBytes(r) <=> ImageBytes(r) > 0 /\ r.skipRows > 0
  BY DEF AllShortForSkippedRows, ShortForSkippedRows
<1> DEFINE s == Stride(r)
           size == PixelBytes(r.format, r.type)
           h == r.height
           k == r.skipRows
           w == r.skipPixels + r.width
<1>1. /\ r.width \in Nat /\ r.skipPixels \in Nat /\ h \in Nat /\ k \in Nat
      /\ size \in Nat \ {0} /\ RowPixels(r) \in Nat
      /\ s \in Nat /\ RowPixels(r) * size <= s /\ s < 2 * Half /\ Half \in Nat
  BY UploadsAre, PixelAssumption
<1>2. bytes = h * (IF s < Half THEN s ELSE s - 2 * Half) /\ bytes \in Nat
  <2>1. PICK n \in Int : /\ Uploads(r) = {h * n} \cap 0 .. r.room
                         /\ n = IF s < Half THEN s ELSE s - 2 * Half
    BY UploadsAre
  <2>2. bytes = h * n /\ bytes \in 0 .. r.room
    BY <2>1, Zenon
  <2> QED
    BY <2>1, <2>2
<1>3. ImageBytes(r) = IF r.width = 0 \/ h = 0 \/ PastRow(r) THEN 0
                      ELSE (k + h - 1) * s + w * size
  BY DEF ImageBytes
<1>4. CASE r.width = 0 \/ h = 0 \/ PastRow(r)
  BY <1>2, <1>3, <1>4
<1>5. CASE ~(r.width = 0 \/ h = 0 \/ PastRow(r))
  <2>1. w \in Nat \ {0} /\ w <= RowPixels(r) /\ h \in Nat \ {0}
    BY <1>1, <1>5 DEF PastRow
  <2>2. w * size <= RowPixels(r) * size /\ 1 * size <= w * size
    BY <1>1, <2>1, TimesOrder
  <2> HIDE DEF s, size, w, h, k
  <2>3. s < Half
    <3> SUFFICES ASSUME ~(s < Half) PROVE FALSE
      OBVIOUS
    <3>1. s - 2 * Half \in Int /\ s - 2 * Half < 0
      BY <1>1
    <3> QED
      BY <1>2, <2>1, <3>1, TimesNegative
  <2>4. w * size \in Nat /\ 0 < w * size /\ w * size <= s
    BY <1>1, <2>1, <2>2
  <2>5. bytes = h * s /\ h * s = (h - 1) * s + s /\ (h - 1) * s \in Nat
    BY <1>1, <1>2, <2>1, <2>3
  <2>6. ImageBytes(r) = (k + h - 1) * s + w * size
    BY <1>3, <1>5
  <2>7. CASE k = 0
    BY <1>1, <2>1, <2>4, <2>5, <2>6, <2>7 DEF k
  <2>8. CASE k # 0
    <3>1. k \in Nat \ {0} /\ k + h - 1 \in Nat /\ h <= k + h - 1
      BY <1>1, <2>1, <2>8
    <3>2. h * s <= (k + h - 1) * s /\ (k + h - 1) * s \in Nat /\ h * s \in Nat
      BY <1>1, <2>1, <3>1, TimesOrder
    <3>3. bytes < ImageBytes(r) /\ ImageBytes(r) > 0
      BY <2>4, <2>5, <2>6, <3>2
    <3> QED
      BY <3>1, <3>3 DEF k
  <2> QED
    BY <2>7, <2>8
<1> QED
  BY <1>4, <1>5

\* A row of Half bytes or more is one no memory holds, whatever its length became.
LEMMA NoUploadOnlyWhenShort == AllThrownWhenShort
<1> SUFFICES ASSUME NEW store \in PixelStores, NEW r \in Asked(store), Uploads(r) = {}
             PROVE  r.height * Stride(r) > r.room
  BY DEF AllThrownWhenShort, ThrownWhenShort
<1> DEFINE s == Stride(r)
           h == r.height
<1>1. PICK n \in Int : /\ Uploads(r) = {h * n} \cap 0 .. r.room
                       /\ s < 2 * Half => n = IF s < Half THEN s ELSE s - 2 * Half
  BY UploadsAre
<1>2. h \in Nat /\ s \in Nat /\ Half \in Nat /\ r.room \in 0 .. Half - 1
  BY UploadsAre, PixelAssumption
<1>3. ~(h * n \in 0 .. r.room)
  BY <1>1, Zenon
<1> HIDE DEF s, h
<1>4. h # 0
  <2> SUFFICES ASSUME h = 0 PROVE FALSE
    OBVIOUS
  <2>1. h * n = 0
    BY <1>1
  <2> QED
    BY <1>2, <1>3, <2>1
<1>5. CASE s < Half
  <2>1. n = s /\ h * s \in Nat
    BY <1>1, <1>2, <1>5
  <2> QED
    BY <1>2, <1>3, <2>1 DEF s, h
<1>6. CASE ~(s < Half)
  <2>1. 1 * s <= h * s
    BY <1>2, <1>4, TimesOrder
  <2>2. h * s \in Nat
    BY <1>2
  <2>3. h * s > r.room
    BY <1>2, <1>6, <2>1, <2>2
  <2> QED
    BY <2>3 DEF s, h
<1> QED
  BY <1>5, <1>6

\* glPixelStorei leaves the pixel store one that the facts above are about.
LEMMA StoreTyped == PixelSpec => [](pixelStore \in PixelStores)
<1>1. PixelStoreInit => pixelStore \in PixelStores
  BY DEF PixelStoreInit, PixelStores, Alignments
<1>2. pixelStore \in PixelStores /\ [glPixelStorei]_pixelStore => (pixelStore \in PixelStores)'
  BY DEF glPixelStorei, PixelStores
<1> QED
  BY <1>1, <1>2, PTL DEF PixelSpec

\* ShortOnlyForSkippedRows: for any sizes and any pixel store, as long as a row
\* with its padding is shorter than 2 * Half bytes, a view of the length that
\* computeUnpackAlignedImageSize returns lacks bytes of the image if and only if
\* UNPACK_SKIP_ROWS is set.
THEOREM ViewsAreShortForSkips == PixelSpec => []ShortOnlyForSkippedRows
<1>1. pixelStore \in PixelStores => ShortOnlyForSkippedRows
  BY ShortOnlyForSkips DEF ShortOnlyForSkippedRows
<1> QED
  BY <1>1, StoreTyped, PTL

\* ThrowsOnlyWhenShort: glTexSubImage2D refuses an upload of a format and type that
\* the table has only when the memory does not have its rows, however long a row is.
THEOREM ThrowsAreDue == PixelSpec => []ThrowsOnlyWhenShort
<1>1. pixelStore \in PixelStores => ThrowsOnlyWhenShort
  BY NoUploadOnlyWhenShort DEF ThrowsOnlyWhenShort
<1> QED
  BY <1>1, StoreTyped, PTL
=============================================================================
