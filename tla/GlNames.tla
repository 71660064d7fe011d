------------------------------- MODULE GlNames -------------------------------
(* The object names of the GL binding table (src/on-browser/src/envGl.ts).     *)
(* The wasm program knows GL objects by integers; the binding keeps, for every *)
(* kind of object, a Map from integer to WebGL object and a counter.  The      *)
(* glGen* calls fill an array in wasm memory, the glDelete* calls read one,    *)
(* both through memoryView, a DataView made once, when the import object is    *)
(* built: it does not cover the pages other threads add to the shared memory   *)
(* later, and an access beyond it throws.  An exception leaves the import in   *)
(* the middle of its loop and ends the wasm program of the main worker.        *)
(*                                                                             *)
(* Each kind has code of its own, all of the same shape: k stands for the kind.*)
(* What WebGL and the program do is external.  Bounds: MaxId names per kind,   *)
(* MaxArray entries per array.                                                 *)
EXTENDS Integers, FiniteSets, Sequences

CONSTANTS Kinds,     \* the kinds of object of this instance
          Objects,   \* the WebGL objects that can exist, of each kind
          NoObject,  \* the null binding
          MaxId, MaxArray

AllKinds == {"texture", "buffer", "renderbuffer", "framebuffer", "sampler"}

\* A name of 0 unbinds only here: glBindBuffer and glBindSampler look it up.
ZeroUnbinds == {"texture", "framebuffer"}

\* glBindRenderbuffer is not implemented and throws.
CanBind == AllKinds \ {"renderbuffer"}

ASSUME KindsAssumption == Kinds \subseteq AllKinds
ASSUME ObjectsAssumption == NoObject \notin Objects
ASSUME BoundsAssumption == MaxId \in Nat /\ MaxArray \in Nat

VARIABLES
    nextId,   \* the next name of each kind
    table,    \* the Map of each kind: name -> WebGL object
    alive,    \* WebGL: the objects created and not deleted
    bound,    \* WebGL: the object bound, or NoObject
    held,     \* the program: the names written to its arrays, less those deleted
    grown,    \* the shared memory has pages that memoryView does not cover
    running   \* no exception has ended the wasm program

vars == <<nextId, table, alive, bound, held, grown, running>>

Names(k) == DOMAIN table[k]

\* Mutant of Init: the counter starts at 0, the name that means "none".
InitFromZero ==
    /\ nextId = [k \in Kinds |-> 0]
    /\ table = [k \in Kinds |-> <<>>]
    /\ alive = [k \in Kinds |-> {}]
    /\ bound = [k \in Kinds |-> NoObject]
    /\ held = [k \in Kinds |-> {}]
    /\ grown = FALSE
    /\ running = TRUE

Init ==
    /\ nextId = [k \in Kinds |-> 1]
    /\ table = [k \in Kinds |-> <<>>]
    /\ alive = [k \in Kinds |-> {}]
    /\ bound = [k \in Kinds |-> NoObject]
    /\ held = [k \in Kinds |-> {}]
    /\ grown = FALSE
    /\ running = TRUE

\* f extended, or changed, to map every x of S to g[x].
Extend(f, S, g) ==
    [x \in DOMAIN f \cup S |-> IF x \in S THEN g[x] ELSE f[x]]

\* Mutant of Drop: a Map entry after the first is kept, its WebGL object deleted.
DropFromSecond(f, S) == [x \in DOMAIN f \ {y \in S : \E z \in S : z < y} |-> f[x]]

\* f without the elements of S.
Drop(f, S) == [x \in DOMAIN f \ S |-> f[x]]

\* Mutant of NextNames: names that were deleted are given out again.
RecycledNames(k, n) ==
    {i \in 1 .. MaxId \ Names(k) : Cardinality(1 .. i \ Names(k)) <= n}

\* The first n names that are free.
NextNames(k, n) == nextId[k] .. (nextId[k] + n - 1)

\* How many entries of an array of n the view covers.
Reach(n) == IF grown THEN 0 .. n ELSE {n}

\* The first `made` rounds of a glGen* loop make an object and enter it in the
\* table under the next name; the first `written` of them also write the name.
MakeNames(k, made, written) ==
    /\ nextId[k] + made <= MaxId + 1
    /\ \E o \in [NextNames(k, made) -> Objects \ alive[k]] :
          /\ \A i, j \in NextNames(k, made) : o[i] = o[j] => i = j
          /\ table' = [table EXCEPT ![k] = Extend(@, NextNames(k, made), o)]
          /\ alive' = [alive EXCEPT ![k] = @ \cup {o[i] : i \in NextNames(k, made)}]
    /\ nextId' = [nextId EXCEPT ![k] = @ + made]
    /\ held' = [held EXCEPT ![k] = @ \cup NextNames(k, written)]

\* Mutant of Gen: the names are written after the loop that makes the objects.
GenWritesLast(k) == \E n \in 1 .. MaxArray : \E ok \in 0 .. n, reach \in Reach(n) :
    /\ running
    /\ MakeNames(k, ok, IF ok = n THEN reach ELSE 0)
    /\ running' = (ok = n /\ reach = n)
    /\ UNCHANGED <<bound, grown>>

(* glGenTextures and its kin, for n names: WebGL makes `ok` objects before it  *)
(* returns null (a lost context), the view covers the first `reach` entries.   *)
(* When the write throws, its object is in the table and its name in no array. *)
Gen(k) == \E n \in 1 .. MaxArray : \E ok \in 0 .. n, reach \in Reach(n) :
    /\ running
    /\ IF ok > reach THEN MakeNames(k, reach + 1, reach) ELSE MakeNames(k, ok, ok)
    /\ running' = (ok = n /\ reach = n)
    /\ UNCHANGED <<bound, grown>>

\* The first d entries of ids can be deleted one after the other.
Deletable(k, ids, d) ==
    /\ \A i \in 1 .. d : ids[i] \in Names(k)
    /\ \A i, j \in 1 .. d : ids[i] = ids[j] => i = j

\* The names `gone` leave the table, their objects WebGL, which unbinds them.
RemoveNames(k, gone) ==
    LET objects == {table[k][id] : id \in gone} IN
    /\ table' = [table EXCEPT ![k] = Drop(@, gone)]
    /\ alive' = [alive EXCEPT ![k] = @ \ objects]
    /\ bound' = [bound EXCEPT ![k] = IF @ \in objects THEN NoObject ELSE @]
    /\ held' = [held EXCEPT ![k] = @ \ gone]

(* glDeleteTextures and its kin: the loop stops, with an exception, at the     *)
(* first entry that the view does not cover or that is not in the table (0 and *)
(* a name met twice are not).                                                  *)
Delete(k) == \E n \in 1 .. MaxArray :
    \E ids \in [1 .. n -> held[k] \cup {0}], reach \in Reach(n), done \in 0 .. n :
        /\ running
        /\ done <= reach /\ Deletable(k, ids, done)
        /\ done = reach \/ (done < reach /\ ~ Deletable(k, ids, done + 1))
        /\ RemoveNames(k, {ids[i] : i \in 1 .. done})
        /\ running' = (done = n)
        /\ UNCHANGED <<nextId, grown>>

\* glBindTexture(id) and its kin, when the code has an object to bind for id.
Bind(k) == \E id \in held[k] \cup {0} :
    /\ running
    /\ k \in CanBind
    /\ \/ /\ id \in Names(k)
          /\ bound' = [bound EXCEPT ![k] = table[k][id]]
       \/ /\ id = 0 /\ k \in ZeroUnbinds
          /\ bound' = [bound EXCEPT ![k] = NoObject]
    /\ UNCHANGED <<nextId, table, alive, held, grown, running>>

(* glBindBuffer(0), glBindSampler(0) and every glBindRenderbuffer throw, and   *)
(* so do glSamplerParameter* and glFramebufferTexture2D for a name that is not *)
(* in the table.                                                               *)
BindThrows(k) == \E id \in held[k] \cup {0} :
    /\ running
    /\ \/ k \notin CanBind
       \/ id \notin Names(k) /\ ~ (id = 0 /\ k \in ZeroUnbinds)
    /\ running' = FALSE
    /\ UNCHANGED <<nextId, table, alive, bound, held, grown>>

\* Some thread of the program grows the shared memory.
Grow ==
    /\ running /\ ~ grown
    /\ grown' = TRUE
    /\ UNCHANGED <<nextId, table, alive, bound, held, running>>

Next == Grow \/ \E k \in Kinds : Gen(k) \/ Delete(k) \/ Bind(k) \/ BindThrows(k)

Spec == Init /\ [][Next]_vars

-----------------------------------------------------------------------------
(* The types of the variables: a name in use is positive and was given out.    *)
TypeOK ==
    /\ nextId \in [Kinds -> Nat \ {0}]
    /\ DOMAIN table = Kinds
    /\ \A k \in Kinds : /\ Names(k) \subseteq 1 .. (nextId[k] - 1)
                        /\ table[k] \in [Names(k) -> Objects]
    /\ alive \in [Kinds -> SUBSET Objects]
    /\ bound \in [Kinds -> Objects \cup {NoObject}]
    /\ held \in [Kinds -> SUBSET (Nat \ {0})]
    /\ grown \in BOOLEAN /\ running \in BOOLEAN

(* The table of a kind and WebGL agree, also after a call that failed halfway: *)
(* every live object has exactly one name (none is leaked, none has two), every*)
(* name is of a live object, and what is bound can still be named.             *)
TablesMatchGl == \A k \in Kinds :
    /\ {table[k][id] : id \in Names(k)} = alive[k]
    /\ \A i, j \in Names(k) : table[k][i] = table[k][j] => i = j
    /\ bound[k] # NoObject => bound[k] \in alive[k]

(* The program and the table agree: while the program runs it holds exactly    *)
(* the names of the table, so every name it holds works and no object is out   *)
(* of its reach; a call that ends it strands at most one object, the one whose *)
(* name could not be written (envGl.ts:505-507), and leaves it no dead name.   *)
ClientHoldsNames ==
    /\ running => held = [k \in Kinds |-> Names(k)]
    /\ \A k \in Kinds : held[k] \subseteq Names(k)
    /\ \A k, l \in Kinds : \A i \in Names(k) \ held[k] : \A j \in Names(l) \ held[l] :
           k = l /\ i = j

(* A name is given out once: a name the table lost never returns and a name it *)
(* keeps denotes the same object, so a stale name held by the program cannot   *)
(* come to denote another object (the counters, envGl.ts:18-42, only go up).   *)
NamesAreFinal ==
    [][\A k \in Kinds :
          /\ \A id \in 1 .. (nextId[k] - 1) \ Names(k) : id \notin Names(k)'
          /\ \A id \in Names(k) \cap Names(k)' : table'[k][id] = table[k][id]]_vars

=============================================================================
