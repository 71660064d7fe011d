---------------------------- MODULE SetjmpTable ----------------------------
(***************************************************************************)
(* The setjmp table of one activation of a wasm function, as saveSetjmp    *)
(* and testSetjmp of importObject.ts keep it.  The compiled function owns  *)
(* the table: it allocates one with a few slots, clears the id of the  *)
(* first, passes table and size to each saveSetjmp, and keeps what comes   *)
(* back (the table returned, the size from getTempRet0).  A longjmp looks  *)
(* the id of the jmp_buf up with testSetjmp.                               *)
(*                                                                         *)
(* Memory that malloc returns holds anything, so a new table is any        *)
(* sequence of entries over the ids and labels in play.                    *)
(***************************************************************************)
EXTENDS Naturals, Sequences

CONSTANTS Envs,        \* the jmp_bufs of the function
          Labels,      \* where its setjmp calls resume, never 0
          InitialSizes, \* the slots of the first table; 4 in the compiled code
          MaxSaves,    \* bound: the setjmp calls of one activation
          MaxSize,     \* bound: the slots of the largest table
          MaxId        \* bound: the ids garbage may look like

ASSUME SetjmpAssumption ==
  /\ InitialSizes \subseteq Nat \ {0}
  /\ MaxSaves \in Nat /\ MaxSize \in Nat /\ MaxId \in Nat
  /\ Labels \subseteq Nat \ {0}

VARIABLES setjmpId, tempRet0,  \* of the worker
          env,                 \* the id saveSetjmp left in each jmp_buf, 0: none
          table, size,         \* what the function holds
          call,                \* the saveSetjmp call in progress, NoCall: none
          saved,               \* history: the label each jmp_buf was last saved with
          saves,               \* history: how many calls were made
          grown                \* history: whether the table ever grew

vars == <<setjmpId, tempRet0, env, table, size, call, saved, saves, grown>>

NoCall == [active |-> FALSE]
Entry == [id : 0..MaxId, label : Labels]
\* A table of n slots as malloc returns it.
Garbage(n) == [1..n -> Entry]

Init ==
  /\ setjmpId = 0
  /\ tempRet0 = 0
  /\ env = [e \in Envs |-> 0]
  /\ size \in InitialSizes
  /\ table \in {g \in Garbage(size) : g[1].id = 0}
  /\ call = NoCall
  /\ saved = [e \in Envs |-> 0]
  /\ saves = 0
  /\ grown = FALSE

-----------------------------------------------------------------------------
(***************************************************************************)
(* saveSetjmp.  It calls itself once per growth; a step is one level of    *)
(* that recursion.                                                         *)
(***************************************************************************)
\* setjmpId++ and *env, at the head of every level.
NewId(e) ==
  /\ setjmpId' = setjmpId + 1
  /\ env' = [env EXCEPT ![e] = setjmpId + 1]

Save(e, label) ==
  /\ ~call.active
  /\ saves < MaxSaves
  /\ NewId(e)
  /\ call' = [active |-> TRUE, env |-> e, label |-> label,
              table |-> table, size |-> size, grown |-> 0]
  /\ saves' = saves + 1
  /\ UNCHANGED <<tempRet0, table, size, saved, grown>>

\* The free slots among those the size given names: the view of the table ends
\* there, also where the table is longer.
Free(t, n) == {i \in 1..n : t[i].id = 0}
First(S) == CHOOSE i \in S : \A j \in S : i <= j

\* Mutant of WithNextSlot: the next slot is not prepared.
WithoutNextSlot(t, i, n) == t

\* "prepare next slot": the write past the last slot of the view is dropped.
WithNextSlot(t, i, n) ==
  IF i + 1 \in 1..n THEN [t EXCEPT ![i + 1].id = 0] ELSE t

\* Mutant of Answer: the levels double the size on the way out.
AnswerDoubled == IF call.grown = 0 THEN call.size ELSE 2 * call.size

\* What tempRet0 holds in the end: each level writes it on its way out, so the
\* size of the outermost level that grew the table stays.
Answer == IF call.grown = 0 THEN call.size ELSE call.grown

\* A slot is free: take it and return through every level.
Place ==
  LET i == First(Free(call.table, call.size))
      entry == [id |-> setjmpId, label |-> call.label]
      placed == WithNextSlot([call.table EXCEPT ![i] = entry], i, call.size)
  IN  /\ call.active
      /\ Free(call.table, call.size) # {}
      /\ tempRet0' = Answer
      /\ table' = placed
      /\ size' = Answer
      /\ call' = NoCall
      /\ saved' = [saved EXCEPT ![call.env] = call.label]
      /\ UNCHANGED <<setjmpId, env, saves, grown>>

\* No slot is free: free the table, allocate one twice as large and start
\* over with whatever it holds.
Grow ==
  /\ call.active
  /\ Free(call.table, call.size) = {}
  /\ 2 * call.size <= MaxSize
  /\ NewId(call.env)
  /\ \E g \in Garbage(2 * call.size) :
       call' = [call EXCEPT !.table = g, !.size = 2 * call.size,
                            !.grown = IF call.grown = 0 THEN 2 * call.size ELSE call.grown]
  /\ grown' = TRUE
  /\ UNCHANGED <<tempRet0, table, size, saved, saves>>

Next ==
  \/ \E e \in Envs, label \in Labels : Save(e, label)
  \/ Place
  \/ Grow

Spec == Init /\ [][Next]_vars

-----------------------------------------------------------------------------
(***************************************************************************)
(* testSetjmp.                                                             *)
(***************************************************************************)
\* The label of the first entry with that id before the first free slot, 0
\* when there is none.
testSetjmp(id, t, n) ==
  LET ends == {i \in 1..n : t[i].id \in {0, id}}
  IN  IF ends = {} \/ t[First(ends)].id # id THEN 0 ELSE t[First(ends)].label

-----------------------------------------------------------------------------
\* A longjmp to any jmp_buf the function has saved resumes at the label it
\* was last saved with, whatever the table held when it was allocated.  The
\* C original grows the table with "table = (TableEntry*)realloc(...)"
\* (importObject.ts:119), which keeps the entries; the code does not, and the
\* property fails once a table has grown.
SavedIsFound ==
  ~call.active =>
    \A e \in Envs : saved[e] # 0 => testSetjmp(env[e], table, size) = saved[e]

\* The same as long as the table is the one the function started with.
SavedIsFoundUntilGrowth == ~grown => SavedIsFound

\* The size the function holds never exceeds its table, so that testSetjmp
\* reads the table and nothing behind it, however often the table grew.
SizeWithinTable == size <= Len(table)
=============================================================================
