------------------------------ MODULE StealQueue ------------------------------
(* The work-stealing run queues of the multi_thread scheduler                  *)
(* (src/tokio/tokio/src/runtime/scheduler/multi_thread/queue.rs): a ring       *)
(* buffer per worker, whose owner pushes at the tail and pops at the head      *)
(* while the other workers steal half of it.  The head packs two indices into  *)
(* one word: `real`, the first task that is not taken, and `steal`, the first  *)
(* slot a stealer still reads; they are equal when nobody steals.              *)
(*                                                                             *)
(* One step is one atomic access of a head or a tail, one access of a slot, or *)
(* one critical section of the injection queue's mutex.  Memory is taken to be *)
(* sequentially consistent: that the Acquire and Release orderings chosen give *)
(* the same outcomes is not checked.  Pushes bounds the tasks pushed.  Indices *)
(* wrap at Indices.  The code's 2^32 (or 2^16) indices are there "to increase  *)
(* ABA resilience" (queue.rs:11): a head that goes once round while a stealer  *)
(* holds an old value of it lets that stealer's compare-exchange succeed.      *)
(* NotLapped bounds how far a queue moves while a stealer sleeps, so that      *)
(* this does not happen; the indices themselves go round any number of times.  *)
EXTENDS Integers, Sequences, FiniteSets

CONSTANTS Workers,
          Pushers,      \* the workers whose tasks schedule tasks
          Capacity,     \* LOCAL_QUEUE_CAPACITY: 256, or 4 under loom
          Indices,      \* the indices of the queue are 0 .. Indices - 1
          Starts,       \* where head and tail may be at the beginning
          Pushes,       \* bound: how many tasks are scheduled
          NoTask

ASSUME StealQueueAssumption ==
    /\ Pushers \subseteq Workers
    /\ IsFiniteSet(Workers)
    /\ Capacity \in Nat \ {0} /\ Capacity % 2 = 0
    /\ Indices \in Nat /\ Indices > Capacity /\ Indices % Capacity = 0
    /\ Starts \subseteq 0 .. Indices - 1
    /\ Pushes \in Nat \ {0} /\ NoTask \notin Nat

Tasks == 1 .. Pushes

VARIABLES head,      \* head[w] = [steal, real]
          tail,      \* tail[w]
          buffer,    \* buffer[w][slot]
          inject,    \* the injection queue, under its mutex
          next,      \* the next task to be scheduled
          pc,        \* what worker w does next
          at,        \* its local variables
          panicked   \* an assertion of the queue has failed

vars == <<head, tail, buffer, inject, next, pc, at, panicked>>

\* wrapping_add, wrapping_sub and `& MASK`.
Plus(i, n) == (i + n) % Indices
Minus(i, j) == (i - j) % Indices
Slot(i) == i % Capacity

pack(steal, real) == [steal |-> steal, real |-> real]

\* The locals of a call: the queue it works on, the head it has read (and the
\* first task it takes), how many tasks it takes and has copied, the new task.
Nothing(w) == [from |-> w, head |-> pack(0, 0), n |-> 0, copied |-> 0, task |-> NoTask]

Init ==
    /\ \E i \in Starts :
          /\ head = [w \in Workers |-> pack(i, i)]
          /\ tail = [w \in Workers |-> i]
    /\ buffer = [w \in Workers |-> [s \in 0 .. Capacity - 1 |-> NoTask]]
    /\ inject = <<>>
    /\ next = 1
    /\ pc = [w \in Workers |-> "idle"]
    /\ at = [w \in Workers |-> Nothing(w)]
    /\ panicked = FALSE

\* assert!(condition)
Asserts(condition) == panicked' = (panicked \/ ~condition)

Goto(w, label, locals) ==
    /\ pc' = [pc EXCEPT ![w] = label]
    /\ at' = [at EXCEPT ![w] = locals]

Return(w) == Goto(w, "idle", Nothing(w))

\* Bound: w starts nothing that adds to its queue when that could take the tail
\* a full circle beyond a head a stealer has loaded.
NotLapped(w) == \A u \in Workers :
    pc[u] \in {"stealTail", "stealCas"} /\ at[u].from = w
      => Minus(tail[w], at[u].head.real) + Capacity \div 2 < Indices

-----------------------------------------------------------------------------
(* Local::push_back_or_overflow                                                *)

\* A task is scheduled on the worker that runs the scheduling one.
Schedule(w) ==
    /\ pc[w] = "idle" /\ w \in Pushers /\ next \in Tasks /\ NotLapped(w)
    /\ next' = next + 1
    /\ Goto(w, "push", [Nothing(w) EXCEPT !.task = next])
    /\ UNCHANGED <<head, tail, buffer, inject, panicked>>

\* Mutant of HasRoom: the slots a stealer still reads count as free.
HasRoomBeyondSteal(w, h) == Minus(tail[w], h.real) < Capacity

\* There is a free slot behind the ones a stealer may read.
HasRoom(w, h) == Minus(tail[w], h.steal) < Capacity

\* Loads the head and decides; the tail is the owner's own.
PushLoad(w) ==
    /\ pc[w] = "push"
    /\ LET h == head[w] IN
       \/ /\ HasRoom(w, h)
          /\ Goto(w, "pushWrite", at[w])
          /\ UNCHANGED inject
       \/ /\ ~HasRoom(w, h) /\ h.steal # h.real
          /\ inject' = Append(inject, at[w].task)
          /\ Return(w)
       \/ /\ ~HasRoom(w, h) /\ h.steal = h.real
          /\ Goto(w, "overflow", [at[w] EXCEPT !.head = h])
          /\ UNCHANGED inject
    /\ UNCHANGED <<head, tail, buffer, next, panicked>>

PushWrite(w) ==
    /\ pc[w] = "pushWrite"
    /\ buffer' = [buffer EXCEPT ![w][Slot(tail[w])] = at[w].task]
    /\ Goto(w, "pushTail", at[w])
    /\ UNCHANGED <<head, tail, inject, next, panicked>>

PushTail(w) ==
    /\ pc[w] = "pushTail"
    /\ tail' = [tail EXCEPT ![w] = Plus(@, 1)]
    /\ Return(w)
    /\ UNCHANGED <<head, buffer, inject, next, panicked>>

\* Mutant of OverflowCas: a plain store in place of the compare-exchange.
OverflowStore(w) ==
    /\ pc[w] = "overflow"
    /\ LET h == at[w].head IN
       /\ head' = [head EXCEPT ![w] = pack(Plus(h.real, Capacity \div 2), Plus(h.real, Capacity \div 2))]
       /\ Goto(w, "overflowRead", [at[w] EXCEPT !.n = Capacity \div 2])
    /\ UNCHANGED <<tail, buffer, inject, next, panicked>>

\* push_overflow: the owner takes half of the full queue, or starts over.
OverflowCas(w) ==
    /\ pc[w] = "overflow"
    /\ LET h == at[w].head
           half == Plus(h.real, Capacity \div 2) IN
       /\ Asserts(Minus(tail[w], h.real) = Capacity)
       /\ \/ /\ head[w] = h
             /\ head' = [head EXCEPT ![w] = pack(half, half)]
             /\ Goto(w, "overflowRead", [at[w] EXCEPT !.n = Capacity \div 2])
          \/ /\ head[w] # h
             /\ Goto(w, "push", at[w])
             /\ UNCHANGED head
    /\ UNCHANGED <<tail, buffer, inject, next>>

\* The n tasks of w's batch as they are in v's slots from index i.
Batch(v, i, n) == [k \in 1 .. n |-> buffer[v][Slot(Plus(i, k - 1))]]

\* push_batch of the half and the new task.
OverflowRead(w) ==
    /\ pc[w] = "overflowRead"
    /\ inject' = Append(inject \o Batch(w, at[w].head.real, at[w].n), at[w].task)
    /\ Return(w)
    /\ UNCHANGED <<head, tail, buffer, next, panicked>>

-----------------------------------------------------------------------------
(* Local::pop                                                                  *)

\* The queue is empty for a pop that has read the head h.
PopTry(w, h) ==
    IF h.real = tail[w] THEN Return(w)
    ELSE Goto(w, "pop", [Nothing(w) EXCEPT !.head = h, !.n = 1])

PopLoad(w) ==
    /\ pc[w] = "idle"
    /\ head[w].real # tail[w]    \* a pop of an empty queue changes nothing
    /\ PopTry(w, head[w])
    /\ UNCHANGED <<head, tail, buffer, inject, next, panicked>>

\* The head after a pop: `steal` moves along only when nobody steals.
Popped(h) == IF h.steal = h.real THEN pack(Plus(h.real, 1), Plus(h.real, 1))
                                 ELSE pack(h.steal, Plus(h.real, 1))

PopCas(w) ==
    /\ pc[w] = "pop"
    /\ LET h == at[w].head IN
       /\ Asserts(h.steal # h.real => h.steal # Plus(h.real, 1))
       /\ \/ /\ head[w] = h
             /\ head' = [head EXCEPT ![w] = Popped(h)]
             /\ Goto(w, "popRead", at[w])
          \/ /\ head[w] # h
             /\ PopTry(w, head[w])
             /\ UNCHANGED head
    /\ UNCHANGED <<tail, buffer, inject, next>>

\* Reads the slot; the task is run.
PopRead(w) ==
    /\ pc[w] = "popRead"
    /\ Return(w)
    /\ UNCHANGED <<head, tail, buffer, inject, next, panicked>>

-----------------------------------------------------------------------------
(* Steal::steal_into, which Core::steal_work calls when w has found no task in *)
(* its own queue.                                                              *)

OwnQueueEmpty(w) == head[w].real = tail[w]

\* w's own slots may still be being read by a stealer.
StealStart(w) == \E v \in Workers \ {w} :
    /\ pc[w] = "idle" /\ OwnQueueEmpty(w) /\ NotLapped(w)
    /\ ~(Minus(tail[w], head[w].steal) > Capacity \div 2)
    /\ Goto(w, "stealHead", [Nothing(w) EXCEPT !.from = v])
    /\ UNCHANGED <<head, tail, buffer, inject, next, panicked>>

StealHead(w) ==
    /\ pc[w] = "stealHead"
    /\ Goto(w, "stealTail", [at[w] EXCEPT !.head = head[at[w].from]])
    /\ UNCHANGED <<head, tail, buffer, inject, next, panicked>>

\* Mutant of HalfOf: two thirds.
MoreThanHalfOf(n) == n - n \div 3

\* n - n / 2
HalfOf(n) == n - n \div 2

\* Nobody else steals from that queue, and there is something to take.
Stealable(h, n) == h.steal = h.real /\ n # 0

StealTail(w) ==
    /\ pc[w] = "stealTail"
    /\ LET h == at[w].head
           n == HalfOf(Minus(tail[at[w].from], h.real)) IN
       \/ /\ Stealable(h, n)
          /\ Asserts(h.steal # Plus(h.real, n))
          /\ Goto(w, "stealCas", [at[w] EXCEPT !.n = n])
       \/ /\ ~Stealable(h, n)
          /\ Return(w)
          /\ UNCHANGED panicked
    /\ UNCHANGED <<head, tail, buffer, inject, next>>

\* Takes the tasks, or starts over with the head it has found instead.
StealCas(w) ==
    /\ pc[w] = "stealCas"
    /\ LET v == at[w].from
           h == at[w].head
           claimed == pack(h.steal, Plus(h.real, at[w].n)) IN
       \/ /\ head[v] = h
          /\ head' = [head EXCEPT ![v] = claimed]
          /\ Asserts(at[w].n <= Capacity \div 2)
          /\ Goto(w, "copy", [at[w] EXCEPT !.head = claimed])
       \/ /\ head[v] # h
          /\ Goto(w, "stealTail", [at[w] EXCEPT !.head = head[v]])
          /\ UNCHANGED <<head, panicked>>
    /\ UNCHANGED <<tail, buffer, inject, next>>

\* One task of the batch: out of the victim's slot, into w's own, beyond its tail.
Copy(w) ==
    /\ pc[w] = "copy"
    /\ LET k == at[w].copied IN
       /\ buffer' = [buffer EXCEPT ![w][Slot(Plus(tail[w], k))] =
                        buffer[at[w].from][Slot(Plus(at[w].head.steal, k))]]
       /\ Goto(w, IF k + 1 = at[w].n THEN "release" ELSE "copy", [at[w] EXCEPT !.copied = k + 1])
    /\ UNCHANGED <<head, tail, inject, next, panicked>>

\* The slots are the victim's again: `steal` catches up with `real`.
ReleaseCas(w) ==
    /\ pc[w] = "release"
    /\ LET v == at[w].from
           h == at[w].head IN
       \/ /\ head[v] = h
          /\ head' = [head EXCEPT ![v] = pack(h.real, h.real)]
          /\ Goto(w, "expose", at[w])
          /\ UNCHANGED panicked
       \/ /\ head[v] # h
          /\ Asserts(head[v].steal # head[v].real)
          /\ Goto(w, "release", [at[w] EXCEPT !.head = head[v]])
          /\ UNCHANGED head
    /\ UNCHANGED <<tail, buffer, inject, next>>

\* The last stolen task is run; the tail makes the ones before it w's own.
Expose(w) ==
    /\ pc[w] = "expose"
    /\ tail' = [tail EXCEPT ![w] = Plus(@, at[w].n - 1)]
    /\ Return(w)
    /\ UNCHANGED <<head, buffer, inject, next, panicked>>

-----------------------------------------------------------------------------
(* Core::next_task with an empty queue: a batch of the injection queue.        *)

Least(S) == CHOOSE n \in S : \A k \in S : n <= k

\* How many tasks to ask for: w's share of the queue, and what its own can hold.
RefillStart(w) ==
    /\ pc[w] = "idle" /\ OwnQueueEmpty(w) /\ inject # <<>> /\ NotLapped(w)
    /\ LET room == Capacity - Minus(tail[w], head[w].steal)
           share == Len(inject) \div Cardinality(Workers) + 1
           n == Least({room, Capacity \div 2, share}) IN
       Goto(w, "refill", [Nothing(w) EXCEPT !.n = IF n = 0 THEN 1 ELSE n])
    /\ UNCHANGED <<head, tail, buffer, inject, next, panicked>>

\* pop_n and push_back under the lock: the first task is run, the others stay.
Refill(w) ==
    /\ pc[w] = "refill"
    /\ LET n == Least({at[w].n, Len(inject)})
           kept == IF n = 0 THEN 0 ELSE n - 1
           Place(s) == (s - tail[w]) % Capacity IN
       /\ inject' = SubSeq(inject, n + 1, Len(inject))
       /\ buffer' = [buffer EXCEPT ![w] =
              [s \in 0 .. Capacity - 1 |->
                  IF Place(s) < kept THEN inject[Place(s) + 2] ELSE @[s]]]
       /\ tail' = [tail EXCEPT ![w] = Plus(@, kept)]
       /\ Asserts(kept = 0 \/ Minus(tail[w], head[w].steal) <= Capacity - kept)
    /\ Return(w)
    /\ UNCHANGED <<head, next>>

Next == \E w \in Workers :
    \/ Schedule(w) \/ PushLoad(w) \/ PushWrite(w) \/ PushTail(w)
    \/ OverflowCas(w) \/ OverflowRead(w)
    \/ PopLoad(w) \/ PopCas(w) \/ PopRead(w)
    \/ StealStart(w) \/ StealHead(w) \/ StealTail(w) \/ StealCas(w)
    \/ Copy(w) \/ ReleaseCas(w) \/ Expose(w)
    \/ RefillStart(w) \/ Refill(w)

Spec == Init /\ [][Next]_vars

-----------------------------------------------------------------------------
(* Properties                                                                  *)

(* None of the assertions of the queue fails (queue.rs:138, 156, 264, 368,     *)
(* 474, 491 and 540): each states what the code believes of indices that       *)
(* others move.                                                                *)
AssertionsHold == ~panicked

\* The slots of its own buffer that w may write with its next step.
WritesNext(w) ==
    CASE pc[w] = "pushWrite" -> {Slot(tail[w])}
      [] pc[w] = "copy" -> {Slot(Plus(tail[w], at[w].copied))}
      [] pc[w] = "refill" -> {Slot(Plus(tail[w], k)) : k \in 0 .. at[w].n - 2}
      [] OTHER -> {}

\* The slots of v's buffer that the stealer w has still to read.
StillToRead(w, v) ==
    IF pc[w] = "copy" /\ at[w].from = v
    THEN {Slot(Plus(at[w].head.steal, k)) : k \in at[w].copied .. at[w].n - 1}
    ELSE {}

(* No slot is written while a stealer may read it: the cells are UnsafeCells,  *)
(* and nothing but the two halves of the head keeps the accesses apart.        *)
NoRacingWrite == \A v \in Workers : \A w \in Workers \ {v} :
    WritesNext(v) \cap StillToRead(w, v) = {}

\* The queues of RunQueues in the ring buffers and the locals.
QueueOf(w) == Batch(w, head[w].real, Minus(tail[w], head[w].real))

MovingOf(w) ==
    CASE pc[w] \in {"popRead", "overflowRead"} -> Batch(w, at[w].head.real, at[w].n)
      [] pc[w] \in {"copy", "release", "expose"} ->
            Batch(w, tail[w], at[w].copied)
            \o Batch(at[w].from, Plus(at[w].head.steal, at[w].copied), at[w].n - at[w].copied)
      [] OTHER -> <<>>

NotScheduled == {t \in Tasks : t >= next} \cup ({at[w].task : w \in Workers} \ {NoTask})

Q == INSTANCE RunQueues WITH
        new <- NotScheduled,
        queue <- [w \in Workers |-> QueueOf(w)],
        moving <- [w \in Workers |-> MovingOf(w)]

(* The ring buffers implement FIFO queues from which tasks are taken all at    *)
(* once: whatever owner and stealers do at the same time, each task is run or  *)
(* moved by exactly one worker and none is lost, duplicated or overtaken.      *)
ImplementsRunQueues == Q!Spec
=============================================================================
