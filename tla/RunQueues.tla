------------------------------ MODULE RunQueues ------------------------------
(* What the run queues of the multi_thread scheduler promise                   *)
(* (src/tokio/tokio/src/runtime/scheduler/multi_thread/queue.rs, its doc       *)
(* comments): each worker has a FIFO queue; only its owner appends; whoever    *)
(* takes tasks takes them from the front, all at once; a task taken is run,    *)
(* goes to the taker's own queue, or goes to the injection queue.  No task is  *)
(* lost and none is seen twice.                                                *)
EXTENDS Naturals, Sequences, SequencesExt

CONSTANTS Workers, Tasks

VARIABLES new,      \* the tasks nobody has scheduled yet
          queue,    \* queue[w]: the tasks waiting in w's queue, oldest first
          moving,   \* moving[w]: the tasks w has taken and not yet placed
          inject    \* the injection queue

vars == <<new, queue, moving, inject>>

Init ==
    /\ new = Tasks
    /\ queue = [w \in Workers |-> <<>>]
    /\ moving = [w \in Workers |-> <<>>]
    /\ inject = <<>>

\* The first n of the tasks s, and the others.
First(s, n) == SubSeq(s, 1, n)
Rest(s, n) == SubSeq(s, n + 1, Len(s))

Push(w) == \E t \in new :
    /\ new' = new \ {t}
    /\ queue' = [queue EXCEPT ![w] = Append(@, t)]
    /\ UNCHANGED <<moving, inject>>

\* w takes the first n tasks of v's queue, its own or another's: of another's at
\* most half, for the tail was read before the tasks were taken.
Take(w, v) == \E n \in 1 .. Len(queue[v]) :
    /\ moving[w] = <<>>
    /\ v # w => n <= Len(queue[v]) - Len(queue[v]) \div 2
    /\ moving' = [moving EXCEPT ![w] = First(queue[v], n)]
    /\ queue' = [queue EXCEPT ![v] = Rest(@, n)]
    /\ UNCHANGED <<new, inject>>

\* The last task taken is run, the ones before it join w's queue in order.
Keep(w) ==
    /\ moving[w] # <<>>
    /\ queue' = [queue EXCEPT ![w] = @ \o Front(moving[w])]
    /\ moving' = [moving EXCEPT ![w] = <<>>]
    /\ UNCHANGED <<new, inject>>

\* A full queue: the tasks w took from it and the new one are injected.
Overflow(w) == \E t \in new :
    /\ new' = new \ {t}
    /\ inject' = Append(inject \o moving[w], t)
    /\ moving' = [moving EXCEPT ![w] = <<>>]
    /\ UNCHANGED queue

\* n tasks of the injection queue: the first is run, the others join w's queue.
Refill(w) == \E n \in 1 .. Len(inject) :
    /\ inject' = Rest(inject, n)
    /\ queue' = [queue EXCEPT ![w] = @ \o Tail(First(inject, n))]
    /\ UNCHANGED <<new, moving>>

Next == \E w \in Workers :
    \/ Push(w) \/ Keep(w) \/ Overflow(w) \/ Refill(w)
    \/ \E v \in Workers : Take(w, v)

Spec == Init /\ [][Next]_vars
=============================================================================
