------------------------------- MODULE TaskState -------------------------------
(* The state word of a tokio task (src/tokio/tokio/src/runtime/task/state.rs): *)
(* flags and a reference count in one atomic.  A transition is a loop of       *)
(* compare and exchange, so it is one step of one word: an operator from the   *)
(* word it finds to the word it leaves and what its caller has to do next.     *)
(* The count reaches 0 when the task is deallocated.                           *)
EXTENDS Integers

Word == [running : BOOLEAN, complete : BOOLEAN, notified : BOOLEAN, cancelled : BOOLEAN,
         joinInterest : BOOLEAN, joinWaker : BOOLEAN, refs : Nat]

\* Owned by the runtime, notified, and with a JoinHandle: a reference for each.
Initial == [running |-> FALSE, complete |-> FALSE, notified |-> TRUE, cancelled |-> FALSE,
            joinInterest |-> TRUE, joinWaker |-> FALSE, refs |-> 3]

IsIdle(w) == ~w.running /\ ~w.complete

RefInc(w) == [w EXCEPT !.refs = @ + 1]
RefDec(w) == [w EXCEPT !.refs = @ - 1]

\* transition_to_running; with "Failed" the Notified is given up.
ToRunning(w) ==
    IF ~IsIdle(w) THEN [action |-> "Failed", next |-> RefDec(w)]
    ELSE [action |-> IF w.cancelled THEN "Cancelled" ELSE "Success",
          next |-> [w EXCEPT !.running = TRUE, !.notified = FALSE]]

\* Mutant of ToIdle: the new Notified is not counted.
ToIdleUncounted(w) ==
    IF w.cancelled THEN [action |-> "Cancelled", next |-> w]
    ELSE IF w.notified THEN [action |-> "OkNotified", next |-> [w EXCEPT !.running = FALSE]]
    ELSE [action |-> "Ok", next |-> RefDec([w EXCEPT !.running = FALSE])]

\* transition_to_idle: a task notified while it ran gets a Notified; without one,
\* the reference it ran with is given up.
ToIdle(w) ==
    IF w.cancelled THEN [action |-> "Cancelled", next |-> w]
    ELSE IF w.notified
         THEN [action |-> "OkNotified", next |-> RefInc([w EXCEPT !.running = FALSE])]
    ELSE [action |-> "Ok", next |-> RefDec([w EXCEPT !.running = FALSE])]

\* transition_to_complete
ToComplete(w) == [w EXCEPT !.running = ~@, !.complete = ~@]

\* transition_to_notified_by_val: with "Submit" the waker's reference remains.
NotifiedByVal(w) ==
    IF w.running THEN [action |-> "DoNothing", next |-> RefDec([w EXCEPT !.notified = TRUE])]
    ELSE IF w.complete \/ w.notified THEN [action |-> "DoNothing", next |-> RefDec(w)]
    ELSE [action |-> "Submit", next |-> RefInc([w EXCEPT !.notified = TRUE])]

\* transition_to_notified_by_ref
NotifiedByRef(w) ==
    IF w.complete \/ w.notified THEN [action |-> "DoNothing", next |-> w]
    ELSE IF w.running THEN [action |-> "DoNothing", next |-> [w EXCEPT !.notified = TRUE]]
    ELSE [action |-> "Submit", next |-> RefInc([w EXCEPT !.notified = TRUE])]

\* transition_to_notified_and_cancel
NotifiedAndCancelled(w) ==
    IF w.cancelled \/ w.complete THEN [action |-> "DoNothing", next |-> w]
    ELSE IF w.running \/ w.notified
         THEN [action |-> "DoNothing", next |-> [w EXCEPT !.notified = TRUE, !.cancelled = TRUE]]
    ELSE [action |-> "Submit",
          next |-> RefInc([w EXCEPT !.notified = TRUE, !.cancelled = TRUE])]

\* Mutant of ToShutdown: a task that runs is taken, too.
ToShutdownAnyway(w) ==
    [action |-> IF w.complete THEN "Busy" ELSE "Taken",
     next |-> [w EXCEPT !.running = @ \/ ~w.complete, !.cancelled = TRUE]]

\* transition_to_shutdown: an idle task is taken to be cancelled by the caller.
ToShutdown(w) ==
    [action |-> IF IsIdle(w) THEN "Taken" ELSE "Busy",
     next |-> [w EXCEPT !.running = @ \/ IsIdle(w), !.cancelled = TRUE]]

\* unset_join_interested, set_join_waker, unset_waker: refused once complete.
UnlessComplete(w, next) ==
    IF w.complete THEN [action |-> "Err", next |-> w] ELSE [action |-> "Ok", next |-> next]

UnsetJoinInterested(w) == UnlessComplete(w, [w EXCEPT !.joinInterest = FALSE])
SetJoinWaker(w) == UnlessComplete(w, [w EXCEPT !.joinWaker = TRUE])
UnsetWaker(w) == UnlessComplete(w, [w EXCEPT !.joinWaker = FALSE])
=============================================================================
