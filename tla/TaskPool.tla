------------------------------ MODULE TaskPool ------------------------------
(***************************************************************************)
(* What the blocking pool of tokio promises to the callers of              *)
(* spawn_blocking and spawn_mandatory_blocking, with no thread, no lock    *)
(* and no condition variable in sight: a FIFO of accepted tasks of which   *)
(* at most ThreadCap run at a time, each at most once; a task is dropped   *)
(* without running only when the pool is closed, and never when it is      *)
(* mandatory.  BlockingPool implements this module.                        *)
(***************************************************************************)
EXTENDS Naturals, Sequences, FiniteSets

CONSTANTS Tasks,      \* every task that is ever handed to the pool
          Mandatory,  \* those handed over by spawn_mandatory_blocking
          ThreadCap   \* how many tasks may run at the same time

VARIABLES queue,   \* accepted tasks that no thread has taken yet
          status,  \* "new", "queued", "running", "done" or "cancelled"
          reply,   \* what the spawner was told, "none" before it called
          shutdown \* the pool accepts nothing more

vars == <<queue, status, reply, shutdown>>

Running == {k \in Tasks : status[k] = "running"}

Init ==
  /\ queue = <<>>
  /\ status = [k \in Tasks |-> "new"]
  /\ reply = [k \in Tasks |-> "none"]
  /\ shutdown = FALSE

\* An open pool keeps the task, even when it tells the spawner that the
\* operating system gave it no thread.
Submit(k) ==
  /\ ~shutdown
  /\ status[k] = "new"
  /\ queue' = Append(queue, k)
  /\ status' = [status EXCEPT ![k] = "queued"]
  /\ \E answer \in {"ok", "no_threads"} : reply' = [reply EXCEPT ![k] = answer]
  /\ UNCHANGED shutdown

Reject(k) ==
  /\ shutdown
  /\ status[k] = "new"
  /\ status' = [status EXCEPT ![k] = "cancelled"]
  /\ reply' = [reply EXCEPT ![k] = "shutting_down"]
  /\ UNCHANGED <<queue, shutdown>>

Start ==
  /\ queue # <<>>
  /\ Cardinality(Running) < ThreadCap
  /\ queue' = Tail(queue)
  /\ status' = [status EXCEPT ![Head(queue)] = "running"]
  /\ UNCHANGED <<reply, shutdown>>

Cancel ==
  /\ shutdown
  /\ queue # <<>>
  /\ Head(queue) \notin Mandatory
  /\ queue' = Tail(queue)
  /\ status' = [status EXCEPT ![Head(queue)] = "cancelled"]
  /\ UNCHANGED <<reply, shutdown>>

Finish(k) ==
  /\ status[k] = "running"
  /\ status' = [status EXCEPT ![k] = "done"]
  /\ UNCHANGED <<queue, reply, shutdown>>

Close ==
  /\ ~shutdown
  /\ shutdown' = TRUE
  /\ UNCHANGED <<queue, status, reply>>

Next ==
  \/ \E k \in Tasks : Submit(k) \/ Reject(k) \/ Finish(k)
  \/ Start \/ Cancel \/ Close

Spec == Init /\ [][Next]_vars
=============================================================================
