---------------------------- MODULE BlockingPool ----------------------------
(***************************************************************************)
(* The blocking pool of tokio (runtime/blocking/pool.rs, shutdown.rs): the *)
(* threads every scheduler worker of the runtime runs on.                  *)
(*                                                                         *)
(* All of `Shared`, and every write to the metrics, happens under one      *)
(* mutex, so an action is one critical section, from the lock to the       *)
(* unlock or to the wait on the condition variable.  What a thread does    *)
(* between two sections (running a task, joining a thread) is a step of    *)
(* its own.                                                                *)
(***************************************************************************)
EXTENDS Integers, Sequences, FiniteSets

CONSTANTS Threads,    \* the threads the process may ever create, each used once
          Tasks,      \* the tasks handed to the pool, each once
          Mandatory,  \* those handed over by spawn_mandatory_blocking
          ThreadCap,  \* Inner::thread_cap
          NoThread, NoTask

ASSUME ThreadsAssumption == IsFiniteSet(Threads) /\ NoThread \notin Threads
ASSUME TasksAssumption == Mandatory \subseteq Tasks /\ NoTask \notin Tasks
ASSUME ThreadCapAssumption == ThreadCap \in Nat \ {0}

VARIABLES
  \* Shared and the metrics, written under the mutex.
  queue,
  num_notify,
  shutdown,
  shutdown_tx,          \* Shared still holds a sender
  last_exiting_thread,
  worker_threads,       \* the threads whose JoinHandle is in the map
  num_threads,
  num_idle_threads,
  \* What each pool thread does.
  pc,
  task,                 \* the task the thread is running
  join_on_thread,
  \* What each task is and what its spawner was told.
  status,
  reply,
  \* BlockingPool::shutdown, run by the owner of the runtime.
  owner,
  to_join               \* last_exited_thread and workers of its frame

shared == <<queue, num_notify, shutdown, shutdown_tx, last_exiting_thread,
            worker_threads, num_threads, num_idle_threads>>
vars == <<shared, pc, task, join_on_thread, status, reply, owner, to_join>>

-----------------------------------------------------------------------------
(***************************************************************************)
(* The states of a thread.                                                 *)
(*   unborn    not created                                                 *)
(*   starting  created, has not taken the lock yet                         *)
(*   running   runs a task popped by the BUSY loop                         *)
(*   finished  is about to take the lock again in the BUSY loop            *)
(*   waiting   sleeps in condvar.wait_timeout                              *)
(*   woken     left the wait, notified or not, and wants the lock          *)
(*   timedout  left the wait because keep_alive passed, wants the lock     *)
(*   draining  runs a mandatory task popped by the shutdown drain          *)
(*   drained   is about to take the lock again in the shutdown drain       *)
(*   stopping  released the lock for good: before_stop, the join           *)
(*   dropped   dropped its shutdown sender, is about to end                *)
(*   exited    ended                                                       *)
(***************************************************************************)
Busy == {"starting", "running", "finished"}
Woken == {"woken", "timedout"}
Idle == {"waiting"} \cup Woken
Draining == {"draining", "drained"}
\* The threads num_threads counts.
Counted == Busy \cup Idle \cup Draining
\* The threads whose closure still owns a clone of shutdown_tx.
HoldsTx == Counted \cup {"stopping"}
PCs == HoldsTx \cup {"unborn", "dropped", "exited"}

In(S) == {t \in Threads : pc[t] \in S}

Init ==
  /\ queue = <<>>
  /\ num_notify = 0
  /\ shutdown = FALSE
  /\ shutdown_tx = TRUE
  /\ last_exiting_thread = NoThread
  /\ worker_threads = {}
  /\ num_threads = 0
  /\ num_idle_threads = 0
  /\ pc = [t \in Threads |-> "unborn"]
  /\ task = [t \in Threads |-> NoTask]
  /\ join_on_thread = [t \in Threads |-> NoThread]
  /\ status = [k \in Tasks |-> "new"]
  /\ reply = [k \in Tasks |-> "none"]
  /\ owner = "using"
  /\ to_join = {}

\* Condvar::notify_one on the thread states p: one sleeper, if any, leaves
\* the wait.
NotifyOne(p) ==
  LET sleepers == {t \in Threads : p[t] = "waiting"}
  IN  IF sleepers = {} THEN {p} ELSE {[p EXCEPT ![t] = "woken"] : t \in sleepers}

NotifyAll(p) == [t \in Threads |-> IF p[t] = "waiting" THEN "woken" ELSE p[t]]

-----------------------------------------------------------------------------
(***************************************************************************)
(* Spawner::spawn_task, called by anyone who holds a runtime handle, a     *)
(* task of the pool included.                                              *)
(***************************************************************************)
SpawnShuttingDown(k) ==
  /\ shutdown
  /\ status[k] = "new"
  /\ status' = [status EXCEPT ![k] = "cancelled"]
  /\ reply' = [reply EXCEPT ![k] = "shutting_down"]
  /\ UNCHANGED <<shared, pc, task, join_on_thread, owner, to_join>>

\* The part common to every call on an open pool.
Push(k, answer) ==
  /\ ~shutdown
  /\ status[k] = "new"
  /\ queue' = Append(queue, k)
  /\ status' = [status EXCEPT ![k] = "queued"]
  /\ reply' = [reply EXCEPT ![k] = answer]
  /\ UNCHANGED <<shutdown, shutdown_tx, last_exiting_thread, task,
                 join_on_thread, owner, to_join>>

\* Mutant of SpawnNotify: the woken thread stays counted idle.
SpawnNotifyKeepsIdle(k) ==
  /\ Push(k, "ok")
  /\ num_idle_threads # 0
  /\ num_notify' = num_notify + 1
  /\ pc' \in NotifyOne(pc)
  /\ UNCHANGED <<worker_threads, num_threads, num_idle_threads>>

\* Mutant of SpawnNotify: the wake-up is counted, nobody is notified.
SpawnNotifyCallsNobody(k) ==
  /\ Push(k, "ok")
  /\ num_idle_threads # 0
  /\ num_idle_threads' = num_idle_threads - 1
  /\ num_notify' = num_notify + 1
  /\ UNCHANGED <<worker_threads, num_threads, pc>>

SpawnNotify(k) ==
  /\ Push(k, "ok")
  /\ num_idle_threads # 0
  /\ num_idle_threads' = num_idle_threads - 1
  /\ num_notify' = num_notify + 1
  /\ pc' \in NotifyOne(pc)
  /\ UNCHANGED <<worker_threads, num_threads>>

SpawnAtCap(k) ==
  /\ Push(k, "ok")
  /\ num_idle_threads = 0
  /\ num_threads = ThreadCap
  /\ UNCHANGED <<num_notify, worker_threads, num_threads, num_idle_threads, pc>>

\* Mutant of SpawnThread: the cap is not looked at.
SpawnThreadBeyondCap(k, t) ==
  /\ Push(k, "ok")
  /\ num_idle_threads = 0
  /\ pc[t] = "unborn"
  /\ num_threads' = num_threads + 1
  /\ worker_threads' = worker_threads \cup {t}
  /\ pc' = [pc EXCEPT ![t] = "starting"]
  /\ UNCHANGED <<num_notify, num_idle_threads>>

\* The operating system gave the thread t.
SpawnThread(k, t) ==
  /\ Push(k, "ok")
  /\ num_idle_threads = 0
  /\ num_threads # ThreadCap
  /\ shutdown_tx
  /\ pc[t] = "unborn"
  /\ num_threads' = num_threads + 1
  /\ worker_threads' = worker_threads \cup {t}
  /\ pc' = [pc EXCEPT ![t] = "starting"]
  /\ UNCHANGED <<num_notify, num_idle_threads>>

\* It gave none.  A WouldBlock with a thread in the pool counts as success,
\* everything else is NoThreads with the task left in the queue.
SpawnFails(k) ==
  /\ \/ num_threads > 0 /\ Push(k, "ok")
     \/ Push(k, "no_threads")
  /\ num_idle_threads = 0
  /\ num_threads # ThreadCap
  /\ shutdown_tx
  /\ UNCHANGED <<num_notify, worker_threads, num_threads, num_idle_threads, pc>>

Spawn(k) ==
  \/ SpawnShuttingDown(k)
  \/ SpawnNotify(k)
  \/ SpawnAtCap(k)
  \/ \E t \in Threads : SpawnThread(k, t)
  \/ SpawnFails(k)

-----------------------------------------------------------------------------
(***************************************************************************)
(* Inner::run.                                                             *)
(***************************************************************************)
\* Pop the head of the queue and unlock to run it.
PopAndRun(t) ==
  /\ queue # <<>>
  /\ queue' = Tail(queue)
  /\ task' = [task EXCEPT ![t] = Head(queue)]
  /\ status' = [status EXCEPT ![Head(queue)] = "running"]
  /\ pc' = [pc EXCEPT ![t] = "running"]

\* Mutant of Sleep: the BUSY loop is an `if let`, one task per wakeup.
SleepWithWork(t) ==
  /\ num_idle_threads' = num_idle_threads + 1
  /\ pc' = [pc EXCEPT ![t] = "waiting"]
  /\ UNCHANGED <<queue, task, status>>

\* Count oneself idle and sleep.
Sleep(t) ==
  /\ queue = <<>>
  /\ num_idle_threads' = num_idle_threads + 1
  /\ pc' = [pc EXCEPT ![t] = "waiting"]
  /\ UNCHANGED <<queue, task, status>>

\* The exit sequence, entered with `idle` threads counted idle.
Exit(t, idle) ==
  /\ num_threads' = num_threads - 1
  /\ num_idle_threads' = idle - 1
  /\ LET left == [pc EXCEPT ![t] = "stopping"]
     IN  pc' \in (IF shutdown /\ num_threads' = 0 THEN NotifyOne(left) ELSE {left})
  /\ UNCHANGED <<queue, task, status>>

\* Mutant of DrainTask: mandatory tasks are shut down like the others.
DrainTaskCancelsAll(t, idle) ==
  /\ queue # <<>>
  /\ queue' = Tail(queue)
  /\ num_idle_threads' = idle
  /\ status' = [status EXCEPT ![Head(queue)] = "cancelled"]
  /\ pc' = [pc EXCEPT ![t] = "drained"]
  /\ UNCHANGED <<task, num_threads>>

\* The drain loop: a task that is not mandatory is shut down unrun.
DrainTask(t, idle) ==
  LET k == Head(queue) IN
  /\ queue # <<>>
  /\ queue' = Tail(queue)
  /\ num_idle_threads' = idle
  /\ IF k \in Mandatory
       THEN /\ status' = [status EXCEPT ![k] = "running"]
            /\ task' = [task EXCEPT ![t] = k]
            /\ pc' = [pc EXCEPT ![t] = "draining"]
       ELSE /\ status' = [status EXCEPT ![k] = "cancelled"]
            /\ pc' = [pc EXCEPT ![t] = "drained"]
            /\ UNCHANGED task
  /\ UNCHANGED num_threads

\* Mutant of ShutdownBranch: the thread is not counted idle again.
ShutdownBranchNoUndo(t, idle) ==
  \/ DrainTask(t, idle)
  \/ queue = <<>> /\ Exit(t, idle)

\* From `if shared.shutdown`, which counts the thread idle once more.
ShutdownBranch(t, idle) ==
  \/ DrainTask(t, idle)
  \/ queue = <<>> /\ Exit(t, idle + 1)

BusyLoop(t) ==
  /\ pc[t] \in {"starting", "finished"}
  /\ \/ PopAndRun(t) /\ UNCHANGED <<num_threads, num_idle_threads>>
     \/ ~shutdown /\ Sleep(t) /\ UNCHANGED num_threads
     \/ shutdown /\ queue = <<>> /\ ShutdownBranch(t, num_idle_threads + 1)
  /\ UNCHANGED <<num_notify, shutdown, shutdown_tx, last_exiting_thread,
                 worker_threads, join_on_thread, reply, owner, to_join>>

\* A legitimate wakeup: acknowledge it and go back to the BUSY state.
WakeNotified(t) ==
  /\ pc[t] \in Woken
  /\ num_notify # 0
  /\ num_notify' = num_notify - 1
  /\ \/ /\ ~shutdown
        /\ UNCHANGED num_threads
        /\ \/ PopAndRun(t) /\ UNCHANGED num_idle_threads
           \/ Sleep(t)
     \/ shutdown /\ ShutdownBranch(t, num_idle_threads)
  /\ UNCHANGED <<shutdown, shutdown_tx, last_exiting_thread,
                 worker_threads, join_on_thread, reply, owner, to_join>>

\* Mutant of WakeTimedOut: the timeout is looked at before num_notify.
WakeTimedOutFirst(t) ==
  /\ pc[t] = "timedout"
  /\ ~shutdown
  /\ worker_threads' = worker_threads \ {t}
  /\ last_exiting_thread' = IF t \in worker_threads THEN t ELSE NoThread
  /\ join_on_thread' = [join_on_thread EXCEPT ![t] = last_exiting_thread]
  /\ Exit(t, num_idle_threads)
  /\ UNCHANGED <<num_notify, shutdown, shutdown_tx, reply, owner, to_join>>

\* Mutant of WakeTimedOut: the handle of the thread that left before is lost.
WakeTimedOutNoJoin(t) ==
  /\ pc[t] = "timedout"
  /\ num_notify = 0
  /\ ~shutdown
  /\ worker_threads' = worker_threads \ {t}
  /\ last_exiting_thread' = t
  /\ Exit(t, num_idle_threads)
  /\ UNCHANGED <<num_notify, shutdown, shutdown_tx, join_on_thread, reply,
                 owner, to_join>>

\* keep_alive passed and nobody called: leave, and join the thread that
\* left before.
WakeTimedOut(t) ==
  /\ pc[t] = "timedout"
  /\ num_notify = 0
  /\ ~shutdown
  /\ worker_threads' = worker_threads \ {t}
  /\ last_exiting_thread' = IF t \in worker_threads THEN t ELSE NoThread
  /\ join_on_thread' = [join_on_thread EXCEPT ![t] = last_exiting_thread]
  /\ Exit(t, num_idle_threads)
  /\ UNCHANGED <<num_notify, shutdown, shutdown_tx, reply, owner, to_join>>

\* A spurious wakeup, or a notification another thread has acknowledged.
WakeSpurious(t) ==
  /\ pc[t] = "woken"
  /\ num_notify = 0
  /\ ~shutdown
  /\ pc' = [pc EXCEPT ![t] = "waiting"]
  /\ UNCHANGED <<shared, task, join_on_thread, status, reply, owner, to_join>>

WakeShutdown(t) ==
  /\ pc[t] \in Woken
  /\ num_notify = 0
  /\ shutdown
  /\ ShutdownBranch(t, num_idle_threads)
  /\ UNCHANGED <<num_notify, shutdown, shutdown_tx, last_exiting_thread,
                 worker_threads, join_on_thread, reply, owner, to_join>>

DrainLoop(t) ==
  /\ pc[t] = "drained"
  /\ ShutdownBranch(t, num_idle_threads)
  /\ UNCHANGED <<num_notify, shutdown, shutdown_tx, last_exiting_thread,
                 worker_threads, join_on_thread, reply, owner, to_join>>

\* The task returns or panics; the harness catches the panic.
FinishTask(t) ==
  /\ pc[t] \in {"running", "draining"}
  /\ status' = [status EXCEPT ![task[t]] = "done"]
  /\ task' = [task EXCEPT ![t] = NoTask]
  /\ pc' = [pc EXCEPT ![t] = IF pc[t] = "running" THEN "finished" ELSE "drained"]
  /\ UNCHANGED <<shared, join_on_thread, reply, owner, to_join>>

\* wait_timeout returns: keep_alive has passed, or for no reason.
LeaveWait(t) ==
  /\ pc[t] = "waiting"
  /\ \E reason \in Woken : pc' = [pc EXCEPT ![t] = reason]
  /\ UNCHANGED <<shared, task, join_on_thread, status, reply, owner, to_join>>

\* The join returns, Inner::run returns and the closure drops its sender.
DropTx(t) ==
  /\ pc[t] = "stopping"
  /\ join_on_thread[t] # NoThread => pc[join_on_thread[t]] = "exited"
  /\ pc' = [pc EXCEPT ![t] = "dropped"]
  /\ UNCHANGED <<shared, task, join_on_thread, status, reply, owner, to_join>>

EndThread(t) ==
  /\ pc[t] = "dropped"
  /\ pc' = [pc EXCEPT ![t] = "exited"]
  /\ UNCHANGED <<shared, task, join_on_thread, status, reply, owner, to_join>>

\* The steps a thread takes by itself once it can run.
ThreadStep(t) ==
  \/ BusyLoop(t)
  \/ WakeNotified(t) \/ WakeTimedOut(t) \/ WakeSpurious(t) \/ WakeShutdown(t)
  \/ DrainLoop(t)
  \/ FinishTask(t)
  \/ DropTx(t) \/ EndThread(t)

-----------------------------------------------------------------------------
(***************************************************************************)
(* BlockingPool::shutdown.  The second call, from drop, finds `shutdown`   *)
(* set and returns.                                                        *)
(***************************************************************************)
\* Mutant of Shutdown: it wakes one sleeper, not all of them.
ShutdownWakesOne ==
  /\ owner = "using"
  /\ ~shutdown
  /\ shutdown' = TRUE
  /\ shutdown_tx' = FALSE
  /\ pc' \in NotifyOne(pc)
  /\ to_join' = worker_threads \cup ({last_exiting_thread} \ {NoThread})
  /\ last_exiting_thread' = NoThread
  /\ worker_threads' = {}
  /\ owner' = "waiting"
  /\ UNCHANGED <<queue, num_notify, num_threads, num_idle_threads, task,
                 join_on_thread, status, reply>>

Shutdown ==
  /\ owner = "using"
  /\ ~shutdown
  /\ shutdown' = TRUE
  /\ shutdown_tx' = FALSE
  /\ pc' = NotifyAll(pc)
  /\ to_join' = worker_threads \cup ({last_exiting_thread} \ {NoThread})
  /\ last_exiting_thread' = NoThread
  /\ worker_threads' = {}
  /\ owner' = "waiting"
  /\ UNCHANGED <<queue, num_notify, num_threads, num_idle_threads, task,
                 join_on_thread, status, reply>>

\* Receiver::wait returns true once every sender is gone.
AllSendersDropped ==
  /\ owner = "waiting"
  /\ ~shutdown_tx /\ In(HoldsTx) = {}
  /\ owner' = "joining"
  /\ UNCHANGED <<shared, pc, task, join_on_thread, status, reply, to_join>>

\* shutdown_timeout and shutdown_background give up and join nothing.
WaitTimesOut ==
  /\ owner = "waiting"
  /\ owner' = "gave_up"
  /\ to_join' = {}
  /\ UNCHANGED <<shared, pc, task, join_on_thread, status, reply>>

JoinAll ==
  /\ owner = "joining"
  /\ \A t \in to_join : pc[t] = "exited"
  /\ owner' = "returned"
  /\ to_join' = {}
  /\ UNCHANGED <<shared, pc, task, join_on_thread, status, reply>>

Next ==
  \/ \E k \in Tasks : Spawn(k)
  \/ \E t \in Threads : ThreadStep(t) \/ LeaveWait(t)
  \/ Shutdown \/ AllSendersDropped \/ WaitTimesOut \/ JoinAll

Spec == Init /\ [][Next]_vars

\* Threads get the processor and the lock, tasks end, and the owner goes on
\* when what it waits for has happened.  Nobody has to spawn or shut down,
\* and no wait has to time out.
Fairness ==
  /\ \A t \in Threads : WF_vars(ThreadStep(t))
  /\ WF_vars(AllSendersDropped) /\ WF_vars(JoinAll)

FairSpec == Spec /\ Fairness

-----------------------------------------------------------------------------
(***************************************************************************)
(* What the pool keeps.                                                    *)
(***************************************************************************)
\* The values the variables take; in particular num_idle_threads and
\* num_threads never wrap below zero, which the assertion of the exit
\* sequence (pool.rs:578) is about.
TypeOK ==
  /\ queue \in Seq(Tasks)
  /\ num_notify \in Nat
  /\ shutdown \in BOOLEAN
  /\ shutdown_tx \in BOOLEAN
  /\ last_exiting_thread \in Threads \cup {NoThread}
  /\ worker_threads \subseteq Threads
  /\ num_threads \in Nat
  /\ num_idle_threads \in Nat
  /\ pc \in [Threads -> PCs]
  /\ task \in [Threads -> Tasks \cup {NoTask}]
  /\ join_on_thread \in [Threads -> Threads \cup {NoThread}]
  /\ status \in [Tasks -> {"new", "queued", "running", "done", "cancelled"}]
  /\ reply \in [Tasks -> {"none", "ok", "shutting_down", "no_threads"}]
  /\ owner \in {"using", "waiting", "joining", "gave_up", "returned"}
  /\ to_join \subseteq Threads

\* Until the shutdown, the idle counter is the number of sleeping threads
\* less the wakeups that are promised and not yet acknowledged.  A spawner
\* decides from that counter alone whether to wake a thread or make one.
IdleAccounting ==
  ~shutdown => num_idle_threads + num_notify = Cardinality(In(Idle))

\* Every promised wakeup has a thread that is out of the wait to honour it,
\* so a notification is never lost to a timeout or a spurious wakeup.
NoLostWakeup == num_notify <= Cardinality(In(Woken))

\* num_threads counts the threads that can still take a task, and there are
\* never more than the cap allows.
ThreadAccounting ==
  /\ num_threads = Cardinality(In(Counted))
  /\ num_threads <= ThreadCap

AcceptedInQueue == \E i \in DOMAIN queue : reply[queue[i]] = "ok"

\* A task whose spawner was told Ok is never left in the queue with no
\* thread on its way to it.
NoStrandedTask ==
  AcceptedInQueue =>
    IF shutdown THEN In(Counted) # {} ELSE In(Busy) # {} \/ num_notify > 0

\* When a shutdown without a timeout has returned, every thread the pool
\* ever made has ended, the ones that had timed out before included, and
\* every accepted task has run or was cancelled.
ShutdownComplete ==
  owner = "returned" =>
    /\ \A t \in Threads : pc[t] \in {"unborn", "exited"}
    /\ \A k \in Tasks : reply[k] = "ok" => status[k] \in {"done", "cancelled"}

\* The promise of TaskPool: FIFO starts, at most ThreadCap at a time, each
\* task at most once, nothing mandatory dropped.
Abstract == INSTANCE TaskPool
ImplementsTaskPool == Abstract!Spec

\* Every task accepted by the pool is run or, at shutdown, cancelled.
AcceptedResolved ==
  \A k \in Tasks : reply[k] = "ok" ~> status[k] \in {"done", "cancelled"}

\* A shutdown returns.
ShutdownReturns == owner = "waiting" ~> owner \in {"gave_up", "returned"}

=============================================================================
