---------------------------- MODULE WasmRuntime ----------------------------
(***************************************************************************)
(* The tokio runtime as it runs in the browser: the blocking pool, whose   *)
(* threads are made by thread-spawn, on the workers of the browser host.   *)
(* The start_arg of a pool thread stands for the closure spawn_thread      *)
(* hands to the new thread.                                                *)
(*                                                                         *)
(* A pool thread runs only once a thread worker has called                 *)
(* wasi_thread_start with its start_arg.  The main worker owns the         *)
(* runtime; its tasks are spawned from the main worker (block_on) or from  *)
(* a task that runs on a pool thread.  What else can happen besides the    *)
(* regular course is fixed for each behavior: see Happenings.              *)
(***************************************************************************)
EXTENDS Integers, Sequences, FiniteSets

CONSTANTS Threads, Tasks, Mandatory, ThreadCap, NoThread, NoTask,
          TidSpace, MaxSpawns,
          Schedulers,  \* the tasks that are scheduler workers (worker.rs, Launch)
          Cases        \* the sets of happenings to look at

\*   nested        a task on a pool thread spawns, too
\*   worker_fails  a worker does not load or does not instantiate
\*   create_fails  pthread_create returns an error
Happenings == {"nested", "worker_fails", "create_fails"}

ASSUME SchedulersAssumption == Schedulers \subseteq Tasks
ASSUME CasesAssumption == Cases \subseteq SUBSET Happenings

VARIABLES queue, num_notify, shutdown, shutdown_tx, last_exiting_thread,
          worker_threads, num_threads, num_idle_threads, pc, task,
          join_on_thread, status, reply, owner, to_join,
          main, nextTid, mainPort, unheard, workers, spawns,
          happens   \* what can happen in this behavior

P == INSTANCE BlockingPool
H == INSTANCE WasiThreads WITH StartArgs <- Threads, NestedSpawn <- TRUE

\* What the pool and the host assume of their constants.
ASSUME PoolAssumption ==
  P!ThreadsAssumption /\ P!TasksAssumption /\ P!ThreadCapAssumption
ASSUME HostAssumption == H!SpawnsAssumption /\ H!NestedSpawnAssumption

poolVars == <<queue, num_notify, shutdown, shutdown_tx, last_exiting_thread,
              worker_threads, num_threads, num_idle_threads, pc, task,
              join_on_thread, status, reply, owner, to_join>>
hostVars == <<main, nextTid, mainPort, unheard, workers, spawns>>
system == <<poolVars, hostVars>>
vars == <<system, happens>>

Init == P!Init /\ H!Init /\ happens \in Cases

-----------------------------------------------------------------------------
\* The thread worker that runs the pool thread t.
HostedOn(t, w) == workers[w].pc = "running" /\ workers[w].msg.startArg = t
Hosted(t) == \E w \in DOMAIN workers : HostedOn(t, w)

\* The pool thread t is inside the task it popped, and calls the handle.
InTask(t) == pc[t] \in {"running", "draining"}

\* A call that makes no thread.
SpawnsNoThread(k) ==
  /\ \/ P!SpawnShuttingDown(k) \/ P!SpawnNotify(k)
     \/ P!SpawnAtCap(k)
     \/ "create_fails" \in happens /\ P!SpawnFails(k)
  /\ UNCHANGED hostVars

\* Mutant of SpawnFromMain: thread-spawn takes a tid and posts nothing.
SpawnFromMainUnposted(k) ==
  /\ main = "running" /\ owner = "using"
  /\ \/ SpawnsNoThread(k)
     \/ \E t \in Threads : P!SpawnThread(k, t) /\ UNCHANGED hostVars

SpawnFromMain(k) ==
  /\ main = "running" /\ owner = "using"
  /\ \/ SpawnsNoThread(k)
     \/ \E t \in Threads : P!SpawnThread(k, t) /\ H!SpawnFromMain(t)

\* spawn_blocking or block_in_place called by a task on a pool thread.
SpawnFromTask(k) ==
  /\ "nested" \in happens
  /\ \E u \in Threads : \E w \in DOMAIN workers :
       /\ InTask(u) /\ HostedOn(u, w)
       /\ \/ SpawnsNoThread(k)
          \/ \E t \in Threads : P!SpawnThread(k, t) /\ H!SpawnFromThread(w, t)

\* Mutant of Runs: the thread never lets go of its shutdown sender.
RunsKeepingTx(t) ==
  /\ Hosted(t)
  /\ \/ P!BusyLoop(t)
     \/ P!WakeNotified(t) \/ P!WakeTimedOut(t) \/ P!WakeSpurious(t) \/ P!WakeShutdown(t)
     \/ P!DrainLoop(t)
     \/ P!FinishTask(t) /\ (task[t] \in Schedulers => shutdown)
  /\ UNCHANGED hostVars

\* A step of a thread, on its worker.  A scheduler worker ends only when the
\* runtime is shut down.
Runs(t) ==
  /\ Hosted(t)
  /\ \/ P!BusyLoop(t)
     \/ P!WakeNotified(t) \/ P!WakeTimedOut(t) \/ P!WakeSpurious(t) \/ P!WakeShutdown(t)
     \/ P!DrainLoop(t)
     \/ P!FinishTask(t) /\ (task[t] \in Schedulers => shutdown)
     \/ P!DropTx(t)
  /\ UNCHANGED hostVars

\* The closure returns, and with it wasi_thread_start.
Ends(t) ==
  \E w \in DOMAIN workers : HostedOn(t, w) /\ P!EndThread(t) /\ H!WorkerEnds(w)

LeavesWait(t) == P!LeaveWait(t) /\ UNCHANGED hostVars

ThreadStep(t) == Runs(t) \/ Ends(t)

\* The main worker's own frame: shutting the runtime down and leaving main.
OwnerStep ==
  /\ main = "running"
  /\ P!AllSendersDropped \/ P!JoinAll
  /\ UNCHANGED hostVars

OwnerChoice ==
  /\ main = "running"
  /\ P!Shutdown \/ P!WaitTimesOut
  /\ UNCHANGED hostVars

MainEnds == owner \in {"gave_up", "returned"} /\ H!MainEnds /\ UNCHANGED poolVars

\* Mutant of Host: the page does not listen to the main worker either.
HostDeafPage ==
  /\ \/ H!MainReceives \/ H!MainCompiled \/ H!MainStarts
     \/ \E w \in DOMAIN workers : H!WorkerReceives(w) \/ H!WorkerStarts(w)
  /\ UNCHANGED poolVars

Host ==
  /\ \/ H!MainReceives \/ H!MainCompiled \/ H!MainStarts \/ H!PageReceives
     \/ \E w \in DOMAIN workers : H!WorkerReceives(w) \/ H!WorkerStarts(w)
  /\ UNCHANGED poolVars

HostFails ==
  /\ "worker_fails" \in happens
  /\ H!MainFails \/ \E w \in DOMAIN workers : H!WorkerFails(w)
  /\ UNCHANGED poolVars

Next ==
  /\ \/ \E k \in Tasks : SpawnFromMain(k) \/ SpawnFromTask(k)
     \/ \E t \in Threads : ThreadStep(t) \/ LeavesWait(t)
     \/ OwnerStep \/ OwnerChoice \/ MainEnds
     \/ Host \/ HostFails
  /\ UNCHANGED happens

Spec == Init /\ [][Next]_vars

\* Threads that are hosted run, event loops turn, and the owner goes on.
Fairness ==
  /\ WF_system(Host)
  /\ \A t \in Threads : WF_system(ThreadStep(t))
  /\ WF_system(OwnerStep)

FairSpec == Spec /\ Fairness

-----------------------------------------------------------------------------
\* No closure runs twice: no two workers call wasi_thread_start for the same
\* pool thread, and none runs a thread the pool has not made or one that has
\* ended, although the start_arg goes through spawner, port, page and worker.
NoThreadRunsTwice ==
  /\ \A t \in Threads : \A v, w \in DOMAIN workers :
       HostedOn(t, v) /\ HostedOn(t, w) => v = w
  /\ \A w \in DOMAIN workers :
       workers[w].pc = "running"
         => pc[workers[w].msg.startArg] \notin {"unborn", "exited"}

\* The thread t has a worker, or a message that will make one.
WillBeHosted(t) ==
  \/ \E i \in DOMAIN mainPort : mainPort[i].startArg = t
  \/ \E w \in DOMAIN workers :
       workers[w].msg.startArg = t /\ workers[w].pc \in {"loading", "instantiating", "running"}

\* As long as the main worker alone spawns and workers load, an accepted task
\* in the queue of an open pool has a thread on its way to it that the host has
\* started or will start, also when some threads could not be created.
NoTaskStrandedByHost ==
  happens \subseteq {"create_fails"} /\ P!AcceptedInQueue /\ ~shutdown =>
    \/ \E t \in P!In(P!Busy) : WillBeHosted(t)
    \/ num_notify > 0 /\ \E t \in P!In(P!Woken) : Hosted(t)

\* "Tokio will spawn more blocking threads when they are requested through
\* this function until the upper limit configured on the Builder is reached"
\* (blocking.rs:91): with room left under the cap for the schedulers, a
\* closure handed to spawn_blocking runs.
BlockingTaskRuns ==
  \A k \in Tasks \ Schedulers :
    reply[k] = "ok" ~> status[k] \in {"done", "cancelled"}

\* The same in the regular course.  It does not hold when a task spawns, as
\* the host never learns of the thread, nor after a failed pthread_create,
\* when the busy thread the code relies on (pool.rs:429) is a scheduler.
BlockingTaskRunsRegularly ==
  \A k \in Tasks \ Schedulers :
    (happens = {} /\ reply[k] = "ok") ~> status[k] \in {"done", "cancelled"}

\* "When you shut down the executor, it will wait indefinitely for all
\* blocking operations to finish" (blocking.rs:115), and for nothing else:
\* once all of them have finished, the shutdown returns, unless a thread was
\* made that the host does not run.
ShutdownWaitsOnlyForTasks ==
  (/\ happens \subseteq {"create_fails"}
   /\ owner = "waiting"
   /\ \A k \in Tasks : status[k] \in {"new", "done", "cancelled"})
    ~> owner \in {"gave_up", "returned"}
=============================================================================
