------------------------------- MODULE Scheduler -------------------------------
(* The multi_thread scheduler of tokio (src/tokio/tokio/src/runtime/scheduler/ *)
(* multi_thread/worker.rs, idle.rs, park.rs) and the tasks it runs (runtime/   *)
(* task/harness.rs, join.rs, whose words are those of TaskState).              *)
(*                                                                             *)
(* The actors are the threads of the blocking pool, each of which runs a       *)
(* worker while it has the worker's core; the main thread, which owns the      *)
(* runtime, spawns, joins, aborts and shuts down; and a source of events on    *)
(* another thread, which wakes tasks by the wakers they left with it.  A step  *)
(* is one access to what the actors share, with what its actor does to its own *)
(* data.  The exceptions are these.  The operations of a local queue are single*)
(* steps, as StealQueue shows.  A worker that takes a task polls it in the     *)
(* same step, and a finished task leaves the list of tasks and drops its       *)
(* references in one: what others do to its word in between they may as well   *)
(* do before.  The last worker to shut down drains the queues in one step: all *)
(* workers are done with them.  No local queue overflows: there are few tasks. *)
(* With three workers two could steal from one queue at once, and the second   *)
(* would find it busy; the instances have two.                                 *)
(*                                                                             *)
(* Left out: deferred wakers (yield_now), MAX_LIFO_POLLS_PER_TICK, tracing,    *)
(* metrics, panics in a poll.  The budget of a client bounds how often a task  *)
(* leaves a waker, wakes a task or blocks in place.                            *)
EXTENDS TaskState, Sequences, FiniteSets, SequencesExt, TLC

CONSTANTS Workers, Tasks, Threads, Main, Source,
          NoWorker, NoTask, NoActor,
          Clients    \* the programs to look at

\* What a program may do besides spawning tasks that end or wait:
\*   register  a task leaves its waker with the source
\*   driver    it leaves its waker with the driver, which a worker polls
\*   wake      a task wakes itself or another
\*   block     a task blocks in place
\*   join      the main thread awaits tasks, or drops their handles
\*   repoll    it polls a JoinHandle again with another waker
\*   abort     it aborts tasks
\*   shutdown  it shuts the runtime down
Habits == {"register", "driver", "wake", "block", "join", "repoll", "abort", "shutdown"}

ASSUME ActorsAssumption ==
    /\ IsFiniteSet(Workers) /\ IsFiniteSet(Threads)
    /\ NoWorker \notin Workers /\ NoTask \notin Tasks
    /\ Main \notin Threads /\ Source \notin Threads /\ Main # Source
ASSUME SchedulerAssumption ==
    Clients \subseteq [habits : SUBSET Habits, workers : SUBSET Workers,
                       tasks : SUBSET Tasks, budget : Nat]

Actors == Threads \cup {Main, Source}

VARIABLES tk,      \* of each task: its word, output, join waker, wakers, handle
          rt,      \* what the runtime shares
          th,      \* of each actor: where it is and what it has in hand
          joiner,  \* the waker the main thread polls with, and those woken
          spent,   \* how much of the budget is used
          client   \* the program of this behavior

vars == <<tk, rt, th, joiner, spent, client>>

Scheduling == {"submit", "notify", "unpark", "signal", "poke"}
Unscheduled == [wake |-> NoTask, target |-> NoWorker, then |-> "free",
                yield |-> FALSE, drops |-> FALSE]
Idling == [pc |-> "free", core |-> NoWorker, home |-> NoWorker, task |-> NoTask,
           cont |-> "lifo", left |-> {}, wake |-> NoTask, target |-> NoWorker,
           then |-> "free", yield |-> FALSE, drops |-> FALSE]

\* A task that is not spawned yet, or that is deallocated.
Dead == [Initial EXCEPT !.complete = TRUE, !.refs = 0]

Init ==
    /\ client \in Clients
    /\ tk = [k \in Tasks |->
                [word |-> Dead, output |-> "none", waker |-> 0,
                 wakers |-> 0, handle |-> "none"]]
    /\ rt = [runq |-> [w \in Workers |-> <<>>], lifo |-> [w \in Workers |-> NoTask],
             inject |-> <<>>, closed |-> FALSE,
             searching |-> 0, unparked |-> Cardinality(client.workers), sleepers |-> <<>>,
             parker |-> [w \in Workers |-> "EMPTY"], driver |-> NoActor, token |-> FALSE,
             slot |-> client.workers,    \* the workers whose core is in worker.core
             launched |-> SetToSeq(client.workers),    \* the queue of the blocking pool
             isSearching |-> {}, isShutdown |-> {}, down |-> {},
             owned |-> {}, ownedClosed |-> FALSE]
    /\ th = [a \in Actors |-> [Idling EXCEPT !.pc = CASE a = Main -> "main"
                                                      [] a = Source -> "source"
                                                      [] OTHER -> "free"]]
    /\ joiner = [waker |-> 1, woken |-> {}]
    /\ spent = 0

-----------------------------------------------------------------------------
At(a, pc) == th[a].pc = pc

\* An actor that schedules no task any more forgets what it had to schedule.
Goes(a, fields) ==
    LET r == th[a]
        New(f) == IF f \in DOMAIN fields THEN fields[f] ELSE r[f]
        pc == New("pc")
        Kept(f) == IF pc \in Scheduling THEN New(f) ELSE Unscheduled[f] IN
    th' = [th EXCEPT ![a] =
              [pc |-> pc, core |-> New("core"), home |-> New("home"), task |-> New("task"),
               cont |-> New("cont"), left |-> New("left"), wake |-> Kept("wake"),
               target |-> Kept("target"), then |-> Kept("then"), yield |-> Kept("yield"),
               drops |-> Kept("drops")]]

Habit(h) == h \in client.habits
CanSpend == spent < client.budget

N == Cardinality(client.workers)
Others(w) == client.workers \ {w}

HasTasks(r, w) == r.lifo[w] # NoTask \/ r.runq[w] # <<>>

\* should_notify_others
ShouldNotifyOthers(r, w) ==
    /\ w \notin r.isSearching
    /\ Len(r.runq[w]) + (IF r.lifo[w] # NoTask THEN 1 ELSE 0) > 1

\* schedule_local: to the LIFO slot, whose task moves to the queue.
ToLifo(r, w, k) ==
    [r EXCEPT !.lifo[w] = k,
              !.runq[w] = IF r.lifo[w] = NoTask THEN @ ELSE Append(@, r.lifo[w])]

ToBack(r, w, k) == [r EXCEPT !.runq[w] = Append(@, k)]

\* A task whose last reference goes is deallocated.
Freed(task) ==
    IF task.handle = "none" \/ task.word.refs > 0 THEN task
    ELSE [task EXCEPT !.word = Dead, !.output = "gone", !.waker = 0]

SetTask(k, task) == tk' = [tk EXCEPT ![k] = Freed(task)]

SetWord(k, word) == SetTask(k, [tk[k] EXCEPT !.word = word])

\* Harness::poll_inner; a cancelled task gets its output here.
Run(t, k) == LET r == ToRunning(tk[k].word) IN
    /\ SetTask(k, [tk[k] EXCEPT !.word = r.next,
                               !.output = IF r.action = "Cancelled" THEN "stored" ELSE @])
    /\ Goes(t, CASE r.action = "Success" -> [pc |-> "body", task |-> k, left |-> {}]
                 [] r.action = "Cancelled" -> [pc |-> "complete", task |-> k, left |-> {}]
                 [] r.action = "Failed" -> [pc |-> "lifo", task |-> NoTask, left |-> {}])

\* A worker polls the task it takes, once it is not searching any more.
Takes(t, k) ==
    IF th[t].core \in rt.isSearching
    THEN Goes(t, [pc |-> "found", task |-> k, left |-> {}]) /\ UNCHANGED tk
    ELSE Run(t, k)

-----------------------------------------------------------------------------
(* A worker looks for a task                                                   *)

\* run(worker), which finds the core taken if block_in_place took it back.  The
\* free threads are alike: one of them takes it.
Start(t) == LET w == Head(rt.launched) IN
    /\ At(t, "free") /\ t = CHOOSE u \in Threads : At(u, "free")
    /\ rt.launched # <<>>
    /\ rt' = [rt EXCEPT !.launched = Tail(@), !.slot = @ \ {w}]
    /\ IF w \in rt.slot THEN Goes(t, [pc |-> "top", core |-> w]) ELSE UNCHANGED th
    /\ UNCHANGED <<tk, joiner, spent, client>>

\* Context::run leaves its loop; pre_shutdown closes the list of tasks.
LeaveLoop(t) ==
    /\ At(t, "top") /\ th[t].core \in rt.isShutdown
    /\ Goes(t, [pc |-> "shut all"])
    /\ rt' = [rt EXCEPT !.ownedClosed = TRUE]
    /\ UNCHANGED <<tk, joiner, spent, client>>

\* The driver has an event for k: it wakes k on worker w.  core.park is taken, so
\* nobody is notified.  An unpark of the driver is one of the events it reads.
Event(w, k) ==
    LET r == NotifiedByVal(tk[k].word)
        submit == r.action = "Submit" IN
    /\ Habit("driver") /\ tk[k].wakers > 0
    /\ SetTask(k, [tk[k] EXCEPT !.wakers = @ - 1,
                               !.word = IF submit THEN RefDec(r.next) ELSE r.next])
    /\ rt' = [IF submit THEN ToLifo(rt, w, k) ELSE rt EXCEPT !.token = FALSE]

\* Context::maintenance, every event_interval ticks: it polls the driver,
MaintainDriver(t) == LET w == th[t].core IN
    /\ At(t, "top") /\ w \notin rt.isShutdown
    /\ rt.driver = NoActor /\ \E k \in Tasks : Event(w, k)
    /\ Goes(t, [pc |-> IF ShouldNotifyOthers(rt', w) THEN "notify" ELSE "maintenance",
                then |-> "maintenance"])
    /\ UNCHANGED <<joiner, spent, client>>

\* and looks whether the scheduler is shut down, which it does in the loop of
\* Context::park as well (Core::maintenance).
Maintenance(t) == LET w == th[t].core IN
    /\ \/ At(t, "maintenance") /\ Goes(t, [pc |-> "next"])
       \/ At(t, "top") /\ rt.closed /\ w \notin rt.isShutdown /\ Goes(t, [pc |-> "next"])
       \/ At(t, "parked maintenance") /\ Goes(t, [pc |-> "from parked"])
    /\ rt' = [rt EXCEPT !.isShutdown = IF rt.closed THEN @ \cup {w} ELSE @]
    /\ UNCHANGED <<tk, joiner, spent, client>>

\* next_task
Nexts(t) == At(t, "next") \/ (At(t, "top") /\ th[t].core \notin rt.isShutdown)

\* Every global_queue_interval ticks the injection queue comes first: it is empty.
NothingInjected(t) ==
    /\ Nexts(t) /\ rt.inject = <<>> /\ rt.runq[th[t].core] # <<>>
    /\ Goes(t, [pc |-> "next local"])
    /\ UNCHANGED <<tk, rt, joiner, spent, client>>

\* next_local_task
TakeLocal(t) == LET w == th[t].core IN
    /\ Nexts(t) \/ At(t, "next local")
    /\ \/ /\ rt.lifo[w] # NoTask
          /\ Takes(t, rt.lifo[w])
          /\ rt' = [rt EXCEPT !.lifo[w] = NoTask]
       \/ /\ rt.lifo[w] = NoTask /\ rt.runq[w] # <<>>
          /\ Takes(t, Head(rt.runq[w]))
          /\ rt' = [rt EXCEPT !.runq[w] = Tail(@)]
    /\ UNCHANGED <<joiner, spent, client>>

\* One task of the injection queue, when it comes first; or the share of a worker
\* that has no tasks.
TakeInjected(t) == LET w == th[t].core
                       share == Min({Len(rt.inject) \div N + 1, Len(rt.inject)}) IN
    /\ Nexts(t) /\ rt.inject # <<>>
    /\ \E n \in {1} \cup (IF HasTasks(rt, w) THEN {} ELSE {share}) :
          rt' = [rt EXCEPT !.inject = SubSeq(@, n + 1, Len(@)),
                           !.runq[w] = @ \o SubSeq(rt.inject, 2, n)]
    /\ Takes(t, Head(rt.inject))
    /\ UNCHANGED <<joiner, spent, client>>

TakeNothing(t) ==
    /\ At(t, "next local") \/ (Nexts(t) /\ rt.inject = <<>>)
    /\ ~HasTasks(rt, th[t].core)
    /\ Goes(t, [pc |-> "steal"])
    /\ UNCHANGED <<tk, rt, joiner, spent, client>>

\* transition_to_searching reads the number of searchers,
StealWork(t) == LET w == th[t].core IN
    /\ At(t, "steal")
    /\ IF w \in rt.isSearching THEN Goes(t, [pc |-> "raid", left |-> Others(w)])
       ELSE Goes(t, [pc |-> IF 2 * rt.searching >= N THEN "park" ELSE "search"])
    /\ UNCHANGED <<tk, rt, joiner, spent, client>>

\* and then adds to it.
Search(t) == LET w == th[t].core IN
    /\ At(t, "search")
    /\ rt' = [rt EXCEPT !.searching = @ + 1, !.isSearching = @ \cup {w}]
    /\ Goes(t, [pc |-> "raid", left |-> Others(w)])
    /\ UNCHANGED <<tk, joiner, spent, client>>

\* steal_into: half of the other's queue; the last one taken is run.
Raid(t) == \E v \in th[t].left :
    LET w == th[t].core
        q == rt.runq[v]
        n == Len(q) - Len(q) \div 2
        rest == [rt.runq EXCEPT ![v] = SubSeq(q, n + 1, Len(q))] IN
    /\ At(t, "raid")
    /\ IF q = <<>> THEN Goes(t, [left |-> th[t].left \ {v}]) /\ UNCHANGED <<rt, tk>>
       ELSE /\ Takes(t, q[n])
            /\ rt' = [rt EXCEPT !.runq = [rest EXCEPT ![w] = @ \o SubSeq(q, 1, n - 1)]]
    /\ UNCHANGED <<joiner, spent, client>>

\* The injection queue once more.
RaidInjected(t) ==
    /\ At(t, "raid") /\ th[t].left = {}
    /\ IF rt.inject = <<>> THEN Goes(t, [pc |-> "park"]) /\ UNCHANGED <<rt, tk>>
       ELSE Takes(t, Head(rt.inject)) /\ rt' = [rt EXCEPT !.inject = Tail(@)]
    /\ UNCHANGED <<joiner, spent, client>>

\* transition_from_searching: the last searcher wakes another worker.
Found(t) == LET w == th[t].core IN
    /\ At(t, "found")
    /\ rt' = [rt EXCEPT !.searching = @ - 1, !.isSearching = @ \ {w}]
    /\ IF rt.searching = 1 THEN Goes(t, [pc |-> "notify", then |-> "poll"]) /\ UNCHANGED tk
       ELSE Run(t, th[t].task)
    /\ UNCHANGED <<joiner, spent, client>>

-----------------------------------------------------------------------------
(* A task runs                                                                 *)

Poll(t) ==
    /\ At(t, "poll") /\ Run(t, th[t].task)
    /\ UNCHANGED <<rt, joiner, spent, client>>

\* The future is polled: it is ready, and Harness::complete begins, or it is not.
Return(t) == LET k == th[t].task IN
    /\ At(t, "body")
    /\ \/ /\ SetTask(k, [tk[k] EXCEPT !.word = ToComplete(@), !.output = "stored"])
          /\ Goes(t, [pc |-> "wake join"])
       \/ Goes(t, [pc |-> "idle"]) /\ UNCHANGED tk
    /\ UNCHANGED <<rt, joiner, spent, client>>

\* It clones its waker for the source or the driver.
Register(t) == LET k == th[t].task IN
    /\ At(t, "body") /\ (Habit("register") \/ Habit("driver")) /\ CanSpend
    /\ tk' = [tk EXCEPT ![k].word = RefInc(@), ![k].wakers = @ + 1]
    /\ spent' = spent + 1
    /\ UNCHANGED <<rt, th, joiner, client>>

\* It wakes itself, or a task whose waker is about: wake_by_ref.  It may do so
\* while it blocks in place, without the core.
Wake(t) == \E k \in Tasks :
    LET r == NotifiedByRef(tk[k].word) IN
    /\ th[t].pc \in {"body", "blocked"} /\ Habit("wake") /\ CanSpend
    /\ k = th[t].task \/ tk[k].wakers > 0
    /\ SetWord(k, r.next)
    /\ IF r.action = "Submit"
       THEN Goes(t, [pc |-> "submit", wake |-> k, then |-> th[t].pc,
                     yield |-> FALSE, drops |-> FALSE])
       ELSE UNCHANGED th
    /\ spent' = spent + 1
    /\ UNCHANGED <<rt, joiner, client>>

\* block_in_place: the core goes to another thread.
Block(t) == LET w == th[t].core IN
    /\ At(t, "body") /\ Habit("block") /\ CanSpend /\ w # NoWorker
    /\ rt' = [rt EXCEPT !.slot = @ \cup {w}, !.launched = Append(@, w)]
    /\ Goes(t, [pc |-> "blocked", core |-> NoWorker, home |-> w])
    /\ spent' = spent + 1
    /\ UNCHANGED <<tk, joiner, client>>

\* Its Reset takes the core back, if no thread has it yet.
Unblock(t) == LET w == th[t].home IN
    /\ At(t, "blocked")
    /\ Goes(t, [pc |-> "body", core |-> IF w \in rt.slot THEN w ELSE NoWorker,
                home |-> NoWorker])
    /\ rt' = [rt EXCEPT !.slot = @ \ {w}]
    /\ UNCHANGED <<tk, joiner, spent, client>>

\* After a poll that returned Pending.
Idle(t) == LET k == th[t].task
               r == ToIdle(tk[k].word) IN
    /\ At(t, "idle")
    /\ SetTask(k, [tk[k] EXCEPT !.word = r.next,
                               !.output = IF r.action = "Cancelled" THEN "stored" ELSE @])
    /\ Goes(t, CASE r.action = "Cancelled" -> [pc |-> "complete"]
                 [] r.action = "Ok" -> [pc |-> "lifo", task |-> NoTask]
                 [] r.action = "OkNotified" ->
                      [pc |-> "submit", task |-> NoTask, wake |-> k, then |-> "lifo",
                       yield |-> TRUE, drops |-> TRUE])
    /\ UNCHANGED <<rt, joiner, spent, client>>

\* Harness::complete of a task that was cancelled
Complete(a) ==
    /\ At(a, "complete")
    /\ SetWord(th[a].task, ToComplete(tk[th[a].task].word))
    /\ Goes(a, [pc |-> "wake join"])
    /\ UNCHANGED <<rt, joiner, spent, client>>

\* Nobody joins: the output is dropped; or the joiner is woken by its waker.
WakeJoin(a) == LET k == th[a].task IN
    /\ At(a, "wake join")
    /\ IF ~tk[k].word.joinInterest
       THEN tk' = [tk EXCEPT ![k].output = "gone"] /\ UNCHANGED joiner
       ELSE /\ joiner' = IF tk[k].word.joinWaker
                         THEN [joiner EXCEPT !.woken = @ \cup {tk[k].waker}] ELSE joiner
            /\ UNCHANGED tk
    /\ Goes(a, [pc |-> "release"])
    /\ UNCHANGED <<rt, spent, client>>

Finishes(a) ==
    Goes(a, [pc |-> th[a].cont, cont |-> "lifo",
             task |-> IF th[a].cont = "drop notified" THEN th[a].task ELSE NoTask])

\* release and transition_to_terminal
Release(a) == LET k == th[a].task IN
    /\ At(a, "release")
    /\ rt' = [rt EXCEPT !.owned = @ \ {k}]
    /\ SetTask(k, [tk[k] EXCEPT !.word.refs = @ - (IF k \in rt.owned THEN 2 ELSE 1)])
    /\ Finishes(a)
    /\ UNCHANGED <<joiner, spent, client>>

\* The rest of run_task: the LIFO slot, while the budget of coop lasts.
Lifo(t) == LET w == th[t].core IN
    /\ At(t, "lifo")
    /\ \/ w = NoWorker /\ Goes(t, Idling) /\ UNCHANGED <<rt, tk>>
       \/ w # NoWorker /\ rt.lifo[w] = NoTask /\ Goes(t, [pc |-> "top"]) /\ UNCHANGED <<rt, tk>>
       \/ /\ w # NoWorker /\ rt.lifo[w] # NoTask
          /\ \/ Run(t, rt.lifo[w]) /\ rt' = [rt EXCEPT !.lifo[w] = NoTask]
             \/ /\ Goes(t, [pc |-> "top"]) /\ UNCHANGED tk
                /\ rt' = ToBack([rt EXCEPT !.lifo[w] = NoTask], w, rt.lifo[w])
    /\ UNCHANGED <<joiner, spent, client>>

-----------------------------------------------------------------------------
(* A task is scheduled, and a worker notified                                  *)

\* schedule_task.  The reference the task was woken with, if it is the caller's
\* to drop, is dropped with it; the code drops it after the notification.
Submit(a) ==
    LET k == th[a].wake
        w == th[a].core
        dropped == IF th[a].drops THEN 1 ELSE 0 IN
    /\ At(a, "submit")
    /\ \/ /\ w # NoWorker
          /\ rt' = IF th[a].yield THEN ToBack(rt, w, k) ELSE ToLifo(rt, w, k)
          /\ SetTask(k, [tk[k] EXCEPT !.word.refs = @ - dropped])
          /\ Goes(a, [pc |-> IF th[a].yield \/ rt.lifo[w] # NoTask THEN "notify"
                             ELSE th[a].then, wake |-> NoTask])
       \/ /\ w = NoWorker
          /\ rt' = IF rt.closed THEN rt ELSE [rt EXCEPT !.inject = Append(@, k)]
          /\ SetTask(k, [tk[k] EXCEPT !.word.refs = @ - dropped - (IF rt.closed THEN 1 ELSE 0)])
          /\ Goes(a, [pc |-> "notify", wake |-> NoTask])
    /\ UNCHANGED <<joiner, spent, client>>

\* Idle::worker_to_notify: the test before the lock only spares the lock.
Notify(a) ==
    /\ At(a, "notify")
    /\ IF rt.searching = 0 /\ rt.unparked < N
       THEN /\ rt' = [rt EXCEPT !.searching = @ + 1, !.unparked = @ + 1,
                                !.sleepers = Front(@)]
            /\ Goes(a, [pc |-> "unpark", target |-> Last(rt.sleepers)])
       ELSE Goes(a, [pc |-> th[a].then]) /\ UNCHANGED rt
    /\ UNCHANGED <<tk, joiner, spent, client>>

\* Inner::unpark
Unpark(a) == LET w == th[a].target IN
    /\ At(a, "unpark")
    /\ rt' = [rt EXCEPT !.parker[w] = "NOTIFIED"]
    /\ Goes(a, [pc |-> CASE rt.parker[w] = "PARKED_CONDVAR" -> "signal"
                         [] rt.parker[w] = "PARKED_DRIVER" -> "poke"
                         [] OTHER -> th[a].then])
    /\ UNCHANGED <<tk, joiner, spent, client>>

\* The thread that has the core of w sits on the condition variable.
Sits(t, w) == At(t, "wait") /\ th[t].core = w

\* notify_one, which a thread that does not wait yet misses.
Signalled(a, w) ==
    [t \in Actors |-> IF t = a THEN [th[a] EXCEPT !.pc = th[a].then]
                      ELSE IF Sits(t, w) THEN [th[t] EXCEPT !.pc = "woken"] ELSE th[t]]

\* unpark_condvar takes the mutex, which a thread about to wait holds.
Signal(a) ==
    /\ At(a, "signal")
    /\ \A t \in Threads : ~(At(t, "about to wait") /\ th[t].core = th[a].target)
    /\ th' = Signalled(a, th[a].target)
    /\ UNCHANGED <<tk, rt, joiner, spent, client>>

\* driver.unpark()
Poke(a) ==
    /\ At(a, "poke")
    /\ rt' = [rt EXCEPT !.token = TRUE]
    /\ Goes(a, [pc |-> th[a].then])
    /\ UNCHANGED <<tk, joiner, spent, client>>

-----------------------------------------------------------------------------
(* A worker parks                                                              *)

\* Mutant of Park: the last searcher does not look again.
ParkUnchecked(t) == LET w == th[t].core
                        searching == w \in rt.isSearching IN
    /\ At(t, "park")
    /\ IF HasTasks(rt, w) THEN Goes(t, [pc |-> "top"]) /\ UNCHANGED rt
       ELSE /\ rt' = [rt EXCEPT !.unparked = @ - 1,
                                !.searching = IF searching THEN @ - 1 ELSE @,
                                !.isSearching = @ \ {w}, !.sleepers = Append(@, w)]
            /\ Goes(t, [pc |-> "parking"])
    /\ UNCHANGED <<tk, joiner, spent, client>>

\* transition_to_parked; the last searcher looks at every queue once more.
Park(t) == LET w == th[t].core
               searching == w \in rt.isSearching IN
    /\ At(t, "park")
    /\ IF HasTasks(rt, w) THEN Goes(t, [pc |-> "top"]) /\ UNCHANGED rt
       ELSE /\ rt' = [rt EXCEPT !.unparked = @ - 1,
                                !.searching = IF searching THEN @ - 1 ELSE @,
                                !.isSearching = @ \ {w}, !.sleepers = Append(@, w)]
            /\ Goes(t, IF searching /\ rt.searching = 1
                       THEN [pc |-> "pending", left |-> Others(w)]
                       ELSE [pc |-> "parking"])
    /\ UNCHANGED <<tk, joiner, spent, client>>

\* notify_if_work_pending; of its own queue the worker knows that it is empty.
WorkPending(t) ==
    /\ At(t, "pending")
    /\ \/ \E v \in th[t].left :
             IF rt.runq[v] # <<>>
             THEN Goes(t, [pc |-> "notify", then |-> "parking", left |-> {}])
             ELSE Goes(t, [left |-> th[t].left \ {v}])
       \/ /\ th[t].left = {}
          /\ Goes(t, [pc |-> IF rt.inject # <<>> THEN "notify" ELSE "parking",
                      then |-> "parking"])
    /\ UNCHANGED <<tk, rt, joiner, spent, client>>

\* Inner::park: a notification that is there already is consumed; else the worker
\* waits on the driver, if it is free, or on its condition variable.
Parking(t) == LET w == th[t].core IN
    /\ At(t, "parking")
    /\ IF w \in rt.isShutdown THEN Goes(t, [pc |-> "top"]) /\ UNCHANGED rt
       ELSE IF rt.parker[w] = "NOTIFIED"
            THEN Goes(t, [pc |-> "parked maintenance"]) /\ rt' = [rt EXCEPT !.parker[w] = "EMPTY"]
       ELSE IF rt.driver = NoActor
            THEN Goes(t, [pc |-> "park driver"]) /\ rt' = [rt EXCEPT !.driver = t]
       ELSE Goes(t, [pc |-> "park condvar"]) /\ UNCHANGED rt
    /\ UNCHANGED <<tk, joiner, spent, client>>

\* park_condvar locks the mutex and keeps it until it waits.
ParkCondvar(t) == LET w == th[t].core IN
    /\ At(t, "park condvar")
    /\ IF rt.parker[w] = "NOTIFIED"
       THEN Goes(t, [pc |-> "parked maintenance"]) /\ rt' = [rt EXCEPT !.parker[w] = "EMPTY"]
       ELSE Goes(t, [pc |-> "about to wait"]) /\ rt' = [rt EXCEPT !.parker[w] = "PARKED_CONDVAR"]
    /\ UNCHANGED <<tk, joiner, spent, client>>

Wait(t) ==
    /\ At(t, "about to wait") /\ Goes(t, [pc |-> "wait"])
    /\ UNCHANGED <<tk, rt, joiner, spent, client>>

SpuriousWakeup(t) ==
    /\ At(t, "wait") /\ Goes(t, [pc |-> "woken"])
    /\ UNCHANGED <<tk, rt, joiner, spent, client>>

Woken(t) == LET w == th[t].core IN
    /\ At(t, "woken")
    /\ IF rt.parker[w] = "NOTIFIED"
       THEN Goes(t, [pc |-> "parked maintenance"]) /\ rt' = [rt EXCEPT !.parker[w] = "EMPTY"]
       ELSE Goes(t, [pc |-> "about to wait"]) /\ UNCHANGED rt
    /\ UNCHANGED <<tk, joiner, spent, client>>

ParkDriver(t) == LET w == th[t].core IN
    /\ At(t, "park driver")
    /\ IF rt.parker[w] = "NOTIFIED"
       THEN /\ Goes(t, [pc |-> "parked maintenance"])
            /\ rt' = [rt EXCEPT !.parker[w] = "EMPTY", !.driver = NoActor]
       ELSE Goes(t, [pc |-> "driver"]) /\ rt' = [rt EXCEPT !.parker[w] = "PARKED_DRIVER"]
    /\ UNCHANGED <<tk, joiner, spent, client>>

\* driver.park returns because it was unparked,
DriverUnparked(t) ==
    /\ At(t, "driver") /\ rt.token
    /\ rt' = [rt EXCEPT !.token = FALSE]
    /\ Goes(t, [pc |-> "driver done"])
    /\ UNCHANGED <<tk, joiner, spent, client>>

\* or with an event.
DriverEvent(t) ==
    /\ At(t, "driver") /\ \E k \in Tasks : Event(th[t].core, k)
    /\ Goes(t, [pc |-> "driver done"])
    /\ UNCHANGED <<joiner, spent, client>>

\* The end of park_timeout: what the driver woke may be too much for one worker.
DriverDone(t) == LET w == th[t].core IN
    /\ At(t, "driver done")
    /\ rt' = [rt EXCEPT !.parker[w] = "EMPTY", !.driver = NoActor]
    /\ Goes(t, [pc |-> IF ShouldNotifyOthers(rt, w) THEN "notify" ELSE "parked maintenance",
                then |-> "parked maintenance"])
    /\ UNCHANGED <<tk, joiner, spent, client>>

\* transition_from_parked: a worker woken by another searches; one that has tasks
\* takes itself off the sleepers; one that is still among them parks again.
FromParked(t) == LET w == th[t].core
                     sleeps == w \in Range(rt.sleepers) IN
    /\ At(t, "from parked")
    /\ IF HasTasks(rt, w) /\ sleeps
       THEN rt' = [rt EXCEPT !.sleepers = SelectSeq(@, LAMBDA v : v # w), !.unparked = @ + 1]
       ELSE rt' = [rt EXCEPT !.isSearching = IF sleeps THEN @ ELSE @ \cup {w}]
    /\ Goes(t, [pc |-> IF HasTasks(rt, w) \/ ~sleeps THEN "top" ELSE "parking"])
    /\ UNCHANGED <<tk, joiner, spent, client>>

-----------------------------------------------------------------------------
(* Shutdown                                                                    *)

\* close_and_shutdown_all pops the tasks one by one.
ShutAll(t) ==
    /\ At(t, "shut all")
    /\ \/ \E k \in rt.owned :
             /\ rt' = [rt EXCEPT !.owned = @ \ {k}]
             /\ Goes(t, [pc |-> "shut", task |-> k, cont |-> "shut all"])
       \/ rt.owned = {} /\ Goes(t, [pc |-> "shut core"]) /\ UNCHANGED rt
    /\ UNCHANGED <<tk, joiner, spent, client>>

\* Harness::shutdown: an idle task is cancelled here, another one by its poller.
Shut(a) == LET k == th[a].task
               r == ToShutdown(tk[k].word) IN
    /\ At(a, "shut")
    /\ IF r.action = "Taken"
       THEN /\ SetTask(k, [tk[k] EXCEPT !.word = r.next, !.output = "stored"])
            /\ Goes(a, [pc |-> "complete"])
       ELSE SetWord(k, RefDec(r.next)) /\ Finishes(a)
    /\ UNCHANGED <<rt, joiner, spent, client>>

\* The Notified references to k in the queues.
Queued(k) ==
    Cardinality({w \in Workers : rt.lifo[w] = k})
    + Cardinality(UNION {{w} \X {i \in DOMAIN rt.runq[w] : rt.runq[w][i] = k} : w \in Workers})
    + Cardinality({i \in DOMAIN rt.inject : rt.inject[i] = k})

\* shutdown_core: with the last core, the queues are drained.
ShutCore(t) == LET w == th[t].core
                   down == rt.down \cup {w} IN
    /\ At(t, "shut core")
    /\ IF down = client.workers
       THEN /\ rt' = [rt EXCEPT !.down = down, !.inject = <<>>,
                         !.lifo = [v \in Workers |-> NoTask], !.runq = [v \in Workers |-> <<>>]]
            /\ tk' = [k \in Tasks |-> Freed([tk[k] EXCEPT !.word.refs = @ - Queued(k)])]
       ELSE rt' = [rt EXCEPT !.down = down] /\ UNCHANGED tk
    /\ Goes(t, Idling)
    /\ UNCHANGED <<joiner, spent, client>>

-----------------------------------------------------------------------------
(* The main thread and the source                                              *)

HasHandle(k) == tk[k].handle = "held"

Unborn == {k \in client.tasks : tk[k].handle = "none"}

\* spawn: bind_inner refuses the task when the list is closed; then it is shut
\* down here and its Notified dropped.  Tasks are alike before they run.
Spawn == LET k == CHOOSE k \in Unborn : TRUE IN
    /\ At(Main, "main") /\ Unborn # {}
    /\ tk' = [tk EXCEPT ![k].word = Initial, ![k].handle = "held"]
    /\ IF rt.ownedClosed
       THEN /\ Goes(Main, [pc |-> "shut", task |-> k, cont |-> "drop notified"])
            /\ UNCHANGED rt
       ELSE /\ Goes(Main, [pc |-> "submit", wake |-> k, then |-> "main",
                           yield |-> FALSE, drops |-> FALSE])
            /\ rt' = [rt EXCEPT !.owned = @ \cup {k}]
    /\ UNCHANGED <<joiner, spent, client>>

DropNotified ==
    /\ At(Main, "drop notified")
    /\ SetWord(th[Main].task, RefDec(tk[th[Main].task].word))
    /\ Goes(Main, [pc |-> "main", task |-> NoTask])
    /\ UNCHANGED <<rt, joiner, spent, client>>

\* remote_abort
Abort == \E k \in Tasks :
    LET r == NotifiedAndCancelled(tk[k].word) IN
    /\ At(Main, "main") /\ Habit("abort") /\ HasHandle(k)
    /\ SetWord(k, r.next)
    /\ IF r.action = "Submit"
       THEN Goes(Main, [pc |-> "submit", wake |-> k, then |-> "main",
                        yield |-> FALSE, drops |-> FALSE])
       ELSE UNCHANGED th
    /\ UNCHANGED <<rt, joiner, spent, client>>

\* The handle is awaited, or dropped.
Join == \E k \in Tasks :
    /\ At(Main, "main") /\ Habit("join") /\ HasHandle(k)
    /\ \E pc \in {"read", "drop handle"} : Goes(Main, [pc |-> pc, task |-> k])
    /\ joiner' = [waker |-> 1, woken |-> {}]
    /\ UNCHANGED <<tk, rt, spent, client>>

\* can_read_output: the join waker is there, is another one, or is not there.
ReadOutput == LET k == th[Main].task
                  word == tk[k].word IN
    /\ At(Main, "read")
    /\ Goes(Main, [pc |-> CASE word.complete -> "take"
                            [] ~word.complete /\ ~word.joinWaker -> "set waker"
                            [] ~word.complete /\ word.joinWaker ->
                                  IF tk[k].waker = joiner.waker THEN "await" ELSE "unset"])
    /\ UNCHANGED <<tk, rt, joiner, spent, client>>

UnsetJoinWaker == LET r == UnsetWaker(tk[th[Main].task].word) IN
    /\ At(Main, "unset")
    /\ SetWord(th[Main].task, r.next)
    /\ Goes(Main, [pc |-> IF r.action = "Err" THEN "take" ELSE "set waker"])
    /\ UNCHANGED <<rt, joiner, spent, client>>

\* set_join_waker: the waker is written while the bit is not set,
WriteWaker == LET k == th[Main].task IN
    /\ At(Main, "set waker")
    /\ tk' = [tk EXCEPT ![k].waker = joiner.waker]
    /\ Goes(Main, [pc |-> "set bit"])
    /\ UNCHANGED <<rt, joiner, spent, client>>

\* then the bit is set, unless the task is complete by now.
SetWakerBit == LET r == SetJoinWaker(tk[th[Main].task].word) IN
    /\ At(Main, "set bit")
    /\ SetWord(th[Main].task, r.next)
    /\ Goes(Main, [pc |-> IF r.action = "Err" THEN "clear waker" ELSE "await"])
    /\ UNCHANGED <<rt, joiner, spent, client>>

ClearWaker == LET k == th[Main].task IN
    /\ At(Main, "clear waker")
    /\ tk' = [tk EXCEPT ![k].waker = 0]
    /\ Goes(Main, [pc |-> "take"])
    /\ UNCHANGED <<rt, joiner, spent, client>>

\* The main thread polls the handle again when the waker it last polled with was
\* woken,
Await ==
    /\ At(Main, "await") /\ joiner.waker \in joiner.woken
    /\ Goes(Main, [pc |-> "read"])
    /\ UNCHANGED <<tk, rt, joiner, spent, client>>

\* or of its own accord, with another waker.
Repoll ==
    /\ At(Main, "await") /\ Habit("repoll") /\ joiner.waker = 1
    /\ Goes(Main, [pc |-> "read"])
    /\ joiner' = [joiner EXCEPT !.waker = 2]
    /\ UNCHANGED <<tk, rt, spent, client>>

\* take_output; the handle is dropped after it.
TakeOutput == LET k == th[Main].task IN
    /\ At(Main, "take")
    /\ tk' = [tk EXCEPT ![k].output = "gone"]
    /\ Goes(Main, [pc |-> "drop handle"])
    /\ UNCHANGED <<rt, joiner, spent, client>>

\* drop_join_handle_fast of a task nothing has happened to, which may also fail
\* for no reason; drop_join_handle_slow.
DropHandle == LET k == th[Main].task
                  r == UnsetJoinInterested(tk[k].word) IN
    /\ At(Main, "drop handle")
    /\ \/ /\ tk[k].word = Initial
          /\ tk' = [tk EXCEPT ![k].word = RefDec([Initial EXCEPT !.joinInterest = FALSE]),
                              ![k].handle = "dropped"]
          /\ Goes(Main, [pc |-> "main", task |-> NoTask])
       \/ /\ SetWord(k, r.next)
          /\ Goes(Main, [pc |-> IF r.action = "Err" THEN "drop output" ELSE "drop reference"])
    /\ UNCHANGED <<rt, joiner, spent, client>>

DropOutput == LET k == th[Main].task IN
    /\ At(Main, "drop output")
    /\ tk' = [tk EXCEPT ![k].output = "gone"]
    /\ Goes(Main, [pc |-> "drop reference"])
    /\ UNCHANGED <<rt, joiner, spent, client>>

DropReference == LET k == th[Main].task IN
    /\ At(Main, "drop reference")
    /\ SetTask(k, [tk[k] EXCEPT !.word = RefDec(@), !.handle = "dropped"])
    /\ Goes(Main, [pc |-> "main", task |-> NoTask])
    /\ UNCHANGED <<rt, joiner, spent, client>>

\* Mutant of Close: only one worker hears of it.
CloseHeardByOne ==
    /\ At(Main, "main") /\ Habit("shutdown") /\ ~rt.closed
    /\ rt' = [rt EXCEPT !.closed = TRUE]
    /\ \E w \in client.workers : Goes(Main, [pc |-> "notify all", left |-> {w}])
    /\ UNCHANGED <<tk, joiner, spent, client>>

\* Handle::close
Close ==
    /\ At(Main, "main") /\ Habit("shutdown") /\ ~rt.closed
    /\ rt' = [rt EXCEPT !.closed = TRUE]
    /\ Goes(Main, [pc |-> "notify all", left |-> client.workers])
    /\ UNCHANGED <<tk, joiner, spent, client>>

NotifyAll ==
    /\ At(Main, "notify all")
    /\ \/ \E w \in th[Main].left :
             Goes(Main, [pc |-> "unpark", target |-> w, then |-> "notify all",
                         left |-> th[Main].left \ {w}])
       \/ th[Main].left = {} /\ Goes(Main, [pc |-> "main"])
    /\ UNCHANGED <<tk, rt, joiner, spent, client>>

\* The source wakes a task by value, or drops its waker.
SourceWakes == \E k \in Tasks :
    LET r == NotifiedByVal(tk[k].word) IN
    /\ At(Source, "source") /\ Habit("register") /\ tk[k].wakers > 0
    /\ SetTask(k, [tk[k] EXCEPT !.wakers = @ - 1, !.word = r.next])
    /\ IF r.action = "Submit"
       THEN Goes(Source, [pc |-> "submit", wake |-> k, then |-> "source",
                          yield |-> FALSE, drops |-> TRUE])
       ELSE UNCHANGED th
    /\ UNCHANGED <<rt, joiner, spent, client>>

SourceDrops == \E k \in Tasks :
    /\ At(Source, "source") /\ Habit("register") /\ tk[k].wakers > 0
    /\ SetTask(k, [tk[k] EXCEPT !.wakers = @ - 1, !.word = RefDec(@)])
    /\ UNCHANGED <<rt, th, joiner, spent, client>>

-----------------------------------------------------------------------------
Schedules(a) == Submit(a) \/ Notify(a) \/ Unpark(a) \/ Signal(a) \/ Poke(a)
Finishing(a) == Complete(a) \/ WakeJoin(a) \/ Release(a) \/ Shut(a)

\* What a thread does once it has begun.
ThreadStep(t) ==
    \/ Start(t) \/ LeaveLoop(t) \/ MaintainDriver(t) \/ Maintenance(t)
    \/ NothingInjected(t) \/ TakeLocal(t) \/ TakeInjected(t) \/ TakeNothing(t)
    \/ StealWork(t) \/ Search(t) \/ Raid(t) \/ RaidInjected(t) \/ Found(t)
    \/ Poll(t) \/ Return(t) \/ Register(t) \/ Wake(t) \/ Block(t) \/ Unblock(t) \/ Idle(t)
    \/ Lifo(t) \/ Finishing(t) \/ Schedules(t)
    \/ Park(t) \/ WorkPending(t) \/ Parking(t) \/ ParkCondvar(t) \/ Wait(t) \/ Woken(t)
    \/ ParkDriver(t) \/ DriverUnparked(t) \/ DriverDone(t) \/ FromParked(t)
    \/ ShutAll(t) \/ ShutCore(t)

\* What the main thread does once it has begun.
MainStep ==
    \/ Schedules(Main) \/ Finishing(Main) \/ DropNotified \/ NotifyAll
    \/ ReadOutput \/ UnsetJoinWaker \/ WriteWaker \/ SetWakerBit \/ ClearWaker \/ Await
    \/ TakeOutput \/ DropHandle \/ DropOutput \/ DropReference

\* What it may begin, and what happens to a thread that sleeps.
Begin ==
    \/ Spawn \/ Abort \/ Join \/ Repoll \/ Close \/ SourceWakes \/ SourceDrops
    \/ \E t \in Threads : SpuriousWakeup(t) \/ DriverEvent(t)

Next ==
    \/ \E t \in Threads : ThreadStep(t)
    \/ MainStep \/ Schedules(Source) \/ Begin

\* Every thread runs; a poll returns.  Nothing must be begun.
Fairness ==
    /\ \A t \in Threads : WF_vars(ThreadStep(t))
    /\ WF_vars(MainStep) /\ WF_vars(Schedules(Source))

Spec == Init /\ [][Next]_vars
FairSpec == Spec /\ Fairness

-----------------------------------------------------------------------------
(* Properties                                                                  *)

\* Where an actor goes on once it has scheduled and notified.
Place(a) ==
    IF th[a].pc \in Scheduling THEN th[a].then ELSE th[a].pc

InHand(k, places) == {a \in Actors : th[a].task = k /\ Place(a) \in places}
Finishers(k) == InHand(k, {"shut", "complete", "wake join", "release"})
Submitters(k) == {a \in Actors : At(a, "submit") /\ th[a].wake = k}

\* Those who may touch the future of k, and its output before it is complete.
Runners(k) == InHand(k, {"body", "blocked", "idle", "complete"})

NotifiedRefs(k) ==
    Queued(k) + Cardinality(InHand(k, {"found", "poll"})) + Cardinality(Submitters(k))
    + Cardinality({a \in Finishers(k) : th[a].cont = "drop notified"}
                  \cup InHand(k, {"drop notified"}))

(* The count of a task's word is the number of references there are to it:     *)
(* none is used after the task is freed, and the task is freed with the last.  *)
(* There is never more than one Notified, and the flag is set while there is   *)
(* one (the assertion of transition_to_running).                               *)
RefsMatch == \A k \in Tasks :
    /\ tk[k].word.refs =
          (IF k \in rt.owned THEN 1 ELSE 0) + (IF HasHandle(k) THEN 1 ELSE 0)
          + tk[k].wakers + NotifiedRefs(k)
          + Cardinality(Finishers(k) \cup Runners(k))
          + Cardinality({a \in Submitters(k) : th[a].drops})
    /\ NotifiedRefs(k) <= 1
    /\ (NotifiedRefs(k) = 1 => tk[k].word.notified)

(* The cells of a task have no locks: the RUNNING flag gives the future to one *)
(* actor, COMPLETE and JOIN_INTEREST hand the output over, and JOIN_WAKER the  *)
(* waker, whatever poll, wake, abort, join, drop and shutdown do at once.  Nor *)
(* has the core of a worker any: block_in_place and its Reset pass it on, and  *)
(* it is neither lost nor run by two threads.                                  *)
ExclusiveAccess ==
    /\ \A k \in Tasks :
          LET completing == InHand(k, {"wake join"}) # {}
              joining == IF th[Main].task = k THEN th[Main].pc ELSE "main"
              word == tk[k].word IN
          /\ Cardinality(Runners(k)) <= 1
          /\ Runners(k) # {} => word.running /\ ~word.complete
          /\ completing /\ ~word.joinInterest => joining \notin {"take", "drop output"}
          /\ completing /\ word.joinInterest /\ word.joinWaker =>
                joining \notin {"set waker", "clear waker"}
          /\ joining = "take" => tk[k].output = "stored"
    /\ \A w \in client.workers :
          Cardinality({t \in Threads : th[t].core = w})
          + Cardinality({w} \cap rt.slot) + Cardinality({w} \cap rt.down) = 1

Notified(k) == tk[k].word.notified /\ ~tk[k].word.complete
AwaitsComplete == At(Main, "await") /\ tk[th[Main].task].word.complete

(* No wakeup is lost between workers that park, steal, search and shut down: a *)
(* notified task is polled or finished, and who awaits a finished task goes on,*)
(* with whichever waker it polled last.  What a program begins is bounded, so  *)
(* time and again nothing of this is left.                                     *)
NoWakeupLost == []<>(~AwaitsComplete /\ \A k \in Tasks : ~Notified(k))

(* Shutdown reaches every worker, parked or not, and every task: all of them   *)
(* finish, those spawned meanwhile included.                                   *)
ShutdownFinishes ==
    []<>(rt.closed => /\ rt.down = client.workers /\ rt.owned = {}
                      /\ \A k \in Tasks : HasHandle(k) => tk[k].word.complete)
=============================================================================
