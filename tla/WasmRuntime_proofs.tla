------------------------- MODULE WasmRuntime_proofs -------------------------
(***************************************************************************)
(* The runtime in the browser, for any number of threads and tasks: the    *)
(* composition is a pool and a host at once, so what is proved of either   *)
(* holds in it, and the threads of the one run on the workers of the       *)
(* other.                                                                  *)
(***************************************************************************)
EXTENDS WasmRuntime, TLAPS

PP == INSTANCE BlockingPool_proofs
HP == INSTANCE WasiThreads_proofs WITH StartArgs <- Threads, NestedSpawn <- TRUE

\* The places of a thread that has begun and not ended.
Begun == P!PCs \ {"unborn", "starting", "exited"}

\* The messages and the workers of the threads: each thread has at most one, and
\* where it is says how far the thread can be.  A thread that has begun has a
\* worker that runs it.
Hosting ==
  /\ \A v, w \in DOMAIN workers :
       workers[v].msg.startArg = workers[w].msg.startArg => v = w
  /\ \A i, j \in DOMAIN mainPort : mainPort[i].startArg = mainPort[j].startArg => i = j
  /\ \A i \in DOMAIN mainPort :
       /\ pc[mainPort[i].startArg] = "starting"
       /\ \A w \in DOMAIN workers : workers[w].msg.startArg # mainPort[i].startArg
  /\ \A w \in DOMAIN workers :
       /\ workers[w].pc \in {"loading", "instantiating", "failed"}
            => pc[workers[w].msg.startArg] = "starting"
       /\ workers[w].pc = "running"
            => pc[workers[w].msg.startArg] \in Begun \cup {"starting"}
       /\ workers[w].pc = "ended" => pc[workers[w].msg.startArg] = "exited"
  /\ \A t \in Threads : pc[t] \in Begun => Hosted(t)

\* While only the main worker spawns and workers load, every thread that was made
\* and has not ended is on its way to a worker.
Reached ==
  happens \subseteq {"create_fails"} =>
    \A t \in Threads : pc[t] \notin {"unborn", "exited"} => WillBeHosted(t)

-----------------------------------------------------------------------------
(***************************************************************************)
(* The composition and its parts.  P and PP are the same module, once with *)
(* and once without its proofs.                                            *)
(***************************************************************************)
LEMMA PoolSpec == P!Spec <=> PP!Spec
<1>1. P!Init <=> PP!Init
  BY DEF P!Init, PP!Init
<1>2. P!Next <=> PP!Next
  BY DEF P!Next, PP!Next, P!Spawn, PP!Spawn, P!ThreadStep, PP!ThreadStep,
         P!SpawnShuttingDown, PP!SpawnShuttingDown, P!Push, PP!Push,
         P!SpawnNotify, PP!SpawnNotify, P!SpawnAtCap, PP!SpawnAtCap,
         P!SpawnThread, PP!SpawnThread, P!SpawnFails, PP!SpawnFails,
         P!PopAndRun, PP!PopAndRun, P!Sleep, PP!Sleep, P!Exit, PP!Exit,
         P!DrainTask, PP!DrainTask, P!ShutdownBranch, PP!ShutdownBranch,
         P!BusyLoop, PP!BusyLoop, P!WakeNotified, PP!WakeNotified,
         P!WakeTimedOut, PP!WakeTimedOut, P!WakeSpurious, PP!WakeSpurious,
         P!WakeShutdown, PP!WakeShutdown, P!DrainLoop, PP!DrainLoop,
         P!FinishTask, PP!FinishTask, P!LeaveWait, PP!LeaveWait,
         P!DropTx, PP!DropTx, P!EndThread, PP!EndThread,
         P!Shutdown, PP!Shutdown, P!AllSendersDropped, PP!AllSendersDropped,
         P!WaitTimesOut, PP!WaitTimesOut, P!JoinAll, PP!JoinAll,
         P!NotifyOne, PP!NotifyOne, P!NotifyAll, PP!NotifyAll,
         P!In, PP!In, P!HoldsTx, PP!HoldsTx, P!Counted, PP!Counted, P!Busy, PP!Busy,
         P!Idle, PP!Idle, P!Woken, PP!Woken, P!Draining, PP!Draining,
         P!shared, PP!shared
<1>3. [P!Next]_P!vars <=> [PP!Next]_PP!vars
  BY <1>2 DEF P!vars, PP!vars, P!shared, PP!shared
<1> QED
  BY <1>1, <1>3, PTL DEF P!Spec, PP!Spec

LEMMA HostSpec == H!Spec <=> HP!Spec
<1>1. H!Init <=> HP!Init
  BY DEF H!Init, HP!Init
<1>2. H!Next <=> HP!Next
  BY DEF H!Next, HP!Next, H!MainMoves, HP!MainMoves, H!MainReceives, HP!MainReceives,
         H!MainCompiled, HP!MainCompiled, H!MainStarts, HP!MainStarts,
         H!MainFails, HP!MainFails, H!MainEnds, HP!MainEnds,
         H!TakeTid, HP!TakeTid, H!Called, HP!Called,
         H!SpawnFromMain, HP!SpawnFromMain, H!SpawnFromThread, HP!SpawnFromThread,
         H!PageReceives, HP!PageReceives, H!WorkerMoves, HP!WorkerMoves,
         H!WorkerReceives, HP!WorkerReceives, H!WorkerStarts, HP!WorkerStarts,
         H!WorkerFails, HP!WorkerFails, H!WorkerEnds, HP!WorkerEnds
<1>3. [H!Next]_H!vars <=> [HP!Next]_HP!vars
  BY <1>2 DEF H!vars, HP!vars
<1> QED
  BY <1>1, <1>3, PTL DEF H!Spec, HP!Spec

\* A step of the composition is a step of the pool or leaves it alone.
LEMMA PoolSteps == [Next]_vars => [P!Next]_P!vars
<1> SUFFICES ASSUME [Next]_vars PROVE P!Next \/ UNCHANGED poolVars
  BY DEF P!vars, P!shared, poolVars
<1>1. ASSUME NEW k \in Tasks, SpawnsNoThread(k) PROVE P!Next
  BY <1>1 DEF SpawnsNoThread, P!Next, P!Spawn
<1>2. ASSUME NEW k \in Tasks, SpawnFromMain(k) PROVE P!Next
  BY <1>1, <1>2 DEF SpawnFromMain, P!Next, P!Spawn
<1>3. ASSUME NEW k \in Tasks, SpawnFromTask(k) PROVE P!Next
  BY <1>1, <1>3 DEF SpawnFromTask, P!Next, P!Spawn
<1>4. ASSUME NEW t \in Threads, ThreadStep(t) \/ LeavesWait(t) PROVE P!Next
  BY <1>4 DEF ThreadStep, Runs, Ends, LeavesWait, P!Next, P!ThreadStep
<1>5. ASSUME OwnerStep \/ OwnerChoice PROVE P!Next
  BY <1>5 DEF OwnerStep, OwnerChoice, P!Next
<1>6. ASSUME MainEnds \/ Host \/ HostFails \/ UNCHANGED vars PROVE UNCHANGED poolVars
  BY <1>6 DEF MainEnds, Host, HostFails, vars, system
<1> QED
  BY <1>2, <1>3, <1>4, <1>5, <1>6 DEF Next

\* It is a step of the host or leaves it alone.
LEMMA HostSteps == [Next]_vars => [H!Next]_H!vars
<1> SUFFICES ASSUME [Next]_vars PROVE H!Next \/ UNCHANGED hostVars
  BY DEF H!vars, hostVars
<1>1. ASSUME NEW k \in Tasks, SpawnFromMain(k) PROVE H!Next \/ UNCHANGED hostVars
  BY <1>1 DEF SpawnFromMain, SpawnsNoThread, H!Next
<1>2. ASSUME NEW k \in Tasks, SpawnFromTask(k) PROVE H!Next \/ UNCHANGED hostVars
  BY <1>2 DEF SpawnFromTask, SpawnsNoThread, H!Next
<1>3. ASSUME NEW t \in Threads, ThreadStep(t) \/ LeavesWait(t)
      PROVE  H!Next \/ UNCHANGED hostVars
  BY <1>3 DEF ThreadStep, Runs, Ends, LeavesWait, H!Next
<1>4. ASSUME OwnerStep \/ OwnerChoice \/ UNCHANGED vars PROVE UNCHANGED hostVars
  BY <1>4 DEF OwnerStep, OwnerChoice, vars, system
<1>5. ASSUME MainEnds \/ Host \/ HostFails PROVE H!Next
  BY <1>5 DEF MainEnds, Host, HostFails, H!Next
<1> QED
  BY <1>1, <1>2, <1>3, <1>4, <1>5 DEF Next

\* The pool in the browser is the pool: composing it with the host only takes
\* steps away, so that every safety property of the pool holds here.
THEOREM PoolWithin == Spec => P!Spec
<1>1. Init => P!Init
  BY DEF Init
<1> QED
  BY <1>1, PoolSteps, PTL DEF Spec, P!Spec

\* The host of the runtime is the host of any program.
THEOREM HostWithin == Spec => H!Spec
<1>1. Init => H!Init
  BY DEF Init
<1> QED
  BY <1>1, HostSteps, PTL DEF Spec, H!Spec

\* What the pool's proofs give.
LEMMA PoolKept == Spec => []PP!IInv
<1>1. PP!IsFiniteSet(Threads) <=> P!IsFiniteSet(Threads)
  BY DEF PP!IsFiniteSet, P!IsFiniteSet
<1>2. PP!Spec => []PP!IInv
  BY <1>1, PP!Invariant, PoolAssumption
     DEF P!ThreadsAssumption, P!TasksAssumption, P!ThreadCapAssumption
<1> QED
  BY <1>2, PoolWithin, PoolSpec, PTL

\* What the host's proofs give.
LEMMA HostKept == Spec => []HP!TypeOK
<1>1. HP!Spec => []HP!TypeOK
  BY HP!TypeCorrect, HostAssumption
<1> QED
  BY <1>1, HostWithin, HostSpec, PTL

\* The types the composition's own invariants need.
Typed ==
  /\ pc \in [Threads -> P!PCs]
  /\ mainPort \in Seq(H!Message)
  /\ workers \in Seq(H!Worker)

LEMMA AlwaysTyped == Spec => []Typed
<1>1. PP!IInv /\ HP!TypeOK => Typed
  BY DEF PP!IInv, PP!TypeOK, HP!TypeOK, Typed, H!Message, HP!Message, H!Worker, HP!Worker,
         P!PCs, PP!PCs, P!HoldsTx, PP!HoldsTx, P!Counted, PP!Counted, P!Busy, PP!Busy,
         P!Idle, PP!Idle, P!Woken, PP!Woken, P!Draining, PP!Draining
<1> QED
  BY <1>1, PoolKept, HostKept, PTL

-----------------------------------------------------------------------------
(***************************************************************************)
(* How far the steps of the pool take the threads.                         *)
(***************************************************************************)
LEMMA Places ==
  /\ Begun = {"running", "finished", "waiting", "woken", "timedout", "draining",
              "drained", "stopping", "dropped"}
  /\ P!PCs = Begun \cup {"unborn", "starting", "exited"}
BY DEF Begun, P!PCs, P!HoldsTx, P!Counted, P!Busy, P!Idle, P!Woken, P!Draining

\* The thread u is where it was, as far as the host is concerned.
Stays(u) == pc'[u] = pc[u] \/ (pc[u] \in Begun /\ pc'[u] \in Begun)

\* A notification only takes threads out of the wait.
LEMMA NotifyOneStays ==
  ASSUME NEW p \in [Threads -> P!PCs], NEW q \in P!NotifyOne(p), NEW u \in Threads
  PROVE  q[u] = p[u] \/ (p[u] = "waiting" /\ q[u] = "woken")
BY DEF P!NotifyOne

LEMMA NotifyAllStays ==
  ASSUME NEW p \in [Threads -> P!PCs], NEW u \in Threads
  PROVE  \/ P!NotifyAll(p)[u] = p[u]
         \/ p[u] = "waiting" /\ P!NotifyAll(p)[u] = "woken"
BY DEF P!NotifyAll

\* A step of the thread t: it has begun, and notifies at most one other.
Goes(t) ==
  \/ \E v \in Begun : pc' = [pc EXCEPT ![t] = v]
  \/ pc' \in P!NotifyOne([pc EXCEPT ![t] = "stopping"])

LEMMA GoesIs ==
  ASSUME Typed, NEW t \in Threads, Goes(t)
  PROVE  pc'[t] \in Begun /\ \A u \in Threads \ {t} : Stays(u)
<1>1. CASE \E v \in Begun : pc' = [pc EXCEPT ![t] = v]
  BY <1>1, Places DEF Typed, Stays
<1>2. CASE pc' \in P!NotifyOne([pc EXCEPT ![t] = "stopping"])
  <2> DEFINE p == [pc EXCEPT ![t] = "stopping"]
  <2>1. /\ p \in [Threads -> P!PCs] /\ p[t] = "stopping"
        /\ \A u \in Threads \ {t} : p[u] = pc[u]
    BY Places DEF Typed
  <2>2. \A u \in Threads : pc'[u] = p[u] \/ (p[u] = "waiting" /\ pc'[u] = "woken")
    <3> HIDE DEF p
    <3>1. pc' \in P!NotifyOne(p)
      BY <1>2 DEF p
    <3> QED
      BY <2>1, <3>1, NotifyOneStays
  <2> HIDE DEF p
  <2> QED
    BY <2>1, <2>2, Places DEF Stays
<1> QED
  BY <1>1, <1>2 DEF Goes

LEMMA ShutdownBranchGoes ==
  ASSUME NEW t \in Threads, NEW idle, P!ShutdownBranch(t, idle)
  PROVE  Goes(t)
<1>1. CASE P!DrainTask(t, idle)
  BY <1>1, Places DEF P!DrainTask, Goes
<1>2. ASSUME NEW n, P!Exit(t, n) PROVE Goes(t)
  <2>1. CASE pc' = [pc EXCEPT ![t] = "stopping"]
    BY <2>1, Places DEF Goes
  <2>2. CASE pc' \in P!NotifyOne([pc EXCEPT ![t] = "stopping"])
    BY <2>2 DEF Goes
  <2> QED
    BY <1>2, <2>1, <2>2 DEF P!Exit
<1> QED
  BY <1>1, <1>2 DEF P!ShutdownBranch

LEMMA RunsGoes ==
  ASSUME Typed, NEW t \in Threads, Runs(t)
  PROVE  /\ pc[t] \in Begun \cup {"starting"} /\ pc'[t] \in Begun
         /\ \A u \in Threads \ {t} : Stays(u)
<1>1. CASE P!BusyLoop(t)
  <2>1. pc[t] \in Begun \cup {"starting"}
    BY <1>1, Places DEF P!BusyLoop
  <2>2. Goes(t)
    <3>1. CASE P!PopAndRun(t) \/ P!Sleep(t)
      BY <3>1, Places DEF P!PopAndRun, P!Sleep, Goes
    <3> QED
      BY <1>1, <3>1, ShutdownBranchGoes DEF P!BusyLoop
  <2> QED
    BY <2>1, <2>2, GoesIs
<1>2. CASE P!WakeNotified(t)
  <2>1. pc[t] \in Begun \cup {"starting"}
    BY <1>2, Places DEF P!WakeNotified, P!Woken
  <2>2. Goes(t)
    <3>1. CASE P!PopAndRun(t) \/ P!Sleep(t)
      BY <3>1, Places DEF P!PopAndRun, P!Sleep, Goes
    <3> QED
      BY <1>2, <3>1, ShutdownBranchGoes DEF P!WakeNotified
  <2> QED
    BY <2>1, <2>2, GoesIs
<1>3. CASE P!WakeTimedOut(t)
  <2>1. pc[t] \in Begun \cup {"starting"}
    BY <1>3, Places DEF P!WakeTimedOut
  <2>2. Goes(t)
    <3>1. CASE pc' = [pc EXCEPT ![t] = "stopping"]
      BY <3>1, Places DEF Goes
    <3> QED
      BY <1>3, <3>1 DEF P!WakeTimedOut, P!Exit, Goes
  <2> QED
    BY <2>1, <2>2, GoesIs
<1>4. CASE P!WakeSpurious(t)
  <2>1. pc[t] \in Begun /\ Goes(t)
    BY <1>4, Places DEF P!WakeSpurious, Goes
  <2> QED
    BY <2>1, GoesIs
<1>5. CASE P!WakeShutdown(t)
  <2>1. pc[t] \in Begun /\ Goes(t)
    BY <1>5, Places, ShutdownBranchGoes DEF P!WakeShutdown, P!Woken
  <2> QED
    BY <2>1, GoesIs
<1>6. CASE P!DrainLoop(t)
  <2>1. pc[t] \in Begun /\ Goes(t)
    BY <1>6, Places, ShutdownBranchGoes DEF P!DrainLoop
  <2> QED
    BY <2>1, GoesIs
<1>7. CASE P!FinishTask(t)
  <2>1. pc[t] \in Begun /\ Goes(t)
    BY <1>7, Places DEF P!FinishTask, Goes
  <2> QED
    BY <2>1, GoesIs
<1>8. CASE P!DropTx(t)
  <2>1. pc[t] \in Begun /\ Goes(t)
    BY <1>8, Places DEF P!DropTx, Goes
  <2> QED
    BY <2>1, GoesIs
<1> QED
  BY <1>1, <1>2, <1>3, <1>4, <1>5, <1>6, <1>7, <1>8 DEF Runs

-----------------------------------------------------------------------------
(***************************************************************************)
(* The threads and the workers.                                            *)
(***************************************************************************)
Inv == Hosting /\ Reached

\* The workers and the messages are sequences over the threads.
LEMMA Shapes ==
  ASSUME Typed
  PROVE  /\ DOMAIN workers = 1..Len(workers) /\ Len(workers) \in Nat
         /\ DOMAIN mainPort = 1..Len(mainPort) /\ Len(mainPort) \in Nat
         /\ \A w \in DOMAIN workers :
              workers[w] \in H!Worker /\ workers[w].msg.startArg \in Threads
         /\ \A i \in DOMAIN mainPort :
              mainPort[i] \in H!Message /\ mainPort[i].startArg \in Threads
<1>1. \A w \in DOMAIN workers : workers[w] \in H!Worker
  BY DEF Typed
<1>2. \A i \in DOMAIN mainPort : mainPort[i] \in H!Message
  BY DEF Typed
<1> QED
  BY <1>1, <1>2 DEF Typed, H!Worker, H!Message

\* A step that leaves the host alone and takes no thread from where it is.
LEMMA StayStep ==
  ASSUME Typed, Inv, \A u \in Threads : Stays(u),
         UNCHANGED <<workers, mainPort, happens>>
  PROVE  Inv'
<1>1. \A u \in Threads : Stays(u) /\ (pc'[u] \in Begun <=> pc[u] \in Begun)
        /\ (pc'[u] \in {"unborn", "exited"} <=> pc[u] \in {"unborn", "exited"})
  BY Places DEF Stays
<1>2. Hosting'
  BY <1>1, Shapes, Places DEF Inv, Hosting, Hosted, HostedOn, Stays
<1>3. Reached'
  BY <1>1 DEF Inv, Reached, WillBeHosted
<1> QED
  BY <1>2, <1>3 DEF Inv

\* A step of a thread that a worker runs.
LEMMA RunsStep ==
  ASSUME Typed, Inv, NEW t \in Threads, Runs(t), UNCHANGED happens
  PROVE  Inv'
<1>1. /\ pc[t] \in Begun \cup {"starting"} /\ pc'[t] \in Begun
      /\ \A u \in Threads \ {t} : Stays(u)
  BY RunsGoes
<1>2. UNCHANGED <<workers, mainPort>> /\ Hosted(t)
  BY DEF Runs, hostVars
<1>3. PICK w \in DOMAIN workers : workers[w].pc = "running" /\ workers[w].msg.startArg = t
  BY <1>2 DEF Hosted, HostedOn
<1>4. \A v \in DOMAIN workers : v # w => workers[v].msg.startArg # t
  BY <1>3 DEF Inv, Hosting
<1>5. \A i \in DOMAIN mainPort : mainPort[i].startArg # t
  BY <1>3 DEF Inv, Hosting
<1>6. \A u \in Threads : u # t =>
        /\ pc'[u] \in Begun <=> pc[u] \in Begun
        /\ pc[u] \in {"unborn", "starting", "exited"} => pc'[u] = pc[u]
        /\ pc'[u] \in {"unborn", "exited"} <=> pc[u] \in {"unborn", "exited"}
  BY <1>1, Places DEF Stays
<1>7. Hosting'
  <2>1. \A i \in DOMAIN mainPort : pc'[mainPort[i].startArg] = "starting"
    BY <1>5, <1>6, Shapes DEF Inv, Hosting
  <2>2. ASSUME NEW v \in DOMAIN workers
        PROVE  /\ workers[v].pc \in {"loading", "instantiating", "failed"}
                    => pc'[workers[v].msg.startArg] = "starting"
               /\ workers[v].pc = "running"
                    => pc'[workers[v].msg.startArg] \in Begun \cup {"starting"}
               /\ workers[v].pc = "ended" => pc'[workers[v].msg.startArg] = "exited"
    <3>1. CASE v = w
      BY <1>1, <1>3, <3>1
    <3>2. CASE v # w
      BY <1>4, <1>6, <3>2, Shapes DEF Inv, Hosting
    <3> QED
      BY <3>1, <3>2
  <2>3. \A u \in Threads : pc'[u] \in Begun => Hosted(u)
    BY <1>2, <1>6 DEF Inv, Hosting
  <2> QED
    BY <1>2, <2>1, <2>2, <2>3 DEF Inv, Hosting, Hosted, HostedOn
<1>8. Reached'
  <2>1. WillBeHosted(t)
    BY <1>3 DEF WillBeHosted
  <2> QED
    BY <1>2, <1>6, <2>1 DEF Inv, Reached, WillBeHosted
<1> QED
  BY <1>7, <1>8 DEF Inv

\* The thread ends, and its worker with it.
LEMMA EndsStep ==
  ASSUME Typed, Inv, NEW t \in Threads, Ends(t), UNCHANGED happens
  PROVE  Inv'
<1>1. PICK w \in DOMAIN workers :
        /\ workers[w].pc = "running" /\ workers[w].msg.startArg = t
        /\ P!EndThread(t) /\ H!WorkerEnds(w)
  BY DEF Ends, HostedOn
<1>2. /\ pc' = [pc EXCEPT ![t] = "exited"]
      /\ workers' = [workers EXCEPT ![w].pc = "ended"] /\ mainPort' = mainPort
  BY <1>1 DEF P!EndThread, H!WorkerEnds, H!WorkerMoves
<1>3. pc'[t] = "exited" /\ \A u \in Threads : u # t => pc'[u] = pc[u]
  BY <1>2 DEF Typed
<1>4. /\ DOMAIN workers' = DOMAIN workers
      /\ workers'[w].pc = "ended" /\ workers'[w].msg = workers[w].msg
      /\ \A v \in DOMAIN workers : v # w => workers'[v] = workers[v]
  BY <1>1, <1>2, Shapes DEF H!Worker
<1>5. \A v \in DOMAIN workers :
        /\ workers'[v].msg = workers[v].msg
        /\ v # w => workers[v].msg.startArg # t
  BY <1>1, <1>4 DEF Inv, Hosting
<1>6. \A i \in DOMAIN mainPort : mainPort[i].startArg # t
  BY <1>1 DEF Inv, Hosting
<1>7. Hosting'
  <2>1. \A i \in DOMAIN mainPort : pc'[mainPort[i].startArg] = "starting"
    BY <1>3, <1>6, Shapes DEF Inv, Hosting
  <2>2. ASSUME NEW v \in DOMAIN workers
        PROVE  /\ workers'[v].pc \in {"loading", "instantiating", "failed"}
                    => pc'[workers[v].msg.startArg] = "starting"
               /\ workers'[v].pc = "running"
                    => pc'[workers[v].msg.startArg] \in Begun \cup {"starting"}
               /\ workers'[v].pc = "ended" => pc'[workers[v].msg.startArg] = "exited"
    <3>1. CASE v = w
      BY <1>1, <1>3, <1>4, <3>1
    <3>2. CASE v # w
      BY <1>3, <1>4, <1>5, <3>2, Shapes DEF Inv, Hosting
    <3> QED
      BY <3>1, <3>2
  <2>3. ASSUME NEW u \in Threads, pc'[u] \in Begun
        PROVE  \E v \in DOMAIN workers :
                 workers'[v].pc = "running" /\ workers'[v].msg.startArg = u
    <3>1. u # t /\ pc[u] \in Begun
      BY <1>3, <2>3, Places
    <3>2. PICK v \in DOMAIN workers :
            workers[v].pc = "running" /\ workers[v].msg.startArg = u
      BY <3>1 DEF Inv, Hosting, Hosted, HostedOn
    <3> QED
      BY <1>1, <1>4, <3>1, <3>2
  <2> QED
    BY <1>2, <1>4, <1>5, <2>1, <2>2, <2>3 DEF Inv, Hosting, Hosted, HostedOn
<1>8. Reached'
  <2> SUFFICES ASSUME happens \subseteq {"create_fails"},
                      NEW u \in Threads, pc'[u] \notin {"unborn", "exited"}
               PROVE  WillBeHosted(u)'
    BY DEF Reached
  <2>1. u # t /\ WillBeHosted(u)
    BY <1>3 DEF Inv, Reached
  <2> QED
    BY <1>1, <1>2, <1>4, <1>5, <2>1 DEF WillBeHosted
<1> QED
  BY <1>7, <1>8 DEF Inv

\* A step of the host that takes a worker on its way.
LEMMA WorkerStep ==
  ASSUME Typed, Inv, NEW w \in DOMAIN workers, NEW from, NEW to,
         H!WorkerMoves(w, from, to), UNCHANGED <<pc, happens>>,
         \/ from = "loading" /\ to = "instantiating"
         \/ from = "instantiating" /\ to = "running"
         \/ /\ from \in {"loading", "instantiating"} /\ to = "failed"
            /\ "worker_fails" \in happens
  PROVE  Inv'
<1>1. /\ workers[w].pc = from
      /\ workers' = [workers EXCEPT ![w].pc = to] /\ mainPort' = mainPort
  BY DEF H!WorkerMoves
<1>2. /\ DOMAIN workers' = DOMAIN workers
      /\ workers'[w].pc = to
      /\ \A v \in DOMAIN workers : v # w => workers'[v].pc = workers[v].pc
      /\ \A v \in DOMAIN workers : workers'[v].msg = workers[v].msg
  BY <1>1, Shapes DEF H!Worker
<1>3. pc[workers[w].msg.startArg] = "starting"
  BY <1>1 DEF Inv, Hosting
<1>4. Hosting'
  <2>1. ASSUME NEW v \in DOMAIN workers
        PROVE  /\ workers'[v].pc \in {"loading", "instantiating", "failed"}
                    => pc[workers[v].msg.startArg] = "starting"
               /\ workers'[v].pc = "running"
                    => pc[workers[v].msg.startArg] \in Begun \cup {"starting"}
               /\ workers'[v].pc = "ended" => pc[workers[v].msg.startArg] = "exited"
    <3>1. CASE v = w
      BY <1>2, <1>3, <3>1
    <3>2. CASE v # w
      BY <1>2, <3>2 DEF Inv, Hosting
    <3> QED
      BY <3>1, <3>2
  <2>2. ASSUME NEW u \in Threads, pc[u] \in Begun
        PROVE  \E v \in DOMAIN workers :
                 workers'[v].pc = "running" /\ workers'[v].msg.startArg = u
    <3>1. PICK v \in DOMAIN workers :
            workers[v].pc = "running" /\ workers[v].msg.startArg = u
      BY <2>2 DEF Inv, Hosting, Hosted, HostedOn
    <3>2. v # w
      BY <1>1, <3>1
    <3> QED
      BY <1>2, <3>1, <3>2
  <2> QED
    BY <1>1, <1>2, <2>1, <2>2 DEF Inv, Hosting, Hosted, HostedOn
<1>5. Reached'
  <2> SUFFICES ASSUME happens \subseteq {"create_fails"},
                      NEW u \in Threads, pc[u] \notin {"unborn", "exited"}
               PROVE  WillBeHosted(u)'
    BY DEF Reached
  <2>1. to \in {"instantiating", "running"}
    OBVIOUS
  <2>2. WillBeHosted(u)
    BY DEF Inv, Reached
  <2>3. ASSUME NEW v \in DOMAIN workers, workers[v].msg.startArg = u,
               workers[v].pc \in {"loading", "instantiating", "running"}
        PROVE  /\ workers'[v].msg.startArg = u
               /\ workers'[v].pc \in {"loading", "instantiating", "running"}
    BY <1>2, <2>1, <2>3
  <2> QED
    BY <1>1, <1>2, <2>2, <2>3 DEF WillBeHosted
<1> QED
  BY <1>4, <1>5 DEF Inv

\* The page makes a worker for the first message.
LEMMA PageStep ==
  ASSUME Typed, Inv, H!PageReceives, UNCHANGED <<pc, happens>>
  PROVE  Inv'
<1> DEFINE n == Len(workers) + 1
<1>1. /\ mainPort # <<>> /\ mainPort' = Tail(mainPort)
      /\ workers' = Append(workers, [msg |-> Head(mainPort), pc |-> "loading"])
  BY DEF H!PageReceives
<1>2. /\ Head(mainPort) = mainPort[1] /\ 1 \in DOMAIN mainPort
      /\ \A i \in DOMAIN mainPort' :
           /\ i \in Nat /\ i + 1 \in DOMAIN mainPort /\ i + 1 # 1
           /\ mainPort'[i] = mainPort[i + 1]
      /\ \A i \in DOMAIN mainPort : i # 1 =>
           i - 1 \in DOMAIN mainPort' /\ mainPort'[i - 1] = mainPort[i]
  BY <1>1, Shapes DEF Typed
<1>3. /\ DOMAIN workers' = DOMAIN workers \cup {n} /\ n \notin DOMAIN workers
      /\ \A v \in DOMAIN workers : workers'[v] = workers[v]
      /\ workers'[n].msg = mainPort[1] /\ workers'[n].pc = "loading"
  BY <1>1, <1>2, Shapes DEF Typed
<1> HIDE DEF n
<1>4. \A v \in DOMAIN workers : workers[v].msg.startArg # mainPort[1].startArg
  BY <1>2 DEF Inv, Hosting
<1>5. Hosting'
  <2>1. \A v, w \in DOMAIN workers' :
          workers'[v].msg.startArg = workers'[w].msg.startArg => v = w
    BY <1>3, <1>4 DEF Inv, Hosting
  <2>2. \A i, j \in DOMAIN mainPort' :
          mainPort'[i].startArg = mainPort'[j].startArg => i = j
    <3> SUFFICES ASSUME NEW i \in DOMAIN mainPort', NEW j \in DOMAIN mainPort',
                        mainPort'[i].startArg = mainPort'[j].startArg
                 PROVE  i = j
      OBVIOUS
    <3>1. mainPort[i + 1].startArg = mainPort[j + 1].startArg
      BY <1>2
    <3>2. i + 1 = j + 1
      BY <1>2, <3>1 DEF Inv, Hosting
    <3> QED
      BY <1>2, <3>2
  <2>3. ASSUME NEW i \in DOMAIN mainPort'
        PROVE  /\ pc[mainPort'[i].startArg] = "starting"
               /\ \A w \in DOMAIN workers' :
                    workers'[w].msg.startArg # mainPort'[i].startArg
    <3>1. /\ mainPort'[i] = mainPort[i + 1] /\ i + 1 \in DOMAIN mainPort
          /\ mainPort[i + 1].startArg # mainPort[1].startArg
      BY <1>2 DEF Inv, Hosting
    <3> QED
      BY <1>3, <3>1 DEF Inv, Hosting
  <2>4. ASSUME NEW v \in DOMAIN workers'
        PROVE  /\ workers'[v].pc \in {"loading", "instantiating", "failed"}
                    => pc[workers'[v].msg.startArg] = "starting"
               /\ workers'[v].pc = "running"
                    => pc[workers'[v].msg.startArg] \in Begun \cup {"starting"}
               /\ workers'[v].pc = "ended" => pc[workers'[v].msg.startArg] = "exited"
    BY <1>2, <1>3 DEF Inv, Hosting
  <2>5. ASSUME NEW u \in Threads, pc[u] \in Begun
        PROVE  \E v \in DOMAIN workers' :
                 workers'[v].pc = "running" /\ workers'[v].msg.startArg = u
    BY <1>3, <2>5 DEF Inv, Hosting, Hosted, HostedOn
  <2> QED
    BY <2>1, <2>2, <2>3, <2>4, <2>5 DEF Hosting, Hosted, HostedOn
<1>6. Reached'
  <2> SUFFICES ASSUME happens \subseteq {"create_fails"},
                      NEW u \in Threads, pc[u] \notin {"unborn", "exited"}
               PROVE  WillBeHosted(u)'
    BY DEF Reached
  <2>1. WillBeHosted(u)
    BY DEF Inv, Reached
  <2>2. CASE \E w \in DOMAIN workers :
               /\ workers[w].msg.startArg = u
               /\ workers[w].pc \in {"loading", "instantiating", "running"}
    BY <1>3, <2>2 DEF WillBeHosted
  <2>3. ASSUME NEW i \in DOMAIN mainPort, mainPort[i].startArg = u
        PROVE  WillBeHosted(u)'
    <3>1. CASE i = 1
      BY <1>3, <2>3, <3>1 DEF WillBeHosted
    <3>2. CASE i # 1
      BY <1>2, <2>3, <3>2 DEF WillBeHosted
    <3> QED
      BY <3>1, <3>2
  <2> QED
    BY <2>1, <2>2, <2>3 DEF WillBeHosted
<1> QED
  BY <1>5, <1>6 DEF Inv

\* thread-spawn from the main worker: the new thread's message is on the port.
LEMMA SpawnFromMainStep ==
  ASSUME Typed, Inv, NEW k \in Tasks, NEW t \in Threads,
         P!SpawnThread(k, t), H!SpawnFromMain(t), UNCHANGED happens
  PROVE  Inv'
<1> DEFINE n == Len(mainPort) + 1
<1>1. /\ pc[t] = "unborn" /\ pc' = [pc EXCEPT ![t] = "starting"]
      /\ workers' = workers
      /\ mainPort' = Append(mainPort, [tid |-> nextTid, startArg |-> t])
  BY DEF P!SpawnThread, H!SpawnFromMain, H!Called
<1>2. pc'[t] = "starting" /\ \A u \in Threads : u # t => pc'[u] = pc[u]
  BY <1>1 DEF Typed
<1>3. /\ DOMAIN mainPort' = DOMAIN mainPort \cup {n} /\ n \notin DOMAIN mainPort
      /\ \A i \in DOMAIN mainPort : mainPort'[i] = mainPort[i]
      /\ mainPort'[n].startArg = t
  BY <1>1, Shapes DEF Typed
<1> HIDE DEF n
<1>4. \A i \in DOMAIN mainPort : mainPort[i].startArg # t
  BY <1>1 DEF Inv, Hosting
<1>5. \A w \in DOMAIN workers : workers[w].msg.startArg # t
  BY <1>1, Shapes, Places DEF Inv, Hosting, H!Worker
<1>6. Hosting'
  <2>1. \A i, j \in DOMAIN mainPort' :
          mainPort'[i].startArg = mainPort'[j].startArg => i = j
    BY <1>3, <1>4 DEF Inv, Hosting
  <2>2. \A i \in DOMAIN mainPort' :
          /\ pc'[mainPort'[i].startArg] = "starting"
          /\ \A w \in DOMAIN workers : workers[w].msg.startArg # mainPort'[i].startArg
    BY <1>2, <1>3, <1>4, <1>5, Shapes DEF Inv, Hosting
  <2>3. \A w \in DOMAIN workers : pc'[workers[w].msg.startArg] = pc[workers[w].msg.startArg]
    BY <1>2, <1>5, Shapes
  <2>4. \A u \in Threads : pc'[u] \in Begun => Hosted(u)
    BY <1>2, Places DEF Inv, Hosting
  <2> QED
    BY <1>1, <2>1, <2>2, <2>3, <2>4 DEF Inv, Hosting, Hosted, HostedOn
<1>7. Reached'
  <2> SUFFICES ASSUME happens \subseteq {"create_fails"},
                      NEW u \in Threads, pc'[u] \notin {"unborn", "exited"}
               PROVE  WillBeHosted(u)'
    BY DEF Reached
  <2>1. CASE u = t
    BY <1>3, <2>1 DEF WillBeHosted
  <2>2. CASE u # t
    <3>1. WillBeHosted(u)
      BY <1>2, <2>2 DEF Inv, Reached
    <3> QED
      BY <1>1, <1>3, <3>1 DEF WillBeHosted
  <2> QED
    BY <2>1, <2>2
<1> QED
  BY <1>6, <1>7 DEF Inv

\* thread-spawn from a thread worker: the message goes where nobody listens, and
\* the thread never begins.
LEMMA SpawnFromThreadStep ==
  ASSUME Typed, Inv, NEW k \in Tasks, NEW t \in Threads, NEW w \in DOMAIN workers,
         P!SpawnThread(k, t), H!SpawnFromThread(w, t), "nested" \in happens,
         UNCHANGED happens
  PROVE  Inv'
<1>1. /\ pc[t] = "unborn" /\ pc' = [pc EXCEPT ![t] = "starting"]
      /\ workers' = workers /\ mainPort' = mainPort
  BY DEF P!SpawnThread, H!SpawnFromThread, H!Called
<1>2. pc'[t] = "starting" /\ \A u \in Threads : u # t => pc'[u] = pc[u]
  BY <1>1 DEF Typed
<1>3. \A i \in DOMAIN mainPort : mainPort[i].startArg # t
  BY <1>1 DEF Inv, Hosting
<1>4. \A v \in DOMAIN workers : workers[v].msg.startArg # t
  BY <1>1, Shapes, Places DEF Inv, Hosting, H!Worker
<1>5. Hosting'
  <2>1. /\ \A i \in DOMAIN mainPort : pc'[mainPort[i].startArg] = pc[mainPort[i].startArg]
        /\ \A v \in DOMAIN workers :
             pc'[workers[v].msg.startArg] = pc[workers[v].msg.startArg]
    BY <1>2, <1>3, <1>4, Shapes
  <2>2. \A u \in Threads : pc'[u] \in Begun => Hosted(u)
    BY <1>2, Places DEF Inv, Hosting
  <2> QED
    BY <1>1, <2>1, <2>2 DEF Inv, Hosting, Hosted, HostedOn
<1>6. Reached'
  BY DEF Reached
<1> QED
  BY <1>5, <1>6 DEF Inv

-----------------------------------------------------------------------------
LEMMA InitInv == Init => Inv
<1> SUFFICES ASSUME Init PROVE Inv
  OBVIOUS
<1>1. /\ workers = <<>> /\ mainPort = <<>>
      /\ \A t \in Threads : pc[t] = "unborn"
  BY DEF Init, H!Init, P!Init
<1> QED
  BY <1>1, Places DEF Inv, Hosting, Reached

LEMMA NextInv == Typed /\ Inv /\ [Next]_vars => Inv'
<1> SUFFICES ASSUME Typed, Inv, [Next]_vars PROVE Inv'
  OBVIOUS
<1>0. happens' = happens
  BY DEF Next, vars
<1>1. ASSUME NEW k \in Tasks, SpawnsNoThread(k) PROVE Inv'
  <2>1. UNCHANGED <<workers, mainPort>>
    BY <1>1 DEF SpawnsNoThread, hostVars
  <2>2. \A u \in Threads : Stays(u)
    <3>1. CASE P!SpawnNotify(k)
      BY <3>1, NotifyOneStays, Places DEF P!SpawnNotify, Stays, Typed
    <3>2. CASE pc' = pc
      BY <3>2 DEF Stays
    <3> QED
      BY <1>1, <3>1, <3>2 DEF SpawnsNoThread, P!SpawnShuttingDown, P!SpawnAtCap, P!SpawnFails
  <2> QED
    BY <1>0, <2>1, <2>2, StayStep
<1>2. ASSUME NEW k \in Tasks, SpawnFromMain(k) PROVE Inv'
  BY <1>0, <1>1, <1>2, SpawnFromMainStep DEF SpawnFromMain
<1>3. ASSUME NEW k \in Tasks, SpawnFromTask(k) PROVE Inv'
  BY <1>0, <1>1, <1>3, SpawnFromThreadStep DEF SpawnFromTask
<1>4. ASSUME NEW t \in Threads, ThreadStep(t) PROVE Inv'
  BY <1>0, <1>4, RunsStep, EndsStep DEF ThreadStep
<1>5. ASSUME NEW t \in Threads, LeavesWait(t) PROVE Inv'
  <2>1. UNCHANGED <<workers, mainPort>>
    BY <1>5 DEF LeavesWait, hostVars
  <2>2. PICK v \in {"woken", "timedout"} : pc[t] = "waiting" /\ pc' = [pc EXCEPT ![t] = v]
    BY <1>5 DEF LeavesWait, P!LeaveWait, P!Woken
  <2>3. \A u \in Threads : Stays(u)
    BY <2>2, Places DEF Stays, Typed
  <2> QED
    BY <1>0, <2>1, <2>3, StayStep
<1>6. ASSUME OwnerStep \/ OwnerChoice PROVE Inv'
  <2>1. UNCHANGED <<workers, mainPort>>
    BY <1>6 DEF OwnerStep, OwnerChoice, hostVars
  <2>2. pc' = pc \/ pc' = P!NotifyAll(pc)
    BY <1>6 DEF OwnerStep, OwnerChoice, P!AllSendersDropped, P!JoinAll, P!Shutdown,
                P!WaitTimesOut
  <2>3. \A u \in Threads : Stays(u)
    BY <2>2, NotifyAllStays, Places DEF Stays, Typed
  <2> QED
    BY <1>0, <2>1, <2>3, StayStep
<1>7. ASSUME NEW from, NEW to, H!MainMoves(from, to), UNCHANGED poolVars PROVE Inv'
  BY <1>0, <1>7, StayStep DEF H!MainMoves, poolVars, Stays
<1>8. ASSUME MainEnds PROVE Inv'
  BY <1>7, <1>8 DEF MainEnds, H!MainEnds
<1>9. ASSUME Host PROVE Inv'
  <2>1. UNCHANGED <<pc, happens>> /\ UNCHANGED poolVars
    BY <1>0, <1>9 DEF Host, poolVars
  <2>2. CASE H!MainReceives \/ H!MainCompiled \/ H!MainStarts
    BY <1>7, <2>1, <2>2 DEF H!MainReceives, H!MainCompiled, H!MainStarts
  <2>3. CASE H!PageReceives
    BY <2>1, <2>3, PageStep
  <2>4. ASSUME NEW w \in DOMAIN workers, H!WorkerReceives(w) \/ H!WorkerStarts(w)
        PROVE  Inv'
    BY <2>1, <2>4, WorkerStep DEF H!WorkerReceives, H!WorkerStarts
  <2> QED
    BY <1>9, <2>2, <2>3, <2>4 DEF Host
<1>10. ASSUME HostFails PROVE Inv'
  <2>1. UNCHANGED <<pc, happens>> /\ UNCHANGED poolVars /\ "worker_fails" \in happens
    BY <1>0, <1>10 DEF HostFails, poolVars
  <2>2. CASE H!MainFails
    BY <1>7, <2>1, <2>2 DEF H!MainFails
  <2>3. ASSUME NEW w \in DOMAIN workers, H!WorkerFails(w) PROVE Inv'
    BY <2>1, <2>3, WorkerStep DEF H!WorkerFails
  <2> QED
    BY <1>10, <2>2, <2>3 DEF HostFails
<1>11. ASSUME UNCHANGED vars PROVE Inv'
  BY <1>11, StayStep DEF vars, system, poolVars, hostVars, Stays
<1> QED
  BY <1>2, <1>3, <1>4, <1>5, <1>6, <1>8, <1>9, <1>10, <1>11 DEF Next

\* The workers and the threads of the pool agree: each thread is posted once, has
\* at most one worker, and begins and ends with it.
THEOREM Invariant == Spec => []Inv
<1> QED
  BY InitInv, NextInv, AlwaysTyped, PTL DEF Spec

\* No two workers run the same pool thread, and none runs one that is not made
\* yet or has ended, for any number of threads, also when tasks spawn threads and
\* workers fail.
THEOREM ThreadsRunOnce == Spec => []NoThreadRunsTwice
<1>1. Typed /\ Inv => NoThreadRunsTwice
  <2> SUFFICES ASSUME Typed, Inv PROVE NoThreadRunsTwice
    OBVIOUS
  <2>1. ASSUME NEW t \in Threads, NEW v \in DOMAIN workers, NEW w \in DOMAIN workers,
               HostedOn(t, v), HostedOn(t, w)
        PROVE  v = w
    BY <2>1 DEF Inv, Hosting, HostedOn
  <2>2. ASSUME NEW w \in DOMAIN workers, workers[w].pc = "running"
        PROVE  pc[workers[w].msg.startArg] \notin {"unborn", "exited"}
    BY <2>2, Places DEF Inv, Hosting
  <2> QED
    BY <2>1, <2>2 DEF NoThreadRunsTwice
<1> QED
  BY <1>1, Invariant, AlwaysTyped, PTL

\* As long as the main worker alone spawns and workers load, an accepted task in
\* the queue of an open pool has a thread on its way that the host runs or will
\* run: the pool's NoStrandedTask, and every thread it counts on has a worker.
THEOREM NotStrandedByHost == Spec => []NoTaskStrandedByHost
<1>1. Typed /\ Inv /\ PP!IInv => NoTaskStrandedByHost
  <2> SUFFICES ASSUME Typed, Inv, PP!IInv,
                      happens \subseteq {"create_fails"}, P!AcceptedInQueue, ~shutdown
               PROVE  \/ \E t \in P!In(P!Busy) : WillBeHosted(t)
                      \/ num_notify > 0 /\ \E t \in P!In(P!Woken) : Hosted(t)
    BY DEF NoTaskStrandedByHost
  <2>1. PP!In(PP!Busy) # {} \/ num_notify > 0
    BY DEF PP!IInv, PP!NoStrandedTask, PP!AcceptedInQueue, P!AcceptedInQueue
  <2>2. CASE PP!In(PP!Busy) # {}
    <3>1. PICK t \in Threads : pc[t] \in {"starting", "running", "finished"}
      BY <2>2 DEF PP!In, PP!Busy
    <3>2. WillBeHosted(t)
      BY <3>1 DEF Inv, Reached
    <3> QED
      BY <3>1, <3>2 DEF P!In, P!Busy
  <2>3. CASE num_notify > 0
    <3>1. PP!In(PP!Woken) # {}
      <4>1. PP!IsFiniteSet(Threads) <=> P!IsFiniteSet(Threads)
        BY DEF PP!IsFiniteSet, P!IsFiniteSet
      <4>2. /\ PP!Cardinality(PP!In(PP!Woken)) \in Nat
            /\ PP!Cardinality(PP!In(PP!Woken)) = 0 <=> PP!In(PP!Woken) = {}
        BY <4>1, PP!Counting, PoolAssumption
           DEF P!ThreadsAssumption, P!TasksAssumption, P!ThreadCapAssumption
      <4>3. num_notify \in Nat /\ num_notify <= PP!Cardinality(PP!In(PP!Woken))
        BY DEF PP!IInv, PP!TypeOK, PP!NoLostWakeup
      <4> QED
        BY <2>3, <4>2, <4>3
    <3>2. PICK t \in Threads : pc[t] \in {"woken", "timedout"}
      BY <3>1 DEF PP!In, PP!Woken
    <3>3. Hosted(t)
      BY <3>2, Places DEF Inv, Hosting
    <3> QED
      BY <2>3, <3>2, <3>3 DEF P!In, P!Woken
  <2> QED
    BY <2>1, <2>2, <2>3
<1> QED
  BY <1>1, Invariant, AlwaysTyped, PoolKept, PTL
=============================================================================
