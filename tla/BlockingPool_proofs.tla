------------------------- MODULE BlockingPool_proofs -------------------------
(***************************************************************************)
(* The blocking pool, for any number of threads, tasks and any cap: the    *)
(* accounting of its counters and wakeups, and what its callers and the    *)
(* owner of its runtime are promised.  The pool implements TaskPool, and a *)
(* shutdown without timeout returns only when every thread has ended and   *)
(* every accepted task is resolved.  Both rest on the accounting.          *)
(***************************************************************************)
EXTENDS BlockingPool, FiniteSetTheorems, TLAPS

\* What the two phases of the pool exclude: no thread sleeps once the pool
\* is shut down, none drains the queue before, and the sender is there to be
\* cloned.
Phase ==
  /\ shutdown => In({"waiting"}) = {}
  /\ ~shutdown => In(Draining) = {} /\ shutdown_tx

\* The inductive invariant.
IInv ==
  /\ TypeOK
  /\ Phase
  /\ IdleAccounting
  /\ NoLostWakeup
  /\ ThreadAccounting
  /\ NoStrandedTask

\* How many threads of S there are more when one of them goes from a to b.
Delta(S, a, b) == IF b \in S THEN IF a \in S THEN 0 ELSE 1
                             ELSE IF a \in S THEN -1 ELSE 0

-----------------------------------------------------------------------------
\* The sets of threads the invariants count are finite, and counted by a
\* natural number that is zero only when there is none.
LEMMA Counting ==
  ASSUME NEW S
  PROVE  /\ IsFiniteSet(In(S))
         /\ Cardinality(In(S)) \in Nat
         /\ Cardinality(In(S)) = 0 <=> In(S) = {}
<1>1. In(S) \subseteq Threads
  BY DEF In
<1>2. IsFiniteSet(In(S))
  BY <1>1, ThreadsAssumption, FS_Subset
<1> QED
  BY <1>2, FS_CardinalityType, FS_EmptySet

\* What a step of one thread does to the number of threads in S.
LEMMA Moved ==
  ASSUME TypeOK, NEW t \in Threads, NEW v \in PCs, NEW CONSTANT S,
         pc' = [pc EXCEPT ![t] = v]
  PROVE  /\ In(S)' = IF v \in S THEN In(S) \cup {t} ELSE In(S) \ {t}
         /\ Cardinality(In(S))' = Cardinality(In(S)) + Delta(S, pc[t], v)
         /\ Cardinality(In(S))' \in Nat
<1>1. t \in In(S) <=> pc[t] \in S
  BY DEF In
<1>2. In(S)' = IF v \in S THEN In(S) \cup {t} ELSE In(S) \ {t}
  BY DEF In, TypeOK
<1>3. IsFiniteSet(In(S)) /\ Cardinality(In(S)) \in Nat
  BY Counting
<1>4. Cardinality(In(S) \cup {t}) =
         IF pc[t] \in S THEN Cardinality(In(S)) ELSE Cardinality(In(S)) + 1
  BY <1>1, <1>3, FS_AddElement
<1>5. Cardinality(In(S) \ {t}) =
         IF pc[t] \in S THEN Cardinality(In(S)) - 1 ELSE Cardinality(In(S))
  BY <1>1, <1>3, FS_RemoveElement
<1>6. Cardinality(In(S)') = Cardinality(In(S)) + Delta(S, pc[t], v)
  BY <1>2, <1>3, <1>4, <1>5 DEF Delta
<1>7. IsFiniteSet(In(S)')
  BY <1>2, <1>3, FS_AddElement, FS_RemoveElement
<1>8. Cardinality(In(S)') \in Nat
  BY <1>7, FS_CardinalityType
<1> QED
  BY <1>2, <1>6, <1>8

\* The same, for the sets of threads the invariants speak of.
LEMMA MovedAll ==
  ASSUME TypeOK, NEW t \in Threads, NEW v \in PCs, pc' = [pc EXCEPT ![t] = v]
  PROVE  /\ pc' \in [Threads -> PCs]
         /\ Cardinality(In(Idle))' = Cardinality(In(Idle)) + Delta(Idle, pc[t], v)
         /\ Cardinality(In(Woken))' = Cardinality(In(Woken)) + Delta(Woken, pc[t], v)
         /\ Cardinality(In(Counted))'
              = Cardinality(In(Counted)) + Delta(Counted, pc[t], v)
         /\ \A u \in Threads : pc'[u] = IF u = t THEN v ELSE pc[u]
         /\ Cardinality(In(Idle)) \in Nat /\ Cardinality(In(Woken)) \in Nat
         /\ Cardinality(In(Counted)) \in Nat
         /\ Cardinality(In(Idle))' \in Nat /\ Cardinality(In(Woken))' \in Nat
         /\ Cardinality(In(Counted))' \in Nat
<1>1. pc' \in [Threads -> PCs] /\ \A u \in Threads : pc'[u] = IF u = t THEN v ELSE pc[u]
  BY DEF TypeOK
<1>2. /\ Cardinality(In(Idle))' = Cardinality(In(Idle)) + Delta(Idle, pc[t], v)
      /\ Cardinality(In(Idle))' \in Nat
  BY Moved
<1>3. /\ Cardinality(In(Woken))' = Cardinality(In(Woken)) + Delta(Woken, pc[t], v)
      /\ Cardinality(In(Woken))' \in Nat
  BY Moved
<1>4. /\ Cardinality(In(Counted))' = Cardinality(In(Counted)) + Delta(Counted, pc[t], v)
      /\ Cardinality(In(Counted))' \in Nat
  BY Moved
<1> QED
  BY <1>1, <1>2, <1>3, <1>4, Counting

\* A step that moves no thread changes no count.
LEMMA Unmoved ==
  ASSUME NEW CONSTANT S, pc' = pc
  PROVE  In(S)' = In(S) /\ Cardinality(In(S))' = Cardinality(In(S))
BY DEF In

\* One notify_one: nobody was asleep, or one sleeper is out of the wait.
LEMMA OneNotified ==
  ASSUME TypeOK, pc' \in NotifyOne(pc)
  PROVE  \/ pc' = pc /\ In({"waiting"}) = {}
         \/ \E w \in In({"waiting"}) : pc' = [pc EXCEPT ![w] = "woken"]
BY DEF NotifyOne, In

\* Spawner::spawn_task on an open pool types the queue and the tasks.
LEMMA PushTypes ==
  ASSUME TypeOK, NEW k \in Tasks, NEW a \in {"ok", "no_threads"}, Push(k, a)
  PROVE  /\ queue' \in Seq(Tasks)
         /\ status' \in [Tasks -> {"new", "queued", "running", "done", "cancelled"}]
         /\ reply' \in [Tasks -> {"none", "ok", "shutting_down", "no_threads"}]
         /\ ~shutdown /\ shutdown' = shutdown /\ shutdown_tx' = shutdown_tx
         /\ last_exiting_thread' = last_exiting_thread /\ task' = task
         /\ join_on_thread' = join_on_thread
         /\ owner' = owner /\ to_join' = to_join
BY DEF Push, TypeOK

-----------------------------------------------------------------------------
\* spawn_task keeps the accounting, branch by branch.
LEMMA SpawnShuttingDownStep ==
  ASSUME IInv, NEW k \in Tasks, SpawnShuttingDown(k)
  PROVE  IInv'
<1>1. pc' = pc /\ UNCHANGED shared /\ shutdown
  BY DEF SpawnShuttingDown
<1>2. TypeOK'
  BY <1>1 DEF IInv, SpawnShuttingDown, TypeOK, shared
<1>3. /\ In({"waiting"})' = In({"waiting"})
      /\ In(Busy)' = In(Busy) /\ In(Counted)' = In(Counted)
      /\ Cardinality(In(Woken))' = Cardinality(In(Woken))
      /\ Cardinality(In(Counted))' = Cardinality(In(Counted))
  BY <1>1, Unmoved
<1>4. AcceptedInQueue' => AcceptedInQueue
  <2>1. \A i \in DOMAIN queue : queue[i] \in Tasks
    BY DEF IInv, TypeOK
  <2>2. \A q \in Tasks : reply'[q] = "ok" => reply[q] = "ok"
    BY DEF SpawnShuttingDown, TypeOK, IInv
  <2> QED
    BY <1>1, <2>1, <2>2 DEF AcceptedInQueue, shared
<1> QED
  BY <1>1, <1>2, <1>3, <1>4
     DEF IInv, Phase, IdleAccounting, NoLostWakeup, ThreadAccounting,
         NoStrandedTask, shared

\* A call of spawn_task that finds an idle thread keeps the invariant: the counts of
\* idle threads and of notifications move with the sleeper that is woken.
LEMMA SpawnNotifyStep ==
  ASSUME IInv, NEW k \in Tasks, SpawnNotify(k)
  PROVE  IInv'
<1>1. /\ Push(k, "ok") /\ num_idle_threads' = num_idle_threads - 1
      /\ num_notify' = num_notify + 1 /\ num_idle_threads # 0
      /\ worker_threads' = worker_threads /\ num_threads' = num_threads
      /\ pc' \in NotifyOne(pc)
  BY DEF SpawnNotify
<1>2. TypeOK /\ Phase /\ IdleAccounting /\ NoLostWakeup /\ ThreadAccounting
  BY DEF IInv
<1>3. /\ queue' \in Seq(Tasks)
      /\ status' \in [Tasks -> {"new", "queued", "running", "done", "cancelled"}]
      /\ reply' \in [Tasks -> {"none", "ok", "shutting_down", "no_threads"}]
      /\ ~shutdown /\ shutdown' = shutdown /\ shutdown_tx' = shutdown_tx
      /\ last_exiting_thread' = last_exiting_thread /\ task' = task
      /\ join_on_thread' = join_on_thread /\ owner' = owner /\ to_join' = to_join
  BY <1>1, <1>2, PushTypes
<1>4. /\ num_idle_threads \in Nat \ {0} /\ num_notify \in Nat
      /\ num_idle_threads + num_notify = Cardinality(In(Idle))
      /\ shutdown_tx
  BY <1>1, <1>2, <1>3 DEF TypeOK, IdleAccounting, Phase
<1>5. SUFFICES ASSUME TRUE PROVE
        /\ pc' \in [Threads -> PCs] /\ In(Draining)' = {}
        /\ Cardinality(In(Idle))' = Cardinality(In(Idle))
        /\ Cardinality(In(Counted))' = Cardinality(In(Counted))
        /\ num_notify + 1 <= Cardinality(In(Woken))'
  <2>1. TypeOK'
    BY <1>1, <1>2, <1>3, <1>4, <1>5 DEF TypeOK
  <2>2. Phase' /\ IdleAccounting'
    BY <1>1, <1>2, <1>3, <1>4, <1>5 DEF Phase, IdleAccounting
  <2>3. NoLostWakeup' /\ ThreadAccounting'
    BY <1>1, <1>2, <1>5 DEF NoLostWakeup, ThreadAccounting
  <2>4. NoStrandedTask'
    BY <1>1, <1>3, <1>4 DEF NoStrandedTask
  <2> QED
    BY <2>1, <2>2, <2>3, <2>4 DEF IInv
<1>6. Cardinality(In(Woken)) \in Nat /\ Cardinality(In(Idle)) \in Nat
      /\ Cardinality(In(Counted)) \in Nat
  BY Counting
<1>7. CASE pc' = pc /\ In({"waiting"}) = {}
  <2>1. /\ In(Draining)' = In(Draining)
        /\ Cardinality(In(Idle))' = Cardinality(In(Idle))
        /\ Cardinality(In(Woken))' = Cardinality(In(Woken))
        /\ Cardinality(In(Counted))' = Cardinality(In(Counted))
    BY <1>7, Unmoved
  <2>2. In(Idle) = In(Woken)
    BY <1>7 DEF In, Idle
  <2> QED
    BY <1>2, <1>3, <1>4, <1>6, <1>7, <2>1, <2>2 DEF TypeOK, Phase
<1>8. ASSUME NEW w \in In({"waiting"}), pc' = [pc EXCEPT ![w] = "woken"]
      PROVE  /\ pc' \in [Threads -> PCs] /\ In(Draining)' = {}
             /\ Cardinality(In(Idle))' = Cardinality(In(Idle))
             /\ Cardinality(In(Counted))' = Cardinality(In(Counted))
             /\ num_notify + 1 <= Cardinality(In(Woken))'
  <2>1. w \in Threads /\ pc[w] = "waiting" /\ "woken" \in PCs
    BY DEF In, PCs, HoldsTx, Counted, Idle, Woken
  <2>2. /\ Delta(Idle, "waiting", "woken") = 0
        /\ Delta(Counted, "waiting", "woken") = 0
        /\ Delta(Woken, "waiting", "woken") = 1
        /\ "woken" \notin Draining
    BY DEF Delta, Idle, Counted, Woken, Draining
  <2>3. /\ Cardinality(In(Idle))' = Cardinality(In(Idle)) + Delta(Idle, pc[w], "woken")
        /\ Cardinality(In(Counted))' = Cardinality(In(Counted)) + Delta(Counted, pc[w], "woken")
        /\ Cardinality(In(Woken))' = Cardinality(In(Woken)) + Delta(Woken, pc[w], "woken")
    BY <1>2, <1>8, <2>1, MovedAll
  <2>4. In(Draining)' = In(Draining) \ {w}
    BY <1>2, <1>8, <2>1, <2>2 DEF In, TypeOK
  <2>5. pc' \in [Threads -> PCs]
    BY <1>2, <1>8, <2>1 DEF TypeOK
  <2> QED
    BY <1>2, <1>3, <1>4, <1>6, <2>1, <2>2, <2>3, <2>4, <2>5 DEF Phase, NoLostWakeup
<1> QED
  BY <1>1, <1>2, <1>7, <1>8, OneNotified

\* The branches that leave the task to the threads there are, or to none.
LEMMA PushOnlyStep ==
  ASSUME IInv, NEW k \in Tasks, NEW a \in {"ok", "no_threads"}, Push(k, a),
         num_idle_threads = 0, a = "ok" => num_threads > 0,
         UNCHANGED <<num_notify, worker_threads, num_threads, num_idle_threads, pc>>
  PROVE  IInv'
<1>1. TypeOK /\ Phase /\ IdleAccounting /\ NoLostWakeup /\ ThreadAccounting
      /\ NoStrandedTask
  BY DEF IInv
<1>2. /\ queue' \in Seq(Tasks)
      /\ status' \in [Tasks -> {"new", "queued", "running", "done", "cancelled"}]
      /\ reply' \in [Tasks -> {"none", "ok", "shutting_down", "no_threads"}]
      /\ ~shutdown /\ shutdown' = shutdown /\ shutdown_tx' = shutdown_tx
      /\ last_exiting_thread' = last_exiting_thread /\ task' = task
      /\ join_on_thread' = join_on_thread /\ owner' = owner /\ to_join' = to_join
  BY <1>1, PushTypes
<1>3. TypeOK'
  BY <1>1, <1>2 DEF TypeOK
<1>4. /\ In(Draining)' = In(Draining) /\ In(Busy)' = In(Busy)
      /\ Cardinality(In(Idle))' = Cardinality(In(Idle))
      /\ Cardinality(In(Woken))' = Cardinality(In(Woken))
      /\ Cardinality(In(Counted))' = Cardinality(In(Counted))
  BY Unmoved
<1>5. NoStrandedTask'
  <2>1. SUFFICES ASSUME AcceptedInQueue', num_notify = 0 PROVE In(Busy) # {}
    BY <1>1, <1>2, <1>4 DEF NoStrandedTask, TypeOK
  <2>2. CASE a = "ok"
    <3>1. In(Counted) # {}
      BY <1>1, <2>2, Counting DEF ThreadAccounting, TypeOK
    <3>2. In(Idle) = {}
      BY <1>1, <1>2, <2>1, Counting DEF IdleAccounting
    <3>3. In(Draining) = {}
      BY <1>1, <1>2 DEF Phase
    <3> QED
      BY <3>1, <3>2, <3>3 DEF In, Counted
  <2>3. CASE a = "no_threads"
    <3>1. PICK i \in DOMAIN queue' : reply'[queue'[i]] = "ok"
      BY <2>1 DEF AcceptedInQueue
    <3>2. queue' = Append(queue, k) /\ reply' = [reply EXCEPT ![k] = "no_threads"]
      BY <2>3 DEF Push
    <3>3. queue \in Seq(Tasks) /\ reply'[k] = "no_threads"
      BY <1>1, <3>2 DEF TypeOK
    <3>4. i \in DOMAIN queue /\ queue'[i] = queue[i] /\ queue[i] # k
      BY <3>1, <3>2, <3>3
    <3>5. AcceptedInQueue
      BY <1>1, <3>1, <3>2, <3>3, <3>4 DEF AcceptedInQueue, TypeOK
    <3> QED
      BY <1>1, <1>2, <2>1, <3>5 DEF NoStrandedTask
  <2> QED
    BY <2>2, <2>3
<1> QED
  BY <1>1, <1>2, <1>3, <1>4, <1>5
     DEF IInv, Phase, IdleAccounting, NoLostWakeup, ThreadAccounting

-----------------------------------------------------------------------------
\* TypeOK less the three counters, whose types follow from the accounting.
TypeData ==
  /\ queue \in Seq(Tasks)
  /\ shutdown \in BOOLEAN
  /\ shutdown_tx \in BOOLEAN
  /\ last_exiting_thread \in Threads \cup {NoThread}
  /\ worker_threads \subseteq Threads
  /\ task \in [Threads -> Tasks \cup {NoTask}]
  /\ join_on_thread \in [Threads -> Threads \cup {NoThread}]
  /\ status \in [Tasks -> {"new", "queued", "running", "done", "cancelled"}]
  /\ reply \in [Tasks -> {"none", "ok", "shutting_down", "no_threads"}]
  /\ owner \in {"using", "waiting", "joining", "gave_up", "returned"}
  /\ to_join \subseteq Threads

\* A step moves the thread t to v, and the counters follow the sets they count.
Follows(t, v) ==
  /\ pc' = [pc EXCEPT ![t] = v]
  /\ shutdown' = shutdown /\ shutdown_tx' = shutdown_tx
  /\ IF shutdown THEN v # "waiting" /\ num_idle_threads' >= num_idle_threads
                 ELSE /\ v \notin Draining
                      /\ num_idle_threads' + num_notify'
                           = num_idle_threads + num_notify + Delta(Idle, pc[t], v)
  /\ num_threads' = num_threads + Delta(Counted, pc[t], v)
  /\ num_threads' <= ThreadCap
  /\ num_notify' \in Nat /\ num_idle_threads' \in Int
  /\ num_notify' = 0 \/ num_notify' <= num_notify + Delta(Woken, pc[t], v)

\* The thread t, moving to v, leaves no task behind that only it would take.
LeavesNoTask(t, v) ==
  \/ queue' = <<>>
  \/ v \in Busy
  \/ shutdown /\ v \in Counted
  \/ /\ queue' = queue /\ reply' = reply /\ num_notify' = num_notify
     /\ pc[t] \notin Busy
     /\ shutdown /\ pc[t] \in Counted => v \in Counted

\* One thread goes from pc[t] to v: what the counters must do for the invariant
\* to hold again.
LEMMA ThreadMoveStep ==
  ASSUME IInv, NEW t \in Threads, NEW v \in PCs,
         TypeData', Follows(t, v), LeavesNoTask(t, v)
  PROVE  IInv'
<1> USE DEF Follows
<1>1. TypeOK /\ Phase /\ IdleAccounting /\ NoLostWakeup /\ ThreadAccounting
      /\ NoStrandedTask
  BY DEF IInv
<1>2. /\ pc' \in [Threads -> PCs]
      /\ Cardinality(In(Idle))' = Cardinality(In(Idle)) + Delta(Idle, pc[t], v)
      /\ Cardinality(In(Woken))' = Cardinality(In(Woken)) + Delta(Woken, pc[t], v)
      /\ Cardinality(In(Counted))'
           = Cardinality(In(Counted)) + Delta(Counted, pc[t], v)
      /\ \A u \in Threads : pc'[u] = IF u = t THEN v ELSE pc[u]
      /\ Cardinality(In(Idle)) \in Nat /\ Cardinality(In(Woken)) \in Nat
      /\ Cardinality(In(Counted)) \in Nat
      /\ Cardinality(In(Idle))' \in Nat /\ Cardinality(In(Woken))' \in Nat
      /\ Cardinality(In(Counted))' \in Nat
  BY <1>1, MovedAll
<1>3. /\ Delta(Idle, pc[t], v) \in Int /\ Delta(Woken, pc[t], v) \in Int
      /\ Delta(Counted, pc[t], v) \in Int
  BY DEF Delta
<1>4. ThreadAccounting' /\ num_threads' \in Nat
  BY <1>1, <1>2 DEF ThreadAccounting
<1>5. NoLostWakeup'
  <2>1. num_notify \in Nat /\ num_notify <= Cardinality(In(Woken))
    BY <1>1 DEF NoLostWakeup, TypeOK
  <2>2. num_notify' = 0 \/ num_notify' <= Cardinality(In(Woken)) + Delta(Woken, pc[t], v)
    BY <1>2, <1>3, <2>1
  <2> QED
    BY <1>2, <2>2 DEF NoLostWakeup
<1>6. IdleAccounting'
  BY <1>1, <1>2, <1>3 DEF IdleAccounting, TypeOK
<1>7. num_idle_threads' \in Nat
  <2>1. Cardinality(In(Woken))' <= Cardinality(In(Idle))'
    <3>1. In(Woken)' \subseteq In(Idle)'
      BY DEF In, Idle
    <3>2. IsFiniteSet(In(Idle)')
      <4>1. In(Idle)' \subseteq Threads
        BY DEF In
      <4> QED
        BY <4>1, ThreadsAssumption, FS_Subset
    <3> QED
      BY <3>1, <3>2, FS_Subset
  <2> QED
    BY <1>1, <1>2, <1>5, <1>6, <2>1 DEF NoLostWakeup, IdleAccounting, TypeOK
<1>8. TypeOK'
  BY <1>2, <1>4, <1>7 DEF TypeOK, TypeData
<1>9. Phase'
  BY <1>1, <1>2 DEF Phase, In
<1>10. NoStrandedTask'
  <2>1. CASE queue' = <<>>
    BY <2>1 DEF NoStrandedTask, AcceptedInQueue
  <2>2. CASE v \in Busy
    BY <1>2, <2>2 DEF NoStrandedTask, In, Counted
  <2>3. CASE shutdown /\ v \in Counted
    BY <1>2, <2>3 DEF NoStrandedTask, In
  <2>4. CASE /\ queue' = queue /\ reply' = reply /\ num_notify' = num_notify
             /\ pc[t] \notin Busy
             /\ shutdown /\ pc[t] \in Counted => v \in Counted
    <3>1. AcceptedInQueue' = AcceptedInQueue
      BY <2>4 DEF AcceptedInQueue
    <3>2. In(Busy) # {} => In(Busy)' # {}
      BY <1>2, <2>4 DEF In
    <3>3. shutdown /\ In(Counted) # {} => In(Counted)' # {}
      BY <1>2, <2>4 DEF In
    <3> QED
      BY <1>1, <2>4, <3>1, <3>2, <3>3 DEF NoStrandedTask
  <2> QED
    BY <2>1, <2>2, <2>3, <2>4 DEF LeavesNoTask
<1> QED
  BY <1>4, <1>5, <1>6, <1>8, <1>9, <1>10 DEF IInv

-----------------------------------------------------------------------------
\* What the states of a thread are in the sets that are counted.
LEMMA States ==
  /\ Busy = {"starting", "running", "finished"}
  /\ Idle = {"waiting", "woken", "timedout"}
  /\ Woken = {"woken", "timedout"}
  /\ Draining = {"draining", "drained"}
  /\ Counted = {"starting", "running", "finished", "waiting", "woken", "timedout",
                "draining", "drained"}
  /\ PCs = {"unborn", "starting", "running", "finished", "waiting", "woken",
            "timedout", "draining", "drained", "stopping", "dropped", "exited"}
BY DEF Busy, Idle, Woken, Draining, Counted, PCs, HoldsTx

\* A call of spawn_task that makes a thread keeps the invariant: it is counted
\* before it runs, below the cap.
LEMMA SpawnThreadStep ==
  ASSUME IInv, NEW k \in Tasks, NEW t \in Threads, SpawnThread(k, t)
  PROVE  IInv'
<1>1. TypeOK /\ ThreadAccounting
  BY DEF IInv
<1>2. /\ Push(k, "ok") /\ pc[t] = "unborn" /\ pc' = [pc EXCEPT ![t] = "starting"]
      /\ num_threads' = num_threads + 1 /\ num_threads # ThreadCap
      /\ num_notify' = num_notify /\ num_idle_threads' = num_idle_threads
      /\ worker_threads' = worker_threads \cup {t}
  BY DEF SpawnThread
<1>3. /\ queue' \in Seq(Tasks)
      /\ status' \in [Tasks -> {"new", "queued", "running", "done", "cancelled"}]
      /\ reply' \in [Tasks -> {"none", "ok", "shutting_down", "no_threads"}]
      /\ ~shutdown /\ shutdown' = shutdown /\ shutdown_tx' = shutdown_tx
      /\ last_exiting_thread' = last_exiting_thread /\ task' = task
      /\ join_on_thread' = join_on_thread /\ owner' = owner /\ to_join' = to_join
  BY <1>1, <1>2, PushTypes
<1>4. TypeData'
  BY <1>1, <1>2, <1>3 DEF TypeOK, TypeData
<1>5. /\ Delta(Counted, "unborn", "starting") = 1
      /\ Delta(Idle, "unborn", "starting") = 0
      /\ Delta(Woken, "unborn", "starting") = 0
      /\ "starting" \in PCs /\ "starting" \in Busy /\ "starting" \notin Draining
  BY States DEF Delta
<1>6. /\ num_notify \in Nat /\ num_idle_threads \in Nat /\ num_threads \in Nat
      /\ num_threads < ThreadCap
  BY <1>1, <1>2, ThreadCapAssumption DEF TypeOK, ThreadAccounting
<1>7. Follows(t, "starting")
  BY <1>2, <1>3, <1>5, <1>6, ThreadCapAssumption DEF Follows
<1>8. LeavesNoTask(t, "starting")
  BY <1>5 DEF LeavesNoTask
<1> QED
  BY <1>4, <1>5, <1>7, <1>8, ThreadMoveStep

-----------------------------------------------------------------------------
\* The steps of a thread.

\* Popping the queue keeps its elements tasks.
LEMMA PopTypes ==
  ASSUME TypeOK, queue # <<>>
  PROVE  Head(queue) \in Tasks /\ Tail(queue) \in Seq(Tasks)
BY DEF TypeOK

\* Nobody sleeps during a shutdown, so the notify_one of the last thread
\* reaches no one and leaving is a move of one thread.
LEMMA ExitMoves ==
  ASSUME IInv, NEW t \in Threads, NEW idle, Exit(t, idle)
  PROVE  pc' = [pc EXCEPT ![t] = "stopping"]
<1>1. CASE ~shutdown
  BY <1>1 DEF Exit
<1>2. CASE shutdown
  <2> DEFINE left == [pc EXCEPT ![t] = "stopping"]
  <2>1. \A u \in Threads : left[u] # "waiting"
    BY <1>2 DEF IInv, TypeOK, Phase, In
  <2>2. NotifyOne(left) = {left}
    BY <2>1 DEF NotifyOne
  <2> QED
    BY <1>2, <2>2 DEF Exit
<1> QED
  BY <1>1, <1>2

\* The shutdown branch, entered by a thread counted idle at least once more
\* than it was, or whose wakeup has just been acknowledged.
LEMMA ShutdownBranchStep ==
  ASSUME IInv, NEW t \in Threads, NEW idle \in Int, ShutdownBranch(t, idle),
         shutdown, pc[t] \in Counted, idle >= num_idle_threads,
         num_notify' \in Nat,
         num_notify' = 0 \/ num_notify' <= num_notify + Delta(Woken, pc[t], "drained"),
         UNCHANGED <<shutdown, shutdown_tx, last_exiting_thread, worker_threads,
                     join_on_thread, reply, owner, to_join>>
  PROVE  IInv'
<1>1. TypeOK /\ ThreadAccounting
  BY DEF IInv
<1>2. /\ num_threads \in Nat /\ num_threads <= ThreadCap /\ num_idle_threads \in Nat
  BY <1>1 DEF TypeOK, ThreadAccounting
<1>3. \A v \in PCs \ Woken : Delta(Woken, pc[t], v) = Delta(Woken, pc[t], "drained")
  BY States DEF Delta
<1>4. CASE DrainTask(t, idle)
  <2>1. queue # <<>> /\ queue' = Tail(queue) /\ num_idle_threads' = idle
        /\ num_threads' = num_threads
    BY <1>4 DEF DrainTask
  <2>2. Head(queue) \in Tasks /\ Tail(queue) \in Seq(Tasks)
    BY <1>1, <2>1, PopTypes
  <2>3. TypeData'
    BY <1>1, <1>4, <2>1, <2>2 DEF TypeOK, TypeData, DrainTask
  <2>4. PICK v \in Draining : pc' = [pc EXCEPT ![t] = v]
    BY <1>4 DEF DrainTask, Draining
  <2>5. /\ v \in PCs \ Woken /\ v \in Counted /\ v # "waiting"
        /\ Delta(Counted, pc[t], v) = 0
    BY <2>4, States DEF Delta
  <2>6. Follows(t, v)
    BY <1>2, <1>3, <2>1, <2>4, <2>5 DEF Follows
  <2>7. LeavesNoTask(t, v)
    BY <2>5 DEF LeavesNoTask
  <2> QED
    BY <2>3, <2>5, <2>6, <2>7, ThreadMoveStep
<1>5. CASE queue = <<>> /\ Exit(t, idle + 1)
  <2>1. /\ num_threads' = num_threads - 1 /\ num_idle_threads' = idle
        /\ queue' = <<>> /\ task' = task /\ status' = status
    BY <1>5 DEF Exit
  <2>2. pc' = [pc EXCEPT ![t] = "stopping"]
    BY <1>5, ExitMoves
  <2>3. TypeData'
    BY <1>1, <2>1 DEF TypeOK, TypeData
  <2>4. "stopping" \in PCs \ Woken /\ Delta(Counted, pc[t], "stopping") = -1
    BY States DEF Delta
  <2>5. Follows(t, "stopping")
    BY <1>2, <1>3, <2>1, <2>2, <2>4, ThreadCapAssumption DEF Follows
  <2>6. LeavesNoTask(t, "stopping")
    BY <2>1 DEF LeavesNoTask
  <2> QED
    BY <2>3, <2>4, <2>5, <2>6, ThreadMoveStep
<1> QED
  BY <1>4, <1>5 DEF ShutdownBranch

\* The BUSY loop keeps the invariant: the thread takes a task, sleeps counted
\* idle, or drains.
LEMMA BusyLoopStep ==
  ASSUME IInv, NEW t \in Threads, BusyLoop(t)
  PROVE  IInv'
<1>1. TypeOK /\ ThreadAccounting
  BY DEF IInv
<1>2. /\ num_threads \in Nat /\ num_threads <= ThreadCap
      /\ num_idle_threads \in Nat /\ num_notify \in Nat
  BY <1>1 DEF TypeOK, ThreadAccounting
<1>3. /\ pc[t] \in {"starting", "finished"} /\ num_notify' = num_notify
      /\ UNCHANGED <<shutdown, shutdown_tx, last_exiting_thread, worker_threads,
                     join_on_thread, reply, owner, to_join>>
  BY DEF BusyLoop
<1>4. CASE PopAndRun(t) /\ UNCHANGED <<num_threads, num_idle_threads>>
  <2>1. Head(queue) \in Tasks /\ Tail(queue) \in Seq(Tasks)
    BY <1>1, <1>4, PopTypes DEF PopAndRun
  <2>2. TypeData'
    BY <1>1, <1>3, <1>4, <2>1 DEF TypeOK, TypeData, PopAndRun
  <2>3. /\ "running" \in PCs /\ "running" \in Busy /\ "running" \notin Draining
        /\ Delta(Counted, pc[t], "running") = 0 /\ Delta(Idle, pc[t], "running") = 0
        /\ Delta(Woken, pc[t], "running") = 0
    BY <1>3, States DEF Delta
  <2>4. Follows(t, "running")
    BY <1>2, <1>3, <1>4, <2>3 DEF Follows, PopAndRun
  <2>5. LeavesNoTask(t, "running")
    BY <2>3 DEF LeavesNoTask
  <2> QED
    BY <2>2, <2>3, <2>4, <2>5, ThreadMoveStep
<1>5. CASE ~shutdown /\ Sleep(t) /\ UNCHANGED num_threads
  <2>1. TypeData'
    BY <1>1, <1>3, <1>5 DEF TypeOK, TypeData, Sleep
  <2>2. /\ "waiting" \in PCs /\ "waiting" \notin Draining
        /\ Delta(Counted, pc[t], "waiting") = 0 /\ Delta(Idle, pc[t], "waiting") = 1
        /\ Delta(Woken, pc[t], "waiting") = 0
    BY <1>3, States DEF Delta
  <2>3. Follows(t, "waiting")
    BY <1>2, <1>3, <1>5, <2>2 DEF Follows, Sleep
  <2>4. LeavesNoTask(t, "waiting")
    BY <1>5 DEF LeavesNoTask, Sleep
  <2> QED
    BY <2>1, <2>2, <2>3, <2>4, ThreadMoveStep
<1>6. CASE shutdown /\ queue = <<>> /\ ShutdownBranch(t, num_idle_threads + 1)
  <2>1. pc[t] \in Counted /\ Delta(Woken, pc[t], "drained") = 0
    BY <1>3, States DEF Delta
  <2> QED
    BY <1>2, <1>3, <1>6, <2>1, ShutdownBranchStep
<1> QED
  BY <1>4, <1>5, <1>6 DEF BusyLoop

\* A wakeup that finds a notification keeps the invariant: one notification and
\* one woken thread are spent together.
LEMMA WakeNotifiedStep ==
  ASSUME IInv, NEW t \in Threads, WakeNotified(t)
  PROVE  IInv'
<1>1. TypeOK /\ ThreadAccounting
  BY DEF IInv
<1>2. /\ num_threads \in Nat /\ num_threads <= ThreadCap
      /\ num_idle_threads \in Nat /\ num_notify \in Nat
  BY <1>1 DEF TypeOK, ThreadAccounting
<1>3. /\ pc[t] \in Woken /\ num_notify # 0 /\ num_notify' = num_notify - 1
      /\ UNCHANGED <<shutdown, shutdown_tx, last_exiting_thread, worker_threads,
                     join_on_thread, reply, owner, to_join>>
  BY DEF WakeNotified
<1>4. CASE ~shutdown /\ UNCHANGED num_threads /\ PopAndRun(t) /\ UNCHANGED num_idle_threads
  <2>1. Head(queue) \in Tasks /\ Tail(queue) \in Seq(Tasks)
    BY <1>1, <1>4, PopTypes DEF PopAndRun
  <2>2. TypeData'
    BY <1>1, <1>3, <1>4, <2>1 DEF TypeOK, TypeData, PopAndRun
  <2>3. /\ "running" \in PCs /\ "running" \in Busy /\ "running" \notin Draining
        /\ Delta(Counted, pc[t], "running") = 0 /\ Delta(Idle, pc[t], "running") = -1
        /\ Delta(Woken, pc[t], "running") = -1
    BY <1>3, States DEF Delta
  <2>4. Follows(t, "running")
    BY <1>2, <1>3, <1>4, <2>3 DEF Follows, PopAndRun
  <2>5. LeavesNoTask(t, "running")
    BY <2>3 DEF LeavesNoTask
  <2> QED
    BY <2>2, <2>3, <2>4, <2>5, ThreadMoveStep
<1>5. CASE ~shutdown /\ UNCHANGED num_threads /\ Sleep(t)
  <2>1. TypeData'
    BY <1>1, <1>3, <1>5 DEF TypeOK, TypeData, Sleep
  <2>2. /\ "waiting" \in PCs /\ "waiting" \notin Draining
        /\ Delta(Counted, pc[t], "waiting") = 0 /\ Delta(Idle, pc[t], "waiting") = 0
        /\ Delta(Woken, pc[t], "waiting") = -1
    BY <1>3, States DEF Delta
  <2>3. Follows(t, "waiting")
    BY <1>2, <1>3, <1>5, <2>2 DEF Follows, Sleep
  <2>4. LeavesNoTask(t, "waiting")
    BY <1>5 DEF LeavesNoTask, Sleep
  <2> QED
    BY <2>1, <2>2, <2>3, <2>4, ThreadMoveStep
<1>6. CASE shutdown /\ ShutdownBranch(t, num_idle_threads)
  <2>1. pc[t] \in Counted /\ Delta(Woken, pc[t], "drained") = -1
    BY <1>3, States DEF Delta
  <2>2. num_notify' \in Nat /\ num_notify' <= num_notify + Delta(Woken, pc[t], "drained")
    BY <1>2, <1>3, <2>1
  <2> QED
    BY <1>2, <1>3, <1>6, <2>1, <2>2, ShutdownBranchStep
<1> QED
  BY <1>4, <1>5, <1>6 DEF WakeNotified

\* A thread that times out without a notification leaves uncounted.
LEMMA WakeTimedOutStep ==
  ASSUME IInv, NEW t \in Threads, WakeTimedOut(t)
  PROVE  IInv'
<1>1. TypeOK /\ ThreadAccounting
  BY DEF IInv
<1>2. /\ num_threads \in Nat /\ num_threads <= ThreadCap
      /\ num_idle_threads \in Nat /\ num_notify \in Nat
  BY <1>1 DEF TypeOK, ThreadAccounting
<1>3. /\ pc[t] = "timedout" /\ num_notify = 0 /\ ~shutdown
      /\ worker_threads' = worker_threads \ {t}
      /\ last_exiting_thread' \in Threads \cup {NoThread}
      /\ join_on_thread' = [join_on_thread EXCEPT ![t] = last_exiting_thread]
      /\ Exit(t, num_idle_threads)
      /\ UNCHANGED <<num_notify, shutdown, shutdown_tx, reply, owner, to_join>>
  BY DEF WakeTimedOut
<1>4. /\ num_threads' = num_threads - 1 /\ num_idle_threads' = num_idle_threads - 1
      /\ queue' = queue /\ task' = task /\ status' = status
  BY <1>3 DEF Exit
<1>5. pc' = [pc EXCEPT ![t] = "stopping"]
  BY <1>3, ExitMoves
<1>6. TypeData'
  BY <1>1, <1>3, <1>4 DEF TypeOK, TypeData
<1>7. /\ "stopping" \in PCs \ Draining /\ Delta(Counted, pc[t], "stopping") = -1
      /\ Delta(Idle, pc[t], "stopping") = -1 /\ Delta(Woken, pc[t], "stopping") = -1
      /\ pc[t] \notin Busy
  BY <1>3, States DEF Delta
<1>8. Follows(t, "stopping")
  BY <1>2, <1>3, <1>4, <1>5, <1>7, ThreadCapAssumption DEF Follows
<1>9. LeavesNoTask(t, "stopping")
  BY <1>3, <1>4, <1>7 DEF LeavesNoTask
<1> QED
  BY <1>6, <1>7, <1>8, <1>9, ThreadMoveStep

\* A wakeup in a pool that is shut down goes to the drain loop.
LEMMA WakeShutdownStep ==
  ASSUME IInv, NEW t \in Threads, WakeShutdown(t)
  PROVE  IInv'
<1>1. num_idle_threads \in Nat
  BY DEF IInv, TypeOK
<1>2. /\ pc[t] \in Woken /\ num_notify' = 0 /\ shutdown
      /\ ShutdownBranch(t, num_idle_threads)
      /\ UNCHANGED <<shutdown, shutdown_tx, last_exiting_thread, worker_threads,
                     join_on_thread, reply, owner, to_join>>
  BY DEF WakeShutdown
<1>3. pc[t] \in Counted
  BY <1>2, States
<1> QED
  BY <1>1, <1>2, <1>3, ShutdownBranchStep

\* The drain loop keeps the invariant.
LEMMA DrainLoopStep ==
  ASSUME IInv, NEW t \in Threads, DrainLoop(t)
  PROVE  IInv'
<1>1. num_idle_threads \in Nat /\ num_notify \in Nat /\ Phase /\ TypeOK
  BY DEF IInv, TypeOK
<1>2. /\ pc[t] = "drained" /\ num_notify' = num_notify
      /\ ShutdownBranch(t, num_idle_threads)
      /\ UNCHANGED <<shutdown, shutdown_tx, last_exiting_thread, worker_threads,
                     join_on_thread, reply, owner, to_join>>
  BY DEF DrainLoop
<1>3. /\ pc[t] \in Counted /\ Delta(Woken, pc[t], "drained") = 0
  BY <1>2, States DEF Delta
<1>4. shutdown
  BY <1>1, <1>2, States DEF Phase, In, TypeOK
<1> QED
  BY <1>1, <1>2, <1>3, <1>4, ShutdownBranchStep

\* The steps that touch no counter: the end of a task, the wait left or
\* entered again, the end of a thread.
LEMMA QuietStep ==
  ASSUME IInv, NEW t \in Threads,
         FinishTask(t) \/ WakeSpurious(t) \/ LeaveWait(t) \/ DropTx(t) \/ EndThread(t)
  PROVE  IInv'
<1>1. TypeOK /\ ThreadAccounting /\ Phase
  BY DEF IInv
<1>2. /\ num_threads \in Nat /\ num_threads <= ThreadCap
      /\ num_idle_threads \in Nat /\ num_notify \in Nat
  BY <1>1 DEF TypeOK, ThreadAccounting
<1>3. UNCHANGED shared /\ UNCHANGED <<join_on_thread, reply, owner, to_join>>
  BY DEF FinishTask, WakeSpurious, LeaveWait, DropTx, EndThread
<1>4. /\ queue' = queue /\ num_notify' = num_notify /\ shutdown' = shutdown
      /\ shutdown_tx' = shutdown_tx /\ last_exiting_thread' = last_exiting_thread
      /\ worker_threads' = worker_threads /\ num_threads' = num_threads
      /\ num_idle_threads' = num_idle_threads
  BY <1>3 DEF shared
<1>5. TypeData'
  <2>1. status' \in [Tasks -> {"new", "queued", "running", "done", "cancelled"}]
    BY <1>1 DEF FinishTask, WakeSpurious, LeaveWait, DropTx, EndThread, TypeOK
  <2>2. task' \in [Threads -> Tasks \cup {NoTask}]
    BY <1>1 DEF FinishTask, WakeSpurious, LeaveWait, DropTx, EndThread, TypeOK
  <2> QED
    BY <1>1, <1>3, <1>4, <2>1, <2>2 DEF TypeOK, TypeData
<1>6. CASE FinishTask(t)
  <2>1. CASE pc[t] = "running"
    <3>1. pc' = [pc EXCEPT ![t] = "finished"]
      BY <1>6, <2>1 DEF FinishTask
    <3>2. /\ "finished" \in PCs \ Draining /\ "finished" \in Busy
          /\ Delta(Counted, pc[t], "finished") = 0 /\ Delta(Idle, pc[t], "finished") = 0
          /\ Delta(Woken, pc[t], "finished") = 0
      BY <2>1, States DEF Delta
    <3>3. Follows(t, "finished") /\ LeavesNoTask(t, "finished")
      BY <1>2, <1>4, <3>1, <3>2 DEF Follows, LeavesNoTask
    <3> QED
      BY <1>5, <3>2, <3>3, ThreadMoveStep
  <2>2. CASE pc[t] = "draining"
    <3>1. pc' = [pc EXCEPT ![t] = "drained"] /\ shutdown
      BY <1>1, <1>6, <2>2, States DEF FinishTask, Phase, In
    <3>2. /\ "drained" \in PCs /\ "drained" \in Counted
          /\ Delta(Counted, pc[t], "drained") = 0
          /\ Delta(Woken, pc[t], "drained") = 0
      BY <2>2, States DEF Delta
    <3>3. Follows(t, "drained") /\ LeavesNoTask(t, "drained")
      BY <1>2, <1>4, <3>1, <3>2 DEF Follows, LeavesNoTask
    <3> QED
      BY <1>5, <3>2, <3>3, ThreadMoveStep
  <2> QED
    BY <1>6, <2>1, <2>2 DEF FinishTask
<1>7. CASE WakeSpurious(t)
  <2>1. /\ pc[t] = "woken" /\ num_notify = 0 /\ ~shutdown
        /\ pc' = [pc EXCEPT ![t] = "waiting"]
    BY <1>7 DEF WakeSpurious
  <2>2. /\ "waiting" \in PCs \ Draining /\ pc[t] \notin Busy
        /\ Delta(Counted, pc[t], "waiting") = 0 /\ Delta(Idle, pc[t], "waiting") = 0
    BY <2>1, States DEF Delta
  <2>3. Follows(t, "waiting") /\ LeavesNoTask(t, "waiting")
    BY <1>2, <1>3, <1>4, <2>1, <2>2 DEF Follows, LeavesNoTask
  <2> QED
    BY <1>5, <2>2, <2>3, ThreadMoveStep
<1>8. CASE LeaveWait(t)
  <2>1. PICK v \in Woken : pc' = [pc EXCEPT ![t] = v]
    BY <1>8 DEF LeaveWait
  <2>2. /\ pc[t] = "waiting" /\ ~shutdown
    BY <1>1, <1>8 DEF LeaveWait, Phase, In
  <2>3. /\ v \in PCs \ Draining /\ pc[t] \notin Busy
        /\ Delta(Counted, pc[t], v) = 0 /\ Delta(Idle, pc[t], v) = 0
        /\ Delta(Woken, pc[t], v) = 1
    BY <2>1, <2>2, States DEF Delta
  <2>4. Follows(t, v) /\ LeavesNoTask(t, v)
    BY <1>2, <1>3, <1>4, <2>1, <2>2, <2>3 DEF Follows, LeavesNoTask
  <2> QED
    BY <1>5, <2>3, <2>4, ThreadMoveStep
<1>9. CASE DropTx(t) \/ EndThread(t)
  <2>1. PICK v \in {"dropped", "exited"} : pc' = [pc EXCEPT ![t] = v]
    BY <1>9 DEF DropTx, EndThread
  <2>2. pc[t] \in {"stopping", "dropped"}
    BY <1>9 DEF DropTx, EndThread
  <2>3. /\ v \in PCs \ Draining /\ pc[t] \notin Busy /\ pc[t] \notin Counted
        /\ v # "waiting"
        /\ Delta(Counted, pc[t], v) = 0 /\ Delta(Idle, pc[t], v) = 0
        /\ Delta(Woken, pc[t], v) = 0
    BY <2>1, <2>2, States DEF Delta
  <2>4. Follows(t, v) /\ LeavesNoTask(t, v)
    BY <1>2, <1>3, <1>4, <2>1, <2>3 DEF Follows, LeavesNoTask
  <2> QED
    BY <1>5, <2>3, <2>4, ThreadMoveStep
<1> QED
  BY <1>6, <1>7, <1>8, <1>9

-----------------------------------------------------------------------------
\* The owner's steps: the shutdown wakes all sleepers, the others move no
\* thread.
LEMMA ShutdownStep ==
  ASSUME IInv, Shutdown
  PROVE  IInv'
<1>1. TypeOK /\ Phase /\ IdleAccounting /\ NoLostWakeup /\ ThreadAccounting
      /\ NoStrandedTask
  BY DEF IInv
<1>2. /\ ~shutdown /\ shutdown' = TRUE /\ shutdown_tx' = FALSE /\ pc' = NotifyAll(pc)
      /\ queue' = queue /\ num_notify' = num_notify /\ num_threads' = num_threads
      /\ num_idle_threads' = num_idle_threads /\ reply' = reply
  BY DEF Shutdown
<1>3. TypeOK'
  <2>1. pc' \in [Threads -> PCs]
    BY <1>1, <1>2, States DEF TypeOK, NotifyAll
  <2>2. to_join' \subseteq Threads
    BY <1>1 DEF Shutdown, TypeOK
  <2> QED
    BY <1>1, <1>2, <2>1, <2>2 DEF TypeOK, Shutdown
<1>4. \A t \in Threads : pc'[t] = IF pc[t] = "waiting" THEN "woken" ELSE pc[t]
  BY <1>2 DEF NotifyAll
<1>5. /\ In({"waiting"})' = {} /\ In(Counted)' = In(Counted)
      /\ In(Woken) \subseteq In(Woken)' /\ In(Busy)' = In(Busy)
  BY <1>4, States DEF In
<1>6. Cardinality(In(Woken)) <= Cardinality(In(Woken)')
  <2>1. In(Woken)' \subseteq Threads
    BY DEF In
  <2> QED
    BY <1>5, <2>1, ThreadsAssumption, FS_Subset
<1>7. NoLostWakeup'
  <2>1. In(Woken)' \subseteq Threads
    BY DEF In
  <2>2. Cardinality(In(Woken)) \in Nat /\ Cardinality(In(Woken)') \in Nat
    BY <2>1, Counting, ThreadsAssumption, FS_Subset, FS_CardinalityType
  <2> QED
    BY <1>1, <1>2, <1>6, <2>2 DEF NoLostWakeup, TypeOK
<1>8. NoStrandedTask'
  <2>1. AcceptedInQueue' = AcceptedInQueue
    BY <1>2 DEF AcceptedInQueue
  <2>2. In(Busy) # {} => In(Counted) # {}
    BY States DEF In
  <2>3. num_notify > 0 => In(Counted) # {}
    <3>1. num_notify > 0 => In(Woken) # {}
      BY <1>1, Counting DEF NoLostWakeup, TypeOK
    <3> QED
      BY <3>1, States DEF In
  <2> QED
    BY <1>1, <1>2, <1>5, <2>1, <2>2, <2>3 DEF NoStrandedTask
<1> QED
  BY <1>1, <1>2, <1>3, <1>5, <1>7, <1>8 DEF IInv, Phase, IdleAccounting, ThreadAccounting

\* The steps of the pool's owner keep the invariant.
LEMMA OwnerStep ==
  ASSUME IInv, AllSendersDropped \/ WaitTimesOut \/ JoinAll \/ UNCHANGED vars
  PROVE  IInv'
<1>1. UNCHANGED shared /\ pc' = pc /\ UNCHANGED <<task, join_on_thread, status, reply>>
  BY DEF AllSendersDropped, WaitTimesOut, JoinAll, vars
<1>2. TypeOK'
  BY <1>1 DEF IInv, TypeOK, shared, AllSendersDropped, WaitTimesOut, JoinAll, vars
<1>3. /\ In({"waiting"})' = In({"waiting"}) /\ In(Draining)' = In(Draining)
      /\ In(Busy)' = In(Busy) /\ In(Counted)' = In(Counted)
      /\ Cardinality(In(Idle))' = Cardinality(In(Idle))
      /\ Cardinality(In(Woken))' = Cardinality(In(Woken))
      /\ Cardinality(In(Counted))' = Cardinality(In(Counted))
  BY <1>1, Unmoved
<1>4. AcceptedInQueue' = AcceptedInQueue
  BY <1>1 DEF AcceptedInQueue, shared
<1> QED
  BY <1>1, <1>2, <1>3, <1>4
     DEF IInv, Phase, IdleAccounting, NoLostWakeup, ThreadAccounting,
         NoStrandedTask, shared

-----------------------------------------------------------------------------
\* The invariant holds in a pool without threads and tasks.
LEMMA InitIInv == Init => IInv
<1> SUFFICES ASSUME Init PROVE IInv
  OBVIOUS
<1>1. TypeOK
  <2>1. queue \in Seq(Tasks) /\ pc \in [Threads -> PCs]
    BY States DEF Init
  <2>2. /\ task \in [Threads -> Tasks \cup {NoTask}]
        /\ join_on_thread \in [Threads -> Threads \cup {NoThread}]
    BY DEF Init
  <2>3. /\ status \in [Tasks -> {"new", "queued", "running", "done", "cancelled"}]
        /\ reply \in [Tasks -> {"none", "ok", "shutting_down", "no_threads"}]
    BY DEF Init
  <2> QED
    BY <2>1, <2>2, <2>3 DEF Init, TypeOK
<1>2. \A S : "unborn" \notin S => In(S) = {}
  BY DEF Init, In
<1>3. In({"waiting"}) = {} /\ In(Draining) = {} /\ In(Idle) = {} /\ In(Woken) = {}
      /\ In(Counted) = {}
  BY <1>2, States
<1>4. Cardinality({}) = 0
  BY FS_EmptySet
<1> QED
  BY <1>1, <1>3, <1>4, ThreadCapAssumption
     DEF Init, IInv, Phase, IdleAccounting, NoLostWakeup, ThreadAccounting,
         NoStrandedTask, AcceptedInQueue

\* Every step keeps the invariant.
LEMMA NextIInv == IInv /\ [Next]_vars => IInv'
<1> SUFFICES ASSUME IInv, [Next]_vars PROVE IInv'
  OBVIOUS
<1>1. ASSUME NEW k \in Tasks, Spawn(k) PROVE IInv'
  <2>1. CASE SpawnAtCap(k)
    <3>1. num_threads > 0
      BY <2>1, ThreadCapAssumption DEF SpawnAtCap
    <3> QED
      BY <2>1, <3>1, PushOnlyStep DEF SpawnAtCap
  <2>2. CASE SpawnFails(k)
    BY <2>2, PushOnlyStep DEF SpawnFails
  <2> QED
    BY <1>1, <2>1, <2>2, SpawnShuttingDownStep, SpawnNotifyStep, SpawnThreadStep
       DEF Spawn
<1>2. ASSUME NEW t \in Threads, ThreadStep(t) \/ LeaveWait(t) PROVE IInv'
  BY <1>2, BusyLoopStep, WakeNotifiedStep, WakeTimedOutStep, WakeShutdownStep,
     DrainLoopStep, QuietStep DEF ThreadStep
<1> QED
  BY <1>1, <1>2, ShutdownStep, OwnerStep DEF Next

\* The invariant holds in every reachable state.
THEOREM Invariant == Spec => []IInv
BY InitIInv, NextIInv, PTL DEF Spec

\* Type correctness: in particular num_threads and num_idle_threads never
\* wrap below zero, so the assertion of pool.rs:578 never fails.
THEOREM TypeCorrect == Spec => []TypeOK
<1>1. IInv => TypeOK
  BY DEF IInv
<1> QED
  BY <1>1, Invariant, PTL

\* Before a shutdown num_idle_threads is the number of threads in the wait
\* less the wakeups promised, whatever the interleaving of spawners, wakeups
\* and timeouts.
THEOREM IdleCounted == Spec => []IdleAccounting
<1>1. IInv => IdleAccounting
  BY DEF IInv
<1> QED
  BY <1>1, Invariant, PTL

\* A notification is never lost.
THEOREM WakeupsKept == Spec => []NoLostWakeup
<1>1. IInv => NoLostWakeup
  BY DEF IInv
<1> QED
  BY <1>1, Invariant, PTL

\* The pool never has more threads than the cap, and knows how many.
THEOREM CapKept == Spec => []ThreadAccounting
<1>1. IInv => ThreadAccounting
  BY DEF IInv
<1> QED
  BY <1>1, Invariant, PTL

\* An accepted task in the queue always has a thread that will come for it.
THEOREM NothingStranded == Spec => []NoStrandedTask
<1>1. IInv => NoStrandedTask
  BY DEF IInv
<1> QED
  BY <1>1, Invariant, PTL

-----------------------------------------------------------------------------
(* Where the tasks and the join handles are. *)

\* The states in which a thread runs a task.
AtTask == {"running", "draining"}

\* Where a task is: in the queue once and "queued", or at the one thread that
\* runs it and "running"; and only a task that was handed over has a reply.
TaskInv ==
  /\ \A i, j \in DOMAIN queue : queue[i] = queue[j] => i = j
  /\ \A i \in DOMAIN queue : status[queue[i]] = "queued"
  /\ \A k \in Tasks : status[k] = "queued" => \E i \in DOMAIN queue : queue[i] = k
  /\ \A t \in Threads : IF pc[t] \in AtTask
                          THEN task[t] \in Tasks /\ status[task[t]] = "running"
                          ELSE task[t] = NoTask
  /\ \A t, u \in Threads : task[t] = task[u] /\ task[t] # NoTask => t = u
  /\ \A k \in Tasks : status[k] = "running" => \E t \in Threads : task[t] = k
  /\ \A k \in Tasks : reply[k] = "ok" => status[k] # "new"

\* Who will join the thread t: the owner of the runtime, through the map, the
\* last exiting thread or its own frame, or a thread that is leaving.
Joined(t) ==
  \/ t \in worker_threads \cup to_join
  \/ t = last_exiting_thread
  \/ \E u \in Threads : join_on_thread[u] = t /\ pc[u] = "stopping"

\* The threads the owner of the runtime has to wait for, and those it no
\* longer has to.
JoinInv ==
  /\ shutdown <=> owner # "using"
  /\ IF shutdown THEN worker_threads = {} /\ last_exiting_thread = NoThread
                 ELSE In(Counted) \subseteq worker_threads /\ to_join = {}
  /\ owner # "gave_up" => \A t \in Threads :
       pc[t] \in {"unborn", "exited"} \/ Joined(t)
  /\ owner \in {"joining", "returned"} => In(HoldsTx) = {}
  /\ owner = "returned" => \A t \in Threads : pc[t] \in {"unborn", "exited"}

-----------------------------------------------------------------------------
(***************************************************************************)
(* What a step of the pool is for the tasks, whoever takes it.             *)
(***************************************************************************)
\* No thread begins or ends a task.
SameRunners == \A u \in Threads : pc'[u] \in AtTask <=> pc[u] \in AtTask

Rests ==
  /\ UNCHANGED <<queue, status, reply, task>>
  /\ SameRunners

Submitted(k) ==
  /\ ~shutdown /\ status[k] = "new"
  /\ queue' = Append(queue, k)
  /\ status' = [status EXCEPT ![k] = "queued"]
  /\ \E answer \in {"ok", "no_threads"} : reply' = [reply EXCEPT ![k] = answer]
  /\ UNCHANGED <<task, shutdown>>
  /\ SameRunners

Rejected(k) ==
  /\ shutdown /\ status[k] = "new"
  /\ status' = [status EXCEPT ![k] = "cancelled"]
  /\ reply' = [reply EXCEPT ![k] = "shutting_down"]
  /\ UNCHANGED <<queue, task, shutdown>>
  /\ SameRunners

Started(t) ==
  /\ queue # <<>> /\ pc[t] \in Counted \ AtTask
  /\ queue' = Tail(queue)
  /\ status' = [status EXCEPT ![Head(queue)] = "running"]
  /\ task' = [task EXCEPT ![t] = Head(queue)]
  /\ UNCHANGED <<reply, shutdown>>
  /\ \A u \in Threads : pc'[u] \in AtTask <=> u = t \/ pc[u] \in AtTask

Cancelled ==
  /\ shutdown /\ queue # <<>> /\ Head(queue) \notin Mandatory
  /\ queue' = Tail(queue)
  /\ status' = [status EXCEPT ![Head(queue)] = "cancelled"]
  /\ UNCHANGED <<reply, task, shutdown>>
  /\ SameRunners

Finished(t) ==
  /\ pc[t] \in AtTask
  /\ status' = [status EXCEPT ![task[t]] = "done"]
  /\ task' = [task EXCEPT ![t] = NoTask]
  /\ UNCHANGED <<queue, reply, shutdown>>
  /\ \A u \in Threads : pc'[u] \in AtTask <=> u # t /\ pc[u] \in AtTask

TaskStep ==
  \/ Rests /\ shutdown' = shutdown
  \/ Rests /\ ~shutdown /\ shutdown' = TRUE
  \/ \E k \in Tasks : Submitted(k) \/ Rejected(k)
  \/ \E t \in Threads : Started(t) \/ Finished(t)
  \/ Cancelled

\* A move of the thread t to v neither begins nor ends a task when neither state
\* is one at a task.
LEMMA MovedAside ==
  ASSUME TypeOK, NEW t \in Threads, NEW v, pc' = [pc EXCEPT ![t] = v],
         pc[t] \notin AtTask, v \notin AtTask
  PROVE  SameRunners
BY DEF TypeOK, SameRunners

\* Waking a sleeper begins no task.
LEMMA NotifiedAside ==
  ASSUME TypeOK, pc' \in NotifyOne(pc)
  PROVE  SameRunners
<1>1. CASE pc' = pc
  BY <1>1 DEF SameRunners
<1>2. ASSUME NEW w \in In({"waiting"}), pc' = [pc EXCEPT ![w] = "woken"]
      PROVE  SameRunners
  BY <1>2, MovedAside DEF In, AtTask
<1> QED
  BY <1>1, <1>2, OneNotified

\* The drain of the shutdown starts, cancels, or ends the thread.
LEMMA ShutdownBranchIsTaskStep ==
  ASSUME IInv, NEW t \in Threads, NEW idle, ShutdownBranch(t, idle),
         shutdown, pc[t] \in Counted \ AtTask, UNCHANGED <<shutdown, reply>>
  PROVE  TaskStep
<1>1. TypeOK
  BY DEF IInv
<1>2. CASE DrainTask(t, idle) /\ Head(queue) \in Mandatory
  <2>1. pc' = [pc EXCEPT ![t] = "draining"]
    BY <1>2 DEF DrainTask
  <2>2. \A u \in Threads : pc'[u] \in AtTask <=> u = t \/ pc[u] \in AtTask
    BY <1>1, <2>1 DEF TypeOK, AtTask
  <2>3. Started(t)
    BY <1>2, <2>2 DEF DrainTask, Started
  <2> QED
    BY <2>3 DEF TaskStep
<1>3. CASE DrainTask(t, idle) /\ Head(queue) \notin Mandatory
  <2>1. pc' = [pc EXCEPT ![t] = "drained"]
    BY <1>3 DEF DrainTask
  <2>2. SameRunners
    BY <1>1, <2>1, MovedAside DEF AtTask
  <2>3. Cancelled
    BY <1>3, <2>2 DEF DrainTask, Cancelled
  <2> QED
    BY <2>3 DEF TaskStep
<1>4. CASE Exit(t, idle + 1)
  <2>1. pc' = [pc EXCEPT ![t] = "stopping"]
    BY <1>4, ExitMoves
  <2>2. SameRunners
    BY <1>1, <2>1, MovedAside DEF AtTask
  <2> QED
    BY <1>4, <2>2 DEF Exit, TaskStep, Rests
<1> QED
  BY <1>2, <1>3, <1>4 DEF ShutdownBranch

\* Popping in the BUSY loop starts a task.
LEMMA PopIsTaskStep ==
  ASSUME IInv, NEW t \in Threads, PopAndRun(t),
         pc[t] \in Counted \ AtTask, UNCHANGED <<shutdown, reply>>
  PROVE  TaskStep
<1>1. \A u \in Threads : pc'[u] \in AtTask <=> u = t \/ pc[u] \in AtTask
  BY DEF IInv, TypeOK, PopAndRun, AtTask
<1>2. Started(t)
  BY <1>1 DEF PopAndRun, Started
<1> QED
  BY <1>2 DEF TaskStep

\* Going to sleep leaves the tasks alone.
LEMMA SleepIsTaskStep ==
  ASSUME IInv, NEW t \in Threads, Sleep(t),
         pc[t] \in Counted \ AtTask, UNCHANGED <<shutdown, reply>>
  PROVE  TaskStep
<1>1. SameRunners
  BY MovedAside DEF IInv, Sleep, AtTask
<1>2. Rests
  BY <1>1 DEF Sleep, Rests
<1> QED
  BY <1>2 DEF TaskStep

\* Every call of spawn_task submits or rejects the task.
LEMMA SpawnIsTaskStep ==
  ASSUME IInv, NEW k \in Tasks, Spawn(k)
  PROVE  TaskStep
<1>1. TypeOK
  BY DEF IInv
<1>2. CASE SpawnShuttingDown(k)
  <2>1. SameRunners
    BY <1>2 DEF SpawnShuttingDown, SameRunners
  <2>2. Rejected(k)
    BY <1>2, <2>1 DEF SpawnShuttingDown, Rejected, shared
  <2> QED
    BY <2>2 DEF TaskStep
<1>3. ASSUME NEW answer \in {"ok", "no_threads"}, Push(k, answer), SameRunners
      PROVE  TaskStep
  <2>1. Submitted(k)
    BY <1>3 DEF Push, Submitted
  <2> QED
    BY <2>1 DEF TaskStep
<1>4. CASE SpawnNotify(k)
  BY <1>1, <1>3, <1>4, NotifiedAside DEF SpawnNotify
<1>5. CASE SpawnAtCap(k) \/ SpawnFails(k)
  <2>1. SameRunners
    BY <1>5 DEF SpawnAtCap, SpawnFails, SameRunners
  <2> QED
    BY <1>3, <1>5, <2>1 DEF SpawnAtCap, SpawnFails
<1>6. ASSUME NEW t \in Threads, SpawnThread(k, t)
      PROVE  TaskStep
  <2>1. SameRunners
    BY <1>1, <1>6, MovedAside DEF SpawnThread, AtTask
  <2> QED
    BY <1>3, <1>6, <2>1 DEF SpawnThread
<1> QED
  BY <1>2, <1>4, <1>5, <1>6 DEF Spawn

\* So does every step of a thread: it starts, cancels, finishes or leaves the
\* tasks alone.
LEMMA ThreadIsTaskStep ==
  ASSUME IInv, NEW t \in Threads, ThreadStep(t) \/ LeaveWait(t)
  PROVE  TaskStep
<1>1. TypeOK
  BY DEF IInv
<1>2. ASSUME NEW v \in PCs, pc' = [pc EXCEPT ![t] = v], pc[t] \notin AtTask, v \notin AtTask,
             UNCHANGED <<queue, status, reply, task, shutdown>>
      PROVE  TaskStep
  <2>1. Rests
    BY <1>1, <1>2, MovedAside DEF Rests
  <2> QED
    BY <1>2, <2>1 DEF TaskStep
<1>3. CASE BusyLoop(t)
  <2>1. pc[t] \in Counted \ AtTask /\ UNCHANGED <<shutdown, reply>>
    BY <1>3, States DEF BusyLoop, AtTask
  <2> QED
    BY <1>3, <2>1, PopIsTaskStep, SleepIsTaskStep, ShutdownBranchIsTaskStep
       DEF BusyLoop
<1>4. CASE WakeNotified(t) \/ WakeShutdown(t)
  <2>1. pc[t] \in Counted \ AtTask /\ UNCHANGED <<shutdown, reply>>
    BY <1>4, States DEF WakeNotified, WakeShutdown, AtTask
  <2> QED
    BY <1>4, <2>1, PopIsTaskStep, SleepIsTaskStep, ShutdownBranchIsTaskStep
       DEF WakeNotified, WakeShutdown
<1>5. CASE DrainLoop(t)
  <2>1. pc[t] \in Counted \ AtTask /\ UNCHANGED <<shutdown, reply>>
    BY <1>5, States DEF DrainLoop, AtTask
  <2>2. shutdown
    BY <1>1, <1>5, States DEF IInv, Phase, In, DrainLoop
  <2> QED
    BY <1>5, <2>1, <2>2, ShutdownBranchIsTaskStep DEF DrainLoop
<1>6. CASE WakeTimedOut(t)
  <2>1. pc' = [pc EXCEPT ![t] = "stopping"]
    BY <1>6, ExitMoves DEF WakeTimedOut
  <2>2. pc[t] = "timedout" /\ UNCHANGED <<queue, status, reply, task, shutdown>>
    BY <1>6 DEF WakeTimedOut, Exit
  <2> QED
    BY <1>2, <2>1, <2>2, States DEF AtTask
<1>7. CASE WakeSpurious(t)
  <2>1. /\ pc[t] = "woken" /\ pc' = [pc EXCEPT ![t] = "waiting"]
        /\ UNCHANGED <<queue, status, reply, task, shutdown>>
    BY <1>7 DEF WakeSpurious, shared
  <2> QED
    BY <1>2, <2>1, States DEF AtTask
<1>8. CASE LeaveWait(t)
  BY <1>2, <1>8, States DEF LeaveWait, shared, AtTask, Woken
<1>9. CASE DropTx(t) \/ EndThread(t)
  BY <1>2, <1>9, States DEF DropTx, EndThread, shared, AtTask
<1>10. CASE FinishTask(t)
  <2>1. \A u \in Threads : pc'[u] \in AtTask <=> u # t /\ pc[u] \in AtTask
    BY <1>1, <1>10 DEF FinishTask, TypeOK, AtTask
  <2>2. Finished(t)
    BY <1>10, <2>1 DEF FinishTask, Finished, AtTask, shared
  <2> QED
    BY <2>2 DEF TaskStep
<1> QED
  BY <1>3, <1>4, <1>5, <1>6, <1>7, <1>8, <1>9, <1>10, States DEF ThreadStep

\* Every step of the pool is one of those.
LEMMA NextIsTaskStep ==
  ASSUME IInv, [Next]_vars
  PROVE  TaskStep
<1>1. CASE Shutdown
  <2>1. SameRunners
    BY <1>1 DEF IInv, TypeOK, Shutdown, NotifyAll, SameRunners, AtTask
  <2> QED
    BY <1>1, <2>1 DEF Shutdown, TaskStep, Rests
<1>2. CASE AllSendersDropped \/ WaitTimesOut \/ JoinAll \/ UNCHANGED vars
  <2>1. SameRunners
    BY <1>2 DEF AllSendersDropped, WaitTimesOut, JoinAll, vars, SameRunners
  <2>2. Rests /\ shutdown' = shutdown
    BY <1>2, <2>1 DEF AllSendersDropped, WaitTimesOut, JoinAll, vars, shared, Rests
  <2> QED
    BY <2>2 DEF TaskStep
<1> QED
  BY <1>1, <1>2, SpawnIsTaskStep, ThreadIsTaskStep DEF Next

-----------------------------------------------------------------------------
(***************************************************************************)
(* Each of them keeps every task in its one place.                         *)
(***************************************************************************)
\* A queue without its head is the same queue, one place further on.
LEMMA TailPlaces ==
  ASSUME NEW S, NEW q \in Seq(S), q # <<>>
  PROVE  /\ 1 \in DOMAIN q /\ Head(q) = q[1] /\ Head(q) \in S
         /\ DOMAIN Tail(q) = 1..(Len(q) - 1)
         /\ \A i \in DOMAIN Tail(q) : i + 1 \in DOMAIN q /\ Tail(q)[i] = q[i + 1]
         /\ \A i \in DOMAIN q : i # 1 => i - 1 \in DOMAIN Tail(q)
OBVIOUS

\* Taking the head of the queue leaves the other tasks queued, each once.
LEMMA HeadTaken ==
  ASSUME TypeOK, TaskInv, queue # <<>>, queue' = Tail(queue),
         NEW s \in {"running", "cancelled"},
         status' = [status EXCEPT ![Head(queue)] = s]
  PROVE  /\ Head(queue) \in Tasks /\ status[Head(queue)] = "queued"
         /\ \A i, j \in DOMAIN queue' : queue'[i] = queue'[j] => i = j
         /\ \A i \in DOMAIN queue' : status'[queue'[i]] = "queued"
         /\ \A k \in Tasks :
              status'[k] = "queued" => \E i \in DOMAIN queue' : queue'[i] = k
         /\ \A k \in Tasks : reply[k] = "ok" => status'[k] # "new"
         /\ \A k \in Tasks : k # Head(queue) => status'[k] = status[k]
         /\ status'[Head(queue)] = s
<1>1. /\ queue \in Seq(Tasks)
      /\ status \in [Tasks -> {"new", "queued", "running", "done", "cancelled"}]
  BY DEF TypeOK
<1>2. /\ 1 \in DOMAIN queue /\ Head(queue) = queue[1] /\ Head(queue) \in Tasks
      /\ DOMAIN queue' = 1..(Len(queue) - 1)
      /\ \A i \in DOMAIN queue' : i + 1 \in DOMAIN queue /\ queue'[i] = queue[i + 1]
      /\ \A i \in DOMAIN queue : i # 1 => i - 1 \in DOMAIN queue'
  BY <1>1, TailPlaces
<1>3. \A i \in DOMAIN queue' : queue'[i] # Head(queue) /\ queue'[i] \in Tasks
  <2> SUFFICES ASSUME NEW i \in DOMAIN queue'
               PROVE  queue'[i] # Head(queue) /\ queue'[i] \in Tasks
    OBVIOUS
  <2>1. i + 1 \in DOMAIN queue /\ i + 1 # 1 /\ queue'[i] = queue[i + 1]
    BY <1>2
  <2> QED
    BY <1>1, <1>2, <2>1 DEF TaskInv
<1>4. /\ \A k \in Tasks : k # Head(queue) => status'[k] = status[k]
      /\ status'[Head(queue)] = s
  BY <1>1, <1>2
<1>5. \A i, j \in DOMAIN queue' : queue'[i] = queue'[j] => i = j
  <2> SUFFICES ASSUME NEW i \in DOMAIN queue', NEW j \in DOMAIN queue',
                      queue'[i] = queue'[j]
               PROVE  i = j
    OBVIOUS
  <2>1. i + 1 = j + 1
    BY <1>2 DEF TaskInv
  <2> QED
    BY <1>2, <2>1
<1>6. \A i \in DOMAIN queue' : status'[queue'[i]] = "queued"
  BY <1>2, <1>3, <1>4 DEF TaskInv
<1>7. ASSUME NEW k \in Tasks, status'[k] = "queued"
      PROVE  \E i \in DOMAIN queue' : queue'[i] = k
  <2>1. k # Head(queue) /\ status[k] = "queued"
    BY <1>4, <1>7
  <2>2. PICK i \in DOMAIN queue : queue[i] = k
    BY <2>1 DEF TaskInv
  <2>3. i - 1 \in DOMAIN queue' /\ i = (i - 1) + 1
    BY <1>1, <1>2, <2>1, <2>2
  <2> QED
    BY <1>2, <2>2, <2>3
<1>8. status[Head(queue)] = "queued"
  BY <1>2 DEF TaskInv
<1>9. \A k \in Tasks : reply[k] = "ok" => status'[k] # "new"
  BY <1>4 DEF TaskInv
<1> QED
  BY <1>2, <1>4, <1>5, <1>6, <1>7, <1>8, <1>9

\* A submitted task is queued behind the others.
LEMMA SubmittedKeeps ==
  ASSUME TypeOK, TaskInv, NEW k \in Tasks, Submitted(k)
  PROVE  TaskInv'
<1>1. /\ queue \in Seq(Tasks)
      /\ status \in [Tasks -> {"new", "queued", "running", "done", "cancelled"}]
      /\ reply \in [Tasks -> {"none", "ok", "shutting_down", "no_threads"}]
      /\ status[k] = "new" /\ queue' = Append(queue, k)
      /\ status' = [status EXCEPT ![k] = "queued"]
      /\ task' = task /\ SameRunners
  BY DEF TypeOK, Submitted
<1>2. /\ DOMAIN queue' = 1..(Len(queue) + 1) /\ DOMAIN queue = 1..Len(queue)
      /\ Len(queue) \in Nat
      /\ \A i \in DOMAIN queue : queue'[i] = queue[i] /\ i \in DOMAIN queue'
                                 /\ queue[i] \in Tasks
      /\ queue'[Len(queue) + 1] = k
      /\ \A i \in DOMAIN queue' : i \in DOMAIN queue \/ i = Len(queue) + 1
  BY <1>1
<1>3. /\ \A i \in DOMAIN queue : queue[i] # k
      /\ \A q \in Tasks : q # k => status'[q] = status[q]
      /\ status'[k] = "queued"
  BY <1>1, <1>2 DEF TaskInv
<1>4. \A i, j \in DOMAIN queue' : queue'[i] = queue'[j] => i = j
  BY <1>2, <1>3 DEF TaskInv
<1>5. \A i \in DOMAIN queue' : status'[queue'[i]] = "queued"
  BY <1>2, <1>3 DEF TaskInv
<1>6. ASSUME NEW q \in Tasks, status'[q] = "queued"
      PROVE  \E i \in DOMAIN queue' : queue'[i] = q
  <2>1. CASE q = k
    <3>1. Len(queue) + 1 \in DOMAIN queue'
      BY <1>2
    <3> QED
      BY <1>2, <2>1, <3>1
  <2>2. CASE q # k
    BY <1>2, <1>3, <1>6, <2>2 DEF TaskInv
  <2> QED
    BY <2>1, <2>2
<1>7. \A t \in Threads : IF pc'[t] \in AtTask
                          THEN task'[t] \in Tasks /\ status'[task'[t]] = "running"
                          ELSE task'[t] = NoTask
  BY <1>1, <1>3 DEF TaskInv, SameRunners
<1>8. \A q \in Tasks : status'[q] = "running" => \E t \in Threads : task'[t] = q
  BY <1>1, <1>3 DEF TaskInv
<1>9. \A q \in Tasks : reply'[q] = "ok" => status'[q] # "new"
  BY <1>1, <1>3 DEF TaskInv, Submitted
<1> QED
  BY <1>1, <1>4, <1>5, <1>6, <1>7, <1>8, <1>9 DEF TaskInv

\* A task that starts is at the thread that popped it and at no other.
LEMMA StartedKeeps ==
  ASSUME TypeOK, TaskInv, NEW t \in Threads, Started(t)
  PROVE  TaskInv'
<1> DEFINE k == Head(queue)
<1>1. /\ queue # <<>> /\ queue' = Tail(queue)
      /\ status' = [status EXCEPT ![k] = "running"] /\ reply' = reply
      /\ task' = [task EXCEPT ![t] = k] /\ pc[t] \notin AtTask
      /\ \A u \in Threads : pc'[u] \in AtTask <=> u = t \/ pc[u] \in AtTask
  BY DEF Started
<1>2. /\ k \in Tasks /\ status[k] = "queued"
      /\ \A i, j \in DOMAIN queue' : queue'[i] = queue'[j] => i = j
      /\ \A i \in DOMAIN queue' : status'[queue'[i]] = "queued"
      /\ \A q \in Tasks : status'[q] = "queued" => \E i \in DOMAIN queue' : queue'[i] = q
      /\ \A q \in Tasks : reply[q] = "ok" => status'[q] # "new"
      /\ \A q \in Tasks : q # k => status'[q] = status[q]
      /\ status'[k] = "running"
  BY <1>1, HeadTaken
<1>3. \A u \in Threads : task'[u] = IF u = t THEN k ELSE task[u]
  BY <1>1 DEF TypeOK
<1>4. \A u \in Threads : task[u] # k
  BY <1>2, TasksAssumption DEF TaskInv
<1>5. \A u \in Threads : IF pc'[u] \in AtTask
                          THEN task'[u] \in Tasks /\ status'[task'[u]] = "running"
                          ELSE task'[u] = NoTask
  BY <1>1, <1>2, <1>3, <1>4 DEF TaskInv
<1>6. \A u, w \in Threads : task'[u] = task'[w] /\ task'[u] # NoTask => u = w
  BY <1>3, <1>4 DEF TaskInv
<1>7. ASSUME NEW q \in Tasks, status'[q] = "running"
      PROVE  \E u \in Threads : task'[u] = q
  <2>1. CASE q = k
    BY <1>3, <2>1
  <2>2. CASE q # k
    <3>1. PICK u \in Threads : task[u] = q
      BY <1>2, <1>7, <2>2 DEF TaskInv
    <3>2. u # t
      BY <1>1, <3>1, TasksAssumption DEF TaskInv
    <3> QED
      BY <1>3, <3>1, <3>2
  <2> QED
    BY <2>1, <2>2
<1> QED
  BY <1>1, <1>2, <1>5, <1>6, <1>7 DEF TaskInv

\* A task that is cancelled in the drain was nowhere but in the queue.
LEMMA CancelledKeeps ==
  ASSUME TypeOK, TaskInv, Cancelled
  PROVE  TaskInv'
<1>1. /\ queue # <<>> /\ queue' = Tail(queue)
      /\ status' = [status EXCEPT ![Head(queue)] = "cancelled"]
      /\ reply' = reply /\ task' = task /\ SameRunners
  BY DEF Cancelled
<1>2. /\ Head(queue) \in Tasks /\ status[Head(queue)] = "queued"
      /\ \A i, j \in DOMAIN queue' : queue'[i] = queue'[j] => i = j
      /\ \A i \in DOMAIN queue' : status'[queue'[i]] = "queued"
      /\ \A q \in Tasks : status'[q] = "queued" => \E i \in DOMAIN queue' : queue'[i] = q
      /\ \A q \in Tasks : reply[q] = "ok" => status'[q] # "new"
      /\ \A q \in Tasks : q # Head(queue) => status'[q] = status[q]
      /\ status'[Head(queue)] = "cancelled"
  BY <1>1, HeadTaken
<1>3. \A u \in Threads : IF pc'[u] \in AtTask
                          THEN task'[u] \in Tasks /\ status'[task'[u]] = "running"
                          ELSE task'[u] = NoTask
  BY <1>1, <1>2 DEF TaskInv, SameRunners
<1>4. \A q \in Tasks : status'[q] = "running" => \E u \in Threads : task'[u] = q
  BY <1>1, <1>2 DEF TaskInv
<1> QED
  BY <1>1, <1>2, <1>3, <1>4 DEF TaskInv

\* A task that ends leaves its thread.
LEMMA FinishedKeeps ==
  ASSUME TypeOK, TaskInv, NEW t \in Threads, Finished(t)
  PROVE  TaskInv'
<1>1. /\ pc[t] \in AtTask /\ queue' = queue /\ reply' = reply
      /\ status' = [status EXCEPT ![task[t]] = "done"]
      /\ task' = [task EXCEPT ![t] = NoTask]
      /\ \A u \in Threads : pc'[u] \in AtTask <=> u # t /\ pc[u] \in AtTask
  BY DEF Finished
<1>2. /\ task[t] \in Tasks /\ status[task[t]] = "running" /\ task[t] # NoTask
      /\ \A q \in Tasks : q # task[t] => status'[q] = status[q]
      /\ status'[task[t]] = "done"
  BY <1>1, TasksAssumption DEF TypeOK, TaskInv
<1>3. /\ \A u \in Threads : task'[u] = IF u = t THEN NoTask ELSE task[u]
      /\ \A u \in Threads : u # t => task[u] # task[t]
  <2>1. \A u \in Threads : task'[u] = IF u = t THEN NoTask ELSE task[u]
    BY <1>1 DEF TypeOK
  <2>2. \A u \in Threads : u # t => task[u] # task[t]
    BY <1>2 DEF TaskInv
  <2> QED
    BY <2>1, <2>2
<1>4. \A i \in DOMAIN queue : queue[i] \in Tasks
  BY DEF TypeOK
<1>5. /\ \A i \in DOMAIN queue' : status'[queue'[i]] = "queued"
      /\ \A q \in Tasks : status'[q] = "queued" => \E i \in DOMAIN queue' : queue'[i] = q
  BY <1>1, <1>2, <1>4 DEF TaskInv
<1>6. \A u \in Threads : IF pc'[u] \in AtTask
                          THEN task'[u] \in Tasks /\ status'[task'[u]] = "running"
                          ELSE task'[u] = NoTask
  BY <1>1, <1>2, <1>3 DEF TaskInv
<1>7. \A u, w \in Threads : task'[u] = task'[w] /\ task'[u] # NoTask => u = w
  BY <1>3 DEF TaskInv
<1>8. ASSUME NEW q \in Tasks, status'[q] = "running"
      PROVE  \E u \in Threads : task'[u] = q
  <2>1. q # task[t] /\ status[q] = "running"
    BY <1>2, <1>8
  <2>2. PICK u \in Threads : task[u] = q
    BY <2>1 DEF TaskInv
  <2> QED
    BY <1>3, <2>1, <2>2
<1>9. \A q \in Tasks : reply'[q] = "ok" => status'[q] # "new"
  BY <1>1, <1>2 DEF TaskInv
<1> QED
  BY <1>1, <1>5, <1>6, <1>7, <1>8, <1>9 DEF TaskInv

\* Every step keeps every task in its place.
LEMMA TaskStepKeeps ==
  ASSUME TypeOK, TaskInv, TaskStep
  PROVE  TaskInv'
<1>1. CASE Rests
  BY <1>1 DEF Rests, SameRunners, TaskInv
<1>2. ASSUME NEW k \in Tasks, Rejected(k)
      PROVE  TaskInv'
  <2>1. /\ status[k] = "new" /\ \A q \in Tasks : q # k => status'[q] = status[q]
        /\ status'[k] = "cancelled"
        /\ \A q \in Tasks : reply'[q] = "ok" => reply[q] = "ok"
        /\ queue' = queue /\ task' = task /\ SameRunners
    BY <1>2 DEF Rejected, TypeOK
  <2>2. \A i \in DOMAIN queue : queue[i] \in Tasks
    BY DEF TypeOK
  <2> QED
    BY <2>1, <2>2 DEF TaskInv, SameRunners
<1> QED
  BY <1>1, <1>2, SubmittedKeeps, StartedKeeps, FinishedKeeps, CancelledKeeps DEF TaskStep

-----------------------------------------------------------------------------
(***************************************************************************)
(* Who is waited for.  What a step of a thread is for those who join it:   *)
(* it stays counted, leaves, drops its sender or ends.                     *)
(***************************************************************************)
Handles == <<worker_threads, last_exiting_thread, join_on_thread>>

\* Only the thread itself moves, and the owner's frame stays.
Alone(t) ==
  /\ \A u \in Threads : u # t => pc'[u] = pc[u]
  /\ UNCHANGED <<shutdown, owner, to_join>>

StaysCounted(t) ==
  /\ pc[t] \in Counted /\ pc'[t] \in Counted
  /\ UNCHANGED Handles

LeavesShutDown(t) ==
  /\ shutdown /\ pc[t] \in Counted /\ pc'[t] = "stopping"
  /\ UNCHANGED Handles

LeavesTimedOut(t) ==
  /\ ~shutdown /\ pc[t] \in Counted /\ pc'[t] = "stopping"
  /\ worker_threads' = worker_threads \ {t}
  /\ last_exiting_thread' = IF t \in worker_threads THEN t ELSE NoThread
  /\ join_on_thread' = [join_on_thread EXCEPT ![t] = last_exiting_thread]

Ends(t) ==
  /\ \/ /\ pc[t] = "stopping" /\ pc'[t] = "dropped"
        /\ join_on_thread[t] # NoThread => pc[join_on_thread[t]] = "exited"
     \/ pc[t] = "dropped" /\ pc'[t] = "exited"
  /\ UNCHANGED Handles

\* The drain of the shutdown keeps the thread or lets it leave.
LEMMA ShutdownBranchMoves ==
  ASSUME IInv, NEW t \in Threads, NEW idle, ShutdownBranch(t, idle),
         shutdown, pc[t] \in Counted, UNCHANGED Handles,
         UNCHANGED <<shutdown, owner, to_join>>
  PROVE  Alone(t) /\ (StaysCounted(t) \/ LeavesShutDown(t))
<1>1. pc \in [Threads -> PCs]
  BY DEF IInv, TypeOK
<1>2. CASE DrainTask(t, idle)
  <2>1. PICK v \in {"draining", "drained"} : pc' = [pc EXCEPT ![t] = v]
    BY <1>2 DEF DrainTask
  <2> QED
    BY <1>1, <2>1, States DEF Alone, StaysCounted
<1>3. CASE Exit(t, idle + 1)
  <2>1. pc' = [pc EXCEPT ![t] = "stopping"]
    BY <1>3, ExitMoves
  <2> QED
    BY <1>1, <2>1 DEF Alone, LeavesShutDown
<1> QED
  BY <1>2, <1>3 DEF ShutdownBranch

\* Every step of a thread is one of those.
LEMMA ThreadMoves ==
  ASSUME IInv, NEW t \in Threads, ThreadStep(t) \/ LeaveWait(t)
  PROVE  /\ Alone(t)
         /\ StaysCounted(t) \/ LeavesShutDown(t) \/ LeavesTimedOut(t) \/ Ends(t)
<1>1. pc \in [Threads -> PCs]
  BY DEF IInv, TypeOK
<1>2. ASSUME NEW v \in Counted, pc' = [pc EXCEPT ![t] = v], pc[t] \in Counted,
             UNCHANGED Handles, UNCHANGED <<shutdown, owner, to_join>>
      PROVE  Alone(t) /\ StaysCounted(t)
  BY <1>1, <1>2 DEF Alone, StaysCounted
<1>3. CASE BusyLoop(t) \/ WakeNotified(t) \/ WakeShutdown(t) \/ DrainLoop(t)
  <2>1. /\ pc[t] \in Counted /\ UNCHANGED <<shutdown, owner, to_join>>
        /\ UNCHANGED Handles
    BY <1>3, States DEF BusyLoop, WakeNotified, WakeShutdown, DrainLoop, Handles
  <2>2. ASSUME NEW idle, ShutdownBranch(t, idle), shutdown
        PROVE  Alone(t) /\ (StaysCounted(t) \/ LeavesShutDown(t))
    BY <2>1, <2>2, ShutdownBranchMoves
  <2>3. CASE PopAndRun(t)
    <3>1. pc' = [pc EXCEPT ![t] = "running"] /\ "running" \in Counted
      BY <2>3, States DEF PopAndRun
    <3> QED
      BY <1>2, <2>1, <3>1
  <2>4. CASE Sleep(t)
    <3>1. pc' = [pc EXCEPT ![t] = "waiting"] /\ "waiting" \in Counted
      BY <2>4, States DEF Sleep
    <3> QED
      BY <1>2, <2>1, <3>1
  <2>5. DrainLoop(t) => shutdown
    BY <1>1, States DEF IInv, Phase, In, DrainLoop
  <2> QED
    BY <1>3, <2>2, <2>3, <2>4, <2>5
       DEF BusyLoop, WakeNotified, WakeShutdown, DrainLoop
<1>4. CASE WakeTimedOut(t)
  <2>1. pc' = [pc EXCEPT ![t] = "stopping"]
    BY <1>4, ExitMoves DEF WakeTimedOut
  <2>2. Alone(t)
    BY <1>1, <1>4, <2>1 DEF WakeTimedOut, Alone
  <2>3. LeavesTimedOut(t)
    BY <1>1, <1>4, <2>1, States DEF WakeTimedOut, LeavesTimedOut
  <2> QED
    BY <2>2, <2>3
<1>5. CASE WakeSpurious(t) \/ LeaveWait(t) \/ FinishTask(t)
  <2>1. /\ pc[t] \in Counted /\ UNCHANGED Handles
        /\ UNCHANGED <<shutdown, owner, to_join>>
    BY <1>5, States DEF WakeSpurious, LeaveWait, FinishTask, shared, Handles
  <2>2. PICK v \in {"waiting", "woken", "timedout", "finished", "drained"} :
          pc' = [pc EXCEPT ![t] = v]
    BY <1>5 DEF WakeSpurious, LeaveWait, FinishTask, Woken
  <2> QED
    BY <1>2, <2>1, <2>2, States
<1>6. CASE DropTx(t) \/ EndThread(t)
  <2>1. Alone(t)
    BY <1>1, <1>6 DEF DropTx, EndThread, shared, Alone
  <2>2. Ends(t)
    BY <1>1, <1>6 DEF DropTx, EndThread, shared, Ends, Handles
  <2> QED
    BY <2>1, <2>2
<1> QED
  BY <1>3, <1>4, <1>5, <1>6 DEF ThreadStep

\* A step of a thread leaves no thread that nobody waits for.
LEMMA ThreadStepJoins ==
  ASSUME IInv, JoinInv, NEW t \in Threads, ThreadStep(t) \/ LeaveWait(t)
  PROVE  JoinInv'
<1>1. /\ \A u \in Threads : u # t => pc'[u] = pc[u]
      /\ shutdown' = shutdown /\ owner' = owner /\ to_join' = to_join
      /\ StaysCounted(t) \/ LeavesShutDown(t) \/ LeavesTimedOut(t) \/ Ends(t)
  BY ThreadMoves DEF Alone
<1>2. /\ pc \in [Threads -> PCs] /\ NoThread \notin Threads
      /\ join_on_thread \in [Threads -> Threads \cup {NoThread}]
  BY ThreadsAssumption DEF IInv, TypeOK
<1>3. pc[t] \in HoldsTx \cup {"dropped"}
  BY <1>1 DEF StaysCounted, LeavesShutDown, LeavesTimedOut, Ends, HoldsTx
<1>4. pc'[t] \in HoldsTx => pc[t] \in HoldsTx
  BY <1>1, States DEF StaysCounted, LeavesShutDown, LeavesTimedOut, Ends, HoldsTx
<1>5. owner' \in {"joining", "returned"} => In(HoldsTx)' = {}
  BY <1>1, <1>4 DEF JoinInv, In
<1>6. owner' = "returned" => \A u \in Threads : pc'[u] \in {"unborn", "exited"}
  BY <1>1, <1>3, States DEF JoinInv, HoldsTx
<1>7. IF shutdown' THEN worker_threads' = {} /\ last_exiting_thread' = NoThread
                   ELSE In(Counted)' \subseteq worker_threads' /\ to_join' = {}
  <2>1. CASE shutdown
    BY <1>1, <2>1
       DEF JoinInv, StaysCounted, LeavesShutDown, LeavesTimedOut, Ends, Handles
  <2>2. CASE ~shutdown
    BY <1>1, <2>2, States
       DEF JoinInv, In, StaysCounted, LeavesShutDown, LeavesTimedOut, Ends, Handles
  <2> QED
    BY <2>1, <2>2
<1>8. ASSUME owner # "gave_up", NEW u \in Threads, pc'[u] \notin {"unborn", "exited"}
      PROVE  Joined(u)'
  <2>1. pc[u] \notin {"unborn", "exited"}
    BY <1>1, <1>3, <1>8, States DEF HoldsTx
  <2>2. Joined(u)
    BY <1>8, <2>1 DEF JoinInv
  <2>3. CASE StaysCounted(t) \/ LeavesShutDown(t)
    <3>1. \A w \in Threads : pc[w] = "stopping" => pc'[w] = "stopping"
      BY <1>1, <2>3, States DEF StaysCounted, LeavesShutDown
    <3> QED
      BY <1>1, <2>2, <2>3, <3>1 DEF Joined, StaysCounted, LeavesShutDown, Handles
  <2>4. CASE LeavesTimedOut(t)
    <3>1. /\ t \in worker_threads /\ last_exiting_thread' = t
          /\ worker_threads' = worker_threads \ {t}
          /\ join_on_thread'[t] = last_exiting_thread /\ pc'[t] = "stopping"
          /\ \A w \in Threads : w # t => join_on_thread'[w] = join_on_thread[w]
          /\ pc[t] # "stopping"
      BY <1>2, <2>4, States DEF LeavesTimedOut, JoinInv, In
    <3>2. CASE u \in worker_threads \cup to_join
      BY <1>1, <3>1, <3>2 DEF Joined
    <3>3. CASE u = last_exiting_thread
      BY <3>1, <3>3 DEF Joined
    <3>4. CASE \E w \in Threads : join_on_thread[w] = u /\ pc[w] = "stopping"
      BY <1>1, <3>1, <3>4 DEF Joined
    <3> QED
      BY <2>2, <3>2, <3>3, <3>4 DEF Joined
  <2>5. CASE Ends(t)
    <3>1. \A w \in Threads : join_on_thread[w] = u /\ pc[w] = "stopping" => w # t
      BY <1>2, <2>1, <2>5 DEF Ends
    <3> QED
      BY <1>1, <2>2, <2>5, <3>1 DEF Joined, Ends, Handles
  <2> QED
    BY <1>1, <2>3, <2>4, <2>5
<1> QED
  BY <1>1, <1>5, <1>6, <1>7, <1>8 DEF JoinInv

\* A thread that spawn_task makes is in the map before it is counted.
LEMMA SpawnJoins ==
  ASSUME IInv, JoinInv, NEW k \in Tasks, Spawn(k)
  PROVE  JoinInv'
<1>1. /\ TypeOK /\ shutdown' = shutdown /\ owner' = owner /\ to_join' = to_join
      /\ last_exiting_thread' = last_exiting_thread
      /\ join_on_thread' = join_on_thread
  BY DEF IInv, Spawn, SpawnShuttingDown, SpawnNotify, SpawnAtCap, SpawnThread,
         SpawnFails, Push, shared
<1>2. ASSUME pc' = pc, worker_threads' = worker_threads
      PROVE  JoinInv'
  BY <1>1, <1>2 DEF JoinInv, Joined, In
<1>3. ASSUME NEW w \in In({"waiting"}), pc' = [pc EXCEPT ![w] = "woken"],
             worker_threads' = worker_threads, ~shutdown
      PROVE  JoinInv'
  <2>1. /\ pc[w] = "waiting" /\ w \in Threads
        /\ \A u \in Threads : pc'[u] = IF u = w THEN "woken" ELSE pc[u]
    BY <1>1, <1>3 DEF In, TypeOK
  <2>2. \A u \in Threads :
          /\ pc'[u] \in Counted <=> pc[u] \in Counted
          /\ pc'[u] \in {"unborn", "exited"} <=> pc[u] \in {"unborn", "exited"}
          /\ pc'[u] = "stopping" <=> pc[u] = "stopping"
    BY <2>1, States
  <2>3. In(Counted)' = In(Counted)
    BY <2>2 DEF In
  <2>4. \A u \in Threads : Joined(u) => Joined(u)'
    BY <1>1, <1>3, <2>2 DEF Joined
  <2> QED
    BY <1>1, <1>3, <2>2, <2>3, <2>4 DEF JoinInv
<1>4. ASSUME NEW t \in Threads, SpawnThread(k, t)
      PROVE  JoinInv'
  <2>1. /\ ~shutdown /\ pc[t] = "unborn" /\ worker_threads' = worker_threads \cup {t}
        /\ \A u \in Threads : pc'[u] = IF u = t THEN "starting" ELSE pc[u]
    BY <1>1, <1>4 DEF SpawnThread, Push, TypeOK
  <2>2. In(Counted)' \subseteq In(Counted) \cup {t}
    BY <2>1 DEF In
  <2>3. \A u \in Threads : Joined(u) => Joined(u)'
    BY <1>1, <2>1 DEF Joined
  <2>4. Joined(t)'
    BY <2>1 DEF Joined
  <2> QED
    BY <1>1, <2>1, <2>2, <2>3, <2>4 DEF JoinInv
<1>5. CASE SpawnNotify(k)
  BY <1>1, <1>2, <1>3, <1>5, OneNotified DEF SpawnNotify, Push
<1> QED
  BY <1>2, <1>4, <1>5
     DEF Spawn, SpawnShuttingDown, SpawnAtCap, SpawnFails, shared

\* The shutdown takes over every handle, and the owner returns only after the
\* threads it has handles of and those they join.
LEMMA OwnerJoins ==
  ASSUME IInv, JoinInv,
         Shutdown \/ AllSendersDropped \/ WaitTimesOut \/ JoinAll \/ UNCHANGED vars
  PROVE  JoinInv'
<1>1. TypeOK
  BY DEF IInv
<1>2. CASE Shutdown
  <2>1. /\ owner' = "waiting" /\ shutdown' = TRUE /\ join_on_thread' = join_on_thread
        /\ owner = "using"
        /\ \A u \in Threads : pc'[u] = IF pc[u] = "waiting" THEN "woken" ELSE pc[u]
        /\ to_join' = worker_threads \cup ({last_exiting_thread} \ {NoThread})
        /\ worker_threads' = {} /\ last_exiting_thread' = NoThread
    BY <1>2 DEF Shutdown, NotifyAll
  <2>2. ASSUME NEW u \in Threads, pc'[u] \notin {"unborn", "exited"}
        PROVE  Joined(u)'
    <3>1. Joined(u) /\ u # NoThread
      BY <2>1, <2>2, ThreadsAssumption DEF JoinInv
    <3>2. CASE u \in to_join
      BY <2>1, <3>1, <3>2 DEF JoinInv, Joined
    <3> QED
      BY <2>1, <3>1, <3>2 DEF Joined
  <2> QED
    BY <2>1, <2>2 DEF JoinInv
<1>3. CASE AllSendersDropped
  BY <1>3 DEF AllSendersDropped, shared, JoinInv, Joined, In
<1>4. CASE WaitTimesOut
  BY <1>4 DEF WaitTimesOut, shared, JoinInv, In
<1>5. CASE JoinAll
  <2>1. /\ In(HoldsTx) = {} /\ \A t \in to_join : pc[t] = "exited"
        /\ owner' = "returned" /\ owner = "joining" /\ pc' = pc /\ UNCHANGED shared
    BY <1>5 DEF JoinAll, JoinInv
  <2>2. worker_threads = {} /\ last_exiting_thread = NoThread
    BY <2>1 DEF JoinInv
  <2>3. \A t \in Threads : pc[t] \in {"unborn", "exited"}
    BY <2>1, <2>2, ThreadsAssumption DEF JoinInv, Joined, In, HoldsTx
  <2> QED
    BY <2>1, <2>2, <2>3 DEF JoinInv, In, shared
<1>6. CASE UNCHANGED vars
  BY <1>6 DEF vars, shared, JoinInv, Joined, In
<1> QED
  BY <1>2, <1>3, <1>4, <1>5, <1>6

-----------------------------------------------------------------------------
(***************************************************************************)
(* The results.                                                            *)
(***************************************************************************)
PoolInv == IInv /\ TaskInv /\ JoinInv

LEMMA InitPoolInv == Init => PoolInv
<1> SUFFICES ASSUME Init PROVE PoolInv
  OBVIOUS
<1>1. TaskInv
  BY DEF Init, TaskInv, AtTask
<1>2. JoinInv
  BY States DEF Init, JoinInv, In
<1> QED
  BY <1>1, <1>2, InitIInv DEF PoolInv

LEMMA NextPoolInv == PoolInv /\ [Next]_vars => PoolInv'
<1> SUFFICES ASSUME PoolInv, [Next]_vars PROVE PoolInv'
  OBVIOUS
<1>1. IInv /\ TypeOK /\ TaskInv /\ JoinInv
  BY DEF PoolInv, IInv
<1>2. IInv'
  BY <1>1, NextIInv
<1>3. TaskInv'
  BY <1>1, NextIsTaskStep, TaskStepKeeps
<1>4. JoinInv'
  BY <1>1, SpawnJoins, ThreadStepJoins, OwnerJoins DEF Next
<1> QED
  BY <1>2, <1>3, <1>4 DEF PoolInv

\* The invariant of the tasks and of the joins holds in every reachable state.
THEOREM PoolInvariant == Spec => []PoolInv
BY InitPoolInv, NextPoolInv, PTL DEF Spec

\* When BlockingPool::shutdown without a timeout returns, no thread of the pool
\* is left, those that had timed out before included, and every accepted task
\* has run or was cancelled: for any number of threads, tasks and any cap.
THEOREM ShutdownIsComplete == Spec => []ShutdownComplete
<1>1. ASSUME PoolInv PROVE ShutdownComplete
  <2>1. IInv /\ TypeOK /\ TaskInv /\ JoinInv /\ NoStrandedTask
    BY <1>1 DEF PoolInv, IInv
  <2>2. SUFFICES ASSUME owner = "returned"
                 PROVE  /\ \A t \in Threads : pc[t] \in {"unborn", "exited"}
                        /\ \A k \in Tasks :
                             reply[k] = "ok" => status[k] \in {"done", "cancelled"}
    BY DEF ShutdownComplete
  <2>3. shutdown /\ \A t \in Threads : pc[t] \in {"unborn", "exited"}
    BY <2>1, <2>2 DEF JoinInv
  <2>4. ASSUME NEW k \in Tasks, reply[k] = "ok"
        PROVE  status[k] \in {"done", "cancelled"}
    <3>1. status[k] # "queued"
      <4>1. ~AcceptedInQueue
        BY <2>1, <2>3, States DEF NoStrandedTask, In
      <4> QED
        BY <2>1, <2>4, <4>1 DEF TaskInv, AcceptedInQueue
    <3>2. status[k] # "running"
      <4>1. \A t \in Threads : task[t] = NoTask
        BY <2>1, <2>3 DEF TaskInv, AtTask
      <4> QED
        BY <2>1, <4>1, TasksAssumption DEF TaskInv
    <3>3. status[k] # "new"
      BY <2>1, <2>4 DEF TaskInv
    <3> QED
      BY <2>1, <3>1, <3>2, <3>3 DEF TypeOK
  <2> QED
    BY <2>3, <2>4
<1> QED
  BY <1>1, PoolInvariant, PTL

\* There are as many running tasks as threads that run one, fewer than the
\* cap while one more thread is counted.
LEMMA RunningBelowCap ==
  ASSUME IInv, TaskInv, NEW t \in Threads, pc[t] \in Counted \ AtTask
  PROVE  Cardinality(Abstract!Running) < ThreadCap
<1> DEFINE R == Abstract!Running
           f == [u \in In(AtTask) |-> task[u]]
<1>1. /\ IsFiniteSet(In(AtTask)) /\ Cardinality(In(AtTask)) \in Nat
      /\ IsFiniteSet(In(Counted)) /\ Cardinality(In(Counted)) \in Nat
  BY Counting
<1>2. f \in [In(AtTask) -> R]
  BY DEF TaskInv, In, Abstract!Running
<1>3. \A k \in R : \E u \in In(AtTask) : f[u] = k
  BY TasksAssumption DEF TaskInv, In, Abstract!Running
<1>4. f \in Surjection(In(AtTask), R)
  BY <1>2, <1>3 DEF Surjection
<1>5. IsFiniteSet(R) /\ Cardinality(R) <= Cardinality(In(AtTask))
  <2> HIDE DEF f
  <2> QED
    BY <1>1, <1>4, FS_Surjection
<1>6. /\ In(AtTask) \subseteq In(Counted) \ {t} /\ t \in In(Counted)
  BY States DEF In, AtTask
<1>7. Cardinality(In(AtTask)) <= Cardinality(In(Counted)) - 1
  <2>1. /\ IsFiniteSet(In(Counted) \ {t})
        /\ Cardinality(In(Counted) \ {t}) = Cardinality(In(Counted)) - 1
    BY <1>1, <1>6, FS_RemoveElement
  <2> QED
    BY <1>6, <2>1, FS_Subset
<1>8. Cardinality(In(Counted)) <= ThreadCap
  BY DEF IInv, ThreadAccounting
<1>9. Cardinality(R) \in Nat
  BY <1>5, FS_CardinalityType
<1> QED
  BY <1>1, <1>5, <1>7, <1>8, <1>9, ThreadCapAssumption

\* Every step of the pool is a step of TaskPool or changes nothing there.
LEMMA TaskStepRefines ==
  ASSUME IInv, TaskInv, TaskStep
  PROVE  [Abstract!Next]_Abstract!vars
<1>1. CASE Rests /\ shutdown' = shutdown
  BY <1>1 DEF Rests, Abstract!vars
<1>2. CASE Rests /\ ~shutdown /\ shutdown' = TRUE
  <2>1. Abstract!Close
    BY <1>2 DEF Rests, Abstract!Close
  <2> QED
    BY <2>1 DEF Abstract!Next
<1>3. ASSUME NEW k \in Tasks, Submitted(k) \/ Rejected(k)
      PROVE  Abstract!Next
  <2>1. Abstract!Submit(k) \/ Abstract!Reject(k)
    BY <1>3 DEF Submitted, Rejected, Abstract!Submit, Abstract!Reject
  <2> QED
    BY <2>1 DEF Abstract!Next
<1>4. ASSUME NEW t \in Threads, Started(t)
      PROVE  Abstract!Next
  <2>1. Cardinality(Abstract!Running) < ThreadCap
    BY <1>4, RunningBelowCap DEF Started
  <2>2. Abstract!Start
    <3>1. /\ queue # <<>> /\ queue' = Tail(queue)
          /\ status' = [status EXCEPT ![Head(queue)] = "running"]
          /\ UNCHANGED <<reply, shutdown>>
      BY <1>4 DEF Started
    <3>2. Abstract!Cardinality(Abstract!Running) = Cardinality(Abstract!Running)
      BY DEF Abstract!Cardinality, Cardinality
    <3> QED
      BY <2>1, <3>1, <3>2 DEF Abstract!Start
  <2> QED
    BY <2>2 DEF Abstract!Next
<1>5. ASSUME NEW t \in Threads, Finished(t)
      PROVE  Abstract!Next
  <2>1. task[t] \in Tasks /\ status[task[t]] = "running"
    BY <1>5 DEF TaskInv, Finished
  <2>2. Abstract!Finish(task[t])
    BY <1>5, <2>1 DEF Finished, Abstract!Finish
  <2> QED
    BY <2>1, <2>2 DEF Abstract!Next
<1>6. CASE Cancelled
  <2>1. Abstract!Cancel
    BY <1>6 DEF Cancelled, Abstract!Cancel
  <2> QED
    BY <2>1 DEF Abstract!Next
<1> QED
  BY <1>1, <1>2, <1>3, <1>4, <1>5, <1>6 DEF TaskStep

\* The threads, the lock, the wakeups and the drain implement TaskPool: tasks
\* start in the order they were accepted, at most ThreadCap run at a time, each
\* at most once, and none is dropped but at the shutdown, a mandatory one never.
THEOREM Implements == Spec => ImplementsTaskPool
<1>1. Init => Abstract!Init
  BY DEF Init, Abstract!Init
<1>2. PoolInv /\ [Next]_vars => [Abstract!Next]_Abstract!vars
  <2> SUFFICES ASSUME PoolInv, [Next]_vars PROVE [Abstract!Next]_Abstract!vars
    OBVIOUS
  <2>1. IInv /\ TaskInv
    BY DEF PoolInv
  <2> QED
    BY <2>1, NextIsTaskStep, TaskStepRefines
<1> QED
  BY <1>1, <1>2, PoolInvariant, PTL DEF Spec, ImplementsTaskPool, Abstract!Spec
=============================================================================
