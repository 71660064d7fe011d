---------------------------- MODULE WasiThreads ----------------------------
(***************************************************************************)
(* The browser host of the wasm program: the page (main.ts), the main      *)
(* worker that runs the program (main-worker.ts), the thread workers       *)
(* (thread-worker.ts), and the import wasi.thread-spawn (importObject.ts)  *)
(* through which the program makes a thread.                               *)
(*                                                                         *)
(* Each worker, and the page, is an event loop of its own; messages go     *)
(* through a FIFO port per worker.  thread-spawn takes a tid from the      *)
(* shared counter with an atomic add and posts one message on the port of  *)
(* the worker that called it.  Nobody but that worker reads or writes the  *)
(* port, so the add and the post are one action.                           *)
(***************************************************************************)
EXTENDS Naturals, Sequences, FiniteSets

CONSTANTS StartArgs,  \* the start_arg pointers the program passes
          TidSpace,   \* how many values the shared counter takes, 2^32
          MaxSpawns,  \* bound: how many threads the program spawns
          NestedSpawn \* whether the program also spawns from its threads

\* A page does not live to see its 2^32nd thread.
ASSUME SpawnsAssumption ==
  /\ TidSpace \in Nat \ {0}
  /\ MaxSpawns \in Nat
  /\ MaxSpawns <= TidSpace
ASSUME NestedSpawnAssumption == NestedSpawn \in BOOLEAN

VARIABLES
  main,      \* where the main worker is
  nextTid,   \* the shared counter, a Uint32 in a SharedArrayBuffer
  mainPort,  \* messages of the main worker the page has not handled yet
  unheard,   \* messages of thread workers, on whose ports nobody listens
  workers,   \* the thread workers in the order the page made them
  spawns     \* history: what each call of thread-spawn did

vars == <<main, nextTid, mainPort, unheard, workers, spawns>>

Message == [tid : Nat, startArg : StartArgs]
\* Who called thread-spawn: 0 is the main worker, w the w-th thread worker.
Call == [tid : Nat, startArg : StartArgs, by : Nat]
Worker == [msg : Message,
           pc : {"loading", "instantiating", "running", "ended", "failed"}]

\* The page has made the canvas and posted it to the main worker.
Init ==
  /\ main = "loading"
  /\ nextTid = 0
  /\ mainPort = <<>>
  /\ unheard = <<>>
  /\ workers = <<>>
  /\ spawns = <<>>

-----------------------------------------------------------------------------
(***************************************************************************)
(* The main worker: onmessage, up to wasi.start, which returns when the    *)
(* program does.  It handles one message only, and neither await can be    *)
(* interrupted by a second one that matters.                               *)
(***************************************************************************)
MainMoves(from, to) ==
  /\ main = from
  /\ main' = to
  /\ UNCHANGED <<nextTid, mainPort, unheard, workers, spawns>>

MainReceives == MainMoves("loading", "compiling")
MainCompiled == MainMoves("compiling", "instantiating")
MainStarts == MainMoves("instantiating", "running")
\* compileStreaming or instantiate rejects: onmessage rejects, unhandled.
MainFails == MainMoves("compiling", "failed") \/ MainMoves("instantiating", "failed")
\* The program returns, exits or traps; its threads go on.
MainEnds == MainMoves("running", "ended")

-----------------------------------------------------------------------------
(***************************************************************************)
(* thread-spawn.                                                           *)
(***************************************************************************)
\* Mutant of TakeTid: the counter is loaded, not added to.
LoadTid == UNCHANGED nextTid

\* Mutant of TakeTid: the counter is wider than its array element.
AddWide == nextTid' = nextTid + 1

\* Atomics.add, which returns the old value.
TakeTid == nextTid' = (nextTid + 1) % TidSpace

Called(caller, arg) ==
  /\ Len(spawns) < MaxSpawns
  /\ TakeTid
  /\ spawns' = Append(spawns, [tid |-> nextTid, startArg |-> arg, by |-> caller])
  /\ UNCHANGED <<main, workers>>

SpawnFromMain(arg) ==
  /\ main = "running"
  /\ Called(0, arg)
  /\ mainPort' = Append(mainPort, [tid |-> nextTid, startArg |-> arg])
  /\ UNCHANGED unheard

\* The same import in a thread worker: its self.postMessage goes to the
\* page's end of its own port, where main.ts sets no onmessage.
SpawnFromThread(w, arg) ==
  /\ NestedSpawn
  /\ workers[w].pc = "running"
  /\ Called(w, arg)
  /\ unheard' = Append(unheard, [tid |-> nextTid, startArg |-> arg])
  /\ UNCHANGED mainPort

-----------------------------------------------------------------------------
(***************************************************************************)
(* The page and the thread workers.                                        *)
(***************************************************************************)
\* Mutant of PageReceives: the newest message is handled first.
PageReceivesNewest ==
  /\ mainPort # <<>>
  /\ workers' = Append(workers, [msg |-> mainPort[Len(mainPort)], pc |-> "loading"])
  /\ mainPort' = SubSeq(mainPort, 1, Len(mainPort) - 1)
  /\ UNCHANGED <<main, nextTid, unheard, spawns>>

\* Mutant of PageReceives: the page makes a worker for the first message only.
PageReceivesOnce ==
  /\ mainPort # <<>>
  /\ workers' = IF workers = <<>>
                  THEN <<[msg |-> Head(mainPort), pc |-> "loading"]>>
                  ELSE workers
  /\ mainPort' = Tail(mainPort)
  /\ UNCHANGED <<main, nextTid, unheard, spawns>>

\* Mutant of PageReceives: the page listens twice and makes a worker each time.
PageReceivesTwice ==
  /\ mainPort # <<>>
  /\ LET worker == [msg |-> Head(mainPort), pc |-> "loading"] IN
       workers' = workers \o <<worker, worker>>
  /\ mainPort' = Tail(mainPort)
  /\ UNCHANGED <<main, nextTid, unheard, spawns>>

\* mainWorker.onmessage: a new worker per message, and the message posted on.
PageReceives ==
  /\ mainPort # <<>>
  /\ workers' = Append(workers, [msg |-> Head(mainPort), pc |-> "loading"])
  /\ mainPort' = Tail(mainPort)
  /\ UNCHANGED <<main, nextTid, unheard, spawns>>

WorkerMoves(w, from, to) ==
  /\ workers[w].pc = from
  /\ workers' = [workers EXCEPT ![w].pc = to]
  /\ UNCHANGED <<main, nextTid, mainPort, unheard, spawns>>

\* The script has set onmessage and the message is delivered.
WorkerReceives(w) == WorkerMoves(w, "loading", "instantiating")
\* wasi.initialize, then wasi_thread_start(tid, startArgPtr).
WorkerStarts(w) == WorkerMoves(w, "instantiating", "running")
\* The script does not load, or instantiate rejects.
WorkerFails(w) ==
  WorkerMoves(w, "loading", "failed") \/ WorkerMoves(w, "instantiating", "failed")
\* wasi_thread_start returns or traps; the worker itself stays.
WorkerEnds(w) == WorkerMoves(w, "running", "ended")

Next ==
  \/ MainReceives \/ MainCompiled \/ MainStarts \/ MainFails \/ MainEnds
  \/ \E arg \in StartArgs : SpawnFromMain(arg)
  \/ PageReceives
  \/ \E w \in DOMAIN workers :
       \/ WorkerReceives(w) \/ WorkerStarts(w) \/ WorkerFails(w) \/ WorkerEnds(w)
       \/ \E arg \in StartArgs : SpawnFromThread(w, arg)

Spec == Init /\ [][Next]_vars

\* Event loops turn and promises settle.  Nothing is assumed of what the
\* program does, nor that a thread ends.
Fairness ==
  /\ WF_vars(MainReceives)
  /\ WF_vars(MainCompiled \/ MainFails) /\ WF_vars(MainStarts \/ MainFails)
  /\ WF_vars(PageReceives)
  /\ \A w \in 1..MaxSpawns :
       /\ WF_vars(w \in DOMAIN workers /\ (WorkerReceives(w) \/ WorkerFails(w)))
       /\ WF_vars(w \in DOMAIN workers /\ (WorkerStarts(w) \/ WorkerFails(w)))

FairSpec == Spec /\ Fairness

-----------------------------------------------------------------------------
(***************************************************************************)
(* What the host keeps.                                                    *)
(***************************************************************************)
\* The types; the shared counter stays within its array element.
TypeOK ==
  /\ main \in {"loading", "compiling", "instantiating", "running", "ended", "failed"}
  /\ nextTid \in 0..(TidSpace - 1)
  /\ mainPort \in Seq(Message)
  /\ unheard \in Seq(Message)
  /\ workers \in Seq(Worker)
  /\ spawns \in Seq(Call)

\* No two threads are ever given the same tid, whoever spawns them.
TidsUnique ==
  \A i, j \in DOMAIN spawns : spawns[i].tid = spawns[j].tid => i = j

\* The calls the main worker made, and which of them, counted from 1, call i is.
MainCalls == {i \in DOMAIN spawns : spawns[i].by = 0}
Rank(i) == Cardinality({j \in MainCalls : j <= i})

\* The messages the page has made a worker for, in the order of the workers,
\* and then those it has not handled yet.
Posted == [w \in DOMAIN workers |-> workers[w].msg] \o mainPort

\* Every thread the main worker spawns gets one worker, with its own tid and
\* start_arg, in the order of the calls; nothing else gets one.
ExactlyOneWorkerPerSpawn ==
  /\ Len(Posted) = Cardinality(MainCalls)
  /\ \A i \in MainCalls :
       Posted[Rank(i)] = [tid |-> spawns[i].tid, startArg |-> spawns[i].startArg]

\* A thread the main worker spawned comes to run, unless its worker cannot be
\* made to; and nothing the main worker does can prevent it.
SpawnedByMainStarts ==
  \A n \in 1..MaxSpawns :
    Cardinality(MainCalls) >= n
      ~> /\ n \in DOMAIN workers
         /\ workers[n].pc \in {"running", "ended", "failed"}
=============================================================================
