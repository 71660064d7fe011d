-------------------------- MODULE WasiThreads_proofs --------------------------
(***************************************************************************)
(* Thread ids, for any counter width and any interleaving of spawns from   *)
(* the main worker and from threads, up to as many spawns as the counter   *)
(* has values (SpawnsAssumption): beyond that the counter wraps and the    *)
(* theorem would be false.                                                 *)
(***************************************************************************)
EXTENDS WasiThreads, FiniteSetTheorems, SequenceTheorems, TLAPS

\* The counter is the number of calls so far, wrapped; the n-th call got n - 1.
Counted ==
  /\ Len(spawns) <= MaxSpawns
  /\ nextTid = IF Len(spawns) = TidSpace THEN 0 ELSE Len(spawns)
  /\ \A i \in DOMAIN spawns : spawns[i].tid = i - 1

\* The inductive invariant.
IInv == TypeOK /\ Counted

\* The counter goes up by one and wraps to 0 at its width, as TakeTid has it.
LEMMA Wraps ==
  ASSUME NEW n \in Nat, NEW m \in Nat \ {0}, n < m
  PROVE  (n + 1) % m = IF n + 1 = m THEN 0 ELSE n + 1
<1>1. CASE n + 1 = m
  <2>1. (n + 1) % m = m % m
    BY <1>1
  <2>2. m % m = 0
    OBVIOUS
  <2> QED
    BY <1>1, <2>1, <2>2
<1>2. CASE n + 1 < m
  BY <1>2
<1> QED
  BY <1>1, <1>2

\* A call of thread-spawn, whoever makes it, keeps the invariant's part on
\* the counter and the history, and the other variables' types.
LEMMA CalledStep ==
  ASSUME IInv, NEW caller \in Nat, NEW arg \in StartArgs, Called(caller, arg)
  PROVE  /\ Counted'
         /\ nextTid' \in 0..(TidSpace - 1)
         /\ spawns' \in Seq(Call)
         /\ [tid |-> nextTid, startArg |-> arg] \in Message
<1> DEFINE c == [tid |-> nextTid, startArg |-> arg, by |-> caller]
<1>1. /\ TidSpace \in Nat \ {0} /\ MaxSpawns \in Nat /\ MaxSpawns <= TidSpace
      /\ nextTid \in Nat /\ nextTid < TidSpace /\ nextTid \in 0..(TidSpace - 1)
      /\ spawns \in Seq(Call) /\ Len(spawns) \in Nat /\ Len(spawns) < MaxSpawns
  BY SpawnsAssumption DEF IInv, TypeOK, Called
<1>2. nextTid = Len(spawns)
  BY <1>1 DEF IInv, Counted
<1>3. nextTid' = IF nextTid + 1 = TidSpace THEN 0 ELSE nextTid + 1
  BY <1>1, Wraps DEF Called, TakeTid
<1>4. c \in Call /\ spawns' = Append(spawns, c)
  BY <1>1 DEF Called, Call
<1>5. /\ spawns' \in Seq(Call) /\ Len(spawns') = Len(spawns) + 1
      /\ DOMAIN spawns' = 1..(Len(spawns) + 1)
      /\ \A i \in 1..(Len(spawns) + 1) :
           spawns'[i] = IF i = Len(spawns) + 1 THEN c ELSE spawns[i]
  BY <1>1, <1>4
<1>6. \A i \in DOMAIN spawns' : spawns'[i].tid = i - 1
  BY <1>1, <1>2, <1>5 DEF IInv, Counted
<1>7. nextTid' \in 0..(TidSpace - 1)
  BY <1>1, <1>3
<1>8. nextTid' = IF Len(spawns') = TidSpace THEN 0 ELSE Len(spawns')
  BY <1>1, <1>2, <1>3, <1>5
<1>9. Len(spawns') <= MaxSpawns
  BY <1>1, <1>5
<1>10. Counted'
  BY <1>6, <1>8, <1>9 DEF Counted
<1> QED
  BY <1>1, <1>5, <1>7, <1>10 DEF Message

\* The page, the program and no thread at all: the invariant holds at the start.
LEMMA InitIInv == Init => IInv
<1> SUFFICES ASSUME Init PROVE IInv
  OBVIOUS
<1>1. TypeOK
  BY SpawnsAssumption DEF Init, TypeOK
<1>2. Counted
  BY SpawnsAssumption DEF Init, Counted
<1> QED
  BY <1>1, <1>2 DEF IInv

\* Every step keeps the invariant.
LEMMA NextIInv == IInv /\ [Next]_vars => IInv'
<1> SUFFICES ASSUME IInv, [Next]_vars PROVE IInv'
  OBVIOUS
<1>t. TypeOK /\ Counted
  BY DEF IInv
<1>1. CASE UNCHANGED vars
  BY <1>t, <1>1 DEF vars, IInv, TypeOK, Counted
<1>2. CASE MainReceives \/ MainCompiled \/ MainStarts \/ MainFails \/ MainEnds
  BY <1>t, <1>2 DEF MainReceives, MainCompiled, MainStarts, MainFails, MainEnds,
     MainMoves, IInv, TypeOK, Counted
<1>3. ASSUME NEW arg \in StartArgs, SpawnFromMain(arg) PROVE IInv'
  <2>1. Called(0, arg)
    BY <1>3 DEF SpawnFromMain
  <2>2. /\ Counted' /\ nextTid' \in 0..(TidSpace - 1) /\ spawns' \in Seq(Call)
        /\ [tid |-> nextTid, startArg |-> arg] \in Message
    BY <2>1, CalledStep
  <2>3. mainPort' \in Seq(Message)
    BY <1>t, <1>3, <2>2 DEF SpawnFromMain, TypeOK
  <2> QED
    BY <1>t, <1>3, <2>1, <2>2, <2>3 DEF SpawnFromMain, Called, IInv, TypeOK
<1>4. CASE PageReceives
  <2> DEFINE w == [msg |-> Head(mainPort), pc |-> "loading"]
  <2>1. mainPort \in Seq(Message) /\ mainPort # <<>>
    BY <1>t, <1>4 DEF TypeOK, PageReceives
  <2>2. Head(mainPort) \in Message /\ Tail(mainPort) \in Seq(Message)
    BY <2>1
  <2>3. w \in Worker
    BY <2>2 DEF Worker
  <2>4. workers' \in Seq(Worker) /\ mainPort' \in Seq(Message)
    BY <1>t, <1>4, <2>2, <2>3 DEF TypeOK, PageReceives
  <2> QED
    BY <1>t, <1>4, <2>4 DEF PageReceives, IInv, TypeOK, Counted
<1>5. ASSUME NEW w \in DOMAIN workers,
             WorkerReceives(w) \/ WorkerStarts(w) \/ WorkerFails(w) \/ WorkerEnds(w)
      PROVE  IInv'
  <2>1. PICK from \in {"loading", "instantiating", "running"},
             to \in {"instantiating", "running", "ended", "failed"} : WorkerMoves(w, from, to)
    BY <1>5 DEF WorkerReceives, WorkerStarts, WorkerFails, WorkerEnds
  <2>2. workers \in Seq(Worker) /\ workers[w] \in Worker
    BY <1>t DEF TypeOK
  <2>3. [workers[w] EXCEPT !.pc = to] \in Worker
    BY <2>2 DEF Worker
  <2>4. workers' = [workers EXCEPT ![w] = [workers[w] EXCEPT !.pc = to]]
    BY <2>1, <2>2 DEF WorkerMoves
  <2>5. workers' \in Seq(Worker)
    BY <2>2, <2>3, <2>4
  <2> QED
    BY <1>t, <2>1, <2>5 DEF WorkerMoves, IInv, TypeOK, Counted
<1>6. ASSUME NEW w \in DOMAIN workers, NEW arg \in StartArgs, SpawnFromThread(w, arg)
      PROVE  IInv'
  <2>1. Called(w, arg) /\ w \in Nat
    BY <1>t, <1>6 DEF SpawnFromThread, TypeOK
  <2>2. /\ Counted' /\ nextTid' \in 0..(TidSpace - 1) /\ spawns' \in Seq(Call)
        /\ [tid |-> nextTid, startArg |-> arg] \in Message
    BY <2>1, CalledStep
  <2>3. unheard' \in Seq(Message)
    BY <1>t, <1>6, <2>2 DEF SpawnFromThread, TypeOK
  <2> QED
    BY <1>t, <1>6, <2>1, <2>2, <2>3 DEF SpawnFromThread, Called, IInv, TypeOK
<1> QED
  BY <1>1, <1>2, <1>3, <1>4, <1>5, <1>6 DEF Next

-----------------------------------------------------------------------------
\* The counter and the history agree in every reachable state.
THEOREM Invariant == Spec => []IInv
<1> QED
  BY InitIInv, NextIInv, PTL DEF Spec

\* Every variable keeps its type.
THEOREM TypeCorrect == Spec => []TypeOK
<1>1. IInv => TypeOK
  BY DEF IInv
<1> QED
  BY <1>1, Invariant, PTL

\* No two calls of thread-spawn return the same tid, on whichever workers they
\* run (importObject.ts:46-58).
THEOREM TidsNeverRepeat == Spec => []TidsUnique
<1>1. IInv => TidsUnique
  <2> SUFFICES ASSUME IInv, NEW i \in DOMAIN spawns, NEW j \in DOMAIN spawns,
                      spawns[i].tid = spawns[j].tid
               PROVE  i = j
    BY DEF TidsUnique
  <2>1. i \in Nat /\ j \in Nat
    BY DEF IInv, TypeOK
  <2> QED
    BY <2>1 DEF IInv, Counted
<1> QED
  BY <1>1, Invariant, PTL

-----------------------------------------------------------------------------
(***************************************************************************)
(* One worker for each spawn of the main worker.                           *)
(***************************************************************************)
\* The calls of the main worker are counted.
LEMMA CallsCounted ==
  ASSUME TypeOK
  PROVE  /\ IsFiniteSet(MainCalls) /\ Cardinality(MainCalls) \in Nat
         /\ MainCalls \subseteq 1..Len(spawns) /\ Len(spawns) \in Nat
<1>1. MainCalls \subseteq 1..Len(spawns) /\ Len(spawns) \in Nat
  BY DEF TypeOK, MainCalls
<1>2. IsFiniteSet(1..Len(spawns))
  BY <1>1, FS_Interval
<1> QED
  BY <1>1, <1>2, FS_Subset, FS_CardinalityType

\* The rank of a call is one of the places of the messages.
LEMMA RankBounds ==
  ASSUME TypeOK, NEW i \in MainCalls
  PROVE  Rank(i) \in 1..Cardinality(MainCalls)
<1> DEFINE upTo == {j \in MainCalls : j <= i}
<1>1. IsFiniteSet(MainCalls) /\ Cardinality(MainCalls) \in Nat /\ i \in Nat
  BY CallsCounted
<1>2. upTo \subseteq MainCalls /\ i \in upTo
  BY <1>1
<1>3. /\ IsFiniteSet(upTo) /\ Cardinality(upTo) <= Cardinality(MainCalls)
      /\ Cardinality(upTo) \in Nat
  BY <1>1, <1>2, FS_Subset, FS_CardinalityType
<1>4. Cardinality(upTo) # 0
  BY <1>2, <1>3, FS_EmptySet
<1> QED
  BY <1>1, <1>3, <1>4 DEF Rank

\* The messages, place by place: the workers', then the port's.
LEMMA PostedPlaces ==
  ASSUME NEW ws \in Seq(Worker), NEW port \in Seq(Message)
  PROVE  LET p == [w \in DOMAIN ws |-> ws[w].msg] \o port
         IN  /\ p \in Seq(Message) /\ Len(p) = Len(ws) + Len(port)
             /\ \A i \in 1..Len(ws) : p[i] = ws[i].msg
             /\ \A i \in 1..Len(port) : p[Len(ws) + i] = port[i]
<1> DEFINE made == [w \in DOMAIN ws |-> ws[w].msg]
<1>1. /\ DOMAIN ws = 1..Len(ws) /\ Len(ws) \in Nat
      /\ \A w \in DOMAIN ws : ws[w].msg \in Message
  <2>1. \A w \in DOMAIN ws : ws[w] \in Worker
    OBVIOUS
  <2> QED
    BY <2>1 DEF Worker
<1>2. made \in [1..Len(ws) -> Message]
  BY <1>1
<1>3. made \in Seq(Message) /\ Len(made) = Len(ws) /\ \A i \in 1..Len(ws) : made[i] = ws[i].msg
  BY <1>1, <1>2
<1> HIDE DEF made
<1>4. /\ made \o port \in Seq(Message) /\ Len(made \o port) = Len(ws) + Len(port)
      /\ \A i \in 1..Len(ws) : (made \o port)[i] = made[i]
      /\ \A i \in 1..Len(port) : (made \o port)[Len(ws) + i] = port[i]
  <2>1. /\ made \o port \in Seq(Message) /\ Len(made \o port) = Len(ws) + Len(port)
        /\ \A i \in 1..(Len(ws) + Len(port)) :
             (made \o port)[i] = IF i <= Len(ws) THEN made[i] ELSE port[i - Len(ws)]
    BY <1>3, ConcatProperties
  <2>2. Len(port) \in Nat
    OBVIOUS
  <2>3. \A i \in 1..Len(port) : /\ Len(ws) + i \in 1..(Len(ws) + Len(port))
                                /\ ~(Len(ws) + i <= Len(ws))
                                /\ (Len(ws) + i) - Len(ws) = i
    BY <1>1, <2>2
  <2>4. \A i \in 1..Len(ws) : i \in 1..(Len(ws) + Len(port)) /\ i <= Len(ws)
    BY <1>1, <2>2
  <2> QED
    BY <2>1, <2>3, <2>4
<1>5. /\ made \o port \in Seq(Message) /\ Len(made \o port) = Len(ws) + Len(port)
      /\ \A i \in 1..Len(ws) : (made \o port)[i] = ws[i].msg
      /\ \A i \in 1..Len(port) : (made \o port)[Len(ws) + i] = port[i]
  BY <1>3, <1>4
<1> QED
  BY <1>5 DEF made

\* When neither the messages nor the calls of the main worker change, and every
\* call keeps what it passed, the property keeps too.
LEMMA PostedKept ==
  ASSUME TypeOK, ExactlyOneWorkerPerSpawn, Len(Posted') = Len(Posted),
         \A i \in 1..Len(Posted) : Posted'[i] = Posted[i],
         MainCalls' = MainCalls, \A i \in MainCalls : spawns'[i] = spawns[i]
  PROVE  ExactlyOneWorkerPerSpawn'
<1>1. \A i \in MainCalls : Rank(i)' = Rank(i)
  BY DEF Rank
<1>2. \A i \in MainCalls : Rank(i) \in 1..Len(Posted)
  BY RankBounds DEF ExactlyOneWorkerPerSpawn
<1> QED
  BY <1>1, <1>2 DEF ExactlyOneWorkerPerSpawn

\* A call of the main worker is the last of its calls, and posts the last message.
LEMMA SpawnFromMainPosts ==
  ASSUME TypeOK, ExactlyOneWorkerPerSpawn, NEW arg \in StartArgs, SpawnFromMain(arg)
  PROVE  ExactlyOneWorkerPerSpawn'
<1> DEFINE m == [tid |-> nextTid, startArg |-> arg]
           c == [tid |-> nextTid, startArg |-> arg, by |-> 0]
<1>0. PICK n \in Nat : n = Len(spawns) + 1
  BY DEF TypeOK
<1>1. /\ spawns \in Seq(Call) /\ Len(spawns) \in Nat /\ nextTid \in Nat
      /\ workers \in Seq(Worker) /\ mainPort \in Seq(Message)
      /\ spawns' = Append(spawns, c) /\ mainPort' = Append(mainPort, m)
      /\ workers' = workers
  BY SpawnsAssumption DEF TypeOK, SpawnFromMain, Called
<1>2. m \in Message /\ mainPort' \in Seq(Message) /\ Len(mainPort') = Len(mainPort) + 1
      /\ Len(workers) \in Nat /\ Len(mainPort) \in Nat
      /\ mainPort'[Len(mainPort) + 1] = m
      /\ \A i \in 1..Len(mainPort) : mainPort'[i] = mainPort[i]
  BY <1>1 DEF Message
<1>3. /\ DOMAIN spawns' = 1..n /\ spawns'[n] = c
      /\ \A i \in 1..Len(spawns) : spawns'[i] = spawns[i]
  BY <1>0, <1>1
<1>4. MainCalls' = MainCalls \cup {n} /\ n \notin MainCalls /\ MainCalls \subseteq 1..Len(spawns)
  BY <1>0, <1>1, <1>3 DEF MainCalls
<1>5. /\ Cardinality(MainCalls') = Cardinality(MainCalls) + 1
      /\ Cardinality(MainCalls) \in Nat
  BY <1>4, CallsCounted, FS_AddElement
<1>6. /\ Len(Posted) = Len(workers) + Len(mainPort)
      /\ \A i \in 1..Len(workers) : Posted[i] = workers[i].msg
      /\ \A i \in 1..Len(mainPort) : Posted[Len(workers) + i] = mainPort[i]
  BY <1>1, PostedPlaces DEF Posted
<1>7. /\ Len(Posted') = Len(workers) + Len(mainPort) + 1
      /\ \A i \in 1..Len(workers) : Posted'[i] = workers[i].msg
      /\ \A i \in 1..(Len(mainPort) + 1) : Posted'[Len(workers) + i] = mainPort'[i]
  <2>1. Posted' = [w \in DOMAIN workers |-> workers[w].msg] \o mainPort'
    BY <1>1 DEF Posted
  <2>2. /\ Len(Posted') = Len(workers) + Len(mainPort')
        /\ \A i \in 1..Len(workers) : Posted'[i] = workers[i].msg
        /\ \A i \in 1..Len(mainPort') : Posted'[Len(workers) + i] = mainPort'[i]
    BY <1>1, <1>2, <2>1, PostedPlaces
  <2> QED
    BY <1>2, <2>2
<1>8. ASSUME NEW i \in 1..Len(Posted) PROVE Posted'[i] = Posted[i]
  <2>1. CASE i <= Len(workers)
    BY <1>6, <1>7, <1>8, <2>1
  <2>2. CASE i > Len(workers)
    <3>1. PICK j \in 1..Len(mainPort) : i = Len(workers) + j
      <4>1. i - Len(workers) \in 1..Len(mainPort) /\ i = Len(workers) + (i - Len(workers))
        BY <1>2, <1>6, <2>2
      <4> QED
        BY <4>1
    <3>2. Posted'[Len(workers) + j] = mainPort'[j] /\ Posted[Len(workers) + j] = mainPort[j]
      BY <1>2, <1>6, <1>7
    <3> QED
      BY <1>2, <3>1, <3>2
  <2> QED
    BY <1>1, <2>1, <2>2
<1>9. Posted'[Len(Posted) + 1] = m
  <2>1. Len(Posted) + 1 = Len(workers) + (Len(mainPort) + 1)
    BY <1>2, <1>6
  <2>2. Posted'[Len(workers) + (Len(mainPort) + 1)] = mainPort'[Len(mainPort) + 1]
    BY <1>2, <1>7
  <2> QED
    BY <1>2, <2>1, <2>2
<1>10. ASSUME NEW i \in MainCalls
       PROVE  /\ Rank(i)' = Rank(i) /\ Rank(i) \in 1..Len(Posted)
              /\ spawns'[i] = spawns[i]
  <2>1. {j \in MainCalls' : j <= i} = {j \in MainCalls : j <= i}
    BY <1>0, <1>1, <1>4
  <2> QED
    BY <1>3, <1>4, <2>1, RankBounds DEF Rank, ExactlyOneWorkerPerSpawn
<1>11. Rank(n)' = Len(Posted) + 1
  <2>1. \A j \in MainCalls' : j <= n
    BY <1>0, <1>1, <1>4
  <2>2. {j \in MainCalls' : j <= n} = MainCalls'
    BY <2>1
  <2> QED
    BY <1>5, <2>2 DEF Rank, ExactlyOneWorkerPerSpawn
<1> HIDE DEF m
<1>12. /\ spawns'[n].tid = nextTid /\ spawns'[n].startArg = arg
  BY <1>3
<1>13. \A i \in MainCalls' :
         Posted'[Rank(i)'] = [tid |-> spawns'[i].tid, startArg |-> spawns'[i].startArg]
  <2>1. \A i \in MainCalls :
          Posted'[Rank(i)'] = [tid |-> spawns'[i].tid, startArg |-> spawns'[i].startArg]
    BY <1>8, <1>10 DEF ExactlyOneWorkerPerSpawn
  <2>2. Posted'[Rank(n)'] = [tid |-> spawns'[n].tid, startArg |-> spawns'[n].startArg]
    BY <1>9, <1>11, <1>12 DEF m
  <2> QED
    BY <1>4, <2>1, <2>2
<1>14. Len(Posted') = Cardinality(MainCalls')
  BY <1>2, <1>5, <1>6, <1>7 DEF ExactlyOneWorkerPerSpawn
<1> QED
  BY <1>13, <1>14 DEF ExactlyOneWorkerPerSpawn

\* Handling the oldest message moves it from the port to a worker of its own.
LEMMA PageReceivesKeeps ==
  ASSUME TypeOK, TypeOK', ExactlyOneWorkerPerSpawn, PageReceives
  PROVE  ExactlyOneWorkerPerSpawn'
<1> DEFINE w == [msg |-> Head(mainPort), pc |-> "loading"]
<1>1. /\ workers \in Seq(Worker) /\ mainPort \in Seq(Message) /\ mainPort # <<>>
      /\ workers' = Append(workers, w) /\ mainPort' = Tail(mainPort) /\ spawns' = spawns
      /\ workers' \in Seq(Worker) /\ mainPort' \in Seq(Message)
  BY DEF TypeOK, PageReceives
<1>2. /\ Len(workers) \in Nat /\ Len(mainPort) \in Nat \ {0}
      /\ Len(workers') = Len(workers) + 1 /\ Len(mainPort') = Len(mainPort) - 1
      /\ \A i \in 1..Len(workers) : workers'[i] = workers[i]
      /\ workers'[Len(workers) + 1] = w
      /\ \A i \in 1..(Len(mainPort) - 1) : mainPort'[i] = mainPort[i + 1]
      /\ Head(mainPort) = mainPort[1]
  BY <1>1
<1>3. w.msg = mainPort[1]
  BY <1>2
<1> HIDE DEF w
<1>4. /\ Len(Posted) = Len(workers) + Len(mainPort)
      /\ \A i \in 1..Len(workers) : Posted[i] = workers[i].msg
      /\ \A i \in 1..Len(mainPort) : Posted[Len(workers) + i] = mainPort[i]
  BY <1>1, PostedPlaces DEF Posted
<1>5. /\ Len(Posted') = Len(workers') + Len(mainPort')
      /\ \A i \in 1..Len(workers') : Posted'[i] = workers'[i].msg
      /\ \A i \in 1..Len(mainPort') : Posted'[Len(workers') + i] = mainPort'[i]
  BY <1>1, PostedPlaces DEF Posted
<1>6. Len(Posted') = Len(Posted)
  BY <1>2, <1>4, <1>5
<1>7. ASSUME NEW i \in 1..Len(Posted) PROVE Posted'[i] = Posted[i]
  <2>1. CASE i <= Len(workers)
    <3>1. i \in 1..Len(workers) /\ i \in 1..Len(workers')
      BY <1>2, <2>1
    <3>2. Posted'[i] = workers'[i].msg
      BY <1>5, <3>1
    <3>3. Posted[i] = workers[i].msg
      BY <1>4, <3>1
    <3> QED
      BY <1>2, <3>1, <3>2, <3>3
  <2>2. CASE i = Len(workers) + 1
    <3>1. Len(workers) + 1 \in 1..Len(workers') /\ 1 \in 1..Len(mainPort)
      BY <1>2
    <3>2. Posted'[i] = w.msg
      BY <1>2, <1>5, <2>2, <3>1
    <3>3. Posted[i] = mainPort[1]
      BY <1>4, <2>2, <3>1
    <3> QED
      BY <1>3, <3>2, <3>3
  <2>3. CASE i > Len(workers) + 1
    <3> DEFINE j == i - Len(workers) - 1
    <3>1. /\ j \in 1..(Len(mainPort) - 1) /\ i = Len(workers') + j
          /\ j + 1 \in 1..Len(mainPort) /\ i = Len(workers) + (j + 1)
      BY <1>2, <1>4, <2>3
    <3> HIDE DEF j
    <3>2. Posted'[i] = mainPort'[j]
      BY <1>2, <1>5, <3>1
    <3>3. Posted[i] = mainPort[j + 1]
      BY <1>4, <3>1
    <3> QED
      BY <1>2, <3>1, <3>2, <3>3
  <2> QED
    BY <1>2, <1>4, <2>1, <2>2, <2>3
<1>8. MainCalls' = MainCalls /\ \A i \in MainCalls : spawns'[i] = spawns[i]
  BY <1>1 DEF MainCalls
<1> QED
  BY <1>6, <1>7, <1>8, PostedKept

\* The life of a worker does not change its message.
LEMMA WorkerMovesKeeps ==
  ASSUME TypeOK, TypeOK', ExactlyOneWorkerPerSpawn, NEW w \in DOMAIN workers,
         NEW from, NEW to, WorkerMoves(w, from, to)
  PROVE  ExactlyOneWorkerPerSpawn'
<1>1. /\ DOMAIN workers' = DOMAIN workers
      /\ \A v \in DOMAIN workers : workers'[v].msg = workers[v].msg
      /\ mainPort' = mainPort /\ spawns' = spawns
  BY DEF TypeOK, WorkerMoves, Worker
<1>2. Posted' = Posted
  BY <1>1 DEF Posted
<1>3. MainCalls' = MainCalls /\ \A i \in MainCalls : spawns'[i] = spawns[i]
  BY <1>1 DEF MainCalls
<1> QED
  BY <1>2, <1>3, PostedKept

\* A call from a thread is none of the main worker's.
LEMMA SpawnFromThreadKeeps ==
  ASSUME TypeOK, ExactlyOneWorkerPerSpawn, NEW w \in DOMAIN workers,
         NEW arg \in StartArgs, SpawnFromThread(w, arg)
  PROVE  ExactlyOneWorkerPerSpawn'
<1> DEFINE c == [tid |-> nextTid, startArg |-> arg, by |-> w]
<1>1. /\ spawns \in Seq(Call) /\ spawns' = Append(spawns, c) /\ w # 0
      /\ mainPort' = mainPort /\ workers' = workers
  BY DEF TypeOK, SpawnFromThread, Called
<1>2. /\ DOMAIN spawns' = 1..(Len(spawns) + 1) /\ DOMAIN spawns = 1..Len(spawns)
      /\ Len(spawns) \in Nat /\ spawns'[Len(spawns) + 1] = c
      /\ \A i \in 1..Len(spawns) : spawns'[i] = spawns[i]
  BY <1>1
<1>3. c.by # 0
  BY <1>1
<1> HIDE DEF c
<1>4. MainCalls' = MainCalls /\ \A i \in MainCalls : spawns'[i] = spawns[i]
  BY <1>2, <1>3 DEF MainCalls
<1>5. Posted' = Posted
  BY <1>1 DEF Posted
<1> QED
  BY <1>4, <1>5, PostedKept

\* Whatever threads and workers do and fail to do, the i-th thread the main
\* worker spawned has the i-th worker, or the message that will make it, with
\* its own tid and start_arg (importObject.ts:47-57, main.ts:12-28).
THEOREM OneWorkerPerSpawn == Spec => []ExactlyOneWorkerPerSpawn
<1>1. Init => ExactlyOneWorkerPerSpawn
  <2> SUFFICES ASSUME Init PROVE ExactlyOneWorkerPerSpawn
    OBVIOUS
  <2>1. MainCalls = {} /\ Cardinality(MainCalls) = 0
    BY FS_EmptySet DEF Init, MainCalls
  <2>2. Len(Posted) = 0
    BY PostedPlaces DEF Init, Posted
  <2> QED
    BY <2>1, <2>2 DEF ExactlyOneWorkerPerSpawn
<1>2. IInv /\ IInv' /\ ExactlyOneWorkerPerSpawn /\ [Next]_vars
        => ExactlyOneWorkerPerSpawn'
  <2> SUFFICES ASSUME TypeOK, TypeOK', ExactlyOneWorkerPerSpawn, [Next]_vars
               PROVE  ExactlyOneWorkerPerSpawn'
    BY DEF IInv
  <2>1. CASE UNCHANGED <<mainPort, workers, spawns>>
    BY <2>1 DEF ExactlyOneWorkerPerSpawn, Posted, MainCalls, Rank
  <2>2. CASE MainReceives \/ MainCompiled \/ MainStarts \/ MainFails \/ MainEnds
             \/ UNCHANGED vars
    BY <2>1, <2>2
       DEF MainReceives, MainCompiled, MainStarts, MainFails, MainEnds, MainMoves, vars
  <2>3. ASSUME NEW w \in DOMAIN workers,
               WorkerReceives(w) \/ WorkerStarts(w) \/ WorkerFails(w) \/ WorkerEnds(w)
        PROVE  ExactlyOneWorkerPerSpawn'
    BY <2>3, WorkerMovesKeeps DEF WorkerReceives, WorkerStarts, WorkerFails, WorkerEnds
  <2> QED
    BY <2>2, <2>3, SpawnFromMainPosts, PageReceivesKeeps, SpawnFromThreadKeeps DEF Next
<1> QED
  BY <1>1, <1>2, Invariant, PTL DEF Spec
=============================================================================
