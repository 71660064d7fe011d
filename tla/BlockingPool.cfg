\* One thread more than the pool may have at a time, so that threads time out,
\* join one another and are replaced before and during a shutdown; three tasks,
\* so that each of them can be made, or two run and one wait at the cap.
CONSTANTS
  t1 = t1  t2 = t2  t3 = t3
  k1 = k1  k2 = k2  k3 = k3
  Threads = {t1, t2, t3}
  Tasks = {k1, k2, k3}
  Mandatory = {k1}
  ThreadCap = 2
  NoThread = NoThread
  NoTask = NoTask
SPECIFICATION FairSpec
INVARIANTS
  IdleAccounting
  NoLostWakeup
  ThreadAccounting
  NoStrandedTask
  ShutdownComplete
  TypeOK
PROPERTIES
  ImplementsTaskPool
  AcceptedResolved
  ShutdownReturns
\* The system stops once every task is resolved and the pool is shut down.
CHECK_DEADLOCK FALSE
