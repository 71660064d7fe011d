CONSTANTS
  t1 = t1  t2 = t2  t3 = t3
  k1 = k1  k2 = k2  k3 = k3
  Schedulers = {k1}
  ThreadCap = 2
  NoThread = NoThread
  NoTask = NoTask
  TidSpace = 8
  MaxSpawns = 3
  Threads = {t1, t2, t3}
  Tasks = {k1, k2, k3}
  Mandatory = {k2}
  Cases <- RegularOrNot
SPECIFICATION FairSpec
INVARIANTS
  NoThreadRunsTwice
  NoTaskStrandedByHost
PROPERTIES
  BlockingTaskRunsRegularly
  ShutdownWaitsOnlyForTasks
\* The program may have ended with every thread.
CHECK_DEADLOCK FALSE
