CONSTANTS
  t1 = t1  t2 = t2  t3 = t3
  k1 = k1  k2 = k2  k3 = k3
  Schedulers = {k1}
  ThreadCap = 2
  NoThread = NoThread
  NoTask = NoTask
  TidSpace = 8
  MaxSpawns = 3
  Threads = {t1, t2}
  Tasks = {k1, k2}
  Mandatory = {}
  Cases <- Nested
SPECIFICATION FairSpec
PROPERTY BlockingTaskRuns
CHECK_DEADLOCK FALSE
