SPECIFICATION FairSpec
CONSTANTS
    w1 = w1
    w2 = w2
    k1 = k1
    k2 = k2
    Workers = {w1, w2}
    Tasks = {k1, k2}
    Threads = {t1, t2}
    Main = main
    Source = source
    NoWorker = no_worker
    NoTask = no_task
    NoActor = no_actor
    Clients <- Programs
INVARIANTS RefsMatch ExclusiveAccess
PROPERTIES NoWakeupLost ShutdownFinishes
CHECK_DEADLOCK FALSE
