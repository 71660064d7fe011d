\* Three threads: enough for two to start while a third one, spawned by main
\* or by one of them, is on its way.
CONSTANTS
  a1 = a1  a2 = a2
  StartArgs = {a1, a2}
  TidSpace = 3
  MaxSpawns = 3
  NestedSpawn = TRUE
SPECIFICATION FairSpec
INVARIANTS
  TidsUnique
  ExactlyOneWorkerPerSpawn
  TypeOK
PROPERTY SpawnedByMainStarts
\* The program may have ended with every thread.
CHECK_DEADLOCK FALSE
