SPECIFICATION FairSpec
CONSTANTS
  c1 = c1  c2 = c2  t1 = t1  t2 = t2  t3 = t3  t4 = t4
  D = D  Owner = Owner  NoTask = NoTask
  THREAD_COUNT = 1
  QUEUE_SIZE = 2
  Clients = {c1}
  Tasks = {t1, t2}
  EmptyTasks = {}
  TSO = TRUE
  Spawn <- NoSpawn
CHECK_DEADLOCK FALSE
PROPERTY EveryTaskRuns
