SPECIFICATION FairSpec
CONSTANTS
  c1 = c1  c2 = c2  t1 = t1  t2 = t2  t3 = t3  t4 = t4
  D = D  Owner = Owner  NoTask = NoTask
  THREAD_COUNT = 2
  QUEUE_SIZE = 1
  Clients = {c1}
  Tasks = {t1, t2, t3, t4}
  EmptyTasks = {t3, t4}
  TSO = FALSE
  Spawn <- T1SpawnsT2
CHECK_DEADLOCK FALSE
INVARIANT NoLostWakeup
PROPERTIES OnlyLostWorkersWedge DestructorReturns IdleDispatcherSleeps
