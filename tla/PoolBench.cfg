SPECIFICATION Spec
CONSTANTS
  Workers = {w1, w2}
  Tables <- AllTables
  Knobs = {0, 2, 5, 8}
  DefaultReps = 1
  IntBits = 3
  N = 3
CHECK_DEADLOCK FALSE
INVARIANTS LocalsAlive WatchdogNamesCulprit
PROPERTIES HangIsKilled BenchFinishes
