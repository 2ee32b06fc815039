SPECIFICATION PoolSpec
CONSTANTS
  a = a  b = b  c = c  Junk = Junk  Dead = Dead  None = None
  Producers = {a, b, c}
  Consumers = {a, b, c}
  Probers = {}
  Values = {0, 1}
  SIZE = 2
  BATCH_SIZE = 1
  SizeTBits = 4
  BatchCounts = {}
  Forms = {"enqueue"}
  TriviallyDestructible = TRUE
  MayThrow = FALSE
  MaxTickets = 6
  Pairs = 4
CHECK_DEADLOCK FALSE
INVARIANTS IndexInOnePlace ReturnNeverWaitsForRoom
PROPERTY WorkloadFinishes
