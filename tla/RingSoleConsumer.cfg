SPECIFICATION Spec
CONSTANTS
  p1 = p1  p2 = p2  c1 = c1  c2 = c2  v1 = v1  v2 = v2
  Junk = Junk  Dead = Dead  None = None  Nobody = Nobody
  Producers = {p1, p2}
  Consumers = {c1}
  Probers = {c1}
  Values = {v1, v2}
  SIZE = 2
  BATCH_SIZE = 2
  SizeTBits = 4
  BatchCounts <- Counts
  Forms = {"enqueue", "emplace"}
  TriviallyDestructible = FALSE
  MayThrow = FALSE
  MaxTickets = 4
SYMMETRY Symmetry
CHECK_DEADLOCK FALSE
INVARIANTS NoDeadAccess BatchResult IsEmptyIsHonest
