SPECIFICATION Spec
CONSTANTS
  p1 = p1  p2 = p2  c1 = c1  c2 = c2  v1 = v1  v2 = v2
  Junk = Junk  Dead = Dead  None = None  Nobody = Nobody
  Producers = {p1, p2}
  Consumers = {c1, c2}
  Probers = {}
  Values = {v1, v2}
  SIZE = 2
  BATCH_SIZE = 2
  SizeTBits = 4
  BatchCounts = {}
  Forms = {"enqueue", "emplace"}
  TriviallyDestructible = FALSE
  MayThrow = TRUE
  MaxTickets = 6
SYMMETRY Symmetry
CHECK_DEADLOCK FALSE
INVARIANTS Contents SlotExclusive Delivery ThrowWedgesSlot
