SPECIFICATION Spec
CONSTANTS
  t0 = t0  t1 = t1  Req = Req  Rep = Rep  One = One  Junk = Junk  Dead = Dead
  Rings = {Req, Rep, One}
  Threads = {t0, t1}
  Producer <- ProducerOf
  Consumer <- ConsumerOf
  BUFFER_SIZE <- SizeOf
  TriviallyDestructible = FALSE
  Throwing = {Rep}
  MaxItems = 5
CHECK_DEADLOCK FALSE
INVARIANTS SlotExclusive PendingIntact InOrder
PROPERTIES BenchFinishes ImplementsHandoffQueue
