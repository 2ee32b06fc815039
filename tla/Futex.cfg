SPECIFICATION Spec
CONSTANTS
  Waiters = {a, b}
  Wakers = {u, v}
  FutexBits = 2
  MaxWakes = 5
INVARIANTS ReturnMeansWake NoWakeLost
PROPERTIES OwedWaiterReturns
