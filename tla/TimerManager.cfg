SPECIFICATION Spec
CONSTANTS
  Timers = {x, y}
  MayRecur = {x}
  Waiters = {w1, w2}
  Periods = {0, 2}
  MaxTimeout = 1
  IntMax = 2147483647
  MaxTime = 1
SYMMETRY WaiterSymmetry
INVARIANTS TypeOK CallbacksExact StartInPast FrontCovered
PROPERTIES NoEarlyFire
