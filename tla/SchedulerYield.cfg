SPECIFICATION Spec
CONSTANTS
  t1 = t1
  t2 = t2
  a = a
  b = b
  c = c
  NoThread = NoThread
  AnyThread = AnyThread
  Main = Main
  Threads = {t1, t2}
  Setups <- TwoWorkers
  Works = {a}
  Callbacks = {a}
  Pin <- RaceAny
  Parent <- RaceParent
  Outcomes <- RaceOutcomes
  Waiters = {a}
  Careless = {}
  MaxYields <- RaceYields
INVARIANTS YieldAssertion
CHECK_DEADLOCK FALSE
