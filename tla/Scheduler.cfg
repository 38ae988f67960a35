SPECIFICATION FairSpec
CONSTANTS
  t1 = t1
  t2 = t2
  a = a
  b = b
  c = c
  NoThread = NoThread
  AnyThread = AnyThread
  Main = Main
  Threads = {t1, t2}
  Setups <- SomeSetups
  Works = {a, b, c}
  Callbacks = {a}
  Pin <- MixedPin
  Parent <- MixedParent
  Outcomes <- MixedOutcomes
  Waiters = {b}
  Careless = {b}
  MaxYields <- MixedYields
INVARIANTS TypeOK CountersExact NoDuplicate NeverLost OneWorkerNoFault StopDrains
PROPERTIES StopReturns
CHECK_DEADLOCK FALSE
