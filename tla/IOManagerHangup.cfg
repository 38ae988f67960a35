SPECIFICATION Spec
CONSTANTS
  f1 = f1
  f2 = f2
  d1 = d1
  None = None
  Threads = {t1}
  Tasks = {f1, f2}
  Fds = {d1}
  Watch <- DuplexWatch
  Signals = {"HUP"}
  MaxRuns = 2
INVARIANTS TriggerAssertion
CHECK_DEADLOCK FALSE
