SPECIFICATION FairSpec
CONSTANTS
  f1 = f1
  f2 = f2
  d1 = d1
  None = None
  Threads = {t1, t2}
  Tasks = {f1, f2}
  Fds = {d1}
  Watch <- DuplexWatch
  Signals = {"READ", "WRITE"}
  MaxRuns = 2
INVARIANTS TypeOK RegistrationsExact OneWaker StopComplete
PROPERTIES StopReturns QueuedRuns
CHECK_DEADLOCK FALSE
