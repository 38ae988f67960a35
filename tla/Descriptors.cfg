SPECIFICATION Spec
CONSTANTS
  Threads = {t1, t2}
  None = None
  Fds = {2, 3}
  DataSize = 2
  ContextSize = 2
  MaxSockets = 3
INVARIANTS TypeOK FlagsKept ContextsFound
CHECK_DEADLOCK FALSE
