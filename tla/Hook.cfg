SPECIFICATION FairSpec
CONSTANTS
  r = r
  w = w
  None = None
  Fibers = {r, w}
  Event <- ReadWrite
  Connectors = {w}
  Timed = {r, w}
  Pools = {1, 2}
  MaxCalls <- ReadTwice
  MaxUnits = 1
  MaxSpurious = 1
INVARIANTS TypeOK WaitsExact ResultsHonest
PROPERTIES TimedCallReturns ServedCallReturns
CHECK_DEADLOCK FALSE
