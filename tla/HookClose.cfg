SPECIFICATION Spec
CONSTANTS
  r = r
  w = w
  None = None
  Fibers = {r, w}
  Event <- ReadWrite
  Connectors = {}
  Timed = {r, w}
  Pools = {2}
  MaxCalls <- ReadTwice
  MaxUnits = 1
  MaxSpurious = 0
INVARIANTS NobodyWaitsOnClosed
CHECK_DEADLOCK FALSE
