SPECIFICATION Spec
CONSTANTS
  BaseSizes = {3}
  Bytes <- SomeBytes
  Ints <- SomeInts
  Files <- SomeFiles
  Width = 5
  Group = 2
  MaxSize = 4
INVARIANTS CapacityPromise
CHECK_DEADLOCK FALSE
