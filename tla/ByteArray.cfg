SPECIFICATION Spec
CONSTANTS
  BaseSizes = {1, 2, 3}
  Bytes <- SomeBytes
  Ints <- SomeInts
  Files <- SomeFiles
  Width = 5
  Group = 2
  MaxSize = 4
INVARIANTS TypeOK CursorExact ReadsExact
PROPERTIES IsFile
CHECK_DEADLOCK FALSE
