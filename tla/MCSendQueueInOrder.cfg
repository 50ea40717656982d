CONSTANTS
  Chunk = 5
  FrameSizes = {2, 3, 5, 8, 10}
  MaxBytes = 32
SPECIFICATION SendSpec
INVARIANTS SentInOrder
CHECK_DEADLOCK FALSE
