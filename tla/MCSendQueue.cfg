CONSTANTS
  Chunk = 5
  FrameSizes = {2, 3, 5, 8, 10}
  MaxBytes = 32
SPECIFICATION SendSpec
INVARIANTS SendTypeOK InOrderUntilOverrun NoLeak
PROPERTIES ImplementsFifo
CHECK_DEADLOCK FALSE
