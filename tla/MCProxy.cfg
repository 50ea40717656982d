CONSTANTS
  BufSize = 2
  MaxNumber = 2
  MaxWrites <- Writes
SPECIFICATION FairSpec
INVARIANTS TypeOK KeptByHandlers
PROPERTIES ImplementsRelay BothEnd HeardToTheEnd
CHECK_DEADLOCK FALSE
