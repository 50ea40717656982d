CONSTANTS
  Limit = 1
  LineSizes = {0, 1, 2}
  MaxLines = 3
  MaxReceive = 2
  MaxEmpty = 2
SPECIFICATION FairSpec
INVARIANTS TypeOK InOrder ExitOnlyIfClosed NeedwriteIsRight
PROPERTIES EveryLineIsSent EverythingIsShown
CHECK_DEADLOCK FALSE
