CONSTANTS
  Header = 4
  BufSize = 9
  NMsgs <- MCNMsgs
  MsgLen <- MCMsgLen
  Start <- MCStart
  Nul <- MCNul
SPECIFICATION Spec
INVARIANTS TypeOK InOrder Prompt
CHECK_DEADLOCK FALSE
