CONSTANTS
  Clients = {a, b, c}
  Fds = {4, 5, 6}
  Limit = 1
  MaxTalk = 2
  MaxLeaves = 1
SPECIFICATION Spec
INVARIANTS TypeOK ExitOnlyAfterALeave SameOrder NoneLost
SYMMETRY Anyone
CHECK_DEADLOCK FALSE
