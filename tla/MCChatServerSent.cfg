CONSTANTS
  Clients = {a, b}
  Fds = {4, 5}
  Limit = 1
  MaxTalk = 2
  MaxLeaves = 2
SPECIFICATION FairSpec
PROPERTIES EverythingIsSent
CHECK_DEADLOCK FALSE
