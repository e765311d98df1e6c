SPECIFICATION FairSpec
CONSTANTS
  None = None
  c1 = c1
  c2 = c2
  c3 = c3
  k1 = k1
  p1 = p1
  Conn <- Conns
  Caller <- Callers
  Path = {p1, p2}
  Job <- Jobs
  Outside = {p2}
  Op = {"RETRIEVE_FILE_STATUS", "BAD"}
  VfsResult = {"OK"}
  RootCounts = {1}
  Capacity = 1
  SocketRoom = 1
  MaxCalls = 2
  MaxStops = 0
PROPERTY StatusAnswered
CHECK_DEADLOCK FALSE
