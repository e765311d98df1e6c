SPECIFICATION FairSpec
CONSTANTS
  None = None
  c1 = c1
  c2 = c2
  c3 = c3
  k1 = k1
  p1 = p1
  Conn <- Conns
  Caller <- Callers
  Path <- Paths
  Job <- Jobs
  Outside = {}
  Op = {"RETRIEVE_FILE_STATUS", "BAD"}
  VfsResult = {"OK", "ERROR"}
  RootCounts = {0, 2}
  Capacity = 1
  SocketRoom = 1
  MaxCalls = 2
  MaxStops = 1
INVARIANTS TypeOK RootsFirst MembersServed BadgeFollows
PROPERTIES CallReturns HandlersEnd
CHECK_DEADLOCK FALSE
