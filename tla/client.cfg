SPECIFICATION FairSpec
CONSTANTS
  None = None
  Root = Root
  r1 = r1
  r2 = r2
  c1 = c1
  top = top
  sub = sub
  leaf = leaf
  Run <- Runs
  Call <- Calls
  Node <- Nodes
  Dir <- Dirs
  Parent <- ParentOf
  Rotates = TRUE
  MaxIssued = 3
  MaxFaults = 1
  MaxEdits = 1
INVARIANTS SessionKept KeychainUsable WalkIsBetween
PROPERTY CallsRecover
CHECK_DEADLOCK FALSE
