SPECIFICATION FairSpec
CONSTANTS
  None = None
  a1 = a1
  a2 = a2
  f1 = f1
  f2 = f2
  s1 = s1
  Account <- Accounts
  Folder <- Folders
  Space <- Spaces
  Known0 = a1
  BroadcastCap = 2
  WireCap = 1
  CmdCap = 2
  MaxClicks = 3
  MaxUpsets = 1
INVARIANTS MirrorComplete SyncingIsReal
PROPERTIES WaitingEnds SubmitAnswered
CHECK_DEADLOCK FALSE
