SPECIFICATION FairSpec
CONSTANTS
  None = None
  c1 = c1
  c2 = c2
  c3 = c3
  k1 = k1
  k2 = k2
  Conn <- Conns
  Attempt <- Slots
  TrayKinds = {"linux", "macos", "noop", "failed"}
  MaxDeaths = 1
  MaxFaults = 2
  MaxClicks = 2
  MaxMessages = 3
INVARIANTS GuardIsExact HearsWhomItTells
PROPERTY Settles
CHECK_DEADLOCK FALSE
