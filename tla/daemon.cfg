SPECIFICATION FairSpec
CONSTANTS
  None = None
  f1 = f1
  Folder <- OneFolder
  MaxChanges = 2
  MaxFaults = 2
  MaxStops = 1
  MaxBacklog = 2
INVARIANTS TypeOK OneJobPerFolder RunningIsJob ScheduledHasEngine
PROPERTIES JobsAreSerial ChangeIsSeen RequestIsAnswered PauseHolds
