SPECIFICATION FairSpec
CONSTANTS
  None = None
  Path <- DirPaths
  Dirs <- OneDir
  UserPaths <- DirUser
  SizeOf <- DistinctSizes
  conflict_strategy = "KeepBoth"
  max_parallel_transfers = 1
  tus_threshold = 3
  MaxEdits = 3
  MaxFaults = 1
  MaxCrashes = 1
  EditsDuringRun = FALSE
  Deletes = TRUE
  SameSecond = FALSE
INVARIANTS TypeOK IgnoreIsSound StatusTracksTask
PROPERTY Converges
