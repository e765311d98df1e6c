SPECIFICATION Spec
CONSTANTS
  None = None
  Path <- StemPaths
  Dirs <- NoDirs
  UserPaths <- StemFiles
  SizeOf <- DistinctSizes
  conflict_strategy = "KeepBoth"
  max_parallel_transfers = 2
  tus_threshold = 10
  MaxEdits = 2
  MaxFaults = 0
  MaxCrashes = 0
  EditsDuringRun = FALSE
  Deletes = FALSE
  SameSecond = FALSE
INVARIANT InstalledIsFetched
