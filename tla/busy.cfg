SPECIFICATION Spec
CONSTANTS
  None = None
  Path <- OnePaths3
  Dirs <- NoDirs
  UserPaths <- OneFile
  SizeOf <- SameSizes
  conflict_strategy = "KeepBoth"
  max_parallel_transfers = 2
  tus_threshold = 10
  MaxEdits = 3
  MaxFaults = 1
  MaxCrashes = 0
  EditsDuringRun = TRUE
  Deletes = TRUE
  SameSecond = TRUE
INVARIANTS RowMatchesServer
