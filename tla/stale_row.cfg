SPECIFICATION Spec
CONSTANTS
  None = None
  Path <- OnePaths
  Dirs <- NoDirs
  UserPaths <- OneFile
  SizeOf <- DistinctSizes
  conflict_strategy = "KeepBoth"
  max_parallel_transfers = 2
  tus_threshold = 10
  MaxEdits = 4
  MaxFaults = 0
  MaxCrashes = 0
  EditsDuringRun = FALSE
  Deletes = TRUE
  SameSecond = FALSE
INVARIANT CreatedSurvives
