SPECIFICATION FairSpec
CONSTANTS
  None = None
  a1 = a1
  a2 = a2
  ocis = ocis
  oc10 = oc10
  f1 = f1
  f2 = f2
  s1 = s1
  s2 = s2
  Account <- Ids
  User <- Users
  OAuthOnly <- Oc10Users
  Classic <- Oc10Users
  Folder <- Folders
  Space <- Spaces
  Entered <- Drive
  Answer <- Answers
  MaxFaults = 1
  MaxCrashes = 1
  MaxChanges = 1
INVARIANTS AccountsDistinct FailedLeavesNothing CompletedSurvives ConfiguredIsServed OnlyGoneTaken
PROPERTY AttemptAnswered
CHECK_DEADLOCK FALSE
