CONSTANTS
  ProfileLists <- MCProfileLists
  MaxApplies = 2
  ApplyFailures = FALSE
  SpawnFailures = TRUE

SPECIFICATION Spec

INVARIANT NoStopPanic

CHECK_DEADLOCK FALSE
