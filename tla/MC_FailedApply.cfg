CONSTANTS
  ProfileLists <- MCProfileLists
  MaxApplies = 2
  ApplyFailures = TRUE
  SpawnFailures = FALSE

SPECIFICATION Spec

INVARIANT IdleGroupLaunched

CHECK_DEADLOCK FALSE
