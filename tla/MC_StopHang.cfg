CONSTANTS
  ProfileLists <- MCProfileLists
  MaxApplies = 2
  ApplyFailures = FALSE
  SpawnFailures = FALSE

SPECIFICATION Spec

PROPERTY StoppedRunLoopTerminates

CHECK_DEADLOCK FALSE
