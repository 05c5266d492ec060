CONSTANTS
  ProfileLists <- MCProfileLists
  MaxApplies = 2
  ApplyFailures = FALSE
  SpawnFailures = FALSE

SPECIFICATION Spec

PROPERTY NoSpawnAfterStop

CHECK_DEADLOCK FALSE
