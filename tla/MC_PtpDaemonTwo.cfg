CONSTANTS
  ProfileLists <- MCProfileListsTwo
  MaxApplies = 2
  ApplyFailures = TRUE
  SpawnFailures = TRUE

SPECIFICATION Spec

INVARIANT ConfigPathExclusive
INVARIANT RunningImpliesStatusUp

PROPERTY GroupRefinement

\* The daemon can stop for good: Run returns on shutdown, a stop can
\* panic, and a stop can block forever (see the violation runs).
CHECK_DEADLOCK FALSE
