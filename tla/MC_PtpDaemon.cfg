CONSTANTS
  ProfileLists <- MCProfileLists
  MaxApplies = 2
  ApplyFailures = TRUE
  SpawnFailures = TRUE

SPECIFICATION Spec

INVARIANT TypeOK
INVARIANT ConfigPathExclusive
INVARIANT RunningImpliesStatusUp

PROPERTY GroupRefinement
PROPERTY RestartAfterExit
PROPERTY SignalledStopReturns

\* The daemon can stop for good: Run returns on shutdown, a stop can
\* panic, and a stop can block forever (see the violation runs).
CHECK_DEADLOCK FALSE
