---------------------------- MODULE MC_PtpDaemon ----------------------------
(***************************************************************************)
(* Model-checking instance of PtpDaemon.  A boundary-clock style profile  *)
(* runs ptp4l and phc2sys and leaves ts2phc unset, so one apply builds    *)
(* two descriptors sharing runID 0; two applies let the second group      *)
(* reuse the paths and metric keys of the first.                          *)
(***************************************************************************)
EXTENDS PtpDaemon

\* ptp4l and phc2sys configured, ts2phc options nil.
BoundaryClock == [r \in RoleNames |-> IF r = "ts2phc" THEN "nil" ELSE "set"]

\* ptp4l options nil (run with " "), nothing else.
OrdinaryClock == [r \in RoleNames |-> "nil"]

\* ts2phc and ptp4l configured, phc2sys options empty.
Grandmaster == [r \in RoleNames |-> IF r = "phc2sys" THEN "empty" ELSE "set"]

MCProfileLists == {<<BoundaryClock>>}

\* Two profiles in one list: runIDs 0 and 1, three descriptors per group.
MCProfileListsTwo == {<<Grandmaster, OrdinaryClock>>}
=============================================================================
