---------------------------- MODULE ProcessGroup ----------------------------
(***************************************************************************)
(* What the linuxptp daemon promises about its process groups, stated     *)
(* without any of the machinery of cmdRun/cmdStop.                         *)
(*                                                                         *)
(* A group is the set of process descriptors built by one apply of the    *)
(* node profiles (one epoch).  A descriptor can only join the group of    *)
(* its own epoch, an OS process can only be alive for a member of the    *)
(* current group, and the group is only dissolved (to make room for the   *)
(* next epoch) once none of its OS processes is alive.  Processes may die *)
(* at any time.                                                            *)
(***************************************************************************)
EXTENDS Naturals

CONSTANTS
  Descs,       \* descriptors; the first component of each is its epoch
  MaxEpochs    \* number of groups that can be built

VARIABLES
  members,     \* the descriptors of the current group
  alive,       \* descriptors whose OS process is running
  epoch        \* number of the current group

vars == <<members, alive, epoch>>

EpochOf(d) == d[1]

Init ==
  /\ members = {}
  /\ alive = {}
  /\ epoch = 0

Join(d) ==
  /\ EpochOf(d) = epoch
  /\ d \notin members
  /\ members' = members \cup {d}
  /\ UNCHANGED <<alive, epoch>>

Spawn(d) ==
  /\ d \in members
  /\ alive' = alive \cup {d}
  /\ UNCHANGED <<members, epoch>>

Exit(d) ==
  /\ d \in alive
  /\ alive' = alive \ {d}
  /\ UNCHANGED <<members, epoch>>

Dissolve ==
  /\ alive = {}
  /\ epoch < MaxEpochs
  /\ members' = {}
  /\ epoch' = epoch + 1
  /\ UNCHANGED alive

Next ==
  \/ \E d \in Descs : Join(d) \/ Spawn(d) \/ Exit(d)
  \/ Dissolve

Spec == Init /\ [][Next]_vars
=============================================================================
