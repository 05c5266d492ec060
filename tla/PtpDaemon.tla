------------------------------ MODULE PtpDaemon ------------------------------
(***************************************************************************)
(* The linuxptp daemon of pkg/daemon/daemon/daemon.go: one control loop   *)
(* (Daemon.Run) that applies node profiles on every update notification  *)
(* and stops everything on shutdown, and one supervisor goroutine         *)
(* (cmdRun) per process descriptor that starts, watches and restarts its  *)
(* OS process.  The control loop stops a descriptor with cmdStop, which   *)
(* shares the stopped flag, p.cmd and the unbuffered exitCh with cmdRun.  *)
(*                                                                         *)
(* Data is abstracted: a profile is reduced to which process options are  *)
(* nil, empty or set; a config file is its path <<role, runID>>; an OS    *)
(* process is the state of p.cmd (new, running, exited, failed to start). *)
(***************************************************************************)
EXTENDS Naturals, Sequences, FiniteSets, Functions

CONSTANTS
  ProfileLists,   \* the NodeProfiles lists an update can carry
  MaxApplies,     \* bound on update notifications, hence on applies
  ApplyFailures,  \* may rendering or writing a config file fail?
  SpawnFailures   \* may cmd.Start() fail (binary or wrapper not runnable)?

\* ptp_processes: the order in which roles are built for one profile.
RoleOrder == <<"ts2phc", "ptp4l", "phc2sys">>
RoleNames == Range(RoleOrder)
OptsValues == {"nil", "empty", "set"}
Profile == [RoleNames -> OptsValues]

ASSUME ProfileLists \subseteq Seq(Profile)
ASSUME MaxApplies \in Nat \ {0}
ASSUME ApplyFailures \in BOOLEAN /\ SpawnFailures \in BOOLEAN

MaxProfiles == LET lens == {Len(l) : l \in ProfileLists} IN
               CHOOSE n \in lens : \A m \in lens : m <= n
RunIDs == 0..(MaxProfiles - 1)

\* A descriptor is identified by the apply that built it, its runID and role.
Descs == (1..MaxApplies) \X RunIDs \X RoleNames

\* configFile "<role>.<runID>.config": the path of the config file.
ConfigPath(d) == <<d[3], d[2]>>
Paths == RoleNames \X RunIDs

\* messageTag: phc2sys is tagged with the ptp4l config of its run.
TagRole(r) == IF r = "ts2phc" THEN "ts2phc" ELSE "ptp4l"

\* processStatus keys its metric by process name and config name.
StatusKey(d) == <<d[3], TagRole(d[3]), d[2]>>
StatusKeys == {<<r, TagRole(r), i>> : r \in RoleNames, i \in RunIDs}

\* A role is built unless its options are empty; a nil ptp4lOpts is
\* replaced by " ", so ptp4l runs whenever its options are not "".
RoleConfigured(prof, r) ==
  \/ prof[r] = "set"
  \/ r = "ptp4l" /\ prof[r] = "nil"

VARIABLES
  ctl,           \* program counter of the control loop (Daemon.Run)
  mode,          \* what the current stop-all is for: "apply" or "exit"
  group,         \* processManager.process
  idx,           \* loop index over group while stopping or launching
  prof, ri,      \* profile and role index while building
  applying,      \* the profile list being applied
  gen,           \* number of applies begun: the epoch of new descriptors
  nodeProfiles,  \* ptpUpdate.NodeProfiles
  pending,       \* an update notification is waiting on UpdateCh
  updates,       \* notifications sent so far
  shutdown,      \* stopCh has been closed
  run,           \* program counter of each descriptor's cmdRun
  cmd,           \* state of p.cmd of each descriptor
  stopped,       \* p.stopped
  termed,        \* SIGTERM delivered to the current OS process
  status,        \* process status metric per key
  files          \* config files on disk

ctlVars == <<ctl, mode, group, idx, prof, ri, applying, gen>>
envVars == <<nodeProfiles, pending, updates, shutdown>>
procVars == <<run, cmd, stopped, termed, status, files>>
vars == <<ctlVars, envVars, procVars>>

Running == {d \in Descs : cmd[d] = "running"}

Init ==
  /\ ctl = "wait"
  /\ mode = "apply"
  /\ group = <<>>
  /\ idx = 1
  /\ prof = 1
  /\ ri = 1
  /\ applying = <<>>
  /\ gen = 0
  /\ nodeProfiles = <<>>
  /\ pending = FALSE
  /\ updates = 0
  /\ shutdown = FALSE
  /\ run = [d \in Descs |-> "idle"]
  /\ cmd = [d \in Descs |-> "new"]
  /\ stopped = [d \in Descs |-> FALSE]
  /\ termed = [d \in Descs |-> FALSE]
  /\ status = [k \in StatusKeys |-> "none"]
  /\ files = {}

-----------------------------------------------------------------------------
(* Environment: the config watcher, main, and the OS.                      *)

\* The config watcher stores new profiles and signals UpdateCh.
Notify ==
  /\ updates < MaxApplies
  /\ ~pending
  /\ \E pl \in ProfileLists : nodeProfiles' = pl
  /\ pending' = TRUE
  /\ updates' = updates + 1
  /\ UNCHANGED <<ctlVars, shutdown, procVars>>

\* main closes stopCh.
Shutdown ==
  /\ ~shutdown
  /\ shutdown' = TRUE
  /\ UNCHANGED <<ctlVars, nodeProfiles, pending, updates, procVars>>

\* An OS process terminates: it crashed, or it honoured SIGTERM.
ProcessExit(d) ==
  /\ cmd[d] = "running"
  /\ cmd' = [cmd EXCEPT ![d] = "exited"]
  /\ UNCHANGED <<ctlVars, envVars, run, stopped, termed, status, files>>

-----------------------------------------------------------------------------
(* Control loop: Run, applyNodePTPProfiles, applyNodePtpProfile, cmdStop.  *)

\* select on UpdateCh: apply begins by stopping the current group.
ReceiveUpdate ==
  /\ ctl = "wait"
  /\ pending
  /\ pending' = FALSE
  /\ mode' = "apply"
  /\ ctl' = "stopLoop"
  /\ idx' = 1
  /\ UNCHANGED <<group, prof, ri, applying, gen, nodeProfiles, updates,
                 shutdown, procVars>>

\* select on stopCh: stop every process, then return.
ReceiveStop ==
  /\ ctl = "wait"
  /\ shutdown
  /\ mode' = "exit"
  /\ ctl' = "stopLoop"
  /\ idx' = 1
  /\ UNCHANGED <<group, prof, ri, applying, gen, envVars, procVars>>

\* cmdStop, first step: setStopped(true).
StopSet ==
  /\ ctl = "stopLoop"
  /\ idx <= Len(group)
  /\ stopped' = [stopped EXCEPT ![group[idx]] = TRUE]
  /\ ctl' = "stopSignal"
  /\ UNCHANGED <<mode, group, idx, prof, ri, applying, gen, envVars,
                 run, cmd, termed, status, files>>

\* cmdStop: SIGTERM to p.cmd.Process if it has one.  A process that has
\* not been started, or failed to start, has none.
StopSignal ==
  /\ ctl = "stopSignal"
  /\ LET d == group[idx] IN
       termed' = IF cmd[d] = "running" THEN [termed EXCEPT ![d] = TRUE]
                                       ELSE termed
  /\ ctl' = "stopRemove"
  /\ UNCHANGED <<mode, group, idx, prof, ri, applying, gen, envVars,
                 run, cmd, stopped, status, files>>

\* cmdStop: remove the config file (a failure is only logged).
StopRemove ==
  /\ ctl = "stopRemove"
  /\ files' = files \ {ConfigPath(group[idx])}
  /\ ctl' = "stopWait"
  /\ UNCHANGED <<mode, group, idx, prof, ri, applying, gen, envVars,
                 run, cmd, stopped, termed, status>>

\* Mutant: cmdStop returns without waiting on exitCh.
StopWaitNoRendezvous ==
  /\ ctl = "stopWait"
  /\ ctl' = "stopLoop"
  /\ idx' = idx + 1
  /\ UNCHANGED <<mode, group, prof, ri, applying, gen, envVars, procVars>>

\* cmdStop: <-p.exitCh, a rendezvous with cmdRun's deferred send; then
\* p.cmd.Process.Pid is logged, a nil dereference when the last Start
\* of that descriptor failed.
StopWait ==
  /\ ctl = "stopWait"
  /\ LET d == group[idx] IN
       /\ run[d] = "exit"
       /\ run' = [run EXCEPT ![d] = "done"]
       /\ IF cmd[d] \in {"new", "failed"}
            THEN ctl' = "panicked" /\ UNCHANGED idx
            ELSE ctl' = "stopLoop" /\ idx' = idx + 1
  /\ UNCHANGED <<mode, group, prof, ri, applying, gen, envVars,
                 cmd, stopped, termed, status, files>>

\* Mutant: the stop loop goes on to the new group without stopping the
\* old one.
DissolveWithoutStop ==
  /\ ctl = "stopLoop"
  /\ mode = "apply"
  /\ group' = <<>>
  /\ gen' = gen + 1
  /\ applying' = nodeProfiles
  /\ prof' = 1
  /\ ri' = 1
  /\ ctl' = "build"
  /\ UNCHANGED <<mode, idx, envVars, procVars>>

\* All stopped: processManager.process = nil, hwconfigs cleared, and the
\* profiles are applied in order, runID counting from 0.
Dissolve ==
  /\ ctl = "stopLoop"
  /\ idx > Len(group)
  /\ mode = "apply"
  /\ group' = <<>>
  /\ gen' = gen + 1
  /\ applying' = nodeProfiles
  /\ prof' = 1
  /\ ri' = 1
  /\ ctl' = "build"
  /\ UNCHANGED <<mode, idx, envVars, procVars>>

\* All stopped on shutdown: Run returns.
ExitRun ==
  /\ ctl = "stopLoop"
  /\ idx > Len(group)
  /\ mode = "exit"
  /\ ctl' = "exited"
  /\ UNCHANGED <<mode, group, idx, prof, ri, applying, gen, envVars, procVars>>

\* The role being built, and the descriptor it would become.
BuildingRole == RoleOrder[ri]
\* Mutant: runID taken as the 1-based profile index.
BuildingDescOffByOne == <<gen, prof, BuildingRole>>

BuildingDesc == <<gen, prof - 1, BuildingRole>>

Building ==
  /\ ctl = "build"
  /\ prof <= Len(applying)
  /\ ri <= Len(RoleOrder)

\* configOpts empty: the role is skipped.
SkipRole ==
  /\ Building
  /\ ~RoleConfigured(applying[prof], BuildingRole)
  /\ ri' = ri + 1
  /\ UNCHANGED <<ctl, mode, group, idx, prof, applying, gen, envVars, procVars>>

\* Render, build the descriptor, write its config file, append it.
BuildRole ==
  /\ Building
  /\ RoleConfigured(applying[prof], BuildingRole)
  /\ group' = Append(group, BuildingDesc)
  /\ files' = files \cup {ConfigPath(BuildingDesc)}
  /\ ri' = ri + 1
  /\ UNCHANGED <<ctl, mode, idx, prof, applying, gen, envVars,
                 run, cmd, stopped, termed, status>>

\* populatePtp4lConf or WriteFile fails: the error aborts the apply and
\* Run goes back to select; what was appended so far stays in the group.
BuildFails ==
  /\ Building
  /\ ApplyFailures
  /\ RoleConfigured(applying[prof], BuildingRole)
  /\ ctl' = "wait"
  /\ UNCHANGED <<mode, group, idx, prof, ri, applying, gen, envVars, procVars>>

\* All roles of a profile built: PopulateHwConfig, runID++.
NextProfile ==
  /\ ctl = "build"
  /\ prof <= Len(applying)
  /\ ri > Len(RoleOrder)
  /\ prof' = prof + 1
  /\ ri' = 1
  /\ UNCHANGED <<ctl, mode, group, idx, applying, gen, envVars, procVars>>

BuildDone ==
  /\ ctl = "build"
  /\ prof > Len(applying)
  /\ ctl' = "launch"
  /\ idx' = 1
  /\ UNCHANGED <<mode, group, prof, ri, applying, gen, envVars, procVars>>

\* Sleep one second, then go cmdRun(p), in group order.
Launch ==
  /\ ctl = "launch"
  /\ idx <= Len(group)
  /\ run' = [run EXCEPT ![group[idx]] = "pipe"]
  /\ idx' = idx + 1
  /\ UNCHANGED <<ctl, mode, group, prof, ri, applying, gen, envVars,
                 cmd, stopped, termed, status, files>>

LaunchDone ==
  /\ ctl = "launch"
  /\ idx > Len(group)
  /\ ctl' = "wait"
  /\ UNCHANGED <<mode, group, idx, prof, ri, applying, gen, envVars, procVars>>

-----------------------------------------------------------------------------
(* Supervisor: cmdRun of one descriptor.                                   *)

\* Mutant: PtpProcessUp reported once, before the loop, not on restarts.
RunPipeUpOnce(d) ==
  /\ run[d] = "pipe"
  /\ status' = IF status[StatusKey(d)] = "none"
                 THEN [status EXCEPT ![StatusKey(d)] = "up"] ELSE status
  /\ run' = [run EXCEPT ![d] = "check"]
  /\ UNCHANGED <<ctlVars, envVars, cmd, stopped, termed, files>>

\* StdoutPipe, PtpProcessUp reported, output scanner started.
RunPipe(d) ==
  /\ run[d] = "pipe"
  /\ status' = [status EXCEPT ![StatusKey(d)] = "up"]
  /\ run' = [run EXCEPT ![d] = "check"]
  /\ UNCHANGED <<ctlVars, envVars, cmd, stopped, termed, files>>

\* if !p.Stopped(): the lock is released before Start is called.
RunCheck(d) ==
  /\ run[d] = "check"
  /\ run' = [run EXCEPT ![d] = IF stopped[d] THEN "drain" ELSE "start"]
  /\ UNCHANGED <<ctlVars, envVars, cmd, stopped, termed, status, files>>

\* p.cmd.Start(): the process runs, or exits at once when its config file
\* is gone; or Start fails, which closes the output pipe.
RunStart(d) ==
  /\ run[d] = "start"
  /\ run' = [run EXCEPT ![d] = "drain"]
  /\ \/ cmd' = [cmd EXCEPT ![d] = IF ConfigPath(d) \in files THEN "running"
                                                           ELSE "exited"]
     \/ SpawnFailures /\ cmd' = [cmd EXCEPT ![d] = "failed"]
  /\ UNCHANGED <<ctlVars, envVars, stopped, termed, status, files>>

\* <-done waits for the output pipe to close; Wait; PtpProcessDown.  A
\* command that was never started keeps its pipe open.
RunDrain(d) ==
  /\ run[d] = "drain"
  /\ cmd[d] \in {"exited", "failed"}
  /\ status' = [status EXCEPT ![StatusKey(d)] = "down"]
  /\ run' = [run EXCEPT ![d] = "sleep"]
  /\ UNCHANGED <<ctlVars, envVars, cmd, stopped, termed, files>>

\* Mutant: the restart test inverted.
RunSleepInverted(d) ==
  /\ run[d] = "sleep"
  /\ IF ~stopped[d]
       THEN run' = [run EXCEPT ![d] = "exit"] /\ UNCHANGED <<cmd, termed>>
       ELSE /\ run' = [run EXCEPT ![d] = "pipe"]
            /\ cmd' = [cmd EXCEPT ![d] = "new"]
            /\ termed' = [termed EXCEPT ![d] = FALSE]
  /\ UNCHANGED <<ctlVars, envVars, stopped, status, files>>

\* Mutant: the retry loop restarts without looking at the stopped flag.
RunSleepAlwaysRestart(d) ==
  /\ run[d] = "sleep"
  /\ run' = [run EXCEPT ![d] = "pipe"]
  /\ cmd' = [cmd EXCEPT ![d] = "new"]
  /\ termed' = [termed EXCEPT ![d] = FALSE]
  /\ UNCHANGED <<ctlVars, envVars, stopped, status, files>>

\* After the retry interval: leave the loop if stopped, else rebuild
\* p.cmd from the same arguments and go round again.
RunSleep(d) ==
  /\ run[d] = "sleep"
  /\ IF stopped[d]
       THEN run' = [run EXCEPT ![d] = "exit"] /\ UNCHANGED <<cmd, termed>>
       ELSE /\ run' = [run EXCEPT ![d] = "pipe"]
            /\ cmd' = [cmd EXCEPT ![d] = "new"]
            /\ termed' = [termed EXCEPT ![d] = FALSE]
  /\ UNCHANGED <<ctlVars, envVars, stopped, status, files>>

-----------------------------------------------------------------------------

Control ==
  \/ ReceiveUpdate \/ ReceiveStop
  \/ StopSet \/ StopSignal \/ StopRemove \/ StopWait
  \/ Dissolve \/ ExitRun
  \/ SkipRole \/ BuildRole \/ BuildFails \/ NextProfile \/ BuildDone
  \/ Launch \/ LaunchDone

Supervise(d) ==
  RunPipe(d) \/ RunCheck(d) \/ RunStart(d) \/ RunDrain(d) \/ RunSleep(d)

Next ==
  \/ Notify \/ Shutdown
  \/ \E d \in Descs : ProcessExit(d)
  \/ Control
  \/ \E d \in Descs : Supervise(d)

\* Goroutines are scheduled fairly, and a process sent SIGTERM exits.
Fairness ==
  /\ WF_vars(Control)
  /\ \A d \in Descs : WF_vars(Supervise(d))
  /\ \A d \in Descs : WF_vars(termed[d] /\ ProcessExit(d))

Spec == Init /\ [][Next]_vars /\ Fairness

-----------------------------------------------------------------------------
(* Properties                                                              *)

TypeOK ==
  /\ ctl \in {"wait", "stopLoop", "stopSignal", "stopRemove", "stopWait",
              "build", "launch", "exited", "panicked"}
  /\ mode \in {"apply", "exit"}
  /\ group \in Seq(Descs)
  /\ idx \in 1..(Cardinality(Descs) + 1)
  /\ prof \in 1..(MaxProfiles + 1)
  /\ ri \in 1..(Len(RoleOrder) + 1)
  /\ applying \in Seq(Profile)
  /\ gen \in 0..MaxApplies
  /\ nodeProfiles \in Seq(Profile)
  /\ pending \in BOOLEAN
  /\ updates \in 0..MaxApplies
  /\ shutdown \in BOOLEAN
  /\ run \in [Descs -> {"idle", "pipe", "check", "start", "drain", "sleep",
                        "exit", "done"}]
  /\ cmd \in [Descs -> {"new", "running", "exited", "failed"}]
  /\ stopped \in [Descs -> BOOLEAN]
  /\ termed \in [Descs -> BOOLEAN]
  /\ status \in [StatusKeys -> {"none", "up", "down"}]
  /\ files \subseteq Paths

\* Two OS processes never run from the same config file (and so never
\* share the control socket of a run): applyNodePTPProfiles reuses runIDs
\* from 0 on every apply, and relies on cmdStop having waited for the old
\* process before the new one is started.
ConfigPathExclusive ==
  \A d1, d2 \in Running : d1 # d2 => ConfigPath(d1) # ConfigPath(d2)

\* The process status metric of a running process reads "up": neither a
\* restart by cmdRun nor the late PtpProcessDown of a process of an older
\* apply with the same metric key leaves a running process reported down.
RunningImpliesStatusUp ==
  \A d \in Running : status[StatusKey(d)] = "up"

\* A process that exits while not stopped is started again by cmdRun (or
\* the daemon has died).
RestartAfterExit ==
  \A d \in Descs :
    (cmd[d] = "exited" /\ ~stopped[d])
      ~> (cmd[d] \in {"running", "failed"} \/ stopped[d] \/ ctl = "panicked")

\* The daemon implements the abstract process group: OS processes only run
\* for members of the current group, and a group is replaced only when
\* none of its processes is alive.
PG == INSTANCE ProcessGroup
        WITH MaxEpochs <- MaxApplies,
             members <- Range(group),
             alive <- Running,
             epoch <- gen
GroupRefinement == PG!Spec

\* cmdStop has no timeout (daemon.go:466): it returns only once cmdRun
\* answers on exitCh.  Given that a process sent SIGTERM exits (the
\* fairness assumption), a stop that signalled a running process
\* completes: the process exits, cmdRun drains it, sees the stopped flag
\* after the retry sleep, leaves its loop and answers, or the daemon has
\* died.
SignalledStopReturns ==
  \A d \in Descs : termed[d] ~> (run[d] = "done" \/ ctl = "panicked")

\* Once cmdStop has set the stopped flag, cmdRun leaves its loop and
\* answers on exitCh (spec: a stopped run loop terminates after its current
\* exit/backoff cycle), unless the daemon has died.
StoppedRunLoopTerminates ==
  \A d \in Descs : stopped[d] ~> (run[d] = "done" \/ ctl = "panicked")

\* No OS process is spawned for a descriptor after cmdStop has set its
\* stopped flag (spec: Idle -> Starting only if stopped() is false).
NoSpawnAfterStop ==
  [][\A d \in Descs : (cmd[d] = "new" /\ cmd'[d] # "new") => ~stopped[d]]_vars

\* Stopping a process never crashes the daemon, whatever happened to its
\* last spawn (spec: a spawn failure is logged and does not abort).
NoStopPanic == ctl # "panicked"

\* Between applies every descriptor of the group has a cmdRun goroutine to
\* answer the exitCh receive of the cmdStop that the next apply or the
\* shutdown will issue (spec: a failed apply leaves no processes).
IdleGroupLaunched ==
  ctl = "wait" => \A i \in 1..Len(group) : run[group[i]] # "idle"
=============================================================================
