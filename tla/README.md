# TLA+ models of the ptp-operator linuxptp daemon

This directory holds TLA+ models of the node-local PTP daemon in
`src/pkg/daemon/daemon/` and the TLC configurations that check them.
`PROJECT.json` lists every component, run, mutant, finding and hazard, and
maps every modelled definition to the source lines it translates.

## 1. Inventory

### Components and their state

| Component | Source | State | Operations |
|---|---|---|---|
| Process supervisor | `daemon.go` `ptpProcess`, `cmdRun`, `cmdStop` (37-62, 373-468) | per descriptor: `stopped` (mutex-guarded), `cmd` (`*exec.Cmd`, replaced on restart), `exitCh` (unbuffered), config/socket paths, message tag | `cmdRun` loop: StdoutPipe, report Up, `if !Stopped() { Start }`, `<-done`, `Wait`, report Down, sleep 1 s, exit or rebuild `cmd`; `cmdStop`: `setStopped(true)`, SIGTERM if `cmd.Process != nil`, remove config file, `<-exitCh`, log Pid |
| Orchestrator | `daemon.go` `Run`, `applyNodePTPProfiles`, `applyNodePtpProfile` (113-352) | `processManager.process` (the group), `hwconfigs`, the `ptpUpdate.NodeProfiles` it reads | select on `UpdateCh` / `stopCh`; apply = stop each old process, drop the group, clear hwconfigs, for each profile (runID 0,1,...) and role (ts2phc, ptp4l, phc2sys): skip if options empty, render, build descriptor, write config, append; return on any error; then `sleep 1s; go cmdRun(p)` for each |
| Config renderer | `daemon.go` 285-325 (+ `populatePtp4lConf`, `renderPtp4lConf`, `addFlagsForMonitor`, not under `src/`) | pure | prepend `[iface]`, inject `message_tag`/`uds_address` into `[global]`, monitor flags, render, write the text back into the profile |
| Scheduling / log filter | `addScheduling` 355-371, `getLogFilterRegex` 195-209 | pure | `chrt -f <prio>` wrapper iff SCHED_FIFO and prio in [1,65]; filter regex from `stdoutFilter`/`logReduce` |
| Plugin registry | `plugin.go`, `addons/intel/e810.go`, `addons/generic/generic.go` | name -> plugin map | `registerPlugins`, `OnPTPConfigChange` (e810 may run a pin script), `PopulateHwConfig` (both plugins append nothing) |
| Profile recommendation | `controllers/recommend.go` | pure over PtpConfig lists | priority selection of recommend rules, node match by name/label, name qualification `cr_profile`, cross-profile reference resolution, sort by name |
| Status condition upsert | `pkg/status/ptpconfig_status.go` | PtpConfig status in the API server | Get, upsert by (Type, Profile, Filename, Process), trim to 100, UpdateStatus, retry with backoff (6 steps) |
| TLS applicator | `pkg/tls/tls.go` | the resolved spec and the values the `TLSOpts` closure captures; the servers' `tls.Config` | fetch the profile once, resolve profile -> spec, translate cipher names and min version, apply to `tls.Config` |
| API types, e2e tests | `api/v1`, `test/` | - | not part of the running system's behaviour |

### How they interact

The config watcher (outside `src/`) stores a profile list in
`ptpUpdate.NodeProfiles` and signals `UpdateCh`; `main` closes `stopCh` on
shutdown. `Daemon.Run` is the only consumer, so applies never overlap. Each
descriptor's `cmdRun` goroutine runs concurrently with the control loop. They
share three things: the `stopped` flag (under `execMutex`), the `p.cmd`
pointer and its `Process` (no lock: `cmdRun` writes them in `Start` and on
restart, `cmdStop` reads them), and `exitCh`, an unbuffered channel whose
send is `cmdRun`'s deferred last act and whose receive blocks `cmdStop`.
Both goroutines also write the process status metric, keyed by process name
and config name. The same key, config path and socket path are reused by
every apply, because runIDs restart at 0.

### What is hard

* The `Stopped()` check and `Start()` in `cmdRun` are two separate steps.
  `cmdStop` can run completely between them.
* `<-done` only returns when the stdout pipe closes. A command that was never
  started keeps the write end open, so the pipe never closes.
* `cmdStop` waits on `exitCh` with no timeout. It also assumes that some
  `cmdRun` goroutine will send.
* An apply can fail half-way. The descriptors already appended stay in the
  group, and none of them was launched.
* A spawn can fail, which leaves `Process` nil. `cmdStop` dereferences it.
* Paths and metric keys are shared between applies and between restarts.
* The recommend sort orders nil priorities last, but the loop dereferences
  the priority of every matching rule.

### What makes each component correct

* Supervisor: a stopped descriptor is never spawned again, and its run loop
  terminates. A process that exits while not stopped is restarted. A running
  process is reported up.
* Orchestrator: stop-then-start. No two live processes share a config path
  or control socket. Processes only run for members of the current group. A
  failed apply leaves a state from which the next apply, and the shutdown,
  can proceed.
* Renderer: `[iface]` comes first and exactly once, and section names are
  unique. The global keys are injected and other keys are preserved.
  Rendering then parsing gives the same sections back.
* Recommendation: only the highest-priority matching rules are used. All
  recommended profiles are found, and the result is sorted.
* Status upsert: no lost update under concurrent writers. At most 100
  conditions are kept.

## 2. Plan

Modules, in order of importance:

1. `PtpDaemon` (done): the control loop, apply, and cmdRun/cmdStop for all
   descriptors of two applies. Abstract data: a profile is which role options
   are nil/empty/set; a config file is `<<role, runID>>`; an OS process is the
   state of `p.cmd`.
2. `ProcessGroup` (done): the abstract group contract. `PtpDaemon` refines it
   through `INSTANCE ProcessGroup WITH members <- Range(group), alive <-
   Running, epoch <- gen`.
3. `ConfigRender` (done): parse -> prepend interface -> inject ->
   monitor flags -> render -> write back, with `addScheduling` and
   `getLogFilterRegex`, over re-applies of the stored profile list.
4. `PtpConditionStatus` (done): concurrent `UpsertPtpCondition` callers against a
   versioned store, with conflicts, bounded retries and the 100-entry cap.
   It refines `ConditionStore` (done), the abstract contract in which each
   call is an atomic upsert.
5. `Recommend` (done): `getRecommendProfilesNames` and `getRecommendProfiles` as
   RECURSIVE operators checked against a declarative reference.
6. Plugin registry (done, inside `ConfigRender`): `registerPlugins`, the
   e810 and reference hooks, called from the apply.
7. `TlsProfile` (done): the TLS applicator built at start-up and applied
   to the servers' `tls.Config`.

## 3. `PtpDaemon`: how the model corresponds to the code

| Variable | Code |
|---|---|
| `ctl`, `mode`, `idx`, `prof`, `ri`, `applying`, `gen` | program counter and loop indices of `Run` / `applyNodePTPProfiles` / `applyNodePtpProfile` / `cmdStop` |
| `group` | `processManager.process` |
| `run[d]` | program counter of `cmdRun(d)`: idle (not launched), pipe, check, start, drain, sleep, exit, done |
| `cmd[d]` | `p.cmd`: new (built, not started), running, exited, failed (Start error, Process nil) |
| `stopped[d]` | `p.stopped` |
| `termed[d]` | SIGTERM delivered to the current process |
| `status` | `UpdateProcessStatusMetrics` per (process name, config name) |
| `files` | config files under `/var/run` |
| `nodeProfiles`, `pending`, `updates`, `shutdown` | `ptpUpdate.NodeProfiles`, `UpdateCh`, `stopCh` |

A descriptor is `<<apply, runID, role>>`. `cmdStop` is four actions
(`StopSet`, `StopSignal`, `StopRemove`, `StopWait`), because `cmdRun` can
interleave between any two of them. `cmdRun` is five actions plus the
`exitCh` send, which is joined with `StopWait` because an unbuffered send is
a rendezvous. `RunDrain` joins `<-done`, `Wait` and the Down report. These are
local to the goroutine once the pipe has closed. A `Start` whose config file
is already gone yields a process that exits at once (ptp4l cannot open its
config). The `StdoutPipe` error branch (line 402) is not modelled: each
iteration uses a fresh `exec.Cmd`, so it cannot fail.

### Runs

| Run | Checks | Shows |
|---|---|---|
| `daemon_core` (`MC_PtpDaemon.cfg`) | TypeOK, ConfigPathExclusive, RunningImpliesStatusUp, GroupRefinement, RestartAfterExit, SignalledStopReturns | With one ptp4l+phc2sys profile, two applies, shutdown, crashes, apply failures and spawn failures: no two live processes share a path, a running process is never reported down, the daemon refines ProcessGroup, crashed processes are restarted, and a stop that sent SIGTERM to a running process returns |
| `daemon_two_profiles` (`MC_PtpDaemonTwo.cfg`) | ConfigPathExclusive, RunningImpliesStatusUp, GroupRefinement (the type invariant is `daemon_core`'s) | With two profiles per apply (runIDs 0 and 1, ts2phc included) |
| `stop_before_start_hang` | StoppedRunLoopTerminates | **violated**: a stop issued before cmdRun's check hangs cmdRun on `<-done` and cmdStop on `exitCh` |
| `spawn_after_stop` | NoSpawnAfterStop | **violated**: check-then-Start race spawns a stopped descriptor |
| `stop_nil_pid_panic` | NoStopPanic | **violated**: stopping after a failed Start dereferences a nil Process |
| `failed_apply_orphans` | IdleGroupLaunched | **violated**: a failed apply leaves unlaunched descriptors whose stop never returns |

### Bounds

`MaxApplies = 2` is the least bound at which the second group reuses the
paths and metric keys of the first, and it allows one apply plus a
shutdown. One profile with two roles is enough for every interleaving of a
stop with a member's `cmdRun`. The two-profile run adds a second runID and
ts2phc; its liveness check was dropped because it would exceed five minutes.
Crashes (`ProcessExit`) are unbounded, and they are the environment's
nondeterminism.

### Fairness

Weak fairness on the control loop and on each `cmdRun` goroutine: the Go
scheduler runs every runnable goroutine, and the 1 s sleeps end. Weak
fairness on the exit of a process that received SIGTERM: ptp4l, phc2sys and
ts2phc terminate on SIGTERM. Crashes, notifications and the shutdown are not
fair; they may never happen.

`CHECK_DEADLOCK FALSE` is set on every run because the daemon really can
stop for good. `Run` returns on shutdown, a stop can panic, and a stop can
block forever (the violation runs).

### Not modelled, and why

* Config content, command lines, the log filter and metrics extraction from
  output lines. These are data; `ConfigRender` will take them.
* `hwconfigs`: no registered plugin appends to it, so it is always empty.
* A child that ignores SIGTERM: `cmdStop` has no timeout (line 466) and
  would block forever by design (spec section 9, open question). The
  fairness assumption rules such a child out; `SignalledStopReturns` then
  checks that the rest of the stop path (drain, the stopped check after the
  retry sleep, the `exitCh` rendezvous) always brings a signalled stop back.
  A stop that signalled nothing is `stop_before_start_hang`'s case.
* Regex compile failure: it only changes which lines are printed.

## 4. `PtpConditionStatus`: the status condition upsert

`UpsertPtpCondition` (`src/pkg/status/ptpconfig_status.go`) has no caller
under `src/`, so the model lets any number of goroutines call it on one
PtpConfig at once. The model's state is the object held by the API server
(`store`, `version` = resourceVersion) and each caller's try:

* `Get` is Get, then the upsert by composite key into the local copy (the
  first match is replaced in place, otherwise the condition is appended),
  then the trim to `MaxConditions`. `GetError` is the early return of a Get
  error, which ends `ExponentialBackoff` with that error.
* `UpdateStatus` applies the copy when its resourceVersion is current.
  `UpdateConflict`, `UpdateFailed` and `UpdateReplyLost` (applied, reply
  lost) return `(false, nil)`, and `Backoff` then retries, or returns
  ErrWaitTimeout when `Steps` is down to one.
* A condition is its key (Type, Profile, Filename, Process) and a value for
  the rest of its fields.

Run `condition_upsert` uses three callers, two of them on the same key, a
history bound of 2, an object that starts with an older third-key
condition, and `BackoffSteps = 2`. That is the least count that retries
after a lost reply, and the code's 6 only lengthens the same loop. It checks
these properties:

* `UniqueConditionKeys`: no duplicate keys, even when a lost reply is retried.
* `NoLostUpdate`: the stored value of every written key is the last one
  applied, unless the trim evicted the key.
* `EveryUpsertReturns`: under weak fairness for each caller.
* `AtomicUpsert`: `PtpConditionStatus` implements `ConditionStore`
  (`CS == INSTANCE ConditionStore WITH UpsertOp <- Upsert, result <-
  Outcome`). In the abstract module each call is pending until it returns.
  `Apply` writes the call's condition into the conditions stored at that
  moment, atomically. It may take effect more than once, and a call that
  took effect may still return timeout. `Fail` returns err or timeout
  without effect. Under the mapping, `Get` and a conflicting or failed
  update are stutters or `Fail`. `UpdateStatus` and `UpdateReplyLost` are
  `Apply`: a current resourceVersion means the store is still the one the
  Get read. So the round trips are linearizable, and a call returns ok only
  after its own upsert was applied. A plain UpdateStatus without the
  resourceVersion check (mutant `FreshAlways`) breaks it at once. The
  abstract fairness (no call stays pending for ever) follows from
  `EveryUpsertReturns`'s fairness.

`CHECK_DEADLOCK FALSE` is set because the run ends when every call has
returned.

The history keeps list order: an in-place update keeps its old position and
the trim drops the front. So the entry evicted is the one inserted first,
even if it was rewritten a moment ago. Nothing under `src/` or in the spec
says which entries the bound should keep, so no property claims otherwise.

## 5. `Recommend`: profile recommendation

`src/controllers/recommend.go` is pure code, so `Recommend` translates it
function by function into operators:

* `getRecommendProfilesNames` flattens the rules of all PtpConfigs and sorts
  them with `SortSeq` and the `sort.Slice` comparator `PriorityLess`, which
  puts rules without a priority last. It then folds `RecommendRule`, one
  iteration of the switch loop, over them (`RecommendLoop`), carrying
  `foundPolicy`, `priority` and whether the loop panicked: both switch
  cases after the match test dereference `r.Priority`.
* `nodeMatches` covers the node name and the label *key*.
* `getRecommendProfiles` selects profiles by unqualified name and copies them
  with the qualified name `<<cr, profile>>`. It resolves `controllingProfile`
  and `haProfiles` through `resolveProfileReference`. It fails when
  `foundNames` (taken from the original names) misses a recommended name, and
  otherwise sorts by qualified name.
* The `ProfileReferenceValid=False` condition is recorded as the set
  `invalid` of flagged PtpConfig names.

The state machine has one step. `Init` picks the PtpConfig list the reconcile
reads, and `getRecommendNodePtpProfiles` computes the result. The invariants
compare the result with a reference stated without the loop. Names are
naturals of one width, so the string order of `cr_profile` is the pair
order. A reference value is what `strings.SplitN(value, "_", 2)` yields.
`Nil` is the nil pointer or an absent setting.

`MC_Recommend` builds every list of at most two PtpConfigs, in both orders,
from two families:

* Selection (13k lists): each CR has no profile, profile 5, profile 6, or
  both. It has no rule, or one rule for 5 or 6 at priority 0 or 1. That rule
  matches by the node's name, by a label the node has, by a label it lacks,
  or has no match rule. The remaining choices are one rule without a
  profile, and a rule for 5 without a priority that matches the node or one
  for 6 that does not (so a nil priority also comes after a found policy).
* References (3k lists): both CRs recommend 5 to the node. Profile 5 has one
  of the following: any `controllingProfile`; any single `haProfiles` entry;
  or both set to the same reference. A reference is plain or prefixed, and
  names an existing profile or not.

Two CRs are the least number that gives cross-CR ties, name collisions, and
a reference that points into another CR.

| Run | Checks | Shows |
|---|---|---|
| `recommend` | TypeOK, RecommendMatchesReference, ReferencesResolved, ListOrderIrrelevant | when the reconcile returns, the sorted loop picks exactly the best-priority matching names, and it errors exactly when one is undefined. Every reference becomes a qualified existing name or flags its CR, and flags are raised only for references that name nothing. The result for a list equals the result for the same PtpConfigs in the other order, except that a plain reference to a name two PtpConfigs define may resolve differently (the first match in list order); the profiles, the error and the flagged CRs still agree. The final sort by qualified name is what gives this: sorting by the profile's own name (mutant `QualifiedNameLessProfileOnly`) breaks it as soon as two CRs both give profile 5 |
| `recommend_cross_cr` | WinningRuleOwnsProfile | **violated**: CR 2 wins node n1 with a rule for its own profile 5, and CR 1's profile 5, with no rule for n1, is applied too |

The PtpConfig types are not under `src/`, so whether the CRD admits a
missing priority cannot be read here; the comparator at lines 193-196 handles
one, so the model admits it. A panic in the reconcile is recorded as the
result `panicked`, and the other invariants are stated for the reconciles
that return. No property is stated about the panic itself: nothing under
`src/` or in the spec says what a nil priority should mean, so such a
property could only restate the dereference.

The order of a cached List is not fixed, and the daemon numbers the profiles
it receives (runIDs, config paths) in the order it gets them. That is why
`ListOrderIrrelevant` compares each result with the one for the reversed
list; with at most two PtpConfigs the reversal gives every order.

## 6. `ConfigRender`: rendering the configs of an apply

`ConfigRender` models what `applyNodePTPProfiles` and `applyNodePtpProfile`
(`daemon.go` 146-352) compute. `PtpDaemon` models how they interleave with
the supervisors; here a whole apply is one step, `Apply`. For each profile,
in order and with run id 0, 1, ..., and for each role (ts2phc, ptp4l,
phc2sys), `RoleStep` parses the role's text and `RoleOutcome` does the
rest (intermediate results are passed as operator arguments rather than
LET-bound; this keeps TLC's `-coverage` pass, which re-walks a LET definition
at each use, linear):

* It skips the role when the role's options are nil or `""`. ptp4l's nil
  options become `" "`.
* It parses the role's config text. An option line before any header is a
  parse error, which ends the apply with the descriptors built so far.
* It prepends `[interface]` when the profile names an interface, and injects
  the run's `message_tag` and `uds_address` into every `[global]` section.
* It adds the monitor flags, renders the text and the interface list, and
  writes the text back into the stored profile.
* It builds the descriptor: the command line (with `chrt -f` from
  `addScheduling`), `strings.Split` of the interface list, and the log filter
  from `getLogFilterRegex`. It then writes the file.

A config text is a sequence of header and option lines. Paths, sockets and
tags are the tuples of role and run id that their format strings print.
`populatePtp4lConf`, `renderPtp4lConf` and `addFlagsForMonitor` are not under
`src/`, so they are modelled from spec 4.1:

* A config without `[global]` gets an empty one; spec 4.1 says the section is
  "located" and nil configs are common.
* The monitor flags are added only where the key is absent.

The plugin manager is `registerPlugins(Plugins)` over the names in
`mapping.PluginMapping`. That mapping is not under `src/`; the model takes it
to hold `e810` and `reference`. Each constructor returns nil unless it is
called with its own name. In the apply:

* Each profile's `OnPTPConfigChange` runs before its roles. The e810 hook
  runs the pin script, counted in `pinScripts`, when the profile's `e810`
  options unmarshal with `enableDefaultConfig` true. A malformed option
  leaves the flag false.
* `hwconfigs` is cleared at the start of the apply. `PopulateHwConfig` runs
  after each profile that succeeded, and both hooks append nothing.

The model reaches a case that no property claims is wrong: the pin script
runs for a profile whose apply then fails, and again on every re-apply.

The environment can `Deliver` a new list, or `Resignal` for the stored one,
up to `MaxSignals` = 3 times in all. `Resignal` is reachable because an
apply does not compare with the previous one (the TODO at `daemon.go:168`).
The ghost variables `delivered` and `groupSource` keep the list as it was
delivered, because the write-back changes `nodeProfiles`.

`MC_ConfigRender` has one interface, one user key, one monitor key and five
profiles. Between them they have:

* a user `uds_address` and a user monitor key;
* the documented form, where the ptp4l text already holds `[i1]`;
* no config and no interface;
* a malformed text;
* FIFO priorities 65, 66, 0 and nil;
* `logReduce` spelled `True`, `TRUE` and `false`.

The inputs are every list of one or two of these profiles, so a failing
profile appears both first and second.

| Run | Checks | Shows |
|---|---|---|
| `config_render` | TypeOK, RunResourcesPaired, UserOptionsSurvive | 14k states: each written config's `[global]` names its own run's socket and the descriptor's tag, config paths are distinct, and every user option other than the two injected keys survives, also after re-renders of written-back text |
| `config_render_repeat` | UniqueSectionNames | **violated**: apply, re-signal, apply. The second render of the written-back ptp4l text gets a second `[i1]`. The documented form would be duplicated on the first apply |

The model also reproduces a smaller divergence, which no run checks. A
profile whose configs have no interface section gets a descriptor whose
interface list is `[""]`, because `strings.Split("", ",")` returns one empty
field (`daemon.go:325`). Spec 4.1 says the list holds the interface names
found. The only effect is an empty per-interface tag on logs and metrics,
and that is outside the modelled state.

`CHECK_DEADLOCK FALSE` is set because `Run` blocks on `UpdateCh` once the
bounded environment stops sending. The `WriteFile` error path is left to
`PtpDaemon`'s `BuildFails`.

## 7. `TlsProfile`: the TLS settings of the operator's servers

`NewTLSConfigApplicator` (`src/pkg/tls/tls.go`) fetches the cluster's
`TLSSecurityProfile` once. It resolves the profile with
`ResolveTLSProfileSpec`:

* nil resolves to Intermediate;
* Custom without its spec resolves to Intermediate;
* Old and Modern resolve to themselves;
* any other type resolves to Intermediate.

It then converts the spec with `MinTLSVersion`, which maps an unknown version
to TLS 1.2, and with `CipherSuites`. `CipherSuites` skips TLS 1.3 names and
names without a Go suite, and returns a nil slice when nothing is left.
The function returns a closure that sets `MinVersion` and `CipherSuites` on a
server's `tls.Config`. The model has two actions:

* `NewTLSConfigApplicator` chooses the fetch outcome: an error, which resolves
  like a nil profile, or one of the profiles.
* `ApplyTLSOpts` applies the captured values to a zero `tls.Config`.

Two sets of values are constants, taken from libraries rather than from
`src/`:

* The predefined profiles. They keep the shape of `configv1.TLSProfiles`: Old
  adds RSA key exchange and TLS 1.0, and Modern is TLS 1.3 only.
* The suites `crypto/tls` uses when `CipherSuites` is nil: the ECDHE suites.

`MC_TlsProfile` covers every fetch outcome: an error, no profile, each
predefined type, Custom without a spec, an unknown type, and Custom specs of
one or two of five names with any minimum version.

| Run | Checks | Shows |
|---|---|---|
| `tls_empty_suites` | NegotiableWithinProfile | **violated**: a Custom profile listing only `TLS_AES_128_GCM_SHA256` with minimum TLS 1.0 gives `CipherSuites` = nil. The server then accepts TLS 1.0-1.2 with `crypto/tls`'s default suites, none of which the profile lists. A profile of DHE ciphers only does the same |

Three things are not modelled:

* `IANACipherSuites` and `MinTLSVersionString`. They produce kube-rbac-proxy
  arguments, and their caller is not under `src/`.
* The client calls of `GetAPIServerTLSProfile`. They appear only as the
  choice of fetch outcome.
* A later change of the cluster profile. The code fetches once, so the
  servers keep the captured values until the process restarts. This is
  listed as a hazard.

