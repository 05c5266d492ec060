---------------------------- MODULE ConfigRender ----------------------------
(***************************************************************************)
(* The rendering half of applyNodePTPProfiles                             *)
(* (src/pkg/daemon/daemon/daemon.go): for each profile of the stored      *)
(* list, in order and with run ids 0, 1, ..., and for each role ts2phc,   *)
(* ptp4l, phc2sys, applyNodePtpProfile parses the role's config text,     *)
(* prepends the profile's interface section, injects message_tag and      *)
(* uds_address into [global], adds the monitor flags, renders the text,   *)
(* writes it back into the stored profile, builds the process descriptor  *)
(* (command line with the optional chrt wrapper, interface list, log     *)
(* filter) and writes the config file.                                    *)
(*                                                                         *)
(* The stopping and starting of processes is PtpDaemon's; here an apply   *)
(* is one step.  The external layer may deliver a new profile list, or    *)
(* signal UpdateCh again for the list it stored (daemon.go:168 notes      *)
(* that an apply does not compare with the previous one).                 *)
(*                                                                         *)
(* A config text is a sequence of lines: <<"section", name>> for a        *)
(* header "[name]" and <<"option", key, value>> for a "key value" line.   *)
(* Paths, sockets and tags are tuples of the role and the run id that     *)
(* their format strings print.                                            *)
(***************************************************************************)
EXTENDS Integers, Sequences, SequencesExt, FiniteSets, TLC

CONSTANTS
  Interfaces,     \* interface names
  Keys,           \* option keys a config may carry
  UserValues,     \* option values a user writes
  MonitorFlags,   \* MonitorFlags[role]: options addFlagsForMonitor adds
  Nil,            \* an absent pointer or map entry
  Opt,            \* a non-empty option string such as "-2 -s"
  Inputs,         \* the profile lists the external layer may deliver
  MaxSignals,     \* bound on UpdateCh signals
  Plugins,        \* the plugin names the daemon is started with
  PluginMapping   \* the names mapping.PluginMapping holds

Roles == <<"ts2phc", "ptp4l", "phc2sys">>
Global == "global"
Injected == {"message_tag", "uds_address"}
MasterOffset == "^.*master offset.*$"
TrueSpellings == {"true", "True", "TRUE"}   \* strings.ToLower(s) = "true"

RunIDs == 0..(Max({Len(l) : l \in Inputs}) - 1)
SocketPath(runID) == <<"ptp4l.socket", runID>>
Tags == {<<t, n>> : t \in {"ptp4l", "ts2phc"}, n \in RunIDs}
Values == UserValues \cup {SocketPath(n) : n \in RunIDs} \cup Tags
Line == {<<"section", n>> : n \in {Global} \cup Interfaces}
          \cup {<<"option", k, v>> : k \in Keys, v \in Values}

NoOptions == [k \in {} |-> Nil]

-----------------------------------------------------------------------------
(* populatePtp4lConf (not under src/, from spec 4.1): an option line      *)
(* before any header is a MalformedConfig error; a later option of the    *)
(* same key in a section wins; a config without [global] gets an empty    *)
(* one, so that the injection below always finds it.  A nil text parses  *)
(* as the empty one.                                                      *)
ParseLine(acc, l) ==
  CASE ~acc.ok -> acc
    [] l[1] = "section" ->
         [acc EXCEPT !.sections = Append(@, [name |-> l[2], options |-> NoOptions])]
    [] acc.sections = <<>> -> [ok |-> FALSE, sections |-> <<>>]
    [] OTHER ->
         [acc EXCEPT !.sections[Len(acc.sections)].options = (l[2] :> l[3]) @@ @]

(* The folded text, with the [global] section added when it is absent. *)
WithGlobal(acc) ==
  IF \E i \in DOMAIN acc.sections : acc.sections[i].name = Global
    THEN acc
    ELSE [acc EXCEPT !.sections = <<[name |-> Global, options |-> NoOptions]>> \o @]

populatePtp4lConf(text) ==
  WithGlobal(FoldLeft(ParseLine, [ok |-> TRUE, sections |-> <<>>],
                      IF text = Nil THEN <<>> ELSE text))

(* renderPtp4lConf (not under src/, from spec 4.1): each section as its  *)
(* header followed by its option lines (Go's map order, immaterial once   *)
(* parsed), and the de-duplicated names of the non-global sections,       *)
(* which the text joins with commas.                                      *)
OptionLines(o) == LET ks == SetToSeq(DOMAIN o) IN [i \in DOMAIN ks |-> <<"option", ks[i], o[ks[i]]>>]

Dedup(s) == FoldLeft(LAMBDA acc, x : IF x \in ToSet(acc) THEN acc ELSE Append(acc, x), <<>>, s)

renderPtp4lConf(secs) ==
  [text   |-> FlattenSeq([i \in DOMAIN secs |-> <<<<"section", secs[i].name>>>> \o OptionLines(secs[i].options)]),
   ifaces |-> Dedup(SelectSeq([i \in DOMAIN secs |-> secs[i].name], LAMBDA n : n # Global))]

(* strings.Split(ifaces, ","): the comma-separated fields, and a single *)
(* empty field for the empty string.                                     *)
SplitComma(fields) == IF fields = <<>> THEN <<"">> ELSE fields

(* A plausible slip: the monitor flags overwrite the user's keys. *)
MonitorOverwrite(r, secs) ==
  [i \in DOMAIN secs |-> IF secs[i].name = Global
                           THEN [secs[i] EXCEPT !.options = MonitorFlags[r] @@ @]
                           ELSE secs[i]]

(* addFlagsForMonitor (not under src/, from spec 4.1): the role's        *)
(* monitor flags go into [global]; keys already there win.               *)
addFlagsForMonitor(r, secs) ==
  [i \in DOMAIN secs |-> IF secs[i].name = Global
                           THEN [secs[i] EXCEPT !.options = @ @@ MonitorFlags[r]]
                           ELSE secs[i]]
-----------------------------------------------------------------------------
(* The per-role paths, socket and tag of daemon.go:250-278.  All roles   *)
(* of a run share the socket; phc2sys is tagged as the run's ptp4l.      *)
RoleSetup(r, runID) ==
  [configFile |-> <<r, runID>>,
   socketPath |-> SocketPath(runID),
   messageTag |-> <<IF r = "ts2phc" THEN "ts2phc" ELSE "ptp4l", runID>>]

(* ptp4l's nil options become " "; a role with nil or "" options is      *)
(* skipped.                                                              *)
ConfigOpts(p, r) == IF r = "ptp4l" /\ p.opts[r] = Nil THEN " " ELSE p.opts[r]
Skipped(p, r) == ConfigOpts(p, r) \in {Nil, ""}

(* A set interface becomes a new empty leading section, whether or not  *)
(* the config already has one of that name.                             *)
PrependInterface(p, secs) ==
  IF p.interface \notin {Nil, ""}
    THEN <<[name |-> p.interface, options |-> NoOptions]>> \o secs
    ELSE secs

(* A plausible slip: inject only the keys the section lacks. *)
InjectIfAbsent(secs, tag, sock) ==
  [i \in DOMAIN secs |-> IF secs[i].name = Global
       THEN [secs[i] EXCEPT !.options = @ @@ (("message_tag" :> tag) @@ ("uds_address" :> sock))]
       ELSE secs[i]]

(* Every [global] section gets the run's message_tag and uds_address,   *)
(* overwriting the user's.                                               *)
InjectGlobal(secs, tag, sock) ==
  [i \in DOMAIN secs |-> IF secs[i].name = Global
       THEN [secs[i] EXCEPT !.options = (("message_tag" :> tag) @@ ("uds_address" :> sock)) @@ @]
       ELSE secs[i]]

(* A plausible slip: an off-by-one in the upper priority bound. *)
SchedulingOffByOne(p, cmd) ==
  IF p.policy = "SCHED_FIFO" /\ p.priority # Nil /\ p.priority >= 1 /\ p.priority <= 66
    THEN [cmd EXCEPT !.chrt = p.priority] ELSE cmd

(* "/bin/chrt -f prio" is prefixed for SCHED_FIFO with a priority in    *)
(* 1..65; otherwise the command line is left as it is.                  *)
addScheduling(p, cmd) ==
  IF p.policy = "SCHED_FIFO" /\ p.priority # Nil /\ p.priority >= 1 /\ p.priority <= 65
    THEN [cmd EXCEPT !.chrt = p.priority] ELSE cmd

(* The regular expression as its "|"-separated alternatives. *)
getLogFilterRegex(p) ==
  LET base == IF p.stdoutFilter # Nil THEN p.stdoutFilter ELSE "^$"
  IN  IF p.logReduce \in TrueSpellings THEN <<base, MasterOffset>> ELSE <<base>>

(* One role of applyNodePtpProfile: skipped, a parse error that ends    *)
(* the profile, or the rendered text and the descriptor.  The command    *)
(* line "/usr/sbin/<role> -f <path>  <opts> " is kept as its parts.     *)
RoleOutcome(p, runID, r, setup, parsed) ==
  CASE Skipped(p, r) -> [kind |-> "skip"]
    [] ~parsed.ok -> [kind |-> "error"]
    [] OTHER ->
         LET out == renderPtp4lConf(addFlagsForMonitor(r,
                      InjectGlobal(PrependInterface(p, parsed.sections),
                                   setup.messageTag, setup.socketPath)))
         IN  [kind |-> "ok", text |-> out.text,
              desc |-> [name |-> r, run |-> runID, ifaces |-> SplitComma(out.ifaces),
                        configPath |-> setup.configFile, socketPath |-> setup.socketPath,
                        messageTag |-> setup.messageTag,
                        argv |-> addScheduling(p, [chrt |-> Nil, binary |-> r,
                                   config |-> setup.configFile, opts |-> ConfigOpts(p, r)]),
                        logFilterRegex |-> getLogFilterRegex(p)]]

RoleStep(p, runID, r) ==
  RoleOutcome(p, runID, r, RoleSetup(r, runID), populatePtp4lConf(p.conf[r]))
-----------------------------------------------------------------------------
(* The constructors: each returns nil unless called with its own name. *)
E810(name) == IF name = "e810" THEN "e810" ELSE Nil
Reference(name) == IF name = "reference" THEN "reference" ELSE Nil

(* registerPlugin: the constructor mapping.PluginMapping holds under the *)
(* name, called with it; an unknown name is logged and gives nil.        *)
registerPlugin(name) ==
  CASE name \notin PluginMapping -> Nil
    [] name = "e810" -> E810(name)
    [] OTHER -> Reference(name)

registerPlugins(names) == {registerPlugin(names[i]) : i \in DOMAIN names} \ {Nil}

pluginManager == registerPlugins(Plugins)

(* The hooks' effects, as the number of runs of the e810 pin script.    *)
(* OnPTPConfigChangeE810 runs it when the profile's "e810" options       *)
(* unmarshal with enableDefaultConfig true; an unmarshal error is logged *)
(* and leaves the flag false.                                            *)
OnPTPConfigChangeE810(p) == IF p.e810 = "enable" THEN 1 ELSE 0
onPTPConfigChangeGeneric(p) == 0

(* PluginManager.OnPTPConfigChange: every registered plugin's hook. *)
OnPTPConfigChange(p) ==
  (IF "e810" \in pluginManager THEN OnPTPConfigChangeE810(p) ELSE 0)
  + (IF "reference" \in pluginManager THEN onPTPConfigChangeGeneric(p) ELSE 0)

(* Both plugins' PopulateHwConfig hooks append nothing. *)
PopulateHwConfigE810(hw) == hw
PopulateHwConfigGeneric(hw) == hw

(* PluginManager.PopulateHwConfig: every registered plugin's hook. *)
PopulateHwConfig(hw) ==
  LET afterE810 == IF "e810" \in pluginManager THEN PopulateHwConfigE810(hw) ELSE hw
  IN  IF "reference" \in pluginManager THEN PopulateHwConfigGeneric(afterE810) ELSE afterE810

-----------------------------------------------------------------------------
(* applyNodePtpProfile: the roles in order until a parse error.  Each    *)
(* rendered role writes its text back through the profile's config       *)
(* pointer, which the stored list shares.  (The profile's Interface is   *)
(* set to "" only in the loop's copy of the profile.)                    *)
ProfileOutcome(p, steps, done) ==
  LET ordered == SelectSeq(<<1, 2, 3>>, LAMBDA i : i \in done)
  IN  [ok      |-> \A i \in 1..3 : steps[i].kind # "error",
       descs   |-> [j \in DOMAIN ordered |-> steps[ordered[j]].desc],
       scripts |-> OnPTPConfigChange(p),
       files   |-> [f \in {steps[i].desc.configPath : i \in done} |->
                      steps[CHOOSE i \in done : steps[i].desc.configPath = f].text],
       profile |-> [p EXCEPT !.conf = [r \in DOMAIN p.conf |->
                      IF \E i \in done : Roles[i] = r /\ p.conf[r] # Nil
                        THEN steps[CHOOSE i \in done : Roles[i] = r].text
                        ELSE p.conf[r]]]]

(* The roles rendered: those before the first parse error, not skipped. *)
RolesDone(steps) ==
  {i \in 1..3 : steps[i].kind = "ok" /\ \A j \in 1..i : steps[j].kind # "error"}

ProfileSteps(p, steps) == ProfileOutcome(p, steps, RolesDone(steps))

applyNodePtpProfile(p, runID) ==
  ProfileSteps(p, [i \in 1..3 |-> RoleStep(p, runID, Roles[i])])

(* applyNodePTPProfiles: hwconfigs is cleared, then run ids 0, 1, ...   *)
(* in list order; the first failing profile ends the apply with the      *)
(* descriptors and files built so far.  Each profile's OnPTPConfigChange *)
(* runs before its roles, and PopulateHwConfig after a profile that      *)
(* succeeded.                                                            *)
RECURSIVE ApplyFrom(_, _, _)
AccumulateProfile(list, k, acc, res) ==
  LET next == [ok       |-> res.ok,
               scripts  |-> acc.scripts + res.scripts,
               hwconfigs |-> IF res.ok THEN PopulateHwConfig(acc.hwconfigs) ELSE acc.hwconfigs,
               group    |-> acc.group \o res.descs,
               files    |-> res.files @@ acc.files,
               profiles |-> [acc.profiles EXCEPT ![k] = res.profile]]
  IN  IF res.ok THEN ApplyFrom(list, k + 1, next) ELSE next

ApplyFrom(list, k, acc) ==
  IF k > Len(list) THEN acc
  ELSE AccumulateProfile(list, k, acc, applyNodePtpProfile(list[k], k - 1))

applyNodePTPProfiles(list) ==
  ApplyFrom(list, 1, [ok |-> TRUE, scripts |-> 0, hwconfigs |-> <<>>, group |-> <<>>,
                      files |-> NoOptions, profiles |-> list])
-----------------------------------------------------------------------------
VARIABLES
  nodeProfiles,  \* dn.ptpUpdate.NodeProfiles, as the write-back leaves it
  delivered,     \* the list as the external layer delivered it
  pending,       \* a signal waits in UpdateCh
  signals,       \* signals sent so far
  files,         \* config path -> the text last written there
  group,         \* dn.processManager.process: the descriptors built
  groupSource,   \* the delivered list the group was built from
  pinScripts,    \* runs of the e810 pin script so far
  hwconfigs      \* *dn.hwconfigs

vars == <<nodeProfiles, delivered, pending, signals, files, group, groupSource,
          pinScripts, hwconfigs>>

Init ==
  /\ nodeProfiles = <<>> /\ delivered = <<>>
  /\ pending = FALSE /\ signals = 0
  /\ files = NoOptions /\ group = <<>> /\ groupSource = <<>>
  /\ pinScripts = 0 /\ hwconfigs = <<>>

(* The external layer stores a new list and signals UpdateCh. *)
Deliver ==
  /\ signals < MaxSignals
  /\ \E l \in Inputs : nodeProfiles' = l /\ delivered' = l
  /\ pending' = TRUE /\ signals' = signals + 1
  /\ UNCHANGED <<files, group, groupSource, pinScripts, hwconfigs>>

(* It signals again for the list it stored. *)
Resignal ==
  /\ signals < MaxSignals /\ nodeProfiles # <<>>
  /\ pending' = TRUE /\ signals' = signals + 1
  /\ UNCHANGED <<nodeProfiles, delivered, files, group, groupSource, pinScripts, hwconfigs>>

(* Run receives from UpdateCh and calls applyNodePTPProfiles. *)
Apply ==
  /\ pending
  /\ LET res == applyNodePTPProfiles(nodeProfiles)
     IN  /\ nodeProfiles' = res.profiles
         /\ files' = res.files @@ files
         /\ group' = res.group
         /\ pinScripts' = pinScripts + res.scripts
         /\ hwconfigs' = res.hwconfigs
  /\ groupSource' = delivered
  /\ pending' = FALSE
  /\ UNCHANGED <<delivered, signals>>

Next == Deliver \/ Resignal \/ Apply

Spec == Init /\ [][Next]_vars
-----------------------------------------------------------------------------
TypeOK ==
  /\ pending \in BOOLEAN /\ signals \in 0..MaxSignals
  /\ pinScripts \in Nat /\ hwconfigs \in Seq({})  \* no plugin appends a record
  /\ \A d \in ToSet(group) :
       /\ d.name \in ToSet(Roles) /\ d.run \in RunIDs
       /\ d.configPath = <<d.name, d.run>> /\ d.configPath \in DOMAIN files
       /\ d.argv.chrt \in {Nil} \cup 1..65
       /\ d.ifaces \in Seq(Interfaces \cup {""})
  /\ \A f \in DOMAIN files : files[f] \in Seq(Line)

(* The three roles of a run rendezvous on one control socket: in every   *)
(* config file the group was started from, each [global] section names   *)
(* the socket of the descriptor's run and the descriptor's message tag,  *)
(* whatever the user's text or an earlier apply's write-back put there,  *)
(* and no two descriptors share a config file (daemon.go:250-307).       *)
RunResourcesPaired ==
  /\ \A i, j \in DOMAIN group : i # j => group[i].configPath # group[j].configPath
  /\ \A i \in DOMAIN group :
       \A s \in ToSet(populatePtp4lConf(files[group[i].configPath]).sections) :
         s.name = Global =>
           /\ Injected \subseteq DOMAIN s.options
           /\ s.options["uds_address"] = SocketPath(group[i].run)
           /\ s.options["message_tag"] = group[i].messageTag

(* Every option the user wrote, other than the two injected [global]     *)
(* keys, is in the file of the group's descriptor with the user's value, *)
(* also after re-applies have rendered the written-back text again: the  *)
(* monitor flags never replace a user's key (spec 4.1, daemon.go:310).  *)
UserOptionsSurvive ==
  \A i \in DOMAIN group :
    LET d == group[i]
        orig == populatePtp4lConf(groupSource[d.run + 1].conf[d.name]).sections
        out == populatePtp4lConf(files[d.configPath]).sections
    IN  \A s \in ToSet(orig) : \A k \in DOMAIN s.options :
          (s.name = Global => k \notin Injected) =>
            \E t \in ToSet(out) : t.name = s.name /\ k \in DOMAIN t.options
                                 /\ t.options[k] = s.options[k]

(* Spec 2 and 4.1: section names are unique in a rendered config, the   *)
(* interface section is added only if it is not there yet, and rendering *)
(* the output of a render again does not duplicate it.  daemon.go:294    *)
(* prepends it unconditionally, and :315 stores the rendered text as the *)
(* profile's config, which the next apply renders again.                 *)
UniqueSectionNames ==
  \A f \in DOMAIN files :
    LET secs == populatePtp4lConf(files[f]).sections
    IN  \A i, j \in DOMAIN secs : i # j => secs[i].name # secs[j].name
====
