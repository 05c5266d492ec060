\* The profile with interface i1 and a [global]-only ptp4l config, re-signalled:
\* its written-back text is rendered again.
CONSTANTS
  i1 = i1
  k1 = k1
  mk = mk
  u1 = u1
  u2 = u2
  F = F
  NilValue = NilValue
  OptValue = OptValue
  Nil <- NilValue
  Opt <- OptValue
  Interfaces = {i1}
  Keys <- MCKeys
  UserValues = {u1, u2, F}
  MonitorFlags <- MCMonitorFlags
  Inputs <- MCRepeatInputs
  MaxSignals = 3
  Plugins <- MCPlugins
  PluginMapping <- MCPluginMapping
SPECIFICATION Spec
INVARIANT UniqueSectionNames
\* The daemon blocks on UpdateCh once the bounded environment stops sending.
CHECK_DEADLOCK FALSE
