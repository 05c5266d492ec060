\* Every profile list of one or two of the five profiles, delivered or
\* re-signalled up to three times.
CONSTANTS
  i1 = i1
  k1 = k1
  mk = mk
  u1 = u1
  u2 = u2
  F = F
  NilValue = NilValue
  OptValue = OptValue
  Nil <- NilValue
  Opt <- OptValue
  Interfaces = {i1}
  Keys <- MCKeys
  UserValues = {u1, u2, F}
  MonitorFlags <- MCMonitorFlags
  Inputs <- MCInputs
  MaxSignals = 3
  Plugins <- MCPlugins
  PluginMapping <- MCPluginMapping
SPECIFICATION Spec
INVARIANT TypeOK RunResourcesPaired UserOptionsSurvive
\* The daemon blocks on UpdateCh once the bounded environment stops sending.
CHECK_DEADLOCK FALSE
