--------------------------- MODULE MC_ConfigRender ---------------------------
(* One interface, one user key k1, the monitor key mk, and five profiles  *)
(* covering: a user uds_address and monitor key under [global] (PA, PE), *)
(* the documented form with the interface section already in the text    *)
(* (PD), no config and no interface (PB), and an option line before any *)
(* header (PC).  Scheduling priorities 65, 66 and 0 and nil straddle the *)
(* accepted range.  Their e810 plugin options enable the pin script (PA,  *)
(* and PC, which then fails), disable it, are malformed, or are absent.  *)
(* The daemon is started with e810, reference and an unknown name.      *)
EXTENDS ConfigRender

CONSTANTS i1, k1, mk, u1, u2, F, NilValue, OptValue

MCMonitorFlags ==
  [r \in {"ts2phc", "ptp4l", "phc2sys"} |-> IF r = "ts2phc" THEN NoOptions ELSE (mk :> u2)]

Sec(n) == <<"section", n>>
Opt2(k, v) == <<"option", k, v>>

TUser == <<Sec("global"), Opt2("uds_address", u1), Opt2(mk, u1), Opt2(k1, u1)>>
TIface == <<Sec(i1), Opt2(k1, u1), Sec("global"), Opt2(k1, u2)>>
TBad == <<Opt2(k1, u1), Sec("global")>>

Profile(iface, confs, opts, policy, prio, filter, reduce, e810) ==
  [interface |-> iface, conf |-> confs, opts |-> opts, policy |-> policy,
   priority |-> prio, stdoutFilter |-> filter, logReduce |-> reduce, e810 |-> e810]

RoleMap(ts, ptp, phc) == [r \in {"ts2phc", "ptp4l", "phc2sys"} |->
                            CASE r = "ts2phc" -> ts [] r = "ptp4l" -> ptp [] OTHER -> phc]

PA == Profile(i1, RoleMap(NilValue, TUser, NilValue), RoleMap(NilValue, OptValue, OptValue),
              "SCHED_FIFO", 65, NilValue, "True", "enable")
PB == Profile(NilValue, RoleMap(TUser, <<>>, NilValue), RoleMap(OptValue, NilValue, ""),
              "SCHED_FIFO", 66, F, "false", NilValue)
PC == Profile("", RoleMap(NilValue, TBad, NilValue), RoleMap(NilValue, OptValue, OptValue),
              NilValue, NilValue, NilValue, NilValue, "enable")
PD == Profile(i1, RoleMap(NilValue, TIface, NilValue), RoleMap(NilValue, OptValue, OptValue),
              "SCHED_FIFO", NilValue, NilValue, NilValue, "malformed")
PE == Profile(NilValue, RoleMap(NilValue, TUser, TUser), RoleMap(NilValue, "", OptValue),
              "SCHED_OTHER", 0, NilValue, "TRUE", "disable")

MCKeys == {k1, mk, "message_tag", "uds_address"}

MCPlugins == <<"e810", "reference", "ice">>
MCPluginMapping == {"e810", "reference"}

MCProfiles == {PA, PB, PC, PD, PE}
MCInputs == {<<p>> : p \in MCProfiles} \cup {<<p, q>> : p, q \in MCProfiles}
MCRepeatInputs == {<<PA>>}
MCNoInterfaceInputs == {<<PB>>}
=============================================================================
