----------------------------- MODULE CoreTests -----------------------------
(* The core tests (src/src/nugget_core_tests.cc) against the Nugget         *)
(* application of the firmware.  The switch of the UART passthru is         *)
(* allowed in the bootloader only; the tests share the bootloader flag and  *)
(* the switch with all tests before them.  USB must not be active, as the   *)
(* tests say.                                                               *)
EXTENDS AvbTools, TLC

(* The Nugget application.  A faulty one breaks the rule that fault names.  *)

CoreRule ==
  {"VersionIsGiven", "DeviceIdIsFormatted", "StatsCount", "PassthruNeedsBootloader",
   "PassthruIsSet", "PassthruIsReported"}

\* What lies behind an empty reply is anybody's guess.
Reported(d, f) ==
  {Outcome(d, [code |-> "OK", get |-> v]) :
     v \in IF f = "PassthruIsReported" THEN {"OFF", "ENABLED", "OTHER"} ELSE {d.uart}}

SetPassthru(d, f, value) ==
  IF ~d.bootloader /\ f # "PassthruNeedsBootloader" THEN {Outcome(d, Status("BOGUS_ARGS"))}
  ELSE Reported(IF f = "PassthruIsSet" THEN d ELSE [d EXCEPT !.uart = value], f)

\* The switch may be off again after a reboot, and the bootloader may run.
CoreOutcomes(d, f, c) ==
  CASE c.op = "Version"  -> {Outcome(d, [code |-> "OK", some |-> f # "VersionIsGiven"])}
    [] c.op = "DeviceId" -> {Outcome(d, [code |-> "OK", format |-> f # "DeviceIdIsFormatted"])}
    [] c.op = "Stats"    -> {Outcome(d, [code |-> "OK", positive |-> f # "StatsCount"])}
    [] c.op = "GetPassthru" -> Reported(d, f)
    [] c.op = "SetPassthru" -> SetPassthru(d, f, c.value)
    [] c.op = "RebootNugget" ->
         UNION {Done([d EXCEPT !.uart = u, !.bootloader = b])
                  : u \in {d.uart, "OFF"}, b \in BOOLEAN}
    [] OTHER -> Outcomes(d, f, c)

----------------------------------------------------------------------------
(* The tests.                                                               *)

Asks(call, must) == Step(call, Code("OK") @@ must, Nothing, ABORT)

GetVersionStringTest == Asks([op |-> "Version"], [some |-> {TRUE}])
GetDeviceIdTest == Asks([op |-> "DeviceId"], [format |-> {TRUE}])
EnterDeepSleep == AssertCode([op |-> "WaitForSleep"], "OK")
HardRebootTest == AssertCode([op |-> "RebootNugget"], "OK")
WipeUserData == AssertCode([op |-> "WipeUserData"], "OK")
GetLowPowerStats == Asks([op |-> "Stats"], [positive |-> {TRUE}])

\* get[0] is read whatever the size of the reply is.
GetPassthru == Asks([op |-> "GetPassthru"], [get |-> {"OFF", "ENABLED"}])
Switch(value) == [op |-> "SetPassthru", value |-> value]

\* Does not set the bootloader flag, other than the two tests below.
GetUartPassthruInBootloader == GetPassthru

\* Mutant: the flag is left as it is.
GetUartPassthruAnywhere == GetPassthru

GetUartPassthruInHLOS == BootloaderDone \o GetPassthru

EnableUartPassthruInBootloader ==
  SetBootloader \o Asks(Switch("ENABLED"), [get |-> {"ENABLED"}])

\* Mutant: the value reported is not compared.
DisableUartPassthruUnchecked == SetBootloader \o AssertCode(Switch("OFF"), "OK")

DisableUartPassthruInBootloader ==
  SetBootloader \o Asks(Switch("OFF"), [get |-> {"OFF"}])

\* ASSERT_NE(APP_SUCCESS, ...) takes any error for the refusal.
Fails(call) == Step(call, [code |-> {"BOGUS_ARGS", "IO"}], Nothing, ABORT)

EnableUartPassthruInHLOSFails == BootloaderDone \o Fails(Switch("ENABLED"))
DisableUartPassthruInHLOSFails == BootloaderDone \o Fails(Switch("OFF"))

CoreBody ==
  [GetVersionStringTest |-> GetVersionStringTest, GetDeviceIdTest |-> GetDeviceIdTest,
   EnterDeepSleep |-> EnterDeepSleep, HardRebootTest |-> HardRebootTest,
   WipeUserData |-> WipeUserData, GetLowPowerStats |-> GetLowPowerStats,
   GetUartPassthruInBootloader |-> GetUartPassthruInBootloader,
   GetUartPassthruInHLOS |-> GetUartPassthruInHLOS,
   EnableUartPassthruInBootloader |-> EnableUartPassthruInBootloader,
   DisableUartPassthruInBootloader |-> DisableUartPassthruInBootloader,
   EnableUartPassthruInHLOSFails |-> EnableUartPassthruInHLOSFails,
   DisableUartPassthruInHLOSFails |-> DisableUartPassthruInHLOSFails]
=============================================================================
