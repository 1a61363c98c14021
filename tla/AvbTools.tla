------------------------------ MODULE AvbTools ------------------------------
(* The helpers of tools/avb_tools.cc and tools/keymaster_tools.cc as steps  *)
(* of the tests that call them.                                             *)
EXTENDS Avb, GTest

SetBootloader == Step([op |-> "SetBootloader"], Nothing, Code("OK"), 0)

BootloaderDone == Step([op |-> "BootloaderDone"], Code("OK"), Nothing, 0)

GetState(must) == Step([op |-> "GetState"], must, Nothing, ABORT)

\* sig names the signature to send: the zeros substituted for none, the local
\* signature, or that with one byte changed.
Reset(kind, signature) == [op |-> "Reset", kind |-> kind, signature |-> signature]

GetResetChallenge(should, skip) ==
  Step([op |-> "GetResetChallenge"], Code("OK"), should, skip)

SetProduction(production, data, code) ==
  AssertCode([op |-> "SetProduction", production |-> production, data |-> data], code)

\* Mutant: the reset is sent without a challenge.
ResetProductionWithoutNonce ==
  Step(Reset("PRODUCTION", "zeros"), Nothing, Nothing, 0)
    \o Step([op |-> "GetState"], [production |-> {FALSE}], Nothing, 0)

\* GetResetChallenge's ASSERT leaves the helper, over its two other calls; the
\* status of Reset is not looked at.
ResetProduction ==
  GetResetChallenge(Nothing, 2)
    \o Step(Reset("PRODUCTION", "zeros"), Nothing, Nothing, 0)
    \o Step([op |-> "GetState"], [production |-> {FALSE}], Nothing, 0)

RootOfTrust ==
  Step([op |-> "SetRootOfTrust"], Code("OK"), [error |-> {"OK"}], ABORT)

\* Mutant: the firmware stays in the bootloader.
SetRootOfTrustStays == SetBootloader \o RootOfTrust

\* What SetUpTestCase of the keymaster fixtures runs.  Its ASSERT leaves the
\* firmware in the bootloader.
SetRootOfTrust == SetBootloader \o RootOfTrust \o BootloaderDone
=============================================================================
