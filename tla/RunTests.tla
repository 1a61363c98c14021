------------------------------ MODULE RunTests ------------------------------
(* The program runtests: its main turns the flags into a filter, and gtest  *)
(* runs the tests that are left on one device, in any order of the suites.  *)
(* The core tests and the keymaster tests are modelled call by call; of the *)
(* other suites, which have modules of their own, only the names are.       *)
(* gtest calls SetUpTestCase when it comes to a suite and runs the suite's  *)
(* tests even if that failed.                                               *)
EXTENDS CoreTests, KeymasterTests, TestFilter

CONSTANTS
  CommandLines     \* the flags and filters runtests may be called with

VARIABLES
  args,       \* the command line of this run
  suite,      \* whose SetUpTestCase ran last: "none", "core", "import", "provision"
  passed,     \* the tests of the UART switch that passed since the last reboot
  blob        \* the blob of the last response to an import: its size and its key

vars == <<gtestVars, args, suite, passed, blob>>

----------------------------------------------------------------------------
(* The tests.                                                               *)

Body == CoreBody @@ KeymasterBody

Program == IF phase = "body" THEN Body[test]
           ELSE IF test \in DOMAIN ProvisionBody THEN SetUp ELSE <<>>

SuiteOf ==
  [t \in DOMAIN Body |->
     CASE t \in DOMAIN CoreBody -> "NuggetCoreTest"
       [] t \in DOMAIN ProvisionBody -> "KeymasterProvisionTest"
       [] t = "ImportSuccess" -> "ImportWrappedKeyTest"
       [] OTHER -> "ImportKeyTest"]

Test(t) == [suite |-> SuiteOf[t], name |-> t]

WeaverSleeping ==
  {"ReadAttemptCounterPersistsDeepSleep", "ReadAttemptCounterPersistsHardReboot",
   "ReadThrottleAfterDeepSleep", "ReadThrottleAfterHardReboot", "ReadThrottleAfterSleep",
   "WriteDeepSleepRead", "WriteHardRebootRead"}

ProtoSuites ==
  [suite : {"NuggetOsTest"},
   name : {"NoticePing", "InvalidMessageType", "Sequence", "Echo", "AesCbc", "Trng"}]
    \union {[suite |-> "DcryptoTest", name |-> "AesCmacRfc4493Test"]}

\* The tests modelled here, and the names of the others; the Weaver and AVB
\* tests that are alike in what follows have one name.
AllTests ==
  {Test(t) : t \in DOMAIN Body \ {"SetUpTestCase"}}
    \union ProtoSuites
    \union [suite : {"WeaverTest"},
            name : WeaverSleeping \union {"ProductionResetWipesUserData", "other"}]
    \union {[suite |-> "AvbTest", name |-> "other"]}

\* The tests that a command line makes runtests run.
Runs == [a \in CommandLines |-> main(a.flags, a.asked, AllTests)]

\* Command lines with the tests modelled here that they make runtests run, and
\* the SetUpTestCase of a suite that has some.
Startable ==
  {<<a, {t \in DOMAIN Body :
           \/ Test(t) \in Runs[a]
           \/ t = "SetUpTestCase" /\ \E k \in DOMAIN ImportBody : Test(k) \in Runs[a]}>>
     : a \in CommandLines}

----------------------------------------------------------------------------

NoBlob == [size |-> "empty", key |-> "none"]

Init ==
  /\ dev \in [bootloader : BOOLEAN, production : BOOLEAN, rot : {FALSE},
              ids : {FALSE}, locks : {Unlocked}, nonce : {0},
              data : {ZERO_DATA}, key : {"none"},
              versions : {[s \in 1 .. Slots |-> NO_VERSION]},
              uart : {"OFF", "ENABLED"}]
  /\ fault \in CoreRule \union KeymasterRule \union {"none"}
  /\ Idle("none")
  /\ suite = "none" /\ passed = {} /\ blob = NoBlob
  /\ args \in CommandLines

Start(t) ==
  /\ Begin(t)
  /\ t \in DOMAIN ImportBody => suite = "import"
  /\ suite' = CASE t \in DOMAIN CoreBody -> "core"
                [] t \in DOMAIN ProvisionBody -> "provision"
                [] OTHER -> "import"
  /\ blob' = NoBlob
  /\ UNCHANGED <<dev, fault, passed, args>>

Running == phase \in {"setup", "body"} /\ pc <= Len(Program)

Current == Program[pc]

\* The call with what ResetProduction sends: no nonce yet, a zero signature.
Request ==
  LET c == Current.call IN
  CASE c.op = "GetResetChallenge" -> [op |-> c.op, previous |-> 0]
    [] c.op = "Reset" -> [c EXCEPT !.signature = BAD_SIGNATURE]
    [] OTHER -> c

Replies ==
  IF test \in DOMAIN CoreBody THEN CoreOutcomes(dev, fault, Request)
  ELSE KeymasterOutcomes(dev, fault, Request)

\* A reboot may change the switch.
StillPassed == IF Current.call.op = "RebootNugget" THEN {} ELSE passed

\* The step compares what is there already.
Local == Current.call.op = "memcmp"

Call ==
  /\ Running /\ ~Local
  /\ \E o \in Replies :
       /\ Answered(Current, o)
       /\ blob' = IF "size" \in DOMAIN o.reply
                  THEN [size |-> o.reply.size, key |-> o.reply.key] ELSE blob
  /\ passed' = StillPassed
  /\ UNCHANGED <<suite, args>>

\* RebootNugget may lose one call and have rebooted the chip with another.
CallLost ==
  /\ Running /\ ~Local
  /\ Lost(Current, Replies, Current.call.op = "GetState")
  /\ passed' = StillPassed
  /\ UNCHANGED <<suite, args, blob>>

\* The comparison finds the key of the blob; if the blob is too short for one, it
\* reads what lies behind it,
Compare ==
  /\ Running /\ Local
  /\ \E key \in IF blob.size = "km_blob" THEN {blob.key} ELSE {"same", "other"} :
       Answered(Current, Outcome(dev, [key |-> key]))
  /\ UNCHANGED <<suite, passed, args, blob>>

\* or reads where nothing is, and the process dies.
WildRead ==
  /\ Running /\ Local
  /\ blob.size # "km_blob"
  /\ phase' = "dead"
  /\ UNCHANGED <<dev, fault, test, pc, fatal, failed, lost, suite, passed, args, blob>>

\* The tests are run again, in a new process with the same flags.
Rerun ==
  /\ phase = "dead"
  /\ phase' = "idle" /\ pc' = 1 /\ suite' = "none"
  /\ UNCHANGED <<dev, fault, test, fatal, failed, lost, passed, args, blob>>

SwitchTests == {"EnableUartPassthruInBootloader", "DisableUartPassthruInBootloader"}

EndPhase ==
  /\ EndOfPhase(Program)
  /\ passed' = passed \union {t \in {test} \intersect SwitchTests :
                                phase = "body" /\ ~failed /\ lost = 0}
  /\ UNCHANGED <<suite, args, blob>>

Next ==
  \/ \E s \in Startable : s[1] = args /\ \E t \in s[2] : Start(t)
  \/ Call \/ CallLost \/ Compare \/ WildRead \/ Rerun \/ EndPhase

Spec == Init /\ [][Next]_vars

----------------------------------------------------------------------------
(* Properties                                                               *)

\* The type of every variable; a fatal failure is a failure.
TypeOK ==
  /\ GTestTypeOK(DOMAIN Body \union {"none"})
  /\ {dev.bootloader, dev.production, dev.rot, dev.ids} \subseteq BOOLEAN
  /\ dev.uart \in {"OFF", "ENABLED"}
  /\ fault \in CoreRule \union KeymasterRule \union {"none"}
  /\ suite \in {"none", "core", "import", "provision"} /\ passed \subseteq SwitchTests
  /\ args \in CommandLines
  /\ blob \in [size : {"km_blob", "short", "empty"}, key : {"same", "other", "none"}]

\* The firmware is as SetUpTestCase of the import suites should leave it.
Ready == dev.rot /\ ~dev.bootloader

\* SetUpTestCase makes the firmware ready if none of its calls is lost, from
\* whatever state aborted runs and the tests of other suites left.  A provision
\* test only starts on a firmware out of production, although
\* ProductionModeProvisionFails leaves it in production and whichever calls of
\* SetUp are lost: ResetProduction ends with an ASSERT on the state itself.
SetUpMakesReady ==
  /\ (phase = "idle" /\ test = "SetUpTestCase" /\ suite = "import" /\ lost = 0) => Ready
  /\ (phase = "body" /\ pc = 1 /\ test \in DOMAIN ProvisionBody) => ~dev.production

\* No test fails on a firmware that keeps its rules if none of its calls is lost
\* and, for an import, the firmware is ready.  No test depends on the tests
\* before it: not on the bootloader flag, the switch or the production mode they
\* left, and not on whether ids were provisioned already.
NoFalseAlarm ==
  (fault = "none" /\ lost = 0 /\ (test \in DOMAIN ImportBody => Ready))
  => ~failed

\* The rules that no test can be relied on to notice.  The requests of the tests
\* written for the first five break another rule too, for which the firmware
\* answers INVALID_ARGUMENT as well: they give no key, or one of zeros.  A switch
\* that is not reported may be found as it should be in what lies behind an empty
\* reply.
Unnoticed ==
  {"AlgorithmIsGiven", "CurveIsGiven", "CurveMatches", "KeySizeMatchesCurve",
   "PointFitsCurve", "PassthruIsReported"}

\* For each of the other rules the sets of tests that no firmware that breaks it
\* passes all of, between two reboots.  A firmware that ignores the requests to
\* switch the UART passes Enable... or Disable..., according to how the switch is
\* set.
DetectedBy ==
  [VersionIsGiven |-> {{"GetVersionStringTest"}},
   DeviceIdIsFormatted |-> {{"GetDeviceIdTest"}},
   StatsCount |-> {{"GetLowPowerStats"}},
   PassthruNeedsBootloader |->
     {{"EnableUartPassthruInHLOSFails"}, {"DisableUartPassthruInHLOSFails"}},
   PassthruIsSet |-> {SwitchTests},
   KeySizeIsSupported |-> {{"RSAInvalidKeySizeFails"}},
   ExponentIsSupported |-> {{"RSAInvalidPublicExponentFails"}},
   ExponentMatches |-> {{"RSAPublicExponentTagMisatchFails"}},
   NMatches |-> {{"RSAKeySizeTagMisatchNFails"}},
   DMatches |-> {{"RSAKeySizeTagMisatchDFails"}},
   RsaKeyIsValid |-> {{"RSA1024BadEFails"}, {"RSA1024BadDFails"}, {"RSA1024BadNFails"}},
   EcKeyIsValid |-> {{"ECP256BadKeyFails"}},
   ProvisionNeedsDevelopment |-> {{"ProductionModeProvisionFails"}},
   IdsFit |-> {{"InvalidDeviceIdFails"}},
   LongestIdFits |-> {{"MaxDeviceIdSuccess"}},
   MeidIsOptional |-> {{"NoMeidSuccess"}},
   ReprovisionIsAllowed |-> {{"ReProvisionDeviceIdsSuccess"}},
   BlobHoldsKey |-> {{"RSASuccess"}, {"RSA1024OptionalParamsAbsentSuccess"},
                     {"ImportSuccess"}},
   BlobIsWhole |-> {{"RSASuccess"}, {"RSA1024OptionalParamsAbsentSuccess"},
                    {"ImportSuccess"}}]

\* The test that just ended passed.  ASSERT_NE of the tests ...InHLOSFails takes
\* the error of a lost call for the refusal.
JustPassed ==
  {t \in {test} : phase = "idle" /\ ~failed /\ (t \in DOMAIN CoreBody => lost = 0)}

\* A firmware that breaks a rule, other than one of Unnoticed, does not pass the
\* tests written for it, whatever ran before and, but for the core tests, whichever
\* calls are lost.
FaultDetected ==
  (phase = "idle" /\ fault \notin Unnoticed \union {"none"}) =>
    \A tests \in DetectedBy[fault] : ~(tests \subseteq passed \union JustPassed)

\* A test that is about to compare bytes behind the end of a blob has reported a
\* failure already, in this round of its loop or in an earlier one: whatever the
\* comparison finds there, and also if the process dies of it, a refused import or
\* a blob that ends early does not look like a test that passed.
OverreadIsReported == (Running /\ Local /\ blob.size # "km_blob") => failed

\* At the call it is about, a test has the firmware where its name says.
At(t, bootloader) ==
  (phase = "body" /\ test = t /\ pc = Len(Program) /\ ~failed) => dev.bootloader = bootloader

\* The tests ...InHLOS and the two that switch ...InBootloader make their call
\* there whatever ran before, or have failed already.  (Nothing takes the
\* firmware to the bootloader for GetUartPassthruInBootloader.)
RunsWhereItSays ==
  /\ \A t \in {"GetUartPassthruInHLOS", "EnableUartPassthruInHLOSFails",
               "DisableUartPassthruInHLOSFails"} : At(t, FALSE)
  /\ \A t \in SwitchTests : At(t, TRUE)

\* The tests that a list names.
Named(t, list) == \E p \in Range(list) : p.suite = t.suite /\ p.name \in {t.name, "*"}

\* With --disable_slow_tests nothing puts the chip to sleep or reboots it, and with
\* --release_tests no test needs what only a test image has: the protobuf
\* application, a host that may claim to be the bootloader, a way out of
\* production.  Alone or together, and whatever --gtest_filter says.
LeftOut ==
  /\ (Running /\ "disable_slow_tests" \in args.flags)
       => Current.call.op \notin {"WaitForSleep", "RebootNugget"}
  /\ (Running /\ "release_tests" \in args.flags)
       => Current.call.op \notin {"SetBootloader", "SetProduction", "Reset"}
  /\ test = "none" =>
       \A t \in Runs[args] :
         /\ "disable_slow_tests" \in args.flags => t.name \notin WeaverSleeping
         /\ "release_tests" \in args.flags => t \notin ProtoSuites

\* Without --gtest_filter the flags leave out nothing but what the lists of the
\* flags that are set name.
NothingElseLeftOut ==
  (test = "none" /\ args.asked = <<Dash>> /\ "list_slow_tests" \notin args.flags) =>
    \A t \in AllTests \ Runs[args] :
      \/ "disable_slow_tests" \in args.flags /\ Named(t, slow_tests)
      \/ "release_tests" \in args.flags /\ Named(t, disabled_for_release_tests)

\* The filter that main makes of the flags leaves out what it should and
\* nothing else.
FilterExact == LeftOut /\ NothingElseLeftOut
=============================================================================
