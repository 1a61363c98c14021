----------------------------- MODULE TestFilter -----------------------------
(* The main program of the tests (src/src/gtest_with_gflags_main.cc): it    *)
(* turns its flags into a gtest filter.  A filter is a sequence of tokens:  *)
(* patterns, colons and dashes.                                             *)
EXTENDS Naturals, Sequences, SequencesExt

Pattern(suite, names) == [j \in DOMAIN names |-> [suite |-> suite, name |-> names[j]]]

Provisioning == <<"ProvisionDeviceIdsSuccess", "ReProvisionDeviceIdsSuccess",
               "ProductionModeProvisionFails", "InvalidDeviceIdFails",
               "MaxDeviceIdSuccess", "NoMeidSuccess">>
Proto == <<"NoticePing", "InvalidMessageType", "Sequence", "Echo", "AesCbc", "Trng">>
Sleeping == <<"ReadAttemptCounterPersistsDeepSleep", "ReadAttemptCounterPersistsHardReboot",
              "ReadThrottleAfterDeepSleep", "ReadThrottleAfterHardReboot",
              "ReadThrottleAfterSleep", "WriteDeepSleepRead", "WriteHardRebootRead">>
InBootloader == <<"GetUartPassthruInBootloader", "EnableUartPassthruInBootloader",
                  "DisableUartPassthruInBootloader">>

slow_tests ==
  Pattern("AvbTest", <<"*">>) \o Pattern("ImportKeyTest", <<"RSASuccess">>)
    \o Pattern("NuggetCoreTest", <<"EnterDeepSleep", "HardRebootTest">>)
    \o Pattern("WeaverTest", Sleeping)

disabled_for_release_tests ==
  Pattern("DcryptoTest", <<"AesCmacRfc4493Test">>)
    \o Pattern("KeymasterProvisionTest", Provisioning) \o Pattern("NuggetCoreTest", InBootloader)
    \o Pattern("NuggetOsTest", Proto) \o Pattern("WeaverTest", <<"ProductionResetWipesUserData">>)
    \o Pattern("AvbTest", <<"*">>) \o Pattern("ImportKeyTest", <<"*">>)
    \o Pattern("ImportWrappedKeyTest", <<"ImportSuccess">>)

Dash == [suite |-> "-", name |-> "-"]
Colon == [suite |-> ":", name |-> ":"]

----------------------------------------------------------------------------
(* main.                                                                    *)

\* Mutant: every list starts with a dash.
DashPerList(tests, ss) ==
  ss \o FlattenSeq([k \in DOMAIN tests |-> <<IF k = 1 THEN Dash ELSE Colon, tests[k]>>])

\* A dash in front of the first test of all, a colon in front of the others.
generate_disabled_test_list(tests, ss) ==
  ss \o FlattenSeq([k \in DOMAIN tests |->
                      <<IF ss = <<>> /\ k = 1 THEN Dash ELSE Colon, tests[k]>>])

\* The lists of the flags that are set, one behind the other.
DisabledBy(flags) ==
  LET slow == IF "disable_slow_tests" \in flags
              THEN generate_disabled_test_list(slow_tests, <<>>) ELSE <<>> IN
  IF "release_tests" \in flags
  THEN generate_disabled_test_list(disabled_for_release_tests, slow) ELSE slow

\* GTEST_FLAG(filter): the flags win over the filter asked for.
Filter(flags, asked) ==
  IF flags \intersect {"disable_slow_tests", "release_tests"} # {} THEN DisabledBy(flags)
  ELSE asked

----------------------------------------------------------------------------
(* gtest: what follows the first dash is a list of patterns to leave out,   *)
(* and an empty list before it stands for all tests.                        *)

\* A pattern counts if it stands alone between two colons: a word with a dash in
\* it is no test's name.
Matches(t, f, a) ==
  \E b \in a .. Len(f) :
    /\ f[b].suite = t.suite /\ f[b].name \in {t.name, "*"}
    /\ b = a \/ f[b - 1] = Colon
    /\ b = Len(f) \/ f[b + 1] = Colon

Selected(f, tests) ==
  IF f[1] = Dash THEN {t \in tests : ~Matches(t, f, 2)} ELSE {t \in tests : Matches(t, f, 1)}

\* What main runs of the tests linked into the program.
main(flags, asked, tests) ==
  IF "list_slow_tests" \in flags THEN {} ELSE Selected(Filter(flags, asked), tests)
=============================================================================
