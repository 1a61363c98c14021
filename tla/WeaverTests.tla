---------------------------- MODULE WeaverTests ----------------------------
(* The Weaver tests (src/src/weaver_tests.cc) against the Weaver            *)
(* application, in any order, over a link on which calls may take long.     *)
(* The ASSERTs stand in helpers: a test goes on after one that failed.      *)
EXTENDS Weaver, AvbTools

CONSTANTS
  Drawn,      \* the slots the random number may name
  Delays      \* how long a slow call may take, in seconds

ASSUME WeaverAssumption == Drawn \subseteq WeaverSlots /\ Delays \subseteq Nat \ {0}

VARIABLES
  slot,       \* the slot the tests have drawn
  delay,      \* what the slow call of this test has taken, 0 before it
  link        \* to the device: "lossy" or "slow"; bound: not both

vars == <<gtestVars, slot, delay, link>>

----------------------------------------------------------------------------
(* The helpers.                                                             *)

SLOT == -1            \* WeaverTest::slot, the one drawn
INVALID == -2         \* a slot behind the last one
WAIT_SECONDS == 4     \* what WaitForSleep reports

testWrite(s) ==
  Step([op |-> "Write", slot |-> s, key |-> "TEST_KEY", value |-> "TEST_VALUE"],
       Code("OK"), Nothing, 0)

Read(s, key) == [op |-> "Read", slot |-> s, key |-> key]

\* The first ASSERT that fails leaves the helper.
ExpectRead(s, key, error, throttles, value) ==
  Step(Read(s, key), [code |-> {"OK"}, error |-> {error}, throttle |-> throttles,
                      value |-> {value}], Nothing, 0)

testRead(s, value) == ExpectRead(s, "TEST_KEY", "NONE", {0}, value)

testEraseValue(s) == Step([op |-> "EraseValue", slot |-> s], Code("OK"), Nothing, 0)

\* Mutant: the time reported is not compared.
testReadWrongKeyAnyTime(throttle_sec) ==
  ExpectRead(SLOT, "WRONG_KEY", "WRONG_KEY", 0 .. THROTTLE, "zeros")

testReadWrongKey(throttle_sec) ==
  ExpectRead(SLOT, "WRONG_KEY", "WRONG_KEY", {throttle_sec}, "zeros")

\* Mutant: the longest time left is excluded.
testReadThrottleLess(throttle_sec) ==
  ExpectRead(SLOT, "WRONG_KEY", "THROTTLE", 1 .. throttle_sec - 1, "zeros")

testReadThrottle(throttle_sec) ==
  ExpectRead(SLOT, "WRONG_KEY", "THROTTLE", 1 .. throttle_sec, "zeros")

WrongKeys(n, throttle_sec) ==
  FlattenSeq([i \in 1 .. n |-> testReadWrongKey(0)]) \o testReadWrongKey(throttle_sec)

activateThrottle(throttle_sec) == testWrite(SLOT) \o WrongKeys(4, throttle_sec)

WaitForSleep == AssertCode([op |-> "WaitForSleep", seconds |-> WAIT_SECONDS], "OK")
RebootNugget == AssertCode([op |-> "RebootNugget"], "OK")
WipeUserData == AssertCode([op |-> "WipeUserData"], "OK")

----------------------------------------------------------------------------
(* The tests.  Of the slots they name only matters which share a record.    *)

GetConfig == Step([op |-> "GetConfig"], Code("OK"), [sizes |-> {TRUE}], ABORT)

WriteReadErase ==
  testWrite(SLOT) \o testRead(SLOT, "TEST_VALUE")
    \o testEraseValue(SLOT) \o testRead(SLOT, "zeros")

\* The four tests WriteToMultipleSlots...: two writes, then two reads.
WriteToMultipleSlots(a, b, c, d) ==
  testWrite(a) \o testWrite(b) \o testRead(c, "TEST_VALUE") \o testRead(d, "TEST_VALUE")

WriteDeepSleepRead == testWrite(SLOT) \o WaitForSleep \o testRead(SLOT, "TEST_VALUE")
WriteHardRebootRead == testWrite(SLOT) \o RebootNugget \o testRead(SLOT, "TEST_VALUE")

ReadThrottle == activateThrottle(30) \o testReadThrottle(30)
ReadThrottleAfterDeepSleep == activateThrottle(30) \o WaitForSleep \o testReadThrottle(30)
ReadThrottleAfterHardReboot == activateThrottle(30) \o RebootNugget \o testReadThrottle(30)

ReadThrottleAfterSleep ==
  activateThrottle(30) \o WaitForSleep \o testReadThrottle(30 - WAIT_SECONDS)

ReadAttemptCounterPersistsDeepSleep ==
  testWrite(SLOT) \o WrongKeys(2, 0) \o WaitForSleep \o WrongKeys(1, 30)

ReadAttemptCounterPersistsHardReboot ==
  testWrite(SLOT) \o WrongKeys(1, 0) \o RebootNugget \o WrongKeys(2, 30)

Refused(call) == AssertCode(call, "BOGUS_ARGS")

ReadInvalidSlot == Refused(Read(INVALID, "TEST_KEY"))
WriteInvalidSlot ==
  Refused([op |-> "Write", slot |-> INVALID, key |-> "TEST_KEY", value |-> "TEST_VALUE"])
EraseValueInvalidSlot == Refused([op |-> "EraseValue", slot |-> INVALID])

WipeUserDataOnlyClearsValues == testWrite(SLOT) \o WipeUserData \o testRead(SLOT, "zeros")

\* The status of SetProduction is not looked at.
ProductionResetWipesUserData ==
  Step([op |-> "SetProduction", production |-> TRUE, data |-> ZERO_DATA], Nothing, Nothing, 0)
    \o testWrite(SLOT) \o ResetProduction \o testRead(SLOT, "zeros")

WipeUserDataWriteSlot0ReadSlot1 ==
  testWrite(0) \o testWrite(1) \o WipeUserData \o testWrite(0) \o testRead(1, "zeros")

Body ==
  [GetConfig |-> GetConfig, WriteReadErase |-> WriteReadErase,
   WriteToMultipleSlotsInSameRecordIncreasingOrder |-> WriteToMultipleSlots(0, 1, 0, 1),
   WriteToMultipleSlotsInSameRecordDecreasingOrder |-> WriteToMultipleSlots(1, 0, 1, 0),
   WriteToMultipleSlotsInDifferentRecordsIncreasingOrder |-> WriteToMultipleSlots(1, 5, 1, 5),
   WriteToMultipleSlotsInDifferentRecordsDecreasingOrder |-> WriteToMultipleSlots(5, 1, 1, 5),
   WriteDeepSleepRead |-> WriteDeepSleepRead, WriteHardRebootRead |-> WriteHardRebootRead,
   ReadThrottle |-> ReadThrottle, ReadThrottleAfterDeepSleep |-> ReadThrottleAfterDeepSleep,
   ReadThrottleAfterHardReboot |-> ReadThrottleAfterHardReboot,
   ReadThrottleAfterSleep |-> ReadThrottleAfterSleep,
   ReadAttemptCounterPersistsDeepSleep |-> ReadAttemptCounterPersistsDeepSleep,
   ReadAttemptCounterPersistsHardReboot |-> ReadAttemptCounterPersistsHardReboot,
   ReadInvalidSlot |-> ReadInvalidSlot, WriteInvalidSlot |-> WriteInvalidSlot,
   EraseValueInvalidSlot |-> EraseValueInvalidSlot,
   WipeUserDataOnlyClearsValues |-> WipeUserDataOnlyClearsValues,
   ProductionResetWipesUserData |-> ProductionResetWipesUserData,
   WipeUserDataWriteSlot0ReadSlot1 |-> WipeUserDataWriteSlot0ReadSlot1]

Program == IF phase = "body" THEN Body[test] ELSE <<>>

----------------------------------------------------------------------------

\* Other slots than the one drawn are as the tests leave them.
Init ==
  /\ slot \in Drawn
  /\ \E attempts \in {0, ATTEMPTS - 1}, left \in {0, THROTTLE} :
       dev = [bootloader |-> FALSE, production |-> FALSE, locks |-> Unlocked, nonce |-> 0,
              data |-> ZERO_DATA, key |-> "none",
              versions |-> [s \in 1 .. Slots |-> NO_VERSION],
              weaver |-> [s \in WeaverSlots |->
                            IF s = slot THEN SlotState("none", "zeros", attempts, left)
                            ELSE SlotState("TEST_KEY", "zeros", 0, 0)]]
  /\ fault \in WeaverRule \union {"none"}
  /\ Idle("none")
  /\ delay = 0 /\ link \in {"lossy", "slow"}

Start(t) ==
  /\ Begin(t)
  /\ delay' = 0
  /\ UNCHANGED <<dev, fault, slot, link>>

Running == phase = "body" /\ pc <= Len(Program)

Current == Program[pc]

\* The call with the slot drawn; ResetProduction sends no nonce and a zero signature.
Request ==
  LET c == Current.call IN
  CASE c.op = "GetResetChallenge" -> [op |-> c.op, previous |-> 0]
    [] c.op = "Reset" -> [c EXCEPT !.signature = BAD_SIGNATURE]
    [] c.op \in {"Read", "Write", "EraseValue"} ->
         [c EXCEPT !.slot = IF @ = SLOT THEN slot ELSE @]
    [] OTHER -> c

Replies(seconds) == WeaverOutcomes(Later(dev, seconds), fault, Request)

\* Bound: one call of a test takes time.
Takes(seconds) ==
  /\ seconds > 0 => link = "slow" /\ delay = 0
  /\ delay' = delay + seconds

Call ==
  /\ Running
  /\ \E seconds \in Delays \union {0} :
       /\ Takes(seconds)
       /\ \E o \in Replies(seconds) : Answered(Current, o)
  /\ UNCHANGED <<slot, link>>

CallLost ==
  /\ Running /\ link = "lossy"
  /\ Lost(Current, Replies(0), Current.call.op = "GetState")
  /\ UNCHANGED <<slot, delay, link>>

EndPhase == EndOfPhase(Program) /\ UNCHANGED <<slot, delay, link>>

Next == (\E t \in DOMAIN Body : Start(t)) \/ Call \/ CallLost \/ EndPhase

Spec == Init /\ [][Next]_vars

----------------------------------------------------------------------------
(* Properties                                                               *)

\* The type of every variable; a fatal failure is a failure.
TypeOK ==
  /\ GTestTypeOK(DOMAIN Body \union {"none"})
  /\ dev.weaver \in [WeaverSlots -> [key : {"none", "TEST_KEY"}, value : {"zeros", "TEST_VALUE"},
                                     attempts : 0 .. ATTEMPTS, left : 0 .. THROTTLE]]
  /\ fault \in WeaverRule \union {"none"}
  /\ slot \in Drawn /\ delay \in Delays \union {0} /\ link \in {"lossy", "slow"}

\* No test fails on a firmware that keeps its rules if no call is lost and the
\* calls of the test take less than the 26 seconds that WaitForSleep leaves of
\* the throttle: whatever tests ran before, and whatever count or throttle they
\* left on the slot.  With 26 seconds ReadThrottleAfterSleep finds no throttle.
NoFalseAlarm ==
  (fault = "none" /\ lost = 0 /\ delay < THROTTLE - WAIT_SECONDS) => ~failed

DetectedBy ==
  [EraseClears |-> {"WriteReadErase"},
   NeighbourIsKept |-> {"WriteToMultipleSlotsInSameRecordIncreasingOrder",
                        "WriteToMultipleSlotsInSameRecordDecreasingOrder"},
   ValueSurvivesSleep |-> {"WriteDeepSleepRead"},
   ValueSurvivesReboot |-> {"WriteHardRebootRead"},
   FifthThrottles |-> {"ReadThrottle", "ReadAttemptCounterPersistsDeepSleep"},
   ThrottleSurvivesSleep |-> {"ReadThrottleAfterDeepSleep", "ReadThrottleAfterSleep"},
   ThrottleSurvivesReboot |-> {"ReadThrottleAfterHardReboot"},
   AttemptsSurviveSleep |-> {"ReadAttemptCounterPersistsDeepSleep"},
   AttemptsSurviveReboot |-> {"ReadAttemptCounterPersistsHardReboot"},
   SlotIsChecked |-> {"ReadInvalidSlot", "WriteInvalidSlot", "EraseValueInvalidSlot"},
   WipeClearsValues |-> {"WipeUserDataOnlyClearsValues", "WipeUserDataWriteSlot0ReadSlot1"},
   WipeKeepsKeys |-> {"WipeUserDataOnlyClearsValues", "WipeUserDataWriteSlot0ReadSlot1"},
   ProductionResetWipes |-> {"ProductionResetWipesUserData"},
   ConfigIsRight |-> {"GetConfig"}]

\* A firmware that breaks one of these rules never passes a test written for it,
\* whatever ran before, whichever calls are lost and however long they take.
\* ReadThrottleAfterSleep also notices a timer that stands still in deep sleep,
\* unless the calls after the fifth wrong key take as long as the sleep itself.
FaultDetected ==
  phase = "idle" =>
    /\ (fault \in DOMAIN DetectedBy /\ test \in DetectedBy[fault]) => failed
    /\ (fault = "ThrottleRunsInSleep" /\ test = "ReadThrottleAfterSleep"
          /\ delay < WAIT_SECONDS) => failed
=============================================================================
