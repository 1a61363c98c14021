------------------------------ MODULE AvbTests ------------------------------
(* The AVB tests (src/avb_tests.cc), run against the AVB application with   *)
(* the helpers of AvbTools.                                                 *)
EXTENDS AvbTools

VARIABLES
  msg,        \* the local ResetMessage
  sig         \* the local signature

vars == <<gtestVars, msg, sig>>

----------------------------------------------------------------------------
(* The steps of the fixture's own helpers.                                  *)

Error == {"AUTHORIZATION", "DENIED", "HLOS", "BOOTLOADER", "LINENO", "IO"}

Locks(lock, value) == GetState(lock :> {value})

ResetLocks(code) == AssertCode(Reset("LOCKS", "zeros"), code)

SetLock(lock, value, key, code) ==
  AssertCode([op |-> "SetLock", lock |-> lock, value |-> value, key |-> key], code)

\* Mutant: the status is not looked at.
SetOwnerLockUnchecked(value, key, code) ==
  Step([op |-> "SetLock", lock |-> "OWNER", value |-> value, key |-> key],
       Nothing, Nothing, 0)

SetDeviceLock(value, code)  == SetLock("DEVICE", value, "none", code)
SetBootLock(value, code)    == SetLock("BOOT", value, "none", code)
SetCarrierLock(value, code) == SetLock("CARRIER", value, "none", code)
SetOwnerLock(value, key, code) == SetLock("OWNER", value, key, code)

GetOwnerKey == Step([op |-> "GetOwnerKey"],
                    [code |-> {"OK"}, chunk |-> {"owner_key"}], Nothing, ABORT)

Load(slot, version) == Step([op |-> "Load", slot |-> slot],
                            [code |-> {"OK"}, version |-> {version}],
                            Nothing, ABORT)

Store(slot, version, code) ==
  AssertCode([op |-> "Store", slot |-> slot, version |-> version], code)

\* Signs the local message into the local signature.
SignChallenge == Step([op |-> "SignChallenge"], Nothing, Nothing, 0)

\* Fills the local message.
Message(nonce, data) ==
  Step([op |-> "Message", nonce |-> nonce, data |-> data], Nothing, Nothing, 0)

ProductionResetTest(signature) ==
  [op |-> "ProductionResetTest", signature |-> signature]

WipeUserData == AssertCode([op |-> "WipeUserData"], "OK")

----------------------------------------------------------------------------
(* The fixture and the tests.                                               *)

\* Mutant: the locks are left as they are found.
SetUpKeepsLocks == BootloaderDone \o ResetProduction

SetUp ==
  BootloaderDone \o ResetProduction \o ResetLocks("OK")
    \o Step([op |-> "GetState"], Nothing,
            [bootloader |-> {FALSE}, production |-> {FALSE}, BOOT |-> {0},
             CARRIER |-> {0}, DEVICE |-> {0}, OWNER |-> {0}], 0)

CarrierLockTest ==
  SetCarrierLock(\h12, "OK") \o Locks("CARRIER", \h12)
    \o SetCarrierLock(0, "OK")
    \o SetBootloader \o SetProduction(TRUE, ZERO_DATA, "OK") \o BootloaderDone
    \o SetCarrierLock(\h12, "AUTHORIZATION") \o Locks("CARRIER", 0)
    \o SetCarrierLock(0, "AUTHORIZATION")

\* The signature covers nonce 1; 2 stands for the nonce after it.
CarrierUnlockTest ==
  AssertCode([op |-> "CarrierLockTest", signed |-> 1, nonce |-> 1], "OK")
    \o AssertCode([op |-> "CarrierLockTest", signed |-> 1, nonce |-> 2],
              "AUTHORIZATION")

DeviceLockTest ==
  SetBootloader \o SetProduction(TRUE, ZERO_DATA, "OK")
    \o SetDeviceLock(\h12, "HLOS")
    \o ResetProduction \o SetBootloader
    \o SetDeviceLock(\h34, "OK")
    \o GetState([bootloader |-> {TRUE}, production |-> {FALSE},
                 DEVICE |-> {\h34}])
    \o SetDeviceLock(\h56, "DENIED") \o Locks("DEVICE", \h34)
    \o SetDeviceLock(0, "OK") \o Locks("DEVICE", 0)

SetDeviceLockIsIdempotent == SetDeviceLock(\h65, "OK") \o SetDeviceLock(\h65, "OK")

BootLockTest ==
  SetProduction(TRUE, ZERO_DATA, "OK")
    \o SetBootLock(\h12, "BOOTLOADER") \o Locks("BOOT", 0)
    \o SetBootloader
    \o SetBootLock(\h12, "OK") \o Locks("BOOT", \h12)
    \o SetBootLock(0, "OK") \o Locks("BOOT", 0)
    \o ResetProduction \o ResetLocks("OK")
    \o SetCarrierLock(\h34, "OK") \o SetProduction(TRUE, ZERO_DATA, "OK")
    \o SetBootloader \o SetBootLock(\h56, "OK")
    \o SetBootLock(0, "DENIED") \o SetBootLock(\h42, "DENIED")
    \o GetState([CARRIER |-> {\h34}, BOOT |-> {\h56}])
    \o ResetProduction \o ResetLocks("OK")
    \o SetProduction(TRUE, ZERO_DATA, "OK") \o SetBootloader
    \o SetDeviceLock(\h78, "HLOS")
    \o BootloaderDone \o SetDeviceLock(\h78, "OK")
    \o SetBootloader \o SetBootLock(\h9A, "OK") \o SetBootLock(0, "DENIED")
    \o GetState([DEVICE |-> {\h78}, BOOT |-> {\h9A}])

SetBootLockIsIdempotent == SetBootLock(\h12, "OK") \o SetBootLock(\h12, "OK")

SetBootLockAfterWipingUserData ==
  SetProduction(TRUE, ZERO_DATA, "OK") \o SetBootloader
    \o WipeUserData \o SetBootLock(\hDC, "OK")

\* The loop over the chunks of the key is one read of the whole key.
OwnerLockTest ==
  SetOwnerLock(\h65, "owner_key", "OK") \o Locks("OWNER", \h65) \o GetOwnerKey
    \o SetOwnerLock(\h87, "owner_key", "DENIED") \o Locks("OWNER", \h65)
    \o SetOwnerLock(0, "owner_key", "OK") \o Locks("OWNER", 0)
    \o SetBootloader \o SetBootLock(\h43, "OK") \o Locks("BOOT", \h43)
    \o SetOwnerLock(\h21, "owner_key", "DENIED")

ProductionMode ==
  GetState([production |-> {FALSE}])
    \o SetBootloader
    \o SetOwnerLock(\h11, "none", "OK") \o SetBootLock(\h22, "OK")
    \o SetCarrierLock(\h33, "OK") \o SetDeviceLock(\h44, "OK")
    \o SetProduction(TRUE, ZERO_DATA, "OK")
    \o GetState([production |-> {TRUE}, OWNER |-> {\h11}, BOOT |-> {\h22},
                 CARRIER |-> {\h33}, DEVICE |-> {\h44}])
    \o SetProduction(FALSE, ZERO_DATA, "AUTHORIZATION") \o BootloaderDone
    \o SetProduction(FALSE, ZERO_DATA, "AUTHORIZATION")

\* A loop over the slots, of m steps for each.
Loop(m, round) ==
  [k \in 1 .. Slots * m |-> round[1 + (k - 1) \div m][1 + ((k - 1) % m)]]

Rollback ==
  LET refused == [i \in 1 .. Slots |->
                    Store(i, <<"ff", i>>, "BOOTLOADER") \o Load(i, NO_VERSION)]
      stored == [i \in 1 .. Slots |->
                   Store(i, <<"ff", i>>, "OK") \o Load(i, <<"ff", i>>)
                     \o Store(i, <<"88", i>>, "OK") \o Load(i, <<"88", i>>)] IN
  SetProduction(TRUE, ZERO_DATA, "OK")
    \o Loop(2, refused) \o SetBootloader \o Loop(4, stored)

ResetTest ==
  LET locked == GetState([bootloader |-> {FALSE}, production |-> {TRUE},
                          BOOT |-> {\h12}, DEVICE |-> {\h34}]) IN
  SetBootloader \o SetBootLock(\h12, "OK") \o SetDeviceLock(\h34, "OK")
    \o SetProduction(TRUE, ZERO_DATA, "OK") \o BootloaderDone \o locked
    \o ResetLocks("DENIED") \o locked
    \o ResetProduction \o ResetLocks("OK")
    \o GetState([bootloader |-> {FALSE}, production |-> {FALSE},
                 BOOT |-> {0}, DEVICE |-> {0}])

GetResetChallengeTest ==
  GetResetChallenge([nonce |-> Nonces, data |-> {ZERO_DATA}], ABORT)

ResetProductionValid ==
  LET expect(call, codes) == Step(call, Nothing, [code |-> codes], 0)
      relock == expect([op |-> "SetProduction", production |-> TRUE,
                        data |-> HASH_DATA], {"OK"}) IN
  relock \o GetResetChallenge([data |-> {HASH_DATA}], ABORT) \o SignChallenge
    \o expect(Reset("PRODUCTION", "changed"), Error)
    \o relock
    \o expect(Reset("PRODUCTION", "signed"), {"DENIED"})
    \o GetResetChallenge(Nothing, ABORT) \o SignChallenge
    \o AssertCode(Reset("PRODUCTION", "signed"), "OK")

ProductionResetTestValid ==
  Message(123456, HASH_DATA) \o SignChallenge
    \o Step(ProductionResetTest("changed"), Nothing, [code |-> Error], 0)
    \o AssertCode(ProductionResetTest("signed"), "OK")
    \o GetResetChallenge(Nothing, ABORT) \o SignChallenge
    \o AssertCode(Reset("PRODUCTION", "signed"), "OK")
    \o Message(0, ZERO_DATA) \o SignChallenge      \* kNullSig
    \o AssertCode(ProductionResetTest("signed"), "OK")

WipeUserDataDoesNotLockDeviceLock ==
  SetDeviceLock(0, "OK") \o WipeUserData
    \o Step([op |-> "GetState"], Nothing, [DEVICE |-> {0}], 0)

Body ==
  [CarrierLockTest |-> CarrierLockTest, CarrierUnlockTest |-> CarrierUnlockTest,
   DeviceLockTest |-> DeviceLockTest,
   SetDeviceLockIsIdempotent |-> SetDeviceLockIsIdempotent,
   BootLockTest |-> BootLockTest,
   SetBootLockIsIdempotent |-> SetBootLockIsIdempotent,
   SetBootLockAfterWipingUserData |-> SetBootLockAfterWipingUserData,
   OwnerLockTest |-> OwnerLockTest, ProductionMode |-> ProductionMode,
   Rollback |-> Rollback, Reset |-> ResetTest,
   GetResetChallengeTest |-> GetResetChallengeTest,
   ResetProductionValid |-> ResetProductionValid,
   ProductionResetTestValid |-> ProductionResetTestValid,
   WipeUserDataDoesNotLockDeviceLock |-> WipeUserDataDoesNotLockDeviceLock,
   SetRootOfTrust |-> SetRootOfTrust]

Tests == DOMAIN Body

Program == IF phase = "body" THEN Body[test]
           ELSE IF test = "SetRootOfTrust" THEN <<>> ELSE SetUp

----------------------------------------------------------------------------
(* The run of the tests, in any order and as often as one likes.            *)

\* The firmware may be found in any state, as earlier runs left it.
Init ==
  /\ dev \in [bootloader : BOOLEAN, production : BOOLEAN,
              locks : {[l \in Lock |-> IF l \in s THEN 1 ELSE 0]
                         : s \in SUBSET Lock},
              nonce : {0, 1}, data : DeviceData,
              versions : {[s \in 1 .. Slots |-> v]
                            : v \in {NO_VERSION, <<"88", 1>>}},
              key : {"none"}]
  /\ fault \in FirmwareRule \union {"none"}
  /\ Idle("SetRootOfTrust")
  /\ msg = [nonce |-> 0, data |-> ZERO_DATA]
  /\ sig = BAD_SIGNATURE

Running == phase # "idle" /\ pc <= Len(Program)

Current == Program[pc]

Local == Current.call.op \in {"SignChallenge", "Message"}

Start(t) ==
  /\ Begin(t)
  /\ msg' = [nonce |-> 0, data |-> ZERO_DATA]
  /\ sig' = BAD_SIGNATURE
  /\ UNCHANGED <<dev, fault>>

\* The signature a call sends, by the name the step gives it.
Signature(name) == IF name = "signed" THEN sig ELSE BAD_SIGNATURE

\* The call with the local variables it sends.
Request ==
  LET c == Current.call IN
  CASE c.op = "Reset" -> [c EXCEPT !.signature = Signature(@)]
    [] c.op = "GetResetChallenge" -> [op |-> c.op, previous |-> msg.nonce]
    [] c.op = "ProductionResetTest" ->
         [op |-> c.op, message |-> msg, signed |-> Signature(c.signature)]
    [] OTHER -> c

Call ==
  /\ Running /\ ~Local
  /\ \E o \in Outcomes(dev, fault, Request) :
       /\ Answered(Current, o)
       /\ msg' = IF Current.call.op = "GetResetChallenge"
                 THEN [nonce |-> o.reply.nonce, data |-> o.reply.data] ELSE msg
  /\ UNCHANGED sig

\* The ASSERT inside GetState leaves the variables of the caller unset.
CallLost ==
  /\ Running /\ ~Local
  /\ Lost(Current, Outcomes(dev, fault, Request), Current.call.op = "GetState")
  /\ UNCHANGED <<msg, sig>>

\* A step of the test that calls nothing.
LocalStep ==
  /\ Running /\ Local
  /\ IF Current.call.op = "SignChallenge"
     THEN sig' = msg /\ UNCHANGED msg
     ELSE msg' = [nonce |-> Current.call.nonce, data |-> Current.call.data]
          /\ UNCHANGED sig
  /\ pc' = pc + 1
  /\ UNCHANGED <<dev, fault, test, phase, fatal, failed, lost>>

EndPhase == EndOfPhase(Program) /\ UNCHANGED <<msg, sig>>

Next == \/ \E t \in Tests : Start(t)
        \/ Call \/ CallLost \/ LocalStep \/ EndPhase

Spec == Init /\ [][Next]_vars
----------------------------------------------------------------------------
(* Properties                                                               *)

\* The type of every variable; a fatal failure is a failure.
TypeOK ==
  /\ dev \in State
  /\ fault \in FirmwareRule \union {"none"}
  /\ GTestTypeOK(Tests)
  /\ {msg, sig} \subseteq [nonce : Nat, data : DeviceData \union {"none"}]

\* What SetUp has undone.
UserDataBlank ==
  dev.data = ZERO_DATA /\ \A s \in 1 .. Slots : dev.versions[s] = NO_VERSION

Clean == ~dev.bootloader /\ ~dev.production /\ dev.locks = Unlocked

BodyStarts == phase = "setup" /\ phase' = "body"

\* The body of a test only starts on a firmware in the HLOS, out of
\* production and unlocked, whatever test ran before it, wherever that one
\* stopped and whichever calls of SetUp were lost.  If none was lost, the
\* rollback slots and the device data are blank as well: ResetProduction does
\* not look at the status of Reset (tools/avb_tools.cc:144), so a lost Reset
\* of a firmware that is out of production already goes unnoticed.
CleanStart ==
  [][BodyStarts /\ fault = "none" /\ test # "SetRootOfTrust" =>
       Clean' /\ (lost = 0 => UserDataBlank')]_vars

\* A test never fails on a firmware that keeps its rules if none of the test's
\* calls is lost: no test depends on the order of the tests, on what an
\* aborted test left behind or on how the firmware uses the freedom it has.
NoFalseAlarm == (fault = "none" /\ lost = 0) => ~failed

\* The tests that break each rule on purpose.
DetectedBy ==
  [DeviceLockNeedsHlos |-> {"DeviceLockTest", "BootLockTest"},
   DeviceLockIsSet |-> {"DeviceLockTest"},
   BootLockNeedsBootloader |-> {"BootLockTest"},
   CarrierFreezesBootLock |-> {"BootLockTest"},
   DeviceFreezesBootLock |-> {"BootLockTest"},
   OwnerLockIsSet |-> {"OwnerLockTest"},
   OwnerLockNeedsBootUnlocked |-> {"OwnerLockTest"},
   CarrierLockNeedsDevelopment |-> {"CarrierLockTest"},
   LocksNeedDevelopment |-> {"Reset"},
   NonceIsSpent |-> {"ResetProductionValid"},
   ProductionIsFinal |-> {"ProductionMode"},
   StoreNeedsBootloader |-> {"Rollback"},
   UnlockIsSigned |-> {"CarrierUnlockTest"},
   ResetIsSigned |-> {"ResetProductionValid", "ProductionResetTestValid"},
   ProductionKeepsLocks |-> {"ProductionMode"},
   WipeKeepsLocks |-> {"WipeUserDataDoesNotLockDeviceLock"}]

\* A firmware without one of its rules never passes a test written for that
\* rule, in whatever state the test finds it and whichever calls are lost.  The
\* exception is a firmware that ignores the signature of a reset: a lost call
\* passes for its refusal, because the reset tests only expect the status not
\* to be 0 (src/avb_tests.cc:790, 859).
FaultDetected ==
  (phase = "idle" /\ fault # "none" /\ (fault = "ResetIsSigned" => lost = 0)) =>
    (test \in DetectedBy[fault] => failed)
=============================================================================
