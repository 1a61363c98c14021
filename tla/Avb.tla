-------------------------------- MODULE Avb --------------------------------
(* The AVB application of the Citadel firmware, as its clients use it:      *)
(* tools/avb_tools.cc and src/avb_tests.cc.  The firmware is not part of    *)
(* this repository, so this module holds what those files require of it: a  *)
(* call is refused when one of the Rules applies and takes its Effects      *)
(* otherwise.  Where no test pins the firmware down it may do either.       *)
(* A faulty firmware breaks exactly one rule, the one that fault names.     *)
EXTENDS Naturals, FiniteSets

CONSTANTS
  Slots,    \* the rollback slots the tests use (8 in the firmware)
  Nonces    \* the nonces a challenge may carry

ASSUME AvbAssumption == /\ Slots \in Nat \ {0}
                        /\ IsFiniteSet(Nonces)
                        /\ Nonces \subseteq Nat \ {0}
                        /\ Cardinality(Nonces) > 1

Lock == {"BOOT", "CARRIER", "DEVICE", "OWNER"}

ZERO_DATA == "zeros"              \* 32 zero bytes of device data
HASH_DATA == "kDeviceHash"        \* the device hash of the reset tests
DeviceData == {ZERO_DATA, HASH_DATA}

NO_VERSION == <<"zero", 0>>       \* the contents of a rollback slot
Version == {NO_VERSION} \union {"ff", "88"} \X (1 .. Slots)

Unlocked == [l \in Lock |-> 0]

\* The state the application keeps.  nonce is the challenge that a reset may
\* still use, 0 when there is none.
State == [bootloader : BOOLEAN, production : BOOLEAN,
          locks      : [Lock -> 0 .. 255],
          nonce      : Nonces \union {0},
          data       : DeviceData,
          versions   : [1 .. Slots -> Version],
          key        : {"none", "owner_key"}]

\* A signature is the message it was made over; this one fits no message.
BAD_SIGNATURE == [nonce |-> 0, data |-> "none"]

SignedBy(d, sig) == sig = [nonce |-> d.nonce, data |-> d.data]

----------------------------------------------------------------------------
(* Rules(d, c): the rules that forbid the call c in the state d, each with  *)
(* the status it answers.                                                   *)

Rule(name, code, applies) == {r \in {[name |-> name, code |-> code]} : applies}

SetLockRules(d, lock, v) ==
  LET changes == v # d.locks[lock]
      relocks == d.locks[lock] # 0 /\ v # 0 /\ changes
      frozen  == d.production /\ d.locks.BOOT # 0 /\ changes IN
  CASE lock = "DEVICE" ->
         Rule("DeviceLockNeedsHlos", "HLOS", d.production /\ d.bootloader)
           \union Rule("DeviceLockIsSet", "DENIED", relocks)
    [] lock = "BOOT" ->
         Rule("BootLockNeedsBootloader", "BOOTLOADER",
              d.production /\ ~d.bootloader)
           \union Rule("CarrierFreezesBootLock", "DENIED",
                       frozen /\ d.locks.CARRIER # 0)
           \union Rule("DeviceFreezesBootLock", "DENIED",
                       frozen /\ d.locks.DEVICE # 0)
    [] lock = "OWNER" ->
         Rule("OwnerLockIsSet", "DENIED", relocks)
           \union Rule("OwnerLockNeedsBootUnlocked", "DENIED",
                       v # 0 /\ d.locks.BOOT # 0)
    [] lock = "CARRIER" ->
         Rule("CarrierLockNeedsDevelopment", "AUTHORIZATION", d.production)

ResetRules(d, kind) ==
  IF kind = "LOCKS"
  THEN Rule("LocksNeedDevelopment", "DENIED", d.production)
  ELSE Rule("NonceIsSpent", "DENIED", d.nonce = 0)

Rules(d, c) ==
  CASE c.op = "SetLock"       -> SetLockRules(d, c.lock, c.value)
    [] c.op = "Reset"         -> ResetRules(d, c.kind)
    [] c.op = "SetProduction" -> Rule("ProductionIsFinal", "AUTHORIZATION",
                                      d.production /\ ~c.production)
    [] c.op = "Store"         -> Rule("StoreNeedsBootloader", "BOOTLOADER",
                                      d.production /\ ~d.bootloader)
    [] c.op = "CarrierLockTest"     -> Rule("UnlockIsSigned", "AUTHORIZATION",
                                            c.signed # c.nonce)
    [] c.op = "ProductionResetTest" -> Rule("ResetIsSigned", "LINENO",
                                            c.signed # c.message)
    [] OTHER -> {}

----------------------------------------------------------------------------
(* Effects(d, f, c): the possible outcomes of the call c, each with its     *)
(* reply and the state it leaves, when no rule forbids it.                  *)

Outcome(d, reply) == [dev |-> d, reply |-> reply]
Status(code) == [code |-> code]
Done(d) == {Outcome(d, Status("OK"))}

\* What GetState reports.
View(d) == [code |-> "OK", bootloader |-> d.bootloader,
            production |-> d.production,
            BOOT |-> d.locks.BOOT, CARRIER |-> d.locks.CARRIER,
            DEVICE |-> d.locks.DEVICE, OWNER |-> d.locks.OWNER]

\* A production reset unlocks even when the signature is wrong: only test
\* images run these tests, and only the status tells the difference.  It
\* wipes the user's data and may return to the HLOS.
ResetProductionEffects(d, f, sig) ==
  {Outcome([d EXCEPT !.production = FALSE, !.nonce = 0, !.data = ZERO_DATA,
                     !.versions = [s \in 1 .. Slots |-> NO_VERSION],
                     !.bootloader = b],
           Status(IF SignedBy(d, sig) \/ f = "ResetIsSigned"
                  THEN "OK" ELSE "LINENO"))
     : b \in {d.bootloader, FALSE}}

SetProductionEffects(d, f, c) ==
  IF c.production
  THEN Done([d EXCEPT !.production = TRUE, !.data = c.data,
                      !.locks = IF f = "ProductionKeepsLocks"
                                THEN Unlocked ELSE @])
         \union {o \in {Outcome(d, Status("AUTHORIZATION"))} : d.production}
  ELSE Done([d EXCEPT !.production = FALSE])

SetLockEffects(d, c) ==
  Done([d EXCEPT !.locks[c.lock] = c.value,
                 !.key = IF c.lock = "OWNER" THEN c.key ELSE @])

Effects(d, f, c) ==
  CASE c.op = "SetBootloader"  -> Done([d EXCEPT !.bootloader = TRUE])
    [] c.op = "BootloaderDone" -> Done([d EXCEPT !.bootloader = FALSE])
    [] c.op = "GetState"       -> {Outcome(d, View(d))}
    [] c.op = "SetLock"        -> SetLockEffects(d, c)
    [] c.op = "SetProduction"  -> SetProductionEffects(d, f, c)
    [] c.op = "Reset" /\ c.kind = "LOCKS" -> Done([d EXCEPT !.locks = Unlocked])
    [] c.op = "Reset" /\ c.kind = "PRODUCTION" ->
         ResetProductionEffects(d, f, c.signature)
    [] c.op = "GetResetChallenge" ->
         {Outcome([d EXCEPT !.nonce = n],
                  [code |-> "OK", nonce |-> n, data |-> d.data])
            : n \in Nonces \ {c.previous}}
    [] c.op = "Store" -> Done([d EXCEPT !.versions[c.slot] = c.version])
    [] c.op = "Load"  -> {Outcome(d, [code |-> "OK",
                                      version |-> d.versions[c.slot]])}
    [] c.op = "GetOwnerKey"  -> {Outcome(d, [code |-> "OK", chunk |-> d.key])}
    [] c.op = "WipeUserData" ->
         Done(IF f = "WipeKeepsLocks" THEN [d EXCEPT !.locks["DEVICE"] = 1]
              ELSE d)
    [] c.op = "SetRootOfTrust" -> {Outcome(d, [code |-> "OK", error |-> "OK"])}
    [] OTHER -> Done(d)

\* The rules a firmware may be built without.
FirmwareRule ==
  {"DeviceLockNeedsHlos", "DeviceLockIsSet", "BootLockNeedsBootloader",
   "CarrierFreezesBootLock", "DeviceFreezesBootLock", "OwnerLockIsSet",
   "OwnerLockNeedsBootUnlocked", "CarrierLockNeedsDevelopment",
   "LocksNeedDevelopment", "NonceIsSpent", "ProductionIsFinal",
   "StoreNeedsBootloader", "UnlockIsSigned", "ResetIsSigned",
   "ProductionKeepsLocks", "WipeKeepsLocks"}

\* What the firmware that breaks rule f (none, if f is "none") may do.
Outcomes(d, f, c) ==
  LET enforced == {r \in Rules(d, c) : r.name # f} IN
  IF enforced = {} THEN Effects(d, f, c)
  ELSE {Outcome(d, Status(r.code)) : r \in enforced}
=============================================================================
