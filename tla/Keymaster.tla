----------------------------- MODULE Keymaster -----------------------------
(* The Keymaster application of the Citadel firmware, as the keymaster      *)
(* tests use it: the checks it makes of a key or of device ids, in the      *)
(* order the tests require.  The first check that fails gives the error; a  *)
(* faulty firmware leaves out the one check that fault names, or makes one  *)
(* that it should not.                                                      *)
(*                                                                          *)
(* The state is that of the AVB application and two facts more: rot, the    *)
(* root of trust was set, and ids, device ids were provisioned.             *)
EXTENDS Avb, Integers, Sequences

CONSTANTS KM_MNF_MAX_ENTRY_SIZE

ASSUME KeymasterAssumption == KM_MNF_MAX_ENTRY_SIZE \in Nat

Check(name, code, fails) == [name |-> name, code |-> code, fails |-> fails]

----------------------------------------------------------------------------
(* ImportKey.  p holds the parameters by tag; of a key only the sizes of    *)
(* its parts matter and whether they belong together (valid).               *)

RsaChecks(p, k) ==
  LET sized == "KEY_SIZE" \in DOMAIN p
      exponent == "RSA_PUBLIC_EXPONENT" \in DOMAIN p IN
  <<Check("KeySizeIsSupported", "UNSUPPORTED_KEY_SIZE",
          sized /\ p.KEY_SIZE \notin {512, 768, 1024, 2048, 3072}),
    Check("ExponentIsSupported", "UNSUPPORTED_KEY_SIZE",
          exponent /\ p.RSA_PUBLIC_EXPONENT \notin {3, 65537}),
    Check("ExponentMatches", "IMPORT_PARAMETER_MISMATCH",
          exponent /\ p.RSA_PUBLIC_EXPONENT # k.e),
    Check("NMatches", "IMPORT_PARAMETER_MISMATCH", sized /\ 8 * k.n # p.KEY_SIZE),
    Check("DMatches", "IMPORT_PARAMETER_MISMATCH", sized /\ 8 * k.d # p.KEY_SIZE),
    Check("RsaKeyIsValid", "INVALID_ARGUMENT", ~k.valid)>>

EcChecks(p, k) ==
  LET curve == "EC_CURVE" \in DOMAIN p IN
  <<Check("CurveIsGiven", "INVALID_ARGUMENT", ~curve),
    Check("CurveMatches", "INVALID_ARGUMENT", curve /\ p.EC_CURVE # k.curve_id),
    Check("KeySizeMatchesCurve", "INVALID_ARGUMENT",
          "KEY_SIZE" \in DOMAIN p /\ p.KEY_SIZE # 256),
    Check("PointFitsCurve", "INVALID_ARGUMENT", \E x \in {k.d, k.x, k.y} : 8 * x # 256),
    Check("EcKeyIsValid", "INVALID_ARGUMENT", ~k.valid)>>

ImportChecks(p, k) ==
  IF "ALGORITHM" \notin DOMAIN p
  THEN <<Check("AlgorithmIsGiven", "INVALID_ARGUMENT", TRUE),
         Check("SomeKeyIsGiven", "INVALID_ARGUMENT", TRUE)>>
  ELSE IF p.ALGORITHM = "RSA" THEN RsaChecks(p, k) ELSE EcChecks(p, k)

(* ProvisionDeviceIds.  The last three are checks of a faulty firmware.     *)
ProvisionChecks(d, f, c) ==
  <<Check("ProvisionNeedsDevelopment", "PRODUCTION_MODE_PROVISIONING", d.production),
    Check("IdsFit", "INVALID_DEVICE_IDS", c.serialno > KM_MNF_MAX_ENTRY_SIZE),
    Check("no LongestIdFits", "INVALID_DEVICE_IDS",
          f = "LongestIdFits" /\ c.serialno = KM_MNF_MAX_ENTRY_SIZE),
    Check("no MeidIsOptional", "INVALID_DEVICE_IDS", f = "MeidIsOptional" /\ ~c.meid),
    Check("no ReprovisionIsAllowed", "INVALID_DEVICE_IDS",
          f = "ReprovisionIsAllowed" /\ d.ids)>>

KeymasterRule ==
  {"KeySizeIsSupported", "ExponentIsSupported", "ExponentMatches", "NMatches",
   "DMatches", "RsaKeyIsValid", "CurveIsGiven", "CurveMatches",
   "KeySizeMatchesCurve", "PointFitsCurve", "EcKeyIsValid", "AlgorithmIsGiven",
   "ProvisionNeedsDevelopment", "IdsFit", "LongestIdFits", "MeidIsOptional",
   "ReprovisionIsAllowed", "BlobHoldsKey", "BlobIsWhole"}

----------------------------------------------------------------------------

\* A reply: the error code, the size of the blob and the key in it.
KeyReply(error, size, key) ==
  [code |-> "OK", error |-> error, size |-> size, key |-> key]

Refused(error) == {KeyReply(error, "empty", "none")}

\* A blob with the key in it; of a faulty firmware one with another key, or one
\* that ends early.
Imported(f) ==
  CASE f = "BlobHoldsKey" -> {KeyReply("OK", "km_blob", "other")}
    [] f = "BlobIsWhole" -> {KeyReply("OK", size, "none") : size \in {"short", "empty"}}
    [] OTHER -> {KeyReply("OK", "km_blob", "same")}

FirstFailing(checks, f) ==
  LET failing == {i \in DOMAIN checks : checks[i].fails /\ checks[i].name # f} IN
  {checks[i].code : i \in {i \in failing : \A j \in failing : i <= j}}

\* Before the root of trust is set, and in the bootloader, any import may be
\* refused.
ImportReplies(d, f, errors) ==
  (IF errors = {} THEN Imported(f) ELSE UNION {Refused(e) : e \in errors})
  \union (IF d.rot /\ ~d.bootloader THEN {} ELSE Refused("UNKNOWN_ERROR"))

ProvisionOutcomes(d, f, c) ==
  LET errors == FirstFailing(ProvisionChecks(d, f, c), f) IN
  IF errors = {}
  THEN {Outcome([d EXCEPT !.ids = TRUE], [code |-> "OK", error |-> "OK"])}
  ELSE {Outcome(d, [code |-> "OK", error |-> e]) : e \in errors}

\* Outside the bootloader the root of trust may be refused.
KeymasterOutcomes(d, f, c) ==
  CASE c.op = "ImportKey" ->
         {Outcome(d, r) :
            r \in ImportReplies(d, f, FirstFailing(ImportChecks(c.params, c.key), f))}
    [] c.op = "ImportWrappedKey" ->
         {Outcome(d, r) : r \in ImportReplies(d, f, {})}
    [] c.op = "ProvisionDeviceIds" -> ProvisionOutcomes(d, f, c)
    [] c.op = "SetRootOfTrust" ->
         Outcomes([d EXCEPT !.rot = TRUE], f, c)
           \union {o \in {Outcome(d, Status("AUTHORIZATION"))} : ~d.bootloader}
    [] OTHER -> Outcomes(d, f, c)
=============================================================================
