--------------------------- MODULE KeymasterTests ---------------------------
(* The keymaster tests (src/keymaster-import-key-tests.cc,                  *)
(* src/keymaster-import-wrapped-key-tests.cc and                            *)
(* src/keymaster-provision-tests.cc) against the Keymaster application.     *)
(* gtest calls SetUpTestCase when it comes to a suite and runs the suite's  *)
(* tests even if that failed.                                               *)
EXTENDS Keymaster, AvbTools, TLC

(* Requests and what the tests compare of the replies.                      *)

NoKey == [e |-> 0, d |-> 0, n |-> 0, valid |-> FALSE,
          curve_id |-> 0, x |-> 0, y |-> 0]
P_256 == 1

Import(params, key) == [op |-> "ImportKey", params |-> params, key |-> key]

\* Mutant: every tag is put in, whatever it is.
initRSARequestAllTags(key_size, public_exponent_tag, key) ==
  Import([ALGORITHM |-> "RSA", KEY_SIZE |-> key_size,
          RSA_PUBLIC_EXPONENT |-> public_exponent_tag], key)

\* The overloads of initRSARequest: negative values leave a tag out.
initRSARequest(key_size, public_exponent_tag, key) ==
  Import(("ALGORITHM" :> "RSA")
           @@ [x \in {t \in {"KEY_SIZE"} : key_size >= 0} |-> key_size]
           @@ [x \in {t \in {"RSA_PUBLIC_EXPONENT"} : public_exponent_tag >= 0}
                 |-> public_exponent_tag], key)

\* d and N of the given sizes, zeros or those of a test key.
Rsa(e, d, n, valid) == [NoKey EXCEPT !.e = e, !.d = d, !.n = n, !.valid = valid]

EcRequest(tags, key) == Import(("ALGORITHM" :> "EC") @@ tags, key)

\* ASSERT_NO_ERROR(ImportKey) and EXPECT_EQ(error_code, error).
Expect(call, error) == Step(call, Code("OK"), [error |-> {error}], ABORT)

\* memcmp of the key in the blob, which is not a call: the bytes at the blob's
\* data pointer are compared whatever its size is.
CompareKey == Step([op |-> "memcmp"], Nothing, [key |-> {"same"}], 0)

\* Mutant: the size of the blob is not looked at.
ExpectBlobAnySize(call) == Expect(call, "OK") \o CompareKey

\* The size of the blob is only EXPECTed, so the comparison follows in any case.
ExpectBlob(call) ==
  Step(call, Code("OK"), [error |-> {"OK"}, size |-> {"km_blob"}], ABORT) \o CompareKey

----------------------------------------------------------------------------
(* ImportKeyTest and ImportWrappedKeyTest.                                  *)

AlgorithmMissingFails ==
  Expect(Import([KEY_SIZE |-> 512, RSA_PUBLIC_EXPONENT |-> 3], NoKey),
         "INVALID_ARGUMENT")

RSAInvalidKeySizeFails ==
  Expect(initRSARequest(256, 3, NoKey), "UNSUPPORTED_KEY_SIZE")

RSAInvalidPublicExponentFails ==
  Expect(initRSARequest(512, 2, Rsa(2, 64, 64, FALSE)), "UNSUPPORTED_KEY_SIZE")

RSAKeySizeTagMisatchNFails ==
  Expect(initRSARequest(512, 3, Rsa(3, 64, 63, FALSE)), "IMPORT_PARAMETER_MISMATCH")

RSAKeySizeTagMisatchDFails ==
  Expect(initRSARequest(512, 3, Rsa(3, 63, 64, FALSE)), "IMPORT_PARAMETER_MISMATCH")

RSAPublicExponentTagMisatchFails ==
  Expect(initRSARequest(512, 3, Rsa(2, 64, 64, FALSE)), "IMPORT_PARAMETER_MISMATCH")

RSA1024BadEFails ==
  Expect(initRSARequest(1024, 3, Rsa(3, 128, 128, FALSE)), "INVALID_ARGUMENT")

\* A byte is put in front and the last one left out, so the size stays.
RSA1024BadDFails ==
  Expect(initRSARequest(1024, 65537, Rsa(65537, 128, 128, FALSE)), "INVALID_ARGUMENT")
RSA1024BadNFails ==
  Expect(initRSARequest(1024, 65537, Rsa(65537, 128, 128, FALSE)), "INVALID_ARGUMENT")

TEST_RSA_KEYS ==
  <<<<3, 64>>, <<65537, 64>>, <<65537, 96>>, <<65537, 128>>, <<65537, 256>>,
    <<65537, 384>>>>

RSASuccess ==
  LET imported(e, size) == ExpectBlob(initRSARequest(-1, e, Rsa(e, size, size, TRUE))) IN
  FlattenSeq([i \in DOMAIN TEST_RSA_KEYS |->
                imported(TEST_RSA_KEYS[i][1], TEST_RSA_KEYS[i][2])])

RSA1024OptionalParamsAbsentSuccess ==
  ExpectBlob(initRSARequest(-1, -1, Rsa(65537, 128, 128, TRUE)))

ECMissingCurveIdTagFails ==
  Expect(EcRequest(Nothing, NoKey), "INVALID_ARGUMENT")

ECMisMatchedCurveIdTagFails ==
  Expect(EcRequest([EC_CURVE |-> P_256], [NoKey EXCEPT !.curve_id = P_256 + 1]),
         "INVALID_ARGUMENT")

ECMisMatchedKeySizeTagCurveTagFails ==
  Expect(EcRequest([EC_CURVE |-> P_256, KEY_SIZE |-> 384],
                   [NoKey EXCEPT !.curve_id = P_256]), "INVALID_ARGUMENT")

\* d, x and y of the given sizes.
Ec(d, x, y, valid) ==
  [NoKey EXCEPT !.curve_id = P_256, !.d = d, !.x = x, !.y = y, !.valid = valid]

ECMisMatchedP256KeySizeFails ==
  Expect(EcRequest([EC_CURVE |-> P_256], Ec(31, 32, 32, FALSE)), "INVALID_ARGUMENT")

ECP256BadKeyFails ==
  Expect(EcRequest([EC_CURVE |-> P_256], Ec(32, 32, 32, FALSE)), "INVALID_ARGUMENT")

\* The generated key is a valid one: the calls that make it do not fail.
ImportECP256KeySuccess ==
  Expect(EcRequest([EC_CURVE |-> P_256, KEY_SIZE |-> 256], Ec(32, 32, 32, TRUE)), "OK")

ImportSuccess == ExpectBlob([op |-> "ImportWrappedKey"])

----------------------------------------------------------------------------
(* KeymasterProvisionTest.                                                  *)

\* The length of serialno and whether there is a meid.
PopulateDefaultRequest == [op |-> "ProvisionDeviceIds", serialno |-> 8, meid |-> TRUE]

Provision(request, error) ==
  Step(request, [code |-> {"OK"}, error |-> {error}], Nothing, ABORT)

SetUp == ResetProduction

ProvisionDeviceIdsSuccess == Provision(PopulateDefaultRequest, "OK")

ReProvisionDeviceIdsSuccess ==
  Provision(PopulateDefaultRequest, "OK") \o Provision(PopulateDefaultRequest, "OK")

\* The status of SetProduction is not looked at.
ProductionModeProvisionFails ==
  Step([op |-> "SetProduction", production |-> TRUE, data |-> ZERO_DATA],
       Nothing, Nothing, 0)
    \o Provision(PopulateDefaultRequest, "PRODUCTION_MODE_PROVISIONING")

InvalidDeviceIdFails ==
  Provision([PopulateDefaultRequest EXCEPT !.serialno = KM_MNF_MAX_ENTRY_SIZE + 1],
            "INVALID_DEVICE_IDS")

MaxDeviceIdSuccess ==
  Provision([PopulateDefaultRequest EXCEPT !.serialno = KM_MNF_MAX_ENTRY_SIZE], "OK")

NoMeidSuccess == Provision([PopulateDefaultRequest EXCEPT !.meid = FALSE], "OK")

----------------------------------------------------------------------------

ProvisionBody ==
  [ProvisionDeviceIdsSuccess |-> ProvisionDeviceIdsSuccess,
   ReProvisionDeviceIdsSuccess |-> ReProvisionDeviceIdsSuccess,
   ProductionModeProvisionFails |-> ProductionModeProvisionFails,
   InvalidDeviceIdFails |-> InvalidDeviceIdFails,
   MaxDeviceIdSuccess |-> MaxDeviceIdSuccess, NoMeidSuccess |-> NoMeidSuccess]

ImportBody ==
  [AlgorithmMissingFails |-> AlgorithmMissingFails,
   RSAInvalidKeySizeFails |-> RSAInvalidKeySizeFails,
   RSAInvalidPublicExponentFails |-> RSAInvalidPublicExponentFails,
   RSAKeySizeTagMisatchNFails |-> RSAKeySizeTagMisatchNFails,
   RSAKeySizeTagMisatchDFails |-> RSAKeySizeTagMisatchDFails,
   RSAPublicExponentTagMisatchFails |-> RSAPublicExponentTagMisatchFails,
   RSA1024BadEFails |-> RSA1024BadEFails, RSA1024BadDFails |-> RSA1024BadDFails,
   RSA1024BadNFails |-> RSA1024BadNFails, RSASuccess |-> RSASuccess,
   RSA1024OptionalParamsAbsentSuccess |-> RSA1024OptionalParamsAbsentSuccess,
   ECMissingCurveIdTagFails |-> ECMissingCurveIdTagFails,
   ECMisMatchedCurveIdTagFails |-> ECMisMatchedCurveIdTagFails,
   ECMisMatchedKeySizeTagCurveTagFails |-> ECMisMatchedKeySizeTagCurveTagFails,
   ECMisMatchedP256KeySizeFails |-> ECMisMatchedP256KeySizeFails,
   ECP256BadKeyFails |-> ECP256BadKeyFails,
   ImportECP256KeySuccess |-> ImportECP256KeySuccess,
   ImportSuccess |-> ImportSuccess]

\* SetUpTestCase of the import suites is run like a test.
KeymasterBody == ProvisionBody @@ ImportBody @@ ("SetUpTestCase" :> SetRootOfTrust)
=============================================================================
