----------------------------- MODULE ProtoTests -----------------------------
(* The tests that exchange protobuf messages with the firmware: the suite   *)
(* NuggetOsTest (src/runtests.cc, src/cavptests.cc) and DcryptoTest         *)
(* (src/aes-cmac-tests.cc), over a channel on which replies may come late   *)
(* or never.                                                                *)
(*                                                                          *)
(* Of a reply only matters what is wrong with it, in the eyes of the test   *)
(* that receives it.  A faulty firmware gets one of these aspects wrong in  *)
(* every reply; a late reply to another request does not fit either.        *)
EXTENDS GTest, ReplyChannel, Integers

CONSTANTS
  KeySizes,        \* AesCbc: the keys it tries
  Repeats,         \* Trng: the requests it makes
  Vectors,         \* AesGcm, AesCmacRfc4493Test: the number of test vectors
  MaxLate,         \* bound on the replies that are late at the same time
  MaxDrop          \* bound on how far aborted tests lower the verbosity

ASSUME ProtoTestsAssumption ==
  /\ KeySizes \in Seq(Nat) \ {<<>>}
  /\ {Repeats, Vectors, MaxLate, MaxDrop} \subseteq Nat \ {0}

VARIABLES
  transport,  \* "spi" or "ahdlc" (--util_use_ahdlc)
  suite,      \* the suite whose harness exists, or "none"
  waiting,    \* the request of the current step is sent
  verbosity,  \* of the harness, relative to --util_verbosity
  saved,      \* the test's own copy of it
  late,       \* a reply was outstanding when the test began
  stale       \* the test took a reply to a request other than its last

\* dev is what the firmware makes of the UART: "console" or "proto".
vars == <<gtestVars, channelVars, transport, suite, waiting, verbosity, saved,
          late, stale>>

----------------------------------------------------------------------------
(* The steps.                                                               *)

Type ==
  [ping |-> "NOTICE", invalid |-> "NOTICE", control |-> "NOTICE",
   sequence |-> "SEND_SEQUENCE", echo |-> "ECHO_THIS",
   cbc |-> "TESTING_API_RESPONSE", trng |-> "TESTING_API_RESPONSE",
   gcm |-> "TESTING_API_RESPONSE", cmac |-> "TESTING_API_RESPONSE"]

Ops == DOMAIN Type

Aspects == {"type", "subtype", "parse", "result", "size", "data"}

\* What can be wrong with a reply of each type.
AspectsOf ==
  [NOTICE |-> {"type", "parse", "result"}, SEND_SEQUENCE |-> {"type", "size", "data"},
   ECHO_THIS |-> {"type", "size", "data"}, TESTING_API_RESPONSE |-> Aspects]

Right(aspects) == [x \in aspects |-> {TRUE}]

\* ASSERT_NO_TH_ERROR, and the aspects that are compared.
Received(aspects) ==
  [x \in {"code"} \union aspects |-> IF x = "code" THEN {"OK"} ELSE {TRUE}]

\* More steps than any of these tests has.
TheRest == ABORT + Len(KeySizes) + Repeats + Vectors

\* SendData and GetData with ASSERT_NO_TH_ERROR, then the comparisons.
Exchange(op, data, asserts, expects) ==
  Step([op |-> op, data |-> data], Received(asserts), Right(expects), TheRest)[1]

Local(op) == Step([op |-> op], Nothing, Nothing, 0)[1]

LowerVerbosity == Local("lower")
RestoreVerbosity == Local("restore")
ReadUntil == Local("drain")

----------------------------------------------------------------------------
(* The tests.                                                               *)

NoticePing == [i \in 1 .. 3 |-> Exchange("ping", 0, {"type", "parse"}, {"result"})]

InvalidMessageType == <<Exchange("invalid", 0, {"type", "parse"}, {"result"})>>

\* Compares as many bytes as the reply has.
Sequence == <<Exchange("sequence", 0, {"type", "data"}, {})>>

\* Mutant: only the length of the echo is compared.
EchoLength == <<Exchange("echo", 0, {"size"}, {})>>

\* Looks at the type of msg, the message it sent, not at receive_msg.
Echo == <<Exchange("echo", 0, {"size", "data"}, {})>>

AesCbc ==
  [i \in DOMAIN KeySizes |->
     Exchange("cbc", KeySizes[i], {"type", "parse", "size", "data"}, {"subtype", "result"})]

\* The bytes are judged together after the last request, when nothing but the
\* verdict is left; that ASSERT is an EXPECT here.
TrngExchange == Exchange("trng", 0, {"type", "parse", "size"}, {"subtype", "data"})

Trng ==
  <<TrngExchange, LowerVerbosity>> \o [i \in 1 .. Repeats - 1 |-> TrngExchange]
    \o <<RestoreVerbosity>>

AesGcm ==
  <<LowerVerbosity, ReadUntil>>
    \o [i \in 1 .. Vectors |->
          Exchange("gcm", i, {"type", "parse", "size", "data"}, {"subtype", "result"})]
    \o <<ReadUntil, RestoreVerbosity>>

\* Mutant: the result is not looked at.
AesCmacUnchecked ==
  <<LowerVerbosity>>
    \o [i \in 1 .. Vectors |-> Exchange("cmac", i, {"type", "parse", "data"}, {"subtype"})]
    \o <<RestoreVerbosity>>

\* The size of the result is not looked at.
AesCmacRfc4493Test ==
  <<LowerVerbosity>>
    \o [i \in 1 .. Vectors |->
          Exchange("cmac", i, {"type", "parse", "data"}, {"subtype", "result"})]
    \o <<RestoreVerbosity>>

\* EXPECT_TRUE(SwitchFromProtoApiToConsole(NULL)): it looks at the type only.
TearDownTestCase ==
  IF transport = "ahdlc" /\ suite = "NuggetOsTest"
  THEN <<ReadUntil,
         Step([op |-> "control", data |-> 0], Nothing, Received({"type"}), 0)[1]>>
  ELSE <<>>

SuiteOf ==
  [t \in {"NoticePing", "InvalidMessageType", "Sequence", "Echo", "AesCbc", "Trng",
          "AesGcm", "AesCmacRfc4493Test"} |->
     IF t = "AesCmacRfc4493Test" THEN "DcryptoTest" ELSE "NuggetOsTest"]

Tests == DOMAIN SuiteOf

Body ==
  [NoticePing |-> NoticePing, InvalidMessageType |-> InvalidMessageType,
   Sequence |-> Sequence, Echo |-> Echo, AesCbc |-> AesCbc, Trng |-> Trng,
   AesGcm |-> AesGcm, AesCmacRfc4493Test |-> AesCmacRfc4493Test,
   TearDownTestCase |-> TearDownTestCase]

Program == IF phase = "body" THEN Body[test] ELSE <<>>

----------------------------------------------------------------------------
(* The firmware's replies.                                                  *)

\* Echo and AesCbc send random bytes: no other request has the same.
SameContents(r, w) == r = w /\ r.op \notin {"echo", "cbc"}

\* What is wrong with the reply to r for a test that sent w.
Mismatch(r, w, own) ==
  IF Type[r.op] # Type[w.op] THEN {"type", "size", "data"}
  ELSE IF r.op # w.op
       THEN IF Type[r.op] = "NOTICE" THEN {"result"} ELSE {"subtype", "size", "data"}
  ELSE {x \in {"data"} : ~own /\ ~SameContents(r, w)}

\* A payload of another subtype may parse or not; bytes behind the end of a
\* result of AesCmac that is too short may be the right ones or not.
Wrongs(r, w, own) ==
  LET base == Mismatch(r, w, own)
                \union (AspectsOf[Type[r.op]] \intersect {fault}) IN
  {base} \union (IF "subtype" \in base THEN {base \union {"parse"}} ELSE {})
         \union (IF w.op = "cmac" /\ "size" \in base THEN {base \union {"data"}} ELSE {})

Reply(wrong) ==
  [x \in {"code"} \union Aspects |-> IF x = "code" THEN "OK" ELSE x \notin wrong]

----------------------------------------------------------------------------

Init ==
  /\ transport \in {"spi", "ahdlc"}
  /\ dev = "console"
  /\ fault \in Aspects \union {"none"}
  /\ Idle("TearDownTestCase")
  /\ ChannelInit
  /\ suite = "none" /\ waiting = FALSE /\ verbosity = 0 /\ saved = 0
  /\ late = FALSE /\ stale = FALSE

\* Mutant: the console is left on.
SwitchedUartNever(s) == dev

\* What may still come of the replies when those received are discarded.
Unread == {SubSeq(pending, i, Len(pending)) : i \in 1 .. Len(pending) + 1}

\* SwitchFromConsoleToProtoApi, in the suite NuggetOsTest only.
SwitchedUart(s) == IF transport = "ahdlc" /\ s = "NuggetOsTest" THEN "proto" ELSE dev

\* A new harness.  Over SPI the buffer with the replies to the old one is gone.
\* Over the UART SwitchFromConsoleToProtoApi reads on to the prompt, which
\* comes behind all of them; it does not return if the device is not at its
\* console.  DcryptoTest only discards what the tty has received by then.
SetUpTestCase(s) ==
  /\ phase = "idle" /\ suite = "none"
  /\ (transport = "ahdlc" /\ s = "NuggetOsTest") => dev = "console"
  /\ suite' = s
  /\ dev' = SwitchedUart(s)
  /\ verbosity' = 0
  /\ pending' \in IF transport = "ahdlc" /\ s = "DcryptoTest" THEN Unread ELSE {<<>>}
  /\ replies' = <<>>
  /\ UNCHANGED <<fault, test, phase, pc, fatal, failed, lost, transport,
                 waiting, saved, late, stale>>

Start(t) ==
  /\ suite # "none"
  /\ t \in Tests => SuiteOf[t] = suite /\ verbosity > -MaxDrop
  /\ Begin(t)
  /\ saved' = verbosity
  /\ late' = (pending # <<>>)
  /\ stale' = FALSE
  /\ UNCHANGED <<dev, fault, channelVars, transport, suite, waiting, verbosity>>

Running == phase # "idle" /\ pc <= Len(Program)

Current == Program[pc]

IsExchange == Current.call.op \in Ops

\* The firmware sees protobuf messages.
Reachable == transport = "spi" \/ dev = "proto"

\* A request for the console ends the protobuf protocol.
Send ==
  /\ Running /\ IsExchange /\ ~waiting
  /\ waiting' = TRUE
  /\ IF Reachable THEN SendData(Current.call)
     ELSE replies' = <<>> /\ UNCHANGED pending
  /\ dev' = IF Current.call.op = "control" THEN "console" ELSE dev
  /\ UNCHANGED <<fault, test, phase, pc, fatal, failed, lost, transport, suite,
                 verbosity, saved, late, stale>>

\* The i-th reply is the one to the request of this step.
Own(i) == i = Len(pending) /\ pending[i] = Current.call

\* Over SPI the reply is in the buffer when SendData returns.
Get ==
  /\ waiting
  /\ \E i \in DOMAIN pending :
       /\ transport = "spi" => i = Len(pending)
       /\ GetData(i)
       /\ stale' = (stale \/ ~Own(i))
       /\ \E wrong \in Wrongs(pending[i], Current.call, Own(i)) :
            Answered(Current, [dev |-> dev, reply |-> Reply(wrong)])
  /\ waiting' = FALSE
  /\ UNCHANGED <<transport, suite, verbosity, saved, late>>

\* GetData times out, or the call over SPI fails.  A lost request for the console
\* leaves the device in the protobuf protocol.
Timeout ==
  /\ waiting /\ Len(pending) <= MaxLate
  /\ IF pending # <<>>
     THEN Lost(Current, {[dev |-> "proto"] : x \in {"control"} \intersect {Current.call.op}},
               FALSE)
     ELSE Answered(Current, [dev |-> dev, reply |-> [code |-> "TIMEOUT"]])
  /\ waiting' = FALSE
  /\ UNCHANGED <<channelVars, transport, suite, verbosity, saved, late, stale>>

LocalStep ==
  /\ Running /\ ~IsExchange
  /\ pc' = pc + 1
  /\ \/ Current.call.op = "lower" /\ verbosity' = verbosity - 1 /\ UNCHANGED pending
     \/ Current.call.op = "restore" /\ verbosity' = saved /\ UNCHANGED pending
     \/ Current.call.op = "drain" /\ UNCHANGED verbosity
          /\ pending' \in IF transport = "ahdlc" THEN Unread ELSE {pending}
  /\ UNCHANGED <<dev, fault, test, phase, fatal, failed, lost, replies, transport,
                 suite, waiting, saved, late, stale>>

\* The harness is destroyed at the end of TearDownTestCase.
EndPhase ==
  /\ EndOfPhase(Program)
  /\ suite' = IF phase = "body" /\ test = "TearDownTestCase" THEN "none" ELSE suite
  /\ UNCHANGED <<channelVars, transport, waiting, verbosity, saved, late, stale>>

Next ==
  \/ \E s \in {"NuggetOsTest", "DcryptoTest"} : SetUpTestCase(s)
  \/ \E t \in DOMAIN Body : Start(t)
  \/ Send \/ Get \/ Timeout \/ LocalStep \/ EndPhase

Spec == Init /\ [][Next]_vars

----------------------------------------------------------------------------
(* Properties                                                               *)

\* The type of every variable.
TypeOK ==
  /\ GTestTypeOK(DOMAIN Body)
  /\ dev \in {"console", "proto"} /\ fault \in Aspects \union {"none"}
  /\ Len(pending) <= MaxLate + 1 /\ Len(replies) <= 1
  /\ \A i \in DOMAIN pending : pending[i].op \in Ops
  /\ transport \in {"spi", "ahdlc"}
  /\ suite \in {"none", "NuggetOsTest", "DcryptoTest"}
  /\ waiting \in BOOLEAN /\ late \in BOOLEAN /\ stale \in BOOLEAN
  /\ {verbosity, saved} \subseteq -(MaxDrop + 1) .. 0

\* No test fails on a firmware that answers rightly if no reply came late, in
\* the test or from the tests before it.  Over SPI late replies of earlier
\* tests do no harm at all.  DcryptoTest is left out over the UART, where it
\* never leaves the console (src/src/aes-cmac-tests.cc:62).
NoFalseAlarm ==
  (/\ fault = "none" /\ lost = 0 /\ (transport = "spi" \/ ~late)
   /\ (test = "AesCmacRfc4493Test" => transport = "spi"))
  => ~failed

\* A reply that is not the answer to the test's last request makes Echo and
\* AesCbc fail.  (The other tests cannot tell: their requests are all alike,
\* or are so again when the test is repeated.)
StaleReplyIsNoticed ==
  (phase = "idle" /\ stale /\ test \in {"Echo", "AesCbc"}) => failed

\* What no test looks at: the type of the echo, how many bytes of the sequence
\* came back and how many bytes a CMAC has.
Unnoticed == {<<"Echo", "type">>, <<"Sequence", "size">>, <<"AesCmacRfc4493Test", "size">>}

\* The aspects of the replies a test is about.
About(t) ==
  CASE t \in {"NoticePing", "InvalidMessageType"} -> AspectsOf["NOTICE"]
    [] t \in {"Sequence", "Echo"} -> AspectsOf["ECHO_THIS"]
    [] t = "Trng" -> Aspects \ {"result"}
    [] OTHER -> Aspects

\* A firmware that gets something wrong in its replies never passes a test
\* that is about it, whichever late replies the test takes for its own.
FaultDetected ==
  (phase = "idle" /\ test \in Tests /\ fault \in About(test)
     /\ <<test, fault>> \notin Unnoticed) => failed
=============================================================================
