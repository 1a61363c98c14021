-------------------------- MODULE ProtoTestsProofs --------------------------
(* Whatever replies are late and whichever calls are lost, for any number   *)
(* of keys, rounds and vectors: what the protobuf tests notice, and what    *)
(* they do not blame the firmware for.                                      *)
EXTENDS ProtoTests, TLAPS

\* What is sent, and what is still to be answered.
Message == [op : Ops, data : Nat]

\* The control of gtest, and where a request may be under way.
ControlInv ==
  /\ test \in Tests \union {"TearDownTestCase"} /\ phase \in {"idle", "setup", "body"}
  /\ transport \in {"spi", "ahdlc"} /\ suite \in {"none", "NuggetOsTest", "DcryptoTest"}
  /\ pc \in Nat \ {0} /\ lost \in Nat
  /\ pending \in Seq(Message)
  /\ suite = "none" => phase = "idle" /\ test = "TearDownTestCase"
  /\ phase # "idle" /\ test \in Tests => SuiteOf[test] = suite
  /\ phase = "setup" => pc = 1 /\ ~fatal
  /\ waiting => phase = "body" /\ pc <= Len(Program) /\ Current.call.op \in Ops

----------------------------------------------------------------------------
(* The parts of the invariant that the properties need.                     *)

StaleInv == stale /\ test \in {"Echo", "AesCbc"} => failed

\* The first exchange of a test.
First(t) == IF t = "AesGcm" THEN 3 ELSE IF t = "AesCmacRfc4493Test" THEN 2 ELSE 1

\* The firmware gets something wrong that the test compares.
Blamed == fault \in About(test) /\ <<test, fault>> \notin Unnoticed

\* Behind its first exchange the test has failed.
FaultInv ==
  test \in Tests /\ Blamed /\ (phase = "idle" \/ (phase = "body" /\ pc > First(test)))
    => failed

\* TearDownTestCase has sent the request for the console.
Ending == test = "TearDownTestCase" /\ phase = "body" /\ ((pc = 2 /\ waiting) \/ pc = 3)

\* Over the UART the firmware speaks the protobuf protocol.
ReachInv == transport = "ahdlc" /\ suite = "NuggetOsTest" /\ ~Ending => dev = "proto"

\* The last reply to come is the one that is waited for.
LastInv ==
  waiting /\ (transport = "spi" \/ suite = "NuggetOsTest") =>
    pending # <<>> /\ pending[Len(pending)] = Current.call

\* Without late replies or lost calls it is the only one.
OnlyInv ==
  (phase # "idle" /\ transport = "ahdlc" /\ suite = "NuggetOsTest" /\ ~late /\ lost = 0)
    => Len(pending) = IF waiting THEN 1 ELSE 0

IInv ==
  /\ ControlInv /\ StaleInv /\ FaultInv
  /\ ReachInv /\ LastInv /\ OnlyInv /\ NoFalseAlarm

----------------------------------------------------------------------------
(* The programs of the tests.                                               *)

OpOf ==
  [NoticePing |-> "ping", InvalidMessageType |-> "invalid", Sequence |-> "sequence",
   Echo |-> "echo", AesCbc |-> "cbc", Trng |-> "trng", AesGcm |-> "gcm",
   AesCmacRfc4493Test |-> "cmac"]

AssertsOf(t) ==
  CASE t \in {"NoticePing", "InvalidMessageType"} -> {"type", "parse"}
    [] t = "Sequence" -> {"type", "data"}
    [] t = "Echo" -> {"size", "data"}
    [] t = "Trng" -> {"type", "parse", "size"}
    [] t \in {"AesCbc", "AesGcm"} -> {"type", "parse", "size", "data"}
    [] t = "AesCmacRfc4493Test" -> {"type", "parse", "data"}

ExpectsOf(t) ==
  CASE t \in {"NoticePing", "InvalidMessageType"} -> {"result"}
    [] t \in {"Sequence", "Echo"} -> {}
    [] t = "Trng" -> {"subtype", "data"}
    [] t \in {"AesCbc", "AesGcm", "AesCmacRfc4493Test"} -> {"subtype", "result"}

Length(t) ==
  CASE t = "NoticePing" -> 3
    [] t = "AesCbc" -> Len(KeySizes)
    [] t = "Trng" -> Repeats + 2
    [] t = "AesGcm" -> Vectors + 4
    [] t = "AesCmacRfc4493Test" -> Vectors + 2
    [] OTHER -> 1

\* What the test does at the i-th step.
Does(t, i) ==
  CASE t = "Trng" /\ i = 2 -> "lower"
    [] t = "Trng" /\ i = Repeats + 2 -> "restore"
    [] t = "AesGcm" /\ i = 1 -> "lower"
    [] t = "AesGcm" /\ i \in {2, Vectors + 3} -> "drain"
    [] t = "AesGcm" /\ i = Vectors + 4 -> "restore"
    [] t = "AesCmacRfc4493Test" /\ i = 1 -> "lower"
    [] t = "AesCmacRfc4493Test" /\ i = Vectors + 2 -> "restore"
    [] OTHER -> "exchange"

IsExchangeOf(t, s) ==
  /\ s.call \in Message /\ s.call.op = OpOf[t]
  /\ s.must = Received(AssertsOf(t)) /\ s.should = Right(ExpectsOf(t)) /\ s.skip \in Nat

\* The program of a test.
IsProgram(t, p) ==
  /\ Len(p) = Length(t)
  /\ \A i \in 1 .. Length(t) :
       IF Does(t, i) = "exchange" THEN IsExchangeOf(t, p[i]) ELSE p[i].call.op = Does(t, i)

\* The constants.
LEMMA Constants ==
  /\ KeySizes \in Seq(Nat) /\ Len(KeySizes) \in Nat \ {0}
  /\ Repeats \in Nat \ {0} /\ Vectors \in Nat \ {0} /\ TheRest \in Nat
BY ProtoTestsAssumption DEF TheRest, ABORT

\* The fields of the steps.
LEMMA ExchangeFields ==
  ASSUME NEW op, NEW data, NEW A, NEW E
  PROVE  /\ Exchange(op, data, A, E).call = [op |-> op, data |-> data]
         /\ Exchange(op, data, A, E).must = Received(A)
         /\ Exchange(op, data, A, E).should = Right(E)
         /\ Exchange(op, data, A, E).skip = TheRest
BY DEF Exchange, Step

LEMMA LocalFields ==
  /\ LowerVerbosity.call.op = "lower" /\ RestoreVerbosity.call.op = "restore"
  /\ ReadUntil.call.op = "drain"
BY DEF LowerVerbosity, RestoreVerbosity, ReadUntil, Local, Step

\* A loop with something before and something behind it.
LEMMA Wrapped ==
  ASSUME NEW S, NEW a \in Seq(S), NEW f \in Seq(S), NEW b \in Seq(S)
  PROVE  /\ Len(a \o f \o b) = Len(a) + Len(f) + Len(b)
         /\ \A i \in 1 .. Len(a) : (a \o f \o b)[i] = a[i]
         /\ \A i \in 1 .. Len(f) : (a \o f \o b)[Len(a) + i] = f[i]
         /\ \A i \in 1 .. Len(b) : (a \o f \o b)[Len(a) + Len(f) + i] = b[i]
<1>1. a \o f \in Seq(S) /\ Len(a \o f) = Len(a) + Len(f)
  OBVIOUS
<1>2. Len(a) \in Nat /\ Len(b) \in Nat /\ Len(f) \in Nat
  OBVIOUS
<1>3. \A i \in 1 .. Len(a) : (a \o f)[i] = a[i]
  OBVIOUS
<1>4. \A i \in 1 .. Len(f) : (a \o f)[Len(a) + i] = f[i]
  BY <1>2
<1>5. PICK g \in Seq(S) : g = a \o f
  BY <1>1
<1>6. /\ Len(g \o b) = Len(g) + Len(b)
      /\ \A i \in 1 .. Len(g) : (g \o b)[i] = g[i]
      /\ \A i \in 1 .. Len(b) : (g \o b)[Len(g) + i] = b[i]
  BY <1>2
<1> QED  BY <1>1, <1>2, <1>3, <1>4, <1>5, <1>6

\* An exchange of the test t.
LEMMA ExchangeOf ==
  ASSUME NEW t \in Tests, NEW d \in Nat
  PROVE  IsExchangeOf(t, Exchange(OpOf[t], d, AssertsOf(t), ExpectsOf(t)))
<1>1. OpOf[t] \in Ops
  BY DEF Tests, SuiteOf, OpOf, Ops, Type
<1>2. [op |-> OpOf[t], data |-> d] \in Message
  BY <1>1 DEF Message
<1> QED  BY <1>2, ExchangeFields, Constants DEF IsExchangeOf

LEMMA ShortPrograms ==
  /\ IsProgram("NoticePing", NoticePing)
  /\ IsProgram("InvalidMessageType", InvalidMessageType)
  /\ IsProgram("Sequence", Sequence)
  /\ IsProgram("Echo", Echo)
  /\ IsProgram("AesCbc", AesCbc)
<1>1. ASSUME NEW t \in {"NoticePing", "InvalidMessageType", "Sequence", "Echo", "AesCbc"},
             NEW p, Len(p) = Length(t), Length(t) \in Nat,
             \A i \in 1 .. Length(t) :
               \E d \in Nat : p[i] = Exchange(OpOf[t], d, AssertsOf(t), ExpectsOf(t))
      PROVE  IsProgram(t, p)
  <2>1. t \in Tests
    BY DEF Tests, SuiteOf
  <2>2. \A i \in 1 .. Length(t) : Does(t, i) = "exchange"
    BY DEF Does
  <2> QED  BY <1>1, <2>1, <2>2, ExchangeOf DEF IsProgram
<1>2. IsProgram("NoticePing", NoticePing)
  <2>1. Length("NoticePing") = 3
    BY DEF Length
  <2>2. Len(NoticePing) = 3
    BY DEF NoticePing
  <2>3. \A i \in 1 .. 3 : NoticePing[i] = Exchange(OpOf["NoticePing"], 0,
                                     AssertsOf("NoticePing"), ExpectsOf("NoticePing"))
    BY DEF NoticePing, OpOf, AssertsOf, ExpectsOf
  <2>4. \A i \in 1 .. Length("NoticePing") :
          \E d \in Nat : NoticePing[i] = Exchange(OpOf["NoticePing"], d, AssertsOf("NoticePing"), ExpectsOf("NoticePing"))
    BY <2>1, <2>3
  <2>5. Len(NoticePing) = Length("NoticePing") /\ Length("NoticePing") \in Nat
    BY <2>1, <2>2
  <2> QED  BY <1>1, <2>4, <2>5, Zenon
<1>3. IsProgram("InvalidMessageType", InvalidMessageType)
  <2>1. Length("InvalidMessageType") = 1
    BY DEF Length
  <2>2. Len(InvalidMessageType) = 1
    BY DEF InvalidMessageType
  <2>3. \A i \in 1 .. 1 :
          InvalidMessageType[i] = Exchange(OpOf["InvalidMessageType"], 0,
                         AssertsOf("InvalidMessageType"), ExpectsOf("InvalidMessageType"))
    BY DEF InvalidMessageType, OpOf, AssertsOf, ExpectsOf
  <2>4. \A i \in 1 .. Length("InvalidMessageType") :
          \E d \in Nat : InvalidMessageType[i] = Exchange(OpOf["InvalidMessageType"], d, AssertsOf("InvalidMessageType"), ExpectsOf("InvalidMessageType"))
    BY <2>1, <2>3
  <2>5. Len(InvalidMessageType) = Length("InvalidMessageType") /\ Length("InvalidMessageType") \in Nat
    BY <2>1, <2>2
  <2> QED  BY <1>1, <2>4, <2>5, Zenon
<1>4. IsProgram("Sequence", Sequence)
  <2>1. Length("Sequence") = 1
    BY DEF Length
  <2>2. Len(Sequence) = 1
    BY DEF Sequence
  <2>3. \A i \in 1 .. 1 :
          Sequence[i] = Exchange(OpOf["Sequence"], 0,
                         AssertsOf("Sequence"), ExpectsOf("Sequence"))
    BY DEF Sequence, OpOf, AssertsOf, ExpectsOf
  <2>4. \A i \in 1 .. Length("Sequence") :
          \E d \in Nat : Sequence[i] = Exchange(OpOf["Sequence"], d, AssertsOf("Sequence"), ExpectsOf("Sequence"))
    BY <2>1, <2>3
  <2>5. Len(Sequence) = Length("Sequence") /\ Length("Sequence") \in Nat
    BY <2>1, <2>2
  <2> QED  BY <1>1, <2>4, <2>5, Zenon
<1>5. IsProgram("Echo", Echo)
  <2>1. Length("Echo") = 1
    BY DEF Length
  <2>2. Len(Echo) = 1
    BY DEF Echo
  <2>3. \A i \in 1 .. 1 :
          Echo[i] = Exchange(OpOf["Echo"], 0,
                         AssertsOf("Echo"), ExpectsOf("Echo"))
    BY DEF Echo, OpOf, AssertsOf, ExpectsOf
  <2>4. \A i \in 1 .. Length("Echo") :
          \E d \in Nat : Echo[i] = Exchange(OpOf["Echo"], d, AssertsOf("Echo"), ExpectsOf("Echo"))
    BY <2>1, <2>3
  <2>5. Len(Echo) = Length("Echo") /\ Length("Echo") \in Nat
    BY <2>1, <2>2
  <2> QED  BY <1>1, <2>4, <2>5, Zenon
<1>6. IsProgram("AesCbc", AesCbc)
  <2>1. Length("AesCbc") = Len(KeySizes) /\ Len(KeySizes) \in Nat
    BY Constants DEF Length
  <2>2. KeySizes \in [1 .. Len(KeySizes) -> Nat] /\ DOMAIN KeySizes = 1 .. Len(KeySizes)
    BY Constants
  <2>3. Len(AesCbc) = Len(KeySizes)
    BY <2>1, <2>2 DEF AesCbc
  <2>4. \A i \in 1 .. Len(KeySizes) :
          AesCbc[i] = Exchange(OpOf["AesCbc"], KeySizes[i],
                         AssertsOf("AesCbc"), ExpectsOf("AesCbc"))
    BY <2>2 DEF AesCbc, OpOf, AssertsOf, ExpectsOf
  <2> QED  BY <1>1, <2>1, <2>2, <2>3, <2>4
<1> QED  BY <1>2, <1>3, <1>4, <1>5, <1>6

LEMMA TrngProgram == IsProgram("Trng", Trng)
<1>1. PICK e, l, r : e = TrngExchange /\ l = LowerVerbosity /\ r = RestoreVerbosity
  OBVIOUS
<1>2. PICK n \in Nat : n = Repeats - 1
  BY Constants
<1>3. PICK f : f = [i \in 1 .. n |-> e]
  OBVIOUS
<1>4. f \in Seq({e, l, r}) /\ Len(f) = n /\ \A i \in 1 .. n : f[i] = e
  BY <1>3
<1>5. Trng = <<e, l>> \o f \o <<r>>
  BY <1>1, <1>2, <1>3, Zenon DEF Trng
<1>6. <<e, l>> \in Seq({e, l, r}) /\ <<r>> \in Seq({e, l, r})
  OBVIOUS
<1>7. /\ Len(Trng) = n + 3 /\ Trng[1] = e /\ Trng[2] = l /\ Trng[n + 3] = r
      /\ \A i \in 1 .. n : Trng[2 + i] = e
  <2>1. /\ Len(Trng) = Len(<<e, l>>) + Len(f) + Len(<<r>>)
        /\ \A i \in 1 .. Len(<<e, l>>) : Trng[i] = <<e, l>>[i]
        /\ \A i \in 1 .. Len(f) : Trng[Len(<<e, l>>) + i] = f[i]
        /\ \A i \in 1 .. Len(<<r>>) : Trng[Len(<<e, l>>) + Len(f) + i] = <<r>>[i]
    BY <1>4, <1>5, <1>6, Wrapped
  <2>2. Len(<<e, l>>) = 2 /\ Len(<<r>>) = 1
    OBVIOUS
  <2>3. \A i \in 1 .. 2 : Trng[i] = <<e, l>>[i]
    BY <2>1, <2>2
  <2>4. Trng[1] = e /\ Trng[2] = l
    BY <2>3
  <2>5. \A i \in 1 .. 1 : Trng[2 + n + i] = <<r>>[i]
    BY <1>4, <2>1, <2>2
  <2>6. Trng[2 + n + 1] = r /\ 2 + n + 1 = n + 3
    BY <2>5
  <2>7. Len(Trng) = n + 3 /\ \A i \in 1 .. n : Trng[2 + i] = f[i]
    BY <1>4, <2>1, <2>2
  <2> QED  BY <1>4, <2>4, <2>6, <2>7
<1>8. \A i \in 1 .. n + 3 : i = 1 \/ i = 2 \/ i = n + 3 \/ \E j \in 1 .. n : i = 2 + j
  <2> TAKE i \in 1 .. n + 3
  <2>1. CASE i > 2 /\ i < n + 3
    <3>1. i - 2 \in 1 .. n /\ i = 2 + (i - 2)
      BY <2>1
    <3> QED  BY <3>1
  <2> QED  BY <2>1
<1>9. IsExchangeOf("Trng", e)
  <2>1. e = Exchange(OpOf["Trng"], 0, AssertsOf("Trng"), ExpectsOf("Trng"))
    BY <1>1 DEF TrngExchange, OpOf, AssertsOf, ExpectsOf
  <2>2. "Trng" \in Tests
    BY DEF Tests, SuiteOf
  <2> QED  BY <2>1, <2>2, ExchangeOf
<1>10. Length("Trng") = n + 3 /\ Repeats + 2 = n + 3
  BY <1>2, Constants DEF Length
<1>11. ASSUME NEW i \in 1 .. n + 3
       PROVE  IF Does("Trng", i) = "exchange" THEN IsExchangeOf("Trng", Trng[i])
              ELSE Trng[i].call.op = Does("Trng", i)
  <2>1. CASE i = 2
    <3>1. Does("Trng", i) = "lower"
      BY <2>1, Constants DEF Does
    <3> QED  BY <1>1, <1>7, <2>1, <3>1, LocalFields
  <2>2. CASE i = n + 3
    <3>1. Does("Trng", i) = "restore"
      BY <1>10, <2>2 DEF Does
    <3> QED  BY <1>1, <1>7, <2>2, <3>1, LocalFields
  <2>3. CASE i # 2 /\ i # n + 3
    <3>1. Does("Trng", i) = "exchange"
      BY <1>10, <2>3 DEF Does
    <3>2. Trng[i] = e
      BY <1>7, <1>8, <2>3
    <3> QED  BY <1>9, <3>1, <3>2
  <2> QED  BY <2>1, <2>2, <2>3
<1> QED  BY <1>7, <1>10, <1>11, Zenon DEF IsProgram

LEMMA AesGcmProgram == IsProgram("AesGcm", AesGcm)
<1>1. PICK n \in Nat \ {0} : n = Vectors
  BY Constants
<1>2. PICK l, d, r : l = LowerVerbosity /\ d = ReadUntil /\ r = RestoreVerbosity
  OBVIOUS
<1>3. PICK f : f = [i \in 1 .. n |->
                      Exchange("gcm", i, {"type", "parse", "size", "data"}, {"subtype", "result"})]
  OBVIOUS
<1>4. PICK S : S = {l, d, r} \union {f[i] : i \in 1 .. n}
  OBVIOUS
<1>5. f \in Seq(S) /\ Len(f) = n
  <2>1. f = [i \in 1 .. n |-> f[i]]
    BY <1>3
  <2> QED  BY <1>4, <2>1
<1>6. AesGcm = <<l, d>> \o f \o <<d, r>>
  BY <1>1, <1>2, <1>3, Zenon DEF AesGcm
<1>7. <<l, d>> \in Seq(S) /\ <<d, r>> \in Seq(S)
  BY <1>4
<1>8. /\ Len(AesGcm) = n + 4
      /\ AesGcm[1] = l /\ AesGcm[2] = d /\ AesGcm[n + 3] = d /\ AesGcm[n + 4] = r
      /\ \A i \in 1 .. n : AesGcm[2 + i] = f[i]
  <2>1. /\ Len(AesGcm) = Len(<<l, d>>) + Len(f) + Len(<<d, r>>)
        /\ \A i \in 1 .. Len(<<l, d>>) : AesGcm[i] = <<l, d>>[i]
        /\ \A i \in 1 .. Len(f) : AesGcm[Len(<<l, d>>) + i] = f[i]
        /\ \A i \in 1 .. Len(<<d, r>>) :
             AesGcm[Len(<<l, d>>) + Len(f) + i] = <<d, r>>[i]
    BY <1>5, <1>6, <1>7, Wrapped
  <2>2. Len(<<l, d>>) = 2 /\ Len(<<d, r>>) = 2
    OBVIOUS
  <2>3. \A i \in 1 .. 2 : AesGcm[i] = <<l, d>>[i]
    BY <2>1, <2>2
  <2>4. AesGcm[1] = l /\ AesGcm[2] = d
    BY <2>3
  <2>5. \A i \in 1 .. 2 : AesGcm[2 + n + i] = <<d, r>>[i]
    BY <1>5, <2>1, <2>2
  <2>6. AesGcm[2 + n + 1] = d /\ AesGcm[2 + n + 2] = r
    BY <2>5
  <2>7. 2 + n + 1 = n + 3 /\ 2 + n + 2 = n + 4
    OBVIOUS
  <2>8. Len(AesGcm) = n + 4 /\ \A i \in 1 .. n : AesGcm[2 + i] = f[i]
    BY <1>5, <2>1, <2>2
  <2> QED  BY <2>4, <2>6, <2>7, <2>8
<1>9. \A i \in 1 .. n : IsExchangeOf("AesGcm", f[i])
  <2>1. \A i \in 1 .. n :
          f[i] = Exchange(OpOf["AesGcm"], i, AssertsOf("AesGcm"), ExpectsOf("AesGcm"))
    BY <1>3 DEF OpOf, AssertsOf, ExpectsOf
  <2>2. "AesGcm" \in Tests
    BY DEF Tests, SuiteOf
  <2> QED  BY <2>1, <2>2, ExchangeOf
<1>10. Length("AesGcm") = n + 4
  BY <1>1 DEF Length
<1>11. ASSUME NEW i \in 1 .. n + 4
       PROVE  IF Does("AesGcm", i) = "exchange" THEN IsExchangeOf("AesGcm", AesGcm[i])
              ELSE AesGcm[i].call.op = Does("AesGcm", i)
  <2>1. CASE i = 1
    <3>1. Does("AesGcm", i) = "lower"
      BY <2>1, Constants DEF Does
    <3> QED  BY <1>2, <1>8, <2>1, <3>1, LocalFields
  <2>2. CASE i = 2 \/ i = n + 3
    <3>1. Does("AesGcm", i) = "drain"
      BY <1>1, <2>2 DEF Does
    <3> QED  BY <1>2, <1>8, <2>2, <3>1, LocalFields
  <2>3. CASE i = n + 4
    <3>1. Does("AesGcm", i) = "restore"
      BY <1>1, <2>3 DEF Does
    <3> QED  BY <1>2, <1>8, <2>3, <3>1, LocalFields
  <2>4. CASE i > 2 /\ i < n + 3
    <3>1. Does("AesGcm", i) = "exchange"
      BY <1>1, <2>4 DEF Does
    <3>2. i - 2 \in 1 .. n /\ AesGcm[i] = f[i - 2]
      <4>1. i - 2 \in 1 .. n /\ i = 2 + (i - 2)
        BY <2>4
      <4> QED  BY <1>8, <4>1
    <3> QED  BY <1>9, <3>1, <3>2
  <2> QED  BY <2>1, <2>2, <2>3, <2>4
<1> QED  BY <1>8, <1>10, <1>11, Zenon DEF IsProgram

LEMMA AesCmacProgram == IsProgram("AesCmacRfc4493Test", AesCmacRfc4493Test)
<1>1. PICK n \in Nat \ {0} : n = Vectors
  BY Constants
<1>2. PICK l, r : l = LowerVerbosity /\ r = RestoreVerbosity
  OBVIOUS
<1>3. PICK f : f = [i \in 1 .. n |->
                      Exchange("cmac", i, {"type", "parse", "data"}, {"subtype", "result"})]
  OBVIOUS
<1>4. PICK S : S = {l, r} \union {f[i] : i \in 1 .. n}
  OBVIOUS
<1>5. f \in Seq(S) /\ Len(f) = n
  <2>1. f = [i \in 1 .. n |-> f[i]]
    BY <1>3
  <2> QED  BY <1>4, <2>1
<1>6. AesCmacRfc4493Test = <<l>> \o f \o <<r>>
  BY <1>1, <1>2, <1>3, Zenon DEF AesCmacRfc4493Test
<1>7. <<l>> \in Seq(S) /\ <<r>> \in Seq(S)
  BY <1>4
<1>8. /\ Len(AesCmacRfc4493Test) = n + 2
      /\ AesCmacRfc4493Test[1] = l /\ AesCmacRfc4493Test[n + 2] = r
      /\ \A i \in 1 .. n : AesCmacRfc4493Test[1 + i] = f[i]
  <2>1. /\ Len(AesCmacRfc4493Test) = Len(<<l>>) + Len(f) + Len(<<r>>)
        /\ \A i \in 1 .. Len(<<l>>) : AesCmacRfc4493Test[i] = <<l>>[i]
        /\ \A i \in 1 .. Len(f) : AesCmacRfc4493Test[Len(<<l>>) + i] = f[i]
        /\ \A i \in 1 .. Len(<<r>>) :
             AesCmacRfc4493Test[Len(<<l>>) + Len(f) + i] = <<r>>[i]
    BY <1>5, <1>6, <1>7, Wrapped
  <2>2. Len(<<l>>) = 1 /\ Len(<<r>>) = 1
    OBVIOUS
  <2>3. \A i \in 1 .. 1 : AesCmacRfc4493Test[i] = <<l>>[i]
    BY <2>1, <2>2
  <2>4. AesCmacRfc4493Test[1] = l
    BY <2>3
  <2>5. \A i \in 1 .. 1 : AesCmacRfc4493Test[1 + n + i] = <<r>>[i]
    BY <1>5, <2>1, <2>2
  <2>6. AesCmacRfc4493Test[1 + n + 1] = r /\ 1 + n + 1 = n + 2
    BY <2>5
  <2>7. Len(AesCmacRfc4493Test) = n + 2 /\ \A i \in 1 .. n : AesCmacRfc4493Test[1 + i] = f[i]
    BY <1>5, <2>1, <2>2
  <2> QED  BY <2>4, <2>6, <2>7
<1>9. \A i \in 1 .. n : IsExchangeOf("AesCmacRfc4493Test", f[i])
  <2>1. \A i \in 1 .. n :
          f[i] = Exchange(OpOf["AesCmacRfc4493Test"], i, AssertsOf("AesCmacRfc4493Test"),
                          ExpectsOf("AesCmacRfc4493Test"))
    BY <1>3 DEF OpOf, AssertsOf, ExpectsOf
  <2>2. "AesCmacRfc4493Test" \in Tests
    BY DEF Tests, SuiteOf
  <2> QED  BY <2>1, <2>2, ExchangeOf
<1>10. Length("AesCmacRfc4493Test") = n + 2
  BY <1>1 DEF Length
<1>11. ASSUME NEW i \in 1 .. n + 2
       PROVE  IF Does("AesCmacRfc4493Test", i) = "exchange"
              THEN IsExchangeOf("AesCmacRfc4493Test", AesCmacRfc4493Test[i])
              ELSE AesCmacRfc4493Test[i].call.op = Does("AesCmacRfc4493Test", i)
  <2>1. CASE i = 1
    <3>1. Does("AesCmacRfc4493Test", i) = "lower"
      BY <2>1, Constants DEF Does
    <3> QED  BY <1>2, <1>8, <2>1, <3>1, LocalFields
  <2>2. CASE i = n + 2
    <3>1. Does("AesCmacRfc4493Test", i) = "restore"
      BY <1>1, <2>2 DEF Does
    <3> QED  BY <1>2, <1>8, <2>2, <3>1, LocalFields
  <2>3. CASE i > 1 /\ i < n + 2
    <3>1. Does("AesCmacRfc4493Test", i) = "exchange"
      BY <1>1, <2>3 DEF Does
    <3>2. i - 1 \in 1 .. n /\ AesCmacRfc4493Test[i] = f[i - 1]
      <4>1. i - 1 \in 1 .. n /\ i = 1 + (i - 1)
        BY <2>3
      <4> QED  BY <1>8, <4>1
    <3> QED  BY <1>9, <3>1, <3>2
  <2> QED  BY <2>1, <2>2, <2>3
<1> QED  BY <1>8, <1>10, <1>11, Zenon DEF IsProgram

\* The program of every test.
LEMMA Programs ==
  ASSUME NEW t \in Tests
  PROVE  IsProgram(t, Body[t])
BY ShortPrograms, TrngProgram, AesGcmProgram, AesCmacProgram DEF Tests, SuiteOf, Body

\* Its length.
LEMMA Lengths ==
  ASSUME NEW t \in Tests
  PROVE  Length(t) \in Nat /\ Length(t) >= First(t) /\ First(t) \in 1 .. 3
BY Constants DEF Tests, SuiteOf, Length, First

----------------------------------------------------------------------------
(* What a test finds in a reply.                                            *)

\* Every aspect of the replies to a test is one of the six.
LEMMA ComparedAspects ==
  ASSUME NEW t \in Tests
  PROVE  AssertsOf(t) \subseteq Aspects /\ ExpectsOf(t) \subseteq Aspects
BY DEF Tests, SuiteOf, AssertsOf, ExpectsOf, Aspects

\* A reply with nothing wrong meets what is asserted and expected of it.
LEMMA RightReply ==
  ASSUME NEW A, A \subseteq Aspects
  PROVE  Meets(Reply({}), Received(A)) /\ Meets(Reply({}), Right(A))
<1>1. "code" \notin Aspects
  BY DEF Aspects
<1>2. DOMAIN Reply({}) = {"code"} \union Aspects
  BY DEF Reply
<1>3. Reply({})["code"] = "OK" /\ \A x \in Aspects : Reply({})[x] = TRUE
  BY <1>1 DEF Reply
<1>4. /\ DOMAIN Received(A) = {"code"} \union A /\ Received(A)["code"] = {"OK"}
      /\ \A x \in A : Received(A)[x] = {TRUE}
  BY <1>1 DEF Received
<1>5. DOMAIN Right(A) = A /\ \A x \in A : Right(A)[x] = {TRUE}
  BY DEF Right
<1>6. Meets(Reply({}), Received(A))
  BY <1>2, <1>3, <1>4 DEF Meets
<1>7. Meets(Reply({}), Right(A))
  BY <1>2, <1>3, <1>5 DEF Meets
<1> QED  BY <1>6, <1>7

\* One with something wrong that is compared does not.
LEMMA WrongReply ==
  ASSUME NEW A, NEW wrong, NEW x \in Aspects, x \in wrong, x \in A
  PROVE  ~Meets(Reply(wrong), Received(A)) /\ ~Meets(Reply(wrong), Right(A))
<1>1. x # "code"
  BY DEF Aspects
<1>2. Reply(wrong)[x] = FALSE
  BY <1>1 DEF Reply
<1>3. x \in DOMAIN Received(A) /\ Received(A)[x] = {TRUE}
  BY <1>1 DEF Received
<1>4. x \in DOMAIN Right(A) /\ Right(A)[x] = {TRUE}
  BY DEF Right
<1>5. FALSE \notin {TRUE}
  OBVIOUS
<1> QED  BY <1>2, <1>3, <1>4, <1>5 DEF Meets

\* Neither does an error.
LEMMA NoReply ==
  ASSUME NEW A, NEW c, c # "OK"
  PROVE  ~Meets([code |-> c], Received(A))
<1>1. "code" \in DOMAIN Received(A) /\ Received(A)["code"] = {"OK"}
  BY DEF Received
<1>2. [code |-> c]["code"] \notin {"OK"}
  OBVIOUS
<1> QED  BY <1>1, <1>2 DEF Meets

\* The firmware that answers rightly gives nothing wrong to the one who asked.
LEMMA OwnReply ==
  ASSUME NEW r \in Message, fault = "none"
  PROVE  Wrongs(r, r, TRUE) = {{}}
<1>1. Mismatch(r, r, TRUE) = {}
  BY DEF Mismatch
<1>2. AspectsOf[Type[r.op]] \intersect {fault} = {}
  <2>1. Type[r.op] \in {"NOTICE", "SEND_SEQUENCE", "ECHO_THIS", "TESTING_API_RESPONSE"}
    BY DEF Message, Ops, Type
  <2> QED  BY <2>1 DEF AspectsOf, Aspects
<1> QED  BY <1>1, <1>2 DEF Wrongs

\* Echo and AesCbc find other bytes in a reply that is not theirs.
LEMMA OthersReply ==
  ASSUME NEW r, NEW w, w.op \in {"echo", "cbc"}, NEW own, ~own, NEW wrong \in Wrongs(r, w, own)
  PROVE  "data" \in wrong
<1>1. Type[w.op] # "NOTICE"
  BY DEF Type
<1>2. "data" \in Mismatch(r, w, own)
  BY <1>1 DEF Mismatch, SameContents
<1> QED  BY <1>2 DEF Wrongs

\* What the firmware gets wrong, or what does not fit, is compared.
LEMMA FaultyReply ==
  ASSUME NEW t \in Tests, fault \in About(t), <<t, fault>> \notin Unnoticed,
         NEW r, NEW w, w.op = OpOf[t], NEW own, NEW wrong \in Wrongs(r, w, own)
  PROVE  \E x \in Aspects : x \in wrong /\ x \in AssertsOf(t) \union ExpectsOf(t)
<1>1. CASE Type[r.op] # Type[w.op]
  <2>1. {"type", "size", "data"} \subseteq wrong
    BY <1>1 DEF Wrongs, Mismatch
  <2>2. "type" \in AssertsOf(t) \/ "size" \in AssertsOf(t)
    BY DEF Tests, SuiteOf, AssertsOf
  <2> QED  BY <2>1, <2>2 DEF Aspects
<1>2. CASE Type[r.op] = Type[w.op]
  <2>1. fault \in AspectsOf[Type[OpOf[t]]] /\ fault \in AssertsOf(t) \union ExpectsOf(t)
    BY DEF Tests, SuiteOf, OpOf, Type, AspectsOf, Aspects, About, Unnoticed, AssertsOf, ExpectsOf
  <2>2. fault \in Aspects
    BY <2>1, ComparedAspects
  <2>3. fault \in wrong
    BY <1>2, <2>1 DEF Wrongs
  <2> QED  BY <2>1, <2>2, <2>3
<1> QED  BY <1>1, <1>2

----------------------------------------------------------------------------
(* The step a test is at.                                                   *)

\* The program of a phase.
LEMMA ProgramOf ==
  /\ phase = "body" => Program = Body[test]
  /\ phase # "body" => Program = <<>> /\ Len(Program) = 0
BY DEF Program

LEMMA TestStep ==
  ASSUME ControlInv, phase = "body", test \in Tests
  PROVE  /\ Len(Program) = Length(test) /\ Length(test) \in Nat
         /\ pc <= Len(Program) =>
              /\ pc \in 1 .. Length(test)
              /\ IF Does(test, pc) = "exchange" THEN IsExchangeOf(test, Current)
                 ELSE Current.call.op = Does(test, pc)
              /\ Current.call.op \in Ops <=> Does(test, pc) = "exchange"
<1>1. IsProgram(test, Program)
  BY ProgramOf, Programs
<1>2. Len(Program) = Length(test) /\ Length(test) \in Nat
  BY <1>1, Lengths DEF IsProgram
<1>3. ASSUME pc <= Len(Program)
      PROVE  /\ pc \in 1 .. Length(test)
             /\ IF Does(test, pc) = "exchange" THEN IsExchangeOf(test, Current)
                ELSE Current.call.op = Does(test, pc)
  <2>1. pc \in 1 .. Length(test)
    BY <1>2, <1>3 DEF ControlInv
  <2> QED  BY <1>1, <2>1 DEF IsProgram, Current
<1>4. Does(test, pc) \in {"lower", "restore", "drain", "exchange"}
  BY DEF Does
<1>5. {"lower", "restore", "drain"} \intersect Ops = {}
  BY DEF Ops, Type
<1>6. OpOf[test] \in Ops
  BY DEF Tests, SuiteOf, OpOf, Ops, Type
<1> QED  BY <1>2, <1>3, <1>4, <1>5, <1>6 DEF IsExchangeOf

LEMMA TearDownStep ==
  ASSUME ControlInv, phase = "body", test = "TearDownTestCase"
  PROVE  /\ Len(Program) \in {0, 2}
         /\ pc <= Len(Program) =>
              /\ transport = "ahdlc" /\ suite = "NuggetOsTest" /\ Len(Program) = 2
              /\ pc \in {1, 2}
              /\ pc = 1 => Current.call.op = "drain"
              /\ pc = 2 => /\ Current.call = [op |-> "control", data |-> 0]
                           /\ Current.must = Nothing /\ Current.should = Received({"type"})
                           /\ Current.skip = 0
<1>1. Program = TearDownTestCase
  BY ProgramOf DEF Body
<1>2. CASE transport = "ahdlc" /\ suite = "NuggetOsTest"
  <2>1. PICK d, c :
          /\ d = ReadUntil
          /\ c = Step([op |-> "control", data |-> 0], Nothing, Received({"type"}), 0)[1]
    OBVIOUS
  <2>2. Program = <<d, c>>
    BY <1>1, <1>2, <2>1, Zenon DEF TearDownTestCase
  <2>3. Len(Program) = 2 /\ Program[1] = d /\ Program[2] = c
    BY <2>2
  <2>4. /\ c.call = [op |-> "control", data |-> 0]
        /\ c.must = Nothing /\ c.should = Received({"type"}) /\ c.skip = 0
    BY <2>1 DEF Step
  <2>5. pc <= Len(Program) => pc \in {1, 2}
    BY <2>3 DEF ControlInv
  <2> QED  BY <1>2, <2>1, <2>3, <2>4, <2>5, LocalFields DEF Current
<1>3. CASE ~(transport = "ahdlc" /\ suite = "NuggetOsTest")
  <2>1. Program = <<>>
    BY <1>1, <1>3 DEF TearDownTestCase
  <2> QED  BY <2>1 DEF ControlInv
<1> QED  BY <1>2, <1>3
----------------------------------------------------------------------------
(* The actions.                                                             *)

\* A request is under way at a step that makes one, and the channel is the
\* only thing that changes.
LEMMA SendStep ==
  ASSUME ControlInv, Send
  PROVE  /\ phase = "body" /\ pc <= Len(Program) /\ Current.call.op \in Ops
         /\ Current.call \in Message /\ ~waiting /\ waiting'
         /\ Program' = Program /\ Current' = Current
         /\ UNCHANGED <<fault, test, phase, pc, fatal, failed, lost, transport, suite,
                        verbosity, saved, late, stale>>
         /\ pending' = IF Reachable THEN Append(pending, Current.call) ELSE pending
         /\ dev' = IF Current.call.op = "control" THEN "console" ELSE dev
<1>1. /\ UNCHANGED <<fault, test, phase, pc, fatal, failed, lost, transport, suite,
                     verbosity, saved, late, stale>>
      /\ ~waiting /\ waiting'
      /\ pending' = IF Reachable THEN Append(pending, Current.call) ELSE pending
      /\ dev' = IF Current.call.op = "control" THEN "console" ELSE dev
  BY DEF Send, SendData
<1>2. phase = "body" /\ pc <= Len(Program) /\ Current.call.op \in Ops
  BY ProgramOf DEF Send, Running, IsExchange, ControlInv
<1>3. Program' = Program /\ Current' = Current
  BY <1>1 DEF Program, Body, TearDownTestCase, Current
<1>4. Current.call \in Message
  <2>1. CASE test \in Tests
    BY <1>2, <2>1, TestStep DEF IsExchangeOf
  <2>2. CASE test = "TearDownTestCase"
    <3>1. "drain" \notin Ops /\ "control" \in Ops
      BY DEF Ops, Type
    <3>2. Current.call = [op |-> "control", data |-> 0]
      BY <1>2, <2>2, <3>1, TearDownStep
    <3> QED  BY <3>1, <3>2 DEF Message
  <2> QED  BY <2>1, <2>2 DEF ControlInv
<1> QED  BY <1>1, <1>2, <1>3, <1>4

\* A call returns: the test goes on if no ASSERT fails.
LEMMA ReturnStep ==
  ASSUME ControlInv, Get \/ Timeout
  PROVE  /\ phase = "body" /\ pc <= Len(Program) /\ Current.call.op \in Ops
         /\ waiting /\ ~waiting'
         /\ UNCHANGED <<fault, test, phase, transport, suite, verbosity, saved, late>>
         /\ pc' \in Nat \ {0} /\ (~fatal' => ~fatal /\ pc' = pc + 1)
         /\ lost' \in Nat /\ (lost' = 0 => lost = 0)
         /\ failed => failed'
         /\ pending' \in Seq(Message)
<1>1. /\ waiting /\ phase = "body" /\ pc <= Len(Program) /\ Current.call.op \in Ops
      /\ pc \in Nat \ {0} /\ lost \in Nat /\ pending \in Seq(Message)
  BY DEF ControlInv, Get, Timeout
<1>2. Current.skip \in Nat
  <2>1. CASE test \in Tests
    BY <1>1, <2>1, TestStep DEF IsExchangeOf
  <2>2. CASE test = "TearDownTestCase"
    <3>1. "drain" \notin Ops
      BY DEF Ops, Type
    <3> QED  BY <1>1, <2>2, <3>1, TearDownStep
  <2> QED  BY <2>1, <2>2 DEF ControlInv
<1>3. ASSUME NEW o, Answered(Current, o)
      PROVE  /\ UNCHANGED <<fault, test, phase, lost>>
             /\ pc' \in Nat \ {0} /\ (~fatal' => ~fatal /\ pc' = pc + 1)
             /\ failed => failed'
  <2>1. pc' = pc + 1 \/ pc' = pc + 1 + Current.skip
    BY <1>3 DEF Answered, After
  <2>2. pc' \in Nat \ {0}
    BY <1>1, <1>2, <2>1
  <2>3. ~fatal' => ~fatal /\ pc' = pc + 1
    BY <1>3 DEF Answered, After
  <2>4. UNCHANGED <<fault, test, phase, lost>> /\ (failed => failed')
    BY <1>3 DEF Answered
  <2> QED  BY <2>2, <2>3, <2>4
<1>4. ASSUME NEW O, Lost(Current, O, FALSE)
      PROVE  /\ UNCHANGED <<fault, test, phase>>
             /\ pc' \in Nat \ {0} /\ (~fatal' => ~fatal /\ pc' = pc + 1)
             /\ lost' = lost + 1 /\ (failed => failed')
  <2>1. pc' = pc + 1 \/ pc' = pc + 1 + Current.skip
    BY <1>4 DEF Lost, After
  <2>2. pc' \in Nat \ {0}
    BY <1>1, <1>2, <2>1
  <2>3. ~fatal' => ~fatal /\ pc' = pc + 1
    BY <1>4 DEF Lost, After
  <2>4. UNCHANGED <<fault, test, phase>> /\ lost' = lost + 1 /\ (failed => failed')
    BY <1>4 DEF Lost
  <2> QED  BY <2>2, <2>3, <2>4
<1>5. CASE Get
  <2>1. PICK i \in DOMAIN pending :
          /\ GetData(i)
          /\ \E wrong : Answered(Current, [dev |-> dev, reply |-> Reply(wrong)])
    BY <1>5 DEF Get
  <2>2. pending' \in Seq(Message)
    BY <1>1, <2>1 DEF GetData
  <2>3. ~waiting' /\ UNCHANGED <<transport, suite, verbosity, saved, late>>
    BY <1>5 DEF Get
  <2> QED  BY <1>1, <1>3, <2>1, <2>2, <2>3
<1>6. CASE Timeout
  <2>1. ~waiting' /\ UNCHANGED <<transport, suite, verbosity, saved, late>> /\ pending' = pending
    BY <1>6 DEF Timeout, channelVars
  <2>2. \/ \E O : Lost(Current, O, FALSE)
        \/ \E o : Answered(Current, o)
    BY <1>6 DEF Timeout
  <2>3. CASE \E O : Lost(Current, O, FALSE)
    <3>1. lost' = lost + 1
      BY <1>4, <2>3
    <3>2. lost' \in Nat /\ lost' # 0
      BY <1>1, <3>1
    <3> QED  BY <1>1, <1>4, <2>1, <2>3, <3>2
  <2>4. CASE \E o : Answered(Current, o)
    BY <1>1, <1>3, <2>1, <2>4
  <2> QED  BY <2>2, <2>3, <2>4
<1> QED  BY <1>5, <1>6

\* What is left of the replies.
LEMMA UnreadMessages ==
  ASSUME pending \in Seq(Message), NEW q \in Unread
  PROVE  q \in Seq(Message) /\ (pending = <<>> => q = <<>>)
<1>1. PICK i \in 1 .. Len(pending) + 1 : q = SubSeq(pending, i, Len(pending))
  BY DEF Unread
<1>2. Len(pending) \in Nat
  OBVIOUS
<1>3. \A j \in i .. Len(pending) : pending[j] \in Message
  BY <1>2
<1>4. q \in Seq(Message)
  BY <1>1, <1>2, <1>3
<1>5. pending = <<>> => q = <<>>
  BY <1>1
<1> QED  BY <1>4, <1>5

\* A step without a call: nothing is under way.
LEMMA LocalSteps ==
  ASSUME ControlInv, LocalStep
  PROVE  /\ phase = "body" /\ pc <= Len(Program) /\ Current.call.op \notin Ops
         /\ ~waiting /\ pc' = pc + 1
         /\ UNCHANGED <<dev, fault, test, phase, fatal, failed, lost, transport, suite,
                        waiting, saved, late, stale>>
         /\ Current.call.op = "lower" => verbosity' = verbosity - 1
         /\ Current.call.op = "restore" => verbosity' = saved
         /\ Current.call.op = "drain" => verbosity' = verbosity
         /\ pending' = pending \/ (transport = "ahdlc" /\ pending' \in Unread)
         /\ pending' \in Seq(Message)
<1>1. /\ pc' = pc + 1 /\ pc <= Len(Program) /\ phase # "idle" /\ Current.call.op \notin Ops
      /\ UNCHANGED <<dev, fault, test, phase, fatal, failed, lost, transport, suite,
                     waiting, saved, late, stale>>
      /\ Current.call.op = "lower" => verbosity' = verbosity - 1
      /\ Current.call.op = "restore" => verbosity' = saved
      /\ Current.call.op = "drain" => verbosity' = verbosity
      /\ pending' = pending \/ (transport = "ahdlc" /\ pending' \in Unread)
  BY DEF LocalStep, Running, IsExchange
<1>2. phase = "body" /\ ~waiting
  BY <1>1, ProgramOf DEF ControlInv
<1>3. pending \in Seq(Message)
  BY DEF ControlInv
<1>4. pending' \in Seq(Message)
  BY <1>1, <1>3, UnreadMessages
<1> QED  BY <1>1, <1>2, <1>4

\* The end of a phase: nothing is under way either.
LEMMA EndStep ==
  ASSUME ControlInv, EndPhase
  PROVE  /\ ~waiting /\ ~waiting' /\ pc' = 1
         /\ UNCHANGED <<dev, fault, test, fatal, failed, lost, pending, transport,
                        verbosity, saved, late, stale>>
         /\ \/ phase = "setup" /\ phase' = "body" /\ suite' = suite
            \/ /\ phase = "body" /\ phase' = "idle" /\ pc > Len(Program)
               /\ suite' = IF test = "TearDownTestCase" THEN "none" ELSE suite
<1>1. /\ UNCHANGED <<dev, fault, test, fatal, failed, lost, pending, transport, waiting,
                     verbosity, saved, late, stale>>
      /\ pc' = 1 /\ pc > Len(Program) /\ phase \in {"setup", "body"}
      /\ phase' = IF phase = "setup" /\ ~fatal THEN "body" ELSE "idle"
      /\ suite' = IF phase = "body" /\ test = "TearDownTestCase" THEN "none" ELSE suite
  BY DEF EndPhase, EndOfPhase, SkipsBody, channelVars
<1>2. ~waiting
  <2> SUFFICES ASSUME waiting PROVE FALSE
    OBVIOUS
  <2>1. pc <= Len(Program) /\ pc \in Nat /\ phase = "body"
    BY DEF ControlInv
  <2>2. Len(Program) \in Nat
    <3>1. CASE test \in Tests
      BY <2>1, <3>1, TestStep
    <3>2. CASE test = "TearDownTestCase"
      BY <2>1, <3>2, TearDownStep
    <3> QED  BY <3>1, <3>2 DEF ControlInv
  <2> QED  BY <1>1, <2>1, <2>2
<1>3. phase = "setup" => ~fatal
  BY DEF ControlInv
<1> QED  BY <1>1, <1>2, <1>3
\* A new harness.
LEMMA SetUpStep ==
  ASSUME ControlInv, NEW s \in {"NuggetOsTest", "DcryptoTest"}, SetUpTestCase(s)
  PROVE  /\ phase = "idle" /\ test = "TearDownTestCase" /\ ~waiting
         /\ suite' = s /\ dev' = SwitchedUart(s) /\ verbosity' = 0
         /\ UNCHANGED <<fault, test, phase, pc, fatal, failed, lost, transport, waiting,
                        saved, late, stale>>
         /\ pending' \in Seq(Message)
<1>1. /\ phase = "idle" /\ suite = "none" /\ suite' = s /\ dev' = SwitchedUart(s)
      /\ verbosity' = 0
      /\ UNCHANGED <<fault, test, phase, pc, fatal, failed, lost, transport, waiting,
                     saved, late, stale>>
      /\ pending' \in Unread \/ pending' = <<>>
  BY DEF SetUpTestCase
<1>2. test = "TearDownTestCase" /\ ~waiting /\ pending \in Seq(Message)
  BY <1>1 DEF ControlInv
<1>3. pending' \in Seq(Message)
  <2>1. PICK q : q = pending'
    OBVIOUS
  <2>2. CASE q \in Unread
    BY <1>2, <2>1, <2>2, UnreadMessages
  <2>3. CASE q = <<>>
    BY <2>1, <2>3
  <2> QED  BY <1>1, <2>1, <2>2, <2>3
<1> QED  BY <1>1, <1>2, <1>3

\* A test begins.
LEMMA StartStep ==
  ASSUME ControlInv, NEW t \in DOMAIN Body, Start(t)
  PROVE  /\ t \in Tests \union {"TearDownTestCase"}
         /\ t \in Tests => SuiteOf[t] = suite
         /\ suite # "none" /\ ~waiting /\ ~waiting'
         /\ test' = t /\ phase' = "setup" /\ pc' = 1 /\ lost' = 0
         /\ ~fatal' /\ ~failed' /\ ~stale' /\ (~late' => pending = <<>>)
         /\ saved' = verbosity
         /\ UNCHANGED <<dev, fault, pending, transport, suite, waiting, verbosity>>
<1>1. t \in Tests \union {"TearDownTestCase"}
  BY DEF Body, Tests, SuiteOf
<1>2. /\ t \in Tests => SuiteOf[t] = suite
      /\ suite # "none" /\ phase = "idle"
      /\ test' = t /\ phase' = "setup" /\ pc' = 1 /\ lost' = 0
      /\ ~fatal' /\ ~failed' /\ ~stale' /\ (~late' => pending = <<>>)
      /\ saved' = verbosity
      /\ UNCHANGED <<dev, fault, pending, transport, suite, waiting, verbosity>>
  BY DEF Start, Begin, channelVars
<1>3. ~waiting
  BY <1>2 DEF ControlInv
<1> QED  BY <1>1, <1>2, <1>3

----------------------------------------------------------------------------
(* Every action keeps every part of the invariant.                          *)

LEMMA ControlStep == ControlInv /\ [Next]_vars => ControlInv'
<1> SUFFICES ASSUME ControlInv, [Next]_vars PROVE ControlInv'
  OBVIOUS
<1>1. ASSUME NEW s \in {"NuggetOsTest", "DcryptoTest"}, SetUpTestCase(s) PROVE ControlInv'
  BY <1>1, SetUpStep DEF ControlInv
<1>2. ASSUME NEW t \in DOMAIN Body, Start(t) PROVE ControlInv'
  BY <1>2, StartStep DEF ControlInv
<1>3. CASE Send
  <2>1. pending' \in Seq(Message)
    BY <1>3, SendStep DEF ControlInv
  <2> QED  BY <1>3, <2>1, SendStep DEF ControlInv
<1>4. CASE Get \/ Timeout
  BY <1>4, ReturnStep DEF ControlInv
<1>5. CASE LocalStep
  <2>1. pc' \in Nat \ {0}
    BY <1>5, LocalSteps DEF ControlInv
  <2> QED  BY <1>5, <2>1, LocalSteps DEF ControlInv
<1>6. CASE EndPhase
  BY <1>6, EndStep DEF ControlInv
<1>7. CASE UNCHANGED vars
  BY <1>7 DEF ControlInv, vars, gtestVars, channelVars, Program, Body, TearDownTestCase, Current
<1> QED  BY <1>1, <1>2, <1>3, <1>4, <1>5, <1>6, <1>7 DEF Next

\* A reply that is not the test's own makes Echo and AesCbc fail.
LEMMA StaleStep == ControlInv /\ StaleInv /\ [Next]_vars => StaleInv'
<1> SUFFICES ASSUME ControlInv, StaleInv, [Next]_vars, stale', test' \in {"Echo", "AesCbc"}
             PROVE  failed'
  BY DEF StaleInv
<1>1. ASSUME NEW s \in {"NuggetOsTest", "DcryptoTest"}, SetUpTestCase(s) PROVE failed'
  BY <1>1, SetUpStep
<1>2. ASSUME NEW t \in DOMAIN Body, Start(t) PROVE failed'
  BY <1>2, StartStep
<1>3. CASE Send
  BY <1>3, SendStep DEF StaleInv
<1>4. CASE Get
  <2>1. /\ phase = "body" /\ pc <= Len(Program) /\ Current.call.op \in Ops
        /\ test' = test /\ (failed => failed')
    BY <1>4, ReturnStep
  <2>2. CASE stale
    BY <2>1, <2>2 DEF StaleInv
  <2>3. CASE ~stale
    <3>1. PICK i \in DOMAIN pending :
            /\ stale' = (stale \/ ~Own(i))
            /\ \E wrong \in Wrongs(pending[i], Current.call, Own(i)) :
                 Answered(Current, [dev |-> dev, reply |-> Reply(wrong)])
      BY <1>4 DEF Get
    <3>2. ~Own(i)
      BY <2>3, <3>1
    <3>3. PICK wrong \in Wrongs(pending[i], Current.call, Own(i)) :
            Answered(Current, [dev |-> dev, reply |-> Reply(wrong)])
      BY <3>1
    <3>4. test \in Tests
      BY <2>1 DEF Tests, SuiteOf
    <3>5. IsExchangeOf(test, Current)
      BY <2>1, <3>4, TestStep
    <3>6. Current.call.op \in {"echo", "cbc"}
      BY <2>1, <3>5 DEF IsExchangeOf, OpOf
    <3>7. "data" \in wrong
      <4>1. PICK p, w, own : p = pending[i] /\ w = Current.call /\ own = Own(i)
        OBVIOUS
      <4>2. w.op \in {"echo", "cbc"} /\ ~own /\ wrong \in Wrongs(p, w, own)
        BY <3>2, <3>3, <3>6, <4>1
      <4> QED  BY <4>2, OthersReply
    <3>8. "data" \in AssertsOf(test) /\ "data" \in Aspects
      BY <2>1 DEF AssertsOf, Aspects
    <3>9. ~Meets(Reply(wrong), Current.must)
      BY <3>5, <3>7, <3>8, WrongReply DEF IsExchangeOf
    <3> QED  BY <3>3, <3>9 DEF Answered
  <2> QED  BY <2>2, <2>3
<1>5. CASE Timeout
  <2>1. stale' = stale
    BY <1>5 DEF Timeout
  <2> QED  BY <1>5, <2>1, ReturnStep DEF StaleInv
<1>6. CASE LocalStep
  BY <1>6, LocalSteps DEF StaleInv
<1>7. CASE EndPhase
  BY <1>7, EndStep DEF StaleInv
<1>8. CASE UNCHANGED vars
  BY <1>8 DEF StaleInv, vars, gtestVars
<1> QED  BY <1>1, <1>2, <1>3, <1>4, <1>5, <1>6, <1>7, <1>8 DEF Next
\* The first exchange is one, and the steps before it are not.
LEMMA FirstExchange ==
  ASSUME NEW t \in Tests
  PROVE  Does(t, First(t)) = "exchange"
BY Constants DEF Tests, SuiteOf, Does, First

\* Every exchange with a firmware that is to blame fails, whatever the reply.
LEMMA FaultStep == ControlInv /\ FaultInv /\ [Next]_vars => FaultInv'
<1> SUFFICES ASSUME ControlInv, FaultInv, [Next]_vars, test' \in Tests, Blamed',
                    phase' = "idle" \/ (phase' = "body" /\ pc' > First(test'))
             PROVE  failed'
  BY DEF FaultInv
<1>1. ASSUME NEW s \in {"NuggetOsTest", "DcryptoTest"}, SetUpTestCase(s) PROVE failed'
  BY <1>1, SetUpStep DEF Tests, SuiteOf
<1>2. ASSUME NEW t \in DOMAIN Body, Start(t) PROVE failed'
  BY <1>2, StartStep
<1>3. CASE Send
  BY <1>3, SendStep DEF FaultInv, Blamed
<1>4. CASE Get \/ Timeout
  <2>1. /\ phase = "body" /\ pc <= Len(Program) /\ Current.call.op \in Ops
        /\ test' = test /\ fault' = fault /\ test \in Tests /\ Blamed
    BY <1>4, ReturnStep DEF Blamed
  <2>2. IsExchangeOf(test, Current)
    BY <2>1, TestStep
  <2>3. CASE Get
    <3>1. PICK i \in DOMAIN pending :
            \E wrong \in Wrongs(pending[i], Current.call, Own(i)) :
              Answered(Current, [dev |-> dev, reply |-> Reply(wrong)])
      BY <2>3 DEF Get
    <3>2. PICK wrong \in Wrongs(pending[i], Current.call, Own(i)) :
            Answered(Current, [dev |-> dev, reply |-> Reply(wrong)])
      BY <3>1
    <3>3. PICK x \in Aspects : x \in wrong /\ x \in AssertsOf(test) \union ExpectsOf(test)
      <4>1. PICK t, p, w, own :
              t = test /\ p = pending[i] /\ w = Current.call /\ own = Own(i)
        OBVIOUS
      <4>2. /\ t \in Tests /\ fault \in About(t) /\ <<t, fault>> \notin Unnoticed
            /\ w.op = OpOf[t] /\ wrong \in Wrongs(p, w, own)
        BY <2>1, <2>2, <3>2, <4>1 DEF Blamed, IsExchangeOf
      <4> QED  BY <4>1, <4>2, FaultyReply
    <3>4. ~Meets(Reply(wrong), Current.must) \/ ~Meets(Reply(wrong), Current.should)
      BY <2>2, <3>3, WrongReply DEF IsExchangeOf
    <3> QED  BY <3>2, <3>4 DEF Answered
  <2>4. CASE Timeout
    <3>1. ~Meets([code |-> "IO"], Current.must) /\ ~Meets([code |-> "TIMEOUT"], Current.must)
      BY <2>2, NoReply DEF IsExchangeOf
    <3>2. \/ \E O : Lost(Current, O, FALSE)
          \/ Answered(Current, [dev |-> dev, reply |-> [code |-> "TIMEOUT"]])
      BY <2>4 DEF Timeout
    <3> QED  BY <3>1, <3>2 DEF Lost, Answered
  <2> QED  BY <1>4, <2>3, <2>4
<1>5. CASE LocalStep
  <2>1. /\ phase = "body" /\ pc <= Len(Program) /\ Current.call.op \notin Ops
        /\ pc' = pc + 1 /\ test' = test /\ fault' = fault /\ failed' = failed /\ phase' = phase
        /\ test \in Tests /\ Blamed
    BY <1>5, LocalSteps DEF Blamed
  <2>2. Does(test, pc) # "exchange"
    BY <2>1, TestStep
  <2>3. pc # First(test) /\ First(test) \in Nat /\ pc \in Nat
    BY <2>1, <2>2, FirstExchange, Lengths DEF ControlInv
  <2>4. pc > First(test)
    BY <2>1, <2>3
  <2> QED  BY <2>1, <2>4 DEF FaultInv
<1>6. CASE EndPhase
  <2>1. /\ test' = test /\ fault' = fault /\ failed' = failed /\ pc' = 1 /\ test \in Tests
        /\ Blamed
    BY <1>6, EndStep DEF Blamed
  <2>2. First(test) \in 1 .. 3 /\ Length(test) \in Nat /\ Length(test) >= First(test)
    BY <2>1, Lengths
  <2>3. phase = "body" /\ pc > Len(Program)
    BY <1>6, <2>1, <2>2, EndStep
  <2>4. pc > First(test)
    <3>1. Len(Program) = Length(test) /\ pc \in Nat
      BY <2>1, <2>3, TestStep DEF ControlInv
    <3> QED  BY <2>2, <2>3, <3>1
  <2> QED  BY <2>1, <2>3, <2>4 DEF FaultInv
<1>7. CASE UNCHANGED vars
  BY <1>7 DEF FaultInv, Blamed, vars, gtestVars
<1> QED  BY <1>1, <1>2, <1>3, <1>4, <1>5, <1>6, <1>7 DEF Next

\* Only TearDownTestCase asks for the console, in its last step.
LEMMA ControlRequest ==
  ASSUME ControlInv, phase = "body", pc <= Len(Program), Current.call.op \in Ops
  PROVE  /\ Current.call.op = "control" => test = "TearDownTestCase"
         /\ test = "TearDownTestCase" => pc = 2 /\ Len(Program) = 2
<1>1. "control" \in Ops /\ "drain" \notin Ops
  BY DEF Ops, Type
<1>2. CASE test \in Tests
  <2>1. Current.call.op = OpOf[test] /\ test # "TearDownTestCase"
    BY <1>2, TestStep DEF IsExchangeOf, Tests, SuiteOf
  <2>2. OpOf[test] # "control"
    BY <1>2 DEF OpOf, Tests, SuiteOf
  <2> QED  BY <2>1, <2>2
<1>3. CASE test = "TearDownTestCase"
  BY <1>1, <1>3, TearDownStep
<1> QED  BY <1>2, <1>3 DEF ControlInv

\* Before it is sent, TearDownTestCase is not ending.
LEMMA NotEnding ==
  ASSUME ControlInv, ~waiting, pc <= Len(Program) \/ phase # "body" \/ test \in Tests
  PROVE  ~Ending
<1> SUFFICES ASSUME Ending PROVE FALSE
  OBVIOUS
<1>1. test = "TearDownTestCase" /\ phase = "body" /\ pc = 3
  BY DEF Ending
<1>2. pc <= Len(Program)
  BY <1>1 DEF Tests, SuiteOf
<1> QED  BY <1>1, <1>2, TearDownStep

LEMMA ReachStep == ControlInv /\ ReachInv /\ [Next]_vars => ReachInv'
<1> SUFFICES ASSUME ControlInv, ReachInv, [Next]_vars,
                    transport' = "ahdlc", suite' = "NuggetOsTest", ~Ending'
             PROVE  dev' = "proto"
  BY DEF ReachInv
<1>1. ASSUME NEW s \in {"NuggetOsTest", "DcryptoTest"}, SetUpTestCase(s) PROVE dev' = "proto"
  BY <1>1, SetUpStep DEF SwitchedUart
<1>2. ASSUME NEW t \in DOMAIN Body, Start(t) PROVE dev' = "proto"
  <2>1. phase # "body" /\ dev' = dev /\ transport = "ahdlc" /\ suite = "NuggetOsTest"
    BY <1>2, StartStep DEF Start, Begin
  <2> QED  BY <2>1 DEF ReachInv, Ending
<1>3. CASE Send
  <2>1. /\ phase = "body" /\ pc <= Len(Program) /\ Current.call.op \in Ops /\ ~waiting
        /\ waiting' /\ UNCHANGED <<test, phase, pc, transport, suite>>
        /\ dev' = IF Current.call.op = "control" THEN "console" ELSE dev
    BY <1>3, SendStep
  <2>2. ~Ending
    BY <2>1, NotEnding
  <2>3. Current.call.op # "control"
    BY <2>1, ControlRequest DEF Ending
  <2> QED  BY <2>1, <2>2, <2>3 DEF ReachInv
<1>4. CASE Get \/ Timeout
  <2>1. /\ phase = "body" /\ pc <= Len(Program) /\ Current.call.op \in Ops
        /\ UNCHANGED <<test, phase, transport, suite>>
    BY <1>4, ReturnStep
  <2>2. test # "TearDownTestCase"
    <3> SUFFICES ASSUME test = "TearDownTestCase" PROVE FALSE
      OBVIOUS
    <3>1. pc = 2 /\ Current.skip = 0
      BY <2>1, ControlRequest, TearDownStep
    <3>2. pc' \in {pc + 1, pc + 1 + Current.skip}
      BY <1>4 DEF Get, Timeout, Answered, Lost, After
    <3>3. pc' = 3
      BY <3>1, <3>2
    <3> QED  BY <2>1, <3>3 DEF Ending
  <2>3. dev = "proto"
    BY <2>1, <2>2 DEF ReachInv, Ending
  <2>4. dev' \in {dev, "proto"}
    BY <1>4 DEF Get, Timeout, Answered, Lost
  <2> QED  BY <2>3, <2>4
<1>5. CASE LocalStep
  <2>1. pc <= Len(Program) /\ ~waiting /\ UNCHANGED <<dev, transport, suite>>
    BY <1>5, LocalSteps
  <2> QED  BY <2>1, NotEnding DEF ReachInv
<1>6. CASE EndPhase
  <2>1. /\ ~waiting /\ UNCHANGED <<dev, transport>> /\ suite = "NuggetOsTest"
        /\ phase # "body" \/ test # "TearDownTestCase"
    BY <1>6, EndStep
  <2>2. ~Ending
    BY <2>1 DEF Ending
  <2> QED  BY <2>1, <2>2 DEF ReachInv
<1>7. CASE UNCHANGED vars
  BY <1>7 DEF ReachInv, Ending, vars, gtestVars
<1> QED  BY <1>1, <1>2, <1>3, <1>4, <1>5, <1>6, <1>7 DEF Next
\* A request that can reach the firmware is pending until its call returns.
LEMMA LastStep == ControlInv /\ ReachInv /\ LastInv /\ [Next]_vars => LastInv'
<1> SUFFICES ASSUME ControlInv, ReachInv, LastInv, [Next]_vars, waiting',
                    transport' = "spi" \/ suite' = "NuggetOsTest"
             PROVE  pending' # <<>> /\ pending'[Len(pending')] = Current.call'
  BY DEF LastInv
<1>1. ASSUME NEW s \in {"NuggetOsTest", "DcryptoTest"}, SetUpTestCase(s) PROVE FALSE
  BY <1>1, SetUpStep
<1>2. ASSUME NEW t \in DOMAIN Body, Start(t) PROVE FALSE
  BY <1>2, StartStep
<1>3. CASE Send
  <2>1. /\ pc <= Len(Program) /\ ~waiting /\ UNCHANGED <<transport, suite>>
        /\ Current' = Current /\ Current.call \in Message
        /\ pending' = IF Reachable THEN Append(pending, Current.call) ELSE pending
    BY <1>3, SendStep
  <2>2. Reachable
    <3>1. ~Ending
      BY <2>1, NotEnding
    <3> QED  BY <2>1, <3>1 DEF Reachable, ReachInv, ControlInv
  <2>3. pending \in Seq(Message)
    BY DEF ControlInv
  <2>4. pending' = Append(pending, Current.call)
    BY <2>1, <2>2
  <2>5. /\ Append(pending, Current.call) # <<>>
        /\ Append(pending, Current.call)[Len(Append(pending, Current.call))] = Current.call
    BY <2>1, <2>3
  <2> QED  BY <2>1, <2>4, <2>5
<1>4. CASE Get \/ Timeout
  BY <1>4, ReturnStep
<1>5. CASE LocalStep
  BY <1>5, LocalSteps
<1>6. CASE EndPhase
  BY <1>6, EndStep
<1>7. CASE UNCHANGED vars
  BY <1>7
     DEF LastInv, vars, gtestVars, channelVars, Current, Program, Body, TearDownTestCase
<1> QED  BY <1>1, <1>2, <1>3, <1>4, <1>5, <1>6, <1>7 DEF Next

\* While nothing is late or lost, no other reply is pending.
LEMMA OnlyStep == ControlInv /\ ReachInv /\ LastInv /\ OnlyInv /\ [Next]_vars => OnlyInv'
<1> SUFFICES ASSUME ControlInv, ReachInv, LastInv, OnlyInv, [Next]_vars, phase' # "idle",
                    transport' = "ahdlc", suite' = "NuggetOsTest", ~late', lost' = 0
             PROVE  Len(pending') = IF waiting' THEN 1 ELSE 0
  BY DEF OnlyInv
<1>1. ASSUME NEW s \in {"NuggetOsTest", "DcryptoTest"}, SetUpTestCase(s) PROVE FALSE
  BY <1>1, SetUpStep
<1>2. ASSUME NEW t \in DOMAIN Body, Start(t) PROVE Len(pending') = 0 /\ ~waiting'
  BY <1>2, StartStep
<1>3. CASE Send
  <2>1. /\ phase = "body" /\ pc <= Len(Program) /\ ~waiting /\ waiting'
        /\ UNCHANGED <<transport, suite, late, lost>> /\ Current.call \in Message
        /\ pending' = IF Reachable THEN Append(pending, Current.call) ELSE pending
    BY <1>3, SendStep
  <2>2. Reachable
    <3>1. ~Ending
      BY <2>1, NotEnding
    <3> QED  BY <2>1, <3>1 DEF Reachable, ReachInv
  <2>3. pending \in Seq(Message) /\ Len(pending) = 0
    BY <2>1 DEF ControlInv, OnlyInv
  <2>4. Len(Append(pending, Current.call)) = 1
    BY <2>1, <2>3
  <2> QED  BY <2>1, <2>2, <2>4
<1>4. CASE Get \/ Timeout
  <2>1. /\ phase = "body" /\ waiting /\ ~waiting' /\ lost = 0
        /\ UNCHANGED <<transport, suite, late>>
    BY <1>4, ReturnStep
  <2>2. pending \in Seq(Message) /\ Len(pending) = 1 /\ pending # <<>>
    BY <2>1 DEF ControlInv, OnlyInv, LastInv
  <2>3. CASE Get
    <3>1. PICK i \in DOMAIN pending : pending' = SubSeq(pending, i + 1, Len(pending))
      BY <2>3 DEF Get, GetData
    <3>2. i = 1
      BY <2>2, <3>1
    <3>3. Len(SubSeq(pending, 2, 1)) = 0
      BY <2>2
    <3>4. pending' = SubSeq(pending, 2, 1)
      BY <2>2, <3>1, <3>2
    <3> QED  BY <2>1, <3>3, <3>4
  <2>4. CASE Timeout
    <3>1. lost' = lost + 1
      BY <2>2, <2>4 DEF Timeout, Lost
    <3> QED  BY <2>1, <3>1
  <2> QED  BY <1>4, <2>3, <2>4
<1>5. CASE LocalStep
  <2>1. /\ phase = "body" /\ ~waiting /\ ~waiting' /\ UNCHANGED <<transport, suite, late, lost>>
        /\ pending' = pending \/ pending' \in Unread
    BY <1>5, LocalSteps
  <2>2. pending \in Seq(Message) /\ pending = <<>>
    BY <2>1 DEF ControlInv, OnlyInv
  <2>3. pending' = <<>>
    <3>1. PICK q : q = pending'
      OBVIOUS
    <3>2. CASE q \in Unread
      BY <2>2, <3>1, <3>2, UnreadMessages
    <3> QED  BY <2>1, <2>2, <3>1, <3>2
  <2> QED  BY <2>1, <2>3
<1>6. CASE EndPhase
  <2>1. /\ phase # "idle" /\ ~waiting /\ ~waiting' /\ suite = "NuggetOsTest"
        /\ UNCHANGED <<transport, late, lost, pending>>
    BY <1>6, EndStep
  <2> QED  BY <2>1 DEF OnlyInv
<1>7. CASE UNCHANGED vars
  BY <1>7 DEF OnlyInv, vars, gtestVars, channelVars
<1> QED  BY <1>1, <1>2, <1>3, <1>4, <1>5, <1>6, <1>7 DEF Next

\* The test gets its own reply, and nothing is wrong with it.
LEMMA AlarmStep ==
  ControlInv /\ LastInv /\ OnlyInv /\ NoFalseAlarm /\ [Next]_vars => NoFalseAlarm'
<1> SUFFICES ASSUME ControlInv, LastInv, OnlyInv, NoFalseAlarm, [Next]_vars,
                    fault' = "none", lost' = 0, transport' = "spi" \/ ~late',
                    test' = "AesCmacRfc4493Test" => transport' = "spi"
             PROVE  ~failed'
  BY DEF NoFalseAlarm
<1>1. ASSUME NEW s \in {"NuggetOsTest", "DcryptoTest"}, SetUpTestCase(s) PROVE ~failed'
  BY <1>1, SetUpStep DEF NoFalseAlarm
<1>2. ASSUME NEW t \in DOMAIN Body, Start(t) PROVE ~failed'
  BY <1>2, StartStep
<1>3. CASE Send
  BY <1>3, SendStep DEF NoFalseAlarm
<1>4. CASE Get \/ Timeout
  <2>1. /\ phase = "body" /\ pc <= Len(Program) /\ Current.call.op \in Ops /\ waiting
        /\ UNCHANGED <<fault, test, phase, transport, suite, late>> /\ lost = 0
    BY <1>4, ReturnStep
  <2>2. ~failed /\ fault = "none"
    BY <2>1 DEF NoFalseAlarm
  <2>3. transport = "spi" \/ suite = "NuggetOsTest"
    <3>1. CASE test = "TearDownTestCase"
      BY <2>1, <3>1, TearDownStep
    <3>2. CASE test \in Tests
      <4>1. SuiteOf[test] = suite
        BY <2>1, <3>2 DEF ControlInv
      <4>2. test # "AesCmacRfc4493Test" => SuiteOf[test] = "NuggetOsTest"
        BY <3>2 DEF Tests, SuiteOf
      <4> QED  BY <2>1, <4>1, <4>2
    <3> QED  BY <3>1, <3>2 DEF ControlInv
  <2>4. /\ pending \in Seq(Message) /\ pending # <<>>
        /\ pending[Len(pending)] = Current.call
    BY <2>1, <2>3 DEF ControlInv, LastInv
  <2>5. CASE Get
    <3>1. PICK i \in DOMAIN pending :
            /\ transport = "spi" => i = Len(pending)
            /\ \E wrong \in Wrongs(pending[i], Current.call, Own(i)) :
                 Answered(Current, [dev |-> dev, reply |-> Reply(wrong)])
      BY <2>5 DEF Get
    <3>2. i = Len(pending)
      <4>1. CASE transport = "spi"
        BY <3>1, <4>1
      <4>2. CASE transport = "ahdlc"
        <5>1. Len(pending) = 1
          BY <2>1, <2>3, <4>2 DEF OnlyInv
        <5> QED  BY <2>4, <3>1, <5>1
      <4> QED  BY <4>1, <4>2 DEF ControlInv
    <3>3. Own(i) /\ pending[i] = Current.call /\ Current.call \in Message
      BY <2>4, <3>2 DEF Own
    <3>4. PICK wrong \in Wrongs(pending[i], Current.call, Own(i)) :
            Answered(Current, [dev |-> dev, reply |-> Reply(wrong)])
      BY <3>1
    <3>5. wrong = {}
      <4>1. PICK m, own : m = Current.call /\ own = Own(i)
        OBVIOUS
      <4>2. m \in Message /\ own = TRUE /\ wrong \in Wrongs(m, m, own)
        BY <3>3, <3>4, <4>1 DEF Own
      <4>3. Wrongs(m, m, TRUE) = {{}}
        BY <2>2, <4>2, OwnReply
      <4> QED  BY <4>2, <4>3
    <3>6. Meets(Reply({}), Current.must) /\ Meets(Reply({}), Current.should)
      <4>1. CASE test \in Tests
        <5>1. IsExchangeOf(test, Current)
          BY <2>1, <4>1, TestStep
        <5> QED  BY <4>1, <5>1, ComparedAspects, RightReply DEF IsExchangeOf
      <4>2. CASE test = "TearDownTestCase"
        <5>1. Current.must = Nothing /\ Current.should = Received({"type"})
          BY <2>1, <4>2, ControlRequest, TearDownStep
        <5>2. {"type"} \subseteq Aspects
          BY DEF Aspects
        <5>3. Meets(Reply({}), Nothing)
          BY DEF Meets, Nothing
        <5> QED  BY <5>1, <5>2, <5>3, RightReply
      <4> QED  BY <4>1, <4>2 DEF ControlInv
    <3> QED  BY <2>2, <3>4, <3>5, <3>6 DEF Answered
  <2>6. CASE Timeout
    <3>1. lost' = lost + 1
      BY <2>4, <2>6 DEF Timeout, Lost
    <3> QED  BY <2>1, <3>1
  <2> QED  BY <1>4, <2>5, <2>6
<1>5. CASE LocalStep
  BY <1>5, LocalSteps DEF NoFalseAlarm
<1>6. CASE EndPhase
  BY <1>6, EndStep DEF NoFalseAlarm
<1>7. CASE UNCHANGED vars
  BY <1>7 DEF NoFalseAlarm, vars, gtestVars
<1> QED  BY <1>1, <1>2, <1>3, <1>4, <1>5, <1>6, <1>7 DEF Next

----------------------------------------------------------------------------
(* The theorems.                                                            *)

\* The inductive invariant.
THEOREM Invariance == Spec => []IInv
<1>1. Init => IInv
  <2> SUFFICES ASSUME Init PROVE IInv
    OBVIOUS
  <2>1. /\ test = "TearDownTestCase" /\ phase = "idle" /\ pc = 1 /\ lost = 0
        /\ suite = "none" /\ pending = <<>> /\ ~waiting /\ ~failed /\ ~fatal /\ ~stale
        /\ verbosity = 0 /\ saved = 0 /\ transport \in {"spi", "ahdlc"}
    BY DEF Init, Idle, ChannelInit
  <2>2. test \notin Tests
    BY <2>1 DEF Tests, SuiteOf
  <2>3. ControlInv
    BY <2>1 DEF ControlInv
  <2> QED
    BY <2>1, <2>2, <2>3
       DEF IInv, StaleInv, FaultInv, ReachInv, LastInv, OnlyInv, NoFalseAlarm
<1>2. IInv /\ [Next]_vars => IInv'
  BY ControlStep, StaleStep, FaultStep, ReachStep, LastStep, OnlyStep, AlarmStep
     DEF IInv
<1> QED  BY <1>1, <1>2, PTL DEF Spec

\* On a firmware that answers rightly no test fails, unless a call is lost or, over
\* the UART, a reply to an earlier test comes late: for any number of vectors,
\* rounds, keys and tests before.
THEOREM NoFalseAlarmHolds == Spec => []NoFalseAlarm
<1>1. IInv => NoFalseAlarm
  BY DEF IInv
<1> QED  BY <1>1, Invariance, PTL

\* Echo and AesCbc fail if they take a reply that is not the answer to their last
\* request, however many are late.
THEOREM StaleReplyIsNoticedHolds == Spec => []StaleReplyIsNoticed
<1>1. IInv => StaleReplyIsNoticed
  BY DEF IInv, StaleInv, StaleReplyIsNoticed
<1> QED  BY <1>1, Invariance, PTL

\* A firmware that gets something wrong passes no test that is about it, whichever
\* late replies the test takes for its own.
THEOREM FaultDetectedHolds == Spec => []FaultDetected
<1>1. IInv => FaultDetected
  BY DEF IInv, FaultInv, Blamed, FaultDetected
<1> QED  BY <1>1, Invariance, PTL
=============================================================================
