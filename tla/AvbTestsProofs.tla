--------------------------- MODULE AvbTestsProofs ---------------------------
(* Whatever the tests do, however many calls are lost and however many      *)
(* rollback slots there are: what SetUp leaves of the state it finds, and   *)
(* that no test passes on a firmware without the rule it is written for.    *)
EXTENDS AvbTests, TLAPS

\* The fields of the firmware's state.  A test may have left anything in them.
DevFields == {"bootloader", "production", "locks", "nonce", "data", "versions", "key"}

IsDev(d) == d = [x \in DevFields |-> d[x]]

\* SetUp is running and no ASSERT of it has failed.
SettingUp == phase = "setup" /\ test # "SetRootOfTrust" /\ fault = "none" /\ ~fatal

Blank(d) == d.data = ZERO_DATA /\ d.versions = [s \in 1 .. Slots |-> NO_VERSION]

\* What the steps of SetUp that are done have achieved.
Achieved(n, d, k) ==
  /\ n >= 2 => d.bootloader = FALSE
  /\ n = 3 /\ k = 0 => d.nonce # 0
  /\ n >= 4 /\ k = 0 => Blank(d)
  /\ n >= 5 => d.production = FALSE
  /\ n >= 6 => d.locks = Unlocked

SetUpInv == SettingUp => pc \in Nat \ {0} /\ Achieved(pc, dev, lost)

IInv == IsDev(dev) /\ lost \in Nat /\ SetUpInv

----------------------------------------------------------------------------
(* The firmware.                                                            *)

\* A refused call changes nothing.
LEMMA RefusedOrServed ==
  ASSUME NEW d, NEW f, NEW c, NEW o \in Outcomes(d, f, c)
  PROVE  \/ o \in Effects(d, f, c)
         \/ o.dev = d /\ \E r \in Rules(d, c) : r.name # f /\ o.reply = Status(r.code)
BY DEF Outcomes, Outcome

\* The fields stay, whatever is called.
LEMMA KeepsFields ==
  ASSUME NEW d, IsDev(d), NEW f, NEW c, NEW o \in Outcomes(d, f, c)
  PROVE  IsDev(o.dev)
<1>1. CASE o.dev = d
  BY <1>1
<1>2. CASE o \in Effects(d, f, c)
  <2>1. CASE c.op = "SetBootloader" \/ c.op = "BootloaderDone"
    <3>1. PICK b : o \in Done([d EXCEPT !.bootloader = b])
      BY <1>2, <2>1 DEF Effects
    <3>2. o.dev = [d EXCEPT !.bootloader = b]
      BY <3>1 DEF Done, Outcome
    <3> QED  BY <3>2 DEF IsDev, DevFields
  <2>2. CASE c.op = "SetLock"
    <3>1. o.dev = [d EXCEPT !.locks[c.lock] = c.value,
                            !.key = IF c.lock = "OWNER" THEN c.key ELSE @]
      BY <1>2, <2>2 DEF Effects, SetLockEffects, Done, Outcome
    <3> QED  BY <3>1 DEF IsDev, DevFields
  <2>3. CASE c.op = "SetProduction"
    <3>1. o \in SetProductionEffects(d, f, c)
      BY <1>2, <2>3 DEF Effects
    <3>2. CASE c.production
      <4>1. PICK b, v : \/ o \in Done([d EXCEPT !.production = b, !.data = c.data, !.locks = v])
                        \/ o = Outcome(d, Status("AUTHORIZATION"))
        <5>1. DOMAIN d = DevFields /\ "locks" \in DevFields
          BY DEF IsDev, DevFields
        <5> QED  BY <3>1, <3>2, <5>1 DEF SetProductionEffects
      <4>2. o.dev = [d EXCEPT !.production = b, !.data = c.data, !.locks = v] \/ o.dev = d
        BY <4>1 DEF Done, Outcome
      <4> QED  BY <4>2 DEF IsDev, DevFields
    <3>3. CASE ~c.production
      <4>1. PICK b : o \in Done([d EXCEPT !.production = b])
        BY <3>1, <3>3 DEF SetProductionEffects
      <4>2. o.dev = [d EXCEPT !.production = b]
        BY <4>1 DEF Done, Outcome
      <4> QED  BY <4>2 DEF IsDev, DevFields
    <3> QED  BY <3>2, <3>3
  <2>4. CASE c.op = "Reset" /\ c.kind = "LOCKS"
    <3>1. o.dev = [d EXCEPT !.locks = Unlocked]
      BY <1>2, <2>4 DEF Effects, Done, Outcome
    <3> QED  BY <3>1 DEF IsDev, DevFields
  <2>5. CASE c.op = "Reset" /\ c.kind = "PRODUCTION"
    <3>1. PICK b \in {d.bootloader, FALSE} :
            o.dev = [d EXCEPT !.production = FALSE, !.nonce = 0, !.data = ZERO_DATA,
                              !.versions = [s \in 1 .. Slots |-> NO_VERSION],
                              !.bootloader = b]
      BY <1>2, <2>5 DEF Effects, ResetProductionEffects, Outcome
    <3> QED  BY <3>1 DEF IsDev, DevFields
  <2>6. CASE c.op = "GetResetChallenge"
    <3>1. Effects(d, f, c) = {Outcome([d EXCEPT !.nonce = n],
                                      [code |-> "OK", nonce |-> n, data |-> d.data])
                                : n \in Nonces \ {c.previous}}
      BY <2>6 DEF Effects
    <3>2. PICK n \in Nonces : o.dev = [d EXCEPT !.nonce = n]
      BY <1>2, <3>1 DEF Outcome
    <3> QED  BY <3>2 DEF IsDev, DevFields
  <2>7. CASE c.op = "Store"
    <3>1. o.dev = [d EXCEPT !.versions[c.slot] = c.version]
      BY <1>2, <2>7 DEF Effects, Done, Outcome
    <3> QED  BY <3>1 DEF IsDev, DevFields
  <2>8. CASE c.op = "WipeUserData"
    <3>1. o.dev = [d EXCEPT !.locks["DEVICE"] = 1] \/ o.dev = d
      BY <1>2, <2>8 DEF Effects, Done, Outcome
    <3> QED  BY <3>1 DEF IsDev, DevFields
  <2>9. CASE /\ c.op \notin {"SetBootloader", "BootloaderDone", "SetLock", "SetProduction",
                             "GetResetChallenge", "Store", "WipeUserData"}
             /\ ~(c.op = "Reset" /\ c.kind \in {"LOCKS", "PRODUCTION"})
    <3>1. o.dev = d
      BY <1>2, <2>9 DEF Effects, Done, Outcome
    <3> QED  BY <3>1
  <2> QED  BY <2>1, <2>2, <2>3, <2>4, <2>5, <2>6, <2>7, <2>8, <2>9
<1> QED  BY <1>1, <1>2, RefusedOrServed

----------------------------------------------------------------------------
(* The calls of SetUp, on a firmware that keeps its rules.                  *)

\* BootloaderDone.
LEMMA ServesBootloaderDone ==
  ASSUME NEW d, IsDev(d), NEW c, c.op = "BootloaderDone", NEW o \in Outcomes(d, "none", c)
  PROVE  o.dev.bootloader = FALSE
<1>1. Rules(d, c) = {}
  BY DEF Rules
<1>2. PICK b : b = FALSE /\ Effects(d, "none", c) = Done([d EXCEPT !.bootloader = b])
  BY DEF Effects
<1>3. o \in Effects(d, "none", c)
  BY <1>1, RefusedOrServed
<1>4. o.dev = [d EXCEPT !.bootloader = b]
  BY <1>2, <1>3 DEF Done, Outcome
<1> QED  BY <1>2, <1>4 DEF IsDev, DevFields

\* GetResetChallenge.
LEMMA ServesChallenge ==
  ASSUME NEW d, IsDev(d), NEW c, c.op = "GetResetChallenge", NEW o \in Outcomes(d, "none", c)
  PROVE  o.dev.bootloader = d.bootloader /\ o.dev.nonce # 0
<1>1. Rules(d, c) = {}
  BY DEF Rules
<1>2. Effects(d, "none", c) = {Outcome([d EXCEPT !.nonce = n],
                                       [code |-> "OK", nonce |-> n, data |-> d.data])
                                 : n \in Nonces \ {c.previous}}
  BY DEF Effects
<1>3. o \in Effects(d, "none", c)
  BY <1>1, RefusedOrServed
<1>4. PICK n \in Nonces : o.dev = [d EXCEPT !.nonce = n]
  BY <1>2, <1>3 DEF Outcome
<1>5. n # 0
  BY AvbAssumption
<1> QED  BY <1>4, <1>5 DEF IsDev, DevFields

\* The reset of the production mode; only a spent nonce is a reason to refuse.
LEMMA ServesProductionReset ==
  ASSUME NEW d, IsDev(d), NEW c, c.op = "Reset", c.kind = "PRODUCTION",
         NEW o \in Outcomes(d, "none", c), d.bootloader = FALSE
  PROVE  o.dev.bootloader = FALSE /\ (d.nonce # 0 => Blank(o.dev))
<1>1. CASE o \in Effects(d, "none", c)
  <2>1. PICK b \in {d.bootloader, FALSE} :
          o.dev = [d EXCEPT !.production = FALSE, !.nonce = 0, !.data = ZERO_DATA,
                            !.versions = [s \in 1 .. Slots |-> NO_VERSION],
                            !.bootloader = b]
    BY <1>1 DEF Effects, ResetProductionEffects, Outcome
  <2>2. b = FALSE
    BY <2>1
  <2> QED  BY <2>1, <2>2 DEF Blank, IsDev, DevFields
<1>2. CASE o.dev = d /\ Rules(d, c) # {}
  <2>1. Rules(d, c) = Rule("NonceIsSpent", "DENIED", d.nonce = 0)
    BY DEF Rules, ResetRules
  <2>2. d.nonce = 0
    BY <1>2, <2>1 DEF Rule
  <2> QED  BY <1>2, <2>2
<1>3. o \in Effects(d, "none", c) \/ (o.dev = d /\ Rules(d, c) # {})
  BY RefusedOrServed
<1> QED  BY <1>1, <1>2, <1>3

\* GetState.
LEMMA ServesGetState ==
  ASSUME NEW d, IsDev(d), NEW c, c.op = "GetState", NEW o \in Outcomes(d, "none", c)
  PROVE  o.dev = d /\ o.reply.production = d.production
<1>1. Rules(d, c) = {}
  BY DEF Rules
<1>2. o = Outcome(d, View(d))
  BY <1>1, RefusedOrServed DEF Effects
<1> QED  BY <1>2 DEF Outcome, View

\* The reset of the locks; a firmware out of production does not refuse it.
LEMMA ServesLockReset ==
  ASSUME NEW d, IsDev(d), NEW c, c.op = "Reset", c.kind = "LOCKS",
         NEW o \in Outcomes(d, "none", c), d.production = FALSE
  PROVE  /\ o.dev.locks = Unlocked /\ o.dev.bootloader = d.bootloader
         /\ o.dev.production = FALSE /\ (Blank(d) => Blank(o.dev))
<1>1. Rules(d, c) = {}
  BY DEF Rules, ResetRules, Rule
<1>2. o.dev = [d EXCEPT !.locks = Unlocked]
  BY <1>1, RefusedOrServed DEF Effects, Done, Outcome
<1> QED  BY <1>2 DEF Blank, IsDev, DevFields

----------------------------------------------------------------------------
(* The steps of SetUp.                                                      *)

\* The calls of SetUp and what it asserts of them.
LEMMA SetUpSteps ==
  /\ Len(SetUp) = 6
  /\ SetUp[1].call = [op |-> "BootloaderDone"] /\ SetUp[1].must = Code("OK")
  /\ SetUp[2].call = [op |-> "GetResetChallenge"] /\ SetUp[2].must = Code("OK")
  /\ SetUp[3].call = Reset("PRODUCTION", "zeros")
  /\ SetUp[4].call = [op |-> "GetState"] /\ SetUp[4].must = [production |-> {FALSE}]
  /\ SetUp[5].call = Reset("LOCKS", "zeros") /\ SetUp[5].must = Code("OK")
  /\ SetUp[6].call = [op |-> "GetState"]
<1> DEFINE S(call, must, should, skip) ==
             [call |-> call, must |-> must, should |-> should, skip |-> skip]
           s1 == S([op |-> "BootloaderDone"], Code("OK"), Nothing, 0)
           s2 == S([op |-> "GetResetChallenge"], Code("OK"), Nothing, 2)
           s3 == S(Reset("PRODUCTION", "zeros"), Nothing, Nothing, 0)
           s4 == S([op |-> "GetState"], [production |-> {FALSE}], Nothing, 0)
           s5 == S(Reset("LOCKS", "zeros"), Code("OK"), Nothing, ABORT)
           s6 == S([op |-> "GetState"], Nothing,
                   [bootloader |-> {FALSE}, production |-> {FALSE}, BOOT |-> {0},
                    CARRIER |-> {0}, DEVICE |-> {0}, OWNER |-> {0}], 0)
<1>1. SetUp = <<s1>> \o (<<s2>> \o <<s3>> \o <<s4>>) \o <<s5>> \o <<s6>>
  BY Zenon DEF SetUp, BootloaderDone, ResetProduction, GetResetChallenge, ResetLocks, AssertCode, Step
<1>2. PICK t1, t2, t3, t4, t5, t6 :
        t1 = s1 /\ t2 = s2 /\ t3 = s3 /\ t4 = s4 /\ t5 = s5 /\ t6 = s6
  OBVIOUS
<1>3. SetUp = <<t1>> \o (<<t2>> \o <<t3>> \o <<t4>>) \o <<t5>> \o <<t6>>
  <2> HIDE DEF s1, s2, s3, s4, s5, s6
  <2> QED  BY <1>1, <1>2, Zenon
<1>4. /\ Len(SetUp) = 6 /\ SetUp[1] = t1 /\ SetUp[2] = t2 /\ SetUp[3] = t3
      /\ SetUp[4] = t4 /\ SetUp[5] = t5 /\ SetUp[6] = t6
  <2> HIDE DEF s1, s2, s3, s4, s5, s6
  <2>1. Len(<<t1>> \o (<<t2>> \o <<t3>> \o <<t4>>) \o <<t5>> \o <<t6>>) = 6
    BY SMTT(60)
  <2>2. (<<t1>> \o (<<t2>> \o <<t3>> \o <<t4>>) \o <<t5>> \o <<t6>>)[1] = t1
    BY SMTT(60)
  <2>3. (<<t1>> \o (<<t2>> \o <<t3>> \o <<t4>>) \o <<t5>> \o <<t6>>)[2] = t2
    BY SMTT(60)
  <2>4. (<<t1>> \o (<<t2>> \o <<t3>> \o <<t4>>) \o <<t5>> \o <<t6>>)[3] = t3
    BY SMTT(60)
  <2>5. (<<t1>> \o (<<t2>> \o <<t3>> \o <<t4>>) \o <<t5>> \o <<t6>>)[4] = t4
    BY SMTT(60)
  <2>6. (<<t1>> \o (<<t2>> \o <<t3>> \o <<t4>>) \o <<t5>> \o <<t6>>)[5] = t5
    BY SMTT(60)
  <2>7. (<<t1>> \o (<<t2>> \o <<t3>> \o <<t4>>) \o <<t5>> \o <<t6>>)[6] = t6
    BY SMTT(60)
  <2> QED  BY <1>3, <2>1, <2>2, <2>3, <2>4, <2>5, <2>6, <2>7, Zenon
<1>5. t1.call = [op |-> "BootloaderDone"] /\ t1.must = Code("OK")
  BY <1>2
<1>6. t2.call = [op |-> "GetResetChallenge"] /\ t2.must = Code("OK")
  BY <1>2
<1>7. t3.call = Reset("PRODUCTION", "zeros")
  BY <1>2
<1>8. t4.call = [op |-> "GetState"] /\ t4.must = [production |-> {FALSE}]
  BY <1>2
<1>9. t5.call = Reset("LOCKS", "zeros") /\ t5.must = Code("OK")
  BY <1>2
<1>10. t6.call = [op |-> "GetState"]
  BY <1>2
<1> HIDE DEF s1, s2, s3, s4, s5, s6
<1> QED  BY <1>4, <1>5, <1>6, <1>7, <1>8, <1>9, <1>10

\* What SetUp sends.
LEMMA SetUpRequests ==
  ASSUME SettingUp
  PROVE  /\ Program = SetUp
         /\ pc = 1 => Request.op = "BootloaderDone" /\ Current.must = Code("OK")
         /\ pc = 2 => Request.op = "GetResetChallenge" /\ Current.must = Code("OK")
         /\ pc = 3 => Request.op = "Reset" /\ Request.kind = "PRODUCTION"
         /\ pc = 4 => Request.op = "GetState" /\ Current.must = [production |-> {FALSE}]
         /\ pc = 5 => Request.op = "Reset" /\ Request.kind = "LOCKS" /\ Current.must = Code("OK")
         /\ pc = 6 => Request.op = "GetState"
         /\ pc \in {4, 6} => Current.call.op = "GetState"
<1>1. Program = SetUp
  BY DEF Program, SettingUp
<1>2. Current = SetUp[pc]
  BY <1>1 DEF Current
<1>3. CASE pc = 1
  BY <1>1, <1>2, <1>3, SetUpSteps DEF Request
<1>4. CASE pc = 2
  BY <1>1, <1>2, <1>4, SetUpSteps DEF Request
<1>5. CASE pc = 3
  BY <1>1, <1>2, <1>5, SetUpSteps DEF Request, Reset
<1>6. CASE pc = 4
  BY <1>1, <1>2, <1>6, SetUpSteps DEF Request
<1>7. CASE pc = 5
  BY <1>1, <1>2, <1>7, SetUpSteps DEF Request, Reset
<1>8. CASE pc = 6
  BY <1>1, <1>2, <1>8, SetUpSteps DEF Request
<1> QED  BY <1>1, <1>3, <1>4, <1>5, <1>6, <1>7, <1>8

\* A step further, if the firmware answers.
LEMMA Achieves ==
  ASSUME NEW n \in 1 .. 6, NEW d, IsDev(d), NEW k \in Nat, NEW e, IsDev(e),
         Achieved(n, d, k),
         n = 1 => e.bootloader = FALSE,
         n = 2 => e.bootloader = d.bootloader /\ e.nonce # 0,
         n = 3 => e.bootloader = FALSE /\ (d.nonce # 0 => Blank(e)),
         n = 4 => e = d /\ e.production = FALSE,
         n = 5 => /\ e.locks = Unlocked /\ e.bootloader = d.bootloader
                  /\ e.production = FALSE /\ (Blank(d) => Blank(e)),
         n = 6 => e = d
  PROVE  Achieved(n + 1, e, k)
<1>1. CASE n = 1
  BY <1>1 DEF Achieved
<1>2. CASE n = 2
  BY <1>2 DEF Achieved
<1>3. CASE n = 3
  BY <1>3 DEF Achieved
<1>4. CASE n = 4
  BY <1>4 DEF Achieved
<1>5. CASE n = 5
  BY <1>5 DEF Achieved
<1>6. CASE n = 6
  BY <1>6 DEF Achieved
<1> QED  BY <1>1, <1>2, <1>3, <1>4, <1>5, <1>6

\* The firmware answers a call of SetUp.
LEMMA SetUpCall ==
  ASSUME IInv, SettingUp, Call, ~fatal'
  PROVE  pc' = pc + 1 /\ pc \in Nat \ {0} /\ Achieved(pc, dev, lost)'
<1>1. PICK o \in Outcomes(dev, fault, Request) : Answered(Current, o)
  BY DEF Call
<1>2. Meets(o.reply, Current.must)
  BY <1>1 DEF Answered
<1>3. dev' = o.dev /\ pc' = pc + 1 /\ lost' = lost
  BY <1>1, <1>2 DEF Answered, After
<1>4. /\ fault = "none" /\ IsDev(dev) /\ lost \in Nat
      /\ pc \in Nat \ {0} /\ Achieved(pc, dev, lost)
  BY DEF IInv, SetUpInv, SettingUp
<1>5. pc \in 1 .. 6
  <2>1. Program = SetUp /\ Len(SetUp) = 6 /\ pc <= Len(Program)
    BY SetUpRequests, SetUpSteps DEF Call, Running
  <2>2. pc <= 6
    BY <2>1
  <2> QED  BY <1>4, <2>2
<1>6. PICK n \in 1 .. 6 : n = pc
  BY <1>5
<1>7. PICK k \in Nat : k = lost
  BY <1>4
<1>8. PICK d, c, e : d = dev /\ c = Request /\ e = o.dev
  OBVIOUS
<1>9. n = pc /\ d = dev /\ k = lost /\ c = Request /\ e = o.dev
  BY <1>6, <1>7, <1>8
<1>10. IsDev(d) /\ IsDev(e) /\ Achieved(n, d, k) /\ o \in Outcomes(d, "none", c)
  <2>1. IsDev(d) /\ Achieved(n, d, k) /\ o \in Outcomes(d, "none", c)
    BY <1>1, <1>4, <1>9, Zenon
  <2>2. IsDev(o.dev)
    BY <2>1, KeepsFields
  <2> QED  BY <1>9, <2>1, <2>2
<1>11. n = 1 => e.bootloader = FALSE
  BY <1>9, <1>10, SetUpRequests, ServesBootloaderDone
<1>12. n = 2 => e.bootloader = d.bootloader /\ e.nonce # 0
  BY <1>9, <1>10, SetUpRequests, ServesChallenge
<1>13. n = 3 => e.bootloader = FALSE /\ (d.nonce # 0 => Blank(e))
  <2> HAVE n = 3
  <2>1. d.bootloader = FALSE
    BY <1>10 DEF Achieved
  <2> QED  BY <1>9, <1>10, <2>1, SetUpRequests, ServesProductionReset
<1>14. n = 4 => e = d /\ e.production = FALSE
  <2> HAVE n = 4
  <2>1. e = d /\ o.reply.production = d.production
    BY <1>9, <1>10, SetUpRequests, ServesGetState
  <2>2. o.reply.production = FALSE
    <3>1. Meets(o.reply, [production |-> {FALSE}])
      BY <1>2, <1>9, SetUpRequests
    <3> QED  BY <3>1 DEF Meets
  <2> QED  BY <2>1, <2>2
<1>15. n = 5 => /\ e.locks = Unlocked /\ e.bootloader = d.bootloader
                /\ e.production = FALSE /\ (Blank(d) => Blank(e))
  <2> HAVE n = 5
  <2>1. d.production = FALSE
    BY <1>10 DEF Achieved
  <2> QED  BY <1>9, <1>10, <2>1, SetUpRequests, ServesLockReset
<1>16. n = 6 => e = d
  BY <1>9, <1>10, SetUpRequests, ServesGetState
<1>17. Achieved(n + 1, e, k)
  BY <1>10, <1>11, <1>12, <1>13, <1>14, <1>15, <1>16, Achieves
<1> QED  BY <1>3, <1>4, <1>9, <1>17

\* A call of SetUp is lost and no ASSERT notices: the reset of the production
\* mode, whose status nobody looks at.
LEMMA SetUpCallLost ==
  ASSUME IInv, SettingUp, CallLost, ~fatal'
  PROVE  pc' = pc + 1 /\ pc \in Nat \ {0} /\ Achieved(pc, dev, lost)'
<1>1. Lost(Current, Outcomes(dev, fault, Request), Current.call.op = "GetState")
  BY DEF CallLost
<1>2. /\ Meets([code |-> "IO"], Current.must) /\ Current.call.op # "GetState"
      /\ lost' = lost + 1
      /\ dev' \in {dev} \union {o.dev : o \in Outcomes(dev, fault, Request)}
      /\ pc' = pc + 1
  BY <1>1 DEF Lost, After
<1>3. /\ fault = "none" /\ IsDev(dev) /\ lost \in Nat
      /\ pc \in Nat \ {0} /\ Achieved(pc, dev, lost)
  BY DEF IInv, SetUpInv, SettingUp
<1>4. pc \in 1 .. 6
  <2>1. Program = SetUp /\ Len(SetUp) = 6 /\ pc <= Len(Program)
    BY SetUpRequests, SetUpSteps DEF CallLost, Running
  <2>2. pc <= 6
    BY <2>1
  <2> QED  BY <1>3, <2>2
<1>5. pc = 3
  <2>1. Current.must # Code("OK")
    BY <1>2 DEF Meets, Code
  <2>2. pc # 1 /\ pc # 2 /\ pc # 5
    BY <2>1, SetUpRequests
  <2>3. pc # 4 /\ pc # 6
    BY <1>2, SetUpRequests
  <2> QED  BY <1>4, <2>2, <2>3
<1>6. dev.bootloader = FALSE
  BY <1>3, <1>5 DEF Achieved
<1>7. dev'.bootloader = FALSE
  <2>1. CASE dev' = dev
    BY <1>6, <2>1
  <2>2. ASSUME NEW o \in Outcomes(dev, fault, Request), dev' = o.dev PROVE dev'.bootloader = FALSE
    <3>1. PICK d, c : d = dev /\ c = Request
      OBVIOUS
    <3>2. /\ IsDev(d) /\ o \in Outcomes(d, "none", c) /\ d.bootloader = FALSE
          /\ c.op = "Reset" /\ c.kind = "PRODUCTION"
      BY <1>3, <1>5, <1>6, <2>2, <3>1, SetUpRequests
    <3>3. o.dev.bootloader = FALSE
      BY <3>2, ServesProductionReset
    <3> QED  BY <2>2, <3>3
  <2> QED  BY <1>2, <2>1, <2>2
<1>8. lost' # 0 /\ pc' = 4
  BY <1>2, <1>3, <1>5
<1> QED  BY <1>2, <1>3, <1>7, <1>8 DEF Achieved

\* SetUp does nothing but call the firmware.
LEMMA NoLocalSteps ==
  ASSUME IInv, SettingUp, Running
  PROVE  ~Local
<1>1. Program = SetUp /\ Len(SetUp) = 6 /\ pc <= Len(Program) /\ pc \in Nat \ {0}
  BY SetUpRequests, SetUpSteps DEF Running, IInv, SetUpInv
<1>2. PICK n \in 1 .. 6 : n = pc
  BY <1>1
<1>3. Current = SetUp[n]
  BY <1>1, <1>2 DEF Current
<1>4. SetUp[n].call.op \in {"BootloaderDone", "GetResetChallenge", "Reset", "GetState"}
  BY SetUpSteps DEF Reset
<1> QED  BY <1>3, <1>4 DEF Local

----------------------------------------------------------------------------
(* The invariant.                                                           *)

\* The firmware keeps its fields, and lost calls are counted.
LEMMA DevStep ==
  ASSUME IInv, [Next]_vars
  PROVE  IsDev(dev)' /\ lost' \in Nat
<1>1. IsDev(dev) /\ lost \in Nat
  BY DEF IInv
<1>2. ASSUME NEW o \in Outcomes(dev, fault, Request), dev' = o.dev PROVE IsDev(dev)'
  <2>1. PICK d, f, c : d = dev /\ f = fault /\ c = Request
    OBVIOUS
  <2>2. IsDev(d) /\ o \in Outcomes(d, f, c)
    BY <1>1, <1>2, <2>1, Zenon
  <2>3. IsDev(o.dev)
    BY <2>2, KeepsFields
  <2> QED  BY <1>2, <2>3
<1>3. CASE Call
  <2>1. PICK o \in Outcomes(dev, fault, Request) : dev' = o.dev /\ lost' = lost
    BY <1>3 DEF Call, Answered
  <2> QED  BY <1>1, <1>2, <2>1
<1>4. CASE CallLost
  <2>1. /\ dev' \in {dev} \union {o.dev : o \in Outcomes(dev, fault, Request)}
        /\ lost' = lost + 1
    BY <1>4 DEF CallLost, Lost
  <2>2. lost' \in Nat
    BY <1>1, <2>1
  <2>3. CASE dev' = dev
    BY <1>1, <2>2, <2>3
  <2>4. CASE \E o \in Outcomes(dev, fault, Request) : dev' = o.dev
    BY <1>2, <2>2, <2>4
  <2> QED  BY <2>1, <2>3, <2>4
<1>5. CASE dev' = dev /\ lost' \in {lost, 0}
  BY <1>1, <1>5
<1> QED
  BY <1>3, <1>4, <1>5 DEF Next, vars, gtestVars, Start, Begin, LocalStep, EndPhase, EndOfPhase

\* Every step keeps what SetUp has achieved.
LEMMA SetUpStep ==
  ASSUME IInv, [Next]_vars
  PROVE  SetUpInv'
<1> SUFFICES ASSUME SettingUp' PROVE (pc \in Nat \ {0} /\ Achieved(pc, dev, lost))'
  BY DEF SetUpInv
<1>1. CASE \E t \in Tests : Start(t)
  <2>1. pc' = 1
    BY <1>1 DEF Start, Begin
  <2> QED  BY <2>1 DEF Achieved
<1>2. CASE Call
  <2>1. SettingUp /\ ~fatal'
    BY <1>2 DEF SettingUp, Call, Answered
  <2>2. pc' = pc + 1 /\ pc \in Nat \ {0} /\ Achieved(pc, dev, lost)'
    BY <1>2, <2>1, SetUpCall
  <2> QED  BY <2>2
<1>3. CASE CallLost
  <2>1. SettingUp /\ ~fatal'
    BY <1>3 DEF SettingUp, CallLost, Lost
  <2>2. pc' = pc + 1 /\ pc \in Nat \ {0} /\ Achieved(pc, dev, lost)'
    BY <1>3, <2>1, SetUpCallLost
  <2> QED  BY <2>2
<1>4. CASE LocalStep
  <2>1. SettingUp /\ Running /\ Local
    BY <1>4 DEF LocalStep, SettingUp
  <2> QED  BY <2>1, NoLocalSteps
<1>5. CASE EndPhase
  BY <1>5 DEF EndPhase, EndOfPhase, SettingUp
<1>6. CASE UNCHANGED vars
  <2>1. SettingUp /\ pc' = pc /\ dev' = dev /\ lost' = lost
    BY <1>6 DEF vars, gtestVars, SettingUp
  <2> QED  BY <2>1 DEF IInv, SetUpInv
<1> QED  BY <1>1, <1>2, <1>3, <1>4, <1>5, <1>6 DEF Next

\* It holds of the firmware as earlier runs left it.
LEMMA InitIInv ==
  ASSUME Init
  PROVE  IInv
<1>1. IsDev(dev)
  BY DEF Init, IsDev, DevFields
<1>2. lost \in Nat /\ phase = "idle"
  BY DEF Init, Idle
<1> QED  BY <1>1, <1>2 DEF IInv, SetUpInv, SettingUp

\* What SetUp has achieved at each of its steps, of every reachable state.
THEOREM Invariance == Spec => []IInv
<1>1. Init => IInv
  BY InitIInv
<1>2. IInv /\ [Next]_vars => IInv'
  BY DevStep, SetUpStep DEF IInv
<1> QED  BY <1>1, <1>2, PTL DEF Spec

\* The body of a test starts on a firmware in the HLOS, out of production and
\* unlocked, whatever the tests before it did and whichever calls of SetUp were
\* lost; if none was lost, its user data is blank too.
THEOREM CleanStartHolds == Spec => CleanStart
<1>1. IInv /\ [Next]_vars =>
        [BodyStarts /\ fault = "none" /\ test # "SetRootOfTrust" =>
           Clean' /\ (lost = 0 => UserDataBlank')]_vars
  <2> SUFFICES ASSUME IInv, [Next]_vars, BodyStarts, fault = "none", test # "SetRootOfTrust"
               PROVE  Clean' /\ (lost = 0 => UserDataBlank')
    OBVIOUS
  <2>1. EndPhase
    BY DEF Next, vars, gtestVars, BodyStarts, Start, Begin, Call, Answered, CallLost, Lost,
       LocalStep
  <2>2. dev' = dev /\ ~fatal /\ pc > Len(Program)
    BY <2>1 DEF EndPhase, EndOfPhase, BodyStarts, SkipsBody
  <2>3. SettingUp
    BY <2>2 DEF SettingUp, BodyStarts
  <2>4. pc \in Nat \ {0} /\ Achieved(pc, dev, lost)
    BY <2>3 DEF IInv, SetUpInv
  <2>5. PICK n \in Nat : n = pc /\ n > 6
    <3>1. Program = SetUp /\ Len(SetUp) = 6
      BY <2>3, SetUpRequests, SetUpSteps
    <3> QED  BY <2>2, <2>4, <3>1
  <2>6. /\ dev.bootloader = FALSE /\ dev.production = FALSE /\ dev.locks = Unlocked
        /\ lost = 0 => Blank(dev)
    BY <2>4, <2>5 DEF Achieved
  <2>7. Clean'
    BY <2>2, <2>6 DEF Clean
  <2>8. lost = 0 => UserDataBlank'
    BY <2>2, <2>6 DEF UserDataBlank, Blank
  <2> QED  BY <2>7, <2>8
<1> QED  BY <1>1, Invariance, PTL DEF Spec, CleanStart

----------------------------------------------------------------------------
(* A firmware without one of its rules.  Each test written for the rule has *)
(* a decisive step: a call only this rule would have refused, or a look at  *)
(* what only this rule would have kept, with an assertion that no other     *)
(* answer meets.  A test that has not failed is not past that step.         *)

\* The locks are a function on the four locks.
HasLocks(d) == d.locks = [l \in Lock |-> d.locks[l]]

\* The test that runs is written for the rule the firmware breaks.
Blameable ==
  /\ fault # "none" /\ test \in DetectedBy[fault]
  /\ fault = "ResetIsSigned" => lost = 0

\* The step of the test that asks for what the rule forbids.
Decisive ==
  [DeviceLockNeedsHlos |-> [DeviceLockTest |-> 3, BootLockTest |-> 26],
   DeviceLockIsSet |-> [DeviceLockTest |-> 10],
   BootLockNeedsBootloader |-> [BootLockTest |-> 2],
   CarrierFreezesBootLock |-> [BootLockTest |-> 17],
   DeviceFreezesBootLock |-> [BootLockTest |-> 31],
   OwnerLockIsSet |-> [OwnerLockTest |-> 4],
   OwnerLockNeedsBootUnlocked |-> [OwnerLockTest |-> 11],
   CarrierLockNeedsDevelopment |-> [CarrierLockTest |-> 7],
   LocksNeedDevelopment |-> [Reset |-> 7],
   NonceIsSpent |-> [ResetProductionValid |-> 6],
   ProductionIsFinal |-> [ProductionMode |-> 9],
   StoreNeedsBootloader |-> [Rollback |-> 2],
   UnlockIsSigned |-> [CarrierUnlockTest |-> 2],
   ResetIsSigned |-> [ResetProductionValid |-> 4, ProductionResetTestValid |-> 3],
   ProductionKeepsLocks |-> [ProductionMode |-> 8],
   WipeKeepsLocks |-> [WipeUserDataDoesNotLockDeviceLock |-> 3]]

\* What the test knows of the firmware before its step n: no other rule will
\* refuse the decisive step, and a broken answer will differ from a right one.
Known(f, t, n, d) ==
  /\ f = "CarrierFreezesBootLock" => d.locks["DEVICE"] = 0
  /\ f = "DeviceFreezesBootLock" /\ n >= 24 => d.locks["CARRIER"] = 0
  /\ f = "OwnerLockIsSet" => d.locks["BOOT"] = 0
  /\ f = "OwnerLockNeedsBootUnlocked" /\ n >= 7 => d.locks["OWNER"] = 0
  /\ f = "ResetIsSigned" /\ t = "ResetProductionValid" /\ n >= 3 => d.nonce # 0
  /\ f = "ProductionKeepsLocks" /\ n = 8 => d.locks["OWNER"] = 0
  /\ f = "WipeKeepsLocks" /\ n = 3 => d.locks["DEVICE"] = 1

\* Failures are reported, and a test that has not failed left out no step.
ReportInv ==
  /\ phase \in {"idle", "setup", "body"} /\ (fatal => failed)
  /\ ~failed => pc \in Nat \ {0}

\* A SetUp that has not failed has seen the locks.
UnlockedInv ==
  phase = "setup" /\ ~failed /\ test # "SetRootOfTrust" /\ pc > 6 => dev.locks = Unlocked

\* A test that has not failed is not past its decisive step.
DecisiveInv ==
  phase = "body" /\ Blameable /\ ~failed =>
    pc <= Decisive[fault][test] /\ Known(fault, test, pc, dev)

\* The inductive invariant.
FaultInv ==
  /\ IInv /\ HasLocks(dev) /\ fault \in FirmwareRule \union {"none"}
  /\ ReportInv /\ UnlockedInv /\ DecisiveInv /\ FaultDetected

----------------------------------------------------------------------------
(* The steps of the tests that matter.                                      *)

\* The call does not touch the lock l.
LeavesLock(c, l) ==
  "op" \in DOMAIN c /\ c.op # "WipeUserData" /\ (c.op = "SetLock" => c.lock # l)

\* CarrierLockTest tries to lock the carrier lock in production mode.
LEMMA CarrierLockSteps ==
  /\ Len(CarrierLockTest) \in Nat /\ Len(CarrierLockTest) >= 7
  /\ CarrierLockTest[7].call = [op |-> "SetLock", lock |-> "CARRIER", value |-> \h12,
                                key |-> "none"]
  /\ CarrierLockTest[7].must = Code("AUTHORIZATION")
BY DEF CarrierLockTest, SetCarrierLock, SetLock, Locks, GetState, SetBootloader, SetProduction,
   BootloaderDone, AssertCode, Step

\* CarrierUnlockTest offers a signature of another nonce.
LEMMA CarrierUnlockSteps ==
  /\ Len(CarrierUnlockTest) \in Nat /\ Len(CarrierUnlockTest) >= 2
  /\ CarrierUnlockTest[2].call = [op |-> "CarrierLockTest", signed |-> 1, nonce |-> 2]
  /\ CarrierUnlockTest[2].must = Code("AUTHORIZATION")
BY DEF CarrierUnlockTest, AssertCode, Step

\* DeviceLockTest sets the device lock in the bootloader, and once it is set.
LEMMA DeviceLockSteps ==
  /\ Len(DeviceLockTest) \in Nat /\ Len(DeviceLockTest) >= 10
  /\ DeviceLockTest[3].call = [op |-> "SetLock", lock |-> "DEVICE", value |-> \h12, key |-> "none"]
  /\ DeviceLockTest[3].must = Code("HLOS")
  /\ DeviceLockTest[10].call = [op |-> "SetLock", lock |-> "DEVICE", value |-> \h56, key |-> "none"]
  /\ DeviceLockTest[10].must = Code("DENIED")
BY DEF DeviceLockTest, SetDeviceLock, SetLock, Locks, GetState, SetBootloader, SetProduction,
   ResetProduction, GetResetChallenge, AssertCode, Step

\* OwnerLockTest changes the owner lock while it is set, and while the boot
\* lock is.
LEMMA OwnerLockSteps ==
  /\ Len(OwnerLockTest) \in Nat /\ Len(OwnerLockTest) >= 11
  /\ \A i \in 1 .. 3 : LeavesLock(OwnerLockTest[i].call, "BOOT")
  /\ OwnerLockTest[4].call =
       [op |-> "SetLock", lock |-> "OWNER", value |-> \h87, key |-> "owner_key"]
  /\ OwnerLockTest[4].must = Code("DENIED")
  /\ OwnerLockTest[6].call = [op |-> "SetLock", lock |-> "OWNER", value |-> 0, key |-> "owner_key"]
  /\ OwnerLockTest[6].must = Code("OK")
  /\ \A i \in 7 .. 10 : LeavesLock(OwnerLockTest[i].call, "OWNER")
  /\ OwnerLockTest[11].call =
       [op |-> "SetLock", lock |-> "OWNER", value |-> \h21, key |-> "owner_key"]
  /\ OwnerLockTest[11].must = Code("DENIED")
BY DEF OwnerLockTest, SetOwnerLock, SetBootLock, SetLock, Locks, GetState, SetBootloader,
   GetOwnerKey, AssertCode, Step, LeavesLock

\* ResetTest resets the locks in production mode.
LEMMA ResetSteps ==
  /\ Len(ResetTest) \in Nat /\ Len(ResetTest) >= 7
  /\ ResetTest[7].call = Reset("LOCKS", "zeros") /\ ResetTest[7].must = Code("DENIED")
BY DEF ResetTest, ResetLocks, SetBootLock, SetDeviceLock, SetLock, GetState, SetBootloader,
   SetProduction, BootloaderDone, ResetProduction, GetResetChallenge, AssertCode, Step

\* ResetProductionValid offers a changed signature, and one with no nonce left.
LEMMA ResetProductionValidSteps ==
  /\ Len(ResetProductionValid) \in Nat /\ Len(ResetProductionValid) >= 6
  /\ ResetProductionValid[2].call = [op |-> "GetResetChallenge"]
  /\ ResetProductionValid[3].call = [op |-> "SignChallenge"]
  /\ ResetProductionValid[4].call = Reset("PRODUCTION", "changed")
  /\ ResetProductionValid[4].should = [code |-> Error]
  /\ ResetProductionValid[6].call = Reset("PRODUCTION", "signed")
  /\ ResetProductionValid[6].should = [code |-> {"DENIED"}]
BY DEF ResetProductionValid, GetResetChallenge, SignChallenge, AssertCode, Step

\* ProductionResetTestValid offers a changed signature.
LEMMA ProductionResetTestValidSteps ==
  /\ Len(ProductionResetTestValid) \in Nat /\ Len(ProductionResetTestValid) >= 3
  /\ ProductionResetTestValid[3].call = ProductionResetTest("changed")
  /\ ProductionResetTestValid[3].should = [code |-> Error]
BY DEF ProductionResetTestValid, Message, GetResetChallenge, SignChallenge, AssertCode, Step

\* ProductionMode looks at the locks after it enters production, and tries to
\* leave it.
LEMMA ProductionModeSteps ==
  /\ Len(ProductionMode) \in Nat /\ Len(ProductionMode) >= 9
  /\ ProductionMode[7].call = [op |-> "SetProduction", production |-> TRUE, data |-> ZERO_DATA]
  /\ ProductionMode[7].must = Code("OK")
  /\ ProductionMode[8].call = [op |-> "GetState"]
  /\ ProductionMode[8].must = [production |-> {TRUE}, OWNER |-> {\h11}, BOOT |-> {\h22},
                               CARRIER |-> {\h33}, DEVICE |-> {\h44}]
  /\ ProductionMode[9].call = [op |-> "SetProduction", production |-> FALSE, data |-> ZERO_DATA]
  /\ ProductionMode[9].must = Code("AUTHORIZATION")
<1>1. PICK m1, m8, c7, c9 :
        /\ m1 = [production |-> {FALSE}]
        /\ c7 = [op |-> "SetProduction", production |-> TRUE, data |-> ZERO_DATA]
        /\ m8 = [production |-> {TRUE}, OWNER |-> {\h11}, BOOT |-> {\h22},
                 CARRIER |-> {\h33}, DEVICE |-> {\h44}]
        /\ c9 = [op |-> "SetProduction", production |-> FALSE, data |-> ZERO_DATA]
  OBVIOUS
<1>2. ProductionMode =
        GetState(m1) \o SetBootloader
          \o SetOwnerLock(\h11, "none", "OK") \o SetBootLock(\h22, "OK")
          \o SetCarrierLock(\h33, "OK") \o SetDeviceLock(\h44, "OK")
          \o AssertCode(c7, "OK") \o GetState(m8)
          \o AssertCode(c9, "AUTHORIZATION") \o BootloaderDone
          \o AssertCode(c9, "AUTHORIZATION")
  BY <1>1, Zenon DEF ProductionMode, SetProduction
<1>3. /\ Len(ProductionMode) \in Nat /\ Len(ProductionMode) >= 9
      /\ ProductionMode[7].call = c7 /\ ProductionMode[7].must = Code("OK")
      /\ ProductionMode[8].call = [op |-> "GetState"] /\ ProductionMode[8].must = m8
      /\ ProductionMode[9].call = c9 /\ ProductionMode[9].must = Code("AUTHORIZATION")
  BY <1>2 DEF GetState, SetBootloader, SetOwnerLock, SetBootLock, SetCarrierLock,
     SetDeviceLock, SetLock, BootloaderDone, AssertCode, Step
<1> QED  BY <1>1, <1>3, Zenon

\* The test of WipeUserData looks at the device lock after it.
LEMMA WipeSteps ==
  /\ Len(WipeUserDataDoesNotLockDeviceLock) \in Nat /\ Len(WipeUserDataDoesNotLockDeviceLock) >= 3
  /\ WipeUserDataDoesNotLockDeviceLock[2].call = [op |-> "WipeUserData"]
  /\ WipeUserDataDoesNotLockDeviceLock[2].must = Code("OK")
  /\ WipeUserDataDoesNotLockDeviceLock[3].call = [op |-> "GetState"]
  /\ WipeUserDataDoesNotLockDeviceLock[3].should = [DEVICE |-> {0}]
BY DEF WipeUserDataDoesNotLockDeviceLock, SetDeviceLock, SetLock, WipeUserData, AssertCode, Step

\* BootLockTest tries each of the ways in which a lock may be refused.
LEMMA BootLockSteps ==
  /\ Len(BootLockTest) \in Nat /\ Len(BootLockTest) >= 31
  /\ BootLockTest[2].call = [op |-> "SetLock", lock |-> "BOOT", value |-> \h12, key |-> "none"]
  /\ BootLockTest[2].must = Code("BOOTLOADER")
  /\ BootLockTest[17].call = [op |-> "SetLock", lock |-> "BOOT", value |-> 0, key |-> "none"]
  /\ BootLockTest[17].must = Code("DENIED")
  /\ BootLockTest[23].call = Reset("LOCKS", "zeros") /\ BootLockTest[23].must = Code("OK")
  /\ BootLockTest[26].call = [op |-> "SetLock", lock |-> "DEVICE", value |-> \h78, key |-> "none"]
  /\ BootLockTest[26].must = Code("HLOS")
  /\ BootLockTest[31].call = [op |-> "SetLock", lock |-> "BOOT", value |-> 0, key |-> "none"]
  /\ BootLockTest[31].must = Code("DENIED")
BY DEF BootLockTest, SetBootLock, SetCarrierLock, SetDeviceLock, SetLock, Locks, GetState,
   ResetLocks, SetBootloader, SetProduction, BootloaderDone, ResetProduction,
   GetResetChallenge, AssertCode, Step

\* Up to its first attempt on a frozen lock it leaves the device lock alone.
LEMMA BootLockLeavesDevice ==
  \A i \in 1 .. 16 : LeavesLock(BootLockTest[i].call, "DEVICE")
<1> DEFINE Leaves(i) == LeavesLock(BootLockTest[i].call, "DEVICE")
<1> USE DEF BootLockTest, SetBootLock, SetCarrierLock, SetDeviceLock, SetLock, Locks, GetState,
     ResetLocks, SetBootloader, SetProduction, BootloaderDone, ResetProduction,
     GetResetChallenge, Reset, AssertCode, Step, LeavesLock
<1>1. Leaves(1)
  OBVIOUS
<1>2. Leaves(2)
  OBVIOUS
<1>3. Leaves(3)
  OBVIOUS
<1>4. Leaves(4)
  OBVIOUS
<1>5. Leaves(5)
  OBVIOUS
<1>6. Leaves(6)
  OBVIOUS
<1>7. Leaves(7)
  OBVIOUS
<1>8. Leaves(8)
  OBVIOUS
<1>9. Leaves(9)
  OBVIOUS
<1>10. Leaves(10)
  OBVIOUS
<1>11. Leaves(11)
  OBVIOUS
<1>12. Leaves(12)
  OBVIOUS
<1>13. Leaves(13)
  OBVIOUS
<1>14. Leaves(14)
  OBVIOUS
<1>15. Leaves(15)
  OBVIOUS
<1>16. Leaves(16)
  OBVIOUS
<1> HIDE DEF Leaves
<1>17. \A i \in 1 .. 16 : Leaves(i)
  BY <1>1, <1>2, <1>3, <1>4, <1>5, <1>6, <1>7, <1>8, <1>9, <1>10,
     <1>11, <1>12, <1>13, <1>14, <1>15, <1>16
<1> QED  BY <1>17 DEF Leaves

\* After its second reset of the locks it leaves the carrier lock alone.
LEMMA BootLockLeavesCarrier ==
  \A i \in 24 .. 30 : LeavesLock(BootLockTest[i].call, "CARRIER")
<1> DEFINE Leaves(i) == LeavesLock(BootLockTest[i].call, "CARRIER")
<1> USE DEF BootLockTest, SetBootLock, SetCarrierLock, SetDeviceLock, SetLock, Locks, GetState,
     ResetLocks, SetBootloader, SetProduction, BootloaderDone, ResetProduction,
     GetResetChallenge, Reset, AssertCode, Step, LeavesLock
<1>1. Leaves(24)
  OBVIOUS
<1>2. Leaves(25)
  OBVIOUS
<1>3. Leaves(26)
  OBVIOUS
<1>4. Leaves(27)
  OBVIOUS
<1>5. Leaves(28)
  OBVIOUS
<1>6. Leaves(29)
  OBVIOUS
<1>7. Leaves(30)
  OBVIOUS
<1> HIDE DEF Leaves
<1>8. \A i \in 24 .. 30 : Leaves(i)
  BY <1>1, <1>2, <1>3, <1>4, <1>5, <1>6, <1>7
<1> QED  BY <1>8 DEF Leaves

\* Rollback stores a version outside the bootloader.
LEMMA RollbackSteps ==
  /\ Len(Rollback) \in Nat /\ Len(Rollback) >= 2 /\ Rollback[2].call.op = "Store"
  /\ Rollback[2].must = Code("BOOTLOADER")
<1>1. PICK n, u, p, r, b, s :
        /\ n = Slots /\ n \in Nat \ {0}
        /\ u = Store(1, <<"ff", 1>>, "BOOTLOADER") \o Load(1, NO_VERSION)
        /\ p = SetProduction(TRUE, ZERO_DATA, "OK") /\ b = SetBootloader
        /\ r = [i \in 1 .. n |-> Store(i, <<"ff", i>>, "BOOTLOADER") \o Load(i, NO_VERSION)]
        /\ s = [i \in 1 .. n |-> Store(i, <<"ff", i>>, "OK") \o Load(i, <<"ff", i>>)
                                    \o Store(i, <<"88", i>>, "OK") \o Load(i, <<"88", i>>)]
  BY AvbAssumption
<1>2. Rollback = p \o Loop(2, r) \o b \o Loop(4, s)
  BY <1>1, Zenon DEF Rollback
<1>3. PICK x, y : p = <<x>> /\ b = <<y>>
  BY <1>1 DEF SetProduction, SetBootloader, AssertCode, Step
<1>4. /\ Loop(2, r) = [k \in 1 .. n * 2 |-> r[1 + (k - 1) \div 2][1 + ((k - 1) % 2)]]
      /\ Loop(4, s) = [k \in 1 .. n * 4 |-> s[1 + (k - 1) \div 4][1 + ((k - 1) % 4)]]
  BY <1>1 DEF Loop
<1>5. PICK v, w, j, k :
        /\ v = Loop(2, r) /\ w = Loop(4, s) /\ j = n * 2 /\ k = n * 4
        /\ j \in Nat \ {0} /\ k \in Nat
  <2>1. n * 2 \in Nat \ {0} /\ n * 4 \in Nat
    BY <1>1
  <2> QED  BY <2>1, Zenon
<1>6. v = [i \in 1 .. j |-> v[i]] /\ w = [i \in 1 .. k |-> w[i]]
  BY <1>4, <1>5
<1>7. v[1] = u[1]
  <2>1. 1 \in 1 .. j /\ 1 \in 1 .. n /\ 1 + (1 - 1) \div 2 = 1 /\ 1 + ((1 - 1) % 2) = 1
    BY <1>1, <1>5
  <2>2. v[1] = r[1][1]
    BY <1>4, <1>5, <2>1
  <2>3. r[1] = u
    BY <1>1, <2>1
  <2> QED  BY <2>2, <2>3
<1>8. u[1].call.op = "Store" /\ u[1].must = Code("BOOTLOADER")
  BY <1>1 DEF Store, Load, AssertCode, Step
<1>9. Len(Rollback) = 2 + j + k /\ Rollback[2] = v[1]
  <2>1. PICK S : x \in S /\ y \in S /\ v \in Seq(S) /\ w \in Seq(S) /\ Len(v) = j /\ Len(w) = k
    <3> DEFINE S == {x, y} \union {v[i] : i \in 1 .. j} \union {w[i] : i \in 1 .. k}
    <3>1. \A i \in 1 .. j : v[i] \in S
      OBVIOUS
    <3>2. \A i \in 1 .. k : w[i] \in S
      OBVIOUS
    <3>3. x \in S /\ y \in S
      OBVIOUS
    <3> HIDE DEF S
    <3>4. v \in Seq(S) /\ Len(v) = j
      BY <1>5, <1>6, <3>1
    <3>5. w \in Seq(S) /\ Len(w) = k
      BY <1>5, <1>6, <3>2
    <3> QED  BY <3>3, <3>4, <3>5
  <2>2. PICK q, z : q = <<x>> \o v /\ z = q \o <<y>>
    OBVIOUS
  <2>3. q \in Seq(S) /\ Len(q) = 1 + j /\ q[2] = v[1]
    BY <1>5, <2>1, <2>2
  <2>4. z \in Seq(S) /\ Len(z) = 2 + j /\ z[2] = v[1]
    BY <1>5, <2>1, <2>2, <2>3
  <2>5. Len(z \o w) = 2 + j + k /\ (z \o w)[2] = v[1]
    BY <1>5, <2>1, <2>4
  <2>6. Rollback = z \o w
    BY <1>2, <1>3, <1>5, <2>2
  <2> QED  BY <2>5, <2>6
<1> QED  BY <1>5, <1>7, <1>8, <1>9

----------------------------------------------------------------------------
(* The firmware's locks.                                                    *)

\* A production mode that is entered keeps or clears the locks.
LEMMA ServesSetProduction ==
  ASSUME NEW d, IsDev(d), NEW f, NEW c, c.op = "SetProduction", NEW o \in Outcomes(d, f, c)
  PROVE  /\ o.dev.locks \in {d.locks, Unlocked}
         /\ (f = "ProductionKeepsLocks" /\ c.production /\ o.reply.code = "OK" =>
               o.dev.locks = Unlocked)
<1>1. DOMAIN d = DevFields /\ DevFields = {"bootloader", "production", "locks", "nonce", "data",
                                            "versions", "key"}
  BY DEF IsDev, DevFields
<1>2. CASE o.dev = d /\ \E r \in Rules(d, c) : o.reply = Status(r.code)
  <2>1. o.reply.code = "AUTHORIZATION"
    BY <1>2 DEF Rules, Rule, Status
  <2> QED  BY <1>2, <2>1
<1>3. CASE o \in Effects(d, f, c)
  <2>1. o \in SetProductionEffects(d, f, c)
    BY <1>3 DEF Effects
  <2>2. CASE c.production
    <3>1. PICK b, x, v :
            \/ /\ v = IF f = "ProductionKeepsLocks" THEN Unlocked ELSE d.locks
               /\ o = Outcome([d EXCEPT !.production = b, !.data = x, !.locks = v], Status("OK"))
            \/ o = Outcome(d, Status("AUTHORIZATION"))
      BY <1>1, <2>1, <2>2 DEF SetProductionEffects, Done
    <3>2. CASE o = Outcome(d, Status("AUTHORIZATION"))
      BY <3>2 DEF Outcome, Status
    <3>3. CASE /\ v = IF f = "ProductionKeepsLocks" THEN Unlocked ELSE d.locks
               /\ o = Outcome([d EXCEPT !.production = b, !.data = x, !.locks = v], Status("OK"))
      <4>1. o.dev.locks = v
        BY <1>1, <3>3 DEF Outcome
      <4> QED  BY <3>3, <4>1
    <3> QED  BY <3>1, <3>2, <3>3
  <2>3. CASE ~c.production
    <3>1. PICK b : o = Outcome([d EXCEPT !.production = b], Status("OK"))
      BY <2>1, <2>3 DEF SetProductionEffects, Done
    <3>2. o.dev.locks = d.locks
      BY <1>1, <3>1 DEF Outcome
    <3> QED  BY <2>3, <3>2
  <2> QED  BY <2>2, <2>3
<1> QED  BY <1>2, <1>3, RefusedOrServed

\* A lock is a number of its own, which only its calls and the resets change.
LEMMA KeepsLocks ==
  ASSUME NEW d, IsDev(d), HasLocks(d), NEW f, NEW c, NEW o \in Outcomes(d, f, c)
  PROVE  /\ HasLocks(o.dev)
         /\ \A l \in Lock : LeavesLock(c, l) => o.dev.locks[l] \in {d.locks[l], 0}
<1>1. DOMAIN d = DevFields /\ DevFields = {"bootloader", "production", "locks", "nonce", "data",
                                            "versions", "key"}
  BY DEF IsDev, DevFields
<1>2. \/ /\ HasLocks(o.dev)
         /\ \A l \in Lock : LeavesLock(c, l) => o.dev.locks[l] \in {d.locks[l], 0}
      \/ o.dev.locks \notin {d.locks, Unlocked}
  BY DEF HasLocks, Unlocked
<1>3. CASE c.op = "SetLock" /\ o \in Effects(d, f, c)
  <2>1. o.dev = [d EXCEPT !.locks[c.lock] = c.value,
                          !.key = IF c.lock = "OWNER" THEN c.key ELSE @]
    BY <1>3 DEF Effects, SetLockEffects, Done, Outcome
  <2>2. o.dev.locks = [d.locks EXCEPT ![c.lock] = c.value]
    BY <1>1, <2>1
  <2>3. d.locks = [l \in Lock |-> d.locks[l]]
    BY DEF HasLocks
  <2>4. /\ o.dev.locks = [l \in Lock |-> o.dev.locks[l]]
        /\ \A l \in Lock : c.lock # l => o.dev.locks[l] = d.locks[l]
    BY <2>2, <2>3
  <2> QED  BY <1>3, <2>4 DEF HasLocks, LeavesLock
<1>4. CASE c.op = "SetProduction"
  BY <1>2, <1>4, ServesSetProduction
<1>5. CASE c.op = "WipeUserData" /\ o \in Effects(d, f, c)
  <2>1. o.dev = [d EXCEPT !.locks = [d.locks EXCEPT !["DEVICE"] = 1]] \/ o.dev = d
    BY <1>1, <1>5 DEF Effects, Done, Outcome
  <2>2. o.dev.locks = [d.locks EXCEPT !["DEVICE"] = 1] \/ o.dev.locks = d.locks
    BY <1>1, <2>1
  <2>3. HasLocks(o.dev)
    BY <2>2 DEF HasLocks
  <2> QED  BY <1>5, <2>3 DEF LeavesLock
<1>6. CASE c.op \notin {"SetLock", "SetProduction", "WipeUserData"} /\ o \in Effects(d, f, c)
  <2>1. CASE c.op = "Reset" /\ c.kind = "LOCKS"
    <3>1. o.dev = [d EXCEPT !.locks = Unlocked]
      BY <1>6, <2>1 DEF Effects, Done, Outcome
    <3> QED  BY <1>1, <1>2, <3>1
  <2>2. CASE c.op = "Reset" /\ c.kind = "PRODUCTION"
    <3>1. PICK b \in {d.bootloader, FALSE} :
            o.dev = [d EXCEPT !.production = FALSE, !.nonce = 0, !.data = ZERO_DATA,
                              !.versions = [s \in 1 .. Slots |-> NO_VERSION],
                              !.bootloader = b]
      BY <1>6, <2>2 DEF Effects, ResetProductionEffects, Outcome
    <3> QED  BY <1>1, <1>2, <3>1
  <2>3. CASE c.op = "GetResetChallenge"
    <3>1. Effects(d, f, c) = {Outcome([d EXCEPT !.nonce = n],
                                      [code |-> "OK", nonce |-> n, data |-> d.data])
                                : n \in Nonces \ {c.previous}}
      BY <2>3 DEF Effects
    <3>2. PICK n \in Nonces : o.dev = [d EXCEPT !.nonce = n]
      BY <1>6, <3>1 DEF Outcome
    <3> QED  BY <1>1, <1>2, <3>2
  <2>4. CASE c.op = "Store"
    <3>1. PICK v : o.dev = [d EXCEPT !.versions = v]
      BY <1>1, <1>6, <2>4 DEF Effects, Done, Outcome
    <3> QED  BY <1>1, <1>2, <3>1
  <2>5. CASE c.op = "SetBootloader" \/ c.op = "BootloaderDone"
    <3>1. PICK b : o \in Done([d EXCEPT !.bootloader = b])
      BY <1>6, <2>5 DEF Effects
    <3>2. o.dev = [d EXCEPT !.bootloader = b]
      BY <3>1 DEF Done, Outcome
    <3> QED  BY <1>1, <1>2, <3>2
  <2>6. CASE /\ c.op \notin {"SetBootloader", "BootloaderDone", "GetResetChallenge", "Store"}
             /\ ~(c.op = "Reset" /\ c.kind \in {"LOCKS", "PRODUCTION"})
    <3>1. o.dev = d
      BY <1>6, <2>6 DEF Effects, Done, Outcome
    <3> QED  BY <1>2, <3>1
  <2> QED  BY <2>1, <2>2, <2>3, <2>4, <2>5, <2>6
<1>7. CASE o.dev = d
  BY <1>2, <1>7
<1> QED  BY <1>3, <1>4, <1>5, <1>6, <1>7, RefusedOrServed

\* The status of a refused call is that of a rule which is enforced.
LEMMA RefusedCode ==
  ASSUME NEW d, NEW f, NEW c, NEW o \in Outcomes(d, f, c)
  PROVE  \/ o \in Effects(d, f, c)
         \/ o.dev = d /\ \E r \in Rules(d, c) : r.name # f /\ o.reply.code = r.code
<1>1. CASE o.dev = d /\ \E r \in Rules(d, c) : r.name # f /\ o.reply = Status(r.code)
  <2>1. PICK r \in Rules(d, c) : r.name # f /\ o.reply = Status(r.code)
    BY <1>1
  <2>2. o.reply.code = r.code
    BY <2>1 DEF Status
  <2> QED  BY <1>1, <2>1, <2>2
<1> QED  BY <1>1, RefusedOrServed

\* What the firmware's answers say of the state they leave, whatever rule it
\* breaks.
LEMMA AnswersSetLock ==
  ASSUME NEW d, IsDev(d), HasLocks(d), NEW f, NEW c, c.op = "SetLock", c.lock \in Lock,
         NEW o \in Outcomes(d, f, c), o.reply.code = "OK"
  PROVE  o.dev.locks[c.lock] = c.value
<1>1. \A r \in Rules(d, c) : r.code # "OK"
  BY DEF Rules, SetLockRules, Rule, Lock
<1>2. o \in Effects(d, f, c)
  BY <1>1, RefusedCode
<1>3. o.dev = [d EXCEPT !.locks[c.lock] = c.value,
                        !.key = IF c.lock = "OWNER" THEN c.key ELSE @]
  BY <1>2 DEF Effects, SetLockEffects, Done, Outcome
<1>4. d.locks = [l \in Lock |-> d.locks[l]] /\ DOMAIN d = DevFields /\ "locks" \in DevFields
  BY DEF HasLocks, IsDev, DevFields
<1> QED  BY <1>3, <1>4 DEF DevFields

\* A lock reset that is answered with success has cleared the locks.
LEMMA AnswersLockReset ==
  ASSUME NEW d, IsDev(d), NEW f, NEW c, c.op = "Reset", c.kind = "LOCKS",
         NEW o \in Outcomes(d, f, c), o.reply.code = "OK"
  PROVE  o.dev.locks = Unlocked
<1>1. \A r \in Rules(d, c) : r.code # "OK"
  BY DEF Rules, ResetRules, Rule
<1>2. o \in Effects(d, f, c)
  BY <1>1, RefusedCode
<1>3. o.dev = [d EXCEPT !.locks = Unlocked]
  BY <1>2 DEF Effects, Done, Outcome
<1> QED  BY <1>3 DEF IsDev, DevFields

\* A challenge is never the nonce 0.
LEMMA AnswersChallenge ==
  ASSUME NEW d, IsDev(d), NEW f, NEW c, c.op = "GetResetChallenge", NEW o \in Outcomes(d, f, c)
  PROVE  o.dev.nonce # 0
<1>1. Rules(d, c) = {}
  BY DEF Rules
<1>2. Effects(d, f, c) = {Outcome([d EXCEPT !.nonce = n],
                                  [code |-> "OK", nonce |-> n, data |-> d.data])
                            : n \in Nonces \ {c.previous}}
  BY DEF Effects
<1>3. o \in Effects(d, f, c)
  BY <1>1, RefusedOrServed
<1>4. PICK n \in Nonces : o.dev = [d EXCEPT !.nonce = n]
  BY <1>2, <1>3 DEF Outcome
<1>5. n # 0
  BY AvbAssumption
<1> QED  BY <1>4, <1>5 DEF IsDev, DevFields

\* Without its rule, WipeUserData leaves the device lock set.
LEMMA AnswersWipe ==
  ASSUME NEW d, IsDev(d), HasLocks(d), NEW c, c.op = "WipeUserData",
         NEW o \in Outcomes(d, "WipeKeepsLocks", c)
  PROVE  o.dev.locks["DEVICE"] = 1
<1>1. Rules(d, c) = {}
  BY DEF Rules
<1>2. o.dev = [d EXCEPT !.locks["DEVICE"] = 1]
  BY <1>1, RefusedOrServed DEF Effects, Done, Outcome
<1>3. d.locks = [l \in Lock |-> d.locks[l]] /\ DOMAIN d = DevFields /\ "DEVICE" \in Lock
  BY DEF HasLocks, IsDev, DevFields, Lock
<1> QED  BY <1>2, <1>3 DEF DevFields

\* GetState is never refused, and shows the state.
LEMMA AnswersGetState ==
  ASSUME NEW d, NEW f, NEW c, c.op = "GetState", NEW o \in Outcomes(d, f, c)
  PROVE  o = Outcome(d, View(d))
<1>1. Rules(d, c) = {}
  BY DEF Rules
<1> QED  BY <1>1, RefusedOrServed DEF Effects

\* A rule that is not enforced leaves no reason for the answer the test wants.
LEMMA NeverRefuses ==
  ASSUME NEW d, IsDev(d), NEW f, NEW c, NEW o \in Outcomes(d, f, c), NEW code,
         code # "OK", \A r \in Rules(d, c) : r.name # f => r.code # code,
         \A p \in Effects(d, f, c) : p.reply.code # code
  PROVE  o.reply.code # code
BY RefusedCode

\* A lock that is set answers with success.
LEMMA SetLockServed ==
  ASSUME NEW d, NEW f, NEW c, c.op = "SetLock", NEW p \in Effects(d, f, c)
  PROVE  p.reply.code = "OK"
BY DEF Effects, SetLockEffects, Done, Outcome, Status

\* The device lock without one of its rules.
LEMMA WithoutDeviceRules ==
  ASSUME NEW d, NEW c, c.op = "SetLock", c.lock = "DEVICE", NEW r \in Rules(d, c)
  PROVE  /\ r.name # "DeviceLockNeedsHlos" => r.code = "DENIED"
         /\ r.name # "DeviceLockIsSet" => r.code = "HLOS"
BY DEF Rules, SetLockRules, Rule

\* The boot lock without one of its rules.
LEMMA WithoutBootRules ==
  ASSUME NEW d, NEW c, c.op = "SetLock", c.lock = "BOOT", NEW r \in Rules(d, c)
  PROVE  /\ r.name # "BootLockNeedsBootloader" => r.code = "DENIED"
         /\ r.name # "CarrierFreezesBootLock" /\ d.locks["DEVICE"] = 0 => r.code = "BOOTLOADER"
         /\ r.name # "DeviceFreezesBootLock" /\ d.locks["CARRIER"] = 0 => r.code = "BOOTLOADER"
BY DEF Rules, SetLockRules, Rule

\* The owner lock without one of its rules.
LEMMA WithoutOwnerRules ==
  ASSUME NEW d, NEW c, c.op = "SetLock", c.lock = "OWNER", NEW r \in Rules(d, c)
  PROVE  /\ r.name # "OwnerLockIsSet" => d.locks["BOOT"] # 0
         /\ r.name # "OwnerLockNeedsBootUnlocked" => d.locks["OWNER"] # 0
BY DEF Rules, SetLockRules, Rule

\* The carrier lock has one rule.
LEMMA WithoutCarrierRule ==
  ASSUME NEW d, NEW c, c.op = "SetLock", c.lock = "CARRIER", NEW r \in Rules(d, c)
  PROVE  r.name = "CarrierLockNeedsDevelopment"
BY DEF Rules, SetLockRules, Rule

\* The calls that one rule only may refuse.
LEMMA WithoutTheRule ==
  ASSUME NEW d, NEW c, NEW r \in Rules(d, c)
  PROVE  /\ c.op = "Reset" /\ c.kind = "LOCKS" => r.name = "LocksNeedDevelopment"
         /\ c.op = "Reset" /\ c.kind = "PRODUCTION" => r.name = "NonceIsSpent" /\ d.nonce = 0
         /\ c.op = "SetProduction" => r.name = "ProductionIsFinal"
         /\ c.op = "Store" => r.name = "StoreNeedsBootloader"
         /\ c.op = "CarrierLockTest" => r.name = "UnlockIsSigned"
         /\ c.op = "ProductionResetTest" => r.name = "ResetIsSigned"
BY DEF Rules, ResetRules, Rule

\* What the other calls answer when no rule refuses them.
LEMMA OthersServed ==
  ASSUME NEW d, NEW f, NEW c, NEW p \in Effects(d, f, c)
  PROVE  /\ c.op = "Reset" /\ c.kind = "LOCKS" => p.reply.code = "OK"
         /\ c.op = "Reset" /\ c.kind = "PRODUCTION" => p.reply.code \in {"OK", "LINENO"}
         /\ c.op = "Reset" /\ c.kind = "PRODUCTION" /\ f = "ResetIsSigned" => p.reply.code = "OK"
         /\ c.op = "SetProduction" /\ ~c.production => p.reply.code = "OK"
         /\ c.op \in {"Store", "CarrierLockTest", "ProductionResetTest"} => p.reply.code = "OK"
<1>1. CASE c.op = "Reset"
  BY <1>1 DEF Effects, ResetProductionEffects, Done, Outcome, Status
<1>2. CASE c.op = "SetProduction"
  BY <1>2 DEF Effects, SetProductionEffects, Done, Outcome, Status
<1>3. CASE c.op \in {"Store", "CarrierLockTest", "ProductionResetTest"}
  BY <1>3 DEF Effects, Done, Outcome, Status
<1> QED  BY <1>1, <1>2, <1>3

\* A firmware without the rule f has no reason for the answer the test wants.
LEMMA Undeterred ==
  ASSUME NEW d, IsDev(d), NEW f, NEW c, NEW o \in Outcomes(d, f, c)
  PROVE  /\ c.op = "SetLock" /\ c.lock = "DEVICE" =>
              /\ f = "DeviceLockNeedsHlos" => o.reply.code # "HLOS"
              /\ f = "DeviceLockIsSet" => o.reply.code # "DENIED"
         /\ c.op = "SetLock" /\ c.lock = "BOOT" =>
              /\ f = "BootLockNeedsBootloader" => o.reply.code # "BOOTLOADER"
              /\ f = "CarrierFreezesBootLock" /\ d.locks["DEVICE"] = 0 => o.reply.code # "DENIED"
              /\ f = "DeviceFreezesBootLock" /\ d.locks["CARRIER"] = 0 => o.reply.code # "DENIED"
         /\ c.op = "SetLock" /\ c.lock = "OWNER" =>
              /\ f = "OwnerLockIsSet" /\ d.locks["BOOT"] = 0 => o.reply.code # "DENIED"
              /\ f = "OwnerLockNeedsBootUnlocked" /\ d.locks["OWNER"] = 0 =>
                   o.reply.code # "DENIED"
         /\ c.op = "SetLock" /\ c.lock = "CARRIER" =>
              (f = "CarrierLockNeedsDevelopment" => o.reply.code # "AUTHORIZATION")
         /\ c.op = "Reset" /\ c.kind = "LOCKS" =>
              (f = "LocksNeedDevelopment" => o.reply.code # "DENIED")
         /\ c.op = "Reset" /\ c.kind = "PRODUCTION" =>
              /\ f = "NonceIsSpent" => o.reply.code # "DENIED"
              /\ f = "ResetIsSigned" /\ d.nonce # 0 => o.reply.code = "OK"
         /\ c.op = "SetProduction" /\ ~c.production =>
              (f = "ProductionIsFinal" => o.reply.code # "AUTHORIZATION")
         /\ c.op = "Store" => (f = "StoreNeedsBootloader" => o.reply.code # "BOOTLOADER")
         /\ c.op = "CarrierLockTest" => (f = "UnlockIsSigned" => o.reply.code # "AUTHORIZATION")
         /\ c.op = "ProductionResetTest" => (f = "ResetIsSigned" => o.reply.code = "OK")
<1>1. CASE o \in Effects(d, f, c)
  <2>1. CASE c.op = "SetLock"
    <3>1. o.reply.code = "OK"
      BY <1>1, <2>1, SetLockServed
    <3> QED  BY <2>1, <3>1
  <2>2. CASE c.op # "SetLock"
    BY <1>1, <2>2, OthersServed
  <2> QED  BY <2>1, <2>2
<1>2. CASE \E r \in Rules(d, c) : r.name # f /\ o.reply.code = r.code
  <2>1. PICK r \in Rules(d, c) : r.name # f /\ o.reply.code = r.code
    BY <1>2
  <2>2. CASE c.op = "SetLock" /\ c.lock = "DEVICE"
    BY <2>1, <2>2, WithoutDeviceRules
  <2>3. CASE c.op = "SetLock" /\ c.lock = "BOOT"
    BY <2>1, <2>3, WithoutBootRules
  <2>4. CASE c.op = "SetLock" /\ c.lock = "OWNER"
    BY <2>1, <2>4, WithoutOwnerRules
  <2>5. CASE c.op = "SetLock" /\ c.lock = "CARRIER"
    BY <2>1, <2>5, WithoutCarrierRule
  <2>6. CASE c.op # "SetLock"
    BY <2>1, <2>6, WithoutTheRule
  <2>7. CASE c.op = "SetLock" /\ c.lock \notin {"DEVICE", "BOOT", "OWNER", "CARRIER"}
    BY <2>7
  <2> QED  BY <2>2, <2>3, <2>4, <2>5, <2>6, <2>7
<1> QED  BY <1>1, <1>2, RefusedCode

----------------------------------------------------------------------------
(* The decisive step of a test.                                             *)

\* What the step asks of a firmware without the rule f.
Asks(f, t, s) ==
  /\ f = "DeviceLockNeedsHlos" =>
       s.call.op = "SetLock" /\ s.call.lock = "DEVICE" /\ s.must = Code("HLOS")
  /\ f = "DeviceLockIsSet" =>
       s.call.op = "SetLock" /\ s.call.lock = "DEVICE" /\ s.must = Code("DENIED")
  /\ f = "BootLockNeedsBootloader" =>
       s.call.op = "SetLock" /\ s.call.lock = "BOOT" /\ s.must = Code("BOOTLOADER")
  /\ f \in {"CarrierFreezesBootLock", "DeviceFreezesBootLock"} =>
       s.call.op = "SetLock" /\ s.call.lock = "BOOT" /\ s.must = Code("DENIED")
  /\ f \in {"OwnerLockIsSet", "OwnerLockNeedsBootUnlocked"} =>
       s.call.op = "SetLock" /\ s.call.lock = "OWNER" /\ s.must = Code("DENIED")
  /\ f = "CarrierLockNeedsDevelopment" =>
       s.call.op = "SetLock" /\ s.call.lock = "CARRIER" /\ s.must = Code("AUTHORIZATION")
  /\ f = "LocksNeedDevelopment" => s.call = Reset("LOCKS", "zeros") /\ s.must = Code("DENIED")
  /\ f = "NonceIsSpent" =>
       s.call = Reset("PRODUCTION", "signed") /\ s.should = [code |-> {"DENIED"}]
  /\ f = "ProductionIsFinal" =>
       /\ s.call = [op |-> "SetProduction", production |-> FALSE, data |-> ZERO_DATA]
       /\ s.must = Code("AUTHORIZATION")
  /\ f = "StoreNeedsBootloader" => s.call.op = "Store" /\ s.must = Code("BOOTLOADER")
  /\ f = "UnlockIsSigned" => s.call.op = "CarrierLockTest" /\ s.must = Code("AUTHORIZATION")
  /\ f = "ResetIsSigned" =>
       /\ s.call = IF t = "ResetProductionValid" THEN Reset("PRODUCTION", "changed")
                   ELSE ProductionResetTest("changed")
       /\ s.should = [code |-> Error]
  /\ f = "ProductionKeepsLocks" =>
       s.call = [op |-> "GetState"] /\ "OWNER" \in DOMAIN s.must /\ s.must["OWNER"] = {\h11}
  /\ f = "WipeKeepsLocks" => s.call = [op |-> "GetState"] /\ s.should = [DEVICE |-> {0}]

\* The tests that are to notice each fault, and where they do.
LEMMA Pairs ==
  ASSUME NEW f \in FirmwareRule, NEW t \in DetectedBy[f]
  PROVE  \/ f = "DeviceLockNeedsHlos" /\ t = "DeviceLockTest" /\ Decisive[f][t] = 3
         \/ f = "DeviceLockNeedsHlos" /\ t = "BootLockTest" /\ Decisive[f][t] = 26
         \/ f = "DeviceLockIsSet" /\ t = "DeviceLockTest" /\ Decisive[f][t] = 10
         \/ f = "BootLockNeedsBootloader" /\ t = "BootLockTest" /\ Decisive[f][t] = 2
         \/ f = "CarrierFreezesBootLock" /\ t = "BootLockTest" /\ Decisive[f][t] = 17
         \/ f = "DeviceFreezesBootLock" /\ t = "BootLockTest" /\ Decisive[f][t] = 31
         \/ f = "OwnerLockIsSet" /\ t = "OwnerLockTest" /\ Decisive[f][t] = 4
         \/ f = "OwnerLockNeedsBootUnlocked" /\ t = "OwnerLockTest" /\ Decisive[f][t] = 11
         \/ f = "CarrierLockNeedsDevelopment" /\ t = "CarrierLockTest" /\ Decisive[f][t] = 7
         \/ f = "LocksNeedDevelopment" /\ t = "Reset" /\ Decisive[f][t] = 7
         \/ f = "NonceIsSpent" /\ t = "ResetProductionValid" /\ Decisive[f][t] = 6
         \/ f = "ProductionIsFinal" /\ t = "ProductionMode" /\ Decisive[f][t] = 9
         \/ f = "StoreNeedsBootloader" /\ t = "Rollback" /\ Decisive[f][t] = 2
         \/ f = "UnlockIsSigned" /\ t = "CarrierUnlockTest" /\ Decisive[f][t] = 2
         \/ f = "ResetIsSigned" /\ t = "ResetProductionValid" /\ Decisive[f][t] = 4
         \/ f = "ResetIsSigned" /\ t = "ProductionResetTestValid" /\ Decisive[f][t] = 3
         \/ f = "ProductionKeepsLocks" /\ t = "ProductionMode" /\ Decisive[f][t] = 8
         \/ /\ f = "WipeKeepsLocks" /\ t = "WipeUserDataDoesNotLockDeviceLock"
            /\ Decisive[f][t] = 3
BY DEF FirmwareRule, DetectedBy, Decisive

\* The bodies of these tests.
LEMMA Bodies ==
  /\ Body["CarrierLockTest"] = CarrierLockTest /\ Body["CarrierUnlockTest"] = CarrierUnlockTest
  /\ Body["DeviceLockTest"] = DeviceLockTest /\ Body["BootLockTest"] = BootLockTest
  /\ Body["OwnerLockTest"] = OwnerLockTest /\ Body["ProductionMode"] = ProductionMode
  /\ Body["Rollback"] = Rollback /\ Body["Reset"] = ResetTest
  /\ Body["ResetProductionValid"] = ResetProductionValid
  /\ Body["ProductionResetTestValid"] = ProductionResetTestValid
  /\ Body["WipeUserDataDoesNotLockDeviceLock"] = WipeUserDataDoesNotLockDeviceLock
BY DEF Body

\* What the decisive step asks.
LEMMA DecisiveStep ==
  ASSUME NEW f \in FirmwareRule, NEW t \in DetectedBy[f], NEW n, n = Decisive[f][t]
  PROVE  n \in Nat /\ Len(Body[t]) \in Nat /\ n <= Len(Body[t]) /\ Asks(f, t, Body[t][n])
<1>1. CASE f = "DeviceLockNeedsHlos" /\ t = "DeviceLockTest" /\ n = 3
  BY <1>1, Bodies, DeviceLockSteps DEF Asks
<1>2. CASE f = "DeviceLockNeedsHlos" /\ t = "BootLockTest" /\ n = 26
  BY <1>2, Bodies, BootLockSteps DEF Asks
<1>3. CASE f = "DeviceLockIsSet" /\ t = "DeviceLockTest" /\ n = 10
  BY <1>3, Bodies, DeviceLockSteps DEF Asks
<1>4. CASE f = "BootLockNeedsBootloader" /\ t = "BootLockTest" /\ n = 2
  BY <1>4, Bodies, BootLockSteps DEF Asks
<1>5. CASE f = "CarrierFreezesBootLock" /\ t = "BootLockTest" /\ n = 17
  BY <1>5, Bodies, BootLockSteps DEF Asks
<1>6. CASE f = "DeviceFreezesBootLock" /\ t = "BootLockTest" /\ n = 31
  BY <1>6, Bodies, BootLockSteps DEF Asks
<1>7. CASE f = "OwnerLockIsSet" /\ t = "OwnerLockTest" /\ n = 4
  BY <1>7, Bodies, OwnerLockSteps DEF Asks
<1>8. CASE f = "OwnerLockNeedsBootUnlocked" /\ t = "OwnerLockTest" /\ n = 11
  BY <1>8, Bodies, OwnerLockSteps DEF Asks
<1>9. CASE f = "CarrierLockNeedsDevelopment" /\ t = "CarrierLockTest" /\ n = 7
  BY <1>9, Bodies, CarrierLockSteps DEF Asks
<1>10. CASE f = "LocksNeedDevelopment" /\ t = "Reset" /\ n = 7
  BY <1>10, Bodies, ResetSteps DEF Asks
<1>11. CASE f = "NonceIsSpent" /\ t = "ResetProductionValid" /\ n = 6
  BY <1>11, Bodies, ResetProductionValidSteps DEF Asks
<1>12. CASE f = "ProductionIsFinal" /\ t = "ProductionMode" /\ n = 9
  BY <1>12, Bodies, ProductionModeSteps DEF Asks
<1>13. CASE f = "StoreNeedsBootloader" /\ t = "Rollback" /\ n = 2
  BY <1>13, Bodies, RollbackSteps DEF Asks
<1>14. CASE f = "UnlockIsSigned" /\ t = "CarrierUnlockTest" /\ n = 2
  BY <1>14, Bodies, CarrierUnlockSteps DEF Asks
<1>15. CASE f = "ResetIsSigned" /\ t = "ResetProductionValid" /\ n = 4
  BY <1>15, Bodies, ResetProductionValidSteps DEF Asks
<1>16. CASE f = "ResetIsSigned" /\ t = "ProductionResetTestValid" /\ n = 3
  BY <1>16, Bodies, ProductionResetTestValidSteps DEF Asks
<1>17. CASE f = "ProductionKeepsLocks" /\ t = "ProductionMode" /\ n = 8
  BY <1>17, Bodies, ProductionModeSteps DEF Asks
<1>18. CASE f = "WipeKeepsLocks" /\ t = "WipeUserDataDoesNotLockDeviceLock" /\ n = 3
  BY <1>18, Bodies, WipeSteps DEF Asks
<1> QED
  BY <1>1, <1>2, <1>3, <1>4, <1>5, <1>6, <1>7, <1>8, <1>9,
     <1>10, <1>11, <1>12, <1>13, <1>14, <1>15, <1>16, <1>17, <1>18, Pairs

\* The call c is the one of the step s, with the local variables it sends.
Sends(s, c) ==
  /\ s.call.op \notin {"Reset", "GetResetChallenge", "ProductionResetTest"} => c = s.call
  /\ s.call.op \in {"GetResetChallenge", "ProductionResetTest"} => c.op = s.call.op
  /\ \A k, g : s.call = Reset(k, g) => c.op = "Reset" /\ c.kind = k

\* A request sends the call of the step at hand.
LEMMA RequestSends == Sends(Current, Request)
<1>1. Current.call.op \notin {"Reset", "GetResetChallenge", "ProductionResetTest"} =>
        Request = Current.call
  BY DEF Request
<1>2. Current.call.op \in {"GetResetChallenge", "ProductionResetTest"} =>
        Request.op = Current.call.op
  BY DEF Request
<1>3. ASSUME NEW k, NEW g, Current.call = Reset(k, g)
      PROVE  Request.op = "Reset" /\ Request.kind = k
  BY <1>3 DEF Request, Reset
<1> QED  BY <1>1, <1>2, <1>3 DEF Sends

\* The local variables it sends do not change the lock a call is about.
LEMMA RequestLeavesLock ==
  ASSUME NEW l, LeavesLock(Current.call, l)
  PROVE  LeavesLock(Request, l)
<1>1. CASE Current.call.op = "Reset"
  BY <1>1 DEF Request, LeavesLock
<1>2. CASE Current.call.op \in {"GetResetChallenge", "ProductionResetTest"}
  BY <1>2 DEF Request, LeavesLock
<1>3. CASE Current.call.op \notin {"Reset", "GetResetChallenge", "ProductionResetTest"}
  <2>1. Request = Current.call
    BY <1>3 DEF Request
  <2> QED  BY <2>1
<1> QED  BY <1>1, <1>2, <1>3

\* The test accepts the reply.
Accepts(s, reply) == Meets(reply, s.must) /\ Meets(reply, s.should)

\* No answer gets the test past its decisive step.
LEMMA Obstacle ==
  ASSUME NEW d, IsDev(d), NEW f \in FirmwareRule, NEW t \in DetectedBy[f],
         NEW n, n = Decisive[f][t], Known(f, t, n, d),
         NEW s, Asks(f, t, s), NEW c, Sends(s, c), NEW o \in Outcomes(d, f, c)
  PROVE  ~Accepts(s, o.reply)
<1> SUFFICES ASSUME Accepts(s, o.reply) PROVE FALSE
  OBVIOUS
<1>1. \A x : s.must = Code(x) => o.reply.code = x
  BY DEF Accepts, Meets, Code
<1>2. \A x : s.should = [code |-> x] => o.reply.code \in x
  BY DEF Accepts, Meets
<1>3. CASE f = "DeviceLockNeedsHlos"
  BY <1>1, <1>3, Undeterred DEF Asks, Sends
<1>4. CASE f = "DeviceLockIsSet"
  BY <1>1, <1>4, Undeterred DEF Asks, Sends
<1>5. CASE f = "BootLockNeedsBootloader"
  BY <1>1, <1>5, Undeterred DEF Asks, Sends
<1>6. CASE f = "CarrierFreezesBootLock"
  BY <1>1, <1>6, Undeterred, Pairs DEF Asks, Sends, Known
<1>7. CASE f = "DeviceFreezesBootLock"
  BY <1>1, <1>7, Undeterred, Pairs DEF Asks, Sends, Known
<1>8. CASE f = "OwnerLockIsSet"
  BY <1>1, <1>8, Undeterred, Pairs DEF Asks, Sends, Known
<1>9. CASE f = "OwnerLockNeedsBootUnlocked"
  BY <1>1, <1>9, Undeterred, Pairs DEF Asks, Sends, Known
<1>10. CASE f = "CarrierLockNeedsDevelopment"
  BY <1>1, <1>10, Undeterred DEF Asks, Sends
<1>11. CASE f = "StoreNeedsBootloader"
  BY <1>1, <1>11, Undeterred DEF Asks, Sends
<1>12. CASE f = "UnlockIsSigned"
  BY <1>1, <1>12, Undeterred DEF Asks, Sends
<1>13. CASE f = "LocksNeedDevelopment"
  <2>1. c.op = "Reset" /\ c.kind = "LOCKS" /\ o.reply.code = "DENIED"
    BY <1>1, <1>13 DEF Asks, Sends
  <2> QED  BY <1>13, <2>1, Undeterred
<1>14. CASE f = "NonceIsSpent"
  <2>1. c.op = "Reset" /\ c.kind = "PRODUCTION" /\ o.reply.code = "DENIED"
    BY <1>2, <1>14 DEF Asks, Sends
  <2> QED  BY <1>14, <2>1, Undeterred
<1>15. CASE f = "ProductionIsFinal"
  <2>1. c.op = "SetProduction" /\ o.reply.code = "AUTHORIZATION"
    BY <1>1, <1>15 DEF Asks, Sends
  <2>2. ~c.production
    BY <1>15 DEF Asks, Sends
  <2> QED  BY <1>15, <2>1, <2>2, Undeterred
<1>16. CASE f = "ResetIsSigned"
  <2>1. o.reply.code # "OK"
    BY <1>2, <1>16 DEF Asks, Error
  <2>2. CASE t = "ResetProductionValid"
    <3>1. c.op = "Reset" /\ c.kind = "PRODUCTION"
      BY <1>16, <2>2 DEF Asks, Sends
    <3>2. d.nonce # 0
      BY <1>16, <2>2, Pairs DEF Known
    <3> QED  BY <1>16, <2>1, <3>1, <3>2, Undeterred
  <2>3. CASE t # "ResetProductionValid"
    <3>1. c.op = "ProductionResetTest"
      BY <1>16, <2>3 DEF Asks, Sends, ProductionResetTest
    <3> QED  BY <1>16, <2>1, <3>1, Undeterred
  <2> QED  BY <2>2, <2>3
<1>17. CASE f = "ProductionKeepsLocks"
  <2>1. c.op = "GetState" /\ d.locks["OWNER"] = 0
    BY <1>17, Pairs DEF Asks, Sends, Known
  <2>2. o.reply = View(d)
    BY <2>1, AnswersGetState DEF Outcome
  <2>3. o.reply["OWNER"] \in {\h11}
    BY <1>17 DEF Asks, Accepts, Meets
  <2>4. View(d)["OWNER"] = d.locks["OWNER"]
    BY DEF View
  <2> QED  BY <2>1, <2>2, <2>3, <2>4
<1>18. CASE f = "WipeKeepsLocks"
  <2>1. c.op = "GetState" /\ d.locks["DEVICE"] = 1
    BY <1>18, Pairs DEF Asks, Sends, Known
  <2>2. o.reply = View(d)
    BY <2>1, AnswersGetState DEF Outcome
  <2>3. o.reply["DEVICE"] \in {0}
    BY <1>18 DEF Asks, Accepts, Meets
  <2>4. View(d)["DEVICE"] = d.locks["DEVICE"]
    BY DEF View
  <2> QED  BY <2>1, <2>2, <2>3, <2>4
<1> QED
  BY <1>3, <1>4, <1>5, <1>6, <1>7, <1>8, <1>9, <1>10,
     <1>11, <1>12, <1>13, <1>14, <1>15, <1>16, <1>17, <1>18 DEF FirmwareRule

\* Nor does a lost call, which the test takes for no refusal but that of a reset.
LEMMA ObstacleLost ==
  ASSUME NEW f \in FirmwareRule, NEW t, NEW s, Asks(f, t, s), f # "ResetIsSigned"
  PROVE  s.call.op = "GetState" \/ ~Accepts(s, [code |-> "IO"])
<1>1. \A x : s.must = Code(x) /\ x # "IO" => ~Accepts(s, [code |-> "IO"])
  BY DEF Accepts, Meets, Code
<1>2. s.should = [code |-> {"DENIED"}] => ~Accepts(s, [code |-> "IO"])
  BY DEF Accepts, Meets
<1>3. CASE f \in {"ProductionKeepsLocks", "WipeKeepsLocks"}
  BY <1>3 DEF Asks
<1>4. CASE f = "NonceIsSpent"
  BY <1>2, <1>4 DEF Asks
<1>5. CASE f \notin {"ProductionKeepsLocks", "WipeKeepsLocks", "NonceIsSpent"}
  BY <1>1, <1>5 DEF Asks, FirmwareRule
<1> QED  BY <1>3, <1>4, <1>5

----------------------------------------------------------------------------
(* The way to the decisive step.                                            *)

\* A lock that is not set stays so while nobody touches it.
LEMMA StaysUnset ==
  ASSUME NEW d, IsDev(d), HasLocks(d), NEW f, NEW c, NEW l \in Lock, LeavesLock(c, l),
         d.locks[l] = 0, NEW e \in {d} \union {o.dev : o \in Outcomes(d, f, c)}
  PROVE  e.locks[l] = 0
<1>1. CASE e = d
  BY <1>1
<1>2. ASSUME NEW o \in Outcomes(d, f, c), e = o.dev PROVE e.locks[l] = 0
  <2>1. o.dev.locks[l] \in {d.locks[l], 0}
    BY KeepsLocks
  <2> QED  BY <1>2, <2>1
<1> QED  BY <1>1, <1>2

\* What the test accepts if it asserts success.
LEMMA AcceptsOK ==
  ASSUME NEW s, s.must = Code("OK"), NEW reply, Accepts(s, reply)
  PROVE  reply.code = "OK"
BY DEF Accepts, Meets, Code

\* At these steps something more gets known.
GainsAt(f, t, n) ==
  \/ f = "DeviceFreezesBootLock" /\ n = 23
  \/ f = "OwnerLockNeedsBootUnlocked" /\ n = 6
  \/ f = "ResetIsSigned" /\ n = 2 /\ t = "ResetProductionValid"
  \/ f = "ProductionKeepsLocks" /\ n = 7
  \/ f = "WipeKeepsLocks" /\ n = 2

\* They make sure of the answer, and call the firmware.
LEMMA GainingSteps ==
  ASSUME NEW f \in FirmwareRule, NEW t \in DetectedBy[f], NEW n \in Nat \ {0},
         NEW s, s = Body[t][n], GainsAt(f, t, n), f # "ResetIsSigned"
  PROVE  s.must = Code("OK") /\ s.call.op \in {"Reset", "SetLock", "SetProduction", "WipeUserData"}
<1>1. CASE f = "DeviceFreezesBootLock" /\ n = 23
  <2>1. s = BootLockTest[23]
    BY <1>1, Pairs, Bodies
  <2> QED  BY <2>1, BootLockSteps DEF Reset
<1>2. CASE f = "OwnerLockNeedsBootUnlocked" /\ n = 6
  <2>1. s = OwnerLockTest[6]
    BY <1>2, Pairs, Bodies
  <2> QED  BY <2>1, OwnerLockSteps
<1>3. CASE f = "ProductionKeepsLocks" /\ n = 7
  <2>1. s = ProductionMode[7]
    BY <1>3, Pairs, Bodies
  <2> QED  BY <2>1, ProductionModeSteps
<1>4. CASE f = "WipeKeepsLocks" /\ n = 2
  <2>1. s = WipeUserDataDoesNotLockDeviceLock[2]
    BY <1>4, Pairs, Bodies
  <2> QED  BY <2>1, WipeSteps
<1> QED  BY <1>1, <1>2, <1>3, <1>4 DEF GainsAt

\* Where nothing more gets known, what is known stays: the firmware's state e
\* is as before, or the call leaves the locks in question alone.
LEMMA Keeps ==
  ASSUME NEW f \in FirmwareRule, NEW t \in DetectedBy[f], NEW n \in Nat \ {0},
         n < Decisive[f][t], ~GainsAt(f, t, n), NEW d, Known(f, t, n, d), NEW s, s = Body[t][n],
         NEW e, \A l \in Lock : LeavesLock(s.call, l) /\ d.locks[l] = 0 => e.locks[l] = 0,
         e.nonce = d.nonce \/ f # "ResetIsSigned" \/ t # "ResetProductionValid" \/ n < 2
  PROVE  Known(f, t, n + 1, e)
<1>1. /\ ~(f = "DeviceFreezesBootLock" /\ n = 23) /\ ~(f = "OwnerLockNeedsBootUnlocked" /\ n = 6)
      /\ ~(f = "ProductionKeepsLocks" /\ n = 7) /\ ~(f = "WipeKeepsLocks" /\ n = 2)
      /\ ~(f = "ResetIsSigned" /\ n = 2 /\ t = "ResetProductionValid")
  BY DEF GainsAt
<1>2. {"BOOT", "CARRIER", "DEVICE", "OWNER"} \subseteq Lock
  BY DEF Lock
<1>3. CASE f = "CarrierFreezesBootLock"
  <2>1. n \in 1 .. 16 /\ s = BootLockTest[n]
    BY <1>3, Pairs, Bodies
  <2>2. LeavesLock(s.call, "DEVICE") /\ d.locks["DEVICE"] = 0
    BY <1>3, <2>1, BootLockLeavesDevice DEF Known
  <2>3. e.locks["DEVICE"] = 0
    BY <1>2, <2>2
  <2> QED  BY <1>3, <2>3 DEF Known
<1>4. CASE f = "DeviceFreezesBootLock"
  <2>1. n \in 1 .. 30 /\ s = BootLockTest[n]
    BY <1>4, Pairs, Bodies
  <2>2. CASE n \in 24 .. 30
    <3>1. LeavesLock(s.call, "CARRIER") /\ d.locks["CARRIER"] = 0
      BY <1>4, <2>1, <2>2, BootLockLeavesCarrier DEF Known
    <3>2. e.locks["CARRIER"] = 0
      BY <1>2, <3>1
    <3> QED  BY <1>4, <3>2 DEF Known
  <2>3. CASE n < 23
    BY <1>4, <2>3 DEF Known
  <2> QED  BY <1>1, <1>4, <2>1, <2>2, <2>3
<1>5. CASE f = "OwnerLockIsSet"
  <2>1. n \in 1 .. 3 /\ s = OwnerLockTest[n]
    BY <1>5, Pairs, Bodies
  <2>2. LeavesLock(s.call, "BOOT") /\ d.locks["BOOT"] = 0
    BY <1>5, <2>1, OwnerLockSteps DEF Known
  <2>3. e.locks["BOOT"] = 0
    BY <1>2, <2>2
  <2> QED  BY <1>5, <2>3 DEF Known
<1>6. CASE f = "OwnerLockNeedsBootUnlocked"
  <2>1. n \in 1 .. 10 /\ s = OwnerLockTest[n]
    BY <1>6, Pairs, Bodies
  <2>2. CASE n \in 7 .. 10
    <3>1. LeavesLock(s.call, "OWNER") /\ d.locks["OWNER"] = 0
      BY <1>6, <2>1, <2>2, OwnerLockSteps DEF Known
    <3>2. e.locks["OWNER"] = 0
      BY <1>2, <3>1
    <3> QED  BY <1>6, <3>2 DEF Known
  <2>3. CASE n < 6
    BY <1>6, <2>3 DEF Known
  <2> QED  BY <1>1, <1>6, <2>1, <2>2, <2>3
<1>7. CASE f \in {"ProductionKeepsLocks", "WipeKeepsLocks"}
  <2>1. ~(f = "ProductionKeepsLocks" /\ n + 1 = 8) /\ ~(f = "WipeKeepsLocks" /\ n + 1 = 3)
    BY <1>1
  <2> QED  BY <1>7, <2>1 DEF Known
<1>8. CASE f \notin {"CarrierFreezesBootLock", "DeviceFreezesBootLock", "OwnerLockIsSet",
                     "OwnerLockNeedsBootUnlocked", "ResetIsSigned", "ProductionKeepsLocks",
                     "WipeKeepsLocks"}
  BY <1>8 DEF Known
<1>9. CASE f = "ResetIsSigned"
  <2>1. t = "ResetProductionValid" /\ n + 1 >= 3 => n >= 3 /\ e.nonce = d.nonce
    BY <1>1, <1>9
  <2>2. t = "ResetProductionValid" /\ n >= 3 => d.nonce # 0
    BY <1>9 DEF Known
  <2> QED  BY <1>9, <2>1, <2>2 DEF Known
<1> QED  BY <1>3, <1>4, <1>5, <1>6, <1>7, <1>8, <1>9

\* An answer that the test accepts.
LEMMA Gains ==
  ASSUME NEW d, IsDev(d), HasLocks(d), NEW f \in FirmwareRule, NEW t \in DetectedBy[f],
         NEW n \in Nat \ {0}, n < Decisive[f][t], Known(f, t, n, d),
         NEW s, s = Body[t][n], s.call.op \notin {"SignChallenge", "Message"},
         NEW c, Sends(s, c), \A l \in Lock : LeavesLock(s.call, l) => LeavesLock(c, l),
         NEW o \in Outcomes(d, f, c), Accepts(s, o.reply)
  PROVE  Known(f, t, n + 1, o.dev)
<1>1. \A l \in Lock : LeavesLock(s.call, l) /\ d.locks[l] = 0 => o.dev.locks[l] = 0
  BY KeepsLocks
<1>2. {"BOOT", "CARRIER", "DEVICE", "OWNER"} \subseteq Lock
  BY DEF Lock
<1>3. CASE f = "DeviceFreezesBootLock" /\ n = 23
  <2>1. s.call = Reset("LOCKS", "zeros") /\ s.must = Code("OK")
    BY <1>3, Pairs, Bodies, BootLockSteps
  <2>2. c.op = "Reset" /\ c.kind = "LOCKS"
    BY <2>1 DEF Sends
  <2>3. o.dev.locks = Unlocked
    BY <2>1, <2>2, AcceptsOK, AnswersLockReset
  <2>4. o.dev.locks["CARRIER"] = 0
    BY <1>2, <2>3 DEF Unlocked
  <2> QED  BY <1>3, <2>4 DEF Known
<1>4. CASE f = "OwnerLockNeedsBootUnlocked" /\ n = 6
  <2>1. /\ s.call = [op |-> "SetLock", lock |-> "OWNER", value |-> 0, key |-> "owner_key"]
        /\ s.must = Code("OK")
    BY <1>4, Pairs, Bodies, OwnerLockSteps
  <2>2. c.op = "SetLock" /\ c.lock = "OWNER" /\ c.value = 0
    BY <2>1 DEF Sends
  <2>3. o.dev.locks["OWNER"] = 0
    BY <1>2, <2>1, <2>2, AcceptsOK, AnswersSetLock
  <2> QED  BY <1>4, <2>3 DEF Known
<1>5. CASE f = "ResetIsSigned" /\ n = 2 /\ t = "ResetProductionValid"
  <2>1. c.op = "GetResetChallenge"
    BY <1>5, Bodies, ResetProductionValidSteps DEF Sends
  <2>2. o.dev.nonce # 0
    BY <2>1, AnswersChallenge
  <2> QED  BY <1>5, <2>2 DEF Known
<1>6. CASE f = "ProductionKeepsLocks" /\ n = 7
  <2>1. s = ProductionMode[7]
    BY <1>6, Pairs, Bodies
  <2>2. /\ s.call = [op |-> "SetProduction", production |-> TRUE, data |-> ZERO_DATA]
        /\ s.must = Code("OK")
    BY <2>1, ProductionModeSteps, Zenon
  <2>3. c.op = "SetProduction" /\ c = s.call
    BY <2>2 DEF Sends
  <2>4. c.production
    BY <2>2, <2>3
  <2>5. o.dev.locks = Unlocked
    BY <1>6, <2>2, <2>3, <2>4, AcceptsOK, ServesSetProduction
  <2>6. o.dev.locks["OWNER"] = 0
    BY <1>2, <2>5 DEF Unlocked
  <2> QED  BY <1>6, <2>6 DEF Known
<1>7. CASE f = "WipeKeepsLocks" /\ n = 2
  <2>1. c.op = "WipeUserData"
    BY <1>7, Pairs, Bodies, WipeSteps DEF Sends
  <2>2. o.dev.locks["DEVICE"] = 1
    BY <1>7, <2>1, AnswersWipe
  <2> QED  BY <1>7, <2>2 DEF Known
<1>8. CASE ~GainsAt(f, t, n)
  <2>1. n # 3 \/ f # "ResetIsSigned" \/ t # "ResetProductionValid"
    BY Bodies, ResetProductionValidSteps
  <2>2. o.dev.nonce = d.nonce \/ f # "ResetIsSigned" \/ t # "ResetProductionValid" \/ n < 2
    BY <1>8, <2>1, Pairs DEF GainsAt
  <2> QED  BY <1>1, <1>8, <2>2, Keeps
<1> QED  BY <1>3, <1>4, <1>5, <1>6, <1>7, <1>8 DEF GainsAt

----------------------------------------------------------------------------
(* The steps of the specification, as far as the test has not failed.       *)

\* The firmware answers and the test goes on: it accepted the answer.
LEMMA CallPasses ==
  ASSUME Call, ~failed'
  PROVE  /\ Running /\ ~Local /\ ~failed /\ pc' = pc + 1
         /\ UNCHANGED <<phase, test, fault, lost>>
         /\ \E o \in Outcomes(dev, fault, Request) : dev' = o.dev /\ Accepts(Current, o.reply)
BY DEF Call, Answered, After, Accepts

\* A call is lost and the test goes on: it does not look at the answer, or
\* takes the error for the one it wants.
LEMMA LostPasses ==
  ASSUME CallLost, ~failed'
  PROVE  /\ Running /\ ~Local /\ ~failed /\ pc' = pc + 1 /\ lost' = lost + 1
         /\ UNCHANGED <<phase, test, fault>>
         /\ dev' \in {dev} \union {o.dev : o \in Outcomes(dev, fault, Request)}
         /\ Accepts(Current, [code |-> "IO"]) /\ Current.call.op # "GetState"
BY DEF CallLost, Lost, After, Accepts

\* The state of the firmware.
LEMMA LocksStep ==
  ASSUME FaultInv, [Next]_vars
  PROVE  HasLocks(dev)' /\ fault' = fault
<1>1. fault' = fault
  BY DEF Next, vars, gtestVars, Start, Begin, Call, Answered, CallLost, Lost, LocalStep, EndPhase,
     EndOfPhase
<1>2. IsDev(dev) /\ HasLocks(dev)
  BY DEF FaultInv, IInv
<1>3. ASSUME NEW o \in Outcomes(dev, fault, Request), dev' = o.dev PROVE HasLocks(dev)'
  <2>1. PICK d, f, c : d = dev /\ f = fault /\ c = Request
    OBVIOUS
  <2>2. IsDev(d) /\ HasLocks(d) /\ o \in Outcomes(d, f, c)
    BY <1>2, <1>3, <2>1, Zenon
  <2>3. HasLocks(o.dev)
    BY <2>2, KeepsLocks
  <2> QED  BY <1>3, <2>3
<1>4. CASE Call
  <2>1. PICK o \in Outcomes(dev, fault, Request) : dev' = o.dev
    BY <1>4 DEF Call, Answered
  <2> QED  BY <1>1, <1>3, <2>1
<1>5. CASE CallLost
  <2>1. dev' \in {dev} \union {o.dev : o \in Outcomes(dev, fault, Request)}
    BY <1>5 DEF CallLost, Lost
  <2>2. CASE dev' = dev
    BY <1>1, <1>2, <2>2
  <2>3. CASE \E o \in Outcomes(dev, fault, Request) : dev' = o.dev
    BY <1>1, <1>3, <2>3
  <2> QED  BY <2>1, <2>2, <2>3
<1>6. CASE dev' = dev
  BY <1>1, <1>2, <1>6
<1> QED
  BY <1>4, <1>5, <1>6 DEF Next, vars, gtestVars, Start, Begin, LocalStep, EndPhase, EndOfPhase

\* The reports of gtest.
LEMMA ReportStep ==
  ASSUME FaultInv, [Next]_vars
  PROVE  ReportInv'
<1>1. /\ phase \in {"idle", "setup", "body"} /\ (fatal => failed)
      /\ ~failed => pc \in Nat \ {0}
  BY DEF FaultInv, ReportInv
<1>2. CASE \E t \in Tests : Start(t)
  BY <1>2 DEF Start, Begin, ReportInv
<1>3. CASE Call
  <2>1. phase' = phase /\ (fatal' => failed')
    BY <1>1, <1>3 DEF Call, Answered
  <2>2. ~failed' => pc' = pc + 1 /\ pc \in Nat \ {0}
    BY <1>1, <1>3, CallPasses
  <2>3. ~failed' => pc' \in Nat \ {0}
    BY <2>2
  <2> QED  BY <1>1, <2>1, <2>3 DEF ReportInv
<1>4. CASE CallLost
  <2>1. phase' = phase /\ (fatal' => failed')
    BY <1>1, <1>4 DEF CallLost, Lost
  <2>2. ~failed' => pc' = pc + 1 /\ pc \in Nat \ {0}
    BY <1>1, <1>4, LostPasses
  <2>3. ~failed' => pc' \in Nat \ {0}
    BY <2>2
  <2> QED  BY <1>1, <2>1, <2>3 DEF ReportInv
<1>5. CASE LocalStep
  <2>1. pc' = pc + 1 /\ UNCHANGED <<phase, fatal, failed>>
    BY <1>5 DEF LocalStep
  <2>2. ~failed => pc' \in Nat \ {0}
    BY <1>1, <2>1
  <2> QED  BY <1>1, <2>1, <2>2 DEF ReportInv
<1>6. CASE EndPhase
  BY <1>1, <1>6 DEF EndPhase, EndOfPhase, ReportInv
<1>7. CASE UNCHANGED vars
  BY <1>1, <1>7 DEF vars, gtestVars, ReportInv
<1> QED  BY <1>2, <1>3, <1>4, <1>5, <1>6, <1>7 DEF Next

\* The last step of SetUp.
LEMMA SetUpLooks ==
  /\ SetUp[6].should = [bootloader |-> {FALSE}, production |-> {FALSE}, BOOT |-> {0},
                        CARRIER |-> {0}, DEVICE |-> {0}, OWNER |-> {0}]
<1>1. PICK m, e : /\ m = [production |-> {FALSE}]
                  /\ e = [bootloader |-> {FALSE}, production |-> {FALSE}, BOOT |-> {0},
                          CARRIER |-> {0}, DEVICE |-> {0}, OWNER |-> {0}]
  OBVIOUS
<1>2. SetUp = BootloaderDone \o (GetResetChallenge(Nothing, 2)
                \o Step(Reset("PRODUCTION", "zeros"), Nothing, Nothing, 0)
                \o Step([op |-> "GetState"], m, Nothing, 0))
                \o ResetLocks("OK") \o Step([op |-> "GetState"], Nothing, e, 0)
  BY <1>1, Zenon DEF SetUp, ResetProduction
<1>3. SetUp[6].should = e
  BY <1>2 DEF BootloaderDone, GetResetChallenge, ResetLocks, AssertCode, Step
<1> QED  BY <1>1, <1>3, Zenon

\* SetUp sees the locks.
LEMMA UnlockedStep ==
  ASSUME FaultInv, [Next]_vars
  PROVE  UnlockedInv'
<1> SUFFICES ASSUME phase' = "setup", ~failed', test' # "SetRootOfTrust", pc' > 6
             PROVE  dev'.locks = Unlocked
  BY DEF UnlockedInv
<1>1. ASSUME Running, phase = "setup", test # "SetRootOfTrust", ~failed, pc' = pc + 1
      PROVE  Program = SetUp /\ pc = 6 /\ Current.call = [op |-> "GetState"]
  <2>1. Program = SetUp
    BY <1>1 DEF Program
  <2>2. pc \in Nat \ {0} /\ pc <= 6
    BY <1>1, <2>1, SetUpSteps DEF FaultInv, ReportInv, Running
  <2>3. pc = 6
    BY <1>1, <2>2
  <2> QED  BY <2>1, <2>3, SetUpSteps DEF Current
<1>2. CASE \E t \in Tests : Start(t)
  BY <1>2 DEF Start, Begin
<1>3. CASE Call
  <2>1. /\ Running /\ phase = "setup" /\ test # "SetRootOfTrust" /\ ~failed /\ pc' = pc + 1
        /\ \E o \in Outcomes(dev, fault, Request) : dev' = o.dev /\ Accepts(Current, o.reply)
    BY <1>3, CallPasses
  <2>2. Program = SetUp /\ pc = 6 /\ Current.call = [op |-> "GetState"]
    BY <1>1, <2>1
  <2>3. PICK o \in Outcomes(dev, fault, Request) : dev' = o.dev /\ Accepts(Current, o.reply)
    BY <2>1
  <2>4. PICK d, f, c : d = dev /\ f = fault /\ c = Request
    OBVIOUS
  <2>5. c.op = "GetState"
    BY <2>2, <2>4, RequestSends DEF Sends
  <2>6. o = Outcome(d, View(d))
    BY <2>3, <2>4, <2>5, AnswersGetState
  <2>7. dev' = d /\ Meets(View(d), SetUp[6].should)
    BY <2>2, <2>3, <2>6 DEF Outcome, Accepts, Current
  <2>8. /\ d.locks["BOOT"] = 0 /\ d.locks["CARRIER"] = 0
        /\ d.locks["DEVICE"] = 0 /\ d.locks["OWNER"] = 0
    BY <2>7, SetUpLooks DEF Meets, View
  <2>9. d.locks = [l \in Lock |-> d.locks[l]]
    BY <2>4 DEF FaultInv, HasLocks
  <2> QED  BY <2>7, <2>8, <2>9 DEF Unlocked, Lock
<1>4. CASE CallLost
  <2>1. /\ Running /\ phase = "setup" /\ test # "SetRootOfTrust" /\ ~failed /\ pc' = pc + 1
        /\ Current.call.op # "GetState"
    BY <1>4, LostPasses
  <2> QED  BY <1>1, <2>1
<1>5. CASE LocalStep
  <2>1. /\ Running /\ phase = "setup" /\ test # "SetRootOfTrust" /\ ~failed /\ pc' = pc + 1
        /\ Current.call.op \in {"SignChallenge", "Message"}
    BY <1>5 DEF LocalStep, Local
  <2> QED  BY <1>1, <2>1
<1>6. CASE EndPhase
  BY <1>6 DEF EndPhase, EndOfPhase
<1>7. CASE UNCHANGED vars
  BY <1>7 DEF vars, gtestVars, FaultInv, UnlockedInv
<1> QED  BY <1>2, <1>3, <1>4, <1>5, <1>6, <1>7 DEF Next

\* The decisive step calls the firmware.
LEMMA AsksFirmware ==
  ASSUME NEW f \in FirmwareRule, NEW t, NEW s, Asks(f, t, s)
  PROVE  s.call.op \notin {"SignChallenge", "Message"}
BY DEF FirmwareRule, Asks, Reset, ProductionResetTest

\* The step at hand, of a test that is to notice the fault.
LEMMA AtStep ==
  ASSUME FaultInv, phase = "body", Blameable, ~failed
  PROVE  \E d, f, t, n :
           /\ d = dev /\ f = fault /\ t = test /\ n = pc
           /\ IsDev(d) /\ HasLocks(d) /\ f \in FirmwareRule /\ t \in DetectedBy[f]
           /\ n \in Nat \ {0} /\ Decisive[f][t] \in Nat /\ n <= Decisive[f][t]
           /\ n <= Len(Program) /\ Len(Program) \in Nat
           /\ Known(f, t, n, d) /\ Current = Body[t][n]
<1>1. PICK d, f, t, n : d = dev /\ f = fault /\ t = test /\ n = pc
  OBVIOUS
<1>2. IsDev(d) /\ HasLocks(d) /\ f \in FirmwareRule /\ t \in DetectedBy[f]
  BY <1>1 DEF FaultInv, IInv, Blameable
<1>3. n \in Nat \ {0}
  BY <1>1 DEF FaultInv, ReportInv
<1>4. n <= Decisive[f][t] /\ Known(f, t, n, d)
  BY <1>1 DEF FaultInv, DecisiveInv
<1>5. Program = Body[t] /\ Current = Body[t][n]
  BY <1>1 DEF Program, Current
<1>6. /\ Decisive[f][t] \in Nat /\ Len(Body[t]) \in Nat
      /\ Decisive[f][t] <= Len(Body[t])
  BY <1>2, DecisiveStep
<1>7. n <= Len(Program)
  BY <1>3, <1>4, <1>5, <1>6
<1> QED  BY <1>1, <1>2, <1>3, <1>4, <1>5, <1>6, <1>7

\* The firmware answers.
LEMMA DecisiveCall ==
  ASSUME FaultInv, Call, phase = "body", Blameable, ~failed, ~failed'
  PROVE  pc' <= Decisive[fault][test] /\ Known(fault, test, pc', dev')
<1>1. PICK d, f, t, n :
        /\ d = dev /\ f = fault /\ t = test /\ n = pc
        /\ IsDev(d) /\ HasLocks(d) /\ f \in FirmwareRule /\ t \in DetectedBy[f]
        /\ n \in Nat \ {0} /\ Decisive[f][t] \in Nat /\ n <= Decisive[f][t]
        /\ n <= Len(Program) /\ Len(Program) \in Nat
        /\ Known(f, t, n, d) /\ Current = Body[t][n]
  BY AtStep
<1>2. PICK c, s : c = Request /\ s = Current
  OBVIOUS
<1>3. PICK o \in Outcomes(dev, fault, Request) : dev' = o.dev /\ Accepts(Current, o.reply)
  BY CallPasses
<1>4. o \in Outcomes(d, f, c) /\ Accepts(s, o.reply) /\ s = Body[t][n]
  BY <1>1, <1>2, <1>3, Zenon
<1>5. Sends(s, c) /\ \A l \in Lock : LeavesLock(s.call, l) => LeavesLock(c, l)
  BY <1>2, RequestSends, RequestLeavesLock
<1>6. s.call.op \notin {"SignChallenge", "Message"}
  BY <1>2 DEF Call, Local
<1>7. n # Decisive[f][t]
  <2> SUFFICES ASSUME n = Decisive[f][t] PROVE FALSE
    OBVIOUS
  <2>1. Asks(f, t, s)
    BY <1>1, <1>4, DecisiveStep
  <2> QED  BY <1>1, <1>4, <1>5, <2>1, Obstacle
<1>8. n < Decisive[f][t]
  BY <1>1, <1>7
<1>9. Known(f, t, n + 1, o.dev)
  BY <1>1, <1>4, <1>5, <1>6, <1>8, Gains
<1>10. pc' = n + 1 /\ n + 1 <= Decisive[f][t]
  BY <1>1, <1>8, CallPasses
<1> QED  BY <1>1, <1>3, <1>9, <1>10

\* A call is lost.
LEMMA DecisiveLost ==
  ASSUME FaultInv, CallLost, phase = "body", Blameable, ~failed, ~failed', Blameable'
  PROVE  pc' <= Decisive[fault][test] /\ Known(fault, test, pc', dev')
<1>1. PICK d, f, t, n :
        /\ d = dev /\ f = fault /\ t = test /\ n = pc
        /\ IsDev(d) /\ HasLocks(d) /\ f \in FirmwareRule /\ t \in DetectedBy[f]
        /\ n \in Nat \ {0} /\ Decisive[f][t] \in Nat /\ n <= Decisive[f][t]
        /\ n <= Len(Program) /\ Len(Program) \in Nat
        /\ Known(f, t, n, d) /\ Current = Body[t][n]
  BY AtStep
<1>2. PICK c, s, e : c = Request /\ s = Current /\ e = dev'
  OBVIOUS
<1>3. /\ e \in {d} \union {o.dev : o \in Outcomes(d, f, c)}
      /\ Accepts(s, [code |-> "IO"]) /\ s.call.op # "GetState" /\ s = Body[t][n]
  <2>1. /\ dev' \in {dev} \union {o.dev : o \in Outcomes(dev, fault, Request)}
        /\ Accepts(Current, [code |-> "IO"]) /\ Current.call.op # "GetState"
    BY LostPasses
  <2> QED  BY <1>1, <1>2, <2>1, Zenon
<1>4. f # "ResetIsSigned"
  <2>1. lost \in Nat /\ lost' = lost + 1 /\ fault' = fault
    BY LostPasses DEF FaultInv, IInv
  <2>2. lost' # 0
    BY <2>1
  <2> QED  BY <1>1, <2>1, <2>2 DEF Blameable
<1>5. \A l \in Lock : LeavesLock(s.call, l) => LeavesLock(c, l)
  BY <1>2, RequestLeavesLock
<1>6. n # Decisive[f][t]
  <2> SUFFICES ASSUME n = Decisive[f][t] PROVE FALSE
    OBVIOUS
  <2>1. Asks(f, t, s)
    BY <1>1, <1>3, DecisiveStep
  <2> QED  BY <1>1, <1>3, <1>4, <2>1, ObstacleLost
<1>7. n < Decisive[f][t]
  BY <1>1, <1>6
<1>8. \A l \in Lock : LeavesLock(s.call, l) /\ d.locks[l] = 0 => e.locks[l] = 0
  BY <1>1, <1>3, <1>5, StaysUnset
<1>9. ~GainsAt(f, t, n)
  <2> SUFFICES ASSUME GainsAt(f, t, n) PROVE FALSE
    OBVIOUS
  <2>1. s.must = Code("OK")
    BY <1>1, <1>3, <1>4, GainingSteps
  <2>2. [code |-> "IO"].code = "OK"
    BY <1>3, <2>1, AcceptsOK
  <2> QED  BY <2>2
<1>10. Known(f, t, n + 1, e)
  <2>1. e.nonce = d.nonce \/ f # "ResetIsSigned" \/ t # "ResetProductionValid" \/ n < 2
    BY <1>4
  <2> QED  BY <1>1, <1>3, <1>7, <1>8, <1>9, <2>1, Keeps
<1>11. pc' = n + 1 /\ n + 1 <= Decisive[f][t]
  BY <1>1, <1>7, LostPasses
<1> QED  BY <1>1, <1>2, <1>10, <1>11

\* The test signs a challenge or fills a message.
LEMMA DecisiveLocal ==
  ASSUME FaultInv, LocalStep, phase = "body", Blameable, ~failed
  PROVE  pc' <= Decisive[fault][test] /\ Known(fault, test, pc', dev')
<1>1. PICK d, f, t, n :
        /\ d = dev /\ f = fault /\ t = test /\ n = pc
        /\ IsDev(d) /\ HasLocks(d) /\ f \in FirmwareRule /\ t \in DetectedBy[f]
        /\ n \in Nat \ {0} /\ Decisive[f][t] \in Nat /\ n <= Decisive[f][t]
        /\ n <= Len(Program) /\ Len(Program) \in Nat
        /\ Known(f, t, n, d) /\ Current = Body[t][n]
  BY AtStep
<1>2. PICK s : s = Current
  OBVIOUS
<1>3. /\ s.call.op \in {"SignChallenge", "Message"} /\ s = Body[t][n]
      /\ dev' = d /\ pc' = n + 1
  BY <1>1, <1>2 DEF LocalStep, Local
<1>4. n # Decisive[f][t]
  <2> SUFFICES ASSUME n = Decisive[f][t] PROVE FALSE
    OBVIOUS
  <2>1. Asks(f, t, s)
    BY <1>1, <1>3, DecisiveStep
  <2> QED  BY <1>1, <1>3, <2>1, AsksFirmware
<1>5. n < Decisive[f][t]
  BY <1>1, <1>4
<1>6. ~GainsAt(f, t, n)
  <2> SUFFICES ASSUME GainsAt(f, t, n) PROVE FALSE
    OBVIOUS
  <2>1. CASE f # "ResetIsSigned"
    BY <1>1, <1>3, <2>1, GainingSteps
  <2>2. CASE f = "ResetIsSigned"
    BY <1>1, <1>3, <2>2, Bodies, ResetProductionValidSteps DEF GainsAt
  <2> QED  BY <2>1, <2>2
<1>7. Known(f, t, n + 1, d)
  BY <1>1, <1>3, <1>5, <1>6, Keeps
<1> QED  BY <1>1, <1>3, <1>5, <1>7

\* The body starts.
LEMMA DecisiveStart ==
  ASSUME FaultInv, EndPhase, phase' = "body", Blameable, ~failed
  PROVE  pc' <= Decisive[fault][test] /\ Known(fault, test, pc', dev')
<1>1. PICK d, f, t : d = dev /\ f = fault /\ t = test
  OBVIOUS
<1>2. f \in FirmwareRule /\ t \in DetectedBy[f] /\ HasLocks(d)
  BY <1>1 DEF FaultInv, Blameable
<1>3. phase = "setup" /\ pc > Len(Program) /\ pc' = 1 /\ dev' = d
  BY <1>1 DEF EndPhase, EndOfPhase
<1>4. t # "SetRootOfTrust"
  BY <1>2, Pairs
<1>5. Program = SetUp /\ Len(SetUp) = 6
  BY <1>1, <1>3, <1>4, SetUpSteps DEF Program
<1>6. d.locks = Unlocked
  BY <1>1, <1>3, <1>4, <1>5 DEF FaultInv, UnlockedInv
<1>7. d.locks["DEVICE"] = 0 /\ d.locks["BOOT"] = 0
  BY <1>6 DEF Unlocked, Lock
<1>8. Known(f, t, 1, d)
  BY <1>7 DEF Known
<1>9. 1 <= Decisive[f][t]
  BY <1>2, Pairs
<1> QED  BY <1>1, <1>3, <1>8, <1>9

----------------------------------------------------------------------------
(* The invariant.                                                           *)

\* No test is blamed before it runs.
LEMMA FaultInit ==
  ASSUME Init
  PROVE  FaultInv
<1>1. IInv
  BY InitIInv
<1>2. /\ test = "SetRootOfTrust" /\ phase = "idle" /\ pc = 1 /\ fatal = FALSE /\ failed = FALSE
      /\ fault \in FirmwareRule \union {"none"}
  BY DEF Init, Idle
<1>3. HasLocks(dev)
  BY DEF Init, HasLocks
<1>4. ASSUME fault # "none" PROVE test \notin DetectedBy[fault]
  <2>1. PICK f, t : f = fault /\ t = test
    OBVIOUS
  <2> QED  BY <1>2, <1>4, <2>1, Pairs
<1> QED  BY <1>1, <1>2, <1>3, <1>4 DEF FaultInv, ReportInv, UnlockedInv, DecisiveInv, FaultDetected

\* Whether the fault is to be noticed does not get decided anew in a test.
LEMMA BlameStep ==
  ASSUME FaultInv, Call \/ CallLost \/ LocalStep \/ EndPhase, Blameable'
  PROVE  Blameable /\ test' = test /\ fault' = fault
<1>1. test' = test /\ fault' = fault
  BY DEF Call, Answered, CallLost, Lost, LocalStep, EndPhase, EndOfPhase
<1>2. lost' = 0 => lost = 0
  <2>1. lost \in Nat
    BY DEF FaultInv, IInv
  <2>2. lost' = lost \/ lost' = lost + 1
    BY DEF Call, Answered, CallLost, Lost, LocalStep, EndPhase, EndOfPhase
  <2> QED  BY <2>1, <2>2
<1> QED  BY <1>1, <1>2 DEF Blameable

\* No step of a test that has not failed leads past the decisive one.
LEMMA DecisiveInvStep ==
  ASSUME FaultInv, [Next]_vars
  PROVE  DecisiveInv'
<1> SUFFICES ASSUME phase' = "body", Blameable', ~failed'
             PROVE  pc' <= Decisive[fault'][test'] /\ Known(fault', test', pc', dev')
  BY DEF DecisiveInv
<1>1. CASE \E t \in Tests : Start(t)
  BY <1>1 DEF Start, Begin
<1>2. CASE Call
  <2>1. phase = "body" /\ ~failed
    BY <1>2 DEF Call, Answered
  <2> QED  BY <1>2, <2>1, BlameStep, DecisiveCall
<1>3. CASE CallLost
  <2>1. phase = "body" /\ ~failed
    BY <1>3 DEF CallLost, Lost
  <2> QED  BY <1>3, <2>1, BlameStep, DecisiveLost
<1>4. CASE LocalStep
  <2>1. phase = "body" /\ ~failed
    BY <1>4 DEF LocalStep
  <2> QED  BY <1>4, <2>1, BlameStep, DecisiveLocal
<1>5. CASE EndPhase
  <2>1. ~failed
    BY <1>5 DEF EndPhase, EndOfPhase
  <2> QED  BY <1>5, <2>1, BlameStep, DecisiveStart
<1>6. CASE UNCHANGED vars
  BY <1>6 DEF vars, gtestVars, FaultInv, DecisiveInv, Blameable
<1> QED  BY <1>1, <1>2, <1>3, <1>4, <1>5, <1>6 DEF Next

\* The test ends failed: it has not passed the decisive step.
LEMMA DetectedStep ==
  ASSUME FaultInv, [Next]_vars
  PROVE  FaultDetected'
<1> SUFFICES ASSUME phase' = "idle", Blameable' PROVE failed'
  BY DEF FaultDetected, Blameable
<1>1. CASE \E t \in Tests : Start(t)
  BY <1>1 DEF Start, Begin
<1>2. CASE Call \/ CallLost \/ LocalStep
  BY <1>2 DEF Call, Answered, CallLost, Lost, LocalStep, Running
<1>3. CASE EndPhase
  <2>1. Blameable /\ failed' = failed /\ pc > Len(Program)
    BY <1>3, BlameStep DEF EndPhase, EndOfPhase
  <2>2. CASE phase = "setup"
    BY <1>3, <2>1, <2>2 DEF EndPhase, EndOfPhase, SkipsBody, FaultInv, ReportInv
  <2>3. CASE phase = "body"
    <3> SUFFICES ASSUME ~failed PROVE FALSE
      BY <2>1
    <3>1. pc \in Nat /\ pc <= Len(Program) /\ Len(Program) \in Nat
      BY <2>1, <2>3, AtStep
    <3> QED  BY <2>1, <3>1
  <2> QED  BY <1>3, <2>2, <2>3 DEF EndPhase, EndOfPhase
<1>4. CASE UNCHANGED vars
  BY <1>4 DEF vars, gtestVars, FaultInv, FaultDetected, Blameable
<1> QED  BY <1>1, <1>2, <1>3, <1>4 DEF Next

\* The inductive invariant of the theorem below: a test that is to notice the
\* fault has failed or has not passed the step that asks for it.
THEOREM FaultInvariance == Spec => []FaultInv
<1>1. Init => FaultInv
  BY FaultInit
<1>2. FaultInv /\ [Next]_vars => FaultInv'
  <2> SUFFICES ASSUME FaultInv, [Next]_vars PROVE FaultInv'
    OBVIOUS
  <2>1. IInv'
    BY DevStep, SetUpStep DEF FaultInv, IInv
  <2> QED  BY <2>1, LocksStep, ReportStep, UnlockedStep, DecisiveInvStep, DetectedStep DEF FaultInv
<1> QED  BY <1>1, <1>2, PTL DEF Spec

\* A firmware without one of its rules never passes a test written for that
\* rule, for any number of slots, nonces and lost calls.
THEOREM FaultDetectedHolds == Spec => []FaultDetected
<1>1. FaultInv => FaultDetected
  BY DEF FaultInv
<1> QED  BY <1>1, FaultInvariance, PTL
=============================================================================
