------------------------------- MODULE Weaver -------------------------------
(* The Weaver application of the Citadel firmware, as the Weaver tests use  *)
(* it (src/src/weaver_tests.cc): slots with a key and a value, a count of   *)
(* wrong keys, and a throttle after the fifth.  Times are in seconds.  A    *)
(* faulty firmware breaks the rule that fault names.                        *)
(*                                                                          *)
(* The state is that of the AVB application and weaver, the slots.          *)
EXTENDS Avb, Integers

THROTTLE == 30        \* how long the fifth wrong key locks a slot
ATTEMPTS == 5

SlotState(key, value, attempts, left) ==
  [key |-> key, value |-> value, attempts |-> attempts, left |-> left]

\* The slots of the tests: 0 and 1 share a flash record, 5 is in another.
WeaverSlots == {0, 1, 5}
SameRecord(s, t) == {s, t} = {0, 1}

WeaverRule ==
  {"EraseClears", "NeighbourIsKept", "ValueSurvivesSleep", "ValueSurvivesReboot",
   "FifthThrottles", "ThrottleSurvivesSleep", "ThrottleSurvivesReboot",
   "ThrottleRunsInSleep", "AttemptsSurviveSleep", "AttemptsSurviveReboot",
   "SlotIsChecked", "WipeClearsValues", "WipeKeepsKeys", "ProductionResetWipes",
   "ConfigIsRight"}

EachSlot(d, f(_)) == [d EXCEPT !.weaver = [s \in WeaverSlots |-> f(@[s])]]

\* A throttle ends on its own.
Later(d, seconds) ==
  EachSlot(d, LAMBDA w : [w EXCEPT !.left = IF @ > seconds THEN @ - seconds ELSE 0])

----------------------------------------------------------------------------

ReadReply(error, throttle, value) ==
  [code |-> "OK", error |-> error, throttle |-> throttle, value |-> value]

WriteSlot(d, f, c) ==
  [d EXCEPT !.weaver = [s \in WeaverSlots |->
     IF s = c.slot THEN SlotState(c.key, c.value, 0, 0)
     ELSE IF f = "NeighbourIsKept" /\ SameRecord(s, c.slot)
     THEN [@[s] EXCEPT !.value = "zeros"] ELSE @[s]]]

\* A right key clears the count, a wrong one adds to it, up to the fifth.
ReadSlot(d, f, c) ==
  LET w == d.weaver[c.slot]
      limit == w.attempts + 1 >= ATTEMPTS /\ f # "FifthThrottles" IN
  IF w.left > 0 THEN Outcome(d, ReadReply("THROTTLE", w.left, "zeros"))
  ELSE IF c.key = w.key
  THEN Outcome([d EXCEPT !.weaver[c.slot].attempts = 0], ReadReply("NONE", 0, w.value))
  ELSE LET throttle == IF limit THEN THROTTLE ELSE 0 IN
       Outcome([d EXCEPT !.weaver[c.slot].attempts = IF @ < ATTEMPTS THEN @ + 1 ELSE @,
                         !.weaver[c.slot].left = throttle],
               ReadReply("WRONG_KEY", throttle, "zeros"))

\* What a slot loses in the firmware that breaks a rule.
Broken(f, rule, w, changed) == IF f = rule THEN changed ELSE w

AfterSleep(f, w) ==
  LET a == Broken(f, "ValueSurvivesSleep", w, [w EXCEPT !.value = "zeros"])
      b == Broken(f, "ThrottleSurvivesSleep", a, [a EXCEPT !.left = 0]) IN
  Broken(f, "AttemptsSurviveSleep", b, [b EXCEPT !.attempts = 0])

\* The rest of a throttle may start again from its full length.
AfterReboot(f, w, again) ==
  LET r == IF again /\ w.left > 0 THEN [w EXCEPT !.left = THROTTLE] ELSE w
      a == Broken(f, "ValueSurvivesReboot", r, [r EXCEPT !.value = "zeros"])
      b == Broken(f, "ThrottleSurvivesReboot", a, [a EXCEPT !.left = 0]) IN
  Broken(f, "AttemptsSurviveReboot", b, [b EXCEPT !.attempts = 0])

Wiped(f, w) ==
  LET a == [w EXCEPT !.value = "zeros"] IN Broken(f, "WipeKeepsKeys", a, [a EXCEPT !.key = "none"])

WeaverOutcomes(d, f, c) ==
  CASE c.op \in {"Read", "Write", "EraseValue"} /\ c.slot \notin WeaverSlots ->
         {Outcome(d, Status(IF f = "SlotIsChecked" THEN "OK" ELSE "BOGUS_ARGS"))}
    [] c.op = "Read" /\ c.slot \in WeaverSlots -> {ReadSlot(d, f, c)}
    [] c.op = "Write" /\ c.slot \in WeaverSlots -> Done(WriteSlot(d, f, c))
    [] c.op = "EraseValue" /\ c.slot \in WeaverSlots ->
         Done(IF f = "EraseClears" THEN d ELSE [d EXCEPT !.weaver[c.slot].value = "zeros"])
    [] c.op = "GetConfig" ->
         {Outcome(d, [code |-> "OK", sizes |-> f # "ConfigIsRight"])}
    [] c.op = "WaitForSleep" ->
         Done(Later(EachSlot(d, LAMBDA w : AfterSleep(f, w)),
                    IF f = "ThrottleRunsInSleep" THEN 0 ELSE c.seconds))
    [] c.op = "RebootNugget" ->
         UNION {Done(EachSlot(d, LAMBDA w : AfterReboot(f, w, again))) : again \in BOOLEAN}
    [] c.op = "WipeUserData" ->
         Done(IF f = "WipeClearsValues" THEN d ELSE EachSlot(d, LAMBDA w : Wiped(f, w)))
    [] c.op = "Reset" ->
         {[o EXCEPT !.dev = IF f = "ProductionResetWipes" \/ d.nonce = 0 THEN @
                            ELSE EachSlot(@, LAMBDA w : [w EXCEPT !.value = "zeros"])]
            : o \in Outcomes(d, f, c)}
    [] OTHER -> Outcomes(d, f, c)
=============================================================================
