------------------------------- MODULE GTest -------------------------------
(* How gtest runs a test of this repository against a device.               *)
(*                                                                          *)
(* A test is a sequence of steps, each a call and what the code asserts of  *)
(* the answer.  gtest's ASSERT only returns from the function it is written *)
(* in: inside a helper it leaves the helper, and the test goes on.  A step  *)
(* therefore says how many of the following steps its ASSERT skips.  Only   *)
(* after SetUp does gtest look at fatal failures, to leave out the body.    *)
(* Every call may be lost, before or after the firmware served it.          *)
EXTENDS Naturals, Sequences, SequencesExt

CONSTANTS
  MaxLost     \* lost calls in one test

ASSUME GTestAssumption == MaxLost \in Nat

VARIABLES
  dev,        \* the state of the firmware under test
  fault,      \* the rule this firmware breaks, or "none"
  test,       \* the test that runs, or the last that ran
  phase,      \* "idle", "setup", "body"; "dead": the process died
  pc,         \* the next step of the phase
  fatal,      \* an ASSERT failed in this test
  failed,     \* an ASSERT or EXPECT failed in this test
  lost        \* calls lost in this test

gtestVars == <<dev, fault, test, phase, pc, fatal, failed, lost>>

----------------------------------------------------------------------------
(* The steps.  must is what an ASSERT compares and should what an EXPECT    *)
(* does: sets of admissible values, by field of the reply.                  *)

Step(call, must, should, skip) ==
  <<[call |-> call, must |-> must, should |-> should, skip |-> skip]>>

Nothing == [x \in {} |-> {}]
Code(c) == [code |-> {c}]

\* An ASSERT in a test skips the rest of it.
ABORT == 1000

\* ASSERT_EQ(call, code) in a test.
AssertCode(call, code) == Step(call, Code(code), Nothing, ABORT)

Meets(reply, want) ==
  \A x \in DOMAIN want : x \in DOMAIN reply /\ reply[x] \in want[x]

----------------------------------------------------------------------------
(* The run of a test.                                                       *)

Idle(t) ==
  /\ test = t /\ phase = "idle" /\ pc = 1
  /\ fatal = FALSE /\ failed = FALSE /\ lost = 0

Begin(t) ==
  /\ phase = "idle"
  /\ test' = t /\ phase' = "setup" /\ pc' = 1
  /\ fatal' = FALSE /\ failed' = FALSE /\ lost' = 0

\* The next step after an ASSERT of this one.
After(step, holds) == IF holds THEN pc + 1 ELSE pc + 1 + step.skip

\* The firmware answers and the test compares the answer.
Answered(step, outcome) ==
  LET must == Meets(outcome.reply, step.must) IN
  /\ dev' = outcome.dev
  /\ pc' = After(step, must)
  /\ fatal' = (fatal \/ ~must)
  /\ failed' = (failed \/ ~must \/ ~Meets(outcome.reply, step.should))
  /\ UNCHANGED <<fault, test, phase, lost>>

\* The call fails on its way: the firmware may have served it or not.  Where
\* the helper's own ASSERT leaves variables of the caller unset, the caller's
\* ASSERT may hold or not.
Lost(step, outcomes, unset) ==
  LET io == [code |-> "IO"]
      must == Meets(io, step.must) IN
  /\ lost < MaxLost
  /\ lost' = lost + 1
  /\ dev' \in {dev} \union {o.dev : o \in outcomes}
  /\ pc' \in {After(step, must)} \union {n \in {pc + 1} : unset}
  /\ fatal' = (fatal \/ ~must \/ unset)
  /\ failed' = (failed \/ ~must \/ unset \/ ~Meets(io, step.should))
  /\ UNCHANGED <<fault, test, phase>>

\* gtest leaves the body out after a fatal failure of SetUp.
SkipsBody == fatal

EndOfPhase(program) ==
  /\ phase \in {"setup", "body"} /\ pc > Len(program)
  /\ phase' = IF phase = "setup" /\ ~SkipsBody THEN "body" ELSE "idle"
  /\ pc' = 1
  /\ UNCHANGED <<dev, fault, test, fatal, failed, lost>>

GTestTypeOK(tests) ==
  /\ test \in tests /\ phase \in {"idle", "setup", "body", "dead"}
  /\ pc \in Nat \ {0}
  /\ fatal \in BOOLEAN /\ failed \in BOOLEAN /\ (fatal => failed)
  /\ lost \in 0 .. MaxLost
=============================================================================
