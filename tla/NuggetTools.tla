----------------------------- MODULE NuggetTools -----------------------------
(***************************************************************************)
(* RebootNugget, WaitForSleep and WipeUserData (src/tools/nugget_tools.cc) *)
(* judge what the Citadel chip did from its low power statistics: they     *)
(* read them, do something to the chip, read them again and compare.       *)
(* Meanwhile the chip sleeps, wakes and resets as it likes, every call may *)
(* fail, with or without an effect on the chip, and a reply may be shorter *)
(* than the structure the tool copies out of its buffer.                   *)
(*                                                                         *)
(* The statistics are the fields the verdicts look at, in the order in     *)
(* which they are laid out.                                                *)
(***************************************************************************)
EXTENDS Integers, Sequences

CONSTANTS
    WaitSeconds,  \* wait_seconds
    ReplyLens,    \* how many fields of the statistics a reply may carry
    Garbage,      \* what a buffer may hold before the first reply
    MaxTime,      \* bound on the host's clock
    MaxResets,    \* bound on hard_reset_count
    MaxSleeps,    \* bound on deep_sleep_count
    MaxOps        \* bound on the calls of the tools

Fields == <<"hard_reset_count", "time_since_hard_reset", "wake_count",
            "time_at_last_wake", "deep_sleep_count", "time_spent_in_deep_sleep">>

FieldNames == {Fields[i] : i \in 1..6}

ASSUME ToolsAssumption ==
    /\ WaitSeconds \in Nat
    /\ ReplyLens \subseteq 0..6
    /\ Garbage \subseteq Nat
    /\ MaxTime \in Nat /\ MaxResets \in Nat /\ MaxSleeps \in Nat /\ MaxOps \in Nat

Tools == {"RebootNugget", "WaitForSleep", "WipeUserData"}

\* buffer = ERASE_CONFIRMATION written over the first word of hard_reset_count:
\* a value that no counter reaches.
ERASE_CONFIRMATION == -1

VARIABLES
    chip,     \* its statistics
    asleep,   \* the chip is in deep sleep, since when (time since hard reset)
    wiped,    \* the chip erased the user data since the tool was called
    clock,    \* the host's clock
    op,       \* the tool that is running, or ran last
    pc,       \* its next step
    start,    \* when it took the time
    buffer,   \* the memory of its buffer
    stats0, stats1,
    result,   \* what it returned
    seen,     \* what happened between the two reads, known to no tool
    ops       \* calls of the tools so far

vars == <<chip, asleep, wiped, clock, op, pc, start, buffer, stats0,
          stats1, result, seen, ops>>

chipVars == <<chip, asleep, wiped>>
toolVars == <<op, pc, start, buffer, stats0, stats1, result, ops>>

Nothing == [resets |-> 0, resetAt |-> 0, sleeps |-> 0, slept |-> 0,
            since |-> 0, readAt |-> 0,
            whole0 |-> FALSE, judged |-> FALSE, whole1 |-> FALSE]

Zeros == [f \in FieldNames |-> 0]

Init ==
    /\ chip = Zeros
    /\ asleep = [is |-> FALSE, from |-> 0]
    /\ wiped = FALSE
    /\ clock = 0
    /\ op \in Tools
    /\ pc = "idle"
    /\ start = 0
    /\ buffer = Zeros
    /\ stats0 = Zeros
    /\ stats1 = Zeros
    /\ result = "none"
    /\ seen = Nothing
    /\ ops = 0

-----------------------------------------------------------------------------
(* The chip.  Its counters start over at a hard reset, but for the count   *)
(* of resets.                                                              *)

Watched == pc \notin {"idle", "verdict"}

Tick ==
    /\ clock < MaxTime
    /\ clock' = clock + 1
    /\ chip' = [chip EXCEPT !.time_since_hard_reset = @ + 1]
    /\ UNCHANGED <<asleep, wiped, seen, toolVars>>

HardReset ==
    /\ chip.hard_reset_count < MaxResets
    /\ chip' = [Zeros EXCEPT !.hard_reset_count = chip.hard_reset_count + 1]
    /\ asleep' = [is |-> FALSE, from |-> 0]
    /\ seen' = IF Watched THEN [seen EXCEPT !.resets = @ + 1, !.resetAt = clock,
                                            !.since = 0]
                          ELSE seen
    /\ UNCHANGED <<wiped, clock, toolVars>>

Sleep ==
    /\ ~asleep.is
    /\ chip.deep_sleep_count < MaxSleeps
    /\ asleep' = [is |-> TRUE, from |-> chip.time_since_hard_reset]
    /\ chip' = [chip EXCEPT !.deep_sleep_count = @ + 1]
    /\ seen' = IF Watched THEN [seen EXCEPT !.sleeps = @ + 1, !.since = @ + 1]
                          ELSE seen
    /\ UNCHANGED <<wiped, clock, toolVars>>

SleptFor == chip.time_since_hard_reset - asleep.from

\* The chip after it was woken up, as every call does.
Woken ==
    IF asleep.is
    THEN [chip EXCEPT !.wake_count = @ + 1,
                      !.time_at_last_wake = chip.time_since_hard_reset,
                      !.time_spent_in_deep_sleep = @ + SleptFor]
    ELSE chip

WakeUp ==
    /\ chip' = Woken
    /\ asleep' = [is |-> FALSE, from |-> 0]

SleepSeen == IF asleep.is THEN [seen EXCEPT !.slept = @ + SleptFor] ELSE seen

Wake ==
    /\ asleep.is
    /\ WakeUp
    /\ seen' = IF Watched THEN SleepSeen ELSE seen
    /\ UNCHANGED <<wiped, clock, toolVars>>

Chip == Tick \/ HardReset \/ Sleep \/ Wake

-----------------------------------------------------------------------------
(* The tools *)

\* The memory of the buffer after a reply of n fields was received into it.
Received(n, memory) ==
    [f \in FieldNames |-> IF \E i \in 1..n : Fields[i] = f THEN Woken[f] ELSE memory[f]]

Finish(verdict) == result' = verdict /\ pc' = "idle"

(* NUGGET_PARAM_GET_LOW_POWER_STATS, the first of the two. *)
GetStats0(tool) ==
    /\ pc = "idle"
    /\ ops < MaxOps
    /\ ops' = ops + 1
    /\ op' = tool
    /\ WakeUp
    /\ \E n \in ReplyLens, g \in Garbage :
          /\ buffer' = Received(n, [f \in FieldNames |-> g])
          /\ seen' = [Nothing EXCEPT !.whole0 = (n = 6)]
    /\ stats0' = buffer'
    /\ wiped' = FALSE
    /\ result' = "none"
    /\ pc' = "start"
    /\ UNCHANGED <<clock, start, stats1>>

GetStats0Fails(tool) ==
    /\ pc = "idle"
    /\ ops < MaxOps
    /\ ops' = ops + 1
    /\ op' = tool
    /\ Finish("FALSE")
    /\ wiped' = FALSE
    /\ seen' = Nothing
    /\ UNCHANGED <<chip, asleep, clock, start, buffer, stats0, stats1>>

Now == clock

(* RebootNugget captures the time; WaitForSleep's sleep_for begins. *)
TakeTime ==
    /\ pc = "start"
    /\ op \in {"RebootNugget", "WaitForSleep"}
    /\ start' = Now
    /\ pc' = "act"
    /\ UNCHANGED <<chipVars, clock, op, buffer, stats0, stats1, result, seen, ops>>

(* NUGGET_PARAM_REBOOT.  Whatever the status, a HardReset may follow or    *)
(* not: that is what the tool is there to find out.                        *)
Reboot(ok) ==
    /\ pc = "act"
    /\ op = "RebootNugget"
    /\ WakeUp
    /\ seen' = SleepSeen
    /\ IF ok THEN pc' = "stats1" /\ UNCHANGED result ELSE Finish("FALSE")
    /\ UNCHANGED <<wiped, clock, op, start, buffer, stats0, stats1, ops>>

Waited == clock - start >= WaitSeconds

SleepOver ==
    /\ pc = "act"
    /\ op = "WaitForSleep"
    /\ Waited
    /\ pc' = "stats1"
    /\ UNCHANGED <<chipVars, clock, op, start, buffer, stats0, stats1, result, seen, ops>>

\* Mutant: the request is built in a vector of its own.
WipeRequestApart == UNCHANGED buffer

\* buffer.resize(4) and the confirmation, written over the first word.
WipeRequest == buffer' = [buffer EXCEPT !.hard_reset_count = ERASE_CONFIRMATION]

(* NUGGET_PARAM_NUKE_FROM_ORBIT: a success is only returned for data that  *)
(* is gone; a HardReset may follow here too.                               *)
Wipe(ok) ==
    /\ pc = "start"
    /\ op = "WipeUserData"
    /\ WakeUp
    /\ seen' = SleepSeen
    /\ WipeRequest
    /\ wiped' \in {TRUE, ok}
    /\ IF ok THEN pc' = "stats1" /\ UNCHANGED result ELSE Finish("FALSE")
    /\ UNCHANGED <<clock, op, start, stats0, stats1, ops>>

(* The second NUGGET_PARAM_GET_LOW_POWER_STATS.  buffer.empty() does not   *)
(* clear the buffer: what the reply does not cover is left from before.    *)
GetStats1 ==
    /\ pc = "stats1"
    /\ WakeUp
    /\ \E n \in ReplyLens :
          /\ buffer' = Received(n, buffer)
          /\ seen' = [SleepSeen EXCEPT !.judged = TRUE, !.whole1 = (n = 6),
                                      !.readAt = clock]
    /\ stats1' = buffer'
    /\ pc' = "verdict"
    /\ UNCHANGED <<wiped, clock, op, start, stats0, result, ops>>

GetStats1Fails ==
    /\ pc = "stats1"
    /\ Finish("FALSE")
    /\ UNCHANGED <<chipVars, clock, op, start, buffer, stats0, stats1, seen, ops>>

\* Our time + 5%.
MaxUsecs == ((clock - start) * 105) \div 100

\* Mutant: the time since the reset is not looked at.
RebootedAnyTime ==
    /\ stats1.hard_reset_count = stats0.hard_reset_count + 1
    /\ stats1.time_at_last_wake = 0
    /\ stats1.deep_sleep_count = 0

Rebooted ==
    /\ stats1.hard_reset_count = stats0.hard_reset_count + 1
    /\ stats1.time_at_last_wake = 0
    /\ stats1.deep_sleep_count = 0
    /\ stats1.time_since_hard_reset < MaxUsecs

\* Mutant: the chip is expected to be asleep still, but the call woke it.
StillAsleep ==
    /\ stats1.hard_reset_count = stats0.hard_reset_count
    /\ stats1.deep_sleep_count = stats0.deep_sleep_count + 1
    /\ stats1.wake_count = stats0.wake_count
    /\ stats1.time_spent_in_deep_sleep > stats0.time_spent_in_deep_sleep

WentToSleep ==
    /\ stats1.hard_reset_count = stats0.hard_reset_count
    /\ stats1.deep_sleep_count = stats0.deep_sleep_count + 1
    /\ stats1.wake_count = stats0.wake_count + 1
    /\ stats1.time_spent_in_deep_sleep > stats0.time_spent_in_deep_sleep

NotReset == stats1.hard_reset_count = stats0.hard_reset_count

Holds ==
    CASE op = "RebootNugget" -> Rebooted
      [] op = "WaitForSleep" -> WentToSleep
      [] op = "WipeUserData" -> NotReset

Verdict ==
    /\ pc = "verdict"
    /\ Finish(IF Holds THEN "TRUE" ELSE "FALSE")
    /\ UNCHANGED <<chipVars, clock, op, start, buffer, stats0, stats1, seen, ops>>

Tool ==
    \/ \E tool \in Tools : GetStats0(tool) \/ GetStats0Fails(tool)
    \/ TakeTime \/ SleepOver \/ GetStats1 \/ GetStats1Fails \/ Verdict
    \/ \E ok \in BOOLEAN : Reboot(ok) \/ Wipe(ok)

Next == Chip \/ Tool

Spec == Init /\ [][Next]_vars

-----------------------------------------------------------------------------
(* Properties *)

Stats == [FieldNames -> Nat]

\* The type of every variable.
TypeOK ==
    /\ chip \in Stats
    /\ asleep \in [is : BOOLEAN, from : Nat]
    /\ wiped \in BOOLEAN
    /\ clock \in Nat
    /\ op \in Tools
    /\ pc \in {"idle", "start", "act", "stats1", "verdict"}
    /\ start \in 0..clock
    /\ buffer \in [FieldNames -> Int]
    /\ stats0 \in Stats
    /\ stats1 \in [FieldNames -> Int]
    /\ result \in {"none", "TRUE", "FALSE"}
    /\ seen \in [resets : Nat, resetAt : Nat, sleeps : Nat, slept : Nat,
                  since : Nat, readAt : Nat,
                  whole0 : BOOLEAN, judged : BOOLEAN, whole1 : BOOLEAN]
    /\ ops \in Nat

Returned(tool, verdict) == pc = "idle" /\ op = tool /\ result = verdict

\* RebootNugget returns true only if the chip made exactly one hard reset
\* between the two reads of its statistics, even if the second reply was cut
\* short and the rest of stats1 is left from stats0.  With whole replies, it
\* means that the chip has not slept since and that the reset was the one asked
\* for, or at most so much older than the request as the clocks may disagree:
\* 5% of the time that passed, and what passed between the chip's reading its
\* clock and the tool's reading its own.
RebootVerdictSound ==
    Returned("RebootNugget", "TRUE") /\ seen.whole0 =>
        /\ seen.resets = 1
        /\ seen.whole1 =>
             /\ (start - seen.resetAt) * 100 <= (clock - start) * 5 + (clock - seen.readAt) * 100
             /\ seen.since = 0

\* WaitForSleep returns true only if the chip slept, once and for some time,
\* and did not reset, and the seconds it passes back are no more than what it
\* waited.  A second reply that was cut short cannot make it return true.  If
\* it read both statistics whole it does not overlook such a sleep, although
\* its own second call is what wakes the chip up.
WaitVerdictExact ==
    LET SleptOnce == seen.resets = 0 /\ seen.sleeps = 1 /\ seen.slept > 0 IN
    /\ Returned("WaitForSleep", "TRUE") /\ seen.whole0 =>
         SleptOnce /\ WaitSeconds <= clock - start
    /\ Returned("WaitForSleep", "FALSE") /\ seen.judged /\ seen.whole0 /\ seen.whole1 =>
         ~SleptOnce

\* WipeUserData returns true only if the user data is gone and the chip did not
\* reset between the reads; a second reply that was cut short to nothing does
\* not hide a reset, because the request was written over the old count.
WipeVerdictSound ==
    Returned("WipeUserData", "TRUE") /\ seen.whole0 => wiped /\ seen.resets = 0
=============================================================================
