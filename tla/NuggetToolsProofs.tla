-------------------------- MODULE NuggetToolsProofs --------------------------
(***************************************************************************)
(* For any wait, any clock, any number of resets, sleeps and calls, and    *)
(* replies of any length: what the tools return is what the chip did       *)
(* between their two reads of its statistics.                              *)
(***************************************************************************)
EXTENDS NuggetTools, TLAPS

\* The chip fell asleep at a time it has passed.
SleepInv == asleep.is => asleep.from <= chip.time_since_hard_reset

\* Between the two reads the chip's counters are those of the first read and
\* what happened since; a reset starts them over.
Counted ==
    /\ chip.hard_reset_count = stats0.hard_reset_count + seen.resets
    /\ seen.resets = 0 =>
         /\ chip.deep_sleep_count = stats0.deep_sleep_count + seen.sleeps
         /\ asleep.is => chip.wake_count + 1 = stats0.wake_count + seen.sleeps
         /\ ~asleep.is => chip.wake_count = stats0.wake_count + seen.sleeps
         /\ chip.time_spent_in_deep_sleep = stats0.time_spent_in_deep_sleep + seen.slept
    /\ seen.resets > 0 =>
         /\ chip.deep_sleep_count = seen.since
         /\ chip.time_since_hard_reset = clock - seen.resetAt

WatchInv == Watched /\ seen.whole0 => Counted

\* Before the second read the buffer still has the first reply, but for the
\* request that WipeUserData wrote over it; and the tool has done its part.
ActInv ==
    Watched =>
      /\ ~seen.judged
      /\ pc = "act" => op # "WipeUserData"
      /\ \A f \in FieldNames \ {"hard_reset_count"} : buffer[f] = stats0[f]
      /\ buffer.hard_reset_count = IF op = "WipeUserData" /\ pc = "stats1"
                                   THEN ERASE_CONFIRMATION ELSE stats0.hard_reset_count

DoneInv ==
    pc \in {"stats1", "verdict"} =>
      /\ op = "WaitForSleep" => Waited
      /\ op = "WipeUserData" => wiped

\* At the verdict stats1 has what happened between the reads, as far as the
\* second reply went, and what the buffer had before for the rest.
VerdictInv ==
    pc = "verdict" /\ seen.whole0 =>
      /\ seen.readAt <= clock
      /\ \/ stats1.hard_reset_count = stats0.hard_reset_count + seen.resets
         \/ /\ ~seen.whole1
            /\ stats1.hard_reset_count = IF op = "WipeUserData" THEN ERASE_CONFIRMATION
                                         ELSE stats0.hard_reset_count
      /\ ~seen.whole1 =>
           stats1.time_spent_in_deep_sleep = stats0.time_spent_in_deep_sleep
      /\ seen.whole1 /\ seen.resets = 0 =>
           /\ stats1.deep_sleep_count = stats0.deep_sleep_count + seen.sleeps
           /\ stats1.wake_count = stats0.wake_count + seen.sleeps
           /\ stats1.time_spent_in_deep_sleep = stats0.time_spent_in_deep_sleep + seen.slept
      /\ seen.whole1 /\ seen.resets > 0 =>
           /\ stats1.deep_sleep_count = seen.since
           /\ stats1.time_since_hard_reset = seen.readAt - seen.resetAt

Verdicts == RebootVerdictSound /\ WaitVerdictExact /\ WipeVerdictSound

IInv ==
    TypeOK /\ SleepInv /\ WatchInv /\ ActInv /\ DoneInv /\ VerdictInv /\ Verdicts

-----------------------------------------------------------------------------
(* The fields *)

\* The statistics have six fields, in the order of the structure.
LEMMA FieldFacts ==
    /\ FieldNames = {"hard_reset_count", "time_since_hard_reset", "wake_count",
                     "time_at_last_wake", "deep_sleep_count", "time_spent_in_deep_sleep"}
    /\ \A n \in 0..6 :
         /\ (\E i \in 1..n : Fields[i] = "hard_reset_count") <=> n >= 1
         /\ (\E i \in 1..n : Fields[i] = "time_since_hard_reset") <=> n >= 2
         /\ (\E i \in 1..n : Fields[i] = "wake_count") <=> n >= 3
         /\ (\E i \in 1..n : Fields[i] = "deep_sleep_count") <=> n >= 5
         /\ (\E i \in 1..n : Fields[i] = "time_spent_in_deep_sleep") <=> n >= 6
<1>1. /\ Fields[1] = "hard_reset_count" /\ Fields[2] = "time_since_hard_reset"
      /\ Fields[3] = "wake_count" /\ Fields[4] = "time_at_last_wake"
      /\ Fields[5] = "deep_sleep_count" /\ Fields[6] = "time_spent_in_deep_sleep"
  BY DEF Fields
<1>2. 1..6 = {1, 2, 3, 4, 5, 6}
  OBVIOUS
<1>3. FieldNames = {Fields[1], Fields[2], Fields[3], Fields[4], Fields[5], Fields[6]}
  BY <1>2 DEF FieldNames
<1>4. ASSUME NEW n \in 0..6, NEW f, NEW k \in 1..6,
             \A i \in 1..6 : Fields[i] = f <=> i = k
      PROVE  (\E i \in 1..n : Fields[i] = f) <=> n >= k
  BY <1>4
<1>5. \A i \in 1..6 : /\ Fields[i] = "hard_reset_count" <=> i = 1
                      /\ Fields[i] = "time_since_hard_reset" <=> i = 2
                      /\ Fields[i] = "wake_count" <=> i = 3
                      /\ Fields[i] = "deep_sleep_count" <=> i = 5
                      /\ Fields[i] = "time_spent_in_deep_sleep" <=> i = 6
  BY <1>1, <1>2
<1>6. \A n \in 0..6 :
         /\ (\E i \in 1..n : Fields[i] = "hard_reset_count") <=> n >= 1
         /\ (\E i \in 1..n : Fields[i] = "time_since_hard_reset") <=> n >= 2
         /\ (\E i \in 1..n : Fields[i] = "wake_count") <=> n >= 3
         /\ (\E i \in 1..n : Fields[i] = "deep_sleep_count") <=> n >= 5
         /\ (\E i \in 1..n : Fields[i] = "time_spent_in_deep_sleep") <=> n >= 6
  <2> TAKE n \in 0..6
  <2>1. (\E i \in 1..n : Fields[i] = "hard_reset_count") <=> n >= 1
    BY <1>4, <1>5
  <2>2. (\E i \in 1..n : Fields[i] = "time_since_hard_reset") <=> n >= 2
    BY <1>4, <1>5
  <2>3. (\E i \in 1..n : Fields[i] = "wake_count") <=> n >= 3
    BY <1>4, <1>5
  <2>4. (\E i \in 1..n : Fields[i] = "deep_sleep_count") <=> n >= 5
    BY <1>4, <1>5
  <2>5. (\E i \in 1..n : Fields[i] = "time_spent_in_deep_sleep") <=> n >= 6
    BY <1>4, <1>5
  <2> QED  BY <2>1, <2>2, <2>3, <2>4, <2>5
<1> QED  BY <1>1, <1>3, <1>6

\* The numbers in a set of statistics.
LEMMA StatsFields ==
    ASSUME NEW s \in Stats
    PROVE  /\ s.hard_reset_count \in Nat /\ s.time_since_hard_reset \in Nat
           /\ s.wake_count \in Nat /\ s.time_at_last_wake \in Nat
           /\ s.deep_sleep_count \in Nat /\ s.time_spent_in_deep_sleep \in Nat
BY FieldFacts DEF Stats

\* Waking the chip counts the sleep that ends, and nothing else.
LEMMA WokenFacts ==
    ASSUME TypeOK, SleepInv
    PROVE  /\ Woken \in Stats
           /\ Woken.hard_reset_count = chip.hard_reset_count
           /\ Woken.time_since_hard_reset = chip.time_since_hard_reset
           /\ Woken.deep_sleep_count = chip.deep_sleep_count
           /\ asleep.is => /\ SleptFor \in Nat
                           /\ Woken.wake_count = chip.wake_count + 1
                           /\ Woken.time_spent_in_deep_sleep =
                                chip.time_spent_in_deep_sleep + SleptFor
           /\ ~asleep.is => Woken = chip
<1> USE DEF TypeOK, Stats
<1>1. chip \in [FieldNames -> Nat]
  OBVIOUS
<1>2. CASE asleep.is
  <2>1. SleptFor \in Nat
    <3>1. chip.time_since_hard_reset \in Nat
      BY <1>1, FieldFacts
    <3>2. asleep.from \in Nat /\ asleep.from <= chip.time_since_hard_reset
      BY <1>2 DEF SleepInv
    <3> QED  BY <3>1, <3>2 DEF SleptFor
  <2>2. Woken = [chip EXCEPT !.wake_count = @ + 1,
                             !.time_at_last_wake = chip.time_since_hard_reset,
                             !.time_spent_in_deep_sleep = @ + SleptFor]
    BY <1>2 DEF Woken
  <2>3. Woken \in Stats
    <3>1. /\ chip.wake_count + 1 \in Nat /\ chip.time_since_hard_reset \in Nat
          /\ chip.time_spent_in_deep_sleep + SleptFor \in Nat
      BY <1>1, <2>1, FieldFacts
    <3>2. Woken = [chip EXCEPT !.wake_count = chip.wake_count + 1,
                               !.time_at_last_wake = chip.time_since_hard_reset,
                               !.time_spent_in_deep_sleep =
                                  chip.time_spent_in_deep_sleep + SleptFor]
      BY <1>1, <2>2, FieldFacts
    <3> QED  BY <1>1, <3>1, <3>2
  <2> QED  BY <1>1, <1>2, <2>1, <2>2, <2>3, FieldFacts
<1>3. CASE ~asleep.is
  BY <1>1, <1>3 DEF Woken
<1> QED  BY <1>2, <1>3

\* What a reply of n fields leaves in the buffer.
LEMMA ReceivedFacts ==
    ASSUME TypeOK, SleepInv, NEW n \in 0..6, NEW memory \in [FieldNames -> Int]
    PROVE  /\ Received(n, memory) \in [FieldNames -> Int]
           /\ memory \in Stats => Received(n, memory) \in Stats
           /\ n = 6 => /\ Received(n, memory).hard_reset_count = Woken.hard_reset_count
                       /\ Received(n, memory).time_since_hard_reset = Woken.time_since_hard_reset
                       /\ Received(n, memory).wake_count = Woken.wake_count
                       /\ Received(n, memory).deep_sleep_count = Woken.deep_sleep_count
                       /\ Received(n, memory).time_spent_in_deep_sleep =
                            Woken.time_spent_in_deep_sleep
           /\ n # 6 => Received(n, memory).time_spent_in_deep_sleep =
                            memory.time_spent_in_deep_sleep
           /\ \/ Received(n, memory).hard_reset_count = Woken.hard_reset_count
              \/ n # 6 /\ Received(n, memory).hard_reset_count = memory.hard_reset_count
<1>1. Woken \in [FieldNames -> Nat]
  BY WokenFacts DEF Stats
<1>2. /\ Received(n, memory) \in [FieldNames -> Int]
      /\ memory \in Stats => Received(n, memory) \in Stats
  BY <1>1 DEF Received, Stats
<1>3. \A f \in FieldNames :
        Received(n, memory)[f] = IF \E i \in 1..n : Fields[i] = f THEN Woken[f] ELSE memory[f]
  BY DEF Received
<1> QED  BY <1>2, <1>3, FieldFacts

\* What may be known of the events between the reads.
SeenSet == [resets : Nat, resetAt : Nat, sleeps : Nat, slept : Nat,
            since : Nat, readAt : Nat,
            whole0 : BOOLEAN, judged : BOOLEAN, whole1 : BOOLEAN]

\* What is known of the events between the reads.
LEMMA SeenFields ==
    ASSUME TypeOK
    PROVE  /\ seen.resets \in Nat /\ seen.resetAt \in Nat /\ seen.sleeps \in Nat
           /\ seen.slept \in Nat /\ seen.since \in Nat /\ seen.readAt \in Nat
           /\ seen.whole0 \in BOOLEAN /\ seen.judged \in BOOLEAN /\ seen.whole1 \in BOOLEAN
BY DEF TypeOK

-----------------------------------------------------------------------------

\* The tools start in the invariant.
LEMMA InitIInv == Init => IInv
<1> SUFFICES ASSUME Init PROVE IInv
  OBVIOUS
<1>1. Zeros \in Stats /\ Zeros \in [FieldNames -> Int]
  BY DEF Zeros, Stats
<1>2. TypeOK
  <2>1. Nothing \in SeenSet
    BY DEF Nothing, SeenSet
  <2>2. wiped \in BOOLEAN /\ asleep \in [is : BOOLEAN, from : Nat]
    BY DEF Init
  <2>3. clock \in Nat /\ start \in 0..clock /\ ops \in Nat
    BY DEF Init
  <2> QED  BY <1>1, <2>1, <2>2, <2>3 DEF Init, TypeOK, SeenSet
<1>3. SleepInv /\ WatchInv /\ ActInv
  BY DEF Init, SleepInv, WatchInv, ActInv, Watched
<1>4. DoneInv /\ VerdictInv /\ Verdicts
  BY DEF Init, DoneInv, VerdictInv, Verdicts, RebootVerdictSound, WaitVerdictExact,
     WipeVerdictSound, Returned
<1> QED  BY <1>2, <1>3, <1>4 DEF IInv

\* Who has waited long enough has so later.
LEMMA Longer ==
    ASSUME NEW w \in Nat, NEW s \in Nat, NEW c \in Nat, NEW d \in Nat, c <= d
    PROVE  w <= c - s => w <= d - s
OBVIOUS

\* What the chip does, and the time that passes, take nothing from a tool.
LEMMA ToolKept ==
    ASSUME IInv, UNCHANGED <<wiped, toolVars>>, clock' \in {clock, clock + 1},
           Watched => seen'.judged = seen.judged,
           ~Watched => seen' = seen
    PROVE  ActInv' /\ DoneInv' /\ VerdictInv' /\ Verdicts'
<1>1. /\ clock \in Nat /\ start \in 0..clock /\ WaitSeconds \in Nat
      /\ pc \in {"idle", "start", "act", "stats1", "verdict"}
  BY ToolsAssumption DEF IInv, TypeOK
<1>0. start' = start /\ start \in Nat /\ clock' \in Nat /\ clock <= clock'
  BY <1>1 DEF toolVars
<1>2. ActInv'
  BY DEF IInv, ActInv, Watched, toolVars
<1>3. DoneInv'
  <2>1. Waited => Waited'
    <3>1. WaitSeconds <= clock - start => WaitSeconds <= clock' - start
      BY <1>0, <1>1, Longer
    <3> QED  BY <1>0, <1>1, <3>1 DEF Waited
  <2> QED  BY <2>1 DEF IInv, DoneInv, toolVars
<1>4. VerdictInv'
  <2>1. CASE pc # "verdict"
    BY <2>1 DEF VerdictInv, toolVars
  <2>2. CASE pc = "verdict"
    <3>1. seen' = seen
      BY <2>2 DEF Watched
    <3> QED  BY <3>1, <1>1, SeenFields DEF IInv, VerdictInv, toolVars
  <2> QED  BY <2>1, <2>2
<1>5. Verdicts'
  <2>1. CASE pc # "idle"
    BY <2>1 DEF Verdicts, RebootVerdictSound, WaitVerdictExact, WipeVerdictSound,
       Returned, toolVars
  <2>2. CASE pc = "idle"
    <3>1. seen' = seen
      BY <2>2 DEF Watched
    <3>2. RebootVerdictSound'
      BY <3>1, <1>1, SeenFields DEF IInv, Verdicts, RebootVerdictSound, Returned, toolVars
    <3>3. WaitVerdictExact'
      <4>1. WaitSeconds <= clock - start => WaitSeconds <= clock' - start'
        BY <1>0, <1>1, Longer
      <4> QED  BY <3>1, <4>1 DEF IInv, Verdicts, WaitVerdictExact, Returned, toolVars
    <3>4. WipeVerdictSound'
      BY <3>1 DEF IInv, Verdicts, WipeVerdictSound, Returned, toolVars
    <3> QED  BY <3>2, <3>3, <3>4 DEF Verdicts
  <2> QED  BY <2>1, <2>2
<1> QED  BY <1>2, <1>3, <1>4, <1>5

\* A tick of the clocks.
LEMMA TickStep ==
    ASSUME IInv, Tick
    PROVE  IInv'
<1>1. /\ clock' = clock + 1
      /\ chip' = [chip EXCEPT !.time_since_hard_reset = @ + 1]
      /\ UNCHANGED <<asleep, wiped, seen, toolVars>>
  BY DEF Tick
<1>2. TypeOK /\ chip \in [FieldNames -> Nat] /\ clock \in Nat
  BY DEF IInv, TypeOK, Stats
<1>3. /\ chip' \in [FieldNames -> Nat]
      /\ chip'.time_since_hard_reset = chip.time_since_hard_reset + 1
      /\ \A f \in FieldNames \ {"time_since_hard_reset"} : chip'[f] = chip[f]
  BY <1>1, <1>2, FieldFacts
<1>4. TypeOK'
  BY <1>1, <1>2, <1>3 DEF TypeOK, Stats, toolVars
<1>5. SleepInv'
  BY <1>1, <1>2, <1>3, FieldFacts DEF IInv, SleepInv, TypeOK
<1>6. WatchInv'
  BY <1>1, <1>2, <1>3, FieldFacts, SeenFields
     DEF IInv, WatchInv, Counted, Watched, toolVars
<1>7. ActInv' /\ DoneInv' /\ VerdictInv' /\ Verdicts'
  BY <1>1, ToolKept
<1> QED  BY <1>4, <1>5, <1>6, <1>7 DEF IInv

\* The chip resets: the counters start over, and so does what is compared.
LEMMA HardResetStep ==
    ASSUME IInv, HardReset
    PROVE  IInv'
<1>1. /\ chip' = [Zeros EXCEPT !.hard_reset_count = chip.hard_reset_count + 1]
      /\ asleep' = [is |-> FALSE, from |-> 0]
      /\ seen' = IF Watched THEN [seen EXCEPT !.resets = @ + 1, !.resetAt = clock, !.since = 0]
                            ELSE seen
      /\ UNCHANGED <<wiped, clock, toolVars>>
  BY DEF HardReset
<1>2. /\ TypeOK /\ chip.hard_reset_count \in Nat /\ clock \in Nat /\ seen \in SeenSet
      /\ stats0.hard_reset_count \in Nat
  BY StatsFields DEF IInv, TypeOK, SeenSet
<1>3. /\ chip' \in Stats /\ chip'.hard_reset_count = chip.hard_reset_count + 1
      /\ \A f \in FieldNames \ {"hard_reset_count"} : chip'[f] = 0
  BY <1>1, <1>2, FieldFacts DEF Stats, Zeros
<1>4. /\ seen' \in SeenSet /\ seen'.whole0 = seen.whole0 /\ seen'.judged = seen.judged
      /\ Watched => seen'.resets = seen.resets + 1 /\ seen'.resetAt = clock /\ seen'.since = 0
      /\ ~Watched => seen' = seen
  <2>1. CASE Watched
    <3>1. seen' = [seen EXCEPT !.resets = seen.resets + 1, !.resetAt = clock, !.since = 0]
      BY <1>1, <1>2, <2>1 DEF SeenSet
    <3>2. seen.resets + 1 \in Nat
      BY <1>2 DEF SeenSet
    <3>3. seen' \in SeenSet
      BY <1>2, <3>1, <3>2 DEF SeenSet
    <3>4. seen'.whole0 = seen.whole0 /\ seen'.judged = seen.judged
      BY <1>2, <3>1 DEF SeenSet
    <3>5. seen'.resets = seen.resets + 1 /\ seen'.resetAt = clock /\ seen'.since = 0
      BY <1>2, <3>1 DEF SeenSet
    <3> QED  BY <2>1, <3>3, <3>4, <3>5
  <2>2. CASE ~Watched
    BY <1>1, <1>2, <2>2
  <2> QED  BY <2>1, <2>2
<1>5. TypeOK'
  BY <1>1, <1>2, <1>3, <1>4 DEF TypeOK, SeenSet, toolVars
<1>6. SleepInv'
  BY <1>1 DEF SleepInv
<1>7. WatchInv'
  <2> SUFFICES ASSUME Watched', seen'.whole0 PROVE Counted'
    BY DEF WatchInv
  <2>1. Watched /\ Counted
    BY <1>1, <1>4 DEF IInv, WatchInv, Watched, toolVars
  <2>2. stats0' = stats0 /\ clock' = clock /\ chip'.deep_sleep_count = 0
        /\ chip'.time_since_hard_reset = 0
    BY <1>1, <1>3, FieldFacts DEF toolVars
  <2>3. seen'.resets = seen.resets + 1 /\ seen'.resetAt = clock /\ seen'.since = 0
        /\ seen.resets \in Nat
    BY <1>2, <1>4, <2>1, SeenFields
  <2> QED  BY <1>2, <1>3, <2>1, <2>2, <2>3 DEF Counted
<1>8. ActInv' /\ DoneInv' /\ VerdictInv' /\ Verdicts'
  BY <1>1, <1>4, ToolKept
<1> QED  BY <1>5, <1>6, <1>7, <1>8 DEF IInv

\* The chip goes to sleep.
LEMMA SleepStep ==
    ASSUME IInv, Sleep
    PROVE  IInv'
<1>1. /\ ~asleep.is
      /\ asleep' = [is |-> TRUE, from |-> chip.time_since_hard_reset]
      /\ chip' = [chip EXCEPT !.deep_sleep_count = @ + 1]
      /\ seen' = IF Watched THEN [seen EXCEPT !.sleeps = @ + 1, !.since = @ + 1] ELSE seen
      /\ UNCHANGED <<wiped, clock, toolVars>>
  BY DEF Sleep
<1>2. TypeOK /\ chip \in [FieldNames -> Nat] /\ seen \in SeenSet
  BY DEF IInv, TypeOK, Stats, SeenSet
<1>3. /\ chip' \in Stats /\ chip'.deep_sleep_count = chip.deep_sleep_count + 1
      /\ \A f \in FieldNames \ {"deep_sleep_count"} : chip'[f] = chip[f]
  BY <1>1, <1>2, FieldFacts DEF Stats
<1>4. /\ seen' \in SeenSet /\ seen'.whole0 = seen.whole0 /\ seen'.judged = seen.judged
      /\ seen'.resets = seen.resets /\ seen'.resetAt = seen.resetAt
      /\ seen'.slept = seen.slept
      /\ Watched => seen'.sleeps = seen.sleeps + 1 /\ seen'.since = seen.since + 1
      /\ ~Watched => seen' = seen
  <2>1. CASE Watched
    <3>1. seen' = [seen EXCEPT !.sleeps = seen.sleeps + 1, !.since = seen.since + 1]
      BY <1>1, <1>2, <2>1 DEF SeenSet
    <3>2. seen.sleeps + 1 \in Nat /\ seen.since + 1 \in Nat
      BY <1>2 DEF SeenSet
    <3>3. seen' \in SeenSet
      BY <1>2, <3>1, <3>2 DEF SeenSet
    <3>4. /\ seen'.whole0 = seen.whole0 /\ seen'.judged = seen.judged
          /\ seen'.resets = seen.resets /\ seen'.resetAt = seen.resetAt
          /\ seen'.slept = seen.slept
      BY <1>2, <3>1 DEF SeenSet
    <3>5. seen'.sleeps = seen.sleeps + 1 /\ seen'.since = seen.since + 1
      BY <1>2, <3>1 DEF SeenSet
    <3> QED  BY <2>1, <3>3, <3>4, <3>5
  <2>2. CASE ~Watched
    BY <1>1, <1>2, <2>2
  <2> QED  BY <2>1, <2>2
<1>5. TypeOK'
  <2>1. asleep' \in [is : BOOLEAN, from : Nat]
    BY <1>1, <1>2, FieldFacts
  <2> QED  BY <1>1, <1>2, <1>3, <1>4, <2>1 DEF TypeOK, SeenSet, toolVars
<1>6. SleepInv'
  BY <1>1, <1>2, <1>3, FieldFacts DEF SleepInv
<1>7. WatchInv'
  <2> SUFFICES ASSUME Watched', seen'.whole0 PROVE Counted'
    BY DEF WatchInv
  <2>1. Watched /\ Counted
    BY <1>1, <1>4 DEF IInv, WatchInv, Watched, toolVars
  <2>2. /\ stats0' = stats0 /\ clock' = clock /\ asleep'.is
        /\ chip'.hard_reset_count = chip.hard_reset_count
        /\ chip'.time_since_hard_reset = chip.time_since_hard_reset
        /\ chip'.wake_count = chip.wake_count
        /\ chip'.time_spent_in_deep_sleep = chip.time_spent_in_deep_sleep
    BY <1>1, <1>3, FieldFacts DEF toolVars
  <2>3. stats0 \in Stats /\ chip \in Stats
    BY <1>2 DEF TypeOK
  <2> QED  BY <1>1, <1>2, <1>3, <1>4, <2>1, <2>2, <2>3, SeenFields, StatsFields DEF Counted
<1>8. ActInv' /\ DoneInv' /\ VerdictInv' /\ Verdicts'
  BY <1>1, <1>4, ToolKept
<1> QED  BY <1>5, <1>6, <1>7, <1>8 DEF IInv

\* The sleep that ends is added to what is known.
LEMMA SleepSeenFacts ==
    ASSUME IInv
    PROVE  /\ SleepSeen \in SeenSet
           /\ SleepSeen.resets = seen.resets /\ SleepSeen.resetAt = seen.resetAt
           /\ SleepSeen.sleeps = seen.sleeps /\ SleepSeen.since = seen.since
           /\ SleepSeen.whole0 = seen.whole0 /\ SleepSeen.judged = seen.judged
           /\ asleep.is => SleepSeen.slept = seen.slept + SleptFor
           /\ ~asleep.is => SleepSeen = seen
<1>1. seen \in SeenSet /\ (asleep.is => SleptFor \in Nat)
  BY WokenFacts DEF IInv, TypeOK, SeenSet
<1>2. CASE asleep.is
  <2>1. SleepSeen = [seen EXCEPT !.slept = @ + SleptFor]
    BY <1>2 DEF SleepSeen
  <2> QED  BY <1>1, <1>2, <2>1 DEF SeenSet
<1>3. CASE ~asleep.is
  BY <1>1, <1>3 DEF SleepSeen
<1> QED  BY <1>2, <1>3

\* A chip that wakes up, or was awake, is counted as before.
LEMMA WakeUpCounted ==
    ASSUME IInv, Counted, WakeUp, UNCHANGED <<clock, stats0>>,
           NEW k \in SeenSet,
           k.resets = SleepSeen.resets, k.resetAt = SleepSeen.resetAt,
           k.sleeps = SleepSeen.sleeps, k.since = SleepSeen.since, k.slept = SleepSeen.slept,
           seen' = k
    PROVE  Counted'
<1>1. /\ chip \in Stats /\ stats0 \in Stats /\ Woken \in Stats /\ TypeOK /\ SleepInv
      /\ chip' = Woken /\ ~asleep'.is
  BY WokenFacts DEF IInv, TypeOK, WakeUp
<1>2. /\ seen'.resets = seen.resets /\ seen'.resetAt = seen.resetAt
      /\ seen'.sleeps = seen.sleeps /\ seen'.since = seen.since
      /\ asleep.is => seen'.slept = seen.slept + SleptFor
      /\ ~asleep.is => seen'.slept = seen.slept
  BY SleepSeenFacts
<1>3. CASE asleep.is
  BY <1>1, <1>2, <1>3, WokenFacts, StatsFields, SeenFields DEF Counted
<1>4. CASE ~asleep.is
  BY <1>1, <1>2, <1>4, WokenFacts DEF Counted
<1> QED  BY <1>3, <1>4

\* The chip wakes up.
LEMMA WakeStep ==
    ASSUME IInv, Wake
    PROVE  IInv'
<1>1. /\ WakeUp
      /\ seen' = IF Watched THEN SleepSeen ELSE seen
      /\ UNCHANGED <<wiped, clock, toolVars>>
  BY DEF Wake
<1>2. /\ chip' \in Stats /\ ~asleep'.is
      /\ asleep' \in [is : BOOLEAN, from : Nat]
  BY <1>1, WokenFacts DEF IInv, WakeUp
<1>3. /\ seen' \in SeenSet /\ seen'.whole0 = seen.whole0 /\ seen'.judged = seen.judged
      /\ ~Watched => seen' = seen
  BY <1>1, SleepSeenFacts DEF IInv, TypeOK, SeenSet
<1>4. TypeOK'
  BY <1>1, <1>2, <1>3 DEF IInv, TypeOK, SeenSet, toolVars
<1>5. SleepInv'
  BY <1>2 DEF SleepInv
<1>6. WatchInv'
  <2> SUFFICES ASSUME Watched', seen'.whole0 PROVE Counted'
    BY DEF WatchInv
  <2>1. Watched /\ Counted
    BY <1>1, <1>3 DEF IInv, WatchInv, Watched, toolVars
  <2>2. seen' = SleepSeen /\ UNCHANGED <<clock, stats0>>
    BY <1>1, <2>1 DEF toolVars
  <2> QED  BY <1>1, <1>3, <2>1, <2>2, WakeUpCounted
<1>7. ActInv' /\ DoneInv' /\ VerdictInv' /\ Verdicts'
  BY <1>1, <1>3, ToolKept
<1> QED  BY <1>4, <1>5, <1>6, <1>7 DEF IInv

-----------------------------------------------------------------------------
(* The tools *)

\* A tool that is not at its end, or returns false without a verdict, has
\* nothing to answer for.
LEMMA NoVerdict ==
    ASSUME pc' # "idle" \/ (result' = "FALSE" /\ ~seen'.judged)
    PROVE  Verdicts'
BY DEF Verdicts, RebootVerdictSound, WaitVerdictExact, WipeVerdictSound, Returned

\* The first read.
LEMMA GetStats0Step ==
    ASSUME IInv, NEW tool \in Tools, GetStats0(tool)
    PROVE  IInv'
<1>1. PICK n \in ReplyLens, g \in Garbage :
        /\ buffer' = Received(n, [f \in FieldNames |-> g])
        /\ seen' = [Nothing EXCEPT !.whole0 = (n = 6)]
  BY DEF GetStats0
<1>2. /\ chip' = Woken /\ asleep' = [is |-> FALSE, from |-> 0] /\ wiped' = FALSE
      /\ stats0' = buffer' /\ op' = tool /\ pc' = "start" /\ result' = "none"
      /\ ops' = ops + 1 /\ UNCHANGED <<clock, start, stats1>>
  BY DEF GetStats0, WakeUp
<1>3. /\ TypeOK /\ SleepInv /\ n \in 0..6
      /\ [f \in FieldNames |-> g] \in Stats /\ [f \in FieldNames |-> g] \in [FieldNames -> Int]
  BY ToolsAssumption DEF IInv, Stats
<1>4. buffer' \in Stats /\ buffer' \in [FieldNames -> Int]
  BY <1>1, <1>3, ReceivedFacts
<1>5. /\ seen' \in SeenSet /\ ~seen'.judged /\ seen'.resets = 0 /\ seen'.sleeps = 0
      /\ seen'.slept = 0 /\ (seen'.whole0 => n = 6)
  <2>1. Nothing \in SeenSet /\ (n = 6) \in BOOLEAN
    BY DEF Nothing, SeenSet
  <2>2. seen' \in SeenSet
    BY <1>1, <2>1 DEF SeenSet
  <2> QED  BY <1>1, <2>1, <2>2 DEF Nothing, SeenSet
<1>6. TypeOK'
  <2>1. /\ chip' \in Stats /\ asleep' \in [is : BOOLEAN, from : Nat] /\ wiped' \in BOOLEAN
    BY <1>2, <1>3, WokenFacts
  <2>2. ops' \in Nat
    BY <1>2, <1>3 DEF TypeOK
  <2> QED  BY <1>2, <1>3, <1>4, <1>5, <2>1, <2>2 DEF TypeOK, SeenSet
<1>7. SleepInv'
  BY <1>2 DEF SleepInv
<1>8. WatchInv'
  <2> SUFFICES ASSUME seen'.whole0 PROVE Counted'
    BY DEF WatchInv
  <2>1. /\ stats0'.hard_reset_count = chip'.hard_reset_count
        /\ stats0'.wake_count = chip'.wake_count
        /\ stats0'.deep_sleep_count = chip'.deep_sleep_count
        /\ stats0'.time_spent_in_deep_sleep = chip'.time_spent_in_deep_sleep
    BY <1>1, <1>2, <1>3, <1>5, ReceivedFacts
  <2>2. /\ chip'.hard_reset_count \in Nat /\ chip'.wake_count \in Nat
        /\ chip'.deep_sleep_count \in Nat /\ chip'.time_spent_in_deep_sleep \in Nat
    BY <1>2, <1>3, WokenFacts, StatsFields
  <2>3. ~asleep'.is
    BY <1>2
  <2> QED  BY <1>5, <2>1, <2>2, <2>3 DEF Counted
<1>9. ActInv' /\ DoneInv' /\ VerdictInv'
  BY <1>2, <1>5 DEF ActInv, DoneInv, VerdictInv
<1> QED  BY <1>2, <1>6, <1>7, <1>8, <1>9, NoVerdict DEF IInv

\* The first read fails.
LEMMA GetStats0FailsStep ==
    ASSUME IInv, NEW tool \in Tools, GetStats0Fails(tool)
    PROVE  IInv'
<1>1. /\ pc' = "idle" /\ result' = "FALSE" /\ op' = tool /\ seen' = Nothing /\ wiped' = FALSE
      /\ ops' = ops + 1
      /\ UNCHANGED <<chip, asleep, clock, start, buffer, stats0, stats1>>
  BY DEF GetStats0Fails, Finish
<1>2. Nothing \in SeenSet /\ ~Nothing.judged
  BY DEF Nothing, SeenSet
<1>3. TypeOK'
  <2>1. ops' \in Nat
    BY <1>1 DEF IInv, TypeOK
  <2>2. wiped' \in BOOLEAN
    BY <1>1
  <2> QED  BY <1>1, <1>2, <2>1, <2>2 DEF IInv, TypeOK, SeenSet
<1>4. SleepInv' /\ WatchInv' /\ ActInv' /\ DoneInv' /\ VerdictInv'
  BY <1>1 DEF IInv, SleepInv, WatchInv, ActInv, DoneInv, VerdictInv, Watched
<1> QED  BY <1>1, <1>2, <1>3, <1>4, NoVerdict DEF IInv

\* The time is taken.
LEMMA TakeTimeStep ==
    ASSUME IInv, TakeTime
    PROVE  IInv'
<1>1. /\ pc = "start" /\ op \in {"RebootNugget", "WaitForSleep"} /\ start' = clock
      /\ pc' = "act"
      /\ UNCHANGED <<chip, asleep, wiped, clock, op, buffer, stats0, stats1, result, seen, ops>>
  BY DEF TakeTime, Now, chipVars
<1>2. TypeOK'
  BY <1>1 DEF IInv, TypeOK
<1>3. SleepInv' /\ DoneInv' /\ VerdictInv'
  BY <1>1 DEF IInv, SleepInv, DoneInv, VerdictInv
<1>4. WatchInv'
  BY <1>1 DEF IInv, WatchInv, Watched, Counted
<1>5. ActInv'
  BY <1>1 DEF IInv, ActInv, Watched
<1> QED  BY <1>1, <1>2, <1>3, <1>4, <1>5, NoVerdict DEF IInv

\* The wait is over.
LEMMA SleepOverStep ==
    ASSUME IInv, SleepOver
    PROVE  IInv'
<1>1. /\ pc = "act" /\ op = "WaitForSleep" /\ Waited /\ pc' = "stats1"
      /\ UNCHANGED <<chip, asleep, wiped, clock, op, start, buffer, stats0, stats1, result,
                     seen, ops>>
  BY DEF SleepOver, chipVars
<1>2. TypeOK'
  BY <1>1 DEF IInv, TypeOK
<1>3. SleepInv' /\ VerdictInv'
  BY <1>1 DEF IInv, SleepInv, VerdictInv
<1>4. WatchInv'
  BY <1>1 DEF IInv, WatchInv, Watched, Counted
<1>5. ActInv'
  BY <1>1 DEF IInv, ActInv, Watched
<1>6. DoneInv'
  BY <1>1 DEF DoneInv, Waited
<1> QED  BY <1>1, <1>2, <1>3, <1>4, <1>5, <1>6, NoVerdict DEF IInv

\* The call that is to reset the chip.
LEMMA RebootStep ==
    ASSUME IInv, NEW ok \in BOOLEAN, Reboot(ok)
    PROVE  IInv'
<1>1. /\ pc = "act" /\ op = "RebootNugget" /\ WakeUp /\ seen' = SleepSeen
      /\ \/ pc' = "stats1" /\ result' = result
         \/ pc' = "idle" /\ result' = "FALSE"
      /\ UNCHANGED <<wiped, clock, op, start, buffer, stats0, stats1, ops>>
  BY DEF Reboot, Finish
<1>2. /\ chip' \in Stats /\ ~asleep'.is /\ asleep' \in [is : BOOLEAN, from : Nat]
  BY <1>1, WokenFacts DEF IInv, WakeUp
<1>3. seen' \in SeenSet /\ seen'.whole0 = seen.whole0 /\ ~seen'.judged
  BY <1>1, SleepSeenFacts DEF IInv, ActInv, Watched
<1>4. TypeOK'
  BY <1>1, <1>2, <1>3 DEF IInv, TypeOK, SeenSet
<1>5. SleepInv' /\ DoneInv' /\ VerdictInv'
  BY <1>1, <1>2 DEF SleepInv, DoneInv, VerdictInv
<1>6. WatchInv'
  <2> SUFFICES ASSUME Watched', seen'.whole0 PROVE Counted'
    BY DEF WatchInv
  <2>1. Counted
    BY <1>1, <1>3 DEF IInv, WatchInv, Watched
  <2> QED  BY <1>1, <1>3, <2>1, WakeUpCounted
<1>7. ActInv'
  BY <1>1, <1>3 DEF IInv, ActInv, Watched
<1>8. Verdicts'
  BY <1>1, <1>3, NoVerdict
<1> QED  BY <1>4, <1>5, <1>6, <1>7, <1>8 DEF IInv

\* The call that erases the user data, whose request is in the buffer.
LEMMA WipeStep ==
    ASSUME IInv, NEW ok \in BOOLEAN, Wipe(ok)
    PROVE  IInv'
<1>1. /\ pc = "start" /\ op = "WipeUserData" /\ WakeUp /\ seen' = SleepSeen
      /\ buffer' = [buffer EXCEPT !.hard_reset_count = ERASE_CONFIRMATION]
      /\ wiped' \in BOOLEAN
      /\ \/ pc' = "stats1" /\ result' = result /\ wiped'
         \/ pc' = "idle" /\ result' = "FALSE"
      /\ UNCHANGED <<clock, op, start, stats0, stats1, ops>>
  <2>1. (ok => wiped') /\ wiped' \in BOOLEAN
    <3>1. wiped' = TRUE \/ wiped' = ok
      BY DEF Wipe
    <3> QED  BY <3>1
  <2>2. IF ok THEN pc' = "stats1" /\ UNCHANGED result ELSE Finish("FALSE")
    BY DEF Wipe
  <2> QED  BY <2>1, <2>2 DEF Wipe, Finish, WipeRequest
<1>2. /\ chip' \in Stats /\ ~asleep'.is /\ asleep' \in [is : BOOLEAN, from : Nat]
  BY <1>1, WokenFacts DEF IInv, WakeUp
<1>3. seen' \in SeenSet /\ seen'.whole0 = seen.whole0 /\ ~seen'.judged
  BY <1>1, SleepSeenFacts DEF IInv, ActInv, Watched
<1>4. /\ buffer' \in [FieldNames -> Int]
      /\ buffer'.hard_reset_count = ERASE_CONFIRMATION
      /\ \A f \in FieldNames \ {"hard_reset_count"} : buffer'[f] = buffer[f]
  BY <1>1, FieldFacts DEF IInv, TypeOK, ERASE_CONFIRMATION
<1>5. TypeOK'
  BY <1>1, <1>2, <1>3, <1>4 DEF IInv, TypeOK, SeenSet
<1>6. SleepInv' /\ DoneInv' /\ VerdictInv'
  BY <1>1, <1>2 DEF SleepInv, DoneInv, VerdictInv
<1>7. WatchInv'
  <2> SUFFICES ASSUME Watched', seen'.whole0 PROVE Counted'
    BY DEF WatchInv
  <2>1. Counted
    BY <1>1, <1>3 DEF IInv, WatchInv, Watched
  <2> QED  BY <1>1, <1>3, <2>1, WakeUpCounted
<1>8. ActInv'
  BY <1>1, <1>3, <1>4 DEF IInv, ActInv, Watched
<1>9. Verdicts'
  BY <1>1, <1>3, NoVerdict
<1> QED  BY <1>5, <1>6, <1>7, <1>8, <1>9 DEF IInv

\* The second read.
LEMMA GetStats1Step ==
    ASSUME IInv, GetStats1
    PROVE  IInv'
<1>1. PICK n \in ReplyLens :
        /\ buffer' = Received(n, buffer)
        /\ seen' = [SleepSeen EXCEPT !.judged = TRUE, !.whole1 = (n = 6), !.readAt = clock]
  BY DEF GetStats1
<1>2. /\ pc = "stats1" /\ pc' = "verdict" /\ WakeUp /\ stats1' = buffer'
      /\ UNCHANGED <<wiped, clock, op, start, stats0, result, ops>>
  BY DEF GetStats1
<1>3. TypeOK /\ SleepInv /\ n \in 0..6 /\ buffer \in [FieldNames -> Int] /\ clock \in Nat
  BY ToolsAssumption DEF IInv, TypeOK
<1>4. /\ chip' \in Stats /\ chip' = Woken /\ ~asleep'.is /\ asleep' \in [is : BOOLEAN, from : Nat]
  BY <1>2, <1>3, WokenFacts DEF WakeUp
<1>5. buffer' \in [FieldNames -> Int]
  BY <1>1, <1>3, ReceivedFacts
<1>6. /\ seen' \in SeenSet
      /\ seen'.whole0 = seen.whole0 /\ seen'.readAt = clock /\ seen'.whole1 = (n = 6)
      /\ seen'.resets = SleepSeen.resets /\ seen'.resetAt = SleepSeen.resetAt
      /\ seen'.sleeps = SleepSeen.sleeps /\ seen'.since = SleepSeen.since
      /\ seen'.slept = SleepSeen.slept
  <2>1. SleepSeen \in SeenSet /\ SleepSeen.whole0 = seen.whole0 /\ (n = 6) \in BOOLEAN
    BY SleepSeenFacts
  <2>2. seen' \in SeenSet
    BY <1>1, <1>3, <2>1 DEF SeenSet
  <2>3. seen'.whole0 = SleepSeen.whole0 /\ seen'.readAt = clock /\ seen'.whole1 = (n = 6)
    BY <1>1, <1>3, <2>1 DEF SeenSet
  <2>4. /\ seen'.resets = SleepSeen.resets /\ seen'.resetAt = SleepSeen.resetAt
        /\ seen'.sleeps = SleepSeen.sleeps /\ seen'.since = SleepSeen.since
        /\ seen'.slept = SleepSeen.slept
    BY <1>1, <1>3, <2>1 DEF SeenSet
  <2> QED  BY <2>1, <2>2, <2>3, <2>4
<1>7. TypeOK'
  BY <1>2, <1>3, <1>4, <1>5, <1>6 DEF TypeOK, SeenSet
<1>8. SleepInv' /\ WatchInv' /\ ActInv'
  BY <1>2, <1>4 DEF SleepInv, WatchInv, ActInv, Watched
<1>9. DoneInv'
  BY <1>2 DEF IInv, DoneInv, Waited
<1>10. VerdictInv'
  <2> SUFFICES ASSUME seen'.whole0 PROVE VerdictInv'
    BY DEF VerdictInv
  <2>1. Counted'
    <3>1. Counted
      BY <1>2, <1>6 DEF IInv, WatchInv, Watched
    <3> QED  BY <1>2, <1>6, <3>1, WakeUpCounted
  <2>2. /\ buffer.time_spent_in_deep_sleep = stats0.time_spent_in_deep_sleep
        /\ buffer.hard_reset_count = IF op = "WipeUserData" THEN ERASE_CONFIRMATION
                                     ELSE stats0.hard_reset_count
    BY <1>2, FieldFacts DEF IInv, ActInv, Watched
  <2>3. clock' \in Nat /\ seen'.readAt <= clock'
    BY <1>2, <1>3, <1>6
  <2>4. \/ stats1'.hard_reset_count = stats0'.hard_reset_count + seen'.resets
        \/ /\ ~seen'.whole1
           /\ stats1'.hard_reset_count = IF op' = "WipeUserData" THEN ERASE_CONFIRMATION
                                         ELSE stats0'.hard_reset_count
    BY <1>1, <1>2, <1>3, <1>4, <1>6, <2>1, <2>2, ReceivedFacts DEF Counted
  <2>5. ~seen'.whole1 =>
          stats1'.time_spent_in_deep_sleep = stats0'.time_spent_in_deep_sleep
    BY <1>1, <1>2, <1>3, <1>6, <2>2, ReceivedFacts
  <2>6. seen'.whole1 =>
          /\ stats1'.deep_sleep_count = chip'.deep_sleep_count
          /\ stats1'.wake_count = chip'.wake_count
          /\ stats1'.time_spent_in_deep_sleep = chip'.time_spent_in_deep_sleep
          /\ stats1'.time_since_hard_reset = chip'.time_since_hard_reset
    BY <1>1, <1>2, <1>3, <1>4, <1>6, ReceivedFacts
  <2>7. ~asleep'.is /\ clock' = seen'.readAt
    BY <1>2, <1>4, <1>6
  <2> QED  BY <2>1, <2>3, <2>4, <2>5, <2>6, <2>7 DEF VerdictInv, Counted
<1>11. Verdicts'
  BY <1>2, NoVerdict
<1> QED  BY <1>7, <1>8, <1>9, <1>10, <1>11 DEF IInv

\* The second read fails.
LEMMA GetStats1FailsStep ==
    ASSUME IInv, GetStats1Fails
    PROVE  IInv'
<1>1. /\ pc = "stats1" /\ pc' = "idle" /\ result' = "FALSE"
      /\ UNCHANGED <<chip, asleep, wiped, clock, op, start, buffer, stats0, stats1, seen, ops>>
  BY DEF GetStats1Fails, Finish, chipVars
<1>2. TypeOK'
  BY <1>1 DEF IInv, TypeOK
<1>3. SleepInv' /\ WatchInv' /\ ActInv' /\ DoneInv' /\ VerdictInv'
  BY <1>1 DEF IInv, SleepInv, WatchInv, ActInv, DoneInv, VerdictInv, Watched
<1>4. ~seen'.judged
  BY <1>1 DEF IInv, ActInv, Watched
<1> QED  BY <1>1, <1>2, <1>3, <1>4, NoVerdict DEF IInv

\* The comparison of the statistics.
LEMMA VerdictStep ==
    ASSUME IInv, Verdict
    PROVE  IInv'
<1>1. /\ pc = "verdict" /\ pc' = "idle" /\ result' = IF Holds THEN "TRUE" ELSE "FALSE"
      /\ UNCHANGED <<chip, asleep, wiped, clock, op, start, buffer, stats0, stats1, seen, ops>>
  BY DEF Verdict, Finish, chipVars
<1>2. TypeOK'
  BY <1>1 DEF IInv, TypeOK
<1>3. SleepInv' /\ WatchInv' /\ ActInv' /\ DoneInv' /\ VerdictInv'
  BY <1>1 DEF IInv, SleepInv, WatchInv, ActInv, DoneInv, VerdictInv, Watched
<1>4. /\ result' = "TRUE" => Holds
      /\ result' = "FALSE" => ~Holds
  BY <1>1
<1>5. /\ stats0.hard_reset_count \in Nat /\ seen.resets \in Nat /\ seen.resetAt \in Nat
      /\ seen.readAt \in Nat /\ clock \in Nat /\ start \in Nat /\ start <= clock
      /\ stats0.deep_sleep_count \in Nat /\ stats0.wake_count \in Nat
      /\ stats0.time_spent_in_deep_sleep \in Nat /\ seen.slept \in Nat /\ seen.sleeps \in Nat
      /\ TypeOK
  BY SeenFields, StatsFields DEF IInv, TypeOK
<1>6. RebootVerdictSound'
  <2> SUFFICES ASSUME op = "RebootNugget", Holds, seen.whole0
               PROVE  /\ seen.resets = 1
                      /\ seen.whole1 =>
                           /\ (start - seen.resetAt) * 100 <=
                                (clock - start) * 5 + (clock - seen.readAt) * 100
                           /\ seen.since = 0
    BY <1>1, <1>4 DEF RebootVerdictSound, Returned
  <2>1. Rebooted
    BY DEF Holds
  <2>2. VerdictInv /\ op # "WipeUserData"
    BY DEF IInv
  <2>3. seen.resets = 1
    BY <1>1, <1>5, <2>1, <2>2 DEF VerdictInv, Rebooted
  <2>4. ASSUME seen.whole1 PROVE seen.since = 0 /\ seen.readAt - seen.resetAt < MaxUsecs
    BY <1>1, <2>1, <2>2, <2>3, <2>4 DEF VerdictInv, Rebooted
  <2>5. MaxUsecs \in Int /\ MaxUsecs * 100 <= (clock - start) * 105
    BY <1>5 DEF MaxUsecs
  <2>6. ASSUME NEW c \in Nat, NEW s \in Nat, NEW r \in Nat, NEW a \in Nat, NEW m \in Int,
               m * 100 <= (c - s) * 105, r - a < m
        PROVE  (s - a) * 100 <= (c - s) * 5 + (c - r) * 100
    BY <2>6
  <2> QED  BY <1>5, <2>3, <2>4, <2>5, <2>6
<1>7. WaitVerdictExact'
  <2> SUFFICES ASSUME op = "WaitForSleep", seen.whole0
               PROVE  /\ Holds => /\ seen.resets = 0 /\ seen.sleeps = 1 /\ seen.slept > 0
                                  /\ WaitSeconds <= clock - start
                      /\ ~Holds /\ seen.whole1 =>
                           ~(seen.resets = 0 /\ seen.sleeps = 1 /\ seen.slept > 0)
    BY <1>1, <1>4 DEF WaitVerdictExact, Returned
  <2>1. Holds = WentToSleep
    BY DEF Holds
  <2>2. VerdictInv /\ op # "WipeUserData"
    BY DEF IInv
  <2>3. Waited
    BY <1>1 DEF IInv, DoneInv
  <2>4. WaitSeconds <= clock - start
    BY <2>3, <1>5, ToolsAssumption DEF Waited
  <2>5. ASSUME WentToSleep
        PROVE  seen.resets = 0 /\ seen.sleeps = 1 /\ seen.slept > 0
    <3>1. seen.whole1
      BY <1>1, <1>5, <2>2, <2>5 DEF VerdictInv, WentToSleep
    <3>2. seen.resets = 0
      BY <1>1, <1>5, <2>2, <2>5, <3>1 DEF VerdictInv, WentToSleep
    <3> QED  BY <1>1, <1>5, <2>2, <2>5, <3>1, <3>2 DEF VerdictInv, WentToSleep
  <2>6. ASSUME seen.whole1, seen.resets = 0, seen.sleeps = 1, seen.slept > 0
        PROVE  WentToSleep
    BY <1>1, <1>5, <2>2, <2>6 DEF VerdictInv, WentToSleep
  <2> QED  BY <2>1, <2>4, <2>5, <2>6
<1>8. WipeVerdictSound'
  <2> SUFFICES ASSUME op = "WipeUserData", Holds, seen.whole0
               PROVE  wiped /\ seen.resets = 0
    BY <1>1, <1>4 DEF WipeVerdictSound, Returned
  <2>1. NotReset
    BY DEF Holds
  <2>2. VerdictInv /\ wiped
    BY <1>1 DEF IInv, DoneInv
  <2>3. seen.resets = 0
    BY <1>1, <1>5, <2>1, <2>2 DEF VerdictInv, NotReset, ERASE_CONFIRMATION
  <2> QED  BY <2>2, <2>3
<1> QED  BY <1>2, <1>3, <1>6, <1>7, <1>8 DEF IInv, Verdicts

-----------------------------------------------------------------------------

\* IInv is an invariant of the chip and the tools.
THEOREM Invariance == Spec => []IInv
<1>1. IInv /\ [Next]_vars => IInv'
  <2> SUFFICES ASSUME IInv, [Next]_vars PROVE IInv'
    OBVIOUS
  <2>1. CASE Chip
    BY <2>1, TickStep, HardResetStep, SleepStep, WakeStep DEF Chip
  <2>2. CASE \E tool \in Tools : GetStats0(tool) \/ GetStats0Fails(tool)
    BY <2>2, GetStats0Step, GetStats0FailsStep
  <2>3. CASE TakeTime \/ SleepOver
    BY <2>3, TakeTimeStep, SleepOverStep
  <2>4. CASE \E ok \in BOOLEAN : Reboot(ok) \/ Wipe(ok)
    BY <2>4, RebootStep, WipeStep
  <2>5. CASE GetStats1 \/ GetStats1Fails \/ Verdict
    BY <2>5, GetStats1Step, GetStats1FailsStep, VerdictStep
  <2>6. CASE UNCHANGED vars
    <3>1. UNCHANGED <<chip, asleep, wiped, clock, op, pc, start, buffer, stats0, stats1,
                      result, seen, ops>>
      BY <2>6 DEF vars
    <3>2. TypeOK' /\ SleepInv'
      BY <3>1 DEF IInv, TypeOK, SleepInv
    <3>3. WatchInv'
      BY <3>1 DEF IInv, WatchInv, Counted, Watched
    <3>4. ActInv' /\ DoneInv' /\ VerdictInv'
      BY <3>1 DEF IInv, ActInv, DoneInv, VerdictInv, Watched, Waited
    <3>5. Verdicts'
      BY <3>1 DEF IInv, Verdicts, RebootVerdictSound, WaitVerdictExact, WipeVerdictSound,
         Returned
    <3> QED  BY <3>2, <3>3, <3>4, <3>5 DEF IInv
  <2> QED  BY <2>1, <2>2, <2>3, <2>4, <2>5, <2>6 DEF Next, Tool
<1> QED  BY InitIInv, <1>1, PTL DEF Spec

\* Every variable keeps its type: no reply, however short, and no sleep puts
\* anything but numbers into the structures the tools compare.
THEOREM TypeCorrect == Spec => []TypeOK
BY Invariance, PTL DEF IInv

\* RebootNugget returns true only for the one reset that it asked for.
THEOREM RebootVerdictHolds == Spec => []RebootVerdictSound
BY Invariance, PTL DEF IInv, Verdicts

\* WaitForSleep returns true for one sleep without a reset, and for nothing else.
THEOREM WaitVerdictHolds == Spec => []WaitVerdictExact
BY Invariance, PTL DEF IInv, Verdicts

\* WipeUserData returns true only if the data is gone and the chip did not reset.
THEOREM WipeVerdictHolds == Spec => []WipeVerdictSound
BY Invariance, PTL DEF IInv, Verdicts

=============================================================================
