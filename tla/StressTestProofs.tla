-------------------------- MODULE StressTestProofs --------------------------
(* For any number of signals and of calls that fail: however the program    *)
(* stress_test ends, the device does not go on with the stress test but for *)
(* the three excuses StressEnds names.                                      *)
EXTENDS StressTest, TLAPS

\* Only a device reached through an open client is stressed.  main has no
\* client, and SendSpi goes on to the call with an open one only.
ClientInv ==
  /\ stressing => client = "open"
  /\ pc = "main" => client = "null"
  /\ pc = "call" => client = "open"

\* Whoever is past the reboot of RebootNugget, by whichever of the ways out of
\* cleanup(), stopped the stress test or has an excuse.
PastReboot == {"stats1", "destroy", "ended", "crashed"}

RebootInv == pc \in PastReboot /\ excuse = {} => ~stressing

IInv == TypeOK /\ ClientInv /\ RebootInv

\* The conjuncts of TypeOK but for the Boolean and the counters.
OthersOK ==
  /\ pc \in {"main", "call", "get", "check", "wait", "destroy", "ended", "crashed"}
              \union RebootNugget
  /\ client \in {"null", "open", "closed"}
  /\ buffer \in Messages \union {"none"} /\ code \in {0, 1}
  /\ excuse \subseteq {"interrupted", "again", "lost"}

CountersOK == signals \in 0 .. MaxSignals /\ lost \in 0 .. MaxLost

----------------------------------------------------------------------------

\* The bounds are natural numbers.
LEMMA Bounds == MaxSignals \in Nat /\ MaxLost \in Nat
BY StressAssumption

\* The program starts in the invariant.
LEMMA InitIInv == Init => IInv
<1> SUFFICES ASSUME Init PROVE IInv
  OBVIOUS
<1>1. stressing \in BOOLEAN
  BY DEF Init
<1>2. CountersOK
  BY Bounds DEF Init, CountersOK
<1>3. OthersOK
  BY DEF Init, OthersOK
<1>4. ClientInv /\ RebootInv
  BY DEF Init, ClientInv, RebootInv, PastReboot
<1> QED  BY <1>1, <1>2, <1>3, <1>4 DEF IInv, TypeOK, CountersOK, OthersOK

\* main, up to the check of the message, goes on or exits into cleanup().
LEMMA MainStep ==
  ASSUME IInv, OpenClient \/ CallApp \/ GetData \/ CheckMessage
  PROVE  IInv'
<1> USE DEF OpenClient, CallApp, GetData, CheckMessage, Exit
<1>1. stressing \in BOOLEAN /\ CountersOK /\ OthersOK /\ ClientInv
  BY DEF IInv, TypeOK, CountersOK, OthersOK
<1>2. stressing' \in BOOLEAN
  BY <1>1
<1>3. CountersOK'
  BY <1>1, Bounds DEF CountersOK, Lose
<1>4. OthersOK'
  BY <1>1 DEF OthersOK, RebootNugget
<1>5. ClientInv'
  BY <1>1 DEF ClientInv
<1>6. RebootInv'
  BY DEF RebootInv, PastReboot
<1> QED  BY <1>2, <1>3, <1>4, <1>5, <1>6 DEF IInv, TypeOK, CountersOK, OthersOK

\* A call of RebootNugget that fails leaves an excuse, but where the client
\* never opened and the device was never stressed.
LEMMA CleanupStep ==
  ASSUME IInv, Cleanup
  PROVE  IInv'
<1>1. stressing \in BOOLEAN /\ CountersOK /\ OthersOK /\ ClientInv
  BY DEF IInv, TypeOK, CountersOK, OthersOK
<1>2. stressing' \in BOOLEAN
  BY <1>1 DEF Cleanup
<1>3. CountersOK'
  BY <1>1, Bounds DEF Cleanup, CountersOK, Lose
<1>4. \/ pc = "stats0" /\ After[pc] = "reboot"
      \/ pc = "reboot" /\ After[pc] = "stats1"
      \/ pc = "stats1" /\ After[pc] = "destroy"
  <2>1. /\ After["stats0"] = "reboot" /\ After["reboot"] = "stats1"
        /\ After["stats1"] = "destroy"
    BY DEF After
  <2> QED  BY <2>1 DEF Cleanup, RebootNugget
<1>5. OthersOK'
  BY <1>1, <1>4 DEF Cleanup, OthersOK, RebootNugget
<1>6. ClientInv'
  BY <1>1, <1>4 DEF Cleanup, ClientInv
<1>7. RebootInv'
  <2> SUFFICES ASSUME pc' \in PastReboot, excuse' = {}, stressing'
               PROVE  FALSE
    BY DEF RebootInv
  <2>1. stressing /\ client = "open"
    BY <1>1 DEF Cleanup, ClientInv
  <2>2. CASE pc' = After[pc] /\ stressing' = (stressing /\ pc # "reboot") /\ excuse' = excuse
    <3>1. pc = "stats1"
      BY <1>4, <2>2 DEF PastReboot
    <3> QED  BY <2>1, <2>2, <3>1 DEF IInv, RebootInv, PastReboot
  <2> QED  BY <2>1, <2>2 DEF Cleanup
<1> QED  BY <1>2, <1>3, <1>5, <1>6, <1>7 DEF IInv, TypeOK, CountersOK, OthersOK

\* A signal enters cleanup(), or leaves it with an excuse.
LEMMA SignalStep ==
  ASSUME IInv, SignalHandler
  PROVE  IInv'
<1> USE DEF SignalHandler, Exit
<1>1. stressing \in BOOLEAN /\ CountersOK /\ OthersOK /\ ClientInv
  BY DEF IInv, TypeOK, CountersOK, OthersOK
<1>2. stressing' \in BOOLEAN
  BY <1>1
<1>3. CountersOK'
  BY <1>1, Bounds DEF CountersOK
<1>4. OthersOK'
  BY <1>1 DEF OthersOK, RebootNugget
<1>5. ClientInv'
  <2>1. stressing' => stressing \/ pc = "call"
    OBVIOUS
  <2>2. client' = client /\ pc' # "main" /\ pc' # "call"
    OBVIOUS
  <2> QED  BY <1>1, <2>1, <2>2 DEF ClientInv
<1>6. RebootInv'
  <2> SUFFICES ASSUME pc' \in PastReboot PROVE excuse' # {}
    BY DEF RebootInv
  <2>1. pc \in RebootNugget
    BY DEF PastReboot
  <2>2. "again" \in excuse'
    BY <2>1
  <2> QED  BY <2>2
<1> QED  BY <1>2, <1>3, <1>4, <1>5, <1>6 DEF IInv, TypeOK, CountersOK, OthersOK

\* IInv is an invariant of the program.
THEOREM Invariance == Spec => []IInv
<1>1. IInv /\ [Next]_vars => IInv'
  <2> SUFFICES ASSUME IInv, [Next]_vars PROVE IInv'
    OBVIOUS
  <2>1. CASE OpenClient \/ CallApp \/ GetData \/ CheckMessage
    BY <2>1, MainStep
  <2>2. CASE Cleanup
    BY <2>2, CleanupStep
  <2>3. CASE Destroy
    BY <2>3 DEF Destroy, IInv, TypeOK, ClientInv, RebootInv, PastReboot
  <2>4. CASE SignalHandler
    BY <2>4, SignalStep
  <2>5. CASE UNCHANGED vars
    BY <2>5 DEF vars, IInv, TypeOK, ClientInv, RebootInv
  <2> QED  BY <2>1, <2>2, <2>3, <2>4, <2>5 DEF Next
<1> QED  BY InitIInv, <1>1, PTL DEF Spec

\* Every variable keeps its type: the exit code is 0 or 1, and cleanup() makes
\* no call but the three of RebootNugget.
THEOREM TypeCorrect == Spec => []TypeOK
BY Invariance, PTL DEF IInv

\* Whichever way the program ends, the stress test is over or an excuse is
\* known, for any number of signals and failing calls.
THEOREM StressEndsHolds == Spec => []StressEnds
<1>1. IInv => StressEnds
  BY DEF IInv, RebootInv, PastReboot, StressEnds
<1> QED  BY <1>1, Invariance, PTL

=============================================================================
