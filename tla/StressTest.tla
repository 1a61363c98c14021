----------------------------- MODULE StressTest -----------------------------
(* The program stress_test (src/src/stress_test.cc).  It makes the device   *)
(* run its full stress test, which ends with a reboot only: the reboot is   *)
(* an atexit handler, and SIGINT and SIGABRT call exit().  (SIGHUP is       *)
(* ignored.)  The flags are never parsed, so the transport is SPI, and the  *)
(* client that RebootNugget uses is made by the first SendSpi.              *)
EXTENDS Naturals

CONSTANTS
  MaxSignals, \* bound on the signals
  MaxLost     \* bound on the calls that fail

ASSUME StressAssumption == {MaxSignals, MaxLost} \subseteq Nat

VARIABLES
  pc,         \* what runs: "main", "call", "get", "check", "wait", the three
              \* calls of RebootNugget, "destroy", "ended", or "crashed"
  client,     \* of the harness: "null", "open" or "closed"
  stressing,  \* the device runs the stress test
  buffer,     \* what SendSpi left of the reply: "none" or the received message
  code,       \* the exit code
  signals,    \* signals that arrived
  lost,       \* calls that failed
  excuse      \* what kept the reboot from its work

vars == <<pc, client, stressing, buffer, code, signals, lost, excuse>>

RebootNugget == {"stats0", "reboot", "stats1"}

\* What is wrong with the message, in the order main looks at it.
Messages == {"right", "type", "length", "subtype"}

Init ==
  /\ pc = "main" /\ client = "null" /\ stressing = FALSE
  /\ buffer = "none"
  /\ code = 0 /\ signals = 0 /\ lost = 0 /\ excuse = {}

----------------------------------------------------------------------------

\* Mutant: _exit() does not run cleanup().
ExitAtOnce(c) == pc' = "ended" /\ code' = c

\* exit() and the return from main run cleanup().
Exit(c) == pc' = "stats0" /\ code' = c

Lose == lost < MaxLost /\ lost' = lost + 1

\* SendSpi makes and opens the client, or exits.
OpenClient ==
  /\ pc = "main"
  /\ \/ client' = "open" /\ pc' = "call" /\ UNCHANGED <<code, lost>>
     \/ Lose /\ client' = "closed" /\ Exit(1)
  /\ UNCHANGED <<stressing, buffer, signals, excuse>>

\* The device gets the request and starts, though the answer may be lost.
CallApp ==
  /\ pc = "call"
  /\ \/ /\ stressing' = TRUE /\ buffer' \in Messages \union {"none"}
        /\ pc' = "get"
        /\ UNCHANGED <<code, lost>>
     \/ /\ Lose /\ stressing' \in BOOLEAN
        /\ Exit(1)
        /\ UNCHANGED buffer
  /\ UNCHANGED <<client, signals, excuse>>

\* (The error code printed then is that of the send.)
GetData ==
  /\ pc = "get"
  /\ IF buffer = "none" THEN Exit(1) ELSE pc' = "check" /\ UNCHANGED code
  /\ UNCHANGED <<client, stressing, buffer, signals, lost, excuse>>

CheckMessage ==
  /\ pc = "check"
  /\ IF buffer = "right" THEN pc' = "wait" /\ UNCHANGED code ELSE Exit(1)
  /\ UNCHANGED <<client, stressing, buffer, signals, lost, excuse>>

----------------------------------------------------------------------------
(* cleanup()                                                                *)

After == [stats0 |-> "reboot", reboot |-> "stats1", stats1 |-> "destroy"]

\* Without a client the first call dereferences a null pointer.  A call on a
\* closed client, or one inside a call that a signal interrupted, may fail.
\* The first call that fails is the last.
Cleanup ==
  /\ pc \in RebootNugget
  /\ IF client = "null"
     THEN pc' = "crashed" /\ UNCHANGED <<stressing, lost, excuse>>
     ELSE \/ /\ client = "open"
             /\ pc' = After[pc]
             /\ stressing' = (stressing /\ pc # "reboot")
             /\ UNCHANGED <<lost, excuse>>
          \/ /\ pc' = "destroy"
             /\ \/ client = "closed" /\ UNCHANGED <<lost, excuse>>
                \/ "interrupted" \in excuse /\ UNCHANGED <<lost, excuse>>
                \/ Lose /\ excuse' = excuse \union {"lost"}
             /\ UNCHANGED stressing
  /\ UNCHANGED <<client, buffer, code, signals>>

Destroy ==
  /\ pc = "destroy"
  /\ pc' = "ended"
  /\ UNCHANGED <<client, stressing, buffer, code, signals, lost, excuse>>

\* signal_handler calls exit(0).  In the middle of cleanup() the inner exit()
\* goes on with what is registered before it, the destructor of the harness.
SignalHandler ==
  /\ pc \notin {"ended", "crashed", "destroy"} /\ signals < MaxSignals
  /\ signals' = signals + 1
  /\ IF pc \in RebootNugget THEN pc' = "destroy" /\ code' = 0 ELSE Exit(0)
  /\ excuse' = excuse \union {x \in {"interrupted"} : pc = "call"}
                      \union {x \in {"again"} : pc \in RebootNugget}
  /\ stressing' \in {stressing} \union {x \in {TRUE} : pc = "call"}
  /\ UNCHANGED <<client, buffer, lost>>

Next ==
  \/ OpenClient \/ CallApp \/ GetData \/ CheckMessage \/ Cleanup \/ Destroy
  \/ SignalHandler

Spec == Init /\ [][Next]_vars

----------------------------------------------------------------------------
(* Properties                                                               *)

\* The type of every variable.  GetData is called after a send that succeeded.
TypeOK ==
  /\ pc \in {"main", "call", "get", "check", "wait", "destroy", "ended", "crashed"}
              \union RebootNugget
  /\ client \in {"null", "open", "closed"} /\ stressing \in BOOLEAN
  /\ buffer \in Messages \union {"none"} /\ code \in {0, 1}
  /\ signals \in 0 .. MaxSignals /\ lost \in 0 .. MaxLost
  /\ excuse \subseteq {"interrupted", "again", "lost"}

\* Whichever way the program ends, the device does not go on with the stress
\* test: after an error in any step, after a signal before or between the calls,
\* also when the null client crashes cleanup().  The excuses are a signal inside
\* the call of SendSpi, a second one inside cleanup(), and a call of
\* RebootNugget that fails.
StressEnds == (pc \in {"ended", "crashed"} /\ excuse = {}) => ~stressing
=============================================================================
