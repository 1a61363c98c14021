-------------------------- MODULE HarnessLifecycle --------------------------
(***************************************************************************)
(* The life of TestHarness objects (src/src/util.cc): Init opens the tty   *)
(* and, with --util_print_uart, starts a thread that prints what arrives   *)
(* on it; the destructor clears tty_fd, closes the tty, joins the thread   *)
(* and closes the SPI client.  A test program makes one harness after the  *)
(* other (SetUpTestCase, TearDownTestCase), and the kernel hands out file  *)
(* descriptors again as soon as they are closed.                           *)
(*                                                                         *)
(* tty_fd is a plain int which both threads use without a lock: every      *)
(* access is a step of its own here.                                       *)
(***************************************************************************)
EXTENDS Integers, FiniteSets

CONSTANTS
    MaxHarness,   \* harnesses the program makes, one after the other
    Fds,          \* file descriptors the kernel hands out
    PrintUart     \* FLAGS_util_print_uart

Harnesses == 1..MaxHarness

ASSUME LifecycleAssumption ==
    /\ MaxHarness \in Nat
    /\ Fds \subseteq Nat
    /\ PrintUart \in BOOLEAN

VARIABLES
    pc,        \* where the main thread is
    cur,       \* the harness it uses; 0 before the first one
    exiting,   \* exit() was called: static destructors destroy the harness
    temp,      \* the destructor's local variable
    tty_fd,    \* the field of each harness
    critical,  \* verbosity >= CRITICAL, which setVerbosity may change
    alive,     \* the harnesses whose storage is valid
    files,     \* the process's descriptor table
    wpc,       \* where the print thread of each harness is
    fd         \* the descriptor a print thread is about to read

vars == <<pc, cur, exiting, temp, tty_fd, critical, alive, files, wpc, fd>>

NoFile == [kind |-> "none", of |-> 0]
Tty(h) == [kind |-> "tty", of |-> h]
Client(h) == [kind |-> "client", of |-> h]
Files == {NoFile} \cup {Tty(h) : h \in Harnesses} \cup {Client(h) : h \in Harnesses}

ttyState(h) == tty_fd[h] # -1

Init ==
    /\ pc = "none"
    /\ cur = 0
    /\ exiting = FALSE
    /\ temp = -1
    /\ tty_fd = [h \in Harnesses |-> -1]
    /\ critical \in BOOLEAN
    /\ alive = {}
    /\ files = [f \in Fds |-> NoFile]
    /\ wpc = [h \in Harnesses |-> "none"]
    /\ fd = [h \in Harnesses |-> -1]

-----------------------------------------------------------------------------
(* The main thread *)

(* TestHarness::Init opens the tty and starts the print thread. *)
Construct(f) ==
    /\ pc = "none"
    /\ cur < MaxHarness
    /\ files[f] = NoFile
    /\ cur' = cur + 1
    /\ alive' = alive \cup {cur + 1}
    /\ files' = [files EXCEPT ![f] = Tty(cur + 1)]
    /\ tty_fd' = [tty_fd EXCEPT ![cur + 1] = f]
    /\ wpc' = [wpc EXCEPT ![cur + 1] = IF PrintUart THEN "outer" ELSE "none"]
    /\ pc' = "ready"
    /\ UNCHANGED <<exiting, temp, critical, fd>>

(* The tty cannot be opened or set up: FatalError.  The object was never   *)
(* complete, its destructor does not run.                                  *)
ConstructFatal ==
    /\ pc = "none"
    /\ cur < MaxHarness
    /\ pc' = "exited"
    /\ exiting' = TRUE
    /\ UNCHANGED <<cur, temp, tty_fd, critical, alive, files, wpc, fd>>

(* SendSpi opens the client when the first message is sent. *)
OpenClient(f) ==
    /\ pc = "ready"
    /\ files[f] = NoFile
    /\ \A g \in Fds : files[g] # Client(cur)
    /\ files' = [files EXCEPT ![f] = Client(cur)]
    /\ UNCHANGED <<pc, cur, exiting, temp, tty_fd, critical, alive, wpc, fd>>

(* A test silences the harness, or lets it talk again. *)
setVerbosity ==
    /\ pc = "ready"
    /\ critical' = ~critical
    /\ UNCHANGED <<pc, cur, exiting, temp, tty_fd, alive, files, wpc, fd>>

\* Mutant: the descriptor is closed but stays in the field.
ClearTtyForgotten ==
    /\ temp' = tty_fd[cur]
    /\ UNCHANGED tty_fd

\* Mutant: 0 instead of -1 marks the closed tty.
ClearTtyToZero ==
    /\ temp' = tty_fd[cur]
    /\ tty_fd' = [tty_fd EXCEPT ![cur] = 0]

(* The harness is destroyed by the test case, or because a FatalError      *)
(* (SendSpi, BlockingWrite) exits.  The destructor first clears tty_fd.    *)
ClearTty ==
    /\ temp' = tty_fd[cur]
    /\ tty_fd' = [tty_fd EXCEPT ![cur] = -1]

Destroy ==
    /\ pc = "ready"
    /\ ClearTty
    /\ exiting' \in BOOLEAN
    /\ pc' = "close"
    /\ UNCHANGED <<cur, critical, alive, files, wpc, fd>>

CloseTty ==
    /\ pc = "close"
    /\ files' = [files EXCEPT ![temp] = NoFile]
    /\ pc' = "join"
    /\ UNCHANGED <<cur, exiting, temp, tty_fd, critical, alive, wpc, fd>>

\* Mutant: the thread is left to itself.
Detached(h) == TRUE

Joined(h) == wpc[h] \in {"none", "done"}

Join ==
    /\ pc = "join"
    /\ Joined(cur)
    /\ pc' = "free"
    /\ UNCHANGED <<cur, exiting, temp, tty_fd, critical, alive, files, wpc, fd>>

\* Mutant: the client is dropped without Close().
ClientNotClosed == UNCHANGED files

CloseClient ==
    files' = [f \in Fds |-> IF files[f] = Client(cur) THEN NoFile ELSE files[f]]

(* The client is closed and the members are destroyed. *)
Free ==
    /\ pc = "free"
    /\ CloseClient
    /\ alive' = alive \ {cur}
    /\ pc' = IF exiting THEN "exited" ELSE "none"
    /\ UNCHANGED <<cur, exiting, temp, tty_fd, critical, wpc, fd>>

Main ==
    \/ \E f \in Fds : Construct(f) \/ OpenClient(f)
    \/ ConstructFatal \/ setVerbosity \/ Destroy \/ CloseTty \/ Join \/ Free

-----------------------------------------------------------------------------
(* The print thread of harness h *)

Goto(h, to) == wpc' = [wpc EXCEPT ![h] = to]

(* The loop of the thread's own function around PrintUntilClosed. *)
WorkerOuter(h) ==
    /\ wpc[h] = "outer"
    /\ Goto(h, IF ttyState(h) THEN "enter" ELSE "done")
    /\ UNCHANGED <<pc, cur, exiting, temp, tty_fd, critical, alive, files, fd>>

WorkerEnter(h) ==
    /\ wpc[h] = "enter"
    /\ Goto(h, IF ttyState(h) THEN "loop" ELSE "outer")
    /\ UNCHANGED <<pc, cur, exiting, temp, tty_fd, critical, alive, files, fd>>

WorkerLoop(h) ==
    /\ wpc[h] = "loop"
    /\ Goto(h, IF ttyState(h) THEN "load" ELSE "outer")
    /\ UNCHANGED <<pc, cur, exiting, temp, tty_fd, critical, alive, files, fd>>

(* The argument of read() is evaluated before the call. *)
WorkerLoad(h) ==
    /\ wpc[h] = "load"
    /\ fd' = [fd EXCEPT ![h] = tty_fd[h]]
    /\ Goto(h, "read")
    /\ UNCHANGED <<pc, cur, exiting, temp, tty_fd, critical, alive, files>>

Valid(h) == fd[h] \in Fds /\ files[fd[h]] # NoFile

(* read() yields a byte: the inner loop reads on. *)
WorkerReadByte(h) ==
    /\ wpc[h] = "read"
    /\ Valid(h)
    /\ Goto(h, "load")
    /\ UNCHANGED <<pc, cur, exiting, temp, tty_fd, critical, alive, files, fd>>

(* read() has nothing yet: sleep, then look at tty_fd again. *)
WorkerReadNothing(h) ==
    /\ wpc[h] = "read"
    /\ Valid(h)
    /\ Goto(h, "loop")
    /\ UNCHANGED <<pc, cur, exiting, temp, tty_fd, critical, alive, files, fd>>

(* read() fails, with EBADF or because the device is gone: errno ends      *)
(* PrintUntilClosed only when errors are reported at all.                  *)
WorkerReadFails(h) ==
    /\ wpc[h] = "read"
    /\ Goto(h, IF critical THEN "outer" ELSE "loop")
    /\ UNCHANGED <<pc, cur, exiting, temp, tty_fd, critical, alive, files, fd>>

Worker(h) ==
    \/ WorkerOuter(h) \/ WorkerEnter(h) \/ WorkerLoop(h) \/ WorkerLoad(h)
    \/ WorkerReadByte(h) \/ WorkerReadNothing(h) \/ WorkerReadFails(h)

Next == Main \/ \E h \in Harnesses : Worker(h)

Spec == Init /\ [][Next]_vars

(* The scheduler runs both threads; nothing makes a test program destroy   *)
(* its harness or make another one.                                        *)
Fairness ==
    /\ WF_vars(CloseTty \/ Join \/ Free)
    /\ \A h \in Harnesses : WF_vars(Worker(h))

FairSpec == Spec /\ Fairness

-----------------------------------------------------------------------------
(* Properties *)

\* The type of every variable.
TypeOK ==
    /\ pc \in {"none", "ready", "close", "join", "free", "exited"}
    /\ cur \in 0..MaxHarness
    /\ exiting \in BOOLEAN
    /\ temp \in Fds \cup {-1}
    /\ tty_fd \in [Harnesses -> Fds \cup {-1}]
    /\ critical \in BOOLEAN
    /\ alive \in SUBSET Harnesses
    /\ files \in [Fds -> Files]
    /\ wpc \in [Harnesses -> {"none", "outer", "enter", "loop", "load", "read", "done"}]
    /\ fd \in [Harnesses -> Fds \cup {-1}]

Running(h) == wpc[h] \notin {"none", "done"}

\* A print thread never touches a harness that is gone: it runs only while its
\* harness is alive, although the destructor and the thread share no lock.
NoUseAfterFree == \A h \in Harnesses : Running(h) => h \in alive

\* The descriptor a print thread is about to read is its own tty or closed.
\* It never reads the tty of the next harness, nor a client's device, that got
\* the number of the tty closed under it.
ReadsOwnTty ==
    \A h \in Harnesses :
        wpc[h] = "read" /\ fd[h] # -1 => files[fd[h]] \in {NoFile, Tty(h)}

\* Whenever no harness is alive every descriptor is closed again.
NoLeak == (pc = "none") => \A f \in Fds : files[f] = NoFile

\* The destructor ends: the thread notices that tty_fd was cleared, also when
\* the device never stops sending or read() fails at once every time.
DestructorEnds == (pc = "close") ~> (pc \in {"none", "exited"})
=============================================================================
