----------------------- MODULE HarnessLifecycleProofs -----------------------
(***************************************************************************)
(* For any number of harnesses and descriptors: the destructor's order     *)
(* (clear tty_fd, close, join, free) keeps the print thread away from      *)
(* freed storage and from descriptors that were handed out again.          *)
(***************************************************************************)
EXTENDS HarnessLifecycle, TLAPS

-----------------------------------------------------------------------------
(* The inductive invariant, in named parts. *)

InUse == pc \in {"ready", "close", "join", "free"}

\* The storage that is valid is the current harness's, while it is in use.
AliveInv ==
    /\ InUse => cur \in Harnesses /\ alive = {cur}
    /\ pc = "none" => alive = {}

\* Only the current harness has a running thread, and only until the join.
RunningInv ==
    \A h \in Harnesses : Running(h) => h = cur /\ pc \in {"ready", "close", "join"}

\* Where the descriptor of the current tty is kept.
TtyInv ==
    /\ pc = "ready" => tty_fd[cur] \in Fds
    /\ pc = "close" => temp \in Fds /\ tty_fd[cur] = -1
    /\ pc \in {"join", "free"} => tty_fd[cur] = -1

\* Which files are open: those of the current harness, its tty at one place.
FilesInv ==
    /\ pc = "none" => \A f \in Fds : files[f] = NoFile
    /\ pc = "ready" => \A f \in Fds : IF f = tty_fd[cur] THEN files[f] = Tty(cur)
                                       ELSE files[f] \in {NoFile, Client(cur)}
    /\ pc = "close" => \A f \in Fds : IF f = temp THEN files[f] = Tty(cur)
                                       ELSE files[f] \in {NoFile, Client(cur)}
    /\ pc \in {"join", "free"} => \A f \in Fds : files[f] \in {NoFile, Client(cur)}

\* What a thread about to read has loaded from tty_fd.
LoadedInv ==
    \A h \in Harnesses : wpc[h] = "read" =>
        /\ pc = "ready" => fd[h] = tty_fd[cur]
        /\ pc = "close" => fd[h] \in {-1, temp}
        /\ fd[h] # -1 => files[fd[h]] \in {NoFile, Tty(h)}

IInv == TypeOK /\ AliveInv /\ RunningInv /\ TtyInv /\ FilesInv /\ LoadedInv

-----------------------------------------------------------------------------

\* The three kinds of descriptor table entry are told apart.
LEMMA FilesDiffer ==
    ASSUME NEW h \in Harnesses, NEW k \in Harnesses
    PROVE  /\ Tty(h) # NoFile /\ Client(h) # NoFile /\ Tty(h) # Client(k)
           /\ Tty(h) \in Files /\ Client(h) \in Files /\ NoFile \in Files
BY DEF Tty, Client, NoFile, Files

\* The program starts in the invariant.
LEMMA InitIInv == Init => IInv
<1> SUFFICES ASSUME Init PROVE IInv
  OBVIOUS
<1> USE LifecycleAssumption DEF Init, Harnesses
<1>1. TypeOK
  <2>1. NoFile \in Files
    BY DEF Files
  <2>2. cur \in 0..MaxHarness
    OBVIOUS
  <2> QED  BY <2>1, <2>2 DEF TypeOK
<1>2. AliveInv /\ TtyInv /\ FilesInv
  BY DEF AliveInv, TtyInv, FilesInv, InUse
<1>3. RunningInv /\ LoadedInv
  BY DEF RunningInv, LoadedInv, Running
<1> QED  BY <1>1, <1>2, <1>3 DEF IInv

\* A new harness gets a descriptor that nothing else holds.
LEMMA ConstructStep ==
    ASSUME NEW f \in Fds, IInv, Construct(f)
    PROVE  IInv'
<1> USE LifecycleAssumption DEF Construct, IInv, Harnesses
<1>1. TypeOK'
  BY FilesDiffer DEF TypeOK, AliveInv, TtyInv, InUse
<1>2. AliveInv'
  <2>1. alive' = {cur'} /\ pc' = "ready"
    BY DEF AliveInv
  <2>2. cur' \in Harnesses
    BY DEF TypeOK
  <2> QED  BY <2>1, <2>2 DEF AliveInv, InUse
<1>3. RunningInv'
  BY DEF TypeOK, AliveInv, RunningInv, InUse, Running
<1>4. TtyInv'
  BY DEF TypeOK, AliveInv, TtyInv, InUse
<1>5. FilesInv'
  BY FilesDiffer DEF TypeOK, AliveInv, TtyInv, FilesInv, InUse
<1>6. LoadedInv'
  BY FilesDiffer DEF TypeOK, AliveInv, RunningInv, TtyInv, FilesInv, LoadedInv,
     InUse, Running
<1> QED  BY <1>1, <1>2, <1>3, <1>4, <1>5, <1>6

\* So does the client that the first SPI message opens.
LEMMA OpenClientStep ==
    ASSUME NEW f \in Fds, IInv, OpenClient(f)
    PROVE  IInv'
<1> USE LifecycleAssumption DEF OpenClient, IInv, Harnesses
<1>1. TypeOK'
  BY FilesDiffer DEF TypeOK, AliveInv, TtyInv, InUse
<1>2. AliveInv'
  BY DEF TypeOK, AliveInv, InUse
<1>3. RunningInv'
  BY DEF TypeOK, AliveInv, RunningInv, InUse, Running
<1>4. TtyInv'
  BY DEF TypeOK, AliveInv, TtyInv, InUse
<1>5. FilesInv'
  BY FilesDiffer DEF TypeOK, AliveInv, TtyInv, FilesInv, InUse
<1>6. LoadedInv'
  BY FilesDiffer DEF TypeOK, AliveInv, RunningInv, TtyInv, FilesInv, LoadedInv,
     InUse, Running
<1> QED  BY <1>1, <1>2, <1>3, <1>4, <1>5, <1>6

\* A constructor that fails exits before there is a print thread.
LEMMA ConstructFatalStep ==
    ASSUME IInv, ConstructFatal
    PROVE  IInv'
<1> USE LifecycleAssumption DEF ConstructFatal, IInv, Harnesses
<1>1. TypeOK'
  BY FilesDiffer DEF TypeOK, AliveInv, TtyInv, InUse
<1>2. AliveInv'
  BY DEF TypeOK, AliveInv, InUse
<1>3. RunningInv'
  BY DEF TypeOK, AliveInv, RunningInv, InUse, Running
<1>4. TtyInv'
  BY DEF TypeOK, AliveInv, TtyInv, InUse
<1>5. FilesInv'
  BY FilesDiffer DEF TypeOK, AliveInv, TtyInv, FilesInv, InUse
<1>6. LoadedInv'
  BY FilesDiffer DEF TypeOK, AliveInv, RunningInv, TtyInv, FilesInv, LoadedInv,
     InUse, Running
<1> QED  BY <1>1, <1>2, <1>3, <1>4, <1>5, <1>6

\* The verbosity concerns no descriptor.
LEMMA SetVerbosityStep ==
    ASSUME IInv, setVerbosity
    PROVE  IInv'
<1> USE LifecycleAssumption DEF setVerbosity, IInv, Harnesses
<1>1. TypeOK'
  BY FilesDiffer DEF TypeOK, AliveInv, TtyInv, InUse
<1>2. AliveInv'
  BY DEF TypeOK, AliveInv, InUse
<1>3. RunningInv'
  BY DEF TypeOK, AliveInv, RunningInv, InUse, Running
<1>4. TtyInv'
  BY DEF TypeOK, AliveInv, TtyInv, InUse
<1>5. FilesInv'
  BY FilesDiffer DEF TypeOK, AliveInv, TtyInv, FilesInv, InUse
<1>6. LoadedInv'
  BY FilesDiffer DEF TypeOK, AliveInv, RunningInv, TtyInv, FilesInv, LoadedInv,
     InUse, Running
<1> QED  BY <1>1, <1>2, <1>3, <1>4, <1>5, <1>6

\* Clearing tty_fd leaves the descriptor open, for temp to close.
LEMMA DestroyStep ==
    ASSUME IInv, Destroy
    PROVE  IInv'
<1> USE LifecycleAssumption DEF Destroy, ClearTty, IInv, Harnesses
<1>1. TypeOK'
  BY FilesDiffer DEF TypeOK, AliveInv, TtyInv, InUse
<1>2. AliveInv'
  BY DEF TypeOK, AliveInv, InUse
<1>3. RunningInv'
  BY DEF TypeOK, AliveInv, RunningInv, InUse, Running
<1>4. TtyInv'
  BY DEF TypeOK, AliveInv, TtyInv, InUse
<1>5. FilesInv'
  BY FilesDiffer DEF TypeOK, AliveInv, TtyInv, FilesInv, InUse
<1>6. LoadedInv'
  BY FilesDiffer DEF TypeOK, AliveInv, RunningInv, TtyInv, FilesInv, LoadedInv,
     InUse, Running
<1> QED  BY <1>1, <1>2, <1>3, <1>4, <1>5, <1>6

\* A thread that has loaded the descriptor still finds it closed, not reused:
\* nothing is opened between this step and the join.
LEMMA CloseTtyStep ==
    ASSUME IInv, CloseTty
    PROVE  IInv'
<1> USE LifecycleAssumption DEF CloseTty, IInv, Harnesses
<1>1. TypeOK'
  BY FilesDiffer DEF TypeOK, AliveInv, TtyInv, InUse
<1>2. AliveInv'
  BY DEF TypeOK, AliveInv, InUse
<1>3. RunningInv'
  BY DEF TypeOK, AliveInv, RunningInv, InUse, Running
<1>4. TtyInv'
  BY DEF TypeOK, AliveInv, TtyInv, InUse
<1>5. FilesInv'
  BY FilesDiffer DEF TypeOK, AliveInv, TtyInv, FilesInv, InUse
<1>6. LoadedInv'
  BY FilesDiffer DEF TypeOK, AliveInv, RunningInv, TtyInv, FilesInv, LoadedInv,
     InUse, Running
<1> QED  BY <1>1, <1>2, <1>3, <1>4, <1>5, <1>6

\* Past the join the thread has ended.
LEMMA JoinStep ==
    ASSUME IInv, Join
    PROVE  IInv'
<1> USE LifecycleAssumption DEF Join, Joined, IInv, Harnesses
<1>1. TypeOK'
  BY FilesDiffer DEF TypeOK, AliveInv, TtyInv, InUse
<1>2. AliveInv'
  BY DEF TypeOK, AliveInv, InUse
<1>3. RunningInv'
  BY DEF TypeOK, AliveInv, RunningInv, InUse, Running
<1>4. TtyInv'
  BY DEF TypeOK, AliveInv, TtyInv, InUse
<1>5. FilesInv'
  BY FilesDiffer DEF TypeOK, AliveInv, TtyInv, FilesInv, InUse
<1>6. LoadedInv'
  BY FilesDiffer DEF TypeOK, AliveInv, RunningInv, TtyInv, FilesInv, LoadedInv,
     InUse, Running
<1> QED  BY <1>1, <1>2, <1>3, <1>4, <1>5, <1>6

\* So nobody is left to look at the members that are destroyed.
LEMMA FreeStep ==
    ASSUME IInv, Free
    PROVE  IInv'
<1> USE LifecycleAssumption DEF Free, CloseClient, IInv, Harnesses
<1>1. TypeOK'
  BY FilesDiffer DEF TypeOK, AliveInv, TtyInv, InUse
<1>2. AliveInv'
  BY DEF TypeOK, AliveInv, InUse
<1>3. RunningInv'
  BY DEF TypeOK, AliveInv, RunningInv, InUse, Running
<1>4. TtyInv'
  BY DEF TypeOK, AliveInv, TtyInv, InUse
<1>5. FilesInv'
  BY FilesDiffer DEF TypeOK, AliveInv, TtyInv, FilesInv, InUse
<1>6. LoadedInv'
  BY FilesDiffer DEF TypeOK, AliveInv, RunningInv, TtyInv, FilesInv, LoadedInv,
     InUse, Running
<1> QED  BY <1>1, <1>2, <1>3, <1>4, <1>5, <1>6

\* The print thread only moves its own program counter and its copy of tty_fd.
LEMMA WorkerStep ==
    ASSUME NEW h \in Harnesses, IInv, Worker(h)
    PROVE  IInv'
<1> USE LifecycleAssumption DEF IInv, Harnesses, Goto
<1> USE DEF Worker, WorkerOuter, WorkerEnter, WorkerLoop, WorkerLoad,
        WorkerReadByte, WorkerReadNothing, WorkerReadFails
<1>1. TypeOK'
  BY DEF TypeOK
<1>2. AliveInv'
  BY DEF AliveInv, InUse
<1>3. RunningInv'
  BY DEF TypeOK, RunningInv, Running
<1>4. TtyInv'
  BY DEF TtyInv
<1>5. FilesInv'
  BY DEF FilesInv
<1>6. LoadedInv'
  <2>1. CASE WorkerLoad(h)
    <3>1. h = cur /\ pc \in {"ready", "close", "join"} /\ fd'[h] = tty_fd[h]
      BY <2>1 DEF TypeOK, RunningInv, Running, WorkerLoad
    <3>2. /\ pc = "ready" => fd'[h] = tty_fd[cur] /\ files[fd'[h]] = Tty(h)
          /\ pc # "ready" => fd'[h] = -1
      BY <3>1 DEF TtyInv, FilesInv
    <3>3. \A k \in Harnesses : k # h => fd'[k] = fd[k] /\ wpc'[k] = wpc[k]
      BY <2>1 DEF TypeOK, WorkerLoad
    <3> QED  BY <2>1, <3>1, <3>2, <3>3 DEF LoadedInv, WorkerLoad
  <2>2. CASE ~WorkerLoad(h)
    BY <2>2 DEF TypeOK, LoadedInv
  <2> QED  BY <2>1, <2>2
<1> QED  BY <1>1, <1>2, <1>3, <1>4, <1>5, <1>6

\* IInv is an invariant of the program.
THEOREM Invariance == Spec => []IInv
<1>1. IInv /\ [Next]_vars => IInv'
  <2> SUFFICES ASSUME IInv, [Next]_vars PROVE IInv'
    OBVIOUS
  <2>1. CASE Main
    BY <2>1, ConstructStep, OpenClientStep, ConstructFatalStep, SetVerbosityStep,
       DestroyStep, CloseTtyStep, JoinStep, FreeStep DEF Main
  <2>2. CASE \E h \in Harnesses : Worker(h)
    BY <2>2, WorkerStep
  <2>3. CASE UNCHANGED vars
    BY <2>3 DEF vars, IInv, TypeOK, AliveInv, RunningInv, TtyInv, FilesInv,
       LoadedInv, InUse, Running
  <2> QED  BY <2>1, <2>2, <2>3 DEF Next
<1> QED  BY InitIInv, <1>1, PTL DEF Spec

\* Every variable keeps its type, whatever the number of harnesses.
THEOREM TypeCorrect == Spec => []TypeOK
BY Invariance, PTL DEF IInv

\* No print thread outlives the storage of its harness (~TestHarness joins it
\* before the members are destroyed).
THEOREM NoUseAfterFreeHolds == Spec => []NoUseAfterFree
<1>1. IInv => NoUseAfterFree
  BY DEF IInv, AliveInv, RunningInv, NoUseAfterFree, InUse
<1> QED  BY Invariance, <1>1, PTL

\* No print thread reads a descriptor that was handed out again.
THEOREM ReadsOwnTtyHolds == Spec => []ReadsOwnTty
<1>1. IInv => ReadsOwnTty
  BY DEF IInv, LoadedInv, ReadsOwnTty
<1> QED  BY Invariance, <1>1, PTL

\* Between two harnesses every descriptor is closed.
THEOREM NoLeakHolds == Spec => []NoLeak
<1>1. IInv => NoLeak
  BY DEF IInv, FilesInv, NoLeak
<1> QED  BY Invariance, <1>1, PTL
=============================================================================
