# Verification of the Nugget OS system test harness

The repository holds the host side of the system tests of Nugget OS, the
firmware of the Citadel security chip: a harness that talks to the chip
(`src/util.cc`), tools that reboot, wipe and configure it (`tools/`), and gtest
suites that use both (`src/*tests.cc`).  The chip's firmware, libnos, the AHDLC
library, protobuf and gtest are not part of it; where the code depends on them
they are modelled from how it uses them and marked external in `PROJECT.json`.

## 1. Inventory

| Component | State | Operations | Talks to |
|---|---|---|---|
| AHDLC transport (`util.cc` 197-214, 287-368, 580-612) | encoder, decoder, `tty_fd` | `SendAhdlc`, `BlockingWrite`, `GetAhdlc` | the UART, byte by byte; shares the tty with the print thread |
| SPI transport (`util.cc` 217-284, 371-403) | `client`, `input_buffer`, `output_buffer` | `SendSpi`, `SendProto`, `SendOneofProto`, `GetSpi` | libnos `CallApp` |
| Harness lifecycle (`util.cc` 113-164, 405-492, 704-749) | `tty_fd`, `verbosity`, `print_uart_worker`, `client` | constructor, `Init`, destructor, `setVerbosity`, `PrintUntilClosed` | the print thread reads members without a lock; the process's descriptor table |
| Console switch (`util.cc` 499-577, 614-702) | the device's mode and command line | `SwitchFromConsoleToProtoApi`, `SwitchFromProtoApiToConsole`, `ReadLineUntilBlock`, `ReadUntil` | device console and AHDLC transport |
| Nugget tools (`tools/nugget_tools.cc`) | none on the host; statistics of the chip | `RebootNugget`, `WaitForSleep`, `WipeUserData` | libnos; the chip sleeps, wakes and resets on its own |
| AVB tools, keymaster tools (`tools/`) | none on the host; state of the AVB application | `SetBootloader`, `BootloaderDone`, `GetState`, `Reset`, `GetResetChallenge`, `SetProduction`, `ResetProduction`, `SetRootOfTrust` | libnos |
| AVB tests (`src/avb_tests.cc`) | locks, device data, rollback versions on the chip | `SetUp`, fifteen tests | AVB tools, `WipeUserData` |
| Weaver tests (`src/weaver_tests.cc`) | slots, attempt counters, throttles on the chip | twenty tests | nugget and AVB tools |
| Core tests (`src/nugget_core_tests.cc`) | UART switch and bootloader flag on the chip | twelve tests | nugget and AVB tools |
| Keymaster tests (`src/keymaster-*.cc`) | root of trust, ids and production mode on the chip | `SetUpTestCase`, `SetUp`, twenty-four tests | AVB and keymaster tools |
| Protocol and crypto tests (`src/runtests.cc`, `cavptests.cc`, `aes-cmac-tests.cc`) | a harness and its verbosity, the device's mode | request and reply pairs, loops over vectors | harness |
| Stress test (`src/stress_test.cc`) | the test that runs on the device | `main`, `cleanup`, `signal_handler` | harness, nugget tools |
| Test main (`src/gtest_with_gflags_main.cc`) | none | the gtest filter made of three flags | gtest |
| `blob.h`, `nist2h.py`, scripts, test data, flag parsing, search for the tty | none | conversion, lookup | - |

What is hard here: two readers of one tty; a destructor that races a thread over
a descriptor number; calls that give up in the middle of a frame and replies
that come later; one buffer for all replies; a handshake with a console that
prints what it likes, after processes that were killed half-way; a chip whose
statistics are read at two moments between which it does what it likes; a
throttle that runs while the test sleeps; tests that stop anywhere and leave a
chip behind that the next test has to use; `ASSERT` inside helpers, which does
not stop the test; an exit handler that a signal enters at any point.
`PROJECT.json` lists the hazards line by line.

What makes the components correct: a transport delivers each reply once, in
order and to the right request, reports what it could not deliver, and returns;
a harness never touches storage or descriptors that are gone; a switch that
reports success has switched; a tool's verdict is true exactly of what the chip
did; a test fails on a chip that breaks its rule and on no other; a program
leaves the device as it should whichever way it ends.

## 2. Modules

### AhdlcTransport, AhdlcTransportProofs
Bytes are pairs of the frame they belong to and their position.  `tx` and `rx`
are the two directions of the line, `encoder`/`loc` the frame `BlockingWrite` is
writing, `decoder` the library's decoder (external), `call` the local variables
of `GetAhdlc`: the bytes it read, the ticks since it last read one, and the
state in which it found the decoder.  `answered` is the byte of its replies the
device transmitted last; it answers what arrived in full, in order.  `log` is the
history of results, `seen` the replies among them since the last `SendAhdlc`.
`SendAhdlc` encodes, or refuses a frame that does not fit; `BlockingWrite`
writes any part of the rest, `BlockingWriteFatal` is a failing `write`.
`ReadByte` is one round of the reading loop with the whole evaluation of the
decoder's state, `ReadNothing` a round without a byte, `ReadTimeout` the return
after the timeout.  `WireFault` damages or loses a byte; `PrintUntilClosed` is
the print thread taking one.

### SpiTransport, SpiTransportProofs
`output_buffer` is its size and the request whose reply it holds (0 for none).
`SendSpi` includes the lazy creation of the client, the `resize` to the
capacity, and a `CallApp` that fails and leaves any part of the old contents.
`SendProto` and `SendOneofProto` keep the code's two different limits.

### ReplyChannel
The abstract specification of `SendData`/`GetData`: `pending` requests and the
`replies` since the last send.  A reply answers a pending request and ends all
earlier ones.  Both transports implement it (`ImplementsChannel`); the mapping is
the same for both: `pending` are the requests sent after `LastSeen`, the last one
whose reply was handed out, and `replies` those handed out since the last send,
which `SpiTransport` finds in its log and `AhdlcTransport` keeps as `seen`.
`ProtoTests` extends it, so the tests are checked over what both transports give.

### HarnessLifecycle, HarnessLifecycleProofs
A sequence of harnesses in one process, as test cases create and destroy them.
`files` is the process's descriptor table; a closed number can be handed out
again at once.  The destructor's steps (clear `tty_fd`, close, join, close the
client and free) are separate actions, and so is every access of the thread to
`tty_fd`: the tests in both loops, the load for `read`, the `read`.  `alive` is
the set of harnesses whose members exist.

### ConsoleSwitch, ConsoleSwitchProofs
The two switches are programs of statements: `ReadUntil`, `BlockingWrite`, the
loop around `ReadLineUntilBlock`, `GetAhdlc`.  (`BlockingWrite("version\n", 1)`
writes one byte, and so does the model.)  `write()` may take any part of what it is
given, so a command and a frame are written in parts, tokens, each a statement of
its own: a part of the command line and the rest of it, the newline, the frame up
to its closing flag, and the flag.  The device is `mode`, the command line
`typed` so far, the `frame` its decoder is in and an `inbox` it may be slow to look at;
it echoes what is typed, shows a prompt after every line and prints of its own
accord.  `Kill` ends the process anywhere, inside a command or a frame too; `torn`
remembers that it was a frame, because the next one then arrives behind half of
another, and whether the decoder takes its opening flag for the end of the old frame
only or for the beginning of a new one as well is not the harness's to say.
`SetUpTestCase` and `TearDownTestCase` start and end runs.

### NuggetTools, NuggetToolsProofs
One action per call the three tools make and one per thing the chip does by
itself: the clock, hard resets, deep sleep, waking.  A call to a sleeping chip
wakes it.  Every call may fail; a reply may be shorter than the structure, in
which case the remaining bytes of `buffer` are the old ones, because
`buffer.empty()` does not clear it.  `seen` records what really happened
between the two reads.

### GTest, AvbTools
What the test modules share.  A test is a sequence of steps; a step is a call,
what `ASSERT` and `EXPECT` compare, and how many steps a failed `ASSERT` skips:
none or a few inside a helper, all in a test.  `Answered` and `Lost` (before or
after the firmware served the call) are the two ways a step goes, `EndOfPhase`
leaves the body out after a fatal failure of `SetUp`.  `AvbTools` holds the
helpers of `avb_tools.cc` and `keymaster_tools.cc` as such sequences.

### Avb, Weaver, Keymaster (external)
The three applications of the firmware: the rules by which they refuse calls and
the effects of calls they accept, as the tests and tools require them.  `fault`
names a rule that this firmware breaks.  Where the tests leave something open
(setting production twice, whether a production reset returns to the HLOS)
either is possible.  A production reset clears the rollback slots and the device
data: only the independence of the tests requires that.

### AvbTests, WeaverTests, ProtoTests, AvbTestsProofs, ProtoTestsProofs
One definition per test and per helper of the suite, under its name in the code,
and gtest's actions.  `WeaverTests` adds time: every call of a slow link may take
some seconds, the sleeps of `WaitForSleep` and `RebootNugget` take theirs, and
throttles run down meanwhile.  `slot` is the one that is drawn at random.
The loop over the rollback slots is a function over its steps (`Loop`), as the
rounds of `ProtoTests` are, so that a proof need not unroll it.
`ProtoTests` adds the transport, the suites' switch of the UART, the verbosity,
and replies that come late, in a later exchange or never; a reply is wrong in an
aspect (type, size, data, result, parse) or not.

### CoreTests, KeymasterTests, TestFilter, RunTests
`RunTests` is the program `runtests`: `main` makes a filter of the command line
(`TestFilter`, a pure algorithm, with gtest's reading of the filter), and gtest
runs the tests that are left on one device, in any order.  The tests of
`CoreTests` and `KeymasterTests` are run call by call and share the bootloader
flag and the production mode; the other suites are names to the filter.
`SetUpTestCase` of the import suites runs when gtest comes to them, and its
failure does not stop their tests.  `blob` is what the last response to an import
holds.  The `memcmp` through its data pointer is a step of the test like the `EXPECT`s
before it, and gtest comes to it whether these hold or not: `Compare` finds the key
or, behind a blob that is empty or too short, whatever lies there; `WildRead` is the
same step when nothing lies there and the process dies; `Rerun` starts it again.

### StressTest, StressTestProofs
`main` call by call, `exit()` with the `atexit` handler and the destructor of the
harness behind it, and a signal at any point of either.

## 3. Runs

| Run | Checks | Instance |
|---|---|---|
| `ahdlc_transport` | `InOrderOnce`, `WireExact`, `IntactFrameReturned`, `ImplementsChannel`, `OverflowReportedOnce`, `CallsReturn`: replies come out once and in order; a frame whose CRC the decoder found good is returned by the call that reads its last byte, unless the call began inside it and read seven bytes or fewer; a reply that is too long is reported once; writes are exact; it is a reply channel; every call returns | four requests of which one cannot be encoded; a reply that is too long, then a largest and a shortest one that fit; one byte lost, damaged or taken by the print thread; three calls with a timeout; at most two bytes in the tty's queue (see Bounds); 1,054,000 states |
| `ahdlc_bad_crc` | violated: `BadCrcIsTransportError` | three requests of which one cannot be encoded, two replies that fit, one byte lost or damaged |
| `spi_transport` | `ReplyOnce`, `ReplyAnswersLastRequest`, `ImplementsChannel` | a buffer of four bytes, messages that are empty, just fit, or have a byte too many, three sends and three fetches; 459,000 states |
| `spi_oneof` | violated: `MessageFits` | as the one before |
| `harness_lifecycle` | `NoUseAfterFree`, `ReadsOwnTty`, `NoLeak`, `DestructorEnds` | three harnesses, three descriptors, so that numbers are reused |
| `console_switch` | `SwitchTakesEffect`, `SwitchEnds`: a switch that returned true takes effect, in both directions; the wait for the prompt ends | three processes, two of them killed anywhere, also in the middle of a write, a device that prints twice on its own account, from console or protobuf protocol with an empty or a started command line; 386,000 states |
| `nugget_tools` | `RebootVerdictSound`, `WaitVerdictExact`, `WipeVerdictSound` | three ticks, two resets, two sleeps, replies of no, one and all fields |
| `avb_tests` | `CleanStart`, `NoFalseAlarm`, `FaultDetected` | all tests in all orders, all rules broken in turn, any state of the chip at the beginning, one lost call per test, two rollback slots |
| `weaver_tests` | `NoFalseAlarm`, `FaultDetected` | all tests in all orders, one lost call per test or one that takes 3, 25 or 26 seconds, a drawn slot that shares a record with the slots of other tests or does not; 8.1 million states |
| `run_tests` | `SetUpMakesReady`, `NoFalseAlarm`, `FaultDetected`, `OverreadIsReported`, `RunsWhereItSays`, `FilterExact` | all flags, with a `--gtest_filter` that is used and one that is overwritten, all core and keymaster tests in all orders, one lost call per test; 5.5 million states |
| `proto_tests` | `NoFalseAlarm`, `StaleReplyIsNoticed`, `FaultDetected` | both transports, two late replies at a time, loops of two rounds and two vectors |
| `stress_test` | `StressEnds` | two signals and two failing calls anywhere |

The runs of the transports, the lifecycle and the switch also check their
module's `TypeOK`; in the other modules `TypeOK` only documents the variables.

What the runs showed, beside the properties that hold.  The first two have a run
that finds them; the others are exceptions in the properties, named there, or
follow from the model as it stands.

* `GetAhdlc` accepts a frame with a wrong CRC: the condition at `util.cc:321`
  includes `DECODE_COMPLETE_BAD_CRC`, so the branch at 348 that reports it is
  never taken.
* `SendOneofProto` lets messages of 509 and 510 bytes pass, which overrun
  `raw_message::data` by one and two bytes (`util.cc:254`): the limit is that of the
  whole buffer, while `data` is two bytes shorter (`util.h:53`).
* A frame of which one call read the beginning before its timeout is lost if the
  next call reads seven bytes or fewer of it (`read_count > 7`).  This is the
  exception in `IntactFrameReturned`.
* A switch to the protobuf protocol hangs if the device prints something right
  behind its prompt, or was left in the protobuf protocol by a killed run
  (`util.cc:515`): the condition `AtConsole` and the variable `loud` in `SwitchEnds`.
* A process killed inside its request to return to the console leaves half a frame
  in the decoder of the device.  The next such request may be lost with it; if a
  late NOTICE is on its way too, `SwitchFromProtoApiToConsole` takes that for the
  answer and returns true although the device stays in the protobuf protocol: the
  exception `torn` of `SwitchTakesEffect`.
* `WipeUserData` says that the wipe should hard reboot (`nugget_tools.cc:215`) and
  then requires that the chip did not reset (234).
* A reset shortly before the request can be taken for the one requested, by 5%
  of the elapsed time and by the delay between the chip's clock being read and
  the host's.  `RebootVerdictSound` states the exact tolerance.
* `ResetProduction` ignores the status of `Reset`; if that call is lost and the
  chip is out of production already, device data and rollback slots of an
  earlier test survive `SetUp` (the condition `lost = 0` of `CleanStart`).
* Tests that expect any status but success take a lost call for the refusal: two
  reset tests of `avb_tests.cc`, and the two `...InHLOSFails` of
  `nugget_core_tests.cc`.
* `ReadThrottleAfterSleep` fails on a sound chip if its calls take 26 seconds, and
  passes one whose timer stands still if they take 4.
* Five tests of `keymaster-import-key-tests.cc` pass a firmware without the rule they
  are written for: `AlgorithmMissingFails` (109), `ECMissingCurveIdTagFails` (282),
  `ECMisMatchedCurveIdTagFails` (295), `ECMisMatchedKeySizeTagCurveTagFails` (314) and
  `ECMisMatchedP256KeySizeFails` (337).  Their requests give no key, or one of zeros,
  and the answer they expect is also the one for that.
* `GetUartPassthruInBootloader` and `...InHLOS` do not look at the size of the reply, so
  a firmware that does not report the switch may pass (`PassthruIsReported`).  These
  six rules are `Unnoticed` in `RunTests`, exceptions of its `FaultDetected`; TLC finds
  each of them broken by a firmware that passes.
* `GetUartPassthruInBootloader` does not go to the bootloader
  (`nugget_core_tests.cc:108`); it reads the switch wherever the chip is.
* `Echo` compares the type of the message it sent, not of the one it received
  (`runtests.cc:198`); the sizes of the sequence and of the CMAC are not looked at.
* `DcryptoTest` never switches the UART (`aes-cmac-tests.cc:62`), so it fails over
  AHDLC on any firmware.
* An aborted `Trng`, `AesGcm` or `AesCmacRfc4493Test` leaves the harness less
  verbose for the rest of the suite (`runtests.cc:313`).
* A reply that comes late is taken for the answer to the next request; only
  `Echo` and `AesCbc` always notice.
* The two flags that disable tests overwrite `--gtest_filter`.  `release_tests`
  does not list `NuggetOsTest.AesGcm` of `cavptests`, which is linked with the same
  `main` and needs the same application (`gtest_with_gflags_main.cc:48`).
* `stress_test` prints the result of the send when `GetData` fails
  (`stress_test.cc:65`).  A signal inside the call of `SendSpi`, or a second one
  inside the exit handler, can leave the device stressing; one before the first
  message crashes in the handler on the null client, which does no harm.

### Bounds
A reply is eight bytes of framing and header around a payload of up to ten, and
the limits are scaled down with it; the constant 7 of `read_count > 7` is the
code's.  `ahdlc_transport` runs under two constraints of `MCAhdlcTransport`.
`QueueBound` keeps at most two bytes in the tty's queue: the client sees only the
first byte and whether there is one, so a device that sends a byte later, when
the queue is shorter, takes it to the same states of the client; no action under
fairness lengthens the queue.  `DisturbanceBound` allows one byte to be lost,
damaged or taken by the print thread, and not one of each.  The proofs of section
4 have neither bound.  In
`NuggetTools` one tool runs per behaviour: the tools keep nothing on the host from
one call to the next, and the chip may reset and sleep before the tool starts.
The constraint `Explored` of `MCNuggetTools` stops the chip after the tool
returned.  In the test modules nothing bounds the number of tests: the state that
a test leaves is finite, and TLC finds all of it.  Two rollback slots stand for
eight because each gets the same steps; two rounds of a loop are enough for a
late reply of one round to be taken in the next, and for the last round to differ
from the first.  In `ConsoleSwitch` two killed processes are enough for a third to
find what one of them left behind the other's remains; two lines of the device's
own can fall before, between and behind the prompt.  The delays of `WeaverTests`
are those just below and at the limits.  Runs whose clients make a bounded number
of calls, or whose command line may select no test, allow the system to stop.

### Fairness
`CallsReturn` assumes weak fairness of writing and of the reading loop: the UART
takes bytes sooner or later (the loop of `BlockingWrite` retries for ever if it
does not) and the thread is scheduled.  `DestructorEnds` assumes weak fairness of
the destructor and of the print thread; between two passes over `tty_fd` the
thread sleeps or reads, so nothing stronger is needed, and none is assumed of
the device.  `SwitchEnds` assumes weak fairness of the process that runs the
switch and of a device that looks at its input: without the latter no console
answers.

## 4. Proofs

`HarnessLifecycleProofs` proves `NoUseAfterFree`, `ReadsOwnTty`, `NoLeak` and
`TypeOK` for every number of harnesses and every set of descriptors
(`LifecycleAssumption`).  None is inductive by itself.  The invariant adds who is
alive (`AliveInv`), that only the current harness has a thread and only up to
the join (`RunningInv`), where the tty's number is kept while the destructor
moves it from `tty_fd` to a local variable (`TtyInv`), which table entries belong
to whom (`FilesInv`), and what a thread that is about to read has loaded
(`LoadedInv`).  The central step is `CloseTty`: a thread may hold the number that
is being closed, and the invariant says that nothing is opened before the join.

`SpiTransportProofs` proves `ReplyOnce`, `ReplyAnswersLastRequest`, `TypeOK` and the refinement `ImplementsChannel` for every limit, all sizes and any
number of calls (`SpiAssumption`).  The invariant adds that a reply in the buffer
is younger than all that were handed out (`BufferInv`), and that after a
successful send the buffer holds the reply to that request or nothing
(`StatusInv`).  For the refinement, a send that reaches `CallApp` appends to
`pending`, a `GetSpi` that returns a reply takes it and all before it out of
`pending`, and every other step changes neither side; `BufferInv` is what says
that the reply is still pending, and `OneInv` that it is the only one since the send.

`AhdlcTransportProofs` proves `InOrderOnce`, `WireExact`, `OverflowReportedOnce`,
`IntactFrameReturned` (an action property), `TypeOK` and `ImplementsChannel`, for
replies and requests of any length, any limit of encoder and decoder, any timeout
and any number of calls and of lost, damaged or printed bytes
(`TransportAssumption`).  The argument for `InOrderOnce` follows a byte.  The
device sends its bytes in a total order (`Before`), and what the wire puts in
place of one is not `Genuine`.  `QueueInv` says that the genuine bytes of the tty's
queue are in that order, that those of the half-decoded frame come before them,
and that all answer requests that arrived.  `PassedInv` says that a reply that was
handed out is behind all of them.  A good CRC then means a whole frame, all of
whose bytes are genuine, so that it is a later reply than any before.  `WriteInv`
relates `tx` to the part of the encoder's buffer that is written, for `WireExact`;
`OverflowInv` says that the frame that overflowed is not being decoded any more;
`CountInv`, that a call that did not begin in the frame has read all of it, which
makes the exception of `IntactFrameReturned` exact.

`ConsoleSwitchProofs` proves `SwitchTakesEffect` and `TypeOK` for any number of
processes, killed anywhere, and of lines the device prints
(`ConsoleAssumption`).  The invariant is about the text that is still to come: what is
in the `inbox`, followed by what the host has still to write of its command (`ToType`)
or frame (`ToSend`).  A write moves a token from one to the other and leaves the
text as it is; a read of the device takes its first token.  `CommandInv` says that
behind the newline the text ends with a whole command on a line of its own, whatever
killed processes left before it, or that the device is already inside it, with just
that part of it typed.  Nothing is said of the prompt, and nothing needs to be: the
loop's prompt may be an old one.  `RevertInv` is the same for the frame and needs
`FrameInv`: as long as no frame is torn, a flag follows every frame in the text, and
the device is in a frame only where its flag is next, so that no frame is
swallowed by another.

`NuggetToolsProofs` proves `RebootVerdictSound`, `WaitVerdictExact` and
`WipeVerdictSound` for every wait, clock and number of resets, sleeps and calls,
and replies of any length (`ToolsAssumption`).  `WatchInv` relates the chip's
counters to those of the first read and to what happened since; `ActInv` says what
of the first reply is still in `buffer`, which a short second reply leaves there;
`VerdictInv` puts both together at the verdict.

`StressTestProofs` proves `StressEnds` for any number of signals and failing calls
(`StressAssumption`): only a device behind an open client is stressed
(`ClientInv`), and whoever is past the reboot has stopped it or has an excuse
(`RebootInv`).

`AvbTestsProofs` proves `CleanStart` for any number of rollback slots, nonces and
lost calls (`AvbAssumption`).  Nothing is assumed of the state in which the test
before left the firmware, or of what the bodies of the tests do.  The invariant
says what each step of `SetUp` that is behind has achieved, unless an `ASSERT`
failed (`Achieved`): in the HLOS, then a nonce that is not spent, blank user data,
out of production, unlocked.  Each is what the next call needs in order not to be
refused.  The one call of `SetUp` that can be lost without an `ASSERT` noticing is
the reset of the production mode (`SetUpCallLost`); the `GetState` behind it makes
sure of the mode but not of the data, hence the condition `lost = 0`.

It also proves `FaultDetected`.  Each test written for a rule has one step that
asks for what the rule forbids, or looks at what it keeps (`Decisive`).  `DecisiveInv`
says that a test that has not failed is not past this step, hence it cannot end
without a failure.  At the step itself, the firmware that lacks the rule gives no
answer the assertion accepts (`Obstacle`), and neither does a lost call
(`ObstacleLost`), except to the tests of a signed reset, which expect any error.
For that the other rules must not refuse the call in place of the missing one with
the same error.  `Known` says what the test has made sure of on its way: that
the device lock is open where the carrier lock is to freeze the boot lock, for
instance, since `SetUp` looked (`UnlockedInv`) and no step since then touches it
(`BootLockLeavesDevice`).  The lemmas on the steps (`BootLockSteps`, ...) take the tests
apart once, so that what is said of the firmware is said for a call and not for a
test.  A change of a test that moves its decisive step breaks a lemma.

`ProtoTestsProofs` proves `NoFalseAlarm`, `StaleReplyIsNoticed` and `FaultDetected`
for any number of keys, rounds and vectors and of late replies
and lost calls (`ProtoTestsAssumption`).  The lemma `Programs` says once what every
step of every test is, wherever in a loop it is; the steps of the specification are
then judged by the kind of step they take.  `FaultInv` says that a test has failed
as soon as its first exchange is behind it, whichever reply it took there: a
fault is in every reply, and what does not match can only add to what is
wrong.  `StaleInv` is the same for a reply to another request, which no comparison
of random bytes survives.  For `NoFalseAlarm` the test must get the reply to its own request:
`ReachInv` says that the firmware sees the request (it speaks the protobuf protocol
up to the request for the console), `LastInv` that this reply is the last to
come, which is the one that SPI hands out, and `OnlyInv` that over the UART it is
the only one if none was late and none lost.

The assumptions on constants give their types: bounds are natural numbers, a
request has a byte, the buffer of a message has room for the two bytes of a
subtype, `AesCbc` has a key to try, and no nonce that is handed out is the 0 of a spent one.  Each inductive invariant was
checked with TLC on the run's instance before it was proved.

Only model-checked: the liveness properties `CallsReturn`, `DestructorEnds` and
`SwitchEnds` (fairness is out of the prover's reach), the properties of
`WeaverTests` and `RunTests`, and `NoFalseAlarm` of `AvbTests`.  That a test does
not fail is about all of its steps, not about one: what each call must find is
what the calls before it in the same test did, so a proof would list, step by step
of every test, what TLC explores.  The tests of Weaver and of Keymaster are put
together with folds, and `TestFilter` concatenates lists of patterns: what these
compute needs induction over data, which the provers do not have.  TLC's exploration is complete but for the number of rollback slots and of
lost calls, and for the delays.

## 5. Plan

All components with state have a module.  Every property of the transports, the
lifecycle, the switch, the tools, the protobuf tests and the stress test that is
not liveness has a theorem, and so have `SetUp` of the AVB tests and what these
tests detect.
`SetUpMakesReady`, `OverreadIsReported` and `RunsWhereItSays` of `RunTests` are about one
fixture each, as `CleanStart` is, and could be proved along the same argument.

## 6. Not modelled

Parsing of flags and the search for the tty (`util.cc` 45-104) and
`MakeNuggetClient` keep no state.  `flushConsole` has no caller.  What the crypto
tests compute is abstracted to right or wrong: the cryptography itself is out of a
model checker's reach.  `blob.h` is a value class; keys and vectors are constant
data; `release-tests.sh` and `nist2h.py` move and convert files.
