--------------------------- MODULE ConsoleSwitch ---------------------------
(* SwitchFromConsoleToProtoApi and SwitchFromProtoApiToConsole of           *)
(* TestHarness (src/src/util.cc), as the suite NuggetOsTest calls them      *)
(* (src/src/runtests.cc), against a device that may be slow, prints on its  *)
(* own account and keeps its state when the process on the host is killed.  *)
(*                                                                          *)
(* What the host writes is a sequence of tokens: the character 'v', the two *)
(* parts "protoapi" and "uart" of the command `protoapi uart on 1`, a       *)
(* newline, the frame that reverts to the console up to its closing flag,   *)
(* and that flag.  The process may be killed between any two.               *)
(* Of what the device prints only newlines, the two bytes of the            *)
(* prompt and NOTICE frames are told apart; any other character is "x".     *)
(* What the device prints at once arrives without a pause in it.            *)
EXTENDS Naturals, Sequences, SequencesExt

CONSTANTS
  MaxKills,   \* bound on the times the process is killed
  MaxPrints,  \* bound on what the device prints on its own account
  MaxRuns     \* bound on the processes started

ASSUME ConsoleAssumption == {MaxKills, MaxPrints, MaxRuns} \subseteq Nat

VARIABLES
  routine,    \* the switch that runs: "ToProto", "ToConsole" or "none"
  pc,         \* its next statement
  result,     \* of the last switch of this process: "none", "true" or "false"
  switched,   \* the last switch that returned true
  line,       \* what ReadLineUntilBlock has read
  rx,         \* bytes that arrived at the host
  mode,       \* of the device's UART: "console" or "proto"
  typed,      \* the line typed at the console so far
  inbox,      \* what arrived at the device and it did not look at
  frame,      \* in the protobuf protocol: "none", "half" of a frame, or "broken"
  torn,       \* a process was killed with half of its frame written
  loud,       \* the device printed on its own account during the switch
  kills, prints, runs

deviceVars == <<mode, typed, inbox, frame>>
vars == <<routine, pc, result, switched, line, rx, deviceVars, torn, loud, kills,
          prints, runs>>

Prompt == <<">", " ">>

----------------------------------------------------------------------------
(* The host.                                                                *)

Statement(kind, data) == [kind |-> kind, data |-> data]

ReadUntil == Statement("ReadUntil", <<>>)

\* A part of what a BlockingWrite writes: write() may take less than it is given,
\* so each part is a statement of its own.
Write(token) == Statement("BlockingWrite", <<token>>)

\* Mutant: sizeof(command) - 2 loses the newline.
CommandWithoutNewline ==
  <<ReadUntil, Write("v"), ReadUntil, Write("nl"), Statement("ReadLine", Prompt),
    Write("protoapi"), Write("uart"), ReadUntil>>

\* Mutant: no newline is written, the prompt is waited for as if it were.
SwitchWithoutNewline ==
  <<ReadUntil, Write("v"), ReadUntil, Statement("ReadLine", Prompt),
    Write("protoapi"), Write("uart"), Write("nl"), ReadUntil>>

\* BlockingWrite("version\n", 1) writes the first character only.
SwitchFromConsoleToProtoApi ==
  <<ReadUntil, Write("v"), ReadUntil, Write("nl"), Statement("ReadLine", Prompt),
    Write("protoapi"), Write("uart"), Write("nl"), ReadUntil>>

\* With the ReadUntil of TearDownTestCase.
SwitchFromProtoApiToConsole ==
  <<ReadUntil, Write("revert"), Write("flag"), Statement("GetAhdlc", <<"notice">>),
    ReadUntil>>

Program ==
  IF routine = "ToProto" THEN SwitchFromConsoleToProtoApi ELSE SwitchFromProtoApiToConsole

Ready(kind) == routine # "none" /\ pc <= Len(Program) /\ Program[pc].kind = kind

Init ==
  /\ routine = "none" /\ pc = 1 /\ result = "none" /\ switched = "none"
  /\ line = <<>> /\ rx = <<>>
  /\ mode \in {"console", "proto"} /\ typed \in {<<>>, <<"v">>} /\ inbox = <<>>
  /\ frame = "none" /\ torn = FALSE
  /\ loud = FALSE /\ kills = 0 /\ prints = 0 /\ runs = 0

Enter(r) ==
  /\ routine = "none"
  /\ routine' = r /\ pc' = 1 /\ line' = <<>> /\ loud' = FALSE

\* A new process opens the tty, which discards what arrived before.
SetUpTestCase ==
  /\ result # "true" \/ switched # "ToProto"
  /\ runs < MaxRuns
  /\ runs' = runs + 1
  /\ Enter("ToProto")
  /\ result' = "none"
  /\ rx' = <<>>
  /\ UNCHANGED <<switched, deviceVars, torn, kills, prints>>

\* The tests are over; they may have left what they did not read.
TearDownTestCase ==
  /\ result = "true" /\ switched = "ToProto"
  /\ Enter("ToConsole")
  /\ result' = "none"
  /\ UNCHANGED <<switched, rx, deviceVars, torn, kills, prints, runs>>

Leave(verdict) ==
  /\ routine' = "none" /\ pc' = 1 /\ result' = verdict
  /\ switched' = IF verdict = "true" THEN routine ELSE switched

\* Everything that arrived until the time is over is discarded.
DoReadUntil ==
  /\ Ready("ReadUntil")
  /\ rx' = <<>> /\ pc' = pc + 1
  /\ UNCHANGED <<routine, result, switched, line, deviceVars, torn, loud, kills,
                 prints, runs>>

DoBlockingWrite ==
  /\ Ready("BlockingWrite")
  /\ inbox' = inbox \o Program[pc].data /\ pc' = pc + 1
  /\ UNCHANGED <<routine, result, switched, line, rx, mode, typed, frame,
                 torn, loud, kills, prints, runs>>

\* Mutant: a newline does not end the line.
LineGoesOn(b) == Append(line, b)

\* A newline ends the line, which is then not the prompt.
LineWith(b) == IF b = "\n" THEN <<>> ELSE Append(line, b)

\* ReadLineUntilBlock reads a byte.
ReadLineByte ==
  /\ Ready("ReadLine") /\ rx # <<>>
  /\ rx' = Tail(rx)
  /\ line' = LineWith(Head(rx))
  /\ UNCHANGED <<routine, pc, result, switched, deviceVars, torn, loud, kills,
                 prints, runs>>

\* The silence after a byte ends the line too; the loop leaves at the prompt.
ReadLineBlocks ==
  /\ Ready("ReadLine") /\ rx = <<>>
  /\ line' = <<>>
  /\ pc' = IF line = Program[pc].data THEN pc + 1 ELSE pc
  /\ UNCHANGED <<routine, result, switched, rx, deviceVars, torn, loud, kills,
                 prints, runs>>

\* GetAhdlc returns the first NOTICE, an answer or not.
GetNotice ==
  /\ Ready("GetAhdlc")
  /\ \E i \in 1 .. Len(rx) :
        /\ rx[i] = "notice" /\ \A j \in 1 .. i - 1 : rx[j] # "notice"
        /\ rx' = SubSeq(rx, i + 1, Len(rx))
  /\ pc' = pc + 1
  /\ UNCHANGED <<routine, result, switched, line, deviceVars, torn, loud, kills,
                 prints, runs>>

\* It times out: return false.
GetTimesOut ==
  /\ Ready("GetAhdlc")
  /\ Leave("false")
  /\ UNCHANGED <<line, rx, deviceVars, torn, loud, kills, prints, runs>>

Finish ==
  /\ routine # "none" /\ pc > Len(Program)
  /\ Leave("true")
  /\ UNCHANGED <<line, rx, deviceVars, torn, loud, kills, prints, runs>>

\* The frame is written but for its closing flag.
InFrame == routine = "ToConsole" /\ pc = 3

\* The process is killed, in a switch or between them.
Kill ==
  /\ runs > 0 /\ kills < MaxKills
  /\ kills' = kills + 1
  /\ torn' = (torn \/ InFrame)
  /\ Leave("false")
  /\ UNCHANGED <<line, rx, deviceVars, loud, prints, runs>>

----------------------------------------------------------------------------
(* The device.                                                              *)

\* The console echoes what is typed and runs a line at its end.  It answers all
\* lines but the command with its prompt.
ConsoleReads(token) ==
  /\ UNCHANGED frame
  /\ IF token # "nl"
     THEN /\ typed' = Append(typed, token)
          /\ rx' = Append(rx, "x")
          /\ UNCHANGED mode
     ELSE /\ typed' = <<>>
          /\ IF typed = <<"protoapi", "uart">>
             THEN mode' = "proto" /\ rx' = Append(rx, "\n")
             ELSE /\ rx' = rx \o <<"\n">> \o (IF typed = <<>> THEN <<>> ELSE <<"x", "\n">>)
                              \o Prompt
                  /\ UNCHANGED mode

\* The closing flag ends half a frame: the request is served.
ProtoServes ==
  /\ mode' = "console" /\ frame' = "none"
  /\ rx' \in {Append(rx, "notice"), rx \o <<"notice", "\n">> \o Prompt}

\* The protobuf protocol ignores what is no frame.  Whatever comes between makes a
\* frame a broken one.  The opening flag of the next frame ends it, and whether it
\* opens the next one as well is up to the decoder.
ProtoReads(token) ==
  /\ UNCHANGED typed
  /\ IF token = "flag" /\ frame = "half" THEN ProtoServes
     ELSE /\ frame' \in CASE token = "revert" -> {"half"} \union {n \in {"none"} : frame # "none"}
                          [] token = "flag" -> {"none"}
                          [] OTHER -> {IF frame = "none" THEN "none" ELSE "broken"}
          /\ UNCHANGED <<mode, rx>>

DeviceReads ==
  /\ inbox # <<>>
  /\ inbox' = Tail(inbox)
  /\ IF mode = "console" THEN ConsoleReads(Head(inbox)) ELSE ProtoReads(Head(inbox))
  /\ UNCHANGED <<routine, pc, result, switched, line, torn, loud, kills, prints, runs>>

\* A line of its log, or a late NOTICE.
DevicePrints ==
  /\ prints < MaxPrints
  /\ prints' = prints + 1
  /\ loud' = TRUE
  /\ rx' = rx \o (IF mode = "console" THEN <<"x", "\n">> ELSE <<"notice">>)
  /\ UNCHANGED <<routine, pc, result, switched, line, deviceVars, torn, kills, runs>>

----------------------------------------------------------------------------

Host ==
  \/ DoReadUntil \/ DoBlockingWrite \/ ReadLineByte \/ ReadLineBlocks
  \/ GetNotice \/ GetTimesOut \/ Finish

Next ==
  \/ SetUpTestCase \/ TearDownTestCase \/ Host \/ Kill \/ DeviceReads \/ DevicePrints

Spec == Init /\ [][Next]_vars

\* The host's thread runs, and the device looks at what arrives.
FairSpec == Spec /\ WF_vars(Host) /\ WF_vars(DeviceReads)

----------------------------------------------------------------------------
(* Properties                                                               *)

Tokens == {"v", "protoapi", "uart", "nl", "revert", "flag"}
Printed == {">", " ", "x", "\n", "notice"}

\* The type of every variable.  A line that ReadLineUntilBlock has not returned
\* yet has no newline in it.
TypeOK ==
  /\ loud \in BOOLEAN /\ torn \in BOOLEAN
  /\ routine \in {"none", "ToProto", "ToConsole"} /\ pc \in 1 .. Len(Program) + 1
  /\ result \in {"none", "true", "false"} /\ switched \in {"none", "ToProto", "ToConsole"}
  /\ line \in Seq(Printed \ {"\n"}) /\ rx \in Seq(Printed)
  /\ mode \in {"console", "proto"}
  /\ typed \in Seq(Tokens \ {"nl"}) /\ inbox \in Seq(Tokens)
  /\ frame \in {"none", "half", "broken"}
  /\ kills \in 0 .. MaxKills /\ prints \in 0 .. MaxPrints /\ runs \in 0 .. MaxRuns

\* A switch to the protobuf protocol that returned true takes the device there
\* as soon as it has looked at what was written, whatever killed processes left
\* on its command line, in the tty or in the device's input, and whichever
\* prompt the loop took for the answer to its newline.  A switch back to the
\* console that returned true takes the device there, also if the NOTICE it took
\* for the answer is a late reply to a test's request; unless a process was
\* killed inside its own request, which may then take the next one with it.
SwitchTakesEffect ==
  (routine = "none" /\ result = "true" /\ inbox = <<>>) =>
    /\ switched = "ToProto" => mode = "proto"
    /\ switched = "ToConsole" /\ ~torn => mode = "console"

\* The device is at its console, and no whole command to leave it is on its way.
AtConsole == mode = "console" /\ ~Contains(inbox, "uart") /\ ~Contains(typed, "uart")

\* SwitchFromConsoleToProtoApi returns if the device is at its console, is
\* alive, and prints nothing of its own in the meantime; also after processes
\* killed half-way.  (A log line right behind the prompt makes the loop miss it
\* for good, and a device left in the protobuf protocol never shows one.)
SwitchEnds ==
  (routine = "ToProto" /\ AtConsole) ~> (routine # "ToProto" \/ loud)
=============================================================================
