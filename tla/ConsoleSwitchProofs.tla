------------------------ MODULE ConsoleSwitchProofs ------------------------
(* However many processes were killed, inside a write or not, and whatever  *)
(* the device prints: a switch that returned true takes the device where it *)
(* says (back to the console: unless a process was killed inside its own    *)
(* request).  What was written last decides, with what the host has still   *)
(* to write of it: a newline clears the command line, so that the command   *)
(* behind it is read on a line of its own.                                  *)
EXTENDS ConsoleSwitch, TLAPS

Ends(s, w) == \E u \in Seq(Tokens) : s = u \o w

\* What is still to write of the command, once its newline is written, and of
\* the frame.
ToType ==
  IF routine # "ToProto" THEN <<>>
  ELSE IF pc \in {5, 6} THEN <<"protoapi", "uart", "nl">>
  ELSE IF pc = 7 THEN <<"uart", "nl">>
  ELSE IF pc = 8 THEN <<"nl">> ELSE <<>>

ToSend == IF InFrame THEN <<"flag">> ELSE <<>>

\* The device will read s: in mode m with t on its command line, it then finds
\* the command on a line of its own.
CommandComes(s, m, t) ==
  \/ Ends(s, <<"nl", "protoapi", "uart", "nl">>)
  \/ s = <<"protoapi", "uart", "nl">> /\ (m = "proto" \/ t = <<>>)
  \/ s = <<"uart", "nl">> /\ (m = "proto" \/ t = <<"protoapi">>)
  \/ s = <<"nl">> /\ (m = "proto" \/ t = <<"protoapi", "uart">>)
  \/ s = <<>> /\ m = "proto"

\* In mode m with f of a frame, it then finds the request to revert.
RevertComes(s, m, f) ==
  \/ Ends(s, <<"revert", "flag">>)
  \/ s = <<"flag">> /\ (m = "console" \/ f = "half")
  \/ s = <<>> /\ m = "console"

Switched(r) == routine = "none" /\ result = "true" /\ switched = r

CommandInv ==
  (routine = "ToProto" /\ pc \in {5, 6, 7, 8, 9, 10}) \/ Switched("ToProto") =>
    CommandComes(inbox \o ToType, mode, typed)

RevertInv ==
  ~torn /\ ((routine = "ToConsole" /\ pc \in {3, 4, 5, 6}) \/ Switched("ToConsole")) =>
    RevertComes(inbox \o ToSend, mode, frame)

\* A flag follows every frame.
Closed(s) == \A i \in 1 .. Len(s) : s[i] = "revert" => i < Len(s) /\ s[i + 1] = "flag"

\* The device has a half frame only where its flag comes next.
FrameInv ==
  ~torn =>
    /\ frame \in {"none", "half"}
    /\ frame = "half" => mode = "proto" /\ inbox \o ToSend # <<>> /\ Head(inbox \o ToSend) = "flag"
    /\ Closed(inbox \o ToSend)

WrittenInv == CommandInv /\ RevertInv /\ FrameInv

IInv == TypeOK /\ WrittenInv

----------------------------------------------------------------------------

\* The statements of the two switches.
LEMMA Programs ==
  /\ Len(SwitchFromConsoleToProtoApi) = 9 /\ Len(SwitchFromProtoApiToConsole) = 5
  /\ routine = "ToProto" => Program = SwitchFromConsoleToProtoApi
  /\ routine # "ToProto" => Program = SwitchFromProtoApiToConsole
  /\ Len(Program) \in Nat
BY DEF Program, SwitchFromConsoleToProtoApi, SwitchFromProtoApiToConsole

\* What ToProto writes, and which of its statements are of another kind.
LEMMA ToProtoProgram ==
  /\ SwitchFromConsoleToProtoApi[2].data = <<"v">>
  /\ SwitchFromConsoleToProtoApi[4].data = <<"nl">>
  /\ SwitchFromConsoleToProtoApi[6].data = <<"protoapi">>
  /\ SwitchFromConsoleToProtoApi[7].data = <<"uart">>
  /\ SwitchFromConsoleToProtoApi[8].data = <<"nl">>
  /\ SwitchFromConsoleToProtoApi[1].kind = "ReadUntil"
  /\ SwitchFromConsoleToProtoApi[3].kind = "ReadUntil"
  /\ SwitchFromConsoleToProtoApi[9].kind = "ReadUntil"
  /\ SwitchFromConsoleToProtoApi[5].kind = "ReadLine"
<1>1. SwitchFromConsoleToProtoApi[2].data = <<"v">> /\ SwitchFromConsoleToProtoApi[4].data = <<"nl">>
  BY DEF SwitchFromConsoleToProtoApi, ReadUntil, Write, Statement
<1>2. /\ SwitchFromConsoleToProtoApi[6].data = <<"protoapi">>
      /\ SwitchFromConsoleToProtoApi[7].data = <<"uart">>
  BY DEF SwitchFromConsoleToProtoApi, ReadUntil, Write, Statement
<1>3. SwitchFromConsoleToProtoApi[8].data = <<"nl">>
  BY DEF SwitchFromConsoleToProtoApi, ReadUntil, Write, Statement
<1>4. /\ SwitchFromConsoleToProtoApi[1].kind = "ReadUntil"
      /\ SwitchFromConsoleToProtoApi[3].kind = "ReadUntil"
      /\ SwitchFromConsoleToProtoApi[9].kind = "ReadUntil"
      /\ SwitchFromConsoleToProtoApi[5].kind = "ReadLine"
  BY DEF SwitchFromConsoleToProtoApi, ReadUntil, Write, Statement
<1> QED  BY <1>1, <1>2, <1>3, <1>4

\* The same for ToConsole.
LEMMA ToConsoleProgram ==
  ASSUME NEW n \in 1 .. 5
  PROVE  /\ n = 2 => SwitchFromProtoApiToConsole[n].data = <<"revert">>
         /\ n = 3 => SwitchFromProtoApiToConsole[n].data = <<"flag">>
         /\ n \in {1, 5} => SwitchFromProtoApiToConsole[n].kind = "ReadUntil"
         /\ n = 4 => SwitchFromProtoApiToConsole[n].kind = "GetAhdlc"
BY DEF SwitchFromProtoApiToConsole, ReadUntil, Write, Statement

\* Which statements write, and what.
LEMMA Writes ==
  ASSUME TypeOK, Ready("BlockingWrite")
  PROVE  \/ routine = "ToProto" /\ pc = 2 /\ Program[pc].data = <<"v">>
         \/ routine = "ToProto" /\ pc = 4 /\ Program[pc].data = <<"nl">>
         \/ routine = "ToProto" /\ pc = 6 /\ Program[pc].data = <<"protoapi">>
         \/ routine = "ToProto" /\ pc = 7 /\ Program[pc].data = <<"uart">>
         \/ routine = "ToProto" /\ pc = 8 /\ Program[pc].data = <<"nl">>
         \/ routine = "ToConsole" /\ pc = 2 /\ Program[pc].data = <<"revert">>
         \/ routine = "ToConsole" /\ pc = 3 /\ Program[pc].data = <<"flag">>
<1>1. CASE routine = "ToProto"
  <2>0. pc \in 1 .. Len(Program) + 1 /\ pc <= Len(Program)
    BY DEF TypeOK, Ready
  <2>1. Program = SwitchFromConsoleToProtoApi /\ pc \in 1 .. 9
    <3>1. Program = SwitchFromConsoleToProtoApi
      BY <1>1, Programs
    <3>2. Len(Program) = 9
      BY <3>1, Programs
    <3> QED  BY <2>0, <3>1, <3>2
  <2>2. PICK n \in 1 .. 9 : n = pc
    BY <2>1
  <2>3. SwitchFromConsoleToProtoApi[n].kind = "BlockingWrite"
    BY <2>1, <2>2 DEF Ready
  <2>4. n \in {2, 4, 6, 7, 8}
    <3>1. ~(n \in {1, 3, 9}) /\ n # 5
      BY <2>3, ToProtoProgram
    <3> QED  BY <3>1
  <2>5. /\ n = 2 => SwitchFromConsoleToProtoApi[n].data = <<"v">>
        /\ n = 4 => SwitchFromConsoleToProtoApi[n].data = <<"nl">>
        /\ n = 6 => SwitchFromConsoleToProtoApi[n].data = <<"protoapi">>
        /\ n = 7 => SwitchFromConsoleToProtoApi[n].data = <<"uart">>
        /\ n = 8 => SwitchFromConsoleToProtoApi[n].data = <<"nl">>
    BY ToProtoProgram
  <2> QED  BY <1>1, <2>1, <2>2, <2>4, <2>5
<1>2. CASE routine = "ToConsole"
  <2>0. pc \in 1 .. Len(Program) + 1 /\ pc <= Len(Program)
    BY DEF TypeOK, Ready
  <2>1. Program = SwitchFromProtoApiToConsole /\ pc \in 1 .. 5
    <3>1. Program = SwitchFromProtoApiToConsole
      BY <1>2, Programs
    <3>2. Len(Program) = 5
      BY <3>1, Programs
    <3> QED  BY <2>0, <3>1, <3>2
  <2>2. PICK n \in 1 .. 5 : n = pc
    BY <2>1
  <2>3. SwitchFromProtoApiToConsole[n].kind = "BlockingWrite"
    BY <2>1, <2>2 DEF Ready
  <2>4. n \in {2, 3}
    <3>1. ~(n \in {1, 5}) /\ n # 4
      BY <2>3, ToConsoleProgram
    <3> QED  BY <3>1
  <2>5. /\ n = 2 => SwitchFromProtoApiToConsole[n].data = <<"revert">>
        /\ n = 3 => SwitchFromProtoApiToConsole[n].data = <<"flag">>
    BY <2>4, ToConsoleProgram
  <2> QED  BY <1>2, <2>1, <2>2, <2>4, <2>5
<1> QED  BY <1>1, <1>2 DEF TypeOK, Ready

\* Tokens make texts.
LEMMA TokenSeqs ==
  /\ \A t \in Tokens : <<t>> \in Seq(Tokens)
  /\ <<"nl">> \in Seq(Tokens) /\ <<"flag">> \in Seq(Tokens) /\ <<>> \in Seq(Tokens)
  /\ <<"uart", "nl">> \in Seq(Tokens) /\ <<"protoapi", "uart", "nl">> \in Seq(Tokens)
  /\ <<"nl", "protoapi", "uart", "nl">> \in Seq(Tokens)
  /\ <<"revert", "flag">> \in Seq(Tokens)
<1>1. /\ "nl" \in Tokens /\ "flag" \in Tokens /\ "protoapi" \in Tokens
      /\ "uart" \in Tokens /\ "revert" \in Tokens
  BY DEF Tokens
<1>2. ASSUME NEW a \in Tokens, NEW b \in Tokens, NEW c \in Tokens, NEW d \in Tokens
      PROVE  /\ <<a>> \in Seq(Tokens) /\ <<a, b>> \in Seq(Tokens)
             /\ <<a, b, c>> \in Seq(Tokens) /\ <<a, b, c, d>> \in Seq(Tokens)
             /\ <<>> \in Seq(Tokens)
  OBVIOUS
<1> QED  BY <1>1, <1>2, Zenon

----------------------------------------------------------------------------
(* Types.                                                                   *)

\* The counters.
LEMMA CountTypes ==
  ASSUME TypeOK, [Next]_vars
  PROVE  (kills \in 0 .. MaxKills /\ prints \in 0 .. MaxPrints /\ runs \in 0 .. MaxRuns)'
<1>1. /\ MaxKills \in Nat /\ MaxPrints \in Nat /\ MaxRuns \in Nat
      /\ kills \in 0 .. MaxKills /\ prints \in 0 .. MaxPrints /\ runs \in 0 .. MaxRuns
  BY ConsoleAssumption DEF TypeOK
<1>2. kills' = kills \/ (kills < MaxKills /\ kills' = kills + 1)
  BY DEF Next, vars, SetUpTestCase, TearDownTestCase, Host, DoReadUntil, DoBlockingWrite,
     ReadLineByte, ReadLineBlocks, GetNotice, GetTimesOut, Finish, Kill, DeviceReads, DevicePrints
<1>3. prints' = prints \/ (prints < MaxPrints /\ prints' = prints + 1)
  BY DEF Next, vars, SetUpTestCase, TearDownTestCase, Host, DoReadUntil, DoBlockingWrite,
     ReadLineByte, ReadLineBlocks, GetNotice, GetTimesOut, Finish, Kill, DeviceReads, DevicePrints
<1>4. runs' = runs \/ (runs < MaxRuns /\ runs' = runs + 1)
  BY DEF Next, vars, SetUpTestCase, TearDownTestCase, Host, DoReadUntil, DoBlockingWrite,
     ReadLineByte, ReadLineBlocks, GetNotice, GetTimesOut, Finish, Kill, DeviceReads, DevicePrints
<1>5. kills' \in 0 .. MaxKills
  BY <1>1, <1>2
<1>6. prints' \in 0 .. MaxPrints
  BY <1>1, <1>3
<1>7. runs' \in 0 .. MaxRuns
  BY <1>1, <1>4
<1> QED  BY <1>5, <1>6, <1>7

\* Where the host is in a switch.
LEMMA HostMoves ==
  ASSUME TypeOK, [Next]_vars
  PROVE  \/ routine' = routine /\ pc' = pc
         \/ routine' = routine /\ routine # "none" /\ pc' = pc + 1 /\ pc <= Len(Program)
         \/ routine' \in {"none", "ToProto", "ToConsole"} /\ pc' = 1
BY DEF Next, vars, SetUpTestCase, TearDownTestCase, Enter, Leave, Host, DoReadUntil,
   DoBlockingWrite, ReadLineByte, ReadLineBlocks, GetNotice, GetTimesOut, Finish, Kill,
   DeviceReads, DevicePrints, Ready

\* The statement it executes.
LEMMA PcTypes ==
  ASSUME TypeOK, [Next]_vars
  PROVE  (routine \in {"none", "ToProto", "ToConsole"} /\ pc \in 1 .. Len(Program) + 1)'
<1>1. routine \in {"none", "ToProto", "ToConsole"} /\ pc \in 1 .. Len(Program) + 1
  BY DEF TypeOK
<1>2. Len(Program) \in Nat
  BY Programs
<1>3. Len(Program)' \in Nat
  BY DEF Program, SwitchFromConsoleToProtoApi, SwitchFromProtoApiToConsole
<1>4. CASE routine' = routine
  <2>1. Program' = Program
    BY <1>4 DEF Program
  <2>2. pc' = pc \/ pc' = 1 \/ (pc' = pc + 1 /\ pc <= Len(Program))
    BY HostMoves
  <2>3. pc' \in 1 .. Len(Program) + 1
    BY <1>1, <1>2, <2>2
  <2> QED  BY <1>1, <1>4, <2>1, <2>3
<1>5. CASE routine' # routine
  <2>1. routine' \in {"none", "ToProto", "ToConsole"} /\ pc' = 1
    BY <1>5, HostMoves
  <2>2. pc' \in 1 .. Len(Program)' + 1
    BY <1>3, <2>1
  <2> QED  BY <2>1, <2>2
<1> QED  BY <1>4, <1>5

\* The verdicts of the switches.
LEMMA ResultTypes ==
  ASSUME TypeOK, [Next]_vars
  PROVE  /\ result' \in {"none", "true", "false"}
         /\ switched' \in {"none", "ToProto", "ToConsole"}
<1>1. /\ result \in {"none", "true", "false"}
      /\ switched \in {"none", "ToProto", "ToConsole"}
      /\ routine \in {"none", "ToProto", "ToConsole"}
  BY DEF TypeOK
<1> QED
  BY <1>1 DEF Next, vars, SetUpTestCase, TearDownTestCase, Enter, Leave, Host, DoReadUntil,
   DoBlockingWrite, ReadLineByte, ReadLineBlocks, GetNotice, GetTimesOut, Finish, Kill,
   DeviceReads, DevicePrints

\* What the device prints of its own accord is marked, and so is a torn frame.
LEMMA LoudTypes ==
  ASSUME TypeOK, [Next]_vars
  PROVE  loud' \in BOOLEAN /\ torn' \in BOOLEAN
<1>1. loud' = loud \/ loud' = TRUE \/ loud' = FALSE
  BY DEF Next, vars, SetUpTestCase, TearDownTestCase, Enter, Host, DoReadUntil,
   DoBlockingWrite, ReadLineByte, ReadLineBlocks, GetNotice, GetTimesOut, Finish, Kill,
   DeviceReads, DevicePrints
<1>2. torn' = torn \/ torn' = (torn \/ InFrame)
  BY DEF Next, vars, SetUpTestCase, TearDownTestCase, Host, DoReadUntil,
   DoBlockingWrite, ReadLineByte, ReadLineBlocks, GetNotice, GetTimesOut, Finish, Kill,
   DeviceReads, DevicePrints
<1>3. (torn \/ InFrame) \in BOOLEAN
  OBVIOUS
<1> QED  BY <1>1, <1>2, <1>3 DEF TypeOK

\* What the device receives.
LEMMA DeviceTypes ==
  ASSUME TypeOK, [Next]_vars
  PROVE  /\ mode' \in {"console", "proto"} /\ typed' \in Seq(Tokens \ {"nl"})
         /\ inbox' \in Seq(Tokens) /\ frame' \in {"none", "half", "broken"}
<1>1. /\ mode \in {"console", "proto"} /\ typed \in Seq(Tokens \ {"nl"})
      /\ inbox \in Seq(Tokens) /\ frame \in {"none", "half", "broken"}
  BY DEF TypeOK
<1>2. CASE DoBlockingWrite
  <2>1. /\ Ready("BlockingWrite") /\ inbox' = inbox \o Program[pc].data
        /\ UNCHANGED <<mode, typed, frame>>
    BY <1>2 DEF DoBlockingWrite
  <2>2. PICK t \in Tokens : <<t>> = Program[pc].data
    BY <2>1, Writes DEF Tokens
  <2>3. inbox \o <<t>> \in Seq(Tokens)
    BY <1>1
  <2> QED  BY <1>1, <2>1, <2>2, <2>3
<1>3. CASE DeviceReads
  <2>1. PICK s \in Seq(Tokens) : s = inbox /\ s # <<>>
    BY <1>1, <1>3 DEF DeviceReads
  <2>2. Head(s) \in Tokens /\ Tail(s) \in Seq(Tokens)
    BY <2>1
  <2>3. PICK t \in Tokens : t = Head(inbox)
    BY <2>1, <2>2
  <2>4. inbox' = Tail(s) /\ (IF mode = "console" THEN ConsoleReads(t) ELSE ProtoReads(t))
    BY <1>3, <2>1, <2>3 DEF DeviceReads
  <2>5. mode' \in {mode, "console", "proto"}
    BY <2>4 DEF ConsoleReads, ProtoReads, ProtoServes
  <2>6. typed' \in {typed, <<>>} \/ (t # "nl" /\ typed' = Append(typed, t))
    BY <2>4 DEF ConsoleReads, ProtoReads
  <2>7. <<>> \in Seq(Tokens \ {"nl"}) /\ (t # "nl" => Append(typed, t) \in Seq(Tokens \ {"nl"}))
    BY <1>1, <2>3
  <2>8. typed' \in Seq(Tokens \ {"nl"})
    BY <1>1, <2>6, <2>7
  <2>9. frame' \in {frame, "none", "half", "broken"}
    BY <2>4 DEF ConsoleReads, ProtoReads, ProtoServes
  <2> QED  BY <1>1, <2>2, <2>4, <2>5, <2>8, <2>9
<1>4. CASE UNCHANGED deviceVars
  BY <1>1, <1>4 DEF deviceVars
<1> QED
  BY <1>2, <1>3, <1>4 DEF Next, vars, SetUpTestCase, TearDownTestCase, Host, DoReadUntil,
     ReadLineByte, ReadLineBlocks, GetNotice, GetTimesOut, Finish, Kill, DevicePrints

\* Characters make lines.
LEMMA PrintedSeqs ==
  ASSUME NEW a \in Printed, NEW b \in Printed, NEW s \in Seq(Printed)
  PROVE  <<a>> \in Seq(Printed) /\ <<a, b>> \in Seq(Printed) /\ Append(s, a) \in Seq(Printed)
OBVIOUS

\* What the host receives.
LEMMA LineTypes ==
  ASSUME TypeOK, [Next]_vars
  PROVE  line' \in Seq(Printed \ {"\n"}) /\ rx' \in Seq(Printed)
<1> DEFINE nl == "\n"
<1>1. line \in Seq(Printed \ {nl}) /\ rx \in Seq(Printed)
  BY DEF TypeOK
<1>2. <<>> \in Seq(Printed) /\ <<>> \in Seq(Printed \ {nl})
  OBVIOUS
<1>3. nl \in Printed /\ "x" \in Printed /\ "notice" \in Printed /\ ">" \in Printed /\ " " \in Printed
  BY DEF Printed
<1>4. Prompt \in Seq(Printed)
  BY <1>2, <1>3, PrintedSeqs, Zenon DEF Prompt
<1>5. CASE ReadLineByte
  <2>1. PICK s \in Seq(Printed) : s = rx /\ s # <<>>
    BY <1>1, <1>5 DEF ReadLineByte
  <2>2. Tail(s) \in Seq(Printed) /\ Head(s) \in Printed
    BY <2>1
  <2>3. PICK b \in Printed : b = Head(s)
    BY <2>2
  <2>4. rx' = Tail(s) /\ line' = IF b = nl THEN <<>> ELSE Append(line, b)
    BY <1>5, <2>1, <2>3 DEF ReadLineByte, LineWith
  <2>5. b # nl => Append(line, b) \in Seq(Printed \ {nl})
    BY <1>1
  <2> QED  BY <1>2, <2>2, <2>4, <2>5
<1>6. CASE GetNotice
  <2>1. PICK i \in 1 .. Len(rx) : rx' = SubSeq(rx, i + 1, Len(rx))
    BY <1>6 DEF GetNotice
  <2>2. SubSeq(rx, i + 1, Len(rx)) \in Seq(Printed)
    BY <1>1, <2>1
  <2> QED  BY <1>1, <1>6, <2>1, <2>2 DEF GetNotice
<1>7. CASE DeviceReads
  <2>1. line' = line /\ \E t : ConsoleReads(t) \/ ProtoReads(t)
    BY <1>7 DEF DeviceReads
  <2>2. PICK t : ConsoleReads(t) \/ ProtoReads(t)
    BY <2>1
  <2>3. /\ Append(rx, "x") \in Seq(Printed) /\ Append(rx, nl) \in Seq(Printed)
        /\ Append(rx, "notice") \in Seq(Printed)
    BY <1>1, <1>3, PrintedSeqs, Zenon
  <2>4. <<nl>> \in Seq(Printed) /\ <<"x", nl>> \in Seq(Printed) /\ <<"notice", nl>> \in Seq(Printed)
    BY <1>1, <1>3, PrintedSeqs, Zenon
  <2>5. ASSUME NEW u \in Seq(Printed) PROVE rx \o <<nl>> \o u \o Prompt \in Seq(Printed)
    <3>1. rx \o <<nl>> \in Seq(Printed)
      BY <1>1, <2>4
    <3>2. rx \o <<nl>> \o u \in Seq(Printed)
      BY <3>1
    <3> QED  BY <1>4, <3>2
  <2>6. rx \o <<"notice", nl>> \o Prompt \in Seq(Printed)
    <3>1. rx \o <<"notice", nl>> \in Seq(Printed)
      BY <1>1, <2>4
    <3> QED  BY <1>4, <3>1
  <2>7. CASE ConsoleReads(t)
    <3>1. \/ rx' = Append(rx, "x") \/ rx' = Append(rx, nl)
          \/ rx' = rx \o <<nl>> \o <<>> \o Prompt
          \/ rx' = rx \o <<nl>> \o <<"x", nl>> \o Prompt
      BY <2>7 DEF ConsoleReads
    <3>2. /\ rx \o <<nl>> \o <<>> \o Prompt \in Seq(Printed)
          /\ rx \o <<nl>> \o <<"x", nl>> \o Prompt \in Seq(Printed)
      BY <1>2, <2>4, <2>5
    <3>3. rx' \in Seq(Printed)
      BY <2>3, <3>1, <3>2
    <3> QED  BY <1>1, <2>1, <3>3
  <2>8. CASE ProtoReads(t)
    <3>1. \/ rx' = rx \/ rx' = Append(rx, "notice") \/ rx' = rx \o <<"notice", nl>> \o Prompt
      BY <2>8 DEF ProtoReads, ProtoServes
    <3>2. rx' \in Seq(Printed)
      BY <1>1, <2>3, <2>6, <3>1
    <3> QED  BY <1>1, <2>1, <3>2
  <2> QED  BY <2>2, <2>7, <2>8
<1>8. CASE DevicePrints
  <2>1. <<"x", nl>> \in Seq(Printed) /\ <<"notice">> \in Seq(Printed)
    BY <1>1, <1>3, PrintedSeqs, Zenon
  <2>2. rx \o <<"x", nl>> \in Seq(Printed) /\ rx \o <<"notice">> \in Seq(Printed)
    BY <1>1, <2>1
  <2>3. line' = line /\ (rx' = rx \o <<"x", nl>> \/ rx' = rx \o <<"notice">>)
    BY <1>8 DEF DevicePrints
  <2> QED  BY <1>1, <2>2, <2>3
<1>9. CASE line' \in {line, <<>>} /\ rx' \in {rx, <<>>}
  BY <1>1, <1>2, <1>9
<1> QED
  BY <1>5, <1>6, <1>7, <1>8, <1>9 DEF Next, vars, SetUpTestCase, TearDownTestCase, Enter, Host,
     DoReadUntil, DoBlockingWrite, ReadLineBlocks, GetTimesOut, Finish, Kill

\* Every action keeps the types.
LEMMA TypeStep ==
  ASSUME TypeOK, [Next]_vars
  PROVE  TypeOK'
BY CountTypes, PcTypes, ResultTypes, LoudTypes, DeviceTypes, LineTypes DEF TypeOK

----------------------------------------------------------------------------
(* Texts.                                                                   *)

\* The device reads a text that ends with w: w remains as long as something
\* precedes it.
LEMMA EndsStep ==
  ASSUME NEW w \in Seq(Tokens), w # <<>>, NEW s, Ends(s, w)
  PROVE  s = w \/ Ends(Tail(s), w)
<1>1. PICK u \in Seq(Tokens) : s = u \o w
  BY DEF Ends
<1>2. CASE u = <<>>
  BY <1>1, <1>2
<1>3. CASE u # <<>>
  <2>1. Tail(u) \in Seq(Tokens) /\ Tail(u \o w) = Tail(u) \o w
    BY <1>3
  <2> QED  BY <1>1, <2>1 DEF Ends
<1> QED  BY <1>2, <1>3

\* What is to come follows what has come.
LEMMA Follows ==
  ASSUME NEW s \in Seq(Tokens), NEW w \in Seq(Tokens)
  PROVE  /\ s \o w \in Seq(Tokens)
         /\ s \o <<>> = s
         /\ s # <<>> => s \o w # <<>> /\ Head(s \o w) = Head(s) /\ Tail(s \o w) = Tail(s) \o w
OBVIOUS

\* A token the host writes is one it had still to write.
LEMMA Moves ==
  ASSUME NEW s \in Seq(Tokens)
  PROVE  /\ (s \o <<"nl">>) \o <<"protoapi", "uart", "nl">>
              = s \o <<"nl", "protoapi", "uart", "nl">>
         /\ (s \o <<"protoapi">>) \o <<"uart", "nl">> = s \o <<"protoapi", "uart", "nl">>
         /\ (s \o <<"uart">>) \o <<"nl">> = s \o <<"uart", "nl">>
         /\ (s \o <<"revert">>) \o <<"flag">> = s \o <<"revert", "flag">>
<1>1. (s \o <<"nl">>) \o <<"protoapi", "uart", "nl">> = s \o <<"nl", "protoapi", "uart", "nl">>
  OBVIOUS
<1>2. (s \o <<"protoapi">>) \o <<"uart", "nl">> = s \o <<"protoapi", "uart", "nl">>
  OBVIOUS
<1>3. (s \o <<"uart">>) \o <<"nl">> = s \o <<"uart", "nl">>
  OBVIOUS
<1>4. (s \o <<"revert">>) \o <<"flag">> = s \o <<"revert", "flag">>
  OBVIOUS
<1> QED  BY <1>1, <1>2, <1>3, <1>4

\* The texts token by token.
LEMMA Parts ==
  /\ Head(<<"nl", "protoapi", "uart", "nl">>) = "nl"
  /\ Tail(<<"nl", "protoapi", "uart", "nl">>) = <<"protoapi", "uart", "nl">>
  /\ Head(<<"protoapi", "uart", "nl">>) = "protoapi"
  /\ Tail(<<"protoapi", "uart", "nl">>) = <<"uart", "nl">>
  /\ Head(<<"uart", "nl">>) = "uart" /\ Tail(<<"uart", "nl">>) = <<"nl">>
  /\ Head(<<"nl">>) = "nl" /\ Tail(<<"nl">>) = <<>>
  /\ Append(<<>>, "protoapi") = <<"protoapi">>
  /\ Append(<<"protoapi">>, "uart") = <<"protoapi", "uart">>
<1>1. /\ Head(<<"nl", "protoapi", "uart", "nl">>) = "nl"
      /\ Tail(<<"nl", "protoapi", "uart", "nl">>) = <<"protoapi", "uart", "nl">>
  OBVIOUS
<1>2. /\ Head(<<"protoapi", "uart", "nl">>) = "protoapi"
      /\ Tail(<<"protoapi", "uart", "nl">>) = <<"uart", "nl">>
  OBVIOUS
<1>3. Head(<<"uart", "nl">>) = "uart" /\ Tail(<<"uart", "nl">>) = <<"nl">>
  OBVIOUS
<1>4. Head(<<"nl">>) = "nl" /\ Tail(<<"nl">>) = <<>>
  OBVIOUS
<1>5. Append(<<>>, "protoapi") = <<"protoapi">>
  OBVIOUS
<1>6. Append(<<"protoapi">>, "uart") = <<"protoapi", "uart">>
  <2>1. ASSUME NEW s \in Seq(Tokens), NEW a \in Tokens, NEW b \in Tokens
        PROVE  Append(Append(s, a), b) = s \o <<a, b>>
    OBVIOUS
  <2>2. ASSUME NEW a \in Tokens, NEW b \in Tokens
        PROVE  <<>> \in Seq(Tokens) /\ Append(<<>>, a) = <<a>> /\ <<>> \o <<a, b>> = <<a, b>>
    OBVIOUS
  <2>3. PICK a \in Tokens, b \in Tokens : a = "protoapi" /\ b = "uart"
    BY DEF Tokens
  <2>4. Append(<<a>>, b) = <<a, b>>
    BY <2>1, <2>2, Zenon
  <2> QED  BY <2>3, <2>4
<1> QED  BY <1>1, <1>2, <1>3, <1>4, <1>5, <1>6, Zenon

\* The flag still follows every frame when the device has read on.
LEMMA ClosedTail ==
  ASSUME NEW s \in Seq(Tokens), s # <<>>, Closed(s)
  PROVE  /\ Closed(Tail(s))
         /\ Head(s) = "revert" => Tail(s) # <<>> /\ Head(Tail(s)) = "flag"
<1>1. Len(s) \in Nat /\ Len(s) >= 1 /\ Len(Tail(s)) = Len(s) - 1 /\ Tail(s) \in Seq(Tokens)
  OBVIOUS
<1>2. ASSUME NEW i \in 1 .. Len(Tail(s)) PROVE Tail(s)[i] = s[i + 1]
  BY <1>1
<1>3. Closed(Tail(s))
  <2> SUFFICES ASSUME NEW i \in 1 .. Len(Tail(s)), Tail(s)[i] = "revert"
               PROVE  i < Len(Tail(s)) /\ Tail(s)[i + 1] = "flag"
    BY DEF Closed
  <2>1. i + 1 \in 1 .. Len(s) /\ s[i + 1] = "revert"
    BY <1>1, <1>2
  <2>2. i + 1 < Len(s) /\ s[(i + 1) + 1] = "flag"
    BY <2>1 DEF Closed
  <2>3. i < Len(Tail(s)) /\ i + 1 \in 1 .. Len(Tail(s))
    BY <1>1, <2>2
  <2> QED  BY <1>2, <2>2, <2>3
<1>4. ASSUME Head(s) = "revert" PROVE Tail(s) # <<>> /\ Head(Tail(s)) = "flag"
  <2>1. 1 \in 1 .. Len(s) /\ s[1] = "revert"
    BY <1>1, <1>4
  <2>2. 1 < Len(s) /\ s[1 + 1] = "flag"
    BY <2>1 DEF Closed
  <2>3. Len(Tail(s)) >= 1 /\ Tail(s)[1] = "flag"
    BY <1>1, <1>2, <2>2
  <2>4. ASSUME NEW r \in Seq(Tokens), Len(r) >= 1 PROVE r # <<>> /\ Head(r) = r[1]
    BY <2>4
  <2> QED  BY <1>1, <2>3, <2>4
<1> QED  BY <1>3, <1>4

\* And when the host writes something else than a frame, or a whole one.
LEMMA ClosedWrite ==
  ASSUME NEW s \in Seq(Tokens), Closed(s)
  PROVE  /\ \A t \in Tokens : t # "revert" => Closed(s \o <<t>>)
         /\ Closed(s \o <<"revert", "flag">>)
<1>1. Len(s) \in Nat
  OBVIOUS
<1>2. ASSUME NEW t \in Tokens, t # "revert" PROVE Closed(s \o <<t>>)
  <2>1. Len(s \o <<t>>) = Len(s) + 1
    OBVIOUS
  <2>2. (s \o <<t>>)[Len(s) + 1] = t /\ \A i \in 1 .. Len(s) : (s \o <<t>>)[i] = s[i]
    OBVIOUS
  <2> SUFFICES ASSUME NEW i \in 1 .. Len(s \o <<t>>), (s \o <<t>>)[i] = "revert"
               PROVE  i < Len(s \o <<t>>) /\ (s \o <<t>>)[i + 1] = "flag"
    BY DEF Closed
  <2>3. i \in 1 .. Len(s) /\ s[i] = "revert"
    BY <1>1, <1>2, <2>1, <2>2
  <2>4. i < Len(s) /\ s[i + 1] = "flag" /\ i + 1 \in 1 .. Len(s)
    BY <1>1, <2>3 DEF Closed
  <2> QED  BY <1>1, <2>1, <2>2, <2>4
<1>3. Closed(s \o <<"revert", "flag">>)
  <2> DEFINE r == s \o <<"revert", "flag">>
  <2>1. Len(r) = Len(s) + 2
    OBVIOUS
  <2>2. r[Len(s) + 1] = "revert" /\ r[Len(s) + 2] = "flag" /\ \A i \in 1 .. Len(s) : r[i] = s[i]
    OBVIOUS
  <2> SUFFICES ASSUME NEW i \in 1 .. Len(r), r[i] = "revert"
               PROVE  i < Len(r) /\ r[i + 1] = "flag"
    BY DEF Closed
  <2> HIDE DEF r
  <2>3. i \in 1 .. Len(s) \/ i = Len(s) + 1
    <3>1. i # Len(s) + 2
      BY <2>2
    <3> QED  BY <1>1, <2>1, <3>1
  <2>4. CASE i = Len(s) + 1
    BY <1>1, <2>1, <2>2, <2>4
  <2>5. CASE i \in 1 .. Len(s)
    <3>1. s[i] = "revert"
      BY <2>2, <2>5
    <3>2. i < Len(s) /\ s[i + 1] = "flag" /\ i + 1 \in 1 .. Len(s)
      BY <1>1, <2>5, <3>1 DEF Closed
    <3> QED  BY <1>1, <2>1, <2>2, <3>2
  <2> QED  BY <2>3, <2>4, <2>5
<1> QED  BY <1>2, <1>3

\* What is still to come is made of tokens.
LEMMA ComingTypes ==
  ToType \in Seq(Tokens) /\ ToSend \in Seq(Tokens)
BY TokenSeqs DEF ToType, ToSend

----------------------------------------------------------------------------
(* The device reads.                                                        *)

\* A newline: its command line is empty then, unless it speaks the protobuf
\* protocol, which has no use for one.
LEMMA ReadsNewline ==
  ASSUME DeviceReads, mode \in {"console", "proto"}, Head(inbox) = "nl"
  PROVE  /\ mode' = "proto" \/ typed' = <<>>
         /\ mode = "proto" \/ typed = <<"protoapi", "uart">> => mode' = "proto"
BY DEF DeviceReads, ConsoleReads, ProtoReads

\* Other text: it is typed.
LEMMA ReadsText ==
  ASSUME DeviceReads, mode \in {"console", "proto"}, Head(inbox) \in {"protoapi", "uart"}
  PROVE  /\ mode' = mode
         /\ mode = "console" => typed' = Append(typed, Head(inbox))
BY DEF DeviceReads, ConsoleReads, ProtoReads

\* The frame that reverts to the console, up to its flag.
LEMMA ReadsRevert ==
  ASSUME DeviceReads, mode \in {"console", "proto"}, Head(inbox) = "revert"
  PROVE  /\ mode' = mode
         /\ mode = "proto" /\ frame = "none" => frame' = "half"
BY DEF DeviceReads, ConsoleReads, ProtoReads

\* Its flag.
LEMMA ReadsFlag ==
  ASSUME DeviceReads, mode \in {"console", "proto"}, Head(inbox) = "flag",
         mode = "console" \/ frame = "half"
  PROVE  mode' = "console"
BY DEF DeviceReads, ConsoleReads, ProtoReads, ProtoServes

\* What becomes of a frame the device has no part of, or half of.
LEMMA ReadsFrame ==
  ASSUME DeviceReads, mode \in {"console", "proto"}
  PROVE  /\ frame = "none" => frame' = "none" \/ (Head(inbox) = "revert" /\ mode' = "proto" /\ frame' = "half")
         /\ frame = "half" /\ mode = "proto" /\ Head(inbox) = "flag" => frame' = "none"
<1>1. CASE mode = "console"
  BY <1>1 DEF DeviceReads, ConsoleReads
<1>2. CASE mode = "proto"
  <2>1. ProtoReads(Head(inbox))
    BY <1>2 DEF DeviceReads
  <2>2. frame = "half" /\ Head(inbox) = "flag" => frame' = "none"
    BY <2>1 DEF ProtoReads, ProtoServes
  <2>3. frame = "none" /\ Head(inbox) # "revert" => frame' = "none"
    BY <2>1 DEF ProtoReads
  <2>4. frame = "none" /\ Head(inbox) = "revert" => frame' \in {"none", "half"} /\ mode' = "proto"
    BY <1>2, <2>1 DEF ProtoReads
  <2> QED  BY <2>2, <2>3, <2>4
<1> QED  BY <1>1, <1>2

\* What is to come from the host follows what has come.
LEMMA ComingStep ==
  ASSUME TypeOK, DeviceReads
  PROVE  /\ inbox \o ToType # <<>> /\ Head(inbox \o ToType) = Head(inbox)
         /\ (inbox \o ToType)' = Tail(inbox \o ToType)
         /\ inbox \o ToSend \in Seq(Tokens)
         /\ inbox \o ToSend # <<>> /\ Head(inbox \o ToSend) = Head(inbox)
         /\ (inbox \o ToSend)' = Tail(inbox \o ToSend)
<1>1. inbox \in Seq(Tokens) /\ inbox # <<>> /\ inbox' = Tail(inbox)
  BY DEF TypeOK, DeviceReads
<1>2. ToType' = ToType /\ ToSend' = ToSend
  BY DEF DeviceReads, ToType, ToSend, InFrame
<1> QED  BY <1>1, <1>2, ComingTypes, Follows

\* The device reads on towards the end of the command.
LEMMA CommandReads ==
  ASSUME TypeOK, DeviceReads, CommandComes(inbox \o ToType, mode, typed)
  PROVE  CommandComes(inbox \o ToType, mode, typed)'
<1> DEFINE s == inbox \o ToType
<1>1. mode \in {"console", "proto"} /\ s # <<>> /\ Head(s) = Head(inbox) /\ s' = Tail(s)
  BY ComingStep DEF TypeOK
<1>2. CommandComes(s, mode, typed)
  OBVIOUS
<1> SUFFICES CommandComes(s', mode', typed')
  BY DEF CommandComes, Ends
<1> HIDE DEF s
<1>3. CASE Ends(s, <<"nl", "protoapi", "uart", "nl">>)
  <2>1. s = <<"nl", "protoapi", "uart", "nl">> \/ Ends(s', <<"nl", "protoapi", "uart", "nl">>)
    BY <1>1, <1>3, TokenSeqs, EndsStep
  <2>2. CASE s = <<"nl", "protoapi", "uart", "nl">>
    <3>1. Head(s) = "nl" /\ s' = <<"protoapi", "uart", "nl">>
      BY <1>1, <2>2, Parts
    <3> QED  BY <1>1, <3>1, ReadsNewline DEF CommandComes
  <2> QED  BY <2>1, <2>2 DEF CommandComes
<1>4. CASE s = <<"protoapi", "uart", "nl">> /\ (mode = "proto" \/ typed = <<>>)
  <2>1. Head(s) = "protoapi" /\ s' = <<"uart", "nl">>
    BY <1>1, <1>4, Parts
  <2>2. mode' = mode /\ (mode = "console" => typed' = Append(typed, "protoapi"))
    BY <1>1, <2>1, ReadsText
  <2> QED  BY <1>1, <1>4, <2>1, <2>2, Parts DEF CommandComes
<1>5. CASE s = <<"uart", "nl">> /\ (mode = "proto" \/ typed = <<"protoapi">>)
  <2>1. Head(s) = "uart" /\ s' = <<"nl">>
    BY <1>1, <1>5, Parts
  <2>2. mode' = mode /\ (mode = "console" => typed' = Append(typed, "uart"))
    BY <1>1, <2>1, ReadsText
  <2> QED  BY <1>1, <1>5, <2>1, <2>2, Parts DEF CommandComes
<1>6. CASE s = <<"nl">> /\ (mode = "proto" \/ typed = <<"protoapi", "uart">>)
  <2>1. Head(s) = "nl" /\ s' = <<>>
    BY <1>1, <1>6, Parts
  <2> QED  BY <1>1, <1>6, <2>1, ReadsNewline DEF CommandComes
<1> QED  BY <1>1, <1>2, <1>3, <1>4, <1>5, <1>6 DEF CommandComes

\* The device reads on towards the end of the request to revert.
LEMMA RevertReads ==
  ASSUME TypeOK, DeviceReads, FrameInv, ~torn, RevertComes(inbox \o ToSend, mode, frame)
  PROVE  RevertComes(inbox \o ToSend, mode, frame)'
<1> DEFINE s == inbox \o ToSend
<1>1. mode \in {"console", "proto"} /\ s # <<>> /\ Head(s) = Head(inbox) /\ s' = Tail(s)
  BY ComingStep DEF TypeOK
<1>2. frame = "none" \/ (frame = "half" /\ mode = "proto" /\ Head(s) = "flag")
  BY DEF FrameInv
<1>3. RevertComes(s, mode, frame)
  OBVIOUS
<1> SUFFICES RevertComes(s', mode', frame')
  BY DEF RevertComes, Ends
<1> HIDE DEF s
<1>4. CASE Ends(s, <<"revert", "flag">>)
  <2>1. s = <<"revert", "flag">> \/ Ends(s', <<"revert", "flag">>)
    BY <1>1, <1>4, TokenSeqs, EndsStep
  <2>2. CASE s = <<"revert", "flag">>
    <3>1. Head(s) = "revert" /\ s' = <<"flag">>
      BY <1>1, <2>2
    <3>2. frame = "none"
      BY <1>2, <3>1
    <3> QED  BY <1>1, <3>1, <3>2, ReadsRevert DEF RevertComes
  <2> QED  BY <2>1, <2>2 DEF RevertComes
<1>5. CASE s = <<"flag">> /\ (mode = "console" \/ frame = "half")
  <2>1. Head(s) = "flag" /\ s' = <<>>
    BY <1>1, <1>5
  <2> QED  BY <1>1, <1>5, <2>1, ReadsFlag DEF RevertComes
<1> QED  BY <1>1, <1>3, <1>4, <1>5 DEF RevertComes

\* The device reads on, frame by frame.
LEMMA FrameReads ==
  ASSUME TypeOK, DeviceReads, FrameInv
  PROVE  FrameInv'
<1> SUFFICES ASSUME ~torn PROVE FrameInv'
  BY DEF FrameInv, DeviceReads
<1> DEFINE s == inbox \o ToSend
<1>1. /\ mode \in {"console", "proto"} /\ s \in Seq(Tokens) /\ s # <<>>
      /\ Head(s) = Head(inbox) /\ s' = Tail(s)
  BY ComingStep DEF TypeOK
<1>2. frame = "none" \/ (frame = "half" /\ mode = "proto" /\ Head(s) = "flag")
  BY DEF FrameInv
<1>3. Closed(s)
  BY DEF FrameInv
<1> SUFFICES /\ frame' \in {"none", "half"}
             /\ frame' = "half" => mode' = "proto" /\ s' # <<>> /\ Head(s') = "flag"
             /\ Closed(s')
  BY DEF FrameInv, Closed
<1> HIDE DEF s
<1>4. PICK r \in Seq(Tokens) : r = s
  BY <1>1
<1>5. /\ Closed(Tail(s))
      /\ Head(s) = "revert" => Tail(s) # <<>> /\ Head(Tail(s)) = "flag"
  BY <1>1, <1>3, <1>4, ClosedTail
<1>6. frame' = "none" \/ (Head(s) = "revert" /\ mode' = "proto" /\ frame' = "half")
  BY <1>1, <1>2, ReadsFrame
<1> QED  BY <1>1, <1>5, <1>6

----------------------------------------------------------------------------
(* The host's steps.                                                        *)

\* Where a switch returns true.
LEMMA Finishes ==
  ASSUME TypeOK, Finish
  PROVE  (routine = "ToProto" /\ pc = 10) \/ (routine = "ToConsole" /\ pc = 6)
<1>1. pc \in 1 .. Len(Program) + 1 /\ pc > Len(Program) /\ Len(Program) \in Nat
  BY Programs DEF TypeOK, Finish
<1>2. PICK n \in Nat : n = Len(Program)
  BY <1>1
<1>3. pc = n + 1
  BY <1>1, <1>2
<1>4. CASE routine = "ToProto"
  <2>1. n = 9
    BY <1>2, <1>4, Programs
  <2> QED  BY <1>3, <1>4, <2>1
<1>5. CASE routine = "ToConsole"
  <2>1. n = 5
    BY <1>2, <1>5, Programs
  <2> QED  BY <1>3, <1>5, <2>1
<1> QED  BY <1>4, <1>5 DEF TypeOK, Finish

\* No other kind of statement stands where something has to be written.
LEMMA OtherStatements ==
  ASSUME Ready("ReadUntil") \/ Ready("ReadLine") \/ Ready("GetAhdlc")
  PROVE  /\ ~(routine = "ToProto" /\ pc \in {4, 6, 7, 8})
         /\ ~(routine = "ToConsole" /\ pc \in {2, 3})
<1>1. Program[pc].kind \in {"ReadUntil", "ReadLine", "GetAhdlc"}
  BY DEF Ready
<1>2. /\ SwitchFromConsoleToProtoApi[4].kind = "BlockingWrite"
      /\ SwitchFromConsoleToProtoApi[6].kind = "BlockingWrite"
  BY DEF SwitchFromConsoleToProtoApi, ReadUntil, Write, Statement
<1>3. /\ SwitchFromConsoleToProtoApi[7].kind = "BlockingWrite"
      /\ SwitchFromConsoleToProtoApi[8].kind = "BlockingWrite"
  BY DEF SwitchFromConsoleToProtoApi, ReadUntil, Write, Statement
<1>4. /\ SwitchFromProtoApiToConsole[2].kind = "BlockingWrite"
      /\ SwitchFromProtoApiToConsole[3].kind = "BlockingWrite"
  BY DEF SwitchFromProtoApiToConsole, ReadUntil, Write, Statement
<1>5. CASE routine = "ToProto" /\ pc \in {4, 6, 7, 8}
  <2>1. Program = SwitchFromConsoleToProtoApi
    BY <1>5, Programs
  <2> QED  BY <1>1, <1>2, <1>3, <1>5, <2>1
<1>6. CASE routine = "ToConsole" /\ pc \in {2, 3}
  <2>1. Program = SwitchFromProtoApiToConsole
    BY <1>6, Programs
  <2> QED  BY <1>1, <1>4, <1>6, <2>1
<1> QED  BY <1>5, <1>6

\* The program counter, after a statement that writes nothing.
LEMMA Counted ==
  ASSUME NEW n \in Nat
  PROVE  /\ n + 1 \in {5, 6, 7, 8, 9, 10} => n \in {4, 6, 7, 8} \/ (n = 5 /\ n + 1 = 6)
                                              \/ (n = 9 /\ n + 1 = 10)
         /\ n + 1 \in {3, 4, 5, 6} => n \in {2, 3} \/ n \in {4, 5}
         /\ n + 1 = 3 => n \in {2, 3}
OBVIOUS

\* A statement that reads changes nothing about what is still to be written.
LEMMA Advance ==
  ASSUME TypeOK, Ready("ReadUntil") \/ Ready("ReadLine") \/ Ready("GetAhdlc"),
         pc' = pc + 1, routine' = routine
  PROVE  /\ routine # "none" /\ ToSend = <<>> /\ ToSend' = <<>>
         /\ (routine = "ToProto" /\ pc \in {5, 6, 7, 8, 9, 10})' =>
              routine = "ToProto" /\ pc \in {5, 6, 7, 8, 9, 10} /\ ToType' = ToType
         /\ (routine = "ToConsole" /\ pc \in {3, 4, 5, 6})' =>
              routine = "ToConsole" /\ pc \in {3, 4, 5, 6}
<1>1. /\ routine # "none"
      /\ ~(routine = "ToProto" /\ pc \in {4, 6, 7, 8}) /\ ~(routine = "ToConsole" /\ pc \in {2, 3})
  BY OtherStatements DEF Ready
<1>2. PICK n \in Nat : n = pc
  BY Programs DEF TypeOK
<1>3. pc' = n + 1
  BY <1>2
<1>4. ToSend = <<>> /\ ToSend' = <<>>
  BY <1>1, <1>2, <1>3, Counted DEF ToSend, InFrame
<1>5. ASSUME (routine = "ToProto" /\ pc \in {5, 6, 7, 8, 9, 10})'
      PROVE  routine = "ToProto" /\ pc \in {5, 6, 7, 8, 9, 10} /\ ToType' = ToType
  <2>1. (pc = 5 /\ pc' = 6) \/ (pc = 9 /\ pc' = 10)
    BY <1>1, <1>2, <1>3, <1>5, Counted
  <2>2. routine = "ToProto" /\ pc \in {5, 6, 7, 8, 9, 10}
    BY <1>5, <2>1
  <2>3. ToType' = ToType
    BY <1>5, <2>1, <2>2 DEF ToType
  <2> QED  BY <2>2, <2>3
<1>6. ASSUME (routine = "ToConsole" /\ pc \in {3, 4, 5, 6})'
      PROVE  routine = "ToConsole" /\ pc \in {3, 4, 5, 6}
  <2>1. pc \in {4, 5}
    BY <1>1, <1>2, <1>3, <1>6, Counted
  <2> QED  BY <1>6, <2>1
<1> QED  BY <1>1, <1>4, <1>5, <1>6

\* The device's state and what is to come are the same.
LEMMA Same ==
  ASSUME UNCHANGED deviceVars
  PROVE  /\ ToType' = ToType /\ CommandComes(inbox \o ToType, mode, typed)
              => CommandComes(inbox \o ToType, mode, typed)'
         /\ ToSend' = ToSend /\ RevertComes(inbox \o ToSend, mode, frame)
              => RevertComes(inbox \o ToSend, mode, frame)'
         /\ ToSend' = ToSend /\ torn' = torn /\ FrameInv => FrameInv'
<1>1. inbox' = inbox /\ mode' = mode /\ typed' = typed /\ frame' = frame
  BY DEF deviceVars
<1>2. ToType' = ToType /\ CommandComes(inbox \o ToType, mode, typed)
        => CommandComes(inbox \o ToType, mode, typed)'
  BY <1>1 DEF CommandComes, Ends
<1>3. ToSend' = ToSend /\ RevertComes(inbox \o ToSend, mode, frame)
        => RevertComes(inbox \o ToSend, mode, frame)'
  BY <1>1 DEF RevertComes, Ends
<1>4. ToSend' = ToSend /\ torn' = torn /\ FrameInv => FrameInv'
  BY <1>1 DEF FrameInv, Closed
<1> QED  BY <1>2, <1>3, <1>4

\* A step that is none of the switch's, and the device looks at nothing.
LEMMA QuietStep ==
  ASSUME WrittenInv, UNCHANGED <<deviceVars, routine, pc, result, switched, torn>>
  PROVE  WrittenInv'
<1>1. UNCHANGED deviceVars /\ ToType' = ToType /\ ToSend' = ToSend
  BY DEF ToType, ToSend, InFrame
<1>2. CommandInv'
  BY <1>1, Same DEF WrittenInv, CommandInv, Switched
<1>3. RevertInv'
  BY <1>1, Same DEF WrittenInv, RevertInv, Switched
<1>4. FrameInv'
  BY <1>1, Same DEF WrittenInv
<1> QED  BY <1>2, <1>3, <1>4 DEF WrittenInv

\* The switch executes a statement that reads.
LEMMA AdvanceStep ==
  ASSUME TypeOK, WrittenInv, Ready("ReadUntil") \/ Ready("ReadLine") \/ Ready("GetAhdlc"),
         pc' = pc + 1, UNCHANGED <<deviceVars, routine, result, switched, torn>>
  PROVE  WrittenInv'
<1>1. /\ routine # "none" /\ ToSend = <<>> /\ ToSend' = <<>>
      /\ (routine = "ToProto" /\ pc \in {5, 6, 7, 8, 9, 10})' =>
           routine = "ToProto" /\ pc \in {5, 6, 7, 8, 9, 10} /\ ToType' = ToType
      /\ (routine = "ToConsole" /\ pc \in {3, 4, 5, 6})' =>
           routine = "ToConsole" /\ pc \in {3, 4, 5, 6}
  BY Advance
<1>2. ~Switched("ToProto")' /\ ~Switched("ToConsole")'
  BY <1>1 DEF Switched
<1>3. CommandInv'
  BY <1>1, <1>2, Same DEF WrittenInv, CommandInv
<1>4. RevertInv'
  BY <1>1, <1>2, Same DEF WrittenInv, RevertInv
<1>5. FrameInv'
  BY <1>1, Same DEF WrittenInv
<1> QED  BY <1>3, <1>4, <1>5 DEF WrittenInv

\* A switch begins, or ends outside a frame.
LEMMA TurnStep ==
  ASSUME WrittenInv, UNCHANGED deviceVars, pc' = 1, result' # "true",
         torn' = torn, ToSend = <<>>
  PROVE  WrittenInv'
<1>1. ~(pc' \in {5, 6, 7, 8, 9, 10}) /\ ~(pc' \in {3, 4, 5, 6}) /\ pc' # 3
  OBVIOUS
<1>2. CommandInv' /\ RevertInv'
  BY <1>1 DEF CommandInv, RevertInv, Switched
<1>3. ToSend' = ToSend
  BY <1>1 DEF ToSend, InFrame
<1>4. FrameInv'
  BY <1>3, Same DEF WrittenInv
<1> QED  BY <1>2, <1>4 DEF WrittenInv

\* The process is killed: inside a frame, which is torn then, or outside.
LEMMA KillStep ==
  ASSUME TypeOK, WrittenInv, Kill
  PROVE  WrittenInv'
<1>1. UNCHANGED deviceVars /\ pc' = 1 /\ result' # "true" /\ torn' = (torn \/ InFrame)
  BY DEF Kill, Leave
<1>2. CASE InFrame
  <2>1. torn'
    BY <1>1, <1>2
  <2>2. ~(pc' \in {5, 6, 7, 8, 9, 10}) /\ ~(pc' \in {3, 4, 5, 6})
    BY <1>1
  <2>3. CommandInv' /\ RevertInv'
    BY <1>1, <2>2 DEF CommandInv, RevertInv, Switched
  <2> QED  BY <2>1, <2>3 DEF WrittenInv, FrameInv
<1>3. CASE ~InFrame
  <2>1. torn' = torn
    BY <1>1, <1>3, Zenon DEF TypeOK
  <2>2. ToSend = <<>>
    BY <1>3 DEF ToSend
  <2> QED  BY <1>1, <2>1, <2>2, TurnStep
<1> QED  BY <1>2, <1>3

\* A switch writes a token.
LEMMA WriteStep ==
  ASSUME TypeOK, WrittenInv, DoBlockingWrite
  PROVE  WrittenInv'
<1>1. /\ Ready("BlockingWrite") /\ inbox' = inbox \o Program[pc].data /\ pc' = pc + 1
      /\ UNCHANGED <<routine, result, switched, mode, typed, frame, torn>> /\ routine # "none"
      /\ inbox \in Seq(Tokens)
  BY DEF DoBlockingWrite, Ready, TypeOK
<1>2. ~Switched("ToProto")' /\ ~Switched("ToConsole")'
  BY <1>1 DEF Switched
<1>3. ASSUME NEW t \in Tokens \ {"revert"}, inbox' = inbox \o <<t>>, ToSend = <<>>, ToSend' = <<>>
      PROVE  FrameInv'
  <2>1. PICK s \in Seq(Tokens) : s = inbox
    BY <1>1
  <2>2. inbox \o ToSend = s /\ (inbox \o ToSend)' = s \o <<t>>
    <3>1. s \o <<t>> \in Seq(Tokens)
      BY <2>1
    <3>2. PICK r \in Seq(Tokens) : r = s \o <<t>>
      BY <3>1
    <3>3. s \o <<>> = s /\ r \o <<>> = r
      OBVIOUS
    <3> QED  BY <1>3, <2>1, <3>2, <3>3
  <2>3. Closed(s) => Closed(s \o <<t>>)
    BY <1>3, ClosedWrite
  <2>4. s # <<>> => s \o <<t>> # <<>> /\ Head(s \o <<t>>) = Head(s)
    BY <2>1
  <2>5. PICK r : r = s \o <<t>>
    OBVIOUS
  <2>6. Closed(inbox \o ToSend)' <=> Closed(r)
    BY <2>2, <2>5 DEF Closed
  <2>7. ~torn => /\ frame \in {"none", "half"}
                 /\ frame = "half" => mode = "proto" /\ s # <<>> /\ Head(s) = "flag"
                 /\ Closed(s)
    BY <2>2 DEF WrittenInv, FrameInv
  <2> QED  BY <1>1, <2>2, <2>3, <2>4, <2>5, <2>6, <2>7 DEF FrameInv
<1>4. "v" \in Tokens /\ "nl" \in Tokens /\ "protoapi" \in Tokens /\ "uart" \in Tokens
  BY DEF Tokens
<1>5. ASSUME NEW w, CommandComes(w, mode, typed), (inbox \o ToType)' = w
      PROVE  CommandInv'
  BY <1>1, <1>5 DEF CommandInv, CommandComes, Ends
<1>6. ASSUME NEW w, (inbox \o ToSend)' = w, ~torn => RevertComes(w, mode, frame)
      PROVE  RevertInv'
  BY <1>1, <1>6 DEF RevertInv, RevertComes, Ends
<1>7. ASSUME NEW t \in Tokens \ {"revert"}, routine = "ToProto", inbox' = inbox \o <<t>>, CommandInv'
      PROVE  WrittenInv'
  <2>1. routine' = "ToProto" /\ ToSend = <<>> /\ ToSend' = <<>>
    BY <1>1, <1>7 DEF ToSend, InFrame
  <2>2. RevertInv'
    BY <1>2, <2>1 DEF RevertInv
  <2>3. FrameInv'
    BY <1>3, <1>7, <2>1
  <2> QED  BY <1>7, <2>2, <2>3 DEF WrittenInv
<1>8. CASE routine = "ToProto" /\ pc = 2 /\ Program[pc].data = <<"v">>
  <2>1. pc' = 3 /\ inbox' = inbox \o <<"v">>
    BY <1>1, <1>8
  <2>2. CommandInv'
    BY <1>2, <2>1 DEF CommandInv
  <2> QED  BY <1>4, <1>7, <1>8, <2>1, <2>2
<1>9. CASE routine = "ToProto" /\ pc = 4 /\ Program[pc].data = <<"nl">>
  <2>1. pc' = 5 /\ inbox' = inbox \o <<"nl">> /\ routine' = "ToProto"
    BY <1>1, <1>9
  <2>2. ToType' = <<"protoapi", "uart", "nl">>
    BY <2>1 DEF ToType
  <2>3. (inbox \o ToType)' = inbox \o <<"nl", "protoapi", "uart", "nl">>
    BY <1>1, <2>1, <2>2, Moves
  <2>4. CommandComes(inbox \o <<"nl", "protoapi", "uart", "nl">>, mode, typed)
    BY <1>1 DEF CommandComes, Ends
  <2>5. CommandInv'
    BY <1>5, <2>3, <2>4
  <2> QED  BY <1>4, <1>7, <1>9, <2>1, <2>5
<1>10. CASE routine = "ToProto" /\ pc = 6 /\ Program[pc].data = <<"protoapi">>
  <2>1. pc' = 7 /\ inbox' = inbox \o <<"protoapi">> /\ routine' = "ToProto"
    BY <1>1, <1>10
  <2>2. ToType = <<"protoapi", "uart", "nl">> /\ ToType' = <<"uart", "nl">>
    BY <1>10, <2>1 DEF ToType
  <2>3. (inbox \o ToType)' = inbox \o ToType
    BY <1>1, <2>1, <2>2, Moves
  <2>4. CommandInv'
    BY <1>5, <1>10, <2>3 DEF WrittenInv, CommandInv
  <2> QED  BY <1>4, <1>7, <1>10, <2>1, <2>4
<1>11. CASE routine = "ToProto" /\ pc = 7 /\ Program[pc].data = <<"uart">>
  <2>1. pc' = 8 /\ inbox' = inbox \o <<"uart">> /\ routine' = "ToProto"
    BY <1>1, <1>11
  <2>2. ToType = <<"uart", "nl">> /\ ToType' = <<"nl">>
    BY <1>11, <2>1 DEF ToType
  <2>3. (inbox \o ToType)' = inbox \o ToType
    BY <1>1, <2>1, <2>2, Moves
  <2>4. CommandInv'
    BY <1>5, <1>11, <2>3 DEF WrittenInv, CommandInv
  <2> QED  BY <1>4, <1>7, <1>11, <2>1, <2>4
<1>12. CASE routine = "ToProto" /\ pc = 8 /\ Program[pc].data = <<"nl">>
  <2>1. pc' = 9 /\ inbox' = inbox \o <<"nl">> /\ routine' = "ToProto"
    BY <1>1, <1>12
  <2>2. ToType = <<"nl">> /\ ToType' = <<>>
    BY <1>12, <2>1 DEF ToType
  <2>3. (inbox \o ToType)' = inbox \o ToType
    <3>1. PICK r \in Seq(Tokens) : r = inbox'
      BY <1>1, <1>4, <2>1, TokenSeqs, Follows
    <3>2. r \o <<>> = r
      OBVIOUS
    <3> QED  BY <2>1, <2>2, <3>1, <3>2
  <2>4. CommandInv'
    BY <1>5, <1>12, <2>3 DEF WrittenInv, CommandInv
  <2> QED  BY <1>4, <1>7, <1>12, <2>1, <2>4
<1>13. CASE routine = "ToConsole" /\ pc = 2 /\ Program[pc].data = <<"revert">>
  <2>1. pc' = 3 /\ inbox' = inbox \o <<"revert">> /\ routine' = "ToConsole"
    BY <1>1, <1>13
  <2>2. CommandInv'
    BY <1>2, <2>1 DEF CommandInv
  <2>3. ToSend = <<>> /\ ToSend' = <<"flag">>
    BY <1>13, <2>1 DEF ToSend, InFrame
  <2>4. (inbox \o ToSend)' = inbox \o <<"revert", "flag">>
    BY <1>1, <2>1, <2>3, Moves
  <2>5. RevertComes(inbox \o <<"revert", "flag">>, mode, frame)
    BY <1>1 DEF RevertComes, Ends
  <2>6. RevertInv'
    BY <1>6, <2>4, <2>5
  <2>7. FrameInv'
    <3>1. PICK s \in Seq(Tokens) : s = inbox
      BY <1>1
    <3>2. inbox \o ToSend = s
      BY <2>3, <3>1
    <3>3. Closed(s) => Closed(s \o <<"revert", "flag">>)
      BY ClosedWrite
    <3>4. s # <<>> => s \o <<"revert", "flag">> # <<>> /\ Head(s \o <<"revert", "flag">>) = Head(s)
      BY TokenSeqs, Follows
    <3>5. PICK r : r = s \o <<"revert", "flag">>
      OBVIOUS
    <3>6. (inbox \o ToSend)' = r
      BY <2>4, <3>1, <3>5
    <3>7. Closed(inbox \o ToSend)' <=> Closed(r)
      BY <3>6 DEF Closed
    <3>8. ~torn => /\ frame \in {"none", "half"}
                   /\ frame = "half" => mode = "proto" /\ s # <<>> /\ Head(s) = "flag"
                   /\ Closed(s)
      BY <3>2 DEF WrittenInv, FrameInv
    <3> QED  BY <1>1, <3>3, <3>4, <3>5, <3>6, <3>7, <3>8 DEF FrameInv
  <2> QED  BY <2>2, <2>6, <2>7 DEF WrittenInv
<1>14. CASE routine = "ToConsole" /\ pc = 3 /\ Program[pc].data = <<"flag">>
  <2>1. pc' = 4 /\ inbox' = inbox \o <<"flag">> /\ routine' = "ToConsole"
    BY <1>1, <1>14
  <2>2. CommandInv'
    BY <1>2, <2>1 DEF CommandInv
  <2>3. ToSend = <<"flag">> /\ ToSend' = <<>>
    BY <1>14, <2>1 DEF ToSend, InFrame
  <2>4. (inbox \o ToSend)' = inbox \o ToSend
    <3>1. PICK r \in Seq(Tokens) : r = inbox'
      BY <1>1, <2>1, TokenSeqs, Follows
    <3>2. r \o <<>> = r
      OBVIOUS
    <3> QED  BY <2>1, <2>3, <3>1, <3>2
  <2>5. ~torn => RevertComes(inbox \o ToSend, mode, frame)
    BY <1>14 DEF WrittenInv, RevertInv
  <2>6. RevertInv'
    BY <1>6, <2>4, <2>5
  <2>7. FrameInv'
    BY <1>1, <2>4 DEF WrittenInv, FrameInv, Closed
  <2> QED  BY <2>2, <2>6, <2>7 DEF WrittenInv
<1> QED  BY <1>1, <1>8, <1>9, <1>10, <1>11, <1>12, <1>13, <1>14, Writes

\* The device looks at what was written.
LEMMA ReadStep ==
  ASSUME TypeOK, WrittenInv, DeviceReads
  PROVE  WrittenInv'
<1>1. UNCHANGED <<routine, pc, result, switched, torn>>
  BY DEF DeviceReads
<1>2. CommandInv'
  BY <1>1, CommandReads DEF WrittenInv, CommandInv, Switched
<1>3. RevertInv'
  BY <1>1, RevertReads DEF WrittenInv, RevertInv, Switched
<1>4. FrameInv'
  BY FrameReads DEF WrittenInv
<1> QED  BY <1>2, <1>3, <1>4 DEF WrittenInv

\* A switch returns true.
LEMMA FinishStep ==
  ASSUME TypeOK, WrittenInv, Finish
  PROVE  WrittenInv'
<1>1. /\ UNCHANGED deviceVars /\ torn' = torn /\ pc' = 1
      /\ routine' = "none" /\ result' = "true" /\ switched' = routine
  BY DEF Finish, Leave
<1>2. ToType' = <<>> /\ ToSend' = <<>>
  BY <1>1 DEF ToType, ToSend, InFrame
<1>3. CASE routine = "ToProto" /\ pc = 10
  <2>1. ToType = <<>> /\ ToSend = <<>>
    BY <1>3 DEF ToType, ToSend, InFrame
  <2>2. CommandInv'
    BY <1>1, <1>2, <1>3, <2>1, Same DEF WrittenInv, CommandInv
  <2>3. RevertInv'
    BY <1>1, <1>3 DEF RevertInv, Switched
  <2>4. FrameInv'
    BY <1>1, <1>2, <2>1, Same DEF WrittenInv
  <2> QED  BY <2>2, <2>3, <2>4 DEF WrittenInv
<1>4. CASE routine = "ToConsole" /\ pc = 6
  <2>1. ToSend = <<>>
    BY <1>4 DEF ToSend, InFrame
  <2>2. CommandInv'
    BY <1>1, <1>4 DEF CommandInv, Switched
  <2>3. RevertInv'
    BY <1>1, <1>2, <1>4, <2>1, Same DEF WrittenInv, RevertInv
  <2>4. FrameInv'
    BY <1>1, <1>2, <2>1, Same DEF WrittenInv
  <2> QED  BY <2>2, <2>3, <2>4 DEF WrittenInv
<1> QED  BY <1>3, <1>4, Finishes

\* Every action keeps what is known about the text on its way.
LEMMA WrittenStep ==
  ASSUME TypeOK, WrittenInv, [Next]_vars
  PROVE  WrittenInv'
<1>1. CASE SetUpTestCase \/ TearDownTestCase
  <2>1. ToSend = <<>>
    BY <1>1 DEF SetUpTestCase, TearDownTestCase, Enter, ToSend, InFrame
  <2> QED  BY <1>1, <2>1, TurnStep DEF SetUpTestCase, TearDownTestCase, Enter
<1>2. CASE DoReadUntil
  BY <1>2, AdvanceStep DEF DoReadUntil
<1>3. CASE ReadLineByte
  BY <1>3, QuietStep DEF ReadLineByte
<1>4. CASE ReadLineBlocks
  <2>1. CASE pc' = pc
    BY <1>4, <2>1, QuietStep DEF ReadLineBlocks
  <2>2. CASE pc' = pc + 1
    BY <1>4, <2>2, AdvanceStep DEF ReadLineBlocks
  <2> QED  BY <1>4, <2>1, <2>2 DEF ReadLineBlocks
<1>5. CASE GetNotice
  BY <1>5, AdvanceStep DEF GetNotice
<1>6. CASE GetTimesOut
  <2>1. ToSend = <<>>
    BY <1>6, OtherStatements DEF GetTimesOut, ToSend, InFrame
  <2> QED  BY <1>6, <2>1, TurnStep DEF GetTimesOut, Leave
<1>7. CASE DevicePrints
  BY <1>7, QuietStep DEF DevicePrints
<1>8. CASE UNCHANGED vars
  BY <1>8, QuietStep DEF vars
<1> QED
  BY <1>1, <1>2, <1>3, <1>4, <1>5, <1>6, <1>7, <1>8, WriteStep, ReadStep, FinishStep, KillStep
     DEF Next, Host

----------------------------------------------------------------------------

\* What was written last decides where the device will be, of every reachable
\* state.
THEOREM Invariance == Spec => []IInv
<1>1. Init => IInv
  <2> SUFFICES ASSUME Init PROVE IInv
    OBVIOUS
  <2>1. MaxKills \in Nat /\ MaxPrints \in Nat /\ MaxRuns \in Nat
    BY ConsoleAssumption
  <2>2. 0 \in 0 .. MaxKills /\ 0 \in 0 .. MaxPrints /\ 0 \in 0 .. MaxRuns
    BY <2>1
  <2>3. pc \in 1 .. Len(Program) + 1
    BY Programs DEF Init
  <2>4. typed \in Seq(Tokens \ {"nl"})
    <3>1. typed = <<>> \/ typed = <<"v">>
      BY DEF Init
    <3>2. PICK t \in Tokens \ {"nl"} : t = "v"
      BY DEF Tokens
    <3>3. <<>> \in Seq(Tokens \ {"nl"}) /\ <<t>> \in Seq(Tokens \ {"nl"})
      OBVIOUS
    <3> QED  BY <3>1, <3>2, <3>3
  <2>5. line \in Seq(Printed \ {"\n"}) /\ rx \in Seq(Printed) /\ inbox \in Seq(Tokens)
    <3>1. line = <<>> /\ rx = <<>> /\ inbox = <<>>
      BY DEF Init
    <3>2. ASSUME NEW S PROVE <<>> \in Seq(S)
      OBVIOUS
    <3> QED  BY <3>1, <3>2, Zenon
  <2>6. /\ loud \in BOOLEAN /\ torn \in BOOLEAN /\ mode \in {"console", "proto"}
        /\ frame \in {"none", "half", "broken"}
    BY DEF Init
  <2>7. routine = "none" /\ result = "none" /\ switched = "none"
    BY DEF Init
  <2>8. kills \in 0 .. MaxKills /\ prints \in 0 .. MaxPrints /\ runs \in 0 .. MaxRuns
    BY <2>2 DEF Init
  <2>9. TypeOK
    BY <2>3, <2>4, <2>5, <2>6, <2>7, <2>8 DEF TypeOK
  <2>10. WrittenInv
    <3>1. CommandInv /\ RevertInv
      BY <2>7 DEF CommandInv, RevertInv, Switched
    <3>2. inbox \o ToSend = <<>> /\ frame = "none"
      <4>1. inbox = <<>> /\ ToSend = <<>> /\ frame = "none"
        BY DEF Init, ToSend, InFrame
      <4> QED  BY <4>1
    <3>3. Closed(inbox \o ToSend)
      BY <3>2 DEF Closed
    <3> QED  BY <3>1, <3>2, <3>3 DEF WrittenInv, FrameInv
  <2> QED  BY <2>9, <2>10 DEF IInv
<1>2. IInv /\ [Next]_vars => IInv'
  BY TypeStep, WrittenStep DEF IInv
<1> QED  BY <1>1, <1>2, PTL DEF Spec

\* Every variable keeps its type, and the unfinished line has no newline.
THEOREM TypeCorrect == Spec => []TypeOK
<1>1. IInv => TypeOK
  BY DEF IInv
<1> QED  BY <1>1, Invariance, PTL

\* A switch to the protobuf protocol that returned true takes the device there
\* as soon as the device has looked at what was written, however many processes
\* were killed, inside a write or not, and whatever the device printed in the
\* meantime; a switch back to the console too, unless a process was killed
\* inside its own request.
THEOREM SwitchTakesEffectHolds == Spec => []SwitchTakesEffect
<1>1. ASSUME IInv PROVE SwitchTakesEffect
  <2> SUFFICES ASSUME routine = "none", result = "true", inbox = <<>>
               PROVE  /\ switched = "ToProto" => mode = "proto"
                      /\ switched = "ToConsole" /\ ~torn => mode = "console"
    BY DEF SwitchTakesEffect
  <2>1. inbox \o ToType = <<>> /\ inbox \o ToSend = <<>>
    <3>1. ToType = <<>> /\ ToSend = <<>>
      BY DEF ToType, ToSend, InFrame
    <3> QED  BY <3>1
  <2>2. /\ switched = "ToProto" => CommandComes(<<>>, mode, typed)
        /\ switched = "ToConsole" /\ ~torn => RevertComes(<<>>, mode, frame)
    BY <1>1, <2>1 DEF IInv, WrittenInv, CommandInv, RevertInv, Switched
  <2>3. ASSUME NEW w \in Seq(Tokens), w # <<>> PROVE ~Ends(<<>>, w)
    BY <2>3 DEF Ends
  <2>4. CommandComes(<<>>, mode, typed) => mode = "proto"
    <3>1. ~Ends(<<>>, <<"nl", "protoapi", "uart", "nl">>)
      BY <2>3, TokenSeqs
    <3> QED  BY <3>1 DEF CommandComes
  <2>5. RevertComes(<<>>, mode, frame) => mode = "console"
    <3>1. ~Ends(<<>>, <<"revert", "flag">>)
      BY <2>3, TokenSeqs
    <3> QED  BY <3>1 DEF RevertComes
  <2> QED  BY <2>2, <2>4, <2>5
<1>2. IInv => SwitchTakesEffect
  BY <1>1
<1> QED  BY <1>2, Invariance, PTL
=============================================================================
