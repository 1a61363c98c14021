--------------------------- MODULE AhdlcTransport ---------------------------
(***************************************************************************)
(* The AHDLC transport of TestHarness (src/src/util.cc): SendAhdlc writes  *)
(* a request frame to the UART, GetAhdlc reads bytes from the UART into    *)
(* the frame decoder until it has a frame, an error, or a silence longer   *)
(* than its timeout.  Around it: the device, which answers request i with  *)
(* reply i some time after the whole request arrived; the wire, which may  *)
(* lose or damage bytes of a reply; and the thread --util_print_uart       *)
(* starts, which reads the same tty.                                       *)
(*                                                                         *)
(* A byte is <<f, p>>: byte p of frame f.  A frame is                      *)
(*   flag, address, control, type (2), data (DataLen[f]), CRC (2), flag.   *)
(* Byte stuffing is abstracted: a data byte is one byte of the stream.     *)
(***************************************************************************)
EXTENDS Integers, Sequences, SequencesExt, FiniteSetsExt

CONSTANTS
    DataLen,               \* DataLen[i]: payload bytes of the reply to request i
    RequestLen,            \* RequestLen[i]: bytes of request i's encoded frame
    ENCODER_MAX_LEN,       \* encoder.buffer_len: no longer frame can be encoded
    PROTO_BUFFER_MAX_LEN,  \* the limit GetAhdlc puts on an unfinished frame
    Timeout,               \* GetAhdlc's timeout in ticks; negative means none
    MaxFaults,             \* bytes the wire may lose or damage
    MaxCalls,              \* calls of GetAhdlc a client makes
    MaxPrinted             \* bytes the print thread takes; 0: no --util_print_uart

Requests == DOMAIN DataLen

ASSUME TransportAssumption ==
    /\ DataLen \in Seq(Nat)
    /\ RequestLen \in [Requests -> Nat \ {0}]
    /\ ENCODER_MAX_LEN \in Nat
    /\ PROTO_BUFFER_MAX_LEN \in Nat \ {0}
    /\ Timeout \in Int
    /\ MaxFaults \in Nat
    /\ MaxCalls \in Nat
    /\ MaxPrinted \in Nat

VARIABLES
    pc,       \* what the client's thread is executing
    req,      \* requests handed to SendAhdlc so far
    encoder,  \* ahdlc_frame_encoder_t: the bytes of its frame buffer
    loc,      \* BlockingWrite: bytes of the frame buffer already written
    tx,       \* bytes the device received from the tty
    answered, \* the byte of its replies the device transmitted last
    rx,       \* bytes in the tty's input queue
    faults,   \* bytes the wire lost or damaged
    printed,  \* bytes the print thread read
    decoder,  \* ahdlc_frame_decoder_t
    call,     \* the running, or the last, call of GetAhdlc
    log,      \* what the calls of GetAhdlc returned, in order
    seen      \* the replies among them that came since the last SendAhdlc

vars == <<pc, req, encoder, loc, tx, answered, rx, faults, printed, decoder, call, log, seen>>

-----------------------------------------------------------------------------
(* Frames and bytes. *)

FrameLen(f) == DataLen[f] + 8

Frame(f) == [p \in 1..FrameLen(f) |-> <<f, p>>]

\* What a damaged byte is read as: some data byte, or a flag.
Noise == <<0, 0>>
NoiseFlag == <<0, 1>>

ReplyBytes == UNION {{f} \X (1..FrameLen(f)) : f \in Requests}

Bytes == ReplyBytes \cup {Noise, NoiseFlag}

IsFlag(b) ==
    \/ b = NoiseFlag
    \/ b[1] \in Requests /\ b[2] \in {1, FrameLen(b[1])}

RequestFrame(r) == [p \in 1..RequestLen[r] |-> <<r, p>>]

Encodable(r) == RequestLen[r] <= ENCODER_MAX_LEN

-----------------------------------------------------------------------------
(* The frame decoder (the AHDLC library).  body is what followed the       *)
(* opening flag; serial numbers the frames opened so far.                  *)

DecoderStates == {"hunt", "frame", "good", "bad"}

AhdlcDecoderInit(d) == [d EXCEPT !.state = "hunt", !.body = <<>>]

\* The CRC is right for exactly the bytes one frame was sent with.
CrcOf(body) ==
    IF \E f \in Requests : body = SubSeq(Frame(f), 2, FrameLen(f) - 1)
    THEN "good" ELSE "bad"

Opened(d) == [d EXCEPT !.state = "frame", !.body = <<>>, !.serial = @ + 1]

DecodeFrameByte(d, b) ==
    CASE IsFlag(b) /\ d.state # "frame" -> Opened(d)
      [] IsFlag(b) /\ d.state = "frame" /\ d.body = <<>> -> d
      [] IsFlag(b) /\ d.state = "frame" /\ d.body # <<>> ->
            [d EXCEPT !.state = CrcOf(d.body)]
      [] ~IsFlag(b) /\ d.state = "frame" -> [d EXCEPT !.body = Append(@, b)]
      [] OTHER -> AhdlcDecoderInit(d)

\* Address and control are not stored, the CRC is dropped at the closing flag.
BufferIndex(d) ==
    LET overhead == IF d.state = "frame" THEN 2 ELSE 4
    IN  IF Len(d.body) > overhead THEN Len(d.body) - overhead ELSE 0

-----------------------------------------------------------------------------
(* What GetAhdlc makes of the decoder after it was fed byte number count.  *)

NoResult == [code |-> "none", frame |-> 0]
Result(code, f) == [code |-> code, frame |-> f]

\* The frame a complete body comes from, 0 when its CRC is bad.
Origin(d) == IF d.state = "good" THEN d.body[1][1] ELSE 0

FrameResult(d) ==
    CASE d.state \in {"good", "bad"} /\ BufferIndex(d) < 2 ->
            Result("TRANSPORT_ERROR", 0)
      [] d.state \in {"good", "bad"} /\ BufferIndex(d) >= 2 ->
            Result("NO_ERROR", Origin(d))
      [] d.state \in {"hunt", "frame"} /\ BufferIndex(d) >= PROTO_BUFFER_MAX_LEN ->
            Result("OVERFLOW_ERROR", 0)
      [] OTHER -> NoResult

\* Mutant: a frame of the least length is one byte too short to be looked at.
AfterByteOffByOne(d, count) == IF count > 8 THEN FrameResult(d) ELSE NoResult

\* The decoder is looked at from the eighth byte of a call on.
AfterByte(d, count) == IF count > 7 THEN FrameResult(d) ELSE NoResult

\* Mutant: the overflowing frame stays in the decoder.
DecoderNotReset(d, r) == d

DecoderAfter(d, r) ==
    IF r.code = "OVERFLOW_ERROR" THEN AhdlcDecoderInit(d) ELSE d

-----------------------------------------------------------------------------

Init ==
    /\ pc = "idle"
    /\ req = 0
    /\ encoder = <<>>
    /\ loc = 0
    /\ tx = <<>>
    /\ answered = <<0, 0>>
    /\ rx = <<>>
    /\ faults = 0
    /\ printed = 0
    /\ decoder = [state |-> "hunt", body |-> <<>>, serial |-> 0]
    /\ call = [count |-> 0, waited |-> 0, entered |-> "hunt"]
    /\ log = <<>>
    /\ seen = <<>>

(* SendAhdlc: encode the frame from the start of the buffer, then write   *)
(* it.  A frame the encoder has no room for is refused (TRANSPORT_ERROR)   *)
(* when the buffer is full, before a byte is written.                      *)
EncodeFrame(r) ==
    encoder' = SubSeq(RequestFrame(r), 1, Min({RequestLen[r], ENCODER_MAX_LEN}))

SendAhdlc ==
    /\ pc = "idle"
    /\ req < Len(DataLen)
    /\ req' = req + 1
    /\ EncodeFrame(req + 1)
    /\ IF Encodable(req + 1) THEN pc' = "write" /\ loc' = 0
                             ELSE pc' = pc /\ loc' = 0
    /\ seen' = <<>>
    /\ UNCHANGED <<tx, answered, rx, faults, printed, decoder, call, log>>

\* Mutant: loc = return_value instead of loc += return_value.
WrittenRestarted(n) ==
    /\ tx' = tx \o SubSeq(encoder, loc + 1, loc + n)
    /\ loc' = n

\* Mutant: one byte more is counted than was written.
WrittenOneMore(n) ==
    /\ tx' = tx \o SubSeq(encoder, loc + 1, loc + n)
    /\ loc' = loc + n + 1

(* BlockingWrite: write() takes some of the remaining bytes, none when it  *)
(* would block.                                                            *)
Written(n) ==
    /\ tx' = tx \o SubSeq(encoder, loc + 1, loc + n)
    /\ loc' = loc + n

BlockingWrite ==
    /\ pc = "write"
    /\ loc < Len(encoder)
    /\ \E n \in 0..(Len(encoder) - loc) : Written(n)
    /\ UNCHANGED <<pc, req, encoder, answered, rx, faults, printed, decoder, call, log, seen>>

BlockingWriteDone ==
    /\ pc = "write"
    /\ loc = Len(encoder)
    /\ pc' = "idle"
    /\ UNCHANGED <<req, encoder, loc, tx, answered, rx, faults, printed, decoder, call, log, seen>>

(* write() fails with something else than EAGAIN: FatalError exits. *)
BlockingWriteFatal ==
    /\ pc = "write"
    /\ loc < Len(encoder)
    /\ pc' = "exited"
    /\ UNCHANGED <<req, encoder, loc, tx, answered, rx, faults, printed, decoder, call, log, seen>>

-----------------------------------------------------------------------------

(* A client calls GetAhdlc; the decoder keeps what an earlier call left.   *)
GetAhdlc ==
    /\ pc = "idle"
    /\ Len(log) < MaxCalls
    /\ pc' = "read"
    /\ call' = [count |-> 0, waited |-> 0, entered |-> decoder.state]
    /\ UNCHANGED <<req, encoder, loc, tx, answered, rx, faults, printed, decoder, log, seen>>

\* A frame with a bad CRC is no reply to any request.
IsReply(r) == r.code = "NO_ERROR" /\ r.frame # 0

\* serial tells which frame the decoder was working on.
Return(r, d) ==
    /\ pc' = "idle"
    /\ log' = Append(log, [code |-> r.code, frame |-> r.frame, serial |-> d.serial])
    /\ seen' = IF IsReply(r) THEN Append(seen, r.frame) ELSE seen

(* One turn of the outer loop: read() yields a byte, which is decoded; the *)
(* wait for the next one starts from zero.                                 *)
ReadByte ==
    /\ pc = "read"
    /\ rx # <<>>
    /\ LET d == DecodeFrameByte(decoder, Head(rx))
           r == AfterByte(d, call.count + 1)
       IN  /\ decoder' = DecoderAfter(d, r)
           /\ IF r = NoResult THEN UNCHANGED <<pc, log, seen>> ELSE Return(r, d)
    /\ rx' = Tail(rx)
    /\ call' = [call EXCEPT !.count = @ + 1, !.waited = 0]
    /\ UNCHANGED <<req, encoder, loc, tx, answered, faults, printed>>

TimedOut == Timeout >= 0 /\ call.waited > Timeout

\* Mutant: start is taken again at every poll.
WaitRestarted == call' = [call EXCEPT !.waited = 0]

WaitedLonger == call' = [call EXCEPT !.waited = @ + 1]

(* The inner loop: read() had nothing and the timeout is not over. *)
ReadNothing ==
    /\ pc = "read"
    /\ rx = <<>>
    /\ ~TimedOut
    /\ Timeout >= 0
    /\ WaitedLonger
    /\ UNCHANGED <<pc, req, encoder, loc, tx, answered, rx, faults, printed, decoder, log, seen>>

\* Mutant: a call that times out hands out a frame the decoder still holds.
LastFrameOnTimeout ==
    IF decoder.state = "good" THEN Result("NO_ERROR", Origin(decoder))
                              ELSE Result("TIMEOUT", 0)

TimeoutResult == Result("TIMEOUT", 0)

ReadTimeout ==
    /\ pc = "read"
    /\ rx = <<>>
    /\ TimedOut
    /\ Return(TimeoutResult, decoder)
    /\ UNCHANGED <<req, encoder, loc, tx, answered, rx, faults, printed, decoder, call>>

-----------------------------------------------------------------------------

(* The device answers the requests that arrived in full, in their order. *)
Arrived(r) == Last(RequestFrame(r)) \in Range(tx)

Answering == answered[1] # 0 /\ answered[2] < FrameLen(answered[1])

NextByte(b) ==
    IF Answering
    THEN b = <<answered[1], answered[2] + 1>>
    ELSE /\ b[2] = 1
         /\ b[1] > answered[1] /\ Arrived(b[1])
         /\ \A r \in Requests : answered[1] < r /\ r < b[1] => ~Arrived(r)

DeviceTransmit ==
    /\ \E b \in ReplyBytes :
          /\ NextByte(b)
          /\ answered' = b
          /\ rx' = Append(rx, b)
    /\ UNCHANGED <<pc, req, encoder, loc, tx, faults, printed, decoder, call, log, seen>>

(* The wire loses the byte, or it arrives as another one. *)
WireFault ==
    /\ faults < MaxFaults
    /\ faults' = faults + 1
    /\ \E b \in ReplyBytes : NextByte(b) /\ answered' = b
    /\ rx' \in {rx, Append(rx, Noise), Append(rx, NoiseFlag)}
    /\ UNCHANGED <<pc, req, encoder, loc, tx, printed, decoder, call, log, seen>>

(* PrintUntilClosed, in its own thread, reads a byte of the same tty. *)
PrintUntilClosed ==
    /\ printed < MaxPrinted
    /\ rx # <<>>
    /\ rx' = Tail(rx)
    /\ printed' = printed + 1
    /\ UNCHANGED <<pc, req, encoder, loc, tx, answered, faults, decoder, call, log, seen>>

Next ==
    \/ SendAhdlc \/ BlockingWrite \/ BlockingWriteDone \/ BlockingWriteFatal
    \/ GetAhdlc \/ ReadByte \/ ReadNothing \/ ReadTimeout
    \/ DeviceTransmit \/ WireFault \/ PrintUntilClosed

Spec == Init /\ [][Next]_vars

(* The client's thread keeps running, and the UART takes bytes. *)
WriteSome == BlockingWrite /\ loc' > loc

Fairness ==
    /\ WF_vars(WriteSome)
    /\ WF_vars(BlockingWriteDone)
    /\ WF_vars(ReadByte \/ ReadNothing \/ ReadTimeout)

FairSpec == Spec /\ Fairness

-----------------------------------------------------------------------------
(* Properties *)

Codes == {"NO_ERROR", "TIMEOUT", "TRANSPORT_ERROR", "OVERFLOW_ERROR"}

\* The type of every variable of the transport.
TypeOK ==
    /\ pc \in {"idle", "write", "read", "exited"}
    /\ req \in 0..Len(DataLen)
    /\ encoder \in Seq(Nat \X Nat)
    /\ loc \in 0..Len(encoder)
    /\ tx \in Seq(Nat \X Nat)
    /\ answered \in ReplyBytes \cup {<<0, 0>>}
    /\ rx \in Seq(Bytes)
    /\ faults \in 0..MaxFaults
    /\ printed \in 0..MaxPrinted
    /\ decoder \in [state : DecoderStates, body : Seq(Bytes), serial : Nat]
    /\ call \in [count : Nat, waited : Nat, entered : DecoderStates]
    /\ log \in Seq([code : Codes, frame : Requests \cup {0}, serial : Nat])
    /\ seen \in Seq(Requests)

\* Replies with a good CRC come out of GetAhdlc in the order of the requests,
\* none of them twice, and none for a request that was not written in full:
\* neither a reply that arrives after its call timed out, nor the bytes an
\* earlier call left in the decoder, are handed out a second time.
InOrderOnce ==
    /\ \A i, j \in 1..Len(log) :
          i < j /\ IsReply(log[i]) /\ IsReply(log[j]) => log[i].frame < log[j].frame
    /\ \A i \in 1..Len(log) : IsReply(log[i]) => Arrived(log[i].frame)

GoodFrameRead == pc = "read" /\ decoder.state = "frame" /\ decoder'.state = "good"

\* A frame that arrives intact is returned by the call that read its closing
\* flag.  The test read_count > 7 makes one exception: the call began in the
\* middle of the frame, because the one before it timed out there.
IntactFrameReturned ==
    [][GoodFrameRead =>
         \/ /\ Len(log') = Len(log) + 1
            /\ Last(log').code = "NO_ERROR"
            /\ Last(log').frame = decoder.body[1][1]
         \/ call.entered = "frame" /\ call.count < 7 /\ log' = log]_vars

\* GetAhdlc gives up on an unfinished frame once: the frame that overflowed is
\* forgotten (AhdlcDecoderInit), so its remaining bytes are not reported as an
\* overflow again, whatever arrives and however the calls cut the stream.
OverflowReportedOnce ==
    \A i, j \in 1..Len(log) :
        i < j /\ log[i].code = "OVERFLOW_ERROR" /\ log[j].code = "OVERFLOW_ERROR"
        => log[i].serial < log[j].serial

\* Byte b comes right after byte a in the requests that can be encoded, one
\* behind the other; <<0, 0>> stands for what is before the first one.
Follows(a, b) ==
    \/ a[1] # 0 /\ a[2] < RequestLen[a[1]] /\ b = <<a[1], a[2] + 1>>
    \/ /\ a[1] # 0 => a[2] = RequestLen[a[1]]
       /\ a[1] < b[1] /\ b[2] = 1 /\ Encodable(b[1])
       /\ \A r \in (a[1] + 1)..(b[1] - 1) : ~Encodable(r)

\* Nothing that can be encoded is between byte a and the requests after req.
WholeUpTo(a) ==
    /\ a[1] # 0 => a[2] = RequestLen[a[1]]
    /\ \A r \in (a[1] + 1)..req : ~Encodable(r)

Sent(k) == IF k = 0 THEN <<0, 0>> ELSE tx[k]

\* The device receives the encodable requests, whole and in order, whatever
\* part of the buffer each write() took and whatever frame was refused between;
\* when SendAhdlc has returned, all of the request has been written.
WireExact ==
    /\ \A k \in 1..Len(tx) : tx[k][1] \in 1..req /\ Follows(Sent(k - 1), tx[k])
    /\ pc \in {"idle", "read"} => WholeUpTo(Sent(Len(tx)))

\* What the "AHDLC BAD CRC" branch of GetAhdlc says: a frame whose CRC is wrong
\* is a TRANSPORT_ERROR and never returned as a message.
BadCrcIsTransportError ==
    \A i \in 1..Len(log) : log[i].code = "NO_ERROR" => log[i].frame # 0

\* Every call ends: a write when the UART has taken the frame, GetAhdlc with a
\* timeout when the line falls silent, also in the middle of a frame.
CallsReturn == (pc \in {"read", "write"}) ~> (pc \in {"idle", "exited"})

-----------------------------------------------------------------------------
(* The transport as the tests see it: the channel of ReplyChannel.         *)

SeenRequests == {log[i].frame : i \in {j \in 1..Len(log) : IsReply(log[j])}}

\* The last request whose reply was handed out, 0 if there is none.
LastSeen == CHOOSE m \in SeenRequests \cup {0} : \A k \in SeenRequests : k <= m

Channel == INSTANCE ReplyChannel
    WITH Request <- Requests,
         pending <- [i \in 1..(req - LastSeen) |-> LastSeen + i],
         replies <- seen

\* Whatever bytes the wire loses and whichever calls time out in a frame or
\* before it, SendAhdlc and GetAhdlc are a channel on which each reply answers
\* a request sent before it, replies keep the order of the requests and none
\* comes twice.
ImplementsChannel == Channel!ChannelSpec
=============================================================================
