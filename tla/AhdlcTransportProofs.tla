------------------------ MODULE AhdlcTransportProofs ------------------------
(***************************************************************************)
(* For replies and requests of any length, any limit of the decoder and    *)
(* the encoder, any timeout and any number of lost or damaged bytes: what  *)
(* SendAhdlc puts on the wire, and what GetAhdlc makes of what comes back. *)
(***************************************************************************)
EXTENDS AhdlcTransport, TLAPS

\* A byte the wire delivered as the device sent it.
Genuine(b) == b[1] # 0

\* The order in which the device transmits.
Before(a, b) == a[1] < b[1] \/ (a[1] = b[1] /\ a[2] < b[2])

\* The bytes of the frame that is being decoded.
Partial == IF decoder.state = "frame" THEN decoder.body ELSE <<>>

\* The last byte of reply f that its CRC covers.
BodyEnd(f) == <<f, FrameLen(f) - 1>>

\* Byte b answers a request of T, and was sent no later than byte a.
SentBy(a, b, T) == b[1] \in T /\ ~Before(a, b)

\* The queue q is in the order of transmission; <<0, 0>> is no byte of a reply.
Queued(a, q, T) ==
    /\ a[1] # 0 => a[1] \in T
    /\ \A i \in 1..Len(q) : Genuine(q[i]) => SentBy(a, q[i], T)
    /\ \A i, j \in 1..Len(q) : i < j /\ Genuine(q[i]) /\ Genuine(q[j]) => Before(q[i], q[j])

\* The body p has no flag in it and was sent before what is in the queue q.
Decoded(a, q, p, T) ==
    \A k \in 1..Len(p) :
       /\ ~IsFlag(p[k])
       /\ Genuine(p[k]) =>
             /\ SentBy(a, p[k], T)
             /\ \A i \in 1..Len(q) : Genuine(q[i]) => Before(p[k], q[i])

\* Reply f is behind the device, the queue and the decoder.
Passed(f, a, q, p) ==
    /\ ~Before(a, BodyEnd(f))
    /\ \A i \in 1..Len(q) : Genuine(q[i]) => Before(BodyEnd(f), q[i])
    /\ \A k \in 1..Len(p) : Genuine(p[k]) => f < p[k][1]

\* The requests the device has received in full.
Received == {r \in Requests : Arrived(r)}

\* What is in flight between the device and the client, and what was handed out.
QueueInv ==
    /\ Queued(answered, rx, Received)
    /\ Decoded(answered, rx, Partial, Received)

PassedInv ==
    \A m \in 1..Len(log) : IsReply(log[m]) => Passed(log[m].frame, answered, rx, Partial)

\* The frame that overflowed last is not being decoded any more.
OverflowInv ==
    /\ \A i \in 1..Len(log) : log[i].serial <= decoder.serial
    /\ \A i \in 1..Len(log) :
          log[i].code = "OVERFLOW_ERROR" /\ log[i].serial = decoder.serial =>
             decoder.state # "frame"

\* A call that did not begin in a frame has read all of it, its flag included.
CountInv ==
    pc = "read" /\ call.entered # "frame" /\ decoder.state = "frame" =>
        Len(decoder.body) + 1 <= call.count

\* While a request is written the wire ends with what is written of it.
WriteInv ==
    pc = "write" =>
        /\ req # 0 /\ encoder = RequestFrame(req) /\ Encodable(req)
        /\ loc # 0 => tx # <<>> /\ tx[Len(tx)] = <<req, loc>>
        /\ loc = 0 => /\ Sent(Len(tx))[1] # req
                      /\ Sent(Len(tx))[1] # 0 =>
                            Sent(Len(tx))[2] = RequestLen[Sent(Len(tx))[1]]
                      /\ \A r \in (Sent(Len(tx))[1] + 1)..(req - 1) : ~Encodable(r)

IInv ==
    /\ TypeOK
    /\ WriteInv /\ WireExact
    /\ OverflowInv /\ OverflowReportedOnce
    /\ CountInv
    /\ QueueInv /\ PassedInv /\ InOrderOnce

-----------------------------------------------------------------------------
(* Bytes and frames. *)

Decoders == [state : DecoderStates, body : Seq(Bytes), serial : Nat]
Entries == [code : Codes, frame : Requests \cup {0}, serial : Nat]
Results == [code : Codes \cup {"none"}, frame : Requests \cup {0}]

\* The numbers a reply and its bytes are made of.
LEMMA ByteTypes ==
    /\ Len(DataLen) \in Nat /\ Requests = 1..Len(DataLen)
    /\ \A f \in Requests : f \in Nat /\ f # 0 /\ FrameLen(f) \in Nat /\ FrameLen(f) >= 8
    /\ \A b \in ReplyBytes : b[1] \in Requests /\ b[2] \in 1..FrameLen(b[1])
    /\ \A b \in Bytes : b[1] \in Nat /\ b[2] \in Nat /\ (Genuine(b) => b \in ReplyBytes)
<1>1. Len(DataLen) \in Nat /\ Requests = 1..Len(DataLen)
  BY TransportAssumption DEF Requests
<1>2. \A f \in Requests : f \in Nat /\ f # 0 /\ FrameLen(f) \in Nat /\ FrameLen(f) >= 8
  <2> TAKE f \in Requests
  <2>1. DataLen[f] \in Nat
    BY TransportAssumption DEF Requests
  <2> QED  BY <1>1, <2>1 DEF FrameLen
<1>3. \A b \in ReplyBytes : b[1] \in Requests /\ b[2] \in 1..FrameLen(b[1])
  <2> TAKE b \in ReplyBytes
  <2>1. PICK f \in Requests : b \in {f} \X (1..FrameLen(f))
    BY DEF ReplyBytes
  <2>2. b[1] = f /\ b[2] \in 1..FrameLen(f)
    BY <2>1
  <2> QED  BY <2>2
<1>4. \A b \in Bytes : b[1] \in Nat /\ b[2] \in Nat /\ (Genuine(b) => b \in ReplyBytes)
  <2> TAKE b \in Bytes
  <2>1. CASE b \in ReplyBytes
    BY <1>2, <1>3, <2>1
  <2>2. CASE b = <<0, 0>> \/ b = <<0, 1>>
    BY <2>2 DEF Genuine
  <2> QED  BY <2>1, <2>2 DEF Bytes, Noise, NoiseFlag
<1> QED  BY <1>1, <1>2, <1>3, <1>4

\* Before is a total order of the bytes.
LEMMA Transitive ==
    ASSUME NEW a, NEW b, NEW c, a[1] \in Nat, a[2] \in Nat, b[1] \in Nat, b[2] \in Nat,
           c[1] \in Nat, c[2] \in Nat
    PROVE  /\ Before(a, b) /\ Before(b, c) => Before(a, c)
           /\ ~Before(a, b) /\ Before(a, c) => Before(b, c)
           /\ Before(a, b) => ~Before(b, a)
BY DEF Before

\* The body of reply f: everything between its flags.
LEMMA BodyOf ==
    ASSUME NEW f \in Requests, NEW body, body = SubSeq(Frame(f), 2, FrameLen(f) - 1)
    PROVE  /\ Len(body) = FrameLen(f) - 2 /\ Len(body) \in Nat /\ Len(body) >= 6
           /\ body[1] = <<f, 2>> /\ body[Len(body)] = BodyEnd(f)
<1>1. FrameLen(f) \in Nat /\ FrameLen(f) >= 8
  BY ByteTypes
<1>2. PICK n \in Nat : n = FrameLen(f) /\ n >= 8
  BY <1>1
<1>3. Frame(f) = [p \in 1..n |-> <<f, p>>] /\ Frame(f) \in Seq({f} \X Nat) /\ Len(Frame(f)) = n
  BY <1>2 DEF Frame
<1>4. body = SubSeq([p \in 1..n |-> <<f, p>>], 2, n - 1)
  BY <1>2, <1>3
<1>5. Len(body) = n - 2 /\ body[1] = <<f, 2>> /\ body[n - 2] = <<f, n - 1>>
  BY SMTT(30), <1>2, <1>3, <1>4
<1> QED  BY <1>2, <1>5 DEF BodyEnd

\* The frame a request is encoded into.
LEMMA RequestFrameIs ==
    ASSUME NEW r \in Requests
    PROVE  /\ RequestLen[r] \in Nat \ {0} /\ Len(RequestFrame(r)) = RequestLen[r]
           /\ RequestFrame(r) \in Seq(Nat \X Nat)
           /\ \A p \in 1..RequestLen[r] : RequestFrame(r)[p] = <<r, p>>
           /\ Last(RequestFrame(r)) = <<r, RequestLen[r]>>
<1>1. RequestLen[r] \in Nat \ {0}
  BY TransportAssumption
<1>2. r \in Nat
  BY ByteTypes
<1>3. RequestFrame(r) \in Seq(Nat \X Nat) /\ Len(RequestFrame(r)) = RequestLen[r]
  BY <1>1, <1>2 DEF RequestFrame
<1>4. \A p \in 1..RequestLen[r] : RequestFrame(r)[p] = <<r, p>>
  BY DEF RequestFrame
<1>5. Last(RequestFrame(r)) = <<r, RequestLen[r]>>
  BY <1>1, <1>3, <1>4 DEF Last
<1> QED  BY <1>1, <1>3, <1>4, <1>5

-----------------------------------------------------------------------------
(* The decoder. *)

Opens(d0, b, d) == /\ IsFlag(b) /\ d0.state # "frame" /\ d.state = "frame"
                   /\ d.body = <<>> /\ d.serial = d0.serial + 1
Keeps(d0, b, d) == IsFlag(b) /\ d0.state = "frame" /\ d0.body = <<>> /\ d = d0
Closes(d0, b, d) == /\ IsFlag(b) /\ d0.state = "frame" /\ d0.body # <<>>
                    /\ d.state = CrcOf(d0.body) /\ d.body = d0.body
                    /\ d.serial = d0.serial
Collects(d0, b, d) == /\ ~IsFlag(b) /\ d0.state = "frame" /\ d.state = "frame"
                      /\ d.body = Append(d0.body, b) /\ d.serial = d0.serial
Hunts(d0, b, d) == /\ ~IsFlag(b) /\ d0.state # "frame" /\ d.state = "hunt"
                   /\ d.body = <<>> /\ d.serial = d0.serial

\* What the CRC says of a decoder: a good body is that of a reply.
Sane(d) ==
    /\ d.state = "good" => \E f \in Requests : d.body = SubSeq(Frame(f), 2, FrameLen(f) - 1)
    /\ d.state = "hunt" => d.body = <<>>

\* A byte opens, closes or extends a frame, or is not looked at.
LEMMA Decoding ==
    ASSUME NEW d0 \in Decoders, NEW b \in Bytes, NEW d, d = DecodeFrameByte(d0, b)
    PROVE  /\ d \in Decoders /\ Sane(d)
           /\ \/ Opens(d0, b, d) \/ Keeps(d0, b, d) \/ Closes(d0, b, d)
              \/ Collects(d0, b, d) \/ Hunts(d0, b, d)
<1> USE DEF Decoders
<1>1. CASE IsFlag(b) /\ d0.state # "frame"
  <2>1. d = [d0 EXCEPT !.state = "frame", !.body = <<>>, !.serial = d0.serial + 1]
    BY <1>1 DEF DecodeFrameByte, Opened
  <2>2. d = [state |-> "frame", body |-> <<>>, serial |-> d0.serial + 1]
    BY <2>1
  <2>3. d \in Decoders /\ Opens(d0, b, d)
    BY <1>1, <2>2 DEF Opens, DecoderStates
  <2> QED  BY <2>3 DEF Sane, Opens
<1>2. CASE IsFlag(b) /\ d0.state = "frame" /\ d0.body = <<>>
  <2>1. d = d0
    BY <1>2 DEF DecodeFrameByte
  <2> QED  BY <1>2, <2>1 DEF Keeps, Sane
<1>3. CASE IsFlag(b) /\ d0.state = "frame" /\ d0.body # <<>>
  <2>1. d = [d0 EXCEPT !.state = CrcOf(d0.body)]
    BY <1>3 DEF DecodeFrameByte
  <2>2. CrcOf(d0.body) \in {"good", "bad"}
    BY DEF CrcOf
  <2>3. d \in Decoders /\ Closes(d0, b, d)
    BY <1>3, <2>1, <2>2 DEF Closes, DecoderStates
  <2>4. Sane(d)
    BY <2>2, <2>3 DEF Sane, Closes, CrcOf
  <2> QED  BY <2>3, <2>4
<1>4. CASE ~IsFlag(b) /\ d0.state = "frame"
  <2>1. d = [d0 EXCEPT !.body = Append(d0.body, b)]
    BY <1>4 DEF DecodeFrameByte
  <2>2. Append(d0.body, b) \in Seq(Bytes)
    OBVIOUS
  <2>3. d \in Decoders /\ Collects(d0, b, d)
    BY <1>4, <2>1, <2>2 DEF Collects
  <2> QED  BY <2>3 DEF Sane, Collects
<1>5. CASE ~IsFlag(b) /\ d0.state # "frame"
  <2>1. d = [d0 EXCEPT !.state = "hunt", !.body = <<>>]
    BY <1>5 DEF DecodeFrameByte, AhdlcDecoderInit
  <2>2. d = [state |-> "hunt", body |-> <<>>, serial |-> d0.serial]
    BY <2>1
  <2>3. d \in Decoders /\ Hunts(d0, b, d)
    BY <1>5, <2>2 DEF Hunts, DecoderStates
  <2> QED  BY <2>3 DEF Sane, Hunts
<1> QED  BY <1>1, <1>2, <1>3, <1>4, <1>5

\* What GetAhdlc reports, and of which decoder.
LEMMA Looking ==
    ASSUME NEW d \in Decoders, Sane(d), NEW n \in Nat, NEW r, r = AfterByte(d, n)
    PROVE  /\ r \in Results
           /\ r.code # "TIMEOUT"
           /\ r.code = "OVERFLOW_ERROR" => d.state = "frame"
           /\ r = NoResult <=> r.code = "none"
           /\ IsReply(r) => d.state = "good" /\ r.frame = d.body[1][1]
           /\ d.state = "good" /\ n > 7 => r = Result("NO_ERROR", d.body[1][1])
           /\ n <= 7 => r = NoResult
<1> USE DEF Decoders, Codes, Results, DecoderStates
<1>1. d.state = "good" =>
         /\ Origin(d) = d.body[1][1] /\ Origin(d) \in Requests
         /\ Len(d.body) \in Nat /\ Len(d.body) >= 6
  <2> SUFFICES ASSUME d.state = "good"
               PROVE  /\ Origin(d) = d.body[1][1] /\ Origin(d) \in Requests
                      /\ Len(d.body) \in Nat /\ Len(d.body) >= 6
    OBVIOUS
  <2>1. PICK f \in Requests : d.body = SubSeq(Frame(f), 2, FrameLen(f) - 1)
    BY DEF Sane
  <2>2. d.body[1] = <<f, 2>> /\ Len(d.body) \in Nat /\ Len(d.body) >= 6
    BY <2>1, BodyOf
  <2>3. Origin(d) = d.body[1][1]
    BY DEF Origin
  <2>4. d.body[1][1] = f
    BY <2>2
  <2> QED  BY <2>2, <2>3, <2>4
<1>2. Origin(d) \in Requests \cup {0} /\ (Origin(d) # 0 => d.state = "good")
  BY <1>1 DEF Origin
<1>3. BufferIndex(d) \in Nat
  <2>1. Len(d.body) \in Nat
    OBVIOUS
  <2> QED  BY <2>1 DEF BufferIndex
<1>4. d.state = "good" => BufferIndex(d) >= 2
  BY <1>1 DEF BufferIndex
<1>5. d.state = "hunt" => BufferIndex(d) = 0
  BY DEF BufferIndex, Sane
<1>6. CASE n <= 7
  <2>1. r = [code |-> "none", frame |-> 0]
    BY <1>6 DEF AfterByte, NoResult
  <2> QED  BY <1>6, <2>1 DEF NoResult, IsReply
<1>7. CASE n > 7
  <2>1. r = FrameResult(d)
    BY <1>7 DEF AfterByte
  <2>2. CASE d.state \in {"good", "bad"} /\ BufferIndex(d) < 2
    <3>1. r = [code |-> "TRANSPORT_ERROR", frame |-> 0]
      BY <1>3, <2>1, <2>2 DEF FrameResult, Result
    <3>2. d.state # "good"
      BY <1>3, <1>4, <2>2
    <3> QED  BY <1>7, <3>1, <3>2 DEF NoResult, IsReply
  <2>3. CASE d.state \in {"good", "bad"} /\ BufferIndex(d) >= 2
    <3>1. r = [code |-> "NO_ERROR", frame |-> Origin(d)]
      BY <1>3, <2>1, <2>3 DEF FrameResult, Result
    <3> QED  BY <1>1, <1>2, <1>7, <3>1 DEF NoResult, IsReply, Result
  <2>4. CASE d.state \in {"hunt", "frame"} /\ BufferIndex(d) >= PROTO_BUFFER_MAX_LEN
    <3>1. r = [code |-> "OVERFLOW_ERROR", frame |-> 0]
      BY <2>1, <2>4 DEF FrameResult, Result
    <3>2. d.state = "frame"
      BY <1>5, <2>4, TransportAssumption
    <3> QED  BY <1>7, <3>1, <3>2 DEF NoResult, IsReply
  <2>5. CASE d.state \in {"hunt", "frame"} /\ ~(BufferIndex(d) >= PROTO_BUFFER_MAX_LEN)
    <3>1. r = [code |-> "none", frame |-> 0]
      BY <2>1, <2>5 DEF FrameResult, NoResult
    <3> QED  BY <1>7, <2>5, <3>1 DEF NoResult, IsReply
  <2>6. BufferIndex(d) < 2 \/ BufferIndex(d) >= 2
    BY <1>3
  <2> QED  BY <2>2, <2>3, <2>4, <2>5, <2>6
<1> QED  BY <1>6, <1>7

-----------------------------------------------------------------------------
(* What one step does to what the invariant is about. *)

\* The call returns e, which Return has put together.
Logs(e) ==
    /\ pc' = "idle"
    /\ log' = Append(log, e)
    /\ seen' = IF IsReply(e) THEN Append(seen, e.frame) ELSE seen

\* ReadByte moves the first byte of the queue to the decoder or drops it; a
\* reply that is handed out is all the decoder had of a frame.
LEMMA Reading ==
    ASSUME TypeOK, ReadByte
    PROVE  /\ rx # <<>> /\ Head(rx) \in Bytes /\ rx' = Tail(rx)
           /\ decoder' \in Decoders
           /\ \/ Partial' = <<>>
              \/ /\ Partial' = Append(Partial, Head(rx)) /\ ~IsFlag(Head(rx))
                 /\ decoder.state = "frame"
           /\ decoder'.serial \in {decoder.serial, decoder.serial + 1}
           /\ decoder'.state = "frame" /\ decoder'.serial = decoder.serial =>
                 decoder.state = "frame"
           /\ \/ UNCHANGED <<pc, log, seen>>
              \/ \E e \in Entries :
                    /\ Logs(e) /\ e.serial = decoder'.serial
                    /\ IsReply(e) =>
                          /\ Partial' = <<>> /\ e.frame \in Requests
                          /\ Partial = SubSeq(Frame(e.frame), 2, FrameLen(e.frame) - 1)
                    /\ e.code = "OVERFLOW_ERROR" =>
                          /\ decoder'.state # "frame"
                          /\ e.serial = decoder.serial => decoder.state = "frame"
<1>1. rx # <<>> /\ Head(rx) \in Bytes /\ rx' = Tail(rx)
  BY SMTT(30) DEF ReadByte, TypeOK
<1>2. PICK b \in Bytes : b = Head(rx)
  BY <1>1
<1>3. PICK d0 \in Decoders : d0 = decoder
  BY DEF TypeOK, Decoders
<1>4. PICK n \in Nat : n = call.count + 1
  BY DEF TypeOK
<1>5. PICK d : d = DecodeFrameByte(d0, b)
  OBVIOUS
<1>6. PICK r : r = AfterByte(d, n)
  OBVIOUS
<1>7. /\ decoder' = DecoderAfter(d, r)
      /\ IF r = NoResult THEN UNCHANGED <<pc, log, seen>> ELSE Return(r, d)
  BY <1>2, <1>3, <1>4, <1>5, <1>6 DEF ReadByte
<1>8. /\ d \in Decoders /\ Sane(d)
      /\ \/ Opens(d0, b, d) \/ Keeps(d0, b, d) \/ Closes(d0, b, d)
         \/ Collects(d0, b, d) \/ Hunts(d0, b, d)
  BY <1>5, Decoding
<1>9. /\ r \in Results
      /\ r.code # "TIMEOUT"
      /\ r.code = "OVERFLOW_ERROR" => d.state = "frame"
      /\ r = NoResult <=> r.code = "none"
      /\ IsReply(r) => d.state = "good" /\ r.frame = d.body[1][1]
  BY <1>6, <1>8, Looking
<1>10. PICK d1 \in Decoders : /\ d1 = DecoderAfter(d, r) /\ d1.serial = d.serial
                              /\ r.code = "OVERFLOW_ERROR" => d1.state = "hunt" /\ d1.body = <<>>
                              /\ r.code # "OVERFLOW_ERROR" => d1 = d
  <2>1. CASE r.code = "OVERFLOW_ERROR"
    <3>1. DecoderAfter(d, r) = [d EXCEPT !.state = "hunt", !.body = <<>>]
      BY <2>1 DEF DecoderAfter, AhdlcDecoderInit
    <3>2. DecoderAfter(d, r) = [state |-> "hunt", body |-> <<>>, serial |-> d.serial]
      BY <1>8, <3>1 DEF Decoders
    <3>3. DecoderAfter(d, r) \in Decoders
      BY <1>8, <3>2 DEF Decoders, DecoderStates
    <3>4. /\ DecoderAfter(d, r).state = "hunt" /\ DecoderAfter(d, r).body = <<>>
          /\ DecoderAfter(d, r).serial = d.serial
      BY <3>2
    <3> QED  BY <2>1, <3>3, <3>4
  <2>2. CASE r.code # "OVERFLOW_ERROR"
    BY <1>8, <2>2 DEF DecoderAfter
  <2> QED  BY <2>1, <2>2
<1>11. decoder' = d1 /\ d0.serial \in Nat
  BY <1>7, <1>10 DEF Decoders
<1>13. d.serial \in {d0.serial, d0.serial + 1}
  BY <1>8 DEF Opens, Keeps, Closes, Collects, Hunts
<1>14. d.state = "frame" /\ d.serial = d0.serial => d0.state = "frame"
  BY <1>8, <1>11 DEF Opens, Keeps, Closes, Collects, Hunts, CrcOf
<1>15. Partial = (IF d0.state = "frame" THEN d0.body ELSE <<>>)
  BY <1>3 DEF Partial
<1>16. Partial' = (IF d1.state = "frame" THEN d1.body ELSE <<>>)
  BY <1>11 DEF Partial
<1>17. \/ Partial' = <<>>
       \/ Partial' = Append(Partial, b) /\ ~IsFlag(b) /\ d0.state = "frame"
  <2>1. Closes(d0, b, d) => d.state # "frame"
    BY DEF Closes, CrcOf
  <2>2. d.state = "frame" =>
          d.body = <<>> \/ (d.body = Append(d0.body, b) /\ ~IsFlag(b) /\ d0.state = "frame")
    BY <1>8, <2>1 DEF Opens, Keeps, Collects, Hunts
  <2>3. d1 = d \/ d1.state = "hunt"
    BY <1>10
  <2> QED  BY <1>15, <1>16, <2>2, <2>3
<1>18. ASSUME r # NoResult
       PROVE  \E e \in Entries :
                    /\ Logs(e) /\ e.serial = d1.serial
                    /\ IsReply(e) =>
                          /\ Partial' = <<>> /\ e.frame \in Requests
                          /\ Partial = SubSeq(Frame(e.frame), 2, FrameLen(e.frame) - 1)
                    /\ e.code = "OVERFLOW_ERROR" =>
                          /\ d1.state # "frame"
                          /\ e.serial = d0.serial => d0.state = "frame"
  <2>1. PICK e : e = [code |-> r.code, frame |-> r.frame, serial |-> d.serial]
    OBVIOUS
  <2>2. e \in Entries
    BY <1>8, <1>9, <1>18, <2>1 DEF Entries, Results, Decoders
  <2>3. e.code = r.code /\ e.frame = r.frame /\ e.serial = d.serial
    BY <2>1
  <2>4. Logs(e)
    BY <1>7, <1>18, <2>1, <2>3 DEF Return, Logs, IsReply
  <2>5. ASSUME IsReply(r)
        PROVE  /\ Partial' = <<>> /\ r.frame \in Requests
               /\ Partial = SubSeq(Frame(r.frame), 2, FrameLen(r.frame) - 1)
    <3>1. d.state = "good" /\ r.frame = d.body[1][1] /\ r.code = "NO_ERROR"
      BY <1>9, <2>5 DEF IsReply
    <3>2. PICK f \in Requests : d.body = SubSeq(Frame(f), 2, FrameLen(f) - 1)
      BY <1>8, <3>1 DEF Sane
    <3>3. d.body[1] = <<f, 2>>
      BY <3>2, BodyOf
    <3>4. r.frame = f
      BY <3>1, <3>3
    <3>5. d0.state = "frame" /\ d0.body = d.body
      BY <1>8, <3>1 DEF Opens, Keeps, Closes, Collects, Hunts
    <3>6. d1.state = "good"
      BY <1>10, <3>1
    <3> QED  BY <1>15, <1>16, <3>2, <3>4, <3>5, <3>6
  <2>6. IsReply(e) <=> IsReply(r)
    BY <2>3 DEF IsReply
  <2> QED  BY <1>9, <1>10, <1>14, <2>2, <2>3, <2>4, <2>5, <2>6
<1> QED  BY <1>1, <1>2, <1>3, <1>7, <1>10, <1>11, <1>13, <1>14, <1>17, <1>18

\* The encoder's buffer takes the frame, or as much of it as it has room for.
LEMMA Encoding ==
    ASSUME NEW r \in Requests, EncodeFrame(r)
    PROVE  encoder' \in Seq(Nat \X Nat) /\ (Encodable(r) => encoder' = RequestFrame(r))
<1>1. PICK n \in Nat : n = RequestLen[r]
  BY RequestFrameIs
<1>2. PICK m \in Nat : m = ENCODER_MAX_LEN
  BY TransportAssumption
<1>3. PICK k : k = Min({n, m})
  OBVIOUS
<1>4. k \in Nat /\ k <= n /\ (n <= m => k = n)
  <2>1. \E x \in {n, m} : \A y \in {n, m} : x <= y
    OBVIOUS
  <2>2. k \in {n, m} /\ \A y \in {n, m} : k <= y
    BY <1>3, <2>1 DEF Min
  <2> QED  BY <2>2
<1>5. PICK s \in Seq(Nat \X Nat) : s = RequestFrame(r) /\ Len(s) = n
  BY <1>1, RequestFrameIs
<1>6. encoder' = SubSeq(s, 1, k)
  BY <1>1, <1>2, <1>3, <1>5 DEF EncodeFrame
<1>7. encoder' \in Seq(Nat \X Nat)
  BY <1>4, <1>5, <1>6
<1>8. n <= m => encoder' = s
  BY <1>4, <1>5, <1>6
<1> QED  BY <1>1, <1>2, <1>5, <1>7, <1>8 DEF Encodable

\* The device transmits a byte of its replies, the wire delivers it or not.
Transmits(b) ==
    /\ NextByte(b) /\ answered' = b
    /\ rx' \in {rx, Append(rx, b), Append(rx, Noise), Append(rx, NoiseFlag)}
    /\ UNCHANGED <<pc, req, encoder, loc, tx, printed, decoder, call, log, seen>>

\* Both actions of the device and the wire are of this kind.
LEMMA Transmitting ==
    ASSUME DeviceTransmit \/ WireFault
    PROVE  \E b \in ReplyBytes : Transmits(b)
BY DEF DeviceTransmit, WireFault, Transmits

Calls == [count : Nat, waited : Nat, entered : DecoderStates]

\* The counters of a call.
LEMMA Counting ==
    ASSUME TypeOK
    PROVE  /\ ReadByte => /\ call' \in Calls /\ call'.entered = call.entered
                          /\ call'.count = call.count + 1
           /\ ReadNothing => /\ call' \in Calls /\ call'.entered = call.entered
                             /\ call'.count = call.count
<1>1. PICK c \in Calls : c = call
  BY DEF TypeOK, Calls
<1>2. ReadByte => call' = [count |-> c.count + 1, waited |-> 0, entered |-> c.entered]
  <2>1. ReadByte => call' = [c EXCEPT !.count = c.count + 1, !.waited = 0]
    BY <1>1 DEF ReadByte
  <2> QED  BY <2>1 DEF Calls
<1>3. ReadNothing => call' = [count |-> c.count, waited |-> c.waited + 1, entered |-> c.entered]
  <2>1. ReadNothing => call' = [c EXCEPT !.waited = c.waited + 1]
    BY <1>1 DEF ReadNothing, WaitedLonger
  <2> QED  BY <2>1 DEF Calls
<1>4. c.count \in Nat /\ c.waited \in Nat /\ c.entered \in DecoderStates
  BY DEF Calls
<1> QED  BY <1>1, <1>2, <1>3, <1>4 DEF Calls

\* Every action keeps the types.
LEMMA TypeStep ==
    ASSUME TypeOK, [Next]_vars
    PROVE  TypeOK'
<1> USE TransportAssumption
<1>1. CASE SendAhdlc
  <2>1. req' \in 0..Len(DataLen) /\ req + 1 \in Requests
    BY <1>1, ByteTypes DEF TypeOK, SendAhdlc
  <2>2. encoder' \in Seq(Nat \X Nat)
    BY <1>1, <2>1, Encoding DEF SendAhdlc
  <2>3. pc' \in {"idle", "write"} /\ loc' = 0 /\ seen' = <<>>
    BY <1>1 DEF SendAhdlc
  <2>4. loc' \in 0..Len(encoder') /\ seen' \in Seq(Requests)
    BY <2>2, <2>3
  <2>5. UNCHANGED <<tx, answered, rx, faults, printed, decoder, call, log>>
    BY <1>1 DEF SendAhdlc
  <2> QED  BY <2>1, <2>2, <2>3, <2>4, <2>5 DEF TypeOK
<1>2. CASE BlockingWrite
  <2>1. PICK n \in 0..(Len(encoder) - loc) : Written(n)
    BY <1>2 DEF BlockingWrite
  <2>2. encoder \in Seq(Nat \X Nat) /\ loc \in 0..Len(encoder) /\ tx \in Seq(Nat \X Nat)
    BY DEF TypeOK
  <2>3. loc' \in 0..Len(encoder)
    BY <2>1, <2>2 DEF Written
  <2>4. SubSeq(encoder, loc + 1, loc + n) \in Seq(Nat \X Nat)
    BY <2>2
  <2>5. tx' \in Seq(Nat \X Nat)
    BY <2>1, <2>2, <2>4 DEF Written
  <2>6. UNCHANGED <<pc, req, encoder, answered, rx, faults, printed, decoder, call, log, seen>>
    BY <1>2 DEF BlockingWrite
  <2> QED  BY <2>3, <2>5, <2>6 DEF TypeOK
<1>3. CASE BlockingWriteDone \/ BlockingWriteFatal
  BY <1>3 DEF BlockingWriteDone, BlockingWriteFatal, TypeOK
<1>4. CASE GetAhdlc
  <2>1. decoder.state \in DecoderStates
    BY DEF TypeOK
  <2>2. call' \in [count : Nat, waited : Nat, entered : DecoderStates]
    BY <1>4, <2>1 DEF GetAhdlc
  <2> QED  BY <1>4, <2>2 DEF GetAhdlc, TypeOK
<1>5. CASE ReadByte
  <2>1. decoder' \in Decoders /\ rx \in Seq(Bytes) /\ rx # <<>> /\ rx' = Tail(rx)
    BY <1>5, Reading DEF TypeOK
  <2>2. rx' \in Seq(Bytes) /\ call' \in Calls
    BY <1>5, <2>1, Counting
  <2>3. /\ pc' \in {"idle", "read"} /\ log' \in Seq(Entries) /\ seen' \in Seq(Requests)
    <3>1. log \in Seq(Entries) /\ seen \in Seq(Requests) /\ pc = "read"
      BY <1>5 DEF TypeOK, Entries, ReadByte
    <3>2. CASE UNCHANGED <<pc, log, seen>>
      BY <3>1, <3>2
    <3>3. CASE ~UNCHANGED <<pc, log, seen>>
      <4>1. PICK e \in Entries : Logs(e) /\ (IsReply(e) => e.frame \in Requests)
        BY <1>5, <3>3, Reading
      <4> QED  BY <3>1, <4>1 DEF Logs
    <3> QED  BY <3>2, <3>3
  <2>4. UNCHANGED <<req, encoder, loc, tx, answered, faults, printed>>
    BY <1>5 DEF ReadByte
  <2> QED  BY <2>1, <2>2, <2>3, <2>4 DEF TypeOK, Decoders, Entries, Calls
<1>6. CASE ReadNothing
  <2>1. call' \in Calls
    BY <1>6, Counting
  <2> QED  BY <1>6, <2>1 DEF ReadNothing, TypeOK, Calls
<1>7. CASE ReadTimeout
  <2>1. decoder.serial \in Nat
    BY DEF TypeOK
  <2>2. PICK e : e = [code |-> "TIMEOUT", frame |-> 0, serial |-> decoder.serial]
    OBVIOUS
  <2>3. e \in Entries
    BY <2>1, <2>2 DEF Entries, Codes
  <2>4. pc' = "idle" /\ log' = Append(log, e) /\ seen' = seen
    BY <1>7, <2>2 DEF ReadTimeout, TimeoutResult, Result, Return, IsReply
  <2>5. log' \in Seq(Entries)
    BY <2>3, <2>4 DEF TypeOK, Entries
  <2> QED  BY <1>7, <2>4, <2>5 DEF ReadTimeout, TypeOK, Entries
<1>8. CASE DeviceTransmit \/ WireFault
  <2>1. PICK b \in ReplyBytes : Transmits(b)
    BY <1>8, Transmitting
  <2>2. rx \in Seq(Bytes) /\ b \in Bytes /\ Noise \in Bytes /\ NoiseFlag \in Bytes
    BY DEF TypeOK, Bytes
  <2>3. rx' \in Seq(Bytes)
    <3>1. PICK c \in Bytes : rx' = rx \/ rx' = Append(rx, c)
      BY <2>1, <2>2 DEF Transmits
    <3>2. Append(rx, c) \in Seq(Bytes)
      BY <2>2, <3>1
    <3>3. CASE rx' = rx
      BY <2>2, <3>3
    <3>4. CASE rx' = Append(rx, c)
      BY <3>2, <3>4
    <3> QED  BY <3>1, <3>3, <3>4
  <2>4. faults' \in 0..MaxFaults
    <3>1. faults \in 0..MaxFaults /\ MaxFaults \in Nat
      BY DEF TypeOK
    <3>2. faults' = faults \/ (faults < MaxFaults /\ faults' = faults + 1)
      BY <1>8 DEF DeviceTransmit, WireFault
    <3> QED  BY <3>1, <3>2
  <2> QED  BY <2>1, <2>3, <2>4 DEF Transmits, TypeOK
<1>9. CASE PrintUntilClosed
  <2>1. rx' \in Seq(Bytes) /\ printed' \in 0..MaxPrinted
    BY <1>9 DEF PrintUntilClosed, TypeOK
  <2> QED  BY <1>9, <2>1 DEF PrintUntilClosed, TypeOK
<1>10. CASE UNCHANGED vars
  BY <1>10 DEF vars, TypeOK
<1> QED  BY <1>1, <1>2, <1>3, <1>4, <1>5, <1>6, <1>7, <1>8, <1>9, <1>10 DEF Next

-----------------------------------------------------------------------------
(* The wire towards the device. *)

\* The byte written last, or <<0, 0>>.
LEMMA SentTypes ==
    ASSUME TypeOK, WireExact
    PROVE  /\ Len(tx) \in Nat /\ req \in Nat
           /\ Sent(Len(tx))[1] \in 0..req /\ Sent(Len(tx))[2] \in Nat
<1>1. Len(tx) \in Nat /\ tx \in Seq(Nat \X Nat) /\ req \in Nat
  BY ByteTypes DEF TypeOK
<1>2. CASE Len(tx) = 0
  BY <1>1, <1>2 DEF Sent
<1>3. CASE Len(tx) # 0
  <2>1. Len(tx) \in 1..Len(tx)
    BY <1>1, <1>3
  <2>2. tx[Len(tx)][1] \in 1..req /\ tx[Len(tx)] \in Nat \X Nat
    BY <1>1, <2>1 DEF WireExact
  <2> QED  BY <1>1, <1>3, <2>2 DEF Sent
<1> QED  BY <1>2, <1>3

\* Steps of other parts change nothing here.
LEMMA WireKept ==
    ASSUME WriteInv, WireExact, UNCHANGED <<req, encoder, loc, tx>>,
           \/ pc' = pc
           \/ pc \in {"idle", "read"} /\ pc' \in {"idle", "read"}
           \/ pc' = "exited"
    PROVE  WriteInv' /\ WireExact'
<1>1. /\ \A k : Sent(k)' = Sent(k)
      /\ \A a, b : Follows(a, b)' = Follows(a, b)
      /\ \A a : WholeUpTo(a)' = WholeUpTo(a)
  BY DEF Sent, Follows, WholeUpTo
<1>2. Len(tx') = Len(tx)
  OBVIOUS
<1>3. WriteInv'
  BY <1>1, <1>2 DEF WriteInv
<1>4. WireExact'
  BY <1>1, <1>2 DEF WireExact
<1> QED  BY <1>3, <1>4

\* SendAhdlc encodes the next request; one that does not fit is passed over.
LEMMA WireSend ==
    ASSUME TypeOK, WriteInv, WireExact, SendAhdlc
    PROVE  WriteInv' /\ WireExact'
<1>1. PICK q \in Requests : q = req + 1
  BY ByteTypes DEF SendAhdlc, TypeOK
<1>2. PICK a : a = Sent(Len(tx))
  OBVIOUS
<1>3. /\ q \in Nat /\ q # 0 /\ req = q - 1
      /\ a[1] \in 0..(q - 1) /\ a[2] \in Nat
  BY <1>1, <1>2, SentTypes, ByteTypes DEF TypeOK
<1>4. /\ a[1] # 0 => a[2] = RequestLen[a[1]]
      /\ \A r \in (a[1] + 1)..(q - 1) : ~Encodable(r)
  BY <1>2, <1>3 DEF WireExact, WholeUpTo, SendAhdlc
<1>5. /\ req' = q /\ tx' = tx /\ loc' = 0
      /\ pc' = IF Encodable(q) THEN "write" ELSE "idle"
      /\ Encodable(q) => encoder' = RequestFrame(q)
  BY <1>1, Encoding DEF SendAhdlc
<1>6. Sent(Len(tx))' = a
  BY <1>2, <1>5 DEF Sent
<1>7. WriteInv'
  <2> SUFFICES ASSUME pc' = "write"
               PROVE  /\ q # 0 /\ encoder' = RequestFrame(q) /\ Encodable(q)
                      /\ a[1] # q
                      /\ a[1] # 0 => a[2] = RequestLen[a[1]]
                      /\ \A r \in (a[1] + 1)..(q - 1) : ~Encodable(r)
    BY <1>5, <1>6 DEF WriteInv
  <2>1. Encodable(q)
    BY <1>5
  <2>2. a[1] # q
    BY <1>3
  <2> QED  BY <1>3, <1>4, <1>5, <2>1, <2>2
<1>8. \A k \in 1..Len(tx') : tx'[k][1] \in 1..req' /\ Follows(Sent(k - 1), tx[k])'
  <2>1. \A k \in 1..Len(tx) : tx[k][1] \in 1..(q - 1) /\ Follows(Sent(k - 1), tx[k])
    BY <1>3 DEF WireExact
  <2>2. \A k \in 1..Len(tx) : tx[k][1] \in 1..q
    <3> TAKE k \in 1..Len(tx)
    <3>1. tx[k][1] \in 1..(q - 1)
      BY <2>1
    <3> QED  BY <1>3, <3>1
  <2>3. \A k \in 1..Len(tx) : Follows(Sent(k - 1), tx[k])'
    BY <1>5, <2>1 DEF Follows, Sent
  <2> QED  BY <1>5, <2>2, <2>3
<1>9. pc' \in {"idle", "read"} => WholeUpTo(Sent(Len(tx)))'
  <2> SUFFICES ASSUME pc' \in {"idle", "read"}
               PROVE  /\ a[1] # 0 => a[2] = RequestLen[a[1]]
                      /\ \A r \in (a[1] + 1)..q : ~Encodable(r)
    BY <1>5, <1>6 DEF WholeUpTo
  <2>1. ~Encodable(q)
    BY <1>5
  <2>2. \A r \in (a[1] + 1)..q : r = q \/ r \in (a[1] + 1)..(q - 1)
    BY <1>3
  <2> QED  BY <1>4, <2>1, <2>2
<1>10. WireExact'
  BY <1>8, <1>9, <1>5 DEF WireExact
<1> QED  BY <1>7, <1>10

\* Bytes l + 1 to l + n of a sequence.
LEMMA Cutting ==
    ASSUME NEW s \in Seq(Nat \X Nat), NEW l \in Nat, NEW n \in Nat, l + n <= Len(s)
    PROVE  /\ SubSeq(s, l + 1, l + n) \in Seq(Nat \X Nat)
           /\ Len(SubSeq(s, l + 1, l + n)) = n
           /\ \A j \in 1..n : SubSeq(s, l + 1, l + n)[j] = s[l + j]
<1>1. SubSeq(s, l + 1, l + n) = [j \in 1..n |-> s[l + j]]
  OBVIOUS
<1>2. \A j \in 1..n : s[l + j] \in Nat \X Nat
  OBVIOUS
<1>3. [j \in 1..n |-> s[l + j]] \in Seq(Nat \X Nat) /\ Len([j \in 1..n |-> s[l + j]]) = n
  BY <1>2
<1> QED  BY <1>1, <1>3

\* One sequence behind the other.
LEMMA Joining ==
    ASSUME NEW s \in Seq(Nat \X Nat), NEW t \in Seq(Nat \X Nat)
    PROVE  /\ s \o t \in Seq(Nat \X Nat) /\ Len(s \o t) = Len(s) + Len(t)
           /\ \A k \in 1..Len(s) : (s \o t)[k] = s[k]
           /\ \A j \in 1..Len(t) : (s \o t)[Len(s) + j] = t[j]
OBVIOUS

\* write() takes the next n bytes of the frame.
LEMMA WireWrite ==
    ASSUME TypeOK, WriteInv, WireExact, BlockingWrite
    PROVE  WriteInv' /\ WireExact'
<1>1. PICK n \in 0..(Len(encoder) - loc) : Written(n)
  BY DEF BlockingWrite
<1>2. PICK q \in Requests : q = req
  BY ByteTypes DEF BlockingWrite, WriteInv, TypeOK
<1>3. PICK l \in Nat : l = loc
  BY DEF TypeOK
<1>4. PICK t \in Seq(Nat \X Nat) : t = tx
  BY DEF TypeOK
<1>5. PICK m \in Nat : m = Len(t)
  OBVIOUS
<1>6. /\ encoder = RequestFrame(q) /\ Encodable(q) /\ pc = "write"
      /\ UNCHANGED <<pc, req, encoder>>
  BY <1>2 DEF BlockingWrite, WriteInv
<1>7. PICK s \in Seq(Nat \X Nat) : /\ s = encoder /\ Len(s) = RequestLen[q]
                                   /\ \A p \in 1..Len(s) : s[p] = <<q, p>>
  BY <1>6, RequestFrameIs
<1>8. n \in Nat /\ l + n <= Len(s) /\ Len(s) \in Nat /\ q \in Nat /\ q # 0
  BY <1>1, <1>2, <1>3, <1>7, ByteTypes
<1>9. /\ SubSeq(s, l + 1, l + n) \in Seq(Nat \X Nat) /\ Len(SubSeq(s, l + 1, l + n)) = n
      /\ \A j \in 1..n : SubSeq(s, l + 1, l + n)[j] = <<q, l + j>>
  <2>1. \A j \in 1..n : l + j \in 1..Len(s)
    BY <1>8
  <2>2. \A j \in 1..n : s[l + j] = <<q, l + j>>
    BY <1>7, <2>1
  <2>3. /\ SubSeq(s, l + 1, l + n) \in Seq(Nat \X Nat) /\ Len(SubSeq(s, l + 1, l + n)) = n
        /\ \A j \in 1..n : SubSeq(s, l + 1, l + n)[j] = s[l + j]
    <3>1. s \in Seq(Nat \X Nat) /\ l \in Nat /\ n \in Nat /\ l + n <= Len(s)
      BY <1>8
    <3> QED  BY SMTT(30), <3>1, Cutting
  <2> QED  BY <2>2, <2>3
<1>10. PICK u : u = t \o SubSeq(s, l + 1, l + n)
  OBVIOUS
<1>11. /\ u \in Seq(Nat \X Nat) /\ Len(u) = m + n
       /\ \A k \in 1..m : u[k] = t[k]
       /\ \A j \in 1..n : u[m + j] = <<q, l + j>>
  <2>1. PICK w \in Seq(Nat \X Nat) : w = SubSeq(s, l + 1, l + n) /\ Len(w) = n
    BY <1>9
  <2>2. /\ u \in Seq(Nat \X Nat) /\ Len(u) = Len(t) + Len(w)
        /\ \A k \in 1..Len(t) : u[k] = t[k]
        /\ \A j \in 1..Len(w) : u[Len(t) + j] = w[j]
    BY <1>10, <2>1, Joining
  <2> QED  BY <1>5, <1>9, <2>1, <2>2
<1>12. tx' = u /\ loc' = l + n
  BY <1>1, <1>3, <1>4, <1>7, <1>10 DEF Written
<1>13. /\ l # 0 => m # 0 /\ t[m] = <<q, l>>
       /\ l = 0 => /\ Sent(m)[1] # q
                   /\ Sent(m)[1] # 0 => Sent(m)[2] = RequestLen[Sent(m)[1]]
                   /\ \A r \in (Sent(m)[1] + 1)..(q - 1) : ~Encodable(r)
  <2>1. t # <<>> => m # 0
    BY <1>5
  <2> QED  BY <1>2, <1>3, <1>4, <1>5, <1>6, <2>1 DEF WriteInv
<1>14. Sent(m)[1] \in 0..q /\ Sent(m)[2] \in Nat
  BY <1>2, <1>4, <1>5, SentTypes
<1>15. /\ \A k \in 0..m : Sent(k)' = Sent(k)
       /\ \A j \in 1..n : Sent(m + j)' = <<q, l + j>>
  <2>1. \A k \in 0..m : Sent(k)' = Sent(k)
    <3> TAKE k \in 0..m
    <3>1. CASE k = 0
      BY <3>1 DEF Sent
    <3>2. CASE k # 0
      <4>1. k \in 1..m
        BY <3>2
      <4>2. tx'[k] = tx[k]
        BY <1>4, <1>11, <1>12, <4>1
      <4> QED  BY <3>2, <4>2 DEF Sent
    <3> QED  BY <3>1, <3>2
  <2>2. \A j \in 1..n : m + j # 0
    BY <1>8
  <2>3. \A j \in 1..n : Sent(m + j)' = <<q, l + j>>
    BY <1>11, <1>12, <2>2 DEF Sent
  <2> QED  BY <2>1, <2>3
<1>16. ASSUME NEW k \in 1..(m + n)
       PROVE  u[k][1] \in 1..q /\ Follows(Sent(k - 1)', u[k])
  <2>1. CASE k \in 1..m
    <3>1. Sent(k - 1)' = Sent(k - 1)
      BY <1>15, <2>1
    <3>2. tx[k][1] \in 1..req /\ Follows(Sent(k - 1), tx[k])
      BY <1>4, <1>5, <2>1 DEF WireExact
    <3> QED  BY <1>2, <1>4, <1>11, <2>1, <3>1, <3>2
  <2>2. CASE k = m + 1
    <3>0. 1 \in 1..n
      BY <1>8, <2>2
    <3>1. u[k] = <<q, l + 1>> /\ n >= 1
      <4>1. u[m + 1] = <<q, l + 1>>
        BY <1>11, <3>0
      <4> QED  BY <1>8, <2>2, <3>0, <4>1
    <3>2. Sent(k - 1)' = Sent(m)
      BY <1>15, <2>2
    <3>3. CASE l # 0
      <4>1. Sent(m) = <<q, l>>
        BY <1>4, <1>5, <1>13, <3>3 DEF Sent
      <4>2. l < RequestLen[q]
        <5>1. l < Len(s)
          BY <1>8, <3>1
        <5> QED  BY <1>7, <5>1
      <4>3. Follows(<<q, l>>, <<q, l + 1>>)
        BY <1>8, <4>2 DEF Follows
      <4>4. u[k][1] = q /\ q \in 1..q
        BY <1>8, <3>1
      <4> QED  BY <3>1, <3>2, <4>1, <4>3, <4>4
    <3>4. CASE l = 0
      <4>1. PICK a : a = Sent(m)
        OBVIOUS
      <4>2. a[1] < q
        BY <1>8, <1>13, <1>14, <3>4, <4>1
      <4>3. Follows(a, <<q, 1>>)
        BY <1>6, <1>13, <3>4, <4>1, <4>2 DEF Follows
      <4>4. u[k][1] = q /\ u[k] = <<q, 1>>
        BY <3>1, <3>4
      <4>5. q \in 1..q
        BY <1>8
      <4> QED  BY <3>2, <4>1, <4>3, <4>4, <4>5
    <3> QED  BY <3>3, <3>4
  <2>3. CASE k \in (m + 2)..(m + n)
    <3>1. PICK j \in 1..(n - 1) : k = m + j + 1
      <4>1. k - m - 1 \in 1..(n - 1) /\ k = m + (k - m - 1) + 1
        BY <1>8, <2>3
      <4> QED  BY <4>1
    <3>2. j \in 1..n /\ j + 1 \in 1..n
      BY <1>8, <3>1
    <3>3. u[k] = <<q, l + j + 1>> /\ Sent(k - 1)' = <<q, l + j>>
      <4>1. u[m + (j + 1)] = <<q, l + (j + 1)>> /\ Sent(m + j)' = <<q, l + j>>
        BY <1>11, <1>15, <3>2
      <4>2. m + (j + 1) = k /\ l + (j + 1) = l + j + 1 /\ k - 1 = m + j
        BY <3>1, <3>2
      <4> QED  BY <4>1, <4>2
    <3>4. l + j < RequestLen[q]
      <4>1. l + (j + 1) <= Len(s)
        BY <1>8, <3>2
      <4> QED  BY <1>7, <3>2, <4>1
    <3>5. Follows(<<q, l + j>>, <<q, l + j + 1>>)
      BY <1>8, <3>4 DEF Follows
    <3>6. u[k][1] = q /\ q \in 1..q
      BY <1>8, <3>3
    <3> QED  BY <3>3, <3>5, <3>6
  <2> QED  BY <1>8, <2>1, <2>2, <2>3
<1>17. WireExact'
  <2>1. \A a, b : Follows(a, b)' = Follows(a, b)
    BY DEF Follows
  <2>2. \A k \in 1..Len(u) : u[k][1] \in 1..q /\ Follows(Sent(k - 1)', u[k])
    BY <1>11, <1>16
  <2>3. pc' = "write" /\ req' = q
    BY <1>2, <1>6
  <2> QED  BY <1>12, <2>1, <2>2, <2>3 DEF WireExact
<1>18. WriteInv'
  <2>1. CASE n = 0
    <3>1. Len(u) = m /\ loc' = l
      BY <1>3, <1>8, <1>11, <1>12, <2>1
    <3>2. l # 0 => u # <<>> /\ u[m] = <<q, l>>
      <4> SUFFICES ASSUME l # 0 PROVE u # <<>> /\ u[m] = <<q, l>>
        OBVIOUS
      <4>0. m # 0 /\ t[m] = <<q, l>>
        BY <1>13
      <4>1. m # 0 /\ m \in 1..m /\ t[m] = <<q, l>>
        BY <4>0
      <4>2. u[m] = t[m] /\ Len(u) # 0
        BY <1>11, <3>1, <4>1
      <4>3. u # <<>>
        BY <4>2
      <4> QED  BY <4>1, <4>2, <4>3
    <3>3. Sent(m)' = Sent(m)
      BY <1>15
    <3> QED  BY <1>2, <1>6, <1>8, <1>12, <1>13, <3>1, <3>2, <3>3 DEF WriteInv
  <2>2. CASE n # 0
    <3>1. u[m + n] = <<q, l + n>> /\ l + n # 0 /\ u # <<>>
      BY <1>8, <1>11, <2>2
    <3> QED  BY <1>2, <1>6, <1>8, <1>11, <1>12, <3>1 DEF WriteInv
  <2> QED  BY <2>1, <2>2
<1> QED  BY <1>17, <1>18

\* All of the frame is written.
LEMMA WireDone ==
    ASSUME TypeOK, WriteInv, WireExact, BlockingWriteDone
    PROVE  WriteInv' /\ WireExact'
<1>1. PICK q \in Requests : q = req
  BY ByteTypes DEF BlockingWriteDone, WriteInv, TypeOK
<1>2. /\ encoder = RequestFrame(q) /\ loc = RequestLen[q] /\ loc # 0
      /\ UNCHANGED <<req, tx>> /\ pc' = "idle"
  BY <1>1, RequestFrameIs DEF BlockingWriteDone, WriteInv
<1>3. tx # <<>> /\ tx[Len(tx)] = <<q, RequestLen[q]>>
  BY <1>1, <1>2 DEF BlockingWriteDone, WriteInv
<1>4. Sent(Len(tx)) = <<q, RequestLen[q]>>
  BY <1>3 DEF Sent, TypeOK
<1>5. (q + 1)..q = {}
  BY ByteTypes
<1>6. WholeUpTo(<<q, RequestLen[q]>>)'
  BY <1>1, <1>2, <1>5 DEF WholeUpTo
<1>7. \A k : Sent(k)' = Sent(k)
  BY <1>2 DEF Sent
<1>8. \A a, b : Follows(a, b)' = Follows(a, b)
  BY DEF Follows
<1>9. WireExact'
  BY <1>1, <1>2, <1>4, <1>6, <1>7, <1>8 DEF WireExact
<1>10. WriteInv'
  BY <1>2 DEF WriteInv
<1> QED  BY <1>9, <1>10

\* Every action keeps the wire exact.
LEMMA WireStep ==
    ASSUME TypeOK, WriteInv, WireExact, [Next]_vars
    PROVE  WriteInv' /\ WireExact'
<1>1. CASE SendAhdlc
  BY <1>1, WireSend
<1>2. CASE BlockingWrite
  BY <1>2, WireWrite
<1>3. CASE BlockingWriteDone
  BY <1>3, WireDone
<1>4. CASE BlockingWriteFatal \/ GetAhdlc \/ ReadNothing \/ ReadTimeout \/ PrintUntilClosed
  BY <1>4, WireKept DEF BlockingWriteFatal, GetAhdlc, ReadNothing, ReadTimeout, Return,
     PrintUntilClosed
<1>5. CASE ReadByte
  <2>1. pc = "read" /\ pc' \in {"idle", "read"} /\ UNCHANGED <<req, encoder, loc, tx>>
    BY <1>5, Reading DEF ReadByte, Logs
  <2> QED  BY <2>1, WireKept
<1>6. CASE DeviceTransmit \/ WireFault
  BY <1>6, WireKept DEF DeviceTransmit, WireFault
<1>7. CASE UNCHANGED vars
  BY <1>7, WireKept DEF vars
<1> QED  BY <1>1, <1>2, <1>3, <1>4, <1>5, <1>6, <1>7 DEF Next

-----------------------------------------------------------------------------
(* The end of the frames: overflows, and the bytes a call has counted. *)

\* The entries of the log.
LEMMA LogTypes ==
    ASSUME TypeOK
    PROVE  /\ Len(log) \in Nat /\ decoder.serial \in Nat /\ call.count \in Nat
           /\ \A i \in 1..Len(log) :
                 log[i] \in Entries /\ log[i].serial \in Nat /\ log[i].frame \in Nat
<1>1. log \in Seq(Entries) /\ decoder.serial \in Nat /\ call.count \in Nat
  BY DEF TypeOK, Entries
<1>2. Len(log) \in Nat /\ \A i \in 1..Len(log) : log[i] \in Entries
  BY <1>1
<1>3. \A e \in Entries : e.serial \in Nat /\ e.frame \in Nat
  BY ByteTypes DEF Entries
<1> QED  BY <1>1, <1>2, <1>3

\* One entry more.
LEMMA LogGrows ==
    ASSUME TypeOK, NEW e \in Entries, log' = Append(log, e)
    PROVE  /\ Len(log) \in Nat /\ Len(log') = Len(log) + 1
           /\ \A i \in 1..Len(log) : log'[i] = log[i]
           /\ log'[Len(log) + 1] = e
           /\ \A i \in 1..Len(log') : i \in 1..Len(log) \/ i = Len(log) + 1
<1>1. log \in Seq(Entries)
  BY DEF TypeOK, Entries
<1>2. /\ Len(log) \in Nat /\ Len(log') = Len(log) + 1
      /\ \A i \in 1..Len(log) : log'[i] = log[i]
      /\ log'[Len(log) + 1] = e
  BY <1>1
<1> QED  BY <1>2

OverflowPart == OverflowInv /\ OverflowReportedOnce

\* GetAhdlc forgets the frame it reports as too long.
LEMMA OverflowRead ==
    ASSUME TypeOK, OverflowPart, ReadByte
    PROVE  OverflowPart'
<1>1. PICK n \in Nat : n = decoder.serial
  BY LogTypes
<1>2. PICK n1 \in Nat : n1 = decoder'.serial /\ n <= n1
  BY <1>1, Reading
<1>3. decoder'.state = "frame" /\ n1 = n => decoder.state = "frame"
  BY <1>1, <1>2, Reading
<1>4. \A i \in 1..Len(log) : log[i].serial \in Nat /\ log[i].serial <= n
  BY <1>1, LogTypes DEF OverflowPart, OverflowInv
<1>5. \A i \in 1..Len(log) : log[i].serial <= n1
  BY <1>2, <1>4
<1>6. ASSUME NEW i \in 1..Len(log), log[i].code = "OVERFLOW_ERROR", log[i].serial = n1
      PROVE  decoder'.state # "frame" /\ decoder.state # "frame" /\ n1 = n
  <2>1. n1 = n
    BY <1>2, <1>4, <1>6
  <2>2. decoder.state # "frame"
    BY <1>1, <1>6, <2>1 DEF OverflowPart, OverflowInv
  <2> QED  BY <1>3, <2>1, <2>2
<1>7. CASE log' = log
  <2>1. OverflowInv'
    BY <1>2, <1>5, <1>6, <1>7 DEF OverflowInv
  <2>2. OverflowReportedOnce'
    BY <1>7 DEF OverflowPart, OverflowReportedOnce
  <2> QED  BY <2>1, <2>2 DEF OverflowPart
<1>8. CASE log' # log
  <2>1. PICK e \in Entries :
          /\ log' = Append(log, e) /\ e.serial = n1
          /\ e.code = "OVERFLOW_ERROR" =>
                decoder'.state # "frame" /\ (n1 = n => decoder.state = "frame")
    BY <1>1, <1>2, <1>8, Reading DEF Logs
  <2>2. /\ Len(log) \in Nat /\ Len(log') = Len(log) + 1
        /\ \A i \in 1..Len(log) : log'[i] = log[i]
        /\ log'[Len(log) + 1] = e
        /\ \A i \in 1..Len(log') : i \in 1..Len(log) \/ i = Len(log) + 1
    BY <2>1, LogGrows
  <2>3. \A i \in 1..Len(log') : log'[i].serial <= n1
    BY <1>5, <2>1, <2>2
  <2>4. \A i \in 1..Len(log') :
          log'[i].code = "OVERFLOW_ERROR" /\ log'[i].serial = n1 => decoder'.state # "frame"
    BY <1>6, <2>1, <2>2
  <2>5. OverflowInv'
    BY <1>2, <2>3, <2>4 DEF OverflowInv
  <2>6. OverflowReportedOnce'
    <3> SUFFICES ASSUME NEW i \in 1..Len(log'), NEW j \in 1..Len(log'), i < j,
                        log'[i].code = "OVERFLOW_ERROR", log'[j].code = "OVERFLOW_ERROR"
                 PROVE  log'[i].serial < log'[j].serial
      BY DEF OverflowReportedOnce
    <3>1. i \in 1..Len(log) /\ log'[i] = log[i]
      BY <2>2
    <3>2. CASE j \in 1..Len(log)
      BY <2>2, <3>1, <3>2 DEF OverflowPart, OverflowReportedOnce
    <3>3. CASE j = Len(log) + 1
      <4>1. e.code = "OVERFLOW_ERROR" /\ log'[j].serial = n1
        BY <2>1, <2>2, <3>3
      <4>2. log[i].serial # n1
        <5>1. ASSUME log[i].serial = n1 PROVE FALSE
          <6>1. decoder.state # "frame" /\ n1 = n
            BY <1>6, <3>1, <5>1
          <6> QED  BY <2>1, <4>1, <6>1
        <5> QED  BY <5>1
      <4> QED  BY <1>2, <1>4, <1>5, <3>1, <4>1, <4>2
    <3> QED  BY <2>2, <3>2, <3>3
  <2> QED  BY <2>5, <2>6 DEF OverflowPart
<1> QED  BY <1>7, <1>8

\* Nothing else reports an overflow.
LEMMA OverflowStep ==
    ASSUME TypeOK, OverflowPart, [Next]_vars
    PROVE  OverflowPart'
<1>1. CASE ReadByte
  BY <1>1, OverflowRead
<1>2. CASE ReadTimeout
  <2>1. PICK n \in Nat : n = decoder.serial
    BY LogTypes
  <2>2. PICK e : e = [code |-> "TIMEOUT", frame |-> 0, serial |-> n]
    OBVIOUS
  <2>3. e \in Entries /\ e.code = "TIMEOUT" /\ e.serial = n
    BY <2>2 DEF Entries, Codes
  <2>4. log' = Append(log, e) /\ decoder' = decoder
    BY <1>2, <2>1, <2>2 DEF ReadTimeout, TimeoutResult, Result, Return
  <2>5. /\ Len(log) \in Nat /\ Len(log') = Len(log) + 1
        /\ \A i \in 1..Len(log) : log'[i] = log[i]
        /\ log'[Len(log) + 1] = e
        /\ \A i \in 1..Len(log') : i \in 1..Len(log) \/ i = Len(log) + 1
    BY <2>3, <2>4, LogGrows
  <2>6. OverflowInv'
    <3>1. \A i \in 1..Len(log') : log'[i].serial <= n
      BY <2>1, <2>3, <2>5 DEF OverflowPart, OverflowInv
    <3>2. \A i \in 1..Len(log') :
            log'[i].code = "OVERFLOW_ERROR" /\ log'[i].serial = n => decoder.state # "frame"
      BY <2>1, <2>3, <2>5 DEF OverflowPart, OverflowInv
    <3> QED  BY <2>1, <2>4, <3>1, <3>2 DEF OverflowInv
  <2>7. OverflowReportedOnce'
    BY <2>3, <2>5 DEF OverflowPart, OverflowReportedOnce
  <2> QED  BY <2>6, <2>7 DEF OverflowPart
<1>3. CASE UNCHANGED <<decoder, log>>
  BY <1>3 DEF OverflowPart, OverflowInv, OverflowReportedOnce
<1> QED
  BY <1>1, <1>2, <1>3 DEF Next, vars, SendAhdlc, BlockingWrite, BlockingWriteDone,
     BlockingWriteFatal, GetAhdlc, ReadNothing, DeviceTransmit, WireFault, PrintUntilClosed

\* A call counts every byte of the frames it saw opened.
LEMMA CountStep ==
    ASSUME TypeOK, CountInv, [Next]_vars
    PROVE  CountInv'
<1>1. CASE ReadByte
  <2> SUFFICES ASSUME pc' = "read", call'.entered # "frame", decoder'.state = "frame"
               PROVE  Len(decoder'.body) + 1 <= call'.count
    BY DEF CountInv
  <2>1. PICK n \in Nat : n = call.count
    BY LogTypes
  <2>2. call'.count = n + 1 /\ call.entered # "frame" /\ pc = "read"
    BY <1>1, <2>1, Counting DEF ReadByte
  <2>3. Partial' = decoder'.body
    BY DEF Partial
  <2>4. CASE Partial' = <<>>
    BY <2>2, <2>3, <2>4
  <2>5. CASE Partial' = Append(Partial, Head(rx)) /\ decoder.state = "frame"
    <3>1. PICK s \in Seq(Bytes) : s = decoder.body
      BY DEF TypeOK
    <3>2. Len(s) + 1 <= n
      BY <2>1, <2>2, <2>5, <3>1 DEF CountInv
    <3>3. decoder'.body = Append(s, Head(rx))
      BY <2>3, <2>5, <3>1 DEF Partial
    <3>4. Len(decoder'.body) = Len(s) + 1 /\ Len(s) \in Nat
      BY <3>3
    <3> QED  BY <2>2, <3>2, <3>4
  <2> QED  BY <1>1, <2>4, <2>5, Reading
<1>2. CASE GetAhdlc
  BY <1>2 DEF GetAhdlc, CountInv
<1>3. CASE ReadNothing
  <2>1. call'.entered = call.entered /\ call'.count = call.count
    BY <1>3, Counting
  <2> QED  BY <1>3, <2>1 DEF ReadNothing, CountInv
<1>4. CASE UNCHANGED <<decoder, call>> /\ (pc' = pc \/ pc' # "read")
  BY <1>4 DEF CountInv
<1> QED
  BY <1>1, <1>2, <1>3, <1>4 DEF Next, vars, SendAhdlc, BlockingWrite, BlockingWriteDone,
     BlockingWriteFatal, ReadTimeout, Return, DeviceTransmit, WireFault, PrintUntilClosed

\* The call that reads the closing flag of a good frame returns it.
LEMMA IntactStep ==
    ASSUME TypeOK, CountInv, [Next]_vars, GoodFrameRead
    PROVE  \/ /\ Len(log') = Len(log) + 1
              /\ Last(log').code = "NO_ERROR"
              /\ Last(log').frame = decoder.body[1][1]
           \/ call.entered = "frame" /\ call.count < 7 /\ log' = log
<1>1. ReadByte
  BY DEF GoodFrameRead, Next, vars, SendAhdlc, BlockingWrite, BlockingWriteDone,
     BlockingWriteFatal, GetAhdlc, ReadNothing, ReadTimeout, DeviceTransmit, WireFault,
     PrintUntilClosed
<1>2. PICK b \in Bytes : b = Head(rx)
  BY <1>1, Reading
<1>3. PICK d0 \in Decoders : d0 = decoder
  BY DEF TypeOK, Decoders
<1>4. PICK n \in Nat : n = call.count
  BY LogTypes
<1>5. PICK d : d = DecodeFrameByte(d0, b)
  OBVIOUS
<1>6. PICK r : r = AfterByte(d, n + 1)
  OBVIOUS
<1>7. /\ decoder' = DecoderAfter(d, r)
      /\ IF r = NoResult THEN UNCHANGED <<pc, log, seen>> ELSE Return(r, d)
  BY <1>1, <1>2, <1>3, <1>4, <1>5, <1>6 DEF ReadByte
<1>8. /\ d \in Decoders /\ Sane(d)
      /\ \/ Opens(d0, b, d) \/ Keeps(d0, b, d) \/ Closes(d0, b, d)
         \/ Collects(d0, b, d) \/ Hunts(d0, b, d)
  BY <1>5, Decoding
<1>9. r.code # "OVERFLOW_ERROR" /\ d.state = "good"
  <2>1. CASE r.code = "OVERFLOW_ERROR"
    <3>1. decoder' = [d EXCEPT !.state = "hunt", !.body = <<>>]
      BY <1>7, <2>1 DEF DecoderAfter, AhdlcDecoderInit
    <3>2. decoder'.state = "hunt"
      BY <1>8, <3>1 DEF Decoders
    <3> QED  BY <3>2 DEF GoodFrameRead
  <2>2. CASE r.code # "OVERFLOW_ERROR"
    BY <1>7, <2>2 DEF DecoderAfter, GoodFrameRead
  <2> QED  BY <2>1, <2>2
<1>10. Closes(d0, b, d)
  BY <1>3, <1>8, <1>9 DEF Opens, Keeps, Collects, Hunts, GoodFrameRead
<1>11. PICK f \in Requests : d.body = SubSeq(Frame(f), 2, FrameLen(f) - 1)
  BY <1>8, <1>9 DEF Sane
<1>12. Len(d.body) \in Nat /\ Len(d.body) >= 6 /\ d.body = d0.body
  BY <1>10, <1>11, BodyOf DEF Closes
<1>13. CASE n + 1 > 7
  <2>1. r = Result("NO_ERROR", d.body[1][1])
    BY <1>6, <1>8, <1>9, <1>13, Looking
  <2>2. r.code = "NO_ERROR" /\ r.frame = decoder.body[1][1] /\ r # NoResult
    BY <1>3, <1>12, <2>1 DEF Result, NoResult
  <2>3. PICK e : e = [code |-> r.code, frame |-> r.frame, serial |-> d.serial]
    OBVIOUS
  <2>4. e.code = "NO_ERROR" /\ e.frame = decoder.body[1][1]
    BY <2>2, <2>3
  <2>5. log' = Append(log, e)
    BY <1>7, <2>2, <2>3 DEF Return
  <2>6. PICK w \in Seq(Entries) : w = log
    BY DEF TypeOK, Entries
  <2>7. Len(log') = Len(log) + 1 /\ log'[Len(log')] = e
    BY <2>5, <2>6
  <2> QED  BY <2>4, <2>7 DEF Last
<1>14. CASE ~(n + 1 > 7)
  <2>1. r = NoResult /\ log' = log
    BY <1>6, <1>7, <1>8, <1>14, Looking
  <2>2. ASSUME call.entered # "frame" PROVE FALSE
    <3>1. Len(d0.body) + 1 <= n
      BY <1>3, <1>4, <2>2 DEF CountInv, GoodFrameRead
    <3> QED  BY <1>12, <1>14, <3>1
  <2>3. call.count < 7
    BY <1>4, <1>14
  <2> QED  BY <2>1, <2>2, <2>3
<1> QED  BY <1>13, <1>14

-----------------------------------------------------------------------------
(* From the device to the client.  The lemmas about queues take the queue, *)
(* the body and the device's last byte as values.                          *)

\* A queue without its first byte.
LEMMA Tails ==
    ASSUME NEW S, NEW q \in Seq(S), q # <<>>
    PROVE  /\ Tail(q) \in Seq(S) /\ Len(Tail(q)) \in Nat /\ Len(q) = Len(Tail(q)) + 1
           /\ \A i \in 1..Len(Tail(q)) : Tail(q)[i] = q[i + 1]
           /\ Head(q) = q[1] /\ Head(q) \in S
<1>1. Len(q) \in Nat /\ Len(q) # 0
  OBVIOUS
<1>2. Len(Tail(q)) = Len(q) - 1 /\ \A i \in 1..(Len(q) - 1) : Tail(q)[i] = q[i + 1]
  BY <1>1
<1>3. Head(q) = q[1] /\ Head(q) \in S
  BY <1>1
<1>4. Tail(q) \in Seq(S)
  BY <1>1
<1> QED  BY <1>1, <1>2, <1>3, <1>4

\* A queue without its first byte, which the decoder may have taken.
LEMMA Dequeued ==
    ASSUME NEW a, NEW q \in Seq(Bytes), q # <<>>, NEW p \in Seq(Bytes), NEW T,
           Queued(a, q, T), Decoded(a, q, p, T)
    PROVE  /\ Queued(a, Tail(q), T)
           /\ Decoded(a, Tail(q), <<>>, T)
           /\ Decoded(a, Tail(q), p, T)
           /\ ~IsFlag(Head(q)) => Decoded(a, Tail(q), Append(p, Head(q)), T)
<1>1. PICK t \in Seq(Bytes) : t = Tail(q)
  BY Tails
<1>2. PICK n \in Nat : n = Len(t)
  OBVIOUS
<1>3. Len(q) = n + 1 /\ \A i \in 1..n : t[i] = q[i + 1] /\ i + 1 \in 1..Len(q)
  BY <1>1, <1>2, Tails
<1>4. PICK b \in Bytes : b = Head(q) /\ b = q[1] /\ 1 \in 1..Len(q)
  BY <1>2, <1>3, Tails
<1>5. Queued(a, t, T)
  <2>1. \A i \in 1..n : Genuine(t[i]) => SentBy(a, t[i], T)
    BY <1>3 DEF Queued
  <2>2. \A i, j \in 1..n : i < j /\ Genuine(t[i]) /\ Genuine(t[j]) => Before(t[i], t[j])
    <3> TAKE i, j \in 1..n
    <3>1. t[i] = q[i + 1] /\ t[j] = q[j + 1] /\ i + 1 \in 1..Len(q) /\ j + 1 \in 1..Len(q)
      BY <1>3
    <3>2. i < j => i + 1 < j + 1
      OBVIOUS
    <3> QED  BY <3>1, <3>2 DEF Queued
  <2> QED  BY <1>2, <2>1, <2>2 DEF Queued
<1>6. Decoded(a, t, p, T) /\ Decoded(a, t, <<>>, T)
  <2>1. ASSUME NEW k \in 1..Len(p), Genuine(p[k]), NEW i \in 1..n, Genuine(t[i])
        PROVE  Before(p[k], t[i])
    BY <1>3, <2>1 DEF Decoded
  <2> QED  BY <1>2, <2>1 DEF Decoded
<1>7. ASSUME ~IsFlag(b) PROVE Decoded(a, t, Append(p, b), T)
  <2>1. PICK u : u = Append(p, b)
    OBVIOUS
  <2>2. PICK m \in Nat : m = Len(p)
    OBVIOUS
  <2>3. /\ Len(u) = m + 1 /\ u[m + 1] = b
        /\ \A k \in 1..m : u[k] = p[k]
    BY <2>1, <2>2
  <2> SUFFICES ASSUME NEW k \in 1..(m + 1)
               PROVE  /\ ~IsFlag(u[k])
                      /\ Genuine(u[k]) =>
                            /\ SentBy(a, u[k], T)
                            /\ \A i \in 1..n : Genuine(t[i]) => Before(u[k], t[i])
    BY <1>2, <2>1, <2>3 DEF Decoded
  <2>4. CASE k \in 1..m
    BY <1>2, <1>6, <2>2, <2>3, <2>4 DEF Decoded
  <2>5. CASE k = m + 1
    <3>1. u[k] = q[1] /\ ~IsFlag(u[k])
      BY <1>4, <1>7, <2>3, <2>5
    <3>2. Genuine(q[1]) => SentBy(a, q[1], T)
      BY <1>4 DEF Queued
    <3>3. ASSUME NEW i \in 1..n, Genuine(q[1]), Genuine(t[i])
          PROVE  Before(q[1], t[i])
      <4>1. t[i] = q[i + 1] /\ i + 1 \in 1..Len(q) /\ 1 < i + 1
        BY <1>3
      <4> QED  BY <1>4, <3>3, <4>1 DEF Queued
    <3> QED  BY <3>1, <3>2, <3>3
  <2> QED  BY <2>4, <2>5
<1> QED  BY <1>1, <1>4, <1>5, <1>6, <1>7

\* The reply that was passed stays so when the decoder takes the next byte.
LEMMA StillPassed ==
    ASSUME NEW f \in Requests, NEW a, NEW q \in Seq(Bytes), q # <<>>, NEW p \in Seq(Bytes),
           Passed(f, a, q, p)
    PROVE  /\ Passed(f, a, Tail(q), <<>>)
           /\ Passed(f, a, Tail(q), p)
           /\ ~IsFlag(Head(q)) => Passed(f, a, Tail(q), Append(p, Head(q)))
<1>1. PICK t \in Seq(Bytes) : t = Tail(q)
  BY Tails
<1>2. PICK n \in Nat : n = Len(t)
  OBVIOUS
<1>3. Len(q) = n + 1 /\ \A i \in 1..n : t[i] = q[i + 1] /\ i + 1 \in 1..Len(q)
  BY <1>1, <1>2, Tails
<1>4. PICK b \in Bytes : b = Head(q) /\ b = q[1] /\ 1 \in 1..Len(q)
  BY <1>2, <1>3, Tails
<1>5. Passed(f, a, t, <<>>) /\ Passed(f, a, t, p)
  BY <1>2, <1>3 DEF Passed
<1>6. ASSUME ~IsFlag(b) PROVE Passed(f, a, t, Append(p, b))
  <2>1. PICK m \in Nat : m = Len(p)
    OBVIOUS
  <2>2. /\ Len(Append(p, b)) = m + 1 /\ Append(p, b)[m + 1] = b
        /\ \A k \in 1..m : Append(p, b)[k] = p[k]
    BY <2>1
  <2>3. ASSUME Genuine(b) PROVE f < b[1]
    <3>1. Before(BodyEnd(f), b)
      BY <1>4, <2>3 DEF Passed
    <3>2. b[1] \in Requests /\ b[2] \in 1..FrameLen(b[1]) /\ b[2] # FrameLen(b[1])
      BY <1>6, <2>3, ByteTypes DEF IsFlag
    <3>3. f \in Nat /\ FrameLen(f) \in Nat /\ b[1] \in Nat /\ FrameLen(b[1]) \in Nat
      BY <3>2, ByteTypes
    <3>4. f < b[1] \/ (f = b[1] /\ FrameLen(f) - 1 < b[2])
      BY <3>1 DEF Before, BodyEnd
    <3> QED  BY <3>2, <3>3, <3>4
  <2>4. \A k \in 1..(m + 1) : Genuine(Append(p, b)[k]) => f < Append(p, b)[k][1]
    <3> TAKE k \in 1..(m + 1)
    <3>1. CASE k \in 1..m
      BY <2>1, <2>2, <3>1 DEF Passed
    <3>2. CASE k = m + 1
      BY <2>2, <2>3, <3>2
    <3>3. k \in 1..m \/ k = m + 1
      BY <2>1
    <3> QED  BY <3>1, <3>2, <3>3
  <2> QED  BY <1>5, <2>2, <2>4 DEF Passed
<1> QED  BY <1>1, <1>4, <1>5, <1>6

\* A reply whose whole body was decoded is passed when the body is dropped,
\* and comes after every reply that was passed already.
LEMMA NewlyPassed ==
    ASSUME NEW f \in Requests, NEW a, NEW q \in Seq(Bytes), q # <<>>, NEW p \in Seq(Bytes),
           NEW T, p = SubSeq(Frame(f), 2, FrameLen(f) - 1), Decoded(a, q, p, T)
    PROVE  /\ Passed(f, a, Tail(q), <<>>) /\ f \in T
           /\ \A g \in Requests : Passed(g, a, q, p) => g < f
<1>1. PICK m \in Nat : m = Len(p) /\ m >= 6 /\ p[1] = <<f, 2>> /\ p[m] = BodyEnd(f)
  BY BodyOf
<1>2. 1 \in 1..Len(p) /\ m \in 1..Len(p) /\ f # 0
  <2>1. f # 0
    BY ByteTypes
  <2>2. 1 \in 1..m /\ m \in 1..m
    BY <1>1
  <2> QED  BY <1>1, <2>1, <2>2
<1>3. Genuine(p[1]) /\ Genuine(p[m])
  BY <1>1, <1>2 DEF Genuine, BodyEnd
<1>4. f \in T
  <2>1. SentBy(a, p[1], T)
    BY <1>2, <1>3 DEF Decoded
  <2> QED  BY <1>1, <2>1 DEF SentBy
<1>5. ~Before(a, BodyEnd(f)) /\ \A i \in 1..Len(q) : Genuine(q[i]) => Before(BodyEnd(f), q[i])
  <2>1. SentBy(a, p[m], T) /\ \A i \in 1..Len(q) : Genuine(q[i]) => Before(p[m], q[i])
    BY <1>2, <1>3 DEF Decoded
  <2> QED  BY <1>1, <2>1 DEF SentBy
<1>6. Passed(f, a, q, <<>>)
  BY <1>5 DEF Passed
<1>7. Passed(f, a, Tail(q), <<>>)
  <2>1. <<>> \in Seq(Bytes)
    OBVIOUS
  <2> QED  BY <1>6, <2>1, StillPassed
<1>8. \A g \in Requests : Passed(g, a, q, p) => g < f
  <2> TAKE g \in Requests
  <2> HAVE Passed(g, a, q, p)
  <2>1. g < p[1][1]
    BY <1>2, <1>3 DEF Passed
  <2>2. p[1][1] = f
    BY <1>1
  <2> QED  BY <2>1, <2>2
<1> QED  BY <1>4, <1>7, <1>8

\* The device sends byte b, which the queue gets, or noise for it, or nothing.
LEMMA Enqueued ==
    ASSUME NEW a, a[1] \in Nat, a[2] \in Nat, NEW b \in ReplyBytes,
           NEW q \in Seq(Bytes), NEW p \in Seq(Bytes), NEW T, NEW u,
           u \in {q, Append(q, b), Append(q, Noise), Append(q, NoiseFlag)},
           Before(a, b), b[1] \in T, Queued(a, q, T), Decoded(a, q, p, T)
    PROVE  /\ Queued(b, u, T) /\ Decoded(b, u, p, T)
           /\ \A f \in Requests : Passed(f, a, q, p) => Passed(f, b, u, p)
<1>1. PICK n \in Nat : n = Len(q)
  OBVIOUS
<1>2. \A i \in 1..Len(u) : Genuine(u[i]) =>
         (i \in 1..n /\ u[i] = q[i]) \/ (i = n + 1 /\ u[i] = b)
  <2>1. CASE u = q
    BY <1>1, <2>1
  <2>2. CASE u # q
    <3>1. PICK c \in {b, Noise, NoiseFlag} : u = Append(q, c)
      BY <2>2
    <3>2. /\ Len(u) = n + 1 /\ u[n + 1] = c /\ \A i \in 1..n : u[i] = q[i]
      BY <1>1, <3>1
    <3>3. Genuine(c) => c = b
      BY DEF Genuine, Noise, NoiseFlag
    <3> QED  BY <3>2, <3>3
  <2> QED  BY <2>1, <2>2
<1>3. b[1] \in Nat /\ b[2] \in Nat /\ b[1] # 0
  BY ByteTypes
<1>4. ASSUME NEW x, x[1] \in Nat, x[2] \in Nat, ~Before(a, x)
      PROVE  Before(x, b) /\ ~Before(b, x)
  <2>1. Before(x, b)
    BY <1>3, <1>4, Transitive
  <2> QED  BY <1>3, <1>4, <2>1, Transitive
<1>5. ~Before(b, b)
  BY <1>3 DEF Before
<1>6. /\ \A i \in 1..n : q[i][1] \in Nat /\ q[i][2] \in Nat
      /\ \A k \in 1..Len(p) : p[k][1] \in Nat /\ p[k][2] \in Nat
  <2>1. (\A i \in 1..n : q[i] \in Bytes) /\ (\A k \in 1..Len(p) : p[k] \in Bytes)
    BY <1>1
  <2> QED  BY <2>1, ByteTypes
<1>7. \A i \in 1..n : Genuine(q[i]) => q[i][1] \in T /\ Before(q[i], b) /\ ~Before(b, q[i])
  BY <1>1, <1>4, <1>6 DEF Queued, SentBy
<1>8. \A k \in 1..Len(p) : Genuine(p[k]) => p[k][1] \in T /\ Before(p[k], b) /\ ~Before(b, p[k])
  BY <1>4, <1>6 DEF Decoded, SentBy
<1>9. Queued(b, u, T)
  <2>1. \A i \in 1..Len(u) : Genuine(u[i]) => SentBy(b, u[i], T)
    BY <1>2, <1>5, <1>7 DEF SentBy
  <2>2. ASSUME NEW i \in 1..Len(u), NEW j \in 1..Len(u), i < j, Genuine(u[i]), Genuine(u[j])
        PROVE  Before(u[i], u[j])
    <3>1. Len(u) \in Nat
      BY <1>1
    <3>2. i \in 1..n /\ u[i] = q[i]
      <4>1. CASE i = n + 1
        <5>1. j = n + 1 \/ j \in 1..n
          BY <1>2, <2>2
        <5> QED  BY <2>2, <4>1, <5>1, <3>1
      <4> QED  BY <1>2, <2>2, <4>1
    <3>3. CASE j \in 1..n /\ u[j] = q[j]
      BY <1>1, <2>2, <3>2, <3>3 DEF Queued
    <3>4. CASE u[j] = b
      BY <1>7, <2>2, <3>2, <3>4
    <3> QED  BY <1>2, <2>2, <3>3, <3>4
  <2> QED  BY <2>1, <2>2 DEF Queued
<1>10. Decoded(b, u, p, T)
  <2>1. ASSUME NEW k \in 1..Len(p), Genuine(p[k]), NEW i \in 1..Len(u), Genuine(u[i])
        PROVE  Before(p[k], u[i])
    <3>1. CASE i \in 1..n /\ u[i] = q[i]
      BY <1>1, <2>1, <3>1 DEF Decoded
    <3>2. CASE u[i] = b
      BY <1>8, <2>1, <3>2
    <3> QED  BY <1>2, <2>1, <3>1, <3>2
  <2>2. \A k \in 1..Len(p) : ~IsFlag(p[k]) /\ (Genuine(p[k]) => SentBy(b, p[k], T))
    BY <1>8 DEF Decoded, SentBy
  <2> QED  BY <2>1, <2>2 DEF Decoded
<1>11. ASSUME NEW f \in Requests, Passed(f, a, q, p)
       PROVE  Passed(f, b, u, p)
  <2>1. PICK e : e = BodyEnd(f)
    OBVIOUS
  <2>2. e[1] \in Nat /\ e[2] \in Nat
    BY <2>1, ByteTypes DEF BodyEnd
  <2>3. Before(e, b) /\ ~Before(b, e)
    BY <1>4, <1>11, <2>1, <2>2 DEF Passed
  <2>4. \A i \in 1..Len(u) : Genuine(u[i]) => Before(e, u[i])
    BY <1>1, <1>2, <1>11, <2>1, <2>3 DEF Passed
  <2> QED  BY <1>11, <2>1, <2>3, <2>4 DEF Passed
<1> QED  BY <1>9, <1>10, <1>11

\* The requests the device has received only get more.
LEMMA ReceivedGrows ==
    ASSUME TypeOK, [Next]_vars
    PROVE  \A r : Arrived(r) => Arrived(r)'
<1>1. CASE tx' = tx
  BY <1>1 DEF Arrived
<1>2. CASE BlockingWrite
  <2>1. PICK n \in 0..(Len(encoder) - loc) : tx' = tx \o SubSeq(encoder, loc + 1, loc + n)
    BY <1>2 DEF BlockingWrite, Written
  <2>2. PICK l \in Nat : l = loc
    BY DEF TypeOK
  <2>3. PICK s \in Seq(Nat \X Nat) : s = encoder
    BY DEF TypeOK
  <2>4. PICK t \in Seq(Nat \X Nat) : t = tx
    BY DEF TypeOK
  <2>5. n \in Nat /\ l + n <= Len(s)
    BY <2>2, <2>3 DEF TypeOK
  <2>6. SubSeq(s, l + 1, l + n) \in Seq(Nat \X Nat)
    BY <2>5, Cutting
  <2>7. PICK w \in Seq(Nat \X Nat) : tx' = t \o w
    BY <2>1, <2>2, <2>3, <2>4, <2>6
  <2>8. Len(tx') = Len(t) + Len(w) /\ \A k \in 1..Len(t) : tx'[k] = t[k]
    BY <2>7, Joining
  <2>9. DOMAIN tx' = 1..Len(tx') /\ DOMAIN tx = 1..Len(t)
    BY <2>4, <2>7
  <2>10. \A k \in DOMAIN tx : k \in DOMAIN tx' /\ tx'[k] = tx[k]
    BY <2>4, <2>8, <2>9
  <2> QED  BY <2>10 DEF Arrived, Range
<1> QED
  BY <1>1, <1>2 DEF Next, vars, SendAhdlc, BlockingWriteDone, BlockingWriteFatal, GetAhdlc,
     ReadByte, ReadNothing, ReadTimeout, DeviceTransmit, WireFault, PrintUntilClosed

ReadPart == QueueInv /\ PassedInv /\ InOrderOnce

\* What the queue and the decoder hold.
LEMMA QueueTypes ==
    ASSUME TypeOK
    PROVE  /\ rx \in Seq(Bytes) /\ Partial \in Seq(Bytes)
           /\ answered[1] \in Nat /\ answered[2] \in Nat
<1>1. rx \in Seq(Bytes) /\ decoder.body \in Seq(Bytes) /\ answered \in ReplyBytes \cup {<<0, 0>>}
  BY DEF TypeOK
<1>2. Partial \in Seq(Bytes)
  BY <1>1 DEF Partial
<1>3. CASE answered \in ReplyBytes
  BY <1>1, <1>2, <1>3, ByteTypes
<1>4. CASE answered = <<0, 0>>
  BY <1>1, <1>2, <1>4
<1> QED  BY <1>1, <1>3, <1>4

\* The client's other steps: no byte moves and no reply is handed out.
LEMMA ReadKept ==
    ASSUME ReadPart, UNCHANGED <<answered, rx, decoder>>,
           \A r : Arrived(r) => Arrived(r)',
           \A i \in 1..Len(log') : IsReply(log'[i]) => i \in 1..Len(log) /\ log'[i] = log[i]
    PROVE  ReadPart'
<1>1. PICK q : q = rx
  OBVIOUS
<1>2. PICK p : p = Partial
  OBVIOUS
<1>3. PICK a : a = answered
  OBVIOUS
<1>4. rx' = q /\ Partial' = p /\ answered' = a
  BY <1>1, <1>2, <1>3 DEF Partial
<1>5. Received \subseteq Received'
  BY DEF Received
<1>6. Queued(a, q, Received) /\ Decoded(a, q, p, Received)
  BY <1>1, <1>2, <1>3 DEF ReadPart, QueueInv
<1>7. Queued(a, q, Received') /\ Decoded(a, q, p, Received')
  BY <1>5, <1>6 DEF Queued, Decoded, SentBy
<1>8. QueueInv'
  BY <1>4, <1>7 DEF QueueInv
<1>9. PassedInv'
  <2> SUFFICES ASSUME NEW m \in 1..Len(log'), IsReply(log'[m])
               PROVE  Passed(log'[m].frame, a, q, p)
    BY <1>4 DEF PassedInv, IsReply
  <2>1. m \in 1..Len(log) /\ log'[m] = log[m]
    OBVIOUS
  <2> QED  BY <1>1, <1>2, <1>3, <2>1 DEF ReadPart, PassedInv
<1>10. InOrderOnce'
  <2>1. ASSUME NEW i \in 1..Len(log'), NEW j \in 1..Len(log'), i < j,
               IsReply(log'[i]), IsReply(log'[j])
        PROVE  log'[i].frame < log'[j].frame
    BY <2>1 DEF ReadPart, InOrderOnce
  <2>2. ASSUME NEW i \in 1..Len(log'), IsReply(log'[i])
        PROVE  Arrived(log[i].frame)'
    <3>1. PICK f : f = log[i].frame
      OBVIOUS
    <3>2. Arrived(f) /\ log'[i].frame = f
      BY <2>2, <3>1 DEF ReadPart, InOrderOnce
    <3> QED  BY <3>2 DEF Arrived
  <2> QED  BY <2>1, <2>2 DEF InOrderOnce, IsReply
<1> QED  BY <1>8, <1>9, <1>10 DEF ReadPart

\* The device transmits.
LEMMA ReadTransmit ==
    ASSUME TypeOK, ReadPart, NEW b \in ReplyBytes, Transmits(b)
    PROVE  ReadPart'
<1>1. PICK q \in Seq(Bytes) : q = rx
  BY QueueTypes
<1>2. PICK p \in Seq(Bytes) : p = Partial
  BY QueueTypes
<1>3. PICK a : a = answered /\ a[1] \in Nat /\ a[2] \in Nat
  BY QueueTypes
<1>4. PICK T : T = Received
  OBVIOUS
<1>5. PICK u : u = rx'
  OBVIOUS
<1>6. /\ u \in {q, Append(q, b), Append(q, Noise), Append(q, NoiseFlag)}
      /\ Partial' = p /\ answered' = b /\ Received' = T
      /\ log' = log /\ tx' = tx
  BY <1>1, <1>2, <1>4, <1>5 DEF Transmits, Partial, Received, Arrived
<1>7. Queued(a, q, T) /\ Decoded(a, q, p, T)
  BY <1>1, <1>2, <1>3, <1>4 DEF ReadPart, QueueInv
<1>8. b[1] \in Requests /\ b[1] \in Nat /\ b[2] \in Nat
  BY ByteTypes
<1>9. Before(a, b) /\ b[1] \in T
  <2>1. CASE Answering
    <3>1. b = <<a[1], a[2] + 1>> /\ a[1] # 0
      BY <1>3, <2>1 DEF Transmits, NextByte, Answering
    <3>2. b[1] = a[1] /\ b[2] = a[2] + 1
      BY <3>1
    <3>3. a[1] \in T
      BY <1>7, <3>1 DEF Queued
    <3> QED  BY <1>3, <3>2, <3>3 DEF Before
  <2>2. CASE ~Answering
    <3>1. b[1] > a[1] /\ Arrived(b[1])
      BY <1>3, <2>2 DEF Transmits, NextByte
    <3> QED  BY <1>3, <1>4, <1>8, <3>1 DEF Before, Received
  <2> QED  BY <2>1, <2>2
<1>10. /\ Queued(b, u, T) /\ Decoded(b, u, p, T)
       /\ \A f \in Requests : Passed(f, a, q, p) => Passed(f, b, u, p)
  BY <1>3, <1>6, <1>7, <1>9, Enqueued
<1>11. QueueInv'
  BY <1>5, <1>6, <1>10 DEF QueueInv
<1>12. PassedInv'
  <2> SUFFICES ASSUME NEW m \in 1..Len(log), IsReply(log[m])
               PROVE  Passed(log[m].frame, b, u, p)
    BY <1>5, <1>6 DEF PassedInv, IsReply
  <2>1. Passed(log[m].frame, a, q, p)
    BY <1>1, <1>2, <1>3 DEF ReadPart, PassedInv
  <2>2. log[m].frame \in Requests
    BY LogTypes DEF Entries, IsReply
  <2> QED  BY <1>10, <2>1, <2>2
<1>13. InOrderOnce'
  BY <1>6 DEF ReadPart, InOrderOnce, IsReply, Arrived
<1> QED  BY <1>11, <1>12, <1>13 DEF ReadPart

\* The client, or the print thread, takes the first byte of the queue.
LEMMA ReadTake ==
    ASSUME TypeOK, ReadPart, rx # <<>>, rx' = Tail(rx), UNCHANGED <<tx, answered>>,
           \/ Partial' \in {Partial, <<>>}
           \/ Partial' = Append(Partial, Head(rx)) /\ ~IsFlag(Head(rx)),
           \/ log' = log
           \/ \E e \in Entries :
                 /\ log' = Append(log, e)
                 /\ IsReply(e) =>
                       /\ Partial' = <<>> /\ e.frame \in Requests
                       /\ Partial = SubSeq(Frame(e.frame), 2, FrameLen(e.frame) - 1)
    PROVE  ReadPart'
<1>1. PICK q \in Seq(Bytes) : q = rx /\ q # <<>>
  BY QueueTypes
<1>2. PICK p \in Seq(Bytes) : p = Partial
  BY QueueTypes
<1>3. PICK a : a = answered
  OBVIOUS
<1>4. PICK T : T = Received
  OBVIOUS
<1>5. PICK p1 : p1 = Partial'
  OBVIOUS
<1>6. /\ p1 \in {p, <<>>} \/ (p1 = Append(p, Head(q)) /\ ~IsFlag(Head(q)))
      /\ rx' = Tail(q) /\ answered' = a /\ Received' = T
  BY <1>1, <1>2, <1>3, <1>4, <1>5 DEF Received, Arrived
<1>7. Queued(a, q, T) /\ Decoded(a, q, p, T)
  BY <1>1, <1>2, <1>3, <1>4 DEF ReadPart, QueueInv
<1>8. Queued(a, Tail(q), T) /\ Decoded(a, Tail(q), p1, T)
  BY <1>1, <1>6, <1>7, Dequeued
<1>9. QueueInv'
  BY <1>5, <1>6, <1>8 DEF QueueInv
<1>10. \A i \in 1..Len(log) : IsReply(log[i]) =>
          /\ log[i].frame \in Requests
          /\ Passed(log[i].frame, a, q, p) /\ Passed(log[i].frame, a, Tail(q), p1)
  <2> TAKE i \in 1..Len(log)
  <2> HAVE IsReply(log[i])
  <2>1. log[i].frame \in Requests
    BY LogTypes DEF Entries, IsReply
  <2>2. Passed(log[i].frame, a, q, p)
    BY <1>1, <1>2, <1>3 DEF ReadPart, PassedInv
  <2>3. Passed(log[i].frame, a, Tail(q), p1)
    BY <1>1, <1>6, <2>1, <2>2, StillPassed
  <2> QED  BY <2>1, <2>2, <2>3
<1>11. CASE log' = log
  <2>1. PassedInv'
    BY <1>5, <1>6, <1>10, <1>11 DEF PassedInv, IsReply
  <2>2. InOrderOnce'
    BY <1>11 DEF ReadPart, InOrderOnce, IsReply, Arrived
  <2> QED  BY <1>9, <2>1, <2>2 DEF ReadPart
<1>12. CASE log' # log
  <2>1. PICK e \in Entries :
          /\ log' = Append(log, e)
          /\ IsReply(e) => /\ p1 = <<>> /\ e.frame \in Requests
                           /\ p = SubSeq(Frame(e.frame), 2, FrameLen(e.frame) - 1)
    BY <1>2, <1>5, <1>12
  <2>2. /\ Len(log) \in Nat /\ Len(log') = Len(log) + 1
        /\ \A i \in 1..Len(log) : log'[i] = log[i]
        /\ log'[Len(log) + 1] = e
        /\ \A i \in 1..Len(log') : i \in 1..Len(log) \/ i = Len(log) + 1
    BY <2>1, LogGrows
  <2>3. IsReply(e) => /\ Passed(e.frame, a, Tail(q), p1) /\ e.frame \in T
                      /\ \A g \in Requests : Passed(g, a, q, p) => g < e.frame
    BY <1>1, <1>7, <2>1, NewlyPassed
  <2>4. PassedInv'
    <3> SUFFICES ASSUME NEW m \in 1..Len(log'), IsReply(log'[m])
                 PROVE  Passed(log'[m].frame, a, Tail(q), p1)
      BY <1>5, <1>6 DEF PassedInv, IsReply
    <3> QED  BY <1>10, <2>2, <2>3
  <2>5. InOrderOnce'
    <3>1. ASSUME NEW i \in 1..Len(log'), NEW j \in 1..Len(log'), i < j,
                 IsReply(log'[i]), IsReply(log'[j])
          PROVE  log'[i].frame < log'[j].frame
      <4>1. i \in 1..Len(log) /\ log'[i] = log[i]
        BY <2>2, <3>1
      <4>2. CASE j \in 1..Len(log)
        BY <2>2, <3>1, <4>1, <4>2 DEF ReadPart, InOrderOnce
      <4>3. CASE j = Len(log) + 1
        BY <1>10, <2>2, <2>3, <3>1, <4>1, <4>3
      <4> QED  BY <2>2, <4>2, <4>3
    <3>2. ASSUME NEW i \in 1..Len(log'), IsReply(log'[i])
          PROVE  Arrived(log[i].frame)'
      <4>1. CASE i \in 1..Len(log)
        BY <2>2, <3>2, <4>1 DEF ReadPart, InOrderOnce, Arrived
      <4>2. CASE i = Len(log) + 1
        BY <1>4, <2>2, <2>3, <3>2, <4>2 DEF Received, Arrived
      <4> QED  BY <2>2, <4>1, <4>2
    <3> QED  BY <3>1, <3>2 DEF InOrderOnce, IsReply
  <2> QED  BY <1>9, <2>4, <2>5 DEF ReadPart
<1> QED  BY <1>11, <1>12

\* Every action keeps the order of the replies.
LEMMA ReadStep ==
    ASSUME TypeOK, ReadPart, [Next]_vars
    PROVE  ReadPart'
<1>1. CASE ReadByte
  <2>1. UNCHANGED <<tx, answered>>
    BY <1>1 DEF ReadByte
  <2>2. \/ log' = log
        \/ \E e \in Entries :
              /\ log' = Append(log, e)
              /\ IsReply(e) =>
                    /\ Partial' = <<>> /\ e.frame \in Requests
                    /\ Partial = SubSeq(Frame(e.frame), 2, FrameLen(e.frame) - 1)
    BY <1>1, Reading DEF Logs
  <2>3. /\ rx # <<>> /\ rx' = Tail(rx)
        /\ \/ Partial' \in {Partial, <<>>}
           \/ Partial' = Append(Partial, Head(rx)) /\ ~IsFlag(Head(rx))
    BY <1>1, Reading
  <2> QED  BY <2>1, <2>2, <2>3, ReadTake
<1>2. CASE PrintUntilClosed
  <2>1. Partial' = Partial /\ rx # <<>> /\ rx' = Tail(rx) /\ UNCHANGED <<tx, answered, log>>
    BY <1>2 DEF PrintUntilClosed, Partial
  <2> QED  BY <2>1, ReadTake
<1>3. CASE DeviceTransmit \/ WireFault
  BY <1>3, Transmitting, ReadTransmit
<1>4. CASE ReadTimeout
  <2>1. PICK e : e = [code |-> "TIMEOUT", frame |-> 0, serial |-> decoder.serial]
    OBVIOUS
  <2>2. e \in Entries /\ ~IsReply(e)
    BY <2>1, LogTypes DEF Entries, Codes, IsReply
  <2>3. log' = Append(log, e) /\ UNCHANGED <<answered, rx, decoder>>
    BY <1>4, <2>1 DEF ReadTimeout, TimeoutResult, Result, Return
  <2>4. \A i \in 1..Len(log') : IsReply(log'[i]) => i \in 1..Len(log) /\ log'[i] = log[i]
    BY <2>2, <2>3, LogGrows
  <2> QED  BY <2>3, <2>4, ReadKept, ReceivedGrows
<1>5. CASE UNCHANGED <<answered, rx, decoder, log>>
  BY <1>5, ReadKept, ReceivedGrows
<1> QED
  BY <1>1, <1>2, <1>3, <1>4, <1>5 DEF Next, vars, SendAhdlc, BlockingWrite,
     BlockingWriteDone, BlockingWriteFatal, GetAhdlc, ReadNothing

-----------------------------------------------------------------------------

\* The transport starts in the invariant.
LEMMA InitIInv == Init => IInv
<1> SUFFICES ASSUME Init PROVE IInv
  OBVIOUS
<1>1. /\ req \in 0..Len(DataLen) /\ faults \in 0..MaxFaults /\ printed \in 0..MaxPrinted
  BY TransportAssumption, ByteTypes DEF Init
<1>2. /\ decoder \in Decoders /\ call \in Calls
  BY DEF Init, Decoders, Calls, DecoderStates
<1>3. /\ pc = "idle" /\ encoder = <<>> /\ loc = 0 /\ tx = <<>> /\ answered = <<0, 0>>
      /\ rx = <<>> /\ log = <<>> /\ seen = <<>> /\ decoder.body = <<>> /\ req = 0
      /\ decoder.state = "hunt"
  BY DEF Init
<1>4. TypeOK
  <2>1. loc \in 0..Len(encoder)
    BY <1>3
  <2>2. log \in Seq(Entries)
    BY <1>3
  <2> QED  BY <1>1, <1>2, <1>3, <2>1, <2>2 DEF TypeOK, Decoders, Calls, Entries
<1>5. Len(tx) = 0 /\ Len(rx) = 0 /\ Len(log) = 0 /\ Len(Partial) = 0
  BY <1>3 DEF Partial
<1>6. WriteInv /\ OverflowInv /\ OverflowReportedOnce /\ CountInv /\ PassedInv /\ InOrderOnce
  BY <1>3, <1>5 DEF WriteInv, OverflowInv, OverflowReportedOnce, CountInv, PassedInv,
     InOrderOnce
<1>7. WireExact
  BY <1>3, <1>5 DEF WireExact, Sent, WholeUpTo
<1>8. QueueInv
  BY <1>3, <1>5 DEF QueueInv, Queued, Decoded
<1> QED  BY <1>4, <1>6, <1>7, <1>8 DEF IInv

\* Every step keeps the invariant.
LEMMA NextIInv ==
    ASSUME IInv, [Next]_vars
    PROVE  IInv'
<1>1. TypeOK'
  BY TypeStep DEF IInv
<1>2. WriteInv' /\ WireExact'
  BY WireStep DEF IInv
<1>3. OverflowInv' /\ OverflowReportedOnce'
  BY OverflowStep DEF IInv, OverflowPart
<1>4. CountInv'
  BY CountStep DEF IInv
<1>5. QueueInv' /\ PassedInv' /\ InOrderOnce'
  BY ReadStep DEF IInv, ReadPart
<1> QED  BY <1>1, <1>2, <1>3, <1>4, <1>5 DEF IInv

\* IInv is an invariant of the transport.
THEOREM Invariance == Spec => []IInv
<1>1. IInv /\ [Next]_vars => IInv'
  BY NextIInv
<1> QED  BY InitIInv, <1>1, PTL DEF Spec

\* Every variable of the transport keeps its type.
THEOREM TypeCorrect == Spec => []TypeOK
BY Invariance, PTL DEF IInv

\* Whatever the wire loses, damages or delays, and wherever the calls of
\* GetAhdlc cut the stream: replies come out in order, once, and only to
\* requests that were written in full.
THEOREM InOrderOnceHolds == Spec => []InOrderOnce
BY Invariance, PTL DEF IInv

\* BlockingWrite puts whole requests on the wire however write() splits them.
THEOREM WireExactHolds == Spec => []WireExact
BY Invariance, PTL DEF IInv

\* A frame that is too long is reported as an overflow once.
THEOREM OverflowReportedOnceHolds == Spec => []OverflowReportedOnce
BY Invariance, PTL DEF IInv

\* A good frame is returned by the call that reads its closing flag, unless
\* that call began inside the frame and read fewer than eight bytes.
THEOREM IntactFrameReturnedHolds == Spec => IntactFrameReturned
<1>1. IInv /\ [Next]_vars =>
        [GoodFrameRead =>
           \/ /\ Len(log') = Len(log) + 1
              /\ Last(log').code = "NO_ERROR"
              /\ Last(log').frame = decoder.body[1][1]
           \/ call.entered = "frame" /\ call.count < 7 /\ log' = log]_vars
  BY IntactStep DEF IInv
<1> QED  BY Invariance, <1>1, PTL DEF Spec, IntactFrameReturned

-----------------------------------------------------------------------------
(* The transport implements the channel.                                   *)

\* The last reply handed out is of a request that was sent.
SeenInv == \E m \in SeenRequests \cup {0} : \A k \in SeenRequests : k <= m

RInv == IInv /\ SeenInv

\* A request the device has received was sent.
LEMMA ArrivedSent ==
    ASSUME IInv, NEW f \in Requests, Arrived(f)
    PROVE  f \in 1..req
<1>1. tx \in Seq(Nat \X Nat)
  BY DEF IInv, TypeOK
<1>2. <<f, RequestLen[f]>> \in Range(tx)
  BY RequestFrameIs DEF Arrived
<1>3. PICK k \in 1..Len(tx) : tx[k] = <<f, RequestLen[f]>>
  <2>1. DOMAIN tx = 1..Len(tx)
    BY <1>1
  <2> QED  BY <1>2, <2>1 DEF Range
<1>4. tx[k][1] \in 1..req
  BY DEF IInv, WireExact
<1> QED  BY <1>3, <1>4

\* The requests whose replies were handed out were sent.
LEMMA SeenTypes ==
    ASSUME IInv
    PROVE  SeenRequests \subseteq 1..req /\ req \in Nat
<1>1. req \in Nat
  BY ByteTypes DEF IInv, TypeOK
<1>2. ASSUME NEW i \in 1..Len(log), IsReply(log[i])
      PROVE  log[i].frame \in 1..req
  <2>1. log[i].frame \in Requests
    BY <1>2, LogTypes DEF IInv, Entries, IsReply
  <2>2. Arrived(log[i].frame)
    BY <1>2 DEF IInv, InOrderOnce
  <2> QED  BY <2>1, <2>2, ArrivedSent
<1> QED  BY <1>1, <1>2 DEF SeenRequests

\* LastSeen is what its name says.
LEMMA LastSeenFacts ==
    ASSUME IInv, SeenInv
    PROVE  /\ LastSeen \in SeenRequests \cup {0}
           /\ \A k \in SeenRequests : k <= LastSeen
           /\ LastSeen \in 0..req
<1>1. LastSeen \in SeenRequests \cup {0} /\ \A k \in SeenRequests : k <= LastSeen
  BY DEF SeenInv, LastSeen
<1> QED  BY <1>1, SeenTypes

\* A step that hands out no reply and sends nothing leaves the channel alone.
LEMMA Silent ==
    ASSUME RInv, UNCHANGED <<req, seen>>, SeenRequests' = SeenRequests
    PROVE  SeenInv' /\ UNCHANGED Channel!channelVars
<1>1. SeenInv' /\ LastSeen' = LastSeen
  BY DEF RInv, SeenInv, LastSeen
<1> QED  BY <1>1 DEF Channel!channelVars

\* A greatest member of a set of numbers is the one LastSeen chooses.
LEMMA LastSeenIs ==
    ASSUME NEW R \in SUBSET Nat, NEW m \in R \cup {0}, \A k \in R : k <= m
    PROVE  m = CHOOSE x \in R \cup {0} : \A k \in R : k <= x
<1>1. ASSUME NEW c \in R \cup {0}, \A k \in R : k <= c
      PROVE  c = m
  <2>1. c \in Nat /\ m \in Nat /\ c <= m /\ m <= c
    BY <1>1
  <2> QED  BY <2>1
<1>2. \E x \in R \cup {0} : \A k \in R : k <= x
  OBVIOUS
<1> QED  BY <1>1, <1>2

\* One more request behind those that are pending.
LEMMA PendingAppended ==
    ASSUME NEW a \in Nat, NEW n \in Nat, a <= n
    PROVE  [i \in 1..(n + 1 - a) |-> a + i] = Append([i \in 1..(n - a) |-> a + i], n + 1)
<1> DEFINE p == [i \in 1..(n - a) |-> a + i]
<1>1. p \in Seq(Nat) /\ Len(p) = n - a /\ n - a \in Nat
  OBVIOUS
<1>2. /\ Append(p, n + 1) \in Seq(Nat) /\ Len(Append(p, n + 1)) = n - a + 1
      /\ \A i \in 1..(n - a) : Append(p, n + 1)[i] = a + i
      /\ Append(p, n + 1)[n - a + 1] = n + 1
  BY <1>1
<1> QED  BY <1>1, <1>2

\* What is pending behind the request f.
LEMMA PendingBehind ==
    \A a, n, f \in Nat : a < f /\ f <= n =>
        /\ f - a \in DOMAIN [i \in 1..(n - a) |-> a + i]
        /\ [i \in 1..(n - a) |-> a + i][f - a] = f
        /\ Len([i \in 1..(n - a) |-> a + i]) = n - a
        /\ SubSeq([i \in 1..(n - a) |-> a + i], f - a + 1, n - a) =
             [i \in 1..(n - f) |-> f + i]
<1> TAKE a, n, f \in Nat
<1> HAVE a < f /\ f <= n
<1> DEFINE p == [i \in 1..(n - a) |-> a + i]
<1>1. p \in Seq(Nat) /\ Len(p) = n - a /\ n - a \in Nat
  OBVIOUS
<1>2. SubSeq(p, f - a + 1, n - a) = [i \in 1..(n - f) |-> f + i]
  BY <1>1
<1>3. f - a \in DOMAIN p /\ p[f - a] = f
  OBVIOUS
<1> QED  BY <1>1, <1>2, <1>3

\* A send is the channel's SendData, of the number the request gets.
LEMMA SendMaps ==
    ASSUME RInv, SendAhdlc
    PROVE  SeenInv' /\ \E r \in Requests : Channel!SendData(r)
<1>1. log' = log /\ req' = req + 1 /\ seen' = <<>>
  BY DEF SendAhdlc
<1>2. SeenRequests' = SeenRequests
  BY <1>1 DEF SeenRequests, IsReply
<1>3. LastSeen' = LastSeen /\ LastSeen \in 0..req /\ req \in Nat
  BY <1>2, LastSeenFacts, SeenTypes DEF RInv, LastSeen
<1>4. [i \in 1..(req' - LastSeen') |-> LastSeen' + i] =
        Append([i \in 1..(req - LastSeen) |-> LastSeen + i], req + 1)
  BY <1>1, <1>3, PendingAppended
<1>5. SeenInv'
  BY <1>2 DEF RInv, SeenInv
<1>6. PICK r \in Requests : r = req + 1
  BY <1>3, ByteTypes DEF SendAhdlc
<1>7. Channel!SendData(r)
  BY <1>1, <1>4, <1>6 DEF Channel!SendData
<1> QED  BY <1>5, <1>7

\* GetAhdlc is the channel's GetData when it hands out a reply.
LEMMA ReadMaps ==
    ASSUME RInv, IInv', ReadByte
    PROVE  /\ SeenInv'
           /\ \/ \E i \in 1..(req - LastSeen) : Channel!GetData(i)
              \/ UNCHANGED Channel!channelVars
<1>1. IInv /\ TypeOK /\ req \in Nat /\ req' = req /\ tx' = tx
  BY SeenTypes DEF RInv, IInv, ReadByte
<1>2. CASE UNCHANGED <<pc, log, seen>>
  <2>1. SeenRequests' = SeenRequests
    BY <1>2 DEF SeenRequests, IsReply
  <2> QED  BY <1>1, <1>2, <2>1, Silent
<1>3. CASE ~UNCHANGED <<pc, log, seen>>
  <2>1. PICK e \in Entries : Logs(e)
    BY <1>1, <1>3, Reading
  <2>2. log' = Append(log, e) /\ seen' = IF IsReply(e) THEN Append(seen, e.frame) ELSE seen
    BY <2>1 DEF Logs
  <2>3. /\ Len(log) \in Nat /\ Len(log') = Len(log) + 1
        /\ \A i \in 1..Len(log) : log'[i] = log[i]
        /\ log'[Len(log) + 1] = e
    BY <1>1, <2>2, LogGrows
  <2>4. 1..Len(log') = 1..Len(log) \cup {Len(log) + 1} /\ Len(log) + 1 \notin 1..Len(log)
    BY <2>3
  <2>5. SeenRequests' = {log'[i].frame : i \in {j \in 1..Len(log') : IsReply(log'[j])}}
    BY DEF SeenRequests, IsReply
  <2>6. CASE ~IsReply(e)
    <3>1. {j \in 1..Len(log') : IsReply(log'[j])} = {j \in 1..Len(log) : IsReply(log[j])}
      BY <2>3, <2>4, <2>6
    <3>2. SeenRequests' = SeenRequests
      BY <2>3, <2>5, <3>1 DEF SeenRequests
    <3> QED  BY <1>1, <2>2, <2>6, <3>2, Silent
  <2>7. CASE IsReply(e)
    <3>1. {j \in 1..Len(log') : IsReply(log'[j])} =
             {j \in 1..Len(log) : IsReply(log[j])} \cup {Len(log) + 1}
      BY <2>3, <2>4, <2>7
    <3>2. SeenRequests' = SeenRequests \cup {e.frame}
      BY <2>3, <2>5, <3>1 DEF SeenRequests
    <3>3. e.frame \in 1..req
      <4>1. e.frame \in Requests
        BY <2>7 DEF Entries, IsReply
      <4>2. PICK n \in 1..Len(log') : n = Len(log) + 1
        BY <2>3
      <4>3. Arrived(log[n].frame)' /\ log'[n] = e
        BY <2>3, <2>7, <4>2 DEF IInv, InOrderOnce, IsReply
      <4>4. Arrived(e.frame)
        BY <1>1, <4>3 DEF Arrived
      <4> QED  BY <1>1, <4>1, <4>4, ArrivedSent
    <3>4. \A k \in SeenRequests : k < e.frame
      <4> SUFFICES ASSUME NEW i \in 1..Len(log), IsReply(log[i])
                   PROVE  log[i].frame < e.frame
        BY DEF SeenRequests
      <4>1. /\ i \in 1..Len(log') /\ Len(log) + 1 \in 1..Len(log') /\ i < Len(log) + 1
            /\ log'[i] = log[i]
        BY <2>3
      <4> QED  BY <2>3, <2>7, <4>1 DEF IInv, InOrderOnce, IsReply
    <3>5. SeenRequests \in SUBSET Nat /\ e.frame \in Nat
      BY <1>1, <3>3, SeenTypes
    <3>6. e.frame \in SeenRequests' /\ \A k \in SeenRequests' : k <= e.frame
      BY <3>2, <3>4, <3>5
    <3>7. LastSeen' = e.frame
      <4>1. SeenRequests' \in SUBSET Nat /\ e.frame \in SeenRequests' \cup {0}
        BY <3>2, <3>5
      <4> QED  BY <3>6, <4>1, LastSeenIs DEF LastSeen
    <3>8. SeenInv'
      BY <3>6 DEF SeenInv
    <3>9. LastSeen \in 0..req /\ LastSeen < e.frame
      BY <3>3, <3>4, LastSeenFacts DEF RInv
    <3> DEFINE pending == [k \in 1..(req - LastSeen) |-> LastSeen + k]
    <3>10. /\ e.frame - LastSeen \in DOMAIN pending
           /\ pending[e.frame - LastSeen] = e.frame
           /\ Len(pending) = req - LastSeen
           /\ SubSeq(pending, e.frame - LastSeen + 1, req - LastSeen) =
                [k \in 1..(req - e.frame) |-> e.frame + k]
      <4>1. LastSeen \in Nat /\ e.frame \in Nat /\ e.frame <= req /\ LastSeen < e.frame
        BY <1>1, <3>3, <3>9
      <4>2. PICK a \in Nat, n \in Nat, f \in Nat : a = LastSeen /\ n = req /\ f = e.frame
        BY <1>1, <4>1
      <4>3. a < f /\ f <= n
        BY <4>1, <4>2
      <4>4. /\ f - a \in DOMAIN [i \in 1..(n - a) |-> a + i]
            /\ [i \in 1..(n - a) |-> a + i][f - a] = f
            /\ Len([i \in 1..(n - a) |-> a + i]) = n - a
            /\ SubSeq([i \in 1..(n - a) |-> a + i], f - a + 1, n - a) =
                 [i \in 1..(n - f) |-> f + i]
        BY <4>3, PendingBehind
      <4> QED  BY <4>2, <4>4
    <3>11. [k \in 1..(req' - LastSeen') |-> LastSeen' + k] =
             SubSeq(pending, e.frame - LastSeen + 1, Len(pending))
      BY <1>1, <3>7, <3>10
    <3>12. seen' = Append(seen, pending[e.frame - LastSeen])
      BY <2>2, <2>7, <3>10
    <3>13. PICK d \in 1..(req - LastSeen) : d = e.frame - LastSeen
      BY <3>10
    <3>14. Channel!GetData(d)
      BY <3>10, <3>11, <3>12, <3>13 DEF Channel!GetData
    <3> QED  BY <3>8, <3>14
  <2> QED  BY <2>6, <2>7
<1> QED  BY <1>2, <1>3

\* Whatever bytes the wire loses and whichever calls time out, SendAhdlc and
\* GetAhdlc are a channel on which each reply answers a request sent before it,
\* replies keep the order of the requests and none comes twice.
THEOREM ChannelImplemented == Spec => ImplementsChannel
<1>1. Init => RInv /\ Channel!ChannelInit
  <2> SUFFICES ASSUME Init PROVE RInv /\ Channel!ChannelInit
    OBVIOUS
  <2>1. SeenRequests = {} /\ req = 0 /\ seen = <<>>
    BY DEF Init, SeenRequests
  <2>2. IInv /\ SeenInv
    BY <2>1, InitIInv DEF SeenInv
  <2>3. LastSeen = 0
    BY <2>1 DEF LastSeen
  <2>4. [i \in 1..(req - LastSeen) |-> LastSeen + i] = <<>>
    BY <2>1, <2>3
  <2> QED  BY <2>1, <2>2, <2>4 DEF RInv, Channel!ChannelInit
<1>2. RInv /\ IInv' /\ [Next]_vars => RInv' /\ [Channel!ChannelNext]_Channel!channelVars
  <2> SUFFICES ASSUME RInv, IInv', [Next]_vars
               PROVE  RInv' /\ [Channel!ChannelNext]_Channel!channelVars
    OBVIOUS
  <2>1. CASE SendAhdlc
    BY <2>1, SendMaps DEF RInv, Channel!ChannelNext
  <2>2. CASE ReadByte
    <3>1. DOMAIN [i \in 1..(req - LastSeen) |-> LastSeen + i] = 1..(req - LastSeen)
      OBVIOUS
    <3> QED  BY <2>2, <3>1, ReadMaps DEF RInv, Channel!ChannelNext
  <2>3. CASE ReadTimeout
    <3>1. PICK e : e = [code |-> "TIMEOUT", frame |-> 0, serial |-> decoder.serial]
      OBVIOUS
    <3>2. e \in Entries /\ ~IsReply(e) /\ TypeOK
      BY <3>1, LogTypes DEF RInv, IInv, Entries, Codes, IsReply
    <3>3. log' = Append(log, e) /\ UNCHANGED <<req, seen>>
      BY <2>3, <3>1 DEF ReadTimeout, TimeoutResult, Result, Return, IsReply
    <3>4. /\ Len(log) \in Nat /\ Len(log') = Len(log) + 1
          /\ \A i \in 1..Len(log) : log'[i] = log[i]
          /\ log'[Len(log) + 1] = e
      BY <3>2, <3>3, LogGrows
    <3>5. {j \in 1..Len(log') : IsReply(log'[j])} = {j \in 1..Len(log) : IsReply(log[j])}
      BY <3>2, <3>4
    <3>6. SeenRequests' = SeenRequests
      BY <3>4, <3>5 DEF SeenRequests, IsReply
    <3> QED  BY <3>3, <3>6, Silent DEF RInv
  <2>4. CASE UNCHANGED <<req, log, seen>>
    <3>1. SeenRequests' = SeenRequests
      BY <2>4 DEF SeenRequests, IsReply
    <3> QED  BY <2>4, <3>1, Silent DEF RInv
  <2> QED
    BY <2>1, <2>2, <2>3, <2>4 DEF Next, vars, BlockingWrite, BlockingWriteDone,
       BlockingWriteFatal, GetAhdlc, ReadNothing, DeviceTransmit, WireFault, PrintUntilClosed
<1> QED  BY <1>1, <1>2, Invariance, PTL DEF Spec, ImplementsChannel, Channel!ChannelSpec
=============================================================================
