------------------------- MODULE SpiTransportProofs -------------------------
(***************************************************************************)
(* For any buffer size and any sequence of sends, failures and fetches:    *)
(* the one output_buffer of the harness never hands out a reply twice, nor *)
(* one that does not answer the request just sent.                         *)
(***************************************************************************)
EXTENDS SpiTransport, TLAPS

\* The replies handed out are of requests sent, in the order of the requests.
LogInv ==
    /\ \A i \in 1..Len(log) : log[i].from <= log[i].after /\ log[i].after <= sent
    /\ ReplyOnce
    /\ ReplyAnswersLastRequest

\* A reply still in the buffer is younger than all that were handed out.
BufferInv ==
    output_buffer.size > 0 /\ output_buffer.from > 0 =>
        \A i \in 1..Len(log) : IsReply(log[i]) => log[i].from < output_buffer.from

\* After a send that succeeded the buffer is empty or has the reply to it.
StatusInv == status = "NO_ERROR" /\ output_buffer.size > 0 => output_buffer.from = sent

IInv == TypeOK /\ LogInv /\ BufferInv /\ StatusInv

-----------------------------------------------------------------------------

\* The harness starts in the invariant.
LEMMA InitIInv == Init => IInv
BY SpiAssumption DEF Init, IInv, TypeOK, LogInv, BufferInv, StatusInv,
   ReplyOnce, ReplyAnswersLastRequest, Buffer, Codes, Statuses

\* The numbers in an entry of the log.
LEMMA EntryTypes ==
    ASSUME TypeOK
    PROVE  /\ Len(log) \in Nat
           /\ \A i \in 1..Len(log) : /\ log[i].from \in Nat
                                    /\ log[i].after \in Nat
                                    /\ log[i].data_len \in Nat
<1>1. Len(log) \in Nat /\ \A i \in 1..Len(log) : log[i] \in Entries
  BY DEF TypeOK
<1> QED  BY <1>1 DEF Entries

\* A message that is refused changes nothing but the status.
LEMMA RefuseStep ==
    ASSUME IInv, NEW code \in {"OVERFLOW_ERROR", "SERIALIZE_ERROR"}, Refuse(code)
    PROVE  IInv'
BY DEF Refuse, IInv, TypeOK, LogInv, BufferInv, StatusInv,
   ReplyOnce, ReplyAnswersLastRequest, IsReply, Statuses

\* Neither does a client that cannot be opened.
LEMMA ConnectFailsStep ==
    ASSUME IInv, ConnectFails
    PROVE  IInv'
BY DEF ConnectFails, IInv, TypeOK, LogInv, BufferInv, StatusInv,
   ReplyOnce, ReplyAnswersLastRequest, IsReply

\* A send puts the reply to it, or nothing new, into the buffer.
LEMMA SendSpiStep ==
    ASSUME IInv, NEW by \in {"SendProto", "SendOneofProto"}, NEW data_len \in Nat,
           SendSpi(by, data_len)
    PROVE  IInv'
<1> USE SpiAssumption
<1>1. PICK n \in 0..PROTO_BUFFER_MAX_LEN, from \in 0..(sent + 1) :
        /\ output_buffer' = [size |-> n, from |-> from]
        /\ from \in {0, sent + 1} \/ (from = output_buffer.from /\ output_buffer.size > 0)
        /\ status' = "NO_ERROR" => from = sent + 1
  <2>1. CASE CallAppSucceeds
    <3>1. sent \in Nat
      BY DEF IInv, TypeOK
    <3>2. PICK n \in 0..PROTO_BUFFER_MAX_LEN :
            output_buffer' = [size |-> n, from |-> sent + 1]
      BY <2>1 DEF CallAppSucceeds, Buffer
    <3> QED  BY <3>1, <3>2
  <2>2. CASE CallAppFails
    <3>1. /\ Resized.from \in 0..(sent + 1)
          /\ Resized.from # 0 => Resized.from = output_buffer.from /\ output_buffer.size > 0
      BY DEF Resized, Buffer, IInv, TypeOK
    <3>2. PICK n \in 0..PROTO_BUFFER_MAX_LEN, from \in {0, Resized.from} :
            output_buffer' = [size |-> n, from |-> from]
      BY <2>2 DEF CallAppFails, Buffer
    <3>3. status' # "NO_ERROR" /\ sent \in Nat
      BY <2>2 DEF CallAppFails, IInv, TypeOK
    <3> QED  BY <3>1, <3>2, <3>3
  <2> QED  BY <2>1, <2>2 DEF SendSpi
<1>2. /\ client' = "open" /\ msg' = [by |-> by, data_len |-> data_len]
      /\ sent' = sent + 1 /\ log' = log
      /\ status' \in {"NO_ERROR", "app error"}
  BY DEF SendSpi, CallAppSucceeds, CallAppFails
<1>3. TypeOK'
  <2>1. output_buffer' \in [size : 0..PROTO_BUFFER_MAX_LEN, from : 0..sent']
    BY <1>1, <1>2
  <2>2. status' \in Statuses
    BY <1>2 DEF Statuses
  <2>3. msg' \in [by : {"none", "SendProto", "SendOneofProto"}, data_len : Nat]
    BY <1>2
  <2>4. sent \in Nat /\ log \in Seq(Entries)
    BY DEF IInv, TypeOK
  <2>5. sent' \in Nat
    <3>1. sent' = sent + 1
      BY <1>2
    <3> QED  BY <2>4, <3>1
  <2>6. log' \in Seq(Entries)
    <3>1. log' = log
      BY <1>2
    <3> QED  BY <2>4, <3>1
  <2> QED  BY <1>2, <2>1, <2>2, <2>3, <2>5, <2>6 DEF TypeOK
<1>4. /\ Len(log) \in Nat /\ sent \in Nat
      /\ \A i \in 1..Len(log) : log[i].from \in Nat /\ log[i].after \in Nat
  BY EntryTypes DEF IInv, TypeOK
<1>5. LogInv'
  <2>1. \A i \in 1..Len(log') : log'[i].from <= log'[i].after /\ log'[i].after <= sent'
    <3>1. \A i \in 1..Len(log) : log[i].from <= log[i].after /\ log[i].after <= sent
      BY DEF IInv, LogInv
    <3>2. log' = log /\ sent' = sent + 1
      BY <1>2
    <3> QED  BY <3>1, <3>2, <1>4
  <2>2. ReplyOnce' /\ ReplyAnswersLastRequest'
    BY <1>2 DEF IInv, LogInv, ReplyOnce, ReplyAnswersLastRequest, IsReply
  <2> QED  BY <2>1, <2>2 DEF LogInv
<1>6. BufferInv'
  <2> SUFFICES ASSUME output_buffer'.from > 0, NEW i \in 1..Len(log), IsReply(log[i])
               PROVE  log[i].from < output_buffer'.from
    BY <1>2 DEF BufferInv, IsReply
  <2>1. output_buffer'.from = from
    BY <1>1
  <2>2. CASE from = sent + 1
    BY <2>1, <2>2, <1>4 DEF IInv, LogInv
  <2>3. CASE from = output_buffer.from /\ output_buffer.size > 0
    BY <2>1, <2>3 DEF IInv, BufferInv
  <2> QED  BY <1>1, <2>1, <2>2, <2>3
<1>7. StatusInv'
  BY <1>1, <1>2 DEF StatusInv
<1> QED  BY <1>3, <1>5, <1>6, <1>7 DEF IInv

\* GetSpi hands out the reply in the buffer and empties the buffer.
LEMMA GetSpiStep ==
    ASSUME IInv, GetSpi
    PROVE  IInv'
<1> USE SpiAssumption
<1>1. PICK e \in Entries :
        /\ log' = Append(log, e)
        /\ e.after = sent /\ e.status = status
        /\ e.from <= sent
        /\ e.code = "NO_ERROR" => /\ output_buffer.size > 0
                                  /\ e.from = output_buffer.from
                                  /\ output_buffer'.size = 0
        /\ e.code # "NO_ERROR" => output_buffer' = output_buffer
  <2>1. /\ output_buffer.size \in 0..PROTO_BUFFER_MAX_LEN /\ output_buffer.from \in 0..sent
        /\ sent \in Nat /\ status \in Statuses
    BY DEF IInv, TypeOK
  <2>2. CASE NoReply
    BY <2>1, <2>2 DEF GetSpi, Return, Entries, Codes
  <2>3. CASE ~NoReply
    BY <2>1, <2>3 DEF GetSpi, NoReply, Return, Consumed, Buffer, Entries, Codes
  <2> QED  BY <2>2, <2>3
<1>2. UNCHANGED <<client, msg, sent, status>>
  BY DEF GetSpi
<1>3. /\ Len(log') = Len(log) + 1
      /\ \A i \in 1..Len(log) : log'[i] = log[i]
      /\ log'[Len(log) + 1] = e
  BY <1>1 DEF IInv, TypeOK
<1>4. /\ Len(log) \in Nat /\ sent \in Nat
      /\ \A i \in 1..Len(log) : log[i].from \in Nat /\ log[i].after \in Nat
                                              /\ log[i].data_len \in Nat
      /\ e.from \in Nat /\ e.data_len \in Nat
  BY EntryTypes DEF IInv, TypeOK, Entries
<1>5. TypeOK'
  <2>1. log' \in Seq(Entries)
    BY <1>1 DEF IInv, TypeOK
  <2>2. output_buffer' \in [size : 0..PROTO_BUFFER_MAX_LEN, from : 0..sent]
    BY DEF GetSpi, Consumed, Buffer, IInv, TypeOK
  <2> QED  BY <1>2, <2>1, <2>2 DEF IInv, TypeOK
<1>6. LogInv'
  <2>1. \A i \in 1..Len(log') : log'[i].from <= log'[i].after /\ log'[i].after <= sent'
    BY <1>1, <1>2, <1>3, <1>4 DEF IInv, LogInv
  <2>2. ReplyOnce'
    <3> SUFFICES ASSUME NEW i \in 1..Len(log'), NEW j \in 1..Len(log'),
                        i < j, IsReply(log'[i]), IsReply(log'[j])
                 PROVE  log'[i].from < log'[j].from
      BY DEF ReplyOnce, IsReply
    <3>1. i \in 1..Len(log)
      BY <1>3, <1>4
    <3>2. CASE j \in 1..Len(log)
      BY <3>1, <3>2, <1>3 DEF IInv, LogInv, ReplyOnce
    <3>3. CASE j = Len(log) + 1
      <4>1. e.code = "NO_ERROR" /\ e.from > 0 /\ IsReply(log[i])
        BY <3>1, <3>3, <1>3 DEF IsReply
      <4>2. log[i].from < output_buffer.from /\ e.from = output_buffer.from
        BY <3>1, <4>1, <1>1 DEF IInv, BufferInv
      <4> QED  BY <3>1, <3>3, <4>2, <1>3
    <3>4. j \in 1..Len(log) \/ j = Len(log) + 1
      <4>1. Len(log) \in Nat /\ Len(log') = Len(log) + 1
        BY <1>3, <1>4
      <4> QED  BY <4>1
    <3> QED  BY <3>2, <3>3, <3>4
  <2>3. ReplyAnswersLastRequest'
    <3> SUFFICES ASSUME NEW i \in 1..Len(log'), log'[i].code = "NO_ERROR",
                        log'[i].status = "NO_ERROR"
                 PROVE  log'[i].from = log'[i].after
      BY DEF ReplyAnswersLastRequest
    <3>1. CASE i \in 1..Len(log)
      BY <3>1, <1>3 DEF IInv, LogInv, ReplyAnswersLastRequest
    <3>2. CASE i = Len(log) + 1
      BY <3>2, <1>1, <1>3 DEF IInv, StatusInv
    <3> QED  BY <3>1, <3>2, <1>3, <1>4
  <2> QED  BY <2>1, <2>2, <2>3 DEF LogInv
<1>7. BufferInv'
  <2> SUFFICES ASSUME output_buffer'.size > 0, output_buffer'.from > 0,
                      NEW i \in 1..Len(log'), IsReply(log'[i])
               PROVE  log'[i].from < output_buffer'.from
    BY DEF BufferInv, IsReply
  <2>1. e.code # "NO_ERROR" /\ output_buffer' = output_buffer
    BY <1>1
  <2>2. i \in 1..Len(log)
    BY <1>3, <1>4, <2>1 DEF IsReply
  <2> QED  BY <1>3, <2>1, <2>2 DEF IInv, BufferInv
<1>8. StatusInv'
  BY <1>1, <1>2 DEF IInv, StatusInv
<1> QED  BY <1>5, <1>6, <1>7, <1>8 DEF IInv

\* IInv is an invariant of the transport.
THEOREM Invariance == Spec => []IInv
<1>1. IInv /\ [Next]_vars => IInv'
  <2> SUFFICES ASSUME IInv, [Next]_vars PROVE IInv'
    OBVIOUS
  <2>1. CASE \E size \in Sizes : SendProto(size)
    <3> PICK size \in Sizes : SendProto(size)
      BY <2>1
    <3>1. size \in Nat
      BY SpiAssumption
    <3> QED  BY <3>1, RefuseStep, ConnectFailsStep, SendSpiStep DEF SendProto
  <2>2. CASE \E size \in Sizes : SendOneofProto(size)
    <3> PICK size \in Sizes : SendOneofProto(size)
      BY <2>2
    <3>1. size + 2 \in Nat
      BY SpiAssumption
    <3> QED  BY <3>1, RefuseStep, ConnectFailsStep, SendSpiStep DEF SendOneofProto
  <2>3. CASE GetSpi
    BY <2>3, GetSpiStep
  <2>4. CASE UNCHANGED vars
    BY <2>4 DEF vars, IInv, TypeOK, LogInv, BufferInv, StatusInv,
       ReplyOnce, ReplyAnswersLastRequest, IsReply
  <2> QED  BY <2>1, <2>2, <2>3, <2>4 DEF Next
<1> QED  BY InitIInv, <1>1, PTL DEF Spec

\* Every variable keeps its type; in particular the harness never computes a
\* negative data_len from a short reply.
THEOREM TypeCorrect == Spec => []TypeOK
BY Invariance, PTL DEF IInv

\* GetSpi never hands a reply out twice.
THEOREM ReplyOnceHolds == Spec => []ReplyOnce
BY Invariance, PTL DEF IInv, LogInv

\* After a send that succeeded GetSpi returns the reply to that request.
THEOREM ReplyAnswersLastRequestHolds == Spec => []ReplyAnswersLastRequest
BY Invariance, PTL DEF IInv, LogInv

-----------------------------------------------------------------------------
(* The transport implements the channel.                                   *)

\* Among the requests whose replies were handed out one is the last.
SeenInv == \E m \in SeenRequests \union {0} : \A k \in SeenRequests : k <= m

\* Once a reply was handed out the buffer stays empty up to the next send.
OneInv == (\E i \in SeenReplies : log[i].after = sent) => output_buffer.size = 0

\* The requests whose replies were handed out are numbers up to sent.
LEMMA SeenTypes ==
    ASSUME IInv
    PROVE  SeenRequests \subseteq 1..sent /\ sent \in Nat
<1>1. sent \in Nat /\ \A i \in 1..Len(log) : log[i].from \in Nat /\ log[i].after \in Nat
  BY EntryTypes DEF IInv, TypeOK
<1>2. \A i \in 1..Len(log) : log[i].from <= log[i].after /\ log[i].after <= sent
  BY DEF IInv, LogInv
<1>3. \A i \in SeenReplies : log[i].from \in 1..sent
  BY <1>1, <1>2 DEF SeenReplies, IsReply
<1> QED  BY <1>1, <1>3 DEF SeenRequests

\* LastSeen is what its name says.
LEMMA LastSeenFacts ==
    ASSUME IInv, SeenInv
    PROVE  /\ LastSeen \in SeenRequests \union {0}
           /\ \A k \in SeenRequests : k <= LastSeen
           /\ LastSeen \in 0..sent
<1>1. LastSeen \in SeenRequests \union {0} /\ \A k \in SeenRequests : k <= LastSeen
  BY DEF SeenInv, LastSeen
<1> QED  BY <1>1, SeenTypes

\* Replies are added at the end of the log only.
LEMMA SeenAppended ==
    ASSUME IInv, NEW e \in Entries, log' = Append(log, e)
    PROVE  /\ Len(log) \in Nat /\ Len(log') = Len(log) + 1 /\ log'[Len(log) + 1] = e
           /\ \A i \in 1..Len(log) : log'[i] = log[i]
           /\ IsReply(e) => SeenReplies' = SeenReplies \union {Len(log) + 1}
           /\ IsReply(e) => SeenRequests' = SeenRequests \union {e.from}
           /\ ~IsReply(e) => SeenReplies' = SeenReplies /\ SeenRequests' = SeenRequests
<1>1. Len(log) \in Nat
  BY DEF IInv, TypeOK
<1>2. /\ Len(log') = Len(log) + 1 /\ log'[Len(log) + 1] = e
      /\ \A i \in 1..Len(log) : log'[i] = log[i]
  BY DEF IInv, TypeOK
<1>3. 1..Len(log') = 1..Len(log) \union {Len(log) + 1} /\ Len(log) + 1 \notin 1..Len(log)
  BY <1>1, <1>2
<1>4. SeenReplies' = {i \in 1..Len(log') : IsReply(log'[i])}
  BY DEF SeenReplies, IsReply
<1>5. IsReply(e) => SeenReplies' = SeenReplies \union {Len(log) + 1}
  BY <1>2, <1>3, <1>4 DEF SeenReplies
<1>6. ~IsReply(e) => SeenReplies' = SeenReplies
  BY <1>2, <1>3, <1>4 DEF SeenReplies
<1>7. SeenReplies \subseteq 1..Len(log)
  BY DEF SeenReplies
<1>8. SeenRequests' = {log'[i].from : i \in SeenReplies'}
  BY DEF SeenRequests
<1>9. IsReply(e) => SeenRequests' = SeenRequests \union {e.from}
  BY <1>2, <1>5, <1>7, <1>8 DEF SeenRequests
<1>10. ~IsReply(e) => SeenRequests' = SeenRequests
  BY <1>2, <1>6, <1>7, <1>8 DEF SeenRequests
<1> QED  BY <1>1, <1>2, <1>5, <1>6, <1>9, <1>10

RInv == IInv /\ SeenInv /\ OneInv

\* A greatest member of a set of numbers is the one LastSeen chooses.
LEMMA LastSeenIs ==
    ASSUME NEW R \in SUBSET Nat, NEW m \in R \cup {0}, \A k \in R : k <= m
    PROVE  m = CHOOSE x \in R \cup {0} : \A k \in R : k <= x
<1>1. ASSUME NEW c \in R \cup {0}, \A k \in R : k <= c
      PROVE  c = m
  <2>1. c \in Nat /\ m \in Nat /\ c <= m /\ m <= c
    BY <1>1
  <2> QED  BY <2>1
<1>2. \E x \in R \cup {0} : \A k \in R : k <= x
  OBVIOUS
<1> QED  BY <1>1, <1>2

\* One more request behind those that are pending.
LEMMA PendingAppended ==
    ASSUME NEW a \in Nat, NEW n \in Nat, a <= n
    PROVE  [i \in 1..(n + 1 - a) |-> a + i] = Append([i \in 1..(n - a) |-> a + i], n + 1)
<1> DEFINE p == [i \in 1..(n - a) |-> a + i]
<1>1. p \in Seq(Nat) /\ Len(p) = n - a /\ n - a \in Nat
  OBVIOUS
<1>2. /\ Append(p, n + 1) \in Seq(Nat) /\ Len(Append(p, n + 1)) = n - a + 1
      /\ \A i \in 1..(n - a) : Append(p, n + 1)[i] = a + i
      /\ Append(p, n + 1)[n - a + 1] = n + 1
  BY <1>1
<1> QED  BY <1>1, <1>2

\* What is pending behind the request f.
LEMMA PendingBehind ==
    \A a, n, f \in Nat : a < f /\ f <= n =>
        /\ f - a \in DOMAIN [i \in 1..(n - a) |-> a + i]
        /\ [i \in 1..(n - a) |-> a + i][f - a] = f
        /\ Len([i \in 1..(n - a) |-> a + i]) = n - a
        /\ SubSeq([i \in 1..(n - a) |-> a + i], f - a + 1, n - a) =
             [i \in 1..(n - f) |-> f + i]
<1> TAKE a, n, f \in Nat
<1> HAVE a < f /\ f <= n
<1> DEFINE p == [i \in 1..(n - a) |-> a + i]
<1>1. p \in Seq(Nat) /\ Len(p) = n - a /\ n - a \in Nat
  OBVIOUS
<1>2. SubSeq(p, f - a + 1, n - a) = [i \in 1..(n - f) |-> f + i]
  BY <1>1
<1>3. f - a \in DOMAIN p /\ p[f - a] = f
  OBVIOUS
<1> QED  BY <1>1, <1>2, <1>3

\* A send is the channel's SendData, of the number the request gets.
LEMMA SendSpiMaps ==
    ASSUME RInv, NEW by, NEW data_len, SendSpi(by, data_len), sent < MaxSends
    PROVE  SeenInv' /\ OneInv' /\ \E r \in 1..MaxSends : Channel!SendData(r)
<1>1. log' = log /\ sent' = sent + 1
  BY DEF SendSpi
<1>2. SeenReplies' = SeenReplies /\ SeenRequests' = SeenRequests
  BY <1>1 DEF SeenReplies, SeenRequests, IsReply
<1>3. LastSeen' = LastSeen /\ LastSeen \in 0..sent /\ sent \in Nat
  BY <1>2, LastSeenFacts, SeenTypes DEF RInv, LastSeen
<1>4. [i \in 1..(sent' - LastSeen') |-> LastSeen' + i] =
        Append([i \in 1..(sent - LastSeen) |-> LastSeen + i], sent + 1)
  BY <1>1, <1>3, PendingAppended
<1>5. \A i \in SeenReplies' : log'[i].after # sent'
  <2>1. \A i \in 1..Len(log) : log[i].after \in Nat /\ log[i].after <= sent
    BY EntryTypes DEF RInv, IInv, LogInv
  <2> QED  BY <1>1, <1>2, <1>3, <2>1 DEF SeenReplies
<1>6. SeenSince(sent)' = <<>>
  <2>1. SeenAfter(sent)' = {}
    BY <1>5 DEF SeenAfter
  <2> QED  BY <2>1 DEF SeenSince
<1>7. SeenInv'
  BY <1>2 DEF RInv, SeenInv
<1>8. OneInv'
  BY <1>5 DEF OneInv
<1>9. PICK r \in 1..MaxSends : r = sent + 1
  BY <1>3, SpiAssumption
<1>10. Channel!SendData(r)
  BY <1>4, <1>6, <1>9 DEF Channel!SendData
<1> QED  BY <1>7, <1>8, <1>10

\* A step that hands out no reply and sends nothing leaves the channel alone.
LEMMA Silent ==
    ASSUME RInv, sent' = sent,
           SeenReplies' = SeenReplies, SeenRequests' = SeenRequests,
           \A i \in SeenReplies : log'[i] = log[i],
           output_buffer' = output_buffer \/ output_buffer'.size = 0
    PROVE  SeenInv' /\ OneInv' /\ UNCHANGED Channel!channelVars
<1>1. SeenInv' /\ LastSeen' = LastSeen
  BY DEF RInv, SeenInv, LastSeen
<1>2. OneInv'
  BY DEF RInv, OneInv
<1>3. SeenSince(sent)' = SeenSince(sent)
  <2>1. {i \in SeenReplies' : log'[i].after = sent'} = {i \in SeenReplies : log[i].after = sent}
    OBVIOUS
  <2>2. SeenAfter(sent)' = SeenAfter(sent)
    BY <2>1 DEF SeenAfter
  <2> QED  BY <2>2 DEF SeenSince
<1> QED  BY <1>1, <1>2, <1>3 DEF Channel!channelVars

\* GetSpi is the channel's GetData when it hands out a reply.
LEMMA GetSpiMaps ==
    ASSUME RInv, GetSpi
    PROVE  /\ SeenInv' /\ OneInv'
           /\ \/ \E i \in 1..(sent - LastSeen) : Channel!GetData(i)
              \/ UNCHANGED Channel!channelVars
<1>1. IInv /\ sent \in Nat /\ sent' = sent
  BY SeenTypes DEF RInv, GetSpi
<1>2. PICK e \in Entries :
        /\ log' = Append(log, e)
        /\ e.after = sent
        /\ e.code = "NO_ERROR" => /\ output_buffer.size > 0 /\ output_buffer'.size = 0
                                  /\ e.from = output_buffer.from
        /\ e.code # "NO_ERROR" => output_buffer' = output_buffer
  <2>1. /\ output_buffer.size \in 0..PROTO_BUFFER_MAX_LEN /\ output_buffer.from \in 0..sent
        /\ sent \in Nat /\ status \in Statuses
    BY DEF RInv, IInv, TypeOK
  <2>2. CASE NoReply
    BY <2>1, <2>2 DEF GetSpi, Return, Entries, Codes
  <2>3. CASE ~NoReply
    BY <2>1, <2>3 DEF GetSpi, NoReply, Return, Consumed, Buffer, Entries, Codes
  <2> QED  BY <2>2, <2>3
<1>3. CASE ~IsReply(e)
  <2>1. /\ SeenReplies' = SeenReplies /\ SeenRequests' = SeenRequests
        /\ \A i \in SeenReplies : log'[i] = log[i]
    BY <1>1, <1>2, <1>3, SeenAppended DEF SeenReplies
  <2> QED  BY <1>1, <1>2, <2>1, Silent
<1>4. CASE IsReply(e)
  <2>1. e.from = output_buffer.from /\ output_buffer.size > 0 /\ output_buffer'.size = 0
    BY <1>2, <1>4 DEF IsReply
  <2>2. e.from \in 1..sent
    BY <1>4, <2>1 DEF RInv, IInv, TypeOK, IsReply
  <2>3. \A k \in SeenRequests : k < e.from
    BY <1>4, <2>1 DEF RInv, IInv, BufferInv, SeenRequests, SeenReplies, IsReply
  <2>4. SeenRequests' = SeenRequests \union {e.from} /\ SeenRequests \in SUBSET (1..sent)
    BY <1>1, <1>2, <1>4, SeenAppended, SeenTypes
  <2>5. e.from \in SeenRequests' /\ \A k \in SeenRequests' : k <= e.from
    BY <2>2, <2>3, <2>4
  <2>6. LastSeen' = e.from
    <3>1. SeenRequests \subseteq Nat /\ e.from \in Nat
      BY <1>1, <2>2, <2>4
    <3>2. SeenRequests' \in SUBSET Nat /\ e.from \in SeenRequests' \union {0}
      BY <2>4, <3>1
    <3> QED  BY <3>2, <2>5, LastSeenIs DEF LastSeen
  <2>7. SeenInv' /\ OneInv'
    BY <2>1, <2>5 DEF SeenInv, OneInv
  <2>8. LastSeen \in 0..sent /\ LastSeen < e.from
    BY <2>2, <2>3, LastSeenFacts DEF RInv
  <2>9. SeenSince(sent) = <<>>
    <3>1. SeenAfter(sent) = {}
      BY <2>1 DEF RInv, OneInv, SeenAfter
    <3> QED  BY <3>1 DEF SeenSince
  <2>10. SeenSince(sent)' = <<e.from>>
    <3>1. /\ SeenReplies' = SeenReplies \union {Len(log) + 1} /\ log'[Len(log) + 1] = e
          /\ \A i \in SeenReplies : log'[i] = log[i]
      BY <1>1, <1>2, <1>4, SeenAppended DEF SeenReplies
    <3>2. \A i \in SeenReplies : log[i].after # sent
      BY <2>1 DEF RInv, OneInv
    <3>3. {i \in SeenReplies' : log'[i].after = sent'} = {Len(log) + 1}
      BY <1>1, <1>2, <3>1, <3>2
    <3>4. SeenAfter(sent)' = {e.from}
      BY <3>1, <3>3 DEF SeenAfter
    <3>5. (CHOOSE f \in {e.from} : TRUE) = e.from
      OBVIOUS
    <3> QED  BY <3>4, <3>5 DEF SeenSince
  <2> DEFINE pending == [k \in 1..(sent - LastSeen) |-> LastSeen + k]
  <2>11. /\ e.from - LastSeen \in DOMAIN pending /\ pending[e.from - LastSeen] = e.from
         /\ Len(pending) = sent - LastSeen
         /\ SubSeq(pending, e.from - LastSeen + 1, sent - LastSeen) =
              [k \in 1..(sent - e.from) |-> e.from + k]
    <3>1. LastSeen \in Nat /\ e.from \in Nat /\ e.from <= sent /\ LastSeen < e.from
      BY <1>1, <2>2, <2>8
    <3>2. PICK a \in Nat, n \in Nat, f \in Nat : a = LastSeen /\ n = sent /\ f = e.from
      BY <1>1, <3>1
    <3>3. a < f /\ f <= n
      BY <3>1, <3>2
    <3>4. /\ f - a \in DOMAIN [i \in 1..(n - a) |-> a + i]
          /\ [i \in 1..(n - a) |-> a + i][f - a] = f
          /\ Len([i \in 1..(n - a) |-> a + i]) = n - a
          /\ SubSeq([i \in 1..(n - a) |-> a + i], f - a + 1, n - a) =
               [i \in 1..(n - f) |-> f + i]
      BY <3>3, PendingBehind
    <3> QED  BY <3>2, <3>4
  <2>12. [k \in 1..(sent' - LastSeen') |-> LastSeen' + k] =
           SubSeq(pending, e.from - LastSeen + 1, Len(pending))
    BY <1>1, <2>6, <2>11
  <2>13. SeenSince(sent)' = Append(SeenSince(sent), pending[e.from - LastSeen])
    BY <2>9, <2>10, <2>11
  <2>14. PICK d \in 1..(sent - LastSeen) : d = e.from - LastSeen
    BY <2>11
  <2>15. Channel!GetData(d)
    BY <2>11, <2>12, <2>13, <2>14 DEF Channel!GetData
  <2> QED  BY <2>7, <2>15
<1> QED  BY <1>3, <1>4

\* Whatever is sent, refused, lost or fetched twice, SendSpi and GetSpi are a
\* channel on which each reply answers a request sent before it, replies keep
\* the order of the requests and none comes twice.
THEOREM ChannelImplemented == Spec => ImplementsChannel
<1>1. Init => RInv /\ Channel!ChannelInit
  <2> SUFFICES ASSUME Init PROVE RInv /\ Channel!ChannelInit
    OBVIOUS
  <2>1. SeenReplies = {} /\ SeenRequests = {}
    BY DEF Init, SeenReplies, SeenRequests
  <2>2. IInv /\ SeenInv /\ OneInv
    BY <2>1, InitIInv DEF SeenInv, OneInv
  <2>3. LastSeen = 0
    BY <2>1 DEF LastSeen
  <2>4. SeenSince(sent) = <<>>
    <3>1. SeenAfter(sent) = {}
      BY <2>1 DEF SeenAfter
    <3> QED  BY <3>1 DEF SeenSince
  <2>5. [i \in 1..(sent - LastSeen) |-> LastSeen + i] = <<>>
    BY <2>3 DEF Init
  <2> QED  BY <2>2, <2>4, <2>5 DEF RInv, Channel!ChannelInit
<1>2. RInv /\ IInv' /\ [Next]_vars => RInv' /\ [Channel!ChannelNext]_Channel!channelVars
  <2> SUFFICES ASSUME RInv, IInv', [Next]_vars
               PROVE  RInv' /\ [Channel!ChannelNext]_Channel!channelVars
    OBVIOUS
  <2>1. CASE \E size \in Sizes : SendProto(size) \/ SendOneofProto(size)
    <3>1. CASE \E by, data_len : SendSpi(by, data_len) /\ sent < MaxSends
      <4> PICK by, data_len : SendSpi(by, data_len) /\ sent < MaxSends
        BY <3>1
      <4>1. SeenInv' /\ OneInv' /\ \E r \in 1..MaxSends : Channel!SendData(r)
        BY SendSpiMaps
      <4> QED  BY <4>1 DEF RInv, Channel!ChannelNext
    <3>2. CASE UNCHANGED <<output_buffer, sent, log>>
      <4>1. /\ SeenReplies' = SeenReplies /\ SeenRequests' = SeenRequests
            /\ \A i \in SeenReplies : log'[i] = log[i]
        BY <3>2 DEF SeenReplies, SeenRequests, IsReply
      <4> QED  BY <3>2, <4>1, Silent DEF RInv
    <3> QED  BY <2>1, <3>1, <3>2
             DEF SendProto, SendOneofProto, MaySend, Refuse, ConnectFails
  <2>2. CASE GetSpi
    <3>1. DOMAIN [i \in 1..(sent - LastSeen) |-> LastSeen + i] = 1..(sent - LastSeen)
      OBVIOUS
    <3> QED  BY <2>2, <3>1, GetSpiMaps DEF RInv, Channel!ChannelNext
  <2>3. CASE UNCHANGED vars
    <3>1. /\ SeenReplies' = SeenReplies /\ SeenRequests' = SeenRequests
          /\ \A i \in SeenReplies : log'[i] = log[i]
      BY <2>3 DEF vars, SeenReplies, SeenRequests, IsReply
    <3> QED  BY <2>3, <3>1, Silent DEF vars, RInv
  <2> QED  BY <2>1, <2>2, <2>3 DEF Next
<1> QED  BY <1>1, <1>2, Invariance, PTL DEF Spec, ImplementsChannel, Channel!ChannelSpec

=============================================================================
