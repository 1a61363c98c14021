---------------------------- MODULE SpiTransport ----------------------------
(***************************************************************************)
(* The SPI transport of TestHarness (src/src/util.cc).  SendProto and      *)
(* SendOneofProto serialize a message into a raw_message, SendSpi opens    *)
(* the client when it is first needed and calls the application, GetSpi    *)
(* hands out what the call left in output_buffer.  The harness owns one    *)
(* output_buffer: a reply that nobody fetched, or that a failed call did   *)
(* not overwrite, is still in it at the next GetSpi.                       *)
(*                                                                         *)
(* Contents are abstracted to their origin: the number of the request a    *)
(* buffer's bytes answer, or 0 for bytes that answer none (zeros, noise).  *)
(***************************************************************************)
EXTENDS Integers, Sequences

CONSTANTS
    PROTO_BUFFER_MAX_LEN,
    Sizes,        \* ByteSize() of the messages that are sent
    MaxSends,     \* bound on the messages sent
    MaxGets       \* bound on the calls of GetSpi

ASSUME SpiAssumption ==
    /\ PROTO_BUFFER_MAX_LEN \in Nat /\ PROTO_BUFFER_MAX_LEN >= 2
    /\ Sizes \subseteq Nat
    /\ MaxSends \in Nat
    /\ MaxGets \in Nat

VARIABLES
    client,         \* "none", "open", or "exited": the program gave up
    output_buffer,  \* its size() and whose reply its bytes are
    msg,            \* the raw_message last sent: by whom, data_len
    sent,           \* messages handed to CallApp
    status,         \* what the last send returned
    log             \* what the calls of GetSpi returned

vars == <<client, output_buffer, msg, sent, status, log>>

DataSize == PROTO_BUFFER_MAX_LEN - 2   \* sizeof(raw_message::data)

Buffer(size, from) == [size |-> size, from |-> from]

Init ==
    /\ client = "none"
    /\ output_buffer = Buffer(PROTO_BUFFER_MAX_LEN, 0)
    /\ msg = [by |-> "none", data_len |-> 0]
    /\ sent = 0
    /\ status = "none"
    /\ log = <<>>

-----------------------------------------------------------------------------
(* SendSpi *)

\* output_buffer.resize(capacity): the bytes it held stay, new ones are 0.
Resized == Buffer(PROTO_BUFFER_MAX_LEN,
                  IF output_buffer.size = 0 THEN 0 ELSE output_buffer.from)

(* CallApp (libnos) succeeds and the reply replaces the buffer's contents, *)
(* or fails and leaves of the buffer what it likes.                        *)
CallAppSucceeds ==
    /\ \E n \in 0..PROTO_BUFFER_MAX_LEN : output_buffer' = Buffer(n, sent + 1)
    /\ status' = "NO_ERROR"

CallAppFails ==
    /\ \E n \in 0..PROTO_BUFFER_MAX_LEN, from \in {0, Resized.from} :
          output_buffer' = Buffer(n, from)
    /\ status' = "app error"

\* Mutant: the status CallApp returns is dropped.
SendSpiDropsStatus(by, data_len) ==
    /\ client' = "open"
    /\ msg' = [by |-> by, data_len |-> data_len]
    /\ sent' = sent + 1
    /\ \E n \in 0..PROTO_BUFFER_MAX_LEN, from \in {sent + 1, 0, Resized.from} :
          output_buffer' = Buffer(n, from)
    /\ status' = "NO_ERROR"
    /\ UNCHANGED log

(* The client is made and opened for the first message. *)
SendSpi(by, data_len) ==
    /\ client' = "open"
    /\ msg' = [by |-> by, data_len |-> data_len]
    /\ sent' = sent + 1
    /\ CallAppSucceeds \/ CallAppFails
    /\ UNCHANGED log

(* It does not open: FatalError. *)
ConnectFails ==
    /\ client = "none"
    /\ client' = "exited"
    /\ UNCHANGED <<output_buffer, msg, sent, status, log>>

Refuse(code) ==
    /\ status' = code
    /\ UNCHANGED <<client, output_buffer, msg, sent, log>>

MaySend == client # "exited" /\ sent < MaxSends

-----------------------------------------------------------------------------

ProtoTooLong(size) == size > PROTO_BUFFER_MAX_LEN - 2

(* SendProto: too long, not serializable, or sent. *)
SendProto(size) ==
    /\ MaySend
    /\ \/ ProtoTooLong(size) /\ Refuse("OVERFLOW_ERROR")
       \/ ~ProtoTooLong(size) /\ Refuse("SERIALIZE_ERROR")
       \/ ~ProtoTooLong(size) /\ SendSpi("SendProto", size)
       \/ ~ProtoTooLong(size) /\ ConnectFails

\* The subtype takes the first two bytes of data[].
OneofTooLong(size) == size + 2 > PROTO_BUFFER_MAX_LEN

(* SendOneofProto *)
SendOneofProto(size) ==
    /\ MaySend
    /\ \/ OneofTooLong(size) /\ Refuse("OVERFLOW_ERROR")
       \/ ~OneofTooLong(size) /\ Refuse("SERIALIZE_ERROR")
       \/ ~OneofTooLong(size) /\ SendSpi("SendOneofProto", size + 2)
       \/ ~OneofTooLong(size) /\ ConnectFails

-----------------------------------------------------------------------------
(* GetSpi *)

Return(code, data_len, from) ==
    log' = Append(log, [code |-> code, data_len |-> data_len, from |-> from,
                        after |-> sent, status |-> status])

\* Mutant: the reply stays in the buffer.
Kept == UNCHANGED output_buffer

\* output_buffer.resize(0)
Consumed == output_buffer' = Buffer(0, 0)

\* Mutant: one byte is taken for a whole type.
EmptyReply == output_buffer.size < 1

NoReply == output_buffer.size < 2

GetSpi ==
    /\ client # "exited"
    /\ Len(log) < MaxGets
    /\ IF NoReply
       THEN Return("GENERIC_ERROR", 0, 0) /\ UNCHANGED output_buffer
       ELSE Return("NO_ERROR", output_buffer.size - 2, output_buffer.from) /\ Consumed
    /\ UNCHANGED <<client, msg, sent, status>>

Next ==
    \/ \E size \in Sizes : SendProto(size) \/ SendOneofProto(size)
    \/ GetSpi

Spec == Init /\ [][Next]_vars

-----------------------------------------------------------------------------
(* Properties *)

Codes == {"NO_ERROR", "GENERIC_ERROR"}
Statuses == {"none", "NO_ERROR", "app error", "OVERFLOW_ERROR", "SERIALIZE_ERROR"}

Entries == [code : Codes, data_len : Nat, from : Nat, after : Nat, status : Statuses]

\* The type of every variable.
TypeOK ==
    /\ client \in {"none", "open", "exited"}
    /\ output_buffer \in [size : 0..PROTO_BUFFER_MAX_LEN, from : 0..sent]
    /\ msg \in [by : {"none", "SendProto", "SendOneofProto"}, data_len : Nat]
    /\ sent \in Nat
    /\ status \in Statuses
    /\ log \in Seq(Entries)

IsReply(r) == r.code = "NO_ERROR" /\ r.from > 0

\* No reply is handed out twice, and none after the reply to a later request:
\* GetSpi empties the buffer, so neither a second GetSpi nor a call that fails
\* and leaves the buffer alone brings an old reply back.
ReplyOnce ==
    \A i, j \in 1..Len(log) :
        i < j /\ IsReply(log[i]) /\ IsReply(log[j]) => log[i].from < log[j].from

\* What GetSpi returns after a send that succeeded answers that very request,
\* also when replies to earlier requests were never fetched; bytes that answer
\* no request come out only after a failed send or before the first one.
ReplyAnswersLastRequest ==
    \A i \in 1..Len(log) :
        /\ log[i].code = "NO_ERROR"
        /\ log[i].status = "NO_ERROR"
        => log[i].from = log[i].after

\* Every message that SendProto or SendOneofProto hands to SendData fits into
\* raw_message::data, which util.h declares as the buffer that data_len counts
\* the bytes of.  The code does not keep this: the limit of SendOneofProto
\* forgets the two bytes by which data[] is shorter than PROTO_BUFFER_MAX_LEN.
MessageFits == msg.data_len <= DataSize

-----------------------------------------------------------------------------
(* The transport as the tests see it: the channel of ReplyChannel.  What   *)
(* GetSpi returned for no request (from = 0) is no reply.                  *)

SeenReplies == {i \in 1..Len(log) : IsReply(log[i])}

SeenRequests == {log[i].from : i \in SeenReplies}

\* The last request whose reply was handed out, 0 if there is none.
LastSeen == CHOOSE m \in SeenRequests \union {0} : \A k \in SeenRequests : k <= m

\* What was handed out since request n was sent: one reply at most.
SeenAfter(n) == {log[i].from : i \in {j \in SeenReplies : log[j].after = n}}

SeenSince(n) == IF SeenAfter(n) = {} THEN <<>> ELSE <<CHOOSE f \in SeenAfter(n) : TRUE>>

Channel == INSTANCE ReplyChannel
    WITH Request <- 1..MaxSends,
         pending <- [i \in 1..(sent - LastSeen) |-> LastSeen + i],
         replies <- SeenSince(sent)

\* Whatever is sent, refused, lost or fetched twice, SendSpi and GetSpi are a
\* channel on which each reply answers a request sent before it, replies keep
\* the order of the requests and none comes twice.
ImplementsChannel == Channel!ChannelSpec
=============================================================================
