-------------------------- MODULE MCAhdlcTransport --------------------------
(* Small instances of AhdlcTransport for TLC. *)
EXTENDS AhdlcTransport

\* Replies: one longer than GetAhdlc accepts, by enough bytes for a second call
\* to read on in it, then one of the largest that fits and a shortest one.  The
\* encoder refuses the third request, which is never answered.
MCDataLen == <<10, 1, 0, 0>>
MCRequestLen == <<1, 2, 4, 2>>

\* Replies that fit, and a request that cannot be encoded between them.
MCDataLenShort == <<0, 0, 1>>
MCRequestLenShort == <<2, 4, 2>>

\* The device sends no byte more while this many wait in the tty's queue.  The
\* client sees of the queue only its first byte and whether there is one, so
\* that a byte sent later, when the queue is shorter, makes no difference.
MaxQueued == 2

QueueBound == Len(rx') <= MaxQueued

\* One byte is disturbed: the wire loses or damages it, or the print thread
\* takes it.
MaxDisturbed == 1

DisturbanceBound == faults' + printed' <= MaxDisturbed
=============================================================================
