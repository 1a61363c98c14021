---------------------------- MODULE ReplyChannel ----------------------------
(* What the tests rely on when they call SendData and GetData, whichever of *)
(* the two transports is behind them (src/src/util.cc): a reply answers a   *)
(* request that was sent, replies come in the order of the requests and     *)
(* none comes twice.  Requests may stay unanswered, and a reply may come    *)
(* when nobody waits for it any more: GetData then takes it for the answer  *)
(* to a later request.                                                      *)
EXTENDS Naturals, Sequences

CONSTANTS Request    \* what may be sent

VARIABLES
  pending,    \* requests whose reply may still come, in the order sent
  replies     \* the requests answered by what GetData returned since the
              \* last SendData

channelVars == <<pending, replies>>

ChannelInit == pending = <<>> /\ replies = <<>>

SendData(r) ==
  /\ pending' = Append(pending, r)
  /\ replies' = <<>>

\* The reply to the i-th pending request comes; those before it never will.
GetData(i) ==
  /\ i \in DOMAIN pending
  /\ replies' = Append(replies, pending[i])
  /\ pending' = SubSeq(pending, i + 1, Len(pending))

ChannelNext ==
  \/ \E r \in Request : SendData(r)
  \/ \E i \in DOMAIN pending : GetData(i)

ChannelSpec == ChannelInit /\ [][ChannelNext]_channelVars
=============================================================================
