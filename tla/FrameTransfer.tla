---------------------------- MODULE FrameTransfer ----------------------------
(***************************************************************************)
(* Reassembly with the bytes: SendData cuts an access unit of some size as *)
(* Packetizer says and keeps the offset of the next packet; the receiver   *)
(* joins the payloads of an assembly in the order of their indices.  A     *)
(* payload is the interval of the access unit it was copied from.          *)
(***************************************************************************)
EXTENDS Reassembly, Packetizer

CONSTANT FrameSizes  \* the sizes of access units

ASSUME FrameTransferAssumption ==
  /\ FrameSizes \subseteq Nat \ {0}
  /\ IndexMod <= MaxPackets + 1

VARIABLES
  dataSize,  \* SendData's data_size
  offset,    \* SendData's offset
  payloads,  \* history: the interval each packet carries, [from, size]
  sizeOf     \* history: the size of each access unit in begun

transferVars == <<dataSize, offset, payloads, sizeOf>>
allVars == <<vars, transferVars>>

TransferInit ==
  /\ Init
  /\ dataSize = 0 /\ offset = 0
  /\ payloads = <<>> /\ sizeOf = <<>>

\* f with the value v at x
With(f, x, v) == [y \in DOMAIN f \cup {x} |-> IF y = x THEN v ELSE f[y]]

NewFrame(total) == [session |-> session, frame |-> nextFrame, total |-> total]

\* SendData up to its loop, for an access unit of size bytes.
BeginData(size) ==
  /\ TotalPackets(size) > 0
  /\ BeginFrame(TotalPackets(size))
  /\ dataSize' = size
  /\ offset' = 0
  /\ sizeOf' = With(sizeOf, NewFrame(TotalPackets(size)), size)
  /\ UNCHANGED payloads

NextPacket ==
  [session |-> session, frame |-> burst.frame, index |-> burst.next, total |-> burst.total]

\* One turn of the loop.
NextOffset == offset + PayloadSize(dataSize, offset)
SendPayload ==
  /\ SendPacket
  /\ payloads' = With(payloads, NextPacket,
                      [from |-> offset, size |-> PayloadSize(dataSize, offset)])
  /\ offset' = NextOffset
  /\ UNCHANGED <<dataSize, sizeOf>>

\* The packet count has wrapped to 0: SendData returns success with nothing sent, and
\* the number is used up as if vvenc had kept the picture.
SendNothing(size) ==
  /\ TotalPackets(size) = 0
  /\ HoldFrame
  /\ UNCHANGED transferVars

\* What Reassembly does with a packet it does whatever is in it.
Elsewhere ==
  /\ \/ HoldFrame \/ SendPacketFails \/ RestartSender
     \/ Receiver \/ ReceiveMalformed
     \/ \E p \in net : Lose(p)
     \/ HandleFeedback \/ LoseFeedback
  /\ UNCHANGED transferVars

TransferNext ==
  \/ \E size \in FrameSizes : BeginData(size) \/ SendNothing(size)
  \/ SendPayload
  \/ Elsewhere

TransferSpec == TransferInit /\ [][TransferNext]_allVars

\* The fairness of Reassembly: the loop of SendData, and datagrams in flight.
FairTransferSpec ==
  TransferSpec /\ WF_allVars(SendPayload) /\ WF_allVars(Receiver /\ UNCHANGED transferVars)

-----------------------------------------------------------------------------
(***************************************************************************)
(* Properties.                                                             *)
(***************************************************************************)
End(p) == payloads[p].from + payloads[p].size

\* The payloads in data, one after another, are the bytes of an access unit from 0
\* on: all n bytes of it, or the first of them when n needs more packets than can
\* be counted.
Rebuilds(data, n) ==
  LET last == Cardinality(DOMAIN data) - 1
  IN /\ payloads[data[0]].from = 0
     /\ \A k \in 1..last : payloads[data[k]].from = End(data[k - 1])
     /\ IF Countable(n) THEN End(data[last]) = n ELSE End(data[last]) <= n

\* The data that ProcessPacket puts together is byte for byte an access unit that
\* SendData was given, also where its last packet is exactly full, and the beginning
\* of one where the 16-bit packet count overflows.  Until the sender is restarted.
BytesArrive ==
  session = 0 =>
    \A i \in 1..Len(decoded) : \E b \in begun :
      MadeOf(decoded[i], b) /\ Rebuilds(decoded[i].data, sizeOf[b])

\* Over a network that loses and reorders nothing, every access unit whose packets
\* can be counted is decoded in the end.
FramesArrive ==
  \A f \in Frames :
    (\E b \in begun : b.frame = f /\ Countable(sizeOf[b]))
      ~> (\E i \in 1..Len(decoded) : decoded[i].frame = f)
=============================================================================
