----------------------------- MODULE Packetizer -----------------------------
(***************************************************************************)
(* How MessageSender::SendData cuts an access unit into packets: the sizes *)
(* it computes, with the width of the packet counter.                      *)
(***************************************************************************)
EXTENDS Integers

CONSTANTS
  MaxPacketSize,  \* max_packet_size_, 1400
  HeaderSize,     \* sizeof(PacketHeader), 12
  IndexMod        \* 2^16: total_packets and packet_index are uint16_t

ASSUME PacketizerAssumption ==
  /\ HeaderSize \in Nat /\ MaxPacketSize \in Nat /\ HeaderSize < MaxPacketSize
  /\ IndexMod \in Nat \ {0}

MaxPayload == MaxPacketSize - HeaderSize

\* "(data_size + max_payload_size - 1) / max_payload_size"
PacketsNeeded_RoundsDown(size) == size \div MaxPayload
PacketsNeeded(size) == (size + MaxPayload - 1) \div MaxPayload

\* static_cast<uint16_t>
TotalPackets(size) == PacketsNeeded(size) % IndexMod

\* What the packet that begins at offset carries.
PayloadSize(size, offset) ==
  IF size - offset > MaxPayload THEN MaxPayload ELSE size - offset

\* The counter is wide enough for an access unit of this size.
Countable(size) == PacketsNeeded(size) < IndexMod
=============================================================================
