------------------------ MODULE FrameTransfer_proofs ------------------------
(***************************************************************************)
(* Proofs about FrameTransfer, for every packet size, counter width, size  *)
(* of access units and network: as long as one sender has run, every       *)
(* decoded frame is the access unit it was cut from.  The argument is that *)
(* packet i of an access unit carries the bytes from i * MaxPayload on,    *)
(* which the loop of SendData maintains.                                   *)
(***************************************************************************)
EXTENDS FrameTransfer, Reassembly_proofs

(***************************************************************************)
(* The arithmetic of SendData.                                             *)
(***************************************************************************)
\* Rounding up: all packets together hold the data, one fewer do not.
LEMMA RoundUp ==
  ASSUME NEW n \in Nat \ {0}
  PROVE  /\ MaxPayload \in Nat \ {0}
         /\ PacketsNeeded(n) \in Nat \ {0}
         /\ n <= PacketsNeeded(n) * MaxPayload
         /\ (PacketsNeeded(n) - 1) * MaxPayload < n
<1> DEFINE P == MaxPayload
           q == (n + P - 1) \div P
<1>1. P \in Nat \ {0}
  BY PacketizerAssumption DEF MaxPayload
<1>2. \A a \in Nat, p \in Nat \ {0} :
        a \div p \in Nat /\ (a \div p) * p <= a /\ a < (a \div p + 1) * p
  BY SMT
<1>3. n + P - 1 \in Nat
  BY <1>1
<1> HIDE DEF P
<1>4. q \in Nat /\ q * P <= n + P - 1 /\ n + P - 1 < (q + 1) * P
  BY <1>1, <1>2, <1>3
<1> HIDE DEF q
<1>5. (q + 1) * P = q * P + P /\ (q - 1) * P = q * P - P /\ q * P \in Nat
  BY <1>1, <1>4
<1>6. q # 0
  <2> SUFFICES ASSUME q = 0 PROVE FALSE
    OBVIOUS
  <2>1. (q + 1) * P = P
    BY <1>1
  <2> QED
    BY <1>1, <1>4, <2>1
<1> QED
  BY <1>1, <1>4, <1>5, <1>6 DEF P, q, PacketsNeeded

\* The 16-bit count is the count, unless the data needs too many packets.
LEMMA CountFits ==
  ASSUME NEW n \in Nat \ {0}
  PROVE  /\ TotalPackets(n) \in 0..(IndexMod - 1)
         /\ TotalPackets(n) <= PacketsNeeded(n)
         /\ Countable(n) => TotalPackets(n) = PacketsNeeded(n)
<1>1. PacketsNeeded(n) \in Nat
  BY RoundUp
<1>2. \A a \in Nat, m \in Nat \ {0} : a % m \in 0..(m - 1) /\ a % m <= a /\ (a < m => a % m = a)
  BY SMT
<1> QED
  BY <1>1, <1>2, PacketizerAssumption DEF TotalPackets, Countable

\* The packet with index k begins inside the data; it is full unless it is the last
\* one needed, which takes what is left.
LEMMA Payload ==
  ASSUME NEW n \in Nat \ {0}, NEW k \in Nat, k < PacketsNeeded(n)
  PROVE  LET end == k * MaxPayload + PayloadSize(n, k * MaxPayload)
         IN /\ k + 1 < PacketsNeeded(n) => end = (k + 1) * MaxPayload
            /\ k + 1 = PacketsNeeded(n) => end = n
            /\ end <= n
<1> DEFINE P == MaxPayload
           q == PacketsNeeded(n)
<1>1. /\ P \in Nat \ {0} /\ q \in Nat \ {0}
      /\ n <= q * P /\ (q - 1) * P < n
  BY RoundUp
<1>2. PayloadSize(n, k * P) = IF n - k * P > P THEN P ELSE n - k * P
  BY DEF PayloadSize
<1> HIDE DEF P, q
<1>3. k * P \in Nat /\ (k + 1) * P = k * P + P
  BY <1>1
<1>4. CASE k + 1 < q
  <2>1. (k + 1) * P <= (q - 1) * P
    BY <1>1, <1>4
  <2>2. (q - 1) * P \in Int
    BY <1>1
  <2> QED
    BY <1>1, <1>2, <1>3, <1>4, <2>1, <2>2 DEF P, q
<1>5. CASE k + 1 = q
  <2>1. n <= k * P + P
    BY <1>1, <1>3, <1>5
  <2> QED
    BY <1>1, <1>2, <1>3, <1>5, <2>1 DEF P, q
<1> QED
  BY <1>1, <1>4, <1>5 DEF q

-----------------------------------------------------------------------------
(***************************************************************************)
(* What holds of Reassembly holds here.                                    *)
(***************************************************************************)
\* Every step is a step of Reassembly or leaves its variables alone.
LEMMA StepImplements == [TransferNext]_allVars => [Next]_vars
<1> SUFFICES ASSUME [TransferNext]_allVars PROVE [Next]_vars
  OBVIOUS
<1>1. ASSUME NEW size \in FrameSizes, BeginData(size) PROVE Sender
  <2>1. TotalPackets(size) \in 1..MaxPackets
    <3>1. size \in Nat \ {0}
      BY FrameTransferAssumption
    <3>2. TotalPackets(size) \in 0..(IndexMod - 1)
      BY <3>1, CountFits
    <3>3. TotalPackets(size) > 0 /\ IndexMod <= MaxPackets + 1
      BY <1>1, FrameTransferAssumption DEF BeginData
    <3> QED
      BY <3>2, <3>3, PacketizerAssumption, ReassemblyAssumption
  <2>2. BeginFrame(TotalPackets(size))
    BY <1>1 DEF BeginData
  <2> QED
    BY <2>1, <2>2 DEF Sender
<1>2. ASSUME NEW size \in FrameSizes, SendNothing(size) PROVE Sender
  BY <1>2 DEF SendNothing, Sender
<1>3. CASE SendPayload
  BY <1>3 DEF SendPayload, Next, Sender
<1>4. CASE Elsewhere
  BY <1>4 DEF Elsewhere, Next, Sender
<1>5. CASE UNCHANGED allVars
  BY <1>5 DEF allVars
<1> QED
  BY <1>1, <1>2, <1>3, <1>4, <1>5 DEF TransferNext, Next

\* FrameTransfer only adds to the actions of Reassembly, whose invariant it keeps.
LEMMA ReassemblyHolds == TransferSpec => []IInv
<1>1. TransferInit => Init
  BY DEF TransferInit
<1> QED
  BY <1>1, StepImplements, Inductive, PTL DEF TransferSpec, Spec

-----------------------------------------------------------------------------
(***************************************************************************)
(* The invariant.                                                          *)
(***************************************************************************)
\* The frame a packet was cut from.
FrameOf(p) == [session |-> p.session, frame |-> p.frame, total |-> p.total]

\* The frame SendData is sending.
Current == [session |-> session, frame |-> burst.frame, total |-> burst.total]

SizesKnown ==
  /\ DOMAIN sizeOf = begun
  /\ \A b \in begun : sizeOf[b] \in Nat \ {0} /\ b.total = TotalPackets(sizeOf[b])

\* What the loop of SendData maintains.
OffsetInv ==
  Sending => dataSize = sizeOf[Current] /\ offset = burst.next * MaxPayload

PayloadsInv ==
  \A p \in DOMAIN payloads :
    /\ p \in Packet /\ Cut(p) /\ p.index < p.total
    /\ payloads[p] = [from |-> p.index * MaxPayload,
                      size |-> PayloadSize(sizeOf[FrameOf(p)], p.index * MaxPayload)]

\* Whatever is under way, stored or decoded has been sent.
Sent(p) == p \in DOMAIN payloads \cup {NoPacket}
SentInv ==
  /\ net \subseteq DOMAIN payloads
  /\ \A f \in DOMAIN assemblies : \A i \in 0..(assemblies[f].size - 1) :
       Sent(assemblies[f].slots[i])
  /\ \A i \in 1..Len(decoded) : \A k \in DOMAIN decoded[i].data : Sent(decoded[i].data[k])

TInv == SizesKnown /\ OffsetInv /\ PayloadsInv /\ SentInv

\* Nothing has been sent at first.
LEMMA InitTransfer == TransferInit => TInv
<1> SUFFICES ASSUME TransferInit PROVE TInv
  OBVIOUS
<1>1. /\ begun = {} /\ DOMAIN sizeOf = {} /\ DOMAIN payloads = {} /\ net = {}
      /\ DOMAIN assemblies = {} /\ Len(decoded) = 0 /\ burst.next = 0 /\ burst.total = 0
  BY DEF TransferInit, Init, NoBurst
<1> QED
  BY <1>1 DEF TInv, SizesKnown, OffsetInv, PayloadsInv, SentInv, Sending

\* Only SendData's own steps change what it has cut.
LEMMA Frame ==
  ASSUME [TransferNext]_allVars
  PROVE  \/ \E size \in FrameSizes : BeginData(size)
         \/ SendPayload
         \/ /\ UNCHANGED <<transferVars, begun>>
            /\ net' \subseteq net
            /\ burst' = NoBurst \/ UNCHANGED <<session, burst>>
<1>1. CASE Elsewhere
  BY <1>1 DEF Elsewhere, HoldFrame, SendPacketFails, RestartSender, Receiver, Receive,
     ReceiveOutOfRange, ReceiveMalformed, Lose, HandleFeedback, LoseFeedback, Deliver,
     senderVars, netVars
<1>2. ASSUME NEW size \in FrameSizes, SendNothing(size)
      PROVE  UNCHANGED <<transferVars, begun, net, burst, session>>
  BY <1>2 DEF SendNothing, HoldFrame, netVars
<1>3. CASE UNCHANGED allVars
  BY <1>3 DEF allVars, vars, senderVars, netVars
<1> QED
  BY <1>1, <1>2, <1>3 DEF TransferNext

\* A new frame has a number of its own, so the sizes of the old ones stay.
LEMMA StepSizesKnown ==
  ASSUME IInv, TInv, [TransferNext]_allVars
  PROVE  /\ SizesKnown'
         /\ begun \subseteq begun' /\ \A b \in begun : sizeOf'[b] = sizeOf[b]
<1>1. ASSUME NEW size \in FrameSizes, BeginData(size)
      PROVE  /\ SizesKnown'
             /\ begun \subseteq begun' /\ \A b \in begun : sizeOf'[b] = sizeOf[b]
  <2> DEFINE new == NewFrame(TotalPackets(size))
  <2>1. begun' = begun \cup {new} /\ sizeOf' = With(sizeOf, new, size)
    BY <1>1 DEF BeginData, BeginFrame, NewFrame
  <2>2. new \notin begun
    BY DEF IInv, SenderInv, NewFrame, TypeOK
  <2>3. size \in Nat \ {0} /\ new.total = TotalPackets(size)
    BY FrameTransferAssumption DEF NewFrame
  <2> HIDE DEF new
  <2> QED
    BY <2>1, <2>2, <2>3 DEF With, SizesKnown, TInv
<1>2. CASE SendPayload
  BY <1>2 DEF SendPayload, SendPacket, TInv, SizesKnown
<1>3. CASE UNCHANGED <<transferVars, begun>>
  BY <1>3 DEF transferVars, TInv, SizesKnown
<1> QED
  BY <1>1, <1>2, <1>3, Frame

\* The offset moves by one full payload as long as a packet is to follow.
LEMMA StepOffset ==
  ASSUME IInv, TInv, [TransferNext]_allVars
  PROVE  OffsetInv'
<1>1. ASSUME NEW size \in FrameSizes, BeginData(size) PROVE OffsetInv'
  <2>1. /\ sizeOf' = With(sizeOf, NewFrame(TotalPackets(size)), size)
        /\ dataSize' = size /\ offset' = 0 /\ session' = session
        /\ burst' = [frame |-> nextFrame, total |-> TotalPackets(size), next |-> 0]
    BY <1>1 DEF BeginData, BeginFrame
  <2>2. Current' = NewFrame(TotalPackets(size)) /\ burst'.next = 0
    BY <2>1 DEF Current, NewFrame
  <2>3. MaxPayload \in Nat
    BY PacketizerAssumption DEF MaxPayload
  <2> QED
    BY <2>1, <2>2, <2>3 DEF With, OffsetInv
<1>2. CASE SendPayload
  <2>1. /\ Sending /\ offset' = offset + PayloadSize(dataSize, offset)
        /\ UNCHANGED <<dataSize, sizeOf, session>>
        /\ burst' = [burst EXCEPT !.next = @ + 1]
    BY <1>2 DEF SendPayload, SendPacket, NextOffset
  <2>2. burst \in [frame : Frames, total : 0..MaxPackets, next : 0..MaxPackets]
    BY DEF IInv, TypeOK
  <2>3. Current \in begun /\ burst.next < burst.total
    BY <2>1 DEF IInv, SenderInv, Current, Sending
  <2> DEFINE n == sizeOf[Current]
             k == burst.next
  <2>4. n \in Nat \ {0} /\ burst.total = TotalPackets(n)
    BY <2>3 DEF TInv, SizesKnown, Current
  <2>5. dataSize = n /\ offset = k * MaxPayload
    BY <2>1 DEF TInv, OffsetInv
  <2>6. burst'.next = k + 1 /\ burst'.total = burst.total /\ Current' = Current /\ k \in Nat
    BY <2>1, <2>2, ReassemblyAssumption DEF Current
  <2>7. burst.total <= PacketsNeeded(n) /\ PacketsNeeded(n) \in Nat /\ burst.total \in Nat
    BY <2>2, <2>4, CountFits, RoundUp, ReassemblyAssumption
  <2> HIDE DEF n, k
  <2> SUFFICES ASSUME Sending' PROVE dataSize' = sizeOf'[Current'] /\ offset' = (k + 1) * MaxPayload
    BY <2>6 DEF OffsetInv
  <2>8. k + 1 < PacketsNeeded(n)
    BY <2>6, <2>7 DEF Sending
  <2>9. offset' = (k + 1) * MaxPayload
    BY <2>1, <2>4, <2>5, <2>6, <2>7, <2>8, Payload
  <2> QED
    BY <2>1, <2>5, <2>6, <2>9 DEF n
<1>3. CASE /\ UNCHANGED <<transferVars, begun>>
           /\ burst' = NoBurst \/ UNCHANGED <<session, burst>>
  BY <1>3 DEF transferVars, TInv, OffsetInv, Sending, NoBurst, Current
<1> QED
  BY <1>1, <1>2, <1>3, Frame

\* A packet carries the bytes from the offset on, whose place is its index.
LEMMA StepPayloads ==
  ASSUME IInv, TInv, [TransferNext]_allVars
  PROVE  PayloadsInv'
<1>0. begun \subseteq begun' /\ \A b \in begun : sizeOf'[b] = sizeOf[b]
  BY StepSizesKnown
<1>1. CASE payloads' = payloads
  <2> SUFFICES ASSUME NEW p \in DOMAIN payloads
               PROVE  /\ p \in Packet /\ Cut(p)' /\ p.index < p.total
                      /\ payloads[p] =
                           [from |-> p.index * MaxPayload,
                            size |-> PayloadSize(sizeOf'[FrameOf(p)], p.index * MaxPayload)]
    BY <1>1 DEF PayloadsInv
  <2>1. p \in Packet /\ Cut(p) /\ p.index < p.total /\ FrameOf(p) \in begun
    BY DEF TInv, PayloadsInv, Cut, FrameOf
  <2> QED
    BY <1>0, <2>1 DEF TInv, PayloadsInv, Cut
<1>2. CASE SendPayload
  <2>1. /\ Sending /\ UNCHANGED <<sizeOf, begun>>
        /\ payloads' = With(payloads, NextPacket,
                            [from |-> offset, size |-> PayloadSize(dataSize, offset)])
    BY <1>2 DEF SendPayload, SendPacket
  <2>2. /\ burst \in [frame : Frames, total : 0..MaxPackets, next : 0..MaxPackets]
        /\ session \in Sessions
    BY DEF IInv, TypeOK
  <2>3. Current \in begun /\ burst.next < burst.total
    BY <2>1 DEF IInv, SenderInv, Current, Sending
  <2>4. dataSize = sizeOf[Current] /\ offset = burst.next * MaxPayload
    BY <2>1 DEF TInv, OffsetInv
  <2>5. NextPacket \in Packet /\ FrameOf(NextPacket) = Current
    BY <2>2, <2>3, ReassemblyAssumption DEF NextPacket, Packet, FrameOf, Current
  <2>6. NextPacket.index = burst.next /\ NextPacket.total = burst.total /\ Cut(NextPacket)
    BY <2>3, <2>5 DEF NextPacket, FrameOf, Cut
  <2> SUFFICES ASSUME NEW p \in DOMAIN payloads'
               PROVE  /\ p \in Packet /\ Cut(p) /\ p.index < p.total
                      /\ payloads'[p] =
                           [from |-> p.index * MaxPayload,
                            size |-> PayloadSize(sizeOf[FrameOf(p)], p.index * MaxPayload)]
    BY <2>1 DEF PayloadsInv, Cut, FrameOf
  <2>7. CASE p = NextPacket
    BY <2>1, <2>3, <2>4, <2>5, <2>6, <2>7 DEF With
  <2>8. CASE p # NextPacket
    BY <2>1, <2>8 DEF With, TInv, PayloadsInv
  <2> QED
    BY <2>7, <2>8
<1> QED
  BY <1>1, <1>2, Frame DEF transferVars, BeginData

\* The receiver stores and decodes what has been sent.
LEMMA StepSent ==
  ASSUME IInv, TInv, [TransferNext]_allVars
  PROVE  SentInv'
<1>0. [Next]_vars /\ TypeOK
  BY StepImplements DEF IInv
<1>1. DOMAIN payloads \subseteq DOMAIN payloads' /\ net' \subseteq DOMAIN payloads'
  <2>1. CASE SendPayload
    BY <2>1 DEF SendPayload, SendPacket, With, NextPacket, TInv, SentInv
  <2>2. ASSUME NEW size \in FrameSizes, BeginData(size)
        PROVE  payloads' = payloads /\ net' = net
    BY <2>2 DEF BeginData, BeginFrame, netVars
  <2> QED
    BY <2>1, <2>2, Frame DEF transferVars, TInv, SentInv
<1>2. CASE UNCHANGED <<assemblies, decoded>>
  BY <1>1, <1>2 DEF TInv, SentInv, Sent
<1>3. ASSUME NEW p \in net, Receive(p) PROVE SentInv'
  <2>1. p \in Packet /\ p.index < AssemblyFor(p).size /\ Sent(p)
    BY <1>0, <1>3 DEF TypeOK, Receive, TInv, SentInv, Sent
  <2>2. IsAssembly(Stored(p)) /\ Stored(p).size = AssemblyFor(p).size
    BY <1>0, <2>1, StoredShape
  <2>3. \A i \in 0..(Stored(p).size - 1) : Sent(Stored(p).slots[i])
    <3> SUFFICES ASSUME NEW i \in 0..(Stored(p).size - 1) PROVE Sent(Stored(p).slots[i])
      OBVIOUS
    <3>1. Stored(p).slots[i] = p \/ Stored(p).slots[i] = AssemblyFor(p).slots[i]
      BY <1>0, <2>1, <2>2, StoredShape
    <3>2. Sent(AssemblyFor(p).slots[i])
      <4>1. CASE p.frame \in DOMAIN assemblies
        BY <2>2, <4>1 DEF AssemblyFor, TInv, SentInv
      <4>2. CASE p.frame \notin DOMAIN assemblies
        <5>1. AssemblyFor(p) = EmptyAssembly(p.total)
          BY <4>2 DEF AssemblyFor
        <5>2. AssemblyFor(p).slots[i] = NoPacket
          BY <2>2, <5>1 DEF EmptyAssembly
        <5> QED
          BY <5>2 DEF Sent
      <4> QED
        BY <4>1, <4>2
    <3> QED
      BY <2>1, <3>1, <3>2
  <2>4. \A g \in DOMAIN assemblies' : \A i \in 0..(assemblies'[g].size - 1) :
          Sent(assemblies'[g].slots[i])
    <3> SUFFICES ASSUME NEW g \in DOMAIN assemblies', NEW i \in 0..(assemblies'[g].size - 1)
                 PROVE  Sent(assemblies'[g].slots[i])
      OBVIOUS
    <3> DEFINE m == [Stored(p) EXCEPT !.complete = TRUE]
    <3>1. m.size = Stored(p).size /\ m.slots = Stored(p).slots
      BY <2>2, MarkedSame
    <3>2. \/ g \in DOMAIN assemblies /\ assemblies'[g] = assemblies[g]
          \/ assemblies'[g] = m \/ assemblies'[g] = Stored(p)
      BY <1>3, ReceiveAssemblies
    <3> QED
      BY <2>3, <3>1, <3>2 DEF TInv, SentInv
  <2>5. \A i \in 1..Len(decoded') : \A k \in DOMAIN decoded'[i].data : Sent(decoded'[i].data[k])
    <3> SUFFICES ASSUME NEW i \in 1..Len(decoded'), NEW k \in DOMAIN decoded'[i].data
                 PROVE  Sent(decoded'[i].data[k])
      OBVIOUS
    <3>1. \/ i \in 1..Len(decoded) /\ decoded'[i] = decoded[i]
          \/ decoded'[i] = [frame |-> p.frame, data |-> Stored(p).slots]
      BY <1>0, <1>3, ReceiveDecoded
    <3>2. DOMAIN Stored(p).slots = 0..(Stored(p).size - 1)
      BY <2>2 DEF IsAssembly
    <3>3. CASE i \in 1..Len(decoded) /\ decoded'[i] = decoded[i]
      BY <3>3 DEF TInv, SentInv
    <3>4. CASE decoded'[i] = [frame |-> p.frame, data |-> Stored(p).slots]
      <4>1. decoded'[i].data = Stored(p).slots
        BY <3>4
      <4>2. k \in 0..(Stored(p).size - 1)
        BY <3>2, <4>1
      <4> QED
        BY <2>3, <4>1, <4>2
    <3> QED
      BY <3>1, <3>3, <3>4
  <2> QED
    BY <1>1, <2>4, <2>5 DEF SentInv, Sent
<1> QED
  BY <1>0, <1>2, <1>3, OnlyReceive

\* TInv is inductive relative to the invariant of Reassembly.
THEOREM TransferInvariant == TransferSpec => []TInv
<1>1. TransferInit => TInv
  BY InitTransfer
<1>2. IInv /\ TInv /\ [TransferNext]_allVars => TInv'
  BY StepSizesKnown, StepOffset, StepPayloads, StepSent DEF TInv
<1> QED
  BY <1>1, <1>2, ReassemblyHolds, PTL DEF TransferSpec

\* The payloads of a whole frame, in the order of their indices, are its bytes.
LEMMA WholeRebuilds ==
  ASSUME IInv, TInv, NEW i \in 1..Len(decoded), NEW b \in begun, MadeOf(decoded[i], b)
  PROVE  Rebuilds(decoded[i].data, sizeOf[b])
<1> DEFINE data == decoded[i].data
           n == sizeOf[b]
<1>1. n \in Nat \ {0} /\ b.total = TotalPackets(n)
  BY DEF TInv, SizesKnown
<1> HIDE DEF n
<1>2. /\ b \in [session : Sessions, frame : Frames, total : 1..MaxPackets]
      /\ b.total \in Nat \ {0} /\ b.total <= PacketsNeeded(n) /\ PacketsNeeded(n) \in Nat
  <2>1. b \in [session : Sessions, frame : Frames, total : 1..MaxPackets]
    BY DEF IInv, TypeOK
  <2>2. b.total \in Nat \ {0}
    BY <2>1, ReassemblyAssumption
  <2> QED
    BY <1>1, <2>1, <2>2, CountFits, RoundUp
<1>3. /\ data = [k \in 0..(b.total - 1) |->
                  [session |-> b.session, frame |-> b.frame, index |-> k, total |-> b.total]]
  BY DEF MadeOf
<1>4. Cardinality(DOMAIN data) = b.total
  <2>1. DOMAIN data = 0..(b.total - 1)
    BY <1>3
  <2> HIDE DEF data
  <2> QED
    BY <1>2, <2>1, FS_Interval
<1>5. \A k \in 0..(b.total - 1) :
        payloads[data[k]] = [from |-> k * MaxPayload, size |-> PayloadSize(n, k * MaxPayload)]
  <2> SUFFICES ASSUME NEW k \in 0..(b.total - 1)
               PROVE  payloads[data[k]] =
                        [from |-> k * MaxPayload, size |-> PayloadSize(n, k * MaxPayload)]
    OBVIOUS
  <2> DEFINE p == [session |-> b.session, frame |-> b.frame, index |-> k, total |-> b.total]
  <2>1. data[k] = p /\ Sent(data[k])
    BY <1>3 DEF TInv, SentInv
  <2>2. p # NoPacket
    BY <1>2 DEF NoPacket
  <2>3. p \in DOMAIN payloads
    BY <2>1, <2>2 DEF Sent
  <2>4. p.index = k /\ FrameOf(p) = b
    BY <1>2 DEF FrameOf
  <2> HIDE DEF p
  <2> QED
    BY <2>1, <2>3, <2>4 DEF TInv, PayloadsInv, n
<1> HIDE DEF data
<1>6. \A k \in 0..(b.total - 1) :
        /\ payloads[data[k]].from = k * MaxPayload
        /\ End(data[k]) = k * MaxPayload + PayloadSize(n, k * MaxPayload)
  <2> SUFFICES ASSUME NEW k \in 0..(b.total - 1)
               PROVE  /\ payloads[data[k]].from = k * MaxPayload
                      /\ End(data[k]) = k * MaxPayload + PayloadSize(n, k * MaxPayload)
    OBVIOUS
  <2>1. payloads[data[k]] = [from |-> k * MaxPayload, size |-> PayloadSize(n, k * MaxPayload)]
    BY <1>5
  <2> QED
    BY <2>1 DEF End
<1>7. \A k \in 1..(b.total - 1) : payloads[data[k]].from = End(data[k - 1])
  <2> SUFFICES ASSUME NEW k \in 1..(b.total - 1)
               PROVE  payloads[data[k]].from = End(data[k - 1])
    OBVIOUS
  <2>1. k - 1 \in 0..(b.total - 1) /\ k - 1 < PacketsNeeded(n) /\ (k - 1) + 1 = k
        /\ k < PacketsNeeded(n) /\ k \in 0..(b.total - 1) /\ k - 1 \in Nat
    BY <1>2
  <2>2. End(data[k - 1]) = k * MaxPayload
    BY <1>1, <1>6, <2>1, Payload
  <2> QED
    BY <1>6, <2>1, <2>2
<1>8. IF Countable(n) THEN End(data[b.total - 1]) = n ELSE End(data[b.total - 1]) <= n
  <2>1. b.total - 1 \in 0..(b.total - 1) /\ b.total - 1 \in Nat
        /\ b.total - 1 < PacketsNeeded(n) /\ (b.total - 1) + 1 = b.total
    BY <1>2
  <2>2. Countable(n) => b.total = PacketsNeeded(n)
    BY <1>1, CountFits
  <2> QED
    BY <1>1, <1>6, <2>1, <2>2, Payload
<1>9. payloads[data[0]].from = 0
  <2>1. MaxPayload \in Nat /\ 0 \in 0..(b.total - 1)
    BY <1>2, PacketizerAssumption DEF MaxPayload
  <2> QED
    BY <1>6, <2>1
<1> QED
  BY <1>4, <1>7, <1>8, <1>9 DEF Rebuilds, data, n

\* For every size of packets and counter, every network and all access units: as long
\* as one sender has run, what is decoded is byte for byte what SendData was given.
THEOREM BytesCorrect == TransferSpec => []BytesArrive
<1>1. IInv /\ TInv => BytesArrive
  <2> SUFFICES ASSUME IInv, TInv, session = 0, NEW i \in 1..Len(decoded)
               PROVE  \E b \in begun :
                        MadeOf(decoded[i], b) /\ Rebuilds(decoded[i].data, sizeOf[b])
    BY DEF BytesArrive
  <2>1. PICK b \in begun : MadeOf(decoded[i], b)
    BY DEF IInv, SafeUntilRestart, DecodedIntact, IsWhole
  <2> QED
    BY <2>1, WholeRebuilds
<1> QED
  BY <1>1, ReassemblyHolds, TransferInvariant, PTL
=============================================================================
