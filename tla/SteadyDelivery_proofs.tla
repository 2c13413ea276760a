----------------------- MODULE SteadyDelivery_proofs -----------------------
(***************************************************************************)
(* Proofs about Reassembly while one sender runs, for every window, number *)
(* of frames and packets.                                                  *)
(*                                                                         *)
(* In the steady state, the stream past its first Window frames, so that   *)
(* frame_sequence - 10 does not wrap, over networks that lose, double and  *)
(* reorder.  The argument: what completing a frame forgets is older than   *)
(* the window; so a packet that has arrived is in its slot as long as its  *)
(* frame is not; so what is stored, acknowledged or decoded is so once.    *)
(*                                                                         *)
(* From frame 0 on, over networks that keep the order and may lose: the    *)
(* last section, with an argument of its own.                              *)
(***************************************************************************)
EXTENDS Reassembly_proofs, SequenceTheorems

Steady == FirstFrame >= Window /\ MaxSession = 0

-----------------------------------------------------------------------------
(***************************************************************************)
(* The invariant.                                                          *)
(***************************************************************************)
\* Every frame number is past the first Window.
PastStart == nextFrame >= FirstFrame /\ \A b \in begun : b.frame >= FirstFrame

\* A packet that has arrived is in its slot, unless its frame may have been forgotten.
ArrivedStored ==
  \A p \in delivered :
    p.frame + Window >= lastCompleted =>
      /\ p.frame \in DOMAIN assemblies
      /\ p.index \in 0..(assemblies[p.frame].size - 1)
      /\ assemblies[p.frame].slots[p.index] = p

\* An assembly that has all its packets has been decoded.
FullComplete ==
  \A f \in DOMAIN assemblies :
    assemblies[f].received = assemblies[f].size => assemblies[f].complete

\* A frame that has been decoded is remembered, or older than the window.
DecodedRemembered ==
  \A i \in 1..Len(decoded) :
    \/ decoded[i].frame \in DOMAIN assemblies /\ assemblies[decoded[i].frame].complete
    \/ lastCompleted > decoded[i].frame + Window

\* The newest completed frame has been decoded.
NewestDecoded ==
  lastCompleted > 0 => \E i \in 1..Len(decoded) : decoded[i].frame = lastCompleted

SteadyInv ==
  /\ PastStart /\ ArrivedStored /\ FullComplete /\ DecodedRemembered /\ NewestDecoded
  /\ IsFiniteSet(delivered) /\ AckedOnce

\* Before anything has been sent.
LEMMA SteadyInit == Steady /\ Init => SteadyInv
<1> SUFFICES ASSUME Steady, Init PROVE SteadyInv
  OBVIOUS
<1>1. DOMAIN assemblies = {} /\ Len(decoded) = 0 /\ delivered = {}
  BY DEF Init
<1>2. PastStart
  BY ReassemblyAssumption DEF Init, PastStart
<1>3. IsFiniteSet(delivered) /\ Cardinality(delivered) = 0
  BY <1>1, FS_EmptySet
<1>4. AckedOnce
  BY <1>3 DEF AckedOnce, Init
<1>5. ArrivedStored /\ FullComplete /\ DecodedRemembered
  BY <1>1 DEF ArrivedStored, FullComplete, DecodedRemembered
<1>6. NewestDecoded
  BY DEF Init, NewestDecoded
<1> QED
  BY <1>2, <1>3, <1>4, <1>5, <1>6 DEF SteadyInv

-----------------------------------------------------------------------------
(***************************************************************************)
(* Handling a packet.                                                      *)
(***************************************************************************)
\* One sender runs, and its packets are past the first Window frames.
LEMMA SteadyPacket ==
  ASSUME Steady, IInv, PastStart, NEW p \in net
  PROVE  /\ p \in Packet /\ session = 0 /\ p.session = 0
         /\ p.frame \in Frames /\ p.frame >= Window
         /\ p.total \in 1..MaxPackets /\ p.index \in 0..(p.total - 1)
         /\ AssemblyFor(p).size = p.total
<1> USE ReassemblyAssumption
<1>1. p \in Packet /\ session = 0
  BY DEF IInv, TypeOK, Steady, Sessions
<1>2. p.session = 0 /\ AssemblyFor(p).size = p.total
  BY <1>1, OneSize DEF IInv
<1>3. Cut(p) /\ p.index < p.total
  BY DEF IInv, NetInv
<1>4. p.frame >= FirstFrame
  BY <1>3 DEF Cut, PastStart
<1>5. p.frame \in Frames /\ p.total \in 1..MaxPackets /\ p.index \in 0..(MaxPackets - 1)
  BY <1>1 DEF Packet
<1>6. p.frame >= Window
  BY <1>4, <1>5 DEF Steady, Frames
<1> QED
  BY <1>1, <1>2, <1>3, <1>5, <1>6

\* No wrap: a frame is forgotten if it is older than the window, and only then.
LEMMA NotExpired ==
  ASSUME NEW f \in Frames, f >= Window, NEW g \in Frames
  PROVE  Expired(g, f) <=> g + Window < f
<1>1. f - Window \in 0..(SeqMod - 1) /\ SeqMod \in Nat \ {0}
  BY ReassemblyAssumption DEF Frames
<1>2. (f - Window) % SeqMod = f - Window
  BY <1>1
<1> QED
  BY <1>2, ReassemblyAssumption DEF Expired, Frames

\* Handling p keeps every assembly of the last Window frames, p's own included.
LEMMA ReceiveKeeps ==
  ASSUME Steady, IInv, PastStart, NEW p \in net, Receive(p)
  PROVE  /\ lastCompleted \in Nat /\ lastCompleted' \in Nat
         /\ lastCompleted' >= lastCompleted
         /\ lastCompleted' # lastCompleted => Completes(p) /\ lastCompleted' = p.frame
         /\ Completes(p) => lastCompleted' >= p.frame
         /\ p.frame \in DOMAIN assemblies'
         /\ \A g \in DOMAIN assemblies :
              g + Window >= lastCompleted' => g \in DOMAIN assemblies'
<1> USE ReassemblyAssumption
<1>1. p.frame \in Frames /\ p.frame >= Window
  BY SteadyPacket
<1>2. lastCompleted \in Frames /\ DOMAIN assemblies \subseteq Frames
  BY DEF IInv, TypeOK
<1>3. CASE Collect(p)
  BY <1>1, <1>2, <1>3 DEF Collect, AssembliesWith, Frames
<1>4. CASE Complete(p) /\ p.frame > lastCompleted
  <2> DEFINE kept == {g \in Frames : ~Expired(g, p.frame)}
  <2>1. lastCompleted' = p.frame /\ Completes(p)
    BY <1>1, <1>2, <1>4 DEF Complete, Frames
  <2>2. DOMAIN assemblies' = (DOMAIN assemblies \cup {p.frame}) \cap kept
    <3>1. ~(p.frame <= lastCompleted)
      BY <1>1, <1>2, <1>4 DEF Frames
    <3>2. \E a : assemblies' = AssembliesWith(p.frame, a, kept)
      BY <1>4, <3>1 DEF Complete
    <3> QED
      BY <3>2 DEF AssembliesWith
  <2>3. \A g \in Frames : g + Window >= p.frame => g \in kept
    BY <1>1, NotExpired DEF Frames
  <2>4. p.frame \in kept
    BY <1>1, <2>3 DEF Frames
  <2> HIDE DEF kept
  <2> QED
    BY <1>1, <1>2, <1>4, <2>1, <2>2, <2>3, <2>4 DEF Frames
<1>5. CASE Complete(p) /\ p.frame <= lastCompleted
  <2>1. /\ lastCompleted' = lastCompleted /\ Completes(p)
        /\ DOMAIN assemblies' = (DOMAIN assemblies \cup {p.frame}) \cap Frames
    BY <1>1, <1>2, <1>5 DEF Complete, AssembliesWith, Frames
  <2> QED
    BY <1>1, <1>2, <1>5, <2>1 DEF Frames
<1> QED
  BY <1>1, <1>2, <1>3, <1>4, <1>5 DEF Receive, Frames

\* The assembly of p afterwards: as stored, marked complete if it was or is now.
LEMMA ReceiveOwn ==
  ASSUME Steady, IInv, PastStart, NEW p \in net, Receive(p)
  PROVE  LET a == assemblies'[p.frame] IN
         /\ a.size = p.total
         /\ a.slots = Stored(p).slots
         /\ a.received = Stored(p).received
         /\ a.complete <=> AssemblyFor(p).complete \/ Completes(p)
<1>1. p \in Packet /\ p.index < AssemblyFor(p).size /\ AssemblyFor(p).size = p.total
  BY SteadyPacket DEF Receive
<1>2. /\ IsAssembly(Stored(p)) /\ Stored(p).size = p.total
      /\ Stored(p).complete = AssemblyFor(p).complete
  BY <1>1, StoredShape DEF IInv
<1>3. assemblies'[p.frame] =
        IF Completes(p) THEN [Stored(p) EXCEPT !.complete = TRUE] ELSE Stored(p)
  BY ReceiveKeeps, ReceiveAssemblies
<1>4. CASE Completes(p)
  BY <1>2, <1>3, <1>4, MarkedSame
<1>5. CASE ~Completes(p)
  BY <1>2, <1>3, <1>5
<1> QED
  BY <1>4, <1>5

\* p is in its slot afterwards, and no slot that was filled has changed.
LEMMA ReceiveSlots ==
  ASSUME Steady, IInv, PastStart, NEW p \in net, Receive(p)
  PROVE  /\ Stored(p).slots[p.index] = p
         /\ IsNew(p) \/ AssemblyFor(p).slots[p.index] = p
         /\ \A i \in 0..(p.total - 1) :
              AssemblyFor(p).slots[i] # NoPacket
                => Stored(p).slots[i] = AssemblyFor(p).slots[i]
<1>1. /\ p \in Packet /\ p.index \in 0..(p.total - 1) /\ AssemblyFor(p).size = p.total
      /\ session = 0 /\ p.session = 0
  BY SteadyPacket
<1>2. \A i \in 0..(p.total - 1) :
        Stored(p).slots[i] = IF IsNew(p) /\ i = p.index THEN p ELSE AssemblyFor(p).slots[i]
  BY <1>1, StoredShape DEF IInv, Receive
<1>3. ASSUME ~IsNew(p) PROVE AssemblyFor(p).slots[p.index] = p
  <2> DEFINE q == AssemblyFor(p).slots[p.index]
  <2>1. q # NoPacket /\ q = Stored(p).slots[p.index]
    BY <1>1, <1>2, <1>3 DEF IsNew
  <2>2. IsAssembly(AssemblyFor(p))
    BY <1>1, AssemblyForType DEF IInv
  <2>3. q \in Packet
    BY <1>1, <2>1, <2>2 DEF IsAssembly
  <2>4. Stored(p).size = p.total
    BY <1>1, StoredShape DEF IInv, Receive
  <2>5. q.frame = p.frame /\ q.index = p.index /\ Cut(q)
    BY <1>1, <2>1, <2>4, StoredSlots DEF IInv, Receive
  <2>6. Cut(p)
    BY DEF IInv, NetInv
  <2> HIDE DEF q
  <2>7. q.session = 0
    BY <1>1, <2>3, <2>5 DEF Cut, IInv, SenderInv, Packet, Sessions
  <2>8. q.total = p.total
    BY <1>1, <2>5, <2>6, <2>7 DEF Cut, IInv, SenderInv
  <2>9. q = p
    BY <1>1, <2>3, <2>5, <2>7, <2>8 DEF Packet
  <2> QED
    BY <2>9 DEF q
<1> QED
  BY <1>1, <1>2, <1>3 DEF IsNew

-----------------------------------------------------------------------------
(***************************************************************************)
(* Every step keeps the invariant.                                         *)
(***************************************************************************)
\* What arrived before, and p, is in its slot.
LEMMA StepStored ==
  ASSUME Steady, IInv, SteadyInv, NEW p \in net, Receive(p)
  PROVE  ArrivedStored'
<1>1. /\ p \in Packet /\ p.frame \in Frames /\ p.frame >= Window
      /\ p.total \in 1..MaxPackets /\ p.index \in 0..(p.total - 1)
      /\ AssemblyFor(p).size = p.total
  BY SteadyPacket DEF SteadyInv
<1>2. /\ assemblies'[p.frame].size = p.total
      /\ assemblies'[p.frame].slots = Stored(p).slots
      /\ p.frame \in DOMAIN assemblies'
  BY ReceiveOwn, ReceiveKeeps DEF SteadyInv
<1> SUFFICES ASSUME NEW q \in delivered', q.frame + Window >= lastCompleted'
             PROVE  /\ q.frame \in DOMAIN assemblies'
                    /\ q.index \in 0..(assemblies'[q.frame].size - 1)
                    /\ assemblies'[q.frame].slots[q.index] = q
  BY DEF ArrivedStored
<1>3. CASE q = p
  BY <1>1, <1>2, <1>3, ReceiveSlots DEF SteadyInv
<1>4. CASE q # p
  <2>1. q \in delivered /\ q \in Packet /\ q.frame \in Nat
    BY <1>4 DEF Receive, IInv, TypeOK, Packet, Frames
  <2>2. q.frame + Window >= lastCompleted
    BY <2>1, ReceiveKeeps, ReassemblyAssumption DEF SteadyInv
  <2>3. /\ q.frame \in DOMAIN assemblies
        /\ q.index \in 0..(assemblies[q.frame].size - 1)
        /\ assemblies[q.frame].slots[q.index] = q
    BY <2>1, <2>2 DEF SteadyInv, ArrivedStored
  <2>4. q.frame \in DOMAIN assemblies'
    BY <2>3, ReceiveKeeps DEF SteadyInv
  <2>5. CASE q.frame # p.frame
    BY <2>3, <2>4, <2>5, ReceiveAssemblies
  <2>6. CASE q.frame = p.frame
    <3>1. AssemblyFor(p) = assemblies[q.frame] /\ q # NoPacket
      BY <2>1, <2>3, <2>6 DEF AssemblyFor, Packet, NoPacket
    <3>2. Stored(p).slots[q.index] = q
      BY <1>1, <2>3, <3>1, ReceiveSlots DEF SteadyInv
    <3> QED
      BY <1>1, <1>2, <2>3, <2>6, <3>1, <3>2
  <2> QED
    BY <2>5, <2>6
<1> QED
  BY <1>3, <1>4

\* The assembly that gets its last packet is marked complete.
LEMMA StepFull ==
  ASSUME Steady, IInv, SteadyInv, NEW p \in net, Receive(p)
  PROVE  FullComplete'
<1> SUFFICES ASSUME NEW g \in DOMAIN assemblies',
                    assemblies'[g].received = assemblies'[g].size
             PROVE  assemblies'[g].complete
  BY DEF FullComplete
<1>1. CASE g # p.frame
  <2>1. g \in DOMAIN assemblies /\ assemblies'[g] = assemblies[g]
    BY <1>1, ReceiveAssemblies
  <2> QED
    BY <2>1 DEF SteadyInv, FullComplete
<1>2. CASE g = p.frame
  <2>1. /\ Stored(p).received = p.total
        /\ assemblies'[g].complete <=> AssemblyFor(p).complete \/ Completes(p)
    BY <1>2, ReceiveOwn DEF SteadyInv
  <2>2. Stored(p).complete = AssemblyFor(p).complete
    BY SteadyPacket, StoredShape DEF SteadyInv, IInv, Receive
  <2> QED
    BY <2>1, <2>2 DEF Completes
<1> QED
  BY <1>1, <1>2

\* What was decoded before stays remembered while it is within the window, and the
\* frame that p completes is.
LEMMA StepRemembered ==
  ASSUME Steady, IInv, SteadyInv, NEW p \in net, Receive(p)
  PROVE  DecodedRemembered'
<1> DEFINE Known(f) == f \in DOMAIN assemblies /\ assemblies[f].complete
<1>1. /\ lastCompleted \in Nat /\ lastCompleted' \in Nat /\ lastCompleted' >= lastCompleted
      /\ p.frame \in DOMAIN assemblies'
      /\ \A g \in DOMAIN assemblies : g + Window >= lastCompleted' => g \in DOMAIN assemblies'
  BY ReceiveKeeps DEF SteadyInv
<1>2. assemblies'[p.frame].complete <=> AssemblyFor(p).complete \/ Completes(p)
  BY ReceiveOwn DEF SteadyInv
<1> SUFFICES ASSUME NEW i \in 1..Len(decoded')
             PROVE  \/ /\ decoded'[i].frame \in DOMAIN assemblies'
                       /\ assemblies'[decoded'[i].frame].complete
                    \/ lastCompleted' > decoded'[i].frame + Window
  BY DEF DecodedRemembered
<1>3. \/ i \in 1..Len(decoded) /\ decoded'[i] = decoded[i]
      \/ Completes(p) /\ decoded'[i].frame = p.frame
  <2>1. \/ i \in 1..Len(decoded) /\ decoded'[i] = decoded[i]
        \/ Completes(p) /\ decoded'[i] = [frame |-> p.frame, data |-> Stored(p).slots]
    BY ReceiveDecoded DEF IInv
  <2> QED
    BY <2>1
<1>4. CASE Completes(p) /\ decoded'[i].frame = p.frame
  BY <1>1, <1>2, <1>4
<1>5. CASE i \in 1..Len(decoded) /\ decoded'[i] = decoded[i]
  <2> DEFINE f == decoded[i].frame
  <2>1. f \in Nat
    <3> DEFINE S == [frame : Frames, data : Data]
    <3>1. decoded \in Seq(S) /\ \A d \in S : d.frame \in Nat
      BY DEF IInv, TypeOK, Frames
    <3> HIDE DEF S
    <3> QED
      BY <1>5, <3>1
  <2>2. Known(f) \/ lastCompleted > f + Window
    BY <1>5 DEF SteadyInv, DecodedRemembered
  <2> HIDE DEF f
  <2>3. CASE lastCompleted > f + Window
    BY <1>1, <2>1, <2>3, <1>5, ReassemblyAssumption DEF f
  <2>4. CASE Known(f) /\ f + Window >= lastCompleted'
    <3>1. f \in DOMAIN assemblies'
      BY <1>1, <2>4
    <3>2. CASE f # p.frame
      <4>1. assemblies'[f] = assemblies[f]
        BY <3>1, <3>2, ReceiveAssemblies
      <4> QED
        BY <1>5, <2>4, <3>1, <4>1 DEF f
    <3>3. CASE f = p.frame
      <4>1. AssemblyFor(p).complete
        BY <2>4, <3>3 DEF AssemblyFor
      <4> QED
        BY <1>2, <1>5, <3>1, <3>3, <4>1 DEF f
    <3> QED
      BY <3>2, <3>3
  <2>5. CASE ~(f + Window >= lastCompleted')
    <3>1. lastCompleted' > f + Window
      BY <1>1, <2>1, <2>5, ReassemblyAssumption
    <3> QED
      BY <1>5, <3>1 DEF f
  <2> QED
    BY <2>2, <2>3, <2>4, <2>5
<1> QED
  BY <1>3, <1>4, <1>5

\* The frame that becomes the newest is decoded in the same step.
LEMMA StepNewest ==
  ASSUME Steady, IInv, SteadyInv, NEW p \in net, Receive(p)
  PROVE  NewestDecoded'
<1> SUFFICES ASSUME lastCompleted' > 0
             PROVE  \E i \in 1..Len(decoded') : decoded'[i].frame = lastCompleted'
  BY DEF NewestDecoded
<1>1. CASE lastCompleted' = lastCompleted
  <2>1. \E i \in 1..Len(decoded) : decoded[i].frame = lastCompleted
    BY <1>1 DEF SteadyInv, NewestDecoded
  <2>2. \E i \in 1..Len(decoded') : decoded'[i].frame = lastCompleted
    BY <2>1, ReceiveDecoded DEF IInv
  <2> QED
    BY <1>1, <2>2
<1>2. CASE lastCompleted' # lastCompleted
  <2>1. Completes(p) /\ lastCompleted' = p.frame
    BY <1>2, ReceiveKeeps DEF SteadyInv
  <2>2. \E i \in 1..Len(decoded') : decoded'[i].frame = p.frame
    BY <2>1, ReceiveDecoded DEF IInv
  <2> QED
    BY <2>1, <2>2
<1> QED
  BY <1>1, <1>2

\* A packet that is acknowledged has not arrived before.
LEMMA StepAcked ==
  ASSUME Steady, IInv, SteadyInv, NEW p \in net, Receive(p)
  PROVE  IsFiniteSet(delivered') /\ AckedOnce'
<1>1. delivered' = delivered \cup {p} /\ fbCount' = fbCount
      /\ fbNet \in Nat /\ fbCount \in Nat
  BY DEF Receive, IInv, TypeOK
<1>2. /\ IsFiniteSet(delivered') /\ IsFiniteSet(delivered)
      /\ Cardinality(delivered') =
           IF p \in delivered THEN Cardinality(delivered) ELSE Cardinality(delivered) + 1
      /\ Cardinality(delivered) \in Nat
  BY <1>1, FS_AddElement, FS_CardinalityType DEF SteadyInv
<1>3. ASSUME \A q \in delivered' : q.frame + Window >= lastCompleted'
      PROVE  fbNet' + fbCount' <= Cardinality(delivered')
  <2>1. \A q \in delivered : q.frame \in Nat
    BY DEF IInv, TypeOK, Packet, Frames
  <2>2. \A q \in delivered : q.frame + Window >= lastCompleted
    BY <1>1, <1>3, <2>1, ReceiveKeeps, ReassemblyAssumption DEF SteadyInv
  <2>3. fbNet + fbCount <= Cardinality(delivered)
    BY <2>2 DEF SteadyInv, AckedOnce
  <2>4. CASE IsNew(p)
    <3>1. p \notin delivered
      <4> SUFFICES ASSUME p \in delivered PROVE FALSE
        OBVIOUS
      <4>1. p.frame \in DOMAIN assemblies /\ assemblies[p.frame].slots[p.index] = p
        BY <2>2 DEF SteadyInv, ArrivedStored
      <4>2. p # NoPacket
        BY SteadyPacket DEF SteadyInv, Packet, NoPacket
      <4> QED
        BY <2>4, <4>1, <4>2 DEF IsNew, AssemblyFor
    <3>2. fbNet' \in {fbNet, fbNet + 1}
      BY DEF Receive, Acknowledge
    <3> QED
      BY <1>1, <1>2, <2>3, <3>1, <3>2
  <2>5. CASE ~IsNew(p)
    <3>1. fbNet' = fbNet
      BY <2>5 DEF Receive, Acknowledge
    <3> QED
      BY <1>1, <1>2, <2>3, <3>1
  <2> QED
    BY <2>4, <2>5
<1> QED
  BY <1>2, <1>3 DEF AckedOnce

\* The sender's frames stay past the start.
LEMMA StepPast ==
  ASSUME Steady, IInv, PastStart, [Next]_vars
  PROVE  PastStart'
<1>1. /\ nextFrame \in Nat /\ FirstFrame \in Nat
      /\ \A b \in begun : b.frame \in Nat
  BY ReassemblyAssumption DEF IInv, TypeOK, Frames
<1>2. ~RestartSender
  BY DEF RestartSender, Steady, IInv, TypeOK, Sessions
<1>3. ASSUME NEW total \in 1..MaxPackets, BeginFrame(total) PROVE PastStart'
  BY <1>1, <1>3 DEF BeginFrame, PastStart
<1>4. CASE HoldFrame
  BY <1>1, <1>4 DEF HoldFrame, PastStart
<1>5. CASE UNCHANGED <<nextFrame, begun>>
  BY <1>5 DEF PastStart
<1> QED
  BY <1>2, <1>3, <1>4, <1>5 DEF Next, Sender, SendPacket, SendPacketFails, Receiver, Receive,
     ReceiveOutOfRange, ReceiveMalformed, Lose, HandleFeedback, LoseFeedback, vars, senderVars

\* No other step changes what has been stored or decoded, or adds feedback; and no
\* index is out of range.
LEMMA StepElsewhere ==
  ASSUME Steady, IInv, [Next]_vars
  PROVE  \/ \E p \in net : Receive(p)
         \/ /\ UNCHANGED <<assemblies, lastCompleted, decoded, delivered>>
            /\ fbNet' + fbCount' <= fbNet + fbCount
<1>1. fbNet \in Nat /\ fbCount \in Nat /\ session = 0
  BY DEF Steady, IInv, TypeOK, Sessions
<1>2. ~RestartSender
  BY DEF RestartSender, Steady, IInv, TypeOK, Sessions
<1>3. ASSUME NEW p \in net, ReceiveOutOfRange(p) PROVE FALSE
  <2>1. AssemblyFor(p).size = p.total
    BY <1>1, OneSize DEF IInv
  <2>2. p.index < p.total /\ p.index >= p.total /\ p.index \in Int /\ p.total \in Int
    BY <1>3, <2>1 DEF IInv, NetInv, ReceiveOutOfRange, TypeOK, Packet
  <2> QED
    BY <2>2
<1>4. CASE HandleFeedback \/ LoseFeedback
  BY <1>1, <1>4 DEF HandleFeedback, LoseFeedback, decoderVars
<1>5. CASE UNCHANGED <<decoderVars, fbNet, fbCount>>
  BY <1>1, <1>5 DEF decoderVars
<1> QED
  BY <1>2, <1>3, <1>4, <1>5 DEF Next, Sender, BeginFrame, HoldFrame, SendPacket,
     SendPacketFails, Receiver, ReceiveMalformed, Lose, vars, fbVars

\* The invariant is kept.
LEMMA SteadyStep == Steady /\ IInv /\ SteadyInv /\ [Next]_vars => SteadyInv'
<1> SUFFICES ASSUME Steady, IInv, SteadyInv, [Next]_vars PROVE SteadyInv'
  OBVIOUS
<1>1. PastStart'
  BY StepPast DEF SteadyInv
<1>2. ASSUME NEW p \in net, Receive(p) PROVE SteadyInv'
  BY <1>1, <1>2, StepStored, StepFull, StepRemembered, StepNewest, StepAcked DEF SteadyInv
<1>3. CASE /\ UNCHANGED <<assemblies, lastCompleted, decoded, delivered>>
           /\ fbNet' + fbCount' <= fbNet + fbCount
  <2>1. ArrivedStored' /\ FullComplete' /\ DecodedRemembered' /\ NewestDecoded'
    BY <1>3 DEF SteadyInv, ArrivedStored, FullComplete, DecodedRemembered, NewestDecoded
  <2>2. IsFiniteSet(delivered') /\ Cardinality(delivered) \in Nat
    BY <1>3, FS_CardinalityType DEF SteadyInv
  <2>3. fbNet \in Nat /\ fbCount \in Nat /\ fbNet' \in Nat /\ fbCount' \in Nat
    BY StepTypes DEF IInv, TypeOK
  <2>4. AckedOnce'
    <3> SUFFICES ASSUME \A q \in delivered' : q.frame + Window >= lastCompleted'
                 PROVE  fbNet' + fbCount' <= Cardinality(delivered')
      BY DEF AckedOnce
    <3>1. fbNet + fbCount <= Cardinality(delivered)
      BY <1>3 DEF SteadyInv, AckedOnce
    <3>2. Cardinality(delivered') = Cardinality(delivered)
      BY <1>3
    <3>3. fbNet' + fbCount' <= fbNet + fbCount
      BY <1>3
    <3>4. PICK n, m : n = fbNet' /\ m = fbCount'
      OBVIOUS
    <3>5. n \in Nat /\ m \in Nat
      BY <2>3, <3>4
    <3>6. n + m <= fbNet + fbCount
      BY <3>3, <3>4
    <3>7. n + m <= Cardinality(delivered)
      BY <2>2, <2>3, <3>1, <3>5, <3>6
    <3> QED
      BY <3>2, <3>4, <3>7
  <2> QED
    BY <1>1, <2>1, <2>2, <2>4 DEF SteadyInv
<1> QED
  BY <1>2, <1>3, StepElsewhere

\* In the steady state both invariants hold throughout.
THEOREM SteadyInductive == Steady /\ Spec => [](IInv /\ SteadyInv)
<1> SUFFICES ASSUME Steady PROVE Spec => [](IInv /\ SteadyInv)
  OBVIOUS
<1>1. Init => SteadyInv
  BY SteadyInit
<1>2. IInv /\ SteadyInv /\ [Next]_vars => SteadyInv'
  BY SteadyStep
<1> QED
  BY <1>1, <1>2, Inductive, PTL DEF Spec

-----------------------------------------------------------------------------
(***************************************************************************)
(* The theorems.                                                           *)
(***************************************************************************)
\* Completing a frame discards no assembly of the last Window frames.
THEOREM KeptRecent == Steady /\ Spec => RecentKept
<1> SUFFICES ASSUME Steady PROVE Spec => RecentKept
  OBVIOUS
<1>1. IInv /\ SteadyInv /\ [Next]_vars
      => [\A f \in DOMAIN assemblies :
            f + Window >= lastCompleted' => f \in DOMAIN assemblies']_vars
  <2> SUFFICES ASSUME IInv, SteadyInv, [Next]_vars, NEW f \in DOMAIN assemblies,
                      f + Window >= lastCompleted'
               PROVE  f \in DOMAIN assemblies'
    OBVIOUS
  <2>1. ASSUME NEW p \in net, Receive(p) PROVE f \in DOMAIN assemblies'
    BY <2>1, ReceiveKeeps DEF SteadyInv
  <2> QED
    BY <2>1, StepElsewhere
<1> QED
  BY <1>1, SteadyInductive, PTL DEF Spec, RecentKept

\* No packet is acknowledged twice as long as none older than the window arrives.
THEOREM NotAckedTwice == Steady /\ Spec => []AckedOnce
<1>1. SteadyInv => AckedOnce
  BY DEF SteadyInv
<1> QED
  BY <1>1, SteadyInductive, PTL

\* Every frame of the window all of whose packets have arrived has been decoded.
THEOREM ArrivedDecoded == Steady /\ Spec => []DeliveredDecoded
<1> SUFFICES ASSUME Steady PROVE Spec => []DeliveredDecoded
  OBVIOUS
<1>1. IInv /\ SteadyInv => DeliveredDecoded
  <2> SUFFICES ASSUME IInv, SteadyInv, NEW b \in begun, PacketsOf(b) \subseteq delivered,
                      b.frame + Window >= lastCompleted
               PROVE  \E i \in 1..Len(decoded) : decoded[i].frame = b.frame
    BY DEF DeliveredDecoded
  <2> DEFINE pk(i) == [session |-> b.session, frame |-> b.frame, index |-> i, total |-> b.total]
             a == assemblies[b.frame]
  <2>1. b.total \in 1..MaxPackets /\ b.session = 0 /\ session = 0
    BY DEF IInv, TypeOK, SenderInv, Steady, Sessions
  <2>2. \A i \in 0..(b.total - 1) :
          /\ pk(i) \in delivered
          /\ b.frame \in DOMAIN assemblies
          /\ i \in 0..(a.size - 1) /\ a.slots[i] = pk(i)
    <3> SUFFICES ASSUME NEW i \in 0..(b.total - 1)
                 PROVE  /\ pk(i) \in delivered
                        /\ b.frame \in DOMAIN assemblies
                        /\ i \in 0..(a.size - 1) /\ a.slots[i] = pk(i)
      OBVIOUS
    <3>1. pk(i) \in delivered
      BY DEF PacketsOf
    <3>2. pk(i).frame = b.frame /\ pk(i).index = i
      OBVIOUS
    <3> HIDE DEF pk
    <3> QED
      BY <3>1, <3>2 DEF SteadyInv, ArrivedStored
  <2>3. b.frame \in DOMAIN assemblies /\ IsAssembly(a)
    <3>1. 0 \in 0..(b.total - 1)
      BY <2>1
    <3> QED
      BY <2>2, <3>1 DEF IInv, TypeOK
  <2>4. a.size = b.total
    <3>1. PICK c \in begun : c.frame = b.frame /\ c.total = a.size
      BY <2>1, <2>3 DEF IInv, SizesInv
    <3>2. c.session = 0
      BY <2>1 DEF IInv, TypeOK, SenderInv, Steady, Sessions
    <3>3. c = b
      BY <2>1, <3>1, <3>2 DEF IInv, SenderInv
    <3> QED
      BY <3>1, <3>3
  <2>5. Filled(a) = 0..(a.size - 1)
    <3>1. \A i \in 0..(b.total - 1) : pk(i) # NoPacket
      BY <2>1 DEF NoPacket
    <3> QED
      BY <2>2, <2>4, <3>1 DEF Filled
  <2>6. Cardinality(Filled(a)) = a.size
    <3>1. a.size \in 1..MaxPackets
      BY <2>3 DEF IsAssembly
    <3> QED
      BY <2>5, <3>1, FS_Interval
  <2>7. a.received = a.size
    BY <2>3, <2>6 DEF IInv, AssemblyCounts
  <2>8. a.complete
    BY <2>3, <2>7 DEF SteadyInv, FullComplete
  <2> QED
    BY <2>3, <2>8 DEF IInv, AssemblyCounts
<1> QED
  BY <1>1, SteadyInductive, PTL

-----------------------------------------------------------------------------
(***************************************************************************)
(* The refinement of FrameDelivery.                                        *)
(***************************************************************************)
Offered == {[frame |-> b.frame, total |-> b.total] : b \in begun}
Shown == [i \in 1..Len(decoded) |-> AsFrame(decoded[i])]

\* A whole frame counts all the packets of its data.
LEMMA WholeFrame ==
  ASSUME TypeOK, NEW d, NEW b \in begun, MadeOf(d, b)
  PROVE  AsFrame(d) = [frame |-> b.frame, total |-> b.total]
<1>1. IsWhole(d) /\ d.frame = b.frame
  BY DEF IsWhole, MadeOf
<1>2. b.total \in 1..MaxPackets
  BY DEF TypeOK
<1>3. DOMAIN d.data = 0..(b.total - 1)
  BY DEF MadeOf
<1>4. Cardinality(0..(b.total - 1)) = b.total
  BY <1>2, FS_Interval
<1> QED
  BY <1>1, <1>3, <1>4 DEF AsFrame

\* A frame that is decoded is decoded for the first time, or again after it has been
\* forgotten.
LEMMA DecodesOnce ==
  ASSUME Steady, IInv, SteadyInv, NEW p \in net, Receive(p), Completes(p),
         NEW i \in 1..Len(decoded), decoded[i].frame = p.frame
  PROVE  \E j \in 1..Len(decoded) : decoded[j].frame > p.frame + Window
<1>1. p.frame \in Nat /\ lastCompleted \in Nat
  BY SteadyPacket DEF SteadyInv, Frames, IInv, TypeOK
<1>2. ~AssemblyFor(p).complete
  BY SteadyPacket, StoredShape DEF SteadyInv, IInv, Receive, Completes
<1>3. lastCompleted > p.frame + Window
  BY <1>2 DEF SteadyInv, DecodedRemembered, AssemblyFor
<1>4. lastCompleted > 0
  BY <1>1, <1>3, ReassemblyAssumption
<1> QED
  BY <1>3, <1>4 DEF SteadyInv, NewestDecoded

\* The frames shown are frames that were offered.
LEMMA ShownShape ==
  ASSUME Steady, IInv
  PROVE  /\ Len(decoded) \in Nat
         /\ Shown \in Seq(Offered) /\ Len(Shown) = Len(decoded)
         /\ \A i \in 1..Len(decoded) :
              Shown[i] = AsFrame(decoded[i]) /\ Shown[i].frame = decoded[i].frame
<1>1. DecodedIntact /\ TypeOK /\ Len(decoded) \in Nat
  BY DEF IInv, TypeOK, SafeUntilRestart, Steady, Sessions
<1>2. \A i \in 1..Len(decoded) :
        AsFrame(decoded[i]) \in Offered /\ AsFrame(decoded[i]).frame = decoded[i].frame
  <2> SUFFICES ASSUME NEW i \in 1..Len(decoded)
               PROVE  /\ AsFrame(decoded[i]) \in Offered
                      /\ AsFrame(decoded[i]).frame = decoded[i].frame
    OBVIOUS
  <2>1. PICK b \in begun : MadeOf(decoded[i], b)
    BY <1>1 DEF DecodedIntact, IsWhole
  <2>2. AsFrame(decoded[i]) = [frame |-> b.frame, total |-> b.total]
    BY <1>1, <2>1, WholeFrame
  <2> QED
    BY <2>1, <2>2 DEF Offered, MadeOf
<1>3. Shown \in [1..Len(decoded) -> Offered]
  BY <1>2 DEF Shown
<1>4. Shown \in Seq(Offered) /\ Len(Shown) = Len(decoded)
  BY <1>1, <1>3
<1> QED
  BY <1>1, <1>2, <1>4 DEF Shown

\* A sequence with one more element, position by position.
LEMMA AppendIs ==
  ASSUME NEW S, NEW s \in Seq(S), NEW e \in S
  PROVE  Append(s, e) = [i \in 1..(Len(s) + 1) |-> IF i = Len(s) + 1 THEN e ELSE s[i]]
<1> DEFINE t == Append(s, e)
<1>1. Len(s) \in Nat /\ t \in Seq(S) /\ Len(t) = Len(s) + 1
  OBVIOUS
<1>2. t = [i \in 1..Len(t) |-> t[i]]
  <2> HIDE DEF t
  <2>1. t \in [1..Len(t) -> S]
    BY <1>1, LenProperties
  <2> QED
    BY <2>1
<1>3. \A i \in 1..(Len(s) + 1) : t[i] = IF i = Len(s) + 1 THEN e ELSE s[i]
  OBVIOUS
<1> HIDE DEF t
<1>4. t = [i \in 1..(Len(s) + 1) |-> IF i = Len(s) + 1 THEN e ELSE s[i]]
  BY <1>1, <1>2, <1>3
<1> QED
  BY <1>4 DEF t

\* Completing a frame shows it; nothing else in the receiver does.
LEMMA ReceiveShows ==
  ASSUME Steady, IInv, SteadyInv, NEW p \in net, Receive(p)
  PROVE  [Delivery!Next]_<<Offered, Shown>>
<1>0. UNCHANGED begun /\ session = 0 /\ TypeOK
  BY DEF Receive, senderVars, IInv, TypeOK, Steady, Sessions
<1>1. Offered' = Offered
  BY <1>0 DEF Offered
<1>2. CASE Collect(p)
  <2>1. decoded' = decoded
    BY <1>2 DEF Collect
  <2> QED
    BY <1>0, <1>1, <2>1 DEF Shown, AsFrame, IsWhole
<1>3. CASE Complete(p)
  <2> DEFINE d == [frame |-> p.frame, data |-> Stored(p).slots]
  <2>0. PICK f : f = AsFrame(d)
    OBVIOUS
  <2>1. decoded' = Append(decoded, d) /\ Completes(p)
    BY <1>3 DEF Complete
  <2>2. PICK b \in begun : MadeOf(d, b)
    BY <1>0, <2>1, CompleteIsWhole DEF IInv, Receive, IsWhole
  <2>3. f = [frame |-> b.frame, total |-> b.total] /\ b.frame = p.frame
    BY <1>0, <2>0, <2>2, WholeFrame DEF MadeOf
  <2>4. f \in Offered /\ f.frame = p.frame
    BY <2>3 DEF Offered
  <2>5. Shown' = Append(Shown, f)
    <3>1. /\ Len(decoded') = Len(decoded) + 1 /\ decoded'[Len(decoded) + 1] = d
          /\ \A i \in 1..Len(decoded) : decoded'[i] = decoded[i]
      <4> DEFINE S == [frame : Frames, data : Data]
      <4>1. decoded \in Seq(S)
        BY <1>0 DEF TypeOK
      <4> HIDE DEF S, d
      <4> QED
        BY <2>1, <4>1
    <3>2. Shown' = [i \in 1..Len(decoded') |-> AsFrame(decoded'[i])]
      BY <1>0 DEF Shown, AsFrame, IsWhole
    <3>3. f = AsFrame(d)
      BY <2>0
    <3> HIDE DEF d
    <3>4. Append(Shown, f) =
            [i \in 1..(Len(decoded) + 1) |-> IF i = Len(decoded) + 1 THEN f ELSE Shown[i]]
      BY <2>4, ShownShape, AppendIs
    <3> QED
      BY <3>1, <3>2, <3>3, <3>4, ShownShape
  <2>6. ASSUME NEW i \in 1..Len(Shown), Shown[i] = f
        PROVE  \E j \in 1..Len(Shown) : Shown[j].frame > f.frame + Window
    <3>1. i \in 1..Len(decoded) /\ decoded[i].frame = p.frame
      BY <2>4, <2>6, ShownShape
    <3>2. PICK j \in 1..Len(decoded) : decoded[j].frame > p.frame + Window
      BY <2>1, <3>1, DecodesOnce
    <3> QED
      BY <2>4, <3>2, ShownShape
  <2>7. Delivery!Show(f)
    BY <1>1, <2>5, <2>6 DEF Delivery!Show, Delivery!Forgotten, Offered, Shown
  <2> QED
    BY <2>4, <2>7 DEF Delivery!Next, Offered
<1> QED
  BY <1>2, <1>3 DEF Receive

\* The sender offers the frames it begins.
LEMMA SenderOffers ==
  ASSUME Steady, IInv, NEW total \in 1..MaxPackets, BeginFrame(total)
  PROVE  Delivery!Next
<1>0. PICK f : f = [frame |-> nextFrame, total |-> total]
  OBVIOUS
<1>1. /\ session = 0 /\ nextFrame \in Frames /\ TypeOK /\ decoded' = decoded
      /\ begun' = begun \cup {[session |-> session, frame |-> nextFrame, total |-> total]}
  BY DEF BeginFrame, decoderVars, IInv, TypeOK, Steady, Sessions, Frames
<1>2. Offered' = Offered \cup {f}
  <2>1. PICK b0 : b0 = [session |-> session, frame |-> nextFrame, total |-> total]
    OBVIOUS
  <2>2. begun' = begun \cup {b0} /\ f = [frame |-> b0.frame, total |-> b0.total]
    BY <1>0, <1>1, <2>1
  <2> QED
    BY <2>2 DEF Offered
<1>3. \A g \in Offered : g.frame < f.frame
  <2>1. \A b \in begun : b.session = 0 /\ b.frame < nextFrame
    BY <1>1 DEF IInv, TypeOK, SenderInv, Steady, Sessions
  <2> QED
    BY <1>0, <2>1 DEF Offered
<1>4. Shown' = Shown
  <2>1. \A i \in 1..Len(decoded) : AsFrame(decoded[i])' = AsFrame(decoded[i])
    <3> SUFFICES ASSUME NEW i \in 1..Len(decoded)
                 PROVE  AsFrame(decoded[i])' = AsFrame(decoded[i])
      OBVIOUS
    <3>1. PICK b \in begun : MadeOf(decoded[i], b)
      BY <1>1 DEF IInv, SafeUntilRestart, DecodedIntact, IsWhole
    <3>2. IsWhole(decoded[i]) /\ IsWhole(decoded[i])'
      BY <1>1, <3>1 DEF IsWhole, MadeOf
    <3> QED
      BY <1>1, <3>2 DEF AsFrame
  <2> QED
    BY <1>1, <2>1 DEF Shown
<1>5. f \in [frame : Frames, total : 1..MaxPackets]
  BY <1>0, <1>1
<1>6. Delivery!Offer(f)
  BY <1>2, <1>3, <1>4 DEF Delivery!Offer, Offered, Shown
<1> QED
  BY <1>5, <1>6 DEF Delivery!Next

\* Packets, however they arrive, implement the delivery of frames: whole ones, that
\* were sent, none twice unless it has been forgotten.
THEOREM Refinement == Steady /\ Spec => DeliveryImplemented
<1> SUFFICES ASSUME Steady PROVE Spec => DeliveryImplemented
  OBVIOUS
<1>1. Init => Delivery!Init
  BY DEF Init, Delivery!Init
<1>2. IInv /\ SteadyInv /\ [Next]_vars => [Delivery!Next]_<<Offered, Shown>>
  <2> SUFFICES ASSUME IInv, SteadyInv, [Next]_vars PROVE [Delivery!Next]_<<Offered, Shown>>
    OBVIOUS
  <2>1. ASSUME NEW total \in 1..MaxPackets, BeginFrame(total) PROVE Delivery!Next
    BY <2>1, SenderOffers
  <2>2. ASSUME NEW p \in net, Receive(p) PROVE [Delivery!Next]_<<Offered, Shown>>
    BY <2>2, ReceiveShows
  <2>3. CASE UNCHANGED <<begun, decoded>>
    BY <2>3 DEF Offered, Shown, AsFrame, IsWhole
  <2>4. ~RestartSender
    BY DEF RestartSender, Steady, IInv, TypeOK, Sessions
  <2> QED
    BY <2>1, <2>2, <2>3, <2>4 DEF Next, Sender, HoldFrame, SendPacket, SendPacketFails,
       Receiver, ReceiveOutOfRange, ReceiveMalformed, Lose, HandleFeedback, LoseFeedback,
       vars, senderVars, decoderVars
<1> QED
  BY <1>1, <1>2, SteadyInductive, PTL
     DEF Spec, DeliveryImplemented, Delivery!Spec, Delivery!vars, Offered, Shown

-----------------------------------------------------------------------------
(***************************************************************************)
(* A network that keeps the order of one sender's packets and doubles      *)
(* none, whatever it loses; from frame 0 on.  The argument: what has       *)
(* arrived was sent before what is still in flight, so a frame is complete *)
(* only with its last packet, and then every packet to come is of a later  *)
(* frame; and the packets of the frame that is arriving are in their slots *)
(* because nothing newer has been completed that could erase them.         *)
(***************************************************************************)
Direct == InOrder /\ MaxDup = 0 /\ MaxSession = 0

\* SendData has sent p and is past it.
SentBefore(p) ==
  /\ p.frame < nextFrame
  /\ Sending => p.frame < burst.frame \/ (p.frame = burst.frame /\ p.index < burst.next)

\* What has arrived was sent before what is in flight, and that before what is not sent.
Ordered ==
  /\ \A p \in delivered, q \in net : Earlier(p, q)
  /\ \A p \in delivered \cup net : SentBefore(p)

\* What a slot holds has arrived.
SlotsArrived ==
  \A f \in DOMAIN assemblies : \A i \in 0..(assemblies[f].size - 1) :
    assemblies[f].slots[i] # NoPacket => assemblies[f].slots[i] \in delivered

\* No packet of a decoded frame is in flight or yet to be sent.
DecodedBehind ==
  \A i \in 1..Len(decoded) :
    /\ decoded[i].frame < nextFrame
    /\ Sending => decoded[i].frame < burst.frame
    /\ \A q \in net : decoded[i].frame < q.frame

\* What has arrived of the frames after the newest completed one is in its slot; before
\* a frame other than 0 is complete nothing is erased.
AheadStored ==
  \A p \in delivered :
    lastCompleted = 0 \/ p.frame > lastCompleted =>
      /\ p.frame \in DOMAIN assemblies
      /\ p.index \in 0..(assemblies[p.frame].size - 1)
      /\ assemblies[p.frame].slots[p.index] = p

OrderedInv ==
  /\ Ordered /\ SlotsArrived /\ DecodedBehind /\ NewestDecoded /\ AheadStored
  /\ DecodedInTurn

\* Before anything has been sent.
LEMMA OrderedInit == Init => OrderedInv
<1> SUFFICES ASSUME Init PROVE OrderedInv
  OBVIOUS
<1>1. DOMAIN assemblies = {} /\ Len(decoded) = 0 /\ delivered = {} /\ net = {} /\ begun = {}
  BY DEF Init
<1>2. Ordered /\ SlotsArrived /\ DecodedBehind /\ AheadStored
  BY <1>1 DEF Ordered, SlotsArrived, DecodedBehind, AheadStored
<1>3. NewestDecoded
  BY DEF Init, NewestDecoded
<1>4. DecodedInTurn
  BY <1>1 DEF DecodedInTurn
<1> QED
  BY <1>2, <1>3, <1>4 DEF OrderedInv

\* The packets in flight are those of one sender, and numbers name frames.
LEMMA DirectPacket ==
  ASSUME Direct, IInv, NEW p \in net
  PROVE  /\ p \in Packet /\ session = 0 /\ p.session = 0
         /\ p.frame \in Nat /\ p.frame \in Frames
         /\ p.total \in 1..MaxPackets /\ p.index \in 0..(p.total - 1)
         /\ Cut(p) /\ AssemblyFor(p).size = p.total
<1>1. p \in Packet /\ session = 0 /\ p.session = 0
  BY DEF IInv, TypeOK, Direct, Sessions, Packet
<1>2. AssemblyFor(p).size = p.total
  BY <1>1, OneSize DEF IInv
<1>3. Cut(p) /\ p.index < p.total
  BY DEF IInv, NetInv
<1>4. p.frame \in Frames /\ p.total \in 1..MaxPackets /\ p.index \in 0..(MaxPackets - 1)
  BY <1>1 DEF Packet
<1> QED
  BY <1>1, <1>2, <1>3, <1>4 DEF Frames

\* A frame number names one frame that was begun.
LEMMA OneFrame ==
  ASSUME Direct, IInv, NEW b \in begun, NEW c \in begun, b.frame = c.frame
  PROVE  b = c
  BY DEF Direct, IInv, TypeOK, SenderInv, Sessions

\* What has arrived has the types of packets of one sender.
LEMMA ArrivedTypes ==
  ASSUME Direct, IInv, NEW q \in delivered
  PROVE  q \in Packet /\ q.session = 0 /\ q.frame \in Nat /\ q.index \in Nat
  BY DEF Direct, IInv, TypeOK, Sessions, Packet, Frames

\* What has arrived before p is of an earlier frame or an earlier place in p's.
LEMMA ArrivedEarlier ==
  ASSUME Direct, IInv, Ordered, NEW p \in net, NEW q \in delivered
  PROVE  q.frame < p.frame \/ (q.frame = p.frame /\ q.index < p.index)
  BY DirectPacket, ArrivedTypes DEF Ordered, Earlier

\* Every decoded frame is of a lower number than any packet in flight.
LEMMA NewestBehind ==
  ASSUME IInv, DecodedBehind, NewestDecoded, NEW p \in net
  PROVE  lastCompleted \in Nat /\ (lastCompleted = 0 \/ lastCompleted < p.frame)
  BY DEF IInv, TypeOK, Frames, DecodedBehind, NewestDecoded

\* The filled slots of the assembly that p goes into hold earlier packets of its frame.
LEMMA SlotBefore ==
  ASSUME Direct, IInv, OrderedInv, NEW p \in net, NEW i \in 0..(p.total - 1),
         AssemblyFor(p).slots[i] # NoPacket
  PROVE  /\ AssemblyFor(p).slots[i] \in delivered
         /\ i < p.index
<1> DEFINE q == AssemblyFor(p).slots[i]
<1>1. p.total \in 1..MaxPackets /\ AssemblyFor(p).size = p.total
  BY DirectPacket
<1>2. p.frame \in DOMAIN assemblies
  BY <1>1 DEF AssemblyFor, EmptyAssembly
<1>3. q \in delivered
  BY <1>1, <1>2 DEF AssemblyFor, OrderedInv, SlotsArrived
<1>4. q.frame = p.frame /\ q.index = i
  BY <1>1, <1>2 DEF AssemblyFor, IInv, SlotsInv
<1> HIDE DEF q
<1>5. i < p.index
  BY <1>3, <1>4, ArrivedEarlier, ArrivedTypes, DirectPacket DEF OrderedInv
<1> QED
  BY <1>3, <1>5 DEF q

\* A packet that arrives is new; it is stored in its slot.
LEMMA ArrivesNew ==
  ASSUME Direct, IInv, OrderedInv, NEW p \in net
  PROVE  /\ IsNew(p)
         /\ IsAssembly(Stored(p)) /\ Stored(p).size = p.total
         /\ Stored(p).received = Cardinality(Filled(Stored(p)))
         /\ Stored(p).complete = AssemblyFor(p).complete
         /\ \A i \in 0..(p.total - 1) :
              Stored(p).slots[i] = IF i = p.index THEN p ELSE AssemblyFor(p).slots[i]
<1>1. /\ p \in Packet /\ p.index \in 0..(p.total - 1) /\ AssemblyFor(p).size = p.total
      /\ p.total \in 1..MaxPackets
  BY DirectPacket
<1>2. IsNew(p)
  BY <1>1, SlotBefore DEF IsNew
<1>3. p.index < AssemblyFor(p).size
  BY <1>1
<1> QED
  BY <1>1, <1>2, <1>3, StoredShape, StoredCounts DEF IInv

\* A frame is completed by its last packet.
LEMMA LastCompletes ==
  ASSUME Direct, IInv, OrderedInv, NEW p \in net, Completes(p)
  PROVE  p.index = p.total - 1
<1>1. p.total \in Nat /\ p.total >= 1 /\ p.index \in 0..(p.total - 1)
  BY DirectPacket
<1>2. Cardinality(Filled(Stored(p))) = p.total /\ Stored(p).size = p.total
  BY ArrivesNew DEF Completes
<1>3. Filled(Stored(p)) = 0..(p.total - 1)
  BY <1>1, <1>2, ArrivesNew, FilledFinite, FullCount
<1>4. p.total - 1 \in 0..(p.total - 1)
  BY <1>1
<1>5. Stored(p).slots[p.total - 1] # NoPacket
  BY <1>3, <1>4 DEF Filled
<1> SUFFICES ASSUME p.index # p.total - 1 PROVE FALSE
  OBVIOUS
<1>6. AssemblyFor(p).slots[p.total - 1] # NoPacket
  BY <1>4, <1>5, ArrivesNew
<1>7. p.total - 1 < p.index
  BY <1>4, <1>6, SlotBefore
<1> QED
  BY <1>1, <1>7

\* The last packet of a frame that has lost none completes it.
LEMMA WholeCompletes ==
  ASSUME Direct, IInv, OrderedInv, NEW p \in net, NEW b \in begun, b.frame = p.frame,
         PacketsOf(b) \subseteq delivered \cup {p}
  PROVE  Completes(p)
<1> DEFINE pk(i) == [session |-> b.session, frame |-> b.frame, index |-> i, total |-> b.total]
<1>1. /\ p \in Packet /\ p.frame \in Nat
      /\ p.total \in 1..MaxPackets /\ p.index \in 0..(p.total - 1) /\ p.session = 0 /\ Cut(p)
  BY DirectPacket
<1>2. b.total = p.total /\ b.session = 0
  <2> DEFINE c == [session |-> p.session, frame |-> p.frame, total |-> p.total]
  <2>1. c \in begun /\ c.frame = b.frame
    BY <1>1 DEF Cut
  <2>2. c = b
    BY <2>1, OneFrame
  <2> QED
    BY <1>1, <2>2
<1>3. ASSUME NEW i \in 0..(p.total - 1), i # p.index
      PROVE  AssemblyFor(p).slots[i] # NoPacket
  <2> DEFINE q == pk(i)
  <2>1. q \in PacketsOf(b) /\ q.index = i /\ q.frame = p.frame
    BY <1>2, <1>3 DEF PacketsOf
  <2> HIDE DEF q
  <2>2. q \in delivered
    BY <1>3, <2>1
  <2>3. lastCompleted = 0 \/ q.frame > lastCompleted
    BY <1>1, <2>1, NewestBehind DEF OrderedInv
  <2>4. p.frame \in DOMAIN assemblies /\ assemblies[p.frame].slots[i] = q
    BY <2>1, <2>2, <2>3 DEF OrderedInv, AheadStored
  <2>5. q # NoPacket
    BY <2>2, ArrivedTypes DEF Packet, NoPacket
  <2> QED
    BY <2>4, <2>5 DEF AssemblyFor
<1>4. p # NoPacket
  BY <1>1 DEF NoPacket
<1>5. Filled(Stored(p)) = 0..(p.total - 1)
  <2>1. \A i \in 0..(p.total - 1) : Stored(p).slots[i] # NoPacket
    BY <1>3, <1>4, ArrivesNew
  <2>2. Stored(p).size = p.total
    BY ArrivesNew
  <2> QED
    BY <2>1, <2>2 DEF Filled
<1>6. Cardinality(0..(p.total - 1)) = p.total
  <2>1. p.total \in Nat
    BY <1>1
  <2> QED
    BY <1>1, <2>1, FS_Interval
<1>7. ~Stored(p).complete
  <2> SUFFICES ASSUME AssemblyFor(p).complete PROVE FALSE
    BY ArrivesNew
  <2>1. p.frame \in DOMAIN assemblies /\ assemblies[p.frame].complete
    BY DEF AssemblyFor, EmptyAssembly
  <2>2. PICK j \in 1..Len(decoded) : decoded[j].frame = p.frame
    BY <2>1 DEF IInv, AssemblyCounts
  <2>3. decoded[j].frame < p.frame
    BY DEF OrderedInv, DecodedBehind
  <2> QED
    BY <1>1, <2>2, <2>3
<1> QED
  BY <1>5, <1>6, <1>7, ArrivesNew DEF Completes

-----------------------------------------------------------------------------
\* What a step does to what the invariant speaks of.
LEMMA DirectSteps ==
  ASSUME Direct, IInv, [Next]_vars
  PROVE  \/ \E p \in net : Receive(p)
         \/ /\ UNCHANGED <<assemblies, lastCompleted, decoded, delivered>>
            /\ \/ \E total \in 1..MaxPackets : BeginFrame(total)
               \/ HoldFrame \/ SendPacket \/ SendPacketFails
               \/ net' \subseteq net /\ UNCHANGED senderVars
<1>1. session = 0
  BY DEF Direct, IInv, TypeOK, Sessions
<1>2. ~RestartSender
  BY <1>1 DEF RestartSender, Direct
<1>3. ASSUME NEW p \in net, ReceiveOutOfRange(p) PROVE FALSE
  BY <1>3, DirectPacket DEF ReceiveOutOfRange
<1> QED
  BY <1>2, <1>3 DEF Next, Sender, BeginFrame, HoldFrame, SendPacket, SendPacketFails,
     Receiver, ReceiveMalformed, Lose, HandleFeedback, LoseFeedback, vars, netVars,
     decoderVars

\* What the receiver takes out of the network.
LEMMA ReceiveTakes ==
  ASSUME Direct, IInv, NEW p \in net, Receive(p)
  PROVE  /\ net' = net \ {p} /\ delivered' = delivered \cup {p} /\ UNCHANGED senderVars
         /\ \A q \in net' : q.frame > p.frame \/ (q.frame = p.frame /\ q.index > p.index)
<1>1. dups = 0 /\ MaxDup = 0
  BY DEF Direct, IInv, TypeOK
<1>2. net' = net \ {p} /\ \A q \in net \ {p} : Earlier(p, q)
  BY <1>1 DEF Direct, Receive, Deliver
<1>3. \A q \in net \ {p} : q.frame > p.frame \/ (q.frame = p.frame /\ q.index > p.index)
  BY <1>2, DirectPacket DEF Earlier
<1> QED
  BY <1>2, <1>3 DEF Receive

\* The order is kept: p arrives before everything else in flight, and a packet is put
\* in flight after everything that was sent.
LEMMA StepOrdered ==
  ASSUME Direct, IInv, Ordered, [Next]_vars
  PROVE  Ordered'
<1>0. /\ nextFrame \in Nat /\ session = 0 /\ burst \in [frame : Nat, total : Nat, next : Nat]
      /\ \A q \in delivered \cup net : q.frame \in Nat /\ q.index \in Nat /\ q.session = 0
  BY DirectPacket, ArrivedTypes DEF IInv, TypeOK, Frames, Direct, Sessions
<1>1. ASSUME NEW p \in net, Receive(p) PROVE Ordered'
  <2>1. net' \subseteq net /\ delivered' = delivered \cup {p} /\ UNCHANGED senderVars
    BY <1>1, ReceiveTakes
  <2>2. \A q \in net' : Earlier(p, q)
    BY <1>1, <2>1, ReceiveTakes, DirectPacket DEF Earlier
  <2> QED
    BY <2>1, <2>2 DEF Ordered, SentBefore, Sending, senderVars
<1>2. ASSUME NEW total \in 1..MaxPackets, BeginFrame(total) PROVE Ordered'
  <2>1. /\ net' = net /\ delivered' = delivered /\ nextFrame' = nextFrame + 1
        /\ burst' = [frame |-> nextFrame, total |-> total, next |-> 0]
    BY <1>2 DEF BeginFrame, netVars, decoderVars
  <2>2. \A q \in delivered \cup net : SentBefore(q)'
    BY <1>0, <2>1 DEF Ordered, SentBefore
  <2> QED
    BY <2>1, <2>2 DEF Ordered
<1>3. CASE HoldFrame
  BY <1>0, <1>3 DEF HoldFrame, Ordered, SentBefore, Sending, netVars, decoderVars
<1>4. CASE SendPacket
  <2>0. PICK n : n = [session |-> session, frame |-> burst.frame,
                      index |-> burst.next, total |-> burst.total]
    OBVIOUS
  <2>1. /\ Sending /\ net' = net \cup {n} /\ delivered' = delivered
        /\ nextFrame' = nextFrame /\ burst' = [burst EXCEPT !.next = @ + 1]
    BY <1>4, <2>0 DEF SendPacket, decoderVars
  <2>2. n.session = 0 /\ n.frame = burst.frame /\ n.index = burst.next
    BY <1>0, <2>0
  <2>3. burst.frame < nextFrame
    BY <1>0, <2>1 DEF IInv, SenderInv
  <2>4. \A q \in delivered : Earlier(q, n)
    BY <1>0, <2>1, <2>2 DEF Ordered, SentBefore, Earlier
  <2>5. burst'.frame = burst.frame /\ burst'.next = burst.next + 1
    BY <1>0, <2>1
  <2>6. SentBefore(n)'
    BY <1>0, <2>1, <2>2, <2>3, <2>5 DEF SentBefore
  <2>7. \A q \in delivered \cup net : SentBefore(q)'
    BY <1>0, <2>1, <2>5 DEF Ordered, SentBefore
  <2> QED
    BY <2>1, <2>4, <2>6, <2>7 DEF Ordered
<1>5. CASE SendPacketFails
  <2>1. /\ net' = net /\ delivered' = delivered /\ nextFrame' = nextFrame /\ ~Sending'
    BY <1>5 DEF SendPacketFails, NoBurst, Sending, netVars, decoderVars
  <2> QED
    BY <2>1 DEF Ordered, SentBefore
<1>6. CASE net' \subseteq net /\ UNCHANGED <<delivered, senderVars>>
  BY <1>6 DEF Ordered, SentBefore, Sending, senderVars
<1> QED
  BY <1>1, <1>2, <1>3, <1>4, <1>5, <1>6, DirectSteps

\* The assembly of p afterwards has p in its slot and its other slots as before.
LEMMA OwnSlots ==
  ASSUME Direct, IInv, OrderedInv, NEW p \in net, Receive(p), p.frame \in DOMAIN assemblies'
  PROVE  /\ assemblies'[p.frame].size = p.total
         /\ \A i \in 0..(p.total - 1) :
              assemblies'[p.frame].slots[i] =
                IF i = p.index THEN p ELSE AssemblyFor(p).slots[i]
<1>1. IsAssembly(Stored(p)) /\ Stored(p).size = p.total
  BY ArrivesNew
<1>2. /\ assemblies'[p.frame].size = Stored(p).size
      /\ assemblies'[p.frame].slots = Stored(p).slots
  <2>1. CASE Completes(p)
    BY <1>1, <2>1, ReceiveAssemblies, MarkedSame
  <2>2. CASE ~Completes(p)
    BY <2>2, ReceiveAssemblies
  <2> QED
    BY <2>1, <2>2
<1> QED
  BY <1>1, <1>2, ArrivesNew

\* Nothing but p is stored, and p has arrived.
LEMMA StepSlotsArrived ==
  ASSUME Direct, IInv, OrderedInv, NEW p \in net, Receive(p)
  PROVE  SlotsArrived'
<1>1. delivered' = delivered \cup {p}
  BY ReceiveTakes
<1> SUFFICES ASSUME NEW g \in DOMAIN assemblies', NEW i \in 0..(assemblies'[g].size - 1),
                    assemblies'[g].slots[i] # NoPacket
             PROVE  assemblies'[g].slots[i] \in delivered'
  BY DEF SlotsArrived
<1>2. CASE g # p.frame
  <2>1. g \in DOMAIN assemblies /\ assemblies'[g] = assemblies[g]
    BY <1>2, ReceiveAssemblies
  <2> QED
    BY <1>1, <2>1 DEF OrderedInv, SlotsArrived
<1>3. CASE g = p.frame
  BY <1>1, <1>3, OwnSlots, SlotBefore
<1> QED
  BY <1>2, <1>3

\* The newest completed frame stays, or is the one p completes.
LEMMA NewestStep ==
  ASSUME Direct, IInv, OrderedInv, NEW p \in net, Receive(p)
  PROVE  \/ /\ lastCompleted' = lastCompleted
            /\ p.frame \in DOMAIN assemblies' /\ DOMAIN assemblies \subseteq DOMAIN assemblies'
         \/ lastCompleted' = p.frame /\ p.frame > 0 /\ Completes(p)
<1>1. p.frame \in Frames /\ lastCompleted \in Frames /\ DOMAIN assemblies \subseteq Frames
  BY DirectPacket DEF IInv, TypeOK
<1>2. CASE Collect(p)
  BY <1>1, <1>2 DEF Collect, AssembliesWith
<1>3. CASE Complete(p) /\ p.frame > lastCompleted
  BY <1>1, <1>3 DEF Complete, Frames
<1>4. CASE Complete(p) /\ p.frame <= lastCompleted
  <2>1. ~(p.frame > lastCompleted)
    BY <1>1, <1>4 DEF Frames
  <2>2. lastCompleted' = lastCompleted
    BY <1>4, <2>1 DEF Complete
  <2>3. \E a : assemblies' = AssembliesWith(p.frame, a, Frames)
    BY <1>4, <2>1 DEF Complete
  <2> QED
    BY <1>1, <2>2, <2>3 DEF AssembliesWith
<1> QED
  BY <1>1, <1>2, <1>3, <1>4 DEF Receive, Frames

\* The frame that becomes the newest is decoded in the same step.
LEMMA StepNewestTurn ==
  ASSUME Direct, IInv, OrderedInv, NEW p \in net, Receive(p)
  PROVE  NewestDecoded'
<1>1. CASE lastCompleted' = lastCompleted
  BY <1>1, ReceiveDecoded DEF IInv, OrderedInv, NewestDecoded
<1>2. CASE lastCompleted' = p.frame /\ Completes(p)
  BY <1>2, ReceiveDecoded DEF IInv, NewestDecoded
<1> QED
  BY <1>1, <1>2, NewestStep

\* After a frame is complete only later ones arrive, so nothing of theirs is erased.
LEMMA StepAhead ==
  ASSUME Direct, IInv, OrderedInv, NEW p \in net, Receive(p)
  PROVE  AheadStored'
<1>1. /\ p.frame \in Nat /\ p.index \in 0..(p.total - 1) /\ lastCompleted \in Nat
      /\ AssemblyFor(p).size = p.total
  BY DirectPacket, NewestBehind DEF OrderedInv
<1> SUFFICES ASSUME NEW q \in delivered', lastCompleted' = 0 \/ q.frame > lastCompleted'
             PROVE  /\ q.frame \in DOMAIN assemblies'
                    /\ q.index \in 0..(assemblies'[q.frame].size - 1)
                    /\ assemblies'[q.frame].slots[q.index] = q
  BY DEF AheadStored
<1>2. q = p \/ q \in delivered
  BY ReceiveTakes
<1>3. lastCompleted' = lastCompleted
  <2>1. q.frame \in Nat /\ q.frame <= p.frame
    BY <1>1, <1>2, ArrivedEarlier, ArrivedTypes DEF OrderedInv
  <2>2. ASSUME lastCompleted' = p.frame, p.frame > 0 PROVE FALSE
    BY <1>1, <2>1, <2>2
  <2> QED
    BY <2>2, NewestStep
<1>4. p.frame \in DOMAIN assemblies' /\ DOMAIN assemblies \subseteq DOMAIN assemblies'
  <2>1. p.frame > 0 => lastCompleted # p.frame
    BY <1>1, NewestBehind DEF OrderedInv
  <2> QED
    BY <1>3, <2>1, NewestStep
<1>5. CASE q = p
  BY <1>1, <1>4, <1>5, OwnSlots
<1>6. CASE q \in delivered
  <2>1. /\ q.frame \in DOMAIN assemblies
        /\ q.index \in 0..(assemblies[q.frame].size - 1)
        /\ assemblies[q.frame].slots[q.index] = q
    BY <1>3, <1>6 DEF OrderedInv, AheadStored
  <2>2. CASE q.frame # p.frame
    BY <1>4, <2>1, <2>2, ReceiveAssemblies
  <2>3. CASE q.frame = p.frame
    <3>1. AssemblyFor(p) = assemblies[q.frame]
      BY <2>1, <2>3 DEF AssemblyFor
    <3>2. q.index < p.index
      BY <1>1, <1>6, <2>3, ArrivedEarlier, ArrivedTypes DEF OrderedInv
    <3>3. q.index # p.index
      BY <1>1, <3>2
    <3> QED
      BY <1>1, <1>4, <2>1, <2>3, <3>1, <3>3, OwnSlots
  <2> QED
    BY <2>2, <2>3
<1> QED
  BY <1>2, <1>5, <1>6

\* The last packet of a frame is the last thing sent of it.
LEMMA NothingLeft ==
  ASSUME Direct, IInv, OrderedInv, NEW p \in net, Receive(p), Completes(p)
  PROVE  /\ p.frame < nextFrame
         /\ Sending => p.frame < burst.frame
         /\ \A q \in net' : p.frame < q.frame
<1>1. /\ p.index = p.total - 1 /\ p.frame \in Nat /\ p.total \in 1..MaxPackets
      /\ SentBefore(p) /\ p.session = 0 /\ session = 0 /\ Cut(p)
  BY LastCompletes, DirectPacket DEF OrderedInv, Ordered
<1>2. burst \in [frame : Nat, total : Nat, next : Nat]
  BY DEF IInv, TypeOK, Frames
<1>3. ASSUME Sending PROVE p.frame # burst.frame
  <2> SUFFICES ASSUME p.frame = burst.frame PROVE FALSE
    OBVIOUS
  <2> DEFINE b == [session |-> session, frame |-> burst.frame, total |-> burst.total]
             c == [session |-> p.session, frame |-> p.frame, total |-> p.total]
  <2>1. b \in begun /\ c \in begun /\ b.frame = c.frame
    BY <1>1, <1>3 DEF IInv, SenderInv, Cut
  <2>2. b = c
    BY <2>1, OneFrame
  <2>3. burst.total = p.total
    BY <2>2
  <2>4. p.index < burst.next
    BY <1>1, <1>2, <1>3 DEF SentBefore
  <2> QED
    BY <1>1, <1>2, <1>3, <2>3, <2>4 DEF Sending
<1>4. ASSUME NEW q \in net' PROVE p.frame < q.frame
  <2>1. q \in net /\ (q.frame > p.frame \/ (q.frame = p.frame /\ q.index > p.index))
    BY ReceiveTakes
  <2>2. q.total \in Nat /\ q.index \in 0..(q.total - 1) /\ q.session = 0 /\ Cut(q) /\ q.frame \in Nat
    BY <2>1, DirectPacket
  <2>3. CASE q.frame = p.frame
    <3> DEFINE b == [session |-> q.session, frame |-> q.frame, total |-> q.total]
               c == [session |-> p.session, frame |-> p.frame, total |-> p.total]
    <3>1. b \in begun /\ c \in begun /\ b.frame = c.frame
      BY <1>1, <2>2, <2>3 DEF Cut
    <3>2. b = c
      BY <3>1, OneFrame
    <3>3. q.total = p.total
      BY <3>2
    <3> QED
      BY <1>1, <2>1, <2>2, <2>3, <3>3
  <2> QED
    BY <1>1, <2>1, <2>2, <2>3
<1> QED
  BY <1>1, <1>2, <1>3, <1>4 DEF SentBefore

\* No packet of a decoded frame will arrive or be sent.
LEMMA StepBehind ==
  ASSUME Direct, IInv, OrderedInv, [Next]_vars
  PROVE  DecodedBehind'
<1>0. /\ nextFrame \in Nat /\ burst \in [frame : Nat, total : Nat, next : Nat]
      /\ \A i \in 1..Len(decoded) : decoded[i].frame \in Nat
  <2>1. \A i \in 1..Len(decoded) : decoded[i].frame \in Nat
    <3> DEFINE S == [frame : Frames, data : Data]
    <3>1. decoded \in Seq(S) /\ \A d \in S : d.frame \in Nat
      BY DEF IInv, TypeOK, Frames
    <3> HIDE DEF S
    <3> QED
      BY <3>1
  <2> QED
    BY <2>1 DEF IInv, TypeOK, Frames
<1>1. ASSUME NEW p \in net, Receive(p) PROVE DecodedBehind'
  <2>1. net' \subseteq net /\ UNCHANGED senderVars
    BY <1>1, ReceiveTakes
  <2> SUFFICES ASSUME NEW i \in 1..Len(decoded')
               PROVE  /\ decoded'[i].frame < nextFrame
                      /\ Sending => decoded'[i].frame < burst.frame
                      /\ \A q \in net' : decoded'[i].frame < q.frame
    BY <2>1 DEF DecodedBehind, Sending, senderVars
  <2>2. CASE i \in 1..Len(decoded) /\ decoded'[i] = decoded[i]
    BY <2>1, <2>2 DEF OrderedInv, DecodedBehind
  <2>3. CASE Completes(p) /\ decoded'[i].frame = p.frame
    BY <1>1, <2>3, NothingLeft
  <2>4. \/ i \in 1..Len(decoded) /\ decoded'[i] = decoded[i]
        \/ Completes(p) /\ decoded'[i] = [frame |-> p.frame, data |-> Stored(p).slots]
    BY <1>1, ReceiveDecoded DEF IInv
  <2> QED
    BY <2>2, <2>3, <2>4
<1>2. ASSUME UNCHANGED decoded, NEW total \in 1..MaxPackets, BeginFrame(total)
      PROVE  DecodedBehind'
  <2>1. /\ net' = net /\ nextFrame' = nextFrame + 1 /\ burst'.frame = nextFrame
    BY <1>2 DEF BeginFrame, netVars
  <2> QED
    BY <1>0, <1>2, <2>1 DEF OrderedInv, DecodedBehind
<1>3. CASE UNCHANGED decoded /\ HoldFrame
  BY <1>0, <1>3 DEF HoldFrame, OrderedInv, DecodedBehind, Sending, netVars
<1>4. CASE UNCHANGED decoded /\ SendPacket
  <2>1. /\ Sending /\ nextFrame' = nextFrame /\ burst'.frame = burst.frame
        /\ \A q \in net' : q \in net \/ q.frame = burst.frame
    BY <1>0, <1>4 DEF SendPacket
  <2> QED
    BY <1>4, <2>1 DEF OrderedInv, DecodedBehind
<1>5. CASE UNCHANGED decoded /\ SendPacketFails
  <2>1. net' = net /\ nextFrame' = nextFrame /\ ~Sending'
    BY <1>5 DEF SendPacketFails, NoBurst, Sending, netVars
  <2> QED
    BY <1>5, <2>1 DEF OrderedInv, DecodedBehind
<1>6. CASE net' \subseteq net /\ UNCHANGED <<decoded, senderVars>>
  BY <1>6 DEF OrderedInv, DecodedBehind, Sending, senderVars
<1> QED
  BY <1>1, <1>2, <1>3, <1>4, <1>5, <1>6, DirectSteps

\* A frame that is begun is neither decoded yet nor has a packet of it arrived.
LEMMA BeginTurn ==
  ASSUME Direct, IInv, OrderedInv, NEW total \in 1..MaxPackets, BeginFrame(total)
  PROVE  DecodedInTurn'
<1>0. PICK b0 : b0 = [session |-> session, frame |-> nextFrame, total |-> total]
  OBVIOUS
<1>1. begun' = begun \cup {b0} /\ UNCHANGED <<delivered, decoded>> /\ nextFrame \in Nat
  BY <1>0 DEF BeginFrame, decoderVars, IInv, TypeOK
<1>2. ~(PacketsOf(b0) \subseteq delivered)
  <2> DEFINE q == [session |-> b0.session, frame |-> b0.frame, index |-> 0, total |-> b0.total]
  <2>1. q \in PacketsOf(b0)
    <3>1. 0 \in 0..(b0.total - 1)
      BY <1>0
    <3> QED
      BY <3>1 DEF PacketsOf
  <2>2. q.frame = nextFrame
    BY <1>0
  <2> HIDE DEF q
  <2>3. q \notin delivered
    BY <1>1, <2>2 DEF OrderedInv, Ordered, SentBefore
  <2> QED
    BY <2>1, <2>3
<1>3. \A i \in 1..Len(decoded) : decoded[i].frame # b0.frame
  BY <1>0, <1>1 DEF OrderedInv, DecodedBehind
<1> QED
  BY <1>1, <1>2, <1>3 DEF OrderedInv, DecodedInTurn, PacketsOf

\* What is decoded is decoded because its last packet has arrived, after everything
\* before it.
LEMMA ReceiveTurn ==
  ASSUME Direct, IInv, OrderedInv, NEW p \in net, Receive(p)
  PROVE  DecodedInTurn'
<1>1. /\ delivered' = delivered \cup {p} /\ begun' = begun
      /\ p.frame \in Nat /\ Cut(p) /\ p.session = 0 /\ session = 0
  BY ReceiveTakes, DirectPacket DEF senderVars
<1>2. \A i \in 1..Len(decoded) : decoded[i].frame < p.frame
  BY DEF OrderedInv, DecodedBehind
<1>3. ASSUME NEW i \in 1..Len(decoded'), NEW j \in 1..Len(decoded'), i < j
      PROVE  decoded'[i].frame < decoded'[j].frame
  <2>1. CASE decoded' = decoded
    BY <1>3, <2>1 DEF OrderedInv, DecodedInTurn
  <2>2. CASE Complete(p)
    <3> DEFINE d == [frame |-> p.frame, data |-> Stored(p).slots]
               S == [frame : Frames, data : Data]
    <3>1. decoded' = Append(decoded, d) /\ decoded \in Seq(S) /\ d.frame = p.frame
      BY <2>2 DEF Complete, IInv, TypeOK
    <3> HIDE DEF d, S
    <3>2. /\ Len(decoded') = Len(decoded) + 1 /\ Len(decoded) \in Nat
          /\ \A k \in 1..Len(decoded) : decoded'[k] = decoded[k]
          /\ decoded'[Len(decoded) + 1] = d
      BY <3>1
    <3>3. i \in 1..Len(decoded) /\ decoded'[i] = decoded[i]
      BY <1>3, <3>2
    <3>4. CASE j \in 1..Len(decoded)
      BY <1>3, <3>2, <3>3, <3>4 DEF OrderedInv, DecodedInTurn
    <3>5. CASE j = Len(decoded) + 1
      BY <1>2, <3>1, <3>2, <3>3, <3>5
    <3> QED
      BY <3>2, <3>4, <3>5
  <2> QED
    BY <2>1, <2>2 DEF Receive, Collect
<1>4. ASSUME NEW b \in begun, PacketsOf(b) \subseteq delivered'
      PROVE  \E i \in 1..Len(decoded') : decoded'[i].frame = b.frame
  <2>1. CASE PacketsOf(b) \subseteq delivered
    <3>1. \E i \in 1..Len(decoded) : decoded[i].frame = b.frame
      BY <2>1 DEF OrderedInv, DecodedInTurn
    <3> QED
      BY <3>1, ReceiveDecoded DEF IInv
  <2>2. CASE p \in PacketsOf(b)
    <3>1. b.frame = p.frame
      BY <2>2 DEF PacketsOf
    <3>2. Completes(p)
      BY <1>1, <1>4, <3>1, WholeCompletes
    <3>3. \E i \in 1..Len(decoded') : decoded'[i].frame = p.frame
      BY <3>2, ReceiveDecoded DEF IInv
    <3> QED
      BY <3>1, <3>3
  <2> QED
    BY <1>1, <1>4, <2>1, <2>2
<1>5. ASSUME NEW b \in begun, NEW i \in 1..Len(decoded'), decoded'[i].frame = b.frame
      PROVE  PacketsOf(b) \subseteq delivered'
  <2>1. CASE i \in 1..Len(decoded) /\ decoded'[i] = decoded[i]
    BY <1>1, <1>5, <2>1 DEF OrderedInv, DecodedInTurn
  <2>2. CASE Completes(p) /\ decoded'[i].frame = p.frame
    <3> DEFINE d == [frame |-> p.frame, data |-> Stored(p).slots]
    <3>1. PICK c \in begun : MadeOf(d, c)
      <4>1. p.index < AssemblyFor(p).size
        BY DEF Receive
      <4> QED
        BY <1>1, <2>2, <4>1, CompleteIsWhole DEF IInv, IsWhole
    <3>2. c = b
      <4>1. c.frame = b.frame
        BY <1>5, <2>2, <3>1 DEF MadeOf
      <4> QED
        BY <4>1, OneFrame
    <3>3. Stored(p).slots = [k \in 0..(b.total - 1) |->
            [session |-> b.session, frame |-> b.frame, index |-> k, total |-> b.total]]
      BY <3>1, <3>2 DEF MadeOf
    <3>4. b.total = p.total
      <4> DEFINE c1 == [session |-> p.session, frame |-> p.frame, total |-> p.total]
      <4>1. c1 \in begun /\ c1.frame = b.frame
        BY <1>1, <1>5, <2>2 DEF Cut
      <4>2. c1 = b
        BY <4>1, OneFrame
      <4> QED
        BY <4>2
    <3>5. \A k \in 0..(b.total - 1) : Stored(p).slots[k] \in delivered'
      <4> SUFFICES ASSUME NEW k \in 0..(b.total - 1) PROVE Stored(p).slots[k] \in delivered'
        OBVIOUS
      <4>1. Stored(p).slots[k] # NoPacket
        <5>1. b.total \in 1..MaxPackets
          BY DEF IInv, TypeOK
        <5> QED
          BY <3>3, <5>1 DEF NoPacket
      <4>2. CASE k = p.index
        BY <1>1, <3>4, <4>2, ArrivesNew
      <4>3. CASE k # p.index
        BY <1>1, <3>4, <4>1, <4>3, ArrivesNew, SlotBefore
      <4> QED
        BY <4>2, <4>3
    <3>6. \A k \in 0..(b.total - 1) :
            [session |-> b.session, frame |-> b.frame, index |-> k, total |-> b.total]
              = Stored(p).slots[k]
      BY <3>3
    <3> QED
      BY <3>5, <3>6 DEF PacketsOf
  <2>3. \/ i \in 1..Len(decoded) /\ decoded'[i] = decoded[i]
        \/ Completes(p) /\ decoded'[i] = [frame |-> p.frame, data |-> Stored(p).slots]
    BY ReceiveDecoded DEF IInv
  <2> QED
    BY <2>1, <2>2, <2>3
<1> QED
  BY <1>1, <1>3, <1>4, <1>5 DEF DecodedInTurn, PacketsOf

\* The invariant is kept.
LEMMA OrderedStep == Direct /\ IInv /\ OrderedInv /\ [Next]_vars => OrderedInv'
<1> SUFFICES ASSUME Direct, IInv, OrderedInv, [Next]_vars PROVE OrderedInv'
  OBVIOUS
<1>1. Ordered' /\ DecodedBehind'
  BY StepOrdered, StepBehind DEF OrderedInv
<1>2. ASSUME NEW p \in net, Receive(p) PROVE OrderedInv'
  BY <1>1, <1>2, StepSlotsArrived, StepNewestTurn, StepAhead, ReceiveTurn DEF OrderedInv
<1>3. CASE UNCHANGED <<assemblies, lastCompleted, decoded, delivered>>
  <2>1. SlotsArrived' /\ NewestDecoded' /\ AheadStored'
    BY <1>3 DEF OrderedInv, SlotsArrived, NewestDecoded, AheadStored
  <2>2. CASE UNCHANGED begun
    <3>1. DecodedInTurn'
      BY <1>3, <2>2 DEF OrderedInv, DecodedInTurn, PacketsOf
    <3> QED
      BY <1>1, <2>1, <3>1 DEF OrderedInv
  <2>3. ASSUME NEW total \in 1..MaxPackets, BeginFrame(total) PROVE OrderedInv'
    BY <1>1, <2>1, <2>3, BeginTurn DEF OrderedInv
  <2>4. UNCHANGED begun \/ (\E total \in 1..MaxPackets : BeginFrame(total))
                        \/ (\E p \in net : Receive(p))
    BY DirectSteps DEF HoldFrame, SendPacket, SendPacketFails, senderVars
  <2> QED
    BY <1>2, <2>2, <2>3, <2>4
<1> QED
  BY <1>2, <1>3, DirectSteps

\* Over a network that keeps the order and doubles nothing, whatever it loses, and for
\* every window, vvdec is given exactly the frames all of whose packets have arrived,
\* each once and in the order of their numbers, from the first frame on.
THEOREM DecodedInTurnCorrect == Direct /\ Spec => []DecodedInTurn
<1> SUFFICES ASSUME Direct PROVE Spec => []DecodedInTurn
  OBVIOUS
<1>1. Init => OrderedInv
  BY OrderedInit
<1>2. IInv /\ OrderedInv /\ [Next]_vars => OrderedInv'
  BY OrderedStep
<1>3. OrderedInv => DecodedInTurn
  BY DEF OrderedInv
<1> QED
  BY <1>1, <1>2, <1>3, Inductive, PTL DEF Spec
=============================================================================
