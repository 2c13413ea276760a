------------------------- MODULE Reassembly_proofs -------------------------
(***************************************************************************)
(* Proofs about Reassembly, for every window, number of frames, packets,   *)
(* duplicates and sender restarts, and for every network.  The argument    *)
(* follows a payload: every packet in flight was cut from a frame the      *)
(* sender has begun, an assembly holds only packets of its own frame, each *)
(* in its own slot, and counts them.  While one sender has run, a frame    *)
(* number names one frame, so a full count means a whole frame.            *)
(***************************************************************************)
EXTENDS Reassembly, FiniteSetTheorems, TLAPS

(***************************************************************************)
(* What storing a packet does to an assembly.                              *)
(***************************************************************************)
\* A packet a decoder handles goes into an assembly of its type.
LEMMA AssemblyForType ==
  ASSUME TypeOK, NEW p \in Packet
  PROVE  IsAssembly(AssemblyFor(p))
<1>1. CASE p.frame \in DOMAIN assemblies
  BY <1>1 DEF AssemblyFor, TypeOK
<1>2. CASE p.frame \notin DOMAIN assemblies
  <2>1. p.total \in 1..MaxPackets
    BY DEF Packet
  <2> QED
    BY <1>2, <2>1 DEF AssemblyFor, EmptyAssembly, IsAssembly
<1> QED
  BY <1>1, <1>2

\* Storing a packet whose index is in range changes one slot and the count.
LEMMA StoredShape ==
  ASSUME TypeOK, NEW p \in Packet, p.index < AssemblyFor(p).size
  PROVE  /\ IsAssembly(Stored(p))
         /\ Stored(p).size = AssemblyFor(p).size
         /\ Stored(p).complete = AssemblyFor(p).complete
         /\ Stored(p).received =
              IF IsNew(p) THEN AssemblyFor(p).received + 1 ELSE AssemblyFor(p).received
         /\ \A i \in 0..(AssemblyFor(p).size - 1) :
              Stored(p).slots[i] =
                IF IsNew(p) /\ i = p.index THEN p ELSE AssemblyFor(p).slots[i]
<1> DEFINE a == AssemblyFor(p)
<1>1. IsAssembly(a)
  BY AssemblyForType
<1>2. p.index \in 0..(a.size - 1)
  BY <1>1 DEF IsAssembly, Packet
<1>3. CASE IsNew(p)
  <2>1. Stored(p) = [a EXCEPT !.slots[p.index] = p, !.received = @ + 1]
    BY <1>3 DEF Stored
  <2>2. /\ a.slots \in [0..(a.size - 1) -> Packet \cup {NoPacket}]
        /\ a.received \in Nat /\ a.size \in 1..MaxPackets /\ a.complete \in BOOLEAN
        /\ a = [size |-> a.size, slots |-> a.slots, received |-> a.received,
                complete |-> a.complete]
    BY <1>1 DEF IsAssembly
  <2>3. Stored(p) = [size |-> a.size, slots |-> [a.slots EXCEPT ![p.index] = p],
                     received |-> a.received + 1, complete |-> a.complete]
    BY <2>1, <2>2
  <2>4. [a.slots EXCEPT ![p.index] = p] \in [0..(a.size - 1) -> Packet \cup {NoPacket}]
    BY <2>2, <1>2
  <2> HIDE DEF a
  <2>5. IsAssembly(Stored(p))
    BY <2>2, <2>3, <2>4 DEF IsAssembly
  <2>6. \A i \in 0..(a.size - 1) :
          Stored(p).slots[i] = IF i = p.index THEN p ELSE a.slots[i]
    BY <2>2, <2>3, <1>2
  <2> QED
    BY <1>3, <2>3, <2>5, <2>6 DEF a
<1>4. CASE ~IsNew(p)
  BY <1>1, <1>4 DEF Stored
<1> QED
  BY <1>3, <1>4

-----------------------------------------------------------------------------
(***************************************************************************)
(* The types.                                                              *)
(***************************************************************************)
\* The initial values have their types.
LEMMA InitTypes == Init => TypeOK
<1> SUFFICES ASSUME Init PROVE TypeOK
  OBVIOUS
<1>1. decoded \in Seq([frame : Frames, data : Data]) /\ DOMAIN assemblies = {}
  BY DEF Init
<1>2. FirstFrame \in 0..(LastFrame + 1) /\ 0 \in Frames /\ 0 \in Sessions
  BY ReassemblyAssumption DEF Frames, Sessions
<1>3. burst \in [frame : Frames, total : 0..MaxPackets, next : 0..MaxPackets]
  BY <1>2, ReassemblyAssumption DEF Init, NoBurst
<1>4. fault \in BOOLEAN /\ fbSender \in BOOLEAN
  BY Zenon DEF Init
<1>5. dups \in 0..MaxDup /\ lastCompleted \in Frames /\ session \in Sessions
  BY <1>2, ReassemblyAssumption DEF Init
<1> QED
  BY <1>1, <1>2, <1>3, <1>4, <1>5 DEF Init, TypeOK

\* Where an assembly of the next state comes from, when p is handled.
LEMMA ReceiveAssemblies ==
  ASSUME NEW p, Receive(p)
  PROVE  /\ DOMAIN assemblies' \subseteq (DOMAIN assemblies \cup {p.frame}) \cap Frames
         /\ \A g \in DOMAIN assemblies' :
              assemblies'[g] = IF g # p.frame THEN assemblies[g]
                               ELSE IF Completes(p) THEN [Stored(p) EXCEPT !.complete = TRUE]
                               ELSE Stored(p)
<1>1. \E a, kept :
        /\ assemblies' = AssembliesWith(p.frame, a, kept) /\ kept \subseteq Frames
        /\ a = IF Completes(p) THEN [Stored(p) EXCEPT !.complete = TRUE] ELSE Stored(p)
  <2>1. CASE Collect(p)
    BY <2>1 DEF Collect
  <2>2. CASE Complete(p)
    BY <2>2 DEF Complete
  <2> QED
    BY <2>1, <2>2 DEF Receive
<1> QED
  BY <1>1 DEF AssembliesWith

\* InitFeedback leaves a flag behind.
LEMMA InitFeedbackType == fbSender \in BOOLEAN /\ InitFeedback => fbSender' \in BOOLEAN
  BY ReassemblyAssumption, Zenon DEF InitFeedback

\* Handling a packet keeps the assemblies' types.
LEMMA ReceiveTypes == ASSUME TypeOK, NEW p \in net, Receive(p) PROVE TypeOK'
<1>1. p \in Packet /\ p.frame \in Frames
  BY DEF TypeOK, Packet
<1>2. IsAssembly(Stored(p))
  BY <1>1, StoredShape DEF Receive
<1>3. IsAssembly([Stored(p) EXCEPT !.complete = TRUE])
  BY <1>2 DEF IsAssembly
<1>4. /\ DOMAIN assemblies' \subseteq Frames
      /\ \A g \in DOMAIN assemblies' : IsAssembly(assemblies'[g])
  <2>1. DOMAIN assemblies' \subseteq Frames
    BY ReceiveAssemblies
  <2>2. ASSUME NEW g \in DOMAIN assemblies', g = p.frame PROVE IsAssembly(assemblies'[g])
    BY <1>2, <1>3, <2>2, ReceiveAssemblies
  <2>3. ASSUME NEW g \in DOMAIN assemblies', g # p.frame PROVE IsAssembly(assemblies'[g])
    <3>1. g \in DOMAIN assemblies /\ assemblies'[g] = assemblies[g]
      BY <2>3, ReceiveAssemblies
    <3> QED
      BY <3>1 DEF TypeOK
  <2> QED
    BY <2>1, <2>2, <2>3
<1>5. lastCompleted' \in Frames
  BY <1>1 DEF TypeOK, Receive, Collect, Complete
<1>6. decoded' \in Seq([frame : Frames, data : Data])
  <2>1. Stored(p).slots \in Data
    BY <1>2 DEF IsAssembly, Data
  <2> DEFINE S == [frame : Frames, data : Data]
             d == [frame |-> p.frame, data |-> Stored(p).slots]
  <2>2. d \in S
    BY <1>1, <2>1
  <2>3. decoded' = decoded \/ decoded' = Append(decoded, d)
    BY DEF Receive, Collect, Complete
  <2>4. decoded \in Seq(S)
    BY DEF TypeOK
  <2> HIDE DEF S, d
  <2>5. decoded' \in Seq(S)
    BY <2>2, <2>3, <2>4
  <2> QED
    BY <2>5 DEF S
<1>7. net' \subseteq Packet /\ dups' \in 0..MaxDup /\ delivered' \subseteq Packet
  BY <1>1, ReassemblyAssumption DEF TypeOK, Receive, Deliver
<1>8. fbSender' \in BOOLEAN
  BY InitFeedbackType DEF TypeOK, Receive
<1>9. fbNet' \in Nat
  BY DEF TypeOK, Receive, Acknowledge
<1> QED
  BY <1>4, <1>5, <1>6, <1>7, <1>8, <1>9 DEF TypeOK, Receive, senderVars, IsAssembly

\* Every step keeps the types.
LEMMA StepTypes == TypeOK /\ [Next]_vars => TypeOK'
<1> SUFFICES ASSUME TypeOK, [Next]_vars PROVE TypeOK'
  OBVIOUS
<1> USE ReassemblyAssumption
<1>1. ASSUME NEW total \in 1..MaxPackets, BeginFrame(total) PROVE TypeOK'
  <2>1. nextFrame \in Frames
    BY <1>1 DEF TypeOK, BeginFrame, Frames
  <2>2. begun' \subseteq [session : Sessions, frame : Frames, total : 1..MaxPackets]
    BY <1>1, <2>1 DEF TypeOK, BeginFrame
  <2>3. nextFrame' \in 0..(LastFrame + 1)
    BY <1>1 DEF TypeOK, BeginFrame
  <2>4. burst' \in [frame : Frames, total : 0..MaxPackets, next : 0..MaxPackets]
    BY <1>1, <2>1 DEF TypeOK, BeginFrame
  <2> QED
    BY <1>1, <2>2, <2>3, <2>4 DEF TypeOK, BeginFrame, netVars, decoderVars, fbVars, IsAssembly
<1>2. CASE HoldFrame
  <2>1. nextFrame' \in 0..(LastFrame + 1)
    BY <1>2 DEF TypeOK, HoldFrame
  <2> QED
    BY <1>2, <2>1 DEF TypeOK, HoldFrame, netVars, decoderVars, fbVars, IsAssembly
<1>3. CASE SendPacket
  <2>1. /\ burst.frame \in Frames /\ burst.total \in 1..MaxPackets
        /\ burst.next \in 0..(MaxPackets - 1)
    BY <1>3 DEF TypeOK, SendPacket, Sending
  <2>2. net' \subseteq Packet
    <3>1. /\ net \subseteq Packet /\ session \in Sessions
          /\ net' = net \cup {[session |-> session, frame |-> burst.frame,
                               index |-> burst.next, total |-> burst.total]}
      BY <1>3 DEF TypeOK, SendPacket
    <3> QED
      BY <2>1, <3>1 DEF Packet
  <2>3. burst' \in [frame : Frames, total : 0..MaxPackets, next : 0..MaxPackets]
    <3>1. burst.next + 1 \in 0..MaxPackets /\ burst.total \in 0..MaxPackets
      BY <2>1
    <3>2. burst' = [burst EXCEPT !.next = @ + 1]
      BY <1>3 DEF SendPacket
    <3>3. burst \in [frame : Frames, total : 0..MaxPackets, next : 0..MaxPackets]
      BY DEF TypeOK
    <3> QED
      BY <3>1, <3>2, <3>3
  <2> QED
    BY <1>3, <2>2, <2>3 DEF TypeOK, SendPacket, decoderVars, fbVars, IsAssembly
<1>4. CASE SendPacketFails
  <2>1. burst' \in [frame : Frames, total : 0..MaxPackets, next : 0..MaxPackets]
    BY <1>4 DEF SendPacketFails, NoBurst, Frames
  <2> QED
    BY <1>4, <2>1 DEF TypeOK, SendPacketFails, netVars, decoderVars, fbVars, IsAssembly
<1>5. CASE RestartSender
  <2>1. burst' \in [frame : Frames, total : 0..MaxPackets, next : 0..MaxPackets]
    BY <1>5 DEF RestartSender, NoBurst, Frames
  <2>2. session' \in Sessions /\ nextFrame' \in 0..(LastFrame + 1)
    BY <1>5 DEF TypeOK, RestartSender, Sessions
  <2> QED
    BY <1>5, <2>1, <2>2 DEF TypeOK, RestartSender, netVars, decoderVars, IsAssembly
<1>6. ASSUME NEW p \in net, Receive(p) PROVE TypeOK'
  BY <1>6, ReceiveTypes
<1>7. ASSUME NEW p \in net, ReceiveOutOfRange(p) PROVE TypeOK'
  <2>1. net' \subseteq Packet /\ dups' \in 0..MaxDup /\ delivered' \subseteq Packet
    BY <1>7 DEF TypeOK, ReceiveOutOfRange, Deliver
  <2>2. fbSender' \in BOOLEAN
    BY <1>7, InitFeedbackType DEF TypeOK, ReceiveOutOfRange
  <2> QED
    BY <1>7, <2>1, <2>2 DEF TypeOK, ReceiveOutOfRange, senderVars, IsAssembly
<1>8. CASE ReceiveMalformed
  BY <1>8, InitFeedbackType DEF TypeOK, ReceiveMalformed, senderVars, netVars, decoderVars, IsAssembly
<1>9. ASSUME NEW p \in net, Lose(p) PROVE TypeOK'
  BY <1>9 DEF TypeOK, Lose, senderVars, decoderVars, fbVars, IsAssembly
<1>10. CASE HandleFeedback \/ LoseFeedback
  BY <1>10 DEF TypeOK, HandleFeedback, LoseFeedback, senderVars, netVars, decoderVars, IsAssembly
<1>11. CASE UNCHANGED vars
  BY <1>11 DEF TypeOK, vars, senderVars, netVars, decoderVars, fbVars, IsAssembly
<1> QED
  BY <1>1, <1>2, <1>3, <1>4, <1>5, <1>6, <1>7, <1>8, <1>9, <1>10, <1>11
     DEF Next, Sender, Receiver

-----------------------------------------------------------------------------
(***************************************************************************)
(* The invariant.                                                          *)
(***************************************************************************)
\* SendData cut the packet from a frame the sender has begun.
Cut(p) == [session |-> p.session, frame |-> p.frame, total |-> p.total] \in begun

\* A sender numbers its frames upwards, so a number names one frame of it.
SenderInv ==
  /\ \A b \in begun : b.session <= session /\ (b.session = session => b.frame < nextFrame)
  /\ \A b, c \in begun : b.session = c.session /\ b.frame = c.frame => b = c
  /\ Sending => [session |-> session, frame |-> burst.frame, total |-> burst.total] \in begun

NetInv == \A p \in net : Cut(p) /\ p.index < p.total

\* A slot is empty or holds the packet of this frame with this index.
SlotsInv ==
  \A f \in DOMAIN assemblies : \A i \in 0..(assemblies[f].size - 1) :
    LET p == assemblies[f].slots[i]
    IN p = NoPacket \/ (p.frame = f /\ p.index = i /\ Cut(p))

\* While one sender has run, an assembly is as large as the one frame of its number.
SizesInv ==
  session = 0 =>
    \A f \in DOMAIN assemblies : \E b \in begun : b.frame = f /\ b.total = assemblies[f].size

IInv ==
  /\ TypeOK
  /\ SenderInv /\ NetInv
  /\ AssemblyCounts /\ SlotsInv
  /\ SizesInv /\ SafeUntilRestart

\* The invariant holds before anything has been sent.
LEMMA InitInvariant == Init => IInv
<1> SUFFICES ASSUME Init PROVE IInv
  OBVIOUS
<1>1. DOMAIN assemblies = {} /\ Len(decoded) = 0
  BY DEF Init
<1>2. TypeOK
  BY InitTypes
<1>3. SenderInv /\ NetInv
  BY DEF Init, SenderInv, NetInv, Sending, NoBurst
<1>4. AssemblyCounts /\ SlotsInv /\ SizesInv
  BY <1>1 DEF AssemblyCounts, SlotsInv, SizesInv
<1>5. SafeUntilRestart
  BY <1>1 DEF Init, SafeUntilRestart, DecodedIntact
<1> QED
  BY <1>2, <1>3, <1>4, <1>5 DEF IInv

-----------------------------------------------------------------------------
(***************************************************************************)
(* The sender and the network.                                             *)
(***************************************************************************)
\* No step forgets a frame that was begun; only RestartSender changes session.
LEMMA BegunGrows ==
  ASSUME TypeOK, [Next]_vars
  PROVE  begun \subseteq begun' /\ (session' = session \/ session' > 0)
  BY DEF TypeOK, Sessions, Next, Sender, BeginFrame, HoldFrame, SendPacket, SendPacketFails,
         RestartSender, Receiver, Receive, ReceiveOutOfRange, ReceiveMalformed, Lose,
         HandleFeedback, LoseFeedback, vars, senderVars

\* What is known of the sender when the encoder thread takes a step.
LEMMA StepSender == TypeOK /\ SenderInv /\ [Next]_vars => SenderInv'
<1> SUFFICES ASSUME TypeOK, SenderInv, [Next]_vars PROVE SenderInv'
  OBVIOUS
<1>0. /\ session \in Nat /\ nextFrame \in Nat
      /\ begun \subseteq [session : Nat, frame : Nat, total : Nat]
      /\ burst \in [frame : Nat, total : Nat, next : Nat]
  BY DEF TypeOK, Sessions, Frames
<1>1. ASSUME NEW total \in 1..MaxPackets, BeginFrame(total) PROVE SenderInv'
  <2> DEFINE b0 == [session |-> session, frame |-> nextFrame, total |-> total]
  <2>1. /\ begun' = begun \cup {b0} /\ session' = session /\ nextFrame' = nextFrame + 1
        /\ burst' = [frame |-> nextFrame, total |-> total, next |-> 0]
    BY <1>1 DEF BeginFrame
  <2>2. \A b \in begun : b.session \in Nat /\ b.frame \in Nat
    BY <1>0
  <2> QED
    BY <1>0, <2>1, <2>2 DEF SenderInv
<1>2. CASE HoldFrame
  BY <1>0, <1>2 DEF SenderInv, HoldFrame, Sending
<1>3. CASE SendPacket
  BY <1>0, <1>3 DEF SenderInv, SendPacket, Sending
<1>4. CASE SendPacketFails
  BY <1>0, <1>4 DEF SenderInv, SendPacketFails, Sending, NoBurst
<1>5. CASE RestartSender
  BY <1>0, <1>5 DEF SenderInv, RestartSender, Sending, NoBurst
<1>6. CASE UNCHANGED senderVars
  BY <1>6 DEF SenderInv, senderVars, Sending
<1> QED
  BY <1>1, <1>2, <1>3, <1>4, <1>5, <1>6
     DEF Next, Sender, Receiver, Receive, ReceiveOutOfRange, ReceiveMalformed, Lose,
         HandleFeedback, LoseFeedback, vars

\* The network carries only packets that SendData has made.
LEMMA StepNet == TypeOK /\ SenderInv /\ NetInv /\ [Next]_vars => NetInv'
<1> SUFFICES ASSUME TypeOK, SenderInv, NetInv, [Next]_vars PROVE NetInv'
  OBVIOUS
<1>1. CASE SendPacket
  <2> DEFINE q == [session |-> session, frame |-> burst.frame,
                   index |-> burst.next, total |-> burst.total]
  <2>1. net' = net \cup {q} /\ begun' = begun
    BY <1>1 DEF SendPacket
  <2>2. Cut(q) /\ q.index < q.total
    BY <1>1 DEF SendPacket, Sending, SenderInv, Cut
  <2> HIDE DEF q
  <2> QED
    BY <2>1, <2>2 DEF NetInv, Cut
<1>2. CASE net' \subseteq net
  BY <1>2, BegunGrows DEF NetInv, Cut
<1> QED
  BY <1>1, <1>2
     DEF Next, Sender, BeginFrame, HoldFrame, SendPacketFails, RestartSender, Receiver,
         Receive, ReceiveOutOfRange, Deliver, ReceiveMalformed, Lose, HandleFeedback,
         LoseFeedback, vars, netVars

-----------------------------------------------------------------------------
(***************************************************************************)
(* The assemblies.                                                         *)
(***************************************************************************)
\* A set of n of the numbers 0..n-1 is all of them.
LEMMA FullCount ==
  ASSUME NEW n \in Nat, NEW S \in SUBSET (0..(n - 1)), Cardinality(S) = n
  PROVE  S = 0..(n - 1)
<1>1. /\ IsFiniteSet(0..(n - 1))
      /\ Cardinality(0..(n - 1)) = IF 0 > n - 1 THEN 0 ELSE (n - 1) - 0 + 1
  <2>1. 0 \in Int /\ n - 1 \in Int
    OBVIOUS
  <2> QED
    BY <2>1, FS_Interval, Zenon
<1>2. Cardinality(0..(n - 1)) = n
  BY <1>1
<1> QED
  BY <1>1, <1>2, FS_Subset

\* The filled slots of an assembly are a finite set.
LEMMA FilledFinite ==
  ASSUME NEW a, IsAssembly(a)
  PROVE  IsFiniteSet(Filled(a)) /\ Filled(a) \subseteq 0..(a.size - 1)
<1>1. IsFiniteSet(0..(a.size - 1))
  BY FS_Interval DEF IsAssembly
<1> QED
  BY <1>1, FS_Subset DEF Filled

\* The assembly a packet goes into counts its slots, also when it is a new one.
LEMMA AssemblyForCounts ==
  ASSUME TypeOK, AssemblyCounts, NEW p \in Packet
  PROVE  AssemblyFor(p).received = Cardinality(Filled(AssemblyFor(p)))
<1>1. CASE p.frame \in DOMAIN assemblies
  BY <1>1 DEF AssemblyFor, AssemblyCounts
<1>2. CASE p.frame \notin DOMAIN assemblies
  <2>1. Filled(EmptyAssembly(p.total)) = {}
    BY DEF Filled, EmptyAssembly
  <2> QED
    BY <1>2, <2>1, FS_EmptySet DEF AssemblyFor, EmptyAssembly
<1> QED
  BY <1>1, <1>2

\* Storing a packet keeps the count equal to the number of filled slots.
LEMMA StoredCounts ==
  ASSUME TypeOK, AssemblyCounts, NEW p \in Packet, p.index < AssemblyFor(p).size
  PROVE  Stored(p).received = Cardinality(Filled(Stored(p)))
<1> DEFINE a == AssemblyFor(p)
<1>1. IsAssembly(a) /\ a.received = Cardinality(Filled(a))
  BY AssemblyForType, AssemblyForCounts
<1>2. p # NoPacket /\ p.index \in 0..(a.size - 1)
  BY <1>1 DEF Packet, NoPacket, IsAssembly
<1>3. CASE IsNew(p)
  <2>1. Filled(Stored(p)) = Filled(a) \cup {p.index}
    BY <1>2, <1>3, StoredShape DEF Filled
  <2>2. p.index \notin Filled(a)
    BY <1>3 DEF IsNew, Filled
  <2>3. Cardinality(Filled(Stored(p))) = Cardinality(Filled(a)) + 1
    BY <1>1, <2>1, <2>2, FilledFinite, FS_AddElement
  <2> QED
    BY <1>1, <1>3, <2>3, StoredShape
<1>4. CASE ~IsNew(p)
  BY <1>1, <1>4 DEF Stored
<1> QED
  BY <1>3, <1>4

\* Marking an assembly complete changes neither its slots nor its count.
LEMMA MarkedSame ==
  ASSUME NEW a, IsAssembly(a)
  PROVE  LET m == [a EXCEPT !.complete = TRUE] IN
         /\ m.size = a.size /\ m.slots = a.slots /\ m.received = a.received /\ m.complete
         /\ Filled(m) = Filled(a)
  BY DEF IsAssembly, Filled

\* Every step but the handling of a packet leaves assemblies and decoded alone.
LEMMA OnlyReceive ==
  ASSUME [Next]_vars
  PROVE  \/ UNCHANGED <<assemblies, decoded>>
         \/ \E p \in net : Receive(p)
  BY DEF Next, Sender, BeginFrame, HoldFrame, SendPacket, SendPacketFails, RestartSender,
         Receiver, ReceiveOutOfRange, ReceiveMalformed, Lose, HandleFeedback,
         LoseFeedback, vars, decoderVars

\* decoded only grows, and by the frame whose packet completes it.
LEMMA ReceiveDecoded ==
  ASSUME TypeOK, NEW p, Receive(p)
  PROVE  /\ \A f : (\E i \in 1..Len(decoded) : decoded[i].frame = f)
                  => (\E i \in 1..Len(decoded') : decoded'[i].frame = f)
         /\ \A i \in 1..Len(decoded') :
              \/ i \in 1..Len(decoded) /\ decoded'[i] = decoded[i]
              \/ Completes(p) /\ decoded'[i] = [frame |-> p.frame, data |-> Stored(p).slots]
         /\ Completes(p) => \E i \in 1..Len(decoded') : decoded'[i].frame = p.frame
<1>1. decoded \in Seq([frame : Frames, data : Data])
  BY DEF TypeOK
<1>2. CASE Collect(p)
  BY <1>2 DEF Collect
<1>3. CASE Complete(p)
  <2> DEFINE d == [frame |-> p.frame, data |-> Stored(p).slots]
  <2>1. decoded' = Append(decoded, d) /\ Completes(p)
    BY <1>3 DEF Complete
  <2>2. /\ Len(decoded') = Len(decoded) + 1 /\ Len(decoded) \in Nat
        /\ \A i \in 1..Len(decoded) : decoded'[i] = decoded[i]
        /\ decoded'[Len(decoded) + 1] = d
    BY <1>1, <2>1
  <2> QED
    BY <2>1, <2>2
<1> QED
  BY <1>2, <1>3 DEF Receive

\* The counts, whatever the network delivers.
LEMMA StepCounts == TypeOK /\ AssemblyCounts /\ [Next]_vars => AssemblyCounts'
<1> SUFFICES ASSUME TypeOK, AssemblyCounts, [Next]_vars PROVE AssemblyCounts'
  OBVIOUS
<1>1. CASE UNCHANGED <<assemblies, decoded>>
  <2> SUFFICES ASSUME NEW g \in DOMAIN assemblies'
               PROVE  /\ assemblies'[g].received = Cardinality(Filled(assemblies'[g]))
                      /\ assemblies'[g].complete
                           => \E i \in 1..Len(decoded') : decoded'[i].frame = g
    BY DEF AssemblyCounts, Filled
  <2>1. g \in DOMAIN assemblies /\ assemblies'[g] = assemblies[g] /\ decoded' = decoded
    BY <1>1
  <2> QED
    BY <2>1 DEF AssemblyCounts
<1>2. ASSUME NEW p \in net, Receive(p) PROVE AssemblyCounts'
  <2>1. p \in Packet /\ p.index < AssemblyFor(p).size
    BY <1>2 DEF TypeOK, Receive
  <2>2. IsAssembly(Stored(p)) /\ Stored(p).received = Cardinality(Filled(Stored(p)))
    BY <2>1, StoredShape, StoredCounts
  <2> SUFFICES ASSUME NEW g \in DOMAIN assemblies'
               PROVE  /\ assemblies'[g].received = Cardinality(Filled(assemblies'[g]))
                      /\ assemblies'[g].complete
                           => \E i \in 1..Len(decoded') : decoded'[i].frame = g
    BY DEF AssemblyCounts, Filled
  <2>3. CASE g # p.frame
    <3>1. g \in DOMAIN assemblies /\ assemblies'[g] = assemblies[g]
      BY <1>2, <2>3, ReceiveAssemblies
    <3>2. assemblies[g].complete => \E i \in 1..Len(decoded) : decoded[i].frame = g
      BY <3>1 DEF AssemblyCounts
    <3>3. assemblies[g].received = Cardinality(Filled(assemblies[g]))
      BY <3>1 DEF AssemblyCounts
    <3> QED
      BY <1>2, <3>1, <3>2, <3>3, ReceiveDecoded
  <2>4. CASE g = p.frame /\ Completes(p)
    <3>1. assemblies'[g] = [Stored(p) EXCEPT !.complete = TRUE]
      BY <1>2, <2>4, ReceiveAssemblies
    <3>2. /\ assemblies'[g].received = Stored(p).received
          /\ Filled(assemblies'[g]) = Filled(Stored(p))
      BY <2>2, <3>1, MarkedSame
    <3>3. \E i \in 1..Len(decoded') : decoded'[i].frame = g
      BY <1>2, <2>4, ReceiveDecoded
    <3> QED
      BY <2>2, <3>2, <3>3
  <2>5. CASE g = p.frame /\ ~Completes(p)
    <3>1. assemblies'[g] = Stored(p)
      BY <1>2, <2>5, ReceiveAssemblies
    <3>2. Stored(p).complete => p.frame \in DOMAIN assemblies /\ assemblies[p.frame].complete
      BY <2>1, StoredShape DEF AssemblyFor, EmptyAssembly
    <3>3. Stored(p).complete => \E i \in 1..Len(decoded) : decoded[i].frame = g
      BY <2>5, <3>2 DEF AssemblyCounts
    <3> QED
      BY <1>2, <2>2, <3>1, <3>3, ReceiveDecoded
  <2> QED
    BY <2>3, <2>4, <2>5
<1> QED
  BY <1>1, <1>2, OnlyReceive

-----------------------------------------------------------------------------
(***************************************************************************)
(* What the slots hold.                                                    *)
(***************************************************************************)
\* After p is stored every slot is empty or holds its own packet.
LEMMA StoredSlots ==
  ASSUME TypeOK, NetInv, SlotsInv, NEW p \in net, p.index < AssemblyFor(p).size,
         NEW i \in 0..(Stored(p).size - 1)
  PROVE  LET q == Stored(p).slots[i]
         IN q = NoPacket \/ (q.frame = p.frame /\ q.index = i /\ Cut(q))
<1>1. p \in Packet /\ Cut(p)
  BY DEF TypeOK, NetInv
<1>2. i \in 0..(AssemblyFor(p).size - 1)
  BY <1>1, StoredShape
<1>3. CASE IsNew(p) /\ i = p.index
  BY <1>1, <1>2, <1>3, StoredShape
<1>4. CASE ~(IsNew(p) /\ i = p.index)
  <2>1. Stored(p).slots[i] = AssemblyFor(p).slots[i]
    BY <1>1, <1>2, <1>4, StoredShape
  <2>2. CASE p.frame \in DOMAIN assemblies
    BY <1>2, <2>1, <2>2 DEF AssemblyFor, SlotsInv
  <2>3. CASE p.frame \notin DOMAIN assemblies
    <3>1. AssemblyFor(p) = EmptyAssembly(p.total)
      BY <2>3 DEF AssemblyFor
    <3> QED
      BY <1>2, <2>1, <3>1 DEF EmptyAssembly
  <2> QED
    BY <2>2, <2>3
<1> QED
  BY <1>3, <1>4

\* Packets of different frames, or of different places in a frame, never mix.
LEMMA StepSlots == TypeOK /\ NetInv /\ SlotsInv /\ [Next]_vars => SlotsInv'
<1> SUFFICES ASSUME TypeOK, NetInv, SlotsInv, [Next]_vars PROVE SlotsInv'
  OBVIOUS
<1>1. CASE UNCHANGED <<assemblies, decoded>>
  BY <1>1, BegunGrows DEF SlotsInv, Cut
<1>2. ASSUME NEW p \in net, Receive(p) PROVE SlotsInv'
  <2>1. p \in Packet /\ p.index < AssemblyFor(p).size /\ begun' = begun
    BY <1>2 DEF TypeOK, Receive, senderVars
  <2>2. IsAssembly(Stored(p))
    BY <2>1, StoredShape
  <2> SUFFICES ASSUME NEW g \in DOMAIN assemblies', NEW i \in 0..(assemblies'[g].size - 1)
               PROVE  LET q == assemblies'[g].slots[i]
                      IN q = NoPacket \/ (q.frame = g /\ q.index = i /\ Cut(q))
    BY <2>1 DEF SlotsInv, Cut
  <2>3. CASE g # p.frame
    <3>1. g \in DOMAIN assemblies /\ assemblies'[g] = assemblies[g]
      BY <1>2, <2>3, ReceiveAssemblies
    <3> QED
      BY <3>1 DEF SlotsInv
  <2>4. CASE g = p.frame
    <3>1. /\ assemblies'[g].size = Stored(p).size
          /\ assemblies'[g].slots = Stored(p).slots
      <4> DEFINE m == [Stored(p) EXCEPT !.complete = TRUE]
      <4>1. assemblies'[g] = m \/ assemblies'[g] = Stored(p)
        BY <1>2, <2>4, ReceiveAssemblies
      <4>2. m.size = Stored(p).size /\ m.slots = Stored(p).slots
        BY <2>2, MarkedSame
      <4> QED
        BY <4>1, <4>2
    <3> QED
      BY <2>1, <2>4, <3>1, StoredSlots
  <2> QED
    BY <2>3, <2>4
<1> QED
  BY <1>1, <1>2, OnlyReceive

-----------------------------------------------------------------------------
(***************************************************************************)
(* While the first sender runs.                                            *)
(***************************************************************************)
\* The assembly a packet goes into was made for as many packets as its own
\* header says.
LEMMA OneSize ==
  ASSUME TypeOK, SenderInv, NetInv, SizesInv, session = 0, NEW p \in net
  PROVE  /\ p.session = 0 /\ p.total \in Nat
         /\ AssemblyFor(p).size = p.total
<1> DEFINE c == [session |-> p.session, frame |-> p.frame, total |-> p.total]
<1>1. p \in Packet /\ c \in begun
  BY DEF TypeOK, NetInv, Cut
<1>2. begun \subseteq [session : Nat, frame : Nat, total : Nat]
  BY DEF TypeOK, Sessions, Frames
<1>3. \A b \in begun : b.session = 0
  BY <1>2 DEF SenderInv
<1>4. p.session = 0 /\ p.total \in Nat
  BY <1>1, <1>3 DEF Packet
<1>5. CASE p.frame \in DOMAIN assemblies
  <2>1. PICK b \in begun : b.frame = p.frame /\ b.total = assemblies[p.frame].size
    BY <1>5 DEF SizesInv
  <2>2. b = c
    BY <1>1, <1>3, <1>4, <2>1 DEF SenderInv
  <2> QED
    BY <1>4, <1>5, <2>1, <2>2 DEF AssemblyFor
<1>6. CASE p.frame \notin DOMAIN assemblies
  BY <1>4, <1>6 DEF AssemblyFor, EmptyAssembly
<1> QED
  BY <1>5, <1>6, <1>4

\* No step of the first sender's time makes an assembly of another size.
LEMMA StepSizes ==
  TypeOK /\ SenderInv /\ NetInv /\ SizesInv /\ [Next]_vars => SizesInv'
<1> SUFFICES ASSUME TypeOK, SenderInv, NetInv, SizesInv, [Next]_vars, session' = 0,
                    NEW g \in DOMAIN assemblies'
             PROVE  \E b \in begun' : b.frame = g /\ b.total = assemblies'[g].size
  BY DEF SizesInv
<1>0. session = 0 /\ begun \subseteq begun'
  BY BegunGrows
<1>1. CASE UNCHANGED <<assemblies, decoded>>
  BY <1>0, <1>1 DEF SizesInv
<1>2. ASSUME NEW p \in net, Receive(p)
      PROVE  \E b \in begun' : b.frame = g /\ b.total = assemblies'[g].size
  <2>1. p \in Packet /\ p.index < AssemblyFor(p).size
    BY <1>2 DEF TypeOK, Receive
  <2>2. CASE g # p.frame
    <3>1. g \in DOMAIN assemblies /\ assemblies'[g] = assemblies[g]
      BY <1>2, <2>2, ReceiveAssemblies
    <3> QED
      BY <1>0, <3>1 DEF SizesInv
  <2>3. CASE g = p.frame
    <3>1. assemblies'[g].size = Stored(p).size
      <4>1. IsAssembly(Stored(p))
        BY <2>1, StoredShape
      <4>2. \/ assemblies'[g] = [Stored(p) EXCEPT !.complete = TRUE]
            \/ assemblies'[g] = Stored(p)
        BY <1>2, <2>3, ReceiveAssemblies
      <4> QED
        BY <4>1, <4>2, MarkedSame
    <3>2. assemblies'[g].size = p.total
      BY <1>0, <2>1, <3>1, StoredShape, OneSize
    <3> DEFINE c == [session |-> p.session, frame |-> p.frame, total |-> p.total]
    <3>3. c \in begun'
      BY <1>0 DEF NetInv, Cut
    <3> QED
      BY <2>3, <3>2, <3>3
  <2> QED
    BY <2>2, <2>3
<1> QED
  BY <1>1, <1>2, OnlyReceive

\* A full count means that every packet of the one frame is in its slot.
LEMMA CompleteIsWhole ==
  ASSUME TypeOK, SenderInv, NetInv, AssemblyCounts, SlotsInv, SizesInv, session = 0,
         NEW p \in net, p.index < AssemblyFor(p).size, Completes(p)
  PROVE  IsWhole([frame |-> p.frame, data |-> Stored(p).slots])
<1> DEFINE c == [session |-> p.session, frame |-> p.frame, total |-> p.total]
           s == Stored(p).slots
<1>1. p \in Packet /\ c \in begun
  BY DEF TypeOK, NetInv, Cut
<1>2. IsAssembly(Stored(p)) /\ Stored(p).size = p.total
  BY <1>1, StoredShape, OneSize
<1>3. Cardinality(Filled(Stored(p))) = p.total /\ p.total \in Nat
  BY <1>1, StoredCounts, OneSize DEF Completes
<1>4. Filled(Stored(p)) = 0..(p.total - 1)
  BY <1>2, <1>3, FilledFinite, FullCount
<1>5. ASSUME NEW i \in 0..(p.total - 1)
      PROVE  s[i] = [session |-> p.session, frame |-> p.frame, index |-> i, total |-> p.total]
  <2>1. s[i] # NoPacket /\ s[i] \in Packet
    BY <1>2, <1>4, <1>5 DEF Filled, IsAssembly
  <2>2. s[i].frame = p.frame /\ s[i].index = i /\ Cut(s[i])
    BY <1>2, <1>5, <2>1, StoredSlots
  <2> DEFINE d == [session |-> s[i].session, frame |-> s[i].frame, total |-> s[i].total]
  <2>3. d \in begun
    BY <2>2 DEF Cut
  <2>4. d.session = 0 /\ p.session = 0
    <3>1. d.session <= 0 /\ d.session \in Nat
      BY <2>1, <2>3 DEF SenderInv, Packet, Sessions
    <3> QED
      BY <3>1, OneSize
  <2>5. d = c
    BY <1>1, <2>2, <2>3, <2>4 DEF SenderInv
  <2> QED
    BY <2>1, <2>2, <2>5 DEF Packet
<1>6. s \in [0..(p.total - 1) -> Packet \cup {NoPacket}]
  BY <1>2 DEF IsAssembly
<1>7. s = [i \in 0..(c.total - 1) |->
             [session |-> c.session, frame |-> c.frame, index |-> i, total |-> c.total]]
  BY <1>5, <1>6
<1> QED
  BY <1>1, <1>7 DEF IsWhole, MadeOf

\* The first sender's packets are never written or read out of range, and every
\* frame decoded in its time is whole.
LEMMA StepSafe == IInv /\ [Next]_vars => SafeUntilRestart'
<1> SUFFICES ASSUME IInv, [Next]_vars, session' = 0 PROVE ~fault' /\ DecodedIntact'
  BY DEF SafeUntilRestart
<1>0. session = 0 /\ ~fault /\ DecodedIntact /\ begun \subseteq begun'
  BY BegunGrows DEF IInv, SafeUntilRestart
<1> USE DEF IInv
<1>1. ~fault'
  <2>1. ASSUME NEW p \in net, ReceiveOutOfRange(p) PROVE FALSE
    <3>1. AssemblyFor(p).size = p.total
      BY <1>0, OneSize
    <3>2. p.index < p.total /\ p.index >= p.total /\ p.index \in Int /\ p.total \in Int
      BY <2>1, <3>1 DEF NetInv, ReceiveOutOfRange, TypeOK, Packet
    <3> QED
      BY <3>2
  <2>2. fault' = fault \/ \E p \in net : ReceiveOutOfRange(p)
    BY DEF Next, Sender, BeginFrame, HoldFrame, SendPacket, SendPacketFails, RestartSender,
           Receiver, Receive, ReceiveMalformed, Lose, HandleFeedback, LoseFeedback, vars,
           decoderVars
  <2> QED
    BY <1>0, <2>1, <2>2
<1>2. ASSUME UNCHANGED <<assemblies, decoded>> PROVE DecodedIntact'
  BY <1>0, <1>2 DEF DecodedIntact, IsWhole
<1>3. ASSUME NEW p \in net, Receive(p) PROVE DecodedIntact'
  <2>1. Completes(p) => IsWhole([frame |-> p.frame, data |-> Stored(p).slots])
    BY <1>0, <1>3, CompleteIsWhole DEF Receive
  <2> SUFFICES ASSUME NEW i \in 1..Len(decoded')
               PROVE  \E b \in begun' : MadeOf(decoded'[i], b)
    BY DEF DecodedIntact, IsWhole
  <2>2. IsWhole(decoded'[i])
    BY <1>0, <1>3, <2>1, ReceiveDecoded DEF DecodedIntact
  <2> QED
    BY <1>0, <2>2 DEF IsWhole
<1> QED
  BY <1>1, <1>2, <1>3, OnlyReceive

-----------------------------------------------------------------------------
(***************************************************************************)
(* The theorems.                                                           *)
(***************************************************************************)
\* IInv is an invariant of the specification.
THEOREM Inductive == Spec => []IInv
<1>1. Init => IInv
  BY InitInvariant
<1>2. IInv /\ [Next]_vars => IInv'
  BY StepTypes, StepSender, StepNet, StepCounts, StepSlots, StepSizes, StepSafe DEF IInv
<1> QED
  BY <1>1, <1>2, PTL DEF Spec

\* Every variable keeps its type, whatever the network does.
THEOREM TypeCorrect == Spec => []TypeOK
<1>1. IInv => TypeOK
  BY DEF IInv
<1> QED
  BY <1>1, Inductive, PTL

\* received_packets counts the filled slots of its assembly, whatever the network
\* does and however often the sender is started again.
THEOREM CountsCorrect == Spec => []AssemblyCounts
<1>1. IInv => AssemblyCounts
  BY DEF IInv
<1> QED
  BY <1>1, Inductive, PTL

\* Until the sender is started again no index is out of range and vvdec is given
\* whole frames only, for every window, whatever is lost, doubled or reordered.
THEOREM WholeUntilRestart == Spec => []SafeUntilRestart
<1>1. IInv => SafeUntilRestart
  BY DEF IInv
<1> QED
  BY <1>1, Inductive, PTL
=============================================================================
