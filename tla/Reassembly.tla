----------------------------- MODULE Reassembly -----------------------------
(***************************************************************************)
(* From the sender's MessageSender::SendData through UDP to the receiver's *)
(* Decoder::ProcessPacket, and the feedback datagrams back.  An encoded    *)
(* frame is cut into packets; the receiver collects them per frame number, *)
(* decodes a frame when it has them all and then forgets old frames.       *)
(*                                                                         *)
(* A payload is identified with the packet that carries it, so a decoded   *)
(* frame shows which packets it was put together from.  The receiver is    *)
(* one thread: handling a datagram is one step.  The receiver process      *)
(* never ends; the sender may be started again while it runs.              *)
(***************************************************************************)
EXTENDS Integers, Sequences, FiniteSets

CONSTANTS
  Window,        \* the 10 of "frame_sequence - 10"
  SeqMod,        \* 2^32: frame_sequence is a uint32_t
  FirstFrame,    \* the encoder's next frame when the receiver starts to listen
  LastFrame,     \* bound: the last frame number a sender reaches
  MaxPackets,    \* bound: most packets of a frame
  MaxDup,        \* bound: datagrams the network delivers twice
  MaxSession,    \* bound: times the sender is started again
  InOrder,       \* the network keeps the order of the datagrams
  Lossy,         \* datagrams may be lost, and send() may fail
  FeedbackInit   \* what InitializeFeedbackSender may return

ASSUME ReassemblyAssumption ==
  /\ Window \in Nat /\ SeqMod \in Nat \ {0}
  /\ LastFrame \in Nat /\ FirstFrame \in 0..LastFrame /\ LastFrame + Window < SeqMod
  /\ MaxPackets \in Nat /\ MaxDup \in Nat /\ MaxSession \in Nat
  /\ InOrder \in BOOLEAN /\ Lossy \in BOOLEAN /\ FeedbackInit \subseteq BOOLEAN

VARIABLES
  session,        \* which start of the sender process is running
  nextFrame,      \* Encoder::sequence_number_
  burst,          \* the frame SendData is sending: [frame, total, next]
  begun,          \* history: frames SendData was called with, [session, frame, total]
  net,            \* packets in flight
  dups,           \* duplicates the network has made
  delivered,      \* history: packets that have reached the decoder
  assemblies,     \* Decoder::frame_assemblies_
  lastCompleted,  \* Decoder::last_completed_frame_
  decoded,        \* history: frames given to vvdec, [frame, data]
  fault,          \* the decoder has indexed a vector out of range
  fbSender,       \* DecoderWithFeedback::feedback_sender_initialized_
  fbNet,          \* feedback datagrams in flight
  fbCount         \* FeedbackManage::feedback_count_

senderVars == <<session, nextFrame, burst, begun>>
netVars == <<net, dups>>
decoderVars == <<delivered, assemblies, lastCompleted, decoded, fault>>
fbVars == <<fbSender, fbNet, fbCount>>
vars == <<senderVars, netVars, decoderVars, fbVars>>

Frames == 0..LastFrame
Sessions == 0..MaxSession
Packet == [session : Sessions, frame : Frames, index : 0..(MaxPackets - 1), total : 1..MaxPackets]

\* An empty payload vector of a FrameAssembly.
NoPacket == [session |-> 0, frame |-> 0, index |-> 0, total |-> 0]

NoBurst == [frame |-> 0, total |-> 0, next |-> 0]

Init ==
  /\ session = 0 /\ nextFrame = FirstFrame /\ burst = NoBurst /\ begun = {}
  /\ net = {} /\ dups = 0
  /\ delivered = {} /\ assemblies = <<>> /\ lastCompleted = 0 /\ decoded = <<>>
  /\ fault = FALSE
  /\ fbSender = FALSE /\ fbNet = 0 /\ fbCount = 0

(***************************************************************************)
(* The sender: WriteEncodedData and SendData, on the encoder thread.       *)
(***************************************************************************)
Sending_OneMore == burst.next <= burst.total
Sending_OneLess == burst.next < burst.total - 1
Sending == burst.next < burst.total

\* vvenc_encode returns an access unit: SendData with the current number.
BeginFrame(total) ==
  /\ ~Sending
  /\ nextFrame <= LastFrame
  /\ burst' = [frame |-> nextFrame, total |-> total, next |-> 0]
  /\ begun' = begun \cup {[session |-> session, frame |-> nextFrame, total |-> total]}
  /\ nextFrame' = nextFrame + 1
  /\ UNCHANGED <<session, netVars, decoderVars, fbVars>>

\* vvenc_encode keeps the picture: its number is used up and nothing is sent.
HoldFrame ==
  /\ ~Sending
  /\ nextFrame <= LastFrame
  /\ nextFrame' = nextFrame + 1
  /\ UNCHANGED <<session, burst, begun, netVars, decoderVars, fbVars>>

SendPacket ==
  /\ Sending
  /\ net' = net \cup {[session |-> session, frame |-> burst.frame,
                       index |-> burst.next, total |-> burst.total]}
  /\ burst' = [burst EXCEPT !.next = @ + 1]
  /\ UNCHANGED <<session, nextFrame, begun, dups, decoderVars, fbVars>>

\* send() fails: SendData returns and the rest of the frame is never sent.
SendPacketFails ==
  /\ Lossy
  /\ Sending
  /\ burst' = NoBurst
  /\ UNCHANGED <<session, nextFrame, begun, netVars, decoderVars, fbVars>>

\* The sender process ends, at any point, and a new one numbers from 0 again.
RestartSender ==
  /\ session < MaxSession
  /\ session' = session + 1
  /\ nextFrame' = 0
  /\ burst' = NoBurst
  /\ fbCount' = 0
  /\ UNCHANGED <<begun, netVars, decoderVars, fbSender, fbNet>>

Sender ==
  \/ \E total \in 1..MaxPackets : BeginFrame(total)
  \/ HoldFrame \/ SendPacket \/ SendPacketFails \/ RestartSender

(***************************************************************************)
(* The receiver.                                                           *)
(***************************************************************************)
\* p was sent before q
Earlier(p, q) ==
  \/ p.session < q.session
  \/ p.session = q.session /\ p.frame < q.frame
  \/ p.session = q.session /\ p.frame = q.frame /\ p.index < q.index

\* The network hands over p, and may hand it over again.
Deliver(p) ==
  /\ InOrder => \A q \in net \ {p} : Earlier(p, q)
  /\ \/ net' = net \ {p} /\ dups' = dups
     \/ dups < MaxDup /\ net' = net /\ dups' = dups + 1

\* DecoderWithFeedback::HandlePacketMessage, before it forwards the datagram.
InitFeedback ==
  fbSender' \in IF fbSender THEN {TRUE} ELSE FeedbackInit

EmptyAssembly(total) ==
  [size |-> total, slots |-> [i \in 0..(total - 1) |-> NoPacket],
   received |-> 0, complete |-> FALSE]

\* frame_assemblies_[frame_sequence], made for p if it is not there
AssemblyFor_IndexZeroStarts(p) ==
  IF p.frame \in DOMAIN assemblies /\ p.index # 0
    THEN assemblies[p.frame] ELSE EmptyAssembly(p.total)
AssemblyFor(p) ==
  IF p.frame \in DOMAIN assemblies THEN assemblies[p.frame] ELSE EmptyAssembly(p.total)

IsNew_Always(p) == TRUE
IsNew(p) == AssemblyFor(p).slots[p.index] = NoPacket

Stored(p) ==
  IF IsNew(p)
    THEN [AssemblyFor(p) EXCEPT !.slots[p.index] = p, !.received = @ + 1]
    ELSE AssemblyFor(p)

\* Every packet the header of p speaks of is there.
Completes_OneEarly(p) == Stored(p).received >= p.total - 1 /\ ~Stored(p).complete
Completes_Again(p) == Stored(p).received = p.total
Completes(p) == Stored(p).received = p.total /\ ~Stored(p).complete

\* frame_assemblies_ with the assembly a for frame f, kept for the frames in kept
AssembliesWith(f, a, kept) ==
  [g \in (DOMAIN assemblies \cup {f}) \cap kept |-> IF g = f THEN a ELSE assemblies[g]]

\* "it->first < frame_sequence - 10", on unsigned 32-bit numbers
Expired(g, f) == g < (f - Window) % SeqMod

\* The packet is new: store it and send feedback for it, if that is set up.
Acknowledge_Always(p) ==
  fbNet' = IF fbSender' THEN fbNet + 1 ELSE fbNet
Acknowledge(p) ==
  fbNet' = IF IsNew(p) /\ fbSender' THEN fbNet + 1 ELSE fbNet

\* The frame of p stays incomplete, or was complete already.
Collect(p) ==
  /\ ~Completes(p)
  /\ assemblies' = AssembliesWith(p.frame, Stored(p), Frames)
  /\ UNCHANGED <<lastCompleted, decoded>>

\* The frame of p is complete: decode it, and if it is the newest so far
\* forget the frames that have expired.
Complete(p) ==
  /\ Completes(p)
  /\ decoded' = Append(decoded, [frame |-> p.frame, data |-> Stored(p).slots])
  /\ LET done == [Stored(p) EXCEPT !.complete = TRUE]
     IN \/ /\ p.frame > lastCompleted
           /\ lastCompleted' = p.frame
           /\ assemblies' = AssembliesWith(p.frame, done,
                                           {g \in Frames : ~Expired(g, p.frame)})
        \/ /\ p.frame <= lastCompleted
           /\ lastCompleted' = lastCompleted
           /\ assemblies' = AssembliesWith(p.frame, done, Frames)

\* HandlePacketMessage for a packet of a sender.  Its index is below the total
\* in its own header, as SendData makes it, so the index check passes.
Receive(p) ==
  /\ ~fault
  /\ p.index < AssemblyFor(p).size
  /\ Deliver(p)
  /\ InitFeedback
  /\ Acknowledge(p)
  /\ delivered' = delivered \cup {p}
  /\ Collect(p) \/ Complete(p)
  /\ UNCHANGED <<senderVars, fault, fbCount>>

\* The check compares the index with the header of p only.  When the assembly
\* was made for a frame of fewer packets the access is out of range; no more
\* can be said of the receiver after it, so the model lets it do nothing more.
ReceiveOutOfRange(p) ==
  /\ ~fault
  /\ p.index >= AssemblyFor(p).size
  /\ Deliver(p)
  /\ InitFeedback
  /\ delivered' = delivered \cup {p}
  /\ fault' = TRUE
  /\ UNCHANGED <<senderVars, assemblies, lastCompleted, decoded, fbNet, fbCount>>

\* A datagram shorter than a header, or than the payload size its header gives.
ReceiveMalformed ==
  /\ ~fault
  /\ InitFeedback
  /\ UNCHANGED <<senderVars, netVars, decoderVars, fbNet, fbCount>>

(***************************************************************************)
(* The network's losses, and the sender's feedback thread.                 *)
(***************************************************************************)
Lose(p) ==
  /\ Lossy
  /\ net' = net \ {p}
  /\ UNCHANGED <<senderVars, dups, decoderVars, fbVars>>

\* FeedbackManage::HandleFeedback counts the datagram, or it was lost.  The feedback of
\* DecoderWithFeedback, two numbers and a timestamp, has at least the seven bytes it
\* asks for.
HandleFeedback ==
  /\ fbNet > 0
  /\ fbNet' = fbNet - 1
  /\ fbCount' = fbCount + 1
  /\ UNCHANGED <<senderVars, netVars, decoderVars, fbSender>>

LoseFeedback ==
  /\ Lossy
  /\ fbNet > 0
  /\ fbNet' = fbNet - 1
  /\ UNCHANGED <<senderVars, netVars, decoderVars, fbSender, fbCount>>

Receiver == \E p \in net : Receive(p) \/ ReceiveOutOfRange(p)

Next ==
  \/ Sender \/ Receiver \/ ReceiveMalformed
  \/ \E p \in net : Lose(p)
  \/ HandleFeedback \/ LoseFeedback

Spec == Init /\ [][Next]_vars

-----------------------------------------------------------------------------
(***************************************************************************)
(* Properties.                                                             *)
(***************************************************************************)
Data == UNION {[0..(n - 1) -> Packet \cup {NoPacket}] : n \in 1..MaxPackets}

IsAssembly(a) ==
  a \in [size : 1..MaxPackets, slots : [0..(a.size - 1) -> Packet \cup {NoPacket}],
         received : Nat, complete : BOOLEAN]

\* Types; an assembly has a slot for each packet, and is kept under a frame number.
TypeOK ==
  /\ session \in Sessions /\ nextFrame \in 0..(LastFrame + 1)
  /\ burst \in [frame : Frames, total : 0..MaxPackets, next : 0..MaxPackets]
  /\ begun \subseteq [session : Sessions, frame : Frames, total : 1..MaxPackets]
  /\ net \subseteq Packet /\ dups \in 0..MaxDup /\ delivered \subseteq Packet
  /\ DOMAIN assemblies \subseteq Frames
  /\ \A f \in DOMAIN assemblies : IsAssembly(assemblies[f])
  /\ lastCompleted \in Frames
  /\ decoded \in Seq([frame : Frames, data : Data])
  /\ fault \in BOOLEAN /\ fbSender \in BOOLEAN /\ fbNet \in Nat /\ fbCount \in Nat

Filled(a) == {i \in 0..(a.size - 1) : a.slots[i] # NoPacket}

\* received_packets, which decides when a frame is decoded, is the number of
\* slots that hold a payload, also with packets of two senders in one assembly;
\* a frame marked complete has been decoded.
AssemblyCounts ==
  \A f \in DOMAIN assemblies :
    /\ assemblies[f].received = Cardinality(Filled(assemblies[f]))
    /\ assemblies[f].complete => \E i \in 1..Len(decoded) : decoded[i].frame = f

\* d consists of all the packets of the frame b, in their order
MadeOf(d, b) ==
  /\ b.frame = d.frame
  /\ d.data = [i \in 0..(b.total - 1) |->
                 [session |-> b.session, frame |-> b.frame, index |-> i, total |-> b.total]]

IsWhole(d) == \E b \in begun : MadeOf(d, b)

\* "Handles packet assembly and decodes complete frames": vvdec is given nothing
\* but whole frames, however their packets were lost, doubled or mixed up.
DecodedIntact == \A i \in 1..Len(decoded) : IsWhole(decoded[i])

\* As long as the sender has not been started again, the missing comparison of a
\* packet's total with its assembly does no harm: every index is in range and
\* every decoded frame is whole.
SafeUntilRestart == session = 0 => ~fault /\ DecodedIntact

\* "Clean up old frame assemblies (keep only recent ones)": completing a frame discards
\* no assembly of the last Window frames.  (The comment within that code, "Remove
\* frames older than 1 frames", would have it discard all but the last two; what is
\* recent is taken from the 10 of the code.)
RecentKept ==
  [][\A f \in DOMAIN assemblies :
       f + Window >= lastCompleted' => f \in DOMAIN assemblies']_vars

PacketsOf(b) ==
  {[session |-> b.session, frame |-> b.frame, index |-> i, total |-> b.total] :
     i \in 0..(b.total - 1)}

\* A frame all of whose packets have arrived, in whatever order and between
\* whatever others, has been decoded, unless it is older than the window.
DeliveredDecoded ==
  \A b \in begun :
    PacketsOf(b) \subseteq delivered /\ b.frame + Window >= lastCompleted
      => \E i \in 1..Len(decoded) : decoded[i].frame = b.frame

\* Where the network keeps the order of the packets and doubles none, whatever it
\* loses, vvdec is given exactly the frames all of whose packets have arrived, each
\* once and by its number: also at the start, when assemblies are erased.
DecodedInTurn ==
  /\ \A i, j \in 1..Len(decoded) : i < j => decoded[i].frame < decoded[j].frame
  /\ \A b \in begun :
       PacketsOf(b) \subseteq delivered <=> \E i \in 1..Len(decoded) : decoded[i].frame = b.frame

\* No packet is acknowledged twice, though datagrams are delivered twice, as long
\* as no frame that has arrived is older than the window: what was erased is taken
\* for new.
AckedOnce ==
  (\A p \in delivered : p.frame + Window >= lastCompleted)
    => fbNet + fbCount <= Cardinality(delivered)

\* The abstract frame a decoded one stands for; 0 packets if it is not whole.
AsFrame(d) ==
  [frame |-> d.frame, total |-> IF IsWhole(d) THEN Cardinality(DOMAIN d.data) ELSE 0]

Delivery == INSTANCE FrameDelivery
              WITH Frame <- [frame : Frames, total : 1..MaxPackets],
                   offered <- {[frame |-> b.frame, total |-> b.total] : b \in begun},
                   shown <- [i \in 1..Len(decoded) |-> AsFrame(decoded[i])]

\* The path from the encoder to vvdec implements FrameDelivery.
DeliveryImplemented == Delivery!Spec
=============================================================================
