------------------------- MODULE SocketCodec_proofs -------------------------
(***************************************************************************)
(* Proofs about SocketCodec, for any number of senders, packets and starts *)
(* of the receiver: its feedback loop is a ReceiverLoop, so what is proved *)
(* of that holds here; what the objects' members say is what they hold, so *)
(* every way out gives it all back once; and the counts and addresses of   *)
(* feedback are right as far as the program keeps them apart.              *)
(***************************************************************************)
EXTENDS SocketCodec, ReceiverLoop_proofs

-----------------------------------------------------------------------------
(***************************************************************************)
(* SocketCodec implements ReceiverLoop.                                    *)
(***************************************************************************)
\* A step of the set-up, or of the destructors, touches the objects only.
LEMMA SetUpLeaves == SetUp => UNCHANGED <<vars, workers, restVars>>
  BY DEF SetUp

\* The traffic around the sender's feedback socket.
TrafficStep ==
  \/ SendPacket \/ StartReceiver \/ KillReceiver
  \/ \E s \in Neighbours \cup Remotes : OtherSends(s)
  \/ \E s \in Senders : HandleData(s) \/ LoseData(s) \/ LoseFeedback(s) \/ Double(s)

LEMMA TrafficLeaves == TrafficStep => UNCHANGED <<vars, objectVars, workers>>
<1>1. ASSUME NEW s, Sends(s) PROVE UNCHANGED <<vars, objectVars, workers>>
  BY <1>1 DEF Sends
<1>2. CASE SendPacket
  BY <1>1, <1>2 DEF SendPacket
<1>3. ASSUME NEW s, OtherSends(s) PROVE UNCHANGED <<vars, objectVars, workers>>
  BY <1>1, <1>3 DEF OtherSends
<1>4. ASSUME NEW s, HandleData(s) \/ LoseData(s) \/ LoseFeedback(s) \/ Double(s)
      PROVE  UNCHANGED <<vars, objectVars, workers>>
  BY <1>4 DEF HandleData, LoseData, LoseFeedback, Double
<1>5. CASE StartReceiver \/ KillReceiver
  BY <1>5 DEF StartReceiver, KillReceiver
<1>. QED
  BY <1>2, <1>3, <1>4, <1>5 DEF TrafficStep

\* A datagram comes to the feedback socket.
ArrivalStep == StrayArrives \/ \E s \in Senders : DeliverFeedback(s)

LEMMA Steps ==
  SysNext <=> SenderMain \/ WorkersEnd \/ FeedbackThread \/ TrafficStep \/ ArrivalStep
  BY Zenon DEF SysNext, Network, TrafficStep, ArrivalStep

LEMMA ArrivalLeaves ==
  ArrivalStep => /\ \E kind \in Kinds : Arrive(kind)
                 /\ UNCHANGED <<objectVars, workers, dataVars, doubled, receiverVars, acksAway,
                                mainPc>>
<1>1. CASE StrayArrives
  BY <1>1 DEF StrayArrives, Strays, Kinds, Arrive, restVars, ackVars
<1>2. ASSUME NEW s, DeliverFeedback(s)
      PROVE  /\ \E kind \in Kinds : Arrive(kind)
             /\ UNCHANGED <<objectVars, workers, dataVars, doubled, receiverVars, acksAway,
                            mainPc>>
  BY <1>2 DEF DeliverFeedback, Kinds, Arrive
<1>. QED
  BY <1>1, <1>2 DEF ArrivalStep

\* A step of the program is a step of the feedback loop or leaves it alone.
LEMMA StepImplements == [SysNext]_sysVars => [Next]_vars
<1>. SUFFICES ASSUME [SysNext]_sysVars PROVE [Next]_vars
  OBVIOUS
<1>1. CASE SenderMain
  BY <1>1, SetUpLeaves DEF SenderMain, InitializeFeedback, StartFeedbackThread, StartWorkers,
     JoinWorkers, StopFeedback, CleanUp, Next, Main
<1>2. CASE WorkersEnd \/ FeedbackThread
  BY <1>2 DEF WorkersEnd, FeedbackThread, Next
<1>3. CASE TrafficStep
  BY <1>3, TrafficLeaves
<1>4. CASE ArrivalStep
  BY <1>4, ArrivalLeaves DEF Next
<1>5. CASE UNCHANGED sysVars
  BY <1>5 DEF sysVars
<1>. QED
  BY <1>1, <1>2, <1>3, <1>4, <1>5, Steps

\* Main and the feedback thread keep to ReceiverLoop, whatever is around them.
THEOREM Implements == SysSpec => LoopImplemented
<1>1. SysInit => Init
  BY DEF SysInit
<1>. QED
  BY <1>1, StepImplements, PTL DEF SysSpec, LoopImplemented, Spec

\* So its invariant holds here.
LEMMA LoopHolds == SysSpec => []IInv
  BY Implements, Inductive, PTL DEF LoopImplemented

-----------------------------------------------------------------------------
(***************************************************************************)
(* The objects.                                                            *)
(***************************************************************************)
\* An object's members say what it holds, nothing has been given back twice, and what
\* the encoder holds its clean-up will find.
HoldingsInv ==
  /\ members \subseteq Resources \cup EncoderMembers /\ held = members \cap Resources
  /\ misgiven = FALSE
  /\ EncoderMembers \cap members # {} => "encoder_" \in members

\* What the first objects can have.
ByBitstream == {"cOutBitstream"}
ByCapture == ByBitstream \cup CaptureMembers
BySender == ByCapture \cup {"socket_fd_"}

\* Only objects on the stack hold anything.
StackInv ==
  /\ made \in 0..5
  /\ made = 0 => members = {}
  /\ made = 1 => members \subseteq ByBitstream
  /\ made = 2 => members \subseteq ByCapture
  /\ made = 3 => members \subseteq BySender

\* The program order of main, from the set-up to the clean-up.
SetupInv ==
  /\ setup \in SetupSteps /\ workers \in {"none", "running", "ended"}
  /\ setup = "bitstream" => made = 0 /\ members = {} /\ mainPc = "init"
  /\ setup = "capture" => made = 1 /\ members = ByBitstream /\ mainPc = "init"
  /\ setup = "sender" => made = 2 /\ members = ByCapture /\ mainPc = "init"
  /\ setup = "encoder" => made = 3 /\ members = BySender /\ mainPc = "init"
  /\ setup = "feedback" => /\ members = BySender \cup EncoderMembers /\ mainPc # "closed"
                           /\ made = IF mainPc = "init" THEN 4 ELSE 5
  /\ setup \in {"close sender", "close receiver"} => made = 5 /\ mainPc = "close"
  /\ setup = "close bitstream" => made = 5 /\ mainPc = "closed"
  /\ setup = "returning" => mainPc \in {"init", "closed"}
  /\ workers = "running" => mainPc = "working"
  /\ mainPc \in {"init", "start"} => workers = "none"

SenderInv == HoldingsInv /\ StackInv /\ SetupInv

\* Giving back what the members say leaves the other objects' members right.
LEMMA ReleaseInv ==
  ASSUME HoldingsInv, NEW mine, Releases(mine),
         mine \cap EncoderMembers = {} \/ EncoderMembers \subseteq mine
  PROVE  HoldingsInv' /\ members' = members \ mine
<1>1. members' = members \ mine /\ held' = members' \cap Resources
  BY DEF Releases, HoldingsInv
<1>2. misgiven' = FALSE
  BY DEF Releases, HoldingsInv
<1>3. EncoderMembers \cap members' # {} => "encoder_" \in members'
  BY <1>1 DEF HoldingsInv, EncoderMembers, EncoderResources
<1>. QED
  BY <1>1, <1>2, <1>3 DEF HoldingsInv

\* Encoder::Cleanup gives back all the encoder has, or finds that it has nothing.
LEMMA CleanupInv ==
  ASSUME HoldingsInv, EncoderCleanup
  PROVE  HoldingsInv' /\ members' = members \ EncoderMembers
<1>1. CASE {"encoder_", "initialized_"} \cap members = {}
  <2>1. members \cap EncoderMembers = {}
    BY <1>1 DEF HoldingsInv
  <2>2. UNCHANGED <<members, held, misgiven>>
    BY <1>1 DEF EncoderCleanup, holdings
  <2>. QED
    BY <2>1, <2>2 DEF HoldingsInv
<1>2. CASE {"encoder_", "initialized_"} \cap members # {}
  BY <1>2, ReleaseInv DEF EncoderCleanup
<1>. QED
  BY <1>1, <1>2

\* The set-up step by step.
LEMMA SetUpInv ==
  ASSUME SenderInv, UNCHANGED <<mainPc, workers>>,
         OpenBitstream \/ InitializeCapture \/ InitializeSender \/ InitializeEncoder
  PROVE  SenderInv'
<1>. USE DEF SenderInv, SetUpAt
<1>1. CASE OpenBitstream
  <2>. USE DEF Resources, EncoderMembers, EncoderResources, ByBitstream
  <2>1. CASE setup' = "capture" /\ Gets({"cOutBitstream"})
    <3>1. members' = ByBitstream /\ held' = ByBitstream /\ misgiven' = FALSE
      BY <1>1, <2>1 DEF OpenBitstream, Gets, HoldingsInv, SetupInv
    <3>. QED
      BY <1>1, <2>1, <3>1 DEF OpenBitstream, HoldingsInv, StackInv, SetupInv, SetupSteps
  <2>2. CASE setup' = "returning" /\ UNCHANGED holdings
    BY <1>1, <2>2 DEF OpenBitstream, holdings, HoldingsInv, StackInv, SetupInv, SetupSteps
  <2>. QED
    BY <1>1, <2>1, <2>2 DEF OpenBitstream
<1>2. CASE InitializeCapture
  <2>. USE DEF Resources, EncoderMembers, EncoderResources, ByBitstream, ByCapture, CaptureMembers
  <2>1. CASE setup' = "sender" /\ Gets(CaptureMembers)
    <3>1. members' = ByCapture /\ held' = ByCapture /\ misgiven' = FALSE
      BY <1>2, <2>1 DEF InitializeCapture, Gets, HoldingsInv, SetupInv
    <3>. QED
      BY <1>2, <2>1, <3>1 DEF InitializeCapture, HoldingsInv, StackInv, SetupInv, SetupSteps
  <2>2. CASE setup' = "returning" /\ UNCHANGED holdings
    BY <1>2, <2>2 DEF InitializeCapture, holdings, HoldingsInv, StackInv, SetupInv, SetupSteps
  <2>. QED
    BY <1>2, <2>1, <2>2 DEF InitializeCapture
<1>3. CASE InitializeSender
  <2>. USE DEF Resources, EncoderMembers, EncoderResources, ByBitstream, ByCapture,
               CaptureMembers, BySender
  <2>1. CASE setup' = "encoder" /\ Gets({"socket_fd_"})
    <3>1. members' = BySender /\ held' = BySender /\ misgiven' = FALSE
      BY <1>3, <2>1 DEF InitializeSender, Gets, HoldingsInv, SetupInv
    <3>. QED
      BY <1>3, <2>1, <3>1 DEF InitializeSender, HoldingsInv, StackInv, SetupInv, SetupSteps
  <2>2. CASE setup' = "returning"
    <3>1. members' = members /\ held' = held /\ misgiven' = misgiven
      BY <1>3, <2>2 DEF InitializeSender, holdings, FailsAfter, SetupInv
    <3>. QED
      BY <1>3, <2>2, <3>1 DEF InitializeSender, HoldingsInv, StackInv, SetupInv, SetupSteps
  <2>. QED
    BY <1>3, <2>1, <2>2 DEF InitializeSender
<1>4. CASE InitializeEncoder
  <2>0. setup = "encoder" /\ made' = 4 /\ members = BySender /\ mainPc = "init"
    BY <1>4 DEF InitializeEncoder, SetupInv
  <2>1. CASE setup' = "feedback" /\ Gets(EncoderMembers)
    <3>1. members' = BySender \cup EncoderMembers /\ held' = members' \cap Resources
          /\ misgiven' = FALSE
      BY <2>0, <2>1 DEF Gets, HoldingsInv
    <3>2. HoldingsInv'
      BY <3>1 DEF HoldingsInv, Resources, EncoderMembers, EncoderResources, ByBitstream,
         ByCapture, CaptureMembers, BySender
    <3>. QED
      BY <2>0, <2>1, <3>1, <3>2 DEF StackInv, SetupInv, SetupSteps
  <2>2. CASE setup' = "returning"
    <3>1. "encoder_" \notin BySender
      BY DEF ByBitstream, ByCapture, CaptureMembers, BySender
    <3>2. members' = members /\ held' = held /\ misgiven' = misgiven
      BY <1>4, <2>0, <2>2, <3>1 DEF InitializeEncoder, holdings, OpenFails, FailsAfter
    <3>. QED
      BY <2>0, <2>2, <3>2 DEF HoldingsInv, StackInv, SetupInv, SetupSteps
  <2>. QED
    BY <1>4, <2>1, <2>2 DEF InitializeEncoder
<1>. QED
  BY <1>1, <1>2, <1>3, <1>4

\* The destructors, whatever the objects still have.
LEMMA DestroyInv ==
  ASSUME SenderInv, UNCHANGED <<mainPc, workers>>, Destroy
  PROVE  SenderInv'
<1>. USE DEF SenderInv
<1>0. made > 0 /\ made' = made - 1 /\ setup = "returning" /\ setup' = setup /\ made \in 0..5
  BY DEF Destroy, StackInv
<1>1. SetupInv'
  BY <1>0 DEF SetupInv
<1>2. CASE made = 5
  <2>1. UNCHANGED <<members, held, misgiven>>
    BY <1>2 DEF Destroy, holdings
  <2>. QED
    BY <1>0, <1>1, <1>2, <2>1 DEF HoldingsInv, StackInv
<1>3. CASE made = 4
  <2>1. HoldingsInv' /\ members' = members \ EncoderMembers
    BY <1>3, CleanupInv DEF Destroy
  <2>2. members' \subseteq BySender
    BY <2>1 DEF HoldingsInv, Resources, EncoderMembers, EncoderResources, BySender, ByCapture,
       ByBitstream, CaptureMembers
  <2>. QED
    BY <1>0, <1>1, <1>3, <2>1, <2>2 DEF StackInv
<1>4. CASE made = 3
  <2>1. Releases({"socket_fd_"}) /\ {"socket_fd_"} \cap EncoderMembers = {}
    BY <1>4 DEF Destroy, SenderClose, EncoderMembers, EncoderResources
  <2>2. HoldingsInv' /\ members' = members \ {"socket_fd_"}
    BY <2>1, ReleaseInv
  <2>. QED
    BY <1>0, <1>1, <1>4, <2>2 DEF StackInv, BySender
<1>5. CASE made = 2
  <2>1. Releases(CaptureMembers) /\ CaptureMembers \cap EncoderMembers = {}
    BY <1>5 DEF Destroy, CaptureDestroyed, CaptureMembers, EncoderMembers, EncoderResources
  <2>2. HoldingsInv' /\ members' = members \ CaptureMembers
    BY <2>1, ReleaseInv
  <2>. QED
    BY <1>0, <1>1, <1>5, <2>2 DEF StackInv, ByCapture
<1>6. CASE made = 1
  <2>1. Releases({"cOutBitstream"}) /\ {"cOutBitstream"} \cap EncoderMembers = {}
    BY <1>6 DEF Destroy, BitstreamClose, EncoderMembers, EncoderResources
  <2>2. HoldingsInv' /\ members' = members \ {"cOutBitstream"}
    BY <2>1, ReleaseInv
  <2>. QED
    BY <1>0, <1>1, <1>6, <2>2 DEF StackInv, ByBitstream
<1>. QED
  BY <1>0, <1>2, <1>3, <1>4, <1>5, <1>6

\* The clean-up object by object, before any destructor.
LEMMA CleanUpInv ==
  ASSUME SenderInv, CleanUp
  PROVE  SenderInv'
<1>. USE DEF SenderInv, CleanUpAt
<1>0. workers' = workers
  BY DEF CleanUp
<1>1. CASE mainPc = "close" /\ CleanUpEncoder /\ UNCHANGED vars
  <2>1. EncoderCleanup /\ mainPc = "close" /\ mainPc' = mainPc /\ made' = made
        /\ setup = "feedback" /\ setup' = "close sender"
    BY <1>1 DEF CleanUpEncoder, vars
  <2>2. HoldingsInv'
    BY <2>1, CleanupInv
  <2>3. StackInv'
    <3>1. made' = 5
      BY <2>1 DEF SetupInv
    <3>. QED
      BY <3>1 DEF StackInv
  <2>4. SetupInv'
    BY <1>0, <2>1 DEF SetupInv, SetupSteps
  <2>. QED
    BY <2>2, <2>3, <2>4
<1>2. CASE CloseSender /\ UNCHANGED vars
  <2>1. Releases({"socket_fd_"}) /\ {"socket_fd_"} \cap EncoderMembers = {}
    BY <1>2 DEF CloseSender, SenderClose, EncoderMembers, EncoderResources
  <2>2. mainPc' = mainPc /\ made' = made /\ setup = "close sender" /\ setup' = "close receiver"
    BY <1>2 DEF CloseSender, vars
  <2>3. HoldingsInv'
    BY <2>1, ReleaseInv
  <2>4. StackInv'
    <3>1. made' = 5
      BY <2>2 DEF SetupInv
    <3>. QED
      BY <3>1 DEF StackInv
  <2>5. SetupInv'
    BY <1>0, <2>2 DEF SetupInv, SetupSteps
  <2>. QED
    BY <2>3, <2>4, <2>5
<1>3. CASE CloseFeedback /\ CloseReceiver
  <2>1. /\ UNCHANGED <<members, held, misgiven, made>> /\ setup' = "close bitstream"
        /\ setup = "close receiver" /\ mainPc = "close" /\ mainPc' = "closed"
    BY <1>3 DEF CloseFeedback, CloseReceiver, MainAt, holdings
  <2>. QED
    BY <1>0, <2>1 DEF HoldingsInv, StackInv, SetupInv, SetupSteps
<1>4. CASE CloseBitstream /\ UNCHANGED vars
  <2>1. Releases({"cOutBitstream"}) /\ {"cOutBitstream"} \cap EncoderMembers = {}
    BY <1>4 DEF CloseBitstream, BitstreamClose, EncoderMembers, EncoderResources
  <2>2. mainPc' = mainPc /\ made' = made /\ setup = "close bitstream" /\ setup' = "returning"
    BY <1>4 DEF CloseBitstream, vars
  <2>3. HoldingsInv'
    BY <2>1, ReleaseInv
  <2>4. StackInv'
    <3>1. made' = 5
      BY <2>2 DEF SetupInv
    <3>. QED
      BY <3>1 DEF StackInv
  <2>5. SetupInv'
    BY <1>0, <2>2 DEF SetupInv, SetupSteps
  <2>. QED
    BY <2>3, <2>4, <2>5
<1>. QED
  BY <1>1, <1>2, <1>3, <1>4 DEF CleanUp

\* The sender's own steps.
LEMMA SenderStep ==
  ASSUME SenderInv, SenderMain \/ WorkersEnd \/ FeedbackThread
  PROVE  SenderInv'
<1>. USE DEF SenderInv
<1>1. CASE SetUp
  <2>1. UNCHANGED <<mainPc, workers>>
    BY <1>1, SetUpLeaves DEF vars
  <2>. QED
    BY <1>1, <2>1, SetUpInv, DestroyInv DEF SetUp, SetUpOrReturn
<1>2. CASE CleanUp
  BY <1>2, CleanUpInv
<1>3. CASE InitializeFeedback
  <2>1. /\ UNCHANGED <<members, held, misgiven, workers>> /\ made' = 5 /\ setup = "feedback"
        /\ mainPc = "init"
        /\ \/ mainPc' = "start" /\ setup' = "feedback"
           \/ mainPc' = "closed" /\ setup' = "returning"
    BY <1>3 DEF InitializeFeedback, InitializeReceiver, InitializeFails, MainAt, SetUpAt,
       holdings
  <2>2. HoldingsInv' /\ StackInv'
    BY <2>1 DEF HoldingsInv, StackInv
  <2>3. SetupInv'
    BY <2>1 DEF SetupInv, SetupSteps
  <2>. QED
    BY <2>2, <2>3
<1>4. CASE StartFeedbackThread \/ JoinWorkers \/ StopFeedback
  <2>1. /\ UNCHANGED <<setup, made, members, held, misgiven, workers>>
        /\ mainPc \in {"start", "working", "stop", "shutdown", "join"}
        /\ mainPc' \in {"working", "stop", "shutdown", "join", "close"}
        /\ mainPc = "working" => workers = "ended"
    BY <1>4 DEF StartFeedbackThread, JoinWorkers, WorkersDone, StopFeedback, StartThread,
       WorkersJoined, RequestStop, ShutdownSocket, JoinReceiver, MainAt, objectVars, holdings
  <2>2. setup = "feedback"
    BY <2>1 DEF SetupInv, SetupSteps
  <2>3. SetupInv'
    BY <2>1, <2>2 DEF SetupInv
  <2>. QED
    BY <2>1, <2>3 DEF HoldingsInv, StackInv
<1>5. CASE StartWorkers \/ WorkersEnd
  <2>1. /\ UNCHANGED <<setup, made, members, held, misgiven, mainPc>> /\ mainPc = "working"
        /\ workers' \in {"running", "ended"}
    BY <1>5 DEF StartWorkers, WorkersEnd, vars, objectVars, holdings, SetupInv
  <2>. QED
    BY <2>1 DEF HoldingsInv, StackInv, SetupInv
<1>6. CASE FeedbackThread
  <2>1. UNCHANGED <<setup, made, members, held, misgiven, workers, mainPc>>
    BY <1>6 DEF FeedbackThread, Receiver, RunBegins, LoopTest, ReceivePacket, ReceiveNothing,
       HandleFeedback, ReceiveFails, objectVars, holdings
  <2>. QED
    BY <2>1 DEF HoldingsInv, StackInv, SetupInv
<1>. QED
  BY <1>1, <1>2, <1>3, <1>4, <1>5, <1>6 DEF SenderMain

-----------------------------------------------------------------------------
(***************************************************************************)
(* The traffic.                                                            *)
(***************************************************************************)
TrafficTypeOK ==
  /\ sent \in [Senders -> Nat] /\ \A s \in Senders : sent[s] <= MostSent(s)
  /\ dataNet \in [Senders -> Nat] /\ doubled \in 0..MaxDoubled
  /\ starts \in 0..MaxStarts /\ listening \in BOOLEAN
  /\ feedbackTo \in Senders \cup {None} /\ heard \subseteq Senders
  /\ acksHere \in [Senders -> Nat] /\ acksArrived \in [Senders -> Nat] /\ acksAway \in Nat

\* Each packet, and each copy the network has made, is in flight, acknowledged by a
\* datagram that is in flight or has arrived, or gone.
CountsInv ==
  \A s \in Senders : (dataNet[s] + acksHere[s]) + acksArrived[s] <= sent[s] + doubled

\* The address for feedback is that of a sender this start of the receiver has heard.
AddressInv == feedbackTo \in heard \cup {None}

TrafficInv == TrafficTypeOK /\ CountsInv /\ AddressInv

\* A step that adds to one sender's numbers leaves the others' alone.
LEMMA OneMoreTypes ==
  ASSUME NEW count \in [Senders -> Nat], NEW s \in Senders
  PROVE  /\ OneMore(count, s) \in [Senders -> Nat]
         /\ OneMore(count, s)[s] = count[s] + 1
         /\ \A t \in Senders \ {s} : OneMore(count, s)[t] = count[t]
  BY DEF OneMore

LEMMA OneLessTypes ==
  ASSUME NEW count \in [Senders -> Nat], NEW s \in Senders, count[s] > 0
  PROVE  /\ OneLess(count, s) \in [Senders -> Nat]
         /\ OneLess(count, s)[s] = count[s] - 1
         /\ \A t \in Senders \ {s} : OneLess(count, s)[t] = count[t]
  BY DEF OneLess

\* A packet is sent.
LEMMA SendsInv ==
  ASSUME TrafficInv, NEW s \in Senders, Sends(s)
  PROVE  TrafficInv'
<1>. USE DEF TrafficInv
<1>1. /\ sent' = OneMore(sent, s) /\ dataNet' = OneMore(dataNet, s) /\ sent[s] < MostSent(s)
      /\ UNCHANGED <<doubled, starts, listening, feedbackTo, heard, acksHere, acksArrived,
                     acksAway>>
      /\ sent \in [Senders -> Nat] /\ dataNet \in [Senders -> Nat]
      /\ acksHere \in [Senders -> Nat] /\ acksArrived \in [Senders -> Nat] /\ doubled \in Nat
  BY SocketCodecAssumption DEF Sends, receiverVars, ackVars, TrafficTypeOK
<1>2. /\ sent' \in [Senders -> Nat] /\ sent'[s] = sent[s] + 1
      /\ \A t \in Senders \ {s} : sent'[t] = sent[t]
  BY <1>1, OneMoreTypes
<1>3. /\ dataNet' \in [Senders -> Nat] /\ dataNet'[s] = dataNet[s] + 1
      /\ \A t \in Senders \ {s} : dataNet'[t] = dataNet[t]
  BY <1>1, OneMoreTypes
<1>4. \A t \in Senders : sent'[t] <= MostSent(t)
  <2>1. MostSent(s) \in Nat
    BY SocketCodecAssumption DEF MostSent
  <2>. QED
    BY <1>1, <1>2, <2>1 DEF TrafficTypeOK
<1>5. TrafficTypeOK' /\ AddressInv'
  BY <1>1, <1>2, <1>3, <1>4 DEF TrafficTypeOK, AddressInv, MostSent
<1>6. CountsInv'
  BY <1>1, <1>2, <1>3 DEF CountsInv
<1>. QED
  BY <1>5, <1>6

\* The receiver is started or killed.
LEMMA StartKillInv ==
  ASSUME TrafficInv, StartReceiver \/ KillReceiver
  PROVE  TrafficInv'
<1>1. /\ UNCHANGED <<sent, dataNet, doubled, acksHere, acksArrived, acksAway>>
      /\ listening' \in BOOLEAN
      /\ \/ UNCHANGED <<feedbackTo, heard>>
         \/ feedbackTo' = None /\ heard' = {}
  BY DEF StartReceiver, KillReceiver, dataVars, ackVars
<1>2. starts' \in 0..MaxStarts
  BY SocketCodecAssumption DEF TrafficInv, TrafficTypeOK, StartReceiver, KillReceiver
<1>. QED
  BY <1>1, <1>2 DEF TrafficInv, TrafficTypeOK, CountsInv, AddressInv

\* A packet is handled.
LEMMA HandleInv ==
  ASSUME TrafficInv, NEW s \in Senders, HandleData(s)
  PROVE  TrafficInv'
<1>. USE DEF TrafficInv
<1>1. /\ dataNet' = OneLess(dataNet, s) /\ dataNet[s] > 0
      /\ UNCHANGED <<sent, doubled, starts, listening, acksArrived>>
      /\ sent \in [Senders -> Nat] /\ dataNet \in [Senders -> Nat]
      /\ acksHere \in [Senders -> Nat] /\ acksArrived \in [Senders -> Nat] /\ doubled \in Nat
  BY SocketCodecAssumption DEF HandleData, TrafficTypeOK
<1>2. /\ dataNet' \in [Senders -> Nat] /\ dataNet'[s] = dataNet[s] - 1
      /\ \A t \in Senders \ {s} : dataNet'[t] = dataNet[t]
  BY <1>1, OneLessTypes
<1>3. /\ acksHere' \in [Senders -> Nat] /\ acksHere'[s] <= acksHere[s] + 1
      /\ \A t \in Senders \ {s} : acksHere'[t] = acksHere[t]
  <2>1. acksHere' = acksHere \/ acksHere' = OneMore(acksHere, s)
    BY DEF HandleData, SendsFeedback, Acknowledged
  <2>. QED
    BY <1>1, <2>1, OneMoreTypes
<1>4. acksAway' \in Nat
  BY DEF HandleData, SendsFeedback, TrafficTypeOK
<1>5. heard' \subseteq Senders /\ feedbackTo' \in heard' \cup {None}
  BY DEF HandleData, FeedbackChoices, TrafficTypeOK, AddressInv
<1>6. TrafficTypeOK' /\ AddressInv'
  BY <1>1, <1>2, <1>3, <1>4, <1>5 DEF TrafficTypeOK, AddressInv
<1>7. CountsInv'
  BY <1>1, <1>2, <1>3 DEF CountsInv
<1>. QED
  BY <1>6, <1>7

\* The network loses a packet or feedback.
LEMMA LoseInv ==
  ASSUME TrafficInv, NEW s \in Senders, LoseData(s) \/ LoseFeedback(s)
  PROVE  TrafficInv'
<1>. USE DEF TrafficInv
<1>1. /\ UNCHANGED <<sent, doubled, starts, listening, feedbackTo, heard, acksArrived, acksAway>>
      /\ \/ dataNet[s] > 0 /\ dataNet' = OneLess(dataNet, s) /\ acksHere' = acksHere
         \/ acksHere[s] > 0 /\ acksHere' = OneLess(acksHere, s) /\ dataNet' = dataNet
      /\ sent \in [Senders -> Nat] /\ dataNet \in [Senders -> Nat]
      /\ acksHere \in [Senders -> Nat] /\ acksArrived \in [Senders -> Nat] /\ doubled \in Nat
  BY SocketCodecAssumption
     DEF LoseData, LoseFeedback, TrafficTypeOK, dataVars, receiverVars, ackVars
<1>2. /\ dataNet' \in [Senders -> Nat] /\ acksHere' \in [Senders -> Nat]
      /\ \A t \in Senders : dataNet'[t] <= dataNet[t] /\ acksHere'[t] <= acksHere[t]
  BY <1>1, OneLessTypes
<1>3. TrafficTypeOK' /\ AddressInv'
  BY <1>1, <1>2 DEF TrafficTypeOK, AddressInv
<1>4. CountsInv'
  BY <1>1, <1>2 DEF CountsInv
<1>. QED
  BY <1>3, <1>4

\* The network doubles a packet or feedback.
LEMMA DoubleInv ==
  ASSUME TrafficInv, NEW s \in Senders, Double(s)
  PROVE  TrafficInv'
<1>. USE DEF TrafficInv
<1>1. /\ UNCHANGED <<sent, starts, listening, feedbackTo, heard, acksArrived, acksAway>>
      /\ doubled' = doubled + 1 /\ doubled' \in 0..MaxDoubled
      /\ \/ dataNet' = OneMore(dataNet, s) /\ acksHere' = acksHere
         \/ acksHere' = OneMore(acksHere, s) /\ dataNet' = dataNet
      /\ sent \in [Senders -> Nat] /\ dataNet \in [Senders -> Nat]
      /\ acksHere \in [Senders -> Nat] /\ acksArrived \in [Senders -> Nat] /\ doubled \in Nat
  BY SocketCodecAssumption DEF Double, TrafficTypeOK, receiverVars
<1>2. /\ dataNet' \in [Senders -> Nat] /\ acksHere' \in [Senders -> Nat]
      /\ \A t \in Senders : dataNet'[t] + acksHere'[t] <= (dataNet[t] + acksHere[t]) + 1
  <2>1. CASE dataNet' = OneMore(dataNet, s) /\ acksHere' = acksHere
    <3>1. /\ dataNet' \in [Senders -> Nat] /\ dataNet'[s] = dataNet[s] + 1
          /\ \A t \in Senders \ {s} : dataNet'[t] = dataNet[t]
      BY <1>1, <2>1, OneMoreTypes
    <3>. QED
      BY <1>1, <2>1, <3>1
  <2>2. CASE acksHere' = OneMore(acksHere, s) /\ dataNet' = dataNet
    <3>1. /\ acksHere' \in [Senders -> Nat] /\ acksHere'[s] = acksHere[s] + 1
          /\ \A t \in Senders \ {s} : acksHere'[t] = acksHere[t]
      BY <1>1, <2>2, OneMoreTypes
    <3>. QED
      BY <1>1, <2>2, <3>1
  <2>. QED
    BY <1>1, <2>1, <2>2
<1>3. TrafficTypeOK' /\ AddressInv'
  BY <1>1, <1>2 DEF TrafficTypeOK, AddressInv
<1>4. CountsInv'
  BY <1>1, <1>2 DEF CountsInv
<1>. QED
  BY <1>3, <1>4

\* A datagram comes to the feedback socket.
LEMMA DeliverInv ==
  ASSUME TrafficInv, NEW s \in Senders, DeliverFeedback(s)
  PROVE  TrafficInv'
<1>. USE DEF TrafficInv
<1>1. /\ UNCHANGED <<sent, dataNet, doubled, starts, listening, feedbackTo, heard, acksAway>>
      /\ acksHere[s] > 0 /\ acksHere' = OneLess(acksHere, s)
      /\ acksArrived' = OneMore(acksArrived, s)
      /\ sent \in [Senders -> Nat] /\ dataNet \in [Senders -> Nat]
      /\ acksHere \in [Senders -> Nat] /\ acksArrived \in [Senders -> Nat] /\ doubled \in Nat
  BY SocketCodecAssumption DEF DeliverFeedback, TrafficTypeOK, dataVars, receiverVars
<1>2. /\ acksHere' \in [Senders -> Nat] /\ acksHere'[s] = acksHere[s] - 1
      /\ \A t \in Senders \ {s} : acksHere'[t] = acksHere[t]
  BY <1>1, OneLessTypes
<1>3. /\ acksArrived' \in [Senders -> Nat] /\ acksArrived'[s] = acksArrived[s] + 1
      /\ \A t \in Senders \ {s} : acksArrived'[t] = acksArrived[t]
  BY <1>1, OneMoreTypes
<1>4. TrafficTypeOK' /\ AddressInv'
  BY <1>1, <1>2, <1>3 DEF TrafficTypeOK, AddressInv
<1>5. CountsInv'
  BY <1>1, <1>2, <1>3 DEF CountsInv
<1>. QED
  BY <1>4, <1>5

-----------------------------------------------------------------------------
(***************************************************************************)
(* The invariant.                                                          *)
(***************************************************************************)
SysIInv == SenderInv /\ TrafficInv

\* The programs at their start.
LEMMA SysInitInv == SysInit => SysIInv
<1>. SUFFICES ASSUME SysInit PROVE SysIInv
  OBVIOUS
<1>1. SenderInv
  BY DEF SysInit, Init, ObjectsInit, SenderInv, HoldingsInv, StackInv, SetupInv, SetupSteps
<1>2. NoneOf \in [Senders -> Nat] /\ \A s \in Senders : NoneOf[s] = 0
  BY DEF NoneOf
<1>3. TrafficTypeOK
  <2>1. \A s \in Senders : NoneOf[s] <= MostSent(s)
    BY <1>2, SocketCodecAssumption DEF MostSent
  <2>2. 0 \in 0..MaxDoubled /\ 0 \in 0..MaxStarts
    BY SocketCodecAssumption
  <2>. QED
    BY <1>2, <2>1, <2>2 DEF SysInit, TrafficTypeOK
<1>4. CountsInv /\ AddressInv
  BY <1>2 DEF SysInit, CountsInv, AddressInv
<1>. QED
  BY <1>1, <1>3, <1>4 DEF SysIInv, TrafficInv

\* Sender and traffic do not touch each other's part.
LEMMA SenderUnchanged ==
  SenderInv /\ UNCHANGED <<objectVars, workers, mainPc>> => SenderInv'
  BY DEF objectVars, holdings, SenderInv, HoldingsInv, StackInv, SetupInv

LEMMA TrafficUnchanged == TrafficInv /\ UNCHANGED restVars => TrafficInv'
  BY DEF restVars, dataVars, receiverVars, ackVars, TrafficInv, TrafficTypeOK, CountsInv,
     AddressInv

LEMMA SenderLeaves == SenderMain \/ WorkersEnd \/ FeedbackThread => UNCHANGED restVars
  BY SetUpLeaves DEF SenderMain, InitializeFeedback, StartFeedbackThread, StartWorkers,
     JoinWorkers, StopFeedback, CleanUp, WorkersEnd, FeedbackThread

\* Every step keeps the invariant.
THEOREM SysInductive == SysSpec => [](IInv /\ SysIInv)
<1>1. SysIInv /\ [SysNext]_sysVars => SysIInv'
  <2>. SUFFICES ASSUME SysIInv, [SysNext]_sysVars
                PROVE  SysIInv'
    OBVIOUS
  <2>. USE DEF SysIInv
  <2>1. CASE SenderMain \/ WorkersEnd \/ FeedbackThread
    BY <2>1, SenderStep, SenderLeaves, TrafficUnchanged
  <2>2. CASE TrafficStep
    <3>1. SenderInv'
      BY <2>2, TrafficLeaves, SenderUnchanged DEF vars
    <3>2. CASE SendPacket
      BY <3>1, <3>2, SendsInv DEF SendPacket, Senders
    <3>3. CASE StartReceiver \/ KillReceiver
      BY <3>1, <3>3, StartKillInv
    <3>4. ASSUME NEW s \in Neighbours \cup Remotes, OtherSends(s) PROVE SysIInv'
      BY <3>1, <3>4, SendsInv DEF OtherSends, Senders
    <3>5. ASSUME NEW s \in Senders,
                 HandleData(s) \/ LoseData(s) \/ LoseFeedback(s) \/ Double(s)
          PROVE  SysIInv'
      BY <3>1, <3>5, HandleInv, LoseInv, DoubleInv
    <3>. QED
      BY <2>2, <3>2, <3>3, <3>4, <3>5 DEF TrafficStep
  <2>3. CASE ArrivalStep
    <3>1. SenderInv'
      BY <2>3, ArrivalLeaves, SenderUnchanged
    <3>2. CASE StrayArrives
      BY <3>1, <3>2, TrafficUnchanged DEF StrayArrives
    <3>3. ASSUME NEW s \in Senders, DeliverFeedback(s) PROVE SysIInv'
      BY <3>1, <3>3, DeliverInv
    <3>. QED
      BY <2>3, <3>2, <3>3 DEF ArrivalStep
  <2>4. CASE UNCHANGED sysVars
    BY <2>4, SenderUnchanged, TrafficUnchanged DEF sysVars, vars
  <2>. QED
    BY <2>1, <2>2, <2>3, <2>4, Steps
<1>. QED
  BY <1>1, SysInitInv, LoopHolds, PTL DEF SysSpec

-----------------------------------------------------------------------------
(***************************************************************************)
(* What follows.                                                           *)
(***************************************************************************)
\* Every variable of both programs keeps its type.
THEOREM SysTypeCorrect == SysSpec => []SysTypeOK
<1>1. IInv /\ SysIInv => SysTypeOK
  BY DEF IInv, SysIInv, SenderInv, HoldingsInv, StackInv, SetupInv, TrafficInv, TrafficTypeOK,
     SysTypeOK
<1>. QED
  BY <1>1, SysInductive, PTL

\* Every way out of sender_create_and_run, through the failures of the set-up, the
\* clean-up and the destructors, gives back all that was got and nothing twice, and
\* the threads that run have all they use.
THEOREM ExitClean == SysSpec => []CleanExit
<1>1. IInv /\ SysIInv => CleanExit
  <2>. SUFFICES ASSUME IInv, SysIInv PROVE CleanExit
    OBVIOUS
  <2>. USE DEF SysIInv, SenderInv
  <2>1. Returned => held = {}
    BY DEF Returned, StackInv, HoldingsInv
  <2>2. Returned => mainPc \in {"init", "closed"}
    BY DEF Returned, SetupInv
  <2>3. Returned => socket # "open" /\ rcvPc \in {"none", "done"}
    BY <2>2 DEF IInv, Phases, Running, TypeOK, RcvSteps
  <2>4. Returned => workers # "running"
    BY <2>2 DEF SetupInv
  <2>5. workers = "running" => held = Resources
    <3>1. workers = "running" => setup = "feedback"
      BY DEF SetupInv, SetupSteps
    <3>2. (BySender \cup EncoderMembers) \cap Resources = Resources
      BY DEF BySender, ByCapture, ByBitstream, EncoderMembers, EncoderResources, Resources,
         CaptureMembers
    <3>. QED
      BY <3>1, <3>2 DEF SetupInv, HoldingsInv
  <2>6. ~misgiven
    BY DEF HoldingsInv
  <2>. QED
    BY <2>1, <2>3, <2>4, <2>5, <2>6 DEF CleanExit
<1>. QED
  BY <1>1, SysInductive, PTL

\* Over any loss, any doubling and any number of starts and senders, the feedback that
\* comes for the packets of a sender is never more than those packets and the copies
\* the network made.
THEOREM FeedbackBounded == SysSpec => []FeedbackForPackets
<1>1. SysIInv => FeedbackForPackets
  <2>. SUFFICES ASSUME SysIInv, NEW s \in Senders
                PROVE  acksArrived[s] + acksHere[s] <= sent[s] + doubled
    BY DEF FeedbackForPackets
  <2>1. /\ dataNet[s] \in Nat /\ acksHere[s] \in Nat /\ acksArrived[s] \in Nat
        /\ sent[s] \in Nat /\ doubled \in Nat
    BY SocketCodecAssumption DEF SysIInv, TrafficInv, TrafficTypeOK
  <2>2. (dataNet[s] + acksHere[s]) + acksArrived[s] <= sent[s] + doubled
    BY DEF SysIInv, TrafficInv, CountsInv
  <2>. QED
    BY <2>1, <2>2
<1>. QED
  BY <1>1, SysInductive, PTL

\* No feedback goes to a host that only an earlier start of the receiver has heard.
THEOREM FeedbackLocal == SysSpec => FeedbackStaysHere
<1>1. SysIInv /\ [SysNext]_sysVars
      => [heard' \subseteq OnThisHost => acksAway' = acksAway]_sysVars
  <2>. SUFFICES ASSUME SysIInv, SysNext, heard' \subseteq OnThisHost
                PROVE  acksAway' = acksAway
    OBVIOUS
  <2>1. ASSUME NEW s \in Senders, HandleData(s) PROVE acksAway' = acksAway
    <3>1. feedbackTo' \in heard' \cup {None}
      BY <2>1 DEF HandleData, FeedbackChoices, SysIInv, TrafficInv, AddressInv
    <3>2. feedbackTo' \notin Remotes
      BY <3>1, SocketCodecAssumption DEF OnThisHost
    <3>. QED
      BY <2>1, <3>2 DEF HandleData, SendsFeedback, ackVars
  <2>2. CASE SenderMain \/ WorkersEnd \/ FeedbackThread
    BY <2>2, SenderLeaves DEF restVars, ackVars
  <2>3. CASE ArrivalStep
    BY <2>3, ArrivalLeaves
  <2>4. CASE TrafficStep
    BY <2>1, <2>4 DEF TrafficStep, SendPacket, Sends, OtherSends, StartReceiver, KillReceiver,
       LoseData, LoseFeedback, Double, ackVars
  <2>. QED
    BY <2>2, <2>3, <2>4, Steps
<1>. QED
  BY <1>1, SysInductive, PTL DEF SysSpec, FeedbackStaysHere
=============================================================================
