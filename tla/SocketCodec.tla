----------------------------- MODULE SocketCodec -----------------------------
(***************************************************************************)
(* The two programs of main(): a sender process from its set-up to its     *)
(* return, with the objects of SenderObjects and the feedback loop of      *)
(* ReceiverLoop; the receiver process, which may be killed and started     *)
(* again; and other senders that use the same receiver before or after     *)
(* this one, on this host or elsewhere.  The network may lose, delay and   *)
(* double what is sent, in both directions.                                *)
(*                                                                         *)
(* The receiver takes the address for feedback from the first datagram it  *)
(* handles and keeps it.  The port is dest_port + 1 on every host, so two  *)
(* senders of one host cannot run at the same time, and feedback for       *)
(* either reaches whichever of them has the port.                          *)
(***************************************************************************)
EXTENDS ReceiverLoop, SenderObjects, FiniteSets

CONSTANTS
  Neighbours,  \* other sender processes on this host
  Remotes,     \* sender processes on other hosts
  MaxSent,     \* bound: packets this sender sends
  MaxOthers,   \* bound: packets each of the other senders sends
  MaxUsers,    \* bound: other senders that use the receiver
  MaxDoubled,  \* bound: datagrams the network doubles
  MaxStarts    \* bound: times the receiver is started

This == "this sender"
None == "none"

ASSUME SocketCodecAssumption ==
  /\ Neighbours \cap Remotes = {}
  /\ {This, None} \cap (Neighbours \cup Remotes) = {}
  /\ MaxSent \in Nat /\ MaxOthers \in Nat /\ MaxUsers \in Nat
  /\ MaxDoubled \in Nat /\ MaxStarts \in Nat

Senders == {This} \cup Neighbours \cup Remotes
OnThisHost == {This} \cup Neighbours
MostSent(s) == IF s = This THEN MaxSent ELSE MaxOthers

VARIABLES
  workers,      \* the capture thread and the encoder thread
  sent,         \* packets each sender has sent
  dataNet,      \* packets in flight, per sender
  doubled,      \* datagrams the network has doubled
  starts,       \* times the receiver was started
  listening,    \* the receiver is in MessageReceiver::Run
  feedbackTo,   \* whose address feedback_sender_ is connected to
  heard,        \* history: whose packets this start of the receiver has handled
  acksHere,     \* feedback in flight to this host, by whose packet it is for
  acksArrived,  \* history: feedback that has come to this sender, by whose packet it is for
  acksAway      \* history: feedback for this sender's packets sent to another host

dataVars == <<sent, dataNet>>
receiverVars == <<starts, listening, feedbackTo, heard>>
ackVars == <<acksHere, acksArrived, acksAway>>
restVars == <<dataVars, doubled, receiverVars, ackVars>>
sysVars == <<vars, objectVars, workers, restVars>>

NoneOf == [s \in Senders |-> 0]
OneMore(count, s) == [count EXCEPT ![s] = @ + 1]
OneLess(count, s) == [count EXCEPT ![s] = @ - 1]

SysInit ==
  /\ Init
  /\ ObjectsInit /\ workers = "none"
  /\ sent = NoneOf /\ dataNet = NoneOf /\ doubled = 0
  /\ starts = 0 /\ listening = FALSE /\ feedbackTo = None /\ heard = {}
  /\ acksHere = NoneOf /\ acksArrived = NoneOf /\ acksAway = 0

(***************************************************************************)
(* The sender: sender_create_and_run.                                      *)
(***************************************************************************)
\* The steps before the feedback receiver, and the destructors after a return.
SetUp ==
  /\ SetUpOrReturn
  /\ UNCHANGED <<vars, workers, restVars>>

\* The feedback receiver binds dest_port + 1, or fails as a neighbour has the port.
\* The feedback manager before it cannot fail.
InitializeFeedback_GoesOn ==
  /\ mainPc = "init" /\ SetUpAt("feedback", 5) /\ UNCHANGED <<setup, holdings>>
  /\ \/ InitializeReceiver
     \/ mainPc' = "start" /\ UNCHANGED <<rcvVars, socketVars, initialized, stopRequested>>
  /\ UNCHANGED <<workers, restVars>>
InitializeFeedback ==
  /\ SetUpAt("feedback", 5) /\ UNCHANGED holdings
  /\ \/ InitializeReceiver /\ setup' = setup
     \/ InitializeFails /\ setup' = "returning"
  /\ UNCHANGED <<workers, restVars>>

StartFeedbackThread ==
  /\ StartThread
  /\ UNCHANGED <<objectVars, workers, restVars>>

StartWorkers ==
  /\ mainPc = "working" /\ workers = "none"
  /\ workers' = "running"
  /\ UNCHANGED <<vars, objectVars, restVars>>

WorkersDone == workers = "ended"
JoinWorkers ==
  /\ WorkersDone
  /\ WorkersJoined
  /\ UNCHANGED <<objectVars, workers, restVars>>

StopFeedback ==
  /\ RequestStop \/ ShutdownSocket \/ JoinReceiver
  /\ UNCHANGED <<objectVars, workers, restVars>>

\* The clean-up at the end, object by object; the return follows.
CloseFeedback == CleanUpAt("close receiver", "close bitstream") /\ UNCHANGED holdings
CleanUp ==
  /\ \/ mainPc = "close" /\ CleanUpEncoder /\ UNCHANGED vars
     \/ CloseSender /\ UNCHANGED vars
     \/ CloseFeedback /\ CloseReceiver
     \/ CloseBitstream /\ UNCHANGED vars
  /\ UNCHANGED <<workers, restVars>>

SenderMain ==
  \/ SetUp \/ InitializeFeedback \/ StartFeedbackThread \/ StartWorkers
  \/ JoinWorkers \/ StopFeedback \/ CleanUp

\* Both worker threads return, as FrameHandoff shows; a failing vvenc_encode, after
\* which they do not, is left to that module.
WorkersEnd ==
  /\ workers = "running"
  /\ workers' = "ended"
  /\ UNCHANGED <<vars, objectVars, restVars>>

FeedbackThread ==
  /\ Receiver \/ ReceiveFails
  /\ UNCHANGED <<objectVars, workers, restVars>>

Sends(s) ==
  /\ sent[s] < MostSent(s)
  /\ sent' = OneMore(sent, s)
  /\ dataNet' = OneMore(dataNet, s)
  /\ UNCHANGED <<vars, objectVars, workers, doubled, receiverVars, ackVars>>

SendPacket == workers = "running" /\ Sends(This)

(***************************************************************************)
(* Other senders.  One on this host sends only while it has the feedback   *)
(* port, which it binds before it starts its threads.                      *)
(***************************************************************************)
OtherUsers == {s \in Senders \ {This} : sent[s] > 0}
OtherSends(s) ==
  /\ Cardinality(OtherUsers \cup {s}) <= MaxUsers
  /\ s \in Neighbours => socket # "open"
  /\ Sends(s)

(***************************************************************************)
(* The receiver: receiver_create_and_run.                                  *)
(***************************************************************************)
\* Decoder and message receiver are initialized; or one fails, and the decoder is
\* cleaned up.
StartReceiver ==
  /\ ~listening /\ starts < MaxStarts
  /\ starts' = starts + 1
  /\ listening' \in BOOLEAN
  /\ UNCHANGED <<vars, objectVars, workers, dataVars, doubled, feedbackTo, heard, ackVars>>

\* Run never returns; the process is killed, and its feedback sender with it.
KillReceiver ==
  /\ listening
  /\ listening' = FALSE
  /\ feedbackTo' = None /\ heard' = {}
  /\ UNCHANGED <<vars, objectVars, workers, dataVars, doubled, starts, ackVars>>

\* The feedback sender is initialized with the address of the datagram at hand, if
\* it is not initialized yet and that succeeds.
FeedbackChoices_Constant(s) == Senders
FeedbackChoices(s) == IF feedbackTo = None THEN {s, None} ELSE {feedbackTo}

\* SendRaw to feedbackTo; nothing is sent for a packet that is not new.
Acknowledged_OnConnectToo(s) ==
  IF feedbackTo = None THEN OneMore(OneMore(acksHere, s), s) ELSE OneMore(acksHere, s)
Acknowledged(s) == OneMore(acksHere, s)
SendsFeedback(s) ==
  \/ UNCHANGED <<acksHere, acksAway>>
  \/ /\ feedbackTo' \in OnThisHost
     /\ acksHere' = Acknowledged(s)
     /\ acksAway' = acksAway
  \/ /\ feedbackTo' \in Remotes
     /\ acksHere' = acksHere
     /\ acksAway' = IF s = This THEN acksAway + 1 ELSE acksAway

\* DecoderWithFeedback::HandlePacketMessage for a packet of s.
HandleData(s) ==
  /\ listening /\ dataNet[s] > 0
  /\ dataNet' = OneLess(dataNet, s)
  /\ heard' = heard \cup {s}
  /\ feedbackTo' \in FeedbackChoices(s)
  /\ SendsFeedback(s)
  /\ UNCHANGED <<vars, objectVars, workers, sent, doubled, starts, listening, acksArrived>>

(***************************************************************************)
(* The network.                                                            *)
(***************************************************************************)
\* Lost, or refused as nobody listens.
LoseData(s) ==
  /\ dataNet[s] > 0
  /\ dataNet' = OneLess(dataNet, s)
  /\ UNCHANGED <<vars, objectVars, workers, sent, doubled, receiverVars, ackVars>>

LoseFeedback(s) ==
  /\ acksHere[s] > 0
  /\ acksHere' = OneLess(acksHere, s)
  /\ UNCHANGED <<vars, objectVars, workers, dataVars, doubled, receiverVars, acksArrived,
                 acksAway>>

Double(s) ==
  /\ doubled < MaxDoubled
  /\ doubled' = doubled + 1
  /\ \/ dataNet[s] > 0 /\ dataNet' = OneMore(dataNet, s) /\ acksHere' = acksHere
     \/ acksHere[s] > 0 /\ acksHere' = OneMore(acksHere, s) /\ dataNet' = dataNet
  /\ UNCHANGED <<vars, objectVars, workers, sent, receiverVars, acksArrived, acksAway>>

\* A feedback datagram has the seven bytes at least that FeedbackManage asks for.
DeliverFeedback(s) ==
  /\ acksHere[s] > 0
  /\ Arrive("feedback")
  /\ acksHere' = OneLess(acksHere, s)
  /\ acksArrived' = OneMore(acksArrived, s)
  /\ UNCHANGED <<objectVars, workers, dataVars, doubled, receiverVars, acksAway>>

\* Some other program sends to the port, and too little to be a feedback.
StrayArrives ==
  /\ \E kind \in Strays : Arrive(kind)
  /\ UNCHANGED <<objectVars, workers, restVars>>

Network ==
  \/ \E s \in Senders : LoseData(s) \/ LoseFeedback(s) \/ Double(s) \/ DeliverFeedback(s)
  \/ StrayArrives

SysNext ==
  \/ SenderMain \/ WorkersEnd \/ FeedbackThread \/ SendPacket
  \/ \E s \in Neighbours \cup Remotes : OtherSends(s)
  \/ StartReceiver \/ KillReceiver
  \/ \E s \in Senders : HandleData(s)
  \/ Network

SysSpec == SysInit /\ [][SysNext]_sysVars

\* The sender's threads are scheduled.  Nothing is asked of the network or of the
\* receiver, which may never be started.
FairSysSpec ==
  /\ SysSpec
  /\ WF_sysVars(SenderMain) /\ WF_sysVars(WorkersEnd)
  /\ WF_sysVars(Receiver /\ UNCHANGED <<objectVars, workers, restVars>>)

-----------------------------------------------------------------------------
(***************************************************************************)
(* Properties.                                                             *)
(***************************************************************************)
\* Types, with those of ReceiverLoop.
SysTypeOK ==
  /\ TypeOK
  /\ setup \in SetupSteps /\ made \in 0..5 /\ workers \in {"none", "running", "ended"}
  /\ members \subseteq Resources \cup EncoderMembers
  /\ held \subseteq Resources /\ misgiven \in BOOLEAN
  /\ sent \in [Senders -> Nat] /\ \A s \in Senders : sent[s] <= MostSent(s)
  /\ dataNet \in [Senders -> Nat] /\ doubled \in 0..MaxDoubled
  /\ starts \in 0..MaxStarts /\ listening \in BOOLEAN
  /\ feedbackTo \in Senders \cup {None} /\ heard \subseteq Senders
  /\ acksHere \in [Senders -> Nat] /\ acksArrived \in [Senders -> Nat] /\ acksAway \in Nat

Returned == setup = "returning" /\ made = 0

\* Whichever way sender_create_and_run is left, through any failure of its set-up or
\* through its clean-up, once its objects are destroyed each thing that was opened or
\* allocated has been given back, and none twice: neither when a failing Initialize
\* has closed it itself nor when a destructor comes after the clean-up.  While the
\* threads run, whatever they use is there.
CleanExit ==
  /\ Returned => held = {} /\ socket # "open" /\ workers # "running"
                 /\ rcvPc \in {"none", "done"}
  /\ workers = "running" => held = Resources
  /\ ~misgiven

\* The feedback loop of this program is a ReceiverLoop: main takes its steps in that
\* order.
LoopImplemented == Spec

\* Whatever the network loses, delays or doubles, and over starts of the receiver, no
\* more feedback for the packets of a sender comes to this one than there are such
\* packets, the network's own copies aside.  So what it counts as feedback stands for
\* packets, if not all for its own: of the neighbours' too, and of a remote sender's.
FeedbackForPackets ==
  \A s \in Senders : acksArrived[s] + acksHere[s] <= sent[s] + doubled

\* A start of the receiver that has heard senders of this host only sends them all
\* their feedback here: no feedback goes to a host an earlier start has heard.
FeedbackStaysHere ==
  [][heard' \subseteq OnThisHost => acksAway' = acksAway]_sysVars

\* "Feedback will be sent to sender on dest_port + 1"
FeedbackToSender == acksAway = 0

\* sender_create_and_run returns, whichever step of its set-up fails and whether or
\* not there is a receiver, as long as the workers do.
SenderReturns == <>Returned
=============================================================================
