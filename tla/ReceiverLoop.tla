---------------------------- MODULE ReceiverLoop ----------------------------
(***************************************************************************)
(* The sender's feedback receiver: MessageReceiver::Run on a thread of its *)
(* own, blocked in recvfrom most of the time, and main, which stops it and *)
(* joins it once the two other threads have ended, then closes the socket. *)
(*                                                                         *)
(* The socket is bound and never connected.  What shutdown does to such a  *)
(* socket depends on the system: Linux wakes a blocked recvfrom, which     *)
(* returns 0 from then on when nothing is queued; macOS refuses the call   *)
(* (ENOTCONN) and leaves recvfrom blocked.                                 *)
(*                                                                         *)
(* Any program may send to the port.  Datagrams differ in what their size  *)
(* makes of them: an empty one is not handed over, one of fewer than seven *)
(* bytes is refused by FeedbackManage, and any other is counted.  They are *)
(* queued as a bag: the network does not keep their order.                 *)
(***************************************************************************)
EXTENDS Naturals

CONSTANTS
  ShutdownWakes,  \* the system's shutdown wakes recvfrom on an unconnected socket
  MaxDatagrams,   \* bound: datagrams of seven bytes or more that arrive
  MaxStrays       \* bound: empty ones, and short ones, that are queued at a time

ASSUME ReceiverLoopAssumption ==
  ShutdownWakes \in BOOLEAN /\ MaxDatagrams \in Nat /\ MaxStrays \in Nat

\* empty, of 1 to 6 bytes, of at least 7 bytes
Kinds == {"empty", "short", "feedback"}
Strays == {"empty", "short"}

VARIABLES
  mainPc,         \* where main is in sender_create_and_run
  rcvPc,          \* where the feedback thread is in MessageReceiver::Run
  initialized,    \* MessageReceiver::initialized_
  socket,         \* socket_fd_: "none", "open" or "closed"
  shut,           \* recvfrom no longer blocks
  stopRequested,  \* stop_requested_
  arrived,        \* datagrams of at least 7 bytes that have come to the socket
  queue,          \* datagrams that recvfrom has not returned, by kind
  taken,          \* the datagram that recvfrom returned last
  hasSenderInfo,  \* has_sender_info_
  feedbackCount,  \* FeedbackManage::feedback_count_
  handledLate     \* history: datagrams handled after stop_requested_ was set

rcvVars == <<rcvPc, taken, hasSenderInfo, feedbackCount, handledLate>>
socketVars == <<socket, shut, arrived, queue>>
vars == <<mainPc, rcvVars, socketVars, initialized, stopRequested>>

MainSteps == {"init", "start", "working", "stop", "shutdown", "join", "close", "closed"}
RcvSteps == {"none", "created", "check", "recv", "handle", "done"}

Init ==
  /\ mainPc = "init" /\ rcvPc = "none"
  /\ initialized = FALSE /\ socket = "none" /\ shut = FALSE /\ stopRequested = FALSE
  /\ arrived = 0 /\ queue = [kind \in Kinds |-> 0]
  /\ taken = "empty" /\ hasSenderInfo = FALSE /\ feedbackCount = 0 /\ handledLate = 0

(***************************************************************************)
(* Main.                                                                   *)
(***************************************************************************)
MainAt(here, there) == mainPc = here /\ mainPc' = there

\* socket() or bind() fails: main returns and the destructor calls Close.
InitializeFails ==
  /\ MainAt("init", "closed")
  /\ stopRequested' = TRUE
  /\ UNCHANGED <<rcvVars, socketVars, initialized>>

InitializeReceiver ==
  /\ MainAt("init", "start")
  /\ socket' = "open"
  /\ initialized' = TRUE
  /\ stopRequested' = FALSE
  /\ UNCHANGED <<rcvVars, shut, arrived, queue>>

\* SetMessageHandler, and a Thread that will call Run.
StartThread ==
  /\ MainAt("start", "working")
  /\ rcvPc' = "created"
  /\ UNCHANGED <<socketVars, initialized, stopRequested, taken, hasSenderInfo,
                 feedbackCount, handledLate>>

\* Main has joined the capture thread and the encoder thread.
WorkersJoined ==
  /\ MainAt("working", "stop")
  /\ UNCHANGED <<rcvVars, socketVars, initialized, stopRequested>>

\* Stop, first half.
StopFlag_Kept == stopRequested
StopFlag == TRUE
RequestStop ==
  /\ MainAt("stop", "shutdown")
  /\ stopRequested' = StopFlag
  /\ UNCHANGED <<rcvVars, socketVars, initialized>>

\* Stop, second half.
ShutdownSocket ==
  /\ MainAt("shutdown", "join")
  /\ shut' = ShutdownWakes
  /\ UNCHANGED <<rcvVars, socket, arrived, queue, initialized, stopRequested>>

ThreadJoined_Detached == TRUE
ThreadJoined == rcvPc = "done"
JoinReceiver ==
  /\ ThreadJoined
  /\ MainAt("join", "close")
  /\ UNCHANGED <<rcvVars, socketVars, initialized, stopRequested>>

\* MessageReceiver::Close, with the Stop it begins with.  The destructor calls it
\* again, which changes nothing.
CloseReceiver ==
  /\ MainAt("close", "closed")
  /\ stopRequested' = TRUE
  /\ shut' = ShutdownWakes
  /\ socket' = "closed"
  /\ initialized' = FALSE
  /\ UNCHANGED <<rcvVars, arrived, queue>>

Main ==
  \/ InitializeFails \/ InitializeReceiver \/ StartThread \/ WorkersJoined
  \/ RequestStop \/ ShutdownSocket \/ JoinReceiver \/ CloseReceiver

(***************************************************************************)
(* The feedback thread.                                                    *)
(***************************************************************************)
RcvAt(here, there) == rcvPc = here /\ rcvPc' = there

RunBegins ==
  /\ RcvAt("created", IF initialized /\ socket = "open" THEN "check" ELSE "done")
  /\ UNCHANGED <<mainPc, socketVars, initialized, stopRequested, taken, hasSenderInfo,
                 feedbackCount, handledLate>>

NoneQueued == \A kind \in Kinds : queue[kind] = 0

KeepsRunning_WhileQueued == ~stopRequested \/ ~NoneQueued
KeepsRunning == ~stopRequested

\* The condition of the loop, read once per turn.
LoopTest ==
  /\ RcvAt("check", IF KeepsRunning THEN "recv" ELSE "done")
  /\ UNCHANGED <<mainPc, socketVars, initialized, stopRequested, taken, hasSenderInfo,
                 feedbackCount, handledLate>>

\* Run calls the handler for what recvfrom returned, if it is not empty.
HandedOver(kind) == kind # "empty"

\* recvfrom returns a datagram, with the address it came from.
ReceivePacket_DropsIfStopped ==
  \E kind \in Kinds :
    /\ queue[kind] > 0
    /\ RcvAt("recv", IF HandedOver(kind) /\ ~stopRequested THEN "handle" ELSE "check")
    /\ queue' = [queue EXCEPT ![kind] = @ - 1]
    /\ taken' = kind /\ hasSenderInfo' = TRUE
    /\ UNCHANGED <<mainPc, socket, shut, arrived, initialized, stopRequested,
                   feedbackCount, handledLate>>
ReceivePacket ==
  \E kind \in Kinds :
    /\ queue[kind] > 0
    /\ RcvAt("recv", IF HandedOver(kind) THEN "handle" ELSE "check")
    /\ queue' = [queue EXCEPT ![kind] = @ - 1]
    /\ taken' = kind /\ hasSenderInfo' = TRUE
    /\ UNCHANGED <<mainPc, socket, shut, arrived, initialized, stopRequested,
                   feedbackCount, handledLate>>

\* recvfrom returns 0, as for an empty datagram, and has not written sender_addr;
\* inet_ntop formats whatever is in it and never fails.
ReceiveNothing ==
  /\ shut
  /\ NoneQueued
  /\ RcvAt("recv", "check")
  /\ taken' = "empty" /\ hasSenderInfo' = TRUE
  /\ UNCHANGED <<mainPc, socketVars, initialized, stopRequested, feedbackCount, handledLate>>

\* recvfrom fails, for instance interrupted by a signal: the loop goes on.
ReceiveFails ==
  /\ RcvAt("recv", "check")
  /\ UNCHANGED <<mainPc, socketVars, initialized, stopRequested, taken, hasSenderInfo,
                 feedbackCount, handledLate>>

\* What FeedbackManage::HandleFeedback lets pass: the manager is initialized before
\* the receiver, and the datagram must have room for the fields of a feedback.
Valid_Any(kind) == TRUE
Valid(kind) == kind = "feedback"

\* FeedbackManage::HandlePacketMessage
HandleFeedback ==
  /\ RcvAt("handle", "check")
  /\ feedbackCount' = IF Valid(taken) THEN feedbackCount + 1 ELSE feedbackCount
  /\ handledLate' = IF stopRequested THEN handledLate + 1 ELSE handledLate
  /\ UNCHANGED <<mainPc, socketVars, initialized, stopRequested, taken, hasSenderInfo>>

Receiver == RunBegins \/ LoopTest \/ ReceivePacket \/ ReceiveNothing \/ HandleFeedback

\* The network brings a datagram.
Arrive(kind) ==
  /\ socket = "open"
  /\ \/ kind = "feedback" /\ arrived < MaxDatagrams /\ arrived' = arrived + 1
     \/ kind \in Strays /\ queue[kind] < MaxStrays /\ arrived' = arrived
  /\ queue' = [queue EXCEPT ![kind] = @ + 1]
  /\ UNCHANGED <<mainPc, rcvVars, socket, shut, initialized, stopRequested>>

Next == Main \/ Receiver \/ ReceiveFails \/ \E kind \in Kinds : Arrive(kind)

Spec == Init /\ [][Next]_vars

\* Both threads are scheduled.  Neither a datagram nor a signal is owed to them.
FairSpec == Spec /\ WF_vars(Main) /\ WF_vars(Receiver)

-----------------------------------------------------------------------------
(***************************************************************************)
(* Properties.                                                             *)
(***************************************************************************)
\* Types; no more feedback is queued, and no more is counted, than has arrived.
TypeOK ==
  /\ mainPc \in MainSteps /\ rcvPc \in RcvSteps
  /\ initialized \in BOOLEAN /\ socket \in {"none", "open", "closed"}
  /\ shut \in BOOLEAN /\ stopRequested \in BOOLEAN
  /\ arrived \in 0..MaxDatagrams /\ taken \in Kinds
  /\ queue \in [Kinds -> Nat] /\ queue["feedback"] <= arrived
  /\ \A kind \in Strays : queue[kind] <= MaxStrays
  /\ hasSenderInfo \in BOOLEAN /\ handledLate \in Nat
  /\ feedbackCount \in 0..arrived

Running == rcvPc \in {"created", "check", "recv", "handle"}

\* Close and the end of main never pull the socket, the receiver or the feedback
\* manager away from a thread that still runs: another thread could get the same
\* descriptor, and both objects live on main's stack.
InUseWhileRunning ==
  Running => socket = "open" /\ initialized /\ mainPc \notin {"init", "start", "closed"}

\* Stop is prompt however many datagrams are waiting: the thread handles at most
\* the one it was about to receive.
StopIsPrompt == handledLate <= 1

\* feedback_count_ is the number of feedback datagrams recvfrom has returned and the
\* thread is not just handling: each is counted once, also the last one before the
\* stop, and neither an empty nor a short one is, nor the wakeup by shutdown.
InHand == IF rcvPc = "handle" /\ taken = "feedback" THEN 1 ELSE 0
EachCounted == feedbackCount + InHand + queue["feedback"] = arrived

\* "Wake up recvfrom": once main calls Stop the thread ends, the join returns, and
\* main goes on to close the receiver.
StopReturns == mainPc = "stop" ~> mainPc = "closed"
=============================================================================
