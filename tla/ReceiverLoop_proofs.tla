------------------------ MODULE ReceiverLoop_proofs ------------------------
(***************************************************************************)
(* Proofs about ReceiverLoop, for any number of datagrams and for systems  *)
(* of both kinds.  Phases ties where the feedback thread can be to where   *)
(* main is; Prompt says what a thread that has handled a datagram after    *)
(* the stop still can do.                                                  *)
(***************************************************************************)
EXTENDS ReceiverLoop, TLAPS

\* main's program order, as the feedback thread sees it
Phases ==
  /\ mainPc \in {"init", "start"} => rcvPc = "none"
  /\ mainPc \in {"start", "working", "stop"} => ~stopRequested
  /\ mainPc \in {"start", "working", "stop", "shutdown", "join", "close"}
       => socket = "open" /\ initialized
  /\ mainPc = "init" => socket = "none"
  /\ mainPc = "closed" => socket # "open"
  /\ Running => mainPc \in {"working", "stop", "shutdown", "join"}

\* After the stop one datagram may be handled; then the loop test ends the loop.
Prompt ==
  /\ ~stopRequested => handledLate = 0
  /\ rcvPc \in {"none", "created", "recv", "handle"} => handledLate = 0
  /\ handledLate <= 1

IInv == TypeOK /\ Phases /\ Prompt /\ EachCounted

\* The state before the socket is opened satisfies the invariant.
LEMMA InitInv == Init => IInv
<1>. SUFFICES ASSUME Init PROVE IInv
  OBVIOUS
<1>1. TypeOK
  <2>1. /\ arrived \in 0..MaxDatagrams /\ queue \in [Kinds -> Nat] /\ taken \in Kinds
        /\ queue["feedback"] <= arrived /\ \A kind \in Strays : queue[kind] <= MaxStrays
        /\ feedbackCount \in 0..arrived /\ handledLate \in Nat
    BY ReceiverLoopAssumption DEF Init, Kinds, Strays
  <2>2. mainPc \in MainSteps /\ rcvPc \in RcvSteps /\ socket \in {"none", "open", "closed"}
    BY DEF Init, MainSteps, RcvSteps
  <2>. QED
    BY <2>1, <2>2 DEF Init, TypeOK
<1>2. Phases /\ Prompt /\ EachCounted
  BY DEF Init, Phases, Running, Prompt, EachCounted, InHand, Kinds
<1>. QED
  BY <1>1, <1>2 DEF IInv

\* Steps of main change no datagram and no count, and they follow the phases.
LEMMA MainInv == IInv /\ Main => IInv'
<1>. SUFFICES ASSUME IInv, Main PROVE IInv'
  OBVIOUS
<1>. USE DEF IInv
<1>1. TypeOK'
  BY ReceiverLoopAssumption DEF Main, TypeOK, MainSteps, RcvSteps, rcvVars, socketVars, MainAt,
     InitializeFails, InitializeReceiver, StartThread, WorkersJoined, RequestStop, StopFlag,
     ShutdownSocket, JoinReceiver, CloseReceiver
<1>2. Phases'
  <2>1. CASE InitializeFails
    BY <2>1 DEF Phases, Running, InitializeFails, MainAt, rcvVars, socketVars
  <2>2. CASE InitializeReceiver
    BY <2>2 DEF Phases, Running, InitializeReceiver, MainAt, rcvVars
  <2>3. CASE StartThread
    BY <2>3 DEF Phases, Running, StartThread, MainAt, socketVars
  <2>4. CASE WorkersJoined
    BY <2>4 DEF Phases, Running, WorkersJoined, MainAt, rcvVars, socketVars
  <2>5. CASE RequestStop
    BY <2>5 DEF Phases, Running, RequestStop, MainAt, rcvVars, socketVars
  <2>6. CASE ShutdownSocket
    BY <2>6 DEF Phases, Running, ShutdownSocket, MainAt, rcvVars
  <2>7. CASE JoinReceiver
    BY <2>7 DEF Phases, Running, JoinReceiver, ThreadJoined, MainAt, rcvVars, socketVars
  <2>8. CASE CloseReceiver
    BY <2>8 DEF Phases, Running, CloseReceiver, MainAt, rcvVars
  <2>. QED
    BY <2>1, <2>2, <2>3, <2>4, <2>5, <2>6, <2>7, <2>8 DEF Main
<1>3. Prompt'
  <2>1. CASE InitializeReceiver \/ StartThread
    BY <2>1 DEF Prompt, Phases, InitializeReceiver, StartThread, MainAt, rcvVars, socketVars
  <2>2. CASE InitializeFails \/ WorkersJoined \/ ShutdownSocket \/ JoinReceiver
    BY <2>2 DEF Prompt, InitializeFails, WorkersJoined, ShutdownSocket, JoinReceiver, rcvVars,
       socketVars
  <2>3. CASE RequestStop \/ CloseReceiver
    BY <2>3 DEF Prompt, RequestStop, StopFlag, CloseReceiver, rcvVars, socketVars
  <2>. QED
    BY <2>1, <2>2, <2>3 DEF Main
<1>4. EachCounted'
  BY DEF EachCounted, InHand, Phases, Main, rcvVars, socketVars, MainAt,
     InitializeFails, InitializeReceiver, StartThread, WorkersJoined, RequestStop,
     ShutdownSocket, JoinReceiver, CloseReceiver
<1>. QED
  BY <1>1, <1>2, <1>3, <1>4

\* Steps of the feedback thread move a datagram from the queue to the count.
LEMMA ThreadInv == IInv /\ (Receiver \/ ReceiveFails) => IInv'
<1>. SUFFICES ASSUME IInv, Receiver \/ ReceiveFails PROVE IInv'
  OBVIOUS
<1>. USE DEF IInv, TypeOK, Phases, Running, Prompt, EachCounted, InHand, RcvAt, MainSteps,
             RcvSteps, socketVars
<1>1. CASE RunBegins
  BY <1>1 DEF RunBegins
<1>2. CASE LoopTest
  BY <1>2 DEF LoopTest, KeepsRunning
<1>3. CASE ReceivePacket
  <2>1. PICK kind \in Kinds :
          /\ queue[kind] > 0
          /\ RcvAt("recv", IF HandedOver(kind) THEN "handle" ELSE "check")
          /\ queue' = [queue EXCEPT ![kind] = @ - 1]
          /\ taken' = kind /\ hasSenderInfo' = TRUE
          /\ UNCHANGED <<mainPc, socket, shut, arrived, initialized, stopRequested,
                         feedbackCount, handledLate>>
    BY <1>3 DEF ReceivePacket
  <2>2. /\ queue' \in [Kinds -> Nat] /\ queue'[kind] = queue[kind] - 1
        /\ \A k \in Kinds : queue'[k] <= queue[k]
        /\ kind # "feedback" => queue'["feedback"] = queue["feedback"]
    BY <2>1 DEF Kinds
  <2>3. TypeOK'
    BY <2>1, <2>2, ReceiverLoopAssumption DEF Kinds, Strays
  <2>4. Phases' /\ Prompt'
    BY <2>1 DEF HandedOver
  <2>5. EachCounted'
    <3>1. CASE kind = "feedback"
      BY <2>1, <2>2, <3>1 DEF HandedOver, Kinds
    <3>2. CASE kind # "feedback"
      BY <2>1, <2>2, <3>2 DEF HandedOver, Kinds
    <3>. QED
      BY <3>1, <3>2
  <2>. QED
    BY <2>3, <2>4, <2>5
<1>4. CASE ReceiveNothing
  BY <1>4 DEF ReceiveNothing, Kinds
<1>5. CASE HandleFeedback
  <2>1. queue["feedback"] \in Nat /\ arrived \in Nat
    BY DEF Kinds
  <2>2. feedbackCount' \in 0..arrived /\ EachCounted'
    BY <1>5, <2>1 DEF HandleFeedback, Valid
  <2>. QED
    BY <1>5, <2>2 DEF HandleFeedback
<1>6. CASE ReceiveFails
  BY <1>6 DEF ReceiveFails
<1>. QED
  BY <1>1, <1>2, <1>3, <1>4, <1>5, <1>6 DEF Receiver

\* An arriving datagram is queued, and not counted yet.
LEMMA ArriveInv ==
  ASSUME IInv, NEW kind \in Kinds, Arrive(kind)
  PROVE  IInv'
<1>. USE DEF IInv, TypeOK, Kinds
<1>1. /\ queue' \in [Kinds -> Nat] /\ queue'[kind] = queue[kind] + 1
      /\ \A k \in Kinds \ {kind} : queue'[k] = queue[k]
      /\ arrived' = IF kind = "feedback" THEN arrived + 1 ELSE arrived
      /\ kind = "feedback" => arrived < MaxDatagrams
      /\ kind # "feedback" => queue[kind] < MaxStrays
  BY DEF Arrive, Strays
<1>2. /\ UNCHANGED <<mainPc, rcvPc, taken, hasSenderInfo, feedbackCount, handledLate, socket,
                    shut, initialized, stopRequested>>
      /\ socket = "open"
  BY DEF Arrive, rcvVars
<1>3. /\ queue'["feedback"] <= arrived' /\ arrived' \in 0..MaxDatagrams
      /\ \A k \in Strays : queue'[k] <= MaxStrays
  BY <1>1, ReceiverLoopAssumption DEF Strays
<1>4. feedbackCount \in 0..arrived'
  BY <1>1
<1>5. EachCounted'
  BY <1>1, <1>2 DEF EachCounted, InHand
<1>6. Phases' /\ Prompt'
  BY <1>2 DEF Phases, Running, Prompt
<1>. QED
  BY <1>1, <1>2, <1>3, <1>4, <1>5, <1>6

\* IInv is an invariant: it holds initially and every step keeps it.
THEOREM Inductive == Spec => []IInv
<1>1. IInv /\ [Next]_vars => IInv'
  <2>. SUFFICES ASSUME IInv, [Next]_vars PROVE IInv'
    OBVIOUS
  <2>1. CASE UNCHANGED vars
    BY <2>1 DEF vars, rcvVars, socketVars, IInv, TypeOK, Phases, Running, Prompt, EachCounted,
       InHand
  <2>. QED
    BY <2>1, MainInv, ThreadInv, ArriveInv DEF Next
<1>. QED
  BY InitInv, <1>1, PTL DEF Spec

\* Every variable keeps its type; no more datagrams are counted than arrive.
THEOREM TypeCorrect == Spec => []TypeOK
<1>1. IInv => TypeOK
  BY DEF IInv
<1>. QED
  BY Inductive, <1>1, PTL

\* main never closes the socket or leaves while the feedback thread runs.
THEOREM NotPulledAway == Spec => []InUseWhileRunning
<1>1. IInv => InUseWhileRunning
  BY DEF IInv, Phases, InUseWhileRunning
<1>. QED
  BY Inductive, <1>1, PTL

\* However many datagrams are queued, at most one is handled after the stop.
THEOREM Prompted == Spec => []StopIsPrompt
<1>1. IInv => StopIsPrompt
  BY DEF IInv, Prompt, StopIsPrompt
<1>. QED
  BY Inductive, <1>1, PTL

\* feedback_count_ is the number of feedback datagrams taken from the socket: each
\* is counted exactly once, and no empty or short one is.
THEOREM Counted == Spec => []EachCounted
<1>1. IInv => EachCounted
  BY DEF IInv
<1>. QED
  BY Inductive, <1>1, PTL
=============================================================================
