------------------------ MODULE FrameHandoff_proofs ------------------------
(***************************************************************************)
(* Proofs about FrameHandoff, for files of every length, every limit and   *)
(* any number of spurious wakeups.  The argument: at every moment the two  *)
(* threads are in one of five phases of the handshake, and each phase says *)
(* which thread may touch the buffer and who owes whom a notification.     *)
(***************************************************************************)
EXTENDS FrameHandoff, TLAPS

\* The mutex is held between two steps only by a thread that has just found
\* its predicate true.
LockOwner ==
  /\ mutex = "capture" <=> capPc = "check"
  /\ mutex = "encoder" <=> encPc = "take"

\* The encoder has consumed the last frame (or not yet begun): nobody uses the
\* buffer, the capture thread is on its way to its wait or in it.
Idle ==
  /\ ~encoderReady /\ ~stopRequested /\ ~eofReached
  /\ filePos = seqNo
  /\ encPc \in {"signal", "stop"}
  /\ capPc \in {"notify", "loop", "lock", "asleep"}

\* The encoder has asked for a frame: the buffer is the capture thread's.
Requested ==
  /\ encoderReady /\ ~frameReady /\ ~frameAvailable /\ ~stopRequested /\ ~eofReached
  /\ encPc \in {"wait", "asleep"}
  /\ \/ /\ capPc \in {"notify", "loop", "lock", "check", "read", "reading"}
        /\ filePos = seqNo
     \/ /\ capPc = "publish"
        /\ filePos = seqNo + 1
        /\ buffer = seqNo

\* A frame is published: the buffer is the encoder's until it has encoded it.
Published ==
  /\ ~encoderReady /\ frameReady /\ frameAvailable /\ ~stopRequested /\ ~eofReached
  /\ filePos = seqNo + 1
  /\ buffer = seqNo
  /\ capPc \in {"notify", "loop", "lock", "asleep"}
  /\ \/ encPc \in {"wait", "take", "encode"}
     \/ encPc = "asleep" /\ capPc = "notify"
     \/ encPc = "done" /\ cause = "fail"

\* The capture thread has met the end of the file.
Drained ==
  /\ eofReached /\ encoderReady /\ ~frameAvailable
  /\ filePos = seqNo /\ filePos = numFrames
  /\ capPc \in {"final", "notifyEnd", "done"}
  /\ \/ encPc \in {"wait", "take"}
     \/ encPc = "asleep" /\ capPc \in {"final", "notifyEnd"}
     \/ encPc = "done" /\ cause = "eof"

\* The encoder thread has stopped the capture thread and left.
Stopped ==
  /\ stopRequested /\ encoderReady /\ ~eofReached
  /\ filePos = seqNo
  /\ encPc = "done" /\ cause \in {"limit", "done"}
  /\ capPc \in {"notify", "loop", "lock", "check", "final", "notifyEnd", "done"}

Phase == Idle \/ Requested \/ Published \/ Drained \/ Stopped

\* Why the encoder left, and how far --frames_to_encode lets it come.
Progress ==
  /\ cause = "none" <=> encPc \notin {"stop", "done"}
  /\ encPc = "stop" => cause \in {"limit", "done"}
  /\ maxFrames > 0 => seqNo <= maxFrames
  /\ maxFrames > 0 /\ cause \in {"none", "eof", "fail"} => seqNo < maxFrames
  /\ cause = "limit" => maxFrames > 0 /\ seqNo = maxFrames

\* main is past a Join only when the thread it joined has ended.
Joined ==
  /\ mainPc # "joinCapture" => capPc = "done"
  /\ mainPc \in {"cleanup", "exited"} => encPc = "done"

IInv == TypeOK /\ LockOwner /\ Phase /\ Progress /\ Joined /\ EncodedInOrder

-----------------------------------------------------------------------------
(***************************************************************************)
(* The types, which are inductive on their own.                            *)
(***************************************************************************)
\* The initial values have their types.
LEMMA InitTypes == Init => TypeOK
<1> SUFFICES ASSUME Init PROVE TypeOK
  OBVIOUS
<1>1. numFrames \in Nat /\ MaxSpurious \in Nat
  BY HandoffAssumption DEF Init
<1>2. filePos \in 0..numFrames /\ spurious \in 0..MaxSpurious
  BY <1>1 DEF Init
<1>3. encoded \in Seq(Nat \cup {Torn})
  BY DEF Init
<1> QED
  BY <1>2, <1>3 DEF Init, TypeOK, CapPc, EncPc, MainPc, Cause

\* Every step keeps the types; the capture thread never reads past the file.
LEMMA StepTypes == TypeOK /\ [Next]_vars => TypeOK'
<1> SUFFICES ASSUME TypeOK, [Next]_vars PROVE TypeOK'
  OBVIOUS
<1>0. numFrames \in Nat /\ maxFrames \in Int /\ MaxSpurious \in Nat
  BY HandoffAssumption DEF TypeOK
<1> USE <1>0 DEF TypeOK, CapPc, EncPc, MainPc, Cause, Torn, inputs, flags, encVars
<1>1. CASE CaptureLoop
  BY <1>1 DEF CaptureLoop
<1>2. CASE CaptureWait
  BY <1>2 DEF CaptureWait, CaptureMayProceed
<1>3. CASE CaptureCheck
  BY <1>3 DEF CaptureCheck
<1>4. CASE CaptureStartRead
  BY <1>4 DEF CaptureStartRead
<1>5. CASE CaptureFinishRead
  <2>1. CASE EndOfFile
    BY <1>5, <2>1 DEF CaptureFinishRead
  <2>2. CASE ~EndOfFile
    <3>1. filePos' \in 0..numFrames' /\ buffer' \in Nat
      BY <1>5, <2>2 DEF CaptureFinishRead, EndOfFile
    <3> QED
      BY <1>5, <2>2, <3>1 DEF CaptureFinishRead
  <2> QED
    BY <2>1, <2>2
<1>6. CASE CapturePublish
  BY <1>6 DEF CapturePublish, MarkPublished
<1>7. CASE CaptureNotify
  BY <1>7 DEF CaptureNotify, WokenEncoder
<1>8. CASE CaptureFinal
  BY <1>8 DEF CaptureFinal
<1>9. CASE CaptureNotifyEnd
  BY <1>9 DEF CaptureNotifyEnd, WokenEncoder
<1>10. CASE EncoderSignalReady
  BY <1>10 DEF EncoderSignalReady, MarkEncoderReady, WokenCapture
<1>11. CASE EncoderWait
  BY <1>11 DEF EncoderWait, FrameMayBeTaken
<1>12. CASE EncoderTake
  BY <1>12 DEF EncoderTake, FrameGranted
<1>13. ASSUME NEW outcome \in Outcomes, EncodeSucceeds(outcome) PROVE TypeOK'
  BY <1>13 DEF EncodeSucceeds, LimitReached
<1>14. ASSUME NEW outcome \in Outcomes, EncodeFails(outcome) PROVE TypeOK'
  BY <1>14 DEF EncodeFails
<1>15. CASE EncoderStopsCapture
  BY <1>15 DEF EncoderStopsCapture, MarkStopped, WokenCapture
<1>16. CASE JoinCapture
  BY <1>16 DEF JoinCapture
<1>17. CASE JoinEncoder
  BY <1>17 DEF JoinEncoder
<1>18. CASE MainCleanup
  BY <1>18 DEF MainCleanup, MarkStopped
<1>19. CASE SpuriousWakeup
  BY <1>19 DEF SpuriousWakeup
<1>20. CASE UNCHANGED vars
  BY <1>20 DEF vars
<1> QED
  BY <1>1, <1>2, <1>3, <1>4, <1>5, <1>6, <1>7, <1>8, <1>9, <1>10, <1>11, <1>12, <1>13, <1>14, <1>15, <1>16, <1>17, <1>18, <1>19, <1>20
     DEF Next, Capture, EncoderThread, EncodeStep, Main, Exited

-----------------------------------------------------------------------------
(***************************************************************************)
(* The phases of the handshake.                                            *)
(***************************************************************************)
Handshake == LockOwner /\ Phase /\ Progress /\ Joined

\* A run starts in the idle phase.
LEMMA InitHandshake == Init => Handshake
  BY HandoffAssumption
     DEF Init, Handshake, LockOwner, Phase, Idle, Progress, Joined

\* Every step stays within its phase or goes on to the next one.
LEMMA StepHandshake == TypeOK /\ Handshake /\ [Next]_vars => Handshake'
<1> SUFFICES ASSUME TypeOK, Handshake, [Next]_vars PROVE Handshake'
  OBVIOUS
<1>0. /\ numFrames \in Nat /\ filePos \in Nat /\ seqNo \in Nat /\ maxFrames \in Int
      /\ mutex \in {"free", "capture", "encoder"}
      /\ capPc \in CapPc /\ encPc \in EncPc /\ mainPc \in MainPc /\ cause \in Cause
  BY HandoffAssumption DEF TypeOK
<1> USE <1>0
    DEF CapPc, EncPc, MainPc, Cause, inputs, flags, encVars, Handshake, LockOwner,
        Phase, Idle, Requested, Published, Drained, Stopped, Progress, Joined
<1>1. CASE CaptureLoop
  BY <1>1 DEF CaptureLoop
<1>2. CASE CaptureWait
  BY <1>2 DEF CaptureWait, CaptureMayProceed
<1>3. CASE CaptureCheck
  BY <1>3 DEF CaptureCheck
<1>4. CASE CaptureStartRead
  BY <1>4 DEF CaptureStartRead
<1>5. CASE CaptureFinishRead
  BY <1>5 DEF CaptureFinishRead, EndOfFile
<1>6. CASE CapturePublish
  BY <1>6 DEF CapturePublish, MarkPublished
<1>7. CASE CaptureNotify
  BY <1>7 DEF CaptureNotify, WokenEncoder
<1>8. CASE CaptureFinal
  BY <1>8 DEF CaptureFinal
<1>9. CASE CaptureNotifyEnd
  BY <1>9 DEF CaptureNotifyEnd, WokenEncoder
<1>10. CASE EncoderSignalReady
  BY <1>10 DEF EncoderSignalReady, MarkEncoderReady, WokenCapture
<1>11. CASE EncoderWait
  BY <1>11 DEF EncoderWait, FrameMayBeTaken
<1>12. CASE EncoderTake
  BY <1>12 DEF EncoderTake, FrameGranted
<1>13. ASSUME NEW outcome \in Outcomes, EncodeSucceeds(outcome) PROVE Handshake'
  BY <1>13 DEF EncodeSucceeds, LimitReached
<1>14. ASSUME NEW outcome \in Outcomes, EncodeFails(outcome) PROVE Handshake'
  BY <1>14 DEF EncodeFails
<1>15. CASE EncoderStopsCapture
  BY <1>15 DEF EncoderStopsCapture, MarkStopped, WokenCapture
<1>16. CASE JoinCapture
  BY <1>16 DEF JoinCapture
<1>17. CASE JoinEncoder
  BY <1>17 DEF JoinEncoder
<1>18. CASE MainCleanup
  BY <1>18 DEF MainCleanup, MarkStopped
<1>19. CASE SpuriousWakeup
  BY <1>19 DEF SpuriousWakeup
<1>20. CASE UNCHANGED vars
  BY <1>20 DEF vars
<1> QED
  BY <1>1, <1>2, <1>3, <1>4, <1>5, <1>6, <1>7, <1>8, <1>9, <1>10, <1>11, <1>12, <1>13, <1>14, <1>15, <1>16, <1>17, <1>18, <1>19, <1>20
     DEF Next, Capture, EncoderThread, EncodeStep, Main, Exited

-----------------------------------------------------------------------------
(***************************************************************************)
(* The history of what vvenc was given.                                    *)
(***************************************************************************)
\* Nothing has been encoded at first.
LEMMA InitOrder == Init => EncodedInOrder
  BY DEF Init, EncodedInOrder

\* Only EncodeSucceeds touches the history, and it appends the frame the
\* Published phase has kept in the buffer.
LEMMA StepOrder == TypeOK /\ Handshake /\ EncodedInOrder /\ [Next]_vars => EncodedInOrder'
<1> SUFFICES ASSUME TypeOK, Handshake, EncodedInOrder, [Next]_vars PROVE EncodedInOrder'
  OBVIOUS
<1>1. ASSUME NEW outcome \in Outcomes, EncodeSucceeds(outcome) PROVE EncodedInOrder'
  <2>1. buffer = seqNo
    BY <1>1 DEF EncodeSucceeds, Handshake, Phase, Idle, Requested, Published, Drained, Stopped
  <2>2. seqNo \in Nat /\ encoded = [i \in 1..seqNo |-> i - 1]
    BY DEF TypeOK, EncodedInOrder
  <2>3. encoded' = Append(encoded, seqNo) /\ seqNo' = seqNo + 1
    BY <1>1, <2>1 DEF EncodeSucceeds
  <2> QED
    BY <2>2, <2>3 DEF EncodedInOrder
<1>2. CASE UNCHANGED <<seqNo, encoded>>
  BY <1>2 DEF EncodedInOrder
<1>3. \/ UNCHANGED <<seqNo, encoded>>
      \/ \E outcome \in Outcomes : EncodeSucceeds(outcome)
  BY DEF Next, Capture, CaptureLoop, CaptureWait, CaptureCheck, CaptureStartRead,
         CaptureFinishRead, CapturePublish, CaptureNotify, CaptureFinal, CaptureNotifyEnd,
         EncoderThread, EncoderSignalReady, EncoderWait, EncoderTake, EncodeStep, EncodeFails,
         EncoderStopsCapture, Main, JoinCapture, JoinEncoder, MainCleanup, SpuriousWakeup,
         Exited, vars, encVars
<1> QED
  BY <1>1, <1>2, <1>3

-----------------------------------------------------------------------------
(***************************************************************************)
(* The theorems.                                                           *)
(***************************************************************************)
\* IInv is an invariant of the specification.
THEOREM Inductive == Spec => []IInv
<1>1. Init => IInv
  BY InitTypes, InitHandshake, InitOrder DEF IInv, Handshake
<1>2. IInv /\ [Next]_vars => IInv'
  BY StepTypes, StepHandshake, StepOrder DEF IInv, Handshake
<1> QED
  BY <1>1, <1>2, PTL DEF Spec

\* Every variable keeps its type, for every file, limit and outcome of vvenc.
THEOREM TypeCorrect == Spec => []TypeOK
<1>1. IInv => TypeOK
  BY DEF IInv
<1> QED
  BY <1>1, Inductive, PTL

\* No data race on frame_buffer_: the capture thread never reads into it while
\* the encoder works on it, and the encoder finds the frame it expects.
THEOREM BufferSafe == Spec => []WholeFrameEncoded
<1>1. IInv => WholeFrameEncoded
  BY DEF IInv, Phase, Idle, Requested, Published, Drained, Stopped, WholeFrameEncoded
<1> QED
  BY <1>1, Inductive, PTL

\* The encoder is given the frames of the file in order, none lost or repeated.
THEOREM InOrder == Spec => []EncodedInOrder
<1>1. IInv => EncodedInOrder
  BY DEF IInv
<1> QED
  BY <1>1, Inductive, PTL

\* Neither thread sleeps through a notification it needs.
THEOREM NoLostWakeup == Spec => []NoWakeupLost
<1>1. IInv => NoWakeupLost
  BY DEF IInv, Phase, Idle, Requested, Published, Drained, Stopped, NoWakeupLost,
         CaptureMayProceed, FrameMayBeTaken
<1> QED
  BY <1>1, Inductive, PTL

-----------------------------------------------------------------------------
(***************************************************************************)
(* The threads implement FrameStream.                                      *)
(***************************************************************************)
\* A run of the threads starts as a run of the stream.
LEMMA InitStream == Init => Stream!Init
  BY HandoffAssumption DEF Init, Stream!Init, Goal, Ending

\* Every step of a thread is a step of the stream, or changes nothing of it.
LEMMA StepStream == IInv /\ IInv' /\ [Next]_vars => [Stream!Next]_(Stream!vars)
<1> SUFFICES ASSUME IInv, IInv', [Next]_vars PROVE [Stream!Next]_(Stream!vars)
  OBVIOUS
<1>0. /\ numFrames \in Nat /\ filePos \in Nat /\ seqNo \in Nat /\ maxFrames \in Int
      /\ filePos <= numFrames
      /\ capPc \in CapPc /\ encPc \in EncPc /\ mainPc \in MainPc /\ cause \in Cause
  BY HandoffAssumption DEF IInv, TypeOK
<1> USE <1>0
    DEF CapPc, EncPc, MainPc, Cause, inputs, flags, encVars, IInv, LockOwner,
        Phase, Idle, Requested, Published, Drained, Stopped, Progress, Joined,
        Goal, Ending, Stream!Next, Stream!Read, Stream!Encode, Stream!Complete,
        Stream!CutShort, Stream!vars
<1>1. CASE CaptureLoop
  BY <1>1 DEF CaptureLoop
<1>2. CASE CaptureWait
  BY <1>2 DEF CaptureWait, CaptureMayProceed
<1>3. CASE CaptureCheck
  BY <1>3 DEF CaptureCheck
<1>4. CASE CaptureStartRead
  BY <1>4 DEF CaptureStartRead
<1>5. CASE CaptureFinishRead
  BY <1>5 DEF CaptureFinishRead, EndOfFile
<1>6. CASE CapturePublish
  BY <1>6 DEF CapturePublish, MarkPublished
<1>7. CASE CaptureNotify
  BY <1>7 DEF CaptureNotify, WokenEncoder
<1>8. CASE CaptureFinal
  BY <1>8 DEF CaptureFinal
<1>9. CASE CaptureNotifyEnd
  BY <1>9 DEF CaptureNotifyEnd, WokenEncoder
<1>10. CASE EncoderSignalReady
  BY <1>10 DEF EncoderSignalReady, MarkEncoderReady, WokenCapture
<1>11. CASE EncoderWait
  BY <1>11 DEF EncoderWait, FrameMayBeTaken
<1>12. CASE EncoderTake
  BY <1>12 DEF EncoderTake, FrameGranted
<1>13. ASSUME NEW outcome \in Outcomes, EncodeSucceeds(outcome) PROVE [Stream!Next]_(Stream!vars)
  BY <1>13 DEF EncodeSucceeds, LimitReached
<1>14. ASSUME NEW outcome \in Outcomes, EncodeFails(outcome) PROVE [Stream!Next]_(Stream!vars)
  BY <1>14 DEF EncodeFails
<1>15. CASE EncoderStopsCapture
  BY <1>15 DEF EncoderStopsCapture, MarkStopped, WokenCapture
<1>16. CASE JoinCapture
  BY <1>16 DEF JoinCapture
<1>17. CASE JoinEncoder
  BY <1>17 DEF JoinEncoder
<1>18. CASE MainCleanup
  BY <1>18 DEF MainCleanup, MarkStopped
<1>19. CASE SpuriousWakeup
  BY <1>19 DEF SpuriousWakeup
<1>20. CASE UNCHANGED vars
  BY <1>20 DEF vars
<1> QED
  BY <1>1, <1>2, <1>3, <1>4, <1>5, <1>6, <1>7, <1>8, <1>9, <1>10, <1>11, <1>12, <1>13, <1>14, <1>15, <1>16, <1>17, <1>18, <1>19, <1>20
     DEF Next, Capture, EncoderThread, EncodeStep, Main, Exited

\* The sender's threads implement the one-frame-at-a-time stream.
THEOREM Refinement == Spec => StreamImplemented
<1> QED
  BY InitStream, StepStream, Inductive, PTL DEF Spec, StreamImplemented, Stream!Spec
=============================================================================
