---------------------------- MODULE FrameHandoff ----------------------------
(***************************************************************************)
(* The sender's two worker threads and the main thread that joins them:    *)
(* FrameCapture::Run reads frames of the YUV file into one shared buffer,  *)
(* Encoder::Run encodes from that same buffer.  The buffer itself is       *)
(* accessed outside every lock; what keeps the threads apart is the        *)
(* encoder_ready_ / frame_available_ handshake under FrameCapture::mutex_  *)
(* and two condition variables.                                            *)
(*                                                                         *)
(* A step of a thread is one critical section, one access to an atomic     *)
(* outside it, or one access to the buffer.  A thread inside               *)
(* condition_variable::wait is "asleep": it continues when it is notified  *)
(* or wakes spuriously, and then tests its predicate again under the lock. *)
(***************************************************************************)
EXTENDS Integers, Sequences

CONSTANTS
  FileLengths,  \* numbers of whole frames the input file may hold
  FrameLimits,  \* values of --frames_to_encode; 0 or less asks for all frames
  Outcomes,     \* what a call of vvenc_encode may do, see EncodeOutcome
  MaxSpurious   \* bound on the spurious wakeups of a behaviour

\* What one vvenc_encode call can do: return an access unit ("au"), take the
\* picture and return none yet ("held"), return one and set bEncodeDone
\* ("done"), or return an error ("fail").
EncodeOutcome == {"au", "held", "done", "fail"}

ASSUME HandoffAssumption ==
  /\ FileLengths \subseteq Nat
  /\ FrameLimits \subseteq Int
  /\ Outcomes \subseteq EncodeOutcome
  /\ MaxSpurious \in Nat

VARIABLES
  numFrames,       \* whole frames in the file
  maxFrames,       \* Encoder::max_frames_
  encoderReady, frameReady, stopRequested, eofReached, frameAvailable,
  mutex,           \* holder of FrameCapture::mutex_ between two steps
  buffer,          \* number of the frame in frame_buffer_, Torn if not whole
  filePos,         \* frames read from the file
  capPc, encPc, mainPc,
  seqNo,           \* Encoder::sequence_number_
  encoded,         \* history: buffer contents passed to vvenc
  units,           \* access units that WriteEncodedData has written
  cause,           \* why the encoder thread left its loop
  spurious         \* spurious wakeups so far

flags == <<encoderReady, frameReady, stopRequested, eofReached, frameAvailable>>
inputs == <<numFrames, maxFrames>>
encVars == <<seqNo, encoded, units, cause>>
vars == <<inputs, flags, mutex, buffer, filePos, capPc, encPc, mainPc, encVars, spurious>>

Torn == -1

CapPc == {"loop", "lock", "asleep", "check", "read", "reading", "publish",
          "notify", "final", "notifyEnd", "done"}
EncPc == {"signal", "wait", "asleep", "take", "encode", "stop", "done"}
MainPc == {"joinCapture", "joinEncoder", "cleanup", "exited"}
Cause == {"none", "eof", "limit", "done", "fail"}

Init ==
  /\ numFrames \in FileLengths
  /\ maxFrames \in FrameLimits
  /\ encoderReady = FALSE /\ frameReady = FALSE /\ stopRequested = FALSE
  /\ eofReached = FALSE /\ frameAvailable = FALSE
  /\ mutex = "free"
  /\ buffer = Torn
  /\ filePos = 0
  /\ capPc = "loop" /\ encPc = "signal" /\ mainPc = "joinCapture"
  /\ seqNo = 0 /\ encoded = <<>> /\ units = 0
  /\ cause = "none"
  /\ spurious = 0

(***************************************************************************)
(* Predicates of the two waits, and the wake-ups.                          *)
(***************************************************************************)
CaptureMayProceed == encoderReady \/ stopRequested \/ eofReached

FrameMayBeTaken == frameReady \/ stopRequested \/ eofReached

\* notify on encoder_ready_cv_ (only the capture thread waits on it)
WokenCapture_Unnotified == capPc
WokenCapture == IF capPc = "asleep" THEN "lock" ELSE capPc

\* notify on frame_ready_cv_ (only the encoder thread waits on it)
WokenEncoder == IF encPc = "asleep" THEN "wait" ELSE encPc

(***************************************************************************)
(* The capture thread: FrameCapture::Run.                                  *)
(***************************************************************************)
\* while (!stop_requested_ && !eof_reached_)
CaptureLoop ==
  /\ capPc = "loop"
  /\ capPc' = IF ~stopRequested /\ ~eofReached THEN "lock" ELSE "final"
  /\ UNCHANGED <<inputs, flags, mutex, buffer, filePos, encPc, mainPc, encVars, spurious>>

\* Take the lock and test the predicate of encoder_ready_cv_.wait.
CaptureWait ==
  /\ capPc = "lock"
  /\ mutex = "free"
  /\ \/ /\ CaptureMayProceed
        /\ capPc' = "check"
        /\ mutex' = "capture"
     \/ /\ ~CaptureMayProceed
        /\ capPc' = "asleep"
        /\ mutex' = mutex
  /\ UNCHANGED <<inputs, flags, buffer, filePos, encPc, mainPc, encVars, spurious>>

\* After the wait, still under the lock: leave the loop on stop or EOF.
CaptureCheck ==
  /\ capPc = "check"
  /\ mutex' = "free"
  /\ capPc' = IF stopRequested \/ eofReached THEN "final" ELSE "read"
  /\ UNCHANGED <<inputs, flags, buffer, filePos, encPc, mainPc, encVars, spurious>>

\* readYuvBuf starts to overwrite frame_buffer_, without the lock.
CaptureStartRead ==
  /\ capPc = "read"
  /\ buffer' = Torn
  /\ capPc' = "reading"
  /\ UNCHANGED <<inputs, flags, mutex, filePos, encPc, mainPc, encVars, spurious>>

\* The file ends before, or in the middle of, the next frame.
EndOfFile_OneTooLate == filePos > numFrames
EndOfFile == filePos = numFrames

\* readYuvBuf returns.  It returns 0 on every path and reports a failed read
\* as EOF, so the error branch of Run behind it is never taken.
CaptureFinishRead ==
  /\ capPc = "reading"
  /\ \/ /\ EndOfFile
        /\ eofReached' = TRUE
        /\ capPc' = "final"
        /\ UNCHANGED <<buffer, filePos>>
     \/ /\ ~EndOfFile
        /\ buffer' = filePos
        /\ filePos' = filePos + 1
        /\ capPc' = "publish"
        /\ UNCHANGED eofReached
  /\ UNCHANGED <<inputs, encoderReady, frameReady, stopRequested, frameAvailable,
                 mutex, encPc, mainPc, encVars, spurious>>

\* What publishing a frame does to the flags.
MarkPublished_KeepsReady ==
  frameAvailable' = TRUE /\ frameReady' = TRUE /\ encoderReady' = encoderReady
MarkPublished ==
  frameAvailable' = TRUE /\ frameReady' = TRUE /\ encoderReady' = FALSE

CapturePublish ==
  /\ capPc = "publish"
  /\ mutex = "free"
  /\ MarkPublished
  /\ capPc' = "notify"
  /\ UNCHANGED <<inputs, stopRequested, eofReached, mutex, buffer, filePos, encPc,
                 mainPc, encVars, spurious>>

CaptureNotify ==
  /\ capPc = "notify"
  /\ encPc' = WokenEncoder
  /\ capPc' = "loop"
  /\ UNCHANGED <<inputs, flags, mutex, buffer, filePos, mainPc, encVars, spurious>>

\* After the loop: no more frames.
CaptureFinal ==
  /\ capPc = "final"
  /\ mutex = "free"
  /\ frameReady' = TRUE
  /\ frameAvailable' = FALSE
  /\ capPc' = "notifyEnd"
  /\ UNCHANGED <<inputs, encoderReady, stopRequested, eofReached, mutex, buffer,
                 filePos, encPc, mainPc, encVars, spurious>>

CaptureNotifyEnd ==
  /\ capPc = "notifyEnd"
  /\ encPc' = WokenEncoder
  /\ capPc' = "done"
  /\ UNCHANGED <<inputs, flags, mutex, buffer, filePos, mainPc, encVars, spurious>>

Capture ==
  \/ CaptureLoop \/ CaptureWait \/ CaptureCheck \/ CaptureStartRead
  \/ CaptureFinishRead \/ CapturePublish \/ CaptureNotify \/ CaptureFinal
  \/ CaptureNotifyEnd

(***************************************************************************)
(* The encoder thread: Encoder::Run.  Its own stop_requested_ is set by    *)
(* Encoder::Stop only, which nothing calls, so its loop test is always     *)
(* true and is not a step.                                                 *)
(***************************************************************************)
MarkEncoderReady_KeepsFrame ==
  encoderReady' = TRUE /\ UNCHANGED <<frameReady, frameAvailable>>
MarkEncoderReady ==
  encoderReady' = TRUE /\ frameReady' = FALSE /\ frameAvailable' = FALSE

\* FrameCapture::SignalEncoderReady notifies while it holds the lock.
EncoderSignalReady ==
  /\ encPc = "signal"
  /\ mutex = "free"
  /\ MarkEncoderReady
  /\ capPc' = WokenCapture
  /\ encPc' = "wait"
  /\ UNCHANGED <<inputs, stopRequested, eofReached, mutex, buffer, filePos, mainPc,
                 encVars, spurious>>

\* WaitForFrame: take the lock and test the predicate of frame_ready_cv_.wait.
EncoderWait ==
  /\ encPc = "wait"
  /\ mutex = "free"
  /\ \/ /\ FrameMayBeTaken
        /\ encPc' = "take"
        /\ mutex' = "encoder"
     \/ /\ ~FrameMayBeTaken
        /\ encPc' = "asleep"
        /\ mutex' = mutex
  /\ UNCHANGED <<inputs, flags, buffer, filePos, capPc, mainPc, encVars, spurious>>

\* WaitForFrame returns the buffer, rather than nullptr.
FrameGranted ==
  /\ ~(stopRequested \/ (eofReached /\ ~frameAvailable))
  /\ frameAvailable

\* The rest of WaitForFrame; Run leaves its loop on nullptr.
EncoderTake ==
  /\ encPc = "take"
  /\ mutex' = "free"
  /\ \/ /\ FrameGranted
        /\ encPc' = "encode"
        /\ cause' = cause
     \/ /\ ~FrameGranted
        /\ encPc' = "done"
        /\ cause' = "eof"
  /\ UNCHANGED <<inputs, flags, buffer, filePos, capPc, mainPc, seqNo, encoded,
                 units, spurious>>

\* The limit of --frames_to_encode, tested after sequence_number_++.
LimitReached_OffByOne == maxFrames > 0 /\ seqNo + 1 > maxFrames
LimitReached == maxFrames > 0 /\ seqNo + 1 >= maxFrames

\* EncodeFrame on the shared buffer succeeds; Run then stops or asks for more.
EncodeSucceeds(outcome) ==
  /\ encPc = "encode"
  /\ outcome \in {"au", "held", "done"}
  /\ encoded' = Append(encoded, buffer)
  /\ units' = IF outcome = "held" THEN units ELSE units + 1
  /\ seqNo' = seqNo + 1
  /\ \/ /\ outcome = "done" \/ LimitReached
        /\ encPc' = "stop"
        /\ cause' = IF outcome = "done" THEN "done" ELSE "limit"
     \/ /\ outcome # "done" /\ ~LimitReached
        /\ encPc' = "signal"
        /\ cause' = cause
  /\ UNCHANGED <<inputs, flags, mutex, buffer, filePos, capPc, mainPc, spurious>>

\* EncodeFrame fails: Run leaves its loop and tells FrameCapture nothing.
EncodeFails(outcome) ==
  /\ encPc = "encode"
  /\ outcome = "fail"
  /\ encPc' = "done"
  /\ cause' = "fail"
  /\ UNCHANGED <<inputs, flags, mutex, buffer, filePos, capPc, mainPc, seqNo, encoded,
                 units, spurious>>

\* FrameCapture::Stop, whoever calls it.
MarkStopped_ReadyOnly ==
  encoderReady' = TRUE /\ frameReady' = TRUE /\ stopRequested' = stopRequested
MarkStopped ==
  encoderReady' = TRUE /\ frameReady' = TRUE /\ stopRequested' = TRUE

\* Run stops the capture thread.  There is no flush of vvenc on this path.
EncoderStopsCapture ==
  /\ encPc = "stop"
  /\ mutex = "free"
  /\ MarkStopped
  /\ capPc' = WokenCapture
  /\ encPc' = "done"
  /\ UNCHANGED <<inputs, eofReached, frameAvailable, mutex, buffer, filePos, mainPc,
                 encVars, spurious>>

EncodeStep == \E outcome \in Outcomes : EncodeSucceeds(outcome) \/ EncodeFails(outcome)

EncoderThread ==
  EncoderSignalReady \/ EncoderWait \/ EncoderTake \/ EncodeStep \/ EncoderStopsCapture

(***************************************************************************)
(* The main thread: sender_create_and_run from the first Join.             *)
(***************************************************************************)
JoinCapture ==
  /\ mainPc = "joinCapture"
  /\ capPc = "done"
  /\ mainPc' = "joinEncoder"
  /\ UNCHANGED <<inputs, flags, mutex, buffer, filePos, capPc, encPc, encVars, spurious>>

JoinEncoder ==
  /\ mainPc = "joinEncoder"
  /\ encPc = "done"
  /\ mainPc' = "cleanup"
  /\ UNCHANGED <<inputs, flags, mutex, buffer, filePos, capPc, encPc, encVars, spurious>>

\* The cleanup calls FrameCapture::Stop once more; both threads are gone.  The
\* feedback thread, which main stops and joins first, shares no state with them.
MainCleanup ==
  /\ mainPc = "cleanup"
  /\ mutex = "free"
  /\ MarkStopped
  /\ mainPc' = "exited"
  /\ UNCHANGED <<inputs, eofReached, frameAvailable, mutex, buffer, filePos, capPc,
                 encPc, encVars, spurious>>

Main == JoinCapture \/ JoinEncoder \/ MainCleanup

(***************************************************************************)
(* The C++ runtime may wake a waiting thread without a notification.       *)
(***************************************************************************)
SpuriousWakeup ==
  /\ spurious < MaxSpurious
  /\ spurious' = spurious + 1
  /\ \/ capPc = "asleep" /\ capPc' = "lock" /\ encPc' = encPc
     \/ encPc = "asleep" /\ encPc' = "wait" /\ capPc' = capPc
  /\ UNCHANGED <<inputs, flags, mutex, buffer, filePos, mainPc, encVars>>

\* The process has returned from main.
Exited ==
  /\ mainPc = "exited"
  /\ UNCHANGED vars

Next == Capture \/ EncoderThread \/ Main \/ SpuriousWakeup \/ Exited

Spec == Init /\ [][Next]_vars

\* The operating system keeps running every thread that can take a step.
FairSpec == Spec /\ WF_vars(Capture) /\ WF_vars(EncoderThread) /\ WF_vars(Main)

-----------------------------------------------------------------------------
(***************************************************************************)
(* Properties.                                                             *)
(***************************************************************************)
\* The frames the sender is asked for: all of the file, or the limit if lower.
Goal == IF maxFrames > 0 /\ maxFrames < numFrames THEN maxFrames ELSE numFrames

\* Types; filePos never runs past the file, and a frame number is a file position.
TypeOK ==
  /\ numFrames \in FileLengths /\ maxFrames \in FrameLimits
  /\ encoderReady \in BOOLEAN /\ frameReady \in BOOLEAN /\ stopRequested \in BOOLEAN
  /\ eofReached \in BOOLEAN /\ frameAvailable \in BOOLEAN
  /\ mutex \in {"free", "capture", "encoder"}
  /\ buffer \in Nat \cup {Torn}
  /\ filePos \in 0..numFrames
  /\ capPc \in CapPc /\ encPc \in EncPc /\ mainPc \in MainPc
  /\ seqNo \in Nat
  /\ encoded \in Seq(Nat \cup {Torn})
  /\ units \in Nat
  /\ cause \in Cause
  /\ spurious \in 0..MaxSpurious

\* No data race on frame_buffer_, which both threads use outside the lock: while
\* the encoder works on the buffer the capture thread does not read into it, and
\* it holds, whole, the frame whose number the encoder is about to give it.
WholeFrameEncoded ==
  encPc = "encode" => buffer = seqNo /\ capPc \notin {"read", "reading"}

\* What vvenc was given is a prefix of the file: no frame lost, repeated, torn or
\* out of order between the two threads (Run of FrameCapture and of Encoder).
EncodedInOrder == encoded = [i \in 1..seqNo |-> i - 1]

\* The two condition variables lose no wakeup.  The capture thread sleeps only
\* while its predicate is false; the encoder may sleep with a true predicate only
\* while the notification for it is still to come (eof_reached_ is set, and both
\* frame_ready_cv_ notifications are sent, outside the lock).
NoWakeupLost ==
  /\ capPc = "asleep" => ~CaptureMayProceed
  /\ encPc = "asleep" /\ FrameMayBeTaken => capPc \in {"notify", "final", "notifyEnd"}

\* The threads implement the one-frame-at-a-time stream, and end it as complete
\* exactly when every frame asked for has been encoded and no further one read.
Ending ==
  CASE encPc = "done" /\ cause \in {"done", "fail"} -> "cut"
    [] mainPc = "exited" /\ cause \in {"eof", "limit"} -> "complete"
    [] OTHER -> "open"

Stream == INSTANCE FrameStream
            WITH goal <- Goal, read <- filePos, encoded <- seqNo, ending <- Ending

StreamImplemented == Stream!Spec

\* main returns: both Joins of sender_create_and_run come back.
MainReturns == <>(mainPc = "exited")

\* Every wait of the handshake ends, so main returns unless an encode call fails.
ReturnsUnlessEncodeFails == <>(mainPc = "exited" \/ cause = "fail")

\* "Flush encoder before stopping to ensure all data is processed", and at EOF
\* "flushing encoder": when Run ends because the limit or the end of the file is
\* reached, every picture vvenc took has come out of it.
FlushedBeforeStop ==
  encPc = "done" /\ cause \in {"limit", "eof"} => units = Len(encoded)
=============================================================================
