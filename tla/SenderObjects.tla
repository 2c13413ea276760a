---------------------------- MODULE SenderObjects ----------------------------
(***************************************************************************)
(* The objects on the stack of sender_create_and_run, and what they hold:  *)
(* each step of the set-up constructs one and initializes it, which may    *)
(* fail anywhere within; the clean-up at the end and the destructors give  *)
(* back what the objects' own members say they have.                       *)
(*                                                                         *)
(* What is held is named after the member that says so.  A return destroys *)
(* the objects in reverse order, also those whose initialization failed.   *)
(* The buffers' allocations are taken to succeed: vvenc reports no failure *)
(* of them.                                                                *)
(***************************************************************************)
EXTENDS Naturals

VARIABLES
  setup,     \* where main is in sender_create_and_run, apart from the feedback loop
  made,      \* how many of the objects are on the stack
  members,   \* their members that are set: open files, descriptors, pointers, initialized_
  held,      \* history: what has been got and not given back
  misgiven   \* history: something was given back that was not held

holdings == <<members, held, misgiven>>
objectVars == <<setup, made, holdings>>

CaptureMembers == {"yuv_file_input_", "frame_buffer_"}
EncoderResources == {"encoder_", "yuv_input_buffer_", "access_unit_"}
EncoderMembers == EncoderResources \cup {"initialized_"}
Resources == {"cOutBitstream", "socket_fd_"} \cup CaptureMembers \cup EncoderResources

SetupSteps ==
  {"bitstream", "capture", "sender", "encoder", "feedback", "close sender",
   "close receiver", "close bitstream", "returning"}

ObjectsInit ==
  /\ setup = "bitstream" /\ made = 0
  /\ members = {} /\ held = {} /\ misgiven = FALSE

(***************************************************************************)
(* Getting and giving back.                                                *)
(***************************************************************************)
Gets(mine) ==
  /\ members' = members \cup mine
  /\ held' = held \cup (mine \cap Resources)
  /\ misgiven' = misgiven

\* What was got first is given back before the call returns, and its member reset.
FailsAfter(got, reset) ==
  /\ members' = (members \cup got) \ reset
  /\ held' = held
  /\ misgiven' = misgiven

\* Close functions and destructors look at the members they own, and reset them.
Releases(mine) ==
  LET given == members \cap mine \cap Resources
  IN /\ members' = members \ mine
     /\ held' = held \ given
     /\ misgiven' = (misgiven \/ ~(given \subseteq held))

EncoderCleanup ==
  IF {"encoder_", "initialized_"} \cap members = {}
  THEN UNCHANGED holdings
  ELSE Releases(EncoderMembers)
SenderClose == Releases({"socket_fd_"})
CaptureDestroyed == Releases(CaptureMembers)
BitstreamClose == Releases({"cOutBitstream"})

(***************************************************************************)
(* The set-up.                                                             *)
(***************************************************************************)
SetUpAt(here, n) == setup = here /\ made' = n

OpenBitstream ==
  /\ SetUpAt("bitstream", 1)
  /\ \/ setup' = "capture" /\ Gets({"cOutBitstream"})
     \/ setup' = "returning" /\ UNCHANGED holdings

\* The video cannot be opened.
InitializeCapture ==
  /\ SetUpAt("capture", 2)
  /\ \/ setup' = "sender" /\ Gets(CaptureMembers)
     \/ setup' = "returning" /\ UNCHANGED holdings

\* There is no socket; or the address is invalid, or connect fails.
InitializeSender ==
  /\ SetUpAt("sender", 3)
  /\ \/ setup' = "encoder" /\ Gets({"socket_fd_"})
     \/ setup' = "returning" /\ UNCHANGED holdings
     \/ setup' = "returning" /\ FailsAfter({"socket_fd_"}, {"socket_fd_"})

\* The parameters are refused or there is no encoder; or it cannot be opened.
OpenFails_KeepsPointer == FailsAfter({"encoder_"}, {})
OpenFails == FailsAfter({"encoder_"}, {"encoder_"})
InitializeEncoder ==
  /\ SetUpAt("encoder", 4)
  /\ \/ setup' = "feedback" /\ Gets(EncoderMembers)
     \/ setup' = "returning" /\ UNCHANGED holdings
     \/ setup' = "returning" /\ OpenFails

\* A return: the destructors, last object first.  That of the fifth, the feedback
\* receiver, closes it, which ReceiverLoop has.
Destroy ==
  /\ setup = "returning" /\ setup' = setup
  /\ made > 0 /\ made' = made - 1
  /\ \/ made = 5 /\ UNCHANGED holdings
     \/ made = 4 /\ EncoderCleanup
     \/ made = 3 /\ SenderClose
     \/ made = 2 /\ CaptureDestroyed
     \/ made = 1 /\ BitstreamClose

SetUpOrReturn ==
  \/ OpenBitstream \/ InitializeCapture \/ InitializeSender \/ InitializeEncoder
  \/ Destroy

\* The clean-up at the end of sender_create_and_run.
CleanUpAt(here, there) == setup = here /\ setup' = there /\ made' = made

CleanUpEncoder == CleanUpAt("feedback", "close sender") /\ EncoderCleanup
CloseSender == CleanUpAt("close sender", "close receiver") /\ SenderClose
CloseBitstream == CleanUpAt("close bitstream", "returning") /\ BitstreamClose
=============================================================================
