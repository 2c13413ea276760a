---------------------------- MODULE FrameStream ----------------------------
(***************************************************************************)
(* What the capture and encoder threads of the sender promise together,    *)
(* with the threads, the mutex and the condition variables left out: the   *)
(* frames of the file are read one at a time, each is encoded before the   *)
(* next one is read, and the sender ends normally only when every frame it *)
(* was asked for has been encoded.                                         *)
(***************************************************************************)
EXTENDS Integers

VARIABLES
  goal,     \* how many frames the sender is asked to encode
  read,     \* frames taken from the file
  encoded,  \* frames given to the encoder
  ending    \* "open" while it runs, then "complete" or "cut" (encoder gave up)

vars == <<goal, read, encoded, ending>>

Init ==
  /\ goal \in Nat
  /\ read = 0
  /\ encoded = 0
  /\ ending = "open"

Read ==
  /\ ending = "open"
  /\ read = encoded
  /\ read < goal
  /\ read' = read + 1
  /\ UNCHANGED <<goal, encoded, ending>>

Encode ==
  /\ ending = "open"
  /\ encoded < read
  /\ encoded' = encoded + 1
  /\ UNCHANGED <<goal, read, ending>>

Complete ==
  /\ ending = "open"
  /\ encoded = goal
  /\ read = goal
  /\ ending' = "complete"
  /\ UNCHANGED <<goal, read, encoded>>

\* vvenc reports an error, or says that encoding is over, before the last frame.
CutShort ==
  /\ ending = "open"
  /\ ending' = "cut"
  /\ UNCHANGED <<goal, read, encoded>>

Next == Read \/ Encode \/ Complete \/ CutShort

Spec == Init /\ [][Next]_vars
=============================================================================
