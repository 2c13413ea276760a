--------------------------- MODULE FrameDelivery ---------------------------
(***************************************************************************)
(* What the path from Encoder::WriteEncodedData to the decoder promises    *)
(* when packets may be lost, delayed, reordered or delivered twice:        *)
(* only frames that were sent are decoded, each from its own packets and   *)
(* all of them, and none a second time, except one so old that the         *)
(* receiver has already forgotten it.                                      *)
(***************************************************************************)
EXTENDS Integers, Sequences

CONSTANTS
  Window,  \* how many frames behind the newest one are remembered
  Frame    \* the frames there may be: records with a frame number and a total

VARIABLES
  offered,  \* frames the sender has begun to send, as [frame, total] records
  shown     \* the frames given to vvdec, in that order

vars == <<offered, shown>>

Init == offered = {} /\ shown = <<>>

\* The encoder numbers its frames upwards.
Offer(f) ==
  /\ \A g \in offered : g.frame < f.frame
  /\ offered' = offered \cup {f}
  /\ shown' = shown

Forgotten(f) == \E i \in 1..Len(shown) : shown[i].frame > f.frame + Window

Show(f) ==
  /\ \A i \in 1..Len(shown) : shown[i] = f => Forgotten(f)
  /\ shown' = Append(shown, f)
  /\ offered' = offered

Next ==
  \/ \E f \in Frame : Offer(f)
  \/ \E f \in offered : Show(f)

Spec == Init /\ [][Next]_vars
=============================================================================
