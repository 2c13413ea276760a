--------------------------- MODULE MCFrameHandoff ---------------------------
(***************************************************************************)
(* Small instances of FrameHandoff: files of zero to four frames, every    *)
(* kind of limit (negative, zero, below, at and above the file's length).  *)
(***************************************************************************)
EXTENDS FrameHandoff

MCFileLengths == 0..4
MCFrameLimits == {-1, 0, 1, 3, 4, 6}
=============================================================================
