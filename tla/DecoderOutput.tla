--------------------------- MODULE DecoderOutput ---------------------------
(***************************************************************************)
(* The receiver's Decoder from a complete frame on: its life (Initialize,  *)
(* Cleanup), vvdec, and the Y4M file.  DecodeAndWriteFrame passes a frame  *)
(* to vvdec and writes the picture vvdec hands out, if it hands one out.   *)
(*                                                                         *)
(* The file is a sequence of chunks: the stream header, the number of a    *)
(* picture that was written whole, or what a failing write leaves.  vvdec  *)
(* (external) numbers the pictures it hands out from 0, and owns each      *)
(* until vvdec_frame_unref or vvdec_decoder_close.                         *)
(***************************************************************************)
EXTENDS Integers, Sequences

CONSTANTS
  MaxPictures,  \* bound: pictures one vvdec instance hands out
  MaxOpens      \* bound: calls of Initialize

ASSUME DecoderOutputAssumption == MaxPictures \in Nat /\ MaxOpens \in Nat

VARIABLES
  opens,        \* calls of Initialize so far
  decoderOpen,  \* decoder_ # nullptr
  payload,      \* access_unit_.payload # nullptr
  initialized,  \* initialized_
  nextSeq,      \* vvdec: sequenceNumber of the next picture
  held,         \* vvdec: pictures handed out and not given back
  fileOpen,     \* output_stream_.is_open()
  fileBad,      \* output_stream_.fail()
  written       \* the chunks in the file

vvdecVars == <<nextSeq, held>>
fileVars == <<fileOpen, fileBad, written>>
vars == <<opens, decoderOpen, payload, initialized, vvdecVars, fileVars>>

Header == -1
Torn == -2
Pictures == 0..(MaxPictures - 1)

Init ==
  /\ opens = 0
  /\ decoderOpen = FALSE /\ payload = FALSE /\ initialized = FALSE
  /\ nextSeq = 0 /\ held = {}
  /\ fileOpen = FALSE /\ fileBad = FALSE /\ written = <<>>

(***************************************************************************)
(* Initialize, which does nothing on a decoder that is initialized.        *)
(***************************************************************************)
BeginInitialize ==
  /\ ~initialized
  /\ opens < MaxOpens
  /\ opens' = opens + 1

\* output_stream_.open fails: nothing has been opened.
InitializeFailsAtFile ==
  /\ BeginInitialize
  /\ UNCHANGED <<decoderOpen, payload, initialized, vvdecVars, fileVars>>

\* open(..., trunc) succeeds and clears the state of the stream.
TruncateFile_Appends == fileBad' = FALSE /\ written' = written
TruncateFile == fileBad' = FALSE /\ written' = <<>>

\* vvdec_decoder_open fails.  The file, if one was asked for, is closed again.
InitializeFailsAtDecoder ==
  /\ BeginInitialize
  /\ TruncateFile \/ UNCHANGED <<fileBad, written>>
  /\ UNCHANGED <<decoderOpen, payload, initialized, vvdecVars, fileOpen>>

\* vvdec_accessUnit_alloc_payload fails, with vvdec and perhaps the file open.
InitializeFailsAtPayload_KeepsDecoder ==
  /\ BeginInitialize
  /\ decoderOpen' = TRUE
  /\ nextSeq' = 0 /\ held' = {}
  /\ TruncateFile \/ UNCHANGED <<fileBad, written>>
  /\ UNCHANGED <<payload, initialized, fileOpen>>
InitializeFailsAtPayload ==
  /\ BeginInitialize
  /\ decoderOpen' = FALSE
  /\ nextSeq' = 0 /\ held' = {}
  /\ TruncateFile \/ UNCHANGED <<fileBad, written>>
  /\ UNCHANGED <<payload, initialized, fileOpen>>

\* Everything is opened; the file only if one was named.
InitializeSucceeds ==
  /\ BeginInitialize
  /\ decoderOpen' = TRUE /\ payload' = TRUE /\ initialized' = TRUE
  /\ nextSeq' = 0 /\ held' = {}
  /\ \/ fileOpen' = TRUE /\ TruncateFile
     \/ UNCHANGED fileVars

Initialize ==
  \/ InitializeFailsAtFile \/ InitializeFailsAtDecoder \/ InitializeFailsAtPayload
  \/ InitializeSucceeds

(***************************************************************************)
(* DecodeAndWriteFrame.                                                    *)
(***************************************************************************)
\* vvdec_decode returns VVDEC_OK with picture number nextSeq.  Nobody gives it
\* back: the call of ReleaseFrame is commented out.
DecodeFrame ==
  /\ decoderOpen /\ initialized
  /\ nextSeq < MaxPictures
  /\ nextSeq' = nextSeq + 1
  /\ held' = held \cup {nextSeq}

\* writeY4MHeader
NeedsHeader_FirstTwo(seq) == seq <= 1
NeedsHeader(seq) == seq = 0

\* The chunks of picture seq.
ChunksOf(seq) == IF NeedsHeader(seq) THEN <<Header, seq>> ELSE <<seq>>

\* Picture seq, if there is a file: written whole; cut short by a failure of the
\* stream; or ignored, as the stream has failed before.  writeYUVToFile returns 0
\* in all three cases, and the flush that follows finds out.
WriteWhole(seq) ==
  /\ ~fileBad
  /\ written' = written \o ChunksOf(seq)
  /\ fileBad' = FALSE

WriteCutShort(seq) ==
  /\ ~fileBad
  /\ \/ written' = written \o <<Torn>>
     \/ NeedsHeader(seq) /\ written' = written \o <<Header, Torn>>
  /\ fileBad' = TRUE

WriteIgnored ==
  /\ fileBad
  /\ UNCHANGED <<written, fileBad>>

DecodeAndWriteFrame ==
  /\ DecodeFrame
  /\ \/ /\ fileOpen
        /\ WriteWhole(nextSeq) \/ WriteCutShort(nextSeq) \/ WriteIgnored
     \/ /\ ~fileOpen
        /\ UNCHANGED <<fileBad, written>>
  /\ UNCHANGED <<opens, decoderOpen, payload, initialized, fileOpen>>

(***************************************************************************)
(* Cleanup.  It may be called in every state, also by the destructor.      *)
(***************************************************************************)
Cleanup ==
  /\ decoderOpen \/ initialized
  /\ decoderOpen' = FALSE /\ payload' = FALSE /\ initialized' = FALSE
  /\ nextSeq' = 0 /\ held' = {}
  /\ fileOpen' = FALSE
  /\ UNCHANGED <<opens, fileBad, written>>

Next == Initialize \/ DecodeAndWriteFrame \/ Cleanup

Spec == Init /\ [][Next]_vars

-----------------------------------------------------------------------------
(***************************************************************************)
(* Properties.                                                             *)
(***************************************************************************)
\* Types; the file has at most a header and one chunk for each picture.
TypeOK ==
  /\ opens \in 0..MaxOpens
  /\ decoderOpen \in BOOLEAN /\ payload \in BOOLEAN /\ initialized \in BOOLEAN
  /\ nextSeq \in 0..MaxPictures /\ held \subseteq Pictures
  /\ fileOpen \in BOOLEAN /\ fileBad \in BOOLEAN
  /\ written \in Seq(Pictures \cup {Header, Torn}) /\ Len(written) <= MaxPictures + 1

\* The file is the beginning of a Y4M stream at all times, also after failed
\* writes and when the decoder is opened anew: one header, then the pictures from
\* 0 on, each once and in order, and nothing behind a torn one.  These are decoded
\* pictures, as for "--file=result/rec.y4m" and as in writeYUVToFile.  Two other
\* places say that the file has the encoded frames: "saves the encoded bitstream to
\* a file" in README.md and "writing encoded frames" in decoder.h.  The code that
\* wrote those is commented out.
FileWellFormed ==
  \A i \in 1..Len(written) :
    \/ written[i] = Torn /\ i = Len(written)
    \/ written[i] = Header /\ i = 1
    \/ written[i] = i - 2 /\ i > 1

\* Initialize gives back what it opened when a later step of it fails, and Cleanup
\* whatever the decoder owns; a decoder that is initialized owns all it needs.
OwnedWhileInitialized ==
  /\ decoderOpen = initialized /\ payload = initialized
  /\ fileOpen \/ held # {} => initialized
=============================================================================
