------------------------ MODULE DecoderOutput_proofs ------------------------
(***************************************************************************)
(* Proofs about DecoderOutput, for any number of openings, pictures and    *)
(* failing writes.  The heart is FileTracksDecoder: while the stream is    *)
(* good the file holds the header and all the pictures vvdec has handed    *)
(* out, so the next chunk always fits.                                     *)
(***************************************************************************)
EXTENDS DecoderOutput, TLAPS

Chunk == Pictures \cup {Header, Torn}

\* While the file is open and good it has every picture so far, and the header
\* before them (Header is -1, so chunk i is i - 2 throughout).
FileTracksDecoder ==
  fileOpen /\ ~fileBad =>
    /\ Len(written) = IF nextSeq = 0 THEN 0 ELSE nextSeq + 1
    /\ \A i \in 1..Len(written) : written[i] = i - 2

\* A file that is open and bad is no longer than its pictures allow.
FileBounded == fileOpen => Len(written) <= nextSeq + 1

IInv == TypeOK /\ OwnedWhileInitialized /\ FileWellFormed /\ FileTracksDecoder /\ FileBounded

\* What the chunks of a picture are, with the header and without.
LEMMA Chunks ==
  ASSUME NEW seq \in Pictures
  PROVE  /\ ChunksOf(seq) \in Seq(Chunk)
         /\ seq = 0 => ChunksOf(seq) = <<Header, seq>>
         /\ seq # 0 => ChunksOf(seq) = <<seq>>
<1>1. seq \in Chunk /\ Header \in Chunk
  BY DEF Chunk
<1>2. <<Header, seq>> \in Seq(Chunk) /\ <<seq>> \in Seq(Chunk)
  BY <1>1
<1>. QED
  BY <1>2 DEF ChunksOf, NeedsHeader

\* Nothing is open in the beginning and nothing has been written.
LEMMA InitInv == Init => IInv
<1>. SUFFICES ASSUME Init PROVE IInv
  OBVIOUS
<1>1. opens \in 0..MaxOpens /\ nextSeq \in 0..MaxPictures
  BY DecoderOutputAssumption DEF Init
<1>2. written \in Seq(Chunk) /\ Len(written) = 0 /\ held \subseteq Pictures
  BY DEF Init
<1>3. Len(written) <= MaxPictures + 1
  BY <1>2, DecoderOutputAssumption
<1>4. TypeOK
  BY <1>1, <1>2, <1>3, Zenon DEF Init, TypeOK, Chunk
<1>5. OwnedWhileInitialized
  BY DEF Init, OwnedWhileInitialized
<1>6. FileWellFormed /\ FileTracksDecoder /\ FileBounded
  BY <1>1, <1>2 DEF Init, FileWellFormed, FileTracksDecoder, FileBounded
<1>. QED
  BY <1>4, <1>5, <1>6 DEF IInv

\* Initialize truncates a file before it opens it for pictures.
LEMMA InitializeInv == IInv /\ Initialize => IInv'
<1>. SUFFICES ASSUME IInv, Initialize PROVE IInv'
  OBVIOUS
<1>1. ~initialized /\ ~fileOpen /\ ~decoderOpen /\ ~payload /\ held = {}
  BY DEF IInv, OwnedWhileInitialized, Initialize, BeginInitialize, InitializeFailsAtFile,
     InitializeFailsAtDecoder, InitializeFailsAtPayload, InitializeSucceeds
<1>2. opens' \in 0..MaxOpens
  BY DecoderOutputAssumption DEF IInv, TypeOK, Initialize, BeginInitialize,
     InitializeFailsAtFile, InitializeFailsAtDecoder, InitializeFailsAtPayload,
     InitializeSucceeds
<1>3. nextSeq' \in 0..MaxPictures /\ held' = {}
  BY <1>1, DecoderOutputAssumption DEF IInv, TypeOK, Initialize, vvdecVars,
     InitializeFailsAtFile, InitializeFailsAtDecoder, InitializeFailsAtPayload,
     InitializeSucceeds
<1>4. \/ written' = <<>> /\ fileBad' = FALSE
      \/ UNCHANGED <<fileBad, written>> /\ ~fileOpen'
  BY <1>1 DEF Initialize, TruncateFile, fileVars, InitializeFailsAtFile,
     InitializeFailsAtDecoder, InitializeFailsAtPayload, InitializeSucceeds
<1>5. /\ decoderOpen' = initialized' /\ payload' = initialized'
      /\ fileOpen' \in BOOLEAN /\ initialized' \in BOOLEAN
      /\ fileOpen' => initialized' /\ nextSeq' = 0
  <2>1. /\ initialized = FALSE /\ decoderOpen = FALSE /\ payload = FALSE /\ fileOpen = FALSE
    BY <1>1 DEF IInv, TypeOK
  <2>2. CASE InitializeFailsAtFile
    BY <2>1, <2>2, Zenon DEF fileVars, InitializeFailsAtFile
  <2>3. CASE InitializeFailsAtDecoder
    BY <2>1, <2>3, Zenon DEF InitializeFailsAtDecoder
  <2>4. CASE InitializeFailsAtPayload
    BY <2>1, <2>4, Zenon DEF InitializeFailsAtPayload
  <2>5. CASE InitializeSucceeds
    BY <2>1, <2>5, Zenon DEF fileVars, InitializeSucceeds
  <2>. QED
    BY <2>2, <2>3, <2>4, <2>5 DEF Initialize
<1>6. /\ written' \in Seq(Chunk) /\ Len(written') <= MaxPictures + 1
      /\ fileBad' \in BOOLEAN
  <2>1. CASE written' = <<>> /\ fileBad' = FALSE
    <3>1. written' \in Seq(Chunk) /\ Len(written') <= MaxPictures + 1
      BY <2>1, DecoderOutputAssumption
    <3>. QED
      BY <2>1, <3>1
  <2>2. CASE UNCHANGED <<fileBad, written>>
    BY <2>2 DEF IInv, TypeOK, Chunk
  <2>. QED
    BY <2>1, <2>2, <1>4
<1>7. TypeOK'
  BY <1>2, <1>3, <1>5, <1>6 DEF TypeOK, Chunk
<1>8. OwnedWhileInitialized'
  BY <1>3, <1>5 DEF OwnedWhileInitialized
<1>9. (FileWellFormed /\ FileTracksDecoder /\ FileBounded)'
  BY <1>4, <1>5 DEF IInv, FileWellFormed, FileTracksDecoder, FileBounded
<1>. QED
  BY <1>7, <1>8, <1>9 DEF IInv

\* A picture written whole comes behind all the earlier ones.
LEMMA WriteWholeInv ==
  ASSUME IInv, fileOpen, nextSeq < MaxPictures, nextSeq' = nextSeq + 1,
         WriteWhole(nextSeq), UNCHANGED fileOpen
  PROVE  /\ written' \in Seq(Chunk) /\ Len(written') <= MaxPictures + 1
         /\ (FileWellFormed /\ FileTracksDecoder /\ FileBounded)'
<1>. DEFINE c == ChunksOf(nextSeq)
<1>1. nextSeq \in Pictures /\ MaxPictures \in Nat
  BY DecoderOutputAssumption DEF IInv, TypeOK, Pictures
<1>2. written \in Seq(Chunk) /\ c \in Seq(Chunk)
  BY <1>1, Chunks DEF IInv, TypeOK, Chunk
<1>3. written' = written \o c /\ ~fileBad /\ ~fileBad'
  BY DEF WriteWhole
<1>. HIDE DEF c
<1>4. /\ Len(written) = IF nextSeq = 0 THEN 0 ELSE nextSeq + 1
      /\ \A i \in 1..Len(written) : written[i] = i - 2
  BY <1>3 DEF IInv, FileTracksDecoder
<1>5. Len(c) = (IF nextSeq = 0 THEN 2 ELSE 1)
      /\ \A j \in 1..Len(c) : c[j] = Len(written) + j - 2
  BY <1>1, <1>4, Chunks DEF c, Pictures, Header
<1>6. /\ written' \in Seq(Chunk)
      /\ Len(written') = Len(written) + Len(c)
      /\ \A i \in 1..Len(written') :
           written'[i] = IF i <= Len(written) THEN written[i] ELSE c[i - Len(written)]
  BY <1>2, <1>3
<1>7. Len(written') = nextSeq + 2
  BY <1>1, <1>4, <1>5, <1>6 DEF Pictures
<1>8. \A i \in 1..Len(written') : written'[i] = i - 2
  BY <1>1, <1>2, <1>4, <1>5, <1>6, <1>7 DEF Pictures
<1>9. FileTracksDecoder' /\ FileBounded'
  BY <1>1, <1>7, <1>8 DEF FileTracksDecoder, FileBounded, Pictures
<1>10. FileWellFormed'
  BY <1>8 DEF FileWellFormed, Header
<1>. QED
  BY <1>1, <1>6, <1>7, <1>9, <1>10 DEF Pictures

\* A write that fails leaves a beginning of the chunks, and something torn.
LEMMA WriteCutShortInv ==
  ASSUME IInv, fileOpen, nextSeq < MaxPictures, nextSeq' = nextSeq + 1,
         WriteCutShort(nextSeq), UNCHANGED fileOpen
  PROVE  /\ written' \in Seq(Chunk) /\ Len(written') <= MaxPictures + 1
         /\ (FileWellFormed /\ FileTracksDecoder /\ FileBounded)'
<1>1. nextSeq \in Pictures /\ MaxPictures \in Nat
  BY DecoderOutputAssumption DEF IInv, TypeOK, Pictures
<1>2. written \in Seq(Chunk) /\ ~fileBad /\ fileBad' = TRUE
  BY DEF IInv, TypeOK, Chunk, WriteCutShort
<1>3. /\ Len(written) = IF nextSeq = 0 THEN 0 ELSE nextSeq + 1
      /\ \A i \in 1..Len(written) : written[i] = i - 2
  BY <1>2 DEF IInv, FileTracksDecoder
<1>4. \/ written' = written \o <<Torn>>
      \/ nextSeq = 0 /\ written' = written \o <<Header, Torn>>
  BY DEF WriteCutShort, NeedsHeader
<1>5. Torn \in Chunk /\ Header \in Chunk
  BY DEF Chunk
<1>6. /\ written' \in Seq(Chunk)
      /\ Len(written') <= nextSeq + 2
      /\ written'[Len(written')] = Torn
      /\ \A i \in 1..(Len(written') - 1) : written'[i] = i - 2
  <2>1. CASE written' = written \o <<Torn>>
    BY <2>1, <1>1, <1>2, <1>3, <1>5 DEF Pictures
  <2>2. CASE nextSeq = 0 /\ written' = written \o <<Header, Torn>>
    <3>1. written = <<>>
      BY <2>2, <1>2, <1>3
    <3>2. written' = <<Header, Torn>>
      BY <2>2, <3>1
    <3>3. <<Header, Torn>> \in Seq(Chunk)
      BY <1>5
    <3>4. Len(written') = 2 /\ written'[1] = Header /\ written'[2] = Torn
      BY <3>2
    <3>5. \A i \in 1..(Len(written') - 1) : written'[i] = i - 2
      BY <3>4 DEF Header
    <3>6. written' \in Seq(Chunk)
      BY <3>2, <3>3, Zenon
    <3>. QED
      BY <2>2, <3>4, <3>5, <3>6
  <2>. QED
    BY <2>1, <2>2, <1>4
<1>7. FileWellFormed'
  BY <1>1, <1>6 DEF FileWellFormed, Header, Pictures
<1>. QED
  BY <1>1, <1>2, <1>6, <1>7 DEF FileTracksDecoder, FileBounded, Pictures

\* Decoding and writing a picture keeps the file well-formed.
LEMMA DecodeInv == IInv /\ DecodeAndWriteFrame => IInv'
<1>. SUFFICES ASSUME IInv, DecodeAndWriteFrame PROVE IInv'
  OBVIOUS
<1>1. /\ decoderOpen /\ initialized /\ nextSeq < MaxPictures
      /\ nextSeq' = nextSeq + 1 /\ held' = held \cup {nextSeq}
      /\ UNCHANGED <<opens, decoderOpen, payload, initialized, fileOpen>>
  BY DEF DecodeAndWriteFrame, DecodeFrame
<1>2. nextSeq \in Pictures /\ nextSeq' \in 0..MaxPictures
  BY <1>1, DecoderOutputAssumption DEF IInv, TypeOK, Pictures
<1>3. held' \subseteq Pictures
  BY <1>1, <1>2 DEF IInv, TypeOK, DecodeAndWriteFrame
<1>4. OwnedWhileInitialized'
  BY <1>1 DEF IInv, OwnedWhileInitialized
<1>5. /\ written' \in Seq(Chunk) /\ Len(written') <= MaxPictures + 1 /\ fileBad' \in BOOLEAN
      /\ (FileWellFormed /\ FileTracksDecoder /\ FileBounded)'
  <2>1. CASE fileOpen /\ WriteWhole(nextSeq)
    BY <2>1, <1>1, WriteWholeInv DEF WriteWhole
  <2>2. CASE fileOpen /\ WriteCutShort(nextSeq)
    BY <2>2, <1>1, WriteCutShortInv DEF WriteCutShort
  <2>3. CASE fileOpen /\ WriteIgnored
    BY <2>3, <1>1, <1>2 DEF WriteIgnored, IInv, TypeOK, Chunk, FileWellFormed,
       FileTracksDecoder, FileBounded, Pictures
  <2>4. CASE ~fileOpen /\ UNCHANGED <<fileBad, written>>
    BY <2>4, <1>1 DEF IInv, TypeOK, Chunk, FileWellFormed, FileTracksDecoder, FileBounded
  <2>. QED
    BY <2>1, <2>2, <2>3, <2>4 DEF DecodeAndWriteFrame
<1>6. TypeOK'
  BY <1>1, <1>2, <1>3, <1>5 DEF IInv, TypeOK, Chunk
<1>. QED
  BY <1>4, <1>5, <1>6 DEF IInv

\* Cleanup closes everything and leaves the file as it is.
LEMMA CleanupInv == IInv /\ Cleanup => IInv'
<1>. SUFFICES ASSUME IInv, Cleanup PROVE IInv'
  OBVIOUS
<1>1. TypeOK'
  <2>1. 0 \in 0..MaxPictures
    BY DecoderOutputAssumption
  <2>. QED
    BY <2>1, Zenon DEF IInv, TypeOK, Cleanup
<1>2. (OwnedWhileInitialized /\ FileWellFormed /\ FileTracksDecoder /\ FileBounded)'
  BY DEF IInv, Cleanup, OwnedWhileInitialized, FileWellFormed, FileTracksDecoder, FileBounded
<1>. QED
  BY <1>1, <1>2 DEF IInv

\* IInv is an invariant: it holds initially and every step keeps it.
THEOREM Inductive == Spec => []IInv
<1>1. IInv /\ [Next]_vars => IInv'
  <2>1. IInv /\ UNCHANGED vars => IInv'
    BY DEF vars, vvdecVars, fileVars, IInv, TypeOK, OwnedWhileInitialized, FileWellFormed,
       FileTracksDecoder, FileBounded
  <2>. QED
    BY <2>1, InitializeInv, DecodeInv, CleanupInv DEF Next
<1>. QED
  BY InitInv, <1>1, PTL DEF Spec

\* Every variable keeps its type.
THEOREM TypeCorrect == Spec => []TypeOK
<1>1. IInv => TypeOK
  BY DEF IInv
<1>. QED
  BY Inductive, <1>1, PTL

\* The output file is always the beginning of a Y4M stream.
THEOREM FileCorrect == Spec => []FileWellFormed
<1>1. IInv => FileWellFormed
  BY DEF IInv
<1>. QED
  BY Inductive, <1>1, PTL

\* No failure of Initialize and no Cleanup leaves anything open.
THEOREM NothingLeftOpen == Spec => []OwnedWhileInitialized
<1>1. IInv => OwnedWhileInitialized
  BY DEF IInv
<1>. QED
  BY Inductive, <1>1, PTL
=============================================================================
