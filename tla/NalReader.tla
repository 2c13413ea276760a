----------------------------- MODULE NalReader -----------------------------
(***************************************************************************)
(* readBitstreamFromFile: cuts an Annex B byte stream into NAL units, one  *)
(* per call, the way the decoder test program calls it until it returns    *)
(* -1.  A call reads five bytes, then byte after byte until it has read    *)
(* the next start code, and goes back before that start code.              *)
(*                                                                         *)
(* unit holds the bytes this call has put into the payload.  At the end of *)
(* the file the read puts nothing there: what the code then tests is an    *)
(* old byte of the buffer, here any byte.  bLoop is FALSE in every call of *)
(* the repository and its branches are left out.                           *)
(***************************************************************************)
EXTENDS Integers, Sequences

CONSTANTS
  Files,         \* the files there may be: [bytes, cuts], cut into NAL units at cuts
  Bytes,         \* byte values that occur; 0 and 1 make start codes
  PayloadSize    \* payloadSize at the start, at least 5

ASSUME NalReaderAssumption ==
  /\ PayloadSize \in Nat /\ PayloadSize >= 5
  /\ {0, 1} \subseteq Bytes
  /\ \A f \in Files : f.bytes \in Seq(Bytes) /\ f.cuts \in Seq(0..Len(f.bytes))

VARIABLES
  file,          \* the bytes of the file
  cuts,          \* where its NAL units end
  filePos,       \* the position in the file
  eof,           \* eofbit and failbit: a read has met the end of the file
  curfilpos,     \* where this call has begun, -1 if the stream had failed
  state,         \* "idle" between calls, "scan" in the loop, "done" after -1
  unit,          \* the bytes in the payload that this call has read
  pos,           \* pos
  payloadSize,   \* pcAccessUnit->payloadSize
  units          \* history: the units returned so far, [from, bytes]

vars == <<file, cuts, filePos, eof, curfilpos, state, unit, pos, payloadSize, units>>

Remaining == Len(file) - filePos

Init ==
  /\ \E f \in Files : file = f.bytes /\ cuts = f.cuts
  /\ filePos = 0 /\ eof = FALSE /\ curfilpos = 0 /\ state = "idle"
  /\ unit = <<>> /\ pos = 0 /\ payloadSize = PayloadSize
  /\ units = <<>>

\* The call returns -1 and the caller calls no more.
ReturnsNothing ==
  /\ state' = "done"
  /\ UNCHANGED <<file, cuts, payloadSize, units>>

\* The call returns u.
Returns(u) ==
  /\ units' = Append(units, [from |-> curfilpos, bytes |-> u])
  /\ state' = "idle"
  /\ unit' = <<>> /\ pos' = 0

\* tellg() reports -1 once the stream has failed.
CallAtEnd ==
  /\ state = "idle"
  /\ eof
  /\ curfilpos' = -1
  /\ ReturnsNothing
  /\ UNCHANGED <<filePos, eof, unit, pos>>

\* "jump over possible start code": read five bytes, of which four must be there.
FirstBytes == 5
CallReadsStart ==
  /\ state = "idle"
  /\ ~eof
  /\ LET extracted == IF Remaining < FirstBytes THEN Remaining ELSE FirstBytes
     IN /\ curfilpos' = filePos
        /\ unit' = SubSeq(file, filePos + 1, filePos + extracted)
        /\ filePos' = filePos + extracted
        /\ eof' = (extracted < FirstBytes)
        /\ pos' = FirstBytes
        /\ \/ extracted < 4 /\ ReturnsNothing
           \/ /\ extracted >= 4
              /\ state' = "scan"
              /\ UNCHANGED <<file, cuts, payloadSize, units>>

\* retrieveNalStartCode at the last bytes of s: zeros and then a 1
EndsInStartCode(s, zeros) ==
  /\ s[Len(s)] = 1
  /\ \A i \in 1..zeros : s[Len(s) - i] = 0

\* Bytes to go back over, 0 if s does not end in a start code.
Rewind_AlwaysThree(s) == IF EndsInStartCode(s, 2) THEN 3 ELSE 0
Rewind(s) ==
  IF EndsInStartCode(s, 3) THEN 4 ELSE IF EndsInStartCode(s, 2) THEN 3 ELSE 0

\* The seek back to the start code.
SeekBack_OneShort(n) == filePos + 1 - (n - 1)
SeekBack_ToBegin(n) == curfilpos
SeekBack(n) == filePos + 1 - n

\* The payload is doubled when it is full.
GrownPayload_Late == IF pos > payloadSize THEN 2 * payloadSize ELSE payloadSize
GrownPayload == IF pos >= payloadSize THEN 2 * payloadSize ELSE payloadSize

\* Or it cannot be allocated: the call returns -1 in the middle of a unit.
GrowFails ==
  /\ state = "scan"
  /\ ~eof
  /\ pos >= payloadSize
  /\ ReturnsNothing
  /\ UNCHANGED <<filePos, eof, curfilpos, unit, pos>>

\* A turn of the loop that reads the next byte of the file.
ScanByte ==
  /\ state = "scan"
  /\ ~eof
  /\ Remaining > 0
  /\ payloadSize' = GrownPayload
  /\ LET read == Append(unit, file[filePos + 1])
         back == Rewind(read)
     IN \/ /\ back = 0
           /\ unit' = read
           /\ pos' = pos + 1
           /\ filePos' = filePos + 1
           /\ UNCHANGED <<state, units>>
        \/ /\ back > 0
           /\ Returns(SubSeq(read, 1, pos + 1 - back))
           /\ filePos' = SeekBack(back)
  /\ UNCHANGED <<file, cuts, eof, curfilpos>>

\* A turn of the loop that meets the end of the file: old is what was in the
\* payload at pos.  If that makes a start code, seekg refuses to go back.
ScanPastEnd(old) ==
  /\ state = "scan"
  /\ ~eof
  /\ Remaining = 0
  /\ eof' = TRUE
  /\ \/ /\ Rewind(Append(unit, old)) = 0
        /\ pos' = pos + 1
        /\ UNCHANGED <<state, units>>
     \/ /\ Rewind(Append(unit, old)) > 0
        /\ state' = "done"
        /\ UNCHANGED <<pos, units>>
  /\ payloadSize' = GrownPayload
  /\ UNCHANGED <<file, cuts, filePos, curfilpos, unit>>

\* The turn of the loop after that returns what has been read, without the byte
\* that was not there; five bytes or fewer are no unit.
HasUnit == pos > 5
ScanEnds_WithoutElse ==
  /\ state = "scan"
  /\ eof
  /\ HasUnit
  /\ Returns(SubSeq(unit, 1, pos - 1))
  /\ UNCHANGED <<file, cuts, payloadSize, filePos, eof, curfilpos>>
ScanEnds ==
  /\ state = "scan"
  /\ eof
  /\ \/ /\ HasUnit
        /\ Returns(SubSeq(unit, 1, pos - 1))
        /\ UNCHANGED <<file, cuts, payloadSize>>
     \/ /\ ~HasUnit
        /\ ReturnsNothing
        /\ UNCHANGED <<unit, pos>>
  /\ UNCHANGED <<filePos, eof, curfilpos>>

Next ==
  \/ CallAtEnd \/ CallReadsStart \/ GrowFails \/ ScanByte \/ ScanEnds
  \/ \E old \in Bytes : ScanPastEnd(old)

Spec == Init /\ [][Next]_vars

-----------------------------------------------------------------------------
(***************************************************************************)
(* Properties.                                                             *)
(***************************************************************************)
\* Types; every byte that is read has its place in the payload.
TypeOK ==
  /\ file \in Seq(Bytes) /\ cuts \in Seq(0..Len(file))
  /\ filePos \in 0..Len(file) /\ eof \in BOOLEAN /\ curfilpos \in -1..Len(file)
  /\ state \in {"idle", "scan", "done"}
  /\ unit \in Seq(Bytes) /\ pos \in Nat
  /\ payloadSize \in Nat /\ Len(unit) <= payloadSize
  /\ units \in Seq([from : 0..Len(file), bytes : Seq(Bytes)])

\* A NAL unit with its start code: a header of two bytes at least, no two zeros
\* before a 0, 1 or 2 after the start code, and no zero at the end.
IsNal(n) ==
  \E zeros \in {2, 3} :
    /\ Len(n) >= zeros + 3
    /\ \A i \in 1..zeros : n[i] = 0
    /\ n[zeros + 1] = 1
    /\ \A i \in zeros + 2 .. Len(n) - 2 : ~(n[i] = 0 /\ n[i + 1] = 0 /\ n[i + 2] \in {0, 1, 2})
    /\ n[Len(n)] # 0

CutAt(i) == IF i = 0 THEN 0 ELSE cuts[i]
Nal(i) == SubSeq(file, CutAt(i - 1) + 1, CutAt(i))

\* The file is one NAL unit after another.
WellFormed ==
  /\ CutAt(Len(cuts)) = Len(file)
  /\ \A i \in 1..Len(cuts) : IsNal(Nal(i))

End(u) == u.from + Len(u.bytes)
EndOfUnits == IF units = <<>> THEN 0 ELSE End(units[Len(units)])

\* For a file of any bytes, also one cut off within a unit: what is returned is
\* the beginning of the file, piece by piece, with no byte twice, left out or not
\* in the file.
UnitsFromFile ==
  \A i \in 1..Len(units) :
    /\ units[i].from = IF i = 1 THEN 0 ELSE End(units[i - 1])
    /\ End(units[i]) <= Len(file)
    /\ units[i].bytes = SubSeq(file, units[i].from + 1, End(units[i]))

\* Each call on a well-formed file returns the next NAL unit with its start code,
\* of three bytes or four, whatever old bytes are in the buffer, and leaves the
\* file at the next start code.
UnitsAreNals ==
  WellFormed =>
    /\ Len(units) <= Len(cuts)
    /\ \A i \in 1..Len(units) : units[i].bytes = Nal(i)
    /\ state = "idle" => filePos = CutAt(Len(units))
=============================================================================
