----------------------------- MODULE DecodeTest -----------------------------
(***************************************************************************)
(* main() of the decoder test program: it opens the files and vvdec, gives *)
(* vvdec one NAL unit after the other, as readBitstreamFromFile returns    *)
(* them, and after the last one an empty access unit, which asks vvdec for *)
(* a picture it has kept back.                                             *)
(***************************************************************************)
EXTENDS NalReader

VARIABLES
  turn,           \* "start", the two halves of a turn of the loop, "returned"
  given,          \* history: the access units given to vvdec_decode
  bFlushDecoder   \* vvdec_decode has returned VVDEC_EOF

testVars == <<turn, given, bFlushDecoder>>
allVars == <<vars, testVars>>

TestInit ==
  /\ Init
  /\ turn = "start" /\ given = <<>> /\ bFlushDecoder = FALSE

\* Output file, input file and vvdec are opened, or one of them cannot be.
Open ==
  /\ turn = "start"
  /\ turn' \in {"read", "returned"}
  /\ UNCHANGED <<vars, given, bFlushDecoder>>

\* A step of readBitstreamFromFile.
Read ==
  /\ turn = "read"
  /\ Next
  /\ turn' = IF state' = "scan" THEN "read" ELSE "decode"
  /\ UNCHANGED <<given, bFlushDecoder>>

\* The call has returned -1 and left payloadUsedSize 0.
NoMore == state = "done"
AccessUnit == IF NoMore THEN <<>> ELSE units[Len(units)].bytes

\* "while( iRead > 0 && !bFlushDecoder )"
GoesOn_TillEof == ~eof /\ ~bFlushDecoder'
GoesOn == ~NoMore /\ ~bFlushDecoder'

\* vvdec_decode returns VVDEC_OK, VVDEC_TRY_AGAIN or VVDEC_ERR_DEC_INPUT, or it
\* returns VVDEC_EOF; a picture, if there is one, is written.
Decode ==
  /\ turn = "decode"
  /\ given' = Append(given, AccessUnit)
  /\ bFlushDecoder' \in BOOLEAN
  /\ turn' = IF GoesOn THEN "read" ELSE "close"
  /\ UNCHANGED vars

\* vvdec_decode fails, or the picture cannot be written.
DecodeFails ==
  /\ turn = "decode"
  /\ given' = Append(given, AccessUnit)
  /\ turn' = "returned"
  /\ UNCHANGED <<vars, bFlushDecoder>>

\* vvdec is closed, which may report an error, and the access unit freed.
Close ==
  /\ turn = "close"
  /\ turn' = "returned"
  /\ UNCHANGED <<vars, given, bFlushDecoder>>

TestNext == Open \/ Read \/ Decode \/ DecodeFails \/ Close

TestSpec == TestInit /\ [][TestNext]_allVars

\* The program is one thread, which goes on as long as it can.
FairTestSpec == TestSpec /\ WF_allVars(TestNext)

-----------------------------------------------------------------------------
(***************************************************************************)
(* Properties.                                                             *)
(***************************************************************************)
\* Types, with those of NalReader.
TestTypeOK ==
  /\ TypeOK
  /\ turn \in {"start", "read", "decode", "close", "returned"}
  /\ given \in Seq(Seq(Bytes)) /\ bFlushDecoder \in BOOLEAN

\* When the loop has run to its end, vvdec has been given every unit of the file
\* once and in order, then one empty access unit, and nothing after that: also
\* where the end of the file is met while the last unit is read.  The loop also ends,
\* before the end of the file, when the payload cannot grow; main then returns 0 all
\* the same.
AllGiven ==
  turn = "close" /\ eof /\ ~bFlushDecoder /\ WellFormed =>
    /\ Len(given) = Len(cuts) + 1
    /\ \A i \in 1..Len(cuts) : given[i] = Nal(i)
    /\ given[Len(given)] = <<>>

\* Where the call at work, or the next one, begins in the file, and how many steps
\* main may still take until a later call begins or it returns.
CallFrom == IF state = "scan" THEN curfilpos ELSE filePos
StepsLeft ==
  CASE turn = "start"    -> Len(file) + 7
    [] turn = "decode"   -> IF NoMore THEN 2 ELSE Len(file) + 6
    [] turn = "read"     -> IF state = "idle" THEN Len(file) + 5
                            ELSE IF eof THEN 3 ELSE Remaining + 4
    [] turn = "close"    -> 1
    [] turn = "returned" -> 0

\* For a file of any bytes no step of main is in vain: each call that goes back
\* before a start code still leaves the file further on than it was, and a call
\* never goes on at the end of the file.
StepsRunOut ==
  [][CallFrom' >= CallFrom /\ (CallFrom' = CallFrom => StepsLeft' < StepsLeft)]_allVars

\* For a file of any bytes and whatever vvdec answers, main returns.
TestReturns == <>(turn = "returned")
=============================================================================
