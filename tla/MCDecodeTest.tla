---------------------------- MODULE MCDecodeTest ----------------------------
(***************************************************************************)
(* Small files for DecodeTest: up to three NAL units with start codes of   *)
(* both lengths.  As in VVC the header is a 0 and a byte that is not 0,    *)
(* after two zeros comes a 3 (emulation prevention), and a unit does not   *)
(* end in a zero.                                                          *)
(***************************************************************************)
EXTENDS DecodeTest, SequencesExt

MCBytes == {0, 1, 2, 3}
StartCodes == {<<0, 0, 1>>, <<0, 0, 0, 1>>}
ShortBodies == {<<>>, <<1>>, <<2>>, <<0, 1>>, <<0, 2>>, <<1, 2>>}
LongBodies == {<<2, 0, 1, 0, 1>>, <<1, 0, 0, 3, 1>>, <<1, 1, 0, 2, 0, 1, 2>>}
Nals == {code \o <<0, type>> \o body :
           code \in StartCodes, type \in {1, 2}, body \in ShortBodies \cup LongBodies}

ShortNals == {n \in Nals : Len(n) <= 7}

NalSeqs == {<<>>} \cup {<<m>> : m \in Nals} \cup {<<m, n>> : m, n \in Nals}
             \cup {<<l, m, n>> : l, m, n \in ShortNals}
NalFiles == {[bytes |-> FlattenSeq(s),
              cuts |-> [i \in 1..Len(s) |-> Len(FlattenSeq(SubSeq(s, 1, i)))]] : s \in NalSeqs}

\* Files of any eight bytes 0, 1 or 2 or fewer.
ByteFiles == {[bytes |-> s, cuts |-> <<Len(s)>>] : s \in SeqOf({0, 1, 2}, 8)}

MCFiles == NalFiles \cup ByteFiles
=============================================================================
