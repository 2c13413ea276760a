------------------------- MODULE DecodeTest_proofs -------------------------
(***************************************************************************)
(* Proofs about NalReader and DecodeTest, for every file, every initial    *)
(* size of the payload and every answer of vvdec.  The argument: during a  *)
(* call the payload holds the stretch of the file from where the call has  *)
(* begun, and no start code has been passed in it; so the first start code *)
(* found in a well-formed file is the one of the next unit, and the call   *)
(* goes back to where that unit begins.                                    *)
(***************************************************************************)
EXTENDS DecodeTest, SequenceTheorems, TLAPS

Unit == [from : 0..Len(file), bytes : Seq(Bytes)]

\* A start code of three bytes or more ends at p.
StartCodeAt(p) == file[p] = 1 /\ file[p - 1] = 0 /\ file[p - 2] = 0

-----------------------------------------------------------------------------
(***************************************************************************)
(* The invariant of NalReader.                                             *)
(***************************************************************************)
\* Between two calls the stream is where the last unit ends.
Between == state = "idle" => filePos = EndOfUnits

\* During a call the payload holds what has been read since the last unit.  At the
\* end of the file pos counts a byte more than there is.
Scanning ==
  state = "scan" =>
    /\ curfilpos = EndOfUnits
    /\ unit = SubSeq(file, curfilpos + 1, filePos)
    /\ ~eof => pos = filePos - curfilpos /\ pos >= 5
    /\ eof => \/ pos = 5 /\ filePos = curfilpos + 4
              \/ pos >= 6 /\ pos = filePos - curfilpos + 1

\* No start code but its own has been passed in this call.
NonePassed ==
  state = "scan" => \A p \in (curfilpos + 6)..filePos : ~StartCodeAt(p)

\* Each unit of a well-formed file is returned in its turn, and none is left out.
InTurn ==
  WellFormed =>
    /\ Len(units) <= Len(cuts)
    /\ EndOfUnits = CutAt(Len(units))
    /\ \A i \in 1..Len(units) : units[i].bytes = Nal(i)
    /\ state = "scan" => Len(units) < Len(cuts)
    /\ state = "done" /\ eof => Len(units) = Len(cuts)

NalInv ==
  /\ TypeOK /\ payloadSize >= 5
  /\ eof => filePos = Len(file)
  /\ Between /\ Scanning /\ NonePassed /\ UnitsFromFile /\ InTurn

-----------------------------------------------------------------------------
(***************************************************************************)
(* The invariant of DecodeTest.                                            *)
(***************************************************************************)
\* How many units vvdec has been given in each part of a turn of the loop.
Turns ==
  /\ turn = "start" => state = "idle" /\ units = <<>> /\ given = <<>>
  /\ turn = "read" => state # "done" /\ Len(given) = Len(units)
  /\ turn = "decode" =>
       \/ state = "idle" /\ Len(given) + 1 = Len(units)
       \/ state = "done" /\ Len(given) = Len(units)
  /\ turn = "close" /\ ~bFlushDecoder =>
       state = "done" /\ Len(given) = Len(units) + 1 /\ given[Len(given)] = <<>>
  /\ turn \in {"start", "read", "decode"} => ~bFlushDecoder

\* It has been given the units in the order they were returned in.
GivenInOrder ==
  \A i \in 1..Len(given) : i <= Len(units) => given[i] = units[i].bytes

TestInv == TestTypeOK /\ NalInv /\ Turns /\ GivenInOrder

-----------------------------------------------------------------------------
(***************************************************************************)
(* Stretches of a sequence.                                                *)
(***************************************************************************)
\* The elements of s after position a, up to position b.
LEMMA Stretch ==
  ASSUME NEW S, NEW s \in Seq(S), NEW a \in 0..Len(s), NEW b \in a..Len(s)
  PROVE  /\ SubSeq(s, a + 1, b) \in Seq(S)
         /\ Len(SubSeq(s, a + 1, b)) = b - a
         /\ \A i \in 1..(b - a) : SubSeq(s, a + 1, b)[i] = s[a + i]
<1>1. Len(s) \in Nat /\ a \in Int /\ b \in Int /\ a + 1 \in Int
  OBVIOUS
<1>2. \A i \in (a + 1)..b : s[i] \in S
  OBVIOUS
<1>3. /\ SubSeq(s, a + 1, b) \in Seq(S)
      /\ Len(SubSeq(s, a + 1, b)) = IF a + 1 <= b THEN b - (a + 1) + 1 ELSE 0
      /\ \A i \in 1..(b - (a + 1) + 1) : SubSeq(s, a + 1, b)[i] = s[(a + 1) + i - 1]
  BY <1>1, <1>2, SubSeqProperties
<1> DEFINE t == SubSeq(s, a + 1, b)
<1> HIDE DEF t
<1>4. Len(t) = b - a
  BY <1>1, <1>3 DEF t
<1>5. \A i \in 1..(b - a) : t[i] = s[a + i]
  <2> SUFFICES ASSUME NEW i \in 1..(b - a) PROVE t[i] = s[a + i]
    OBVIOUS
  <2>1. i \in 1..(b - (a + 1) + 1) /\ (a + 1) + i - 1 = a + i
    BY <1>1
  <2> QED
    BY <1>3, <2>1 DEF t
<1> QED
  BY <1>3, <1>4, <1>5 DEF t

\* A stretch and the element after it.
LEMMA StretchGrows ==
  ASSUME NEW S, NEW s \in Seq(S), NEW a \in 0..Len(s), NEW b \in a..(Len(s) - 1)
  PROVE  Append(SubSeq(s, a + 1, b), s[b + 1]) = SubSeq(s, a + 1, b + 1)
<1> DEFINE t == SubSeq(s, a + 1, b)
           u == SubSeq(s, a + 1, b + 1)
<1>1. Len(s) \in Nat /\ b \in a..Len(s) /\ b + 1 \in a..Len(s) /\ s[b + 1] \in S
  OBVIOUS
<1>2. t \in Seq(S) /\ Len(t) = b - a /\ \A i \in 1..(b - a) : t[i] = s[a + i]
  BY <1>1, Stretch
<1>3. /\ u \in Seq(S) /\ Len(u) = b + 1 - a
      /\ \A i \in 1..(b + 1 - a) : u[i] = s[a + i]
  BY <1>1, Stretch
<1> HIDE DEF t, u
<1>4. /\ Append(t, s[b + 1]) \in Seq(S) /\ Len(Append(t, s[b + 1])) = Len(t) + 1
      /\ \A i \in 1..Len(t) : Append(t, s[b + 1])[i] = t[i]
      /\ Append(t, s[b + 1])[Len(t) + 1] = s[b + 1]
  BY <1>1, <1>2, AppendProperties
<1>5. Len(Append(t, s[b + 1])) = Len(u)
  BY <1>1, <1>2, <1>3, <1>4
<1>6. \A i \in 1..Len(u) : Append(t, s[b + 1])[i] = u[i]
  <2> SUFFICES ASSUME NEW i \in 1..Len(u) PROVE Append(t, s[b + 1])[i] = u[i]
    OBVIOUS
  <2>1. CASE i \in 1..Len(t)
    BY <1>1, <1>2, <1>3, <1>4, <2>1
  <2>2. CASE i = Len(t) + 1
    BY <1>1, <1>2, <1>3, <1>4, <2>2
  <2> QED
    BY <1>1, <1>2, <1>3, <2>1, <2>2
<1>7. Append(t, s[b + 1]) = u
  BY <1>3, <1>4, <1>5, <1>6, SeqEqual
<1> QED
  BY <1>7 DEF t, u

\* The beginning of a stretch.
LEMMA StretchBegins ==
  ASSUME NEW S, NEW s \in Seq(S), NEW a \in 0..Len(s), NEW b \in a..Len(s),
         NEW n \in 0..(b - a)
  PROVE  SubSeq(SubSeq(s, a + 1, b), 1, n) = SubSeq(s, a + 1, a + n)
<1> DEFINE t == SubSeq(s, a + 1, b)
           u == SubSeq(s, a + 1, a + n)
           v == SubSeq(t, 1, n)
<1>1. Len(s) \in Nat /\ a + n \in a..Len(s) /\ n \in 0..Len(s) /\ a + n - a = n
  OBVIOUS
<1>2. t \in Seq(S) /\ Len(t) = b - a /\ \A i \in 1..(b - a) : t[i] = s[a + i]
  BY <1>1, Stretch
<1>3. u \in Seq(S) /\ Len(u) = n /\ \A i \in 1..n : u[i] = s[a + i]
  <2>1. u \in Seq(S) /\ Len(u) = a + n - a /\ \A i \in 1..(a + n - a) : u[i] = s[a + i]
    BY <1>1, Stretch
  <2> QED
    BY <1>1, <2>1
<1> HIDE DEF t, u
<1>4. v \in Seq(S) /\ Len(v) = n /\ \A i \in 1..n : v[i] = t[i]
  <2>1. 0 \in 0..Len(t) /\ n \in 0..Len(t) /\ 0 + 1 = 1 /\ n - 0 = n
    BY <1>2
  <2>2. /\ SubSeq(t, 0 + 1, n) \in Seq(S) /\ Len(SubSeq(t, 0 + 1, n)) = n - 0
        /\ \A i \in 1..(n - 0) : SubSeq(t, 0 + 1, n)[i] = t[0 + i]
    BY <1>2, <2>1, Stretch
  <2>3. \A i \in 1..n : 0 + i = i
    OBVIOUS
  <2> QED
    BY <2>1, <2>2, <2>3
<1> HIDE DEF v
<1>5. \A i \in 1..n : v[i] = u[i]
  <2> SUFFICES ASSUME NEW i \in 1..n PROVE v[i] = u[i]
    OBVIOUS
  <2>1. i \in 1..(b - a)
    BY <1>1
  <2> QED
    BY <1>2, <1>3, <1>4, <2>1
<1>6. v = u
  BY <1>3, <1>4, <1>5, SeqEqual
<1> QED
  BY <1>6 DEF t, u, v

-----------------------------------------------------------------------------
(***************************************************************************)
(* Well-formed files.                                                      *)
(***************************************************************************)
LEMMA CutTypes ==
  ASSUME TypeOK, NEW k \in 0..Len(cuts)
  PROVE  CutAt(k) \in 0..Len(file) /\ Len(file) \in Nat /\ Len(cuts) \in Nat
<1>1. cuts \in Seq(0..Len(file)) /\ Len(file) \in Nat /\ Len(cuts) \in Nat
  BY DEF TypeOK
<1>2. k # 0 => cuts[k] \in 0..Len(file)
  BY <1>1
<1> QED
  BY <1>1, <1>2 DEF CutAt

\* The kth unit lies between its cuts: a start code of three bytes or four, no other
\* one, and no zero at its end.
LEMMA NalFacts ==
  ASSUME TypeOK, WellFormed, NEW k \in 1..Len(cuts)
  PROVE  \E z \in {2, 3} :
           /\ CutAt(k - 1) + z + 3 <= CutAt(k)
           /\ \A i \in 1..z : file[CutAt(k - 1) + i] = 0
           /\ file[CutAt(k - 1) + z + 1] = 1
           /\ \A p \in (CutAt(k - 1) + z + 4)..CutAt(k) : ~StartCodeAt(p)
           /\ file[CutAt(k)] # 0
<1> DEFINE a == CutAt(k - 1)
           b == CutAt(k)
           n == Nal(k)
<1>1. a \in 0..Len(file) /\ b \in 0..Len(file) /\ Len(file) \in Nat /\ file \in Seq(Bytes)
  <2>1. k - 1 \in 0..Len(cuts) /\ k \in 0..Len(cuts)
    BY DEF TypeOK
  <2> QED
    BY <2>1, CutTypes DEF TypeOK
<1>2. n = SubSeq(file, a + 1, b) /\ IsNal(n)
  BY DEF Nal, WellFormed
<1> HIDE DEF a, b, n
<1>3. PICK z \in {2, 3} :
        /\ Len(n) >= z + 3
        /\ \A i \in 1..z : n[i] = 0
        /\ n[z + 1] = 1
        /\ \A i \in z + 2 .. Len(n) - 2 : ~(n[i] = 0 /\ n[i + 1] = 0 /\ n[i + 2] \in {0, 1, 2})
        /\ n[Len(n)] # 0
  BY <1>2 DEF IsNal
<1>4. b \in a..Len(file)
  <2> SUFFICES ASSUME b < a PROVE FALSE
    BY <1>1
  <2>1. n = <<>>
    BY <1>1, <1>2, SubSeqEmpty
  <2> QED
    BY <1>3, <2>1
<1>5. Len(n) = b - a /\ \A i \in 1..(b - a) : n[i] = file[a + i]
  BY <1>1, <1>2, <1>4, Stretch
<1>6. a + z + 3 <= b
  BY <1>1, <1>3, <1>5
<1>7. \A i \in 1..z : file[a + i] = 0
  <2> SUFFICES ASSUME NEW i \in 1..z PROVE file[a + i] = 0
    OBVIOUS
  <2>1. i \in 1..(b - a)
    BY <1>1, <1>6
  <2> QED
    BY <1>3, <1>5, <2>1
<1>8. file[a + z + 1] = 1
  <2>1. z + 1 \in 1..(b - a) /\ a + (z + 1) = a + z + 1
    BY <1>1, <1>6
  <2> QED
    BY <1>3, <1>5, <2>1
<1>9. file[b] # 0
  <2>1. b - a \in 1..(b - a) /\ a + (b - a) = b
    BY <1>1, <1>6
  <2> QED
    BY <1>3, <1>5, <2>1
<1>10. ASSUME NEW p \in (a + z + 4)..b, StartCodeAt(p) PROVE FALSE
  <2> DEFINE i == p - 2 - a
  <2>1. /\ i \in z + 2 .. Len(n) - 2
        /\ i \in 1..(b - a) /\ i + 1 \in 1..(b - a) /\ i + 2 \in 1..(b - a)
        /\ a + i = p - 2 /\ a + (i + 1) = p - 1 /\ a + (i + 2) = p
    BY <1>1, <1>5
  <2> HIDE DEF i
  <2>2. n[i] = file[p - 2] /\ n[i + 1] = file[p - 1] /\ n[i + 2] = file[p]
    BY <1>5, <2>1
  <2> QED
    BY <1>3, <1>10, <2>1, <2>2 DEF StartCodeAt
<1> QED
  BY <1>6, <1>7, <1>8, <1>9, <1>10 DEF a, b

\* The start code of the kth unit, and what is before it.
LEMMA UnitStarts ==
  ASSUME TypeOK, WellFormed, NEW k \in 1..Len(cuts)
  PROVE  /\ CutAt(k - 1) \in 0..Len(file) /\ CutAt(k) \in 0..Len(file)
         /\ CutAt(k - 1) + 5 <= CutAt(k)
         /\ file[CutAt(k)] # 0
         /\ \A p \in (CutAt(k - 1) + 6)..CutAt(k) : ~StartCodeAt(p)
         /\ \/ StartCodeAt(CutAt(k - 1) + 3)
            \/ /\ StartCodeAt(CutAt(k - 1) + 4)
               /\ file[CutAt(k - 1) + 1] = 0 /\ file[CutAt(k - 1) + 3] = 0
<1> DEFINE a == CutAt(k - 1)
           b == CutAt(k)
<1>1. a \in 0..Len(file) /\ b \in 0..Len(file) /\ Len(file) \in Nat
  <2>1. k - 1 \in 0..Len(cuts) /\ k \in 0..Len(cuts)
    BY DEF TypeOK
  <2> QED
    BY <2>1, CutTypes
<1>2. PICK z \in {2, 3} :
        /\ a + z + 3 <= b
        /\ \A i \in 1..z : file[a + i] = 0
        /\ file[a + z + 1] = 1
        /\ \A p \in (a + z + 4)..b : ~StartCodeAt(p)
        /\ file[b] # 0
  BY NalFacts
<1> HIDE DEF a, b
<1>3. file[a + 1] = 0 /\ file[a + 2] = 0
  <2>1. 1 \in 1..z /\ 2 \in 1..z
    BY <1>2
  <2> QED
    BY <1>2, <2>1
<1>4. CASE z = 2
  <2>1. file[a + 3] = 1 /\ a + 3 - 1 = a + 2 /\ a + 3 - 2 = a + 1 /\ a + z + 4 = a + 6
    BY <1>1, <1>2, <1>4
  <2>2. StartCodeAt(a + 3)
    BY <1>1, <1>3, <2>1 DEF StartCodeAt
  <2>3. \A p \in (a + 6)..b : ~StartCodeAt(p)
    BY <1>2, <2>1
  <2> QED
    BY <1>1, <1>2, <1>4, <2>2, <2>3 DEF a, b
<1>5. CASE z = 3
  <2>1. /\ file[a + 3] = 0 /\ file[a + 4] = 1
        /\ a + 4 - 1 = a + 3 /\ a + 4 - 2 = a + 2 /\ a + z + 4 = a + 7 /\ a + 6 - 2 = a + 4
    <3>1. 3 \in 1..z /\ a + z + 1 = a + 4
      BY <1>1, <1>5
    <3> QED
      BY <1>1, <1>2, <1>5, <3>1
  <2>2. StartCodeAt(a + 4)
    BY <1>1, <1>3, <2>1 DEF StartCodeAt
  <2>3. ~StartCodeAt(a + 6)
    BY <1>1, <2>1 DEF StartCodeAt
  <2>4. \A p \in (a + 6)..b : p = a + 6 \/ p \in (a + 7)..b
    BY <1>1
  <2>5. \A p \in (a + 6)..b : ~StartCodeAt(p)
    BY <1>2, <2>1, <2>3, <2>4
  <2> QED
    BY <1>1, <1>2, <1>3, <1>5, <2>1, <2>2, <2>5 DEF a, b
<1> QED
  BY <1>4, <1>5

\* A unit after which there is no start code is the last one.
LEMMA NoStartCode ==
  ASSUME TypeOK, WellFormed, NEW k \in 1..Len(cuts),
         \A p \in (CutAt(k - 1) + 6)..Len(file) : ~StartCodeAt(p)
  PROVE  k = Len(cuts) /\ CutAt(k) = Len(file)
<1>1. Len(cuts) \in Nat /\ Len(file) \in Nat
  BY DEF TypeOK
<1>2. /\ CutAt(k - 1) \in Nat /\ CutAt(k) \in Nat /\ CutAt(k - 1) + 5 <= CutAt(k)
  BY UnitStarts
<1>3. ASSUME k < Len(cuts) PROVE FALSE
  <2>1. k + 1 \in 1..Len(cuts) /\ k + 1 - 1 = k
    BY <1>1, <1>3
  <2>2. /\ CutAt(k + 1) \in 0..Len(file) /\ CutAt(k) + 5 <= CutAt(k + 1)
        /\ StartCodeAt(CutAt(k) + 3) \/ StartCodeAt(CutAt(k) + 4)
    BY <2>1, UnitStarts
  <2>3. /\ CutAt(k) + 3 \in (CutAt(k - 1) + 6)..Len(file)
        /\ CutAt(k) + 4 \in (CutAt(k - 1) + 6)..Len(file)
    BY <1>1, <1>2, <2>2
  <2> QED
    BY <2>2, <2>3
<1> QED
  BY <1>1, <1>3 DEF WellFormed

\* The first start code that is found after the beginning of a unit is that of the
\* next unit; it is of four bytes where there is a zero before it.
LEMMA NextStartCode ==
  ASSUME TypeOK, WellFormed, NEW k \in 1..Len(cuts),
         NEW p \in (CutAt(k - 1) + 6)..Len(file), StartCodeAt(p),
         \A q \in (CutAt(k - 1) + 6)..(p - 1) : ~StartCodeAt(q)
  PROVE  /\ k < Len(cuts)
         /\ p = CutAt(k) + (IF file[p - 3] = 0 THEN 4 ELSE 3)
<1>1. Len(cuts) \in Nat /\ Len(file) \in Nat
  BY DEF TypeOK
<1>2. /\ CutAt(k - 1) \in Nat /\ CutAt(k) \in 0..Len(file) /\ CutAt(k - 1) + 5 <= CutAt(k)
      /\ file[CutAt(k)] # 0
      /\ \A q \in (CutAt(k - 1) + 6)..CutAt(k) : ~StartCodeAt(q)
  BY UnitStarts
<1>3. p \in Nat /\ p > CutAt(k)
  BY <1>1, <1>2
<1>4. k < Len(cuts)
  BY <1>1, <1>2, <1>3 DEF WellFormed
<1>5. k + 1 \in 1..Len(cuts) /\ k + 1 - 1 = k
  BY <1>1, <1>4
<1>6. /\ CutAt(k + 1) \in 0..Len(file) /\ CutAt(k) + 5 <= CutAt(k + 1)
      /\ \/ StartCodeAt(CutAt(k) + 3)
         \/ /\ StartCodeAt(CutAt(k) + 4)
            /\ file[CutAt(k) + 1] = 0 /\ file[CutAt(k) + 3] = 0
  BY <1>5, UnitStarts
<1>7. p # CutAt(k) + 1 /\ p # CutAt(k) + 2
  <2>1. /\ CutAt(k) + 1 - 1 = CutAt(k) /\ CutAt(k) + 2 - 2 = CutAt(k)
    BY <1>2
  <2> QED
    <3>1. ASSUME p = CutAt(k) + 1 PROVE FALSE
      BY <1>2, <2>1, <3>1 DEF StartCodeAt
    <3>2. ASSUME p = CutAt(k) + 2 PROVE FALSE
      BY <1>2, <2>1, <3>2 DEF StartCodeAt
    <3> QED
      BY <3>1, <3>2
<1>8. CASE StartCodeAt(CutAt(k) + 3)
  <2>1. ~(p - 1 >= CutAt(k) + 3)
    <3>1. p - 1 >= CutAt(k) + 3 => CutAt(k) + 3 \in (CutAt(k - 1) + 6)..(p - 1)
      BY <1>1, <1>2
    <3> QED
      BY <1>8, <3>1
  <2>2. p = CutAt(k) + 3 /\ p - 3 = CutAt(k)
    <3>1. CutAt(k) \in Nat
      BY <1>1, <1>2
    <3> QED
      BY <3>1, <1>3, <1>7, <2>1
  <2> QED
    BY <1>2, <1>4, <2>2
<1>9. CASE StartCodeAt(CutAt(k) + 4) /\ file[CutAt(k) + 1] = 0 /\ file[CutAt(k) + 3] = 0
  <2>1. ~(p - 1 >= CutAt(k) + 4)
    <3>1. p - 1 >= CutAt(k) + 4 => CutAt(k) + 4 \in (CutAt(k - 1) + 6)..(p - 1)
      BY <1>1, <1>2
    <3> QED
      BY <1>9, <3>1
  <2>2. p # CutAt(k) + 3
    BY <1>9 DEF StartCodeAt
  <2>3. p = CutAt(k) + 4 /\ p - 3 = CutAt(k) + 1
    <3>1. PICK c : c = CutAt(k)
      OBVIOUS
    <3>2. c \in Nat /\ p \in Nat /\ p > c
      BY <1>1, <1>2, <1>3, <3>1
    <3>3. p # c + 1 /\ p # c + 2 /\ p # c + 3 /\ ~(p - 1 >= c + 4)
      BY <1>7, <2>1, <2>2, <3>1
    <3>4. p = c + 4
      BY <3>2, <3>3
    <3> QED
      BY <3>1, <3>2, <3>4
  <2> QED
    BY <1>4, <1>9, <2>3
<1> QED
  BY <1>6, <1>8, <1>9

\* What Rewind finds at the end of a stretch is what the file has there.
LEMMA RewindOf ==
  ASSUME NEW S, NEW s \in Seq(S), Len(s) >= 4
  PROVE  /\ Rewind(s) \in {0, 3, 4}
         /\ Rewind(s) # 0 <=> s[Len(s)] = 1 /\ s[Len(s) - 1] = 0 /\ s[Len(s) - 2] = 0
         /\ Rewind(s) # 0 => Rewind(s) = IF s[Len(s) - 3] = 0 THEN 4 ELSE 3
<1> DEFINE n == Len(s)
<1>1. n \in Nat /\ n >= 4
  OBVIOUS
<1>2. EndsInStartCode(s, 2) <=> s[n] = 1 /\ s[n - 1] = 0 /\ s[n - 2] = 0
  <2>1. \A i \in 1..2 : i = 1 \/ i = 2
    OBVIOUS
  <2> QED
    BY <1>1, <2>1 DEF EndsInStartCode
<1>3. EndsInStartCode(s, 3) <=> s[n] = 1 /\ s[n - 1] = 0 /\ s[n - 2] = 0 /\ s[n - 3] = 0
  <2>1. \A i \in 1..3 : i = 1 \/ i = 2 \/ i = 3
    OBVIOUS
  <2> QED
    BY <1>1, <2>1 DEF EndsInStartCode
<1> QED
  BY <1>1, <1>2, <1>3 DEF Rewind

LEMMA RewindAt ==
  ASSUME NEW S, NEW s \in Seq(S), s = file, NEW a \in 0..Len(s), NEW b \in (a + 4)..Len(s)
  PROVE  LET t == SubSeq(s, a + 1, b)
         IN  IF StartCodeAt(b) THEN Rewind(t) = IF s[b - 3] = 0 THEN 4 ELSE 3
                               ELSE Rewind(t) = 0
<1> DEFINE t == SubSeq(s, a + 1, b)
<1>1. b \in a..Len(s) /\ Len(s) \in Nat
  OBVIOUS
<1>2. t \in Seq(S) /\ Len(t) = b - a /\ \A i \in 1..(b - a) : t[i] = s[a + i]
  BY <1>1, Stretch
<1> HIDE DEF t
<1>3. /\ Len(t) \in 1..(b - a) /\ Len(t) - 1 \in 1..(b - a)
      /\ Len(t) - 2 \in 1..(b - a) /\ Len(t) - 3 \in 1..(b - a)
      /\ a + Len(t) = b /\ a + (Len(t) - 1) = b - 1
      /\ a + (Len(t) - 2) = b - 2 /\ a + (Len(t) - 3) = b - 3
  BY <1>1, <1>2
<1>4. /\ t[Len(t)] = file[b] /\ t[Len(t) - 1] = file[b - 1]
      /\ t[Len(t) - 2] = file[b - 2] /\ t[Len(t) - 3] = file[b - 3]
  BY <1>2, <1>3
<1>5. Len(t) >= 4
  BY <1>1, <1>2
<1>6. /\ Rewind(t) # 0 <=> StartCodeAt(b)
      /\ Rewind(t) # 0 => Rewind(t) = IF s[b - 3] = 0 THEN 4 ELSE 3
  BY <1>2, <1>4, <1>5, RewindOf DEF StartCodeAt
<1> QED
  BY <1>6 DEF t

-----------------------------------------------------------------------------
(***************************************************************************)
(* What the steps of a call have in common.                                *)
(***************************************************************************)
LEMMA SameFile ==
  ASSUME UNCHANGED <<file, cuts>>
  PROVE  /\ WellFormed' <=> WellFormed
         /\ \A i : CutAt(i)' = CutAt(i) /\ Nal(i)' = Nal(i)
         /\ \A p : StartCodeAt(p)' <=> StartCodeAt(p)
<1>1. \A i : CutAt(i)' = CutAt(i)
  BY DEF CutAt
<1>2. \A i : Nal(i)' = Nal(i)
  BY <1>1 DEF Nal
<1>3. \A i : IsNal(Nal(i))' <=> IsNal(Nal(i))
  BY <1>2 DEF IsNal
<1>4. CutAt(Len(cuts))' = CutAt(Len(cuts))
  BY DEF CutAt
<1> QED
  BY <1>1, <1>2, <1>3, <1>4 DEF WellFormed, StartCodeAt

\* While units of a well-formed file are missing, the next one lies after the last.
LEMMA NextUnit ==
  ASSUME TypeOK, InTurn, WellFormed, Len(units) < Len(cuts)
  PROVE  /\ Len(units) + 1 \in 1..Len(cuts)
         /\ CutAt(Len(units) + 1 - 1) = EndOfUnits
         /\ EndOfUnits \in Nat
         /\ EndOfUnits + 5 <= CutAt(Len(units) + 1)
         /\ CutAt(Len(units) + 1) \in 0..Len(file)
<1>1. Len(units) \in Nat /\ Len(cuts) \in Nat /\ Len(file) \in Nat
  BY DEF TypeOK
<1>2. Len(units) + 1 \in 1..Len(cuts) /\ Len(units) + 1 - 1 = Len(units)
  BY <1>1
<1>3. CutAt(Len(units) + 1 - 1) = EndOfUnits
  BY <1>2 DEF InTurn
<1> QED
  BY <1>1, <1>2, <1>3, UnitStarts

LEMMA EndType ==
  ASSUME TypeOK, UnitsFromFile
  PROVE  EndOfUnits \in 0..Len(file)
<1>1. units \in Seq(Unit) /\ Len(file) \in Nat
  BY DEF TypeOK, Unit
<1>2. CASE units = <<>>
  BY <1>1, <1>2 DEF EndOfUnits
<1>3. CASE units # <<>>
  <2> DEFINE u == units[Len(units)]
  <2>1. Len(units) \in 1..Len(units) /\ u \in Unit
    BY <1>1, <1>3
  <2>2. u.from \in 0..Len(file) /\ Len(u.bytes) \in Nat
    BY <2>1 DEF Unit
  <2>3. End(u) <= Len(file)
    BY <2>1 DEF UnitsFromFile
  <2> HIDE DEF u
  <2>4. End(u) \in 0..Len(file)
    BY <1>1, <2>2, <2>3 DEF End
  <2> QED
    BY <1>3, <2>4 DEF EndOfUnits, u
<1> QED
  BY <1>2, <1>3

\* A step that returns nothing.
LEMMA SameUnits ==
  ASSUME NalInv, UNCHANGED <<file, cuts, units>>
  PROVE  /\ UnitsFromFile' /\ EndOfUnits' = EndOfUnits
         /\ WellFormed' =>
              /\ WellFormed
              /\ (Len(units) <= Len(cuts))'
              /\ EndOfUnits' = CutAt(Len(units))'
              /\ \A i \in 1..Len(units)' : units'[i].bytes = Nal(i)'
<1>1. UnitsFromFile' /\ EndOfUnits' = EndOfUnits
  BY DEF NalInv, UnitsFromFile, EndOfUnits, End
<1>2. CutAt(Len(units))' = CutAt(Len(units))
  BY DEF CutAt
<1>3. WellFormed' <=> WellFormed
  BY SameFile
<1>4. \A i : Nal(i)' = Nal(i)
  BY SameFile
<1> QED
  BY <1>1, <1>2, <1>3, <1>4 DEF NalInv, InTurn

\* A step that returns the bytes of the file up to position e.
LEMMA OneMoreUnit ==
  ASSUME NalInv, UNCHANGED <<file, cuts>>,
         NEW e \in EndOfUnits..Len(file),
         NEW u, u = SubSeq(file, EndOfUnits + 1, e),
         units' = Append(units, [from |-> EndOfUnits, bytes |-> u]),
         WellFormed => Len(units) < Len(cuts) /\ e = CutAt(Len(units) + 1)
  PROVE  /\ units' \in Seq(Unit)' /\ UnitsFromFile' /\ EndOfUnits' = e
         /\ WellFormed' =>
              /\ (Len(units) <= Len(cuts))'
              /\ EndOfUnits' = CutAt(Len(units))'
              /\ \A i \in 1..Len(units)' : units'[i].bytes = Nal(i)'
<1> DEFINE a == EndOfUnits
           r == [from |-> a, bytes |-> u]
           n == Len(units)
<1>1. /\ TypeOK /\ UnitsFromFile /\ InTurn
      /\ units \in Seq(Unit) /\ file \in Seq(Bytes) /\ Len(file) \in Nat /\ n \in Nat
      /\ Len(cuts) \in Nat
  BY DEF NalInv, TypeOK, Unit
<1>2. a \in 0..Len(file)
  BY <1>1, EndType
<1>3. u \in Seq(Bytes) /\ Len(u) = e - a /\ e \in a..Len(file)
  <2> HIDE DEF a
  <2>1. e \in a..Len(file) /\ u = SubSeq(file, a + 1, e)
    BY DEF a
  <2> QED
    BY <1>1, <1>2, <2>1, Stretch
<1>4. r \in Unit
  BY <1>2, <1>3 DEF Unit
<1>5. End(r) = e
  <2>1. End(r) = a + Len(u)
    BY DEF End
  <2> HIDE DEF a, r
  <2> QED
    BY <1>1, <1>2, <1>3, <2>1
<1>6. r.from = a /\ r.bytes = u /\ r.bytes = SubSeq(file, r.from + 1, End(r))
  BY <1>5
<1> DEFINE w == Append(units, r)
<1>7. w = units'
  OBVIOUS
<1> HIDE DEF r
<1>8. /\ w \in Seq(Unit) /\ Len(w) = n + 1
      /\ \A i \in 1..n : w[i] = units[i]
      /\ w[n + 1] = r
  BY <1>1, <1>4, AppendProperties
<1> HIDE DEF w
<1>9. Seq(Unit)' = Seq(Unit)
  BY DEF Unit
<1>10. EndOfUnits' = e
  <2>1. w # <<>> /\ Len(w) = n + 1
    BY <1>1, <1>8
  <2>2. EndOfUnits' = End(w[n + 1])
    BY <1>7, <2>1 DEF EndOfUnits, End
  <2> QED
    BY <1>5, <1>8, <2>2
<1>11. UnitsFromFile'
  <2> SUFFICES ASSUME NEW i \in 1..(n + 1)
               PROVE  /\ w[i].from = IF i = 1 THEN 0 ELSE End(w[i - 1])
                      /\ End(w[i]) <= Len(file)
                      /\ w[i].bytes = SubSeq(file, w[i].from + 1, End(w[i]))
    BY <1>7, <1>8 DEF UnitsFromFile, End
  <2>1. CASE i \in 1..n
    <3>1. w[i] = units[i] /\ (i # 1 => i - 1 \in 1..n)
      BY <1>1, <1>8, <2>1
    <3>2. i # 1 => w[i - 1] = units[i - 1]
      BY <1>8, <3>1
    <3> QED
      BY <1>1, <2>1, <3>1, <3>2 DEF UnitsFromFile
  <2>2. CASE i = n + 1
    <3>1. i # 1 => i - 1 = n /\ n \in 1..n /\ units # <<>>
      BY <1>1, <2>2
    <3>2. i = 1 => units = <<>>
      BY <1>1, <2>2
    <3>3. w[i].from = IF i = 1 THEN 0 ELSE End(w[i - 1])
      BY <1>6, <1>8, <2>2, <3>1, <3>2 DEF EndOfUnits
    <3> QED
      BY <1>3, <1>5, <1>6, <1>8, <2>2, <3>3
  <2> QED
    BY <1>1, <2>1, <2>2
<1>12. ASSUME WellFormed'
       PROVE  /\ (Len(units) <= Len(cuts))'
              /\ EndOfUnits' = CutAt(Len(units))'
              /\ \A i \in 1..Len(units)' : units'[i].bytes = Nal(i)'
  <2>1. WellFormed /\ \A i : CutAt(i)' = CutAt(i) /\ Nal(i)' = Nal(i)
    BY <1>12, SameFile
  <2>2. n < Len(cuts) /\ e = CutAt(n + 1)
    BY <2>1
  <2>3. CutAt(Len(units))' = CutAt(n + 1)
    <3>1. Len(units)' = n + 1
      BY <1>7, <1>8
    <3>2. CutAt(Len(units))' = IF n + 1 = 0 THEN 0 ELSE cuts[n + 1]
      BY <3>1 DEF CutAt
    <3> QED
      BY <3>2 DEF CutAt
  <2>4. a = CutAt(n)
    BY <1>1, <2>1 DEF InTurn
  <2>5. u = Nal(n + 1)
    <3>1. (n + 1) - 1 = n
      BY <1>1
    <3>2. Nal(n + 1) = SubSeq(file, CutAt(n) + 1, CutAt(n + 1))
      <4>1. Nal(n + 1) = SubSeq(file, CutAt((n + 1) - 1) + 1, CutAt(n + 1))
        BY DEF Nal
      <4> QED
        BY <3>1, <4>1
    <3>3. u = SubSeq(file, CutAt(n) + 1, CutAt(n + 1))
      BY <2>2, <2>4
    <3> QED
      BY <3>2, <3>3
  <2>6. \A i \in 1..(n + 1) : w[i].bytes = Nal(i)
    <3>1. \A i \in 1..(n + 1) : i \in 1..n \/ i = n + 1
      BY <1>1
    <3>2. \A i \in 1..n : w[i].bytes = Nal(i)
      BY <1>1, <1>8, <2>1 DEF InTurn
    <3>3. w[n + 1].bytes = Nal(n + 1)
      BY <1>6, <1>8, <2>5
    <3> QED
      BY <3>1, <3>2, <3>3
  <2> QED
    BY <1>1, <1>7, <1>8, <1>10, <2>1, <2>2, <2>3, <2>6
<1> QED
  BY <1>7, <1>8, <1>9, <1>10, <1>11, <1>12

-----------------------------------------------------------------------------
(***************************************************************************)
(* The invariant of NalReader is inductive.                                *)
(***************************************************************************)
LEMMA InitNalInv == Init => NalInv
<1> SUFFICES ASSUME Init PROVE NalInv
  OBVIOUS
<1>1. PICK f \in Files : file = f.bytes /\ cuts = f.cuts
  BY DEF Init
<1>2. file \in Seq(Bytes) /\ cuts \in Seq(0..Len(file)) /\ Len(file) \in Nat
  BY <1>1, NalReaderAssumption
<1>3. TypeOK /\ payloadSize >= 5
  <2>1. filePos \in 0..Len(file) /\ curfilpos \in -1..Len(file)
    <3>1. filePos = 0 /\ curfilpos = 0
      BY DEF Init
    <3> QED
      BY <1>2, <3>1
  <2>2. payloadSize \in Nat /\ payloadSize >= 5 /\ pos \in Nat
    BY NalReaderAssumption DEF Init
  <2>3. unit \in Seq(Bytes) /\ Len(unit) = 0 /\ units \in Seq(Unit)
    BY DEF Init
  <2>4. eof \in BOOLEAN /\ state \in {"idle", "scan", "done"}
    BY DEF Init
  <2>5. Len(unit) <= payloadSize
    BY <2>2, <2>3
  <2> QED
    BY <1>2, <2>1, <2>2, <2>3, <2>4, <2>5 DEF TypeOK, Unit
<1>4. EndOfUnits = 0
  BY DEF Init, EndOfUnits
<1>5. InTurn
  BY <1>2, <1>4 DEF Init, InTurn, CutAt
<1> QED
  BY <1>3, <1>4, <1>5 DEF Init, NalInv, Between, Scanning, NonePassed, UnitsFromFile

LEMMA CallAtEndNalInv == NalInv /\ CallAtEnd => NalInv'
<1> SUFFICES ASSUME NalInv, CallAtEnd PROVE NalInv'
  OBVIOUS
<1> USE DEF CallAtEnd, ReturnsNothing
<1>1. /\ UnitsFromFile'
      /\ WellFormed' =>
              /\ WellFormed
              /\ (Len(units) <= Len(cuts))'
              /\ EndOfUnits' = CutAt(Len(units))'
              /\ \A i \in 1..Len(units)' : units'[i].bytes = Nal(i)'
  BY SameUnits
<1>2. TypeOK' /\ payloadSize' >= 5 /\ (eof => filePos = Len(file))'
  <2>1. -1 \in -1..Len(file)
    BY DEF NalInv, TypeOK
  <2> QED
    BY <2>1 DEF NalInv, TypeOK
<1>3. ASSUME WellFormed PROVE Len(units) = Len(cuts)
  <2>1. EndOfUnits = Len(file) /\ Len(units) \in Nat /\ Len(cuts) \in Nat /\ Len(file) \in Nat
    BY DEF NalInv, TypeOK, Between
  <2>2. ASSUME Len(units) < Len(cuts) PROVE FALSE
    BY <1>3, <2>1, <2>2, NextUnit DEF NalInv
  <2> QED
    BY <1>3, <2>1, <2>2 DEF NalInv, InTurn
<1>4. InTurn'
  BY <1>1, <1>3 DEF InTurn
<1> QED
  BY <1>1, <1>2, <1>4 DEF NalInv, Between, Scanning, NonePassed

LEMMA CallReadsStartNalInv == NalInv /\ CallReadsStart => NalInv'
<1> SUFFICES ASSUME NalInv, CallReadsStart PROVE NalInv'
  OBVIOUS
<1> DEFINE x == IF Remaining < FirstBytes THEN Remaining ELSE FirstBytes
<1>1. /\ state = "idle" /\ ~eof /\ curfilpos' = filePos
      /\ unit' = SubSeq(file, filePos + 1, filePos + x)
      /\ filePos' = filePos + x /\ eof' = (x < FirstBytes) /\ pos' = FirstBytes
      /\ \/ x < 4 /\ state' = "done"
         \/ x >= 4 /\ state' = "scan"
      /\ UNCHANGED <<file, cuts, payloadSize, units>>
  BY DEF CallReadsStart, ReturnsNothing
<1>2. /\ TypeOK /\ InTurn /\ file \in Seq(Bytes) /\ Len(file) \in Nat /\ filePos \in 0..Len(file)
      /\ payloadSize \in Nat /\ payloadSize >= 5 /\ filePos = EndOfUnits
      /\ Len(units) \in Nat /\ Len(cuts) \in Nat
  BY <1>1 DEF NalInv, TypeOK, Between
<1>3. /\ x \in 0..5 /\ filePos + x \in filePos..Len(file)
      /\ x < 5 => filePos + x = Len(file)
  BY <1>2 DEF Remaining, FirstBytes
<1> HIDE DEF x
<1>4. unit' \in Seq(Bytes) /\ Len(unit') = x
  <2>1. Len(unit') = filePos + x - filePos /\ unit' \in Seq(Bytes)
    <3>1. PICK b : b = filePos + x
      OBVIOUS
    <3>2. filePos \in 0..Len(file) /\ b \in filePos..Len(file) /\ file \in Seq(Bytes)
      BY <1>2, <1>3, <3>1
    <3>3. /\ SubSeq(file, filePos + 1, b) \in Seq(Bytes)
          /\ Len(SubSeq(file, filePos + 1, b)) = b - filePos
      BY <3>2, Stretch
    <3>4. b - filePos = filePos + x - filePos
      <4>1. x \in Int /\ filePos \in Int
        BY <1>2, <1>3
      <4> QED
        BY <3>1, <4>1
    <3> QED
      BY <1>1, <3>1, <3>3, <3>4
  <2>2. filePos + x - filePos = x
    <3>1. x \in Int /\ filePos \in Int
      BY <1>2, <1>3
    <3> QED
      BY <3>1
  <2> QED
    BY <2>1, <2>2
<1>5. /\ UnitsFromFile' /\ EndOfUnits' = EndOfUnits
      /\ WellFormed' =>
              /\ WellFormed
              /\ (Len(units) <= Len(cuts))'
              /\ EndOfUnits' = CutAt(Len(units))'
              /\ \A i \in 1..Len(units)' : units'[i].bytes = Nal(i)'
  BY <1>1, SameUnits
<1>6. (eof => filePos = Len(file))'
  BY <1>1, <1>3 DEF FirstBytes
<1>7. TypeOK' /\ payloadSize' >= 5
  <2>1. /\ filePos' \in 0..Len(file)' /\ eof' \in BOOLEAN /\ curfilpos' \in -1..Len(file)'
        /\ Len(unit') <= payloadSize' /\ pos' \in Nat
    BY <1>1, <1>2, <1>3, <1>4 DEF FirstBytes
  <2> QED
    BY <1>1, <1>2, <1>4, <2>1 DEF TypeOK
<1>8. Scanning'
  <2> SUFFICES ASSUME x >= 4
               PROVE  /\ curfilpos' = EndOfUnits'
                      /\ unit' = SubSeq(file, curfilpos' + 1, filePos')
                      /\ ~eof' => pos' = filePos' - curfilpos' /\ pos' >= 5
                      /\ eof' => pos' = 5 /\ filePos' = curfilpos' + 4
    BY <1>1, <1>3 DEF Scanning
  <2>1. curfilpos' = EndOfUnits' /\ unit' = SubSeq(file, curfilpos' + 1, filePos')
    BY <1>1, <1>2, <1>5
  <2>2. pos' = 5 /\ filePos' = curfilpos' + x /\ (eof' <=> x < 5)
    BY <1>1 DEF FirstBytes
  <2>3. curfilpos' \in Nat /\ (x = 4 \/ x = 5)
    BY <1>1, <1>2, <1>3
  <2>4. /\ x = 5 => ~eof' /\ pos' = filePos' - curfilpos' /\ pos' >= 5
        /\ x = 4 => eof' /\ filePos' = curfilpos' + 4
    <3>1. x = 5 => ~eof'
      BY <2>2
    <3>2. x = 4 => eof'
      BY <2>2
    <3>3. /\ x = 5 => pos' = filePos' - curfilpos' /\ pos' >= 5
          /\ x = 4 => filePos' = curfilpos' + 4
      <4>1. PICK c, q : c = curfilpos' /\ q = filePos'
        OBVIOUS
      <4> QED
        BY <2>2, <2>3, <4>1
    <3> QED
      BY <3>1, <3>2, <3>3
  <2> QED
    BY <2>1, <2>2, <2>3, <2>4
<1>9. NonePassed'
  <2>1. \A p \in (curfilpos' + 6)..filePos' : FALSE
    BY <1>1, <1>2, <1>3
  <2> QED
    BY <2>1 DEF NonePassed
<1>10. ASSUME WellFormed
       PROVE  /\ x < 4 => Len(units) = Len(cuts)
              /\ x >= 4 => Len(units) < Len(cuts)
  <2>1. ASSUME Len(units) < Len(cuts) PROVE x >= 4
    <3>1. filePos + 5 <= Len(file)
      BY <1>2, <1>10, <2>1, NextUnit
    <3> QED
      BY <1>2, <1>3, <3>1
  <2>2. ASSUME Len(units) = Len(cuts) PROVE x < 4
    <3>1. filePos = Len(file)
      BY <1>2, <1>10, <2>2 DEF InTurn, WellFormed
    <3> QED
      BY <1>2, <1>3, <3>1
  <2>3. Len(units) <= Len(cuts)
    BY <1>2, <1>10 DEF InTurn
  <2> QED
    BY <1>2, <1>3, <2>1, <2>2, <2>3
<1>11. InTurn'
  BY <1>1, <1>3, <1>5, <1>10 DEF InTurn
<1>12. Between'
  BY <1>1 DEF Between
<1> QED
  BY <1>5, <1>6, <1>7, <1>8, <1>9, <1>11, <1>12 DEF NalInv

\* What a turn of the loop finds.
LEMMA ScanFacts ==
  ASSUME NalInv, state = "scan"
  PROVE  /\ TypeOK /\ InTurn
         /\ file \in Seq(Bytes) /\ Len(file) \in Nat
         /\ curfilpos = EndOfUnits /\ curfilpos \in 0..Len(file)
         /\ filePos \in (curfilpos + 4)..Len(file) /\ filePos \in curfilpos..Len(file)
         /\ unit \in Seq(Bytes) /\ unit = SubSeq(file, curfilpos + 1, filePos)
         /\ Len(unit) = filePos - curfilpos /\ Len(unit) >= 4
         /\ pos \in Nat /\ pos >= 5
         /\ payloadSize \in Nat /\ payloadSize >= 5 /\ Len(unit) <= payloadSize
         /\ GrownPayload \in Nat /\ GrownPayload >= payloadSize
         /\ Len(units) \in Nat /\ Len(cuts) \in Nat
<1>1. /\ TypeOK /\ InTurn /\ UnitsFromFile /\ Scanning /\ payloadSize >= 5
      /\ eof => filePos = Len(file)
  BY DEF NalInv
<1>2. curfilpos = EndOfUnits /\ curfilpos \in 0..Len(file)
  BY <1>1, EndType DEF Scanning
<1>3. filePos \in (curfilpos + 4)..Len(file) /\ filePos \in curfilpos..Len(file)
  BY <1>1, <1>2 DEF Scanning, TypeOK
<1>4. unit \in Seq(Bytes) /\ unit = SubSeq(file, curfilpos + 1, filePos) /\ file \in Seq(Bytes)
  BY <1>1 DEF TypeOK, Scanning
<1>5. Len(unit) = filePos - curfilpos
  BY <1>2, <1>3, <1>4, Stretch
<1>6. Len(unit) >= 4
  BY <1>2, <1>3, <1>5
<1>7. pos \in Nat /\ pos >= 5
  BY <1>1 DEF Scanning, TypeOK
<1>8. GrownPayload \in Nat /\ GrownPayload >= payloadSize
  BY <1>1 DEF GrownPayload, TypeOK
<1> QED
  BY <1>1, <1>2, <1>3, <1>4, <1>5, <1>6, <1>7, <1>8 DEF TypeOK

\* The next byte of the file, and what Rewind finds there.
LEMMA ScanByteFacts ==
  ASSUME NalInv, state = "scan", ~eof, Remaining > 0
  PROVE  LET read == Append(unit, file[filePos + 1])
         IN  /\ filePos + 1 \in (curfilpos + 6)..Len(file)
             /\ pos = filePos - curfilpos
             /\ file[filePos + 1] \in Bytes
             /\ read = SubSeq(file, curfilpos + 1, filePos + 1)
             /\ read \in Seq(Bytes) /\ Len(read) = pos + 1
             /\ \/ ~StartCodeAt(filePos + 1) /\ Rewind(read) = 0
                \/ /\ StartCodeAt(filePos + 1)
                   /\ Rewind(read) = IF file[(filePos + 1) - 3] = 0 THEN 4 ELSE 3
<1> DEFINE read == Append(unit, file[filePos + 1])
<1>1. /\ file \in Seq(Bytes) /\ Len(file) \in Nat
      /\ curfilpos \in 0..Len(file) /\ filePos \in (curfilpos + 4)..Len(file)
      /\ unit = SubSeq(file, curfilpos + 1, filePos)
  BY ScanFacts
<1>2. pos = filePos - curfilpos /\ pos >= 5
  BY DEF NalInv, Scanning
<1>3. filePos + 1 \in (curfilpos + 6)..Len(file)
  BY <1>1, <1>2 DEF Remaining
<1>4. filePos \in curfilpos..(Len(file) - 1) /\ filePos + 1 \in curfilpos..Len(file)
  BY <1>1, <1>3
<1>5. read = SubSeq(file, curfilpos + 1, filePos + 1)
  BY <1>1, <1>4, StretchGrows
<1> HIDE DEF read
<1>6. read \in Seq(Bytes) /\ Len(read) = pos + 1
  <2>1. read \in Seq(Bytes) /\ Len(read) = filePos + 1 - curfilpos
    BY <1>1, <1>4, <1>5, Stretch
  <2> QED
    BY <1>1, <1>2, <2>1
<1>7. \/ ~StartCodeAt(filePos + 1) /\ Rewind(read) = 0
      \/ /\ StartCodeAt(filePos + 1)
         /\ Rewind(read) = IF file[(filePos + 1) - 3] = 0 THEN 4 ELSE 3
  <2>1. filePos + 1 \in (curfilpos + 4)..Len(file)
    BY <1>1, <1>3
  <2> QED
    BY <1>1, <1>5, <2>1, RewindAt
<1>8. file[filePos + 1] \in Bytes
  BY <1>1, <1>4
<1> QED
  BY <1>2, <1>3, <1>5, <1>6, <1>7, <1>8 DEF read

LEMMA ScanByteNalInv == NalInv /\ ScanByte => NalInv'
<1> SUFFICES ASSUME NalInv, ScanByte PROVE NalInv'
  OBVIOUS
<1> DEFINE read == Append(unit, file[filePos + 1])
           back == Rewind(read)
           a == curfilpos
           b == filePos + 1
           k == Len(units) + 1
<1>1. /\ state = "scan" /\ ~eof /\ Remaining > 0
      /\ payloadSize' = GrownPayload
      /\ \/ /\ back = 0
            /\ unit' = read /\ pos' = pos + 1 /\ filePos' = b
            /\ UNCHANGED <<state, units>>
         \/ /\ back > 0
            /\ Returns(SubSeq(read, 1, pos + 1 - back))
            /\ filePos' = SeekBack(back)
      /\ UNCHANGED <<file, cuts, eof, curfilpos>>
  BY DEF ScanByte
<1>2. /\ TypeOK /\ InTurn
      /\ file \in Seq(Bytes) /\ Len(file) \in Nat
      /\ a = EndOfUnits /\ a \in 0..Len(file) /\ filePos \in 0..Len(file)
      /\ Len(unit) = filePos - a
      /\ pos \in Nat /\ pos >= 5
      /\ payloadSize \in Nat /\ payloadSize >= 5 /\ Len(unit) <= payloadSize
      /\ GrownPayload \in Nat /\ GrownPayload >= payloadSize
      /\ Len(units) \in Nat /\ Len(cuts) \in Nat
  <2>1. filePos \in (a + 4)..Len(file)
    BY <1>1, ScanFacts
  <2>2. a \in 0..Len(file) /\ Len(file) \in Nat
    BY <1>1, ScanFacts
  <2>3. filePos \in 0..Len(file)
    BY <2>1, <2>2
  <2> QED
    BY <1>1, <2>3, ScanFacts
<1>3. /\ b \in (a + 6)..Len(file)
      /\ pos = filePos - a
      /\ file[b] \in Bytes
      /\ read = SubSeq(file, a + 1, b)
      /\ read \in Seq(Bytes) /\ Len(read) = pos + 1
      /\ \/ ~StartCodeAt(b) /\ back = 0
         \/ StartCodeAt(b) /\ back = IF file[b - 3] = 0 THEN 4 ELSE 3
  <2>1. state = "scan" /\ ~eof /\ Remaining > 0
    BY DEF ScanByte
  <2> QED
    BY <2>1, ScanByteFacts
<1>4. \A p \in (a + 6)..filePos : ~StartCodeAt(p)
  BY <1>1 DEF NalInv, NonePassed
<1>5. /\ \A p : StartCodeAt(p)' <=> StartCodeAt(p)
      /\ WellFormed' <=> WellFormed
  BY <1>1, SameFile
<1> HIDE DEF read, back
<1>6. CASE back = 0
  <2>1. /\ unit' = read /\ pos' = pos + 1 /\ filePos' = b
        /\ UNCHANGED <<state, units>>
    BY <1>1, <1>6
  <2>2. TypeOK' /\ payloadSize' >= 5
    <3>1. filePos' \in 0..Len(file) /\ pos' \in Nat
      BY <1>2, <1>3, <2>1
    <3>2. pos + 1 <= GrownPayload
      BY <1>2, <1>3 DEF GrownPayload
    <3>3. Len(unit') <= payloadSize' /\ payloadSize' \in Nat /\ payloadSize' >= 5
      BY <1>1, <1>2, <1>3, <2>1, <3>2
    <3> QED
      BY <1>1, <1>2, <1>3, <2>1, <3>1, <3>3 DEF TypeOK
  <2>3. /\ UnitsFromFile' /\ EndOfUnits' = EndOfUnits
        /\ WellFormed' =>
              /\ WellFormed
              /\ (Len(units) <= Len(cuts))'
              /\ EndOfUnits' = CutAt(Len(units))'
              /\ \A i \in 1..Len(units)' : units'[i].bytes = Nal(i)'
    BY <1>1, <2>1, SameUnits
  <2>4. Scanning'
    <3>1. pos' = filePos' - curfilpos' /\ pos' >= 5
      <4>1. pos + 1 = b - a /\ pos + 1 >= 5
        BY <1>2, <1>3
      <4> QED
        BY <1>1, <2>1, <4>1
    <3>2. unit' = SubSeq(file', curfilpos' + 1, filePos') /\ curfilpos' = EndOfUnits' /\ ~eof'
      BY <1>1, <1>2, <1>3, <2>1, <2>3
    <3> QED
      BY <3>1, <3>2 DEF Scanning
  <2>5. NonePassed'
    <3>1. ~StartCodeAt(b)
      BY <1>3, <1>6
    <3>2. \A p \in (a + 6)..b : p \in (a + 6)..filePos \/ p = b
      BY <1>2
    <3>3. \A p \in (a + 6)..b : ~StartCodeAt(p)
      BY <1>4, <3>1, <3>2
    <3> QED
      BY <1>1, <1>5, <2>1, <3>3 DEF NonePassed
  <2>6. InTurn'
    <3>1. WellFormed => Len(units) < Len(cuts)
      BY <1>1 DEF NalInv, InTurn
    <3>2. state' = "scan"
      BY <1>1, <2>1
    <3> QED
      BY <1>1, <2>1, <2>3, <3>1, <3>2 DEF InTurn
  <2>7. Between' /\ ~eof'
    BY <1>1, <2>1 DEF Between
  <2> QED
    BY <2>2, <2>3, <2>4, <2>5, <2>6, <2>7 DEF NalInv
<1>7. CASE back > 0
  <2> DEFINE e == b - back
             u == SubSeq(read, 1, pos + 1 - back)
  <2>1. /\ StartCodeAt(b) /\ back \in {3, 4}
        /\ back = IF file[b - 3] = 0 THEN 4 ELSE 3
    BY <1>3, <1>7
  <2>2. /\ units' = Append(units, [from |-> a, bytes |-> u])
        /\ state' = "idle" /\ unit' = <<>> /\ pos' = 0
        /\ filePos' = e
    <3>1. Returns(u) /\ filePos' = SeekBack(back)
      BY <1>1, <1>7
    <3>2. /\ units' = Append(units, [from |-> a, bytes |-> u])
          /\ state' = "idle" /\ unit' = <<>> /\ pos' = 0
      BY <3>1 DEF Returns
    <3>3. filePos' = e
      BY <1>2, <2>1, <3>1 DEF SeekBack
    <3> QED
      BY <3>2, <3>3
  <2>3. /\ e \in a..Len(file) /\ pos + 1 - back \in 0..(b - a)
        /\ a + (pos + 1 - back) = e /\ b \in a..Len(file)
    BY <1>2, <1>3, <2>1
  <2>4. u = SubSeq(file, a + 1, e)
    <3>1. \A n \in 0..(b - a) :
            SubSeq(SubSeq(file, a + 1, b), 1, n) = SubSeq(file, a + 1, a + n)
      BY <1>2, <2>3, StretchBegins
    <3> QED
      BY <1>3, <2>3, <3>1
  <2>5. ASSUME WellFormed PROVE Len(units) < Len(cuts) /\ e = CutAt(Len(units) + 1)
    <3>1. Len(units) < Len(cuts)
      BY <1>1, <2>5 DEF NalInv, InTurn
    <3>2. k \in 1..Len(cuts) /\ CutAt(k - 1) = a
      BY <1>2, <2>5, <3>1, NextUnit
    <3>3. \A q \in (a + 6)..(b - 1) : ~StartCodeAt(q)
      <4>1. b - 1 = filePos
        BY <1>2
      <4> QED
        BY <1>4, <4>1
    <3>4. b = CutAt(k) + back
      BY <1>2, <1>3, <2>1, <2>5, <3>2, <3>3, NextStartCode
    <3>5. CutAt(k) \in Nat
      BY <1>2, <3>2, CutTypes
    <3>6. e = CutAt(k)
      BY <2>1, <3>4, <3>5
    <3> QED
      BY <3>1, <3>6
  <2> HIDE DEF e, u
  <2>6. /\ units' \in Seq(Unit)' /\ UnitsFromFile' /\ EndOfUnits' = e
        /\ WellFormed' =>
              /\ (Len(units) <= Len(cuts))'
              /\ EndOfUnits' = CutAt(Len(units))'
              /\ \A i \in 1..Len(units)' : units'[i].bytes = Nal(i)'
    <3>1. PICK ee, uu : ee = e /\ uu = u
      OBVIOUS
    <3>2. /\ ee \in EndOfUnits..Len(file) /\ uu = SubSeq(file, EndOfUnits + 1, ee)
          /\ units' = Append(units, [from |-> EndOfUnits, bytes |-> uu])
          /\ WellFormed => Len(units) < Len(cuts) /\ ee = CutAt(Len(units) + 1)
      BY <1>2, <2>2, <2>3, <2>4, <2>5, <3>1
    <3> QED
      BY <1>1, <3>1, <3>2, OneMoreUnit
  <2>7. TypeOK' /\ payloadSize' >= 5
    <3>1. filePos' \in 0..Len(file)
      BY <1>2, <2>2, <2>3
    <3>2. Len(unit') <= payloadSize' /\ payloadSize' \in Nat /\ payloadSize' >= 5
      BY <1>1, <1>2, <2>2
    <3> QED
      BY <1>1, <1>2, <2>2, <2>6, <3>1, <3>2 DEF TypeOK, Unit
  <2>8. Between' /\ ~eof'
    BY <1>1, <2>2, <2>6 DEF Between
  <2>9. InTurn'
    BY <2>2, <2>6 DEF InTurn
  <2> QED
    BY <2>2, <2>6, <2>7, <2>8, <2>9 DEF NalInv, Scanning, NonePassed
<1> QED
  BY <1>1, <1>6, <1>7

\* A call that has passed no start code up to the end of the file has read the last
\* unit, to its end.
LEMMA LastUnit ==
  ASSUME NalInv, state = "scan", filePos = Len(file), WellFormed
  PROVE  /\ Len(units) + 1 = Len(cuts)
         /\ CutAt(Len(units) + 1) = Len(file)
         /\ curfilpos + 5 <= Len(file)
         /\ file[Len(file)] # 0
<1> DEFINE k == Len(units) + 1
<1>1. TypeOK /\ InTurn /\ curfilpos = EndOfUnits
  BY ScanFacts
<1>2. Len(units) < Len(cuts)
  BY <1>1 DEF InTurn
<1>3. /\ k \in 1..Len(cuts) /\ CutAt(k - 1) = curfilpos
      /\ curfilpos + 5 <= CutAt(k)
  BY <1>1, <1>2, NextUnit
<1> HIDE DEF k
<1>4. \A p \in (CutAt(k - 1) + 6)..Len(file) : ~StartCodeAt(p)
  BY <1>3 DEF NalInv, NonePassed
<1>5. k = Len(cuts) /\ CutAt(k) = Len(file)
  BY <1>1, <1>3, <1>4, NoStartCode
<1>6. file[CutAt(k)] # 0
  BY <1>1, <1>3, UnitStarts
<1> QED
  BY <1>3, <1>5, <1>6 DEF k

LEMMA ScanPastEndNalInv ==
  ASSUME NEW old \in Bytes
  PROVE  NalInv /\ ScanPastEnd(old) => NalInv'
<1> SUFFICES ASSUME NalInv, ScanPastEnd(old) PROVE NalInv'
  OBVIOUS
<1> DEFINE read == Append(unit, old)
<1>1. /\ state = "scan" /\ ~eof /\ Remaining = 0 /\ eof'
      /\ \/ pos' = pos + 1 /\ UNCHANGED <<state, units>>
         \/ Rewind(read) > 0 /\ state' = "done" /\ UNCHANGED <<pos, units>>
      /\ payloadSize' = GrownPayload
      /\ UNCHANGED <<file, cuts, filePos, curfilpos, unit, units>>
  BY DEF ScanPastEnd
<1>2. /\ TypeOK /\ curfilpos = EndOfUnits
      /\ curfilpos \in 0..Len(file) /\ filePos \in (curfilpos + 4)..Len(file)
      /\ Len(file) \in Nat /\ file \in Seq(Bytes)
      /\ unit \in Seq(Bytes) /\ unit = SubSeq(file, curfilpos + 1, filePos)
      /\ Len(unit) = filePos - curfilpos /\ Len(unit) >= 4
      /\ pos \in Nat /\ payloadSize \in Nat /\ payloadSize >= 5 /\ Len(unit) <= payloadSize
      /\ GrownPayload \in Nat /\ GrownPayload >= payloadSize
      /\ Len(units) \in Nat /\ Len(cuts) \in Nat
  BY <1>1, ScanFacts
<1>3. filePos = Len(file)
  BY <1>1, <1>2 DEF Remaining
<1>4. pos = filePos - curfilpos /\ pos >= 5 /\ unit = SubSeq(file, curfilpos + 1, filePos)
  BY <1>1 DEF NalInv, Scanning
<1>5. ASSUME WellFormed PROVE Rewind(read) = 0
  <2>1. file[Len(file)] # 0
    BY <1>1, <1>3, <1>5, LastUnit
  <2>2. unit[Len(unit)] = file[Len(file)]
    <3>1. \A i \in 1..(filePos - curfilpos) : unit[i] = file[curfilpos + i]
      <4>1. filePos \in curfilpos..Len(file)
        BY <1>2
      <4> QED
        BY <1>2, <4>1, Stretch
    <3>2. Len(unit) \in 1..(filePos - curfilpos) /\ curfilpos + Len(unit) = Len(file)
      BY <1>2, <1>3
    <3> QED
      BY <3>1, <3>2
  <2>3. /\ read \in Seq(Bytes) /\ Len(read) = Len(unit) + 1
        /\ \A i \in 1..Len(unit) : read[i] = unit[i]
    BY <1>2, AppendProperties
  <2> HIDE DEF read
  <2>4. Len(read) >= 4 /\ Len(read) - 1 = Len(unit) /\ Len(unit) \in 1..Len(unit)
    BY <1>2, <2>3
  <2>5. read[Len(read) - 1] # 0
    BY <2>1, <2>2, <2>3, <2>4
  <2> QED
    BY <2>3, <2>4, <2>5, RewindOf
<1>6. TypeOK' /\ payloadSize' >= 5
  <2>1. pos' \in Nat /\ state' \in {"idle", "scan", "done"} /\ eof' \in BOOLEAN
    BY <1>1, <1>2 DEF ScanPastEnd, TypeOK
  <2>2. Len(unit') <= payloadSize' /\ payloadSize' \in Nat /\ payloadSize' >= 5
    BY <1>1, <1>2
  <2> QED
    BY <1>1, <1>2, <2>1, <2>2 DEF TypeOK
<1>7. /\ UnitsFromFile' /\ EndOfUnits' = EndOfUnits
      /\ WellFormed' =>
              /\ WellFormed
              /\ (Len(units) <= Len(cuts))'
              /\ EndOfUnits' = CutAt(Len(units))'
              /\ \A i \in 1..Len(units)' : units'[i].bytes = Nal(i)'
  BY <1>1, SameUnits
<1>8. Scanning'
  <2> SUFFICES ASSUME state' = "scan"
               PROVE  /\ curfilpos' = EndOfUnits'
                      /\ unit' = SubSeq(file', curfilpos' + 1, filePos')
                      /\ pos' >= 6 /\ pos' = (filePos' - curfilpos') + 1
    BY <1>1, <1>2 DEF Scanning
  <2>1. pos' = pos + 1
    BY <1>1
  <2> QED
    BY <1>1, <1>2, <1>4, <1>7, <2>1
<1>9. NonePassed'
  <2>1. \A p : StartCodeAt(p)' <=> StartCodeAt(p)
    BY <1>1, SameFile
  <2> QED
    BY <1>1, <2>1 DEF NalInv, NonePassed
<1>10. InTurn'
  <2>1. WellFormed' => state' = "scan" /\ Len(units) < Len(cuts)
    BY <1>1, <1>5, <1>7 DEF NalInv, InTurn
  <2> QED
    BY <1>1, <1>7, <2>1 DEF InTurn
<1>11. Between' /\ (eof => filePos = Len(file))'
  BY <1>1, <1>3 DEF Between
<1> QED
  BY <1>6, <1>7, <1>8, <1>9, <1>10, <1>11 DEF NalInv

LEMMA ScanEndsNalInv == NalInv /\ ScanEnds => NalInv'
<1> SUFFICES ASSUME NalInv, ScanEnds PROVE NalInv'
  OBVIOUS
<1>1. /\ state = "scan" /\ eof
      /\ \/ HasUnit /\ Returns(SubSeq(unit, 1, pos - 1))
         \/ ~HasUnit /\ state' = "done" /\ UNCHANGED <<units, unit, pos>>
      /\ UNCHANGED <<file, cuts, payloadSize, filePos, eof, curfilpos>>
  BY DEF ScanEnds, ReturnsNothing
<1>2. /\ TypeOK /\ curfilpos = EndOfUnits
      /\ curfilpos \in 0..Len(file) /\ filePos \in curfilpos..Len(file)
      /\ Len(file) \in Nat /\ file \in Seq(Bytes)
      /\ unit = SubSeq(file, curfilpos + 1, filePos)
      /\ pos \in Nat /\ payloadSize \in Nat /\ payloadSize >= 5
      /\ Len(units) \in Nat /\ Len(cuts) \in Nat
  BY <1>1, ScanFacts
<1>3. filePos = Len(file)
  BY <1>1 DEF NalInv
<1>4. \/ pos = 5 /\ filePos = curfilpos + 4
      \/ pos >= 6 /\ pos = (filePos - curfilpos) + 1
  BY <1>1, <1>2 DEF NalInv, Scanning
<1>5. CASE HasUnit
  <2> DEFINE u == SubSeq(unit, 1, pos - 1)
             e == filePos
  <2>1. /\ units' = Append(units, [from |-> curfilpos, bytes |-> u])
        /\ state' = "idle" /\ unit' = <<>> /\ pos' = 0
    BY <1>1, <1>5 DEF Returns
  <2>2. u = SubSeq(file, curfilpos + 1, filePos)
    <3>1. pos - 1 = filePos - curfilpos
      BY <1>2, <1>4, <1>5 DEF HasUnit
    <3>2. filePos - curfilpos \in 0..(filePos - curfilpos)
          /\ curfilpos + (filePos - curfilpos) = filePos
      BY <1>2
    <3>3. \A n \in 0..(filePos - curfilpos) :
            SubSeq(SubSeq(file, curfilpos + 1, filePos), 1, n)
              = SubSeq(file, curfilpos + 1, curfilpos + n)
      BY <1>2, StretchBegins
    <3> QED
      BY <1>2, <3>1, <3>2, <3>3
  <2>3. WellFormed => Len(units) < Len(cuts) /\ filePos = CutAt(Len(units) + 1)
    BY <1>1, <1>2, <1>3, LastUnit
  <2> HIDE DEF u
  <2>4. /\ units' \in Seq(Unit)' /\ UnitsFromFile' /\ EndOfUnits' = filePos
        /\ WellFormed' =>
              /\ (Len(units) <= Len(cuts))'
              /\ EndOfUnits' = CutAt(Len(units))'
              /\ \A i \in 1..Len(units)' : units'[i].bytes = Nal(i)'
    <3>1. PICK ee, uu : ee = filePos /\ uu = u
      OBVIOUS
    <3>2. /\ ee \in EndOfUnits..Len(file) /\ uu = SubSeq(file, EndOfUnits + 1, ee)
          /\ units' = Append(units, [from |-> EndOfUnits, bytes |-> uu])
          /\ WellFormed => Len(units) < Len(cuts) /\ ee = CutAt(Len(units) + 1)
      BY <1>2, <2>1, <2>2, <2>3, <3>1
    <3> QED
      BY <1>1, <3>1, <3>2, OneMoreUnit
  <2>5. TypeOK' /\ payloadSize' >= 5
    BY <1>1, <1>2, <2>1, <2>4 DEF TypeOK, Unit
  <2>6. Between' /\ (eof => filePos = Len(file))'
    BY <1>1, <1>3, <2>1, <2>4 DEF Between
  <2>7. InTurn'
    BY <2>1, <2>4 DEF InTurn
  <2> QED
    BY <2>1, <2>4, <2>5, <2>6, <2>7 DEF NalInv, Scanning, NonePassed
<1>6. CASE ~HasUnit
  <2>1. state' = "done" /\ UNCHANGED <<units, unit, pos>>
    BY <1>1, <1>6
  <2>2. filePos = curfilpos + 4
    BY <1>2, <1>4, <1>6 DEF HasUnit
  <2>3. ~WellFormed
    <3>1. WellFormed => curfilpos + 5 <= Len(file)
      BY <1>1, <1>3, LastUnit
    <3> QED
      BY <1>2, <1>3, <2>2, <3>1
  <2>4. /\ UnitsFromFile' /\ EndOfUnits' = EndOfUnits /\ ~WellFormed'
    BY <1>1, <2>1, <2>3, SameUnits
  <2>5. TypeOK' /\ payloadSize' >= 5
    BY <1>1, <1>2, <2>1 DEF TypeOK
  <2>6. Between' /\ (eof => filePos = Len(file))' /\ InTurn'
    BY <1>1, <1>3, <2>1, <2>4 DEF Between, InTurn
  <2> QED
    BY <2>1, <2>4, <2>5, <2>6 DEF NalInv, Scanning, NonePassed
<1> QED
  BY <1>5, <1>6

\* The payload cannot grow: the unit is not returned, nor is any after it.
LEMMA GrowFailsNalInv == NalInv /\ GrowFails => NalInv'
<1> SUFFICES ASSUME NalInv, GrowFails PROVE NalInv'
  OBVIOUS
<1>1. /\ state' = "done" /\ ~eof
      /\ UNCHANGED <<file, cuts, filePos, eof, curfilpos, unit, pos, payloadSize, units>>
  BY DEF GrowFails, ReturnsNothing
<1>2. /\ UnitsFromFile'
      /\ WellFormed' =>
              /\ WellFormed
              /\ (Len(units) <= Len(cuts))'
              /\ EndOfUnits' = CutAt(Len(units))'
              /\ \A i \in 1..Len(units)' : units'[i].bytes = Nal(i)'
  BY <1>1, SameUnits
<1>3. TypeOK' /\ payloadSize' >= 5 /\ ~eof'
  BY <1>1 DEF NalInv, TypeOK
<1>4. InTurn'
  BY <1>1, <1>2, <1>3 DEF InTurn
<1> QED
  BY <1>1, <1>2, <1>3, <1>4 DEF NalInv, Between, Scanning, NonePassed

LEMMA NextNalInv == NalInv /\ Next => NalInv'
<1> SUFFICES ASSUME NalInv, Next PROVE NalInv'
  OBVIOUS
<1>1. CASE CallAtEnd
  BY <1>1, CallAtEndNalInv
<1>2. CASE CallReadsStart
  BY <1>2, CallReadsStartNalInv
<1>3. CASE ScanByte
  BY <1>3, ScanByteNalInv
<1>4. CASE ScanEnds
  BY <1>4, ScanEndsNalInv
<1>5. CASE \E old \in Bytes : ScanPastEnd(old)
  BY <1>5, ScanPastEndNalInv
<1>6. CASE GrowFails
  BY <1>6, GrowFailsNalInv
<1> QED
  BY <1>1, <1>2, <1>3, <1>4, <1>5, <1>6 DEF Next

LEMMA StutterNalInv == NalInv /\ UNCHANGED vars => NalInv'
<1> SUFFICES ASSUME NalInv, UNCHANGED vars PROVE NalInv'
  OBVIOUS
<1> USE DEF vars, NalInv
<1>1. TypeOK' /\ (payloadSize >= 5)' /\ (eof => filePos = Len(file))'
  BY DEF TypeOK
<1>2. /\ UnitsFromFile' /\ EndOfUnits' = EndOfUnits
      /\ WellFormed' =>
              /\ WellFormed
              /\ (Len(units) <= Len(cuts))'
              /\ EndOfUnits' = CutAt(Len(units))'
              /\ \A i \in 1..Len(units)' : units'[i].bytes = Nal(i)'
  BY SameUnits
<1>3. Between' /\ Scanning'
  BY <1>2 DEF Between, Scanning
<1>4. \A p : StartCodeAt(p)' <=> StartCodeAt(p)
  BY SameFile
<1>5. NonePassed'
  BY <1>4 DEF NonePassed
<1>6. InTurn'
  BY <1>2 DEF InTurn
<1> QED
  BY <1>1, <1>2, <1>3, <1>5, <1>6

-----------------------------------------------------------------------------
(***************************************************************************)
(* The invariant of DecodeTest is inductive.                               *)
(***************************************************************************)
LEMMA InitTestInv == TestInit => TestInv
<1> SUFFICES ASSUME TestInit PROVE TestInv
  OBVIOUS
<1>1. NalInv
  BY InitNalInv DEF TestInit
<1>2. /\ turn = "start" /\ given = <<>> /\ bFlushDecoder = FALSE
      /\ state = "idle" /\ units = <<>>
  BY DEF TestInit, Init
<1>3. given \in Seq(Seq(Bytes)) /\ Len(given) = 0
  BY <1>2
<1>4. TestTypeOK
  BY <1>1, <1>2, <1>3 DEF NalInv, TestTypeOK
<1>5. Turns
  BY <1>2 DEF Turns
<1>6. GivenInOrder
  BY <1>3 DEF GivenInOrder
<1> QED
  BY <1>1, <1>4, <1>5, <1>6 DEF TestInv

LEMMA ReadTestInv == TestInv /\ Read => TestInv'
<1> SUFFICES ASSUME TestInv, Read PROVE TestInv'
  OBVIOUS
<1>1. /\ turn = "read" /\ Next
      /\ turn' = IF state' = "scan" THEN "read" ELSE "decode"
      /\ UNCHANGED <<given, bFlushDecoder>>
  BY DEF Read
<1>2. NalInv' /\ TypeOK'
  BY <1>1, NextNalInv DEF TestInv, NalInv
<1>3. /\ state \in {"idle", "scan"} /\ Len(given) = Len(units) /\ ~bFlushDecoder
      /\ units \in Seq(Unit) /\ Len(units) \in Nat
      /\ given \in Seq(Seq(Bytes)) /\ bFlushDecoder \in BOOLEAN
  BY <1>1 DEF TestInv, TestTypeOK, TypeOK, Turns, Unit
<1>4. \/ state' \in {"scan", "done"} /\ units' = units
      \/ /\ state' = "idle" /\ Len(units') = Len(units) + 1
         /\ \A i \in 1..Len(units) : units'[i] = units[i]
  <2>1. CASE CallAtEnd
    BY <2>1 DEF CallAtEnd, ReturnsNothing
  <2>2. CASE CallReadsStart
    BY <2>2 DEF CallReadsStart, ReturnsNothing
  <2>3. ASSUME NEW u, Returns(u)
        PROVE  /\ state' = "idle" /\ Len(units') = Len(units) + 1
               /\ \A i \in 1..Len(units) : units'[i] = units[i]
    BY <1>3, <2>3 DEF Returns
  <2>4. CASE ScanByte
    <3>1. (state = "scan" /\ UNCHANGED <<state, units>>) \/ \E u : Returns(u)
      BY <2>4 DEF ScanByte
    <3> QED
      BY <2>3, <3>1
  <2>5. CASE ScanEnds
    <3>1. ReturnsNothing \/ \E u : Returns(u)
      BY <2>5 DEF ScanEnds
    <3> QED
      BY <2>3, <3>1 DEF ReturnsNothing
  <2>6. CASE \E old \in Bytes : ScanPastEnd(old)
    BY <2>6 DEF ScanPastEnd
  <2>7. CASE GrowFails
    BY <2>7 DEF GrowFails, ReturnsNothing
  <2> QED
    BY <1>1, <2>1, <2>2, <2>4, <2>5, <2>6, <2>7 DEF Next
<1>5. TestTypeOK'
  BY <1>1, <1>2, <1>3 DEF TestTypeOK
<1>6. Turns'
  BY <1>1, <1>3, <1>4 DEF Turns
<1>7. GivenInOrder'
  <2> SUFFICES ASSUME NEW i \in 1..Len(given) PROVE given[i] = units'[i].bytes
    BY <1>1 DEF GivenInOrder
  <2>1. given[i] = units[i].bytes /\ i \in 1..Len(units)
    BY <1>3 DEF TestInv, GivenInOrder
  <2> QED
    BY <1>4, <2>1
<1> QED
  BY <1>2, <1>5, <1>6, <1>7 DEF TestInv

\* An access unit is given to vvdec: the unit that has been returned or, at the end,
\* the empty one.
LEMMA GivesUnit ==
  ASSUME TestInv, turn = "decode", given' = Append(given, AccessUnit), UNCHANGED vars
  PROVE  /\ NalInv' /\ TypeOK'
         /\ given' \in Seq(Seq(Bytes)) /\ Len(given') = Len(given) + 1
         /\ GivenInOrder'
         /\ NoMore => given'[Len(given')] = <<>>
         /\ Len(given') = Len(units) + (IF NoMore THEN 1 ELSE 0)
<1>1. /\ units \in Seq(Unit) /\ Len(units) \in Nat
      /\ given \in Seq(Seq(Bytes)) /\ Len(given) \in Nat
  BY DEF TestInv, TestTypeOK, TypeOK, Unit
<1>2. \/ ~NoMore /\ Len(given) + 1 = Len(units)
      \/ NoMore /\ Len(given) = Len(units)
  BY DEF TestInv, Turns, NoMore
<1>3. NalInv' /\ TypeOK'
  BY StutterNalInv DEF TestInv, NalInv
<1>4. AccessUnit \in Seq(Bytes)
  <2>1. CASE NoMore
    BY <2>1 DEF AccessUnit
  <2>2. CASE ~NoMore
    <3>1. Len(units) \in 1..Len(units)
      BY <1>1, <1>2, <2>2
    <3>2. units[Len(units)] \in Unit
      BY <1>1, <3>1
    <3> QED
      BY <2>2, <3>2 DEF AccessUnit, Unit
  <2> QED
    BY <2>1, <2>2
<1> DEFINE g == Append(given, AccessUnit)
<1>5. /\ g \in Seq(Seq(Bytes)) /\ Len(g) = Len(given) + 1
      /\ \A i \in 1..Len(given) : g[i] = given[i]
      /\ g[Len(given) + 1] = AccessUnit
  BY <1>1, <1>4, AppendProperties
<1> HIDE DEF g
<1>6. \A i \in 1..Len(g) : i <= Len(units) => g[i] = units[i].bytes
  <2> SUFFICES ASSUME NEW i \in 1..Len(g), i <= Len(units) PROVE g[i] = units[i].bytes
    OBVIOUS
  <2>1. CASE i \in 1..Len(given)
    BY <1>5, <2>1 DEF TestInv, GivenInOrder
  <2>2. CASE i = Len(given) + 1
    <3>1. ~NoMore /\ i = Len(units)
      BY <1>1, <1>2, <2>2
    <3> QED
      BY <1>5, <2>2, <3>1 DEF AccessUnit
  <2> QED
    BY <1>1, <1>5, <2>1, <2>2
<1>7. given' = g
  BY DEF g
<1>8. GivenInOrder'
  BY <1>6, <1>7 DEF GivenInOrder, vars
<1>9. NoMore => g[Len(g)] = <<>>
  BY <1>5 DEF AccessUnit
<1>10. Len(g) = Len(units) + (IF NoMore THEN 1 ELSE 0)
  BY <1>1, <1>2, <1>5
<1> QED
  BY <1>3, <1>5, <1>7, <1>8, <1>9, <1>10

LEMMA DecodeTestInv == TestInv /\ Decode => TestInv'
<1> SUFFICES ASSUME TestInv, Decode PROVE TestInv'
  OBVIOUS
<1>1. /\ turn = "decode" /\ given' = Append(given, AccessUnit)
      /\ bFlushDecoder' \in BOOLEAN /\ turn' = (IF GoesOn THEN "read" ELSE "close")
      /\ UNCHANGED vars
  BY DEF Decode
<1>2. /\ NalInv' /\ TypeOK'
      /\ given' \in Seq(Seq(Bytes)) /\ GivenInOrder'
      /\ NoMore => given'[Len(given')] = <<>>
      /\ Len(given') = Len(units) + (IF NoMore THEN 1 ELSE 0)
  BY <1>1, GivesUnit
<1>3. TestTypeOK'
  BY <1>1, <1>2 DEF TestTypeOK
<1>4. Turns'
  <2>1. Len(units) \in Nat /\ UNCHANGED <<state, units>>
    BY <1>1 DEF vars, TestInv, TestTypeOK, TypeOK
  <2>2. CASE GoesOn
    <3>1. turn' = "read" /\ ~NoMore /\ ~bFlushDecoder'
      BY <1>1, <2>2 DEF GoesOn
    <3>2. Len(given') = Len(units')
      BY <1>2, <2>1, <3>1
    <3> QED
      BY <2>1, <3>1, <3>2 DEF Turns, NoMore
  <2>3. CASE ~GoesOn
    <3>1. turn' = "close" /\ (bFlushDecoder' \/ NoMore)
      BY <1>1, <2>3 DEF GoesOn
    <3>2. NoMore => Len(given') = Len(units') + 1 /\ state' = "done"
      BY <1>2, <2>1 DEF NoMore
    <3> QED
      BY <1>2, <3>1, <3>2 DEF Turns
  <2> QED
    BY <2>2, <2>3
<1> QED
  BY <1>2, <1>3, <1>4 DEF TestInv

LEMMA DecodeFailsTestInv == TestInv /\ DecodeFails => TestInv'
<1> SUFFICES ASSUME TestInv, DecodeFails PROVE TestInv'
  OBVIOUS
<1>1. /\ turn = "decode" /\ given' = Append(given, AccessUnit) /\ turn' = "returned"
      /\ UNCHANGED vars /\ UNCHANGED bFlushDecoder
  BY DEF DecodeFails
<1>2. NalInv' /\ TypeOK' /\ given' \in Seq(Seq(Bytes)) /\ GivenInOrder'
  BY <1>1, GivesUnit
<1>3. TestTypeOK'
  BY <1>1, <1>2 DEF TestTypeOK, TestInv
<1>4. Turns'
  BY <1>1 DEF Turns
<1> QED
  BY <1>2, <1>3, <1>4 DEF TestInv

\* Steps that read nothing and give vvdec nothing.
LEMMA QuietTestInv ==
  ASSUME TestInv, UNCHANGED <<vars, given, bFlushDecoder>>,
         turn' = turn \/ Open \/ Close
  PROVE  TestInv'
<1>1. UNCHANGED vars /\ UNCHANGED <<state, units, given, bFlushDecoder>>
  BY DEF vars
<1>2. NalInv' /\ TypeOK'
  BY <1>1, StutterNalInv DEF TestInv, NalInv
<1>3. turn' = turn \/ (turn = "start" /\ turn' \in {"read", "returned"}) \/ turn' = "returned"
  BY DEF Open, Close
<1>4. TestTypeOK'
  BY <1>1, <1>2, <1>3 DEF TestInv, TestTypeOK
<1>5. Turns'
  <2>1. CASE turn' = turn
    BY <1>1, <2>1 DEF TestInv, Turns
  <2>2. CASE turn = "start" /\ turn' \in {"read", "returned"}
    <3>1. state = "idle" /\ units = <<>> /\ given = <<>>
      BY <2>2 DEF TestInv, Turns
    <3>2. ~bFlushDecoder
      BY <2>2 DEF TestInv, Turns
    <3> QED
      BY <1>1, <2>2, <3>1, <3>2 DEF Turns
  <2>3. CASE turn' = "returned"
    BY <2>3 DEF Turns
  <2> QED
    BY <1>3, <2>1, <2>2, <2>3
<1>6. GivenInOrder'
  BY <1>1 DEF TestInv, GivenInOrder
<1> QED
  BY <1>2, <1>4, <1>5, <1>6 DEF TestInv

LEMMA NextTestInv == TestInv /\ [TestNext]_allVars => TestInv'
<1> SUFFICES ASSUME TestInv, [TestNext]_allVars PROVE TestInv'
  OBVIOUS
<1>1. CASE Open
  BY <1>1, QuietTestInv DEF Open
<1>2. CASE Read
  BY <1>2, ReadTestInv
<1>3. CASE Decode
  BY <1>3, DecodeTestInv
<1>4. CASE DecodeFails
  BY <1>4, DecodeFailsTestInv
<1>5. CASE Close
  BY <1>5, QuietTestInv DEF Close
<1>6. CASE UNCHANGED allVars
  BY <1>6, QuietTestInv DEF allVars, testVars
<1> QED
  BY <1>1, <1>2, <1>3, <1>4, <1>5, <1>6 DEF TestNext

LEMMA TestInvAlways == TestSpec => []TestInv
<1>1. TestInit => TestInv
  BY InitTestInv
<1>2. TestInv /\ [TestNext]_allVars => TestInv'
  BY NextTestInv
<1> QED
  BY <1>1, <1>2, PTL DEF TestSpec

-----------------------------------------------------------------------------
(***************************************************************************)
(* The theorems.                                                           *)
(***************************************************************************)
\* Every variable has its type, and no byte is read beyond the payload, which is
\* doubled in time whatever its first size.
THEOREM TestTypeCorrect == TestSpec => []TestTypeOK
<1>1. TestInv => TestTypeOK
  BY DEF TestInv
<1> QED
  BY <1>1, TestInvAlways, PTL

\* From a file of any bytes the calls return the beginning of the file, piece by
\* piece, also when NAL units are cut off or no NAL units at all.
THEOREM UnitsFromFileCorrect == TestSpec => []UnitsFromFile
<1>1. TestInv => UnitsFromFile
  BY DEF TestInv, NalInv
<1> QED
  BY <1>1, TestInvAlways, PTL

\* From a well-formed file of any length the calls return the NAL units, each in its
\* turn, whatever old bytes are in the buffer.
THEOREM UnitsCorrect == TestSpec => []UnitsAreNals
<1>1. TestInv => UnitsAreNals
  BY DEF TestInv, NalInv, InTurn, Between, UnitsAreNals
<1> QED
  BY <1>1, TestInvAlways, PTL

\* When the loop has run to the end of the file, vvdec has been given every unit, in
\* order, and then the empty access unit, whatever it has answered.
THEOREM AllGivenCorrect == TestSpec => []AllGiven
<1>1. ASSUME TestInv PROVE AllGiven
  <2> SUFFICES ASSUME turn = "close", eof, ~bFlushDecoder, WellFormed
               PROVE  /\ Len(given) = Len(cuts) + 1
                      /\ \A i \in 1..Len(cuts) : given[i] = Nal(i)
                      /\ given[Len(given)] = <<>>
    BY DEF AllGiven
  <2>1. state = "done" /\ Len(given) = Len(units) + 1 /\ given[Len(given)] = <<>>
    BY <1>1 DEF TestInv, Turns
  <2>2. Len(units) = Len(cuts) /\ \A i \in 1..Len(units) : units[i].bytes = Nal(i)
    BY <1>1, <2>1 DEF TestInv, NalInv, InTurn
  <2>3. \A i \in 1..Len(units) : i \in 1..Len(given) /\ i <= Len(units)
    <3>1. Len(units) \in Nat
      BY <1>1 DEF TestInv, TestTypeOK, TypeOK
    <3> QED
      BY <2>1, <3>1
  <2>4. \A i \in 1..Len(units) : given[i] = units[i].bytes
    BY <1>1, <2>3 DEF TestInv, GivenInOrder
  <2> QED
    BY <2>1, <2>2, <2>4
<1> QED
  BY <1>1, TestInvAlways, PTL

-----------------------------------------------------------------------------
(***************************************************************************)
(* The steps run out.                                                      *)
(***************************************************************************)
LEMMA StepsLeftBounded ==
  ASSUME TestInv
  PROVE  /\ StepsLeft \in Nat
         /\ CallFrom \in 0..Len(file)
<1>1. /\ Len(file) \in Nat /\ filePos \in 0..Len(file)
      /\ turn \in {"start", "read", "decode", "close", "returned"}
  BY DEF TestInv, TestTypeOK, TypeOK
<1>2. Remaining \in Nat
  BY <1>1 DEF Remaining
<1>3. StepsLeft \in Nat
  BY <1>1, <1>2 DEF StepsLeft
<1>4. CallFrom \in 0..Len(file)
  <2>1. state = "scan" => curfilpos \in 0..Len(file)
    BY ScanFacts DEF TestInv
  <2> QED
    BY <1>1, <2>1 DEF CallFrom
<1> QED
  BY <1>3, <1>4

\* A step of a call reads on, or it ends the call further on in the file.
LEMMA ReadAdvances ==
  ASSUME TestInv, Read
  PROVE  CallFrom' >= CallFrom /\ (CallFrom' = CallFrom => StepsLeft' < StepsLeft)
<1>1. /\ turn = "read" /\ Next
      /\ turn' = IF state' = "scan" THEN "read" ELSE "decode"
  BY DEF Read
<1>2. /\ NalInv /\ Len(file) \in Nat /\ filePos \in 0..Len(file) /\ state \in {"idle", "scan"}
  BY <1>1 DEF TestInv, TestTypeOK, TypeOK, Turns
<1>3. CASE CallAtEnd
  <2>1. /\ state = "idle" /\ state' = "done" /\ UNCHANGED <<file, filePos>>
    BY <1>3 DEF CallAtEnd, ReturnsNothing
  <2>2. CallFrom' = CallFrom /\ CallFrom = filePos
    BY <2>1 DEF CallFrom
  <2>3. StepsLeft' = 2 /\ StepsLeft = Len(file) + 5
    BY <1>1, <2>1 DEF StepsLeft, NoMore
  <2> QED
    BY <1>2, <2>2, <2>3
<1>4. CASE CallReadsStart
  <2> DEFINE x == IF Remaining < FirstBytes THEN Remaining ELSE FirstBytes
  <2>1. /\ state = "idle" /\ filePos' = filePos + x /\ file' = file /\ curfilpos' = filePos
        /\ eof' = (x < FirstBytes)
        /\ \/ x < 4 /\ state' = "done"
           \/ x >= 4 /\ state' = "scan"
    BY <1>4 DEF CallReadsStart, ReturnsNothing
  <2>2. x \in 0..5 /\ filePos + x \in filePos..Len(file)
    BY <1>2 DEF Remaining, FirstBytes
  <2> HIDE DEF x
  <2>3. CallFrom = filePos /\ StepsLeft = Len(file) + 5
    BY <1>1, <2>1 DEF CallFrom, StepsLeft
  <2>4. CASE state' = "done"
    <3>1. CallFrom' = filePos + x /\ StepsLeft' = 2
      BY <1>1, <2>1, <2>4 DEF CallFrom, StepsLeft, NoMore
    <3> QED
      BY <1>2, <2>2, <2>3, <3>1
  <2>5. CASE state' = "scan"
    <3>1. CallFrom' = filePos
      BY <2>1, <2>5 DEF CallFrom
    <3>2. StepsLeft' = IF eof' THEN 3 ELSE Remaining' + 4
      BY <1>1, <2>5 DEF StepsLeft
    <3>3. Remaining' = Len(file) - (filePos + x)
      BY <2>1 DEF Remaining
    <3>4. StepsLeft' = 3 \/ StepsLeft' = (Len(file) - (filePos + x)) + 4
      BY <3>2, <3>3
    <3>5. 3 < Len(file) + 5 /\ (Len(file) - (filePos + x)) + 4 < Len(file) + 5
      BY <1>2, <2>2
    <3> QED
      BY <1>2, <2>3, <3>1, <3>4, <3>5
  <2> QED
    BY <2>1, <2>4, <2>5
<1>5. CASE state = "scan"
  <2>1. /\ curfilpos \in 0..Len(file) /\ filePos \in (curfilpos + 4)..Len(file)
    BY <1>2, <1>5, ScanFacts
  <2>2. CallFrom = curfilpos /\ StepsLeft = IF eof THEN 3 ELSE Remaining + 4
    BY <1>1, <1>5 DEF CallFrom, StepsLeft
  <2>3. CASE ScanByte
    <3>1. /\ ~eof /\ ~eof' /\ Remaining > 0 /\ file' = file /\ curfilpos' = curfilpos
          /\ LET back == Rewind(Append(unit, file[filePos + 1]))
             IN  \/ state' = "scan" /\ filePos' = filePos + 1
                 \/ /\ back \in {3, 4} /\ filePos + 1 \in (curfilpos + 6)..Len(file)
                    /\ state' = "idle" /\ filePos' = SeekBack(back)
      <4>1. ~eof /\ Remaining > 0
        BY <2>3 DEF ScanByte
      <4> QED
        BY <1>2, <1>5, <2>3, <4>1, ScanByteFacts DEF ScanByte, Returns
    <3>2. CASE state' = "scan" /\ filePos' = filePos + 1
      <4>1. CallFrom' = curfilpos /\ StepsLeft' = Remaining' + 4
        BY <1>1, <3>1, <3>2 DEF CallFrom, StepsLeft
      <4>2. Remaining = Len(file) - filePos /\ Remaining' = Len(file) - (filePos + 1)
        BY <3>1, <3>2 DEF Remaining
      <4>3. StepsLeft = (Len(file) - filePos) + 4
            /\ StepsLeft' = (Len(file) - (filePos + 1)) + 4
        BY <2>2, <3>1, <4>1, <4>2
      <4>4. StepsLeft' < StepsLeft
        BY <1>2, <4>3
      <4> QED
        BY <2>1, <2>2, <4>1, <4>4
    <3>3. ASSUME NEW back \in {3, 4}, filePos + 1 \in (curfilpos + 6)..Len(file),
                 state' = "idle", filePos' = SeekBack(back)
          PROVE  CallFrom' > CallFrom
      <4>1. CallFrom' = SeekBack(back)
        BY <3>3 DEF CallFrom
      <4>2. SeekBack(back) > curfilpos
        BY <1>2, <2>1, <3>3 DEF SeekBack
      <4> QED
        BY <2>2, <4>1, <4>2
    <3>4. CallFrom' > CallFrom => CallFrom' >= CallFrom /\ CallFrom' # CallFrom
      <4>1. CallFrom \in Nat /\ CallFrom' \in Int
        <5>1. state' = "scan" => CallFrom' \in Int
          BY <2>1, <3>1 DEF CallFrom
        <5>2. state' = "idle" => CallFrom' \in Int
          <6>1. filePos' \in Int
            BY <1>2, <3>1 DEF SeekBack
          <6> QED
            BY <6>1 DEF CallFrom
        <5> QED
          BY <2>1, <2>2, <3>1, <5>1, <5>2
      <4> QED
        BY <4>1
    <3> QED
      BY <3>1, <3>2, <3>3, <3>4
  <2>4. CASE \E old \in Bytes : ScanPastEnd(old)
    <3>1. /\ ~eof /\ eof' /\ Remaining = 0 /\ UNCHANGED <<file, filePos, curfilpos>>
          /\ state' \in {"scan", "done"}
      BY <1>5, <2>4 DEF ScanPastEnd
    <3>2. CASE state' = "scan"
      <4>1. CallFrom' = curfilpos /\ StepsLeft' = 3
        BY <1>1, <3>1, <3>2 DEF CallFrom, StepsLeft
      <4> QED
        BY <2>1, <2>2, <3>1, <4>1
    <3>3. CASE state' = "done"
      <4>1. CallFrom' = filePos
        BY <3>1, <3>3 DEF CallFrom
      <4> QED
        BY <2>1, <2>2, <4>1
    <3> QED
      BY <3>1, <3>2, <3>3
  <2>5. CASE ScanEnds
    <3>1. state' \in {"idle", "done"} /\ filePos' = filePos
      BY <2>5 DEF ScanEnds, Returns, ReturnsNothing
    <3>2. CallFrom' = filePos
      BY <3>1 DEF CallFrom
    <3> QED
      BY <2>1, <2>2, <3>2
  <2>6. CASE GrowFails
    <3>1. CallFrom' = filePos
      BY <2>6 DEF GrowFails, ReturnsNothing, CallFrom
    <3> QED
      BY <2>1, <2>2, <3>1
  <2> QED
    BY <1>1, <1>3, <1>4, <2>3, <2>4, <2>5, <2>6 DEF Next
<1> QED
  BY <1>1, <1>2, <1>3, <1>4, <1>5 DEF Next, ScanByte, ScanPastEnd, ScanEnds, GrowFails

\* The measure of StepsRunOut is a pair of natural numbers, of which the first is
\* bounded: it cannot advance for ever.
THEOREM StepsBounded == TestSpec => [](StepsLeft \in Nat /\ CallFrom \in 0..Len(file))
<1>1. TestInv => StepsLeft \in Nat /\ CallFrom \in 0..Len(file)
  BY StepsLeftBounded
<1> QED
  BY <1>1, TestInvAlways, PTL

\* From a file of any bytes, and whatever vvdec answers, every step of main brings it
\* nearer to its end: the loop of the reader and the loop around it cannot run on.
THEOREM StepsRunOutCorrect == TestSpec => StepsRunOut
<1> DEFINE A == CallFrom' >= CallFrom /\ (CallFrom' = CallFrom => StepsLeft' < StepsLeft)
<1>1. ASSUME TestInv, [TestNext]_allVars PROVE [A]_allVars
  <2>1. Len(file) \in Nat /\ CallFrom \in Nat
    BY <1>1, StepsLeftBounded DEF TestInv, TestTypeOK, TypeOK
  <2>2. CASE Read
    BY <1>1, <2>2, ReadAdvances
  <2>3. ASSUME UNCHANGED vars
        PROVE  CallFrom' = CallFrom /\ Len(file)' = Len(file) /\ (NoMore' <=> NoMore)
    BY <2>3 DEF vars, CallFrom, NoMore
  <2>4. CASE Open
    <3>1. StepsLeft = Len(file) + 7
      BY <2>4 DEF Open, StepsLeft
    <3>2. state = "idle"
      BY <1>1, <2>4 DEF Open, TestInv, Turns
    <3>3. StepsLeft' = Len(file) + 5 \/ StepsLeft' = 0
      BY <2>4, <3>2 DEF Open, StepsLeft, vars
    <3> QED
      BY <2>1, <2>3, <2>4, <3>1, <3>3 DEF Open
  <2>5. CASE Decode
    <3>1. StepsLeft = IF NoMore THEN 2 ELSE Len(file) + 6
      BY <2>5 DEF Decode, StepsLeft
    <3>2. ~NoMore => state = "idle"
      BY <1>1, <2>5 DEF Decode, TestInv, Turns, NoMore
    <3>3. turn' = "close" \/ (turn' = "read" /\ ~NoMore)
      BY <2>5 DEF Decode, GoesOn
    <3>4. turn' = "close" => StepsLeft' = 1
      BY DEF StepsLeft
    <3>5. turn' = "read" /\ ~NoMore => StepsLeft' = Len(file) + 5
      BY <2>5, <3>2 DEF Decode, StepsLeft, vars
    <3> QED
      BY <2>1, <2>3, <2>5, <3>1, <3>3, <3>4, <3>5 DEF Decode
  <2>6. CASE DecodeFails
    <3>1. StepsLeft = (IF NoMore THEN 2 ELSE Len(file) + 6) /\ StepsLeft' = 0
      BY <2>6 DEF DecodeFails, StepsLeft
    <3> QED
      BY <2>1, <2>3, <2>6, <3>1 DEF DecodeFails
  <2>7. CASE Close
    <3>1. StepsLeft = 1 /\ StepsLeft' = 0
      BY <2>7 DEF Close, StepsLeft
    <3> QED
      BY <2>1, <2>3, <2>7, <3>1 DEF Close
  <2> QED
    BY <1>1, <2>2, <2>4, <2>5, <2>6, <2>7 DEF TestNext
<1> QED
  BY <1>1, TestInvAlways, PTL DEF TestSpec, StepsRunOut
=============================================================================
