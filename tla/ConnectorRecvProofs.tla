------------------------- MODULE ConnectorRecvProofs -------------------------
(***************************************************************************)
(* Proofs about the receive ring, for every buffer size, byte alphabet and *)
(* set of written blocks: its pointers stay in range and agree, and it is  *)
(* a FIFO byte channel.  From them, that RecvComplete cuts whole packets   *)
(* off the ring in the order they were sent, for every sequence of packet  *)
(* lengths, head size and number of clients.                               *)
(***************************************************************************)
EXTENDS ConnectorRecv, SequenceTheorems, TLAPS

USE SizeAssumption, ByteAssumption

\* RingTypeOK and PointersAgree together are inductive: that a wrapped write never
\* runs into unread data needs the pointers to agree, and that they keep agreeing
\* needs their ranges.
RingInv == RingTypeOK /\ PointersAgree

LEMMA CopyInType ==
    ASSUME NEW b \in [0..(BufferSize - 1) -> Byte], NEW at \in Nat, NEW s \in Seq(Byte)
    PROVE  CopyIn(b, at, s) \in [0..(BufferSize - 1) -> Byte]
  BY DEF CopyIn

LEMMA WriteInv == ASSUME RingInv, NEW s \in Seq(Byte), Write(s) PROVE RingInv'
  <1> DEFINE gap == BufferSize - pWrite
  <1>1. s \in Seq(Byte) /\ Len(s) \in Nat /\ gap \in Nat
    BY DEF RingInv, RingTypeOK
  <1>t. buffer \in [0..(BufferSize - 1) -> Byte] /\ pWrite \in Nat
    BY DEF RingInv, RingTypeOK
  <1>2. /\ nDataSize' = nDataSize + Len(s)
        /\ pRead' = pRead
        /\ dest' = dest
        /\ Len(s) <= BufferSize - nDataSize
    BY DEF Write
  <1>3. CASE gap < Len(s)
    <2>1. pWrite' = Len(s) - gap
      BY <1>3 DEF Write
    <2>2. SubSeq(s, 1, gap) \in Seq(Byte) /\ SubSeq(s, gap + 1, Len(s)) \in Seq(Byte)
      BY <1>1, <1>3
    <2>3. CopyIn(buffer, pWrite, SubSeq(s, 1, gap)) \in [0..(BufferSize - 1) -> Byte]
      BY <1>t, <2>2, CopyInType, Zenon
    <2>4. buffer' = CopyIn(CopyIn(buffer, pWrite, SubSeq(s, 1, gap)),
                           0, SubSeq(s, gap + 1, Len(s)))
      BY <1>3 DEF Write
    <2>5. buffer' \in [0..(BufferSize - 1) -> Byte]
      BY <2>2, <2>3, <2>4, CopyInType, Zenon
    <2>6. PointersAgree' /\ pWrite' \in 0..BufferSize /\ nDataSize' \in 0..BufferSize
      BY <1>1, <1>2, <1>3, <2>1, SMTT(30) DEF RingInv, RingTypeOK, PointersAgree
    <2>7. QED
      BY <1>2, <2>5, <2>6 DEF RingInv, RingTypeOK
  <1>4. CASE ~(gap < Len(s))
    <2>1. pWrite' = pWrite + Len(s) /\ buffer' = CopyIn(buffer, pWrite, s)
      BY <1>4 DEF Write
    <2>2. buffer' \in [0..(BufferSize - 1) -> Byte]
      BY <1>1, <1>t, <2>1, CopyInType
    <2>3. PointersAgree' /\ pWrite' \in 0..BufferSize /\ nDataSize' \in 0..BufferSize
      BY <1>1, <1>2, <1>4, <2>1, SMTT(30) DEF RingInv, RingTypeOK, PointersAgree
    <2>4. QED
      BY <1>2, <2>2, <2>3 DEF RingInv, RingTypeOK
  <1>5. QED
    BY <1>3, <1>4

LEMMA ReadInv == ASSUME RingInv, NEW n \in 0..BufferSize, Read(n) PROVE RingInv'
  <1> DEFINE gap == BufferSize - pRead
  <1>1. dest' \in Seq(Byte)
    <2>1. CASE gap < n
      <3>1. CopyOut(pRead, gap) \in Seq(Byte)
        BY DEF RingInv, RingTypeOK, CopyOut
      <3>2. CopyOut(0, n - gap) \in Seq(Byte)
        BY <2>1 DEF RingInv, RingTypeOK, CopyOut
      <3>3. QED
        BY <2>1, <3>1, <3>2 DEF Read
    <2>2. CASE ~(gap < n)
      <3>1. CopyOut(pRead, n) \in Seq(Byte)
        BY <2>2 DEF RingInv, RingTypeOK, CopyOut
      <3>2. QED
        BY <2>2, <3>1 DEF Read
    <2>3. QED
      BY <2>1, <2>2
  <1>2. QED
    BY <1>1 DEF Read, RingInv, RingTypeOK, PointersAgree

LEMMA EraseInv == ASSUME RingInv, NEW n \in 0..BufferSize, Erase(n) PROVE RingInv'
  BY DEF Erase, RingInv, RingTypeOK, PointersAgree

LEMMA ResetInv == ASSUME RingInv, Reset PROVE RingInv'
  BY DEF Reset, RingInv, RingTypeOK, PointersAgree

LEMMA RingNextInv == RingInv /\ [RingNext]_ringVars => RingInv'
  <1> SUFFICES ASSUME RingInv, [RingNext]_ringVars PROVE RingInv'
    OBVIOUS
  <1>1. CASE UNCHANGED ringVars
    BY <1>1 DEF ringVars, RingInv, RingTypeOK, PointersAgree
  <1>2. CASE RingNext
    BY <1>2, WriteInv, ReadInv, EraseInv, ResetInv DEF RingNext
  <1>3. QED
    BY <1>1, <1>2

LEMMA RingInitInv == RingInit => RingInv
  BY DEF RingInit, RingInv, RingTypeOK, PointersAgree

\* Invariance: the read and write pointers and the data size of the receive ring
\* stay inside the buffer.
THEOREM CircleBufferTypeOK == RingSpec => []RingTypeOK
  <1>1. RingInv => RingTypeOK
    BY DEF RingInv
  <1>2. QED
    BY <1>1, RingInitInv, RingNextInv, PTL DEF RingSpec

\* Invariance: the read pointer, the write pointer and the data size, which
\* Write and Erase update separately, always describe the same bytes.
THEOREM CircleBufferPointersAgree == RingSpec => []PointersAgree
  <1>1. RingInv => PointersAgree
    BY DEF RingInv
  <1>2. QED
    BY <1>1, RingInitInv, RingNextInv, PTL DEF RingSpec

-----------------------------------------------------------------------------
(* Refinement: one lemma per operation says what it does to Contents.      *)

\* Contents with its three pieces of state as parameters.
Ring(b, p, n) == [i \in 1..n |-> b[Wrap(p + i - 1)]]

LEMMA RingSeq ==
    ASSUME NEW b \in [0..(BufferSize - 1) -> Byte], NEW p \in 0..BufferSize, NEW n \in 0..BufferSize
    PROVE  /\ Ring(b, p, n) \in Seq(Byte)
           /\ Len(Ring(b, p, n)) = n
           /\ \A i \in 1..n : Ring(b, p, n)[i] = b[Wrap(p + i - 1)]
  <1>1. \A i \in 1..n : Wrap(p + i - 1) \in 0..(BufferSize - 1)
    BY DEF Wrap
  <1>2. \A i \in 1..n : b[Wrap(p + i - 1)] \in Byte
    BY <1>1
  <1>3. n \in Nat
    OBVIOUS
  <1>4. QED
    BY <1>2, <1>3 DEF Ring

LEMMA ContentsSeq ==
    ASSUME RingTypeOK
    PROVE  /\ Contents \in Seq(Byte)
           /\ Len(Contents) = nDataSize
           /\ \A i \in 1..nDataSize : Contents[i] = buffer[Wrap(pRead + i - 1)]
  <1>1. Contents = Ring(buffer, pRead, nDataSize)
    BY DEF Contents, Ring
  <1>2. QED
    BY <1>1, RingSeq, Zenon DEF RingTypeOK

\* Where each byte of a written block lands, in both branches of Write.
LEMMA WriteBytes ==
    ASSUME RingInv, NEW s \in Seq(Byte), Write(s), NEW j \in 0..(BufferSize - 1)
    PROVE  buffer'[j] = IF pWrite <= j /\ j < pWrite + Len(s)
                          THEN s[j - pWrite + 1]
                          ELSE IF j < pWrite + Len(s) - BufferSize
                                 THEN s[j + BufferSize - pWrite + 1]
                                 ELSE buffer[j]
  <1> DEFINE gap == BufferSize - pWrite
  <1>1. s \in Seq(Byte) /\ Len(s) \in Nat /\ gap \in Nat /\ pWrite \in Nat
    BY DEF RingInv, RingTypeOK
  <1>2. DOMAIN buffer = 0..(BufferSize - 1)
    BY DEF RingInv, RingTypeOK
  <1>3. Len(s) <= BufferSize
    BY DEF Write, RingInv, RingTypeOK
  <1>4. CASE gap < Len(s)
    <2> DEFINE s1 == SubSeq(s, 1, gap)
               s2 == SubSeq(s, gap + 1, Len(s))
               b1 == CopyIn(buffer, pWrite, s1)
    <2>1. buffer' = CopyIn(b1, 0, s2)
      BY <1>4 DEF Write
    <2>2. Len(s1) = gap /\ \A i \in 1..gap : s1[i] = s[i]
      BY <1>1, <1>4
    <2>3. Len(s2) = Len(s) - gap /\ \A i \in 1..(Len(s) - gap) : s2[i] = s[gap + i]
      BY <1>1, <1>4
    <2>4. DOMAIN b1 = 0..(BufferSize - 1)
      BY <1>2 DEF CopyIn
    <2>5. b1[j] = IF pWrite <= j /\ j < pWrite + Len(s1) THEN s1[j - pWrite + 1] ELSE buffer[j]
      BY <1>2, Zenon DEF CopyIn
    <2>6. buffer'[j] = IF 0 <= j /\ j < 0 + Len(s2) THEN s2[j - 0 + 1] ELSE b1[j]
      BY <2>1, <2>4, Zenon DEF CopyIn
    <2> HIDE DEF s1, s2, b1
    <2>7. QED
      BY <1>1, <1>3, <1>4, <2>2, <2>3, <2>5, <2>6
  <1>5. CASE ~(gap < Len(s))
    <2>1. buffer' = CopyIn(buffer, pWrite, s)
      BY <1>5 DEF Write
    <2>2. buffer'[j] = IF pWrite <= j /\ j < pWrite + Len(s) THEN s[j - pWrite + 1] ELSE buffer[j]
      BY <1>2, <2>1 DEF CopyIn
    <2>3. QED
      BY <1>1, <1>5, <2>2
  <1>6. QED
    BY <1>4, <1>5

LEMMA WriteAppends ==
    ASSUME RingInv, NEW s \in Seq(Byte), Write(s)
    PROVE  Contents' = Contents \o s
  <1>1. RingTypeOK /\ RingTypeOK' /\ PointersAgree
    BY WriteInv DEF RingInv
  <1>2. s \in Seq(Byte) /\ Len(s) \in Nat
    OBVIOUS
  <1>3. nDataSize' = nDataSize + Len(s) /\ pRead' = pRead /\ Len(s) <= BufferSize - nDataSize
    BY DEF Write
  <1>4. ASSUME NEW i \in 1..(nDataSize + Len(s))
        PROVE  buffer'[Wrap(pRead + i - 1)] =
                 IF i <= nDataSize THEN buffer[Wrap(pRead + i - 1)] ELSE s[i - nDataSize]
    <2> DEFINE j == Wrap(pRead + i - 1)
    <2>1. j \in 0..(BufferSize - 1)
      BY <1>1, <1>2, <1>3 DEF RingTypeOK, Wrap
    <2>2. buffer'[j] = IF pWrite <= j /\ j < pWrite + Len(s)
                          THEN s[j - pWrite + 1]
                          ELSE IF j < pWrite + Len(s) - BufferSize
                                 THEN s[j + BufferSize - pWrite + 1]
                                 ELSE buffer[j]
      BY <2>1, WriteBytes
    <2>3. j = pRead + i - 1 \/ j = pRead + i - 1 - BufferSize
      BY <1>1 DEF Wrap, RingTypeOK
    <2>4. CASE i <= nDataSize
      <3>1. ~(pWrite <= j /\ j < pWrite + Len(s)) /\ ~(j < pWrite + Len(s) - BufferSize)
        BY <1>1, <1>2, <1>3, <2>1, <2>3, <2>4 DEF RingTypeOK, PointersAgree, Wrap
      <3>2. QED
        BY <2>2, <2>4, <3>1
    <2>5. CASE ~(i <= nDataSize)
      <3>1. \/ pWrite <= j /\ j < pWrite + Len(s) /\ j - pWrite + 1 = i - nDataSize
            \/ /\ ~(pWrite <= j /\ j < pWrite + Len(s))
               /\ j < pWrite + Len(s) - BufferSize
               /\ j + BufferSize - pWrite + 1 = i - nDataSize
        BY <1>1, <1>2, <1>3, <2>1, <2>3, <2>5, SMTT(30) DEF RingTypeOK, PointersAgree, Wrap
      <3>2. QED
        BY <2>2, <2>5, <3>1
    <2>6. QED
      BY <2>4, <2>5
  <1>5. /\ Contents \in Seq(Byte) /\ Len(Contents) = nDataSize
        /\ \A i \in 1..nDataSize : Contents[i] = buffer[Wrap(pRead + i - 1)]
    BY <1>1, ContentsSeq
  <1>6. /\ Contents' \in Seq(Byte) /\ Len(Contents') = nDataSize + Len(s)
        /\ \A i \in 1..(nDataSize + Len(s)) : Contents'[i] = buffer'[Wrap(pRead + i - 1)]
    <2>1. buffer' \in [0..(BufferSize - 1) -> Byte] /\ pRead' \in 0..BufferSize /\ nDataSize' \in 0..BufferSize
      BY <1>1 DEF RingTypeOK
    <2>2. Contents' = Ring(buffer', pRead', nDataSize')
      BY DEF Contents, Ring, Wrap
    <2>3. /\ Ring(buffer', pRead', nDataSize') \in Seq(Byte)
          /\ Len(Ring(buffer', pRead', nDataSize')) = nDataSize'
          /\ \A i \in 1..nDataSize' : Ring(buffer', pRead', nDataSize')[i] = buffer'[Wrap(pRead' + i - 1)]
      BY <2>1, RingSeq, Zenon
    <2>4. QED
      BY <1>3, <2>2, <2>3, Zenon
  <1>7. /\ Contents \o s \in Seq(Byte) /\ Len(Contents \o s) = nDataSize + Len(s)
        /\ \A i \in 1..(nDataSize + Len(s)) :
             (Contents \o s)[i] = IF i <= nDataSize THEN Contents[i] ELSE s[i - nDataSize]
    <2>1. Len(Contents \o s) = Len(Contents) + Len(s)
      BY <1>2, <1>5, SMTT(30)
    <2>2. \A i \in 1..(Len(Contents) + Len(s)) :
             (Contents \o s)[i] = IF i <= Len(Contents) THEN Contents[i] ELSE s[i - Len(Contents)]
      BY <1>2, <1>5, ConcatProperties
    <2>3. QED
      BY <1>2, <1>5, <2>1, <2>2
  <1>8. \A i \in 1..(nDataSize + Len(s)) : Contents'[i] = (Contents \o s)[i]
    <2> TAKE i \in 1..(nDataSize + Len(s))
    <2>1. nDataSize \in Nat
      BY <1>1 DEF RingTypeOK
    <2>2. Contents'[i] = IF i <= nDataSize THEN buffer[Wrap(pRead + i - 1)] ELSE s[i - nDataSize]
      BY <1>4, <1>6
    <2>3. (Contents \o s)[i] = IF i <= nDataSize THEN Contents[i] ELSE s[i - nDataSize]
      BY <1>7
    <2>4. i <= nDataSize => Contents[i] = buffer[Wrap(pRead + i - 1)]
      BY <1>5, <2>1
    <2>5. QED
      BY <2>2, <2>3, <2>4
  <1>9. QED
    BY <1>6, <1>7, <1>8, SeqEqual

LEMMA ReadShows ==
    ASSUME RingInv, NEW n \in 0..BufferSize, Read(n)
    PROVE  n <= Len(Contents) /\ dest' = SubSeq(Contents, 1, n)
  <1> DEFINE gap == BufferSize - pRead
  <1>1. RingTypeOK /\ gap \in Nat /\ n \in Nat /\ n <= nDataSize
    BY DEF RingInv, RingTypeOK, Read
  <1>2. /\ Contents \in Seq(Byte) /\ Len(Contents) = nDataSize
        /\ \A i \in 1..nDataSize : Contents[i] = buffer[Wrap(pRead + i - 1)]
    BY <1>1, ContentsSeq
  <1>3. /\ SubSeq(Contents, 1, n) \in Seq(Byte) /\ Len(SubSeq(Contents, 1, n)) = n
        /\ \A i \in 1..n : SubSeq(Contents, 1, n)[i] = buffer[Wrap(pRead + i - 1)]
    BY <1>1, <1>2
  <1>4. CASE gap < n
    <2>1. dest' = CopyOut(pRead, gap) \o CopyOut(0, n - gap)
      BY <1>4 DEF Read
    <2>2. /\ CopyOut(pRead, gap) \in Seq(Byte) /\ Len(CopyOut(pRead, gap)) = gap
          /\ \A i \in 1..gap : CopyOut(pRead, gap)[i] = buffer[pRead + i - 1]
      BY <1>1 DEF RingTypeOK, CopyOut
    <2>3. /\ CopyOut(0, n - gap) \in Seq(Byte) /\ Len(CopyOut(0, n - gap)) = n - gap
          /\ \A i \in 1..(n - gap) : CopyOut(0, n - gap)[i] = buffer[i - 1]
      BY <1>1, <1>4 DEF RingTypeOK, CopyOut
    <2>4. /\ dest' \in Seq(Byte) /\ Len(dest') = n
          /\ \A i \in 1..n : dest'[i] = IF i <= gap THEN buffer[pRead + i - 1] ELSE buffer[i - gap - 1]
      <3> DEFINE x == CopyOut(pRead, gap)
                 y == CopyOut(0, n - gap)
      <3>1. x \in Seq(Byte) /\ Len(x) = gap /\ \A i \in 1..gap : x[i] = buffer[pRead + i - 1]
        BY <2>2
      <3>2. y \in Seq(Byte) /\ Len(y) = n - gap /\ \A i \in 1..(n - gap) : y[i] = buffer[i - 1]
        BY <2>3
      <3>3. dest' = x \o y
        BY <2>1
      <3> HIDE DEF x, y, gap
      <3>4. /\ x \o y \in Seq(Byte) /\ Len(x \o y) = n
            /\ \A i \in 1..n : (x \o y)[i] = IF i <= gap THEN x[i] ELSE y[i - gap]
        <4>1. Len(x) + Len(y) = n
          BY <1>1, <1>4, <3>1, <3>2
        <4>2. /\ x \o y \in Seq(Byte) /\ Len(x \o y) = Len(x) + Len(y)
              /\ \A i \in 1..(Len(x) + Len(y)) :
                   (x \o y)[i] = IF i <= Len(x) THEN x[i] ELSE y[i - Len(x)]
          BY <3>1, <3>2, ConcatProperties, Zenon
        <4>3. QED
          BY <3>1, <4>1, <4>2
      <3>5. \A i \in 1..n : IF i <= gap THEN i \in 1..gap ELSE i - gap \in 1..(n - gap)
        BY <1>1, <1>4
      <3>6. \A i \in 1..n : (x \o y)[i] = IF i <= gap THEN buffer[pRead + i - 1] ELSE buffer[i - gap - 1]
        BY <3>1, <3>2, <3>4, <3>5, Zenon
      <3>7. QED
        BY <3>3, <3>4, <3>6
    <2>5. \A i \in 1..n : Wrap(pRead + i - 1) = IF i <= gap THEN pRead + i - 1 ELSE i - gap - 1
      BY <1>1, <1>4 DEF Wrap, RingTypeOK
    <2>6. \A i \in 1..n : dest'[i] = SubSeq(Contents, 1, n)[i]
      BY <1>1, <1>3, <2>4, <2>5, SMTT(30)
    <2>7. QED
      BY <1>1, <1>2, <1>3, <2>4, <2>6, SeqEqual
  <1>5. CASE ~(gap < n)
    <2>1. dest' = [i \in 1..n |-> buffer[pRead + i - 1]]
      BY <1>5 DEF Read, CopyOut
    <2>2. \A i \in 1..n : Wrap(pRead + i - 1) = pRead + i - 1
      BY <1>1, <1>5 DEF Wrap, RingTypeOK
    <2>3. QED
      BY <1>1, <1>2, <1>3, <2>1, <2>2
  <1>6. QED
    BY <1>4, <1>5

LEMMA EraseDrops ==
    ASSUME RingInv, NEW n \in 0..BufferSize, Erase(n)
    PROVE  n <= Len(Contents) /\ Contents' = SubSeq(Contents, n + 1, Len(Contents))
  <1>1. RingTypeOK /\ n \in Nat /\ n <= nDataSize /\ nDataSize' = nDataSize - n /\ buffer' = buffer
    BY DEF RingInv, RingTypeOK, Erase
  <1>2. /\ Contents \in Seq(Byte) /\ Len(Contents) = nDataSize
        /\ \A i \in 1..nDataSize : Contents[i] = buffer[Wrap(pRead + i - 1)]
    BY <1>1, ContentsSeq
  <1>3. SubSeq(Contents, n + 1, Len(Contents)) =
            [i \in 1..(nDataSize - n) |-> buffer[Wrap(pRead + (n + i) - 1)]]
    BY <1>1, <1>2 DEF RingTypeOK
  <1>4. Contents' = [i \in 1..(nDataSize - n) |-> buffer[Wrap(pRead' + i - 1)]]
    BY <1>1 DEF Contents, Wrap
  <1>5. \A i \in 1..(nDataSize - n) : Wrap(pRead' + i - 1) = Wrap(pRead + (n + i) - 1)
    BY <1>1 DEF Erase, Wrap, RingTypeOK
  <1>6. QED
    BY <1>1, <1>2, <1>3, <1>4, <1>5

LEMMA ResetDropsAll ==
    ASSUME RingInv, Reset
    PROVE  Contents' = SubSeq(Contents, Len(Contents) + 1, Len(Contents))
  <1>1. Contents \in Seq(Byte)
    BY ContentsSeq DEF RingInv
  <1>2. Contents' = << >>
    BY DEF Reset, Contents
  <1>3. QED
    BY <1>1, <1>2

\* Refinement: for every buffer size and every written block, the receive ring
\* implements the FIFO byte channel; CircleBuffer::Write, Read and Erase never
\* lose, reorder or invent a byte, whichever side of the end the pointers are on.
THEOREM CircleBufferIsFifo == RingSpec => RingIsFifo
  <1>1. RingInit => RingFifo!Init
    BY DEF RingInit, RingFifo!Init, Contents
  <1>2. RingInv /\ [RingNext]_ringVars => [RingFifo!Next]_(RingFifo!vars)
    <2> SUFFICES ASSUME RingInv, [RingNext]_ringVars PROVE [RingFifo!Next]_(RingFifo!vars)
      OBVIOUS
    <2>1. ASSUME NEW s \in Data, Write(s) PROVE RingFifo!Put(s)
      BY <2>1, WriteAppends DEF RingFifo!Put, Write
    <2>2. Contents \in Seq(Byte) /\ Len(Contents) \in Nat
      BY ContentsSeq DEF RingInv
    <2>3. ASSUME NEW n \in 0..BufferSize, Read(n)
          PROVE  n \in 0..Len(Contents) /\ RingFifo!Peek(n)
      <3>1. Contents' = Contents
        BY <2>3 DEF Read, Contents, Wrap
      <3>2. QED
        BY <2>2, <2>3, <3>1, ReadShows DEF RingFifo!Peek
    <2>4. ASSUME NEW n \in 0..BufferSize, Erase(n)
          PROVE  n \in 0..Len(Contents) /\ RingFifo!Drop(n)
      BY <2>2, <2>4, EraseDrops DEF RingFifo!Drop, Erase
    <2>5. ASSUME Reset PROVE RingFifo!Drop(Len(Contents))
      BY <2>5, ResetDropsAll DEF RingFifo!Drop, Reset
    <2>6. CASE UNCHANGED ringVars
      BY <2>6 DEF ringVars, RingFifo!vars, Contents, Wrap
    <2>7. Len(Contents) \in 0..Len(Contents)
      BY <2>2
    <2>8. QED
      BY <2>1, <2>3, <2>4, <2>5, <2>6, <2>7 DEF RingNext, RingFifo!Next
  <1>3. QED
    BY <1>1, <1>2, RingInitInv, RingNextInv, PTL DEF RingSpec, RingIsFifo, RingFifo!Spec

-----------------------------------------------------------------------------
(* WholePackets.                                                           *)

\* Byte i of packet k of client c.
At(c, k, i) == [client |-> c, packet |-> k, at |-> i]

\* The sequence s is packets p + 1 to q of client c, one after the other: at[k]
\* is the length of the part of s that ends with packet k.
LaidAt(s, p, q, c, at) ==
    /\ at \in [p..q -> 0..Len(s)]
    /\ at[p] = 0 /\ at[q] = Len(s)
    /\ \A j \in p..q, k \in p..q : j <= k => at[j] <= at[k]
    /\ \A k \in (p + 1)..q : /\ at[k] = at[k - 1] + PacketLen[k]
                             /\ \A i \in 1..PacketLen[k] : s[at[k - 1] + i] = At(c, k, i)

Laid(s, p, q, c) == \E at \in [p..q -> 0..Len(s)] : LaidAt(s, p, q, c, at)

LEMMA LengthType ==
    ASSUME NEW k \in DOMAIN PacketLen
    PROVE  PacketLen[k] \in Nat \ {0} /\ PacketLen[k] > HeadSize
  BY RecvAssumption

LEMMA LengthDomain ==
    ASSUME NEW k \in Nat, NEW q \in Nat, 1 <= k, k <= q, q \in DOMAIN PacketLen
    PROVE  k \in DOMAIN PacketLen
  BY RecvAssumption

\* A function on 1..n is a sequence of length n.
LEMMA FunctionSeq ==
    ASSUME NEW n \in Nat, NEW f \in [1..n -> Byte]
    PROVE  f \in Seq(Byte) /\ Len(f) = n
  OBVIOUS

LEMMA PacketSeq ==
    ASSUME NEW c \in 1..MaxClients, NEW k \in DOMAIN PacketLen
    PROVE  /\ Packet(c, k) \in Seq(Byte)
           /\ PacketLen[k] \in Nat \ {0} /\ PacketLen[k] > HeadSize
           /\ Len(Packet(c, k)) = PacketLen[k]
           /\ \A i \in 1..PacketLen[k] : Packet(c, k)[i] = At(c, k, i)
  <1>1. PacketLen[k] \in Nat \ {0} /\ PacketLen[k] > HeadSize
    BY LengthType, Zenon
  <1>2. \A i \in 1..PacketLen[k] : At(c, k, i) \in Byte
    BY RecvAssumption, Zenon DEF At
  <1>3. Packet(c, k) = [i \in 1..PacketLen[k] |-> At(c, k, i)]
    BY Zenon DEF Packet, At
  <1>4. Packet(c, k) \in [1..PacketLen[k] -> Byte]
    BY <1>2, <1>3, Zenon
  <1>5. \A i \in 1..PacketLen[k] : Packet(c, k)[i] = At(c, k, i)
    BY <1>3, Zenon
  <1>6. PacketLen[k] \in Nat
    BY <1>1
  <1> QED
    BY <1>1, <1>4, <1>5, <1>6, FunctionSeq, Zenon

LEMMA LaidEmpty == ASSUME NEW p \in Nat, NEW c PROVE Laid(<< >>, p, p, c)
  <1> DEFINE at == [k \in p..p |-> 0]
  <1>1. Len(<< >>) = 0 /\ at \in [p..p -> 0..0] /\ (p + 1)..p = {}
    OBVIOUS
  <1>2. LaidAt(<< >>, p, p, c, at)
    BY <1>1 DEF LaidAt
  <1> QED
    BY <1>1, <1>2, Zenon DEF Laid

LEMMA ConcatParts ==
    ASSUME NEW s \in Seq(Byte), NEW w \in Seq(Byte)
    PROVE  /\ s \o w \in Seq(Byte) /\ Len(s) \in Nat /\ Len(w) \in Nat /\ Len(s \o w) = Len(s) + Len(w)
           /\ \A i \in 1..Len(s) : (s \o w)[i] = s[i]
           /\ \A i \in 1..Len(w) : (s \o w)[Len(s) + i] = w[i]
  OBVIOUS

LEMMA LaidAppend ==
    ASSUME NEW c \in 1..MaxClients, NEW s \in Seq(Byte), NEW p \in Nat, NEW q \in Nat, p <= q,
           q + 1 \in DOMAIN PacketLen, Laid(s, p, q, c)
    PROVE  Laid(s \o Packet(c, q + 1), p, q + 1, c)
  <1> DEFINE w == Packet(c, q + 1)
             n == PacketLen[q + 1]
             t == s \o w
  <1>1. PICK at \in [p..q -> 0..Len(s)] : LaidAt(s, p, q, c, at)
    BY Zenon DEF Laid
  <1>2. w \in Seq(Byte) /\ n \in Nat /\ Len(w) = n /\ \A i \in 1..n : w[i] = At(c, q + 1, i)
    BY PacketSeq, Zenon
  <1> HIDE DEF w, n
  <1>3. /\ Len(s) \in Nat /\ Len(t) = Len(s) + n
        /\ \A i \in 1..Len(s) : t[i] = s[i]
        /\ \A i \in 1..n : t[Len(s) + i] = w[i]
    <2>1. /\ Len(s) \in Nat /\ Len(s \o w) = Len(s) + Len(w)
          /\ \A i \in 1..Len(s) : (s \o w)[i] = s[i]
          /\ \A i \in 1..Len(w) : (s \o w)[Len(s) + i] = w[i]
      BY <1>2, ConcatParts, Zenon
    <2> QED
      BY <1>2, <2>1, Zenon
  <1> DEFINE bt == [k \in p..(q + 1) |-> IF k = q + 1 THEN Len(s) + n ELSE at[k]]
  <1> HIDE DEF t
  <1>4. bt \in [p..(q + 1) -> 0..Len(t)]
    BY <1>2, <1>3
  <1>5. bt[q + 1] = Len(s) + n /\ \A k \in p..q : bt[k] = at[k]
    OBVIOUS
  <1>6. \A k \in p..q : at[k] \in 0..Len(s)
    OBVIOUS
  <1> HIDE DEF bt
  <1>7. bt[p] = 0 /\ bt[q + 1] = Len(t)
    BY <1>1, <1>3, <1>5 DEF LaidAt
  <1>8. \A j \in p..(q + 1), k \in p..(q + 1) : j <= k => bt[j] <= bt[k]
    <2> SUFFICES ASSUME NEW j \in p..(q + 1), NEW k \in p..(q + 1), j <= k PROVE bt[j] <= bt[k]
      OBVIOUS
    <2>1. CASE k = q + 1
      <3>1. CASE j = q + 1
        BY <1>2, <1>3, <1>5, <2>1, <3>1
      <3>2. CASE j # q + 1
        <4>1. j \in p..q
          BY <3>2
        <4>2. bt[j] \in 0..Len(s)
          BY <1>5, <1>6, <4>1
        <4> QED
          BY <1>2, <1>3, <1>5, <2>1, <4>2
      <3> QED
        BY <3>1, <3>2
    <2>2. CASE k # q + 1
      <3>1. j \in p..q /\ k \in p..q
        BY <2>2
      <3>2. at[j] <= at[k]
        BY <1>1, <3>1, Zenon DEF LaidAt
      <3> QED
        BY <1>5, <3>1, <3>2
    <2> QED
      BY <2>1, <2>2
  <1>9. ASSUME NEW k \in (p + 1)..(q + 1)
        PROVE  /\ bt[k] = bt[k - 1] + PacketLen[k]
               /\ \A i \in 1..PacketLen[k] : t[bt[k - 1] + i] = At(c, k, i)
    <2>1. CASE k = q + 1
      <3>1. bt[k - 1] = Len(s)
        BY <1>1, <1>5, <2>1 DEF LaidAt
      <3> QED
        BY <1>2, <1>3, <1>5, <2>1, <3>1, ZenonT(40) DEF n
    <2>2. CASE k # q + 1
      <3>1. k \in (p + 1)..q /\ k \in p..q /\ k - 1 \in p..q
        BY <2>2
      <3>2. /\ at[k] = at[k - 1] + PacketLen[k]
            /\ \A i \in 1..PacketLen[k] : s[at[k - 1] + i] = At(c, k, i)
        BY <1>1, <3>1 DEF LaidAt
      <3>3. \A i \in 1..PacketLen[k] : at[k - 1] + i \in 1..Len(s)
        <4>1. at[k] \in 0..Len(s) /\ at[k - 1] \in 0..Len(s)
          BY <1>6, <3>1
        <4>2. k \in DOMAIN PacketLen
          BY <3>1, LengthDomain
        <4>3. PacketLen[k] \in Nat
          BY <4>2, LengthType
        <4>4. Len(s) \in Nat
          BY <1>3, Zenon
        <4>5. at[k - 1] \in Nat /\ at[k - 1] + PacketLen[k] <= Len(s)
          <5>1. at[k] = at[k - 1] + PacketLen[k]
            BY <3>2, Zenon
          <5>2. at[k] <= Len(s) /\ at[k - 1] \in Nat
            BY <4>1, <4>4
          <5> QED
            BY <5>1, <5>2, Zenon
        <4> DEFINE a == at[k - 1]
                   m == PacketLen[k]
                   l == Len(s)
        <4>6. a \in Nat /\ m \in Nat /\ l \in Nat /\ a + m <= l
          BY <4>3, <4>4, <4>5, Zenon
        <4> HIDE DEF a, m, l
        <4>7. \A i \in 1..m : a + i \in 1..l
          BY <4>6
        <4> QED
          BY <4>7, Zenon DEF a, m, l
      <3> QED
        BY <1>3, <1>5, <3>1, <3>2, <3>3, Zenon
    <2> QED
      BY <2>1, <2>2
  <1>10. LaidAt(t, p, q + 1, c, bt)
    BY <1>4, <1>7, <1>8, <1>9 DEF LaidAt
  <1> QED
    BY <1>4, <1>10, Zenon DEF Laid, t, w

\* What is in front of a sequence of packets that is not empty: the whole of the
\* first of them.
LEMMA LaidFront ==
    ASSUME NEW c \in 1..MaxClients, NEW s \in Seq(Byte), NEW p \in Nat, NEW q \in 0..Len(PacketLen), p <= q,
           Laid(s, p, q, c), Len(s) > 0
    PROVE  /\ p + 1 <= q /\ p + 1 \in DOMAIN PacketLen
           /\ PacketLen[p + 1] <= Len(s)
           /\ \A i \in 1..PacketLen[p + 1] : s[i] = At(c, p + 1, i)
  <1>1. PICK at \in [p..q -> 0..Len(s)] : LaidAt(s, p, q, c, at)
    BY Zenon DEF Laid
  <1>2. at[p] = 0 /\ at[q] = Len(s)
    BY <1>1, Zenon DEF LaidAt
  <1>3. p # q
    BY <1>2
  <1>4. p + 1 <= q /\ p + 1 \in (p + 1)..q /\ p + 1 \in p..q /\ (p + 1) - 1 = p
    BY <1>3
  <1>5. p + 1 \in DOMAIN PacketLen
    BY <1>4, RecvAssumption
  <1>6. PacketLen[p + 1] \in Nat
    BY <1>5, LengthType
  <1>7. /\ at[p + 1] = at[(p + 1) - 1] + PacketLen[p + 1]
        /\ \A i \in 1..PacketLen[p + 1] : s[at[(p + 1) - 1] + i] = At(c, p + 1, i)
    BY <1>1, <1>4, Zenon DEF LaidAt
  <1>8. at[p + 1] = PacketLen[p + 1]
    BY <1>2, <1>4, <1>6, <1>7
  <1>9. at[p + 1] \in 0..Len(s)
    BY <1>4, Zenon
  <1>10. PacketLen[p + 1] <= Len(s)
    BY <1>8, <1>9
  <1>11. \A i \in 1..PacketLen[p + 1] : 0 + i = i
    BY <1>6
  <1>12. \A i \in 1..PacketLen[p + 1] : s[i] = At(c, p + 1, i)
    BY <1>2, <1>4, <1>7, <1>11, ZenonT(40)
  <1> QED
    BY <1>4, <1>5, <1>10, <1>12, Zenon

LEMMA SuffixParts ==
    ASSUME NEW s \in Seq(Byte), NEW n \in 0..Len(s)
    PROVE  /\ SubSeq(s, n + 1, Len(s)) \in Seq(Byte)
           /\ Len(SubSeq(s, n + 1, Len(s))) = Len(s) - n
           /\ \A i \in 1..(Len(s) - n) : SubSeq(s, n + 1, Len(s))[i] = s[n + i]
  OBVIOUS

\* Without its first packet it is a sequence of packets again.
LEMMA LaidDrop ==
    ASSUME NEW c \in 1..MaxClients, NEW s \in Seq(Byte), NEW p \in Nat, NEW q \in 0..Len(PacketLen), p < q,
           Laid(s, p, q, c)
    PROVE  Laid(SubSeq(s, PacketLen[p + 1] + 1, Len(s)), p + 1, q, c)
  <1> DEFINE n == PacketLen[p + 1]
             t == SubSeq(s, n + 1, Len(s))
  <1>1. PICK at \in [p..q -> 0..Len(s)] : LaidAt(s, p, q, c, at)
    BY Zenon DEF Laid
  <1>2. /\ p + 1 \in (p + 1)..q /\ p + 1 \in p..q /\ q \in p..q /\ p \in p..q /\ (p + 1) - 1 = p
        /\ p + 1 <= q /\ q \in (p + 1)..q
    OBVIOUS
  <1>3. p + 1 \in DOMAIN PacketLen
    BY RecvAssumption
  <1>4. n \in Nat
    BY <1>3, LengthType
  <1>5. Len(s) \in Nat
    OBVIOUS
  <1> HIDE DEF n
  <1>6. at[p] = 0 /\ at[q] = Len(s)
    BY <1>1, Zenon DEF LaidAt
  <1>7. at[p + 1] = n
    <2>1. at[p + 1] = at[(p + 1) - 1] + PacketLen[p + 1]
      BY <1>1, <1>2, Zenon DEF LaidAt
    <2> QED
      BY <1>2, <1>4, <1>6, <2>1 DEF n
  <1>8. \A k \in p..q : at[k] \in 0..Len(s)
    BY Zenon
  <1>9. n \in 0..Len(s)
    BY <1>2, <1>7, <1>8, Zenon
  <1>10. /\ t \in Seq(Byte) /\ Len(t) = Len(s) - n
         /\ \A i \in 1..(Len(s) - n) : t[i] = s[n + i]
    BY <1>9, SuffixParts, Zenon
  <1> HIDE DEF t
  <1> DEFINE bt == [k \in (p + 1)..q |-> at[k] - n]
  <1>11. ASSUME NEW k \in (p + 1)..q
         PROVE  k \in p..q /\ p + 1 <= k /\ at[k] \in n..Len(s) /\ bt[k] = at[k] - n
    <2>1. k \in p..q /\ p + 1 <= k
      OBVIOUS
    <2>2. at[p + 1] <= at[k]
      BY <1>1, <1>2, <2>1, Zenon DEF LaidAt
    <2>3. at[k] \in 0..Len(s)
      BY <1>8, <2>1, Zenon
    <2>4. at[k] \in n..Len(s)
      BY <1>4, <1>5, <1>7, <2>2, <2>3
    <2> QED
      BY <2>1, <2>4, Zenon
  <1>12. bt \in [(p + 1)..q -> 0..Len(t)]
    <2>1. \A k \in (p + 1)..q : at[k] - n \in 0..Len(t)
      <3> TAKE k \in (p + 1)..q
      <3>1. at[k] \in n..Len(s)
        BY <1>11, Zenon
      <3>2. Len(t) = Len(s) - n
        BY <1>10, Zenon
      <3> QED
        BY <1>4, <1>5, <3>1, <3>2
    <2> QED
      BY <2>1, Zenon
  <1> HIDE DEF bt
  <1>13. bt[p + 1] = 0 /\ bt[q] = Len(t)
    <2>1. bt[p + 1] = at[p + 1] - n /\ bt[q] = at[q] - n
      BY <1>2, <1>11, Zenon
    <2>2. Len(t) = Len(s) - n
      BY <1>10, Zenon
    <2> QED
      BY <1>4, <1>6, <1>7, <2>1, <2>2
  <1>14. \A j \in (p + 1)..q, k \in (p + 1)..q : j <= k => bt[j] <= bt[k]
    <2> SUFFICES ASSUME NEW j \in (p + 1)..q, NEW k \in (p + 1)..q, j <= k PROVE bt[j] <= bt[k]
      OBVIOUS
    <2>1. j \in p..q /\ k \in p..q
      OBVIOUS
    <2>2. at[j] <= at[k]
      BY <1>1, <2>1, Zenon DEF LaidAt
    <2>3. bt[j] = at[j] - n /\ bt[k] = at[k] - n /\ at[j] \in n..Len(s) /\ at[k] \in n..Len(s)
      BY <1>11, Zenon
    <2> QED
      BY <1>4, <1>5, <2>2, <2>3
  <1>15. ASSUME NEW k \in ((p + 1) + 1)..q
         PROVE  /\ bt[k] = bt[k - 1] + PacketLen[k]
                /\ \A i \in 1..PacketLen[k] : t[bt[k - 1] + i] = At(c, k, i)
    <2>1. k \in (p + 1)..q /\ k - 1 \in (p + 1)..q
      OBVIOUS
    <2>2. /\ at[k] = at[k - 1] + PacketLen[k]
          /\ \A i \in 1..PacketLen[k] : s[at[k - 1] + i] = At(c, k, i)
      BY <1>1, <2>1, Zenon DEF LaidAt
    <2>3. k \in DOMAIN PacketLen
      BY RecvAssumption
    <2>4. PacketLen[k] \in Nat
      BY <2>3, LengthType
    <2>5. /\ bt[k] = at[k] - n /\ bt[k - 1] = at[k - 1] - n
          /\ at[k] \in n..Len(s) /\ at[k - 1] \in n..Len(s)
      BY <1>11, <2>1, Zenon
    <2>6. at[k] = at[k - 1] + PacketLen[k]
      BY <2>2, Zenon
    <2>7. bt[k] = bt[k - 1] + PacketLen[k]
      BY <1>4, <1>5, <2>4, <2>5, <2>6, SMTT(30)
    <2>8. ASSUME NEW i \in 1..PacketLen[k] PROVE t[bt[k - 1] + i] = At(c, k, i)
      <3>1. bt[k - 1] + i \in 1..(Len(s) - n) /\ n + (bt[k - 1] + i) = at[k - 1] + i
        <4>1. at[k - 1] \in Nat /\ n <= at[k - 1] /\ at[k - 1] + PacketLen[k] <= Len(s)
          BY <1>4, <1>5, <2>5, <2>6
        <4>2. bt[k - 1] = at[k - 1] - n
          BY <2>5, Zenon
        <4>3. /\ (at[k - 1] - n) + i \in 1..(Len(s) - n)
              /\ n + ((at[k - 1] - n) + i) = at[k - 1] + i
          <5> DEFINE a == at[k - 1]
                     l == PacketLen[k]
          <5>1. a \in Nat /\ n <= a /\ a + l <= Len(s) /\ l \in Nat /\ i \in 1..l
            BY <2>4, <4>1, Zenon
          <5> HIDE DEF a, l
          <5>2. i \in Nat \ {0} /\ a + i <= Len(s)
            BY <1>5, <5>1
          <5>3. (a - n) + i \in 1..(Len(s) - n) /\ n + ((a - n) + i) = a + i
            BY <1>4, <1>5, <5>1, <5>2
          <5> QED
            BY <5>3, Zenon DEF a
        <4> QED
          BY <4>2, <4>3, Zenon
      <3>2. t[bt[k - 1] + i] = s[n + (bt[k - 1] + i)]
        BY <1>10, <3>1, Zenon
      <3> QED
        BY <2>2, <3>1, <3>2, Zenon
    <2> QED
      BY <2>7, <2>8, Zenon
  <1>16. LaidAt(t, p + 1, q, c, bt)
    BY <1>12, <1>13, <1>14, <1>15, Zenon DEF LaidAt
  <1> QED
    BY <1>12, <1>16, Zenon DEF Laid, t, n

\* What holds, from the acceptance of a client to the release of its connection,
\* as long as no bytes of an earlier client can be in the ring: what the ring
\* holds and what is on its way are the packets that were not pushed yet, in a
\* row, and the worker works on the first of them.  When each completion brings
\* one packet, the ring is empty between two completions, and therefore when the
\* object is accepted into again.
Unmixed == client = 1 \/ onePacket

First == Len(packets) + 1

Pushed ==
    /\ packets \in Seq(Seq(Byte))
    /\ Len(packets) <= sentPackets
    /\ \A k \in DOMAIN packets : packets[k] = Packet(client, k)

Parsing ==
    /\ open => Laid(Contents \o stream, Len(packets), sentPackets, client)
    /\ step # "recv" => open
    /\ step \in {"cut", "erase"} => First <= sentPackets /\ PacketLen[First] <= nDataSize
    /\ step = "cut" => Len(dest) > 0 /\ dest[1] = At(client, First, 1)
    /\ step = "erase" => dest = Packet(client, First)

OneByOne ==
    onePacket => /\ step = "recv" => nDataSize = 0
                 /\ step # "recv" => First <= sentPackets /\ nDataSize = PacketLen[First]

RecvTypeOK ==
    /\ onePacket \in BOOLEAN /\ open \in BOOLEAN
    /\ client \in 1..MaxClients
    /\ sentPackets \in 0..Len(PacketLen)
    /\ stream \in Seq(Byte)
    /\ step \in {"recv", "parse", "cut", "erase"}

RecvInv == /\ client \in 1..MaxClients
           /\ Unmixed => RecvTypeOK /\ RingInv /\ Pushed /\ Parsing /\ OneByOne

LEMMA RecvInitInv == Init => RecvInv
  <1> SUFFICES ASSUME Init PROVE RecvInv
    OBVIOUS
  <1>1. client = 1 /\ 1 \in 1..MaxClients /\ Len(PacketLen) \in Nat
    BY RecvAssumption DEF Init
  <1>2. RingInv
    <2>1. buffer \in [0..(BufferSize - 1) -> Byte]
      BY Zenon DEF Init
    <2> QED
      BY <2>1 DEF Init, RingInv, RingTypeOK, PointersAgree
  <1>3. RecvTypeOK
    BY <1>1 DEF Init, RecvTypeOK
  <1>4. Pushed /\ OneByOne
    BY DEF Init, Pushed, OneByOne
  <1>5. Contents \o stream = << >>
    <2>1. Contents = << >>
      BY DEF Init, Contents
    <2> QED
      BY <2>1 DEF Init
  <1>6. Laid(<< >>, 0, 0, client)
    BY LaidEmpty
  <1>7. Parsing
    BY <1>5, <1>6 DEF Init, Parsing
  <1> QED
    BY <1>1, <1>2, <1>3, <1>4, <1>7 DEF RecvInv

\* Nothing but Reaccept changes the client and nothing changes onePacket, so a
\* step ends unmixed only if it began so.
LEMMA UnmixedBefore ==
    ASSUME RecvInv, [Next]_vars, Unmixed'
    PROVE  Unmixed /\ RecvTypeOK /\ RingInv /\ Pushed /\ Parsing /\ OneByOne
  <1>1. onePacket' = onePacket
    BY Zenon DEF Next, vars, peerVars, ClientSends, DoRecv, RecvComplete, DataParser, CutPacket,
                 ErasePacket, PeerClose, Reaccept, Rest
  <1>2. client' = client \/ client' = client + 1
    BY Zenon DEF Next, vars, peerVars, ClientSends, DoRecv, RecvComplete, DataParser, CutPacket,
                 ErasePacket, PeerClose, Reaccept, Rest
  <1>3. client' = 1 => client = 1
    BY <1>2 DEF RecvInv
  <1> QED
    BY <1>1, <1>3, Zenon DEF Unmixed, RecvInv

\* The pieces of RecvInv' that a step leaves as they are.
LEMMA ContentsSame == ASSUME UNCHANGED <<buffer, pRead, nDataSize>> PROVE Contents' = Contents
  BY DEF Contents, Wrap

LEMMA RingInvSame == ASSUME RingInv, UNCHANGED ringVars PROVE RingInv' /\ Contents' = Contents
  BY ContentsSame DEF RingInv, RingTypeOK, PointersAgree, ringVars

LEMMA ConcatAssoc ==
    ASSUME NEW a \in Seq(Byte), NEW s \in Seq(Byte), NEW w \in Seq(Byte)
    PROVE  a \o (s \o w) = (a \o s) \o w
  OBVIOUS

\* Cutting a sequence in two and putting it together again.
LEMMA Rejoin ==
    ASSUME NEW a \in Seq(Byte), NEW s \in Seq(Byte), NEW n \in 0..Len(s)
    PROVE  (a \o SubSeq(s, 1, n)) \o SubSeq(s, n + 1, Len(s)) = a \o s
  <1> DEFINE u == SubSeq(s, 1, n)
             v == SubSeq(s, n + 1, Len(s))
  <1>1. u \in Seq(Byte) /\ v \in Seq(Byte)
    OBVIOUS
  <1>2. u \o v = s
    <2>1. Len(u) = n /\ Len(v) = Len(s) - n /\ Len(s) \in Nat
      OBVIOUS
    <2>2. \A i \in 1..n : u[i] = s[i]
      OBVIOUS
    <2>3. \A i \in 1..(Len(s) - n) : v[i] = s[n + i]
      OBVIOUS
    <2> HIDE DEF u, v
    <2>4. /\ u \o v \in Seq(Byte) /\ Len(u \o v) = Len(s)
          /\ \A i \in 1..Len(s) : (u \o v)[i] = IF i <= n THEN u[i] ELSE v[i - n]
      BY <1>1, <2>1
    <2>5. \A i \in 1..Len(s) : IF i <= n THEN i \in 1..n ELSE i - n \in 1..(Len(s) - n) /\ n + (i - n) = i
      BY <2>1
    <2>6. \A i \in 1..Len(s) : (u \o v)[i] = s[i]
      BY <2>2, <2>3, <2>4, <2>5, Zenon
    <2> QED
      BY <2>4, <2>6, SeqEqual, Zenon
  <1> HIDE DEF u, v
  <1>3. (a \o u) \o v = a \o (u \o v)
    BY <1>1, ConcatAssoc, Zenon
  <1> QED
    BY <1>2, <1>3, Zenon DEF u, v

LEMMA DropFront ==
    ASSUME NEW a \in Seq(Byte), NEW s \in Seq(Byte), NEW n \in 0..Len(a)
    PROVE  SubSeq(a, n + 1, Len(a)) \o s = SubSeq(a \o s, n + 1, Len(a \o s))
  <1> DEFINE u == SubSeq(a, n + 1, Len(a))
             t == a \o s
             v == SubSeq(t, n + 1, Len(t))
             m == Len(a) - n
             l == Len(a) + Len(s) - n
  <1>1. /\ u \in Seq(Byte) /\ Len(u) = m
        /\ \A i \in 1..m : u[i] = a[n + i]
    BY SuffixParts, Zenon
  <1>2. /\ t \in Seq(Byte) /\ Len(a) \in Nat /\ Len(s) \in Nat /\ Len(t) = Len(a) + Len(s)
        /\ \A i \in 1..Len(a) : t[i] = a[i]
        /\ \A i \in 1..Len(s) : t[Len(a) + i] = s[i]
    BY ConcatParts, Zenon
  <1> HIDE DEF t
  <1>3. n \in 0..Len(t)
    BY <1>2
  <1>4. /\ v \in Seq(Byte) /\ Len(v) = Len(t) - n
        /\ \A i \in 1..(Len(t) - n) : v[i] = t[n + i]
    BY <1>2, <1>3, SuffixParts, Zenon
  <1> HIDE DEF u, v
  <1>5. /\ u \o s \in Seq(Byte) /\ Len(u \o s) = m + Len(s)
        /\ \A i \in 1..m : (u \o s)[i] = u[i]
        /\ \A i \in 1..Len(s) : (u \o s)[m + i] = s[i]
    <2>1. /\ u \o s \in Seq(Byte) /\ Len(u \o s) = Len(u) + Len(s)
          /\ \A i \in 1..Len(u) : (u \o s)[i] = u[i]
          /\ \A i \in 1..Len(s) : (u \o s)[Len(u) + i] = s[i]
      BY <1>1, ConcatParts, Zenon
    <2> QED
      BY <1>1, <2>1, Zenon
  <1>6. m + Len(s) = l /\ Len(t) - n = l
    BY <1>2
  <1>7. ASSUME NEW i \in 1..l PROVE (u \o s)[i] = v[i]
    <2>1. v[i] = t[n + i]
      BY <1>4, <1>6, Zenon
    <2>2. CASE i <= m
      <3>1. i \in 1..m /\ n + i \in 1..Len(a)
        BY <1>2, <2>2
      <3> QED
        BY <1>1, <1>2, <1>5, <2>1, <3>1, Zenon
    <2>3. CASE ~(i <= m)
      <3>1. i - m \in 1..Len(s) /\ m + (i - m) = i /\ Len(a) + (i - m) = n + i
        BY <1>2, <2>3
      <3>2. (u \o s)[m + (i - m)] = s[i - m] /\ t[Len(a) + (i - m)] = s[i - m]
        BY <1>2, <1>5, <3>1, Zenon
      <3> QED
        BY <2>1, <3>1, <3>2, Zenon
    <2> QED
      BY <2>2, <2>3, Zenon
  <1>8. Len(u \o s) = Len(v) /\ \A i \in 1..Len(u \o s) : (u \o s)[i] = v[i]
    BY <1>4, <1>5, <1>6, <1>7, Zenon
  <1>9. u \o s = v
    BY <1>4, <1>5, <1>8, SeqEqual, Zenon
  <1> QED
    BY <1>9, Zenon DEF u, v, t

\* What the invariant says of the bytes in the ring.
LEMMA RingFront ==
    ASSUME RecvInv, Unmixed, open
    PROVE  /\ Contents \in Seq(Byte) /\ Len(Contents) = nDataSize /\ nDataSize \in 0..BufferSize
           /\ Contents \o stream \in Seq(Byte)
           /\ Len(Contents \o stream) > 0 =>
                /\ First <= sentPackets /\ First \in DOMAIN PacketLen
                /\ PacketLen[First] \in Nat \ {0} /\ PacketLen[First] > HeadSize
                /\ PacketLen[First] <= Len(Contents \o stream)
                /\ \A i \in 1..PacketLen[First] : (Contents \o stream)[i] = At(client, First, i)
  <1>1. RecvTypeOK /\ RingInv /\ Pushed /\ Parsing
    BY Zenon DEF RecvInv
  <1>2. Contents \in Seq(Byte) /\ Len(Contents) = nDataSize
    BY <1>1, ContentsSeq, Zenon DEF RingInv
  <1>3. stream \in Seq(Byte) /\ nDataSize \in 0..BufferSize
    BY <1>1, Zenon DEF RecvTypeOK, RingInv, RingTypeOK
  <1>4. Contents \o stream \in Seq(Byte)
    BY <1>2, <1>3, ConcatParts, Zenon
  <1>5. Len(packets) \in Nat /\ Len(packets) <= sentPackets
    BY <1>1 DEF Pushed
  <1>6. Laid(Contents \o stream, Len(packets), sentPackets, client)
    BY <1>1, Zenon DEF Parsing
  <1>7. client \in 1..MaxClients /\ sentPackets \in 0..Len(PacketLen)
    BY <1>1, Zenon DEF RecvTypeOK
  <1>8. ASSUME Len(Contents \o stream) > 0
        PROVE  /\ First <= sentPackets /\ First \in DOMAIN PacketLen
               /\ PacketLen[First] <= Len(Contents \o stream)
               /\ \A i \in 1..PacketLen[First] : (Contents \o stream)[i] = At(client, First, i)
    BY <1>4, <1>5, <1>6, <1>7, <1>8, LaidFront, Zenon DEF First
  <1> QED
    BY <1>2, <1>3, <1>4, <1>8, LengthType, Zenon

\* The same for the bytes that have arrived.
LEMMA ContentsFront ==
    ASSUME RecvInv, Unmixed, open, nDataSize > 0
    PROVE  /\ First <= sentPackets /\ First \in DOMAIN PacketLen
           /\ PacketLen[First] \in Nat \ {0} /\ PacketLen[First] > HeadSize
           /\ \A i \in 1..nDataSize : i <= PacketLen[First] => Contents[i] = At(client, First, i)
  <1>1. /\ Contents \in Seq(Byte) /\ Len(Contents) = nDataSize /\ nDataSize \in 0..BufferSize
        /\ stream \in Seq(Byte)
    BY RingFront, Zenon DEF RecvInv, RecvTypeOK
  <1>2. /\ Len(stream) \in Nat /\ Len(Contents \o stream) = nDataSize + Len(stream)
        /\ \A i \in 1..nDataSize : (Contents \o stream)[i] = Contents[i]
    BY <1>1, ConcatParts, Zenon
  <1>3. Len(Contents \o stream) > 0
    BY <1>1, <1>2
  <1>4. /\ First <= sentPackets /\ First \in DOMAIN PacketLen
        /\ PacketLen[First] \in Nat \ {0} /\ PacketLen[First] > HeadSize
        /\ \A i \in 1..PacketLen[First] : (Contents \o stream)[i] = At(client, First, i)
    BY <1>3, RingFront, Zenon
  <1>5. \A i \in 1..nDataSize : i <= PacketLen[First] => i \in 1..PacketLen[First]
    BY <1>1, <1>4
  <1> QED
    BY <1>2, <1>4, <1>5, Zenon

LEMMA SendsInv ==
    ASSUME RecvInv, Unmixed, RecvTypeOK, RingInv, Pushed, Parsing, OneByOne, ClientSends
    PROVE  RecvTypeOK' /\ RingInv' /\ Pushed' /\ Parsing' /\ OneByOne'
  <1> DEFINE q == sentPackets
             w == Packet(client, q + 1)
  <1>1. open /\ q \in Nat /\ q + 1 \in DOMAIN PacketLen /\ q + 1 \in 0..Len(PacketLen)
    BY RecvAssumption DEF ClientSends, RecvTypeOK
  <1>2. /\ sentPackets' = q + 1 /\ stream' = stream \o w
        /\ UNCHANGED <<onePacket, client, open, recvRef, step, packets>> /\ UNCHANGED ringVars
    BY Zenon DEF ClientSends
  <1>3. UNCHANGED <<nDataSize, dest>>
    BY <1>2, Zenon DEF ringVars
  <1>4. RingInv' /\ Contents' = Contents
    BY <1>2, RingInvSame, Zenon
  <1>5. client \in 1..MaxClients /\ stream \in Seq(Byte)
    BY Zenon DEF RecvTypeOK
  <1>6. w \in Seq(Byte)
    BY <1>1, <1>5, PacketSeq, Zenon
  <1>7. stream' \in Seq(Byte)
    BY <1>2, <1>5, <1>6, ConcatParts, Zenon
  <1>8. RecvTypeOK'
    BY <1>1, <1>2, <1>7, Zenon DEF RecvTypeOK
  <1>9. Len(packets) \in Nat /\ Len(packets) <= q
    BY DEF Pushed
  <1>10. Pushed'
    <2>1. Len(packets) <= q + 1
      BY <1>1, <1>9
    <2> QED
      BY <1>2, <2>1, Zenon DEF Pushed, Packet
  <1>11. Laid(Contents \o stream, Len(packets), q, client)
    BY <1>1, Zenon DEF Parsing
  <1>12. Contents \in Seq(Byte) /\ Contents \o stream \in Seq(Byte)
    BY <1>1, RingFront, Zenon
  <1>13. Laid((Contents \o stream) \o w, Len(packets), q + 1, client)
    BY <1>1, <1>5, <1>9, <1>11, <1>12, LaidAppend, Zenon
  <1>14. Contents \o (stream \o w) = (Contents \o stream) \o w
    BY <1>5, <1>6, <1>12, ConcatAssoc, ZenonT(40)
  <1>15. First' = First /\ (First <= q => First <= q + 1)
    BY <1>1, <1>2, <1>9 DEF First
  <1>16. Laid(Contents' \o stream', Len(packets'), sentPackets', client')
    BY <1>2, <1>4, <1>13, <1>14, Zenon
  <1>17. Parsing'
    <2>1. open' => Laid(Contents \o stream, Len(packets), sentPackets, client)'
      BY <1>16, Zenon DEF Laid, LaidAt, At
    <2>2. (step \in {"cut", "erase"})' => First' <= sentPackets' /\ PacketLen[First'] <= nDataSize'
      BY <1>2, <1>3, <1>15, Zenon DEF Parsing
    <2>3. step' = "cut" => Len(dest') > 0 /\ dest'[1] = At(client', First', 1)
      BY <1>2, <1>3, <1>15, Zenon DEF Parsing
    <2>4. step' = "erase" => dest' = Packet(client', First')
      BY <1>2, <1>3, <1>15, Zenon DEF Parsing
    <2>5. step' # "recv" => open'
      BY <1>2, Zenon DEF Parsing
    <2> QED
      BY <2>1, <2>2, <2>3, <2>4, <2>5, Zenon DEF Parsing, At, Packet
  <1>18. OneByOne'
    BY <1>2, <1>3, <1>15, Zenon DEF OneByOne
  <1> QED
    BY <1>4, <1>8, <1>10, <1>17, <1>18, Zenon

\* When each completion brings one packet, it is the first of those under way.
LEMMA WholeCompletion ==
    ASSUME RecvInv, Unmixed, RecvTypeOK, RingInv, Pushed, Parsing, OneByOne, onePacket,
           NEW n \in 1..BufferSize, RecvComplete(n)
    PROVE  nDataSize = 0 /\ First <= sentPackets /\ n = PacketLen[First]
  <1>1. /\ open /\ step = "recv" /\ n <= Len(stream)
        /\ n = PacketLen[stream[1].packet]
    BY Zenon DEF RecvComplete
  <1>2. nDataSize = 0
    BY <1>1, Zenon DEF OneByOne
  <1>3. /\ Contents \in Seq(Byte) /\ Len(Contents) = 0 /\ stream \in Seq(Byte)
    BY <1>1, <1>2, RingFront, Zenon DEF RecvTypeOK
  <1>4. Contents \o stream = stream
    BY <1>3
  <1>5. Len(stream) > 0
    BY <1>1, <1>3
  <1>6. /\ First <= sentPackets /\ PacketLen[First] \in Nat \ {0}
        /\ \A i \in 1..PacketLen[First] : stream[i] = At(client, First, i)
    BY <1>1, <1>4, <1>5, RingFront, Zenon
  <1>7. stream[1] = At(client, First, 1)
    <2>1. 1 \in 1..PacketLen[First]
      BY <1>6
    <2> QED
      BY <1>6, <2>1, Zenon
  <1>8. stream[1].packet = First
    BY <1>7 DEF At
  <1> QED
    BY <1>1, <1>2, <1>6, <1>8, Zenon

LEMMA CompleteInv ==
    ASSUME RecvInv, Unmixed, RecvTypeOK, RingInv, Pushed, Parsing, OneByOne,
           NEW n \in 1..BufferSize, RecvComplete(n)
    PROVE  RecvTypeOK' /\ RingInv' /\ Pushed' /\ Parsing' /\ OneByOne'
  <1> DEFINE u == SubSeq(stream, 1, n)
             v == SubSeq(stream, n + 1, Len(stream))
  <1>1. /\ open /\ step = "recv" /\ n <= Len(stream) /\ stream' = v
        /\ UNCHANGED <<onePacket, client, sentPackets, packets>>
    BY Zenon DEF RecvComplete
  <1>2. stream \in Seq(Byte)
    BY Zenon DEF RecvTypeOK
  <1>3. u \in Seq(Byte) /\ v \in Seq(Byte) /\ n \in 0..Len(stream) /\ Len(u) = n
    BY <1>1, <1>2
  <1>4. Pushed' /\ First' = First
    BY <1>1, Zenon DEF Pushed, Packet, First
  <1>5. Contents \in Seq(Byte) /\ Len(Contents) = nDataSize
    BY <1>1, RingFront, Zenon
  <1>6. CASE n > GetEmptySize /\ Disconnect /\ UNCHANGED ringVars
    <2>1. RingInv'
      BY <1>6, RingInvSame, Zenon
    <2>2. open' = FALSE /\ step' = "recv"
      BY <1>6, Zenon DEF Disconnect
    <2>3. RecvTypeOK'
      BY <1>1, <1>3, <2>2, Zenon DEF RecvTypeOK
    <2>4. Parsing'
      BY <2>2 DEF Parsing
    <2>5. ~onePacket
      <3> SUFFICES ASSUME onePacket PROVE FALSE
        OBVIOUS
      <3>1. nDataSize = 0
        BY WholeCompletion, Zenon
      <3> QED
        BY <1>6, <3>1 DEF GetEmptySize
    <2>6. OneByOne'
      BY <1>1, <2>5, Zenon DEF OneByOne
    <2> QED
      BY <1>4, <2>1, <2>3, <2>4, <2>6, Zenon
  <1>7. CASE n <= GetEmptySize /\ Write(u) /\ step' = "parse" /\ UNCHANGED open
    <2>1. RingInv' /\ Contents' = Contents \o u
      BY <1>3, <1>7, WriteInv, WriteAppends, Zenon
    <2>2. step' = "parse" /\ open' = open /\ nDataSize' = nDataSize + n
      BY <1>3, <1>7, Zenon DEF Write
    <2>3. RecvTypeOK'
      BY <1>1, <1>3, <2>2, Zenon DEF RecvTypeOK
    <2>4. Contents' \o stream' = Contents \o stream
      BY <1>1, <1>2, <1>3, <1>5, <2>1, Rejoin, Zenon
    <2>5. Laid(Contents' \o stream', Len(packets'), sentPackets', client')
      BY <1>1, <2>4, Zenon DEF Parsing
    <2>6. Parsing'
      <3>1. open' => Laid(Contents \o stream, Len(packets), sentPackets, client)'
        BY <2>5, Zenon DEF Laid, LaidAt, At
      <3> QED
        BY <1>1, <2>2, <3>1 DEF Parsing
    <2>7. OneByOne'
      <3>1. ASSUME onePacket PROVE First' <= sentPackets' /\ nDataSize' = PacketLen[First']
        <4>1. nDataSize = 0 /\ First <= sentPackets /\ n = PacketLen[First]
          BY <3>1, WholeCompletion, Zenon
        <4>2. nDataSize' = n
          BY <2>2, <4>1
        <4> QED
          BY <1>1, <1>4, <4>1, <4>2, Zenon
      <3>2. step' # "recv"
        BY <2>2
      <3> QED
        BY <1>1, <3>1, <3>2, Zenon DEF OneByOne
    <2> QED
      BY <1>4, <2>1, <2>3, <2>6, <2>7, Zenon
  <1> QED
    BY <1>6, <1>7, Zenon DEF RecvComplete

\* Read shows the front of the ring.
LEMMA ReadFront ==
    ASSUME RingInv, NEW n \in Nat, Read(n)
    PROVE  /\ RingInv' /\ Contents' = Contents /\ nDataSize' = nDataSize
           /\ n <= nDataSize /\ Len(dest') = n
           /\ \A i \in 1..n : dest'[i] = Contents[i]
  <1>1. n <= nDataSize /\ UNCHANGED <<buffer, pRead, pWrite, nDataSize>>
    BY Zenon DEF Read
  <1>2. n \in 0..BufferSize
    BY <1>1 DEF RingInv, RingTypeOK
  <1>3. RingInv' /\ dest' = SubSeq(Contents, 1, n)
    BY <1>2, ReadInv, ReadShows, Zenon
  <1>4. Contents' = Contents
    BY <1>1, ContentsSame, Zenon
  <1>5. Contents \in Seq(Byte) /\ Len(Contents) = nDataSize
    BY ContentsSeq, Zenon DEF RingInv
  <1>6. Len(SubSeq(Contents, 1, n)) = n /\ \A i \in 1..n : SubSeq(Contents, 1, n)[i] = Contents[i]
    BY <1>1, <1>5
  <1> QED
    BY <1>1, <1>3, <1>4, <1>6, Zenon

\* A disconnect in DataParser leaves the invariant, unless each completion brings
\* one packet; then there is none.
LEMMA DropInv ==
    ASSUME RecvTypeOK, Pushed, RingInv', ~onePacket, Disconnect, UNCHANGED peerVars, UNCHANGED packets
    PROVE  RecvTypeOK' /\ RingInv' /\ Pushed' /\ Parsing' /\ OneByOne'
  <1>1. /\ open' = FALSE /\ step' = "recv"
        /\ UNCHANGED <<onePacket, client, sentPackets, stream, packets>>
    BY Zenon DEF Disconnect, peerVars
  <1>2. RecvTypeOK'
    BY <1>1, Zenon DEF RecvTypeOK
  <1>3. Pushed'
    BY <1>1 DEF Pushed, Packet
  <1>4. Parsing' /\ OneByOne'
    BY <1>1 DEF Parsing, OneByOne
  <1> QED
    BY <1>2, <1>3, <1>4, Zenon

\* A step of the worker that changes neither what is under way nor what was
\* pushed keeps the packets laid out.
LEMMA StillLaid ==
    ASSUME RecvTypeOK, Pushed, Parsing, open, UNCHANGED peerVars, UNCHANGED <<packets, open>>, Contents' = Contents
    PROVE  /\ Pushed' /\ First' = First
           /\ UNCHANGED <<onePacket, client, sentPackets, stream>>
           /\ Laid(Contents \o stream, Len(packets), sentPackets, client)'
  <1>1. UNCHANGED <<onePacket, client, sentPackets, stream, packets>>
    BY Zenon DEF peerVars
  <1>2. Laid(Contents' \o stream', Len(packets'), sentPackets', client')
    BY <1>1, Zenon DEF Parsing
  <1>3. Pushed' /\ First' = First
    BY <1>1 DEF Pushed, Packet, First
  <1> QED
    BY <1>1, <1>2, <1>3, Zenon DEF Laid, LaidAt, At

LEMMA ParserInv ==
    ASSUME RecvInv, Unmixed, RecvTypeOK, RingInv, Pushed, Parsing, OneByOne, DataParser
    PROVE  RecvTypeOK' /\ RingInv' /\ Pushed' /\ Parsing' /\ OneByOne'
  <1>1. step = "parse" /\ UNCHANGED peerVars /\ UNCHANGED <<recvRef, packets>>
    BY Zenon DEF DataParser
  <1>2. open
    BY <1>1 DEF Parsing
  <1>3. HeadSize \in Nat \ {0} /\ HeadSize \in Nat /\ Len(PacketLen) \in Nat
    BY RecvAssumption
  <1>4. Contents \in Seq(Byte) /\ nDataSize \in 0..BufferSize
    BY <1>2, RingFront, Zenon
  <1>5. ASSUME onePacket
        PROVE  First <= sentPackets /\ nDataSize = PacketLen[First] /\ nDataSize > HeadSize
    <2>1. First <= sentPackets /\ nDataSize = PacketLen[First]
      BY <1>1, <1>5 DEF OneByOne
    <2>2. First \in DOMAIN PacketLen
      BY <2>1, RecvAssumption DEF First, Pushed, RecvTypeOK
    <2>3. PacketLen[First] > HeadSize
      BY <2>2, LengthType, Zenon
    <2> QED
      BY <2>1, <2>3, Zenon
  <1>6. CASE nDataSize < HeadSize /\ Disconnect /\ UNCHANGED ringVars
    <2>1. ~onePacket
      BY <1>3, <1>4, <1>5, <1>6
    <2>2. RingInv'
      BY <1>6, RingInvSame, Zenon
    <2> QED
      BY <1>1, <1>6, <2>1, <2>2, DropInv, Zenon
  <1>7. CASE nDataSize >= HeadSize /\ Read(HeadSize)
    <2>1. /\ RingInv' /\ Contents' = Contents /\ nDataSize' = nDataSize
          /\ Len(dest') = HeadSize /\ \A i \in 1..HeadSize : dest'[i] = Contents[i]
      BY <1>3, <1>7, ReadFront, Zenon
    <2>2. nDataSize > 0 /\ 1 \in 1..HeadSize /\ 1 \in 1..nDataSize
      BY <1>3, <1>4, <1>7
    <2>3. /\ First <= sentPackets /\ PacketLen[First] \in Nat \ {0}
          /\ \A i \in 1..nDataSize : i <= PacketLen[First] => Contents[i] = At(client, First, i)
      BY <1>2, <2>2, ContentsFront, Zenon
    <2>4. 1 <= PacketLen[First]
      BY <2>3
    <2>5. dest'[1] = At(client, First, 1)
      BY <2>1, <2>2, <2>3, <2>4, Zenon
    <2>6. dest'[1].at = 1 /\ dest'[1].packet = First
      BY <2>5 DEF At
    <2>7. Length(dest') = PacketLen[First]
      BY <2>6, Zenon DEF Length
    <2>8. CASE (dest'[1].at # 1 \/ Length(dest') > nDataSize) /\ Disconnect
      <3>1. PacketLen[First] > nDataSize
        BY <2>6, <2>7, <2>8, Zenon
      <3>2. ~onePacket
        BY <1>4, <1>5, <3>1
      <3> QED
        BY <1>1, <2>1, <2>8, <3>2, DropInv, Zenon
    <2>9. CASE Length(dest') <= nDataSize /\ step' = "cut" /\ UNCHANGED open
      <3>1. /\ Pushed' /\ First' = First
            /\ UNCHANGED <<onePacket, client, sentPackets, stream>>
            /\ Laid(Contents \o stream, Len(packets), sentPackets, client)'
        BY <1>1, <1>2, <2>1, <2>9, StillLaid, Zenon
      <3>2. RecvTypeOK'
        BY <2>9, <3>1, Zenon DEF RecvTypeOK
      <3>3. Len(dest') > 0 /\ dest'[1] = At(client', First', 1)
        <4>1. Len(dest') > 0
          BY <1>3, <2>1
        <4> QED
          BY <2>5, <3>1, <4>1, Zenon
      <3>4. First' <= sentPackets' /\ PacketLen[First'] <= nDataSize'
        BY <2>1, <2>3, <2>7, <2>9, <3>1, Zenon
      <3>5. step' # "recv" /\ step' # "erase" /\ step' = "cut" /\ open'
        BY <1>2, <2>9
      <3>6. Parsing'
        <4>1. (step = "cut" => Len(dest) > 0 /\ dest[1] = At(client, First, 1))'
          BY <3>3, Zenon DEF At
        <4> QED
          BY <3>1, <3>4, <3>5, <4>1, Zenon DEF Parsing
      <3>7. OneByOne'
        BY <1>5, <2>1, <3>1, <3>5, Zenon DEF OneByOne
      <3> QED
        BY <2>1, <3>1, <3>2, <3>6, <3>7, Zenon
    <2> QED
      BY <1>3, <1>4, <1>7, <2>8, <2>9 DEF DataParser
  <1> QED
    BY <1>6, <1>7, Zenon DEF DataParser

LEMMA CutInv ==
    ASSUME RecvInv, Unmixed, RecvTypeOK, RingInv, Pushed, Parsing, OneByOne, CutPacket
    PROVE  RecvTypeOK' /\ RingInv' /\ Pushed' /\ Parsing' /\ OneByOne'
  <1>1. /\ step = "cut" /\ step' = "erase" /\ Read(Length(dest))
        /\ UNCHANGED peerVars /\ UNCHANGED <<open, recvRef, packets>>
    BY Zenon DEF CutPacket
  <1>2. open /\ First <= sentPackets /\ PacketLen[First] <= nDataSize /\ dest[1] = At(client, First, 1)
    BY <1>1 DEF Parsing
  <1>3. Length(dest) = PacketLen[First]
    BY <1>2 DEF Length, At
  <1>4. First \in DOMAIN PacketLen
    BY <1>2, RecvAssumption DEF First, Pushed, RecvTypeOK
  <1>5. client \in 1..MaxClients /\ nDataSize \in 0..BufferSize
    BY Zenon DEF RecvTypeOK, RingInv, RingTypeOK
  <1>6. /\ PacketLen[First] \in Nat \ {0} /\ Packet(client, First) \in Seq(Byte)
        /\ Len(Packet(client, First)) = PacketLen[First]
        /\ \A i \in 1..PacketLen[First] : Packet(client, First)[i] = At(client, First, i)
    BY <1>4, <1>5, PacketSeq, Zenon
  <1>7. PacketLen[First] \in Nat
    BY <1>6
  <1>8. /\ RingInv' /\ Contents' = Contents /\ nDataSize' = nDataSize
        /\ Len(dest') = PacketLen[First]
        /\ \A i \in 1..PacketLen[First] : dest'[i] = Contents[i]
    BY <1>1, <1>3, <1>7, ReadFront, Zenon
  <1>9. nDataSize > 0
    BY <1>2, <1>5, <1>6
  <1>10. \A i \in 1..nDataSize : i <= PacketLen[First] => Contents[i] = At(client, First, i)
    BY <1>2, <1>9, ContentsFront, Zenon
  <1>11. \A i \in 1..PacketLen[First] : i \in 1..nDataSize /\ i <= PacketLen[First]
    BY <1>2, <1>5, <1>7
  <1>12. \A i \in 1..PacketLen[First] : dest'[i] = Packet(client, First)[i]
    BY <1>6, <1>8, <1>10, <1>11, Zenon
  <1>13. dest' = Packet(client, First)
    <2>1. dest' \in Seq(Byte)
      BY <1>8, Zenon DEF RingInv, RingTypeOK
    <2>2. Len(dest') = Len(Packet(client, First))
      BY <1>6, <1>8, Zenon
    <2>3. \A i \in 1..Len(dest') : dest'[i] = Packet(client, First)[i]
      BY <1>8, <1>12, Zenon
    <2> QED
      BY <1>6, <2>1, <2>2, <2>3, SeqEqual
  <1>14. /\ Pushed' /\ First' = First
         /\ UNCHANGED <<onePacket, client, sentPackets, stream>>
         /\ Laid(Contents \o stream, Len(packets), sentPackets, client)'
    BY <1>1, <1>2, <1>8, StillLaid, Zenon
  <1>15. RecvTypeOK'
    BY <1>1, <1>14, Zenon DEF RecvTypeOK
  <1>16. Parsing'
    <2>1. step' # "cut" /\ step' # "recv" /\ step' = "erase" /\ open'
      BY <1>1, <1>2
    <2>2. First' <= sentPackets' /\ PacketLen[First'] <= nDataSize'
      BY <1>2, <1>8, <1>14, Zenon
    <2>3. (dest = Packet(client, First))'
      BY <1>13, <1>14, Zenon DEF Packet
    <2> QED
      BY <1>14, <2>1, <2>2, <2>3, Zenon DEF Parsing
  <1>17. OneByOne'
    <2>1. step' # "recv" /\ step # "recv"
      BY <1>1
    <2> QED
      BY <1>8, <1>14, <2>1, Zenon DEF OneByOne
  <1> QED
    BY <1>8, <1>14, <1>15, <1>16, <1>17, Zenon

LEMMA AppendParts ==
    ASSUME NEW s \in Seq(Seq(Byte)), NEW w \in Seq(Byte)
    PROVE  /\ Append(s, w) \in Seq(Seq(Byte)) /\ Len(Append(s, w)) = Len(s) + 1
           /\ DOMAIN Append(s, w) = 1..(Len(s) + 1) /\ DOMAIN s = 1..Len(s)
           /\ Append(s, w)[Len(s) + 1] = w
           /\ \A k \in 1..Len(s) : Append(s, w)[k] = s[k]
  OBVIOUS

LEMMA ErasePacketInv ==
    ASSUME RecvInv, Unmixed, RecvTypeOK, RingInv, Pushed, Parsing, OneByOne, ErasePacket
    PROVE  RecvTypeOK' /\ RingInv' /\ Pushed' /\ Parsing' /\ OneByOne'
  <1> DEFINE n == PacketLen[First]
             p == Len(packets)
  <1>1. /\ step = "erase" /\ step' = "recv" /\ Erase(Len(dest)) /\ packets' = Append(packets, dest)
        /\ UNCHANGED peerVars /\ open' = open
    BY Zenon DEF ErasePacket
  <1>2. UNCHANGED <<onePacket, client, sentPackets, stream>>
    BY <1>1, Zenon DEF peerVars
  <1>3. open /\ First <= sentPackets /\ n <= nDataSize /\ dest = Packet(client, First)
    BY <1>1 DEF Parsing
  <1>4. packets \in Seq(Seq(Byte)) /\ p \in Nat /\ First = p + 1 /\ p < sentPackets
        /\ sentPackets \in 0..Len(PacketLen) /\ client \in 1..MaxClients /\ stream \in Seq(Byte)
    BY <1>3 DEF First, Pushed, RecvTypeOK
  <1>5. First \in DOMAIN PacketLen
    BY <1>3, RecvAssumption DEF First, Pushed, RecvTypeOK
  <1>6. n \in Nat /\ n \in Nat \ {0} /\ dest \in Seq(Byte) /\ Len(dest) = n
    BY <1>3, <1>4, <1>5, PacketSeq
  <1>7. Contents \in Seq(Byte) /\ Len(Contents) = nDataSize /\ nDataSize \in 0..BufferSize
    BY <1>3, RingFront, Zenon
  <1>8. n \in 0..BufferSize /\ n \in 0..Len(Contents)
    BY <1>3, <1>6, <1>7
  <1>9. RingInv' /\ Contents' = SubSeq(Contents, n + 1, Len(Contents)) /\ nDataSize' = nDataSize - n
    <2>1. Erase(n)
      BY <1>1, <1>6, Zenon
    <2>2. nDataSize' = nDataSize - n
      BY <2>1, Zenon DEF Erase
    <2> QED
      BY <1>8, <2>1, <2>2, EraseInv, EraseDrops, Zenon
  <1>10. Contents' \o stream' = SubSeq(Contents \o stream, n + 1, Len(Contents \o stream))
    BY <1>2, <1>4, <1>7, <1>8, <1>9, DropFront, Zenon
  <1>11. /\ packets' \in Seq(Seq(Byte)) /\ Len(packets') = p + 1
         /\ DOMAIN packets' = 1..(p + 1) /\ DOMAIN packets = 1..p
         /\ packets'[p + 1] = dest /\ \A k \in 1..p : packets'[k] = packets[k]
    BY <1>1, <1>4, <1>6, AppendParts, Zenon
  <1>12. Pushed'
    <2>1. Len(packets') <= sentPackets'
      BY <1>2, <1>4, <1>11
    <2>2. ASSUME NEW k \in 1..(p + 1) PROVE packets'[k] = Packet(client, k)
      <3>1. CASE k = p + 1
        BY <1>3, <1>4, <1>11, <3>1, Zenon
      <3>2. CASE k # p + 1
        <4>1. k \in 1..p
          BY <1>4, <3>2
        <4> QED
          BY <1>11, <4>1, Zenon DEF Pushed
      <3> QED
        BY <3>1, <3>2
    <2>3. (\A k \in DOMAIN packets : packets[k] = Packet(client, k))'
      BY <1>2, <1>11, <2>2, Zenon DEF Packet
    <2> QED
      BY <1>11, <2>1, <2>3, Zenon DEF Pushed
  <1>13. Laid(SubSeq(Contents \o stream, n + 1, Len(Contents \o stream)), p + 1, sentPackets, client)
    <2>1. Laid(Contents \o stream, p, sentPackets, client)
      BY <1>3, Zenon DEF Parsing
    <2>2. Contents \o stream \in Seq(Byte)
      BY <1>3, RingFront, Zenon
    <2> QED
      BY <1>4, <2>1, <2>2, LaidDrop, Zenon
  <1>14. Laid(Contents' \o stream', Len(packets'), sentPackets', client')
    BY <1>2, <1>10, <1>11, <1>13, Zenon
  <1>15. Parsing'
    <2>1. Laid(Contents \o stream, Len(packets), sentPackets, client)'
      BY <1>14, Zenon DEF Laid, LaidAt, At
    <2> QED
      BY <1>1, <2>1 DEF Parsing
  <1>16. RecvTypeOK'
    BY <1>1, <1>2, Zenon DEF RecvTypeOK
  <1>17. OneByOne'
    <2>1. onePacket => nDataSize = n
      BY <1>1 DEF OneByOne
    <2>2. onePacket => nDataSize' = 0
      BY <1>6, <1>9, <2>1
    <2> QED
      BY <1>1, <1>2, <2>2, Zenon DEF OneByOne
  <1> QED
    BY <1>9, <1>12, <1>15, <1>16, <1>17, Zenon

LEMMA CloseInv ==
    ASSUME RecvInv, Unmixed, RecvTypeOK, RingInv, Pushed, Parsing, OneByOne, PeerClose
    PROVE  RecvTypeOK' /\ RingInv' /\ Pushed' /\ Parsing' /\ OneByOne'
  <1>1. /\ open' = FALSE /\ step = "recv" /\ UNCHANGED peerVars /\ UNCHANGED <<step, packets>>
        /\ UNCHANGED ringVars
    BY Zenon DEF PeerClose
  <1>2. UNCHANGED <<onePacket, client, sentPackets, stream, nDataSize>>
    BY <1>1, Zenon DEF peerVars, ringVars
  <1>3. RingInv'
    BY <1>1, RingInvSame, Zenon
  <1>4. RecvTypeOK'
    BY <1>1, <1>2, Zenon DEF RecvTypeOK
  <1>5. Pushed'
    BY <1>1, <1>2 DEF Pushed, Packet
  <1>6. Parsing'
    BY <1>1 DEF Parsing
  <1>7. OneByOne'
    BY <1>1, <1>2 DEF OneByOne
  <1> QED
    BY <1>3, <1>4, <1>5, <1>6, <1>7, Zenon

\* The next client finds the ring empty when each completion brings one packet;
\* otherwise it is not the first client and nothing is claimed.
LEMMA ReacceptInv ==
    ASSUME RecvInv, Unmixed, Unmixed', RecvTypeOK, RingInv, Pushed, Parsing, OneByOne, Reaccept
    PROVE  RecvTypeOK' /\ RingInv' /\ Pushed' /\ Parsing' /\ OneByOne'
  <1>1. /\ ~open /\ client < MaxClients /\ client' = client + 1 /\ sentPackets' = 0
        /\ stream' = << >> /\ packets' = << >> /\ open' = TRUE /\ UNCHANGED <<onePacket, step>>
        /\ UNCHANGED ringVars
    BY Zenon DEF Reaccept
  <1>2. UNCHANGED nDataSize
    BY <1>1, Zenon DEF ringVars
  <1>3. RingInv' /\ Contents' = Contents
    BY <1>1, RingInvSame, Zenon
  <1>4. client \in 1..MaxClients /\ MaxClients \in Nat /\ Len(PacketLen) \in Nat
    BY RecvAssumption DEF RecvTypeOK
  <1>5. client' \in 1..MaxClients /\ client' # 1
    BY <1>1, <1>4
  <1>6. onePacket
    BY <1>1, <1>5, Zenon DEF Unmixed
  <1>7. step = "recv" /\ nDataSize = 0
    BY <1>1, <1>6, Zenon DEF Parsing, OneByOne
  <1>8. Contents' \o stream' = << >>
    <2>1. Contents \in Seq(Byte) /\ Len(Contents) = 0
      BY <1>7, ContentsSeq, Zenon DEF RingInv
    <2>2. Contents = << >>
      BY <2>1
    <2> QED
      BY <1>1, <1>3, <2>2
  <1>9. RecvTypeOK'
    BY <1>1, <1>4, <1>5 DEF RecvTypeOK
  <1>10. Pushed'
    BY <1>1 DEF Pushed
  <1>11. Laid(Contents' \o stream', Len(packets'), sentPackets', client')
    <2>1. Laid(<< >>, 0, 0, client')
      BY LaidEmpty
    <2>2. Len(packets') = 0
      BY <1>1
    <2> QED
      BY <1>1, <1>8, <2>1, <2>2, Zenon
  <1>12. Parsing'
    <2>1. Laid(Contents \o stream, Len(packets), sentPackets, client)'
      BY <1>11, Zenon DEF Laid, LaidAt, At
    <2> QED
      BY <1>1, <1>7, <2>1 DEF Parsing
  <1>13. OneByOne'
    BY <1>1, <1>2, <1>7 DEF OneByOne
  <1> QED
    BY <1>3, <1>9, <1>10, <1>12, <1>13, Zenon

LEMMA IdleInv ==
    ASSUME RecvInv, Unmixed, RecvTypeOK, RingInv, Pushed, Parsing, OneByOne, UNCHANGED vars
    PROVE  RecvTypeOK' /\ RingInv' /\ Pushed' /\ Parsing' /\ OneByOne'
  <1>1. /\ UNCHANGED <<onePacket, client, sentPackets, stream, open, step, packets, nDataSize, dest>>
        /\ UNCHANGED ringVars
    BY Zenon DEF vars, peerVars, ringVars
  <1>2. RingInv' /\ Contents' = Contents
    BY <1>1, RingInvSame, Zenon
  <1>3. RecvTypeOK' /\ OneByOne'
    BY <1>1 DEF RecvTypeOK, OneByOne, First
  <1>4. Pushed'
    BY <1>1 DEF Pushed, Packet
  <1>5. Parsing'
    <2>1. open' => Laid(Contents' \o stream', Len(packets'), sentPackets', client')
      BY <1>1, <1>2, Zenon DEF Parsing
    <2>2. open' => Laid(Contents \o stream, Len(packets), sentPackets, client)'
      BY <2>1, Zenon DEF Laid, LaidAt, At
    <2>3. First' = First
      BY <1>1 DEF First
    <2>4. /\ (step = "cut" => Len(dest) > 0 /\ dest[1] = At(client, First, 1))'
          /\ (step = "erase" => dest = Packet(client, First))'
      BY <1>1, <2>3 DEF Parsing, At, Packet
    <2>5. /\ (step # "recv" => open)'
          /\ (step \in {"cut", "erase"} => First <= sentPackets /\ PacketLen[First] <= nDataSize)'
      BY <1>1, <2>3 DEF Parsing
    <2> QED
      BY <2>2, <2>4, <2>5, Zenon DEF Parsing
  <1> QED
    BY <1>2, <1>3, <1>4, <1>5, Zenon

LEMMA ClientType == ASSUME RecvInv, [Next]_vars PROVE client' \in 1..MaxClients
  <1>1. client' = client \/ (client < MaxClients /\ client' = client + 1)
    BY Zenon DEF Next, vars, peerVars, ClientSends, DoRecv, RecvComplete, DataParser, CutPacket,
                 ErasePacket, PeerClose, Reaccept, Rest
  <1>2. MaxClients \in Nat
    BY RecvAssumption
  <1> QED
    BY <1>1, <1>2 DEF RecvInv

LEMMA RecvNextInv == RecvInv /\ [Next]_vars => RecvInv'
  <1> SUFFICES ASSUME RecvInv, [Next]_vars, Unmixed'
               PROVE  RecvTypeOK' /\ RingInv' /\ Pushed' /\ Parsing' /\ OneByOne'
    BY ClientType, Zenon DEF RecvInv
  <1>1. Unmixed /\ RecvTypeOK /\ RingInv /\ Pushed /\ Parsing /\ OneByOne
    BY UnmixedBefore, Zenon
  <1>2. CASE ClientSends
    BY <1>1, <1>2, SendsInv, Zenon
  <1>3. ASSUME NEW n \in 1..BufferSize, RecvComplete(n)
        PROVE  RecvTypeOK' /\ RingInv' /\ Pushed' /\ Parsing' /\ OneByOne'
    BY <1>1, <1>3, CompleteInv, Zenon
  <1>4. CASE DataParser
    BY <1>1, <1>4, ParserInv, Zenon
  <1>5. CASE CutPacket
    BY <1>1, <1>5, CutInv, Zenon
  <1>6. CASE ErasePacket
    BY <1>1, <1>6, ErasePacketInv, Zenon
  <1>7. CASE PeerClose
    BY <1>1, <1>7, CloseInv, Zenon
  <1>8. CASE Reaccept
    BY <1>1, <1>8, ReacceptInv, Zenon
  <1>9. CASE UNCHANGED vars
    BY <1>1, <1>9, IdleInv, Zenon
  <1> QED
    BY <1>2, <1>3, <1>4, <1>5, <1>6, <1>7, <1>8, <1>9, Zenon DEF Next, DoRecv, Rest

\* Invariance: what DoRecv pushes to RecvPacketQueue is whole packets, the ones
\* the client sent, in order and none twice, whatever pieces the stream arrives
\* in and wherever _RecvDataBuffer wraps; for a later client of the object, when
\* completions bring one packet each.  For every sequence of packet lengths,
\* buffer size, head size and number of clients.
THEOREM PacketsAlwaysWhole == Spec => []WholePackets
  <1>1. RecvInv => WholePackets
    BY Zenon DEF RecvInv, WholePackets, Unmixed, Pushed
  <1> QED
    BY <1>1, RecvInitInv, RecvNextInv, PTL DEF Spec
=============================================================================
