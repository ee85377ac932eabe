---------------------------- MODULE CircleBuffer ----------------------------
(***************************************************************************)
(* CircleBuffer (_framework/buffer.h): the ring in which a Connector       *)
(* gathers the bytes it received until a whole packet is there.  Pointers  *)
(* are offsets from _pHead, so _pTail is BufferSize; a pointer that ran    *)
(* exactly to the end stays there (it is BufferSize, not 0) until the next *)
(* call that crosses the end.  Every operation runs under the buffer's     *)
(* lock and is one step.                                                   *)
(***************************************************************************)
EXTENDS Integers, Sequences

CONSTANTS Byte,        \* the values a byte of the buffer can have
          Zero,        \* what Reset fills the buffer with
          BufferSize,  \* _nBufferSize
          Data         \* the blocks given to Write

ASSUME SizeAssumption == BufferSize \in Nat \ {0}
ASSUME ByteAssumption == Zero \in Byte /\ Data \subseteq Seq(Byte)

VARIABLES buffer,     \* *_pBuffer
          pRead,      \* _pRead - _pHead
          pWrite,     \* _pWrite - _pHead
          nDataSize,  \* _nDataSize
          dest        \* what the last Read copied to its pDest

ringVars == <<buffer, pRead, pWrite, nDataSize, dest>>

RingTypeOK ==
    /\ buffer \in [0..(BufferSize - 1) -> Byte]
    /\ pRead \in 0..BufferSize
    /\ pWrite \in 0..BufferSize
    /\ nDataSize \in 0..BufferSize
    /\ dest \in Seq(Byte)

\* The constructor leaves the allocated bytes uninitialised.
RingInit ==
    /\ buffer \in [0..(BufferSize - 1) -> Byte]
    /\ pRead = 0
    /\ pWrite = 0
    /\ nDataSize = 0
    /\ dest = << >>

-----------------------------------------------------------------------------
\* memcpy of block s into the buffer b at offset `at'.
CopyIn(b, at, s) ==
    [i \in DOMAIN b |-> IF at <= i /\ i < at + Len(s) THEN s[i - at + 1] ELSE b[i]]

\* memcpy of n bytes out of the buffer from offset `at'.
CopyOut(at, n) == [i \in 1..n |-> buffer[at + i - 1]]

\* Mutant of Write: the part that wraps is not copied.
WriteOneCopy(s) ==
    /\ Len(s) <= BufferSize - nDataSize
    /\ buffer' = CopyIn(buffer, pWrite, s)
    /\ pWrite' = IF BufferSize - pWrite < Len(s) THEN Len(s) - (BufferSize - pWrite) ELSE pWrite + Len(s)
    /\ nDataSize' = nDataSize + Len(s)
    /\ UNCHANGED <<pRead, dest>>

Write(s) ==
    LET nLen == Len(s)
        gap  == BufferSize - pWrite
    IN  /\ nLen <= BufferSize - nDataSize
        /\ IF gap < nLen
             THEN /\ buffer' = CopyIn(CopyIn(buffer, pWrite, SubSeq(s, 1, gap)),
                                      0, SubSeq(s, gap + 1, nLen))
                  /\ pWrite' = nLen - gap
             ELSE /\ buffer' = CopyIn(buffer, pWrite, s)
                  /\ pWrite' = pWrite + nLen
        /\ nDataSize' = nDataSize + nLen
        /\ UNCHANGED <<pRead, dest>>

\* Read copies and keeps the data: the caller erases it in a second call.
Read(n) ==
    LET gap == BufferSize - pRead
    IN  /\ n <= nDataSize
        /\ dest' = IF gap < n THEN CopyOut(pRead, gap) \o CopyOut(0, n - gap)
                              ELSE CopyOut(pRead, n)
        /\ UNCHANGED <<buffer, pRead, pWrite, nDataSize>>

Erase(n) ==
    LET gap == BufferSize - pRead
    IN  /\ n <= nDataSize
        /\ pRead' = IF gap < n THEN n - gap ELSE pRead + n
        /\ nDataSize' = nDataSize - n
        /\ UNCHANGED <<buffer, pWrite, dest>>

Reset ==
    /\ nDataSize' = 0
    /\ pRead' = 0
    /\ pWrite' = 0
    /\ buffer' = [i \in 0..(BufferSize - 1) |-> Zero]
    /\ UNCHANGED dest

RingNext ==
    \/ \E s \in Data : Write(s)
    \/ \E n \in 0..BufferSize : Read(n)
    \/ \E n \in 0..BufferSize : Erase(n)
    \/ Reset

RingSpec == RingInit /\ [][RingNext]_ringVars

-----------------------------------------------------------------------------
\* The three pieces of state that Write, Erase and Reset keep separately agree:
\* walking nDataSize bytes from the read pointer ends, wrapping at most once, at
\* the write pointer.
PointersAgree == pRead + nDataSize \in {pWrite, pWrite + BufferSize}

\* The bytes the buffer holds, in the order they arrived.
Wrap(k) == IF k < BufferSize THEN k ELSE k - BufferSize
Contents == [i \in 1..nDataSize |-> buffer[Wrap(pRead + i - 1)]]

RingFifo == INSTANCE Fifo WITH Elem <- Byte, queue <- Contents, seen <- dest

\* The ring is a FIFO byte channel: whatever the position of the pointers, Write
\* appends its block, Read shows the oldest bytes in order and Erase drops them.
RingIsFifo == RingFifo!Spec
=============================================================================
