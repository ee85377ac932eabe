----------------------------- MODULE PacketCodec -----------------------------
(***************************************************************************)
(* What a C# server gets back from the bytes another side serialised:      *)
(* Serializer.PacketSerializer (head, type, data, tail) and the Packet     *)
(* constructor that reads the same layout.  Everything in a packet is      *)
(* written as 4-byte words here; a word of the data is a small number.     *)
(* The two generations differ in one overload: Value(ref byte[], length)   *)
(* copies the bytes in _Network, and in _Common first reads a length word. *)
(***************************************************************************)
EXTENDS Integers, Sequences

WordBytes == 4
HeadWords == 2                 \* PacketHead: checkHead, packetLength
TailWords == 3                 \* PacketTail: checkTail, packetSeq, packetTime
CheckTail == 268435456         \* 0x10000000

\* PacketSerializer: the words of a packet of the given type and data.
PacketSerializer(type, data) ==
    << 0, WordBytes * (HeadWords + 1 + Len(data) + TailWords) >>
        \o << type >> \o data \o << CheckTail, 0, 0 >>

\* The data array PacketBody.Serialize allocates from the head's length.
DataWords(words) == words[2] \div WordBytes - HeadWords - TailWords - 1

\* First generation: the bytes behind the type are the data.
DecodeV1(words) ==
    SubSeq(words, HeadWords + 2, HeadWords + 1 + DataWords(words))

\* Second generation: the first word behind the type is taken as the number
\* of bytes to copy; the copy, and the tail that is read behind it, have to
\* fit in the packet, else an exception is thrown.  What is not copied stays
\* zero.
LengthV2(words) == words[HeadWords + 2]

FitsV2(words) ==
    /\ LengthV2(words) >= 0
    /\ WordBytes + LengthV2(words) <= WordBytes * DataWords(words)

DecodeV2(words) ==
    LET copied == (LengthV2(words) + WordBytes - 1) \div WordBytes
    IN  [i \in 1..DataWords(words) |->
            IF i <= copied THEN words[HeadWords + 2 + i] ELSE 0]

Decodes(generation, words) == generation = "v1" \/ FitsV2(words)

Decode(generation, words) ==
    IF generation = "v1" THEN DecodeV1(words) ELSE DecodeV2(words)
==============================================================================
