--------------------------- MODULE MCConnectorRecv ---------------------------
(* Two clients with five packets, of three lengths, each; the blocks given  *)
(* to Write are the pieces of their streams.                                *)
EXTENDS ConnectorRecv, SequencesExt

MCPacketLen == <<3, 4, 3, 5, 4>>
MCBufferSize == 9
Stream(c) == FlattenSeq([k \in 1..Len(MCPacketLen) |->
                 [i \in 1..MCPacketLen[k] |-> [client |-> c, packet |-> k, at |-> i]]])
MCZero == [client |-> 0, packet |-> 0, at |-> 0]
MCByte == {MCZero} \cup UNION {ToSet(Stream(c)) : c \in {1, 2}}
MCData == {SubSeq(Stream(x[1]), x[2], x[2] + x[3] - 1) :
              x \in {y \in {1, 2} \X (1..19) \X (1..MCBufferSize) : y[2] + y[3] <= 20}}
=============================================================================
