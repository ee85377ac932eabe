---------------------------- MODULE ConnectorRecv ----------------------------
(***************************************************************************)
(* The receive side of one Connector (connector.cpp, Network::DoRecv,      *)
(* ParseNetworkData) over its ring (CircleBuffer): a completion brings     *)
(* some bytes of the client's stream, RecvComplete writes them to          *)
(* _RecvDataBuffer, reads the head of the packet in front, cuts that one   *)
(* packet off and queues it for ProcessThread.  Each call of the ring is a *)
(* step.                                                                   *)
(*                                                                         *)
(* A byte of the stream says which byte of which packet it is; a packet's  *)
(* length can be read once HeadSize bytes of it are there.                 *)
(***************************************************************************)
EXTENDS CircleBuffer

CONSTANTS PacketLen,   \* length of the packets a client sends, by number
          HeadSize,    \* sizeof(PacketHead)
          MaxClients   \* bound on the clients of this object

ASSUME RecvAssumption ==
    /\ PacketLen \in Seq(Nat \ {0}) /\ \A i \in DOMAIN PacketLen : PacketLen[i] > HeadSize
    /\ {HeadSize, MaxClients} \subseteq Nat \ {0}
    /\ \A c \in 1..MaxClients, k \in DOMAIN PacketLen : \A i \in 1..PacketLen[k] :
           [client |-> c, packet |-> k, at |-> i] \in Byte

VARIABLES onePacket,  \* in this behaviour, a completion brings exactly one
                      \* packet
          client,     \* number of the client
          sentPackets,\* packets the client has sent
          stream,     \* bytes on their way
          open,       \* _socket is valid
          recvRef,    \* _dwRecvRef
          step,       \* where the worker thread is in DoRecv
          packets     \* what was pushed to RecvPacketQueue for this client

peerVars == <<onePacket, client, sentPackets, stream>>
vars == <<peerVars, open, recvRef, step, packets, ringVars>>

Packet(c, k) == [i \in 1..PacketLen[k] |-> [client |-> c, packet |-> k, at |-> i]]

TypeOK ==
    /\ onePacket \in BOOLEAN
    /\ client \in 1..MaxClients
    /\ sentPackets \in 0..Len(PacketLen)
    /\ stream \in Seq(Byte)
    /\ open \in BOOLEAN
    /\ recvRef \in {0, 1}
    /\ step \in {"recv", "parse", "cut", "erase"}
    /\ packets \in Seq(Seq(Byte))

(* A client was accepted and the first receive is outstanding.  The ring   *)
(* holds nothing; what its uninitialised bytes are does not matter.        *)
Init ==
    /\ onePacket \in BOOLEAN
    /\ client = 1 /\ sentPackets = 0 /\ stream = << >>
    /\ open = TRUE /\ recvRef = 1 /\ step = "recv" /\ packets = << >>
    /\ buffer = [i \in 0..(BufferSize - 1) |-> Zero]
    /\ pRead = 0 /\ pWrite = 0 /\ nDataSize = 0 /\ dest = << >>

-----------------------------------------------------------------------------
ClientSends ==
    /\ open /\ sentPackets < Len(PacketLen)
    /\ sentPackets' = sentPackets + 1
    /\ stream' = stream \o Packet(client, sentPackets + 1)
    /\ UNCHANGED <<onePacket, client, open, recvRef, step, packets, ringVars>>

(* CircleBuffer::GetEmptySize.                                             *)
GetEmptySize == BufferSize - nDataSize

(* DoRecv disconnects.  Disconnect posts nothing: no receive is            *)
(* outstanding.                                                            *)
Disconnect == open' = FALSE /\ step' = "recv"

Complete == recvRef' = recvRef - 1

(* RecvComplete: the completion of the receive, with n bytes.              *)
RecvComplete(n) ==
    /\ open /\ step = "recv" /\ recvRef = 1
    /\ n <= Len(stream) /\ n <= BufferSize
    /\ onePacket => n = PacketLen[stream[1].packet]
    /\ stream' = SubSeq(stream, n + 1, Len(stream))
    /\ Complete
    /\ \/ n > GetEmptySize /\ Disconnect /\ UNCHANGED ringVars   \* does not fit
       \/ n <= GetEmptySize /\ Write(SubSeq(stream, 1, n)) /\ step' = "parse" /\ UNCHANGED open
    /\ UNCHANGED <<onePacket, client, sentPackets, packets>>

(* What the head of a packet says about its length.                        *)
LengthShort(head) == PacketLen[head[1].packet] - 1
Length(head) == PacketLen[head[1].packet]

(* ParseNetworkData, and RecvComplete when there is no packet to cut off:  *)
(* too few bytes for a head, no valid head, or not the whole packet.       *)
DataParser ==
    /\ step = "parse"
    /\ \/ nDataSize < HeadSize /\ Disconnect /\ UNCHANGED ringVars
       \/ /\ nDataSize >= HeadSize
          /\ Read(HeadSize)
          /\ \/ (dest'[1].at # 1 \/ Length(dest') > nDataSize) /\ Disconnect
             \/ dest'[1].at = 1 /\ Length(dest') <= nDataSize /\ step' = "cut" /\ UNCHANGED open
    /\ UNCHANGED <<peerVars, recvRef, packets>>

CutPacket ==
    /\ step = "cut"
    /\ Read(Length(dest))
    /\ step' = "erase"
    /\ UNCHANGED <<peerVars, open, recvRef, packets>>

(* RecvPrepare counts the receive that DoRecv then starts.                 *)
RecvUnprepared == UNCHANGED recvRef
RecvPrepare == recvRef' = recvRef + 1

(* The packet leaves the ring and goes to ProcessThread; the next receive. *)
ErasePacket ==
    /\ step = "erase"
    /\ Erase(Len(dest))
    /\ packets' = Append(packets, dest)
    /\ RecvPrepare
    /\ step' = "recv"
    /\ UNCHANGED <<peerVars, open>>

(* The client goes: a zero-byte completion ends the receive.               *)
PeerClose ==
    /\ open /\ step = "recv" /\ stream = << >>
    /\ open' = FALSE /\ recvRef' = 0
    /\ UNCHANGED <<peerVars, step, packets, ringVars>>

(* The object was released and is accepted into again; Release leaves      *)
(* _RecvDataBuffer as it is.                                               *)
Reaccept ==
    /\ ~open /\ client < MaxClients
    /\ client' = client + 1
    /\ sentPackets' = 0 /\ stream' = << >> /\ packets' = << >>
    /\ open' = TRUE /\ recvRef' = 1
    /\ UNCHANGED <<onePacket, step, ringVars>>

Rest == (~open \/ sentPackets = Len(PacketLen)) /\ UNCHANGED vars

DoRecv ==
    \/ \E n \in 1..BufferSize : RecvComplete(n)
    \/ DataParser \/ CutPacket \/ ErasePacket

Next == ClientSends \/ DoRecv \/ PeerClose \/ Reaccept \/ Rest

Spec == Init /\ [][Next]_vars

(* Bytes on their way arrive, and the worker threads take completions.     *)
FairSpec == Spec /\ WF_vars(DoRecv)

-----------------------------------------------------------------------------
(* ProcessThread gets whole packets, those the client sent, in order, none *)
(* twice, whatever pieces the stream arrives in and wherever the ring      *)
(* wraps.  For a later client of the object this needs completions that    *)
(* bring one packet each, since its predecessor's last bytes may still be  *)
(* in _RecvDataBuffer.                                                     *)
WholePackets == client = 1 \/ onePacket =>
    /\ Len(packets) <= sentPackets
    /\ \A k \in DOMAIN packets : packets[k] = Packet(client, k)

(* The server drops a connection only when the received data does not fit  *)
(* into _RecvDataBuffer (connector.h:71).                                  *)
DropOnlyOnOverflow ==
    [][open /\ ~open' /\ (step # "recv" \/ stream # << >>) =>
         step = "recv" /\ Len(stream) - Len(stream') > GetEmptySize]_vars

(* Every packet that was sent reaches ProcessThread: when each completion  *)
(* brings one packet, no byte stays behind in _RecvDataBuffer, for this    *)
(* client or the next one of the object.                                   *)
HandedOver == \A k \in DOMAIN PacketLen : (onePacket /\ sentPackets >= k) ~> (Len(packets) >= k)
=============================================================================
