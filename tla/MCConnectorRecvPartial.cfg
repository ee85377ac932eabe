SPECIFICATION Spec
CONSTANTS
    Byte <- MCByte
    Zero <- MCZero
    Data <- MCData
    BufferSize <- MCBufferSize
    PacketLen <- MCPacketLen
    HeadSize = 2
    MaxClients = 2
PROPERTIES DropOnlyOnOverflow
