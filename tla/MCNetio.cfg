\* The receive buffer: window, framing, capacity, refinement of SynStream.
SPECIFICATION FairSpec
CONSTANTS
    Packet <- MCPacket
    PktLen <- MCPktLen
    Garbled <- MCGarbled
    NoPacket = NoPacket
    Misread = Misread
    HDR_SZ = 2
    WORD = 16
    SOCKBUF_SZ = 4
    SLACK = 1
    MaxSent = 16
INVARIANTS
    IInv
    Window
    NoOverflow
PROPERTIES
    StreamSpec
    AllParsed
\* The program stops for good after a failed reallocation.
CHECK_DEADLOCK FALSE
